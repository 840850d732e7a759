--------------------------- MODULE SamplesProofs ---------------------------
(***************************************************************************)
(* Proofs about Samples, for any pages, jobs and number of requests, on    *)
(* either engine.                                                          *)
(***************************************************************************)
EXTENDS Samples, TLAPS, FiniteSetTheorems, WellFoundedInduction

-----------------------------------------------------------------------------
(* The largest of some numbers.                                            *)

Less == {p \in Nat \X Nat : p[1] < p[2]}

\* The order of the numbers is well-founded.
LEMMA LessWF == IsWellFoundedOn(Less, Nat)
<1>1. OpToRel(<, Nat) = Less
  BY Zenon DEF OpToRel, Less
<1>. QED BY <1>1, NatLessThanWellFounded, Zenon

\* Some numbers have a least one.
LEMMA LeastNat ==
  ASSUME NEW T, T \subseteq Nat, T # {}
  PROVE  \E m \in T : \A n \in T : m <= n
<1>1. PICK m \in T : \A n \in T : ~ (<<n, m>> \in Less)
  BY LessWF, WFMin
<1>2. ASSUME NEW n \in T PROVE m <= n
  <2>1. m \in Nat /\ n \in Nat
    OBVIOUS
  <2>2. ~(n < m)
    BY <1>1, <2>1 DEF Less
  <2>. QED BY <2>1, <2>2
<1>. QED BY <1>2

\* Some numbers that do not exceed b have a largest one.
LEMMA MaxOf ==
  ASSUME NEW S, S \subseteq Nat, S # {}, NEW b \in Nat, \A s \in S : s <= b
  PROVE  Max(S) \in S /\ \A s \in S : s <= Max(S)
<1>. DEFINE Bounds == {n \in Nat : \A s \in S : s <= n}
<1>1. PICK m \in Bounds : \A n \in Bounds : m <= n
  <2>1. Bounds \subseteq Nat /\ b \in Bounds
    OBVIOUS
  <2>. HIDE DEF Bounds
  <2>. QED BY <2>1, LeastNat
<1>2. m \in S
  <2>. SUFFICES ASSUME m \notin S PROVE FALSE
    OBVIOUS
  <2>1. \A s \in S : s \in Nat /\ s <= m /\ s # m
    BY <1>1
  <2>2. PICK s \in S : TRUE
    OBVIOUS
  <2>3. m - 1 \in Nat
    BY <2>1, <2>2
  <2>4. \A t \in S : t <= m - 1
    BY <2>1, <2>3
  <2>5. m - 1 \in Bounds
    BY <2>3, <2>4
  <2>. QED BY <1>1, <2>3, <2>5
<1>3. \A s \in S : m >= s
  BY <1>1
<1>. QED BY <1>2, <1>3 DEF Max

\* The id of a new sample is free.
LEMMA NewIdFree == Max(Live \cup {0}) + 1 \notin Live
<1>. DEFINE S == Live \cup {0}
<1>1. MaxSamples \in Nat /\ S \subseteq Nat /\ S # {} /\ \A s \in S : s <= MaxSamples
  BY InputsAssumption DEF Live, Ids
<1>2. Live \subseteq S
  OBVIOUS
<1>. HIDE DEF S
<1>3. Max(S) \in S /\ \A s \in S : s <= Max(S)
  BY <1>1, MaxOf
<1>4. Max(S) \in Nat
  BY <1>1, <1>3
<1>5. Max(S) + 1 \notin S
  BY <1>3, <1>4
<1>. QED BY <1>2, <1>5 DEF S

-----------------------------------------------------------------------------
(* The key of a page.                                                      *)

\* The origin of a URL that can be used: its scheme, host and port, the default ones
\* left out.
LEMMA OriginOfUsable ==
  ASSUME NEW p \in Payloads, NEW u \in UsableUrls(p)
  PROVE  LET scheme == IF u.scheme = "http" THEN "http" ELSE "https"
         IN  /\ OriginFromUrl(u) =
                  [scheme |-> scheme, host |-> [words |-> u.host.words, form |-> "lower"],
                   port |-> IF u.port = DefaultPort(scheme) THEN 0 ELSE u.port]
             /\ OriginFromUrl(u) \in Origin
<1>. DEFINE scheme == IF u.scheme = "http" THEN "http" ELSE "https"
            host   == [words |-> u.host.words, form |-> "lower"]
            port   == IF u.port = DefaultPort(scheme) THEN 0 ELSE u.port
            query  == {i \in u.query : ~i.tracks /\ ~i.blank}
            n      == Url(scheme, host, port, u.path, u.path = "", query)
<1>1. u # Nothing /\ u.scheme \in {"", "http", "https"} /\ u.host # Nothing /\ u \in Urls
  BY DEF UsableUrls, Urls
<1>2. u.port \in Nat /\ u.host.words \in Words /\ u.host.words # Nothing
  BY <1>1, PortsAssumption, NothingAssumption DEF Words, Texts
<1>3. (IF u.scheme = "" THEN "https" ELSE u.scheme) = scheme
  BY <1>1
<1>4. NormalizeUrl(u) = n
  BY <1>1, <1>3 DEF NormalizeUrl, NormalizeText, Text
<1>5. scheme \in {"http", "https"} /\ host \in [words : Words, form : {"lower"}] /\ port \in Nat
  BY <1>2
<1>6. u.path \in {v.path : v \in Urls} /\ (u.path = "") \in BOOLEAN /\ query \in SUBSET UNION {v.query : v \in Urls}
  BY <1>1
<1>. HIDE DEF scheme, host, port, query
<1>7. n \in Normal
  BY <1>5, <1>6 DEF Normal, Url
<1>8. n # Nothing
  BY <1>7, NothingAssumption
<1>9. OriginFromUrl(u) = [scheme |-> scheme, host |-> host, port |-> port]
  <2>1. n.scheme = scheme /\ n.host = host /\ n.port = port
    BY DEF Url
  <2>. HIDE DEF n
  <2>. QED BY <1>4, <1>8, <2>1, Zenon DEF OriginFromUrl
<1>10. OriginFromUrl(u) \in Origin
  BY <1>5, <1>9 DEF Origin
<1>. QED BY <1>9, <1>10 DEF scheme, host, port

\* What cannot be used has no origin.
LEMMA OriginOfUnusable ==
  ASSUME NEW p \in Payloads, NEW u \in {p.website, p.source_url}, u \notin UsableUrls(p)
  PROVE  OriginFromUrl(u) = Nothing
<1>1. CASE u = Nothing
  BY <1>1 DEF OriginFromUrl, NormalizeUrl
<1>2. CASE u # Nothing
  <2>1. u.scheme \notin {"", "http", "https"} \/ u.host = Nothing
    BY <1>2 DEF UsableUrls
  <2>2. NormalizeUrl(u) = Nothing
    BY <1>2, <2>1 DEF NormalizeUrl
  <2>. QED BY <2>2 DEF OriginFromUrl
<1>. QED BY <1>1, <1>2

\* A page with one URL that can be used and an address has the key of the two.
LEMMA KeyOfLead ==
  ASSUME NEW p \in Payloads, NEW u, UsableUrls(p) = {u}, p.email # Nothing
  PROVE  KeyOf(p) = <<"email_origin", OriginFromUrl(u), p.email.words>> /\ KeyOf(p) # Nothing
<1>. DEFINE site == First(OriginFromUrl(First(p.website, p.source_url)), OriginFromUrl(p.source_url))
            key  == <<"email_origin", OriginFromUrl(u), p.email.words>>
<1>1. u \in {p.website, p.source_url} /\ u # Nothing
  BY DEF UsableUrls
<1>2. OriginFromUrl(u) \in Origin /\ OriginFromUrl(u) # Nothing
  BY OriginOfUsable, NothingAssumption
<1>3. \A v \in {p.website, p.source_url} : v = u \/ OriginFromUrl(v) = Nothing
  BY OriginOfUnusable
<1>4. site = OriginFromUrl(u)
  BY <1>1, <1>2, <1>3, Zenon DEF First
<1>5. p.email.words \in Words /\ p.email.words # Nothing
  BY NothingAssumption DEF Words, Texts
<1>6. key # Nothing
  BY <1>2, <1>5, NothingAssumption
<1>7. KeyOfNewSample(p) = key
  BY <1>2, <1>4, <1>5 DEF KeyOfNewSample, BuildDedupeKey, NormalizeText, NormalizeEmail
<1>. QED BY <1>6, <1>7 DEF KeyOf, First

\* Samples of one lead have one key, however its address and URL are spelled.
LEMMA SameLeadSameKey ==
  ASSUME NEW p \in Payloads, NEW q \in Payloads, SameLead(p, q)
  PROVE  KeyOf(p) = KeyOf(q) /\ KeyOf(p) # Nothing
<1>1. p.email # Nothing /\ q.email # Nothing /\ p.email.words = q.email.words
  BY DEF SameLead
<1>2. PICK u \in UsableUrls(p), v \in UsableUrls(q) : SameSite(u, v)
  BY DEF SameLead
<1>3. UsableUrls(p) = {u} /\ UsableUrls(q) = {v}
  <2>1. IsFiniteSet({p.website, p.source_url}) /\ IsFiniteSet({q.website, q.source_url})
    <3>1. IsFiniteSet({p.website}) /\ IsFiniteSet({q.website})
      BY FS_Singleton
    <3>2. IsFiniteSet({p.website} \cup {p.source_url}) /\ IsFiniteSet({q.website} \cup {q.source_url})
      BY <3>1, FS_AddElement
    <3>3. /\ {p.website, p.source_url} = {p.website} \cup {p.source_url}
          /\ {q.website, q.source_url} = {q.website} \cup {q.source_url}
      OBVIOUS
    <3>. QED BY <3>2, <3>3
  <2>2. IsFiniteSet(UsableUrls(p)) /\ IsFiniteSet(UsableUrls(q))
    BY <2>1, FS_Subset DEF UsableUrls
  <2>3. (\E x : UsableUrls(p) = {x}) /\ (\E x : UsableUrls(q) = {x})
    BY <2>2, FS_Singleton DEF SameLead
  <2>. QED BY <2>3
<1>4. u \in Urls /\ v \in Urls /\ u.scheme \in {"", "http", "https"} /\ v.scheme \in {"", "http", "https"}
  BY DEF UsableUrls, Urls
<1>5. u.port \in Nat /\ v.port \in Nat
  BY <1>4, PortsAssumption
<1>6. /\ (u.scheme = "http") = (v.scheme = "http")
      /\ u.host.words = v.host.words /\ PortOf(u) = PortOf(v)
  BY <1>2 DEF SameSite, Secure
<1>7. OriginFromUrl(u) = OriginFromUrl(v)
  <2>1. CASE u.scheme = "http"
    <3>1. v.scheme = "http"
      BY <1>6, <2>1
    <3>2. (IF u.port = 80 THEN 0 ELSE u.port) = (IF v.port = 80 THEN 0 ELSE v.port)
      BY <1>5, <1>6, <2>1, <3>1 DEF PortOf, Secure
    <3>. QED BY <1>6, <2>1, <3>1, <3>2, OriginOfUsable DEF DefaultPort
  <2>2. CASE u.scheme # "http"
    <3>1. v.scheme # "http"
      BY <1>6, <2>2
    <3>2. (IF u.port = 443 THEN 0 ELSE u.port) = (IF v.port = 443 THEN 0 ELSE v.port)
      BY <1>5, <1>6, <2>2, <3>1 DEF PortOf, Secure
    <3>. QED BY <1>6, <2>2, <3>1, <3>2, OriginOfUsable DEF DefaultPort
  <2>. QED BY <2>1, <2>2
<1>. QED BY <1>1, <1>3, <1>7, KeyOfLead

-----------------------------------------------------------------------------
(* What the actions do.                                                    *)

\* A request as it begins.
Fresh(q) ==
  /\ q \in Request /\ RequestOK(q) /\ q.op # "none" /\ q.total = Unread
  /\ q.op = "create" => q.step = "begun" /\ ~q.row.claimed /\ q.job \in jobs
  /\ q.op \in OnSample => q.id \in Live /\ q.row = samples[q.id]
  /\ q.op = "mark" => (q.step = "looked" <=> q.row.dup)
  /\ q.op = "send_training" => q.step = "begun"
  /\ q.op = "delete_job" => q.job \in jobs /\ q.seen = {i \in Live : samples[i].job = q.job}

\* The fields of a row.
LEMMA RowFields ==
  ASSUME NEW s \in Sample
  PROVE  /\ s.payload \in Payloads /\ s.key \in Keys /\ s.dup \in BOOLEAN /\ s.of \in Ids \cup {0}
         /\ s.status \in Statuses /\ s.job \in Jobs /\ s.birth \in Nat /\ s.claimed \in BOOLEAN
         /\ s # Nothing
BY NothingAssumption DEF Sample

\* A live row is one.
LEMMA LiveRow == ASSUME TypeOK, NEW i \in Live PROVE i \in Ids /\ samples[i] \in Sample
BY DEF TypeOK, Live

\* The operations have their own names.
LEMMA Ops == /\ DOMAIN Actions = {"review", "approve", "reject"}
             /\ OnSample = {"mark", "send_training", "create_item", "review", "approve", "reject"}
             /\ \A a \in DOMAIN Actions : /\ Actions[a].from \subseteq Statuses /\ Actions[a].to \in Statuses
                                          /\ "approved" \notin Actions[a].from
BY DEF Actions, OnSample, Statuses

\* No request is a request.
LEMMA EmptyRequest ==
  /\ NoRequest \in Request /\ NoRequest.op = "none" /\ NoRequest.step = "begun" /\ NoRequest.id = 0
  /\ NoRequest.row = Nothing /\ NoRequest.of = 0 /\ NoRequest.key = Nothing /\ NoRequest.job = Nothing
  /\ NoRequest.total = Unread /\ NoRequest.seen = {}
BY DEF NoRequest, Request, Keys

\* What a request has read of a sample.
LEMMA ReadsFields ==
  ASSUME TypeOK, NEW i \in Live, NEW step \in {"begun", "looked"}, NEW op \in OnSample
  PROVE  LET q == Reads(op, step, i)
         IN  /\ q \in Request /\ q.op = op /\ q.step = step /\ q.id = i /\ q.row = samples[i]
             /\ q.total = Unread /\ q.of = 0 /\ q.key = Nothing /\ q.job = Nothing /\ q.seen = {}
<1>1. i \in Ids /\ samples[i] \in Sample
  BY LiveRow
<1>. QED BY <1>1, EmptyRequest DEF Reads, Request

\* A request as it begins is sound.
LEMMA Begins ==
  ASSUME TypeOK, NEW r \in Requests, Begin(r)
  PROVE  \E q : Open(r, q) /\ Fresh(q)
<1>1. ASSUME NEW j \in Jobs, NEW page \in Pages, BeginCreate(r, j, page) PROVE \E q : Open(r, q) /\ Fresh(q)
  <2>. DEFINE key == KeyOf(page.payload)
              row == NewRow(page, key, j)
              q   == [NoRequest EXCEPT !.op = "create", !.key = key, !.job = j, !.row = row]
  <2>1. Open(r, q) /\ j \in jobs
    BY <1>1 DEF BeginCreate
  <2>2. page.payload \in Payloads /\ key \in Keys
    BY DEF Payloads, Keys
  <2>3. page.claim \in BOOLEAN /\ page.status \in Statuses
    BY InputsAssumption
  <2>4. /\ row = [payload |-> page.payload, key |-> key, dup |-> page.claim, of |-> 0,
                  status |-> page.status, job |-> j, birth |-> 0, claimed |-> FALSE]
    BY DEF NewRow
  <2>5. /\ row \in Sample /\ row.payload = page.payload /\ row.key = key /\ row.job = j /\ ~row.claimed
    BY <2>2, <2>3, <2>4 DEF Sample
  <2>. HIDE DEF row, key
  <2>7. q \in Request
    BY <2>2, <2>5, EmptyRequest DEF Request
  <2>8. q.op = "create" /\ q.step = "begun" /\ q.row = row /\ q.key = key /\ q.job = j /\ q.total = Unread
    BY <2>2, <2>5, EmptyRequest DEF Request
  <2>. HIDE DEF q
  <2>9. RequestOK(q)
    BY <2>5, <2>8, Ops DEF RequestOK, key
  <2>10. Fresh(q)
    BY <2>1, <2>5, <2>7, <2>8, <2>9, Ops DEF Fresh
  <2>. QED BY <2>1, <2>10
<1>2. ASSUME NEW i \in Live, NEW primary \in Live, NEW k \in {Nothing, samples[primary].key},
             BeginMark(r, i, primary, k)
      PROVE  \E q : Open(r, q) /\ Fresh(q)
  <2>. DEFINE step == IF samples[i].dup THEN "looked" ELSE "begun"
              b    == Reads("mark", step, i)
              key  == First(k, samples[i].key)
              q    == [b EXCEPT !.of = primary, !.key = key]
  <2>1. Open(r, q)
    BY <1>2 DEF BeginMark
  <2>2. /\ i \in Ids /\ primary \in Ids /\ samples[i] \in Sample /\ samples[primary] \in Sample
        /\ samples[i].key \in Keys /\ samples[primary].key \in Keys /\ samples[i].dup \in BOOLEAN
    BY LiveRow, RowFields
  <2>3. key \in Keys
    BY <2>2 DEF First, Keys
  <2>4. step \in {"begun", "looked"} /\ (step = "looked" <=> samples[i].dup)
    BY <2>2
  <2>. HIDE DEF key, step
  <2>5. /\ b \in Request /\ b.op = "mark" /\ b.step = step /\ b.id = i /\ b.row = samples[i]
        /\ b.total = Unread
    BY <2>4, ReadsFields, Ops
  <2>. HIDE DEF b
  <2>6. /\ q \in Request /\ q.op = "mark" /\ q.step = step /\ q.id = i /\ q.row = samples[i]
        /\ q.total = Unread
    BY <2>2, <2>3, <2>5 DEF Request
  <2>. HIDE DEF q
  <2>7. RequestOK(q)
    BY <2>2, <2>6, Ops DEF RequestOK
  <2>8. Fresh(q)
    BY <2>4, <2>6, <2>7, Ops DEF Fresh
  <2>. QED BY <2>1, <2>8
<1>3. ASSUME NEW i \in Live, NEW op \in OnSample \ {"mark"}, NEW step \in {"begun", "looked"},
             Open(r, Reads(op, step, i)),
             op \in DOMAIN Actions => samples[i].status \in Actions[op].from,
             op = "send_training" => samples[i].status = "approved" /\ step = "begun"
      PROVE  \E q : Open(r, q) /\ Fresh(q)
  <2>. DEFINE q == Reads(op, step, i)
  <2>1. /\ q \in Request /\ q.op = op /\ q.step = step /\ q.id = i /\ q.row = samples[i]
        /\ q.total = Unread
    BY ReadsFields
  <2>2. i \in Ids /\ samples[i] \in Sample
    BY LiveRow
  <2>. HIDE DEF q
  <2>3. RequestOK(q)
    BY <1>3, <2>1, <2>2, Ops DEF RequestOK
  <2>4. Fresh(q)
    BY <1>3, <2>1, <2>3, Ops DEF Fresh
  <2>. QED BY <1>3, <2>4 DEF q
<1>4. ASSUME NEW i \in Live, BeginSend(r, i) PROVE \E q : Open(r, q) /\ Fresh(q)
  BY <1>3, <1>4, Ops DEF BeginSend
<1>5. ASSUME NEW i \in Live, BeginItem(r, i) PROVE \E q : Open(r, q) /\ Fresh(q)
  BY <1>3, <1>5, Ops DEF BeginItem
<1>6. ASSUME NEW i \in Live, NEW a \in DOMAIN Actions, BeginAction(r, i, a) PROVE \E q : Open(r, q) /\ Fresh(q)
  <2>1. a \in OnSample \ {"mark"} /\ a # "send_training"
    BY Ops
  <2>. QED BY <1>3, <1>6, <2>1 DEF BeginAction
<1>7. ASSUME NEW j \in Jobs, BeginDeleteJob(r, j) PROVE \E q : Open(r, q) /\ Fresh(q)
  <2>. DEFINE seen == {i \in Live : samples[i].job = j}
              q    == [NoRequest EXCEPT !.op = "delete_job", !.step = "looked", !.job = j, !.seen = seen]
  <2>1. Open(r, q) /\ j \in jobs
    BY <1>7 DEF BeginDeleteJob
  <2>2. seen \in SUBSET Nat
    BY DEF Live, Ids
  <2>. HIDE DEF seen
  <2>4. q \in Request
    BY <2>2, EmptyRequest DEF Request
  <2>5. q.op = "delete_job" /\ q.job = j /\ q.seen = seen /\ q.total = Unread
    BY <2>2, EmptyRequest DEF Request
  <2>. HIDE DEF q
  <2>6. RequestOK(q)
    BY <2>5, Ops DEF RequestOK
  <2>7. Fresh(q)
    BY <2>1, <2>4, <2>5, <2>6, Ops DEF Fresh, seen
  <2>. QED BY <2>1, <2>7
<1>. QED BY <1>1, <1>2, <1>4, <1>5, <1>6, <1>7 DEF Begin

\* A new sample as it is inserted.
Ready(r, q) ==
  /\ q \in Request /\ q.op = "create" /\ req[r].op = "create"
  /\ q.key = req[r].key /\ q.job = req[r].job
  /\ q.row \in Sample /\ q.job \in Jobs /\ q.row.job = q.job /\ q.row.key = q.key
  /\ q.key = KeyOf(q.row.payload) /\ (q.row.claimed => q.row.dup)
  /\ q.key # Nothing /\ ~q.row.dup /\ (engine = "postgresql" => <<"key", q.key>> \notin raced)
       => \A i \in Live : samples[i].key = q.key => samples[i].dup
  /\ \/ Spoiled
     \/ /\ q.job \in jobs
        /\ q.total = Unread <=> ~(q.row.dup /\ ~q.row.claimed)
        /\ q.total # Unread /\ <<"run", q.job>> \notin raced => q.total = total[q.job]

Same == UNCHANGED <<engine, tables, overtaken, raced>>

\* A request that has looked.
Looks(r) ==
  \E n \in Request :
    LET q == req[r]
    IN  /\ req' = [req EXCEPT ![r] = n] /\ Same
        /\ q.step = "begun" /\ n.step = "looked" /\ RequestOK(n)
        /\ n.op = q.op /\ n.id = q.id /\ n.key = q.key /\ n.job = q.job /\ n.seen \subseteq Nat
        /\ n.op \in {"create", "mark", "send_training"}
        /\ n.op # "create" => n.row = q.row
        /\ n.op = "create" =>
             /\ engine = "postgresql" /\ n.job \in jobs
             /\ n.total = IF n.row.dup /\ ~n.row.claimed THEN total[n.job] ELSE Unread
             /\ n.key # Nothing /\ ~n.row.dup => \A i \in Live : samples[i].key = n.key => samples[i].dup
        /\ n.op = "mark" => n.total = IF n.row.job \in jobs THEN total[n.row.job] ELSE Unread
        /\ n.op = "send_training" => n.seen = {m \in DOMAIN queue : queue[m].sample = n.id}

Ends(r)  == Close(r) /\ UNCHANGED <<engine, raced>>
Fails(r) == Ends(r) /\ overtaken' = overtaken \ {r} /\ UNCHANGED tables

Marked(r) ==
  LET q == req[r]
  IN  /\ q.op = "mark" /\ q.step = "looked" /\ samples[q.id] # Nothing /\ Ends(r)
      /\ q.total # Unread => q.row.job \in jobs
      /\ samples' = [samples EXCEPT ![q.id] =
                       [@ EXCEPT !.dup = Written(q.row.dup, TRUE, samples[q.id].dup),
                                 !.of  = Written(q.row.of, q.of, samples[q.id].of),
                                 !.key = Written(q.row.key, q.key, samples[q.id].key)]]
      /\ total' = IF q.total = Unread THEN total ELSE [total EXCEPT ![q.row.job] = q.total + 1]
      /\ Log(r, q.id, "mark_duplicate", q.row.status)
      /\ UNCHANGED <<jobs, queue, births>>

Acted(r) ==
  LET q == req[r]
  IN  /\ q.op \in DOMAIN Actions /\ samples[q.id] # Nothing /\ Ends(r)
      /\ samples' = [samples EXCEPT ![q.id].status = Actions[q.op].to]
      /\ Log(r, q.id, q.op, Actions[q.op].to)
      /\ UNCHANGED <<jobs, total, queue, births>>

Sent(r) ==
  LET q == req[r]
  IN  /\ q.op = "send_training" /\ q.step = "looked" /\ Ends(r)
      /\ IF q.seen = {} THEN Enqueue(q, "send") ELSE UNCHANGED queue
      /\ Log(r, q.id, "send_training", "approved")
      /\ UNCHANGED <<jobs, samples, total, births>>

ItemMade(r) ==
  /\ req[r].op = "create_item" /\ Ends(r)
  /\ Enqueue(req[r], "direct")
  /\ UNCHANGED <<jobs, samples, total, audit, overtaken, births>>

JobDeleted(r) ==
  LET q == req[r]
  IN  /\ q.op = "delete_job" /\ Ends(r)
      /\ engine = "postgresql" => \A i \in Live : samples[i].job # q.job
      /\ jobs' = jobs \ {q.job}
      /\ samples' = [i \in Ids |-> IF i \in q.seen THEN Nothing ELSE samples[i]]
      /\ UNCHANGED <<total, queue, audit, overtaken, births>>

\* What a new sample becomes when a primary was looked for.
LEMMA Deduped ==
  ASSUME TypeOK, NEW q \in Request, q.op = "create", RequestOK(q),
         NEW primary \in FindPrimarySampleByDedupeKey(q.key)
  PROVE  LET n == ApplyDedupe(q, primary)
         IN  /\ n \in Request /\ n.op = q.op /\ n.step = q.step /\ n.id = q.id /\ n.of = q.of
             /\ n.key = q.key /\ n.job = q.job /\ n.seen = q.seen
             /\ n.row \in Sample /\ n.row.payload = q.row.payload /\ n.row.key = q.row.key
             /\ n.row.job = q.row.job /\ (n.row.claimed => n.row.dup)
             /\ n.job \in jobs => n.total = IF n.row.dup /\ ~n.row.claimed THEN total[n.job] ELSE Unread
             /\ n.key # Nothing /\ ~n.row.dup => \A i \in Live : samples[i].key = n.key => samples[i].dup
<1>. DEFINE row == [q.row EXCEPT !.dup = primary # 0, !.of = primary, !.claimed = q.row.dup /\ primary # 0]
            tot == IF primary # 0 /\ ~q.row.dup /\ q.job \in jobs THEN total[q.job] ELSE Unread
            n   == ApplyDedupe(q, primary)
<1>1. q.row \in Sample /\ q.job \in Jobs /\ q.row.dup \in BOOLEAN
  BY RowFields DEF RequestOK
<1>2. primary \in Ids \cup {0}
  BY DEF FindPrimarySampleByDedupeKey, Live
<1>3. /\ row \in Sample /\ row.dup = (primary # 0) /\ row.claimed = (q.row.dup /\ primary # 0)
      /\ row.payload = q.row.payload /\ row.key = q.row.key /\ row.job = q.row.job
  BY <1>1, <1>2 DEF Sample
<1>4. tot \in Nat \cup {Unread}
  BY <1>1 DEF TypeOK
<1>5. n = [q EXCEPT !.row = row, !.total = tot]
  BY DEF ApplyDedupe
<1>. HIDE DEF row, tot, n
<1>6. /\ n \in Request /\ n.op = q.op /\ n.step = q.step /\ n.id = q.id /\ n.of = q.of
      /\ n.key = q.key /\ n.job = q.job /\ n.seen = q.seen /\ n.row = row /\ n.total = tot
  BY <1>3, <1>4, <1>5 DEF Request
<1>7. n.job \in jobs => n.total = IF n.row.dup /\ ~n.row.claimed THEN total[n.job] ELSE Unread
  <2>1. (row.dup /\ ~row.claimed) = (primary # 0 /\ ~q.row.dup)
    BY <1>3
  <2>. QED BY <1>6, <2>1 DEF tot
<1>8. primary = 0 /\ q.key # Nothing => \A i \in Live : samples[i].key = q.key => samples[i].dup
  <2>1. 0 \notin Live
    BY DEF Live, Ids
  <2>. QED BY <2>1 DEF FindPrimarySampleByDedupeKey
<1>9. row.claimed => row.dup
  BY <1>3
<1>10. n.key # Nothing /\ ~n.row.dup => \A i \in Live : samples[i].key = n.key => samples[i].dup
  BY <1>3, <1>6, <1>8
<1>. QED BY <1>3, <1>6, <1>7, <1>9, <1>10 DEF n

\* What serving a request does.
LEMMA Serves ==
  ASSUME IInv, NEW r \in Requests, Serve(r)
  PROVE  \/ Looks(r) \/ Fails(r) \/ Marked(r) \/ Acted(r) \/ Sent(r) \/ ItemMade(r) \/ JobDeleted(r)
         \/ \E q : Ready(r, q) /\ Insert(r, q)
<1>. DEFINE q == req[r]
<1>1. TypeOK /\ q \in Request /\ RequestOK(q) /\ KeysOK /\ RunsOK
  BY DEF IInv, TypeOK
<1>2. Fail(r) => Fails(r)
  BY DEF Fail, Fails, Ends
<1>3. CASE LookUpPrimary(r)
  <2>1. q.op = "create" /\ q.step = "begun" /\ engine = "postgresql"
    BY <1>3 DEF LookUpPrimary
  <2>2. CASE q.job \notin jobs
    BY <1>2, <1>3, <2>2 DEF LookUpPrimary
  <2>3. CASE q.job \in jobs
    <3>1. PICK primary \in FindPrimarySampleByDedupeKey(q.key) : Look(r, ApplyDedupe(q, primary))
      BY <1>3, <2>3 DEF LookUpPrimary
    <3>. DEFINE m == ApplyDedupe(q, primary)
                n == [m EXCEPT !.step = "looked"]
    <3>2. /\ m \in Request /\ m.op = q.op /\ m.step = q.step /\ m.id = q.id /\ m.of = q.of
          /\ m.key = q.key /\ m.job = q.job /\ m.seen = q.seen
          /\ m.row \in Sample /\ m.row.payload = q.row.payload /\ m.row.key = q.row.key
          /\ m.row.job = q.row.job /\ (m.row.claimed => m.row.dup)
          /\ m.total = IF m.row.dup /\ ~m.row.claimed THEN total[m.job] ELSE Unread
          /\ m.key # Nothing /\ ~m.row.dup => \A i \in Live : samples[i].key = m.key => samples[i].dup
      BY <1>1, <2>1, <2>3, Deduped
    <3>3. req' = [req EXCEPT ![r] = n] /\ Same
      BY <3>1 DEF Look, Same
    <3>. HIDE DEF m
    <3>4. /\ n \in Request /\ n.op = m.op /\ n.step = "looked" /\ n.id = m.id /\ n.key = m.key
          /\ n.job = m.job /\ n.seen = m.seen /\ n.row = m.row /\ n.total = m.total
      BY <3>2 DEF Request
    <3>. HIDE DEF n
    <3>5. RequestOK(n)
      BY <1>1, <2>1, <3>2, <3>4, Ops DEF RequestOK
    <3>6. n.seen \subseteq Nat
      BY <3>4 DEF Request
    <3>. QED BY <2>1, <2>3, <3>2, <3>3, <3>4, <3>5, <3>6 DEF Looks
  <2>. QED BY <2>2, <2>3
<1>4. CASE LookUpRun(r)
  <2>. DEFINE tot == IF q.row.job \in jobs THEN total[q.row.job] ELSE Unread
              m   == [q EXCEPT !.total = tot]
              n   == [m EXCEPT !.step = "looked"]
  <2>1. q.op = "mark" /\ q.step = "begun" /\ Look(r, m)
    BY <1>4 DEF LookUpRun
  <2>2. q.row \in Sample /\ q.id \in Ids
    BY <1>1, <2>1, Ops DEF RequestOK
  <2>3. q.row.job \in Jobs
    BY <2>2, RowFields
  <2>4. tot \in Nat \cup {Unread}
    BY <1>1, <2>3 DEF TypeOK
  <2>5. req' = [req EXCEPT ![r] = n] /\ Same
    BY <2>1 DEF Look, Same
  <2>. HIDE DEF tot, q
  <2>6. /\ m \in Request /\ m.op = q.op /\ m.id = q.id /\ m.key = q.key
        /\ m.job = q.job /\ m.seen = q.seen /\ m.row = q.row /\ m.total = tot
    BY <1>1, <2>4 DEF Request
  <2>. HIDE DEF m
  <2>7. /\ n \in Request /\ n.op = q.op /\ n.step = "looked" /\ n.id = q.id /\ n.key = q.key
        /\ n.job = q.job /\ n.seen = q.seen /\ n.row = q.row /\ n.total = tot
    BY <2>6 DEF Request
  <2>. HIDE DEF n
  <2>8. RequestOK(n) /\ n.seen \subseteq Nat
    BY <1>1, <2>1, <2>2, <2>7, Ops DEF RequestOK, Request
  <2>9. n.op = "mark" /\ n.total = IF n.row.job \in jobs THEN total[n.row.job] ELSE Unread
    BY <2>1, <2>7 DEF tot
  <2>. QED BY <2>1, <2>5, <2>7, <2>8, <2>9 DEF Looks, q
<1>5. CASE LookUpItem(r)
  <2>. DEFINE found == {k \in DOMAIN queue : queue[k].sample = q.id}
              m     == [q EXCEPT !.seen = found]
              n     == [m EXCEPT !.step = "looked"]
  <2>1. q.op = "send_training" /\ q.step = "begun" /\ (Fail(r) \/ Look(r, m))
    BY <1>5 DEF LookUpItem
  <2>2. q.row \in Sample /\ q.id \in Ids
    BY <1>1, <2>1, Ops DEF RequestOK
  <2>3. found \in SUBSET Nat
    BY <1>1 DEF TypeOK
  <2>4. Look(r, m) => req' = [req EXCEPT ![r] = n] /\ Same
    BY <2>1 DEF Look, Same
  <2>. HIDE DEF found, q
  <2>6. /\ m \in Request /\ m.op = q.op /\ m.id = q.id /\ m.key = q.key
        /\ m.job = q.job /\ m.seen = found /\ m.row = q.row /\ m.total = q.total
    BY <1>1, <2>3 DEF Request
  <2>. HIDE DEF m
  <2>7. /\ n \in Request /\ n.op = q.op /\ n.step = "looked" /\ n.id = q.id /\ n.key = q.key
        /\ n.job = q.job /\ n.seen = found /\ n.row = q.row /\ n.total = q.total
    BY <2>6 DEF Request
  <2>. HIDE DEF n
  <2>8. RequestOK(n)
    BY <1>1, <2>1, <2>2, <2>7, Ops DEF RequestOK
  <2>9. n.op = "send_training" /\ n.seen \subseteq Nat /\ n.seen = {k \in DOMAIN queue : queue[k].sample = n.id}
    BY <2>1, <2>3, <2>7 DEF found
  <2>10. Look(r, m) => Looks(r)
    BY <2>1, <2>4, <2>7, <2>8, <2>9 DEF Looks, q
  <2>. QED BY <1>2, <2>1, <2>10
<1>6. CASE CommitCreate(r)
  <2>1. q.op = "create" /\ q.step = "looked" /\ Insert(r, q)
    BY <1>6 DEF CommitCreate
  <2>2. Ready(r, q)
    <3>1. engine = "postgresql"
      BY <1>1, <2>1 DEF RequestOK
    <3>2. /\ q.row \in Sample /\ q.job \in Jobs /\ q.row.job = q.job /\ q.row.key = q.key
          /\ q.key = KeyOf(q.row.payload) /\ (q.row.claimed => q.row.dup)
      BY <1>1, <2>1 DEF RequestOK
    <3>3. q.key # Nothing /\ ~q.row.dup /\ <<"key", q.key>> \notin raced
            => \A i \in Live : samples[i].key = q.key => samples[i].dup
      BY <1>1, <2>1, <3>1 DEF KeysOK, KeysFree
    <3>4. \/ Spoiled
          \/ /\ q.job \in jobs
             /\ q.total = Unread <=> ~(q.row.dup /\ ~q.row.claimed)
             /\ q.total # Unread /\ <<"run", q.job>> \notin raced => q.total = total[q.job]
      BY <1>1, <2>1 DEF RunsOK, RunRead
    <3>. QED BY <1>1, <2>1, <3>1, <3>2, <3>3, <3>4 DEF Ready
  <2>. QED BY <2>1, <2>2
<1>7. CASE CreateLocked(r)
  <2>1. PICK primary \in FindPrimarySampleByDedupeKey(q.key) : Insert(r, ApplyDedupe(q, primary))
    BY <1>7 DEF CreateLocked
  <2>. DEFINE n == ApplyDedupe(q, primary)
  <2>2. q.op = "create" /\ engine = "sqlite"
    BY <1>7 DEF CreateLocked
  <2>3. /\ n \in Request /\ n.op = q.op /\ n.key = q.key /\ n.job = q.job
        /\ n.row \in Sample /\ n.row.payload = q.row.payload /\ n.row.key = q.row.key
        /\ n.row.job = q.row.job /\ (n.row.claimed => n.row.dup)
        /\ n.job \in jobs => n.total = IF n.row.dup /\ ~n.row.claimed THEN total[n.job] ELSE Unread
        /\ n.key # Nothing /\ ~n.row.dup => \A i \in Live : samples[i].key = n.key => samples[i].dup
    BY <1>1, <2>2, Deduped
  <2>. HIDE DEF n
  <2>4. q.job \in Jobs /\ q.row.job = q.job /\ q.key = KeyOf(q.row.payload) /\ q.row.key = q.key
    BY <1>1, <2>2 DEF RequestOK
  <2>5. Spoiled \/ q.job \in jobs
    BY <1>1, <2>2 DEF RunsOK, RunRead
  <2>6. total[q.job] # Unread
    BY <1>1, <2>4 DEF TypeOK, Unread
  <2>7. Ready(r, n)
    BY <2>2, <2>3, <2>4, <2>5, <2>6 DEF Ready
  <2>. QED BY <2>1, <2>7 DEF n
<1>8. CASE CommitMark(r)
  BY <1>2, <1>8 DEF CommitMark, Marked, Ends
<1>9. CASE CommitAction(r)
  BY <1>2, <1>9 DEF CommitAction, Acted, Ends
<1>10. CASE CommitSend(r)
  BY <1>10 DEF CommitSend, Sent, Ends
<1>11. CASE CommitItem(r)
  BY <1>11 DEF CommitItem, ItemMade, Ends
<1>12. CASE CommitDeleteJob(r)
  BY <1>2, <1>12 DEF CommitDeleteJob, JobDeleted, Ends
<1>. QED BY <1>3, <1>4, <1>5, <1>6, <1>7, <1>8, <1>9, <1>10, <1>11, <1>12 DEF Serve

-----------------------------------------------------------------------------
(* The open requests.                                                      *)

RequestsOK == /\ req \in [Requests -> Request] /\ \A r \in Requests : RequestOK(req[r])
              /\ Races

\* What a request touches depends on few of its fields.
LEMMA TouchesSame ==
  ASSUME NEW q, NEW n, n.op = q.op, n.id = q.id, n.key = q.key, n.job = q.job, n.seen = q.seen \/ n.op # "delete_job",
         n.op = "create" \/ n.row = q.row
  PROVE  Touches(n) = Touches(q)
<1>1. CASE n.op = "create"
  BY <1>1 DEF Touches
<1>2. CASE n.op = "delete_job"
  <2>1. Touches(n) = {<<"run", n.job>>} \cup {<<"sample", i>> : i \in n.seen}
    BY <1>2 DEF Touches
  <2>2. Touches(q) = {<<"run", q.job>>} \cup {<<"sample", i>> : i \in q.seen}
    BY <1>2 DEF Touches
  <2>. QED BY <1>2, <2>1, <2>2
<1>3. CASE n.op = "mark"
  BY <1>3 DEF Touches
<1>4. CASE n.op \notin {"create", "delete_job", "mark"}
  <2>1. Touches(n) = {<<"sample", n.id>>}
    BY <1>4 DEF Touches
  <2>2. Touches(q) = {<<"sample", q.id>>}
    BY <1>4 DEF Touches
  <2>. QED BY <2>1, <2>2
<1>. QED BY <1>1, <1>2, <1>3, <1>4

\* A request that goes on or ends leaves the others as they are.
LEMMA RequestsKept ==
  ASSUME RequestsOK, NEW r \in Requests, NEW n \in Request, RequestOK(n),
         req' = [req EXCEPT ![r] = n], UNCHANGED <<engine, raced>>,
         n.op # "none" => n.op = req[r].op /\ Touches(n) = Touches(req[r])
  PROVE  RequestsOK'
<1>1. \A o \in Requests : req'[o] = IF o = r THEN n ELSE req[o]
  BY DEF RequestsOK
<1>2. req' \in [Requests -> Request]
  BY DEF RequestsOK
<1>3. ASSUME NEW o \in Requests PROVE RequestOK(req[o])'
  <2>1. RequestOK(req'[o])
    BY <1>1 DEF RequestsOK
  <2>. QED BY <2>1 DEF RequestOK
<1>4. Races'
  <2>. SUFFICES ASSUME NEW a \in Requests, NEW o \in Requests, a # o, req'[a].op # "none", req'[o].op # "none",
                       ~Excluded(req[a], req[o])'
                PROVE  (Touches(req[a]) \cap Touches(req[o]) \subseteq raced)'
    BY DEF Races
  <2>1. \A x \in {a, o} : req[x].op = req'[x].op /\ Touches(req'[x]) = Touches(req[x])
    BY <1>1
  <2>2. ~Excluded(req[a], req[o])
    BY <2>1 DEF Excluded
  <2>3. Touches(req[a]) \cap Touches(req[o]) \subseteq raced
    BY <2>1, <2>2 DEF RequestsOK, Races
  <2>4. Touches(req'[a]) \cap Touches(req'[o]) \subseteq raced'
    BY <2>1, <2>3
  <2>5. Touches(req[a])' = Touches(req'[a]) /\ Touches(req[o])' = Touches(req'[o])
    BY DEF Touches
  <2>. QED BY <2>4, <2>5
<1>. QED BY <1>2, <1>3, <1>4 DEF RequestsOK

\* What ends leaves no request.
LEMMA RequestsEnd ==
  ASSUME RequestsOK, NEW r \in Requests, Ends(r)
  PROVE  RequestsOK' /\ \A o \in Requests : req'[o] = IF o = r THEN NoRequest ELSE req[o]
<1>1. RequestOK(NoRequest) /\ NoRequest \in Request /\ NoRequest.op = "none"
  BY EmptyRequest, Ops DEF RequestOK
<1>2. req' = [req EXCEPT ![r] = NoRequest] /\ UNCHANGED <<engine, raced>>
  BY DEF Ends, Close
<1>3. RequestsOK'
  BY <1>1, <1>2, RequestsKept
<1>. QED BY <1>2, <1>3 DEF RequestsOK

\* A request that has looked touches what it touched.
LEMMA RequestsLook ==
  ASSUME RequestsOK, NEW r \in Requests, Looks(r)
  PROVE  RequestsOK'
<1>1. PICK n \in Request :
        LET q == req[r]
        IN  /\ req' = [req EXCEPT ![r] = n] /\ Same /\ RequestOK(n)
            /\ n.op = q.op /\ n.id = q.id /\ n.key = q.key /\ n.job = q.job
            /\ n.op \in {"create", "mark", "send_training"}
            /\ n.op # "create" => n.row = q.row
  BY DEF Looks
<1>2. Touches(n) = Touches(req[r])
  BY <1>1, TouchesSame
<1>. QED BY <1>1, <1>2, RequestsKept DEF Same

\* A request that begins has raced for what others touch.
LEMMA RequestsOpen ==
  ASSUME RequestsOK, NEW r \in Requests, NEW q, Open(r, q), Fresh(q)
  PROVE  /\ RequestsOK' /\ \A o \in Requests : req'[o] = IF o = r THEN q ELSE req[o]
         /\ req[r].op = "none" /\ raced \subseteq raced' /\ UNCHANGED <<engine, tables>>
<1>1. /\ q \in Request /\ RequestOK(q)
      /\ req' = [req EXCEPT ![r] = q] /\ UNCHANGED <<engine, tables>> /\ req[r] = NoRequest
      /\ raced \subseteq raced'
  BY DEF Fresh, Open
<1>2. \A o \in Requests : req'[o] = IF o = r THEN q ELSE req[o]
  BY <1>1 DEF RequestsOK
<1>3. req' \in [Requests -> Request]
  BY <1>1 DEF RequestsOK
<1>4. ASSUME NEW o \in Requests PROVE RequestOK(req[o])'
  <2>1. RequestOK(req'[o])
    BY <1>1, <1>2 DEF RequestsOK
  <2>. QED BY <1>1, <2>1 DEF RequestOK
<1>5. ASSUME NEW o \in Requests, o # r, req[o].op # "none", ~Excluded(q, req[o])
      PROVE  Touches(q) \cap Touches(req[o]) \subseteq raced'
  BY <1>5 DEF Open
<1>6. Races'
  <2>. SUFFICES ASSUME NEW a \in Requests, NEW o \in Requests, a # o, req'[a].op # "none", req'[o].op # "none",
                       ~Excluded(req[a], req[o])'
                PROVE  (Touches(req[a]) \cap Touches(req[o]) \subseteq raced)'
    BY DEF Races
  <2>1. ~Excluded(req'[a], req'[o]) /\ ~Excluded(req'[o], req'[a])
    BY <1>1 DEF Excluded
  <2>2. Touches(req'[a]) \cap Touches(req'[o]) \subseteq raced'
    <3>1. CASE a = r
      BY <1>2, <1>5, <2>1, <3>1
    <3>2. CASE o = r
      <4>1. Touches(q) \cap Touches(req[a]) \subseteq raced'
        BY <1>2, <1>5, <2>1, <3>2
      <4>. QED BY <1>2, <3>2, <4>1
    <3>3. CASE a # r /\ o # r
      <4>1. Touches(req[a]) \cap Touches(req[o]) \subseteq raced
        BY <1>2, <2>1, <3>3 DEF RequestsOK, Races
      <4>. QED BY <1>1, <1>2, <3>3, <4>1
    <3>. QED BY <3>1, <3>2, <3>3
  <2>3. Touches(req[a])' = Touches(req'[a]) /\ Touches(req[o])' = Touches(req'[o])
    BY DEF Touches
  <2>. QED BY <2>2, <2>3
<1>7. req[r].op = "none"
  BY <1>1, EmptyRequest
<1>. QED BY <1>1, <1>2, <1>3, <1>4, <1>6, <1>7 DEF RequestsOK

\* Two requests that work on one sample have raced for it, and two on one run, but
\* for two creates on SQLite.
LEMMA Raced ==
  ASSUME RequestsOK, NEW r \in Requests, NEW o \in Requests, r # o, NEW x,
         x \in Touches(req[r]), x \in Touches(req[o]), req[r].op # "none", req[o].op # "none",
         engine = "postgresql" \/ req[r].op # "create" \/ req[o].op # "create"
  PROVE  x \in raced
BY DEF RequestsOK, Races, Excluded

\* What each request touches.
LEMMA Touched ==
  ASSUME NEW q
  PROVE  /\ q.op \in OnSample => <<"sample", q.id>> \in Touches(q)
         /\ q.op = "mark" => <<"run", q.row.job>> \in Touches(q)
         /\ q.op = "create" => <<"run", q.job>> \in Touches(q) /\ <<"key", q.key>> \in Touches(q)
         /\ q.op = "delete_job" => /\ <<"run", q.job>> \in Touches(q)
                                   /\ \A i \in q.seen : <<"sample", i>> \in Touches(q)
<1>1. q.op \in OnSample => <<"sample", q.id>> \in Touches(q)
  BY Ops DEF Touches
<1>2. q.op = "mark" => <<"run", q.row.job>> \in Touches(q)
  BY DEF Touches
<1>3. q.op = "create" => <<"run", q.job>> \in Touches(q) /\ <<"key", q.key>> \in Touches(q)
  BY DEF Touches
<1>4. q.op = "delete_job" => /\ <<"run", q.job>> \in Touches(q)
                             /\ \A i \in q.seen : <<"sample", i>> \in Touches(q)
  <2>1. q.op = "delete_job" => Touches(q) = {<<"run", q.job>>} \cup {<<"sample", i>> : i \in q.seen}
    BY DEF Touches
  <2>. QED BY <2>1
<1>. QED BY <1>1, <1>2, <1>3, <1>4

-----------------------------------------------------------------------------
(* The tables.                                                             *)

TablesOK ==
  /\ engine \in {"sqlite", "postgresql"} /\ jobs \subseteq Jobs
  /\ samples \in [Ids -> Sample \cup {Nothing}] /\ total \in [Jobs -> Nat] /\ queue \in Seq(QueueItem)
  /\ audit \in [Ids -> Entry \cup {Nothing}] /\ \A i \in Live : audit[i] \in Entry
  /\ births \in Nat

\* A mark writes the duplicate and its key where it read another.
LEMMA MarkDoes ==
  ASSUME TypeOK, RequestsOK, NEW r \in Requests, Marked(r)
  PROVE  LET q == req[r]
             i == req[r].id
         IN  /\ q.op = "mark" /\ q.step = "looked"
             /\ i \in Live /\ q.row \in Sample /\ q.row.job \in Jobs
             /\ samples' \in [Ids -> Sample \cup {Nothing}] /\ Live' = Live
             /\ \A k \in Ids : k # i => samples'[k] = samples[k]
             /\ samples'[i].payload = samples[i].payload /\ samples'[i].status = samples[i].status
             /\ samples'[i].job = samples[i].job /\ samples'[i].birth = samples[i].birth
             /\ samples'[i].claimed = samples[i].claimed
             /\ samples'[i].dup = Written(q.row.dup, TRUE, samples[i].dup)
             /\ samples'[i].key = Written(q.row.key, q.key, samples[i].key)
<1>. DEFINE q == req[r]
            d == Written(q.row.dup, TRUE, samples[q.id].dup)
            o == Written(q.row.of, q.of, samples[q.id].of)
            k == Written(q.row.key, q.key, samples[q.id].key)
            t == [samples[q.id] EXCEPT !.dup = d, !.of = o, !.key = k]
<1>1. q.op = "mark" /\ q.step = "looked" /\ samples[q.id] # Nothing
  BY DEF Marked
<1>2. q \in Request /\ RequestOK(q)
  BY DEF RequestsOK
<1>3. q.id \in Ids /\ q.row \in Sample
  BY <1>1, <1>2, Ops DEF RequestOK
<1>4. samples[q.id] \in Sample /\ q.id \in Live
  BY <1>1, <1>3 DEF TypeOK, Live
<1>5. samples' = [samples EXCEPT ![q.id] = t]
  BY DEF Marked
<1>6. d \in BOOLEAN /\ o \in Ids \cup {0} /\ k \in Keys /\ q.row.job \in Jobs
  <2>1. q.of \in Ids \cup {0} /\ q.key \in Keys
    BY <1>2 DEF Request
  <2>. QED BY <1>3, <1>4, <2>1, RowFields DEF Written
<1>. HIDE DEF d, o, k
<1>7. /\ t \in Sample /\ t.dup = d /\ t.of = o /\ t.key = k
      /\ t.payload = samples[q.id].payload /\ t.status = samples[q.id].status
      /\ t.job = samples[q.id].job /\ t.birth = samples[q.id].birth
      /\ t.claimed = samples[q.id].claimed
  <2>1. PICK s \in Sample : s = samples[q.id]
    BY <1>4
  <2>2. t = [s EXCEPT !.dup = d, !.of = o, !.key = k]
    BY <2>1
  <2>. HIDE DEF t
  <2>3. /\ t \in Sample /\ t.dup = d /\ t.of = o /\ t.key = k
        /\ t.payload = s.payload /\ t.status = s.status /\ t.job = s.job /\ t.birth = s.birth
        /\ t.claimed = s.claimed
    BY <1>6, <2>2 DEF Sample
  <2>. QED BY <2>1, <2>3
<1>. HIDE DEF t, q
<1>8. /\ samples' \in [Ids -> Sample \cup {Nothing}] /\ samples'[q.id] = t
      /\ \A h \in Ids : h # q.id => samples'[h] = samples[h]
  BY <1>3, <1>5, <1>7 DEF TypeOK
<1>9. t # Nothing
  BY <1>7, RowFields
<1>10. Live' = Live
  BY <1>4, <1>8, <1>9 DEF Live
<1>. QED BY <1>1, <1>3, <1>4, <1>6, <1>7, <1>8, <1>10 DEF q, d, k

\* A review action writes the status.
LEMMA ActDoes ==
  ASSUME TypeOK, RequestsOK, NEW r \in Requests, Acted(r)
  PROVE  LET q == req[r]
             i == req[r].id
         IN  /\ q.op \in DOMAIN Actions /\ i \in Live /\ q.row \in Sample
             /\ q.row.status \in Actions[q.op].from
             /\ samples' \in [Ids -> Sample \cup {Nothing}] /\ Live' = Live
             /\ \A k \in Ids : k # i => samples'[k] = samples[k]
             /\ samples'[i].payload = samples[i].payload /\ samples'[i].status = Actions[q.op].to
             /\ samples'[i].job = samples[i].job /\ samples'[i].birth = samples[i].birth
             /\ samples'[i].claimed = samples[i].claimed /\ samples'[i].dup = samples[i].dup
             /\ samples'[i].key = samples[i].key
<1>. DEFINE q  == req[r]
            to == Actions[q.op].to
            t  == [samples[q.id] EXCEPT !.status = to]
<1>1. q.op \in DOMAIN Actions /\ samples[q.id] # Nothing
  BY DEF Acted
<1>2. q \in Request /\ RequestOK(q)
  BY DEF RequestsOK
<1>3. q.id \in Ids /\ q.row \in Sample /\ q.row.status \in Actions[q.op].from
  BY <1>1, <1>2, Ops DEF RequestOK
<1>4. samples[q.id] \in Sample /\ q.id \in Live
  BY <1>1, <1>3 DEF TypeOK, Live
<1>5. samples' = [samples EXCEPT ![q.id] = t]
  BY DEF Acted
<1>6. to \in Statuses
  BY <1>1, Ops
<1>. HIDE DEF to
<1>7. /\ t \in Sample /\ t.status = to /\ t.dup = samples[q.id].dup /\ t.key = samples[q.id].key
      /\ t.payload = samples[q.id].payload /\ t.job = samples[q.id].job /\ t.birth = samples[q.id].birth
      /\ t.claimed = samples[q.id].claimed
  BY <1>4, <1>6 DEF Sample
<1>. HIDE DEF t, q
<1>8. /\ samples' \in [Ids -> Sample \cup {Nothing}] /\ samples'[q.id] = t
      /\ \A h \in Ids : h # q.id => samples'[h] = samples[h]
  BY <1>3, <1>5, <1>7 DEF TypeOK
<1>9. t # Nothing
  BY <1>7, RowFields
<1>10. Live' = Live
  BY <1>4, <1>8, <1>9 DEF Live
<1>. QED BY <1>1, <1>3, <1>4, <1>7, <1>8, <1>10 DEF q, to

\* An insertion adds a row with a new birth.
LEMMA InsertDoes ==
  ASSUME TypeOK, NEW r \in Requests, NEW q, Ready(r, q), Insert(r, q)
  PROVE  \E id \in Ids : LET t == samples'[id]
         IN  /\ id \notin Live /\ Live' = Live \cup {id} /\ births' = births + 1
             /\ samples' \in [Ids -> Sample \cup {Nothing}]
             /\ \A k \in Ids : k # id => samples'[k] = samples[k]
             /\ t.payload = q.row.payload /\ t.key = q.key /\ t.dup = q.row.dup /\ t.status = q.row.status
             /\ t.job = q.job /\ t.claimed = q.row.claimed /\ t.birth = births + 1
             /\ total' = IF q.total = Unread THEN total ELSE [total EXCEPT ![q.job] = q.total + 1]
             /\ Log(r, id, "create", q.row.status)
             /\ Ends(r) /\ UNCHANGED <<jobs, queue>>
<1>. DEFINE id == Max(Live \cup {0}) + 1
            t  == [q.row EXCEPT !.birth = births + 1]
<1>1. id \in Ids /\ births' = births + 1 /\ samples' = [samples EXCEPT ![id] = t]
  BY DEF Insert
<1>2. q.row \in Sample /\ births + 1 \in Nat /\ q.row.key = q.key /\ q.row.job = q.job
  BY DEF Ready, TypeOK
<1>3. /\ t \in Sample /\ t.payload = q.row.payload /\ t.key = q.key /\ t.dup = q.row.dup
      /\ t.status = q.row.status /\ t.job = q.job /\ t.claimed = q.row.claimed /\ t.birth = births + 1
  BY <1>2 DEF Sample
<1>4. id \notin Live
  BY NewIdFree
<1>5. /\ total' = IF q.total = Unread THEN total ELSE [total EXCEPT ![q.job] = q.total + 1]
      /\ Log(r, id, "create", q.row.status) /\ Ends(r) /\ UNCHANGED <<jobs, queue>>
  BY DEF Insert, Ends
<1>. HIDE DEF id, t
<1>6. /\ samples' \in [Ids -> Sample \cup {Nothing}] /\ samples'[id] = t
      /\ \A k \in Ids : k # id => samples'[k] = samples[k]
  BY <1>1, <1>3 DEF TypeOK
<1>7. t # Nothing
  BY <1>3, RowFields
<1>8. Live' = Live \cup {id}
  BY <1>1, <1>6, <1>7 DEF Live
<1>. QED BY <1>1, <1>3, <1>4, <1>5, <1>6, <1>8

\* A deletion removes the rows that were loaded.
LEMMA DeleteDoes ==
  ASSUME TypeOK, RequestsOK, NEW r \in Requests, JobDeleted(r)
  PROVE  LET q == req[r]
         IN  /\ q.op = "delete_job" /\ q.job \in Jobs /\ jobs' = jobs \ {q.job}
             /\ samples' \in [Ids -> Sample \cup {Nothing}]
             /\ Live' = Live \ q.seen /\ \A k \in Live' : samples'[k] = samples[k]
             /\ engine = "postgresql" => \A i \in Live : samples[i].job # q.job
<1>. DEFINE q == req[r]
<1>1. /\ q.op = "delete_job" /\ jobs' = jobs \ {q.job}
      /\ samples' = [i \in Ids |-> IF i \in q.seen THEN Nothing ELSE samples[i]]
      /\ engine = "postgresql" => \A i \in Live : samples[i].job # q.job
  BY DEF JobDeleted
<1>2. q.job \in Jobs
  BY <1>1 DEF RequestsOK, RequestOK
<1>3. samples' \in [Ids -> Sample \cup {Nothing}]
  BY <1>1 DEF TypeOK
<1>4. \A k \in Ids : samples'[k] = IF k \in q.seen THEN Nothing ELSE samples[k]
  BY <1>1
<1>5. Live' = Live \ q.seen
  BY <1>4 DEF Live
<1>6. \A k \in Live' : samples'[k] = samples[k]
  BY <1>4, <1>5 DEF Live
<1>. QED BY <1>1, <1>2, <1>3, <1>5, <1>6

\* An audit entry: of a request that was overtaken it is not the newest.
LEMMA Logged ==
  ASSUME audit \in [Ids -> Entry \cup {Nothing}], NEW i \in Ids, NEW status \in Statuses,
         NEW action \in {"create", "mark_duplicate", "send_training"} \cup DOMAIN Actions,
         NEW r \in Requests, Log(r, i, action, status)
  PROVE  /\ audit' \in [Ids -> Entry \cup {Nothing}]
         /\ \A k \in Ids : audit[k] \in Entry => audit'[k] \in Entry
         /\ \A k \in Ids : k # i => audit'[k] = audit[k]
         /\ r \notin overtaken => audit'[i] \in Entry /\ audit'[i].status = status
         /\ overtaken' \subseteq overtaken \cup (Logging(i) \ {r})
         /\ r \notin overtaken'
<1>. DEFINE e == [action |-> action, status |-> status]
<1>1. e \in Entry /\ e.action = action /\ e.status = status
  BY DEF Entry
<1>2. CASE r \in overtaken
  BY <1>2 DEF Log
<1>3. CASE r \notin overtaken
  <2>1. audit' = [audit EXCEPT ![i] = e]
    BY <1>3 DEF Log
  <2>2. \E earlier \in SUBSET (Logging(i) \ {r}) : overtaken' = overtaken \cup earlier
    BY <1>3 DEF Log
  <2>. HIDE DEF e
  <2>3. r \notin overtaken' /\ overtaken' \subseteq overtaken \cup (Logging(i) \ {r})
    BY <1>3, <2>2
  <2>. QED BY <1>1, <2>1, <2>3
<1>. QED BY <1>2, <1>3

\* A queue item.
LEMMA Enqueued ==
  ASSUME TypeOK, NEW q, q.id \in Ids, q.row \in Sample, NEW via \in {"send", "direct"}, Enqueue(q, via)
  PROVE  /\ queue' \in Seq(QueueItem) /\ DOMAIN queue' = DOMAIN queue \cup {Len(queue) + 1}
         /\ Len(queue) + 1 \notin DOMAIN queue
         /\ \A n \in DOMAIN queue : queue'[n] = queue[n]
         /\ LET e == queue'[Len(queue) + 1]
            IN  e.sample = q.id /\ e.birth = q.row.birth /\ e.via = via
<1>. DEFINE e == [sample |-> q.id, birth |-> q.row.birth, via |-> via]
<1>1. e \in QueueItem /\ e.sample = q.id /\ e.birth = q.row.birth /\ e.via = via
  BY RowFields DEF QueueItem
<1>2. queue' = Append(queue, e) /\ queue \in Seq(QueueItem)
  BY DEF Enqueue, TypeOK
<1>. HIDE DEF e
<1>3. queue' \in Seq(QueueItem) /\ Len(queue') = Len(queue) + 1 /\ Len(queue) \in Nat
  BY <1>1, <1>2
<1>4. DOMAIN queue = 1 .. Len(queue) /\ DOMAIN queue' = 1 .. (Len(queue) + 1)
  BY <1>2, <1>3
<1>5. DOMAIN queue' = DOMAIN queue \cup {Len(queue) + 1} /\ Len(queue) + 1 \notin DOMAIN queue
  BY <1>3, <1>4
<1>6. (\A n \in DOMAIN queue : queue'[n] = queue[n]) /\ queue'[Len(queue) + 1] = e
  BY <1>1, <1>2, <1>3, <1>4
<1>. QED BY <1>1, <1>3, <1>5, <1>6

\* The request of a send or an item.
LEMMA OnSampleRead ==
  ASSUME RequestsOK, NEW r \in Requests, req[r].op \in OnSample
  PROVE  /\ req[r].id \in Ids /\ req[r].row \in Sample
         /\ req[r].op = "send_training" => req[r].row.status = "approved"
BY DEF RequestsOK, RequestOK

\* Only requests that work on a sample and log are overtaken, and raced for it.
OvertakenOK == overtaken \subseteq Requests /\ OvertakenRaced

\* A creation is not overtaken.
LEMMA CreateNotOvertaken ==
  ASSUME OvertakenOK, NEW r \in Requests, NEW q, Ready(r, q) PROVE r \notin overtaken
BY Ops DEF OvertakenOK, OvertakenRaced, Ready, Logs

\* The tables are of their types after a commit.
LEMMA TablesMark ==
  ASSUME TypeOK, RequestsOK, NEW r \in Requests, Marked(r) PROVE TablesOK'
<1>. DEFINE q == req[r]
<1>1. /\ q.id \in Live /\ q.row \in Sample /\ q.row.job \in Jobs
      /\ samples' \in [Ids -> Sample \cup {Nothing}] /\ Live' = Live
  BY MarkDoes
<1>2. /\ total' = IF q.total = Unread THEN total ELSE [total EXCEPT ![q.row.job] = q.total + 1]
      /\ Log(r, q.id, "mark_duplicate", q.row.status) /\ UNCHANGED <<engine, jobs, queue, births>>
  BY DEF Marked, Ends
<1>3. q \in Request /\ q.id \in Ids /\ q.row.status \in Statuses
  BY <1>1, RowFields DEF RequestsOK, Live
<1>4. q.total \in Nat \cup {Unread}
  BY <1>3 DEF Request
<1>. HIDE DEF q
<1>5. total' \in [Jobs -> Nat]
  BY <1>1, <1>2, <1>4 DEF TypeOK
<1>6. audit' \in [Ids -> Entry \cup {Nothing}] /\ \A k \in Ids : audit[k] \in Entry => audit'[k] \in Entry
  BY <1>2, <1>3, Logged DEF TypeOK
<1>7. \A k \in Live' : audit'[k] \in Entry
  BY <1>1, <1>6 DEF TypeOK, Live
<1>. QED BY <1>1, <1>2, <1>5, <1>6, <1>7 DEF TablesOK, TypeOK

\* The tables are of their types after a review action.
LEMMA TablesAct ==
  ASSUME TypeOK, RequestsOK, NEW r \in Requests, Acted(r) PROVE TablesOK'
<1>. DEFINE q == req[r]
<1>1. /\ q.op \in DOMAIN Actions /\ q.id \in Live
      /\ samples' \in [Ids -> Sample \cup {Nothing}] /\ Live' = Live
  BY ActDoes
<1>2. /\ Log(r, q.id, q.op, Actions[q.op].to) /\ UNCHANGED <<engine, jobs, total, queue, births>>
  BY DEF Acted, Ends
<1>3. q.id \in Ids /\ Actions[q.op].to \in Statuses
  BY <1>1, Ops DEF Live
<1>. HIDE DEF q
<1>6. audit' \in [Ids -> Entry \cup {Nothing}] /\ \A k \in Ids : audit[k] \in Entry => audit'[k] \in Entry
  BY <1>1, <1>2, <1>3, Logged DEF TypeOK
<1>7. \A k \in Live' : audit'[k] \in Entry
  BY <1>1, <1>6 DEF TypeOK, Live
<1>. QED BY <1>1, <1>2, <1>6, <1>7 DEF TablesOK, TypeOK

\* The tables are of their types after an insertion.
LEMMA TablesInsert ==
  ASSUME TypeOK, OvertakenOK, NEW r \in Requests, NEW q, Ready(r, q), Insert(r, q) PROVE TablesOK'
<1>1. PICK id \in Ids :
        /\ Live' = Live \cup {id} /\ births' = births + 1
        /\ samples' \in [Ids -> Sample \cup {Nothing}]
        /\ total' = IF q.total = Unread THEN total ELSE [total EXCEPT ![q.job] = q.total + 1]
        /\ Log(r, id, "create", q.row.status)
        /\ Ends(r) /\ UNCHANGED <<jobs, queue>>
  BY InsertDoes
<1>2. q \in Request /\ q.job \in Jobs /\ q.row.status \in Statuses
  BY RowFields DEF Ready
<1>3. q.total \in Nat \cup {Unread}
  BY <1>2 DEF Request
<1>4. total' \in [Jobs -> Nat]
  BY <1>1, <1>2, <1>3 DEF TypeOK
<1>5. /\ audit' \in [Ids -> Entry \cup {Nothing}] /\ audit'[id] \in Entry
      /\ \A k \in Ids : k # id => audit'[k] = audit[k]
  BY <1>1, <1>2, CreateNotOvertaken, Logged DEF TypeOK
<1>6. \A k \in Live' : audit'[k] \in Entry
  BY <1>1, <1>5 DEF TypeOK, Live
<1>7. engine' = engine /\ births' \in Nat
  BY <1>1 DEF Ends, TypeOK
<1>. QED BY <1>1, <1>4, <1>5, <1>6, <1>7 DEF TablesOK, TypeOK

\* The tables are of their types after a send.
LEMMA TablesSend ==
  ASSUME TypeOK, RequestsOK, NEW r \in Requests, Sent(r) PROVE TablesOK'
<1>. DEFINE q == req[r]
<1>1. /\ q.op = "send_training"
      /\ (Enqueue(q, "send") \/ UNCHANGED queue)
      /\ Log(r, q.id, "send_training", "approved") /\ UNCHANGED <<engine, jobs, samples, total, births>>
  BY DEF Sent, Ends
<1>2. q.id \in Ids /\ q.row \in Sample
  BY <1>1, Ops, OnSampleRead
<1>. HIDE DEF q
<1>3. queue' \in Seq(QueueItem)
  BY <1>1, <1>2, Enqueued DEF TypeOK
<1>4. audit' \in [Ids -> Entry \cup {Nothing}] /\ \A k \in Ids : audit[k] \in Entry => audit'[k] \in Entry
  BY <1>1, <1>2, Logged DEF TypeOK, Statuses
<1>5. Live' = Live /\ \A k \in Live' : audit'[k] \in Entry
  BY <1>1, <1>4 DEF TypeOK, Live
<1>. QED BY <1>1, <1>3, <1>4, <1>5 DEF TablesOK, TypeOK

\* The tables are of their types after an item.
LEMMA TablesItem ==
  ASSUME TypeOK, RequestsOK, NEW r \in Requests, ItemMade(r) PROVE TablesOK'
<1>. DEFINE q == req[r]
<1>1. q.op = "create_item" /\ Enqueue(q, "direct") /\ UNCHANGED <<engine, jobs, samples, total, audit, births>>
  BY DEF ItemMade, Ends
<1>2. q.id \in Ids /\ q.row \in Sample
  BY <1>1, Ops, OnSampleRead
<1>. HIDE DEF q
<1>3. queue' \in Seq(QueueItem)
  BY <1>1, <1>2, Enqueued
<1>4. Live' = Live
  BY <1>1 DEF Live
<1>. QED BY <1>1, <1>3, <1>4 DEF TablesOK, TypeOK

\* The tables are of their types after a deletion.
LEMMA TablesDelete ==
  ASSUME TypeOK, RequestsOK, NEW r \in Requests, JobDeleted(r) PROVE TablesOK'
<1>1. /\ jobs' \subseteq jobs /\ samples' \in [Ids -> Sample \cup {Nothing}] /\ Live' \subseteq Live
  BY DeleteDoes
<1>2. UNCHANGED <<engine, total, queue, audit, births>>
  BY DEF JobDeleted, Ends
<1>. QED BY <1>1, <1>2 DEF TablesOK, TypeOK

\* The tables are of their types when they stay as they are.
LEMMA TablesSame ==
  ASSUME TypeOK, UNCHANGED <<engine, tables>> PROVE TablesOK' /\ Live' = Live
<1>1. Live' = Live
  BY DEF tables, Live
<1>. QED BY <1>1 DEF TablesOK, TypeOK, tables

-----------------------------------------------------------------------------
(* The names of samples, and what requests have read of them.              *)

ReadsOK == \A r \in Requests : ReadOK(r)

\* All that is named is in S.
LEMMA NamedIn ==
  ASSUME NEW S, \A i \in Live' : <<i, samples'[i].birth>> \in S,
         \A r \in Requests : req'[r].op \in OnSample => <<req'[r].id, req'[r].row.birth>> \in S,
         \A n \in DOMAIN queue' : <<queue'[n].sample, queue'[n].birth>> \in S
  PROVE  Named' \subseteq S
BY DEF Named

\* What is named.
LEMMA NamedBy ==
  /\ \A i \in Live : <<i, samples[i].birth>> \in Named
  /\ \A r \in Requests : req[r].op \in OnSample => <<req[r].id, req[r].row.birth>> \in Named
  /\ \A n \in DOMAIN queue : <<queue[n].sample, queue[n].birth>> \in Named
BY DEF Named

\* Fewer names are as good.
LEMMA NamesShrink ==
  ASSUME NamesOK, UNCHANGED births, Named' \subseteq Named
  PROVE  NamesOK'
BY DEF NamesOK

\* A new birth gets one name.
LEMMA NamesGrow ==
  ASSUME NamesOK, births \in Nat, births' = births + 1, NEW id, Named' \subseteq Named \cup {<<id, births + 1>>}
  PROVE  NamesOK'
<1>1. \A x \in Named' : x[2] \in 1 .. births'
  BY DEF NamesOK
<1>2. ASSUME NEW x \in Named', NEW y \in Named', x[2] = y[2] PROVE x[1] = y[1]
  <2>1. \A z \in Named : z[2] # births + 1
    BY DEF NamesOK
  <2>2. CASE x \in Named /\ y \in Named
    BY <1>2, <2>2 DEF NamesOK
  <2>3. CASE x \notin Named \/ y \notin Named
    BY <1>2, <2>1, <2>3
  <2>. QED BY <2>2, <2>3
<1>. QED BY <1>1, <1>2 DEF NamesOK

\* Another request for a sample that r touches has raced.
LEMMA OthersRaced ==
  ASSUME RequestsOK, NEW r \in Requests, NEW o \in Requests, o # r, req[r].op # "none",
         req[o].op \in OnSample, <<"sample", req[o].id>> \in Touches(req[r])
  PROVE  <<"sample", req[o].id>> \in raced
BY Raced, Touched, Ops

\* A mark keeps names and what others have read.
LEMMA NamesMark ==
  ASSUME TypeOK, RequestsOK, NamesOK, ReadsOK, NEW r \in Requests, Marked(r) PROVE NamesOK' /\ ReadsOK'
<1>. DEFINE q == req[r]
<1>1. /\ q.op = "mark" /\ q.id \in Live /\ Live' = Live
      /\ \A k \in Ids : k # q.id => samples'[k] = samples[k]
      /\ samples'[q.id].birth = samples[q.id].birth
  BY MarkDoes
<1>2. UNCHANGED <<queue, births, raced>> /\ Ends(r)
  BY DEF Marked, Ends
<1>3. \A o \in Requests : req'[o] = IF o = r THEN NoRequest ELSE req[o]
  BY <1>2, RequestsEnd
<1>4. "none" \notin OnSample /\ NoRequest.op = "none" /\ Live \subseteq Ids
  BY Ops, EmptyRequest DEF Live
<1>5. Named' \subseteq Named
  BY <1>1, <1>2, <1>3, <1>4, NamedIn, NamedBy
<1>6. ASSUME NEW o \in Requests PROVE ReadOK(o)'
  <2>1. CASE o = r
    BY <1>3, <1>4, <2>1 DEF ReadOK
  <2>2. CASE o # r
    <3>1. req'[o] = req[o] /\ ReadOK(o)
      BY <1>3, <2>2 DEF ReadsOK
    <3>2. req[o].op \in OnSample /\ <<"sample", req[o].id>> \notin raced => req[o].id # q.id
      BY <1>1, <2>2, OthersRaced, Touched, Ops
    <3>3. req[o].op \in OnSample => req[o].id \in Ids
      BY OnSampleRead
    <3>. QED BY <1>1, <1>2, <3>1, <3>2, <3>3 DEF ReadOK
  <2>. QED BY <2>1, <2>2
<1>. QED BY <1>2, <1>5, <1>6, NamesShrink DEF ReadsOK

\* So does a review action.
LEMMA NamesAct ==
  ASSUME TypeOK, RequestsOK, NamesOK, ReadsOK, NEW r \in Requests, Acted(r) PROVE NamesOK' /\ ReadsOK'
<1>. DEFINE q == req[r]
<1>1. /\ q.op \in DOMAIN Actions /\ q.id \in Live /\ Live' = Live
      /\ \A k \in Ids : k # q.id => samples'[k] = samples[k]
      /\ samples'[q.id].birth = samples[q.id].birth
  BY ActDoes
<1>2. UNCHANGED <<queue, births, raced>> /\ Ends(r)
  BY DEF Acted, Ends
<1>3. \A o \in Requests : req'[o] = IF o = r THEN NoRequest ELSE req[o]
  BY <1>2, RequestsEnd
<1>4. "none" \notin OnSample /\ NoRequest.op = "none" /\ Live \subseteq Ids
  BY Ops, EmptyRequest DEF Live
<1>5. Named' \subseteq Named
  BY <1>1, <1>2, <1>3, <1>4, NamedIn, NamedBy
<1>6. ASSUME NEW o \in Requests PROVE ReadOK(o)'
  <2>1. CASE o = r
    BY <1>3, <1>4, <2>1 DEF ReadOK
  <2>2. CASE o # r
    <3>1. req'[o] = req[o] /\ ReadOK(o)
      BY <1>3, <2>2 DEF ReadsOK
    <3>2. q.op \in OnSample /\ q.op # "none"
      BY <1>1, Ops
    <3>3. req[o].op \in OnSample /\ <<"sample", req[o].id>> \notin raced => req[o].id # q.id
      BY <2>2, <3>2, OthersRaced, Touched
    <3>4. req[o].op \in OnSample => req[o].id \in Ids
      BY OnSampleRead
    <3>. QED BY <1>1, <1>2, <3>1, <3>3, <3>4 DEF ReadOK
  <2>. QED BY <2>1, <2>2
<1>. QED BY <1>2, <1>5, <1>6, NamesShrink DEF ReadsOK

\* A queue item is for the sample its request has read.
LEMMA NamesQueue ==
  ASSUME TypeOK, RequestsOK, NamesOK, ReadsOK, NEW r \in Requests, Ends(r),
         UNCHANGED <<samples, births>>, req[r].op \in {"send_training", "create_item"},
         NEW via \in {"send", "direct"}, Enqueue(req[r], via) \/ UNCHANGED queue
  PROVE  NamesOK' /\ ReadsOK'
<1>. DEFINE q == req[r]
            m == Len(queue) + 1
<1>1. q.op \in OnSample /\ q.op # "none"
  BY Ops
<1>2. q.id \in Ids /\ q.row \in Sample
  BY <1>1, OnSampleRead
<1>3. Live' = Live /\ UNCHANGED <<samples, births, raced>>
  BY DEF Ends, Live
<1>4. \A o \in Requests : req'[o] = IF o = r THEN NoRequest ELSE req[o]
  BY RequestsEnd
<1>5. "none" \notin OnSample /\ NoRequest.op = "none"
  BY Ops, EmptyRequest
<1>6. \A n \in DOMAIN queue' : \/ n \in DOMAIN queue /\ queue'[n] = queue[n]
                               \/ queue'[n].sample = q.id /\ queue'[n].birth = q.row.birth
  BY <1>2, Enqueued
<1>7. Named' \subseteq Named
  <2>1. \A n \in DOMAIN queue' : <<queue'[n].sample, queue'[n].birth>> \in Named
    BY <1>1, <1>6, NamedBy
  <2>2. \A o \in Requests : req'[o].op \in OnSample => <<req'[o].id, req'[o].row.birth>> \in Named
    BY <1>4, <1>5, NamedBy
  <2>. QED BY <1>3, <2>1, <2>2, NamedIn, NamedBy
<1>8. ASSUME NEW o \in Requests PROVE ReadOK(o)'
  <2>1. CASE o = r
    BY <1>4, <1>5, <2>1 DEF ReadOK
  <2>2. CASE o # r
    <3>1. req'[o] = req[o] /\ ReadOK(o)
      BY <1>4, <2>2 DEF ReadsOK
    <3>2. req[o].op \in OnSample /\ <<"sample", req[o].id>> \notin raced => req[o].id # q.id
      BY <1>1, <2>2, OthersRaced, Touched
    <3>. HIDE DEF q
    <3>. QED BY <1>3, <1>6, <3>1, <3>2 DEF ReadOK
  <2>. QED BY <2>1, <2>2
<1>. QED BY <1>3, <1>7, <1>8, NamesShrink DEF ReadsOK

\* An insertion gives a new birth to a free id.
LEMMA NamesInsert ==
  ASSUME TypeOK, RequestsOK, NamesOK, ReadsOK, NEW r \in Requests, NEW q, Ready(r, q), Insert(r, q)
  PROVE  NamesOK' /\ ReadsOK'
<1>1. PICK id \in Ids :
        /\ id \notin Live /\ Live' = Live \cup {id} /\ births' = births + 1
        /\ \A k \in Ids : k # id => samples'[k] = samples[k]
        /\ samples'[id].birth = births + 1
        /\ Ends(r) /\ UNCHANGED <<jobs, queue>>
  BY InsertDoes
<1>2. UNCHANGED <<queue, raced>> /\ births \in Nat
  BY <1>1 DEF Ends, TypeOK
<1>3. \A o \in Requests : req'[o] = IF o = r THEN NoRequest ELSE req[o]
  BY <1>1, RequestsEnd
<1>4. "none" \notin OnSample /\ NoRequest.op = "none" /\ Live \subseteq Ids
  BY Ops, EmptyRequest DEF Live
<1>5. Named' \subseteq Named \cup {<<id, births + 1>>}
  <2>1. \A i \in Live' : <<i, samples'[i].birth>> \in Named \cup {<<id, births + 1>>}
    BY <1>1, <1>4, NamedBy
  <2>2. \A o \in Requests : req'[o].op \in OnSample => <<req'[o].id, req'[o].row.birth>> \in Named
    BY <1>3, <1>4, NamedBy
  <2>. QED BY <1>2, <2>1, <2>2, NamedIn, NamedBy
<1>6. ASSUME NEW o \in Requests PROVE ReadOK(o)'
  <2>1. CASE o = r
    BY <1>3, <1>4, <2>1 DEF ReadOK
  <2>2. CASE o # r
    <3>1. req'[o] = req[o] /\ ReadOK(o)
      BY <1>3, <2>2 DEF ReadsOK
    <3>2. req[o].op \in OnSample /\ <<"sample", req[o].id>> \notin raced => req[o].id \in Ids /\ req[o].id # id
      <4>1. ASSUME req[o].op \in OnSample, <<"sample", req[o].id>> \notin raced PROVE req[o].id \in Live
        BY <3>1, <4>1, OnSampleRead, RowFields DEF ReadOK, Live
      <4>. QED BY <1>1, <1>4, <4>1
    <3>. QED BY <1>1, <1>2, <3>1, <3>2 DEF ReadOK
  <2>. QED BY <2>1, <2>2
<1>. QED BY <1>1, <1>2, <1>5, <1>6, NamesGrow DEF ReadsOK

\* A deletion takes only samples that its request touches.
LEMMA NamesDelete ==
  ASSUME TypeOK, RequestsOK, NamesOK, ReadsOK, NEW r \in Requests, JobDeleted(r) PROVE NamesOK' /\ ReadsOK'
<1>. DEFINE q == req[r]
<1>1. /\ q.op = "delete_job" /\ samples' \in [Ids -> Sample \cup {Nothing}]
      /\ Live' = Live \ q.seen /\ \A k \in Live' : samples'[k] = samples[k]
  BY DeleteDoes
<1>2. UNCHANGED <<queue, births, raced>> /\ Ends(r)
  BY DEF JobDeleted, Ends
<1>3. \A o \in Requests : req'[o] = IF o = r THEN NoRequest ELSE req[o]
  BY <1>2, RequestsEnd
<1>4. "none" \notin OnSample /\ NoRequest.op = "none" /\ Live \subseteq Ids
  BY Ops, EmptyRequest DEF Live
<1>5. Named' \subseteq Named
  <2>1. \A i \in Live' : <<i, samples'[i].birth>> \in Named
    BY <1>1, NamedBy
  <2>2. \A o \in Requests : req'[o].op \in OnSample => <<req'[o].id, req'[o].row.birth>> \in Named
    BY <1>3, <1>4, NamedBy
  <2>. QED BY <1>2, <2>1, <2>2, NamedIn, NamedBy
<1>6. ASSUME NEW o \in Requests PROVE ReadOK(o)'
  <2>1. CASE o = r
    BY <1>3, <1>4, <2>1 DEF ReadOK
  <2>2. CASE o # r
    <3>1. req'[o] = req[o] /\ ReadOK(o)
      BY <1>3, <2>2 DEF ReadsOK
    <3>2. req[o].op \in OnSample /\ <<"sample", req[o].id>> \notin raced => req[o].id \notin q.seen
      BY <1>1, <2>2, OthersRaced, Touched
    <3>3. req[o].op \in OnSample /\ <<"sample", req[o].id>> \notin raced => req[o].id \in Live
      BY <3>1, OnSampleRead, RowFields DEF ReadOK, Live
    <3>. QED BY <1>1, <1>2, <3>1, <3>2, <3>3 DEF ReadOK
  <2>. QED BY <2>1, <2>2
<1>. QED BY <1>2, <1>5, <1>6, NamesShrink DEF ReadsOK

\* A request that begins has read what is there.
LEMMA NamesOpen ==
  ASSUME TypeOK, RequestsOK, NamesOK, ReadsOK, NEW r \in Requests, NEW q, Open(r, q), Fresh(q)
  PROVE  NamesOK' /\ ReadsOK'
<1>1. /\ \A o \in Requests : req'[o] = IF o = r THEN q ELSE req[o]
      /\ raced \subseteq raced' /\ UNCHANGED <<engine, tables>>
  BY RequestsOpen
<1>2. UNCHANGED <<samples, queue, births>> /\ Live' = Live
  BY <1>1 DEF tables, Live
<1>3. /\ q.op \in OnSample => q.id \in Live /\ q.row = samples[q.id]
      /\ q.op = "send_training" => q.step = "begun"
  BY DEF Fresh
<1>4. Named' \subseteq Named
  <2>1. \A o \in Requests : req'[o].op \in OnSample => <<req'[o].id, req'[o].row.birth>> \in Named
    BY <1>1, <1>3, NamedBy
  <2>. QED BY <1>2, <2>1, NamedIn, NamedBy
<1>5. ASSUME NEW o \in Requests PROVE ReadOK(o)'
  <2>1. CASE o = r
    BY <1>1, <1>2, <1>3, <2>1 DEF ReadOK
  <2>2. CASE o # r
    BY <1>1, <1>2, <2>2 DEF ReadOK, ReadsOK
  <2>. QED BY <2>1, <2>2
<1>. QED BY <1>2, <1>4, <1>5, NamesShrink DEF ReadsOK

\* A request that has looked holds what it has read.
LEMMA NamesLook ==
  ASSUME TypeOK, RequestsOK, NamesOK, ReadsOK, NEW r \in Requests, Looks(r) PROVE NamesOK' /\ ReadsOK'
<1>1. PICK n \in Request :
        LET q == req[r]
        IN  /\ req' = [req EXCEPT ![r] = n] /\ Same
            /\ n.op = q.op /\ n.id = q.id
            /\ n.op \in {"create", "mark", "send_training"}
            /\ n.op # "create" => n.row = q.row
            /\ n.op = "send_training" => n.seen = {m \in DOMAIN queue : queue[m].sample = n.id}
  BY DEF Looks
<1>2. UNCHANGED <<samples, queue, births, raced>> /\ Live' = Live
  BY <1>1 DEF Same, tables, Live
<1>3. \A o \in Requests : req'[o] = IF o = r THEN n ELSE req[o]
  BY <1>1 DEF RequestsOK
<1>4. n.op \in OnSample => n.op # "create"
  BY Ops
<1>5. Named' \subseteq Named
  <2>1. \A o \in Requests : req'[o].op \in OnSample => <<req'[o].id, req'[o].row.birth>> \in Named
    BY <1>1, <1>3, <1>4, NamedBy
  <2>. QED BY <1>2, <2>1, NamedIn, NamedBy
<1>6. ASSUME NEW o \in Requests PROVE ReadOK(o)'
  <2>1. CASE o = r
    <3>1. ReadOK(r)
      BY DEF ReadsOK
    <3>. QED BY <1>1, <1>2, <1>3, <1>4, <2>1, <3>1 DEF ReadOK
  <2>2. CASE o # r
    BY <1>1, <1>2, <1>3, <2>2 DEF ReadOK, ReadsOK
  <2>. QED BY <2>1, <2>2
<1>. QED BY <1>2, <1>5, <1>6, NamesShrink DEF ReadsOK

\* A request that fails leaves everything as it is.
LEMMA NamesFail ==
  ASSUME TypeOK, RequestsOK, NamesOK, ReadsOK, NEW r \in Requests, Fails(r) PROVE NamesOK' /\ ReadsOK'
<1>1. Ends(r) /\ UNCHANGED <<samples, queue, births, raced>> /\ Live' = Live
  BY DEF Fails, Ends, tables, Live
<1>2. \A o \in Requests : req'[o] = IF o = r THEN NoRequest ELSE req[o]
  BY <1>1, RequestsEnd
<1>3. "none" \notin OnSample /\ NoRequest.op = "none"
  BY Ops, EmptyRequest
<1>4. Named' \subseteq Named
  <2>1. \A o \in Requests : req'[o].op \in OnSample => <<req'[o].id, req'[o].row.birth>> \in Named
    BY <1>2, <1>3, NamedBy
  <2>. QED BY <1>1, <2>1, NamedIn, NamedBy
<1>5. ASSUME NEW o \in Requests PROVE ReadOK(o)'
  BY <1>1, <1>2, <1>3 DEF ReadOK, ReadsOK
<1>. QED BY <1>1, <1>4, <1>5, NamesShrink DEF ReadsOK

-----------------------------------------------------------------------------
(* The audit log and the training queue.                                   *)

WorkflowOK == AuditTellsStatus /\ QueueHoldsApproved /\ SentOnce

\* A mark that was not raced logs the status that is there.
LEMMA WorkflowMark ==
  ASSUME TypeOK, RequestsOK, OvertakenOK, ReadsOK, WorkflowOK, NEW r \in Requests, Marked(r) PROVE WorkflowOK'
<1>. DEFINE q == req[r]
<1>1. /\ q.op = "mark" /\ q.id \in Live /\ q.row \in Sample /\ Live' = Live
      /\ \A k \in Ids : k # q.id => samples'[k] = samples[k]
      /\ samples'[q.id].birth = samples[q.id].birth /\ samples'[q.id].status = samples[q.id].status
  BY MarkDoes
<1>2. UNCHANGED <<queue, raced>> /\ Log(r, q.id, "mark_duplicate", q.row.status)
  BY DEF Marked, Ends
<1>3. q.id \in Ids /\ Live \subseteq Ids /\ q.row.status \in Statuses
  BY <1>1, RowFields DEF Live
<1>4. /\ <<"sample", q.id>> \notin raced => audit'[q.id].status = q.row.status
      /\ \A k \in Ids : k # q.id => audit'[k] = audit[k]
  BY <1>2, <1>3, Logged DEF TypeOK, OvertakenOK, OvertakenRaced
<1>5. <<"sample", q.id>> \notin raced => samples[q.id] = q.row
  BY <1>1, Ops DEF ReadsOK, ReadOK
<1>. HIDE DEF q
<1>6. AuditTellsStatus'
  BY <1>1, <1>2, <1>3, <1>4, <1>5 DEF WorkflowOK, AuditTellsStatus
<1>7. QueueHoldsApproved'
  BY <1>1, <1>2, <1>3 DEF WorkflowOK, QueueHoldsApproved
<1>8. SentOnce'
  BY <1>2 DEF WorkflowOK, SentOnce
<1>. QED BY <1>6, <1>7, <1>8 DEF WorkflowOK

\* A decision that was not raced is not about an approved sample.
LEMMA WorkflowAct ==
  ASSUME TypeOK, RequestsOK, OvertakenOK, ReadsOK, WorkflowOK, NEW r \in Requests, Acted(r) PROVE WorkflowOK'
<1>. DEFINE q == req[r]
<1>1. /\ q.op \in DOMAIN Actions /\ q.id \in Live /\ q.row.status \in Actions[q.op].from /\ Live' = Live
      /\ \A k \in Ids : k # q.id => samples'[k] = samples[k]
      /\ samples'[q.id].birth = samples[q.id].birth /\ samples'[q.id].status = Actions[q.op].to
  BY ActDoes
<1>2. UNCHANGED <<queue, raced>> /\ Log(r, q.id, q.op, Actions[q.op].to)
  BY DEF Acted, Ends
<1>3. q.id \in Ids /\ Live \subseteq Ids /\ Actions[q.op].to \in Statuses /\ q.row.status # "approved"
  BY <1>1, Ops DEF Live
<1>4. /\ <<"sample", q.id>> \notin raced => audit'[q.id].status = Actions[q.op].to
      /\ \A k \in Ids : k # q.id => audit'[k] = audit[k]
  <2>1. <<"sample", q.id>> \notin raced => r \notin overtaken
    BY DEF OvertakenOK, OvertakenRaced
  <2>. DEFINE action == q.op
              status == Actions[action].to
  <2>2. /\ action \in {"create", "mark_duplicate", "send_training"} \cup DOMAIN Actions /\ status \in Statuses
        /\ Log(r, q.id, action, status)
    BY <1>1, <1>2, <1>3
  <2>. HIDE DEF q, action, status
  <2>3. /\ r \notin overtaken => audit'[q.id].status = status
        /\ \A k \in Ids : k # q.id => audit'[k] = audit[k]
    BY <1>3, <2>2, Logged DEF TypeOK
  <2>. QED BY <2>1, <2>3 DEF status, action
<1>5. <<"sample", q.id>> \notin raced => samples[q.id] = q.row
  BY <1>1, Ops DEF ReadsOK, ReadOK
<1>. HIDE DEF q
<1>6. AuditTellsStatus'
  BY <1>1, <1>2, <1>3, <1>4 DEF WorkflowOK, AuditTellsStatus
<1>7. QueueHoldsApproved'
  <2>. SUFFICES ASSUME NEW n \in DOMAIN queue, NEW i \in Live, queue[n].via = "send",
                       queue[n].birth = samples'[i].birth, samples'[i].status # "approved",
                       <<"sample", i>> \notin raced
                PROVE  FALSE
    BY <1>1, <1>2 DEF QueueHoldsApproved
  <2>1. queue[n].birth = samples[i].birth
    BY <1>1, <1>3
  <2>2. samples[i].status # "approved"
    BY <1>1, <1>3, <1>5
  <2>. QED BY <2>1, <2>2 DEF WorkflowOK, QueueHoldsApproved
<1>8. SentOnce'
  BY <1>2 DEF WorkflowOK, SentOnce
<1>. QED BY <1>6, <1>7, <1>8 DEF WorkflowOK

\* The queue knows no new sample.
LEMMA WorkflowInsert ==
  ASSUME TypeOK, RequestsOK, OvertakenOK, NamesOK, WorkflowOK, NEW r \in Requests, NEW q, Ready(r, q), Insert(r, q)
  PROVE  WorkflowOK'
<1>1. PICK id \in Ids :
        /\ id \notin Live /\ Live' = Live \cup {id}
        /\ \A k \in Ids : k # id => samples'[k] = samples[k]
        /\ samples'[id].birth = births + 1 /\ samples'[id].status = q.row.status
        /\ Log(r, id, "create", q.row.status)
        /\ Ends(r) /\ UNCHANGED queue
  BY InsertDoes
<1>2. raced' = raced /\ q.row.status \in Statuses /\ Live \subseteq Ids /\ births \in Nat
  BY <1>1, RowFields DEF Ends, Ready, Live, TypeOK
<1>3. /\ audit'[id].status = q.row.status /\ \A k \in Ids : k # id => audit'[k] = audit[k]
  BY <1>1, <1>2, CreateNotOvertaken, Logged DEF TypeOK
<1>4. \A n \in DOMAIN queue : queue[n].birth # births + 1
  <2>1. \A n \in DOMAIN queue : queue[n].birth \in 1 .. births
    BY NamedBy DEF NamesOK
  <2>. QED BY <1>2, <2>1
<1>5. AuditTellsStatus'
  BY <1>1, <1>2, <1>3 DEF WorkflowOK, AuditTellsStatus
<1>6. QueueHoldsApproved'
  BY <1>1, <1>2, <1>4 DEF WorkflowOK, QueueHoldsApproved
<1>7. SentOnce'
  BY <1>1, <1>2 DEF WorkflowOK, SentOnce
<1>. QED BY <1>5, <1>6, <1>7 DEF WorkflowOK

\* A send that was not raced adds an item for an approved sample that has none.
LEMMA WorkflowSend ==
  ASSUME TypeOK, RequestsOK, OvertakenOK, NamesOK, ReadsOK, WorkflowOK, NEW r \in Requests, Sent(r) PROVE WorkflowOK'
<1>. DEFINE q == req[r]
            m == Len(queue) + 1
<1>1. /\ q.op = "send_training" /\ q.step = "looked"
      /\ IF q.seen = {} THEN Enqueue(q, "send") ELSE UNCHANGED queue
      /\ Log(r, q.id, "send_training", "approved") /\ UNCHANGED <<samples, raced>> /\ Ends(r)
  BY DEF Sent, Ends
<1>2. q.op \in OnSample /\ q.id \in Ids /\ q.row \in Sample /\ q.row.status = "approved"
  BY <1>1, Ops, OnSampleRead
<1>3. <<"sample", q.id>> \notin raced =>
        samples[q.id] = q.row /\ (q.seen = {} => \A n \in DOMAIN queue : queue[n].sample # q.id)
  BY <1>1, <1>2 DEF ReadsOK, ReadOK
<1>4. Live' = Live /\ Live \subseteq Ids
  BY <1>1 DEF Live
<1>5. /\ <<"sample", q.id>> \notin raced => audit'[q.id].status = "approved"
      /\ \A k \in Ids : k # q.id => audit'[k] = audit[k]
  BY <1>1, <1>2, Logged DEF TypeOK, Statuses, OvertakenOK, OvertakenRaced
<1>6. \A i \in Live : samples[i].birth = q.row.birth => i = q.id
  BY <1>2, NamedBy DEF NamesOK
<1>7. \A n \in DOMAIN queue : queue[n].birth = q.row.birth => queue[n].sample = q.id
  BY <1>2, NamedBy DEF NamesOK
<1>8. q.seen = {} =>
        /\ DOMAIN queue' = DOMAIN queue \cup {m} /\ \A n \in DOMAIN queue : queue'[n] = queue[n]
        /\ queue'[m].sample = q.id /\ queue'[m].birth = q.row.birth
  BY <1>1, <1>2, Enqueued
<1>. HIDE DEF q, m
<1>9. AuditTellsStatus'
  BY <1>1, <1>2, <1>3, <1>4, <1>5 DEF WorkflowOK, AuditTellsStatus
<1>10. QueueHoldsApproved'
  <2>1. CASE q.seen # {}
    BY <1>1, <1>4, <2>1 DEF WorkflowOK, QueueHoldsApproved
  <2>2. CASE q.seen = {}
    BY <1>1, <1>2, <1>3, <1>4, <1>6, <1>8, <2>2 DEF WorkflowOK, QueueHoldsApproved
  <2>. QED BY <2>1, <2>2
<1>11. SentOnce'
  <2>1. CASE q.seen # {}
    BY <1>1, <2>1 DEF WorkflowOK, SentOnce
  <2>2. CASE q.seen = {}
    <3>. SUFFICES ASSUME NEW a \in DOMAIN queue', NEW b \in DOMAIN queue', a # b,
                         queue'[a].birth = queue'[b].birth, {queue'[a].via, queue'[b].via} = {"send"}
                  PROVE  <<"sample", queue'[a].sample>> \in raced
      BY <1>1 DEF SentOnce
    <3>1. CASE a \in DOMAIN queue /\ b \in DOMAIN queue
      BY <1>8, <2>2, <3>1 DEF WorkflowOK, SentOnce
    <3>2. CASE a = m
      <4>1. b \in DOMAIN queue /\ queue[b].sample = q.id /\ queue'[a].sample = q.id
        BY <1>7, <1>8, <2>2, <3>2
      <4>. QED BY <1>3, <2>2, <4>1
    <3>3. CASE b = m
      <4>1. a \in DOMAIN queue /\ queue[a].sample = q.id /\ queue'[a].sample = q.id
        BY <1>7, <1>8, <2>2, <3>3
      <4>. QED BY <1>3, <2>2, <4>1
    <3>. QED BY <1>8, <2>2, <3>1, <3>2, <3>3
  <2>. QED BY <2>1, <2>2
<1>. QED BY <1>9, <1>10, <1>11 DEF WorkflowOK

\* An item made by hand is not a send.
LEMMA WorkflowItem ==
  ASSUME TypeOK, RequestsOK, WorkflowOK, NEW r \in Requests, ItemMade(r) PROVE WorkflowOK'
<1>. DEFINE q == req[r]
            m == Len(queue) + 1
<1>1. q.op = "create_item" /\ Enqueue(q, "direct") /\ UNCHANGED <<samples, audit, raced>>
  BY DEF ItemMade, Ends
<1>2. q.id \in Ids /\ q.row \in Sample
  BY <1>1, Ops, OnSampleRead
<1>3. /\ DOMAIN queue' = DOMAIN queue \cup {m} /\ \A n \in DOMAIN queue : queue'[n] = queue[n]
      /\ queue'[m].via = "direct"
  BY <1>1, <1>2, Enqueued
<1>4. Live' = Live
  BY <1>1 DEF Live
<1>. HIDE DEF q, m
<1>5. AuditTellsStatus'
  BY <1>1, <1>4 DEF WorkflowOK, AuditTellsStatus
<1>6. QueueHoldsApproved'
  BY <1>1, <1>3, <1>4 DEF WorkflowOK, QueueHoldsApproved
<1>7. SentOnce'
  <2>. SUFFICES ASSUME NEW a \in DOMAIN queue', NEW b \in DOMAIN queue', a # b,
                       queue'[a].birth = queue'[b].birth, {queue'[a].via, queue'[b].via} = {"send"}
                PROVE  <<"sample", queue'[a].sample>> \in raced
    BY <1>1 DEF SentOnce
  <2>1. queue'[a].via = "send" /\ queue'[b].via = "send"
    OBVIOUS
  <2>2. a \in DOMAIN queue /\ b \in DOMAIN queue
    BY <1>3, <2>1
  <2>. QED BY <1>3, <2>2 DEF WorkflowOK, SentOnce
<1>. QED BY <1>5, <1>6, <1>7 DEF WorkflowOK

\* A deletion leaves fewer samples.
LEMMA WorkflowDelete ==
  ASSUME TypeOK, RequestsOK, WorkflowOK, NEW r \in Requests, JobDeleted(r) PROVE WorkflowOK'
<1>1. Live' \subseteq Live /\ \A k \in Live' : samples'[k] = samples[k]
  BY DeleteDoes
<1>2. UNCHANGED <<queue, audit, raced>>
  BY DEF JobDeleted, Ends
<1>3. AuditTellsStatus' /\ QueueHoldsApproved'
  BY <1>1, <1>2 DEF WorkflowOK, AuditTellsStatus, QueueHoldsApproved
<1>4. SentOnce'
  BY <1>2 DEF WorkflowOK, SentOnce
<1>. QED BY <1>3, <1>4 DEF WorkflowOK

\* Nothing else changes the workflow.
LEMMA WorkflowSame ==
  ASSUME WorkflowOK, UNCHANGED tables, raced \subseteq raced' PROVE WorkflowOK'
<1>1. Live' = Live /\ UNCHANGED <<samples, queue, audit>>
  BY DEF Live, tables
<1>2. AuditTellsStatus'
  BY <1>1 DEF WorkflowOK, AuditTellsStatus
<1>3. QueueHoldsApproved'
  BY <1>1 DEF WorkflowOK, QueueHoldsApproved
<1>4. SentOnce'
  BY <1>1 DEF WorkflowOK, SentOnce
<1>. QED BY <1>2, <1>3, <1>4 DEF WorkflowOK

-----------------------------------------------------------------------------
(* The keys of primaries.                                                  *)

LeadsOK == KeysOK /\ OnePrimaryPerLead

\* A mark makes a duplicate, but on SQLite of a sample that has taken the id of the
\* one it has read.
LEMMA LeadsMark ==
  ASSUME TypeOK, RequestsOK, ReadsOK, LeadsOK, NEW r \in Requests, Marked(r) PROVE LeadsOK'
<1>. DEFINE q == req[r]
<1>1. /\ q.op = "mark" /\ q.id \in Live /\ q.row \in Sample /\ Live' = Live
      /\ \A k \in Ids : k # q.id => samples'[k] = samples[k]
      /\ samples'[q.id].payload = samples[q.id].payload /\ samples'[q.id].job = samples[q.id].job
      /\ samples'[q.id].claimed = samples[q.id].claimed
      /\ samples'[q.id].dup = Written(q.row.dup, TRUE, samples[q.id].dup)
      /\ samples' \in [Ids -> Sample \cup {Nothing}]
  BY MarkDoes
<1>2. UNCHANGED <<engine, raced>> /\ Ends(r)
  BY DEF Marked, Ends
<1>3. \A o \in Requests : req'[o] = IF o = r THEN NoRequest ELSE req[o]
  BY <1>2, RequestsEnd
<1>4. "none" \notin OnSample /\ NoRequest.op = "none" /\ Live \subseteq Ids /\ q.op \in OnSample
  BY <1>1, Ops, EmptyRequest DEF Live
<1>5. <<"sample", q.id>> \notin raced => samples[q.id] = q.row
  BY <1>4 DEF ReadsOK, ReadOK
<1>6. engine = "postgresql" => (q.row.dup => samples[q.id].dup)
  BY <1>4 DEF LeadsOK, KeysOK, RowsKept
<1>7. /\ samples[q.id].dup \in BOOLEAN /\ q.row.dup \in BOOLEAN /\ engine \in {"sqlite", "postgresql"}
  BY <1>1, LiveRow, RowFields DEF TypeOK
<1>8. /\ samples[q.id].dup => samples'[q.id].dup
      /\ samples'[q.id].dup \/ (engine = "sqlite" /\ <<"sample", q.id>> \in raced)
  BY <1>1, <1>5, <1>6, <1>7 DEF Written
<1>. HIDE DEF q
<1>9. PrimaryKeysOK'
  BY <1>1, <1>2, <1>4, <1>8 DEF LeadsOK, KeysOK, PrimaryKeysOK
<1>10. RowsKept'
  <2>. SUFFICES ASSUME engine = "postgresql", NEW o \in Requests, o # r
                PROVE  /\ req[o].op \in OnSample => /\ samples'[req[o].id] # Nothing
                                                    /\ req[o].row.dup => samples'[req[o].id].dup
                       /\ req[o].op = "delete_job" =>
                            \A i \in req[o].seen : i \in Live' /\ samples'[i].job = req[o].job
    BY <1>2, <1>3, <1>4 DEF RowsKept
  <2>1. /\ req[o].op \in OnSample => samples[req[o].id] # Nothing /\ (req[o].row.dup => samples[req[o].id].dup)
        /\ req[o].op = "delete_job" => \A i \in req[o].seen : i \in Live /\ samples[i].job = req[o].job
    BY DEF LeadsOK, KeysOK, RowsKept
  <2>2. req[o].op \in OnSample => req[o].id \in Live'
    BY <1>1, <2>1, OnSampleRead DEF Live
  <2>. QED BY <1>1, <1>4, <1>8, <2>1, <2>2 DEF Live
<1>11. KeysFree'
  <2>. SUFFICES ASSUME engine = "postgresql", NEW o \in Requests, o # r,
                       req[o].op = "create", req[o].step = "looked", ~req[o].row.dup, req[o].key # Nothing,
                       <<"key", req[o].key>> \notin raced, NEW i \in Live, samples'[i].key = req[o].key
                PROVE  samples'[i].dup
    BY <1>1, <1>2, <1>3, <1>4 DEF KeysFree
  <2>1. \A k \in Live : samples[k].key = req[o].key => samples[k].dup
    BY DEF LeadsOK, KeysOK, KeysFree
  <2>. QED BY <1>1, <1>4, <1>8, <2>1
<1>12. OnePrimaryPerLead'
  <2>. SUFFICES ASSUME NEW i \in Live, NEW k \in Live, i # k, ~samples'[i].dup, ~samples'[k].dup,
                       SameLead(samples'[i].payload, samples'[k].payload)
                PROVE  \/ engine = "postgresql" /\ <<"key", samples'[i].key>> \in raced
                       \/ engine = "sqlite" /\ \E h \in {i, k} : <<"sample", h>> \in raced
    BY <1>1, <1>2 DEF OnePrimaryPerLead
  <2>1. CASE q.id \in {i, k}
    BY <1>8, <2>1
  <2>2. CASE q.id \notin {i, k}
    BY <1>1, <1>4, <2>2 DEF LeadsOK, OnePrimaryPerLead
  <2>. QED BY <2>1, <2>2
<1>. QED BY <1>9, <1>10, <1>11, <1>12 DEF LeadsOK, KeysOK

\* A step after which fewer requests are open, and the samples say the same of their
\* leads.
LEMMA LeadsSame ==
  ASSUME LeadsOK, TypeOK, Live' = Live, engine' = engine, raced \subseteq raced',
         \A i \in Live : /\ samples'[i].payload = samples[i].payload /\ samples'[i].key = samples[i].key
                         /\ samples'[i].dup = samples[i].dup /\ samples'[i].claimed = samples[i].claimed
                         /\ samples'[i].job = samples[i].job,
         RequestsOK, \A o \in Requests : req'[o] \in {req[o], NoRequest}
  PROVE  LeadsOK'
<1>1. "none" \notin OnSample /\ NoRequest.op = "none"
  BY Ops, EmptyRequest
<1>2. PrimaryKeysOK'
  BY DEF LeadsOK, KeysOK, PrimaryKeysOK
<1>3. RowsKept'
  <2>. SUFFICES ASSUME engine = "postgresql", NEW o \in Requests, req'[o] = req[o]
                PROVE  /\ req[o].op \in OnSample => /\ samples'[req[o].id] # Nothing
                                                    /\ req[o].row.dup => samples'[req[o].id].dup
                       /\ req[o].op = "delete_job" =>
                            \A i \in req[o].seen : i \in Live' /\ samples'[i].job = req[o].job
    BY <1>1 DEF RowsKept
  <2>1. /\ req[o].op \in OnSample => samples[req[o].id] # Nothing /\ (req[o].row.dup => samples[req[o].id].dup)
        /\ req[o].op = "delete_job" => \A i \in req[o].seen : i \in Live /\ samples[i].job = req[o].job
    BY DEF LeadsOK, KeysOK, RowsKept
  <2>2. req[o].op \in OnSample => req[o].id \in Live'
    BY <2>1, OnSampleRead DEF Live
  <2>. QED BY <2>1, <2>2 DEF Live
<1>4. KeysFree'
  BY <1>1 DEF LeadsOK, KeysOK, KeysFree
<1>5. OnePrimaryPerLead'
  BY DEF LeadsOK, OnePrimaryPerLead
<1>. QED BY <1>2, <1>3, <1>4, <1>5 DEF LeadsOK, KeysOK

\* A review action says nothing of leads.
LEMMA LeadsAct ==
  ASSUME TypeOK, RequestsOK, LeadsOK, NEW r \in Requests, Acted(r) PROVE LeadsOK'
<1>1. Live' = Live /\ \A i \in Live :
         /\ samples'[i].payload = samples[i].payload /\ samples'[i].key = samples[i].key
         /\ samples'[i].dup = samples[i].dup /\ samples'[i].claimed = samples[i].claimed
         /\ samples'[i].job = samples[i].job
  BY ActDoes DEF Live
<1>2. UNCHANGED <<engine, raced>> /\ Ends(r)
  BY DEF Acted, Ends
<1>3. \A o \in Requests : req'[o] \in {req[o], NoRequest}
  BY <1>2, RequestsEnd
<1>. QED BY <1>1, <1>2, <1>3, LeadsSame

\* Nor does what leaves the samples alone.
LEMMA LeadsEnd ==
  ASSUME TypeOK, RequestsOK, LeadsOK, NEW r \in Requests, Ends(r), UNCHANGED samples PROVE LeadsOK'
<1>1. Live' = Live /\ UNCHANGED <<engine, raced>>
  BY DEF Live, Ends
<1>2. \A o \in Requests : req'[o] \in {req[o], NoRequest}
  BY RequestsEnd
<1>. QED BY <1>1, <1>2, LeadsSame

\* A new primary has a key that no other primary has, or requests have raced.
LEMMA LeadsInsert ==
  ASSUME TypeOK, RequestsOK, LeadsOK, NEW r \in Requests, NEW q, Ready(r, q), Insert(r, q) PROVE LeadsOK'
<1>1. PICK id \in Ids :
        /\ id \notin Live /\ Live' = Live \cup {id}
        /\ \A k \in Ids : k # id => samples'[k] = samples[k]
        /\ samples'[id].payload = q.row.payload /\ samples'[id].key = q.key /\ samples'[id].dup = q.row.dup
        /\ samples'[id].claimed = q.row.claimed
        /\ samples' \in [Ids -> Sample \cup {Nothing}]
        /\ Ends(r)
  BY InsertDoes
<1>2. UNCHANGED <<engine, raced>> /\ Live \subseteq Ids /\ engine \in {"sqlite", "postgresql"}
  BY <1>1 DEF Ends, Live, TypeOK
<1>3. \A o \in Requests : req'[o] = IF o = r THEN NoRequest ELSE req[o]
  BY <1>1, RequestsEnd
<1>4. "none" \notin OnSample /\ NoRequest.op = "none"
  BY Ops, EmptyRequest
<1>5. /\ req[r].op = "create" /\ req[r].key = q.key
      /\ q.row \in Sample /\ q.key = KeyOf(q.row.payload) /\ (q.row.claimed => q.row.dup)
      /\ q.key # Nothing /\ ~q.row.dup /\ (engine = "postgresql" => <<"key", q.key>> \notin raced)
           => \A i \in Live : samples[i].key = q.key => samples[i].dup
  BY DEF Ready
<1>6. PrimaryKeysOK'
  BY <1>1, <1>2, <1>5 DEF LeadsOK, KeysOK, PrimaryKeysOK
<1>7. RowsKept'
  <2>. SUFFICES ASSUME engine = "postgresql", NEW o \in Requests, o # r
                PROVE  /\ req[o].op \in OnSample => /\ samples'[req[o].id] # Nothing
                                                    /\ req[o].row.dup => samples'[req[o].id].dup
                       /\ req[o].op = "delete_job" =>
                            \A i \in req[o].seen : i \in Live' /\ samples'[i].job = req[o].job
    BY <1>2, <1>3, <1>4 DEF RowsKept
  <2>1. /\ req[o].op \in OnSample => samples[req[o].id] # Nothing /\ (req[o].row.dup => samples[req[o].id].dup)
        /\ req[o].op = "delete_job" => \A i \in req[o].seen : i \in Live /\ samples[i].job = req[o].job
    BY DEF LeadsOK, KeysOK, RowsKept
  <2>2. req[o].op \in OnSample => req[o].id \in Live
    BY <2>1, OnSampleRead DEF Live
  <2>3. \A k \in Live : samples'[k] = samples[k]
    BY <1>1, <1>2
  <2>. QED BY <1>1, <2>1, <2>2, <2>3
<1>8. KeysFree'
  <2>. SUFFICES ASSUME engine = "postgresql", NEW o \in Requests, o # r,
                       req[o].op = "create", req[o].step = "looked", ~req[o].row.dup, req[o].key # Nothing,
                       <<"key", req[o].key>> \notin raced, NEW i \in Live', samples'[i].key = req[o].key
                PROVE  samples'[i].dup
    BY <1>2, <1>3, <1>4 DEF KeysFree
  <2>1. \A k \in Live : samples[k].key = req[o].key => samples[k].dup
    BY DEF LeadsOK, KeysOK, KeysFree
  <2>2. q.key # req[o].key
    <3>1. <<"key", q.key>> \in Touches(req[r]) /\ <<"key", req[o].key>> \in Touches(req[o])
      BY <1>5, Touched
    <3>. QED BY <1>5, <3>1, Raced
  <2>. QED BY <1>1, <1>2, <2>1, <2>2
<1>9. \A k \in Live : samples[k].payload \in Payloads
  BY LiveRow, RowFields
<1>10. ASSUME NEW k \in Live, ~samples[k].dup, ~q.row.dup, q.key # Nothing, KeyOf(samples[k].payload) = q.key
       PROVE  \/ engine = "postgresql" /\ <<"key", q.key>> \in raced /\ samples[k].key = q.key
              \/ engine = "sqlite" /\ <<"sample", k>> \in raced
  BY <1>2, <1>5, <1>10 DEF LeadsOK, KeysOK, PrimaryKeysOK
<1>11. OnePrimaryPerLead'
  <2>. SUFFICES ASSUME NEW i \in Live', NEW k \in Live', i # k, ~samples'[i].dup, ~samples'[k].dup,
                       SameLead(samples'[i].payload, samples'[k].payload)
                PROVE  \/ engine = "postgresql" /\ <<"key", samples'[i].key>> \in raced
                       \/ engine = "sqlite" /\ \E h \in {i, k} : <<"sample", h>> \in raced
    BY <1>2 DEF OnePrimaryPerLead
  <2>1. CASE i = id
    <3>1. k \in Live /\ samples'[k] = samples[k] /\ samples'[i].payload = q.row.payload
          /\ samples'[i].key = q.key /\ ~q.row.dup
      BY <1>1, <1>2, <2>1
    <3>2. KeyOf(q.row.payload) = KeyOf(samples[k].payload) /\ q.key # Nothing
      BY <1>5, <1>9, <3>1, RowFields, SameLeadSameKey
    <3>. QED BY <1>5, <1>10, <3>1, <3>2
  <2>2. CASE k = id
    <3>1. i \in Live /\ samples'[i] = samples[i] /\ samples'[k].payload = q.row.payload /\ ~q.row.dup
      BY <1>1, <1>2, <2>2
    <3>2. KeyOf(q.row.payload) = KeyOf(samples[i].payload) /\ q.key # Nothing
      BY <1>5, <1>9, <3>1, RowFields, SameLeadSameKey
    <3>. QED BY <1>5, <1>10, <3>1, <3>2
  <2>3. CASE i # id /\ k # id
    BY <1>1, <1>2, <2>3 DEF LeadsOK, OnePrimaryPerLead
  <2>. QED BY <2>1, <2>2, <2>3
<1>. QED BY <1>6, <1>7, <1>8, <1>11 DEF LeadsOK, KeysOK

\* A deletion leaves fewer samples, and on PostgreSQL as many.
LEMMA LeadsDelete ==
  ASSUME TypeOK, RequestsOK, LeadsOK, NEW r \in Requests, JobDeleted(r) PROVE LeadsOK'
<1>. DEFINE q == req[r]
<1>1. /\ q.op = "delete_job" /\ samples' \in [Ids -> Sample \cup {Nothing}]
      /\ Live' = Live \ q.seen /\ \A k \in Live' : samples'[k] = samples[k]
      /\ engine = "postgresql" => \A i \in Live : samples[i].job # q.job
  BY DeleteDoes
<1>2. UNCHANGED <<engine, raced>> /\ Ends(r)
  BY DEF JobDeleted, Ends
<1>3. \A o \in Requests : req'[o] = IF o = r THEN NoRequest ELSE req[o]
  BY <1>2, RequestsEnd
<1>4. CASE engine = "postgresql"
  <2>1. \A i \in q.seen : i \in Live /\ samples[i].job = q.job
    BY <1>1, <1>4 DEF LeadsOK, KeysOK, RowsKept
  <2>2. Live' = Live
    BY <1>1, <1>4, <2>1
  <2>. QED BY <1>1, <1>2, <1>3, <2>2, LeadsSame
<1>5. CASE engine # "postgresql"
  <2>1. PrimaryKeysOK' /\ OnePrimaryPerLead'
    BY <1>1, <1>2 DEF LeadsOK, KeysOK, PrimaryKeysOK, OnePrimaryPerLead
  <2>2. RowsKept' /\ KeysFree'
    BY <1>2, <1>5 DEF RowsKept, KeysFree
  <2>. QED BY <2>1, <2>2 DEF LeadsOK, KeysOK
<1>. QED BY <1>4, <1>5

\* What begins has read the samples as they are.
LEMMA LeadsOpen ==
  ASSUME TypeOK, RequestsOK, LeadsOK, NEW r \in Requests, NEW q, Open(r, q), Fresh(q) PROVE LeadsOK'
<1>1. /\ \A o \in Requests : req'[o] = IF o = r THEN q ELSE req[o]
      /\ raced \subseteq raced' /\ UNCHANGED <<engine, tables>>
  BY RequestsOpen
<1>2. UNCHANGED samples /\ Live' = Live
  BY <1>1 DEF tables, Live
<1>3. /\ q.op \in OnSample => q.id \in Live /\ q.row = samples[q.id]
      /\ q.op = "create" => q.step = "begun"
      /\ q.op = "delete_job" => q.seen = {i \in Live : samples[i].job = q.job}
  BY DEF Fresh
<1>4. PrimaryKeysOK' /\ OnePrimaryPerLead'
  BY <1>1, <1>2 DEF LeadsOK, KeysOK, PrimaryKeysOK, OnePrimaryPerLead
<1>5. RowsKept'
  BY <1>1, <1>2, <1>3 DEF LeadsOK, KeysOK, RowsKept, Live
<1>6. KeysFree'
  BY <1>1, <1>2, <1>3 DEF LeadsOK, KeysOK, KeysFree
<1>. QED BY <1>4, <1>5, <1>6 DEF LeadsOK, KeysOK

\* What has looked has found that no primary has its key.
LEMMA LeadsLook ==
  ASSUME TypeOK, RequestsOK, LeadsOK, NEW r \in Requests, Looks(r) PROVE LeadsOK'
<1>1. PICK n \in Request :
        LET q == req[r]
        IN  /\ req' = [req EXCEPT ![r] = n] /\ Same
            /\ n.op = q.op /\ n.id = q.id
            /\ n.op \in {"create", "mark", "send_training"}
            /\ n.op # "create" => n.row = q.row
            /\ n.op = "create" =>
                 (n.key # Nothing /\ ~n.row.dup => \A i \in Live : samples[i].key = n.key => samples[i].dup)
  BY DEF Looks
<1>2. UNCHANGED <<engine, samples, raced>> /\ Live' = Live
  BY <1>1 DEF Same, tables, Live
<1>3. \A o \in Requests : req'[o] = IF o = r THEN n ELSE req[o]
  BY <1>1 DEF RequestsOK
<1>4. "create" \notin OnSample
  BY Ops
<1>5. PrimaryKeysOK' /\ OnePrimaryPerLead'
  BY <1>2 DEF LeadsOK, KeysOK, PrimaryKeysOK, OnePrimaryPerLead
<1>6. RowsKept'
  BY <1>1, <1>2, <1>3, <1>4 DEF LeadsOK, KeysOK, RowsKept
<1>7. KeysFree'
  BY <1>1, <1>2, <1>3 DEF LeadsOK, KeysOK, KeysFree
<1>. QED BY <1>5, <1>6, <1>7 DEF LeadsOK, KeysOK

-----------------------------------------------------------------------------
(* The counters of the runs.                                               *)

CountsOK == RunsOK /\ CounterExact

\* What is spoiled stays so, and nothing is said of the rest.
LEMMA SpoiledStays == ASSUME jobs' \subseteq jobs, raced \subseteq raced' PROVE Spoiled => Spoiled'
BY DEF Spoiled

\* Nothing is said of the counters where a run that is gone was raced for.
LEMMA SpoiledCounts ==
  ASSUME jobs' \subseteq Jobs,
         ~Spoiled' => /\ JobsThere' /\ \A r \in Requests : RunRead(r)'
                      /\ \A j \in jobs' : <<"run", j>> \in raced' \/ total'[j] = Cardinality(Counted(j)')
  PROVE  CountsOK'
<1>1. CASE Spoiled'
  <2>1. CounterExact'
    BY <1>1 DEF CounterExact, Spoiled
  <2>. QED BY <1>1, <2>1 DEF CountsOK, RunsOK
<1>2. CASE ~Spoiled'
  <2>1. CounterExact'
    <3>. SUFFICES ASSUME NEW j \in jobs', total'[j] # Cardinality(Counted(j)')
                  PROVE  \E k \in {j} \cup (Jobs \ jobs') : <<"run", k>> \in raced'
      BY DEF CounterExact
    <3>. QED BY <1>2
  <2>. QED BY <1>2, <2>1 DEF CountsOK, RunsOK
<1>. QED BY <1>1, <1>2

\* What holds where nothing is spoiled.
LEMMA CountsNow ==
  ASSUME CountsOK, ~Spoiled
  PROVE  /\ JobsThere /\ \A r \in Requests : RunRead(r)
         /\ \A j \in jobs : <<"run", j>> \in raced \/ total[j] = Cardinality(Counted(j))
BY DEF CountsOK, RunsOK, CounterExact, Spoiled

\* The duplicates counted are finitely many.
LEMMA CountedFinite == ASSUME NEW j PROVE IsFiniteSet(Counted(j)) /\ Cardinality(Counted(j)) \in Nat
<1>1. IsFiniteSet(Ids)
  BY InputsAssumption, FS_Interval DEF Ids
<1>2. Counted(j) \subseteq Ids
  BY DEF Counted, Live
<1>. QED BY <1>1, <1>2, FS_Subset, FS_CardinalityType

\* Another request for a run that r touches has raced, unless both create on SQLite.
LEMMA RunRaced ==
  ASSUME RequestsOK, NEW r \in Requests, NEW o \in Requests, r # o, NEW j,
         <<"run", j>> \in Touches(req[r]), <<"run", j>> \in Touches(req[o]),
         req[r].op # "none", req[o].op # "none",
         engine = "postgresql" \/ req[r].op # "create" \/ req[o].op # "create"
  PROVE  <<"run", j>> \in raced
BY Raced

\* A step that leaves runs, and what counts of the samples, as they are.
LEMMA CountsSame ==
  ASSUME TypeOK, RequestsOK, CountsOK, Live' = Live, UNCHANGED <<jobs, total>>, raced \subseteq raced',
         \A i \in Live : /\ samples'[i].dup = samples[i].dup /\ samples'[i].claimed = samples[i].claimed
                         /\ samples'[i].job = samples[i].job,
         \A o \in Requests : req'[o] \in {req[o], NoRequest}
  PROVE  CountsOK'
<1>1. NoRequest.op = "none"
  BY EmptyRequest
<1>2. jobs' \subseteq Jobs
  BY DEF TypeOK
<1>. SUFFICES ASSUME ~Spoiled'
              PROVE  /\ JobsThere' /\ \A r \in Requests : RunRead(r)'
                     /\ \A j \in jobs' : <<"run", j>> \in raced' \/ total'[j] = Cardinality(Counted(j)')
  BY <1>2, SpoiledCounts
<1>3. /\ JobsThere /\ \A r \in Requests : RunRead(r)
      /\ \A j \in jobs : <<"run", j>> \in raced \/ total[j] = Cardinality(Counted(j))
  BY SpoiledStays, CountsNow
<1>4. JobsThere'
  BY <1>3 DEF JobsThere
<1>5. \A j : Counted(j)' = Counted(j)
  BY DEF Counted
<1>6. ASSUME NEW o \in Requests PROVE RunRead(o)'
  <2>1. CASE req'[o] = NoRequest
    BY <1>1, <2>1 DEF RunRead
  <2>2. CASE req'[o] = req[o]
    <3>1. RunRead(o)
      BY <1>3
    <3>2. req[o].op = "mark" => req[o].id \in Live'
      BY <3>1, OnSampleRead, Ops DEF RunRead, Live
    <3>3. samples'[req[o].id] # Nothing <=> req[o].id \in Live' \/ samples'[req[o].id] # Nothing
      BY DEF Live
    <3>4. req[o].op = "mark" => samples'[req[o].id] # Nothing
      BY <3>2 DEF Live
    <3>5. req[o].op = "mark" =>
             /\ samples'[req[o].id].job = samples[req[o].id].job
             /\ samples'[req[o].id].dup = samples[req[o].id].dup
      BY <3>2
    <3>6. {i \in Live : samples[i].job = req[o].job} = {i \in Live' : samples'[i].job = req[o].job}
      OBVIOUS
    <3>. QED BY <2>2, <3>1, <3>4, <3>5, <3>6 DEF RunRead
  <2>. QED BY <2>1, <2>2
<1>. QED BY <1>3, <1>4, <1>5, <1>6

\* A review action counts nothing.
LEMMA CountsAct ==
  ASSUME TypeOK, RequestsOK, CountsOK, NEW r \in Requests, Acted(r) PROVE CountsOK'
<1>1. Live' = Live /\ \A i \in Live :
         /\ samples'[i].dup = samples[i].dup /\ samples'[i].claimed = samples[i].claimed
         /\ samples'[i].job = samples[i].job
  BY ActDoes DEF Live
<1>2. UNCHANGED <<jobs, total, raced>> /\ Ends(r)
  BY DEF Acted, Ends
<1>3. \A o \in Requests : req'[o] \in {req[o], NoRequest}
  BY <1>2, RequestsEnd
<1>. QED BY <1>1, <1>2, <1>3, CountsSame

\* Nor does what leaves the samples alone.
LEMMA CountsEnd ==
  ASSUME TypeOK, RequestsOK, CountsOK, NEW r \in Requests, Ends(r), UNCHANGED <<jobs, samples, total>>
  PROVE  CountsOK'
<1>1. Live' = Live /\ UNCHANGED raced
  BY DEF Live, Ends
<1>2. \A o \in Requests : req'[o] \in {req[o], NoRequest}
  BY RequestsEnd
<1>. QED BY <1>1, <1>2, CountsSame

\* A mark counts the duplicate it makes.
LEMMA CountsMark ==
  ASSUME TypeOK, RequestsOK, PrimaryKeysOK, CountsOK, NEW r \in Requests, Marked(r) PROVE CountsOK'
<1>. DEFINE q == req[r]
            j == req[r].row.job
<1>1. /\ q.op = "mark" /\ q.step = "looked" /\ q.id \in Live /\ q.row \in Sample /\ j \in Jobs /\ Live' = Live
      /\ \A k \in Ids : k # q.id => samples'[k] = samples[k]
      /\ samples'[q.id].job = samples[q.id].job /\ samples'[q.id].claimed = samples[q.id].claimed
      /\ samples'[q.id].dup = Written(q.row.dup, TRUE, samples[q.id].dup)
  BY MarkDoes
<1>2. /\ UNCHANGED <<jobs, raced>> /\ Ends(r)
      /\ total' = IF q.total = Unread THEN total ELSE [total EXCEPT ![j] = q.total + 1]
  BY DEF Marked, Ends
<1>3. \A o \in Requests : req'[o] = IF o = r THEN NoRequest ELSE req[o]
  BY <1>2, RequestsEnd
<1>4. NoRequest.op = "none" /\ Live \subseteq Ids /\ jobs' \subseteq Jobs
  BY <1>2, EmptyRequest DEF Live, TypeOK
<1>. SUFFICES ASSUME ~Spoiled'
              PROVE  /\ JobsThere' /\ \A o \in Requests : RunRead(o)'
                     /\ \A k \in jobs' : <<"run", k>> \in raced' \/ total'[k] = Cardinality(Counted(k)')
  BY <1>4, SpoiledCounts
<1>5. /\ JobsThere /\ \A o \in Requests : RunRead(o)
      /\ \A k \in jobs : <<"run", k>> \in raced \/ total[k] = Cardinality(Counted(k))
  BY <1>2, SpoiledStays, CountsNow
<1>6. /\ samples[q.id].job = j /\ (q.total = Unread <=> q.row.dup)
      /\ <<"run", j>> \notin raced => samples[q.id].dup = q.row.dup /\ (q.total # Unread => q.total = total[j])
  BY <1>1, <1>5 DEF RunRead
<1>7. \A o \in Requests : o # r /\ req[o].op # "none" /\ <<"run", j>> \in Touches(req[o]) => <<"run", j>> \in raced
  BY <1>1, RunRaced, Touched
<1>8. \A k \in Jobs : k # j => total'[k] = total[k]
  BY <1>2 DEF TypeOK
<1>9. samples[q.id].dup \in BOOLEAN /\ q.row.dup \in BOOLEAN /\ samples[q.id].claimed \in BOOLEAN
  BY <1>1, LiveRow, RowFields
<1>10. JobsThere'
  BY <1>1, <1>2, <1>4, <1>5 DEF JobsThere
<1>11. ASSUME NEW o \in Requests PROVE RunRead(o)'
  <2>1. CASE o = r
    BY <1>3, <1>4, <2>1 DEF RunRead
  <2>2. CASE o # r
    <3>. DEFINE p == req[o]
    <3>1. req'[o] = p /\ RunRead(o)
      BY <1>3, <1>5, <2>2
    <3>2. CASE p.op = "create"
      <4>1. p.job = j => <<"run", j>> \in raced
        BY <1>7, <2>2, <3>2, Touched
      <4>2. p.job \in Jobs
        BY <3>2 DEF RequestsOK, RequestOK
      <4>. QED BY <1>2, <1>8, <3>1, <3>2, <4>1, <4>2 DEF RunRead
    <3>3. CASE p.op = "mark"
      <4>1. p.row.job = j => <<"run", j>> \in raced
        BY <1>7, <2>2, <3>3, Touched
      <4>2. p.id \in Ids /\ p.row \in Sample
        BY <3>3, OnSampleRead, Ops
      <4>3. p.row.job \in Jobs
        BY <4>2, RowFields
      <4>4. p.id \in Live' /\ samples[p.id].job = p.row.job
        BY <1>1, <3>1, <3>3, <4>2 DEF RunRead, Live
      <4>5. samples'[p.id] # Nothing /\ samples'[p.id].job = p.row.job
        BY <1>1, <4>2, <4>4 DEF Live
      <4>6. <<"run", p.row.job>> \notin raced => samples'[p.id] = samples[p.id] /\ total'[p.row.job] = total[p.row.job]
        BY <1>1, <1>6, <1>8, <4>1, <4>2, <4>3, <4>4
      <4>. QED BY <1>2, <3>1, <3>3, <4>5, <4>6 DEF RunRead
    <3>4. CASE p.op = "delete_job"
      <4>1. {i \in Live : samples[i].job = p.job} = {i \in Live' : samples'[i].job = p.job}
        BY <1>1, <1>4
      <4>. QED BY <1>2, <3>1, <3>4, <4>1 DEF RunRead
    <3>5. CASE p.op \notin {"create", "mark", "delete_job"}
      BY <3>1, <3>5 DEF RunRead
    <3>. QED BY <3>2, <3>3, <3>4, <3>5
  <2>. QED BY <2>1, <2>2
<1>12. ASSUME NEW k \in jobs', <<"run", k>> \notin raced' PROVE total'[k] = Cardinality(Counted(k)')
  <2>0. k \in jobs /\ k \in Jobs /\ total[k] = Cardinality(Counted(k)) /\ total[k] \in Nat
    BY <1>2, <1>4, <1>5, <1>12 DEF TypeOK
  <2>1. CASE k # j
    <3>1. Counted(k)' = Counted(k)
      BY <1>1, <1>4, <1>6, <2>1 DEF Counted
    <3>. QED BY <1>8, <2>0, <2>1, <3>1
  <2>2. CASE k = j /\ q.row.dup
    <3>1. samples'[q.id].dup = samples[q.id].dup /\ total' = total
      BY <1>1, <1>2, <1>6, <1>9, <2>2 DEF Written
    <3>2. Counted(k)' = Counted(k)
      BY <1>1, <1>4, <3>1 DEF Counted
    <3>. QED BY <2>0, <3>1, <3>2
  <2>3. CASE k = j /\ ~q.row.dup
    <3>1. samples'[q.id].dup = TRUE /\ ~samples[q.id].dup /\ total'[k] = total[k] + 1
      BY <1>1, <1>2, <1>6, <1>9, <1>12, <2>0, <2>3 DEF Written, TypeOK
    <3>2. ~samples[q.id].claimed
      BY <1>1, <3>1 DEF PrimaryKeysOK
    <3>3. Counted(k)' = Counted(k) \cup {q.id} /\ q.id \notin Counted(k)
      BY <1>1, <1>4, <1>6, <2>3, <3>1, <3>2 DEF Counted
    <3>4. Cardinality(Counted(k) \cup {q.id}) = Cardinality(Counted(k)) + 1
      BY <3>3, CountedFinite, FS_AddElement
    <3>. QED BY <2>0, <3>1, <3>3, <3>4
  <2>. QED BY <1>9, <2>1, <2>2, <2>3
<1>. QED BY <1>10, <1>11, <1>12

\* A creation counts a duplicate that did not come as one.
LEMMA CountsInsert ==
  ASSUME TypeOK, RequestsOK, CountsOK, NEW r \in Requests, NEW q, Ready(r, q), Insert(r, q) PROVE CountsOK'
<1>. DEFINE j == q.job
<1>1. PICK id \in Ids :
        /\ id \notin Live /\ Live' = Live \cup {id}
        /\ \A k \in Ids : k # id => samples'[k] = samples[k]
        /\ samples'[id].dup = q.row.dup /\ samples'[id].claimed = q.row.claimed /\ samples'[id].job = j
        /\ samples' \in [Ids -> Sample \cup {Nothing}]
        /\ total' = IF q.total = Unread THEN total ELSE [total EXCEPT ![j] = q.total + 1]
        /\ Ends(r) /\ UNCHANGED jobs
  BY InsertDoes
<1>2. UNCHANGED <<engine, raced>> /\ Live \subseteq Ids /\ jobs' \subseteq Jobs /\ NoRequest.op = "none"
  BY <1>1, EmptyRequest DEF Ends, Live, TypeOK
<1>3. \A o \in Requests : req'[o] = IF o = r THEN NoRequest ELSE req[o]
  BY <1>1, RequestsEnd
<1>4. j \in Jobs /\ q.row.dup \in BOOLEAN /\ q.row.claimed \in BOOLEAN /\ req[r].op = "create" /\ req[r].job = j
  BY RowFields DEF Ready
<1>. SUFFICES ASSUME ~Spoiled'
              PROVE  /\ JobsThere' /\ \A o \in Requests : RunRead(o)'
                     /\ \A k \in jobs' : <<"run", k>> \in raced' \/ total'[k] = Cardinality(Counted(k)')
  BY <1>2, SpoiledCounts
<1>5. ~Spoiled /\ JobsThere /\ (\A o \in Requests : RunRead(o))
      /\ \A k \in jobs : <<"run", k>> \in raced \/ total[k] = Cardinality(Counted(k))
  BY <1>1, <1>2, SpoiledStays, CountsNow
<1>6. /\ j \in jobs /\ (q.total = Unread <=> ~(q.row.dup /\ ~q.row.claimed))
      /\ q.total # Unread /\ <<"run", j>> \notin raced => q.total = total[j]
  BY <1>5 DEF Ready
<1>7. \A o \in Requests : /\ o # r /\ req[o].op # "none" /\ <<"run", j>> \in Touches(req[o])
                          /\ req[o].op # "create" \/ engine = "postgresql"
                          => <<"run", j>> \in raced
  <2>1. <<"run", j>> \in Touches(req[r]) /\ req[r].op # "none"
    BY <1>4, Touched
  <2>. QED BY <2>1, RunRaced
<1>8. \A k \in Jobs : k # j => total'[k] = total[k]
  BY <1>1 DEF TypeOK
<1>9. JobsThere'
  BY <1>1, <1>2, <1>5, <1>6 DEF JobsThere
<1>10. ASSUME NEW o \in Requests PROVE RunRead(o)'
  <2>1. CASE o = r
    BY <1>2, <1>3, <2>1 DEF RunRead
  <2>2. CASE o # r
    <3>. DEFINE p == req[o]
    <3>1. req'[o] = p /\ RunRead(o)
      BY <1>3, <1>5, <2>2
    <3>2. CASE p.op = "create"
      <4>1. p.job \in Jobs /\ (p.step = "looked" => engine = "postgresql") /\ p.step \in {"begun", "looked"}
        BY <3>2 DEF RequestsOK, RequestOK, Request
      <4>2. p.total # Unread => p.step = "looked"
        BY <3>1, <3>2, <4>1 DEF RunRead
      <4>3. p.job = j /\ p.total # Unread => <<"run", j>> \in raced
        BY <1>7, <2>2, <3>2, <4>1, <4>2, Touched
      <4>. QED BY <1>1, <1>2, <1>8, <3>1, <3>2, <4>1, <4>3 DEF RunRead
    <3>3. CASE p.op = "mark"
      <4>1. p.row.job = j => <<"run", j>> \in raced
        BY <1>7, <2>2, <3>3, Touched
      <4>2. p.id \in Ids /\ p.row \in Sample
        BY <3>3, OnSampleRead, Ops
      <4>3. p.row.job \in Jobs
        BY <4>2, RowFields
      <4>4. p.id \in Live
        BY <3>1, <3>3, <4>2 DEF RunRead, Live
      <4>5. samples'[p.id] = samples[p.id]
        BY <1>1, <4>2, <4>4
      <4>6. <<"run", p.row.job>> \notin raced => total'[p.row.job] = total[p.row.job]
        BY <1>8, <4>1, <4>3
      <4>. QED BY <1>2, <3>1, <3>3, <4>5, <4>6 DEF RunRead
    <3>4. CASE p.op = "delete_job"
      <4>1. p.job = j => <<"run", j>> \in raced
        BY <1>7, <2>2, <3>4, Touched
      <4>2. p.job # j => {i \in Live : samples[i].job = p.job} = {i \in Live' : samples'[i].job = p.job}
        BY <1>1, <1>2
      <4>. QED BY <1>1, <1>2, <3>1, <3>4, <4>1, <4>2 DEF RunRead
    <3>5. CASE p.op \notin {"create", "mark", "delete_job"}
      BY <3>1, <3>5 DEF RunRead
    <3>. QED BY <3>2, <3>3, <3>4, <3>5
  <2>. QED BY <2>1, <2>2
<1>11. ASSUME NEW k \in jobs', <<"run", k>> \notin raced' PROVE total'[k] = Cardinality(Counted(k)')
  <2>0. k \in jobs /\ k \in Jobs /\ total[k] = Cardinality(Counted(k)) /\ total[k] \in Nat
    BY <1>1, <1>2, <1>5, <1>11 DEF TypeOK
  <2>1. CASE k # j
    <3>1. Counted(k)' = Counted(k)
      BY <1>1, <1>2, <2>1 DEF Counted
    <3>. QED BY <1>8, <2>0, <2>1, <3>1
  <2>2. CASE k = j /\ ~(q.row.dup /\ ~q.row.claimed)
    <3>1. Counted(k)' = Counted(k)
      BY <1>1, <1>2, <2>2 DEF Counted
    <3>. QED BY <1>1, <1>6, <2>0, <2>2, <3>1
  <2>3. CASE k = j /\ q.row.dup /\ ~q.row.claimed
    <3>1. total'[k] = total[k] + 1
      BY <1>1, <1>2, <1>4, <1>6, <1>11, <2>0, <2>3 DEF TypeOK
    <3>3. Counted(k)' = Counted(k) \cup {id} /\ id \notin Counted(k)
      BY <1>1, <1>2, <2>3 DEF Counted
    <3>4. Cardinality(Counted(k) \cup {id}) = Cardinality(Counted(k)) + 1
      BY <3>3, CountedFinite, FS_AddElement
    <3>. QED BY <2>0, <3>1, <3>3, <3>4
  <2>. QED BY <1>4, <2>1, <2>2, <2>3
<1>. QED BY <1>9, <1>10, <1>11

\* A deletion that nobody raced takes all samples of its job and no other.
LEMMA CountsDelete ==
  ASSUME TypeOK, RequestsOK, CountsOK, NEW r \in Requests, JobDeleted(r) PROVE CountsOK'
<1>. DEFINE q == req[r]
            j == req[r].job
<1>1. /\ q.op = "delete_job" /\ j \in Jobs /\ jobs' = jobs \ {j}
      /\ samples' \in [Ids -> Sample \cup {Nothing}]
      /\ Live' = Live \ q.seen /\ \A k \in Live' : samples'[k] = samples[k]
  BY DeleteDoes
<1>2. UNCHANGED <<total, raced>> /\ Ends(r) /\ jobs \subseteq Jobs /\ NoRequest.op = "none"
  BY EmptyRequest DEF JobDeleted, Ends, TypeOK
<1>3. \A o \in Requests : req'[o] = IF o = r THEN NoRequest ELSE req[o]
  BY <1>2, RequestsEnd
<1>. SUFFICES ASSUME ~Spoiled'
              PROVE  /\ JobsThere' /\ \A o \in Requests : RunRead(o)'
                     /\ \A k \in jobs' : <<"run", k>> \in raced' \/ total'[k] = Cardinality(Counted(k)')
  BY <1>1, <1>2, SpoiledCounts
<1>4. <<"run", j>> \notin raced
  BY <1>1, <1>2 DEF Spoiled
<1>5. /\ JobsThere /\ \A o \in Requests : RunRead(o)
      /\ \A k \in jobs : <<"run", k>> \in raced \/ total[k] = Cardinality(Counted(k))
  BY <1>1, <1>2, SpoiledStays, CountsNow
<1>6. q.seen = {i \in Live : samples[i].job = j}
  BY <1>1, <1>4, <1>5 DEF RunRead
<1>7. \A o \in Requests : o # r /\ req[o].op # "none" => <<"run", j>> \notin Touches(req[o])
  <2>1. <<"run", j>> \in Touches(req[r])
    BY <1>1, Touched
  <2>. QED BY <1>1, <1>4, <2>1, RunRaced
<1>8. \A i \in Live' : samples[i].job # j
  BY <1>1, <1>6
<1>9. JobsThere'
  BY <1>1, <1>5, <1>8 DEF JobsThere
<1>10. ASSUME NEW o \in Requests PROVE RunRead(o)'
  <2>1. CASE o = r
    BY <1>2, <1>3, <2>1 DEF RunRead
  <2>2. CASE o # r
    <3>. DEFINE p == req[o]
    <3>1. req'[o] = p /\ RunRead(o)
      BY <1>3, <1>5, <2>2
    <3>2. CASE p.op = "create"
      <4>1. p.job # j
        BY <1>7, <2>2, <3>2, Touched
      <4>. QED BY <1>1, <1>2, <3>1, <3>2, <4>1 DEF RunRead
    <3>3. CASE p.op = "mark"
      <4>1. p.row.job # j
        BY <1>7, <2>2, <3>3, Touched
      <4>2. p.id \in Ids
        BY <3>3, OnSampleRead, Ops
      <4>3. p.id \in Live /\ samples[p.id].job = p.row.job
        BY <3>1, <3>3, <4>2 DEF RunRead, Live
      <4>4. p.id \in Live'
        BY <1>1, <1>6, <4>1, <4>3
      <4>5. samples'[p.id] = samples[p.id]
        BY <1>1, <4>4
      <4>. QED BY <1>2, <3>1, <3>3, <4>5 DEF RunRead
    <3>4. CASE p.op = "delete_job"
      <4>1. p.job # j
        BY <1>7, <2>2, <3>4, Touched
      <4>2. {i \in Live : samples[i].job = p.job} = {i \in Live' : samples'[i].job = p.job}
        BY <1>1, <1>6, <4>1
      <4>. QED BY <1>1, <1>2, <3>1, <3>4, <4>1, <4>2 DEF RunRead
    <3>5. CASE p.op \notin {"create", "mark", "delete_job"}
      BY <3>1, <3>5 DEF RunRead
    <3>. QED BY <3>2, <3>3, <3>4, <3>5
  <2>. QED BY <2>1, <2>2
<1>11. ASSUME NEW k \in jobs' PROVE Counted(k)' = Counted(k)
  BY <1>1, <1>6 DEF Counted
<1>. QED BY <1>1, <1>2, <1>5, <1>9, <1>10, <1>11

\* A request that begins finds its job there.
LEMMA CountsOpen ==
  ASSUME TypeOK, RequestsOK, CountsOK, NEW r \in Requests, NEW q, Open(r, q), Fresh(q) PROVE CountsOK'
<1>1. /\ \A o \in Requests : req'[o] = IF o = r THEN q ELSE req[o]
      /\ raced \subseteq raced' /\ UNCHANGED <<engine, tables>>
  BY RequestsOpen
<1>2. UNCHANGED <<jobs, samples, total>> /\ Live' = Live /\ jobs' \subseteq Jobs
  BY <1>1 DEF tables, Live, TypeOK
<1>. SUFFICES ASSUME ~Spoiled'
              PROVE  /\ JobsThere' /\ \A o \in Requests : RunRead(o)'
                     /\ \A k \in jobs' : <<"run", k>> \in raced' \/ total'[k] = Cardinality(Counted(k)')
  BY <1>2, SpoiledCounts
<1>3. /\ JobsThere /\ \A o \in Requests : RunRead(o)
      /\ \A k \in jobs : <<"run", k>> \in raced \/ total[k] = Cardinality(Counted(k))
  BY <1>1, <1>2, SpoiledStays, CountsNow
<1>4. \A k : Counted(k)' = Counted(k)
  BY <1>2 DEF Counted
<1>5. JobsThere'
  BY <1>2, <1>3 DEF JobsThere
<1>6. ASSUME NEW o \in Requests PROVE RunRead(o)'
  <2>1. CASE o = r
    <3>1. /\ q.op # "none" /\ q.total = Unread
          /\ q.op = "create" => q.step = "begun" /\ q.job \in jobs
          /\ q.op = "mark" => q.id \in Live /\ q.row = samples[q.id] /\ (q.step = "looked" <=> q.row.dup)
          /\ q.op = "delete_job" => q.job \in jobs /\ q.seen = {i \in Live : samples[i].job = q.job}
      BY Ops DEF Fresh
    <3>. QED BY <1>1, <1>2, <2>1, <3>1 DEF RunRead, Live
  <2>2. CASE o # r
    <3>1. RunRead(o) /\ req'[o] = req[o]
      BY <1>1, <1>3, <2>2
    <3>. QED BY <1>1, <1>2, <3>1 DEF RunRead
  <2>. QED BY <2>1, <2>2
<1>. QED BY <1>1, <1>2, <1>3, <1>4, <1>5, <1>6

\* A request that has looked has read the total of its run if it is to count.
LEMMA CountsLook ==
  ASSUME TypeOK, RequestsOK, CountsOK, NEW r \in Requests, Looks(r) PROVE CountsOK'
<1>1. PICK n \in Request :
        LET q == req[r]
        IN  /\ req' = [req EXCEPT ![r] = n] /\ Same
            /\ q.step = "begun" /\ n.step = "looked" /\ RequestOK(n)
            /\ n.op = q.op /\ n.id = q.id
            /\ n.op \in {"create", "mark", "send_training"}
            /\ n.op # "create" => n.row = q.row
            /\ n.op = "create" =>
                 /\ n.job \in jobs
                 /\ n.total = IF n.row.dup /\ ~n.row.claimed THEN total[n.job] ELSE Unread
            /\ n.op = "mark" => n.total = IF n.row.job \in jobs THEN total[n.row.job] ELSE Unread
  BY DEF Looks
<1>2. UNCHANGED <<jobs, samples, total, raced>> /\ Live' = Live /\ jobs \subseteq Jobs
  BY <1>1 DEF Same, tables, Live, TypeOK
<1>3. \A o \in Requests : req'[o] = IF o = r THEN n ELSE req[o]
  BY <1>1 DEF RequestsOK
<1>. SUFFICES ASSUME ~Spoiled'
              PROVE  /\ JobsThere' /\ \A o \in Requests : RunRead(o)'
                     /\ \A k \in jobs' : <<"run", k>> \in raced' \/ total'[k] = Cardinality(Counted(k)')
  BY <1>2, SpoiledCounts
<1>4. /\ JobsThere /\ \A o \in Requests : RunRead(o)
      /\ \A k \in jobs : <<"run", k>> \in raced \/ total[k] = Cardinality(Counted(k))
  BY <1>2, SpoiledStays, CountsNow
<1>5. \A k : Counted(k)' = Counted(k)
  BY <1>2 DEF Counted
<1>6. JobsThere'
  BY <1>2, <1>4 DEF JobsThere
<1>7. \A k \in jobs : total[k] # Unread
  BY <1>2 DEF TypeOK, Unread
<1>8. ASSUME NEW o \in Requests PROVE RunRead(o)'
  <2>1. CASE o = r
    <3>1. RunRead(r)
      BY <1>4
    <3>2. CASE n.op = "create"
      BY <1>1, <1>2, <1>3, <1>7, <2>1, <3>2 DEF RunRead
    <3>3. CASE n.op = "mark"
      <4>1. n.id \in Ids /\ n.row \in Sample
        BY <1>1, <3>3, Ops DEF RequestOK
      <4>2. samples[n.id] # Nothing /\ samples[n.id].job = n.row.job /\ ~n.row.dup
        BY <1>1, <3>1, <3>3 DEF RunRead
      <4>3. n.row.job \in jobs
        BY <1>4, <4>1, <4>2 DEF JobsThere, Live
      <4>4. <<"run", n.row.job>> \notin raced => samples[n.id].dup = n.row.dup
        BY <1>1, <3>1, <3>3 DEF RunRead
      <4>5. n.total = total[n.row.job] /\ n.total # Unread
        BY <1>1, <1>7, <3>3, <4>3
      <4>. QED BY <1>1, <1>2, <1>3, <2>1, <3>3, <4>2, <4>4, <4>5 DEF RunRead
    <3>4. CASE n.op = "send_training"
      BY <1>3, <2>1, <3>4 DEF RunRead
    <3>. QED BY <1>1, <3>2, <3>3, <3>4
  <2>2. CASE o # r
    <3>1. RunRead(o) /\ req'[o] = req[o]
      BY <1>3, <1>4, <2>2
    <3>. QED BY <1>2, <3>1 DEF RunRead
  <2>. QED BY <2>1, <2>2
<1>. QED BY <1>2, <1>4, <1>5, <1>6, <1>8

-----------------------------------------------------------------------------
(* The entries that come second.                                           *)

\* What logs works on a sample.
LEMMA LogsOnSample == Logs \subseteq OnSample /\ "none" \notin Logs /\ "create_item" \notin Logs /\ "delete_job" \notin Logs
BY Ops DEF Logs

\* Requests that go on with what they work on, and were overtaken, still are.
LEMMA OvertakenSame ==
  ASSUME OvertakenOK, overtaken' \subseteq overtaken, raced \subseteq raced',
         \A o \in overtaken' : req'[o].op = req[o].op /\ req'[o].id = req[o].id
  PROVE  OvertakenOK'
BY DEF OvertakenOK, OvertakenRaced

\* A request that begins is not overtaken.
LEMMA OvertakenOpen ==
  ASSUME RequestsOK, OvertakenOK, NEW r \in Requests, NEW q, Open(r, q), Fresh(q) PROVE OvertakenOK'
<1>1. UNCHANGED overtaken /\ raced \subseteq raced' /\ req[r] = NoRequest /\ req' = [req EXCEPT ![r] = q]
  BY DEF Open
<1>2. r \notin overtaken
  BY <1>1, EmptyRequest, LogsOnSample DEF OvertakenOK, OvertakenRaced
<1>3. \A o \in overtaken : req'[o] = req[o]
  BY <1>1, <1>2 DEF OvertakenOK, RequestsOK
<1>. QED BY <1>1, <1>3, OvertakenSame

\* One that looks keeps its operation and its sample.
LEMMA OvertakenLooks ==
  ASSUME RequestsOK, OvertakenOK, NEW r \in Requests, Looks(r) PROVE OvertakenOK'
<1>1. PICK n \in Request : req' = [req EXCEPT ![r] = n] /\ Same /\ n.op = req[r].op /\ n.id = req[r].id
  BY DEF Looks
<1>2. \A o \in Requests : req'[o] = IF o = r THEN n ELSE req[o]
  BY <1>1 DEF RequestsOK
<1>3. UNCHANGED <<overtaken, raced>>
  BY <1>1 DEF Same
<1>. QED BY <1>1, <1>2, <1>3, OvertakenSame DEF OvertakenOK

\* One that ends is not overtaken any more.
LEMMA OvertakenEnds ==
  ASSUME RequestsOK, OvertakenOK, NEW r \in Requests, Ends(r), overtaken' \subseteq overtaken \ {r} PROVE OvertakenOK'
<1>1. \A o \in overtaken' : req'[o] = req[o]
  BY RequestsEnd DEF OvertakenOK
<1>2. raced' = raced
  BY DEF Ends
<1>. QED BY <1>1, <1>2, OvertakenSame

\* One that logs overtakes others on its sample.
LEMMA OvertakenLogs ==
  ASSUME RequestsOK, OvertakenOK, NEW r \in Requests, Ends(r), NEW id,
         \A o \in Logging(id) \ {r} : <<"sample", id>> \in raced,
         overtaken' \subseteq overtaken \cup (Logging(id) \ {r}), r \notin overtaken'
  PROVE  OvertakenOK'
<1>1. \A o \in Requests : o # r => req'[o] = req[o]
  BY RequestsEnd
<1>2. raced' = raced /\ Logging(id) \subseteq Requests
  BY DEF Ends, Logging
<1>3. overtaken' \subseteq Requests
  BY <1>2 DEF OvertakenOK
<1>4. ASSUME NEW o \in overtaken' PROVE req'[o].op \in Logs /\ <<"sample", req'[o].id>> \in raced'
  <2>1. req'[o] = req[o]
    BY <1>1, <1>3
  <2>2. CASE o \in overtaken
    BY <1>2, <2>1, <2>2 DEF OvertakenOK, OvertakenRaced
  <2>3. CASE o \in Logging(id) \ {r}
    BY <1>2, <2>1, <2>3 DEF Logging
  <2>. QED BY <2>2, <2>3
<1>. QED BY <1>3, <1>4 DEF OvertakenOK, OvertakenRaced

\* The others that have an entry about the sample of a request that commits worked on
\* it with that request.
LEMMA OvertakenCommit ==
  ASSUME TypeOK, RequestsOK, OvertakenOK, NEW r \in Requests, Marked(r) \/ Acted(r) \/ Sent(r) PROVE OvertakenOK'
<1>. DEFINE q == req[r]
<1>1. PICK action \in {"create", "mark_duplicate", "send_training"} \cup DOMAIN Actions :
        \E status \in Statuses : Log(r, q.id, action, status)
  <2>1. CASE Marked(r)
    <3>1. Log(r, q.id, "mark_duplicate", q.row.status) /\ q.row \in Sample
      BY <2>1, MarkDoes DEF Marked
    <3>. QED BY <3>1, RowFields
  <2>2. CASE Acted(r)
    BY <2>2, Ops DEF Acted
  <2>3. CASE Sent(r)
    <3>1. Log(r, q.id, "send_training", "approved")
      BY <2>3 DEF Sent
    <3>. QED BY <3>1 DEF Statuses
  <2>. QED BY <2>1, <2>2, <2>3
<1>2. PICK status \in Statuses : Log(r, q.id, action, status)
  BY <1>1
<1>3. Ends(r) /\ q.op \in OnSample
  BY Ops DEF Marked, Acted, Sent
<1>4. q.id \in Ids
  BY <1>3, OnSampleRead
<1>5. overtaken' \subseteq overtaken \cup (Logging(q.id) \ {r}) /\ r \notin overtaken'
  BY <1>2, <1>4, Logged DEF TypeOK
<1>6. ASSUME NEW o \in Logging(q.id) \ {r} PROVE <<"sample", q.id>> \in raced
  <2>1. o \in Requests /\ o # r /\ req[o].op \in OnSample /\ req[o].id = q.id
    BY LogsOnSample DEF Logging
  <2>2. <<"sample", req[o].id>> \in Touches(req[r]) /\ req[r].op # "none"
    BY <1>3, <2>1, Touched, Ops
  <2>. QED BY <2>1, <2>2, OthersRaced
<1>. QED BY <1>3, <1>5, <1>6, OvertakenLogs

\* Those that have an entry about the id of a new sample worked on one that was deleted.
LEMMA OvertakenInsert ==
  ASSUME TypeOK, RequestsOK, OvertakenOK, ReadsOK, NEW r \in Requests, NEW q, Ready(r, q), Insert(r, q)
  PROVE  OvertakenOK'
<1>1. PICK id \in Ids : id \notin Live /\ Log(r, id, "create", q.row.status) /\ Ends(r)
  BY InsertDoes
<1>2. q.row.status \in Statuses
  BY RowFields DEF Ready
<1>3. overtaken' \subseteq overtaken \cup (Logging(id) \ {r}) /\ r \notin overtaken'
  BY <1>1, <1>2, Logged DEF TypeOK
<1>4. ASSUME NEW o \in Logging(id) PROVE <<"sample", id>> \in raced
  <2>1. o \in Requests /\ req[o].op \in OnSample /\ req[o].id = id
    BY LogsOnSample DEF Logging
  <2>2. req[o].row \in Sample
    BY <2>1, OnSampleRead
  <2>3. samples[id] = Nothing
    BY <1>1 DEF Live
  <2>. QED BY <2>1, <2>2, <2>3, RowFields DEF ReadsOK, ReadOK
<1>. QED BY <1>1, <1>3, <1>4, OvertakenLogs

-----------------------------------------------------------------------------
(* The theorems.                                                           *)

\* The parts of the invariant, as the lemmas have them.
LEMMA InvParts ==
  IInv <=> TablesOK /\ RequestsOK /\ NamesOK /\ ReadsOK /\ LeadsOK /\ CountsOK /\ WorkflowOK /\ OvertakenOK
BY DEF IInv, TypeOK, TablesOK, RequestsOK, ReadsOK, LeadsOK, CountsOK, WorkflowOK, OvertakenOK

\* What holds at the start.
LEMMA InitInv == Init => IInv
<1>. SUFFICES ASSUME Init PROVE IInv
  OBVIOUS
<1>1. Live = {} /\ \A r \in Requests : req[r] = NoRequest /\ req[r].op = "none"
  BY EmptyRequest DEF Init, Live
<1>2. "none" \notin OnSample /\ \A r \in Requests : req[r].op # "create" /\ req[r].op # "mark" /\ req[r].op # "delete_job"
  BY <1>1, Ops
<1>3. TypeOK
  <2>1. req \in [Requests -> Request]
    BY EmptyRequest DEF Init
  <2>2. queue \in Seq(QueueItem)
    BY DEF Init
  <2>. QED BY <1>1, <2>1, <2>2, EnginesAssumption DEF Init, TypeOK
<1>4. \A r \in Requests : RequestOK(req[r]) /\ ReadOK(r)
  BY <1>1, <1>2, Ops DEF RequestOK, ReadOK
<1>5. Races
  BY <1>1 DEF Races
<1>6. NamesOK
  <2>1. DOMAIN queue = {}
    BY DEF Init
  <2>2. Named = {}
    BY <1>1, <1>2, <2>1 DEF Named
  <2>. QED BY <2>2 DEF NamesOK
<1>7. KeysOK /\ OnePrimaryPerLead
  BY <1>1, <1>2 DEF KeysOK, PrimaryKeysOK, RowsKept, KeysFree, OnePrimaryPerLead
<1>8. RunsOK
  BY <1>1, <1>2 DEF RunsOK, RunRead, JobsThere
<1>9. CounterExact
  <2>1. \A j : Counted(j) = {}
    BY <1>1 DEF Counted
  <2>2. \A j \in jobs : total[j] = Cardinality(Counted(j))
    BY <2>1, FS_EmptySet DEF Init
  <2>. QED BY <2>2 DEF CounterExact
<1>10. AuditTellsStatus /\ QueueHoldsApproved /\ SentOnce
  BY <1>1 DEF Init, AuditTellsStatus, QueueHoldsApproved, SentOnce
<1>11. OvertakenRaced
  BY DEF Init, OvertakenRaced
<1>. QED BY <1>3, <1>4, <1>5, <1>6, <1>7, <1>8, <1>9, <1>10, <1>11 DEF IInv

\* Every step keeps it.
LEMMA StepInv == IInv /\ [Next]_vars => IInv'
<1>. SUFFICES ASSUME IInv, [Next]_vars PROVE IInv'
  OBVIOUS
<1>1. /\ TypeOK /\ TablesOK /\ RequestsOK /\ NamesOK /\ ReadsOK /\ LeadsOK /\ CountsOK /\ WorkflowOK /\ OvertakenOK
      /\ PrimaryKeysOK
  BY InvParts DEF IInv, LeadsOK, KeysOK
<1>. SUFFICES TablesOK' /\ RequestsOK' /\ NamesOK' /\ ReadsOK' /\ LeadsOK' /\ CountsOK' /\ WorkflowOK' /\ OvertakenOK'
  BY DEF IInv, TypeOK, TablesOK, RequestsOK, ReadsOK, LeadsOK, CountsOK, WorkflowOK, OvertakenOK
<1>2. ASSUME NEW r \in Requests, NEW q, Open(r, q), Fresh(q)
      PROVE  TablesOK' /\ RequestsOK' /\ NamesOK' /\ ReadsOK' /\ LeadsOK' /\ CountsOK' /\ WorkflowOK' /\ OvertakenOK'
  <2>1. RequestsOK' /\ raced \subseteq raced' /\ UNCHANGED <<engine, tables>>
    BY <1>1, <1>2, RequestsOpen
  <2>2. TablesOK' /\ WorkflowOK'
    BY <1>1, <2>1, TablesSame, WorkflowSame
  <2>3. NamesOK' /\ ReadsOK' /\ LeadsOK' /\ CountsOK'
    BY <1>1, <1>2, NamesOpen, LeadsOpen, CountsOpen
  <2>. QED BY <1>1, <1>2, <2>1, <2>2, <2>3, OvertakenOpen
<1>3. ASSUME NEW r \in Requests, Looks(r)
      PROVE  TablesOK' /\ RequestsOK' /\ NamesOK' /\ ReadsOK' /\ LeadsOK' /\ CountsOK' /\ WorkflowOK' /\ OvertakenOK'
  <2>1. UNCHANGED <<engine, tables>> /\ raced \subseteq raced'
    BY <1>3 DEF Looks, Same
  <2>2. TablesOK' /\ WorkflowOK'
    BY <1>1, <2>1, TablesSame, WorkflowSame
  <2>. QED BY <1>1, <1>3, <2>2, RequestsLook, NamesLook, LeadsLook, CountsLook, OvertakenLooks
<1>4. ASSUME NEW r \in Requests, Fails(r)
      PROVE  TablesOK' /\ RequestsOK' /\ NamesOK' /\ ReadsOK' /\ LeadsOK' /\ CountsOK' /\ WorkflowOK' /\ OvertakenOK'
  <2>1. UNCHANGED <<engine, tables>> /\ raced \subseteq raced' /\ Ends(r) /\ overtaken' \subseteq overtaken \ {r}
    BY <1>4 DEF Fails, Ends
  <2>2. TablesOK' /\ WorkflowOK'
    BY <1>1, <2>1, TablesSame, WorkflowSame
  <2>3. UNCHANGED <<jobs, samples, total>>
    BY <2>1 DEF tables
  <2>. QED BY <1>1, <1>4, <2>1, <2>2, <2>3, RequestsEnd, NamesFail, LeadsEnd, CountsEnd, OvertakenEnds
<1>5. ASSUME NEW r \in Requests, Marked(r)
      PROVE  TablesOK' /\ RequestsOK' /\ NamesOK' /\ ReadsOK' /\ LeadsOK' /\ CountsOK' /\ WorkflowOK' /\ OvertakenOK'
  BY <1>1, <1>5, TablesMark, RequestsEnd, NamesMark, LeadsMark, CountsMark, WorkflowMark, OvertakenCommit DEF Marked
<1>6. ASSUME NEW r \in Requests, Acted(r)
      PROVE  TablesOK' /\ RequestsOK' /\ NamesOK' /\ ReadsOK' /\ LeadsOK' /\ CountsOK' /\ WorkflowOK' /\ OvertakenOK'
  BY <1>1, <1>6, TablesAct, RequestsEnd, NamesAct, LeadsAct, CountsAct, WorkflowAct, OvertakenCommit DEF Acted
<1>7. ASSUME NEW r \in Requests, Sent(r)
      PROVE  TablesOK' /\ RequestsOK' /\ NamesOK' /\ ReadsOK' /\ LeadsOK' /\ CountsOK' /\ WorkflowOK' /\ OvertakenOK'
  <2>1. /\ Ends(r) /\ UNCHANGED <<samples, births>> /\ UNCHANGED <<jobs, samples, total>>
        /\ req[r].op \in {"send_training", "create_item"}
        /\ Enqueue(req[r], "send") \/ UNCHANGED queue
    BY <1>7 DEF Sent
  <2>2. NamesOK' /\ ReadsOK'
    BY <1>1, <2>1, NamesQueue
  <2>. QED BY <1>1, <1>7, <2>1, <2>2, TablesSend, RequestsEnd, LeadsEnd, CountsEnd, WorkflowSend, OvertakenCommit
<1>8. ASSUME NEW r \in Requests, ItemMade(r)
      PROVE  TablesOK' /\ RequestsOK' /\ NamesOK' /\ ReadsOK' /\ LeadsOK' /\ CountsOK' /\ WorkflowOK' /\ OvertakenOK'
  <2>1. /\ Ends(r) /\ UNCHANGED <<samples, births>> /\ UNCHANGED <<jobs, samples, total>>
        /\ req[r].op \in {"send_training", "create_item"}
        /\ Enqueue(req[r], "direct") \/ UNCHANGED queue
    BY <1>8 DEF ItemMade
  <2>3. overtaken' \subseteq overtaken \ {r}
    BY <1>1, <1>8, LogsOnSample DEF ItemMade, OvertakenOK, OvertakenRaced
  <2>2. NamesOK' /\ ReadsOK'
    BY <1>1, <2>1, NamesQueue
  <2>. QED BY <1>1, <1>8, <2>1, <2>2, <2>3, TablesItem, RequestsEnd, LeadsEnd, CountsEnd, WorkflowItem, OvertakenEnds
<1>9. ASSUME NEW r \in Requests, JobDeleted(r)
      PROVE  TablesOK' /\ RequestsOK' /\ NamesOK' /\ ReadsOK' /\ LeadsOK' /\ CountsOK' /\ WorkflowOK' /\ OvertakenOK'
  <2>1. overtaken' \subseteq overtaken \ {r} /\ Ends(r)
    BY <1>1, <1>9, LogsOnSample DEF JobDeleted, OvertakenOK, OvertakenRaced
  <2>2. TablesOK' /\ RequestsOK' /\ OvertakenOK'
    BY <1>1, <1>9, <2>1, TablesDelete, RequestsEnd, OvertakenEnds
  <2>. QED BY <1>1, <1>9, <2>2, NamesDelete, LeadsDelete, CountsDelete, WorkflowDelete
<1>10. ASSUME NEW r \in Requests, NEW q, Ready(r, q), Insert(r, q)
       PROVE  TablesOK' /\ RequestsOK' /\ NamesOK' /\ ReadsOK' /\ LeadsOK' /\ CountsOK' /\ WorkflowOK' /\ OvertakenOK'
  <2>1. Ends(r)
    BY <1>10 DEF Insert, Ends
  <2>. QED BY <1>1, <1>10, <2>1, TablesInsert, RequestsEnd, NamesInsert, LeadsInsert, CountsInsert, WorkflowInsert, OvertakenInsert
<1>11. ASSUME NEW r \in Requests, Begin(r) \/ Serve(r)
       PROVE  TablesOK' /\ RequestsOK' /\ NamesOK' /\ ReadsOK' /\ LeadsOK' /\ CountsOK' /\ WorkflowOK' /\ OvertakenOK'
  <2>1. CASE Begin(r)
    BY <1>1, <1>2, <2>1, Begins
  <2>2. CASE Serve(r)
    BY <1>3, <1>4, <1>5, <1>6, <1>7, <1>8, <1>9, <1>10, <2>2, Serves
  <2>. QED BY <1>11, <2>1, <2>2
<1>12. CASE UNCHANGED vars
  <2>1. UNCHANGED <<engine, tables, raced>> /\ UNCHANGED <<req, overtaken>> /\ Live' = Live
    BY <1>12 DEF vars, tables, Live
  <2>2. TablesOK' /\ WorkflowOK'
    BY <1>1, <2>1, TablesSame, WorkflowSame
  <2>3. RequestsOK'
    BY <1>1, <2>1 DEF RequestsOK, RequestOK, Races, Touches, Excluded
  <2>4. UNCHANGED <<jobs, samples, total, queue, births>>
    BY <2>1 DEF tables
  <2>5. NamesOK' /\ ReadsOK'
    BY <1>1, <2>1, <2>4 DEF NamesOK, Named, ReadsOK, ReadOK
  <2>6. \A o \in Requests : req'[o] \in {req[o], NoRequest}
    BY <2>1
  <2>7. LeadsOK' /\ CountsOK'
    BY <1>1, <2>1, <2>4, <2>6, LeadsSame, CountsSame
  <2>8. OvertakenOK'
    BY <1>1, <2>1, OvertakenSame
  <2>. QED BY <2>2, <2>3, <2>5, <2>7, <2>8
<1>. QED BY <1>11, <1>12 DEF Next

\* The inductive invariant of Samples holds in every reachable state.
THEOREM Invariance == Spec => []IInv
BY InitInv, StepInv, PTL DEF Spec

\* Of the samples of one lead at most one is primary, unless requests overlapped: on
\* PostgreSQL two creations with its key, on SQLite requests about one of the samples,
\* such as a mark and a deletion (apply_dedupe_v1, mark_duplicate).
THEOREM OnePrimary == Spec => []OnePrimaryPerLead
<1>1. IInv => OnePrimaryPerLead
  BY DEF IInv
<1>. QED BY <1>1, Invariance, PTL

\* total_duplicate is the number of duplicates it should count, unless requests have
\* overlapped on that run or on one since deleted (mark_duplicate).
THEOREM CounterIsExact == Spec => []CounterExact
<1>1. IInv => CounterExact
  BY DEF IInv
<1>. QED BY <1>1, Invariance, PTL

\* The newest audit entry of a sample, by event_time, tells its status, unless requests
\* overlapped on the sample (write_audit_log, build_sample_trace_payload).
THEOREM AuditIsTrue == Spec => []AuditTellsStatus
<1>1. IInv => AuditTellsStatus
  BY DEF IInv
<1>. QED BY <1>1, Invariance, PTL

\* What was sent to training is approved, and stays so, unless requests overlapped on
\* the sample (send_sample_to_training).
THEOREM QueueIsApproved == Spec => []QueueHoldsApproved
<1>1. IInv => QueueHoldsApproved
  BY DEF IInv
<1>. QED BY <1>1, Invariance, PTL

\* A sample is sent to training once, unless requests overlapped on it.
THEOREM SentIsOnce == Spec => []SentOnce
<1>1. IInv => SentOnce
  BY DEF IInv
<1>. QED BY <1>1, Invariance, PTL
=============================================================================
