------------------------------ MODULE Samples ------------------------------
(***************************************************************************)
(* Samples, the review workflow and the training queue                     *)
(* (services/sample_service.py, dedupe_service.py, rules_service.py,       *)
(* domain_service.py over the tables of models/domain.py).                 *)
(*                                                                         *)
(* Every request has a session and is served by a thread of its own.  It   *)
(* reads, decides and writes, and its writes appear at its commit: a step  *)
(* of another request may come between any two of these.  The session does *)
(* not flush before it reads.  Two engines serve the tables: the one in    *)
(* the documents, PostgreSQL, where an inserted row stays unseen until its *)
(* commit and foreign keys hold, and the default, SQLite, where the first  *)
(* write takes the lock of the whole file, foreign keys are not enforced,  *)
(* and a new row takes the id after the largest one in use.                *)
(*                                                                         *)
(* Each job has one run, and a sample belongs to a job and its run.  Rules *)
(* are left to the module Rules; priority, note and status of a queue item *)
(* decide nothing and are left out.                                        *)
(***************************************************************************)
EXTENDS DedupeKey, FiniteSetsExt, Sequences

CONSTANTS
  Requests,   \* sessions open at a time
  Engines,    \* a subset of {"sqlite", "postgresql"}
  Jobs,
  Pages,      \* what a crawler sends: [payload, claim : BOOLEAN, status : Statuses],
              \* claim and status being the is_duplicate and status it asserts
  MaxSamples, \* bound: samples created
  MaxCalls    \* bound: requests served

Statuses == {"pending", "running", "parsed", "review", "failed", "approved", "exported"}

ASSUME EnginesAssumption == Engines \subseteq {"sqlite", "postgresql"}
ASSUME InputsAssumption == (\A p \in Pages : p.claim \in BOOLEAN /\ p.status \in Statuses) /\ MaxSamples \in Nat /\ MaxCalls \in Nat

VARIABLES
  engine,
  jobs,    \* the jobs, each with its run
  samples, \* the row of each id, or Nothing
  total,   \* total_duplicate of each job's run
  queue,   \* the training queue: sample, its creation, and who made the item
  audit,   \* the newest audit entry about each sample id, by event_time
  overtaken, \* open requests whose entry is older than one committed since
  req,     \* what each open request has read
  births,  \* samples created (history)
  raced,   \* what two open requests worked on at once (history)
  calls

vars == <<engine, jobs, samples, total, queue, audit, overtaken, req, births, raced, calls>>
tables == <<jobs, samples, total, queue, audit, births>>

Ids      == 1 .. MaxSamples
Actions  == [review  |-> [from |-> {"pending", "running", "parsed", "failed"}, to |-> "review"],
             approve |-> [from |-> {"review"}, to |-> "approved"],
             reject  |-> [from |-> {"review"}, to |-> "failed"]]

Live == {i \in Ids : samples[i] # Nothing}
Unread == -1  \* no total was read

\* key, dup, of: dedupe_key, is_duplicate, duplicate_of_sample_id (0 for None).
\* birth, claimed: which creation this row is, and whether it came as a duplicate
\* and was found to be one.
NewRow(page, key, job) ==
  [payload |-> page.payload, key |-> key, dup |-> page.claim, of |-> 0, status |-> page.status,
   job |-> job, birth |-> 0, claimed |-> FALSE]

\* op, and step: "begun", or "looked" when only the commit is left.
\* id, row: the sample read, or the one to insert; of, key: what is to be written;
\* total, seen: the counter, and the queue items or samples, that were read.
NoRequest == [op |-> "none", step |-> "begun", id |-> 0, row |-> Nothing, of |-> 0,
              key |-> Nothing, job |-> Nothing, total |-> Unread, seen |-> {}]

Init ==
  /\ engine \in Engines
  /\ jobs = Jobs
  /\ samples = [i \in Ids |-> Nothing]
  /\ total = [j \in Jobs |-> 0]
  /\ queue = <<>>
  /\ audit = [i \in Ids |-> Nothing]
  /\ overtaken = {}
  /\ req = [r \in Requests |-> NoRequest]
  /\ births = 0
  /\ raced = {}
  /\ calls = 0

-----------------------------------------------------------------------------
(* Beginning: the checks that answer 404, 400 or 409 write nothing and are *)
(* not steps.                                                              *)

Touches(q) ==
  CASE q.op = "create"     -> {<<"key", q.key>>, <<"run", q.job>>}
    [] q.op = "delete_job" -> {<<"run", q.job>>} \cup {<<"sample", i>> : i \in q.seen}
    [] q.op = "mark"       -> {<<"sample", q.id>>, <<"run", q.row.job>>}
    [] OTHER               -> {<<"sample", q.id>>}

\* On SQLite one create is one locked transaction: two never work at once.
Excluded(q, o) == engine = "sqlite" /\ q.op = "create" /\ o.op = "create"

Open(r, q) ==
  LET others == {req[o] : o \in {o \in Requests : req[o].op # "none"}}
  IN  /\ req[r] = NoRequest
      /\ calls < MaxCalls
      /\ calls' = calls + 1
      /\ req' = [req EXCEPT ![r] = q]
      /\ raced' = raced \cup UNION {Touches(q) \cap Touches(o) : o \in {o \in others : ~Excluded(q, o)}}
      /\ UNCHANGED <<engine, tables, overtaken>>

KeyOf(p) == First(KeyOfNewSample(p), ExtractDedupeKeyFromSample(p))

Payloads  == {p.payload : p \in Pages}
Keys      == {Nothing} \cup {KeyOf(p) : p \in Payloads}
Sample    == [payload : Payloads, key : Keys, dup : BOOLEAN, of : Ids \cup {0}, status : Statuses,
              job : Jobs, birth : Nat, claimed : BOOLEAN]
Entry     == [action : {"create", "mark_duplicate", "send_training"} \cup DOMAIN Actions,
              status : Statuses]
QueueItem == [sample : Ids, birth : Nat, via : {"send", "direct"}]

Urls   == ({p.website : p \in Payloads} \cup {p.source_url : p \in Payloads}) \ {Nothing}
Texts  == {u.host : u \in Urls} \cup {p.email : p \in Payloads}
Words  == {t.words : t \in Texts \ {Nothing}}
Origin == [scheme : {"http", "https"}, host : [words : Words, form : {"lower"}], port : Nat]
Normal == [scheme : {"http", "https"}, host : [words : Words, form : {"lower"}], port : Nat,
           path : {u.path : u \in Urls}, slash : BOOLEAN, query : SUBSET UNION {u.query : u \in Urls}]

ASSUME PortsAssumption == \A u \in Urls : u.port \in Nat
ASSUME NothingAssumption ==
  Nothing \notin Sample \cup Entry \cup Words \cup Origin \cup Normal
                 \cup ({"email_origin"} \X Origin \X Words)

Reads(op, step, i) == [NoRequest EXCEPT !.op = op, !.step = step, !.id = i, !.row = samples[i]]

BeginCreate(r, j, page) ==
  /\ j \in jobs
  /\ Open(r, LET key == KeyOf(page.payload)
             IN  [NoRequest EXCEPT !.op = "create", !.key = key, !.job = j,
                                   !.row = NewRow(page, key, j)])

\* The key of the request is used if it has one; the run is not read for a sample
\* that is a duplicate already.
BeginMark(r, i, primary, key) ==
  /\ {i, primary} \subseteq Live /\ i # primary
  /\ Open(r, [Reads("mark", IF samples[i].dup THEN "looked" ELSE "begun", i)
                EXCEPT !.of = primary, !.key = First(key, samples[i].key)])

\* Bug: the status of the sample is not checked.
BeginActionUnchecked(r, i, action) == i \in Live /\ Open(r, Reads(action, "looked", i))

BeginAction(r, i, action) ==
  /\ i \in Live
  /\ samples[i].status \in Actions[action].from
  /\ Open(r, Reads(action, "looked", i))

BeginSend(r, i) ==
  /\ i \in Live
  /\ samples[i].status = "approved"
  /\ Open(r, Reads("send_training", "begun", i))

\* create_training_queue_item: any sample, whatever its status.
BeginItem(r, i) == i \in Live /\ Open(r, Reads("create_item", "looked", i))

\* The cascade loads the samples of the job when it is marked for deletion.
BeginDeleteJob(r, j) ==
  /\ j \in jobs
  /\ Open(r, [NoRequest EXCEPT !.op = "delete_job", !.step = "looked", !.job = j,
                               !.seen = {i \in Live : samples[i].job = j}])

-----------------------------------------------------------------------------
(* Looking, after the first read or the insertion.                         *)

Close(r)   == req' = [req EXCEPT ![r] = NoRequest]
Fail(r)    == Close(r) /\ overtaken' = overtaken \ {r} /\ UNCHANGED <<engine, tables, raced, calls>>
Look(r, q) == req' = [req EXCEPT ![r] = [q EXCEPT !.step = "looked"]]
              /\ UNCHANGED <<engine, tables, overtaken, raced, calls>>

\* The primaries with the key of which one is found, {0} if there is none.  Which
\* of several is found depends on crawl times that the clients choose.
FindPrimarySampleByDedupeKey(key) ==
  LET found == {i \in Live : samples[i].key = key /\ ~samples[i].dup}
  IN  IF key = Nothing \/ found = {} THEN {0} ELSE found

\* apply_dedupe_v1 on a new sample: mark_duplicate reads the run unless the
\* sample came as a duplicate; without a primary it is none.
ApplyDedupe(q, primary) ==
  [q EXCEPT !.row = [q.row EXCEPT !.dup = primary # 0, !.of = primary,
                                  !.claimed = q.row.dup /\ primary # 0],
            !.total = IF primary # 0 /\ ~q.row.dup /\ q.job \in jobs THEN total[q.job] ELSE Unread]

\* On PostgreSQL other requests go on between this and the commit; the insertion
\* fails when the job is gone.
LookUpPrimary(r) ==
  LET q == req[r]
  IN  /\ engine = "postgresql" /\ q.op = "create" /\ q.step = "begun"
      /\ IF q.job \in jobs
         THEN \E primary \in FindPrimarySampleByDedupeKey(q.key) : Look(r, ApplyDedupe(q, primary))
         ELSE Fail(r)

LookUpRun(r) ==
  LET q == req[r]
  IN  /\ q.op = "mark" /\ q.step = "begun"
      /\ Look(r, [q EXCEPT !.total = IF q.row.job \in jobs THEN total[q.row.job] ELSE Unread])

\* scalar_one_or_none raises when the sample has two items.
LookUpItem(r) ==
  LET q     == req[r]
      found == {n \in DOMAIN queue : queue[n].sample = q.id}
  IN  /\ q.op = "send_training" /\ q.step = "begun"
      /\ IF Cardinality(found) > 1 THEN Fail(r) ELSE Look(r, [q EXCEPT !.seen = found])

-----------------------------------------------------------------------------
(* Committing.  Only the attributes that differ from what was read are     *)
(* written, and the update of a row that is gone fails the request.        *)

Written(read, new, now) == IF read = new THEN now ELSE new

\* The operations on a sample that leave an audit entry.
Logs == {"mark", "send_training"} \cup DOMAIN Actions

\* The requests that may have built their entry about id, and not committed it.
Logging(id) == {o \in Requests : req[o].op \in Logs /\ req[o].step = "looked" /\ req[o].id = id}

\* event_time is taken when an entry is built, before anything is written, and the
\* readers order by it: a request that has built its entry waits while another,
\* with a later time, commits, and its entry comes second.  Entries that nobody
\* overtakes are newer than all that are there.  Ties of the clock are left out.
Log(r, id, action, status) ==
  IF r \in overtaken
  THEN UNCHANGED audit /\ overtaken' = overtaken \ {r}
  ELSE /\ audit' = [audit EXCEPT ![id] = [action |-> action, status |-> status]]
       /\ \E earlier \in SUBSET (Logging(id) \ {r}) : overtaken' = overtaken \cup earlier

Insert(r, q) ==
  LET id == Max(Live \cup {0}) + 1
  IN  /\ births < MaxSamples /\ id \in Ids
      /\ births' = births + 1
      /\ samples' = [samples EXCEPT ![id] = [q.row EXCEPT !.birth = births + 1]]
      /\ total' = IF q.total = Unread THEN total ELSE [total EXCEPT ![q.job] = q.total + 1]
      /\ Log(r, id, "create", q.row.status)
      /\ Close(r)
      /\ UNCHANGED <<engine, jobs, queue, raced, calls>>

CommitCreate(r) == req[r].op = "create" /\ req[r].step = "looked" /\ Insert(r, req[r])

\* On SQLite the insertion takes the lock before the key is looked up.
CreateLocked(r) ==
  /\ engine = "sqlite" /\ req[r].op = "create"
  /\ \E primary \in FindPrimarySampleByDedupeKey(req[r].key) : Insert(r, ApplyDedupe(req[r], primary))

\* Bug: every mark counts, also that of a duplicate.
CommitMarkCounting(r) ==
  LET q == req[r]
  IN  /\ q.op = "mark" /\ q.step = "looked"
      /\ IF samples[q.id] = Nothing \/ (q.total # Unread /\ q.row.job \notin jobs) THEN Fail(r)
         ELSE /\ samples' = [samples EXCEPT ![q.id] = [@ EXCEPT !.dup = TRUE, !.of = q.of, !.key = q.key]]
              /\ total' = [total EXCEPT ![q.row.job] = @ + 1]
              /\ Log(r, q.id, "mark_duplicate", q.row.status)
              /\ Close(r)
              /\ UNCHANGED <<engine, jobs, queue, births, raced, calls>>

CommitMark(r) ==
  LET q == req[r]
  IN  /\ q.op = "mark" /\ q.step = "looked"
      /\ IF samples[q.id] = Nothing \/ (q.total # Unread /\ q.row.job \notin jobs) THEN Fail(r)
         ELSE /\ samples' = [samples EXCEPT ![q.id] =
                              [@ EXCEPT !.dup = Written(q.row.dup, TRUE, samples[q.id].dup),
                                        !.of  = Written(q.row.of, q.of, samples[q.id].of),
                                        !.key = Written(q.row.key, q.key, samples[q.id].key)]]
              /\ total' = IF q.total = Unread THEN total ELSE [total EXCEPT ![q.row.job] = q.total + 1]
              /\ Log(r, q.id, "mark_duplicate", q.row.status)
              /\ Close(r)
              /\ UNCHANGED <<engine, jobs, queue, births, raced, calls>>

\* Bug: the entry tells the status that was read.
CommitActionLate(r) ==
  LET q == req[r]
  IN  /\ q.op \in DOMAIN Actions
      /\ IF samples[q.id] = Nothing THEN Fail(r)
         ELSE /\ samples' = [samples EXCEPT ![q.id].status = Actions[q.op].to]
              /\ Log(r, q.id, q.op, q.row.status)
              /\ Close(r)
              /\ UNCHANGED <<engine, jobs, total, queue, births, raced, calls>>

CommitAction(r) ==
  LET q == req[r]
  IN  /\ q.op \in DOMAIN Actions
      /\ IF samples[q.id] = Nothing THEN Fail(r)
         ELSE /\ samples' = [samples EXCEPT ![q.id].status = Actions[q.op].to]
              /\ Log(r, q.id, q.op, Actions[q.op].to)
              /\ Close(r)
              /\ UNCHANGED <<engine, jobs, total, queue, births, raced, calls>>

Enqueue(q, via) == queue' = Append(queue, [sample |-> q.id, birth |-> q.row.birth, via |-> via])

\* Bug: an item is added whether the sample has one or not.
CommitSendAlways(r) ==
  LET q == req[r]
  IN  /\ q.op = "send_training" /\ q.step = "looked"
      /\ Enqueue(q, "send")
      /\ Log(r, q.id, "send_training", "approved")
      /\ Close(r)
      /\ UNCHANGED <<engine, jobs, samples, total, births, raced, calls>>

\* The status is approved already, so that the row of the sample is not written.
CommitSend(r) ==
  LET q == req[r]
  IN  /\ q.op = "send_training" /\ q.step = "looked"
      /\ IF q.seen = {} THEN Enqueue(q, "send") ELSE UNCHANGED queue
      /\ Log(r, q.id, "send_training", "approved")
      /\ Close(r)
      /\ UNCHANGED <<engine, jobs, samples, total, births, raced, calls>>

CommitItem(r) ==
  /\ req[r].op = "create_item"
  /\ Enqueue(req[r], "direct")
  /\ Close(r)
  /\ UNCHANGED <<engine, jobs, samples, total, audit, overtaken, births, raced, calls>>

\* SQLite deletes the samples that were loaded and leaves whatever refers to them.
\* PostgreSQL waits for the creates that refer to the job and refuses to delete
\* while samples, and their audit entries, do.
CommitDeleteJob(r) ==
  LET q == req[r]
  IN  /\ q.op = "delete_job"
      /\ engine = "postgresql" =>
           \A o \in Requests : ~(req[o].op = "create" /\ req[o].job = q.job /\ req[o].step = "looked")
      /\ IF engine = "postgresql" /\ \E i \in Live : samples[i].job = q.job THEN Fail(r)
         ELSE /\ jobs' = jobs \ {q.job}
              /\ samples' = [i \in Ids |-> IF i \in q.seen THEN Nothing ELSE samples[i]]
              /\ Close(r)
              /\ UNCHANGED <<engine, total, queue, audit, overtaken, births, raced, calls>>

-----------------------------------------------------------------------------
Begin(r) ==
  \/ \E j \in Jobs, page \in Pages : BeginCreate(r, j, page)
  \/ \E i, primary \in Live : \E key \in {Nothing, samples[primary].key} : BeginMark(r, i, primary, key)
  \/ \E i \in Live : BeginSend(r, i) \/ BeginItem(r, i) \/ \E a \in DOMAIN Actions : BeginAction(r, i, a)
  \/ \E j \in Jobs : BeginDeleteJob(r, j)

Serve(r) ==
  \/ LookUpPrimary(r) \/ LookUpRun(r) \/ LookUpItem(r)
  \/ CommitCreate(r) \/ CreateLocked(r) \/ CommitMark(r) \/ CommitAction(r)
  \/ CommitSend(r) \/ CommitItem(r) \/ CommitDeleteJob(r)

Next == \E r \in Requests : Begin(r) \/ Serve(r)

Spec == Init /\ [][Next]_vars

-----------------------------------------------------------------------------
\* The site of a page, and the leads that are the same, said without the key.
UsableUrls(p) ==
  {u \in {p.website, p.source_url} :
     u # Nothing /\ u.scheme \in {"", "http", "https"} /\ u.host # Nothing}
Secure(u) == u.scheme # "http"
PortOf(u) == IF u.port # 0 THEN u.port ELSE IF Secure(u) THEN 443 ELSE 80
SameSite(u, v) == Secure(u) = Secure(v) /\ u.host.words = v.host.words /\ PortOf(u) = PortOf(v)
SameLead(p, q) ==
  /\ p.email # Nothing /\ q.email # Nothing /\ p.email.words = q.email.words
  /\ \E u \in UsableUrls(p), v \in UsableUrls(q) : SameSite(u, v)
  /\ Cardinality(UsableUrls(p)) = 1 /\ Cardinality(UsableUrls(q)) = 1

\* Of the samples of one lead, whatever the spelling of its address and URL, at most
\* one is primary, through any sequence of creations, marks and deletions; on
\* PostgreSQL, unless two creations of that lead overlapped (apply_dedupe_v1), and on
\* SQLite, unless a mark of a sample overlapped with its deletion and has given its
\* key to the sample that has its id now (mark_duplicate).
OnePrimaryPerLead ==
  \A i, k \in Live :
    /\ i # k /\ ~samples[i].dup /\ ~samples[k].dup
    /\ SameLead(samples[i].payload, samples[k].payload)
    => \/ engine = "postgresql" /\ <<"key", samples[i].key>> \in raced
       \/ engine = "sqlite" /\ \E h \in {i, k} : <<"sample", h>> \in raced

Counted(j) == {i \in Live : samples[i].job = j /\ samples[i].dup /\ ~samples[i].claimed}

\* total_duplicate of a run is the number of its duplicates that did not come as
\* duplicates, unless two requests worked at once on it (mark_duplicate), or on a run
\* since deleted, whose sample ids now are those of other samples.
CounterExact ==
  \A j \in jobs :
    total[j] # Cardinality(Counted(j))
    => \E k \in {j} \cup (Jobs \ jobs) : <<"run", k>> \in raced

\* The newest audit entry about a sample tells its status, through deletions and ids
\* that are used again, unless two requests worked on the sample at once: a mark and a
\* send log a status they do not write, and of two decisions the one that commits last
\* may have taken its event_time first (write_audit_log, build_sample_trace_payload).
AuditTellsStatus ==
  \A i \in Live : audit[i].status # samples[i].status => <<"sample", i>> \in raced

\* What a send has put into the training queue is approved and remains so, unless
\* two requests worked on the sample at once (send_sample_to_training).
QueueHoldsApproved ==
  \A n \in DOMAIN queue, i \in Live :
    queue[n].via = "send" /\ queue[n].birth = samples[i].birth /\ samples[i].status # "approved"
    => <<"sample", i>> \in raced

\* Sends put a sample into the queue once: a second item, which makes every later
\* send fail, takes overlapping sends or a creation by hand.
SentOnce ==
  \A m, n \in DOMAIN queue :
    m # n /\ queue[m].birth = queue[n].birth /\ {queue[m].via, queue[n].via} = {"send"}
    => <<"sample", queue[m].sample>> \in raced

\* Every queue item refers to a sample, and to the one it was made for, as its
\* foreign key promises (models/domain.py).
QueueItemKeepsItsSample ==
  \A n \in DOMAIN queue : LET s == samples[queue[n].sample]
                          IN  s # Nothing /\ s.birth = queue[n].birth

-----------------------------------------------------------------------------
(* Why they hold: the inductive invariant of SamplesProofs.                *)

OnSample == {"mark", "send_training", "create_item"} \cup DOMAIN Actions
Request  == [op : {"none", "create", "delete_job"} \cup OnSample, step : {"begun", "looked"},
             id : Ids \cup {0}, row : Sample \cup {Nothing}, of : Ids \cup {0}, key : Keys,
             job : Jobs \cup {Nothing}, total : Nat \cup {Unread}, seen : SUBSET Nat]

TypeOK ==
  /\ engine \in {"sqlite", "postgresql"}
  /\ jobs \subseteq Jobs
  /\ samples \in [Ids -> Sample \cup {Nothing}]
  /\ total \in [Jobs -> Nat]
  /\ queue \in Seq(QueueItem)
  /\ audit \in [Ids -> Entry \cup {Nothing}] /\ \A i \in Live : audit[i] \in Entry
  /\ req \in [Requests -> Request]
  /\ overtaken \subseteq Requests
  /\ births \in Nat

\* What a request must have read, and in which state of the world it can look.
RequestOK(q) ==
  /\ q.op = "none" => q = NoRequest
  /\ q.op = "create" => /\ q.row \in Sample /\ q.job \in Jobs /\ q.row.job = q.job
                        /\ q.key = KeyOf(q.row.payload) /\ q.row.key = q.key
                        /\ q.row.claimed => q.row.dup
                        /\ q.step = "looked" => engine = "postgresql"
  /\ q.op \in OnSample => q.id \in Ids /\ q.row \in Sample
  /\ q.op \in DOMAIN Actions => q.row.status \in Actions[q.op].from
  /\ q.op = "send_training" => q.row.status = "approved"
  /\ q.op = "delete_job" => q.job \in Jobs

\* Requests that touch the same thing have raced for it.
Races ==
  \A r, o \in Requests :
    r # o /\ req[r].op # "none" /\ req[o].op # "none" /\ ~Excluded(req[r], req[o])
    => Touches(req[r]) \cap Touches(req[o]) \subseteq raced

\* Where the creation of a sample is referred to, it is with the id it was given.
Named == {<<i, samples[i].birth>> : i \in Live}
           \cup {<<req[r].id, req[r].row.birth>> : r \in {o \in Requests : req[o].op \in OnSample}}
           \cup {<<queue[n].sample, queue[n].birth>> : n \in DOMAIN queue}
NamesOK == /\ \A x \in Named : x[2] \in 1 .. births
           /\ \A x, y \in Named : x[2] = y[2] => x[1] = y[1]

\* A sample that was not raced for is as the request that works on it has read it,
\* and has no queue item if the request has found none.
ReadOK(r) ==
  LET q == req[r]
  IN  q.op \in OnSample /\ <<"sample", q.id>> \notin raced =>
        /\ samples[q.id] = q.row
        /\ q.op = "send_training" /\ q.step = "looked" /\ q.seen = {} =>
             \A n \in DOMAIN queue : queue[n].sample # q.id

\* Only a request that works on a sample another has worked on is overtaken.
OvertakenRaced ==
  \A r \in overtaken : req[r].op \in Logs /\ <<"sample", req[r].id>> \in raced

\* The key of a primary is that of its page.
PrimaryKeysOK ==
  \A i \in Live : ~samples[i].dup =>
    /\ ~samples[i].claimed
    /\ \/ samples[i].key = KeyOf(samples[i].payload)
       \/ engine = "sqlite" /\ <<"sample", i>> \in raced

\* On PostgreSQL no sample goes while a request works on it, and a duplicate stays one.
RowsKept ==
  engine = "postgresql" => \A r \in Requests :
    LET q == req[r]
    IN  /\ q.op \in OnSample => /\ samples[q.id] # Nothing
                                /\ q.row.dup => samples[q.id].dup
        /\ q.op = "delete_job" => \A i \in q.seen : i \in Live /\ samples[i].job = q.job

\* On PostgreSQL no primary has the key for which a request that nobody raced found none.
KeysFree ==
  engine = "postgresql" => \A r \in Requests :
    LET q == req[r]
    IN  /\ q.op = "create" /\ q.step = "looked" /\ ~q.row.dup /\ q.key # Nothing
        /\ <<"key", q.key>> \notin raced
        => \A i \in Live : samples[i].key = q.key => samples[i].dup

KeysOK == PrimaryKeysOK /\ RowsKept /\ KeysFree

\* The run of a job that is gone was raced for.
Spoiled == \E k \in Jobs \ jobs : <<"run", k>> \in raced

\* The job of every sample and open request is there, and a request that nobody
\* raced has read the total and the samples of its run.
RunRead(r) ==
  LET q == req[r]
  IN  /\ q.op = "create" =>
           /\ q.job \in jobs
           /\ q.step = "begun" => q.total = Unread
           /\ q.step = "looked" => (q.total = Unread <=> ~(q.row.dup /\ ~q.row.claimed))
           /\ q.total # Unread /\ <<"run", q.job>> \notin raced => q.total = total[q.job]
      /\ q.op = "mark" =>
           /\ samples[q.id] # Nothing /\ samples[q.id].job = q.row.job
           /\ q.step = "begun" => ~q.row.dup
           /\ q.step = "looked" => (q.total = Unread <=> q.row.dup)
           /\ <<"run", q.row.job>> \notin raced =>
                /\ samples[q.id].dup = q.row.dup
                /\ q.total # Unread => q.total = total[q.row.job]
      /\ q.op = "delete_job" /\ <<"run", q.job>> \notin raced =>
           /\ q.job \in jobs
           /\ q.seen = {i \in Live : samples[i].job = q.job}

JobsThere == \A i \in Live : samples[i].job \in jobs

RunsOK == Spoiled \/ (JobsThere /\ \A r \in Requests : RunRead(r))

IInv ==
  /\ TypeOK
  /\ \A r \in Requests : RequestOK(req[r]) /\ ReadOK(r)
  /\ Races
  /\ OvertakenRaced
  /\ NamesOK
  /\ KeysOK
  /\ RunsOK
  /\ OnePrimaryPerLead /\ CounterExact
  /\ AuditTellsStatus /\ QueueHoldsApproved /\ SentOnce
=============================================================================
