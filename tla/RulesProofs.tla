---------------------------- MODULE RulesProofs ----------------------------
(***************************************************************************)
(* Proofs about Rules, for any number of requests, rules, names and texts, *)
(* on either engine.                                                       *)
(***************************************************************************)
EXTENDS Rules, TLAPS, FiniteSetTheorems, WellFoundedInduction

-----------------------------------------------------------------------------
(* The largest of some numbers.                                            *)

Less == {p \in Nat \X Nat : p[1] < p[2]}

\* The order of the numbers is well-founded.
LEMMA LessWF == IsWellFoundedOn(Less, Nat)
<1>1. OpToRel(<, Nat) = Less
  BY Zenon DEF OpToRel, Less
<1>. QED BY <1>1, NatLessThanWellFounded, Zenon

\* Some numbers have a least one.
LEMMA LeastNat ==
  ASSUME NEW T, T \subseteq Nat, T # {}
  PROVE  \E m \in T : \A n \in T : m <= n
<1>1. PICK m \in T : \A n \in T : ~ (<<n, m>> \in Less)
  BY LessWF, WFMin
<1>2. ASSUME NEW n \in T PROVE m <= n
  <2>1. m \in Nat /\ n \in Nat
    OBVIOUS
  <2>2. ~(n < m)
    BY <1>1, <2>1 DEF Less
  <2>. QED BY <2>1, <2>2
<1>. QED BY <1>2

\* Some numbers that do not exceed b have a largest one.
LEMMA MaxOf ==
  ASSUME NEW S, S \subseteq Nat, S # {}, NEW b \in Nat, \A s \in S : s <= b
  PROVE  Max(S) \in S /\ \A s \in S : s <= Max(S)
<1>. DEFINE Bounds == {n \in Nat : \A s \in S : s <= n}
<1>1. PICK m \in Bounds : \A n \in Bounds : m <= n
  <2>1. Bounds \subseteq Nat /\ b \in Bounds
    OBVIOUS
  <2>. HIDE DEF Bounds
  <2>. QED BY <2>1, LeastNat
<1>2. m \in S
  <2>. SUFFICES ASSUME m \notin S PROVE FALSE
    OBVIOUS
  <2>1. \A s \in S : s \in Nat /\ s <= m /\ s # m
    BY <1>1
  <2>2. PICK s \in S : TRUE
    OBVIOUS
  <2>3. m - 1 \in Nat
    BY <2>1, <2>2
  <2>4. \A t \in S : t <= m - 1
    BY <2>1, <2>3
  <2>5. m - 1 \in Bounds
    BY <2>3, <2>4
  <2>. QED BY <1>1, <2>3, <2>5
<1>3. \A s \in S : m >= s
  BY <1>1
<1>. QED BY <1>2, <1>3 DEF Max

\* The largest of the first n numbers.
LEMMA MaxOfInterval == ASSUME NEW n \in Nat PROVE Max((1 .. n) \cup {0}) = n
<1>. DEFINE S == (1 .. n) \cup {0}
<1>1. S \subseteq Nat /\ S # {} /\ n \in S /\ \A s \in S : s <= n
  OBVIOUS
<1>. HIDE DEF S
<1>2. Max(S) \in S /\ \A s \in S : s <= Max(S)
  BY <1>1, MaxOf
<1>3. Max(S) \in Nat /\ Max(S) <= n /\ n <= Max(S)
  BY <1>1, <1>2
<1>. QED BY <1>3 DEF S

\* An id given out is new, and no larger than the number of rows created.
LEMMA NewIdFree ==
  ASSUME NEW inUse, NEW n \in Nat, inUse \subseteq 1 .. n
  PROVE  NewId(inUse, n + 1) \in 1 .. (n + 1) /\ NewId(inUse, n + 1) \notin inUse
         /\ (engine # "sqlite" => NewId(inUse, n + 1) = n + 1)
<1>. DEFINE S == inUse \cup {0}
<1>1. S \subseteq Nat /\ S # {} /\ \A s \in S : s <= n
  OBVIOUS
<1>. HIDE DEF S
<1>2. Max(S) \in S /\ \A s \in S : s <= Max(S)
  BY <1>1, MaxOf
<1>3. Max(S) \in Nat /\ Max(S) <= n
  BY <1>1, <1>2
<1>6. Max(S) + 1 \notin S
  BY <1>2, <1>3
<1>4. CASE engine = "sqlite"
  <2>1. NewId(inUse, n + 1) = Max(S) + 1
    BY <1>4 DEF NewId, S
  <2>2. \A s \in inUse : s \in S
    BY DEF S
  <2>. QED BY <1>3, <1>4, <1>6, <2>1, <2>2
<1>5. CASE engine # "sqlite"
  BY <1>5 DEF NewId
<1>. QED BY <1>4, <1>5

Numbers(i) == {versions[v].no : v \in VersionsOf(i)}

\* The number of the newest version.
LEMMA LatestIsMax ==
  ASSUME TypeOK, NEW i
  PROVE  /\ LatestOf(i) \in Nat /\ LatestOf(i) <= versionsMade
         /\ \A v \in VersionsOf(i) : versions[v].no \in Nat /\ versions[v].no <= LatestOf(i)
         /\ \A n \in Nat : Numbers(i) = 1 .. n => LatestOf(i) = n
<1>. DEFINE S == Numbers(i) \cup {0}
<1>1. versionsMade \in Nat /\ LatestOf(i) = Max(S)
  BY BoundsAssumption DEF TypeOK, LatestOf, Numbers
<1>2. \A v \in VersionsOf(i) : v \in LiveVersions /\ versions[v] \in Version
  BY DEF TypeOK, VersionsOf, LiveVersions
<1>3. \A v \in VersionsOf(i) : versions[v].no \in Nat /\ versions[v].no <= versionsMade
  BY <1>2 DEF TypeOK, Version
<1>4. S \subseteq Nat /\ S # {} /\ \A s \in S : s <= versionsMade
  BY <1>1, <1>3 DEF Numbers
<1>5. \A v \in VersionsOf(i) : versions[v].no \in S
  BY DEF Numbers
<1>6. \A n \in Nat : Numbers(i) = 1 .. n => Max(S) = n
  BY MaxOfInterval
<1>. HIDE DEF S
<1>7. Max(S) \in S /\ \A s \in S : s <= Max(S)
  BY <1>1, <1>4, MaxOf
<1>8. Max(S) \in Nat /\ Max(S) <= versionsMade
  BY <1>4, <1>7
<1>. QED BY <1>1, <1>3, <1>5, <1>6, <1>7, <1>8

-----------------------------------------------------------------------------
(* What a step may leave alone.                                            *)

\* The versions of rule i stay as they are.
SameVersions(i) ==
  /\ VersionsOf(i)' = VersionsOf(i)
  /\ \A v \in VersionsOf(i) : versions'[v] = versions[v]

\* Then so do their numbers.
LEMMA SameLatest ==
  ASSUME NEW i, SameVersions(i)
  PROVE  LatestOf(i)' = LatestOf(i) /\ Numbers(i)' = Numbers(i)
<1>1. Numbers(i)' = Numbers(i)
  BY DEF SameVersions, Numbers
<1>. QED BY <1>1 DEF LatestOf, Numbers

\* The history of a rule that a step leaves alone stays right.
LEMMA HistoryKept ==
  ASSUME NEW i, HistoryOK(i), SameVersions(i), rules'[i] = rules[i], i \in RuleIds, raced \subseteq raced'
  PROVE  HistoryOK(i)'
<1>1. LatestOf(i)' = LatestOf(i) /\ Numbers(i)' = Numbers(i)
  BY SameLatest
<1>2. Gone(i)' <=> Gone(i)
  BY DEF Gone, LiveRules
<1>. QED BY <1>1, <1>2 DEF HistoryOK, SameVersions, Numbers

\* So does an open request, when its rule is left alone unless its id is raced for.
LEMMA RequestKept ==
  ASSUME NEW r \in Requests, RequestOK(r), req'[r] = req[r], engine' = engine, raced \subseteq raced',
         req[r].rule \in RuleIds \ raced' =>
           /\ rules'[req[r].rule] = rules[req[r].rule]
           /\ SameVersions(req[r].rule)
           /\ \A o \in Requests \ {r} : req'[o].rule # req[r].rule
  PROVE  RequestOK(r)'
<1>1. CASE req[r].op = "none"
  BY <1>1 DEF RequestOK
<1>2. CASE req[r].op # "none"
  <2>. DEFINE i == req[r].rule
  <2>1. i \in RuleIds
    BY <1>2 DEF RequestOK
  <2>2. i \notin raced' => i \notin raced /\ LatestOf(i)' = LatestOf(i)
    BY <2>1, SameLatest
  <2>. QED BY <1>2, <2>1, <2>2 DEF RequestOK
<1>. QED BY <1>1, <1>2

-----------------------------------------------------------------------------
(* A version is added.                                                     *)

\* Its id is new; the versions of the other rules stay as they are.
LEMMA VersionAdded ==
  ASSUME TypeOK, NEW i \in RuleIds, NEW no \in Nat, no <= versionsMade + 1, NEW name \in Names,
         NEW text \in Texts, NEW born \in Nat, AddVersion(i, no, name, text, born)
  PROVE  \E v \in VersionIds :
           /\ v \notin LiveVersions /\ LiveVersions' = LiveVersions \cup {v}
           /\ versionsMade' = versionsMade + 1 /\ versionsMade' \in 0 .. MaxVersions
           /\ LiveVersions' \subseteq 1 .. versionsMade'
           /\ versions' \in [VersionIds -> Version \cup {Nothing}]
           /\ versions'[v] = [rule |-> i, no |-> no, name |-> name, text |-> text, born |-> born]
           /\ \A u \in LiveVersions : versions'[u] = versions[u]
           /\ \A u \in LiveVersions' : versions'[u].no <= versionsMade'
           /\ VersionsOf(i)' = VersionsOf(i) \cup {v}
           /\ \A j : j # i => SameVersions(j)
<1>. DEFINE v   == NewId(LiveVersions, versionsMade + 1)
            row == [rule |-> i, no |-> no, name |-> name, text |-> text, born |-> born]
<1>1. /\ versionsMade \in Nat /\ versionsMade < MaxVersions /\ versionsMade' = versionsMade + 1
      /\ versions' = [versions EXCEPT ![v] = row]
      /\ versions \in [VersionIds -> Version \cup {Nothing}] /\ LiveVersions \subseteq 1 .. versionsMade
  BY BoundsAssumption DEF TypeOK, AddVersion
<1>2. v \in 1 .. (versionsMade + 1) /\ v \notin LiveVersions
  BY <1>1, NewIdFree
<1>3. v \in VersionIds /\ versionsMade + 1 \in 0 .. MaxVersions
  BY <1>1, <1>2, BoundsAssumption DEF VersionIds
<1>4. row \in Version /\ row # Nothing
  <2>1. row \in Version
    BY DEF Version
  <2>. QED BY <2>1, NothingAssumption
<1>. HIDE DEF v
<1>5. /\ versions' \in [VersionIds -> Version \cup {Nothing}] /\ versions'[v] = row
      /\ \A u \in VersionIds \ {v} : versions'[u] = versions[u]
  BY <1>1, <1>3, <1>4
<1>. HIDE DEF row
<1>6. LiveVersions' = LiveVersions \cup {v}
  BY <1>3, <1>4, <1>5 DEF LiveVersions
<1>7. LiveVersions' \subseteq 1 .. versionsMade'
  BY <1>1, <1>2, <1>6
<1>8. \A u \in LiveVersions : u \in VersionIds /\ u # v /\ versions'[u] = versions[u]
  BY <1>2, <1>5 DEF LiveVersions
<1>9. row.rule = i /\ row.no = no
  BY DEF row
<1>10. \A j : VersionsOf(j)' = IF j = i THEN VersionsOf(j) \cup {v} ELSE VersionsOf(j)
  BY <1>5, <1>6, <1>8, <1>9 DEF VersionsOf
<1>11. \A j : j # i => SameVersions(j)
  BY <1>8, <1>10 DEF SameVersions, VersionsOf
<1>12. \A u \in LiveVersions' : versions'[u].no <= versionsMade'
  <2>1. \A u \in LiveVersions : versions'[u].no <= versionsMade + 1
    <3>1. \A u \in LiveVersions : versions[u].no \in Nat /\ versions[u].no <= versionsMade
      BY <1>1 DEF TypeOK, LiveVersions, Version
    <3>. QED BY <1>1, <1>8, <3>1
  <2>2. versions'[v].no <= versionsMade + 1
    BY <1>5, <1>9
  <2>. QED BY <1>1, <1>6, <2>1, <2>2
<1>. QED BY <1>1, <1>2, <1>3, <1>5, <1>6, <1>7, <1>8, <1>10, <1>11, <1>12 DEF row

\* The history of a rule grows by a version that says what the rule says.
LEMMA HistoryGrows ==
  ASSUME TypeOK, TypeOK', NEW i \in RuleIds, i \notin raced => HistoryOK(i), NEW v \in VersionIds,
         v \notin LiveVersions, VersionsOf(i)' = VersionsOf(i) \cup {v},
         \A u \in VersionsOf(i) : versions'[u] = versions[u],
         i \notin raced' =>
           /\ i \notin raced
           /\ versions'[v].no = LatestOf(i) + 1
           /\ rules'[i] # Nothing
           /\ versions'[v].name = rules'[i].name /\ versions'[v].text = rules'[i].text
           /\ versions'[v].born = rules'[i].born
           /\ VersionsOf(i) # {} => rules'[i].born = rules[i].born
  PROVE  HistoryOK(i)'
<1>. SUFFICES ASSUME i \notin raced' PROVE HistoryOK(i)'
  BY DEF HistoryOK
<1>. DEFINE n == Cardinality(VersionsOf(i))
<1>1. HistoryOK(i) /\ i \notin raced /\ v \notin VersionsOf(i)
  BY DEF VersionsOf
<1>2. IsFiniteSet(VersionsOf(i))
  <2>1. versionsMade \in Int /\ VersionsOf(i) \subseteq 1 .. versionsMade
    <3>1. versionsMade \in Int /\ LiveVersions \subseteq 1 .. versionsMade
      BY DEF TypeOK
    <3>2. VersionsOf(i) \subseteq LiveVersions
      BY DEF VersionsOf
    <3>. QED BY <3>1, <3>2
  <2>2. IsFiniteSet(1 .. versionsMade)
    BY <2>1, FS_Interval
  <2>. QED BY <2>1, <2>2, FS_Subset
<1>3. n \in Nat /\ Cardinality(VersionsOf(i)') = n + 1
  BY <1>1, <1>2, FS_AddElement, FS_CardinalityType
<1>4. Numbers(i) = 1 .. n
  BY <1>1 DEF HistoryOK, Numbers
<1>5. LatestOf(i) = n
  BY <1>3, <1>4, LatestIsMax
<1>6. Numbers(i)' = Numbers(i) \cup {n + 1}
  BY <1>5 DEF Numbers
<1>7. Numbers(i)' = 1 .. (n + 1)
  BY <1>3, <1>4, <1>6
<1>8. LatestOf(i)' = n + 1
  <2>1. LatestOf(i)' = Max(Numbers(i)' \cup {0})
    BY DEF LatestOf, Numbers
  <2>. QED BY <1>3, <1>7, <2>1, MaxOfInterval
<1>9. \A u \in VersionsOf(i) : versions'[u].no \in 1 .. n
  BY <1>4 DEF Numbers
<1>10. \A u \in VersionsOf(i)' :
         /\ versions'[u].born = rules'[i].born
         /\ versions'[u].no = LatestOf(i)' => versions'[u].name = rules'[i].name /\ versions'[u].text = rules'[i].text
  <2>1. ASSUME NEW u \in VersionsOf(i)
        PROVE  versions'[u].born = rules'[i].born /\ versions'[u].no # LatestOf(i)'
    BY <1>1, <1>3, <1>8, <1>9 DEF HistoryOK
  <2>. QED BY <2>1
<1>11. ~Gone(i)'
  BY DEF Gone, LiveRules
<1>. QED BY <1>3, <1>7, <1>10, <1>11 DEF HistoryOK, Numbers

-----------------------------------------------------------------------------
(* Every step keeps the invariant.                                         *)

\* A rule that is there has its fields, and an open request its own.
LEMMA Shapes ==
  ASSUME TypeOK
  PROVE  /\ \A i \in LiveRules : i \in RuleIds /\ rules[i] \in Rule
         /\ \A r \in Requests : req[r] \in Request
         /\ \A i \in RuleIds : Gone(i) <=> rules[i] = Nothing
         /\ Nothing \notin Rule /\ Nothing \notin Version /\ Nothing \notin LinkedTo
         /\ 0 \notin RuleIds
BY NothingAssumption DEF TypeOK, LiveRules, Gone, RuleIds

\* A session that commits or fails leaves the others right, if the step changes nothing
\* but the rule it worked on, or ids that are raced for.
LEMMA CloseStep ==
  ASSUME IInv, NEW r \in Requests, Close(r), engine' = engine, raced' = raced,
         \A i \in RuleIds \ raced : i # req[r].rule => rules'[i] = rules[i] /\ SameVersions(i)
  PROVE  /\ \A o \in Requests : RequestOK(o)'
         /\ req' \in [Requests -> Request]
         /\ \A o \in Requests : req'[o].latest <= versionsMade
<1>1. TypeOK /\ \A o \in Requests : RequestOK(o)
  BY DEF IInv
<1>2. req'[r] = NoRequest /\ \A o \in Requests \ {r} : req'[o] = req[o]
  BY <1>1 DEF Close, TypeOK
<1>3. NoRequest \in Request /\ NoRequest.op = "none" /\ NoRequest.latest = 0 /\ NoRequest.rule = 0
  BY DEF NoRequest, Request
<1>4. RequestOK(r)'
  BY <1>2, <1>3 DEF RequestOK
<1>5. ASSUME NEW o \in Requests \ {r} PROVE RequestOK(o)'
  <2>1. CASE req[o].rule \in RuleIds \ raced
    <3>. DEFINE i == req[o].rule
    <3>1. req[o].op # "none"
      BY <1>1, <2>1, <1>3, Shapes DEF RequestOK
    <3>2. \A p \in Requests \ {o} : req[p].rule # i
      BY <1>1, <2>1, <3>1 DEF RequestOK
    <3>3. \A p \in Requests \ {o} : req'[p].rule # i
      BY <1>1, <1>2, <1>3, <2>1, <3>2, Shapes
    <3>. QED BY <1>1, <1>2, <2>1, <3>2, <3>3, RequestKept
  <2>2. CASE req[o].rule \notin RuleIds \ raced
    BY <1>1, <1>2, <2>2, RequestKept
  <2>. QED BY <2>1, <2>2
<1>6. versionsMade \in Nat
  BY <1>1, BoundsAssumption DEF TypeOK
<1>7. req' \in [Requests -> Request]
  BY <1>1, <1>3 DEF Close, TypeOK
<1>8. \A o \in Requests : req'[o].latest <= versionsMade
  BY <1>1, <1>2, <1>3, <1>6 DEF TypeOK
<1>. QED BY <1>4, <1>5, <1>7, <1>8

\* References stay right when no rule goes, comes or is replaced, and those that are
\* set anew are right.
LEMMA LinksKept ==
  ASSUME IInv, engine' = engine, raced \subseteq raced',
         \A i \in RuleIds : /\ rules'[i] = Nothing <=> rules[i] = Nothing
                            /\ rules[i] # Nothing => rules'[i].born = rules[i].born,
         \A x \in Refs : \/ link'[x] = link[x]
                         \/ /\ link'[x].id \in RuleIds
                            /\ Gone(link'[x].id) \/ rules[link'[x].id].born # link'[x].born
                                 => engine = "sqlite" /\ link'[x].id \in raced
  PROVE  LinkIsLive'
<1>1. TypeOK /\ \A x \in Refs : link[x] # Nothing => link[x].id \in RuleIds
  BY DEF IInv, TypeOK, LinkedTo
<1>2. \A i \in RuleIds : Gone(i) <=> rules[i] = Nothing
  BY DEF Gone, LiveRules
<1>3. \A i \in RuleIds : Gone(i)' <=> rules'[i] = Nothing
  BY DEF Gone, LiveRules
<1>. QED BY <1>1, <1>2, <1>3 DEF IInv, LinkIsLive

\* CreateRule.
LEMMA CreateStep == ASSUME IInv, CreateRule PROVE IInv'
<1>1. TypeOK
  BY DEF IInv
<1>2. PICK name \in Names, text \in Texts, i \in RuleIds :
        /\ Gone(i) /\ i \in 1 .. (rulesMade + 1) /\ (engine = "postgresql" => i = rulesMade + 1)
        /\ rules' = [rules EXCEPT ![i] = [name |-> name, text |-> text, born |-> rulesMade + 1]]
        /\ AddVersion(i, LatestOf(i) + 1, name, text, rulesMade + 1)
        /\ rulesMade < MaxRules /\ rulesMade' = rulesMade + 1
        /\ UNCHANGED <<engine, link, req, raced>>
  <2>1. PICK name \in Names, text \in Texts :
          LET i == NewId(LiveRules, rulesMade + 1)
          IN  /\ rules' = [rules EXCEPT ![i] = [name |-> name, text |-> text, born |-> rulesMade + 1]]
              /\ AddVersion(i, LatestOf(i) + 1, name, text, rulesMade + 1)
              /\ rulesMade < MaxRules /\ rulesMade' = rulesMade + 1
              /\ UNCHANGED <<engine, link, req, raced>>
    BY DEF CreateRule
  <2>2. rulesMade \in Nat /\ LiveRules \subseteq 1 .. rulesMade /\ engine \in {"sqlite", "postgresql"}
    BY <1>1, BoundsAssumption DEF TypeOK
  <2>3. PICK i : i = NewId(LiveRules, rulesMade + 1)
    OBVIOUS
  <2>4. i \in 1 .. (rulesMade + 1) /\ i \notin LiveRules /\ (engine # "sqlite" => i = rulesMade + 1)
    BY <2>2, <2>3, NewIdFree
  <2>5. i \in RuleIds
    BY <2>1, <2>2, <2>4, BoundsAssumption DEF RuleIds
  <2>. QED BY <2>1, <2>3, <2>4, <2>5 DEF Gone
<1>. DEFINE row == [name |-> name, text |-> text, born |-> rulesMade + 1]
<1>3. rulesMade \in Nat /\ row \in Rule /\ row # Nothing
  BY <1>1, BoundsAssumption, NothingAssumption DEF TypeOK, Rule
<1>4. row.name = name /\ row.text = text /\ row.born = rulesMade + 1
  OBVIOUS
<1>. HIDE DEF row
<1>5. /\ rules' \in [RuleIds -> Rule \cup {Nothing}] /\ rules'[i] = row
      /\ \A j \in RuleIds \ {i} : rules'[j] = rules[j]
  BY <1>1, <1>2, <1>3 DEF TypeOK, row
<1>6. /\ LatestOf(i) + 1 \in Nat /\ LatestOf(i) + 1 <= versionsMade + 1 /\ versionsMade \in Nat
  BY <1>1, LatestIsMax, BoundsAssumption DEF TypeOK
<1>7. PICK v \in VersionIds :
           /\ v \notin LiveVersions /\ LiveVersions' = LiveVersions \cup {v}
           /\ versionsMade' = versionsMade + 1 /\ versionsMade' \in 0 .. MaxVersions
           /\ LiveVersions' \subseteq 1 .. versionsMade'
           /\ versions' \in [VersionIds -> Version \cup {Nothing}]
           /\ versions'[v] = [rule |-> i, no |-> LatestOf(i) + 1, name |-> name, text |-> text, born |-> rulesMade + 1]
           /\ \A u \in LiveVersions : versions'[u] = versions[u]
           /\ \A u \in LiveVersions' : versions'[u].no <= versionsMade'
           /\ VersionsOf(i)' = VersionsOf(i) \cup {v}
           /\ \A j : j # i => SameVersions(j)
  BY <1>1, <1>2, <1>3, <1>6, VersionAdded
<1>8. LiveRules' = LiveRules \cup {i}
  BY <1>2, <1>3, <1>5 DEF LiveRules
<1>9. TypeOK'
  <2>1. rulesMade' \in 0 .. MaxRules /\ LiveRules' \subseteq 1 .. rulesMade'
    <3>1. LiveRules \subseteq 1 .. rulesMade /\ rulesMade \in 0 .. MaxRules
      BY <1>1 DEF TypeOK
    <3>2. \A k \in LiveRules' : k \in 1 .. (rulesMade + 1)
      BY <1>2, <1>3, <1>8, <3>1
    <3>3. rulesMade + 1 \in 0 .. MaxRules
      BY <1>2, <1>3, BoundsAssumption
    <3>. QED BY <1>2, <3>2, <3>3
  <2>2. \A r \in Requests : req'[r].latest <= versionsMade'
    BY <1>1, <1>2, <1>6, <1>7 DEF TypeOK, Request
  <2>3. req' = req /\ engine' = engine /\ link' = link
    BY <1>2
  <2>. QED BY <1>1, <1>5, <1>7, <2>1, <2>2, <2>3 DEF TypeOK
<1>10. ASSUME NEW r \in Requests PROVE RequestOK(r)'
  <2>1. req[r].rule \in RuleIds \ raced => req[r].rule # i
    <3>. SUFFICES ASSUME req[r].rule = i, i \notin raced PROVE FALSE
      OBVIOUS
    <3>1. req[r].op # "none"
      BY <1>1, Shapes DEF IInv, RequestOK, NoRequest
    <3>2. rules[i] \in Rule
      BY <3>1 DEF IInv, RequestOK
    <3>. QED BY <1>1, <1>2, <3>2, Shapes
  <2>2. \A o \in Requests \ {r} : req'[o].rule = req[o].rule
    BY <1>2
  <2>3. req[r].rule \in RuleIds \ raced =>
          \A o \in Requests \ {r} : req[o].rule # req[r].rule
    <3>. SUFFICES ASSUME req[r].rule \in RuleIds \ raced
                  PROVE  \A o \in Requests \ {r} : req[o].rule # req[r].rule
      OBVIOUS
    <3>1. req[r].op # "none"
      BY <1>1, Shapes DEF IInv, RequestOK, NoRequest
    <3>. QED BY <3>1 DEF IInv, RequestOK
  <2>4. RequestOK(r) /\ req'[r] = req[r] /\ engine' = engine /\ raced' = raced
    BY <1>2 DEF IInv
  <2>. QED BY <1>5, <1>7, <2>1, <2>2, <2>3, <2>4, RequestKept
<1>11. ASSUME NEW j \in RuleIds PROVE HistoryOK(j)'
  <2>1. CASE j = i
    <3>1. i \notin raced => VersionsOf(i) = {}
      BY <1>2 DEF IInv, HistoryOK
    <3>2. HistoryOK(i) /\ raced' = raced
      BY <1>2 DEF IInv
    <3>3. /\ versions'[v].no = LatestOf(i) + 1 /\ versions'[v].name = name
          /\ versions'[v].text = text /\ versions'[v].born = rulesMade + 1
      BY <1>7
    <3>4. /\ rules'[i] # Nothing /\ rules'[i].name = name /\ rules'[i].text = text
          /\ rules'[i].born = rulesMade + 1
      BY <1>3, <1>4, <1>5
    <3>5. \A u \in VersionsOf(i) : versions'[u] = versions[u]
      BY <1>7 DEF VersionsOf
    <3>6. HistoryOK(i)'
      BY <1>1, <1>7, <1>9, <3>1, <3>2, <3>3, <3>4, <3>5, HistoryGrows
    <3>. QED BY <2>1, <3>6
  <2>2. CASE j # i
    BY <1>2, <1>5, <1>7, <2>2, HistoryKept DEF IInv
  <2>. QED BY <2>1, <2>2
<1>12. LinkIsLive'
  <2>1. \A k \in RuleIds \ {i} : Gone(k)' <=> Gone(k)
    BY <1>8 DEF Gone
  <2>2. \A x \in Refs : link[x] # Nothing => link[x].id \in RuleIds
    BY <1>1 DEF TypeOK, LinkedTo
  <2>. QED BY <1>2, <1>5, <2>1, <2>2 DEF IInv, LinkIsLive
<1>13. PostgresKeepsIds'
  BY <1>2, <1>4, <1>5, <1>8, <1>1, Shapes DEF IInv, PostgresKeepsIds
<1>. QED BY <1>9, <1>10, <1>11, <1>12, <1>13 DEF IInv

\* A request is read for rule i.
LEMMA BeginStep ==
  ASSUME IInv, NEW r \in Requests, NEW i \in RuleIds, NEW q0 \in Request, Begin(r, i, q0),
         q0.op # "none", q0.latest = 0,
         q0.op \in {"update", "version"} =>
           q0.step = "begun" /\ q0.name \in Names /\ q0.text \in Texts,
         q0.op \in {"sample", "link"} => q0.ref \in Refs
  PROVE  IInv'
<1>. DEFINE q == [q0 EXCEPT !.rule = i, !.row = rules[i]]
<1>1. /\ i \in LiveRules /\ req' = [req EXCEPT ![r] = q]
      /\ raced' = IF \E o \in Requests : req[o].rule = i THEN raced \cup {i} ELSE raced
      /\ UNCHANGED <<engine, rules, versions, link, rulesMade, versionsMade>>
      /\ req[r] = NoRequest
  BY DEF Begin, tables
<1>2. TypeOK
  BY DEF IInv
<1>3. rules[i] \in Rule /\ NoRequest.rule = 0
  BY <1>1, <1>2, Shapes DEF NoRequest
<1>4. /\ q \in Request /\ q.rule = i /\ q.row = rules[i] /\ q.op = q0.op /\ q.step = q0.step
      /\ q.name = q0.name /\ q.text = q0.text /\ q.ref = q0.ref /\ q.latest = 0
  BY <1>3 DEF Request
<1>. HIDE DEF q
<1>5. req' \in [Requests -> Request] /\ req'[r] = q /\ \A o \in Requests \ {r} : req'[o] = req[o]
  BY <1>1, <1>2, <1>4 DEF TypeOK
<1>6. raced \subseteq raced' /\ (i \notin raced' => \A o \in Requests : req[o].rule # i)
  BY <1>1
<1>7. TypeOK'
  <2>1. LiveRules' = LiveRules /\ LiveVersions' = LiveVersions
    BY <1>1 DEF LiveRules, LiveVersions
  <2>2. \A o \in Requests : req'[o].latest <= versionsMade'
    BY <1>1, <1>2, <1>4, <1>5, BoundsAssumption DEF TypeOK
  <2>. QED BY <1>1, <1>2, <1>5, <2>1, <2>2 DEF TypeOK
<1>8. \A j : SameVersions(j)
  BY <1>1 DEF SameVersions, VersionsOf, LiveVersions
<1>9. RequestOK(r)'
  <2>1. engine = "postgresql" => q.row.born = q.rule
    BY <1>1, <1>4 DEF IInv, PostgresKeepsIds
  <2>2. i \notin raced' => \A o \in Requests \ {r} : req'[o].rule # i
    BY <1>5, <1>6
  <2>. QED BY <1>1, <1>3, <1>4, <1>5, <2>1, <2>2 DEF RequestOK
<1>10. ASSUME NEW o \in Requests \ {r} PROVE RequestOK(o)'
  <2>1. RequestOK(o) /\ req'[o] = req[o] /\ engine' = engine /\ rules' = rules
    BY <1>1, <1>5 DEF IInv
  <2>2. req[o].rule \in RuleIds \ raced' =>
          \A p \in Requests \ {o} : req'[p].rule # req[o].rule
    <3>. SUFFICES ASSUME req[o].rule \in RuleIds \ raced', NEW p \in Requests \ {o}
                  PROVE  req'[p].rule # req[o].rule
      OBVIOUS
    <3>1. req[o].op # "none"
      BY <1>2, <1>3, <2>1, Shapes DEF RequestOK
    <3>2. req[p].rule # req[o].rule
      BY <1>6, <2>1, <3>1 DEF RequestOK
    <3>3. CASE p = r
      BY <1>4, <1>5, <1>6, <3>3
    <3>4. CASE p # r
      BY <1>5, <3>2, <3>4
    <3>. QED BY <3>3, <3>4
  <2>. QED BY <1>6, <1>8, <2>1, <2>2, RequestKept
<1>11. \A j \in RuleIds : HistoryOK(j)'
  BY <1>1, <1>6, <1>8, HistoryKept DEF IInv
<1>12. LinkIsLive'
  BY <1>1, <1>6, LinksKept
<1>13. PostgresKeepsIds'
  BY <1>1 DEF IInv, PostgresKeepsIds, LiveRules
<1>. QED BY <1>7, <1>9, <1>10, <1>11, <1>12, <1>13 DEF IInv

\* What each kind of request begins with.
LEMMA BeginAny ==
  ASSUME IInv, NEW r \in Requests, NEW i \in RuleIds,
         \/ \E name \in Names, text \in Texts : BeginUpdate(r, i, name, text)
         \/ BeginVersion(r, i)
         \/ BeginDelete(r, i)
         \/ \E s \in Samples : BeginSample(r, i, s)
         \/ \E x \in Refs : BeginLink(r, i, x)
  PROVE  IInv'
<1>. USE DEF NoRequest, Request
<1>1. TypeOK
  BY DEF IInv
<1>2. ASSUME NEW name \in Names, NEW text \in Texts, BeginUpdate(r, i, name, text)
      PROVE  IInv'
  <2>. DEFINE q == [NoRequest EXCEPT !.op = "update", !.name = name, !.text = text]
  <2>1. /\ q \in Request /\ q.op = "update" /\ q.step = "begun" /\ q.latest = 0
        /\ q.name = name /\ q.text = text
    OBVIOUS
  <2>2. Begin(r, i, q)
    BY <1>2 DEF BeginUpdate
  <2>. HIDE DEF q
  <2>. QED BY <2>1, <2>2, BeginStep
<1>3. CASE BeginVersion(r, i)
  <2>. DEFINE q == [NoRequest EXCEPT !.op = "version", !.name = rules[i].name, !.text = rules[i].text]
  <2>1. i \in LiveRules /\ Begin(r, i, q)
    BY <1>3 DEF BeginVersion
  <2>2. rules[i].name \in Names /\ rules[i].text \in Texts
    BY <1>1, <2>1, Shapes DEF Rule
  <2>3. /\ q \in Request /\ q.op = "version" /\ q.step = "begun" /\ q.latest = 0
        /\ q.name = rules[i].name /\ q.text = rules[i].text
    BY <2>2
  <2>. HIDE DEF q
  <2>. QED BY <2>1, <2>2, <2>3, BeginStep
<1>4. CASE BeginDelete(r, i)
  <2>. DEFINE q == [NoRequest EXCEPT !.op = "delete", !.step = "looked"]
  <2>1. q \in Request /\ q.op = "delete" /\ q.latest = 0
    OBVIOUS
  <2>2. Begin(r, i, q)
    BY <1>4 DEF BeginDelete
  <2>. HIDE DEF q
  <2>. QED BY <2>1, <2>2, BeginStep
<1>5. ASSUME NEW s \in Samples, BeginSample(r, i, s)
      PROVE  IInv'
  <2>. DEFINE q == [NoRequest EXCEPT !.op = "sample", !.ref = s]
  <2>1. q \in Request /\ q.op = "sample" /\ q.latest = 0 /\ q.ref \in Refs
    BY DEF Refs
  <2>2. Begin(r, i, q)
    BY <1>5 DEF BeginSample
  <2>. HIDE DEF q
  <2>. QED BY <2>1, <2>2, BeginStep
<1>6. ASSUME NEW x \in Refs, BeginLink(r, i, x)
      PROVE  IInv'
  <2>. DEFINE q == [NoRequest EXCEPT !.op = "link", !.step = "looked", !.ref = x]
  <2>1. q \in Request /\ q.op = "link" /\ q.latest = 0 /\ q.ref \in Refs
    OBVIOUS
  <2>2. Begin(r, i, q)
    BY <1>6 DEF BeginLink
  <2>. HIDE DEF q
  <2>. QED BY <2>1, <2>2, BeginStep
<1>. QED BY <1>2, <1>3, <1>4, <1>5, <1>6

\* The newest version is looked up.
LEMMA LookUpStep ==
  ASSUME IInv, NEW r \in Requests, LookUpLatest(r)
  PROVE  IInv'
<1>0. PICK i : i = req[r].rule
  OBVIOUS
<1>. DEFINE newest == {v \in VersionsOf(i) : versions[v].no = LatestOf(i)}
            version == IF newest = {} THEN Nothing ELSE CHOOSE v \in newest : TRUE
            q == [req[r] EXCEPT !.step = "looked", !.latest = LatestOf(i), !.version = version]
<1>1. /\ req[r].op # "none" /\ req[r].step = "begun" /\ req' = [req EXCEPT ![r] = q]
      /\ UNCHANGED <<engine, rules, versions, link, rulesMade, versionsMade, raced>>
  BY <1>0 DEF LookUpLatest, tables
<1>2. TypeOK /\ req[r] \in Request
  BY DEF IInv, TypeOK
<1>3. LatestOf(i) \in Nat /\ LatestOf(i) <= versionsMade
  BY <1>2, LatestIsMax
<1>4. version \in VersionIds \cup {Nothing}
  <2>1. newest \subseteq VersionIds
    BY DEF VersionsOf, LiveVersions
  <2>. QED BY <2>1
<1>. HIDE DEF version
<1>5. /\ q \in Request /\ q.rule = i /\ q.row = req[r].row /\ q.op = req[r].op
      /\ q.name = req[r].name /\ q.text = req[r].text /\ q.ref = req[r].ref /\ q.latest = LatestOf(i)
  BY <1>2, <1>3, <1>4, <1>0 DEF Request
<1>. HIDE DEF q
<1>6. req' \in [Requests -> Request] /\ req'[r] = q /\ \A o \in Requests \ {r} : req'[o] = req[o]
  BY <1>1, <1>2, <1>5 DEF TypeOK
<1>7. TypeOK'
  <2>1. LiveRules' = LiveRules /\ LiveVersions' = LiveVersions
    BY <1>1 DEF LiveRules, LiveVersions
  <2>2. \A o \in Requests : req'[o].latest <= versionsMade'
    BY <1>1, <1>2, <1>3, <1>5, <1>6 DEF TypeOK
  <2>. QED BY <1>1, <1>2, <1>6, <2>1, <2>2 DEF TypeOK
<1>8. \A j : SameVersions(j)
  BY <1>1 DEF SameVersions, VersionsOf, LiveVersions
<1>9. \A o \in Requests : req'[o].rule = req[o].rule
  BY <1>0, <1>5, <1>6
<1>10. RequestOK(r)'
  <2>1. LatestOf(i)' = LatestOf(i)
    BY <1>8, SameLatest
  <2>2. RequestOK(r)
    BY DEF IInv
  <2>3. /\ i \in RuleIds /\ req[r].row \in Rule
        /\ req[r].op \in {"update", "version"} => req[r].name \in Names /\ req[r].text \in Texts
        /\ req[r].op \in {"sample", "link"} => req[r].ref \in Refs
        /\ engine = "postgresql" => req[r].row.born = i
        /\ i \notin raced => req[r].row = rules[i] /\ \A o \in Requests \ {r} : req[o].rule # i
    BY <1>1, <1>0, <2>2 DEF RequestOK
  <2>4. i \notin raced => \A o \in Requests \ {r} : req'[o].rule # i
    BY <1>9, <2>3
  <2>5. req'[r].op # "none" /\ req'[r].rule = i /\ req'[r].row = req[r].row
    BY <1>1, <1>5, <1>6
  <2>. QED BY <1>1, <1>5, <1>6, <2>1, <2>3, <2>4, <2>5 DEF RequestOK
<1>11. ASSUME NEW o \in Requests \ {r} PROVE RequestOK(o)'
  <2>1. RequestOK(o) /\ req'[o] = req[o] /\ engine' = engine /\ rules' = rules /\ raced' = raced
    BY <1>1, <1>6 DEF IInv
  <2>2. req[o].rule \in RuleIds \ raced' =>
          \A p \in Requests \ {o} : req'[p].rule # req[o].rule
    <3>. SUFFICES ASSUME req[o].rule \in RuleIds \ raced
                  PROVE  \A p \in Requests \ {o} : req[p].rule # req[o].rule
      BY <1>9, <2>1
    <3>1. req[o].op # "none"
      BY <1>2, <2>1, Shapes DEF RequestOK, NoRequest
    <3>. QED BY <2>1, <3>1 DEF RequestOK
  <2>. QED BY <1>8, <2>1, <2>2, RequestKept
<1>12. \A j \in RuleIds : HistoryOK(j)'
  BY <1>1, <1>8, HistoryKept DEF IInv
<1>13. LinkIsLive'
  BY <1>1, LinksKept
<1>14. PostgresKeepsIds'
  BY <1>1 DEF IInv, PostgresKeepsIds, LiveRules
<1>. QED BY <1>7, <1>10, <1>11, <1>12, <1>13, <1>14 DEF IInv

\* A session closes, and at most the references of samples and items have changed.
LEMMA CloseOnly ==
  ASSUME IInv, NEW r \in Requests, Close(r), req[r].op # "none",
         UNCHANGED <<engine, rules, versions, rulesMade, versionsMade, raced>>,
         link' \in [Refs -> LinkedTo \cup {Nothing}], LinkIsLive'
  PROVE  IInv'
<1>1. TypeOK
  BY DEF IInv
<1>2. \A j : SameVersions(j)
  BY DEF SameVersions, VersionsOf, LiveVersions
<1>3. /\ \A o \in Requests : RequestOK(o)'
      /\ req' \in [Requests -> Request]
      /\ \A o \in Requests : req'[o].latest <= versionsMade
  BY <1>2, CloseStep
<1>4. LiveRules' = LiveRules /\ LiveVersions' = LiveVersions
  BY DEF LiveRules, LiveVersions
<1>5. TypeOK'
  BY <1>1, <1>3, <1>4 DEF TypeOK
<1>6. \A j \in RuleIds : HistoryOK(j)'
  BY <1>2, HistoryKept DEF IInv
<1>7. PostgresKeepsIds'
  BY <1>4 DEF IInv, PostgresKeepsIds
<1>. QED BY <1>3, <1>5, <1>6, <1>7 DEF IInv

\* A request that fails.
LEMMA FailStep ==
  ASSUME IInv, NEW r \in Requests, Fail(r), req[r].op # "none"
  PROVE  IInv'
<1>1. Close(r) /\ UNCHANGED <<engine, rules, versions, link, rulesMade, versionsMade, raced>>
  BY DEF Fail, tables
<1>2. link' \in [Refs -> LinkedTo \cup {Nothing}]
  BY <1>1 DEF IInv, TypeOK
<1>3. LinkIsLive'
  BY <1>1, LinksKept
<1>. QED BY <1>1, <1>2, <1>3, CloseOnly

\* A reference is set to the rule that the request has read.
LEMMA SetLink ==
  ASSUME IInv, NEW r \in Requests, Close(r), req[r].op \in {"sample", "link"},
         UNCHANGED <<engine, rules, versions, rulesMade, versionsMade, raced>>,
         ~(engine = "postgresql" /\ Gone(req[r].rule)),
         link' = [link EXCEPT ![req[r].ref] = Ref(req[r].rule, req[r].row.born)]
  PROVE  IInv'
<1>. DEFINE x == req[r].ref
            i == req[r].rule
            new == Ref(i, req[r].row.born)
<1>1. TypeOK /\ RequestOK(r) /\ req[r].op # "none"
  BY DEF IInv
<1>2. i \in RuleIds /\ req[r].row \in Rule /\ x \in Refs
  BY <1>1 DEF RequestOK
<1>3. new \in LinkedTo /\ new.id = i /\ new.born = req[r].row.born
  BY <1>2 DEF Ref, LinkedTo, Rule
<1>. HIDE DEF new
<1>4. /\ link' \in [Refs -> LinkedTo \cup {Nothing}] /\ link'[x] = new
      /\ \A y \in Refs \ {x} : link'[y] = link[y]
  BY <1>1, <1>2, <1>3 DEF TypeOK, new
<1>5. Gone(i) \/ rules[i].born # req[r].row.born => engine = "sqlite" /\ i \in raced
  <2>1. CASE i \notin raced
    BY <1>1, <1>2, <2>1, Shapes DEF RequestOK
  <2>2. CASE i \in raced /\ engine = "postgresql"
    <3>1. rules[i].born = i /\ req[r].row.born = i
      BY <1>1, <1>2, <2>2 DEF RequestOK, IInv, PostgresKeepsIds, Gone
    <3>. QED BY <2>2, <3>1
  <2>. QED BY <1>1, <2>1, <2>2 DEF TypeOK
<1>6. LinkIsLive'
  BY <1>2, <1>3, <1>4, <1>5, LinksKept
<1>. QED BY <1>1, <1>4, <1>6, CloseOnly

\* CommitSample and CommitLink.
LEMMA CommitLinkStep ==
  ASSUME IInv, NEW r \in Requests, CommitSample(r) \/ CommitLink(r)
  PROVE  IInv'
<1>1. CASE Fail(r) /\ req[r].op # "none"
  BY <1>1, FailStep
<1>2. CASE CommitSample(r) /\ ~Fail(r)
  BY <1>2, SetLink DEF CommitSample
<1>3. CASE CommitLink(r) /\ ~Fail(r)
  BY <1>3, SetLink DEF CommitLink
<1>. QED BY <1>1, <1>2, <1>3 DEF CommitSample, CommitLink

\* An update commits: the rule and the version that goes with it.
LEMMA UpdateStep ==
  ASSUME IInv, NEW r \in Requests, CommitUpdate(r), ~Fail(r)
  PROVE  IInv'
<1>0. PICK i, q : q = req[r] /\ i = req[r].rule
  OBVIOUS
<1>. DEFINE row == [rules[i] EXCEPT !.name = Written(q.row.name, q.name, rules[i].name),
                                    !.text = Written(q.row.text, q.text, rules[i].text)]
<1>1. /\ q.op \in {"update", "version"} /\ q.step = "looked" /\ ~UpdateFails(q) /\ Close(r)
      /\ rules' = IF Gone(i) THEN rules ELSE [rules EXCEPT ![i] = row]
      /\ AddVersion(i, q.latest + 1, q.name, q.text, q.row.born)
      /\ UNCHANGED <<engine, link, rulesMade, raced>>
  BY <1>0 DEF CommitUpdate
<1>2. TypeOK /\ RequestOK(r) /\ q \in Request
  BY <1>0 DEF IInv, TypeOK
<1>3. /\ i \in RuleIds /\ q.row \in Rule /\ q.name \in Names /\ q.text \in Texts /\ q.latest \in Nat
      /\ q.latest + 1 <= versionsMade + 1 /\ versionsMade \in Nat
  BY <1>0, <1>1, <1>2, BoundsAssumption DEF RequestOK, TypeOK, Request
<1>4. q.row.born \in Nat /\ q.latest + 1 \in Nat
  BY <1>3 DEF Rule
<1>5. PICK v \in VersionIds :
           /\ v \notin LiveVersions /\ LiveVersions' = LiveVersions \cup {v}
           /\ versionsMade' = versionsMade + 1 /\ versionsMade' \in 0 .. MaxVersions
           /\ LiveVersions' \subseteq 1 .. versionsMade'
           /\ versions' \in [VersionIds -> Version \cup {Nothing}]
           /\ versions'[v] = [rule |-> i, no |-> q.latest + 1, name |-> q.name, text |-> q.text,
                              born |-> q.row.born]
           /\ \A u \in LiveVersions : versions'[u] = versions[u]
           /\ \A u \in LiveVersions' : versions'[u].no <= versionsMade'
           /\ VersionsOf(i)' = VersionsOf(i) \cup {v}
           /\ \A j : j # i => SameVersions(j)
  BY <1>1, <1>2, <1>3, <1>4, VersionAdded
<1>6. ~Gone(i) => /\ rules[i] \in Rule /\ row \in Rule /\ row # Nothing /\ row.born = rules[i].born
                  /\ row.name = Written(q.row.name, q.name, rules[i].name)
                  /\ row.text = Written(q.row.text, q.text, rules[i].text)
  <2>. SUFFICES ASSUME ~Gone(i)
                PROVE  /\ rules[i] \in Rule /\ row \in Rule /\ row # Nothing /\ row.born = rules[i].born
                       /\ row.name = Written(q.row.name, q.name, rules[i].name)
                       /\ row.text = Written(q.row.text, q.text, rules[i].text)
    OBVIOUS
  <2>1. rules[i] \in Rule
    BY <1>2, Shapes DEF Gone
  <2>2. /\ Written(q.row.name, q.name, rules[i].name) \in Names
        /\ Written(q.row.text, q.text, rules[i].text) \in Texts
    BY <1>3, <2>1 DEF Written, Rule
  <2>3. row \in Rule
    BY <2>1, <2>2 DEF Rule
  <2>4. row # Nothing
    BY <1>2, <2>3, Shapes
  <2>. QED BY <2>1, <2>3, <2>4 DEF Rule
<1>. HIDE DEF row
<1>7. /\ rules' \in [RuleIds -> Rule \cup {Nothing}]
      /\ \A j \in RuleIds \ {i} : rules'[j] = rules[j]
      /\ Gone(i) => rules'[i] = rules[i]
      /\ ~Gone(i) => rules'[i] = row
  BY <1>1, <1>2, <1>3, <1>6 DEF TypeOK
<1>8. LiveRules' = LiveRules
  BY <1>3, <1>6, <1>7 DEF LiveRules, Gone
<1>9. \A j \in RuleIds : /\ rules'[j] = Nothing <=> rules[j] = Nothing
                         /\ rules[j] # Nothing => rules'[j].born = rules[j].born
  BY <1>2, <1>3, <1>6, <1>7, Shapes
<1>10. /\ \A o \in Requests : RequestOK(o)'
       /\ req' \in [Requests -> Request]
       /\ \A o \in Requests : req'[o].latest <= versionsMade
  BY <1>0, <1>1, <1>5, <1>7, CloseStep
<1>11. TypeOK'
  <2>1. \A o \in Requests : req'[o].latest <= versionsMade'
    BY <1>3, <1>5, <1>10 DEF Request
  <2>. QED BY <1>1, <1>2, <1>5, <1>7, <1>8, <1>10, <2>1 DEF TypeOK
<1>12. ASSUME NEW j \in RuleIds PROVE HistoryOK(j)'
  <2>1. CASE j # i
    BY <1>1, <1>5, <1>7, <2>1, HistoryKept DEF IInv
  <2>2. CASE j = i
    <3>1. HistoryOK(i) /\ raced' = raced
      BY <1>1, <1>3 DEF IInv
    <3>2. /\ versions'[v].no = q.latest + 1 /\ versions'[v].name = q.name
          /\ versions'[v].text = q.text /\ versions'[v].born = q.row.born
      BY <1>5
    <3>3. ASSUME i \notin raced
          PROVE  /\ q.latest = LatestOf(i) /\ rules'[i] # Nothing
                 /\ rules'[i].name = q.name /\ rules'[i].text = q.text
                 /\ rules'[i].born = q.row.born /\ rules[i].born = q.row.born
      <4>1. q.row = rules[i] /\ q.latest = LatestOf(i)
        BY <1>0, <1>1, <1>2, <3>3 DEF RequestOK
      <4>2. ~Gone(i)
        BY <1>2, <1>3, <4>1, Shapes
      <4>. QED BY <1>6, <1>7, <4>1, <4>2 DEF Written
    <3>4. \A u \in VersionsOf(i) : versions'[u] = versions[u]
      BY <1>5 DEF VersionsOf
    <3>5. HistoryOK(i)'
      BY <1>2, <1>3, <1>5, <1>11, <3>1, <3>2, <3>3, <3>4, HistoryGrows
    <3>. QED BY <2>2, <3>5
  <2>. QED BY <2>1, <2>2
<1>13. LinkIsLive'
  BY <1>1, <1>9, LinksKept
<1>14. PostgresKeepsIds'
  BY <1>1, <1>8, <1>9, <1>2, Shapes DEF IInv, PostgresKeepsIds
<1>. QED BY <1>10, <1>11, <1>12, <1>13, <1>14 DEF IInv

\* A delete commits: the rule, its versions, and what refers to it.
LEMMA DeleteStep ==
  ASSUME IInv, NEW r \in Requests, CommitDelete(r), ~Fail(r)
  PROVE  IInv'
<1>0. PICK i : i = req[r].rule
  OBVIOUS
<1>1. /\ req[r].op = "delete" /\ Close(r)
      /\ rules' = [rules EXCEPT ![i] = Nothing]
      /\ versions' = [v \in VersionIds |-> IF v \in VersionsOf(i) THEN Nothing ELSE versions[v]]
      /\ link' = [x \in Refs |-> IF link[x] # Nothing /\ link[x].id = i THEN Nothing ELSE link[x]]
      /\ UNCHANGED <<engine, rulesMade, versionsMade, raced>>
  BY <1>0 DEF CommitDelete
<1>2. TypeOK /\ RequestOK(r) /\ i \in RuleIds
  BY <1>0, <1>1 DEF IInv, RequestOK
<1>3. /\ rules' \in [RuleIds -> Rule \cup {Nothing}] /\ rules'[i] = Nothing
      /\ \A j \in RuleIds \ {i} : rules'[j] = rules[j]
  BY <1>1, <1>2 DEF TypeOK
<1>4. LiveRules' = LiveRules \ {i}
  BY <1>2, <1>3 DEF LiveRules
<1>5. versions' \in [VersionIds -> Version \cup {Nothing}]
  BY <1>1, <1>2 DEF TypeOK
<1>6. LiveVersions' = LiveVersions \ VersionsOf(i) /\ \A v \in LiveVersions' : versions'[v] = versions[v]
  BY <1>1 DEF LiveVersions, VersionsOf
<1>7. VersionsOf(i)' = {} /\ \A j : j # i => SameVersions(j)
  <2>1. VersionsOf(i)' = {}
    BY <1>6 DEF VersionsOf
  <2>2. ASSUME NEW j, j # i PROVE SameVersions(j)
    BY <1>6, <2>2 DEF VersionsOf, SameVersions
  <2>. QED BY <2>1, <2>2
<1>8. /\ \A o \in Requests : RequestOK(o)'
      /\ req' \in [Requests -> Request]
      /\ \A o \in Requests : req'[o].latest <= versionsMade
  BY <1>0, <1>1, <1>3, <1>7, CloseStep
<1>9. link' \in [Refs -> LinkedTo \cup {Nothing}]
  BY <1>1, <1>2 DEF TypeOK
<1>10. TypeOK'
  <2>1. LiveRules' \subseteq 1 .. rulesMade' /\ LiveVersions' \subseteq 1 .. versionsMade'
    BY <1>1, <1>2, <1>4, <1>6 DEF TypeOK
  <2>2. \A v \in LiveVersions' : versions'[v].no <= versionsMade'
    BY <1>1, <1>2, <1>6 DEF TypeOK
  <2>. QED BY <1>1, <1>2, <1>3, <1>5, <1>8, <1>9, <2>1, <2>2 DEF TypeOK
<1>11. HistoryOK(i)'
  <2>1. {versions[v].no : v \in VersionsOf(i)}' = {}
    BY <1>7
  <2>2. 1 .. 0 = {} /\ Cardinality(VersionsOf(i)') = 0
    BY <1>7, FS_EmptySet
  <2>. QED BY <1>7, <2>1, <2>2 DEF HistoryOK
<1>12. \A j \in RuleIds \ {i} : HistoryOK(j)'
  BY <1>1, <1>3, <1>7, HistoryKept DEF IInv
<1>13. LinkIsLive'
  <2>1. \A k \in RuleIds \ {i} : Gone(k)' <=> Gone(k)
    BY <1>4 DEF Gone
  <2>2. \A x \in Refs : link'[x] # Nothing => link'[x] = link[x] /\ link[x].id \in RuleIds \ {i}
    BY <1>1, <1>2 DEF TypeOK, LinkedTo
  <2>. QED BY <1>1, <1>3, <2>1, <2>2 DEF IInv, LinkIsLive
<1>14. PostgresKeepsIds'
  BY <1>1, <1>2, <1>3, <1>4, Shapes DEF IInv, PostgresKeepsIds
<1>. QED BY <1>8, <1>10, <1>11, <1>12, <1>13, <1>14 DEF IInv

\* The invariant holds at first.
LEMMA InitIInv == Init => IInv
<1>. SUFFICES ASSUME Init PROVE IInv
  OBVIOUS
<1>1. LiveRules = {} /\ LiveVersions = {} /\ \A i : VersionsOf(i) = {}
  BY DEF Init, LiveRules, LiveVersions, VersionsOf
<1>2. \A r \in Requests : req[r] = NoRequest
  BY DEF Init
<1>3. NoRequest \in Request /\ NoRequest.op = "none" /\ NoRequest.latest = 0
  BY DEF NoRequest, Request
<1>4. TypeOK
  BY <1>1, <1>2, <1>3, EnginesAssumption, BoundsAssumption DEF Init, TypeOK
<1>5. \A r \in Requests : RequestOK(r)
  BY <1>2, <1>3 DEF RequestOK
<1>6. \A i \in RuleIds : HistoryOK(i)
  <2>1. 1 .. 0 = {} /\ Cardinality({}) = 0
    BY FS_EmptySet
  <2>. QED BY <1>1, <2>1 DEF HistoryOK
<1>7. LinkIsLive /\ PostgresKeepsIds
  BY <1>1 DEF Init, LinkIsLive, PostgresKeepsIds
<1>. QED BY <1>4, <1>5, <1>6, <1>7 DEF IInv

\* No step breaks it.
LEMMA IInvStep == IInv /\ [Next]_vars => IInv'
<1>. SUFFICES ASSUME IInv, [Next]_vars PROVE IInv'
  OBVIOUS
<1>1. CASE UNCHANGED vars
  <2>1. UNCHANGED <<engine, rules, versions, link, req, rulesMade, versionsMade, raced>>
    BY <1>1 DEF vars
  <2>2. TypeOK' /\ LinkIsLive' /\ PostgresKeepsIds'
    BY <2>1 DEF IInv, TypeOK, LinkIsLive, PostgresKeepsIds, LiveRules, LiveVersions, Gone
  <2>3. \A j : SameVersions(j)
    BY <2>1 DEF SameVersions, VersionsOf, LiveVersions
  <2>4. \A j \in RuleIds : HistoryOK(j)'
    BY <2>1, <2>3, HistoryKept DEF IInv
  <2>5. \A r \in Requests : RequestOK(r)'
    <3>1. \A r \in Requests : LatestOf(req[r].rule)' = LatestOf(req[r].rule)
      BY <2>1 DEF LatestOf, VersionsOf, LiveVersions
    <3>. QED BY <2>1, <3>1 DEF IInv, RequestOK
  <2>. QED BY <2>2, <2>4, <2>5 DEF IInv
<1>2. ASSUME NEW r \in Requests, CommitUpdate(r) \/ CommitDelete(r)
      PROVE  IInv'
  <2>1. CASE Fail(r) /\ req[r].op # "none"
    BY <2>1, FailStep
  <2>2. CASE ~Fail(r)
    BY <1>2, <2>2, UpdateStep, DeleteStep
  <2>. QED BY <1>2, <2>1, <2>2 DEF CommitUpdate, CommitDelete
<1>. QED BY <1>1, <1>2, CreateStep, BeginAny, LookUpStep, CommitLinkStep DEF Next

\* Always.
LEMMA Invariance == Spec => []IInv
BY InitIInv, IInvStep, PTL DEF Spec

\* Whatever requests interleave, on either engine: unless two of them worked on a rule
\* at once, the snapshot in its newest version is the rule as it is.
THEOREM NewestIsRule == Spec => []NewestVersionIsRule
<1>1. IInv => NewestVersionIsRule
  BY DEF IInv, HistoryOK, NewestVersionIsRule, LiveRules
<1>. QED BY <1>1, Invariance, PTL

\* Ids of deleted rules are given out again on SQLite, yet no rule continues the history
\* of another, and its versions are numbered without a gap, unless two requests worked on
\* the id at once.
THEOREM OwnHistory == Spec => []HistoryIsItsOwn
<1>1. IInv => HistoryIsItsOwn
  BY DEF IInv, HistoryOK, HistoryIsItsOwn, LiveRules
<1>. QED BY <1>1, Invariance, PTL

\* Samples and queue items name a rule that exists and that was meant: on PostgreSQL
\* always, on SQLite unless two requests worked on the id at once.
THEOREM LinksAreLive == Spec => []LinkIsLive
<1>1. IInv => LinkIsLive
  BY DEF IInv
<1>. QED BY <1>1, Invariance, PTL
=============================================================================
