------------------------------- MODULE Rules -------------------------------
(***************************************************************************)
(* Rules, their versions, and what refers to them                          *)
(* (services/domain_service.py, rules_service.py, sample_service.py and    *)
(* trace_service.py over the tables of models/domain.py).                  *)
(*                                                                         *)
(* As in Samples, a request reads, decides and commits, other requests run *)
(* in between, and only what differs from what was read is written.  On    *)
(* SQLite no foreign key holds and the id after the largest one in use is  *)
(* given out again; on PostgreSQL ids are new and foreign keys hold.       *)
(*                                                                         *)
(* A rule is its name, which is unique, and its text, the other fields.    *)
(***************************************************************************)
EXTENDS Integers, FiniteSetsExt

CONSTANTS
  Requests,    \* sessions open at a time
  Engines,     \* a subset of {"sqlite", "postgresql"}
  Names, Texts,
  Samples,     \* samples that may be created
  Items,       \* training queue items
  Nothing,
  MaxRules, MaxVersions, MaxCalls \* bounds: rules and versions created, requests

ASSUME EnginesAssumption == Engines \subseteq {"sqlite", "postgresql"}
ASSUME BoundsAssumption == MaxRules \in Nat /\ MaxVersions \in Nat /\ MaxCalls \in Nat
ASSUME RefsAssumption == Samples \cap Items = {}

VARIABLES
  engine,
  rules,    \* the row of each id, or Nothing
  versions, \* the row of each version id, or Nothing
  link,     \* rule_id of a sample, linked_rule_id of an item; Nothing for None
  made,     \* rule_version_id of each sample created, else Nothing
  req,      \* what each open request has read
  rulesMade, versionsMade, \* rules and versions created (history)
  raced,    \* ids of rules that two open requests worked on at once (history)
  calls

vars == <<engine, rules, versions, link, made, req, rulesMade, versionsMade, raced, calls>>
tables == <<rules, versions, link, made, rulesMade, versionsMade>>

RuleIds    == 1 .. MaxRules
VersionIds == 1 .. MaxVersions
Refs       == Samples \cup Items

Rule     == [name : Names, text : Texts, born : Nat]
Version  == [rule : RuleIds, no : Nat, name : Names, text : Texts, born : Nat]
LinkedTo == [id : RuleIds, born : Nat]

ASSUME NothingAssumption == Nothing \notin Rule \cup Version \cup LinkedTo

LiveRules    == {i \in RuleIds : rules[i] # Nothing}
LiveVersions == {v \in VersionIds : versions[v] # Nothing}
VersionsOf(i) == {v \in LiveVersions : versions[v].rule = i}

\* born: which creation a row is, or a reference was made to (history).
Ref(id, born) == [id |-> id, born |-> born]

NoRequest == [op |-> "none", step |-> "begun", rule |-> 0, row |-> Nothing, name |-> Nothing,
              text |-> Nothing, ref |-> Nothing, latest |-> 0, version |-> Nothing]

Init ==
  /\ engine \in Engines
  /\ rules = [i \in RuleIds |-> Nothing]
  /\ versions = [v \in VersionIds |-> Nothing]
  /\ link = [x \in Refs |-> Nothing]
  /\ made = [s \in Samples |-> Nothing]
  /\ req = [r \in Requests |-> NoRequest]
  /\ rulesMade = 0 /\ versionsMade = 0
  /\ raced = {}
  /\ calls = 0

-----------------------------------------------------------------------------
NewId(inUse, born) == IF engine = "sqlite" THEN Max(inUse \cup {0}) + 1 ELSE born

LatestOf(i) == Max({versions[v].no : v \in VersionsOf(i)} \cup {0})

\* The snapshot is what the request holds of the rule, not what the row says.
AddVersion(i, no, name, text, born) ==
  LET v == NewId(LiveVersions, versionsMade + 1)
  IN  /\ versionsMade < MaxVersions
      /\ versionsMade' = versionsMade + 1
      /\ versions' = [versions EXCEPT ![v] =
           [rule |-> i, no |-> no, name |-> name, text |-> text, born |-> born]]

\* The rule is inserted before its versions are looked up: in one transaction, and
\* with a name that no other rule has, or not at all.
CreateRule ==
  \E name \in Names, text \in Texts :
    LET i == NewId(LiveRules, rulesMade + 1)
    IN  /\ calls < MaxCalls /\ rulesMade < MaxRules
        /\ \A k \in LiveRules : rules[k].name # name
        /\ rules' = [rules EXCEPT ![i] = [name |-> name, text |-> text, born |-> rulesMade + 1]]
        /\ AddVersion(i, LatestOf(i) + 1, name, text, rulesMade + 1)
        /\ rulesMade' = rulesMade + 1
        /\ calls' = calls + 1
        /\ UNCHANGED <<engine, link, made, req, raced>>

-----------------------------------------------------------------------------
(* Beginning: the rule is read.  A request for one that is not there       *)
(* answers 404 and is no step.                                             *)

Begin(r, i, q) ==
  /\ i \in LiveRules
  /\ req[r] = NoRequest /\ calls < MaxCalls
  /\ calls' = calls + 1
  /\ req' = [req EXCEPT ![r] = [q EXCEPT !.rule = i, !.row = rules[i]]]
  /\ raced' = IF \E o \in Requests : req[o].rule = i THEN raced \cup {i} ELSE raced
  /\ UNCHANGED <<engine, tables>>

BeginUpdate(r, i, name, text) ==
  Begin(r, i, [NoRequest EXCEPT !.op = "update", !.name = name, !.text = text])

BeginVersion(r, i) ==
  i \in LiveRules /\ Begin(r, i, [NoRequest EXCEPT !.op = "version", !.name = rules[i].name,
                                                   !.text = rules[i].text])

BeginDelete(r, i) == Begin(r, i, [NoRequest EXCEPT !.op = "delete", !.step = "looked"])

\* create_sample names the rule, and approve_sample, send_sample_to_training and
\* create_training_queue_item may name another later.
BeginSample(r, i, s) ==
  made[s] = Nothing /\ Begin(r, i, [NoRequest EXCEPT !.op = "sample", !.ref = s])

BeginLink(r, i, x) ==
  /\ x \in Samples => made[x] # Nothing
  /\ Begin(r, i, [NoRequest EXCEPT !.op = "link", !.step = "looked", !.ref = x])

\* The newest version, read by the next statement: its number by create_rule_version,
\* its id by _get_rule_version_id.
LookUpLatest(r) ==
  LET q      == req[r]
      newest == {v \in VersionsOf(q.rule) : versions[v].no = LatestOf(q.rule)}
  IN  /\ q.op # "none" /\ q.step = "begun"
      /\ req' = [req EXCEPT ![r] =
           [q EXCEPT !.step = "looked", !.latest = LatestOf(q.rule),
                     !.version = IF newest = {} THEN Nothing ELSE CHOOSE v \in newest : TRUE]]
      /\ UNCHANGED <<engine, tables, raced, calls>>

-----------------------------------------------------------------------------
(* Committing.                                                             *)

Close(r) == req' = [req EXCEPT ![r] = NoRequest]
Fail(r)  == Close(r) /\ UNCHANGED <<engine, tables, raced, calls>>

Written(read, new, now) == IF read = new THEN now ELSE new
Gone(i) == i \notin LiveRules

\* An update fails on a name or a version number in use, on a row that is gone if
\* it has something to write, and on PostgreSQL on any rule that is gone.
UpdateFails(q) ==
  \/ \E v \in VersionsOf(q.rule) : versions[v].no = q.latest + 1
  \/ q.name # q.row.name /\ \E k \in LiveRules \ {q.rule} : rules[k].name = q.name
  \/ Gone(q.rule) /\ (engine = "postgresql" \/ <<q.name, q.text>> # <<q.row.name, q.row.text>>)

\* Bug: the snapshot is taken before the fields are set.
CommitUpdateAfterSnapshot(r) ==
  LET q == req[r]
  IN  /\ q.op \in {"update", "version"} /\ q.step = "looked"
      /\ IF UpdateFails(q) \/ Gone(q.rule) THEN Fail(r)
         ELSE /\ rules' = [rules EXCEPT ![q.rule] = [@ EXCEPT !.name = q.name, !.text = q.text]]
              /\ AddVersion(q.rule, q.latest + 1, q.row.name, q.row.text, q.row.born)
              /\ Close(r)
              /\ UNCHANGED <<engine, link, made, rulesMade, raced, calls>>

CommitUpdate(r) ==
  LET q == req[r]
  IN  /\ q.op \in {"update", "version"} /\ q.step = "looked"
      /\ IF UpdateFails(q) THEN Fail(r)
         ELSE /\ rules' = IF Gone(q.rule) THEN rules
                          ELSE [rules EXCEPT ![q.rule] =
                                  [@ EXCEPT !.name = Written(q.row.name, q.name, rules[q.rule].name),
                                            !.text = Written(q.row.text, q.text, rules[q.rule].text)]]
              /\ AddVersion(q.rule, q.latest + 1, q.name, q.text, q.row.born)
              /\ Close(r)
              /\ UNCHANGED <<engine, link, made, rulesMade, raced, calls>>

\* Bug: what refers to the rule is left as it is.
CommitDeleteLeaving(r) ==
  LET q == req[r]
  IN  /\ q.op = "delete"
      /\ IF engine = "postgresql" /\ \E s \in Samples : made[s] # Nothing THEN Fail(r)
         ELSE /\ rules' = [rules EXCEPT ![q.rule] = Nothing]
              /\ versions' = [v \in VersionIds |-> IF v \in VersionsOf(q.rule) THEN Nothing ELSE versions[v]]
              /\ Close(r)
              /\ UNCHANGED <<engine, link, made, rulesMade, versionsMade, raced, calls>>

\* Bug: the versions of the rule are left as they are.
CommitDeleteKeeping(r) ==
  LET q == req[r]
  IN  /\ q.op = "delete"
      /\ rules' = [rules EXCEPT ![q.rule] = Nothing]
      /\ link' = [x \in Refs |-> IF link[x] # Nothing /\ link[x].id = q.rule THEN Nothing ELSE link[x]]
      /\ Close(r)
      /\ UNCHANGED <<engine, versions, made, rulesMade, versionsMade, raced, calls>>

\* References to the rule are set to None and its versions deleted; the samples
\* keep the ids of the versions they were made with.  These, and the audit entries
\* of the samples, make PostgreSQL refuse.
CommitDelete(r) ==
  LET q       == req[r]
      refused == \E s \in Samples : made[s] # Nothing /\ made[s].id \in VersionsOf(q.rule)
  IN  /\ q.op = "delete"
      /\ IF engine = "postgresql" /\ refused THEN Fail(r)
         ELSE /\ rules' = [rules EXCEPT ![q.rule] = Nothing]
              /\ versions' = [v \in VersionIds |-> IF v \in VersionsOf(q.rule) THEN Nothing ELSE versions[v]]
              /\ link' = [x \in Refs |-> IF link[x] # Nothing /\ link[x].id = q.rule THEN Nothing ELSE link[x]]
              /\ Close(r)
              /\ UNCHANGED <<engine, made, rulesMade, versionsMade, raced, calls>>

\* The version may be deleted, and its id used again, since it was looked up.
CommitSample(r) ==
  LET q       == req[r]
      version == IF q.version = Nothing THEN Nothing
                 ELSE Ref(q.version, q.row.born)
  IN  /\ q.op = "sample" /\ q.step = "looked"
      /\ IF made[q.ref] # Nothing \/ (engine = "postgresql" /\ (Gone(q.rule) \/ q.version \notin LiveVersions))
         THEN Fail(r)
         ELSE /\ link' = [link EXCEPT ![q.ref] = Ref(q.rule, q.row.born)]
              /\ made' = [made EXCEPT ![q.ref] = version]
              /\ Close(r)
              /\ UNCHANGED <<engine, rules, versions, rulesMade, versionsMade, raced, calls>>

CommitLink(r) ==
  LET q == req[r]
  IN  /\ q.op = "link"
      /\ IF engine = "postgresql" /\ Gone(q.rule) THEN Fail(r)
         ELSE /\ link' = [link EXCEPT ![q.ref] = Ref(q.rule, q.row.born)]
              /\ Close(r)
              /\ UNCHANGED <<engine, rules, versions, made, rulesMade, versionsMade, raced, calls>>

-----------------------------------------------------------------------------
Next ==
  \/ CreateRule
  \/ \E r \in Requests, i \in RuleIds :
       \/ \E name \in Names, text \in Texts : BeginUpdate(r, i, name, text)
       \/ BeginVersion(r, i)
       \/ BeginDelete(r, i)
       \/ \E s \in Samples : BeginSample(r, i, s)
       \/ \E x \in Refs : BeginLink(r, i, x)
  \/ \E r \in Requests : \/ LookUpLatest(r) \/ CommitUpdate(r) \/ CommitDelete(r)
                         \/ CommitSample(r) \/ CommitLink(r)

Spec == Init /\ [][Next]_vars

-----------------------------------------------------------------------------
\* The snapshot in the newest version of a rule is the rule as it is, unless two
\* requests worked on the rule at once (update_rule, create_rule_version_from_rule).
NewestVersionIsRule ==
  \A i \in LiveRules \ raced : \A v \in VersionsOf(i) :
    versions[v].no = LatestOf(i) => <<versions[v].name, versions[v].text>> = <<rules[i].name, rules[i].text>>

\* The versions of a rule are its own and numbered from one without a gap: a rule
\* that was given the id of a deleted one does not continue its history, unless two
\* requests worked on that id at once (create_rule_version, delete_rule).
HistoryIsItsOwn ==
  \A i \in LiveRules \ raced :
    /\ {versions[v].no : v \in VersionsOf(i)} = 1 .. Cardinality(VersionsOf(i))
    /\ \A v \in VersionsOf(i) : versions[v].born = rules[i].born

\* A sample or queue item that names a rule names the one that was chosen, and it
\* exists: on SQLite, unless two requests worked on that id at once (delete_rule).
LinkIsLive ==
  \A x \in Refs :
    link[x] # Nothing /\ (Gone(link[x].id) \/ rules[link[x].id].born # link[x].born)
    => engine = "sqlite" /\ link[x].id \in raced

-----------------------------------------------------------------------------
(* Why they hold: the inductive invariant of RulesProofs.                  *)

Request ==
  [op : {"none", "update", "version", "delete", "sample", "link"}, step : {"begun", "looked"},
   rule : RuleIds \cup {0}, row : Rule \cup {Nothing}, name : Names \cup {Nothing},
   text : Texts \cup {Nothing}, ref : Refs \cup {Nothing}, latest : Nat,
   version : VersionIds \cup {Nothing}]

TypeOK ==
  /\ engine \in {"sqlite", "postgresql"}
  /\ rules \in [RuleIds -> Rule \cup {Nothing}] /\ rulesMade \in 0 .. MaxRules
  /\ versions \in [VersionIds -> Version \cup {Nothing}] /\ versionsMade \in 0 .. MaxVersions
  /\ link \in [Refs -> LinkedTo \cup {Nothing}]
  /\ req \in [Requests -> Request]
  /\ LiveRules \subseteq 1 .. rulesMade /\ LiveVersions \subseteq 1 .. versionsMade
  /\ \A v \in LiveVersions : versions[v].no <= versionsMade
  /\ \A r \in Requests : req[r].latest <= versionsMade

\* What an open request has read of its rule is what the rule says, and nobody else is
\* at work on it, unless its id has been raced for.
RequestOK(r) ==
  LET q       == req[r]
      updates == q.op \in {"update", "version"}
  IN  IF q.op = "none" THEN q = NoRequest
      ELSE /\ q.rule \in RuleIds /\ q.row \in Rule
           /\ updates => q.name \in Names /\ q.text \in Texts
           /\ q.op \in {"sample", "link"} => q.ref \in Refs
           /\ engine = "postgresql" => q.row.born = q.rule
           /\ q.rule \notin raced =>
                /\ q.row = rules[q.rule]
                /\ \A o \in Requests \ {r} : req[o].rule # q.rule
                /\ updates /\ q.step = "looked" => q.latest = LatestOf(q.rule)

\* An id that was never raced for has the versions of the rule it stands for now.
HistoryOK(i) ==
  i \notin raced =>
    /\ {versions[v].no : v \in VersionsOf(i)} = 1 .. Cardinality(VersionsOf(i))
    /\ Gone(i) => VersionsOf(i) = {}
    /\ \A v \in VersionsOf(i) :
         /\ versions[v].born = rules[i].born
         /\ versions[v].no = LatestOf(i)
              => versions[v].name = rules[i].name /\ versions[v].text = rules[i].text

PostgresKeepsIds == engine = "postgresql" => \A i \in LiveRules : rules[i].born = i

IInv ==
  /\ TypeOK
  /\ \A r \in Requests : RequestOK(r)
  /\ \A i \in RuleIds : HistoryOK(i)
  /\ LinkIsLive
  /\ PostgresKeepsIds

=============================================================================
