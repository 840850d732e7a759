-------------------------- MODULE QuoteTasksProofs --------------------------
(***************************************************************************)
(* Proofs about QuoteTasks, for any workers, stages served, quotes and     *)
(* bounds: that evidence and decision survive and agree, what dying        *)
(* processes can cost and, with one worker per stage, that a task is       *)
(* worked on by one process at a time and lives the life of QuoteTaskLife. *)
(***************************************************************************)
EXTENDS QuoteTasks, FiniteSetTheorems, TLAPS

\* What the stages are followed by.
LEMMA NextStageValues ==
  /\ NextStage["queued"] = "evidence_ready"
  /\ NextStage["evidence_ready"] = "decision_ready"
  /\ NextStage["decision_ready"] = "completed"
  /\ \A s \in Stages : NextStage[s] \in RowStage
BY DEF NextStage, Stages, RowStage

\* The values a record of each kind starts with.
LEMMA InitialValues ==
  /\ NoPayload \in Payload
  /\ NoRow \in Row
  /\ NewRow \in Row
  /\ NoSnapshot \in Snapshot
  /\ NoDecision \in DecisionRow
  /\ IdleJob \in Job
BY DEF NoPayload, Payload, NoRow, Row, NewRow, NoSnapshot, Snapshot, NoDecision,
       DecisionRow, IdleJob, Job, RowStage, RowStatus, Stages, PC

LEMMA TypeInit == Init => TypeOK
BY InitialValues, BoundsAssumption DEF Init, TypeOK

-----------------------------------------------------------------------------
(* Type correctness, action by action.                                     *)

LEMMA TypePick ==
  ASSUME TypeOK, NEW w \in Workers, Pick(w)
  PROVE  TypeOK'
<1>1. ASSUME NEW s \in Stages, NEW t \in TaskIds, Take(w, s, t)
      PROVE  job' \in [Workers -> Job]
  <2>1. SnapshotOf(tasks[t]) \in Snapshot
    BY DEF TypeOK, SnapshotOf, Snapshot, Row
  <2> DEFINE J == [IdleJob EXCEPT !.pc = "claim_read", !.stage = s,
                                  !.task = t, !.snap = SnapshotOf(tasks[t])]
  <2>2. J \in Job
    BY <2>1, InitialValues DEF Job, PC, IdleJob
  <2>3. job' = [job EXCEPT ![w] = J]
    BY <1>1 DEF Take
  <2> HIDE DEF J
  <2> QED BY <2>2, <2>3 DEF TypeOK
<1>2. ASSUME NEW s \in Stages, RunStage(w, s) PROVE TypeOK'
  BY <1>1, <1>2 DEF RunStage, TypeOK
<1>3. ASSUME NEW s \in Stages, NEW t \in TaskIds, RunStageOfTask(w, s, t) PROVE TypeOK'
  BY <1>1, <1>3 DEF RunStageOfTask, TypeOK
<1>4. CASE RunNext(w)
  <2>1. [job[w] EXCEPT !.pc = "scan", !.stage = "queued"] \in Job
    BY DEF TypeOK, Job, PC, Stages
  <2>2. job' = [job EXCEPT ![w] = [job[w] EXCEPT !.pc = "scan", !.stage = "queued"]]
    BY <1>4 DEF RunNext, TypeOK
  <2> QED BY <1>4, <2>1, <2>2 DEF RunNext, TypeOK
<1>5. CASE ScanFinds(w)
  <2>1. job[w].stage \in Stages
    BY DEF TypeOK, Job
  <2> QED BY <1>1, <1>5, <2>1 DEF ScanFinds, TypeOK
<1>6. CASE ScanMovesOn(w)
  <2> DEFINE J == IF job[w].stage = "decision_ready" THEN IdleJob
                  ELSE [job[w] EXCEPT !.stage = NextStage[job[w].stage]]
  <2>1. J \in Job
    BY InitialValues, NextStageValues DEF TypeOK, Job, Stages
  <2>2. job' = [job EXCEPT ![w] = J]
    BY <1>6 DEF ScanMovesOn, TypeOK
  <2> HIDE DEF J
  <2> QED BY <1>6, <2>1, <2>2 DEF ScanMovesOn, TypeOK
<1> QED BY <1>2, <1>3, <1>4, <1>5, <1>6 DEF Pick

LEMMA TypeWork ==
  ASSUME TypeOK, NEW w \in Workers, Work(w), job[w].task \in TaskIds
  PROVE  TypeOK'
<1>1. ASSUME NEW m \in {"stage", "completed", "failed"}, NEW p \in Payload, Outcome(w, m, p)
      PROVE  job' \in [Workers -> Job]
  <2> DEFINE J == [job[w] EXCEPT !.pc = "mark_read", !.mark = m, !.payload = p,
                                 !.snap = NoSnapshot]
  <2>1. J \in Job
    BY InitialValues DEF TypeOK, Job, PC
  <2>2. job' = [job EXCEPT ![w] = J]
    BY <1>1 DEF Outcome, TypeOK
  <2> HIDE DEF J
  <2> QED BY <2>1, <2>2 DEF TypeOK
<1>2. job[w].snap.evidence \in Payload /\ job[w].snap.decision \in DecisionIds \cup {0}
  BY DEF TypeOK, Job, Snapshot
<1>3. CASE BuildEvidence(w)
  <2>1. \A q \in Quotes : [quote |-> q, decision |-> 0] \in Payload
    BY DEF Payload
  <2>2. job' \in [Workers -> Job]
    BY <1>1, <1>3, <2>1, InitialValues DEF BuildEvidence
  <2> QED BY <1>3, <2>2 DEF BuildEvidence, TypeOK
<1>4. CASE WriteDecision(w)
  <2>1. CASE EvidenceMissing(w)
    <3>1. job' \in [Workers -> Job] /\ UNCHANGED <<decisions, decided>>
      BY <1>1, <1>4, <2>1, InitialValues DEF WriteDecision
    <3> QED BY <1>4, <3>1 DEF WriteDecision, TypeOK
  <2>2. CASE ~EvidenceMissing(w)
    <3>1. decided + 1 \in DecisionIds
      BY <1>4, <2>2, BoundsAssumption DEF WriteDecision, TypeOK, DecisionIds
    <3>2. [job[w].snap.evidence EXCEPT !.decision = decided + 1] \in Payload
      BY <1>2, <3>1 DEF Payload
    <3>3. job' \in [Workers -> Job]
      BY <1>1, <1>4, <2>2, <3>2 DEF WriteDecision
    <3>4. [task |-> job[w].task, quote |-> job[w].snap.evidence.quote] \in DecisionRow
      BY <1>2 DEF DecisionRow, Payload
    <3>5. decided' \in 0 .. MaxDecisions /\ decisions' \in [DecisionIds -> DecisionRow]
      BY <1>4, <2>2, <3>1, <3>4, BoundsAssumption DEF WriteDecision, TypeOK, DecisionIds
    <3> QED BY <1>4, <3>3, <3>5 DEF WriteDecision, TypeOK
  <2> QED BY <2>1, <2>2
<1>5. CASE BuildReply(w)
  <2>1. [job[w].snap.evidence EXCEPT
           !.decision = IF @ # 0 THEN @ ELSE job[w].snap.decision] \in Payload
    BY <1>2 DEF Payload
  <2>2. job' \in [Workers -> Job]
    BY <1>1, <1>5, <2>1, InitialValues DEF BuildReply
  <2> QED BY <1>5, <2>2 DEF BuildReply, TypeOK
<1> QED BY <1>3, <1>4, <1>5 DEF Work

\* Reading from_stage, logging and ending a call change one job and the log.
LEMMA TypeReadLog ==
  ASSUME TypeOK, NEW w \in Workers, job[w].task \in TaskIds,
         ClaimRead(w) \/ MarkRead(w) \/ ClaimLog(w) \/ MarkLog(w)
  PROVE  TypeOK'
<1>1. ASSUME NEW here, NEW next \in PC, ReadStage(w, here, next)
      PROVE  TypeOK'
  <2> DEFINE J == [job[w] EXCEPT !.pc = next, !.from = tasks[job[w].task].stage]
  <2>1. J \in Job
    BY DEF TypeOK, Job, Row
  <2>2. job' = [job EXCEPT ![w] = J]
    BY <1>1 DEF ReadStage, TypeOK
  <2> HIDE DEF J
  <2> QED BY <1>1, <2>1, <2>2 DEF ReadStage, TypeOK
<1>2. ASSUME NEW to \in RowStage, AppendEvent(job[w].task, job[w].from, to)
      PROVE  logged' \in [TaskIds -> SUBSET Event]
  <2>1. [from |-> job[w].from, to |-> to] \in Event
    BY DEF TypeOK, Job, Event
  <2> QED BY <1>2, <2>1 DEF AppendEvent, TypeOK
<1>3. CASE ClaimLog(w)
  <2>1. job[w].stage \in RowStage
    BY DEF TypeOK, Job, RowStage
  <2> DEFINE J == [job[w] EXCEPT !.pc = "work", !.from = "none"]
  <2>2. J \in Job
    BY DEF TypeOK, Job, PC, RowStage
  <2>3. job' = [job EXCEPT ![w] = J]
    BY <1>3 DEF ClaimLog, TypeOK
  <2> HIDE DEF J
  <2> QED BY <1>2, <1>3, <2>1, <2>2, <2>3 DEF ClaimLog, TypeOK
<1>4. CASE MarkLog(w)
  <2>1. (IF job[w].mark = "failed" THEN "failed" ELSE NextStage[job[w].stage]) \in RowStage
    BY NextStageValues DEF TypeOK, Job, RowStage
  <2> QED BY <1>2, <1>4, <2>1, InitialValues DEF MarkLog, TypeOK
<1> QED BY <1>1, <1>3, <1>4 DEF ClaimRead, MarkRead, PC

\* The four UPDATEs of a task row.
LEMMA TypeUpdate ==
  ASSUME TypeOK, NEW w \in Workers, job[w].task \in TaskIds,
         ClaimWrite(w) \/ MarkTaskStage(w) \/ MarkTaskCompleted(w) \/ MarkTaskFailed(w)
  PROVE  TypeOK'
<1>1. ASSUME NEW row \in Row, Marked(w, row)
      PROVE  TypeOK'
  <2>1. [job[w] EXCEPT !.pc = "mark_log"] \in Job
    BY DEF TypeOK, Job, PC
  <2>2. job' = [job EXCEPT ![w] = [job[w] EXCEPT !.pc = "mark_log"]]
    BY <1>1 DEF Marked, TypeOK
  <2> QED BY <1>1, <2>1, <2>2 DEF Marked, TypeOK
<1> DEFINE old == tasks[job[w].task]
<1>2. old \in Row /\ job[w].payload \in Payload /\ job[w].stage \in Stages
  BY DEF TypeOK, Job
<1>3. CASE ClaimWrite(w)
  <2>1. [old EXCEPT !.status = "running", !.stage = job[w].stage] \in Row
    BY <1>2 DEF Row, RowStatus, RowStage
  <2>2. tasks' = [tasks EXCEPT ![job[w].task] =
                    [old EXCEPT !.status = "running", !.stage = job[w].stage]]
    BY <1>3 DEF ClaimWrite, TypeOK
  <2>3. [job[w] EXCEPT !.pc = "claim_log"] \in Job
    BY DEF TypeOK, Job, PC
  <2>4. job' = [job EXCEPT ![w] = [job[w] EXCEPT !.pc = "claim_log"]]
    BY <1>3 DEF ClaimWrite, TypeOK
  <2> QED BY <1>3, <2>1, <2>2, <2>3, <2>4 DEF ClaimWrite, TypeOK
<1>4. CASE MarkTaskStage(w)
  <2>1. AdvancedRow(old, job[w].stage, job[w].payload) \in Row
    BY <1>2, NextStageValues DEF AdvancedRow, Row, RowStatus, Payload
  <2> QED BY <1>1, <1>4, <2>1 DEF MarkTaskStage
<1>5. CASE MarkTaskCompleted(w)
  <2>1. CompletedRow(old, job[w].payload) \in Row
    BY <1>2 DEF CompletedRow, Row, RowStatus, RowStage, Payload
  <2> QED BY <1>1, <1>5, <2>1 DEF MarkTaskCompleted
<1>6. CASE MarkTaskFailed(w)
  <2>1. FailedRow(old) \in Row
    BY <1>2, InitialValues DEF FailedRow, Row, RowStatus, RowStage
  <2> QED BY <1>1, <1>6, <2>1 DEF MarkTaskFailed
<1> QED BY <1>3, <1>4, <1>5, <1>6

\* Enqueueing, and processes that die.
LEMMA TypeEnvironment ==
  ASSUME TypeOK,
         \/ Enqueue
         \/ \E t \in TaskIds : LogEnqueue(t) \/ EnqueueCrash(t)
         \/ \E w \in Workers : Crash(w)
  PROVE  TypeOK'
<1>1. CASE Enqueue
  <2>1. inserted' \in 0 .. MaxTasks /\ enqueuing' \subseteq 1 .. inserted'
    BY <1>1, BoundsAssumption DEF Enqueue, TypeOK
  <2>2. tasks' \in [TaskIds -> Row]
    BY <1>1, InitialValues DEF Enqueue, TypeOK
  <2> QED BY <1>1, <2>1, <2>2 DEF Enqueue, TypeOK
<1>2. ASSUME NEW t \in TaskIds, LogEnqueue(t) PROVE TypeOK'
  <2>1. [from |-> "none", to |-> "queued"] \in Event
    BY DEF Event, RowStage, Stages
  <2> QED BY <1>2, <2>1 DEF LogEnqueue, AppendEvent, TypeOK
<1>3. ASSUME NEW t \in TaskIds, EnqueueCrash(t) PROVE TypeOK'
  BY <1>3, BoundsAssumption DEF EnqueueCrash, TypeOK
<1>4. ASSUME NEW w \in Workers, Crash(w) PROVE TypeOK'
  BY <1>4, InitialValues, BoundsAssumption DEF Crash, TypeOK
<1> QED BY <1>1, <1>2, <1>3, <1>4

-----------------------------------------------------------------------------
(* The inductive invariant.  Most of it survives a step because the tables *)
(* only grow: rows and decisions are added, evidence and decision ids are  *)
(* never taken back.                                                       *)

Grows ==
  /\ inserted' \in Nat /\ inserted <= inserted'
  /\ \A t, d : DecidedFor(t, d) => DecidedFor(t, d)' /\ decisions'[d] = decisions[d]
  /\ \A t \in 1 .. inserted :
       /\ tasks[t].evidence.quote # NoQuote => tasks'[t].evidence.quote # NoQuote
       /\ tasks[t].decision # 0 => tasks'[t].decision # 0

LEMMA SameTablesGrow ==
  ASSUME TypeOK, UNCHANGED <<tasks, inserted, decisions, decided>>
  PROVE  Grows
BY DEF Grows, DecidedFor, TypeOK

\* A job that a step does not touch stays right.
LEMMA JobKept ==
  ASSUME TypeOK, Grows, NEW v \in Workers, JobOK(v), job'[v] = job[v]
  PROVE  JobOK(v)'
<1>1. job[v].task \in 1 .. inserted => job[v].task \in 1 .. inserted'
  BY DEF Grows, TypeOK
<1>2. \A t, e : PayloadOK(t, e) =>
        (e.decision # 0 => DecidedFor(t, e.decision)' /\ decisions'[e.decision].quote = e.quote)
  BY DEF Grows, PayloadOK
<1>3. CASE ~Busy(v)
  BY <1>3 DEF JobOK, Busy
<1>4. CASE Busy(v)
  <2>1. job[v].task \in 1 .. inserted
    BY <1>4 DEF JobOK
  <2>2. SnapshotOK(v) => SnapshotOK(v)'
    BY <1>2, <2>1 DEF SnapshotOK, PayloadOK, Grows
  <2>3. OutcomeOK(v) => OutcomeOK(v)'
    BY <1>2, <2>1 DEF OutcomeOK, PayloadOK, Grows
  <2> QED BY <1>1, <2>1, <2>2, <2>3 DEF JobOK, Busy
<1> QED BY <1>3, <1>4

\* So does a row.
LEMMA RowKept ==
  ASSUME TypeOK, Grows, NEW t \in TaskIds, RowOK(t), tasks'[t] = tasks[t]
  PROVE  RowOK(t)'
<1>1. t > inserted' => t > inserted
  BY DEF Grows, TypeOK, TaskIds
<1>2. \A e : PayloadOK(t, e) =>
        (e.decision # 0 => DecidedFor(t, e.decision)' /\ decisions'[e.decision].quote = e.quote)
  BY DEF Grows, PayloadOK
<1> QED BY <1>1, <1>2 DEF RowOK, PayloadOK, Grows

LEMMA InitIInv == Init => IInv
<1> SUFFICES ASSUME Init PROVE IInv
  OBVIOUS
<1>1. TypeOK
  BY TypeInit
<1>2. ASSUME NEW t \in TaskIds PROVE RowOK(t)
  BY DEF Init, RowOK, NoRow, NoPayload, PayloadOK
<1>3. ASSUME NEW w \in Workers PROVE JobOK(w)
  BY DEF Init, JobOK, IdleJob, Busy
<1> QED BY <1>1, <1>2, <1>3 DEF IInv

\* A step of worker w on tables that only grow: the rows it leaves alone and
\* the jobs of the others need no further argument.
LEMMA WorkerStep ==
  ASSUME IInv, TypeOK', Grows, NEW w \in Workers, NEW t \in TaskIds,
         \A v \in Workers \ {w} : job'[v] = job[v],
         \A u \in TaskIds \ {t} : tasks'[u] = tasks[u],
         JobOK(w)', RowOK(t)'
  PROVE  IInv'
<1>1. \A v \in Workers : JobOK(v)'
  BY JobKept DEF IInv
<1>2. \A u \in TaskIds : RowOK(u)'
  BY RowKept DEF IInv
<1> QED BY <1>1, <1>2 DEF IInv

\* The same, when no row changes.
LEMMA WorkerStepNoRow ==
  ASSUME IInv, TypeOK', Grows, NEW w \in Workers,
         \A v \in Workers \ {w} : job'[v] = job[v], tasks' = tasks, JobOK(w)'
  PROVE  IInv'
<1>1. \A v \in Workers : JobOK(v)'
  BY JobKept DEF IInv
<1>2. \A u \in TaskIds : RowOK(u)'
  BY RowKept DEF IInv
<1> QED BY <1>1, <1>2 DEF IInv

LEMMA IInvPick ==
  ASSUME IInv, NEW w \in Workers, Pick(w)
  PROVE  IInv'
<1> USE DEF IInv
<1>1. TypeOK'
  BY TypePick
<1>2. Grows /\ tasks' = tasks /\ inserted' = inserted
  <2>1. UNCHANGED <<tasks, inserted, decisions, decided>>
    BY DEF Pick, RunStage, RunStageOfTask, RunNext, ScanFinds, ScanMovesOn
  <2> QED BY <2>1, SameTablesGrow
<1>3. \A v \in Workers \ {w} : job'[v] = job[v]
  BY DEF Pick, RunStage, RunStageOfTask, RunNext, ScanFinds, ScanMovesOn, Take, TypeOK
<1>4. ASSUME NEW s \in Stages, NEW t \in TaskIds, t \in Runnable(s), Take(w, s, t)
      PROVE  JobOK(w)'
  <2>1. tasks[t].stage = s /\ RowOK(t) /\ tasks[t] \in Row
    BY <1>4 DEF Runnable, TypeOK
  <2>2. t \in 1 .. inserted
    BY <1>4, <2>1 DEF RowOK, NoRow, Stages, TypeOK, TaskIds
  <2>3. job'[w] = [IdleJob EXCEPT !.pc = "claim_read", !.stage = s,
                                  !.task = t, !.snap = SnapshotOf(tasks[t])]
    BY <1>4 DEF Take, TypeOK
  <2>4. job'[w].task = t /\ job'[w].stage = s /\ job'[w].pc = "claim_read"
        /\ job'[w].snap = SnapshotOf(tasks[t])
    BY <2>3 DEF IdleJob
  <2>5. \A e : PayloadOK(t, e) => PayloadOK(t, e)'
    BY <1>2 DEF Grows, PayloadOK
  <2>6. SnapshotOK(w)'
    BY <1>2, <2>1, <2>4, <2>5 DEF SnapshotOK, SnapshotOf, RowOK, Grows, PayloadOK
  <2> QED BY <1>2, <2>2, <2>4, <2>6 DEF JobOK, Busy
<1>5. JobOK(w)'
  <2>1. ASSUME NEW s \in Stages, RunStage(w, s) PROVE JobOK(w)'
    BY <1>4, <2>1 DEF RunStage, IsNextForStage
  <2>2. ASSUME NEW s \in Stages, NEW t \in TaskIds, RunStageOfTask(w, s, t) PROVE JobOK(w)'
    BY <1>4, <2>2 DEF RunStageOfTask
  <2>3. CASE RunNext(w)
    BY <2>3 DEF RunNext, JobOK, Busy, TypeOK, Job
  <2>4. CASE ScanFinds(w)
    BY <1>4, <2>4 DEF ScanFinds, IsNextForStage, TypeOK, Job
  <2>5. CASE ScanMovesOn(w)
    <3>1. job'[w] = IdleJob \/ job'[w] = [job[w] EXCEPT !.stage = NextStage[job[w].stage]]
      BY <2>5 DEF ScanMovesOn, TypeOK
    <3>2. job'[w].pc \in {"idle", "scan"}
      BY <2>5, <3>1 DEF ScanMovesOn, IdleJob, TypeOK, Job
    <3> QED BY <3>2 DEF JobOK, Busy
  <2> QED BY <2>1, <2>2, <2>3, <2>4, <2>5 DEF Pick
<1> QED BY <1>1, <1>2, <1>3, <1>5, WorkerStepNoRow

\* What IInv says of the task of a busy worker.
LEMMA BusyTask ==
  ASSUME IInv, NEW w \in Workers, Busy(w)
  PROVE  /\ job[w].task \in TaskIds
         /\ job[w].task \in 1 .. inserted
         /\ RowOK(job[w].task)
         /\ tasks[job[w].task] \in Row
         /\ job[w] \in Job
<1>1. job[w] \in Job /\ job[w].task \in 1 .. inserted
  BY DEF IInv, JobOK, TypeOK
<1>2. job[w].task \in TaskIds
  BY <1>1, BoundsAssumption DEF IInv, TypeOK, TaskIds
<1> QED BY <1>1, <1>2 DEF IInv, TypeOK

LEMMA IInvClaim ==
  ASSUME IInv, NEW w \in Workers, Claim(w)
  PROVE  IInv'
<1> USE DEF IInv
<1>1. Busy(w) /\ JobOK(w) /\ SnapshotOK(w)
  BY DEF Claim, ClaimRead, ReadStage, ClaimWrite, ClaimLog, Busy, JobOK
<1>0. PICK t \in TaskIds : t = job[w].task
  BY <1>1, BusyTask
<1>2. t = job[w].task /\ t \in 1 .. inserted /\ RowOK(t) /\ tasks[t] \in Row /\ job[w] \in Job
  BY <1>0, <1>1, BusyTask
<1>3. TypeOK'
  BY <1>0, TypeReadLog, TypeUpdate DEF Claim
<1>4. CASE ClaimRead(w) \/ ClaimLog(w)
  <2>1. Grows /\ tasks' = tasks /\ inserted' = inserted
    <3>1. UNCHANGED <<tasks, inserted, decisions, decided>>
      BY <1>4 DEF ClaimRead, ReadStage, ClaimLog
    <3> QED BY <3>1, SameTablesGrow
  <2>2. \A v \in Workers \ {w} : job'[v] = job[v]
    BY <1>4 DEF ClaimRead, ReadStage, ClaimLog, TypeOK
  <2>3. /\ job'[w].pc \in {"claim_write", "work"}
        /\ job'[w].task = t /\ job'[w].stage = job[w].stage /\ job'[w].snap = job[w].snap
    BY <1>2, <1>4 DEF ClaimRead, ReadStage, ClaimLog, TypeOK, Job
  <2>4. \A u, e : PayloadOK(u, e) => PayloadOK(u, e)'
    BY <2>1 DEF Grows, PayloadOK
  <2>5. SnapshotOK(w)'
    BY <1>1, <1>2, <2>1, <2>3, <2>4 DEF SnapshotOK, Grows
  <2>6. JobOK(w)'
    BY <1>1, <1>2, <2>1, <2>3, <2>5 DEF JobOK, Busy
  <2> QED BY <1>3, <2>1, <2>2, <2>6, WorkerStepNoRow
<1>5. CASE ClaimWrite(w)
  <2>0. PICK row : row = [tasks[t] EXCEPT !.status = "running", !.stage = job[w].stage]
    OBVIOUS
  <2>1. tasks' = [tasks EXCEPT ![t] = row]
    BY <1>2, <1>5, <2>0 DEF ClaimWrite, TypeOK
  <2>2. /\ tasks'[t] = row
        /\ \A u \in TaskIds \ {t} : tasks'[u] = tasks[u]
    BY <1>2, <2>1 DEF TypeOK
  <2>3. /\ row.stage = job[w].stage /\ row.evidence = tasks[t].evidence
        /\ row.decision = tasks[t].decision /\ row.result = tasks[t].result
    BY <1>2, <2>0 DEF Row
  <2>4. UNCHANGED <<inserted, decisions, decided>>
    BY <1>5 DEF ClaimWrite
  <2>5. Grows
    <3>1. inserted' \in Nat /\ inserted <= inserted'
      BY <2>4 DEF TypeOK
    <3>2. \A u, d : DecidedFor(u, d) => DecidedFor(u, d)' /\ decisions'[d] = decisions[d]
      BY <2>4 DEF DecidedFor
    <3>3. \A u \in 1 .. inserted : u \in TaskIds
      BY BoundsAssumption DEF TypeOK, TaskIds
    <3> QED BY <2>2, <2>3, <3>1, <3>2, <3>3 DEF Grows
  <2>6. \A v \in Workers \ {w} : job'[v] = job[v]
    BY <1>5 DEF ClaimWrite, TypeOK
  <2>7. job'[w] = [job[w] EXCEPT !.pc = "claim_log"]
    BY <1>5 DEF ClaimWrite, TypeOK
  <2>8. /\ job'[w].pc = "claim_log"
        /\ job'[w].task = t /\ job'[w].stage = job[w].stage /\ job'[w].snap = job[w].snap
    BY <1>2, <2>7 DEF Job
  <2>9. \A u, e : PayloadOK(u, e) => PayloadOK(u, e)'
    BY <2>5 DEF Grows, PayloadOK
  <2>10. SnapshotOK(w)'
    BY <1>1, <1>2, <2>5, <2>8, <2>9 DEF SnapshotOK, Grows
  <2>11. JobOK(w)'
    BY <1>2, <2>4, <2>8, <2>10 DEF JobOK, Busy
  <2>12. job[w].stage \in Stages
    BY <1>2 DEF Job
  <2>13. RowOK(t)'
    <3>1. ~(t > inserted')
      BY <1>2, <2>4 DEF TypeOK, TaskIds
    <3>2. row.stage \in {"evidence_ready", "decision_ready", "completed"}
            => row.evidence.quote # NoQuote
      BY <1>1, <1>2, <2>3, <2>12 DEF SnapshotOK, Stages
    <3>3. row.stage \in {"decision_ready", "completed"} => row.decision # 0
      BY <1>1, <1>2, <2>3, <2>12 DEF SnapshotOK, Stages
    <3>4. row.stage # "completed"
      BY <2>3, <2>12 DEF Stages
    <3>5. /\ row.decision # 0 => DecidedFor(t, row.decision)'
          /\ row.result.decision # 0 => DecidedFor(t, row.result.decision)'
          /\ row.evidence.decision # 0 =>
               /\ DecidedFor(t, row.evidence.decision)'
               /\ decisions'[row.evidence.decision].quote = row.evidence.quote
      BY <1>2, <2>3, <2>5 DEF RowOK, PayloadOK, Grows
    <3> QED BY <2>2, <3>1, <3>2, <3>3, <3>4, <3>5 DEF RowOK, PayloadOK, DecidedFor
  <2> QED BY <1>3, <2>2, <2>5, <2>6, <2>11, <2>13, WorkerStep
<1> QED BY <1>4, <1>5 DEF Claim

\* After Outcome the job of w is known.
LEMMA OutcomeJob ==
  ASSUME TypeOK, NEW w \in Workers, NEW m, NEW p, Outcome(w, m, p)
  PROVE  /\ job'[w].pc = "mark_read"
         /\ job'[w].mark = m
         /\ job'[w].payload = p
         /\ job'[w].task = job[w].task
         /\ job'[w].stage = job[w].stage
         /\ \A v \in Workers \ {w} : job'[v] = job[v]
<1>1. job'[w] = [job[w] EXCEPT !.pc = "mark_read", !.mark = m, !.payload = p,
                               !.snap = NoSnapshot]
  BY DEF Outcome, TypeOK
<1>2. \A v \in Workers \ {w} : job'[v] = job[v]
  BY DEF Outcome, TypeOK
<1> QED BY <1>1, <1>2 DEF TypeOK, Job

LEMMA IInvWork ==
  ASSUME IInv, NEW w \in Workers, Work(w)
  PROVE  IInv'
<1> USE DEF IInv
<1>1. Busy(w) /\ JobOK(w) /\ SnapshotOK(w)
  BY DEF Work, BuildEvidence, WriteDecision, BuildReply, WorksOn, Busy, JobOK
<1>2. PICK t \in TaskIds : t = job[w].task
  BY <1>1, BusyTask
<1>3. t = job[w].task /\ t \in 1 .. inserted /\ tasks[t] \in Row /\ job[w] \in Job
  BY <1>1, <1>2, BusyTask
<1>4. TypeOK'
  BY <1>2, TypeWork
<1>5. tasks' = tasks /\ inserted' = inserted
  BY DEF Work, BuildEvidence, WriteDecision, BuildReply
<1>6. ASSUME NEW p, Outcome(w, "failed", p), UNCHANGED <<decisions, decided>>
      PROVE  IInv'
  <2>1. Grows
    BY <1>5, <1>6, SameTablesGrow
  <2>2. JobOK(w)'
    BY <1>3, <1>5, <1>6, OutcomeJob DEF JobOK, OutcomeOK, Busy
  <2> QED BY <1>4, <1>5, <1>6, <2>1, <2>2, OutcomeJob, WorkerStepNoRow
<1>7. CASE BuildEvidence(w)
  <2>1. Grows
    BY <1>7, SameTablesGrow DEF BuildEvidence
  <2>2. ASSUME NEW q \in Quotes, Outcome(w, "stage", [quote |-> q, decision |-> 0])
        PROVE  IInv'
    <3>1. JobOK(w)'
      BY <1>3, <1>5, <1>7, <2>2, OutcomeJob, NoQuoteAssumption
      DEF BuildEvidence, WorksOn, JobOK, OutcomeOK, PayloadOK, Busy
    <3> QED BY <1>4, <1>5, <2>1, <2>2, <3>1, OutcomeJob, WorkerStepNoRow
  <2> QED BY <1>6, <1>7, <2>2 DEF BuildEvidence
<1>8. CASE WriteDecision(w) /\ ~EvidenceMissing(w)
  <2>1. decided' = decided + 1 /\ decided + 1 \in DecisionIds
    BY <1>8, BoundsAssumption DEF WriteDecision, TypeOK, DecisionIds
  <2>2. PICK p : p = [job[w].snap.evidence EXCEPT !.decision = decided + 1]
    OBVIOUS
  <2>3. Outcome(w, "stage", p) /\ job[w].stage = "evidence_ready"
    BY <1>8, <2>2 DEF WriteDecision, WorksOn
  <2>4. p.decision = decided' /\ p.quote = job[w].snap.evidence.quote
    BY <1>3, <2>1, <2>2 DEF Job, Snapshot, Payload
  <2>5. decisions'[decided'] = [task |-> t, quote |-> p.quote]
    BY <1>3, <1>8, <2>1, <2>4 DEF WriteDecision, TypeOK
  <2>6. \A d \in 1 .. decided : decisions'[d] = decisions[d]
    BY <1>8, <2>1, BoundsAssumption DEF WriteDecision, TypeOK, DecisionIds
  <2>7. Grows
    <3>1. \A u, d : DecidedFor(u, d) => DecidedFor(u, d)' /\ decisions'[d] = decisions[d]
      BY <2>1, <2>6 DEF DecidedFor, TypeOK
    <3> QED BY <1>5, <3>1 DEF Grows, TypeOK
  <2>8. DecidedFor(t, p.decision)' /\ decisions'[p.decision].quote = p.quote
    BY <2>1, <2>4, <2>5 DEF DecidedFor, TypeOK
  <2>9. p.quote # NoQuote /\ p.decision # 0
    BY <1>8, <2>1, <2>4 DEF EvidenceMissing, TypeOK
  <2>10. JobOK(w)'
    BY <1>3, <1>5, <2>3, <2>8, <2>9, OutcomeJob DEF JobOK, OutcomeOK, PayloadOK, Busy
  <2> QED BY <1>4, <1>5, <2>3, <2>7, <2>10, OutcomeJob, WorkerStepNoRow
<1>9. CASE BuildReply(w) /\ ~EvidenceMissing(w)
  <2>1. Grows
    BY <1>9, SameTablesGrow DEF BuildReply
  <2>2. PICK p : p = [job[w].snap.evidence EXCEPT
                        !.decision = IF @ # 0 THEN @ ELSE job[w].snap.decision]
    OBVIOUS
  <2>3. Outcome(w, "completed", p) /\ job[w].stage = "decision_ready"
    BY <1>9, <2>2 DEF BuildReply, WorksOn
  <2>4. p.decision = IF job[w].snap.evidence.decision # 0
                     THEN job[w].snap.evidence.decision
                     ELSE job[w].snap.decision
    BY <1>3, <2>2 DEF Job, Snapshot, Payload
  <2>5. p.decision # 0 /\ DecidedFor(t, p.decision)
    BY <1>1, <1>3, <2>3, <2>4 DEF SnapshotOK, PayloadOK
  <2>6. tasks[t].evidence.quote # NoQuote
    BY <1>1, <1>3, <2>3 DEF SnapshotOK
  <2>7. JobOK(w)'
    BY <1>3, <1>5, <2>1, <2>3, <2>5, <2>6, OutcomeJob DEF JobOK, OutcomeOK, Busy, Grows
  <2> QED BY <1>4, <1>5, <2>1, <2>3, <2>7, OutcomeJob, WorkerStepNoRow
<1>10. CASE (WriteDecision(w) \/ BuildReply(w)) /\ EvidenceMissing(w)
  BY <1>6, <1>10 DEF WriteDecision, BuildReply
<1> QED BY <1>7, <1>8, <1>9, <1>10 DEF Work

LEMMA IInvMark ==
  ASSUME IInv, NEW w \in Workers, Mark(w)
  PROVE  IInv'
<1> USE DEF IInv
<1>1. /\ Busy(w) /\ JobOK(w)
      /\ job[w].pc # "mark_log" => OutcomeOK(w)
  BY DEF Mark, MarkRead, ReadStage, MarkTaskStage, MarkTaskCompleted, MarkTaskFailed, Marks,
         MarkLog, Busy, JobOK
<1>2. PICK t \in TaskIds : t = job[w].task
  BY <1>1, BusyTask
<1>3. t = job[w].task /\ t \in 1 .. inserted /\ tasks[t] \in Row /\ job[w] \in Job /\ RowOK(t)
  BY <1>1, <1>2, BusyTask
<1>4. TypeOK'
  BY <1>2, TypeReadLog, TypeUpdate DEF Mark
<1>5. CASE MarkRead(w) \/ MarkLog(w)
  <2>1. Grows /\ tasks' = tasks /\ inserted' = inserted
    <3>1. UNCHANGED <<tasks, inserted, decisions, decided>>
      BY <1>5 DEF MarkRead, ReadStage, MarkLog
    <3> QED BY <3>1, SameTablesGrow
  <2>2. \A v \in Workers \ {w} : job'[v] = job[v]
    BY <1>5 DEF MarkRead, ReadStage, MarkLog, TypeOK
  <2>3. \A u, e : PayloadOK(u, e) => PayloadOK(u, e)'
    BY <2>1 DEF Grows, PayloadOK
  <2>4. CASE MarkLog(w)
    <3>1. job'[w] = IdleJob
      BY <2>4 DEF MarkLog, TypeOK
    <3> QED BY <1>4, <2>1, <2>2, <3>1, WorkerStepNoRow DEF JobOK, IdleJob, Busy
  <2>5. CASE MarkRead(w)
    <3>1. /\ job'[w].pc = "mark_write"
          /\ job'[w].task = t /\ job'[w].stage = job[w].stage
          /\ job'[w].mark = job[w].mark /\ job'[w].payload = job[w].payload
      BY <1>3, <2>5 DEF MarkRead, ReadStage, TypeOK, Job
    <3>2. OutcomeOK(w)
      BY <1>1, <2>5 DEF MarkRead, ReadStage
    <3>3. OutcomeOK(w)'
      BY <1>3, <2>1, <2>3, <3>1, <3>2 DEF OutcomeOK, Grows
    <3>4. JobOK(w)'
      BY <1>3, <2>1, <3>1, <3>3 DEF JobOK, Busy
    <3> QED BY <1>4, <2>1, <2>2, <3>4, WorkerStepNoRow
  <2> QED BY <1>5, <2>4, <2>5
<1>6. ASSUME NEW row \in Row, Marked(w, row), job[w].pc = "mark_write",
             row.stage \in {"evidence_ready", "decision_ready", "completed"}
               => row.evidence.quote # NoQuote,
             tasks[t].evidence.quote # NoQuote => row.evidence.quote # NoQuote,
             row.stage \in {"decision_ready", "completed"} => row.decision # 0,
             tasks[t].decision # 0 => row.decision # 0,
             row.stage = "completed" => row.result.decision # 0,
             row.decision # 0 => DecidedFor(t, row.decision),
             row.result.decision # 0 => DecidedFor(t, row.result.decision),
             PayloadOK(t, row.evidence)
      PROVE  IInv'
  <2>1. /\ tasks'[t] = row
        /\ \A u \in TaskIds \ {t} : tasks'[u] = tasks[u]
        /\ UNCHANGED <<inserted, decisions, decided>>
    BY <1>3, <1>6 DEF Marked, TypeOK
  <2>2. /\ \A v \in Workers \ {w} : job'[v] = job[v]
        /\ job'[w].pc = "mark_log" /\ job'[w].task = t
    BY <1>3, <1>6 DEF Marked, TypeOK, Job
  <2>3. Grows
    <3>1. inserted' \in Nat /\ inserted <= inserted'
      BY <2>1 DEF TypeOK
    <3>2. \A u, d : DecidedFor(u, d) => DecidedFor(u, d)' /\ decisions'[d] = decisions[d]
      BY <2>1 DEF DecidedFor
    <3>3. \A u \in 1 .. inserted : u \in TaskIds
      BY BoundsAssumption DEF TypeOK, TaskIds
    <3> QED BY <1>6, <2>1, <3>1, <3>2, <3>3 DEF Grows
  <2>4. JobOK(w)'
    BY <1>3, <2>1, <2>2 DEF JobOK, Busy
  <2>5. RowOK(t)'
    <3>1. ~(t > inserted')
      BY <1>3, <2>1 DEF TypeOK, TaskIds
    <3>2. \A u, d : DecidedFor(u, d) => DecidedFor(u, d)'
      BY <2>3 DEF Grows
    <3>3. PayloadOK(t, row.evidence)'
      BY <1>6, <2>3 DEF PayloadOK, Grows
    <3> QED BY <1>6, <2>1, <3>1, <3>2, <3>3 DEF RowOK, PayloadOK
  <2> QED BY <1>4, <2>1, <2>2, <2>3, <2>4, <2>5, WorkerStep
<1>7. job[w].payload \in Payload /\ job[w].stage \in Stages
  BY <1>3 DEF Job
<1>8. CASE MarkTaskStage(w)
  <2>1. PICK row : row = AdvancedRow(tasks[t], job[w].stage, job[w].payload)
    OBVIOUS
  <2>2. row \in Row
    BY <1>3, <1>7, <2>1, NextStageValues DEF AdvancedRow, Row, RowStatus, Payload
  <2>3. /\ row.stage = NextStage[job[w].stage]
        /\ row.evidence = job[w].payload
        /\ row.decision = IF job[w].payload.decision # 0
                          THEN job[w].payload.decision ELSE tasks[t].decision
        /\ row.result = tasks[t].result
    BY <1>3, <2>1 DEF AdvancedRow, Row
  <2>4. OutcomeOK(w) /\ job[w].mark = "stage" /\ job[w].pc = "mark_write"
    BY <1>1, <1>8 DEF MarkTaskStage, Marks
  <2>5. /\ row.evidence.quote # NoQuote
        /\ PayloadOK(t, row.evidence)
        /\ row.stage = "decision_ready" => row.decision # 0
        /\ row.stage \in {"evidence_ready", "decision_ready"}
    BY <1>3, <2>3, <2>4, NextStageValues DEF OutcomeOK
  <2>6. /\ row.decision # 0 => DecidedFor(t, row.decision)
        /\ tasks[t].decision # 0 => row.decision # 0
        /\ row.result.decision # 0 => DecidedFor(t, row.result.decision)
    BY <1>3, <2>3, <2>5 DEF RowOK, PayloadOK
  <2>7. Marked(w, row)
    BY <1>3, <1>8, <2>1 DEF MarkTaskStage
  <2> QED BY <1>6, <2>2, <2>4, <2>5, <2>6, <2>7
<1>9. CASE MarkTaskCompleted(w)
  <2>1. PICK row : row = CompletedRow(tasks[t], job[w].payload)
    OBVIOUS
  <2>2. row \in Row
    BY <1>3, <1>7, <2>1 DEF CompletedRow, Row, RowStatus, RowStage, Payload
  <2>3. /\ row.evidence = tasks[t].evidence
        /\ row.decision = job[w].payload.decision
        /\ row.result = job[w].payload
    BY <1>3, <2>1 DEF CompletedRow, Row
  <2>4. OutcomeOK(w) /\ job[w].mark = "completed" /\ job[w].pc = "mark_write"
    BY <1>1, <1>9 DEF MarkTaskCompleted, Marks
  <2>5. Marked(w, row)
    BY <1>3, <1>9, <2>1 DEF MarkTaskCompleted
  <2> QED BY <1>3, <1>6, <2>2, <2>3, <2>4, <2>5 DEF OutcomeOK, RowOK
<1>10. CASE MarkTaskFailed(w)
  <2>1. PICK row : row = FailedRow(tasks[t])
    OBVIOUS
  <2>2. row \in Row
    BY <1>3, <2>1, InitialValues DEF FailedRow, Row, RowStatus, RowStage
  <2>3. /\ row.stage = "failed" /\ row.evidence = tasks[t].evidence
        /\ row.decision = tasks[t].decision /\ row.result.decision = 0
    BY <1>3, <2>1 DEF FailedRow, Row, NoPayload
  <2>4. Marked(w, row) /\ job[w].pc = "mark_write"
    BY <1>3, <1>10, <2>1 DEF MarkTaskFailed, Marks
  <2> QED BY <1>3, <1>6, <2>2, <2>3, <2>4 DEF RowOK
<1> QED BY <1>5, <1>8, <1>9, <1>10 DEF Mark

LEMMA IInvEnvironment ==
  ASSUME IInv,
         \/ Enqueue
         \/ \E t \in TaskIds : LogEnqueue(t) \/ EnqueueCrash(t)
         \/ \E w \in Workers : Crash(w)
  PROVE  IInv'
<1> USE DEF IInv
<1>1. TypeOK'
  BY TypeEnvironment
<1>2. CASE Enqueue
  <2>1. PICK t \in TaskIds : t = inserted + 1
    BY <1>2, BoundsAssumption DEF Enqueue, TypeOK, TaskIds
  <2>2. /\ tasks'[t] = NewRow
        /\ \A u \in TaskIds \ {t} : tasks'[u] = tasks[u]
        /\ inserted' = t
        /\ UNCHANGED <<decisions, decided, job>>
    BY <1>2, <2>1 DEF Enqueue, TypeOK
  <2>3. Grows
    <3>1. \A u \in 1 .. inserted : u \in TaskIds /\ u # t
      BY <2>1, BoundsAssumption DEF TypeOK, TaskIds
    <3> QED BY <2>1, <2>2, <3>1 DEF Grows, DecidedFor, TypeOK
  <2>4. \A v \in Workers : JobOK(v)'
    BY <2>2, <2>3, JobKept
  <2>5. RowOK(t)'
    BY <2>2, BoundsAssumption DEF RowOK, NewRow, NoRow, NoPayload, PayloadOK, TaskIds
  <2>6. \A u \in TaskIds : RowOK(u)'
    BY <2>2, <2>3, <2>5, RowKept
  <2> QED BY <1>1, <2>4, <2>6
<1>3. ASSUME NEW t \in TaskIds, LogEnqueue(t) \/ EnqueueCrash(t)
      PROVE  IInv'
  <2>1. Grows /\ tasks' = tasks /\ job' = job
    BY <1>3, SameTablesGrow DEF LogEnqueue, EnqueueCrash
  <2> QED BY <1>1, <2>1, JobKept, RowKept
<1>4. ASSUME NEW w \in Workers, Crash(w)
      PROVE  IInv'
  <2>1. Grows /\ tasks' = tasks
    BY <1>4, SameTablesGrow DEF Crash
  <2>2. /\ job'[w] = IdleJob
        /\ \A v \in Workers \ {w} : job'[v] = job[v]
    BY <1>4 DEF Crash, TypeOK
  <2>3. JobOK(w)'
    BY <2>2 DEF JobOK, IdleJob, Busy
  <2> QED BY <1>1, <2>1, <2>2, <2>3, WorkerStepNoRow
<1> QED BY <1>2, <1>3, <1>4

LEMMA IInvStep == IInv /\ [Next]_vars => IInv'
<1> SUFFICES ASSUME IInv, [Next]_vars PROVE IInv'
  OBVIOUS
<1>1. CASE UNCHANGED vars
  <2>1. Grows /\ tasks' = tasks /\ job' = job /\ TypeOK'
    BY <1>1, SameTablesGrow DEF vars, IInv, TypeOK
  <2> QED BY <2>1, JobKept, RowKept DEF IInv
<1>2. ASSUME NEW w \in Workers, Dispatch(w) PROVE IInv'
  BY <1>2, IInvPick, IInvClaim, IInvWork, IInvMark DEF Dispatch
<1> QED BY <1>1, <1>2, IInvEnvironment DEF Next

LEMMA Invariance == Spec => []IInv
BY InitIInv, IInvStep, PTL DEF Spec

\* The rows of both tables and the locals of every dispatcher keep their
\* shape, whatever the number of workers and whichever stages they share.
THEOREM TypeCorrect == Spec => []TypeOK
<1>1. IInv => TypeOK
  BY DEF IInv
<1> QED BY <1>1, Invariance, PTL

\* No interleaving of dispatchers, no stale claim and no death brings a task
\* past the evidence stage without evidence: missing_evidence_json is dead
\* code.
THEOREM EvidenceSafe == Spec => []EvidenceBeforeProgress
<1>1. IInv => EvidenceBeforeProgress
  BY DEF IInv, RowOK, EvidenceBeforeProgress
<1> QED BY <1>1, Invariance, PTL

\* A task past the decision stage, and its result, always name a decision
\* that exists and was written for that task.
THEOREM DecisionSafe == Spec => []DecisionOwned
<1>1. IInv => DecisionOwned
  BY DEF IInv, RowOK, DecisionOwned
<1> QED BY <1>1, Invariance, PTL

\* An evidence payload and the decision it names always say the same quote.
THEOREM EvidenceDecisionSafe == Spec => []EvidenceAgreesWithDecision
<1>1. IInv => EvidenceAgreesWithDecision
  BY DEF IInv, RowOK, EvidenceAgreesWithDecision
<1> QED BY <1>1, Invariance, PTL


-----------------------------------------------------------------------------
(* What each step does to the job of its process, and to the tables.       *)

\* A worker's step leaves the other jobs alone.
LEMMA OthersKeep ==
  ASSUME TypeOK, NEW w \in Workers, Dispatch(w) \/ Crash(w)
  PROVE  \A v \in Workers \ {w} : job'[v] = job[v]
BY DEF Dispatch, Crash, Pick, RunStage, RunStageOfTask, RunNext, ScanFinds, ScanMovesOn, Take,
       Claim, ClaimRead, ClaimWrite, ClaimLog, ReadStage, Work, BuildEvidence, WriteDecision,
       BuildReply, Outcome, Mark, MarkRead, MarkTaskStage, MarkTaskCompleted, MarkTaskFailed,
       Marked, MarkLog, TypeOK

Tables == <<tasks, inserted, enqueuing, decisions, decided, logged, crashes>>

\* Picking ends idle, looking on, or with a runnable task of a stage w serves.
LEMMA PickEffect ==
  ASSUME TypeOK, NEW w \in Workers, Pick(w)
  PROVE  /\ UNCHANGED Tables
         /\ ~Busy(w)
         /\ \/ job'[w] = IdleJob
            \/ /\ job'[w].pc = "scan" /\ job'[w].stage \in Stages
               /\ job[w].pc = "idle" => Serves[w] = Stages
               /\ job'[w].task = job[w].task /\ job'[w].payload = job[w].payload
            \/ \E s \in Stages, t \in TaskIds :
                 /\ t \in Runnable(s)
                 /\ s \in Serves[w] \/ (job[w].pc = "scan" /\ s = job[w].stage)
                 /\ job'[w].pc = "claim_read" /\ job'[w].stage = s /\ job'[w].task = t
                 /\ job'[w].snap = SnapshotOf(tasks[t]) /\ job'[w].payload = NoPayload
<1>. USE DEF Tables
<1>1. job[w] \in Job
  BY DEF TypeOK
<1>2. ASSUME NEW s, NEW t, Take(w, s, t)
      PROVE  /\ job'[w].pc = "claim_read" /\ job'[w].stage = s /\ job'[w].task = t
             /\ job'[w].snap = SnapshotOf(tasks[t]) /\ job'[w].payload = NoPayload
  <2>1. job'[w] = [IdleJob EXCEPT !.pc = "claim_read", !.stage = s, !.task = t,
                                  !.snap = SnapshotOf(tasks[t])]
    BY <1>2 DEF Take, TypeOK
  <2>. QED BY <2>1 DEF IdleJob
<1>3. ASSUME NEW s \in Stages, RunStage(w, s)
      PROVE  /\ UNCHANGED Tables /\ ~Busy(w) /\ s \in Serves[w]
             /\ \E t \in TaskIds : t \in Runnable(s) /\ Take(w, s, t)
  BY <1>3 DEF RunStage, IsNextForStage, Busy
<1>4. ASSUME NEW s \in Stages, NEW t \in TaskIds, RunStageOfTask(w, s, t)
      PROVE  UNCHANGED Tables /\ ~Busy(w) /\ s \in Serves[w] /\ t \in Runnable(s) /\ Take(w, s, t)
  BY <1>4 DEF RunStageOfTask, Busy
<1>5. CASE RunNext(w)
  <2>1. job'[w] = [job[w] EXCEPT !.pc = "scan", !.stage = "queued"]
    BY <1>5 DEF RunNext, TypeOK
  <2>2. UNCHANGED Tables /\ job[w].pc = "idle" /\ Serves[w] = Stages
    BY <1>5 DEF RunNext
  <2>3. /\ job'[w].pc = "scan" /\ job'[w].stage \in Stages
        /\ job'[w].task = job[w].task /\ job'[w].payload = job[w].payload
    BY <1>1, <2>1 DEF Job, Stages
  <2>. QED BY <2>2, <2>3 DEF Busy
<1>6. CASE ScanFinds(w)
  <2>1. PICK t \in TaskIds : t \in Runnable(job[w].stage) /\ Take(w, job[w].stage, t)
    BY <1>6 DEF ScanFinds, IsNextForStage
  <2>2. job[w].stage \in Stages /\ job[w].pc = "scan" /\ ~Busy(w) /\ UNCHANGED Tables
    BY <1>1, <1>6 DEF ScanFinds, Job, Busy
  <2>. QED BY <1>2, <2>1, <2>2
<1>7. CASE ScanMovesOn(w)
  <2>1. job'[w] = IF job[w].stage = "decision_ready" THEN IdleJob
                  ELSE [job[w] EXCEPT !.stage = NextStage[job[w].stage]]
    BY <1>7 DEF ScanMovesOn, TypeOK
  <2>2. job[w].stage \in Stages /\ job[w].pc = "scan" /\ UNCHANGED Tables
    BY <1>1, <1>7 DEF ScanMovesOn, Job
  <2>3. CASE job[w].stage = "decision_ready"
    BY <2>1, <2>2, <2>3 DEF Busy
  <2>4. CASE job[w].stage # "decision_ready"
    <3>1. NextStage[job[w].stage] \in Stages
      BY <2>2, <2>4, NextStageValues DEF Stages
    <3>. QED BY <1>1, <2>1, <2>2, <2>4, <3>1 DEF Job, Busy
  <2>. QED BY <2>3, <2>4
<1>. QED BY <1>2, <1>3, <1>4, <1>5, <1>6, <1>7 DEF Pick

\* Reading from_stage.
LEMMA ReadEffect ==
  ASSUME TypeOK, NEW w \in Workers, ClaimRead(w) \/ MarkRead(w)
  PROVE  /\ UNCHANGED Tables
         /\ \/ job[w].pc = "claim_read" /\ job'[w].pc = "claim_write"
            \/ job[w].pc = "mark_read" /\ job'[w].pc = "mark_write"
         /\ job'[w].stage = job[w].stage /\ job'[w].task = job[w].task
         /\ job'[w].snap = job[w].snap /\ job'[w].mark = job[w].mark
         /\ job'[w].payload = job[w].payload /\ job'[w].from = tasks[job[w].task].stage
<1>1. job[w] \in Job
  BY DEF TypeOK
<1>2. CASE ClaimRead(w)
  <2>1. job'[w] = [job[w] EXCEPT !.pc = "claim_write", !.from = tasks[job[w].task].stage]
    BY <1>2 DEF ClaimRead, ReadStage, TypeOK
  <2>2. UNCHANGED Tables /\ job[w].pc = "claim_read"
    BY <1>2 DEF ClaimRead, ReadStage, Tables
  <2>. QED BY <1>1, <2>1, <2>2 DEF Job
<1>3. CASE MarkRead(w)
  <2>1. job'[w] = [job[w] EXCEPT !.pc = "mark_write", !.from = tasks[job[w].task].stage]
    BY <1>3 DEF MarkRead, ReadStage, TypeOK
  <2>2. UNCHANGED Tables /\ job[w].pc = "mark_read"
    BY <1>3 DEF MarkRead, ReadStage, Tables
  <2>. QED BY <1>1, <2>1, <2>2 DEF Job
<1>. QED BY <1>2, <1>3

\* The claim's UPDATE.
LEMMA ClaimWriteEffect ==
  ASSUME IInv, NEW w \in Workers, ClaimWrite(w)
  PROVE  /\ UNCHANGED <<inserted, enqueuing, decisions, decided, logged, crashes>>
         /\ job[w].pc = "claim_write" /\ job[w].task \in TaskIds /\ job[w].task \in 1 .. inserted
         /\ job'[w] = [job[w] EXCEPT !.pc = "claim_log"]
         /\ \A u \in TaskIds \ {job[w].task} : tasks'[u] = tasks[u]
         /\ tasks'[job[w].task] = [tasks[job[w].task] EXCEPT !.status = "running", !.stage = job[w].stage]
<1>1. Busy(w) /\ job[w].pc = "claim_write"
  BY DEF ClaimWrite, Busy
<1>2. job[w].task \in TaskIds /\ job[w].task \in 1 .. inserted
  BY <1>1, BusyTask
<1>. QED BY <1>1, <1>2 DEF ClaimWrite, IInv, TypeOK

\* The UPDATE that marks the outcome.
LEMMA MarkEffect ==
  ASSUME IInv, NEW w \in Workers,
         MarkTaskStage(w) \/ MarkTaskCompleted(w) \/ MarkTaskFailed(w)
  PROVE  /\ UNCHANGED <<inserted, enqueuing, decisions, decided, logged, crashes>>
         /\ job[w].pc = "mark_write" /\ job[w].task \in TaskIds /\ job[w].task \in 1 .. inserted
         /\ OutcomeOK(w)
         /\ job'[w] = [job[w] EXCEPT !.pc = "mark_log"]
         /\ \A u \in TaskIds \ {job[w].task} : tasks'[u] = tasks[u]
         /\ LET row == tasks[job[w].task]
            IN  \/ job[w].mark = "stage" /\ tasks'[job[w].task] = AdvancedRow(row, job[w].stage, job[w].payload)
                \/ job[w].mark = "completed" /\ tasks'[job[w].task] = CompletedRow(row, job[w].payload)
                \/ job[w].mark = "failed" /\ tasks'[job[w].task] = FailedRow(row)
<1>1. Busy(w) /\ job[w].pc = "mark_write"
  BY DEF MarkTaskStage, MarkTaskCompleted, MarkTaskFailed, Marks, Busy
<1>2. job[w].task \in TaskIds /\ job[w].task \in 1 .. inserted
  BY <1>1, BusyTask
<1>3. OutcomeOK(w)
  BY <1>1 DEF IInv, JobOK
<1>4. ASSUME NEW row, Marked(w, row)
      PROVE  /\ UNCHANGED <<inserted, enqueuing, decisions, decided, logged, crashes>>
             /\ job'[w] = [job[w] EXCEPT !.pc = "mark_log"]
             /\ \A u \in TaskIds \ {job[w].task} : tasks'[u] = tasks[u]
             /\ tasks'[job[w].task] = row
  BY <1>2, <1>4 DEF Marked, IInv, TypeOK
<1>. QED BY <1>1, <1>2, <1>3, <1>4 DEF MarkTaskStage, MarkTaskCompleted, MarkTaskFailed, Marks

\* The claim's event, and the mark's.
LEMMA LogEffect ==
  ASSUME IInv, NEW w \in Workers, ClaimLog(w) \/ MarkLog(w)
  PROVE  /\ UNCHANGED <<tasks, inserted, enqueuing, decisions, decided, crashes>>
         /\ job[w].task \in TaskIds /\ job[w].task \in 1 .. inserted /\ WillLog(w, job[w].task)
         /\ logged' = [logged EXCEPT ![job[w].task] = @ \cup {[from |-> job[w].from, to |-> Target(w)]}]
         /\ \/ job[w].pc = "claim_log" /\ job'[w] = [job[w] EXCEPT !.pc = "work", !.from = "none"]
            \/ job[w].pc = "mark_log" /\ job'[w] = IdleJob
<1>1. Busy(w) /\ job[w].pc \in {"claim_log", "mark_log"}
  BY DEF ClaimLog, MarkLog, Busy
<1>2. job[w].task \in TaskIds /\ job[w].task \in 1 .. inserted
  BY <1>1, BusyTask
<1>3. CASE ClaimLog(w)
  BY <1>2, <1>3 DEF ClaimLog, AppendEvent, Target, WillLog, IInv, TypeOK
<1>4. CASE MarkLog(w)
  BY <1>2, <1>4 DEF MarkLog, AppendEvent, Target, WillLog, IInv, TypeOK
<1>. QED BY <1>3, <1>4

\* The work of a stage: the outcomes it may have.
LEMMA WorkEffect ==
  ASSUME IInv, NEW w \in Workers, Work(w)
  PROVE  /\ UNCHANGED <<tasks, inserted, enqueuing, logged, crashes>>
         /\ job[w].pc = "work" /\ job[w].task \in TaskIds /\ SnapshotOK(w)
         /\ job'[w].pc = "mark_read" /\ job'[w].task = job[w].task /\ job'[w].stage = job[w].stage
         /\ \/ /\ job'[w].mark = "failed" /\ job'[w].payload = NoPayload
               /\ UNCHANGED <<decisions, decided>>
            \/ /\ job[w].stage = "queued" /\ job'[w].mark = "stage" /\ job'[w].payload.decision = 0
               /\ job'[w].payload.quote \in Quotes
               /\ UNCHANGED <<decisions, decided>>
            \/ /\ job[w].stage = "evidence_ready" /\ job'[w].mark = "stage"
               /\ job'[w].payload = [job[w].snap.evidence EXCEPT !.decision = decided + 1]
               /\ decided' = decided + 1 /\ decided + 1 \in DecisionIds
               /\ decisions' = [decisions EXCEPT ![decided + 1] =
                                  [task |-> job[w].task, quote |-> job[w].snap.evidence.quote]]
            \/ /\ job[w].stage = "decision_ready" /\ job'[w].mark = "completed"
               /\ job'[w].payload = [job[w].snap.evidence EXCEPT
                                       !.decision = IF @ # 0 THEN @ ELSE job[w].snap.decision]
               /\ UNCHANGED <<decisions, decided>>
<1>1. job[w].pc = "work" /\ Busy(w) /\ UNCHANGED <<tasks, inserted, enqueuing, logged, crashes>>
  BY DEF Work, BuildEvidence, WriteDecision, BuildReply, WorksOn, Busy
<1>2. job[w].task \in TaskIds /\ SnapshotOK(w) /\ TypeOK
  BY <1>1, BusyTask DEF IInv, JobOK
<1>3. CASE BuildEvidence(w)
  <2>1. CASE Outcome(w, "failed", NoPayload)
    BY <1>1, <1>2, <1>3, <2>1, OutcomeJob DEF BuildEvidence
  <2>2. ASSUME NEW q \in Quotes, Outcome(w, "stage", [quote |-> q, decision |-> 0])
        PROVE  /\ job'[w].pc = "mark_read" /\ job'[w].task = job[w].task /\ job'[w].stage = job[w].stage
               /\ job'[w].mark = "stage" /\ job'[w].payload.decision = 0 /\ job'[w].payload.quote \in Quotes
    BY <1>2, <2>2, OutcomeJob
  <2>. QED BY <1>1, <1>2, <1>3, <2>1, <2>2 DEF BuildEvidence, WorksOn
<1>4. CASE WriteDecision(w)
  <2>1. CASE EvidenceMissing(w)
    BY <1>1, <1>2, <1>4, <2>1, OutcomeJob DEF WriteDecision
  <2>2. CASE ~EvidenceMissing(w)
    <3>1. decided + 1 \in DecisionIds
      BY <1>2, <1>4, <2>2, BoundsAssumption DEF WriteDecision, TypeOK, DecisionIds
    <3>. QED BY <1>1, <1>2, <1>4, <2>2, <3>1, OutcomeJob DEF WriteDecision, WorksOn
  <2>. QED BY <2>1, <2>2
<1>5. CASE BuildReply(w)
  BY <1>1, <1>2, <1>5, OutcomeJob DEF BuildReply, WorksOn
<1>. QED BY <1>3, <1>4, <1>5 DEF Work

-----------------------------------------------------------------------------
(* One worker per stage: a task is worked on by one process at a time.     *)

\* Two processes that hold one task run its stage, and that only one serves.
LEMMA ServeIsExclusive ==
  ASSUME OneWorkerPerStage, ServeInv
  PROVE  ExclusiveWork
BY DEF OneWorkerPerStage, ServeInv, ServedOK, Holding, Holds, ExclusiveWork, Busy

\* A process keeps what it serves as long as its job and the stage of its row stay.
LEMMA ServedKept ==
  ASSUME NEW v \in Workers, ServedOK(v), job'[v] = job[v],
         Holding(v) => tasks'[job[v].task].stage = tasks[job[v].task].stage
  PROVE  ServedOK(v)'
BY DEF ServedOK, Holding, Busy

\* No step takes a row from under the process that holds it.
LEMMA ServeStep ==
  ASSUME OneWorkerPerStage, IInv, ServeInv, [Next]_vars
  PROVE  ServeInv'
<1>1. TypeOK /\ \A v \in Workers : Holding(v) => job[v].task \in TaskIds /\ job[v].task \in 1 .. inserted
  BY BusyTask DEF IInv, Holding
<1>2. ExclusiveWork
  BY ServeIsExclusive
<1>3. CASE UNCHANGED vars
  BY <1>3, ServedKept DEF vars, ServeInv
<1>4. CASE Enqueue
  <2>1. job' = job /\ \A u \in TaskIds \ {inserted + 1} : tasks'[u] = tasks[u]
    BY <1>1, <1>4 DEF Enqueue, TypeOK
  <2>2. \A v \in Workers : Holding(v) => job[v].task # inserted + 1
    BY <1>1 DEF TypeOK
  <2>. QED BY <1>1, <2>1, <2>2, ServedKept DEF ServeInv
<1>5. ASSUME NEW t \in TaskIds, LogEnqueue(t) \/ EnqueueCrash(t)
      PROVE  ServeInv'
  BY <1>5, ServedKept DEF LogEnqueue, EnqueueCrash, ServeInv
<1>6. ASSUME NEW w \in Workers, Dispatch(w) \/ Crash(w)
      PROVE  ServeInv'
  <2>1. \A v \in Workers \ {w} : job'[v] = job[v]
    BY <1>1, <1>6, OthersKeep
  <2>. SUFFICES /\ ServedOK(w)'
                /\ \A v \in Workers \ {w} : Holding(v) =>
                     tasks'[job[v].task].stage = tasks[job[v].task].stage
    BY <2>1, ServedKept DEF ServeInv
  <2>2. ServedOK(w) /\ job[w] \in Job
    BY <1>1 DEF ServeInv, TypeOK
  <2>3. CASE Crash(w)
    <3>1. tasks' = tasks /\ job'[w] = IdleJob
      BY <1>1, <2>3 DEF Crash, TypeOK
    <3>. QED BY <3>1 DEF ServedOK, Holding, Busy, IdleJob
  <2>4. CASE Pick(w)
    <3>1. tasks' = tasks
      BY <1>1, <2>4, PickEffect DEF Tables
    <3>2. CASE job'[w] = IdleJob
      BY <3>1, <3>2 DEF ServedOK, Holding, Busy, IdleJob
    <3>3. CASE /\ job'[w].pc = "scan" /\ job'[w].stage \in Stages
               /\ job[w].pc = "idle" => Serves[w] = Stages
      <4>1. job[w].pc \in {"idle", "scan"}
        BY <1>1, <2>4, PickEffect DEF Busy
      <4>. QED BY <2>2, <3>1, <3>3, <4>1 DEF ServedOK, Holding, Busy
    <3>4. ASSUME NEW s \in Stages, NEW t \in TaskIds,
                 t \in Runnable(s), s \in Serves[w] \/ (job[w].pc = "scan" /\ s = job[w].stage),
                 job'[w].pc = "claim_read", job'[w].stage = s, job'[w].task = t
          PROVE  ServedOK(w)'
      BY <2>2, <3>1, <3>4 DEF ServedOK, Runnable
    <3>. QED BY <1>1, <2>4, <3>1, <3>2, <3>3, <3>4, PickEffect
  <2>5. CASE ClaimRead(w) \/ MarkRead(w)
    <3>1. /\ tasks' = tasks /\ job'[w].stage = job[w].stage /\ job'[w].task = job[w].task
          /\ job[w].pc \in {"claim_read", "mark_read"} /\ job'[w].pc \in {"claim_write", "mark_write"}
      BY <1>1, <2>5, ReadEffect DEF Tables
    <3>. QED BY <2>2, <3>1 DEF ServedOK, Holding, Busy
  <2>6. CASE ClaimWrite(w)
    <3>. DEFINE t == job[w].task
    <3>1. /\ job[w].pc = "claim_write" /\ t \in TaskIds /\ tasks[t] \in Row
          /\ job'[w] = [job[w] EXCEPT !.pc = "claim_log"]
          /\ \A u \in TaskIds \ {t} : tasks'[u] = tasks[u]
          /\ tasks'[t] = [tasks[t] EXCEPT !.status = "running", !.stage = job[w].stage]
      BY <2>6, ClaimWriteEffect DEF IInv, TypeOK
    <3>2. tasks[t].stage = job[w].stage
      BY <2>2, <3>1 DEF ServedOK, Holding, Busy
    <3>3. tasks'[t].stage = job[w].stage
      BY <3>1 DEF Row
    <3>4. /\ job'[w].stage = job[w].stage /\ job'[w].task = t /\ job'[w].pc = "claim_log"
      BY <2>2, <3>1 DEF Job
    <3>5. ServedOK(w)'
      BY <2>2, <3>1, <3>3, <3>4 DEF ServedOK
    <3>. QED BY <1>1, <3>1, <3>2, <3>3, <3>5
  <2>7. CASE ClaimLog(w) \/ MarkLog(w)
    <3>1. /\ tasks' = tasks
          /\ \/ job[w].pc = "claim_log" /\ job'[w] = [job[w] EXCEPT !.pc = "work", !.from = "none"]
             \/ job'[w] = IdleJob
      BY <2>7, LogEffect
    <3>2. CASE job'[w] = IdleJob
      BY <3>1, <3>2 DEF ServedOK, Holding, Busy, IdleJob
    <3>3. CASE job[w].pc = "claim_log" /\ job'[w] = [job[w] EXCEPT !.pc = "work", !.from = "none"]
      <4>1. job'[w].pc = "work" /\ job'[w].stage = job[w].stage /\ job'[w].task = job[w].task
        BY <2>2, <3>3 DEF Job
      <4>. QED BY <2>2, <3>1, <3>3, <4>1 DEF ServedOK, Holding, Busy
    <3>. QED BY <3>1, <3>2, <3>3
  <2>8. CASE Work(w)
    <3>1. /\ tasks' = tasks /\ job[w].pc = "work" /\ job'[w].pc = "mark_read"
          /\ job'[w].task = job[w].task /\ job'[w].stage = job[w].stage
      BY <2>8, WorkEffect
    <3>. QED BY <2>2, <3>1 DEF ServedOK, Holding, Busy
  <2>9. CASE MarkTaskStage(w) \/ MarkTaskCompleted(w) \/ MarkTaskFailed(w)
    <3>1. /\ job[w].pc = "mark_write" /\ job[w].task \in TaskIds
          /\ job'[w] = [job[w] EXCEPT !.pc = "mark_log"]
          /\ \A u \in TaskIds \ {job[w].task} : tasks'[u] = tasks[u]
      BY <2>9, MarkEffect
    <3>2. /\ job'[w].pc = "mark_log" /\ job'[w].stage = job[w].stage
      BY <2>2, <3>1 DEF Job
    <3>3. ServedOK(w)'
      BY <2>2, <3>1, <3>2 DEF ServedOK, Holding
    <3>4. \A v \in Workers \ {w} : Holding(v) => job[v].task # job[w].task
      BY <1>1, <1>2, <3>1 DEF ExclusiveWork, Holds, Holding, Busy
    <3>. QED BY <1>1, <3>1, <3>3, <3>4
  <2>. QED BY <1>6, <2>3, <2>4, <2>5, <2>6, <2>7, <2>8, <2>9 DEF Dispatch, Claim, Mark
<1>. QED BY <1>3, <1>4, <1>5, <1>6 DEF Next

\* With IInv it holds in every reachable state.
LEMMA ServeInvariant == ASSUME OneWorkerPerStage PROVE Spec => [](IInv /\ ServeInv)
<1>1. Init => ServeInv
  BY DEF Init, ServeInv, ServedOK, Holding, Busy, IdleJob
<1>2. Init => IInv /\ ServeInv
  BY <1>1, InitIInv
<1>3. (IInv /\ ServeInv) /\ [Next]_vars => (IInv /\ ServeInv)'
  BY IInvStep, ServeStep
<1>. QED BY <1>2, <1>3, PTL DEF Spec

\* In the documented deployment, whatever the stages are and however often processes
\* die: fetch_next_task_by_stage hands a running task out again, and still no two
\* processes work on one task.
THEOREM WorkIsExclusive == ASSUME OneWorkerPerStage PROVE Spec => []ExclusiveWork
<1>1. ServeInv => ExclusiveWork
  BY ServeIsExclusive
<1>. QED BY <1>1, ServeInvariant, PTL

-----------------------------------------------------------------------------
(* One worker per stage: what rows and processes hold fits together.       *)

\* A process' job stays right as long as the row it holds does not change, and, when it
\* has marked the row, the row's decision stays.
LEMMA LifeJobKept ==
  ASSUME NEW v \in Workers, LifeJobOK(v), job'[v] = job[v],
         Holding(v) => /\ tasks'[job[v].task].evidence = tasks[job[v].task].evidence
                       /\ tasks'[job[v].task].decision = tasks[job[v].task].decision,
         job[v].pc = "mark_log" /\ tasks[job[v].task].decision # 0
           => tasks'[job[v].task].decision = tasks[job[v].task].decision,
         job[v] \in Job
  PROVE  LifeJobOK(v)'
<1>1. CASE Holding(v)
  <2>1. job[v].pc # "mark_log"
    BY <1>1 DEF Holding
  <2>2. SnapshotOf(tasks[job[v].task])' = SnapshotOf(tasks[job[v].task])
    BY <1>1 DEF SnapshotOf
  <2>. QED BY <1>1, <2>1, <2>2 DEF LifeJobOK
<1>2. CASE ~Holding(v)
  <2>1. job[v].pc \in {"idle", "scan", "mark_log"}
    BY <1>2 DEF Holding, Busy
  <2>. QED BY <2>1 DEF LifeJobOK
<1>. QED BY <1>1, <1>2

\* An UPDATE of the row t of w: the row stays right, w's job becomes so, and a decision
\* that the row has stays.
LEMMA LifeUpdate ==
  ASSUME IInv, ServeInv, LifeInv, NEW w \in Workers, NEW t \in TaskIds, t = job[w].task,
         ClaimWrite(w) \/ MarkTaskStage(w) \/ MarkTaskCompleted(w) \/ MarkTaskFailed(w)
  PROVE  /\ LifeRowOK(t)' /\ LifeJobOK(w)'
         /\ tasks[t].decision # 0 => tasks'[t].decision = tasks[t].decision
<1>1. /\ tasks[t] \in Row /\ job[w] \in Job /\ LifeRowOK(t) /\ LifeJobOK(w) /\ RowOK(t)
      /\ Holding(w) => tasks[t].stage = job[w].stage
  BY DEF IInv, TypeOK, LifeInv, ServeInv, ServedOK
<1>2. tasks[t].evidence \in Payload /\ job[w].payload \in Payload
  BY <1>1 DEF Row, Job
<1>3. CASE ClaimWrite(w)
  <2>1. /\ job[w].pc = "claim_write" /\ job'[w] = [job[w] EXCEPT !.pc = "claim_log"]
        /\ tasks'[t] = [tasks[t] EXCEPT !.status = "running", !.stage = job[w].stage]
    BY <1>3, ClaimWriteEffect
  <2>2. tasks[t].stage = job[w].stage
    BY <1>1, <2>1 DEF Holding, Busy
  <2>3. /\ tasks'[t].stage = tasks[t].stage /\ tasks'[t].evidence = tasks[t].evidence
        /\ tasks'[t].decision = tasks[t].decision /\ tasks'[t].result = tasks[t].result
    BY <1>1, <2>1, <2>2 DEF Row
  <2>4. /\ job'[w].pc = "claim_log" /\ job'[w].task = t
        /\ job'[w].snap = job[w].snap /\ job'[w].payload = job[w].payload
    BY <1>1, <2>1 DEF Job
  <2>5. LifeRowOK(t)'
    BY <1>1, <2>3 DEF LifeRowOK
  <2>6. job'[w].snap = SnapshotOf(tasks'[t]) /\ job'[w].payload = NoPayload
    BY <1>1, <2>1, <2>3, <2>4 DEF LifeJobOK, SnapshotOf
  <2>. QED BY <2>3, <2>4, <2>5, <2>6 DEF LifeJobOK
<1>4. CASE MarkTaskStage(w) \/ MarkTaskCompleted(w) \/ MarkTaskFailed(w)
  <2>. DEFINE row == tasks[t]
              payload == job[w].payload
  <2>1. /\ job[w].pc = "mark_write" /\ OutcomeOK(w)
        /\ job'[w] = [job[w] EXCEPT !.pc = "mark_log"]
        /\ \/ job[w].mark = "stage" /\ tasks'[t] = AdvancedRow(row, job[w].stage, payload)
           \/ job[w].mark = "completed" /\ tasks'[t] = CompletedRow(row, payload)
           \/ job[w].mark = "failed" /\ tasks'[t] = FailedRow(row)
    BY <1>4, MarkEffect
  <2>2. row.stage = job[w].stage
    BY <1>1, <2>1 DEF Holding, Busy
  <2>3. job'[w].pc = "mark_log" /\ job'[w].task = t /\ job'[w].payload = payload
    BY <1>1, <2>1 DEF Job
  <2>. SUFFICES /\ LifeRowOK(t)'
                /\ payload.decision # 0 => tasks'[t].decision = payload.decision
                /\ row.decision # 0 => tasks'[t].decision = row.decision
    BY <2>3 DEF LifeJobOK
  <2>4. CASE job[w].mark = "stage"
    <3>1. /\ tasks'[t].stage = NextStage[job[w].stage] /\ tasks'[t].evidence = payload
          /\ tasks'[t].decision = IF payload.decision # 0 THEN payload.decision ELSE row.decision
          /\ tasks'[t].result = row.result
      BY <1>1, <2>1, <2>4 DEF AdvancedRow, Row
    <3>2. CASE job[w].stage = "queued"
      BY <1>1, <2>1, <2>2, <2>4, <3>1, <3>2, NextStageValues DEF LifeRowOK, LifeJobOK
    <3>3. CASE job[w].stage = "evidence_ready"
      BY <1>1, <2>1, <2>2, <2>4, <3>1, <3>3, NextStageValues DEF LifeRowOK, OutcomeOK
    <3>. QED BY <2>1, <2>4, <3>2, <3>3 DEF OutcomeOK
  <2>5. CASE job[w].mark = "completed"
    <3>1. tasks'[t].stage = "completed" /\ tasks'[t].decision = payload.decision
      BY <1>1, <2>1, <2>5 DEF CompletedRow, Row
    <3>2. payload.decision = row.decision
      BY <1>1, <2>1, <2>2, <2>5 DEF LifeRowOK, LifeJobOK, OutcomeOK
    <3>. QED BY <3>1, <3>2 DEF LifeRowOK
  <2>6. CASE job[w].mark = "failed"
    <3>1. tasks'[t].stage = "failed" /\ tasks'[t].decision = row.decision /\ tasks'[t].result = NoPayload
      BY <1>1, <2>1, <2>6 DEF FailedRow, Row
    <3>2. payload.decision = 0
      BY <1>1, <2>1, <2>6 DEF LifeJobOK, NoPayload
    <3>. QED BY <3>1, <3>2 DEF LifeRowOK
  <2>. QED BY <2>1, <2>4, <2>5, <2>6
<1>. QED BY <1>3, <1>4

\* The work of a stage on an up-to-date snapshot: what w carries goes with its row.
LEMMA LifeWork ==
  ASSUME IInv, ServeInv, LifeInv, NEW w \in Workers, Work(w)
  PROVE  LifeJobOK(w)'
<1>. DEFINE t == job[w].task
<1>1. /\ tasks' = tasks /\ job[w].pc = "work" /\ t \in TaskIds /\ SnapshotOK(w)
      /\ job'[w].pc = "mark_read" /\ job'[w].task = t /\ job'[w].stage = job[w].stage
  BY WorkEffect
<1>2. job[w].snap = SnapshotOf(tasks[t]) /\ tasks[t] \in Row /\ LifeRowOK(t) /\ job[w].stage = tasks[t].stage
  BY <1>1 DEF LifeInv, LifeJobOK, IInv, TypeOK, ServeInv, ServedOK, Holding, Busy
<1>3. job[w].snap.evidence = tasks[t].evidence /\ job[w].snap.decision = tasks[t].decision
      /\ tasks[t].evidence \in Payload
  BY <1>2 DEF SnapshotOf, Row
<1>4. CASE job'[w].mark = "failed" /\ job'[w].payload = NoPayload
  BY <1>1, <1>4 DEF LifeJobOK
<1>5. CASE job[w].stage = "queued" /\ job'[w].mark = "stage" /\ job'[w].payload.decision = 0
  BY <1>1, <1>5 DEF LifeJobOK
<1>6. CASE /\ job[w].stage = "evidence_ready" /\ job'[w].mark = "stage"
           /\ job'[w].payload = [job[w].snap.evidence EXCEPT !.decision = decided + 1]
  <2>1. job'[w].payload.quote = tasks[t].evidence.quote
    BY <1>3, <1>6 DEF Payload
  <2>. QED BY <1>1, <1>6, <2>1 DEF LifeJobOK
<1>7. CASE /\ job[w].stage = "decision_ready" /\ job'[w].mark = "completed"
           /\ job'[w].payload = [job[w].snap.evidence EXCEPT
                                   !.decision = IF @ # 0 THEN @ ELSE job[w].snap.decision]
  <2>1. tasks[t].evidence.decision = tasks[t].decision
    BY <1>2, <1>7 DEF LifeRowOK
  <2>2. job'[w].payload = tasks[t].evidence
    BY <1>3, <1>7, <2>1 DEF Payload
  <2>. QED BY <1>1, <1>7, <2>2 DEF LifeJobOK
<1>. QED BY <1>4, <1>5, <1>6, <1>7, WorkEffect

\* A decision that a row has stays for ever: no UPDATE replaces it by another.
DecisionsStay ==
  \A t \in TaskIds : tasks[t].decision # 0 => tasks'[t].decision = tasks[t].decision

\* Every step keeps LifeInv, and the decisions of the rows.
LEMMA LifeStep ==
  ASSUME OneWorkerPerStage, IInv, ServeInv, LifeInv, [Next]_vars
  PROVE  LifeInv' /\ DecisionsStay
<1>1. /\ TypeOK /\ TypeOK' /\ ExclusiveWork
      /\ \A v \in Workers : job[v] \in Job /\ LifeJobOK(v)
      /\ \A v \in Workers : Busy(v) => job[v].task \in TaskIds /\ job[v].task \in 1 .. inserted
      /\ \A t \in TaskIds : LifeRowOK(t) /\ tasks[t] \in Row
  BY BusyTask, IInvStep, ServeIsExclusive DEF IInv, LifeInv, TypeOK
<1>2. \A v \in Workers : /\ Holding(v) => Busy(v)
                         /\ job[v].pc = "mark_log" => Busy(v)
  BY DEF Holding, Busy
<1>3. ASSUME tasks' = tasks, UNCHANGED <<decisions, decided>>,
             NEW v \in Workers, job'[v] = job[v]
      PROVE  LifeJobOK(v)'
  BY <1>1, <1>3, LifeJobKept
<1>4. ASSUME tasks' = tasks PROVE DecisionsStay /\ \A t \in TaskIds : LifeRowOK(t)'
  <2>1. DecisionsStay
    BY <1>4 DEF DecisionsStay
  <2>2. \A t \in TaskIds : LifeRowOK(t)'
    BY <1>1, <1>4 DEF LifeRowOK
  <2>. QED BY <2>1, <2>2
<1>5. ASSUME UNCHANGED <<decisions, decided>>
      PROVE  \A d \in 1 .. decided' : decisions'[d].task \in TaskIds
  BY <1>5 DEF LifeInv
<1>6. CASE UNCHANGED vars
  <2>1. tasks' = tasks /\ job' = job /\ UNCHANGED <<decisions, decided>>
    BY <1>6 DEF vars
  <2>. QED BY <1>3, <1>4, <1>5, <2>1 DEF LifeInv
<1>7. CASE Enqueue
  <2>1. PICK t \in TaskIds : t = inserted + 1
    BY <1>1, <1>7, BoundsAssumption DEF Enqueue, TypeOK, TaskIds
  <2>2. /\ job' = job /\ UNCHANGED <<decisions, decided>>
        /\ tasks'[t] = NewRow /\ \A u \in TaskIds \ {t} : tasks'[u] = tasks[u]
    BY <1>1, <1>7, <2>1 DEF Enqueue, TypeOK
  <2>3. \A v \in Workers : Busy(v) => job[v].task # t
    BY <1>1, <2>1 DEF TypeOK
  <2>4. \A v \in Workers : LifeJobOK(v)'
    BY <1>1, <1>2, <2>2, <2>3, LifeJobKept
  <2>5. tasks[t] = NoRow
    BY <2>1 DEF IInv, RowOK, TypeOK
  <2>6. tasks[t].decision = 0 /\ tasks'[t].decision = 0 /\ tasks'[t].stage = "queued"
        /\ tasks'[t].result = NoPayload
    BY <2>2, <2>5 DEF NewRow, NoRow
  <2>7. DecisionsStay
    BY <2>2, <2>6 DEF DecisionsStay
  <2>8. \A u \in TaskIds : LifeRowOK(u)'
    BY <1>1, <2>2, <2>6 DEF LifeRowOK
  <2>. QED BY <1>5, <2>2, <2>4, <2>7, <2>8 DEF LifeInv
<1>8. ASSUME NEW t \in TaskIds, LogEnqueue(t) \/ EnqueueCrash(t)
      PROVE  LifeInv' /\ DecisionsStay
  <2>1. tasks' = tasks /\ job' = job /\ UNCHANGED <<decisions, decided>>
    BY <1>8 DEF LogEnqueue, EnqueueCrash
  <2>. QED BY <1>3, <1>4, <1>5, <2>1 DEF LifeInv
<1>9. ASSUME NEW w \in Workers, Dispatch(w) \/ Crash(w)
      PROVE  LifeInv' /\ DecisionsStay
  <2>1. \A v \in Workers \ {w} : job'[v] = job[v]
    BY <1>1, <1>9, OthersKeep
  <2>2. ASSUME tasks' = tasks, UNCHANGED <<decisions, decided>>, LifeJobOK(w)'
        PROVE  LifeInv' /\ DecisionsStay
    BY <1>3, <1>4, <1>5, <2>1, <2>2 DEF LifeInv
  <2>3. CASE job'[w] = IdleJob /\ tasks' = tasks /\ UNCHANGED <<decisions, decided>>
    BY <2>2, <2>3 DEF LifeJobOK, IdleJob
  <2>4. CASE Crash(w)
    BY <1>1, <2>3, <2>4 DEF Crash, TypeOK
  <2>5. CASE Pick(w)
    <3>1. tasks' = tasks /\ UNCHANGED <<decisions, decided>> /\ job[w].pc \in {"idle", "scan"}
      BY <1>1, <2>5, PickEffect DEF Tables, Busy
    <3>2. CASE job'[w].pc = "scan" /\ job'[w].payload = job[w].payload
      BY <1>1, <2>2, <3>1, <3>2 DEF LifeJobOK
    <3>3. ASSUME NEW t \in TaskIds, job'[w].pc = "claim_read", job'[w].task = t,
                 job'[w].snap = SnapshotOf(tasks[t]), job'[w].payload = NoPayload
          PROVE  LifeInv' /\ DecisionsStay
      BY <2>2, <3>1, <3>3 DEF LifeJobOK, SnapshotOf
    <3>. QED BY <1>1, <2>3, <2>5, <3>1, <3>2, <3>3, PickEffect
  <2>6. CASE ClaimRead(w) \/ MarkRead(w)
    <3>1. /\ tasks' = tasks /\ UNCHANGED <<decisions, decided>>
          /\ \/ job[w].pc = "claim_read" /\ job'[w].pc = "claim_write"
             \/ job[w].pc = "mark_read" /\ job'[w].pc = "mark_write"
          /\ job'[w].stage = job[w].stage /\ job'[w].task = job[w].task
          /\ job'[w].snap = job[w].snap /\ job'[w].mark = job[w].mark /\ job'[w].payload = job[w].payload
      BY <1>1, <2>6, ReadEffect DEF Tables
    <3>2. LifeJobOK(w)'
      BY <1>1, <3>1 DEF LifeJobOK, SnapshotOf
    <3>. QED BY <2>2, <3>1, <3>2
  <2>7. CASE ClaimLog(w) \/ MarkLog(w)
    <3>1. /\ tasks' = tasks /\ UNCHANGED <<decisions, decided>>
          /\ \/ job[w].pc = "claim_log" /\ job'[w] = [job[w] EXCEPT !.pc = "work", !.from = "none"]
             \/ job'[w] = IdleJob
      BY <2>7, LogEffect
    <3>2. CASE job[w].pc = "claim_log" /\ job'[w] = [job[w] EXCEPT !.pc = "work", !.from = "none"]
      <4>1. /\ job'[w].pc = "work" /\ job'[w].task = job[w].task /\ job'[w].snap = job[w].snap
            /\ job'[w].payload = job[w].payload
        BY <1>1, <3>2 DEF Job
      <4>2. LifeJobOK(w)'
        BY <1>1, <3>1, <3>2, <4>1 DEF LifeJobOK, SnapshotOf
      <4>. QED BY <2>2, <3>1, <4>2
    <3>. QED BY <2>3, <3>1, <3>2
  <2>8. CASE Work(w)
    <3>1. tasks' = tasks /\ LifeJobOK(w)' /\ job[w].task \in TaskIds
      BY <2>8, WorkEffect, LifeWork
    <3>2. \A d \in 1 .. decided' : decisions'[d].task \in TaskIds
      <4>1. CASE UNCHANGED <<decisions, decided>> BY <1>5, <4>1
      <4>2. CASE /\ decided' = decided + 1 /\ decided + 1 \in DecisionIds
                 /\ decisions' = [decisions EXCEPT ![decided + 1] =
                                    [task |-> job[w].task, quote |-> job[w].snap.evidence.quote]]
        <5>1. \A d \in 1 .. decided' : d \in 1 .. decided \/ d = decided + 1
          BY <1>1, <4>2 DEF TypeOK
        <5>2. DOMAIN decisions = DecisionIds /\ \A d \in 1 .. decided : d \in DecisionIds /\ d # decided + 1
          BY <1>1, BoundsAssumption DEF TypeOK, DecisionIds
        <5>. QED BY <3>1, <4>2, <5>1, <5>2 DEF LifeInv
      <4>. QED BY <2>8, <4>1, <4>2, WorkEffect
    <3>3. \A v \in Workers \ {w} : LifeJobOK(v)'
      BY <1>1, <2>1, <3>1, LifeJobKept
    <3>. QED BY <1>4, <3>1, <3>2, <3>3 DEF LifeInv
  <2>9. CASE ClaimWrite(w) \/ MarkTaskStage(w) \/ MarkTaskCompleted(w) \/ MarkTaskFailed(w)
    <3>1. Holding(w) /\ UNCHANGED <<decisions, decided>>
          /\ \A u \in TaskIds \ {job[w].task} : tasks'[u] = tasks[u]
      BY <2>9, ClaimWriteEffect, MarkEffect DEF Holding, Busy
    <3>2. PICK t \in TaskIds : t = job[w].task
      BY <1>1, <1>2, <3>1
    <3>3. /\ LifeRowOK(t)' /\ LifeJobOK(w)'
          /\ tasks[t].decision # 0 => tasks'[t].decision = tasks[t].decision
      BY <2>9, <3>2, LifeUpdate
    <3>4. \A u \in TaskIds : LifeRowOK(u)'
      BY <1>1, <3>1, <3>2, <3>3 DEF LifeRowOK
    <3>5. DecisionsStay
      BY <3>1, <3>2, <3>3 DEF DecisionsStay
    <3>6. \A v \in Workers \ {w} : Holding(v) => job[v].task # t
      BY <1>1, <3>1, <3>2 DEF ExclusiveWork, Holds, Holding
    <3>7. \A v \in Workers \ {w} : LifeJobOK(v)'
      BY <1>1, <1>2, <2>1, <3>1, <3>2, <3>5, <3>6, LifeJobKept DEF DecisionsStay
    <3>. QED BY <1>5, <3>1, <3>3, <3>4, <3>5, <3>7 DEF LifeInv
  <2>. QED BY <1>9, <2>4, <2>5, <2>6, <2>7, <2>8, <2>9 DEF Dispatch, Claim, Mark
<1>. QED BY <1>6, <1>7, <1>8, <1>9 DEF Next

AllInv == IInv /\ ServeInv /\ LifeInv

\* The three invariants hold together, from the start and over every step.
LEMMA AllInvariant == ASSUME OneWorkerPerStage PROVE Spec => []AllInv
<1>1. Init => LifeInv
  <2>. SUFFICES ASSUME Init PROVE LifeInv
    OBVIOUS
  <2>1. \A t \in TaskIds : LifeRowOK(t)
    BY DEF Init, LifeRowOK, NoRow
  <2>2. \A w \in Workers : LifeJobOK(w)
    BY DEF Init, LifeJobOK, IdleJob
  <2>. QED BY <2>1, <2>2 DEF Init, LifeInv
<1>3. IInv /\ ServeInv /\ LifeInv /\ [Next]_vars => LifeInv'
  BY LifeStep
<1>4. Spec => [](IInv /\ ServeInv)
  BY ServeInvariant
<1>. QED BY <1>1, <1>3, <1>4, PTL DEF Spec, AllInv

-----------------------------------------------------------------------------
(* One worker per stage: every task lives the life of QuoteTaskLife.       *)

\* What QuoteTaskLife's variables are here.
LStage    == [t \in TaskIds |-> tasks[t].stage]
LEvidence == [t \in TaskIds |-> tasks[t].evidence.quote]
LDecision == [t \in TaskIds |-> IF tasks[t].decision = 0 THEN NoQuote ELSE decisions[tasks[t].decision].quote]
LAnswer   == [t \in TaskIds |-> tasks[t].result.quote]

\* The decision of a row, in a step that takes no decision away.
DecisionOf(t) == IF tasks[t].decision = 0 THEN NoQuote ELSE decisions[tasks[t].decision].quote

\* The initial states are initial states of the life.
LEMMA LifeInit == Init => Life!Init
BY DEF Init, Life!Init, NoRow, NoPayload

\* A step in which one row changes is seen as the change of that row only.
LEMMA LifeOfOthers ==
  ASSUME IInv, NEW t \in TaskIds, \A u \in TaskIds \ {t} : tasks'[u] = tasks[u],
         UNCHANGED <<decisions, decided>>
  PROVE  /\ LStage' = [LStage EXCEPT ![t] = tasks'[t].stage]
         /\ LEvidence' = [LEvidence EXCEPT ![t] = tasks'[t].evidence.quote]
         /\ LDecision' = [LDecision EXCEPT ![t] = DecisionOf(t)']
         /\ LAnswer' = [LAnswer EXCEPT ![t] = tasks'[t].result.quote]
         /\ LStage[t] = tasks[t].stage /\ LEvidence[t] = tasks[t].evidence.quote
         /\ LDecision[t] = DecisionOf(t) /\ LAnswer[t] = tasks[t].result.quote
BY DEF LStage, LEvidence, LDecision, LAnswer, DecisionOf

\* A step that changes no row changes nothing of the life.
LEMMA LifeStutters ==
  ASSUME IInv, tasks' = tasks,
         \/ UNCHANGED <<decisions, decided>>
         \/ decisions' = [decisions EXCEPT ![decided + 1] = decisions'[decided + 1]]
  PROVE  UNCHANGED Life!vars
<1>1. \A t \in TaskIds : tasks[t].decision # 0 => decisions'[tasks[t].decision] = decisions[tasks[t].decision]
  <2>1. ASSUME NEW t \in TaskIds, tasks[t].decision # 0
        PROVE  tasks[t].decision \in 1 .. decided
    BY <2>1 DEF IInv, RowOK, DecidedFor
  <2>2. decided \in Nat /\ \A d \in 1 .. decided : d \in DecisionIds /\ d # decided + 1
    BY BoundsAssumption DEF IInv, TypeOK, DecisionIds
  <2>. QED BY <2>1, <2>2 DEF IInv, TypeOK
<1>2. UNCHANGED <<LStage, LEvidence, LAnswer>>
  BY DEF LStage, LEvidence, LAnswer
<1>3. LDecision' = LDecision
  BY <1>1 DEF LDecision
<1>. QED BY <1>2, <1>3 DEF Life!vars, LStage, LEvidence, LAnswer, LDecision

\* What mark_task_stage makes of the fields of a row.
LEMMA AdvancedFields ==
  ASSUME NEW row \in Row, NEW s, NEW payload
  PROVE  /\ AdvancedRow(row, s, payload).stage = NextStage[s]
         /\ AdvancedRow(row, s, payload).evidence = payload
         /\ AdvancedRow(row, s, payload).decision
              = IF payload.decision # 0 THEN payload.decision ELSE row.decision
         /\ AdvancedRow(row, s, payload).result = row.result
BY DEF AdvancedRow, Row

\* An UPDATE that marks an outcome is a step of the task's life, on evidence and a
\* decision that no other process has changed meanwhile.
LEMMA LifeMark ==
  ASSUME AllInv, NEW w \in Workers,
         MarkTaskStage(w) \/ MarkTaskCompleted(w) \/ MarkTaskFailed(w)
  PROVE  Life!Next
<1>1. PICK t \in TaskIds : t = job[w].task
  BY MarkEffect DEF AllInv
<1>. DEFINE row == tasks[t]
            payload == job[w].payload
<1>2. /\ job[w].pc = "mark_write" /\ OutcomeOK(w) /\ UNCHANGED <<decisions, decided>>
      /\ \A u \in TaskIds \ {t} : tasks'[u] = tasks[u]
      /\ \/ job[w].mark = "stage" /\ tasks'[t] = AdvancedRow(row, job[w].stage, payload)
         \/ job[w].mark = "completed" /\ tasks'[t] = CompletedRow(row, payload)
         \/ job[w].mark = "failed" /\ tasks'[t] = FailedRow(row)
  BY <1>1, MarkEffect DEF AllInv
<1>3. /\ row \in Row /\ job[w] \in Job /\ payload \in Payload /\ row.evidence \in Payload
      /\ RowOK(t) /\ LifeRowOK(t) /\ LifeJobOK(w)
      /\ row.stage = job[w].stage /\ job[w].stage \in Stages
  BY <1>1, <1>2 DEF AllInv, IInv, TypeOK, LifeInv, ServeInv, ServedOK, Holding, Busy, Row, Job
<1>4. /\ LStage' = [LStage EXCEPT ![t] = tasks'[t].stage]
      /\ LEvidence' = [LEvidence EXCEPT ![t] = tasks'[t].evidence.quote]
      /\ LDecision' = [LDecision EXCEPT ![t] = DecisionOf(t)']
      /\ LAnswer' = [LAnswer EXCEPT ![t] = tasks'[t].result.quote]
      /\ LStage[t] = row.stage /\ LEvidence[t] = row.evidence.quote
      /\ LDecision[t] = DecisionOf(t) /\ LAnswer[t] = row.result.quote
  BY <1>2, LifeOfOthers DEF AllInv
<1>5. /\ LEvidence' = LEvidence \/ LEvidence'[t] # LEvidence[t]
      /\ LDecision' = LDecision \/ LDecision'[t] # LDecision[t]
      /\ LAnswer' = LAnswer \/ LAnswer'[t] # LAnswer[t]
  BY <1>4 DEF LEvidence, LDecision, LAnswer
<1>6. /\ LEvidence'[t] = tasks'[t].evidence.quote /\ LDecision'[t] = DecisionOf(t)'
      /\ LAnswer'[t] = tasks'[t].result.quote
  BY DEF LEvidence, LDecision, LAnswer, DecisionOf
<1>7. CASE job[w].mark = "stage" /\ job[w].stage = "queued"
  <2>1. /\ tasks'[t].stage = "evidence_ready" /\ tasks'[t].evidence = payload
        /\ tasks'[t].decision = row.decision /\ tasks'[t].result = row.result
    <3>1. tasks'[t] = AdvancedRow(row, "queued", payload) /\ row \in Row
      BY <1>2, <1>3, <1>7
    <3>2. payload.decision = 0
      BY <1>2, <1>3, <1>7 DEF LifeJobOK
    <3>. QED BY <3>1, <3>2, AdvancedFields, NextStageValues
  <2>2. LDecision' = LDecision /\ LAnswer' = LAnswer
    BY <1>2, <1>4, <1>5, <1>6, <2>1 DEF DecisionOf
  <2>3. payload.quote \in Quotes
    BY <1>2, <1>3, <1>7 DEF OutcomeOK, Payload
  <2>4. Life!Gather(t)
    BY <1>3, <1>4, <1>7, <2>1, <2>2, <2>3 DEF Life!Gather, Life!Moves, LStage, LEvidence, LDecision, LAnswer
  <2>. QED BY <2>4 DEF Life!Next
<1>8. CASE job[w].mark = "stage" /\ job[w].stage = "evidence_ready"
  <2>1. payload.decision # 0 /\ decisions[payload.decision].quote = payload.quote
    BY <1>1, <1>2, <1>8 DEF OutcomeOK, PayloadOK
  <2>2. payload.quote = row.evidence.quote
    BY <1>1, <1>2, <1>3, <1>8 DEF LifeJobOK
  <2>3. /\ tasks'[t].stage = "decision_ready" /\ tasks'[t].evidence = payload
        /\ tasks'[t].decision = payload.decision /\ tasks'[t].result = row.result
    <3>1. tasks'[t] = AdvancedRow(row, "evidence_ready", payload) /\ row \in Row
      BY <1>2, <1>3, <1>8
    <3>. QED BY <2>1, <3>1, AdvancedFields, NextStageValues
  <2>4. DecisionOf(t)' = LEvidence[t]
    BY <1>2, <1>4, <2>1, <2>2, <2>3 DEF DecisionOf
  <2>5. LEvidence' = LEvidence /\ LAnswer' = LAnswer
    BY <1>4, <1>5, <1>6, <2>2, <2>3
  <2>6. Life!Decide(t)
    BY <1>3, <1>4, <1>8, <2>3, <2>4, <2>5 DEF Life!Decide, Life!Moves, LStage, LEvidence, LDecision, LAnswer
  <2>. QED BY <2>6 DEF Life!Next
<1>9. CASE job[w].mark = "completed"
  <2>1. /\ job[w].stage = "decision_ready" /\ payload = row.evidence
        /\ row.evidence.decision = row.decision /\ row.decision # 0
    BY <1>1, <1>2, <1>3, <1>9 DEF OutcomeOK, LifeJobOK, LifeRowOK, RowOK
  <2>2. /\ tasks'[t].stage = "completed" /\ tasks'[t].evidence = row.evidence
        /\ tasks'[t].decision = row.decision /\ tasks'[t].result = row.evidence
    BY <1>2, <1>3, <1>9, <2>1 DEF CompletedRow, Row
  <2>3. decisions[row.decision].quote = row.evidence.quote
    BY <1>3, <2>1 DEF RowOK, PayloadOK
  <2>4. LAnswer' = [LAnswer EXCEPT ![t] = LDecision[t]]
    BY <1>4, <2>1, <2>2, <2>3 DEF DecisionOf
  <2>5. LEvidence' = LEvidence /\ LDecision' = LDecision
    BY <1>2, <1>4, <1>5, <1>6, <2>2 DEF DecisionOf
  <2>6. Life!Answer(t)
    BY <1>3, <1>4, <2>1, <2>2, <2>4, <2>5 DEF Life!Answer, Life!Moves, LStage, LEvidence, LDecision, LAnswer
  <2>. QED BY <2>6 DEF Life!Next
<1>10. CASE job[w].mark = "failed"
  <2>1. /\ tasks'[t].stage = "failed" /\ tasks'[t].evidence = row.evidence
        /\ tasks'[t].decision = row.decision /\ tasks'[t].result = NoPayload
    BY <1>2, <1>3, <1>10 DEF FailedRow, Row
  <2>2. row.result = NoPayload
    BY <1>3 DEF LifeRowOK, Stages
  <2>3. LEvidence' = LEvidence /\ LDecision' = LDecision /\ LAnswer' = LAnswer
    BY <1>2, <1>4, <1>5, <1>6, <2>1, <2>2 DEF DecisionOf
  <2>4. Life!Fail(t)
    BY <1>3, <1>4, <2>1, <2>3 DEF Life!Fail, Life!Moves, LStage, LEvidence, LDecision, LAnswer, Stages
  <2>. QED BY <2>4 DEF Life!Next
<1>. QED BY <1>2, <1>7, <1>8, <1>9, <1>10 DEF OutcomeOK

\* Every step is a step of the life of one task, or none.
LEMMA LifeNext ==
  ASSUME AllInv, [Next]_vars
  PROVE  [Life!Next]_(Life!vars)
<1>1. CASE UNCHANGED vars
  <2>1. IInv /\ tasks' = tasks /\ UNCHANGED <<decisions, decided>>
    BY <1>1 DEF vars, AllInv
  <2>2. UNCHANGED Life!vars
    BY <2>1, LifeStutters
  <2>. QED BY <2>2
<1>2. CASE Enqueue
  <2>1. PICK t \in TaskIds : t = inserted + 1
    BY <1>2, BoundsAssumption DEF Enqueue, AllInv, IInv, TypeOK, TaskIds
  <2>2. /\ tasks'[t] = NewRow /\ \A u \in TaskIds \ {t} : tasks'[u] = tasks[u]
        /\ UNCHANGED <<decisions, decided>>
    BY <1>2, <2>1 DEF Enqueue, AllInv, IInv, TypeOK
  <2>3. tasks[t] = NoRow
    BY <2>1 DEF AllInv, IInv, RowOK, TypeOK
  <2>4. /\ tasks[t].stage = "none" /\ tasks'[t].stage = "queued"
        /\ tasks'[t].evidence = tasks[t].evidence
        /\ tasks'[t].decision = 0 /\ tasks[t].decision = 0 /\ tasks'[t].result = tasks[t].result
    BY <2>2, <2>3 DEF NewRow, NoRow
  <2>5. LStage' = [LStage EXCEPT ![t] = "queued"] /\ LStage[t] = "none"
    BY <2>2, <2>4 DEF LStage
  <2>6. LEvidence' = LEvidence
    BY <2>2, <2>4 DEF LEvidence
  <2>7. LDecision' = LDecision
    BY <2>2, <2>4 DEF LDecision
  <2>8. LAnswer' = LAnswer
    BY <2>2, <2>4 DEF LAnswer
  <2>9. Life!Submit(t)
    BY <2>5, <2>6, <2>7, <2>8 DEF Life!Submit, Life!Moves, LStage, LEvidence, LDecision, LAnswer
  <2>. QED BY <2>9 DEF Life!Next
<1>3. ASSUME NEW t \in TaskIds, LogEnqueue(t) \/ EnqueueCrash(t)
      PROVE  UNCHANGED Life!vars
  BY <1>3, LifeStutters DEF LogEnqueue, EnqueueCrash, AllInv
<1>4. ASSUME NEW w \in Workers, Dispatch(w) \/ Crash(w)
      PROVE  [Life!Next]_(Life!vars)
  <2>1. CASE Crash(w) BY <2>1, LifeStutters DEF Crash, AllInv
  <2>2. CASE Pick(w) BY <2>2, PickEffect, LifeStutters DEF Tables, AllInv, IInv
  <2>3. CASE ClaimRead(w) \/ MarkRead(w) BY <2>3, ReadEffect, LifeStutters DEF Tables, AllInv, IInv
  <2>4. CASE ClaimLog(w) \/ MarkLog(w) BY <2>4, LogEffect, LifeStutters DEF AllInv
  <2>5. CASE Work(w)
    <3>1. /\ tasks' = tasks
          /\ \/ UNCHANGED <<decisions, decided>>
             \/ \E d : decisions' = [decisions EXCEPT ![decided + 1] = d]
      BY <2>5, WorkEffect DEF AllInv
    <3>2. ASSUME NEW d, decisions' = [decisions EXCEPT ![decided + 1] = d]
          PROVE  decisions' = [decisions EXCEPT ![decided + 1] = decisions'[decided + 1]]
      BY <3>2 DEF AllInv, IInv, TypeOK
    <3>. QED BY <3>1, <3>2, LifeStutters DEF AllInv
  <2>6. CASE ClaimWrite(w)
    <3>1. PICK t \in TaskIds : t = job[w].task
      BY <2>6, ClaimWriteEffect DEF AllInv
    <3>2. /\ job[w].pc = "claim_write" /\ UNCHANGED <<decisions, decided>> /\ tasks[t] \in Row
          /\ tasks'[t] = [tasks[t] EXCEPT !.status = "running", !.stage = job[w].stage]
          /\ \A u \in TaskIds \ {t} : tasks'[u] = tasks[u]
      BY <2>6, <3>1, ClaimWriteEffect DEF AllInv, IInv, TypeOK
    <3>3. tasks[t].stage = job[w].stage
      BY <3>1, <3>2 DEF AllInv, ServeInv, ServedOK, Holding, Busy
    <3>4. /\ tasks'[t].stage = tasks[t].stage /\ tasks'[t].evidence = tasks[t].evidence
          /\ tasks'[t].decision = tasks[t].decision /\ tasks'[t].result = tasks[t].result
      BY <3>2, <3>3 DEF Row
    <3>5. UNCHANGED <<LStage, LEvidence, LDecision, LAnswer>>
      BY <3>2, <3>4 DEF LStage, LEvidence, LDecision, LAnswer
    <3>. QED BY <3>5 DEF Life!vars, LStage, LEvidence, LDecision, LAnswer
  <2>7. CASE MarkTaskStage(w) \/ MarkTaskCompleted(w) \/ MarkTaskFailed(w)
    BY <2>7, LifeMark
  <2>. QED BY <1>4, <2>1, <2>2, <2>3, <2>4, <2>5, <2>6, <2>7 DEF Dispatch, Claim, Mark
<1>. QED BY <1>1, <1>2, <1>3, <1>4 DEF Next

\* The queue and its dispatchers implement the life of a task: each stage once, in
\* order, on the evidence and the decision that the previous stage made durable,
\* through claims that overlap with marks, stale reads and deaths.
THEOREM LifeImplemented == ASSUME OneWorkerPerStage PROVE Spec => ImplementsLife
<1>1. AllInv /\ [Next]_vars => [Life!Next]_(Life!vars)
  BY LifeNext
<1>. QED BY <1>1, LifeInit, AllInvariant, PTL DEF Spec, ImplementsLife, Life!Spec

-----------------------------------------------------------------------------
(* What a death costs, counted: one more at most.                          *)

\* A set that grows by at most one element is at most one larger.
LEMMA OneMore ==
  ASSUME NEW S, IsFiniteSet(S), NEW T, NEW x, T \subseteq S \cup {x}
  PROVE  Cardinality(T) \in Nat /\ Cardinality(S) \in Nat /\ Cardinality(T) <= Cardinality(S) + 1
<1>1. IsFiniteSet(S \cup {x}) /\ Cardinality(S \cup {x}) <= Cardinality(S) + 1 /\ Cardinality(S) \in Nat
  BY FS_AddElement, FS_CardinalityType
<1>2. IsFiniteSet(T) /\ Cardinality(T) <= Cardinality(S \cup {x})
  BY <1>1, FS_Subset
<1>3. Cardinality(T) \in Nat /\ Cardinality(S \cup {x}) \in Nat
  BY <1>1, <1>2, FS_CardinalityType
<1>. QED BY <1>1, <1>2, <1>3

\* A count of damage that a step leaves alone, or raises by one when a process dies in
\* it, stays within the number of deaths.
LEMMA DamageBounded ==
  ASSUME NEW S, IsFiniteSet(S), NEW T, NEW n \in Nat, NEW m \in Nat, Cardinality(S) <= n,
         \/ T \subseteq S /\ m = n
         \/ m = n + 1 /\ \E x : T \subseteq S \cup {x}
  PROVE  Cardinality(T) <= m
<1>1. CASE T \subseteq S /\ m = n
  <2>1. Cardinality(T) <= Cardinality(S) /\ Cardinality(T) \in Nat /\ Cardinality(S) \in Nat
    BY <1>1, FS_Subset, FS_CardinalityType
  <2>. QED BY <1>1, <2>1
<1>2. CASE m = n + 1 /\ \E x : T \subseteq S \cup {x}
  <2>1. PICK x : T \subseteq S \cup {x}
    BY <1>2
  <2>2. Cardinality(T) \in Nat /\ Cardinality(S) \in Nat /\ Cardinality(T) <= Cardinality(S) + 1
    BY <2>1, OneMore
  <2>. QED BY <1>2, <2>2
<1>. QED BY <1>1, <1>2

-----------------------------------------------------------------------------
(* One worker per stage: a pricing decision that no task names costs a     *)
(* death.                                                                  *)

Orphans == {d \in 1 .. decided : ~Cited(d)}

\* A worker's step loses no decision that some task or process names, unless the
\* process dies with the decision it has just written.
LEMMA CitationKept ==
  ASSUME AllInv, DecisionsStay, NEW w \in Workers, Dispatch(w) \/ Crash(w),
         NEW d \in 1 .. decided, Cited(d)
  PROVE  Cited(d)' \/ (Crash(w) /\ d = job[w].payload.decision)
<1>1. TypeOK /\ job[w] \in Job /\ LifeJobOK(w) /\ d # 0
  BY DEF AllInv, IInv, TypeOK, LifeInv
<1>2. decisions'[d] = decisions[d] /\ decisions[d].task \in TaskIds
  <2>1. decisions[d].task \in TaskIds
    BY DEF AllInv, LifeInv
  <2>2. CASE Work(w)
    <3>1. d \in DecisionIds /\ d # decided + 1 /\ DOMAIN decisions = DecisionIds
      BY <1>1, BoundsAssumption DEF TypeOK, DecisionIds
    <3>. QED BY <2>1, <2>2, <3>1, WorkEffect DEF AllInv
  <2>3. CASE ~Work(w)
    <3>1. UNCHANGED decisions
      BY <1>1, <2>3, PickEffect, ReadEffect, ClaimWriteEffect, LogEffect, MarkEffect
         DEF Tables, Dispatch, Claim, Mark, Crash, AllInv
    <3>. QED BY <2>1, <3>1
  <2>. QED BY <2>2, <2>3
<1>3. \A v \in Workers \ {w} : job'[v] = job[v]
  BY <1>1, OthersKeep
<1>4. CASE tasks[decisions[d].task].decision = d
  <2>1. tasks'[decisions[d].task].decision = d
    BY <1>1, <1>2, <1>4 DEF DecisionsStay
  <2>. QED BY <1>2, <2>1 DEF Cited
<1>5. CASE \E v \in Workers \ {w} : job[v].payload.decision = d
  BY <1>3, <1>5 DEF Cited
<1>6. CASE job[w].payload.decision = d
  <2>1. job'[w].payload = job[w].payload => Cited(d)'
    BY <1>6 DEF Cited
  <2>2. job[w].payload # NoPayload
    BY <1>1, <1>6 DEF NoPayload
  <2>3. job[w].pc \notin {"idle", "scan", "claim_log", "work"}
    BY <1>1, <2>2 DEF LifeJobOK
  <2>4. CASE Pick(w)
    BY <1>1, <2>3, <2>4, PickEffect DEF Busy, Job, PC
  <2>5. CASE Work(w)
    BY <2>3, <2>5, WorkEffect DEF AllInv
  <2>6. CASE ClaimRead(w) \/ MarkRead(w)
    BY <1>1, <2>1, <2>6, ReadEffect
  <2>7. CASE ClaimWrite(w) \/ MarkTaskStage(w) \/ MarkTaskCompleted(w) \/ MarkTaskFailed(w)
    <3>1. job'[w] = [job[w] EXCEPT !.pc = "claim_log"] \/ job'[w] = [job[w] EXCEPT !.pc = "mark_log"]
      BY <2>7, ClaimWriteEffect, MarkEffect DEF AllInv
    <3>2. job'[w].payload = job[w].payload
      BY <1>1, <3>1 DEF Job
    <3>. QED BY <2>1, <3>2
  <2>8. CASE ClaimLog(w) \/ MarkLog(w)
    <3>1. job[w].pc = "mark_log" /\ job[w].task \in TaskIds
      BY <2>3, <2>8, LogEffect DEF AllInv
    <3>2. tasks[job[w].task].decision = d
      BY <1>1, <1>6, <3>1 DEF LifeJobOK
    <3>3. decisions[d].task = job[w].task
      BY <1>1, <3>1, <3>2 DEF AllInv, IInv, RowOK, DecidedFor
    <3>. QED BY <1>4, <3>2, <3>3
  <2>. QED BY <1>6, <2>4, <2>5, <2>6, <2>7, <2>8 DEF Dispatch, Claim, Mark
<1>. QED BY <1>4, <1>5, <1>6 DEF Cited

\* A step makes an orphan only by killing the process that would have named it.
LEMMA OrphanStep ==
  ASSUME AllInv, DecisionsStay, [Next]_vars
  PROVE  \/ Orphans' \subseteq Orphans /\ crashes' = crashes
         \/ crashes' = crashes + 1 /\ \E d : Orphans' \subseteq Orphans \cup {d}
<1>1. TypeOK /\ \A d \in 1 .. decided : d # 0 /\ decisions[d].task \in TaskIds
  BY DEF AllInv, IInv, LifeInv
<1>2. ASSUME UNCHANGED <<decisions, decided, job>>
      PROVE  Orphans' \subseteq Orphans
  BY <1>1, <1>2 DEF Orphans, Cited, DecisionsStay
<1>3. CASE UNCHANGED vars
  BY <1>2, <1>3 DEF vars
<1>4. CASE Enqueue
  BY <1>2, <1>4 DEF Enqueue
<1>5. ASSUME NEW t \in TaskIds, LogEnqueue(t)
      PROVE  Orphans' \subseteq Orphans /\ crashes' = crashes
  BY <1>2, <1>5 DEF LogEnqueue
<1>6. ASSUME NEW t \in TaskIds, EnqueueCrash(t)
      PROVE  crashes' = crashes + 1 /\ \E d : Orphans' \subseteq Orphans \cup {d}
  <2>1. crashes' = crashes + 1 /\ Orphans' \subseteq Orphans
    BY <1>2, <1>6 DEF EnqueueCrash
  <2>. QED BY <2>1
<1>7. ASSUME NEW w \in Workers, Crash(w)
      PROVE  crashes' = crashes + 1 /\ \E d : Orphans' \subseteq Orphans \cup {d}
  <2>1. crashes' = crashes + 1 /\ UNCHANGED <<decisions, decided>>
    BY <1>7 DEF Crash
  <2>2. \A d \in 1 .. decided : Cited(d) => Cited(d)' \/ d = job[w].payload.decision
    BY <1>7, CitationKept
  <2>3. Orphans' \subseteq Orphans \cup {job[w].payload.decision}
    BY <2>1, <2>2 DEF Orphans
  <2>. QED BY <2>1, <2>3
<1>8. ASSUME NEW w \in Workers, Dispatch(w)
      PROVE  Orphans' \subseteq Orphans /\ crashes' = crashes
  <2>1. ~Crash(w) /\ crashes' = crashes
    <3>1. crashes' = crashes
      BY <1>1, <1>8, PickEffect, ReadEffect, ClaimWriteEffect, LogEffect, MarkEffect, WorkEffect
         DEF Tables, Dispatch, Claim, Mark, AllInv
    <3>. QED BY <1>1, <3>1 DEF Crash, TypeOK
  <2>2. \A d \in 1 .. decided : Cited(d) => Cited(d)'
    BY <1>8, <2>1, CitationKept
  <2>3. \A d \in 1 .. decided' : d \in 1 .. decided \/ Cited(d)'
    <3>1. CASE Work(w)
      <4>1. CASE decided' = decided
        BY <4>1
      <4>2. CASE /\ decided' = decided + 1
                 /\ job'[w].payload = [job[w].snap.evidence EXCEPT !.decision = decided + 1]
        <5>1. job[w].snap.evidence \in Payload
          BY <1>1 DEF TypeOK, Job, Snapshot
        <5>2. ASSUME NEW d \in 1 .. decided', d \notin 1 .. decided
              PROVE  Cited(d)'
          <6>1. d = decided + 1
            BY <1>1, <4>2, <5>2 DEF TypeOK
          <6>. QED BY <4>2, <5>1, <6>1 DEF Cited, Payload
        <5>. QED BY <5>2
      <4>. QED BY <3>1, <4>1, <4>2, WorkEffect DEF AllInv
    <3>2. CASE ~Work(w)
      <4>1. decided' = decided
        BY <1>1, <1>8, <3>2, PickEffect, ReadEffect, ClaimWriteEffect, LogEffect, MarkEffect
           DEF Tables, Dispatch, Claim, Mark, AllInv
      <4>. QED BY <4>1
    <3>. QED BY <3>1, <3>2
  <2>. QED BY <2>1, <2>2, <2>3 DEF Orphans
<1>. QED BY <1>3, <1>4, <1>5, <1>6, <1>7, <1>8 DEF Next, vars, Enqueue

\* With one worker per stage, the pricing decisions that no task names are at most as
\* many as the processes that died: no step but a death between write_pricing_decision
\* and mark_task_stage makes one.
THEOREM OrphansBounded == ASSUME OneWorkerPerStage PROVE Spec => []OrphanDecisionsBounded
<1>1. Init => OrphanDecisionsBounded
  <2>. SUFFICES ASSUME Init PROVE Cardinality(Orphans) <= crashes
    BY DEF OrphanDecisionsBounded, Orphans
  <2>1. Orphans = {} /\ crashes = 0
    BY DEF Init, Orphans
  <2>. QED BY <2>1, FS_EmptySet
<1>2. AllInv /\ OrphanDecisionsBounded /\ [Next]_vars => OrphanDecisionsBounded'
  <2>. SUFFICES ASSUME AllInv, Cardinality(Orphans) <= crashes, [Next]_vars
                PROVE  Cardinality(Orphans') <= crashes'
    BY DEF OrphanDecisionsBounded, Orphans
  <2>1. DecisionsStay
    BY LifeStep DEF AllInv
  <2>2. IsFiniteSet(Orphans)
    <3>1. IsFiniteSet(1 .. decided) /\ Orphans \subseteq 1 .. decided
      BY FS_Interval DEF Orphans, AllInv, IInv, TypeOK
    <3>. QED BY <3>1, FS_Subset
  <2>3. crashes \in Nat /\ crashes' \in Nat
    BY IInvStep, BoundsAssumption DEF AllInv, IInv, TypeOK
  <2>. QED BY <2>1, <2>2, <2>3, OrphanStep, DamageBounded
<1>. QED BY <1>1, <1>2, AllInvariant, PTL DEF Spec

-----------------------------------------------------------------------------
(* Every deployment: the timelines that deaths leave with a gap.           *)

\* A promise is kept when every event is kept and every pending event stays pending or
\* is written.
LEMMA PromisesKept ==
  ASSUME NEW t, logged[t] \subseteq logged'[t],
         t \in enqueuing => t \in enqueuing' \/ "queued" \in LoggedTo(t)',
         \A v \in Workers : WillLog(v, t) => \/ job'[v] = job[v]
                                             \/ Target(v) \in LoggedTo(t)'
  PROVE  Promised(t) \subseteq Promised(t)'
<1>1. LoggedTo(t) \subseteq LoggedTo(t)'
  BY DEF LoggedTo
<1>2. ASSUME NEW s \in Promised(t), s \notin LoggedTo(t)
      PROVE  s \in Promised(t)'
  <2>1. CASE s = "queued" /\ t \in enqueuing
    BY <2>1 DEF Promised
  <2>2. CASE \E v \in Workers : WillLog(v, t) /\ s = Target(v)
    <3>1. PICK v \in Workers : WillLog(v, t) /\ s = Target(v)
      BY <2>2
    <3>2. CASE job'[v] = job[v]
      <4>1. WillLog(v, t)' /\ s = Target(v)'
        BY <3>1, <3>2 DEF WillLog, Target
      <4>. QED BY <4>1 DEF Promised
    <3>3. CASE s \in LoggedTo(t)'
      BY <3>3 DEF Promised
    <3>. QED BY <3>1, <3>2, <3>3
  <2>. QED BY <1>2, <2>1, <2>2 DEF Promised
<1>. QED BY <1>1, <1>2 DEF Promised

\* The stages from which a process is about to log.
FromOK(t, v) ==
  job[v].task = t /\ job[v].pc \in {"claim_write", "claim_log", "mark_write", "mark_log"}
    => job[v].from \in Promised(t) \cup {"none"}

\* A timeline stays without a gap when promises are kept, and what is new is promised.
LEMMA IntactKept ==
  ASSUME NEW t, Intact(t), Promised(t) \subseteq Promised(t)',
         tasks'[t].stage = tasks[t].stage \/ tasks'[t].stage \in Promised(t)',
         \A e \in logged'[t] : e \in logged[t] \/ e.from \in Promised(t) \cup {"none"},
         \A v \in Workers : job'[v] = job[v] \/ FromOK(t, v)'
  PROVE  Intact(t)'
<1>1. tasks'[t].stage \in Promised(t)'
  BY DEF Intact
<1>2. \A e \in logged'[t] : e.from \in Promised(t)' \cup {"none"}
  BY DEF Intact
<1>3. \A v \in Workers : FromOK(t, v)'
  BY DEF Intact, FromOK
<1>. QED BY <1>1, <1>2, <1>3 DEF Intact, FromOK

\* A row that nobody updates or logs about, and whose callers live, keeps its timeline.
LEMMA IntactAlone ==
  ASSUME NEW t, Intact(t), tasks'[t] = tasks[t], logged'[t] = logged[t],
         t \in enqueuing => t \in enqueuing',
         \A v \in Workers : \/ job'[v] = job[v]
                            \/ ~WillLog(v, t) /\ FromOK(t, v)'
  PROVE  Intact(t)'
<1>1. Promised(t) \subseteq Promised(t)'
  BY PromisesKept
<1>. QED BY <1>1, IntactKept

\* No step of a process that lives damages a timeline.
LEMMA IntactDispatch ==
  ASSUME IInv, NEW w \in Workers, Dispatch(w), NEW t \in 1 .. inserted, Intact(t)
  PROVE  Intact(t)'
<1>1. TypeOK /\ job[w] \in Job /\ t \in TaskIds
  BY BoundsAssumption DEF IInv, TypeOK, TaskIds
<1>2. \A v \in Workers \ {w} : job'[v] = job[v]
  BY <1>1, OthersKeep
<1>3. CASE Pick(w)
  <2>1. tasks' = tasks /\ logged' = logged /\ enqueuing' = enqueuing /\ ~WillLog(w, t)
    BY <1>1, <1>3, PickEffect DEF Tables, WillLog, Busy
  <2>2. FromOK(t, w)'
    BY <1>1, <1>3, PickEffect DEF FromOK, IdleJob
  <2>. QED BY <1>2, <2>1, <2>2, IntactAlone
<1>4. CASE ClaimRead(w) \/ MarkRead(w)
  <2>1. /\ tasks' = tasks /\ logged' = logged /\ enqueuing' = enqueuing
        /\ job[w].pc \in {"claim_read", "mark_read"}
        /\ job'[w].task = job[w].task /\ job'[w].from = tasks[job[w].task].stage
    BY <1>1, <1>4, ReadEffect DEF Tables
  <2>2. Promised(t) \subseteq Promised(t)'
    BY <1>2, <2>1, PromisesKept DEF WillLog
  <2>3. FromOK(t, w)'
    BY <2>1, <2>2 DEF FromOK, Intact
  <2>. QED BY <1>2, <2>1, <2>2, <2>3, IntactKept
<1>5. CASE Work(w)
  <2>1. /\ tasks' = tasks /\ logged' = logged /\ enqueuing' = enqueuing
        /\ job[w].pc = "work" /\ job'[w].pc = "mark_read"
    BY <1>5, WorkEffect
  <2>. QED BY <1>2, <2>1, IntactAlone DEF WillLog, FromOK
<1>6. CASE ClaimWrite(w) \/ MarkTaskStage(w) \/ MarkTaskCompleted(w) \/ MarkTaskFailed(w)
  <2>1. /\ logged' = logged /\ enqueuing' = enqueuing
        /\ job[w].pc \in {"claim_write", "mark_write"} /\ job[w].task \in TaskIds
        /\ \A u \in TaskIds \ {job[w].task} : tasks'[u] = tasks[u]
    BY <1>6, ClaimWriteEffect, MarkEffect
  <2>2. /\ job'[w].pc \in {"claim_log", "mark_log"} /\ job'[w].task = job[w].task
        /\ job'[w].from = job[w].from /\ job'[w].mark = job[w].mark /\ job'[w].stage = job[w].stage
        /\ job'[w].pc = IF job[w].pc = "claim_write" THEN "claim_log" ELSE "mark_log"
    <3>1. \/ job[w].pc = "claim_write" /\ job'[w] = [job[w] EXCEPT !.pc = "claim_log"]
          \/ job[w].pc = "mark_write" /\ job'[w] = [job[w] EXCEPT !.pc = "mark_log"]
      BY <1>6, ClaimWriteEffect, MarkEffect
    <3>. QED BY <1>1, <3>1 DEF Job
  <2>3. Promised(t) \subseteq Promised(t)'
    BY <1>2, <2>1, PromisesKept DEF WillLog
  <2>4. FromOK(t, w)'
    <3>1. FromOK(t, w)
      BY DEF FromOK, Intact
    <3>. QED BY <2>1, <2>2, <2>3, <3>1 DEF FromOK
  <2>5. CASE t # job[w].task
    BY <1>1, <1>2, <2>1, <2>3, <2>4, <2>5, IntactKept
  <2>6. CASE t = job[w].task
    <3>1. tasks'[t].stage = Target(w)'
      <4>1. CASE ClaimWrite(w)
        <5>1. tasks'[t] = [tasks[t] EXCEPT !.status = "running", !.stage = job[w].stage]
              /\ job[w].pc = "claim_write" /\ tasks[t] \in Row
          BY <1>1, <2>6, <4>1, ClaimWriteEffect DEF TypeOK
        <5>2. tasks'[t].stage = job[w].stage
          BY <5>1 DEF Row
        <5>. QED BY <2>2, <5>1, <5>2 DEF Target
      <4>2. CASE MarkTaskStage(w) \/ MarkTaskCompleted(w) \/ MarkTaskFailed(w)
        <5>1. /\ job[w].pc = "mark_write" /\ OutcomeOK(w) /\ tasks[t] \in Row
              /\ \/ /\ job[w].mark = "stage"
                    /\ tasks'[t] = AdvancedRow(tasks[t], job[w].stage, job[w].payload)
                 \/ job[w].mark = "completed" /\ tasks'[t] = CompletedRow(tasks[t], job[w].payload)
                 \/ job[w].mark = "failed" /\ tasks'[t] = FailedRow(tasks[t])
          BY <1>1, <2>6, <4>2, MarkEffect DEF TypeOK
        <5>2. Target(w)' = IF job[w].mark = "failed" THEN "failed" ELSE NextStage[job[w].stage]
          BY <2>2, <5>1 DEF Target
        <5>3. CASE job[w].mark = "stage"
          BY <5>1, <5>2, <5>3, AdvancedFields
        <5>4. CASE job[w].mark = "completed"
          BY <5>1, <5>2, <5>4, NextStageValues DEF CompletedRow, Row, OutcomeOK
        <5>5. CASE job[w].mark = "failed"
          BY <5>1, <5>2, <5>5 DEF FailedRow, Row
        <5>. QED BY <5>1, <5>3, <5>4, <5>5
      <4>. QED BY <1>6, <4>1, <4>2
    <3>2. Target(w)' \in Promised(t)'
      BY <2>2, <2>6 DEF Promised, WillLog
    <3>. QED BY <1>2, <2>1, <2>3, <2>4, <3>1, <3>2, IntactKept
  <2>. QED BY <2>5, <2>6
<1>7. CASE ClaimLog(w) \/ MarkLog(w)
  <2>1. /\ tasks' = tasks /\ enqueuing' = enqueuing /\ WillLog(w, job[w].task) /\ job[w].task \in TaskIds
        /\ logged' = [logged EXCEPT ![job[w].task] = @ \cup {[from |-> job[w].from, to |-> Target(w)]}]
        /\ \/ job[w].pc = "claim_log" /\ job'[w] = [job[w] EXCEPT !.pc = "work", !.from = "none"]
           \/ job[w].pc = "mark_log" /\ job'[w] = IdleJob
    BY <1>7, LogEffect
  <2>2. job'[w].pc \in {"work", "idle"}
    <3>1. CASE job'[w] = [job[w] EXCEPT !.pc = "work", !.from = "none"]
      BY <1>1, <3>1 DEF Job
    <3>2. CASE job'[w] = IdleJob
      BY <3>2 DEF IdleJob
    <3>. QED BY <2>1, <3>1, <3>2
  <2>3. FromOK(t, w)'
    BY <2>2 DEF FromOK
  <2>4. CASE t # job[w].task
    <3>1. logged'[t] = logged[t] /\ ~WillLog(w, t)
      BY <1>1, <2>1, <2>4 DEF TypeOK, WillLog
    <3>. QED BY <1>2, <2>1, <2>3, <3>1, IntactAlone
  <2>5. CASE t = job[w].task
    <3>. DEFINE e == [from |-> job[w].from, to |-> Target(w)]
    <3>1. logged'[t] = logged[t] \cup {e}
      BY <1>1, <2>1, <2>5 DEF TypeOK
    <3>2. Target(w) \in LoggedTo(t)'
      <4>1. e \in logged'[t] /\ e.to = Target(w)
        BY <3>1
      <4>. QED BY <4>1 DEF LoggedTo
    <3>3. Promised(t) \subseteq Promised(t)'
      BY <1>2, <2>1, <3>1, <3>2, PromisesKept
    <3>4. e.from \in Promised(t) \cup {"none"}
      BY <2>1, <2>5 DEF Intact, WillLog
    <3>. QED BY <1>2, <2>1, <2>3, <3>1, <3>3, <3>4, IntactKept
  <2>. QED BY <2>4, <2>5
<1>. QED BY <1>3, <1>4, <1>5, <1>6, <1>7 DEF Dispatch, Claim, Mark

\* A step damages at most one timeline, and only when a process dies in it.
LEMMA DamageStep ==
  ASSUME IInv, NoEarlyLog, [Next]_vars
  PROVE  \/ Damaged' \subseteq Damaged /\ crashes' = crashes
         \/ crashes' = crashes + 1 /\ \E x : Damaged' \subseteq Damaged \cup {x}
<1>1. TypeOK /\ \A t \in 1 .. inserted : t \in TaskIds
  BY BoundsAssumption DEF IInv, TypeOK, TaskIds
<1>2. ASSUME NEW x, inserted' = inserted, \A t \in 1 .. inserted : Intact(t) => Intact(t)' \/ t = x
      PROVE  Damaged' \subseteq Damaged \cup {x}
  BY <1>2 DEF Damaged
<1>3. CASE UNCHANGED vars
  <2>1. inserted' = inserted /\ crashes' = crashes
    BY <1>3 DEF vars
  <2>2. \A t \in 1 .. inserted : Intact(t) => Intact(t)'
    BY <1>3, IntactAlone DEF vars
  <2>. QED BY <2>1, <2>2 DEF Damaged
<1>4. CASE Enqueue
  <2>1. PICK n \in TaskIds : n = inserted + 1
    BY <1>1, <1>4, BoundsAssumption DEF Enqueue, TypeOK, TaskIds
  <2>2. /\ tasks'[n] = NewRow /\ \A u \in TaskIds \ {n} : tasks'[u] = tasks[u]
        /\ enqueuing' = enqueuing \cup {n} /\ inserted' = n
        /\ UNCHANGED <<logged, job, crashes>>
    BY <1>1, <1>4, <2>1 DEF Enqueue, TypeOK
  <2>3. \A t \in 1 .. inserted : Intact(t) => Intact(t)'
    <3>1. \A t \in 1 .. inserted : t # n
      BY <1>1, <2>1 DEF TypeOK
    <3>. QED BY <1>1, <2>2, <3>1, IntactAlone
  <2>4. Intact(n)'
    <3>1. tasks'[n].stage = "queued"
      BY <2>2 DEF NewRow, NoRow
    <3>2. "queued" \in Promised(n)'
      BY <2>2 DEF Promised
    <3>3. logged'[n] = {}
      BY <1>1, <2>1, <2>2 DEF NoEarlyLog, TypeOK
    <3>4. \A v \in Workers : ~(job'[v].task = n /\ job'[v].pc \in {"claim_write", "claim_log", "mark_write", "mark_log"})
      <4>1. \A v \in Workers : Busy(v) => job[v].task # n
        BY <1>1, <2>1, BusyTask DEF TypeOK
      <4>. QED BY <2>2, <4>1 DEF Busy
    <3>. QED BY <3>1, <3>2, <3>3, <3>4 DEF Intact
  <2>5. \A t \in 1 .. inserted' : t \in 1 .. inserted \/ t = n
    BY <1>1, <2>1, <2>2 DEF TypeOK
  <2>. QED BY <2>2, <2>3, <2>4, <2>5 DEF Damaged
<1>5. ASSUME NEW u \in TaskIds, LogEnqueue(u)
      PROVE  Damaged' \subseteq Damaged /\ crashes' = crashes
  <2>1. /\ tasks' = tasks /\ job' = job /\ inserted' = inserted /\ crashes' = crashes
        /\ u \in enqueuing /\ enqueuing' = enqueuing \ {u}
        /\ logged' = [logged EXCEPT ![u] = @ \cup {[from |-> "none", to |-> "queued"]}]
    BY <1>5 DEF LogEnqueue, AppendEvent
  <2>2. ASSUME NEW t \in 1 .. inserted, Intact(t) PROVE Intact(t)'
    <3>1. CASE t # u
      BY <1>1, <2>1, <2>2, <3>1, IntactAlone DEF TypeOK
    <3>2. CASE t = u
      <4>. DEFINE e == [from |-> "none", to |-> "queued"]
      <4>1. logged'[t] = logged[t] \cup {e}
        BY <1>1, <2>1, <3>2 DEF TypeOK
      <4>2. "queued" \in LoggedTo(t)'
        <5>1. e \in logged'[t] /\ e.to = "queued"
          BY <4>1
        <5>. QED BY <5>1 DEF LoggedTo
      <4>3. Promised(t) \subseteq Promised(t)'
        BY <2>1, <4>1, <4>2, PromisesKept
      <4>. QED BY <2>1, <2>2, <4>1, <4>3, IntactKept
    <3>. QED BY <3>1, <3>2
  <2>. QED BY <2>1, <2>2 DEF Damaged
<1>6. ASSUME NEW u \in TaskIds, EnqueueCrash(u)
      PROVE  crashes' = crashes + 1 /\ \E x : Damaged' \subseteq Damaged \cup {x}
  <2>1. /\ tasks' = tasks /\ job' = job /\ inserted' = inserted /\ crashes' = crashes + 1
        /\ enqueuing' = enqueuing \ {u} /\ logged' = logged
    BY <1>6 DEF EnqueueCrash
  <2>2. \A t \in 1 .. inserted : Intact(t) => Intact(t)' \/ t = u
    BY <1>1, <2>1, IntactAlone
  <2>. QED BY <1>2, <2>1, <2>2
<1>7. ASSUME NEW w \in Workers, Dispatch(w)
      PROVE  Damaged' \subseteq Damaged /\ crashes' = crashes
  <2>1. inserted' = inserted /\ crashes' = crashes
    BY <1>1, <1>7, PickEffect, ReadEffect, ClaimWriteEffect, LogEffect, MarkEffect, WorkEffect
       DEF Tables, Dispatch, Claim, Mark
  <2>2. \A t \in 1 .. inserted : Intact(t) => Intact(t)'
    BY <1>7, IntactDispatch
  <2>. QED BY <2>1, <2>2 DEF Damaged
<1>8. ASSUME NEW w \in Workers, Crash(w)
      PROVE  crashes' = crashes + 1 /\ \E x : Damaged' \subseteq Damaged \cup {x}
  <2>1. /\ tasks' = tasks /\ inserted' = inserted /\ crashes' = crashes + 1
        /\ UNCHANGED <<enqueuing, logged>> /\ job'[w] = IdleJob
        /\ \A v \in Workers \ {w} : job'[v] = job[v]
    BY <1>1, <1>8 DEF Crash, TypeOK
  <2>2. \A t \in 1 .. inserted : Intact(t) => Intact(t)' \/ t = job[w].task
    <3>1. \A t \in 1 .. inserted : t # job[w].task => ~WillLog(w, t)
      BY DEF WillLog
    <3>2. \A t \in 1 .. inserted : FromOK(t, w)'
      BY <2>1 DEF FromOK, IdleJob
    <3>. QED BY <2>1, <3>1, <3>2, IntactAlone
  <2>. QED BY <1>2, <2>1, <2>2
<1>. QED BY <1>3, <1>4, <1>5, <1>6, <1>7, <1>8 DEF Next, Enqueue

\* Nothing is logged about a task that is not enqueued yet.
LEMMA NoEarlyLogStep == ASSUME IInv, NoEarlyLog, [Next]_vars PROVE NoEarlyLog'
<1>1. TypeOK
  BY DEF IInv
<1>2. ASSUME inserted' = inserted, logged' = logged PROVE NoEarlyLog'
  BY <1>2 DEF NoEarlyLog
<1>3. CASE Enqueue
  BY <1>1, <1>3 DEF Enqueue, NoEarlyLog, TypeOK, TaskIds
<1>4. ASSUME NEW u \in 1 .. inserted, inserted' = inserted, NEW S, logged' = [logged EXCEPT ![u] = S]
      PROVE  NoEarlyLog'
  BY <1>1, <1>4 DEF NoEarlyLog, TypeOK
<1>5. ASSUME NEW t \in TaskIds, LogEnqueue(t) \/ EnqueueCrash(t)
      PROVE  NoEarlyLog'
  <2>1. CASE LogEnqueue(t)
    <3>1. t \in 1 .. inserted /\ inserted' = inserted
      BY <1>1, <2>1 DEF LogEnqueue, TypeOK
    <3>. QED BY <1>4, <2>1, <3>1 DEF LogEnqueue, AppendEvent
  <2>2. CASE EnqueueCrash(t)
    BY <1>2, <2>2 DEF EnqueueCrash
  <2>. QED BY <1>5, <2>1, <2>2
<1>6. ASSUME NEW w \in Workers, ClaimLog(w) \/ MarkLog(w)
      PROVE  NoEarlyLog'
  <2>1. job[w].task \in 1 .. inserted /\ inserted' = inserted
        /\ logged' = [logged EXCEPT ![job[w].task] = @ \cup {[from |-> job[w].from, to |-> Target(w)]}]
    BY <1>6, LogEffect
  <2>. QED BY <1>4, <2>1
<1>7. ASSUME NEW w \in Workers, Dispatch(w) \/ Crash(w), ~ClaimLog(w), ~MarkLog(w)
      PROVE  NoEarlyLog'
  <2>1. inserted' = inserted /\ logged' = logged
    BY <1>1, <1>7, PickEffect, ReadEffect, ClaimWriteEffect, MarkEffect, WorkEffect
       DEF Tables, Dispatch, Claim, Mark, Crash
  <2>. QED BY <1>2, <2>1
<1>8. CASE UNCHANGED vars
  BY <1>2, <1>8 DEF vars
<1>. QED BY <1>3, <1>5, <1>6, <1>7, <1>8 DEF Next

\* What a timeline at rest has lost, a death took.
LEMMA IntactExplains ==
  ASSUME NEW t, Intact(t), Resting(t)
  PROVE  TimelineExplains(t)
<1>1. Promised(t) = LoggedTo(t)
  BY DEF Promised, Resting, WillLog, Busy
<1>. QED BY <1>1 DEF Intact, TimelineExplains

\* Whatever workers run, on whatever stages, the tasks whose timeline does not explain
\* their stage once nobody is in a call about them are at most as many as the processes
\* that died: stale and repeated claims never leave a gap, only a death between a row's
\* commit and its event's does, and in one timeline.
THEOREM LogLossIsBounded == Spec => []LogLossBounded
<1>1. Init => LogInv
  <2>. SUFFICES ASSUME Init PROVE LogInv
    OBVIOUS
  <2>1. NoEarlyLog /\ crashes = 0
    BY DEF Init, NoEarlyLog
  <2>2. Damaged = {}
    BY DEF Init, Damaged
  <2>. QED BY <2>1, <2>2, FS_EmptySet DEF LogInv
<1>2. ASSUME IInv PROVE IsFiniteSet(Damaged) /\ crashes \in Nat
  <2>1. IsFiniteSet(1 .. inserted) /\ Damaged \subseteq 1 .. inserted
    BY <1>2, FS_Interval DEF Damaged, IInv, TypeOK
  <2>2. IsFiniteSet(Damaged)
    BY <2>1, FS_Subset
  <2>. QED BY <1>2, <2>2, BoundsAssumption DEF IInv, TypeOK
<1>3. IInv /\ LogInv /\ [Next]_vars => LogInv'
  <2>. SUFFICES ASSUME IInv, LogInv, [Next]_vars PROVE LogInv'
    OBVIOUS
  <2>1. crashes \in Nat /\ crashes' \in Nat
    BY IInvStep, BoundsAssumption DEF IInv, TypeOK
  <2>2. Cardinality(Damaged') <= crashes'
    BY <1>2, <2>1, DamageStep, DamageBounded DEF LogInv
  <2>. QED BY <2>2, NoEarlyLogStep DEF LogInv
<1>4. IInv /\ LogInv => LogLossBounded
  <2>. SUFFICES ASSUME IInv, LogInv PROVE LogLossBounded
    OBVIOUS
  <2>. DEFINE Lost == {t \in 1 .. inserted : Resting(t) /\ ~TimelineExplains(t)}
  <2>1. Lost \subseteq Damaged
    BY IntactExplains DEF Damaged
  <2>2. Cardinality(Lost) <= crashes
    BY <1>2, <2>1, DamageBounded DEF LogInv
  <2>. QED BY <2>2 DEF LogLossBounded
<1>. QED BY <1>1, <1>3, <1>4, Invariance, PTL DEF Spec
=============================================================================
