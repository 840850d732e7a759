----------------------------- MODULE QuoteTasks -----------------------------
(***************************************************************************)
(* The quote task queue (scripts/quote_agents/task_queue.py) and the       *)
(* dispatcher that drives it (scripts/dispatch_quote_task.py).             *)
(*                                                                         *)
(* A worker is one dispatcher process.  It takes a task, claims it, runs   *)
(* the work of the task's stage and marks the outcome.  Every function of  *)
(* task_queue.py commits on its own, so a step here is one committed       *)
(* statement (or one read): other workers run, and the process may die,    *)
(* between any two of them.                                                *)
(***************************************************************************)
EXTENDS Naturals, FiniteSets

CONSTANTS
  Workers,      \* dispatcher processes
  Serves,       \* Serves[w]: the stages worker w is started for
  Quotes,       \* what an evidence payload says (the quote it leads to)
  NoQuote,      \* no payload
  MaxTasks,     \* bound: rows ever inserted in quote_tasks
  MaxDecisions, \* bound: rows ever inserted in pricing_decisions
  MaxCrashes    \* bound: processes that die in the middle of a call

Stages == {"queued", "evidence_ready", "decision_ready"}

ASSUME ServesAssumption == Serves \in [Workers -> SUBSET Stages]
ASSUME NoQuoteAssumption == NoQuote \notin Quotes
ASSUME BoundsAssumption ==
  MaxTasks \in Nat /\ MaxDecisions \in Nat /\ MaxCrashes \in Nat

\* The deployment the workflow document describes: no stage has two workers.
OneWorkerPerStage ==
  \A v, w \in Workers : v # w => Serves[v] \cap Serves[w] = {}

VARIABLES
  tasks,      \* table quote_tasks
  inserted,   \* its AUTOINCREMENT counter
  enqueuing,  \* tasks whose enqueue call has not written its event yet
  decisions,  \* table pricing_decisions
  decided,    \* its AUTOINCREMENT counter
  logged,     \* table quote_task_events: per task, its (from, to) pairs
  job,        \* the local state of every dispatcher process
  crashes     \* processes that have died so far

vars == <<tasks, inserted, enqueuing, decisions, decided, logged, job, crashes>>

TaskIds     == 1 .. MaxTasks
DecisionIds == 1 .. MaxDecisions

\* NextStage[s]: the stage that the work of stage s leads to.
NextStage ==
  [s \in Stages |->
     CASE s = "queued"         -> "evidence_ready"
       [] s = "evidence_ready" -> "decision_ready"
       [] s = "decision_ready" -> "completed"]

\* evidence_json and result_json: the quote, and the decision id they carry.
Payload   == [quote : Quotes \cup {NoQuote}, decision : DecisionIds \cup {0}]
NoPayload == [quote |-> NoQuote, decision |-> 0]

RowStage  == Stages \cup {"none", "completed", "failed"}
RowStatus == {"none", "queued", "running", "completed", "failed"}

Row == [status : RowStatus, stage : RowStage, evidence : Payload,
        decision : DecisionIds \cup {0}, result : Payload]

NoRow == [status |-> "none", stage |-> "none", evidence |-> NoPayload,
          decision |-> 0, result |-> NoPayload]

NewRow == [NoRow EXCEPT !.status = "queued", !.stage = "queued"]

DecisionRow == [task : TaskIds \cup {0}, quote : Quotes \cup {NoQuote}]
NoDecision  == [task |-> 0, quote |-> NoQuote]

\* What a stage's work uses of the row it was given.
Snapshot   == [evidence : Payload, decision : DecisionIds \cup {0}]
NoSnapshot == [evidence |-> NoPayload, decision |-> 0]

Event == [from : RowStage, to : RowStage]

PC == {"idle", "scan", "claim_read", "claim_write", "claim_log", "work",
       "mark_read", "mark_write", "mark_log"}

Job == [pc      : PC,
        stage   : Stages,                               \* the stage it runs
        task    : TaskIds \cup {0},                     \* the task it took
        snap    : Snapshot,                             \* ... as it was read
        from    : RowStage,                             \* from_stage to log
        mark    : {"none", "stage", "completed", "failed"},
        payload : Payload]                              \* what to mark it with

IdleJob == [pc |-> "idle", stage |-> "queued", task |-> 0, snap |-> NoSnapshot,
            from |-> "none", mark |-> "none", payload |-> NoPayload]

Busy(w) == job[w].pc \notin {"idle", "scan"}

Init ==
  /\ tasks = [t \in TaskIds |-> NoRow]
  /\ inserted = 0
  /\ enqueuing = {}
  /\ decisions = [d \in DecisionIds |-> NoDecision]
  /\ decided = 0
  /\ logged = [t \in TaskIds |-> {}]
  /\ job = [w \in Workers |-> IdleJob]
  /\ crashes = 0

-----------------------------------------------------------------------------
(* enqueue_quote_task: the row and its event are two commits.              *)

Enqueue ==
  /\ inserted < MaxTasks
  /\ inserted' = inserted + 1
  /\ tasks' = [tasks EXCEPT ![inserted + 1] = NewRow]
  /\ enqueuing' = enqueuing \cup {inserted + 1}
  /\ UNCHANGED <<decisions, decided, logged, job, crashes>>

AppendEvent(t, from, to) ==
  logged' = [logged EXCEPT ![t] = @ \cup {[from |-> from, to |-> to]}]

LogEnqueue(t) ==
  /\ t \in enqueuing
  /\ AppendEvent(t, "none", "queued")
  /\ enqueuing' = enqueuing \ {t}
  /\ UNCHANGED <<tasks, inserted, decisions, decided, job, crashes>>

-----------------------------------------------------------------------------
(* Picking a task.                                                         *)

\* Bug: tasks that a dead process left running are never handed out again.
RunnableIfQueued(s) == {t \in TaskIds : tasks[t].stage = s /\ tasks[t].status = "queued"}

Runnable(s) ==
  {t \in TaskIds : tasks[t].stage = s /\ tasks[t].status \in {"queued", "running"}}

\* fetch_next_task_by_stage: the lowest id; a running task is not excluded.
IsNextForStage(t, s) == t \in Runnable(s) /\ \A u \in Runnable(s) : t <= u

SnapshotOf(row) == [evidence |-> row.evidence, decision |-> row.decision]

\* The row is read once, here; the work below uses this snapshot.
Take(w, s, t) ==
  job' = [job EXCEPT ![w] = [IdleJob EXCEPT !.pc = "claim_read", !.stage = s,
                                            !.task = t, !.snap = SnapshotOf(tasks[t])]]

\* --run-stage s
RunStage(w, s) ==
  /\ job[w].pc = "idle"
  /\ s \in Serves[w]
  /\ \E t \in TaskIds : IsNextForStage(t, s) /\ Take(w, s, t)
  /\ UNCHANGED <<tasks, inserted, enqueuing, decisions, decided, logged, crashes>>

\* Bug: no task_stage_mismatch check.
RunStageOfTaskAtAnyStage(w, s, t) ==
  /\ job[w].pc = "idle"
  /\ s \in Serves[w]
  /\ tasks[t].status \in {"queued", "running"}
  /\ Take(w, s, t)
  /\ UNCHANGED <<tasks, inserted, enqueuing, decisions, decided, logged, crashes>>

\* --run-stage s --task-id t; a mismatch or a finished task changes nothing.
RunStageOfTask(w, s, t) ==
  /\ job[w].pc = "idle"
  /\ s \in Serves[w]
  /\ t \in Runnable(s)
  /\ Take(w, s, t)
  /\ UNCHANGED <<tasks, inserted, enqueuing, decisions, decided, logged, crashes>>

\* --run-next looks for a task stage by stage, one SELECT each.
RunNext(w) ==
  /\ job[w].pc = "idle"
  /\ Serves[w] = Stages
  /\ job' = [job EXCEPT ![w] = [@ EXCEPT !.pc = "scan", !.stage = "queued"]]
  /\ UNCHANGED <<tasks, inserted, enqueuing, decisions, decided, logged, crashes>>

ScanFinds(w) ==
  /\ job[w].pc = "scan"
  /\ \E t \in TaskIds : IsNextForStage(t, job[w].stage) /\ Take(w, job[w].stage, t)
  /\ UNCHANGED <<tasks, inserted, enqueuing, decisions, decided, logged, crashes>>

ScanMovesOn(w) ==
  /\ job[w].pc = "scan"
  /\ Runnable(job[w].stage) = {}
  /\ job' = [job EXCEPT ![w] =
               IF job[w].stage = "decision_ready"
               THEN IdleJob
               ELSE [job[w] EXCEPT !.stage = NextStage[job[w].stage]]]
  /\ UNCHANGED <<tasks, inserted, enqueuing, decisions, decided, logged, crashes>>

-----------------------------------------------------------------------------
(* mark_task_running: read from_stage, UPDATE, event.  The UPDATE has no   *)
(* condition on the row's present stage or status.                         *)

ReadStage(w, here, next) ==
  /\ job[w].pc = here
  /\ job' = [job EXCEPT ![w] = [@ EXCEPT !.pc = next, !.from = tasks[job[w].task].stage]]
  /\ UNCHANGED <<tasks, inserted, enqueuing, decisions, decided, logged, crashes>>

ClaimRead(w) == ReadStage(w, "claim_read", "claim_write")

ClaimWrite(w) ==
  /\ job[w].pc = "claim_write"
  /\ tasks' = [tasks EXCEPT ![job[w].task] = [@ EXCEPT !.status = "running", !.stage = job[w].stage]]
  /\ job' = [job EXCEPT ![w].pc = "claim_log"]
  /\ UNCHANGED <<inserted, enqueuing, decisions, decided, logged, crashes>>

ClaimLog(w) ==
  /\ job[w].pc = "claim_log"
  /\ AppendEvent(job[w].task, job[w].from, job[w].stage)
  /\ job' = [job EXCEPT ![w] = [@ EXCEPT !.pc = "work", !.from = "none"]]
  /\ UNCHANGED <<tasks, inserted, enqueuing, decisions, decided, crashes>>

-----------------------------------------------------------------------------
(* _run_stage: the work of a stage, up to the call that marks the task.    *)

Outcome(w, mark, payload) ==
  job' = [job EXCEPT ![w] =
            [@ EXCEPT !.pc = "mark_read", !.mark = mark, !.payload = payload, !.snap = NoSnapshot]]

WorksOn(w, s) == job[w].pc = "work" /\ job[w].stage = s

EvidenceMissing(w) == job[w].snap.evidence.quote = NoQuote

\* Bug: a rebuilt payload keeps the decision id of the row.
BuildEvidenceKeepingDecision(w) ==
  /\ WorksOn(w, "queued")
  /\ \/ \E q \in Quotes :
          Outcome(w, "stage", [quote |-> q, decision |-> job[w].snap.decision])
     \/ Outcome(w, "failed", NoPayload)
  /\ UNCHANGED <<tasks, inserted, enqueuing, decisions, decided, logged, crashes>>

\* queued: build_quote_context gives a payload, or an error.
BuildEvidence(w) ==
  /\ WorksOn(w, "queued")
  /\ \/ \E q \in Quotes : Outcome(w, "stage", [quote |-> q, decision |-> 0])
     \/ Outcome(w, "failed", NoPayload)
  /\ UNCHANGED <<tasks, inserted, enqueuing, decisions, decided, logged, crashes>>

\* evidence_ready: write_pricing_decision commits a row of its own, whose id
\* goes into the payload that the next commit stores.
WriteDecision(w) ==
  /\ WorksOn(w, "evidence_ready")
  /\ IF EvidenceMissing(w)
     THEN Outcome(w, "failed", NoPayload) /\ UNCHANGED <<decisions, decided>>
     ELSE /\ decided < MaxDecisions
          /\ decided' = decided + 1
          /\ decisions' = [decisions EXCEPT ![decided + 1] =
                             [task  |-> job[w].task,
                              quote |-> job[w].snap.evidence.quote]]
          /\ Outcome(w, "stage",
                     [job[w].snap.evidence EXCEPT !.decision = decided + 1])
  /\ UNCHANGED <<tasks, inserted, enqueuing, logged, crashes>>

\* Bug: no fallback to the row's decision id.
BuildReplyOfPayloadOnly(w) ==
  /\ WorksOn(w, "decision_ready")
  /\ IF EvidenceMissing(w)
     THEN Outcome(w, "failed", NoPayload)
     ELSE Outcome(w, "completed", job[w].snap.evidence)
  /\ UNCHANGED <<tasks, inserted, enqueuing, decisions, decided, logged, crashes>>

\* decision_ready: the result names payload.decision_id, or else the row's.
BuildReply(w) ==
  /\ WorksOn(w, "decision_ready")
  /\ IF EvidenceMissing(w)
     THEN Outcome(w, "failed", NoPayload)
     ELSE Outcome(w, "completed",
                  [job[w].snap.evidence EXCEPT
                     !.decision = IF @ # 0 THEN @ ELSE job[w].snap.decision])
  /\ UNCHANGED <<tasks, inserted, enqueuing, decisions, decided, logged, crashes>>

-----------------------------------------------------------------------------
(* mark_task_stage, mark_task_completed, mark_task_failed: read            *)
(* from_stage, UPDATE, event; again unconditional.                         *)

MarkRead(w) == ReadStage(w, "mark_read", "mark_write")

Marks(w, mark) == job[w].pc = "mark_write" /\ job[w].mark = mark

\* Bugs: the decision id is not stored; status and next_stage are swapped.
AdvancedRowWithoutDecision(row, s, payload) ==
  [row EXCEPT !.status = "queued", !.stage = NextStage[s], !.evidence = payload]

AdvancedRowSwapped(row, s, payload) ==
  [row EXCEPT !.status   = NextStage[s],
              !.stage    = "queued",
              !.decision = IF payload.decision # 0 THEN payload.decision ELSE @,
              !.evidence = payload]

\* Bug: a failure erases the evidence.
FailedRowErasing(row) ==
  [row EXCEPT !.status = "failed", !.stage = "failed", !.result = NoPayload,
              !.evidence = NoPayload]

\* What the UPDATE of each function makes of a row.
AdvancedRow(row, s, payload) ==
  [row EXCEPT !.status   = "queued",
              !.stage    = NextStage[s],
              !.decision = IF payload.decision # 0 THEN payload.decision ELSE @,
              !.evidence = payload]

CompletedRow(row, payload) ==
  [row EXCEPT !.status = "completed", !.stage = "completed",
              !.decision = payload.decision, !.result = payload]

FailedRow(row) ==
  [row EXCEPT !.status = "failed", !.stage = "failed", !.result = NoPayload]

Marked(w, row) ==
  /\ tasks' = [tasks EXCEPT ![job[w].task] = row]
  /\ job' = [job EXCEPT ![w].pc = "mark_log"]
  /\ UNCHANGED <<inserted, enqueuing, decisions, decided, logged, crashes>>

MarkTaskStage(w) ==
  /\ Marks(w, "stage")
  /\ Marked(w, AdvancedRow(tasks[job[w].task], job[w].stage, job[w].payload))

MarkTaskCompleted(w) ==
  /\ Marks(w, "completed")
  /\ Marked(w, CompletedRow(tasks[job[w].task], job[w].payload))

MarkTaskFailed(w) ==
  /\ Marks(w, "failed")
  /\ Marked(w, FailedRow(tasks[job[w].task]))

\* Bug: mark_task_failed writes no event.
MarkLogSuccessOnly(w) ==
  /\ job[w].pc = "mark_log"
  /\ IF job[w].mark = "failed"
     THEN UNCHANGED logged
     ELSE AppendEvent(job[w].task, job[w].from, NextStage[job[w].stage])
  /\ job' = [job EXCEPT ![w] = IdleJob]
  /\ UNCHANGED <<tasks, inserted, enqueuing, decisions, decided, crashes>>

MarkLog(w) ==
  /\ job[w].pc = "mark_log"
  /\ AppendEvent(job[w].task, job[w].from,
                 IF job[w].mark = "failed" THEN "failed" ELSE NextStage[job[w].stage])
  /\ job' = [job EXCEPT ![w] = IdleJob]
  /\ UNCHANGED <<tasks, inserted, enqueuing, decisions, decided, crashes>>

-----------------------------------------------------------------------------
(* A process dies between two commits: killed, an exception out of         *)
(* build_quote_context, "database is locked", ...                          *)

Crash(w) ==
  /\ crashes < MaxCrashes
  /\ job[w].pc # "idle"
  /\ crashes' = crashes + 1
  /\ job' = [job EXCEPT ![w] = IdleJob]
  /\ UNCHANGED <<tasks, inserted, enqueuing, decisions, decided, logged>>

EnqueueCrash(t) ==
  /\ crashes < MaxCrashes
  /\ t \in enqueuing
  /\ crashes' = crashes + 1
  /\ enqueuing' = enqueuing \ {t}
  /\ UNCHANGED <<tasks, inserted, decisions, decided, logged, job>>

-----------------------------------------------------------------------------

Pick(w) ==
  \/ \E s \in Stages : RunStage(w, s)
  \/ \E s \in Stages, t \in TaskIds : RunStageOfTask(w, s, t)
  \/ RunNext(w)
  \/ ScanFinds(w)
  \/ ScanMovesOn(w)

Claim(w) == ClaimRead(w) \/ ClaimWrite(w) \/ ClaimLog(w)

Work(w) == BuildEvidence(w) \/ WriteDecision(w) \/ BuildReply(w)

Mark(w) ==
  \/ MarkRead(w)
  \/ MarkTaskStage(w)
  \/ MarkTaskCompleted(w)
  \/ MarkTaskFailed(w)
  \/ MarkLog(w)

Dispatch(w) == Pick(w) \/ Claim(w) \/ Work(w) \/ Mark(w)

Next ==
  \/ Enqueue
  \/ \E t \in TaskIds : LogEnqueue(t) \/ EnqueueCrash(t)
  \/ \E w \in Workers : Dispatch(w) \/ Crash(w)

Spec == Init /\ [][Next]_vars

\* Every dispatcher is started again and again (the operator's loop or a
\* scheduler), and a started process does not pause for ever.
FairSpec == Spec /\ \A w \in Workers : WF_vars(Dispatch(w))

-----------------------------------------------------------------------------
(* Properties that hold for every deployment, overlapping workers included. *)

\* The tables and every process's locals keep their shape.
TypeOK ==
  /\ tasks \in [TaskIds -> Row]
  /\ inserted \in 0 .. MaxTasks
  /\ enqueuing \subseteq 1 .. inserted
  /\ decisions \in [DecisionIds -> DecisionRow]
  /\ decided \in 0 .. MaxDecisions
  /\ logged \in [TaskIds -> SUBSET Event]
  /\ job \in [Workers -> Job]
  /\ crashes \in 0 .. MaxCrashes

\* d is a decision that was written for task t.
DecidedFor(t, d) == d \in 1 .. decided /\ decisions[d].task = t

\* A payload names no decision, or one of t that says what the payload says.
PayloadOK(t, e) ==
  e.decision # 0 => DecidedFor(t, e.decision) /\ decisions[e.decision].quote = e.quote

\* A task past the evidence stage has its evidence, whatever workers with
\* stale snapshots did to the row: the later stages never meet
\* missing_evidence_json.
EvidenceBeforeProgress ==
  \A t \in TaskIds :
    tasks[t].stage \in {"evidence_ready", "decision_ready", "completed"}
      => tasks[t].evidence.quote # NoQuote

\* A task past the decision stage names an existing pricing decision, one
\* written for that very task, and so does its result.
DecisionOwned ==
  \A t \in TaskIds :
    /\ tasks[t].stage \in {"decision_ready", "completed"} => DecidedFor(t, tasks[t].decision)
    /\ tasks[t].stage = "completed" => DecidedFor(t, tasks[t].result.decision)

\* An evidence payload that names a decision says what that decision says:
\* the payload and the decision row are never mixed from two evidence builds.
EvidenceAgreesWithDecision ==
  \A t \in TaskIds : PayloadOK(t, tasks[t].evidence)

-----------------------------------------------------------------------------
(* Why they hold: what each row and each process' locals can be relied on  *)
(* for, at any moment.  The inductive invariant of QuoteTasksProofs.       *)

RowOK(t) ==
  LET row == tasks[t]
  IN  /\ t > inserted => row = NoRow
      /\ row.stage \in {"evidence_ready", "decision_ready", "completed"}
           => row.evidence.quote # NoQuote
      /\ row.stage \in {"decision_ready", "completed"} => row.decision # 0
      /\ row.stage = "completed" => row.result.decision # 0
      /\ row.decision # 0 => DecidedFor(t, row.decision)
      /\ row.result.decision # 0 => DecidedFor(t, row.result.decision)
      /\ PayloadOK(t, row.evidence)

\* Until its work is done a process knows no more than the row still says ...
SnapshotOK(w) ==
  LET j == job[w]
      t == job[w].task
  IN  /\ j.stage \in {"evidence_ready", "decision_ready"} => j.snap.evidence.quote # NoQuote
      /\ j.stage = "decision_ready" => j.snap.decision # 0
      /\ j.snap.evidence.quote # NoQuote => tasks[t].evidence.quote # NoQuote
      /\ j.snap.decision # 0 => DecidedFor(t, j.snap.decision) /\ tasks[t].decision # 0
      /\ PayloadOK(t, j.snap.evidence)

\* ... and from then on it holds what the next stage needs.
OutcomeOK(w) ==
  LET j == job[w]
      t == job[w].task
  IN  /\ j.mark # "none"
      /\ j.mark = "stage" =>
           /\ j.stage \in {"queued", "evidence_ready"}
           /\ j.payload.quote # NoQuote
           /\ j.stage = "evidence_ready" => j.payload.decision # 0
           /\ PayloadOK(t, j.payload)
      /\ j.mark = "completed" =>
           /\ j.stage = "decision_ready"
           /\ j.payload.decision # 0
           /\ DecidedFor(t, j.payload.decision)
           /\ tasks[t].evidence.quote # NoQuote

JobOK(w) ==
  /\ Busy(w) => job[w].task \in 1 .. inserted
  /\ job[w].pc \in {"claim_read", "claim_write", "claim_log", "work"} => SnapshotOK(w)
  /\ job[w].pc \in {"mark_read", "mark_write"} => OutcomeOK(w)

IInv ==
  /\ TypeOK
  /\ \A t \in TaskIds : RowOK(t)
  /\ \A w \in Workers : JobOK(w)

-----------------------------------------------------------------------------
(* Properties of the documented deployment, one worker per stage.          *)

\* w has taken t and has not marked it yet.
Holds(w, t) == job[w].task = t /\ Busy(w) /\ job[w].pc # "mark_log"

\* fetch_next_task_by_stage hands out running tasks too, yet no two workers
\* ever work on one task.
ExclusiveWork ==
  \A t \in TaskIds : \A v, w \in Workers : Holds(v, t) /\ Holds(w, t) => v = w

\* Nobody is in a call about t.
Resting(t) == t \notin enqueuing /\ \A w \in Workers : Busy(w) => job[w].task # t

LoggedTo(t) == {e.to : e \in logged[t]}

\* The timeline of t reaches t's stage, by transitions that connect.
TimelineExplains(t) ==
  /\ tasks[t].stage \in LoggedTo(t)
  /\ \A e \in logged[t] : e.from \in LoggedTo(t) \cup {"none"}

\* The row and its event are two commits, so a death may lose an event: but
\* never more than one task's timeline per death.
LogLossBounded ==
  Cardinality({t \in 1 .. inserted : Resting(t) /\ ~TimelineExplains(t)}) <= crashes

\* d is on its task's row, or on its way there.
Cited(d) ==
  \/ tasks[decisions[d].task].decision = d
  \/ \E w \in Workers : job[w].payload.decision = d

\* A decision that no task names exists only because a process died between
\* write_pricing_decision and mark_task_stage: one orphan per death.
OrphanDecisionsBounded ==
  Cardinality({d \in 1 .. decided : ~Cited(d)}) <= crashes

\* With finitely many deaths every task is completed or failed in the end.
EveryTaskFinishes ==
  \A t \in TaskIds :
    (tasks[t].status = "queued") ~> (tasks[t].status \in {"completed", "failed"})

-----------------------------------------------------------------------------
(* Why they hold: with IInv, the inductive invariants of QuoteTasksProofs. *)

Holding(w) == Busy(w) /\ job[w].pc # "mark_log"

\* A process runs stages that it serves, and the row it holds stays at its stage.
ServedOK(w) ==
  /\ job[w].pc = "scan" => Serves[w] = Stages
  /\ job[w].pc # "idle" => job[w].stage \in Serves[w]
  /\ Holding(w) => tasks[job[w].task].stage = job[w].stage

ServeInv == \A w \in Workers : ServedOK(w)

\* A row has a decision from the decision stage on, the one its evidence names,
\* and a result when it is completed.
LifeRowOK(t) ==
  LET row == tasks[t]
  IN  /\ row.stage \in {"none", "queued", "evidence_ready"} => row.decision = 0
      /\ row.stage = "decision_ready" => row.evidence.decision = row.decision
      /\ row.stage # "completed" => row.result = NoPayload

\* What a process knows of the row it holds is what the row says, and what it is
\* about to write goes with it; a decision it carries is on the row in the end.
LifeJobOK(w) ==
  LET j   == job[w]
      row == tasks[job[w].task]
  IN  /\ j.pc \in {"claim_read", "claim_write", "claim_log", "work"} => j.snap = SnapshotOf(row)
      /\ j.pc \notin {"mark_read", "mark_write", "mark_log"} => j.payload = NoPayload
      /\ j.pc \in {"mark_read", "mark_write"} =>
           /\ j.mark = "stage" /\ j.stage = "queued" => j.payload.decision = 0
           /\ j.mark = "stage" /\ j.stage = "evidence_ready" => j.payload.quote = row.evidence.quote
           /\ j.mark = "completed" => j.payload = row.evidence
           /\ j.mark = "failed" => j.payload = NoPayload
      /\ j.pc = "mark_log" /\ j.payload.decision # 0 => row.decision = j.payload.decision

LifeInv ==
  /\ \A t \in TaskIds : LifeRowOK(t)
  /\ \A w \in Workers : LifeJobOK(w)
  /\ \A d \in 1 .. decided : decisions[d].task \in TaskIds

\* The stages that t's timeline reaches once the calls about it have logged.
Target(w) ==
  IF job[w].pc = "claim_log" THEN job[w].stage
  ELSE IF job[w].mark = "failed" THEN "failed" ELSE NextStage[job[w].stage]

WillLog(w, t) == job[w].task = t /\ job[w].pc \in {"claim_log", "mark_log"}

Promised(t) ==
  LoggedTo(t) \cup {s \in {"queued"} : t \in enqueuing} \cup {Target(w) : w \in {v \in Workers : WillLog(v, t)}}

\* No death has cost t an event.
Intact(t) ==
  /\ tasks[t].stage \in Promised(t)
  /\ \A e \in logged[t] : e.from \in Promised(t) \cup {"none"}
  /\ \A w \in Workers :
       job[w].task = t /\ job[w].pc \in {"claim_write", "claim_log", "mark_write", "mark_log"}
         => job[w].from \in Promised(t) \cup {"none"}

Damaged == {t \in 1 .. inserted : ~Intact(t)}

NoEarlyLog == \A t \in TaskIds : t > inserted => logged[t] = {}

LogInv == NoEarlyLog /\ Cardinality(Damaged) <= crashes

-----------------------------------------------------------------------------
(* What the queue promises: see QuoteTaskLife.                             *)

Life == INSTANCE QuoteTaskLife WITH
          Tasks    <- TaskIds,
          stage    <- [t \in TaskIds |-> tasks[t].stage],
          evidence <- [t \in TaskIds |-> tasks[t].evidence.quote],
          decision <- [t \in TaskIds |-> IF tasks[t].decision = 0
                                          THEN NoQuote
                                          ELSE decisions[tasks[t].decision].quote],
          answer   <- [t \in TaskIds |-> tasks[t].result.quote]

\* One worker per stage implements the abstract life of a task.
ImplementsLife == Life!Spec
=============================================================================
