------------------------------ MODULE STCrawl ------------------------------
(***************************************************************************)
(* The ST price crawl (scripts/st0306_st_task.py): the single-instance     *)
(* lock file, the resume index, the done-models file, the results that are *)
(* kept in memory and saved now and then.                                  *)
(*                                                                         *)
(* A process is one launch.  Each file operation is a step: other launches *)
(* run, and the process may die, between any two of them.  A file that is  *)
(* rewritten is empty from its opening to its closing.  A process id is    *)
(* never reused, and os.kill(pid, 0) tells the living from the dead.  The  *)
(* result files are named by a second, which launches may share.           *)
(***************************************************************************)
EXTENDS Naturals, Sequences, FiniteSets, SequencesExt

CONSTANTS
  Processes,  \* launches of the crawler, each made at most once
  Nobody,     \* no process
  Workbook,   \* the models of the workbook's first column, in order
  Stamps,     \* seconds in which launches come to name their result files
  NoStamp,    \* none yet
  Flows,      \* the command lines in use: [skip, done] says which filters
  SaveEvery,  \* results are saved with every SaveEvery-th model (10)
  MaxErrors,  \* --max-consecutive-errors
  MaxDeaths   \* bound: processes that die

ASSUME NobodyAssumption == Nobody \notin Processes /\ NoStamp \notin Stamps
ASSUME ParametersAssumption ==
  /\ Workbook \in Seq(ToSet(Workbook)) /\ Workbook # <<>>
  /\ SaveEvery \in Nat \ {0} /\ MaxErrors \in Nat \ {0} /\ MaxDeaths \in Nat
  /\ Flows \subseteq [skip : BOOLEAN, done : BOOLEAN]

VARIABLES
  flow,     \* the command line all launches share
  lock,     \* the lock file: who created it, and whether its pid is written
  proc,     \* the local state of every process
  resume,   \* next_index of the resume file; an empty file says 0
  done,     \* the done-models file
  stamp,    \* per process: the second that names its result files
  json,     \* per stamp: the results in the JSON file of that name
  csv,      \* per stamp: the results in the CSV file of that name
  priced,   \* parts_pricing: models that have an ST price
  fetched,  \* models that some process has tried (history)
  passed,   \* per process: models it has checkpointed after trying (history)
  rivals,   \* per process: others that were alive during its launch (history)
  deaths

vars == <<flow, lock, proc, resume, done, stamp, json, csv, priced, fetched, passed, rivals,
          deaths>>

results == <<json, csv, priced>>
history == <<fetched, passed, rivals, deaths>>

Models == ToSet(Workbook)

NoLock == [creator |-> Nobody, written |-> FALSE]

\* todo: the models to fetch, base: how many the resume index left out, i: how
\* many of todo were tried, known: the done-models as read and added to.
NewProcess == [pc |-> "new", todo |-> <<>>, base |-> 0, i |-> 0, known |-> {},
               results |-> {}, errors |-> 0, leaving |-> FALSE]

Launching == {"create", "write_pid", "read_lock", "unlink", "create_again"}
Crawling  == {"prepare", "fetch", "save_json", "write_json", "save_csv", "write_csv",
              "checkpoint", "write_index", "mark_done", "write_done"}
Releasing == {"release", "release_unlink"}
Over      == {"new", "refused", "ended", "dead"}

Alive(p) == proc[p].pc \notin Over
Runs(p)  == proc[p].pc \in Crawling

Goto(p, pc) == proc' = [proc EXCEPT ![p].pc = pc]

Init ==
  /\ flow \in Flows
  /\ lock = NoLock
  /\ proc = [p \in Processes |-> NewProcess]
  /\ resume = 0
  /\ done = {}
  /\ stamp = [p \in Processes |-> NoStamp]
  /\ json = [s \in Stamps |-> {}]
  /\ csv = [s \in Stamps |-> {}]
  /\ priced = {}
  /\ fetched = {}
  /\ passed = [p \in Processes |-> {}]
  /\ rivals = [p \in Processes |-> {}]
  /\ deaths = 0

-----------------------------------------------------------------------------
(* acquire_lock.                                                           *)

Launch(p) ==
  /\ proc[p].pc = "new"
  /\ Goto(p, "create")
  /\ rivals' = [o \in Processes |->
                  IF o = p THEN {q \in Processes : Alive(q)}
                  ELSE IF proc[o].pc \in Launching THEN rivals[o] \cup {p}
                  ELSE rivals[o]]
  /\ UNCHANGED <<flow, stamp, lock, resume, done, results, fetched, passed, deaths>>

\* O_CREAT | O_EXCL: the file exists, empty, before its pid is written.
Create(p, here, else) ==
  /\ proc[p].pc = here
  /\ \/ /\ lock = NoLock
        /\ lock' = [creator |-> p, written |-> FALSE]
        /\ Goto(p, "write_pid")
     \/ /\ lock # NoLock
        /\ Goto(p, else)
        /\ UNCHANGED lock
  /\ UNCHANGED <<flow, stamp, resume, done, results, history>>

CreateLock(p)  == Create(p, "create", "read_lock")
CreateAgain(p) == Create(p, "create_again", "refused")

\* The pid goes into the file that p opened, even if it has been unlinked.
WritePid(p) ==
  /\ proc[p].pc = "write_pid"
  /\ lock' = IF lock.creator = p THEN [lock EXCEPT !.written = TRUE] ELSE lock
  /\ Goto(p, "prepare")
  /\ UNCHANGED <<flow, stamp, resume, done, results, history>>

\* A missing, empty or unreadable file, and the pid of a dead process, are stale.
LockIsStale == ~lock.written \/ ~Alive(lock.creator)

\* Bug: a lock that exists is always taken for a running task's.
ReadLockWithoutRecovery(p) ==
  /\ proc[p].pc = "read_lock"
  /\ Goto(p, IF lock = NoLock THEN "unlink" ELSE "refused")
  /\ UNCHANGED <<flow, stamp, lock, resume, done, results, history>>

ReadLock(p) ==
  /\ proc[p].pc = "read_lock"
  /\ Goto(p, IF LockIsStale THEN "unlink" ELSE "refused")
  /\ UNCHANGED <<flow, stamp, lock, resume, done, results, history>>

\* Unlinks whatever file is there now.  Where open files cannot be unlinked
\* (Windows), the lock of a living process that still writes its pid stays.
Unlinked ==
  \/ lock' = NoLock
  \/ lock # NoLock /\ ~lock.written /\ Alive(lock.creator) /\ UNCHANGED lock

UnlinkStale(p) ==
  /\ proc[p].pc = "unlink"
  /\ Unlinked
  /\ Goto(p, "create_again")
  /\ UNCHANGED <<flow, stamp, resume, done, results, history>>

-----------------------------------------------------------------------------
(* run: the list of models, filtered and then cut at the resume index.     *)

Without(models, excluded) ==
  LET left[n \in 0..Len(models)] ==
        IF n = 0 THEN <<>>
        ELSE IF models[n] \in excluded THEN left[n - 1]
        ELSE Append(left[n - 1], models[n])
  IN  left[Len(models)]

FilteredModels ==
  LET unpriced == IF flow.skip THEN Without(Workbook, priced) ELSE Workbook
  IN  IF flow.done THEN Without(unpriced, done) ELSE unpriced

\* Bug: the models are not cut at the resume index they are counted from.
TodoUncut(models, start) == models

Todo(models, start) == SubSeq(models, start + 1, Len(models))

\* An index beyond the list is reset to 0, in the file too.  A run with something
\* to do names its result files by the time, after a random delay: launches that
\* come to it within one second share a name.
Prepare(p) ==
  /\ proc[p].pc = "prepare"
  /\ LET models == FilteredModels
         start  == IF resume > Len(models) THEN 0 ELSE resume
         todo   == Todo(models, start)
     IN  /\ resume' = start
         /\ IF todo = <<>>
            THEN UNCHANGED stamp
            ELSE \E second \in Stamps : stamp' = [stamp EXCEPT ![p] = second]
         /\ proc' = [proc EXCEPT ![p] =
               [@ EXCEPT !.pc = IF todo = <<>> THEN "release" ELSE "fetch",
                         !.todo = todo, !.base = start,
                         !.known = IF flow.done THEN done ELSE {}]]
  /\ UNCHANGED <<flow, lock, done, results, history>>

\* fetch_one answers for the next model, with a price or without one; too many
\* failures in a row pause the run before this model is checkpointed.
Fetch(p, gotPrice) ==
  /\ proc[p].pc = "fetch"
  /\ LET i      == proc[p].i + 1
         model  == proc[p].todo[i]
         errors == IF gotPrice THEN 0 ELSE proc[p].errors + 1
         pauses == errors >= MaxErrors
         saves  == i % SaveEvery = 0 \/ i = Len(proc[p].todo)
         result == [model |-> model, gotPrice |-> gotPrice]
     IN  /\ proc' = [proc EXCEPT ![p] =
               [@ EXCEPT !.pc = IF pauses \/ saves THEN "save_json" ELSE "checkpoint",
                         !.i = i, !.results = proc[p].results \cup {result},
                         !.errors = errors, !.leaving = pauses]]
         /\ fetched' = fetched \cup {model}
  /\ UNCHANGED <<flow, stamp, lock, resume, done, results, passed, rivals, deaths>>

\* Bug: the exception passes no finally.
AbortKeepingLock(p) ==
  /\ proc[p].pc = "fetch"
  /\ Goto(p, "ended")
  /\ UNCHANGED <<flow, stamp, lock, resume, done, results, history>>

\* A browser error that reconnecting does not cure leaves run by its exception:
\* the lock is released, the results since the last save are not saved.
Abort(p) ==
  /\ proc[p].pc = "fetch"
  /\ Goto(p, "release")
  /\ UNCHANGED <<flow, stamp, lock, resume, done, results, history>>

-----------------------------------------------------------------------------
(* save_results rewrites both files of the run, one after the other.       *)

\* Bug: the CSV file is opened together with the JSON file.
OpenBothFiles(p) ==
  /\ proc[p].pc = "save_json"
  /\ json' = [json EXCEPT ![stamp[p]] = {}]
  /\ csv' = [csv EXCEPT ![stamp[p]] = {}]
  /\ Goto(p, "write_json")
  /\ UNCHANGED <<flow, stamp, lock, resume, done, priced, history>>

OpenJson(p) ==
  /\ proc[p].pc = "save_json"
  /\ json' = [json EXCEPT ![stamp[p]] = {}]
  /\ Goto(p, "write_json")
  /\ UNCHANGED <<flow, stamp, lock, resume, done, csv, priced, history>>

WriteJson(p) ==
  /\ proc[p].pc = "write_json"
  /\ json' = [json EXCEPT ![stamp[p]] = proc[p].results]
  /\ Goto(p, "save_csv")
  /\ UNCHANGED <<flow, stamp, lock, resume, done, csv, priced, history>>

OpenCsv(p) ==
  /\ proc[p].pc = "save_csv"
  /\ csv' = [csv EXCEPT ![stamp[p]] = {}]
  /\ Goto(p, "write_csv")
  /\ UNCHANGED <<flow, stamp, lock, resume, done, json, priced, history>>

\* The save after the loop is the last thing a run does.
WriteCsv(p) ==
  /\ proc[p].pc = "write_csv"
  /\ csv' = [csv EXCEPT ![stamp[p]] = proc[p].results]
  /\ Goto(p, IF proc[p].leaving THEN "release" ELSE "checkpoint")
  /\ UNCHANGED <<flow, stamp, lock, resume, done, json, priced, history>>

-----------------------------------------------------------------------------
(* The checkpoint after each model: save_resume_index, save_done_models.   *)

OpenIndex(p) ==
  /\ proc[p].pc = "checkpoint"
  /\ resume' = 0
  /\ Goto(p, "write_index")
  /\ UNCHANGED <<flow, stamp, lock, done, results, history>>

\* After the last model the loop ends, and the results are saved once more.
AfterCheckpoint(p) == IF proc[p].i = Len(proc[p].todo) THEN "save_json" ELSE "fetch"

WriteIndex(p) ==
  /\ proc[p].pc = "write_index"
  /\ LET i == proc[p].i IN
       /\ resume' = proc[p].base + i
       /\ passed' = [passed EXCEPT ![p] = @ \cup {proc[p].todo[i]}]
       /\ proc' = [proc EXCEPT ![p] =
             [@ EXCEPT !.pc = IF flow.done THEN "mark_done" ELSE AfterCheckpoint(p),
                       !.leaving = (i = Len(proc[p].todo))]]
  /\ UNCHANGED <<flow, stamp, lock, done, results, fetched, rivals, deaths>>

OpenDone(p) ==
  /\ proc[p].pc = "mark_done"
  /\ done' = {}
  /\ Goto(p, "write_done")
  /\ UNCHANGED <<flow, stamp, lock, resume, results, history>>

\* The file is what this process read at its start and has added since.
WriteDone(p) ==
  /\ proc[p].pc = "write_done"
  /\ LET known == proc[p].known \cup {proc[p].todo[proc[p].i]} IN
       /\ done' = known
       /\ proc' = [proc EXCEPT ![p] = [@ EXCEPT !.known = known, !.pc = AfterCheckpoint(p)]]
  /\ UNCHANGED <<flow, stamp, lock, resume, results, history>>

-----------------------------------------------------------------------------
(* release_lock, and the world around the processes.                       *)

\* An empty lock file is removed whoever created it.
ReleaseRead(p) ==
  /\ proc[p].pc = "release"
  /\ Goto(p, IF lock # NoLock /\ (~lock.written \/ lock.creator = p)
             THEN "release_unlink" ELSE "ended")
  /\ UNCHANGED <<flow, stamp, lock, resume, done, results, history>>

ReleaseUnlink(p) ==
  /\ proc[p].pc = "release_unlink"
  /\ Unlinked
  /\ Goto(p, "ended")
  /\ UNCHANGED <<flow, stamp, resume, done, results, history>>

\* The process is killed; its results in memory are gone.
Die(p) ==
  /\ Alive(p)
  /\ deaths < MaxDeaths
  /\ deaths' = deaths + 1
  /\ proc' = [proc EXCEPT ![p] = [NewProcess EXCEPT !.pc = "dead"]]
  /\ UNCHANGED <<flow, stamp, lock, resume, done, results, fetched, passed, rivals>>

\* A saved price is taken over into parts_pricing, by a step outside src.
ImportPrice(m) ==
  /\ m \notin priced
  /\ \E s \in Stamps : [model |-> m, gotPrice |-> TRUE] \in csv[s]
  /\ priced' = priced \cup {m}
  /\ UNCHANGED <<flow, stamp, lock, proc, resume, done, json, csv, history>>

Next ==
  \/ \E p \in Processes :
       \/ Launch(p) \/ CreateLock(p) \/ WritePid(p)
       \/ ReadLock(p) \/ UnlinkStale(p) \/ CreateAgain(p)
       \/ Prepare(p) \/ (\E gotPrice \in BOOLEAN : Fetch(p, gotPrice)) \/ Abort(p)
       \/ OpenJson(p) \/ WriteJson(p) \/ OpenCsv(p) \/ WriteCsv(p)
       \/ OpenIndex(p) \/ WriteIndex(p) \/ OpenDone(p) \/ WriteDone(p)
       \/ ReleaseRead(p) \/ ReleaseUnlink(p) \/ Die(p)
  \/ \E m \in Models : ImportPrice(m)

Spec == Init /\ [][Next]_vars

-----------------------------------------------------------------------------
(* Properties.                                                             *)

Results == [model : Models, gotPrice : BOOLEAN]

\* Every variable has its type; the resume index never exceeds the workbook,
\* and no run counts past its list (load_resume_index, run).
TypeOK ==
  /\ flow \in Flows
  /\ lock \in [creator : Processes \cup {Nobody}, written : BOOLEAN]
  /\ \A p \in Processes :
       /\ proc[p].pc \in Launching \cup Crawling \cup Releasing \cup Over
       /\ ToSet(proc[p].todo) \subseteq Models
       /\ proc[p].i \in 0..Len(proc[p].todo)
       /\ proc[p].base + Len(proc[p].todo) <= Len(Workbook)
       /\ proc[p].errors \in 0..MaxErrors
       /\ proc[p].results \subseteq Results
       /\ stamp[p] \in Stamps \cup {NoStamp}
       /\ proc[p].known \cup passed[p] \subseteq Models
       /\ rivals[p] \subseteq Processes \ {p}
  /\ \A s \in Stamps : json[s] \cup csv[s] \subseteq Results
  /\ resume \in 0..Len(Workbook)
  /\ done \cup priced \cup fetched \subseteq Models
  /\ deaths \in 0..MaxDeaths

\* With no filter the resume index never skips a model: everything before it
\* has been tried, through deaths, half-written files and overlapping runs
\* (run, base_index + i).
ResumeNeverSkips ==
  ~flow.skip /\ ~flow.done => \A k \in 1..resume : Workbook[k] \in fetched

\* p has named its result files, and no other launch has come to the same name.
Alone(p) ==
  /\ stamp[p] \in Stamps
  /\ \A q \in Processes \ {p} : stamp[q] # stamp[p]

Recorded(p) == {r.model : r \in json[stamp[p]] \cup csv[stamp[p]]}

\* Wherever a run dies or aborts, less than SaveEvery of the models it has
\* checkpointed are in neither of its result files: the JSON file is complete
\* again before the CSV file is opened, and both before the index moves on
\* (save_results, run).  Launches that name their files in the same second
\* overwrite each other's.
LostResultsBounded ==
  \A p \in Processes : Alone(p) => Cardinality(passed[p] \ Recorded(p)) < SaveEvery

\* A launch that no other process was alive next to is never refused: what a
\* dead process left behind, a written or an empty lock, is recovered
\* (acquire_lock).
StaleLockNeverBlocks ==
  \A p \in Processes : proc[p].pc = "refused" => rivals[p] # {}

\* Unless a process died, the last one to end leaves no lock behind, however
\* the launches raced for it (acquire_lock, release_lock).
LockReleased ==
  deaths = 0 /\ (\A p \in Processes : ~Alive(p)) => lock = NoLock

-----------------------------------------------------------------------------
(* Why they hold.  The inductive invariants of STCrawlProofs.              *)

\* Whoever lives now was seen by every launch that is still under way.
RivalsSeen ==
  \A p, q \in Processes :
    proc[p].pc \in Launching /\ Alive(q) /\ q # p => q \in rivals[p]

\* A lock belongs to a process that got past creating it, and its pid is in it
\* from the next step on.
LockOwned ==
  lock # NoLock =>
    /\ lock.creator \in Processes
    /\ LET pc == proc[lock.creator].pc
       IN  /\ pc \in (IF lock.written THEN Crawling \cup Releasing ELSE {"write_pid"})
                      \cup {"dead"}
           /\ pc = "dead" => deaths > 0

\* Only a rival can have put a lock where this launch has just removed one.
RefusedByRival ==
  \A p \in Processes :
    proc[p].pc = "refused" \/ (proc[p].pc = "create_again" /\ lock # NoLock) =>
      rivals[p] # {}

LockInv == RivalsSeen /\ LockOwned /\ RefusedByRival

\* p's position is in its list, before its end where a model is to be fetched; only a
\* run that leaves has reached the limit of errors.
PlaceKept(p) ==
  LET pc == proc[p].pc
  IN  /\ proc[p].todo \in Seq(Models) /\ proc[p].base \in Nat
      /\ pc \in Launching \cup {"new", "prepare"} => proc[p].i = 0
      /\ pc = "fetch" => proc[p].i < Len(proc[p].todo)
      /\ pc \in Crawling \ {"prepare", "fetch"} => proc[p].i > 0
      /\ \/ proc[p].errors < MaxErrors
         \/ pc \in {"save_json", "write_json", "save_csv", "write_csv"} /\ proc[p].leaving
         \/ pc \in Releasing \cup {"ended"}

TypeInv == TypeOK /\ \A p \in Processes : PlaceKept(p)

\* The first n models of a list, and the models a result file has.
FirstModels(list, n) == {list[k] : k \in 1..n}
ModelsOf(file)       == {r.model : r \in file}

\* n models without those since the last full batch.
FullBatches(n) == n - (n % SaveEvery)

\* What the files of p have while p runs.
FilesHave(p) ==
  LET pc     == proc[p].pc
      i      == proc[p].i
      todo   == proc[p].todo
      inJson == ModelsOf(json[stamp[p]])
      inCsv  == ModelsOf(csv[stamp[p]])
  IN  /\ pc \in {"fetch", "checkpoint", "write_index", "mark_done", "write_done"} =>
           FirstModels(todo, FullBatches(i)) \subseteq inJson \cap inCsv
      /\ pc \in {"save_json", "write_json"} =>
           \E n \in 0..i : /\ passed[p] \subseteq FirstModels(todo, n)
                          /\ FirstModels(todo, FullBatches(n)) \subseteq inCsv
      /\ pc \in {"save_csv", "write_csv"} => FirstModels(todo, i) \subseteq inJson

\* While p runs, what it has tried is in its memory; the batches that are full
\* are in both files, and while one file is rewritten the other has them.
ResultsKept(p) ==
  LET pc   == proc[p].pc
      i    == proc[p].i
      todo == proc[p].todo
  IN  /\ i \in Nat
      /\ pc \in Launching \cup {"new", "prepare"} =>
           passed[p] = {} /\ i = 0 /\ stamp[p] = NoStamp
      /\ pc \in Crawling \ {"prepare"} => stamp[p] \in Stamps
      /\ pc \in Crawling \ {"prepare", "fetch"} => i > 0
      /\ pc \in Crawling =>
           /\ passed[p] \subseteq FirstModels(todo, i)
           /\ FirstModels(todo, i) \subseteq ModelsOf(proc[p].results)
      /\ Alone(p) => FilesHave(p)

LossInv == LostResultsBounded /\ \A p \in Processes : ResultsKept(p)

\* Without filters every run's list is a tail of the workbook, and all that is
\* before its position has been tried.
ResumeInv ==
  ~flow.skip /\ ~flow.done =>
    /\ ResumeNeverSkips
    /\ resume \in 0..Len(Workbook)
    /\ \A p \in Processes :
         LET r == proc[p] IN
         /\ r.todo \in Seq(Models) /\ r.base \in Nat
         /\ r.base + Len(r.todo) <= Len(Workbook)
         /\ \A k \in 1..Len(r.todo) : r.todo[k] = Workbook[r.base + k]
         /\ r.i \in 0..Len(r.todo)
         /\ r.pc \in Launching \cup {"new", "prepare"} => r.i = 0
         /\ r.pc = "fetch" => r.i < Len(r.todo)
         /\ \A k \in 1..(r.base + r.i) : Workbook[k] \in fetched

-----------------------------------------------------------------------------
(* What the documents say.                                                 *)

\* A run that had no rival at its launch came to the end of its list.
Finished(p) ==
  /\ proc[p].pc = "ended" /\ rivals[p] = {}
  /\ proc[p].i = Len(proc[p].todo)
  /\ proc[p].errors < MaxErrors

\* docs/workflows/recover-resume.md, Prefer continuation from valid state: once
\* a run finishes, no model of the workbook is left that nobody has tried.
FinishedRunCoversAll ==
  \A p \in Processes : Finished(p) => Models \subseteq fetched \cup priced \cup done
=============================================================================
