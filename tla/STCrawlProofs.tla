--------------------------- MODULE STCrawlProofs ---------------------------
(***************************************************************************)
(* Theorems about STCrawl, for every set of launches, every workbook, all  *)
(* of the command lines and every bound: the lock is recovered and         *)
(* released, few results are lost, without filters the resume index skips  *)
(* nothing, and no position or count leaves its range.                     *)
(***************************************************************************)
EXTENDS STCrawl, FiniteSetTheorems, SequenceTheorems, WellFoundedInduction, TLAPS

-----------------------------------------------------------------------------
(* The shape of the variables.  The lists a filter leaves are typed last:  *)
(* nothing before depends on what Without returns.                         *)

Fields == {"pc", "todo", "base", "i", "known", "results", "errors", "leaving"}

Shape ==
  /\ DOMAIN proc = Processes
  /\ \A p \in Processes : DOMAIN proc[p] = Fields
  /\ DOMAIN stamp = Processes /\ DOMAIN json = Stamps /\ DOMAIN csv = Stamps
  /\ DOMAIN passed = Processes /\ DOMAIN rivals = Processes
  /\ lock \in [creator : Processes \cup {Nobody}, written : BOOLEAN]
  /\ deaths \in Nat

\* The steps of process p that take the lock, run the loop and give it back.
Acquire(p) == \/ CreateLock(p) \/ WritePid(p) \/ ReadLock(p) \/ UnlinkStale(p) \/ CreateAgain(p)
Crawl(p)   == \/ Prepare(p) \/ (\E gotPrice \in BOOLEAN : Fetch(p, gotPrice)) \/ Abort(p)
              \/ OpenJson(p) \/ WriteJson(p) \/ OpenCsv(p) \/ WriteCsv(p)
              \/ OpenIndex(p) \/ WriteIndex(p) \/ OpenDone(p) \/ WriteDone(p)
Release(p) == ReleaseRead(p) \/ ReleaseUnlink(p)

\* Every step is a process's, or takes a price over.
LEMMA NextSteps ==
  ASSUME Next
  PROVE  \/ \E p \in Processes : Launch(p) \/ Acquire(p) \/ Crawl(p) \/ Release(p) \/ Die(p)
         \/ \E m \in Models : ImportPrice(m)
BY DEF Next, Acquire, Crawl, Release

\* The initial state has the shape.
LEMMA ShapeInit == Init => Shape
BY DEF Init, Shape, NewProcess, NoLock, Fields

\* A step that only moves p's program counter.
LEMMA GotoStep ==
  ASSUME Shape, NEW p \in Processes, NEW pc, Goto(p, pc)
  PROVE  /\ DOMAIN proc' = Processes
         /\ \A q \in Processes : DOMAIN proc'[q] = Fields
         /\ \A q \in Processes \ {p} : proc'[q] = proc[q]
         /\ proc'[p].pc = pc
         /\ proc'[p].i = proc[p].i /\ proc'[p].todo = proc[p].todo
         /\ proc'[p].base = proc[p].base /\ proc'[p].results = proc[p].results
BY DEF Shape, Goto, Fields

\* What a launch does to the local states, and what it leaves alone.
LEMMA LaunchStep ==
  ASSUME Shape, NEW p \in Processes, Launch(p)
  PROVE  /\ Shape'
         /\ \A q \in Processes \ {p} : proc'[q] = proc[q]
         /\ proc[p].pc = "new" /\ proc'[p].pc = "create"
         /\ proc'[p].i = proc[p].i /\ proc'[p].todo = proc[p].todo
         /\ proc'[p].base = proc[p].base /\ proc'[p].results = proc[p].results
         /\ UNCHANGED <<flow, stamp, lock, resume, done, results, fetched, passed, deaths>>
<1>1. Goto(p, "create") /\ proc[p].pc = "new"
  BY DEF Launch
<1>2. DOMAIN rivals' = Processes
  BY DEF Launch
<1>3. UNCHANGED <<flow, stamp, lock, resume, done, results, fetched, passed, deaths>>
  BY DEF Launch
<1>. QED
  BY <1>1, <1>2, <1>3, GotoStep DEF Shape, results

\* The same of a step of acquire_lock.
LEMMA AcquireStep ==
  ASSUME Shape, NEW p \in Processes, Acquire(p)
  PROVE  /\ Shape'
         /\ \A q \in Processes \ {p} : proc'[q] = proc[q]
         /\ proc[p].pc \in Launching /\ proc'[p].pc \in Launching \cup {"prepare", "refused"}
         /\ proc'[p].i = proc[p].i /\ proc'[p].todo = proc[p].todo
         /\ proc'[p].base = proc[p].base /\ proc'[p].results = proc[p].results
         /\ UNCHANGED <<flow, stamp, resume, done, results, history>>
<1>1. PICK pc \in Launching \cup {"prepare", "refused"} : Goto(p, pc)
  BY DEF Acquire, CreateLock, CreateAgain, Create, WritePid, ReadLock, UnlinkStale, Launching
<1>2. proc[p].pc \in Launching
  BY DEF Acquire, CreateLock, CreateAgain, Create, WritePid, ReadLock, UnlinkStale, Launching
<1>3. \/ lock' = lock
      \/ lock' = NoLock
      \/ lock' = [creator |-> p, written |-> FALSE]
      \/ lock.creator = p /\ lock' = [lock EXCEPT !.written = TRUE]
  BY DEF Acquire, CreateLock, CreateAgain, Create, WritePid, ReadLock, UnlinkStale, Unlinked
<1>4. lock' \in [creator : Processes \cup {Nobody}, written : BOOLEAN]
  <2>1. CASE lock' = lock
    BY <2>1 DEF Shape
  <2>2. CASE lock' = NoLock
    BY <2>2 DEF NoLock
  <2>3. CASE lock' = [creator |-> p, written |-> FALSE]
    BY <2>3
  <2>4. CASE lock.creator = p /\ lock' = [lock EXCEPT !.written = TRUE]
    BY <2>4 DEF Shape
  <2>. QED
    BY <1>3, <2>1, <2>2, <2>3, <2>4
<1>5. UNCHANGED <<flow, stamp, resume, done, results, history>>
  BY DEF Acquire, CreateLock, CreateAgain, Create, WritePid, ReadLock, UnlinkStale
<1>. QED
  BY <1>1, <1>2, <1>4, <1>5, GotoStep DEF Shape, results, history

\* Steps of the loop that only move the program counter.
LEMMA GotoCrawlStep ==
  ASSUME Shape, NEW p \in Processes,
         \/ Abort(p) \/ OpenJson(p) \/ WriteJson(p) \/ OpenCsv(p) \/ WriteCsv(p)
         \/ OpenIndex(p) \/ OpenDone(p)
  PROVE  /\ Shape'
         /\ \A q \in Processes \ {p} : proc'[q] = proc[q]
         /\ proc[p].pc \in Crawling /\ proc'[p].pc \in Crawling \cup Releasing
         /\ proc'[p].i = proc[p].i /\ proc'[p].todo = proc[p].todo
         /\ proc'[p].base = proc[p].base /\ proc'[p].results = proc[p].results
         /\ UNCHANGED <<flow, stamp, lock, priced, history>>
<1>1. PICK pc \in Crawling \cup Releasing : Goto(p, pc)
  BY DEF Abort, OpenJson, WriteJson, OpenCsv, WriteCsv, OpenIndex, OpenDone, Crawling, Releasing
<1>2. proc[p].pc \in Crawling
  BY DEF Abort, OpenJson, WriteJson, OpenCsv, WriteCsv, OpenIndex, OpenDone, Crawling
<1>3. UNCHANGED <<flow, stamp, lock, priced, history>>
  BY DEF Abort, OpenJson, WriteJson, OpenCsv, WriteCsv, OpenIndex, OpenDone, results, history
<1>4. DOMAIN json' = Stamps /\ DOMAIN csv' = Stamps
  BY DEF Abort, OpenJson, WriteJson, OpenCsv, WriteCsv, OpenIndex, OpenDone, results, Shape
<1>. QED
  BY <1>1, <1>2, <1>3, <1>4, GotoStep DEF Shape, history

\* Prepare takes the position 0 of a list, and leaves the memory alone; it names the
\* files if the list has a model.
LEMMA PrepareStep ==
  ASSUME Shape, NEW p \in Processes, Prepare(p)
  PROVE  /\ Shape'
         /\ \A q \in Processes \ {p} : proc'[q] = proc[q]
         /\ proc[p].pc = "prepare"
         /\ proc'[p].pc = IF proc'[p].todo = <<>> THEN "release" ELSE "fetch"
         /\ proc'[p].i = proc[p].i /\ proc'[p].results = proc[p].results
         /\ proc'[p].base = (IF resume > Len(FilteredModels) THEN 0 ELSE resume)
         /\ proc'[p].todo = Todo(FilteredModels, proc'[p].base)
         /\ resume' = proc'[p].base
         /\ \A q \in Processes \ {p} : stamp'[q] = stamp[q]
         /\ proc'[p].pc = "fetch" => stamp'[p] \in Stamps
         /\ stamp'[p] \in Stamps \cup {stamp[p]}
         /\ UNCHANGED <<flow, lock, done, results, history>>
<1>. DEFINE start == IF resume > Len(FilteredModels) THEN 0 ELSE resume
            todo  == Todo(FilteredModels, start)
<1>1. proc' = [proc EXCEPT ![p] =
        [@ EXCEPT !.pc = IF todo = <<>> THEN "release" ELSE "fetch",
                  !.todo = todo, !.base = start,
                  !.known = IF flow.done THEN done ELSE {}]]
  BY DEF Prepare
<1>2. /\ proc[p].pc = "prepare" /\ resume' = start
      /\ UNCHANGED <<flow, lock, done, results, history>>
      /\ IF todo = <<>> THEN stamp' = stamp
         ELSE \E second \in Stamps : stamp' = [stamp EXCEPT ![p] = second]
  BY DEF Prepare
<1>. HIDE DEF start, todo
<1>3. /\ DOMAIN proc' = Processes
      /\ \A q \in Processes : DOMAIN proc'[q] = Fields
      /\ \A q \in Processes \ {p} : proc'[q] = proc[q]
      /\ proc'[p].pc = IF todo = <<>> THEN "release" ELSE "fetch"
      /\ proc'[p].i = proc[p].i /\ proc'[p].results = proc[p].results
      /\ proc'[p].base = start /\ proc'[p].todo = todo
  BY <1>1 DEF Shape, Fields
<1>4. /\ DOMAIN stamp' = Processes
      /\ \A q \in Processes \ {p} : stamp'[q] = stamp[q]
      /\ proc'[p].pc = "fetch" => stamp'[p] \in Stamps
      /\ stamp'[p] \in Stamps \cup {stamp[p]}
  BY <1>2, <1>3 DEF Shape
<1>5. Shape'
  BY <1>2, <1>3, <1>4 DEF Shape, results, history
<1>. QED
  BY <1>2, <1>3, <1>4, <1>5 DEF start, todo

\* Fetch takes one more model of the list into the memory.
LEMMA FetchStep ==
  ASSUME Shape, NEW p \in Processes, NEW gotPrice \in BOOLEAN, Fetch(p, gotPrice)
  PROVE  LET i == proc[p].i + 1 IN
         /\ Shape'
         /\ \A q \in Processes \ {p} : proc'[q] = proc[q]
         /\ proc[p].pc = "fetch" /\ proc'[p].pc \in {"save_json", "checkpoint"}
         /\ proc'[p].pc = "checkpoint" => i % SaveEvery # 0
         /\ proc'[p].i = i /\ proc'[p].todo = proc[p].todo /\ proc'[p].base = proc[p].base
         /\ proc'[p].results =
              proc[p].results \cup {[model |-> proc[p].todo[i], gotPrice |-> gotPrice]}
         /\ fetched' = fetched \cup {proc[p].todo[i]}
         /\ UNCHANGED <<flow, stamp, lock, resume, done, results, passed, rivals, deaths>>
<1>. DEFINE i == proc[p].i + 1
            errors == IF gotPrice THEN 0 ELSE proc[p].errors + 1
            pauses == errors >= MaxErrors
            saves == i % SaveEvery = 0 \/ i = Len(proc[p].todo)
            pc == IF pauses \/ saves THEN "save_json" ELSE "checkpoint"
            result == [model |-> proc[p].todo[i], gotPrice |-> gotPrice]
<1>1. proc' = [proc EXCEPT ![p] =
        [@ EXCEPT !.pc = pc, !.i = i, !.results = proc[p].results \cup {result},
                  !.errors = errors, !.leaving = pauses]]
  BY DEF Fetch
<1>2. pc \in {"save_json", "checkpoint"} /\ (pc = "checkpoint" => i % SaveEvery # 0)
  OBVIOUS
<1>3. /\ proc[p].pc = "fetch"
      /\ fetched' = fetched \cup {proc[p].todo[i]}
      /\ UNCHANGED <<flow, stamp, lock, resume, done, results, passed, rivals, deaths>>
  BY DEF Fetch
<1>. HIDE DEF i, errors, pauses, saves, pc, result
<1>4. /\ DOMAIN proc' = Processes
      /\ \A q \in Processes : DOMAIN proc'[q] = Fields
      /\ \A q \in Processes \ {p} : proc'[q] = proc[q]
      /\ proc'[p].pc = pc /\ proc'[p].i = i
      /\ proc'[p].todo = proc[p].todo /\ proc'[p].base = proc[p].base
      /\ proc'[p].results = proc[p].results \cup {result}
  BY <1>1 DEF Shape, Fields
<1>5. Shape'
  BY <1>3, <1>4 DEF Shape, results
<1>. QED
  BY <1>2, <1>3, <1>4, <1>5 DEF i, result

\* WriteIndex checkpoints the model at p's position.
LEMMA WriteIndexStep ==
  ASSUME Shape, NEW p \in Processes, WriteIndex(p)
  PROVE  /\ Shape'
         /\ \A q \in Processes \ {p} : proc'[q] = proc[q]
         /\ proc[p].pc = "write_index"
         /\ proc'[p].pc \in {"mark_done", "save_json", "fetch"}
         /\ proc'[p].pc = "fetch" => proc[p].i # Len(proc[p].todo)
         /\ proc'[p].i = proc[p].i /\ proc'[p].todo = proc[p].todo
         /\ proc'[p].base = proc[p].base /\ proc'[p].results = proc[p].results
         /\ resume' = proc[p].base + proc[p].i
         /\ passed' = [passed EXCEPT ![p] = @ \cup {proc[p].todo[proc[p].i]}]
         /\ flow.done => proc'[p].pc = "mark_done"
         /\ UNCHANGED <<flow, stamp, lock, done, results, fetched, rivals, deaths>>
<1>. DEFINE pc == IF flow.done THEN "mark_done" ELSE AfterCheckpoint(p)
            leaving == (proc[p].i = Len(proc[p].todo))
<1>1. proc' = [proc EXCEPT ![p] = [@ EXCEPT !.pc = pc, !.leaving = leaving]]
  BY DEF WriteIndex
<1>2. /\ pc \in {"mark_done", "save_json", "fetch"}
      /\ pc = "fetch" => proc[p].i # Len(proc[p].todo)
      /\ flow.done => pc = "mark_done"
  BY DEF AfterCheckpoint
<1>3. /\ proc[p].pc = "write_index"
      /\ resume' = proc[p].base + proc[p].i
      /\ passed' = [passed EXCEPT ![p] = @ \cup {proc[p].todo[proc[p].i]}]
      /\ UNCHANGED <<flow, stamp, lock, done, results, fetched, rivals, deaths>>
  BY DEF WriteIndex
<1>. HIDE DEF pc, leaving
<1>4. /\ DOMAIN proc' = Processes
      /\ \A q \in Processes : DOMAIN proc'[q] = Fields
      /\ \A q \in Processes \ {p} : proc'[q] = proc[q]
      /\ proc'[p].pc = pc /\ proc'[p].i = proc[p].i /\ proc'[p].todo = proc[p].todo
      /\ proc'[p].base = proc[p].base /\ proc'[p].results = proc[p].results
  BY <1>1 DEF Shape, Fields
<1>5. Shape'
  BY <1>3, <1>4 DEF Shape, results
<1>. QED
  BY <1>2, <1>3, <1>4, <1>5

\* WriteDone changes the done-models, in the file and in p's memory.
LEMMA WriteDoneStep ==
  ASSUME Shape, NEW p \in Processes, WriteDone(p)
  PROVE  /\ Shape'
         /\ \A q \in Processes \ {p} : proc'[q] = proc[q]
         /\ proc[p].pc = "write_done" /\ proc'[p].pc \in {"save_json", "fetch"}
         /\ proc'[p].pc = "fetch" => proc[p].i # Len(proc[p].todo)
         /\ proc'[p].i = proc[p].i /\ proc'[p].todo = proc[p].todo
         /\ proc'[p].base = proc[p].base /\ proc'[p].results = proc[p].results
         /\ UNCHANGED <<flow, stamp, lock, resume, results, history>>
<1>. DEFINE pc == AfterCheckpoint(p)
            known == proc[p].known \cup {proc[p].todo[proc[p].i]}
<1>1. proc' = [proc EXCEPT ![p] = [@ EXCEPT !.known = known, !.pc = pc]]
  BY DEF WriteDone
<1>2. /\ pc \in {"save_json", "fetch"}
      /\ pc = "fetch" => proc[p].i # Len(proc[p].todo)
  BY DEF AfterCheckpoint
<1>3. proc[p].pc = "write_done" /\ UNCHANGED <<flow, stamp, lock, resume, results, history>>
  BY DEF WriteDone
<1>. HIDE DEF pc, known
<1>4. /\ DOMAIN proc' = Processes
      /\ \A q \in Processes : DOMAIN proc'[q] = Fields
      /\ \A q \in Processes \ {p} : proc'[q] = proc[q]
      /\ proc'[p].pc = pc /\ proc'[p].i = proc[p].i /\ proc'[p].todo = proc[p].todo
      /\ proc'[p].base = proc[p].base /\ proc'[p].results = proc[p].results
  BY <1>1 DEF Shape, Fields
<1>5. Shape'
  BY <1>3, <1>4 DEF Shape, results, history
<1>. QED
  BY <1>2, <1>3, <1>4, <1>5

\* What every step of the loop has in common.
LEMMA CrawlStep ==
  ASSUME Shape, NEW p \in Processes, Crawl(p)
  PROVE  /\ Shape'
         /\ \A q \in Processes \ {p} : proc'[q] = proc[q]
         /\ proc[p].pc \in Crawling /\ proc'[p].pc \in Crawling \cup Releasing
         /\ UNCHANGED <<flow, lock, priced, rivals, deaths>>
<1>1. CASE Prepare(p)
  BY <1>1, PrepareStep DEF Crawling, Releasing, results, history
<1>2. CASE \E gotPrice \in BOOLEAN : Fetch(p, gotPrice)
  BY <1>2, FetchStep DEF Crawling, results
<1>3. CASE WriteIndex(p)
  BY <1>3, WriteIndexStep DEF Crawling, results
<1>4. CASE WriteDone(p)
  BY <1>4, WriteDoneStep DEF Crawling, results, history
<1>5. CASE \/ Abort(p) \/ OpenJson(p) \/ WriteJson(p) \/ OpenCsv(p) \/ WriteCsv(p)
           \/ OpenIndex(p) \/ OpenDone(p)
  BY <1>5, GotoCrawlStep DEF history
<1>. QED
  BY <1>1, <1>2, <1>3, <1>4, <1>5 DEF Crawl

\* What a step of release_lock does to the local states.
LEMMA ReleaseStep ==
  ASSUME Shape, NEW p \in Processes, Release(p)
  PROVE  /\ Shape'
         /\ \A q \in Processes \ {p} : proc'[q] = proc[q]
         /\ proc[p].pc \in Releasing /\ proc'[p].pc \in {"release_unlink", "ended"}
         /\ proc'[p].i = proc[p].i /\ proc'[p].todo = proc[p].todo
         /\ proc'[p].base = proc[p].base /\ proc'[p].results = proc[p].results
         /\ UNCHANGED <<flow, stamp, resume, done, results, history>>
<1>1. PICK pc \in {"release_unlink", "ended"} : Goto(p, pc)
  BY DEF Release, ReleaseRead, ReleaseUnlink
<1>2. /\ proc[p].pc \in Releasing
      /\ lock' = lock \/ lock' = NoLock
      /\ UNCHANGED <<flow, stamp, resume, done, results, history>>
  BY DEF Release, ReleaseRead, ReleaseUnlink, Unlinked, Releasing
<1>3. lock' \in [creator : Processes \cup {Nobody}, written : BOOLEAN]
  <2>1. CASE lock' = lock
    BY <2>1 DEF Shape
  <2>2. CASE lock' = NoLock
    BY <2>2 DEF NoLock
  <2>. QED
    BY <1>2, <2>1, <2>2
<1>. QED
  BY <1>1, <1>2, <1>3, GotoStep DEF Shape, results, history

\* What the death of a process does to the local states.
LEMMA DieStep ==
  ASSUME Shape, NEW p \in Processes, Die(p)
  PROVE  /\ Shape'
         /\ \A q \in Processes \ {p} : proc'[q] = proc[q]
         /\ Alive(p) /\ proc'[p].pc = "dead" /\ deaths' > 0
         /\ proc'[p].i = 0 /\ proc'[p].todo = <<>> /\ proc'[p].base = 0
         /\ UNCHANGED <<flow, stamp, lock, resume, done, results, fetched, passed, rivals>>
<1>1. /\ Alive(p) /\ deaths' = deaths + 1
      /\ proc' = [proc EXCEPT ![p] = [NewProcess EXCEPT !.pc = "dead"]]
      /\ UNCHANGED <<flow, stamp, lock, resume, done, results, fetched, passed, rivals>>
  BY DEF Die
<1>2. /\ DOMAIN proc' = Processes
      /\ \A q \in Processes : DOMAIN proc'[q] = Fields
      /\ \A q \in Processes \ {p} : proc'[q] = proc[q]
      /\ proc'[p].pc = "dead"
      /\ proc'[p].i = 0 /\ proc'[p].todo = <<>> /\ proc'[p].base = 0
  BY <1>1 DEF Shape, Fields, NewProcess
<1>. QED
  BY <1>1, <1>2 DEF Shape, results

\* Taking a price over touches no process and no file of the crawler.
LEMMA ImportStep ==
  ASSUME Shape, NEW m, ImportPrice(m)
  PROVE  Shape' /\ UNCHANGED <<flow, stamp, lock, proc, resume, done, json, csv, history>>
BY DEF ImportPrice, Shape, history

\* Nothing happens.
LEMMA StutterStep == Shape /\ UNCHANGED vars => Shape'
BY DEF vars, Shape

\* The shape of the variables is an invariant.
THEOREM ShapeInvariant == Spec => []Shape
<1>1. Shape /\ [Next]_vars => Shape'
  BY NextSteps, LaunchStep, AcquireStep, CrawlStep, ReleaseStep, DieStep, ImportStep,
     StutterStep
<1>. QED
  BY <1>1, ShapeInit, PTL DEF Spec

-----------------------------------------------------------------------------
(* The lock.                                                               *)

\* The process ids that count for the lock are those of Launching processes and
\* of living ones; only Launch adds to either.
LEMMA RivalsStep ==
  ASSUME Shape, RivalsSeen, rivals' = rivals,
         \A p \in Processes : proc'[p].pc \in Launching => proc[p].pc \in Launching,
         \A p \in Processes : Alive(p)' => Alive(p)
  PROVE  RivalsSeen'
BY DEF RivalsSeen

\* The launch of p: everyone under way sees p, and p sees everyone alive.
LEMMA LockLaunch ==
  ASSUME Shape, LockInv, NEW p \in Processes, Launch(p)
  PROVE  LockInv'
<1>1. /\ \A q \in Processes \ {p} : proc'[q] = proc[q]
      /\ proc[p].pc = "new" /\ proc'[p].pc = "create"
      /\ UNCHANGED <<lock, deaths>>
  BY LaunchStep
<1>2. /\ rivals'[p] = {q \in Processes : Alive(q)}
      /\ \A q \in Processes \ {p} :
           rivals'[q] = IF proc[q].pc \in Launching THEN rivals[q] \cup {p} ELSE rivals[q]
  BY DEF Launch
<1>3. RivalsSeen'
  BY <1>1, <1>2 DEF LockInv, RivalsSeen, Alive
<1>4. LockOwned'
  BY <1>1 DEF LockInv, LockOwned, Crawling, Releasing
<1>5. RefusedByRival'
  BY <1>1, <1>2 DEF LockInv, RefusedByRival
<1>. QED
  BY <1>3, <1>4, <1>5 DEF LockInv

\* A step of acquire_lock: a lock that is there, or comes, while p launches is a
\* living rival's, or p's own.
LEMMA LockAcquire ==
  ASSUME Shape, LockInv, NEW p \in Processes, Acquire(p)
  PROVE  LockInv'
<1>1. /\ \A q \in Processes \ {p} : proc'[q] = proc[q]
      /\ proc[p].pc \in Launching /\ proc'[p].pc \in Launching \cup {"prepare", "refused"}
      /\ UNCHANGED <<rivals, deaths>>
  BY AcquireStep DEF history
<1>2. RivalsSeen'
  BY <1>1, RivalsStep DEF LockInv, Alive, Over, Launching
<1>3. lock # NoLock /\ lock.creator = p => proc[p].pc = "write_pid" /\ ~lock.written
  BY <1>1 DEF LockInv, LockOwned, Launching, Crawling, Releasing
<1>4. lock # NoLock /\ Alive(lock.creator) /\ lock.creator # p => rivals[p] # {}
  BY <1>1 DEF LockInv, LockOwned, RivalsSeen
<1>5. CASE CreateLock(p) \/ CreateAgain(p)
  <2>1. CASE /\ lock = NoLock /\ lock' = [creator |-> p, written |-> FALSE]
             /\ proc'[p].pc = "write_pid"
    <3>1. LockOwned'
      BY <2>1 DEF LockOwned
    <3>2. RefusedByRival'
      BY <1>1, <2>1 DEF LockInv, RefusedByRival, RivalsSeen, Alive, Over, Launching
    <3>. QED
      BY <1>2, <3>1, <3>2 DEF LockInv
  <2>2. CASE /\ lock # NoLock /\ lock' = lock
             /\ \/ proc'[p].pc = "read_lock"
                \/ proc[p].pc = "create_again" /\ proc'[p].pc = "refused"
    <3>1. LockOwned'
      BY <1>1, <1>3, <1>5, <2>2 DEF LockInv, LockOwned, CreateLock, CreateAgain, Create
    <3>2. proc'[p].pc \in {"create_again", "refused"} => rivals[p] # {}
      BY <2>2 DEF LockInv, RefusedByRival
    <3>3. RefusedByRival'
      BY <1>1, <2>2, <3>2 DEF LockInv, RefusedByRival
    <3>. QED
      BY <1>2, <3>1, <3>3 DEF LockInv
  <2>. QED
    BY <1>5, <2>1, <2>2, GotoStep DEF CreateLock, CreateAgain, Create
<1>6. CASE WritePid(p)
  <2>1. proc'[p].pc = "prepare"
    BY <1>6, GotoStep DEF WritePid
  <2>2. \/ lock' = lock /\ lock.creator # p
        \/ lock.creator = p /\ lock' = [lock EXCEPT !.written = TRUE]
    BY <1>6 DEF WritePid
  <2>3. LockOwned'
    BY <1>1, <2>1, <2>2 DEF LockInv, LockOwned, Crawling, Shape
  <2>4. lock' # NoLock => lock # NoLock
    BY <2>2, NobodyAssumption DEF NoLock, Shape
  <2>5. RefusedByRival'
    BY <1>1, <2>1, <2>4 DEF LockInv, RefusedByRival
  <2>. QED
    BY <1>2, <2>3, <2>5 DEF LockInv
<1>7. CASE ReadLock(p)
  <2>1. /\ lock' = lock /\ proc[p].pc = "read_lock"
        /\ proc'[p].pc = IF LockIsStale THEN "unlink" ELSE "refused"
    BY <1>7, GotoStep DEF ReadLock
  <2>2. LockOwned'
    BY <1>1, <1>3, <2>1 DEF LockInv, LockOwned
  <2>3. proc'[p].pc = "refused" => rivals[p] # {}
    BY <1>3, <1>4, <2>1 DEF LockIsStale, NoLock
  <2>4. RefusedByRival'
    BY <1>1, <2>1, <2>3 DEF LockInv, RefusedByRival
  <2>. QED
    BY <1>2, <2>2, <2>4 DEF LockInv
<1>8. CASE UnlinkStale(p)
  <2>1. /\ proc[p].pc = "unlink" /\ proc'[p].pc = "create_again"
        /\ \/ lock' = NoLock
           \/ lock # NoLock /\ Alive(lock.creator) /\ lock' = lock
    BY <1>8, GotoStep DEF UnlinkStale, Unlinked
  <2>2. LockOwned'
    BY <1>1, <1>3, <2>1 DEF LockInv, LockOwned
  <2>3. RefusedByRival'
    BY <1>1, <1>3, <1>4, <2>1 DEF LockInv, RefusedByRival
  <2>. QED
    BY <1>2, <2>2, <2>3 DEF LockInv
<1>. QED
  BY <1>5, <1>6, <1>7, <1>8 DEF Acquire

\* A step of the loop leaves the lock alone.
LEMMA LockCrawl ==
  ASSUME Shape, LockInv, NEW p \in Processes, Crawl(p)
  PROVE  LockInv'
<1>1. /\ \A q \in Processes \ {p} : proc'[q] = proc[q]
      /\ proc[p].pc \in Crawling /\ proc'[p].pc \in Crawling \cup Releasing
      /\ UNCHANGED <<lock, rivals, deaths>>
  BY CrawlStep
<1>2. RivalsSeen'
  BY <1>1, RivalsStep DEF LockInv, Alive, Over, Launching, Crawling, Releasing
<1>3. LockOwned'
  BY <1>1 DEF LockInv, LockOwned, Crawling, Releasing
<1>4. RefusedByRival'
  BY <1>1 DEF LockInv, RefusedByRival, Crawling, Releasing
<1>. QED
  BY <1>2, <1>3, <1>4 DEF LockInv

\* release_lock: a process does not end with its own lock left behind.
LEMMA LockRelease ==
  ASSUME Shape, LockInv, NEW p \in Processes, Release(p)
  PROVE  LockInv'
<1>1. /\ \A q \in Processes \ {p} : proc'[q] = proc[q]
      /\ proc[p].pc \in Releasing /\ proc'[p].pc \in {"release_unlink", "ended"}
      /\ UNCHANGED <<rivals, deaths>>
  BY ReleaseStep DEF history
<1>2. RivalsSeen'
  BY <1>1, RivalsStep DEF LockInv, Alive, Over, Launching, Releasing
<1>3. \/ lock' = NoLock
      \/ lock' = lock /\ (lock # NoLock => lock.creator # p \/ proc'[p].pc = "release_unlink")
  <2>1. CASE ReleaseRead(p)
    BY <2>1, GotoStep DEF ReleaseRead
  <2>2. CASE ReleaseUnlink(p)
    BY <1>1, <2>2 DEF ReleaseUnlink, Unlinked, LockInv, LockOwned, Releasing
  <2>. QED
    BY <2>1, <2>2 DEF Release
<1>4. LockOwned'
  BY <1>1, <1>3 DEF LockInv, LockOwned, Releasing
<1>5. RefusedByRival'
  BY <1>1, <1>3 DEF LockInv, RefusedByRival
<1>. QED
  BY <1>2, <1>4, <1>5 DEF LockInv

\* A process that dies leaves its lock, and counts as a death.
LEMMA LockDie ==
  ASSUME Shape, LockInv, NEW p \in Processes, Die(p)
  PROVE  LockInv'
<1>1. /\ \A q \in Processes \ {p} : proc'[q] = proc[q]
      /\ proc'[p].pc = "dead" /\ deaths' > 0
      /\ UNCHANGED <<lock, rivals>>
  BY DieStep
<1>2. RivalsSeen'
  BY <1>1, RivalsStep DEF LockInv, Alive, Over, Launching
<1>3. LockOwned'
  BY <1>1 DEF LockInv, LockOwned
<1>4. RefusedByRival'
  BY <1>1 DEF LockInv, RefusedByRival
<1>. QED
  BY <1>2, <1>3, <1>4 DEF LockInv

\* Importing a price and stuttering touch neither the lock nor a process.
LEMMA LockStutter == 
  ASSUME LockInv, UNCHANGED <<lock, proc, rivals, deaths>>
  PROVE  LockInv'
BY DEF LockInv, RivalsSeen, LockOwned, RefusedByRival, Alive

\* Who holds the lock, and whom a launch has seen, is an invariant.
THEOREM LockInvariant == Spec => []LockInv
<1>1. Init => LockInv
  BY DEF Init, LockInv, RivalsSeen, LockOwned, RefusedByRival, NewProcess, Launching
<1>2. Shape /\ LockInv /\ [Next]_vars => LockInv'
  BY NextSteps, LockLaunch, LockAcquire, LockCrawl, LockRelease, LockDie, ImportStep,
     LockStutter DEF vars, history
<1>. QED
  BY <1>1, <1>2, ShapeInvariant, PTL DEF Spec

\* A launch is refused only next to a rival (acquire_lock): the lock of a dead
\* process is always recovered.
THEOREM StaleLockRecovered == Spec => []StaleLockNeverBlocks
<1>1. LockInv => StaleLockNeverBlocks
  BY DEF LockInv, RefusedByRival, StaleLockNeverBlocks
<1>. QED
  BY <1>1, LockInvariant, PTL

\* Without a death the last process to end leaves no lock (release_lock).
THEOREM LastOneReleases == Spec => []LockReleased
<1>1. LockInv => LockReleased
  BY DEF LockInv, LockOwned, LockReleased, Alive, Over, Crawling, Releasing
<1>. QED
  BY <1>1, LockInvariant, PTL

-----------------------------------------------------------------------------
(* The resume index.                                                       *)

\* The part of ResumeInv that is about one process.
Tried(p) ==
  /\ proc[p].todo \in Seq(Models) /\ proc[p].base \in Nat
  /\ proc[p].base + Len(proc[p].todo) <= Len(Workbook)
  /\ \A k \in 1..Len(proc[p].todo) : proc[p].todo[k] = Workbook[proc[p].base + k]
  /\ proc[p].i \in 0..Len(proc[p].todo)
  /\ proc[p].pc \in Launching \cup {"new", "prepare"} => proc[p].i = 0
  /\ proc[p].pc = "fetch" => proc[p].i < Len(proc[p].todo)
  /\ \A k \in 1..(proc[p].base + proc[p].i) : Workbook[k] \in fetched

Unfiltered == ~flow.skip /\ ~flow.done

IndexTried ==
  /\ resume \in 0..Len(Workbook)
  /\ \A k \in 1..resume : Workbook[k] \in fetched

\* ResumeInv by its named parts.
LEMMA ResumeParts ==
  ResumeInv <=> (Unfiltered => IndexTried /\ \A p \in Processes : Tried(p))
BY DEF ResumeInv, ResumeNeverSkips, Unfiltered, IndexTried, Tried

\* The part of a process that does not move stays, as more is fetched.
LEMMA TriedOthers ==
  ASSUME NEW p \in Processes, \A q \in Processes : Tried(q), fetched \subseteq fetched',
         \A q \in Processes \ {p} : proc'[q] = proc[q]
  PROVE  \A q \in Processes \ {p} : Tried(q)'
BY DEF Tried

\* A process that leaves its list and its position alone, and does not come to
\* fetch, keeps its part; so does everyone else.
LEMMA TriedKept ==
  ASSUME NEW p \in Processes, \A q \in Processes : Tried(q), fetched \subseteq fetched',
         \A q \in Processes \ {p} : proc'[q] = proc[q],
         proc'[p].i = proc[p].i, proc'[p].todo = proc[p].todo, proc'[p].base = proc[p].base,
         proc'[p].pc = "fetch" => proc[p].i < Len(proc[p].todo),
         proc'[p].pc \in Launching \cup {"new", "prepare"} =>
           proc[p].pc \in Launching \cup {"new", "prepare"}
  PROVE  \A q \in Processes : Tried(q)'
<1>1. Tried(p)'
  BY DEF Tried
<1>. QED
  BY <1>1, TriedOthers

\* Prepare: without filters the list is the workbook from the index on.
LEMMA TriedPrepare ==
  ASSUME Shape, Unfiltered, IndexTried, \A q \in Processes : Tried(q),
         NEW p \in Processes, Prepare(p)
  PROVE  IndexTried' /\ \A q \in Processes : Tried(q)'
<1>1. /\ \A q \in Processes \ {p} : proc'[q] = proc[q]
      /\ proc'[p].pc = IF proc'[p].todo = <<>> THEN "release" ELSE "fetch"
      /\ proc[p].pc = "prepare" /\ proc'[p].i = proc[p].i
      /\ proc'[p].base = (IF resume > Len(FilteredModels) THEN 0 ELSE resume)
      /\ proc'[p].todo = Todo(FilteredModels, proc'[p].base)
      /\ resume' = proc'[p].base
      /\ fetched' = fetched
  BY PrepareStep DEF history
<1>2. FilteredModels = Workbook
  BY DEF FilteredModels, Unfiltered
<1>3. Workbook \in Seq(Models) /\ Len(Workbook) \in Nat
  BY ParametersAssumption DEF Models
<1>4. /\ proc'[p].base = resume /\ resume' = resume
      /\ proc'[p].todo = SubSeq(Workbook, resume + 1, Len(Workbook))
  <2>1. resume \in Nat /\ ~(resume > Len(Workbook))
    BY <1>3 DEF IndexTried
  <2>2. proc'[p].base = resume
    BY <1>1, <1>2, <2>1
  <2>. QED
    BY <1>1, <1>2, <2>2 DEF Todo
<1>5. /\ proc'[p].todo \in Seq(Models)
      /\ Len(proc'[p].todo) = Len(Workbook) - resume
      /\ \A k \in 1..Len(proc'[p].todo) : proc'[p].todo[k] = Workbook[resume + k]
  BY <1>3, <1>4, SubSeqProperties DEF IndexTried
<1>6. proc'[p].i = 0
  BY <1>1 DEF Tried
<1>7. proc'[p].pc = "fetch" => Len(proc'[p].todo) > 0
  BY <1>1, <1>5
<1>8. Tried(p)'
  <2>1. resume \in Nat /\ resume <= Len(Workbook) /\ resume + 0 = resume
    BY <1>3 DEF IndexTried
  <2>2. \A k \in 1..(proc'[p].base + proc'[p].i) : Workbook[k] \in fetched'
    BY <1>1, <1>4, <1>6, <2>1 DEF IndexTried
  <2>3. proc'[p].base + Len(proc'[p].todo) <= Len(Workbook)
    BY <1>3, <1>4, <1>5, <2>1
  <2>4. proc'[p].i \in 0..Len(proc'[p].todo)
    BY <1>3, <1>5, <1>6, <2>1
  <2>. QED
    BY <1>4, <1>5, <1>6, <1>7, <2>1, <2>2, <2>3, <2>4 DEF Tried
<1>9. \A q \in Processes \ {p} : Tried(q)'
  BY <1>1, TriedOthers
<1>. QED
  BY <1>1, <1>4, <1>8, <1>9 DEF IndexTried

\* Fetch: the model after p's position is the next one of the workbook.
LEMMA TriedFetch ==
  ASSUME Shape, IndexTried, \A q \in Processes : Tried(q),
         NEW p \in Processes, NEW gotPrice \in BOOLEAN, Fetch(p, gotPrice)
  PROVE  IndexTried' /\ \A q \in Processes : Tried(q)'
<1>1. /\ \A q \in Processes \ {p} : proc'[q] = proc[q]
      /\ proc[p].pc = "fetch" /\ proc'[p].pc \in {"save_json", "checkpoint"}
      /\ proc'[p].i = proc[p].i + 1
      /\ proc'[p].todo = proc[p].todo /\ proc'[p].base = proc[p].base
      /\ fetched' = fetched \cup {proc[p].todo[proc[p].i + 1]}
      /\ resume' = resume
  BY FetchStep
<1>2. IndexTried'
  BY <1>1 DEF IndexTried
<1>3. /\ proc[p].base \in Nat /\ proc[p].i \in Nat /\ Len(proc[p].todo) \in Nat
      /\ proc[p].i < Len(proc[p].todo)
      /\ proc[p].todo[proc[p].i + 1] = Workbook[proc[p].base + (proc[p].i + 1)]
  <2>1. /\ proc[p].todo \in Seq(Models) /\ proc[p].base \in Nat
        /\ proc[p].i \in 0..Len(proc[p].todo) /\ proc[p].i < Len(proc[p].todo)
        /\ \A k \in 1..Len(proc[p].todo) : proc[p].todo[k] = Workbook[proc[p].base + k]
    BY <1>1 DEF Tried
  <2>2. Len(proc[p].todo) \in Nat
    BY <2>1
  <2>3. proc[p].i + 1 \in 1..Len(proc[p].todo)
    BY <2>1, <2>2
  <2>. QED
    BY <2>1, <2>2, <2>3
<1>4. ASSUME NEW k \in 1..(proc[p].base + (proc[p].i + 1))
      PROVE  Workbook[k] \in fetched'
  <2>1. CASE k = proc[p].base + (proc[p].i + 1)
    BY <1>1, <1>3, <2>1
  <2>2. CASE k # proc[p].base + (proc[p].i + 1)
    <3>1. k \in 1..(proc[p].base + proc[p].i)
      BY <1>3, <2>2
    <3>. QED
      BY <1>1, <3>1 DEF Tried
  <2>. QED
    BY <2>1, <2>2
<1>5. Tried(p)'
  <2>1. /\ proc'[p].todo \in Seq(Models) /\ proc'[p].base \in Nat
        /\ proc'[p].base + Len(proc'[p].todo) <= Len(Workbook)
        /\ \A k \in 1..Len(proc'[p].todo) : proc'[p].todo[k] = Workbook[proc'[p].base + k]
    BY <1>1 DEF Tried
  <2>2. proc'[p].i \in 0..Len(proc'[p].todo)
    BY <1>1, <1>3
  <2>3. \A k \in 1..(proc'[p].base + proc'[p].i) : Workbook[k] \in fetched'
    BY <1>1, <1>4
  <2>4. proc'[p].pc \notin Launching \cup {"new", "prepare", "fetch"}
    BY <1>1 DEF Launching
  <2>. QED
    BY <2>1, <2>2, <2>3, <2>4 DEF Tried
<1>6. \A q \in Processes \ {p} : Tried(q)'
  BY <1>1, TriedOthers
<1>. QED
  BY <1>2, <1>5, <1>6

\* WriteIndex writes the position of p, up to which all has been tried.
LEMMA TriedWriteIndex ==
  ASSUME Shape, IndexTried, \A q \in Processes : Tried(q), NEW p \in Processes, WriteIndex(p)
  PROVE  IndexTried' /\ \A q \in Processes : Tried(q)'
<1>1. /\ \A q \in Processes \ {p} : proc'[q] = proc[q]
      /\ proc'[p].pc \in {"mark_done", "save_json", "fetch"}
      /\ proc'[p].pc = "fetch" => proc[p].i # Len(proc[p].todo)
      /\ proc'[p].i = proc[p].i
      /\ proc'[p].todo = proc[p].todo /\ proc'[p].base = proc[p].base
      /\ resume' = proc[p].base + proc[p].i /\ fetched' = fetched
  BY WriteIndexStep
<1>2. /\ Len(proc[p].todo) \in Nat /\ Len(Workbook) \in Nat
      /\ proc[p].i \in 0..Len(proc[p].todo)
  BY ParametersAssumption DEF Tried
<1>3. IndexTried'
  BY <1>1, <1>2 DEF IndexTried, Tried
<1>4. proc'[p].pc = "fetch" => proc[p].i < Len(proc[p].todo)
  BY <1>1, <1>2
<1>. QED
  BY <1>1, <1>3, <1>4, TriedKept DEF Launching

\* The other steps of the loop: the index is emptied, or left alone.
LEMMA TriedGoto ==
  ASSUME Shape, IndexTried, \A q \in Processes : Tried(q), NEW p \in Processes,
         \/ Abort(p) \/ OpenJson(p) \/ WriteJson(p) \/ OpenCsv(p) \/ WriteCsv(p)
         \/ OpenIndex(p) \/ OpenDone(p)
  PROVE  IndexTried' /\ \A q \in Processes : Tried(q)'
<1>1. /\ \A q \in Processes \ {p} : proc'[q] = proc[q]
      /\ proc'[p].i = proc[p].i
      /\ proc'[p].todo = proc[p].todo /\ proc'[p].base = proc[p].base
      /\ fetched' = fetched
  BY GotoCrawlStep DEF history
<1>2. resume' = resume \/ resume' = 0
  BY DEF Abort, OpenJson, WriteJson, OpenCsv, WriteCsv, OpenIndex, OpenDone
<1>3. IndexTried'
  BY <1>1, <1>2, ParametersAssumption DEF IndexTried
<1>4. proc'[p].pc \notin Launching \cup {"new", "prepare", "fetch"}
  BY GotoStep DEF Abort, OpenJson, WriteJson, OpenCsv, WriteCsv, OpenIndex, OpenDone, Launching
<1>. QED
  BY <1>1, <1>3, <1>4, TriedKept

\* A dead process has an empty list.
LEMMA TriedDie ==
  ASSUME Shape, IndexTried, \A q \in Processes : Tried(q), NEW p \in Processes, Die(p)
  PROVE  IndexTried' /\ \A q \in Processes : Tried(q)'
<1>1. /\ \A q \in Processes \ {p} : proc'[q] = proc[q]
      /\ proc'[p].pc = "dead"
      /\ proc'[p].i = 0 /\ proc'[p].todo = <<>> /\ proc'[p].base = 0
      /\ resume' = resume /\ fetched' = fetched
  BY DieStep
<1>2. Len(Workbook) \in Nat /\ Len(<<>>) = 0 /\ <<>> \in Seq(Models)
  BY ParametersAssumption
<1>3. Tried(p)'
  BY <1>1, <1>2 DEF Tried, Launching
<1>. QED
  BY <1>1, <1>3, TriedOthers DEF IndexTried

\* One step of anything.
LEMMA TriedNext ==
  ASSUME Shape, Unfiltered, IndexTried, \A q \in Processes : Tried(q), Next
  PROVE  IndexTried' /\ \A q \in Processes : Tried(q)'
<1>1. ASSUME NEW p \in Processes, Launch(p) \/ Acquire(p) \/ Release(p)
      PROVE  IndexTried' /\ \A q \in Processes : Tried(q)'
  <2>1. /\ \A q \in Processes \ {p} : proc'[q] = proc[q]
        /\ proc'[p].i = proc[p].i
        /\ proc'[p].todo = proc[p].todo /\ proc'[p].base = proc[p].base
        /\ resume' = resume /\ fetched' = fetched
        /\ proc'[p].pc # "fetch"
        /\ \/ proc[p].pc \in Launching \cup {"new"}
           \/ proc'[p].pc \notin Launching \cup {"new", "prepare"}
    BY <1>1, LaunchStep, AcquireStep, ReleaseStep DEF history, Launching
  <2>2. IndexTried'
    BY <2>1 DEF IndexTried
  <2>. QED
    BY <2>1, <2>2, TriedKept
<1>2. ASSUME NEW p \in Processes, Crawl(p)
      PROVE  IndexTried' /\ \A q \in Processes : Tried(q)'
  <2>1. CASE WriteDone(p)
    <3>1. /\ \A q \in Processes \ {p} : proc'[q] = proc[q]
          /\ proc'[p].pc \in {"save_json", "fetch"}
          /\ proc'[p].pc = "fetch" => proc[p].i # Len(proc[p].todo)
          /\ proc'[p].i = proc[p].i
          /\ proc'[p].todo = proc[p].todo /\ proc'[p].base = proc[p].base
          /\ resume' = resume /\ fetched' = fetched
      BY <2>1, WriteDoneStep DEF history
    <3>2. Len(proc[p].todo) \in Nat /\ proc[p].i \in 0..Len(proc[p].todo)
      BY DEF Tried
    <3>3. proc'[p].pc = "fetch" => proc[p].i < Len(proc[p].todo)
      BY <3>1, <3>2
    <3>4. IndexTried'
      BY <3>1 DEF IndexTried
    <3>. QED
      BY <3>1, <3>3, <3>4, TriedKept DEF Launching
  <2>. QED
    BY <1>2, <2>1, TriedPrepare, TriedFetch, TriedWriteIndex, TriedGoto DEF Crawl
<1>3. ASSUME NEW m \in Models, ImportPrice(m)
      PROVE  IndexTried' /\ \A q \in Processes : Tried(q)'
  <2>1. UNCHANGED <<proc, resume, fetched>>
    BY <1>3 DEF ImportPrice, history
  <2>. QED
    BY <2>1 DEF IndexTried, Tried
<1>. QED
  BY <1>1, <1>2, <1>3, NextSteps, TriedDie

\* The command line all launches share does not change.
LEMMA FlowKept ==
  ASSUME Shape, [Next]_vars
  PROVE  flow' = flow
<1>1. ASSUME NEW p \in Processes, Launch(p) \/ Acquire(p) \/ Crawl(p) \/ Release(p) \/ Die(p)
      PROVE  flow' = flow
  BY <1>1, LaunchStep, AcquireStep, CrawlStep, ReleaseStep, DieStep
<1>. QED
  BY <1>1, NextSteps, ImportStep DEF vars

\* Without filters all that is before anyone's position, and before the index,
\* has been tried (run, base_index + i).
THEOREM ResumeInvariant == Spec => []ResumeInv
<1>1. Init => ResumeInv
  <2>1. SUFFICES ASSUME Init PROVE IndexTried /\ \A p \in Processes : Tried(p)
    BY ResumeParts
  <2>2. Len(Workbook) \in Nat /\ Len(<<>>) = 0 /\ <<>> \in Seq(Models)
    BY ParametersAssumption
  <2>3. resume = 0 /\ proc = [p \in Processes |-> NewProcess]
    BY <2>1 DEF Init
  <2>4. ASSUME NEW p \in Processes PROVE Tried(p)
    <3>1. /\ proc[p].pc = "new" /\ proc[p].i = 0
          /\ proc[p].todo = <<>> /\ proc[p].base = 0
      BY <2>3 DEF NewProcess
    <3>. QED
      BY <2>2, <3>1 DEF Tried
  <2>. QED
    BY <2>2, <2>3, <2>4 DEF IndexTried
<1>2. Shape /\ ResumeInv /\ [Next]_vars => ResumeInv'
  <2>1. SUFFICES ASSUME Shape, ResumeInv, [Next]_vars, Unfiltered'
                 PROVE  IndexTried' /\ \A p \in Processes : Tried(p)'
    BY DEF ResumeInv, ResumeNeverSkips, Unfiltered, IndexTried, Tried
  <2>2. Unfiltered
    BY <2>1, FlowKept DEF Unfiltered
  <2>3. IndexTried /\ \A p \in Processes : Tried(p)
    BY <2>1, <2>2, ResumeParts
  <2>4. CASE Next
    BY <2>1, <2>2, <2>3, <2>4, TriedNext
  <2>5. CASE UNCHANGED vars
    BY <2>3, <2>5 DEF vars, IndexTried, Tried
  <2>. QED
    BY <2>1, <2>4, <2>5
<1>. QED
  BY <1>1, <1>2, ShapeInvariant, PTL DEF Spec

\* With no filter the index skips no model of the workbook (run), whatever
\* dies, overlaps or is half written, for every workbook.
THEOREM IndexSkipsNothing == Spec => []ResumeNeverSkips
<1>1. ResumeInv => ResumeNeverSkips
  BY DEF ResumeInv, ResumeNeverSkips
<1>. QED
  BY <1>1, ResumeInvariant, PTL

-----------------------------------------------------------------------------
(* The results.                                                            *)

\* A division has one remainder.
LEMMA QuotientUnique ==
  ASSUME NEW e \in Nat \ {0}, NEW q \in Nat, NEW k \in Nat,
         NEW r \in 0..(e - 1), NEW s \in 0..(e - 1), (e * q) + r = (e * k) + s
  PROVE  r = s
<1>1. e * (q - k) = s - r
  OBVIOUS
<1>2. ASSUME q > k PROVE FALSE
  <2>1. e * (q - k) >= e
    BY <1>2
  <2>. QED
    BY <1>1, <2>1
<1>3. ASSUME q < k PROVE FALSE
  <2>1. e * (k - q) >= e
    BY <1>3
  <2>2. e * (k - q) = r - s
    BY <1>1
  <2>. QED
    BY <2>1, <2>2
<1>. QED
  BY <1>1, <1>2, <1>3

\* Dividing by the size of a batch.
LEMMA Division ==
  ASSUME NEW n \in Nat
  PROVE  /\ n % SaveEvery \in 0..(SaveEvery - 1)
         /\ \E q \in Nat : n = (SaveEvery * q) + (n % SaveEvery)
<1>1. SaveEvery \in Nat \ {0}
  BY ParametersAssumption
<1>2. /\ n \div SaveEvery \in Nat
      /\ n = (SaveEvery * (n \div SaveEvery)) + (n % SaveEvery)
      /\ n % SaveEvery \in 0..(SaveEvery - 1)
  BY <1>1
<1>. QED
  BY <1>2

\* Less than a batch is beyond the full batches.
LEMMA BatchBounds ==
  ASSUME NEW n \in Nat
  PROVE  FullBatches(n) \in 0..n /\ n - FullBatches(n) < SaveEvery
<1>1. PICK q \in Nat : n = (SaveEvery * q) + (n % SaveEvery)
  BY Division
<1>2. n % SaveEvery \in 0..(SaveEvery - 1) /\ SaveEvery \in Nat
  BY Division, ParametersAssumption
<1>3. SaveEvery * q \in Nat
  BY <1>2
<1>4. FullBatches(n) = n - (n % SaveEvery)
  BY DEF FullBatches
<1>. QED
  BY <1>1, <1>2, <1>3, <1>4

\* A model that ends no batch starts none either.
LEMMA BatchNext ==
  ASSUME NEW n \in Nat, (n + 1) % SaveEvery # 0
  PROVE  FullBatches(n + 1) = FullBatches(n)
<1>. DEFINE r == n % SaveEvery
            s == (n + 1) % SaveEvery
<1>1. SaveEvery \in Nat \ {0} /\ n + 1 \in Nat
  BY ParametersAssumption
<1>2. PICK q \in Nat : n = (SaveEvery * q) + r
  BY Division
<1>3. PICK k \in Nat : n + 1 = (SaveEvery * k) + s
  BY <1>1, Division
<1>4. r \in 0..(SaveEvery - 1) /\ s \in 0..(SaveEvery - 1)
  BY <1>1, Division
<1>5. s - 1 \in 0..(SaveEvery - 1)
  BY <1>1, <1>4
<1>6. (SaveEvery * q) + r = (SaveEvery * k) + (s - 1)
  <2>1. SaveEvery * q \in Nat /\ SaveEvery * k \in Nat
    BY <1>1
  <2>. HIDE DEF r, s
  <2>. QED
    BY <1>1, <1>2, <1>3, <1>4, <2>1
<1>7. r = s - 1
  <2>. HIDE DEF r, s
  <2>. QED
    BY <1>1, <1>4, <1>5, <1>6, QuotientUnique
<1>. QED
  <2>1. FullBatches(n) = n - r /\ FullBatches(n + 1) = (n + 1) - s
    BY DEF FullBatches
  <2>. HIDE DEF r, s
  <2>. QED
    BY <1>4, <1>7, <2>1

\* More models are a longer beginning of the list.
LEMMA FirstGrows ==
  ASSUME NEW list, NEW n \in Nat, NEW m \in 0..n
  PROVE  FirstModels(list, m) \subseteq FirstModels(list, n)
BY DEF FirstModels

\* One more model.
LEMMA FirstNext ==
  ASSUME NEW list, NEW n \in Nat
  PROVE  FirstModels(list, n + 1) = FirstModels(list, n) \cup {list[n + 1]}
BY DEF FirstModels

\* What is known of the full batches bounds what is lost.
LEMMA LossBound ==
  ASSUME NEW list, NEW n \in Nat, NEW checkpointed, NEW kept,
         checkpointed \subseteq FirstModels(list, n),
         FirstModels(list, FullBatches(n)) \subseteq kept
  PROVE  Cardinality(checkpointed \ kept) < SaveEvery
<1>. DEFINE from   == FullBatches(n) + 1
            beyond == from..n
            f      == [k \in beyond |-> list[k]]
            image  == {f[k] : k \in beyond}
<1>1. FullBatches(n) \in 0..n /\ n - FullBatches(n) < SaveEvery
  BY BatchBounds
<1>2. IsFiniteSet(beyond) /\ Cardinality(beyond) = n - FullBatches(n)
  <2>1. from \in Int /\ n \in Int /\ from <= n + 1 /\ n - from + 1 = n - FullBatches(n)
    BY <1>1
  <2>2. IsFiniteSet(beyond) /\ Cardinality(beyond) = IF from > n THEN 0 ELSE n - from + 1
    <3>. HIDE DEF from
    <3>. QED
      BY <2>1, FS_Interval
  <2>. HIDE DEF from
  <2>. QED
    BY <2>1, <2>2
<1>3. IsFiniteSet(image) /\ Cardinality(image) <= Cardinality(beyond)
  <2>1. f \in Surjection(beyond, image)
    BY DEF Surjection
  <2>. HIDE DEF f, image, beyond
  <2>. QED
    BY <1>2, <2>1, FS_Surjection
<1>4. checkpointed \ kept \subseteq image
  <2>1. SUFFICES ASSUME NEW m \in checkpointed \ kept
                 PROVE  m \in image
    OBVIOUS
  <2>2. PICK k \in 1..n : m = list[k]
    BY <2>1 DEF FirstModels
  <2>3. k \notin 1..FullBatches(n)
    BY <2>1, <2>2 DEF FirstModels
  <2>4. k \in beyond
    BY <1>1, <2>3
  <2>. QED
    BY <2>2, <2>4
<1>5. Cardinality(checkpointed \ kept) <= Cardinality(image)
  BY <1>3, <1>4, FS_Subset
<1>6. /\ Cardinality(checkpointed \ kept) \in Nat
      /\ Cardinality(image) \in Nat
  BY <1>3, <1>4, FS_Subset, FS_CardinalityType
<1>. QED
  BY <1>1, <1>2, <1>3, <1>5, <1>6, ParametersAssumption

\* What is kept altogether is not lost.
LEMMA NothingLost ==
  ASSUME NEW kept, NEW checkpointed, checkpointed \subseteq kept
  PROVE  Cardinality(checkpointed \ kept) < SaveEvery
<1>1. checkpointed \ kept = {}
  OBVIOUS
<1>2. Cardinality(checkpointed \ kept) = 0
  BY <1>1, FS_EmptySet
<1>. QED
  BY <1>2, ParametersAssumption

\* LossInv of one process: what it remembers, and what its files have while nobody
\* else's have their name.
Memory(p) ==
  LET pc   == proc[p].pc
      i    == proc[p].i
      todo == proc[p].todo
  IN  /\ i \in Nat
      /\ pc \in Launching \cup {"new", "prepare"} =>
           passed[p] = {} /\ i = 0 /\ stamp[p] = NoStamp
      /\ pc \in Crawling \ {"prepare"} => stamp[p] \in Stamps
      /\ pc \in Crawling \ {"prepare", "fetch"} => i > 0
      /\ pc \in Crawling =>
           /\ passed[p] \subseteq FirstModels(todo, i)
           /\ FirstModels(todo, i) \subseteq ModelsOf(proc[p].results)

LostFew(p) == Cardinality(passed[p] \ Recorded(p)) < SaveEvery
Files(p)   == Alone(p) => LostFew(p) /\ FilesHave(p)
Kept(p)    == Memory(p) /\ Files(p)

\* LossInv by its named parts.
LEMMA LossParts == LossInv <=> \A p \in Processes : Kept(p)
BY DEF LossInv, LostResultsBounded, ResultsKept, Kept, Memory, Files, LostFew

\* A process none of whose state changes, and none of the files it has for itself,
\* keeps its part.
LEMMA KeptUnchanged ==
  ASSUME NEW q, Kept(q),
         proc'[q] = proc[q], passed'[q] = passed[q], stamp'[q] = stamp[q],
         Alone(q)' =>
           /\ Alone(q)
           /\ json'[stamp[q]] = json[stamp[q]] /\ csv'[stamp[q]] = csv[stamp[q]]
  PROVE  Kept(q)'
<1>1. Memory(q)'
  BY DEF Kept, Memory
<1>2. ASSUME Alone(q)' PROVE LostFew(q)' /\ FilesHave(q)'
  BY <1>2 DEF Kept, Files, LostFew, Recorded, FilesHave
<1>. QED
  BY <1>1, <1>2 DEF Kept, Files

\* Whether p has its files for itself depends on the names alone.
LEMMA AloneKept ==
  ASSUME stamp' = stamp, NEW p
  PROVE  Alone(p)' = Alone(p)
BY DEF Alone

\* No model is the beginning of a list.
LEMMA FirstNone == \A list : FirstModels(list, 0) = {}
BY DEF FirstModels

\* Before the loop nothing is checkpointed, after it nothing changes.
LEMMA KeptOutside ==
  ASSUME Shape, NEW p \in Processes, Kept(p), Launch(p) \/ Acquire(p) \/ Release(p)
  PROVE  Kept(p)'
<1>1. /\ proc'[p].i = proc[p].i /\ proc'[p].todo = proc[p].todo
      /\ proc'[p].results = proc[p].results
      /\ json' = json /\ csv' = csv /\ passed' = passed /\ stamp' = stamp
      /\ \/ /\ proc[p].pc \in Launching \cup {"new"}
            /\ proc'[p].pc \in Launching \cup {"prepare", "refused"}
         \/ proc'[p].pc \in {"release_unlink", "ended"}
  BY LaunchStep, AcquireStep, ReleaseStep DEF history, results, Launching
<1>2. CASE /\ proc[p].pc \in Launching \cup {"new"}
           /\ proc'[p].pc \in Launching \cup {"prepare", "refused"}
  <2>1. passed'[p] = {} /\ proc'[p].i = 0 /\ stamp'[p] = NoStamp
    BY <1>1, <1>2 DEF Kept, Memory
  <2>2. Memory(p)'
    BY <1>2, <2>1, FirstNone DEF Memory, Launching, Crawling
  <2>3. ~Alone(p)'
    BY <2>1, NobodyAssumption DEF Alone
  <2>. QED
    BY <2>2, <2>3 DEF Kept, Files
<1>3. CASE proc'[p].pc \in {"release_unlink", "ended"}
  <2>1. Memory(p)'
    BY <1>1, <1>3 DEF Kept, Memory, Launching, Crawling
  <2>2. FilesHave(p)'
    BY <1>3 DEF FilesHave
  <2>. QED
    BY <1>1, <2>1, <2>2, AloneKept DEF Kept, Files, LostFew, Recorded
<1>. QED
  BY <1>1, <1>2, <1>3

\* Death takes the memory, not the files.
LEMMA KeptDie ==
  ASSUME Shape, NEW p \in Processes, Kept(p), Die(p)
  PROVE  Kept(p)'
<1>1. /\ proc'[p].pc = "dead" /\ proc'[p].i = 0
      /\ json' = json /\ csv' = csv /\ passed' = passed /\ stamp' = stamp
  BY DieStep DEF results
<1>2. Memory(p)'
  BY <1>1 DEF Memory, Launching, Crawling
<1>3. FilesHave(p)'
  BY <1>1 DEF FilesHave
<1>. QED
  BY <1>1, <1>2, <1>3, AloneKept DEF Kept, Files, LostFew, Recorded

\* Prepare: position 0 of any list.
LEMMA KeptPrepare ==
  ASSUME Shape, NEW p \in Processes, Kept(p), Prepare(p)
  PROVE  Kept(p)'
<1>1. /\ proc[p].pc = "prepare" /\ proc'[p].pc \in {"release", "fetch"}
      /\ proc'[p].i = proc[p].i /\ passed' = passed
      /\ proc'[p].pc = "fetch" => stamp'[p] \in Stamps
  BY PrepareStep DEF history
<1>2. passed'[p] = {} /\ proc'[p].i = 0
  BY <1>1 DEF Kept, Memory
<1>3. FullBatches(0) = 0
  BY BatchBounds
<1>4. Memory(p)'
  BY <1>1, <1>2, FirstNone DEF Memory, Launching, Crawling
<1>5. FilesHave(p)'
  BY <1>1, <1>2, <1>3, FirstNone DEF FilesHave
<1>6. LostFew(p)'
  BY <1>2, NothingLost DEF LostFew
<1>. QED
  BY <1>4, <1>5, <1>6 DEF Kept, Files

\* Fetch: either the batch is not full, or the files are rewritten next.
LEMMA KeptFetch ==
  ASSUME Shape, NEW p \in Processes, Kept(p), NEW gotPrice \in BOOLEAN, Fetch(p, gotPrice)
  PROVE  Kept(p)'
<1>. DEFINE i == proc[p].i
            todo == proc[p].todo
            file == stamp[p]
            result == [model |-> todo[i + 1], gotPrice |-> gotPrice]
<1>1. /\ proc[p].pc = "fetch" /\ proc'[p].pc \in {"save_json", "checkpoint"}
      /\ proc'[p].pc = "checkpoint" => (i + 1) % SaveEvery # 0
      /\ proc'[p].i = i + 1 /\ proc'[p].todo = todo
      /\ proc'[p].results = proc[p].results \cup {result}
      /\ json' = json /\ csv' = csv /\ passed' = passed /\ stamp' = stamp
  BY FetchStep DEF results
<1>2. /\ i \in Nat /\ file \in Stamps
      /\ passed[p] \subseteq FirstModels(todo, i)
      /\ FirstModels(todo, i) \subseteq ModelsOf(proc[p].results)
  BY <1>1 DEF Kept, Memory, Crawling
<1>3. FirstModels(todo, i + 1) = FirstModels(todo, i) \cup {todo[i + 1]}
  BY <1>2, FirstNext
<1>4. ModelsOf(proc'[p].results) = ModelsOf(proc[p].results) \cup {todo[i + 1]}
  <2>1. result.model = todo[i + 1]
    OBVIOUS
  <2>. HIDE DEF result, todo, i
  <2>. QED
    BY <1>1, <2>1 DEF ModelsOf
<1>5. proc'[p].pc = "checkpoint" => FullBatches(i + 1) = FullBatches(i)
  BY <1>1, <1>2, BatchNext
<1>6. i \in 0..(i + 1) /\ i + 1 > 0 /\ i + 1 \in Nat
  BY <1>2
<1>7. Memory(p)'
  <2>. HIDE DEF i, todo, file, result
  <2>1. /\ passed'[p] \subseteq FirstModels(proc'[p].todo, proc'[p].i)
        /\ FirstModels(proc'[p].todo, proc'[p].i) \subseteq ModelsOf(proc'[p].results)
    BY <1>1, <1>2, <1>3, <1>4
  <2>2. stamp'[p] \in Stamps
    BY <1>1, <1>2 DEF file
  <2>. QED
    BY <1>1, <1>6, <2>1, <2>2 DEF Memory, Launching
<1>8. ASSUME Alone(p)' PROVE LostFew(p)' /\ FilesHave(p)'
  <2>1. Alone(p)
    BY <1>1, <1>8, AloneKept
  <2>2. FirstModels(todo, FullBatches(i)) \subseteq ModelsOf(json[file]) \cap ModelsOf(csv[file])
    BY <1>1, <2>1 DEF Kept, Files, FilesHave
  <2>3. LostFew(p)'
    BY <1>1, <2>1 DEF Kept, Files, LostFew, Recorded
  <2>. HIDE DEF i, todo, result
  <2>4. proc'[p].pc = "checkpoint" =>
          FirstModels(proc'[p].todo, FullBatches(proc'[p].i)) \subseteq
            ModelsOf(json'[stamp'[p]]) \cap ModelsOf(csv'[stamp'[p]])
    BY <1>1, <1>5, <2>2
  <2>5. \E n \in 0..(proc'[p].i) :
          /\ passed'[p] \subseteq FirstModels(proc'[p].todo, n)
          /\ FirstModels(proc'[p].todo, FullBatches(n)) \subseteq ModelsOf(csv'[stamp'[p]])
    BY <1>1, <1>2, <1>6, <2>2
  <2>6. FilesHave(p)'
    BY <1>1, <2>4, <2>5 DEF FilesHave
  <2>. QED
    BY <2>3, <2>6
<1>. QED
  BY <1>7, <1>8 DEF Kept, Files

\* The steps that leave both result files alone, but for WriteIndex.
LEMMA KeptNoFile ==
  ASSUME Shape, NEW p \in Processes, Kept(p),
         Abort(p) \/ OpenIndex(p) \/ OpenDone(p) \/ WriteDone(p)
  PROVE  Kept(p)'
<1>1. /\ proc'[p].i = proc[p].i /\ proc'[p].todo = proc[p].todo
      /\ proc'[p].results = proc[p].results
      /\ json' = json /\ csv' = csv /\ passed' = passed /\ stamp' = stamp
  <2>1. CASE WriteDone(p)
    BY <2>1, WriteDoneStep DEF results, history
  <2>2. CASE Abort(p) \/ OpenIndex(p) \/ OpenDone(p)
    <3>1. json' = json /\ csv' = csv
      BY <2>2 DEF Abort, OpenIndex, OpenDone, results
    <3>. QED
      BY <2>2, <3>1, GotoCrawlStep DEF history
  <2>. QED
    BY <2>1, <2>2
<1>2. \/ proc'[p].pc = "release"
      \/ proc[p].pc = "checkpoint" /\ proc'[p].pc = "write_index"
      \/ proc[p].pc = "mark_done" /\ proc'[p].pc = "write_done"
      \/ proc[p].pc = "write_done" /\ proc'[p].pc \in {"save_json", "fetch"}
  <2>1. CASE WriteDone(p)
    BY <2>1, WriteDoneStep
  <2>. QED
    BY <2>1, GotoStep DEF Abort, OpenIndex, OpenDone
<1>3. Alone(p)' => Alone(p) /\ LostFew(p)'
  BY <1>1, AloneKept DEF Kept, Files, LostFew, Recorded
<1>4. CASE proc'[p].pc = "release"
  <2>1. Memory(p)'
    BY <1>1, <1>4 DEF Kept, Memory, Launching, Crawling
  <2>2. FilesHave(p)'
    BY <1>4 DEF FilesHave
  <2>. QED
    BY <1>3, <2>1, <2>2 DEF Kept, Files
<1>5. CASE proc'[p].pc # "release"
  <2>1. /\ proc[p].i \in Nat /\ proc[p].i > 0 /\ stamp[p] \in Stamps
        /\ passed[p] \subseteq FirstModels(proc[p].todo, proc[p].i)
        /\ FirstModels(proc[p].todo, proc[p].i) \subseteq ModelsOf(proc[p].results)
    BY <1>2, <1>5 DEF Kept, Memory, Crawling
  <2>2. Alone(p) =>
          FirstModels(proc[p].todo, FullBatches(proc[p].i)) \subseteq
             ModelsOf(json[stamp[p]]) \cap ModelsOf(csv[stamp[p]])
    BY <1>2, <1>5 DEF Kept, Files, FilesHave
  <2>3. proc[p].i \in 0..proc[p].i
    BY <2>1
  <2>4. proc'[p].pc \in {"write_index", "write_done", "save_json", "fetch"}
    BY <1>2, <1>5
  <2>5. Memory(p)'
    BY <1>1, <2>1, <2>4 DEF Memory, Launching
  <2>6. Alone(p) => FilesHave(p)'
    BY <1>1, <2>1, <2>2, <2>3, <2>4 DEF FilesHave
  <2>. QED
    BY <1>3, <2>5, <2>6 DEF Kept, Files
<1>. QED
  BY <1>4, <1>5

\* WriteIndex checkpoints a model whose full batches are in both files.
LEMMA KeptWriteIndex ==
  ASSUME Shape, NEW p \in Processes, Kept(p), WriteIndex(p)
  PROVE  Kept(p)'
<1>. DEFINE i == proc[p].i
            todo == proc[p].todo
            file == stamp[p]
<1>1. /\ proc[p].pc = "write_index"
      /\ proc'[p].pc \in {"mark_done", "save_json", "fetch"}
      /\ proc'[p].i = i /\ proc'[p].todo = todo
      /\ proc'[p].results = proc[p].results
      /\ passed'[p] = passed[p] \cup {todo[i]}
      /\ json' = json /\ csv' = csv /\ stamp' = stamp
  BY WriteIndexStep DEF results, Shape
<1>2. /\ i \in Nat /\ i > 0 /\ file \in Stamps
      /\ passed[p] \subseteq FirstModels(todo, i)
      /\ FirstModels(todo, i) \subseteq ModelsOf(proc[p].results)
  BY <1>1 DEF Kept, Memory, Crawling
<1>3. todo[i] \in FirstModels(todo, i)
  BY <1>2 DEF FirstModels
<1>4. passed'[p] \subseteq FirstModels(todo, i) /\ i \in 0..i
  BY <1>1, <1>2, <1>3
<1>5. Memory(p)'
  <2>. HIDE DEF i, todo, file
  <2>1. stamp'[p] \in Stamps
    BY <1>1, <1>2 DEF file
  <2>. QED
    BY <1>1, <1>2, <1>4, <2>1 DEF Memory, Launching
<1>6. ASSUME Alone(p)' PROVE LostFew(p)' /\ FilesHave(p)'
  <2>1. Alone(p)
    BY <1>1, <1>6, AloneKept
  <2>2. FirstModels(todo, FullBatches(i)) \subseteq ModelsOf(json[file]) \cap ModelsOf(csv[file])
    BY <1>1, <2>1 DEF Kept, Files, FilesHave
  <2>3. Recorded(p)' = ModelsOf(json[file]) \cup ModelsOf(csv[file])
    BY <1>1 DEF Recorded, ModelsOf
  <2>4. stamp'[p] = file
    BY <1>1
  <2>. HIDE DEF i, todo, file
  <2>5. FirstModels(todo, FullBatches(i)) \subseteq ModelsOf(json[file]) \cup ModelsOf(csv[file])
    BY <2>2
  <2>6. Cardinality(passed'[p] \ (ModelsOf(json[file]) \cup ModelsOf(csv[file]))) < SaveEvery
    BY <1>2, <1>4, <2>5, LossBound
  <2>7. LostFew(p)'
    BY <2>3, <2>6 DEF LostFew
  <2>8. FilesHave(p)'
    BY <1>1, <1>2, <1>4, <2>2, <2>4 DEF FilesHave
  <2>. QED
    BY <2>7, <2>8
<1>. QED
  BY <1>5, <1>6 DEF Kept, Files

\* save_results: the CSV file stands while the JSON file is rewritten, and the
\* complete JSON file while the CSV file is.
LEMMA KeptJson ==
  ASSUME Shape, NEW p \in Processes, Kept(p), OpenJson(p) \/ WriteJson(p)
  PROVE  Kept(p)'
<1>1. /\ proc'[p].i = proc[p].i /\ proc'[p].todo = proc[p].todo
      /\ proc'[p].results = proc[p].results
      /\ csv' = csv /\ passed' = passed /\ stamp' = stamp
  <2>1. csv' = csv
    BY DEF OpenJson, WriteJson
  <2>. QED
    BY <2>1, GotoCrawlStep DEF history
<1>2. proc[p].pc \in {"save_json", "write_json"}
  BY DEF OpenJson, WriteJson
<1>3. /\ proc[p].i \in Nat /\ proc[p].i > 0 /\ stamp[p] \in Stamps
      /\ passed[p] \subseteq FirstModels(proc[p].todo, proc[p].i)
      /\ FirstModels(proc[p].todo, proc[p].i) \subseteq ModelsOf(proc[p].results)
  BY <1>2 DEF Kept, Memory, Crawling
<1>4. \/ OpenJson(p) /\ proc'[p].pc = "write_json"
      \/ WriteJson(p) /\ proc'[p].pc = "save_csv" /\ json'[stamp[p]] = proc[p].results
  <2>1. OpenJson(p) => proc'[p].pc = "write_json"
    BY GotoStep DEF OpenJson
  <2>2. WriteJson(p) => proc'[p].pc = "save_csv" /\ json'[stamp[p]] = proc[p].results
    BY <1>3, GotoStep DEF WriteJson, Shape
  <2>. QED
    BY <2>1, <2>2
<1>5. Memory(p)'
  BY <1>1, <1>3, <1>4 DEF Memory, Launching
<1>6. ASSUME Alone(p)' PROVE LostFew(p)' /\ FilesHave(p)'
  <2>1. Alone(p)
    BY <1>1, <1>6, AloneKept
  <2>2. PICK n \in 0..proc[p].i :
          /\ passed[p] \subseteq FirstModels(proc[p].todo, n)
          /\ FirstModels(proc[p].todo, FullBatches(n)) \subseteq ModelsOf(csv[stamp[p]])
    BY <1>2, <2>1 DEF Kept, Files, FilesHave
  <2>3. LostFew(p)'
    <3>1. FirstModels(proc[p].todo, FullBatches(n)) \subseteq
            ModelsOf(json'[stamp[p]]) \cup ModelsOf(csv[stamp[p]])
      BY <2>2
    <3>2. n \in Nat
      BY <1>3, <2>2
    <3>3. Cardinality(passed[p] \ (ModelsOf(json'[stamp[p]]) \cup ModelsOf(csv[stamp[p]]))) < SaveEvery
      BY <2>2, <3>1, <3>2, LossBound
    <3>4. Recorded(p)' = ModelsOf(json'[stamp[p]]) \cup ModelsOf(csv[stamp[p]])
      BY <1>1 DEF Recorded, ModelsOf
    <3>. QED
      BY <1>1, <3>3, <3>4 DEF LostFew
  <2>4. FilesHave(p)'
    BY <1>1, <1>3, <1>4, <2>2 DEF FilesHave
  <2>. QED
    BY <2>3, <2>4
<1>. QED
  BY <1>5, <1>6 DEF Kept, Files

\* The second half of save_results: the JSON file has all of the memory.
LEMMA KeptCsv ==
  ASSUME Shape, NEW p \in Processes, Kept(p), OpenCsv(p) \/ WriteCsv(p)
  PROVE  Kept(p)'
<1>1. /\ proc'[p].i = proc[p].i /\ proc'[p].todo = proc[p].todo
      /\ proc'[p].results = proc[p].results
      /\ json' = json /\ passed' = passed /\ stamp' = stamp
  <2>1. json' = json
    BY DEF OpenCsv, WriteCsv
  <2>. QED
    BY <2>1, GotoCrawlStep DEF history
<1>2. proc[p].pc \in {"save_csv", "write_csv"}
  BY DEF OpenCsv, WriteCsv
<1>3. /\ proc[p].i \in Nat /\ proc[p].i > 0 /\ stamp[p] \in Stamps
      /\ passed[p] \subseteq FirstModels(proc[p].todo, proc[p].i)
      /\ FirstModels(proc[p].todo, proc[p].i) \subseteq ModelsOf(proc[p].results)
  BY <1>2 DEF Kept, Memory, Crawling
<1>4. \/ proc'[p].pc \in {"write_csv", "release"}
      \/ proc'[p].pc = "checkpoint" /\ csv'[stamp[p]] = proc[p].results
  <2>1. OpenCsv(p) => proc'[p].pc = "write_csv"
    BY GotoStep DEF OpenCsv
  <2>2. WriteCsv(p) => proc'[p].pc \in {"release", "checkpoint"} /\ csv'[stamp[p]] = proc[p].results
    BY <1>3, GotoStep DEF WriteCsv, Shape
  <2>. QED
    BY <2>1, <2>2
<1>5. Memory(p)'
  BY <1>1, <1>3, <1>4 DEF Memory, Launching, Crawling
<1>6. ASSUME Alone(p)' PROVE LostFew(p)' /\ FilesHave(p)'
  <2>1. Alone(p)
    BY <1>1, <1>6, AloneKept
  <2>2. FirstModels(proc[p].todo, proc[p].i) \subseteq ModelsOf(json[stamp[p]])
    BY <1>2, <2>1 DEF Kept, Files, FilesHave
  <2>3. LostFew(p)'
    <3>1. passed[p] \subseteq ModelsOf(json[stamp[p]]) \cup ModelsOf(csv'[stamp[p]])
      BY <1>3, <2>2
    <3>2. Cardinality(passed[p] \ (ModelsOf(json[stamp[p]]) \cup ModelsOf(csv'[stamp[p]]))) < SaveEvery
      BY <3>1, NothingLost
    <3>3. Recorded(p)' = ModelsOf(json[stamp[p]]) \cup ModelsOf(csv'[stamp[p]])
      BY <1>1 DEF Recorded, ModelsOf
    <3>. QED
      BY <1>1, <3>2, <3>3 DEF LostFew
  <2>4. FullBatches(proc[p].i) \in 0..proc[p].i
    BY <1>3, BatchBounds
  <2>5. FirstModels(proc[p].todo, FullBatches(proc[p].i)) \subseteq
          FirstModels(proc[p].todo, proc[p].i)
    BY <1>3, <2>4, FirstGrows
  <2>6. FilesHave(p)'
    BY <1>1, <1>3, <1>4, <2>2, <2>5 DEF FilesHave
  <2>. QED
    BY <2>3, <2>6
<1>. QED
  BY <1>5, <1>6 DEF Kept, Files

\* A step of p writes no other files than those p has named, and only p's memory.
LEMMA FilesOfOthers ==
  ASSUME Shape, NEW p \in Processes,
         Launch(p) \/ Acquire(p) \/ Crawl(p) \/ Release(p) \/ Die(p)
  PROVE  /\ \A s \in Stamps : s # stamp[p] => json'[s] = json[s] /\ csv'[s] = csv[s]
         /\ \A q \in Processes \ {p} : passed'[q] = passed[q] /\ stamp'[q] = stamp[q]
         /\ stamp'[p] = stamp[p] \/ proc[p].pc = "prepare"
<1>1. CASE Launch(p) \/ Acquire(p) \/ Release(p) \/ Die(p)
  BY <1>1, LaunchStep, AcquireStep, ReleaseStep, DieStep DEF results, history
<1>2. CASE Crawl(p)
  <2>1. CASE Prepare(p)
    BY <2>1, PrepareStep DEF results, history
  <2>2. CASE ~Prepare(p)
    <3>1. stamp' = stamp
      BY <1>2, <2>2 DEF Crawl, Fetch, Abort, OpenJson, WriteJson, OpenCsv, WriteCsv,
         OpenIndex, WriteIndex, OpenDone, WriteDone
    <3>2. /\ \A s \in Stamps : s # stamp[p] => json'[s] = json[s] /\ csv'[s] = csv[s]
          /\ \A q \in Processes \ {p} : passed'[q] = passed[q]
      BY <1>2, <2>2 DEF Crawl, Fetch, Abort, OpenJson, WriteJson, OpenCsv, WriteCsv,
         OpenIndex, WriteIndex, OpenDone, WriteDone, results, history, Shape
    <3>. QED
      BY <3>1, <3>2
  <2>. QED
    BY <2>1, <2>2
<1>. QED
  BY <1>1, <1>2

\* A step of p touches no files that another process has for itself.
LEMMA OthersKept ==
  ASSUME Shape, NEW p \in Processes, NEW q \in Processes \ {p}, Kept(p), Kept(q),
         Launch(p) \/ Acquire(p) \/ Crawl(p) \/ Release(p) \/ Die(p)
  PROVE  Kept(q)'
<1>1. proc'[q] = proc[q]
  BY LaunchStep, AcquireStep, CrawlStep, ReleaseStep, DieStep
<1>2. /\ \A s \in Stamps : s # stamp[p] => json'[s] = json[s] /\ csv'[s] = csv[s]
      /\ \A r \in Processes \ {p} : passed'[r] = passed[r] /\ stamp'[r] = stamp[r]
      /\ stamp'[p] = stamp[p] \/ proc[p].pc = "prepare"
  BY FilesOfOthers
<1>3. ASSUME Alone(q)'
      PROVE  /\ Alone(q)
             /\ json'[stamp[q]] = json[stamp[q]] /\ csv'[stamp[q]] = csv[stamp[q]]
  <2>1. stamp[q] \in Stamps /\ \A r \in Processes \ {q} : stamp'[r] # stamp[q]
    BY <1>2, <1>3 DEF Alone
  <2>2. stamp[p] # stamp[q]
    <3>1. CASE stamp'[p] = stamp[p]
      BY <2>1, <3>1
    <3>2. CASE proc[p].pc = "prepare"
      BY <2>1, <3>2, NobodyAssumption DEF Kept, Memory
    <3>. QED
      BY <1>2, <3>1, <3>2
  <2>. QED
    BY <1>2, <2>1, <2>2 DEF Alone
<1>. QED
  BY <1>1, <1>2, <1>3, KeptUnchanged

\* The full batches of what a run has tried are in one of its files, unless another
\* launch has named its files in the same second (save_results).
THEOREM LossInvariant == Spec => []LossInv
<1>1. Init => LossInv
  <2>1. SUFFICES ASSUME Init, NEW p \in Processes PROVE Kept(p)
    BY LossParts
  <2>2. proc[p] = NewProcess /\ passed[p] = {} /\ stamp[p] = NoStamp
    BY <2>1 DEF Init
  <2>3. ~Alone(p)
    BY <2>2, NobodyAssumption DEF Alone
  <2>. QED
    BY <2>2, <2>3 DEF Kept, Memory, Files, NewProcess, Crawling, Launching
<1>2. Shape /\ LossInv /\ [Next]_vars => LossInv'
  <2>1. SUFFICES ASSUME Shape, \A q \in Processes : Kept(q), [Next]_vars
                 PROVE  \A q \in Processes : Kept(q)'
    BY LossParts DEF LossInv, LostResultsBounded, ResultsKept, Kept, Memory, Files, LostFew
  <2>2. ASSUME NEW p \in Processes,
               Launch(p) \/ Acquire(p) \/ Crawl(p) \/ Release(p) \/ Die(p)
        PROVE  \A q \in Processes : Kept(q)'
    <3>1. Kept(p)'
      BY <2>1, <2>2, KeptOutside, KeptDie, KeptPrepare, KeptFetch, KeptNoFile,
         KeptWriteIndex, KeptJson, KeptCsv DEF Crawl
    <3>. QED
      BY <2>1, <2>2, <3>1, OthersKept
  <2>3. CASE \/ \E m \in Models : ImportPrice(m)
             \/ UNCHANGED vars
    <3>1. UNCHANGED <<proc, stamp, json, csv, passed>>
      BY <2>3 DEF ImportPrice, vars, history
    <3>. QED
      BY <2>1, <3>1, KeptUnchanged, AloneKept
  <2>. QED
    BY <2>1, <2>2, <2>3, NextSteps
<1>. QED
  BY <1>1, <1>2, ShapeInvariant, PTL DEF Spec

\* Less than a batch of the models a run has checkpointed is ever in neither of its
\* result files (save_results, run), for every batch size, wherever a run dies, while
\* no other launch has named its files in the same second.
THEOREM LittleIsLost == Spec => []LostResultsBounded
<1>1. LossInv => LostResultsBounded
  BY DEF LossInv
<1>. QED
  BY <1>1, LossInvariant, PTL

-----------------------------------------------------------------------------
(* The types, and the bounds of the positions and of the errors.           *)

Less == {p \in Nat \X Nat : p[1] < p[2]}

\* The order of the numbers is well-founded.
LEMMA LessWF == IsWellFoundedOn(Less, Nat)
<1>1. OpToRel(<, Nat) = Less
  BY Zenon DEF OpToRel, Less
<1>. QED BY <1>1, NatLessThanWellFounded, Zenon

\* Some numbers have a least one.
LEMMA LeastNat ==
  ASSUME NEW T, T \subseteq Nat, T # {}
  PROVE  \E m \in T : \A n \in T : m <= n
<1>1. PICK m \in T : \A n \in T : ~ (<<n, m>> \in Less)
  BY LessWF, WFMin
<1>2. \A n \in T : m \in Nat /\ n \in Nat /\ ~(n < m)
  BY <1>1 DEF Less
<1>3. \A n \in T : m <= n
  BY <1>2
<1>. QED BY <1>3

\* A property of the first place, and of each that follows one that has it, is one
\* of all places.
LEMMA PlaceInduction ==
  ASSUME NEW L \in Nat, NEW good, 0 \in good, \A n \in 1..L : n - 1 \in good => n \in good
  PROVE  0..L \subseteq good
<1>. DEFINE bad == 0..L \ good
<1>1. SUFFICES ASSUME bad # {} PROVE FALSE
  OBVIOUS
<1>2. PICK m \in bad : \A n \in bad : m <= n
  <2>1. bad \subseteq Nat
    OBVIOUS
  <2>. HIDE DEF bad
  <2>. QED BY <1>1, <2>1, LeastNat
<1>3. m \in 1..L /\ m - 1 \in 0..L /\ m - 1 < m
  OBVIOUS
<1>. QED BY <1>2, <1>3

\* Without's loop over the first m models.
Loop(left, models, excluded, m) ==
  left = [n \in 0..m |-> IF n = 0 THEN <<>>
                         ELSE IF models[n] \in excluded THEN left[n - 1]
                         ELSE Append(left[n - 1], models[n])]

\* One more turn of it.
LEMMA LoopNext ==
  ASSUME NEW models, NEW excluded, NEW m \in Nat \ {0}, NEW left, Loop(left, models, excluded, m - 1)
  PROVE  \E longer : Loop(longer, models, excluded, m)
<1>. DEFINE longer == [n \in 0..m |->
                         IF n < m THEN left[n]
                         ELSE IF models[m] \in excluded THEN left[m - 1]
                         ELSE Append(left[m - 1], models[m])]
<1>1. ASSUME NEW n \in 0..m
      PROVE  longer[n] = IF n = 0 THEN <<>>
                         ELSE IF models[n] \in excluded THEN longer[n - 1]
                         ELSE Append(longer[n - 1], models[n])
  <2>1. CASE n = 0
    BY <2>1 DEF Loop
  <2>2. CASE n \in 1..(m - 1)
    <3>1. /\ n \in 0..(m - 1) /\ n # 0 /\ n < m /\ n - 1 < m /\ n - 1 \in 0..m
      BY <2>2
    <3>2. longer[n] = left[n] /\ longer[n - 1] = left[n - 1]
      BY <3>1
    <3>3. left[n] = IF models[n] \in excluded THEN left[n - 1] ELSE Append(left[n - 1], models[n])
      BY <3>1 DEF Loop
    <3>. HIDE DEF longer
    <3>. QED BY <3>1, <3>2, <3>3
  <2>3. CASE n = m
    <3>1. n # 0 /\ ~(n < m) /\ m - 1 < m /\ m - 1 \in 0..m
      BY <2>3
    <3>2. longer[n] = (IF models[m] \in excluded THEN left[m - 1] ELSE Append(left[m - 1], models[m]))
          /\ longer[n - 1] = left[m - 1]
      BY <2>3, <3>1
    <3>. HIDE DEF longer
    <3>. QED BY <2>3, <3>1, <3>2
  <2>. QED BY <2>1, <2>2, <2>3
<1>2. longer = [n \in 0..m |-> longer[n]]
  OBVIOUS
<1>3. Loop(longer, models, excluded, m)
  <2>. HIDE DEF longer
  <2>. QED BY <1>1, <1>2 DEF Loop
<1>. QED BY <1>3

\* The list comprehensions of run leave a list of no more models, and no other ones.
LEMMA WithoutShortens ==
  ASSUME NEW M, NEW models \in Seq(M), NEW excluded
  PROVE  /\ Without(models, excluded) \in Seq(M)
         /\ Len(Without(models, excluded)) <= Len(models)
<1>. DEFINE L == Len(models)
            left == CHOOSE g : Loop(g, models, excluded, L)
            runs == {m \in 0..L : \E g : Loop(g, models, excluded, m)}
            short == {n \in 0..L : left[n] \in Seq(M) /\ Len(left[n]) <= n}
<1>1. L \in Nat
  OBVIOUS
<1>2. \E g : Loop(g, models, excluded, L)
  <2>1. 0 \in runs
    <3>. DEFINE none == [n \in 0..0 |-> <<>>]
    <3>1. Loop(none, models, excluded, 0)
      BY DEF Loop
    <3>. HIDE DEF none
    <3>. QED BY <1>1, <3>1
  <2>2. ASSUME NEW n \in 1..L, n - 1 \in runs PROVE n \in runs
    <3>1. n \in Nat \ {0} /\ n \in 0..L
      BY <1>1
    <3>2. PICK g : Loop(g, models, excluded, n - 1)
      BY <2>2
    <3>3. \E longer : Loop(longer, models, excluded, n)
      BY <3>1, <3>2, LoopNext
    <3>. QED BY <3>1, <3>3
  <2>3. L \in 0..L
    BY <1>1
  <2>. HIDE DEF runs, L
  <2>4. 0..L \subseteq runs
    BY <1>1, <2>1, <2>2, PlaceInduction
  <2>. QED BY <2>3, <2>4 DEF runs
<1>3. Loop(left, models, excluded, L)
  <2>. HIDE DEF L
  <2>. QED BY <1>2
<1>4. Without(models, excluded) = left[L]
  BY DEF Without, Loop
<1>. HIDE DEF left
<1>5. 0..L \subseteq short
  <2>1. 0 \in short
    <3>1. 0 \in 0..L /\ left[0] = <<>>
      BY <1>1, <1>3 DEF Loop
    <3>2. <<>> \in Seq(M) /\ Len(<<>>) <= 0
      OBVIOUS
    <3>3. left[0] \in Seq(M) /\ Len(left[0]) <= 0
      BY <3>1, <3>2
    <3>. HIDE DEF L
    <3>. QED BY <3>1, <3>3
  <2>2. ASSUME NEW n \in 1..L, n - 1 \in short PROVE n \in short
    <3>1. n \in 0..L /\ n # 0 /\ models[n] \in M /\ n \in Nat
      BY <1>1
    <3>2. left[n - 1] \in Seq(M) /\ Len(left[n - 1]) <= n - 1
      BY <2>2
    <3>3. left[n] = IF models[n] \in excluded THEN left[n - 1] ELSE Append(left[n - 1], models[n])
      <4>. HIDE DEF L
      <4>. QED BY <1>3, <3>1 DEF Loop
    <3>4. CASE models[n] \in excluded
      BY <3>1, <3>2, <3>3, <3>4
    <3>5. CASE models[n] \notin excluded
      <4>1. left[n] = Append(left[n - 1], models[n])
        BY <3>3, <3>5
      <4>2. /\ Append(left[n - 1], models[n]) \in Seq(M)
            /\ Len(Append(left[n - 1], models[n])) = Len(left[n - 1]) + 1
            /\ Len(left[n - 1]) \in Nat
        BY <3>1, <3>2
      <4>3. left[n] \in Seq(M) /\ Len(left[n]) <= n
        <5>. HIDE DEF L
        <5>. QED BY <3>1, <3>2, <4>1, <4>2
      <4>. HIDE DEF L
      <4>. QED BY <3>1, <4>3
    <3>. QED BY <3>4, <3>5
  <2>. HIDE DEF short, L
  <2>. QED BY <1>1, <2>1, <2>2, PlaceInduction
<1>6. L \in short
  BY <1>1, <1>5
<1>. QED BY <1>4, <1>6

\* What TypeInv says of p, and of the rest.
Typed(p) ==
  /\ proc[p].pc \in Launching \cup Crawling \cup Releasing \cup Over
  /\ ToSet(proc[p].todo) \subseteq Models
  /\ proc[p].i \in 0..Len(proc[p].todo)
  /\ proc[p].base + Len(proc[p].todo) <= Len(Workbook)
  /\ proc[p].errors \in 0..MaxErrors
  /\ proc[p].results \subseteq Results
  /\ stamp[p] \in Stamps \cup {NoStamp}
  /\ proc[p].known \cup passed[p] \subseteq Models
  /\ rivals[p] \subseteq Processes \ {p}
  /\ PlaceKept(p)

SharedTyped ==
  /\ flow \in Flows
  /\ lock \in [creator : Processes \cup {Nobody}, written : BOOLEAN]
  /\ \A s \in Stamps : json[s] \cup csv[s] \subseteq Results
  /\ resume \in 0..Len(Workbook)
  /\ done \cup priced \cup fetched \subseteq Models
  /\ deaths \in 0..MaxDeaths

\* The invariant, in its parts.
LEMMA TypeParts == TypeInv <=> SharedTyped /\ \A p \in Processes : Typed(p)
BY DEF TypeInv, TypeOK, SharedTyped, Typed

\* A list of models has models only.
LEMMA ModelsOnly ==
  ASSUME NEW list \in Seq(Models)
  PROVE  ToSet(list) \subseteq Models
BY DEF ToSet

\* The numbers of the module are numbers.
LEMMA Parameters ==
  /\ Workbook \in Seq(Models) /\ Len(Workbook) \in Nat
  /\ MaxErrors \in Nat \ {0} /\ MaxDeaths \in Nat
BY ParametersAssumption DEF Models

\* Another process's step leaves q's part as it was.
LEMMA TypedOthers ==
  ASSUME NEW q \in Processes, Typed(q), proc'[q] = proc[q], stamp'[q] = stamp[q],
         passed'[q] = passed[q], rivals'[q] \subseteq Processes \ {q}
  PROVE  Typed(q)'
BY DEF Typed, PlaceKept

\* A step that only moves the program counter keeps the rest of p's memory.
LEMMA GotoKeeps ==
  ASSUME Shape, NEW p \in Processes, NEW pc, Goto(p, pc)
  PROVE  /\ proc'[p].pc = pc
         /\ proc'[p].i = proc[p].i /\ proc'[p].todo = proc[p].todo
         /\ proc'[p].base = proc[p].base /\ proc'[p].results = proc[p].results
         /\ proc'[p].known = proc[p].known /\ proc'[p].errors = proc[p].errors
         /\ proc'[p].leaving = proc[p].leaving
BY DEF Shape, Goto, Fields

\* p's part after such a step, where the new place is one it may be in.
LEMMA TypedGoto ==
  ASSUME Shape, NEW p \in Processes, Typed(p), NEW pc, Goto(p, pc),
         pc \in Launching \cup Crawling \cup Releasing \cup Over,
         pc \in Launching \cup {"new", "prepare"} => proc[p].i = 0,
         pc # "fetch",
         pc \in Crawling \ {"prepare", "fetch"} => proc[p].i > 0,
         \/ proc[p].errors < MaxErrors
         \/ pc \in {"save_json", "write_json", "save_csv", "write_csv"} /\ proc[p].leaving
         \/ pc \in Releasing \cup {"ended"},
         stamp'[p] = stamp[p], passed'[p] = passed[p],
         rivals'[p] \subseteq Processes \ {p}
  PROVE  Typed(p)'
<1>1. /\ proc'[p].pc = pc
      /\ proc'[p].i = proc[p].i /\ proc'[p].todo = proc[p].todo
      /\ proc'[p].base = proc[p].base /\ proc'[p].results = proc[p].results
      /\ proc'[p].known = proc[p].known /\ proc'[p].errors = proc[p].errors
      /\ proc'[p].leaving = proc[p].leaving
  BY GotoKeeps
<1>2. PlaceKept(p)'
  BY <1>1 DEF Typed, PlaceKept
<1>. QED BY <1>1, <1>2 DEF Typed

\* The launch of p: it was not alive when it looked for its rivals.
LEMMA TypedLaunch ==
  ASSUME Shape, SharedTyped, \A q \in Processes : Typed(q), NEW p \in Processes, Launch(p)
  PROVE  SharedTyped' /\ \A q \in Processes : Typed(q)'
<1>1. /\ \A q \in Processes \ {p} : proc'[q] = proc[q]
      /\ proc[p].pc = "new" /\ Goto(p, "create")
      /\ UNCHANGED <<flow, lock, resume, done, stamp, json, csv, priced, fetched, passed, deaths>>
  BY LaunchStep DEF Launch, results
<1>2. ASSUME NEW q \in Processes PROVE rivals'[q] \subseteq Processes \ {q}
  <2>1. rivals'[q] = IF q = p THEN {o \in Processes : Alive(o)}
                     ELSE IF proc[q].pc \in Launching THEN rivals[q] \cup {p}
                     ELSE rivals[q]
    BY DEF Launch
  <2>2. ~Alive(p)
    BY <1>1 DEF Alive, Over
  <2>3. rivals[q] \subseteq Processes \ {q}
    BY DEF Typed
  <2>. QED BY <2>1, <2>2, <2>3
<1>3. Typed(p)'
  <2>1. /\ proc[p].i = 0 /\ proc[p].errors < MaxErrors
        /\ stamp'[p] = stamp[p] /\ passed'[p] = passed[p]
    BY <1>1 DEF Typed, PlaceKept, Releasing
  <2>2. "create" \in Launching /\ "create" \notin Crawling
    BY DEF Launching, Crawling
  <2>. QED BY <1>1, <1>2, <2>1, <2>2, TypedGoto
<1>. QED BY <1>1, <1>2, <1>3, TypedOthers DEF SharedTyped

\* Steps that only move p's program counter, and files of p that are rewritten.
LEMMA TypedMoves ==
  ASSUME Shape, SharedTyped, \A q \in Processes : Typed(q), NEW p \in Processes,
         \/ Acquire(p) \/ Release(p) \/ Abort(p) \/ OpenJson(p) \/ WriteJson(p)
         \/ OpenCsv(p) \/ WriteCsv(p) \/ OpenIndex(p) \/ OpenDone(p)
  PROVE  SharedTyped' /\ \A q \in Processes : Typed(q)'
<1>. DEFINE Saving == {"save_json", "write_json", "save_csv", "write_csv"}
<1>1. /\ \A q \in Processes \ {p} : proc'[q] = proc[q]
      /\ lock' \in [creator : Processes \cup {Nobody}, written : BOOLEAN]
  BY AcquireStep, ReleaseStep, GotoCrawlStep DEF Shape
<1>2. /\ UNCHANGED <<flow, stamp, priced, fetched, passed, rivals, deaths>>
      /\ resume' \in {resume, 0} /\ done' \in {done, {}}
      /\ \A s \in Stamps : /\ json'[s] \in {json[s], {}, proc[p].results}
                           /\ csv'[s] \in {csv[s], {}, proc[p].results}
  BY DEF Shape, Acquire, CreateLock, CreateAgain, Create, WritePid, ReadLock, UnlinkStale,
         Release, ReleaseRead, ReleaseUnlink, Abort, OpenJson, WriteJson, OpenCsv, WriteCsv,
         OpenIndex, OpenDone, results, history
<1>3. /\ proc[p].pc \in Launching => proc[p].i = 0
      /\ proc[p].pc \in Crawling \ {"prepare", "fetch"} => proc[p].i > 0
      /\ \/ proc[p].errors < MaxErrors
         \/ proc[p].pc \in Saving /\ proc[p].leaving
         \/ proc[p].pc \in Releasing \cup {"ended"}
      /\ proc[p].results \subseteq Results
      /\ rivals[p] \subseteq Processes \ {p}
  BY DEF Typed, PlaceKept
<1>4. Typed(p)'
  <2>1. stamp'[p] = stamp[p] /\ passed'[p] = passed[p]
        /\ rivals'[p] \subseteq Processes \ {p}
    BY <1>2, <1>3
  <2>2. CASE Acquire(p)
    <3>1. PICK pc \in Launching \cup {"prepare", "refused"} : Goto(p, pc)
      BY <2>2 DEF Acquire, CreateLock, CreateAgain, Create, WritePid, ReadLock, UnlinkStale, Launching
    <3>2. proc[p].pc \in Launching
      BY <2>2, AcquireStep
    <3>3. proc[p].i = 0 /\ proc[p].errors < MaxErrors
      BY <1>3, <3>2 DEF Launching, Releasing
    <3>. QED BY <2>1, <3>1, <3>3, TypedGoto DEF Launching, Crawling, Over
  <2>3. CASE Release(p) \/ Abort(p)
    <3>1. PICK pc \in Releasing \cup {"ended"} : Goto(p, pc)
      BY <2>3 DEF Release, ReleaseRead, ReleaseUnlink, Abort, Releasing
    <3>. QED BY <2>1, <3>1, TypedGoto DEF Launching, Crawling, Releasing, Over
  <2>4. CASE OpenJson(p) \/ WriteJson(p) \/ OpenCsv(p)
    <3>1. PICK pc \in Saving : Goto(p, pc)
      BY <2>4 DEF OpenJson, WriteJson, OpenCsv
    <3>2. proc[p].pc \in Saving
      BY <2>4 DEF OpenJson, WriteJson, OpenCsv
    <3>3. proc[p].i > 0 /\ (proc[p].errors < MaxErrors \/ proc[p].leaving)
      BY <1>3, <3>2 DEF Crawling, Releasing
    <3>. QED BY <2>1, <3>1, <3>3, TypedGoto DEF Launching, Crawling, Releasing, Over
  <2>5. CASE WriteCsv(p)
    <3>1. proc[p].pc = "write_csv" /\ Goto(p, IF proc[p].leaving THEN "release" ELSE "checkpoint")
      BY <2>5 DEF WriteCsv
    <3>2. proc[p].i > 0 /\ (proc[p].errors < MaxErrors \/ proc[p].leaving)
      BY <1>3, <3>1 DEF Crawling, Releasing
    <3>3. CASE proc[p].leaving
      BY <2>1, <3>1, <3>3, TypedGoto DEF Launching, Crawling, Releasing, Over
    <3>4. CASE ~proc[p].leaving
      BY <2>1, <3>1, <3>2, <3>4, TypedGoto DEF Launching, Crawling, Releasing, Over
    <3>. QED BY <3>3, <3>4
  <2>6. CASE OpenIndex(p) \/ OpenDone(p)
    <3>1. PICK pc \in {"write_index", "write_done"} : Goto(p, pc)
      BY <2>6 DEF OpenIndex, OpenDone
    <3>2. proc[p].pc \in {"checkpoint", "mark_done"}
      BY <2>6 DEF OpenIndex, OpenDone
    <3>3. proc[p].i > 0 /\ proc[p].errors < MaxErrors
      BY <1>3, <3>2 DEF Crawling, Releasing
    <3>. QED BY <2>1, <3>1, <3>3, TypedGoto DEF Launching, Crawling, Releasing, Over
  <2>. QED BY <2>2, <2>3, <2>4, <2>5, <2>6
<1>5. SharedTyped'
  <2>1. \A s \in Stamps : json'[s] \cup csv'[s] \subseteq Results
    BY <1>2, <1>3 DEF SharedTyped
  <2>. QED BY <1>1, <1>2, <2>1, Parameters DEF SharedTyped
<1>6. ASSUME NEW q \in Processes \ {p} PROVE Typed(q)'
  BY <1>1, <1>2, TypedOthers DEF Typed
<1>. QED BY <1>4, <1>5, <1>6

\* The filtered list is a list of models, no longer than the workbook.
LEMMA FilteredTyped ==
  FilteredModels \in Seq(Models) /\ Len(FilteredModels) <= Len(Workbook)
<1>. DEFINE unpriced == IF flow.skip THEN Without(Workbook, priced) ELSE Workbook
<1>1. unpriced \in Seq(Models) /\ Len(unpriced) <= Len(Workbook)
  BY Parameters, WithoutShortens
<1>2. FilteredModels = IF flow.done THEN Without(unpriced, done) ELSE unpriced
  BY DEF FilteredModels
<1>. HIDE DEF unpriced
<1>3. Without(unpriced, done) \in Seq(Models) /\ Len(Without(unpriced, done)) <= Len(unpriced)
  BY <1>1, WithoutShortens
<1>4. Len(unpriced) \in Nat /\ Len(Without(unpriced, done)) \in Nat
  BY <1>1, <1>3
<1>. QED BY <1>1, <1>2, <1>3, <1>4, Parameters

\* Prepare: what is left of the filtered list after the index fits in the workbook.
LEMMA TypedPrepare ==
  ASSUME Shape, SharedTyped, \A q \in Processes : Typed(q), NEW p \in Processes, Prepare(p)
  PROVE  SharedTyped' /\ \A q \in Processes : Typed(q)'
<1>1. PICK models \in Seq(Models) : models = FilteredModels /\ Len(models) <= Len(Workbook)
  BY FilteredTyped
<1>2. PICK start : start = IF resume > Len(models) THEN 0 ELSE resume
  OBVIOUS
<1>3. PICK todo : todo = SubSeq(models, start + 1, Len(models))
  OBVIOUS
<1>4. PICK known : known = IF flow.done THEN done ELSE {}
  OBVIOUS
<1>5. /\ proc' = [proc EXCEPT ![p] =
           [@ EXCEPT !.pc = IF todo = <<>> THEN "release" ELSE "fetch",
                     !.todo = todo, !.base = start, !.known = known]]
      /\ proc[p].pc = "prepare" /\ resume' = start
      /\ UNCHANGED <<flow, lock, done, json, csv, priced, fetched, passed, rivals, deaths>>
  BY <1>1, <1>2, <1>3, <1>4 DEF Prepare, Todo, results, history
<1>6. PICK pc \in {"release", "fetch"} : pc = IF todo = <<>> THEN "release" ELSE "fetch"
  OBVIOUS
<1>7. proc' = [proc EXCEPT ![p] = [@ EXCEPT !.pc = pc, !.todo = todo, !.base = start, !.known = known]]
  BY <1>5, <1>6
<1>8. /\ \A q \in Processes \ {p} : proc'[q] = proc[q]
      /\ proc'[p].pc = pc /\ proc'[p].todo = todo /\ proc'[p].base = start
      /\ proc'[p].known = known /\ proc'[p].i = proc[p].i
      /\ proc'[p].results = proc[p].results /\ proc'[p].errors = proc[p].errors
  BY <1>7 DEF Shape, Fields
<1>9. start \in 0..Len(models) /\ Len(models) \in Nat /\ start \in 0..Len(Workbook)
  <2>1. Len(models) \in Nat /\ resume \in Nat /\ Len(Workbook) \in Nat
    BY Parameters DEF SharedTyped
  <2>. QED BY <1>1, <1>2, <2>1
<1>10. todo \in Seq(Models) /\ Len(todo) = Len(models) - start
  <2>1. /\ start + 1 \in 1..(Len(models) + 1)
        /\ \A k \in (start + 1)..Len(models) : k \in 1..Len(models)
    BY <1>9
  <2>. QED BY <1>1, <1>3, <1>9, <2>1, SubSeqProperties
<1>11. start + Len(todo) <= Len(Workbook) /\ Len(todo) \in Nat /\ start \in Nat
  BY <1>1, <1>9, <1>10, Parameters
<1>12. pc = "fetch" => Len(todo) > 0
  BY <1>6, <1>10, <1>11
<1>13. /\ proc[p].i = 0 /\ proc[p].errors < MaxErrors /\ proc[p].errors \in 0..MaxErrors
       /\ known \subseteq Models
       /\ proc[p].results \subseteq Results /\ stamp'[p] \in Stamps \cup {NoStamp}
       /\ passed[p] \subseteq Models /\ rivals[p] \subseteq Processes \ {p}
  BY <1>4, <1>5, PrepareStep DEF Typed, PlaceKept, SharedTyped, Releasing
<1>14. PlaceKept(p)'
  <2>1. pc \notin Launching \cup {"new", "prepare"} /\ pc \notin Crawling \ {"prepare", "fetch"}
    BY DEF Launching, Crawling
  <2>. QED BY <1>8, <1>10, <1>11, <1>12, <1>13, <2>1 DEF PlaceKept
<1>15. Typed(p)'
  <2>1. ToSet(todo) \subseteq Models /\ proc[p].i \in 0..Len(todo)
    BY <1>10, <1>11, <1>13, ModelsOnly
  <2>2. pc \in Launching \cup Crawling \cup Releasing \cup Over
    BY DEF Crawling, Releasing
  <2>. QED BY <1>5, <1>8, <1>11, <1>13, <1>14, <2>1, <2>2 DEF Typed
<1>16. ASSUME NEW q \in Processes \ {p} PROVE Typed(q)'
  BY <1>5, <1>8, PrepareStep, TypedOthers DEF Typed
<1>. QED BY <1>5, <1>9, <1>15, <1>16 DEF SharedTyped

\* Fetch: the next model is one of the list's, and the errors reach the limit only in a
\* run that leaves.
LEMMA TypedFetch ==
  ASSUME Shape, SharedTyped, \A q \in Processes : Typed(q), NEW p \in Processes,
         NEW gotPrice \in BOOLEAN, Fetch(p, gotPrice)
  PROVE  SharedTyped' /\ \A q \in Processes : Typed(q)'
<1>1. PICK i : i = proc[p].i + 1
  OBVIOUS
<1>2. PICK errors : errors = IF gotPrice THEN 0 ELSE proc[p].errors + 1
  OBVIOUS
<1>3. PICK leaving : leaving = (errors >= MaxErrors)
  OBVIOUS
<1>4. PICK model : model = proc[p].todo[i]
  OBVIOUS
<1>5. PICK found : found = [model |-> model, gotPrice |-> gotPrice]
  OBVIOUS
<1>6. PICK pc : pc = IF leaving \/ i % SaveEvery = 0 \/ i = Len(proc[p].todo)
                     THEN "save_json" ELSE "checkpoint"
  OBVIOUS
<1>7. /\ proc' = [proc EXCEPT ![p] =
           [@ EXCEPT !.pc = pc, !.i = i, !.results = proc[p].results \cup {found},
                     !.errors = errors, !.leaving = leaving]]
      /\ proc[p].pc = "fetch" /\ fetched' = fetched \cup {model}
      /\ UNCHANGED <<flow, lock, resume, done, stamp, json, csv, priced, passed, rivals, deaths>>
  BY <1>1, <1>2, <1>3, <1>4, <1>5, <1>6 DEF Fetch, results
<1>8. /\ \A q \in Processes \ {p} : proc'[q] = proc[q]
      /\ proc'[p].pc = pc /\ proc'[p].i = i /\ proc'[p].results = proc[p].results \cup {found}
      /\ proc'[p].errors = errors /\ proc'[p].leaving = leaving
      /\ proc'[p].todo = proc[p].todo /\ proc'[p].base = proc[p].base
      /\ proc'[p].known = proc[p].known
  BY <1>7 DEF Shape, Fields
<1>9. /\ proc[p].todo \in Seq(Models) /\ proc[p].i \in 0..Len(proc[p].todo)
      /\ proc[p].i < Len(proc[p].todo) /\ proc[p].errors < MaxErrors
      /\ proc[p].errors \in 0..MaxErrors
  BY <1>7 DEF Typed, PlaceKept, Releasing
<1>10. i \in 1..Len(proc[p].todo) /\ model \in Models
  <2>1. Len(proc[p].todo) \in Nat
    BY <1>9
  <2>2. i \in 1..Len(proc[p].todo)
    BY <1>1, <1>9, <2>1
  <2>. QED BY <1>4, <1>9, <2>2
<1>11. errors \in 0..MaxErrors /\ (errors < MaxErrors \/ leaving)
  <2>1. errors >= MaxErrors => leaving
    BY <1>3, Zenon
  <2>2. errors \in 0..MaxErrors
    BY <1>2, <1>9, Parameters
  <2>3. errors < MaxErrors \/ errors >= MaxErrors
    BY <2>2, Parameters
  <2>. QED BY <2>1, <2>2, <2>3
<1>12. pc \in {"save_json", "checkpoint"} /\ (leaving => pc = "save_json")
  BY <1>6
<1>13. found \in Results
  BY <1>5, <1>10 DEF Results
<1>14. PlaceKept(p)'
  <2>1. /\ pc \notin Launching \cup {"new", "prepare", "fetch"} /\ i > 0
        /\ errors < MaxErrors \/ (pc = "save_json" /\ leaving)
    BY <1>9, <1>10, <1>11, <1>12 DEF Launching
  <2>2. proc[p].todo \in Seq(Models) /\ proc[p].base \in Nat
    BY DEF Typed, PlaceKept
  <2>. QED BY <1>8, <2>1, <2>2 DEF PlaceKept
<1>15. Typed(p)'
  <2>1. pc \in Crawling /\ i \in 0..Len(proc[p].todo)
    BY <1>9, <1>10, <1>12 DEF Crawling
  <2>. QED BY <1>7, <1>8, <1>11, <1>13, <1>14, <2>1 DEF Typed
<1>16. ASSUME NEW q \in Processes \ {p} PROVE Typed(q)'
  BY <1>7, <1>8, TypedOthers DEF Typed
<1>. QED BY <1>7, <1>10, <1>15, <1>16 DEF SharedTyped

\* The checkpoint of a model: its place is in the list, and the index in the workbook.
LEMMA TypedCheckpoint ==
  ASSUME Shape, SharedTyped, \A q \in Processes : Typed(q), NEW p \in Processes,
         WriteIndex(p) \/ WriteDone(p)
  PROVE  SharedTyped' /\ \A q \in Processes : Typed(q)'
<1>1. PICK i, model : i = proc[p].i /\ model = proc[p].todo[i]
  OBVIOUS
<1>2. PICK pc, leaving, known :
        /\ proc' = [proc EXCEPT ![p] = [@ EXCEPT !.pc = pc, !.leaving = leaving, !.known = known]]
        /\ pc \in {"mark_done", AfterCheckpoint(p)}
        /\ known \in {proc[p].known, proc[p].known \cup {model}}
        /\ done' \in {done, known} /\ resume' \in {resume, proc[p].base + i}
        /\ passed' \in {passed, [passed EXCEPT ![p] = @ \cup {model}]}
  <2>1. CASE WriteIndex(p)
    <3>1. /\ proc' = [proc EXCEPT ![p] =
               [@ EXCEPT !.pc = IF flow.done THEN "mark_done" ELSE AfterCheckpoint(p),
                         !.leaving = (i = Len(proc[p].todo))]]
          /\ done' = done /\ resume' = proc[p].base + i
          /\ passed' = [passed EXCEPT ![p] = @ \cup {model}]
      BY <1>1, <2>1 DEF WriteIndex
    <3>2. PICK pc, leaving : /\ pc = IF flow.done THEN "mark_done" ELSE AfterCheckpoint(p)
                             /\ leaving = (i = Len(proc[p].todo))
      OBVIOUS
    <3>3. proc' = [proc EXCEPT ![p] = [@ EXCEPT !.pc = pc, !.leaving = leaving]]
      BY <3>1, <3>2
    <3>4. proc' = [proc EXCEPT ![p] = [@ EXCEPT !.pc = pc, !.leaving = leaving, !.known = proc[p].known]]
      BY <3>3 DEF Shape, Fields
    <3>5. pc \in {"mark_done", AfterCheckpoint(p)}
      BY <3>2
    <3>. QED BY <3>1, <3>4, <3>5
  <2>2. CASE WriteDone(p)
    <3>1. PICK known : known = proc[p].known \cup {model}
      OBVIOUS
    <3>2. /\ proc' = [proc EXCEPT ![p] = [@ EXCEPT !.known = known, !.pc = AfterCheckpoint(p)]]
          /\ done' = known /\ resume' = resume /\ passed' = passed
      BY <1>1, <2>2, <3>1 DEF WriteDone, history
    <3>3. PICK pc : pc = AfterCheckpoint(p)
      OBVIOUS
    <3>4. proc' = [proc EXCEPT ![p] = [@ EXCEPT !.known = known, !.pc = pc]]
      BY <3>2, <3>3
    <3>5. proc' = [proc EXCEPT ![p] = [@ EXCEPT !.pc = pc, !.leaving = proc[p].leaving, !.known = known]]
      BY <3>4 DEF Shape, Fields
    <3>. QED BY <3>1, <3>2, <3>3, <3>5
  <2>. QED BY <2>1, <2>2
<1>3. /\ proc[p].pc \in {"write_index", "write_done"}
      /\ UNCHANGED <<flow, lock, stamp, json, csv, priced, fetched, rivals, deaths>>
  BY DEF WriteIndex, WriteDone, results, history
<1>4. /\ \A q \in Processes \ {p} : proc'[q] = proc[q]
      /\ proc'[p].pc = pc /\ proc'[p].known = known /\ proc'[p].i = i
      /\ proc'[p].results = proc[p].results /\ proc'[p].errors = proc[p].errors
      /\ proc'[p].todo = proc[p].todo /\ proc'[p].base = proc[p].base
  BY <1>1, <1>2 DEF Shape, Fields
<1>5. /\ proc[p].todo \in Seq(Models) /\ Len(proc[p].todo) \in Nat
      /\ i \in 1..Len(proc[p].todo) /\ proc[p].errors < MaxErrors
      /\ proc[p].base \in Nat /\ proc[p].base + Len(proc[p].todo) <= Len(Workbook)
  <2>1. /\ proc[p].todo \in Seq(Models) /\ proc[p].i \in 0..Len(proc[p].todo) /\ proc[p].i > 0
        /\ proc[p].errors < MaxErrors
        /\ proc[p].base \in Nat /\ proc[p].base + Len(proc[p].todo) <= Len(Workbook)
    BY <1>3 DEF Typed, PlaceKept, Releasing, Crawling
  <2>2. Len(proc[p].todo) \in Nat
    BY <2>1
  <2>. QED BY <1>1, <2>1, <2>2
<1>6. model \in Models
  BY <1>1, <1>5
<1>7. /\ pc \in {"mark_done", "save_json", "fetch"}
      /\ pc = "fetch" => i < Len(proc[p].todo)
  BY <1>1, <1>2, <1>5 DEF AfterCheckpoint
<1>8. /\ known \subseteq Models /\ passed'[p] \subseteq Models
      /\ \A q \in Processes \ {p} : passed'[q] = passed[q]
  <2>1. proc[p].known \subseteq Models /\ passed[p] \subseteq Models
    BY DEF Typed
  <2>. QED BY <1>2, <1>6, <2>1 DEF Shape
<1>9. resume' \in 0..Len(Workbook) /\ done' \subseteq Models
  <2>1. proc[p].base + i \in 0..Len(Workbook)
    BY <1>5, Parameters
  <2>. QED BY <1>2, <1>8, <2>1 DEF SharedTyped
<1>10. PlaceKept(p)'
  <2>1. pc \notin Launching \cup {"new", "prepare"} /\ i > 0
    BY <1>5, <1>7 DEF Launching
  <2>. QED BY <1>4, <1>5, <1>7, <2>1 DEF PlaceKept
<1>11. Typed(p)'
  <2>1. pc \in Crawling /\ i \in 0..Len(proc[p].todo)
    BY <1>5, <1>7 DEF Crawling
  <2>. QED BY <1>3, <1>4, <1>8, <1>10, <2>1 DEF Typed
<1>12. ASSUME NEW q \in Processes \ {p} PROVE Typed(q)'
  BY <1>3, <1>4, <1>8, TypedOthers DEF Typed
<1>. QED BY <1>3, <1>9, <1>11, <1>12 DEF SharedTyped

\* The death of p, and a price that is taken over.
LEMMA TypedWorld ==
  ASSUME Shape, SharedTyped, \A q \in Processes : Typed(q),
         (\E p \in Processes : Die(p)) \/ (\E m \in Models : ImportPrice(m))
  PROVE  SharedTyped' /\ \A q \in Processes : Typed(q)'
<1>1. ASSUME NEW p \in Processes, Die(p) PROVE SharedTyped' /\ \A q \in Processes : Typed(q)'
  <2>1. /\ proc' = [proc EXCEPT ![p] = [NewProcess EXCEPT !.pc = "dead"]]
        /\ deaths < MaxDeaths /\ deaths' = deaths + 1
        /\ UNCHANGED <<flow, lock, resume, done, stamp, json, csv, priced, fetched, passed, rivals>>
    BY <1>1 DEF Die, results
  <2>2. /\ \A q \in Processes \ {p} : proc'[q] = proc[q]
        /\ proc'[p].pc = "dead" /\ proc'[p].todo = <<>> /\ proc'[p].base = 0
        /\ proc'[p].i = 0 /\ proc'[p].known = {} /\ proc'[p].results = {}
        /\ proc'[p].errors = 0
    BY <2>1 DEF Shape, NewProcess
  <2>3. <<>> \in Seq(Models) /\ Len(<<>>) = 0 /\ ToSet(<<>>) = {}
    BY DEF ToSet
  <2>4. PlaceKept(p)'
    BY <2>2, <2>3, Parameters DEF PlaceKept, Launching, Crawling
  <2>5. stamp[p] \in Stamps \cup {NoStamp} /\ passed[p] \subseteq Models /\ rivals[p] \subseteq Processes \ {p}
    BY DEF Typed
  <2>6. Typed(p)'
    <3>1. /\ proc'[p].pc \in Over /\ ToSet(proc'[p].todo) \subseteq Models
          /\ proc'[p].i \in 0..Len(proc'[p].todo) /\ proc'[p].errors \in 0..MaxErrors
      BY <2>2, <2>3, Parameters DEF Over
    <3>2. proc'[p].base + Len(proc'[p].todo) <= Len(Workbook)
      BY <2>2, <2>3, Parameters
    <3>3. /\ proc'[p].results \subseteq Results /\ stamp'[p] \in Stamps \cup {NoStamp}
          /\ proc'[p].known \cup passed'[p] \subseteq Models
          /\ rivals'[p] \subseteq Processes \ {p}
      BY <2>1, <2>2, <2>5
    <3>. QED BY <2>4, <3>1, <3>2, <3>3 DEF Typed
  <2>7. ASSUME NEW q \in Processes \ {p} PROVE Typed(q)'
    BY <2>1, <2>2, TypedOthers DEF Typed
  <2>8. SharedTyped'
    BY <2>1, Parameters DEF SharedTyped
  <2>. QED BY <2>6, <2>7, <2>8
<1>2. ASSUME NEW m \in Models, ImportPrice(m) PROVE SharedTyped' /\ \A q \in Processes : Typed(q)'
  <2>1. /\ UNCHANGED <<flow, lock, proc, resume, done, stamp, json, csv, fetched, passed, rivals, deaths>>
        /\ priced' = priced \cup {m}
    BY <1>2 DEF ImportPrice, history
  <2>2. \A q \in Processes : Typed(q)'
    BY <2>1, TypedOthers DEF Typed
  <2>. QED BY <2>1, <2>2 DEF SharedTyped
<1>. QED BY <1>1, <1>2

\* For every workbook, command line, number of launches and bound: the index stays in
\* the workbook, and no run counts past its list or past the limit of errors.
THEOREM TypesHold == Spec => []TypeOK
<1>1. Init => TypeInv
  <2>. SUFFICES ASSUME Init PROVE TypeInv
    OBVIOUS
  <2>1. <<>> \in Seq(Models) /\ Len(<<>>) = 0 /\ ToSet(<<>>) = {}
    BY DEF ToSet
  <2>2. SharedTyped
    BY Parameters DEF Init, SharedTyped, NoLock
  <2>3. ASSUME NEW p \in Processes PROVE Typed(p)
    <3>1. proc[p] = NewProcess /\ stamp[p] = NoStamp /\ passed[p] = {} /\ rivals[p] = {}
      BY DEF Init
    <3>2. PlaceKept(p)
      BY <2>1, <3>1, Parameters DEF PlaceKept, NewProcess, Crawling
    <3>. QED BY <2>1, <3>1, <3>2, Parameters DEF Typed, NewProcess, Over
  <2>. QED BY <2>2, <2>3, TypeParts
<1>2. Shape /\ TypeInv /\ [Next]_vars => TypeInv'
  <2>. SUFFICES ASSUME Shape, TypeInv, [Next]_vars PROVE TypeInv'
    OBVIOUS
  <2>1. SharedTyped /\ \A q \in Processes : Typed(q)
    BY TypeParts
  <2>2. SharedTyped' /\ \A q \in Processes : Typed(q)'
    <3>1. CASE UNCHANGED vars
      BY <2>1, <3>1 DEF vars, SharedTyped, Typed, PlaceKept
    <3>2. ASSUME NEW p \in Processes, Launch(p) \/ Acquire(p) \/ Crawl(p) \/ Release(p)
          PROVE  SharedTyped' /\ \A q \in Processes : Typed(q)'
      BY <2>1, <3>2, TypedLaunch, TypedMoves, TypedPrepare, TypedFetch, TypedCheckpoint DEF Crawl
    <3>. QED BY <2>1, <3>1, <3>2, TypedWorld, NextSteps
  <2>3. TypeInv' <=> SharedTyped' /\ \A q \in Processes : Typed(q)'
    BY DEF TypeInv, TypeOK, SharedTyped, Typed
  <2>. QED BY <2>2, <2>3
<1>3. TypeInv => TypeOK
  BY DEF TypeInv
<1>. QED BY <1>1, <1>2, <1>3, ShapeInvariant, PTL DEF Spec
=============================================================================
