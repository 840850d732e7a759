------------------------ MODULE VendorCollectProofs ------------------------
(***************************************************************************)
(* Theorems about VendorCollect, for every number of launches, every sheet *)
(* and command line, all answers of the platforms and any number of deaths *)
(* and interruptions: one launch collects unless two raced for the lock,   *)
(* the resume index skips nothing that has no answer, no launch asks for a *)
(* part that its file has, the database lacks answers for no more parts    *)
(* than were stopped or are being stored, and a price that is not left for *)
(* review comes from a page with one line about the part.                  *)
(***************************************************************************)
EXTENDS VendorCollect, FiniteSetTheorems, SequenceTheorems, WellFoundedInduction, TLAPS

\* The steps of a process: for the lock, over the rows, and the ends it may meet.
Locking(p) == \/ CreateLock(p) \/ CreateAgain(p) \/ WritePid(p) \/ ReadLock(p)
              \/ UnlinkStale(p) \/ Release(p)
Walking(p) == \/ LoadResume(p) \/ OpenOutput(p) \/ EndRows(p) \/ SkipRow(p) \/ Query(p)
              \/ AppendRows(p) \/ UpsertSupplierItem(p) \/ UpsertBomman(p) \/ UpsertSzlcsc(p)
              \/ OpenResume(p) \/ WriteResume(p)
Stopping(p) == Die(p) \/ Interrupt(p)

\* Every step is a process's, or none.
LEMMA NextSteps ==
  ASSUME [Next]_vars
  PROVE  \/ UNCHANGED vars
         \/ \E p \in Processes : Launch(p) \/ Locking(p) \/ Walking(p) \/ Stopping(p)
BY DEF Next, Step, Locking, Walking, Stopping

\* A step that only moves the program counter of p.
LEMMA GotoStep ==
  ASSUME Shape, NEW p \in Processes, NEW pc, Goto(p, pc)
  PROVE  /\ DOMAIN proc' = Processes /\ DOMAIN proc'[p] = ProcessFields
         /\ \A q \in Processes \ {p} : proc'[q] = proc[q]
         /\ proc'[p].pc = pc
         /\ proc'[p].args = proc[p].args /\ proc'[p].out = proc[p].out
         /\ proc'[p].row = proc[p].row /\ proc'[p].known = proc[p].known
         /\ proc'[p].pages = proc[p].pages
BY DEF Shape, Goto, ProcessFields

-----------------------------------------------------------------------------
(* The effect of each step on what the invariants speak of.                *)

\* A step of p as the invariants see it: the local states of the others stay.
Local(p) ==
  /\ DOMAIN proc' = Processes /\ DOMAIN proc'[p] = ProcessFields
  /\ \A q \in Processes \ {p} : proc'[q] = proc[q]

\* p keeps its place and what it knows.
Stays(p) ==
  /\ proc'[p].args = proc[p].args /\ proc'[p].out = proc[p].out
  /\ proc'[p].row = proc[p].row /\ proc'[p].known = proc[p].known
  /\ proc'[p].pages = proc[p].pages

\* A launch takes one of the command lines and goes for the lock.
LEMMA LaunchStep ==
  ASSUME Shape, NEW p \in Processes, Launch(p)
  PROVE  /\ Local(p) /\ proc[p].pc = "new" /\ proc'[p].pc = "create"
         /\ proc'[p].args \in Arguments /\ proc'[p].out = proc[p].out
         /\ proc'[p].row = proc[p].row /\ proc'[p].known = proc[p].known
         /\ UNCHANGED <<sheet, lock, resume, csv>>
         /\ raced' \in BOOLEAN
         /\ ~raced' => ~raced /\ \A q \in Processes : proc[q].pc \notin Launching
<1>1. PICK a \in Arguments : proc' = [proc EXCEPT ![p] = [@ EXCEPT !.pc = "create", !.args = a]]
  BY DEF Launch
<1>2. /\ Local(p) /\ proc'[p].pc = "create" /\ proc'[p].args = a /\ proc'[p].out = proc[p].out
      /\ proc'[p].row = proc[p].row /\ proc'[p].known = proc[p].known
  BY <1>1 DEF Local, Shape, ProcessFields
<1>3. /\ proc[p].pc = "new"
      /\ raced' = (raced \/ \E q \in Processes : proc[q].pc \in Launching)
      /\ UNCHANGED <<sheet, lock, resume, csv>>
  BY DEF Launch, output
<1>. QED BY <1>2, <1>3 DEF Shape

\* The steps for the lock move the program counter and write the lock file only.
LEMMA LockingStep ==
  ASSUME Shape, NEW p \in Processes, Locking(p)
  PROVE  /\ Local(p) /\ Stays(p) /\ UNCHANGED <<sheet, resume, csv, raced>>
         /\ DOMAIN lock' = {"creator", "written"}
         /\ proc[p].pc \in Launching \cup {"release"}
         /\ \/ /\ proc[p].pc \in {"create", "create_again"} /\ lock = NoLock
               /\ proc'[p].pc = "write_pid" /\ lock'.creator = p
            \/ /\ proc[p].pc = "create" /\ proc'[p].pc = "read_lock" /\ lock' = lock
            \/ /\ proc[p].pc = "create_again" /\ proc'[p].pc = "refused" /\ lock' = lock
            \/ /\ proc[p].pc = "write_pid" /\ proc'[p].pc = "load"
               /\ lock'.creator = lock.creator /\ (lock.creator = p => lock'.written)
            \/ /\ proc[p].pc = "read_lock" /\ lock' = lock
               /\ proc'[p].pc = IF LockIsStale THEN "unlink" ELSE "refused"
            \/ /\ proc[p].pc = "unlink" /\ proc'[p].pc = "create_again"
            \/ /\ proc[p].pc = "release" /\ proc'[p].pc = "ended"
<1>. USE DEF Local, Stays, output, Launching, NoLock
<1>1. CASE CreateLock(p) BY <1>1, GotoStep DEF CreateLock, Create, Shape
<1>2. CASE CreateAgain(p) BY <1>2, GotoStep DEF CreateAgain, Create, Shape
<1>3. CASE WritePid(p) BY <1>3, GotoStep DEF WritePid, Shape
<1>4. CASE ReadLock(p) BY <1>4, GotoStep DEF ReadLock, Shape
<1>5. CASE UnlinkStale(p) BY <1>5, GotoStep DEF UnlinkStale
<1>6. CASE Release(p) BY <1>6, GotoStep DEF Release
<1>. QED BY <1>1, <1>2, <1>3, <1>4, <1>5, <1>6 DEF Locking

\* A death ends p, an interruption sends it to release_lock.
LEMMA StoppingStep ==
  ASSUME Shape, NEW p \in Processes, Stopping(p)
  PROVE  /\ Local(p) /\ Stays(p) /\ UNCHANGED <<sheet, lock, resume, csv, raced>>
         /\ Alive(p)
         /\ \/ proc'[p].pc = "dead"
            \/ proc[p].pc \in Collecting /\ proc'[p].pc = "release"
<1>1. CASE Die(p) BY <1>1, GotoStep DEF Die, output, Local, Stays
<1>2. CASE Interrupt(p)
  BY <1>2, GotoStep DEF Interrupt, output, Local, Stays, Collects, Alive, Collecting, Over
<1>. QED BY <1>1, <1>2 DEF Stopping

\* What load_resume makes of the resume file.
LEMMA LoadStep ==
  ASSUME Shape, NEW p \in Processes, LoadResume(p)
  PROVE  /\ Local(p) /\ UNCHANGED <<sheet, lock, resume, csv, raced>>
         /\ proc[p].pc = "load"
         /\ proc'[p].args = proc[p].args /\ proc'[p].known = proc[p].known
         /\ \/ proc'[p].pc = "release" /\ proc'[p].row = proc[p].row
            \/ /\ proc'[p].pc = "open_csv" /\ proc'[p].out \in Files
               /\ proc'[p].row \in {1, resume.next + 1}
<1>1. proc[p].pc = "load" /\ UNCHANGED <<sheet, lock, resume, csv, raced>>
  BY DEF LoadResume, output
<1>2. CASE DetectVendorFields(sheet).part = 0
  BY <1>1, <1>2, GotoStep DEF LoadResume, Local
<1>3. CASE DetectVendorFields(sheet).part # 0
  <2>1. /\ proc[p].args.out \in {Nobody, Given}
        /\ resume.next \in Nat /\ resume.out \in Files \cup {Nobody}
    BY <1>1, InputsAssumption DEF Shape
  <2>2. PICK row \in {1, resume.next + 1} : \E l, b : \E o \in Files :
          proc' = [proc EXCEPT ![p] = [@ EXCEPT !.pc = "open_csv", !.row = row, !.last = l,
                                                !.batch = b, !.out = o]]
    <3>. DEFINE start == IF resume.next > Len(sheet.rows) THEN 0 ELSE resume.next
                limit == IF proc[p].args.limit > 0 THEN Min({Len(sheet.rows), start + proc[p].args.limit})
                         ELSE Len(sheet.rows)
                batch == IF resume.batch = Nobody THEN p ELSE resume.batch
                out == CASE proc[p].args.out # Nobody -> proc[p].args.out
                         [] resume.out # Nobody -> resume.out
                         [] OTHER -> p
    <3>1. proc' = [proc EXCEPT ![p] = [@ EXCEPT !.pc = "open_csv", !.row = start + 1, !.last = limit,
                                                !.batch = batch, !.out = out]]
      BY <1>3 DEF LoadResume
    <3>2. start + 1 \in {1, resume.next + 1}
      BY <2>1
    <3>3. out \in Files
      BY <2>1 DEF Files
    <3>. HIDE DEF start, limit, batch, out
    <3>4. \E row \in {1, resume.next + 1} : \E l, b : \E o \in Files :
            proc' = [proc EXCEPT ![p] = [@ EXCEPT !.pc = "open_csv", !.row = row, !.last = l,
                                                  !.batch = b, !.out = o]]
      BY <3>1, <3>2, <3>3
    <3>. QED BY <3>4
  <2>. QED BY <1>1, <2>2 DEF Local, Shape, ProcessFields
<1>. QED BY <1>2, <1>3

\* Whether the item is new or known, p goes on to the first platform's answer.
LEMMA ItemStep ==
  ASSUME Shape, NEW p \in Processes, UpsertSupplierItem(p)
  PROVE  /\ Local(p) /\ Stays(p) /\ UNCHANGED <<sheet, lock, resume, csv, raced>>
         /\ proc[p].pc = "item" /\ proc'[p].pc = "bomman"
<1>. DEFINE same == {i \in DOMAIN items : SameItem(i, p)}
<1>1. CASE same = {}
  <2>1. proc' = [proc EXCEPT ![p] = [@ EXCEPT !.pc = "bomman", !.item = Len(items) + 1]]
    BY <1>1 DEF UpsertSupplierItem
  <2>. QED BY <2>1 DEF UpsertSupplierItem, Local, Stays, Shape, ProcessFields
<1>2. CASE same # {}
  <2>1. PICK i \in same : proc' = [proc EXCEPT ![p] = [@ EXCEPT !.pc = "bomman", !.item = i]]
    BY <1>2 DEF UpsertSupplierItem
  <2>. QED BY <2>1 DEF UpsertSupplierItem, Local, Stays, Shape, ProcessFields
<1>. QED BY <1>1, <1>2

\* What a step over the rows leaves of program counter, lock and place.
LEMMA WalkingStep ==
  ASSUME Shape, NEW p \in Processes, Walking(p)
  PROVE  /\ Local(p) /\ UNCHANGED <<sheet, lock, raced>>
         /\ proc[p].pc \in Collecting /\ proc'[p].pc \in Collecting \cup {"release"}
         /\ proc'[p].pc # "load"
         /\ proc'[p].args = proc[p].args
         /\ proc[p].pc # "load" => proc'[p].out = proc[p].out
<1>. USE DEF Collecting
<1>0. CASE LoadResume(p) BY <1>0, LoadStep
<1>1. CASE OpenOutput(p) BY <1>1 DEF OpenOutput, output, Local, Shape, ProcessFields
<1>2. CASE EndRows(p) BY <1>2, GotoStep DEF EndRows, output, Local
<1>3. CASE SkipRow(p) BY <1>3, GotoStep DEF SkipRow, output, Local
<1>4. CASE Query(p)
  <2>1. PICK pages : proc' = [proc EXCEPT ![p] = [@ EXCEPT !.pc = "append", !.pages = pages]]
    BY <1>4 DEF Query
  <2>. QED BY <1>4, <2>1 DEF Query, output, Local, Shape, ProcessFields
<1>5. CASE AppendRows(p)
  <2>1. CASE proc[p].args.db BY <1>5, <2>1, GotoStep DEF AppendRows, Local
  <2>2. CASE ~proc[p].args.db
    <3>1. proc' = [proc EXCEPT ![p] = [@ EXCEPT !.pc = "open_resume",
                                                !.known = proc[p].known \cup {Model(proc[p].row)}]]
      BY <1>5, <2>2 DEF AppendRows
    <3>. QED BY <1>5, <3>1 DEF AppendRows, Local, Shape, ProcessFields
  <2>. QED BY <2>1, <2>2
<1>6. CASE UpsertSupplierItem(p)
  BY <1>6, ItemStep DEF Stays
<1>7. CASE UpsertBomman(p) BY <1>7, GotoStep DEF UpsertBomman, Local
<1>8. CASE UpsertSzlcsc(p) BY <1>8 DEF UpsertSzlcsc, Local, Shape, ProcessFields
<1>9. CASE OpenResume(p) BY <1>9, GotoStep DEF OpenResume, Local
<1>10. CASE WriteResume(p) BY <1>10 DEF WriteResume, Local, Shape, ProcessFields
<1>. QED BY <1>0, <1>1, <1>2, <1>3, <1>4, <1>5, <1>6, <1>7, <1>8, <1>9, <1>10 DEF Walking

-----------------------------------------------------------------------------
(* One launch collects.                                                    *)

\* The lock invariant holds after every step.
LEMMA LockStep ==
  ASSUME Shape, LockInv, [Next]_vars
  PROVE  LockInv'
<1>1. CASE UNCHANGED vars
  BY <1>1 DEF vars, LockInv
<1>2. ASSUME NEW p \in Processes, Launch(p)
      PROVE  LockInv'
  BY <1>2, LaunchStep DEF LockInv, Local, Launching, Holding, Collecting
<1>3. ASSUME NEW p \in Processes, Walking(p)
      PROVE  LockInv'
  BY <1>3, WalkingStep DEF LockInv, Local, Launching, Holding, Collecting
<1>4. ASSUME NEW p \in Processes, Stopping(p)
      PROVE  LockInv'
  BY <1>4, StoppingStep DEF LockInv, Local, Launching, Holding, Collecting
<1>5. ASSUME NEW p \in Processes, Locking(p)
      PROVE  LockInv'
  <2>1. /\ Local(p) /\ raced' = raced /\ proc[p].pc \in Launching \cup {"release"}
    BY <1>5, LockingStep
  <2>2. CASE raced
    BY <2>1, <2>2 DEF LockInv
  <2>. SUFFICES ASSUME ~raced PROVE LockInv'
    BY <2>2
  <2>. USE <2>1 DEF LockInv, Local, Launching, Holding, Collecting
  <2>3. CASE lock = NoLock /\ proc'[p].pc = "write_pid"
    <3>1. lock'.creator = p /\ \A q \in Processes : proc[q].pc \notin Holding
      BY <1>5, <2>3, LockingStep, NamesAssumption DEF NoLock
    <3>2. proc[p].pc \in {"create", "create_again"}
      BY <1>5, <2>3, LockingStep
    <3>. QED BY <2>3, <3>1, <3>2
  <2>4. CASE proc[p].pc = "create" /\ proc'[p].pc = "read_lock" /\ lock' = lock
    BY <2>4
  <2>5. CASE proc[p].pc = "create_again" /\ proc'[p].pc = "refused" /\ lock' = lock
    BY <2>5
  <2>6. CASE proc[p].pc = "write_pid" /\ proc'[p].pc = "load"
    <3>1. lock'.creator = lock.creator /\ lock.creator = p /\ lock'.written
      BY <1>5, <2>6, LockingStep
    <3>. QED BY <2>6, <3>1
  <2>7. CASE proc[p].pc = "read_lock" /\ lock' = lock /\ proc'[p].pc = IF LockIsStale THEN "unlink" ELSE "refused"
    <3>1. CASE LockIsStale
      <4>1. \A q \in Processes : proc[q].pc \notin Holding
        BY <2>7, <3>1 DEF LockIsStale, Alive, Over
      <4>. QED BY <2>7, <3>1, <4>1
    <3>2. CASE ~LockIsStale
      BY <2>7, <3>2
    <3>. QED BY <3>1, <3>2
  <2>8. CASE proc[p].pc = "unlink" /\ proc'[p].pc = "create_again"
    BY <2>8
  <2>9. CASE proc[p].pc = "release" /\ proc'[p].pc = "ended"
    <3>1. \A q \in Processes \ {p} : proc[q].pc \notin Holding
      BY <2>9
    <3>. QED BY <2>9, <3>1
  <2>. QED BY <1>5, <2>3, <2>4, <2>5, <2>6, <2>7, <2>8, <2>9, LockingStep
<1>. QED BY <1>1, <1>2, <1>3, <1>4, <1>5, NextSteps

-----------------------------------------------------------------------------
(* The shape of the state.                                                 *)

\* The initial state has the shape.
LEMMA ShapeInit == Init => Shape
<1>. SUFFICES ASSUME Init PROVE Shape
  OBVIOUS
<1>1. /\ DOMAIN lock = {"creator", "written"} /\ DOMAIN csv = Files /\ raced \in BOOLEAN
      /\ DOMAIN resume = {"next", "batch", "out"} /\ resume.next \in Nat /\ resume.out = Nobody
  BY DEF Init, NoLock, NoResume
<1>2. /\ DOMAIN proc = Processes
      /\ \A p \in Processes : /\ DOMAIN proc[p] = ProcessFields
                              /\ proc[p].row \in Nat /\ proc[p].pc = "new"
  BY DEF Init, NewProcess, ProcessFields
<1>. QED BY <1>1, <1>2 DEF Shape, Underway, Collecting

\* Every step keeps the shape.
LEMMA ShapeStep ==
  ASSUME Shape, [Next]_vars
  PROVE  Shape'
<1>1. CASE UNCHANGED vars
  BY <1>1 DEF vars, output, Shape
<1>2. ASSUME NEW p \in Processes, Launch(p)
      PROVE  Shape'
  BY <1>2, LaunchStep DEF Local, Shape, Underway, Collecting
<1>3. ASSUME NEW p \in Processes, Locking(p)
      PROVE  Shape'
  BY <1>3, LockingStep DEF Local, Stays, Shape, Underway, Collecting, Launching
<1>4. ASSUME NEW p \in Processes, Stopping(p)
      PROVE  Shape'
  BY <1>4, StoppingStep DEF Local, Stays, Shape, Underway, Collecting, Alive, Over
<1>5. ASSUME NEW p \in Processes, Walking(p)
      PROVE  Shape'
  <2>1. /\ Local(p) /\ UNCHANGED <<sheet, lock, raced>> /\ proc'[p].args = proc[p].args
        /\ proc[p].pc \in Collecting /\ proc'[p].pc \in Collecting \cup {"release"}
    BY <1>5, WalkingStep
  <2>. SUFFICES
         /\ proc'[p].row \in Nat
         /\ proc'[p].pc \in Underway => proc'[p].out \in Files
         /\ DOMAIN resume' = {"next", "batch", "out"}
         /\ resume'.next \in Nat /\ resume'.out \in Files \cup {Nobody}
         /\ DOMAIN csv' = Files
    BY <2>1 DEF Shape, Local, Collecting
  <2>. USE <2>1 DEF Local, Shape, ProcessFields, Underway, Collecting, output
  <2>2. CASE LoadResume(p) BY <2>2, LoadStep
  <2>3. CASE OpenOutput(p) BY <2>3 DEF OpenOutput
  <2>4. CASE EndRows(p) BY <2>4 DEF EndRows, Goto
  <2>5. CASE SkipRow(p) BY <2>5 DEF SkipRow, Goto
  <2>6. CASE Query(p)
    <3>1. PICK pages : proc' = [proc EXCEPT ![p] = [@ EXCEPT !.pc = "append", !.pages = pages]]
      BY <2>6 DEF Query
    <3>. QED BY <2>6, <3>1 DEF Query
  <2>7. CASE AppendRows(p)
    <3>0. proc[p].pc = "append"
      BY <2>7 DEF AppendRows
    <3>1. proc'[p].row = proc[p].row /\ proc'[p].out = proc[p].out
      <4>1. CASE proc[p].args.db
        BY <2>7, <4>1, GotoStep DEF AppendRows
      <4>2. CASE ~proc[p].args.db
        <5>1. proc' = [proc EXCEPT ![p] = [@ EXCEPT !.pc = "open_resume",
                                                    !.known = proc[p].known \cup {Model(proc[p].row)}]]
          BY <2>7, <4>2 DEF AppendRows
        <5>. QED BY <5>1
      <4>. QED BY <4>1, <4>2
    <3>2. DOMAIN csv' = Files /\ resume' = resume
      BY <2>7 DEF AppendRows
    <3>. QED BY <3>0, <3>1, <3>2
  <2>8. CASE UpsertSupplierItem(p)
    BY <2>8, ItemStep DEF Stays
  <2>9. CASE UpsertBomman(p) BY <2>9 DEF UpsertBomman, Goto
  <2>10. CASE UpsertSzlcsc(p) BY <2>10 DEF UpsertSzlcsc
  <2>11. CASE OpenResume(p) BY <2>11 DEF OpenResume, Goto, NoResume
  <2>12. CASE WriteResume(p) BY <2>12 DEF WriteResume
  <2>. QED BY <1>5, <2>2, <2>3, <2>4, <2>5, <2>6, <2>7, <2>8, <2>9, <2>10, <2>11, <2>12 DEF Walking
<1>. QED BY <1>1, <1>2, <1>3, <1>4, <1>5, NextSteps

\* Whatever they die of and wherever they come from, two launches collect at once only
\* if two were in acquire_lock together.
THEOREM OneCollects == Spec => []OneCollectsUnlessRaced
<1>1. Init => OneInv
  BY ShapeInit DEF Init, NewProcess, OneInv, LockInv, Launching, Holding, Collecting
<1>2. OneInv /\ [Next]_vars => OneInv'
  BY ShapeStep, LockStep DEF OneInv
<1>3. OneInv => OneCollectsUnlessRaced
  BY DEF OneInv, LockInv, OneCollectsUnlessRaced, Collects, Holding
<1>. QED BY <1>1, <1>2, <1>3, PTL DEF Spec

-----------------------------------------------------------------------------
(* The index skips nothing.                                                *)

\* Two rows at the end of a file leave the others in their places.
LEMMA AppendTwo ==
  ASSUME NEW s, s \in Seq(Range(s)), NEW a, NEW b
  PROVE  /\ s \o <<a, b>> \in Seq(Range(s \o <<a, b>>))
         /\ Len(s) \in Nat /\ DOMAIN s = 1..Len(s) /\ DOMAIN (s \o <<a, b>>) = 1..(Len(s) + 2)
         /\ \A i \in 1..Len(s) : (s \o <<a, b>>)[i] = s[i]
         /\ (s \o <<a, b>>)[Len(s) + 1] = a /\ (s \o <<a, b>>)[Len(s) + 2] = b
<1>. DEFINE S == Range(s) \cup {a, b}
            t == <<a, b>>
<1>1. s \in Seq(S) /\ t \in Seq(S) /\ Len(t) = 2 /\ t[1] = a /\ t[2] = b
  <2>1. s \in Seq(S)
    BY SeqMonotonic
  <2>2. a \in S /\ b \in S
    OBVIOUS
  <2>. HIDE DEF S
  <2>3. t \in Seq(S)
    BY <2>2
  <2>4. Len(t) = 2 /\ t[1] = a /\ t[2] = b
    OBVIOUS
  <2>. QED BY <2>1, <2>3, <2>4
<1>. HIDE DEF S, t
<1>2. /\ s \o t \in Seq(S) /\ Len(s \o t) = Len(s) + Len(t)
      /\ \A i \in 1..Len(s) + Len(t) : (s \o t)[i] = IF i <= Len(s) THEN s[i] ELSE t[i - Len(s)]
  BY <1>1, ConcatProperties
<1>3. s \o t \in Seq(Range(s \o t))
  BY <1>2, SeqOfRange
<1>4. /\ Len(s) \in Nat /\ DOMAIN s = 1..Len(s)
      /\ DOMAIN (s \o t) = 1..Len(s \o t)
  BY <1>1, <1>2
<1>5. /\ \A i \in 1..Len(s) : (s \o t)[i] = s[i]
      /\ (s \o t)[Len(s) + 1] = a /\ (s \o t)[Len(s) + 2] = b
  BY <1>1, <1>2, <1>4
<1>6. DOMAIN (s \o t) = 1..(Len(s) + 2)
  BY <1>1, <1>2, <1>4
<1>. QED BY <1>3, <1>4, <1>5, <1>6 DEF t

\* The two rows that p appends to its file, and what they say.
LEMMA AppendedRows ==
  ASSUME Shape, FilesComplete, NEW p \in Processes, AppendRows(p)
  PROVE  LET o == proc[p].out
             n == Len(csv[o])
         IN  /\ o \in Files /\ DOMAIN csv = Files /\ DOMAIN csv' = Files
             /\ \A f \in Files \ {o} : csv'[f] = csv[f]
             /\ csv'[o] \in Seq(Range(csv'[o]))
             /\ n \in Nat /\ DOMAIN csv[o] = 1..n /\ DOMAIN csv'[o] = 1..(n + 2)
             /\ \A i \in 1..n : csv'[o][i] = csv[o][i]
             /\ csv'[o][n + 1] = CsvRow(p, "bomman") /\ csv'[o][n + 2] = CsvRow(p, "szlcsc")
<1>. DEFINE o == proc[p].out
            a == CsvRow(p, "bomman")
            b == CsvRow(p, "szlcsc")
            n == Len(csv[o])
<1>1. o \in Files /\ DOMAIN csv = Files
  BY DEF AppendRows, Shape, Underway, Collecting
<1>2. csv' = [csv EXCEPT ![o] = csv[o] \o <<a, b>>]
  BY DEF AppendRows
<1>. HIDE DEF o, a, b, n
<1>3. DOMAIN csv' = Files /\ csv'[o] = csv[o] \o <<a, b>> /\ \A f \in Files \ {o} : csv'[f] = csv[f]
  BY <1>1, <1>2
<1>4. /\ csv'[o] \in Seq(Range(csv'[o]))
      /\ n \in Nat /\ DOMAIN csv[o] = 1..n /\ DOMAIN csv'[o] = 1..(n + 2)
      /\ \A i \in 1..n : csv'[o][i] = csv[o][i]
      /\ csv'[o][n + 1] = a /\ csv'[o][n + 2] = b
  BY <1>1, <1>3, AppendTwo DEF FilesComplete, n
<1>. QED BY <1>1, <1>3, <1>4 DEF o, a, b, n

\* The rows of a model in a file stay there, and both of them come together.
LEMMA AppendStep ==
  ASSUME Shape, FilesComplete, NEW p \in Processes, AppendRows(p)
  PROVE  /\ FilesComplete'
         /\ \A f \in Files : \A m : Complete(csv[f], m) => Complete(csv'[f], m)
         /\ proc[p].out \in Files /\ Complete(csv'[proc[p].out], Model(proc[p].row))
<1>. DEFINE o == proc[p].out
            a == CsvRow(p, "bomman")
            b == CsvRow(p, "szlcsc")
            n == Len(csv[o])
<1>1. o \in Files /\ DOMAIN csv = Files
  BY AppendedRows
<1>3. /\ a.model = Model(proc[p].row) /\ a.platform = "bomman"
      /\ b.model = Model(proc[p].row) /\ b.platform = "szlcsc"
  BY DEF CsvRow
<1>4. DOMAIN csv' = Files /\ \A f \in Files \ {o} : csv'[f] = csv[f]
  BY AppendedRows
<1>5. /\ csv'[o] \in Seq(Range(csv'[o]))
      /\ n \in Nat /\ DOMAIN csv[o] = 1..n /\ DOMAIN csv'[o] = 1..(n + 2)
      /\ \A i \in 1..n : csv'[o][i] = csv[o][i]
      /\ csv'[o][n + 1] = a /\ csv'[o][n + 2] = b
  BY AppendedRows
<1>. HIDE DEF o, a, b, n
<1>6. Complete(csv'[o], Model(proc[p].row))
  BY <1>3, <1>5 DEF Complete, Platforms
<1>7. ASSUME NEW m, Complete(csv[o], m)
      PROVE  Complete(csv'[o], m)
  <2>. SUFFICES ASSUME NEW s \in Platforms
                PROVE  \E i \in DOMAIN csv'[o] : csv'[o][i].model = m /\ csv'[o][i].platform = s
    BY DEF Complete
  <2>1. PICK i \in 1..n : csv[o][i].model = m /\ csv[o][i].platform = s
    BY <1>5, <1>7 DEF Complete
  <2>. QED BY <1>5, <2>1
<1>8. \A i \in DOMAIN csv'[o] : csv'[o][i].platform \in Platforms /\ Complete(csv'[o], csv'[o][i].model)
  <2>. SUFFICES ASSUME NEW i \in 1..(n + 2)
                PROVE  csv'[o][i].platform \in Platforms /\ Complete(csv'[o], csv'[o][i].model)
    BY <1>5
  <2>1. CASE i \in 1..n
    BY <1>1, <1>5, <1>7, <2>1 DEF FilesComplete
  <2>2. CASE i \in {n + 1, n + 2}
    BY <1>3, <1>5, <1>6, <2>2 DEF Platforms
  <2>. QED BY <1>5, <2>1, <2>2
<1>9. FilesComplete'
  BY <1>1, <1>4, <1>5, <1>8 DEF FilesComplete
<1>. QED BY <1>1, <1>4, <1>6, <1>7, <1>9 DEF o

\* What a launch finds twice in its file is there with both answers.
LEMMA CompletedAreOnFile ==
  ASSUME FilesComplete, NEW f \in Files, NEW m \in CompletedModels(f)
  PROVE  OnFile(m)
<1>. DEFINE twice == {i \in DOMAIN csv[f] : csv[f][i].model = m}
<1>1. Cardinality(twice) >= 2
  BY DEF CompletedModels
<1>2. twice # {}
  BY <1>1, FS_EmptySet
<1>3. PICK i \in DOMAIN csv[f] : csv[f][i].model = m
  BY <1>2
<1>. QED BY <1>3 DEF FilesComplete, OnFile

\* Every file stays whole, and what is on file stays there.
LEMMA FilesStep ==
  ASSUME Shape, FilesComplete, [Next]_vars
  PROVE  /\ FilesComplete' /\ sheet' = sheet
         /\ \A f \in Files : \A m : Complete(csv[f], m) => Complete(csv'[f], m)
<1>1. CASE UNCHANGED csv
  <2>1. sheet' = sheet
    <3>1. ASSUME NEW p \in Processes, Launch(p) \/ Locking(p) \/ Walking(p) \/ Stopping(p)
          PROVE  sheet' = sheet
      BY <3>1, LaunchStep, LockingStep, WalkingStep, StoppingStep
    <3>. QED BY <3>1, NextSteps DEF vars
  <2>. QED BY <1>1, <2>1 DEF FilesComplete
<1>2. ASSUME NEW p \in Processes, AppendRows(p)
      PROVE  /\ FilesComplete' /\ sheet' = sheet
             /\ \A f \in Files : \A m : Complete(csv[f], m) => Complete(csv'[f], m)
  BY <1>2, AppendStep DEF AppendRows
<1>3. UNCHANGED csv \/ \E p \in Processes : AppendRows(p)
  <2>1. ASSUME NEW p \in Processes, Walking(p), ~AppendRows(p)
        PROVE  UNCHANGED csv
    BY <2>1 DEF Walking, LoadResume, OpenOutput, EndRows, SkipRow, Query, UpsertSupplierItem,
                UpsertBomman, UpsertSzlcsc, OpenResume, WriteResume, output
  <2>2. ASSUME NEW p \in Processes, Launch(p) \/ Locking(p) \/ Stopping(p)
        PROVE  UNCHANGED csv
    BY <2>2, LaunchStep, LockingStep, StoppingStep
  <2>. QED BY <2>1, <2>2, NextSteps DEF vars, output
<1>. QED BY <1>1, <1>2, <1>3

\* A step of p over the rows: what it knows, the rows before its own and the row it
\* has answered are on file, and so is all before the index.
LEMMA WalkingCovers ==
  ASSUME Shape, ResumeInv, NEW p \in Processes, Walking(p), sheet' = sheet, FilesComplete',
         \A f \in Files : \A m : Complete(csv[f], m) => Complete(csv'[f], m)
  PROVE  RowsOnFile(p)' /\ IndexOnFile'
<1>. DEFINE row == proc[p].row
            On(m) == \E f \in Files : Complete(csv'[f], m)
<1>0. /\ \A m : OnFile(m) => On(m)
      /\ \A r : Model(r)' = Model(r)
      /\ row \in Nat /\ resume.next \in Nat
      /\ DOMAIN proc = Processes /\ DOMAIN proc[p] = ProcessFields
  BY DEF OnFile, Model, Base, Shape
<1>a. /\ \A m \in proc[p].known : On(m)
      /\ \A r \in 1..resume.next : On(Model(r))
      /\ proc[p].pc \in Underway => \A r \in 1..(row - 1) : On(Model(r))
      /\ proc[p].pc \in Answered => On(Model(row))
  BY <1>0 DEF ResumeInv, IndexOnFile, RowsOnFile
<1>. SUFFICES /\ \A m \in proc'[p].known : On(m)
              /\ proc'[p].pc \in Underway => \A r \in 1..(proc'[p].row - 1) : On(Model(r))
              /\ proc'[p].pc \in Answered => On(Model(proc'[p].row))
              /\ \A r \in 1..resume'.next : On(Model(r))
  BY <1>0 DEF RowsOnFile, IndexOnFile, OnFile
<1>. HIDE DEF On, row
<1>. USE <1>0, <1>a DEF Underway, Collecting, Answered
<1>1. CASE LoadResume(p)
  <2>1. /\ proc'[p].known = proc[p].known /\ resume' = resume
        /\ \/ proc'[p].pc = "release"
           \/ proc'[p].pc = "open_csv" /\ proc'[p].row \in {1, resume.next + 1}
    BY <1>1, LoadStep
  <2>. QED BY <2>1
<1>2. CASE OpenOutput(p)
  <2>1. /\ proc'[p].known = CompletedModels(proc[p].out) /\ proc'[p].pc = "row"
        /\ proc'[p].row = row /\ resume' = resume /\ proc[p].pc = "open_csv"
    BY <1>2 DEF OpenOutput, output, ProcessFields, row
  <2>2. \A m \in CompletedModels(proc[p].out) : OnFile(m)
    BY <2>1, CompletedAreOnFile DEF ResumeInv, Shape
  <2>. QED BY <2>1, <2>2
<1>3. CASE EndRows(p)
  <2>1. proc'[p].pc = "release" /\ proc'[p].known = proc[p].known /\ resume' = resume
    BY <1>3, GotoStep DEF EndRows, output
  <2>. QED BY <2>1
<1>4. CASE SkipRow(p)
  <2>1. /\ proc'[p].pc = "open_resume" /\ proc'[p].known = proc[p].known
        /\ proc'[p].row = row /\ resume' = resume /\ proc[p].pc = "row"
        /\ Model(row) \in proc[p].known
    BY <1>4, GotoStep DEF SkipRow, Pending, output, row
  <2>. QED BY <2>1
<1>5. CASE Query(p)
  <2>1. PICK pages : proc' = [proc EXCEPT ![p] = [@ EXCEPT !.pc = "append", !.pages = pages]]
    BY <1>5 DEF Query
  <2>2. /\ proc'[p].pc = "append" /\ proc'[p].known = proc[p].known
        /\ proc'[p].row = row /\ resume' = resume /\ proc[p].pc = "row"
    BY <1>5, <2>1 DEF Query, output, ProcessFields, row
  <2>. QED BY <2>2
<1>6. CASE AppendRows(p)
  <2>1. On(Model(row))
    BY <1>6, AppendStep DEF On, row, ResumeInv
  <2>2. proc[p].pc = "append" /\ resume' = resume
    BY <1>6 DEF AppendRows
  <2>3. CASE proc[p].args.db
    <3>1. proc'[p].pc = "item" /\ proc'[p].known = proc[p].known /\ proc'[p].row = row
      BY <1>6, <2>3, GotoStep DEF AppendRows, row
    <3>. QED BY <2>1, <2>2, <3>1
  <2>4. CASE ~proc[p].args.db
    <3>1. proc' = [proc EXCEPT ![p] = [@ EXCEPT !.pc = "open_resume",
                                                !.known = proc[p].known \cup {Model(proc[p].row)}]]
      BY <1>6, <2>4 DEF AppendRows
    <3>2. /\ proc'[p].pc = "open_resume" /\ proc'[p].known = proc[p].known \cup {Model(row)}
          /\ proc'[p].row = row
      BY <3>1 DEF ProcessFields, row
    <3>. QED BY <2>1, <2>2, <3>2
  <2>. QED BY <2>3, <2>4
<1>7. CASE UpsertSupplierItem(p)
  <2>1. /\ proc'[p].pc = "bomman" /\ proc'[p].known = proc[p].known
        /\ proc'[p].row = row /\ resume' = resume /\ proc[p].pc = "item"
    BY <1>7, ItemStep DEF Stays, row
  <2>. QED BY <2>1
<1>8. CASE UpsertBomman(p)
  <2>1. /\ proc'[p].pc = "szlcsc" /\ proc'[p].known = proc[p].known
        /\ proc'[p].row = row /\ resume' = resume /\ proc[p].pc = "bomman"
    BY <1>8, GotoStep DEF UpsertBomman, row
  <2>. QED BY <2>1
<1>9. CASE UpsertSzlcsc(p)
  <2>1. /\ proc'[p].pc = "open_resume" /\ proc'[p].known = proc[p].known \cup {Model(row)}
        /\ proc'[p].row = row /\ resume' = resume /\ proc[p].pc = "szlcsc"
    BY <1>9 DEF UpsertSzlcsc, ProcessFields, row
  <2>. QED BY <2>1
<1>10. CASE OpenResume(p)
  <2>1. /\ proc'[p].pc = "write_resume" /\ proc'[p].known = proc[p].known
        /\ proc'[p].row = row /\ resume'.next = 0 /\ proc[p].pc = "open_resume"
    BY <1>10, GotoStep DEF OpenResume, NoResume, row
  <2>. QED BY <2>1
<1>11. CASE WriteResume(p)
  <2>1. /\ proc'[p].pc = "row" /\ proc'[p].known = proc[p].known
        /\ proc'[p].row = row + 1 /\ resume'.next = row /\ proc[p].pc = "write_resume"
    BY <1>11 DEF WriteResume, ProcessFields, row
  <2>. QED BY <2>1
<1>. QED BY <1>1, <1>2, <1>3, <1>4, <1>5, <1>6, <1>7, <1>8, <1>9, <1>10, <1>11 DEF Walking

\* Every step keeps what the index and the processes stand for.
LEMMA SkipStep ==
  ASSUME SkipInv, [Next]_vars
  PROVE  SkipInv'
<1>1. /\ Shape /\ ResumeInv /\ Shape' /\ FilesComplete' /\ sheet' = sheet
      /\ \A f \in Files : \A m : Complete(csv[f], m) => Complete(csv'[f], m)
  BY ShapeStep, FilesStep DEF SkipInv, ResumeInv
<1>2. \A m : OnFile(m) => \E f \in Files : Complete(csv'[f], m)
  BY <1>1 DEF OnFile
<1>3. ASSUME NEW q \in Processes, proc'[q] = proc[q]
      PROVE  RowsOnFile(q)'
  BY <1>1, <1>2, <1>3 DEF ResumeInv, RowsOnFile, OnFile, Model, Base
<1>4. ASSUME resume' = resume
      PROVE  IndexOnFile'
  BY <1>1, <1>2, <1>4 DEF ResumeInv, IndexOnFile, OnFile, Model, Base
<1>5. CASE UNCHANGED vars
  BY <1>1, <1>3, <1>4, <1>5 DEF vars, output, SkipInv, ResumeInv
<1>6. ASSUME NEW p \in Processes, Launch(p) \/ Locking(p) \/ Stopping(p)
      PROVE  SkipInv'
  <2>1. /\ Local(p) /\ proc'[p].known = proc[p].known /\ resume' = resume
        /\ proc'[p].pc \notin Underway \cup Answered
    BY <1>1, <1>6, LaunchStep, LockingStep, StoppingStep
       DEF Stays, Underway, Answered, Collecting
  <2>2. RowsOnFile(p)'
    BY <1>1, <1>2, <2>1 DEF ResumeInv, RowsOnFile, OnFile
  <2>3. \A q \in Processes : RowsOnFile(q)'
    BY <1>3, <2>1, <2>2 DEF Local
  <2>. QED BY <1>1, <1>4, <2>1, <2>3 DEF SkipInv, ResumeInv
<1>7. ASSUME NEW p \in Processes, Walking(p)
      PROVE  SkipInv'
  <2>1. RowsOnFile(p)' /\ IndexOnFile' /\ Local(p)
    BY <1>1, <1>7, WalkingCovers, WalkingStep
  <2>2. \A q \in Processes : RowsOnFile(q)'
    BY <1>3, <2>1 DEF Local
  <2>. QED BY <1>1, <2>1, <2>2 DEF SkipInv, ResumeInv
<1>. QED BY <1>5, <1>6, <1>7, NextSteps

\* A part both of whose answers are in a file, and nothing else's, is recorded.
LEMMA OnFileIsRecorded ==
  ASSUME FilesComplete, NEW m, OnFile(m)
  PROVE  Recorded(m)
<1>1. PICK f \in Files : Complete(csv[f], m)
  BY DEF OnFile
<1>2. {csv[f][i].platform : i \in RowsOf(m, f)} = Platforms
  BY <1>1 DEF FilesComplete, Complete, RowsOf
<1>. QED BY <1>2 DEF Recorded

\* Whatever dies, races for the lock, starts another batch or names another file: what
\* the resume index lets the next launch skip has both answers in an output file.
THEOREM SkippedIsRecorded == Spec => []ResumeNeverSkips
<1>1. Init => SkipInv
  <2>. SUFFICES ASSUME Init PROVE SkipInv
    OBVIOUS
  <2>1. \A f \in Files : csv[f] \in Seq(Range(csv[f])) /\ DOMAIN csv[f] = {}
    BY DEF Init
  <2>2. resume.next = 0 /\ \A p \in Processes : proc[p].known = {} /\ proc[p].pc = "new"
    BY DEF Init, NoResume, NewProcess
  <2>. QED BY <2>1, <2>2, ShapeInit
           DEF SkipInv, ResumeInv, FilesComplete, IndexOnFile, RowsOnFile, Underway, Collecting, Answered
<1>2. SkipInv /\ [Next]_vars => SkipInv'
  BY SkipStep
<1>3. SkipInv => ResumeNeverSkips
  BY OnFileIsRecorded DEF SkipInv, ResumeInv, IndexOnFile, ResumeNeverSkips
<1>. QED BY <1>1, <1>2, <1>3, PTL DEF Spec

-----------------------------------------------------------------------------
(* What the quote workflow takes for certain.                              *)

\* A page of a part number stays a page, whatever the part is.
LEMMA PagesTyped ==
  ASSUME NEW m, NEW page \in PageType
  PROVE  PageFor(m, page) \in PageType
<1>1. CASE m.part # NoPart
  BY <1>1 DEF PageFor
<1>2. CASE m.part = NoPart
  <2>. DEFINE new == PageFor(m, page)
  <2>1. new = [page EXCEPT !.hits = 0, !.word = FALSE, !.priced = FALSE]
    BY <1>2 DEF PageFor
  <2>2. PICK h \in 0..2, w \in BOOLEAN, c \in BOOLEAN, b \in BOOLEAN, f \in BOOLEAN :
          page = [hits |-> h, word |-> w, priced |-> c, block |-> b, fails |-> f]
    BY Zenon DEF PageType
  <2>. HIDE DEF new
  <2>a. new = [hits |-> 0, word |-> FALSE, priced |-> FALSE, block |-> b, fails |-> f]
    BY <2>1, <2>2
  <2>b. 0 \in 0..2 /\ FALSE \in BOOLEAN
    OBVIOUS
  <2>3. new \in [hits : 0..2, word : BOOLEAN, priced : BOOLEAN, block : BOOLEAN, fails : BOOLEAN]
    BY <2>a, <2>b, Zenon
  <2>. QED BY <2>3 DEF new, PageType
<1>. QED BY <1>1, <1>2

\* The answers are only written by the two steps that store them.
LEMMA QuotesStay ==
  ASSUME [Next]_vars, \A p \in Processes : ~UpsertBomman(p) /\ ~UpsertSzlcsc(p)
  PROVE  quotes' = quotes
<1>1. CASE UNCHANGED vars
  BY <1>1 DEF vars, output
<1>2. ASSUME NEW p \in Processes, Launch(p) \/ Locking(p) \/ Walking(p) \/ Stopping(p)
      PROVE  quotes' = quotes
  BY <1>2 DEF Locking, Walking, Stopping, Launch, CreateLock, CreateAgain, Create, WritePid,
              ReadLock, UnlinkStale, Release, LoadResume, OpenOutput, EndRows, SkipRow, Query, AppendRows,
              UpsertSupplierItem, OpenResume, WriteResume, Die, Interrupt, output
<1>. QED BY <1>1, <1>2, NextSteps

\* Every step keeps what the answers were parsed to.
LEMMA ParsedStep ==
  ASSUME Shape, AnswersParsed, [Next]_vars
  PROVE  AnswersParsed'
<1>1. CASE UNCHANGED vars
  BY <1>1 DEF vars, output, AnswersParsed
<1>2. ASSUME NEW p \in Processes, NEW s \in Platforms, UpsertMarketQuote(p, s),
             proc[p].pc \in Storing
      PROVE  \A q \in quotes' : q.page \in PageType /\ q.result = PlatformResult(q.page)
  <2>. DEFINE new == [batch |-> proc[p].batch, item |-> proc[p].item, platform |-> s,
                      page |-> proc[p].pages[s], result |-> PlatformResult(proc[p].pages[s])]
  <2>1. new.page \in PageType /\ new.result = PlatformResult(new.page)
    BY <1>2 DEF AnswersParsed
  <2>2. \A q \in quotes' : q \in quotes \/ q = new
    BY <1>2 DEF UpsertMarketQuote
  <2>. HIDE DEF new
  <2>. QED BY <2>1, <2>2 DEF AnswersParsed
<1>3. \A q \in quotes' : q.page \in PageType /\ q.result = PlatformResult(q.page)
  <2>1. ASSUME NEW p \in Processes, UpsertBomman(p) \/ UpsertSzlcsc(p)
        PROVE  \A q \in quotes' : q.page \in PageType /\ q.result = PlatformResult(q.page)
    BY <1>2, <2>1 DEF UpsertBomman, UpsertSzlcsc, Storing, Platforms
  <2>. QED BY <2>1, QuotesStay DEF AnswersParsed
<1>4. ASSUME NEW p \in Processes, Launch(p) \/ Locking(p) \/ Walking(p) \/ Stopping(p)
      PROVE  AnswersParsed'
  <2>1. Local(p)
    BY <1>4, LaunchStep, LockingStep, WalkingStep, StoppingStep
  <2>. SUFFICES ASSUME proc'[p].pc \in {"append"} \cup Storing
                PROVE  proc'[p].pages \in [Platforms -> PageType]
    BY <1>3, <2>1 DEF AnswersParsed, Local
  <2>. USE DEF Storing
  <2>2. Walking(p)
    BY <1>4, LaunchStep, LockingStep, StoppingStep
  <2>3. CASE Query(p)
    <3>1. PICK a \in Answers : proc' = [proc EXCEPT ![p] =
            [@ EXCEPT !.pc = "append",
                      !.pages = [s \in Platforms |-> PageFor(Model(proc[p].row), a[s])]]]
      BY <2>3 DEF Query
    <3>2. proc'[p].pages = [s \in Platforms |-> PageFor(Model(proc[p].row), a[s])]
      BY <3>1 DEF Shape, ProcessFields
    <3>3. \A s \in Platforms : a[s] \in PageType
      BY InputsAssumption
    <3>. QED BY <3>2, <3>3, PagesTyped
  <2>4. CASE AppendRows(p) \/ UpsertSupplierItem(p) \/ UpsertBomman(p)
    <3>1. proc'[p].pages = proc[p].pages /\ proc[p].pc \in {"append"} \cup Storing
      <4>1. CASE UpsertSupplierItem(p)
        BY <4>1, ItemStep DEF Stays
      <4>2. CASE UpsertBomman(p)
        BY <4>2, GotoStep DEF UpsertBomman
      <4>3. CASE AppendRows(p)
        <5>1. CASE proc[p].args.db
          BY <4>3, <5>1, GotoStep DEF AppendRows
        <5>2. CASE ~proc[p].args.db
          <6>1. proc' = [proc EXCEPT ![p] = [@ EXCEPT !.pc = "open_resume",
                                                      !.known = proc[p].known \cup {Model(proc[p].row)}]]
            BY <4>3, <5>2 DEF AppendRows
          <6>. QED BY <4>3, <6>1 DEF AppendRows, Shape, ProcessFields
        <5>. QED BY <5>1, <5>2
      <4>. QED BY <2>4, <4>1, <4>2, <4>3
    <3>. QED BY <3>1 DEF AnswersParsed
  <2>5. CASE \/ OpenOutput(p) \/ EndRows(p) \/ SkipRow(p)
             \/ UpsertSzlcsc(p) \/ OpenResume(p) \/ WriteResume(p)
    <3>1. DOMAIN proc = Processes /\ DOMAIN proc[p] = ProcessFields
      BY DEF Shape
    <3>2. proc'[p].pc \in {"row", "release", "open_resume", "write_resume"}
      <4>1. CASE OpenOutput(p) BY <3>1, <4>1 DEF OpenOutput, ProcessFields
      <4>2. CASE EndRows(p) BY <4>2, GotoStep DEF EndRows
      <4>3. CASE SkipRow(p) BY <4>3, GotoStep DEF SkipRow
      <4>4. CASE UpsertSzlcsc(p) BY <3>1, <4>4 DEF UpsertSzlcsc, ProcessFields
      <4>5. CASE OpenResume(p) BY <4>5, GotoStep DEF OpenResume
      <4>6. CASE WriteResume(p) BY <3>1, <4>6 DEF WriteResume, ProcessFields
      <4>. QED BY <2>5, <4>1, <4>2, <4>3, <4>4, <4>5, <4>6
    <3>. QED BY <3>2
  <2>6. CASE LoadResume(p)
    BY <2>6, LoadStep
  <2>. QED BY <2>2, <2>3, <2>4, <2>5, <2>6 DEF Walking
<1>. QED BY <1>1, <1>4, NextSteps

\* A page whose answer has a price and asks for no review has one line about the part.
LEMMA CertainPage ==
  ASSUME NEW page \in PageType, PlatformResult(page).priced,
         PlatformResult(page).status \notin {"manual_review", "multiple_candidates", "blocked", "fetch_error"}
  PROVE  page.hits = 1 /\ ~page.block /\ ~page.fails
BY DEF PlatformResult, PageType

\* Whichever answers are stored, one by one, by whatever launches: a price the quote
\* workflow takes without a review is from a page with one line about the part.
THEOREM UnreviewedIsCertain == Spec => []UnreviewedPriceIsCertain
<1>1. Init => ParsedInv
  <2>. SUFFICES ASSUME Init PROVE AnswersParsed
    BY ShapeInit DEF ParsedInv
  <2>. QED BY DEF Init, NewProcess, AnswersParsed, Storing
<1>2. ParsedInv /\ [Next]_vars => ParsedInv'
  BY ShapeStep, ParsedStep DEF ParsedInv
<1>3. ParsedInv => UnreviewedPriceIsCertain
  BY CertainPage DEF ParsedInv, AnswersParsed, UnreviewedPriceIsCertain, ManualReviewNeeded
<1>. QED BY <1>1, <1>2, <1>3, PTL DEF Spec

-----------------------------------------------------------------------------
(* No part is asked twice.                                                 *)

\* No step writes the sheet, and only that of AppendRows a file.
LEMMA SheetStays ==
  ASSUME Shape, [Next]_vars
  PROVE  sheet' = sheet /\ (csv' = csv \/ \E p \in Processes : AppendRows(p))
<1>1. CASE UNCHANGED vars
  BY <1>1 DEF vars, output
<1>2. ASSUME NEW p \in Processes, Launch(p) \/ Locking(p) \/ Walking(p) \/ Stopping(p)
      PROVE  sheet' = sheet /\ (csv' = csv \/ AppendRows(p))
  <2>1. sheet' = sheet
    BY <1>2, LaunchStep, LockingStep, WalkingStep, StoppingStep
  <2>2. CASE Launch(p) \/ Locking(p) \/ Stopping(p)
    BY <2>1, <2>2, LaunchStep, LockingStep, StoppingStep
  <2>3. CASE Walking(p)
    BY <2>1, <2>3 DEF Walking, LoadResume, OpenOutput, EndRows, SkipRow, Query, UpsertSupplierItem,
                      UpsertBomman, UpsertSzlcsc, OpenResume, WriteResume, output
  <2>. QED BY <1>2, <2>2, <2>3
<1>. QED BY <1>1, <1>2, NextSteps

\* The smaller of two numbers is neither's greater.
LEMMA MinOfTwo ==
  ASSUME NEW a \in Nat, NEW b \in Nat
  PROVE  Min({a, b}) \in 0..a
<1>1. \E x \in {a, b} : \A y \in {a, b} : x <= y
  <2>1. CASE a <= b BY <2>1
  <2>2. CASE b <= a BY <2>2
  <2>. QED BY <2>1, <2>2
<1>. QED BY <1>1 DEF Min

\* The range of rows of a launch ends with the sheet.
LEMMA LastInSheet ==
  ASSUME Shape, sheet \in Sheets, NEW p \in Processes, LoadResume(p), proc'[p].pc = "open_csv"
  PROVE  proc'[p].last \in 0..Len(sheet.rows)
<1>. DEFINE start == IF resume.next > Len(sheet.rows) THEN 0 ELSE resume.next
            limit == IF proc[p].args.limit > 0 THEN Min({Len(sheet.rows), start + proc[p].args.limit})
                     ELSE Len(sheet.rows)
            batch == IF resume.batch = Nobody THEN p ELSE resume.batch
            out == CASE proc[p].args.out # Nobody -> proc[p].args.out
                     [] resume.out # Nobody -> resume.out
                     [] OTHER -> p
<1>1. DetectVendorFields(sheet).part # 0
  BY GotoStep DEF LoadResume
<1>2. proc' = [proc EXCEPT ![p] = [@ EXCEPT !.pc = "open_csv", !.row = start + 1, !.last = limit,
                                            !.batch = batch, !.out = out]]
  BY <1>1 DEF LoadResume
<1>3. Len(sheet.rows) \in Nat /\ proc[p].args.limit \in Nat /\ start \in Nat
  BY SheetsAssumption, InputsAssumption DEF Shape, LoadResume
<1>4. limit \in 0..Len(sheet.rows)
  <2>. HIDE DEF start
  <2>1. start + proc[p].args.limit \in Nat /\ Len(sheet.rows) \in Nat
    BY <1>3
  <2>2. Min({Len(sheet.rows), start + proc[p].args.limit}) \in 0..Len(sheet.rows)
    BY <2>1, MinOfTwo
  <2>3. Len(sheet.rows) \in 0..Len(sheet.rows)
    BY <2>1
  <2>. QED BY <2>2, <2>3
<1>. HIDE DEF start, limit, batch, out
<1>5. proc'[p].last = limit
  BY <1>2 DEF Shape, ProcessFields
<1>. QED BY <1>4, <1>5

\* A step over the rows after load_resume: p keeps its place, which Query and SkipRow
\* find within its range, or goes on to the next row.
LEMMA PlaceStep ==
  ASSUME Shape, NEW p \in Processes, Walking(p), ~LoadResume(p)
  PROVE  /\ proc[p].pc \in Underway /\ proc'[p].last = proc[p].last
         /\ \/ /\ proc'[p].row = proc[p].row
               /\ proc'[p].pc \in Asking => proc[p].pc \in Asking \/ proc[p].row <= proc[p].last
               /\ proc'[p].pc \in Storing => proc[p].pc \in {"append"} \cup Storing
            \/ /\ proc[p].pc = "write_resume" /\ proc'[p].pc = "row"
               /\ proc'[p].row = proc[p].row + 1
<1>. USE DEF Asking, Answered, Storing, Underway, Collecting
<1>0. DOMAIN proc = Processes /\ DOMAIN proc[p] = ProcessFields
  BY DEF Shape
<1>a. ASSUME NEW pc, Goto(p, pc)
      PROVE  proc'[p].pc = pc /\ proc'[p].row = proc[p].row /\ proc'[p].last = proc[p].last
  BY <1>0, <1>a DEF Goto, ProcessFields
<1>b. ASSUME NEW pc, NEW known, proc' = [proc EXCEPT ![p] = [@ EXCEPT !.pc = pc, !.known = known]]
      PROVE  proc'[p].pc = pc /\ proc'[p].row = proc[p].row /\ proc'[p].last = proc[p].last
  BY <1>0, <1>b DEF ProcessFields
<1>1. CASE OpenOutput(p)
  <2>1. PICK known : proc' = [proc EXCEPT ![p] = [@ EXCEPT !.pc = "row", !.known = known]]
    BY <1>1 DEF OpenOutput
  <2>2. proc'[p].pc = "row" /\ proc'[p].row = proc[p].row /\ proc'[p].last = proc[p].last
    BY <1>b, <2>1
  <2>3. proc[p].pc = "open_csv"
    BY <1>1 DEF OpenOutput
  <2>. QED BY <2>2, <2>3
<1>2. CASE EndRows(p) BY <1>2, <1>a DEF EndRows
<1>3. CASE SkipRow(p) BY <1>3, <1>a DEF SkipRow
<1>4. CASE Query(p)
  <2>1. PICK pages : proc' = [proc EXCEPT ![p] = [@ EXCEPT !.pc = "append", !.pages = pages]]
    BY <1>4 DEF Query
  <2>2. proc'[p].pc = "append" /\ proc'[p].row = proc[p].row /\ proc'[p].last = proc[p].last
    BY <1>0, <2>1 DEF ProcessFields
  <2>. QED BY <1>4, <2>2 DEF Query, Pending
<1>5. CASE AppendRows(p)
  <2>1. CASE proc[p].args.db BY <1>5, <2>1, <1>a DEF AppendRows
  <2>2. CASE ~proc[p].args.db
    <3>1. proc' = [proc EXCEPT ![p] = [@ EXCEPT !.pc = "open_resume",
                                                !.known = proc[p].known \cup {Model(proc[p].row)}]]
      BY <1>5, <2>2 DEF AppendRows
    <3>. QED BY <1>5, <3>1, <1>b DEF AppendRows
  <2>. QED BY <2>1, <2>2
<1>6. CASE UpsertSupplierItem(p)
  <2>1. PICK i : proc' = [proc EXCEPT ![p] = [@ EXCEPT !.pc = "bomman", !.item = i]]
    BY <1>6 DEF UpsertSupplierItem
  <2>2. proc'[p].pc = "bomman" /\ proc'[p].row = proc[p].row /\ proc'[p].last = proc[p].last
    BY <1>0, <2>1 DEF ProcessFields
  <2>. QED BY <1>6, <2>2 DEF UpsertSupplierItem
<1>7. CASE UpsertBomman(p) BY <1>7, <1>a DEF UpsertBomman
<1>8. CASE UpsertSzlcsc(p) BY <1>8, <1>b DEF UpsertSzlcsc
<1>9. CASE OpenResume(p) BY <1>9, <1>a DEF OpenResume
<1>10. CASE WriteResume(p) BY <1>0, <1>10 DEF WriteResume, ProcessFields
<1>. QED BY <1>1, <1>2, <1>3, <1>4, <1>5, <1>6, <1>7, <1>8, <1>9, <1>10 DEF Walking

\* The row p asks for is one of the sheet.
LEMMA RowInSheet ==
  ASSUME Shape, RowsInSheet, NEW p \in Processes, proc[p].pc \in Asking
  PROVE  Model(proc[p].row) \in SheetModels
<1>1. /\ proc[p].row \in Nat /\ proc[p].row > 0 /\ proc[p].row <= proc[p].last
      /\ proc[p].last \in 0..Len(sheet.rows)
  BY DEF Shape, RowsInSheet, Asking, Answered, Underway, Collecting
<1>2. DOMAIN sheet.rows = 1..Len(sheet.rows) /\ Len(sheet.rows) \in Nat
  BY SheetsAssumption DEF RowsInSheet
<1>. QED BY <1>1, <1>2 DEF SheetModels, Rows

\* Every step keeps rows, ranges and places in the sheet.
LEMMA RowsInSheetStep ==
  ASSUME Shape, FilesComplete, RowsInSheet, [Next]_vars
  PROVE  RowsInSheet'
<1>. USE DEF Underway, Asking, Answered, Collecting
<1>0. sheet' = sheet /\ Rows' = Rows /\ SheetModels' = SheetModels /\ \A r : Model(r)' = Model(r)
  BY SheetStays DEF Rows, SheetModels, Model, Base
<1>1. \A f \in Files : \A i \in DOMAIN csv'[f] : csv'[f][i].model \in SheetModels
  <2>1. CASE csv' = csv
    BY <2>1 DEF RowsInSheet
  <2>2. ASSUME NEW p \in Processes, AppendRows(p), NEW f \in Files, NEW i \in DOMAIN csv'[f]
        PROVE  csv'[f][i].model \in SheetModels
    <3>. DEFINE o == proc[p].out
                n == Len(csv[o])
    <3>1. /\ \A g \in Files \ {o} : csv'[g] = csv[g]
          /\ n \in Nat /\ DOMAIN csv[o] = 1..n /\ DOMAIN csv'[o] = 1..(n + 2)
          /\ \A k \in 1..n : csv'[o][k] = csv[o][k]
          /\ csv'[o][n + 1] = CsvRow(p, "bomman") /\ csv'[o][n + 2] = CsvRow(p, "szlcsc")
      BY <2>2, AppendedRows
    <3>2. Model(proc[p].row) \in SheetModels /\ \A s : CsvRow(p, s).model = Model(proc[p].row)
      BY <2>2, RowInSheet DEF AppendRows, CsvRow
    <3>. HIDE DEF o, n
    <3>3. CASE f # o
      BY <2>2, <3>1, <3>3 DEF RowsInSheet
    <3>4. CASE f = o
      <4>1. i \in 1..n \/ i = n + 1 \/ i = n + 2
        BY <2>2, <3>1, <3>4
      <4>. QED BY <3>1, <3>2, <3>4, <4>1 DEF RowsInSheet
    <3>. QED BY <3>3, <3>4
  <2>. QED BY <2>1, <2>2, SheetStays
<1>. DEFINE Placed(q) == /\ proc'[q].pc \in Underway =>
                              proc'[q].row > 0 /\ proc'[q].last \in 0..Len(sheet.rows)
                         /\ proc'[q].pc \in Asking => proc'[q].row <= proc'[q].last
<1>2. \A q \in Processes : Placed(q)
  <2>1. CASE UNCHANGED vars
    BY <2>1 DEF vars, RowsInSheet
  <2>2. ASSUME NEW p \in Processes, Launch(p) \/ Locking(p) \/ Walking(p) \/ Stopping(p)
        PROVE  \A q \in Processes : Placed(q)
    <3>1. Local(p)
      BY <2>2, LaunchStep, LockingStep, WalkingStep, StoppingStep
    <3>2. CASE Launch(p) \/ Locking(p) \/ Stopping(p)
      <4>1. proc'[p].pc \notin Underway
        BY <3>2, LaunchStep, LockingStep, StoppingStep
      <4>. QED BY <3>1, <4>1 DEF Local, RowsInSheet
    <3>3. CASE LoadResume(p)
      <4>1. /\ proc'[p].pc \notin Asking
            /\ proc'[p].pc \in Underway => proc'[p].pc = "open_csv" /\ proc'[p].row \in {1, resume.next + 1}
        BY <3>3, LoadStep
      <4>2. proc'[p].pc \in Underway => proc'[p].last \in 0..Len(sheet.rows)
        BY <3>3, <4>1, LastInSheet DEF RowsInSheet
      <4>. QED BY <3>1, <4>1, <4>2 DEF Local, RowsInSheet, Shape
    <3>4. CASE Walking(p) /\ ~LoadResume(p)
      <4>1. /\ proc[p].row \in Nat /\ proc[p].row > 0 /\ proc[p].last \in 0..Len(sheet.rows)
            /\ proc[p].pc \in Asking => proc[p].row <= proc[p].last
        BY <3>4, PlaceStep DEF Shape, RowsInSheet
      <4>2. Placed(p)
        BY <3>4, <4>1, PlaceStep
      <4>. QED BY <3>1, <4>2 DEF Local, RowsInSheet
    <3>. QED BY <2>2, <3>2, <3>3, <3>4
  <2>. QED BY <2>1, <2>2, NextSteps
<1>. QED BY <1>0, <1>1, <1>2 DEF RowsInSheet

\* A launch that opens its file knows every part in it.
LEMMA FileIsKnown ==
  ASSUME FilesComplete, RowsInSheet, NEW f \in Files, NEW i \in DOMAIN csv[f],
         csv[f][i].model.part # NoPart
  PROVE  csv[f][i].model \in CompletedModels(f)
<1>. DEFINE m == csv[f][i].model
            twice == {k \in DOMAIN csv[f] : csv[f][k].model = m}
<1>1. DOMAIN csv[f] = 1..Len(csv[f]) /\ Len(csv[f]) \in Nat /\ Complete(csv[f], m)
  BY DEF FilesComplete
<1>2. PICK j \in DOMAIN csv[f] : csv[f][j].model = m /\ csv[f][j].platform = "bomman"
  BY <1>1 DEF Complete, Platforms
<1>3. PICK k \in DOMAIN csv[f] : csv[f][k].model = m /\ csv[f][k].platform = "szlcsc"
  BY <1>1 DEF Complete, Platforms
<1>4. IsFiniteSet(twice)
  <2>1. twice \subseteq 1..Len(csv[f]) /\ IsFiniteSet(1..Len(csv[f]))
    BY <1>1, FS_Interval
  <2>. QED BY <2>1, FS_Subset
<1>5. {j, k} \subseteq twice /\ j # k
  BY <1>2, <1>3
<1>6. Cardinality({j, k}) = 2
  <2>1. IsFiniteSet({j}) /\ Cardinality({j}) = 1
    BY FS_Singleton
  <2>2. {j, k} = {j} \cup {k} /\ k \notin {j}
    BY <1>5
  <2>. QED BY <2>1, <2>2, FS_AddElement
<1>7. Cardinality(twice) >= 2
  <2>1. Cardinality(twice) \in Nat /\ Cardinality({j, k}) <= Cardinality(twice)
    BY <1>4, <1>5, FS_Subset, FS_CardinalityType
  <2>. QED BY <1>6, <2>1
<1>8. m \in {Model(r) : r \in Rows}
  BY DEF RowsInSheet, SheetModels
<1>. QED BY <1>7, <1>8 DEF CompletedModels

\* A step over the rows by p, who collects alone: what it does not know of its file
\* is of the part it stores, and it asks for nothing it knows.
LEMMA KnownStep ==
  ASSUME Shape, FilesComplete, RowsInSheet, NEW p \in Processes, Walking(p), sheet' = sheet,
         proc[p].pc \in Underway \ {"open_csv"} =>
           \A i \in DOMAIN csv[proc[p].out] :
             LET m == csv[proc[p].out][i].model
             IN  m.part # NoPart => m \in proc[p].known \/ (proc[p].pc \in Storing /\ m = Model(proc[p].row))
  PROVE  /\ proc'[p].pc \in Underway \ {"open_csv"} =>
              \A i \in DOMAIN csv'[proc'[p].out] :
                LET m == csv'[proc'[p].out][i].model
                IN  m.part # NoPart => \/ m \in proc'[p].known
                                       \/ proc'[p].pc \in Storing /\ m = Model(proc'[p].row)
         /\ proc'[p].pc = "append" => Model(proc'[p].row) \notin proc'[p].known
<1>. DEFINE o   == proc[p].out
            row == proc[p].row
            old == {csv[o][i].model : i \in DOMAIN csv[o]}
            new == {csv'[proc'[p].out][i].model : i \in DOMAIN csv'[proc'[p].out]}
<1>0. DOMAIN proc = Processes /\ DOMAIN proc[p] = ProcessFields
  BY DEF Shape
<1>b. ASSUME proc[p].pc \in {"row", "append", "open_resume", "write_resume"}
      PROVE  \A m \in old : m.part # NoPart => m \in proc[p].known
  BY <1>b DEF Underway, Collecting, Storing
<1>c. ASSUME proc[p].pc \in Storing
      PROVE  \A m \in old : m.part # NoPart => m \in proc[p].known \cup {Model(row)}
  BY <1>c DEF Underway, Collecting, Storing
<1>. SUFFICES /\ proc'[p].pc \in Underway \ {"open_csv"} =>
                   \A m \in new : m.part # NoPart =>
                     m \in proc'[p].known \/ (proc'[p].pc \in Storing /\ m = Model(proc'[p].row))
              /\ proc'[p].pc = "append" => Model(proc'[p].row) \notin proc'[p].known
  OBVIOUS
<1>a. ASSUME csv' = csv, proc'[p].out = proc[p].out PROVE new = old
  BY <1>a
<1>. HIDE DEF old, new, row
<1>. USE <1>0 DEF Underway, Collecting, Storing
<1>1. CASE LoadResume(p)
  BY <1>1, LoadStep
<1>2. CASE OpenOutput(p)
  <2>1. PICK known : /\ known = CompletedModels(o)
                     /\ proc' = [proc EXCEPT ![p] = [@ EXCEPT !.pc = "row", !.known = known]]
    BY <1>2 DEF OpenOutput
  <2>2. proc'[p].pc = "row" /\ proc'[p].known = known /\ proc'[p].out = o
    BY <2>1 DEF ProcessFields
  <2>3. csv' = csv /\ o \in Files
    BY <1>2 DEF OpenOutput, output, Shape
  <2>4. \A m \in old : m.part # NoPart => m \in known
    BY <2>1, <2>3, FileIsKnown DEF old
  <2>. QED BY <1>a, <2>2, <2>3, <2>4
<1>3. CASE EndRows(p)
  <2>1. proc'[p].pc = "release"
    BY <1>3, GotoStep DEF EndRows
  <2>. QED BY <2>1
<1>4. CASE SkipRow(p)
  <2>1. /\ proc[p].pc = "row" /\ proc'[p].pc = "open_resume" /\ proc'[p].known = proc[p].known
        /\ proc'[p].out = o /\ csv' = csv
    BY <1>4, GotoStep DEF SkipRow, output
  <2>. QED BY <1>a, <1>b, <1>c, <2>1
<1>5. CASE Query(p)
  <2>1. PICK pages : proc' = [proc EXCEPT ![p] = [@ EXCEPT !.pc = "append", !.pages = pages]]
    BY <1>5 DEF Query
  <2>2. /\ proc'[p].pc = "append" /\ proc'[p].known = proc[p].known
        /\ proc'[p].out = o /\ proc'[p].row = row
    BY <2>1 DEF ProcessFields, row
  <2>3. proc[p].pc = "row" /\ csv' = csv /\ Model(row) \notin proc[p].known
    BY <1>5 DEF Query, Pending, output, row
  <2>. QED BY <1>a, <1>b, <2>2, <2>3
<1>6. CASE AppendRows(p)
  <2>1. proc[p].pc = "append" /\ proc'[p].out = o /\ proc'[p].row = row
        /\ \/ proc'[p].pc = "item" /\ proc'[p].known = proc[p].known
           \/ proc'[p].pc = "open_resume" /\ proc'[p].known = proc[p].known \cup {Model(row)}
    <3>1. CASE proc[p].args.db
      BY <1>6, <3>1, GotoStep DEF AppendRows, row
    <3>2. CASE ~proc[p].args.db
      <4>1. proc' = [proc EXCEPT ![p] = [@ EXCEPT !.pc = "open_resume",
                                                  !.known = proc[p].known \cup {Model(proc[p].row)}]]
        BY <1>6, <3>2 DEF AppendRows
      <4>2. proc[p].pc = "append"
        BY <1>6 DEF AppendRows
      <4>. QED BY <4>1, <4>2 DEF ProcessFields, row
    <3>. QED BY <3>1, <3>2
  <2>2. \A m \in new : m \in old \/ m = Model(row)
    <3>. DEFINE n == Len(csv[o])
    <3>1. /\ DOMAIN csv[o] = 1..n /\ DOMAIN csv'[o] = 1..(n + 2) /\ n \in Nat
          /\ \A i \in 1..n : csv'[o][i] = csv[o][i]
          /\ csv'[o][n + 1] = CsvRow(p, "bomman") /\ csv'[o][n + 2] = CsvRow(p, "szlcsc")
      BY <1>6, AppendedRows
    <3>2. \A s : CsvRow(p, s).model = Model(row)
      BY DEF CsvRow, row
    <3>. HIDE DEF n
    <3>3. \A i \in 1..(n + 2) : i \in 1..n \/ i = n + 1 \/ i = n + 2
      BY <3>1
    <3>4. \A i \in 1..(n + 2) : csv'[o][i].model \in old \/ csv'[o][i].model = Model(row)
      BY <3>1, <3>2, <3>3 DEF old
    <3>. QED BY <2>1, <3>1, <3>4 DEF new
  <2>. QED BY <1>b, <2>1, <2>2
<1>7. CASE UpsertSupplierItem(p)
  <2>1. /\ proc[p].pc = "item" /\ proc'[p].pc = "bomman" /\ proc'[p].known = proc[p].known
        /\ proc'[p].row = row /\ proc'[p].out = o /\ csv' = csv
    BY <1>7, ItemStep DEF Stays, row
  <2>. QED BY <1>a, <1>b, <1>c, <2>1
<1>8. CASE UpsertBomman(p)
  <2>1. /\ proc[p].pc = "bomman" /\ proc'[p].pc = "szlcsc" /\ proc'[p].known = proc[p].known
        /\ proc'[p].row = row /\ proc'[p].out = o /\ csv' = csv
    BY <1>8, GotoStep DEF UpsertBomman, row
  <2>. QED BY <1>a, <1>b, <1>c, <2>1
<1>9. CASE UpsertSzlcsc(p)
  <2>1. /\ proc[p].pc = "szlcsc" /\ proc'[p].pc = "open_resume"
        /\ proc'[p].known = proc[p].known \cup {Model(row)} /\ proc'[p].out = o /\ csv' = csv
    BY <1>9 DEF UpsertSzlcsc, ProcessFields, row
  <2>. QED BY <1>a, <1>b, <1>c, <2>1
<1>10. CASE OpenResume(p)
  <2>1. /\ proc[p].pc = "open_resume" /\ proc'[p].pc = "write_resume" /\ proc'[p].known = proc[p].known
        /\ proc'[p].out = o /\ csv' = csv
    BY <1>10, GotoStep DEF OpenResume
  <2>. QED BY <1>a, <1>b, <1>c, <2>1
<1>11. CASE WriteResume(p)
  <2>1. /\ proc[p].pc = "write_resume" /\ proc'[p].pc = "row" /\ proc'[p].known = proc[p].known
        /\ proc'[p].out = o /\ csv' = csv
    BY <1>11 DEF WriteResume, ProcessFields
  <2>. QED BY <1>a, <1>b, <1>c, <2>1
<1>. QED BY <1>1, <1>2, <1>3, <1>4, <1>5, <1>6, <1>7, <1>8, <1>9, <1>10, <1>11 DEF Walking

\* Every step keeps what the one who collects knows of its file.
LEMMA FileKnownStep ==
  ASSUME Shape, FilesComplete, RowsInSheet, LockInv, FileKnown, [Next]_vars
  PROVE  FileKnown'
<1>. DEFINE Knows(q) ==
              /\ proc'[q].pc \in Underway \ {"open_csv"} =>
                   \A i \in DOMAIN csv'[proc'[q].out] :
                     LET m == csv'[proc'[q].out][i].model
                     IN  m.part # NoPart => \/ m \in proc'[q].known
                                            \/ proc'[q].pc \in Storing /\ m = Model(proc'[q].row)
              /\ proc'[q].pc = "append" => Model(proc'[q].row) \notin proc'[q].known
<1>0. sheet' = sheet /\ \A r : Model(r)' = Model(r)
  BY SheetStays DEF Model, Base
<1>. SUFFICES ASSUME ~raced' PROVE \A q \in Processes : Knows(q)
  BY <1>0 DEF FileKnown
<1>1. CASE UNCHANGED vars
  BY <1>1 DEF vars, output, FileKnown
<1>2. ASSUME NEW p \in Processes, Launch(p) \/ Locking(p) \/ Stopping(p)
      PROVE  \A q \in Processes : Knows(q)
  <2>1. Local(p) /\ csv' = csv /\ ~raced /\ proc'[p].pc \notin Underway
    BY <1>2, LaunchStep, LockingStep, StoppingStep DEF Underway, Collecting
  <2>. QED BY <2>1 DEF Local, FileKnown, Underway, Collecting
<1>3. ASSUME NEW p \in Processes, Walking(p)
      PROVE  \A q \in Processes : Knows(q)
  <2>1. Local(p) /\ ~raced /\ proc[p].pc \in Collecting
    BY <1>3, WalkingStep
  <2>2. \A q \in Processes \ {p} : proc'[q].pc \notin Collecting
    BY <2>1 DEF Local, LockInv, Holding
  <2>3. Knows(p)
    BY <1>0, <1>3, <2>1, KnownStep DEF FileKnown
  <2>. QED BY <2>2, <2>3 DEF Underway, Collecting
<1>. QED BY <1>1, <1>2, <1>3, NextSteps

\* Every step keeps the parts of a file apart.
LEMMA NotAskedStep ==
  ASSUME Shape, FilesComplete, FileKnown, NoPartAskedTwice, [Next]_vars
  PROVE  NoPartAskedTwice'
<1>1. raced' \/ ~raced
  BY LaunchStep, LockingStep, WalkingStep, StoppingStep, NextSteps DEF vars, Shape
<1>2. CASE csv' = csv
  BY <1>1, <1>2 DEF NoPartAskedTwice
<1>3. ASSUME NEW p \in Processes, AppendRows(p)
      PROVE  NoPartAskedTwice'
  <2>. DEFINE o == proc[p].out
              n == Len(csv[o])
              m == Model(proc[p].row)
  <2>1. /\ o \in Files /\ \A f \in Files \ {o} : csv'[f] = csv[f]
        /\ n \in Nat /\ DOMAIN csv[o] = 1..n /\ DOMAIN csv'[o] = 1..(n + 2)
        /\ \A i \in 1..n : csv'[o][i] = csv[o][i]
        /\ csv'[o][n + 1] = CsvRow(p, "bomman") /\ csv'[o][n + 2] = CsvRow(p, "szlcsc")
    BY <1>3, AppendedRows
  <2>2. \A s : CsvRow(p, s).model = m /\ CsvRow(p, s).platform = s
    BY DEF CsvRow
  <2>3. raced' = raced /\ proc[p].pc = "append"
    BY <1>3 DEF AppendRows
  <2>4. ~raced => \A i \in DOMAIN csv[o] : csv[o][i].model.part # NoPart => csv[o][i].model # m
    BY <2>3 DEF FileKnown, Underway, Collecting, Storing
  <2>. HIDE DEF o, n, m
  <2>5. ASSUME ~raced, NEW i \in 1..(n + 2), NEW j \in 1..(n + 2),
               csv'[o][i].model = csv'[o][j].model, csv'[o][i].model.part # NoPart,
               csv'[o][i].platform = csv'[o][j].platform
        PROVE  i = j
    <3>1. (i \in 1..n \/ i = n + 1 \/ i = n + 2) /\ (j \in 1..n \/ j = n + 1 \/ j = n + 2)
      BY <2>1
    <3>2. CASE i \in 1..n /\ j \in 1..n
      BY <2>1, <2>5, <3>2 DEF NoPartAskedTwice
    <3>3. CASE i \in 1..n /\ j \notin 1..n
      BY <2>1, <2>2, <2>4, <2>5, <3>1, <3>3
    <3>4. CASE i \notin 1..n /\ j \in 1..n
      BY <2>1, <2>2, <2>4, <2>5, <3>1, <3>4
    <3>5. CASE i \notin 1..n /\ j \notin 1..n
      BY <2>1, <2>2, <2>5, <3>1, <3>5
    <3>. QED BY <3>2, <3>3, <3>4, <3>5
  <2>. SUFFICES ASSUME ~raced', NEW f \in Files, NEW i \in DOMAIN csv'[f], NEW j \in DOMAIN csv'[f],
                       csv'[f][i].model = csv'[f][j].model, csv'[f][i].model.part # NoPart,
                       csv'[f][i].platform = csv'[f][j].platform
                PROVE  i = j
    BY DEF NoPartAskedTwice
  <2>6. CASE f = o
    BY <2>1, <2>3, <2>5, <2>6
  <2>7. CASE f # o
    BY <2>1, <2>3, <2>7 DEF NoPartAskedTwice
  <2>. QED BY <2>6, <2>7
<1>. QED BY <1>2, <1>3, SheetStays

\* Whatever dies between a part's rows and its checkpoint, and whichever files the
\* launches name: without a race no file has a part and platform twice.
THEOREM NothingAskedTwice == Spec => []NoPartAskedTwice
<1>1. Init => AskedInv
  <2>. SUFFICES ASSUME Init PROVE AskedInv
    OBVIOUS
  <2>1. /\ \A f \in Files : csv[f] \in Seq(Range(csv[f])) /\ DOMAIN csv[f] = {}
        /\ \A p \in Processes : proc[p].pc = "new"
        /\ sheet \in Sheets
    BY DEF Init, NewProcess
  <2>. QED BY <2>1, ShapeInit
           DEF AskedInv, OneInv, LockInv, FilesComplete, RowsInSheet, FileKnown, NoPartAskedTwice,
               Launching, Holding, Underway, Asking, Answered, Collecting
<1>2. AskedInv /\ [Next]_vars => AskedInv'
  BY ShapeStep, LockStep, FilesStep, RowsInSheetStep, FileKnownStep, NotAskedStep DEF AskedInv, OneInv
<1>3. AskedInv => NoPartAskedTwice
  BY DEF AskedInv
<1>. QED BY <1>1, <1>2, <1>3, PTL DEF Spec

-----------------------------------------------------------------------------
(* A stop costs the database one part.                                     *)

\* One answer for item i is stored.
Has(i, s)  == \E q \in quotes : q.item = i /\ q.platform = s
Has2(i, s) == \E q \in quotes' : q.item = i /\ q.platform = s

\* The steps that touch what is stored.
LEMMA StoreStays ==
  ASSUME NEW p \in Processes, Launch(p) \/ Locking(p) \/ Walking(p) \/ Stopping(p)
  PROVE  /\ items' = items \/ UpsertSupplierItem(p)
         /\ quotes' = quotes \/ UpsertBomman(p) \/ UpsertSzlcsc(p)
         /\ csv' = csv \/ AppendRows(p)
         /\ stops' = stops \/ (Stopping(p) /\ stops' = stops + 1)
<1>1. CASE Launch(p) \/ Locking(p) \/ Stopping(p)
  BY <1>1 DEF Locking, Stopping, Launch, CreateLock, CreateAgain, Create, WritePid,
              ReadLock, UnlinkStale, Release, Die, Interrupt, output
<1>2. CASE Walking(p)
  BY <1>2 DEF Walking, LoadResume, OpenOutput, EndRows, SkipRow, Query, AppendRows, UpsertSupplierItem,
              UpsertBomman, UpsertSzlcsc, OpenResume, WriteResume, output
<1>. QED BY <1>1, <1>2

\* Who does none of the four steps that store is not storing.
LEMMA StoringSteps ==
  ASSUME Shape, NEW p \in Processes, Launch(p) \/ Locking(p) \/ Walking(p),
         ~AppendRows(p), ~UpsertSupplierItem(p), ~UpsertBomman(p), ~UpsertSzlcsc(p)
  PROVE  proc[p].pc \notin Storing /\ proc'[p].pc \notin Storing
<1>. USE DEF Storing
<1>1. CASE Launch(p) \/ Locking(p)
  BY <1>1, LaunchStep, LockingStep DEF Launching
<1>2. CASE LoadResume(p)
  BY <1>2, LoadStep
<1>3. CASE Walking(p) /\ ~LoadResume(p)
  <2>1. proc[p].pc \notin {"append"} \cup Storing
    BY <1>3 DEF Walking, OpenOutput, EndRows, SkipRow, Query, OpenResume, WriteResume
  <2>2. proc'[p].pc \in Storing => proc[p].pc \in {"append"} \cup Storing
    BY <1>3, PlaceStep
  <2>. QED BY <2>1, <2>2
<1>. QED BY <1>1, <1>2, <1>3

\* A row's part is its part number's normal form.
LEMMA BaseNormal ==
  ASSUME NEW r
  PROVE  Base(r).model = NormalizePartNumber(Base(r).part)
BY DEF Base, BaseRow

\* p's item is of its row, new or not, and no item becomes one of another part.
LEMMA StoreItem ==
  ASSUME Shape, ItemsTyped, NEW p \in Processes, UpsertSupplierItem(p)
  PROVE  \E i : /\ proc'[p].item = i /\ proc'[p].row = proc[p].row
                /\ proc'[p].pc = "bomman" /\ proc[p].pc = "item"
                /\ i \in DOMAIN items' /\ items'[i].base.model = Model(proc[p].row)
                /\ items' \in Seq(Range(items'))
                /\ DOMAIN items \subseteq DOMAIN items' /\ DOMAIN items' \subseteq DOMAIN items \cup {i}
                /\ \A k \in DOMAIN items : items'[k].base.model = items[k].base.model
                /\ \A k \in DOMAIN items' : items'[k].base.model = NormalizePartNumber(items'[k].base.part)
<1>. DEFINE same == {i \in DOMAIN items : SameItem(i, p)}
            item == [batch |-> proc[p].batch, base |-> Base(proc[p].row)]
            n == Len(items)
<1>1. /\ items \in Seq(Range(items)) /\ DOMAIN items = 1..n /\ n \in Nat
      /\ item.base = Base(proc[p].row) /\ item.base.model = NormalizePartNumber(item.base.part)
      /\ item.base.model = Model(proc[p].row)
  BY BaseNormal DEF ItemsTyped, Model
<1>2. proc[p].pc = "item" /\ DOMAIN proc = Processes /\ DOMAIN proc[p] = ProcessFields
  BY DEF UpsertSupplierItem, Shape
<1>3. CASE same = {}
  <2>1. /\ items' = Append(items, item)
        /\ proc' = [proc EXCEPT ![p] = [@ EXCEPT !.pc = "bomman", !.item = n + 1]]
    BY <1>3 DEF UpsertSupplierItem
  <2>2. proc'[p].item = n + 1 /\ proc'[p].row = proc[p].row /\ proc'[p].pc = "bomman"
    BY <1>2, <2>1 DEF ProcessFields
  <2>. HIDE DEF item, n
  <2>3. /\ DOMAIN items' = 1..(n + 1) /\ items'[n + 1] = item
        /\ \A k \in 1..n : items'[k] = items[k]
    BY <1>1, <2>1 DEF n
  <2>4. items' \in Seq(Range(items'))
    <3>1. items \in Seq(Range(items) \cup {item})
      BY <1>1, SeqMonotonic
    <3>2. items' \in Seq(Range(items) \cup {item})
      BY <2>1, <3>1, AppendProperties
    <3>. QED BY <3>2, SeqOfRange
  <2>5. \A k \in 1..(n + 1) : k \in 1..n \/ k = n + 1
    BY <1>1
  <2>6. \A k \in DOMAIN items' : items'[k].base.model = NormalizePartNumber(items'[k].base.part)
    BY <1>1, <2>3, <2>5 DEF ItemsTyped
  <2>7. n + 1 \in DOMAIN items' /\ DOMAIN items \subseteq DOMAIN items' /\ DOMAIN items' \subseteq DOMAIN items \cup {n + 1}
    BY <1>1, <2>3, <2>5
  <2>. QED BY <1>1, <1>2, <2>2, <2>3, <2>4, <2>6, <2>7
<1>4. CASE same # {}
  <2>1. PICK i \in same : /\ items' = [items EXCEPT ![i] = item]
                          /\ proc' = [proc EXCEPT ![p] = [@ EXCEPT !.pc = "bomman", !.item = i]]
    BY <1>4 DEF UpsertSupplierItem
  <2>2. proc'[p].item = i /\ proc'[p].row = proc[p].row /\ proc'[p].pc = "bomman"
    BY <1>2, <2>1 DEF ProcessFields
  <2>3. i \in DOMAIN items /\ items[i].base.part = Base(proc[p].row).part
    BY <2>1 DEF SameItem
  <2>. HIDE DEF item, n, same
  <2>4. /\ DOMAIN items' = 1..n /\ items'[i] = item
        /\ \A k \in 1..n : k # i => items'[k] = items[k]
    BY <1>1, <2>1, <2>3
  <2>5. items' \in Seq(Range(items'))
    <3>1. items' \in [1..n -> Range(items')]
      <4>1. items' = [k \in 1..n |-> items'[k]]
        BY <1>1, <2>1
      <4>. QED BY <2>4, <4>1 DEF Range
    <3>. QED BY <1>1, <3>1
  <2>6. items[i].base.model = item.base.model
    BY <1>1, <2>3 DEF ItemsTyped
  <2>7. \A k \in DOMAIN items : items'[k].base.model = items[k].base.model
    BY <1>1, <2>4, <2>6
  <2>8. \A k \in DOMAIN items' : items'[k].base.model = NormalizePartNumber(items'[k].base.part)
    BY <1>1, <2>4 DEF ItemsTyped
  <2>. QED BY <1>1, <1>2, <2>2, <2>3, <2>4, <2>5, <2>7, <2>8
<1>. QED BY <1>3, <1>4

\* Storing an answer of s for p's item adds it, and takes none but its like away.
LEMMA StoreAnswer ==
  ASSUME ItemsTyped, NEW p \in Processes, NEW s \in Platforms, UpsertMarketQuote(p, s)
  PROVE  /\ Has2(proc[p].item, s)
         /\ \A i, t : Has(i, t) => Has2(i, t)
         /\ \A q \in quotes' : q.platform \in Platforms
<1>. DEFINE me  == proc[p]
            old == {q \in quotes : q.batch = me.batch /\ q.item = me.item /\ q.platform = s}
            new == [batch |-> me.batch, item |-> me.item, platform |-> s, page |-> me.pages[s],
                    result |-> PlatformResult(me.pages[s])]
<1>1. quotes' = (quotes \ old) \cup {new} /\ new.item = me.item /\ new.platform = s
  BY DEF UpsertMarketQuote
<1>2. \A q \in old : q.item = me.item /\ q.platform = s
  OBVIOUS
<1>3. \A q \in quotes : q.platform \in Platforms
  BY DEF ItemsTyped
<1>. HIDE DEF old, new, me
<1>4. \A i, t : Has(i, t) => Has2(i, t)
  BY <1>1, <1>2 DEF Has, Has2
<1>5. Has2(me.item, s) /\ \A q \in quotes' : q.platform \in Platforms
  BY <1>1, <1>3 DEF Has2
<1>. QED BY <1>4, <1>5 DEF me

\* Every step keeps the items and their answers.
LEMMA ItemsTypedStep ==
  ASSUME Shape, sheet' = sheet, ItemsTyped, [Next]_vars
  PROVE  ItemsTyped'
<1>. DEFINE Stores(q) ==
              proc'[q].pc \in {"bomman", "szlcsc"} =>
                /\ proc'[q].item \in DOMAIN items' /\ items'[proc'[q].item].base.model = Model(proc'[q].row)
                /\ proc'[q].pc = "szlcsc" => Has2(proc'[q].item, "bomman")
<1>0. \A r : Model(r)' = Model(r)
  BY DEF Model, Base
<1>1. CASE UNCHANGED vars
  BY <1>1, <1>0 DEF vars, output, ItemsTyped
<1>2. ASSUME NEW p \in Processes, Launch(p) \/ Locking(p) \/ Walking(p) \/ Stopping(p)
      PROVE  ItemsTyped'
  <2>0. Local(p)
    BY <1>2, LaunchStep, LockingStep, WalkingStep, StoppingStep
  <2>1. /\ items' \in Seq(Range(items'))
        /\ DOMAIN items \subseteq DOMAIN items'
        /\ \A k \in DOMAIN items : items'[k].base.model = items[k].base.model
        /\ \A k \in DOMAIN items' : items'[k].base.model = NormalizePartNumber(items'[k].base.part)
    <3>1. CASE items' = items
      BY <3>1 DEF ItemsTyped
    <3>2. CASE UpsertSupplierItem(p)
      BY <3>2, StoreItem
    <3>. QED BY <1>2, <3>1, <3>2, StoreStays
  <2>2. (\A i, t : Has(i, t) => Has2(i, t)) /\ \A q \in quotes' : q.platform \in Platforms
    <3>1. CASE quotes' = quotes
      BY <3>1 DEF ItemsTyped, Has, Has2
    <3>2. CASE UpsertBomman(p) \/ UpsertSzlcsc(p)
      BY <3>2, StoreAnswer DEF UpsertBomman, UpsertSzlcsc, Platforms
    <3>. QED BY <1>2, <3>1, <3>2, StoreStays
  <2>3. \A q \in Processes \ {p} : Stores(q)
    BY <2>0, <2>1, <2>2 DEF Local, ItemsTyped, Has
  <2>4. Stores(p)
    <3>1. CASE UpsertSupplierItem(p)
      BY <3>1, StoreItem
    <3>2. CASE UpsertBomman(p)
      <4>1. /\ proc[p].pc = "bomman" /\ proc'[p].pc = "szlcsc" /\ proc'[p].row = proc[p].row
            /\ proc'[p].item = proc[p].item
        BY <3>2 DEF UpsertBomman, Goto, Shape, ProcessFields
      <4>2. Has2(proc[p].item, "bomman")
        BY <3>2, StoreAnswer DEF UpsertBomman, Platforms
      <4>. QED BY <2>1, <4>1, <4>2 DEF ItemsTyped
    <3>3. CASE ~UpsertSupplierItem(p) /\ ~UpsertBomman(p)
      <4>1. CASE AppendRows(p)
        <5>1. proc'[p].pc \in {"item", "open_resume"}
          <6>1. CASE proc[p].args.db
            BY <4>1, <6>1, GotoStep DEF AppendRows
          <6>2. CASE ~proc[p].args.db
            <7>1. proc' = [proc EXCEPT ![p] = [@ EXCEPT !.pc = "open_resume",
                                                        !.known = proc[p].known \cup {Model(proc[p].row)}]]
              BY <4>1, <6>2 DEF AppendRows
            <7>. QED BY <7>1 DEF Shape, ProcessFields
          <6>. QED BY <6>1, <6>2
        <5>. QED BY <5>1
      <4>2. CASE UpsertSzlcsc(p)
        <5>1. proc'[p].pc = "open_resume"
          BY <4>2 DEF UpsertSzlcsc, Shape, ProcessFields
        <5>. QED BY <5>1
      <4>3. CASE Stopping(p)
        <5>1. proc'[p].pc \in {"dead", "release"}
          BY <4>3, StoppingStep
        <5>. QED BY <5>1
      <4>4. CASE ~AppendRows(p) /\ ~UpsertSzlcsc(p) /\ ~Stopping(p)
        BY <1>2, <3>3, <4>4, StoringSteps DEF Storing
      <4>. QED BY <4>1, <4>2, <4>3, <4>4
    <3>. QED BY <3>1, <3>2, <3>3
  <2>5. \A q \in Processes : Stores(q)
    BY <2>3, <2>4
  <2>. QED BY <1>0, <2>1, <2>2, <2>5 DEF ItemsTyped, Has2
<1>. QED BY <1>1, <1>2, NextSteps

\* The parts in the database, or lost to it, or under way to it, for the next state.
Full2(i) == \A s \in Platforms : Has2(i, s)
InDatabaseRun2(m) == \E f \in Files : \E i \in DOMAIN csv'[f] : csv'[f][i].model = m /\ csv'[f][i].db
Excused2(lost) ==
  /\ \A i \in DOMAIN items' :
       \/ Full2(i)
       \/ items'[i].base.model \in lost
       \/ \E p \in Processes : proc'[p].pc \in {"bomman", "szlcsc"} /\ proc'[p].item = i
  /\ \A m \in SheetModels : InDatabaseRun2(m) =>
       \/ m \in lost
       \/ \E i \in DOMAIN items' : items'[i].base.model = m
       \/ \E p \in Processes : proc'[p].pc = "item" /\ Model(proc'[p].row) = m

\* What the steps of a process do to the losses: none but a stop adds one.
LEMMA LossKept ==
  ASSUME Shape, FilesComplete, RowsInSheet, ItemsTyped, sheet' = sheet,
         NEW p \in Processes, Launch(p) \/ Locking(p) \/ Walking(p), NEW lost, Excused(lost)
  PROVE  Excused2(lost)
<1>0. Local(p)
  BY LaunchStep, LockingStep, WalkingStep
<1>1. ASSUME NEW q \in Processes \ {p} PROVE proc'[q] = proc[q]
  BY <1>0 DEF Local
<1>2. /\ \A i \in DOMAIN items :
           \/ \A s \in Platforms : Has(i, s)
           \/ items[i].base.model \in lost
           \/ \E q \in Processes : proc[q].pc \in {"bomman", "szlcsc"} /\ proc[q].item = i
      /\ \A m \in SheetModels : (\E f \in Files : \E i \in DOMAIN csv[f] : csv[f][i].model = m /\ csv[f][i].db) =>
           \/ m \in lost
           \/ \E i \in DOMAIN items : items[i].base.model = m
           \/ \E q \in Processes : proc[q].pc = "item" /\ Model(proc[q].row) = m
  BY DEF Excused, Full, Has, InDatabaseRun, RowsOf
<1>3. CASE AppendRows(p)
  <2>1. proc[p].pc = "append" /\ items' = items /\ quotes' = quotes
    BY <1>3 DEF AppendRows
  <2>2. proc[p].args.db => proc'[p].pc = "item" /\ proc'[p].row = proc[p].row
    BY <1>3, GotoStep DEF AppendRows
  <2>3. \A i \in DOMAIN items' : \/ Full2(i) \/ items'[i].base.model \in lost
                                 \/ \E q \in Processes : proc'[q].pc \in {"bomman", "szlcsc"} /\ proc'[q].item = i
    BY <1>1, <1>2, <2>1 DEF Full2, Has, Has2
  <2>4. ASSUME NEW m \in SheetModels, NEW f \in Files, NEW i \in DOMAIN csv'[f],
               csv'[f][i].model = m, csv'[f][i].db
        PROVE  \/ m = Model(proc[p].row) /\ proc[p].args.db
               \/ \E g \in Files : \E k \in DOMAIN csv[g] : csv[g][k].model = m /\ csv[g][k].db
    <3>. DEFINE o == proc[p].out
                n == Len(csv[o])
    <3>1. /\ o \in Files /\ \A g \in Files \ {o} : csv'[g] = csv[g]
          /\ n \in Nat /\ DOMAIN csv[o] = 1..n /\ DOMAIN csv'[o] = 1..(n + 2)
          /\ \A k \in 1..n : csv'[o][k] = csv[o][k]
          /\ csv'[o][n + 1] = CsvRow(p, "bomman") /\ csv'[o][n + 2] = CsvRow(p, "szlcsc")
      BY <1>3, AppendedRows
    <3>2. \A s : CsvRow(p, s).model = Model(proc[p].row) /\ CsvRow(p, s).db = proc[p].args.db
      BY DEF CsvRow
    <3>. HIDE DEF o, n
    <3>3. CASE f # o
      BY <2>4, <3>1, <3>3
    <3>4. CASE f = o
      <4>1. i \in 1..n \/ i = n + 1 \/ i = n + 2
        BY <2>4, <3>1, <3>4
      <4>. QED BY <2>4, <3>1, <3>2, <3>4, <4>1
    <3>. QED BY <3>3, <3>4
  <2>5. ASSUME NEW m \in SheetModels, InDatabaseRun2(m)
        PROVE  \/ m \in lost
               \/ \E i \in DOMAIN items' : items'[i].base.model = m
               \/ \E q \in Processes : proc'[q].pc = "item" /\ Model(proc'[q].row) = m
    <3>1. CASE m = Model(proc[p].row) /\ proc[p].args.db
      BY <2>2, <3>1
    <3>2. CASE \E g \in Files : \E k \in DOMAIN csv[g] : csv[g][k].model = m /\ csv[g][k].db
      BY <1>1, <1>2, <2>1, <3>2
    <3>. QED BY <2>4, <2>5, <3>1, <3>2 DEF InDatabaseRun2
  <2>. QED BY <2>3, <2>5 DEF Excused2
<1>4. CASE UpsertSupplierItem(p)
  <2>1. csv' = csv /\ quotes' = quotes
    BY <1>4 DEF UpsertSupplierItem
  <2>2. PICK j : /\ proc'[p].item = j /\ proc'[p].row = proc[p].row
                 /\ proc'[p].pc = "bomman" /\ proc[p].pc = "item"
                 /\ j \in DOMAIN items' /\ items'[j].base.model = Model(proc[p].row)
                 /\ DOMAIN items \subseteq DOMAIN items' /\ DOMAIN items' \subseteq DOMAIN items \cup {j}
                 /\ \A k \in DOMAIN items : items'[k].base.model = items[k].base.model
    BY <1>4, StoreItem
  <2>3. ASSUME NEW i \in DOMAIN items'
        PROVE  \/ Full2(i) \/ items'[i].base.model \in lost
               \/ \E q \in Processes : proc'[q].pc \in {"bomman", "szlcsc"} /\ proc'[q].item = i
    <3>1. CASE i = j
      BY <2>2, <3>1
    <3>2. CASE i # j
      <4>1. i \in DOMAIN items /\ items'[i].base.model = items[i].base.model
        BY <2>2, <3>2
      <4>. QED BY <1>1, <1>2, <2>1, <2>2, <4>1 DEF Full2, Has, Has2
    <3>. QED BY <3>1, <3>2
  <2>4. ASSUME NEW m \in SheetModels, InDatabaseRun2(m)
        PROVE  \/ m \in lost
               \/ \E i \in DOMAIN items' : items'[i].base.model = m
               \/ \E q \in Processes : proc'[q].pc = "item" /\ Model(proc'[q].row) = m
    BY <1>1, <1>2, <2>1, <2>2, <2>4 DEF InDatabaseRun2
  <2>. QED BY <2>3, <2>4 DEF Excused2
<1>5. CASE UpsertBomman(p) \/ UpsertSzlcsc(p)
  <2>1. csv' = csv /\ items' = items /\ proc[p].pc \in {"bomman", "szlcsc"}
    BY <1>5 DEF UpsertBomman, UpsertSzlcsc
  <2>2. \A i, t : Has(i, t) => Has2(i, t)
    BY <1>5, StoreAnswer DEF UpsertBomman, UpsertSzlcsc, Platforms
  <2>3. \/ proc'[p].pc = "szlcsc" /\ proc'[p].item = proc[p].item
        \/ Full2(proc[p].item)
    <3>1. CASE UpsertBomman(p)
      BY <3>1 DEF UpsertBomman, Goto, Shape, ProcessFields
    <3>2. CASE UpsertSzlcsc(p)
      <4>1. Has2(proc[p].item, "szlcsc")
        BY <3>2, StoreAnswer DEF UpsertSzlcsc, Platforms
      <4>2. Has(proc[p].item, "bomman")
        BY <3>2 DEF UpsertSzlcsc, ItemsTyped, Has
      <4>. QED BY <2>2, <4>1, <4>2 DEF Full2, Platforms
    <3>. QED BY <1>5, <3>1, <3>2
  <2>4. ASSUME NEW i \in DOMAIN items'
        PROVE  \/ Full2(i) \/ items'[i].base.model \in lost
               \/ \E q \in Processes : proc'[q].pc \in {"bomman", "szlcsc"} /\ proc'[q].item = i
    <3>1. CASE i = proc[p].item
      BY <2>3, <3>1
    <3>2. CASE i # proc[p].item
      BY <1>1, <1>2, <2>1, <2>2, <3>2 DEF Full2
    <3>. QED BY <3>1, <3>2
  <2>5. ASSUME NEW m \in SheetModels, InDatabaseRun2(m)
        PROVE  \/ m \in lost
               \/ \E i \in DOMAIN items' : items'[i].base.model = m
               \/ \E q \in Processes : proc'[q].pc = "item" /\ Model(proc'[q].row) = m
    BY <1>1, <1>2, <2>1, <2>5 DEF InDatabaseRun2
  <2>. QED BY <2>4, <2>5 DEF Excused2
<1>6. CASE ~AppendRows(p) /\ ~UpsertSupplierItem(p) /\ ~UpsertBomman(p) /\ ~UpsertSzlcsc(p)
  <2>1. csv' = csv /\ items' = items /\ quotes' = quotes
    BY <1>6, StoreStays
  <2>2. proc[p].pc \notin Storing
    BY <1>6, StoringSteps
  <2>3. ASSUME NEW i \in DOMAIN items'
        PROVE  \/ Full2(i) \/ items'[i].base.model \in lost
               \/ \E q \in Processes : proc'[q].pc \in {"bomman", "szlcsc"} /\ proc'[q].item = i
    BY <1>1, <1>2, <2>1, <2>2 DEF Full2, Has, Has2, Storing
  <2>4. ASSUME NEW m \in SheetModels, InDatabaseRun2(m)
        PROVE  \/ m \in lost
               \/ \E i \in DOMAIN items' : items'[i].base.model = m
               \/ \E q \in Processes : proc'[q].pc = "item" /\ Model(proc'[q].row) = m
    BY <1>1, <1>2, <2>1, <2>2, <2>4 DEF InDatabaseRun2, Storing
  <2>. QED BY <2>3, <2>4 DEF Excused2
<1>. QED BY <1>3, <1>4, <1>5, <1>6

\* A stop may leave the part of p's row without its answers.
LEMMA LossStopped ==
  ASSUME Shape, ItemsTyped, sheet' = sheet, NEW p \in Processes, Stopping(p),
         items' = items, quotes' = quotes, csv' = csv, NEW lost, Excused(lost)
  PROVE  Excused2(lost \cup (IF proc[p].pc \in Storing THEN {Model(proc[p].row)} ELSE {}))
<1>. DEFINE more == lost \cup (IF proc[p].pc \in Storing THEN {Model(proc[p].row)} ELSE {})
<1>1. ASSUME NEW q \in Processes \ {p} PROVE proc'[q] = proc[q]
  BY StoppingStep DEF Local
<1>2. lost \subseteq more /\ (proc[p].pc \in Storing => Model(proc[p].row) \in more)
  OBVIOUS
<1>. HIDE DEF more
<1>3. ASSUME NEW i \in DOMAIN items'
      PROVE  \/ Full2(i) \/ items'[i].base.model \in more
             \/ \E q \in Processes : proc'[q].pc \in {"bomman", "szlcsc"} /\ proc'[q].item = i
  <2>1. CASE proc[p].pc \in {"bomman", "szlcsc"} /\ proc[p].item = i
    BY <1>2, <2>1 DEF ItemsTyped, Storing
  <2>2. CASE ~(proc[p].pc \in {"bomman", "szlcsc"} /\ proc[p].item = i)
    <3>1. \/ Full(i) \/ items[i].base.model \in lost
          \/ \E q \in Processes : proc[q].pc \in {"bomman", "szlcsc"} /\ proc[q].item = i
      BY <1>3 DEF Excused
    <3>. QED BY <1>1, <1>2, <2>2, <3>1 DEF Full, Full2, Has2
  <2>. QED BY <2>1, <2>2
<1>4. ASSUME NEW m \in SheetModels, InDatabaseRun2(m)
      PROVE  \/ m \in more
             \/ \E i \in DOMAIN items' : items'[i].base.model = m
             \/ \E q \in Processes : proc'[q].pc = "item" /\ Model(proc'[q].row) = m
  <2>1. InDatabaseRun(m)
    BY <1>4 DEF InDatabaseRun, InDatabaseRun2, RowsOf
  <2>2. \/ m \in lost
        \/ \E i \in DOMAIN items : items[i].base.model = m
        \/ \E q \in Processes : proc[q].pc = "item" /\ Model(proc[q].row) = m
    BY <2>1 DEF Excused
  <2>. QED BY <1>1, <1>2, <2>2 DEF Storing
<1>5. Excused2(more)
  BY <1>3, <1>4 DEF Excused2
<1>. QED BY <1>5 DEF more

\* The two ways to say what is excused in the next state.
LEMMA ExcusedNext ==
  ASSUME sheet' = sheet, NEW lost, Excused2(lost)
  PROVE  Excused(lost)'
<1>1. \A r : Model(r)' = Model(r)
  BY DEF Model, Base
<1>2. SheetModels' = SheetModels
  BY <1>1 DEF SheetModels, Rows
<1>3. \A i : Full(i)' <=> Full2(i)
  BY DEF Full, Full2, Has2
<1>4. \A m : InDatabaseRun(m)' <=> InDatabaseRun2(m)
  BY DEF InDatabaseRun, InDatabaseRun2, RowsOf
<1>. QED BY <1>1, <1>2, <1>3, <1>4 DEF Excused, Excused2

\* Every step keeps the losses excused.
LEMMA LossesStep ==
  ASSUME Shape, FilesComplete, RowsInSheet, ItemsTyped, LossesExcused, [Next]_vars
  PROVE  LossesExcused'
<1>0. sheet' = sheet /\ SheetModels' = SheetModels
  <2>1. sheet' = sheet
    BY SheetStays
  <2>. QED BY <2>1 DEF SheetModels, Rows, Model, Base
<1>. DEFINE old == {p \in Processes : proc[p].pc # "new"}
            new == {p \in Processes : proc'[p].pc # "new"}
<1>1. PICK lost \in SUBSET SheetModels : IsFiniteSet(lost) /\ Cardinality(lost) <= stops /\ Excused(lost)
  BY DEF LossesExcused, SheetModels
<1>2. stops \in Nat /\ IsFiniteSet(old)
  BY DEF LossesExcused
<1>3. ASSUME stops' \in Nat, IsFiniteSet(new), NEW more \in SUBSET SheetModels,
             IsFiniteSet(more), Cardinality(more) <= stops', Excused(more)'
      PROVE  LossesExcused'
  BY <1>0, <1>3 DEF LossesExcused
<1>4. CASE UNCHANGED vars
  <2>1. stops' = stops /\ new = old
    BY <1>4 DEF vars
  <2>2. Excused(lost)'
    BY <1>1, <1>4 DEF vars, output, Excused, Full, InDatabaseRun, RowsOf, SheetModels, Rows, Model, Base
  <2>. QED BY <1>1, <1>2, <1>3, <2>1, <2>2
<1>5. ASSUME NEW p \in Processes, Launch(p) \/ Locking(p) \/ Walking(p) \/ Stopping(p)
      PROVE  IsFiniteSet(new)
  <2>1. Local(p)
    BY <1>5, LaunchStep, LockingStep, WalkingStep, StoppingStep
  <2>2. new \subseteq old \cup {p}
    BY <2>1 DEF Local
  <2>3. IsFiniteSet(old \cup {p})
    BY <1>2, FS_AddElement
  <2>. QED BY <2>2, <2>3, FS_Subset
<1>6. ASSUME NEW p \in Processes, Launch(p) \/ Locking(p) \/ Walking(p), ~Stopping(p)
      PROVE  LossesExcused'
  <2>1. stops' = stops
    BY <1>6, StoreStays
  <2>2. Excused(lost)'
    BY <1>0, <1>1, <1>6, LossKept, ExcusedNext
  <2>3. IsFiniteSet(new)
    BY <1>5, <1>6
  <2>. HIDE DEF new
  <2>. QED BY <1>1, <1>2, <1>3, <2>1, <2>2, <2>3
<1>7. ASSUME NEW p \in Processes, Stopping(p)
      PROVE  LossesExcused'
  <2>0. PICK more : more = lost \cup (IF proc[p].pc \in Storing THEN {Model(proc[p].row)} ELSE {})
    OBVIOUS
  <2>1. /\ items' = items /\ quotes' = quotes /\ csv' = csv /\ stops' = stops + 1
    BY <1>7 DEF Stopping, Die, Interrupt, output
  <2>2. Excused(more)'
    <3>1. Excused2(lost \cup (IF proc[p].pc \in Storing THEN {Model(proc[p].row)} ELSE {}))
      BY <1>0, <1>1, <1>7, <2>1, LossStopped
    <3>2. Excused2(more)
      BY <2>0, <3>1
    <3>. QED BY <1>0, <3>2, ExcusedNext
  <2>3. /\ more \in SUBSET SheetModels /\ IsFiniteSet(more)
        /\ Cardinality(more) <= Cardinality(lost) + 1
    <3>1. Cardinality(lost) \in Nat
      BY <1>1, FS_CardinalityType
    <3>2. CASE proc[p].pc \in Storing
      <4>1. Model(proc[p].row) \in SheetModels
        BY <3>2, RowInSheet DEF Asking, Answered, Storing
      <4>2. PICK m \in SheetModels : m = Model(proc[p].row)
        BY <4>1
      <4>3. more = lost \cup {m}
        BY <2>0, <3>2, <4>2
      <4>4. /\ IsFiniteSet(lost \cup {m})
            /\ Cardinality(lost \cup {m}) = Cardinality(lost) \/ Cardinality(lost \cup {m}) = Cardinality(lost) + 1
        BY <1>1, FS_AddElement
      <4>. QED BY <1>1, <3>1, <4>3, <4>4
    <3>3. CASE proc[p].pc \notin Storing
      <4>1. more = lost
        BY <2>0, <3>3
      <4>. QED BY <1>1, <3>1, <4>1
    <3>. QED BY <3>2, <3>3
  <2>4. stops' \in Nat /\ Cardinality(more) <= stops'
    <3>1. Cardinality(lost) \in Nat /\ Cardinality(more) \in Nat
      BY <1>1, <2>3, FS_CardinalityType
    <3>. QED BY <1>1, <1>2, <2>1, <2>3, <3>1
  <2>5. IsFiniteSet(new)
    BY <1>5, <1>7
  <2>. HIDE DEF new
  <2>. QED BY <1>3, <2>2, <2>3, <2>4, <2>5
<1>8. CASE \E p \in Processes : Launch(p) \/ Locking(p) \/ Walking(p) \/ Stopping(p)
  BY <1>6, <1>7, <1>8
<1>. QED BY <1>4, <1>8, NextSteps

Less == {p \in Nat \X Nat : p[1] < p[2]}

\* The order of the numbers is well-founded.
LEMMA LessWF == IsWellFoundedOn(Less, Nat)
<1>1. OpToRel(<, Nat) = Less
  BY Zenon DEF OpToRel, Less
<1>. QED BY <1>1, NatLessThanWellFounded, Zenon

\* Some places of a sequence have a last one, which Max finds.
LEMMA MaxOfPlaces ==
  ASSUME NEW n \in Nat, NEW T, T \subseteq 1..n, T # {}
  PROVE  Max(T) \in T
<1>. DEFINE U == {n - t : t \in T}
<1>1. U \subseteq Nat /\ U # {}
  <2>1. \A t \in T : n - t \in Nat
    OBVIOUS
  <2>2. PICK t \in T : TRUE
    OBVIOUS
  <2>3. n - t \in U
    OBVIOUS
  <2>. QED BY <2>1, <2>3
<1>. HIDE DEF U
<1>2. PICK u \in U : \A v \in U : ~(<<v, u>> \in Less)
  BY <1>1, LessWF, WFMin
<1>3. \A v \in U : u <= v
  <2>1. \A v \in U : u \in Nat /\ v \in Nat /\ ~(v < u)
    BY <1>1, <1>2 DEF Less
  <2>. QED BY <2>1
<1>4. PICK x \in T : u = n - x
  BY DEF U
<1>5. \A y \in T : x >= y
  <2>1. \A y \in T : n - x <= n - y
    BY <1>3, <1>4 DEF U
  <2>. QED BY <2>1
<1>. QED BY <1>4, <1>5 DEF Max

\* What the database lacks of the parts in the files is excused.
LEMMA LostIsExcused ==
  ASSUME ItemsTyped, NEW lost, Excused(lost), NEW m \in SheetModels, InDatabaseRun(m), ~Stored(m)
  PROVE  m \in lost \/ \E p \in Processes : proc[p].pc \in Storing /\ Model(proc[p].row) = m
<1>. DEFINE mine == {i \in DOMAIN items : items[i].base.model = m}
<1>1. CASE mine = {}
  <2>1. m \in lost \/ \E p \in Processes : proc[p].pc = "item" /\ Model(proc[p].row) = m
    BY <1>1 DEF Excused
  <2>. QED BY <2>1 DEF Storing
<1>2. CASE mine # {}
  <2>1. LatestItem(m) = Max(mine) /\ DOMAIN items = 1..Len(items) /\ Len(items) \in Nat
    BY <1>2 DEF LatestItem, ItemsTyped
  <2>2. LatestItem(m) \in mine
    <3>1. mine \subseteq 1..Len(items)
      BY <2>1
    <3>. HIDE DEF mine
    <3>. QED BY <1>2, <2>1, <3>1, MaxOfPlaces
  <2>. DEFINE i == LatestItem(m)
  <2>3. ~Full(i)
    <3>1. SUFFICES ASSUME Full(i) PROVE Stored(m)
      OBVIOUS
    <3>. HIDE DEF i
    <3>2. {q.platform : q \in {r \in quotes : r.item = i}} = Platforms
      BY <3>1 DEF Full, ItemsTyped
    <3>. QED BY <3>2 DEF Stored, i
  <2>4. i \in DOMAIN items /\ items[i].base.model = m
    BY <2>2
  <2>. HIDE DEF i
  <2>5. m \in lost \/ \E p \in Processes : proc[p].pc \in {"bomman", "szlcsc"} /\ proc[p].item = i
    BY <2>3, <2>4 DEF Excused
  <2>. QED BY <2>4, <2>5 DEF ItemsTyped, Storing
<1>. QED BY <1>1, <1>2

\* The losses number no more than the stops and those who store.
LEMMA LossesNumbered ==
  ASSUME ItemsTyped, LossesExcused
  PROVE  LostPartsBounded
<1>. DEFINE L == {m \in SheetModels : InDatabaseRun(m) /\ ~Stored(m)}
            storing == {p \in Processes : proc[p].pc \in Storing}
            P == {Model(proc[p].row) : p \in storing}
            f == [p \in storing |-> Model(proc[p].row)]
<1>1. PICK lost \in SUBSET SheetModels : IsFiniteSet(lost) /\ Cardinality(lost) <= stops /\ Excused(lost)
  BY DEF LossesExcused, SheetModels
<1>2. IsFiniteSet(storing)
  <2>1. storing \subseteq {p \in Processes : proc[p].pc # "new"}
    BY DEF Storing
  <2>. QED BY <2>1, FS_Subset DEF LossesExcused
<1>3. IsFiniteSet(P) /\ Cardinality(P) <= Cardinality(storing)
  <2>1. f \in Surjection(storing, P)
    BY DEF Surjection
  <2>. HIDE DEF f, P, storing
  <2>. QED BY <1>2, <2>1, FS_Surjection
<1>4. L \subseteq lost \cup P
  BY <1>1, LostIsExcused
<1>5. L = {m \in {Model(r) : r \in Rows} : (\E g \in Files : \E i \in RowsOf(m, g) : csv[g][i].db) /\ ~Stored(m)}
  BY DEF SheetModels, InDatabaseRun
<1>6. storing = {p \in Processes : proc[p].pc \in {"item", "bomman", "szlcsc"}}
  BY DEF Storing
<1>7. stops \in Nat
  BY DEF LossesExcused
<1>. HIDE DEF L, storing, P, f
<1>8. /\ IsFiniteSet(lost \cup P)
      /\ Cardinality(lost \cup P) = Cardinality(lost) + Cardinality(P) - Cardinality(lost \cap P)
  BY <1>1, <1>3, FS_Union
<1>9. IsFiniteSet(lost \cap P)
  BY <1>3, FS_Subset
<1>10. Cardinality(L) <= Cardinality(lost \cup P)
  BY <1>4, <1>8, FS_Subset
<1>11. /\ Cardinality(L) \in Nat /\ Cardinality(lost) \in Nat /\ Cardinality(P) \in Nat
       /\ Cardinality(lost \cap P) \in Nat /\ Cardinality(storing) \in Nat
  <2>1. IsFiniteSet(L)
    BY <1>4, <1>8, FS_Subset
  <2>. QED BY <1>1, <1>2, <1>3, <1>9, <2>1, FS_CardinalityType
<1>12. Cardinality(L) <= stops + Cardinality(storing)
  BY <1>1, <1>3, <1>7, <1>8, <1>10, <1>11
<1>. QED BY <1>5, <1>6, <1>12 DEF LostPartsBounded

\* For any sheet, command lines and launches, racing ones included: the database lacks
\* answers for no more parts than launches were stopped, or are storing.
THEOREM LossIsBounded == Spec => []LostPartsBounded
<1>1. Init => LossInv
  <2>. SUFFICES ASSUME Init PROVE LossInv
    OBVIOUS
  <2>1. /\ \A f \in Files : csv[f] \in Seq(Range(csv[f])) /\ DOMAIN csv[f] = {}
        /\ \A p \in Processes : proc[p].pc = "new"
        /\ sheet \in Sheets /\ items = <<>> /\ quotes = {} /\ stops = 0
    BY DEF Init, NewProcess
  <2>2. FilesComplete /\ RowsInSheet /\ ItemsTyped
    BY <2>1 DEF FilesComplete, RowsInSheet, ItemsTyped, Underway, Asking, Answered, Collecting
  <2>3. Excused({})
    BY <2>1 DEF Excused, InDatabaseRun, RowsOf
  <2>4. {p \in Processes : proc[p].pc # "new"} = {}
    BY <2>1
  <2>5. LossesExcused
    <3>1. {} \in SUBSET SheetModels /\ IsFiniteSet({}) /\ Cardinality({}) <= stops
      BY <2>1, FS_EmptySet
    <3>2. stops \in Nat /\ IsFiniteSet({p \in Processes : proc[p].pc # "new"})
      BY <2>1, <2>4, FS_EmptySet
    <3>. QED BY <2>3, <3>1, <3>2 DEF LossesExcused
  <2>. QED BY <2>2, <2>5, ShapeInit DEF LossInv
<1>2. LossInv /\ [Next]_vars => LossInv'
  BY ShapeStep, FilesStep, RowsInSheetStep, ItemsTypedStep, LossesStep DEF LossInv
<1>3. LossInv => LostPartsBounded
  BY LossesNumbered DEF LossInv
<1>. QED BY <1>1, <1>2, <1>3, PTL DEF Spec
=============================================================================
