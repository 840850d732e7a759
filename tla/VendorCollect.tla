--------------------------- MODULE VendorCollect ---------------------------
(***************************************************************************)
(* The vendor platform collector                                           *)
(* (scripts/vendor_platform_price_collect.py): one launch walks the rows   *)
(* of the vendor's sheet, asks two platforms for each part, appends both   *)
(* answers to a CSV file, stores them in the database and checkpoints.     *)
(*                                                                         *)
(* A process is one launch.  Each file operation and each commit is a step *)
(* of its own: other launches run, and the process may die or be           *)
(* interrupted, between any two of them.  The resume file is empty from    *)
(* its opening to its closing.  The two rows of a model fit the buffer of  *)
(* the CSV file and reach it together.  A process id is never reused, and  *)
(* no two launches take the same second for a batch or a file name.        *)
(***************************************************************************)
EXTENDS VendorParse, SequencesExt

CONSTANTS
  Processes,  \* launches of the collector, each made at most once
  Nobody,     \* no process, no batch, no file
  Given,      \* the file of --output-csv
  Sheets,     \* the sheets the vendor may send
  Answers,    \* the pages a part may find: [Platforms -> PageType]
  Arguments,  \* the command lines: [out : {Nobody, Given}, db : BOOLEAN, limit : Nat]
  MaxStops    \* bound: launches that die or are interrupted

ASSUME NamesAssumption == Nobody \notin Processes \cup {Given} /\ Given \notin Processes
ASSUME InputsAssumption ==
  /\ Answers \subseteq [Platforms -> PageType]
  /\ Arguments \subseteq [out : {Nobody, Given}, db : BOOLEAN, limit : Nat]
  /\ MaxStops \in Nat
ASSUME SheetsAssumption == \A s \in Sheets : s.rows \in Seq(Range(s.rows))

VARIABLES
  sheet,   \* the vendor's sheet, the same for all launches
  lock,    \* the lock file: who created it, and whether its pid is written
  proc,    \* the local state of every process
  resume,  \* the resume file: next_index, batch_id, output_csv
  csv,     \* the output files: a sequence of rows each
  items,   \* supplier_items; the id of an item is its place
  quotes,  \* market_quotes
  raced,   \* two launches were inside acquire_lock together (history)
  stops

vars == <<sheet, lock, proc, resume, csv, items, quotes, raced, stops>>
output == <<resume, csv, items, quotes>>

\* A batch, and a file without --output-csv, is named by the launch that began it.
Batches == Processes
Files   == Processes \cup {Given}
Rows    == DOMAIN sheet.rows
Base(r) == BaseRow(sheet, r)
Model(r) == Base(r).model

NoLock   == [creator |-> Nobody, written |-> FALSE]
NoResume == [next |-> 0, batch |-> Nobody, out |-> Nobody]

NewProcess == [pc |-> "new", args |-> [out |-> Nobody, db |-> FALSE, limit |-> 0],
               batch |-> Nobody, out |-> Nobody, row |-> 0, last |-> 0, known |-> {},
               pages |-> <<>>, item |-> 0]

Launching  == {"create", "write_pid", "read_lock", "unlink", "create_again"}
Collecting == {"load", "open_csv", "row", "append", "item", "bomman", "szlcsc",
               "open_resume", "write_resume"}
Over       == {"new", "refused", "ended", "dead"}

Alive(p)    == proc[p].pc \notin Over
Collects(p) == proc[p].pc \in Collecting

Goto(p, pc) == proc' = [proc EXCEPT ![p].pc = pc]

Init ==
  /\ sheet \in Sheets
  /\ lock = NoLock
  /\ proc = [p \in Processes |-> NewProcess]
  /\ resume = NoResume
  /\ csv = [f \in Files |-> <<>>]
  /\ items = <<>>
  /\ quotes = {}
  /\ raced = FALSE
  /\ stops = 0

-----------------------------------------------------------------------------
(* acquire_lock and release_lock.                                          *)

Launch(p) ==
  /\ proc[p].pc = "new"
  /\ \E a \in Arguments : proc' = [proc EXCEPT ![p] = [@ EXCEPT !.pc = "create", !.args = a]]
  /\ raced' = (raced \/ \E q \in Processes : proc[q].pc \in Launching)
  /\ UNCHANGED <<sheet, lock, output, stops>>

Create(p, here, else) ==
  /\ proc[p].pc = here
  /\ IF lock = NoLock
     THEN lock' = [creator |-> p, written |-> FALSE] /\ Goto(p, "write_pid")
     ELSE UNCHANGED lock /\ Goto(p, else)
  /\ UNCHANGED <<sheet, output, raced, stops>>

CreateLock(p)  == Create(p, "create", "read_lock")
CreateAgain(p) == Create(p, "create_again", "refused")

\* The pid goes into the file that p opened, even if it has been unlinked.
WritePid(p) ==
  /\ proc[p].pc = "write_pid"
  /\ lock' = IF lock.creator = p THEN [lock EXCEPT !.written = TRUE] ELSE lock
  /\ Goto(p, "load")
  /\ UNCHANGED <<sheet, output, raced, stops>>

LockIsStale == ~lock.written \/ ~Alive(lock.creator)

\* Bug: a lock file is stale whoever holds it.
ReadLockBlindly(p) ==
  /\ proc[p].pc = "read_lock"
  /\ Goto(p, "unlink")
  /\ UNCHANGED <<sheet, lock, output, raced, stops>>

ReadLock(p) ==
  /\ proc[p].pc = "read_lock"
  /\ Goto(p, IF LockIsStale THEN "unlink" ELSE "refused")
  /\ UNCHANGED <<sheet, lock, output, raced, stops>>

UnlinkStale(p) ==
  /\ proc[p].pc = "unlink"
  /\ lock' = NoLock
  /\ Goto(p, "create_again")
  /\ UNCHANGED <<sheet, output, raced, stops>>

\* The finally clause of main: the lock file is unlinked, whoever holds it.
Release(p) ==
  /\ proc[p].pc = "release"
  /\ lock' = NoLock
  /\ Goto(p, "ended")
  /\ UNCHANGED <<sheet, output, raced, stops>>

-----------------------------------------------------------------------------
(* main, before the loop.                                                  *)

\* A sheet without rows or without columns ends the launch.  next_index out of
\* range starts anew; a batch or file the resume file does not name is a new one.
LoadResume(p) ==
  /\ proc[p].pc = "load"
  /\ LET a     == proc[p].args
         start == IF resume.next > Len(sheet.rows) THEN 0 ELSE resume.next
         limit == IF a.limit > 0 THEN Min({Len(sheet.rows), start + a.limit}) ELSE Len(sheet.rows)
     IN  IF DetectVendorFields(sheet).part = 0 THEN Goto(p, "release")
         ELSE proc' = [proc EXCEPT ![p] =
                [@ EXCEPT !.pc = "open_csv", !.row = start + 1, !.last = limit,
                          !.batch = IF resume.batch = Nobody THEN p ELSE resume.batch,
                          !.out = CASE a.out # Nobody      -> a.out
                                    [] resume.out # Nobody -> resume.out
                                    [] OTHER               -> p]]
  /\ UNCHANGED <<sheet, lock, output, raced, stops>>

\* Bug: what the file holds is not read, a run knows only its own models.
CompletedModelsForgotten(file) == {}

\* load_completed_models_from_output: two rows of a model, the empty part excepted.
CompletedModels(file) ==
  {m \in {Model(r) : r \in Rows} :
     /\ m.part # NoPart
     /\ Cardinality({i \in DOMAIN csv[file] : csv[file][i].model = m}) >= 2}

\* ensure_output_csv writes a header, which no row count sees; the tables exist.
OpenOutput(p) ==
  /\ proc[p].pc = "open_csv"
  /\ proc' = [proc EXCEPT ![p] = [@ EXCEPT !.pc = "row", !.known = CompletedModels(proc[p].out)]]
  /\ UNCHANGED <<sheet, lock, output, raced, stops>>

-----------------------------------------------------------------------------
(* main, the loop over the rows.                                           *)

\* The row at hand is within the launch's range, and its part is not known.
Pending(p) == proc[p].row <= proc[p].last /\ Model(proc[p].row) \notin proc[p].known

EndRows(p) ==
  /\ proc[p].pc = "row" /\ proc[p].row > proc[p].last
  /\ Goto(p, "release")
  /\ UNCHANGED <<sheet, lock, output, raced, stops>>

SkipRow(p) ==
  /\ proc[p].pc = "row" /\ proc[p].row <= proc[p].last /\ ~Pending(p)
  /\ Goto(p, "open_resume")
  /\ UNCHANGED <<sheet, lock, output, raced, stops>>

\* An empty part number is in no line of a page.
PageFor(m, page) ==
  IF m.part = NoPart THEN [page EXCEPT !.hits = 0, !.word = FALSE, !.priced = FALSE] ELSE page

Query(p) ==
  /\ proc[p].pc = "row" /\ Pending(p)
  /\ \E a \in Answers :
       proc' = [proc EXCEPT ![p] =
         [@ EXCEPT !.pc = "append",
                   !.pages = [s \in Platforms |-> PageFor(Model(proc[p].row), a[s])]]]
  /\ UNCHANGED <<sheet, lock, output, raced, stops>>

\* A row of the file names its page, the saved snapshot.
CsvRow(p, s) == [model |-> Model(proc[p].row), platform |-> s, page |-> proc[p].pages[s],
                 result |-> PlatformResult(proc[p].pages[s]), db |-> proc[p].args.db]

AppendRows(p) ==
  /\ proc[p].pc = "append"
  /\ csv' = [csv EXCEPT ![proc[p].out] = @ \o <<CsvRow(p, "bomman"), CsvRow(p, "szlcsc")>>]
  /\ IF proc[p].args.db
     THEN Goto(p, "item")
     ELSE proc' = [proc EXCEPT ![p] = [@ EXCEPT !.pc = "open_resume",
                                                !.known = proc[p].known \cup {Model(proc[p].row)}]]
  /\ UNCHANGED <<sheet, lock, resume, items, quotes, raced, stops>>

\* supplier_items is unique on the batch, the part as written and the raw stock.
SameItem(i, p) ==
  /\ items[i].batch = proc[p].batch
  /\ items[i].base.part = Base(proc[p].row).part
  /\ items[i].base.raw = Base(proc[p].row).raw

UpsertSupplierItem(p) ==
  /\ proc[p].pc = "item"
  /\ LET same == {i \in DOMAIN items : SameItem(i, p)}
         item == [batch |-> proc[p].batch, base |-> Base(proc[p].row)]
     IN  IF same = {}
         THEN /\ items' = Append(items, item)
              /\ proc' = [proc EXCEPT ![p] = [@ EXCEPT !.pc = "bomman", !.item = Len(items) + 1]]
         ELSE \E i \in same :
                /\ items' = [items EXCEPT ![i] = item]
                /\ proc' = [proc EXCEPT ![p] = [@ EXCEPT !.pc = "bomman", !.item = i]]
  /\ UNCHANGED <<sheet, lock, resume, csv, quotes, raced, stops>>

\* Bug: the second platform's answer takes the place of the first one's.
UpsertMarketQuoteOfItem(p, s) ==
  LET me  == proc[p]
      old == {q \in quotes : q.batch = me.batch /\ q.item = me.item}
      new == [batch |-> me.batch, item |-> me.item, platform |-> s, page |-> me.pages[s],
              result |-> PlatformResult(me.pages[s])]
  IN  quotes' = (quotes \ old) \cup {new}

\* market_quotes is unique on the batch, the item and the platform.
UpsertMarketQuote(p, s) ==
  LET me  == proc[p]
      old == {q \in quotes : q.batch = me.batch /\ q.item = me.item /\ q.platform = s}
      new == [batch |-> me.batch, item |-> me.item, platform |-> s, page |-> me.pages[s],
              result |-> PlatformResult(me.pages[s])]
  IN  quotes' = (quotes \ old) \cup {new}

UpsertBomman(p) ==
  /\ proc[p].pc = "bomman"
  /\ UpsertMarketQuote(p, "bomman")
  /\ Goto(p, "szlcsc")
  /\ UNCHANGED <<sheet, lock, resume, csv, items, raced, stops>>

UpsertSzlcsc(p) ==
  /\ proc[p].pc = "szlcsc"
  /\ UpsertMarketQuote(p, "szlcsc")
  /\ proc' = [proc EXCEPT ![p] = [@ EXCEPT !.pc = "open_resume",
                                           !.known = proc[p].known \cup {Model(proc[p].row)}]]
  /\ UNCHANGED <<sheet, lock, resume, csv, items, raced, stops>>

OpenResume(p) ==
  /\ proc[p].pc = "open_resume"
  /\ resume' = NoResume
  /\ Goto(p, "write_resume")
  /\ UNCHANGED <<sheet, lock, csv, items, quotes, raced, stops>>

\* Bug: the checkpoint of a row names the row after the next one.
WriteResumeTooFar(p) ==
  /\ proc[p].pc = "write_resume"
  /\ resume' = [next |-> proc[p].row + 1, batch |-> proc[p].batch, out |-> proc[p].out]
  /\ proc' = [proc EXCEPT ![p] = [@ EXCEPT !.pc = "row", !.row = proc[p].row + 1, !.pages = <<>>, !.item = 0]]
  /\ UNCHANGED <<sheet, lock, csv, items, quotes, raced, stops>>

WriteResume(p) ==
  /\ proc[p].pc = "write_resume"
  /\ resume' = [next |-> proc[p].row, batch |-> proc[p].batch, out |-> proc[p].out]
  /\ proc' = [proc EXCEPT ![p] = [@ EXCEPT !.pc = "row", !.row = proc[p].row + 1, !.pages = <<>>, !.item = 0]]
  /\ UNCHANGED <<sheet, lock, csv, items, quotes, raced, stops>>

-----------------------------------------------------------------------------
(* Death, at any step, and interruption, which runs the finally clause.    *)

Die(p) ==
  /\ Alive(p) /\ stops < MaxStops
  /\ Goto(p, "dead")
  /\ stops' = stops + 1
  /\ UNCHANGED <<sheet, lock, output, raced>>

Interrupt(p) ==
  /\ Collects(p) /\ stops < MaxStops
  /\ Goto(p, "release")
  /\ stops' = stops + 1
  /\ UNCHANGED <<sheet, lock, output, raced>>

Step(p) ==
  \/ Launch(p) \/ CreateLock(p) \/ CreateAgain(p) \/ WritePid(p) \/ ReadLock(p)
  \/ UnlinkStale(p) \/ Release(p)
  \/ LoadResume(p) \/ OpenOutput(p) \/ EndRows(p) \/ SkipRow(p) \/ Query(p) \/ AppendRows(p)
  \/ UpsertSupplierItem(p) \/ UpsertBomman(p) \/ UpsertSzlcsc(p)
  \/ OpenResume(p) \/ WriteResume(p)

Finished == \A p \in Processes : ~Alive(p) /\ proc[p].pc # "new"

Next ==
  \/ \E p \in Processes : Step(p) \/ Die(p) \/ Interrupt(p)
  \/ Finished /\ UNCHANGED vars

Spec == Init /\ [][Next]_vars

-----------------------------------------------------------------------------
(* Properties.                                                             *)

\* Unless two launches were inside acquire_lock together, at most one collects at a
\* time: a lock left by a death or an interruption is taken over, a held one is not.
OneCollectsUnlessRaced ==
  ~raced => \A p, q \in Processes : Collects(p) /\ Collects(q) => p = q

RowsOf(m, f) == {i \in DOMAIN csv[f] : csv[f][i].model = m}
Recorded(m)  == \E f \in Files : {csv[f][i].platform : i \in RowsOf(m, f)} = Platforms

\* Whatever the resume index skips in the next launch has the answers of both
\* platforms in an output file, across deaths, new batches and other output files.
ResumeNeverSkips == \A r \in 1..resume.next : Recorded(Model(r))

\* Without a race an output file has one row for a part and a platform: a restart
\* knows the parts in it although the death came before their checkpoint.
NoPartAskedTwice ==
  ~raced => \A f \in Files : \A i, j \in DOMAIN csv[f] :
    /\ csv[f][i].model = csv[f][j].model /\ csv[f][i].model.part # NoPart
    /\ csv[f][i].platform = csv[f][j].platform
    => i = j

\* get_latest_supplier_item: the item the quote workflow reads for a part.
LatestItem(m) ==
  LET mine == {i \in DOMAIN items : items[i].base.model = m}
  IN  IF mine = {} THEN 0 ELSE Max(mine)

Stored(m) == {q.platform : q \in {r \in quotes : r.item = LatestItem(m)}} = Platforms

\* The rows of a file precede those of the database: each death or interruption costs
\* the database the answers for one part at most, for good.
LostPartsBounded ==
  Cardinality({m \in {Model(r) : r \in Rows} :
                 /\ \E f \in Files : \E i \in RowsOf(m, f) : csv[f][i].db
                 /\ ~Stored(m)})
    <= stops + Cardinality({p \in Processes : proc[p].pc \in {"item", "bomman", "szlcsc"}})

\* What the quote workflow reads for the latest item of a part and does not send to a
\* manual review, when it has a price, comes from a page with one line about the part.
UnreviewedPriceIsCertain ==
  \A r \in Rows :
    LET read == {q \in quotes : q.item = LatestItem(Model(r))}
    IN  ~ManualReviewNeeded({q.result : q \in read}) =>
          \A q \in read : q.result.priced => q.page.hits = 1 /\ ~q.page.block /\ ~q.page.fails


-----------------------------------------------------------------------------
(* Why they hold: the inductive invariants of VendorCollectProofs.         *)

ProcessFields == {"pc", "args", "batch", "out", "row", "last", "known", "pages", "item"}

\* A process has left "load", and one has put the answers for its row into the file.
Underway == Collecting \ {"load"}
Answered == {"item", "bomman", "szlcsc", "open_resume", "write_resume"}

Shape ==
  /\ DOMAIN proc = Processes
  /\ \A p \in Processes :
       /\ DOMAIN proc[p] = ProcessFields
       /\ proc[p].row \in Nat
       /\ proc[p].pc # "new" => proc[p].args \in Arguments
       /\ proc[p].pc \in Underway => proc[p].out \in Files
  /\ DOMAIN lock = {"creator", "written"}
  /\ DOMAIN resume = {"next", "batch", "out"}
  /\ resume.next \in Nat /\ resume.out \in Files \cup {Nobody}
  /\ DOMAIN csv = Files
  /\ raced \in BOOLEAN

\* The lock file is p's business.
Holding == {"write_pid", "release"} \cup Collecting

\* Without a race one launch at a time is in acquire_lock; who has come through it
\* owns the lock, and who is about to unlink one has nobody to take it from.
LockInv ==
  ~raced =>
    /\ \A p, q \in Processes : proc[p].pc \in Launching /\ proc[q].pc \in Launching => p = q
    /\ \A p \in Processes :
         /\ proc[p].pc \in Holding => lock.creator = p
         /\ proc[p].pc \in Holding \ {"write_pid"} => lock.written
         /\ proc[p].pc \in {"unlink", "create_again"} => \A q \in Processes : proc[q].pc \notin Holding

\* Both platforms' answers for a part are among the rows, in a file.
Complete(rows, m) == \A s \in Platforms : \E i \in DOMAIN rows : rows[i].model = m /\ rows[i].platform = s
OnFile(m)         == \E f \in Files : Complete(csv[f], m)

\* A part in a file is there with both answers.
FilesComplete ==
  \A f \in Files :
    /\ csv[f] \in Seq(Range(csv[f]))
    /\ \A i \in DOMAIN csv[f] : csv[f][i].platform \in Platforms /\ Complete(csv[f], csv[f][i].model)

IndexOnFile == \A r \in 1..resume.next : OnFile(Model(r))

\* What p knows and all before its row is in a file; its row when p has answered it.
RowsOnFile(p) ==
  /\ \A m \in proc[p].known : OnFile(m)
  /\ proc[p].pc \in Underway => \A r \in 1..(proc[p].row - 1) : OnFile(Model(r))
  /\ proc[p].pc \in Answered => OnFile(Model(proc[p].row))

ResumeInv == FilesComplete /\ IndexOnFile /\ \A p \in Processes : RowsOnFile(p)

\* p has asked for its row's part and not checkpointed the row, and it stores the answers.
Asking  == {"append"} \cup Answered
Storing == {"item", "bomman", "szlcsc"}

SheetModels == {Model(r) : r \in Rows}

\* The rows of the files are of parts of the sheet, and so is the row p is at.
RowsInSheet ==
  /\ sheet \in Sheets
  /\ \A f \in Files : \A i \in DOMAIN csv[f] : csv[f][i].model \in SheetModels
  /\ \A p \in Processes :
       /\ proc[p].pc \in Underway => proc[p].row > 0 /\ proc[p].last \in 0..Len(sheet.rows)
       /\ proc[p].pc \in Asking => proc[p].row <= proc[p].last

\* Without a race, who collects knows every part in its file, but for the one whose
\* answers it is storing, and asks for none that it knows.
FileKnown ==
  ~raced => \A p \in Processes :
    /\ proc[p].pc \in Underway \ {"open_csv"} =>
         \A i \in DOMAIN csv[proc[p].out] :
           LET m == csv[proc[p].out][i].model
           IN  m.part # NoPart => \/ m \in proc[p].known
                                  \/ proc[p].pc \in Storing /\ m = Model(proc[p].row)
    /\ proc[p].pc = "append" => Model(proc[p].row) \notin proc[p].known

\* An answer, stored or under way, is what its page was parsed to.
AnswersParsed ==
  /\ \A q \in quotes : q.page \in PageType /\ q.result = PlatformResult(q.page)
  /\ \A p \in Processes : proc[p].pc \in {"append"} \cup Storing => proc[p].pages \in [Platforms -> PageType]

\* Both answers for item i are stored.
Full(i) == \A s \in Platforms : \E q \in quotes : q.item = i /\ q.platform = s

\* The item p stores answers for is of its part, and has the first answer before the second.
ItemsTyped ==
  /\ items \in Seq(Range(items))
  /\ \A i \in DOMAIN items : items[i].base.model = NormalizePartNumber(items[i].base.part)
  /\ \A q \in quotes : q.platform \in Platforms
  /\ \A p \in Processes :
       proc[p].pc \in {"bomman", "szlcsc"} =>
         /\ proc[p].item \in DOMAIN items /\ items[proc[p].item].base.model = Model(proc[p].row)
         /\ proc[p].pc = "szlcsc" => \E q \in quotes : q.item = proc[p].item /\ q.platform = "bomman"

InDatabaseRun(m) == \E f \in Files : \E i \in RowsOf(m, f) : csv[f][i].db

\* What lacks an answer in the database is a part whose storing was stopped, of which
\* there is one for each stop at most, or one whose answers are being stored.
Excused(lost) ==
  /\ \A i \in DOMAIN items :
       \/ Full(i)
       \/ items[i].base.model \in lost
       \/ \E p \in Processes : proc[p].pc \in {"bomman", "szlcsc"} /\ proc[p].item = i
  /\ \A m \in SheetModels : InDatabaseRun(m) =>
       \/ m \in lost
       \/ \E i \in DOMAIN items : items[i].base.model = m
       \/ \E p \in Processes : proc[p].pc = "item" /\ Model(proc[p].row) = m

LossesExcused ==
  /\ stops \in Nat /\ IsFiniteSet({p \in Processes : proc[p].pc # "new"})
  /\ \E lost \in SUBSET SheetModels :
       IsFiniteSet(lost) /\ Cardinality(lost) <= stops /\ Excused(lost)

OneInv    == Shape /\ LockInv
SkipInv   == Shape /\ ResumeInv
AskedInv  == OneInv /\ FilesComplete /\ RowsInSheet /\ FileKnown /\ NoPartAskedTwice
ParsedInv == Shape /\ AnswersParsed
LossInv   == Shape /\ FilesComplete /\ RowsInSheet /\ ItemsTyped /\ LossesExcused
=============================================================================
