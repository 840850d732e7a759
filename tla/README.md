# A TLA+ model of spidererp

The repository is a small ERP companion: it collects prices (the ST crawl, the
vendor platform collector, a web crawler), keeps inventory and price tables,
decides quotes from them, and works through quote requests with a queue of
tasks. Everything that coordinates does so through SQLite tables and plain
files, by processes an operator or a bridge starts: there is no broker and
almost no locking, so the order of reads, commits and file writes is what makes
the system right or wrong. That order is what these modules model.

## Inventory

| Component | State it keeps | Operations | What is hard | What makes it correct |
|---|---|---|---|---|
| Quote task queue and dispatcher (`task_queue.py`, `dispatch_quote_task.py`, `decision_writer.py`) | `quote_tasks`, `quote_task_events`, `pricing_decisions` | enqueue; take the next task of a stage; claim; run the stage; mark the stage, completed or failed | every function commits on its own; running tasks are handed out again; work uses the row as read before the claim; processes die | work is exclusive, stages only advance, evidence and decision survive and agree, every transition leaves an event, every task ends |
| Pricing decision (`quote_orchestrator.py`, `erp_reader.py`, `market_reader.py`, `qq_reply_agent.py`, `qq_first_round_agent.py`) | none of its own; reads tables and two CSV files, stores decisions | build the quote context; compute the decision; reply from a stored or a fresh decision | inputs are read one after the other while they change; zero, none and empty are told apart in different ways | no automatic quote below a boundary but for its rounding to four decimals; overrides and guardrails are obeyed |
| ERP import, override and guardrail refresh | `erp_inventory`, the override and the guardrail file | import a workbook; regenerate overrides; smoke check; regenerate guardrails | files are emptied, then written; refreshes overlap; a refresh dies half way | manual rows win; after a whole refresh both files follow the ERP |
| ST price crawl (`st0306_st_task.py`) | lock file, resume file, done-models file, result files | acquire and release the lock; fetch; save results; checkpoint | launches race; deaths between any two file operations; the list shrinks while an index points into it | one run at a time; nothing skipped; little lost; no lock left |
| Crawl launchers (`run_*.ps1`) | none | start the crawl with fixed options | which options go together | see the ST crawl |
| Vendor platform collector (`vendor_platform_price_collect.py`, `supplier_reader.py`, `market_reader.py`) | lock file, resume file with batch and output file, output CSV files, `supplier_items`, `market_quotes` | per row of the sheet: query two platforms, append to the CSV, upsert item and quotes, checkpoint | the CSV decides what is completed and the database is written after it; launches race, die and change command lines | one collects at a time; nothing skipped without an answer; nothing asked twice; a death costs the database one part; a price that needs no review is certain |
| Samples: dedupe, review, training queue (`sample_service.py`, `dedupe_service.py`, `rules_service.py`, `trace_service.py`) | `samples`, `job_runs.total_duplicate`, `training_queue_items`, `audit_logs` | create, mark duplicate, review, approve, reject, send to training, delete a job | sessions overlap, check-then-act; two database engines with different promises; ids used again | one primary per lead; counters add up; the audit tells the status; only approved samples are queued, once |
| Rules, jobs, runs, configuration (`domain_service.py`, `rules_service.py`) | `rules`, `rule_versions`, links from samples and queue items | create, update, snapshot, delete, link | version number computed from what was read; ids used again; deletion under open requests | the newest version is the rule; a history is one rule's; no link outlives its rule |
| Web crawler (`app/crawler`, `crawler_service.py`, `crawler_routes.py`) | one service, and per domain the time of the last slot | robots check, limiter, fetch with retries, parse | requests make the service and sleep outside the lock concurrently | fetches of a domain are spaced by the delay as far as threads wake in time, waits bounded; failures have a reason; the preview is the page; every preview ends |
| Dashboard build and data cleaning (`build_profit_radar.py`, `clean_lc_data_quality.py`) | `parts_pricing`, the override file, the page; `localStorage` | clean, build; in the page: edit quotes and rates, import, save, memos | scripts in any order; windows share the storage; missing, empty and 0 are told apart by JavaScript's rules | page and table agree; both currencies agree; saving and reloading changes nothing |
| API, templates, database set-up; pipeline commands and views; earlier fetch scripts | - | - | - | not modelled: no protocol of their own |

They interact through the database and the files only: the import feeds the
refresh; the refresh writes what the orchestrator reads; the vendor collector
fills the tables its readers hand to the orchestrator; the dispatcher calls the
orchestrator as the work of its stages and stores its decisions; the
first-round agent answers from the stored decisions; the crawl's prices end in
`parts_pricing`, which the orchestrator, the crawl's own skip filter and the
dashboard read. Samples and rules share tables and sessions.

## Modules

| Module | Models |
|---|---|
| `QuoteTasks` | the queue and its dispatchers, one action per commit |
| `QuoteTaskLife` | the abstract life of a task that the queue implements |
| `QuoteDecision` | the pricing decision as pure operators |
| `QuoteRefresh` | import, refresh, orchestrator and first-round agent interleaved; EXTENDS `QuoteDecision` |
| `STCrawl` | the ST crawl: lock, resume, results |
| `VendorParse` | what the vendor collector makes of a sheet and of a platform's page |
| `VendorCollect` | its launches, files and tables; EXTENDS `VendorParse` |
| `DedupeKey` | normalisation and dedupe keys of samples |
| `Samples` | samples, review, training queue under overlapping requests; EXTENDS `DedupeKey` |
| `Rules` | rules, versions and links under overlapping requests |
| `CrawlParse` | extraction, confidence and deduplication of a page's records |
| `CrawlerFetch` | service, limiter, retries and clock of the previews; EXTENDS `CrawlParse` |
| `RadarData` | cleaning of `parts_pricing` and the data of the page |
| `Dashboard` | scripts, page and browser windows; EXTENDS `RadarData` |
| `QuoteTasksProofs`, `QuoteRefreshProofs`, `STCrawlProofs`, `VendorCollectProofs`, `SamplesProofs`, `RulesProofs`, `CrawlerFetchProofs`, `DashboardProofs` | the theorems about the module each is named after |
| `MC...` | instances for TLC |

### QuoteTasks

`tasks`, `decisions` and `logged` are the three tables (`logged` as a set of
transitions per task: nothing reads the order of events). `job[w]` holds what a
dispatcher process keeps in its locals: the task it took, the row as read
(`snap`), the stage to log from, the outcome to mark. A dispatcher goes
`RunStage` / `RunStageOfTask` / `RunNext`..`ScanFinds` (fetch) → `ClaimRead`,
`ClaimWrite`, `ClaimLog` (`mark_task_running`) → `BuildEvidence`,
`WriteDecision` or `BuildReply` (`_run_stage`) → `MarkRead`, one of
`MarkTaskStage`, `MarkTaskCompleted`, `MarkTaskFailed`, then `MarkLog`. Each is
one statement with its commit, and `Crash` may take a process between any two.
What a stage computes is a member of `Quotes`; the decision it leads to carries
it, which is all that the properties tell apart. Decision 0 is SQL NULL.

### QuoteDecision and QuoteRefresh

`QuoteDecision` translates `compute_decision_stub`, the override and guardrail
lookups and the context they work on, with prices in `Nat \cup {None}`: the
value that is missing is told from the value 0 exactly where the code does,
by Python truth or by `is None`. A price counts units of which `Grain` make
0.0001, and `Round4` is the rounding to four decimals, half to even, that the
code applies to a quote after it has been raised to the floor and the minimum; a
boundary that is finer than 0.0001 is therefore missed by at most half of it
(`Respects`). `QuoteRefresh` runs them on state: `ImportErp`
replaces the rows of the part; a refresh goes `StartRefresh`, `LoadErpRows`,
`OpenOverrides`, `WriteOverrides`, `ReadRows`, `CheckRow` for each row,
`OpenGuardrails`, `WriteGuardrails`, and may die at any of them
(`CrashRefresh`); the orchestrator reads the ERP (`AskForQuote`), the override
(`ReadOverride`) and the guardrails (`Decide`) in three steps. Several refreshes
may be under way at once, for nothing keeps a second one from starting. Three
variables are history: `torn`, a refresh has died while it wrote the overrides
or read them while another wrote; `refresh[r].fresh`, it has had the files and
the present ERP to itself so far; `settled`, the files come from such a refresh.
The model is of one part: parts do not influence each other in any of these programs.

### STCrawl

A process is one launch. `lock` is the lock file: who created it and whether
the pid has been written; `resume`, `done`, `json`, `csv` are the files, empty
from opening to closing, because the code rewrites them in place. The result
files are named by the second in which a launch has taken the lock (`stamp[p]`),
so `json` and `csv` are given per second: two launches that get through
`acquire_lock` within one write over each other's results, and a property about a
launch's results is about one that is `Alone` under its name. `Launch`,
`CreateLock`, `WritePid`, `ReadLock`, `UnlinkStale`, `CreateAgain` are
`acquire_lock`; `Prepare`, `Fetch`, `OpenJson`..`WriteCsv`, `OpenIndex`..`WriteDone`
the loop of `run`, with the pause after too many errors in a row; `ReleaseRead`
and `ReleaseUnlink` are `release_lock`; `Abort` is an exception that leaves the
loop, `Die` the end of a process anywhere. `flow` says which of the filters the
launches use. `os.kill(pid, 0)` is given its POSIX meaning, and pids are not
reused. `ImportPrice` stands for the step outside `src` that takes saved prices
over into `parts_pricing`.

### VendorParse and VendorCollect

`VendorParse` is pure: the choice of the columns, the stock beside or inside a
cell, the parsed stock with its confidence; the status and confidence a page
gets, and what `summarize_market_quotes` asks to be reviewed. A cell is a part,
a spelling and stock facts; a page is what the regular expressions find in it.

`VendorCollect` walks a sheet with it. A process is one launch: `CreateLock`..
`UnlinkStale` and `Release` are `acquire_lock` and `release_lock`; `LoadResume`,
`OpenOutput` the part of `main` before the loop; `SkipRow`, `Query`, `AppendRows`,
`UpsertSupplierItem`, `UpsertBomman`, `UpsertSzlcsc`, `OpenResume`, `WriteResume`
the loop, one file operation or commit each; `Die` and `Interrupt` come anywhere.
The name of a new batch or output file is the launch that began it.

### DedupeKey and Samples

`DedupeKey` normalises addresses, names and URLs and picks the key of a sample;
a URL is a record of its parts, a text its words and its case. In `Samples` a
request `Begin`s, may look something up, and commits. `req[r]` is what its
session has read. `engine` is chosen at the start: on SQLite the first write
locks the whole file, foreign keys are not enforced and the id of the last row
is used again; on PostgreSQL only committed rows are seen, foreign keys are
enforced and ids are new. `audit` is a sample's newest entry by `event_time`,
which is what the readers show: the time is taken when the entry is built, before
the flush, so an entry in `overtaken` is older than one that was committed before
it (`Log`). Ties of the clock are left out. `births` and `raced` are history: which
creation a row is, and what two open requests worked on at once. A property
"unless raced" still
forbids the deviation in every sequence of requests, however long, in which
that one id or key is not worked on twice at once.

### Rules

The same two engines and sessions, for `rules`, `rule_versions` and what links
to them. SQLAlchemy's unit of work is modelled by `Written`: a commit writes only
the columns that differ from what the session has read.

### CrawlParse and CrawlerFetch

`CrawlParse` gives the records of a page, their confidence and what is left of
them after `dedupe_records`. In `CrawlerFetch` each preview is a thread:
`CheckService`, `MakeService`, `TakeService` are `get_crawler_service`, which
holds no lock; `CheckRobots`; `Acquire` hands out a slot under the limiter's
lock, and the thread sleeps until `Wake`; `Fetch` is an answer without page,
with its backoff; `Show` a page. `Tick` is the clock, in half seconds: it passes while a thread
sleeps, who may sleep on after its time has come, and otherwise up to `Horizon`.
`started` is history, the fetches that have begun with their slot and their time;
`remade` says that a service was made although there was one.

### RadarData and Dashboard

`RadarData` is the SQL and Python of cleaning and build. `Dashboard` puts it
between a crawl (external), an override file that is edited, and windows of one
browser with the inventory and the TP tab. A handler of the page is one step.
`Nothing` is null and the empty field, `Absent` an undefined one. Prices are
integers: inputs are chosen so that each conversion divides exactly.

## Runs

| Run | Expected | What it shows | Bounds |
|---|---|---|---|
| `quote_stage_workers` | pass | one worker per stage, as documented: exclusive work, loss bounded by deaths, implements `QuoteTaskLife` (a task's stage only advances), every task ends | 2 tasks (two are needed for one to overtake the other), 3 workers, 3 decisions, 1 death |
| `quote_dispatchers` | pass | two dispatchers of every stage on one task: evidence kept and consistent with the decision | 1 task (rows do not interact), 2 decisions, so a stale decision exists |
| `quote_refresh` | pass | no automatic quote below a boundary, but for its rounding, whatever mixture of old and new it reads; manual rows win until a refresh is torn; after a whole refresh that no other overlapped both files follow the ERP | 2 refreshers, 2 refreshes, 2 imports, 1 death, 1 quote, asked for before the second refresh begins; 5 workbooks, 4 fact sets, 5 manual files; `Grain` 2, so that prices are on it or halfway, to be rounded up and down |
| `refresh_guard` | violated | a guardrail of a row without quantity hands off everything | 1 import, 1 refresh |
| `st_crawl` | pass | no skipped model without filters, bounded loss of a launch that is alone under its second, lock recovered and released | 2 launches, 2 seconds, 3 models, results saved with every second, pause after 2 errors, 1 death |
| `st_resume` | violated | with the skip filter the index skips untried models | 2 launches, no death |
| `vendor_collect` | pass | one collects unless raced, nothing skipped or asked twice, one part lost per death at most, unreviewed prices are certain | 2 launches, 4 sheets (two columns with a repeated part, inline stock with a blank row, no stock header, empty), 3 command lines, 1 death or interruption |
| `samples` | pass | what of the workflow, the newest audit entry by `event_time` included, survives any overlap, and what holds until two requests overlap on one sample, key or run | 2 requests at a time, 5 in all, 2 jobs, 3 samples, 3 pages (one lead in two spellings, one page without key), both engines |
| `samples_queue` | violated | a queue item outlives its sample, and may get another one | 4 requests, 2 samples, SQLite |
| `rules` | pass | newest version, history and links are the rule's own, save under the overlap that explains it | 2 requests at a time, 6 in all, 3 rules, 5 versions, 1 sample, 1 queue item, both engines |
| `crawler_fetch` | pass | spacing of the fetches themselves, late ones included, bounded wait, retries, records, every preview ends | 2 previews, 3 calls (one domain in two spellings, another domain), 0 or 1 retries, delay 2, two start times, `Horizon` 3 |
| `dashboard` | pass | page and table agree, currencies agree, reload changes nothing | 3 crawls, scripts, edits or saves in any order besides opening and loading, 2 windows, 2 tables, 2 override files, 2 stored inventories |

Why these bounds are enough. The numbers of the code (10 models a save, 10
errors to a pause) only shift when a step happens; 2 makes the same order of
saves and checkpoints happen within three models, with the last model both on
and off a save. Overlap is a matter of pairs: each check-then-act of the services
is between two sessions, and a third only repeats it; the bounds on requests leave
room to create, to overlap and to delete and create again under the same id.
In the limiter, two threads already reorder their slots, and with a retry each
asks twice. In the dashboard three steps suffice to edit, save and change under
another window; what a window shows depends on its own rows only.

Deadlock is checked in `vendor_collect` and `dashboard`; elsewhere it is not: the
programs end, or the bound on requests is reached. A violated run is a place
where code and documents disagree; `findings` in `PROJECT.json` quotes both sides.

Disagreements that were met while modelling and are not kept as runs: a stale
claim moves a task back, and run-next does not take the oldest task
(`QuoteTasks` with two dispatchers); a death between UPDATE and event leaves a
gap in the timeline (bounded by `LogLossBounded`); a refresh that reads the
overrides while another writes them loses the manual rows (`torn`); the
first-round agent answers from a stored decision whatever guardrails came
later; two launches that both find a stale lock both run (in both crawls; the
vendor's property says "unless raced" for it); two launches of the ST crawl that
do so within one second name the same result files and overwrite them
(`st0306_st_task.py:434`); of two overlapping decisions about a sample the newest
audit entry may tell the one that did not last (`audit_service.py:30`); a floor with
more than four decimals is undercut by the rounding of the quote
(`quote_orchestrator.py:143`); the cleaning report says "Keep both `recent_orders`
and `lc_recent_orders_extracted` synchronized" (`clean_lc_data_quality.py:106`), but
outside the overrides each column is clamped by itself; a rule's deletion leaves the ids
of its versions in samples, and SQLite gives them out again; the dashboard's
global rate leaves customer quotes unconverted.

**Fairness.** Two runs have a liveness property. `EveryTaskFinishes`
(`quote_stage_workers`) has weak fairness on `Dispatch(w)`, the steps of each
worker: a started process runs on, and the operator's loop or schedule starts
the worker of each stage again. `EveryPreviewEnds` (`crawler_fetch`) has weak
fairness on `Run(p)`, for the server schedules its threads and a fetch ends by its
timeout, and on `Tick`, for time passes. Deaths are bounded, never fair, and no
fairness is put on the arrival of tasks or requests.

## Proofs

Every property of a passing run is a theorem for all values of the constants,
but for the two liveness properties. The proofs assume the `ASSUME`s of the
modules and nothing else, save that `WorkIsExclusive`, `OrphansBounded` and
`LifeImplemented` are about the documented deployment, `OneWorkerPerStage`.
Almost none of the properties is inductive: programs
write what they read several commits before. Each proof therefore rests on an
inductive invariant, defined at the end of the module it is about, that says
what every process' locals can still be relied on for.

| Theorem | States | Inductive invariant |
|---|---|---|
| `QuoteTasksProofs` `TypeCorrect`, `EvidenceSafe`, `DecisionSafe`, `EvidenceDecisionSafe` | `TypeOK`, `EvidenceBeforeProgress`, `DecisionOwned`, `EvidenceAgreesWithDecision` | `IInv` |
| `WorkIsExclusive` | `ExclusiveWork` | `IInv`, `ServeInv` |
| `OrphansBounded`, `LifeImplemented` | `OrphanDecisionsBounded`, `ImplementsLife` | `IInv`, `ServeInv`, `LifeInv` |
| `LogLossIsBounded` | `LogLossBounded` | `LogInv` |
| `QuoteRefreshProofs` `TypeCorrect`, `QuotesKeepBoundaries` | `TypeOK`, `AutoQuoteWithinBoundaries` | `IInv` |
| `ManualRowsStay` | `ManualRowsWin` | `ManualInv` |
| `OverridesFollow`, `GuardrailsAgree` | `OverridesFollowErp`, `GuardrailsInSync` | `SyncInv` |
| `STCrawlProofs` `TypesHold` | `TypeOK` | `TypeInv` |
| `StaleLockRecovered`, `LastOneReleases` | `StaleLockNeverBlocks`, `LockReleased` | `LockInv` |
| `IndexSkipsNothing` | `ResumeNeverSkips` | `ResumeInv` |
| `LittleIsLost` | `LostResultsBounded` | `LossInv` |
| `VendorCollectProofs` `OneCollects` | `OneCollectsUnlessRaced` | `OneInv` |
| `SkippedIsRecorded` | `ResumeNeverSkips` | `SkipInv` |
| `NothingAskedTwice` | `NoPartAskedTwice` | `AskedInv` |
| `LossIsBounded` | `LostPartsBounded` | `LossInv` |
| `UnreviewedIsCertain` | `UnreviewedPriceIsCertain` | `ParsedInv` |
| `SamplesProofs` `OnePrimary`, `CounterIsExact`, `AuditIsTrue`, `QueueIsApproved`, `SentIsOnce` | `OnePrimaryPerLead`, `CounterExact`, `AuditTellsStatus`, `QueueHoldsApproved`, `SentOnce` | `IInv` |
| `RulesProofs` `NewestIsRule`, `OwnHistory`, `LinksAreLive` | `NewestVersionIsRule`, `HistoryIsItsOwn`, `LinkIsLive` | `IInv` |
| `CrawlerFetchProofs` `FetchesAreSpaced` | `FetchesSpaced` | `SpacingInv` |
| `WaitsAreBounded` | `WaitBounded` | `WaitingInv` |
| `FailuresHaveAReason` | `FailsForAReason` | `FailureInv` |
| `PreviewsShowThePage` | `PreviewIsThePage` | `Shape` |
| `DashboardProofs` `PageShowsDb` | `RebuiltPageShowsDb` | `DataInv` |
| `QuotesConvert` | `CurrenciesAgree` | `TablesInv`, `InventoryInv` |
| `ReloadKeeps` | `ReloadShowsTheSame` | `InventoryInv` |

**QuoteTasks.** Until a worker has done its work (`SnapshotOK`), what its
snapshot has, the row still has, for nothing ever removes evidence or a
decision; afterwards (`OutcomeOK`) the outcome holds what the stage it leads to
needs, with decisions written for this very task. Tables only grow (`Grows`), so
these facts survive the steps of others (`JobKept`, `RowKept`). That much holds
for any `Serves`. With one worker per stage, `ServeInv` adds that the row a
process holds stays at the stage it serves: nobody else may move it, so a
running task that is handed out again goes to nobody who could take it. Then
(`LifeInv`) what a process has read of its row is what the row says, and every
step is a step of `QuoteTaskLife` or a stutter; and a decision that no task
names takes a death. `LogInv` counts: `Promised` is what a timeline reaches
once the calls about its task have logged, and a step makes a task `Damaged`
only when it is a `Crash`.

**QuoteRefresh.** `ManualInv`: a file, and the rows a refresh is about to write,
hold the manual rows in front and generated rows behind (`Whole`), or have lost
all of them (`Bare`), which without a tear happens only between emptying and
writing. `SyncInv` follows one refresh that has the files to itself (`FreshOK`): the
rows it is to write follow the ERP, the rows it has checked are guarded, and the
guardrails it has found are justified. `TypeOK` is about rows their readers
understand, so the decision operators get arguments they are defined on through
torn writes too. The attempts at these proofs corrected the properties: `torn`
took the place of "nobody has died", a manual row without a price keeps the ERP's
row out (`LeftToManual`), and of the lines of one stock the workbook's grouping
decides which counts (`ErpGroups`).

**STCrawl.** `LockInv`: a process that lives was seen by every launch still
under way (`RivalsSeen`), and a lock belongs to a process that got past creating
it and has not come past `release_lock` (`LockOwned`). A lock that stops a
launch is therefore a rival's, or a dead process's, which `ReadLock` takes for
stale; what appears after `UnlinkStale` is again a rival's (`RefusedByRival`).
`ResumeInv`: without filters every list is a tail of the workbook, and all
before its position has been tried; so the index, whoever writes it, and
whichever run starts from it, counts tried models only. `LossInv`: outside a save
both files have all full batches, during a save one of them does (`FilesHave`),
as long as nobody else has come to their name (`Alone`, in `ResultsKept`), which leaves less than `SaveEvery` models (`BatchNext`, `LossBound`). `TypeInv`:
the position of a run is in its list, filtered or not.

**VendorCollect.** `LockInv`: as long as nobody raced, at most one launch is in
`acquire_lock`, the lock is the property of whoever has come through it and has
not released it, and who is about to unlink it knows that nobody holds it; the
last part is why a dead owner's lock can be taken over. `ResumeInv`: every model
in a file is there with both answers (`FilesComplete`, `AppendTwo`), and what a
process knows, what comes before its row, and what comes before the index is in
a file; files only grow, so it does not matter who holds the lock. `FileKnown` is
the converse, and needs it: who collects knows every part of its file but the one
it is storing. `LossesExcused`: there is a set of at most one part per stop that
accounts for every item without both answers and every part on file without an
item, besides those being stored. `AnswersParsed`: what is stored is what
`PlatformResult` made of some page, about which the property is a case analysis.

**Samples and Rules.** `RequestOK`, `ReadOK` and `RunRead`: what an open request
has read is what the row says, unless the row's id, key or run has been raced for;
`Races`: two open requests that touch one thing have raced for it, so a commit
can only invalidate what is marked. In `Rules`, `HistoryOK` keeps versions empty
for an id that stands for no rule, which is what SQLite's reuse of ids needs, and
`PostgresKeepsIds` is why it does not matter there. In `Samples`, `NamesOK` ties
a creation to its id, `KeysOK` says when a key is still free to take, and `RunsOK`
excepts runs whose job two requests raced to delete (`Spoiled`). `OvertakenRaced`:
only a request about a sample that another has worked on is overtaken, so without a
race the entry committed last is the newest. The proof found
that on SQLite a mark that overlaps a deletion can give a key to another sample,
one with the deleted one's id: `OnePrimaryPerLead` names that case.

**CrawlerFetch.** `OneService`: unless one was made twice, all that work and all
fetches that have begun have the same service. `SlotsApart`: no slot, waited for or
fetched in, is later than what the limiter keeps for its domain, so the next one is
a delay after all of them (`AcquireStep`), and no fetch begins before its slot; the
second of two fetches thus begins a delay after the slot of the first, which is the
delay less the first one's lateness after its beginning. `SlotsChained`: slots that have
not come are a chain of sleepers, a delay from link to link; a wait of `n` delays
is thus one of `n` sleepers, for any number of threads. `AttemptsCounted`: a
backoff is followed by an attempt. `PreviewIsThePage` needs what the loops of
extraction and `dedupe_records` keep (`DedupeKeeps`), for pages of any length.

**Dashboard.** `DataInv`: a cleaned table that is cleaned again stays the same,
with repeated models and override lines in any order (`OnlyKeeps`, `LastPlace`),
and a page is current as long as it is built from it. `TablesInv` and
`InventoryInv`: rows of a table and of an inventory have numbers and a rate that
counts, and both currencies agree under it, unless the global rate was changed
under quotes of customers (`rated`). Reloading is normalising a shown row, and a
shown row is a fixed point of it. `ExactAssumption` says that the prices in use
divide by the rates in use: the page computes in floating point, whose rounding
is not modelled.

Lists are computed by recursive functions, and what these return for every list is
proved by the least counterexample: `LessWF` with the library's `WFMin` gives a
least length for which the claim fails, in first-order form. The provers know
nothing of `SelectSeq`, so list comprehensions are loops here, as in the code.

Out of the prover's reach and model-checked only: `EveryTaskFinishes` and
`EveryPreviewEnds`, which need fairness and ENABLED. The three violated properties
are shown by counterexample.

TLC has checked each inductive invariant on the instances of the runs.

## What is not modelled

Wording, JSON shapes and confidence numbers of decisions; a rule version that
the client itself names when it creates a sample (`sample_service.py:18`); fuzzy part matching;
reading of workbooks; the ST crawl's page handling and rate limit,
`--only-model`, `--limit` and the failed-models file; the launchers that rebuild
their workbook; the order of two events in a timeline; the vendor collector's
browser and snapshots; what a regular expression matches (a page is given as what
they find in it); edits of a training queue item; jobs, runs and configuration,
whose writes are of one row each; blanks inside of a mail address; the refusal
to keep a memo without models (here it may be kept); the dashboard's search, sorting, margins and
rounding. `os.kill` is given its POSIX meaning and no pid is used again. The HTTP
API, templates, database set-up, the read-only views and one-shot pipeline
commands and the earlier fetch scripts have no protocol of their own.

## Plan

Done: all modules of the table, and theorems for every safety property of the
passing runs. What is left, in this order:

1. Properties for the hazards that have none: a stored decision that is used for
   another quantity (`qq_first_round_agent.py`), two vendor rows whose part numbers
   normalise to one, the vendor collector's test for a refusal that comes after
   its early return, and chains of duplicates (`dedupe_service.py`).
2. Abstract specifications of the workflow of a sample and of the history of a
   rule, which the modules implement unless raced.
3. The safety half of the two liveness properties: a variant that every step of
   `Dispatch(w)` or `Run(p)` decreases, as an action property.
