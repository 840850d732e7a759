---------------------------- MODULE QuoteRefresh ----------------------------
(***************************************************************************)
(* The inputs of a quote while they change: the ERP import                 *)
(* (import_erp_contents.py), the refresh of the override and guardrail     *)
(* files (generate_quote_first_round_overrides_from_erp.py with            *)
(* run_quote_override_smoke_check.py and generate_quote_handoff_           *)
(* guardrails.py), a desk that runs the orchestrator on them, and the      *)
(* first-round agent (qq_first_round_agent.py), which answers from the     *)
(* decision stored last.                                                   *)
(*                                                                         *)
(* Nothing locks the two files.  open(..., "w") empties a file before its  *)
(* rows are written: a reader in between sees no rows, and a process that  *)
(* dies in between leaves none.                                            *)
(***************************************************************************)
EXTENDS QuoteDecision, FiniteSets, SequencesExt

CONSTANTS
  Quantities,  \* quantities customers ask for, 0 when they name none
  Workbooks,   \* what the ERP workbook can say of the part: sequences of rows
  FactSets,    \* what supplier, market, trader, product and parts tables say
  ManualRows,  \* override files an operator has written: sequences of rows
  Refreshers,  \* processes that refresh the files (operator, bridge route)
  MaxImports,  \* bound: ERP imports
  MaxRefreshes,\* bound: refreshes started
  MaxCrashes,  \* bound: refreshes that die
  MaxAsks      \* bound: runs of the orchestrator

-----------------------------------------------------------------------------
(* What the tables and the two files can hold.                             *)

Prices == Nat \cup {None}

\* A row of the workbook: "apply" a price to be applied for, "inverted" a
\* floor above the sale price.
Lines == [stock : Prices, floor : Prices, standard : Prices, taxed : Prices,
          status : SUBSET {"apply", "inverted"}]

FactRows == [supplied : BOOLEAN,
          item     : [erpOnly : BOOLEAN, stock : Nat, parsed : BOOLEAN, lowConfidence : BOOLEAN,
                      market : SUBSET [price : Prices, review : BOOLEAN]],
          trader   : Prices,
          product  : [found : BOOLEAN, floor : Prices, normal : Prices, minAuto : Prices],
          parts    : [found : BOOLEAN, floor : Prices, normal : Prices]]

OverrideRows ==
  [min : Prices, max : Prices, price : Prices, generated : BOOLEAN]

ASSUME QuantitiesAssumption == Quantities \subseteq Nat /\ 0 \in Quantities
ASSUME TablesAssumption ==
  /\ Workbooks \subseteq Seq(Lines)
  /\ FactSets \subseteq FactRows
  /\ ManualRows \subseteq Seq({row \in OverrideRows : ~row.generated})
ASSUME BoundsAssumption ==
  MaxImports \in Nat /\ MaxRefreshes \in Nat /\ MaxCrashes \in Nat /\ MaxAsks \in Nat

VARIABLES
  erp,        \* table erp_inventory: the rows of the part
  facts,      \* the other tables; nothing here writes them
  manual,     \* the manual rows the operator wrote (history)
  overrides,  \* quote_first_round_overrides.csv
  guardrails, \* quote_first_round_handoff_guardrails.csv
  refresh,    \* the local state of every refresh process
  desk,       \* the local state of a running orchestrator
  decided,    \* the orchestrator's last decision and what it read (history)
  stored,     \* pricing_decisions: the row of the part with the highest id
  reply,      \* the first-round agent's last reply
  torn,       \* a refresh died writing the overrides, or read them meanwhile (history)
  settled,    \* the files come from one whole refresh of the present ERP, which
              \* no other refresh overlapped (history)
  imports, refreshes, crashes, asks

vars == <<erp, facts, manual, overrides, guardrails, refresh, desk, decided, stored,
          reply, torn, settled, imports, refreshes, crashes, asks>>

sources == <<erp, facts, manual>>
desks   == <<desk, decided, stored, reply>>
counts  == <<imports, refreshes, crashes, asks>>

\* fresh: it has read the present ERP, and no other refresh has run since (history).

IdleRefresh == [pc |-> "idle", rows |-> <<>>, found |-> <<>>, fresh |-> FALSE,
                guard |-> FALSE]
IdleDesk    == [pc |-> "idle", qty |-> 0, store |-> FALSE,
                ctx |-> ErpContext(<<>>, [found |-> FALSE, floor |-> None, normal |-> None,
                                          minAuto |-> None],
                                   [found |-> FALSE, floor |-> None, normal |-> None]),
                override |-> NoOverride]
NothingDecided == [asked |-> 0, decision |-> NoDecision, ctx |-> IdleDesk.ctx,
                   override |-> NoOverride]
NoReply        == [qty |-> 0, action |-> "none", price |-> None]

Context == ErpContext(erp, facts.product, facts.parts)

Init ==
  /\ erp = <<>>
  /\ facts \in FactSets
  /\ manual \in ManualRows
  /\ overrides = manual
  /\ guardrails = <<>>
  /\ refresh = [r \in Refreshers |-> IdleRefresh]
  /\ desk = IdleDesk
  /\ decided = NothingDecided
  /\ stored = NoDecision
  /\ reply = NoReply
  /\ torn = FALSE
  /\ settled = FALSE
  /\ imports = 0
  /\ refreshes = 0
  /\ crashes = 0
  /\ asks = 0

-----------------------------------------------------------------------------
\* import_erp_contents: DELETE and INSERTs in one transaction.
ImportErp ==
  /\ imports < MaxImports
  /\ imports' = imports + 1
  /\ erp' \in Workbooks \ {erp}
  /\ settled' = FALSE
  /\ refresh' = [r \in Refreshers |-> [refresh[r] EXCEPT !.fresh = FALSE]]
  /\ UNCHANGED <<facts, manual, overrides, guardrails, desks, torn, refreshes, crashes, asks>>

-----------------------------------------------------------------------------
(* generate_rows: the file's manual rows, then one row per distinct ERP    *)
(* row with a taxed price, for exactly the stock's quantity.  Rows that    *)
(* differ in nothing a reader looks at are one row here.                   *)

\* The rows that no refresh has generated, in their order.
KeepManual(rows) ==
  LET kept[n \in 0 .. Len(rows)] ==
        IF n = 0 THEN <<>>
        ELSE IF rows[n].generated THEN kept[n - 1]
        ELSE Append(kept[n - 1], rows[n])
  IN  kept[Len(rows)]

\* Of the lines that differ in their stock only, the one with the most stands
\* for their group.
SameGroup(line, other) == [other EXCEPT !.stock = line.stock] = line

ErpGroups(book) ==
  LET priced == {line \in ToSet(book) : line.taxed # None}
  IN  {line \in priced :
         \A other \in priced : SameGroup(line, other) => other.stock <= line.stock}

GeneratedRow(group) ==
  [min |-> group.stock, max |-> group.stock, generated |-> TRUE,
   price |-> IF Truthy(group.taxed) THEN group.taxed ELSE None]

SameKey(row, other) == row.min = other.min /\ row.max = other.max

\* Bugs: old generated rows are kept; generated rows go first.
GenerateRowsKeepingAll(existing, book) ==
  existing \o SetToSeq({g \in {GeneratedRow(group) : group \in ErpGroups(book)} :
                          \A row \in ToSet(existing) : ~SameKey(row, g)})

GenerateRowsErpFirst(existing, book) ==
  SetToSeq({GeneratedRow(group) : group \in ErpGroups(book)}) \o KeepManual(existing)

GenerateRows(existing, book) ==
  LET kept == KeepManual(existing)
  IN  kept \o SetToSeq({g \in {GeneratedRow(group) : group \in ErpGroups(book)} :
                          \A row \in ToSet(kept) : ~SameKey(row, g)})

-----------------------------------------------------------------------------
(* One refresh, step by step.                                              *)

StartRefresh(r, guard) ==
  /\ refresh[r].pc = "idle"
  /\ refreshes < MaxRefreshes
  /\ refreshes' = refreshes + 1
  /\ settled' = FALSE
  /\ torn' = (torn \/ \E o \in Refreshers : refresh[o].pc = "write_overrides")
  /\ refresh' = [o \in Refreshers |->
                   IF o = r
                   THEN [IdleRefresh EXCEPT !.pc = "load", !.rows = overrides, !.guard = guard]
                   ELSE [refresh[o] EXCEPT !.fresh = FALSE]]
  /\ UNCHANGED <<sources, overrides, guardrails, desks, imports, crashes, asks>>

LoadErpRows(r) ==
  /\ refresh[r].pc = "load"
  /\ refresh' = [refresh EXCEPT ![r] =
       [@ EXCEPT !.pc = "open_overrides",
                 !.fresh = \A o \in Refreshers \ {r} : refresh[o].pc = "idle",
                 !.rows = GenerateRows(refresh[r].rows, erp)]]
  /\ UNCHANGED <<sources, overrides, guardrails, desks, torn, settled, counts>>

OpenOverrides(r) ==
  /\ refresh[r].pc = "open_overrides"
  /\ overrides' = <<>>
  /\ refresh' = [refresh EXCEPT ![r].pc = "write_overrides"]
  /\ UNCHANGED <<sources, guardrails, desks, torn, settled, counts>>

WriteOverrides(r) ==
  /\ refresh[r].pc = "write_overrides"
  /\ overrides' = refresh[r].rows
  /\ refresh' = [refresh EXCEPT ![r] = IF refresh[r].guard
                                       THEN [@ EXCEPT !.pc = "read_rows"]
                                       ELSE IdleRefresh]
  /\ UNCHANGED <<sources, guardrails, desks, torn, settled, counts>>

\* --refresh-guardrails goes on with the smoke check of every row.
ReadRows(r) ==
  /\ refresh[r].pc = "read_rows"
  /\ refresh' = [refresh EXCEPT ![r] = [@ EXCEPT !.pc = "check", !.rows = overrides]]
  /\ UNCHANGED <<sources, overrides, guardrails, desks, torn, settled, counts>>

\* A row is tried with its own quantity, and without guardrails.
RowQty(row) ==
  IF row.max # None THEN row.max ELSE IF row.min # None THEN row.min ELSE 0

SmokeDecision(qty) ==
  BuildQuoteContext(facts, Context,
                    GetFirstRoundOverride(overrides, QuoteQty(facts, qty)),
                    NoGuardrail, qty)

\* Bug: quantity 0 stays 0, and the row matches nothing.
GuardrailOfQuantityZero(qty, decision) ==
  [qty |-> qty, reasons |-> decision.reasons, action |-> "manual_handoff_required"]

\* build_guardrail_rows: quantity 0 becomes the empty text, as it is falsy.
GuardrailOf(qty, decision) ==
  [qty     |-> IF qty = 0 THEN None ELSE qty,
   reasons |-> decision.reasons,
   action  |-> "manual_handoff_required"]

\* Bug: the price of an override is reason enough to reply.
SpareBecauseOverridden(decision) ==
  decision.auto \/ decision.policy = "general_inquiry_override"

NeedsNoGuardrail(decision) ==
  \/ decision.auto
  \/ decision.policy = "general_inquiry_override" /\ decision.reasons = {"erp_missing"}

CheckRow(r) ==
  /\ refresh[r].pc = "check"
  /\ refresh[r].rows # <<>>
  /\ LET qty      == RowQty(Head(refresh[r].rows))
         decision == SmokeDecision(qty)
     IN  refresh' = [refresh EXCEPT
                       ![r] = [@ EXCEPT !.rows  = Tail(refresh[r].rows),
                                        !.found = IF NeedsNoGuardrail(decision)
                                                  THEN refresh[r].found
                                                  ELSE Append(refresh[r].found,
                                                              GuardrailOf(qty, decision))]]
  /\ UNCHANGED <<sources, overrides, guardrails, desks, torn, settled, counts>>

OpenGuardrails(r) ==
  /\ refresh[r].pc = "check"
  /\ refresh[r].rows = <<>>
  /\ guardrails' = <<>>
  /\ refresh' = [refresh EXCEPT ![r].pc = "write_guardrails"]
  /\ UNCHANGED <<sources, overrides, desks, torn, settled, counts>>

WriteGuardrails(r) ==
  /\ refresh[r].pc = "write_guardrails"
  /\ guardrails' = refresh[r].found
  /\ settled' = refresh[r].fresh
  /\ refresh' = [refresh EXCEPT ![r] = IdleRefresh]
  /\ UNCHANGED <<sources, overrides, desks, torn, counts>>

CrashRefresh(r) ==
  /\ refresh[r].pc # "idle"
  /\ crashes < MaxCrashes
  /\ crashes' = crashes + 1
  /\ torn' = (torn \/ refresh[r].pc = "write_overrides")
  /\ refresh' = [refresh EXCEPT ![r] = IdleRefresh]
  /\ UNCHANGED <<sources, overrides, guardrails, desks, settled, imports, refreshes,
                 asks>>

-----------------------------------------------------------------------------
(* The orchestrator reads the tables, then the override file, then the     *)
(* guardrail file; store is its --write-decision.                          *)

AskForQuote(qty, store) ==
  /\ desk.pc = "idle"
  /\ asks < MaxAsks
  /\ asks' = asks + 1
  /\ desk' = [IdleDesk EXCEPT !.pc = "override", !.qty = qty, !.store = store,
                              !.ctx = Context]
  /\ UNCHANGED <<sources, overrides, guardrails, refresh, decided, stored, reply, torn, settled,
                 imports, refreshes, crashes>>

ReadOverride ==
  /\ desk.pc = "override"
  /\ desk' = [desk EXCEPT
                !.pc = "decide",
                !.override = GetFirstRoundOverride(overrides, QuoteQty(facts, desk.qty))]
  /\ UNCHANGED <<sources, overrides, guardrails, refresh, decided, stored, reply, torn, settled,
                 counts>>

Decide ==
  /\ desk.pc = "decide"
  /\ LET guardrail == GetHandoffGuardrail(guardrails, QuoteQty(facts, desk.qty))
         decision  == BuildQuoteContext(facts, desk.ctx, desk.override, guardrail, desk.qty)
     IN  /\ decided' = [asked |-> desk.qty, decision |-> decision, ctx |-> desk.ctx,
                        override |-> desk.override]
         /\ stored' = IF decision.ok /\ desk.store THEN decision ELSE stored
  /\ desk' = IdleDesk
  /\ UNCHANGED <<sources, overrides, guardrails, refresh, reply, torn, settled, counts>>

\* The first-round agent, when a decision of the part is stored.  (When none
\* is, it runs the orchestrator as the desk does, without storing.)
ReplyFromStored(qty) ==
  /\ stored.ok
  /\ LET answered == IF qty # 0 THEN qty ELSE stored.qty
         action   == ReplyAction(answered, stored)
     IN  reply' = [qty    |-> answered,
                   action |-> action,
                   price  |-> IF action \in {"auto_quote_preview",
                                             "apply_then_handoff_preview"}
                              THEN stored.quote ELSE None]
  /\ UNCHANGED <<sources, overrides, guardrails, refresh, desk, decided, stored, torn, settled,
                 counts>>

-----------------------------------------------------------------------------

Refresh(r) ==
  \/ \E guard \in BOOLEAN : StartRefresh(r, guard)
  \/ LoadErpRows(r)
  \/ OpenOverrides(r)
  \/ WriteOverrides(r)
  \/ ReadRows(r)
  \/ CheckRow(r)
  \/ OpenGuardrails(r)
  \/ WriteGuardrails(r)
  \/ CrashRefresh(r)

Desk ==
  \/ \E qty \in Quantities, store \in BOOLEAN : AskForQuote(qty, store)
  \/ ReadOverride
  \/ Decide

Next ==
  \/ ImportErp
  \/ \E r \in Refreshers : Refresh(r)
  \/ Desk
  \/ \E qty \in Quantities : ReplyFromStored(qty)

Spec == Init /\ [][Next]_vars

-----------------------------------------------------------------------------
(* Properties.                                                             *)

Reasons == {"manual_handoff_required", "supplier_context_missing", "parse_status",
            "supplier_parse_low_confidence", "market_manual_review_needed", "erp_missing",
            "erp_requires_price_application", "erp_price_inversion", "no_quote_basis",
            "supplier_item_not_found"}

GuardrailRows == [qty : (Nat \ {0}) \cup {None}, reasons : SUBSET Reasons,
                  action : {"manual_handoff_required"}]

Contexts == [found : BOOLEAN, inventory : BOOLEAN, floor : Prices, normal : Prices,
             minAuto : Prices, status : SUBSET {"apply", "inverted"}]

Decisions == [ok : BOOLEAN, qty : Nat, quote : Prices, auto : BOOLEAN,
              strategy : {"direct_quote", "handoff", "error"}, reasons : SUBSET Reasons,
              policy : {"general_inquiry_override", "erp_market_default", "none"}]

RefreshStates ==
  [pc : {"idle", "load", "open_overrides", "write_overrides", "read_rows", "check",
         "write_guardrails"},
   rows : Seq(OverrideRows), found : Seq(GuardrailRows), fresh : BOOLEAN, guard : BOOLEAN]

DeskStates == [pc : {"idle", "override", "decide"}, qty : Nat, store : BOOLEAN, ctx : Contexts,
               override : OverrideRows]

DecidedStates == [asked : Nat, decision : Decisions, ctx : Contexts, override : OverrideRows]

Replies == [qty : Nat, price : Prices,
            action : {"none", "clarify", "auto_quote_preview", "apply_then_handoff_preview",
                      "handoff_no_reply"}]

\* The files hold rows that the readers understand; a guardrail is for one
\* quantity or for all of them.
TypeOK ==
  /\ erp \in Workbooks \cup {<<>>}
  /\ facts \in FactSets
  /\ manual \in ManualRows
  /\ overrides \in Seq(OverrideRows)
  /\ guardrails \in Seq(GuardrailRows)
  /\ refresh \in [Refreshers -> RefreshStates]
  /\ desk \in DeskStates
  /\ decided \in DecidedStates
  /\ stored \in Decisions
  /\ reply \in Replies
  /\ torn \in BOOLEAN
  /\ settled \in BOOLEAN
  /\ imports \in 0 .. MaxImports
  /\ refreshes \in 0 .. MaxRefreshes
  /\ crashes \in 0 .. MaxCrashes
  /\ asks \in 0 .. MaxAsks

\* A quote is rounded after it has been raised to the boundary: it reaches a
\* boundary of four decimals or fewer, and misses a finer one by at most half of
\* 0.0001.
Respects(quote, boundary) ==
  boundary # None =>
    /\ boundary % Grain = 0 => quote >= boundary
    /\ 2 * (boundary - quote) <= Grain

\* "Internal pricing boundaries are authoritative": no automatic quote is
\* below the floor or the automatic minimum that its decision read by more than
\* the rounding to four decimals, even when its override was generated from an
\* older workbook.
AutoQuoteWithinBoundaries ==
  decided.decision.auto =>
    /\ Respects(decided.decision.quote, decided.ctx.floor)
    /\ Respects(decided.decision.quote, decided.ctx.minAuto)

\* "Manual rows with the same model + qty stay first and win": a quantity that
\* a manual row prices is quoted from that row, unless the file is being
\* written, or a refresh died writing it or read it while another wrote it.
ManualRowsWin ==
  ~torn /\ (\A r \in Refreshers : refresh[r].pc # "write_overrides") =>
     \A qty \in Quantities :
       LET row == GetFirstRoundOverride(manual, qty)
       IN  row # NoOverride => GetFirstRoundOverride(overrides, qty) = row

\* A manual row for this quantity that names no price keeps the ERP's row out.
LeftToManual(qty) ==
  \E row \in ToSet(manual) : row.min = qty /\ row.max = qty /\ row.price = None

\* The refresh "keeps the first-round quote inputs synchronized from the
\* current ERP data": after a whole refresh of the present workbook no price
\* of an older one is left, and every price in stock can be quoted, for the
\* stock of its largest line.
OverridesFollowErp ==
  settled =>
    /\ \A row \in ToSet(overrides) :
         row.generated /\ row.price # None
           => \E line \in ToSet(erp) : line.taxed = row.price /\ line.stock = row.min
    /\ \A line \in ErpGroups(erp) :
         line.taxed > 0 /\ line.stock > 0
           => \/ GetFirstRoundOverride(overrides, line.stock) # NoOverride
              \/ LeftToManual(line.stock)

\* ... and the guardrails are synchronized with them: a row's quantity that
\* the orchestrator hands off is guarded, and a guardrail for one quantity
\* blocks nothing that would be quoted automatically without it.
GuardrailsInSync ==
  settled =>
    /\ \A row \in ToSet(overrides) :
         RowQty(row) # 0 /\ ~SmokeDecision(RowQty(row)).auto
           => GetHandoffGuardrail(guardrails, RowQty(row)) # NoGuardrail
    /\ \A guardrail \in ToSet(guardrails) :
         guardrail.qty # None => ~SmokeDecision(guardrail.qty).auto

\* "When a general first-round override exists, erp_missing must not by itself
\* force handoff."
ErpMissingNeverDecides ==
  ~ /\ decided.override # NoOverride
    /\ decided.decision.reasons = {"manual_handoff_required", "erp_missing"}

-----------------------------------------------------------------------------
(* Why they hold: the inductive invariant of QuoteRefreshProofs.           *)

\* The manual rows in front and generated rows behind; and a file that has
\* lost them.
Whole(rows) ==
  /\ Len(manual) <= Len(rows)
  /\ \A i \in 1 .. Len(manual) : rows[i] = manual[i]
  /\ \A i \in 1 .. Len(rows) : i > Len(manual) => rows[i].generated

Bare(rows) == \A i \in 1 .. Len(rows) : rows[i].generated

ManualInv ==
  /\ Whole(overrides) \/ Bare(overrides)
  /\ ~torn /\ (\A r \in Refreshers : refresh[r].pc # "write_overrides") => Whole(overrides)
  /\ \A r \in Refreshers :
       refresh[r].pc \in {"load", "open_overrides", "write_overrides"} =>
         /\ Whole(refresh[r].rows) \/ Bare(refresh[r].rows)
         /\ ~torn => Whole(refresh[r].rows)

\* What generate_rows makes of the present workbook.
FollowsErp(rows) ==
  /\ \A row \in ToSet(rows) :
       row.generated /\ row.price # None
         => \E line \in ToSet(erp) : line.taxed = row.price /\ line.stock = row.min
  /\ \A line \in ErpGroups(erp) :
       line.taxed > 0 /\ line.stock > 0
         => \/ \E row \in ToSet(rows) : row.min = line.stock /\ row.max = line.stock /\ row.price # None
            \/ LeftToManual(line.stock)

Guarded(row, found) ==
  RowQty(row) # 0 /\ ~SmokeDecision(RowQty(row)).auto
    => \E guardrail \in ToSet(found) : guardrail.qty = RowQty(row)

Justified(found) ==
  \A guardrail \in ToSet(found) : guardrail.qty # None => ~SmokeDecision(guardrail.qty).auto

\* A refresh that runs alone on the present workbook: the rows it has checked
\* are guarded where they need it.
FreshOK(r) ==
  /\ \A o \in Refreshers \ {r} : refresh[o].pc = "idle"
  /\ ~settled
  /\ refresh[r].pc \notin {"idle", "load"}
  /\ refresh[r].pc \in {"open_overrides", "write_overrides"} =>
       FollowsErp(refresh[r].rows) /\ refresh[r].found = <<>>
  /\ refresh[r].pc \in {"read_rows", "check", "write_guardrails"} =>
       FollowsErp(overrides) /\ Justified(refresh[r].found)
  /\ refresh[r].pc = "check" =>
       \A row \in ToSet(overrides) :
         row \in ToSet(refresh[r].rows) \/ Guarded(row, refresh[r].found)
  /\ refresh[r].pc = "write_guardrails" =>
       \A row \in ToSet(overrides) : Guarded(row, refresh[r].found)

SyncInv ==
  /\ \A r \in Refreshers :
       /\ refresh[r].fresh => FreshOK(r)
       /\ refresh[r].pc = "load" => refresh[r].found = <<>>
  /\ settled =>
       /\ \A r \in Refreshers : refresh[r].pc = "idle"
       /\ FollowsErp(overrides)
       /\ Justified(guardrails)
       /\ \A row \in ToSet(overrides) : Guarded(row, guardrails)

IInv == TypeOK /\ AutoQuoteWithinBoundaries /\ ManualInv /\ SyncInv

=============================================================================
