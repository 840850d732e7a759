--------------------------- MODULE QuoteDecision ---------------------------
(***************************************************************************)
(* The quote of one part number (scripts/quote_orchestrator.py and the     *)
(* readers under scripts/quote_agents): from the ERP, supplier, market and *)
(* trader facts, the override file and the guardrail file to a decision,   *)
(* and from a decision to the reply of the QQ agent.  Every look-up is by  *)
(* part number, so that rows of other parts never matter.                  *)
(*                                                                         *)
(* Prices and quantities are naturals, None is SQL's NULL.  A requested    *)
(* quantity of 0 is no quantity.  The decision's confidence is left out.   *)
(* The unit of a price is finer than the 0.0001 that a quote is rounded to.*)
(***************************************************************************)
EXTENDS Integers, Sequences

CONSTANT Grain  \* 0.0001, in units of a price

ASSUME GrainAssumption == Grain \in Nat \ {0}

None == -1

Larger(p, q) == IF p >= q THEN p ELSE q

\* Python's truth of a price.
Truthy(p) == p \notin {None, 0}

\* The first element that passes the test: a reader's loop with its return.
FirstThat(seq, Test(_), default) ==
  LET hits == {i \in DOMAIN seq : Test(seq[i])}
  IN  IF hits = {} THEN default ELSE seq[CHOOSE i \in hits : \A j \in hits : i <= j]

-----------------------------------------------------------------------------
(* The readers.                                                            *)

\* The lowest price of a set of prices, None when there is none.
Lowest(prices) ==
  IF prices = {} THEN None ELSE CHOOSE p \in prices : \A q \in prices : p <= q

\* market_quotes of a supplier item: [price, review], review standing for the
\* statuses manual_review, multiple_candidates, blocked and fetch_error.
SummarizeMarketQuotes(quotes) ==
  [low          |-> Lowest({m.price : m \in quotes} \ {None}),
   manualReview |-> \E m \in quotes : m.review]

NoErpRow == [stock |-> None, floor |-> None, standard |-> None, taxed |-> None,
             status |-> {}]

\* The row of a workbook that the inventory reader takes: most stock first,
\* unknown stock last, the row inserted last among equals.
InventoryRow(erp) ==
  erp[CHOOSE i \in DOMAIN erp :
        \A j \in DOMAIN erp \ {i} :
          \/ erp[i].stock > erp[j].stock
          \/ erp[i].stock = erp[j].stock /\ i > j]

\* Every boundary comes from the first source that has one, even a zero.
ErpContext(erp, product, parts) ==
  LET inventory   == IF erp = <<>> THEN NoErpRow ELSE InventoryRow(erp)
      Known(p)    == p # None
  IN  [found     |-> erp # <<>> \/ product.found \/ parts.found,
       inventory |-> erp # <<>>,
       floor     |-> FirstThat(<<inventory.floor, product.floor, parts.floor>>, Known, None),
       normal    |-> FirstThat(<<inventory.standard, product.normal, parts.normal>>, Known, None),
       minAuto   |-> product.minAuto,
       status    |-> inventory.status]

\* What stands in for the supplier item of a part only the ERP knows.
ErpOnlyItem == [erpOnly |-> TRUE, stock |-> 0, parsed |-> FALSE,
                lowConfidence |-> FALSE, market |-> {}]

-----------------------------------------------------------------------------
(* The override and guardrail files: sequences of their rows, in order.    *)

NoOverride == [min |-> None, max |-> None, price |-> None, generated |-> FALSE]

Covers(row, qty) ==
  /\ row.min # None => qty >= row.min
  /\ row.max # None => qty <= row.max
  /\ row.price # None

GetFirstRoundOverride(rows, qty) ==
  LET Fits(row) == Covers(row, qty)
  IN  IF qty = 0 THEN NoOverride ELSE FirstThat(rows, Fits, NoOverride)

\* qty None in a guardrail row matches every quantity.
NoGuardrail == [qty |-> None, reasons |-> {}, action |-> "none"]

GetHandoffGuardrail(rows, qty) ==
  LET Hits(row) == row.qty \in {None, qty}
  IN  IF qty = 0 THEN NoGuardrail ELSE FirstThat(rows, Hits, NoGuardrail)

-----------------------------------------------------------------------------
(* compute_decision_stub.                                                  *)

EffectiveQty(item, qty) == IF qty # 0 THEN qty ELSE item.stock

\* Everything that speaks against an automatic reply.
HandoffReasons(item, market, ctx, override, guardrail) ==
  LET overridden == override # NoOverride
      guarded    == guardrail # NoGuardrail
      fastReply  == ~overridden /\ ~guarded /\ ctx.found /\ ctx.inventory
      Reason(condition, reason) == IF condition THEN {reason} ELSE {}
  IN  UNION {
        IF guarded THEN {"manual_handoff_required"} \cup guardrail.reasons ELSE {},
        Reason(item.erpOnly /\ ~overridden /\ ~fastReply, "supplier_context_missing"),
        Reason(~item.erpOnly /\ ~item.parsed, "parse_status"),
        Reason(item.lowConfidence, "supplier_parse_low_confidence"),
        Reason(market.manualReview /\ ~overridden, "market_manual_review_needed"),
        Reason(~ctx.found /\ ~overridden, "erp_missing"),
        Reason("apply" \in ctx.status, "erp_requires_price_application"),
        Reason("inverted" \in ctx.status, "erp_price_inversion") }

\* Python's  normal or floor or trader or market_low
QuoteBasis(ctx, market, trader) ==
  FirstThat(<<ctx.normal, ctx.floor, trader>>, Truthy, market.low)

\* Bug: the override's price is quoted as it stands.
AutoQuoteOfOverrideUnclamped(market, trader, ctx, override) ==
  LET basis  == QuoteBasis(ctx, market, trader)
      raised == Larger(Larger(basis, ctx.minAuto), ctx.floor)
  IN  IF override # NoOverride THEN override.price
      ELSE IF basis = None THEN None ELSE raised

\* None is below every price: raising to an unknown boundary changes nothing.
AutoQuote(market, trader, ctx, override) ==
  LET basis == IF override # NoOverride
               THEN override.price
               ELSE QuoteBasis(ctx, market, trader)
  IN  IF basis = None THEN None ELSE Larger(Larger(basis, ctx.minAuto), ctx.floor)

\* What a human is shown: never raised to a boundary.
HandoffQuote(ctx, override) ==
  IF override # NoOverride THEN override.price
  ELSE IF ctx.normal # None THEN ctx.normal ELSE ctx.floor

\* round(float(p), 4): to the nearest multiple, the even one when p is halfway.
Round4(p) ==
  LET below == p - (p % Grain)
      up    == \/ 2 * (p % Grain) > Grain
               \/ 2 * (p % Grain) = Grain /\ below % (2 * Grain) # 0
  IN  IF p = None THEN None ELSE IF up THEN below + Grain ELSE below

\* The source's strategies floor_strategy and market_reference_only are out:
\* allow_floor_strategy is a constant False, and a market price is already the
\* last operand of the quote's basis.
ComputeDecision(item, trader, ctx, override, guardrail, qty) ==
  LET market  == SummarizeMarketQuotes(item.market)
      reasons == HandoffReasons(item, market, ctx, override, guardrail)
      quote   == IF reasons = {}
                 THEN AutoQuote(market, trader, ctx, override)
                 ELSE HandoffQuote(ctx, override)
      auto    == reasons = {} /\ quote # None
  IN  [ok       |-> TRUE,
       qty      |-> EffectiveQty(item, qty),
       quote    |-> Round4(quote),
       auto     |-> auto,
       strategy |-> IF auto THEN "direct_quote" ELSE "handoff",
       reasons  |-> IF reasons = {} /\ ~auto THEN {"no_quote_basis"} ELSE reasons,
       policy   |-> IF override # NoOverride THEN "general_inquiry_override"
                    ELSE "erp_market_default"]

NoDecision == [ok |-> FALSE, qty |-> 0, quote |-> None, auto |-> FALSE,
               strategy |-> "error", reasons |-> {"supplier_item_not_found"},
               policy |-> "none"]

-----------------------------------------------------------------------------
(* build_quote_context: facts is what the supplier, market, trader, product *)
(* and parts tables say of the part.                                        *)

ItemOf(facts) == IF facts.supplied THEN facts.item ELSE ErpOnlyItem

QuoteQty(facts, qty) == EffectiveQty(ItemOf(facts), qty)

BuildQuoteContext(facts, ctx, override, guardrail, qty) ==
  IF ~facts.supplied /\ ~ctx.found
  THEN NoDecision
  ELSE ComputeDecision(ItemOf(facts), facts.trader, ctx, override, guardrail, qty)

\* build_reply_preview: what the QQ agent does with a decision.
ReplyAction(qty, decision) ==
  CASE qty = 0                                    -> "clarify"
    [] qty # 0 /\ decision.auto /\ decision.quote # None -> "auto_quote_preview"
    [] qty # 0 /\ ~decision.auto /\ decision.quote # None -> "apply_then_handoff_preview"
    [] qty # 0 /\ decision.quote = None           -> "handoff_no_reply"
=============================================================================
