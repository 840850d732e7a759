----------------------------- MODULE RadarData -----------------------------
(***************************************************************************)
(* The data behind the profit radar page: what                             *)
(* scripts/clean_lc_data_quality.py makes of the table parts_pricing, and  *)
(* what scripts/build_profit_radar.py reads from it into the page.         *)
(*                                                                         *)
(* A model is [part, tr]: the part and whether it has the packing suffix   *)
(* TR, in upper case and stripped as both scripts compare it.  Numbers of  *)
(* orders are counted in halves, so that rounding shows; rate is tax       *)
(* factor times exchange rate.  Rows come in the order the query gives.    *)
(***************************************************************************)
EXTENDS Integers, Sequences, SequencesExt

CONSTANT Nothing  \* NULL, null or an empty field

Model(part, tr) == [part |-> part, tr |-> tr]

\* The members of a list that are in S, in their order: what a loop or a filter leaves.
Only(list, S) ==
  LET left[n \in 0..Len(list)] ==
        IF n = 0 THEN <<>>
        ELSE IF list[n] \in S THEN Append(left[n - 1], list[n])
        ELSE left[n - 1]
  IN  left[Len(list)]

-----------------------------------------------------------------------------
(* Cleaning.                                                               *)

\* Clamped to 0..100 and rounded, a half upwards.
NormalizeOrders(halves) ==
  IF halves = Nothing THEN Nothing
  ELSE IF halves < 0  THEN 0
  ELSE IF halves > 200 THEN 200
  ELSE 2 * ((halves + 1) \div 2)

\* The override file: blank values and values that are no number are left out, the
\* last line of a model counts, decimals are cut off and not rounded.
LoadOverrides(lines) ==
  LET valid == {n \in DOMAIN lines : lines[n].value \in Int}
      lastOf(m) == CHOOSE n \in valid : lines[n].model = m /\ \A k \in valid : lines[k].model = m => k <= n
      clamp(halves) == IF halves < 0 THEN 0 ELSE IF halves > 200 THEN 200 ELSE 2 * (halves \div 2)
  IN  [m \in {lines[n].model : n \in valid} |-> clamp(lines[lastOf(m)].value)]

CleanRowOverridingRecent(row, overrides) ==
  [row EXCEPT !.extracted = NormalizeOrders(@),
              !.recent = IF row.model \in DOMAIN overrides THEN overrides[row.model] ELSE NormalizeOrders(@)]

\* The order counts of a row under the overrides.  Both columns are cleaned each for
\* itself; only an override makes them the same.
CleanRow(row, overrides) ==
  IF row.model \in DOMAIN overrides
  THEN [row EXCEPT !.extracted = overrides[row.model], !.recent = overrides[row.model]]
  ELSE [row EXCEPT !.extracted = NormalizeOrders(@), !.recent = NormalizeOrders(@)]

CleanLcData(rows, overrides) == [n \in DOMAIN rows |-> CleanRow(rows[n], overrides)]

-----------------------------------------------------------------------------
(* Building.                                                               *)

Or(value, default) == IF value = Nothing THEN default ELSE value

\* What the queries select as recent_orders.
QueriedOrders(row) == NormalizeOrders(Or(row.extracted, row.recent))

Overridden(model, overrides, orders) == IF model \in DOMAIN overrides THEN overrides[model] ELSE orders

LcPriceUsd(row) ==
  IF row.lc_usd # Nothing THEN row.lc_usd
  ELSE IF row.lc_cny = Nothing \/ row.rate = Nothing THEN Nothing
  ELSE row.lc_cny \div row.rate

Category(st, lc) == CASE 2 * lc <= st -> "market_dump" [] lc > st -> "windfall" [] OTHER -> "normal"

\* The list of the first tab: models with both prices, each above zero.
BuildRadar(rows, overrides) ==
  LET priced(row) == /\ row.st # Nothing /\ LcPriceUsd(row) # Nothing
                     /\ row.st > 0 /\ LcPriceUsd(row) > 0
      entry(row) == [model    |-> row.model,
                     orders   |-> Overridden(row.model, overrides, Or(QueriedOrders(row), 0)),
                     category |-> Category(row.st, LcPriceUsd(row))]
      kept == Only(rows, {row \in ToSet(rows) : priced(row)})
  IN  [n \in DOMAIN kept |-> entry(kept[n])]

\* The prices of the second tab by model; of two rows of a model the last counts.
BuildTpMap(rows, overrides) ==
  LET models == {rows[n].model : n \in DOMAIN rows}
      row(m) == rows[CHOOSE n \in DOMAIN rows :
                       rows[n].model = m /\ \A k \in DOMAIN rows : rows[k].model = m => k <= n]
  IN  [m \in models |-> [model  |-> m, platform |-> row(m).lc_cny, st |-> row(m).st,
                         orders |-> Overridden(m, overrides, QueriedOrders(row(m)))]]

\* Packing variants are one part: the record without TR is preferred to the one with
\* it, and that one to none.
ResolveTpRecord(tp_map, model) ==
  LET candidates == IF model.tr THEN <<Model(model.part, FALSE), model>>
                    ELSE <<model, Model(model.part, TRUE)>>
      found == Only(candidates, DOMAIN tp_map)
  IN  IF found = <<>> THEN Nothing ELSE tp_map[found[1]]
=============================================================================
