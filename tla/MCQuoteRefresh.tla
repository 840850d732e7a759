--------------------------- MODULE MCQuoteRefresh ---------------------------
(* Instances of QuoteRefresh for TLC.                                      *)
EXTENDS QuoteRefresh

Line(stock, floor, standard, taxed, status) ==
  [stock |-> stock, floor |-> floor, standard |-> standard, taxed |-> taxed,
   status |-> status]

\* Not in the workbook; in stock; price to be applied for, and a line without a
\* price; two lines, one of unknown stock; two lines of one price.
SmallWorkbooks ==
  {<<>>,
   <<Line(5, 2, 3, 3, {})>>,
   <<Line(5, 3, 4, 4, {"apply"}), Line(9, None, None, None, {})>>,
   <<Line(None, 1, 2, 2, {}), Line(9, 2, None, 3, {"inverted"})>>,
   <<Line(5, 2, 3, 3, {}), Line(9, 2, 3, 3, {})>>}

\* The automatic minimum has more decimals than a quote.
NoProduct  == [found |-> FALSE, floor |-> None, normal |-> None, minAuto |-> None]
SomeProduct == [found |-> TRUE, floor |-> 2, normal |-> 3, minAuto |-> 5]
NoParts    == [found |-> FALSE, floor |-> None, normal |-> None]
EmptyParts == [found |-> TRUE, floor |-> None, normal |-> None]

Item(stock, parsed, low, market) ==
  [erpOnly |-> FALSE, stock |-> stock, parsed |-> parsed, lowConfidence |-> low,
   market |-> market]

Quote(price, review) == [price |-> price, review |-> review]

Facts(supplied, item, trader, product, parts) ==
  [supplied |-> supplied, item |-> item, trader |-> trader, product |-> product,
   parts |-> parts]

\* Known to nobody but the ERP; supplied and clear; supplied with markets to
\* review; a parse that is not to be trusted.
SmallFacts ==
  {Facts(FALSE, ErpOnlyItem, None, NoProduct, NoParts),
   Facts(TRUE, Item(0, TRUE, FALSE, {Quote(1, FALSE)}), None, NoProduct, NoParts),
   Facts(TRUE, Item(5, TRUE, FALSE, {Quote(1, FALSE), Quote(None, TRUE)}), None,
         SomeProduct, NoParts),
   Facts(TRUE, Item(5, FALSE, TRUE, {}), 1, SomeProduct, EmptyParts)}

ManualRow(min, max, price) ==
  [min |-> min, max |-> max, price |-> price, generated |-> FALSE]

\* None; one exact quantity; a range; every quantity; a quantity without a price.
SmallManualRows ==
  {<<>>, <<ManualRow(5, 5, 1)>>, <<ManualRow(4, 9, 2)>>, <<ManualRow(None, None, 1)>>,
   <<ManualRow(9, 9, None)>>}

Symmetry == Permutations(Refreshers)

\* A quote is asked for before a second refresh begins: one is enough to mix old
\* files with a new workbook.
QuotesBeforeOverlap == asks = 0 \/ refreshes <= 1
=============================================================================
