---------------------------- MODULE VendorParse ----------------------------
(***************************************************************************)
(* What the vendor platform collector                                      *)
(* (scripts/vendor_platform_price_collect.py) makes of its two inputs: the *)
(* vendor's sheet of part numbers and stock, and a platform's search page. *)
(*                                                                         *)
(* A cell is [part, form, tail]: a part number, how it is written, and the *)
(* stock facts behind it.  A header is [score, text, stock]: the length of *)
(* the part keywords in it, its place in the order of texts, and whether   *)
(* it holds a stock keyword.  A page is what the regular expressions find  *)
(* in it: the number of hit lines and, of the first of them, whether it    *)
(* has the part as a word of its own and a price; and whether the page     *)
(* anywhere says captcha, forbidden, access denied or blocked.             *)
(***************************************************************************)
EXTENDS Naturals, Sequences, FiniteSets, FiniteSetsExt

CONSTANT NoPart  \* the empty part number

Forms      == {"exact", "lower", "spaced", "both"}
StockFacts == {"qty", "year", "lot", "package", "lead"}
Platforms  == {"bomman", "szlcsc"}

PageType == [hits : 0..2, word : BOOLEAN, priced : BOOLEAN, block : BOOLEAN, fails : BOOLEAN]

-----------------------------------------------------------------------------
(* The sheet.                                                              *)

\* Upper case, no blanks: the forms of one part number become the same.
NormalizePartNumber(cell) == [cell EXCEPT !.form = "exact"]

NormalizationBasis(cell) ==
  CASE cell.part = NoPart /\ cell.tail = {} -> "empty"
    [] cell.form = "exact" -> "exact_input"
    [] cell.form = "lower" -> "normalized_by_case"
    [] OTHER               -> "normalized_by_rule"

\* The best-scored header, of equals the last in the order of texts; 0: none.
ChooseColumn(headers) ==
  LET scored == {h \in DOMAIN headers : headers[h].score > 0}
      beats(g, h) == \/ headers[g].score > headers[h].score
                     \/ headers[g].score = headers[h].score /\ headers[g].text >= headers[h].text
  IN  IF scored = {} THEN 0 ELSE CHOOSE g \in scored : \A h \in scored : beats(g, h)

\* Without a part header the first column holds the parts; without a stock
\* header every other column but the first holds stock; a sheet of one column
\* holds both when the tail of a cell is not empty (of the first ten rows).
DetectVendorFields(sheet) ==
  LET headers == IF sheet.rows = <<>> THEN <<>> ELSE sheet.headers
      chosen  == ChooseColumn(headers)
      part    == IF chosen = 0 /\ headers # <<>> THEN 1 ELSE chosen
      named   == {h \in DOMAIN headers : headers[h].stock}
      stocks  == IF named = {} THEN 2..Len(headers) ELSE named
  IN  [part   |-> part,
       stocks |-> stocks,
       inline |-> /\ part # 0 /\ stocks = {}
                  /\ \E r \in DOMAIN sheet.rows :
                       r <= 10 /\ sheet.rows[r][part].part # NoPart /\ sheet.rows[r][part].tail # {}]

\* extract_supplier_stock: the raw text is kept, whatever is understood of it.
\* A cell without part and tail is blank and leaves no trace in it.
RawStock(row, stocks, inline) ==
  [inline |-> inline,
   cells  |-> {<<h, row[h]>> : h \in {g \in stocks : row[g].part # NoPart \/ row[g].tail # {}}}]

\* parse_supplier_stock_fields: confidence in hundredths.
ParseSupplierStock(raw) ==
  LET facts == raw.inline \cup UNION {c[2].tail : c \in raw.cells}
      empty == raw.inline = {} /\ raw.cells = {}
  IN  [facts      |-> facts,
       confidence |-> IF empty THEN 100 ELSE Min({100, 25 + 15 * Cardinality(facts)}),
       status     |-> IF facts # {} THEN "parsed" ELSE IF empty THEN "empty" ELSE "raw_only"]

\* What main keeps of row r: the part without its inline stock, and the rest.
BaseRow(sheet, r) ==
  LET fields == DetectVendorFields(sheet)
      cell   == sheet.rows[r][fields.part]
      split  == fields.inline /\ cell.part # NoPart
      part   == IF split THEN [cell EXCEPT !.tail = {}] ELSE cell
      raw    == RawStock(sheet.rows[r], fields.stocks, IF split THEN cell.tail ELSE {})
  IN  [part  |-> part,
       model |-> NormalizePartNumber(part),
       basis |-> NormalizationBasis(part),
       raw   |-> raw,
       stock |-> ParseSupplierStock(raw)]

-----------------------------------------------------------------------------
(* The platform's page.                                                    *)

\* determine_match_confidence, in hundredths.
MatchConfidence(page) ==
  CASE page.hits = 0              -> 0
    [] page.hits = 1 /\ page.word -> 100
    [] page.hits > 1              -> 45
    [] OTHER                      -> 20

\* Bug: the words of a blocking page are not looked for.
PlatformResultUnblocked(page) ==
  IF page.hits = 0 THEN [status |-> "not_found", confidence |-> 0, priced |-> FALSE]
  ELSE [status     |-> CASE ~page.priced   -> "manual_review"
                         [] page.hits = 1 -> "matched_exact"
                         [] OTHER         -> "multiple_candidates",
        confidence |-> MatchConfidence(page),
        priced     |-> page.priced]

\* parse_platform_result, and main's row for a query that raised.
PlatformResult(page) ==
  CASE page.fails    -> [status |-> "fetch_error", confidence |-> 0, priced |-> FALSE]
    [] page.hits = 0 -> [status |-> "not_found", confidence |-> 0, priced |-> FALSE]
    [] OTHER ->
         [status     |-> IF page.block THEN "blocked"
                         ELSE IF ~page.priced THEN "manual_review"
                         ELSE IF page.hits = 1 THEN "matched_exact" ELSE "multiple_candidates",
          confidence |-> IF page.block THEN 0 ELSE MatchConfidence(page),
          priced     |-> page.priced]

\* summarize_market_quotes: what the quote workflow makes of the stored rows.
ManualReviewNeeded(results) ==
  \E r \in results : r.status \in {"manual_review", "multiple_candidates", "blocked", "fetch_error"}
=============================================================================
