-------------------------- MODULE MCVendorCollect --------------------------
(* Small sheets, pages and command lines for VendorCollect.               *)
EXTENDS VendorCollect, TLC

CONSTANTS p1, p2

Cell(part, form, tail) == [part |-> part, form |-> form, tail |-> tail]
Blank == Cell(NoPart, "exact", {})
Header(score, text, stock) == [score |-> score, text |-> text, stock |-> stock]

\* Two columns found by their keywords; the last row repeats the first part.
Columns == [headers |-> <<Header(0, 1, TRUE), Header(5, 2, FALSE)>>,
            rows |-> <<<<Cell("s1", "exact", {"qty"}), Cell(p1, "exact", {})>>,
                       <<Cell("s2", "exact", {}), Cell(p2, "lower", {})>>,
                       <<Cell("s1", "exact", {"qty", "year"}), Cell(p1, "lower", {})>>>>]

\* One column without keyword, the stock behind the part number; a blank row.
Inline == [headers |-> <<Header(0, 1, FALSE)>>,
           rows |-> <<<<Cell(p1, "exact", {"qty", "package"})>>, <<Blank>>>>]

\* No stock keyword, and the parts in the last column.
Unmarked == [headers |-> <<Header(0, 1, FALSE), Header(4, 2, FALSE)>>,
             rows |-> <<<<Cell("s1", "exact", {"lead"}), Cell(p2, "spaced", {})>>>>]

Empty == [headers |-> <<Header(4, 1, FALSE)>>, rows |-> <<>>]

SmallSheets == {Columns, Inline, Unmarked, Empty}

Page(hits, word, priced, block) ==
  [hits |-> hits, word |-> word, priced |-> priced, block |-> block, fails |-> FALSE]
Failure == [Page(0, FALSE, FALSE, FALSE) EXCEPT !.fails = TRUE]

SmallAnswers ==
  {[bomman |-> Page(1, TRUE, TRUE, FALSE), szlcsc |-> Page(2, TRUE, FALSE, FALSE)],
   [bomman |-> Page(1, FALSE, TRUE, TRUE), szlcsc |-> Failure]}

Args(out, db, limit) == [out |-> out, db |-> db, limit |-> limit]
SmallArguments == {Args(Nobody, TRUE, 0), Args(Given, TRUE, 1), Args(Nobody, FALSE, 0)}
Symmetry == Permutations(Processes)
=============================================================================
