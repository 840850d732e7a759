---------------------------- MODULE MCDashboard ----------------------------
(* Small tables, files and inputs for Dashboard.                          *)
EXTENDS Dashboard, TLC

A   == Model("a", FALSE)
ATR == Model("a", TRUE)
B   == Model("b", FALSE)

Part(model, st, lc_usd, lc_cny, extracted, recent) ==
  [model |-> model, st |-> st, lc_usd |-> lc_usd, lc_cny |-> lc_cny, rate |-> 14,
   extracted |-> extracted, recent |-> recent]

\* Both packing variants with counts to clean; one model twice, one count missing.
SmallTables == {<<Part(A, 4, 2, 56, 201, 5), Part(ATR, 4, Nothing, 84, Nothing, 3)>>,
                <<Part(ATR, 1, 5, Nothing, -2, Nothing), Part(B, Nothing, 3, 28, Nothing, Nothing),
                  Part(B, 3, Nothing, 28, 7, 9)>>}

Line(model, value) == [model |-> model, value |-> value]
SmallOverrides == {<<>>, <<Line(A, 5), Line(B, Nothing), Line(A, 9), Line(ATR, 300)>>}

SmallSeed == <<[model |-> A, stock |-> 3], [model |-> A, stock |-> 2]>>

\* Nothing saved yet, and a row of the version that took the supplier's quote in RMB.
SmallStores == {Nothing,
  [global_fx |-> Nothing,
   rows |-> <<[model |-> B, stock |-> -1, supplier_cny |-> 28, supplier_usd |-> Absent,
               customer_usd |-> 3, customer_cny |-> Absent, fx |-> 2]>>]}

SmallFx  == {Nothing, -1, 2}
SmallUsd == {Nothing, 5}
SmallCny == {Nothing, 28}

SmallModelLists == {<<A>>, <<ATR, B>>}

Symmetry == Permutations(Windows)
=============================================================================
