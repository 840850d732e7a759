----------------------------- MODULE MCSTCrawl -----------------------------
(* Instances of STCrawl for TLC.                                           *)
EXTENDS STCrawl, TLC

CONSTANTS m1, m2, m3

ThreeModels == <<m1, m2, m3>>

\* scripts/run_st0306_one_by_one_5min.ps1: neither filter.
OneByOne == [skip |-> FALSE, done |-> FALSE]

\* scripts/run_st0306_every3min_skippriced.ps1: --skip-existing-st-price.
SkipPriced == [skip |-> TRUE, done |-> FALSE]

\* --done-models-file.
SkipDone == [skip |-> FALSE, done |-> TRUE]

AllFlows == {OneByOne, SkipPriced, SkipDone}

SkipPricedOnly == {SkipPriced}

\* Launches are interchangeable, and so are the names of the files.
Symmetry == Permutations(Processes) \cup Permutations(Stamps)
=============================================================================
