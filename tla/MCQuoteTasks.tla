---------------------------- MODULE MCQuoteTasks ----------------------------
(* Instances of QuoteTasks for TLC.  The workers are strings, so that a     *)
(* deployment is an ordinary function of them.                             *)
EXTENDS QuoteTasks, TLC

\* docs/workflows/quote-multi-agent.md: one worker for every stage.
StageWorkers == {"supplier_market_worker", "pricing_worker", "qq_preview_worker"}

ServesOwnStage ==
  [w \in StageWorkers |->
     CASE w = "supplier_market_worker" -> {"queued"}
       [] w = "pricing_worker"         -> {"evidence_ready"}
       [] w = "qq_preview_worker"      -> {"decision_ready"}]

\* Terminals that run any stage, by --run-next or --run-stage.
ServesAll == [w \in Workers |-> Stages]

\* Dispatchers are interchangeable, and so are quotes.
Symmetry == Permutations(Workers) \cup Permutations(Quotes)
=============================================================================
