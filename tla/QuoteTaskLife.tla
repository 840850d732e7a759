--------------------------- MODULE QuoteTaskLife ---------------------------
(***************************************************************************)
(* What the quote task queue promises of one task, without workers,        *)
(* claims, tables or logs: the stages of docs/workflows/quote-multi-agent  *)
(* section 6 in order, each built on what the previous one made durable.   *)
(***************************************************************************)
CONSTANTS Tasks, Quotes, NoQuote

VARIABLES
  stage,     \* the stage of every task, "none" before it is enqueued
  evidence,  \* the evidence gathered for it
  decision,  \* the quote of the pricing decision recorded for it
  answer     \* the quote its reply preview shows

vars == <<stage, evidence, decision, answer>>

Init ==
  /\ stage    = [t \in Tasks |-> "none"]
  /\ evidence = [t \in Tasks |-> NoQuote]
  /\ decision = [t \in Tasks |-> NoQuote]
  /\ answer   = [t \in Tasks |-> NoQuote]

Moves(t, from, to) == stage[t] = from /\ stage' = [stage EXCEPT ![t] = to]

Submit(t) ==
  /\ Moves(t, "none", "queued")
  /\ UNCHANGED <<evidence, decision, answer>>

Gather(t) ==
  /\ Moves(t, "queued", "evidence_ready")
  /\ \E q \in Quotes : evidence' = [evidence EXCEPT ![t] = q]
  /\ UNCHANGED <<decision, answer>>

\* The decision recorded is the one that the gathered evidence leads to.
Decide(t) ==
  /\ Moves(t, "evidence_ready", "decision_ready")
  /\ decision' = [decision EXCEPT ![t] = evidence[t]]
  /\ UNCHANGED <<evidence, answer>>

\* The reply shows the quote of the recorded decision.
Answer(t) ==
  /\ Moves(t, "decision_ready", "completed")
  /\ answer' = [answer EXCEPT ![t] = decision[t]]
  /\ UNCHANGED <<evidence, decision>>

\* A failed task keeps its evidence and its decision.
Fail(t) ==
  /\ \E s \in {"queued", "evidence_ready", "decision_ready"} : Moves(t, s, "failed")
  /\ UNCHANGED <<evidence, decision, answer>>

Next == \E t \in Tasks : Submit(t) \/ Gather(t) \/ Decide(t) \/ Answer(t) \/ Fail(t)

Spec == Init /\ [][Next]_vars
=============================================================================
