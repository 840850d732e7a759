------------------------------ MODULE MCRules ------------------------------
(* Small instances of Rules.                                              *)
EXTENDS Rules, TLC

Symmetry == Permutations(Requests) \cup Permutations(Names) \cup Permutations(Texts)
=============================================================================
