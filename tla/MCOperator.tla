----------------------------- MODULE MCOperator -----------------------------
(* Operator for TLC: threads and clients are interchangeable. *)
EXTENDS Operator, TLC

Symmetry == Permutations(Threads) \cup Permutations(Clients)
=============================================================================
