----------------------------- MODULE MCAppState -----------------------------
(* AppState for TLC: threads and scanners are interchangeable. *)
EXTENDS AppState, TLC

Symmetry == Permutations(Threads) \cup Permutations(Scanners)
=============================================================================
