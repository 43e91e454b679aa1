---------------------------- MODULE MCWaterfall ----------------------------
(* WaterfallHub for TLC: the handlers are interchangeable. *)
EXTENDS WaterfallHub, TLC

Handlers == Permutations(Threads \ {Main})
=============================================================================
