---------------------------- MODULE MCWafContext ----------------------------
(* WafContext with a few threads, contexts and arenas, for TLC.            *)
EXTENDS WafContext, TLC

CONSTANTS t1, t2, c1, c2, a1, a2, a3

MCHolders == Threads \cup Contexts

(* Threads, contexts and arenas are interchangeable.                       *)
Symmetry ==
  Permutations(Threads) \cup Permutations(Contexts) \cup Permutations(Arenas)
=============================================================================
