----------------------------- MODULE MCWafHandle -----------------------------
(* WafHandle with three threads and two handles, for TLC.                  *)
EXTENDS WafHandle, TLC

CONSTANTS t1, t2, t3, h1, h2

(* Threads are interchangeable, and so are handles.                        *)
Symmetry == Permutations(Threads) \cup Permutations(Handles)
=============================================================================
