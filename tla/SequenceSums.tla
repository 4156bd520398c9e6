---------------------------- MODULE SequenceSums ----------------------------
(***************************************************************************)
(* Sums of sequences of integers, as a recursive function: a definition    *)
(* that TLC evaluates and that proofs can unfold (module SequenceProofs).  *)
(***************************************************************************)
EXTENDS Integers, Sequences

(* Sums(s)[i] is the sum of the first i elements.                          *)
Sums(s) ==
  LET sum[i \in 0 .. Len(s)] == IF i = 0 THEN 0 ELSE sum[i - 1] + s[i]
  IN  sum

Total(s) == Sums(s)[Len(s)]

=============================================================================
