-------------------------------- MODULE Sums --------------------------------
(***************************************************************************)
(* Finite sums of an integer function over 1 .. n.                         *)
(*                                                                         *)
(* SumFunction of the community modules folds over a set with CHOOSE; this *)
(* one is a recursive function over an interval, so that Sums_proofs can   *)
(* establish how a sum changes when the function changes at one point.     *)
(***************************************************************************)
EXTENDS Integers

IsPartialSums(g, f, n) ==
  g = [i \in 0 .. n |-> IF i = 0 THEN 0 ELSE g[i - 1] + f[i]]

SumTo(f, n) ==
  LET partial[i \in 0 .. n] == IF i = 0 THEN 0 ELSE partial[i - 1] + f[i]
  IN  partial[n]
=============================================================================
