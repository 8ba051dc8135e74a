------------------------------- MODULE Sublists -------------------------------
(***************************************************************************)
(* The part of a sequence at some of its positions, in order.              *)
(*                                                                         *)
(* SelectSeq takes a test, an operator; this one takes the positions, a    *)
(* set, and is a recursive function, so that Sums_proofs can establish     *)
(* what it keeps.                                                          *)
(***************************************************************************)
EXTENDS Integers, Sequences

Sublist(s, keep) ==
  LET part[i \in 0 .. Len(s)] ==
        IF i = 0 THEN <<>> ELSE IF i \in keep THEN Append(part[i - 1], s[i]) ELSE part[i - 1]
  IN  part[Len(s)]
=============================================================================
