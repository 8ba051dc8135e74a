------------------------------ MODULE MC_Stream ------------------------------
(* Small instances of Stream for TLC. *)
EXTENDS Stream, TLC

CONSTANTS m1, m2, s1, s2, s3

OneMarket == [s \in Signatures |-> m1]
TwoMarkets == [s \in Signatures |-> IF s = s2 THEN m2 ELSE m1]

(* The first transaction sweeps two orders. *)
SweepThenOne == [s \in Signatures |-> IF s = s1 THEN 2 ELSE 1]
=============================================================================
