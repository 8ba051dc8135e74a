------------------------------- MODULE MC_Book ------------------------------
(* Small instances of Reader for TLC: those of Clob, with a client that    *)
(* quotes its orders first.                                                *)
EXTENDS Reader, MC_Clob
=============================================================================
