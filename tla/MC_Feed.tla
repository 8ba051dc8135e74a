------------------------------- MODULE MC_Feed -------------------------------
(* Small instances of Feed for TLC. *)
EXTENDS Feed, TLC
=============================================================================
