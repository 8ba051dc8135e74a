---------------------------- MODULE MC_FileStore ----------------------------
(* Small instances of FileStore for TLC. *)
EXTENDS FileStore, TLC

(* Bound: fills of several prices and sizes while nothing has failed or    *)
(* died, which is when candles and windows are of interest, and fills that *)
(* differ in their place only from then on.                                *)
FaultsMeetPlainFills ==
  faults.failures + faults.crashes > 0 =>
    \A i \in DOMAIN made : made[i].price = 1 /\ made[i].lots = 1
=============================================================================
