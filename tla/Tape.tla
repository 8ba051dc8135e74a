--------------------------------- MODULE Tape ---------------------------------
(***************************************************************************)
(* What the stream promises of its store: only rooted trades are written,  *)
(* nothing written is ever taken back, and behind a watermark nothing is   *)
(* missing.                                                                *)
(*                                                                         *)
(* Source: the contract in crates/clob-stream/src/store/mod.rs and         *)
(* flush.rs                                                                *)
(***************************************************************************)
EXTENDS Naturals

CONSTANTS
  Trades,    \* every trade there can be; each has a slot
  LastSlot

VARIABLES
  rooted,    \* the trades of finalized slots
  durable,   \* the rows of the store
  from,      \* trades of slots after this are owed
  through    \* every owed trade up to this slot is in the store

Owed(trades, after, upto) == {t \in trades : after < t.slot /\ t.slot <= upto}

TapeInit ==
  /\ rooted \subseteq Trades
  /\ durable = {}
  /\ from \in 0 .. LastSlot
  /\ through \in 0 .. LastSlot
  /\ Owed(rooted, from, through) = {}

(* The chain roots a slot: its trades come after the watermark, or are of  *)
(* a slot that is not owed.                                                *)
Root ==
  /\ rooted' \subseteq Trades
  /\ rooted \subseteq rooted'
  /\ Owed(rooted' \ rooted, from, through) = {}
  /\ UNCHANGED <<durable, from, through>>

(* Rows are added, and the watermark moves as far as nothing is missing.   *)
(* It may move back: a write that failed is tried again.                   *)
Persist ==
  /\ durable' \subseteq rooted
  /\ durable \subseteq durable'
  /\ through' \in 0 .. LastSlot
  /\ Owed(rooted, from, through') \subseteq durable'
  /\ UNCHANGED <<rooted, from>>

(* Coverage starts anew: what is rooted already is no longer owed. *)
Cover ==
  /\ from' \in 0 .. LastSlot
  /\ through' \in 0 .. LastSlot
  /\ Owed(rooted, from', LastSlot) = {}
  /\ UNCHANGED <<rooted, durable>>

TapeNext == Root \/ Persist \/ Cover

TapeSpec == TapeInit /\ [][TapeNext]_<<rooted, durable, from, through>>
=============================================================================
