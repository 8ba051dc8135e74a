-------------------------------- MODULE Flush --------------------------------
(***************************************************************************)
(* Trades on their way from memory to the store, and the store.  A trade   *)
(* waits in pending until its slot is rooted; the store takes rows and     *)
(* checkpoints, and gives nothing back up.                                 *)
(*                                                                         *)
(* pending is [by_slot : the waiting rows, flushed_through : Nat]: rows    *)
(* carry their slot, so the map from slots is a set of rows.               *)
(*                                                                         *)
(* Source: crates/clob-stream/src/flush.rs, store/mod.rs, store/memory.rs, *)
(* store/file.rs, store/clickhouse.rs                                      *)
(***************************************************************************)
EXTENDS Integers, FiniteSets

ResumingFrom(slot) == [by_slot |-> {}, flushed_through |-> slot]

NewPending == ResumingFrom(0)

(* Mutant of Record: drops the rows of the slot just above the watermark. *)
RecordLate(pending, slot, rows) ==
  IF slot <= pending.flushed_through + 1 THEN pending
  ELSE [pending EXCEPT !.by_slot = @ \cup rows]

Record(pending, slot, rows) ==
  IF slot <= pending.flushed_through THEN pending
  ELSE [pending EXCEPT !.by_slot = @ \cup rows]

(* Mutant of RetractPending: a dead slot's rows stay queued. *)
RetractNothing(pending, slot) == pending

RetractPending(pending, slot) ==
  [pending EXCEPT !.by_slot = {t \in @ : t.slot # slot}]

Rooted(pending, slot) ==
  IF slot <= pending.flushed_through THEN {} ELSE {t \in pending.by_slot : t.slot <= slot}

TakeThrough(pending, slot) ==
  IF slot <= pending.flushed_through THEN pending
  ELSE [by_slot |-> {t \in pending.by_slot : t.slot > slot}, flushed_through |-> slot]

LowestSlot(rows) ==
  (CHOOSE t \in rows : \A u \in rows : t.slot <= u.slot).slot

(* The watermark moves back with the rows, or the retry would skip them. *)
Requeue(pending, rows) ==
  LET below == LowestSlot(rows) - 1
  IN  [by_slot |-> pending.by_slot \cup rows,
       flushed_through |-> IF below < pending.flushed_through
                           THEN below ELSE pending.flushed_through]

-----------------------------------------------------------------------------
(* Two rows are the same trade. *)
SameTrade(t, u) ==
  /\ t.market = u.market /\ t.slot = u.slot /\ t.signature = u.signature
  /\ t.order = u.order

(* Of rows that are the same trade the store keeps one, the older if it    *)
(* already has it.                                                         *)
AppendRows(stored, rows) ==
  LET fresh == {t \in rows : \A u \in stored : ~ SameTrade(t, u)}
  IN  stored \cup {CHOOSE u \in fresh : SameTrade(t, u) : t \in fresh}

(* A checkpoint never moves backwards. *)
SaveCheckpoint(old, new) == IF new.slot > old.slot THEN new ELSE old

(* 0: nothing is stored for the market. *)
HighestSlot(stored, markets) ==
  LET slots == {t.slot : t \in {u \in stored : u.market \in markets}}
  IN  IF slots = {} THEN 0 ELSE CHOOSE s \in slots : \A r \in slots : r <= s
=============================================================================
