------------------------------- MODULE Viewer -------------------------------
(***************************************************************************)
(* What a terminal shows of one market: a reducer over the four messages   *)
(* of the feed.  A book is a version number; a fill is a row with a slot.  *)
(*                                                                         *)
(* Source: crates/clob-tui/src/feed.rs, crates/clob-tui/src/wire.rs        *)
(***************************************************************************)
EXTENDS Integers, Sequences, Sublists

CONSTANT ViewerTape \* TAPE: fills kept on screen

ASSUME ViewerAssumption == ViewerTape \in Nat \ {0}

(* Feed::default *)
NoFeed == [ready |-> FALSE, book |-> 0, slot |-> 0, finalized_through |-> 0,
           tape |-> <<>>, retracted |-> 0, missed |-> 0]

(* A snapshot is the whole truth of the book; the tape is left as it was. *)
Snapshot(view) ==
  [kind |-> "Snapshot", book |-> view.state, slot |-> view.slot,
   finalized_through |-> view.finalized_through]

ApplySnapshot(feed, m) ==
  [feed EXCEPT !.ready = TRUE, !.book = m.book, !.slot = m.slot,
               !.finalized_through = m.finalized_through]

Truncated(tape) == SubSeq(tape, 1, IF Len(tape) < ViewerTape THEN Len(tape) ELSE ViewerTape)

(* Mutant of Printed: fills pushed, not inserted. *)
PrintedBelow(tape, trades) == Truncated(tape \o trades)

(* Fills go in at the top one by one, the last of the update first: the    *)
(* update then stands above what was there, in the order it lists them.    *)
Printed(tape, trades) == Truncated(trades \o tape)

ApplyUpdate(feed, m) ==
  [feed EXCEPT !.book = m.book, !.slot = m.slot,
               !.finalized_through = m.finalized_through,
               !.tape = Printed(@, m.trades)]

ApplyRetract(feed, m) ==
  LET kept == Sublist(feed.tape, {n \in DOMAIN feed.tape : feed.tape[n].slot # m.slot})
      removed == Len(feed.tape) - Len(kept)
  IN  [feed EXCEPT !.tape = kept,
                   !.retracted = @ + (IF removed > m.trades THEN removed ELSE m.trades)]

ApplyLagged(feed, m) == [feed EXCEPT !.ready = FALSE, !.missed = @ + m.missed]

(* Feed::apply *)
Apply(feed, m) ==
  CASE m.kind = "Snapshot" -> ApplySnapshot(feed, m)
    [] m.kind = "Update"   -> ApplyUpdate(feed, m)
    [] m.kind = "Retract"  -> ApplyRetract(feed, m)
    [] m.kind = "Lagged"   -> ApplyLagged(feed, m)

(* Feed::is_final *)
IsFinal(feed, fill) == fill.slot <= feed.finalized_through
=============================================================================
