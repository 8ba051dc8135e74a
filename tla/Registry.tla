------------------------------- MODULE Registry -------------------------------
(***************************************************************************)
(* What the read side of the stream serves: one view per tracked market.   *)
(* Each method of the registry is an operator on a view; broadcasting to   *)
(* the sockets is in Feed.                                                 *)
(*                                                                         *)
(* A trade is a row [market, slot, signature, order]: order is the maker's *)
(* sequence number, which with slot and signature identifies a fill.       *)
(*                                                                         *)
(* Source: crates/clob-stream/src/registry.rs                              *)
(***************************************************************************)
EXTENDS Integers, Sequences, Sublists

CONSTANT TapeCapacity

ASSUME RegistryAssumption == TapeCapacity \in Nat \ {0}

NoView == [tracked |-> FALSE, state |-> 0, slot |-> 0, tape |-> <<>>,
           trades_seen |-> 0, finalized_through |-> 0, trades_retracted |-> 0]

NewView(state, slot) ==
  [NoView EXCEPT !.tracked = TRUE, !.state = state, !.slot = slot]

(* An existing view is left alone. *)
SeedView(view, state, slot) == IF view.tracked THEN view ELSE NewView(state, slot)

Newest(tape) ==
  IF Len(tape) > TapeCapacity
  THEN SubSeq(tape, Len(tape) - TapeCapacity + 1, Len(tape)) ELSE tape

ApplyDerived(view, state, slot, trades) ==
  [SeedView(view, state, slot) EXCEPT
     !.state = state,
     !.slot = slot,
     !.trades_seen = @ + Len(trades),
     !.tape = Newest(@ \o trades)]

(* Mutant of FinalizeView: the last slot reported, not the highest. *)
FinalizeLast(view, slot) ==
  IF view.tracked THEN [view EXCEPT !.finalized_through = slot] ELSE view

FinalizeView(view, slot) ==
  IF view.tracked /\ view.finalized_through < slot
  THEN [view EXCEPT !.finalized_through = slot] ELSE view

SurvivesSlot(tape, slot) == Sublist(tape, {i \in DOMAIN tape : tape[i].slot # slot})

(* Mutant of RetractView: withdraws one trade of the slot. *)
RetractFirst(view, slot) ==
  LET gone == {i \in DOMAIN view.tape : view.tape[i].slot = slot}
      first == CHOOSE i \in gone : \A j \in gone : i <= j
  IN  IF gone = {} THEN view
      ELSE [view EXCEPT !.tape = SubSeq(@, 1, first - 1) \o SubSeq(@, first + 1, Len(@)),
                        !.trades_retracted = @ + 1]

(* Mutant of RetractView: does not report what it withdrew. *)
RetractSilently(view, slot) == [view EXCEPT !.tape = SurvivesSlot(@, slot)]

(* Only the tape is corrected; the state waits for the next live update. *)
RetractView(view, slot) ==
  LET kept == SurvivesSlot(view.tape, slot)
  IN  [view EXCEPT !.tape = kept,
                   !.trades_retracted = @ + Len(view.tape) - Len(kept)]

=============================================================================
