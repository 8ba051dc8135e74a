------------------------------- MODULE Derive -------------------------------
(***************************************************************************)
(* The trade tape of one transaction, derived from the market before and   *)
(* after it and the decoded instructions.  Pure, like the crate it models; *)
(* module Indexer runs it against what the engine really did.              *)
(*                                                                         *)
(* Source: crates/clob-indexer/src, crates/clob-client/src/decode.rs       *)
(***************************************************************************)
EXTENDS Market, SequencesExt

(* An observed instruction: what was submitted, and the seat its submitter *)
(* held before the transaction (NoSeat: none, or not resolved).            *)
Blank == [kind |-> "Other", seat |-> NoSeat, ids |-> {}, packets |-> <<>>, side |-> "Bid"]

CanTake(packet) == packet.kind \in {"Limit", "ImmediateOrCancel"}

(* ClobInstruction::taker_side, as the set of the sides it can report.  A  *)
(* swap is a PlaceOrder of one immediate packet here, and a batch reports  *)
(* the side of its first packet that can take.                             *)
TakerSide(instruction) ==
  LET taking == SelectSeq(instruction.packets, CanTake)
  IN  IF taking = <<>> THEN {} ELSE {Head(taking).side}

-----------------------------------------------------------------------------
(* Context: what the instructions say about how to read the difference. *)

Kinds == {"PlaceOrder", "Swap", "CancelOrder", "ReduceOrder", "CancelAllOrders",
          "BatchUpdate", "Other"}

(* The takers of a transaction, in order. *)
Takers(observed) ==
  LET taking == SelectSeq(observed, LAMBDA i : TakerSide(i) # {})
  IN  [n \in DOMAIN taking |-> [side |-> CHOOSE s \in TakerSide(taking[n]) : TRUE,
                                seat |-> taking[n].seat]]

TakersAgainst(observed, side) ==
  SelectSeq(Takers(observed), LAMBDA taker : taker.side = Opposite(side))

ExplicitlyCancelled(observed, id) ==
  \E i \in DOMAIN observed :
    observed[i].kind \in {"CancelOrder", "ReduceOrder"} /\ id \in observed[i].ids

Cleared(observed, side) ==
  \E i \in DOMAIN observed :
    observed[i].kind = "CancelAllOrders" /\ observed[i].side = side

(* Mutant of ConsumedByTaker: what no stranger took, its owner did. *)
OwnersDoing(observed, side, owner) ==
  LET takers == TakersAgainst(observed, side)
  IN  IF takers = <<>> \/ Head(takers).seat = owner THEN "SelfTraded" ELSE "Fill"

(* consumed_by_taker: the first taker against the side decides. *)
ConsumedByTaker(observed, side, owner) ==
  LET takers == TakersAgainst(observed, side)
  IN  CASE takers = <<>>               -> "Cancelled"
        [] takers # <<>> /\ Head(takers).seat = owner -> "SelfTraded"
        [] OTHER                       -> "Fill"

(* Context::taker_seat: one known seat, or nobody. *)
TakerSeat(observed, side) ==
  LET seats == {taker.seat : taker \in Range(TakersAgainst(observed, side))}
  IN  IF Cardinality(seats) = 1 THEN CHOOSE s \in seats : TRUE ELSE NoSeat

-----------------------------------------------------------------------------
(* diff_side *)

RestingIds(m, side) ==
  {[side |-> side, seq |-> m.book[side][h].seq] : h \in LiveSlots(m, side)}

OrderOf(m, id) == m.book[id.side][CHOOSE h \in Found(m, id) : TRUE]

SizeOf(m, id) == IF Found(m, id) = {} THEN 0 ELSE OrderOf(m, id).size

(* Orders of the market before that have lost liquidity. *)
Shrunk(before, after) ==
  {id \in RestingIds(before, "Bid") \cup RestingIds(before, "Ask") :
     SizeOf(after, id) < SizeOf(before, id)}

Lost(before, after, id) == SizeOf(before, id) - SizeOf(after, id)

(* The rule that reads one removal, in the precedence of the module. *)
Reason(before, observed, id) ==
  IF ExplicitlyCancelled(observed, id) \/ Cleared(observed, id.side)
  THEN "Cancelled"
  ELSE ConsumedByTaker(observed, id.side, OrderOf(before, id).seat)

TradeOf(before, after, observed, id) ==
  LET order == OrderOf(before, id)
      lots  == Lost(before, after, id)
  IN  [order      |-> id,
       price      |-> order.price,
       lots       |-> lots,
       quote      |-> MinOf(QuoteLotsFor(order.price, lots), U64Max),
       maker_seat |-> order.seat,
       taker_seat |-> TakerSeat(observed, id.side)]

(* Mutant of TapeOrder: highest price first whichever side was taken. *)
HighestFirst(p, q) ==
  \/ p.price > q.price
  \/ p.price = q.price /\ p.order.seq < q.order.seq

(* Best price first, then oldest.  Bids taken and asks taken are ranked    *)
(* together; the code ranks a bid at u64::MAX - price.                     *)
TapeOrder(p, q) ==
  LET rank(t) == IF t.order.side = "Ask" THEN t.price ELSE U64Max - t.price
  IN  \/ rank(p) < rank(q)
      \/ rank(p) = rank(q) /\ p.order.seq < q.order.seq

(* derive *)
Trades(before, after, observed) ==
  SetToSortSeq({TradeOf(before, after, observed, id) :
                  id \in {i \in Shrunk(before, after) :
                            Reason(before, observed, i) = "Fill"}},
               TapeOrder)

Removals(before, after, observed) ==
  {[order |-> id, lots |-> Lost(before, after, id), reason |-> Reason(before, observed, id)] :
     id \in {i \in Shrunk(before, after) : Reason(before, observed, i) # "Fill"}}

FeesEarned(before, after) ==
  LET earned == after.collected_fees - before.collected_fees
  IN  IF earned < 0 THEN 0 ELSE earned

-----------------------------------------------------------------------------
(* BookDelta *)

SumOf(trades, field(_)) == FoldLeft(LAMBDA sum, t : sum + field(t), 0, trades)

LotsTraded(trades) == SumOf(trades, LAMBDA t : t.lots)
QuoteTraded(trades) == SumOf(trades, LAMBDA t : t.quote)

(* Mutant of FeesReconcile: the fee on the total only. *)
FeesReconcileInTotal(trades, earned) == earned = FeeOn(QuoteTraded(trades))

(* fees_reconcile: against the fee of each trade, or of the total. *)
FeesReconcile(trades, earned) ==
  \/ earned = SumOf(trades, LAMBDA t : FeeOn(t.quote))
  \/ earned = FeeOn(QuoteTraded(trades))

(* Mutant of AgreesWithEvent: one trade per fill the event carries. *)
AgreesWithDetail(trades, event) ==
  /\ LotsTraded(trades) = event.lots
  /\ QuoteTraded(trades) = event.quote
  /\ Len(trades) = Len(event.fills)

(* cross_check::agrees_with_event *)
AgreesWithEvent(trades, event) ==
  /\ LotsTraded(trades) = event.lots
  /\ QuoteTraded(trades) = event.quote
  /\ event.fills_seen = Len(event.fills) => Len(trades) = event.fills_seen
=============================================================================
