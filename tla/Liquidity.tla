----------------------------- MODULE Liquidity ------------------------------
(***************************************************************************)
(* The read side of the book: what a client computes from the account      *)
(* bytes of a market before it trades.  The orders of a side come out of   *)
(* the account best first; price levels, depth, the cost of a sweep, the   *)
(* spread and the seats free for the taking are read off that sequence.    *)
(*                                                                         *)
(* Source: crates/clob-client/src/state.rs,                                *)
(*         crates/clob-book/src/book/depth.rs                              *)
(***************************************************************************)
EXTENDS Market, SequencesExt

CONSTANT NoSweep  \* the None of quote_sweep

(* iter_side, collected: the sequence in which a taker consumes the side.  *)
OrdersOf(m, side) ==
  SetToSortSeq({m.book[side][h] : h \in LiveSlots(m, side)},
               LAMBDA p, q : Precedes(side, p, q))

SaturatingAdd(a, b) == MinOf(a + b, U64Max)

LotsIn(orders) == FoldLeft(LAMBDA sum, o : SaturatingAdd(sum, o.size), 0, orders)

-----------------------------------------------------------------------------
(* depth_at_or_better, total_depth *)

(* Strictly better; as a mutant of IsMarketable, it leaves the limit out. *)
IsBetter(side, price, limit) ==
  IF side = "Bid" THEN price > limit ELSE price < limit

IsMarketable(side, price, limit) ==
  IF side = "Bid" THEN price >= limit ELSE price <= limit

(* The orders a limit reaches: iteration ends at the first it does not.    *)
ReachedBy(orders, side, limit) ==
  LET stop == SelectInSeq(orders, LAMBDA o : ~ IsMarketable(side, o.price, limit))
  IN  IF stop = 0 THEN orders ELSE SubSeq(orders, 1, stop - 1)

DepthAtOrBetter(m, side, limit) == LotsIn(ReachedBy(OrdersOf(m, side), side, limit))

TotalDepth(m, side) == LotsIn(OrdersOf(m, side))

-----------------------------------------------------------------------------
(* level_two *)

NewLevel(o) == [price |-> o.price, lots |-> o.size, orders |-> 1]

(* Mutant of JoinsLastLevel: takes whatever comes next. *)
JoinsAnyLevel(levels, o) == levels # <<>>

JoinsLastLevel(levels, o) == levels # <<>> /\ Last(levels).price = o.price

LevelTwo(m, side, depth) ==
  LET Add(levels, o) ==
        IF JoinsLastLevel(levels, o)
        THEN [levels EXCEPT ![Len(levels)].lots = SaturatingAdd(@, o.size),
                            ![Len(levels)].orders = @ + 1]
        ELSE IF Len(levels) = depth THEN levels ELSE Append(levels, NewLevel(o))
  IN  FoldLeft(Add, <<>>, OrdersOf(m, side))

-----------------------------------------------------------------------------
(* quote_sweep, sweep_price *)

(* Mutant of SweepEnd: an order emptied exactly does not end the sweep.    *)
SweepRunsOn(orders, size) ==
  SelectInSeq([i \in DOMAIN orders |-> LotsIn(SubSeq(orders, 1, i))],
              LAMBDA lots : lots > size)

(* Which order fills the last of size; 0 if the side does not hold it.     *)
SweepEnd(orders, size) ==
  SelectInSeq([i \in DOMAIN orders |-> LotsIn(SubSeq(orders, 1, i))],
              LAMBDA lots : lots >= size)

(* Every order before the last is taken whole. *)
SweepCost(orders, end, size) ==
  LET before == LotsIn(SubSeq(orders, 1, end - 1))
      taken(i) == IF i < end THEN orders[i].size ELSE size - before
  IN  FoldLeft(LAMBDA sum, i : sum + QuoteLotsFor(orders[i].price, taken(i)),
               0, [i \in 1 .. end |-> i])

(* None as well when the cost does not fit in 64 bits. *)
SweepAnswer(orders, end, size) ==
  IF end = 0 \/ SweepCost(orders, end, size) \notin U64
  THEN NoSweep
  ELSE [base |-> size, quote |-> SweepCost(orders, end, size),
        worst |-> orders[end].price]

QuoteSweep(m, side, size) ==
  LET orders == OrdersOf(m, side)
  IN  SweepAnswer(orders, SweepEnd(orders, size), size)

(* sweep_price: the book's own answer, which prices nothing. *)
SweepPrice(m, side, size) ==
  LET orders == OrdersOf(m, side)
      end == SweepEnd(orders, size)
  IN  IF end = 0 THEN NoPrice ELSE orders[end].price

-----------------------------------------------------------------------------
(* The touch and the seats *)

(* spread_in_ticks: None, here NoPrice, for an empty side or a crossed     *)
(* book; a locked book has a spread of zero.                               *)
SpreadInTicks(m) ==
  IF /\ \A side \in Sides : LiveSlots(m, side) # {}
     /\ BestPrice(m, "Ask") >= BestPrice(m, "Bid")
  THEN BestPrice(m, "Ask") - BestPrice(m, "Bid")
  ELSE NoPrice

SeatHolders(m) == {t \in Traders : m.seat_of[t] # NoSeat}

EvictableSeats(m) == {t \in SeatHolders(m) : IsEmpty(m.state[m.seat_of[t]])}

SeatsAreFull(m) == Cardinality(SeatHolders(m)) >= NumSeats
=============================================================================
