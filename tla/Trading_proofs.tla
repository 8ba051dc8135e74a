---------------------------- MODULE Trading_proofs ----------------------------
(***************************************************************************)
(* What a single step of an instruction may do to the book and to the      *)
(* balances, for every value of the constants: whom a taker hits and at    *)
(* what price, what a post-only order meets, when a book may cross, which  *)
(* order a sweep takes next, and what a swap leaves of the seat it took.   *)
(*                                                                         *)
(* Each operation of the engine replaces one order of the book (OneOrder). *)
(* The action properties follow from that and from what the best order is, *)
(* given TradeInv (module Clob), an inductive invariant over IInv.         *)
(***************************************************************************)
EXTENDS Clob_proofs

USE LotsAssumption, MarketAssumption, ClobAssumption

-----------------------------------------------------------------------------
(* What each operation does to the book. *)

(* n has the orders of m, save that o is in slot h of side. *)
OneOrder(m, n, side, h, o) ==
  \A d \in Sides : \A k \in Slots :
    n.book[d][k] = IF d = side /\ k = h THEN o ELSE m.book[d][k]

(* What is left of an order that lots were taken off. *)
Left(o, lots) == IF o.size = lots THEN NoOrder ELSE [o EXCEPT !.size = @ - lots]

LEMMA LeftFacts ==
  ASSUME NEW o \in Order, NEW lots \in 0 .. o.size
  PROVE  /\ Left(o, lots) \in Order
         /\ Left(o, lots).size = o.size - lots
         /\ Live(Left(o, lots)) =>
              /\ Live(o) /\ Left(o, lots).price = o.price
              /\ Left(o, lots).seq = o.seq /\ Left(o, lots).seat = o.seat
<1>1. CASE o.size = lots
  <2>1. o.size - lots = 0
    BY <1>1, OrderFields
  <2> QED BY <1>1, <2>1 DEF Left, NoOrder, Order, U64, NoSeat, Live
<1>2. CASE o.size # lots
  <2> DEFINE size == o.size - lots
  <2>1. size \in U64
    BY OrderFields DEF U64
  <2>2. Left(o, lots) = [o EXCEPT !.size = size]
    BY <1>2 DEF Left
  <2> HIDE DEF size
  <2>3. /\ [o EXCEPT !.size = size] \in Order
        /\ [o EXCEPT !.size = size].size = size
        /\ [o EXCEPT !.size = size].price = o.price
        /\ [o EXCEPT !.size = size].seq = o.seq
        /\ [o EXCEPT !.size = size].seat = o.seat
    BY <2>1 DEF Order
  <2> QED BY <2>2, <2>3 DEF Live, size
<1> QED BY <1>1, <1>2

LEMMA ShrinkBook ==
  ASSUME NEW m \in MarketType, NEW side \in Sides, NEW h \in Slots,
         NEW lots \in 0 .. m.book[side][h].size
  PROVE  LET n == Shrink(m, side, h, lots)
         IN  /\ OneOrder(m, n, side, h, Left(m.book[side][h], lots))
             /\ n.state = m.state /\ n.seat_of = m.seat_of
             /\ n.unclaimed_fees = m.unclaimed_fees
<1> DEFINE left == Left(m.book[side][h], lots)
           b == [m.book EXCEPT ![side][h] = left]
           n == Shrink(m, side, h, lots)
<1>1. left \in Order
  BY LeftFacts, MarketFields
<1>2. n = [m EXCEPT !.book = b]
  BY DEF Shrink, Left
<1> HIDE DEF left
<1>3. \A d \in Sides : \A k \in Slots :
        b[d][k] = IF d = side /\ k = h THEN left ELSE m.book[d][k]
  BY <1>1, BookUpdate
<1> HIDE DEF b, n
<1>4. /\ n.book = b /\ n.state = m.state /\ n.seat_of = m.seat_of
      /\ n.unclaimed_fees = m.unclaimed_fees
  BY <1>2 DEF MarketType
<1>5. OneOrder(m, n, side, h, left)
  BY <1>3, <1>4 DEF OneOrder
<1> QED BY <1>4, <1>5 DEF n, left

LEMMA ReleaseBook ==
  ASSUME NEW m, WellFormed(m), NEW side \in Sides, NEW h \in LiveSlots(m, side),
         NEW lots \in 0 .. m.book[side][h].size, CanRelease(m, side, h, lots)
  PROVE  LET n == Release(m, side, h, lots)
         IN  /\ OneOrder(m, n, side, h, Left(m.book[side][h], lots))
             /\ n.seat_of = m.seat_of
             /\ \A s \in Seats : s # m.book[side][h].seat => n.state[s] = m.state[s]
<1> DEFINE o == m.book[side][h]
           state == Unlock(m.state[o.seat], side, Backing(side, o.price, lots))
           p == [m EXCEPT !.state[o.seat] = state]
           n == Release(m, side, h, lots)
<1>1. o.seat \in Seats /\ state \in TraderState /\ h \in Slots /\ m \in MarketType
  BY LiveSlotFacts DEF WellFormed, CanRelease
<1>2. n = Shrink(p, side, h, lots)
  BY DEF Release
<1> HIDE DEF state, n
<1>3. /\ p \in MarketType /\ p.book = m.book /\ p.seat_of = m.seat_of
      /\ \A s \in Seats : s # o.seat => p.state[s] = m.state[s]
  BY <1>1 DEF MarketType
<1> HIDE DEF p
<1>4. /\ OneOrder(p, n, side, h, Left(p.book[side][h], lots))
      /\ n.state = p.state /\ n.seat_of = p.seat_of
  BY <1>1, <1>2, <1>3, ShrinkBook
<1>5. OneOrder(m, n, side, h, Left(o, lots))
  BY <1>3, <1>4 DEF OneOrder
<1> QED BY <1>3, <1>4, <1>5 DEF n

LEMMA PostBook ==
  ASSUME NEW m, WellFormed(m), NEW seat \in Seats, NEW side \in Sides,
         NEW price \in U64, NEW size \in U64, CanPost(m, seat, side, price, size)
  PROVE  LET n == Post(m, seat, side, price, size)
             o == [price |-> price, seq |-> m.next_seq, seat |-> seat, size |-> size]
         IN  \E h \in FreeSlots(m, side) : OneOrder(m, n, side, h, o)
<1> DEFINE n == Post(m, seat, side, price, size)
           o == [price |-> price, seq |-> m.next_seq, seat |-> seat, size |-> size]
           h == CHOOSE h \in FreeSlots(m, side) : TRUE
           b == [m.book EXCEPT ![side][h] = o]
           st == [m.state EXCEPT ![seat] = Lock(@, side, Backing(side, price, size))]
           q == m.next_seq + 1
<1>1. m \in MarketType /\ m.next_seq \in Nat
  BY MarketFields DEF WellFormed
<1>2. h \in FreeSlots(m, side) /\ h \in Slots
  BY DEF CanPost, FreeSlots
<1>3. o \in Order
  BY <1>1 DEF Order, Seats
<1>4. n = [m EXCEPT !.state = st, !.book = b, !.next_seq = q]
  BY DEF Post
<1> HIDE DEF o, h
<1>5. \A d \in Sides : \A k \in Slots :
        b[d][k] = IF d = side /\ k = h THEN o ELSE m.book[d][k]
  BY <1>1, <1>2, <1>3, BookUpdate
<1> HIDE DEF b, st, q, n
<1>6. n.book = b
  BY <1>1, <1>4 DEF MarketType
<1>7. OneOrder(m, n, side, h, o)
  BY <1>5, <1>6 DEF OneOrder
<1> QED BY <1>2, <1>7 DEF n, o

(* A fill replaces the maker's order and the balances of two seats. *)
LEMMA FillBook ==
  ASSUME NEW m, WellFormed(m), NEW k \in Taker, k.seat \in Seats, Reaches(m, k),
         CanSettle(m, k), ~ IsSelfTrade(m, k)
  PROVE  LET n == Fill(m, k)
         IN  /\ OneOrder(m, n, MakerSide(k), MakerSlot(m, k), Left(Maker(m, k), FillSize(m, k)))
             /\ n.seat_of = m.seat_of
             /\ n.unclaimed_fees = m.unclaimed_fees + Fee(m, k)
             /\ n.state[Maker(m, k).seat] = MakerSettled(m, k)
             /\ n.state[k.seat] = TakerSettled(m, k)
             /\ \A s \in Seats \ {Maker(m, k).seat, k.seat} : n.state[s] = m.state[s]
<1> DEFINE n == Fill(m, k)
           side == MakerSide(k)
           h == MakerSlot(m, k)
           lots == FillSize(m, k)
           maker == Maker(m, k).seat
           uf == m.unclaimed_fees + Fee(m, k)
           cf == m.collected_fees + Fee(m, k)
           st == [m.state EXCEPT ![maker] = MakerSettled(m, k), ![k.seat] = TakerSettled(m, k)]
           p == [m EXCEPT !.state = st, !.unclaimed_fees = uf, !.collected_fees = cf]
<1>1. /\ m \in MarketType /\ side \in Sides /\ h \in LiveSlots(m, side) /\ h \in Slots
      /\ maker \in Seats /\ maker # k.seat /\ Maker(m, k) = m.book[side][h]
  <2>1. LiveSlots(m, side) # {}
    BY DEF Reaches
  <2>2. side \in Sides /\ h \in LiveSlots(m, side) /\ maker \in Seats
    BY <2>1, MakerFacts
  <2> QED BY <2>2, LiveSlotFacts DEF WellFormed, IsSelfTrade, Maker
<1>2. lots \in 0 .. m.book[side][h].size
  <2>1. lots \in Nat /\ lots <= Maker(m, k).size
    BY FillAmounts
  <2>2. Maker(m, k).size \in Nat
    BY <1>1, MarketFields, OrderFields
  <2> QED BY <1>1, <2>1, <2>2
<1>3. /\ MakerSettled(m, k) \in TraderState /\ TakerSettled(m, k) \in TraderState
      /\ uf \in U64 /\ cf \in U64
  BY DEF CanSettle
<1>4. n = Shrink(p, side, h, lots)
  BY DEF Fill
<1>5. /\ st \in [Seats -> TraderState]
      /\ st[maker] = MakerSettled(m, k) /\ st[k.seat] = TakerSettled(m, k)
      /\ \A s \in Seats \ {maker, k.seat} : st[s] = m.state[s]
  <2> HIDE DEF maker
  <2> QED BY <1>1, <1>3, MarketFields
<1> HIDE DEF st, uf, cf, lots, h, side
<1>6. /\ p \in MarketType /\ p.book = m.book /\ p.seat_of = m.seat_of
      /\ p.state = st /\ p.unclaimed_fees = uf
  BY <1>1, <1>3, <1>5 DEF MarketType
<1> HIDE DEF p, n
<1>7. /\ OneOrder(p, n, side, h, Left(p.book[side][h], lots))
      /\ n.state = p.state /\ n.seat_of = p.seat_of
      /\ n.unclaimed_fees = p.unclaimed_fees
  BY <1>1, <1>2, <1>4, <1>6, ShrinkBook
<1>8. OneOrder(m, n, side, h, Left(Maker(m, k), lots))
  BY <1>1, <1>6, <1>7 DEF OneOrder
<1> QED BY <1>5, <1>6, <1>7, <1>8 DEF n, side, h, lots, uf

-----------------------------------------------------------------------------
(* The order of a book. *)

(* Of two orders with natural prices and ids, one precedes at most. *)
LEMMA PrecedesAsymmetric ==
  ASSUME NEW side \in Sides, NEW p \in Order, NEW q \in Order, Precedes(side, p, q)
  PROVE  ~ Precedes(side, q, p)
<1>1. p.price \in Nat /\ q.price \in Nat /\ p.seq \in Nat /\ q.seq \in Nat
  BY OrderFields
<1> QED BY <1>1 DEF Precedes, Sides

(* Nothing on the side is ahead of the best order. *)
LEMMA BestIsFirst ==
  ASSUME NEW m, WellFormed(m), NEW side \in Sides, NEW k \in LiveSlots(m, side)
  PROVE  ~ Precedes(side, m.book[side][k], m.book[side][Best(m, side)])
<1> DEFINE b == Best(m, side)
<1>1. /\ b \in LiveSlots(m, side)
      /\ \A j \in LiveSlots(m, side) \ {b} : Precedes(side, m.book[side][b], m.book[side][j])
  BY BestExists DEF Best, WellFormed
<1>2. m.book[side][b] \in Order /\ m.book[side][k] \in Order
  BY <1>1, LiveSlotFacts DEF WellFormed
<1> HIDE DEF b
<1>3. CASE k = b
  <2>1. m.book[side][b].price \in Nat /\ m.book[side][b].seq \in Nat
    BY <1>2, OrderFields
  <2> QED BY <1>3, <2>1 DEF Precedes, b
<1>4. CASE k # b
  BY <1>1, <1>2, <1>4, PrecedesAsymmetric DEF b
<1> QED BY <1>3, <1>4

(* ... so no order on it has a better price. *)
LEMMA BestPriceBounds ==
  ASSUME NEW m, WellFormed(m), NEW side \in Sides, NEW k \in LiveSlots(m, side)
  PROVE  /\ m.book[side][k].price \in Nat
         /\ BestPrice(m, side) \in Nat
         /\ side = "Bid" => m.book[side][k].price <= BestPrice(m, side)
         /\ side = "Ask" => m.book[side][k].price >= BestPrice(m, side)
<1>1. Best(m, side) \in LiveSlots(m, side)
  BY BestLive DEF WellFormed
<1>2. m.book[side][Best(m, side)] \in Order /\ m.book[side][k] \in Order
  BY <1>1, LiveSlotFacts DEF WellFormed
<1>3. ~ Precedes(side, m.book[side][k], m.book[side][Best(m, side)])
  BY BestIsFirst
<1>4. m.book[side][k].price \in Nat /\ BestPrice(m, side) \in Nat
  BY <1>2, OrderFields DEF BestPrice
<1> QED BY <1>3, <1>4 DEF Precedes, BestPrice

-----------------------------------------------------------------------------
(* A step of the cross loop. *)

(* The steps that may follow in the cross loop, short of a failure. *)
LEMMA CrossSteps ==
  ASSUME stage = "cross", stage' # "idle", [Next]_vars
  PROVE  FillBest \/ SelfTrade \/ RestRemainder \/ EndCross \/ UNCHANGED vars
BY DEF Next, Execute, Instruction, Initialize, CollectAccruedFees, Ready, ClaimASeat,
       EvictSeat, DepositFunds, WithdrawFunds, CancelOrder, ReduceOrder, PlaceOrder,
       CancelAll, BatchUpdate, Swap, CancelListed, CancelsDone, CancelNext,
       CancelAllDone, PlacePostOnly, StartCross, OrdersDone, SwapPaysOut,
       InstructionFails, Revert, Return

LEMMA ProceedMarket ==
  ASSUME IInv, NEW m, NEW st, NEW locals, Proceed(m, st, locals)
  PROVE  work'.market = m /\ chain' = chain /\ stage' = st /\ run' = locals
BY IInvParts DEF Proceed, Sound, Accounts

(* What the cross loop has in hand when it reaches a maker. *)
LEMMA MakerInHand ==
  ASSUME IInv, stage = "cross", Reaches(work.market, run.taker)
  PROVE  LET m == work.market
             k == run.taker
         IN  /\ WellFormed(m) /\ m \in MarketType
             /\ k \in Taker /\ k.seat \in Seats /\ k.side \in Sides
             /\ k.remaining \in Nat /\ k.seat # NoSeat
             /\ MakerSide(k) \in Sides
             /\ MakerSlot(m, k) \in LiveSlots(m, MakerSide(k))
             /\ MakerSlot(m, k) \in Slots
             /\ Maker(m, k) = m.book[MakerSide(k)][MakerSlot(m, k)]
             /\ Maker(m, k) \in Order
             /\ FillSize(m, k) \in 0 .. Maker(m, k).size
             /\ SelfTradeSize(m, k) \in 0 .. Maker(m, k).size
<1> DEFINE m == work.market
           k == run.taker
<1>1. /\ WellFormed(m) /\ k \in Taker /\ k.seat \in Seats /\ k.side \in Sides
      /\ k.remaining \in Nat /\ k.seat # NoSeat
  BY SameMarketKeeps, CrossFields DEF U64, Seats, NoSeat
<1>2. LiveSlots(m, MakerSide(k)) # {}
  BY DEF Reaches
<1>3. /\ MakerSide(k) \in Sides
      /\ MakerSlot(m, k) \in LiveSlots(m, MakerSide(k))
      /\ Maker(m, k) \in Order /\ Maker(m, k).size \in Nat
  BY <1>1, <1>2, MakerFacts
<1>4. /\ FillSize(m, k) \in 0 .. Maker(m, k).size
      /\ SelfTradeSize(m, k) \in 0 .. Maker(m, k).size
  BY <1>1, <1>3 DEF FillSize, SelfTradeSize, MinOf
<1>5. m \in MarketType /\ MakerSlot(m, k) \in Slots
  BY <1>1, <1>3 DEF WellFormed, LiveSlots
<1> QED BY <1>1, <1>3, <1>4, <1>5 DEF Maker

(* The book after a self-trade: the taker's own order is smaller or gone.  *)
LEMMA SelfTradeBook ==
  ASSUME IInv, SelfTrade
  PROVE  LET m == work.market
             k == run.taker
         IN  /\ OneOrder(m, work'.market, MakerSide(k), MakerSlot(m, k),
                         Left(Maker(m, k), SelfTradeSize(m, k)))
             /\ Maker(m, k).seat = k.seat
<1>1. /\ stage = "cross" /\ Reaches(work.market, run.taker)
      /\ IsSelfTrade(work.market, run.taker)
      /\ CanResolveSelfTrade(work.market, run.taker)
      /\ Proceed(ResolveSelfTrade(work.market, run.taker), stage,
                 [run EXCEPT !.taker = AfterSelfTrade(work.market, @)])
  BY DEF SelfTrade
<1> DEFINE m == work.market
           k == run.taker
           n == ResolveSelfTrade(m, k)
<1>2. work'.market = n
  BY <1>1, ProceedMarket
<1>3. n = Release(m, MakerSide(k), MakerSlot(m, k), SelfTradeSize(m, k))
  BY DEF ResolveSelfTrade
<1>4. CanRelease(m, MakerSide(k), MakerSlot(m, k), SelfTradeSize(m, k))
  BY <1>1 DEF CanResolveSelfTrade
<1>5. OneOrder(m, n, MakerSide(k), MakerSlot(m, k), Left(Maker(m, k), SelfTradeSize(m, k)))
  BY <1>1, <1>3, <1>4, MakerInHand, ReleaseBook
<1>6. Maker(m, k).seat = k.seat
  BY <1>1 DEF IsSelfTrade
<1> QED BY <1>2, <1>5, <1>6

(* The market after a fill. *)
LEMMA FillStep ==
  ASSUME IInv, FillBest
  PROVE  LET m == work.market
             k == run.taker
             n == work'.market
         IN  /\ OneOrder(m, n, MakerSide(k), MakerSlot(m, k), Left(Maker(m, k), FillSize(m, k)))
             /\ n.seat_of = m.seat_of
             /\ n.unclaimed_fees = m.unclaimed_fees + Fee(m, k)
             /\ n.state[Maker(m, k).seat] = MakerSettled(m, k)
             /\ n.state[k.seat] = TakerSettled(m, k)
             /\ \A s \in Seats \ {Maker(m, k).seat, k.seat} : n.state[s] = m.state[s]
             /\ Reaches(m, k) /\ Maker(m, k).seat # k.seat
<1>1. /\ stage = "cross" /\ Reaches(work.market, run.taker)
      /\ ~ IsSelfTrade(work.market, run.taker) /\ CanSettle(work.market, run.taker)
      /\ Proceed(Fill(work.market, run.taker), stage,
                 [run EXCEPT !.taker = AfterFill(work.market, @)])
  BY DEF FillBest, FillsNext
<1>2. work'.market = Fill(work.market, run.taker)
  BY <1>1, ProceedMarket
<1>3. /\ WellFormed(work.market) /\ run.taker \in Taker /\ run.taker.seat \in Seats
  BY <1>1, MakerInHand
<1> QED BY <1>1, <1>2, <1>3, FillBook DEF IsSelfTrade

(* The market after a remainder is rested: one more order. *)
LEMMA RestStep ==
  ASSUME IInv, RestRemainder
  PROVE  LET k == run.taker
             o == [price |-> k.limit, seq |-> work.market.next_seq,
                   seat |-> run.seat, size |-> k.remaining]
         IN  /\ k.side \in Sides /\ k.limit \in U64 /\ k.remaining > 0
             /\ CrossStops
             /\ \E h \in FreeSlots(work.market, k.side) :
                  OneOrder(work.market, work'.market, k.side, h, o)
<1> DEFINE n == Post(work.market, run.seat, run.taker.side, run.taker.limit,
                     run.taker.remaining)
<1>1. stage = "cross" /\ CrossStops /\ run.posts /\ run.taker.remaining > 0
      /\ CanRestRemainder
  BY DEF RestRemainder, RestsRemainder
<1>2. /\ WellFormed(work.market) /\ run.seat \in Seats /\ run.taker.side \in Sides
      /\ run.taker.limit \in U64 /\ run.taker.remaining \in U64
  BY <1>1, CrossFields, SameMarketKeeps
<1>3. work'.market = n
  BY ProceedMarket DEF RestRemainder
<1> HIDE DEF n
<1> QED BY <1>1, <1>2, <1>3, PostBook DEF CanRestRemainder, n

(* Lots are taken off another seat's order only by a fill, and the order   *)
(* they are taken off is the best of the other side.                       *)
LEMMA TakenIsBest ==
  ASSUME IInv, [Next]_vars, NEW side \in Sides, NEW h \in Slots, Taken(side, h)
  PROVE  /\ FillBest
         /\ side = MakerSide(run.taker)
         /\ h = MakerSlot(work.market, run.taker)
<1> DEFINE m == work.market
           n == work'.market
           k == run.taker
<1>1. /\ stage = "cross" /\ stage' # "idle"
      /\ m.book[side][h].seat # NoSeat /\ m.book[side][h].seat # k.seat
      /\ n.book[side][h].size < m.book[side][h].size
  BY DEF Taken
<1>2. m \in MarketType /\ m.book[side][h] \in Order /\ m.book[side][h].size \in Nat
  BY SameMarketKeeps, MarketFields, OrderFields DEF WellFormed
<1>3. n.book[side][h] # m.book[side][h]
  BY <1>1, <1>2
<1>4. FillBest \/ SelfTrade \/ RestRemainder \/ EndCross \/ UNCHANGED vars
  BY <1>1, CrossSteps
<1>5. CASE FillBest
  BY <1>3, <1>5, FillStep DEF OneOrder
<1>6. CASE SelfTrade
  <2>1. Reaches(m, k) /\ Maker(m, k) = m.book[MakerSide(k)][MakerSlot(m, k)]
    BY <1>6 DEF SelfTrade, Maker
  <2> QED BY <1>1, <1>3, <1>6, <2>1, SelfTradeBook DEF OneOrder
<1>7. CASE RestRemainder
  <2> DEFINE o == [price |-> k.limit, seq |-> work.market.next_seq,
                   seat |-> run.seat, size |-> k.remaining]
  <2>1. PICK g \in FreeSlots(m, k.side) : OneOrder(m, n, k.side, g, o)
    BY <1>7, RestStep
  <2> HIDE DEF o
  <2>2. side = k.side /\ h = g
    BY <1>3, <2>1 DEF OneOrder
  <2> QED BY <1>1, <2>1, <2>2 DEF FreeSlots, LiveSlots, Live
<1>8. CASE EndCross
  BY <1>3, <1>8, ProceedMarket DEF EndCross
<1>9. CASE UNCHANGED vars
  BY <1>3, <1>9 DEF vars
<1> QED BY <1>4, <1>5, <1>6, <1>7, <1>8, <1>9

(* A taker hits the maker that price-time priority puts first: nobody is   *)
(* passed over, whatever the seats, sizes and self-trades in the way.      *)
THEOREM MakersAreHitInPriorityOrder == Spec => PriceTimePriority
<1> DEFINE Hit == \A side \in Sides : \A h \in Slots : Taken(side, h) =>
             \A k \in LiveSlots(work.market, side) :
               ~ Precedes(side, work.market.book[side][k], work.market.book[side][h])
<1>1. IInv /\ [Next]_vars => Hit
  <2> SUFFICES ASSUME IInv, [Next]_vars, NEW side \in Sides, NEW h \in Slots,
                      Taken(side, h), NEW k \in LiveSlots(work.market, side)
               PROVE  ~ Precedes(side, work.market.book[side][k], work.market.book[side][h])
    OBVIOUS
  <2>1. h = Best(work.market, side)
    BY TakenIsBest DEF MakerSlot
  <2>2. WellFormed(work.market)
    BY SameMarketKeeps
  <2> QED BY <2>1, <2>2, BestIsFirst
<1>2. IInv /\ [Next]_vars => [Hit]_vars
  BY <1>1
<1> QED BY <1>2, Invariance, PTL DEF Spec, PriceTimePriority

-----------------------------------------------------------------------------
(* What a fill moves. *)

(* A fee is the least whole number of lots that covers the rate. *)
LEMMA CeilingExact ==
  ASSUME NEW x \in Nat
  PROVE  LET c == (x + (10000 - 1)) \div 10000
         IN  c \in Nat /\ (c - 1) * 10000 < x /\ x <= c * 10000
OBVIOUS

LEMMA FeeOnExact ==
  ASSUME NEW gross \in Nat
  PROVE  /\ FeeOn(gross) \in Nat
         /\ (FeeOn(gross) - 1) * BpsDenominator < gross * TakerFeeBps
         /\ gross * TakerFeeBps <= FeeOn(gross) * BpsDenominator
<1> DEFINE x == gross * TakerFeeBps
<1>1. x \in Nat
  BY DEF BpsDenominator
<1>2. FeeOn(gross) = (x + (10000 - 1)) \div 10000
  BY DEF FeeOn, BpsDenominator
<1> HIDE DEF x
<1>3. /\ FeeOn(gross) \in Nat /\ (FeeOn(gross) - 1) * 10000 < x
      /\ x <= FeeOn(gross) * 10000
  BY <1>1, <1>2, CeilingExact
<1> QED BY <1>3 DEF BpsDenominator, x

(* The balances a maker and a taker end a fill with, free and locked.      *)
LEMMA MakerMoves ==
  ASSUME NEW m, WellFormed(m), NEW k \in Taker, Reaches(m, k)
  PROVE  LET old == m.state[Maker(m, k).seat]
             new == MakerSettled(m, k)
         IN  IF k.side = "Bid"
             THEN /\ old.base_locked - new.base_locked = FillSize(m, k)
                  /\ new.quote_free - old.quote_free = Gross(m, k)
                  /\ new.base_free - old.base_free = 0
             ELSE /\ old.quote_locked - new.quote_locked = Gross(m, k)
                  /\ new.quote_free - old.quote_free = 0
                  /\ new.base_free - old.base_free = FillSize(m, k)
<1> DEFINE old == m.state[Maker(m, k).seat]
           lots == FillSize(m, k)
           gross == Gross(m, k)
<1>1. old \in TraderState
  <2>1. LiveSlots(m, MakerSide(k)) # {}
    BY DEF Reaches
  <2> QED BY <2>1, MakerFacts, MarketFields DEF WellFormed
<1>2. lots \in Nat /\ gross \in Nat
  BY FillAmounts
<1>3. /\ old.base_free \in Nat /\ old.base_locked \in Nat
      /\ old.quote_free \in Nat /\ old.quote_locked \in Nat
  BY <1>1, StateFields
<1>4. MakerSettled(m, k) =
        IF k.side = "Bid"
        THEN [old EXCEPT !.base_locked = @ - lots, !.quote_free = @ + gross]
        ELSE [old EXCEPT !.quote_locked = @ - gross, !.base_free = @ + lots]
  BY DEF MakerSettled
<1> HIDE DEF old, lots, gross
<1>5. CASE k.side = "Bid"
  <2> DEFINE new == [old EXCEPT !.base_locked = @ - lots, !.quote_free = @ + gross]
  <2>1. /\ new.base_locked = old.base_locked - lots
        /\ new.quote_free = old.quote_free + gross
        /\ new.base_free = old.base_free
    BY <1>1 DEF TraderState
  <2> HIDE DEF new
  <2>2. /\ old.base_locked - new.base_locked = lots
        /\ new.quote_free - old.quote_free = gross
        /\ new.base_free - old.base_free = 0
    BY <1>2, <1>3, <2>1
  <2> QED BY <1>4, <1>5, <2>2 DEF new, old, lots, gross
<1>6. CASE k.side # "Bid"
  <2> DEFINE new == [old EXCEPT !.quote_locked = @ - gross, !.base_free = @ + lots]
  <2>1. /\ new.quote_locked = old.quote_locked - gross
        /\ new.base_free = old.base_free + lots
        /\ new.quote_free = old.quote_free
    BY <1>1 DEF TraderState
  <2> HIDE DEF new
  <2>2. /\ old.quote_locked - new.quote_locked = gross
        /\ new.quote_free - old.quote_free = 0
        /\ new.base_free - old.base_free = lots
    BY <1>2, <1>3, <2>1
  <2> QED BY <1>4, <1>6, <2>2 DEF new, old, lots, gross
<1> QED BY <1>5, <1>6

LEMMA TakerMoves ==
  ASSUME NEW m, WellFormed(m), NEW k \in Taker, k.seat \in Seats, Reaches(m, k)
  PROVE  LET old == m.state[k.seat]
             new == TakerSettled(m, k)
         IN  /\ new.base_locked = old.base_locked
             /\ new.quote_locked = old.quote_locked
             /\ IF k.side = "Bid"
                THEN /\ new.base_free - old.base_free = FillSize(m, k)
                     /\ new.quote_free - old.quote_free = -(Gross(m, k) + Fee(m, k))
                ELSE /\ new.base_free - old.base_free = -FillSize(m, k)
                     /\ new.quote_free - old.quote_free = Gross(m, k) - Fee(m, k)
<1> DEFINE old == m.state[k.seat]
           lots == FillSize(m, k)
           gross == Gross(m, k)
           fee == Fee(m, k)
<1>1. old \in TraderState
  BY MarketFields DEF WellFormed
<1>2. lots \in Nat /\ gross \in Nat /\ fee \in Nat
  BY FillAmounts
<1>3. old.base_free \in Nat /\ old.quote_free \in Nat
  BY <1>1, StateFields
<1>4. TakerSettled(m, k) = IF k.side = "Bid"
                           THEN Credit(old, lots, -(gross + fee))
                           ELSE Credit(old, -lots, gross - fee)
  BY DEF TakerSettled
<1> HIDE DEF old, lots, gross, fee
<1>5. ASSUME NEW b \in Int, NEW q \in Int
      PROVE  LET new == Credit(old, b, q)
             IN  /\ new.base_locked = old.base_locked
                 /\ new.quote_locked = old.quote_locked
                 /\ new.base_free - old.base_free = b
                 /\ new.quote_free - old.quote_free = q
  <2> DEFINE new == Credit(old, b, q)
  <2>1. /\ new.base_free = old.base_free + b /\ new.quote_free = old.quote_free + q
        /\ new.base_locked = old.base_locked /\ new.quote_locked = old.quote_locked
    BY <1>1 DEF Credit, TraderState
  <2> HIDE DEF new
  <2>2. new.base_free - old.base_free = b /\ new.quote_free - old.quote_free = q
    BY <1>3, <2>1
  <2> QED BY <2>1, <2>2 DEF new
<1>6. /\ -(gross + fee) \in Int /\ gross - fee \in Int /\ -lots \in Int /\ lots \in Int
  BY <1>2
<1>7. CASE k.side = "Bid"
  BY <1>4, <1>5, <1>6, <1>7 DEF old, lots, gross, fee
<1>8. CASE k.side # "Bid"
  BY <1>4, <1>5, <1>6, <1>8 DEF old, lots, gross, fee
<1> QED BY <1>7, <1>8

(* Every fill is at the maker's price, within the taker's limit; it moves  *)
(* the maker's locked lots against exactly their value, charges the taker  *)
(* the fee rounded up to a lot, and touches nobody else.                   *)
THEOREM FillsAlwaysSettleExactly == Spec => FillsSettleExactly
<1> DEFINE Settled == \A side \in Sides : \A h \in Slots : Taken(side, h) =>
       LET o == work.market.book[side][h]
           lots == o.size - work'.market.book[side][h].size
           value == o.price * lots * QuoteLotsPerLotPerTick
           fee == work'.market.unclaimed_fees - work.market.unclaimed_fees
           taker == run.taker.seat
           old(s) == work.market.state[s]
           new(s) == work'.market.state[s]
           base(s) == new(s).base_free - old(s).base_free
           quote(s) == new(s).quote_free - old(s).quote_free
       IN  /\ Accepts(run.taker.side, o.price, run.taker.limit)
           /\ lots <= run.taker.remaining
           /\ (fee - 1) * BpsDenominator < value * TakerFeeBps
           /\ value * TakerFeeBps <= fee * BpsDenominator
           /\ IF side = "Ask"
              THEN /\ old(o.seat).base_locked - new(o.seat).base_locked = lots
                   /\ quote(o.seat) = value /\ quote(taker) = -(value + fee)
                   /\ base(o.seat) = 0 /\ base(taker) = lots
              ELSE /\ old(o.seat).quote_locked - new(o.seat).quote_locked = value
                   /\ quote(o.seat) = 0 /\ quote(taker) = value - fee
                   /\ base(o.seat) = lots /\ base(taker) = -lots
           /\ \A s \in Seats \ {o.seat, taker} : new(s) = old(s)
<1>1. IInv /\ [Next]_vars => Settled
  <2> SUFFICES ASSUME IInv, [Next]_vars, NEW side \in Sides, NEW h \in Slots, Taken(side, h)
               PROVE  LET o == work.market.book[side][h]
                          lots == o.size - work'.market.book[side][h].size
                          value == o.price * lots * QuoteLotsPerLotPerTick
                          fee == work'.market.unclaimed_fees - work.market.unclaimed_fees
                          taker == run.taker.seat
                          old(s) == work.market.state[s]
                          new(s) == work'.market.state[s]
                          base(s) == new(s).base_free - old(s).base_free
                          quote(s) == new(s).quote_free - old(s).quote_free
                      IN  /\ Accepts(run.taker.side, o.price, run.taker.limit)
                          /\ lots <= run.taker.remaining
                          /\ (fee - 1) * BpsDenominator < value * TakerFeeBps
                          /\ value * TakerFeeBps <= fee * BpsDenominator
                          /\ IF side = "Ask"
                             THEN /\ old(o.seat).base_locked - new(o.seat).base_locked = lots
                                  /\ quote(o.seat) = value /\ quote(taker) = -(value + fee)
                                  /\ base(o.seat) = 0 /\ base(taker) = lots
                             ELSE /\ old(o.seat).quote_locked - new(o.seat).quote_locked = value
                                  /\ quote(o.seat) = 0 /\ quote(taker) = value - fee
                                  /\ base(o.seat) = lots /\ base(taker) = -lots
                          /\ \A s \in Seats \ {o.seat, taker} : new(s) = old(s)
    BY Zenon
  <2> DEFINE m == work.market
             n == work'.market
             k == run.taker
             o == Maker(m, k)
             lots == FillSize(m, k)
             gross == Gross(m, k)
             fee == Fee(m, k)
  <2>1. /\ FillBest /\ side = MakerSide(k) /\ h = MakerSlot(m, k)
        /\ stage = "cross" /\ m.book[side][h] = o
    BY TakenIsBest DEF Taken, Maker
  <2>2. /\ n.book[side][h] = Left(o, lots)
        /\ n.unclaimed_fees = m.unclaimed_fees + fee
        /\ n.state[o.seat] = MakerSettled(m, k)
        /\ n.state[k.seat] = TakerSettled(m, k)
        /\ \A s \in Seats \ {o.seat, k.seat} : n.state[s] = m.state[s]
        /\ Reaches(m, k)
    BY <2>1, FillStep DEF OneOrder
  <2>3. /\ WellFormed(m) /\ k \in Taker /\ k.seat \in Seats /\ k.side \in Sides
        /\ k.remaining \in Nat /\ o \in Order /\ lots \in 0 .. o.size
    BY <2>1, <2>2, MakerInHand
  <2>4. o.size - n.book[side][h].size = lots
    <3>1. n.book[side][h].size = o.size - lots /\ o.size \in Nat
      BY <2>2, <2>3, LeftFacts, OrderFields
    <3> HIDE DEF o, lots
    <3> QED BY <2>3, <3>1
  <2>5. lots <= k.remaining
    <3>1. o.size \in Nat
      BY <2>3, OrderFields
    <3> QED BY <2>3, <3>1 DEF FillSize, MinOf
  <2>6. Accepts(k.side, o.price, k.limit)
    BY <2>2 DEF Reaches
  <2>7. gross = o.price * lots * QuoteLotsPerLotPerTick /\ gross \in Nat /\ fee \in Nat
    BY <2>2, <2>3, FillAmounts DEF Gross, QuoteLotsFor
  <2>8. n.unclaimed_fees - m.unclaimed_fees = fee
    <3>1. m.unclaimed_fees \in Nat
      BY <2>3, MarketFields DEF WellFormed, U64
    <3> HIDE DEF fee, m, n
    <3> QED BY <2>2, <2>7, <3>1
  <2>9. /\ (fee - 1) * BpsDenominator < gross * TakerFeeBps
        /\ gross * TakerFeeBps <= fee * BpsDenominator
    <3>1. fee = FeeOn(gross)
      BY DEF Fee
    <3> HIDE DEF fee, gross
    <3> QED BY <2>7, <3>1, FeeOnExact
  <2>10. side = "Ask" <=> k.side = "Bid"
    BY <2>1, <2>3 DEF MakerSide, Opposite, Sides
  <2>11. IF k.side = "Bid"
         THEN /\ m.state[o.seat].base_locked - n.state[o.seat].base_locked = lots
              /\ n.state[o.seat].quote_free - m.state[o.seat].quote_free = gross
              /\ n.state[o.seat].base_free - m.state[o.seat].base_free = 0
              /\ n.state[k.seat].base_free - m.state[k.seat].base_free = lots
              /\ n.state[k.seat].quote_free - m.state[k.seat].quote_free = -(gross + fee)
         ELSE /\ m.state[o.seat].quote_locked - n.state[o.seat].quote_locked = gross
              /\ n.state[o.seat].quote_free - m.state[o.seat].quote_free = 0
              /\ n.state[o.seat].base_free - m.state[o.seat].base_free = lots
              /\ n.state[k.seat].base_free - m.state[k.seat].base_free = -lots
              /\ n.state[k.seat].quote_free - m.state[k.seat].quote_free = gross - fee
    <3>1. IF k.side = "Bid"
          THEN /\ m.state[o.seat].base_locked - MakerSettled(m, k).base_locked = lots
               /\ MakerSettled(m, k).quote_free - m.state[o.seat].quote_free = gross
               /\ MakerSettled(m, k).base_free - m.state[o.seat].base_free = 0
          ELSE /\ m.state[o.seat].quote_locked - MakerSettled(m, k).quote_locked = gross
               /\ MakerSettled(m, k).quote_free - m.state[o.seat].quote_free = 0
               /\ MakerSettled(m, k).base_free - m.state[o.seat].base_free = lots
      BY <2>2, <2>3, MakerMoves
    <3>2. IF k.side = "Bid"
          THEN /\ TakerSettled(m, k).base_free - m.state[k.seat].base_free = lots
               /\ TakerSettled(m, k).quote_free - m.state[k.seat].quote_free = -(gross + fee)
          ELSE /\ TakerSettled(m, k).base_free - m.state[k.seat].base_free = -lots
               /\ TakerSettled(m, k).quote_free - m.state[k.seat].quote_free = gross - fee
      BY <2>2, <2>3, TakerMoves
    <3> HIDE DEF m, n, k, o, lots, gross, fee
    <3> QED BY <2>2, <3>1, <3>2
  <2> HIDE DEF m, n, k, o, lots, gross, fee
  <2>12. /\ Accepts(k.side, m.book[side][h].price, k.limit)
         /\ m.book[side][h].size - n.book[side][h].size = lots
         /\ m.book[side][h].price * lots * QuoteLotsPerLotPerTick = gross
    BY <2>1, <2>4, <2>6, <2>7
  <2> QED BY <2>1, <2>2, <2>5, <2>8, <2>9, <2>10, <2>11, <2>12 DEF m, n, k
<1> HIDE DEF Settled
<1>2. IInv /\ [Next]_vars => [Settled]_vars
  BY <1>1
<1>3. Spec => [][Settled]_vars
  BY <1>2, Invariance, PTL DEF Spec
<1> QED BY <1>3 DEF Settled, FillsSettleExactly

-----------------------------------------------------------------------------
(* A post-only order. *)

(* The price non_crossing_price settles on meets no order of the other side. *)
LEMMA NonCrossingPriceMeetsNone ==
  ASSUME NEW m, WellFormed(m), NEW side \in Sides, NEW price \in U64,
         NonCrossingPrice(m, side, price) # NoPrice,
         NEW k \in LiveSlots(m, Opposite(side))
  PROVE  LET mine == NonCrossingPrice(m, side, price)
             theirs == m.book[Opposite(side)][k].price
         IN  IF side = "Bid" THEN mine < theirs ELSE mine > theirs
<1> DEFINE touch == BestPrice(m, Opposite(side))
           theirs == m.book[Opposite(side)][k].price
<1>1. Opposite(side) \in Sides /\ price \in Nat
  BY DEF Opposite, Sides, U64
<1>2. theirs \in Nat /\ touch \in Nat
  BY <1>1, BestPriceBounds
<1>3. CASE side = "Bid"
  <2>1. Opposite(side) = "Ask"
    BY <1>3 DEF Opposite
  <2>2. theirs >= touch
    BY <1>1, <2>1, BestPriceBounds
  <2>3. NonCrossingPrice(m, side, price) =
          IF ~ (price >= touch) THEN price
          ELSE IF touch - 1 \in U64 \ {0} THEN touch - 1 ELSE NoPrice
    BY <1>3 DEF NonCrossingPrice
  <2> HIDE DEF touch, theirs
  <2>4. NonCrossingPrice(m, side, price) < theirs
    BY <1>1, <1>2, <2>2, <2>3
  <2> QED BY <1>3, <2>4 DEF theirs
<1>4. CASE side = "Ask"
  <2>1. Opposite(side) = "Bid"
    BY <1>4 DEF Opposite
  <2>2. theirs <= touch
    BY <1>1, <2>1, BestPriceBounds
  <2>3. NonCrossingPrice(m, side, price) =
          IF ~ (price <= touch) THEN price
          ELSE IF touch + 1 \in U64 \ {0} THEN touch + 1 ELSE NoPrice
    BY <1>4 DEF NonCrossingPrice
  <2> HIDE DEF touch, theirs
  <2>4. NonCrossingPrice(m, side, price) > theirs
    BY <1>1, <1>2, <2>2, <2>3
  <2> QED BY <1>4, <2>4 DEF theirs
<1> QED BY <1>3, <1>4 DEF Sides

(* The market after a post-only order is rested. *)
LEMMA PostOnlyStep ==
  ASSUME IInv, PlacePostOnly
  PROVE  LET o == [price |-> PostOnlyPrice, seq |-> work.market.next_seq,
                   seat |-> run.seat, size |-> Packet.size]
         IN  /\ Packet.side \in Sides /\ PostOnlyPrice \in U64
             /\ \A k \in LiveSlots(work.market, Opposite(Packet.side)) :
                  LET theirs == work.market.book[Opposite(Packet.side)][k].price
                  IN  IF Packet.side = "Bid" THEN PostOnlyPrice < theirs
                                             ELSE PostOnlyPrice > theirs
             /\ \E h \in FreeSlots(work.market, Packet.side) :
                  OneOrder(work.market, work'.market, Packet.side, h, o)
<1> DEFINE n == Post(work.market, run.seat, Packet.side, PostOnlyPrice, Packet.size)
<1>1. /\ run.packets # <<>> /\ Packet.kind = "PostOnly" /\ run.seat # NoSeat
      /\ PostOnlyPrice # NoPrice
      /\ CanPost(work.market, run.seat, Packet.side, PostOnlyPrice, Packet.size)
  BY DEF PlacePostOnly, PacketFails, CanPostOnly
<1>2. /\ Packet.side \in Sides /\ Packet.size \in U64 /\ Packet.price \in U64
      /\ run.seat \in Seats /\ WellFormed(work.market)
  BY <1>1, PacketTyped, RunFields, SameMarketKeeps DEF Seats, NoSeat
<1>3. PostOnlyPrice = NonCrossingPrice(work.market, Packet.side, Packet.price)
  BY DEF PostOnlyPrice
<1>4. PostOnlyPrice \in U64
  BY <1>1, <1>2, <1>3, NonCrossingPriceType
<1>5. \A k \in LiveSlots(work.market, Opposite(Packet.side)) :
        LET theirs == work.market.book[Opposite(Packet.side)][k].price
        IN  IF Packet.side = "Bid" THEN PostOnlyPrice < theirs ELSE PostOnlyPrice > theirs
  BY <1>1, <1>2, <1>3, NonCrossingPriceMeetsNone
<1>6. work'.market = n
  BY ProceedMarket DEF PlacePostOnly
<1> QED BY <1>1, <1>2, <1>4, <1>5, <1>6, PostBook

(* A post-only order never takes: wherever it comes to rest, slid or not,  *)
(* it meets no order of the other side.                                    *)
THEOREM PostOnlyAlwaysRestsApart == Spec => PostOnlyNeverCrosses
<1> DEFINE Apart == (stage = "packets" /\ stage' = "packets") =>
       \A h \in Slots : Rests(Packet.side, h) =>
         LET mine == work'.market.book[Packet.side][h].price
         IN  \A k \in LiveSlots(work.market, Opposite(Packet.side)) :
               LET theirs == work.market.book[Opposite(Packet.side)][k].price
               IN  IF Packet.side = "Bid" THEN mine < theirs ELSE mine > theirs
<1>1. ASSUME IInv, [Next]_vars, stage = "packets", stage' = "packets",
             NEW h \in Slots, Rests(Packet.side, h)
      PROVE  LET mine == work'.market.book[Packet.side][h].price
             IN  \A k \in LiveSlots(work.market, Opposite(Packet.side)) :
                   LET theirs == work.market.book[Opposite(Packet.side)][k].price
                   IN  IF Packet.side = "Bid" THEN mine < theirs ELSE mine > theirs
  <2>1. PlacePostOnly \/ UNCHANGED vars
    BY <1>1 DEF Next, Execute, Instruction, Initialize, CollectAccruedFees, Ready, ClaimASeat,
       EvictSeat, DepositFunds, WithdrawFunds, CancelOrder, ReduceOrder, PlaceOrder,
       CancelAll, BatchUpdate, Swap, CancelListed, CancelsDone, CancelNext,
       CancelAllDone, StartCross, FillBest, SelfTrade, RestRemainder, EndCross,
       OrdersDone, SwapPaysOut, InstructionFails, Revert, Return, Commit, Proceed
  <2>2. work'.market.book[Packet.side][h] # work.market.book[Packet.side][h]
    BY <1>1 DEF Rests
  <2>3. PlacePostOnly
    BY <2>1, <2>2 DEF vars
  <2>4. /\ Packet.side \in Sides
        /\ \A k \in LiveSlots(work.market, Opposite(Packet.side)) :
             LET theirs == work.market.book[Opposite(Packet.side)][k].price
             IN  IF Packet.side = "Bid" THEN PostOnlyPrice < theirs
                                        ELSE PostOnlyPrice > theirs
    BY <1>1, <2>3, PostOnlyStep
  <2>5. work'.market.book[Packet.side][h].price = PostOnlyPrice
    <3> DEFINE o == [price |-> PostOnlyPrice, seq |-> work.market.next_seq,
                     seat |-> run.seat, size |-> Packet.size]
    <3>1. PICK g \in FreeSlots(work.market, Packet.side) :
            OneOrder(work.market, work'.market, Packet.side, g, o)
      BY <1>1, <2>3, PostOnlyStep
    <3>2. o.price = PostOnlyPrice
      OBVIOUS
    <3> HIDE DEF o
    <3>3. work'.market.book[Packet.side][h] = o
      BY <2>2, <2>4, <3>1 DEF OneOrder
    <3> QED BY <3>2, <3>3
  <2> QED BY <2>4, <2>5
<1>2. IInv /\ [Next]_vars => Apart
  BY <1>1
<1> HIDE DEF Apart
<1>3. IInv /\ [Next]_vars => [Apart]_vars
  BY <1>2
<1>4. Spec => [][Apart]_vars
  BY <1>3, Invariance, PTL DEF Spec
<1> QED BY <1>4 DEF Apart, PostOnlyNeverCrosses

-----------------------------------------------------------------------------
(* TradeInv: which steps can end where. *)

(* An instruction ends with nothing half done. *)
LEMMA EndsCommitted ==
  ASSUME TradeInv, [Next]_vars, stage' = "idle"
  PROVE  work' = chain'
<1>1. ASSUME NEW accounts, Apply(accounts) \/ Commit(accounts) \/ Revert
      PROVE  work' = chain'
  BY <1>1 DEF Apply, Commit, Revert
<1>2. CASE Initialize \/ CollectAccruedFees
  BY <1>1, <1>2, Zenon DEF Initialize, CollectAccruedFees
<1>3. CASE \E t \in Traders : Instruction(t)
  <2>1. PICK t \in Traders : Instruction(t)
    BY <1>3
  <2>2. ~ \E packet \in Packets : PlaceOrder(t, packet)
    BY DEF PlaceOrder, Begin
  <2>3. ~ \E side \in Sides, limit \in CancelLimits : CancelAll(t, side, limit)
    BY DEF CancelAll, Begin
  <2>4. ~ \E ids \in {c \in SUBSET KnownIds : Cardinality(c) <= MaxCancels},
             ladder \in Ladders : BatchUpdate(t, ids, ladder)
    BY DEF BatchUpdate, Begin
  <2>5. ~ \E swap \in Swaps : Swap(t, swap)
    BY DEF Swap
  <2>6. CASE ClaimASeat(t) \/ EvictSeat(t)
    BY <1>1, <2>6, Zenon DEF ClaimASeat, EvictSeat
  <2>7. CASE \/ \E base, quote \in Amounts : DepositFunds(t, base, quote)
             \/ \E base, quote \in Amounts : WithdrawFunds(t, base, quote)
    BY <1>1, <2>7, Zenon DEF DepositFunds, WithdrawFunds
  <2>8. CASE \/ \E id \in KnownIds : CancelOrder(t, id)
             \/ \E id \in KnownIds, lots \in U64 : ReduceOrder(t, id, lots)
    BY <1>1, <2>8, Zenon DEF CancelOrder, ReduceOrder
  <2> QED BY <2>1, <2>2, <2>3, <2>4, <2>5, <2>6, <2>7, <2>8 DEF Instruction
<1>4. CASE Execute
  <2>1. ~ \/ \E id \in run.cancels : CancelListed(id)
          \/ CancelsDone \/ CancelNext \/ PlacePostOnly \/ StartCross
          \/ FillBest \/ SelfTrade \/ RestRemainder \/ EndCross
    BY DEF CancelListed, CancelsDone, CancelNext, PlacePostOnly, StartCross, FillBest,
           SelfTrade, RestRemainder, EndCross, Proceed
  <2>2. CASE CancelAllDone \/ OrdersDone \/ SwapPaysOut \/ InstructionFails
    BY <1>1, <2>2, Zenon DEF CancelAllDone, OrdersDone, SwapPaysOut, InstructionFails
  <2> QED BY <1>4, <2>1, <2>2 DEF Execute
<1>5. CASE UNCHANGED vars
  BY <1>5 DEF TradeInv, vars
<1> QED BY <1>2, <1>3, <1>4, <1>5 DEF Next

(* How the cross loop is entered and gone round. *)
LEMMA StepsIntoCross ==
  ASSUME [Next]_vars, stage' = "cross"
  PROVE  StartCross \/ FillBest \/ SelfTrade \/ UNCHANGED vars
<1>1. ASSUME NEW t \in Traders, Instruction(t) PROVE stage' # "cross"
  BY <1>1, ZenonT(30) DEF Instruction, Ready, ClaimASeat, EvictSeat, DepositFunds, WithdrawFunds,
     CancelOrder, ReduceOrder, PlaceOrder, CancelAll, BatchUpdate, Swap, Apply, Begin
<1>2. CASE Initialize \/ CollectAccruedFees
  BY <1>2 DEF Initialize, CollectAccruedFees, Ready, Apply
<1>3. CASE Execute
  <2>1. (\E id \in run.cancels : CancelListed(id)) => stage' # "cross"
    BY ZenonT(30) DEF CancelListed, Proceed
  <2>2. ~ CancelsDone /\ ~ CancelNext /\ ~ PlacePostOnly /\ ~ RestRemainder /\ ~ EndCross
    BY ZenonT(30) DEF CancelsDone, CancelNext, PlacePostOnly, RestRemainder, EndCross, Proceed
  <2>3. ~ CancelAllDone /\ ~ OrdersDone /\ ~ SwapPaysOut /\ ~ InstructionFails
    BY ZenonT(30) DEF CancelAllDone, OrdersDone, SwapPaysOut, InstructionFails, Commit, Revert, Return
  <2> QED BY <1>3, <2>1, <2>2, <2>3 DEF Execute
<1> QED BY <1>1, <1>2, <1>3 DEF Next

(* How a cancel-all begins and goes on. *)
LEMMA StepsIntoCancelAll ==
  ASSUME [Next]_vars, stage' = "cancel_all"
  PROVE  \/ \E t \in Traders : \E side \in Sides, limit \in CancelLimits : CancelAll(t, side, limit)
         \/ CancelNext
         \/ UNCHANGED vars
<1>1. ASSUME NEW t \in Traders, Instruction(t)
      PROVE  \E side \in Sides, limit \in CancelLimits : CancelAll(t, side, limit)
  BY <1>1, ZenonT(30) DEF Instruction, Ready, ClaimASeat, EvictSeat, DepositFunds, WithdrawFunds,
     CancelOrder, ReduceOrder, PlaceOrder, BatchUpdate, Swap, Apply, Begin
<1>2. CASE Initialize \/ CollectAccruedFees
  BY <1>2 DEF Initialize, CollectAccruedFees, Ready, Apply
<1>3. CASE Execute
  <2>1. (\E id \in run.cancels : CancelListed(id)) => stage' # "cancel_all"
    BY DEF CancelListed, Proceed
  <2>2. /\ ~ CancelsDone /\ ~ PlacePostOnly /\ ~ StartCross /\ ~ FillBest /\ ~ SelfTrade
        /\ ~ RestRemainder /\ ~ EndCross
    BY DEF CancelsDone, PlacePostOnly, StartCross, FillBest, SelfTrade, RestRemainder,
           EndCross, Proceed
  <2>3. ~ CancelAllDone /\ ~ OrdersDone /\ ~ SwapPaysOut /\ ~ InstructionFails
    BY DEF CancelAllDone, OrdersDone, SwapPaysOut, InstructionFails, Commit, Revert, Return
  <2> QED BY <1>3, <2>1, <2>2, <2>3 DEF Execute
<1> QED BY <1>1, <1>2, <1>3 DEF Next

(* The cross loop counts the makers it touches and stops at the limit.     *)
LEMMA TouchedWithinLimit ==
  ASSUME TradeInv, [Next]_vars, stage' = "cross"
  PROVE  run'.taker.touched <= run'.taker.match_limit
<1>1. IInv /\ run \in RunType /\ run.taker \in Taker
  BY RunFields DEF TradeInv
<1>2. CASE StartCross
  <2>1. run'.taker = [seat |-> run.seat, side |-> Packet.side,
                      limit |-> Packet.price, remaining |-> Packet.size,
                      filled |-> 0, touched |-> 0,
                      match_limit |-> Packet.match_limit,
                      self_trade |-> Packet.self_trade]
    BY <1>1, <1>2 DEF StartCross, Proceed, RunType
  <2>2. Packet.match_limit \in Nat
    BY <1>1, <1>2, PacketTyped DEF StartCross
  <2> QED BY <2>1, <2>2
<1>3. CASE FillBest \/ SelfTrade
  <2>1. run'.taker \in {AfterFill(work.market, run.taker), AfterSelfTrade(work.market, run.taker)}
    BY <1>1, <1>3 DEF FillBest, SelfTrade, Proceed, RunType
  <2>2. run.taker.touched < run.taker.match_limit
    BY <1>3 DEF FillBest, FillsNext, SelfTrade, Reaches
  <2>3. /\ run'.taker.touched = run.taker.touched + 1
        /\ run'.taker.match_limit = run.taker.match_limit
    BY <1>1, <2>1 DEF AfterFill, AfterSelfTrade, Taker
  <2>4. run.taker.touched \in Nat /\ run.taker.match_limit \in Nat
    BY <1>1 DEF Taker
  <2> QED BY <2>2, <2>3, <2>4
<1>4. CASE UNCHANGED vars
  BY <1>4 DEF TradeInv, vars
<1> QED BY <1>2, <1>3, <1>4, StepsIntoCross

(* The orders a sweep has yet to reach, and those it has taken, in a book  *)
(* it left as it was but for one cancel.                                   *)
SweepOrder(m, n, side, seat) ==
  /\ \A k \in OwnSlots(n, side, seat) : n.book[side][k] = m.book[side][k]
  /\ \A g \in OwnSlots(m, side, seat) \ OwnSlots(n, side, seat) :
       \A k \in OwnSlots(n, side, seat) :
         Precedes(side, m.book[side][g], n.book[side][k])

LEMMA TradeParts ==
  TradeInv <=> /\ IInv
               /\ stage = "idle" => work = chain
               /\ stage = "cross" => run.taker.touched <= run.taker.match_limit
               /\ stage = "cancel_all" =>
                    SweepOrder(chain.market, work.market, run.cancel_side, run.seat)
BY DEF TradeInv, SweepTakesBestFirst, SweepOrder

LEMMA TradePartsPrime ==
  TradeInv' <=> /\ IInv'
                /\ stage' = "idle" => work' = chain'
                /\ stage' = "cross" => run'.taker.touched <= run'.taker.match_limit
                /\ stage' = "cancel_all" =>
                     SweepOrder(chain'.market, work'.market, run'.cancel_side, run'.seat)
BY DEF TradeInv, SweepTakesBestFirst, SweepOrder, OwnSlots, LiveSlots

LEMMA SweepCancelsBest ==
  ASSUME NEW m, NEW n, WellFormed(n), NEW side \in Sides, NEW seat,
         SweepOrder(m, n, side, seat), OwnSlots(n, side, seat) # {},
         NEW best, best = BestOf(n, side, OwnSlots(n, side, seat)),
         NEW p, OneOrder(n, p, side, best, NoOrder)
  PROVE  SweepOrder(m, p, side, seat)
<1> DEFINE own == OwnSlots(n, side, seat)
           left == OwnSlots(p, side, seat)
<1>1. /\ own \in SUBSET LiveSlots(n, side)
      /\ best \in own
      /\ \A k \in own \ {best} : Precedes(side, n.book[side][best], n.book[side][k])
  <2>1. own \in SUBSET LiveSlots(n, side)
    BY DEF OwnSlots
  <2> QED BY <2>1, BestExists DEF WellFormed
<1>2. \A k \in Slots : p.book[side][k] = IF k = best THEN NoOrder ELSE n.book[side][k]
  BY DEF OneOrder
<1>3. left = own \ {best}
  <2>1. ASSUME NEW h \in Slots PROVE h \in left <=> h \in own /\ h # best
    <3>1. CASE h = best
      <4>1. p.book[side][h].seat = NoSeat
        BY <1>2, <3>1 DEF NoOrder
      <4> QED BY <3>1, <4>1, Zenon DEF OwnSlots, LiveSlots, Live
    <3>2. CASE h # best
      <4>1. p.book[side][h] = n.book[side][h]
        BY ONLY <1>2, <3>2, h \in Slots, Zenon
      <4> QED BY <3>2, <4>1, Zenon DEF OwnSlots, LiveSlots
    <3> QED BY <3>1, <3>2
  <2>2. left \subseteq Slots /\ own \subseteq Slots
    BY DEF OwnSlots, LiveSlots
  <2> QED BY <2>1, <2>2
<1>4. \A k \in left : k \in own /\ p.book[side][k] = n.book[side][k]
  BY <1>2, <1>3 DEF OwnSlots, LiveSlots
<1>5. n.book[side][best] = m.book[side][best]
  BY <1>1 DEF SweepOrder
<1>6. ASSUME NEW g \in OwnSlots(m, side, seat) \ left, NEW k \in left
      PROVE  Precedes(side, m.book[side][g], p.book[side][k])
  <2>1. CASE g = best
    BY <1>1, <1>3, <1>4, <1>5, <2>1
  <2>2. CASE g # best
    BY <1>3, <1>4, <1>6, <2>2 DEF SweepOrder
  <2> QED BY <2>1, <2>2
<1> QED BY <1>4, <1>6 DEF SweepOrder

LEMMA SweepGoesInOrder ==
  ASSUME TradeInv, [Next]_vars, stage' = "cancel_all"
  PROVE  SweepOrder(chain'.market, work'.market, run'.cancel_side, run'.seat)
<1>1. IInv /\ run \in RunType
  BY RunFields DEF TradeInv
<1>2. CASE \E t \in Traders : \E side \in Sides, limit \in CancelLimits : CancelAll(t, side, limit)
  <2>1. work' = chain'
    BY <1>2 DEF CancelAll, Begin
  <2> QED BY <2>1 DEF SweepOrder
<1>3. CASE CancelNext
  <2> DEFINE n == work.market
             side == run.cancel_side
  <2>1. /\ stage = "cancel_all" /\ OwnSlots(n, side, run.seat) # {}
        /\ CanRelease(n, side, OwnBest, OwnBestSize)
        /\ Proceed(Release(n, side, OwnBest, OwnBestSize), stage,
                   [run EXCEPT !.cancel_limit = @ - 1])
    BY <1>3 DEF CancelNext, SweepGoesOn, SweepFails
  <2>2. /\ WellFormed(n) /\ side \in Sides
        /\ OwnBest = BestOf(n, side, OwnSlots(n, side, run.seat))
    BY <1>1, SameMarketKeeps, RunFields DEF OwnBest
  <2>3. OwnBest \in LiveSlots(n, side)
    <3>1. OwnSlots(n, side, run.seat) \in SUBSET LiveSlots(n, side)
      BY DEF OwnSlots
    <3>2. n \in MarketType
      BY <2>2 DEF WellFormed
    <3> DEFINE own == OwnSlots(n, side, run.seat)
    <3>3. /\ n \in MarketType /\ IdsUnique(n) /\ side \in Sides
          /\ own \in SUBSET LiveSlots(n, side) /\ own # {} /\ OwnBest = BestOf(n, side, own)
      BY <2>1, <2>2, <3>1, <3>2 DEF WellFormed
    <3> HIDE DEF own, n, side
    <3> QED BY ONLY <3>3, BestExists
  <2>4. OwnBestSize = n.book[side][OwnBest].size /\ OwnBestSize \in 0 .. OwnBestSize
    BY <2>2, <2>3, LiveSlotFacts, OrderFields DEF OwnBestSize, WellFormed
  <2>5. OneOrder(n, Release(n, side, OwnBest, OwnBestSize), side, OwnBest,
                 Left(n.book[side][OwnBest], OwnBestSize))
    BY <2>1, <2>2, <2>3, <2>4, ReleaseBook, ZenonT(30)
  <2>6. Left(n.book[side][OwnBest], OwnBestSize) = NoOrder
    BY <2>4 DEF Left
  <2>7. OneOrder(n, work'.market, side, OwnBest, NoOrder) /\ chain' = chain
    BY <1>1, <2>1, <2>5, <2>6, ProceedMarket
  <2>8. run'.cancel_side = side /\ run'.seat = run.seat
    BY <1>1, <2>1 DEF Proceed, RunType
  <2>9. SweepOrder(chain.market, n, side, run.seat)
    BY <2>1, TradeParts
  <2> HIDE DEF n, side
  <2>10. SweepOrder(chain.market, work'.market, side, run.seat)
    BY <2>1, <2>2, <2>7, <2>9, SweepCancelsBest
  <2> QED BY <2>7, <2>8, <2>10
<1>4. CASE UNCHANGED vars
  BY <1>4, TradeParts DEF vars
<1> QED BY <1>2, <1>3, <1>4, StepsIntoCancelAll

LEMMA InitTrade == Init => TradeInv
<1> SUFFICES ASSUME Init PROVE TradeInv
  OBVIOUS
<1>1. stage = "idle" /\ work = chain
  BY DEF Init
<1> QED BY <1>1, InitInv, TradeParts

LEMMA NextTrade == TradeInv /\ [Next]_vars => TradeInv'
<1> SUFFICES ASSUME TradeInv, [Next]_vars PROVE TradeInv'
  OBVIOUS
<1>1. IInv'
  BY TradeParts, NextInv DEF StepKeeps
<1> QED BY <1>1, EndsCommitted, TouchedWithinLimit, SweepGoesInOrder, TradePartsPrime

(* Between instructions nothing is half done, the cross loop keeps to its  *)
(* match limit, and a sweep leaves the orders it has yet to reach alone.   *)
THEOREM TradeInvariance == Spec => []TradeInv
BY InitTrade, NextTrade, PTL DEF Spec

(* Cut short at any bound, a cancel-all has taken a seat's best-priced     *)
(* orders of the side and no other.                                        *)
THEOREM SweepAlwaysTakesBestFirst == Spec => []SweepTakesBestFirst
<1>1. TradeInv => SweepTakesBestFirst
  BY DEF TradeInv
<1> QED BY <1>1, TradeInvariance, PTL

-----------------------------------------------------------------------------
(* When a book may come to cross. *)

(* Two prices of opposite sides that would trade. *)
Meets(side, mine, theirs) == IF side = "Bid" THEN mine >= theirs ELSE mine <= theirs

(* A book that one order brought to cross, was crossed by that order.      *)
LEMMA CrossedByTheOrder ==
  ASSUME NEW m, NEW n, NEW side \in Sides, NEW h \in Slots, NEW o,
         OneOrder(m, n, side, h, o), ~ IsCrossed(m), IsCrossed(n)
  PROVE  /\ Live(o)
         /\ ~ (Live(m.book[side][h]) /\ m.book[side][h].price = o.price)
         /\ \E k \in LiveSlots(m, Opposite(side)) :
              Meets(side, o.price, m.book[Opposite(side)][k].price)
<1>1. PICK b \in LiveSlots(n, "Bid"), a \in LiveSlots(n, "Ask") :
        n.book["Bid"][b].price >= n.book["Ask"][a].price
  BY DEF IsCrossed
<1>2. b \in Slots /\ a \in Slots /\ Live(n.book["Bid"][b]) /\ Live(n.book["Ask"][a])
  BY DEF LiveSlots
<1>3. CASE side = "Bid"
  <2>1. n.book["Ask"][a] = m.book["Ask"][a] /\ a \in LiveSlots(m, "Ask")
    BY <1>2, <1>3 DEF OneOrder, LiveSlots, Sides
  <2>2. ~ (b \in LiveSlots(m, "Bid") /\ m.book["Bid"][b].price = n.book["Bid"][b].price)
    BY <1>1, <2>1 DEF IsCrossed
  <2>3. b = h /\ n.book["Bid"][b] = o
    BY <1>2, <1>3, <2>2 DEF OneOrder, LiveSlots, Sides
  <2> QED BY <1>1, <1>2, <1>3, <2>1, <2>2, <2>3 DEF Meets, Opposite, LiveSlots
<1>4. CASE side = "Ask"
  <2>1. n.book["Bid"][b] = m.book["Bid"][b] /\ b \in LiveSlots(m, "Bid")
    BY <1>2, <1>4 DEF OneOrder, LiveSlots, Sides
  <2>2. ~ (a \in LiveSlots(m, "Ask") /\ m.book["Ask"][a].price = n.book["Ask"][a].price)
    BY <1>1, <2>1 DEF IsCrossed
  <2>3. a = h /\ n.book["Ask"][a] = o
    BY <1>2, <1>4, <2>2 DEF OneOrder, LiveSlots, Sides
  <2>4. m.book["Bid"][b].price >= o.price
    BY <1>1, <2>1, <2>3
  <2>5. o.price <= m.book["Bid"][b].price
    BY <2>4
  <2> QED BY <1>2, <1>4, <2>1, <2>2, <2>3, <2>5 DEF Meets, Opposite, LiveSlots
<1> QED BY <1>3, <1>4 DEF Sides

(* ... and taking lots off an order never is what did it. *)
LEMMA TakingDoesNotCross ==
  ASSUME NEW m \in MarketType, NEW n, NEW side \in Sides, NEW h \in Slots,
         NEW lots \in 0 .. m.book[side][h].size,
         OneOrder(m, n, side, h, Left(m.book[side][h], lots)), IsCrossed(n)
  PROVE  IsCrossed(m)
<1>1. m.book[side][h] \in Order
  BY MarketFields
<1> DEFINE o == Left(m.book[side][h], lots)
<1>2. Live(o) => Live(m.book[side][h]) /\ o.price = m.book[side][h].price
  BY <1>1, LeftFacts
<1>3. OneOrder(m, n, side, h, o)
  OBVIOUS
<1> HIDE DEF o
<1> QED BY <1>2, <1>3, CrossedByTheOrder

(* The steps that leave the book as it was. *)
LEMMA StepsThatKeepTheBook ==
  ASSUME TradeInv,
         \/ \E t \in Traders : \E packet \in Packets : PlaceOrder(t, packet)
         \/ \E t \in Traders : \E side \in Sides, limit \in CancelLimits : CancelAll(t, side, limit)
         \/ \E t \in Traders : \E ids, ladder : BatchUpdate(t, ids, ladder)
         \/ \E t \in Traders : \E swap \in Swaps : Swap(t, swap)
         \/ CancelsDone \/ StartCross \/ EndCross
         \/ UNCHANGED vars
  PROVE  work'.market.book = work.market.book
<1>1. IInv /\ (stage = "idle" => work = chain)
  BY DEF TradeInv
<1>2. CASE \/ \E t \in Traders : \E packet \in Packets : PlaceOrder(t, packet)
           \/ \E t \in Traders : \E side \in Sides, limit \in CancelLimits : CancelAll(t, side, limit)
           \/ \E t \in Traders : \E ids, ladder : BatchUpdate(t, ids, ladder)
  <2>1. stage = "idle" /\ work' = chain
    BY <1>2, ZenonT(30) DEF PlaceOrder, CancelAll, BatchUpdate, Ready, Begin
  <2> QED BY <1>1, <2>1
<1>3. CASE \E t \in Traders : \E swap \in Swaps : Swap(t, swap)
  <2>1. PICK t \in Traders, swap \in Swaps : Swap(t, swap)
    BY <1>3
  <2> DEFINE m == ClaimSeat(chain.market, t)
             n == Deposit(m, m.seat_of[t], SwapInput(swap).base, SwapInput(swap).quote)
  <2>2. /\ stage = "idle"
        /\ work' = [Transfer(chain, SwapInput(swap).base, SwapInput(swap).quote)
                      EXCEPT !.market = n]
    BY <2>1, ZenonT(30) DEF Swap, Ready
  <2>3. chain \in Accounts /\ chain.market \in MarketType
    BY <1>1, IInvParts DEF Sound, Accounts
  <2>4. m.book = chain.market.book
    BY <2>3 DEF ClaimSeat, MarketType
  <2>5. n.book = m.book
    BY DEF Deposit
  <2> HIDE DEF n, m
  <2>6. work'.market = n
    BY <2>2, <2>3 DEF Transfer, Accounts
  <2> QED BY <1>1, <2>2, <2>4, <2>5, <2>6
<1>4. CASE CancelsDone \/ StartCross \/ EndCross
  BY <1>1, <1>4, ProceedMarket DEF CancelsDone, StartCross, EndCross
<1>5. CASE UNCHANGED vars
  BY <1>5 DEF vars
<1> QED BY <1>2, <1>3, <1>4, <1>5

(* The steps that only take orders, or lots of orders, off the book. *)
LEMMA StepsThatOnlyTake ==
  ASSUME TradeInv,
         (\E id \in run.cancels : CancelListed(id)) \/ CancelNext \/ FillBest \/ SelfTrade,
         IsCrossed(work'.market)
  PROVE  IsCrossed(work.market)
<1> DEFINE m == work.market
<1>1. IInv /\ WellFormed(m) /\ m \in MarketType
  BY SameMarketKeeps DEF TradeInv, WellFormed
<1>2. ASSUME NEW side \in Sides, NEW h \in LiveSlots(m, side),
             NEW size, size = m.book[side][h].size, CanRelease(m, side, h, size),
             work'.market = Release(m, side, h, size)
      PROVE  IsCrossed(m)
  <2>1. size \in 0 .. m.book[side][h].size /\ h \in Slots
    BY <1>1, <1>2, LiveSlotFacts, OrderFields
  <2>2. OneOrder(m, work'.market, side, h, Left(m.book[side][h], size))
    BY <1>1, <1>2, <2>1, ReleaseBook
  <2> QED BY <1>1, <2>1, <2>2, TakingDoesNotCross
<1>3. CASE \E id \in run.cancels : CancelListed(id)
  <2>1. PICK id \in run.cancels : CancelListed(id)
    BY <1>3
  <2>2. id \in OrderIds
    BY <1>1, RunFields
  <2>3. CASE work'.market = m
    BY <2>3
  <2>4. CASE work'.market # m
    <3>1. PICK h \in Found(m, id) :
            Proceed(Release(m, id.side, h, m.book[id.side][h].size),
                    stage, [run EXCEPT !.cancels = @ \ {id}])
      BY <1>1, <2>1, <2>4, ProceedMarket, ZenonT(30) DEF CancelListed
    <3>2. CanRelease(m, id.side, h, m.book[id.side][h].size)
      BY <2>1, ZenonT(30) DEF CancelListed, CancelFails
    <3>3. id.side \in Sides /\ h \in LiveSlots(m, id.side)
      BY <1>1, <2>2, FoundLive
    <3>4. work'.market = Release(m, id.side, h, m.book[id.side][h].size)
      BY <1>1, <3>1, ProceedMarket
    <3> QED BY <1>2, <3>2, <3>3, <3>4
  <2> QED BY <2>3, <2>4
<1>4. CASE CancelNext
  <2> DEFINE side == run.cancel_side
  <2>1. /\ OwnSlots(m, side, run.seat) # {} /\ CanRelease(m, side, OwnBest, OwnBestSize)
        /\ Proceed(Release(m, side, OwnBest, OwnBestSize), stage,
                   [run EXCEPT !.cancel_limit = @ - 1])
    BY <1>4 DEF CancelNext, SweepGoesOn, SweepFails
  <2>2. side \in Sides /\ OwnBest \in LiveSlots(m, side)
    <3>1. OwnSlots(m, side, run.seat) \in SUBSET LiveSlots(m, side) /\ side \in Sides
      BY <1>1, RunFields DEF OwnSlots
    <3> QED BY <1>1, <2>1, <3>1, BestExists DEF OwnBest, WellFormed
  <2>3. work'.market = Release(m, side, OwnBest, OwnBestSize)
    BY <1>1, <2>1, ProceedMarket
  <2> QED BY <1>2, <2>1, <2>2, <2>3 DEF OwnBestSize
<1>5. CASE FillBest \/ SelfTrade
  <2> DEFINE k == run.taker
  <2>1. stage = "cross" /\ Reaches(m, k)
    BY <1>5 DEF FillBest, FillsNext, SelfTrade
  <2>2. PICK lots \in 0 .. Maker(m, k).size :
          OneOrder(m, work'.market, MakerSide(k), MakerSlot(m, k), Left(Maker(m, k), lots))
    BY <1>1, <1>5, <2>1, FillStep, SelfTradeBook, MakerInHand
  <2>3. /\ MakerSide(k) \in Sides /\ MakerSlot(m, k) \in Slots
        /\ Maker(m, k) = m.book[MakerSide(k)][MakerSlot(m, k)]
    BY <1>1, <2>1, MakerInHand
  <2> QED BY <1>1, <2>2, <2>3, TakingDoesNotCross
<1> QED BY <1>3, <1>4, <1>5

(* A taker whose limit meets an order of the other side reaches the best.  *)
LEMMA MeetsTheBest ==
  ASSUME NEW m, WellFormed(m), NEW side \in Sides, NEW limit \in U64,
         NEW k \in LiveSlots(m, Opposite(side)),
         Meets(side, limit, m.book[Opposite(side)][k].price)
  PROVE  Accepts(side, BestPrice(m, Opposite(side)), limit)
<1>1. Opposite(side) \in Sides /\ limit \in Nat
  BY DEF Opposite, Sides, U64
<1>2. /\ m.book[Opposite(side)][k].price \in Nat
      /\ BestPrice(m, Opposite(side)) \in Nat
      /\ Opposite(side) = "Bid" =>
           m.book[Opposite(side)][k].price <= BestPrice(m, Opposite(side))
      /\ Opposite(side) = "Ask" =>
           m.book[Opposite(side)][k].price >= BestPrice(m, Opposite(side))
  BY <1>1, BestPriceBounds
<1>3. CASE side = "Bid"
  <2>1. Opposite(side) = "Ask" /\ limit >= m.book[Opposite(side)][k].price
    BY <1>3 DEF Opposite, Meets
  <2> QED BY <1>1, <1>2, <1>3, <2>1 DEF Accepts
<1>4. CASE side = "Ask"
  <2>1. Opposite(side) = "Bid" /\ limit <= m.book[Opposite(side)][k].price
    BY <1>4 DEF Opposite, Meets
  <2> QED BY <1>1, <1>2, <1>4, <2>1 DEF Accepts
<1> QED BY <1>3, <1>4 DEF Sides

(* An order joins the book across the spread only when matching stopped    *)
(* short of it: at the caller's match limit, or for want of funds.         *)
THEOREM CrossesOnlyAfterEarlyStop == Spec => CrossedOnlyAfterEarlyStop
<1> DEFINE Early ==
       (~ IsCrossed(work.market) /\ IsCrossed(work'.market) /\ stage' # "idle") =>
         /\ stage = "cross"
         /\ \/ run.taker.touched = run.taker.match_limit
            \/ CannotAfford
<1>1. ASSUME TradeInv, [Next]_vars, ~ IsCrossed(work.market), IsCrossed(work'.market),
             stage' # "idle"
      PROVE  /\ stage = "cross"
             /\ \/ run.taker.touched = run.taker.match_limit
                \/ CannotAfford
  <2> DEFINE m == work.market
             k == run.taker
  <2>1. IInv /\ WellFormed(m) /\ m \in MarketType
    BY <1>1, SameMarketKeeps DEF TradeInv, WellFormed
  <2>2. work'.market.book # m.book
    BY <1>1 DEF IsCrossed, LiveSlots
  <2>3. PlacePostOnly \/ RestRemainder
    <3>1. ~ \/ Initialize \/ CollectAccruedFees
            \/ CancelAllDone \/ OrdersDone \/ SwapPaysOut \/ InstructionFails
      BY <1>1 DEF Initialize, CollectAccruedFees, Ready, Apply, CancelAllDone, OrdersDone,
                  SwapPaysOut, InstructionFails, Commit, Revert, Return
    <3>2. \A t \in Traders :
            ~ \/ ClaimASeat(t) \/ EvictSeat(t)
              \/ \E base, quote \in Amounts : DepositFunds(t, base, quote)
              \/ \E base, quote \in Amounts : WithdrawFunds(t, base, quote)
              \/ \E id \in KnownIds : CancelOrder(t, id)
              \/ \E id \in KnownIds, lots \in U64 : ReduceOrder(t, id, lots)
      BY <1>1 DEF ClaimASeat, EvictSeat, DepositFunds, WithdrawFunds, CancelOrder,
                  ReduceOrder, Ready, Apply
    <3>3. ~ \/ \E t \in Traders : \E packet \in Packets : PlaceOrder(t, packet)
            \/ \E t \in Traders : \E side \in Sides, limit \in CancelLimits : CancelAll(t, side, limit)
            \/ \E t \in Traders : \E ids, ladder : BatchUpdate(t, ids, ladder)
            \/ \E t \in Traders : \E swap \in Swaps : Swap(t, swap)
            \/ CancelsDone \/ StartCross \/ EndCross
            \/ UNCHANGED vars
      BY <1>1, <2>2, StepsThatKeepTheBook
    <3>4. ~ \/ \E id \in run.cancels : CancelListed(id)
            \/ CancelNext \/ FillBest \/ SelfTrade
      BY <1>1, StepsThatOnlyTake
    <3>5. ~ \E t \in Traders : Instruction(t)
      BY <3>2, <3>3, Zenon DEF Instruction
    <3> QED BY <1>1, <3>1, <3>3, <3>4, <3>5, Zenon DEF Next, Execute
  <2>4. ~ PlacePostOnly
    <3> SUFFICES ASSUME PlacePostOnly PROVE FALSE
      OBVIOUS
    <3> DEFINE o == [price |-> PostOnlyPrice, seq |-> m.next_seq,
                     seat |-> run.seat, size |-> Packet.size]
               side == Packet.side
    <3>1. /\ side \in Sides /\ PostOnlyPrice \in U64
          /\ \A j \in LiveSlots(m, Opposite(side)) :
               LET theirs == m.book[Opposite(side)][j].price
               IN  IF side = "Bid" THEN PostOnlyPrice < theirs ELSE PostOnlyPrice > theirs
          /\ \E h \in FreeSlots(m, side) : OneOrder(m, work'.market, side, h, o)
      BY <2>1, PostOnlyStep
    <3>2. PICK h \in FreeSlots(m, side) : OneOrder(m, work'.market, side, h, o)
      BY <3>1
    <3>3. o.price = PostOnlyPrice /\ h \in Slots
      BY DEF FreeSlots
    <3> HIDE DEF o, side, m
    <3>4. PICK j \in LiveSlots(m, Opposite(side)) :
            Meets(side, PostOnlyPrice, m.book[Opposite(side)][j].price)
      BY <1>1, <3>1, <3>2, <3>3, CrossedByTheOrder DEF m
    <3>5. m.book[Opposite(side)][j].price \in Nat /\ PostOnlyPrice \in Nat
      <4>1. Opposite(side) \in Sides
        BY DEF Opposite, Sides
      <4> QED BY <2>1, <3>1, <4>1, BestPriceBounds DEF U64
    <3> QED BY <3>1, <3>4, <3>5 DEF Meets
  <2>5. RestRemainder
    BY <2>3, <2>4
  <2>6. stage = "cross" /\ CrossStops
    BY <2>5 DEF RestRemainder
  <2>7. Reaches(m, k) \/ k.touched = k.match_limit
    <3> DEFINE o == [price |-> k.limit, seq |-> m.next_seq,
                     seat |-> run.seat, size |-> k.remaining]
    <3>1. /\ k.side \in Sides /\ k.limit \in U64 /\ k.remaining > 0
          /\ \E h \in FreeSlots(m, k.side) : OneOrder(m, work'.market, k.side, h, o)
      BY <2>1, <2>5, RestStep
    <3>2. PICK h \in FreeSlots(m, k.side) : OneOrder(m, work'.market, k.side, h, o)
      BY <3>1
    <3>3. o.price = k.limit /\ h \in Slots
      BY DEF FreeSlots
    <3> HIDE DEF o, m, k
    <3>4. PICK j \in LiveSlots(m, Opposite(k.side)) :
            Meets(k.side, k.limit, m.book[Opposite(k.side)][j].price)
      BY <1>1, <3>1, <3>2, <3>3, CrossedByTheOrder DEF m
    <3>5. Accepts(k.side, BestPrice(m, Opposite(k.side)), k.limit)
      BY <2>1, <3>1, <3>4, MeetsTheBest
    <3>6. Accepts(k.side, Maker(m, k).price, k.limit) /\ LiveSlots(m, MakerSide(k)) # {}
      BY <3>4, <3>5 DEF Maker, MakerSide, MakerSlot, BestPrice
    <3>7. /\ k.touched \in Nat /\ k.match_limit \in Nat
          /\ k.touched <= k.match_limit
      BY <1>1, <2>1, <2>6, RunFields DEF k, TradeInv, Taker
    <3> QED BY <3>1, <3>6, <3>7 DEF Reaches
  <2> QED BY <2>6, <2>7 DEF CrossStops
<1>2. TradeInv /\ [Next]_vars => Early
  BY <1>1
<1> HIDE DEF Early
<1>3. TradeInv /\ [Next]_vars => [Early]_vars
  BY <1>2
<1>4. Spec => [][Early]_vars
  BY <1>3, TradeInvariance, PTL DEF Spec
<1> QED BY <1>4 DEF Early, CrossedOnlyAfterEarlyStop

-----------------------------------------------------------------------------
(* What a swap leaves of the seat it claimed. *)

(* The part of SwapSeatInv about the locals: a swap takes and never posts.     *)
SwapTakes(st, r) ==
  r.swap.active =>
    /\ st \in {"packets", "cross"}
    /\ ~ r.posts
    /\ \A i \in DOMAIN r.packets : r.packets[i].kind = "ImmediateOrCancel"

(* SwapSeatIsItsOwn, of locals, a committed market and one in work.        *)
OwnSeat(r, c, m) ==
  r.swap.active /\ r.swap.created =>
    /\ r.seat \in Seats
    /\ r.swap.base = 0 /\ r.swap.quote = 0
    /\ ~ SeatLive(c, r.seat)
    /\ \E t \in Traders : /\ c.seat_of[t] = NoSeat
                          /\ m.seat_of = [c.seat_of EXCEPT ![t] = r.seat]
    /\ m.state[r.seat].base_locked = 0
    /\ m.state[r.seat].quote_locked = 0
    /\ \A side \in Sides : OwnSlots(m, side, r.seat) = {}

LEMMA SwapParts ==
  SwapSeatInv <=> /\ LedgerInv
              /\ SwapTakes(stage, run)
              /\ OwnSeat(run, chain.market, work.market)
BY DEF SwapSeatInv, SwapSeatIsItsOwn, SwapTakes, OwnSeat

LEMMA SwapPartsPrime ==
  SwapSeatInv' <=> /\ LedgerInv'
               /\ SwapTakes(stage', run')
               /\ OwnSeat(run', chain'.market, work'.market)
BY DEF SwapSeatInv, SwapSeatIsItsOwn, SwapTakes, OwnSeat, OwnSlots, LiveSlots, SeatLive

(* What every step must show. *)
SwapKeeps ==
  SwapTakes(stage', run') /\ OwnSeat(run', chain'.market, work'.market)

(* Locals of an instruction that is no swap. *)
LEMMA NoSwapKeeps ==
  ASSUME run'.swap.active = FALSE
  PROVE  SwapKeeps
BY DEF SwapKeeps, SwapTakes, OwnSeat

LEMMA RunKeepsNoSwap ==
  ASSUME SwapSeatInv, run'.swap = run.swap, ~ run.swap.active
  PROVE  SwapKeeps
BY DEF SwapKeeps, SwapTakes, OwnSeat

(* The seat a swap claims was nobody's, and it has nothing at rest. *)
LEMMA ClaimedSeatIsOwn ==
  ASSUME NEW c, WellFormed(c), Balanced(c), NEW t \in Traders, CanClaimSeat(c, t),
         c.seat_of[t] = NoSeat, NEW base \in Int, NEW quote \in Int,
         NEW m, m = ClaimSeat(c, t), NEW s, s = m.seat_of[t],
         NEW n, n = Deposit(m, s, base, quote)
  PROVE  /\ s \in Seats
         /\ m.state[s].base_free = 0 /\ m.state[s].quote_free = 0
         /\ ~ SeatLive(c, s)
         /\ n.seat_of = [c.seat_of EXCEPT ![t] = s]
         /\ n.state[s].base_locked = 0
         /\ n.state[s].quote_locked = 0
         /\ \A side \in Sides : OwnSlots(n, side, s) = {}
<1> DEFINE x == CHOOSE x \in FreeSeats(c) : TRUE
<1>1. c \in MarketType /\ OrdersOwned(c)
  BY DEF WellFormed, Balanced
<1>2. x \in FreeSeats(c)
  BY DEF CanClaimSeat
<1>3. m = [c EXCEPT !.seat_of[t] = x, !.state[x] = EmptyState]
  BY DEF ClaimSeat
<1> HIDE DEF x
<1>4. x \in Seats /\ ~ SeatLive(c, x)
  BY <1>2 DEF FreeSeats
<1>5. /\ m.seat_of = [c.seat_of EXCEPT ![t] = x] /\ m.state[x] = EmptyState
      /\ m.book = c.book /\ m.seat_of[t] = x /\ m.state \in [Seats -> TraderState]
  <2>1. EmptyState \in TraderState
    BY DEF EmptyState, TraderState, U64
  <2>2. /\ m.seat_of = [c.seat_of EXCEPT ![t] = x]
        /\ m.state = [c.state EXCEPT ![x] = EmptyState]
        /\ m.book = c.book
    BY <1>1, <1>3 DEF MarketType
  <2>3. c.seat_of \in [Traders -> 0 .. NumSeats] /\ c.state \in [Seats -> TraderState]
    BY <1>1, MarketFields
  <2> QED BY <1>4, <2>1, <2>2, <2>3
<1>6. s = x
  BY <1>5
<1>7. n.book = m.book /\ n.seat_of = m.seat_of /\ n.state[s] = Credit(EmptyState, base, quote)
  <2>1. n.state = [m.state EXCEPT ![s] = Credit(@, base, quote)]
    <3>1. m \in [seat_of : {m.seat_of}, state : {m.state}, book : {m.book},
                  next_seq : {m.next_seq}, base_deposited : {m.base_deposited},
                  quote_deposited : {m.quote_deposited},
                  unclaimed_fees : {m.unclaimed_fees}, collected_fees : {m.collected_fees}]
      BY <1>1, <1>3 DEF MarketType
    <3> QED BY <3>1 DEF Deposit
  <2>2. n.state[s] = Credit(m.state[s], base, quote)
    BY <1>4, <1>5, <1>6, <2>1
  <2> QED BY <1>5, <1>6, <2>2 DEF Deposit
<1>8. n.state[s].base_locked = 0 /\ n.state[s].quote_locked = 0
  BY <1>7 DEF Credit, EmptyState
<1>9. ASSUME NEW side \in Sides, NEW h \in OwnSlots(n, side, s)
      PROVE  FALSE
  <2>1. h \in LiveSlots(c, side) /\ c.book[side][h].seat = s
    BY <1>5, <1>7 DEF OwnSlots, LiveSlots
  <2> QED BY <1>1, <1>4, <1>6, <2>1 DEF OrdersOwned
<1>10. \A side \in Sides : OwnSlots(n, side, s) = {}
  BY <1>9
<1>11. m.state[s].base_free = 0 /\ m.state[s].quote_free = 0
  BY <1>5, <1>6 DEF EmptyState
<1> QED BY <1>4, <1>5, <1>6, <1>7, <1>8, <1>10, <1>11

LEMMA SwapKeepsItsSeat ==
  \A t \in Traders : \A swap \in Swaps : SwapSeatInv /\ Swap(t, swap) => SwapKeeps
<1> SUFFICES ASSUME NEW t \in Traders, NEW swap \in Swaps, SwapSeatInv, Swap(t, swap)
             PROVE  SwapKeeps
  OBVIOUS
<1> DEFINE m == ClaimSeat(chain.market, t)
           s == m.seat_of[t]
           in == SwapInput(swap)
           n == Deposit(m, s, in.base, in.quote)
           ps == <<SwapPacket(swap)>>
           sw == [active |-> TRUE, created |-> SeatOf(t) = NoSeat,
                  base |-> m.state[s].base_free, quote |-> m.state[s].quote_free]
           locals == [NothingRunning EXCEPT !.seat = s, !.packets = ps, !.swap = sw]
           new == [Transfer(chain, in.base, in.quote) EXCEPT !.market = n]
<1>1. /\ work' = new /\ stage' = "packets" /\ run' = locals /\ chain' = chain
      /\ CanClaimSeat(chain.market, t)
  BY DEF Swap
<1>2. LedgerInv
  BY DEF SwapSeatInv
<1>3. in.base \in Int /\ in.quote \in Int
  BY SwapTyped
<1>4. /\ sw.active = TRUE /\ sw.created = (chain.market.seat_of[t] = NoSeat)
      /\ sw.base = m.state[s].base_free /\ sw.quote = m.state[s].quote_free
  BY DEF SeatOf
<1>5. \A i \in DOMAIN ps : ps[i].kind = "ImmediateOrCancel"
  BY DEF SwapPacket
<1> HIDE DEF sw, ps, in
<1>6. new.market = n
  BY <1>2, LedgerMarkets, IInvParts DEF Transfer, Sound, Accounts
<1>7. chain.market.seat_of[t] = NoSeat =>
        /\ s \in Seats
        /\ m.state[s].base_free = 0 /\ m.state[s].quote_free = 0
        /\ ~ SeatLive(chain.market, s)
        /\ n.seat_of = [chain.market.seat_of EXCEPT ![t] = s]
        /\ n.state[s].base_locked = 0
        /\ n.state[s].quote_locked = 0
        /\ \A side \in Sides : OwnSlots(n, side, s) = {}
  BY <1>1, <1>2, <1>3, LedgerMarkets, ClaimedSeatIsOwn
<1> HIDE DEF m, n, s, new
<1>8. /\ run'.seat = s /\ run'.packets = ps /\ run'.swap = sw /\ run'.posts = FALSE
  BY <1>1 DEF NothingRunning
<1> HIDE DEF locals
<1>9. SwapTakes(stage', run')
  BY <1>1, <1>5, <1>8 DEF SwapTakes
<1>10. OwnSeat(run', chain'.market, work'.market)
  BY <1>1, <1>4, <1>6, <1>7, <1>8 DEF OwnSeat
<1> QED BY <1>9, <1>10 DEF SwapKeeps

LEMMA IdleIsNoSwap ==
  ASSUME SwapSeatInv, stage \notin {"packets", "cross"}
  PROVE  ~ run.swap.active
BY SwapParts DEF SwapTakes

LEMMA EndedIsNoSwap ==
  ASSUME run' = NothingRunning
  PROVE  SwapKeeps
BY NoSwapKeeps DEF NothingRunning, NoSwap

(* The instructions that run in one step, and how each of the others begins. *)
LEMMA InstructionKeepsSwapSeat ==
  \A t \in Traders : SwapSeatInv /\ Instruction(t) => SwapKeeps
<1> SUFFICES ASSUME NEW t \in Traders, SwapSeatInv, Instruction(t) PROVE SwapKeeps
  OBVIOUS
<1>1. ASSUME stage = "idle", run' = run
      PROVE  SwapKeeps
  BY <1>1, IdleIsNoSwap, RunKeepsNoSwap
<1>2. ASSUME run'.swap = NoSwap
      PROVE  SwapKeeps
  BY <1>2, NoSwapKeeps DEF NoSwap
<1>3. ASSUME \/ ClaimASeat(t) \/ EvictSeat(t)
             \/ \E base, quote \in Amounts : DepositFunds(t, base, quote)
             \/ \E base, quote \in Amounts : WithdrawFunds(t, base, quote)
             \/ \E id \in KnownIds : CancelOrder(t, id)
             \/ \E id \in KnownIds, lots \in U64 : ReduceOrder(t, id, lots)
      PROVE  SwapKeeps
  <2>1. stage = "idle" /\ run' = run
    BY <1>3, ZenonT(30) DEF ClaimASeat, EvictSeat, DepositFunds, WithdrawFunds, CancelOrder,
                            ReduceOrder, Ready, Apply
  <2> QED BY <1>1, <2>1
<1>4. ASSUME \/ \E packet \in Packets : PlaceOrder(t, packet)
             \/ \E side \in Sides, limit \in CancelLimits : CancelAll(t, side, limit)
             \/ \E ids \in {c \in SUBSET KnownIds : Cardinality(c) <= MaxCancels},
                   ladder \in Ladders : BatchUpdate(t, ids, ladder)
      PROVE  SwapKeeps
  <2>1. run'.swap = NoSwap
    BY <1>4 DEF PlaceOrder, CancelAll, BatchUpdate, Begin, NothingRunning
  <2> QED BY <1>2, <2>1
<1>5. ASSUME \E swap \in Swaps : Swap(t, swap)
      PROVE  SwapKeeps
  BY <1>5, SwapKeepsItsSeat
<1> QED BY <1>3, <1>4, <1>5, Zenon DEF Instruction

(* The steps of an instruction that is no swap, and those that end one.    *)
LEMMA OtherStepsKeepSwapSeat ==
  ASSUME SwapSeatInv,
         \/ Initialize \/ CollectAccruedFees
         \/ \E id \in run.cancels : CancelListed(id)
         \/ CancelsDone \/ CancelNext \/ CancelAllDone \/ OrdersDone
         \/ SwapPaysOut \/ InstructionFails
         \/ UNCHANGED vars
  PROVE  SwapKeeps
<1>1. ASSUME stage \notin {"packets", "cross"}, run'.swap = run.swap
      PROVE  SwapKeeps
  BY <1>1, IdleIsNoSwap, RunKeepsNoSwap
<1>2. run \in RunType
  BY SwapParts, LedgerMarkets, RunFields
<1>3. CASE \/ Initialize \/ CollectAccruedFees
  BY <1>1, <1>3 DEF Initialize, CollectAccruedFees, Ready, Apply
<1>4. CASE \E id \in run.cancels : CancelListed(id)
  <2>1. PICK id \in run.cancels : CancelListed(id)
    BY <1>4
  <2>2. stage = "cancels" /\ run' = [run EXCEPT !.cancels = @ \ {id}]
    BY <2>1 DEF CancelListed, Proceed
  <2>3. run'.swap = run.swap
    BY <1>2, <2>2 DEF RunType
  <2> QED BY <1>1, <2>2, <2>3
<1>5. CASE CancelsDone
  BY <1>1, <1>5 DEF CancelsDone, Proceed
<1>6. CASE CancelNext
  <2>1. stage = "cancel_all" /\ run' = [run EXCEPT !.cancel_limit = @ - 1]
    BY <1>6 DEF CancelNext, Proceed
  <2>2. run'.swap = run.swap
    BY <1>2, <2>1 DEF RunType
  <2> QED BY <1>1, <2>1, <2>2
<1>7. CASE CancelAllDone \/ OrdersDone \/ SwapPaysOut \/ InstructionFails
  <2>1. run' = NothingRunning
    BY <1>7 DEF CancelAllDone, OrdersDone, SwapPaysOut, InstructionFails,
                Commit, Revert, Return
  <2> QED BY <2>1, EndedIsNoSwap
<1>8. CASE UNCHANGED vars
  BY <1>8, SwapParts DEF vars, SwapKeeps
<1> QED BY <1>3, <1>4, <1>5, <1>6, <1>7, <1>8

(* A swap's only packet is immediate, and what is left of a queue is queued. *)
LEMMA SwapQueue ==
  ASSUME SwapSeatInv, run.packets # <<>>, run.swap.active
  PROVE  /\ Packet.kind = "ImmediateOrCancel"
         /\ \A i \in DOMAIN Tail(run.packets) :
              Tail(run.packets)[i].kind = "ImmediateOrCancel"
<1>1. run.packets \in Seq(OrderPacket)
  BY SwapParts, RunFields, LedgerMarkets
<1>2. \A i \in DOMAIN run.packets : run.packets[i].kind = "ImmediateOrCancel"
  BY SwapParts DEF SwapTakes
<1>3. 1 \in DOMAIN run.packets /\ Packet = run.packets[1]
  BY <1>1 DEF Packet
<1>4. ASSUME NEW i \in DOMAIN Tail(run.packets)
      PROVE  i + 1 \in DOMAIN run.packets /\ Tail(run.packets)[i] = run.packets[i + 1]
  BY <1>1
<1> QED BY <1>2, <1>3, <1>4

(* A swap's order never rests. *)
LEMMA RestingIsNoSwap ==
  ASSUME SwapSeatInv, PlacePostOnly \/ RestRemainder
  PROVE  SwapKeeps
<1>1. run \in RunType
  BY SwapParts, LedgerMarkets, RunFields
<1>2. CASE PlacePostOnly
  <2>1. /\ run.packets # <<>> /\ Packet.kind = "PostOnly"
        /\ run' = [run EXCEPT !.packets = Tail(@)]
    BY <1>2 DEF PlacePostOnly, Proceed
  <2>2. ~ run.swap.active
    BY <2>1, SwapQueue
  <2>3. run'.swap = run.swap
    BY <1>1, <2>1 DEF RunType
  <2> QED BY <2>2, <2>3, RunKeepsNoSwap
<1>3. CASE RestRemainder
  <2>1. run.posts /\ run' = [run EXCEPT !.taker = NoTaker, !.posts = FALSE]
    BY <1>3 DEF RestRemainder, RestsRemainder, Proceed
  <2>2. ~ run.swap.active
    BY <2>1, SwapParts DEF SwapTakes
  <2>3. run'.swap = run.swap
    BY <1>1, <2>1 DEF RunType
  <2> QED BY <2>2, <2>3, RunKeepsNoSwap
<1> QED BY <1>2, <1>3

(* What a step of the cross loop must show of a swap's seat. *)
LEMMA PassKeepsSwapSeat ==
  ASSUME SwapSeatInv, NEW m, NEW st \in {"packets", "cross"}, NEW r,
         Proceed(m, st, r), r.seat = run.seat, r.swap = run.swap,
         run.swap.active =>
           /\ ~ r.posts
           /\ \A i \in DOMAIN r.packets : r.packets[i].kind = "ImmediateOrCancel",
         run.swap.active /\ run.swap.created =>
           /\ m.seat_of = work.market.seat_of
           /\ m.state[run.seat].base_locked = 0
           /\ m.state[run.seat].quote_locked = 0
           /\ \A side \in Sides : OwnSlots(m, side, run.seat) = {}
  PROVE  SwapKeeps
<1>1. work'.market = m /\ chain' = chain /\ stage' = st /\ run' = r
  BY ProceedMarket, SwapParts, LedgerMarkets
<1>2. SwapTakes(st, r)
  BY DEF SwapTakes
<1>3. OwnSeat(r, chain.market, m)
  BY SwapParts DEF OwnSeat
<1> QED BY <1>1, <1>2, <1>3 DEF SwapKeeps

LEMMA StartCrossKeepsSwapSeat == SwapSeatInv /\ StartCross => SwapKeeps
<1> SUFFICES ASSUME SwapSeatInv, StartCross PROVE SwapKeeps
  OBVIOUS
<1> DEFINE rest == Tail(run.packets)
           posts == Packet.kind = "Limit"
           min_fill == IF Packet.kind = "Limit" THEN 0 ELSE Packet.min_fill
           taker == [seat |-> run.seat, side |-> Packet.side,
                     limit |-> Packet.price, remaining |-> Packet.size,
                     filled |-> 0, touched |-> 0,
                     match_limit |-> Packet.match_limit,
                     self_trade |-> Packet.self_trade]
           locals == [run EXCEPT !.packets = rest, !.posts = posts,
                                 !.min_fill = min_fill, !.taker = taker]
<1>1. run.packets # <<>> /\ Proceed(work.market, "cross", locals)
  BY DEF StartCross
<1>2. run.swap.active =>
        /\ ~ posts
        /\ \A i \in DOMAIN rest : rest[i].kind = "ImmediateOrCancel"
  BY <1>1, SwapQueue
<1> HIDE DEF rest, posts, min_fill, taker
<1>3. /\ locals.seat = run.seat /\ locals.packets = rest
      /\ locals.posts = posts /\ locals.swap = run.swap
  BY RunFields, LedgerMarkets, SwapParts DEF RunType
<1> HIDE DEF locals
<1>4. run.swap.active /\ run.swap.created =>
        /\ work.market.state[run.seat].base_locked = 0
        /\ work.market.state[run.seat].quote_locked = 0
        /\ \A side \in Sides : OwnSlots(work.market, side, run.seat) = {}
  BY SwapParts DEF OwnSeat
<1> QED BY <1>1, <1>2, <1>3, <1>4, PassKeepsSwapSeat

LEMMA EndCrossKeepsSwapSeat == SwapSeatInv /\ EndCross => SwapKeeps
<1> SUFFICES ASSUME SwapSeatInv, EndCross PROVE SwapKeeps
  OBVIOUS
<1> DEFINE locals == [run EXCEPT !.taker = NoTaker, !.posts = FALSE, !.min_fill = 0]
<1>1. Proceed(work.market, "packets", locals)
  BY DEF EndCross
<1>2. /\ locals.seat = run.seat /\ locals.packets = run.packets
      /\ locals.posts = FALSE /\ locals.swap = run.swap
  BY RunFields, LedgerMarkets, SwapParts DEF RunType
<1> HIDE DEF locals
<1>3. run.swap.active /\ run.swap.created =>
        /\ work.market.state[run.seat].base_locked = 0
        /\ work.market.state[run.seat].quote_locked = 0
        /\ \A side \in Sides : OwnSlots(work.market, side, run.seat) = {}
  BY SwapParts DEF OwnSeat
<1>4. run.swap.active =>
        \A i \in DOMAIN run.packets : run.packets[i].kind = "ImmediateOrCancel"
  BY SwapParts DEF SwapTakes
<1> QED BY <1>1, <1>2, <1>3, <1>4, PassKeepsSwapSeat

(* Taking from an order of another seat leaves a seat nothing at rest. *)
LEMMA TakingLeavesOwnSlots ==
  ASSUME NEW m \in MarketType, NEW n, NEW side \in Sides, NEW h \in Slots,
         NEW lots \in 0 .. m.book[side][h].size,
         OneOrder(m, n, side, h, Left(m.book[side][h], lots)),
         NEW seat \in Seats, m.book[side][h].seat # seat,
         NEW d \in Sides, OwnSlots(m, d, seat) = {}
  PROVE  OwnSlots(n, d, seat) = {}
<1> SUFFICES ASSUME NEW k \in OwnSlots(n, d, seat) PROVE FALSE
  OBVIOUS
<1>1. k \in Slots /\ Live(n.book[d][k]) /\ n.book[d][k].seat = seat
  BY DEF OwnSlots, LiveSlots
<1>2. CASE d = side /\ k = h
  <2>1. m.book[side][h] \in Order
    BY MarketFields
  <2>2. Live(Left(m.book[side][h], lots)) /\ Left(m.book[side][h], lots).seat = seat
    BY <1>1, <1>2 DEF OneOrder
  <2> QED BY <2>1, <2>2, LeftFacts
<1>3. CASE ~ (d = side /\ k = h)
  <2>1. n.book[d][k] = m.book[d][k]
    BY <1>1, <1>3 DEF OneOrder
  <2> QED BY <1>1, <2>1 DEF OwnSlots, LiveSlots
<1> QED BY <1>2, <1>3

LEMMA FillBestKeepsSwapSeat == SwapSeatInv /\ FillBest => SwapKeeps
<1> SUFFICES ASSUME SwapSeatInv, FillBest PROVE SwapKeeps
  OBVIOUS
<1> DEFINE m == work.market
           k == run.taker
           n == Fill(m, k)
           next == AfterFill(m, k)
           locals == [run EXCEPT !.taker = next]
<1>1. IInv /\ WellFormed(m) /\ m \in MarketType /\ run \in RunType
  BY SwapParts, LedgerMarkets, RunFields
<1>2. stage = "cross" /\ Proceed(n, "cross", locals)
  BY DEF FillBest
<1> HIDE DEF next
<1>3. /\ locals.seat = run.seat /\ locals.packets = run.packets
      /\ locals.posts = run.posts /\ locals.swap = run.swap
  BY <1>1 DEF RunType
<1> HIDE DEF locals, n
<1>4. work'.market = n
  BY <1>1, <1>2, ProceedMarket
<1>5. /\ OneOrder(m, n, MakerSide(k), MakerSlot(m, k), Left(Maker(m, k), FillSize(m, k)))
      /\ n.seat_of = m.seat_of /\ n.state[k.seat] = TakerSettled(m, k)
      /\ Reaches(m, k) /\ Maker(m, k).seat # k.seat
  BY <1>1, <1>4, FillStep
<1>6. k.seat = run.seat
  BY <1>1, <1>2 DEF IInv, CrossIsWellPosed
<1>7. /\ k \in Taker /\ k.seat \in Seats /\ MakerSide(k) \in Sides /\ MakerSlot(m, k) \in Slots
      /\ Maker(m, k) = m.book[MakerSide(k)][MakerSlot(m, k)]
      /\ FillSize(m, k) \in 0 .. Maker(m, k).size
  BY <1>1, <1>2, <1>5, MakerInHand
<1>8. /\ n.state[run.seat].base_locked = m.state[run.seat].base_locked
      /\ n.state[run.seat].quote_locked = m.state[run.seat].quote_locked
  <2>1. /\ TakerSettled(m, k).base_locked = m.state[k.seat].base_locked
        /\ TakerSettled(m, k).quote_locked = m.state[k.seat].quote_locked
    BY <1>1, <1>5, <1>7, TakerMoves
  <2> HIDE DEF m, k
  <2> QED BY <1>5, <1>6, <2>1
<1>9. run.swap.active =>
        /\ ~ run.posts
        /\ \A i \in DOMAIN run.packets : run.packets[i].kind = "ImmediateOrCancel"
  BY SwapParts DEF SwapTakes
<1>10. ASSUME run.swap.active, run.swap.created
       PROVE  /\ n.state[run.seat].base_locked = 0 /\ n.state[run.seat].quote_locked = 0
              /\ \A side \in Sides : OwnSlots(n, side, run.seat) = {}
  <2>1. /\ m.state[run.seat].base_locked = 0 /\ m.state[run.seat].quote_locked = 0
        /\ \A side \in Sides : OwnSlots(m, side, run.seat) = {}
    BY <1>10, SwapParts DEF OwnSeat
  <2>2. ASSUME NEW d \in Sides PROVE OwnSlots(n, d, run.seat) = {}
    <3> DEFINE side == MakerSide(k)
               h == MakerSlot(m, k)
               lots == FillSize(m, k)
    <3>1. /\ m \in MarketType /\ side \in Sides /\ h \in Slots /\ run.seat \in Seats
          /\ lots \in 0 .. m.book[side][h].size
          /\ OneOrder(m, n, side, h, Left(m.book[side][h], lots))
          /\ m.book[side][h].seat # run.seat
          /\ OwnSlots(m, d, run.seat) = {}
      BY <1>1, <1>5, <1>6, <1>7, <2>1
    <3> HIDE DEF side, h, lots, m, n
    <3> QED BY <3>1, TakingLeavesOwnSlots, ZenonT(40)
  <2> QED BY <1>8, <2>1, <2>2
<1> QED BY <1>2, <1>3, <1>5, <1>9, <1>10, PassKeepsSwapSeat

LEMMA SelfTradeKeepsSwapSeat == SwapSeatInv /\ SelfTrade => SwapKeeps
<1> SUFFICES ASSUME SwapSeatInv, SelfTrade PROVE SwapKeeps
  OBVIOUS
<1> DEFINE m == work.market
           k == run.taker
           n == ResolveSelfTrade(m, k)
           next == AfterSelfTrade(m, k)
           locals == [run EXCEPT !.taker = next]
<1>1. IInv /\ WellFormed(m) /\ m \in MarketType /\ run \in RunType
  BY SwapParts, LedgerMarkets, RunFields
<1>2. /\ stage = "cross" /\ Proceed(n, "cross", locals)
      /\ Reaches(m, k) /\ IsSelfTrade(m, k)
  BY DEF SelfTrade
<1> HIDE DEF next, n
<1>3. /\ locals.seat = run.seat /\ locals.packets = run.packets
      /\ locals.posts = run.posts /\ locals.swap = run.swap
  BY <1>1 DEF RunType
<1> HIDE DEF locals
<1>4. run.swap.active =>
        /\ ~ run.posts
        /\ \A i \in DOMAIN run.packets : run.packets[i].kind = "ImmediateOrCancel"
  BY SwapParts DEF SwapTakes
<1>5. ~ (run.swap.active /\ run.swap.created)
  <2>1. k.seat = run.seat
    BY <1>1, <1>2 DEF IInv, CrossIsWellPosed
  <2>2. /\ MakerSide(k) \in Sides /\ MakerSlot(m, k) \in LiveSlots(m, MakerSide(k))
        /\ Maker(m, k) = m.book[MakerSide(k)][MakerSlot(m, k)]
    BY <1>1, <1>2, MakerInHand
  <2>3. MakerSlot(m, k) \in OwnSlots(m, MakerSide(k), run.seat)
    BY <1>2, <2>1, <2>2 DEF OwnSlots, IsSelfTrade
  <2> QED BY <2>2, <2>3, SwapParts DEF OwnSeat
<1> QED BY <1>2, <1>3, <1>4, <1>5, PassKeepsSwapSeat

LEMMA NextKeepsSwapSeat == SwapSeatInv /\ [Next]_vars => SwapKeeps
<1> SUFFICES ASSUME SwapSeatInv, [Next]_vars PROVE SwapKeeps
  OBVIOUS
<1>1. CASE \E t \in Traders : Instruction(t)
  BY <1>1, InstructionKeepsSwapSeat
<1>2. CASE PlacePostOnly \/ RestRemainder
  BY <1>2, RestingIsNoSwap
<1>3. CASE StartCross \/ EndCross \/ FillBest \/ SelfTrade
  BY <1>3, StartCrossKeepsSwapSeat, EndCrossKeepsSwapSeat, FillBestKeepsSwapSeat,
     SelfTradeKeepsSwapSeat
<1>4. CASE \/ Initialize \/ CollectAccruedFees
           \/ \E id \in run.cancels : CancelListed(id)
           \/ CancelsDone \/ CancelNext \/ CancelAllDone \/ OrdersDone
           \/ SwapPaysOut \/ InstructionFails
           \/ UNCHANGED vars
  BY <1>4, OtherStepsKeepSwapSeat
<1> QED BY <1>1, <1>2, <1>3, <1>4, Zenon DEF Next, Execute

(* Paid out, a seat the swap claimed is empty, and goes back to nobody.    *)
LEMMA PayOutReturnsSeat ==
  ASSUME SwapSeatInv, SwapPaysOut, run.swap.created
  PROVE  chain'.market.seat_of = chain.market.seat_of
<1> DEFINE w == work.market
           c == chain.market
           s == run.seat
           base == SwapOut.base
           quote == SwapOut.quote
           m == Withdraw(w, s, base, quote)
           owner == CHOOSE t \in Traders : m.seat_of[t] = s
           n == IF run.swap.created /\ CanReleaseSeat(m, owner)
                THEN ReleaseSeat(m, owner) ELSE m
<1>1. /\ run.swap.active /\ CanWithdraw(w, s, base, quote)
      /\ Commit([Transfer(work, -base, -quote) EXCEPT !.market = n])
  BY DEF SwapPaysOut, CanPayOut
<1>2. /\ LedgerInv /\ w \in MarketType /\ c \in MarketType
      /\ c.seat_of \in [Traders -> 0 .. NumSeats]
      /\ w.state \in [Seats -> TraderState]
  BY SwapParts, LedgerMarkets, MarketFields
<1>3. /\ s \in Seats /\ run.swap.base = 0 /\ run.swap.quote = 0
      /\ ~ SeatLive(c, s)
      /\ w.state[s].base_locked = 0 /\ w.state[s].quote_locked = 0
  BY <1>1, SwapParts DEF OwnSeat
<1>4. PICK t \in Traders : /\ c.seat_of[t] = NoSeat
                           /\ w.seat_of = [c.seat_of EXCEPT ![t] = s]
  BY <1>1, SwapParts DEF OwnSeat
<1>5. w.state[s] \in TraderState
  BY <1>2, <1>3
<1>6. base = w.state[s].base_free /\ quote = w.state[s].quote_free
  <2>1. w.state[s].base_free \in Nat /\ w.state[s].quote_free \in Nat
    BY <1>5, StateFields
  <2>2. \A x \in Nat : Gain(x, 0) = x
    BY DEF Gain
  <2> QED BY <1>3, <2>1, <2>2 DEF SwapOut
<1>7. chain'.market = n
  <2>1. [Transfer(work, -base, -quote) EXCEPT !.market = n].market = n
    BY <1>2, LedgerMarkets, IInvParts DEF Transfer, Sound, Accounts
  <2> QED BY <1>1, <2>1 DEF Commit
<1>8. /\ m.seat_of = w.seat_of
      /\ m = [w EXCEPT !.state = [w.state EXCEPT ![s] = Credit(w.state[s], -base, -quote)],
                       !.base_deposited = @ + (-base),
                       !.quote_deposited = @ + (-quote)]
  BY <1>2 DEF Withdraw, Deposit, MarketType
<1>9. m.state[s] = Credit(w.state[s], -base, -quote)
  <2>1. m.state = [w.state EXCEPT ![s] = Credit(w.state[s], -base, -quote)]
    BY <1>2, <1>8 DEF MarketType
  <2> QED BY <1>2, <1>3, <2>1
<1>10. IsEmpty(m.state[s])
  <2>1. /\ w.state[s].base_free \in Nat /\ w.state[s].quote_free \in Nat
    BY <1>5, StateFields
  <2>2. /\ m.state[s].base_free = 0 /\ m.state[s].base_locked = 0
        /\ m.state[s].quote_free = 0 /\ m.state[s].quote_locked = 0
    BY <1>3, <1>5, <1>6, <1>9, <2>1 DEF Credit, TraderState
  <2> QED BY <2>2 DEF IsEmpty
<1>11. DOMAIN m = DOMAIN w
  BY <1>8
<1> HIDE DEF base, quote, m
<1>12. \A u \in Traders : m.seat_of[u] = IF u = t THEN s ELSE c.seat_of[u]
  BY <1>2, <1>4, <1>8
<1>13. \A u \in Traders : c.seat_of[u] # s
  BY <1>3 DEF SeatLive
<1>14. owner = t
  BY <1>12, <1>13
<1> HIDE DEF owner
<1>15. CanReleaseSeat(m, t)
  BY <1>3, <1>10, <1>12 DEF CanReleaseSeat, Seats, NoSeat
<1>16. n = [m EXCEPT !.seat_of[t] = NoSeat]
  BY <1>14, <1>15 DEF ReleaseSeat
<1>17. n.seat_of = [m.seat_of EXCEPT ![t] = NoSeat]
  <2>1. "seat_of" \in DOMAIN m
    BY <1>2, <1>11 DEF MarketType
  <2> QED BY <1>16, <2>1
<1> HIDE DEF n
<1>18. [m.seat_of EXCEPT ![t] = NoSeat] = c.seat_of
  <2>1. m.seat_of = [c.seat_of EXCEPT ![t] = s]
    BY <1>4, <1>8
  <2> QED BY <1>2, <1>4, <2>1
<1> QED BY <1>7, <1>17, <1>18

(* A running swap commits nothing before it pays out. *)
LEMMA SwapCommitsOnce ==
  ASSUME SwapSeatInv, [Next]_vars, run.swap.active, ~ SwapPaysOut
  PROVE  chain' = chain
<1>1. stage \in {"packets", "cross"}
  BY SwapParts DEF SwapTakes
<1> QED BY <1>1, ZenonT(40) DEF Next, Execute, Instruction, Initialize, CollectAccruedFees, Ready,
       ClaimASeat, EvictSeat, DepositFunds, WithdrawFunds, CancelOrder, ReduceOrder, PlaceOrder,
       CancelAll, BatchUpdate, Swap, CancelListed, CancelsDone, CancelNext,
       CancelAllDone, PlacePostOnly, StartCross, FillBest, SelfTrade, RestRemainder,
       EndCross, OrdersDone, InstructionFails, Proceed, Revert, vars

(* A running swap takes and never posts, and leaves nothing at rest behind *)
(* a seat it had to claim.                                                 *)
THEOREM SwapSeatInvariance ==
  ASSUME PricedOrders
  PROVE  Spec => []SwapSeatInv
<1>1. Init => SwapSeatInv
  <2> SUFFICES ASSUME Init PROVE SwapSeatInv
    OBVIOUS
  <2>1. run.swap.active = FALSE
    BY DEF Init, NothingRunning, NoSwap
  <2> QED BY <2>1, InitBalanced, SwapParts DEF SwapTakes, OwnSeat
<1>2. SwapSeatInv /\ [Next]_vars => SwapSeatInv'
  BY SwapParts, NextBalanced, NextKeepsSwapSeat, SwapPartsPrime DEF SwapKeeps
<1> QED BY <1>1, <1>2, PTL DEF Spec

(* A swap by a wallet with no seat leaves the seat table as it found it,   *)
(* however little of its order filled.                                     *)
THEOREM SwapAlwaysReturnsItsSeat ==
  ASSUME PricedOrders
  PROVE  Spec => SwapReturnsItsSeat
<1> DEFINE Returned ==
       run.swap.active /\ run.swap.created =>
         chain'.market.seat_of = chain.market.seat_of
<1>1. SwapSeatInv /\ [Next]_vars => [Returned]_vars
  BY PayOutReturnsSeat, SwapCommitsOnce
<1> HIDE DEF Returned
<1>2. Spec => [][Returned]_vars
  BY <1>1, SwapSeatInvariance, PTL DEF Spec
<1> QED BY <1>2 DEF Returned, SwapReturnsItsSeat
=============================================================================
