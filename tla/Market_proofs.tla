---------------------------- MODULE Market_proofs ----------------------------
(***************************************************************************)
(* What every operation of the engine preserves, for every value of the    *)
(* constants: the shape of the account, the uniqueness of order ids, and   *)
(* the two halves of check_conservation.                                   *)
(***************************************************************************)
EXTENDS Market, Sums_proofs

USE LotsAssumption, MarketAssumption

(* The part of a market's invariant that needs no assumption on prices. *)
WellFormed(m) == m \in MarketType /\ IdsUnique(m)

(* An operation inside an instruction: it moves no lots in or out. *)
Keeps(m, n) ==
  /\ WellFormed(n)
  /\ NoIdReused(m, n)
  /\ n.base_deposited = m.base_deposited
  /\ n.quote_deposited = m.quote_deposited

-----------------------------------------------------------------------------
(* Arithmetic *)

LEMMA QuoteLotsForNat ==
  ASSUME NEW price \in Nat, NEW size \in Nat
  PROVE  QuoteLotsFor(price, size) \in Nat
BY DEF QuoteLotsFor

LEMMA BackingNat ==
  ASSUME NEW side \in Sides, NEW price \in Nat, NEW size \in Nat
  PROVE  Backing(side, price, size) \in Nat
BY QuoteLotsForNat DEF Backing, Sides

LEMMA CeilingBound ==
  ASSUME NEW x \in Nat, NEW g \in Nat, x <= g * 10000
  PROVE  /\ (x + (10000 - 1)) \div 10000 \in Nat
         /\ (x + (10000 - 1)) \div 10000 <= g
OBVIOUS

(* The fee on a fill is a natural number no larger than the fill. *)
LEMMA FeeOnBound ==
  ASSUME NEW gross \in Nat
  PROVE  FeeOn(gross) \in Nat /\ FeeOn(gross) <= gross
<1>1. TakerFeeBps \in Nat /\ TakerFeeBps <= 10000
  BY DEF BpsDenominator
<1>2. gross * TakerFeeBps \in Nat /\ gross * TakerFeeBps <= gross * 10000
  BY <1>1
<1> DEFINE x == gross * TakerFeeBps
<1>3. x \in Nat /\ x <= gross * 10000
  BY <1>2
<1>4. FeeOn(gross) = (x + (10000 - 1)) \div 10000
  BY DEF FeeOn, BpsDenominator
<1> HIDE DEF x
<1> QED BY <1>3, <1>4, CeilingBound

-----------------------------------------------------------------------------
(* Fields of an account in MarketType. *)

LEMMA MarketFields ==
  ASSUME NEW m \in MarketType
  PROVE  /\ m.seat_of \in [Traders -> 0 .. NumSeats]
         /\ m.state \in [Seats -> TraderState]
         /\ m.book \in [Sides -> [Slots -> Order]]
         /\ m.next_seq \in Nat
         /\ m.base_deposited \in U64
         /\ m.quote_deposited \in U64
         /\ m.unclaimed_fees \in U64
         /\ m.collected_fees \in U64
         /\ \A side \in Sides, h \in Slots : m.book[side][h] \in Order
         /\ \A s \in Seats : m.state[s] \in TraderState
BY DEF MarketType

LEMMA OrderFields ==
  ASSUME NEW o \in Order
  PROVE  /\ o.price \in Nat /\ o.price \in U64
         /\ o.size \in Nat /\ o.size \in U64
         /\ o.seq \in Nat
         /\ Live(o) => o.seat \in Seats
         /\ o.seat \in 0 .. NumSeats
BY DEF Order, U64, Live, NoSeat, Seats

LEMMA LiveSlotFacts ==
  ASSUME NEW m \in MarketType, NEW side \in Sides, NEW h \in LiveSlots(m, side)
  PROVE  /\ h \in Slots
         /\ m.book[side][h] \in Order
         /\ m.book[side][h].seat \in Seats
BY MarketFields, OrderFields DEF LiveSlots

(* Replacing one order. *)
LEMMA BookUpdate ==
  ASSUME NEW m \in MarketType, NEW side \in Sides, NEW h \in Slots, NEW o \in Order
  PROVE  LET b == [m.book EXCEPT ![side][h] = o]
         IN  /\ b \in [Sides -> [Slots -> Order]]
             /\ \A d \in Sides : \A k \in Slots :
                  b[d][k] = IF d = side /\ k = h THEN o ELSE m.book[d][k]
BY DEF MarketType

-----------------------------------------------------------------------------
(* The best order exists and is one of the candidates. *)

LEMMA BestExists ==
  ASSUME NEW m \in MarketType, IdsUnique(m), NEW side \in Sides,
         NEW S \in SUBSET LiveSlots(m, side), S # {}
  PROVE  /\ BestOf(m, side, S) \in S
         /\ \A k \in S \ {BestOf(m, side, S)} :
              Precedes(side, m.book[side][BestOf(m, side, S)], m.book[side][k])
<1> DEFINE price(h) == m.book[side][h].price
           seq(h) == m.book[side][h].seq
           rank(h) == IF side = "Bid" THEN U64Max - price(h) ELSE price(h)
<1>1. \A h \in S : h \in Slots /\ price(h) \in U64 /\ seq(h) \in Nat /\ rank(h) \in Nat
  BY LiveSlotFacts, OrderFields DEF U64
<1>2. \A h, k \in S : h # k => seq(h) # seq(k)
  BY DEF IdsUnique
<1> DEFINE Ranks == {rank(h) : h \in S}
<1>3. PICK h0 \in S : \A k \in S : rank(h0) <= rank(k)
  <2>1. Ranks \subseteq Nat /\ Ranks # {}
    BY <1>1
  <2>2. \E r \in Ranks : \A q \in Ranks : r <= q
    BY <2>1, LeastNat
  <2> QED BY <2>2
<1> DEFINE Touch == {h \in S : rank(h) = rank(h0)}
           Seqs == {seq(h) : h \in Touch}
<1>4. PICK h1 \in Touch : \A k \in Touch : seq(h1) <= seq(k)
  <2>1. Seqs \subseteq Nat /\ Seqs # {}
    BY <1>1
  <2>2. \E r \in Seqs : \A q \in Seqs : r <= q
    BY <2>1, LeastNat
  <2> QED BY <2>2
<1>5. ASSUME NEW k \in S \ {h1}
      PROVE  Precedes(side, m.book[side][h1], m.book[side][k])
  <2>1. rank(h1) <= rank(k) /\ seq(h1) # seq(k)
    BY <1>2, <1>3, <1>4
  <2>2. CASE rank(k) = rank(h1)
    <3>1. k \in Touch
      BY <1>4, <2>2
    <3>2. seq(h1) < seq(k)
      BY <1>1, <1>4, <2>1, <3>1
    <3>3. price(h1) = price(k)
      BY <1>1, <1>4, <2>2 DEF U64
    <3> QED BY <3>2, <3>3 DEF Precedes
  <2>3. CASE rank(h1) < rank(k)
    BY <1>1, <1>4, <2>3 DEF Precedes, U64
  <2> QED BY <1>1, <1>4, <2>1, <2>2, <2>3
<1> QED BY <1>4, <1>5 DEF BestOf

LEMMA BestLive ==
  ASSUME NEW m \in MarketType, IdsUnique(m), NEW side \in Sides,
         LiveSlots(m, side) # {}
  PROVE  Best(m, side) \in LiveSlots(m, side)
BY BestExists DEF Best

-----------------------------------------------------------------------------
(* Every operation keeps an account well formed. *)

LEMMA NewMarketWellFormed == WellFormed(NewMarket)
<1>1. NoOrder \in Order /\ EmptyState \in TraderState /\ 0 \in U64
  BY DEF NoOrder, EmptyState, Order, TraderState, U64, NoSeat
<1>2. NewMarket \in MarketType
  BY <1>1 DEF NewMarket, MarketType, NoSeat
<1>3. \A side \in Sides : LiveSlots(NewMarket, side) = {}
  BY DEF NewMarket, LiveSlots, Live, NoOrder
<1> QED BY <1>2, <1>3 DEF WellFormed, IdsUnique

(* No id comes back to life across any number of operations. *)
LEMMA NoIdReusedTransitive ==
  ASSUME NEW m \in MarketType, NEW n \in MarketType, NEW p \in MarketType,
         NoIdReused(m, n), NoIdReused(n, p)
  PROVE  NoIdReused(m, p)
<1>1. m.next_seq \in Nat /\ n.next_seq \in Nat /\ p.next_seq \in Nat
  BY MarketFields
<1>2. p.next_seq >= m.next_seq
  BY <1>1 DEF NoIdReused
<1>3. ASSUME NEW side \in Sides, NEW h \in LiveSlots(p, side)
      PROVE  LET seq == p.book[side][h].seq
             IN  /\ seq < p.next_seq
                 /\ Found(m, [side |-> side, seq |-> seq]) = {} => seq >= m.next_seq
  <2> DEFINE seq == p.book[side][h].seq
  <2>1. seq \in Nat
    BY LiveSlotFacts, OrderFields
  <2>2. /\ seq < p.next_seq
        /\ Found(n, [side |-> side, seq |-> seq]) = {} => seq >= n.next_seq
    BY DEF NoIdReused
  <2> HIDE DEF seq
  <2>3. CASE Found(n, [side |-> side, seq |-> seq]) = {}
    BY <1>1, <2>1, <2>2, <2>3 DEF NoIdReused, seq
  <2>4. CASE Found(n, [side |-> side, seq |-> seq]) # {}
    <3>1. PICK k \in LiveSlots(n, side) : n.book[side][k].seq = seq
      BY <2>4 DEF Found
    <3> QED BY <2>2, <3>1 DEF NoIdReused, seq
  <2> QED BY <2>3, <2>4 DEF seq
<1> QED BY <1>2, <1>3 DEF NoIdReused

LEMMA NoIdReusedReflexive ==
  ASSUME NEW m, WellFormed(m)
  PROVE  NoIdReused(m, m)
BY MarketFields DEF WellFormed, IdsUnique, NoIdReused, Found

LEMMA KeepsTransitive ==
  ASSUME NEW m, WellFormed(m), NEW n, Keeps(m, n), NEW p, Keeps(n, p)
  PROVE  Keeps(m, p)
BY NoIdReusedTransitive DEF Keeps, WellFormed

(* What an operation on seats and balances must leave alone. *)
LEMMA SameBook ==
  ASSUME NEW m, WellFormed(m), NEW n \in MarketType,
         n.book = m.book, n.next_seq = m.next_seq
  PROVE  WellFormed(n) /\ NoIdReused(m, n)
<1>1. WellFormed(n)
  BY DEF WellFormed, IdsUnique, LiveSlots
<1>2. \A side : LiveSlots(n, side) = LiveSlots(m, side)
  BY DEF LiveSlots
<1>3. NoIdReused(n, n)
  BY <1>1, NoIdReusedReflexive
<1>4. \A id : Found(n, id) = Found(m, id)
  BY <1>2 DEF Found
<1>5. NoIdReused(m, n)
  BY <1>3, <1>4 DEF NoIdReused
<1> QED BY <1>1, <1>5

(* Taking lots off an order. *)
LEMMA ShrinkKeeps ==
  ASSUME NEW m, WellFormed(m), NEW side \in Sides, NEW h \in LiveSlots(m, side),
         NEW lots \in 0 .. m.book[side][h].size
  PROVE  Keeps(m, Shrink(m, side, h, lots))
<1> DEFINE o == m.book[side][h]
           n == Shrink(m, side, h, lots)
           left == IF o.size = lots THEN NoOrder ELSE [o EXCEPT !.size = @ - lots]
           b == [m.book EXCEPT ![side][h] = left]
<1>1. m \in MarketType /\ IdsUnique(m) /\ h \in Slots /\ o \in Order
  BY LiveSlotFacts DEF WellFormed
<1>2. left \in Order
  BY <1>1 DEF Order, NoOrder, U64, NoSeat
<1>3. n = [m EXCEPT !.book = b]
  BY DEF Shrink
<1>4. /\ b \in [Sides -> [Slots -> Order]]
      /\ \A d \in Sides : \A k \in Slots :
           b[d][k] = IF d = side /\ k = h THEN left ELSE m.book[d][k]
  <2> HIDE DEF left
  <2> QED BY <1>1, <1>2, BookUpdate
<1>5. left = NoOrder \/ (left.seq = o.seq /\ left.seat = o.seat)
  BY <1>1 DEF Order
<1> HIDE DEF b, n, left
<1>6. /\ n \in MarketType /\ n.book = b /\ n.next_seq = m.next_seq
      /\ n.base_deposited = m.base_deposited /\ n.quote_deposited = m.quote_deposited
  BY <1>1, <1>3, <1>4 DEF MarketType
<1>7. \A d \in Sides : \A k \in LiveSlots(n, d) :
        k \in LiveSlots(m, d) /\ n.book[d][k].seq = m.book[d][k].seq
  <2> SUFFICES ASSUME NEW d \in Sides, NEW k \in LiveSlots(n, d)
               PROVE  k \in LiveSlots(m, d) /\ n.book[d][k].seq = m.book[d][k].seq
    OBVIOUS
  <2>1. k \in Slots /\ n.book[d][k].seat # NoSeat
    BY DEF LiveSlots, Live
  <2>2. NoOrder.seat = NoSeat
    BY DEF NoOrder
  <2> QED BY <1>1, <1>4, <1>5, <1>6, <2>1, <2>2 DEF LiveSlots, Live
<1>8. IdsUnique(n)
  BY <1>1, <1>6, <1>7 DEF IdsUnique
<1>9. NoIdReused(m, n)
  <2>1. n.next_seq >= m.next_seq
    BY <1>1, <1>6, MarketFields
  <2>2. ASSUME NEW d \in Sides, NEW k \in LiveSlots(n, d)
        PROVE  /\ n.book[d][k].seq < n.next_seq
               /\ Found(m, [side |-> d, seq |-> n.book[d][k].seq]) # {}
    BY <1>7, <1>8 DEF IdsUnique, Found
  <2> QED BY <2>1, <2>2 DEF NoIdReused
<1> QED BY <1>6, <1>8, <1>9 DEF Keeps, WellFormed, n

(* Replacing balances one seat at a time. *)
LEMMA StateKeeps ==
  ASSUME NEW m, WellFormed(m), NEW s \in Seats, NEW state \in TraderState
  PROVE  Keeps(m, [m EXCEPT !.state[s] = state])
<1> DEFINE n == [m EXCEPT !.state[s] = state]
<1>1. /\ n \in MarketType /\ n.book = m.book /\ n.next_seq = m.next_seq
      /\ n.base_deposited = m.base_deposited /\ n.quote_deposited = m.quote_deposited
  BY DEF WellFormed, MarketType
<1> HIDE DEF n
<1>2. Keeps(m, n)
  BY <1>1, SameBook DEF Keeps
<1> QED BY <1>2 DEF n

LEMMA ClaimSeatKeeps ==
  ASSUME NEW m, WellFormed(m), NEW t \in Traders, CanClaimSeat(m, t)
  PROVE  /\ Keeps(m, ClaimSeat(m, t))
         /\ ClaimSeat(m, t).seat_of[t] \in Seats
<1> DEFINE n == ClaimSeat(m, t)
           s == CHOOSE s \in FreeSeats(m) : TRUE
<1>1. m \in MarketType /\ m.seat_of[t] \in 0 .. NumSeats
  BY DEF WellFormed, MarketType
<1>2. CASE m.seat_of[t] # NoSeat
  BY <1>1, <1>2, NoIdReusedReflexive DEF ClaimSeat, Seats, NoSeat, Keeps
<1>3. CASE m.seat_of[t] = NoSeat
  <2>1. s \in Seats
    BY <1>3 DEF CanClaimSeat, FreeSeats
  <2>2. s \in 0 .. NumSeats /\ EmptyState \in TraderState
    BY <2>1 DEF Seats, EmptyState, TraderState, U64
  <2> HIDE DEF s
  <2>3. n = [m EXCEPT !.seat_of[t] = s, !.state[s] = EmptyState]
    BY <1>3 DEF ClaimSeat, s
  <2> DEFINE so == [m.seat_of EXCEPT ![t] = s]
             st == [m.state EXCEPT ![s] = EmptyState]
  <2>4. n = [m EXCEPT !.seat_of = so, !.state = st]
    BY <2>3
  <2>5. so \in [Traders -> 0 .. NumSeats] /\ st \in [Seats -> TraderState] /\ so[t] = s
    BY <1>1, <2>1, <2>2 DEF MarketType
  <2> HIDE DEF so, st, n
  <2>6. /\ n \in MarketType /\ n.seat_of[t] = s /\ n.book = m.book /\ n.next_seq = m.next_seq
        /\ n.base_deposited = m.base_deposited /\ n.quote_deposited = m.quote_deposited
    BY <1>1, <2>4, <2>5 DEF MarketType
  <2> QED BY <2>1, <2>6, SameBook DEF n, Keeps
<1> QED BY <1>2, <1>3

LEMMA ReleaseSeatKeeps ==
  ASSUME NEW m, WellFormed(m), NEW t
  PROVE  Keeps(m, ReleaseSeat(m, t))
<1> DEFINE n == ReleaseSeat(m, t)
<1>1. /\ n \in MarketType /\ n.book = m.book /\ n.next_seq = m.next_seq
      /\ n.base_deposited = m.base_deposited /\ n.quote_deposited = m.quote_deposited
  BY DEF WellFormed, MarketType, ReleaseSeat, NoSeat
<1> HIDE DEF n
<1>2. Keeps(m, n)
  BY <1>1, SameBook DEF Keeps
<1> QED BY <1>2 DEF n

(* Lots that come in are recorded as deposited, one for one. *)
LEMMA DepositFacts ==
  ASSUME NEW m, WellFormed(m), NEW s \in 0 .. NumSeats, NEW base \in Int, NEW quote \in Int,
         CanDeposit(m, s, base, quote)
  PROVE  /\ WellFormed(Deposit(m, s, base, quote))
         /\ NoIdReused(m, Deposit(m, s, base, quote))
         /\ Deposit(m, s, base, quote).base_deposited = m.base_deposited + base
         /\ Deposit(m, s, base, quote).quote_deposited = m.quote_deposited + quote
<1> DEFINE n == Deposit(m, s, base, quote)
<1>1. s \in Seats
  BY DEF CanDeposit, Seats, NoSeat
<1>2. n \in MarketType
  BY <1>1 DEF WellFormed, MarketType, Deposit, CanDeposit
<1>3. /\ n.book = m.book /\ n.next_seq = m.next_seq
      /\ n.base_deposited = m.base_deposited + base
      /\ n.quote_deposited = m.quote_deposited + quote
  BY <1>1 DEF WellFormed, MarketType, Deposit
<1> HIDE DEF n
<1>4. WellFormed(n) /\ NoIdReused(m, n)
  BY <1>2, <1>3, SameBook
<1> QED BY <1>3, <1>4 DEF n

LEMMA WithdrawFacts ==
  ASSUME NEW m, WellFormed(m), NEW s \in 0 .. NumSeats, NEW base \in Int, NEW quote \in Int,
         CanWithdraw(m, s, base, quote)
  PROVE  /\ WellFormed(Withdraw(m, s, base, quote))
         /\ NoIdReused(m, Withdraw(m, s, base, quote))
         /\ Withdraw(m, s, base, quote).base_deposited = m.base_deposited - base
         /\ Withdraw(m, s, base, quote).quote_deposited = m.quote_deposited - quote
<1>1. -base \in Int /\ -quote \in Int /\ CanDeposit(m, s, -base, -quote)
  BY DEF CanWithdraw
<1>2. m.base_deposited \in Int /\ m.quote_deposited \in Int
  BY MarketFields DEF WellFormed, U64
<1> QED BY <1>1, <1>2, DepositFacts DEF Withdraw

LEMMA CollectFeesFacts ==
  ASSUME NEW m, WellFormed(m), CanCollectFees(m)
  PROVE  /\ WellFormed(CollectFees(m))
         /\ NoIdReused(m, CollectFees(m))
         /\ CollectFees(m).base_deposited = m.base_deposited
         /\ CollectFees(m).quote_deposited = m.quote_deposited - m.unclaimed_fees
<1> DEFINE n == CollectFees(m)
           q == m.quote_deposited - m.unclaimed_fees
<1>1. q \in U64 /\ 0 \in U64 /\ n = [m EXCEPT !.unclaimed_fees = 0, !.quote_deposited = q]
  BY DEF CanCollectFees, CollectFees, U64
<1> HIDE DEF n, q
<1>2. /\ n \in MarketType /\ n.book = m.book /\ n.next_seq = m.next_seq
      /\ n.base_deposited = m.base_deposited /\ n.quote_deposited = q
  BY <1>1 DEF WellFormed, MarketType
<1> QED BY <1>2, SameBook DEF n, q

LEMMA ReleaseKeeps ==
  ASSUME NEW m, WellFormed(m), NEW side \in Sides, NEW h \in LiveSlots(m, side),
         NEW lots \in 0 .. m.book[side][h].size, CanRelease(m, side, h, lots)
  PROVE  Keeps(m, Release(m, side, h, lots))
<1> DEFINE o == m.book[side][h]
           state == Unlock(m.state[o.seat], side, Backing(side, o.price, lots))
           n == [m EXCEPT !.state[o.seat] = state]
<1>1. o.seat \in Seats /\ state \in TraderState
  BY LiveSlotFacts DEF WellFormed, CanRelease
<1>2. Keeps(m, n)
  BY <1>1, StateKeeps
<1>3. n.book = m.book
  BY DEF WellFormed, MarketType
<1>4. Release(m, side, h, lots) = Shrink(n, side, h, lots)
  BY DEF Release
<1> HIDE DEF n
<1>5. h \in LiveSlots(n, side) /\ lots \in 0 .. n.book[side][h].size
  BY <1>3 DEF LiveSlots
<1>6. WellFormed(n)
  BY <1>2 DEF Keeps
<1>7. Keeps(n, Shrink(n, side, h, lots))
  BY <1>5, <1>6, ShrinkKeeps
<1> QED BY <1>2, <1>4, <1>7, KeepsTransitive

(* Resting an order under a fresh id. *)
LEMMA PostKeeps ==
  ASSUME NEW m, WellFormed(m), NEW seat \in Seats, NEW side \in Sides,
         NEW price \in U64, NEW size \in U64, CanPost(m, seat, side, price, size)
  PROVE  Keeps(m, Post(m, seat, side, price, size))
<1> DEFINE h == CHOOSE h \in FreeSlots(m, side) : TRUE
           o == [price |-> price, seq |-> m.next_seq, seat |-> seat, size |-> size]
           n == Post(m, seat, side, price, size)
           state == Lock(m.state[seat], side, Backing(side, price, size))
           st == [m.state EXCEPT ![seat] = state]
           b == [m.book EXCEPT ![side][h] = o]
           q == m.next_seq + 1
<1>1. m \in MarketType /\ IdsUnique(m) /\ state \in TraderState
  BY DEF WellFormed, CanPost
<1>2. h \in FreeSlots(m, side)
  BY DEF CanPost
<1> HIDE DEF h
<1>3. h \in Slots /\ ~ Live(m.book[side][h])
  BY <1>2 DEF FreeSlots, LiveSlots
<1>4. o \in Order /\ o.seq = m.next_seq
  BY <1>1 DEF Order, MarketType, Seats
<1>5. n = [m EXCEPT !.state = st, !.book = b, !.next_seq = q]
  BY DEF Post, h
<1>6. st \in [Seats -> TraderState] /\ q \in Nat
  <2> HIDE DEF state
  <2> QED BY <1>1 DEF MarketType
<1>7. /\ b \in [Sides -> [Slots -> Order]]
      /\ \A d \in Sides : \A k \in Slots :
           b[d][k] = IF d = side /\ k = h THEN o ELSE m.book[d][k]
  <2> HIDE DEF o
  <2> QED BY <1>1, <1>3, <1>4, BookUpdate
<1> HIDE DEF st, b, n, state, o, q
<1>8. /\ n \in MarketType /\ n.book = b /\ n.next_seq = q
      /\ n.base_deposited = m.base_deposited /\ n.quote_deposited = m.quote_deposited
  BY <1>1, <1>5, <1>6, <1>7 DEF MarketType
<1>9. m.next_seq \in Nat /\ n.next_seq = m.next_seq + 1
  BY <1>1, <1>8, MarketFields DEF q
<1>10. \A d \in Sides : \A k \in LiveSlots(n, d) :
        \/ d = side /\ k = h /\ n.book[d][k].seq = m.next_seq
        \/ ~ (d = side /\ k = h) /\ k \in LiveSlots(m, d) /\ n.book[d][k].seq = m.book[d][k].seq
  BY <1>4, <1>7, <1>8 DEF LiveSlots
<1>11. \A d \in Sides : \A k \in LiveSlots(m, d) :
        m.book[d][k].seq \in Nat /\ m.book[d][k].seq < m.next_seq
  BY <1>1, LiveSlotFacts, OrderFields DEF IdsUnique
<1>12. IdsUnique(n)
  <2> SUFFICES ASSUME NEW d \in Sides, NEW k \in LiveSlots(n, d)
               PROVE  /\ n.book[d][k].seq < n.next_seq
                      /\ \A j \in LiveSlots(n, d) \ {k} : n.book[d][j].seq # n.book[d][k].seq
    BY DEF IdsUnique
  <2>1. n.book[d][k].seq < n.next_seq
    BY <1>9, <1>10, <1>11
  <2>2. ASSUME NEW j \in LiveSlots(n, d), j # k
        PROVE  n.book[d][j].seq # n.book[d][k].seq
    BY <1>1, <1>10, <1>11, <2>2 DEF IdsUnique
  <2> QED BY <2>1, <2>2
<1>13. NoIdReused(m, n)
  <2>1. n.next_seq >= m.next_seq
    BY <1>9
  <2>2. ASSUME NEW d \in Sides, NEW k \in LiveSlots(n, d)
        PROVE  /\ n.book[d][k].seq < n.next_seq
               /\ \/ Found(m, [side |-> d, seq |-> n.book[d][k].seq]) # {}
                  \/ n.book[d][k].seq = m.next_seq
    BY <1>10, <1>12 DEF IdsUnique, Found
  <2> QED BY <1>9, <2>1, <2>2 DEF NoIdReused
<1> QED BY <1>8, <1>12, <1>13 DEF Keeps, WellFormed, n

-----------------------------------------------------------------------------
(* One iteration of the cross loop. *)

(* The taker meets an order that rests. *)
LEMMA MakerFacts ==
  ASSUME NEW m, WellFormed(m), NEW k \in Taker, LiveSlots(m, MakerSide(k)) # {}
  PROVE  /\ MakerSide(k) \in Sides
         /\ MakerSlot(m, k) \in LiveSlots(m, MakerSide(k))
         /\ Maker(m, k) \in Order
         /\ Maker(m, k).seat \in Seats
         /\ Maker(m, k).size \in Nat
         /\ Maker(m, k).price \in Nat
<1>1. MakerSide(k) \in Sides
  BY DEF Taker, MakerSide, Opposite, Sides
<1>2. MakerSlot(m, k) \in LiveSlots(m, MakerSide(k))
  BY <1>1, BestLive DEF WellFormed, MakerSlot
<1>3. Maker(m, k) \in Order /\ Maker(m, k).seat \in Seats
  BY <1>1, <1>2, LiveSlotFacts DEF WellFormed, Maker
<1> QED BY <1>1, <1>2, <1>3, OrderFields

LEMMA SelfTradeFacts ==
  ASSUME NEW m, WellFormed(m), NEW k \in Taker, Reaches(m, k), CanResolveSelfTrade(m, k)
  PROVE  /\ Keeps(m, ResolveSelfTrade(m, k))
         /\ AfterSelfTrade(m, k) \in Taker
         /\ AfterSelfTrade(m, k).remaining <= k.remaining
<1> DEFINE size == SelfTradeSize(m, k)
<1>1. /\ MakerSide(k) \in Sides
      /\ MakerSlot(m, k) \in LiveSlots(m, MakerSide(k))
      /\ Maker(m, k).size \in Nat
  BY MakerFacts DEF Reaches
<1>2. k.remaining \in Nat /\ k.remaining <= U64Max /\ k.touched \in Nat
  BY DEF Taker, U64
<1>3. size \in 0 .. Maker(m, k).size
  BY <1>1, <1>2 DEF SelfTradeSize, MinOf
<1>4. k.self_trade = "DecrementTake" => size <= k.remaining
  BY <1>1, <1>2 DEF SelfTradeSize, MinOf
<1>5. CanRelease(m, MakerSide(k), MakerSlot(m, k), size)
  BY DEF CanResolveSelfTrade
<1>6. Keeps(m, ResolveSelfTrade(m, k))
  <2>1. size \in 0 .. m.book[MakerSide(k)][MakerSlot(m, k)].size
    BY <1>3 DEF Maker
  <2> QED BY <1>1, <1>5, <2>1, ReleaseKeeps DEF ResolveSelfTrade
<1> DEFINE left == IF k.self_trade = "DecrementTake" THEN k.remaining - size ELSE k.remaining
           touched == k.touched + 1
<1>7. left \in U64 /\ left <= k.remaining /\ touched \in Nat
  BY <1>1, <1>2, <1>3, <1>4 DEF U64
<1>8. AfterSelfTrade(m, k) = [k EXCEPT !.touched = touched, !.remaining = left]
  BY DEF AfterSelfTrade
<1> HIDE DEF left, touched
<1>9. AfterSelfTrade(m, k) \in Taker /\ AfterSelfTrade(m, k).remaining = left
  BY <1>7, <1>8 DEF Taker
<1> QED BY <1>6, <1>7, <1>9

LEMMA FillFacts ==
  ASSUME NEW m, WellFormed(m), NEW k \in Taker, k.seat \in Seats, Reaches(m, k),
         CanSettle(m, k), k.remaining + k.filled <= U64Max
  PROVE  /\ Keeps(m, Fill(m, k))
         /\ AfterFill(m, k) \in Taker
         /\ AfterFill(m, k).remaining + AfterFill(m, k).filled = k.remaining + k.filled
<1> DEFINE maker == Maker(m, k).seat
           st == [m.state EXCEPT ![maker] = MakerSettled(m, k), ![k.seat] = TakerSettled(m, k)]
           uf == m.unclaimed_fees + Fee(m, k)
           cf == m.collected_fees + Fee(m, k)
           settled == [m EXCEPT !.state = st, !.unclaimed_fees = uf, !.collected_fees = cf]
           size == FillSize(m, k)
<1>1. /\ MakerSide(k) \in Sides
      /\ MakerSlot(m, k) \in LiveSlots(m, MakerSide(k))
      /\ Maker(m, k).size \in Nat
      /\ maker \in Seats
  BY MakerFacts DEF Reaches
<1>2. /\ k.remaining \in Nat /\ k.remaining <= U64Max /\ k.touched \in Nat
      /\ k.filled \in Nat
  BY DEF Taker, U64
<1>3. size \in 0 .. Maker(m, k).size /\ size <= k.remaining
  BY <1>1, <1>2 DEF FillSize, MinOf
<1>4. st \in [Seats -> TraderState] /\ uf \in U64 /\ cf \in U64
  BY <1>1 DEF WellFormed, MarketType, CanSettle
<1>5. Fill(m, k) = Shrink(settled, MakerSide(k), MakerSlot(m, k), size)
  BY DEF Fill
<1> HIDE DEF st, uf, cf
<1>6. /\ settled \in MarketType /\ settled.book = m.book /\ settled.next_seq = m.next_seq
      /\ settled.base_deposited = m.base_deposited
      /\ settled.quote_deposited = m.quote_deposited
  BY <1>4 DEF WellFormed, MarketType
<1> HIDE DEF settled
<1>7. Keeps(m, settled)
  BY <1>6, SameBook DEF Keeps
<1>8. /\ WellFormed(settled)
      /\ MakerSlot(m, k) \in LiveSlots(settled, MakerSide(k))
      /\ size \in 0 .. settled.book[MakerSide(k)][MakerSlot(m, k)].size
  BY <1>1, <1>3, <1>6, <1>7 DEF Keeps, LiveSlots, Maker
<1>9. Keeps(settled, Fill(m, k))
  BY <1>1, <1>5, <1>8, ShrinkKeeps
<1>10. Keeps(m, Fill(m, k))
  BY <1>7, <1>9, KeepsTransitive
<1> DEFINE left == k.remaining - size
           filled == k.filled + size
           touched == k.touched + 1
<1>11. left \in U64 /\ filled \in U64 /\ touched \in Nat /\ left + filled = k.remaining + k.filled
  BY <1>1, <1>2, <1>3 DEF U64
<1>12. AfterFill(m, k) = [k EXCEPT !.touched = touched, !.remaining = left, !.filled = filled]
  BY DEF AfterFill
<1> HIDE DEF left, filled, touched
<1>13. /\ AfterFill(m, k) \in Taker
       /\ AfterFill(m, k).remaining = left /\ AfterFill(m, k).filled = filled
  BY <1>11, <1>12 DEF Taker
<1> QED BY <1>10, <1>11, <1>13

(* A slid price is a price, and the price where nothing is in the way. *)
LEMMA NonCrossingPriceType ==
  ASSUME NEW m, NEW side, NEW price \in U64
  PROVE  NonCrossingPrice(m, side, price) \in U64 \cup {NoPrice}
BY DEF NonCrossingPrice

-----------------------------------------------------------------------------
(* Every operation of the engine keeps the books of a market balanced:     *)
(* what the seats hold is what was deposited, and what is locked is what   *)
(* the resting orders need.  From that, a fill the taker can pay for can   *)
(* always be settled, and every order can be released.                     *)

LEMMA StateFields ==
  ASSUME NEW st \in TraderState
  PROVE  /\ st.base_free \in Nat /\ st.base_locked \in Nat
         /\ st.quote_free \in Nat /\ st.quote_locked \in Nat
         /\ st.base_free <= U64Max /\ st.base_locked <= U64Max
         /\ st.quote_free <= U64Max /\ st.quote_locked <= U64Max
BY DEF TraderState, U64

LEMMA HeldNat ==
  ASSUME NEW m \in MarketType
  PROVE  \A s \in Seats : BaseHeld(m)[s] \in Nat /\ QuoteHeld(m)[s] \in Nat
BY MarketFields, StateFields DEF BaseHeld, QuoteHeld

LEMMA HeldSumsNat ==
  ASSUME NEW m \in MarketType
  PROVE  /\ SumTo(BaseHeld(m), NumSeats) \in Nat
         /\ SumTo(QuoteHeld(m), NumSeats) \in Nat
         /\ m.base_deposited \in Nat /\ m.quote_deposited \in Nat
         /\ m.unclaimed_fees \in Nat
         /\ m.base_deposited <= U64Max /\ m.quote_deposited <= U64Max
<1>1. /\ \A i \in 1 .. NumSeats : BaseHeld(m)[i] \in Nat
      /\ \A i \in 1 .. NumSeats : QuoteHeld(m)[i] \in Nat
  BY HeldNat DEF Seats
<1>2. SumTo(BaseHeld(m), NumSeats) \in Nat /\ SumTo(QuoteHeld(m), NumSeats) \in Nat
  BY <1>1, SumNat
<1> QED BY <1>2, MarketFields DEF U64

LEMMA RestingNat ==
  ASSUME NEW m \in MarketType, NEW side \in Sides, NEW s
  PROVE  \A h \in Slots : Resting(m, side, s)[h] \in Nat
BY MarketFields, OrderFields, BackingNat DEF Resting

-----------------------------------------------------------------------------
(* How the sums follow a change at one point. *)

(* Replacing the balances of one seat that is held. *)
LEMMA HeldUpdate ==
  ASSUME NEW m \in MarketType, NEW n \in MarketType, NEW s \in Seats,
         n.seat_of = m.seat_of, SeatLive(m, s),
         \A x \in Seats : x # s => n.state[x] = m.state[x]
  PROVE  /\ SumTo(BaseHeld(n), NumSeats) =
              SumTo(BaseHeld(m), NumSeats)
                + (n.state[s].base_free + n.state[s].base_locked)
                - (m.state[s].base_free + m.state[s].base_locked)
         /\ SumTo(QuoteHeld(n), NumSeats) =
              SumTo(QuoteHeld(m), NumSeats)
                + (n.state[s].quote_free + n.state[s].quote_locked)
                - (m.state[s].quote_free + m.state[s].quote_locked)
<1>1. \A x : SeatLive(n, x) <=> SeatLive(m, x)
  BY DEF SeatLive
<1>2. \A x \in Seats : x # s => /\ BaseHeld(n)[x] = BaseHeld(m)[x]
                                /\ QuoteHeld(n)[x] = QuoteHeld(m)[x]
  BY <1>1 DEF BaseHeld, QuoteHeld
<1>3. /\ BaseHeld(n)[s] = n.state[s].base_free + n.state[s].base_locked
      /\ BaseHeld(m)[s] = m.state[s].base_free + m.state[s].base_locked
      /\ QuoteHeld(n)[s] = n.state[s].quote_free + n.state[s].quote_locked
      /\ QuoteHeld(m)[s] = m.state[s].quote_free + m.state[s].quote_locked
  BY <1>1 DEF BaseHeld, QuoteHeld
<1>4. /\ \A x \in Seats : BaseHeld(n)[x] \in Int /\ QuoteHeld(n)[x] \in Int
      /\ \A x \in Seats : BaseHeld(m)[x] \in Int /\ QuoteHeld(m)[x] \in Int
  BY HeldNat
<1>5. Seats = 1 .. NumSeats /\ NumSeats \in Nat
  BY DEF Seats
<1>6. SumTo(BaseHeld(n), NumSeats) =
        SumTo(BaseHeld(m), NumSeats) + BaseHeld(n)[s] - BaseHeld(m)[s]
  <2> DEFINE f == BaseHeld(m)
             e == BaseHeld(n)
  <2>1. /\ \A i \in 1 .. NumSeats : f[i] \in Int
        /\ e[s] \in Int /\ s \in 1 .. NumSeats /\ NumSeats \in Nat
        /\ \A i \in 1 .. NumSeats : i # s => e[i] = f[i]
    BY <1>2, <1>4, <1>5
  <2> HIDE DEF f, e
  <2>2. SumTo(e, NumSeats) = SumTo(f, NumSeats) + e[s] - f[s]
    BY <2>1, SumUpdate
  <2> QED BY <2>2 DEF f, e
<1>7. SumTo(QuoteHeld(n), NumSeats) =
        SumTo(QuoteHeld(m), NumSeats) + QuoteHeld(n)[s] - QuoteHeld(m)[s]
  <2> DEFINE f == QuoteHeld(m)
             e == QuoteHeld(n)
  <2>1. /\ \A i \in 1 .. NumSeats : f[i] \in Int
        /\ e[s] \in Int /\ s \in 1 .. NumSeats /\ NumSeats \in Nat
        /\ \A i \in 1 .. NumSeats : i # s => e[i] = f[i]
    BY <1>2, <1>4, <1>5
  <2> HIDE DEF f, e
  <2>2. SumTo(e, NumSeats) = SumTo(f, NumSeats) + e[s] - f[s]
    BY <2>1, SumUpdate
  <2> QED BY <2>2 DEF f, e
<1> QED BY <1>3, <1>6, <1>7

(* The held sums depend on seats and balances only. *)
LEMMA HeldSame ==
  ASSUME NEW m, NEW n, n.seat_of = m.seat_of, n.state = m.state
  PROVE  BaseHeld(n) = BaseHeld(m) /\ QuoteHeld(n) = QuoteHeld(m)
BY DEF BaseHeld, QuoteHeld, SeatLive

(* Replacing one order. *)
LEMMA RestingUpdate ==
  ASSUME NEW m \in MarketType, NEW n \in MarketType, NEW side \in Sides, NEW h \in Slots,
         NEW o, \A d \in Sides : \A k \in Slots :
                  n.book[d][k] = IF d = side /\ k = h THEN o ELSE m.book[d][k],
         NEW s
  PROVE  /\ SumTo(Resting(n, side, s), BookCapacity) =
              SumTo(Resting(m, side, s), BookCapacity)
                + Resting(n, side, s)[h] - Resting(m, side, s)[h]
         /\ \A d \in Sides : d # side => Resting(n, d, s) = Resting(m, d, s)
<1>1. \A k \in Slots : k # h => Resting(n, side, s)[k] = Resting(m, side, s)[k]
  BY DEF Resting
<1>2. \A k \in Slots : Resting(n, side, s)[k] \in Int /\ Resting(m, side, s)[k] \in Int
  BY RestingNat
<1>3. Slots = 1 .. BookCapacity /\ BookCapacity \in Nat
  BY DEF Slots
<1>4. SumTo(Resting(n, side, s), BookCapacity) =
        SumTo(Resting(m, side, s), BookCapacity)
          + Resting(n, side, s)[h] - Resting(m, side, s)[h]
  BY <1>1, <1>2, <1>3, SumUpdate, SMTT(30)
<1>5. \A d \in Sides : d # side => Resting(n, d, s) = Resting(m, d, s)
  BY DEF Resting
<1> QED BY <1>4, <1>5

-----------------------------------------------------------------------------
(* What orders lock. *)

LEMMA ProductMonotone ==
  ASSUME NEW a \in Nat, NEW b \in Nat, NEW c \in Nat, a <= b
  PROVE  a * c <= b * c
<1>1. PICK d \in Nat : b = a + d
  <2>1. b - a \in Nat /\ b = a + (b - a)
    OBVIOUS
  <2> QED BY <2>1
<1>2. b * c = a * c + d * c
  BY <1>1
<1>3. a * c \in Nat /\ d * c \in Nat
  OBVIOUS
<1> QED BY <1>2, <1>3

LEMMA ProductPositive ==
  ASSUME NEW a \in Nat, NEW b \in Nat, a > 0, b > 0
  PROVE  a * b \in Nat /\ a * b > 0
<1>1. 1 * b <= a * b
  BY ProductMonotone
<1> QED BY <1>1

LEMMA BackingFacts ==
  ASSUME NEW side \in Sides, NEW price \in Nat, NEW size \in Nat, NEW lots \in 0 .. size
  PROVE  /\ Backing(side, price, 0) = 0
         /\ Backing(side, price, lots) \in Nat
         /\ Backing(side, price, size - lots) =
              Backing(side, price, size) - Backing(side, price, lots)
         /\ Backing(side, price, lots) <= Backing(side, price, size)
<1> DEFINE q == QuoteLotsPerLotPerTick
           x == price * lots
           y == price * (size - lots)
<1>1. lots \in Nat /\ size - lots \in Nat /\ q \in Nat
  OBVIOUS
<1>2. x \in Nat /\ y \in Nat /\ price * size = x + y
  BY <1>1
<1> HIDE DEF x, y, q
<1>3. x * q \in Nat /\ y * q \in Nat /\ (x + y) * q = x * q + y * q /\ price * 0 * q = 0
  BY <1>1, <1>2
<1>4. /\ QuoteLotsFor(price, lots) = x * q
      /\ QuoteLotsFor(price, size - lots) = y * q
      /\ QuoteLotsFor(price, size) = x * q + y * q
      /\ QuoteLotsFor(price, 0) = 0
  BY <1>2, <1>3 DEF QuoteLotsFor, x, y, q
<1> QED BY <1>1, <1>3, <1>4 DEF Backing

LEMMA BackingPositive ==
  ASSUME NEW side \in Sides, NEW price \in Nat, NEW size \in Nat, size > 0,
         side = "Bid" => price > 0
  PROVE  Backing(side, price, size) > 0
<1>1. CASE side = "Ask"
  BY <1>1 DEF Backing
<1>2. CASE side = "Bid"
  <2>1. price * size \in Nat /\ price * size > 0
    BY <1>2, ProductPositive
  <2>2. QuoteLotsPerLotPerTick \in Nat /\ QuoteLotsPerLotPerTick > 0
    OBVIOUS
  <2>3. (price * size) * QuoteLotsPerLotPerTick > 0
    BY <2>1, <2>2, ProductPositive
  <2> QED BY <1>2, <2>3 DEF Backing, QuoteLotsFor
<1> QED BY <1>1, <1>2 DEF Sides

(* An order's backing is part of what its owner has locked. *)
LEMMA LockedCoversOrder ==
  ASSUME NEW m, WellFormed(m), Balanced(m), NEW side \in Sides, NEW h \in LiveSlots(m, side)
  PROVE  LET o == m.book[side][h]
             locked == IF side = "Ask" THEN m.state[o.seat].base_locked
                       ELSE m.state[o.seat].quote_locked
         IN  /\ o.seat \in Seats /\ SeatLive(m, o.seat)
             /\ Backing(side, o.price, o.size) <= locked
<1> DEFINE o == m.book[side][h]
           f == Resting(m, side, o.seat)
<1>1. m \in MarketType /\ h \in Slots /\ o \in Order /\ o.seat \in Seats
  BY LiveSlotFacts DEF WellFormed
<1>2. SeatLive(m, o.seat)
  BY DEF Balanced, OrdersOwned
<1>3. f[h] = Backing(side, o.price, o.size)
  BY <1>1 DEF Resting
<1>4. \A i \in 1 .. BookCapacity : f[i] \in Nat
  BY <1>1, RestingNat DEF Slots
<1>5. h \in 1 .. BookCapacity /\ BookCapacity \in Nat
  BY <1>1 DEF Slots
<1> HIDE DEF f
<1>6. f[h] <= SumTo(f, BookCapacity)
  BY <1>4, <1>5, SumNat
<1>7. side = "Ask" => m.state[o.seat].base_locked = SumTo(f, BookCapacity)
  BY <1>1, <1>2 DEF Balanced, LockedIsResting, f
<1>8. side # "Ask" => m.state[o.seat].quote_locked = SumTo(f, BookCapacity)
  BY <1>1, <1>2 DEF Balanced, LockedIsResting, f, Sides
<1> QED BY <1>1, <1>2, <1>3, <1>6, <1>7, <1>8

(* Nothing rests for a seat nobody holds. *)
LEMMA NothingRestsUnowned ==
  ASSUME NEW m, WellFormed(m), OrdersOwned(m), NEW s \in Seats, ~ SeatLive(m, s),
         NEW side \in Sides
  PROVE  SumTo(Resting(m, side, s), BookCapacity) = 0
<1>1. \A h \in Slots : m.book[side][h].seat # s
  BY DEF OrdersOwned, LiveSlots, Live, Seats, NoSeat
<1> DEFINE f == Resting(m, side, s)
<1>2. \A i \in 1 .. BookCapacity : f[i] = 0
  BY <1>1 DEF Resting, Slots
<1> HIDE DEF f
<1>3. SumTo(f, BookCapacity) = 0
  BY <1>2, SumZero
<1> QED BY <1>3 DEF f

-----------------------------------------------------------------------------
(* Seats. *)

LEMMA NewMarketBalanced == Balanced(NewMarket)
<1>1. \A s \in Seats : ~ SeatLive(NewMarket, s)
  BY DEF NewMarket, SeatLive, Seats, NoSeat
<1>2. \A side \in Sides : LiveSlots(NewMarket, side) = {}
  BY DEF NewMarket, LiveSlots, Live, NoOrder
<1> DEFINE b == BaseHeld(NewMarket)
           q == QuoteHeld(NewMarket)
<1>3. \A s \in 1 .. NumSeats : b[s] = 0 /\ q[s] = 0
  BY <1>1 DEF BaseHeld, QuoteHeld, Seats
<1> HIDE DEF b, q
<1>4. SumTo(b, NumSeats) = 0 /\ SumTo(q, NumSeats) = 0
  BY <1>3, SumZero
<1>5. BaseConserved(NewMarket) /\ QuoteConserved(NewMarket)
  BY <1>4 DEF BaseConserved, QuoteConserved, NewMarket, b, q
<1>6. SeatsDistinct(NewMarket)
  BY DEF SeatsDistinct, NewMarket
<1> QED BY <1>1, <1>2, <1>5, <1>6
        DEF Balanced, OrdersOwned, BidsPriced, LockedIsResting, Sides

LEMMA ClaimSeatBalanced ==
  ASSUME NEW m, WellFormed(m), Balanced(m), NEW t \in Traders, CanClaimSeat(m, t)
  PROVE  /\ Balanced(ClaimSeat(m, t))
         /\ SeatLive(ClaimSeat(m, t), ClaimSeat(m, t).seat_of[t])
<1> DEFINE n == ClaimSeat(m, t)
           s == CHOOSE s \in FreeSeats(m) : TRUE
<1>1. CASE m.seat_of[t] # NoSeat
  BY <1>1 DEF ClaimSeat, SeatLive
<1>2. CASE m.seat_of[t] = NoSeat
  <2>1. s \in Seats /\ ~ SeatLive(m, s)
    BY <1>2 DEF CanClaimSeat, FreeSeats
  <2>2. n = [m EXCEPT !.seat_of[t] = s, !.state[s] = EmptyState]
    BY <1>2 DEF ClaimSeat
  <2> DEFINE so == [m.seat_of EXCEPT ![t] = s]
             st == [m.state EXCEPT ![s] = EmptyState]
  <2>3. n = [m EXCEPT !.seat_of = so, !.state = st]
    BY <2>2
  <2>4. /\ \A u \in Traders : so[u] = IF u = t THEN s ELSE m.seat_of[u]
        /\ \A x \in Seats : st[x] = IF x = s THEN EmptyState ELSE m.state[x]
    BY <2>1 DEF WellFormed, MarketType
  <2> HIDE DEF so, st, s, n
  <2>5. /\ n.seat_of = so /\ n.state = st /\ n.book = m.book
        /\ n.base_deposited = m.base_deposited /\ n.quote_deposited = m.quote_deposited
        /\ n.unclaimed_fees = m.unclaimed_fees
    BY <2>3 DEF WellFormed, MarketType
  <2>6. \A x \in Seats : SeatLive(n, x) <=> SeatLive(m, x) \/ x = s
    BY <1>2, <2>1, <2>4, <2>5 DEF SeatLive, Seats, NoSeat
  <2>7. \A x \in Seats : /\ BaseHeld(n)[x] = BaseHeld(m)[x]
                         /\ QuoteHeld(n)[x] = QuoteHeld(m)[x]
    BY <2>1, <2>4, <2>5, <2>6 DEF BaseHeld, QuoteHeld, EmptyState
  <2>8. BaseHeld(n) = BaseHeld(m) /\ QuoteHeld(n) = QuoteHeld(m)
    BY <2>7 DEF BaseHeld, QuoteHeld
  <2>9. /\ \A side : LiveSlots(n, side) = LiveSlots(m, side)
        /\ \A side, x : Resting(n, side, x) = Resting(m, side, x)
    BY <2>5 DEF LiveSlots, Resting
  <2>10. LockedIsResting(n)
    <3> SUFFICES ASSUME NEW x \in Seats, SeatLive(n, x)
                 PROVE  /\ n.state[x].base_locked = SumTo(Resting(m, "Ask", x), BookCapacity)
                        /\ n.state[x].quote_locked = SumTo(Resting(m, "Bid", x), BookCapacity)
      BY <2>9 DEF LockedIsResting
    <3>1. CASE x = s
      <4>1. /\ SumTo(Resting(m, "Ask", s), BookCapacity) = 0
            /\ SumTo(Resting(m, "Bid", s), BookCapacity) = 0
        BY <2>1, NothingRestsUnowned DEF Balanced, Sides
      <4> QED BY <2>4, <2>5, <3>1, <4>1 DEF EmptyState
    <3>2. CASE x # s
      BY <2>4, <2>5, <2>6, <3>2 DEF Balanced, LockedIsResting
    <3> QED BY <3>1, <3>2
  <2>11. SeatsDistinct(n)
    BY <2>1, <2>4, <2>5 DEF Balanced, SeatsDistinct, SeatLive
  <2>12. OrdersOwned(n) /\ BidsPriced(n)
    <3>1. \A side \in Sides : \A h \in LiveSlots(m, side) : m.book[side][h].seat \in Seats
      BY LiveSlotFacts DEF WellFormed
    <3> QED BY <2>5, <2>6, <2>9, <3>1 DEF Balanced, OrdersOwned, BidsPriced
  <2>13. BaseConserved(n) /\ QuoteConserved(n)
    BY <2>5, <2>8 DEF Balanced, BaseConserved, QuoteConserved
  <2>14. SeatLive(n, n.seat_of[t])
    BY DEF SeatLive
  <2> QED BY <2>10, <2>11, <2>12, <2>13, <2>14 DEF Balanced, n
<1> QED BY <1>1, <1>2

(* An empty seat has no resting orders, as seat.rs relies on: bids at zero *)
(* ticks, which lock nothing, are what BidsPriced excludes.                *)
LEMMA EmptySeatHasNoOrders ==
  ASSUME NEW m, WellFormed(m), Balanced(m), NEW s \in Seats, IsEmpty(m.state[s]),
         NEW side \in Sides, NEW h \in LiveSlots(m, side)
  PROVE  m.book[side][h].seat # s
<1> DEFINE o == m.book[side][h]
<1> SUFFICES ASSUME o.seat = s PROVE FALSE
  OBVIOUS
<1>1. o \in Order /\ o.price \in Nat /\ o.size \in Nat
  BY LiveSlotFacts, OrderFields DEF WellFormed
<1>2. o.size > 0 /\ (side = "Bid" => o.price > 0)
  BY DEF Balanced, OrdersOwned, BidsPriced
<1>3. Backing(side, o.price, o.size) > 0
  BY <1>1, <1>2, BackingPositive
<1>4. m.state[s].base_locked = 0 /\ m.state[s].quote_locked = 0
  <2>1. m.state[s] \in TraderState
    BY MarketFields DEF WellFormed
  <2> QED BY <2>1, StateFields DEF IsEmpty
<1>5. Backing(side, o.price, o.size) <= 0
  BY <1>4, LockedCoversOrder
<1>6. Backing(side, o.price, o.size) \in Nat
  BY <1>1, BackingNat
<1> QED BY <1>3, <1>5, <1>6

LEMMA ReleaseSeatBalanced ==
  ASSUME NEW m, WellFormed(m), Balanced(m), NEW t \in Traders, CanReleaseSeat(m, t)
  PROVE  Balanced(ReleaseSeat(m, t))
<1> DEFINE n == ReleaseSeat(m, t)
           s == m.seat_of[t]
<1>1. s \in Seats /\ IsEmpty(m.state[s])
  <2>1. s \in 0 .. NumSeats
    BY MarketFields DEF WellFormed
  <2> QED BY <2>1 DEF CanReleaseSeat, Seats, NoSeat
<1>2. /\ n.state = m.state /\ n.book = m.book
      /\ n.base_deposited = m.base_deposited /\ n.quote_deposited = m.quote_deposited
      /\ n.unclaimed_fees = m.unclaimed_fees
      /\ \A u \in Traders : n.seat_of[u] = IF u = t THEN NoSeat ELSE m.seat_of[u]
  BY DEF WellFormed, MarketType, ReleaseSeat
<1> HIDE DEF n
<1>3. \A x \in Seats : SeatLive(n, x) <=> SeatLive(m, x) /\ x # s
  BY <1>1, <1>2 DEF SeatLive, Balanced, SeatsDistinct, Seats, NoSeat
<1>4. /\ m.state[s].base_free + m.state[s].base_locked = 0
      /\ m.state[s].quote_free + m.state[s].quote_locked = 0
  BY <1>1 DEF IsEmpty
<1>5. \A x \in Seats : /\ BaseHeld(n)[x] = BaseHeld(m)[x]
                       /\ QuoteHeld(n)[x] = QuoteHeld(m)[x]
  BY <1>2, <1>3, <1>4 DEF BaseHeld, QuoteHeld
<1>6. BaseHeld(n) = BaseHeld(m) /\ QuoteHeld(n) = QuoteHeld(m)
  BY <1>5 DEF BaseHeld, QuoteHeld
<1>7. /\ \A side : LiveSlots(n, side) = LiveSlots(m, side)
      /\ \A side, x : Resting(n, side, x) = Resting(m, side, x)
  BY <1>2 DEF LiveSlots, Resting
<1>8. LockedIsResting(n)
  BY <1>2, <1>3, <1>7 DEF Balanced, LockedIsResting
<1>9. SeatsDistinct(n)
  BY <1>2 DEF Balanced, SeatsDistinct
<1>10. OrdersOwned(n) /\ BidsPriced(n)
  <2>1. \A side \in Sides : \A h \in LiveSlots(m, side) :
          m.book[side][h].seat \in Seats /\ m.book[side][h].seat # s
    BY <1>1, LiveSlotFacts, EmptySeatHasNoOrders DEF WellFormed
  <2> QED BY <1>2, <1>3, <1>7, <2>1 DEF Balanced, OrdersOwned, BidsPriced
<1>11. BaseConserved(n) /\ QuoteConserved(n)
  BY <1>2, <1>6 DEF Balanced, BaseConserved, QuoteConserved
<1> QED BY <1>8, <1>9, <1>10, <1>11 DEF Balanced, n

-----------------------------------------------------------------------------
(* Funds in and out. *)

LEMMA DepositBalanced ==
  ASSUME NEW m, WellFormed(m), Balanced(m), NEW s \in Seats, SeatLive(m, s),
         NEW base \in Int, NEW quote \in Int, CanDeposit(m, s, base, quote)
  PROVE  Balanced(Deposit(m, s, base, quote))
<1> DEFINE n == Deposit(m, s, base, quote)
           old == m.state[s]
<1>1. m \in MarketType /\ n \in MarketType
  BY DepositFacts DEF WellFormed, Seats
<1>2. /\ n.seat_of = m.seat_of /\ n.book = m.book
      /\ n.unclaimed_fees = m.unclaimed_fees
      /\ n.base_deposited = m.base_deposited + base
      /\ n.quote_deposited = m.quote_deposited + quote
      /\ \A x \in Seats : n.state[x] = IF x = s THEN Credit(old, base, quote) ELSE m.state[x]
  BY <1>1 DEF MarketType, Deposit
<1>3. /\ n.state[s].base_free = old.base_free + base
      /\ n.state[s].base_locked = old.base_locked
      /\ n.state[s].quote_free = old.quote_free + quote
      /\ n.state[s].quote_locked = old.quote_locked
  <2>1. old \in TraderState
    BY <1>1, MarketFields
  <2> HIDE DEF old, n
  <2> QED BY <1>2, <2>1 DEF Credit, TraderState
<1>4. old \in TraderState
  BY <1>1, MarketFields
<1> HIDE DEF n, old
<1>5. /\ SumTo(BaseHeld(n), NumSeats) = SumTo(BaseHeld(m), NumSeats) + base
      /\ SumTo(QuoteHeld(n), NumSeats) = SumTo(QuoteHeld(m), NumSeats) + quote
  <2>1. /\ \A x \in Seats : x # s => n.state[x] = m.state[x]
        /\ m.state[s] = old
    BY <1>2 DEF old
  <2>2. /\ SumTo(BaseHeld(m), NumSeats) \in Int
        /\ SumTo(QuoteHeld(m), NumSeats) \in Int
    BY <1>1, HeldSumsNat
  <2> QED BY <1>1, <1>2, <1>3, <1>4, <2>1, <2>2, HeldUpdate, StateFields
<1>6. BaseConserved(n) /\ QuoteConserved(n)
  BY <1>1, <1>2, <1>5, HeldSumsNat DEF Balanced, BaseConserved, QuoteConserved
<1>7. /\ \A side : LiveSlots(n, side) = LiveSlots(m, side)
      /\ \A side, x : Resting(n, side, x) = Resting(m, side, x)
      /\ \A x : SeatLive(n, x) <=> SeatLive(m, x)
  BY <1>2 DEF LiveSlots, Resting, SeatLive
<1>8. LockedIsResting(n)
  BY <1>2, <1>3, <1>7 DEF Balanced, LockedIsResting, old
<1>9. SeatsDistinct(n) /\ OrdersOwned(n) /\ BidsPriced(n)
  BY <1>2, <1>7 DEF Balanced, SeatsDistinct, OrdersOwned, BidsPriced
<1> QED BY <1>6, <1>8, <1>9 DEF Balanced, n

LEMMA WithdrawBalanced ==
  ASSUME NEW m, WellFormed(m), Balanced(m), NEW s \in Seats, SeatLive(m, s),
         NEW base \in Int, NEW quote \in Int, CanWithdraw(m, s, base, quote)
  PROVE  Balanced(Withdraw(m, s, base, quote))
<1>1. -base \in Int /\ -quote \in Int /\ CanDeposit(m, s, -base, -quote)
  BY DEF CanWithdraw
<1> QED BY <1>1, DepositBalanced DEF Withdraw

LEMMA CollectFeesBalanced ==
  ASSUME NEW m, WellFormed(m), Balanced(m), CanCollectFees(m)
  PROVE  Balanced(CollectFees(m))
<1> DEFINE n == CollectFees(m)
           q == m.quote_deposited - m.unclaimed_fees
<1>1. n = [m EXCEPT !.unclaimed_fees = 0, !.quote_deposited = q]
  BY DEF CollectFees
<1> HIDE DEF n, q
<1>2. /\ n.seat_of = m.seat_of /\ n.state = m.state /\ n.book = m.book
      /\ n.base_deposited = m.base_deposited
      /\ n.quote_deposited = q /\ n.unclaimed_fees = 0
  BY <1>1 DEF WellFormed, MarketType
<1>3. /\ BaseHeld(n) = BaseHeld(m) /\ QuoteHeld(n) = QuoteHeld(m)
      /\ \A side : LiveSlots(n, side) = LiveSlots(m, side)
      /\ \A side, x : Resting(n, side, x) = Resting(m, side, x)
      /\ \A x : SeatLive(n, x) <=> SeatLive(m, x)
  BY <1>2, HeldSame DEF LiveSlots, Resting, SeatLive
<1>4. BaseConserved(n) /\ QuoteConserved(n)
  BY <1>2, <1>3, HeldSumsNat DEF Balanced, BaseConserved, QuoteConserved, WellFormed, q
<1> QED BY <1>2, <1>3, <1>4 DEF Balanced, SeatsDistinct, OrdersOwned, BidsPriced,
                               LockedIsResting, n

-----------------------------------------------------------------------------
(* Orders. *)

(* Taking lots off an order takes their backing off what its owner has     *)
(* resting, and off nobody else's.                                         *)
LEMMA ShrinkResting ==
  ASSUME NEW m, WellFormed(m), OrdersOwned(m), BidsPriced(m),
         NEW side \in Sides, NEW h \in LiveSlots(m, side),
         NEW lots \in 0 .. m.book[side][h].size,
         NEW n, n = Shrink(m, side, h, lots)
  PROVE  /\ n \in MarketType
         /\ n.seat_of = m.seat_of /\ n.state = m.state
         /\ n.base_deposited = m.base_deposited /\ n.quote_deposited = m.quote_deposited
         /\ n.unclaimed_fees = m.unclaimed_fees
         /\ OrdersOwned(n) /\ BidsPriced(n)
         /\ \A s \in Seats :
              /\ SumTo(Resting(n, side, s), BookCapacity) =
                   SumTo(Resting(m, side, s), BookCapacity)
                     - IF s = m.book[side][h].seat
                       THEN Backing(side, m.book[side][h].price, lots) ELSE 0
              /\ \A d \in Sides : d # side => Resting(n, d, s) = Resting(m, d, s)
<1> DEFINE o == m.book[side][h]
           left == IF o.size = lots THEN NoOrder ELSE [o EXCEPT !.size = @ - lots]
           b == [m.book EXCEPT ![side][h] = left]
<1>1. m \in MarketType /\ h \in Slots /\ o \in Order /\ o.seat \in Seats
  BY LiveSlotFacts DEF WellFormed
<1>2. o.price \in Nat /\ o.size \in Nat /\ o.size > 0
  BY <1>1, OrderFields DEF OrdersOwned
<1>3. left \in Order
  BY <1>1 DEF Order, NoOrder, U64, NoSeat
<1>4. n = [m EXCEPT !.book = b]
  BY DEF Shrink
<1>5. /\ b \in [Sides -> [Slots -> Order]]
      /\ \A d \in Sides : \A k \in Slots :
           b[d][k] = IF d = side /\ k = h THEN left ELSE m.book[d][k]
  <2> HIDE DEF left
  <2> QED BY <1>1, <1>3, BookUpdate
<1>6. \/ left.seat = NoSeat /\ lots = o.size
      \/ left.seat = o.seat /\ left.price = o.price /\ left.size = o.size - lots /\ left.size > 0
  <2>1. CASE o.size = lots
    BY <2>1 DEF NoOrder
  <2>2. CASE o.size # lots
    BY <1>1, <1>2, <2>2 DEF Order
  <2> QED BY <2>1, <2>2
<1> HIDE DEF b, left
<1>7. /\ n \in MarketType /\ n.book = b
      /\ n.seat_of = m.seat_of /\ n.state = m.state
      /\ n.base_deposited = m.base_deposited /\ n.quote_deposited = m.quote_deposited
      /\ n.unclaimed_fees = m.unclaimed_fees
  BY <1>1, <1>4, <1>5 DEF MarketType
<1>8. \A d \in Sides : \A k \in Slots :
        n.book[d][k] = IF d = side /\ k = h THEN left ELSE m.book[d][k]
  BY <1>5, <1>7
<1>9. \A d \in Sides : \A k \in LiveSlots(n, d) :
        /\ k \in LiveSlots(m, d)
        /\ n.book[d][k].seat = m.book[d][k].seat
        /\ n.book[d][k].price = m.book[d][k].price
        /\ n.book[d][k].size > 0
  <2> SUFFICES ASSUME NEW d \in Sides, NEW k \in LiveSlots(n, d)
               PROVE  /\ k \in LiveSlots(m, d)
                      /\ n.book[d][k].seat = m.book[d][k].seat
                      /\ n.book[d][k].price = m.book[d][k].price
                      /\ n.book[d][k].size > 0
    OBVIOUS
  <2>1. k \in Slots /\ n.book[d][k].seat # NoSeat
    BY DEF LiveSlots, Live
  <2>2. CASE d = side /\ k = h
    BY <1>6, <1>8, <2>1, <2>2
  <2>3. CASE ~ (d = side /\ k = h)
    <3>1. n.book[d][k] = m.book[d][k]
      BY <1>8, <2>1, <2>3
    <3>2. k \in LiveSlots(m, d)
      BY <2>1, <3>1 DEF LiveSlots, Live
    <3> QED BY <3>1, <3>2 DEF OrdersOwned
  <2> QED BY <2>2, <2>3
<1>10. OrdersOwned(n) /\ BidsPriced(n)
  BY <1>7, <1>9 DEF OrdersOwned, BidsPriced, SeatLive, Sides
<1>11. ASSUME NEW s \in Seats
       PROVE  /\ SumTo(Resting(n, side, s), BookCapacity) =
                   SumTo(Resting(m, side, s), BookCapacity)
                     - IF s = o.seat THEN Backing(side, o.price, lots) ELSE 0
              /\ \A d \in Sides : d # side => Resting(n, d, s) = Resting(m, d, s)
  <2>1. /\ SumTo(Resting(n, side, s), BookCapacity) =
             SumTo(Resting(m, side, s), BookCapacity)
               + Resting(n, side, s)[h] - Resting(m, side, s)[h]
        /\ \A d \in Sides : d # side => Resting(n, d, s) = Resting(m, d, s)
    BY <1>1, <1>7, <1>8, RestingUpdate
  <2> DEFINE was == Resting(m, side, s)[h]
             is == Resting(n, side, s)[h]
             total == SumTo(Resting(m, side, s), BookCapacity)
  <2>2. was = IF o.seat = s THEN Backing(side, o.price, o.size) ELSE 0
    BY <1>1 DEF Resting
  <2>3. is = IF left.seat = s THEN Backing(side, left.price, left.size) ELSE 0
    BY <1>1, <1>8 DEF Resting
  <2>4. /\ Backing(side, o.price, lots) \in Nat
        /\ Backing(side, o.price, o.size) \in Nat
        /\ Backing(side, o.price, o.size - lots) =
             Backing(side, o.price, o.size) - Backing(side, o.price, lots)
    BY <1>2, BackingFacts, BackingNat, ZenonT(30)
  <2>5. s # NoSeat
    BY DEF Seats, NoSeat
  <2>6. total \in Int
    <3> DEFINE f == Resting(m, side, s)
    <3>1. \A i \in 1 .. BookCapacity : f[i] \in Nat
      BY <1>1, RestingNat DEF Slots
    <3> HIDE DEF f
    <3>2. SumTo(f, BookCapacity) \in Nat
      BY <3>1, SumNat
    <3> QED BY <3>2 DEF f
  <2> HIDE DEF was, is, total
  <2>7. is = was - IF s = o.seat THEN Backing(side, o.price, lots) ELSE 0
    BY <1>6, <2>2, <2>3, <2>4, <2>5
  <2>8. SumTo(Resting(n, side, s), BookCapacity) = total + is - was
    BY <2>1 DEF was, is, total
  <2>9. was \in Int /\ is \in Int
    BY <1>6, <2>2, <2>3, <2>4, <2>5
  <2>10. SumTo(Resting(n, side, s), BookCapacity) =
           total - IF s = o.seat THEN Backing(side, o.price, lots) ELSE 0
    BY <2>4, <2>6, <2>7, <2>8, <2>9
  <2> QED BY <2>1, <2>10 DEF total
<1> QED BY <1>7, <1>10, <1>11

(* Unlocking moves funds of one seat and changes what it holds by nothing. *)
LEMMA UnlockFacts ==
  ASSUME NEW old \in TraderState, NEW side \in Sides, NEW amount \in Nat,
         NEW new, new = Unlock(old, side, amount)
  PROVE  /\ new.base_free + new.base_locked = old.base_free + old.base_locked
         /\ new.quote_free + new.quote_locked = old.quote_free + old.quote_locked
         /\ new.base_locked = old.base_locked - IF side = "Ask" THEN amount ELSE 0
         /\ new.quote_locked = old.quote_locked - IF side = "Ask" THEN 0 ELSE amount
<1>1. /\ old.base_free \in Nat /\ old.base_locked \in Nat
      /\ old.quote_free \in Nat /\ old.quote_locked \in Nat
  BY StateFields
<1>2. CASE side = "Ask"
  <2>1. /\ new.base_free = old.base_free + amount
        /\ new.base_locked = old.base_locked - amount
        /\ new.quote_free = old.quote_free /\ new.quote_locked = old.quote_locked
    BY <1>2 DEF Unlock, TraderState
  <2> QED BY <1>1, <1>2, <2>1
<1>3. CASE side # "Ask"
  <2>1. /\ new.quote_free = old.quote_free + amount
        /\ new.quote_locked = old.quote_locked - amount
        /\ new.base_free = old.base_free /\ new.base_locked = old.base_locked
    BY <1>3 DEF Unlock, TraderState
  <2> QED BY <1>1, <1>3, <2>1
<1> QED BY <1>2, <1>3

(* Cancelling or reducing an order, or taking it in a self-trade. *)
LEMMA ReleaseBalanced ==
  ASSUME NEW m, WellFormed(m), Balanced(m), NEW side \in Sides, NEW h \in LiveSlots(m, side),
         NEW lots \in 0 .. m.book[side][h].size, CanRelease(m, side, h, lots)
  PROVE  /\ Balanced(Release(m, side, h, lots))
         /\ Release(m, side, h, lots).seat_of = m.seat_of
<1> DEFINE o == m.book[side][h]
           amount == Backing(side, o.price, lots)
           old == m.state[o.seat]
           new == Unlock(old, side, amount)
           m1 == [m EXCEPT !.state[o.seat] = new]
           n == Release(m, side, h, lots)
<1>1. /\ m \in MarketType /\ o.seat \in Seats /\ o.price \in Nat /\ o.size \in Nat
      /\ h \in Slots
  BY LiveSlotFacts, OrderFields DEF WellFormed
<1>2. amount \in Nat /\ old \in TraderState /\ new \in TraderState
  BY <1>1, BackingFacts, MarketFields DEF CanRelease
<1>3. SeatLive(m, o.seat)
  BY DEF Balanced, OrdersOwned
<1>4. n = Shrink(m1, side, h, lots)
  BY DEF Release
<1>5. Keeps(m, m1)
  BY <1>1, <1>2, StateKeeps
<1>6. /\ m1.seat_of = m.seat_of /\ m1.book = m.book
      /\ m1.base_deposited = m.base_deposited /\ m1.quote_deposited = m.quote_deposited
      /\ m1.unclaimed_fees = m.unclaimed_fees
      /\ \A x \in Seats : m1.state[x] = IF x = o.seat THEN new ELSE m.state[x]
  <2> HIDE DEF new
  <2> QED BY <1>1 DEF MarketType
<1>7. /\ new.base_free + new.base_locked = old.base_free + old.base_locked
      /\ new.quote_free + new.quote_locked = old.quote_free + old.quote_locked
      /\ new.base_locked = old.base_locked - IF side = "Ask" THEN amount ELSE 0
      /\ new.quote_locked = old.quote_locked - IF side = "Ask" THEN 0 ELSE amount
  <2> HIDE DEF amount, old
  <2> QED BY <1>2, UnlockFacts
<1> HIDE DEF new, m1, n, amount
<1>8. /\ SumTo(BaseHeld(m1), NumSeats) = SumTo(BaseHeld(m), NumSeats)
      /\ SumTo(QuoteHeld(m1), NumSeats) = SumTo(QuoteHeld(m), NumSeats)
  <2>1. m1 \in MarketType
    BY <1>5 DEF Keeps, WellFormed
  <2>2. \A x \in Seats : x # o.seat => m1.state[x] = m.state[x]
    BY <1>6
  <2>3. m1.state[o.seat] = new
    BY <1>1, <1>6
  <2>4. /\ SumTo(BaseHeld(m1), NumSeats) =
              SumTo(BaseHeld(m), NumSeats)
                + (new.base_free + new.base_locked) - (old.base_free + old.base_locked)
        /\ SumTo(QuoteHeld(m1), NumSeats) =
              SumTo(QuoteHeld(m), NumSeats)
                + (new.quote_free + new.quote_locked) - (old.quote_free + old.quote_locked)
    BY <1>1, <1>3, <1>6, <2>1, <2>2, <2>3, HeldUpdate
  <2>5. /\ SumTo(BaseHeld(m), NumSeats) \in Nat /\ SumTo(QuoteHeld(m), NumSeats) \in Nat
    BY <1>1, HeldSumsNat
  <2>6. /\ old.base_free + old.base_locked \in Nat
        /\ old.quote_free + old.quote_locked \in Nat
    <3>1. /\ old.base_free \in Nat /\ old.base_locked \in Nat
          /\ old.quote_free \in Nat /\ old.quote_locked \in Nat
      BY <1>2, StateFields
    <3> HIDE DEF old
    <3> QED BY <3>1
  <2> HIDE DEF old
  <2> QED BY <1>7, <2>4, <2>5, <2>6
<1>9. /\ WellFormed(m1)
      /\ \A d : LiveSlots(m1, d) = LiveSlots(m, d)
      /\ \A d, s : Resting(m1, d, s) = Resting(m, d, s)
      /\ OrdersOwned(m1) /\ BidsPriced(m1)
  <2>1. /\ \A d : LiveSlots(m1, d) = LiveSlots(m, d)
        /\ \A d, s : Resting(m1, d, s) = Resting(m, d, s)
        /\ \A s : SeatLive(m1, s) <=> SeatLive(m, s)
    BY <1>6 DEF LiveSlots, Resting, SeatLive
  <2> QED BY <1>5, <1>6, <2>1 DEF Keeps, Balanced, OrdersOwned, BidsPriced
<1>10. /\ n \in MarketType
       /\ n.seat_of = m1.seat_of /\ n.state = m1.state
       /\ n.base_deposited = m1.base_deposited /\ n.quote_deposited = m1.quote_deposited
       /\ n.unclaimed_fees = m1.unclaimed_fees
       /\ OrdersOwned(n) /\ BidsPriced(n)
       /\ \A s \in Seats :
            /\ SumTo(Resting(n, side, s), BookCapacity) =
                 SumTo(Resting(m1, side, s), BookCapacity)
                   - IF s = m1.book[side][h].seat
                     THEN Backing(side, m1.book[side][h].price, lots) ELSE 0
            /\ \A d \in Sides : d # side => Resting(n, d, s) = Resting(m1, d, s)
  <2>1. h \in LiveSlots(m1, side) /\ lots \in 0 .. m1.book[side][h].size
    BY <1>6, <1>9
  <2> QED BY <1>4, <1>9, <2>1, ShrinkResting
<1>11. BaseConserved(n) /\ QuoteConserved(n)
  BY <1>6, <1>8, <1>10, HeldSame DEF Balanced, BaseConserved, QuoteConserved
<1>12. LockedIsResting(n)
  <2> SUFFICES ASSUME NEW s \in Seats, SeatLive(n, s)
               PROVE  /\ n.state[s].base_locked = SumTo(Resting(n, "Ask", s), BookCapacity)
                      /\ n.state[s].quote_locked = SumTo(Resting(n, "Bid", s), BookCapacity)
    BY DEF LockedIsResting
  <2>1. /\ m.state[s].base_locked = SumTo(Resting(m, "Ask", s), BookCapacity)
        /\ m.state[s].quote_locked = SumTo(Resting(m, "Bid", s), BookCapacity)
    BY <1>6, <1>10 DEF Balanced, LockedIsResting, SeatLive
  <2>2. n.state[s] = IF s = o.seat THEN new ELSE m.state[s]
    BY <1>6, <1>10
  <2>3. /\ SumTo(Resting(n, side, s), BookCapacity) =
             SumTo(Resting(m, side, s), BookCapacity) - IF s = o.seat THEN amount ELSE 0
        /\ \A d \in Sides : d # side => Resting(n, d, s) = Resting(m, d, s)
    BY <1>6, <1>9, <1>10 DEF amount
  <2>4. m.state[s].base_locked \in Nat /\ m.state[s].quote_locked \in Nat
    BY <1>1, MarketFields, StateFields
  <2>5. CASE side = "Ask"
    <3>1. /\ SumTo(Resting(n, "Ask", s), BookCapacity) =
               SumTo(Resting(m, "Ask", s), BookCapacity) - IF s = o.seat THEN amount ELSE 0
          /\ Resting(n, "Bid", s) = Resting(m, "Bid", s)
      BY <2>3, <2>5 DEF Sides
    <3>2. CASE s = o.seat
      <4>1. new.base_locked = old.base_locked - amount /\ new.quote_locked = old.quote_locked
        <5>1. amount \in Nat /\ old.base_locked \in Nat /\ old.quote_locked \in Nat
          BY <1>2, StateFields
        <5> HIDE DEF old
        <5> QED BY <1>7, <2>5, <5>1
      <4>2. n.state[s] = new /\ m.state[s] = old
        BY <2>2, <3>2
      <4> QED BY <2>1, <2>4, <3>1, <3>2, <4>1, <4>2
    <3>3. CASE s # o.seat
      BY <2>1, <2>2, <2>4, <3>1, <3>3
    <3> QED BY <3>2, <3>3
  <2>6. CASE side = "Bid"
    <3>1. /\ SumTo(Resting(n, "Bid", s), BookCapacity) =
               SumTo(Resting(m, "Bid", s), BookCapacity) - IF s = o.seat THEN amount ELSE 0
          /\ Resting(n, "Ask", s) = Resting(m, "Ask", s)
      BY <2>3, <2>6 DEF Sides
    <3>2. CASE s = o.seat
      <4>1. new.base_locked = old.base_locked /\ new.quote_locked = old.quote_locked - amount
        <5>1. amount \in Nat /\ old.base_locked \in Nat /\ old.quote_locked \in Nat
          BY <1>2, StateFields
        <5> HIDE DEF old
        <5> QED BY <1>7, <2>6, <5>1
      <4>2. n.state[s] = new /\ m.state[s] = old
        BY <2>2, <3>2
      <4> QED BY <2>1, <2>4, <3>1, <3>2, <4>1, <4>2
    <3>3. CASE s # o.seat
      BY <2>1, <2>2, <2>4, <3>1, <3>3
    <3> QED BY <3>2, <3>3
  <2> QED BY <2>5, <2>6 DEF Sides
<1>13. SeatsDistinct(n)
  BY <1>6, <1>10 DEF Balanced, SeatsDistinct
<1> QED BY <1>6, <1>10, <1>11, <1>12, <1>13 DEF Balanced, n

LEMMA LockFacts ==
  ASSUME NEW old \in TraderState, NEW side \in Sides, NEW amount \in Nat,
         NEW new, new = Lock(old, side, amount)
  PROVE  /\ new.base_free + new.base_locked = old.base_free + old.base_locked
         /\ new.quote_free + new.quote_locked = old.quote_free + old.quote_locked
         /\ new.base_locked = old.base_locked + IF side = "Ask" THEN amount ELSE 0
         /\ new.quote_locked = old.quote_locked + IF side = "Ask" THEN 0 ELSE amount
<1>1. /\ old.base_free \in Nat /\ old.base_locked \in Nat
      /\ old.quote_free \in Nat /\ old.quote_locked \in Nat
  BY StateFields
<1>2. CASE side = "Ask"
  <2>1. /\ new.base_free = old.base_free - amount
        /\ new.base_locked = old.base_locked + amount
        /\ new.quote_free = old.quote_free /\ new.quote_locked = old.quote_locked
    BY <1>2 DEF Lock, TraderState
  <2> QED BY <1>1, <1>2, <2>1
<1>3. CASE side # "Ask"
  <2>1. /\ new.quote_free = old.quote_free - amount
        /\ new.quote_locked = old.quote_locked + amount
        /\ new.base_free = old.base_free /\ new.base_locked = old.base_locked
    BY <1>3 DEF Lock, TraderState
  <2> QED BY <1>1, <1>3, <2>1
<1> QED BY <1>2, <1>3

(* Resting an order locks exactly what its backing needs. *)
LEMMA PostBalanced ==
  ASSUME NEW m, WellFormed(m), Balanced(m), NEW seat \in Seats, SeatLive(m, seat),
         NEW side \in Sides, NEW price \in U64, NEW size \in U64, size > 0,
         side = "Bid" => price > 0, CanPost(m, seat, side, price, size)
  PROVE  /\ Balanced(Post(m, seat, side, price, size))
         /\ Post(m, seat, side, price, size).seat_of = m.seat_of
<1> DEFINE h == CHOOSE h \in FreeSlots(m, side) : TRUE
           o == [price |-> price, seq |-> m.next_seq, seat |-> seat, size |-> size]
           n == Post(m, seat, side, price, size)
           amount == Backing(side, price, size)
           old == m.state[seat]
           new == Lock(old, side, amount)
           st == [m.state EXCEPT ![seat] = new]
           b == [m.book EXCEPT ![side][h] = o]
           q == m.next_seq + 1
<1>1. /\ m \in MarketType /\ new \in TraderState /\ old \in TraderState
      /\ price \in Nat /\ size \in Nat
  BY MarketFields DEF WellFormed, CanPost, U64
<1>2. amount \in Nat
  BY <1>1, BackingNat
<1>3. h \in Slots /\ ~ Live(m.book[side][h])
  <2>1. h \in FreeSlots(m, side)
    BY DEF CanPost
  <2> HIDE DEF h
  <2> QED BY <2>1 DEF FreeSlots, LiveSlots
<1>4. /\ new.base_free + new.base_locked = old.base_free + old.base_locked
      /\ new.quote_free + new.quote_locked = old.quote_free + old.quote_locked
      /\ new.base_locked = old.base_locked + IF side = "Ask" THEN amount ELSE 0
      /\ new.quote_locked = old.quote_locked + IF side = "Ask" THEN 0 ELSE amount
  <2> HIDE DEF amount, old
  <2> QED BY <1>1, <1>2, LockFacts
<1>5. n = [m EXCEPT !.state = st, !.book = b, !.next_seq = q]
  BY DEF Post
<1> HIDE DEF h
<1>6. o \in Order /\ o.price = price /\ o.size = size /\ o.seat = seat
  BY <1>1 DEF Order, MarketType, Seats
<1>7. \A d \in Sides : \A k \in Slots :
        b[d][k] = IF d = side /\ k = h THEN o ELSE m.book[d][k]
  <2> HIDE DEF o
  <2> QED BY <1>1, <1>3, <1>6, BookUpdate
<1>8. \A x \in Seats : st[x] = IF x = seat THEN new ELSE m.state[x]
  <2> HIDE DEF new
  <2> QED BY <1>1 DEF MarketType
<1>9. n \in MarketType
  BY PostKeeps DEF Keeps, WellFormed
<1> HIDE DEF st, b, n, o, q, new, amount
<1>10. /\ n.seat_of = m.seat_of /\ n.state = st /\ n.book = b
       /\ n.base_deposited = m.base_deposited /\ n.quote_deposited = m.quote_deposited
       /\ n.unclaimed_fees = m.unclaimed_fees
  BY <1>1, <1>5 DEF MarketType
<1>11. /\ SumTo(BaseHeld(n), NumSeats) = SumTo(BaseHeld(m), NumSeats)
       /\ SumTo(QuoteHeld(n), NumSeats) = SumTo(QuoteHeld(m), NumSeats)
  <2>1. /\ SumTo(BaseHeld(n), NumSeats) =
             SumTo(BaseHeld(m), NumSeats)
               + (new.base_free + new.base_locked) - (old.base_free + old.base_locked)
        /\ SumTo(QuoteHeld(n), NumSeats) =
             SumTo(QuoteHeld(m), NumSeats)
               + (new.quote_free + new.quote_locked) - (old.quote_free + old.quote_locked)
    <3>1. n.state[seat] = new /\ \A x \in Seats : x # seat => n.state[x] = m.state[x]
      BY <1>8, <1>10
    <3> QED BY <1>1, <1>9, <1>10, <3>1, HeldUpdate
  <2>2. /\ SumTo(BaseHeld(m), NumSeats) \in Nat /\ SumTo(QuoteHeld(m), NumSeats) \in Nat
    BY <1>1, HeldSumsNat
  <2>3. /\ old.base_free + old.base_locked \in Nat
        /\ old.quote_free + old.quote_locked \in Nat
    BY <1>1, StateFields
  <2> HIDE DEF old
  <2> QED BY <1>4, <2>1, <2>2, <2>3
<1>12. BaseConserved(n) /\ QuoteConserved(n)
  BY <1>10, <1>11 DEF Balanced, BaseConserved, QuoteConserved
<1>13. /\ \A x : SeatLive(n, x) <=> SeatLive(m, x)
       /\ SeatsDistinct(n)
  BY <1>10 DEF Balanced, SeatsDistinct, SeatLive
<1>14. OrdersOwned(n) /\ BidsPriced(n)
  <2>1. ASSUME NEW d \in Sides, NEW k \in LiveSlots(n, d)
        PROVE  /\ SeatLive(n, n.book[d][k].seat) /\ n.book[d][k].size > 0
               /\ d = "Bid" => n.book[d][k].price > 0
    <3>1. k \in Slots /\ Live(n.book[d][k])
      BY <2>1 DEF LiveSlots
    <3>2. CASE d = side /\ k = h
      BY <1>6, <1>7, <1>10, <1>13, <3>1, <3>2
    <3>3. CASE ~ (d = side /\ k = h)
      <4>1. n.book[d][k] = m.book[d][k]
        BY <1>7, <1>10, <3>1, <3>3
      <4>2. k \in LiveSlots(m, d)
        BY <3>1, <4>1 DEF LiveSlots
      <4> QED BY <1>13, <4>1, <4>2 DEF Balanced, OrdersOwned, BidsPriced
    <3> QED BY <3>2, <3>3
  <2> QED BY <2>1 DEF OrdersOwned, BidsPriced, Sides
<1>15. LockedIsResting(n)
  <2> SUFFICES ASSUME NEW s \in Seats, SeatLive(n, s)
               PROVE  /\ n.state[s].base_locked = SumTo(Resting(n, "Ask", s), BookCapacity)
                      /\ n.state[s].quote_locked = SumTo(Resting(n, "Bid", s), BookCapacity)
    BY DEF LockedIsResting
  <2>1. /\ m.state[s].base_locked = SumTo(Resting(m, "Ask", s), BookCapacity)
        /\ m.state[s].quote_locked = SumTo(Resting(m, "Bid", s), BookCapacity)
    BY <1>13 DEF Balanced, LockedIsResting
  <2>2. n.state[s] = IF s = seat THEN new ELSE m.state[s]
    BY <1>8, <1>10
  <2>3. /\ SumTo(Resting(n, side, s), BookCapacity) =
             SumTo(Resting(m, side, s), BookCapacity)
               + Resting(n, side, s)[h] - Resting(m, side, s)[h]
        /\ \A d \in Sides : d # side => Resting(n, d, s) = Resting(m, d, s)
    <3>1. \A d \in Sides : \A k \in Slots :
            n.book[d][k] = IF d = side /\ k = h THEN o ELSE m.book[d][k]
      BY <1>7, <1>10
    <3>2. m \in MarketType /\ n \in MarketType /\ h \in Slots
      BY <1>1, <1>3, <1>9
    <3> QED BY ONLY <3>1, <3>2, side \in Sides, RestingUpdate, SMTT(30)
  <2>4. Resting(m, side, s)[h] = 0
    BY <1>3 DEF Resting, Live, Seats, NoSeat
  <2>5. Resting(n, side, s)[h] = IF s = seat THEN amount ELSE 0
    BY <1>3, <1>6, <1>7, <1>10 DEF Resting, amount
  <2>6. m.state[s].base_locked \in Nat /\ m.state[s].quote_locked \in Nat
    BY <1>1, MarketFields, StateFields
  <2>7. CASE side = "Ask"
    BY <1>2, <1>4, <2>1, <2>2, <2>3, <2>4, <2>5, <2>6, <2>7 DEF Sides
  <2>8. CASE side = "Bid"
    BY <1>2, <1>4, <2>1, <2>2, <2>3, <2>4, <2>5, <2>6, <2>8 DEF Sides
  <2> QED BY <2>7, <2>8 DEF Sides
<1> QED BY <1>10, <1>12, <1>13, <1>14, <1>15 DEF Balanced, n

-----------------------------------------------------------------------------
(* Fills. *)

LEMMA FillAmounts ==
  ASSUME NEW m, WellFormed(m), NEW k \in Taker, Reaches(m, k)
  PROVE  /\ FillSize(m, k) \in Nat /\ FillSize(m, k) <= Maker(m, k).size
         /\ Gross(m, k) \in Nat /\ Fee(m, k) \in Nat /\ Fee(m, k) <= Gross(m, k)
         /\ k.side \in Sides
<1>1. Maker(m, k).size \in Nat /\ Maker(m, k).price \in Nat
  BY MakerFacts DEF Reaches
<1>2. k.remaining \in Nat /\ k.side \in Sides
  BY DEF Taker, U64
<1>3. FillSize(m, k) \in Nat /\ FillSize(m, k) <= Maker(m, k).size
  BY <1>1, <1>2 DEF FillSize, MinOf
<1>4. Gross(m, k) \in Nat
  BY <1>1, <1>3, QuoteLotsForNat DEF Gross
<1>5. Fee(m, k) \in Nat /\ Fee(m, k) <= Gross(m, k)
  BY <1>4, FeeOnBound DEF Fee
<1> QED BY <1>2, <1>3, <1>4, <1>5

(* The maker's leg comes out of what its order had locked. *)
LEMMA MakerLeg ==
  ASSUME NEW m, WellFormed(m), NEW k \in Taker, Reaches(m, k)
  PROVE  LET old == m.state[Maker(m, k).seat]
             new == MakerSettled(m, k)
             amount == Backing(MakerSide(k), Maker(m, k).price, FillSize(m, k))
         IN  /\ new.base_locked = old.base_locked - IF MakerSide(k) = "Ask" THEN amount ELSE 0
             /\ new.quote_locked = old.quote_locked - IF MakerSide(k) = "Ask" THEN 0 ELSE amount
             /\ new.base_free + new.base_locked =
                  old.base_free + old.base_locked
                    + IF k.side = "Bid" THEN - FillSize(m, k) ELSE FillSize(m, k)
             /\ new.quote_free + new.quote_locked =
                  old.quote_free + old.quote_locked
                    + IF k.side = "Bid" THEN Gross(m, k) ELSE - Gross(m, k)
<1> DEFINE old == m.state[Maker(m, k).seat]
           new == MakerSettled(m, k)
           size == FillSize(m, k)
           gross == Gross(m, k)
           amount == Backing(MakerSide(k), Maker(m, k).price, FillSize(m, k))
<1>1. /\ size \in Nat /\ gross \in Nat /\ k.side \in Sides
  BY FillAmounts
<1>2. old \in TraderState
  BY MakerFacts, MarketFields DEF WellFormed, Reaches
<1>3. /\ old.base_free \in Nat /\ old.base_locked \in Nat
      /\ old.quote_free \in Nat /\ old.quote_locked \in Nat
  BY <1>2, StateFields
<1>4. CASE k.side = "Bid"
  <2>1. MakerSide(k) = "Ask" /\ amount = size
    BY <1>4 DEF MakerSide, Opposite, Backing
  <2>2. new = [old EXCEPT !.base_locked = old.base_locked - size,
                          !.quote_free = old.quote_free + gross]
    BY <1>4 DEF MakerSettled
  <2> HIDE DEF old, new, size, gross, amount
  <2>3. /\ new.base_free = old.base_free /\ new.base_locked = old.base_locked - size
        /\ new.quote_free = old.quote_free + gross /\ new.quote_locked = old.quote_locked
    BY <1>2, <2>2 DEF TraderState
  <2>4. /\ new.base_locked = old.base_locked - IF MakerSide(k) = "Ask" THEN amount ELSE 0
        /\ new.quote_locked = old.quote_locked - IF MakerSide(k) = "Ask" THEN 0 ELSE amount
        /\ new.base_free + new.base_locked =
             old.base_free + old.base_locked + IF k.side = "Bid" THEN - size ELSE size
        /\ new.quote_free + new.quote_locked =
             old.quote_free + old.quote_locked + IF k.side = "Bid" THEN gross ELSE - gross
    BY <1>1, <1>3, <1>4, <2>1, <2>3
  <2> QED BY <2>4 DEF old, new, size, gross, amount
<1>5. CASE k.side = "Ask"
  <2>1. MakerSide(k) = "Bid" /\ amount = gross
    BY <1>5 DEF MakerSide, Opposite, Backing, Gross
  <2>2. new = [old EXCEPT !.quote_locked = old.quote_locked - gross,
                          !.base_free = old.base_free + size]
    BY <1>5 DEF MakerSettled
  <2> HIDE DEF old, new, size, gross, amount
  <2>3. /\ new.base_free = old.base_free + size /\ new.base_locked = old.base_locked
        /\ new.quote_free = old.quote_free /\ new.quote_locked = old.quote_locked - gross
    BY <1>2, <2>2 DEF TraderState
  <2>4. /\ new.base_locked = old.base_locked - IF MakerSide(k) = "Ask" THEN amount ELSE 0
        /\ new.quote_locked = old.quote_locked - IF MakerSide(k) = "Ask" THEN 0 ELSE amount
        /\ new.base_free + new.base_locked =
             old.base_free + old.base_locked + IF k.side = "Bid" THEN - size ELSE size
        /\ new.quote_free + new.quote_locked =
             old.quote_free + old.quote_locked + IF k.side = "Bid" THEN gross ELSE - gross
    BY <1>1, <1>3, <1>5, <2>1, <2>3
  <2> QED BY <2>4 DEF old, new, size, gross, amount
<1> QED BY <1>1, <1>4, <1>5 DEF Sides

(* The taker's leg is the other side of it, less the fee, and never out of *)
(* locked funds.                                                           *)
LEMMA TakerLeg ==
  ASSUME NEW m, WellFormed(m), NEW k \in Taker, k.seat \in Seats, Reaches(m, k)
  PROVE  LET old == m.state[k.seat]
             new == TakerSettled(m, k)
         IN  /\ new.base_locked = old.base_locked
             /\ new.quote_locked = old.quote_locked
             /\ new.base_free + new.base_locked =
                  old.base_free + old.base_locked
                    + IF k.side = "Bid" THEN FillSize(m, k) ELSE - FillSize(m, k)
             /\ new.quote_free + new.quote_locked =
                  old.quote_free + old.quote_locked - Fee(m, k)
                    + IF k.side = "Bid" THEN - Gross(m, k) ELSE Gross(m, k)
<1> DEFINE old == m.state[k.seat]
           new == TakerSettled(m, k)
           size == FillSize(m, k)
           gross == Gross(m, k)
           fee == Fee(m, k)
<1>1. /\ size \in Nat /\ gross \in Nat /\ fee \in Nat /\ k.side \in Sides
  BY FillAmounts
<1>2. old \in TraderState
  BY MarketFields DEF WellFormed
<1>3. /\ old.base_free \in Nat /\ old.base_locked \in Nat
      /\ old.quote_free \in Nat /\ old.quote_locked \in Nat
  BY <1>2, StateFields
<1> DEFINE base == IF k.side = "Bid" THEN size ELSE - size
           quote == IF k.side = "Bid" THEN - (gross + fee) ELSE gross - fee
<1>4. new = Credit(old, base, quote)
  BY <1>1 DEF TakerSettled, Sides
<1> HIDE DEF old, new, size, gross, fee
<1>5. base \in Int /\ quote \in Int
  BY <1>1
<1> HIDE DEF base, quote
<1>6. /\ new.base_free = old.base_free + base /\ new.base_locked = old.base_locked
      /\ new.quote_free = old.quote_free + quote /\ new.quote_locked = old.quote_locked
  BY <1>2, <1>4 DEF Credit, TraderState
<1>7. /\ new.base_free + new.base_locked = old.base_free + old.base_locked + base
      /\ new.quote_free + new.quote_locked = old.quote_free + old.quote_locked + quote
  BY <1>3, <1>5, <1>6
<1>8. quote = - fee + IF k.side = "Bid" THEN - gross ELSE gross
  BY <1>1 DEF quote
<1>9. /\ new.base_free + new.base_locked =
           old.base_free + old.base_locked + IF k.side = "Bid" THEN size ELSE - size
      /\ new.quote_free + new.quote_locked =
           old.quote_free + old.quote_locked - fee + IF k.side = "Bid" THEN - gross ELSE gross
  <2>1. base = IF k.side = "Bid" THEN size ELSE - size
    BY DEF base
  <2> QED BY <1>1, <1>3, <1>7, <1>8, <2>1
<1> QED BY <1>6, <1>9 DEF old, new, size, gross, fee

(* The two seats a fill settles are both held, and are not the same one.   *)
LEMMA FillSeats ==
  ASSUME NEW m, WellFormed(m), OrdersOwned(m), NEW k \in Taker, Reaches(m, k),
         ~ IsSelfTrade(m, k)
  PROVE  /\ Maker(m, k).seat \in Seats /\ SeatLive(m, Maker(m, k).seat)
         /\ Maker(m, k).seat # k.seat
<1>1. /\ MakerSide(k) \in Sides /\ MakerSlot(m, k) \in LiveSlots(m, MakerSide(k))
      /\ Maker(m, k).seat \in Seats
  BY MakerFacts DEF Reaches
<1> QED BY <1>1 DEF OrdersOwned, Maker, IsSelfTrade

(* A fill creates and loses nothing: the fee leaves the taker's balance    *)
(* and joins the unclaimed fees, and what the maker had locked behind the  *)
(* lots it sold is what the other leg received.                            *)
LEMMA FillBalanced ==
  ASSUME NEW m, WellFormed(m), Balanced(m), NEW k \in Taker, k.seat \in Seats,
         SeatLive(m, k.seat), Reaches(m, k), ~ IsSelfTrade(m, k), CanSettle(m, k)
  PROVE  Balanced(Fill(m, k)) /\ Fill(m, k).seat_of = m.seat_of
<1> DEFINE maker == Maker(m, k).seat
           ms == MakerSettled(m, k)
           ts == TakerSettled(m, k)
           m1 == [m EXCEPT !.state[maker] = ms]
           st == [m.state EXCEPT ![maker] = ms, ![k.seat] = ts]
           uf == m.unclaimed_fees + Fee(m, k)
           cf == m.collected_fees + Fee(m, k)
           m2 == [m EXCEPT !.state = st, !.unclaimed_fees = uf, !.collected_fees = cf]
           side == MakerSide(k)
           h == MakerSlot(m, k)
           size == FillSize(m, k)
           amount == Backing(side, Maker(m, k).price, size)
           n == Fill(m, k)
<1>1. /\ side \in Sides /\ h \in LiveSlots(m, side) /\ m.book[side][h] = Maker(m, k)
      /\ m \in MarketType /\ Maker(m, k).price \in Nat
  BY MakerFacts DEF Reaches, WellFormed, Maker
<1>2. maker \in Seats /\ SeatLive(m, maker) /\ maker # k.seat
  BY FillSeats DEF Balanced
<1>3. /\ size \in Nat /\ size <= Maker(m, k).size /\ k.side \in Sides
      /\ Gross(m, k) \in Nat /\ Fee(m, k) \in Nat
  BY FillAmounts
<1>4. ms \in TraderState /\ ts \in TraderState /\ uf \in U64 /\ cf \in U64
  BY DEF CanSettle
<1>5. amount \in Nat
  BY <1>1, <1>3, BackingNat
<1>6. /\ ms.base_locked = m.state[maker].base_locked - IF side = "Ask" THEN amount ELSE 0
      /\ ms.quote_locked = m.state[maker].quote_locked - IF side = "Ask" THEN 0 ELSE amount
      /\ ms.base_free + ms.base_locked =
           m.state[maker].base_free + m.state[maker].base_locked
             + IF k.side = "Bid" THEN - size ELSE size
      /\ ms.quote_free + ms.quote_locked =
           m.state[maker].quote_free + m.state[maker].quote_locked
             + IF k.side = "Bid" THEN Gross(m, k) ELSE - Gross(m, k)
  BY MakerLeg
<1>7. /\ ts.base_locked = m.state[k.seat].base_locked
      /\ ts.quote_locked = m.state[k.seat].quote_locked
      /\ ts.base_free + ts.base_locked =
           m.state[k.seat].base_free + m.state[k.seat].base_locked
             + IF k.side = "Bid" THEN size ELSE - size
      /\ ts.quote_free + ts.quote_locked =
           m.state[k.seat].quote_free + m.state[k.seat].quote_locked - Fee(m, k)
             + IF k.side = "Bid" THEN - Gross(m, k) ELSE Gross(m, k)
  BY TakerLeg
<1>8. n = Shrink(m2, side, h, size)
  BY DEF Fill
<1> HIDE DEF ms, ts, maker, side, h, size, amount, n, uf, cf
<1>9. /\ st \in [Seats -> TraderState]
      /\ \A x \in Seats : st[x] = IF x = k.seat THEN ts ELSE IF x = maker THEN ms ELSE m.state[x]
  BY <1>1, <1>2, <1>4 DEF MarketType
<1>10. /\ m1.seat_of = m.seat_of
       /\ \A x \in Seats : m1.state[x] = IF x = maker THEN ms ELSE m.state[x]
  BY <1>1, <1>2 DEF MarketType
<1>11. m1 \in MarketType
  BY <1>2, <1>4, StateKeeps DEF Keeps, WellFormed
<1> HIDE DEF st, m1
<1>12. /\ m2 \in MarketType /\ m2.seat_of = m.seat_of /\ m2.state = st /\ m2.book = m.book
       /\ m2.next_seq = m.next_seq
       /\ m2.base_deposited = m.base_deposited /\ m2.quote_deposited = m.quote_deposited
       /\ m2.unclaimed_fees = uf
  BY <1>1, <1>4, <1>9 DEF MarketType
<1> HIDE DEF m2
<1>13. /\ SumTo(BaseHeld(m2), NumSeats) = SumTo(BaseHeld(m), NumSeats)
       /\ SumTo(QuoteHeld(m2), NumSeats) = SumTo(QuoteHeld(m), NumSeats) - Fee(m, k)
  <2> DEFINE b0 == SumTo(BaseHeld(m), NumSeats)
             b1 == SumTo(BaseHeld(m1), NumSeats)
             b2 == SumTo(BaseHeld(m2), NumSeats)
             q0 == SumTo(QuoteHeld(m), NumSeats)
             q1 == SumTo(QuoteHeld(m1), NumSeats)
             q2 == SumTo(QuoteHeld(m2), NumSeats)
             mb == m.state[maker].base_free + m.state[maker].base_locked
             mq == m.state[maker].quote_free + m.state[maker].quote_locked
             tb == m.state[k.seat].base_free + m.state[k.seat].base_locked
             tq == m.state[k.seat].quote_free + m.state[k.seat].quote_locked
             msb == ms.base_free + ms.base_locked
             msq == ms.quote_free + ms.quote_locked
             tsb == ts.base_free + ts.base_locked
             tsq == ts.quote_free + ts.quote_locked
  <2>1. b1 = b0 + msb - mb /\ q1 = q0 + msq - mq
    <3>1. /\ m1.state[maker] = ms
          /\ \A x \in Seats : x # maker => m1.state[x] = m.state[x]
      BY <1>2, <1>10
    <3> QED BY <1>1, <1>2, <1>10, <1>11, <3>1, HeldUpdate
  <2>2. b2 = b1 + tsb - tb /\ q2 = q1 + tsq - tq
    <3>1. /\ m2.state[k.seat] = ts /\ m1.state[k.seat] = m.state[k.seat]
          /\ \A x \in Seats : x # k.seat => m2.state[x] = m1.state[x]
      BY <1>2, <1>9, <1>10, <1>12
    <3>2. m2.seat_of = m1.seat_of /\ SeatLive(m1, k.seat)
      BY <1>10, <1>12 DEF SeatLive
    <3> QED BY <1>11, <1>12, <3>1, <3>2, HeldUpdate
  <2>3. b0 \in Nat /\ q0 \in Nat /\ mb \in Nat /\ mq \in Nat /\ tb \in Nat /\ tq \in Nat
    <3>1. m.state[maker] \in TraderState /\ m.state[k.seat] \in TraderState
      BY <1>1, <1>2, MarketFields
    <3> QED BY <1>1, <3>1, HeldSumsNat, StateFields
  <2>4. /\ msb = mb + IF k.side = "Bid" THEN - size ELSE size
        /\ msq = mq + IF k.side = "Bid" THEN Gross(m, k) ELSE - Gross(m, k)
        /\ tsb = tb + IF k.side = "Bid" THEN size ELSE - size
        /\ tsq = tq - Fee(m, k) + IF k.side = "Bid" THEN - Gross(m, k) ELSE Gross(m, k)
    <3>1. /\ msb = mb + IF k.side = "Bid" THEN - size ELSE size
          /\ msq = mq + IF k.side = "Bid" THEN Gross(m, k) ELSE - Gross(m, k)
      BY ONLY <1>6
    <3>2. tsb = tb + IF k.side = "Bid" THEN size ELSE - size
      BY ONLY <1>7
    <3>3. tsq = tq - Fee(m, k) + IF k.side = "Bid" THEN - Gross(m, k) ELSE Gross(m, k)
      <4>1. m.state[k.seat].quote_free \in Nat /\ m.state[k.seat].quote_locked \in Nat
        BY <1>1, MarketFields, StateFields
      <4> QED BY ONLY <1>3, <1>7, <4>1
    <3> QED BY <3>1, <3>2, <3>3
  <2> HIDE DEF b0, b1, b2, q0, q1, q2, mb, mq, tb, tq, msb, msq, tsb, tsq
  <2>5. b2 = b0 /\ q2 = q0 - Fee(m, k)
    BY <1>3, <2>1, <2>2, <2>3, <2>4
  <2> QED BY <2>5 DEF b0, b2, q0, q2
<1>14. /\ WellFormed(m2)
       /\ \A d : LiveSlots(m2, d) = LiveSlots(m, d)
       /\ \A d, s : Resting(m2, d, s) = Resting(m, d, s)
       /\ OrdersOwned(m2) /\ BidsPriced(m2)
  <2>1. /\ \A d : LiveSlots(m2, d) = LiveSlots(m, d)
        /\ \A d, s : Resting(m2, d, s) = Resting(m, d, s)
        /\ \A s : SeatLive(m2, s) <=> SeatLive(m, s)
    BY <1>12 DEF LiveSlots, Resting, SeatLive
  <2> QED BY <1>12, <2>1, SameBook DEF Balanced, OrdersOwned, BidsPriced
<1>15. /\ n.seat_of = m2.seat_of /\ n.state = m2.state
       /\ n.base_deposited = m2.base_deposited /\ n.quote_deposited = m2.quote_deposited
       /\ n.unclaimed_fees = m2.unclaimed_fees
       /\ OrdersOwned(n) /\ BidsPriced(n)
       /\ \A s \in Seats :
            /\ SumTo(Resting(n, side, s), BookCapacity) =
                 SumTo(Resting(m2, side, s), BookCapacity)
                   - IF s = m2.book[side][h].seat
                     THEN Backing(side, m2.book[side][h].price, size) ELSE 0
            /\ \A d \in Sides : d # side => Resting(n, d, s) = Resting(m2, d, s)
  <2>1. /\ h \in LiveSlots(m2, side) /\ m2.book[side][h] = Maker(m, k)
        /\ Maker(m, k).size \in Nat
    BY <1>1, <1>12, <1>14, MakerFacts DEF Reaches
  <2>2. size \in 0 .. m2.book[side][h].size
    BY <1>3, <2>1
  <2> QED BY <1>1, <1>8, <1>14, <2>1, <2>2, ShrinkResting
<1>16. BaseConserved(n) /\ QuoteConserved(n)
  <2>1. BaseHeld(n) = BaseHeld(m2) /\ QuoteHeld(n) = QuoteHeld(m2)
    BY <1>15, HeldSame
  <2>2. SumTo(QuoteHeld(m), NumSeats) \in Nat /\ m.unclaimed_fees \in Nat
    BY <1>1, HeldSumsNat
  <2> QED BY <1>3, <1>12, <1>13, <1>15, <2>1, <2>2
          DEF Balanced, BaseConserved, QuoteConserved, uf
<1>17. LockedIsResting(n)
  <2> SUFFICES ASSUME NEW s \in Seats, SeatLive(n, s)
               PROVE  /\ n.state[s].base_locked = SumTo(Resting(n, "Ask", s), BookCapacity)
                      /\ n.state[s].quote_locked = SumTo(Resting(n, "Bid", s), BookCapacity)
    BY DEF LockedIsResting
  <2>1. /\ m.state[s].base_locked = SumTo(Resting(m, "Ask", s), BookCapacity)
        /\ m.state[s].quote_locked = SumTo(Resting(m, "Bid", s), BookCapacity)
    BY <1>12, <1>15 DEF Balanced, LockedIsResting, SeatLive
  <2>2. n.state[s] = IF s = k.seat THEN ts ELSE IF s = maker THEN ms ELSE m.state[s]
    BY <1>9, <1>12, <1>15
  <2>3. /\ SumTo(Resting(n, side, s), BookCapacity) =
             SumTo(Resting(m, side, s), BookCapacity) - IF s = maker THEN amount ELSE 0
        /\ \A d \in Sides : d # side => Resting(n, d, s) = Resting(m, d, s)
    BY <1>1, <1>12, <1>14, <1>15 DEF amount, maker
  <2>4. m.state[s].base_locked \in Nat /\ m.state[s].quote_locked \in Nat
    BY <1>1, MarketFields, StateFields
  <2>5. /\ n.state[s].base_locked =
             m.state[s].base_locked - IF s = maker /\ side = "Ask" THEN amount ELSE 0
        /\ n.state[s].quote_locked =
             m.state[s].quote_locked - IF s = maker /\ side # "Ask" THEN amount ELSE 0
    BY <1>2, <1>5, <1>6, <1>7, <2>2, <2>4
  <2>6. CASE side = "Ask"
    BY <1>5, <2>1, <2>3, <2>4, <2>5, <2>6 DEF Sides
  <2>7. CASE side = "Bid"
    BY <1>5, <2>1, <2>3, <2>4, <2>5, <2>7 DEF Sides
  <2> QED BY <1>1, <2>6, <2>7 DEF Sides
<1>18. SeatsDistinct(n)
  BY <1>12, <1>15 DEF Balanced, SeatsDistinct
<1> QED BY <1>12, <1>15, <1>16, <1>17, <1>18 DEF Balanced, n

-----------------------------------------------------------------------------
(* What balanced books make possible.  Every balance is part of a total    *)
(* that was accepted as a deposit, and deposits fit in the word.           *)

LEMMA HeldBounds ==
  ASSUME NEW m, WellFormed(m), Balanced(m), NEW p \in Seats, SeatLive(m, p)
  PROVE  /\ m.state[p].base_free + m.state[p].base_locked <= m.base_deposited
         /\ m.state[p].quote_free + m.state[p].quote_locked + m.unclaimed_fees
              <= m.quote_deposited
         /\ \A q \in Seats : q # p /\ SeatLive(m, q) =>
              /\ (m.state[p].base_free + m.state[p].base_locked)
                   + (m.state[q].base_free + m.state[q].base_locked) <= m.base_deposited
              /\ (m.state[p].quote_free + m.state[p].quote_locked)
                   + (m.state[q].quote_free + m.state[q].quote_locked)
                   + m.unclaimed_fees <= m.quote_deposited
<1> DEFINE b == BaseHeld(m)
           c == QuoteHeld(m)
<1>1. m \in MarketType
  BY DEF WellFormed
<1>2. \A q \in Seats : SeatLive(m, q) =>
        /\ b[q] = m.state[q].base_free + m.state[q].base_locked
        /\ c[q] = m.state[q].quote_free + m.state[q].quote_locked
  BY DEF BaseHeld, QuoteHeld
<1>3. /\ \A i \in 1 .. NumSeats : b[i] \in Nat
      /\ \A i \in 1 .. NumSeats : c[i] \in Nat
      /\ NumSeats \in Nat /\ Seats = 1 .. NumSeats
  BY <1>1, HeldNat DEF Seats
<1>4. /\ SumTo(b, NumSeats) = m.base_deposited
      /\ SumTo(c, NumSeats) + m.unclaimed_fees = m.quote_deposited
  BY DEF Balanced, BaseConserved, QuoteConserved
<1>5. /\ SumTo(b, NumSeats) \in Nat /\ SumTo(c, NumSeats) \in Nat
      /\ m.unclaimed_fees \in Nat
  BY <1>1, HeldSumsNat
<1> HIDE DEF b, c
<1>6. b[p] <= SumTo(b, NumSeats) /\ c[p] <= SumTo(c, NumSeats)
  BY <1>3, SumNat
<1>7. /\ m.state[p].base_free + m.state[p].base_locked <= m.base_deposited
      /\ m.state[p].quote_free + m.state[p].quote_locked + m.unclaimed_fees
           <= m.quote_deposited
  <2>1. b[p] \in Nat /\ c[p] \in Nat
    BY <1>3
  <2>2. b[p] <= m.base_deposited /\ c[p] + m.unclaimed_fees <= m.quote_deposited
    BY <1>4, <1>5, <1>6, <2>1
  <2> QED BY <1>2, <2>2
<1>8. ASSUME NEW q \in Seats, q # p, SeatLive(m, q)
      PROVE  /\ (m.state[p].base_free + m.state[p].base_locked)
                  + (m.state[q].base_free + m.state[q].base_locked) <= m.base_deposited
             /\ (m.state[p].quote_free + m.state[p].quote_locked)
                  + (m.state[q].quote_free + m.state[q].quote_locked)
                  + m.unclaimed_fees <= m.quote_deposited
  <2>1. b[p] + b[q] <= SumTo(b, NumSeats) /\ c[p] + c[q] <= SumTo(c, NumSeats)
    BY <1>3, <1>8, SumTwo
  <2>2. b[p] \in Nat /\ c[p] \in Nat /\ b[q] \in Nat /\ c[q] \in Nat
    BY <1>3
  <2>3. b[p] + b[q] <= m.base_deposited /\ c[p] + c[q] + m.unclaimed_fees <= m.quote_deposited
    BY <1>4, <1>5, <2>1, <2>2
  <2> QED BY <1>2, <1>8, <2>3
<1> QED BY <1>7, <1>8

(* Any part of any resting order can be released, whatever anybody did.    *)
LEMMA ReleaseAlwaysPossible ==
  ASSUME NEW m, WellFormed(m), Balanced(m), NEW side \in Sides, NEW h \in LiveSlots(m, side),
         NEW lots \in 0 .. m.book[side][h].size
  PROVE  CanRelease(m, side, h, lots)
<1> DEFINE o == m.book[side][h]
           st == m.state[o.seat]
           amount == Backing(side, o.price, lots)
<1>1. /\ m \in MarketType /\ o.seat \in Seats /\ o.price \in Nat /\ o.size \in Nat
  BY LiveSlotFacts, OrderFields DEF WellFormed
<1>2. SeatLive(m, o.seat)
  BY LockedCoversOrder
<1>3. /\ amount \in Nat
      /\ amount <= Backing(side, o.price, o.size)
      /\ Backing(side, o.price, o.size) \in Nat
  BY <1>1, BackingFacts, BackingNat
<1>4. Backing(side, o.price, o.size) <= IF side = "Ask" THEN st.base_locked ELSE st.quote_locked
  BY LockedCoversOrder
<1>5. st \in TraderState
  BY <1>1, MarketFields
<1>6. /\ st.base_free \in Nat /\ st.base_locked \in Nat
      /\ st.quote_free \in Nat /\ st.quote_locked \in Nat
      /\ st.base_locked <= U64Max /\ st.quote_locked <= U64Max
  BY <1>5, StateFields
<1>7. /\ st.base_free + st.base_locked <= U64Max
      /\ st.quote_free + st.quote_locked <= U64Max
  <2>1. /\ m.base_deposited \in Nat /\ m.base_deposited <= U64Max
        /\ m.quote_deposited \in Nat /\ m.quote_deposited <= U64Max
        /\ m.unclaimed_fees \in Nat
    BY <1>1, HeldSumsNat
  <2>2. /\ st.base_free + st.base_locked <= m.base_deposited
        /\ st.quote_free + st.quote_locked + m.unclaimed_fees <= m.quote_deposited
    BY <1>1, <1>2, HeldBounds
  <2> HIDE DEF st
  <2> QED BY <1>6, <2>1, <2>2
<1> HIDE DEF st, amount
<1>8. amount \in U64
  BY <1>3, <1>4, <1>6 DEF U64
<1>9. Unlock(st, side, amount) \in TraderState
  <2>1. CASE side = "Ask"
    <3>1. st.base_free + amount \in U64 /\ st.base_locked - amount \in U64
      BY <1>3, <1>4, <1>6, <1>7, <2>1 DEF U64
    <3> QED BY <1>5, <2>1, <3>1 DEF Unlock, TraderState
  <2>2. CASE side # "Ask"
    <3>1. st.quote_free + amount \in U64 /\ st.quote_locked - amount \in U64
      BY <1>3, <1>4, <1>6, <1>7, <2>2 DEF U64
    <3> QED BY <1>5, <2>2, <3>1 DEF Unlock, TraderState
  <2> QED BY <2>1, <2>2
<1> QED BY <1>8, <1>9 DEF CanRelease, st, amount

(* Settling a fill the taker can pay for takes nothing a seat does not     *)
(* have and overflows no balance (matching.rs).                            *)
LEMMA SettlementPossible ==
  ASSUME NEW m, WellFormed(m), Balanced(m), NEW k \in Taker, k.seat \in Seats,
         SeatLive(m, k.seat), Reaches(m, k), ~ IsSelfTrade(m, k), TakerCanAfford(m, k)
  PROVE  /\ MakerSettled(m, k) \in TraderState
         /\ TakerSettled(m, k) \in TraderState
         /\ m.unclaimed_fees + Fee(m, k) \in U64
<1> DEFINE a == m.state[Maker(m, k).seat]
           t == m.state[k.seat]
           size == FillSize(m, k)
           gross == Gross(m, k)
           fee == Fee(m, k)
           uf == m.unclaimed_fees
<1>1. /\ MakerSide(k) \in Sides /\ MakerSlot(m, k) \in LiveSlots(m, MakerSide(k))
      /\ Maker(m, k) = m.book[MakerSide(k)][MakerSlot(m, k)]
      /\ Maker(m, k).price \in Nat /\ Maker(m, k).size \in Nat
      /\ m \in MarketType
  BY MakerFacts DEF Reaches, WellFormed, Maker
<1>2. /\ Maker(m, k).seat \in Seats /\ SeatLive(m, Maker(m, k).seat)
      /\ Maker(m, k).seat # k.seat
  BY FillSeats DEF Balanced
<1>3. /\ size \in Nat /\ size <= Maker(m, k).size /\ k.side \in Sides
      /\ gross \in Nat /\ fee \in Nat /\ fee <= gross
  BY FillAmounts
<1>4. a \in TraderState /\ t \in TraderState
  BY <1>1, <1>2, MarketFields
<1>5. /\ a.base_free \in Nat /\ a.base_locked \in Nat
      /\ a.quote_free \in Nat /\ a.quote_locked \in Nat
      /\ t.base_free \in Nat /\ t.base_locked \in Nat
      /\ t.quote_free \in Nat /\ t.quote_locked \in Nat
  BY <1>4, StateFields
<1>6. /\ uf \in Nat
      /\ (a.base_free + a.base_locked) + (t.base_free + t.base_locked) <= U64Max
      /\ (a.quote_free + a.quote_locked) + (t.quote_free + t.quote_locked) + uf <= U64Max
  <2>1. /\ uf \in Nat
        /\ m.base_deposited \in Nat /\ m.base_deposited <= U64Max
        /\ m.quote_deposited \in Nat /\ m.quote_deposited <= U64Max
    BY <1>1, HeldSumsNat
  <2>2. /\ (a.base_free + a.base_locked) + (t.base_free + t.base_locked) <= m.base_deposited
        /\ (a.quote_free + a.quote_locked) + (t.quote_free + t.quote_locked) + uf
             <= m.quote_deposited
    BY <1>2, HeldBounds
  <2> HIDE DEF a, t, uf
  <2> QED BY <1>5, <2>1, <2>2
<1>7. IF k.side = "Bid" THEN a.base_locked >= size ELSE a.quote_locked >= gross
  <2> DEFINE whole == Backing(MakerSide(k), Maker(m, k).price, Maker(m, k).size)
             part == Backing(MakerSide(k), Maker(m, k).price, size)
             locked == IF MakerSide(k) = "Ask" THEN a.base_locked ELSE a.quote_locked
  <2>1. whole <= locked
    BY <1>1, LockedCoversOrder
  <2>2. part <= whole /\ part \in Nat /\ whole \in Nat
    <3>1. size \in 0 .. Maker(m, k).size
      BY <1>1, <1>3
    <3> HIDE DEF size
    <3> QED BY <1>1, <3>1, BackingFacts, BackingNat
  <2>3. /\ k.side = "Bid" => part = size /\ locked = a.base_locked
        /\ k.side # "Bid" => part = gross /\ locked = a.quote_locked
    BY <1>3 DEF MakerSide, Opposite, Backing, Gross, Sides
  <2>4. locked \in Nat
    BY <1>5
  <2> HIDE DEF whole, part, locked, a, gross
  <2>5. part <= locked
    BY <2>1, <2>2, <2>4
  <2> QED BY <1>3, <1>5, <2>3, <2>5
<1>8. IF k.side = "Bid" THEN t.quote_free >= gross + fee ELSE t.base_free >= size
  BY DEF TakerCanAfford
<1>9. CASE k.side = "Bid"
  <2>1. /\ MakerSettled(m, k) = [a EXCEPT !.base_locked = a.base_locked - size,
                                          !.quote_free = a.quote_free + gross]
        /\ TakerSettled(m, k) = Credit(t, size, - (gross + fee))
    BY <1>9 DEF MakerSettled, TakerSettled
  <2> HIDE DEF a, t, size, gross, fee, uf
  <2>2. /\ a.base_locked - size \in U64 /\ a.quote_free + gross \in U64
        /\ t.base_free + size \in U64 /\ t.quote_free + - (gross + fee) \in U64
        /\ uf + fee \in U64
    BY <1>3, <1>5, <1>6, <1>7, <1>8, <1>9 DEF U64
  <2>3. MakerSettled(m, k) \in TraderState
    BY <1>4, <2>1, <2>2 DEF TraderState
  <2>4. TakerSettled(m, k) \in TraderState
    BY <1>4, <2>1, <2>2 DEF TraderState, Credit
  <2> QED BY <2>2, <2>3, <2>4 DEF uf, fee
<1>10. CASE k.side = "Ask"
  <2>1. /\ MakerSettled(m, k) = [a EXCEPT !.quote_locked = a.quote_locked - gross,
                                          !.base_free = a.base_free + size]
        /\ TakerSettled(m, k) = Credit(t, - size, gross - fee)
    BY <1>10 DEF MakerSettled, TakerSettled
  <2> HIDE DEF a, t, size, gross, fee, uf
  <2>2. /\ a.quote_locked - gross \in U64 /\ a.base_free + size \in U64
        /\ t.base_free + - size \in U64 /\ t.quote_free + (gross - fee) \in U64
        /\ uf + fee \in U64
    BY <1>3, <1>5, <1>6, <1>7, <1>8, <1>10 DEF U64
  <2>3. MakerSettled(m, k) \in TraderState
    BY <1>4, <2>1, <2>2 DEF TraderState
  <2>4. TakerSettled(m, k) \in TraderState
    BY <1>4, <2>1, <2>2 DEF TraderState, Credit
  <2> QED BY <2>2, <2>3, <2>4 DEF uf, fee
<1> QED BY <1>3, <1>9, <1>10 DEF Sides
=============================================================================
