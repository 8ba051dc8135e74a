------------------------------- MODULE Market -------------------------------
(***************************************************************************)
(* One market account as a value, and every method of the engine as an     *)
(* operator from market to market: seats, balances, the two-sided book,    *)
(* and one iteration of the cross loop.  No variables: module Clob is the  *)
(* program that runs these operators, instruction by instruction.          *)
(*                                                                         *)
(* A method that can fail is two operators: its result, and a predicate    *)
(* Can... that is its Ok condition (checked_add and checked_sub of the     *)
(* code are membership of the result in U64).                              *)
(*                                                                         *)
(* Source: crates/clob-engine/src, crates/clob-book/src/book               *)
(***************************************************************************)
EXTENDS Lots, Sums

CONSTANTS
  Traders,       \* wallet keys that may hold a seat
  NumSeats,      \* SEATS: capacity of the seat table
  BookCapacity,  \* BIDS and ASKS, equal in every size class
  NoPrice        \* the None limit of an unpriced ImmediateOrCancel

ASSUME MarketAssumption ==
  /\ NumSeats \in Nat \ {0}
  /\ BookCapacity \in Nat \ {0}
  /\ NoPrice \notin Nat

Sides == {"Bid", "Ask"}
Opposite(side) == IF side = "Bid" THEN "Ask" ELSE "Bid"

Seats == 1 .. NumSeats
NoSeat == 0
Slots == 1 .. BookCapacity

-----------------------------------------------------------------------------
(* The account.  A book side is an array of slots; an order's identity is  *)
(* its side and sequence number (the price, the third part of              *)
(* FIFOOrderId, never changes while the order lives).  A slot is live iff  *)
(* its order names a seat.                                                 *)

TraderState == [base_free : U64, base_locked : U64,
                quote_free : U64, quote_locked : U64]

Order == [price : U64, seq : Nat, seat : 0 .. NumSeats, size : U64]

MarketType ==
  [seat_of          : [Traders -> 0 .. NumSeats],
   state            : [Seats -> TraderState],
   book             : [Sides -> [Slots -> Order]],
   next_seq         : Nat,
   base_deposited   : U64,
   quote_deposited  : U64,
   unclaimed_fees   : U64,
   collected_fees   : U64]

EmptyState == [base_free |-> 0, base_locked |-> 0,
               quote_free |-> 0, quote_locked |-> 0]

NoOrder == [price |-> 0, seq |-> 0, seat |-> NoSeat, size |-> 0]

NewMarket ==
  [seat_of          |-> [t \in Traders |-> NoSeat],
   state            |-> [s \in Seats |-> EmptyState],
   book             |-> [side \in Sides |-> [h \in Slots |-> NoOrder]],
   next_seq         |-> 0,
   base_deposited   |-> 0,
   quote_deposited  |-> 0,
   unclaimed_fees   |-> 0,
   collected_fees   |-> 0]

-----------------------------------------------------------------------------
(* TraderTable: seats *)

SeatLive(m, s) == \E t \in Traders : m.seat_of[t] = s

FreeSeats(m) == {s \in Seats : ~ SeatLive(m, s)}

CanClaimSeat(m, t) == m.seat_of[t] # NoSeat \/ FreeSeats(m) # {}

(* Which free slot the arena hands out is of no consequence here. *)
ClaimSeat(m, t) ==
  IF m.seat_of[t] # NoSeat
  THEN m
  ELSE LET s == CHOOSE s \in FreeSeats(m) : TRUE
       IN  [m EXCEPT !.seat_of[t] = s, !.state[s] = EmptyState]

(* Mutant of IsEmpty: forgets locked funds. *)
NothingFree(state) == state.base_free = 0 /\ state.quote_free = 0

IsEmpty(state) == /\ state.base_free + state.base_locked = 0
                  /\ state.quote_free + state.quote_locked = 0

CanReleaseSeat(m, t) == /\ m.seat_of[t] # NoSeat
                        /\ IsEmpty(m.state[m.seat_of[t]])

ReleaseSeat(m, t) == [m EXCEPT !.seat_of[t] = NoSeat]

-----------------------------------------------------------------------------
(* TraderState: balances.  Asks are backed by base lots, bids by quote.    *)

Lock(state, side, amount) ==
  IF side = "Ask"
  THEN [state EXCEPT !.base_free = @ - amount, !.base_locked = @ + amount]
  ELSE [state EXCEPT !.quote_free = @ - amount, !.quote_locked = @ + amount]

Unlock(state, side, amount) ==
  IF side = "Ask"
  THEN [state EXCEPT !.base_free = @ + amount, !.base_locked = @ - amount]
  ELSE [state EXCEPT !.quote_free = @ + amount, !.quote_locked = @ - amount]

Credit(state, base, quote) ==
  [state EXCEPT !.base_free = @ + base, !.quote_free = @ + quote]

(* What post locks behind an order, and unlock_backing releases. *)
Backing(side, price, size) ==
  IF side = "Ask" THEN size ELSE QuoteLotsFor(price, size)

-----------------------------------------------------------------------------
(* Market::deposit, withdraw, collect_fees *)

Deposit(m, s, base, quote) ==
  [m EXCEPT !.state[s] = Credit(@, base, quote),
            !.base_deposited = @ + base,
            !.quote_deposited = @ + quote]

CanDeposit(m, s, base, quote) ==
  /\ s # NoSeat
  /\ m.base_deposited + base \in U64
  /\ m.quote_deposited + quote \in U64
  /\ Credit(m.state[s], base, quote) \in TraderState

Withdraw(m, s, base, quote) == Deposit(m, s, -base, -quote)

CanWithdraw(m, s, base, quote) == CanDeposit(m, s, -base, -quote)

CollectFees(m) ==
  [m EXCEPT !.unclaimed_fees = 0, !.quote_deposited = @ - m.unclaimed_fees]

CanCollectFees(m) == m.quote_deposited - m.unclaimed_fees \in U64

-----------------------------------------------------------------------------
(* OrderBook *)

Live(order) == order.seat # NoSeat

LiveSlots(m, side) == {h \in Slots : Live(m.book[side][h])}

(* Price-time priority, the order FIFOOrderId gives each tree. *)
Precedes(side, p, q) ==
  \/ p.price = q.price /\ p.seq < q.seq
  \/ IF side = "Bid" THEN p.price > q.price ELSE p.price < q.price

(* Mutant of BestOf: price priority without time priority. *)
BestPriced(m, side, candidates) ==
  LET price(h) == m.book[side][h].price
  IN  CHOOSE h \in candidates : \A k \in candidates :
        IF side = "Bid" THEN price(h) >= price(k) ELSE price(h) <= price(k)

BestOf(m, side, candidates) ==
  CHOOSE h \in candidates :
    \A k \in candidates \ {h} : Precedes(side, m.book[side][h], m.book[side][k])

Best(m, side) == BestOf(m, side, LiveSlots(m, side))

BestPrice(m, side) == m.book[side][Best(m, side)].price

IsCrossed(m) == \E b \in LiveSlots(m, "Bid"), a \in LiveSlots(m, "Ask") :
                   m.book["Bid"][b].price >= m.book["Ask"][a].price

(* Sequence numbers are handed out once: no two orders resting on a side   *)
(* share one, and the next one is not in use.  The order of the book, and  *)
(* with it which order an id names, is total because of it.                *)
IdsUnique(m) ==
  \A side \in Sides : \A h \in LiveSlots(m, side) :
    /\ m.book[side][h].seq < m.next_seq
    /\ \A k \in LiveSlots(m, side) \ {h} : m.book[side][k].seq # m.book[side][h].seq

(* The resting order an id names, if it still rests. *)
Found(m, id) == {h \in LiveSlots(m, id.side) : m.book[id.side][h].seq = id.seq}

(* Between two states of a market, m before n: every order of n rests      *)
(* under an id n has issued, which either names a resting order of m too   *)
(* or is newer than any id m had issued.                                   *)
NoIdReused(m, n) ==
  /\ n.next_seq >= m.next_seq
  /\ \A side \in Sides : \A h \in LiveSlots(n, side) :
       LET id == [side |-> side, seq |-> n.book[side][h].seq]
       IN  /\ id.seq < n.next_seq
           /\ Found(m, id) = {} => id.seq >= m.next_seq

(* Takes lots off a resting order, removing it when that empties it.  The  *)
(* queue position (price, seq) is not disturbed.                           *)
Shrink(m, side, h, lots) ==
  LET o == m.book[side][h]
      left == IF o.size = lots THEN NoOrder ELSE [o EXCEPT !.size = @ - lots]
  IN  [m EXCEPT !.book[side][h] = left]

(* Mutant of Release: unlocks for the whole order whatever is removed. *)
ReleaseWhole(m, side, h, lots) ==
  LET o == m.book[side][h]
  IN  Shrink([m EXCEPT !.state[o.seat] =
                Unlock(@, side, Backing(side, o.price, o.size))],
             side, h, lots)

(* unlock_backing and then the book: a cancel, reduce or self-trade. *)
Release(m, side, h, lots) ==
  LET o == m.book[side][h]
  IN  Shrink([m EXCEPT !.state[o.seat] =
                Unlock(@, side, Backing(side, o.price, lots))],
             side, h, lots)

CanRelease(m, side, h, lots) ==
  LET o == m.book[side][h]
  IN  /\ Backing(side, o.price, lots) \in U64
      /\ Unlock(m.state[o.seat], side, Backing(side, o.price, lots)) \in TraderState

-----------------------------------------------------------------------------
(* Market::post: lock the backing funds and rest the order. *)

FreeSlots(m, side) == Slots \ LiveSlots(m, side)

(* Mutant of CanPost: does not ask for the funds. *)
CanPostUnfunded(m, seat, side, price, size) == FreeSlots(m, side) # {}

CanPost(m, seat, side, price, size) ==
  /\ Backing(side, price, size) \in U64
  /\ Lock(m.state[seat], side, Backing(side, price, size)) \in TraderState
  /\ FreeSlots(m, side) # {}

(* Mutants of Post: rests without locking; does not advance the sequence. *)
PostUnbacked(m, seat, side, price, size) ==
  LET h == CHOOSE h \in FreeSlots(m, side) : TRUE
  IN  [m EXCEPT !.book[side][h] = [price |-> price, seq |-> m.next_seq,
                                   seat |-> seat, size |-> size],
                !.next_seq = @ + 1]

PostSameSequence(m, seat, side, price, size) ==
  [PostUnbacked(m, seat, side, price, size) EXCEPT
     !.state[seat] = Lock(@, side, Backing(side, price, size)),
     !.next_seq = m.next_seq]

Post(m, seat, side, price, size) ==
  LET h == CHOOSE h \in FreeSlots(m, side) : TRUE
  IN  [m EXCEPT !.state[seat] = Lock(@, side, Backing(side, price, size)),
                !.book[side][h] = [price |-> price, seq |-> m.next_seq,
                                   seat |-> seat, size |-> size],
                !.next_seq = @ + 1]

(* Mutant of NonCrossingPrice: slides to the touch itself. *)
SlidToTouch(m, side, price) ==
  LET touch == BestPrice(m, Opposite(side))
      crosses == /\ LiveSlots(m, Opposite(side)) # {}
                 /\ IF side = "Bid" THEN price >= touch ELSE price <= touch
  IN  IF crosses THEN touch ELSE price

(* non_crossing_price: the price itself, or one tick inside the touch.     *)
(* NoPrice where there is no room for that tick.                           *)
NonCrossingPrice(m, side, price) ==
  LET touch == BestPrice(m, Opposite(side))
      crosses == /\ LiveSlots(m, Opposite(side)) # {}
                 /\ IF side = "Bid" THEN price >= touch ELSE price <= touch
      slid == IF side = "Bid" THEN touch - 1 ELSE touch + 1
  IN  IF ~ crosses THEN price
      ELSE IF slid \in U64 \ {0} THEN slid ELSE NoPrice

-----------------------------------------------------------------------------
(* Market::cross.  k is the taker's running context; the operators below   *)
(* are what one iteration of the loop reads and does.                      *)

SelfTradeBehaviors == {"DecrementTake", "CancelProvide", "Abort"}

Taker == [seat : 0 .. NumSeats, side : Sides, limit : U64 \cup {NoPrice},
          remaining : U64, filled : U64, touched : Nat, match_limit : Nat,
          self_trade : SelfTradeBehaviors]

(* Mutant of Accepts: excludes the limit itself. *)
AcceptsBetter(side, maker_price, limit) ==
  limit # NoPrice =>
    IF side = "Bid" THEN maker_price < limit ELSE maker_price > limit

Accepts(side, maker_price, limit) ==
  limit # NoPrice =>
    IF side = "Bid" THEN maker_price <= limit ELSE maker_price >= limit

MakerSide(k) == Opposite(k.side)
MakerSlot(m, k) == Best(m, MakerSide(k))
Maker(m, k) == m.book[MakerSide(k)][MakerSlot(m, k)]

(* The loop has not met FullyFilled, MatchLimit, BookEmpty or PriceLimit.  *)
Reaches(m, k) ==
  /\ k.remaining > 0
  /\ k.touched < k.match_limit
  /\ LiveSlots(m, MakerSide(k)) # {}
  /\ Accepts(k.side, Maker(m, k).price, k.limit)

IsSelfTrade(m, k) == Maker(m, k).seat = k.seat

(* resolve_self_trade: the size it takes off the taker's own order. *)
SelfTradeSize(m, k) ==
  IF k.self_trade = "CancelProvide"
  THEN Maker(m, k).size
  ELSE MinOf(k.remaining, Maker(m, k).size)

ResolveSelfTrade(m, k) ==
  Release(m, MakerSide(k), MakerSlot(m, k), SelfTradeSize(m, k))

CanResolveSelfTrade(m, k) ==
  /\ k.self_trade # "Abort"
  /\ CanRelease(m, MakerSide(k), MakerSlot(m, k), SelfTradeSize(m, k))

AfterSelfTrade(m, k) ==
  [k EXCEPT !.touched = @ + 1,
            !.remaining = IF k.self_trade = "DecrementTake"
                          THEN @ - SelfTradeSize(m, k) ELSE @]

FillSize(m, k) == MinOf(k.remaining, Maker(m, k).size)
Gross(m, k) == QuoteLotsFor(Maker(m, k).price, FillSize(m, k))
Fee(m, k) == FeeOn(Gross(m, k))

(* Mutant of TakerCanAfford: leaves the fee out. *)
TakerCanAffordGross(m, k) ==
  LET state == m.state[k.seat]
  IN  IF k.side = "Bid"
      THEN state.quote_free >= Gross(m, k)
      ELSE state.base_free >= FillSize(m, k)

TakerCanAfford(m, k) ==
  LET state == m.state[k.seat]
  IN  IF k.side = "Bid"
      THEN state.quote_free >= Gross(m, k) + Fee(m, k)
      ELSE state.base_free >= FillSize(m, k)

(* settle_fill: both legs, out of the maker's locked funds. *)
MakerSettled(m, k) ==
  LET state == m.state[Maker(m, k).seat]
  IN  IF k.side = "Bid"
      THEN [state EXCEPT !.base_locked = @ - FillSize(m, k),
                         !.quote_free = @ + Gross(m, k)]
      ELSE [state EXCEPT !.quote_locked = @ - Gross(m, k),
                         !.base_free = @ + FillSize(m, k)]

TakerSettled(m, k) ==
  LET state == m.state[k.seat]
  IN  IF k.side = "Bid"
      THEN Credit(state, FillSize(m, k), -(Gross(m, k) + Fee(m, k)))
      ELSE Credit(state, -FillSize(m, k), Gross(m, k) - Fee(m, k))

(* Mutant of Fill: charges the fee and does not accrue it. *)
FillWithoutAccrual(m, k) ==
  Shrink([m EXCEPT !.state = [@ EXCEPT ![Maker(m, k).seat] = MakerSettled(m, k),
                                       ![k.seat] = TakerSettled(m, k)]],
         MakerSide(k), MakerSlot(m, k), FillSize(m, k))

Fill(m, k) ==
  LET settled ==
        [m EXCEPT !.state = [@ EXCEPT ![Maker(m, k).seat] = MakerSettled(m, k),
                                      ![k.seat] = TakerSettled(m, k)],
                  !.unclaimed_fees = @ + Fee(m, k),
                  !.collected_fees = @ + Fee(m, k)]
  IN  Shrink(settled, MakerSide(k), MakerSlot(m, k), FillSize(m, k))

(* No checked operation of the settlement fails. *)
CanSettle(m, k) ==
  /\ Gross(m, k) \in U64
  /\ Fee(m, k) \in U64
  /\ MakerSettled(m, k) \in TraderState
  /\ TakerSettled(m, k) \in TraderState
  /\ m.unclaimed_fees + Fee(m, k) \in U64
  /\ m.collected_fees + Fee(m, k) \in U64

AfterFill(m, k) ==
  [k EXCEPT !.touched = @ + 1,
            !.remaining = @ - FillSize(m, k),
            !.filled = @ + FillSize(m, k)]

-----------------------------------------------------------------------------
(* Market::check_conservation, as predicates of an account. *)

BaseHeld(m) == [s \in Seats |-> IF SeatLive(m, s)
                                THEN m.state[s].base_free + m.state[s].base_locked
                                ELSE 0]

QuoteHeld(m) == [s \in Seats |-> IF SeatLive(m, s)
                                 THEN m.state[s].quote_free + m.state[s].quote_locked
                                 ELSE 0]

(* check_conservation, first half: what the seats hold is what was         *)
(* deposited, unclaimed fees included.                                     *)
BaseConserved(m) == SumTo(BaseHeld(m), NumSeats) = m.base_deposited

QuoteConserved(m) ==
  SumTo(QuoteHeld(m), NumSeats) + m.unclaimed_fees = m.quote_deposited

(* What the orders of seat s on one side have locked, slot by slot. *)
Resting(m, side, s) ==
  [h \in Slots |-> IF m.book[side][h].seat = s
                   THEN Backing(side, m.book[side][h].price, m.book[side][h].size)
                   ELSE 0]

(* check_conservation, second half, per seat where the code compares the   *)
(* totals: locked funds are exactly what the seat's resting orders need.   *)
LockedIsResting(m) ==
  \A s \in Seats : SeatLive(m, s) =>
    /\ m.state[s].base_locked = SumTo(Resting(m, "Ask", s), BookCapacity)
    /\ m.state[s].quote_locked = SumTo(Resting(m, "Bid", s), BookCapacity)

(* Orders name seats that are held, and rest with a size. *)
OrdersOwned(m) ==
  \A side \in Sides : \A h \in LiveSlots(m, side) :
    /\ SeatLive(m, m.book[side][h].seat)
    /\ m.book[side][h].size > 0

(* A seat belongs to one trader. *)
SeatsDistinct(m) ==
  \A t, u \in Traders : m.seat_of[t] = m.seat_of[u] /\ m.seat_of[t] # NoSeat => t = u

(* No bid rests at zero ticks, where it would lock nothing. *)
BidsPriced(m) == \A h \in LiveSlots(m, "Bid") : m.book["Bid"][h].price > 0

(* The books of the market balance. *)
Balanced(m) ==
  /\ SeatsDistinct(m)
  /\ OrdersOwned(m)
  /\ BidsPriced(m)
  /\ LockedIsResting(m)
  /\ BaseConserved(m)
  /\ QuoteConserved(m)
=============================================================================
