----------------------------- MODULE Bot_proofs -----------------------------
(***************************************************************************)
(* What holds of the market maker however the market moves between its     *)
(* read and its write, and however many replies are lost.                  *)
(***************************************************************************)
EXTENDS Bot, Market_proofs, FiniteSetTheorems, SequenceTheorems

USE LotsAssumption, MarketAssumption, ParamsAssumption, BotAssumption

-----------------------------------------------------------------------------
(* Counting up, and sums. *)

(* Induction along an interval, for a set of indices. *)
LEMMA Upward ==
  ASSUME NEW n \in Nat, NEW S, 0 \in S, \A i \in 1 .. n : i - 1 \in S => i \in S
  PROVE  \A i \in 0 .. n : i \in S
<1> DEFINE Bad == {i \in 0 .. n : i \notin S}
<1> SUFFICES ASSUME Bad # {} PROVE FALSE
  OBVIOUS
<1>1. PICK i \in Bad : \A k \in Bad : i <= k
  BY LeastNat, Bad \subseteq Nat
<1>2. i \in 1 .. n /\ i - 1 \in 0 .. n /\ i - 1 < i
  BY <1>1
<1> QED BY <1>1, <1>2

LEMMA SumStep ==
  ASSUME NEW N \in Nat, NEW f, NEW n \in 1 .. N
  PROVE  SumTo(f, n) = SumTo(f, n - 1) + f[n]
<1>1. n \in Nat /\ n - 1 \in Nat /\ n - 1 \in 0 .. n - 1 /\ n - 1 <= n /\ n \in 1 .. n
  OBVIOUS
<1>2. PICK g : IsPartialSums(g, f, n) /\ SumTo(f, n) = g[n]
  BY <1>1, SumToPartial
<1>3. PICK h : IsPartialSums(h, f, n - 1) /\ SumTo(f, n - 1) = h[n - 1]
  BY <1>1, SumToPartial
<1>4. h[n - 1] = g[n - 1]
  BY <1>1, <1>2, <1>3, PartialSumsAgree
<1> QED BY <1>1, <1>2, <1>3, <1>4, Unfold

LEMMA SumOfNone ==
  ASSUME NEW f
  PROVE  SumTo(f, 0) = 0
BY SumZero

LEMMA SumInt ==
  ASSUME NEW N \in Nat, NEW f, \A i \in 1 .. N : f[i] \in Int
  PROVE  \A n \in 0 .. N : SumTo(f, n) \in Int
<1> SUFFICES ASSUME NEW n \in 0 .. N PROVE SumTo(f, n) \in Int
  OBVIOUS
<1>1. PICK g : IsPartialSums(g, f, n) /\ SumTo(f, n) = g[n]
  BY SumToPartial
<1> QED BY <1>1, PartialSumsInt

LEMMA SumMonotone ==
  ASSUME NEW N \in Nat, NEW f, NEW e,
         \A i \in 1 .. N : f[i] \in Int /\ e[i] \in Int /\ f[i] <= e[i]
  PROVE  SumTo(f, N) <= SumTo(e, N)
<1> DEFINE S == {n \in 0 .. N : SumTo(f, n) <= SumTo(e, n)}
<1>1. 0 \in S
  BY SumOfNone
<1>2. ASSUME NEW n \in 1 .. N, n - 1 \in S PROVE n \in S
  <2>1. SumTo(f, n) = SumTo(f, n - 1) + f[n] /\ SumTo(e, n) = SumTo(e, n - 1) + e[n]
    BY SumStep
  <2>2. SumTo(f, n - 1) \in Int /\ SumTo(e, n - 1) \in Int
    BY SumInt
  <2> QED BY <1>2, <2>1, <2>2
<1> HIDE DEF S
<1>3. N \in S
  BY <1>1, <1>2, Upward
<1> QED BY <1>3 DEF S

(* A sum of equal terms on one stretch of the interval. *)
IsStretch(f, N, a, b, u) ==
  /\ N \in Nat /\ a \in 0 .. N /\ b \in a .. N /\ u \in Nat
  /\ \A i \in 1 .. N : f[i] = IF a < i /\ i <= b THEN u ELSE 0

LEMMA SumStretch ==
  ASSUME NEW f, NEW N, NEW a, NEW b, NEW u, IsStretch(f, N, a, b, u),
         NEW total, total = (b - a) * u
  PROVE  SumTo(f, N) = total
<1>0. /\ N \in Nat /\ a \in 0 .. N /\ b \in a .. N /\ u \in Nat
      /\ \A i \in 1 .. N : f[i] = IF a < i /\ i <= b THEN u ELSE 0
  BY DEF IsStretch
<1> DEFINE upto(n) == IF n <= a THEN 0 ELSE IF n <= b THEN n - a ELSE b - a
<1> DEFINE S == {n \in 0 .. N : SumTo(f, n) = upto(n) * u}
<1>1. 0 \in S
  BY <1>0, SumOfNone
<1>2. ASSUME NEW n \in 1 .. N, n - 1 \in S PROVE n \in S
  <2>1. SumTo(f, n) = SumTo(f, n - 1) + f[n]
    BY <1>0, SumStep
  <2>2. upto(n) = upto(n - 1) + (IF a < n /\ n <= b THEN 1 ELSE 0) /\ upto(n - 1) \in Nat
    BY <1>0
  <2>3. SumTo(f, n - 1) = upto(n - 1) * u
    BY <1>2
  <2> HIDE DEF upto
  <2>4. CASE a < n /\ n <= b
    <3>1. (upto(n - 1) + 1) * u = upto(n - 1) * u + u
      BY <1>0, <2>2
    <3> QED BY <1>0, <2>1, <2>2, <2>3, <2>4, <3>1
  <2>5. CASE ~ (a < n /\ n <= b)
    <3>1. upto(n) = upto(n - 1) /\ upto(n - 1) * u \in Nat
      BY <1>0, <2>2, <2>5
    <3> QED BY <1>0, <2>1, <2>3, <2>5, <3>1
  <2> QED BY <2>4, <2>5
<1>3. upto(N) = b - a
  BY <1>0
<1> HIDE DEF S
<1>4. N \in S
  BY <1>0, <1>1, <1>2, Upward
<1> HIDE DEF upto
<1> QED BY <1>3, <1>4 DEF S

-----------------------------------------------------------------------------
(* The measures of the proof.  A quote is counted as one order or as its   *)
(* lots: both counts go through the same steps.                            *)

Measures == {"orders", "lots"}

Weight(w, quote) == IF w = "lots" THEN quote.size ELSE 1

(* A full side of the ladder. *)
Rung(w) == IF w = "lots" THEN LevelSize ELSE 1
Side(w) == Levels * Rung(w)

(* What a seat has resting on a side, slot by slot, but for the orders     *)
(* whose ids are in except.                                                *)
Standing(m, side, seat, except, w) ==
  [h \in Slots |-> IF /\ m.book[side][h].seat = seat
                      /\ [side |-> side, seq |-> m.book[side][h].seq] \notin except
                   THEN Weight(w, m.book[side][h])
                   ELSE 0]

Rests(m, side, seat, except, w) == SumTo(Standing(m, side, seat, except, w), BookCapacity)

(* What a sequence of steps adds to a side, step by step. *)
AddedBy(op, side, w) ==
  IF op.kind = "Place" /\ op.quote.side = side THEN Weight(w, op.quote) ELSE 0

Adding(ops, side, w) == [i \in DOMAIN ops |-> AddedBy(ops[i], side, w)]

Adds(ops, side, w, n) == SumTo(Adding(ops, side, w), n)

(* What a transaction may add to a side. *)
PlacesOn(tx, side, w) == Adds(Operations(tx), side, w, Len(Operations(tx)))

(* The ids that the steps after the first n cancel. *)
NamedAfter(ops, n) == {ops[i].id : i \in {j \in n + 1 .. Len(ops) : ops[j].kind = "Cancel"}}

Named(tx) == NamedAfter(Operations(tx), 0)

(* What the transactions nobody waits for may still add to a side. *)
LateSum(txs, side, w) ==
  SumTo([i \in 1 .. MaxLostReplies |-> PlacesOn(txs[i], side, w)], MaxLostReplies)

LatePlaces(side, w) == LateSum(late, side, w)

Mine(side, except, w) == Rests(market, side, Seat, except, w)

(* How far the bot is from its target, in the direction a side takes it. *)
LongIn(m, seat, side) ==
  LET deviation == Deviation(m.state[seat])
  IN  IF side = "Bid" THEN deviation ELSE - deviation

Long(side) == LongIn(market, Seat, side)

-----------------------------------------------------------------------------
(* The inductive invariant. *)

Sound(m) == WellFormed(m) /\ Balanced(m)

(* Every trader has a seat of its own, and has always had it. *)
AllSeated(m) == \A t \in Traders : m.seat_of[t] \in Seats

TransactionKind ==
  /\ phase = "Refreshing" => sent.kind = "Refresh"
  /\ phase = "Withdrawing" => sent.kind = "Withdraw"
  /\ ~ Waiting => sent = NoTransaction
  /\ \A i \in 1 .. MaxLostReplies : i > lost => late[i] = NoTransaction

(* Each side carries one ladder, and one more for each reply lost, landed  *)
(* or not; while a refresh is on its way, what it does not cancel is at    *)
(* most one for each reply lost.                                           *)
OneLadderEach(side, w) ==
  /\ PlacesOn(sent, side, w) <= Side(w)
  /\ LatePlaces(side, w) <= lost * Side(w)
  /\ Mine(side, {}, w) + LatePlaces(side, w) <= lost * Side(w) + Side(w)
  /\ phase = "Refreshing" =>
       Mine(side, Named(sent), w) + LatePlaces(side, w) <= lost * Side(w)

(* The position, were all that rests or may land on one side to fill. *)
FilledIsBounded(side) ==
  Long(side) + Mine(side, {}, "lots") + LatePlaces(side, "lots") + PlacesOn(sent, side, "lots")
    <= Far + lost * Side("lots") + Side("lots") + Side("lots")

WithdrawnLeavesLost(side) ==
  phase = "Stopped" /\ report = "Withdrawn" =>
    Mine(side, {}, "orders") + LatePlaces(side, "orders") <= lost * Side("orders")

Counted ==
  \A side \in Sides :
    /\ \A w \in Measures : OneLadderEach(side, w)
    /\ FilledIsBounded(side)
    /\ WithdrawnLeavesLost(side)

BotInv ==
  /\ TypeOK
  /\ Sound(market)
  /\ AllSeated(market)
  /\ TransactionKind
  /\ Counted

-----------------------------------------------------------------------------
(* A sequence of steps. *)

(* g is the account after each of the first n steps. *)
IsRun(g, m, seat, ops, n) ==
  g = [i \in 0 .. n |-> IF i = 0 THEN m ELSE Perform(g[i - 1], seat, ops[i])]

(* The recursive definition of Performed has a solution. *)
LEMMA RunExists ==
  ASSUME NEW N \in Nat, NEW m, NEW seat, NEW ops
  PROVE  \E g : IsRun(g, m, seat, ops, N)
<1> DEFINE Bad == {n \in Nat : ~ \E g : IsRun(g, m, seat, ops, n)}
<1>1. SUFFICES ASSUME Bad # {} PROVE FALSE
  OBVIOUS
<1>2. PICK n \in Bad : \A k \in Bad : n <= k
  BY <1>1, LeastNat, Bad \subseteq Nat
<1>3. CASE n = 0
  <2>1. IsRun([i \in 0 .. 0 |-> m], m, seat, ops, 0)
    BY DEF IsRun
  <2> QED BY <2>1, <1>3
<1>4. CASE n # 0
  <2>1. PICK g : IsRun(g, m, seat, ops, n - 1)
    BY <1>2, <1>4
  <2> DEFINE next == Perform(g[n - 1], seat, ops[n])
             h == [i \in 0 .. n |-> IF i = n THEN next ELSE g[i]]
  <2>2. \A i \in 0 .. n - 1 : g[i] = IF i = 0 THEN m ELSE Perform(g[i - 1], seat, ops[i])
    BY <2>1 DEF IsRun
  <2>3. n \in Nat /\ n - 1 \in Nat /\ n - 1 \in 0 .. n /\ n - 1 # n
    BY <1>4
  <2>4. \A i \in 0 .. n : h[i] = IF i = 0 THEN m ELSE Perform(h[i - 1], seat, ops[i])
    BY <2>2, <2>3
  <2>5. IsRun(h, m, seat, ops, n)
    BY <2>4 DEF IsRun
  <2> QED BY <2>5
<1> QED BY <1>3, <1>4

(* What Performed computes, one step at a time. *)
LEMMA Runs ==
  ASSUME NEW m, NEW seat, NEW ops, Len(ops) \in Nat
  PROVE  /\ Performed(m, seat, ops)[0] = m
         /\ \A i \in 1 .. Len(ops) :
              Performed(m, seat, ops)[i] = Perform(Performed(m, seat, ops)[i - 1], seat, ops[i])
<1> DEFINE n == Len(ops)
           g == Performed(m, seat, ops)
<1>1. \E h : IsRun(h, m, seat, ops, n)
  BY RunExists
<1>2. IsRun(g, m, seat, ops, n)
  BY <1>1 DEF Performed, IsRun
<1> HIDE DEF g, n
<1>3. \A i \in 0 .. n : g[i] = IF i = 0 THEN m ELSE Perform(g[i - 1], seat, ops[i])
  BY <1>2 DEF IsRun
<1>4. n \in Nat
  BY DEF n
<1> QED BY <1>3, <1>4 DEF n, g

-----------------------------------------------------------------------------
(* What each step does to the account. *)

Holding(m, s) == <<TotalBase(m.state[s]), TotalQuote(m.state[s])>>

(* The same seats, holding the same lots, though not the same lots free. *)
SameHoldings(m, n) ==
  /\ n.seat_of = m.seat_of
  /\ \A s \in Seats : Holding(n, s) = Holding(m, s)

LEMMA CancelFacts ==
  ASSUME NEW m, Sound(m), NEW side \in Sides, NEW h \in LiveSlots(m, side)
  PROVE  LET n == CancelWhole(m, side, h)
         IN  /\ Sound(n)
             /\ SameHoldings(m, n)
             /\ n.next_seq = m.next_seq
             /\ \A d \in Sides : \A k \in Slots :
                  n.book[d][k] = IF d = side /\ k = h THEN NoOrder ELSE m.book[d][k]
<1> DEFINE o == m.book[side][h]
           n == CancelWhole(m, side, h)
           amount == Backing(side, o.price, o.size)
           new == Unlock(m.state[o.seat], side, amount)
           st == [m.state EXCEPT ![o.seat] = new]
           b == [m.book EXCEPT ![side][h] = NoOrder]
<1>1. /\ m \in MarketType /\ WellFormed(m) /\ Balanced(m)
      /\ o \in Order /\ o.seat \in Seats /\ h \in Slots
      /\ o.size \in Nat /\ o.size \in 0 .. o.size /\ o.price \in Nat
  BY LiveSlotFacts, OrderFields DEF Sound, WellFormed
<1>2. CanRelease(m, side, h, o.size)
  BY <1>1, ReleaseAlwaysPossible
<1>3. n = Release(m, side, h, o.size)
  BY DEF CancelWhole
<1>4. Sound(n) /\ n.seat_of = m.seat_of
  BY <1>1, <1>2, <1>3, ReleaseKeeps, ReleaseBalanced DEF Sound, Keeps
<1>5. n = [m EXCEPT !.state = st, !.book = b]
  BY <1>1, <1>3 DEF Release, Shrink, MarketType
<1>6. NoOrder \in Order
  BY DEF NoOrder, Order, U64, NoSeat
<1>7. \A d \in Sides : \A k \in Slots :
        b[d][k] = IF d = side /\ k = h THEN NoOrder ELSE m.book[d][k]
  BY <1>1, <1>6, BookUpdate
<1>8. amount \in Nat /\ m.state[o.seat] \in TraderState
  BY <1>1, BackingNat, MarketFields
<1>9. /\ new.base_free + new.base_locked = TotalBase(m.state[o.seat])
      /\ new.quote_free + new.quote_locked = TotalQuote(m.state[o.seat])
  <2> HIDE DEF amount, o
  <2> QED BY <1>8, UnlockFacts DEF TotalBase, TotalQuote
<1> HIDE DEF b, new, n, amount
<1>10. \A s \in Seats : st[s] = IF s = o.seat THEN new ELSE m.state[s]
  BY <1>1 DEF MarketType
<1> HIDE DEF st
<1>11. n.state = st /\ n.book = b /\ n.next_seq = m.next_seq
  BY <1>1, <1>5 DEF MarketType
<1>12. SameHoldings(m, n)
  BY <1>4, <1>9, <1>10, <1>11 DEF SameHoldings, Holding, TotalBase, TotalQuote
<1> QED BY <1>4, <1>7, <1>11, <1>12 DEF n

LEMMA PlaceFacts ==
  ASSUME NEW m, Sound(m), NEW seat \in Seats, SeatLive(m, seat), NEW quote \in QuoteType,
         CanPlace(m, seat, quote)
  PROVE  LET n == Place(m, seat, quote)
         IN  /\ Sound(n)
             /\ SameHoldings(m, n)
             /\ n.next_seq = m.next_seq + 1
             /\ \E h \in Slots :
                  /\ ~ Live(m.book[quote.side][h])
                  /\ \A d \in Sides : \A k \in Slots :
                       n.book[d][k] =
                         IF d = quote.side /\ k = h
                         THEN [price |-> quote.price, seq |-> m.next_seq,
                               seat |-> seat, size |-> quote.size]
                         ELSE m.book[d][k]
<1> DEFINE side == quote.side
           price == quote.price
           size == quote.size
           n == Place(m, seat, quote)
           h == CHOOSE h \in FreeSlots(m, side) : TRUE
           o == [price |-> price, seq |-> m.next_seq, seat |-> seat, size |-> size]
           amount == Backing(side, price, size)
           new == Lock(m.state[seat], side, amount)
           st == [m.state EXCEPT ![seat] = new]
           b == [m.book EXCEPT ![side][h] = o]
           q == m.next_seq + 1
<1>1. /\ m \in MarketType /\ WellFormed(m) /\ Balanced(m)
      /\ side \in Sides /\ price \in U64 /\ size \in U64 /\ price > 0 /\ size > 0
      /\ price \in Nat /\ size \in Nat
  BY DEF Sound, WellFormed, QuoteType, U64
<1>2. CanPost(m, seat, side, price, size) /\ n = Post(m, seat, side, price, size)
  BY DEF CanPlace, Place
<1> HIDE DEF side, price, size
<1>3. Sound(n) /\ n.seat_of = m.seat_of
  <2> HIDE DEF n
  <2> QED BY <1>1, <1>2, PostKeeps, PostBalanced DEF Sound, Keeps
<1>4. h \in Slots /\ ~ Live(m.book[side][h])
  <2>1. h \in FreeSlots(m, side)
    BY <1>2 DEF CanPost
  <2> HIDE DEF h
  <2> QED BY <2>1 DEF FreeSlots, LiveSlots
<1>5. n = [m EXCEPT !.state = st, !.book = b, !.next_seq = q]
  BY <1>2 DEF Post
<1>6. o \in Order
  BY <1>1 DEF Order, MarketType, Seats
<1> HIDE DEF h
<1>7. \A d \in Sides : \A k \in Slots :
        b[d][k] = IF d = side /\ k = h THEN o ELSE m.book[d][k]
  <2> HIDE DEF o
  <2> QED BY <1>1, <1>4, <1>6, BookUpdate
<1>8. amount \in Nat /\ m.state[seat] \in TraderState
  BY <1>1, BackingNat, MarketFields
<1>9. /\ new.base_free + new.base_locked = TotalBase(m.state[seat])
      /\ new.quote_free + new.quote_locked = TotalQuote(m.state[seat])
  <2> HIDE DEF amount
  <2> QED BY <1>1, <1>8, LockFacts DEF TotalBase, TotalQuote
<1> HIDE DEF b, new, n, amount, q, o
<1>10. \A s \in Seats : st[s] = IF s = seat THEN new ELSE m.state[s]
  BY <1>1 DEF MarketType
<1> HIDE DEF st
<1>11. n.state = st /\ n.book = b /\ n.next_seq = q
  BY <1>1, <1>5 DEF MarketType
<1>12. SameHoldings(m, n)
  BY <1>3, <1>9, <1>10, <1>11 DEF SameHoldings, Holding, TotalBase, TotalQuote
<1> QED BY <1>3, <1>4, <1>7, <1>11, <1>12 DEF n, side, price, size, q, o

-----------------------------------------------------------------------------
(* What each step does to the measures. *)

LEMMA RungFacts ==
  ASSUME NEW w \in Measures
  PROVE  Rung(w) \in Nat /\ Side(w) \in Nat
<1>1. Rung(w) \in Nat /\ Levels \in Nat
  BY DEF Rung
<1> QED BY <1>1 DEF Side

LEMMA StandingNat ==
  ASSUME NEW m \in MarketType, NEW side \in Sides, NEW seat, NEW X, NEW w
  PROVE  /\ \A h \in Slots : Standing(m, side, seat, X, w)[h] \in Nat
         /\ Rests(m, side, seat, X, w) \in Nat
<1>1. \A h \in Slots : Standing(m, side, seat, X, w)[h] \in Nat
  BY MarketFields, OrderFields DEF Standing, Weight
<1> QED BY <1>1, SumNat DEF Rests, Slots

(* Slot by slot no more, then in all no more. *)
LEMMA RestsMonotone ==
  ASSUME NEW m \in MarketType, NEW n \in MarketType, NEW side \in Sides, NEW seat,
         NEW X, NEW Y, NEW w,
         \A h \in Slots : Standing(n, side, seat, Y, w)[h] <= Standing(m, side, seat, X, w)[h]
  PROVE  Rests(n, side, seat, Y, w) <= Rests(m, side, seat, X, w)
<1> DEFINE f == Standing(n, side, seat, Y, w)
           e == Standing(m, side, seat, X, w)
<1>1. \A h \in 1 .. BookCapacity : f[h] \in Int /\ e[h] \in Int /\ f[h] <= e[h]
  <2>1. \A h \in Slots : f[h] \in Nat /\ e[h] \in Nat
    BY StandingNat
  <2> QED BY <2>1 DEF Slots
<1> HIDE DEF f, e
<1>2. SumTo(f, BookCapacity) <= SumTo(e, BookCapacity)
  BY <1>1, SumMonotone
<1> QED BY <1>2 DEF Rests, f, e

LEMMA RestsExcept ==
  ASSUME NEW m \in MarketType, NEW side \in Sides, NEW seat, NEW X, NEW Y, NEW w, Y \subseteq X
  PROVE  Rests(m, side, seat, X, w) <= Rests(m, side, seat, Y, w)
<1>1. \A h \in Slots : Standing(m, side, seat, Y, w)[h] \in Nat
  BY StandingNat
<1>2. \A h \in Slots : Standing(m, side, seat, X, w)[h] <= Standing(m, side, seat, Y, w)[h]
  BY <1>1 DEF Standing
<1> QED BY <1>2, RestsMonotone

LEMMA CancelRests ==
  ASSUME NEW m, Sound(m), NEW side \in Sides, NEW h \in LiveSlots(m, side),
         NEW seat \in Seats, NEW d \in Sides, NEW X, NEW w
  PROVE  Rests(CancelWhole(m, side, h), d, seat, X, w) <= Rests(m, d, seat, X, w)
<1> DEFINE n == CancelWhole(m, side, h)
<1>1. /\ Sound(n)
      /\ \A k \in Slots : n.book[d][k] = IF d = side /\ k = h THEN NoOrder ELSE m.book[d][k]
  BY CancelFacts
<1> HIDE DEF n
<1>2. m \in MarketType /\ n \in MarketType
  BY <1>1 DEF Sound, WellFormed
<1>3. NoOrder.seat # seat
  BY DEF NoOrder, NoSeat, Seats
<1>4. \A k \in Slots : Standing(m, d, seat, X, w)[k] \in Nat
  BY <1>2, StandingNat
<1>5. \A k \in Slots : Standing(n, d, seat, X, w)[k] <= Standing(m, d, seat, X, w)[k]
  BY <1>1, <1>3, <1>4 DEF Standing
<1> QED BY <1>2, <1>5, RestsMonotone DEF n

(* A cancel takes away what it names. *)
LEMMA NamedRests ==
  ASSUME NEW m, Sound(m), NEW id \in IdType, NEW seat \in Seats, NEW d \in Sides, NEW X, NEW w
  PROVE  Rests(CancelIfResting(m, id), d, seat, X, w) <= Rests(m, d, seat, X \cup {id}, w)
<1> DEFINE n == CancelIfResting(m, id)
           h == CHOOSE h \in Found(m, id) : TRUE
<1>1. m \in MarketType /\ IdsUnique(m) /\ id.side \in Sides
  BY DEF Sound, WellFormed, IdType
<1>2. ASSUME NEW k \in Slots, m.book[d][k].seat = seat,
             [side |-> d, seq |-> m.book[d][k].seq] = id
      PROVE  k \in Found(m, id) /\ id.side = d
  <2>1. id.side = d /\ id.seq = m.book[d][k].seq
    BY <1>2
  <2> QED BY <1>2, <2>1 DEF Found, LiveSlots, Live, NoSeat, Seats
<1>3. CASE Found(m, id) = {}
  <2>1. n = m
    BY <1>3 DEF CancelIfResting
  <2>2. \A k \in Slots : Standing(m, d, seat, X \cup {id}, w)[k] \in Nat
    BY <1>1, StandingNat
  <2>3. \A k \in Slots : Standing(m, d, seat, X, w)[k] <= Standing(m, d, seat, X \cup {id}, w)[k]
    BY <1>2, <1>3, <2>2 DEF Standing
  <2> QED BY <1>1, <2>1, <2>3, RestsMonotone
<1>4. CASE Found(m, id) # {}
  <2>1. h \in Found(m, id)
    BY <1>4
  <2>2. n = CancelWhole(m, id.side, h)
    BY <1>4 DEF CancelIfResting
  <2> HIDE DEF h
  <2>3. h \in LiveSlots(m, id.side) /\ m.book[id.side][h].seq = id.seq
    BY <2>1 DEF Found
  <2>4. \A k \in Found(m, id) : k = h
    BY <1>1, <2>3 DEF Found, IdsUnique
  <2>5. /\ Sound(n)
        /\ \A k \in Slots :
             n.book[d][k] = IF d = id.side /\ k = h THEN NoOrder ELSE m.book[d][k]
    BY <1>1, <2>2, <2>3, CancelFacts
  <2> HIDE DEF n
  <2>6. n \in MarketType
    BY <2>5 DEF Sound, WellFormed
  <2>7. NoOrder.seat # seat
    BY DEF NoOrder, NoSeat, Seats
  <2>8. \A k \in Slots : Standing(m, d, seat, X \cup {id}, w)[k] \in Nat
    BY <1>1, StandingNat
  <2>9. \A k \in Slots : Standing(n, d, seat, X, w)[k] <= Standing(m, d, seat, X \cup {id}, w)[k]
    <3> SUFFICES ASSUME NEW k \in Slots
                 PROVE  Standing(n, d, seat, X, w)[k] <= Standing(m, d, seat, X \cup {id}, w)[k]
      OBVIOUS
    <3>1. CASE d = id.side /\ k = h
      BY <2>5, <2>7, <2>8, <3>1 DEF Standing
    <3>2. CASE ~ (d = id.side /\ k = h)
      <4>1. n.book[d][k] = m.book[d][k]
        BY <2>5, <3>2
      <4>2. ~ (m.book[d][k].seat = seat /\ [side |-> d, seq |-> m.book[d][k].seq] = id)
        BY <1>2, <2>4, <3>2
      <4> QED BY <2>8, <4>1, <4>2 DEF Standing
    <3> QED BY <3>1, <3>2
  <2>10. Rests(n, d, seat, X, w) <= Rests(m, d, seat, X \cup {id}, w)
    BY <1>1, <2>6, <2>9, RestsMonotone
  <2> QED BY <2>10 DEF n
<1> QED BY <1>3, <1>4

(* A packet adds itself. *)
LEMMA PlaceRests ==
  ASSUME NEW m, Sound(m), NEW seat \in Seats, SeatLive(m, seat), NEW quote \in QuoteType,
         CanPlace(m, seat, quote), NEW d \in Sides, NEW X, NEW w
  PROVE  Rests(Place(m, seat, quote), d, seat, X, w)
           <= Rests(m, d, seat, X, w) + IF quote.side = d THEN Weight(w, quote) ELSE 0
<1> DEFINE n == Place(m, seat, quote)
<1>1. Sound(n)
  BY PlaceFacts
<1>2. PICK h \in Slots :
        /\ ~ Live(m.book[quote.side][h])
        /\ \A e \in Sides : \A k \in Slots :
             n.book[e][k] =
               IF e = quote.side /\ k = h
               THEN [price |-> quote.price, seq |-> m.next_seq, seat |-> seat, size |-> quote.size]
               ELSE m.book[e][k]
  BY PlaceFacts
<1> HIDE DEF n
<1>3. m \in MarketType /\ n \in MarketType
  BY <1>1 DEF Sound, WellFormed
<1> DEFINE f == Standing(m, d, seat, X, w)
           e == Standing(n, d, seat, X, w)
<1>4. \A k \in Slots : f[k] \in Nat /\ e[k] \in Nat
  BY <1>3, StandingNat
<1>5. Weight(w, quote) \in Nat
  BY DEF Weight, QuoteType, U64
<1>6. CASE quote.side # d
  <2>1. \A k \in Slots : e[k] = f[k]
    BY <1>2, <1>6 DEF Standing
  <2>2. \A k \in Slots : e[k] <= f[k]
    BY <1>4, <2>1
  <2>3. Rests(n, d, seat, X, w) <= Rests(m, d, seat, X, w)
    BY <1>3, <2>2, RestsMonotone
  <2>4. Rests(m, d, seat, X, w) \in Nat /\ Rests(n, d, seat, X, w) \in Nat
    BY <1>3, StandingNat
  <2> QED BY <1>6, <2>3, <2>4 DEF n
<1>7. CASE quote.side = d
  <2>1. \A k \in Slots : k # h => e[k] = f[k]
    BY <1>2, <1>7 DEF Standing
  <2>2. f[h] = 0
    BY <1>2, <1>7 DEF Standing, Live, NoSeat, Seats
  <2>3. e[h] <= Weight(w, quote)
    <3>1. n.book[d][h].seat = seat /\ n.book[d][h].size = quote.size
      BY <1>2, <1>7
    <3>2. Weight(w, n.book[d][h]) = Weight(w, quote)
      BY <3>1 DEF Weight
    <3> QED BY <1>5, <3>2 DEF Standing
  <2> HIDE DEF e, f
  <2>4. SumTo(e, BookCapacity) = SumTo(f, BookCapacity) + e[h] - f[h]
    <3>1. /\ \A i \in 1 .. BookCapacity : f[i] \in Int /\ e[i] \in Int
          /\ h \in 1 .. BookCapacity /\ BookCapacity \in Nat
      BY <1>4 DEF Slots
    <3> QED BY <2>1, <3>1, SumUpdate DEF Slots
  <2>5. SumTo(f, BookCapacity) \in Nat /\ SumTo(e, BookCapacity) \in Nat
    BY <1>3, StandingNat DEF Rests, e, f
  <2>6. SumTo(e, BookCapacity) <= SumTo(f, BookCapacity) + Weight(w, quote)
    BY <1>4, <1>5, <2>2, <2>3, <2>4, <2>5
  <2> QED BY <1>7, <2>6 DEF Rests, e, f, n
<1> QED BY <1>6, <1>7

(* A pass of the sweep takes one order away, while there is one. *)
LEMMA SweepRests ==
  ASSUME NEW m, Sound(m), NEW seat \in Seats, NEW side \in Sides
  PROVE  LET n == Sweep(m, side, seat)
         IN  /\ \A d \in Sides : \A X, w : Rests(n, d, seat, X, w) <= Rests(m, d, seat, X, w)
             /\ \/ Rests(n, side, seat, {}, "orders") = 0
                \/ Rests(n, side, seat, {}, "orders") <= Rests(m, side, seat, {}, "orders") - 1
<1> DEFINE own == OwnSlots(m, side, seat)
           h == BestOf(m, side, own)
           n == Sweep(m, side, seat)
<1>1. m \in MarketType /\ IdsUnique(m)
  BY DEF Sound, WellFormed
<1>2. own \subseteq LiveSlots(m, side)
  BY DEF OwnSlots
<1>3. CASE own = {}
  <2>1. n = m
    BY <1>3 DEF Sweep
  <2>2. \A d \in Sides : \A X, w : Rests(m, d, seat, X, w) \in Nat
    BY <1>1, StandingNat
  <2>3. \A k \in 1 .. BookCapacity : Standing(m, side, seat, {}, "orders")[k] = 0
    BY <1>3 DEF Standing, OwnSlots, LiveSlots, Live, NoSeat, Seats, Slots
  <2>4. Rests(m, side, seat, {}, "orders") = 0
    BY <2>3, SumZero DEF Rests
  <2>5. \A d \in Sides : \A X, w : Rests(m, d, seat, X, w) <= Rests(m, d, seat, X, w)
    BY <2>2
  <2> QED BY <2>1, <2>4, <2>5
<1>4. CASE own # {}
  <2>1. h \in own
    BY <1>1, <1>2, <1>4, BestExists
  <2>2. n = CancelWhole(m, side, h)
    BY <1>4 DEF Sweep
  <2>3. h \in Slots /\ h \in LiveSlots(m, side) /\ m.book[side][h].seat = seat
    BY <2>1 DEF OwnSlots, LiveSlots
  <2> HIDE DEF h
  <2>4. /\ Sound(n)
        /\ \A k \in Slots : n.book[side][k] = IF k = h THEN NoOrder ELSE m.book[side][k]
    BY <2>2, <2>3, CancelFacts
  <2>5. \A d \in Sides : \A X, w : Rests(n, d, seat, X, w) <= Rests(m, d, seat, X, w)
    BY <2>2, <2>3, CancelRests
  <2> HIDE DEF n
  <2> DEFINE f == Standing(m, side, seat, {}, "orders")
             e == Standing(n, side, seat, {}, "orders")
  <2>6. n \in MarketType
    BY <2>4 DEF Sound, WellFormed
  <2>7. f[h] = 1 /\ e[h] = 0 /\ \A k \in Slots : k # h => e[k] = f[k]
    BY <2>3, <2>4 DEF Standing, Weight, NoOrder, NoSeat, Seats
  <2>8. \A k \in Slots : f[k] \in Nat /\ e[k] \in Nat
    BY <1>1, <2>6, StandingNat
  <2> HIDE DEF e, f
  <2>9. SumTo(e, BookCapacity) = SumTo(f, BookCapacity) + e[h] - f[h]
    <3>1. /\ \A i \in 1 .. BookCapacity : f[i] \in Int /\ e[i] \in Int
          /\ h \in 1 .. BookCapacity /\ BookCapacity \in Nat
      BY <2>3, <2>8 DEF Slots
    <3> QED BY <2>7, <3>1, SumUpdate DEF Slots
  <2>10. SumTo(f, BookCapacity) \in Nat
    BY <1>1, StandingNat DEF Rests, f
  <2>11. SumTo(e, BookCapacity) <= SumTo(f, BookCapacity) - 1
    BY <2>7, <2>9, <2>10
  <2> QED BY <2>5, <2>11 DEF Rests, e, f, n
<1> QED BY <1>3, <1>4

-----------------------------------------------------------------------------
(* What a sequence of steps does. *)

Step(op) ==
  \/ op.kind = "Cancel" /\ op.id \in IdType
  \/ op.kind = "Place" /\ op.quote \in QuoteType
  \/ op.kind = "Sweep" /\ op.side \in Sides

Steps(ops) ==
  /\ Len(ops) \in Nat /\ DOMAIN ops = 1 .. Len(ops)
  /\ \A i \in 1 .. Len(ops) : Step(ops[i])

LEMMA PerformFacts ==
  ASSUME NEW m, Sound(m), NEW seat \in Seats, SeatLive(m, seat), NEW op, Step(op)
  PROVE  LET n == Perform(m, seat, op)
         IN  /\ Sound(n) /\ SameHoldings(m, n) /\ SeatLive(n, seat)
             /\ n.next_seq \in Nat /\ n.next_seq >= m.next_seq
<1> DEFINE n == Perform(m, seat, op)
<1>1. SameHoldings(m, m) /\ m.next_seq \in Nat /\ m \in MarketType /\ IdsUnique(m)
  BY MarketFields DEF SameHoldings, Sound, WellFormed
<1>2. CASE op.kind = "Cancel"
  <2>1. n = CancelIfResting(m, op.id) /\ op.id.side \in Sides
    BY <1>2 DEF Perform, Step, IdType
  <2>2. CASE Found(m, op.id) = {}
    BY <1>1, <2>1, <2>2 DEF CancelIfResting
  <2>3. CASE Found(m, op.id) # {}
    <3>1. PICK h \in LiveSlots(m, op.id.side) : n = CancelWhole(m, op.id.side, h)
      BY <2>1, <2>3 DEF CancelIfResting, Found
    <3>2. Sound(n) /\ SameHoldings(m, n) /\ n.next_seq = m.next_seq
      BY <2>1, <3>1, CancelFacts
    <3> QED BY <1>1, <3>2 DEF SameHoldings, SeatLive
  <2> QED BY <2>2, <2>3
<1>3. CASE op.kind = "Place"
  <2>1. /\ n = IF CanPlace(m, seat, op.quote) THEN Place(m, seat, op.quote) ELSE m
        /\ op.quote \in QuoteType
    BY <1>3 DEF Perform, Step
  <2>2. CASE ~ CanPlace(m, seat, op.quote)
    BY <1>1, <2>1, <2>2
  <2>3. CASE CanPlace(m, seat, op.quote)
    <3>1. PICK quote \in QuoteType : n = Place(m, seat, quote) /\ CanPlace(m, seat, quote)
      BY <2>1, <2>3
    <3> HIDE DEF n
    <3> DEFINE p == Place(m, seat, quote)
    <3>2. Sound(p) /\ SameHoldings(m, p) /\ p.next_seq = m.next_seq + 1
      <4>1. CanPlace(m, seat, quote)
        BY <3>1
      <4>2. Sound(p)
        BY <4>1, PlaceFacts
      <4>3. SameHoldings(m, p)
        BY <4>1, PlaceFacts
      <4>4. p.next_seq = m.next_seq + 1
        BY DEF Place, Post
      <4> QED BY <4>2, <4>3, <4>4
    <3>3. Sound(n) /\ SameHoldings(m, n) /\ n.next_seq = m.next_seq + 1
      BY <3>1, <3>2
    <3>4. SeatLive(n, seat)
      BY <3>3 DEF SameHoldings, SeatLive
    <3> QED BY <1>1, <3>3, <3>4 DEF n
  <2> QED BY <2>2, <2>3
<1>4. CASE op.kind = "Sweep"
  <2> DEFINE own == OwnSlots(m, op.side, seat)
  <2>1. n = Sweep(m, op.side, seat) /\ op.side \in Sides
    BY <1>4 DEF Perform, Step
  <2>2. CASE own = {}
    BY <1>1, <2>1, <2>2 DEF Sweep
  <2>3. CASE own # {}
    <3>1. own \subseteq LiveSlots(m, op.side)
      BY DEF OwnSlots
    <3>2. BestOf(m, op.side, own) \in own
      BY <1>1, <2>1, <2>3, <3>1, BestExists
    <3>3. n = CancelWhole(m, op.side, BestOf(m, op.side, own))
      BY <2>1, <2>3 DEF Sweep
    <3>4. Sound(n) /\ SameHoldings(m, n) /\ n.next_seq = m.next_seq
      BY <2>1, <3>1, <3>2, <3>3, CancelFacts
    <3> QED BY <1>1, <3>4 DEF SameHoldings, SeatLive
  <2> QED BY <2>2, <2>3
<1> QED BY <1>2, <1>3, <1>4 DEF Step

NamedBy(op) == IF op.kind = "Cancel" THEN {op.id} ELSE {}

LEMMA AddedNat ==
  ASSUME NEW op, Step(op), NEW side, NEW w
  PROVE  AddedBy(op, side, w) \in Nat
<1>1. op.kind = "Place" => Weight(w, op.quote) \in Nat
  BY DEF Step, Weight, QuoteType, U64
<1> QED BY <1>1 DEF AddedBy

LEMMA PerformRests ==
  ASSUME NEW m, Sound(m), NEW seat \in Seats, SeatLive(m, seat), NEW op, Step(op),
         NEW d \in Sides, NEW X, NEW w
  PROVE  Rests(Perform(m, seat, op), d, seat, X, w)
           <= Rests(m, d, seat, X \cup NamedBy(op), w) + AddedBy(op, d, w)
<1> DEFINE n == Perform(m, seat, op)
<1>1. Sound(n) /\ m \in MarketType /\ n \in MarketType
  BY PerformFacts DEF Sound, WellFormed
<1>2. \A Y : Rests(m, d, seat, Y, w) \in Nat /\ Rests(n, d, seat, Y, w) \in Nat
  BY <1>1, StandingNat
<1>3. CASE op.kind = "Cancel"
  <2>1. n = CancelIfResting(m, op.id) /\ op.id \in IdType
    BY <1>3 DEF Perform, Step
  <2>2. Rests(n, d, seat, X, w) <= Rests(m, d, seat, X \cup {op.id}, w)
    BY <2>1, NamedRests
  <2>3. AddedBy(op, d, w) = 0 /\ NamedBy(op) = {op.id}
    BY <1>3 DEF AddedBy, NamedBy
  <2> QED BY <1>2, <2>2, <2>3
<1>4. CASE op.kind = "Place"
  <2>1. /\ n = IF CanPlace(m, seat, op.quote) THEN Place(m, seat, op.quote) ELSE m
        /\ op.quote \in QuoteType
    BY <1>4 DEF Perform, Step
  <2>2. NamedBy(op) = {} /\ X \cup {} = X
    BY <1>4 DEF NamedBy
  <2>3. CASE ~ CanPlace(m, seat, op.quote)
    BY <1>2, <2>1, <2>2, <2>3, AddedNat
  <2>4. CASE CanPlace(m, seat, op.quote)
    <3>1. Rests(n, d, seat, X, w)
            <= Rests(m, d, seat, X, w) + IF op.quote.side = d THEN Weight(w, op.quote) ELSE 0
      BY <2>1, <2>4, PlaceRests
    <3> QED BY <1>4, <2>2, <3>1 DEF AddedBy
  <2> QED BY <2>3, <2>4
<1>5. CASE op.kind = "Sweep"
  <2>1. n = Sweep(m, op.side, seat) /\ op.side \in Sides
    BY <1>5 DEF Perform, Step
  <2>2. Rests(n, d, seat, X, w) <= Rests(m, d, seat, X, w)
    BY <2>1, SweepRests
  <2>3. AddedBy(op, d, w) = 0 /\ NamedBy(op) = {} /\ X \cup {} = X
    BY <1>5 DEF AddedBy, NamedBy
  <2> QED BY <1>2, <2>2, <2>3
<1> QED BY <1>3, <1>4, <1>5 DEF Step

LEMMA RunFacts ==
  ASSUME NEW m, Sound(m), NEW seat \in Seats, SeatLive(m, seat), NEW ops, Steps(ops)
  PROVE  \A i \in 0 .. Len(ops) :
           LET n == Performed(m, seat, ops)[i]
           IN  /\ Sound(n) /\ SameHoldings(m, n) /\ SeatLive(n, seat)
               /\ n.next_seq \in Nat /\ n.next_seq >= m.next_seq
<1> DEFINE N == Len(ops)
           g == Performed(m, seat, ops)
           Good(n) == /\ Sound(n) /\ SameHoldings(m, n) /\ SeatLive(n, seat)
                      /\ n.next_seq \in Nat /\ n.next_seq >= m.next_seq
           S == {i \in 0 .. N : Good(g[i])}
<1>1. g[0] = m /\ \A i \in 1 .. N : g[i] = Perform(g[i - 1], seat, ops[i])
  BY Runs DEF Steps
<1>2. Good(m)
  BY MarketFields DEF SameHoldings, Sound, WellFormed
<1>3. N \in Nat
  BY DEF Steps
<1> HIDE DEF g
<1>4. ASSUME NEW i \in 1 .. N, i - 1 \in S PROVE i \in S
  <2>1. Good(g[i - 1]) /\ Step(ops[i]) /\ g[i] = Perform(g[i - 1], seat, ops[i])
    BY <1>1, <1>4 DEF Steps
  <2>2. /\ Sound(g[i]) /\ SameHoldings(g[i - 1], g[i]) /\ SeatLive(g[i], seat)
        /\ g[i].next_seq \in Nat /\ g[i].next_seq >= g[i - 1].next_seq
    BY <2>1, PerformFacts
  <2>3. SameHoldings(m, g[i])
    BY <2>1, <2>2 DEF SameHoldings
  <2>4. m.next_seq \in Nat
    BY <1>2
  <2> QED BY <1>3, <2>1, <2>2, <2>3, <2>4
<1>5. 0 \in S
  BY <1>1, <1>2, <1>3
<1>6. \A i \in 0 .. N : i \in S
  <2> HIDE DEF S, N
  <2> QED BY <1>3, <1>4, <1>5, Upward
<1> QED BY <1>6 DEF g

LEMMA AddsFacts ==
  ASSUME NEW ops, Steps(ops), NEW side, NEW w
  PROVE  /\ \A n \in 0 .. Len(ops) : Adds(ops, side, w, n) \in Nat
         /\ Adds(ops, side, w, 0) = 0
<1> DEFINE f == Adding(ops, side, w)
           N == Len(ops)
<1>1. N \in Nat /\ \A i \in 1 .. N : f[i] = AddedBy(ops[i], side, w) /\ f[i] \in Nat
  BY AddedNat DEF Steps, Adding
<1> HIDE DEF f, N
<1>2. \A n \in 0 .. N : SumTo(f, n) \in Nat
  <2> SUFFICES ASSUME NEW n \in 0 .. N PROVE SumTo(f, n) \in Nat
    OBVIOUS
  <2>1. n \in Nat /\ \A i \in 1 .. n : f[i] \in Nat
    BY <1>1
  <2> QED BY <2>1, SumNat
<1>3. SumTo(f, 0) = 0
  BY SumOfNone
<1> QED BY <1>1, <1>2, <1>3 DEF Adds, f, N

LEMMA AddsStep ==
  ASSUME NEW ops, Steps(ops), NEW side, NEW w, NEW n \in 1 .. Len(ops)
  PROVE  Adds(ops, side, w, n) = Adds(ops, side, w, n - 1) + AddedBy(ops[n], side, w)
<1> DEFINE f == Adding(ops, side, w)
<1>1. Len(ops) \in Nat /\ f[n] = AddedBy(ops[n], side, w)
  BY DEF Steps, Adding
<1> HIDE DEF f
<1>2. SumTo(f, n) = SumTo(f, n - 1) + f[n]
  BY <1>1, SumStep
<1> QED BY <1>1, <1>2 DEF Adds, f

LEMMA NamedFacts ==
  ASSUME NEW ops, Steps(ops)
  PROVE  /\ NamedAfter(ops, Len(ops)) = {}
         /\ \A n \in 1 .. Len(ops) :
              NamedAfter(ops, n - 1) = NamedAfter(ops, n) \cup NamedBy(ops[n])
<1>1. Len(ops) \in Nat
  BY DEF Steps
<1>2. NamedAfter(ops, Len(ops)) = {}
  <2>1. Len(ops) + 1 .. Len(ops) = {}
    BY <1>1
  <2> QED BY <2>1 DEF NamedAfter
<1>3. ASSUME NEW n \in 1 .. Len(ops)
      PROVE  NamedAfter(ops, n - 1) = NamedAfter(ops, n) \cup NamedBy(ops[n])
  <2>1. (n - 1) + 1 .. Len(ops) = (n + 1 .. Len(ops)) \cup {n}
    BY <1>1
  <2> QED BY <2>1 DEF NamedAfter, NamedBy
<1> QED BY <1>2, <1>3

(* After a sequence of steps: what was there and is not cancelled, and no  *)
(* more than what it places.                                               *)
LEMMA RunRests ==
  ASSUME NEW m, Sound(m), NEW seat \in Seats, SeatLive(m, seat), NEW ops, Steps(ops),
         NEW d \in Sides, NEW X, NEW w
  PROVE  Rests(Performed(m, seat, ops)[Len(ops)], d, seat, X, w)
           <= Rests(m, d, seat, X \cup NamedAfter(ops, 0), w) + Adds(ops, d, w, Len(ops))
<1> DEFINE N == Len(ops)
           g == Performed(m, seat, ops)
           rests(i) == Rests(g[i], d, seat, X \cup NamedAfter(ops, i), w)
           adds(i) == Adds(ops, d, w, i)
           S == {i \in 0 .. N : rests(i) <= rests(0) + adds(i)}
<1>1. g[0] = m /\ \A i \in 1 .. N : g[i] = Perform(g[i - 1], seat, ops[i])
  BY Runs DEF Steps
<1>2. N \in Nat
  BY DEF Steps
<1>3. \A i \in 0 .. N : Sound(g[i]) /\ SeatLive(g[i], seat)
  BY RunFacts
<1>4. /\ \A i \in 0 .. N : adds(i) \in Nat
      /\ adds(0) = 0
      /\ \A i \in 1 .. N : adds(i) = adds(i - 1) + AddedBy(ops[i], d, w)
  <2>1. \A i \in 0 .. N : adds(i) \in Nat
    BY AddsFacts
  <2>2. adds(0) = 0
    BY AddsFacts
  <2>3. \A i \in 1 .. N : adds(i) = adds(i - 1) + AddedBy(ops[i], d, w)
    BY AddsStep
  <2> QED BY <2>1, <2>2, <2>3
<1> HIDE DEF g
<1>5. \A i \in 0 .. N : rests(i) \in Nat
  BY <1>3, StandingNat DEF Sound, WellFormed
<1>6. \A i \in 1 .. N : rests(i) <= rests(i - 1) + AddedBy(ops[i], d, w)
  <2> SUFFICES ASSUME NEW i \in 1 .. N
               PROVE  rests(i) <= rests(i - 1) + AddedBy(ops[i], d, w)
    OBVIOUS
  <2> DEFINE Y == X \cup NamedAfter(ops, i)
  <2>1. /\ Sound(g[i - 1]) /\ SeatLive(g[i - 1], seat) /\ Step(ops[i])
        /\ g[i] = Perform(g[i - 1], seat, ops[i])
    BY <1>1, <1>2, <1>3 DEF Steps
  <2>2. X \cup NamedAfter(ops, i - 1) = Y \cup NamedBy(ops[i])
    BY NamedFacts
  <2> HIDE DEF Y
  <2>3. Rests(Perform(g[i - 1], seat, ops[i]), d, seat, Y, w)
          <= Rests(g[i - 1], d, seat, Y \cup NamedBy(ops[i]), w) + AddedBy(ops[i], d, w)
    BY <2>1, PerformRests
  <2> QED BY <2>1, <2>2, <2>3 DEF Y
<1>7. \A i \in 1 .. N : AddedBy(ops[i], d, w) \in Nat
  BY AddedNat DEF Steps
<1> HIDE DEF rests, adds, N
<1>8. 0 \in S
  BY <1>2, <1>4, <1>5
<1>9. ASSUME NEW i \in 1 .. N, i - 1 \in S PROVE i \in S
  <2>1. /\ rests(i) \in Nat /\ rests(i - 1) \in Nat /\ rests(0) \in Nat
        /\ adds(i) \in Nat /\ adds(i - 1) \in Nat
    BY <1>2, <1>4, <1>5
  <2>2. rests(i - 1) <= rests(0) + adds(i - 1)
    BY <1>9
  <2> QED BY <1>2, <1>4, <1>6, <1>7, <2>1, <2>2
<1> HIDE DEF S
<1>10. N \in S
  BY <1>2, <1>8, <1>9, Upward
<1>11. rests(N) <= rests(0) + adds(N)
  BY <1>10 DEF S
<1>12. X \cup NamedAfter(ops, N) = X
  BY NamedFacts DEF N
<1> QED BY <1>1, <1>11, <1>12 DEF rests, adds, N, g

(* A stretch of sweeps of one side takes away as many orders as it has     *)
(* steps, or all there are.                                                *)
LEMMA SweepRun ==
  ASSUME NEW m, Sound(m), NEW seat \in Seats, SeatLive(m, seat), NEW ops, Steps(ops),
         \A i \in 1 .. Len(ops) : ops[i].kind = "Sweep",
         NEW side \in Sides, NEW a \in Nat, NEW b \in Nat, a <= b, b <= Len(ops),
         \A i \in a + 1 .. b : ops[i].side = side
  PROVE  LET n == Performed(m, seat, ops)[Len(ops)]
         IN  \/ Rests(n, side, seat, {}, "orders") = 0
             \/ Rests(n, side, seat, {}, "orders") <= Rests(m, side, seat, {}, "orders") - (b - a)
<1> DEFINE N == Len(ops)
           g == Performed(m, seat, ops)
           rests(i) == Rests(g[i], side, seat, {}, "orders")
           swept(i) == IF i <= a THEN 0 ELSE IF i <= b THEN i - a ELSE b - a
           S == {i \in 0 .. N : rests(i) = 0 \/ rests(i) <= rests(0) - swept(i)}
<1>1. g[0] = m /\ \A i \in 1 .. N : g[i] = Perform(g[i - 1], seat, ops[i])
  BY Runs DEF Steps
<1>2. N \in Nat
  BY DEF Steps
<1>3. \A i \in 0 .. N : Sound(g[i]) /\ SeatLive(g[i], seat)
  BY RunFacts
<1> HIDE DEF g
<1>4. \A i \in 0 .. N : rests(i) \in Nat
  BY <1>3, StandingNat DEF Sound, WellFormed
<1>5. ASSUME NEW i \in 1 .. N
      PROVE  /\ rests(i) <= rests(i - 1)
             /\ a < i /\ i <= b => rests(i) = 0 \/ rests(i) <= rests(i - 1) - 1
  <2>1. /\ Sound(g[i - 1]) /\ SeatLive(g[i - 1], seat)
        /\ ops[i].side \in Sides
        /\ g[i] = Sweep(g[i - 1], ops[i].side, seat)
    <3>1. Step(ops[i]) /\ ops[i].kind = "Sweep" /\ i - 1 \in 0 .. N
      BY <1>2 DEF Steps
    <3>2. Perform(g[i - 1], seat, ops[i]) = Sweep(g[i - 1], ops[i].side, seat)
      BY <3>1 DEF Perform
    <3> QED BY <1>1, <1>3, <3>1, <3>2 DEF Step
  <2>2. /\ Rests(g[i], side, seat, {}, "orders") <= Rests(g[i - 1], side, seat, {}, "orders")
        /\ ops[i].side = side =>
             \/ Rests(g[i], side, seat, {}, "orders") = 0
             \/ Rests(g[i], side, seat, {}, "orders")
                  <= Rests(g[i - 1], side, seat, {}, "orders") - 1
    BY <2>1, SweepRests
  <2>3. a < i /\ i <= b => ops[i].side = side
    BY <1>2
  <2> QED BY <2>2, <2>3
<1> HIDE DEF rests, N
<1>6. 0 \in S
  BY <1>2, <1>4
<1>7. ASSUME NEW i \in 1 .. N, i - 1 \in S PROVE i \in S
  <2>1. rests(i) \in Nat /\ rests(i - 1) \in Nat /\ rests(0) \in Nat
    BY <1>2, <1>4
  <2>2. /\ swept(i) = swept(i - 1) + (IF a < i /\ i <= b THEN 1 ELSE 0)
        /\ swept(i - 1) \in Nat
    BY <1>2
  <2> HIDE DEF swept
  <2>3. rests(i - 1) = 0 \/ rests(i - 1) <= rests(0) - swept(i - 1)
    BY <1>7
  <2>4. CASE rests(i - 1) = 0
    BY <1>2, <1>5, <2>1, <2>4
  <2>5. CASE rests(i - 1) <= rests(0) - swept(i - 1)
    BY <1>2, <1>5, <2>1, <2>2, <2>5
  <2> QED BY <2>3, <2>4, <2>5
<1>8. swept(N) = b - a
  BY <1>2 DEF N
<1> HIDE DEF S
<1>9. N \in S
  <2>1. \A i \in 0 .. N : i \in S
    BY <1>2, <1>6, <1>7, Upward, Zenon
  <2> QED BY <1>2, <2>1
<1> HIDE DEF swept
<1>10. rests(N) = 0 \/ rests(N) <= rests(0) - (b - a)
  BY <1>8, <1>9 DEF S
<1> QED BY <1>1, <1>10 DEF rests, N, g

-----------------------------------------------------------------------------
(* The steps of a transaction. *)

LEMMA SequenceOf ==
  ASSUME NEW S, NEW n \in Nat, NEW s \in [1 .. n -> S]
  PROVE  s \in Seq(S) /\ Len(s) = n
<1>1. s \in Seq(S)
  BY SeqDef
<1> DEFINE L == Len(s)
<1>2. L \in Nat /\ 1 .. L = 1 .. n
  BY <1>1, LenProperties
<1> HIDE DEF L
<1>3. (L \in 1 .. L <=> L \in 1 .. n) /\ (n \in 1 .. L <=> n \in 1 .. n)
  BY <1>2
<1>4. L = n
  BY <1>2, <1>3
<1> QED BY <1>1, <1>4 DEF L

LEMMA ConcatLength ==
  ASSUME NEW S, NEW s \in Seq(S), NEW t \in Seq(S), NEW p, NEW q, Len(s) = p, Len(t) = q
  PROVE  Len(s \o t) = p + q
BY ConcatProperties

LEMMA Concatenated ==
  ASSUME NEW S, NEW s \in Seq(S), NEW t \in Seq(S), NEW p \in Nat, NEW q \in Nat,
         Len(s) = p, Len(t) = q
  PROVE  /\ s \o t \in Seq(S)
         /\ \A i \in 1 .. p : (s \o t)[i] = s[i]
         /\ \A i \in p + 1 .. p + q : (s \o t)[i] = t[i - p]
<1>1. s \o t \in Seq(S)
  BY ConcatProperties
<1>2. \A i \in 1 .. p + q : (s \o t)[i] = IF i <= p THEN s[i] ELSE t[i - p]
  <2>1. \A i \in 1 .. Len(s) + Len(t) :
          (s \o t)[i] = IF i <= Len(s) THEN s[i] ELSE t[i - Len(s)]
    BY ConcatProperties
  <2> QED BY <2>1
<1>3. /\ \A i \in 1 .. p : i \in 1 .. p + q /\ i <= p
      /\ \A i \in p + 1 .. p + q : i \in 1 .. p + q /\ ~ i <= p
  OBVIOUS
<1> QED BY <1>1, <1>2, <1>3

Operation ==
  [kind : {"Cancel"}, id : IdType] \cup [kind : {"Place"}, quote : QuoteType]
    \cup [kind : {"Sweep"}, side : Sides]

LEMMA OperationIsStep ==
  ASSUME NEW ops \in Seq(Operation)
  PROVE  Steps(ops)
<1>1. \A op \in Operation : Step(op)
  BY DEF Operation, Step
<1>2. Len(ops) \in Nat /\ DOMAIN ops = 1 .. Len(ops) /\ \A i \in 1 .. Len(ops) : ops[i] \in Operation
  OBVIOUS
<1> QED BY <1>1, <1>2 DEF Steps

LEMMA RefreshOperations ==
  ASSUME NEW tx \in Transaction, tx.kind = "Refresh"
  PROVE  LET ops == Operations(tx)
             n == Len(tx.cancels)
         IN  /\ Steps(ops)
             /\ n \in Nat /\ Len(tx.places) \in Nat /\ Len(ops) = n + Len(tx.places)
             /\ \A i \in 1 .. n : ops[i] = [kind |-> "Cancel", id |-> tx.cancels[i]]
             /\ \A i \in n + 1 .. n + Len(tx.places) :
                  ops[i] = [kind |-> "Place", quote |-> tx.places[i - n]]
<1> DEFINE ids == tx.cancels
           quotes == tx.places
           s == Cancels(ids)
           t == Places(quotes)
<1>1. /\ ids \in Seq(IdType) /\ quotes \in Seq(QuoteType)
  BY DEF Transaction
<1>2. Operations(tx) = s \o t
  BY DEF Operations
<1> HIDE DEF ids, quotes
<1>3. /\ Len(ids) \in Nat /\ DOMAIN ids = 1 .. Len(ids)
      /\ Len(quotes) \in Nat /\ DOMAIN quotes = 1 .. Len(quotes)
      /\ \A i \in 1 .. Len(ids) : ids[i] \in IdType
      /\ \A i \in 1 .. Len(quotes) : quotes[i] \in QuoteType
  BY <1>1
<1>4. s \in Seq(Operation) /\ Len(s) = Len(ids)
  <2>1. s \in [1 .. Len(ids) -> Operation]
    BY <1>3 DEF Cancels, Operation
  <2> HIDE DEF s
  <2> QED BY <1>3, <2>1, SequenceOf
<1>5. t \in Seq(Operation) /\ Len(t) = Len(quotes)
  <2>1. t \in [1 .. Len(quotes) -> Operation]
    BY <1>3 DEF Places, Operation
  <2> HIDE DEF t
  <2> QED BY <1>3, <2>1, SequenceOf
<1>6. /\ \A i \in 1 .. Len(ids) : s[i] = [kind |-> "Cancel", id |-> ids[i]]
      /\ \A i \in 1 .. Len(quotes) : t[i] = [kind |-> "Place", quote |-> quotes[i]]
  BY <1>3 DEF Cancels, Places
<1> HIDE DEF s, t
<1>7. /\ s \o t \in Seq(Operation)
      /\ Len(s \o t) = Len(ids) + Len(quotes)
      /\ \A i \in 1 .. Len(ids) : (s \o t)[i] = s[i]
      /\ \A i \in Len(ids) + 1 .. Len(ids) + Len(quotes) : (s \o t)[i] = t[i - Len(ids)]
  <2> DEFINE p == Len(ids)
             q == Len(quotes)
  <2>1. s \in Seq(Operation) /\ t \in Seq(Operation)
    BY <1>4, <1>5
  <2>2. p \in Nat /\ q \in Nat /\ Len(s) = p /\ Len(t) = q
    BY <1>3, <1>4, <1>5
  <2> HIDE DEF p, q
  <2>3. /\ s \o t \in Seq(Operation)
        /\ \A i \in 1 .. p : (s \o t)[i] = s[i]
        /\ \A i \in p + 1 .. p + q : (s \o t)[i] = t[i - p]
    BY ONLY <2>1, <2>2, Concatenated
  <2>4. Len(s \o t) = p + q
    BY ONLY <2>1, <2>2, ConcatLength
  <2> QED BY <2>3, <2>4 DEF p, q
<1>8. Steps(s \o t)
  BY <1>7, OperationIsStep
<1>9. \A i \in Len(ids) + 1 .. Len(ids) + Len(quotes) : i - Len(ids) \in 1 .. Len(quotes)
  BY <1>3
<1> QED BY <1>2, <1>3, <1>6, <1>7, <1>8, <1>9 DEF ids, quotes

LEMMA WithdrawOperations ==
  ASSUME NEW tx, tx.kind = "Withdraw"
  PROVE  LET ops == Operations(tx)
             n == ShutdownCancelLimit
         IN  /\ Steps(ops)
             /\ Len(ops) = n + n
             /\ \A i \in 1 .. n + n : ops[i].kind = "Sweep"
             /\ \A i \in 1 .. n : ops[i].side = "Bid"
             /\ \A i \in n + 1 .. n + n : ops[i].side = "Ask"
<1> DEFINE n == ShutdownCancelLimit
           s == Sweeps("Bid")
           t == Sweeps("Ask")
<1>1. Operations(tx) = s \o t
  BY DEF Operations
<1>2. n \in Nat
  OBVIOUS
<1>3. ASSUME NEW side \in Sides
      PROVE  /\ Sweeps(side) \in Seq(Operation) /\ Len(Sweeps(side)) = n
             /\ \A i \in 1 .. n : Sweeps(side)[i].kind = "Sweep" /\ Sweeps(side)[i].side = side
  <2> DEFINE u == Sweeps(side)
  <2>1. /\ u \in [1 .. n -> Operation]
        /\ \A i \in 1 .. n : u[i].kind = "Sweep" /\ u[i].side = side
    BY DEF Sweeps, Operation
  <2> HIDE DEF u
  <2>2. u \in Seq(Operation) /\ Len(u) = n
    BY <1>2, <2>1, SequenceOf
  <2> QED BY <2>1, <2>2 DEF u
<1>4. /\ s \in Seq(Operation) /\ Len(s) = n /\ t \in Seq(Operation) /\ Len(t) = n
      /\ \A i \in 1 .. n : s[i].kind = "Sweep" /\ s[i].side = "Bid"
      /\ \A i \in 1 .. n : t[i].kind = "Sweep" /\ t[i].side = "Ask"
  BY <1>3 DEF Sides
<1> HIDE DEF s, t
<1>5. /\ s \o t \in Seq(Operation)
      /\ Len(s \o t) = n + n
      /\ \A i \in 1 .. n : (s \o t)[i] = s[i]
      /\ \A i \in n + 1 .. n + n : (s \o t)[i] = t[i - n]
  <2> HIDE DEF n
  <2>1. /\ s \in Seq(Operation) /\ t \in Seq(Operation)
        /\ Len(s) = n /\ Len(t) = n
    BY <1>4
  <2>2. /\ s \o t \in Seq(Operation)
        /\ \A i \in 1 .. n : (s \o t)[i] = s[i]
        /\ \A i \in n + 1 .. n + n : (s \o t)[i] = t[i - n]
    BY ONLY <1>2, <2>1, Concatenated
  <2>3. Len(s \o t) = n + n
    BY ONLY <2>1, ConcatLength
  <2> QED BY <2>2, <2>3
<1>6. Steps(s \o t)
  BY <1>5, OperationIsStep
<1>7. /\ \A i \in n + 1 .. n + n : i - n \in 1 .. n
      /\ \A i \in 1 .. n + n : i \in 1 .. n \/ i \in n + 1 .. n + n
  BY <1>2
<1>8. /\ \A i \in 1 .. n + n : (s \o t)[i].kind = "Sweep"
      /\ \A i \in 1 .. n : (s \o t)[i].side = "Bid"
      /\ \A i \in n + 1 .. n + n : (s \o t)[i].side = "Ask"
  BY <1>4, <1>5, <1>7
<1> QED BY <1>1, <1>5, <1>6, <1>8

LEMMA NoOperations ==
  ASSUME NEW tx, tx.kind = "None"
  PROVE  Steps(Operations(tx)) /\ Len(Operations(tx)) = 0
<1>1. Operations(tx) = <<>> /\ <<>> \in Seq(Operation)
  BY DEF Operations
<1> QED BY <1>1, OperationIsStep

LEMMA TransactionSteps ==
  ASSUME NEW tx \in Transaction
  PROVE  Steps(Operations(tx))
BY RefreshOperations, WithdrawOperations, NoOperations DEF Transaction

(* What a transaction does, if it is not refused. *)
LEMMA ExecutedFacts ==
  ASSUME NEW m, Sound(m), Seat \in Seats, SeatLive(m, Seat), NEW tx \in Transaction
  PROVE  LET n == Executed(m, tx)
         IN  /\ Sound(n) /\ SameHoldings(m, n)
             /\ n.next_seq \in Nat /\ n.next_seq >= m.next_seq
<1> DEFINE ops == Operations(tx)
<1>1. Steps(ops)
  BY TransactionSteps
<1>2. Len(ops) \in 0 .. Len(ops)
  BY <1>1 DEF Steps
<1> HIDE DEF ops
<1>3. LET n == Performed(m, Seat, ops)[Len(ops)]
      IN  /\ Sound(n) /\ SameHoldings(m, n)
          /\ n.next_seq \in Nat /\ n.next_seq >= m.next_seq
  BY <1>1, <1>2, RunFacts
<1> QED BY <1>3 DEF Executed, ops

LEMMA PlacesNat ==
  ASSUME NEW tx \in Transaction, NEW d, NEW w
  PROVE  PlacesOn(tx, d, w) \in Nat
<1> DEFINE ops == Operations(tx)
<1>1. Steps(ops)
  BY TransactionSteps
<1>2. Len(ops) \in 0 .. Len(ops)
  BY <1>1 DEF Steps
<1> HIDE DEF ops
<1>3. Adds(ops, d, w, Len(ops)) \in Nat
  BY <1>1, <1>2, AddsFacts
<1> QED BY <1>3 DEF PlacesOn, ops

LEMMA ExecutedRests ==
  ASSUME NEW m, Sound(m), Seat \in Seats, SeatLive(m, Seat), NEW tx \in Transaction,
         NEW d \in Sides, NEW X, NEW w
  PROVE  Rests(Executed(m, tx), d, Seat, X, w)
           <= Rests(m, d, Seat, X \cup Named(tx), w) + PlacesOn(tx, d, w)
BY TransactionSteps, RunRests DEF Executed, Named, PlacesOn

LEMMA ExecutedAdds ==
  ASSUME NEW m, Sound(m), Seat \in Seats, SeatLive(m, Seat), NEW tx \in Transaction,
         NEW d \in Sides, NEW X, NEW w
  PROVE  Rests(Executed(m, tx), d, Seat, X, w)
           <= Rests(m, d, Seat, X, w) + PlacesOn(tx, d, w)
<1> DEFINE r1 == Rests(Executed(m, tx), d, Seat, X, w)
           r2 == Rests(m, d, Seat, X \cup Named(tx), w)
           r3 == Rests(m, d, Seat, X, w)
           p == PlacesOn(tx, d, w)
<1>1. m \in MarketType /\ Executed(m, tx) \in MarketType
  BY ExecutedFacts DEF Sound, WellFormed
<1>2. r1 <= r2 + p
  BY ExecutedRests
<1>3. r2 <= r3
  BY <1>1, RestsExcept
<1>4. r1 \in Nat /\ r2 \in Nat /\ r3 \in Nat
  BY <1>1, StandingNat
<1>5. p \in Nat
  BY PlacesNat
<1> HIDE DEF r1, r2, r3, p
<1>6. r1 <= r3 + p
  BY <1>2, <1>3, <1>4, <1>5
<1> QED BY <1>6 DEF r1, r3, p

LEMMA ExecutedSweeps ==
  ASSUME NEW m, Sound(m), Seat \in Seats, SeatLive(m, Seat), NEW tx, tx.kind = "Withdraw",
         NEW d \in Sides
  PROVE  LET n == Executed(m, tx)
         IN  \/ Rests(n, d, Seat, {}, "orders") = 0
             \/ Rests(n, d, Seat, {}, "orders")
                  <= Rests(m, d, Seat, {}, "orders") - ShutdownCancelLimit
<1> DEFINE ops == Operations(tx)
           n == ShutdownCancelLimit
           a == IF d = "Bid" THEN 0 ELSE n
           b == IF d = "Bid" THEN n ELSE n + n
<1>1. /\ Steps(ops) /\ Len(ops) = n + n
      /\ \A i \in 1 .. n + n : ops[i].kind = "Sweep"
      /\ \A i \in 1 .. n : ops[i].side = "Bid"
      /\ \A i \in n + 1 .. n + n : ops[i].side = "Ask"
  BY WithdrawOperations
<1> HIDE DEF ops
<1>2. n \in Nat
  OBVIOUS
<1> HIDE DEF n
<1>3. d = "Bid" \/ d = "Ask"
  BY DEF Sides
<1>4. /\ a \in Nat /\ b \in Nat /\ a <= b /\ b <= Len(ops) /\ b - a = n
      /\ \A i \in 1 .. Len(ops) : ops[i].kind = "Sweep"
      /\ \A i \in a + 1 .. b : ops[i].side = d
  BY <1>1, <1>2, <1>3
<1> HIDE DEF a, b
<1>5. LET p == Performed(m, Seat, ops)[Len(ops)]
      IN  \/ Rests(p, d, Seat, {}, "orders") = 0
          \/ Rests(p, d, Seat, {}, "orders") <= Rests(m, d, Seat, {}, "orders") - (b - a)
  BY <1>1, <1>4, SweepRun
<1> QED BY <1>4, <1>5 DEF Executed, ops, n

-----------------------------------------------------------------------------
(* The ladder. *)

FundedTo(state, side, centre, n) ==
  /\ \A level \in 1 .. n : Expressible(side, centre, level)
  /\ SumTo([level \in 1 .. Levels |-> Backing(side, LevelPrice(side, centre, level), LevelSize)], n)
       <= Budget(state, side)

LEMMA FundedFacts ==
  ASSUME NEW state, NEW side, NEW centre, Budget(state, side) \in Nat
  PROVE  /\ FundedLevels(state, side, centre) \in 0 .. Levels
         /\ FundedTo(state, side, centre, FundedLevels(state, side, centre))
<1> DEFINE Reached == {n \in 0 .. Levels : FundedTo(state, side, centre, n)}
           Missing == {Levels - n : n \in Reached}
<1>1. Levels \in Nat
  OBVIOUS
<1>2. 0 \in Reached
  BY <1>1, SumOfNone DEF FundedTo
<1>3. Missing # {} /\ Missing \in SUBSET Nat
  BY <1>1, <1>2
<1>4. PICK k \in Missing : \A j \in Missing : k <= j
  BY <1>3, LeastNat
<1>5. PICK n \in Reached : k = Levels - n
  BY <1>4
<1>6. \A i \in n + 1 .. Levels : ~ FundedTo(state, side, centre, i)
  <2> SUFFICES ASSUME NEW i \in n + 1 .. Levels, FundedTo(state, side, centre, i) PROVE FALSE
    OBVIOUS
  <2>1. i \in Reached
    BY <1>1
  <2>2. k <= Levels - i
    BY <1>4, <2>1
  <2> QED BY <1>1, <1>5, <2>2
<1>7. \E i \in 0 .. Levels : /\ FundedTo(state, side, centre, i)
                             /\ \A j \in i + 1 .. Levels : ~ FundedTo(state, side, centre, j)
  BY <1>5, <1>6
<1>8. FundedLevels(state, side, centre) =
        CHOOSE i \in 0 .. Levels : /\ FundedTo(state, side, centre, i)
                                   /\ \A j \in i + 1 .. Levels : ~ FundedTo(state, side, centre, j)
  BY DEF FundedLevels, FundedTo
<1> QED BY <1>7, <1>8

(* A size with a backing at some price fits the machine word. *)
LEMMA ExpressibleSize ==
  ASSUME NEW side \in Sides, NEW price \in U64 \ {0}, NEW size \in Nat \ {0},
         Backing(side, price, size) \in U64
  PROVE  size \in U64 \ {0}
<1>1. CASE side = "Ask"
  BY <1>1 DEF Backing
<1>2. CASE side # "Ask"
  <2> DEFINE q == QuoteLotsPerLotPerTick
             value == price * size
  <2>1. price \in Nat /\ 1 <= price /\ q \in Nat /\ 1 <= q /\ size \in Nat /\ U64Max \in Nat
    BY DEF U64
  <2>2. 1 * size <= price * size /\ value \in Nat
    BY <2>1, ProductMonotone
  <2>3. value * q <= U64Max
    BY <1>2 DEF Backing, QuoteLotsFor, U64
  <2> HIDE DEF value, q
  <2>4. 1 * value <= q * value
    BY <2>1, <2>2, ProductMonotone
  <2>5. size <= value
    BY <2>1, <2>2 DEF value
  <2>6. value <= value * q
    BY <2>1, <2>2, <2>4
  <2>7. value * q \in Nat
    BY <2>1, <2>2
  <2>8. size <= U64Max
    BY <2>1, <2>2, <2>3, <2>5, <2>6, <2>7
  <2> QED BY <2>8 DEF U64
<1> QED BY <1>1, <1>2

LEMMA RungsFacts ==
  ASSUME NEW state, NEW side \in Sides, NEW centre, Budget(state, side) \in Nat
  PROVE  LET rungs == Rungs(state, side, centre)
         IN  \E n \in 0 .. Levels :
               /\ rungs \in Seq(QuoteType) /\ Len(rungs) = n
               /\ \A i \in 1 .. n :
                    rungs[i] = [side  |-> side, price |-> LevelPrice(side, centre, i),
                                size |-> LevelSize]
               /\ ~ MayQuote(Deviation(state), side) => n = 0
               /\ MayQuote(Deviation(state), side) => FundedTo(state, side, centre, n)
<1> DEFINE rungs == Rungs(state, side, centre)
<1>1. CASE ~ MayQuote(Deviation(state), side)
  <2>1. rungs = <<>>
    BY <1>1 DEF Rungs
  <2>2. 0 \in 0 .. Levels /\ <<>> \in Seq(QuoteType) /\ Len(<<>>) = 0
    OBVIOUS
  <2> QED BY <1>1, <2>1, <2>2
<1>2. CASE MayQuote(Deviation(state), side)
  <2> DEFINE n == FundedLevels(state, side, centre)
             rung(i) == [side |-> side, price |-> LevelPrice(side, centre, i), size |-> LevelSize]
  <2>1. n \in 0 .. Levels /\ FundedTo(state, side, centre, n)
    BY FundedFacts
  <2>2. rungs = [i \in 1 .. n |-> rung(i)]
    BY <1>2 DEF Rungs
  <2> HIDE DEF n
  <2>3. \A i \in 1 .. n : rung(i) \in QuoteType
    <3> SUFFICES ASSUME NEW i \in 1 .. n PROVE rung(i) \in QuoteType
      OBVIOUS
    <3>1. /\ LevelPrice(side, centre, i) \in U64 \ {0}
          /\ Backing(side, LevelPrice(side, centre, i), LevelSize) \in U64
      BY <2>1 DEF FundedTo, Expressible
    <3>2. LevelSize \in U64 \ {0}
      BY <3>1, ExpressibleSize
    <3> QED BY <3>1, <3>2 DEF QuoteType
  <2> HIDE DEF rung, rungs
  <2>4. n \in Nat /\ rungs \in [1 .. n -> QuoteType]
    BY <2>1, <2>2, <2>3
  <2>5. rungs \in Seq(QuoteType) /\ Len(rungs) = n
    BY <2>4, SequenceOf
  <2>6. \A i \in 1 .. n : rungs[i] = rung(i)
    BY <2>2
  <2> QED BY <1>2, <2>1, <2>5, <2>6 DEF rung, rungs
<1> QED BY <1>1, <1>2

(* The middle of the ladder, skewed. *)
Centre(m, seat) == Fair(Touch(m, seat)) + Skew(Deviation(m.state[seat]))

RungAt(side, centre, level) ==
  [side |-> side, price |-> LevelPrice(side, centre, level), size |-> LevelSize]

(* Bids, best first, and then asks, best first: only the sides the         *)
(* inventory lets it quote, and only levels it can pay for.                *)
IsLadder(ladder, m, seat, bids, asks) ==
  LET state == m.state[seat]
      centre == Centre(m, seat)
  IN  /\ ladder \in Seq(QuoteType) /\ Len(ladder) = bids + asks
      /\ \A i \in 1 .. bids : ladder[i] = RungAt("Bid", centre, i)
      /\ \A i \in bids + 1 .. bids + asks : ladder[i] = RungAt("Ask", centre, i - bids)
      /\ IF MayQuote(Deviation(state), "Bid")
         THEN FundedTo(state, "Bid", centre, bids) ELSE bids = 0
      /\ IF MayQuote(Deviation(state), "Ask")
         THEN FundedTo(state, "Ask", centre, asks) ELSE asks = 0

LEMMA LadderFacts ==
  ASSUME NEW m \in MarketType, NEW seat \in Seats
  PROVE  \E bids, asks \in 0 .. Levels : IsLadder(Ladder(m, seat), m, seat, bids, asks)
<1> DEFINE state == m.state[seat]
           centre == Centre(m, seat)
           s == Rungs(state, "Bid", centre)
           t == Rungs(state, "Ask", centre)
<1>1. Budget(state, "Bid") \in Nat /\ Budget(state, "Ask") \in Nat
  <2>1. state \in TraderState
    BY MarketFields
  <2> HIDE DEF state
  <2> QED BY <2>1, StateFields DEF Budget, TotalBase, TotalQuote
<1>2. Ladder(m, seat) = s \o t
  BY DEF Ladder, Centre
<1> HIDE DEF state, centre
<1>3. PICK bids \in 0 .. Levels :
        /\ s \in Seq(QuoteType) /\ Len(s) = bids
        /\ \A i \in 1 .. bids : s[i] = RungAt("Bid", centre, i)
        /\ ~ MayQuote(Deviation(state), "Bid") => bids = 0
        /\ MayQuote(Deviation(state), "Bid") => FundedTo(state, "Bid", centre, bids)
  BY <1>1, RungsFacts DEF Sides, RungAt
<1>4. PICK asks \in 0 .. Levels :
        /\ t \in Seq(QuoteType) /\ Len(t) = asks
        /\ \A i \in 1 .. asks : t[i] = RungAt("Ask", centre, i)
        /\ ~ MayQuote(Deviation(state), "Ask") => asks = 0
        /\ MayQuote(Deviation(state), "Ask") => FundedTo(state, "Ask", centre, asks)
  BY <1>1, RungsFacts DEF Sides, RungAt
<1> HIDE DEF s, t
<1>5. bids \in Nat /\ asks \in Nat
  OBVIOUS
<1>6. s \in Seq(QuoteType) /\ t \in Seq(QuoteType) /\ Len(s) = bids /\ Len(t) = asks
  BY <1>3, <1>4
<1>7. Len(s \o t) = bids + asks
  BY ONLY <1>6, ConcatLength
<1>8. /\ s \o t \in Seq(QuoteType)
      /\ \A i \in 1 .. bids : (s \o t)[i] = s[i]
      /\ \A i \in bids + 1 .. bids + asks : (s \o t)[i] = t[i - bids]
  BY ONLY <1>5, <1>6, Concatenated
<1>9. \A i \in bids + 1 .. bids + asks : i - bids \in 1 .. asks
  BY <1>5
<1>10. IsLadder(s \o t, m, seat, bids, asks)
  BY <1>3, <1>4, <1>7, <1>8, <1>9 DEF IsLadder, state, centre
<1> QED BY <1>2, <1>10

-----------------------------------------------------------------------------
(* What a seat has resting, in order. *)

LEMMA PrecedesOrders ==
  ASSUME NEW m, WellFormed(m), NEW side \in Sides
  PROVE  LET before(h, k) == Precedes(side, m.book[side][h], m.book[side][k])
         IN  /\ \A h, k \in LiveSlots(m, side) : h # k => before(h, k) \/ before(k, h)
             /\ \A h \in LiveSlots(m, side) : ~ before(h, h)
             /\ \A h, k, l \in LiveSlots(m, side) :
                  before(h, k) /\ before(k, l) => before(h, l)
<1>1. \A h \in LiveSlots(m, side) : m.book[side][h].price \in Nat /\ m.book[side][h].seq \in Nat
  BY LiveSlotFacts, OrderFields DEF WellFormed
<1>2. \A h, k \in LiveSlots(m, side) : h # k => m.book[side][h].seq # m.book[side][k].seq
  BY DEF WellFormed, IdsUnique
<1> QED BY <1>1, <1>2 DEF Precedes

LEMMA OwnFinite ==
  ASSUME NEW m, NEW side, NEW seat
  PROVE  /\ IsFiniteSet(OwnSlots(m, side, seat))
         /\ Cardinality(OwnSlots(m, side, seat)) \in Nat
         /\ OwnSlots(m, side, seat) \subseteq LiveSlots(m, side)
         /\ OwnSlots(m, side, seat) \subseteq Slots
<1>1. OwnSlots(m, side, seat) \subseteq Slots /\ OwnSlots(m, side, seat) \subseteq LiveSlots(m, side)
  BY DEF OwnSlots, LiveSlots
<1>2. IsFiniteSet(Slots)
  BY FS_Interval DEF Slots
<1> QED BY <1>1, <1>2, FS_Subset, FS_CardinalityType

(* Each order of the seat has its place in the queue. *)
LEMMA QueueFacts ==
  ASSUME NEW m, WellFormed(m), NEW side \in Sides, NEW seat
  PROVE  LET own == OwnSlots(m, side, seat)
             queue == Queue(m, side, seat)
         IN  /\ queue \in [1 .. Cardinality(own) -> own]
             /\ \A h \in own : \E i \in 1 .. Cardinality(own) : queue[i] = h
<1> DEFINE own == OwnSlots(m, side, seat)
           n == Cardinality(own)
           queue == Queue(m, side, seat)
           before(h, k) == Precedes(side, m.book[side][h], m.book[side][k])
           preceding(h) == {k \in own : before(k, h)}
           ahead(h) == Cardinality(preceding(h))
           rank == [h \in own |-> ahead(h)]
<1>1. IsFiniteSet(own) /\ n \in Nat /\ own \subseteq LiveSlots(m, side)
  BY OwnFinite
<1>2. /\ \A h, k \in own : h # k => before(h, k) \/ before(k, h)
      /\ \A h \in own : ~ before(h, h)
      /\ \A h, k, l \in own : before(h, k) /\ before(k, l) => before(h, l)
  BY <1>1, PrecedesOrders
<1>3. queue = [i \in 1 .. n |-> CHOOSE h \in own : ahead(h) = i - 1]
  BY DEF Queue
<1> HIDE DEF own, n, before, queue
<1>4. ASSUME NEW h \in own
      PROVE  ahead(h) \in 0 .. n - 1 /\ IsFiniteSet(preceding(h))
  <2>1. preceding(h) \in SUBSET own /\ h \notin preceding(h)
    BY <1>2
  <2>2. IsFiniteSet(preceding(h)) /\ ahead(h) <= n /\ (n = ahead(h) => own = preceding(h))
    BY <1>1, <2>1, FS_Subset DEF n
  <2>3. ahead(h) \in Nat
    BY <2>2, FS_CardinalityType
  <2> HIDE DEF ahead, preceding
  <2>4. ahead(h) # n
    BY <2>1, <2>2
  <2> QED BY <1>1, <2>2, <2>3, <2>4
<1>5. ASSUME NEW h \in own, NEW k \in own, before(h, k)
      PROVE  ahead(h) # ahead(k)
  <2>1. preceding(h) \in SUBSET preceding(k) /\ h \in preceding(k) /\ h \notin preceding(h)
    BY <1>2, <1>5
  <2>2. IsFiniteSet(preceding(k))
    BY <1>4
  <2>3. Cardinality(preceding(k)) = Cardinality(preceding(h)) => preceding(k) = preceding(h)
    BY <2>1, <2>2, FS_Subset
  <2> QED BY <2>1, <2>3
<1>6. \A h, k \in own : ahead(h) = ahead(k) => h = k
  BY <1>2, <1>5
<1> HIDE DEF ahead
<1>7. rank \in Injection(own, 0 .. n - 1)
  <2>1. rank \in [own -> 0 .. n - 1]
    BY <1>4
  <2>2. \A h, k \in own : rank[h] = rank[k] => h = k
    BY <1>6
  <2> HIDE DEF rank
  <2> QED BY <2>1, <2>2 DEF Injection, IsInjective
<1>8. IsFiniteSet(0 .. n - 1) /\ Cardinality(0 .. n - 1) = n
  <2>1. 0 \in Int /\ n - 1 \in Int
    BY <1>1
  <2> DEFINE q == n - 1
  <2>2. IsFiniteSet(0 .. q) /\ Cardinality(0 .. q) = IF 0 > q THEN 0 ELSE q - 0 + 1
    BY <2>1, FS_Interval
  <2>3. (IF 0 > q THEN 0 ELSE q - 0 + 1) = n
    BY <1>1
  <2> QED BY <2>2, <2>3
<1>9. rank \in Surjection(own, 0 .. n - 1)
  BY <1>1, <1>7, <1>8, FS_Injection DEF n
<1>10. \A j \in 0 .. n - 1 : \E h \in own : ahead(h) = j
  BY <1>9 DEF Surjection
<1>11. \A i \in 1 .. n : i - 1 \in 0 .. n - 1
  BY <1>1
<1>12. ASSUME NEW i \in 1 .. n
       PROVE  (CHOOSE h \in own : ahead(h) = i - 1) \in own
  BY <1>10, <1>11
<1>13. queue \in [1 .. n -> own]
  BY <1>3, <1>12
<1>14. ASSUME NEW h \in own
       PROVE  \E i \in 1 .. n : queue[i] = h
  <2>1. ahead(h) + 1 \in 1 .. n /\ (ahead(h) + 1) - 1 = ahead(h)
    <3> DEFINE a == ahead(h)
    <3>1. a \in 0 .. n - 1
      BY <1>4
    <3> HIDE DEF a
    <3>2. a + 1 \in 1 .. n /\ (a + 1) - 1 = a
      BY <1>1, <3>1
    <3> QED BY <3>2 DEF a
  <2>2. queue[ahead(h) + 1] = CHOOSE k \in own : ahead(k) = (ahead(h) + 1) - 1
    BY <1>3, <2>1
  <2>3. (CHOOSE k \in own : ahead(k) = ahead(h)) = h
    BY <1>6
  <2> QED BY <2>1, <2>2, <2>3
<1> QED BY <1>13, <1>14 DEF own, n, queue

OwnQuote == [side : Sides, seq : Nat, price : Nat, size : Nat]

LEMMA OwnedFacts ==
  ASSUME NEW m, WellFormed(m), NEW seat
  PROVE  LET resting == OwnedBy(m, seat)
         IN  /\ resting \in Seq(OwnQuote)
             /\ \A side \in Sides : \A h \in OwnSlots(m, side, seat) :
                  \E i \in 1 .. Len(resting) :
                    IdOf(resting[i]) = [side |-> side, seq |-> m.book[side][h].seq]
<1> DEFINE quote(side, o) == [side |-> side, seq |-> o.seq, price |-> o.price, size |-> o.size]
           own(side) == OwnSlots(m, side, seat)
           queue(side) == Queue(m, side, seat)
           mine(side) == [i \in DOMAIN queue(side) |-> quote(side, m.book[side][queue(side)[i]])]
           s == mine("Bid")
           t == mine("Ask")
           p == Cardinality(own("Bid"))
           q == Cardinality(own("Ask"))
<1>1. ASSUME NEW side \in Sides
      PROVE  /\ mine(side) \in [1 .. Cardinality(own(side)) -> OwnQuote]
             /\ \A h \in own(side) : \E i \in 1 .. Cardinality(own(side)) :
                  mine(side)[i].side = side /\ mine(side)[i].seq = m.book[side][h].seq
  <2>1. /\ queue(side) \in [1 .. Cardinality(own(side)) -> own(side)]
        /\ \A h \in own(side) : \E i \in 1 .. Cardinality(own(side)) : queue(side)[i] = h
    BY QueueFacts
  <2>2. \A h \in own(side) : quote(side, m.book[side][h]) \in OwnQuote
    <3> SUFFICES ASSUME NEW h \in own(side) PROVE quote(side, m.book[side][h]) \in OwnQuote
      OBVIOUS
    <3>1. m.book[side][h] \in Order
      BY OwnFinite, MarketFields DEF WellFormed
    <3>2. /\ m.book[side][h].price \in Nat /\ m.book[side][h].size \in Nat
          /\ m.book[side][h].seq \in Nat
      BY <3>1, OrderFields
    <3> QED BY <3>2 DEF OwnQuote
  <2> HIDE DEF queue, own
  <2> QED BY <2>1, <2>2
<1>2. p \in Nat /\ q \in Nat
  BY OwnFinite
<1>3. OwnedBy(m, seat) = s \o t
  BY DEF OwnedBy
<1>4. /\ s \in [1 .. p -> OwnQuote] /\ t \in [1 .. q -> OwnQuote]
      /\ \A h \in own("Bid") : \E i \in 1 .. p : s[i].side = "Bid" /\ s[i].seq = m.book["Bid"][h].seq
      /\ \A h \in own("Ask") : \E i \in 1 .. q : t[i].side = "Ask" /\ t[i].seq = m.book["Ask"][h].seq
  <2> HIDE DEF mine, own
  <2> QED BY <1>1 DEF Sides
<1> HIDE DEF s, t, p, q, mine
<1>5. s \in Seq(OwnQuote) /\ Len(s) = p /\ t \in Seq(OwnQuote) /\ Len(t) = q
  <2>1. s \in [1 .. p -> OwnQuote] /\ t \in [1 .. q -> OwnQuote]
    BY <1>4
  <2> QED BY ONLY <1>2, <2>1, SequenceOf
<1>6. /\ s \o t \in Seq(OwnQuote)
      /\ \A i \in 1 .. p : (s \o t)[i] = s[i]
      /\ \A i \in p + 1 .. p + q : (s \o t)[i] = t[i - p]
  BY ONLY <1>2, <1>5, Concatenated
<1>7. Len(s \o t) = p + q
  BY ONLY <1>5, ConcatLength
<1>8. /\ \A i \in 1 .. p : i \in 1 .. p + q
      /\ \A i \in 1 .. q : p + i \in 1 .. p + q /\ p + i \in p + 1 .. p + q /\ (p + i) - p = i
  BY <1>2
<1>9. ASSUME NEW side \in Sides, NEW h \in own(side)
      PROVE  \E i \in 1 .. p + q : /\ (s \o t)[i].side = side
                                   /\ (s \o t)[i].seq = m.book[side][h].seq
  <2>1. CASE side = "Bid"
    <3> HIDE DEF own
    <3>1. PICK i \in 1 .. p : s[i].side = "Bid" /\ s[i].seq = m.book["Bid"][h].seq
      BY <1>4, <2>1
    <3> QED BY <1>6, <1>8, <2>1, <3>1
  <2>2. CASE side = "Ask"
    <3> HIDE DEF own
    <3>1. PICK i \in 1 .. q : t[i].side = "Ask" /\ t[i].seq = m.book["Ask"][h].seq
      BY <1>4, <2>2
    <3>2. (s \o t)[p + i] = t[i]
      BY <1>6, <1>8
    <3> QED BY <1>8, <2>2, <3>1, <3>2
  <2> QED BY <2>1, <2>2 DEF Sides
<1>10. ASSUME NEW side \in Sides, NEW h \in own(side)
       PROVE  \E i \in 1 .. p + q :
                IdOf((s \o t)[i]) = [side |-> side, seq |-> m.book[side][h].seq]
  <2>1. PICK i \in 1 .. p + q : /\ (s \o t)[i].side = side
                                /\ (s \o t)[i].seq = m.book[side][h].seq
    BY <1>9
  <2>2. IdOf((s \o t)[i]) = [side |-> side, seq |-> m.book[side][h].seq]
    BY <2>1 DEF IdOf
  <2> QED BY <2>2
<1>11. \A side \in Sides : \A h \in own(side) :
         \E i \in 1 .. Len(s \o t) :
           IdOf((s \o t)[i]) = [side |-> side, seq |-> m.book[side][h].seq]
  BY <1>7, <1>10
<1>12. s \o t \in Seq(OwnQuote)
  BY ONLY <1>6
<1> QED BY <1>3, <1>11, <1>12

-----------------------------------------------------------------------------
(* The transaction of a cycle, on the account the cycle read. *)

LEMMA RefreshFacts ==
  ASSUME NEW m, Sound(m), Seat \in Seats
  PROVE  LET tx == Refresh(m)
         IN  /\ tx \in Transaction /\ tx.kind = "Refresh"
             /\ tx.places = Ladder(m, Seat)
             /\ \A side \in Sides : \A h \in OwnSlots(m, side, Seat) :
                  [side |-> side, seq |-> m.book[side][h].seq] \in Named(tx)
<1> DEFINE resting == OwnedBy(m, Seat)
           tx == Refresh(m)
           ids == [i \in DOMAIN resting |-> IdOf(resting[i])]
           ops == Operations(tx)
           n == Len(resting)
<1>1. WellFormed(m) /\ m \in MarketType
  BY DEF Sound, WellFormed
<1>2. /\ resting \in Seq(OwnQuote)
      /\ \A side \in Sides : \A h \in OwnSlots(m, side, Seat) :
           \E i \in 1 .. n : IdOf(resting[i]) = [side |-> side, seq |-> m.book[side][h].seq]
  BY <1>1, OwnedFacts
<1>3. /\ tx = [kind |-> "Refresh", cancels |-> ids, places |-> Ladder(m, Seat)]
      /\ tx.kind = "Refresh" /\ tx.cancels = ids /\ tx.places = Ladder(m, Seat)
  BY DEF Refresh, Desired
<1> HIDE DEF resting, tx
<1>4. n \in Nat /\ DOMAIN resting = 1 .. n /\ \A i \in 1 .. n : resting[i] \in OwnQuote
  BY <1>2
<1>5. ids \in Seq(IdType) /\ Len(ids) = n
  <2>1. ids \in [1 .. n -> IdType]
    BY <1>4 DEF IdOf, IdType, OwnQuote
  <2> HIDE DEF ids
  <2> QED BY <1>4, <2>1, SequenceOf
<1>6. \A i \in 1 .. n : ids[i] = IdOf(resting[i])
  BY <1>4
<1> HIDE DEF ids
<1>7. Ladder(m, Seat) \in Seq(QuoteType)
  BY <1>1, LadderFacts DEF IsLadder
<1>8. tx \in Transaction
  BY <1>3, <1>5, <1>7 DEF Transaction
<1>9. /\ Len(ops) \in Nat /\ n <= Len(ops)
      /\ \A i \in 1 .. n : ops[i].kind = "Cancel" /\ ops[i].id = ids[i]
  <2>1. /\ Len(tx.places) \in Nat /\ Len(ops) = n + Len(tx.places)
        /\ \A i \in 1 .. n : ops[i] = [kind |-> "Cancel", id |-> ids[i]]
    BY <1>3, <1>5, <1>8, RefreshOperations
  <2> HIDE DEF ops
  <2>2. Len(ops) \in Nat /\ n <= Len(ops)
    BY <1>4, <2>1
  <2>3. \A i \in 1 .. n : ops[i].kind = "Cancel" /\ ops[i].id = ids[i]
    <3> SUFFICES ASSUME NEW i \in 1 .. n PROVE ops[i].kind = "Cancel" /\ ops[i].id = ids[i]
      OBVIOUS
    <3>1. ops[i] = [kind |-> "Cancel", id |-> ids[i]]
      BY <2>1
    <3> QED BY <3>1
  <2> QED BY <2>2, <2>3
<1> HIDE DEF ops
<1>10. ASSUME NEW side \in Sides, NEW h \in OwnSlots(m, side, Seat)
       PROVE  [side |-> side, seq |-> m.book[side][h].seq] \in NamedAfter(ops, 0)
  <2>1. PICK i \in 1 .. n : ids[i] = [side |-> side, seq |-> m.book[side][h].seq]
    BY <1>2, <1>6
  <2>2. ops[i].kind = "Cancel" /\ ops[i].id = ids[i]
    BY <1>9
  <2>3. i \in 0 + 1 .. Len(ops)
    <3> DEFINE l == Len(ops)
    <3>1. l \in Nat /\ n <= l
      BY <1>9
    <3> HIDE DEF l, n
    <3>2. i \in 0 + 1 .. l
      BY <1>4, <3>1 DEF n
    <3> QED BY <3>2 DEF l
  <2> QED BY <2>1, <2>2, <2>3 DEF NamedAfter
<1> QED BY <1>3, <1>8, <1>10 DEF Named, tx, ops

LEMMA RefreshCancelsAll ==
  ASSUME NEW m, Sound(m), Seat \in Seats, NEW d \in Sides, NEW w
  PROVE  Rests(m, d, Seat, Named(Refresh(m)), w) = 0
<1> DEFINE X == Named(Refresh(m))
<1>1. \A h \in OwnSlots(m, d, Seat) : [side |-> d, seq |-> m.book[d][h].seq] \in X
  BY RefreshFacts
<1> HIDE DEF X
<1>2. \A h \in Slots : m.book[d][h].seat = Seat => h \in OwnSlots(m, d, Seat)
  BY DEF OwnSlots, LiveSlots, Live, NoSeat, Seats
<1>3. \A h \in 1 .. BookCapacity : Standing(m, d, Seat, X, w)[h] = 0
  BY <1>1, <1>2 DEF Standing, Slots
<1>4. Rests(m, d, Seat, X, w) = 0
  BY <1>3, SumZero DEF Rests
<1> QED BY <1>4 DEF X

(* What a refresh puts on a side: at most a full side, and nothing where   *)
(* the inventory does not let it quote.                                    *)
LEMMA RefreshPlaces ==
  ASSUME NEW m, Sound(m), Seat \in Seats, NEW d \in Sides, NEW w \in Measures
  PROVE  /\ PlacesOn(Refresh(m), d, w) <= Side(w)
         /\ ~ MayQuote(Deviation(m.state[Seat]), d) => PlacesOn(Refresh(m), d, w) = 0
<1> DEFINE tx == Refresh(m)
           ops == Operations(tx)
           n == Len(tx.cancels)
           N == Len(ops)
<1>1. /\ tx \in Transaction /\ tx.kind = "Refresh" /\ tx.places = Ladder(m, Seat)
      /\ m \in MarketType
  BY RefreshFacts DEF Sound, WellFormed
<1>2. PICK bids, asks \in 0 .. Levels : IsLadder(tx.places, m, Seat, bids, asks)
  BY <1>1, LadderFacts
<1> HIDE DEF tx
<1> DEFINE a == IF d = "Bid" THEN n ELSE n + bids
           b == IF d = "Bid" THEN n + bids ELSE n + bids + asks
           f == Adding(ops, d, w)
<1>3. Len(tx.places) = bids + asks
  BY <1>2 DEF IsLadder
<1>4. /\ Steps(ops) /\ n \in Nat /\ N = n + bids + asks
      /\ \A i \in 1 .. n : ops[i] = [kind |-> "Cancel", id |-> tx.cancels[i]]
      /\ \A i \in n + 1 .. N : ops[i] = [kind |-> "Place", quote |-> tx.places[i - n]]
  <2>1. /\ Steps(ops) /\ n \in Nat /\ N = n + Len(tx.places)
        /\ \A i \in 1 .. n : ops[i] = [kind |-> "Cancel", id |-> tx.cancels[i]]
        /\ \A i \in n + 1 .. n + Len(tx.places) :
             ops[i] = [kind |-> "Place", quote |-> tx.places[i - n]]
    BY <1>1, RefreshOperations
  <2> HIDE DEF n, N, ops
  <2>2. N = n + bids + asks
    BY <1>3, <2>1
  <2> QED BY <2>1, <2>2
<1>5. bids \in Nat /\ asks \in Nat /\ Rung(w) \in Nat
  BY RungFacts
<1>6. /\ \A i \in 1 .. bids : tx.places[i].side = "Bid" /\ tx.places[i].size = LevelSize
      /\ \A i \in bids + 1 .. bids + asks :
           tx.places[i].side = "Ask" /\ tx.places[i].size = LevelSize
  <2>1. /\ \A i \in 1 .. bids : tx.places[i] = RungAt("Bid", Centre(m, Seat), i)
        /\ \A i \in bids + 1 .. bids + asks :
             tx.places[i] = RungAt("Ask", Centre(m, Seat), i - bids)
    BY <1>2 DEF IsLadder
  <2>2. \A side, centre, i : RungAt(side, centre, i).side = side
                              /\ RungAt(side, centre, i).size = LevelSize
    BY DEF RungAt
  <2> QED BY <2>1, <2>2
<1>7. DOMAIN ops = 1 .. N
  BY <1>4 DEF Steps
<1> HIDE DEF n, N, ops
<1>8. d = "Bid" \/ d = "Ask"
  BY DEF Sides
<1>9. \A i \in 1 .. N : f[i] = IF a < i /\ i <= b THEN Rung(w) ELSE 0
  <2> SUFFICES ASSUME NEW i \in 1 .. N
               PROVE  f[i] = IF a < i /\ i <= b THEN Rung(w) ELSE 0
    OBVIOUS
  <2>1. f[i] = AddedBy(ops[i], d, w)
    BY <1>7 DEF Adding
  <2>2. CASE i <= n
    <3>1. ops[i].kind = "Cancel"
      <4>1. i \in 1 .. n
        BY <1>4, <2>2
      <4>2. ops[i] = [kind |-> "Cancel", id |-> tx.cancels[i]]
        BY <1>4, <4>1
      <4> QED BY <4>2
    <3>2. f[i] = 0
      BY <2>1, <3>1 DEF AddedBy
    <3>3. ~ (a < i /\ i <= b)
      BY <1>4, <1>5, <2>2
    <3> QED BY <3>2, <3>3
  <2>3. CASE n < i
    <3> DEFINE j == i - n
    <3>1. i \in n + 1 .. N /\ j \in 1 .. bids + asks
      BY <1>4, <1>5, <2>3
    <3>2. ops[i] = [kind |-> "Place", quote |-> tx.places[j]]
      BY <1>4, <3>1
    <3>3. ops[i].kind = "Place" /\ ops[i].quote = tx.places[j]
      BY <3>2
    <3>4. tx.places[j].size = LevelSize
      BY <1>5, <1>6, <3>1
    <3>5. tx.places[j].side = d <=> a < i /\ i <= b
      <4>1. CASE j <= bids
        <5>1. tx.places[j].side = "Bid"
          BY <1>6, <3>1, <4>1
        <5> QED BY <1>4, <1>5, <1>8, <2>3, <4>1, <5>1
      <4>2. CASE j > bids
        <5>1. tx.places[j].side = "Ask"
          BY <1>5, <1>6, <3>1, <4>2
        <5> QED BY <1>4, <1>5, <1>8, <2>3, <4>2, <5>1
      <4> QED BY <1>5, <3>1, <4>1, <4>2
    <3>6. Weight(w, tx.places[j]) = Rung(w)
      BY <3>4 DEF Weight, Rung
    <3> HIDE DEF j, a, b
    <3> QED BY <2>1, <3>3, <3>5, <3>6 DEF AddedBy
  <2> QED BY <1>4, <2>2, <2>3
<1>10. N \in Nat /\ a \in 0 .. N /\ b \in a .. N /\ b - a = IF d = "Bid" THEN bids ELSE asks
  BY <1>4, <1>5, <1>8
<1> HIDE DEF f, a, b
<1>11. SumTo(f, N) = (b - a) * Rung(w)
  <2> DEFINE u == Rung(w)
  <2>1. IsStretch(f, N, a, b, u)
    BY <1>5, <1>9, <1>10 DEF IsStretch
  <2> DEFINE total == (b - a) * u
  <2>2. total = (b - a) * u
    OBVIOUS
  <2> HIDE DEF u, total
  <2>3. SumTo(f, N) = total
    BY <2>1, <2>2, SumStretch
  <2> QED BY <2>3 DEF u, total
<1>12. b - a \in Nat /\ b - a <= Levels /\ Levels \in Nat
  BY <1>10
<1>13. (b - a) * Rung(w) <= Levels * Rung(w)
  BY <1>5, <1>12, ProductMonotone
<1>14. PlacesOn(tx, d, w) = SumTo(f, N)
  BY DEF PlacesOn, Adds, f, N, ops
<1>15. ~ MayQuote(Deviation(m.state[Seat]), d) => b - a = 0
  BY <1>2, <1>8, <1>10 DEF IsLadder
<1>16. b - a = 0 => (b - a) * Rung(w) = 0
  <2> DEFINE r == Rung(w)
             c == b - a
  <2>1. r \in Nat
    BY <1>5
  <2> HIDE DEF r, c
  <2>2. c = 0 => c * r = 0
    BY <2>1
  <2> QED BY <2>2 DEF r, c
<1> QED BY <1>11, <1>13, <1>14, <1>15, <1>16 DEF Side, tx

-----------------------------------------------------------------------------
(* The transactions nobody waits for. *)

LEMMA LateNat ==
  ASSUME NEW txs \in [1 .. MaxLostReplies -> Transaction], NEW d, NEW w
  PROVE  LateSum(txs, d, w) \in Nat
<1> DEFINE f == [i \in 1 .. MaxLostReplies |-> PlacesOn(txs[i], d, w)]
<1>1. \A i \in 1 .. MaxLostReplies : f[i] \in Nat
  BY PlacesNat
<1> HIDE DEF f
<1>2. SumTo(f, MaxLostReplies) \in Nat
  BY <1>1, SumNat
<1> QED BY <1>2 DEF LateSum, f

(* One of them changes. *)
LEMMA LateChanges ==
  ASSUME NEW txs \in [1 .. MaxLostReplies -> Transaction], NEW i \in 1 .. MaxLostReplies,
         NEW tx \in Transaction, NEW d, NEW w,
         NEW total, total = LateSum(txs, d, w) + PlacesOn(tx, d, w) - PlacesOn(txs[i], d, w)
  PROVE  LateSum([txs EXCEPT ![i] = tx], d, w) = total
<1> DEFINE new == [txs EXCEPT ![i] = tx]
           f == [j \in 1 .. MaxLostReplies |-> PlacesOn(txs[j], d, w)]
           e == [j \in 1 .. MaxLostReplies |-> PlacesOn(new[j], d, w)]
<1>1. \A j \in 1 .. MaxLostReplies : f[j] \in Int
  BY PlacesNat
<1>2. e[i] = PlacesOn(tx, d, w) /\ f[i] = PlacesOn(txs[i], d, w)
  OBVIOUS
<1>3. e[i] \in Int
  BY <1>2, PlacesNat
<1>4. \A j \in 1 .. MaxLostReplies : j # i => e[j] = f[j]
  OBVIOUS
<1> HIDE DEF e, f
<1>5. SumTo(e, MaxLostReplies) = SumTo(f, MaxLostReplies) + e[i] - f[i]
  <2>1. MaxLostReplies \in Nat
    BY DEF BotAssumption
  <2> QED BY ONLY i \in 1 .. MaxLostReplies, <1>1, <1>3, <1>4, <2>1, SumUpdate
<1>6. LateSum(txs, d, w) = SumTo(f, MaxLostReplies) /\ LateSum(new, d, w) = SumTo(e, MaxLostReplies)
  BY DEF LateSum, e, f
<1> HIDE DEF new
<1>7. LateSum(new, d, w) = total
  BY <1>2, <1>5, <1>6
<1> QED BY <1>7 DEF new

LEMMA NothingPlaced ==
  ASSUME NEW tx \in Transaction, tx.kind # "Refresh", NEW d, NEW w
  PROVE  PlacesOn(tx, d, w) = 0
<1> DEFINE ops == Operations(tx)
           f == Adding(ops, d, w)
<1>1. /\ Steps(ops)
      /\ \A i \in 1 .. Len(ops) : ops[i].kind # "Place"
  <2>1. CASE tx.kind = "None"
    <3>1. Steps(ops) /\ Len(ops) = 0
      BY <2>1, NoOperations
    <3> QED BY <3>1
  <2>2. CASE tx.kind = "Withdraw"
    <3>1. /\ Steps(ops) /\ Len(ops) = ShutdownCancelLimit + ShutdownCancelLimit
          /\ \A i \in 1 .. ShutdownCancelLimit + ShutdownCancelLimit : ops[i].kind = "Sweep"
      BY <2>2, WithdrawOperations
    <3> QED BY <3>1
  <2> QED BY <2>1, <2>2 DEF Transaction
<1> HIDE DEF ops
<1>2. Len(ops) \in Nat /\ \A i \in 1 .. Len(ops) : f[i] = 0
  BY <1>1 DEF Steps, Adding, AddedBy
<1> HIDE DEF f
<1>3. SumTo(f, Len(ops)) = 0
  BY <1>2, SumZero
<1> QED BY <1>3 DEF PlacesOn, Adds, f, ops

LEMMA NoTransactionFacts ==
  /\ NoTransaction \in Transaction
  /\ \A d, w : PlacesOn(NoTransaction, d, w) = 0
<1>1. NoTransaction \in Transaction /\ NoTransaction.kind # "Refresh"
  <2>1. <<>> \in Seq(IdType) /\ <<>> \in Seq(QuoteType)
    OBVIOUS
  <2> QED BY <2>1 DEF NoTransaction, Transaction
<1> QED BY <1>1, NothingPlaced

-----------------------------------------------------------------------------
(* What the invariant says of the market and its seats. *)

LEMMA Basics ==
  ASSUME BotInv
  PROVE  /\ Sound(market) /\ WellFormed(market) /\ Balanced(market) /\ market \in MarketType
         /\ Seat \in Seats /\ SeatLive(market, Seat)
         /\ \A t \in Others : /\ SeatOf(t) \in Seats /\ SeatLive(market, SeatOf(t))
                              /\ SeatOf(t) # Seat
<1>1. Sound(market) /\ WellFormed(market) /\ Balanced(market) /\ market \in MarketType
  BY DEF BotInv, Sound, WellFormed
<1>2. \A t \in Traders : SeatOf(t) \in Seats /\ SeatLive(market, SeatOf(t))
  BY DEF BotInv, AllSeated, SeatOf, SeatLive
<1>3. \A t \in Others : t \in Traders /\ SeatOf(t) # Seat
  <2> SUFFICES ASSUME NEW t \in Others PROVE t \in Traders /\ SeatOf(t) # Seat
    OBVIOUS
  <2>1. t \in Traders /\ t # Wallet
    BY DEF Others
  <2>2. SeatOf(t) # 0
    BY <1>2, <2>1 DEF Seats
  <2> QED BY <1>1, <2>1, <2>2 DEF Balanced, SeatsDistinct, Seat, SeatOf, NoSeat
<1> QED BY <1>1, <1>2, <1>3 DEF Seat

(* Holdings stay where they are through the bot's own transactions. *)
LEMMA SameLong ==
  ASSUME NEW m, NEW n, SameHoldings(m, n), NEW s \in Seats
  PROVE  Deviation(n.state[s]) = Deviation(m.state[s])
BY DEF SameHoldings, Holding, Deviation

-----------------------------------------------------------------------------
(* What a fill does to a seat that is not the taker's. *)

(* What is left of the order it takes from. *)
Left(m, k) ==
  IF Maker(m, k).size = FillSize(m, k)
  THEN NoOrder
  ELSE [Maker(m, k) EXCEPT !.size = @ - FillSize(m, k)]

Fillable(m, k) ==
  /\ k \in Taker /\ k.seat \in Seats /\ SeatLive(m, k.seat)
  /\ Reaches(m, k) /\ ~ IsSelfTrade(m, k) /\ CanSettle(m, k)
  /\ k.remaining + k.filled <= U64Max

LEMMA FillSound ==
  ASSUME NEW m, Sound(m), NEW k, Fillable(m, k)
  PROVE  Sound(Fill(m, k)) /\ Fill(m, k).seat_of = m.seat_of
BY FillFacts, FillBalanced DEF Fillable, Sound, Keeps

LEMMA FillEffect ==
  ASSUME NEW m, Sound(m), NEW k, Fillable(m, k)
  PROVE  LET n == Fill(m, k)
         IN  /\ \A s \in Seats : s # k.seat =>
                  n.state[s] = IF s = Maker(m, k).seat THEN MakerSettled(m, k) ELSE m.state[s]
             /\ \A d \in Sides : \A h \in Slots :
                  n.book[d][h] = IF d = MakerSide(k) /\ h = MakerSlot(m, k)
                                 THEN Left(m, k) ELSE m.book[d][h]
<1> DEFINE side == MakerSide(k)
           h0 == MakerSlot(m, k)
           maker == Maker(m, k).seat
           ms == MakerSettled(m, k)
           ts == TakerSettled(m, k)
           st == [m.state EXCEPT ![maker] = ms, ![k.seat] = ts]
           uf == m.unclaimed_fees + Fee(m, k)
           cf == m.collected_fees + Fee(m, k)
           left == Left(m, k)
           b == [m.book EXCEPT ![side][h0] = left]
           n == Fill(m, k)
<1>1. /\ m \in MarketType /\ WellFormed(m) /\ k \in Taker /\ Reaches(m, k)
      /\ LiveSlots(m, MakerSide(k)) # {}
  BY DEF Sound, WellFormed, Fillable, Reaches
<1>2. /\ side \in Sides /\ h0 \in LiveSlots(m, side)
      /\ Maker(m, k) \in Order /\ maker \in Seats /\ Maker(m, k).size \in Nat
  BY <1>1, MakerFacts
<1>3. h0 \in Slots /\ m.book[side][h0] = Maker(m, k)
  BY <1>2 DEF LiveSlots, Maker
<1>4. FillSize(m, k) \in Nat /\ FillSize(m, k) <= Maker(m, k).size
  BY <1>1, FillAmounts
<1>5. left \in Order
  BY <1>2, <1>4 DEF Left, Order, NoOrder, U64, NoSeat
<1>6. \A d \in Sides : \A h \in Slots :
        b[d][h] = IF d = side /\ h = h0 THEN left ELSE m.book[d][h]
  BY <1>1, <1>2, <1>3, <1>5, BookUpdate
<1>7. n = [m EXCEPT !.state = st, !.unclaimed_fees = uf, !.collected_fees = cf, !.book = b]
  BY <1>1, <1>3 DEF Fill, Shrink, MarketType, Left, Maker
<1>8. \A s \in Seats : s # k.seat => st[s] = IF s = maker THEN ms ELSE m.state[s]
  BY <1>1, <1>2 DEF MarketType
<1> HIDE DEF st, b, uf, cf, n
<1>9. n.state = st /\ n.book = b
  BY <1>1, <1>7 DEF MarketType
<1> HIDE DEF side, h0, left, ms, maker
<1> QED BY <1>6, <1>8, <1>9 DEF n, side, h0, left, ms, maker

LEMMA FillRests ==
  ASSUME NEW m, Sound(m), NEW k, Fillable(m, k), NEW s \in Seats, s # k.seat,
         NEW d \in Sides, NEW X, NEW w
  PROVE  Rests(Fill(m, k), d, s, X, w) <= Rests(m, d, s, X, w)
<1> DEFINE n == Fill(m, k)
<1>1. m \in MarketType /\ n \in MarketType /\ WellFormed(m)
  BY FillSound DEF Sound, WellFormed
<1>2. /\ k \in Taker /\ Reaches(m, k) /\ LiveSlots(m, MakerSide(k)) # {}
  BY DEF Fillable, Reaches
<1>3. /\ MakerSide(k) \in Sides /\ MakerSlot(m, k) \in Slots /\ Maker(m, k) \in Order
      /\ Maker(m, k).size \in Nat
      /\ m.book[MakerSide(k)][MakerSlot(m, k)] = Maker(m, k)
  BY <1>1, <1>2, MakerFacts DEF LiveSlots, Maker
<1>4. FillSize(m, k) \in Nat /\ FillSize(m, k) <= Maker(m, k).size
  BY <1>1, <1>2, FillAmounts
<1>5. \A h \in Slots : n.book[d][h] = IF d = MakerSide(k) /\ h = MakerSlot(m, k)
                                      THEN Left(m, k) ELSE m.book[d][h]
  BY FillEffect
<1>6. \/ Left(m, k).seat # s
      \/ /\ Left(m, k).seat = Maker(m, k).seat /\ Left(m, k).seq = Maker(m, k).seq
         /\ Left(m, k).size = Maker(m, k).size - FillSize(m, k)
  BY <1>3 DEF Left, NoOrder, NoSeat, Seats, Order
<1>7. \A h \in Slots : Standing(m, d, s, X, w)[h] \in Nat
  BY <1>1, StandingNat
<1> HIDE DEF n
<1>8. ASSUME NEW h \in Slots
      PROVE  Standing(n, d, s, X, w)[h] <= Standing(m, d, s, X, w)[h]
  <2>1. CASE d = MakerSide(k) /\ h = MakerSlot(m, k)
    <3>1. n.book[d][h] = Left(m, k) /\ m.book[d][h] = Maker(m, k)
      BY <1>3, <1>5, <2>1
    <3>2. CASE Left(m, k).seat # s
      <4>1. Standing(n, d, s, X, w)[h] = 0
        BY <3>1, <3>2 DEF Standing
      <4> QED BY <4>1, <1>7
    <3>3. CASE /\ Left(m, k).seat = Maker(m, k).seat /\ Left(m, k).seq = Maker(m, k).seq
               /\ Left(m, k).size = Maker(m, k).size - FillSize(m, k)
      BY <1>3, <1>4, <3>1, <3>3 DEF Standing, Weight
    <3> QED BY <1>6, <3>2, <3>3
  <2>2. CASE ~ (d = MakerSide(k) /\ h = MakerSlot(m, k))
    <3>1. n.book[d][h] = m.book[d][h]
      BY <1>5, <2>2
    <3>2. Standing(n, d, s, X, w)[h] = Standing(m, d, s, X, w)[h]
      BY <3>1 DEF Standing
    <3> QED BY <1>7, <3>2
  <2> QED BY <2>1, <2>2
<1> QED BY <1>1, <1>8, RestsMonotone DEF n

LEMMA FillMoves ==
  ASSUME NEW m, Sound(m), NEW k, Fillable(m, k), NEW s \in Seats, s # k.seat, NEW d \in Sides
  PROVE  LongIn(Fill(m, k), s, d) + Rests(Fill(m, k), d, s, {}, "lots")
           <= LongIn(m, s, d) + Rests(m, d, s, {}, "lots")
<1> DEFINE n == Fill(m, k)
           side == MakerSide(k)
           h0 == MakerSlot(m, k)
           maker == Maker(m, k)
           size == FillSize(m, k)
           f == Standing(m, d, s, {}, "lots")
           e == Standing(n, d, s, {}, "lots")
           r == Rests(m, d, s, {}, "lots")
           r1 == Rests(n, d, s, {}, "lots")
           l == LongIn(m, s, d)
           l1 == LongIn(n, s, d)
<1>1. m \in MarketType /\ n \in MarketType /\ WellFormed(m)
  BY FillSound DEF Sound, WellFormed
<1>2. /\ k \in Taker /\ Reaches(m, k) /\ LiveSlots(m, MakerSide(k)) # {}
  BY DEF Fillable, Reaches
<1>3. /\ side \in Sides /\ h0 \in Slots /\ maker \in Order /\ maker.size \in Nat
      /\ m.book[side][h0] = maker
  BY <1>1, <1>2, MakerFacts DEF LiveSlots, Maker
<1>4. size \in Nat /\ size <= maker.size /\ k.side \in Sides
  BY <1>1, <1>2, FillAmounts
<1>5. /\ r \in Nat /\ r1 \in Nat
  BY <1>1, StandingNat
<1>6. r1 <= r
  BY FillRests
<1>7. n.state[s] = IF s = maker.seat THEN MakerSettled(m, k) ELSE m.state[s]
  BY FillEffect
<1>8. m.state[s] \in TraderState /\ n.state[s] \in TraderState
  BY <1>1, MarketFields
<1>9. l \in Int /\ l1 \in Int
  BY <1>8, StateFields DEF LongIn, Deviation, TotalBase
<1>10. CASE s # maker.seat
  <2>1. l1 = l
    BY <1>7, <1>10 DEF LongIn
  <2> HIDE DEF r, r1, l, l1
  <2>2. l1 + r1 <= l + r
    BY <1>5, <1>6, <1>9, <2>1
  <2> QED BY <2>2 DEF r, r1, l, l1, n
<1>11. CASE s = maker.seat
  <2>1. TotalBase(n.state[s]) =
          TotalBase(m.state[s]) + IF k.side = "Bid" THEN - size ELSE size
    BY <1>1, <1>2, <1>7, <1>11, MakerLeg DEF TotalBase
  <2>2. TotalBase(m.state[s]) \in Int
    BY <1>8, StateFields DEF TotalBase
  <2>3. CASE d = side
    <3>1. l1 = l + size
      <4>1. k.side = "Bid" <=> d # "Bid"
        BY <1>4, <2>3 DEF MakerSide, Opposite, Sides
      <4> HIDE DEF n, size
      <4> QED BY <1>4, <2>1, <2>2, <4>1 DEF LongIn, Deviation
    <3>2. n.book[d][h0] = Left(m, k) /\ \A h \in Slots : h # h0 => n.book[d][h] = m.book[d][h]
      BY <1>3, <2>3, FillEffect
    <3>3. f[h0] = maker.size
      BY <1>3, <1>11, <2>3 DEF Standing, Weight
    <3>4. e[h0] = maker.size - size
      <4>1. CASE maker.size = size
        <5>1. n.book[d][h0].seat # s
          BY <3>2, <4>1 DEF Left, NoOrder, NoSeat, Seats
        <5>2. e[h0] = 0
          BY <1>3, <5>1 DEF Standing
        <5> QED BY <1>3, <1>4, <4>1, <5>2
      <4>2. CASE maker.size # size
        <5>1. n.book[d][h0].seat = s /\ n.book[d][h0].size = maker.size - size
          BY <1>3, <1>11, <3>2, <4>2 DEF Left, Order
        <5> QED BY <1>3, <5>1 DEF Standing, Weight
      <4> QED BY <4>1, <4>2
    <3>5. \A h \in Slots : f[h] \in Int
      BY <1>1, StandingNat
    <3>6. \A h \in Slots : h # h0 => e[h] = f[h]
      BY <3>2 DEF Standing
    <3> HIDE DEF e, f
    <3>7. SumTo(e, BookCapacity) = SumTo(f, BookCapacity) + e[h0] - f[h0]
      <4>1. e[h0] \in Int
        BY <1>3, <1>4, <3>4
      <4> QED BY <1>3, <3>5, <3>6, <4>1, SumUpdate DEF Slots
    <3>8. r1 = r + e[h0] - f[h0]
      BY <3>7 DEF Rests, e, f
    <3> HIDE DEF r, r1, l, l1, n, size
    <3>9. l1 + r1 <= l + r
      BY <1>3, <1>4, <1>5, <1>9, <3>1, <3>3, <3>4, <3>8
    <3> QED BY <3>9 DEF r, r1, l, l1, n
  <2>4. CASE d # side
    <3>1. l1 = l - size
      <4>1. k.side = "Bid" <=> d = "Bid"
        BY <1>4, <2>4 DEF MakerSide, Opposite, Sides
      <4> HIDE DEF n, size
      <4> QED BY <1>4, <2>1, <2>2, <4>1 DEF LongIn, Deviation
    <3> HIDE DEF r, r1, l, l1, size
    <3>2. l1 + r1 <= l + r
      BY <1>4, <1>5, <1>6, <1>9, <3>1
    <3> QED BY <3>2 DEF r, r1, l, l1, n
  <2> QED BY <2>3, <2>4
<1> QED BY <1>10, <1>11

(* A step of the others brings the seat nothing: nothing more rests for    *)
(* it, and what it gains in position it has no longer resting.             *)
Recedes(m, n, seat) ==
  /\ Sound(n) /\ n.seat_of = m.seat_of
  /\ \A d \in Sides : \A X, w : Rests(n, d, seat, X, w) <= Rests(m, d, seat, X, w)
  /\ \A d \in Sides :
       LongIn(n, seat, d) + Rests(n, d, seat, {}, "lots")
         <= LongIn(m, seat, d) + Rests(m, d, seat, {}, "lots")

(* With the same holdings, the first of the two is enough. *)
LEMMA HoldingRecedes ==
  ASSUME NEW m, Sound(m), NEW n, Sound(n), SameHoldings(m, n), NEW seat \in Seats,
         \A d \in Sides : \A X, w : Rests(n, d, seat, X, w) <= Rests(m, d, seat, X, w)
  PROVE  Recedes(m, n, seat)
<1>1. m \in MarketType /\ n \in MarketType
  BY DEF Sound, WellFormed
<1>2. ASSUME NEW d \in Sides
      PROVE  LongIn(n, seat, d) + Rests(n, d, seat, {}, "lots")
               <= LongIn(m, seat, d) + Rests(m, d, seat, {}, "lots")
  <2>1. LongIn(n, seat, d) = LongIn(m, seat, d)
    BY SameLong DEF LongIn
  <2>2. LongIn(m, seat, d) \in Int
    BY <1>1, MarketFields, StateFields DEF LongIn, Deviation, TotalBase
  <2>3. Rests(n, d, seat, {}, "lots") \in Nat /\ Rests(m, d, seat, {}, "lots") \in Nat
    BY <1>1, StandingNat
  <2>4. Rests(n, d, seat, {}, "lots") <= Rests(m, d, seat, {}, "lots")
    OBVIOUS
  <2> QED BY <2>1, <2>2, <2>3, <2>4
<1>3. n.seat_of = m.seat_of
  BY DEF SameHoldings
<1> QED BY <1>2, <1>3 DEF Recedes

LEMMA CancelRecedes ==
  ASSUME NEW m, Sound(m), NEW side \in Sides, NEW h \in LiveSlots(m, side), NEW seat \in Seats
  PROVE  Recedes(m, CancelWhole(m, side, h), seat)
<1>1. Sound(CancelWhole(m, side, h)) /\ SameHoldings(m, CancelWhole(m, side, h))
  BY CancelFacts
<1>2. \A d \in Sides : \A X, w :
        Rests(CancelWhole(m, side, h), d, seat, X, w) <= Rests(m, d, seat, X, w)
  BY CancelRests
<1> QED BY <1>1, <1>2, HoldingRecedes

LEMMA PlaceRecedes ==
  ASSUME NEW m, Sound(m), NEW other \in Seats, SeatLive(m, other), NEW quote \in QuoteType,
         CanPlace(m, other, quote), NEW seat \in Seats, seat # other
  PROVE  Recedes(m, Place(m, other, quote), seat)
<1> DEFINE n == Place(m, other, quote)
<1>1. Sound(n) /\ SameHoldings(m, n)
  BY PlaceFacts
<1>2. PICK h \in Slots :
        /\ ~ Live(m.book[quote.side][h])
        /\ \A d \in Sides : \A k \in Slots :
             n.book[d][k] =
               IF d = quote.side /\ k = h
               THEN [price |-> quote.price, seq |-> m.next_seq,
                     seat |-> other, size |-> quote.size]
               ELSE m.book[d][k]
  BY PlaceFacts
<1> HIDE DEF n
<1>3. m \in MarketType /\ n \in MarketType
  BY <1>1 DEF Sound, WellFormed
<1>4. ASSUME NEW d \in Sides, NEW X, NEW w
      PROVE  Rests(n, d, seat, X, w) <= Rests(m, d, seat, X, w)
  <2>1. \A k \in Slots : Standing(m, d, seat, X, w)[k] \in Nat
    BY <1>3, StandingNat
  <2>2. ASSUME NEW k \in Slots
        PROVE  Standing(n, d, seat, X, w)[k] <= Standing(m, d, seat, X, w)[k]
    <3>1. CASE d = quote.side /\ k = h
      <4>1. n.book[d][k].seat # seat
        BY <1>2, <3>1
      <4>2. Standing(n, d, seat, X, w)[k] = 0
        BY <4>1 DEF Standing
      <4> QED BY <2>1, <4>2
    <3>2. CASE ~ (d = quote.side /\ k = h)
      <4>1. n.book[d][k] = m.book[d][k]
        BY <1>2, <3>2
      <4>2. Standing(n, d, seat, X, w)[k] = Standing(m, d, seat, X, w)[k]
        BY <4>1 DEF Standing
      <4> QED BY <2>1, <4>2
    <3> QED BY <3>1, <3>2
  <2> QED BY <1>3, <2>2, RestsMonotone
<1> QED BY <1>1, <1>4, HoldingRecedes DEF n

LEMMA FillRecedes ==
  ASSUME NEW m, Sound(m), NEW k, Fillable(m, k), NEW seat \in Seats, seat # k.seat
  PROVE  Recedes(m, Fill(m, k), seat)
<1>1. Sound(Fill(m, k)) /\ Fill(m, k).seat_of = m.seat_of
  BY FillSound
<1>2. \A d \in Sides : \A X, w : Rests(Fill(m, k), d, seat, X, w) <= Rests(m, d, seat, X, w)
  BY FillRests
<1>3. \A d \in Sides :
        LongIn(Fill(m, k), seat, d) + Rests(Fill(m, k), d, seat, {}, "lots")
          <= LongIn(m, seat, d) + Rests(m, d, seat, {}, "lots")
  BY FillMoves
<1> QED BY <1>1, <1>2, <1>3 DEF Recedes

LEMMA OtherMoves ==
  ASSUME BotInv, OtherQuotes \/ OtherCancels \/ OtherTakes
  PROVE  /\ Recedes(market, market', Seat)
         /\ moves' \in 0 .. MaxMoves
         /\ UNCHANGED <<phase, running, sent, late, report, lost>>
<1>1. /\ Sound(market) /\ market \in MarketType /\ Seat \in Seats
      /\ \A t \in Others : SeatOf(t) \in Seats /\ SeatLive(market, SeatOf(t)) /\ SeatOf(t) # Seat
  BY Basics
<1>2. moves \in 0 .. MaxMoves /\ MaxMoves \in Nat
  BY DEF BotInv, TypeOK
<1>3. ASSUME NEW m, Moves(m)
      PROVE  /\ market' = m /\ moves' \in 0 .. MaxMoves
             /\ UNCHANGED <<phase, running, sent, late, report, lost>>
  BY <1>2, <1>3 DEF Moves
<1>4. CASE OtherQuotes
  <2>1. PICK t \in Others, quote \in Quotes :
          CanPlace(market, SeatOf(t), quote) /\ Moves(Place(market, SeatOf(t), quote))
    BY <1>4 DEF OtherQuotes
  <2>2. quote \in QuoteType
    BY DEF QuoteType
  <2>3. Recedes(market, Place(market, SeatOf(t), quote), Seat)
    BY <1>1, <2>1, <2>2, PlaceRecedes
  <2> QED BY <1>3, <2>1, <2>3
<1>5. CASE OtherCancels
  <2>1. PICK t \in Others, side \in Sides : \E h \in OwnSlots(market, side, SeatOf(t)) :
          Moves(CancelWhole(market, side, h))
    BY <1>5 DEF OtherCancels
  <2>2. PICK h \in OwnSlots(market, side, SeatOf(t)) : Moves(CancelWhole(market, side, h))
    BY <2>1
  <2>3. h \in LiveSlots(market, side)
    BY DEF OwnSlots
  <2>4. Recedes(market, CancelWhole(market, side, h), Seat)
    BY <1>1, <2>3, CancelRecedes
  <2> QED BY <1>3, <2>2, <2>4
<1>6. CASE OtherTakes
  <2> DEFINE taker(t, side, size) ==
        [seat |-> SeatOf(t), side |-> side, limit |-> NoPrice,
         remaining |-> size, filled |-> 0, touched |-> 0,
         match_limit |-> 1, self_trade |-> "Abort"]
  <2>1. PICK t \in Others, side \in Sides, size \in TakeSizes :
          /\ Reaches(market, taker(t, side, size))
          /\ ~ IsSelfTrade(market, taker(t, side, size))
          /\ CanSettle(market, taker(t, side, size))
          /\ Moves(Fill(market, taker(t, side, size)))
    BY <1>6 DEF OtherTakes
  <2> DEFINE k == taker(t, side, size)
  <2>2. size \in U64 /\ size \in Nat /\ size <= U64Max
    BY DEF U64
  <2>3. k \in Taker /\ k.seat = SeatOf(t) /\ k.remaining + k.filled <= U64Max
    <3>1. SeatOf(t) \in 0 .. NumSeats /\ 0 \in U64
      BY <1>1 DEF Seats, U64
    <3> QED BY <2>2, <3>1 DEF Taker, SelfTradeBehaviors
  <2>4. Fillable(market, k)
    BY <1>1, <2>1, <2>3 DEF Fillable
  <2> HIDE DEF k
  <2>5. Recedes(market, Fill(market, k), Seat)
    BY <1>1, <2>3, <2>4, FillRecedes
  <2>6. Moves(Fill(market, k))
    BY <2>1 DEF k
  <2> QED BY <1>3, <2>5, <2>6
<1> QED BY <1>4, <1>5, <1>6

-----------------------------------------------------------------------------
(* The initial states. *)

IsFunded(state) ==
  /\ state \in TraderState
  /\ state.base_free = StartBase /\ state.base_locked = 0
  /\ state.quote_free = StartQuote /\ state.quote_locked = 0

LEMMA FundedState ==
  ASSUME StartBase \in U64, StartQuote \in U64
  PROVE  IsFunded([EmptyState EXCEPT !.base_free = StartBase, !.quote_free = StartQuote])
<1> DEFINE old == EmptyState
           state == [old EXCEPT !.base_free = StartBase, !.quote_free = StartQuote]
<1>1. 0 \in U64
  BY DEF U64
<1>2. old \in TraderState /\ old.base_locked = 0 /\ old.quote_locked = 0
  BY <1>1 DEF TraderState, EmptyState
<1> HIDE DEF old
<1>3. IsFunded(state)
  BY ONLY <1>2, StartBase \in U64, StartQuote \in U64 DEF TraderState, IsFunded, state
<1> QED BY <1>3 DEF old

LEMMA SeatedFacts ==
  ASSUME NEW seats \in Bijection(Traders, Seats)
  PROVE  LET m == Seated(seats)
         IN  /\ Sound(m) /\ AllSeated(m)
             /\ \A s \in Seats : TotalBase(m.state[s]) = StartBase
             /\ \A side \in Sides : \A h \in Slots : m.book[side][h] = NoOrder
<1> DEFINE m == Seated(seats)
           funded == [EmptyState EXCEPT !.base_free = StartBase, !.quote_free = StartQuote]
           bases == NumSeats * StartBase
           quotes == NumSeats * StartQuote
           st == [s \in Seats |-> funded]
           b == [side \in Sides |-> [h \in Slots |-> NoOrder]]
<1>1. /\ seats \in [Traders -> Seats]
      /\ \A t, u \in Traders : seats[t] = seats[u] => t = u
      /\ \A s \in Seats : \E t \in Traders : seats[t] = s
  BY DEF Bijection, Injection, Surjection, IsInjective
<1>2. bases \in U64 /\ quotes \in U64 /\ bases \in Nat /\ quotes \in Nat
  BY DEF U64
<1>3. StartBase \in Nat /\ StartQuote \in Nat /\ StartBase \in U64 /\ StartQuote \in U64
  <2>1. 1 \in Nat /\ 1 <= NumSeats /\ NumSeats \in Nat
    OBVIOUS
  <2>2. 1 * StartBase <= bases /\ 1 * StartQuote <= quotes
    BY <2>1, ProductMonotone
  <2>3. StartBase <= bases /\ StartQuote <= quotes
    BY <2>2
  <2> HIDE DEF bases, quotes
  <2> QED BY <1>2, <2>3 DEF U64
<1>4. IsFunded(funded)
  BY <1>3, FundedState
<1>5. NoOrder \in Order /\ 0 \in U64
  BY DEF NoOrder, Order, U64, NoSeat
<1>6. /\ m.seat_of = seats /\ m.state = st /\ m.book = b /\ m.next_seq = 0
      /\ m.base_deposited = bases /\ m.quote_deposited = quotes
      /\ m.unclaimed_fees = 0 /\ m.collected_fees = 0
      /\ m = [seat_of |-> seats, state |-> st, book |-> b, next_seq |-> 0,
              base_deposited |-> bases, quote_deposited |-> quotes,
              unclaimed_fees |-> 0, collected_fees |-> 0]
  <2> DEFINE none == [t \in Traders |-> NoSeat]
             empty == [s \in Seats |-> EmptyState]
             new == [seat_of |-> none, state |-> empty, book |-> b, next_seq |-> 0,
                     base_deposited |-> 0, quote_deposited |-> 0,
                     unclaimed_fees |-> 0, collected_fees |-> 0]
  <2>1. m = [new EXCEPT !.seat_of = seats, !.state = st,
                        !.base_deposited = bases, !.quote_deposited = quotes]
    BY DEF Seated, NewMarket
  <2> HIDE DEF m, st, b, bases, quotes, none, empty
  <2> QED BY <2>1
<1> HIDE DEF m, funded, bases, quotes
<1>7. /\ \A s \in Seats : m.state[s] = funded
      /\ \A side \in Sides : \A h \in Slots : m.book[side][h] = NoOrder
      /\ \A t \in Traders : m.seat_of[t] \in Seats
  BY <1>1, <1>6
<1>8. m \in MarketType
  <2>1. /\ st \in [Seats -> TraderState] /\ b \in [Sides -> [Slots -> Order]]
        /\ seats \in [Traders -> 0 .. NumSeats]
    BY <1>1, <1>4, <1>5 DEF Seats, IsFunded
  <2> HIDE DEF st, b
  <2> QED BY <1>2, <1>5, <1>6, <2>1 DEF MarketType
<1>9. \A side \in Sides : LiveSlots(m, side) = {}
  BY <1>7 DEF LiveSlots, Live, NoOrder
<1>10. \A s \in Seats : SeatLive(m, s)
  BY <1>1, <1>6 DEF SeatLive
<1>11. SumTo(BaseHeld(m), NumSeats) = bases /\ SumTo(QuoteHeld(m), NumSeats) = quotes
  <2> DEFINE f == BaseHeld(m)
             e == QuoteHeld(m)
  <2>1. \A s \in 1 .. NumSeats : f[s] = StartBase /\ e[s] = StartQuote
    BY <1>3, <1>4, <1>7, <1>10 DEF BaseHeld, QuoteHeld, Seats, IsFunded
  <2> HIDE DEF f, e
  <2>2. IsStretch(f, NumSeats, 0, NumSeats, StartBase)
    BY <1>3, <2>1 DEF IsStretch
  <2>3. IsStretch(e, NumSeats, 0, NumSeats, StartQuote)
    BY <1>3, <2>1 DEF IsStretch
  <2>4. bases = (NumSeats - 0) * StartBase /\ quotes = (NumSeats - 0) * StartQuote
    BY DEF bases, quotes
  <2>5. SumTo(f, NumSeats) = bases
    BY <2>2, <2>4, SumStretch
  <2>6. SumTo(e, NumSeats) = quotes
    BY <2>3, <2>4, SumStretch
  <2> QED BY <2>5, <2>6 DEF f, e
<1>12. LockedIsResting(m)
  <2> SUFFICES ASSUME NEW s \in Seats
               PROVE  /\ m.state[s].base_locked = SumTo(Resting(m, "Ask", s), BookCapacity)
                      /\ m.state[s].quote_locked = SumTo(Resting(m, "Bid", s), BookCapacity)
    BY DEF LockedIsResting
  <2> DEFINE f(side) == Resting(m, side, s)
  <2>1. ASSUME NEW side \in Sides
        PROVE  SumTo(f(side), BookCapacity) = 0
    <3>1. \A h \in 1 .. BookCapacity : f(side)[h] = 0
      BY <1>7 DEF Resting, NoOrder, NoSeat, Seats, Slots
    <3> HIDE DEF f
    <3> QED BY <3>1, SumZero
  <2> QED BY <1>4, <1>7, <2>1 DEF Sides, IsFunded
<1>13. SeatsDistinct(m)
  BY <1>1, <1>6 DEF SeatsDistinct
<1>14. BaseConserved(m) /\ QuoteConserved(m)
  BY <1>2, <1>6, <1>11 DEF BaseConserved, QuoteConserved
<1>15. Sound(m)
  BY <1>8, <1>9, <1>12, <1>13, <1>14
     DEF Sound, WellFormed, Balanced, IdsUnique, OrdersOwned, BidsPriced, Sides
<1>16. \A s \in Seats : TotalBase(m.state[s]) = StartBase
  BY <1>3, <1>4, <1>7 DEF TotalBase, IsFunded
<1> QED BY <1>7, <1>15, <1>16 DEF AllSeated, m

LEMMA NothingRests ==
  ASSUME NEW m, NEW side, NEW seat \in Seats, NEW X, NEW w,
         \A h \in Slots : m.book[side][h] = NoOrder
  PROVE  Rests(m, side, seat, X, w) = 0
<1> DEFINE f == Standing(m, side, seat, X, w)
<1>1. \A h \in 1 .. BookCapacity : f[h] = 0
  BY DEF Standing, NoOrder, NoSeat, Seats, Slots
<1> HIDE DEF f
<1>2. SumTo(f, BookCapacity) = 0
  BY <1>1, SumZero
<1> QED BY <1>2 DEF Rests, f

LEMMA NothingLate ==
  ASSUME NEW d, NEW w
  PROVE  LateSum([i \in 1 .. MaxLostReplies |-> NoTransaction], d, w) = 0
<1> DEFINE none == [i \in 1 .. MaxLostReplies |-> NoTransaction]
           f == [i \in 1 .. MaxLostReplies |-> PlacesOn(none[i], d, w)]
<1>1. \A i \in 1 .. MaxLostReplies : f[i] = 0
  BY NoTransactionFacts
<1> HIDE DEF f
<1>2. SumTo(f, MaxLostReplies) = 0
  BY <1>1, SumZero
<1> QED BY <1>2 DEF LateSum, f

-----------------------------------------------------------------------------
(* Arithmetic of the invariant. *)

LEMMA FarFacts ==
  /\ Far \in Nat
  /\ InventoryLimit - 1 <= Far
  /\ StartBase - TargetBase <= Far /\ TargetBase - StartBase <= Far
BY DEF Far, Drift

LEMMA LongInt ==
  ASSUME NEW m \in MarketType, NEW seat \in Seats, NEW side
  PROVE  LongIn(m, seat, side) \in Int
<1>1. m.state[seat] \in TraderState
  BY MarketFields
<1> QED BY <1>1, StateFields DEF LongIn, Deviation, TotalBase

LEMMA Counts ==
  ASSUME TypeOK, Seat \in Seats, NEW side \in Sides, NEW w \in Measures
  PROVE  /\ Side(w) \in Nat /\ lost \in Nat /\ lost * Side(w) \in Nat
         /\ PlacesOn(sent, side, w) \in Nat /\ LatePlaces(side, w) \in Nat
         /\ \A X : Mine(side, X, w) \in Nat
         /\ Long(side) \in Int
<1>1. /\ lost \in Nat /\ market \in MarketType /\ sent \in Transaction
      /\ late \in [1 .. MaxLostReplies -> Transaction]
  BY DEF TypeOK
<1>2. Side(w) \in Nat
  BY RungFacts
<1>3. lost * Side(w) \in Nat
  BY <1>1, <1>2
<1>4. PlacesOn(sent, side, w) \in Nat /\ LatePlaces(side, w) \in Nat
  BY <1>1, PlacesNat, LateNat DEF LatePlaces
<1>5. \A X : Mine(side, X, w) \in Nat
  BY <1>1, StandingNat DEF Mine
<1>6. Long(side) \in Int
  BY <1>1, LongInt DEF Long
<1> QED BY <1>1, <1>2, <1>3, <1>4, <1>5, <1>6

LEMMA InitInv ==
  ASSUME Init
  PROVE  BotInv
<1>1. PICK seats \in Bijection(Traders, Seats) : market = Seated(seats)
  BY DEF Init
<1>2. /\ Sound(market) /\ AllSeated(market)
      /\ \A s \in Seats : TotalBase(market.state[s]) = StartBase
      /\ \A side \in Sides : \A h \in Slots : market.book[side][h] = NoOrder
  BY <1>1, SeatedFacts
<1>3. /\ phase = "Idle" /\ running = TRUE /\ sent = NoTransaction
      /\ late = [i \in 1 .. MaxLostReplies |-> NoTransaction]
      /\ report = "Nothing" /\ moves = 0 /\ lost = 0
  BY DEF Init
<1>4. TypeOK
  <2>1. NoTransaction \in Transaction
    BY NoTransactionFacts
  <2>2. sent \in Transaction /\ late \in [1 .. MaxLostReplies -> Transaction]
    BY <1>3, <2>1
  <2>3. market \in MarketType
    BY <1>2 DEF Sound, WellFormed
  <2>4. moves \in 0 .. MaxMoves /\ lost \in 0 .. MaxLostReplies
    BY <1>3
  <2> QED BY <1>3, <2>2, <2>3, <2>4 DEF TypeOK, Phases, Reports
<1>5. Seat \in Seats
  BY <1>2 DEF AllSeated, Seat, SeatOf
<1>6. TransactionKind
  BY <1>3 DEF TransactionKind, Waiting
<1>7. ASSUME NEW side \in Sides, NEW w \in Measures
      PROVE  /\ PlacesOn(sent, side, w) = 0
             /\ LatePlaces(side, w) = 0
             /\ Mine(side, {}, w) = 0
             /\ Side(w) \in Nat
  BY <1>2, <1>3, <1>5, NoTransactionFacts, NothingLate, NothingRests, RungFacts
     DEF LatePlaces, Mine
<1>8. ASSUME NEW side \in Sides
      PROVE  Long(side) \in Int /\ Long(side) <= Far
  BY <1>2, <1>5, FarFacts DEF Long, LongIn, Deviation
<1>9. ASSUME NEW side \in Sides, NEW w \in Measures
      PROVE  OneLadderEach(side, w)
  BY <1>3, <1>7 DEF OneLadderEach
<1>10. ASSUME NEW side \in Sides
       PROVE  FilledIsBounded(side)
  <2>1. "lots" \in Measures
    BY DEF Measures
  <2> QED BY <1>3, <1>7, <1>8, <2>1, FarFacts DEF FilledIsBounded
<1>11. ASSUME NEW side \in Sides
       PROVE  WithdrawnLeavesLost(side)
  BY <1>3 DEF WithdrawnLeavesLost
<1>12. Counted
  BY <1>9, <1>10, <1>11 DEF Counted
<1> QED BY <1>2, <1>4, <1>6, <1>12 DEF BotInv

-----------------------------------------------------------------------------
(* The steps that leave the market alone. *)

LEMMA SeatStays ==
  ASSUME market'.seat_of = market.seat_of
  PROVE  Seat' = Seat /\ (AllSeated(market) => AllSeated(market'))
BY DEF Seat, SeatOf, AllSeated

LEMMA QuietCounts ==
  ASSUME market' = market, NEW side, NEW w
  PROVE  /\ \A X : Rests(market', side, Seat', X, w) = Mine(side, X, w)
         /\ Mine(side, {}, w)' = Mine(side, {}, w)
         /\ Long(side)' = Long(side)
<1>1. Seat' = Seat
  BY DEF Seat, SeatOf
<1> QED BY <1>1 DEF Mine, Long

LEMMA CycleInv ==
  ASSUME BotInv, Cycle
  PROVE  Counted'
<1>1. /\ phase = "Idle" /\ phase' = "Refreshing" /\ sent' = Refresh(market)
      /\ market' = market /\ late' = late /\ lost' = lost /\ report' = report
  BY DEF Cycle
<1>2. /\ Sound(market) /\ Seat \in Seats /\ TypeOK /\ Counted
  BY Basics DEF BotInv
<1>3. sent = NoTransaction
  BY <1>1 DEF BotInv, TransactionKind, Waiting
<1>4. ASSUME NEW side \in Sides, NEW w \in Measures
      PROVE  /\ Mine(side, {}, w)' = Mine(side, {}, w)
             /\ LatePlaces(side, w)' = LatePlaces(side, w)
             /\ Long(side)' = Long(side)
             /\ PlacesOn(sent, side, w)' = PlacesOn(Refresh(market), side, w)
             /\ Mine(side, Named(sent), w)' = 0
             /\ PlacesOn(sent, side, w) = 0
             /\ PlacesOn(Refresh(market), side, w) <= Side(w)
             /\ PlacesOn(Refresh(market), side, w) \in Nat
             /\ ~ MayQuote(Deviation(market.state[Seat]), side) =>
                  PlacesOn(Refresh(market), side, w) = 0
  <2>1. /\ Mine(side, {}, w)' = Mine(side, {}, w) /\ Long(side)' = Long(side)
        /\ Rests(market', side, Seat', Named(Refresh(market)), w)
             = Mine(side, Named(Refresh(market)), w)
    BY <1>1, QuietCounts
  <2>2. Mine(side, Named(Refresh(market)), w) = 0
    BY <1>2, RefreshCancelsAll DEF Mine
  <2>3. Mine(side, Named(sent), w)' = 0
    BY <1>1, <2>1, <2>2 DEF Mine
  <2>4. PlacesOn(sent, side, w)' = PlacesOn(Refresh(market), side, w)
    BY <1>1
  <2>5. PlacesOn(sent, side, w) = 0
    BY <1>3, NoTransactionFacts
  <2>6. PlacesOn(Refresh(market), side, w) \in Nat
    BY <1>2, RefreshFacts, PlacesNat
  <2> QED BY <1>1, <1>2, <2>1, <2>3, <2>4, <2>5, <2>6, RefreshPlaces DEF LatePlaces
<1>5. ASSUME NEW side \in Sides, NEW w \in Measures
      PROVE  OneLadderEach(side, w)'
  <2> DEFINE M == Mine(side, {}, w)
             L == LatePlaces(side, w)
             S == Side(w)
             K == lost * Side(w)
  <2>1. S \in Nat /\ K \in Nat /\ M \in Nat /\ L \in Nat
    BY <1>2, Counts
  <2>2. L <= K /\ M + L <= K + S
    BY <1>2 DEF Counted, OneLadderEach
  <2>3. Side(w)' = S /\ (lost * Side(w))' = K
    BY <1>1 DEF Side, Rung
  <2> HIDE DEF M, L, S, K
  <2> QED BY <1>4, <2>1, <2>2, <2>3 DEF OneLadderEach, M, L, S, K
<1>6. ASSUME NEW side \in Sides
      PROVE  FilledIsBounded(side)'
  <2> DEFINE w == "lots"
             M == Mine(side, {}, w)
             L == LatePlaces(side, w)
             S == Side(w)
             K == lost * Side(w)
             P == PlacesOn(Refresh(market), side, w)
             G == Long(side)
  <2>1. w \in Measures
    BY DEF Measures
  <2>2. S \in Nat /\ K \in Nat /\ M \in Nat /\ L \in Nat /\ G \in Int
    BY <1>2, <2>1, Counts
  <2>3. M + L <= K + S /\ G + M + L + PlacesOn(sent, side, w) <= Far + K + S + S
    BY <1>2, <2>1 DEF Counted, OneLadderEach, FilledIsBounded
  <2>4. PlacesOn(sent, side, w) = 0 /\ P \in Nat /\ P <= S
    BY <1>4, <2>1
  <2>5. P = 0 \/ G <= Far
    <3>1. CASE ~ MayQuote(Deviation(market.state[Seat]), side)
      BY <1>4, <2>1, <3>1
    <3>2. CASE MayQuote(Deviation(market.state[Seat]), side)
      <4> DEFINE v == Deviation(market.state[Seat])
      <4>1. v \in Int
        <5>1. market.state[Seat] \in TraderState
          BY <1>2, MarketFields DEF TypeOK
        <5> QED BY <5>1, StateFields DEF Deviation, TotalBase
      <4>2. IF side = "Bid" THEN v < InventoryLimit ELSE v > - InventoryLimit
        BY <3>2 DEF MayQuote
      <4>3. G = IF side = "Bid" THEN v ELSE - v
        BY DEF Long, LongIn
      <4> HIDE DEF v, G
      <4> QED BY <4>1, <4>2, <4>3, FarFacts
    <3> QED BY <3>1, <3>2
  <2>6. /\ Mine(side, {}, w)' = M /\ LatePlaces(side, w)' = L /\ Long(side)' = G
        /\ PlacesOn(sent, side, w)' = P
    BY <1>4, <2>1
  <2>7. Side(w)' = S /\ (lost * Side(w))' = K /\ Far' = Far
    BY <1>1 DEF Side, Rung, Far
  <2> HIDE DEF M, L, S, K, P, G
  <2>8. G + M + L + P <= Far + K + S + S
    BY <2>2, <2>3, <2>4, <2>5, FarFacts
  <2> QED BY <2>6, <2>7, <2>8 DEF FilledIsBounded, M, L, S, K, P, G
<1>7. ASSUME NEW side \in Sides
      PROVE  WithdrawnLeavesLost(side)'
  BY <1>1 DEF WithdrawnLeavesLost
<1> QED BY <1>5, <1>6, <1>7 DEF Counted

(* A step after which there is nowhere more. *)
LEMMA CountsFall ==
  ASSUME TypeOK, TypeOK', Seat \in Seats, Seat' \in Seats, Counted, lost' = lost,
         phase' = "Refreshing" => phase = "Refreshing" /\ sent' = sent,
         phase' = "Stopped" /\ report' = "Withdrawn" => phase = "Stopped" /\ report = "Withdrawn",
         \A side \in Sides : \A w \in Measures :
           /\ PlacesOn(sent', side, w) <= PlacesOn(sent, side, w)
           /\ LatePlaces(side, w)' <= LatePlaces(side, w)
           /\ \A X : Rests(market', side, Seat', X, w) + LatePlaces(side, w)'
                       <= Mine(side, X, w) + LatePlaces(side, w),
         \A side \in Sides :
           Long(side)' + Mine(side, {}, "lots")' + LatePlaces(side, "lots")'
             <= Long(side) + Mine(side, {}, "lots") + LatePlaces(side, "lots")
  PROVE  Counted'
<1>1. ASSUME NEW side \in Sides, NEW w \in Measures
      PROVE  OneLadderEach(side, w)'
  <2> DEFINE P == PlacesOn(sent, side, w)
             L == LatePlaces(side, w)
             M == Mine(side, {}, w)
             N == Mine(side, Named(sent), w)
             P1 == PlacesOn(sent', side, w)
             L1 == LatePlaces(side, w)'
             M1 == Mine(side, {}, w)'
             N1 == Mine(side, Named(sent), w)'
             S == Side(w)
             K == lost * Side(w)
  <2>1. S \in Nat /\ K \in Nat /\ P \in Nat /\ L \in Nat /\ M \in Nat /\ N \in Nat
    BY Counts
  <2>2. P1 \in Nat /\ L1 \in Nat /\ M1 \in Nat /\ N1 \in Nat
    <3>1. /\ market' \in MarketType /\ sent' \in Transaction
          /\ late' \in [1 .. MaxLostReplies -> Transaction]
      BY DEF TypeOK
    <3> QED BY <3>1, PlacesNat, LateNat, StandingNat DEF LatePlaces, Mine
  <2>3. P <= S /\ L <= K /\ M + L <= K + S /\ (phase = "Refreshing" => N + L <= K)
    BY DEF Counted, OneLadderEach
  <2>4. P1 <= P /\ L1 <= L /\ M1 + L1 <= M + L
    BY DEF Mine
  <2>5. phase' = "Refreshing" => N1 + L1 <= N + L
    BY DEF Mine
  <2>6. Side(w)' = S /\ (lost * Side(w))' = K /\ PlacesOn(sent, side, w)' = P1
    BY DEF Side, Rung
  <2> HIDE DEF P, L, M, N, P1, L1, M1, N1, S, K
  <2>7. /\ P1 <= S /\ L1 <= K /\ M1 + L1 <= K + S
        /\ phase' = "Refreshing" => N1 + L1 <= K
    BY <2>1, <2>2, <2>3, <2>4, <2>5
  <2> QED BY <2>6, <2>7 DEF OneLadderEach, P1, L1, M1, N1, S, K
<1>2. ASSUME NEW side \in Sides
      PROVE  FilledIsBounded(side)'
  <2> DEFINE P == PlacesOn(sent, side, "lots")
             all == Long(side) + Mine(side, {}, "lots") + LatePlaces(side, "lots")
             P1 == PlacesOn(sent', side, "lots")
             all1 == Long(side)' + Mine(side, {}, "lots")' + LatePlaces(side, "lots")'
             most == Far + lost * Side("lots") + Side("lots") + Side("lots")
  <2>1. "lots" \in Measures
    BY DEF Measures
  <2>2. P \in Nat /\ P1 \in Nat
    BY PlacesNat DEF TypeOK
  <2>3. all \in Int
    <3>1. /\ Long(side) \in Int /\ Mine(side, {}, "lots") \in Nat
          /\ LatePlaces(side, "lots") \in Nat
      BY <2>1, Counts
    <3> QED BY <3>1
  <2>4. all1 \in Int
    <3>1. /\ market' \in MarketType /\ late' \in [1 .. MaxLostReplies -> Transaction]
      BY DEF TypeOK
    <3>2. Mine(side, {}, "lots")' \in Nat /\ LatePlaces(side, "lots")' \in Nat
      BY <3>1, StandingNat, LateNat DEF LatePlaces, Mine
    <3>3. Long(side)' \in Int
      BY <3>1, LongInt DEF Long
    <3> QED BY <3>2, <3>3
  <2>5. P1 <= P /\ all1 <= all
    BY <2>1
  <2>6. all + P <= most
    BY DEF Counted, FilledIsBounded
  <2>7. most \in Int /\ most' = most
    <3>1. Side("lots") \in Nat /\ lost * Side("lots") \in Nat
      BY <2>1, Counts
    <3> QED BY <3>1, FarFacts DEF Side, Rung, Far
  <2>8. PlacesOn(sent, side, "lots")' = P1
    OBVIOUS
  <2> HIDE DEF P, all, P1, all1, most
  <2>9. all1 + P1 <= most'
    BY <2>2, <2>3, <2>4, <2>5, <2>6, <2>7
  <2> QED BY <2>8, <2>9 DEF FilledIsBounded, all1, most
<1>3. ASSUME NEW side \in Sides
      PROVE  WithdrawnLeavesLost(side)'
  <2> SUFFICES ASSUME phase' = "Stopped", report' = "Withdrawn"
               PROVE  Mine(side, {}, "orders")' + LatePlaces(side, "orders")'
                        <= (lost * Side("orders"))'
    BY DEF WithdrawnLeavesLost
  <2> DEFINE L == LatePlaces(side, "orders")
             M == Mine(side, {}, "orders")
             L1 == LatePlaces(side, "orders")'
             M1 == Mine(side, {}, "orders")'
             K == lost * Side("orders")
  <2>1. "orders" \in Measures
    BY DEF Measures
  <2>2. L \in Nat /\ M \in Nat /\ K \in Nat
    BY <2>1, Counts
  <2>3. L1 \in Nat /\ M1 \in Nat
    <3>1. /\ market' \in MarketType /\ late' \in [1 .. MaxLostReplies -> Transaction]
      BY DEF TypeOK
    <3> QED BY <3>1, StandingNat, LateNat DEF LatePlaces, Mine
  <2>4. M + L <= K
    BY DEF Counted, WithdrawnLeavesLost
  <2>5. M1 + L1 <= M + L
    BY <2>1 DEF Mine
  <2>6. K' = K
    BY DEF Side, Rung
  <2> HIDE DEF L, M, L1, M1, K
  <2>7. M1 + L1 <= K'
    BY <2>2, <2>3, <2>4, <2>5, <2>6
  <2> QED BY <2>7 DEF L1, M1, K
<1> QED BY <1>1, <1>2, <1>3 DEF Counted

LEMMA QuietInv ==
  ASSUME BotInv, TypeOK', TransactionKind', market' = market, lost' = lost,
         \/ late' = late
         \/ \E i \in 1 .. MaxLostReplies : late' = [late EXCEPT ![i] = NoTransaction],
         \/ sent' = sent /\ phase' = phase
         \/ sent'.kind # "Refresh" /\ phase' # "Refreshing",
         phase' = "Stopped" /\ report' = "Withdrawn" => phase = "Stopped" /\ report = "Withdrawn"
  PROVE  BotInv'
<1>1. /\ Sound(market) /\ Seat \in Seats /\ TypeOK /\ Counted /\ AllSeated(market)
  BY Basics DEF BotInv
<1>2. Seat' = Seat
  BY DEF Seat, SeatOf
<1>3. ASSUME NEW side \in Sides, NEW w \in Measures
      PROVE  /\ PlacesOn(sent', side, w) <= PlacesOn(sent, side, w)
             /\ LatePlaces(side, w)' <= LatePlaces(side, w)
             /\ LatePlaces(side, w)' \in Nat /\ LatePlaces(side, w) \in Nat
  <2>1. PlacesOn(sent, side, w) \in Nat /\ LatePlaces(side, w) \in Nat
    BY <1>1, Counts
  <2>2. PlacesOn(sent', side, w) = PlacesOn(sent, side, w) \/ PlacesOn(sent', side, w) = 0
    BY NothingPlaced DEF TypeOK
  <2>3. late' \in [1 .. MaxLostReplies -> Transaction] /\ late \in [1 .. MaxLostReplies -> Transaction]
    BY <1>1 DEF TypeOK
  <2>4. LatePlaces(side, w)' \in Nat
    BY <2>3, LateNat DEF LatePlaces
  <2>5. CASE late' = late
    BY <2>1, <2>2, <2>5 DEF LatePlaces
  <2>6. ASSUME NEW i \in 1 .. MaxLostReplies, late' = [late EXCEPT ![i] = NoTransaction]
        PROVE  LatePlaces(side, w)' <= LatePlaces(side, w)
    <3>1. NoTransaction \in Transaction /\ PlacesOn(NoTransaction, side, w) = 0
      BY NoTransactionFacts
    <3>2. PlacesOn(late[i], side, w) \in Nat
      BY <2>3, PlacesNat
    <3> DEFINE total == LateSum(late, side, w) + PlacesOn(NoTransaction, side, w)
                          - PlacesOn(late[i], side, w)
    <3>3. LateSum([late EXCEPT ![i] = NoTransaction], side, w) = total
      <4> HIDE DEF total
      <4>1. total = LateSum(late, side, w) + PlacesOn(NoTransaction, side, w)
                      - PlacesOn(late[i], side, w)
        BY DEF total
      <4> QED BY <2>3, <3>1, <4>1, LateChanges
    <3>4. total <= LatePlaces(side, w)
      BY <2>1, <3>1, <3>2 DEF LatePlaces
    <3> HIDE DEF total
    <3> QED BY <2>6, <3>3, <3>4 DEF LatePlaces
  <2> QED BY <2>1, <2>2, <2>4, <2>5, <2>6
<1>4. ASSUME NEW side \in Sides, NEW w \in Measures, NEW X
      PROVE  Rests(market', side, Seat', X, w) + LatePlaces(side, w)'
               <= Mine(side, X, w) + LatePlaces(side, w)
  <2>1. Rests(market', side, Seat', X, w) = Mine(side, X, w) /\ Mine(side, X, w) \in Nat
    BY <1>1, QuietCounts, Counts
  <2> QED BY <1>3, <2>1
<1>5. ASSUME NEW side \in Sides
      PROVE  Long(side)' + Mine(side, {}, "lots")' + LatePlaces(side, "lots")'
               <= Long(side) + Mine(side, {}, "lots") + LatePlaces(side, "lots")
  <2>1. "lots" \in Measures
    BY DEF Measures
  <2>2. /\ Long(side)' = Long(side) /\ Mine(side, {}, "lots")' = Mine(side, {}, "lots")
    BY QuietCounts
  <2>3. Long(side) \in Int /\ Mine(side, {}, "lots") \in Nat
    BY <1>1, <2>1, Counts
  <2> QED BY <1>3, <2>1, <2>2, <2>3
<1>6. phase' = "Refreshing" => phase = "Refreshing" /\ sent' = sent
  OBVIOUS
<1>7. Seat' \in Seats
  BY <1>1, <1>2
<1>8. Counted'
  BY <1>1, <1>3, <1>4, <1>5, <1>6, <1>7, CountsFall
<1> QED BY <1>1, <1>8 DEF BotInv

LEMMA WithdrawType ==
  /\ [NoTransaction EXCEPT !.kind = "Withdraw"] \in Transaction
  /\ [NoTransaction EXCEPT !.kind = "Withdraw"].kind = "Withdraw"
<1>1. NoTransaction \in Transaction
  BY NoTransactionFacts
<1> QED BY <1>1 DEF Transaction

LEMMA QuietSteps ==
  ASSUME BotInv, CycleTooLarge \/ Interrupt \/ WithdrawQuotes
  PROVE  BotInv'
<1>1. TypeOK /\ TransactionKind
  BY DEF BotInv
<1>2. /\ market' = market /\ lost' = lost /\ late' = late /\ moves' = moves
      /\ phase' \in Phases /\ running' \in BOOLEAN /\ report' \in Reports
      /\ phase' = "Stopped" /\ report' = "Withdrawn" => phase = "Stopped" /\ report = "Withdrawn"
  BY <1>1 DEF CycleTooLarge, Interrupt, WithdrawQuotes, TypeOK, Phases, Reports
<1>3. CASE sent' = sent /\ phase' = phase
  <2>1. TypeOK' /\ TransactionKind'
    BY <1>1, <1>2, <1>3 DEF TypeOK, TransactionKind, Waiting
  <2> QED BY <1>2, <1>3, <2>1, QuietInv
<1>4. CASE WithdrawQuotes
  <2>1. /\ sent' = [NoTransaction EXCEPT !.kind = "Withdraw"] /\ phase' = "Withdrawing"
    BY <1>4 DEF WithdrawQuotes
  <2>2. sent' \in Transaction /\ sent'.kind = "Withdraw"
    BY <2>1, WithdrawType
  <2>3. TypeOK' /\ TransactionKind'
    BY <1>1, <1>2, <2>1, <2>2 DEF TypeOK, TransactionKind, Waiting
  <2> QED BY <1>2, <2>1, <2>2, <2>3, QuietInv
<1>5. CycleTooLarge \/ Interrupt => sent' = sent /\ phase' = phase
  BY DEF CycleTooLarge, Interrupt
<1> QED BY <1>3, <1>4, <1>5

(* The bot stops waiting. *)
LEMMA HearsFacts ==
  ASSUME BotInv, Waiting, NEW ok \in BOOLEAN, Hears(ok)
  PROVE  /\ sent' = NoTransaction /\ sent' \in Transaction
         /\ phase' \in {"Idle", "Stopped"} /\ phase' \in Phases /\ report' \in Reports
         /\ phase' = "Stopped" /\ report' = "Withdrawn" => ok /\ phase = "Withdrawing"
         /\ sent'.kind # "Refresh" /\ ~ Waiting'
BY NoTransactionFacts DEF Hears, Waiting, Phases, Reports, NoTransaction

LEMMA ExpiresInv ==
  ASSUME BotInv, Waiting, Hears(FALSE), UNCHANGED <<market, running, late, moves, lost>>
  PROVE  BotInv'
<1>1. TypeOK /\ TransactionKind
  BY DEF BotInv
<1>2. /\ sent' = NoTransaction /\ sent' \in Transaction
      /\ phase' \in {"Idle", "Stopped"} /\ phase' \in Phases /\ report' \in Reports
      /\ ~ (phase' = "Stopped" /\ report' = "Withdrawn")
      /\ sent'.kind # "Refresh" /\ ~ Waiting'
  BY HearsFacts
<1>3. TypeOK' /\ TransactionKind'
  BY <1>1, <1>2 DEF TypeOK, TransactionKind
<1> QED BY <1>2, <1>3, QuietInv

LEMMA ExpiresLateInv ==
  ASSUME BotInv, ExpiresLate
  PROVE  BotInv'
<1>1. TypeOK /\ TransactionKind
  BY DEF BotInv
<1>2. PICK i \in Pending :
        /\ late' = [late EXCEPT ![i] = NoTransaction]
        /\ UNCHANGED <<market, phase, running, sent, report, moves, lost>>
  BY DEF ExpiresLate
<1>3. i \in 1 .. MaxLostReplies
  BY DEF Pending
<1>4. NoTransaction \in Transaction
  BY NoTransactionFacts
<1>5. TypeOK'
  BY <1>1, <1>2, <1>3, <1>4 DEF TypeOK
<1>6. TransactionKind'
  BY <1>1, <1>2, <1>3 DEF TypeOK, TransactionKind, Waiting
<1> QED BY <1>2, <1>3, <1>5, <1>6, QuietInv

-----------------------------------------------------------------------------
(* A reply is lost: what was on its way to one side may still land there,  *)
(* and the allowance grows by a ladder.                                    *)

LEMMA LosesReplyInv ==
  ASSUME BotInv, LosesReply
  PROVE  BotInv'
<1>1. /\ Sound(market) /\ Seat \in Seats /\ TypeOK /\ Counted /\ AllSeated(market)
      /\ TransactionKind
  BY Basics DEF BotInv
<1>2. /\ Waiting /\ Hears(FALSE) /\ lost < MaxLostReplies
      /\ late' = [late EXCEPT ![lost + 1] = sent] /\ lost' = lost + 1
      /\ market' = market /\ running' = running /\ moves' = moves
  BY DEF LosesReply
<1>3. /\ sent' = NoTransaction /\ sent' \in Transaction
      /\ phase' \in {"Idle", "Stopped"} /\ phase' \in Phases /\ report' \in Reports
      /\ ~ (phase' = "Stopped" /\ report' = "Withdrawn")
      /\ ~ Waiting'
  BY <1>2, HearsFacts
<1>4. /\ lost \in Nat /\ lost + 1 \in 1 .. MaxLostReplies /\ lost' \in 0 .. MaxLostReplies
      /\ late \in [1 .. MaxLostReplies -> Transaction] /\ sent \in Transaction
  BY <1>1, <1>2 DEF TypeOK
<1>5. TypeOK'
  BY <1>1, <1>2, <1>3, <1>4 DEF TypeOK
<1>6. TransactionKind'
  <2>1. ASSUME NEW i \in 1 .. MaxLostReplies, i > lost + 1
        PROVE  late'[i] = NoTransaction
    <3>1. i # lost + 1 /\ i > lost
      BY <1>4, <2>1
    <3> QED BY <1>1, <1>2, <1>4, <3>1 DEF TransactionKind
  <2> QED BY <1>2, <1>3, <2>1 DEF TransactionKind, Waiting
<1>7. late[lost + 1] = NoTransaction
  <2>1. lost + 1 > lost
    BY <1>4
  <2> QED BY <1>1, <1>4, <2>1 DEF TransactionKind
<1>8. ASSUME NEW side \in Sides, NEW w \in Measures
      PROVE  /\ LatePlaces(side, w)' = LatePlaces(side, w) + PlacesOn(sent, side, w)
             /\ PlacesOn(sent', side, w) = 0
             /\ Mine(side, {}, w)' = Mine(side, {}, w)
             /\ Long(side)' = Long(side)
             /\ Side(w)' = Side(w)
             /\ (lost * Side(w))' = lost * Side(w) + Side(w)
  <2> DEFINE i == lost + 1
             L == LateSum(late, side, w)
             P == PlacesOn(sent, side, w)
             old == PlacesOn(late[i], side, w)
             total == L + P
  <2>1. L \in Nat /\ P \in Nat /\ old = 0
    <3>1. old = 0
      BY <1>7, NoTransactionFacts
    <3> QED BY <1>1, <3>1, Counts DEF LatePlaces
  <2>2. i \in 1 .. MaxLostReplies
    BY <1>4
  <2>3. total = L + P - old
    BY <2>1
  <2> HIDE DEF i, total
  <2>4. LateSum([late EXCEPT ![i] = sent], side, w) = total
    BY <1>4, <2>2, <2>3, LateChanges
  <2>5. LatePlaces(side, w)' = total
    BY <1>2, <2>4 DEF LatePlaces, i
  <2>6. (lost * Side(w))' = lost * Side(w) + Side(w)
    <3> DEFINE S == Side(w)
    <3>1. S \in Nat /\ Side(w)' = S
      BY RungFacts DEF Side, Rung
    <3>2. (lost * Side(w))' = lost' * Side(w)'
      OBVIOUS
    <3> HIDE DEF S
    <3>3. (lost + 1) * S = lost * S + S
      BY <1>4, <3>1
    <3> QED BY <1>2, <3>1, <3>2, <3>3 DEF S
  <2> QED BY <1>2, <1>3, <2>5, <2>6, QuietCounts, NoTransactionFacts
          DEF Side, Rung, LatePlaces, total
<1>9. ASSUME NEW side \in Sides, NEW w \in Measures
      PROVE  OneLadderEach(side, w)'
  <2> DEFINE P == PlacesOn(sent, side, w)
             L == LatePlaces(side, w)
             M == Mine(side, {}, w)
             S == Side(w)
             K == lost * Side(w)
  <2>1. S \in Nat /\ K \in Nat /\ P \in Nat /\ L \in Nat /\ M \in Nat
    BY <1>1, Counts
  <2>2. P <= S /\ L <= K /\ M + L <= K + S
    BY <1>1 DEF Counted, OneLadderEach
  <2>3. /\ LatePlaces(side, w)' = L + P /\ PlacesOn(sent, side, w)' = 0
        /\ Mine(side, {}, w)' = M /\ Side(w)' = S /\ (lost * Side(w))' = K + S
    BY <1>8
  <2>4. phase' # "Refreshing"
    BY <1>3
  <2> HIDE DEF P, L, M, S, K
  <2>5. 0 <= S /\ L + P <= K + S /\ M + (L + P) <= K + S + S
    BY <2>1, <2>2
  <2> QED BY <2>3, <2>4, <2>5 DEF OneLadderEach
<1>10. ASSUME NEW side \in Sides
       PROVE  FilledIsBounded(side)'
  <2> DEFINE P == PlacesOn(sent, side, "lots")
             L == LatePlaces(side, "lots")
             M == Mine(side, {}, "lots")
             S == Side("lots")
             K == lost * Side("lots")
             G == Long(side)
  <2>1. "lots" \in Measures
    BY DEF Measures
  <2>2. S \in Nat /\ K \in Nat /\ P \in Nat /\ L \in Nat /\ M \in Nat /\ G \in Int
    BY <1>1, <2>1, Counts
  <2>3. G + M + L + P <= Far + K + S + S
    BY <1>1 DEF Counted, FilledIsBounded
  <2>4. /\ LatePlaces(side, "lots")' = L + P /\ PlacesOn(sent, side, "lots")' = 0
        /\ Mine(side, {}, "lots")' = M /\ Side("lots")' = S
        /\ (lost * Side("lots"))' = K + S /\ Long(side)' = G
    BY <1>8, <2>1
  <2>5. Far' = Far
    BY DEF Far
  <2> HIDE DEF P, L, M, S, K, G
  <2>6. G + M + (L + P) + 0 <= Far + (K + S) + S + S
    BY <2>2, <2>3, FarFacts
  <2> QED BY <2>4, <2>5, <2>6 DEF FilledIsBounded
<1>11. ASSUME NEW side \in Sides
       PROVE  WithdrawnLeavesLost(side)'
  BY <1>3 DEF WithdrawnLeavesLost
<1>12. Counted'
  BY <1>9, <1>10, <1>11 DEF Counted
<1> QED BY <1>1, <1>2, <1>5, <1>6, <1>12 DEF BotInv

-----------------------------------------------------------------------------
(* The steps that change the market. *)

(* Whatever becomes of it, nothing else of the bot changes. *)
LEMMA MarketMoves ==
  ASSUME BotInv, Sound(market'), market'.seat_of = market.seat_of, TypeOK',
         TransactionKind', phase' = phase, sent' = sent, lost' = lost, report' = report,
         \A side \in Sides : \A w \in Measures :
           /\ LatePlaces(side, w)' <= LatePlaces(side, w)
           /\ \A X : Rests(market', side, Seat, X, w) + LatePlaces(side, w)'
                       <= Mine(side, X, w) + LatePlaces(side, w),
         \A side \in Sides :
           LongIn(market', Seat, side) + Rests(market', side, Seat, {}, "lots")
               + LatePlaces(side, "lots")'
             <= Long(side) + Mine(side, {}, "lots") + LatePlaces(side, "lots")
  PROVE  BotInv'
<1>1. /\ Seat \in Seats /\ TypeOK /\ Counted /\ AllSeated(market)
  BY Basics DEF BotInv
<1>2. Seat' = Seat /\ AllSeated(market')
  BY <1>1, SeatStays
<1>3. ASSUME NEW side \in Sides, NEW w \in Measures
      PROVE  PlacesOn(sent', side, w) <= PlacesOn(sent, side, w)
  BY <1>1, Counts
<1>4. ASSUME NEW side \in Sides
      PROVE  Long(side)' + Mine(side, {}, "lots")' + LatePlaces(side, "lots")'
               <= Long(side) + Mine(side, {}, "lots") + LatePlaces(side, "lots")
  <2>1. Long(side)' = LongIn(market', Seat, side)
    BY <1>2 DEF Long
  <2>2. Mine(side, {}, "lots")' = Rests(market', side, Seat, {}, "lots")
    BY <1>2 DEF Mine
  <2> QED BY <2>1, <2>2
<1>5. ASSUME NEW side \in Sides, NEW w \in Measures
      PROVE  /\ LatePlaces(side, w)' <= LatePlaces(side, w)
             /\ \A X : Rests(market', side, Seat', X, w) + LatePlaces(side, w)'
                         <= Mine(side, X, w) + LatePlaces(side, w)
  BY <1>2
<1>6. Seat' \in Seats
  BY <1>1, <1>2
<1>7. Counted'
  BY <1>1, <1>3, <1>4, <1>5, <1>6, CountsFall
<1> QED BY <1>2, <1>7 DEF BotInv

LEMMA OthersInv ==
  ASSUME BotInv, OtherQuotes \/ OtherCancels \/ OtherTakes
  PROVE  BotInv'
<1>1. /\ Seat \in Seats /\ TypeOK /\ TransactionKind /\ market \in MarketType
  BY Basics DEF BotInv
<1>2. /\ Recedes(market, market', Seat) /\ moves' \in 0 .. MaxMoves
      /\ UNCHANGED <<phase, running, sent, late, report, lost>>
  BY OtherMoves
<1>3. /\ Sound(market') /\ market'.seat_of = market.seat_of
      /\ \A d \in Sides : \A X, w : Rests(market', d, Seat, X, w) <= Rests(market, d, Seat, X, w)
      /\ \A d \in Sides :
           LongIn(market', Seat, d) + Rests(market', d, Seat, {}, "lots")
             <= LongIn(market, Seat, d) + Rests(market, d, Seat, {}, "lots")
  BY <1>2 DEF Recedes
<1>4. market' \in MarketType
  BY <1>3 DEF Sound, WellFormed
<1>5. TypeOK' /\ TransactionKind'
  BY <1>1, <1>2, <1>4 DEF TypeOK, TransactionKind, Waiting
<1>6. ASSUME NEW side \in Sides, NEW w \in Measures
      PROVE  /\ LatePlaces(side, w)' = LatePlaces(side, w) /\ LatePlaces(side, w) \in Nat
             /\ \A X : Rests(market', side, Seat, X, w) \in Nat /\ Mine(side, X, w) \in Nat
  BY <1>1, <1>2, <1>4, Counts, StandingNat DEF LatePlaces
<1>7. ASSUME NEW side \in Sides, NEW w \in Measures
      PROVE  /\ LatePlaces(side, w)' <= LatePlaces(side, w)
             /\ \A X : Rests(market', side, Seat, X, w) + LatePlaces(side, w)'
                         <= Mine(side, X, w) + LatePlaces(side, w)
  <2>1. ASSUME NEW X
        PROVE  Rests(market', side, Seat, X, w) + LatePlaces(side, w)'
                 <= Mine(side, X, w) + LatePlaces(side, w)
    <3> DEFINE r1 == Rests(market', side, Seat, X, w)
               r == Mine(side, X, w)
               l1 == LatePlaces(side, w)'
               l == LatePlaces(side, w)
    <3>1. r1 <= r /\ l1 = l /\ l \in Nat /\ r1 \in Nat /\ r \in Nat
      BY <1>3, <1>6 DEF Mine
    <3> HIDE DEF r1, r, l1, l
    <3>2. r1 + l1 <= r + l
      BY <3>1
    <3> QED BY <3>2 DEF r1, r, l1, l
  <2> QED BY <1>6, <2>1
<1>8. ASSUME NEW side \in Sides
      PROVE  LongIn(market', Seat, side) + Rests(market', side, Seat, {}, "lots")
                 + LatePlaces(side, "lots")'
               <= Long(side) + Mine(side, {}, "lots") + LatePlaces(side, "lots")
  <2> DEFINE r1 == Rests(market', side, Seat, {}, "lots")
             r == Mine(side, {}, "lots")
             l1 == LatePlaces(side, "lots")'
             l == LatePlaces(side, "lots")
             g1 == LongIn(market', Seat, side)
             g == Long(side)
  <2>1. "lots" \in Measures
    BY DEF Measures
  <2>2. l1 = l /\ l \in Nat /\ r1 \in Nat /\ r \in Nat
    BY <1>6, <2>1
  <2>3. g1 \in Int /\ g \in Int
    BY <1>1, <1>4, LongInt DEF Long
  <2>4. g1 + r1 <= g + r
    BY <1>3 DEF Long, Mine
  <2> HIDE DEF r1, r, l1, l, g1, g
  <2>5. g1 + r1 + l1 <= g + r + l
    BY <2>2, <2>3, <2>4
  <2> QED BY <2>5 DEF r1, r, l1, l, g1, g
<1> QED BY <1>2, <1>3, <1>5, <1>7, <1>8, MarketMoves

LEMMA LandsLateInv ==
  ASSUME BotInv, LandsLate
  PROVE  BotInv'
<1>1. /\ Sound(market) /\ Seat \in Seats /\ SeatLive(market, Seat) /\ TypeOK
      /\ TransactionKind /\ market \in MarketType
      /\ late \in [1 .. MaxLostReplies -> Transaction]
  BY Basics DEF BotInv, TypeOK
<1>2. PICK i \in Pending :
        /\ late' = [late EXCEPT ![i] = NoTransaction]
        /\ market' = IF Fails(market, late[i]) THEN market ELSE Executed(market, late[i])
        /\ UNCHANGED <<phase, running, sent, report, moves, lost>>
  BY DEF LandsLate
<1>3. i \in 1 .. MaxLostReplies /\ late[i] \in Transaction
  BY <1>1 DEF Pending
<1> DEFINE tx == late[i]
<1>4. NoTransaction \in Transaction
  BY NoTransactionFacts
<1>5. /\ Sound(market') /\ SameHoldings(market, market')
      /\ \A d \in Sides : \A X, w :
           Rests(market', d, Seat, X, w) <= Rests(market, d, Seat, X, w) + PlacesOn(tx, d, w)
  <2>1. CASE market' = market
    <3>1. ASSUME NEW d \in Sides, NEW X, NEW w
          PROVE  Rests(market, d, Seat, X, w) <= Rests(market, d, Seat, X, w) + PlacesOn(tx, d, w)
      <4>1. Rests(market, d, Seat, X, w) \in Nat /\ PlacesOn(tx, d, w) \in Nat
        BY <1>1, <1>3, StandingNat, PlacesNat
      <4> QED BY <4>1
    <3> QED BY <1>1, <2>1, <3>1 DEF SameHoldings
  <2>2. CASE market' = Executed(market, tx)
    BY <1>1, <1>3, <2>2, ExecutedFacts, ExecutedAdds
  <2> QED BY <1>2, <2>1, <2>2
<1>6. market' \in MarketType /\ market'.seat_of = market.seat_of
  BY <1>5 DEF Sound, WellFormed, SameHoldings
<1>7. TypeOK'
  BY <1>1, <1>2, <1>3, <1>4, <1>6 DEF TypeOK
<1>8. TransactionKind'
  BY <1>1, <1>2, <1>3 DEF TransactionKind, Waiting
<1>9. ASSUME NEW side \in Sides, NEW w \in Measures
      PROVE  /\ LatePlaces(side, w) \in Nat /\ PlacesOn(tx, side, w) \in Nat
             /\ LatePlaces(side, w)' = LatePlaces(side, w) - PlacesOn(tx, side, w)
  <2> DEFINE L == LateSum(late, side, w)
             P == PlacesOn(tx, side, w)
             new == PlacesOn(NoTransaction, side, w)
             total == L - P
  <2>1. L \in Nat /\ P \in Nat /\ new = 0
    BY <1>1, <1>3, LateNat, PlacesNat, NoTransactionFacts
  <2>2. total = L + new - P
    BY <2>1
  <2> HIDE DEF total
  <2>3. LateSum([late EXCEPT ![i] = NoTransaction], side, w) = total
    BY <1>1, <1>3, <1>4, <2>2, LateChanges
  <2>4. LatePlaces(side, w)' = total
    BY <1>2, <2>3 DEF LatePlaces
  <2> QED BY <2>1, <2>4 DEF LatePlaces, total
<1> HIDE DEF tx
<1>10. ASSUME NEW side \in Sides, NEW w \in Measures
       PROVE  /\ LatePlaces(side, w)' <= LatePlaces(side, w)
              /\ \A X : Rests(market', side, Seat, X, w) + LatePlaces(side, w)'
                          <= Mine(side, X, w) + LatePlaces(side, w)
  <2>1. LatePlaces(side, w)' <= LatePlaces(side, w)
    BY <1>9
  <2>2. ASSUME NEW X
        PROVE  Rests(market', side, Seat, X, w) + LatePlaces(side, w)'
                 <= Mine(side, X, w) + LatePlaces(side, w)
    <3> DEFINE r1 == Rests(market', side, Seat, X, w)
               r == Mine(side, X, w)
               l1 == LatePlaces(side, w)'
               l == LatePlaces(side, w)
               p == PlacesOn(tx, side, w)
    <3>1. r1 <= r + p /\ l1 = l - p /\ l \in Nat /\ p \in Nat /\ r1 \in Nat /\ r \in Nat
      BY <1>1, <1>5, <1>6, <1>9, StandingNat DEF Mine
    <3> HIDE DEF r1, r, l1, l, p
    <3>2. r1 + l1 <= r + l
      BY <3>1
    <3> QED BY <3>2 DEF r1, r, l1, l
  <2> QED BY <2>1, <2>2
<1>11. ASSUME NEW side \in Sides
       PROVE  LongIn(market', Seat, side) + Rests(market', side, Seat, {}, "lots")
                  + LatePlaces(side, "lots")'
                <= Long(side) + Mine(side, {}, "lots") + LatePlaces(side, "lots")
  <2> DEFINE r1 == Rests(market', side, Seat, {}, "lots")
             r == Mine(side, {}, "lots")
             l1 == LatePlaces(side, "lots")'
             l == LatePlaces(side, "lots")
             p == PlacesOn(tx, side, "lots")
             g1 == LongIn(market', Seat, side)
             g == Long(side)
  <2>1. "lots" \in Measures
    BY DEF Measures
  <2>2. r1 <= r + p /\ l1 = l - p /\ l \in Nat /\ p \in Nat /\ r1 \in Nat /\ r \in Nat
    BY <1>1, <1>5, <1>6, <1>9, <2>1, StandingNat DEF Mine
  <2>3. g1 = g /\ g \in Int
    BY <1>1, <1>5, SameLong, LongInt DEF Long, LongIn
  <2> HIDE DEF r1, r, l1, l, p, g1, g
  <2>4. g1 + r1 + l1 <= g + r + l
    BY <2>2, <2>3
  <2> QED BY <2>4 DEF r1, r, l1, l, g1, g
<1> QED BY <1>2, <1>5, <1>6, <1>7, <1>8, <1>10, <1>11, MarketMoves

(* The bot's transaction lands: a refresh takes away all it was to cancel, *)
(* and a withdrawal a whole ladder on either side.                         *)
LEMMA LandsInv ==
  ASSUME BotInv, Lands
  PROVE  BotInv'
<1>1. /\ Sound(market) /\ Seat \in Seats /\ SeatLive(market, Seat) /\ TypeOK /\ Counted
      /\ AllSeated(market) /\ TransactionKind /\ market \in MarketType /\ sent \in Transaction
  BY Basics DEF BotInv, TypeOK
<1>2. Waiting /\ UNCHANGED <<running, late, moves, lost>>
  BY DEF Lands
<1>3. CASE Fails(market, sent) /\ market' = market /\ Hears(FALSE)
  BY <1>2, <1>3, ExpiresInv
<1>4. CASE ~ Fails(market, sent) /\ market' = Executed(market, sent) /\ Hears(TRUE)
  <2>1. /\ sent' = NoTransaction /\ sent' \in Transaction
        /\ phase' \in {"Idle", "Stopped"} /\ phase' \in Phases /\ report' \in Reports
        /\ phase' = "Stopped" /\ report' = "Withdrawn" => phase = "Withdrawing"
        /\ ~ Waiting'
    BY <1>2, <1>4, HearsFacts
  <2>2. Sound(market') /\ SameHoldings(market, market')
    BY <1>1, <1>4, ExecutedFacts
  <2>3. market' \in MarketType /\ market'.seat_of = market.seat_of
    BY <2>2 DEF Sound, WellFormed, SameHoldings
  <2>4. Seat' = Seat /\ AllSeated(market')
    BY <1>1, <2>3, SeatStays
  <2>5. TypeOK' /\ TransactionKind'
    BY <1>1, <1>2, <2>1, <2>3 DEF TypeOK, TransactionKind
  <2>6. ASSUME NEW side \in Sides, NEW w \in Measures
        PROVE  /\ LatePlaces(side, w)' = LatePlaces(side, w)
               /\ PlacesOn(sent, side, w)' = 0
               /\ Mine(side, {}, w)' = Rests(Executed(market, sent), side, Seat, {}, w)
               /\ Mine(side, {}, w)' \in Nat
               /\ Mine(side, {}, w)' <= Mine(side, {}, w) + PlacesOn(sent, side, w)
               /\ Mine(side, {}, w)' <= Mine(side, Named(sent), w) + PlacesOn(sent, side, w)
               /\ Long(side)' = Long(side)
               /\ Side(w)' = Side(w) /\ (lost * Side(w))' = lost * Side(w)
    <3>1. Mine(side, {}, w)' = Rests(market', side, Seat, {}, w)
      BY <2>4 DEF Mine
    <3>2. Mine(side, {}, w)' \in Nat
      BY <2>3, <3>1, StandingNat
    <3>3. /\ Mine(side, {}, w)' <= Mine(side, {}, w) + PlacesOn(sent, side, w)
      BY <1>1, <1>4, <3>1, ExecutedAdds DEF Mine
    <3>4. Mine(side, {}, w)' <= Mine(side, Named(sent), w) + PlacesOn(sent, side, w)
      <4>1. Rests(Executed(market, sent), side, Seat, {}, w)
              <= Rests(market, side, Seat, {} \cup Named(sent), w) + PlacesOn(sent, side, w)
        BY <1>1, ExecutedRests
      <4>2. {} \cup Named(sent) = Named(sent)
        OBVIOUS
      <4> QED BY <1>4, <3>1, <4>1, <4>2 DEF Mine
    <3>5. Long(side)' = Long(side)
      BY <1>1, <2>2, <2>4, SameLong DEF Long, LongIn
    <3> QED BY <1>2, <1>4, <2>1, <3>1, <3>2, <3>3, <3>4, <3>5, NoTransactionFacts
            DEF LatePlaces, Side, Rung
  <2>7. phase = "Refreshing" \/ (phase = "Withdrawing" /\ sent.kind = "Withdraw")
    BY <1>1, <1>2 DEF Waiting, TransactionKind
  <2>8. ASSUME NEW side \in Sides, NEW w \in Measures
        PROVE  OneLadderEach(side, w)'
    <3> DEFINE P == PlacesOn(sent, side, w)
               L == LatePlaces(side, w)
               M == Mine(side, {}, w)
               N == Mine(side, Named(sent), w)
               M1 == Mine(side, {}, w)'
               S == Side(w)
               K == lost * Side(w)
    <3>1. S \in Nat /\ K \in Nat /\ P \in Nat /\ L \in Nat /\ M \in Nat /\ N \in Nat
      BY <1>1, Counts
    <3>2. P <= S /\ L <= K /\ M + L <= K + S /\ (phase = "Refreshing" => N + L <= K)
      BY <1>1 DEF Counted, OneLadderEach
    <3>3. M1 \in Nat /\ M1 <= M + P /\ M1 <= N + P
      BY <2>6
    <3>4. P = 0 \/ phase = "Refreshing"
      BY <1>1, <2>7, NothingPlaced
    <3>5. /\ LatePlaces(side, w)' = L /\ PlacesOn(sent, side, w)' = 0
          /\ Side(w)' = S /\ (lost * Side(w))' = K
      BY <2>6
    <3>6. phase' # "Refreshing"
      BY <2>1
    <3> HIDE DEF P, L, M, N, M1, S, K
    <3>7. 0 <= S /\ M1 + L <= K + S
      BY <3>1, <3>2, <3>3, <3>4
    <3> QED BY <3>2, <3>5, <3>6, <3>7 DEF OneLadderEach, M1
  <2>9. ASSUME NEW side \in Sides
        PROVE  FilledIsBounded(side)'
    <3> DEFINE P == PlacesOn(sent, side, "lots")
               L == LatePlaces(side, "lots")
               M == Mine(side, {}, "lots")
               M1 == Mine(side, {}, "lots")'
               S == Side("lots")
               K == lost * Side("lots")
               G == Long(side)
    <3>1. "lots" \in Measures
      BY DEF Measures
    <3>2. S \in Nat /\ K \in Nat /\ P \in Nat /\ L \in Nat /\ M \in Nat /\ G \in Int
      BY <1>1, <3>1, Counts
    <3>3. G + M + L + P <= Far + K + S + S
      BY <1>1 DEF Counted, FilledIsBounded
    <3>4. /\ M1 \in Nat /\ M1 <= M + P
          /\ LatePlaces(side, "lots")' = L /\ PlacesOn(sent, side, "lots")' = 0
          /\ Side("lots")' = S /\ (lost * Side("lots"))' = K /\ Long(side)' = G
      BY <2>6, <3>1
    <3>5. Far' = Far
      BY DEF Far
    <3> HIDE DEF P, L, M, M1, S, K, G
    <3>6. G + M1 + L + 0 <= Far + K + S + S
      BY <3>2, <3>3, <3>4, FarFacts
    <3> QED BY <3>4, <3>5, <3>6 DEF FilledIsBounded, M1
  <2>10. ASSUME NEW side \in Sides
         PROVE  WithdrawnLeavesLost(side)'
    <3> SUFFICES ASSUME phase' = "Stopped", report' = "Withdrawn"
                 PROVE  Mine(side, {}, "orders")' + LatePlaces(side, "orders")'
                          <= (lost * Side("orders"))'
      BY DEF WithdrawnLeavesLost
    <3> DEFINE L == LatePlaces(side, "orders")
               M == Mine(side, {}, "orders")
               M1 == Mine(side, {}, "orders")'
               S == Side("orders")
               K == lost * Side("orders")
    <3>1. "orders" \in Measures
      BY DEF Measures
    <3>2. S \in Nat /\ K \in Nat /\ L \in Nat /\ M \in Nat /\ M1 \in Nat
      BY <1>1, <2>6, <3>1, Counts
    <3>3. L <= K /\ M + L <= K + S
      BY <1>1, <3>1 DEF Counted, OneLadderEach
    <3>4. sent.kind = "Withdraw"
      BY <2>1, <2>7
    <3>5. M1 = 0 \/ M1 <= M - ShutdownCancelLimit
      BY <1>1, <2>6, <3>1, <3>4, ExecutedSweeps DEF Mine
    <3>6. S <= ShutdownCancelLimit /\ ShutdownCancelLimit \in Nat
      BY DEF Side, Rung
    <3>7. LatePlaces(side, "orders")' = L /\ (lost * Side("orders"))' = K
      BY <2>6, <3>1
    <3> HIDE DEF L, M, M1, S, K
    <3>8. M1 + L <= K
      BY <3>2, <3>3, <3>5, <3>6
    <3> QED BY <3>7, <3>8 DEF M1
  <2>11. Counted'
    BY <2>8, <2>9, <2>10 DEF Counted
  <2> QED BY <2>2, <2>4, <2>5, <2>11 DEF BotInv
<1> QED BY <1>3, <1>4 DEF Lands

-----------------------------------------------------------------------------
(* The invariant. *)

LEMMA StutterInv ==
  ASSUME BotInv, UNCHANGED vars
  PROVE  BotInv'
<1>1. /\ market' = market /\ phase' = phase /\ running' = running /\ sent' = sent
      /\ late' = late /\ report' = report /\ moves' = moves /\ lost' = lost
  BY DEF vars
<1>2. TypeOK' /\ TransactionKind'
  BY <1>1 DEF BotInv, TypeOK, TransactionKind, Waiting
<1> QED BY <1>1, <1>2, QuietInv

LEMMA NextInv ==
  ASSUME BotInv, [Next]_vars
  PROVE  BotInv'
<1>1. CASE Cycle
  <2>1. /\ Sound(market) /\ Seat \in Seats /\ TypeOK /\ AllSeated(market) /\ TransactionKind
    BY <1>1, Basics DEF BotInv
  <2>2. /\ phase = "Idle" /\ phase' = "Refreshing" /\ sent' = Refresh(market)
        /\ UNCHANGED <<market, running, late, report, moves, lost>>
    BY <1>1 DEF Cycle
  <2>3. sent' \in Transaction /\ sent'.kind = "Refresh"
    BY <2>1, <2>2, RefreshFacts
  <2>4. TypeOK' /\ TransactionKind'
    BY <2>1, <2>2, <2>3 DEF TypeOK, TransactionKind, Waiting, Phases
  <2> QED BY <1>1, <2>1, <2>2, <2>4, CycleInv DEF BotInv
<1>2. CASE CycleTooLarge \/ WithdrawQuotes \/ Interrupt
  BY <1>2, QuietSteps
<1>3. CASE Lands
  BY <1>3, LandsInv
<1>4. CASE Expires
  BY <1>4, ExpiresInv DEF Expires
<1>5. CASE LosesReply
  BY <1>5, LosesReplyInv
<1>6. CASE LandsLate
  BY <1>6, LandsLateInv
<1>7. CASE ExpiresLate
  BY <1>7, ExpiresLateInv
<1>8. CASE OtherQuotes \/ OtherCancels \/ OtherTakes
  BY <1>8, OthersInv
<1>9. CASE UNCHANGED vars
  BY <1>9, StutterInv
<1> QED BY <1>1, <1>2, <1>3, <1>4, <1>5, <1>6, <1>7, <1>8, <1>9 DEF Next, BotSteps

(* Every behaviour of the bot keeps its accounts in order: the market it   *)
(* trades on balances, and each side of the book carries at most one       *)
(* ladder of its, and one more for each reply that was lost (session.rs    *)
(* and the BatchUpdate handler it calls).                                  *)
THEOREM BotInvariant == Spec => []BotInv
<1>1. Init => BotInv
  BY InitInv
<1>2. BotInv /\ [Next]_vars => BotInv'
  BY NextInv
<1> QED BY <1>1, <1>2, PTL DEF Spec

(* The bot's state always has its type, whatever the orders of the others  *)
(* and the replies lost.                                                   *)
THEOREM BotTypeCorrect == Spec => []TypeOK
<1>1. BotInv => TypeOK
  BY DEF BotInv
<1> QED BY <1>1, BotInvariant, PTL

LEMMA BoundedNow ==
  ASSUME BotInv
  PROVE  PositionIsBounded
<1> DEFINE v == Deviation(market.state[Seat])
           S == Side("lots")
           K == lost * S
           most == Far + K + S + S
<1>1. /\ market \in MarketType /\ Seat \in Seats /\ TypeOK /\ Counted
  BY Basics DEF BotInv
<1>2. "lots" \in Measures /\ "Bid" \in Sides /\ "Ask" \in Sides
  BY DEF Measures, Sides
<1>3. /\ S \in Nat /\ K \in Nat /\ lost \in Nat
      /\ \A side \in Sides :
           /\ PlacesOn(sent, side, "lots") \in Nat /\ LatePlaces(side, "lots") \in Nat
           /\ Mine(side, {}, "lots") \in Nat /\ Long(side) \in Int
  BY <1>1, <1>2, Counts
<1>4. \A side \in Sides :
        Long(side) + Mine(side, {}, "lots") + LatePlaces(side, "lots")
          + PlacesOn(sent, side, "lots") <= most
  BY <1>1 DEF Counted, FilledIsBounded
<1> HIDE DEF S, K
<1>5. \A side \in Sides : Long(side) <= most
  BY <1>3, <1>4, FarFacts
<1>6. v \in Int
  BY <1>1, MarketFields, StateFields DEF Deviation, TotalBase
<1>7. v <= most /\ - v <= most
  BY <1>2, <1>5 DEF Long, LongIn
<1>8. most = Far + Ladders * Levels * LevelSize
  <2>1. S = Levels * LevelSize
    BY DEF S, Side, Rung
  <2>2. (2 + lost) * Levels * LevelSize = lost * (Levels * LevelSize)
          + Levels * LevelSize + Levels * LevelSize
    BY <1>3
  <2> QED BY <1>3, <2>1, <2>2, FarFacts DEF Ladders, K
<1>9. most \in Int
  BY <1>3, FarFacts
<1> HIDE DEF v, most
<1>10. v \in - most .. most
  BY <1>6, <1>7, <1>9
<1> QED BY <1>8, <1>10 DEF PositionIsBounded, v

(* The bot's position never exceeds its cap by more than the two ladders   *)
(* that stale decisions can add and one for each reply lost: for every     *)
(* market, skew, tick and move of the others (inventory.rs, "a preference  *)
(* does not bound a loss").                                                *)
THEOREM PositionBounded == Spec => []PositionIsBounded
<1>1. BotInv => PositionIsBounded
  BY BoundedNow
<1> QED BY <1>1, BotInvariant, PTL

-----------------------------------------------------------------------------
(* Counting the bot's orders as a set. *)

(* The number of the places of an interval that lie in a set is the sum of *)
(* one for each. *)
LEMMA CountBySum ==
  ASSUME NEW N \in Nat, NEW T, T \subseteq 1 .. N, NEW f,
         \A i \in 1 .. N : f[i] = IF i \in T THEN 1 ELSE 0
  PROVE  IsFiniteSet(T) /\ Cardinality(T) = SumTo(f, N)
<1> DEFINE upto(n) == {i \in T : i <= n}
           S == {n \in 0 .. N : IsFiniteSet(upto(n)) /\ Cardinality(upto(n)) = SumTo(f, n)}
<1>0. \A i \in T : i \in Int /\ 1 <= i /\ i <= N
  OBVIOUS
<1>1. 0 \in S
  <2>1. ASSUME NEW i \in T PROVE ~ (i <= 0)
    <3>1. i \in Int /\ 1 <= i
      BY <1>0
    <3> QED BY <3>1
  <2>2. upto(0) = {}
    BY <2>1
  <2> HIDE DEF upto
  <2>3. IsFiniteSet(upto(0)) /\ Cardinality(upto(0)) = 0
    BY <2>2, FS_EmptySet
  <2> QED BY <2>3, SumOfNone
<1>2. ASSUME NEW n \in 1 .. N, n - 1 \in S PROVE n \in S
  <2>1. n - 1 \in 0 .. N /\ n \in 0 .. N
    OBVIOUS
  <2>2. IsFiniteSet(upto(n - 1)) /\ Cardinality(upto(n - 1)) = SumTo(f, n - 1)
    BY <1>2
  <2>3. SumTo(f, n) = SumTo(f, n - 1) + f[n]
    BY SumStep
  <2>4. Cardinality(upto(n - 1)) \in Nat
    BY <2>2, FS_CardinalityType
  <2>5. CASE n \in T
    <3>1. upto(n) = upto(n - 1) \cup {n} /\ n \notin upto(n - 1)
      <4>1. ASSUME NEW i \in T PROVE i <= n <=> i <= n - 1 \/ i = n
        <5>1. i \in Int
          BY <1>0
        <5> QED BY <5>1
      <4>2. ~ (n <= n - 1)
        OBVIOUS
      <4> QED BY <2>5, <4>1, <4>2
    <3> DEFINE U == upto(n - 1)
    <3> HIDE DEF upto
    <3>2. IsFiniteSet(upto(n)) /\ Cardinality(upto(n)) = Cardinality(upto(n - 1)) + 1
      <4>1. IsFiniteSet(U) /\ n \notin U /\ upto(n) = U \cup {n}
        BY <2>2, <3>1
      <4> HIDE DEF U
      <4>2. /\ IsFiniteSet(U \cup {n})
            /\ Cardinality(U \cup {n}) = IF n \in U THEN Cardinality(U) ELSE Cardinality(U) + 1
        BY <4>1, FS_AddElement
      <4> QED BY <4>1, <4>2 DEF U
    <3>3. f[n] = 1
      BY <2>5
    <3> QED BY <2>1, <2>2, <2>3, <3>2, <3>3
  <2>6. CASE n \notin T
    <3>1. upto(n) = upto(n - 1)
      <4>1. ASSUME NEW i \in T PROVE i <= n <=> i <= n - 1
        <5>1. i \in Int /\ i # n
          BY <1>0, <2>6
        <5> QED BY <5>1
      <4> QED BY <4>1
    <3>2. f[n] = 0
      BY <2>6
    <3> HIDE DEF upto
    <3>3. SumTo(f, n) = SumTo(f, n - 1)
      BY <2>2, <2>3, <2>4, <3>2
    <3> QED BY <2>1, <2>2, <3>1, <3>3
  <2> QED BY <2>5, <2>6
<1> HIDE DEF S
<1>3. N \in S
  BY <1>1, <1>2, Upward
<1>4. upto(N) = T
  BY <1>0
<1> HIDE DEF upto
<1> QED BY <1>3, <1>4 DEF S

(* The bot's orders on one side, as OwnQuotes counts them. *)
QuoteOf(m, side, h) == <<[side |-> side, seq |-> m.book[side][h].seq], m.book[side][h].size>>

QuotesOn(m, side, seat) == {QuoteOf(m, side, h) : h \in OwnSlots(m, side, seat)}

LEMMA QuotesOnCount ==
  ASSUME NEW m, m \in MarketType, NEW side \in Sides, NEW seat \in Seats
  PROVE  /\ IsFiniteSet(QuotesOn(m, side, seat))
         /\ Cardinality(QuotesOn(m, side, seat)) \in Nat
         /\ Cardinality(QuotesOn(m, side, seat)) <= Rests(m, side, seat, {}, "orders")
         /\ Rests(m, side, seat, {}, "orders") \in Nat
<1> DEFINE own == OwnSlots(m, side, seat)
           f == Standing(m, side, seat, {}, "orders")
           g == [h \in own |-> QuoteOf(m, side, h)]
           Q == QuotesOn(m, side, seat)
<1>1. own \subseteq 1 .. BookCapacity
  BY DEF OwnSlots, LiveSlots, Slots
<1>2. \A h \in 1 .. BookCapacity : f[h] = IF h \in own THEN 1 ELSE 0
  BY DEF Standing, Weight, OwnSlots, LiveSlots, Live, NoSeat, Slots, Seats
<1>3. g \in Surjection(own, Q)
  BY DEF QuotesOn, Surjection
<1> HIDE DEF own, f, g, Q
<1>4. IsFiniteSet(own) /\ Cardinality(own) = SumTo(f, BookCapacity)
  BY <1>1, <1>2, CountBySum
<1>5. IsFiniteSet(Q) /\ Cardinality(Q) <= Cardinality(own)
  BY <1>3, <1>4, FS_Surjection
<1>6. Cardinality(Q) \in Nat
  BY <1>5, FS_CardinalityType
<1>7. Rests(m, side, seat, {}, "orders") \in Nat
  BY StandingNat
<1>8. Cardinality(own) = Rests(m, side, seat, {}, "orders")
  BY <1>4 DEF Rests, f
<1> QED BY <1>5, <1>6, <1>7, <1>8 DEF Q

LEMMA OwnQuotesCount ==
  ASSUME NEW m, m \in MarketType, Seat \in Seats
  PROVE  /\ IsFiniteSet(OwnQuotes(m)) /\ Cardinality(OwnQuotes(m)) \in Nat
         /\ Cardinality(OwnQuotes(m))
              <= Rests(m, "Bid", Seat, {}, "orders") + Rests(m, "Ask", Seat, {}, "orders")
<1> DEFINE B == QuotesOn(m, "Bid", Seat)
           A == QuotesOn(m, "Ask", Seat)
           rb == Rests(m, "Bid", Seat, {}, "orders")
           ra == Rests(m, "Ask", Seat, {}, "orders")
<1>1. OwnQuotes(m) = B \cup A
  BY DEF OwnQuotes, QuotesOn, QuoteOf, Sides
<1>2. /\ IsFiniteSet(B) /\ Cardinality(B) \in Nat /\ Cardinality(B) <= rb /\ rb \in Nat
      /\ IsFiniteSet(A) /\ Cardinality(A) \in Nat /\ Cardinality(A) <= ra /\ ra \in Nat
  BY QuotesOnCount DEF Sides
<1> HIDE DEF A, B, ra, rb
<1>3. /\ IsFiniteSet(B \cup A)
      /\ Cardinality(B \cup A) = Cardinality(B) + Cardinality(A) - Cardinality(B \cap A)
  BY <1>2, FS_Union
<1>4. IsFiniteSet(B \cap A)
  <2>1. B \cap A \in SUBSET B
    OBVIOUS
  <2> QED BY <1>2, <2>1, FS_Subset
<1>5. Cardinality(B \cap A) \in Nat /\ Cardinality(B \cup A) \in Nat
  BY <1>3, <1>4, FS_CardinalityType
<1>6. Cardinality(B \cup A) <= rb + ra
  BY <1>2, <1>3, <1>5
<1> QED BY <1>1, <1>3, <1>5, <1>6 DEF ra, rb

LEMMA WithdrawnNow ==
  ASSUME BotInv
  PROVE  QuotesDoNotOutliveTheBot
<1> SUFFICES ASSUME phase = "Stopped", report = "Withdrawn"
             PROVE  Cardinality(OwnQuotes(market)) <= 2 * lost * Levels
  BY DEF QuotesDoNotOutliveTheBot
<1> DEFINE rb == Rests(market, "Bid", Seat, {}, "orders")
           ra == Rests(market, "Ask", Seat, {}, "orders")
           lb == LatePlaces("Bid", "orders")
           la == LatePlaces("Ask", "orders")
           K == lost * Side("orders")
           c == Cardinality(OwnQuotes(market))
<1>1. /\ market \in MarketType /\ Seat \in Seats /\ TypeOK /\ Counted
  BY Basics DEF BotInv
<1>2. "orders" \in Measures /\ "Bid" \in Sides /\ "Ask" \in Sides
  BY DEF Measures, Sides
<1>3. /\ K \in Nat /\ rb \in Nat /\ ra \in Nat /\ lb \in Nat /\ la \in Nat /\ lost \in Nat
  BY <1>1, <1>2, Counts DEF Mine
<1>4. rb + lb <= K /\ ra + la <= K
  BY <1>1, <1>2 DEF Counted, WithdrawnLeavesLost, Mine
<1>5. c \in Nat /\ c <= rb + ra
  BY <1>1, OwnQuotesCount
<1>6. 2 * lost * Levels = K + K
  <2>1. K = lost * Levels
    BY DEF Side, Rung
  <2> QED BY <1>3, <2>1
<1> HIDE DEF rb, ra, lb, la, K, c
<1>7. c <= K + K
  BY <1>3, <1>4, <1>5
<1> QED BY <1>6, <1>7 DEF c

(* Once the bot has stopped and been told that its ladder is down, nothing *)
(* of its rests but for a ladder of each refresh whose reply was lost      *)
(* (main.rs, "the one thing that must happen on the way out").             *)
THEOREM WithdrawnIsWithdrawn == Spec => []QuotesDoNotOutliveTheBot
<1>1. BotInv => QuotesDoNotOutliveTheBot
  BY WithdrawnNow
<1> QED BY <1>1, BotInvariant, PTL

-----------------------------------------------------------------------------
(* A refresh, order by order. *)

QuotesBy(m, seat) == UNION {QuotesOn(m, side, seat) : side \in Sides}

LEMMA QuotesByFacts ==
  ASSUME NEW m, NEW seat \in Seats, NEW q
  PROVE  q \in QuotesBy(m, seat) <=>
           \E side \in Sides : \E h \in Slots :
             m.book[side][h].seat = seat /\ q = QuoteOf(m, side, h)
<1>1. \A side \in Sides : \A h :
        h \in OwnSlots(m, side, seat) <=> h \in Slots /\ m.book[side][h].seat = seat
  BY DEF OwnSlots, LiveSlots, Live, NoSeat, Seats
<1>2. q \in QuotesBy(m, seat) <=>
        \E side \in Sides : \E h \in OwnSlots(m, side, seat) : q = QuoteOf(m, side, h)
  BY DEF QuotesBy, QuotesOn
<1> QED BY <1>1, <1>2

LEMMA QuotesByFinite ==
  ASSUME NEW m, m \in MarketType, NEW seat \in Seats
  PROVE  IsFiniteSet(QuotesBy(m, seat)) /\ Cardinality(QuotesBy(m, seat)) \in Nat
<1> DEFINE B == QuotesOn(m, "Bid", seat)
           A == QuotesOn(m, "Ask", seat)
<1>1. QuotesBy(m, seat) = B \cup A
  BY DEF QuotesBy, Sides
<1>2. IsFiniteSet(B) /\ IsFiniteSet(A)
  BY QuotesOnCount DEF Sides
<1> HIDE DEF A, B
<1>3. IsFiniteSet(B \cup A)
  BY <1>2, FS_Union
<1>4. Cardinality(B \cup A) \in Nat
  BY <1>3, FS_CardinalityType
<1> QED BY <1>1, <1>3, <1>4

LEMMA QuoteOfFacts ==
  ASSUME NEW m, NEW side, NEW h
  PROVE  /\ QuoteOf(m, side, h)[1].side = side
         /\ QuoteOf(m, side, h)[1].seq = m.book[side][h].seq
         /\ QuoteOf(m, side, h)[1] = [side |-> side, seq |-> m.book[side][h].seq]
BY DEF QuoteOf

(* A cancel takes the order it names, and no other. *)
LEMMA CancelQuotes ==
  ASSUME NEW m, Sound(m), NEW id \in IdType, NEW seat \in Seats
  PROVE  LET n == CancelIfResting(m, id)
         IN  /\ QuotesBy(n, seat) = {q \in QuotesBy(m, seat) : id # q[1]}
             /\ n.next_seq = m.next_seq
<1> DEFINE n == CancelIfResting(m, id)
           h == CHOOSE h \in Found(m, id) : TRUE
<1>1. m \in MarketType /\ IdsUnique(m) /\ id.side \in Sides
      /\ id = [side |-> id.side, seq |-> id.seq]
  BY DEF Sound, WellFormed, IdType
<1>2. ASSUME NEW d \in Sides, NEW k \in Slots, m.book[d][k].seat = seat,
             QuoteOf(m, d, k)[1] = id
      PROVE  k \in Found(m, id) /\ id.side = d
  <2>1. id.side = d /\ id.seq = m.book[d][k].seq
    <3>1. QuoteOf(m, d, k)[1].side = d /\ QuoteOf(m, d, k)[1].seq = m.book[d][k].seq
      BY DEF QuoteOf
    <3> QED BY <1>2, <3>1
  <2> QED BY <1>2, <2>1 DEF Found, LiveSlots, Live, NoSeat, Seats
<1>3. CASE Found(m, id) = {}
  <2>1. n = m
    BY <1>3 DEF CancelIfResting
  <2>2. ASSUME NEW q \in QuotesBy(m, seat) PROVE id # q[1]
    <3>1. PICK d \in Sides, k \in Slots : m.book[d][k].seat = seat /\ q = QuoteOf(m, d, k)
      BY <2>2, QuotesByFacts
    <3> QED BY <1>2, <1>3, <3>1
  <2> QED BY <2>1, <2>2
<1>4. CASE Found(m, id) # {}
  <2>1. h \in Found(m, id)
    BY <1>4
  <2>2. n = CancelWhole(m, id.side, h)
    BY <1>4 DEF CancelIfResting
  <2> HIDE DEF h
  <2>3. h \in LiveSlots(m, id.side) /\ m.book[id.side][h].seq = id.seq
    BY <2>1 DEF Found
  <2>4. \A k \in Found(m, id) : k = h
    BY <1>1, <2>3 DEF Found, IdsUnique
  <2>5. /\ n.next_seq = m.next_seq
        /\ \A d \in Sides : \A k \in Slots :
             n.book[d][k] = IF d = id.side /\ k = h THEN NoOrder ELSE m.book[d][k]
    BY <1>1, <2>2, <2>3, CancelFacts
  <2>6. NoOrder.seat # seat
    BY DEF NoOrder, NoSeat, Seats
  <2>7. QuoteOf(m, id.side, h)[1] = id
    BY <1>1, <2>3, QuoteOfFacts
  <2> HIDE DEF n
  <2>8. \A d \in Sides : \A k \in Slots : n.book[d][k].seat = seat <=>
          m.book[d][k].seat = seat /\ ~ (d = id.side /\ k = h)
    BY <2>5, <2>6
  <2>9. \A d \in Sides : \A k \in Slots : ~ (d = id.side /\ k = h) =>
          QuoteOf(n, d, k) = QuoteOf(m, d, k)
    BY <2>5 DEF QuoteOf
  <2>10. ASSUME NEW q
         PROVE  q \in QuotesBy(n, seat) <=> q \in QuotesBy(m, seat) /\ id # q[1]
    <3>1. ASSUME q \in QuotesBy(n, seat) PROVE q \in QuotesBy(m, seat) /\ id # q[1]
      <4>1. PICK d \in Sides, k \in Slots : n.book[d][k].seat = seat /\ q = QuoteOf(n, d, k)
        BY <3>1, QuotesByFacts
      <4>2. m.book[d][k].seat = seat /\ ~ (d = id.side /\ k = h) /\ q = QuoteOf(m, d, k)
        BY <2>8, <2>9, <4>1
      <4>3. q \in QuotesBy(m, seat)
        BY <4>2, QuotesByFacts
      <4>4. id # q[1]
        BY <1>2, <2>4, <4>2
      <4> QED BY <4>3, <4>4
    <3>2. ASSUME q \in QuotesBy(m, seat), id # q[1] PROVE q \in QuotesBy(n, seat)
      <4>1. PICK d \in Sides, k \in Slots : m.book[d][k].seat = seat /\ q = QuoteOf(m, d, k)
        BY <3>2, QuotesByFacts
      <4>2. ~ (d = id.side /\ k = h)
        BY <2>7, <3>2, <4>1
      <4>3. n.book[d][k].seat = seat /\ q = QuoteOf(n, d, k)
        BY <2>8, <2>9, <4>1, <4>2
      <4> QED BY <4>3, QuotesByFacts
    <3> QED BY <3>1, <3>2
  <2> QED BY <2>5, <2>10 DEF n
<1> QED BY <1>3, <1>4

(* A packet that is accepted adds one order, under an id that is new. *)
LEMMA PlaceQuotes ==
  ASSUME NEW m, Sound(m), NEW seat \in Seats, SeatLive(m, seat), NEW quote \in QuoteType,
         CanPlace(m, seat, quote)
  PROVE  LET n == Place(m, seat, quote)
         IN  /\ n.next_seq = m.next_seq + 1
             /\ \E new : /\ QuotesBy(n, seat) = QuotesBy(m, seat) \cup {new}
                         /\ new \notin QuotesBy(m, seat)
                         /\ new[1].seq = m.next_seq
<1> DEFINE n == Place(m, seat, quote)
<1>1. m \in MarketType /\ IdsUnique(m) /\ m.next_seq \in Nat
  BY MarketFields DEF Sound, WellFormed
<1>0. n.next_seq = m.next_seq + 1
  BY <1>1 DEF Place, Post, MarketType
<1>2. PICK h \in Slots :
        /\ ~ Live(m.book[quote.side][h])
        /\ \A d \in Sides : \A k \in Slots :
             n.book[d][k] =
               IF d = quote.side /\ k = h
               THEN [price |-> quote.price, seq |-> m.next_seq,
                     seat |-> seat, size |-> quote.size]
               ELSE m.book[d][k]
  BY PlaceFacts
<1> HIDE DEF n
<1> DEFINE new == QuoteOf(n, quote.side, h)
<1>3. quote.side \in Sides
  BY DEF QuoteType
<1>4. /\ n.book[quote.side][h].seat = seat /\ n.book[quote.side][h].seq = m.next_seq
      /\ m.book[quote.side][h].seat # seat
  BY <1>2, <1>3 DEF Live, NoSeat, Seats
<1>5. new[1].seq = m.next_seq
  BY <1>4 DEF QuoteOf
<1>6. ASSUME NEW q \in QuotesBy(m, seat) PROVE q[1].seq < m.next_seq
  <2>1. PICK d \in Sides, k \in Slots : m.book[d][k].seat = seat /\ q = QuoteOf(m, d, k)
    BY <1>6, QuotesByFacts
  <2>2. k \in LiveSlots(m, d)
    BY <2>1 DEF LiveSlots, Live, NoSeat, Seats
  <2>3. q[1].seq = m.book[d][k].seq
    BY <2>1 DEF QuoteOf
  <2>4. m.book[d][k].seq < m.next_seq
    BY <1>1, <2>2 DEF IdsUnique
  <2> QED BY <2>3, <2>4
<1>7. new \notin QuotesBy(m, seat)
  BY <1>1, <1>5, <1>6
<1>8. \A d \in Sides : \A k \in Slots : ~ (d = quote.side /\ k = h) =>
        n.book[d][k].seat = m.book[d][k].seat /\ QuoteOf(n, d, k) = QuoteOf(m, d, k)
  BY <1>2 DEF QuoteOf
<1>9. ASSUME NEW q
      PROVE  q \in QuotesBy(n, seat) <=> q \in QuotesBy(m, seat) \/ q = new
  <2> HIDE DEF new
  <2>1. ASSUME q \in QuotesBy(n, seat), q # new PROVE q \in QuotesBy(m, seat)
    <3>1. PICK d \in Sides, k \in Slots : n.book[d][k].seat = seat /\ q = QuoteOf(n, d, k)
      BY <2>1, QuotesByFacts
    <3>2. ~ (d = quote.side /\ k = h)
      BY <2>1, <3>1 DEF new
    <3>3. m.book[d][k].seat = seat /\ q = QuoteOf(m, d, k)
      BY <1>8, <3>1, <3>2
    <3> QED BY <3>3, QuotesByFacts
  <2>2. ASSUME q \in QuotesBy(m, seat) PROVE q \in QuotesBy(n, seat)
    <3>1. PICK d \in Sides, k \in Slots : m.book[d][k].seat = seat /\ q = QuoteOf(m, d, k)
      BY <2>2, QuotesByFacts
    <3>2. ~ (d = quote.side /\ k = h)
      BY <1>4, <3>1
    <3>3. n.book[d][k].seat = seat /\ q = QuoteOf(n, d, k)
      BY <1>8, <3>1, <3>2
    <3> QED BY <3>3, QuotesByFacts
  <2>3. new \in QuotesBy(n, seat)
    BY <1>3, <1>4, QuotesByFacts DEF new
  <2> QED BY <2>1, <2>2, <2>3
<1> HIDE DEF new
<1>10. QuotesBy(n, seat) = QuotesBy(m, seat) \cup {new}
  BY <1>9
<1>11. \E x : /\ QuotesBy(n, seat) = QuotesBy(m, seat) \cup {x}
              /\ x \notin QuotesBy(m, seat)
              /\ x[1].seq = m.next_seq
  BY <1>5, <1>7, <1>10
<1> QED BY <1>0, <1>11 DEF n

(* What a transaction finds and does not name. *)
Kept(tx, m, seat) == {q \in QuotesBy(m, seat) : \A i \in DOMAIN tx.cancels : tx.cancels[i] # q[1]}

LEMMA CancelRun ==
  ASSUME NEW tx \in Transaction, tx.kind = "Refresh",
         NEW m, Sound(m), NEW seat \in Seats, SeatLive(m, seat),
         NEW n \in Nat, n = Len(tx.cancels)
  PROVE  LET g == Performed(m, seat, Operations(tx))
         IN  QuotesBy(g[n], seat) = Kept(tx, m, seat) /\ g[n].next_seq = m.next_seq
<1> DEFINE ops == Operations(tx)
           g == Performed(m, seat, ops)
           left(i) == {q \in QuotesBy(m, seat) : \A j \in 1 .. i : tx.cancels[j] # q[1]}
           S == {i \in 0 .. n : QuotesBy(g[i], seat) = left(i) /\ g[i].next_seq = m.next_seq}
<1>1. /\ Steps(ops) /\ Len(ops) \in Nat /\ n \in 0 .. Len(ops)
      /\ \A i \in 1 .. n : ops[i] = [kind |-> "Cancel", id |-> tx.cancels[i]]
      /\ tx.cancels \in Seq(IdType)
  <2>1. Len(tx.places) \in Nat /\ Len(ops) = n + Len(tx.places)
    BY RefreshOperations
  <2>2. /\ Steps(ops) /\ \A i \in 1 .. n : ops[i] = [kind |-> "Cancel", id |-> tx.cancels[i]]
    BY RefreshOperations
  <2> HIDE DEF ops
  <2> QED BY <2>1, <2>2 DEF Transaction
<1>2. g[0] = m /\ \A i \in 1 .. Len(ops) : g[i] = Perform(g[i - 1], seat, ops[i])
  BY <1>1, Runs
<1>3. \A i \in 0 .. Len(ops) : Sound(g[i])
  BY <1>1, RunFacts
<1>4. DOMAIN tx.cancels = 1 .. n /\ \A i \in 1 .. n : tx.cancels[i] \in IdType
  BY <1>1
<1> HIDE DEF g, ops
<1>5. 0 \in S
  BY <1>2
<1>6. ASSUME NEW i \in 1 .. n, i - 1 \in S PROVE i \in S
  <2> DEFINE id == tx.cancels[i]
             p == g[i - 1]
  <2>1. /\ i \in 0 .. n /\ i \in 1 .. Len(ops) /\ i - 1 \in 0 .. Len(ops)
        /\ id \in IdType /\ Sound(p)
    BY <1>1, <1>3, <1>4
  <2>2. g[i] = CancelIfResting(p, id)
    <3>1. ops[i] = [kind |-> "Cancel", id |-> id]
      BY <1>1
    <3>2. ops[i].kind = "Cancel" /\ ops[i].id = id
      BY <3>1
    <3>3. g[i] = Perform(p, seat, ops[i])
      BY <1>2, <2>1
    <3> HIDE DEF id, p
    <3> QED BY <3>2, <3>3 DEF Perform
  <2>3. QuotesBy(p, seat) = left(i - 1) /\ p.next_seq = m.next_seq
    BY <1>6
  <2> HIDE DEF p
  <2>4. QuotesBy(g[i], seat) = {q \in QuotesBy(p, seat) : id # q[1]}
    BY <2>1, <2>2, CancelQuotes
  <2>5. g[i].next_seq = p.next_seq
    BY <2>1, <2>2, CancelQuotes
  <2>6. left(i) = {q \in left(i - 1) : id # q[1]}
    <3>1. 1 .. i = (1 .. i - 1) \cup {i}
      OBVIOUS
    <3> QED BY <3>1
  <2> QED BY <2>1, <2>3, <2>4, <2>5, <2>6
<1> HIDE DEF S
<1>7. n \in S
  <2>1. \A i \in 1 .. n : i - 1 \in S => i \in S
    BY <1>6
  <2>2. \A i \in 0 .. n : i \in S
    BY ONLY n \in Nat, <1>5, <2>1, Upward
  <2> QED BY <2>2
<1>8. left(n) = Kept(tx, m, seat)
  BY <1>4 DEF Kept
<1> QED BY <1>7, <1>8 DEF S, g, ops

(* With kept resting, and orders newer than those of m. *)
Grown(p, m, seat, kept, count) ==
  /\ IsFiniteSet(QuotesBy(p, seat)) /\ Cardinality(QuotesBy(p, seat)) = Cardinality(kept) + count
  /\ kept \subseteq QuotesBy(p, seat)
  /\ \A q \in QuotesBy(p, seat) : q \in kept \/ q[1].seq >= m.next_seq
  /\ p.next_seq \in Nat /\ p.next_seq >= m.next_seq

LEMMA GrownAgain ==
  ASSUME NEW m, NEW seat \in Seats, m.next_seq \in Nat, NEW kept, NEW count \in Nat,
         IsFiniteSet(kept),
         NEW p, Sound(p), SeatLive(p, seat), Grown(p, m, seat, kept, count),
         NEW quote \in QuoteType, CanPlace(p, seat, quote)
  PROVE  Grown(Place(p, seat, quote), m, seat, kept, count + 1)
<1> DEFINE n == Place(p, seat, quote)
           Q == QuotesBy(p, seat)
<1>1. n.next_seq = p.next_seq + 1
  <2>1. p \in MarketType
    BY DEF Sound, WellFormed
  <2> QED BY <2>1 DEF Place, Post, MarketType
<1>2. PICK new : /\ QuotesBy(n, seat) = QuotesBy(p, seat) \cup {new}
                 /\ new \notin QuotesBy(p, seat)
                 /\ new[1].seq = p.next_seq
  BY PlaceQuotes
<1> HIDE DEF n
<1>3. /\ IsFiniteSet(Q) /\ Cardinality(Q) = Cardinality(kept) + count
      /\ kept \subseteq Q
      /\ \A q \in Q : q \in kept \/ q[1].seq >= m.next_seq
      /\ p.next_seq \in Nat /\ p.next_seq >= m.next_seq
  BY DEF Grown
<1>4. QuotesBy(n, seat) = Q \cup {new} /\ new \notin Q
  BY <1>2
<1> HIDE DEF Q
<1>5. /\ IsFiniteSet(Q \cup {new})
      /\ Cardinality(Q \cup {new}) = IF new \in Q THEN Cardinality(Q) ELSE Cardinality(Q) + 1
  BY <1>3, FS_AddElement
<1>6. Cardinality(kept) \in Nat
  BY FS_CardinalityType
<1>7. Cardinality(QuotesBy(n, seat)) = Cardinality(kept) + (count + 1)
  BY <1>3, <1>4, <1>5, <1>6
<1>8. \A q \in QuotesBy(n, seat) : q \in kept \/ q[1].seq >= m.next_seq
  BY <1>2, <1>3, <1>4
<1> QED BY <1>1, <1>3, <1>4, <1>5, <1>7, <1>8 DEF Grown, n

(* The packets of a refresh that is not refused each add one order. *)
LEMMA PlaceRun ==
  ASSUME NEW tx \in Transaction, tx.kind = "Refresh",
         NEW m, Sound(m), NEW seat \in Seats, SeatLive(m, seat),
         ~ Refused(m, seat, Operations(tx))
  PROVE  LET g == Performed(m, seat, Operations(tx))
         IN  Grown(g[Len(Operations(tx))], m, seat, Kept(tx, m, seat), Len(tx.places))
<1> DEFINE ops == Operations(tx)
           g == Performed(m, seat, ops)
           kept == Kept(tx, m, seat)
           n == Len(tx.cancels)
           k == Len(tx.places)
           S == {j \in 0 .. k : Grown(g[n + j], m, seat, kept, j)}
<1>1. /\ Steps(ops) /\ n \in Nat /\ k \in Nat /\ Len(ops) = n + k
      /\ \A i \in n + 1 .. n + k : ops[i] = [kind |-> "Place", quote |-> tx.places[i - n]]
  BY RefreshOperations
<1>0. Len(ops) \in Nat
  <2>1. n \in Nat /\ k \in Nat /\ Len(ops) = n + k
    BY <1>1
  <2> HIDE DEF ops, n, k
  <2> QED BY <2>1
<1>2. g[0] = m /\ \A i \in 1 .. Len(ops) : g[i] = Perform(g[i - 1], seat, ops[i])
  BY <1>0, Runs
<1>3. \A i \in 0 .. Len(ops) : Sound(g[i]) /\ SeatLive(g[i], seat)
  BY <1>1, RunFacts
<1>4. \A i \in DOMAIN ops : Accepted(g[i - 1], seat, ops[i])
  BY DEF Refused
<1>5. QuotesBy(g[n], seat) = kept /\ g[n].next_seq = m.next_seq
  BY <1>1, CancelRun
<1>6. m \in MarketType /\ m.next_seq \in Nat
  BY MarketFields DEF Sound, WellFormed
<1>7. \A j \in 1 .. k : tx.places[j] \in QuoteType
  BY DEF Transaction
<1>8. \A i \in 1 .. n + k : i \in DOMAIN ops
  BY <1>1 DEF Steps
<1> HIDE DEF g, ops, n, k
<1>9. Sound(g[n])
  BY <1>1, <1>3
<1>10. IsFiniteSet(kept) /\ Cardinality(kept) \in Nat
  <2>1. g[n] \in MarketType
    BY <1>9 DEF Sound, WellFormed
  <2> QED BY <1>5, <2>1, QuotesByFinite
<1> HIDE DEF kept
<1>11. 0 \in S
  <2>1. Grown(g[n], m, seat, kept, 0)
    BY <1>5, <1>6, <1>10 DEF Grown
  <2>2. n + 0 = n /\ 0 \in 0 .. k
    BY <1>1
  <2> QED BY <2>1, <2>2
<1>12. ASSUME NEW j \in 1 .. k, j - 1 \in S PROVE j \in S
  <2> DEFINE p == g[(n + j) - 1]
             quote == tx.places[j]
  <2>1. /\ j \in Int /\ n + j \in n + 1 .. n + k /\ n + j \in 1 .. n + k
        /\ (n + j) - 1 \in 0 .. n + k /\ (n + j) - n = j /\ n + (j - 1) = (n + j) - 1
        /\ j - 1 \in Nat /\ (j - 1) + 1 = j /\ j \in 0 .. k
    BY <1>1
  <2>2. ops[n + j] = [kind |-> "Place", quote |-> quote]
    BY <1>1, <2>1
  <2>3. ops[n + j].kind = "Place" /\ ops[n + j].quote = quote
    BY <2>2
  <2>4. g[n + j] = Perform(p, seat, ops[n + j]) /\ Accepted(p, seat, ops[n + j])
    <3> DEFINE i == n + j
    <3>1. i \in 1 .. Len(ops) /\ i \in DOMAIN ops
      BY <1>1, <1>8, <2>1
    <3>2. p = g[i - 1]
      OBVIOUS
    <3> HIDE DEF i, p, S
    <3>3. g[i] = Perform(g[i - 1], seat, ops[i])
      BY <1>2, <3>1
    <3>4. Accepted(g[i - 1], seat, ops[i])
      BY <1>4, <3>1
    <3> QED BY <3>2, <3>3, <3>4 DEF i
  <2>5. Grown(p, m, seat, kept, j - 1) /\ Sound(p) /\ SeatLive(p, seat)
    BY <1>1, <1>3, <1>12, <2>1
  <2>6. quote \in QuoteType
    BY <1>7
  <2> HIDE DEF p, quote
  <2>7. CanPlace(p, seat, quote)
    BY <2>3, <2>4 DEF Accepted
  <2>8. g[n + j] = Place(p, seat, quote)
    BY <2>3, <2>4, <2>7 DEF Perform
  <2>9. Grown(Place(p, seat, quote), m, seat, kept, (j - 1) + 1)
    BY <1>6, <1>10, <2>1, <2>5, <2>6, <2>7, GrownAgain
  <2>10. Grown(g[n + j], m, seat, kept, j)
    BY <2>1, <2>8, <2>9
  <2> QED BY <2>1, <2>10
<1> HIDE DEF S
<1>13. k \in S
  <2>1. \A j \in 1 .. k : j - 1 \in S => j \in S
    BY <1>12
  <2>2. k \in Nat
    BY <1>1
  <2>3. \A j \in 0 .. k : j \in S
    BY ONLY <1>11, <2>1, <2>2, Upward
  <2> QED BY <2>2, <2>3
<1>14. Grown(g[Len(ops)], m, seat, kept, k)
  BY <1>1, <1>13 DEF S
<1> QED BY <1>14 DEF g, ops, k, kept

LEMMA OldQuotes ==
  ASSUME NEW m, Sound(m), NEW seat \in Seats, NEW q \in QuotesBy(m, seat)
  PROVE  q[1].seq \in Nat /\ m.next_seq \in Nat /\ q[1].seq < m.next_seq
<1>1. m \in MarketType /\ IdsUnique(m) /\ m.next_seq \in Nat
  BY MarketFields DEF Sound, WellFormed
<1>2. PICK d \in Sides, k \in Slots : m.book[d][k].seat = seat /\ q = QuoteOf(m, d, k)
  BY QuotesByFacts
<1>3. k \in LiveSlots(m, d)
  BY <1>2 DEF LiveSlots, Live, NoSeat, Seats
<1>4. q[1].seq = m.book[d][k].seq
  BY <1>2 DEF QuoteOf
<1>5. m.book[d][k].seq < m.next_seq
  BY <1>1, <1>3 DEF IdsUnique
<1>6. m.book[d][k].seq \in Nat
  <2>1. m.book[d][k] \in Order
    BY <1>1, <1>3, MarketFields DEF LiveSlots
  <2> QED BY <2>1, OrderFields
<1> QED BY <1>1, <1>4, <1>5, <1>6

(* A refresh that is not refused keeps what it did not name, and adds its  *)
(* whole ladder under new ids.                                             *)
LEMMA RefreshedBy ==
  ASSUME NEW tx \in Transaction, tx.kind = "Refresh",
         NEW m, Sound(m), NEW seat \in Seats, SeatLive(m, seat),
         ~ Refused(m, seat, Operations(tx))
  PROVE  LET n == Performed(m, seat, Operations(tx))[Len(Operations(tx))]
         IN  /\ QuotesBy(m, seat) \cap QuotesBy(n, seat) = Kept(tx, m, seat)
             /\ Cardinality(QuotesBy(n, seat)) =
                  Cardinality(Kept(tx, m, seat)) + Len(tx.places)
<1> DEFINE n == Performed(m, seat, Operations(tx))[Len(Operations(tx))]
           kept == Kept(tx, m, seat)
<1>1. Grown(n, m, seat, kept, Len(tx.places))
  BY PlaceRun
<1>2. kept \subseteq QuotesBy(m, seat)
  BY DEF Kept
<1>3. \A q \in QuotesBy(m, seat) :
        q[1].seq \in Nat /\ m.next_seq \in Nat /\ q[1].seq < m.next_seq
  BY OldQuotes
<1> HIDE DEF n, kept
<1>4. /\ Cardinality(QuotesBy(n, seat)) = Cardinality(kept) + Len(tx.places)
      /\ kept \subseteq QuotesBy(n, seat)
      /\ \A q \in QuotesBy(n, seat) : q \in kept \/ q[1].seq >= m.next_seq
  BY <1>1 DEF Grown
<1>5. \A q \in QuotesBy(m, seat) : ~ (q[1].seq >= m.next_seq)
  BY <1>3
<1>6. QuotesBy(m, seat) \cap QuotesBy(n, seat) = kept
  BY <1>2, <1>4, <1>5
<1> QED BY <1>4, <1>6 DEF n, kept

(* The same, of the transactions of the specification: a transaction that  *)
(* is executed on a sound market leaves the orders as they were, or has    *)
(* replaced them.                                                          *)
LEMMA ExecutedIsAllOrNothing ==
  ASSUME Sound(market), Seat \in Seats, SeatLive(market, Seat), NEW tx \in Transaction,
         \/ market' = market
         \/ ~ Fails(market, tx) /\ market' = Executed(market, tx)
  PROVE  AllOrNothing(tx)
<1>1. SUFFICES ASSUME tx.kind = "Refresh" PROVE OwnQuotes(market') = OwnQuotes(market) \/ Refreshed(tx)
  BY DEF AllOrNothing
<1>2. CASE market' = market
  <2>1. OwnQuotes(market') = OwnQuotes(market)
    BY <1>2
  <2> QED BY <2>1
<1>3. CASE ~ Fails(market, tx) /\ market' = Executed(market, tx)
  <2>2. \A m : OwnQuotes(m) = QuotesBy(m, Seat)
    BY DEF OwnQuotes, QuotesBy, QuotesOn, QuoteOf
  <2>3. ~ Refused(market, Seat, Operations(tx))
    BY <1>3 DEF Fails
  <2>4. /\ QuotesBy(market, Seat) \cap QuotesBy(Executed(market, tx), Seat) = Kept(tx, market, Seat)
        /\ Cardinality(QuotesBy(Executed(market, tx), Seat)) =
             Cardinality(Kept(tx, market, Seat)) + Len(tx.places)
    BY <1>1, <2>3, RefreshedBy DEF Executed
  <2>5. /\ OwnQuotes(market) \cap OwnQuotes(market') = Kept(tx, market, Seat)
        /\ Cardinality(OwnQuotes(market')) =
             Cardinality(Kept(tx, market, Seat)) + Len(tx.places)
    BY <1>3, <2>2, <2>4
  <2>6. Kept(tx, market, Seat) =
          {quote \in OwnQuotes(market) : \A i \in DOMAIN tx.cancels : tx.cancels[i] # quote[1]}
    BY <2>2 DEF Kept
  <2> QED BY <2>5, <2>6 DEF Refreshed
<1> QED BY <1>2, <1>3

(* In every step, whichever transaction lands: the one the bot waits for,  *)
(* or one whose reply was lost.                                            *)
LEMMA StepIsAllOrNothing ==
  ASSUME BotInv, [Next]_vars
  PROVE  /\ Lands => AllOrNothing(sent)
         /\ \A i \in Pending : LandsLate /\ late'[i] = NoTransaction => AllOrNothing(late[i])
<1>1. /\ Sound(market) /\ Seat \in Seats /\ SeatLive(market, Seat)
      /\ sent \in Transaction /\ late \in [1 .. MaxLostReplies -> Transaction]
  BY Basics DEF BotInv, TypeOK
<1>2. ASSUME Lands PROVE AllOrNothing(sent)
  <2>1. market' = market \/ (~ Fails(market, sent) /\ market' = Executed(market, sent))
    BY <1>2 DEF Lands
  <2> QED BY <1>1, <2>1, ExecutedIsAllOrNothing
<1>3. ASSUME NEW i \in Pending, LandsLate, late'[i] = NoTransaction PROVE AllOrNothing(late[i])
  <2>1. PICK j \in Pending :
          /\ late' = [late EXCEPT ![j] = NoTransaction]
          /\ market' = IF Fails(market, late[j]) THEN market ELSE Executed(market, late[j])
    BY <1>3 DEF LandsLate
  <2>2. i \in 1 .. MaxLostReplies /\ late[i] # NoTransaction /\ late[i] \in Transaction
    BY <1>1 DEF Pending
  <2>3. i = j
    BY <1>1, <1>3, <2>1, <2>2
  <2>4. market' = market \/ (~ Fails(market, late[i]) /\ market' = Executed(market, late[i]))
    BY <2>1, <2>3
  <2> QED BY <1>1, <2>2, <2>4, ExecutedIsAllOrNothing
<1> QED BY <1>2, <1>3

(* However the market moved after the bot's read, and however late its     *)
(* transaction, a refresh leaves the orders it found, or the whole of its  *)
(* ladder and none of the orders it named (trade.rs batch_update).         *)
THEOREM RefreshAllOrNothing == Spec => RefreshIsAllOrNothing
<1>1. BotInv /\ [Next]_vars =>
        [ /\ Lands => AllOrNothing(sent)
          /\ \A i \in Pending : LandsLate /\ late'[i] = NoTransaction => AllOrNothing(late[i]) ]_vars
  BY StepIsAllOrNothing
<1> QED BY <1>1, BotInvariant, PTL DEF Spec, RefreshIsAllOrNothing

-----------------------------------------------------------------------------
(* The two sides of the book. *)

(* No bid meets an ask. *)
Apart(side, price, m) ==
  \A h \in LiveSlots(m, Opposite(side)) :
    IF side = "Bid" THEN price < m.book["Ask"][h].price ELSE price > m.book["Bid"][h].price

Uncrossed(m) ==
  \A side \in Sides : \A h \in LiveSlots(m, side) : Apart(side, m.book[side][h].price, m)

(* Among the orders in S, the best has the best price. *)
LEMMA TouchIsBest ==
  ASSUME NEW m, WellFormed(m), NEW side \in Sides, NEW S \in SUBSET LiveSlots(m, side), S # {}
  PROVE  /\ BestOf(m, side, S) \in S
         /\ m.book[side][BestOf(m, side, S)].price \in Nat
         /\ \A h \in S :
              /\ m.book[side][h].price \in Nat
              /\ IF side = "Bid"
                 THEN m.book[side][h].price <= m.book[side][BestOf(m, side, S)].price
                 ELSE m.book[side][BestOf(m, side, S)].price <= m.book[side][h].price
<1> DEFINE best == BestOf(m, side, S)
<1>1. /\ best \in S
      /\ \A h \in S \ {best} : Precedes(side, m.book[side][best], m.book[side][h])
  BY BestExists DEF WellFormed
<1>2. \A h \in S : m.book[side][h].price \in Nat
  BY LiveSlotFacts, OrderFields DEF WellFormed
<1> HIDE DEF best
<1>3. \A h \in S : IF side = "Bid"
                   THEN m.book[side][h].price <= m.book[side][best].price
                   ELSE m.book[side][best].price <= m.book[side][h].price
  <2> SUFFICES ASSUME NEW h \in S
               PROVE  IF side = "Bid"
                      THEN m.book[side][h].price <= m.book[side][best].price
                      ELSE m.book[side][best].price <= m.book[side][h].price
    OBVIOUS
  <2>1. CASE h = best
    BY <1>1, <1>2, <2>1
  <2>2. CASE h # best
    BY <1>1, <1>2, <2>2 DEF Precedes
  <2> QED BY <2>1, <2>2
<1> QED BY <1>1, <1>2, <1>3 DEF best

(* A packet that is not slid is one that meets nothing. *)
LEMMA NotSlid ==
  ASSUME NEW m, WellFormed(m), NEW side \in Sides, NEW price \in U64 \ {0}
  PROVE  NonCrossingPrice(m, side, price) = price <=> Apart(side, price, m)
<1> DEFINE other == Opposite(side)
           S == LiveSlots(m, other)
           touch == BestPrice(m, other)
           crosses == S # {} /\ IF side = "Bid" THEN price >= touch ELSE price <= touch
           slid == IF side = "Bid" THEN touch - 1 ELSE touch + 1
<1>1. /\ other \in Sides /\ price \in Nat
      /\ side = "Bid" => other = "Ask"
      /\ side # "Bid" => other = "Bid" /\ side = "Ask"
  BY DEF Opposite, Sides, U64
<1>2. NonCrossingPrice(m, side, price) =
        IF ~ crosses THEN price ELSE IF slid \in U64 \ {0} THEN slid ELSE NoPrice
  BY DEF NonCrossingPrice
<1>3. Apart(side, price, m) =
        \A h \in S : IF side = "Bid" THEN price < m.book["Ask"][h].price
                     ELSE price > m.book["Bid"][h].price
  BY DEF Apart
<1>4. S # {} => /\ touch \in Nat
                /\ \E h \in S : m.book[other][h].price = touch
                /\ \A h \in S :
                     /\ m.book[other][h].price \in Nat
                     /\ IF other = "Bid" THEN m.book[other][h].price <= touch
                        ELSE touch <= m.book[other][h].price
  BY <1>1, TouchIsBest DEF BestPrice, Best
<1> HIDE DEF other, S, touch
<1>5. ~ crosses <=> Apart(side, price, m)
  <2>1. CASE S = {}
    BY <1>3, <2>1
  <2>2. CASE S # {} /\ side = "Bid"
    BY <1>1, <1>3, <1>4, <2>2
  <2>3. CASE S # {} /\ side # "Bid"
    BY <1>1, <1>3, <1>4, <2>3
  <2> QED BY <2>1, <2>2, <2>3
<1>6. crosses => slid # price /\ NoPrice # price
  BY <1>1, <1>4
<1> QED BY <1>2, <1>5, <1>6

(* An account whose orders all rest already, in the same places and at the *)
(* same prices, is no more crossed.                                        *)
LEMMA StaysUncrossed ==
  ASSUME NEW m, Uncrossed(m), NEW n,
         \A side \in Sides : \A h \in Slots :
           Live(n.book[side][h]) =>
             Live(m.book[side][h]) /\ n.book[side][h].price = m.book[side][h].price
  PROVE  Uncrossed(n)
<1>1. \A side \in Sides : Opposite(side) \in Sides
  BY DEF Opposite, Sides
<1>2. \A side \in Sides : \A h \in LiveSlots(n, side) :
        h \in LiveSlots(m, side) /\ n.book[side][h].price = m.book[side][h].price
  BY DEF LiveSlots
<1> QED BY <1>1, <1>2 DEF Uncrossed, Apart, Opposite, Sides

LEMMA CancelUncrossed ==
  ASSUME NEW m, Sound(m), Uncrossed(m), NEW side \in Sides, NEW h \in LiveSlots(m, side)
  PROVE  Uncrossed(CancelWhole(m, side, h))
<1> DEFINE n == CancelWhole(m, side, h)
<1>1. \A d \in Sides : \A k \in Slots :
        n.book[d][k] = IF d = side /\ k = h THEN NoOrder ELSE m.book[d][k]
  BY CancelFacts
<1>2. ~ Live(NoOrder)
  BY DEF Live, NoOrder
<1> HIDE DEF n
<1>3. \A d \in Sides : \A k \in Slots :
        Live(n.book[d][k]) =>
          Live(m.book[d][k]) /\ n.book[d][k].price = m.book[d][k].price
  BY <1>1, <1>2
<1>4. Uncrossed(n)
  BY <1>3, StaysUncrossed
<1> QED BY <1>4 DEF n

LEMMA PlaceUncrossed ==
  ASSUME NEW m, Sound(m), Uncrossed(m), NEW seat \in Seats, SeatLive(m, seat),
         NEW quote \in QuoteType, CanPlace(m, seat, quote)
  PROVE  Uncrossed(Place(m, seat, quote))
<1> DEFINE n == Place(m, seat, quote)
           side == quote.side
           price == quote.price
<1>1. WellFormed(m) /\ side \in Sides /\ price \in U64 \ {0}
  BY DEF Sound, QuoteType
<1>2. Apart(side, price, m)
  BY <1>1, NotSlid DEF CanPlace
<1>3. PICK h \in Slots : \A d \in Sides : \A k \in Slots :
        n.book[d][k] = IF d = side /\ k = h
                       THEN [price |-> price, seq |-> m.next_seq, seat |-> seat, size |-> quote.size]
                       ELSE m.book[d][k]
  BY PlaceFacts
<1> HIDE DEF n, side, price
<1>4. \A d \in Sides : \A k \in LiveSlots(n, d) :
        \/ d = side /\ n.book[d][k].price = price
        \/ k \in LiveSlots(m, d) /\ n.book[d][k].price = m.book[d][k].price
  <2> SUFFICES ASSUME NEW d \in Sides, NEW k \in LiveSlots(n, d)
               PROVE  \/ d = side /\ n.book[d][k].price = price
                      \/ k \in LiveSlots(m, d) /\ n.book[d][k].price = m.book[d][k].price
    OBVIOUS
  <2>1. k \in Slots /\ Live(n.book[d][k])
    BY DEF LiveSlots
  <2>2. CASE d = side /\ k = h
    BY <1>3, <2>1, <2>2
  <2>3. CASE ~ (d = side /\ k = h)
    <3>1. n.book[d][k] = m.book[d][k]
      BY <1>3, <2>1, <2>3
    <3> QED BY <2>1, <3>1 DEF LiveSlots
  <2> QED BY <2>2, <2>3
<1>5. /\ side = "Bid" => \A k \in LiveSlots(m, "Ask") : price < m.book["Ask"][k].price
      /\ side = "Ask" => \A k \in LiveSlots(m, "Bid") : price > m.book["Bid"][k].price
  BY <1>1, <1>2 DEF Apart, Opposite
<1>6. \A b \in LiveSlots(m, "Bid") : \A a \in LiveSlots(m, "Ask") :
        m.book["Bid"][b].price < m.book["Ask"][a].price
  BY DEF Uncrossed, Apart, Opposite, Sides
<1>7. \A b \in LiveSlots(n, "Bid") : \A a \in LiveSlots(n, "Ask") :
        n.book["Bid"][b].price < n.book["Ask"][a].price
  <2> SUFFICES ASSUME NEW b \in LiveSlots(n, "Bid"), NEW a \in LiveSlots(n, "Ask")
               PROVE  n.book["Bid"][b].price < n.book["Ask"][a].price
    OBVIOUS
  <2>1. \/ side = "Bid" /\ n.book["Bid"][b].price = price
        \/ b \in LiveSlots(m, "Bid") /\ n.book["Bid"][b].price = m.book["Bid"][b].price
    BY <1>4 DEF Sides
  <2>2. \/ side = "Ask" /\ n.book["Ask"][a].price = price
        \/ a \in LiveSlots(m, "Ask") /\ n.book["Ask"][a].price = m.book["Ask"][a].price
    BY <1>4 DEF Sides
  <2>3. m \in MarketType /\ price \in Nat
    BY <1>1 DEF WellFormed, U64
  <2>4. /\ b \in LiveSlots(m, "Bid") => m.book["Bid"][b].price \in Nat
        /\ a \in LiveSlots(m, "Ask") => m.book["Ask"][a].price \in Nat
    BY <2>3, LiveSlotFacts, OrderFields DEF Sides
  <2> QED BY <1>1, <1>5, <1>6, <2>1, <2>2, <2>3, <2>4
<1>8. \A d \in Sides : \A k \in LiveSlots(n, d) : d = "Bid" \/ d = "Ask"
  BY DEF Sides
<1>9. \A b \in LiveSlots(n, "Bid") : \A a \in LiveSlots(n, "Ask") :
        n.book["Ask"][a].price > n.book["Bid"][b].price
  <2>1. n \in MarketType
    BY PlaceFacts DEF n, Sound, WellFormed
  <2>2. \A d \in Sides : \A k \in LiveSlots(n, d) : n.book[d][k].price \in Nat
    BY <2>1, LiveSlotFacts, OrderFields
  <2> QED BY <1>7, <2>2 DEF Sides
<1>10. Uncrossed(n)
  BY <1>7, <1>9 DEF Uncrossed, Apart, Opposite, Sides
<1> QED BY <1>10 DEF n

LEMMA PerformUncrossed ==
  ASSUME NEW m, Sound(m), Uncrossed(m), NEW seat \in Seats, SeatLive(m, seat), NEW op, Step(op)
  PROVE  Uncrossed(Perform(m, seat, op))
<1> DEFINE n == Perform(m, seat, op)
<1>1. m \in MarketType /\ IdsUnique(m)
  BY DEF Sound, WellFormed
<1>2. CASE op.kind = "Cancel"
  <2>1. n = CancelIfResting(m, op.id) /\ op.id.side \in Sides
    BY <1>2 DEF Perform, Step, IdType
  <2>2. n = m \/ \E h \in LiveSlots(m, op.id.side) : n = CancelWhole(m, op.id.side, h)
    BY <2>1 DEF CancelIfResting, Found
  <2> QED BY <2>1, <2>2, CancelUncrossed
<1>3. CASE op.kind = "Place"
  <2>1. op.quote \in QuoteType /\ n = IF CanPlace(m, seat, op.quote) THEN Place(m, seat, op.quote) ELSE m
    BY <1>3 DEF Perform, Step
  <2> QED BY <2>1, PlaceUncrossed
<1>4. CASE op.kind = "Sweep"
  <2> DEFINE own == OwnSlots(m, op.side, seat)
  <2>1. op.side \in Sides /\ n = Sweep(m, op.side, seat)
    BY <1>4 DEF Perform, Step
  <2>2. own \subseteq LiveSlots(m, op.side)
    BY DEF OwnSlots
  <2>3. own # {} => BestOf(m, op.side, own) \in own
    BY <1>1, <2>1, <2>2, BestExists
  <2>4. n = m \/ \E h \in LiveSlots(m, op.side) : n = CancelWhole(m, op.side, h)
    BY <2>1, <2>2, <2>3 DEF Sweep
  <2> QED BY <2>1, <2>4, CancelUncrossed
<1> QED BY <1>2, <1>3, <1>4 DEF Step

LEMMA RunUncrossed ==
  ASSUME NEW m, Sound(m), Uncrossed(m), NEW seat \in Seats, SeatLive(m, seat),
         NEW ops, Steps(ops)
  PROVE  \A i \in 0 .. Len(ops) : Uncrossed(Performed(m, seat, ops)[i])
<1> DEFINE N == Len(ops)
           g == Performed(m, seat, ops)
           S == {i \in 0 .. N : Uncrossed(g[i])}
<1>1. g[0] = m /\ \A i \in 1 .. N : g[i] = Perform(g[i - 1], seat, ops[i])
  BY Runs DEF Steps
<1>2. \A i \in 0 .. N : Sound(g[i]) /\ SeatLive(g[i], seat)
  BY RunFacts
<1>3. N \in Nat /\ \A i \in 1 .. N : Step(ops[i])
  BY DEF Steps
<1> HIDE DEF g, N
<1>4. ASSUME NEW i \in 1 .. N, i - 1 \in S PROVE i \in S
  <2>1. i - 1 \in 0 .. N /\ i \in 0 .. N
    BY <1>3
  <2>2. Sound(g[i - 1]) /\ SeatLive(g[i - 1], seat) /\ Uncrossed(g[i - 1]) /\ Step(ops[i])
    BY <1>2, <1>3, <1>4, <2>1
  <2>3. Uncrossed(Perform(g[i - 1], seat, ops[i]))
    BY <2>2, PerformUncrossed
  <2> QED BY <1>1, <2>1, <2>3
<1>5. 0 \in S
  BY <1>1, <1>3
<1>6. \A i \in 0 .. N : i \in S
  <2> HIDE DEF S
  <2> QED BY <1>3, <1>4, <1>5, Upward
<1> QED BY <1>6 DEF g, N

LEMMA FillUncrossed ==
  ASSUME NEW m, Sound(m), Uncrossed(m), NEW k, Fillable(m, k)
  PROVE  Uncrossed(Fill(m, k))
<1> DEFINE n == Fill(m, k)
           side == MakerSide(k)
           h0 == MakerSlot(m, k)
<1>1. \A d \in Sides : \A h \in Slots :
        n.book[d][h] = IF d = side /\ h = h0 THEN Left(m, k) ELSE m.book[d][h]
  BY FillEffect
<1>2. h0 \in LiveSlots(m, side) /\ m.book[side][h0] = Maker(m, k) /\ Maker(m, k) \in Order
  BY MakerFacts DEF Fillable, Sound, WellFormed, Reaches, Maker
<1>3. Live(Left(m, k)) => Left(m, k).price = m.book[side][h0].price
  BY <1>2 DEF Left, Live, NoOrder, Order
<1>4. Live(m.book[side][h0])
  BY <1>2 DEF LiveSlots
<1> HIDE DEF n, side, h0
<1>5. \A d \in Sides : \A h \in Slots :
        Live(n.book[d][h]) =>
          Live(m.book[d][h]) /\ n.book[d][h].price = m.book[d][h].price
  BY <1>1, <1>3, <1>4
<1>6. Uncrossed(n)
  BY <1>5, StaysUncrossed
<1> QED BY <1>6 DEF n

LEMMA ExecutedUncrossed ==
  ASSUME BotInv, Uncrossed(market), NEW tx \in Transaction
  PROVE  Uncrossed(Executed(market, tx))
<1> DEFINE ops == Operations(tx)
<1>1. Sound(market) /\ Seat \in Seats /\ SeatLive(market, Seat)
  BY Basics
<1>2. Steps(ops) /\ Len(ops) \in 0 .. Len(ops)
  BY TransactionSteps DEF Steps
<1> HIDE DEF ops
<1>3. Uncrossed(Performed(market, Seat, ops)[Len(ops)])
  BY <1>1, <1>2, RunUncrossed
<1> QED BY <1>3 DEF Executed, ops

LEMMA OthersUncrossed ==
  ASSUME BotInv, Uncrossed(market), OtherQuotes \/ OtherCancels \/ OtherTakes
  PROVE  Uncrossed(market')
<1>1. /\ Sound(market) /\ market \in MarketType
      /\ \A t \in Others : SeatOf(t) \in Seats /\ SeatLive(market, SeatOf(t))
  BY Basics
<1>2. ASSUME NEW m, Moves(m)
      PROVE  market' = m
  BY <1>2 DEF Moves
<1>3. CASE OtherQuotes
  <2>1. PICK t \in Others, quote \in Quotes :
          CanPlace(market, SeatOf(t), quote) /\ Moves(Place(market, SeatOf(t), quote))
    BY <1>3 DEF OtherQuotes
  <2>2. quote \in QuoteType
    BY DEF QuoteType
  <2>3. Uncrossed(Place(market, SeatOf(t), quote))
    BY <1>1, <2>1, <2>2, PlaceUncrossed
  <2> QED BY <1>2, <2>1, <2>3
<1>4. CASE OtherCancels
  <2>1. PICK t \in Others, side \in Sides : \E h \in OwnSlots(market, side, SeatOf(t)) :
          Moves(CancelWhole(market, side, h))
    BY <1>4 DEF OtherCancels
  <2>2. PICK h \in OwnSlots(market, side, SeatOf(t)) : Moves(CancelWhole(market, side, h))
    BY <2>1
  <2>3. h \in LiveSlots(market, side)
    BY DEF OwnSlots
  <2>4. Uncrossed(CancelWhole(market, side, h))
    BY <1>1, <2>3, CancelUncrossed
  <2> QED BY <1>2, <2>2, <2>4
<1>5. CASE OtherTakes
  <2> DEFINE taker(t, side, size) ==
        [seat |-> SeatOf(t), side |-> side, limit |-> NoPrice,
         remaining |-> size, filled |-> 0, touched |-> 0,
         match_limit |-> 1, self_trade |-> "Abort"]
  <2>1. PICK t \in Others, side \in Sides, size \in TakeSizes :
          /\ Reaches(market, taker(t, side, size))
          /\ ~ IsSelfTrade(market, taker(t, side, size))
          /\ CanSettle(market, taker(t, side, size))
          /\ Moves(Fill(market, taker(t, side, size)))
    BY <1>5 DEF OtherTakes
  <2> DEFINE k == taker(t, side, size)
  <2>2. size \in U64 /\ size \in Nat /\ size <= U64Max
    BY DEF U64
  <2>3. k \in Taker /\ k.seat = SeatOf(t) /\ k.remaining + k.filled <= U64Max
    <3>1. SeatOf(t) \in 0 .. NumSeats /\ 0 \in U64
      BY <1>1 DEF Seats, U64
    <3> QED BY <2>2, <3>1 DEF Taker, SelfTradeBehaviors
  <2>4. Fillable(market, k)
    BY <1>1, <2>1, <2>3 DEF Fillable
  <2> HIDE DEF k
  <2>5. Uncrossed(Fill(market, k))
    BY <1>1, <2>4, FillUncrossed
  <2>6. Moves(Fill(market, k))
    BY <2>1 DEF k
  <2> QED BY <1>2, <2>5, <2>6
<1> QED BY <1>3, <1>4, <1>5

(* The book that others and late transactions leave is never crossed. *)
UncrossedInv == BotInv /\ Uncrossed(market)

LEMMA UncrossedInvariance == Spec => []UncrossedInv
<1>1. Init => UncrossedInv
  <2> SUFFICES ASSUME Init PROVE Uncrossed(market)
    BY InitInv DEF UncrossedInv
  <2>1. PICK seats \in Bijection(Traders, Seats) : market = Seated(seats)
    BY DEF Init
  <2>2. \A side \in Sides : \A h \in Slots : market.book[side][h] = NoOrder
    BY <2>1, SeatedFacts
  <2>3. \A side \in Sides : LiveSlots(market, side) = {}
    BY <2>2 DEF LiveSlots, Live, NoOrder
  <2> QED BY <2>3 DEF Uncrossed
<1>2. UncrossedInv /\ [Next]_vars => UncrossedInv'
  <2> SUFFICES ASSUME BotInv, Uncrossed(market), [Next]_vars
               PROVE  Uncrossed(market)'
    BY NextInv DEF UncrossedInv
  <2>1. ASSUME market' = market PROVE Uncrossed(market)'
    BY <2>1 DEF Uncrossed, Apart, LiveSlots
  <2>2. ASSUME NEW tx \in Transaction, market' = market \/ market' = Executed(market, tx)
        PROVE  Uncrossed(market)'
    <3>1. Uncrossed(market')
      BY <2>2, ExecutedUncrossed
    <3> QED BY <3>1
  <2>3. sent \in Transaction /\ \A i \in 1 .. MaxLostReplies : late[i] \in Transaction
    BY DEF BotInv, TypeOK
  <2>4. CASE BotSteps \/ Interrupt \/ Expires \/ LosesReply \/ ExpiresLate \/ UNCHANGED vars
    BY <2>1, <2>4 DEF BotSteps, Cycle, CycleTooLarge, WithdrawQuotes, Interrupt,
      Expires, LosesReply, ExpiresLate, vars
  <2>5. CASE Lands
    <3>1. market' = market \/ market' = Executed(market, sent)
      BY <2>5 DEF Lands
    <3> QED BY <2>2, <2>3, <3>1
  <2>6. CASE LandsLate
    <3>1. PICK i \in Pending :
            market' = IF Fails(market, late[i]) THEN market ELSE Executed(market, late[i])
      BY <2>6 DEF LandsLate
    <3>2. late[i] \in Transaction
      BY <2>3 DEF Pending
    <3> QED BY <2>2, <3>1, <3>2
  <2>7. CASE OtherQuotes \/ OtherCancels \/ OtherTakes
    <3>1. Uncrossed(market')
      BY <2>7, OthersUncrossed
    <3> QED BY <3>1
  <2> QED BY <2>4, <2>5, <2>6, <2>7 DEF Next
<1> QED BY <1>1, <1>2, PTL DEF Spec

-----------------------------------------------------------------------------
(* Where the ladder stands: bids below the fair price, asks above it, and  *)
(* the fair price between the bids and the asks of the others.             *)

(* The midpoint the bot prices around does not wrap. *)
Priced(m, seat) == ~ MidpointWraps(Touch(m, seat))

OthersOn(m, side, seat) == {h \in LiveSlots(m, side) : m.book[side][h].seat # seat}

LEMMA TouchFacts ==
  ASSUME NEW m, WellFormed(m), NEW side \in Sides, NEW S \in SUBSET LiveSlots(m, side)
  PROVE  /\ S = {} => TouchOf(m, side, S) = NoPrice
         /\ S # {} => /\ TouchOf(m, side, S) \in Nat
                      /\ \E h \in S : TouchOf(m, side, S) = m.book[side][h].price
                      /\ \A h \in S :
                           /\ m.book[side][h].price \in Nat
                           /\ IF side = "Bid" THEN m.book[side][h].price <= TouchOf(m, side, S)
                              ELSE TouchOf(m, side, S) <= m.book[side][h].price
BY TouchIsBest DEF TouchOf

LEMMA FairFacts ==
  ASSUME NEW m, WellFormed(m), Uncrossed(m), NEW seat, Priced(m, seat)
  PROVE  LET fair == Fair(Touch(m, seat))
         IN  /\ fair \in Nat /\ 1 <= fair
             /\ \A h \in OthersOn(m, "Bid", seat) :
                  m.book["Bid"][h].price \in Nat /\ m.book["Bid"][h].price <= fair
             /\ \A h \in OthersOn(m, "Ask", seat) :
                  m.book["Ask"][h].price \in Nat /\ (fair <= m.book["Ask"][h].price \/ fair = 1)
<1> DEFINE B == OthersOn(m, "Bid", seat)
           A == OthersOn(m, "Ask", seat)
           bid == TouchOf(m, "Bid", B)
           ask == TouchOf(m, "Ask", A)
           touch == Touch(m, seat)
           fair == Fair(touch)
<1>1. touch["Bid"] = bid /\ touch["Ask"] = ask
  BY DEF Touch, OthersOn, Sides
<1>2. B \in SUBSET LiveSlots(m, "Bid") /\ A \in SUBSET LiveSlots(m, "Ask")
  BY DEF OthersOn
<1>3. /\ B = {} => bid = NoPrice
      /\ B # {} => /\ bid \in Nat
                   /\ \E h \in B : bid = m.book["Bid"][h].price
                   /\ \A h \in B : m.book["Bid"][h].price \in Nat /\ m.book["Bid"][h].price <= bid
  <2> HIDE DEF B
  <2> QED BY <1>2, TouchFacts DEF Sides
<1>4. /\ A = {} => ask = NoPrice
      /\ A # {} => /\ ask \in Nat
                   /\ \E h \in A : ask = m.book["Ask"][h].price
                   /\ \A h \in A : m.book["Ask"][h].price \in Nat /\ ask <= m.book["Ask"][h].price
  <2> HIDE DEF A
  <2> QED BY <1>2, TouchFacts DEF Sides
<1>5. \A b \in B : \A a \in A : m.book["Bid"][b].price < m.book["Ask"][a].price
  <2>1. \A b \in LiveSlots(m, "Bid") : \A a \in LiveSlots(m, "Ask") :
          m.book["Bid"][b].price < m.book["Ask"][a].price
    BY DEF Uncrossed, Apart, Opposite, Sides
  <2> QED BY <1>2, <2>1
<1> HIDE DEF B, A, bid, ask, touch
<1>6. NoPrice \notin Nat /\ Reference \in Nat
  OBVIOUS
<1> DEFINE Between == /\ fair \in Nat /\ 1 <= fair
                      /\ B # {} => bid <= fair
                      /\ A # {} => fair <= ask \/ fair = 1
<1>7. ASSUME B # {} /\ A # {} PROVE Between
  <2>1. bid \in Nat /\ ask \in Nat /\ bid < ask
    BY <1>3, <1>4, <1>5, <1>7
  <2>2. Midpoint(touch) = (bid + ask) \div 2 /\ TwoSided(touch)
    BY <1>1, <1>6, <2>1 DEF Midpoint, TwoSided, Priced, touch
  <2>3. fair = AtLeastOne((bid + ask) \div 2)
    BY <2>2 DEF Fair, TwoSided
  <2> HIDE DEF fair
  <2> QED BY <2>1, <2>3 DEF AtLeastOne
<1>8. ASSUME B # {} /\ A = {} PROVE Between
  <2>1. bid \in Nat /\ ask = NoPrice
    BY <1>3, <1>4, <1>8
  <2>2. fair = AtLeastOne(IF Reference < bid THEN bid ELSE Reference)
    BY <1>1, <1>6, <2>1 DEF Fair, TwoSided
  <2> HIDE DEF fair
  <2> QED BY <1>6, <1>8, <2>1, <2>2 DEF AtLeastOne
<1>9. ASSUME B = {} /\ A # {} PROVE Between
  <2>1. ask \in Nat /\ bid = NoPrice
    BY <1>3, <1>4, <1>9
  <2>2. fair = AtLeastOne(IF Reference > ask THEN ask ELSE Reference)
    BY <1>1, <1>6, <2>1 DEF Fair, TwoSided
  <2> HIDE DEF fair
  <2> QED BY <1>6, <1>9, <2>1, <2>2 DEF AtLeastOne
<1>10. ASSUME B = {} /\ A = {} PROVE Between
  <2>1. fair = AtLeastOne(Reference)
    BY <1>1, <1>3, <1>4, <1>10 DEF Fair, TwoSided
  <2> HIDE DEF fair
  <2> QED BY <1>6, <1>10, <2>1 DEF AtLeastOne
<1> HIDE DEF fair
<1>11. Between
  BY <1>7, <1>8, <1>9, <1>10
<1>12. /\ fair \in Nat /\ 1 <= fair
       /\ \A h \in B : m.book["Bid"][h].price \in Nat /\ m.book["Bid"][h].price <= fair
       /\ \A h \in A : /\ m.book["Ask"][h].price \in Nat
                       /\ fair <= m.book["Ask"][h].price \/ fair = 1
  BY <1>3, <1>4, <1>11
<1> QED BY <1>12 DEF B, A, fair, touch

LEMMA QuotientBound ==
  ASSUME NEW a \in Nat, NEW l \in Nat \ {0}, NEW b \in 0 .. l
  PROVE  (a * b) \div l \in 0 .. a
<1> DEFINE x == a * b
           q == x \div l
<1>1. x \in Nat /\ x <= a * l
  BY ProductMonotone
<1>2. a * l \in Nat /\ a * l = l * a
  OBVIOUS
<1> HIDE DEF x
<1>3. q \in Nat /\ l * q <= x
  BY <1>1
<1>4. q <= a
  <2> SUFFICES ASSUME a + 1 <= q PROVE FALSE
    BY <1>3
  <2>1. l * (a + 1) <= l * q
    BY <1>3, ProductMonotone
  <2>2. l * (a + 1) = l * a + l
    OBVIOUS
  <2> QED BY <1>1, <1>2, <1>3, <2>1, <2>2
<1> QED BY <1>3, <1>4 DEF x

LEMMA SkewFacts ==
  ASSUME NEW deviation \in Int
  PROVE  Skew(deviation) \in Int /\ - MaxSkew <= Skew(deviation) /\ Skew(deviation) <= MaxSkew
<1> DEFINE size == IF deviation < 0 THEN - deviation ELSE deviation
           least == MinOf(size, InventoryLimit)
           ticks == (MaxSkew * least) \div InventoryLimit
<1>1. InventoryLimit \in Nat \ {0} /\ MaxSkew \in Nat
  OBVIOUS
<1>2. least \in 0 .. InventoryLimit
  BY <1>1 DEF MinOf
<1>3. Skew(deviation) = IF deviation < 0 THEN ticks ELSE - ticks
  BY DEF Skew
<1> HIDE DEF least
<1>4. ticks \in 0 .. MaxSkew
  BY <1>1, <1>2, QuotientBound
<1> HIDE DEF ticks
<1> QED BY <1>1, <1>3, <1>4

(* Every rung of the ladder stands on its side of the fair price. *)
LEMMA RungsStandApart ==
  ASSUME NEW m \in MarketType, NEW seat \in Seats, NEW level \in Nat \ {0},
         Fair(Touch(m, seat)) \in Nat
  PROVE  /\ Centre(m, seat) \in Int
         /\ \A side \in Sides : LevelPrice(side, Centre(m, seat), level) \in Int
         /\ LevelPrice("Bid", Centre(m, seat), level) < Fair(Touch(m, seat))
         /\ LevelPrice("Ask", Centre(m, seat), level) > Fair(Touch(m, seat))
<1> DEFINE fair == Fair(Touch(m, seat))
           deviation == Deviation(m.state[seat])
           skew == Skew(deviation)
           offset == HalfSpread + (level - 1) * LevelStep
<1>1. deviation \in Int
  BY MarketFields, StateFields DEF Deviation, TotalBase
<1>2. skew \in Int /\ - MaxSkew <= skew /\ skew <= MaxSkew
  <2> HIDE DEF deviation
  <2> QED BY <1>1, SkewFacts
<1>3. Centre(m, seat) = fair + skew
  BY DEF Centre
<1>4. MaxSkew \in Nat /\ HalfSpread \in Nat /\ MaxSkew < HalfSpread /\ LevelStep \in Nat
  OBVIOUS
<1>5. offset \in Nat /\ HalfSpread <= offset
  <2>1. level - 1 \in Nat /\ (level - 1) * LevelStep \in Nat
    BY <1>4
  <2> QED BY <1>4, <2>1
<1>6. /\ LevelPrice("Bid", fair + skew, level) = (fair + skew) - offset
      /\ LevelPrice("Ask", fair + skew, level) = (fair + skew) + offset
  BY DEF LevelPrice
<1>7. \A side \in Sides : side = "Bid" \/ side = "Ask"
  BY DEF Sides
<1>8. fair \in Nat
  OBVIOUS
<1> HIDE DEF offset, fair, skew
<1>9. /\ fair + skew \in Int
      /\ (fair + skew) - offset \in Int /\ (fair + skew) + offset \in Int
      /\ (fair + skew) - offset < fair /\ (fair + skew) + offset > fair
  BY <1>2, <1>4, <1>5, <1>8
<1> QED BY <1>3, <1>6, <1>7, <1>9 DEF fair

-----------------------------------------------------------------------------
(* What a refresh finds after its cancels: the book without its orders.    *)

QuotedAs(side, o) == [side |-> side, seq |-> o.seq, price |-> o.price, size |-> o.size]

LEMMA OwnedParts ==
  ASSUME NEW m, WellFormed(m), NEW seat
  PROVE  LET resting == OwnedBy(m, seat)
             p == Cardinality(OwnSlots(m, "Bid", seat))
             q == Cardinality(OwnSlots(m, "Ask", seat))
         IN  /\ p \in Nat /\ q \in Nat
             /\ Len(resting) = p + q /\ DOMAIN resting = 1 .. p + q
             /\ Queue(m, "Bid", seat) \in [1 .. p -> OwnSlots(m, "Bid", seat)]
             /\ Queue(m, "Ask", seat) \in [1 .. q -> OwnSlots(m, "Ask", seat)]
             /\ \A i \in 1 .. p :
                  resting[i] = QuotedAs("Bid", m.book["Bid"][Queue(m, "Bid", seat)[i]])
             /\ \A i \in p + 1 .. p + q :
                  resting[i] = QuotedAs("Ask", m.book["Ask"][Queue(m, "Ask", seat)[i - p]])
<1> DEFINE own(side) == OwnSlots(m, side, seat)
           queue(side) == Queue(m, side, seat)
           mine(side) == [i \in DOMAIN queue(side) |-> QuotedAs(side, m.book[side][queue(side)[i]])]
           s == mine("Bid")
           t == mine("Ask")
           p == Cardinality(own("Bid"))
           q == Cardinality(own("Ask"))
           S == {QuotedAs(side, m.book[side][h]) : side \in Sides, h \in Slots}
<1>1. p \in Nat /\ q \in Nat /\ own("Bid") \subseteq Slots /\ own("Ask") \subseteq Slots
  BY OwnFinite
<1>2. queue("Bid") \in [1 .. p -> own("Bid")] /\ queue("Ask") \in [1 .. q -> own("Ask")]
  BY QueueFacts DEF Sides
<1>3. OwnedBy(m, seat) = s \o t
  BY DEF OwnedBy, QuotedAs
<1> HIDE DEF queue, own, p, q
<1>4. ASSUME NEW side \in Sides, NEW n \in Nat, queue(side) \in [1 .. n -> own(side)],
             own(side) \subseteq Slots
      PROVE  /\ mine(side) \in [1 .. n -> S]
             /\ \A i \in 1 .. n : mine(side)[i] = QuotedAs(side, m.book[side][queue(side)[i]])
  <2>1. DOMAIN queue(side) = 1 .. n
    BY <1>4
  <2>2. \A i \in 1 .. n : queue(side)[i] \in Slots
    BY <1>4
  <2>3. \A i \in 1 .. n : QuotedAs(side, m.book[side][queue(side)[i]]) \in S
    BY <1>4, <2>2
  <2>4. mine(side) = [i \in 1 .. n |-> QuotedAs(side, m.book[side][queue(side)[i]])]
    BY <2>1
  <2> HIDE DEF mine, S
  <2> QED BY <2>3, <2>4
<1> HIDE DEF S
<1>5. /\ s \in [1 .. p -> S] /\ \A i \in 1 .. p : s[i] = QuotedAs("Bid", m.book["Bid"][queue("Bid")[i]])
      /\ t \in [1 .. q -> S] /\ \A i \in 1 .. q : t[i] = QuotedAs("Ask", m.book["Ask"][queue("Ask")[i]])
  <2> HIDE DEF mine
  <2> QED BY <1>1, <1>2, <1>4 DEF Sides
<1> HIDE DEF s, t
<1>6. s \in Seq(S) /\ Len(s) = p /\ t \in Seq(S) /\ Len(t) = q
  BY <1>1, <1>5, SequenceOf
<1>7. /\ s \o t \in Seq(S)
      /\ \A i \in 1 .. p : (s \o t)[i] = s[i]
      /\ \A i \in p + 1 .. p + q : (s \o t)[i] = t[i - p]
  BY ONLY <1>1, <1>6, Concatenated
<1>8. Len(s \o t) = p + q
  BY ONLY <1>6, ConcatLength
<1>9. DOMAIN (s \o t) = 1 .. p + q
  BY <1>7, <1>8
<1>10. \A i \in p + 1 .. p + q : i - p \in 1 .. q
  BY <1>1
<1>11. /\ \A i \in 1 .. p : (s \o t)[i] = QuotedAs("Bid", m.book["Bid"][queue("Bid")[i]])
       /\ \A i \in p + 1 .. p + q :
            (s \o t)[i] = QuotedAs("Ask", m.book["Ask"][queue("Ask")[i - p]])
  BY <1>5, <1>7, <1>10
<1> QED BY <1>1, <1>2, <1>3, <1>8, <1>9, <1>11 DEF queue, own, p, q

(* What a refresh names are orders of its own. *)
LEMMA RefreshNames ==
  ASSUME NEW m, WellFormed(m), NEW i \in DOMAIN Refresh(m).cancels
  PROVE  \E side \in Sides : \E h \in OwnSlots(m, side, Seat) :
           Refresh(m).cancels[i] = [side |-> side, seq |-> m.book[side][h].seq]
<1> DEFINE resting == OwnedBy(m, Seat)
           p == Cardinality(OwnSlots(m, "Bid", Seat))
           q == Cardinality(OwnSlots(m, "Ask", Seat))
           bids == Queue(m, "Bid", Seat)
           asks == Queue(m, "Ask", Seat)
<1>1. /\ p \in Nat /\ q \in Nat /\ DOMAIN resting = 1 .. p + q
      /\ bids \in [1 .. p -> OwnSlots(m, "Bid", Seat)]
      /\ asks \in [1 .. q -> OwnSlots(m, "Ask", Seat)]
      /\ \A j \in 1 .. p : resting[j] = QuotedAs("Bid", m.book["Bid"][bids[j]])
      /\ \A j \in p + 1 .. p + q : resting[j] = QuotedAs("Ask", m.book["Ask"][asks[j - p]])
  BY OwnedParts
<1>2. Refresh(m).cancels = [j \in DOMAIN resting |-> IdOf(resting[j])]
  BY DEF Refresh
<1> HIDE DEF resting, p, q, bids, asks
<1>3. i \in 1 .. p + q /\ Refresh(m).cancels[i] = IdOf(resting[i])
  BY <1>1, <1>2
<1>4. \A side, o : IdOf(QuotedAs(side, o)) = [side |-> side, seq |-> o.seq]
  BY DEF IdOf, QuotedAs
<1>5. CASE i \in 1 .. p
  <2>1. bids[i] \in OwnSlots(m, "Bid", Seat)
    BY <1>1, <1>5
  <2>2. Refresh(m).cancels[i] = [side |-> "Bid", seq |-> m.book["Bid"][bids[i]].seq]
    BY <1>1, <1>3, <1>4, <1>5
  <2> QED BY <2>1, <2>2 DEF Sides
<1>6. CASE i \in p + 1 .. p + q
  <2>1. i - p \in 1 .. q
    BY <1>1, <1>6
  <2>2. asks[i - p] \in OwnSlots(m, "Ask", Seat)
    BY <1>1, <2>1
  <2>3. Refresh(m).cancels[i] = [side |-> "Ask", seq |-> m.book["Ask"][asks[i - p]].seq]
    BY <1>1, <1>3, <1>4, <1>6
  <2> QED BY <2>2, <2>3 DEF Sides
<1> QED BY <1>1, <1>3, <1>5, <1>6

LEMMA RefreshKeepsNone ==
  ASSUME NEW m, WellFormed(m), Seat \in Seats
  PROVE  Kept(Refresh(m), m, Seat) = {}
<1> DEFINE resting == OwnedBy(m, Seat)
<1> SUFFICES ASSUME NEW quote \in QuotesBy(m, Seat)
             PROVE  \E i \in DOMAIN Refresh(m).cancels : Refresh(m).cancels[i] = quote[1]
  BY DEF Kept
<1>1. PICK side \in Sides : quote \in QuotesOn(m, side, Seat)
  BY DEF QuotesBy
<1>2. PICK h \in OwnSlots(m, side, Seat) : quote = QuoteOf(m, side, h)
  BY <1>1 DEF QuotesOn
<1>3. quote[1] = [side |-> side, seq |-> m.book[side][h].seq]
  BY <1>2, QuoteOfFacts
<1>4. PICK i \in 1 .. Len(resting) : IdOf(resting[i]) = [side |-> side, seq |-> m.book[side][h].seq]
  BY OwnedFacts
<1>5. Refresh(m).cancels = [j \in DOMAIN resting |-> IdOf(resting[j])]
  BY DEF Refresh
<1>6. DOMAIN resting = 1 .. Len(resting)
  BY OwnedParts
<1> HIDE DEF resting
<1> QED BY <1>3, <1>4, <1>5, <1>6

(* Part of the book is the whole of it where an order of the seat stood    *)
(* and has gone.                                                           *)
Remains(p, m, seat) ==
  \A side \in Sides : \A h \in Slots :
    \/ p.book[side][h] = m.book[side][h]
    \/ m.book[side][h].seat = seat /\ p.book[side][h] = NoOrder

LEMMA CancelRemains ==
  ASSUME NEW m, Sound(m), NEW p, Sound(p), NEW seat, Remains(p, m, seat), NEW id,
         NEW d \in Sides, NEW k \in OwnSlots(m, d, seat),
         id = [side |-> d, seq |-> m.book[d][k].seq]
  PROVE  Remains(CancelIfResting(p, id), m, seat)
<1> DEFINE n == CancelIfResting(p, id)
<1>1. id.side = d /\ id.seq = m.book[d][k].seq
  OBVIOUS
<1>2. CASE Found(p, id) = {}
  BY <1>2 DEF CancelIfResting
<1>3. CASE Found(p, id) # {}
  <2>1. PICK h \in LiveSlots(p, d) : p.book[d][h].seq = id.seq /\ n = CancelWhole(p, d, h)
    BY <1>1, <1>3 DEF CancelIfResting, Found
  <2>2. \A side \in Sides : \A j \in Slots :
          n.book[side][j] = IF side = d /\ j = h THEN NoOrder ELSE p.book[side][j]
    BY <2>1, CancelFacts
  <2>3. p.book[d][h] = m.book[d][h] /\ h \in LiveSlots(m, d)
    <3>1. h \in Slots /\ Live(p.book[d][h]) /\ ~ Live(NoOrder)
      BY DEF LiveSlots, Live, NoOrder
    <3>2. p.book[d][h] = m.book[d][h]
      BY <3>1 DEF Remains
    <3> QED BY <3>1, <3>2 DEF LiveSlots
  <2>4. k \in LiveSlots(m, d) /\ m.book[d][k].seat = seat
    BY DEF OwnSlots
  <2>5. h = k
    BY <1>1, <2>1, <2>3, <2>4 DEF Sound, WellFormed, IdsUnique
  <2> HIDE DEF n
  <2>6. Remains(n, m, seat)
    BY <2>2, <2>4, <2>5 DEF Remains
  <2> QED BY <2>6 DEF n
<1> QED BY <1>2, <1>3

(* The orders of the others stand as they did, and none of its own.        *)
ClearedOf(c, m, seat) ==
  /\ c.next_seq = m.next_seq
  /\ \A side \in Sides : \A h \in Slots :
       c.book[side][h] = IF m.book[side][h].seat = seat THEN NoOrder ELSE m.book[side][h]

LEMMA CancelsClear ==
  ASSUME NEW m, Sound(m), Seat \in Seats, SeatLive(m, Seat),
         NEW n \in Nat, n = Len(Refresh(m).cancels)
  PROVE  ClearedOf(Performed(m, Seat, Operations(Refresh(m)))[n], m, Seat)
<1> DEFINE tx == Refresh(m)
           ops == Operations(tx)
           g == Performed(m, Seat, ops)
           S == {i \in 0 .. n : Remains(g[i], m, Seat)}
           c == g[n]
<1>1. tx \in Transaction /\ tx.kind = "Refresh"
  BY RefreshFacts
<1>2. WellFormed(m)
  BY DEF Sound
<1>3. /\ Steps(ops) /\ n <= Len(ops) /\ Len(ops) \in Nat
      /\ \A i \in 1 .. n : ops[i] = [kind |-> "Cancel", id |-> tx.cancels[i]]
  <2> HIDE DEF tx
  <2>1. /\ Steps(ops) /\ Len(tx.places) \in Nat /\ Len(ops) = n + Len(tx.places)
        /\ \A i \in 1 .. n : ops[i] = [kind |-> "Cancel", id |-> tx.cancels[i]]
    BY <1>1, RefreshOperations DEF tx
  <2> HIDE DEF ops
  <2> DEFINE k == Len(tx.places)
             l == Len(ops)
  <2>2. k \in Nat /\ l = n + k
    BY <2>1
  <2> HIDE DEF k, l
  <2>3. n <= l /\ l \in Nat
    BY <2>2
  <2>4. n <= Len(ops) /\ Len(ops) \in Nat
    BY <2>3 DEF l
  <2> QED BY <2>1, <2>4
<1>4. g[0] = m /\ \A i \in 1 .. n : g[i] = Perform(g[i - 1], Seat, ops[i])
  <2> HIDE DEF ops
  <2> QED BY <1>3, Runs
<1>5. \A i \in 0 .. n : Sound(g[i])
  <2> HIDE DEF ops
  <2> QED BY <1>3, RunFacts
<1>6. \A i \in 1 .. n : i \in DOMAIN tx.cancels
  <2>1. tx.cancels \in Seq(IdType)
    BY <1>1 DEF Transaction
  <2> QED BY <2>1
<1>7. \A i \in 1 .. n : \E side \in Sides : \E h \in OwnSlots(m, side, Seat) :
        tx.cancels[i] = [side |-> side, seq |-> m.book[side][h].seq]
  BY <1>2, <1>6, RefreshNames
<1>8. QuotesBy(c, Seat) = {} /\ c.next_seq = m.next_seq
  <2>1. Kept(tx, m, Seat) = {}
    BY <1>2, RefreshKeepsNone
  <2>2. QuotesBy(c, Seat) = Kept(tx, m, Seat) /\ c.next_seq = m.next_seq
    <3> HIDE DEF tx
    <3>1. n = Len(tx.cancels)
      BY DEF tx
    <3> QED BY <1>1, <3>1, CancelRun
  <2> QED BY <2>1, <2>2
<1> HIDE DEF g, ops, tx, c
<1>9. 0 \in S
  BY <1>4 DEF Remains
<1>10. ASSUME NEW i \in 1 .. n, i - 1 \in S PROVE i \in S
  <2>1. i - 1 \in 0 .. n /\ i \in 0 .. n
    OBVIOUS
  <2>2. Remains(g[i - 1], m, Seat) /\ Sound(g[i - 1])
    BY <1>5, <1>10, <2>1
  <2>3. g[i] = CancelIfResting(g[i - 1], tx.cancels[i])
    <3>1. ops[i] = [kind |-> "Cancel", id |-> tx.cancels[i]]
      BY <1>3
    <3>2. ops[i].kind = "Cancel" /\ ops[i].id = tx.cancels[i]
      BY <3>1
    <3> QED BY <1>4, <3>2 DEF Perform
  <2>4. PICK side \in Sides : \E h \in OwnSlots(m, side, Seat) :
          tx.cancels[i] = [side |-> side, seq |-> m.book[side][h].seq]
    BY <1>7
  <2>5. PICK h \in OwnSlots(m, side, Seat) :
          tx.cancels[i] = [side |-> side, seq |-> m.book[side][h].seq]
    BY <2>4
  <2>6. Remains(CancelIfResting(g[i - 1], tx.cancels[i]), m, Seat)
    BY <2>2, <2>5, CancelRemains
  <2> QED BY <2>1, <2>3, <2>6
<1>11. n \in S
  <2> HIDE DEF S
  <2>1. \A i \in 0 .. n : i \in S
    BY <1>9, <1>10, Upward
  <2> QED BY <2>1
<1>12. Remains(c, m, Seat)
  BY <1>11 DEF c
<1>13. \A side \in Sides : \A h \in Slots : c.book[side][h].seat # Seat
  <2> SUFFICES ASSUME NEW side \in Sides, NEW h \in Slots, c.book[side][h].seat = Seat
               PROVE  FALSE
    OBVIOUS
  <2>1. QuoteOf(c, side, h) \in QuotesBy(c, Seat)
    BY QuotesByFacts
  <2> QED BY <1>8, <2>1
<1>14. ClearedOf(c, m, Seat)
  BY <1>8, <1>12, <1>13 DEF ClearedOf, Remains
<1> QED BY <1>14 DEF c, g, ops, tx

-----------------------------------------------------------------------------
(* What a ladder costs, level by level. *)

Costs(side, centre) ==
  [level \in 1 .. Levels |-> Backing(side, LevelPrice(side, centre, level), LevelSize)]

LEMMA FundedPrefix ==
  ASSUME NEW state, NEW side, NEW centre, Budget(state, side) \in Nat, NEW k \in 0 .. Levels,
         FundedTo(state, side, centre, k), NEW i \in 1 .. k
  PROVE  /\ LevelPrice(side, centre, i) \in U64 \ {0}
         /\ Backing(side, LevelPrice(side, centre, i), LevelSize) \in U64
         /\ SumTo(Costs(side, centre), i - 1) \in Nat
         /\ SumTo(Costs(side, centre), i) =
              SumTo(Costs(side, centre), i - 1)
                + Backing(side, LevelPrice(side, centre, i), LevelSize)
         /\ SumTo(Costs(side, centre), i) <= Budget(state, side)
<1> DEFINE f == Costs(side, centre)
           cost(j) == Backing(side, LevelPrice(side, centre, j), LevelSize)
           sum(j) == SumTo(f, j)
           S == {j \in 0 .. k : sum(j) \in Nat /\ \A l \in 0 .. j : sum(l) <= sum(j)}
<1>1. Levels \in Nat /\ k \in Nat /\ k <= Levels
  OBVIOUS
<1>2. \A j \in 1 .. k : LevelPrice(side, centre, j) \in U64 \ {0} /\ cost(j) \in U64
  BY DEF FundedTo, Expressible
<1>3. sum(k) <= Budget(state, side)
  BY DEF FundedTo, Costs
<1>4. \A j \in 1 .. k : f[j] = cost(j)
  BY <1>1 DEF Costs
<1>5. \A j \in 1 .. k : cost(j) \in Nat
  BY <1>2 DEF U64
<1> HIDE DEF f, cost
<1>6. \A j \in 1 .. k : sum(j) = sum(j - 1) + cost(j)
  BY <1>1, <1>4, SumStep
<1>7. sum(0) = 0
  BY SumOfNone
<1> HIDE DEF sum
<1>8. 0 \in S
  BY <1>1, <1>7
<1>9. ASSUME NEW j \in 1 .. k, j - 1 \in S PROVE j \in S
  <2>1. sum(j) = sum(j - 1) + cost(j) /\ cost(j) \in Nat /\ sum(j - 1) \in Nat
    BY <1>5, <1>6, <1>9
  <2>2. sum(j) \in Nat /\ sum(j - 1) <= sum(j)
    BY <2>1
  <2>3. ASSUME NEW l \in 0 .. j PROVE sum(l) <= sum(j)
    <3>1. CASE l = j
      BY <2>2, <3>1
    <3>2. CASE l # j
      <4>1. l \in 0 .. j - 1
        BY <3>2
      <4>2. sum(l) <= sum(j - 1) /\ sum(l) \in Int
        <5>1. \A n \in 0 .. k : sum(n) \in Int
          <6>1. \A n \in 1 .. k : f[n] \in Int
            BY <1>4, <1>5
          <6> QED BY <1>1, <6>1, SumInt DEF sum
        <5> QED BY <1>9, <4>1, <5>1
      <4> QED BY <2>1, <2>2, <4>2
    <3> QED BY <3>1, <3>2
  <2> QED BY <1>1, <2>2, <2>3
<1>10. k \in S /\ i - 1 \in S /\ i \in S
  <2> HIDE DEF S
  <2>1. \A j \in 0 .. k : j \in S
    BY <1>1, <1>8, <1>9, Upward
  <2> QED BY <1>1, <2>1
<1>11. sum(i - 1) \in Nat /\ sum(i) \in Nat /\ sum(k) \in Nat /\ sum(i) <= sum(k)
  BY <1>10
<1>12. /\ sum(i - 1) \in Nat /\ sum(i) = sum(i - 1) + cost(i) /\ sum(i) <= Budget(state, side)
  BY <1>3, <1>6, <1>11
<1> QED BY <1>2, <1>12 DEF sum, f, cost

LockedOn(state, side) == IF side = "Ask" THEN state.base_locked ELSE state.quote_locked

LEMMA LockFits ==
  ASSUME NEW old \in TraderState, NEW side \in Sides, NEW amount \in Nat,
         Budget(old, side) <= U64Max, LockedOn(old, side) + amount <= Budget(old, side)
  PROVE  Lock(old, side, amount) \in TraderState
<1>1. /\ old.base_free \in Nat /\ old.base_locked \in Nat
      /\ old.quote_free \in Nat /\ old.quote_locked \in Nat
  BY StateFields
<1>2. CASE side = "Ask"
  <2>1. old.base_free - amount \in U64 /\ old.base_locked + amount \in U64
    BY <1>1, <1>2 DEF Budget, LockedOn, TotalBase, U64
  <2> QED BY <1>2, <2>1 DEF Lock, TraderState
<1>3. CASE side # "Ask"
  <2>1. old.quote_free - amount \in U64 /\ old.quote_locked + amount \in U64
    BY <1>1, <1>3 DEF Budget, LockedOn, TotalQuote, U64, Sides
  <2> QED BY <1>3, <2>1 DEF Lock, TraderState
<1> QED BY <1>2, <1>3

-----------------------------------------------------------------------------
(* The ladder as it goes up. *)

(* The order of a level, when the first of its side was given that         *)
(* sequence number.                                                        *)
RungOrder(side, centre, first, level, seat) ==
  [price |-> LevelPrice(side, centre, level), seq |-> first + (level - 1),
   seat |-> seat, size |-> LevelSize]

RungsAt(p, side, centre, first, count, seat, at) ==
  /\ at \in [1 .. count -> Slots]
  /\ \A l \in 1 .. count : p.book[side][at[l]] = RungOrder(side, centre, first, l, seat)

OthersStand(p, m, side, seat) ==
  /\ OthersOn(p, side, seat) = OthersOn(m, side, seat)
  /\ \A h \in OthersOn(m, side, seat) : p.book[side][h] = m.book[side][h]

(* In p, the first levels of the ladder planned on m, and only they, rest  *)
(* on a side, among the orders of others that rested in m.                 *)
UpTo(p, m, seat, side, first, count) ==
  LET centre == Centre(m, seat)
  IN  /\ OthersStand(p, m, side, seat)
      /\ LockedOn(p.state[seat], side) = SumTo(Costs(side, centre), count)
      /\ \E at : /\ RungsAt(p, side, centre, first, count, seat, at)
                 /\ OwnSlots(p, side, seat) = {at[l] : l \in 1 .. count}

LEMMA ClearedUpTo ==
  ASSUME NEW m, NEW c, Sound(c), NEW seat \in Seats, SeatLive(c, seat), ClearedOf(c, m, seat),
         NEW side \in Sides, NEW first
  PROVE  UpTo(c, m, seat, side, first, 0)
<1> DEFINE centre == Centre(m, seat)
           at == [l \in 1 .. 0 |-> 1]
<1>1. ~ Live(NoOrder) /\ NoOrder.seat # seat
  BY DEF Live, NoOrder, NoSeat, Seats
<1>2. \A h \in Slots : c.book[side][h] = IF m.book[side][h].seat = seat THEN NoOrder ELSE m.book[side][h]
  BY DEF ClearedOf
<1>3. OthersStand(c, m, side, seat)
  BY <1>1, <1>2 DEF OthersStand, OthersOn, LiveSlots
<1>4. OwnSlots(c, side, seat) = {}
  BY <1>1, <1>2 DEF OwnSlots, LiveSlots
<1>5. \A h \in Slots : c.book[side][h].seat # seat
  BY <1>1, <1>2
<1>6. SumTo(Resting(c, side, seat), BookCapacity) = 0
  <2>1. \A h \in 1 .. BookCapacity : Resting(c, side, seat)[h] = 0
    BY <1>5 DEF Resting, Slots
  <2>2. BookCapacity \in Nat
    OBVIOUS
  <2> QED BY <2>1, <2>2, SumZero
<1>7. LockedOn(c.state[seat], side) = SumTo(Resting(c, side, seat), BookCapacity)
  BY DEF LockedOn, Sound, Balanced, LockedIsResting, Sides
<1>8. SumTo(Costs(side, centre), 0) = 0
  BY SumOfNone
<1>9. RungsAt(c, side, centre, first, 0, seat, at) /\ {} = {at[l] : l \in 1 .. 0}
  BY DEF RungsAt
<1> HIDE DEF at
<1> QED BY <1>3, <1>4, <1>6, <1>7, <1>8, <1>9 DEF UpTo

LEMMA ImageCount ==
  ASSUME NEW k \in Nat, NEW S, NEW at \in Injection(1 .. k, S)
  PROVE  Cardinality({at[l] : l \in 1 .. k}) = k
<1> DEFINE T == {at[l] : l \in 1 .. k}
<1>1. IsFiniteSet(1 .. k) /\ Cardinality(1 .. k) = k
  BY FS_Interval
<1>2. IsInjective(at) /\ at \in [1 .. k -> S]
  BY DEF Injection
<1>3. at \in [1 .. k -> T] /\ \A t \in T : \E l \in 1 .. k : at[l] = t
  BY <1>2
<1> HIDE DEF T
<1>4. at \in Surjection(1 .. k, T) /\ at \in Injection(1 .. k, T)
  BY <1>2, <1>3 DEF Surjection, Injection
<1>5. IsFiniteSet(T) /\ Cardinality(T) = Cardinality(1 .. k)
  BY <1>1, <1>4, FS_Surjection
<1> QED BY <1>1, <1>5 DEF T

(* Levels rest in places of their own. *)
LEMMA RungsApart ==
  ASSUME NEW p, NEW side, NEW centre, NEW first \in Nat, NEW k \in Nat, NEW seat,
         NEW at, RungsAt(p, side, centre, first, k, seat, at)
  PROVE  at \in Injection(1 .. k, Slots)
<1>1. /\ at \in [1 .. k -> Slots] /\ DOMAIN at = 1 .. k
      /\ \A l \in 1 .. k : p.book[side][at[l]] = RungOrder(side, centre, first, l, seat)
  BY DEF RungsAt
<1>2. ASSUME NEW i \in 1 .. k, NEW j \in 1 .. k, at[i] = at[j] PROVE i = j
  <2>1. RungOrder(side, centre, first, i, seat).seq = RungOrder(side, centre, first, j, seat).seq
    <3> HIDE DEF RungOrder
    <3> QED BY <1>1, <1>2
  <2>2. first + (i - 1) = first + (j - 1)
    BY <2>1 DEF RungOrder
  <2> QED BY <2>2
<1>3. IsInjective(at)
  BY <1>1, <1>2 DEF IsInjective
<1> QED BY <1>1, <1>3 DEF Injection

LEMMA UpToCount ==
  ASSUME NEW m, NEW p, NEW seat, NEW side, NEW first \in Nat, NEW k \in Nat,
         UpTo(p, m, seat, side, first, k)
  PROVE  Cardinality(OwnSlots(p, side, seat)) = k
<1> DEFINE centre == Centre(m, seat)
<1>1. PICK at : /\ RungsAt(p, side, centre, first, k, seat, at)
                /\ OwnSlots(p, side, seat) = {at[l] : l \in 1 .. k}
  BY DEF UpTo
<1> HIDE DEF centre
<1>2. at \in Injection(1 .. k, Slots)
  BY <1>1, RungsApart
<1>3. Cardinality({at[l] : l \in 1 .. k}) = k
  BY <1>2, ImageCount
<1> QED BY <1>1, <1>3

RoomFor(m, seat) ==
  \A side \in Sides : Cardinality(OthersOn(m, side, seat)) + Levels <= BookCapacity

LEMMA RungRoom ==
  ASSUME NEW m, NEW seat, RoomFor(m, seat), NEW p, NEW side \in Sides, NEW first \in Nat,
         NEW k \in 0 .. Levels - 1, UpTo(p, m, seat, side, first, k)
  PROVE  FreeSlots(p, side) # {}
<1> DEFINE S == OthersOn(p, side, seat)
           T == OwnSlots(p, side, seat)
<1>1. S \subseteq Slots /\ T \subseteq Slots /\ S \cap T = {} /\ LiveSlots(p, side) = S \cup T
  BY DEF OthersOn, OwnSlots, LiveSlots
<1>2. Cardinality(S) + Levels <= BookCapacity /\ Cardinality(T) = k
  <2>1. S = OthersOn(m, side, seat)
    BY DEF UpTo, OthersStand
  <2>2. Cardinality(T) = k
    BY UpToCount
  <2> QED BY <2>1, <2>2 DEF RoomFor
<1> HIDE DEF S, T
<1>3. BookCapacity \in Nat /\ IsFiniteSet(Slots) /\ Cardinality(Slots) = BookCapacity
  <2>1. BookCapacity \in Nat \ {0} /\ BookCapacity \in Int /\ 1 \in Int
    OBVIOUS
  <2>2. /\ IsFiniteSet(1 .. BookCapacity)
        /\ Cardinality(1 .. BookCapacity) = IF 1 > BookCapacity THEN 0 ELSE BookCapacity - 1 + 1
    BY ONLY <2>1, FS_Interval
  <2>3. (IF 1 > BookCapacity THEN 0 ELSE BookCapacity - 1 + 1) = BookCapacity
    BY <2>1
  <2> QED BY <2>1, <2>2, <2>3 DEF Slots
<1>4. IsFiniteSet(S) /\ IsFiniteSet(T)
  BY <1>1, <1>3, FS_Subset
<1>5. Cardinality(S \cup T) = Cardinality(S) + Cardinality(T) - Cardinality({})
  BY <1>1, <1>4, FS_Union
<1>6. Cardinality({}) = 0 /\ Cardinality(S) \in Nat
  BY <1>4, FS_EmptySet, FS_CardinalityType
<1>7. Cardinality(S \cup T) < BookCapacity
  BY <1>2, <1>3, <1>5, <1>6
<1>8. S \cup T # Slots
  <2> SUFFICES ASSUME S \cup T = Slots PROVE FALSE
    OBVIOUS
  <2>1. Cardinality(S \cup T) = Cardinality(Slots)
    OBVIOUS
  <2> QED BY <1>3, <1>7, <2>1
<1> QED BY <1>1, <1>8 DEF FreeSlots

(* A rung meets neither an order of another trader nor one of its own.     *)
LEMMA RungMeetsNothing ==
  ASSUME NEW m, WellFormed(m), Uncrossed(m), NEW seat \in Seats, Priced(m, seat), NEW p, WellFormed(p),
         NEW side \in Sides, NEW first, NEW j \in Nat,
         UpTo(p, m, seat, Opposite(side), first, j),
         NEW level \in Nat \ {0}, LevelPrice(side, Centre(m, seat), level) \in U64 \ {0}
  PROVE  Apart(side, LevelPrice(side, Centre(m, seat), level), p)
<1> DEFINE fair == Fair(Touch(m, seat))
           centre == Centre(m, seat)
           price == LevelPrice(side, centre, level)
           other == Opposite(side)
<1>1. /\ fair \in Nat /\ 1 <= fair
      /\ \A h \in OthersOn(m, "Bid", seat) :
           m.book["Bid"][h].price \in Nat /\ m.book["Bid"][h].price <= fair
      /\ \A h \in OthersOn(m, "Ask", seat) :
           m.book["Ask"][h].price \in Nat /\ (fair <= m.book["Ask"][h].price \/ fair = 1)
  BY FairFacts
<1>2. m \in MarketType
  BY DEF WellFormed
<1>3. /\ \A l \in Nat \ {0} : LevelPrice("Bid", centre, l) \in Int /\ LevelPrice("Bid", centre, l) < fair
      /\ \A l \in Nat \ {0} : LevelPrice("Ask", centre, l) \in Int /\ LevelPrice("Ask", centre, l) > fair
  BY <1>1, <1>2, RungsStandApart DEF Sides
<1>4. /\ side = "Bid" => other = "Ask"
      /\ side # "Bid" => other = "Bid" /\ side = "Ask"
  BY DEF Opposite, Sides
<1>5. price \in Nat /\ price # 0
  BY DEF U64
<1>6. PICK at : /\ RungsAt(p, other, centre, first, j, seat, at)
                /\ OwnSlots(p, other, seat) = {at[l] : l \in 1 .. j}
  BY DEF UpTo
<1>7. \A h \in LiveSlots(p, other) :
        h \in OwnSlots(p, other, seat) \/ h \in OthersOn(p, other, seat)
  BY DEF OwnSlots, OthersOn
<1>8. \A h \in OthersOn(p, other, seat) :
        h \in OthersOn(m, other, seat) /\ p.book[other][h].price = m.book[other][h].price
  BY DEF UpTo, OthersStand
<1>9. \A h \in OwnSlots(p, other, seat) : \E l \in Nat \ {0} :
        p.book[other][h].price = LevelPrice(other, centre, l)
  <2> SUFFICES ASSUME NEW h \in OwnSlots(p, other, seat)
               PROVE  \E l \in Nat \ {0} : p.book[other][h].price = LevelPrice(other, centre, l)
    OBVIOUS
  <2>1. PICK l \in 1 .. j : h = at[l]
    BY <1>6
  <2>2. p.book[other][h] = RungOrder(other, centre, first, l, seat)
    BY <1>6, <2>1 DEF RungsAt
  <2>3. p.book[other][h].price = LevelPrice(other, centre, l)
    BY <2>2 DEF RungOrder
  <2> QED BY <2>3
<1> HIDE DEF fair, centre, price, other
<1>10. Apart(side, price, p) <=>
         \A h \in LiveSlots(p, other) :
           IF side = "Bid" THEN price < p.book["Ask"][h].price ELSE price > p.book["Bid"][h].price
  BY DEF Apart, other
<1>11. price = LevelPrice(side, centre, level)
  BY DEF price
<1>12. ASSUME side = "Bid" PROVE Apart(side, price, p)
  <2>1. price < fair
    BY <1>3, <1>11, <1>12
  <2>2. ASSUME NEW h \in LiveSlots(p, "Ask") PROVE price < p.book["Ask"][h].price
    <3>1. CASE h \in OthersOn(p, "Ask", seat)
      BY <1>1, <1>4, <1>5, <1>8, <1>12, <2>1, <3>1
    <3>2. CASE h \in OwnSlots(p, "Ask", seat)
      <4>1. PICK l \in Nat \ {0} : p.book["Ask"][h].price = LevelPrice("Ask", centre, l)
        BY <1>4, <1>9, <1>12, <3>2
      <4> QED BY <1>1, <1>3, <1>5, <2>1, <4>1
    <3> QED BY <1>4, <1>7, <1>12, <3>1, <3>2
  <2> QED BY <1>4, <1>10, <1>12, <2>2
<1>13. ASSUME side # "Bid" PROVE Apart(side, price, p)
  <2>1. price > fair
    BY <1>3, <1>4, <1>11, <1>13
  <2>2. ASSUME NEW h \in LiveSlots(p, "Bid") PROVE price > p.book["Bid"][h].price
    <3>1. CASE h \in OthersOn(p, "Bid", seat)
      BY <1>1, <1>4, <1>5, <1>8, <1>13, <2>1, <3>1
    <3>2. CASE h \in OwnSlots(p, "Bid", seat)
      <4>1. PICK l \in Nat \ {0} : p.book["Bid"][h].price = LevelPrice("Bid", centre, l)
        BY <1>4, <1>9, <1>13, <3>2
      <4> QED BY <1>1, <1>3, <1>5, <2>1, <4>1
    <3> QED BY <1>4, <1>7, <1>13, <3>1, <3>2
  <2> QED BY <1>4, <1>10, <1>13, <2>2
<1> QED BY <1>12, <1>13 DEF price, centre

(* What a seat holds is bounded by what the market holds. *)
LEMMA BudgetBounds ==
  ASSUME NEW m, Sound(m), NEW seat \in Seats, SeatLive(m, seat), NEW side
  PROVE  Budget(m.state[seat], side) \in Nat /\ Budget(m.state[seat], side) <= U64Max
<1>1. m \in MarketType /\ WellFormed(m) /\ Balanced(m)
  BY DEF Sound, WellFormed
<1>2. /\ m.state[seat].base_free \in Nat /\ m.state[seat].base_locked \in Nat
      /\ m.state[seat].quote_free \in Nat /\ m.state[seat].quote_locked \in Nat
  BY <1>1, MarketFields, StateFields
<1>3. /\ m.base_deposited \in Nat /\ m.base_deposited <= U64Max
      /\ m.quote_deposited \in Nat /\ m.quote_deposited <= U64Max
      /\ m.unclaimed_fees \in Nat /\ U64Max \in Nat
  BY <1>1, MarketFields DEF U64
<1>4. /\ m.state[seat].base_free + m.state[seat].base_locked <= m.base_deposited
      /\ m.state[seat].quote_free + m.state[seat].quote_locked + m.unclaimed_fees
           <= m.quote_deposited
  BY <1>1, HeldBounds
<1> QED BY <1>2, <1>3, <1>4 DEF Budget, TotalBase, TotalQuote

LEMMA SameBudget ==
  ASSUME NEW m, NEW n, SameHoldings(m, n), NEW seat \in Seats
  PROVE  /\ \A side : Budget(n.state[seat], side) = Budget(m.state[seat], side)
         /\ Deviation(n.state[seat]) = Deviation(m.state[seat])
<1>1. Holding(n, seat) = Holding(m, seat)
  BY DEF SameHoldings
<1>2. /\ TotalBase(n.state[seat]) = TotalBase(m.state[seat])
      /\ TotalQuote(n.state[seat]) = TotalQuote(m.state[seat])
  BY <1>1 DEF Holding
<1> QED BY <1>2 DEF Budget, Deviation

(* So a rung that is funded can be placed, *)
LEMMA RungFits ==
  ASSUME NEW m, Sound(m), Uncrossed(m), NEW seat \in Seats, Priced(m, seat), SeatLive(m, seat), RoomFor(m, seat),
         NEW p, Sound(p), SameHoldings(m, p), NEW side \in Sides,
         NEW first \in Nat, NEW k \in 0 .. Levels - 1, UpTo(p, m, seat, side, first, k),
         NEW otherwise, NEW j \in Nat, UpTo(p, m, seat, Opposite(side), otherwise, j),
         FundedTo(m.state[seat], side, Centre(m, seat), k + 1)
  PROVE  /\ RungAt(side, Centre(m, seat), k + 1) \in QuoteType
         /\ CanPlace(p, seat, RungAt(side, Centre(m, seat), k + 1))
<1> DEFINE centre == Centre(m, seat)
           level == k + 1
           price == LevelPrice(side, centre, level)
           amount == Backing(side, price, LevelSize)
           old == p.state[seat]
           rung == RungAt(side, centre, level)
<1>1. level \in 1 .. level /\ level \in 0 .. Levels /\ level \in Nat \ {0} /\ level - 1 = k
  OBVIOUS
<1>2. WellFormed(m) /\ WellFormed(p) /\ p \in MarketType /\ old \in TraderState
  <2>1. WellFormed(m) /\ WellFormed(p) /\ p \in MarketType
    BY DEF Sound, WellFormed
  <2> QED BY <2>1, MarketFields
<1>3. Budget(m.state[seat], side) \in Nat /\ Budget(m.state[seat], side) <= U64Max
  BY BudgetBounds
<1>4. Budget(old, side) = Budget(m.state[seat], side)
  BY SameBudget
<1>5. /\ price \in U64 \ {0} /\ amount \in U64
      /\ SumTo(Costs(side, centre), k) + amount <= Budget(m.state[seat], side)
  <2> DEFINE state == m.state[seat]
  <2> HIDE DEF centre
  <2>1. FundedTo(state, side, centre, level) /\ Budget(state, side) \in Nat
    BY <1>3 DEF centre
  <2> HIDE DEF level, state
  <2>2. /\ LevelPrice(side, centre, level) \in U64 \ {0}
        /\ Backing(side, LevelPrice(side, centre, level), LevelSize) \in U64
        /\ SumTo(Costs(side, centre), level) =
             SumTo(Costs(side, centre), level - 1)
               + Backing(side, LevelPrice(side, centre, level), LevelSize)
        /\ SumTo(Costs(side, centre), level) <= Budget(state, side)
    BY ONLY <1>1, <2>1, FundedPrefix
  <2>3. SumTo(Costs(side, centre), level) = SumTo(Costs(side, centre), k) + amount
    BY <1>1, <2>2
  <2> QED BY <2>2, <2>3 DEF state
<1>6. LockedOn(old, side) = SumTo(Costs(side, centre), k)
  BY DEF UpTo
<1> HIDE DEF centre, amount, price
<1>7. Lock(old, side, amount) \in TraderState
  <2>1. amount \in Nat
    BY <1>5 DEF U64
  <2>2. Budget(old, side) <= U64Max /\ LockedOn(old, side) + amount <= Budget(old, side)
    BY <1>3, <1>4, <1>5, <1>6
  <2> HIDE DEF old
  <2> QED BY <1>2, <2>1, <2>2, LockFits
<1>8. FreeSlots(p, side) # {}
  BY RungRoom
<1>9. Apart(side, price, p)
  <2>1. LevelPrice(side, Centre(m, seat), level) \in U64 \ {0}
    BY <1>5 DEF price, centre
  <2> HIDE DEF level
  <2>2. Apart(side, LevelPrice(side, Centre(m, seat), level), p)
    BY <1>1, <1>2, <2>1, RungMeetsNothing
  <2> QED BY <2>2 DEF price, centre
<1>10. NonCrossingPrice(p, side, price) = price
  BY <1>2, <1>5, <1>9, NotSlid
<1>11. rung = [side |-> side, price |-> price, size |-> LevelSize]
  BY DEF RungAt, price
<1>12. rung.side = side /\ rung.price = price /\ rung.size = LevelSize
  BY <1>11
<1>13. CanPost(p, seat, side, price, LevelSize)
  BY <1>5, <1>7, <1>8 DEF CanPost, amount
<1>14. LevelSize \in U64 \ {0}
  <2>1. Backing(side, price, LevelSize) \in U64 /\ LevelSize \in Nat \ {0}
    BY <1>5 DEF amount
  <2> QED BY <1>5, <2>1, ExpressibleSize
<1>15. rung \in QuoteType
  BY <1>5, <1>11, <1>14 DEF QuoteType
<1>16. CanPlace(p, seat, rung)
  BY <1>10, <1>12, <1>13 DEF CanPlace
<1> QED BY <1>15, <1>16 DEF centre

(* and what rests then is one level more. *)
LEMMA RungLays ==
  ASSUME NEW m, NEW seat \in Seats, NEW p, Sound(p), SeatLive(p, seat), NEW side \in Sides,
         NEW first \in Nat, NEW k \in 0 .. Levels - 1, UpTo(p, m, seat, side, first, k),
         p.next_seq = first + k,
         RungAt(side, Centre(m, seat), k + 1) \in QuoteType,
         CanPlace(p, seat, RungAt(side, Centre(m, seat), k + 1))
  PROVE  UpTo(Place(p, seat, RungAt(side, Centre(m, seat), k + 1)), m, seat, side, first, k + 1)
<1> DEFINE centre == Centre(m, seat)
           level == k + 1
           price == LevelPrice(side, centre, level)
           amount == Backing(side, price, LevelSize)
           rung == RungAt(side, centre, level)
           n == Place(p, seat, rung)
           new == [price |-> price, seq |-> p.next_seq, seat |-> seat, size |-> LevelSize]
<1>1. level \in Nat \ {0} /\ level - 1 = k /\ level \in 1 .. Levels /\ Levels \in Nat
  OBVIOUS
<1>2. rung.side = side /\ rung.price = price /\ rung.size = LevelSize
  BY DEF RungAt
<1>3. rung \in QuoteType /\ CanPlace(p, seat, rung)
  OBVIOUS
<1>4. PICK h \in Slots :
        /\ ~ Live(p.book[side][h])
        /\ \A d \in Sides : \A j \in Slots :
             n.book[d][j] = IF d = side /\ j = h THEN new ELSE p.book[d][j]
  <2> HIDE DEF rung, centre, level
  <2>1. \E h \in Slots :
          /\ ~ Live(p.book[rung.side][h])
          /\ \A d \in Sides : \A j \in Slots :
               n.book[d][j] =
                 IF d = rung.side /\ j = h
                 THEN [price |-> rung.price, seq |-> p.next_seq, seat |-> seat, size |-> rung.size]
                 ELSE p.book[d][j]
    BY <1>3, PlaceFacts
  <2> HIDE DEF n, price
  <2> QED BY <1>2, <2>1
<1>5. LockedOn(n.state[seat], side) = LockedOn(p.state[seat], side) + amount
  <2>1. p \in MarketType
    BY DEF Sound, WellFormed
  <2>2. p.state \in [Seats -> TraderState]
    BY <2>1, MarketFields
  <2>3. n.state[seat] = Lock(p.state[seat], side, amount)
    <3> HIDE DEF rung, price, centre
    <3>1. n.state = [p.state EXCEPT ![seat] = Lock(@, side, amount)]
      BY <1>2 DEF Place, Post
    <3> QED BY <2>2, <3>1
  <2>4. amount \in Nat
    <3>1. CanPost(p, seat, side, price, LevelSize)
      BY <1>2, <1>3 DEF CanPlace
    <3> QED BY <3>1 DEF CanPost, U64
  <2>5. p.state[seat] \in TraderState
    BY <2>2
  <2> HIDE DEF n, amount
  <2>6. /\ n.state[seat].base_locked =
             p.state[seat].base_locked + IF side = "Ask" THEN amount ELSE 0
        /\ n.state[seat].quote_locked =
             p.state[seat].quote_locked + IF side = "Ask" THEN 0 ELSE amount
    BY <2>3, <2>4, <2>5, LockFacts
  <2> QED BY <2>6 DEF LockedOn
<1>6. SumTo(Costs(side, centre), level) = SumTo(Costs(side, centre), k) + amount
  <2>1. Costs(side, centre)[level] = amount
    BY <1>1 DEF Costs
  <2> HIDE DEF level, amount
  <2>2. SumTo(Costs(side, centre), level) =
          SumTo(Costs(side, centre), level - 1) + Costs(side, centre)[level]
    BY <1>1, SumStep
  <2> QED BY <1>1, <2>1, <2>2
<1>7. new = RungOrder(side, centre, first, level, seat)
  BY <1>1 DEF RungOrder
<1>8. Live(new) /\ new.seat = seat
  BY DEF Live, Seats, NoSeat
<1> HIDE DEF n, new, price, amount, rung
<1>9. n.book[side][h] = new /\ \A j \in Slots : j # h => n.book[side][j] = p.book[side][j]
  BY <1>4
<1>10. /\ OthersOn(n, side, seat) = OthersOn(p, side, seat)
       /\ OwnSlots(n, side, seat) = OwnSlots(p, side, seat) \cup {h}
       /\ h \notin OthersOn(p, side, seat) /\ h \notin OwnSlots(p, side, seat)
       /\ OthersOn(p, side, seat) \subseteq Slots
  BY <1>4, <1>8, <1>9 DEF OthersOn, OwnSlots, LiveSlots
<1>11. OthersStand(n, m, side, seat)
  <2>1. OthersStand(p, m, side, seat)
    BY DEF UpTo
  <2>2. \A j \in OthersOn(p, side, seat) : n.book[side][j] = p.book[side][j]
    BY <1>9, <1>10
  <2> QED BY <1>10, <2>1, <2>2 DEF OthersStand
<1>12. LockedOn(n.state[seat], side) = SumTo(Costs(side, centre), level)
  <2>1. LockedOn(p.state[seat], side) = SumTo(Costs(side, centre), k)
    BY DEF UpTo
  <2> QED BY <1>5, <1>6, <2>1
<1>13. PICK at : /\ RungsAt(p, side, centre, first, k, seat, at)
                 /\ OwnSlots(p, side, seat) = {at[l] : l \in 1 .. k}
  BY DEF UpTo
<1> DEFINE up == [l \in 1 .. level |-> IF l = level THEN h ELSE at[l]]
<1>14. \A l \in 1 .. level : l = level \/ l \in 1 .. k
  BY <1>1
<1>15. \A l \in 1 .. k : l \in 1 .. level /\ l # level
  BY <1>1
<1>16. at \in [1 .. k -> Slots]
  BY <1>13 DEF RungsAt
<1>17. level \in 1 .. level
  BY <1>1
<1> HIDE DEF level
<1>18. up \in [1 .. level -> Slots] /\ up[level] = h /\ \A l \in 1 .. k : up[l] = at[l]
  BY <1>14, <1>15, <1>16, <1>17
<1> HIDE DEF up
<1>19. RungsAt(n, side, centre, first, level, seat, up)
  <2>1. \A l \in 1 .. k : at[l] # h /\ at[l] \in Slots
    BY <1>10, <1>13, <1>16
  <2>2. \A l \in 1 .. k : n.book[side][up[l]] = RungOrder(side, centre, first, l, seat)
    BY <1>9, <1>13, <1>18, <2>1 DEF RungsAt
  <2>3. n.book[side][up[level]] = RungOrder(side, centre, first, level, seat)
    BY <1>7, <1>9, <1>18
  <2> QED BY <1>14, <1>18, <2>2, <2>3 DEF RungsAt
<1>20. OwnSlots(n, side, seat) = {up[l] : l \in 1 .. level}
  <2>1. \A j \in OwnSlots(n, side, seat) : \E l \in 1 .. level : j = up[l]
    BY <1>10, <1>13, <1>15, <1>17, <1>18
  <2>2. \A l \in 1 .. level : up[l] \in OwnSlots(n, side, seat)
    BY <1>10, <1>13, <1>14, <1>18
  <2> QED BY <2>1, <2>2
<1>21. UpTo(n, m, seat, side, first, level)
  BY <1>11, <1>12, <1>19, <1>20 DEF UpTo, centre
<1> QED BY <1>21 DEF n, rung, level, centre

(* The other side of the ladder is as it was. *)
LEMMA OtherSideStays ==
  ASSUME NEW m, NEW seat \in Seats, NEW p, Sound(p), SeatLive(p, seat),
         NEW quote \in QuoteType, CanPlace(p, seat, quote), NEW side \in Sides, side # quote.side,
         NEW first, NEW k, UpTo(p, m, seat, side, first, k)
  PROVE  UpTo(Place(p, seat, quote), m, seat, side, first, k)
<1> DEFINE n == Place(p, seat, quote)
           centre == Centre(m, seat)
           amount == Backing(quote.side, quote.price, quote.size)
<1>1. \A j \in Slots : n.book[side][j] = p.book[side][j]
  <2>1. PICK h \in Slots : \A d \in Sides : \A j \in Slots :
          n.book[d][j] = IF d = quote.side /\ j = h
                         THEN [price |-> quote.price, seq |-> p.next_seq,
                               seat |-> seat, size |-> quote.size]
                         ELSE p.book[d][j]
    BY PlaceFacts
  <2> HIDE DEF n
  <2> QED BY <2>1
<1>2. LockedOn(n.state[seat], side) = LockedOn(p.state[seat], side)
  <2>1. p \in MarketType
    BY DEF Sound, WellFormed
  <2>2. p.state \in [Seats -> TraderState]
    BY <2>1, MarketFields
  <2>3. n.state[seat] = Lock(p.state[seat], quote.side, amount)
    <3>1. n.state = [p.state EXCEPT ![seat] = Lock(@, quote.side, amount)]
      BY DEF Place, Post
    <3> QED BY <2>2, <3>1
  <2>4. amount \in Nat /\ quote.side \in Sides
    BY DEF CanPlace, CanPost, U64, QuoteType
  <2>5. p.state[seat] \in TraderState /\ p.state[seat].base_locked \in Nat
        /\ p.state[seat].quote_locked \in Nat
    BY <2>2, StateFields
  <2> HIDE DEF n, amount
  <2>6. /\ n.state[seat].base_locked =
             p.state[seat].base_locked + IF quote.side = "Ask" THEN amount ELSE 0
        /\ n.state[seat].quote_locked =
             p.state[seat].quote_locked + IF quote.side = "Ask" THEN 0 ELSE amount
    BY <2>3, <2>4, <2>5, LockFacts
  <2> QED BY <2>4, <2>5, <2>6 DEF LockedOn, Sides
<1> HIDE DEF n
<1>3. /\ OthersOn(n, side, seat) = OthersOn(p, side, seat)
      /\ OwnSlots(n, side, seat) = OwnSlots(p, side, seat)
      /\ OthersOn(p, side, seat) \subseteq Slots
  BY <1>1 DEF OthersOn, OwnSlots, LiveSlots
<1>4. OthersStand(n, m, side, seat)
  BY <1>1, <1>3 DEF UpTo, OthersStand
<1>5. PICK at : /\ RungsAt(p, side, centre, first, k, seat, at)
                /\ OwnSlots(p, side, seat) = {at[l] : l \in 1 .. k}
  BY DEF UpTo
<1>6. RungsAt(n, side, centre, first, k, seat, at)
  BY <1>1, <1>5 DEF RungsAt
<1>7. LockedOn(n.state[seat], side) = SumTo(Costs(side, centre), k)
  BY <1>2 DEF UpTo
<1>8. UpTo(n, m, seat, side, first, k)
  BY <1>3, <1>4, <1>5, <1>6, <1>7 DEF UpTo
<1> QED BY <1>8 DEF n

LEMMA FundedLess ==
  ASSUME NEW state, NEW side, NEW centre, Budget(state, side) \in Nat, NEW k \in 0 .. Levels,
         FundedTo(state, side, centre, k), NEW i \in 1 .. k
  PROVE  FundedTo(state, side, centre, i)
<1>1. SumTo(Costs(side, centre), i) <= Budget(state, side)
  BY FundedPrefix
<1>2. \A l \in 1 .. i : l \in 1 .. k
  OBVIOUS
<1>3. \A l \in 1 .. i : Expressible(side, centre, l)
  BY <1>2 DEF FundedTo
<1> QED BY <1>1, <1>3 DEF FundedTo, Costs

(* One side has so many levels up, the other so many. *)
Raised(p, m, seat, side, first, k, otherwise, j) ==
  /\ UpTo(p, m, seat, side, first, k)
  /\ UpTo(p, m, seat, Opposite(side), otherwise, j)
  /\ p.next_seq = first + k

LEMMA RungGoesUp ==
  ASSUME NEW m, Sound(m), Uncrossed(m), NEW seat \in Seats, Priced(m, seat), SeatLive(m, seat), RoomFor(m, seat),
         NEW p, Sound(p), SameHoldings(m, p), SeatLive(p, seat), NEW side \in Sides,
         NEW first \in Nat, NEW k \in 0 .. Levels - 1, NEW otherwise, NEW j \in Nat,
         Raised(p, m, seat, side, first, k, otherwise, j),
         FundedTo(m.state[seat], side, Centre(m, seat), k + 1)
  PROVE  LET rung == RungAt(side, Centre(m, seat), k + 1)
         IN  /\ CanPlace(p, seat, rung)
             /\ Raised(Place(p, seat, rung), m, seat, side, first, k + 1, otherwise, j)
<1> DEFINE rung == RungAt(side, Centre(m, seat), k + 1)
           n == Place(p, seat, rung)
<1>1. /\ UpTo(p, m, seat, side, first, k)
      /\ UpTo(p, m, seat, Opposite(side), otherwise, j)
      /\ p.next_seq = first + k
  BY DEF Raised
<1>2. rung \in QuoteType /\ CanPlace(p, seat, rung)
  BY <1>1, RungFits
<1>3. UpTo(n, m, seat, side, first, k + 1)
  BY <1>1, <1>2, RungLays
<1>4. rung.side = side /\ Opposite(side) \in Sides /\ Opposite(side) # side
  BY DEF RungAt, Opposite, Sides
<1> HIDE DEF rung
<1>5. UpTo(n, m, seat, Opposite(side), otherwise, j)
  BY <1>1, <1>2, <1>4, OtherSideStays
<1>6. n.next_seq = p.next_seq + 1
  <2>1. p \in MarketType
    BY DEF Sound, WellFormed
  <2> QED BY <2>1 DEF Place, Post, MarketType
<1> HIDE DEF n
<1>7. n.next_seq = first + (k + 1)
  BY <1>1, <1>6
<1>8. CanPlace(p, seat, rung) /\ Raised(n, m, seat, side, first, k + 1, otherwise, j)
  BY <1>2, <1>3, <1>5, <1>7 DEF Raised
<1> QED BY <1>8 DEF n, rung

(* The rungs of a side are accepted one after the other. *)
LEMMA SideGoesUp ==
  ASSUME NEW m, Sound(m), Uncrossed(m), NEW seat \in Seats, Priced(m, seat), SeatLive(m, seat), RoomFor(m, seat),
         NEW ops, Steps(ops), NEW a \in Nat, NEW c \in 0 .. Levels, a + c <= Len(ops),
         NEW side \in Sides,
         \A i \in 1 .. c : ops[a + i] = [kind |-> "Place", quote |-> RungAt(side, Centre(m, seat), i)],
         FundedTo(m.state[seat], side, Centre(m, seat), c),
         NEW first \in Nat, NEW otherwise, NEW j \in Nat,
         Raised(Performed(m, seat, ops)[a], m, seat, side, first, 0, otherwise, j)
  PROVE  LET g == Performed(m, seat, ops)
         IN  /\ \A i \in 1 .. c : Accepted(g[a + (i - 1)], seat, ops[a + i])
             /\ Raised(g[a + c], m, seat, side, first, c, otherwise, j)
<1> DEFINE g == Performed(m, seat, ops)
           state == m.state[seat]
           centre == Centre(m, seat)
           Up(p, k) == Raised(p, m, seat, side, first, k, otherwise, j)
           S == {i \in 0 .. c : Up(g[a + i], i)}
<1>1. c \in Nat /\ c <= Levels /\ Levels \in Nat
  OBVIOUS
<1>2. Len(ops) \in Nat /\ \A i \in 1 .. Len(ops) : g[i] = Perform(g[i - 1], seat, ops[i])
  BY Runs DEF Steps
<1>3. \A i \in 0 .. Len(ops) : Sound(g[i]) /\ SameHoldings(m, g[i]) /\ SeatLive(g[i], seat)
  BY RunFacts
<1>4. Budget(state, side) \in Nat
  BY BudgetBounds
<1>5. ASSUME NEW i \in 1 .. c PROVE FundedTo(state, side, centre, i)
  <2> HIDE DEF state, centre
  <2>1. FundedTo(state, side, centre, c)
    BY DEF state, centre
  <2> QED BY <1>4, <2>1, FundedLess
<1>6. Up(g[a + 0], 0)
  OBVIOUS
<1> HIDE DEF g
<1>7. ASSUME NEW i \in 1 .. c, Up(g[a + (i - 1)], i - 1)
      PROVE  Accepted(g[a + (i - 1)], seat, ops[a + i]) /\ Up(g[a + i], i)
  <2> DEFINE k == i - 1
             p == g[a + k]
             rung == RungAt(side, centre, k + 1)
  <2>1. k \in 0 .. Levels - 1 /\ k + 1 = i /\ a + k \in 0 .. Len(ops) /\ a + i \in 1 .. Len(ops)
        /\ (a + i) - 1 = a + k
    <3>1. c \in Nat /\ c <= Levels /\ a \in Nat /\ Levels \in Nat /\ Len(ops) \in Nat
          /\ a + c <= Len(ops)
      BY <1>1, <1>2
    <3> QED BY ONLY <3>1, i \in 1 .. c
  <2>2. Sound(p) /\ SameHoldings(m, p) /\ SeatLive(p, seat)
    BY <1>3, <2>1
  <2>3. Raised(p, m, seat, side, first, k, otherwise, j)
    BY <1>7
  <2>4. FundedTo(m.state[seat], side, Centre(m, seat), k + 1)
    BY <1>5, <2>1
  <2> HIDE DEF k, p
  <2>5. CanPlace(p, seat, rung) /\ Raised(Place(p, seat, rung), m, seat, side, first, k + 1, otherwise, j)
    BY <2>1, <2>2, <2>3, <2>4, RungGoesUp
  <2>6. ops[a + i] = [kind |-> "Place", quote |-> rung]
    BY <2>1
  <2> HIDE DEF rung
  <2>7. ops[a + i].kind = "Place" /\ ops[a + i].quote = rung
    BY <2>6
  <2>8. g[a + i] = Perform(p, seat, ops[a + i])
    BY <1>2, <2>1 DEF p
  <2>9. g[a + i] = Place(p, seat, rung)
    BY <2>5, <2>7, <2>8 DEF Perform
  <2>10. Accepted(p, seat, ops[a + i])
    BY <2>5, <2>7 DEF Accepted
  <2> QED BY <2>1, <2>5, <2>9, <2>10 DEF p, k
<1> HIDE DEF Up
<1>8. 0 \in S
  BY <1>1, <1>6
<1>9. \A i \in 1 .. c : i - 1 \in S => i \in S
  BY <1>1, <1>7
<1>10. \A i \in 0 .. c : i \in S
  <2> HIDE DEF S
  <2> QED BY <1>1, <1>8, <1>9, Upward
<1>11. \A i \in 0 .. c : Up(g[a + i], i)
  BY <1>10
<1>12. \A i \in 1 .. c : i - 1 \in 0 .. c
  BY <1>1
<1>13. \A i \in 1 .. c : Accepted(g[a + (i - 1)], seat, ops[a + i])
  BY <1>7, <1>11, <1>12
<1>14. Up(g[a + c], c)
  BY <1>1, <1>11
<1> QED BY <1>13, <1>14 DEF Up, g

LEMMA FundedToNone ==
  ASSUME NEW state, NEW side, NEW centre, Budget(state, side) \in Nat
  PROVE  FundedTo(state, side, centre, 0)
<1>1. SumTo(Costs(side, centre), 0) = 0
  BY SumOfNone
<1>2. SumTo(Costs(side, centre), 0) <= Budget(state, side)
  BY <1>1
<1> QED BY <1>2 DEF FundedTo, Costs

(* The whole ladder goes up. *)
RaisedAll(p, m, seat, bids, asks) ==
  /\ UpTo(p, m, seat, "Bid", m.next_seq, bids)
  /\ UpTo(p, m, seat, "Ask", m.next_seq + bids, asks)

LEMMA RefreshGoesUp ==
  ASSUME NEW m, Sound(m), Uncrossed(m), Seat \in Seats, Priced(m, Seat), SeatLive(m, Seat), RoomFor(m, Seat)
  PROVE  /\ ~ Fails(m, Refresh(m))
         /\ \E bids, asks \in 0 .. Levels :
              /\ IsLadder(Ladder(m, Seat), m, Seat, bids, asks)
              /\ RaisedAll(Executed(m, Refresh(m)), m, Seat, bids, asks)
<1> DEFINE tx == Refresh(m)
           ops == Operations(tx)
           g == Performed(m, Seat, ops)
           n == Len(tx.cancels)
           state == m.state[Seat]
           centre == Centre(m, Seat)
           base == m.next_seq
<1>1. tx \in Transaction /\ tx.kind = "Refresh" /\ tx.places = Ladder(m, Seat)
  BY RefreshFacts
<1>2. WellFormed(m) /\ m \in MarketType /\ base \in Nat
  BY MarketFields DEF Sound, WellFormed
<1>3. PICK bids, asks \in 0 .. Levels : IsLadder(Ladder(m, Seat), m, Seat, bids, asks)
  BY <1>2, LadderFacts
<1>4. /\ Len(tx.places) = bids + asks
      /\ \A i \in 1 .. bids : tx.places[i] = RungAt("Bid", centre, i)
      /\ \A i \in bids + 1 .. bids + asks : tx.places[i] = RungAt("Ask", centre, i - bids)
      /\ IF MayQuote(Deviation(state), "Bid")
         THEN FundedTo(state, "Bid", centre, bids) ELSE bids = 0
      /\ IF MayQuote(Deviation(state), "Ask")
         THEN FundedTo(state, "Ask", centre, asks) ELSE asks = 0
  <2> HIDE DEF tx, centre
  <2> QED BY <1>1, <1>3 DEF IsLadder, centre
<1>5. FundedTo(state, "Bid", centre, bids) /\ FundedTo(state, "Ask", centre, asks)
  <2>1. Budget(state, "Bid") \in Nat /\ Budget(state, "Ask") \in Nat
    BY BudgetBounds
  <2> HIDE DEF state, centre
  <2>2. FundedTo(state, "Bid", centre, 0) /\ FundedTo(state, "Ask", centre, 0)
    BY <2>1, FundedToNone
  <2> QED BY <1>4, <2>2
<1>6. /\ Steps(ops) /\ n \in Nat /\ Len(ops) = n + Len(tx.places)
      /\ \A i \in 1 .. n : ops[i] = [kind |-> "Cancel", id |-> tx.cancels[i]]
      /\ \A i \in n + 1 .. n + Len(tx.places) : ops[i] = [kind |-> "Place", quote |-> tx.places[i - n]]
  <2> HIDE DEF tx
  <2> QED BY <1>1, RefreshOperations
<1>7. ClearedOf(g[n], m, Seat)
  BY <1>6, CancelsClear
<1>8. bids \in Nat /\ asks \in Nat /\ bids <= Levels /\ asks <= Levels /\ Levels \in Nat
  OBVIOUS
<1>9. DOMAIN ops = 1 .. Len(ops)
  BY <1>6 DEF Steps
<1>10. \A i \in 0 .. Len(ops) : Sound(g[i]) /\ SeatLive(g[i], Seat)
  <2> HIDE DEF ops
  <2> QED BY <1>6, RunFacts
<1> DEFINE l == Len(tx.places)
           N == Len(ops)
<1>11. n \in Nat /\ l = bids + asks /\ N = n + l
  BY <1>4, <1>6
<1>12. \A i \in n + 1 .. n + l : ops[i] = [kind |-> "Place", quote |-> tx.places[i - n]]
  BY <1>6
<1> HIDE DEF tx, ops, g, n, centre, state, l, N
<1>13. N \in Nat /\ n \in 0 .. N /\ n + bids <= N /\ (n + bids) + asks = N /\ n + bids \in Nat
  BY <1>8, <1>11
<1>14. \A i \in 1 .. bids : ops[n + i] = [kind |-> "Place", quote |-> RungAt("Bid", centre, i)]
  <2> SUFFICES ASSUME NEW i \in 1 .. bids
               PROVE  ops[n + i] = [kind |-> "Place", quote |-> RungAt("Bid", centre, i)]
    OBVIOUS
  <2>1. n + i \in n + 1 .. n + l /\ (n + i) - n = i
    BY <1>8, <1>11
  <2> QED BY <1>4, <1>12, <2>1
<1>15. \A i \in 1 .. asks :
         ops[(n + bids) + i] = [kind |-> "Place", quote |-> RungAt("Ask", centre, i)]
  <2> SUFFICES ASSUME NEW i \in 1 .. asks
               PROVE  ops[(n + bids) + i] = [kind |-> "Place", quote |-> RungAt("Ask", centre, i)]
    OBVIOUS
  <2>1. /\ (n + bids) + i \in n + 1 .. n + l /\ ((n + bids) + i) - n = bids + i
        /\ bids + i \in bids + 1 .. bids + asks /\ (bids + i) - bids = i
    BY <1>8, <1>11
  <2> QED BY <1>4, <1>12, <2>1
<1>16. Raised(g[n], m, Seat, "Bid", base, 0, base + bids, 0)
  <2>1. Sound(g[n]) /\ SeatLive(g[n], Seat)
    BY <1>10, <1>13 DEF N
  <2>2. UpTo(g[n], m, Seat, "Bid", base, 0) /\ UpTo(g[n], m, Seat, "Ask", base + bids, 0)
    BY <1>7, <2>1, ClearedUpTo DEF Sides
  <2>3. g[n].next_seq = base + 0
    BY <1>2, <1>7 DEF ClearedOf
  <2> QED BY <2>2, <2>3 DEF Raised, Opposite
<1>17. /\ \A i \in 1 .. bids : Accepted(g[n + (i - 1)], Seat, ops[n + i])
       /\ Raised(g[n + bids], m, Seat, "Bid", base, bids, base + bids, 0)
  <2>1. FundedTo(m.state[Seat], "Bid", Centre(m, Seat), bids)
    BY <1>5 DEF state, centre
  <2>2. \A i \in 1 .. bids :
          ops[n + i] = [kind |-> "Place", quote |-> RungAt("Bid", Centre(m, Seat), i)]
    BY <1>14 DEF centre
  <2>3. n + bids <= Len(ops) /\ n \in Nat /\ 0 \in Nat /\ "Bid" \in Sides /\ Steps(ops)
    BY <1>6, <1>13 DEF N, Sides
  <2>4. Raised(Performed(m, Seat, ops)[n], m, Seat, "Bid", base, 0, base + bids, 0)
    BY <1>16 DEF g
  <2> HIDE DEF base
  <2>5. LET h == Performed(m, Seat, ops)
        IN  /\ \A i \in 1 .. bids : Accepted(h[n + (i - 1)], Seat, ops[n + i])
            /\ Raised(h[n + bids], m, Seat, "Bid", base, bids, base + bids, 0)
    BY <1>2, <2>1, <2>2, <2>3, <2>4, SideGoesUp
  <2> QED BY <2>5 DEF g
<1>18. Raised(g[n + bids], m, Seat, "Ask", base + bids, 0, base, bids)
  <2>1. Opposite("Ask") = "Bid" /\ Opposite("Bid") = "Ask" /\ (base + bids) + 0 = base + bids
    BY <1>2, <1>8 DEF Opposite
  <2> QED BY <1>17, <2>1 DEF Raised
<1>19. /\ \A i \in 1 .. asks : Accepted(g[(n + bids) + (i - 1)], Seat, ops[(n + bids) + i])
       /\ Raised(g[(n + bids) + asks], m, Seat, "Ask", base + bids, asks, base, bids)
  <2> DEFINE a == n + bids
             first == base + bids
  <2>1. FundedTo(m.state[Seat], "Ask", Centre(m, Seat), asks)
    BY <1>5 DEF state, centre
  <2>2. \A i \in 1 .. asks :
          ops[a + i] = [kind |-> "Place", quote |-> RungAt("Ask", Centre(m, Seat), i)]
    BY <1>15 DEF centre
  <2>3. a + asks <= Len(ops) /\ a \in Nat /\ "Ask" \in Sides /\ Steps(ops) /\ first \in Nat
    BY <1>2, <1>6, <1>8, <1>13 DEF N, Sides
  <2>4. Raised(Performed(m, Seat, ops)[a], m, Seat, "Ask", first, 0, base, bids)
    BY <1>18 DEF g
  <2> HIDE DEF base, a, first
  <2>5. LET h == Performed(m, Seat, ops)
        IN  /\ \A i \in 1 .. asks : Accepted(h[a + (i - 1)], Seat, ops[a + i])
            /\ Raised(h[a + asks], m, Seat, "Ask", first, asks, base, bids)
    BY <1>8, <2>1, <2>2, <2>3, <2>4, SideGoesUp
  <2> QED BY <2>5 DEF g, a, first
<1>20. \A i \in 1 .. n : Accepted(g[i - 1], Seat, ops[i])
  <2> SUFFICES ASSUME NEW i \in 1 .. n PROVE Accepted(g[i - 1], Seat, ops[i])
    OBVIOUS
  <2>1. ops[i] = [kind |-> "Cancel", id |-> tx.cancels[i]]
    BY <1>6
  <2>2. ops[i].kind = "Cancel"
    BY <2>1
  <2> QED BY <2>2 DEF Accepted
<1>21. \A i \in 1 .. N : Accepted(g[i - 1], Seat, ops[i])
  <2> SUFFICES ASSUME NEW i \in 1 .. N PROVE Accepted(g[i - 1], Seat, ops[i])
    OBVIOUS
  <2>1. CASE i \in 1 .. n
    BY <1>20, <2>1
  <2>2. CASE i \in n + 1 .. n + bids
    <3>1. i - n \in 1 .. bids /\ n + ((i - n) - 1) = i - 1 /\ n + (i - n) = i
      BY <1>8, <1>11, <2>2
    <3>2. Accepted(g[n + ((i - n) - 1)], Seat, ops[n + (i - n)])
      BY <1>17, <3>1
    <3> QED BY <3>1, <3>2
  <2>3. CASE i \in (n + bids) + 1 .. N
    <3> DEFINE k == i - (n + bids)
    <3>1. k \in 1 .. asks /\ (n + bids) + (k - 1) = i - 1 /\ (n + bids) + k = i
      BY <1>8, <1>11, <2>3
    <3> HIDE DEF k
    <3>2. Accepted(g[(n + bids) + (k - 1)], Seat, ops[(n + bids) + k])
      BY <1>19, <3>1
    <3> QED BY <3>1, <3>2
  <2> QED BY <1>8, <1>11, <2>1, <2>2, <2>3
<1>22. ~ Fails(m, tx)
  <2>1. ~ Refused(m, Seat, ops)
    BY <1>9, <1>21 DEF Refused, g, N
  <2> QED BY <2>1 DEF Fails, ops
<1>23. Executed(m, tx) = g[(n + bids) + asks]
  BY <1>13 DEF Executed, g, ops, N
<1>24. RaisedAll(g[(n + bids) + asks], m, Seat, bids, asks)
  BY <1>19 DEF Raised, RaisedAll, Opposite
<1> QED BY <1>3, <1>22, <1>23, <1>24 DEF tx

-----------------------------------------------------------------------------
(* What the bot would build next, once its ladder is up. *)

LEMMA SameBest ==
  ASSUME NEW m, WellFormed(m), NEW p, WellFormed(p), NEW side \in Sides,
         NEW S, S \subseteq LiveSlots(m, side), S \subseteq LiveSlots(p, side),
         \A h \in S : p.book[side][h] = m.book[side][h]
  PROVE  TouchOf(p, side, S) = TouchOf(m, side, S)
<1>1. CASE S = {}
  BY <1>1 DEF TouchOf
<1>2. CASE S # {}
  <2> DEFINE b == BestOf(p, side, S)
             c == BestOf(m, side, S)
             before(h, k) == Precedes(side, m.book[side][h], m.book[side][k])
  <2>1. b \in S /\ \A h \in S \ {b} : Precedes(side, p.book[side][b], p.book[side][h])
    BY <1>2, BestExists DEF WellFormed
  <2>2. c \in S /\ \A h \in S \ {c} : before(c, h)
    BY <1>2, BestExists DEF WellFormed
  <2>3. /\ \A h \in LiveSlots(m, side) : ~ before(h, h)
        /\ \A h, k, l \in LiveSlots(m, side) : before(h, k) /\ before(k, l) => before(h, l)
    BY PrecedesOrders
  <2> HIDE DEF b, c
  <2>4. \A h \in S \ {b} : before(b, h)
    BY <2>1
  <2> HIDE DEF before
  <2>5. b = c
    <3> SUFFICES ASSUME b # c PROVE FALSE
      OBVIOUS
    <3>1. before(b, c) /\ before(c, b)
      BY <2>1, <2>2, <2>4
    <3> QED BY <2>1, <2>2, <2>3, <3>1
  <2>6. TouchOf(p, side, S) = p.book[side][b].price /\ TouchOf(m, side, S) = m.book[side][c].price
    BY <1>2 DEF TouchOf, b, c
  <2> QED BY <2>1, <2>5, <2>6
<1> QED BY <1>1, <1>2

LEMMA SameTouch ==
  ASSUME NEW m, WellFormed(m), NEW p, WellFormed(p), NEW seat,
         \A side \in Sides : OthersStand(p, m, side, seat)
  PROVE  Touch(p, seat) = Touch(m, seat)
<1>1. ASSUME NEW side \in Sides
      PROVE  TouchOf(p, side, OthersOn(p, side, seat)) = TouchOf(m, side, OthersOn(m, side, seat))
  <2> DEFINE S == OthersOn(m, side, seat)
  <2>1. OthersOn(p, side, seat) = S /\ \A h \in S : p.book[side][h] = m.book[side][h]
    BY DEF OthersStand
  <2>2. S \subseteq LiveSlots(m, side) /\ OthersOn(p, side, seat) \subseteq LiveSlots(p, side)
    BY DEF OthersOn
  <2> HIDE DEF S
  <2>3. S \subseteq LiveSlots(p, side)
    BY <2>1, <2>2
  <2>4. TouchOf(p, side, S) = TouchOf(m, side, S)
    BY <2>1, <2>2, <2>3, SameBest
  <2> QED BY <2>1, <2>4 DEF S
<1>2. /\ Touch(p, seat) = [side \in Sides |-> TouchOf(p, side, OthersOn(p, side, seat))]
      /\ Touch(m, seat) = [side \in Sides |-> TouchOf(m, side, OthersOn(m, side, seat))]
  BY DEF Touch, OthersOn
<1> QED BY <1>1, <1>2

(* FundedLevels, as a function of the budget alone. *)
LevelsWithin(budget, side, centre) ==
  LET cost == [level \in 1 .. Levels |->
                 Backing(side, LevelPrice(side, centre, level), LevelSize)]
      funded(n) == /\ \A level \in 1 .. n : Expressible(side, centre, level)
                   /\ SumTo(cost, n) <= budget
  IN  CHOOSE n \in 0 .. Levels : funded(n) /\ \A k \in n + 1 .. Levels : ~ funded(k)

LEMMA FundedWithin ==
  ASSUME NEW state, NEW side, NEW centre
  PROVE  FundedLevels(state, side, centre) = LevelsWithin(Budget(state, side), side, centre)
BY DEF FundedLevels, LevelsWithin

LEMMA SameRungs ==
  ASSUME NEW s, NEW t, NEW side, NEW centre,
         Budget(s, side) = Budget(t, side), Deviation(s) = Deviation(t)
  PROVE  Rungs(s, side, centre) = Rungs(t, side, centre)
<1>1. FundedLevels(s, side, centre) = FundedLevels(t, side, centre)
  BY FundedWithin
<1> QED BY <1>1 DEF Rungs

LEMMA SameLadder ==
  ASSUME NEW m, WellFormed(m), NEW p, WellFormed(p), NEW seat \in Seats, SameHoldings(m, p),
         \A side \in Sides : OthersStand(p, m, side, seat)
  PROVE  Ladder(p, seat) = Ladder(m, seat)
<1> DEFINE s == m.state[seat]
           t == p.state[seat]
           centre == Centre(m, seat)
<1>1. /\ \A side : Budget(t, side) = Budget(s, side)
      /\ Deviation(t) = Deviation(s)
  BY SameBudget
<1>2. Touch(p, seat) = Touch(m, seat)
  BY SameTouch
<1>3. Centre(p, seat) = centre
  BY <1>1, <1>2 DEF Centre
<1>4. /\ Ladder(m, seat) = Rungs(s, "Bid", centre) \o Rungs(s, "Ask", centre)
      /\ Ladder(p, seat) = Rungs(t, "Bid", Centre(p, seat)) \o Rungs(t, "Ask", Centre(p, seat))
  BY DEF Ladder, Centre
<1> HIDE DEF s, t, centre
<1>5. /\ Rungs(t, "Bid", centre) = Rungs(s, "Bid", centre)
      /\ Rungs(t, "Ask", centre) = Rungs(s, "Ask", centre)
  BY <1>1, SameRungs
<1> QED BY <1>3, <1>4, <1>5

(* The rungs stand in the queue in the order they went up. *)
LEMMA RungBefore ==
  ASSUME NEW side \in Sides, NEW centre \in Int, NEW first \in Nat, NEW seat,
         NEW i \in Nat \ {0}, NEW j \in Nat \ {0}
  PROVE  Precedes(side, RungOrder(side, centre, first, i, seat),
                        RungOrder(side, centre, first, j, seat)) <=> i < j
<1> DEFINE u == (i - 1) * LevelStep
           v == (j - 1) * LevelStep
           o == RungOrder(side, centre, first, i, seat)
           q == RungOrder(side, centre, first, j, seat)
<1>1. LevelStep \in Nat /\ HalfSpread \in Nat /\ i - 1 \in Nat /\ j - 1 \in Nat
  OBVIOUS
<1>2. u \in Nat /\ v \in Nat
  BY <1>1
<1>3. i <= j => u <= v
  BY <1>1, ProductMonotone
<1>4. j <= i => v <= u
  BY <1>1, ProductMonotone
<1>5. /\ o.price = IF side = "Bid" THEN centre - (HalfSpread + u) ELSE centre + (HalfSpread + u)
      /\ q.price = IF side = "Bid" THEN centre - (HalfSpread + v) ELSE centre + (HalfSpread + v)
      /\ o.seq = first + (i - 1) /\ q.seq = first + (j - 1)
  BY DEF RungOrder, LevelPrice
<1> HIDE DEF u, v, o, q
<1>6. o.seq < q.seq <=> i < j
  BY <1>5
<1>7. CASE side = "Bid"
  <2>1. o.price \in Int /\ q.price \in Int
    BY <1>1, <1>2, <1>5, <1>7
  <2>2. o.price = q.price <=> u = v
    BY <1>1, <1>2, <1>5, <1>7
  <2>3. o.price > q.price <=> u < v
    BY <1>1, <1>2, <1>5, <1>7
  <2>4. Precedes(side, o, q) <=> (u = v /\ i < j) \/ u < v
    BY <1>6, <1>7, <2>2, <2>3 DEF Precedes
  <2>5. Precedes(side, o, q) <=> i < j
    BY <1>1, <1>2, <1>3, <1>4, <2>4
  <2> QED BY <2>5 DEF o, q
<1>8. CASE side # "Bid"
  <2>1. o.price \in Int /\ q.price \in Int
    BY <1>1, <1>2, <1>5, <1>8
  <2>2. o.price = q.price <=> u = v
    BY <1>1, <1>2, <1>5, <1>8
  <2>3. o.price < q.price <=> u < v
    BY <1>1, <1>2, <1>5, <1>8
  <2>4. Precedes(side, o, q) <=> (u = v /\ i < j) \/ u < v
    BY <1>6, <1>8, <2>2, <2>3 DEF Precedes
  <2>5. Precedes(side, o, q) <=> i < j
    BY <1>1, <1>2, <1>3, <1>4, <2>4
  <2> QED BY <2>5 DEF o, q
<1> QED BY <1>7, <1>8

RungsAre(p, side, centre, first, count, seat, at) ==
  /\ RungsAt(p, side, centre, first, count, seat, at)
  /\ OwnSlots(p, side, seat) = {at[l] : l \in 1 .. count}

LEMMA RungQueue ==
  ASSUME NEW p, NEW side \in Sides, NEW centre \in Int, NEW first \in Nat, NEW k \in Nat,
         NEW seat, NEW at, RungsAre(p, side, centre, first, k, seat, at)
  PROVE  \A i \in 1 .. k : Queue(p, side, seat)[i] = at[i]
<1> DEFINE own == OwnSlots(p, side, seat)
           preceding(h) == {q \in own : Precedes(side, p.book[side][q], p.book[side][h])}
           ahead(h) == Cardinality(preceding(h))
<1>1. /\ RungsAt(p, side, centre, first, k, seat, at)
      /\ own = {at[l] : l \in 1 .. k}
      /\ at \in Injection(1 .. k, Slots) /\ at \in [1 .. k -> Slots]
  BY RungsApart DEF Injection, RungsAre
<1>2. Cardinality(own) = k
  BY <1>1, ImageCount
<1>3. ASSUME NEW l \in 1 .. k PROVE ahead(at[l]) = l - 1
  <2> DEFINE below == [j \in 1 .. l - 1 |-> at[j]]
  <2>1. l - 1 \in Nat /\ \A j \in 1 .. l - 1 : j \in 1 .. k /\ j < l
    OBVIOUS
  <2>2. \A j \in 1 .. k : Precedes(side, p.book[side][at[j]], p.book[side][at[l]]) <=> j < l
    <3> SUFFICES ASSUME NEW j \in 1 .. k
                 PROVE  Precedes(side, p.book[side][at[j]], p.book[side][at[l]]) <=> j < l
      OBVIOUS
    <3>1. /\ p.book[side][at[j]] = RungOrder(side, centre, first, j, seat)
          /\ p.book[side][at[l]] = RungOrder(side, centre, first, l, seat)
      BY <1>1 DEF RungsAt
    <3>2. j \in Nat \ {0} /\ l \in Nat \ {0}
      OBVIOUS
    <3> QED BY <3>1, <3>2, RungBefore
  <2>3. \A j \in 1 .. k : j < l => j \in 1 .. l - 1
    OBVIOUS
  <2>4. preceding(at[l]) = {at[j] : j \in 1 .. l - 1}
    BY <1>1, <2>1, <2>2, <2>3
  <2>5. {at[j] : j \in 1 .. l - 1} = {below[j] : j \in 1 .. l - 1}
    OBVIOUS
  <2>6. below \in Injection(1 .. l - 1, Slots)
    <3>1. \A i, j \in 1 .. k : at[i] = at[j] => i = j
      BY <1>1 DEF Injection, IsInjective
    <3>2. below \in [1 .. l - 1 -> Slots]
      BY <1>1, <2>1
    <3>3. \A i, j \in 1 .. l - 1 : below[i] = below[j] => i = j
      BY <2>1, <3>1
    <3> HIDE DEF below
    <3>4. IsInjective(below)
      BY <3>2, <3>3 DEF IsInjective
    <3> QED BY <3>2, <3>4 DEF Injection
  <2> HIDE DEF below, preceding
  <2>7. Cardinality({below[j] : j \in 1 .. l - 1}) = l - 1
    BY <2>1, <2>6, ImageCount
  <2> QED BY <2>4, <2>5, <2>7
<1>4. Queue(p, side, seat) = [i \in 1 .. Cardinality(own) |-> CHOOSE h \in own : ahead(h) = i - 1]
  BY DEF Queue
<1> HIDE DEF ahead, own
<1>5. ASSUME NEW i \in 1 .. k PROVE Queue(p, side, seat)[i] = at[i]
  <2> DEFINE chosen == CHOOSE h \in own : ahead(h) = i - 1
  <2>1. \A h \in own : \E l \in 1 .. k : h = at[l]
    BY <1>1
  <2>2. at[i] \in own /\ ahead(at[i]) = i - 1
    BY <1>1, <1>3
  <2>3. chosen \in own /\ ahead(chosen) = i - 1
    BY <2>2
  <2>4. Queue(p, side, seat)[i] = chosen
    BY <1>2, <1>4
  <2> HIDE DEF chosen
  <2>5. PICK l \in 1 .. k : chosen = at[l]
    BY <2>1, <2>3
  <2>6. l - 1 = i - 1
    BY <1>3, <2>3, <2>5
  <2>7. l = i
    BY <2>6
  <2> QED BY <2>4, <2>5, <2>7
<1> QED BY <1>5

LEMMA RungAgrees ==
  ASSUME NEW side, NEW centre, NEW first, NEW level, NEW seat,
         LevelPrice(side, centre, level) \in Int
  PROVE  Agrees(QuotedAs(side, RungOrder(side, centre, first, level, seat)),
                RungAt(side, centre, level))
<1> DEFINE price == LevelPrice(side, centre, level)
<1>1. Drift(price, price) = 0
  <2> HIDE DEF price
  <2>1. price \in Int
    BY DEF price
  <2> QED BY <2>1 DEF Drift
<1>2. 0 <= DriftTolerance
  OBVIOUS
<1> HIDE DEF price
<1>3. /\ QuotedAs(side, RungOrder(side, centre, first, level, seat)).side = side
      /\ QuotedAs(side, RungOrder(side, centre, first, level, seat)).size = LevelSize
      /\ QuotedAs(side, RungOrder(side, centre, first, level, seat)).price = price
  BY DEF QuotedAs, RungOrder, price
<1>4. /\ RungAt(side, centre, level).side = side
      /\ RungAt(side, centre, level).size = LevelSize
      /\ RungAt(side, centre, level).price = price
  BY DEF RungAt, price
<1> QED BY <1>1, <1>2, <1>3, <1>4 DEF Agrees

(* What a seat has resting on a side is its ladder there. *)
LEMMA SideAgrees ==
  ASSUME NEW m, WellFormed(m), Uncrossed(m), NEW seat \in Seats, Priced(m, seat), NEW p, NEW side \in Sides,
         NEW first \in Nat, NEW k \in Nat, UpTo(p, m, seat, side, first, k), NEW i \in 1 .. k
  PROVE  Agrees(QuotedAs(side, p.book[side][Queue(p, side, seat)[i]]),
                RungAt(side, Centre(m, seat), i))
<1> DEFINE centre == Centre(m, seat)
<1>1. m \in MarketType /\ Fair(Touch(m, seat)) \in Nat
  BY FairFacts DEF WellFormed
<1>2. i \in Nat \ {0}
  OBVIOUS
<1>3. centre \in Int /\ LevelPrice(side, centre, i) \in Int
  BY <1>1, <1>2, RungsStandApart
<1>4. PICK at : RungsAre(p, side, centre, first, k, seat, at)
  BY DEF UpTo, RungsAre
<1> HIDE DEF centre
<1>5. Queue(p, side, seat)[i] = at[i]
  BY <1>3, <1>4, RungQueue
<1>6. p.book[side][at[i]] = RungOrder(side, centre, first, i, seat)
  BY <1>4 DEF RungsAre, RungsAt
<1>7. Agrees(QuotedAs(side, RungOrder(side, centre, first, i, seat)), RungAt(side, centre, i))
  BY <1>3, RungAgrees
<1> QED BY <1>5, <1>6, <1>7 DEF centre

LEMMA RaisedHolds ==
  ASSUME NEW m, Sound(m), Uncrossed(m), Seat \in Seats, Priced(m, Seat), NEW p, Sound(p), SameHoldings(m, p),
         NEW bids \in 0 .. Levels, NEW asks \in 0 .. Levels,
         IsLadder(Ladder(m, Seat), m, Seat, bids, asks), RaisedAll(p, m, Seat, bids, asks)
  PROVE  HoldsOn(p)
<1> DEFINE resting == OwnedBy(p, Seat)
           ladder == Ladder(m, Seat)
           centre == Centre(m, Seat)
           bidding == Queue(p, "Bid", Seat)
           asking == Queue(p, "Ask", Seat)
           base == m.next_seq
<1>1. WellFormed(m) /\ WellFormed(p) /\ base \in Nat
  BY MarketFields DEF Sound, WellFormed
<1>2. bids \in Nat /\ asks \in Nat /\ base + bids \in Nat
  BY <1>1
<1>3. UpTo(p, m, Seat, "Bid", base, bids) /\ UpTo(p, m, Seat, "Ask", base + bids, asks)
  BY DEF RaisedAll
<1>4. \A side \in Sides : OthersStand(p, m, side, Seat)
  BY <1>3 DEF UpTo, Sides
<1>5. Ladder(p, Seat) = ladder
  BY <1>1, <1>4, SameLadder
<1>6. /\ Len(ladder) = bids + asks /\ DOMAIN ladder = 1 .. bids + asks
      /\ \A i \in 1 .. bids : ladder[i] = RungAt("Bid", centre, i)
      /\ \A i \in bids + 1 .. bids + asks : ladder[i] = RungAt("Ask", centre, i - bids)
  <2> HIDE DEF ladder, centre
  <2>1. /\ ladder \in Seq(QuoteType) /\ Len(ladder) = bids + asks
        /\ \A i \in 1 .. bids : ladder[i] = RungAt("Bid", centre, i)
        /\ \A i \in bids + 1 .. bids + asks : ladder[i] = RungAt("Ask", centre, i - bids)
    BY DEF IsLadder, ladder, centre
  <2> QED BY <2>1
<1>7. /\ Cardinality(OwnSlots(p, "Bid", Seat)) = bids
      /\ Cardinality(OwnSlots(p, "Ask", Seat)) = asks
  BY <1>1, <1>2, <1>3, UpToCount
<1>8. /\ Len(resting) = bids + asks
      /\ \A i \in 1 .. bids : resting[i] = QuotedAs("Bid", p.book["Bid"][bidding[i]])
      /\ \A i \in bids + 1 .. bids + asks :
           resting[i] = QuotedAs("Ask", p.book["Ask"][asking[i - bids]])
  <2>1. LET b == Cardinality(OwnSlots(p, "Bid", Seat))
            a == Cardinality(OwnSlots(p, "Ask", Seat))
        IN  /\ Len(resting) = b + a
            /\ \A i \in 1 .. b : resting[i] = QuotedAs("Bid", p.book["Bid"][bidding[i]])
            /\ \A i \in b + 1 .. b + a : resting[i] = QuotedAs("Ask", p.book["Ask"][asking[i - b]])
    BY <1>1, OwnedParts
  <2> HIDE DEF resting, bidding, asking
  <2> QED BY <1>7, <2>1
<1>9. \A i \in 1 .. bids :
        Agrees(QuotedAs("Bid", p.book["Bid"][bidding[i]]), RungAt("Bid", centre, i))
  BY <1>1, <1>2, <1>3, SideAgrees DEF Sides
<1>10. \A i \in 1 .. asks :
         Agrees(QuotedAs("Ask", p.book["Ask"][asking[i]]), RungAt("Ask", centre, i))
  BY <1>1, <1>2, <1>3, SideAgrees DEF Sides
<1> HIDE DEF resting, ladder, centre, bidding, asking
<1>11. ASSUME NEW i \in 1 .. bids + asks PROVE Agrees(resting[i], ladder[i])
  <2>1. CASE i \in 1 .. bids
    BY <1>6, <1>8, <1>9, <2>1
  <2>2. CASE i \in bids + 1 .. bids + asks
    <3>1. i - bids \in 1 .. asks
      BY <1>2, <2>2
    <3> QED BY <1>6, <1>8, <1>10, <2>2, <3>1
  <2> QED BY <1>2, <2>1, <2>2
<1>12. Holds(resting, ladder)
  BY <1>6, <1>8, <1>11 DEF Holds
<1> QED BY <1>5, <1>12 DEF HoldsOn, Desired, resting

LEMMA SettlesNow ==
  ASSUME BotInv, Uncrossed(market)
  PROVE  FreshRefreshSettles
<1> DEFINE n == Executed(market, Refresh(market))
<1>1. /\ Sound(market) /\ market \in MarketType
      /\ Seat \in Seats /\ SeatLive(market, Seat)
  BY Basics
<1> SUFFICES ASSUME Priced(market, Seat), HasRoom(market)
             PROVE  ~ Fails(market, Refresh(market)) /\ HoldsOn(n)
  BY DEF FreshRefreshSettles, FreshRefreshLands, RefreshIsAFixedPoint, CanRefresh, Priced, BotInv
<1>2. RoomFor(market, Seat)
  BY DEF HasRoom, RoomFor, OthersOn
<1>3. /\ ~ Fails(market, Refresh(market))
      /\ \E bids, asks \in 0 .. Levels :
           /\ IsLadder(Ladder(market, Seat), market, Seat, bids, asks)
           /\ RaisedAll(n, market, Seat, bids, asks)
  BY <1>1, <1>2, RefreshGoesUp
<1>4. Refresh(market) \in Transaction
  BY <1>1, RefreshFacts
<1>5. Sound(n) /\ SameHoldings(market, n)
  BY <1>1, <1>4, ExecutedFacts
<1> HIDE DEF n
<1>6. HoldsOn(n)
  BY <1>1, <1>3, <1>5, RaisedHolds
<1> QED BY <1>3, <1>6

(* From the book it was planned on one refresh is enough: it is accepted,  *)
(* whatever the others quote and whatever the bot holds, unless the book   *)
(* has no room for a ladder or a midpoint that wraps; and the bot then has *)
(* nothing to change.                                                      *)
THEOREM FreshRefreshAlwaysSettles == Spec => []FreshRefreshSettles
<1>1. UncrossedInv => FreshRefreshSettles
  BY SettlesNow DEF UncrossedInv
<1> QED BY <1>1, UncrossedInvariance, PTL
=============================================================================
