------------------------------ MODULE Quoting ------------------------------
(***************************************************************************)
(* The market maker's strategy: from a market account and a seat to the    *)
(* ladder it wants resting, and whether what rests is close enough to it.  *)
(* Pure, like the library it models; module Bot runs it against a market   *)
(* that moves.                                                             *)
(*                                                                         *)
(* Source: crates/clob-mm/src/{fair,inventory,ladder,plan,params}.rs       *)
(***************************************************************************)
EXTENDS Market, Sequences, FiniteSets

CONSTANTS
  Reference,      \* reference_in_ticks
  HalfSpread,     \* half_spread_in_ticks
  LevelStep,      \* level_step_in_ticks
  Levels,         \* levels per side
  LevelSize,      \* size_in_base_lots
  TargetBase,     \* target_base_lots
  InventoryLimit, \* inventory_limit_lots
  MaxSkew,        \* max_skew_in_ticks
  DriftTolerance  \* drift_tolerance_in_ticks

MaxLevels == 12

(* Params::validate: the configurations the bot agrees to run with. *)
ASSUME ParamsAssumption ==
  /\ Levels \in 1 .. MaxLevels
  /\ LevelSize \in Nat \ {0}
  /\ HalfSpread \in Nat \ {0}
  /\ MaxSkew \in Nat /\ MaxSkew < HalfSpread
  /\ InventoryLimit \in Nat \ {0}
  /\ Reference \in Nat \ {0}
  /\ LevelStep \in Nat
  /\ TargetBase \in Nat
  /\ DriftTolerance \in Nat

-----------------------------------------------------------------------------
(* fair.rs *)

(* The best price on a side among the orders in slots. *)
TouchOf(m, side, slots) ==
  IF slots = {} THEN NoPrice ELSE m.book[side][BestOf(m, side, slots)].price

(* Mutant of Touch: the bot's own orders count as other people's opinion. *)
WholeTouch(m, seat) ==
  [side \in Sides |-> TouchOf(m, side, LiveSlots(m, side))]

(* Touch::excluding *)
Touch(m, seat) ==
  [side \in Sides |->
     TouchOf(m, side, {h \in LiveSlots(m, side) : m.book[side][h].seat # seat})]

TwoSided(touch) == touch["Bid"] # NoPrice /\ touch["Ask"] # NoPrice

(* The u64 sum of the midpoint overflows.  clob-mm is a workspace of its   *)
(* own, which the overflow checks of the root's release profile do not     *)
(* reach: what is modelled is a release build, in which the sum wraps.     *)
MidpointWraps(touch) == TwoSided(touch) /\ touch["Bid"] + touch["Ask"] \notin U64

Midpoint(touch) ==
  LET sum == touch["Bid"] + touch["Ask"]
  IN  (IF MidpointWraps(touch) THEN sum - (U64Max + 1) ELSE sum) \div 2

AtLeastOne(price) == IF price < 1 THEN 1 ELSE price

(* Mutant of Fair: a single visible side does not bound the reference. *)
FairUnclamped(touch) ==
  AtLeastOne(IF TwoSided(touch) THEN Midpoint(touch) ELSE Reference)

(* fair::price *)
Fair(touch) ==
  LET bid == touch["Bid"]
      ask == touch["Ask"]
      price == CASE TwoSided(touch)                     -> Midpoint(touch)
                 [] bid # NoPrice /\ ask = NoPrice      -> IF Reference < bid THEN bid ELSE Reference
                 [] bid = NoPrice /\ ask # NoPrice      -> IF Reference > ask THEN ask ELSE Reference
                 [] bid = NoPrice /\ ask = NoPrice      -> Reference
  IN  AtLeastOne(price)

-----------------------------------------------------------------------------
(* inventory.rs *)

(* What a seat holds, resting or free. *)
TotalBase(state) == state.base_free + state.base_locked
TotalQuote(state) == state.quote_free + state.quote_locked

Deviation(state) == TotalBase(state) - TargetBase

(* Negative when long; the division truncates toward zero. *)
Skew(deviation) ==
  LET size == IF deviation < 0 THEN -deviation ELSE deviation
      ticks == (MaxSkew * MinOf(size, InventoryLimit)) \div InventoryLimit
  IN  IF deviation < 0 THEN ticks ELSE -ticks

(* Mutant of MayQuote: skew is the only response to a position. *)
MayAlwaysQuote(deviation, side) == side \in Sides

MayQuote(deviation, side) ==
  IF side = "Bid" THEN deviation < InventoryLimit ELSE deviation > -InventoryLimit

-----------------------------------------------------------------------------
(* ladder.rs *)

LevelPrice(side, centre, level) ==
  LET offset == HalfSpread + (level - 1) * LevelStep
  IN  IF side = "Bid" THEN centre - offset ELSE centre + offset

(* A level that has a price and a cost in the machine word. *)
Expressible(side, centre, level) ==
  LET price == LevelPrice(side, centre, level)
  IN  price \in U64 \ {0} /\ Backing(side, price, LevelSize) \in U64

(* A refresh cancels before it places, so locked funds count. *)
Budget(state, side) == IF side = "Bid" THEN TotalQuote(state) ELSE TotalBase(state)

(* How many levels, from the touch outward, are expressible and paid for. *)
FundedLevels(state, side, centre) ==
  LET cost == [level \in 1 .. Levels |->
                 Backing(side, LevelPrice(side, centre, level), LevelSize)]
      funded(n) == /\ \A level \in 1 .. n : Expressible(side, centre, level)
                   /\ SumTo(cost, n) <= Budget(state, side)
  IN  CHOOSE n \in 0 .. Levels : funded(n) /\ \A k \in n + 1 .. Levels : ~ funded(k)

(* extend: one side of the ladder, best first. *)
Rungs(state, side, centre) ==
  IF MayQuote(Deviation(state), side)
  THEN [level \in 1 .. FundedLevels(state, side, centre) |->
          [side |-> side, price |-> LevelPrice(side, centre, level), size |-> LevelSize]]
  ELSE <<>>

(* ladder::build, on the account a cycle read. *)
Ladder(m, seat) ==
  LET state == m.state[seat]
      centre == Fair(Touch(m, seat)) + Skew(Deviation(state))
  IN  Rungs(state, "Bid", centre) \o Rungs(state, "Ask", centre)

-----------------------------------------------------------------------------
(* plan.rs *)

OwnSlots(m, side, seat) == {h \in LiveSlots(m, side) : m.book[side][h].seat = seat}

(* The orders of a seat on one side, best first: each stands behind those  *)
(* that precede it.                                                        *)
Queue(m, side, seat) ==
  LET own == OwnSlots(m, side, seat)
      ahead(h) == Cardinality({k \in own : Precedes(side, m.book[side][k], m.book[side][h])})
  IN  [i \in 1 .. Cardinality(own) |-> CHOOSE h \in own : ahead(h) = i - 1]

(* Resting::owned_by: bids best first, then asks best first. *)
OwnedBy(m, seat) ==
  LET quote(side, o) == [side |-> side, seq |-> o.seq, price |-> o.price, size |-> o.size]
      mine(side) == LET queue == Queue(m, side, seat)
                    IN  [i \in DOMAIN queue |-> quote(side, m.book[side][queue[i]])]
  IN  mine("Bid") \o mine("Ask")

Drift(p, q) == IF p < q THEN q - p ELSE p - q

(* Mutant of Agrees: a quote of the right size is good at any price. *)
AgreesOnSize(order, quote) ==
  order.side = quote.side /\ order.size = quote.size

(* Not Missing, Resized or Drifted. *)
Agrees(order, quote) ==
  /\ order.side = quote.side
  /\ order.size = quote.size
  /\ Drift(order.price, quote.price) <= DriftTolerance

(* plan::decide answers Hold. *)
Holds(resting, desired) ==
  /\ Len(resting) = Len(desired)
  /\ \A i \in DOMAIN desired : Agrees(resting[i], desired[i])
=============================================================================
