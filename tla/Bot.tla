-------------------------------- MODULE Bot --------------------------------
(***************************************************************************)
(* The market maker at work: it reads the market, decides, sends one       *)
(* BatchUpdate and waits for it, over and over until it is interrupted,    *)
(* and then cancels what it has resting.  Between its read and the landing *)
(* of its transaction other traders quote, cancel and take.  A transaction *)
(* may land, fail, expire, or land after the reply to it was lost.         *)
(*                                                                         *)
(* Source: crates/clob-mm/src/session.rs, main.rs; crates/clob-ops/src/    *)
(* rpc.rs; and, as operators of Market, the handlers it calls.             *)
(***************************************************************************)
EXTENDS Quoting, Functions

CONSTANTS
  Wallet,               \* the bot's wallet
  StartBase, StartQuote, \* lots every trader starts with
  Quotes,                \* the post-only orders of the other traders
  TakeSizes,             \* lots of one fill of theirs
  ShutdownCancelLimit,   \* SHUTDOWN_CANCEL_LIMIT
  TransactionRoom,       \* bytes a transaction has for cancels and packets
  MaxMoves,              \* bound: steps of the other traders
  MaxLostReplies         \* bound: replies lost on the way back

ASSUME BotAssumption ==
  /\ Wallet \in Traders
  /\ Quotes \subseteq [side : Sides, price : U64 \ {0}, size : U64 \ {0}]
  /\ StartBase \in Nat /\ NumSeats * StartBase \in U64
  /\ StartQuote \in Nat /\ NumSeats * StartQuote \in U64
  /\ TakeSizes \subseteq U64 \ {0}
  /\ ShutdownCancelLimit \in Nat /\ Levels <= ShutdownCancelLimit
  /\ TransactionRoom \in Nat
  /\ MaxMoves \in Nat /\ MaxLostReplies \in Nat

Others == Traders \ {Wallet}

NoTransaction == [kind |-> "None", cancels |-> <<>>, places |-> <<>>]

VARIABLES
  market,   \* the account, between instructions
  phase,    \* where the bot's thread is
  running,  \* the flag the interrupt handler clears
  sent,     \* the transaction the bot waits for
  late,     \* those whose reply was lost; NoTransaction once landed or expired
  report,   \* what its last transaction came to, as it was told
  moves,    \* steps the other traders have taken
  lost      \* replies lost

vars == <<market, phase, running, sent, late, report, moves, lost>>

Phases == {"Idle", "Refreshing", "Withdrawing", "Stopped"}
Reports == {"Nothing", "Refreshed", "Failed", "Withdrawn", "NotWithdrawn"}

SeatOf(t) == market.seat_of[t]
Seat == SeatOf(Wallet)

(* Everybody has a seat and funds: the bot claims its seat before its      *)
(* first cycle.                                                            *)
Seated(seats) ==
  [NewMarket EXCEPT !.seat_of = seats,
                    !.state = [s \in Seats |->
                      [EmptyState EXCEPT !.base_free = StartBase, !.quote_free = StartQuote]],
                    !.base_deposited = NumSeats * StartBase,
                    !.quote_deposited = NumSeats * StartQuote]

Init ==
  /\ \E seats \in Bijection(Traders, Seats) : market = Seated(seats)
  /\ phase = "Idle"
  /\ running = TRUE
  /\ sent = NoTransaction
  /\ late = [i \in 1 .. MaxLostReplies |-> NoTransaction]
  /\ report = "Nothing"
  /\ moves = 0
  /\ lost = 0

-----------------------------------------------------------------------------
(* What the program does with the bot's transactions. *)

CancelWhole(m, side, h) == Release(m, side, h, m.book[side][h].size)

(* A cancel of a BatchUpdate: an id that no longer rests is skipped. *)
CancelIfResting(m, id) ==
  IF Found(m, id) = {} THEN m
  ELSE CancelWhole(m, id.side, CHOOSE h \in Found(m, id) : TRUE)

(* A packet of a BatchUpdate: post-only, and rejected rather than slid. *)
CanPlace(m, seat, quote) ==
  /\ NonCrossingPrice(m, quote.side, quote.price) = quote.price
  /\ CanPost(m, seat, quote.side, quote.price, quote.size)

Place(m, seat, quote) == Post(m, seat, quote.side, quote.price, quote.size)

(* One pass of cancel_all_orders: the best order of the seat, if any. *)
Sweep(m, side, seat) ==
  LET own == OwnSlots(m, side, seat)
  IN  IF own = {} THEN m ELSE CancelWhole(m, side, BestOf(m, side, own))

(* A transaction is run as a sequence of such steps. *)
Cancels(ids) == [i \in DOMAIN ids |-> [kind |-> "Cancel", id |-> ids[i]]]
Places(quotes) == [i \in DOMAIN quotes |-> [kind |-> "Place", quote |-> quotes[i]]]
Sweeps(side) == [i \in 1 .. ShutdownCancelLimit |-> [kind |-> "Sweep", side |-> side]]

(* Mutant of Operations: one side only is withdrawn. *)
OperationsOnBids(tx) ==
  CASE tx.kind = "None"     -> <<>>
    [] tx.kind = "Refresh"  -> Cancels(tx.cancels) \o Places(tx.places)
    [] tx.kind = "Withdraw" -> Sweeps("Bid")

Operations(tx) ==
  CASE tx.kind = "None"     -> <<>>
    [] tx.kind = "Refresh"  -> Cancels(tx.cancels) \o Places(tx.places)
    [] tx.kind = "Withdraw" -> Sweeps("Bid") \o Sweeps("Ask")

(* Only a packet can be refused. *)
Accepted(m, seat, op) == op.kind = "Place" => CanPlace(m, seat, op.quote)

(* A step that is refused has changed nothing. *)
Perform(m, seat, op) ==
  CASE op.kind = "Cancel" -> CancelIfResting(m, op.id)
    [] op.kind = "Place"  -> IF CanPlace(m, seat, op.quote) THEN Place(m, seat, op.quote) ELSE m
    [] op.kind = "Sweep"  -> Sweep(m, op.side, seat)

(* The account after each step. *)
Performed(m, seat, ops) ==
  LET after[i \in 0 .. Len(ops)] == IF i = 0 THEN m ELSE Perform(after[i - 1], seat, ops[i])
  IN  after

(* Mutant of Refused: a rejected packet is left out of the ladder. *)
NeverRefused(m, seat, ops) == FALSE

(* One step refused fails the transaction, and the runtime discards all it *)
(* did.                                                                    *)
Refused(m, seat, ops) ==
  \E i \in DOMAIN ops : ~ Accepted(Performed(m, seat, ops)[i - 1], seat, ops[i])

Executed(m, tx) == Performed(m, Seat, Operations(tx))[Len(Operations(tx))]

Fails(m, tx) == Refused(m, Seat, Operations(tx))

-----------------------------------------------------------------------------
(* One cycle. *)

Desired(m) == Ladder(m, Seat)
HoldsOn(m) == Holds(OwnedBy(m, Seat), Desired(m))

IdOf(order) == [side |-> order.side, seq |-> order.seq]

(* Plan::Replace: cancel all of it, place all of it. *)
Refresh(m) ==
  LET resting == OwnedBy(m, Seat)
  IN  [kind    |-> "Refresh",
       cancels |-> [i \in DOMAIN resting |-> IdOf(resting[i])],
       places  |-> Desired(m)]

(* An order id is 16 bytes and a post-only packet 20. *)
FitsTransaction(tx) == 16 * Len(tx.cancels) + 20 * Len(tx.places) <= TransactionRoom

(* Session::cycle reads, decides and sends.  A hold changes nothing. *)
Cycle ==
  /\ phase = "Idle" /\ running
  /\ ~ HoldsOn(market)
  /\ FitsTransaction(Refresh(market))
  /\ phase' = "Refreshing"
  /\ sent' = Refresh(market)
  /\ UNCHANGED <<market, running, late, report, moves, lost>>

(* A transaction too large to send is an error of the cycle. *)
CycleTooLarge ==
  /\ phase = "Idle" /\ running
  /\ ~ HoldsOn(market)
  /\ ~ FitsTransaction(Refresh(market))
  /\ report' = "Failed"
  /\ UNCHANGED <<market, phase, running, sent, late, moves, lost>>

Interrupt ==
  /\ running
  /\ phase # "Stopped"
  /\ running' = FALSE
  /\ UNCHANGED <<market, phase, sent, late, report, moves, lost>>

(* The loop ends and withdraw_quotes is sent, without reading the book. *)
WithdrawQuotes ==
  /\ phase = "Idle" /\ ~ running
  /\ phase' = "Withdrawing"
  /\ sent' = [NoTransaction EXCEPT !.kind = "Withdraw"]
  /\ UNCHANGED <<market, running, late, report, moves, lost>>

(* The bot is told how its transaction ended, and stops waiting for it. *)
Hears(ok) ==
  /\ sent' = NoTransaction
  /\ phase' = IF phase = "Refreshing" THEN "Idle" ELSE "Stopped"
  /\ report' = IF phase = "Refreshing"
               THEN IF ok THEN "Refreshed" ELSE "Failed"
               ELSE IF ok THEN "Withdrawn" ELSE "NotWithdrawn"

Waiting == phase \in {"Refreshing", "Withdrawing"}

Lands ==
  /\ Waiting
  /\ \/ ~ Fails(market, sent) /\ market' = Executed(market, sent) /\ Hears(TRUE)
     \/ Fails(market, sent) /\ market' = market /\ Hears(FALSE)
  /\ UNCHANGED <<running, late, moves, lost>>

(* Its blockhash expires, or the endpoint cannot be reached. *)
Expires ==
  /\ Waiting
  /\ Hears(FALSE)
  /\ UNCHANGED <<market, running, late, moves, lost>>

(* The call fails while the transaction is on its way. *)
LosesReply ==
  /\ Waiting
  /\ lost < MaxLostReplies
  /\ Hears(FALSE)
  /\ late' = [late EXCEPT ![lost + 1] = sent]
  /\ lost' = lost + 1
  /\ UNCHANGED <<market, running, moves>>

(* Transactions nobody waits for any more. *)
Pending == {i \in 1 .. MaxLostReplies : late[i] # NoTransaction}

LandsLate ==
  \E i \in Pending :
    /\ late' = [late EXCEPT ![i] = NoTransaction]
    /\ market' = IF Fails(market, late[i]) THEN market ELSE Executed(market, late[i])
    /\ UNCHANGED <<phase, running, sent, report, moves, lost>>

ExpiresLate ==
  \E i \in Pending :
    /\ late' = [late EXCEPT ![i] = NoTransaction]
    /\ UNCHANGED <<market, phase, running, sent, report, moves, lost>>

-----------------------------------------------------------------------------
(* The other traders. *)

Moves(m) ==
  /\ moves < MaxMoves
  /\ moves' = moves + 1
  /\ market' = m
  /\ UNCHANGED <<phase, running, sent, late, report, lost>>

OtherQuotes ==
  \E t \in Others, quote \in Quotes :
    /\ CanPlace(market, SeatOf(t), quote)
    /\ Moves(Place(market, SeatOf(t), quote))

OtherCancels ==
  \E t \in Others, side \in Sides :
    \E h \in OwnSlots(market, side, SeatOf(t)) :
      Moves(CancelWhole(market, side, h))

(* One fill of a taker's order; a longer sweep is several of these. *)
OtherTakes ==
  \E t \in Others, side \in Sides, size \in TakeSizes :
    LET k == [seat |-> SeatOf(t), side |-> side, limit |-> NoPrice,
              remaining |-> size, filled |-> 0, touched |-> 0,
              match_limit |-> 1, self_trade |-> "Abort"]
    IN  /\ Reaches(market, k)
        /\ ~ IsSelfTrade(market, k)
        /\ TakerCanAfford(market, k)
        /\ CanSettle(market, k)
        /\ Moves(Fill(market, k))

-----------------------------------------------------------------------------
BotSteps == Cycle \/ CycleTooLarge \/ WithdrawQuotes

Next ==
  \/ BotSteps
  \/ Interrupt
  \/ Lands
  \/ Expires
  \/ LosesReply
  \/ LandsLate
  \/ ExpiresLate
  \/ OtherQuotes
  \/ OtherCancels
  \/ OtherTakes

Spec == Init /\ [][Next]_vars

(* When BotSteps is enabled and changes something. *)
BotCanStep ==
  /\ phase = "Idle"
  /\ running => ~ HoldsOn(market) /\ (FitsTransaction(Refresh(market)) \/ report # "Failed")

(* The bot's loop runs; a cluster that keeps being sent the bot's          *)
(* transactions lands one; and no transaction stays pending for ever.      *)
(* These are WF(BotSteps), SF(Lands) and WF(LandsLate \/ ExpiresLate) with *)
(* the enabling conditions written out, which TLC evaluates much faster.   *)
FairSpec ==
  /\ Spec
  /\ []<>~BotCanStep \/ []<><<BotSteps>>_vars
  /\ <>[]~Waiting \/ []<><<Lands>>_vars
  /\ []<>(Pending = {}) \/ []<><<LandsLate \/ ExpiresLate>>_vars

-----------------------------------------------------------------------------
(* What a quote and an id are. *)
QuoteType == [side : Sides, price : U64 \ {0}, size : U64 \ {0}]
IdType == [side : Sides, seq : Nat]

Transaction ==
  [kind    : {"None", "Refresh", "Withdraw"},
   cancels : Seq(IdType),
   places  : Seq(QuoteType)]

(* Every variable holds a value of its kind. *)
TypeOK ==
  /\ market \in MarketType
  /\ phase \in Phases
  /\ running \in BOOLEAN
  /\ sent \in Transaction
  /\ late \in [1 .. MaxLostReplies -> Transaction]
  /\ report \in Reports
  /\ moves \in 0 .. MaxMoves
  /\ lost \in 0 .. MaxLostReplies

(* The other traders have left a ladder's room on each side of the book: a *)
(* full book refuses a packet, and the batch with it.                      *)
HasRoom(m) ==
  \A side \in Sides :
    Cardinality({h \in LiveSlots(m, side) : m.book[side][h].seat # Seat}) + Levels <= BookCapacity

CanRefresh(m) == ~ MidpointWraps(Touch(m, Seat)) /\ HasRoom(m)

(* A refresh that lands on the very book it was planned from is accepted:  *)
(* the ladder crosses neither itself nor anybody's quote, whatever the     *)
(* skew and however one-sided the book (ladder.rs "It cannot cross"), and  *)
(* the seat can pay for it (ladder.rs "It cannot overdraw").               *)
FreshRefreshLands == CanRefresh(market) => ~ Fails(market, Refresh(market))

(* And after it the bot has nothing left to change, so that a quiet market *)
(* costs it no transaction: neither the new ladder nor the funds it locks  *)
(* change the ladder it would build next (fair.rs, "a bot bidding against  *)
(* itself").                                                               *)
RefreshIsAFixedPoint ==
  CanRefresh(market) => HoldsOn(Executed(market, Refresh(market)))

(* Together: from the book it was planned on, one refresh is enough. *)
FreshRefreshSettles == TypeOK /\ FreshRefreshLands /\ RefreshIsAFixedPoint

OwnQuotes(m) ==
  UNION {{<<[side |-> side, seq |-> m.book[side][h].seq], m.book[side][h].size>> :
            h \in OwnSlots(m, side, Seat)} : side \in Sides}

(* However the market moved after the bot's read, and however late the     *)
(* transaction, a refresh leaves the orders it found, or all of its ladder *)
(* and none of the orders it named: never some of both (trade.rs           *)
(* "Placement is all-or-nothing").                                         *)
Refreshed(tx) ==
  LET kept == {quote \in OwnQuotes(market) : \A i \in DOMAIN tx.cancels : tx.cancels[i] # quote[1]}
  IN  /\ OwnQuotes(market) \cap OwnQuotes(market') = kept
      /\ Cardinality(OwnQuotes(market')) = Cardinality(kept) + Len(tx.places)

AllOrNothing(tx) ==
  tx.kind = "Refresh" => OwnQuotes(market') = OwnQuotes(market) \/ Refreshed(tx)

RefreshIsAllOrNothing ==
  [][ /\ Lands => AllOrNothing(sent)
      /\ \A i \in Pending : LandsLate /\ late'[i] = NoTransaction => AllOrNothing(late[i]) ]_vars

(* The cap bounds the position, with the most that stale decisions can     *)
(* add: the old ladder fills while the new one is on its way, then the new *)
(* one fills, and then one ladder more for each reply that was lost, whose *)
(* refresh may land beside the one that replaced it (inventory.rs, "a      *)
(* preference does not bound a loss").                                     *)
Ladders == 2 + lost

(* How far from its target the bot may start, or let itself get. *)
Far ==
  LET start == Drift(StartBase, TargetBase)
  IN  IF start < InventoryLimit THEN InventoryLimit - 1 ELSE start

PositionIsBounded ==
  LET most == Far + Ladders * Levels * LevelSize
  IN  Deviation(market.state[Seat]) \in -most .. most

(* When the bot has stopped and said that its ladder is down, nothing of   *)
(* its rests (main.rs, "the one thing that must happen on the way out"),   *)
(* but for one ladder of each refresh whose reply was lost: such a refresh *)
(* may land after the withdrawal.                                          *)
QuotesDoNotOutliveTheBot ==
  phase = "Stopped" /\ report = "Withdrawn" =>
    Cardinality(OwnQuotes(market)) <= 2 * lost * Levels

(* The bot has an order, and one only, at each quote it would build: on    *)
(* its side, of its size, and near enough to its price.                    *)
LadderIsUp ==
  LET own(side) == OwnSlots(market, side, Seat)
      stands(quote) == \E h \in own(quote.side) :
        LET order == market.book[quote.side][h]
        IN  /\ order.size = quote.size
            /\ Drift(order.price, quote.price) <= DriftTolerance
  IN  /\ Cardinality(own("Bid")) + Cardinality(own("Ask")) = Len(Desired(market))
      /\ \A i \in DOMAIN Desired(market) : stands(Desired(market)[i])

(* Once the other traders leave the market alone, the bot has its whole    *)
(* ladder up and keeps it there, unless it has stopped, lost a reply (two  *)
(* ladders may then be up, too many to replace in one transaction), or     *)
(* faces a book whose midpoint wraps (RefreshIsAccepted, below).           *)
QuotesSettle ==
  <>[](running /\ phase # "Stopped" /\ lost = 0 /\ ~ MidpointWraps(Touch(market, Seat))
         => LadderIsUp)

-----------------------------------------------------------------------------
(* Known limits: what a comment or a document says and the code does not   *)
(* keep.  TLC refutes each; README.md gives the instance.                  *)

(* A refresh that lands on the book it was planned from is accepted, where *)
(* the book has room, whatever prices the others quote (ladder.rs, "It     *)
(* cannot cross").                                                         *)
RefreshIsAccepted == HasRoom(market) => ~ Fails(market, Refresh(market))

(* Between the report of a failed cycle and the next transaction, the      *)
(* bot's own orders change only as others trade with them (main.rs, "a     *)
(* cycle that fails changes nothing").                                     *)
FailedCycleChangesNothing ==
  [][ report = "Failed" /\ phase = "Idle" /\ moves' = moves =>
        OwnQuotes(market') = OwnQuotes(market) ]_vars

(* However the bot ended, nothing of its is left on the book (main.rs,     *)
(* "the one thing that must happen on the way out").                       *)
NoLadderIsOrphaned == phase = "Stopped" => OwnQuotes(market) = {}

(* A lost reply delays the ladder but never keeps it from coming up again. *)
LadderComesBack == <>[](running /\ phase # "Stopped" => LadderIsUp)
=============================================================================
