------------------------------ MODULE Indexer ------------------------------
(***************************************************************************)
(* Transactions of several instructions, run by the engine, and the tape   *)
(* the indexer derives from each.  The engine's own fills are kept beside  *)
(* the account, as the tests of the crate do with a fill observer; the     *)
(* derivation never sees them.                                             *)
(*                                                                         *)
(* Source: crates/clob-indexer; programs/clob/src/event.rs for receipts;   *)
(* crates/clob-stream/src/attribute.rs for who submitted what.             *)
(***************************************************************************)
EXTENDS Derive

CONSTANTS
  Swapper,         \* a wallet with no seat, which swaps
  StartLots,       \* base and quote lots every seated trader starts with
  Packets,         \* packets of PlaceOrder
  Batches,         \* packets of BatchUpdate, and the most ids it cancels
  Swaps,           \* packets of Swap
  Cancels,         \* the cancelling instructions in play
  MaxLoggedFills,  \* MAX_LOGGED_FILLS: fills one receipt can carry
  FillWord,        \* 2^32: the size of one fill in a receipt is a u32
  MaxInstructions, \* bound: instructions of one transaction
  MaxSequence      \* bound: orders that ever rest

ASSUME IndexerAssumption ==
  /\ Swapper \in Traders
  /\ StartLots \in U64
  /\ Cancels \subseteq {"CancelOrder", "ReduceOrder", "CancelAllOrders"}
  /\ MaxLoggedFills \in Nat \ {0} /\ FillWord \in Nat \ {0}
  /\ MaxInstructions \in Nat \ {0} /\ MaxSequence \in Nat

VARIABLES
  before,   \* the account before the transaction
  market,   \* the account as the transaction has left it so far
  observed, \* its instructions so far
  packets,  \* packets of the last of them still to run
  taker,    \* the cross loop's context, or NoTaker
  fills,    \* what the engine's fill observer saw, in order
  selfs     \* orders a self-trade policy took lots from

vars == <<before, market, observed, packets, taker, fills, selfs>>

NoTaker == [seat |-> NoSeat]

SeatedTraders == Traders \ {Swapper}

(* Which seat is whose is of no consequence. *)
StartSeats ==
  LET seats == CHOOSE f \in Injection(SeatedTraders, Seats) : TRUE
  IN  [t \in Traders |-> IF t = Swapper THEN NoSeat ELSE seats[t]]

Funded(s) == \E t \in SeatedTraders : StartSeats[t] = s

Init ==
  /\ before =
       [NewMarket EXCEPT !.seat_of = StartSeats,
                         !.state = [s \in Seats |->
                           IF Funded(s)
                           THEN [EmptyState EXCEPT !.base_free = StartLots,
                                                   !.quote_free = StartLots]
                           ELSE EmptyState],
                         !.base_deposited = StartLots * Cardinality(SeatedTraders),
                         !.quote_deposited = StartLots * Cardinality(SeatedTraders)]
  /\ market = before
  /\ observed = <<>>
  /\ packets = <<>>
  /\ taker = NoTaker
  /\ fills = <<>>
  /\ selfs = {}

-----------------------------------------------------------------------------
(* The instructions of a transaction. *)

Quiet == packets = <<>> /\ taker = NoTaker

(* attribute::observe resolves the submitter against the market before. *)
Submits(t, instruction, m) ==
  /\ Quiet
  /\ Len(observed) < MaxInstructions
  /\ observed' = Append(observed, [instruction EXCEPT !.seat = before.seat_of[t]])
  /\ market' = m
  /\ UNCHANGED <<before, taker, fills, selfs>>

OwnIds(t) == {id \in RestingIds(market, "Bid") \cup RestingIds(market, "Ask") :
                OrderOf(market, id).seat = market.seat_of[t]}

Take(m, id, lots) == Release(m, id.side, CHOOSE h \in Found(m, id) : TRUE, lots)

CancelOrReduce(t) ==
  \E id \in OwnIds(t), kind \in Cancels \cap {"CancelOrder", "ReduceOrder"} :
    LET size == SizeOf(market, id)
        lots == IF kind = "CancelOrder" THEN size ELSE 1
    IN  /\ Submits(t, [Blank EXCEPT !.kind = kind, !.ids = {id}], Take(market, id, lots))
        /\ UNCHANGED packets

(* Limits below the number of orders are covered by module Clob. *)
CancelAll(t) ==
  \E side \in Sides :
    /\ "CancelAllOrders" \in Cancels
    /\ Submits(t, [Blank EXCEPT !.kind = "CancelAllOrders", !.side = side],
               FoldSet(LAMBDA id, m : Take(m, id, SizeOf(m, id)), market,
                       {id \in OwnIds(t) : id.side = side}))
    /\ UNCHANGED packets

PlaceOrder(t) ==
  \E packet \in Packets :
    /\ market.next_seq < MaxSequence
    /\ Submits(t, [Blank EXCEPT !.kind = "PlaceOrder", !.packets = <<packet>>], market)
    /\ packets' = <<packet>>

BatchUpdate(t) ==
  \E batch \in Batches, ids \in SUBSET OwnIds(t) :
    /\ Cardinality(ids) <= batch.cancels
    /\ market.next_seq + Len(batch.packets) <= MaxSequence
    /\ Submits(t, [Blank EXCEPT !.kind = "BatchUpdate", !.ids = ids,
                               !.packets = batch.packets],
               FoldSet(LAMBDA id, m : Take(m, id, SizeOf(m, id)), market, ids))
    /\ packets' = batch.packets

(* A swap by a wallet without a seat: it holds one while it trades. *)
Swap ==
  \E packet \in Swaps :
    LET claimed == ClaimSeat(market, Swapper)
        seat == claimed.seat_of[Swapper]
    IN  /\ CanClaimSeat(market, Swapper)
        /\ Submits(Swapper, [Blank EXCEPT !.kind = "Swap", !.packets = <<packet>>],
                   Deposit(claimed, seat, StartLots, StartLots))
        /\ packets' = <<packet>>

Submitter == IF observed[Len(observed)].kind = "Swap"
             THEN market.seat_of[Swapper] ELSE observed[Len(observed)].seat

-----------------------------------------------------------------------------
(* The engine runs a packet. *)

RunsPacket(m, k) ==
  /\ packets' = Tail(packets)
  /\ market' = m
  /\ taker' = k
  /\ UNCHANGED <<before, observed, fills, selfs>>

PlacePostOnly ==
  /\ taker = NoTaker /\ packets # <<>>
  /\ LET p == Head(packets)
     IN  /\ p.kind = "PostOnly"
         /\ NonCrossingPrice(market, p.side, p.price) = p.price
         /\ CanPost(market, Submitter, p.side, p.price, p.size)
         /\ RunsPacket(Post(market, Submitter, p.side, p.price, p.size), NoTaker)

StartCross ==
  /\ taker = NoTaker /\ packets # <<>>
  /\ LET p == Head(packets)
     IN  /\ CanTake(p)
         /\ RunsPacket(market, [seat |-> Submitter, side |-> p.side, limit |-> p.price,
                                remaining |-> p.size, filled |-> 0, touched |-> 0,
                                match_limit |-> 9, self_trade |-> p.self_trade,
                                posts |-> p.kind = "Limit"])

Matches(m, k) ==
  /\ market' = m
  /\ taker' = k
  /\ UNCHANGED <<before, observed, packets>>

Crossing == taker # NoTaker /\ Reaches(market, taker)

MakerId == [side |-> MakerSide(taker), seq |-> Maker(market, taker).seq]

FillBest ==
  /\ Crossing
  /\ ~ IsSelfTrade(market, taker)
  /\ TakerCanAfford(market, taker)
  /\ CanSettle(market, taker)
  /\ Matches(Fill(market, taker), AfterFill(market, taker))
  /\ fills' = Append(fills, [order      |-> MakerId,
                             price      |-> Maker(market, taker).price,
                             lots       |-> FillSize(market, taker),
                             quote      |-> Gross(market, taker),
                             maker_seat |-> Maker(market, taker).seat,
                             taker_seat |-> taker.seat])
  /\ UNCHANGED selfs

SelfTrade ==
  /\ Crossing
  /\ IsSelfTrade(market, taker)
  /\ CanResolveSelfTrade(market, taker)
  /\ Matches(ResolveSelfTrade(market, taker), AfterSelfTrade(market, taker))
  /\ selfs' = selfs \cup {MakerId}
  /\ UNCHANGED fills

(* The loop ends; a limit order rests what is left, a swap pays out and    *)
(* gives its seat back.                                                    *)
EndCross ==
  /\ taker # NoTaker
  /\ Crossing => ~ IsSelfTrade(market, taker) /\ ~ TakerCanAfford(market, taker)
  /\ LET state == market.state[taker.seat]
         swapping == market.seat_of[Swapper] = taker.seat
         rests == taker.posts /\ taker.remaining > 0
         swapped == Withdraw(market, taker.seat, state.base_free, state.quote_free)
     IN  \/ /\ rests
            /\ CanPost(market, taker.seat, taker.side, taker.limit, taker.remaining)
            /\ Matches(Post(market, taker.seat, taker.side, taker.limit, taker.remaining),
                       NoTaker)
         \/ ~ rests /\ ~ swapping /\ Matches(market, NoTaker)
         \/ swapping /\ Matches(ReleaseSeat(swapped, Swapper), NoTaker)
  /\ UNCHANGED <<fills, selfs>>

Commit ==
  /\ Quiet /\ observed # <<>>
  /\ before' = market
  /\ observed' = <<>>
  /\ fills' = <<>>
  /\ selfs' = {}
  /\ UNCHANGED <<market, packets, taker>>

(* An instruction fails, and with it the transaction: nobody observes it. *)
Reverts ==
  /\ observed # <<>>
  /\ market' = before
  /\ observed' = <<>>
  /\ packets' = <<>>
  /\ taker' = NoTaker
  /\ fills' = <<>>
  /\ selfs' = {}
  /\ UNCHANGED before

Next ==
  \/ \E t \in SeatedTraders :
       CancelOrReduce(t) \/ CancelAll(t) \/ PlaceOrder(t) \/ BatchUpdate(t)
  \/ Swap
  \/ PlacePostOnly
  \/ StartCross
  \/ FillBest
  \/ SelfTrade
  \/ EndCross
  \/ Commit
  \/ Reverts

Spec == Init /\ [][Next]_vars

-----------------------------------------------------------------------------
(* Every prefix of a transaction is itself a transaction that could have   *)
(* been sent, so what holds of each prefix is checked, not only of the     *)
(* committed ones.                                                         *)

Derived == Trades(before, market, observed)
Earned == FeesEarned(before, market)

(* A taker with no seat before the transaction is anonymous on the tape. *)
AsObserved(fill) ==
  IF \E t \in SeatedTraders : before.seat_of[t] = fill.taker_seat
  THEN fill ELSE [fill EXCEPT !.taker_seat = NoSeat]

(* EventBuffer::encode: exact totals, and the first fills in full, with    *)
(* their size in a narrower word.                                          *)
Receipt ==
  [lots       |-> LotsTraded(fills),
   quote      |-> QuoteTraded(fills),
   fills_seen |-> Len(fills),
   fills      |-> [n \in 1 .. MinOf(Len(fills), MaxLoggedFills) |->
                     [fills[n] EXCEPT !.lots = @ % FillWord]]]

(* Every variable holds a value of its kind. *)
TypeOK ==
  /\ before \in MarketType /\ market \in MarketType
  /\ Len(observed) <= MaxInstructions
  /\ \A i \in DOMAIN observed : /\ observed[i].kind \in Kinds
                                /\ observed[i].seat \in 0 .. NumSeats
  /\ taker # NoTaker => taker.seat \in Seats /\ [f \in DOMAIN taker \ {"posts"} |-> taker[f]] \in Taker
  /\ fills # <<>> \/ selfs # {} => observed # <<>>

(* The tape is what the engine did: the same fills at the same prices and  *)
(* sizes, in the order they happened, with both counterparties             *)
(* (derive.rs, "prices and sizes exactly, not estimated").                 *)
TapeIsExact ==
  Quiet => Derived = [n \in DOMAIN fills |-> AsObserved(fills[n])]

(* The audit passes a tape that is right. *)
AuditPassesTheTruth ==
  Quiet /\ Derived = [n \in DOMAIN fills |-> AsObserved(fills[n])] =>
    FeesReconcile(Derived, Earned)

(* The receipt of an order agrees with the tape derived without it, and    *)
(* says so when it could not carry every fill.                             *)
ReceiptAgrees == Quiet => AgreesWithEvent(Derived, Receipt)

(* Neither of the two independent checks of the tape, the fees the market  *)
(* took and the receipt the program logged, ever accuses a tape that is    *)
(* right (cross_check, fees_reconcile).                                    *)
CrossChecksAgree == TypeOK /\ AuditPassesTheTruth /\ ReceiptAgrees

(* What left the book without trading is told apart: the owner's own       *)
(* incoming order took it, or the owner withdrew it (tape.rs, "it was      *)
(* removed by its own owner's incoming order").                            *)
RemovalReasonsAreTrue ==
  Quiet => \A r \in Removals(before, market, observed) :
    r.reason = "SelfTraded" <=> r.order \in selfs

(* Together: what is derived of a transaction is what the engine did, the  *)
(* trades it made and why every other order left.                          *)
DerivesExactly == TapeIsExact /\ RemovalReasonsAreTrue

-----------------------------------------------------------------------------
(* Known limits: what a comment or a document says and the code does not   *)
(* keep.  TLC refutes each; README.md gives the instance.                  *)

(* What the tape trades of an order is no more than what was filled of it. *)
SelfTradesAreNotVolume ==
  Quiet => \A n \in DOMAIN Derived :
    Derived[n].lots <= SumOf(SelectSeq(fills, LAMBDA f : f.order = Derived[n].order),
                             LAMBDA f : f.lots)

(* Where the tape is wrong, the fee audit says so (README.md of the crate, *)
(* "if the derivation invented, missed, or mispriced a fill, they stop     *)
(* agreeing").                                                             *)
AuditCatchesErrors ==
  Quiet /\ FeesReconcile(Derived, Earned) =>
    /\ LotsTraded(Derived) = LotsTraded(fills)
    /\ QuoteTraded(Derived) = QuoteTraded(fills)

(* The fills a receipt carries are the fills there were.                   *)
ReceiptDetailIsExact ==
  Quiet => \A n \in DOMAIN Receipt.fills : Receipt.fills[n] = fills[n]
=============================================================================
