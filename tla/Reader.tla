------------------------------- MODULE Reader -------------------------------
(***************************************************************************)
(* A client that prices its order before it sends it: quote_sweep and the  *)
(* depth at its limit, computed from the committed account, next to the    *)
(* cross loop that then fills the order.  The quote is taken when matching *)
(* starts, so nothing lands in between; what a stale quote is worth is     *)
(* what the account was worth when it was read.                            *)
(*                                                                         *)
(* Source: crates/clob-client/src/state.rs, crates/clob-book/src/book/     *)
(*         depth.rs, crates/clob-engine/src/market/matching.rs             *)
(***************************************************************************)
EXTENDS Clob, Liquidity

VARIABLES
  quote,  \* what the client computed for the order now crossing
  fills   \* what the cross loop has matched of it

readerVars == <<vars, quote, fills>>

NoFills == [quote |-> 0, worst |-> NoPrice, self_traded |-> FALSE]

NoQuote == [sweep |-> NoSweep, depth |-> 0, worst |-> NoPrice]

QuoteFor(packet) ==
  LET m == chain.market
      side == Opposite(packet.side)
  IN  [sweep |-> QuoteSweep(m, side, packet.size),
       depth |-> IF packet.price = NoPrice
                 THEN TotalDepth(m, side)
                 ELSE DepthAtOrBetter(m, side, packet.price),
       worst |-> SweepPrice(m, side, packet.size)]

ReaderInit == Init /\ quote = NoQuote /\ fills = NoFills

Quoted ==
  /\ StartCross
  /\ quote' = QuoteFor(Packet)
  /\ fills' = NoFills

Filled ==
  /\ FillBest
  /\ fills' = [fills EXCEPT !.quote = @ + Gross(work.market, run.taker),
                            !.worst = Maker(work.market, run.taker).price]
  /\ UNCHANGED quote

MetItself ==
  /\ SelfTrade
  /\ fills' = [fills EXCEPT !.self_traded = TRUE]
  /\ UNCHANGED quote

(* Instructions of one order or none.  Batches, cancel-all and swaps, which *)
(* would change the book between the quote and the match, are Clob's alone. *)
Simple(t) ==
  \/ ClaimASeat(t)
  \/ EvictSeat(t)
  \/ \E base, quoted \in Amounts : DepositFunds(t, base, quoted)
  \/ \E base, quoted \in Amounts : WithdrawFunds(t, base, quoted)
  \/ \E id \in KnownIds : CancelOrder(t, id)
  \/ \E id \in KnownIds, lots \in U64 : ReduceOrder(t, id, lots)
  \/ \E packet \in Packets : PlaceOrder(t, packet)

(* Every other step; what was quoted is forgotten when the order is done.  *)
Other ==
  /\ \/ Initialize
     \/ CollectAccruedFees
     \/ \E t \in Traders : Simple(t)
     \/ PlacePostOnly
     \/ RestRemainder
     \/ EndCross
     \/ OrdersDone
     \/ InstructionFails
  /\ quote' = NoQuote
  /\ fills' = NoFills

ReaderNext == Quoted \/ Filled \/ MetItself \/ Other

ReaderSpec == ReaderInit /\ [][ReaderNext]_readerVars

-----------------------------------------------------------------------------
(* Quotes and fills are of their kinds. *)
ReaderTypeOK ==
  /\ quote \in [sweep : {NoSweep} \cup [base : U64, quote : U64, worst : U64],
                depth : U64, worst : U64 \cup {NoPrice}]
  /\ fills \in [quote : U64, worst : U64 \cup {NoPrice}, self_traded : BOOLEAN]

(* An order that fills whole without meeting its owner's paid exactly what *)
(* quote_sweep said, down to the worst price; one that ran out of book had *)
(* been quoted None; and quote_sweep and the book's sweep_price agree.     *)
SweepPredictsFill ==
  stage = "cross" /\ ~ fills.self_traded =>
    /\ run.taker.remaining = 0 =>
         /\ quote.sweep = [base |-> run.taker.filled, quote |-> fills.quote,
                           worst |-> fills.worst]
         /\ quote.worst = fills.worst
    /\ run.taker.remaining > 0 /\ LiveSlots(work.market, MakerSide(run.taker)) = {} =>
         /\ quote.sweep = NoSweep
         /\ quote.worst = NoPrice

(* A taker never fills more than the depth at its limit, and when neither  *)
(* its own orders, its funds nor its match limit stop it, all of that      *)
(* depth or all of its size.                                               *)
DepthIsWhatFills ==
  stage = "cross" =>
    /\ run.taker.filled <= quote.depth
    /\ /\ CrossStops
       /\ ~ CannotAfford
       /\ ~ fills.self_traded
       /\ run.taker.touched < run.taker.match_limit
       => run.taker.filled = MinOf(run.taker.filled + run.taker.remaining, quote.depth)

(* The published ladder and the book agree: the first levels of any depth  *)
(* hold what a sweep to their price could take, at strictly worsening      *)
(* prices, and count every order once.                                     *)
LevelsAgreeWithDepth ==
  \A side \in Sides :
    LET m == chain.market
        levels == LevelTwo(m, side, BookCapacity)
    IN  /\ \A i \in DOMAIN levels :
             /\ LotsIn([j \in 1 .. i |-> [size |-> levels[j].lots]])
                  = DepthAtOrBetter(m, side, levels[i].price)
             /\ LevelTwo(m, side, i) = SubSeq(levels, 1, i)
        /\ \A i, j \in DOMAIN levels :
             i < j => IsBetter(side, levels[i].price, levels[j].price)
        /\ FoldLeft(LAMBDA n, l : n + l.orders, 0, levels)
             = Cardinality(LiveSlots(m, side))

(* evictable_seats never lists a trader with an order resting, and a table *)
(* that is full is one in which a wallet without a seat can claim none.    *)
EvictableHasNoOrders ==
  LET m == chain.market IN
    /\ \A t \in EvictableSeats(m), side \in Sides : OwnSlots(m, side, m.seat_of[t]) = {}
    /\ \A t \in Traders \ SeatHolders(m) : SeatsAreFull(m) <=> ~ CanClaimSeat(m, t)

(* What a client reads from an account is so: how deep the book is, at     *)
(* which levels, and whose seat could be claimed.                          *)
AccountReadsTrue ==
  ReaderTypeOK /\ DepthIsWhatFills /\ LevelsAgreeWithDepth /\ EvictableHasNoOrders

-----------------------------------------------------------------------------
(* Known limits: what a comment or a document says and the code does not   *)
(* keep.  TLC refutes each; README.md gives the instance.                  *)

(* The summary of a committed market shows a spread whenever both sides    *)
(* hold orders.                                                            *)
SpreadIsShown ==
  (\A side \in Sides : LiveSlots(chain.market, side) # {})
    => SpreadInTicks(chain.market) # NoPrice
=============================================================================
