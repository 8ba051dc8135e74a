-------------------------------- MODULE Clob --------------------------------
(***************************************************************************)
(* The on-chain program: its instructions as actions over one market       *)
(* account and the two token vaults that back it.                          *)
(*                                                                         *)
(* chain is what the runtime has committed and everyone can read.  An      *)
(* instruction that loops (an order crossing the book, a batch, a bounded  *)
(* cancel-all) runs as several steps on work, its private copy, and either *)
(* commits (chain' = work) or returns an error (work' = chain): the        *)
(* runtime discards every write of a failed instruction.  One instruction  *)
(* runs at a time, since each locks the market account for writing.        *)
(*                                                                         *)
(* Source: programs/clob/src/processor, crates/clob-engine/src/market      *)
(***************************************************************************)
EXTENDS Market, Sequences, FiniteSets

CONSTANTS
  Packets,      \* the orders clients submit
  Ladders,      \* the packet sequences of BatchUpdate
  Swaps,        \* the Swap requests
  Amounts,      \* lots clients deposit, withdraw and reduce by
  CancelLimits, \* bounds clients pass to CancelAll
  MaxCancels,   \* bound: ids in one BatchUpdate
  MaxSequence   \* bound: orders that ever rest (u64 in the code)

PacketType ==
  [kind        : {"Limit", "PostOnly", "ImmediateOrCancel"},
   side        : Sides,
   price       : U64 \cup {NoPrice},
   size        : U64,
   slide       : BOOLEAN,            \* PostOnlyRejection::Slide
   min_fill    : U64,
   self_trade  : SelfTradeBehaviors,
   match_limit : Nat]

(* Only an immediate order may go unpriced. *)
OrderPacket == {p \in PacketType : p.price = NoPrice => p.kind = "ImmediateOrCancel"}

SwapType == [side : Sides, price : U64, size : U64, min_fill : U64,
             match_limit : Nat]

ASSUME ClobAssumption ==
  /\ Packets \subseteq OrderPacket
  /\ Ladders \subseteq Seq(OrderPacket)
  /\ Swaps \subseteq SwapType
  /\ Amounts \subseteq U64
  /\ CancelLimits \subseteq Nat
  /\ MaxCancels \in Nat
  /\ MaxSequence \in Nat

VARIABLES
  chain,  \* the committed accounts
  work,   \* the same accounts as the running instruction has them
  stage,  \* where the running instruction is
  run     \* its local variables

vars == <<chain, work, stage, run>>

-----------------------------------------------------------------------------
(* Local variables of the running instruction. *)

OrderIds == [side : Sides, seq : Nat]

NoTaker == [seat |-> NoSeat, side |-> "Bid", limit |-> 0, remaining |-> 0,
            filled |-> 0, touched |-> 0, match_limit |-> 0,
            self_trade |-> "DecrementTake"]

(* What Swap remembers of the seat from before matching. *)
SwapLocals == [active : BOOLEAN, created : BOOLEAN, base : U64, quote : U64]

NoSwap == [active |-> FALSE, created |-> FALSE, base |-> 0, quote |-> 0]

NothingRunning ==
  [seat |-> NoSeat, cancels |-> {}, packets |-> <<>>, taker |-> NoTaker,
   posts |-> FALSE, min_fill |-> 0,
   cancel_side |-> "Bid", cancel_limit |-> 0, swap |-> NoSwap]

Init ==
  /\ chain = [initialized |-> FALSE, market |-> NewMarket,
              base_vault |-> 0, quote_vault |-> 0]
  /\ work = chain
  /\ stage = "idle"
  /\ run = NothingRunning

-----------------------------------------------------------------------------
(* How an instruction begins, proceeds and ends. *)

Ready == stage = "idle" /\ chain.initialized

SeatOf(t) == chain.market.seat_of[t]

(* An instruction with no loop. *)
Apply(accounts) ==
  /\ chain' = accounts
  /\ work' = accounts
  /\ UNCHANGED <<stage, run>>

Begin(first_stage, locals) ==
  /\ work' = chain
  /\ stage' = first_stage
  /\ run' = locals
  /\ UNCHANGED chain

Proceed(market, next_stage, locals) ==
  /\ work' = [work EXCEPT !.market = market]
  /\ stage' = next_stage
  /\ run' = locals
  /\ UNCHANGED chain

Return ==
  /\ stage' = "idle"
  /\ run' = NothingRunning

Commit(accounts) ==
  /\ chain' = accounts
  /\ work' = accounts
  /\ Return

(* An error: the runtime restores the accounts. *)
Revert ==
  /\ work' = chain
  /\ UNCHANGED chain
  /\ Return

-----------------------------------------------------------------------------
(* Instructions that run in one step. *)

Initialize ==
  /\ stage = "idle"
  /\ ~ chain.initialized
  /\ Apply([chain EXCEPT !.initialized = TRUE])

(* Mutant of Transfer: moves base lots where the vault counts atoms. *)
TransferLots(accounts, base, quote) ==
  [accounts EXCEPT !.base_vault = @ + base,
                   !.quote_vault = @ + QuoteAtoms(quote)]

(* Moves lots into (or, negated, out of) the vaults as atoms. *)
Transfer(accounts, base, quote) ==
  [accounts EXCEPT !.base_vault = @ + BaseAtoms(base),
                   !.quote_vault = @ + QuoteAtoms(quote)]

CanTransfer(accounts, base, quote) ==
  /\ accounts.base_vault + BaseAtoms(base) \in U64
  /\ accounts.quote_vault + QuoteAtoms(quote) \in U64

ClaimASeat(t) ==
  /\ Ready
  /\ CanClaimSeat(chain.market, t)
  /\ Apply([chain EXCEPT !.market = ClaimSeat(@, t)])

(* Permissionless: no signature of t is asked for. *)
EvictSeat(t) ==
  /\ Ready
  /\ CanReleaseSeat(chain.market, t)
  /\ Apply([chain EXCEPT !.market = ReleaseSeat(@, t)])

DepositFunds(t, base, quote) ==
  /\ Ready
  /\ CanClaimSeat(chain.market, t)
  /\ LET m == ClaimSeat(chain.market, t)
     IN  /\ CanDeposit(m, m.seat_of[t], base, quote)
         /\ CanTransfer(chain, base, quote)
         /\ Apply([Transfer(chain, base, quote) EXCEPT
                     !.market = Deposit(m, m.seat_of[t], base, quote)])

WithdrawFunds(t, base, quote) ==
  /\ Ready
  /\ CanWithdraw(chain.market, SeatOf(t), base, quote)
  /\ CanTransfer(chain, -base, -quote)
  /\ Apply([Transfer(chain, -base, -quote) EXCEPT
              !.market = Withdraw(@, SeatOf(t), base, quote)])

CollectAccruedFees ==
  /\ Ready
  /\ CanCollectFees(chain.market)
  /\ CanTransfer(chain, 0, -chain.market.unclaimed_fees)
  /\ Apply([Transfer(chain, 0, -chain.market.unclaimed_fees) EXCEPT
              !.market = CollectFees(@)])

(* reduce_order; cancel_order is the case lots >= the resting size. *)
ReduceOrder(t, id, lots) ==
  /\ Ready
  /\ \E h \in Found(chain.market, id) :
       LET o == chain.market.book[id.side][h]
           removed == MinOf(o.size, lots)
       IN  /\ o.seat = SeatOf(t)
           /\ CanRelease(chain.market, id.side, h, removed)
           /\ Apply([chain EXCEPT !.market = Release(@, id.side, h, removed)])

CancelOrder(t, id) ==
  /\ Ready
  /\ \E h \in Found(chain.market, id) :
       LET o == chain.market.book[id.side][h]
       IN  /\ o.seat = SeatOf(t)
           /\ CanRelease(chain.market, id.side, h, o.size)
           /\ Apply([chain EXCEPT !.market = Release(@, id.side, h, o.size)])

-----------------------------------------------------------------------------
(* Instructions that loop: how each begins. *)

(* Bounds the model: the orders this instruction may rest all have room    *)
(* below MaxSequence.                                                      *)
SequenceRoom(n) == chain.market.next_seq + n <= MaxSequence

PlaceOrder(t, packet) ==
  /\ Ready
  /\ SequenceRoom(IF packet.kind = "ImmediateOrCancel" THEN 0 ELSE 1)
  /\ Begin("packets", [NothingRunning EXCEPT !.seat = SeatOf(t),
                                             !.packets = <<packet>>])

BatchUpdate(t, ids, ladder) ==
  /\ Ready
  /\ SequenceRoom(Len(ladder))
  /\ Begin("cancels", [NothingRunning EXCEPT !.seat = SeatOf(t),
                                             !.cancels = ids,
                                             !.packets = ladder])

CancelAll(t, side, limit) ==
  /\ Ready
  /\ Begin("cancel_all", [NothingRunning EXCEPT !.seat = SeatOf(t),
                                                !.cancel_side = side,
                                                !.cancel_limit = limit])

(* The most a swap can consume, which is what it pulls in. *)
SwapInput(swap) ==
  LET gross == QuoteLotsFor(swap.price, swap.size)
  IN  IF swap.side = "Ask"
      THEN [base |-> swap.size, quote |-> 0]
      ELSE [base |-> 0, quote |-> gross + FeeOn(gross)]

SwapPacket(swap) ==
  [kind |-> "ImmediateOrCancel", side |-> swap.side, price |-> swap.price,
   size |-> swap.size, slide |-> FALSE, min_fill |-> swap.min_fill,
   self_trade |-> "DecrementTake", match_limit |-> swap.match_limit]

Swap(t, swap) ==
  /\ Ready
  /\ swap.size > 0
  /\ CanClaimSeat(chain.market, t)
  /\ LET m == ClaimSeat(chain.market, t)
         s == m.seat_of[t]
         in == SwapInput(swap)
     IN  /\ CanTransfer(chain, in.base, in.quote)
         /\ CanDeposit(m, s, in.base, in.quote)
         /\ work' = [Transfer(chain, in.base, in.quote) EXCEPT
                       !.market = Deposit(m, s, in.base, in.quote)]
         /\ stage' = "packets"
         /\ run' = [NothingRunning EXCEPT
                      !.seat = s,
                      !.packets = <<SwapPacket(swap)>>,
                      !.swap = [active |-> TRUE,
                                created |-> SeatOf(t) = NoSeat,
                                base |-> m.state[s].base_free,
                                quote |-> m.state[s].quote_free]]
         /\ UNCHANGED chain

-----------------------------------------------------------------------------
(* Steps of a running instruction: the cancels of a BatchUpdate.           *)

CancelFails(id) ==
  \E h \in Found(work.market, id) :
    \/ work.market.book[id.side][h].seat # run.seat
    \/ ~ CanRelease(work.market, id.side, h, work.market.book[id.side][h].size)

(* Mutant of CancelListed: does not advance past a missing id. *)
CancelListedAgain(id) ==
  /\ stage = "cancels"
  /\ id \in run.cancels
  /\ ~ CancelFails(id)
  /\ \/ /\ Found(work.market, id) = {}
        /\ Proceed(work.market, stage, run)
     \/ \E h \in Found(work.market, id) :
          Proceed(Release(work.market, id.side, h,
                          work.market.book[id.side][h].size),
                  stage, [run EXCEPT !.cancels = @ \ {id}])

(* An id that no longer rests is skipped. *)
CancelListed(id) ==
  /\ stage = "cancels"
  /\ id \in run.cancels
  /\ ~ CancelFails(id)
  /\ LET rest == [run EXCEPT !.cancels = @ \ {id}]
     IN  \/ /\ Found(work.market, id) = {}
            /\ Proceed(work.market, stage, rest)
         \/ \E h \in Found(work.market, id) :
              Proceed(Release(work.market, id.side, h,
                              work.market.book[id.side][h].size), stage, rest)

CancelsDone ==
  /\ stage = "cancels"
  /\ run.cancels = {}
  /\ Proceed(work.market, "packets", run)

(* Steps of CancelAll: each pass rescans for the best order of the seat.   *)
OwnSlots(m, side, seat) == {h \in LiveSlots(m, side) : m.book[side][h].seat = seat}

(* Mutant of OwnBest: the first order of the seat in slot order. *)
OwnFirst == CHOOSE h \in OwnSlots(work.market, run.cancel_side, run.seat) :
              \A k \in OwnSlots(work.market, run.cancel_side, run.seat) : h <= k

OwnBest == BestOf(work.market, run.cancel_side,
                  OwnSlots(work.market, run.cancel_side, run.seat))

OwnBestSize == work.market.book[run.cancel_side][OwnBest].size

SweepGoesOn ==
  /\ run.cancel_limit > 0
  /\ OwnSlots(work.market, run.cancel_side, run.seat) # {}

SweepFails ==
  SweepGoesOn /\ ~ CanRelease(work.market, run.cancel_side, OwnBest, OwnBestSize)

CancelNext ==
  /\ stage = "cancel_all"
  /\ SweepGoesOn
  /\ ~ SweepFails
  /\ Proceed(Release(work.market, run.cancel_side, OwnBest, OwnBestSize),
             stage, [run EXCEPT !.cancel_limit = @ - 1])

CancelAllDone ==
  /\ stage = "cancel_all"
  /\ ~ SweepGoesOn
  /\ Commit(work)

-----------------------------------------------------------------------------
(* Steps of a running instruction: Market::place_order on its next packet. *)

Packet == Head(run.packets)

PostOnlyPrice == NonCrossingPrice(work.market, Packet.side, Packet.price)

CanPostOnly ==
  /\ PostOnlyPrice # NoPrice
  /\ PostOnlyPrice = Packet.price \/ Packet.slide
  /\ CanPost(work.market, run.seat, Packet.side, PostOnlyPrice, Packet.size)

(* ZeroSize, SeatNotFound, or a post-only order that cannot rest. *)
PacketFails ==
  (Packet.size > 0 /\ run.seat # NoSeat) =>
    (Packet.kind = "PostOnly" /\ ~ CanPostOnly)

PlacePostOnly ==
  /\ stage = "packets"
  /\ run.packets # <<>>
  /\ Packet.kind = "PostOnly"
  /\ ~ PacketFails
  /\ Proceed(Post(work.market, run.seat, Packet.side, PostOnlyPrice, Packet.size),
             stage, [run EXCEPT !.packets = Tail(@)])

StartCross ==
  /\ stage = "packets"
  /\ run.packets # <<>>
  /\ Packet.kind # "PostOnly"
  /\ ~ PacketFails
  /\ Proceed(work.market, "cross",
             [run EXCEPT
                !.packets = Tail(@),
                !.posts = Packet.kind = "Limit",
                !.min_fill = IF Packet.kind = "Limit" THEN 0 ELSE Packet.min_fill,
                !.taker = [seat |-> run.seat, side |-> Packet.side,
                           limit |-> Packet.price, remaining |-> Packet.size,
                           filled |-> 0, touched |-> 0,
                           match_limit |-> Packet.match_limit,
                           self_trade |-> Packet.self_trade]])

(* The cross loop *)
FillsNext == /\ Reaches(work.market, run.taker)
             /\ ~ IsSelfTrade(work.market, run.taker)
             /\ Gross(work.market, run.taker) \in U64
             /\ Fee(work.market, run.taker) \in U64
             /\ TakerCanAfford(work.market, run.taker)

FillBest ==
  /\ stage = "cross"
  /\ FillsNext
  /\ CanSettle(work.market, run.taker)
  /\ Proceed(Fill(work.market, run.taker), stage,
             [run EXCEPT !.taker = AfterFill(work.market, @)])

SelfTrade ==
  /\ stage = "cross"
  /\ Reaches(work.market, run.taker)
  /\ IsSelfTrade(work.market, run.taker)
  /\ CanResolveSelfTrade(work.market, run.taker)
  /\ Proceed(ResolveSelfTrade(work.market, run.taker), stage,
             [run EXCEPT !.taker = AfterSelfTrade(work.market, @)])

CrossFails ==
  /\ Reaches(work.market, run.taker)
  /\ IF IsSelfTrade(work.market, run.taker)
     THEN ~ CanResolveSelfTrade(work.market, run.taker)
     ELSE \/ Gross(work.market, run.taker) \notin U64
          \/ Fee(work.market, run.taker) \notin U64
          \/ FillsNext /\ ~ CanSettle(work.market, run.taker)

(* MatchStop::InsufficientFunds *)
CannotAfford ==
  /\ Reaches(work.market, run.taker)
  /\ ~ IsSelfTrade(work.market, run.taker)
  /\ ~ CrossFails
  /\ ~ TakerCanAfford(work.market, run.taker)

CrossStops == ~ Reaches(work.market, run.taker) \/ CannotAfford

RestsRemainder == run.posts /\ run.taker.remaining > 0

CanRestRemainder ==
  CanPost(work.market, run.seat, run.taker.side, run.taker.limit, run.taker.remaining)

RestRemainder ==
  /\ stage = "cross"
  /\ CrossStops
  /\ RestsRemainder
  /\ CanRestRemainder
  /\ Proceed(Post(work.market, run.seat, run.taker.side, run.taker.limit,
                  run.taker.remaining),
             "packets", [run EXCEPT !.taker = NoTaker, !.posts = FALSE])

EndCross ==
  /\ stage = "cross"
  /\ CrossStops
  /\ ~ RestsRemainder
  /\ run.taker.filled >= run.min_fill
  /\ Proceed(work.market, "packets",
             [run EXCEPT !.taker = NoTaker, !.posts = FALSE, !.min_fill = 0])

(* MinimumFillNotMet, or the remainder cannot be backed or has no room. *)
EndFails ==
  /\ CrossStops
  /\ IF RestsRemainder THEN ~ CanRestRemainder ELSE run.taker.filled < run.min_fill

-----------------------------------------------------------------------------
(* How a running instruction ends. *)

OrdersDone ==
  /\ stage = "packets"
  /\ run.packets = <<>>
  /\ ~ run.swap.active
  /\ Commit(work)

(* What a swap pays out: what the seat's free balances gained over the     *)
(* standing balance, saturating at zero.                                   *)
Gain(now, before) == IF now > before THEN now - before ELSE 0

(* Mutant of SwapOut: keeps the unspent quote. *)
SwapOutBase ==
  [base |-> Gain(work.market.state[run.seat].base_free, run.swap.base), quote |-> 0]

SwapOut ==
  LET state == work.market.state[run.seat]
  IN  [base |-> Gain(state.base_free, run.swap.base),
       quote |-> Gain(state.quote_free, run.swap.quote)]

CanPayOut ==
  /\ CanWithdraw(work.market, run.seat, SwapOut.base, SwapOut.quote)
  /\ CanTransfer(work, -SwapOut.base, -SwapOut.quote)

SwapPaysOut ==
  /\ stage = "packets"
  /\ run.packets = <<>>
  /\ run.swap.active
  /\ CanPayOut
  /\ LET m == Withdraw(work.market, run.seat, SwapOut.base, SwapOut.quote)
         owner == CHOOSE t \in Traders : m.seat_of[t] = run.seat
     IN  Commit([Transfer(work, -SwapOut.base, -SwapOut.quote) EXCEPT
                   !.market = IF run.swap.created /\ CanReleaseSeat(m, owner)
                              THEN ReleaseSeat(m, owner) ELSE m])

(* Every error path: the instruction fails and nothing it did remains.     *)
InstructionFails ==
  /\ \/ stage = "cancels" /\ \E id \in run.cancels : CancelFails(id)
     \/ stage = "cancel_all" /\ SweepFails
     \/ stage = "packets" /\ run.packets # <<>> /\ PacketFails
     \/ stage = "cross" /\ CrossFails
     \/ stage = "cross" /\ EndFails
     \/ stage = "packets" /\ run.packets = <<>> /\ run.swap.active /\ ~ CanPayOut
  /\ Revert

-----------------------------------------------------------------------------

(* Ids a client can name: any issued so far, resting or not. *)
KnownIds == [side : Sides, seq : 0 .. chain.market.next_seq - 1]

Instruction(t) ==
  \/ ClaimASeat(t)
  \/ EvictSeat(t)
  \/ \E base, quote \in Amounts : DepositFunds(t, base, quote)
  \/ \E base, quote \in Amounts : WithdrawFunds(t, base, quote)
  \/ \E id \in KnownIds : CancelOrder(t, id)
  \/ \E id \in KnownIds, lots \in U64 : ReduceOrder(t, id, lots)
  \/ \E packet \in Packets : PlaceOrder(t, packet)
  \/ \E side \in Sides, limit \in CancelLimits : CancelAll(t, side, limit)
  \/ \E ids \in {c \in SUBSET KnownIds : Cardinality(c) <= MaxCancels},
        ladder \in Ladders : BatchUpdate(t, ids, ladder)
  \/ \E swap \in Swaps : Swap(t, swap)

Execute ==
  \/ \E id \in run.cancels : CancelListed(id)
  \/ CancelsDone
  \/ CancelNext
  \/ CancelAllDone
  \/ PlacePostOnly
  \/ StartCross
  \/ FillBest
  \/ SelfTrade
  \/ RestRemainder
  \/ EndCross
  \/ OrdersDone
  \/ SwapPaysOut
  \/ InstructionFails

Next ==
  \/ Initialize
  \/ CollectAccruedFees
  \/ \E t \in Traders : Instruction(t)
  \/ Execute

Spec == Init /\ [][Next]_vars

(* A started instruction is run to its end by the one thread executing it. *)
FairSpec == Spec /\ WF_vars(Execute)

-----------------------------------------------------------------------------
(* Every variable holds a value of its kind. *)
Accounts == [initialized : BOOLEAN, market : MarketType,
             base_vault : U64, quote_vault : U64]

RunType ==
  [seat : 0 .. NumSeats, cancels : SUBSET OrderIds, packets : Seq(OrderPacket),
   taker : Taker, posts : BOOLEAN, min_fill : U64,
   cancel_side : Sides, cancel_limit : Nat, swap : SwapLocals]

TypeOK ==
  /\ chain \in Accounts
  /\ work \in Accounts
  /\ stage \in {"idle", "cancels", "cancel_all", "packets", "cross"}
  /\ run \in RunType

-----------------------------------------------------------------------------
(* Safety.  These hold of the committed account and, unlike what a test    *)
(* can look at, of the working copy between any two steps of a loop.       *)

Markets == {chain.market, work.market}

(* Fills, self-trades, cancels, fees, deposits and evictions neither create *)
(* nor lose a lot.                                                          *)
Conservation == \A m \in Markets : BaseConserved(m) /\ QuoteConserved(m)

(* No order rests without its backing and no funds stay locked behind an   *)
(* order that is gone, however fills, reductions and self-trades end.      *)
LockedFundsBackOrders == \A m \in Markets : LockedIsResting(m)

(* Every resting order has a size and an owner who holds its seat, so no   *)
(* order re-targets the next trader to claim a slot (trader/table.rs).     *)
EveryOrderHasALiveOwner == \A m \in Markets : OrdersOwned(m)

(* The token vaults hold exactly the deposited lots, so every claim can be *)
(* paid; inside a swap too, between its pull-in and its pay-out.           *)
VaultsHoldDeposits ==
  \A accounts \in {chain, work} :
    /\ accounts.base_vault = BaseAtoms(accounts.market.base_deposited)
    /\ accounts.quote_vault = QuoteAtoms(accounts.market.quote_deposited)

(* Settlement of a fill the taker can pay for never fails (matching.rs:    *)
(* "a transfer between two balances that cannot fail for lack of funds"):  *)
(* neither seat runs out and no balance overflows, because deposits are    *)
(* capped at the same word.                                                *)
SettlementCannotFail ==
  stage = "cross" /\ FillsNext =>
    /\ MakerSettled(work.market, run.taker) \in TraderState
    /\ TakerSettled(work.market, run.taker) \in TraderState
    /\ work.market.unclaimed_fees + Fee(work.market, run.taker) \in U64

(* Nobody is locked in: any resting order can be cancelled by its owner,   *)
(* any free balance withdrawn and the accrued fees collected, whatever the *)
(* other seats have done.                                                  *)
ExitIsOpen ==
  LET m == chain.market
  IN  /\ \A side \in Sides : \A h \in LiveSlots(m, side) :
           CanRelease(m, side, h, m.book[side][h].size)
      /\ \A s \in Seats : SeatLive(m, s) =>
           LET base == m.state[s].base_free
               quote == m.state[s].quote_free
           IN  CanWithdraw(m, s, base, quote) /\ CanTransfer(chain, -base, -quote)
      /\ CanCollectFees(m)
      /\ CanTransfer(chain, 0, -m.unclaimed_fees)

(* An id names one order at most, and only an id already handed out: the   *)
(* order of each book is total, so the touch is one order and not several. *)
OrderIdsUnique == \A m \in Markets : IdsUnique(m)

(* A seat with a resting order cannot be evicted: posting locks funds, so  *)
(* the seat's balance is not zero (seat.rs, trader/table.rs).              *)
QuotedSeatsStay ==
  \A m \in Markets : \A t \in Traders : \A side \in Sides :
    CanReleaseSeat(m, t) => OwnSlots(m, side, m.seat_of[t]) = {}

(* Sweeping a seat's quotes takes the best-priced first: what is left is   *)
(* behind everything already cancelled.                                    *)
SweepTakesBestFirst ==
  stage = "cancel_all" =>
    LET side == run.cancel_side
        left == OwnSlots(work.market, side, run.seat)
        gone == OwnSlots(chain.market, side, run.seat) \ left
    IN  \A g \in gone, k \in left :
          Precedes(side, chain.market.book[side][g], work.market.book[side][k])

-----------------------------------------------------------------------------
(* Action properties: what a step may never do. *)

(* The maker orders this step of the loop takes lots from. *)
Taken(side, h) ==
  /\ stage = "cross"
  /\ stage' # "idle"
  /\ work.market.book[side][h].seat \notin {NoSeat, run.taker.seat}
  /\ work'.market.book[side][h].size < work.market.book[side][h].size

(* A maker is hit only when no live order on its side has a better price,  *)
(* or the same price and an earlier arrival.                               *)
PriceTimePriority ==
  [][\A side \in Sides : \A h \in Slots : Taken(side, h) =>
       \A k \in LiveSlots(work.market, side) :
         ~ Precedes(side, work.market.book[side][k], work.market.book[side][h])
    ]_vars

(* A fill is at the maker's price, within the taker's limit, moves exactly *)
(* the maker's locked lots against exactly their value, charges the fee    *)
(* rounded up to the taker alone, and touches no third seat.               *)
FillsSettleExactly ==
  [][\A side \in Sides : \A h \in Slots : Taken(side, h) =>
       LET o == work.market.book[side][h]
           lots == o.size - work'.market.book[side][h].size
           value == o.price * lots * QuoteLotsPerLotPerTick
           fee == work'.market.unclaimed_fees - work.market.unclaimed_fees
           taker == run.taker.seat
           old(s) == work.market.state[s]
           new(s) == work'.market.state[s]
           base(s) == new(s).base_free - old(s).base_free
           quote(s) == new(s).quote_free - old(s).quote_free
       IN  /\ Accepts(run.taker.side, o.price, run.taker.limit)
           /\ lots <= run.taker.remaining
           /\ (fee - 1) * BpsDenominator < value * TakerFeeBps
           /\ value * TakerFeeBps <= fee * BpsDenominator
           /\ IF side = "Ask"
              THEN /\ old(o.seat).base_locked - new(o.seat).base_locked = lots
                   /\ quote(o.seat) = value /\ quote(taker) = -(value + fee)
                   /\ base(o.seat) = 0 /\ base(taker) = lots
              ELSE /\ old(o.seat).quote_locked - new(o.seat).quote_locked = value
                   /\ quote(o.seat) = 0 /\ quote(taker) = value - fee
                   /\ base(o.seat) = lots /\ base(taker) = -lots
           /\ \A s \in Seats \ {o.seat, taker} : new(s) = old(s)
    ]_vars

(* The step rests an order that was not on the book before. *)
Rests(side, h) ==
  /\ ~ Live(work.market.book[side][h])
  /\ Live(work'.market.book[side][h])

(* A post-only order never takes: the price it ends up resting at, slid or *)
(* not, meets no order on the other side.                                  *)
PostOnlyNeverCrosses ==
  [][(stage = "packets" /\ stage' = "packets") =>
       \A h \in Slots : Rests(Packet.side, h) =>
         LET mine == work'.market.book[Packet.side][h].price
         IN  \A k \in LiveSlots(work.market, Opposite(Packet.side)) :
               LET theirs == work.market.book[Opposite(Packet.side)][k].price
               IN  IF Packet.side = "Bid" THEN mine < theirs ELSE mine > theirs
    ]_vars

(* An order joins the book across the spread only when matching stopped    *)
(* early: the caller's match limit was spent, or the taker could not pay   *)
(* the next fill.  In every other case matching uncrosses before posting.  *)
CrossedOnlyAfterEarlyStop ==
  [][(~ IsCrossed(work.market) /\ IsCrossed(work'.market) /\ stage' # "idle") =>
       /\ stage = "cross"
       /\ \/ run.taker.touched = run.taker.match_limit
          \/ CannotAfford
    ]_vars

(* An id that no longer rests never names an order again, so a stale       *)
(* client cannot cancel somebody's new order with an old id.               *)
StaleIdsStayDead ==
  [][NoIdReused(chain.market, chain'.market)]_vars

(* A swap by a wallet with no seat leaves the seat table as it found it,   *)
(* however little of the order filled.                                     *)
SwapReturnsItsSeat ==
  [][run.swap.active /\ run.swap.created =>
       chain'.market.seat_of = chain.market.seat_of]_vars

(* What an instruction in the cross loop relies on: its taker holds a seat,*)
(* the lots it fills come out of the lots it asked for, and a remainder    *)
(* that is to rest has a price to rest at.                                 *)
CrossIsWellPosed ==
  stage = "cross" =>
    /\ run.seat # NoSeat
    /\ run.taker.seat = run.seat
    /\ run.taker.remaining + run.taker.filled <= U64Max
    /\ run.posts => run.taker.limit # NoPrice

(* The inductive invariant of Clob_proofs: the accounts are well formed,   *)
(* the vaults hold their deposits, and a running instruction has brought   *)
(* back no id that its commit would bring back.                            *)
IInv ==
  /\ TypeOK
  /\ OrderIdsUnique
  /\ VaultsHoldDeposits
  /\ NoIdReused(chain.market, work.market)
  /\ CrossIsWellPosed

(* Where no order that may rest bids zero ticks, which nothing in the      *)
(* program refuses: this holds of what clients are assumed to send.        *)
RestsPriced(packet) ==
  packet.kind # "ImmediateOrCancel" /\ packet.side = "Bid" => packet.price # 0

PricedOrders ==
  /\ \A packet \in Packets : RestsPriced(packet)
  /\ \A ladder \in Ladders : \A i \in DOMAIN ladder : RestsPriced(ladder[i])

(* The inductive invariant of the ledger: the books balance, committed     *)
(* and in work alike, which they keep doing because whoever trades holds   *)
(* its seat throughout and nothing on its way to the book is unpriced.     *)
LedgerInv ==
  /\ IInv
  /\ \A m \in Markets : Balanced(m)
  /\ stage # "idle" /\ run.seat # NoSeat => SeatLive(work.market, run.seat)
  /\ \A i \in DOMAIN run.packets : RestsPriced(run.packets[i])
  /\ (stage = "cross" /\ run.posts /\ run.taker.side = "Bid") => run.taker.limit # 0

(* The inductive invariant of Trading_proofs, over IInv: between two       *)
(* instructions nothing is half done; the cross loop keeps to its match    *)
(* limit; a sweep leaves the orders it has yet to reach as they were.      *)
TradeInv ==
  /\ IInv
  /\ stage = "idle" => work = chain
  /\ stage = "cross" => run.taker.touched <= run.taker.match_limit
  /\ stage = "cancel_all" =>
       \A k \in OwnSlots(work.market, run.cancel_side, run.seat) :
         work.market.book[run.cancel_side][k] = chain.market.book[run.cancel_side][k]
  /\ SweepTakesBestFirst

(* What a swap that had to claim its seat knows of it: it is the one seat  *)
(* the swap added, it held nothing before, and it has nothing at rest.     *)
SwapSeatIsItsOwn ==
  run.swap.active /\ run.swap.created =>
    /\ run.seat \in Seats
    /\ run.swap.base = 0 /\ run.swap.quote = 0
    /\ ~ SeatLive(chain.market, run.seat)
    /\ \E t \in Traders :
         /\ chain.market.seat_of[t] = NoSeat
         /\ work.market.seat_of = [chain.market.seat_of EXCEPT ![t] = run.seat]
    /\ work.market.state[run.seat].base_locked = 0
    /\ work.market.state[run.seat].quote_locked = 0
    /\ \A side \in Sides : OwnSlots(work.market, side, run.seat) = {}

(* The inductive invariant behind SwapReturnsItsSeat, over LedgerInv: a    *)
(* swap takes and never posts, so its seat ends as empty as it began.      *)
SwapSeatInv ==
  /\ LedgerInv
  /\ run.swap.active =>
       /\ stage \in {"packets", "cross"}
       /\ ~ run.posts
       /\ \A i \in DOMAIN run.packets : run.packets[i].kind = "ImmediateOrCancel"
  /\ SwapSeatIsItsOwn

(* Liveness: a started instruction ends, because every pass of each loop   *)
(* uses up an order, the taker's size or a caller-supplied bound.          *)
InstructionsEnd == (stage # "idle") ~> (stage = "idle")

-----------------------------------------------------------------------------
(* Known limits: what a comment or a document says and the code does not   *)
(* keep.  TLC refutes each; README.md gives the instance.                  *)

(* A committed book is never crossed: matching runs before posting.        *)
NeverRestsCrossed == ~ IsCrossed(chain.market)

(* The input a swap pulls in is the most its order can consume, so the     *)
(* swap never falls below the balance the seat held before.                *)
SwapSparesStandingBalance ==
  (stage = "packets" /\ run.packets = <<>> /\ run.swap.active) =>
    /\ work.market.state[run.seat].base_free >= run.swap.base
    /\ work.market.state[run.seat].quote_free >= run.swap.quote

(* A swap that buys for a seat with inventory pays out what it bought from *)
(* others and nothing the seat already had: its base stays what it was.    *)
SwapPaysOutOnlyTheTrade ==
  [][(run.swap.active /\ ~ run.swap.created /\ stage' = "idle") =>
       BaseHeld(chain'.market)[run.seat] >= BaseHeld(chain.market)[run.seat]]_vars
=============================================================================
