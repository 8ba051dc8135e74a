----------------------------- MODULE Clob_proofs -----------------------------
(***************************************************************************)
(* Theorems about the on-chain program, for every value of the constants:  *)
(* any number of traders, seats and book slots, any machine word, any fee  *)
(* and any orders.                                                         *)
(*                                                                         *)
(* IInv (module Clob) is inductive, and so is LedgerInv, which adds that   *)
(* the books balance.  Each action of the program ends in one of the few   *)
(* shapes Apply, Begin, Proceed, Commit and Revert, so one lemma per shape *)
(* says what the new accounts and locals must satisfy, and one lemma per   *)
(* action shows that its own do.                                           *)
(***************************************************************************)
EXTENDS Clob, Market_proofs

USE LotsAssumption, MarketAssumption, ClobAssumption

Stages == {"idle", "cancels", "cancel_all", "packets", "cross"}

(* An account as the invariant has it. *)
Sound(accounts) ==
  /\ accounts \in Accounts
  /\ IdsUnique(accounts.market)
  /\ accounts.base_vault = BaseAtoms(accounts.market.base_deposited)
  /\ accounts.quote_vault = QuoteAtoms(accounts.market.quote_deposited)

(* CrossIsWellPosed, of a stage and locals. *)
WellPosed(st, r) ==
  st = "cross" => /\ r.seat # NoSeat
                  /\ r.taker.seat = r.seat
                  /\ r.taker.remaining + r.taker.filled <= U64Max
                  /\ r.posts => r.taker.limit # NoPrice

LEMMA IInvParts ==
  IInv <=> /\ Sound(chain)
           /\ Sound(work)
           /\ NoIdReused(chain.market, work.market)
           /\ stage \in Stages
           /\ run \in RunType
           /\ WellPosed(stage, run)
BY DEF IInv, TypeOK, OrderIdsUnique, Markets, VaultsHoldDeposits, CrossIsWellPosed,
       Sound, WellPosed, Stages

LEMMA IInvPartsPrime ==
  IInv' <=> /\ Sound(chain')
            /\ Sound(work')
            /\ NoIdReused(chain'.market, work'.market)
            /\ stage' \in Stages
            /\ run' \in RunType
            /\ WellPosed(stage', run')
BY DEF IInv, TypeOK, OrderIdsUnique, Markets, VaultsHoldDeposits, CrossIsWellPosed,
       Sound, WellPosed, Stages

LEMMA SoundMarket ==
  ASSUME NEW accounts, Sound(accounts)
  PROVE  /\ WellFormed(accounts.market)
         /\ accounts.market \in MarketType
         /\ accounts.base_vault \in Nat /\ accounts.quote_vault \in Nat
         /\ accounts.market.base_deposited \in Nat
         /\ accounts.market.quote_deposited \in Nat
         /\ NoIdReused(accounts.market, accounts.market)
<1>1. WellFormed(accounts.market)
  BY DEF Sound, Accounts, WellFormed
<1> QED BY <1>1, NoIdReusedReflexive, MarketFields DEF Sound, Accounts, WellFormed, U64

(* Sound(accounts) survives an operation that moves no lots. *)
LEMMA SoundKeeps ==
  ASSUME NEW accounts, Sound(accounts), NEW m, Keeps(accounts.market, m)
  PROVE  Sound([accounts EXCEPT !.market = m])
BY DEF Sound, Accounts, Keeps, WellFormed

(* ... and one that moves the same lots through the vaults. *)
LEMMA SoundTransfer ==
  ASSUME NEW accounts, Sound(accounts), NEW base \in Int, NEW quote \in Int,
         CanTransfer(accounts, base, quote),
         NEW m, WellFormed(m),
         m.base_deposited = accounts.market.base_deposited + base,
         m.quote_deposited = accounts.market.quote_deposited + quote
  PROVE  Sound([Transfer(accounts, base, quote) EXCEPT !.market = m])
<1> DEFINE bv == accounts.base_vault + BaseAtoms(base)
           qv == accounts.quote_vault + QuoteAtoms(quote)
           new == [Transfer(accounts, base, quote) EXCEPT !.market = m]
<1>1. new = [accounts EXCEPT !.base_vault = bv, !.quote_vault = qv, !.market = m]
  BY DEF Transfer
<1>2. bv \in U64 /\ qv \in U64
  BY DEF CanTransfer
<1>3. bv = BaseAtoms(m.base_deposited) /\ qv = QuoteAtoms(m.quote_deposited)
  <2> DEFINE b == accounts.market.base_deposited
             q == accounts.market.quote_deposited
  <2>1. b \in Int /\ q \in Int
    BY SoundMarket
  <2>2. bv = BaseAtoms(b) + BaseAtoms(base) /\ qv = QuoteAtoms(q) + QuoteAtoms(quote)
    BY DEF Sound
  <2>3. m.base_deposited = b + base /\ m.quote_deposited = q + quote
    OBVIOUS
  <2> HIDE DEF b, q, bv, qv
  <2> QED BY <2>1, <2>2, <2>3 DEF BaseAtoms, QuoteAtoms
<1> HIDE DEF bv, qv, new
<1>4. /\ new \in Accounts /\ new.market = m
      /\ new.base_vault = bv /\ new.quote_vault = qv
  BY <1>1, <1>2 DEF Sound, Accounts, WellFormed
<1>5. Sound(new)
  BY <1>3, <1>4 DEF Sound, WellFormed
<1> QED BY <1>5 DEF new

(* What every step must show. *)
StepKeeps == IInv' /\ NoIdReused(chain.market, chain'.market)

-----------------------------------------------------------------------------
(* The shapes an action ends in. *)

LEMMA NothingRunningTyped ==
  NothingRunning \in RunType /\ NoTaker \in Taker /\ NoSwap \in SwapLocals
<1>1. NoTaker \in Taker
  BY DEF NoTaker, Taker, NoSeat, Sides, U64, SelfTradeBehaviors
<1>2. NoSwap \in SwapLocals
  BY DEF NoSwap, SwapLocals, U64
<1>3. <<>> \in Seq(OrderPacket) /\ {} \in SUBSET OrderIds
  OBVIOUS
<1> QED BY <1>1, <1>2, <1>3 DEF NothingRunning, RunType, NoSeat, Sides, U64

LEMMA ApplyInv ==
  ASSUME IInv, NEW accounts, Sound(accounts),
         NoIdReused(chain.market, accounts.market), Apply(accounts)
  PROVE  StepKeeps
<1>1. NoIdReused(accounts.market, accounts.market)
  BY SoundMarket
<1>2. stage' = stage /\ run' = run /\ chain' = accounts /\ work' = accounts
  BY DEF Apply
<1> QED BY <1>1, <1>2, IInvParts, IInvPartsPrime DEF StepKeeps

(* Apply, of an operation that moves no lots. *)
LEMMA ApplyKeeps ==
  ASSUME IInv, NEW m, Keeps(chain.market, m), Apply([chain EXCEPT !.market = m])
  PROVE  StepKeeps
<1>1. Sound([chain EXCEPT !.market = m])
  BY IInvParts, SoundKeeps
<1>2. [chain EXCEPT !.market = m].market = m
  BY IInvParts DEF Sound, Accounts
<1> QED BY <1>1, <1>2, ApplyInv DEF Keeps

(* Apply and Commit, of accounts that lots were moved through. *)
LEMMA ApplyTransfer ==
  ASSUME IInv, NEW base \in Int, NEW quote \in Int, NEW m, NoIdReused(chain.market, m),
         NEW new, new = [Transfer(chain, base, quote) EXCEPT !.market = m],
         Sound(new), Apply(new)
  PROVE  StepKeeps
<1>1. new.market = m
  BY IInvParts DEF Transfer, Sound, Accounts
<1> QED BY <1>1, ApplyInv

LEMMA BeginInv ==
  ASSUME IInv, NEW st \in Stages \ {"cross"}, NEW locals \in RunType, Begin(st, locals)
  PROVE  StepKeeps
<1>1. NoIdReused(chain.market, chain.market)
  BY SoundMarket, IInvParts
<1> QED BY <1>1, IInvParts, IInvPartsPrime DEF Begin, WellPosed, StepKeeps

LEMMA ProceedInv ==
  ASSUME IInv, NEW m, Keeps(work.market, m), NEW st \in Stages, NEW locals \in RunType,
         WellPosed(st, locals), Proceed(m, st, locals)
  PROVE  StepKeeps
<1>1. Sound(work') /\ work'.market = m
  BY SoundKeeps, IInvParts DEF Proceed, Sound, Accounts
<1>2. NoIdReused(chain.market, m)
  <2>1. chain.market \in MarketType /\ work.market \in MarketType /\ m \in MarketType
    BY SoundMarket, IInvParts DEF Keeps, WellFormed
  <2> QED BY <2>1, NoIdReusedTransitive, IInvParts DEF Keeps
<1>3. NoIdReused(chain.market, chain.market)
  BY SoundMarket, IInvParts
<1> QED BY <1>1, <1>2, <1>3, IInvParts, IInvPartsPrime DEF Proceed, StepKeeps

(* A step that changes locals only. *)
LEMMA SameMarketKeeps ==
  ASSUME IInv
  PROVE  WellFormed(work.market) /\ Keeps(work.market, work.market)
BY IInvParts, SoundMarket DEF Keeps

LEMMA CommitInv ==
  ASSUME IInv, NEW accounts, Sound(accounts),
         NoIdReused(chain.market, accounts.market), Commit(accounts)
  PROVE  StepKeeps
<1>1. NoIdReused(accounts.market, accounts.market)
  BY SoundMarket
<1>2. /\ stage' = "idle" /\ run' = NothingRunning
      /\ chain' = accounts /\ work' = accounts
  BY DEF Commit, Return
<1> QED BY <1>1, <1>2, NothingRunningTyped, IInvPartsPrime DEF Stages, WellPosed, StepKeeps

LEMMA CommitTransfer ==
  ASSUME IInv, NEW base \in Int, NEW quote \in Int, NEW m, NoIdReused(chain.market, m),
         NEW new, new = [Transfer(work, base, quote) EXCEPT !.market = m],
         Sound(new), Commit(new)
  PROVE  StepKeeps
<1>1. new.market = m
  BY IInvParts DEF Transfer, Sound, Accounts
<1> QED BY <1>1, CommitInv

LEMMA RevertInv ==
  ASSUME IInv, Revert
  PROVE  StepKeeps
<1>1. NoIdReused(chain.market, chain.market)
  BY SoundMarket, IInvParts
<1>2. stage' = "idle" /\ run' = NothingRunning /\ chain' = chain /\ work' = chain
  BY DEF Revert, Return
<1> QED BY <1>1, <1>2, IInvParts, NothingRunningTyped, IInvPartsPrime
        DEF Stages, WellPosed, StepKeeps

-----------------------------------------------------------------------------
(* Instructions that run in one step. *)

LEMMA InitInv == Init => IInv
<1> SUFFICES ASSUME Init PROVE IInv
  OBVIOUS
<1>1. NewMarket \in MarketType /\ IdsUnique(NewMarket) /\ WellFormed(NewMarket)
  BY NewMarketWellFormed DEF WellFormed
<1>2. NewMarket.base_deposited = 0 /\ NewMarket.quote_deposited = 0
  BY DEF NewMarket
<1>3. Sound(chain)
  BY <1>1, <1>2 DEF Init, Sound, Accounts, U64, BaseAtoms, QuoteAtoms
<1>4. Sound(work) /\ chain.market = NewMarket /\ work.market = NewMarket
  BY <1>3 DEF Init
<1>5. NoIdReused(NewMarket, NewMarket)
  BY <1>1, NoIdReusedReflexive
<1> QED BY <1>3, <1>4, <1>5, IInvParts, NothingRunningTyped DEF Init, Stages, WellPosed

LEMMA InitializeInv == IInv /\ Initialize => StepKeeps
<1> SUFFICES ASSUME IInv, Initialize PROVE StepKeeps
  OBVIOUS
<1>1. Sound([chain EXCEPT !.initialized = TRUE])
  BY IInvParts DEF Sound, Accounts
<1>2. /\ NoIdReused(chain.market, chain.market)
      /\ [chain EXCEPT !.initialized = TRUE].market = chain.market
  BY IInvParts, SoundMarket DEF Sound, Accounts
<1> QED BY <1>1, <1>2, ApplyInv DEF Initialize

LEMMA ClaimASeatInv == \A t \in Traders : IInv /\ ClaimASeat(t) => StepKeeps
<1> SUFFICES ASSUME NEW t \in Traders, IInv, ClaimASeat(t) PROVE StepKeeps
  OBVIOUS
<1> DEFINE m == ClaimSeat(chain.market, t)
<1>1. Keeps(chain.market, m)
  BY IInvParts, SoundMarket, ClaimSeatKeeps DEF ClaimASeat
<1>2. Apply([chain EXCEPT !.market = m])
  BY DEF ClaimASeat
<1> HIDE DEF m
<1> QED BY <1>1, <1>2, ApplyKeeps

LEMMA EvictSeatInv == \A t \in Traders : IInv /\ EvictSeat(t) => StepKeeps
<1> SUFFICES ASSUME NEW t \in Traders, IInv, EvictSeat(t) PROVE StepKeeps
  OBVIOUS
<1> DEFINE m == ReleaseSeat(chain.market, t)
<1>1. Keeps(chain.market, m)
  BY IInvParts, SoundMarket, ReleaseSeatKeeps
<1>2. Apply([chain EXCEPT !.market = m])
  BY DEF EvictSeat
<1> HIDE DEF m
<1> QED BY <1>1, <1>2, ApplyKeeps

(* What a deposit leaves: a claimed seat and the lots on it. *)
LEMMA ClaimAndDeposit ==
  ASSUME IInv, NEW t \in Traders, CanClaimSeat(chain.market, t),
         NEW base \in Int, NEW quote \in Int,
         NEW m, m = ClaimSeat(chain.market, t),
         CanDeposit(m, m.seat_of[t], base, quote), CanTransfer(chain, base, quote)
  PROVE  /\ m.seat_of[t] \in Seats
         /\ m \in MarketType
         /\ Sound([Transfer(chain, base, quote) EXCEPT
                     !.market = Deposit(m, m.seat_of[t], base, quote)])
         /\ NoIdReused(chain.market, Deposit(m, m.seat_of[t], base, quote))
<1> DEFINE s == m.seat_of[t]
           n == Deposit(m, s, base, quote)
<1>1. Keeps(chain.market, m) /\ s \in Seats
  BY IInvParts, SoundMarket, ClaimSeatKeeps
<1>2. WellFormed(m) /\ s \in 0 .. NumSeats
  BY <1>1 DEF Keeps, Seats
<1>3. /\ WellFormed(n) /\ NoIdReused(m, n)
      /\ n.base_deposited = m.base_deposited + base
      /\ n.quote_deposited = m.quote_deposited + quote
  BY <1>2, DepositFacts
<1>4. NoIdReused(chain.market, n)
  BY <1>1, <1>2, <1>3, NoIdReusedTransitive, IInvParts, SoundMarket DEF Keeps, WellFormed
<1> HIDE DEF n
<1>5. Sound([Transfer(chain, base, quote) EXCEPT !.market = n])
  BY <1>1, <1>3, IInvParts, SoundTransfer DEF Keeps
<1> QED BY <1>1, <1>2, <1>4, <1>5 DEF n, WellFormed

LEMMA AmountsAreInts == \A a \in Amounts : a \in Int /\ -a \in Int
BY DEF U64

LEMMA DepositFundsInv ==
  \A t \in Traders : \A base, quote \in Amounts : IInv /\ DepositFunds(t, base, quote) => StepKeeps
<1> SUFFICES ASSUME NEW t \in Traders, NEW base \in Amounts, NEW quote \in Amounts,
                    IInv, DepositFunds(t, base, quote)
             PROVE  StepKeeps
  OBVIOUS
<1> DEFINE m == ClaimSeat(chain.market, t)
<1> DEFINE n == Deposit(m, m.seat_of[t], base, quote)
<1>1. /\ Sound([Transfer(chain, base, quote) EXCEPT !.market = n])
      /\ NoIdReused(chain.market, n)
  BY ClaimAndDeposit, AmountsAreInts DEF DepositFunds
<1>2. Apply([Transfer(chain, base, quote) EXCEPT !.market = n])
  BY DEF DepositFunds
<1> HIDE DEF n
<1> QED BY <1>1, <1>2, ApplyTransfer, AmountsAreInts

LEMMA WithdrawFundsInv ==
  \A t \in Traders : \A base, quote \in Amounts : IInv /\ WithdrawFunds(t, base, quote) => StepKeeps
<1> SUFFICES ASSUME NEW t \in Traders, NEW base \in Amounts, NEW quote \in Amounts,
                    IInv, WithdrawFunds(t, base, quote)
             PROVE  StepKeeps
  OBVIOUS
<1> DEFINE n == Withdraw(chain.market, SeatOf(t), base, quote)
<1>1. WellFormed(chain.market) /\ SeatOf(t) \in 0 .. NumSeats
  BY IInvParts, SoundMarket, MarketFields DEF SeatOf
<1>2. /\ WellFormed(n) /\ NoIdReused(chain.market, n)
      /\ n.base_deposited = chain.market.base_deposited - base
      /\ n.quote_deposited = chain.market.quote_deposited - quote
  BY <1>1, WithdrawFacts, AmountsAreInts, SMTT(30) DEF WithdrawFunds
<1>3. /\ n.base_deposited = chain.market.base_deposited + (-base)
      /\ n.quote_deposited = chain.market.quote_deposited + (-quote)
  BY <1>2, AmountsAreInts, IInvParts, SoundMarket
<1> HIDE DEF n
<1>4. Sound([Transfer(chain, -base, -quote) EXCEPT !.market = n])
  BY <1>2, <1>3, AmountsAreInts, IInvParts, SoundTransfer DEF WithdrawFunds
<1>5. Apply([Transfer(chain, -base, -quote) EXCEPT !.market = n])
  BY DEF WithdrawFunds, Transfer, n
<1> QED BY <1>2, <1>4, <1>5, ApplyTransfer, AmountsAreInts

LEMMA CollectAccruedFeesInv == IInv /\ CollectAccruedFees => StepKeeps
<1> SUFFICES ASSUME IInv, CollectAccruedFees PROVE StepKeeps
  OBVIOUS
<1> DEFINE n == CollectFees(chain.market)
           fees == chain.market.unclaimed_fees
<1>1. WellFormed(chain.market) /\ fees \in Nat
  BY IInvParts, SoundMarket, MarketFields DEF U64
<1>2. /\ WellFormed(n) /\ NoIdReused(chain.market, n)
      /\ n.base_deposited = chain.market.base_deposited
      /\ n.quote_deposited = chain.market.quote_deposited - fees
  BY <1>1, CollectFeesFacts DEF CollectAccruedFees
<1>3. /\ n.base_deposited = chain.market.base_deposited + 0
      /\ n.quote_deposited = chain.market.quote_deposited + (-fees)
      /\ -fees \in Int
  BY <1>1, <1>2, IInvParts, SoundMarket
<1> HIDE DEF n
<1>4. Sound([Transfer(chain, 0, -fees) EXCEPT !.market = n])
  BY <1>2, <1>3, IInvParts, SoundTransfer DEF CollectAccruedFees
<1>5. Apply([Transfer(chain, 0, -fees) EXCEPT !.market = n])
  BY DEF CollectAccruedFees, Transfer, n
<1> DEFINE out == -fees
<1>6. out \in Int /\ 0 \in Int /\ NoIdReused(chain.market, n)
  BY <1>2, <1>3
<1>7. /\ Sound([Transfer(chain, 0, out) EXCEPT !.market = n])
      /\ Apply([Transfer(chain, 0, out) EXCEPT !.market = n])
  BY <1>4, <1>5
<1> HIDE DEF out
<1> QED BY <1>6, <1>7, ApplyTransfer

LEMMA FoundLive ==
  ASSUME NEW m \in MarketType, NEW id \in OrderIds, NEW h \in Found(m, id)
  PROVE  /\ id.side \in Sides /\ h \in LiveSlots(m, id.side)
         /\ m.book[id.side][h] \in Order
         /\ m.book[id.side][h].size \in 0 .. m.book[id.side][h].size
BY LiveSlotFacts, OrderFields DEF OrderIds, Found

LEMMA KnownIdsTyped == IInv => KnownIds \subseteq OrderIds
BY IInvParts, SoundMarket, MarketFields DEF KnownIds, OrderIds

LEMMA ReduceOrderInv ==
  \A t \in Traders : \A id \in KnownIds : \A lots \in U64 :
    IInv /\ ReduceOrder(t, id, lots) => StepKeeps
<1> SUFFICES ASSUME NEW t \in Traders, NEW id \in KnownIds, NEW lots \in U64,
                    IInv, ReduceOrder(t, id, lots)
             PROVE  StepKeeps
  OBVIOUS
<1>1. PICK h \in Found(chain.market, id) :
        LET o == chain.market.book[id.side][h]
            removed == MinOf(o.size, lots)
        IN  /\ CanRelease(chain.market, id.side, h, removed)
            /\ Apply([chain EXCEPT !.market = Release(@, id.side, h, removed)])
  BY DEF ReduceOrder
<1> DEFINE o == chain.market.book[id.side][h]
           removed == MinOf(o.size, lots)
           n == Release(chain.market, id.side, h, removed)
<1>2. id.side \in Sides /\ h \in LiveSlots(chain.market, id.side) /\ o.size \in Nat
  BY FoundLive, KnownIdsTyped, IInvParts, SoundMarket
<1>3. removed \in 0 .. o.size
  <2>1. lots \in Nat
    BY DEF U64
  <2> HIDE DEF o
  <2> QED BY <1>2, <2>1 DEF MinOf
<1>4. Keeps(chain.market, n)
  BY <1>1, <1>2, <1>3, ReleaseKeeps, IInvParts, SoundMarket
<1>5. Apply([chain EXCEPT !.market = n])
  BY <1>1
<1> HIDE DEF n
<1> QED BY <1>4, <1>5, ApplyKeeps

LEMMA CancelOrderInv ==
  \A t \in Traders : \A id \in KnownIds : IInv /\ CancelOrder(t, id) => StepKeeps
<1> SUFFICES ASSUME NEW t \in Traders, NEW id \in KnownIds, IInv, CancelOrder(t, id)
             PROVE  StepKeeps
  OBVIOUS
<1>1. PICK h \in Found(chain.market, id) :
        LET o == chain.market.book[id.side][h]
        IN  /\ CanRelease(chain.market, id.side, h, o.size)
            /\ Apply([chain EXCEPT !.market = Release(@, id.side, h, o.size)])
  BY DEF CancelOrder
<1> DEFINE o == chain.market.book[id.side][h]
           n == Release(chain.market, id.side, h, o.size)
<1>2. id.side \in Sides /\ h \in LiveSlots(chain.market, id.side) /\ o.size \in 0 .. o.size
  BY FoundLive, KnownIdsTyped, IInvParts, SoundMarket
<1>3. Keeps(chain.market, n)
  BY <1>1, <1>2, ReleaseKeeps, IInvParts, SoundMarket
<1>4. Apply([chain EXCEPT !.market = n])
  BY <1>1
<1> HIDE DEF n
<1> QED BY <1>3, <1>4, ApplyKeeps

-----------------------------------------------------------------------------
(* Instructions that loop: how each begins. *)

LEMMA NothingRunningFields ==
  /\ NothingRunning \in RunType
  /\ NothingRunning.posts = FALSE /\ NothingRunning.swap = NoSwap
BY NothingRunningTyped DEF NothingRunning

LEMMA SeatOfTyped == \A t \in Traders : IInv => SeatOf(t) \in 0 .. NumSeats
BY IInvParts, SoundMarket, MarketFields DEF SeatOf

LEMMA PlaceOrderInv ==
  \A t \in Traders : \A packet \in Packets : IInv /\ PlaceOrder(t, packet) => StepKeeps
<1> SUFFICES ASSUME NEW t \in Traders, NEW packet \in Packets, IInv, PlaceOrder(t, packet)
             PROVE  StepKeeps
  OBVIOUS
<1> DEFINE ps == <<packet>>
           locals == [NothingRunning EXCEPT !.seat = SeatOf(t), !.packets = ps]
<1>1. ps \in Seq(OrderPacket) /\ SeatOf(t) \in 0 .. NumSeats
  BY SeatOfTyped
<1>2. Begin("packets", locals)
  BY DEF PlaceOrder
<1> HIDE DEF ps
<1>3. locals \in RunType
  BY <1>1, NothingRunningFields DEF RunType
<1> QED BY <1>2, <1>3, BeginInv DEF Stages

LEMMA BatchUpdateInv ==
  \A t \in Traders : \A ids \in SUBSET KnownIds : \A ladder \in Ladders :
    IInv /\ BatchUpdate(t, ids, ladder) => StepKeeps
<1> SUFFICES ASSUME NEW t \in Traders, NEW ids \in SUBSET KnownIds, NEW ladder \in Ladders,
                    IInv, BatchUpdate(t, ids, ladder)
             PROVE  StepKeeps
  OBVIOUS
<1> DEFINE locals == [NothingRunning EXCEPT !.seat = SeatOf(t), !.cancels = ids,
                                            !.packets = ladder]
<1>1. /\ ladder \in Seq(OrderPacket) /\ ids \in SUBSET OrderIds
      /\ SeatOf(t) \in 0 .. NumSeats
  BY KnownIdsTyped, SeatOfTyped
<1>2. Begin("cancels", locals)
  BY DEF BatchUpdate
<1>3. locals \in RunType
  BY <1>1, NothingRunningFields DEF RunType
<1> QED BY <1>2, <1>3, BeginInv DEF Stages

LEMMA CancelAllInv ==
  \A t \in Traders : \A side \in Sides : \A limit \in CancelLimits :
    IInv /\ CancelAll(t, side, limit) => StepKeeps
<1> SUFFICES ASSUME NEW t \in Traders, NEW side \in Sides, NEW limit \in CancelLimits,
                    IInv, CancelAll(t, side, limit)
             PROVE  StepKeeps
  OBVIOUS
<1> DEFINE locals == [NothingRunning EXCEPT !.seat = SeatOf(t), !.cancel_side = side,
                                            !.cancel_limit = limit]
<1>1. limit \in Nat /\ SeatOf(t) \in 0 .. NumSeats
  BY SeatOfTyped
<1>2. Begin("cancel_all", locals)
  BY DEF CancelAll
<1>3. locals \in RunType
  BY <1>1, NothingRunningFields DEF RunType
<1> QED BY <1>2, <1>3, BeginInv DEF Stages

LEMMA SwapTyped ==
  ASSUME NEW swap \in Swaps
  PROVE  /\ SwapPacket(swap) \in OrderPacket
         /\ SwapInput(swap).base \in Int /\ SwapInput(swap).quote \in Int
<1>1. /\ swap.side \in Sides /\ swap.price \in U64 /\ swap.size \in U64
      /\ swap.min_fill \in U64 /\ swap.match_limit \in Nat
  BY DEF SwapType
<1>2. QuoteLotsFor(swap.price, swap.size) \in Nat
  <2>1. swap.price \in Nat /\ swap.size \in Nat
    BY <1>1 DEF U64
  <2> QED BY <2>1, QuoteLotsForNat
<1>3. FeeOn(QuoteLotsFor(swap.price, swap.size)) \in Nat
  BY <1>2, FeeOnBound
<1>4. SwapInput(swap).base \in Int /\ SwapInput(swap).quote \in Int
  BY <1>1, <1>2, <1>3 DEF SwapInput, U64
<1>5. SwapPacket(swap) \in OrderPacket
  BY <1>1 DEF SwapPacket, OrderPacket, PacketType, SelfTradeBehaviors
<1> QED BY <1>4, <1>5

LEMMA SwapInv == \A t \in Traders : \A swap \in Swaps : IInv /\ Swap(t, swap) => StepKeeps
<1> SUFFICES ASSUME NEW t \in Traders, NEW swap \in Swaps, IInv, Swap(t, swap)
             PROVE  StepKeeps
  OBVIOUS
<1> DEFINE m == ClaimSeat(chain.market, t)
           s == m.seat_of[t]
           in == SwapInput(swap)
           n == Deposit(m, s, in.base, in.quote)
           ps == <<SwapPacket(swap)>>
           sw == [active |-> TRUE, created |-> SeatOf(t) = NoSeat,
                  base |-> m.state[s].base_free, quote |-> m.state[s].quote_free]
           locals == [NothingRunning EXCEPT !.seat = s, !.packets = ps, !.swap = sw]
           new == [Transfer(chain, in.base, in.quote) EXCEPT !.market = n]
<1>1. in.base \in Int /\ in.quote \in Int /\ SwapPacket(swap) \in OrderPacket
  BY SwapTyped
<1>2. /\ CanClaimSeat(chain.market, t)
      /\ CanDeposit(m, s, in.base, in.quote)
      /\ CanTransfer(chain, in.base, in.quote)
  BY DEF Swap
<1>3. /\ work' = new /\ stage' = "packets" /\ run' = locals /\ chain' = chain
  BY DEF Swap
<1>4. s \in Seats /\ m \in MarketType /\ Sound(new) /\ NoIdReused(chain.market, n)
  <2> HIDE DEF in
  <2> QED BY <1>1, <1>2, ClaimAndDeposit
<1>5. sw \in SwapLocals /\ ps \in Seq(OrderPacket) /\ s \in 0 .. NumSeats
  <2>1. m.state[s] \in TraderState
    BY <1>4, MarketFields
  <2>2. ps \in Seq(OrderPacket)
    BY <1>1
  <2> HIDE DEF m, s
  <2> QED BY <1>4, <2>1, <2>2 DEF SwapLocals, TraderState, Seats
<1> HIDE DEF sw, ps, s, n
<1>6. locals \in RunType
  BY <1>5, NothingRunningFields DEF RunType
<1>7. new.market = n
  BY IInvParts DEF Transfer, Sound, Accounts
<1> HIDE DEF new, locals
<1>8. NoIdReused(chain'.market, work'.market)
  BY <1>3, <1>4, <1>7
<1>9. NoIdReused(chain.market, chain'.market)
  BY <1>3, IInvParts, SoundMarket
<1> QED BY <1>3, <1>4, <1>6, <1>8, <1>9, IInvParts, IInvPartsPrime
        DEF Stages, WellPosed, StepKeeps

-----------------------------------------------------------------------------
(* Steps of a running instruction. *)

LEMMA RunFields ==
  IInv => /\ run.seat \in 0 .. NumSeats /\ run.cancels \in SUBSET OrderIds
          /\ run.packets \in Seq(OrderPacket) /\ run.taker \in Taker
          /\ run.posts \in BOOLEAN /\ run.min_fill \in U64
          /\ run.cancel_side \in Sides /\ run.cancel_limit \in Nat
          /\ run.swap \in SwapLocals
          /\ run \in RunType
BY IInvParts DEF RunType

LEMMA CancelListedInv == IInv /\ (\E id \in run.cancels : CancelListed(id)) => StepKeeps
<1> SUFFICES ASSUME IInv, NEW id \in run.cancels, CancelListed(id) PROVE StepKeeps
  OBVIOUS
<1> DEFINE cs == run.cancels \ {id}
           rest == [run EXCEPT !.cancels = cs]
<1>1. cs \in SUBSET OrderIds /\ id \in OrderIds
  BY RunFields
<1>2. rest \in RunType
  BY <1>1, RunFields DEF RunType
<1>3. WellPosed("cancels", rest) /\ stage = "cancels" /\ stage \in Stages
  BY DEF WellPosed, CancelListed, Stages
<1>4. CASE Proceed(work.market, stage, rest)
  BY <1>2, <1>3, <1>4, SameMarketKeeps, ProceedInv
<1>5. CASE \E h \in Found(work.market, id) :
             Proceed(Release(work.market, id.side, h, work.market.book[id.side][h].size),
                     stage, rest)
  <2>1. PICK h \in Found(work.market, id) :
             Proceed(Release(work.market, id.side, h, work.market.book[id.side][h].size),
                     stage, rest)
    BY <1>5
  <2> DEFINE size == work.market.book[id.side][h].size
  <2>2. CanRelease(work.market, id.side, h, size)
    BY DEF CancelListed, CancelFails
  <2>3. id.side \in Sides /\ h \in LiveSlots(work.market, id.side) /\ size \in 0 .. size
    BY <1>1, FoundLive, IInvParts, SoundMarket
  <2>4. Keeps(work.market, Release(work.market, id.side, h, size))
    BY <2>2, <2>3, ReleaseKeeps, SameMarketKeeps
  <2> QED BY <1>2, <1>3, <2>1, <2>4, ProceedInv
<1> QED BY <1>4, <1>5 DEF CancelListed

LEMMA CancelsDoneInv == IInv /\ CancelsDone => StepKeeps
<1> SUFFICES ASSUME IInv, CancelsDone PROVE StepKeeps
  OBVIOUS
<1>1. WellPosed("packets", run) /\ "packets" \in Stages
  BY DEF WellPosed, Stages
<1> QED BY <1>1, RunFields, SameMarketKeeps, ProceedInv DEF CancelsDone

LEMMA CancelNextInv == IInv /\ CancelNext => StepKeeps
<1> SUFFICES ASSUME IInv, CancelNext PROVE StepKeeps
  OBVIOUS
<1> DEFINE n == Release(work.market, run.cancel_side, OwnBest, OwnBestSize)
           limit == run.cancel_limit - 1
           locals == [run EXCEPT !.cancel_limit = limit]
<1>1. WellFormed(work.market) /\ run.cancel_side \in Sides /\ run.cancel_limit \in Nat
  BY RunFields, SameMarketKeeps
<1>2. /\ run.cancel_limit > 0
      /\ OwnSlots(work.market, run.cancel_side, run.seat) # {}
      /\ CanRelease(work.market, run.cancel_side, OwnBest, OwnBestSize)
  BY DEF CancelNext, SweepGoesOn, SweepFails
<1>3. OwnBest \in LiveSlots(work.market, run.cancel_side)
  <2>1. OwnSlots(work.market, run.cancel_side, run.seat)
          \in SUBSET LiveSlots(work.market, run.cancel_side)
    BY DEF OwnSlots
  <2> QED BY <1>1, <1>2, <2>1, BestExists DEF OwnBest, WellFormed
<1>4. OwnBestSize \in 0 .. work.market.book[run.cancel_side][OwnBest].size
  BY <1>1, <1>3, LiveSlotFacts, OrderFields DEF OwnBestSize, WellFormed
<1>5. Keeps(work.market, n)
  BY <1>1, <1>2, <1>3, <1>4, ReleaseKeeps
<1>6. limit \in Nat
  BY <1>1, <1>2
<1> HIDE DEF limit
<1>7. locals \in RunType
  BY <1>6, RunFields DEF RunType
<1>8. Proceed(n, "cancel_all", locals)
  BY DEF CancelNext, limit
<1> HIDE DEF n, locals
<1>9. WellPosed("cancel_all", locals) /\ "cancel_all" \in Stages
  BY DEF WellPosed, Stages
<1> QED BY <1>5, <1>7, <1>8, <1>9, ProceedInv

LEMMA CommitWorkInv == IInv /\ (CancelAllDone \/ OrdersDone) => StepKeeps
BY CommitInv, IInvParts DEF CancelAllDone, OrdersDone

LEMMA InstructionFailsInv == IInv /\ InstructionFails => StepKeeps
BY RevertInv DEF InstructionFails

(* The packet at the head of the queue, and the queue behind it. *)
LEMMA PacketTyped ==
  ASSUME IInv, run.packets # <<>>
  PROVE  /\ Packet \in OrderPacket /\ Tail(run.packets) \in Seq(OrderPacket)
         /\ Packet.side \in Sides /\ Packet.size \in U64 /\ Packet.min_fill \in U64
         /\ Packet.price \in U64 \cup {NoPrice} /\ Packet.match_limit \in Nat
         /\ Packet.self_trade \in SelfTradeBehaviors
         /\ Packet.kind # "ImmediateOrCancel" => Packet.price # NoPrice
<1>1. Packet \in OrderPacket /\ Tail(run.packets) \in Seq(OrderPacket)
  BY RunFields DEF Packet
<1> QED BY <1>1 DEF OrderPacket, PacketType

LEMMA PlacePostOnlyInv == IInv /\ PlacePostOnly => StepKeeps
<1> SUFFICES ASSUME IInv, PlacePostOnly PROVE StepKeeps
  OBVIOUS
<1> DEFINE n == Post(work.market, run.seat, Packet.side, PostOnlyPrice, Packet.size)
           rest == Tail(run.packets)
           locals == [run EXCEPT !.packets = rest]
<1>1. /\ run.packets # <<>> /\ Packet.kind = "PostOnly"
      /\ run.seat # NoSeat /\ CanPostOnly
  BY DEF PlacePostOnly, PacketFails
<1>2. /\ Packet.side \in Sides /\ Packet.size \in U64
      /\ Packet.price \in U64 \cup {NoPrice} /\ Packet.price # NoPrice
      /\ rest \in Seq(OrderPacket)
  BY <1>1, PacketTyped
<1>3. PostOnlyPrice \in U64
  <2>1. PostOnlyPrice \in U64 \cup {NoPrice}
    BY <1>2, NonCrossingPriceType DEF PostOnlyPrice
  <2> QED BY <1>1, <2>1 DEF CanPostOnly
<1>4. run.seat \in Seats
  BY <1>1, RunFields DEF Seats, NoSeat
<1>5. Keeps(work.market, n)
  BY <1>1, <1>2, <1>3, <1>4, PostKeeps, SameMarketKeeps DEF CanPostOnly
<1> HIDE DEF rest
<1>6. locals \in RunType
  BY <1>2, RunFields DEF RunType
<1>7. Proceed(n, "packets", locals)
  BY DEF PlacePostOnly, rest
<1> HIDE DEF n, locals
<1>8. WellPosed("packets", locals) /\ "packets" \in Stages
  BY DEF WellPosed, Stages
<1> QED BY <1>5, <1>6, <1>7, <1>8, ProceedInv

(* Entering the cross loop with locals the loop can rely on. *)
LEMMA EnterCross ==
  ASSUME IInv, run.seat # NoSeat,
         NEW rest \in Seq(OrderPacket), NEW posts \in BOOLEAN,
         NEW min_fill \in U64, NEW taker \in Taker,
         taker.seat = run.seat, taker.remaining + taker.filled <= U64Max,
         posts => taker.limit # NoPrice,
         Proceed(work.market, "cross",
                 [run EXCEPT !.packets = rest, !.posts = posts,
                             !.min_fill = min_fill, !.taker = taker])
  PROVE  StepKeeps
<1> DEFINE locals == [run EXCEPT !.packets = rest, !.posts = posts,
                                 !.min_fill = min_fill, !.taker = taker]
<1>1. /\ locals \in RunType
      /\ locals.seat = run.seat /\ locals.taker = taker /\ locals.posts = posts
  BY RunFields DEF RunType
<1>2. Proceed(work.market, "cross", locals)
  OBVIOUS
<1> HIDE DEF locals
<1>3. WellPosed("cross", locals) /\ "cross" \in Stages
  BY <1>1 DEF WellPosed, Stages
<1> QED BY <1>1, <1>2, <1>3, SameMarketKeeps, ProceedInv

LEMMA StartCrossInv == IInv /\ StartCross => StepKeeps
<1> SUFFICES ASSUME IInv, StartCross PROVE StepKeeps
  OBVIOUS
<1> DEFINE rest == Tail(run.packets)
           taker == [seat |-> run.seat, side |-> Packet.side,
                     limit |-> Packet.price, remaining |-> Packet.size,
                     filled |-> 0, touched |-> 0,
                     match_limit |-> Packet.match_limit,
                     self_trade |-> Packet.self_trade]
           enter(posts, min_fill) ==
             Proceed(work.market, "cross",
                     [run EXCEPT !.packets = rest, !.posts = posts,
                                 !.min_fill = min_fill, !.taker = taker])
<1>1. run.packets # <<>> /\ run.seat # NoSeat
  BY DEF StartCross, PacketFails
<1>2. /\ Packet.side \in Sides /\ Packet.size \in U64 /\ Packet.min_fill \in U64
      /\ Packet.price \in U64 \cup {NoPrice} /\ Packet.match_limit \in Nat
      /\ Packet.self_trade \in SelfTradeBehaviors
      /\ rest \in Seq(OrderPacket)
      /\ Packet.kind # "ImmediateOrCancel" => Packet.price # NoPrice
  BY <1>1, PacketTyped
<1>3. /\ taker \in Taker /\ taker.seat = run.seat
      /\ taker.remaining = Packet.size /\ taker.filled = 0
      /\ taker.limit = Packet.price
  BY <1>2, RunFields DEF Taker, U64
<1>4. taker.remaining + taker.filled <= U64Max /\ 0 \in U64
  BY <1>2, <1>3 DEF U64
<1>5. enter(Packet.kind = "Limit", IF Packet.kind = "Limit" THEN 0 ELSE Packet.min_fill)
  BY DEF StartCross
<1>6. CASE Packet.kind = "Limit"
  <2>1. (Packet.kind = "Limit") = TRUE
    BY <1>6
  <2>2. enter(TRUE, 0)
    BY <1>5, <1>6, <2>1
  <2>3. taker.limit # NoPrice
    BY <1>2, <1>3, <1>6
  <2> HIDE DEF rest, taker
  <2> QED BY <1>1, <1>2, <1>3, <1>4, <2>2, <2>3, EnterCross
<1>7. CASE Packet.kind # "Limit"
  <2>1. (Packet.kind = "Limit") = FALSE
    BY <1>7
  <2>2. enter(FALSE, Packet.min_fill)
    BY <1>5, <1>7, <2>1
  <2> HIDE DEF rest, taker
  <2> QED BY <1>1, <1>2, <1>3, <1>4, <2>2, EnterCross
<1> QED BY <1>6, <1>7

(* The locals of the cross loop with a new taker context. *)
LEMMA CrossFields ==
  ASSUME IInv, stage = "cross"
  PROVE  /\ run.seat \in Seats /\ run.taker.seat = run.seat
         /\ run.taker.remaining + run.taker.filled <= U64Max
         /\ run.taker \in Taker
         /\ run.taker.remaining \in U64 /\ run.taker.filled \in U64
         /\ run.taker.side \in Sides
         /\ run.posts => run.taker.limit \in U64
<1>1. run.seat \in Seats
  BY RunFields, IInvParts DEF WellPosed, Seats, NoSeat
<1>2. /\ run.taker.remaining \in U64 /\ run.taker.filled \in U64
      /\ run.taker.limit \in U64 \cup {NoPrice} /\ run.taker.side \in Sides
  BY RunFields DEF Taker
<1> QED BY <1>1, <1>2, RunFields, IInvParts DEF WellPosed

LEMMA CrossLocals ==
  ASSUME IInv, stage = "cross", NEW k \in Taker,
         k.seat = run.taker.seat, k.limit = run.taker.limit,
         k.remaining + k.filled <= U64Max,
         NEW m, Keeps(work.market, m),
         Proceed(m, stage, [run EXCEPT !.taker = k])
  PROVE  StepKeeps
<1> DEFINE locals == [run EXCEPT !.taker = k]
<1>1. locals \in RunType /\ locals.seat = run.seat /\ locals.posts = run.posts /\ locals.taker = k
  BY RunFields DEF RunType
<1> HIDE DEF locals
<1>2. WellPosed("cross", locals) /\ "cross" \in Stages
  BY <1>1, IInvParts DEF WellPosed, Stages
<1>3. Proceed(m, "cross", locals)
  BY DEF locals
<1> QED BY <1>1, <1>2, <1>3, ProceedInv

LEMMA FillBestInv == IInv /\ FillBest => StepKeeps
<1> SUFFICES ASSUME IInv, FillBest PROVE StepKeeps
  OBVIOUS
<1> DEFINE k == AfterFill(work.market, run.taker)
           n == Fill(work.market, run.taker)
<1>1. stage = "cross" /\ Reaches(work.market, run.taker) /\ CanSettle(work.market, run.taker)
  BY DEF FillBest, FillsNext
<1>2. /\ Keeps(work.market, n) /\ k \in Taker
      /\ k.remaining + k.filled = run.taker.remaining + run.taker.filled
  BY <1>1, CrossFields, SameMarketKeeps, FillFacts
<1>3. k.seat = run.taker.seat /\ k.limit = run.taker.limit
  BY RunFields DEF AfterFill, Taker
<1>4. k.remaining + k.filled <= U64Max
  BY <1>1, <1>2, CrossFields
<1>5. Proceed(n, stage, [run EXCEPT !.taker = k])
  BY DEF FillBest
<1> HIDE DEF n, k
<1> QED BY <1>1, <1>2, <1>3, <1>4, <1>5, CrossLocals

LEMMA SelfTradeInv == IInv /\ SelfTrade => StepKeeps
<1> SUFFICES ASSUME IInv, SelfTrade PROVE StepKeeps
  OBVIOUS
<1> DEFINE k == AfterSelfTrade(work.market, run.taker)
           n == ResolveSelfTrade(work.market, run.taker)
<1>1. /\ stage = "cross" /\ Reaches(work.market, run.taker)
      /\ CanResolveSelfTrade(work.market, run.taker)
  BY DEF SelfTrade
<1>2. /\ Keeps(work.market, n) /\ k \in Taker
      /\ k.remaining <= run.taker.remaining
  BY <1>1, RunFields, SameMarketKeeps, SelfTradeFacts
<1>3. k.seat = run.taker.seat /\ k.limit = run.taker.limit /\ k.filled = run.taker.filled
  BY RunFields DEF AfterSelfTrade, Taker
<1>4. k.remaining + k.filled <= U64Max
  <2>1. k.remaining \in U64 /\ k.filled \in U64
    BY <1>2 DEF Taker
  <2> QED BY <1>1, <1>2, <1>3, <2>1, CrossFields DEF U64
<1>5. Proceed(n, stage, [run EXCEPT !.taker = k])
  BY DEF SelfTrade
<1> HIDE DEF n, k
<1> QED BY <1>1, <1>2, <1>3, <1>4, <1>5, CrossLocals

LEMMA RestRemainderInv == IInv /\ RestRemainder => StepKeeps
<1> SUFFICES ASSUME IInv, RestRemainder PROVE StepKeeps
  OBVIOUS
<1> DEFINE n == Post(work.market, run.seat, run.taker.side, run.taker.limit,
                     run.taker.remaining)
           locals == [run EXCEPT !.taker = NoTaker, !.posts = FALSE]
<1>1. stage = "cross" /\ run.posts /\ CanRestRemainder
  BY DEF RestRemainder, RestsRemainder
<1>2. Keeps(work.market, n)
  BY <1>1, CrossFields, SameMarketKeeps, PostKeeps DEF CanRestRemainder
<1>3. locals \in RunType
  BY RunFields, NothingRunningTyped DEF RunType
<1>4. Proceed(n, "packets", locals)
  BY DEF RestRemainder
<1> HIDE DEF n, locals
<1>5. WellPosed("packets", locals) /\ "packets" \in Stages
  BY DEF WellPosed, Stages
<1> QED BY <1>2, <1>3, <1>4, <1>5, ProceedInv

LEMMA EndCrossInv == IInv /\ EndCross => StepKeeps
<1> SUFFICES ASSUME IInv, EndCross PROVE StepKeeps
  OBVIOUS
<1> DEFINE locals == [run EXCEPT !.taker = NoTaker, !.posts = FALSE, !.min_fill = 0]
<1>1. 0 \in U64
  BY DEF U64
<1>2. locals \in RunType
  BY <1>1, RunFields, NothingRunningTyped DEF RunType
<1>3. Proceed(work.market, "packets", locals)
  BY DEF EndCross
<1> HIDE DEF locals
<1>4. WellPosed("packets", locals) /\ "packets" \in Stages
  BY DEF WellPosed, Stages
<1> QED BY <1>2, <1>3, <1>4, SameMarketKeeps, ProceedInv

LEMMA SwapPaysOutInv == IInv /\ SwapPaysOut => StepKeeps
<1> SUFFICES ASSUME IInv, SwapPaysOut PROVE StepKeeps
  OBVIOUS
<1> DEFINE base == SwapOut.base
           quote == SwapOut.quote
           m == Withdraw(work.market, run.seat, base, quote)
           owner == CHOOSE t \in Traders : m.seat_of[t] = run.seat
           n == IF run.swap.created /\ CanReleaseSeat(m, owner)
                THEN ReleaseSeat(m, owner) ELSE m
<1>1. /\ CanWithdraw(work.market, run.seat, base, quote)
      /\ CanTransfer(work, -base, -quote)
  BY DEF SwapPaysOut, CanPayOut
<1>2. WellFormed(work.market) /\ run.seat \in 0 .. NumSeats
  BY SameMarketKeeps, RunFields
<1>3. base \in Int /\ quote \in Int /\ -base \in Int /\ -quote \in Int
  <2>1. run.seat \in Seats
    BY <1>1, <1>2 DEF CanWithdraw, CanDeposit, Seats, NoSeat
  <2>2. work.market.state[run.seat] \in TraderState
    BY <1>2, <2>1, MarketFields DEF WellFormed
  <2>3. run.swap.base \in Int /\ run.swap.quote \in Int
    BY RunFields DEF SwapLocals, U64
  <2>4. base \in Int /\ quote \in Int
    <3>1. \A now, before \in Int : Gain(now, before) \in Int
      BY DEF Gain
    <3>2. /\ work.market.state[run.seat].base_free \in Int
          /\ work.market.state[run.seat].quote_free \in Int
      BY <2>2 DEF TraderState, U64
    <3> QED BY <2>3, <3>1, <3>2 DEF SwapOut
  <2> QED BY <2>4
<1> HIDE DEF base, quote
<1>4. /\ WellFormed(m) /\ NoIdReused(work.market, m)
      /\ m.base_deposited = work.market.base_deposited - base
      /\ m.quote_deposited = work.market.quote_deposited - quote
  BY <1>1, <1>2, <1>3, WithdrawFacts
<1>5. Commit([Transfer(work, -base, -quote) EXCEPT !.market = n])
  BY DEF SwapPaysOut, base, quote
<1> HIDE DEF m
<1>6. Keeps(m, n)
  BY <1>4, ReleaseSeatKeeps, NoIdReusedReflexive DEF Keeps
<1> HIDE DEF n
<1>7. /\ WellFormed(n) /\ NoIdReused(chain.market, n)
      /\ n.base_deposited = work.market.base_deposited + (-base)
      /\ n.quote_deposited = work.market.quote_deposited + (-quote)
  <2>1. NoIdReused(chain.market, n)
    <3>1. /\ chain.market \in MarketType /\ work.market \in MarketType
          /\ m \in MarketType /\ n \in MarketType
      BY <1>4, <1>6, IInvParts, SoundMarket DEF Keeps, WellFormed
    <3>2. NoIdReused(chain.market, m)
      BY <1>4, <3>1, NoIdReusedTransitive, IInvParts
    <3> QED BY <1>6, <3>1, <3>2, NoIdReusedTransitive DEF Keeps
  <2> QED BY <1>3, <1>4, <1>6, <2>1, IInvParts, SoundMarket DEF Keeps
<1>8. Sound([Transfer(work, -base, -quote) EXCEPT !.market = n])
  BY <1>1, <1>3, <1>7, IInvParts, SoundTransfer
<1> QED BY <1>3, <1>5, <1>7, <1>8, CommitTransfer

-----------------------------------------------------------------------------
(* The theorems. *)

LEMMA InstructionInv == \A t \in Traders : IInv /\ Instruction(t) => StepKeeps
<1> SUFFICES ASSUME NEW t \in Traders, IInv, Instruction(t) PROVE StepKeeps
  OBVIOUS
<1>1. CASE ClaimASeat(t)
  BY <1>1, ClaimASeatInv
<1>2. CASE EvictSeat(t)
  BY <1>2, EvictSeatInv
<1>3. CASE \E base, quote \in Amounts : DepositFunds(t, base, quote)
  BY <1>3, DepositFundsInv
<1>4. CASE \E base, quote \in Amounts : WithdrawFunds(t, base, quote)
  BY <1>4, WithdrawFundsInv
<1>5. CASE \E id \in KnownIds : CancelOrder(t, id)
  BY <1>5, CancelOrderInv
<1>6. CASE \E id \in KnownIds, lots \in U64 : ReduceOrder(t, id, lots)
  BY <1>6, ReduceOrderInv
<1>7. CASE \E packet \in Packets : PlaceOrder(t, packet)
  BY <1>7, PlaceOrderInv
<1>8. CASE \E side \in Sides, limit \in CancelLimits : CancelAll(t, side, limit)
  BY <1>8, CancelAllInv
<1>9. CASE \E ids \in {c \in SUBSET KnownIds : Cardinality(c) <= MaxCancels},
              ladder \in Ladders : BatchUpdate(t, ids, ladder)
  BY <1>9, BatchUpdateInv
<1>10. CASE \E swap \in Swaps : Swap(t, swap)
  BY <1>10, SwapInv
<1> QED BY <1>1, <1>2, <1>3, <1>4, <1>5, <1>6, <1>7, <1>8, <1>9, <1>10 DEF Instruction

LEMMA ExecuteInv == IInv /\ Execute => StepKeeps
BY CancelListedInv, CancelsDoneInv, CancelNextInv, CommitWorkInv, PlacePostOnlyInv,
   StartCrossInv, FillBestInv, SelfTradeInv, RestRemainderInv, EndCrossInv,
   SwapPaysOutInv, InstructionFailsInv DEF Execute

LEMMA StutterInv == IInv /\ UNCHANGED vars => StepKeeps
<1> SUFFICES ASSUME IInv, UNCHANGED vars PROVE StepKeeps
  OBVIOUS
<1>1. NoIdReused(chain.market, chain.market)
  BY IInvParts, SoundMarket
<1> QED BY <1>1, IInvParts, IInvPartsPrime DEF vars, StepKeeps

LEMMA NextInv == IInv /\ [Next]_vars => StepKeeps
BY InitializeInv, CollectAccruedFeesInv, InstructionInv, ExecuteInv, StutterInv DEF Next

(* The program's accounts, locals and ids are sound in every reachable     *)
(* state, whatever orders arrive and however an instruction ends.          *)
THEOREM Invariance == Spec => []IInv
<1>1. IInv /\ [Next]_vars => IInv'
  BY NextInv DEF StepKeeps
<1> QED BY <1>1, InitInv, PTL DEF Spec

(* Every balance, price, size and deposit total stays in the range of its  *)
(* machine word, through every fill, release, payout and revert.           *)
THEOREM TypeCorrect == Spec => []TypeOK
<1>1. IInv => TypeOK
  BY DEF IInv
<1> QED BY <1>1, Invariance, PTL

(* The vaults hold exactly the deposited lots, in atoms, before, inside    *)
(* and after every instruction, a swap's pull-in and pay-out included.     *)
THEOREM VaultsAlwaysHoldDeposits == Spec => []VaultsHoldDeposits
<1>1. IInv => VaultsHoldDeposits
  BY DEF IInv
<1> QED BY <1>1, Invariance, PTL

(* No two orders of a side share an id: the priority order is total.       *)
THEOREM IdsAlwaysUnique == Spec => []OrderIdsUnique
<1>1. IInv => OrderIdsUnique
  BY DEF IInv
<1> QED BY <1>1, Invariance, PTL

(* An id that has left the committed book never names an order again.      *)
THEOREM StaleIdsNeverNameAnOrder == Spec => StaleIdsStayDead
<1>1. IInv /\ [Next]_vars => [NoIdReused(chain.market, chain'.market)]_vars
  BY NextInv DEF StepKeeps
<1> QED BY <1>1, Invariance, PTL DEF Spec, StaleIdsStayDead

-----------------------------------------------------------------------------
(* The ledger: no instruction, and no step of one, creates or loses a lot; *)
(* what is locked is what the resting orders need; whoever owns something  *)
(* can leave.                                                              *)
(*                                                                         *)
(* LedgerInv (module Clob) is inductive where no order that may rest is a  *)
(* bid at zero ticks (PricedOrders).  Market_proofs shows that each        *)
(* operation keeps a market balanced; the lemmas here add what they need   *)
(* of a running instruction: its seat stays held and every price it may    *)
(* post at is positive.                                                    *)

(* The parts of LedgerInv about a running instruction. *)
LocalsFit(st, r, m) ==
  /\ st # "idle" /\ r.seat # NoSeat => SeatLive(m, r.seat)
  /\ \A i \in DOMAIN r.packets : RestsPriced(r.packets[i])
  /\ (st = "cross" /\ r.posts /\ r.taker.side = "Bid") => r.taker.limit # 0

LEMMA LedgerParts ==
  LedgerInv <=> /\ IInv
                /\ Balanced(chain.market)
                /\ Balanced(work.market)
                /\ LocalsFit(stage, run, work.market)
BY DEF LedgerInv, LocalsFit, Markets

LEMMA LedgerPartsPrime ==
  LedgerInv' <=> /\ IInv'
                 /\ Balanced(chain'.market)
                 /\ Balanced(work'.market)
                 /\ LocalsFit(stage', run', work'.market)
BY DEF LedgerInv, LocalsFit, Markets

(* What every step must show, besides that it keeps IInv. *)
StaysBalanced ==
  /\ Balanced(chain'.market)
  /\ Balanced(work'.market)
  /\ LocalsFit(stage', run', work'.market)

LEMMA LedgerMarkets ==
  ASSUME LedgerInv
  PROVE  /\ IInv
         /\ WellFormed(chain.market) /\ Balanced(chain.market)
         /\ chain.market \in MarketType
         /\ WellFormed(work.market) /\ Balanced(work.market)
         /\ work.market \in MarketType
BY LedgerParts, IInvParts, SoundMarket

LEMMA SeatLiveSame ==
  ASSUME NEW m, NEW n, n.seat_of = m.seat_of, NEW s
  PROVE  SeatLive(n, s) <=> SeatLive(m, s)
BY DEF SeatLive

-----------------------------------------------------------------------------
(* The shapes an action ends in. *)

LEMMA ApplyBalanced ==
  ASSUME LedgerInv, stage = "idle", NEW accounts, Balanced(accounts.market), Apply(accounts)
  PROVE  StaysBalanced
<1>1. stage' = stage /\ run' = run /\ chain' = accounts /\ work' = accounts
  BY DEF Apply
<1> QED BY <1>1, LedgerParts DEF StaysBalanced, LocalsFit

LEMMA ApplyMarketBalanced ==
  ASSUME LedgerInv, stage = "idle", NEW m, Balanced(m), Apply([chain EXCEPT !.market = m])
  PROVE  StaysBalanced
<1>1. [chain EXCEPT !.market = m].market = m
  BY LedgerMarkets, IInvParts DEF Sound, Accounts
<1> QED BY <1>1, ApplyBalanced

LEMMA ApplyTransferBalanced ==
  ASSUME LedgerInv, stage = "idle", NEW base, NEW quote, NEW m, Balanced(m),
         Apply([Transfer(chain, base, quote) EXCEPT !.market = m])
  PROVE  StaysBalanced
<1>1. [Transfer(chain, base, quote) EXCEPT !.market = m].market = m
  BY LedgerMarkets, IInvParts DEF Transfer, Sound, Accounts
<1> QED BY <1>1, ApplyBalanced

LEMMA BeginBalanced ==
  ASSUME LedgerInv, NEW st, NEW locals, LocalsFit(st, locals, chain.market), Begin(st, locals)
  PROVE  StaysBalanced
BY LedgerParts DEF Begin, StaysBalanced

LEMMA ProceedBalanced ==
  ASSUME LedgerInv, NEW m, Balanced(m), NEW st, NEW locals, LocalsFit(st, locals, m),
         Proceed(m, st, locals)
  PROVE  StaysBalanced
<1>1. /\ stage' = st /\ run' = locals /\ chain' = chain
      /\ work' = [work EXCEPT !.market = m]
  BY DEF Proceed
<1>2. work'.market = m
  BY <1>1, LedgerMarkets, IInvParts DEF Sound, Accounts
<1> QED BY <1>1, <1>2, LedgerParts DEF StaysBalanced

LEMMA IdleFits == \A m : LocalsFit("idle", NothingRunning, m)
BY DEF LocalsFit, NothingRunning

LEMMA CommitBalanced ==
  ASSUME NEW accounts, Balanced(accounts.market), Commit(accounts)
  PROVE  StaysBalanced
BY IdleFits DEF Commit, Return, StaysBalanced

LEMMA RevertBalanced ==
  ASSUME LedgerInv, Revert
  PROVE  StaysBalanced
<1>1. stage' = "idle" /\ run' = NothingRunning /\ chain' = chain /\ work' = chain
  BY DEF Revert, Return
<1> QED BY <1>1, LedgerParts, IdleFits DEF StaysBalanced

-----------------------------------------------------------------------------
(* Instructions that run in one step. *)

LEMMA InitBalanced == Init => LedgerInv
<1> SUFFICES ASSUME Init PROVE LedgerInv
  OBVIOUS
<1>1. chain.market = NewMarket /\ work.market = NewMarket /\ stage = "idle"
      /\ run = NothingRunning
  BY DEF Init
<1> QED BY <1>1, InitInv, NewMarketBalanced, IdleFits, LedgerParts

LEMMA InitializeBalanced == LedgerInv /\ Initialize => StaysBalanced
<1> SUFFICES ASSUME LedgerInv, Initialize PROVE StaysBalanced
  OBVIOUS
<1>1. [chain EXCEPT !.initialized = TRUE].market = chain.market
  BY LedgerMarkets, IInvParts DEF Sound, Accounts
<1> QED BY <1>1, LedgerMarkets, ApplyBalanced DEF Initialize

LEMMA ClaimASeatBalanced == \A t \in Traders : LedgerInv /\ ClaimASeat(t) => StaysBalanced
<1> SUFFICES ASSUME NEW t \in Traders, LedgerInv, ClaimASeat(t) PROVE StaysBalanced
  OBVIOUS
<1> DEFINE m == ClaimSeat(chain.market, t)
<1>1. Balanced(m)
  BY LedgerMarkets, ClaimSeatBalanced DEF ClaimASeat
<1>2. Apply([chain EXCEPT !.market = m]) /\ stage = "idle"
  BY DEF ClaimASeat, Ready
<1> HIDE DEF m
<1> QED BY <1>1, <1>2, ApplyMarketBalanced

LEMMA EvictSeatBalanced == \A t \in Traders : LedgerInv /\ EvictSeat(t) => StaysBalanced
<1> SUFFICES ASSUME NEW t \in Traders, LedgerInv, EvictSeat(t) PROVE StaysBalanced
  OBVIOUS
<1> DEFINE m == ReleaseSeat(chain.market, t)
<1>1. Balanced(m)
  BY LedgerMarkets, ReleaseSeatBalanced DEF EvictSeat
<1>2. Apply([chain EXCEPT !.market = m]) /\ stage = "idle"
  BY DEF EvictSeat, Ready
<1> HIDE DEF m
<1> QED BY <1>1, <1>2, ApplyMarketBalanced

(* A claimed seat, and the lots a deposit or a swap puts on it. *)
LEMMA ClaimAndDepositBalanced ==
  ASSUME LedgerInv, NEW t \in Traders, CanClaimSeat(chain.market, t),
         NEW base \in Int, NEW quote \in Int,
         NEW m, m = ClaimSeat(chain.market, t),
         CanDeposit(m, m.seat_of[t], base, quote)
  PROVE  /\ Balanced(Deposit(m, m.seat_of[t], base, quote))
         /\ SeatLive(Deposit(m, m.seat_of[t], base, quote), m.seat_of[t])
<1> DEFINE s == m.seat_of[t]
           n == Deposit(m, s, base, quote)
<1>1. Keeps(chain.market, m) /\ s \in Seats
  BY LedgerMarkets, ClaimSeatKeeps
<1>2. Balanced(m) /\ SeatLive(m, s)
  BY LedgerMarkets, ClaimSeatBalanced
<1>3. WellFormed(m) /\ m \in MarketType
  BY <1>1 DEF Keeps, WellFormed
<1>4. n.seat_of = m.seat_of
  BY <1>3 DEF Deposit, MarketType
<1> HIDE DEF s
<1>5. Balanced(n)
  BY <1>1, <1>2, <1>3, DepositBalanced DEF s
<1> QED BY <1>2, <1>4, <1>5 DEF SeatLive, s

LEMMA DepositFundsBalanced ==
  \A t \in Traders : \A base, quote \in Amounts :
    LedgerInv /\ DepositFunds(t, base, quote) => StaysBalanced
<1> SUFFICES ASSUME NEW t \in Traders, NEW base \in Amounts, NEW quote \in Amounts,
                    LedgerInv, DepositFunds(t, base, quote)
             PROVE  StaysBalanced
  OBVIOUS
<1> DEFINE m == ClaimSeat(chain.market, t)
           n == Deposit(m, m.seat_of[t], base, quote)
<1>1. Balanced(n)
  BY ClaimAndDepositBalanced, AmountsAreInts DEF DepositFunds
<1>2. Apply([Transfer(chain, base, quote) EXCEPT !.market = n]) /\ stage = "idle"
  BY DEF DepositFunds, Ready
<1> HIDE DEF n
<1> QED BY <1>1, <1>2, ApplyTransferBalanced

LEMMA WithdrawFundsBalanced ==
  \A t \in Traders : \A base, quote \in Amounts :
    LedgerInv /\ WithdrawFunds(t, base, quote) => StaysBalanced
<1> SUFFICES ASSUME NEW t \in Traders, NEW base \in Amounts, NEW quote \in Amounts,
                    LedgerInv, WithdrawFunds(t, base, quote)
             PROVE  StaysBalanced
  OBVIOUS
<1> DEFINE s == SeatOf(t)
           n == Withdraw(chain.market, s, base, quote)
<1>1. CanWithdraw(chain.market, s, base, quote)
  BY DEF WithdrawFunds
<1>2. s \in Seats /\ SeatLive(chain.market, s)
  <2>1. s \in 0 .. NumSeats /\ s # NoSeat
    BY <1>1, SeatOfTyped, LedgerMarkets DEF CanWithdraw, CanDeposit
  <2>2. SeatLive(chain.market, s)
    BY DEF SeatLive, SeatOf
  <2> QED BY <2>1, <2>2 DEF Seats, NoSeat
<1> HIDE DEF s
<1>3. Balanced(n)
  BY <1>1, <1>2, AmountsAreInts, LedgerMarkets, WithdrawBalanced
<1>4. Apply([Transfer(chain, -base, -quote) EXCEPT !.market = n]) /\ stage = "idle"
  BY DEF WithdrawFunds, Transfer, Ready, s
<1> HIDE DEF n
<1> QED BY <1>3, <1>4, ApplyTransferBalanced

LEMMA CollectAccruedFeesBalanced == LedgerInv /\ CollectAccruedFees => StaysBalanced
<1> SUFFICES ASSUME LedgerInv, CollectAccruedFees PROVE StaysBalanced
  OBVIOUS
<1> DEFINE n == CollectFees(chain.market)
           out == -chain.market.unclaimed_fees
<1>1. Balanced(n)
  BY LedgerMarkets, CollectFeesBalanced DEF CollectAccruedFees
<1>2. Apply([Transfer(chain, 0, out) EXCEPT !.market = n]) /\ stage = "idle"
  BY DEF CollectAccruedFees, Transfer, Ready
<1> HIDE DEF n, out
<1> QED BY <1>1, <1>2, ApplyTransferBalanced

LEMMA ReduceOrderBalanced ==
  \A t \in Traders : \A id \in KnownIds : \A lots \in U64 :
    LedgerInv /\ ReduceOrder(t, id, lots) => StaysBalanced
<1> SUFFICES ASSUME NEW t \in Traders, NEW id \in KnownIds, NEW lots \in U64,
                    LedgerInv, ReduceOrder(t, id, lots)
             PROVE  StaysBalanced
  OBVIOUS
<1>1. PICK h \in Found(chain.market, id) :
        LET o == chain.market.book[id.side][h]
            removed == MinOf(o.size, lots)
        IN  /\ CanRelease(chain.market, id.side, h, removed)
            /\ Apply([chain EXCEPT !.market = Release(@, id.side, h, removed)])
  BY DEF ReduceOrder
<1> DEFINE o == chain.market.book[id.side][h]
           removed == MinOf(o.size, lots)
           n == Release(chain.market, id.side, h, removed)
<1>2. id.side \in Sides /\ h \in LiveSlots(chain.market, id.side) /\ o.size \in Nat
  BY FoundLive, KnownIdsTyped, LedgerMarkets
<1>3. removed \in 0 .. o.size
  <2>1. lots \in Nat
    BY DEF U64
  <2> HIDE DEF o
  <2> QED BY <1>2, <2>1 DEF MinOf
<1>4. Balanced(n)
  <2>1. WellFormed(chain.market) /\ Balanced(chain.market)
    BY LedgerMarkets
  <2>2. CanRelease(chain.market, id.side, h, removed)
    BY ONLY <1>1
  <2> HIDE DEF removed
  <2> QED BY ONLY <1>2, <1>3, <2>1, <2>2, ReleaseBalanced
<1>5. Apply([chain EXCEPT !.market = n]) /\ stage = "idle"
  BY <1>1 DEF ReduceOrder, Ready
<1> HIDE DEF n
<1> QED BY <1>4, <1>5, ApplyMarketBalanced

LEMMA CancelOrderBalanced ==
  \A t \in Traders : \A id \in KnownIds : LedgerInv /\ CancelOrder(t, id) => StaysBalanced
<1> SUFFICES ASSUME NEW t \in Traders, NEW id \in KnownIds, LedgerInv, CancelOrder(t, id)
             PROVE  StaysBalanced
  OBVIOUS
<1>1. PICK h \in Found(chain.market, id) :
        LET o == chain.market.book[id.side][h]
        IN  /\ CanRelease(chain.market, id.side, h, o.size)
            /\ Apply([chain EXCEPT !.market = Release(@, id.side, h, o.size)])
  BY DEF CancelOrder
<1> DEFINE o == chain.market.book[id.side][h]
           n == Release(chain.market, id.side, h, o.size)
<1>2. id.side \in Sides /\ h \in LiveSlots(chain.market, id.side) /\ o.size \in 0 .. o.size
  BY FoundLive, KnownIdsTyped, LedgerMarkets
<1>3. Balanced(n)
  <2>1. WellFormed(chain.market) /\ Balanced(chain.market)
    BY LedgerMarkets
  <2>2. CanRelease(chain.market, id.side, h, o.size)
    BY ONLY <1>1
  <2> QED BY ONLY <1>2, <2>1, <2>2, ReleaseBalanced
<1>4. Apply([chain EXCEPT !.market = n]) /\ stage = "idle"
  BY <1>1 DEF CancelOrder, Ready
<1> HIDE DEF n
<1> QED BY <1>3, <1>4, ApplyMarketBalanced

-----------------------------------------------------------------------------
(* Instructions that loop: how each begins. *)

LEMMA SeatOfLive ==
  ASSUME NEW t \in Traders
  PROVE  SeatLive(chain.market, SeatOf(t))
BY DEF SeatLive, SeatOf

(* Locals that hold a trader's own seat and priced packets, at a stage     *)
(* other than the cross loop.                                              *)
LEMMA FreshLocalsFit ==
  ASSUME NEW st, st # "cross", NEW m, NEW r, SeatLive(m, r.seat),
         \A i \in DOMAIN r.packets : RestsPriced(r.packets[i])
  PROVE  LocalsFit(st, r, m)
BY DEF LocalsFit

LEMMA PlaceOrderBalanced ==
  ASSUME PricedOrders
  PROVE  \A t \in Traders : \A packet \in Packets :
           LedgerInv /\ PlaceOrder(t, packet) => StaysBalanced
<1> SUFFICES ASSUME NEW t \in Traders, NEW packet \in Packets,
                    LedgerInv, PlaceOrder(t, packet)
             PROVE  StaysBalanced
  OBVIOUS
<1> DEFINE ps == <<packet>>
           locals == [NothingRunning EXCEPT !.seat = SeatOf(t), !.packets = ps]
<1>1. \A i \in DOMAIN ps : RestsPriced(ps[i])
  BY DEF PricedOrders
<1>2. Begin("packets", locals)
  BY DEF PlaceOrder
<1> HIDE DEF ps
<1>3. locals.seat = SeatOf(t) /\ locals.packets = ps
  BY DEF NothingRunning
<1> HIDE DEF locals
<1>4. LocalsFit("packets", locals, chain.market)
  BY <1>1, <1>3, SeatOfLive, FreshLocalsFit
<1> QED BY <1>2, <1>4, BeginBalanced

LEMMA BatchUpdateBalanced ==
  ASSUME PricedOrders
  PROVE  \A t \in Traders : \A ids \in SUBSET KnownIds : \A ladder \in Ladders :
           LedgerInv /\ BatchUpdate(t, ids, ladder) => StaysBalanced
<1> SUFFICES ASSUME NEW t \in Traders, NEW ids \in SUBSET KnownIds, NEW ladder \in Ladders,
                    LedgerInv, BatchUpdate(t, ids, ladder)
             PROVE  StaysBalanced
  OBVIOUS
<1> DEFINE locals == [NothingRunning EXCEPT !.seat = SeatOf(t), !.cancels = ids,
                                            !.packets = ladder]
<1>1. \A i \in DOMAIN ladder : RestsPriced(ladder[i])
  BY DEF PricedOrders
<1>2. Begin("cancels", locals)
  BY DEF BatchUpdate
<1>3. locals.seat = SeatOf(t) /\ locals.packets = ladder
  BY DEF NothingRunning
<1> HIDE DEF locals
<1>4. LocalsFit("cancels", locals, chain.market)
  BY <1>1, <1>3, SeatOfLive, FreshLocalsFit
<1> QED BY <1>2, <1>4, BeginBalanced

LEMMA CancelAllBalanced ==
  \A t \in Traders : \A side \in Sides : \A limit \in CancelLimits :
    LedgerInv /\ CancelAll(t, side, limit) => StaysBalanced
<1> SUFFICES ASSUME NEW t \in Traders, NEW side \in Sides, NEW limit \in CancelLimits,
                    LedgerInv, CancelAll(t, side, limit)
             PROVE  StaysBalanced
  OBVIOUS
<1> DEFINE locals == [NothingRunning EXCEPT !.seat = SeatOf(t), !.cancel_side = side,
                                            !.cancel_limit = limit]
<1>1. Begin("cancel_all", locals)
  BY DEF CancelAll
<1>2. locals.seat = SeatOf(t) /\ locals.packets = <<>>
  BY DEF NothingRunning
<1> HIDE DEF locals
<1>3. LocalsFit("cancel_all", locals, chain.market)
  BY <1>2, SeatOfLive, FreshLocalsFit
<1> QED BY <1>1, <1>3, BeginBalanced

(* A swap's order never rests, so it needs no price assumption. *)
LEMMA SwapBalanced ==
  \A t \in Traders : \A swap \in Swaps : LedgerInv /\ Swap(t, swap) => StaysBalanced
<1> SUFFICES ASSUME NEW t \in Traders, NEW swap \in Swaps, LedgerInv, Swap(t, swap)
             PROVE  StaysBalanced
  OBVIOUS
<1> DEFINE m == ClaimSeat(chain.market, t)
           s == m.seat_of[t]
           in == SwapInput(swap)
           n == Deposit(m, s, in.base, in.quote)
           ps == <<SwapPacket(swap)>>
           sw == [active |-> TRUE, created |-> SeatOf(t) = NoSeat,
                  base |-> m.state[s].base_free, quote |-> m.state[s].quote_free]
           locals == [NothingRunning EXCEPT !.seat = s, !.packets = ps, !.swap = sw]
           new == [Transfer(chain, in.base, in.quote) EXCEPT !.market = n]
<1>1. in.base \in Int /\ in.quote \in Int
  BY SwapTyped
<1>2. CanClaimSeat(chain.market, t) /\ CanDeposit(m, s, in.base, in.quote)
  BY DEF Swap
<1>3. /\ work' = new /\ stage' = "packets" /\ run' = locals /\ chain' = chain
  BY DEF Swap
<1>4. Balanced(n) /\ SeatLive(n, s)
  <2> HIDE DEF in
  <2> QED BY <1>1, <1>2, ClaimAndDepositBalanced
<1>5. \A i \in DOMAIN ps : RestsPriced(ps[i])
  BY DEF RestsPriced, SwapPacket
<1> HIDE DEF sw, ps, s, n
<1>6. locals.seat = s /\ locals.packets = ps
  BY DEF NothingRunning
<1>7. new.market = n
  BY LedgerMarkets, IInvParts DEF Transfer, Sound, Accounts
<1> HIDE DEF new, locals
<1>8. LocalsFit("packets", locals, n)
  BY <1>4, <1>5, <1>6, FreshLocalsFit
<1> QED BY <1>3, <1>4, <1>7, <1>8, LedgerMarkets DEF StaysBalanced

-----------------------------------------------------------------------------
(* Steps of a running instruction. *)

(* A step that leaves the seat, the packets and the seat table alone.      *)
LEMMA SameLocalsFit ==
  ASSUME LedgerInv, stage # "idle", NEW n, n.seat_of = work.market.seat_of,
         NEW st, st # "cross", NEW r, r.seat = run.seat, r.packets = run.packets
  PROVE  LocalsFit(st, r, n)
BY LedgerParts, SeatLiveSame DEF LocalsFit

LEMMA CancelListedBalanced ==
  LedgerInv /\ (\E id \in run.cancels : CancelListed(id)) => StaysBalanced
<1> SUFFICES ASSUME LedgerInv, NEW id \in run.cancels, CancelListed(id)
             PROVE  StaysBalanced
  OBVIOUS
<1> DEFINE rest == [run EXCEPT !.cancels = @ \ {id}]
<1>1. rest.seat = run.seat /\ rest.packets = run.packets /\ stage = "cancels"
  BY RunFields, LedgerMarkets DEF RunType, CancelListed
<1> HIDE DEF rest
<1>2. CASE Proceed(work.market, stage, rest)
  BY <1>1, <1>2, LedgerMarkets, SameLocalsFit, ProceedBalanced
<1>3. CASE \E h \in Found(work.market, id) :
             Proceed(Release(work.market, id.side, h, work.market.book[id.side][h].size),
                     stage, rest)
  <2>1. PICK h \in Found(work.market, id) :
             Proceed(Release(work.market, id.side, h, work.market.book[id.side][h].size),
                     stage, rest)
    BY <1>3
  <2> DEFINE size == work.market.book[id.side][h].size
             n == Release(work.market, id.side, h, size)
  <2>2. CanRelease(work.market, id.side, h, size)
    BY DEF CancelListed, CancelFails
  <2>3. id.side \in Sides /\ h \in LiveSlots(work.market, id.side) /\ size \in 0 .. size
    <3>1. id \in OrderIds
      BY RunFields, LedgerMarkets
    <3> QED BY <3>1, FoundLive, LedgerMarkets
  <2>4. Balanced(n) /\ n.seat_of = work.market.seat_of
    BY <2>2, <2>3, LedgerMarkets, ReleaseBalanced
  <2>5. Proceed(n, stage, rest)
    BY <2>1
  <2> HIDE DEF n
  <2> QED BY <1>1, <2>4, <2>5, SameLocalsFit, ProceedBalanced
<1> QED BY <1>2, <1>3 DEF CancelListed, rest

LEMMA CancelsDoneBalanced == LedgerInv /\ CancelsDone => StaysBalanced
<1> SUFFICES ASSUME LedgerInv, CancelsDone PROVE StaysBalanced
  OBVIOUS
<1>1. stage = "cancels" /\ Proceed(work.market, "packets", run)
  BY DEF CancelsDone
<1> QED BY <1>1, LedgerMarkets, SameLocalsFit, ProceedBalanced

LEMMA CancelNextBalanced == LedgerInv /\ CancelNext => StaysBalanced
<1> SUFFICES ASSUME LedgerInv, CancelNext PROVE StaysBalanced
  OBVIOUS
<1> DEFINE n == Release(work.market, run.cancel_side, OwnBest, OwnBestSize)
           locals == [run EXCEPT !.cancel_limit = @ - 1]
<1>1. run.cancel_side \in Sides
  BY RunFields, LedgerMarkets
<1>2. /\ OwnSlots(work.market, run.cancel_side, run.seat) # {}
      /\ CanRelease(work.market, run.cancel_side, OwnBest, OwnBestSize)
  BY DEF CancelNext, SweepGoesOn, SweepFails
<1>3. OwnBest \in LiveSlots(work.market, run.cancel_side)
  <2>1. OwnSlots(work.market, run.cancel_side, run.seat)
          \in SUBSET LiveSlots(work.market, run.cancel_side)
    BY DEF OwnSlots
  <2> QED BY <1>1, <1>2, <2>1, LedgerMarkets, BestExists DEF OwnBest, WellFormed
<1>4. OwnBestSize \in 0 .. work.market.book[run.cancel_side][OwnBest].size
  BY <1>1, <1>3, LedgerMarkets, LiveSlotFacts, OrderFields DEF OwnBestSize
<1>5. Balanced(n) /\ n.seat_of = work.market.seat_of
  BY <1>1, <1>2, <1>3, <1>4, LedgerMarkets, ReleaseBalanced
<1>6. locals.seat = run.seat /\ locals.packets = run.packets /\ stage = "cancel_all"
  BY RunFields, LedgerMarkets DEF RunType, CancelNext
<1>7. Proceed(n, stage, locals)
  BY DEF CancelNext
<1> HIDE DEF n, locals
<1> QED BY <1>5, <1>6, <1>7, SameLocalsFit, ProceedBalanced

LEMMA CommitWorkBalanced == LedgerInv /\ (CancelAllDone \/ OrdersDone) => StaysBalanced
BY CommitBalanced, LedgerMarkets DEF CancelAllDone, OrdersDone

LEMMA InstructionFailsBalanced == LedgerInv /\ InstructionFails => StaysBalanced
BY RevertBalanced DEF InstructionFails

-----------------------------------------------------------------------------
(* Steps of Market::place_order. *)

(* The packet at the head of the queue, and those behind it, are priced.   *)
LEMMA QueuePriced ==
  ASSUME LedgerInv, run.packets # <<>>
  PROVE  /\ RestsPriced(Packet)
         /\ \A i \in DOMAIN Tail(run.packets) : RestsPriced(Tail(run.packets)[i])
<1>1. run.packets \in Seq(OrderPacket)
  BY RunFields, LedgerMarkets
<1>2. \A i \in DOMAIN run.packets : RestsPriced(run.packets[i])
  BY LedgerParts DEF LocalsFit
<1>3. 1 \in DOMAIN run.packets /\ Packet = run.packets[1]
  BY <1>1 DEF Packet
<1>4. ASSUME NEW i \in DOMAIN Tail(run.packets)
      PROVE  i + 1 \in DOMAIN run.packets /\ Tail(run.packets)[i] = run.packets[i + 1]
  BY <1>1
<1> QED BY <1>2, <1>3, <1>4

LEMMA RunningSeatLive ==
  ASSUME LedgerInv, stage # "idle", run.seat # NoSeat
  PROVE  run.seat \in Seats /\ SeatLive(work.market, run.seat)
BY LedgerParts, RunFields DEF LocalsFit, Seats, NoSeat

LEMMA PlacePostOnlyBalanced == LedgerInv /\ PlacePostOnly => StaysBalanced
<1> SUFFICES ASSUME LedgerInv, PlacePostOnly PROVE StaysBalanced
  OBVIOUS
<1> DEFINE n == Post(work.market, run.seat, Packet.side, PostOnlyPrice, Packet.size)
           rest == Tail(run.packets)
           locals == [run EXCEPT !.packets = rest]
<1>1. /\ stage = "packets" /\ run.packets # <<>> /\ Packet.kind = "PostOnly"
      /\ run.seat # NoSeat /\ CanPostOnly /\ Packet.size > 0
  BY DEF PlacePostOnly, PacketFails
<1>2. /\ Packet.side \in Sides /\ Packet.size \in U64
      /\ Packet.price \in U64 \cup {NoPrice} /\ Packet.price # NoPrice
  BY <1>1, PacketTyped, LedgerMarkets
<1>3. PostOnlyPrice \in U64
  <2>1. PostOnlyPrice \in U64 \cup {NoPrice}
    BY <1>2, NonCrossingPriceType DEF PostOnlyPrice
  <2> QED BY <1>1, <2>1 DEF CanPostOnly
<1>4. Packet.side = "Bid" => PostOnlyPrice > 0
  <2>1. Packet.side = "Bid" => Packet.price # 0
    BY <1>1, QueuePriced DEF RestsPriced
  <2>2. PostOnlyPrice = Packet.price \/ PostOnlyPrice \in U64 \ {0} \/ PostOnlyPrice = NoPrice
    BY DEF PostOnlyPrice, NonCrossingPrice
  <2>3. PostOnlyPrice # NoPrice
    BY <1>1 DEF CanPostOnly
  <2> QED BY <1>3, <2>1, <2>2, <2>3 DEF U64
<1>5. run.seat \in Seats /\ SeatLive(work.market, run.seat)
  BY <1>1, RunningSeatLive
<1>6. Balanced(n) /\ n.seat_of = work.market.seat_of
  BY <1>1, <1>2, <1>3, <1>4, <1>5, LedgerMarkets, PostBalanced DEF CanPostOnly
<1>7. \A i \in DOMAIN rest : RestsPriced(rest[i])
  BY <1>1, QueuePriced
<1> HIDE DEF rest
<1>8. locals.seat = run.seat /\ locals.packets = rest
  BY RunFields, LedgerMarkets DEF RunType
<1>9. Proceed(n, "packets", locals)
  BY <1>1 DEF PlacePostOnly, rest
<1> HIDE DEF n, locals
<1>10. LocalsFit("packets", locals, n)
  BY <1>5, <1>6, <1>7, <1>8, SeatLiveSame, FreshLocalsFit
<1> QED BY <1>6, <1>9, <1>10, ProceedBalanced

LEMMA StartCrossBalanced == LedgerInv /\ StartCross => StaysBalanced
<1> SUFFICES ASSUME LedgerInv, StartCross PROVE StaysBalanced
  OBVIOUS
<1> DEFINE rest == Tail(run.packets)
           posts == Packet.kind = "Limit"
           min_fill == IF Packet.kind = "Limit" THEN 0 ELSE Packet.min_fill
           taker == [seat |-> run.seat, side |-> Packet.side,
                     limit |-> Packet.price, remaining |-> Packet.size,
                     filled |-> 0, touched |-> 0,
                     match_limit |-> Packet.match_limit,
                     self_trade |-> Packet.self_trade]
           locals == [run EXCEPT !.packets = rest, !.posts = posts,
                                 !.min_fill = min_fill, !.taker = taker]
<1>1. /\ stage = "packets" /\ run.packets # <<>> /\ run.seat # NoSeat
  BY DEF StartCross, PacketFails
<1>2. /\ RestsPriced(Packet)
      /\ \A i \in DOMAIN rest : RestsPriced(rest[i])
  BY <1>1, QueuePriced
<1>3. taker.side = Packet.side /\ taker.limit = Packet.price
  OBVIOUS
<1>4. posts /\ taker.side = "Bid" => taker.limit # 0
  BY <1>2, <1>3 DEF RestsPriced
<1>5. Proceed(work.market, "cross", locals)
  BY DEF StartCross
<1>6. SeatLive(work.market, run.seat)
  BY <1>1, RunningSeatLive
<1> HIDE DEF rest, posts, min_fill, taker
<1>7. /\ locals.seat = run.seat /\ locals.packets = rest
      /\ locals.posts = posts /\ locals.taker = taker
  BY RunFields, LedgerMarkets DEF RunType
<1> HIDE DEF locals
<1>8. LocalsFit("cross", locals, work.market)
  <2>1. CASE posts
    BY <1>2, <1>4, <1>6, <1>7, <2>1 DEF LocalsFit
  <2>2. CASE ~ posts
    BY <1>2, <1>6, <1>7, <2>2 DEF LocalsFit
  <2> QED BY <2>1, <2>2
<1> QED BY <1>5, <1>8, LedgerMarkets, ProceedBalanced

(* The next pass of the cross loop. *)
LEMMA NextPassBalanced ==
  ASSUME LedgerInv, stage = "cross", NEW k, k.side = run.taker.side, k.limit = run.taker.limit,
         NEW n, Balanced(n), n.seat_of = work.market.seat_of,
         Proceed(n, stage, [run EXCEPT !.taker = k])
  PROVE  StaysBalanced
<1> DEFINE locals == [run EXCEPT !.taker = k]
<1>1. /\ locals.seat = run.seat /\ locals.packets = run.packets
      /\ locals.posts = run.posts /\ locals.taker = k
  BY RunFields, LedgerMarkets DEF RunType
<1>2. Proceed(n, stage, locals)
  OBVIOUS
<1> HIDE DEF locals
<1>3. LocalsFit(stage, locals, n)
  BY <1>1, LedgerParts, SeatLiveSame DEF LocalsFit
<1> QED BY <1>2, <1>3, ProceedBalanced

LEMMA FillBestBalanced == LedgerInv /\ FillBest => StaysBalanced
<1> SUFFICES ASSUME LedgerInv, FillBest PROVE StaysBalanced
  OBVIOUS
<1> DEFINE k == AfterFill(work.market, run.taker)
           n == Fill(work.market, run.taker)
<1>1. /\ stage = "cross" /\ Reaches(work.market, run.taker)
      /\ ~ IsSelfTrade(work.market, run.taker) /\ CanSettle(work.market, run.taker)
  BY DEF FillBest, FillsNext
<1>2. /\ run.taker \in Taker /\ run.taker.seat \in Seats
      /\ SeatLive(work.market, run.taker.seat)
  BY <1>1, CrossFields, RunningSeatLive, LedgerMarkets DEF Seats, NoSeat
<1>3. Balanced(n) /\ n.seat_of = work.market.seat_of
  BY <1>1, <1>2, LedgerMarkets, FillBalanced
<1>4. k.side = run.taker.side /\ k.limit = run.taker.limit
  BY <1>2 DEF AfterFill, Taker
<1>5. Proceed(n, stage, [run EXCEPT !.taker = k])
  BY DEF FillBest
<1> HIDE DEF n, k
<1> QED BY <1>1, <1>3, <1>4, <1>5, NextPassBalanced

LEMMA SelfTradeBalanced == LedgerInv /\ SelfTrade => StaysBalanced
<1> SUFFICES ASSUME LedgerInv, SelfTrade PROVE StaysBalanced
  OBVIOUS
<1> DEFINE k == AfterSelfTrade(work.market, run.taker)
           size == SelfTradeSize(work.market, run.taker)
           n == ResolveSelfTrade(work.market, run.taker)
<1>1. /\ stage = "cross" /\ Reaches(work.market, run.taker)
      /\ CanResolveSelfTrade(work.market, run.taker)
  BY DEF SelfTrade
<1>2. /\ run.taker \in Taker /\ run.taker.remaining \in Nat
      /\ MakerSide(run.taker) \in Sides
      /\ MakerSlot(work.market, run.taker) \in LiveSlots(work.market, MakerSide(run.taker))
      /\ Maker(work.market, run.taker).size \in Nat
  BY <1>1, RunFields, LedgerMarkets, MakerFacts DEF Reaches, Taker, U64
<1>3. size \in 0 .. Maker(work.market, run.taker).size
  BY <1>2 DEF SelfTradeSize, MinOf
<1>4. Balanced(n) /\ n.seat_of = work.market.seat_of
  <2>1. CanRelease(work.market, MakerSide(run.taker), MakerSlot(work.market, run.taker), size)
    BY <1>1 DEF CanResolveSelfTrade
  <2>2. size \in 0 .. work.market.book[MakerSide(run.taker)]
                                      [MakerSlot(work.market, run.taker)].size
    BY <1>3 DEF Maker
  <2> QED BY <1>2, <2>1, <2>2, LedgerMarkets, ReleaseBalanced DEF ResolveSelfTrade
<1>5. k.side = run.taker.side /\ k.limit = run.taker.limit
  BY <1>2 DEF AfterSelfTrade, Taker
<1>6. Proceed(n, stage, [run EXCEPT !.taker = k])
  BY DEF SelfTrade
<1> HIDE DEF n, k
<1> QED BY <1>1, <1>4, <1>5, <1>6, NextPassBalanced

LEMMA RestRemainderBalanced == LedgerInv /\ RestRemainder => StaysBalanced
<1> SUFFICES ASSUME LedgerInv, RestRemainder PROVE StaysBalanced
  OBVIOUS
<1> DEFINE n == Post(work.market, run.seat, run.taker.side, run.taker.limit,
                     run.taker.remaining)
           locals == [run EXCEPT !.taker = NoTaker, !.posts = FALSE]
<1>1. stage = "cross" /\ run.posts /\ run.taker.remaining > 0 /\ CanRestRemainder
  BY DEF RestRemainder, RestsRemainder
<1>2. /\ run.seat \in Seats /\ SeatLive(work.market, run.seat)
      /\ run.taker.side \in Sides /\ run.taker.limit \in U64 /\ run.taker.remaining \in U64
  BY <1>1, CrossFields, RunningSeatLive, LedgerMarkets DEF Seats, NoSeat
<1>3. run.taker.side = "Bid" => run.taker.limit > 0
  BY <1>1, <1>2, LedgerParts DEF LocalsFit, U64
<1>4. Balanced(n) /\ n.seat_of = work.market.seat_of
  BY <1>1, <1>2, <1>3, LedgerMarkets, PostBalanced DEF CanRestRemainder
<1>5. locals.seat = run.seat /\ locals.packets = run.packets
  BY RunFields, LedgerMarkets DEF RunType
<1>6. Proceed(n, "packets", locals)
  BY DEF RestRemainder
<1> HIDE DEF n, locals
<1> QED BY <1>1, <1>4, <1>5, <1>6, SameLocalsFit, ProceedBalanced

LEMMA EndCrossBalanced == LedgerInv /\ EndCross => StaysBalanced
<1> SUFFICES ASSUME LedgerInv, EndCross PROVE StaysBalanced
  OBVIOUS
<1> DEFINE locals == [run EXCEPT !.taker = NoTaker, !.posts = FALSE, !.min_fill = 0]
<1>1. locals.seat = run.seat /\ locals.packets = run.packets /\ stage = "cross"
  BY RunFields, LedgerMarkets DEF RunType, EndCross
<1>2. Proceed(work.market, "packets", locals)
  BY DEF EndCross
<1> HIDE DEF locals
<1> QED BY <1>1, <1>2, LedgerMarkets, SameLocalsFit, ProceedBalanced

(* The payout, and the seat handed back: an empty seat has no orders.      *)
LEMMA SwapPaysOutBalanced == LedgerInv /\ SwapPaysOut => StaysBalanced
<1> SUFFICES ASSUME LedgerInv, SwapPaysOut PROVE StaysBalanced
  OBVIOUS
<1> DEFINE base == SwapOut.base
           quote == SwapOut.quote
           m == Withdraw(work.market, run.seat, base, quote)
           owner == CHOOSE t \in Traders : m.seat_of[t] = run.seat
           n == IF run.swap.created /\ CanReleaseSeat(m, owner)
                THEN ReleaseSeat(m, owner) ELSE m
<1>1. /\ CanWithdraw(work.market, run.seat, base, quote) /\ stage = "packets"
  BY DEF SwapPaysOut, CanPayOut
<1>2. run.seat \in Seats /\ SeatLive(work.market, run.seat)
  <2>1. run.seat # NoSeat
    BY <1>1 DEF CanWithdraw, CanDeposit
  <2> QED BY <1>1, <2>1, RunningSeatLive
<1>3. base \in Int /\ quote \in Int
  <2>1. work.market.state[run.seat] \in TraderState
    BY <1>2, LedgerMarkets, MarketFields
  <2>2. run.swap.base \in Int /\ run.swap.quote \in Int
    BY RunFields, LedgerMarkets DEF SwapLocals, U64
  <2>3. \A now, before \in Int : Gain(now, before) \in Int
    BY DEF Gain
  <2>4. /\ work.market.state[run.seat].base_free \in Int
        /\ work.market.state[run.seat].quote_free \in Int
    BY <2>1 DEF TraderState, U64
  <2> QED BY <2>2, <2>3, <2>4 DEF SwapOut
<1>4. Commit([Transfer(work, -base, -quote) EXCEPT !.market = n])
  BY DEF SwapPaysOut
<1> HIDE DEF base, quote
<1>5. Balanced(m) /\ WellFormed(m)
  BY <1>1, <1>2, <1>3, LedgerMarkets, WithdrawBalanced, WithdrawFacts DEF Seats
<1>6. m.seat_of = work.market.seat_of
  BY LedgerMarkets DEF Withdraw, Deposit, MarketType
<1>7. owner \in Traders
  <2>1. \E t \in Traders : m.seat_of[t] = run.seat
    BY <1>2, <1>6 DEF SeatLive
  <2> HIDE DEF m
  <2> QED BY <2>1
<1> HIDE DEF m, owner
<1>8. Balanced(n)
  BY <1>5, <1>7, ReleaseSeatBalanced
<1> HIDE DEF n
<1>9. [Transfer(work, -base, -quote) EXCEPT !.market = n].market = n
  BY LedgerMarkets, IInvParts DEF Transfer, Sound, Accounts
<1> QED BY <1>4, <1>8, <1>9, CommitBalanced

-----------------------------------------------------------------------------
(* The theorems. *)

LEMMA InstructionBalanced ==
  ASSUME PricedOrders
  PROVE  \A t \in Traders : LedgerInv /\ Instruction(t) => StaysBalanced
<1> SUFFICES ASSUME NEW t \in Traders, LedgerInv, Instruction(t) PROVE StaysBalanced
  OBVIOUS
<1>1. CASE ClaimASeat(t)
  BY <1>1, ClaimASeatBalanced
<1>2. CASE EvictSeat(t)
  BY <1>2, EvictSeatBalanced
<1>3. CASE \E base, quote \in Amounts : DepositFunds(t, base, quote)
  BY <1>3, DepositFundsBalanced
<1>4. CASE \E base, quote \in Amounts : WithdrawFunds(t, base, quote)
  BY <1>4, WithdrawFundsBalanced
<1>5. CASE \E id \in KnownIds : CancelOrder(t, id)
  BY <1>5, CancelOrderBalanced
<1>6. CASE \E id \in KnownIds, lots \in U64 : ReduceOrder(t, id, lots)
  BY <1>6, ReduceOrderBalanced
<1>7. CASE \E packet \in Packets : PlaceOrder(t, packet)
  BY <1>7, PlaceOrderBalanced
<1>8. CASE \E side \in Sides, limit \in CancelLimits : CancelAll(t, side, limit)
  BY <1>8, CancelAllBalanced
<1>9. CASE \E ids \in {c \in SUBSET KnownIds : Cardinality(c) <= MaxCancels},
              ladder \in Ladders : BatchUpdate(t, ids, ladder)
  BY <1>9, BatchUpdateBalanced
<1>10. CASE \E swap \in Swaps : Swap(t, swap)
  BY <1>10, SwapBalanced
<1> QED BY <1>1, <1>2, <1>3, <1>4, <1>5, <1>6, <1>7, <1>8, <1>9, <1>10 DEF Instruction

LEMMA ExecuteBalanced == LedgerInv /\ Execute => StaysBalanced
BY CancelListedBalanced, CancelsDoneBalanced, CancelNextBalanced, CommitWorkBalanced,
   PlacePostOnlyBalanced, StartCrossBalanced, FillBestBalanced, SelfTradeBalanced,
   RestRemainderBalanced, EndCrossBalanced, SwapPaysOutBalanced,
   InstructionFailsBalanced DEF Execute

LEMMA StutterBalanced == LedgerInv /\ UNCHANGED vars => StaysBalanced
BY LedgerParts DEF vars, StaysBalanced

LEMMA NextBalanced ==
  ASSUME PricedOrders
  PROVE  LedgerInv /\ [Next]_vars => LedgerInv'
<1> SUFFICES ASSUME LedgerInv, [Next]_vars PROVE LedgerInv'
  OBVIOUS
<1>1. IInv'
  BY LedgerParts, NextInv DEF StepKeeps
<1>2. StaysBalanced
  BY InitializeBalanced, CollectAccruedFeesBalanced, InstructionBalanced,
     ExecuteBalanced, StutterBalanced DEF Next
<1> QED BY <1>1, <1>2, LedgerPartsPrime DEF StaysBalanced

(* Where no order that may rest is a bid at zero ticks, the books balance  *)
(* in every reachable state, between any two steps of any instruction.     *)
THEOREM LedgerInvariance ==
  ASSUME PricedOrders
  PROVE  Spec => []LedgerInv
<1>1. LedgerInv /\ [Next]_vars => LedgerInv'
  BY NextBalanced
<1> QED BY <1>1, InitBalanced, PTL DEF Spec

(* Fills, self-trades, fees, cancels, deposits, payouts and evictions      *)
(* neither create nor lose a lot (Market::check_conservation).             *)
THEOREM LotsAreConserved ==
  ASSUME PricedOrders
  PROVE  Spec => []Conservation
<1>1. LedgerInv => Conservation
  BY DEF LedgerInv, Conservation, Balanced
<1> QED BY <1>1, LedgerInvariance, PTL

(* Each seat has locked exactly what its resting orders need, however its  *)
(* orders were filled, reduced, cancelled or self-traded.                  *)
THEOREM LockedIsWhatRests ==
  ASSUME PricedOrders
  PROVE  Spec => []LockedFundsBackOrders
<1>1. LedgerInv => LockedFundsBackOrders
  BY DEF LedgerInv, LockedFundsBackOrders, Balanced
<1> QED BY <1>1, LedgerInvariance, PTL

(* No resting order names a seat its owner no longer holds.                *)
THEOREM OrdersAreOwned ==
  ASSUME PricedOrders
  PROVE  Spec => []EveryOrderHasALiveOwner
<1>1. LedgerInv => EveryOrderHasALiveOwner
  BY DEF LedgerInv, EveryOrderHasALiveOwner, Balanced
<1> QED BY <1>1, LedgerInvariance, PTL

(* A fill the taker can pay for settles: no seat runs short and no balance *)
(* overflows, whatever the balances.                                       *)
THEOREM SettlementAlwaysSucceeds ==
  ASSUME PricedOrders
  PROVE  Spec => []SettlementCannotFail
<1>1. LedgerInv => SettlementCannotFail
  <2> SUFFICES ASSUME LedgerInv, stage = "cross", FillsNext
               PROVE  /\ MakerSettled(work.market, run.taker) \in TraderState
                      /\ TakerSettled(work.market, run.taker) \in TraderState
                      /\ work.market.unclaimed_fees + Fee(work.market, run.taker) \in U64
    BY DEF SettlementCannotFail
  <2>1. /\ run.taker \in Taker /\ run.taker.seat \in Seats
        /\ SeatLive(work.market, run.taker.seat)
    BY CrossFields, RunningSeatLive, LedgerMarkets DEF Seats, NoSeat
  <2>2. /\ Reaches(work.market, run.taker) /\ ~ IsSelfTrade(work.market, run.taker)
        /\ TakerCanAfford(work.market, run.taker)
    BY DEF FillsNext
  <2> QED BY <2>1, <2>2, LedgerMarkets, SettlementPossible
<1> QED BY <1>1, LedgerInvariance, PTL

(* A seat with a resting order is never empty, so nobody can evict it.     *)
THEOREM QuotedSeatsAreNotEvicted ==
  ASSUME PricedOrders
  PROVE  Spec => []QuotedSeatsStay
<1>1. LedgerInv => QuotedSeatsStay
  <2> SUFFICES ASSUME LedgerInv, NEW m \in Markets, NEW t \in Traders, NEW side \in Sides,
                      CanReleaseSeat(m, t)
               PROVE  OwnSlots(m, side, m.seat_of[t]) = {}
    BY DEF QuotedSeatsStay
  <2>1. WellFormed(m) /\ Balanced(m)
    BY LedgerMarkets DEF Markets
  <2>2. m.seat_of[t] \in Seats /\ IsEmpty(m.state[m.seat_of[t]])
    <3>1. m.seat_of[t] \in 0 .. NumSeats
      BY <2>1, MarketFields DEF WellFormed
    <3> QED BY <3>1 DEF CanReleaseSeat, Seats, NoSeat
  <2>3. \A h \in LiveSlots(m, side) : m.book[side][h].seat # m.seat_of[t]
    BY <2>1, <2>2, EmptySeatHasNoOrders
  <2> QED BY <2>3 DEF OwnSlots
<1> QED BY <1>1, LedgerInvariance, PTL

(* The vaults can pay out any part of what is recorded as deposited.       *)
LEMMA VaultsPay ==
  ASSUME NEW accounts, Sound(accounts),
         NEW base \in 0 .. accounts.market.base_deposited,
         NEW quote \in 0 .. accounts.market.quote_deposited
  PROVE  CanTransfer(accounts, -base, -quote)
<1> DEFINE db == accounts.market.base_deposited
           dq == accounts.market.quote_deposited
<1>1. /\ db \in Nat /\ dq \in Nat
      /\ accounts.base_vault = BaseAtoms(db) /\ accounts.quote_vault = QuoteAtoms(dq)
      /\ BaseAtoms(db) \in U64 /\ QuoteAtoms(dq) \in U64
  BY SoundMarket DEF Sound, Accounts
<1>2. ASSUME NEW d \in Nat, NEW x \in 0 .. d, NEW atoms \in Nat, d * atoms <= U64Max
      PROVE  d * atoms + (-x) * atoms \in U64
  <2>1. d - x \in Nat /\ d - x <= d /\ x \in Nat
    OBVIOUS
  <2>2. (d - x) * atoms <= d * atoms
    BY <2>1, ProductMonotone
  <2>3. (d - x) * atoms \in Nat
    BY <2>1
  <2>4. d * atoms + (-x) * atoms = (d - x) * atoms
    BY <2>1
  <2> QED BY <1>2, <2>2, <2>3, <2>4 DEF U64
<1> HIDE DEF db, dq
<1>3. /\ BaseAtoms(db) + BaseAtoms(-base) \in U64
      /\ QuoteAtoms(dq) + QuoteAtoms(-quote) \in U64
  <2>1. base \in 0 .. db /\ quote \in 0 .. dq
    BY DEF db, dq
  <2>2. /\ BaseAtomsPerBaseLot \in Nat /\ QuoteAtomsPerQuoteLot \in Nat
        /\ db * BaseAtomsPerBaseLot <= U64Max /\ dq * QuoteAtomsPerQuoteLot <= U64Max
    BY <1>1 DEF BaseAtoms, QuoteAtoms, U64
  <2>3. db * BaseAtomsPerBaseLot + (-base) * BaseAtomsPerBaseLot \in U64
    BY <1>1, <1>2, <2>1, <2>2
  <2>4. dq * QuoteAtomsPerQuoteLot + (-quote) * QuoteAtomsPerQuoteLot \in U64
    BY <1>1, <1>2, <2>1, <2>2
  <2> QED BY <2>3, <2>4 DEF BaseAtoms, QuoteAtoms
<1> QED BY <1>1, <1>3 DEF CanTransfer

(* Nobody is locked in: every order can be cancelled, every free balance   *)
(* withdrawn and the accrued fees collected, whatever others have done.    *)
THEOREM ExitIsAlwaysOpen ==
  ASSUME PricedOrders
  PROVE  Spec => []ExitIsOpen
<1>1. LedgerInv => ExitIsOpen
  <2> SUFFICES ASSUME LedgerInv PROVE ExitIsOpen
    OBVIOUS
  <2> DEFINE m == chain.market
  <2>1. WellFormed(m) /\ Balanced(m) /\ m \in MarketType /\ Sound(chain)
    BY LedgerMarkets, IInvParts
  <2>2. /\ m.base_deposited \in Nat /\ m.base_deposited <= U64Max
        /\ m.quote_deposited \in Nat /\ m.quote_deposited <= U64Max
        /\ m.unclaimed_fees \in Nat
    BY <2>1, HeldSumsNat
  <2>3. ASSUME NEW side \in Sides, NEW h \in LiveSlots(m, side)
        PROVE  CanRelease(m, side, h, m.book[side][h].size)
    <3>1. m.book[side][h].size \in 0 .. m.book[side][h].size
      BY <2>1, LiveSlotFacts, OrderFields
    <3> QED BY <2>1, <3>1, ReleaseAlwaysPossible
  <2>4. ASSUME NEW s \in Seats, SeatLive(m, s)
        PROVE  LET base == m.state[s].base_free
                   quote == m.state[s].quote_free
               IN  CanWithdraw(m, s, base, quote) /\ CanTransfer(chain, -base, -quote)
    <3> DEFINE st == m.state[s]
               base == st.base_free
               quote == st.quote_free
    <3>1. st \in TraderState
      BY <2>1, MarketFields
    <3>2. /\ base \in Nat /\ quote \in Nat
          /\ st.base_locked \in Nat /\ st.quote_locked \in Nat
      BY <3>1, StateFields
    <3>3. /\ base + st.base_locked <= m.base_deposited
          /\ quote + st.quote_locked + m.unclaimed_fees <= m.quote_deposited
      BY <2>1, <2>4, HeldBounds
    <3>4. base \in 0 .. m.base_deposited /\ quote \in 0 .. m.quote_deposited
      <4> DEFINE lb == st.base_locked
                 lq == st.quote_locked
      <4>1. lb \in Nat /\ lq \in Nat
        BY <3>2
      <4>2. base + lb <= m.base_deposited /\ quote + lq + m.unclaimed_fees <= m.quote_deposited
        BY <3>3
      <4> HIDE DEF lb, lq, base, quote, m
      <4> QED BY <2>2, <3>2, <4>1, <4>2
    <3>5. /\ m.base_deposited + (-base) \in U64
          /\ m.quote_deposited + (-quote) \in U64
          /\ base + (-base) \in U64 /\ quote + (-quote) \in U64
      <4> HIDE DEF base, quote, m
      <4> QED BY <2>2, <3>2, <3>4, SMTT(30) DEF U64
    <3>6. Credit(st, -base, -quote) \in TraderState
      <4> DEFINE b == base + (-base)
                 q == quote + (-quote)
      <4>1. Credit(st, -base, -quote) = [st EXCEPT !.base_free = b, !.quote_free = q]
        BY DEF Credit
      <4>2. b \in U64 /\ q \in U64
        BY <3>5
      <4> HIDE DEF b, q, st
      <4> QED BY <3>1, <4>1, <4>2 DEF TraderState
    <3>7. s # NoSeat
      BY DEF Seats, NoSeat
    <3>8. CanWithdraw(m, s, base, quote)
      BY <3>5, <3>6, <3>7 DEF CanWithdraw, CanDeposit
    <3>9. CanTransfer(chain, -base, -quote)
      BY <2>1, <3>4, VaultsPay
    <3> QED BY <3>8, <3>9
  <2>5. CanCollectFees(m) /\ CanTransfer(chain, 0, -m.unclaimed_fees)
    <3>1. SumTo(QuoteHeld(m), NumSeats) \in Nat
      BY <2>1, HeldSumsNat
    <3>2. SumTo(QuoteHeld(m), NumSeats) + m.unclaimed_fees = m.quote_deposited
      BY <2>1 DEF Balanced, QuoteConserved
    <3>3. m.unclaimed_fees \in 0 .. m.quote_deposited /\ 0 \in 0 .. m.base_deposited
      BY <2>2, <3>1, <3>2
    <3>4. CanTransfer(chain, -0, -m.unclaimed_fees)
      BY <2>1, <3>3, VaultsPay
    <3>5. CanTransfer(chain, 0, -m.unclaimed_fees)
      BY <3>4
    <3>6. m.quote_deposited - m.unclaimed_fees \in U64
      BY <2>2, <3>3 DEF U64
    <3> QED BY <3>5, <3>6 DEF CanCollectFees
  <2> QED BY <2>3, <2>4, <2>5 DEF ExitIsOpen
<1> QED BY <1>1, LedgerInvariance, PTL
=============================================================================
