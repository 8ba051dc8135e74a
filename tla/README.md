# ClobDex in TLA+

ClobDex is a central limit order book that runs without a crank inside one
Solana program, with the off-chain services that index it, stream it, quote on
it and display it. This directory holds its TLA+ specification, the TLC
configurations that check it on small instances, and TLAPS proofs of what must
hold for every instance. Paths below are relative to the repository root.

## 1. Inventory

| Component | Source | State | Operations | Interacts with |
|---|---|---|---|---|
| Lot arithmetic, fees | `crates/clob-book/src/quantities`, `crates/clob-engine/src/fees.rs` | none | quote value of a fill, atoms of a lot, fee rounded up | engine, client, bot |
| Order book | `crates/clob-book/src/book`, `order` | two trees of orders, next sequence number | place, find, reduce, remove, best, is_crossed | engine |
| Tree arena | `crates/clob-book/src/tree` | nodes, free list, bump index, root | insert, remove, min/max, successor | book, trader table |
| Matching engine | `crates/clob-engine/src` | seats and balances, header totals, fees | claim/release seat, deposit, withdraw, place, reduce, cancel, cancel_all, collect_fees | program |
| On-chain program | `programs/clob/src/processor` | market account, two token vaults | one handler per instruction, event log | runtime, every client |
| Client library | `crates/clob-client` | none | encode instructions, decode accounts, transactions and logs; levels, depth, cost of a sweep, evictable seats | indexer, stream, bot |
| Indexer | `crates/clob-indexer` | last book per market, tape of trades | derive fills from two books and a transaction, cross-check against the log | stream |
| Stream ingest | `crates/clob-stream/src/{main,correlate,registry,flush,snapshot,store}` | correlator (baseline books, unpaired halves), registry (view and tape per market), rows awaiting finality, checkpoint files, trades store | ingest an update, pair, derive, publish, retract or finalise a slot, checkpoint, flush, resume | chain (gRPC), store, API |
| Stream API | `crates/clob-stream/src/{api,candle}` | broadcast ring, one task per socket | subscribe, snapshot, forward, lag; candles, windows, history | registry, store, front ends |
| Market-maker bot | `crates/clob-mm`, `crates/clob-ops/src/rpc.rs` | the book it read, its seat, its resting orders | read, price, plan ladder, BatchUpdate, wait for the reply, cancel on shutdown | client, program |
| Front ends | `crates/clob-tui`, `app/src/lib` | reduced feed | apply snapshot, apply update, reconnect | stream API |
| Operator tools, SDK | `crates/clob-ops`, `crates/clob-cli`, `ts/sdk`, `web`, `spec` | none | build and send instructions | program |

How they interact: clients send instructions; the runtime runs one at a time
against a market account (each locks it for writing) and either commits all it
wrote or nothing. The stream receives account updates and transactions of each
slot in either order, pairs them by signature, holds what it derives until the
slot is finalised, flushes it and moves its checkpoint. The bot and the front
ends act on a book that has moved since they read it.

What is hard, and which properties say it is right (the full list, with lines,
is `hazards` in `PROJECT.json`):

- *Engine*: long sequences of posts, partial fills, reductions and self-trades
  must leave locked funds equal to what the resting orders need, so that a fill
  can always be settled; matching can stop before the book is uncrossed; seats
  and book slots are reused, so ids and owners must never be confused; fees are
  rounded per fill.
- *Program*: a handler mutates the account for many steps before it finds out
  that it must fail; `Swap` infers what was traded from balance differences; a
  permissionless eviction races with everything else; vaults must match the
  header.
- *Tree*: rebalancing in an arena that reuses nodes; handles held across calls.
- *Client*: a price computed without running the match must be the price of the
  match.
- *Indexer*: several instructions of one transaction explain one difference of
  two books; a self-trade looks like a fill.
- *Stream*: the two halves of a transaction arrive in either order and are
  replayed on reconnect; slots die after their trades were published; the
  checkpoint is written before the flush (`main.rs:116`); a write fails, tears,
  or is cut short by a crash.
- *API, front ends*: snapshot after subscribe, a ring that overruns a slow
  socket, frames applied after a reconnect.
- *Bot*: it decides on a book that moves before its transaction lands, and does
  not know whether a transaction whose reply was lost will land.

## 2. Modules

| Module | Role |
|---|---|
| `Lots` | constants of one market and its integer arithmetic |
| `Sums` | finite sums as a recursive function, used by the conservation predicates |
| `Market` | one market account as a value; every method of the engine as an operator on it; predicates of an account |
| `Clob` | the program: variables, one action per instruction or per loop iteration, properties |
| `MC_Clob` | the inputs TLC enumerates |
| `Sums_proofs`, `Market_proofs` | proofs about sums and sublists; about each method: its types, its ids, and that it keeps the books balanced |
| `Clob_proofs` | proofs of `IInv`, and that each action keeps the books balanced (`LedgerInv`) |
| `Trading_proofs` | proofs about the steps of matching, and of a swap from its transfer to its pay-out (`TradeInv`, `SwapSeatInv`) |
| `Liquidity`, `Reader`, `MC_Book` | what a client computes from an account; a client that prices its order beside the `Clob` that runs it |
| `Arena`, `Tree`, `OrderedMap`, `MC_Tree` | the arena's nodes, free list and searches; insertion and removal with each fixup pass as a step; the ordered map they implement |
| `Derive`, `Indexer`, `MC_Indexer` | trades, removals and audits derived from two accounts and the decoded instructions; the engine running such transactions beside it |
| `Correlate`, `Sublists`, `Registry`, `Flush`, `Tape`, `Stream`, `MC_Stream` | the correlator, the registry and the flush queue as values, and the part of a sequence a retraction keeps; the durable tape they promise; the cluster, the process, its store and its crashes |
| `Stream_proofs` | proofs that rows, checkpoints and public tapes are true, that `Stream` implements `Tape` (`IInv` and `CoverInv` there), and, without premises, that it is well typed and accounts for what it retracts (`Kinds`) |
| `Candles`, `TradeLog`, `FileStore`, `MC_FileStore` | reads over stored rows; the contract of a store; the file-backed store between crashes |
| `FileStore_proofs` | proofs that the file holds what is served and that the store keeps its contract (`StoreInv`, `WholeInv`) |
| `Viewer`, `Feed`, `MC_Feed` | the terminal's reducer; the registry, broadcast ring, socket and terminal together |
| `Feed_proofs` | proofs that the book on a terminal is true, its tape complete and in order, and that its watermark never falls |
| `Quoting`, `Bot`, `MC_Bot` | pricing, ladder and plan in the integers of the code; the cycle against a market others use |
| `Bot_proofs` | proofs that a side carries one ladder, and one more for each lost reply (`BotInv`), that a refresh is all or nothing, and that one refresh is enough (`UncrossedInv`) |

Which composes which: `Market` extends `Lots` and `Sums`; `Clob`, `Quoting`,
`Derive` and `Liquidity` extend `Market`, so that bot, indexer and client face
the same engine the program runs. `Reader` extends `Clob` and `Liquidity`.
`Stream` extends `Correlate`, `Registry` and `Flush`; `Feed` extends `Registry`
and `Viewer`. Three abstract specifications are implemented, each through
`INSTANCE ... WITH`:

| Abstract | Detailed | What the mapping is |
|---|---|---|
| `OrderedMap`: a partial function from keys to values, and the handles given out | `Tree` | the live nodes; a call's fixup passes are stuttering steps (`TreeIsAMap`) |
| `Tape`: fills happen, slots are promised, and behind the promise every fill is durable and unaltered | `Stream` | the cluster's fills, the rows stored, the flush watermark (`StreamKeepsTheContract`) |
| `TradeLog`: rows are appended once and in order, and what was acknowledged stays | `FileStore` | what is readable, in memory or after the next load (`StoreKeepsTheContract`) |

### Market: the account

`seat_of` maps a wallet to its seat (0: none), `state` maps a seat to its four
balances, `book[side]` is an array of slots (a slot is live when its order names
a seat), and the header totals are fields. An order's identity is its side and
sequence number; the price, which `FIFOOrderId` also carries, never changes
while the order lives. Priority is `Precedes`, and `Best` is the least live
order under it: the tree's in-order traversal is abstracted to the order it
realises. Which free slot or seat an allocation returns does not matter to any
operation, so `Post` and `ClaimSeat` take one with `CHOOSE`; that a freed slot
keeps its old contents matters to one predicate only (`BaseHeld` reads live
seats). A method that can fail is an operator for its result and a `Can...`
predicate for its `Ok` condition: the code's `checked_add` and `checked_sub` are
membership in `U64`.

### Clob: the program

`chain` is what the runtime has committed; `work` is the running instruction's
copy; `stage` and `run` are its program counter and locals.

- An instruction with no loop is one action (`ClaimASeat`, `EvictSeat`,
  `DepositFunds`, `WithdrawFunds`, `CollectAccruedFees`, `CancelOrder`,
  `ReduceOrder`, `Initialize`). Its guard is the conjunction of the handler's
  checks; where a check fails the instruction changes nothing, which is a
  stuttering step.
- `PlaceOrder`, `BatchUpdate`, `CancelAll` and `Swap` begin, take steps on
  `work`, and end in a commit or, on any error (`InstructionFails`), in a revert.
  The steps are one cancel of a batch (`CancelListed`), one pass of cancel-all
  (`CancelNext`), one post-only order (`PlacePostOnly`), one iteration of the
  cross loop (`FillBest`, `SelfTrade`), its end (`RestRemainder`, `EndCross`),
  and the pay-out of a swap (`SwapPaysOut`).

Steps of two instructions never interleave, as in the runtime. The steps are
there so that the properties see the account between any two iterations, where a
test sees only the end.

### Liquidity, Reader: what a client computes

`OrdersOf` is `iter_side`: the live orders of a side in the order a taker eats
them. The other operators read that sequence as the code does. `Reader` runs
`Clob` for single orders; when matching starts, `quote` takes what
`quote_sweep`, `sweep_price` and `depth_at_or_better` say of the committed
account, and `fills` then adds up what the cross loop does. Batches, cancel-all
and swaps are left to `Clob`.

### Tree: the arena

`tree` is the array of nodes, root, free list head, bump index and length; `fix`
holds the locals of `insert_fixup` or `delete_fixup` between two of their
passes, including a child that is `NIL` and its parent kept beside it. `Insert`
and `Remove` link or unlink a node in one step. A freed node keeps its bytes
except the link of the free list; the view `WithoutStaleBytes` tells states
apart by what is live.

### Correlate, Registry, Flush, Stream: ingest

`cluster` is the chain (open slot, books, what landed, what died) and is
external, with the gRPC client and its replay on reconnect: slots are delivered
in order, the halves of a transaction in either order, statuses some time after
the content. `sent` is everything the endpoint ever sent, of each kind in order,
and `wire` the subscription: the slot it starts from and how far each kind was
read, so that a reconnect only sets the readers back. `CloseSlot` sends a confirmed slot's updates, `AbandonSlot` kills
one, `FinalizeSlot` roots one. `Ingest` handles one content update with
everything the handler calls (pair, derive, publish, queue). A finalised slot
is handled across awaits, so its checkpoints, one per market, and its flush are
steps of their own and a crash can fall between them. A book is abstracted to
how many fills it has seen: the derivation, which `Indexer` checks, is then the
difference of two books. A checkpoint file is written whole or not at all.

### FileStore, Candles: the store and its reads

`made` is every fill of the market, whether the process runs or not; `derived`
says how far along it the process is, and `known` the slot of the book it has.
`disk` is the sequence of lines of the trades file, `open` whether its last line
lacks the newline, `checkpoint` the slot of the checkpoint file, `memory` what
reads see and `noted` the checkpoint there. When a slot is rooted the book is
saved, then the rows that wait are written to the file and then to memory, in
that order (`main.rs:116`, `main.rs:119`): `Flush` is all of it, `SaveFails` and
`FlushFails` are the two refused writes, and `CrashInFlush` stops before the
checkpoint is filed, or after it with nothing of the batch written, all of it or,
when `Tears` says so, a part that ends inside a line. `Restart` is `load`, an
empty queue, the watermark of the highest slot stored, and the place to go on
from: behind the checkpoint, or at the tip where there is none. What was waiting
is gone, and comes again only if it is derived again. The history `missed` keeps
the rows that will not be: those a restart starts after without having them, and
those derived from a slot that looks written. `faults.owed` says that a process
died with rooted rows unwritten, `faults.cold` that one found no checkpoint.
A cold start whose RPC fails (`main.rs:262`) loses the first transaction of a
market and is not modelled. Candles, windows and bounded reads are operators over
the rows, checked against their definitions over the fills.

### Feed, Viewer: from the registry to a terminal

Writing the view and broadcasting the event are two steps (`unsent` lies between
them). The ring is the last `BroadcastCapacity` events of `log`; `server` is the
socket's task: subscribe, snapshot, then forward or lag. `Handle` applies one
frame with the reducer of `Viewer`: an update stands above what the tape held, its
own fills in the order they happened, which is why `Above` orders a tape by change and
then by place in the change. `TapesAssumption` says that a terminal keeps no more fills
(256) than the registry (1,024). `MaxInbox` bounds frames read and not yet
applied, where the code has an unbounded channel. The browser's reducer
(`app/src/lib/feed.ts`) is a second copy of the same code and is not modelled
twice.

### Derive, Indexer: the tape

`Indexer` runs up to three instructions on `market` with the operators of
`Market`, keeps what the engine's fill observer saw in `fills`, and compares
`Trades(before, market, observed)` after every step: every prefix of a
transaction is a transaction. `Receipt` is the event log, which carries at most
`MaxLoggedFills` fills of at most `FillWord` lots each.

### Quoting, Bot: the market maker

`Quoting` has the midpoint, as a release build computes it (`MidpointWraps`), the clamp against the touch, the inventory skew, the
ladder and the plan, over integers of the width of the code. `Bot` is the cycle:
`Cycle` reads, decides and sends, and the bot waits. A transaction on its way
lands, fails, expires, or has its reply lost and lands late, if ever (`late`
holds those). `Operations` turns a transaction into the steps the program runs,
the cancels and then the packets of a `BatchUpdate` or the two bounded sweeps of
a withdrawal, and `Performed` is the account after each step; if one is
`Refused`, the transaction fails and leaves nothing. A transaction has
`TransactionRoom` bytes for cancels and packets (16 and 20 each), which is what
limits a refresh.

Left out of `Clob`: account-ownership, signer and PDA checks (an action acts for the
trader that signed it); event logging; wallet balances outside the vaults (a
deposit the wallet cannot cover is one the model may also make); the overflow of
the running totals in a match outcome; the order in which a batch's cancels
run (any order is allowed); expiry fields and book operations that no
instruction reaches.

## 3. Runs

A property that is a conjunction of named parts says so in its module; each part
has its own comment there. Every action fires in some passing run, and each
property fails under a plausible bug in the code it is about (the operators
commented *Mutant of*).

| Run | Module | Bounds | What it shows |
|---|---|---|---|
| `trading` | `MC_Book` | two traders, word 8, 3 resting orders on two ticks, every reason to stop matching | `Conservation`, `LockedFundsBackOrders`, `SettlementCannotFail` between any two passes of the loop; `PriceTimePriority`, `FillsSettleExactly`, `CrossedOnlyAfterEarlyStop` of every step; `SweepPredictsFill`: a taker pays what `quote_sweep` said; `AccountReadsTrue`: and fills what `depth_at_or_better` said, with levels and evictable seats that agree with the book |
| `settling` | `MC_Clob` | word 12, 2 atoms per base lot, 3 resting orders, ladders, cancel-all, swaps | `TypeOK`; `VaultsHoldDeposits` inside swaps too; `ExitIsOpen` (every order can be cancelled, every free balance withdrawn); `EveryOrderHasALiveOwner`, `SweepTakesBestFirst`, `PostOnlyNeverCrosses`, `StaleIdsStayDead`, `SwapReturnsItsSeat`; `InstructionsEnd` under fairness |
| `stream_retry` | `MC_Stream` | one market, 2 transactions, one of which may fail, 3 slots, one refused write, one reconnect | `StreamKeepsTheContract` (refinement of `Tape`) |
| `stream_durable` | `MC_Stream` | one market, 2 transactions, 3 slots, one refused write | `EveryTradeIsStored` under fairness |
| `stream_faults` | `MC_Stream` | two markets, one transaction each, 3 slots, one dead, one crash | `StoreIsTrue`, `TapeIsTrue`, `CheckpointsMatchChain` |
| `tree` | `MC_Tree` | every sequence of calls on 3 nodes and 4 keys; trees of up to 8 nodes built and then drained in any order | `TreeIsAMap` (refinement of `OrderedMap`), `HandlesAreStable`, `CheckPasses` between calls, `SoundInMidCall` within them, `CallsReturn` |
| `bot` | `MC_Bot` | one level a side, word 16, quotes of others inside the spread, at the bot's prices and at the end of the word, 3 moves of others, one lost reply, an interrupt anywhere | `FreshRefreshSettles`, `PositionIsBounded`, `RefreshIsAllOrNothing`, `QuotesDoNotOutliveTheBot`, `QuotesSettle` |
| `indexer` | `MC_Indexer` | two makers and a swapper, 3 resting orders, one instruction a transaction | `DerivesExactly` (`TapeIsExact`, `RemovalReasonsAreTrue`), `CrossChecksAgree` |
| `feed` | `MC_Feed` | a ring of one event, one frame in flight, tapes of two fills, 2 slots, 2 changes of 0 or 2 fills, one dead slot, one lost connection | `BookIsTrue`, `TapeIsComplete`, `FeedKeepsUp` |
| `store` | `MC_FileStore` | 3 fills in 3 slots, two prices and two sizes while nothing has failed, one refused write, two crashes, no torn lines | `StoredExactly`: once what is rooted is derived and written, memory is the rooted rows but those passed over (`RootedRowsAreServed`), and none is but after a process died owing rows or found no checkpoint (`OnlyDebtsAreLost`); `ReadsAreExact`; `StoreKeepsTheContract` (refinement of `TradeLog`) |
| `zero_price` | `MC_Clob` | zero-tick bids | `QuotedSeatsStay` fails |
| `stream_crash_loses` | `MC_Stream` | one crash | `NothingMissing` fails |

Why the bounds are enough:

- *Program.* Two traders, two seats and two slots a side are the least at which
  tables fill up, two makers queue, and a seat or slot is handed to somebody
  else. Traders are interchangeable, hence the symmetry set (not used under
  fairness). `U64Max` is small so that balances reach the end of the word; the
  fee is 5000 bps so that one-lot fills round up. `MaxSequence` bounds the
  orders that ever rest, `MaxCancels` the ids of a batch. The inputs of the
  passing runs have prices of at least one tick: with zero-tick bids
  `EveryOrderHasALiveOwner` and with it `Conservation` lose their footing, which
  is what `zero_price` shows.
- *Ingest.* Two transactions are the least with a baseline between them, three
  slots the least with one dead, one final and one open. `stream_faults` gives
  each market one transaction and has no reconnect, because `TapeIsTrue` fails
  with two on one market and a dead slot, and all three properties when a
  reconnect meets a dead slot: those are known limits, below.
- *Tree.* Three nodes reach every interplay of free list and bump index; eight
  are needed for the fixup of a removal to climb to the grandparent.
- *Bot.* The bound of `PositionIsBounded` is `InventoryLimit - 1` and `2 + lost`
  ladders: the side that grows the position is dropped at the limit, but until
  then the ladder that rests, and after it that of a refresh on its way, can
  fill, and each refresh whose reply was lost may add one more. The run has three
  moves of others, too few for the last of these to be reached; with four, TLC
  refutes the bound that leaves `lost` out, and for any number `PositionBounded`
  is proved. A lost reply may leave one ladder behind a bot that reported success;
  `QuotesDoNotOutliveTheBot` counts exactly that, and `QuotesSettle` is about
  bots that lost none.
  `FreshRefreshSettles` and `QuotesSettle` suppose that the midpoint of the
  others' quotes does not wrap (`CanRefresh`); books where it does are in the run,
  where the other three properties hold of them too; what becomes of a refresh
  there is the row `RefreshIsAccepted` below.
- *Store.* Two crashes are the least with a restart from a checkpoint of a
  process that had itself resumed; three fills let a transaction of two, or two
  slots, be written while another waits. What reads compute depends on the rows
  alone, so fills differ in price and size only while nothing has failed or died
  (`FaultsMeetPlainFills`).
- *Feed.* A ring of one event makes every second event a lag.

### Fairness

- `Clob`: weak fairness of `Execute` only: one thread runs a started instruction
  to its end, and nothing else writes the account meanwhile. Nothing is assumed
  about clients submitting anything. `InstructionsEnd` then says that each loop
  uses something up at every pass. (The runtime's compute budget would also end
  it, with an error; the property says it is not needed.)
- `Tree`: weak fairness of `Fixup`, a loop of one thread.
- `Stream`: weak fairness of closing and finalising slots (the cluster goes on)
  and of `Ingest`, which is the one loop of `run_ingest` and retries a refused
  write at every root. Transactions, crashes, dead slots and refusals are not
  fair: they may happen or not.
- `Feed`: weak fairness of the tasks (broadcast, connect, snapshot, forward,
  lag, read, handle), each an async task that is polled when it can run.
- `Bot`: weak fairness of the bot's own steps and of late transactions landing
  or expiring (a blockhash expires); strong fairness of `Lands`, since a cluster
  that is sent the bot's transactions over and over lands one in the end. The
  enabling conditions are written out in the formula, which TLC evaluates faster
  than `ENABLED` of a large action.

### Where the code and its comments part

Two disagreements are runs of their own:

- *A zero-tick bid leaves its seat evictable* (`zero_price`). It locks nothing,
  so `is_empty` holds and the seat is released under a live order
  (`crates/clob-engine/src/market/orders.rs:197`), against
  `programs/clob/src/processor/seat.rs:52`.
- *A crash between checkpoint and flush loses trades* (`stream_crash_loses`,
  `crates/clob-stream/src/main.rs:116`), against `crates/clob-stream/README.md:114`.

The others are stated at the end of their modules as known limits, or are
properties of the runs above that fail outside their bounds. TLC refutes each on
the instance given: the constants of the named run, with these changes and the
property alone.

| What the code does | Property | Instance |
|---|---|---|
| A committed book can be crossed: what `cross` left rests however it stopped (`orders.rs:84`, against `clob-mm/src/ladder.rs:391`). `CrossedOnlyAfterEarlyStop` shows the only two ways | `NeverRestsCrossed` | `trading` |
| Such a book has orders on both sides and shows no spread (`clob-client/src/state.rs:244`, against `api/view.rs:230`) | `SpreadIsShown` | `trading` |
| A swap reserves one fee and is charged one per fill, each rounded up (`swap.rs:100`, against `swap.rs:152`) | `SwapSparesStandingBalance` | `settling`: `Packets <- MakerAsks`, `Swaps <- StandingSwaps`, `Ladders <- None`, `U64Max = 15`, `Amounts = {0, 4}` |
| A swap that meets the caller's own ask pays that inventory out (`swap.rs:155`, against `swap.rs:15`) | `SwapPaysOutOnlyTheTrade` | the same with `Swaps <- SwapRequests` |
| A book known only from an abandoned slot is checkpointed as rooted (`main.rs:290`, against `store/mod.rs:134`) | `CheckpointsAreRooted` | `stream_faults`: one market |
| The correlator keeps the book of a dead slot; a transaction that lands again is diffed against a book that has it (`registry.rs:139`) | `NothingMissing` | `stream_faults`: one market, no crash |
| A half evicted from the pairing queue leaves an old baseline (`correlate.rs:206`) | `TapeIsTrue` | `stream_retry`: `Signatures = {s1, s2, s3}`, `PendingCapacity = 1`, `MaxSlot = 2`, no faults |
| A replayed half pairs with one kept from before, and trades are derived again (`correlate.rs:183`) | `StoreIsTrue` | `stream_retry`: three signatures, `MaxSlot = 2`, only the reconnect |
| A torn line swallows the row after it, which had been acknowledged (`file.rs:194`, against `file.rs:179`) | `AcknowledgedIsDurable` | `store`: `Tears = TRUE` |
| A crash passes over rows for good: a process that had no checkpoint yet starts again at the tip (`main.rs:102`), and one that had saved its checkpoint and not flushed resumes after it (`main.rs:116`); where lines tear, part of a slot in the file also makes the rest of it look written (`flush.rs:41`), against `store/mod.rs:128` | `NothingIsSkipped` | `store`: `MaxFailures = 0`, `MaxCrashes = 1` |
| ClickHouse sorts by slot alone, so open and close depend on the backend (`clickhouse.rs:195`, against `candle.rs:24`) | `BackendsAgree` | `store` |
| The bound on scanned rows cuts the oldest candle short (`http.rs:148`, against `candle.rs:24`) | `CandlesAreWhole` | `store` |
| A window ends at the processed slot, its rows at the flushed one (`http.rs:281`, against `http.rs:262`) | `WindowIsCurrent` | `store` |
| A frame carries the watermark of when it is sent, so an abandoned fill can show as final (`ws.rs:80`, against `registry.rs:41`) | `FinalIsFinal` | `feed`: `BroadcastCapacity = 4` |
| A reconnecting terminal keeps its tape and misses a retraction (`clob-tui/src/feed.rs:77`, against `registry.rs:61`) | `PhantomsAreWithdrawn` | `feed`: `BroadcastCapacity = 4` |
| An update's fills go on the tape oldest first (`clob-tui/src/feed.rs:108`, against `feed.rs:60`) | `TapeIsNewestFirst` | `feed` |
| The watermark is never broadcast, so in a quiet market the last fills stay provisional (`registry.rs:127`, against `clob-tui/src/feed.rs:168`) | `PrintsBecomeFinal` | `feed` |
| A batch that takes on both sides is listed out of order (`derive.rs:109`) | `TapeIsExact` | `indexer`: `Packets <- BothSides`, `Batches <- CrossingBatches`, `MaxSequence = 4` |
| The cancels of a batch are not looked at: a withdrawn quote reads as self-traded (`derive.rs:142`) | `RemovalReasonsAreTrue` | `indexer`: `Packets <- BothSides`, `Batches <- ReplacingBatches` |
| The first taker of a side decides for all (`derive.rs:161`) | `SelfTradesAreNotVolume` | `indexer`: `Packets <- OneLotPackets`, two instructions |
| The audit accepts the fee on the total too, and a self-trade read as a fill can hide in the difference (`tape.rs:113`) | `AuditCatchesErrors` | `indexer`: `Packets <- OneLotPackets`, three instructions |
| A receipt cuts the size of a fill to 32 bits (`event.rs:133`) | `ReceiptDetailIsExact` | `indexer`: `Packets <- WideFills` |
| A refresh whose reply was lost can land after the withdrawal | `NoLadderIsOrphaned` | `bot` |
| The sum of a midpoint wraps: `clob-mm` is a workspace of its own, which the overflow checks of the root's release profile (`Cargo.toml:30`) do not reach. With others at 5 and 15 in a word of 15 the price is 2, the ask of the ladder meets the bid at 5, and the program refuses every refresh while they stand (`fair.rs:94`, against `ladder.rs:6`). A debug build panics there and leaves its ladder up | `RefreshIsAccepted` | `bot` |
| A cycle reported as failed may have changed the ladder (`clob-mm/src/main.rs:158`) | `FailedCycleChangesNothing` | `bot` |
| Two ladders do not fit one refresh: after a lost reply every later cycle fails (`params.rs:25`) | `LadderComesBack` | `bot` |

## 4. Proofs

The theorems hold for every number of traders, seats and slots, every word size,
every market's lot sizes and fee, and every set of inputs the constants allow;
those of `Feed_proofs` for every capacity of the ring, the socket, the inbox and
the two tapes, every slot bound and any number of lags, lost connections and
abandoned slots; those of
`Stream_proofs` for every set of markets and transactions, any fills, any number
of slots and any number of crashes, refusals, reconnects and dead slots.

| Module | Theorems |
|---|---|
| `Sums_proofs` | `SumUpdate`: a sum whose function changes at one point changes by the difference there; `SublistIs`: a sublist holds the elements at the positions kept, and no other |
| `Market_proofs` | `BestExists`: priority has a least order in every non-empty set of one side's orders, so `Best` is well defined; what each method of the engine does to a well-typed account; each keeps a balanced one balanced: `ReleaseBalanced`, `PostBalanced`, `FillBalanced`; `ReleaseAlwaysPossible`, `SettlementPossible` |
| `Clob_proofs` | `Invariance` (`IInv`), `TypeCorrect`, `VaultsAlwaysHoldDeposits`, `IdsAlwaysUnique`, `StaleIdsNeverNameAnOrder` |
| `Clob_proofs`, the ledger | `LedgerInvariance` (`LedgerInv`), `LotsAreConserved`, `LockedIsWhatRests`, `OrdersAreOwned`, `SettlementAlwaysSucceeds`, `QuotedSeatsAreNotEvicted`, `ExitIsAlwaysOpen` |
| `Trading_proofs` | `TradeInvariance` (`TradeInv`), `MakersAreHitInPriorityOrder` (`PriceTimePriority`), `FillsAlwaysSettleExactly` (`FillsSettleExactly`), `PostOnlyAlwaysRestsApart` (`PostOnlyNeverCrosses`), `SweepAlwaysTakesBestFirst` (`SweepTakesBestFirst`), `CrossesOnlyAfterEarlyStop` (`CrossedOnlyAfterEarlyStop`); `SwapSeatInvariance` (`SwapSeatInv`), `SwapAlwaysReturnsItsSeat` (`SwapReturnsItsSeat`) |
| `FileStore_proofs` | while no line is torn: `FileHoldsWhatIsServed` (`StoreInv`), `WholeLinesKeepTheContract` (the store implements `TradeLog`); where no write tears: `WholeWritesKeepEveryTrade` (`WholeInv`), `WholeWritesKeepTheContract`, `WholeWritesAreServed` (`StoredExactly`, `AcknowledgedIsDurable`) |
| `Stream_proofs` | `Invariance` (`IInv`), `EveryRowIsTrue` (`StoreIsTrue`), `EveryCheckpointIsTrue` (`CheckpointsMatchChain`), `CoverInvariance` (`CoverInv`), `NothingIsEverMissing` (`NothingMissing`), `StreamImplementsTape` (`StreamKeepsTheContract`), `ShownInvariance`, `EveryTapeIsTrue` (`TapeIsTrue`); without premises: `KindsInvariance` (`Kinds`), `StreamIsTyped` (`TypeOK`, `RetractionsAreAccounted`) |
| `Feed_proofs` | `FeedInvariant` (`FeedInv`), `BookAlwaysTrue` (`BookIsTrue`), `WatermarkHolds` (`WatermarkNeverFalls`, the safety half of `FeedKeepsUp`); `TapeInvariant` (`TapeInv`), `TapeAlwaysComplete` (`TapeIsComplete`) |
| `Bot_proofs` | `BotInvariant` (`BotInv`), `BotTypeCorrect`, `PositionBounded` (`PositionIsBounded`), `WithdrawnIsWithdrawn` (`QuotesDoNotOutliveTheBot`), `RefreshAllOrNothing` (`RefreshIsAllOrNothing`), `UncrossedInvariance` (`UncrossedInv`), `FreshRefreshAlwaysSettles` (`FreshRefreshSettles`) |

**Assumptions.** `LotsAssumption`, `MarketAssumption`, `ClobAssumption`,
`CorrelateAssumption`, `RegistryAssumption`, `StreamAssumption`,
`ViewerAssumption`, `FeedAssumption` and `FileStoreAssumption` say that the constants are of their type; TLC evaluates them in every run.
`TapesAssumption` is that a terminal keeps no more fills (256) than the registry
(1,024): the proof on the tape needs it, since a slot that has left a shorter
tape of the registry could be abandoned with its fills still on the screen and
nothing sent. `ParamsAssumption` is what `Params::validate` checks, and `BotAssumption` that
all traders start with is within one word, that the other traders quote at a
price, and that a ladder is no longer than `SHUTDOWN_CANCEL_LIMIT`. The
theorems on the ledger (those on `LedgerInv` and what follows from it), and the
two on swaps, have one premise more, `PricedOrders`: no order that can come to
rest is a bid at zero ticks. The program does not enforce it, and
the run `zero_price` is what happens without it, so it is a premise of those
theorems and not an assumption about the program. The first five theorems
of `Clob_proofs` do not need it. It asks nothing of swaps or of immediate orders, which never rest. The
theorems of `FileStore_proofs` have a premise on the disk: either no line is left
torn (`[](~open)`), or no write tears (`~Tears`). The code does not ensure it,
and the row on torn lines in the table above is what happens without it. (With a
torn line the rows of one slot can also come out of order.) They have no premise
on crashes: what a crash loses is in `missed`, and the theorems say of it when it
can be and where it lies.

The theorems of `Stream_proofs` but one are about behaviours in which the tape
can be exact at all; `StreamIsTyped` has no premise. Each premise rules out one row of the table above, where TLC shows
that the property fails:

| Premise | What it excludes |
|---|---|
| `DeadSlotsAreEmpty` | a slot that dies after a transaction wrote a market in it: the correlator keeps that book (`registry.rs:139`). Other slots may die |
| `QueuesHold` | a half pushed out of its pairing queue before the other came (`correlate.rs:206`). The capacity is any number |
| `ReconnectsBetweenPairs` | a reconnect while a half waits that will be delivered again (`correlate.rs:183`). Other reconnects may happen at any time, in the middle of the checkpoints too |
| `StartsAfresh` | a restart that finds a checkpoint (`main.rs:116`, the run `stream_crash_loses`). Only `NothingIsEverMissing` and `StreamImplementsTape` have it: rows and checkpoints stay true across every crash and resume |

TLC reaches, within the first three premises, a store with rows of two slots
after a crash and a resume from a checkpoint; and within all four one with several
rows after a dead slot, a refused write and a reconnect.

**Why `TypeOK` is not enough.** `IInv` adds what a step relies on:

- `OrderIdsUnique`, since `Best` and `Found` choose an order by its id;
- `CrossIsWellPosed`: the cross loop runs for a held seat and a sized packet,
  without which the balances a fill writes have no type;
- `VaultsHoldDeposits`;
- `NoIdReused` from `chain` to `work`. `StaleIdsStayDead` compares two commits
  that are many steps apart; carried along the steps of the instruction, the
  comparison becomes inductive.

`LedgerInv` adds `Balanced` for the committed account and the working copy: no
two wallets share a seat, each order is owned by a held seat and a bid is priced,
each seat has locked what its orders rest, and base and quote lots add up. It
also keeps that a packet in flight is of a price that may rest. None of
these is inductive alone: a fill conserves lots only if the maker's locked funds
cover it, which needs locked funds to equal what rests; that needs an
eviction to leave no order behind; that needs each bid to lock something.

`TradeInv` adds what ties a step of matching to the steps before it: between two
instructions the working copy is the committed account, so that beginning one
changes no book; the cross loop has touched no more makers than its limit; and
a cancel-all has left every order it has not reached as it was. The properties
compare two states and follow from it and the facts of one step; `Best` is the
least live order, so the order that a step takes from precedes every other.

`SwapSeatInv` carries a swap from its start to its pay-out. The pay-out withdraws
what the seat gained since, and gives the seat back if the swap made it: that
needs the seat to be the swap's own throughout, with nothing locked and nothing
resting. Neither holds of an arbitrary instruction: the swap's only packet is
immediate, so nothing it does posts, and a fill of another's order leaves the
orders of the seat alone.

`StoreInv` says where the file and memory can differ, in four parts. `ChainInv`:
rows are made in the order of slot, signature and position, so they are distinct,
and what a slot's flush takes is a prefix (`Through`, `UpTo`, `After` name the
cut). `PlacesInv`: no checkpoint is ahead of the root. `ListsInv`: memory and
then the queue are in order, with the watermark between them. `FileInv`: what
the file would load is memory and then, perhaps, rows of writes that failed after
some of them had reached the disk; those are the first of the rows still waiting,
so that writing them again adds none twice; while no process runs, it holds
everything acknowledged.

That is enough for the contract and says nothing of rows that are missing. A
restart goes on behind its checkpoint and not behind its last row, so `WholeInv`
follows a row from the chain to the file (`Absent` rows are in no list and not
passed over):

- `EndsInv`: the file ends with a rooted slot and no row up to there is absent
  from it, so the watermark a restart takes from the file hides nothing;
- `MissedInv`: what is passed over is in no list, lies behind the checkpoint, and
  is nothing unless a process died owing rows or started without a checkpoint;
- `RunningInv`: of what the process derived nothing is absent, memory has all it
  should up to the watermark, and the process derived what its checkpoint covers;
- `DownInv`: while no process runs, and unless one died owing rows, the file has
  all that the checkpoint covers. This is what makes the resume sound, and the
  crash of `stream_crash_loses` is what `owed` excuses. It holds because every
  other moment at which a checkpoint is filed is followed by its flush, or by
  rows that still wait and will be owed if the process dies.

`StoredExactly` follows: what is rooted was derived, none of it waits, so it is in
memory or passed over.

The invariant of `Stream_proofs` follows the writes of the chain, the account
updates of `sent`. `StoreIsTrue` says nothing of how a row came to be: a row is
derived when the second half of a transaction arrives, from the difference
between the book it brings and the one the correlator has, so it is true only if
that book is exactly what the write before it left. `IInv` has seven parts:

- `ChainInv`: the writes of a market come in the order of their slots, each adds
  what its transaction trades, and `cluster.trades` is the sum of them;
- `ProcessTypes` and `Fresh`: the types, and what a process that is starting
  holds;
- `WireInv`: where the readers are. Content is delivered by slot, so nothing
  that is still to come is older than `wire.last`, from which a reconnect
  replays;
- `PairInv`: a write the subscription covers is still to come, or waits for its
  transaction, or is settled; a half that waits was read, and its counterpart was
  not; if one write of a market waits, so do those read after it, so the writes
  of a market settle in order;
- `BaseInv`: the book the correlator has of a market is one that a write left, at
  the slot it says, and not behind any write settled; what still comes and is
  older than that book is no longer needed;
- `RowsInv`: rows that are stored or queued are trades of the chain; those
  stored are of rooted slots, and what is to be checkpointed is true.

The hard part is that order. Each kind of update is read in order, and yet the
halves of two transactions of one market can interleave. That the earlier write
settles first needs that neither of its halves is lost (`QueuesHold`) or comes
again while the other waits (`ReconnectsBetweenPairs`).

`CoverInv` is the other direction, from trades to rows. Each trade owed since
`since` is stored or queued once its write is settled; before that the book of the
correlator is still behind the trade, so it will be derived, unless it is recorded
already and only comes again after a reconnect; and what comes again from behind
the watermark is in the store. `StreamImplementsTape` takes each disjunct of `Next` in
turn: the cluster's steps are `Tape`'s, starting is `Cover`, and every other step
adds rows and moves the promise, or neither (`ClusterIsRoot`, `CoveringIsCover`,
`ConsumingAdds`).

The public tape needs two more invariants. `Kinds` needs no premise: it bounds the
pairing queues whatever they evict, and counts what `apply` and `retract` do to a
tape (`AppliedView`, `RetractedViewIs`; `retract` keeps a `Sublist`, of which
`SublistIs` says what it holds). `AllShownHappened` says of the tapes what `RowsInv`
says of the queue. A half adds to a tape only when it completes a pair, so it is
one that settles, and what is derived of it is what its write traded
(`SettledIsShown`); a retraction only removes; a process that starts shows nothing.

`FeedInv` looks at the frames between the registry and the screen as one queue,
`Pipe`: those read and not yet applied, then those in flight. `BookIsTrue` speaks
of a queue that is empty, so it says nothing a step could preserve. The
invariant adds:

- `LastBookSent`: the last book broadcast is the registry's, unless a later one
  is written and not yet sent;
- `Delivers`: on a socket with no lag notice in flight, with nothing left to
  forward, the last book in the queue (or, if none is queued, the one on the
  screen) is the registry's;
- `Opens`: on such a socket the screen is open, or a snapshot with no lag notice
  behind it is on its way;
- `Real` and `Rising`: every book in the queue was the market's, and watermarks
  are in order along it, across the frames a lost connection left in the inbox.

Every step leaves the queue alone, appends a frame, cuts its end off or shows its
head (`QueueStep`), so each part has those four cases. `Delivers` relies on a lag
ending the connection: without it a screen could drain its queue and stay behind.

`TapeInv` is for `TapeIsComplete`, which also speaks of an empty queue only. Its
parts follow `Story`, every event there has been and the one unsent, from the
registry to the screen:

- `History` is about ingest alone: changes are numbered and slots in order, a
  slot is withdrawn once and trades no more (`Numbered`, `InTurn`,
  `WithdrawnOnce`), the registry's tape holds fills of live slots in order, and
  every fill is `Accounted` for. Its slot is on the registry's tape, so that
  abandoning it will say so; or it was withdrawn; or it was overtaken by a full
  tape of later fills, none of them withdrawn by then;
- `QueueInTurn` and `ScreenTape`: a frame that changes a tape is that of one
  event the socket's task is past; frames are in the order of their events, and
  the fills on the screen are of events before all of them;
- `Screen`, while the connection is `Live`, that is, no lag notice is in
  flight: what is still to come comes after what has come (`InOrder`); a recent
  fill of no withdrawal shown is still to come, on the screen, or `Missed`,
  below all of a tape that more recent fills than it holds have filled
  (`NoneLost`); a withdrawal shown leaves no fill of its slot (`NoneLeft`), and
  an overtaken fill is off the screen once what overtook it is shown
  (`NoneOvertaken`).

`NoneOvertaken` is why the last case of `Accounted` does no harm: abandoning a
slot the registry no longer remembers sends nothing, and a terminal that is not
behind has by then been filled with later fills. A connection that is no longer
live, or a new one, says nothing of the screen or has everything still to come,
so lags and lost connections need no part of their own. At the end, with nothing
to come, a fill on the screen is recent and of a live slot or older than all
recent ones, and a fill that is missing was missed below a full tape. Fills an
earlier connection left are outside it: that they may be of an abandoned slot is
the row `PhantomsAreWithdrawn` above.

`BotInv` says how much of the bot's can be on one side of the book, counted in
orders and in lots (`Measures`):

- `OneLadderEach`: what rests, and what late refreshes may still place, is at most
  one ladder and one for each lost reply; while a refresh is on its way, what it
  will not cancel is at most one for each lost reply, which is what makes room for
  the ladder it brings;
- `FilledIsBounded`: were all that rests, is on its way or is late to fill, the
  position would be within the bound. The bot adds to a side only while the
  position is within the limit, but it measures that before it sends;
- `WithdrawnLeavesLost`: after a withdrawal only late refreshes are left.

`Sound` (the account is well formed and balanced, as in `LedgerInv`) comes with
them, since a fill moves the position by what the order loses only on such an
account. A transaction lands on an account its planner never saw, so the lemmas
are about a run of steps from any sound account (`RunFacts`, `ExecutedRests`).
That a refresh is all or nothing is about one step and needs the invariant too:
its cancels take the orders they name, and no other, since ids are unique, and
its packets each add one order under an id that none had (`Grown`).

`FreshRefreshSettles` needs one more part, `UncrossedInv`: no bid on the book
reaches an ask. Without it there would be no price at which to quote. From such a
book the argument follows the code. The rungs of a side are a tick or more apart,
end short of the others' best on the far side, and lock together no more than the
seat has, so the cancels free what the ladder takes (`CancelsClear`,
`FundedPrefix`) and each packet in turn finds room, funds and nothing to cross
(`RungFits`, `RungLays`, `OtherSideStays`). Afterwards the price is computed from
the same quotes of the others and the ladder from the same sum of free and locked
lots, so the next ladder is the one that rests (`SameLadder`, `RungQueue`,
`RaisedHolds`) and no transaction is due. The proof found a premise that the
property lacked: a book filled by others to within a ladder of its capacity
refuses a packet and with it the batch, so the property now asks for `HasRoom`;
no instance TLC had checked was small enough to show it.

**Shape.** Each method has a lemma of `Market_proofs` for types and ids and one
for sums (by `SumUpdate`, with one fill split into the maker's leg and the
taker's). Each action has a lemma that combines those of the methods it
calls. The step theorem splits on the disjuncts of `Next`; the theorems that
name properties follow from the invariant. `ExitIsAlwaysOpen` and
`SettlementAlwaysSucceeds` use the size of the word: what a checked addition
could overflow is bounded by the conserved total, which the vault holds in one
`u64`.

**Only model-checked.** Every property of the modules `Reader` (folds over the
levels of a book), `Tree` (walks along links, as
functions whose recursion ends only because the links form a tree) and `Indexer` (orders
sorted into sequences), with the refinement of `OrderedMap`; of `Stream`, the
liveness `EveryTradeIsStored`, and its safety outside the premises above:
`stream_faults` checks `StoreIsTrue`, `TapeIsTrue` and `CheckpointsMatchChain`
also where the slot that dies holds the only write of a market. Of `Bot`, the liveness `QuotesSettle`; of
`FileStore`, `ReadsAreExact` (folds and filters over rows, of which the prover
knows nothing); of `Feed`, the liveness `FeedCatchesUp`; of `Clob`, the liveness `InstructionsEnd`. Liveness needs
`ENABLED`, which the prover does not handle. Sums are recursive functions, not
`RECURSIVE` operators. The prover has no induction over data, so `SumUpdate`
argues from the least index at which it could fail, and so does the lemma of
`FileStore_proofs` that a cut of ordered rows is a prefix. TLC agreed to each of
the invariants on the small instances before it was proved.

## 5. Not modelled, and the plan

Out of scope for good: byte layouts of instructions and accounts, address
derivation, rendering, command-line tools and key handling, the SQL of the
ClickHouse store beyond the order and the deduplication of its rows, the
TypeScript SDK and the browser's copy of the reducer. A market's summary and a
trader's page are reads of one state and are left out, except the spread.

What the models abstract, and what follows from it:

- An order that is posted and consumed inside one transaction is in neither book
  the indexer compares, so it is missing from the tape by design; the inputs of
  `Indexer` do not consume what they post. The same goes for an order that one
  transaction takes from and then cancels, and for instructions another program
  invokes.
- `touches_the_book` (`attribute.rs:67`) leaves `BatchUpdate` out, but nothing
  calls it.
- A checkpoint file is renamed into place without an fsync; the model takes the
  rename as durable.
- A market with a write in every slot is never checkpointed, since its last
  state is always newer than the root. This costs a longer replay, which no
  property is about.
- The registry's tape in memory is not deduplicated on reconnect; the store is.
- Of two checkpoints of one slot ClickHouse keeps the last and the memory store
  the first; the ingest loop writes one.
- The order queues of the correlator keep signatures already paired, which only
  makes eviction earlier than its bound says.

Work that remains:

1. The arena: `SlotsAreDisjoint`, `HandlesAreStable` and `CheckPasses`, with an
   invariant that gives each node a rank, a black height and an interval of keys,
   and the walks written as functions of the number of links followed.
2. `TapeIsTrue` where a slot with trades dies, which needs `IInv` for the markets
   that the slot did not touch.
3. `Exchange`: an abstract exchange (balances per trader, a set of orders, an
   atomic match) that `Clob` implements, with `chain` as the refinement mapping.
