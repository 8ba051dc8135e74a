------------------------------- MODULE Stream -------------------------------
(***************************************************************************)
(* The ingest side of the stream against a cluster: slots that are closed, *)
(* abandoned and finalized, their updates on the wire, the loop that       *)
(* consumes them, the store, and crashes of the process.                   *)
(*                                                                         *)
(* The cluster and the gRPC client are external.  A slot's content is      *)
(* delivered when the slot is confirmed, after that of earlier slots:      *)
(* account updates in the order of the writes, transactions in the order   *)
(* they ran, the two interleaved freely.  Slot statuses come in their own  *)
(* order, each some time after the slot's content.                         *)
(*                                                                         *)
(* Handling one content update awaits nothing, so it is one action.  A     *)
(* finalized slot is handled across awaits: one checkpoint per market and  *)
(* then the flush, each an action, with a crash possible in between.       *)
(*                                                                         *)
(* Source: crates/clob-stream/src/main.rs, pipeline.rs, laserstream.rs,    *)
(* snapshot.rs, source.rs                                                  *)
(***************************************************************************)
EXTENDS Correlate, Registry, Flush

CONSTANTS
  MarketOf,       \* the market of each transaction
  Fills,          \* how many resting orders each transaction consumes
  MaxSlot,        \* bound: slots of the cluster
  MaxDead,        \* bound: slots abandoned
  MaxFailing,     \* bound: transactions that land but fail
  MaxStoreErrors, \* bound: failed writes to the store
  MaxReconnects,  \* bound: reconnects of the gRPC client
  MaxCrashes      \* bound: crashes of the process

ASSUME StreamAssumption ==
  /\ MarketOf \in [Signatures -> Markets]
  /\ Fills \in [Signatures -> Nat \ {0}]
  /\ {MaxSlot, MaxDead, MaxFailing, MaxStoreErrors, MaxReconnects, MaxCrashes} \subseteq Nat

VARIABLES
  cluster,    \* the chain: open slot, book of each market, what landed
  sent,       \* every update the cluster ever sent, by kind
  wire,       \* the subscription, and how far the process has read it
  correlator,
  pending,
  views,      \* the registry
  store,      \* rows and checkpoints: what survives a crash
  stage,      \* where ingest is
  todo,       \* the slot being finalized, and the markets to checkpoint
  faults,     \* how often each fault happened
  since       \* trades of slots after this are owed: where coverage began

process == <<correlator, pending, views, stage, todo>>
vars == <<cluster, sent, wire, process, store, faults, since>>

-----------------------------------------------------------------------------
(* The cluster. *)

NoUpdates == [accounts |-> <<>>, transactions |-> <<>>, slots |-> <<>>]

Send(accounts, transactions, slots) ==
  sent' = [sent EXCEPT !.accounts = @ \o accounts,
                       !.transactions = @ \o transactions,
                       !.slots = @ \o slots]

AccountUpdate(slot, market, data, signature) ==
  [slot |-> slot, market |-> market, data |-> data, signature |-> signature]

(* A market's book at the end of a slot: every consumed order is a trade. *)
BookAt(market, slot) ==
  Cardinality({t \in cluster.trades : t.market = market /\ t.slot <= slot})

(* A transaction lands in the open slot and consumes the next orders. *)
Land(signature) ==
  LET market == MarketOf[signature]
      before == BookAt(market, cluster.slot)
      after  == before + Fills[signature]
  IN  /\ cluster.slot <= MaxSlot
      /\ signature \notin cluster.landed
      /\ cluster' = [cluster EXCEPT
           !.landed = @ \cup {signature},
           !.trades = @ \cup {[market |-> market, slot |-> cluster.slot,
                               signature |-> signature, order |-> n] : n \in before + 1 .. after}]
      /\ Send(<<AccountUpdate(cluster.slot, market, after, signature)>>,
              <<[slot |-> cluster.slot, signature |-> signature, succeeded |-> TRUE]>>,
              <<>>)
      /\ UNCHANGED <<wire, process, store, faults, since>>

LandFailing(signature) ==
  /\ cluster.slot <= MaxSlot
  /\ signature \notin cluster.landed
  /\ faults.failing < MaxFailing
  /\ cluster' = [cluster EXCEPT !.landed = @ \cup {signature}]
  /\ Send(<<>>, <<[slot |-> cluster.slot, signature |-> signature, succeeded |-> FALSE]>>, <<>>)
  /\ faults' = [faults EXCEPT !.failing = @ + 1]
  /\ UNCHANGED <<wire, process, store, since>>

CloseSlot ==
  /\ cluster.slot <= MaxSlot
  /\ cluster' = [cluster EXCEPT !.slot = @ + 1]
  /\ Send(<<>>, <<>>, <<[slot |-> cluster.slot, status |-> "confirmed"]>>)
  /\ UNCHANGED <<wire, process, store, faults, since>>

Unrooted == {s \in 1 .. cluster.slot - 1 : s > cluster.rooted /\ s \notin cluster.dead}

(* The last confirmed slot is abandoned before anything builds on it; what *)
(* landed in it may land again later.                                      *)
AbandonSlot ==
  LET slot == cluster.slot - 1
      lost == {t \in cluster.trades : t.slot = slot}
  IN  /\ slot \in Unrooted
      /\ \A t \in cluster.trades : t.slot <= slot
      /\ faults.dead < MaxDead
      /\ cluster' = [cluster EXCEPT
           !.dead = @ \cup {slot}, !.trades = @ \ lost,
           !.landed = @ \ {t.signature : t \in lost}]
      /\ Send(<<>>, <<>>, <<[slot |-> slot, status |-> "dead"]>>)
      /\ faults' = [faults EXCEPT !.dead = @ + 1]
      /\ UNCHANGED <<wire, process, store, since>>

FinalizeSlot ==
  \E slot \in Unrooted :
    /\ \A s \in Unrooted : slot <= s
    /\ cluster' = [cluster EXCEPT !.rooted = slot]
    /\ Send(<<>>, <<>>, <<[slot |-> slot, status |-> "finalized"]>>)
    /\ UNCHANGED <<wire, process, store, faults, since>>

(* The trades that can no longer be rolled back. *)
RootedTrades == {t \in cluster.trades : t.slot <= cluster.rooted}

-----------------------------------------------------------------------------
(* Starting. *)

(* A subscription from a slot on: what was read of each kind of update,    *)
(* and the last slot delivered, which a reconnect replays from.            *)
Replay(slot) ==
  [from |-> slot, startup |-> {}, accounts |-> 0, transactions |-> 0, slots |-> 0,
   last |-> slot]

NoWire == Replay(0)

(* Updates of one kind that are still to come. *)
Due(updates, read) == {i \in read + 1 .. Len(updates) : updates[i].slot >= wire.from}
DueAccounts == Due(sent.accounts, wire.accounts)
DueTransactions == Due(sent.transactions, wire.transactions)
DueSlots == Due(sent.slots, wire.slots)

IsNext(i, due) == i \in due /\ \A j \in due : i <= j

(* The newest confirmed slot that still stands. *)
LiveSlot ==
  CHOOSE s \in 0 .. cluster.slot - 1 :
    /\ s \notin cluster.dead
    /\ \A r \in 0 .. cluster.slot - 1 : r > s => r \in cluster.dead

Checkpointed == {m \in Markets : store.checkpoints[m].slot # Unknown}

OldestCheckpoint ==
  LET slots == {store.checkpoints[m].slot : m \in Checkpointed}
  IN  CHOOSE s \in slots : \A r \in slots : s <= r

(* restore: a correlator that knows the checkpointed books. *)
RestoredCorrelator == SeedAt(Checkpointed, store.checkpoints)

Resuming(known) == ResumingFrom(HighestSlot(store.rows, known))

(* With checkpoints: replay from the oldest. *)
Resume ==
  /\ stage = "down"
  /\ Checkpointed # {}
  /\ correlator' = RestoredCorrelator
  /\ views' = [m \in Markets |->
       IF m \in Checkpointed
       THEN NewView(store.checkpoints[m].data, store.checkpoints[m].slot) ELSE NoView]
  /\ pending' = Resuming(Checkpointed)
  /\ wire' = Replay(OldestCheckpoint + 1)
  /\ stage' = "next"
  /\ UNCHANGED <<cluster, sent, todo, store, faults, since>>

(* Without: subscribe first, to every slot not yet confirmed.  The cluster *)
(* may start with an unattributed update, a market's state as it stands.   *)
Subscribe ==
  /\ stage = "down"
  /\ Checkpointed = {}
  /\ \E startup \in {{}} \cup
        {{AccountUpdate(LiveSlot, m, BookAt(m, LiveSlot), NoSignature)} : m \in Markets} :
       wire' = [Replay(cluster.slot) EXCEPT !.startup = startup]
  /\ stage' = "seed"
  /\ UNCHANGED <<cluster, sent, correlator, pending, views, todo, store, faults, since>>

(* Then snapshot every market over RPC, as of a confirmed slot.  Trades    *)
(* after it that the subscription covers are owed from here on.            *)
SeedFromRpc ==
  LET snapshot == [m \in Markets |-> [data |-> BookAt(m, LiveSlot), slot |-> LiveSlot]]
  IN  /\ stage = "seed"
      /\ correlator' = SeedAt(Markets, snapshot)
      /\ views' = [m \in Markets |-> NewView(snapshot[m].data, LiveSlot)]
      /\ pending' = Resuming(Markets)
      /\ stage' = "next"
      /\ since' = LiveSlot
      /\ UNCHANGED <<cluster, sent, wire, todo, store, faults>>

(* The RPC node cannot be reached: start cold.  The first transaction of   *)
(* each market is then a baseline, so nothing is owed.                     *)
StartCold ==
  /\ stage = "seed"
  /\ pending' = NewPending
  /\ stage' = "next"
  /\ since' = MaxSlot
  /\ UNCHANGED <<cluster, sent, wire, correlator, views, todo, store, faults>>

(* The client reconnects by itself and replays from the last slot it       *)
(* delivered.                                                              *)
Reconnect ==
  /\ stage \in {"next", "checkpoint"}
  /\ faults.reconnects < MaxReconnects
  /\ wire' = Replay(wire.last)
  /\ faults' = [faults EXCEPT !.reconnects = @ + 1]
  /\ UNCHANGED <<cluster, sent, process, store, since>>

(* Nothing but the store survives. *)
Crash ==
  /\ stage # "down"
  /\ faults.crashes < MaxCrashes
  /\ correlator' = NewCorrelator
  /\ pending' = NewPending
  /\ views' = [m \in Markets |-> NoView]
  /\ todo' = [slot |-> 0, markets |-> {}]
  /\ stage' = "down"
  /\ wire' = NoWire
  /\ faults' = [faults EXCEPT !.crashes = @ + 1]
  /\ UNCHANGED <<cluster, sent, store, since>>

-----------------------------------------------------------------------------
(* Content. *)

(* What the derivation reports of a change: the orders that left the book, *)
(* under the change's slot and signature.                                  *)
Derived(change) ==
  [i \in 1 .. IF change.after > change.before THEN change.after - change.before ELSE 0 |->
     [market |-> change.market, slot |-> change.slot,
      signature |-> change.signature, order |-> change.before + i]]

RowsOf(trades) == {trades[i] : i \in DOMAIN trades}

(* The rest of the loop's body, after correlator.accept. *)
Handle(outcome) ==
  /\ correlator' = outcome.correlator
  /\ \/ /\ outcome.changes = {}
        /\ UNCHANGED <<pending, views>>
     \/ \E change \in outcome.changes :
          /\ change.before = Unknown
          /\ views' = [views EXCEPT ![change.market] = SeedView(@, change.after, change.slot)]
          /\ UNCHANGED pending
     \/ \E change \in outcome.changes :
          /\ change.before # Unknown
          /\ pending' = Record(pending, change.slot, RowsOf(Derived(change)))
          /\ views' = [views EXCEPT
               ![change.market] = ApplyDerived(@, change.after, change.slot, Derived(change))]

(* The slots of content still to come. *)
ContentSlots ==
  {u.slot : u \in wire.startup} \cup {sent.accounts[i].slot : i \in DueAccounts}
    \cup {sent.transactions[i].slot : i \in DueTransactions}

(* The next content is of a confirmed slot, and of the earliest. *)
Delivers(slot) ==
  /\ stage = "next"
  /\ slot < cluster.slot
  /\ \A s \in ContentSlots : slot <= s

ReceiveStartup ==
  \E update \in wire.startup :
    /\ Delivers(update.slot)
    /\ wire' = [wire EXCEPT !.startup = {}, !.last = MaxOf(@, update.slot)]
    /\ Handle(AcceptAccount(correlator, update))
    /\ UNCHANGED <<cluster, sent, stage, todo, store, faults, since>>

ReceiveAccount ==
  \E i \in DueAccounts :
    LET update == sent.accounts[i]
    IN  /\ wire.startup = {}
        /\ IsNext(i, DueAccounts)
        /\ Delivers(update.slot)
        /\ wire' = [wire EXCEPT !.accounts = i, !.last = MaxOf(@, update.slot)]
        /\ Handle(AcceptAccount(correlator, update))
        /\ UNCHANGED <<cluster, sent, stage, todo, store, faults, since>>

ReceiveTransaction ==
  \E i \in DueTransactions :
    LET update == sent.transactions[i]
    IN  /\ IsNext(i, DueTransactions)
        /\ Delivers(update.slot)
        /\ wire' = [wire EXCEPT !.transactions = i, !.last = MaxOf(@, update.slot)]
        /\ Handle(AcceptTransaction(correlator, update))
        /\ UNCHANGED <<cluster, sent, stage, todo, store, faults, since>>

-----------------------------------------------------------------------------
(* Slot statuses. *)

(* A status comes after the content of its slot. *)
Reported(slot, status) ==
  /\ stage = "next"
  /\ \E i \in DueSlots :
       /\ sent.slots[i] = [slot |-> slot, status |-> status]
       /\ IsNext(i, DueSlots)
       /\ \A s \in ContentSlots : s > slot
       /\ wire' = [wire EXCEPT !.slots = i, !.last = MaxOf(@, slot)]

ReceiveConfirmed(slot) ==
  /\ Reported(slot, "confirmed")
  /\ correlator' = AcceptSlot(correlator, slot, "confirmed")
  /\ UNCHANGED <<cluster, sent, pending, views, stage, todo, store, faults, since>>

ReceiveDead(slot) ==
  /\ Reported(slot, "dead")
  /\ pending' = RetractPending(pending, slot)
  /\ views' = [m \in Markets |-> RetractView(views[m], slot)]
  /\ correlator' = AcceptSlot(correlator, slot, "dead")
  /\ UNCHANGED <<cluster, sent, stage, todo, store, faults, since>>

ReceiveFinalized(slot) ==
  /\ Reported(slot, "finalized")
  /\ views' = [m \in Markets |-> FinalizeView(views[m], slot)]
  /\ todo' = [slot |-> slot, markets |-> KnownMarkets(correlator)]
  /\ stage' = "checkpoint"
  /\ UNCHANGED <<cluster, sent, correlator, pending, store, faults, since>>

(* Mutant of IsRooted: labels whatever is known as rooted. *)
AnyKnown(market) == correlator.known_at[market] >= 0

(* A market whose state is newer than the slot is skipped. *)
IsRooted(market) == correlator.known_at[market] <= todo.slot

Checkpoint(market) ==
  /\ stage = "checkpoint"
  /\ market \in todo.markets
  /\ todo' = [todo EXCEPT !.markets = @ \ {market}]
  /\ store' = IF IsRooted(market)
              THEN [store EXCEPT !.checkpoints[market] =
                      SaveCheckpoint(@, [slot |-> correlator.known_at[market],
                                         data |-> correlator.latest[market]])]
              ELSE store
  /\ UNCHANGED <<cluster, sent, wire, correlator, pending, views, stage, faults, since>>

(* Reported and forgotten: the next finalized slot tries again. *)
CheckpointFails(market) ==
  /\ stage = "checkpoint"
  /\ market \in todo.markets
  /\ IsRooted(market)
  /\ faults.store < MaxStoreErrors
  /\ todo' = [todo EXCEPT !.markets = @ \ {market}]
  /\ faults' = [faults EXCEPT !.store = @ + 1]
  /\ UNCHANGED <<cluster, sent, wire, correlator, pending, views, stage, store, since>>

(* The loop goes on to correlator.accept, which only moves the tip. *)
Finish ==
  /\ correlator' = AcceptSlot(correlator, todo.slot, "finalized")
  /\ todo' = [slot |-> 0, markets |-> {}]
  /\ stage' = "next"

FlushRooted ==
  /\ stage = "checkpoint"
  /\ todo.markets = {}
  /\ pending' = TakeThrough(pending, todo.slot)
  /\ store' = [store EXCEPT !.rows = AppendRows(@, Rooted(pending, todo.slot))]
  /\ Finish
  /\ UNCHANGED <<cluster, sent, wire, views, faults, since>>

(* The write reports an error: the rows are queued again, whatever part of *)
(* them the store took.                                                    *)
FlushFails ==
  LET rows == Rooted(pending, todo.slot)
  IN  /\ stage = "checkpoint"
      /\ todo.markets = {}
      /\ faults.store < MaxStoreErrors
      /\ rows # {}
      /\ pending' = Requeue(TakeThrough(pending, todo.slot), rows)
      /\ \E written \in SUBSET rows :
           store' = [store EXCEPT !.rows = AppendRows(@, written)]
      /\ faults' = [faults EXCEPT !.store = @ + 1]
      /\ Finish
      /\ UNCHANGED <<cluster, sent, wire, views, since>>

-----------------------------------------------------------------------------
Init ==
  /\ cluster = [slot |-> 1, rooted |-> 0, dead |-> {}, landed |-> {}, trades |-> {}]
  /\ sent = NoUpdates
  /\ wire = NoWire
  /\ correlator = NewCorrelator
  /\ pending = NewPending
  /\ views = [m \in Markets |-> NoView]
  /\ store = [rows |-> {}, checkpoints |-> [m \in Markets |-> [slot |-> Unknown, data |-> Unknown]]]
  /\ stage = "down"
  /\ todo = [slot |-> 0, markets |-> {}]
  /\ faults = [dead |-> 0, failing |-> 0, store |-> 0, reconnects |-> 0, crashes |-> 0]
  /\ since = MaxSlot

Cluster ==
  \/ \E s \in Signatures : Land(s) \/ LandFailing(s)
  \/ CloseSlot \/ AbandonSlot \/ FinalizeSlot

Ingest ==
  \/ Resume \/ Subscribe \/ SeedFromRpc \/ StartCold
  \/ ReceiveStartup \/ ReceiveAccount \/ ReceiveTransaction
  \/ \E s \in 1 .. MaxSlot : ReceiveConfirmed(s) \/ ReceiveDead(s) \/ ReceiveFinalized(s)
  \/ \E m \in Markets : Checkpoint(m)
  \/ FlushRooted

Fault ==
  \/ Reconnect \/ Crash \/ FlushFails
  \/ \E m \in Markets : CheckpointFails(m)

Next == Cluster \/ Ingest \/ Fault

Spec == Init /\ [][Next]_vars

(* The chain, the endpoint and the loop keep going, and a write that can    *)
(* succeed is in the end tried.  Nothing is assumed of transactions.        *)
FairSpec ==
  /\ Spec
  /\ WF_vars(CloseSlot)
  /\ WF_vars(FinalizeSlot)
  /\ WF_vars(Ingest)

-----------------------------------------------------------------------------
(* Properties. *)

(* Every variable holds a value of its kind. *)
TypeOK ==
  /\ cluster.slot \in 1 .. MaxSlot + 1 /\ cluster.rooted \in 0 .. MaxSlot
  /\ cluster.dead \subseteq 1 .. MaxSlot /\ cluster.landed \subseteq Signatures
  /\ correlator.latest \in [Markets -> {Unknown} \cup Nat]
  /\ correlator.known_at \in [Markets -> Unknown .. MaxSlot]
  /\ correlator.transactions \subseteq Signatures
  /\ WaitingAccounts(correlator) \subseteq Signatures
  /\ Len(correlator.transaction_order) <= PendingCapacity
  /\ Len(correlator.account_order) <= PendingCapacity
  /\ pending.flushed_through \in 0 .. MaxSlot
  /\ \A m \in Markets : Len(views[m].tape) <= TapeCapacity
  /\ stage \in {"down", "seed", "next", "checkpoint"}
  /\ todo.slot \in 0 .. MaxSlot /\ todo.markets \subseteq Markets

(* No row of the store ever turns out to be false: each is a trade of a    *)
(* finalized slot, under its own signature, whatever was redelivered,      *)
(* retried, abandoned or lost in a crash.                                  *)
StoreIsTrue == store.rows \subseteq RootedTrades

(* Behind the watermark of the flush, every trade since coverage began is  *)
(* in the store, also after failed and half-done writes and reconnects.    *)
NothingMissing ==
  stage = "next" =>
    {t \in RootedTrades : since < t.slot /\ t.slot <= pending.flushed_through}
      \subseteq store.rows

(* A trade on a public tape happened, or its slot's death is still on its  *)
(* way.                                                                    *)
DeathReported(slot) ==
  \A i \in DueSlots : sent.slots[i] # [slot |-> slot, status |-> "dead"]

ShownTradesHappened ==
  stage # "down" =>
    \A m \in Markets : \A t \in RowsOf(views[m].tape) :
      \/ t \in cluster.trades
      \/ t.slot \in cluster.dead /\ ~ DeathReported(t.slot)

(* What was published is on the tape or was publicly withdrawn, until the  *)
(* tape is full.                                                           *)
RetractionsAreAccounted ==
  \A m \in Markets : views[m].trades_seen <= TapeCapacity =>
    views[m].trades_seen = Len(views[m].tape) + views[m].trades_retracted

(* The public tapes, between any two steps of the process.  *)
TapeIsTrue == TypeOK /\ ShownTradesHappened /\ RetractionsAreAccounted

(* A checkpoint is the market's book at the end of the slot it names, when  *)
(* that slot still stands: what a restart resumes from was really there.   *)
CheckpointsMatchChain ==
  \A m \in Checkpointed :
    store.checkpoints[m].slot \notin cluster.dead =>
      store.checkpoints[m].data = BookAt(m, store.checkpoints[m].slot)

(* A trade of a slot that is not the last one finalized reaches the store: *)
(* a store that is briefly unreachable costs latency, not data.            *)
EveryTradeIsStored ==
  \A s \in Signatures :
    []((\E t \in RootedTrades : t.signature = s /\ since < t.slot /\ t.slot < MaxSlot)
        => <>(\E t \in store.rows : t.signature = s))

(* The stream implements the contract of its store. *)
AllTrades == [market : Markets, slot : 1 .. MaxSlot, signature : Signatures, order : Nat]

Contract ==
  INSTANCE Tape WITH
    Trades <- AllTrades,
    LastSlot <- MaxSlot,
    rooted <- RootedTrades,
    durable <- store.rows,
    from <- since,
    through <- pending.flushed_through

StreamKeepsTheContract == Contract!TapeSpec

-----------------------------------------------------------------------------
(* Where the tape is exact: what Stream_proofs asks of a behaviour.  Each   *)
(* part rules out one of the known limits of README.md.                    *)

(* No slot dies in which a transaction wrote a market. *)
DeadSlotsAreEmpty ==
  \A i \in DOMAIN sent.accounts : sent.accounts[i].slot \notin cluster.dead

(* Whichever half comes next, it pushes none that waits out of its queue.  *)
HasPlace(order, waiting) ==
  \A s \in Signatures : Evicted(Queued(order, waiting, s)) \cap (waiting \cup {s}) = {}

QueuesHold ==
  /\ HasPlace(correlator.transaction_order, correlator.transactions)
  /\ HasPlace(correlator.account_order, WaitingAccounts(correlator))

Calm == DeadSlotsAreEmpty /\ QueuesHold

(* No half of a slot that a reconnect would replay is waiting to be paired. *)
NothingReplayedWaits ==
  /\ \A half \in correlator.accounts : half.slot < wire.last
  /\ \A i \in DOMAIN sent.transactions :
       sent.transactions[i].signature \in correlator.transactions =>
         sent.transactions[i].slot < wire.last

ReconnectsBetweenPairs == [][Reconnect => NothingReplayedWaits]_vars

(* A process that restarts finds no checkpoint to resume from. *)
StartsAfresh == stage = "down" => Checkpointed = {}

-----------------------------------------------------------------------------
(* Known limits: what a comment or a document says and the code does not   *)
(* keep.  TLC refutes each; README.md gives the instance.                  *)

(* A checkpoint describes a book that can no longer be rolled back. *)
CheckpointsAreRooted ==
  \A m \in Checkpointed :
    /\ store.checkpoints[m].slot <= cluster.rooted
    /\ store.checkpoints[m].slot \notin cluster.dead
=============================================================================
