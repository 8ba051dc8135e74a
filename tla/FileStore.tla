------------------------------ MODULE FileStore ------------------------------
(***************************************************************************)
(* The store a single-node deployment runs on: rows go to a file of lines  *)
(* and then to memory, which serves every read; a restart loads the file.  *)
(* Around it the rest of the process: it derives trades, queues their rows *)
(* until their slot is rooted, tries failed writes again, and writes a     *)
(* checkpoint of the market, from which a restart goes on.  One market,    *)
(* and a row for each fill: [slot, signature, order, price, lots, quote].  *)
(*                                                                         *)
(* Source: crates/clob-stream/src/main.rs, flush.rs, store/file.rs,        *)
(* store/memory.rs, correlate.rs                                           *)
(***************************************************************************)
EXTENDS Candles

CONSTANTS
  Prices,          \* prices fills happen at
  Sizes,           \* sizes of fills
  QuotePerTick,    \* quote lots one base lot costs per tick of price
  Intervals,       \* candle intervals asked for
  MaxTrades,       \* bound: fills there are
  MaxFailures,     \* bound: writes that fail
  MaxCrashes,      \* bound: crashes
  Tears            \* whether a write can stop inside a batch

ASSUME FileStoreAssumption ==
  /\ MaxSlot \in Nat \ {0} /\ MaxTrades \in Nat /\ MaxFailures \in Nat /\ MaxCrashes \in Nat
  /\ Prices \subseteq Nat \ {0} /\ Sizes \subseteq Nat \ {0} /\ Intervals \subseteq Nat \ {0}
  /\ QuotePerTick \in Nat \ {0}
  /\ Tears \in BOOLEAN

NoCheckpoint == -1

VARIABLES
  made,       \* fills the chain has made, in order
  rooted,     \* the highest slot heard to be rooted
  derived,    \* how many of made the process has derived, or starts after
  known,      \* Correlator::known_at
  queue,      \* Pending::by_slot: rows waiting to be written
  through,    \* Pending::flushed_through
  memory,     \* Memory: rows in the order they were appended
  noted,      \* Memory: the slot of the checkpoint
  disk,       \* lines of the trades file
  open,       \* whether its last line lacks the newline
  checkpoint, \* the slot of the checkpoint file
  up,         \* whether the process runs
  acked,      \* history: rows whose append succeeded
  missed,     \* history: rows passed over, neither stored nor queued
  faults      \* history: failures and crashes, and whether a process died with
              \* rooted rows unwritten, and whether one found no checkpoint

chain == <<made, rooted>>
files == <<disk, open, checkpoint>>
history == <<acked, missed, faults>>
vars == <<made, rooted, derived, known, queue, through, memory, noted, disk, open,
          checkpoint, up, acked, missed, faults>>

Unreadable == [slot |-> 0]

(* A first start, at slot 0. *)
Init ==
  /\ made = <<>>
  /\ rooted = 0
  /\ derived = 0
  /\ known = 0
  /\ queue = <<>>
  /\ through = 0
  /\ memory = <<>>
  /\ noted = NoCheckpoint
  /\ disk = <<>>
  /\ open = FALSE
  /\ checkpoint = NoCheckpoint
  /\ up = TRUE
  /\ acked = {}
  /\ missed = {}
  /\ faults = [failures |-> 0, crashes |-> 0, owed |-> FALSE, cold |-> FALSE]

-----------------------------------------------------------------------------
(* Memory. *)

(* Mutant of SameTrade: one fill of a transaction is every fill of it. *)
SameTransaction(t, u) == t.slot = u.slot /\ t.signature = u.signature

SameTrade(t, u) == t.slot = u.slot /\ t.signature = u.signature /\ t.order = u.order

(* One line more: what cannot be parsed is skipped, and so is a trade that *)
(* is there already.                                                       *)
Taken(rows, line) ==
  IF line = Unreadable \/ (\E n \in DOMAIN rows : SameTrade(rows[n], line))
  THEN rows ELSE Append(rows, line)

(* Memory::append, after the first n of the batch. *)
Appended(rows, batch) ==
  LET kept[n \in 0 .. Len(batch)] ==
        IF n = 0 THEN rows ELSE Taken(kept[n - 1], batch[n])
  IN  kept[Len(batch)]

(* Memory::highest_slot, 0 for none. *)
Highest(rows) == IF rows = <<>> THEN 0
                 ELSE CHOOSE s \in Slots(rows) : \A r \in Slots(rows) : r <= s

(* The file. *)

(* Mutant of Load: every line is a row. *)
LoadEvery(lines) == SelectSeq(lines, LAMBDA line : line # Unreadable)

(* Files::load *)
Load(lines) == Appended(<<>>, lines)

(* Lines added to the file.  If the last one lacks its newline, the first  *)
(* of them continues it, and neither can be parsed.                        *)
Joined(lines) ==
  IF lines = <<>> THEN disk
  ELSE IF open THEN Front(disk) \o <<Unreadable>> \o Tail(lines)
  ELSE disk \o lines

(* What a write of batch that did not succeed can have left: nothing, all  *)
(* of it, or a part that ends inside a line or just before a newline.      *)
Leavings(batch) ==
  {[disk |-> disk, open |-> open], [disk |-> Joined(batch), open |-> FALSE]}
  \cup (IF Tears
        THEN UNION {{[disk |-> Joined(SubSeq(batch, 1, n)), open |-> FALSE],
                     [disk |-> Joined(SubSeq(batch, 1, n)), open |-> TRUE],
                     [disk |-> Joined(SubSeq(batch, 1, n - 1) \o <<Unreadable>>),
                      open |-> TRUE]} : n \in 1 .. Len(batch)}
        ELSE {})

-----------------------------------------------------------------------------
(* The chain, whether the process runs or not: a fill is of a new          *)
(* transaction or, at a sweep, one more of the last.                       *)
Trade ==
  \E slot \in Highest(made) .. MaxSlot, price \in Prices, lots \in Sizes, swept \in BOOLEAN :
    LET last == Last(made)
        fill == [slot      |-> IF swept THEN last.slot ELSE slot,
                 signature |-> IF swept THEN last.signature ELSE Len(made) + 1,
                 order     |-> IF swept THEN last.order + 1 ELSE 1,
                 price     |-> price, lots |-> lots, quote |-> price * lots * QuotePerTick]
    IN  /\ Len(made) < MaxTrades
        /\ IF swept THEN made # <<>> /\ last.slot = slot ELSE TRUE
        /\ rooted < fill.slot /\ known <= fill.slot
        /\ made' = Append(made, fill)
        /\ UNCHANGED <<rooted, derived, known, queue, through, memory, noted, files, up, history>>

(* Pending::record: not what is written already. *)
Recorded(fill) == IF fill.slot <= through THEN queue ELSE Append(queue, fill)

(* The process derives the next fill. *)
Derive ==
  /\ up
  /\ derived < Len(made)
  /\ LET fill == made[derived + 1]
     IN  /\ known' = fill.slot
         /\ queue' = Recorded(fill)
         /\ missed' = missed \cup ({fill} \ (Range(memory) \cup Range(queue')))
  /\ derived' = derived + 1
  /\ UNCHANGED <<chain, through, memory, noted, files, up, acked, faults>>

(* A write of the market without a fill. *)
Touch(slot) ==
  /\ up
  /\ known < slot
  /\ derived < Len(made) => slot <= made[derived + 1].slot
  /\ known' = slot
  /\ UNCHANGED <<chain, derived, queue, through, memory, noted, files, up, history>>

(* Rows are in slot order, so those up to a slot are a prefix of them.  *)
Through(rows, slot) ==
  CHOOSE n \in 0 .. Len(rows) : \A i \in DOMAIN rows : i <= n <=> rows[i].slot <= slot

UpTo(rows, slot) == SubSeq(rows, 1, Through(rows, slot))
After(rows, slot) == SubSeq(rows, Through(rows, slot) + 1, Len(rows))

Waiting(slot) == UpTo(queue, slot)
Later(slot) == After(queue, slot)

Higher(a, b) == IF a < b THEN b ELSE a

(* Mutant of Noted: the book is saved whatever slot it is of. *)
NotedAhead(slot) == Higher(noted, known)

(* checkpoint: the book if it is of a rooted slot, and never one from      *)
(* before; memory takes it first, and what memory refuses is not filed.    *)
Noted(slot) == IF known <= slot THEN Higher(noted, known) ELSE noted

Filed(slot) == IF Noted(slot) = noted THEN checkpoint ELSE Noted(slot)

(* A slot is rooted.  Its updates come before the news of that. *)
Finalized(slot) ==
  /\ up
  /\ Through(made, slot) <= derived
  /\ rooted' = Higher(rooted, slot)
  /\ UNCHANGED made

(* The book is saved, then all that waits up to the slot is written, and   *)
(* then remembered.                                                        *)
Writes(slot) ==
  /\ Finalized(slot)
  /\ noted' = Noted(slot)
  /\ disk' = Joined(Waiting(slot))
  /\ open' = (open /\ Waiting(slot) = <<>>)
  /\ memory' = Appended(memory, Waiting(slot))
  /\ acked' = acked \cup Range(Waiting(slot))
  /\ queue' = Later(slot)
  /\ through' = Higher(through, slot)
  /\ UNCHANGED <<derived, known, up, missed>>

Flush(slot) ==
  /\ Writes(slot)
  /\ checkpoint' = Filed(slot)
  /\ UNCHANGED faults

Fails ==
  /\ faults.failures < MaxFailures
  /\ faults' = [faults EXCEPT !.failures = @ + 1]

(* The checkpoint's file cannot be written: memory has the new one, which  *)
(* is then not filed again.                                                *)
SaveFails(slot) ==
  /\ Writes(slot)
  /\ Filed(slot) # checkpoint
  /\ Fails
  /\ UNCHANGED checkpoint

(* The trades cannot: requeue puts them back, and the watermark below them. *)
FlushFails(slot) ==
  /\ Finalized(slot)
  /\ Waiting(slot) # <<>>
  /\ Fails
  /\ noted' = Noted(slot)
  /\ checkpoint' \in {checkpoint, Filed(slot)}
  /\ \E left \in Leavings(Waiting(slot)) : disk' = left.disk /\ open' = left.open
  /\ through' = Head(Waiting(slot)).slot - 1
  /\ UNCHANGED <<derived, known, queue, memory, up, acked, missed>>

(* What was in memory is gone. *)
Dies ==
  /\ faults.crashes < MaxCrashes
  /\ faults' = [faults EXCEPT !.crashes = @ + 1, !.owed = @ \/ Waiting(rooted') # <<>>]
  /\ up' = FALSE
  /\ derived' = 0 /\ known' = 0 /\ through' = 0 /\ noted' = NoCheckpoint
  /\ memory' = <<>> /\ queue' = <<>>
  /\ UNCHANGED missed

(* Mutant of CrashInFlush: rows are remembered, and acknowledged, before   *)
(* they are written.                                                       *)
CrashAfterMemory(slot) ==
  /\ Finalized(slot)
  /\ Dies
  /\ acked' = acked \cup Range(Waiting(slot))
  /\ UNCHANGED files

(* The process dies in the middle of saving and writing, or outside it. *)
CrashInFlush(slot) ==
  /\ Finalized(slot)
  /\ Dies
  /\ \/ UNCHANGED files
     \/ /\ checkpoint' = Filed(slot)
        /\ \E left \in Leavings(Waiting(slot)) : disk' = left.disk /\ open' = left.open
  /\ UNCHANGED acked

Crash ==
  /\ up
  /\ UNCHANGED <<chain, files, acked>>
  /\ Dies

(* restore, and the slot the endpoint replays from; or, where no market    *)
(* has a checkpoint, the book of the slot the chain is at, and nothing     *)
(* from before it.                                                         *)
StartsAt(slot, n) ==
  /\ known' = slot
  /\ derived' = n
  /\ missed' = missed \cup ({made[i] : i \in 1 .. n} \ Range(Load(disk)))

Restart ==
  /\ ~ up
  /\ up' = TRUE
  /\ memory' = Load(disk)
  /\ queue' = <<>>
  /\ through' = Highest(Load(disk))
  /\ noted' = checkpoint
  /\ faults' = [faults EXCEPT !.cold = @ \/ checkpoint = NoCheckpoint]
  /\ IF checkpoint # NoCheckpoint
     THEN StartsAt(checkpoint, Through(made, checkpoint))
     ELSE \E slot \in Higher(rooted, Highest(made)) .. MaxSlot : StartsAt(slot, Len(made))
  /\ UNCHANGED <<chain, files, acked>>

Next == \/ Trade
        \/ Derive
        \/ \E slot \in 1 .. MaxSlot :
             Touch(slot) \/ Flush(slot) \/ SaveFails(slot) \/ FlushFails(slot) \/ CrashInFlush(slot)
        \/ Crash
        \/ Restart

Spec == Init /\ [][Next]_vars

-----------------------------------------------------------------------------
Rows == IF up THEN memory ELSE Load(disk)

(* The slot of the market's book, by which the read side measures. *)
Processed == known

(* All that is rooted has been derived and written. *)
Settled == up /\ Through(made, rooted) <= derived /\ Waiting(rooted) = <<>>

(* What a trade is. *)
Fill == [slot : 1 .. MaxSlot, signature : Nat, order : Nat,
         price : Prices, lots : Sizes, quote : Nat]

(* Of two fills one happened first: those of a transaction are numbered,   *)
(* transactions are too, and slots only pass.                              *)
Before(t, u) ==
  /\ t.slot <= u.slot
  /\ t.signature < u.signature \/ (t.signature = u.signature /\ t.order < u.order)

InOrder(rows) == \A i, j \in DOMAIN rows : i < j => Before(rows[i], rows[j])

(* Every variable holds a value of its kind. *)
TypeOK ==
  /\ rooted \in 0 .. MaxSlot /\ derived \in 0 .. Len(made)
  /\ known \in 0 .. MaxSlot /\ through \in 0 .. MaxSlot
  /\ noted \in NoCheckpoint .. MaxSlot /\ checkpoint \in NoCheckpoint .. MaxSlot
  /\ Range(queue) \subseteq Range(made) /\ Range(memory) \subseteq Range(made)
  /\ \A n \in DOMAIN disk : disk[n] = Unreadable \/ disk[n] \in Range(made)
  /\ open \in BOOLEAN /\ up \in BOOLEAN
  /\ acked \subseteq Range(made) /\ missed \subseteq Range(made)

(* Once what is rooted has been derived and written the store serves what  *)
(* was traded and nothing else: every row of a rooted slot, once and in    *)
(* order, but those a restart passed over, and no row of another slot,     *)
(* however often writes failed and the process died.                       *)
RootedRowsAreServed ==
  Settled => InOrder(memory) /\ Range(memory) = Range(UpTo(made, rooted)) \ missed

(* A row is passed over only by a process that found no checkpoint, or     *)
(* after one died with rooted rows unwritten: no failed write, and no      *)
(* death at another moment, costs a row (main.rs, "the same pipeline       *)
(* derives everything this process missed"; flush.rs, "an unreachable      *)
(* store should cost latency, not data").                                  *)
OnlyDebtsAreLost == ~ faults.owed /\ ~ faults.cold => missed = {}

(* Together: the store serves what was traded, once and in order, and      *)
(* lacks rows only for those two reasons.                                  *)
StoredExactly == TypeOK /\ RootedRowsAreServed /\ OnlyDebtsAreLost

(* Every candle is the summary of the fills of its bucket: first, last,    *)
(* highest and lowest price, and exact totals.                             *)
CandlesAreExact ==
  \A i \in Intervals :
    LET candles == Aggregate(BySlot(memory), i)
        starts == {Bucket(s, i) : s \in Slots(memory)}
    IN  /\ {candles[n].start_slot : n \in DOMAIN candles} = starts
        /\ Len(candles) = Cardinality(starts)
        /\ \A n \in DOMAIN candles :
             LET c == candles[n]
                 fills == InRange(memory, c.start_slot, c.start_slot + i - 1)
                 prices == {fills[k].price : k \in DOMAIN fills}
             IN  /\ c.open = fills[1].price /\ c.close = Last(fills).price
                 /\ c.high \in prices /\ c.low \in prices
                 /\ \A p \in prices : c.low <= p /\ p <= c.high
                 /\ c.base_lots = Lots(fills) /\ c.quote_lots = Quote(fills)
                 /\ c.trades = Len(fills)

(* The volume-weighted price of a window lies within its range. *)
VwapIsInRange ==
  \A slots \in 1 .. MaxSlot :
    LET found == TradesIn(memory, WindowFrom(Processed, slots), Processed, MaxTrades)
        candle == Summarise(found)
    IN  found # <<>> => candle.low <= Vwap(found) /\ Vwap(found) <= candle.high

(* Two windows one after the other count every fill of their slots once. *)
WindowsTile ==
  \A slots \in 1 .. MaxSlot :
    LET late == Window(memory, Processed, slots, MaxTrades + 1)
        early == Window(memory, Processed - slots, slots, MaxTrades + 1)
    IN  Processed >= 2 * slots =>
          WindowTrades(late) + WindowTrades(early)
            = Len(InRange(memory, Processed - 2 * slots + 1, Processed))

(* A bounded read keeps the most recent rows, oldest first (store/mod.rs,  *)
(* "answer the last hundred trades with the first hundred ever").          *)
NewestAreKept ==
  \A limit \in 1 .. MaxTrades :
    LET all == BySlot(memory)
        some == TradesIn(memory, 0, MaxSlot, limit)
    IN  IsSuffix(some, all) /\ (Len(some) = limit \/ some = all)

(* What a reader is told of the rows stored is computed from them: the     *)
(* candles, windows, prices and bounded reads.                             *)
ReadsAreExact ==
  CandlesAreExact /\ VwapIsInRange /\ WindowsTile /\ NewestAreKept

(* What the process has in hand: rows stored, then rows waiting. *)
InHand == memory \o queue

(* The rows the process derived, or started after. *)
Handled == {made[i] : i \in 1 .. derived}

(* Rows of the chain that are neither in a list nor passed over. *)
Absent(rows) == Range(made) \ (Range(rows) \cup missed)

ChainInv ==
  /\ made \in Seq(Fill) /\ InOrder(made)
  /\ \A i \in DOMAIN made : made[i].signature <= Len(made)
  /\ rooted \in 0 .. MaxSlot

PlacesInv ==
  /\ derived \in 0 .. Len(made) /\ known \in 0 .. MaxSlot /\ through \in 0 .. MaxSlot
  /\ noted \in NoCheckpoint .. rooted /\ checkpoint \in NoCheckpoint .. rooted
  /\ up \in BOOLEAN

(* Rows in hand are in order, and the watermark lies between those stored  *)
(* and those that wait, which were derived.                                *)
ListsInv ==
  /\ memory \in Seq(Range(made)) /\ queue \in Seq(Range(made))
  /\ InOrder(InHand)
  /\ \A i \in DOMAIN memory : memory[i].slot <= through
  /\ \A i \in DOMAIN queue : through < queue[i].slot /\ queue[i] \in Handled

(* The file holds what memory does and perhaps rows of writes that failed, *)
(* the first of those that wait, so writing them again adds none twice.    *)
FileInv ==
  /\ disk \in Seq(Range(made))
  /\ up => \E n \in Len(memory) .. Len(InHand) : Load(disk) = SubSeq(InHand, 1, n)
  /\ ~ up => InHand = <<>> /\ Load(disk) \in Seq(Range(made)) /\ InOrder(Load(disk))
  /\ acked \subseteq Range(Rows)

(* The inductive invariant of FileStore_proofs while no line is torn. *)
StoreInv == ChainInv /\ PlacesInv /\ ListsInv /\ FileInv

(* The file ends with a rooted slot, and what it lacks of the slots up to  *)
(* there has been passed over.                                             *)
EndsInv ==
  /\ Highest(Load(disk)) <= rooted /\ through <= rooted
  /\ \A t \in Absent(Load(disk)) : t.slot > Highest(Load(disk))

(* What is passed over is in no list, and is covered by the checkpoint. *)
MissedInv ==
  /\ missed \subseteq Range(made)
  /\ missed \cap (Range(Load(disk)) \cup Range(InHand)) = {}
  /\ checkpoint # NoCheckpoint => \A t \in missed : t.slot <= checkpoint
  /\ OnlyDebtsAreLost

(* While the process runs, what it derived it has in hand or has passed    *)
(* over, and it derived what its checkpoint covers.                        *)
RunningInv ==
  up => /\ Handled \cap Absent(InHand) = {} /\ missed \subseteq Handled
        /\ \A t \in Absent(memory) : t.slot > through
        /\ \A t \in missed : t.slot <= known
        /\ checkpoint <= noted
        /\ \A i \in DOMAIN made : made[i].slot <= checkpoint => i <= derived

(* While none does, the file has what the checkpoint covers, unless one    *)
(* died owing it.                                                          *)
DownInv == ~ up /\ ~ faults.owed => \A t \in Absent(Load(disk)) : t.slot > checkpoint

Faults == [failures : Nat, crashes : Nat, owed : BOOLEAN, cold : BOOLEAN]

(* The inductive invariant where writes are whole. *)
WholeInv ==
  open = FALSE /\ faults \in Faults /\ StoreInv /\ EndsInv /\ MissedInv /\ RunningInv /\ DownInv

(* The file store is a store. *)
Contract == INSTANCE TradeLog WITH rows <- Rows, promised <- acked, Same <- SameTrade

StoreKeepsTheContract == Contract!LogSpec

-----------------------------------------------------------------------------
(* Known limits: what a comment or a document says and the code does not   *)
(* keep.  TLC refutes each; README.md gives the instance.                  *)

(* A row whose append succeeded is still there after a restart (file.rs:   *)
(* "The other order would report a trade as stored that a crash could      *)
(* still lose").                                                           *)
AcknowledgedIsDurable == up => acked \subseteq Range(memory)

(* After a kill in the middle of an append the rest of the history is kept *)
(* and the rows that were lost come again (file.rs, "should not cost the   *)
(* whole history"; store/mod.rs, "so a restart resumes where it left off").*)
NothingIsSkipped == missed = {}

(* Any store answers a chart with the same candles (candle.rs, "Price of   *)
(* the last trade in the bucket").                                         *)
BackendsAgree ==
  \A answer \in ClickHouseAnswers(memory, 0, MaxSlot, MaxTrades) :
    Aggregate(answer, 1) = Aggregate(TradesIn(memory, 0, MaxSlot, MaxTrades), 1)

(* A candle served is the candle of its whole bucket, whatever the bound   *)
(* on the rows scanned (candle.rs, "Price of the first trade in the        *)
(* bucket").                                                               *)
CandlesAreWhole ==
  \A i \in Intervals :
    Range(CandlesOf(memory, i, MaxTrades - 1, MaxSlot))
      \subseteq Range(Aggregate(BySlot(memory), i))

(* A window counts every trade processed in its slots (http.rs: "measuring *)
(* to a tip whose trades have not been read yet would report a lull that   *)
(* is really a backlog").                                                  *)
WindowIsCurrent ==
  Settled =>
    \A slots \in 1 .. MaxSlot :
      LET window == Window(memory, Processed, slots, MaxTrades + 1)
      IN  WindowTrades(window) = Len(InRange(made, window.from_slot, window.to_slot))
=============================================================================
