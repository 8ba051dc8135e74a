------------------------------ MODULE Correlate ------------------------------
(***************************************************************************)
(* The correlator of the stream: it pairs a market's new bytes with the    *)
(* transaction that wrote them, in whichever order the two arrive.         *)
(*                                                                         *)
(* A market's bytes are abstracted to the number of resting orders that    *)
(* have been consumed, so that the difference of two of them is what the   *)
(* derivation reports: the orders that left the book (see Indexer for the  *)
(* derivation itself).  Methods are operators from a correlator to a       *)
(* correlator; accept also yields at most one change.                      *)
(*                                                                         *)
(* Source: crates/clob-stream/src/correlate.rs                             *)
(***************************************************************************)
EXTENDS Integers, Sequences, FiniteSets

CONSTANTS
  Markets,
  Signatures,
  NoSignature,     \* an update the cluster attributes to no transaction
  PendingCapacity  \* unmatched halves held on each side

ASSUME CorrelateAssumption ==
  /\ NoSignature \notin Signatures
  /\ PendingCapacity \in Nat

(* A map entry that is absent. *)
Unknown == -1

NewCorrelator ==
  [latest            |-> [m \in Markets |-> Unknown],
   known_at          |-> [m \in Markets |-> Unknown],
   transactions      |-> {},
   accounts          |-> {},
   transaction_order |-> <<>>,
   account_order     |-> <<>>,
   tip               |-> 0]

MaxOf(a, b) == IF a >= b THEN a ELSE b

(* Seeds the markets of a new correlator, each at the slot of its snapshot. *)
SeedAt(markets, snapshot) ==
  LET slots == {snapshot[m].slot : m \in markets}
  IN  [NewCorrelator EXCEPT
         !.latest   = [m \in Markets |-> IF m \in markets THEN snapshot[m].data ELSE Unknown],
         !.known_at = [m \in Markets |-> IF m \in markets THEN snapshot[m].slot ELSE Unknown],
         !.tip      = CHOOSE s \in slots : \A r \in slots : r <= s]

IsStale(c, market, slot) == slot < c.known_at[market]

KnownMarkets(c) == {m \in Markets : c.latest[m] # Unknown}

(* A second copy of a waiting half replaces the first and keeps its place. *)
Queued(order, waiting, signature) ==
  IF signature \in waiting THEN order ELSE Append(order, signature)

(* Signatures pushed out of a queue longer than its capacity.  A paired    *)
(* half leaves its signature in the queue, where it still takes a place.   *)
Excess(order) == Len(order) - PendingCapacity

Evicted(order) == {order[i] : i \in 1 .. Excess(order)}

Kept(order) == IF Excess(order) > 0
               THEN SubSeq(order, Excess(order) + 1, Len(order)) ELSE order

RememberTransaction(c, signature) ==
  LET order == Queued(c.transaction_order, c.transactions, signature)
  IN  [c EXCEPT !.transactions = (@ \cup {signature}) \ Evicted(order),
                !.transaction_order = Kept(order)]

(* An account half is [signature, market, slot, data]. *)
WaitingAccounts(c) == {a.signature : a \in c.accounts}

RememberAccount(c, half) ==
  LET order == Queued(c.account_order, WaitingAccounts(c), half.signature)
      others == {a \in c.accounts : a.signature # half.signature}
  IN  [c EXCEPT !.accounts = {a \in others \cup {half} : a.signature \notin Evicted(order)},
                !.account_order = Kept(order)]

NoChange(c) == [correlator |-> c, changes |-> {}]

(* The baseline advances to whatever the pair carries. *)
Complete(c, half) ==
  [correlator |-> [c EXCEPT !.latest[half.market] = half.data],
   changes    |-> {[market |-> half.market, slot |-> half.slot,
                    signature |-> half.signature,
                    before |-> c.latest[half.market], after |-> half.data]}]

AcceptAccount(c, half) ==
  LET seen  == [c EXCEPT !.tip = MaxOf(@, half.slot)]
      known == [seen EXCEPT !.known_at[half.market] = half.slot]
  IN  IF IsStale(seen, half.market, half.slot) THEN NoChange(seen)
      ELSE IF half.signature = NoSignature
           THEN NoChange([known EXCEPT !.latest[half.market] = half.data])
      ELSE IF half.signature \in known.transactions
           THEN Complete([known EXCEPT !.transactions = @ \ {half.signature}], half)
      ELSE NoChange(RememberAccount(known, half))

AcceptTransaction(c, tx) ==
  LET seen == [c EXCEPT !.tip = MaxOf(@, tx.slot)]
  IN  IF ~ tx.succeeded THEN NoChange(seen)
      ELSE IF tx.signature \in WaitingAccounts(seen)
           THEN LET half == CHOOSE a \in seen.accounts : a.signature = tx.signature
                IN  Complete([seen EXCEPT !.accounts = @ \ {half}], half)
      ELSE NoChange(RememberTransaction(seen, tx.signature))

(* A dead slot is no progress. *)
AcceptSlot(c, slot, status) ==
  IF status = "dead" THEN c ELSE [c EXCEPT !.tip = MaxOf(@, slot)]
=============================================================================
