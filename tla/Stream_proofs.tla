---------------------------- MODULE Stream_proofs ----------------------------
(***************************************************************************)
(* The ingest of the stream, for every chain, market and schedule: every   *)
(* row of the store and every checkpoint is true, and, where no restart    *)
(* has to catch up, no trade is missing and the contract of the store      *)
(* (module Tape) is kept.  The public tapes show only trades that happened *)
(* and account for what they withdrew.                                     *)
(*                                                                         *)
(* The argument follows the writes of the chain.  A write is still to      *)
(* come, or its account half waits for its transaction, or it is settled;  *)
(* the writes of a market settle in the order in which they were made, so  *)
(* each is compared with the state the one before it left, and what is     *)
(* derived from the comparison is exactly what the write traded.           *)
(*                                                                         *)
(* ChainInv is about the chain and what it sent, WireInv about how far it  *)
(* was read, PairInv about the halves that wait, BaseInv about the states  *)
(* the comparisons start from; RowsInv and CoverInv are what follows for   *)
(* the store.  Kinds, in the last part, holds without any premise.         *)
(***************************************************************************)
EXTENDS Stream, Sums_proofs, FiniteSetTheorems, FunctionTheorems, SequenceTheorems

USE CorrelateAssumption, StreamAssumption

-----------------------------------------------------------------------------
(* The kinds of values. *)

Update == [slot : 1 .. MaxSlot, market : Markets, data : Nat, signature : Signatures]

StartupUpdate ==
  [slot : 0 .. MaxSlot, market : Markets, data : Nat, signature : {NoSignature}]

Execution == [slot : 1 .. MaxSlot, signature : Signatures, succeeded : BOOLEAN]

Status == [slot : 1 .. MaxSlot, status : {"confirmed", "dead", "finalized"}]

Clusters ==
  [slot : 1 .. MaxSlot + 1, rooted : 0 .. MaxSlot, dead : SUBSET (1 .. MaxSlot),
   landed : SUBSET Signatures, trades : SUBSET AllTrades]

Sendings == [accounts : Seq(Update), transactions : Seq(Execution), slots : Seq(Status)]

Wires ==
  [from : Nat, startup : SUBSET StartupUpdate, accounts : Nat, transactions : Nat,
   slots : Nat, last : Nat]

States == {Unknown} \cup Nat

IsCorrelator(c) ==
  c \in [latest : [Markets -> States], known_at : [Markets -> Unknown .. MaxSlot],
         transactions : SUBSET Signatures, accounts : SUBSET Update,
         transaction_order : {c.transaction_order}, account_order : {c.account_order},
         tip : {c.tip}]

Stores ==
  [rows : SUBSET AllTrades,
   checkpoints : [Markets -> [slot : Unknown .. MaxSlot, data : States]]]

-----------------------------------------------------------------------------
(* The chain. *)

Writes == sent.accounts
Runs == sent.transactions

TradesOf(write) ==
  {[market |-> write.market, slot |-> write.slot, signature |-> write.signature,
    order |-> n] : n \in (write.data - Fills[write.signature]) + 1 .. write.data}

ChainTypes ==
  /\ cluster \in Clusters
  /\ sent \in Sendings
  /\ cluster.rooted < cluster.slot
  /\ cluster.rooted \notin cluster.dead
  /\ \A s \in cluster.dead : s < cluster.slot

WriteIsPlaced(i) ==
  /\ Writes[i].slot <= cluster.slot
  /\ Writes[i].market = MarketOf[Writes[i].signature]
  /\ Writes[i].signature \in cluster.landed
  /\ Fills[Writes[i].signature] <= Writes[i].data

WritesInOrder(i, j) ==
  i < j =>
    /\ Writes[i].slot <= Writes[j].slot
    /\ Writes[i].signature # Writes[j].signature
    /\ Writes[i].market = Writes[j].market =>
         Writes[i].data <= Writes[j].data - Fills[Writes[j].signature]

(* A write starts where an earlier one of its market ended, or at nothing. *)
StartsAt(i, data) ==
  \/ data = 0
  \/ \E j \in DOMAIN Writes :
       /\ j < i
       /\ Writes[j].market = Writes[i].market
       /\ Writes[j].data = data

Start(i) == Writes[i].data - Fills[Writes[i].signature]

OrdersTraded(i) ==
  \A n \in 1 .. Writes[i].data :
    \E t \in cluster.trades :
      t.market = Writes[i].market /\ t.order = n /\ t.slot <= Writes[i].slot

RunIsPlaced(k) ==
  /\ Runs[k].slot <= cluster.slot
  /\ Runs[k].signature \in cluster.landed

RunsInOrder(k, l) ==
  k < l => Runs[k].slot <= Runs[l].slot /\ Runs[k].signature # Runs[l].signature

(* The transaction of a write. *)
IsRunOf(k, i) ==
  /\ Runs[k].signature = Writes[i].signature
  /\ Runs[k].slot = Writes[i].slot
  /\ Runs[k].succeeded

StatusIsTrue(k) ==
  /\ sent.slots[k].slot < cluster.slot
  /\ sent.slots[k].status = "dead" => sent.slots[k].slot \in cluster.dead
  /\ sent.slots[k].status = "finalized" => sent.slots[k].slot <= cluster.rooted

WritesAreSound ==
  /\ \A i \in DOMAIN Writes : WriteIsPlaced(i)
  /\ \A i, j \in DOMAIN Writes : WritesInOrder(i, j)
  /\ \A i \in DOMAIN Writes : StartsAt(i, Start(i))
  /\ \A i \in DOMAIN Writes : OrdersTraded(i)

TradesAreWritten ==
  /\ \A t \in cluster.trades : \E i \in DOMAIN Writes : t \in TradesOf(Writes[i])
  /\ \A i \in DOMAIN Writes : TradesOf(Writes[i]) \subseteq cluster.trades

RunsAreSound ==
  /\ \A k \in DOMAIN Runs : RunIsPlaced(k)
  /\ \A k, l \in DOMAIN Runs : RunsInOrder(k, l)
  /\ \A i \in DOMAIN Writes : \E k \in DOMAIN Runs : IsRunOf(k, i)
  /\ \A k \in DOMAIN Runs : Runs[k].succeeded => \E i \in DOMAIN Writes : IsRunOf(k, i)
  /\ \A i, j \in DOMAIN Writes, k, l \in DOMAIN Runs :
       IsRunOf(k, i) /\ IsRunOf(l, j) /\ i < j => k < l

ChainInv ==
  /\ ChainTypes
  /\ WritesAreSound
  /\ TradesAreWritten
  /\ RunsAreSound
  /\ \A k \in DOMAIN sent.slots : StatusIsTrue(k)

-----------------------------------------------------------------------------
(* Facts about values. *)

LEMMA SlotBound ==
  /\ MaxSlot \in Nat
  /\ \A s \in 0 .. MaxSlot : s \in Nat
  /\ \A s \in 1 .. MaxSlot : s \in Nat
OBVIOUS

LEMMA Extended ==
  ASSUME NEW S, NEW s \in Seq(S), NEW x \in S
  PROVE  /\ s \o <<x>> \in Seq(S)
         /\ Len(s) \in Nat /\ DOMAIN s = 1 .. Len(s)
         /\ Len(s \o <<x>>) = Len(s) + 1
         /\ DOMAIN (s \o <<x>>) = 1 .. Len(s) + 1
         /\ \A i \in DOMAIN s : (s \o <<x>>)[i] = s[i] /\ s[i] \in S
         /\ (s \o <<x>>)[Len(s) + 1] = x
<1>1. <<x>> \in Seq(S) /\ Len(<<x>>) = 1 /\ <<x>>[1] = x
  OBVIOUS
<1>2. Len(s) \in Nat /\ DOMAIN s = 1 .. Len(s)
  OBVIOUS
<1> DEFINE both == s \o <<x>>
<1>3. /\ both \in Seq(S)
      /\ Len(both) = Len(s) + 1
      /\ \A i \in 1 .. Len(s) + 1 : both[i] = IF i <= Len(s) THEN s[i] ELSE <<x>>[i - Len(s)]
  BY <1>1, ConcatProperties
<1>4. DOMAIN both = 1 .. Len(s) + 1
  BY <1>3
<1>5. both[Len(s) + 1] = x
  BY <1>1, <1>2, <1>3
<1>6. \A i \in DOMAIN s : both[i] = s[i] /\ s[i] \in S
  BY <1>2, <1>3
<1> QED BY <1>2, <1>3, <1>4, <1>5, <1>6

(* A set of numbers with an upper bound has a greatest member. *)
LEMMA GreatestNat ==
  ASSUME NEW n \in Nat, NEW S \in SUBSET (0 .. n), S # {}
  PROVE  \E g \in S : \A k \in S : k <= g
<1> DEFINE Gaps == {n - k : k \in S}
<1>1. Gaps \in SUBSET Nat
  OBVIOUS
<1>5. Gaps # {}
  <2>1. PICK k \in S : TRUE
    OBVIOUS
  <2> QED BY <2>1
<1>2. PICK d \in Gaps : \A e \in Gaps : d <= e
  BY <1>1, <1>5, LeastNat
<1>3. PICK g \in S : d = n - g
  BY <1>2
<1>4. \A k \in S : n - g <= n - k
  BY <1>2, <1>3
<1> QED BY <1>4

LEMMA TradeOf ==
  ASSUME NEW write, NEW t
  PROVE  t \in TradesOf(write) <=>
           \E n \in (write.data - Fills[write.signature]) + 1 .. write.data :
             t = [market |-> write.market, slot |-> write.slot,
                  signature |-> write.signature, order |-> n]
BY DEF TradesOf

LEMMA TradeOfFields ==
  ASSUME NEW write \in Update, NEW t \in TradesOf(write)
  PROVE  /\ t.market = write.market /\ t.slot = write.slot /\ t.signature = write.signature
         /\ t.order \in Int
         /\ write.data - Fills[write.signature] < t.order /\ t.order <= write.data
         /\ t = [market |-> write.market, slot |-> write.slot,
                 signature |-> write.signature, order |-> t.order]
<1>1. PICK n \in (write.data - Fills[write.signature]) + 1 .. write.data :
         t = [market |-> write.market, slot |-> write.slot,
              signature |-> write.signature, order |-> n]
  BY TradeOf
<1>2. write.data \in Nat /\ Fills[write.signature] \in Nat
  BY DEF Update
<1>3. n \in Int /\ write.data - Fills[write.signature] < n /\ n <= write.data
  BY <1>1, <1>2
<1>4. t.market = write.market /\ t.slot = write.slot /\ t.signature = write.signature
        /\ t.order = n
  BY <1>1
<1> QED BY <1>1, <1>3, <1>4

-----------------------------------------------------------------------------
(* The books of the chain. *)

LEMMA ChainFields ==
  ASSUME ChainInv
  PROVE  /\ cluster.slot \in 1 .. MaxSlot + 1 /\ cluster.rooted \in 0 .. MaxSlot
         /\ cluster.rooted < cluster.slot
         /\ cluster.trades \subseteq AllTrades
         /\ Writes \in Seq(Update) /\ Len(Writes) \in Nat /\ DOMAIN Writes = 1 .. Len(Writes)
         /\ Runs \in Seq(Execution) /\ Len(Runs) \in Nat /\ DOMAIN Runs = 1 .. Len(Runs)
         /\ sent.slots \in Seq(Status)
<1>1. cluster \in Clusters /\ sent \in Sendings /\ cluster.rooted < cluster.slot
  BY DEF ChainInv, ChainTypes
<1>2. /\ cluster.slot \in 1 .. MaxSlot + 1 /\ cluster.rooted \in 0 .. MaxSlot
      /\ cluster.trades \subseteq AllTrades
  BY <1>1 DEF Clusters
<1>3. Writes \in Seq(Update) /\ Runs \in Seq(Execution) /\ sent.slots \in Seq(Status)
  BY <1>1 DEF Sendings, Writes, Runs
<1> QED BY <1>1, <1>2, <1>3

LEMMA WriteFields ==
  ASSUME ChainInv, NEW i \in DOMAIN Writes
  PROVE  /\ i \in Nat /\ 1 <= i /\ i <= Len(Writes)
         /\ Writes[i] \in Update
         /\ Writes[i].slot \in 1 .. MaxSlot /\ Writes[i].slot \in Nat
         /\ Writes[i].slot <= cluster.slot
         /\ Writes[i].market \in Markets
         /\ Writes[i].market = MarketOf[Writes[i].signature]
         /\ Writes[i].data \in Nat
         /\ Writes[i].signature \in Signatures
         /\ Fills[Writes[i].signature] \in Nat \ {0}
         /\ Start(i) \in Nat /\ Start(i) < Writes[i].data
<1>1. Writes[i] \in Update /\ i \in Nat /\ 1 <= i /\ i <= Len(Writes)
  BY ChainFields
<1>2. /\ Writes[i].slot \in 1 .. MaxSlot /\ Writes[i].market \in Markets
      /\ Writes[i].data \in Nat /\ Writes[i].signature \in Signatures
  BY <1>1 DEF Update
<1>3. WriteIsPlaced(i)
  BY DEF ChainInv, WritesAreSound
<1>4. Fills[Writes[i].signature] \in Nat \ {0}
  BY <1>2
<1>5. /\ Writes[i].slot <= cluster.slot
      /\ Writes[i].market = MarketOf[Writes[i].signature]
      /\ Fills[Writes[i].signature] <= Writes[i].data
  BY <1>3 DEF WriteIsPlaced
<1>6. Start(i) \in Nat /\ Start(i) < Writes[i].data
  BY ONLY <1>2, <1>4, <1>5 DEF Start
<1> QED BY <1>1, <1>2, <1>4, <1>5, <1>6, SlotBound

LEMMA RunFields ==
  ASSUME ChainInv, NEW k \in DOMAIN Runs
  PROVE  /\ k \in Nat /\ 1 <= k /\ k <= Len(Runs)
         /\ Runs[k] \in Execution
         /\ Runs[k].slot \in 1 .. MaxSlot /\ Runs[k].slot \in Nat
         /\ Runs[k].slot <= cluster.slot
         /\ Runs[k].signature \in Signatures
<1>1. Runs[k] \in Execution /\ k \in Nat /\ 1 <= k /\ k <= Len(Runs)
  BY ChainFields
<1>2. Runs[k].slot \in 1 .. MaxSlot /\ Runs[k].signature \in Signatures
  BY <1>1 DEF Execution
<1>3. RunIsPlaced(k)
  BY DEF ChainInv, RunsAreSound
<1> QED BY <1>1, <1>2, <1>3, SlotBound DEF RunIsPlaced

LEMMA TradeFields ==
  ASSUME ChainInv, NEW t \in cluster.trades
  PROVE  /\ t \in AllTrades
         /\ t.market \in Markets /\ t.signature \in Signatures /\ t.order \in Nat
         /\ t.slot \in 1 .. MaxSlot /\ t.slot \in Nat /\ 1 <= t.slot
<1>1. t \in AllTrades
  BY ChainFields
<1>2. /\ t.market \in Markets /\ t.signature \in Signatures /\ t.order \in Nat
      /\ t.slot \in 1 .. MaxSlot
  BY <1>1 DEF AllTrades
<1> QED BY <1>1, <1>2, SlotBound

LEMMA WriteOrder ==
  ASSUME ChainInv, NEW i \in DOMAIN Writes, NEW j \in DOMAIN Writes
  PROVE  /\ i < j => Writes[i].slot <= Writes[j].slot
         /\ i # j => Writes[i].signature # Writes[j].signature
         /\ i < j /\ Writes[i].market = Writes[j].market =>
              Writes[i].data <= Start(j) /\ Writes[i].data < Writes[j].data
         /\ i <= j /\ Writes[i].market = Writes[j].market =>
              Writes[i].data <= Writes[j].data
<1>1. WritesInOrder(i, j) /\ WritesInOrder(j, i)
  BY DEF ChainInv, WritesAreSound
<1>2. i \in Nat /\ j \in Nat /\ Start(j) < Writes[j].data
      /\ Writes[i].data \in Nat /\ Writes[j].data \in Nat /\ Start(j) \in Nat
  BY WriteFields
<1> QED BY <1>1, <1>2 DEF WritesInOrder, Start

(* A trade is of the write that made it. *)
LEMMA TradeHasWrite ==
  ASSUME ChainInv, NEW t \in cluster.trades
  PROVE  \E i \in DOMAIN Writes : t \in TradesOf(Writes[i])
BY DEF ChainInv, TradesAreWritten

(* Two trades of a market that are the same order are the same trade. *)
LEMMA OrderTradedOnce ==
  ASSUME ChainInv, NEW t \in cluster.trades, NEW u \in cluster.trades,
         t.market = u.market, t.order = u.order
  PROVE  t = u
<1>1. PICK i \in DOMAIN Writes : t \in TradesOf(Writes[i])
  BY TradeHasWrite
<1>2. PICK j \in DOMAIN Writes : u \in TradesOf(Writes[j])
  BY TradeHasWrite
<1>3. /\ t.market = Writes[i].market /\ t.order \in Int
      /\ Start(i) < t.order /\ t.order <= Writes[i].data
      /\ t = [market |-> Writes[i].market, slot |-> Writes[i].slot,
              signature |-> Writes[i].signature, order |-> t.order]
  BY <1>1, WriteFields, TradeOfFields DEF Start
<1>4. /\ u.market = Writes[j].market /\ u.order \in Int
      /\ Start(j) < u.order /\ u.order <= Writes[j].data
      /\ u = [market |-> Writes[j].market, slot |-> Writes[j].slot,
              signature |-> Writes[j].signature, order |-> u.order]
  BY <1>2, WriteFields, TradeOfFields DEF Start
<1>5. i = j
  <2>1. ~ (i < j)
    <3>1. SUFFICES ASSUME i < j PROVE FALSE
      OBVIOUS
    <3>2. Writes[i].data <= Start(j)
      BY <1>3, <1>4, <3>1, WriteOrder
    <3>3. Start(j) < t.order /\ t.order <= Writes[i].data /\ t.order \in Int
      BY <1>3, <1>4
    <3>4. Writes[i].data \in Nat /\ Start(j) \in Nat
      BY WriteFields
    <3> QED BY ONLY <3>2, <3>3, <3>4
  <2>2. ~ (j < i)
    <3>1. SUFFICES ASSUME j < i PROVE FALSE
      OBVIOUS
    <3>2. Writes[j].data <= Start(i)
      BY <1>3, <1>4, <3>1, WriteOrder
    <3>3. Start(i) < t.order /\ t.order <= Writes[j].data /\ t.order \in Int
      BY <1>3, <1>4
    <3>4. Writes[j].data \in Nat /\ Start(i) \in Nat
      BY WriteFields
    <3> QED BY ONLY <3>2, <3>3, <3>4
  <2>3. i \in Nat /\ j \in Nat
    BY WriteFields
  <2> QED BY <2>1, <2>2, <2>3
<1> QED BY <1>3, <1>4, <1>5

Upto(market, slot) == {t \in cluster.trades : t.market = market /\ t.slot <= slot}

(* Up to its last write before the end of a slot, a market trades each of  *)
(* its orders once.                                                        *)
LEMMA BookAtWrite ==
  ASSUME ChainInv, NEW s \in Int, NEW g \in DOMAIN Writes, Writes[g].slot <= s,
         \A i \in DOMAIN Writes :
           Writes[i].market = Writes[g].market /\ Writes[i].slot <= s => i <= g
  PROVE  BookAt(Writes[g].market, s) = Writes[g].data
<1> DEFINE m == Writes[g].market
           n == Writes[g].data
           S == Upto(m, s)
           f == [t \in S |-> t.order]
<1>0. n \in Nat /\ m \in Markets
  BY WriteFields
<1>1. \A t \in S : t.order \in 1 .. n
  <2>1. TAKE t \in S
  <2>2. t \in cluster.trades /\ t.market = m /\ t.slot <= s
    BY <2>1 DEF Upto
  <2>3. PICK i \in DOMAIN Writes : t \in TradesOf(Writes[i])
    BY <2>2, TradeHasWrite
  <2>4. /\ t.market = Writes[i].market /\ t.slot = Writes[i].slot /\ t.order \in Int
        /\ Start(i) < t.order /\ t.order <= Writes[i].data
    BY <2>3, WriteFields, TradeOfFields DEF Start
  <2>5. i <= g
    BY <2>2, <2>4
  <2>6. Writes[i].data <= n
    BY <2>2, <2>4, <2>5, WriteOrder
  <2>7. Start(i) \in Nat /\ Writes[i].data \in Nat
    BY WriteFields
  <2>8. t.order \in Int /\ Start(i) < t.order /\ t.order <= Writes[i].data
    BY <2>4
  <2> HIDE DEF n, S
  <2> QED BY ONLY <1>0, <2>6, <2>7, <2>8
<1>2. \A k \in 1 .. n : \E t \in S : t.order = k
  <2>1. TAKE k \in 1 .. n
  <2>2. OrdersTraded(g)
    BY DEF ChainInv, WritesAreSound
  <2>3. PICK t \in cluster.trades : t.market = m /\ t.order = k /\ t.slot <= Writes[g].slot
    BY <2>1, <2>2 DEF OrdersTraded
  <2>4. t.slot \in Int /\ Writes[g].slot \in Int
    BY WriteFields, TradeFields
  <2>5. t \in S
    BY <2>3, <2>4 DEF Upto
  <2> QED BY <2>3, <2>5
<1>3. \A t, u \in S : t.order = u.order => t = u
  BY OrderTradedOnce DEF Upto
<1>4. f \in Bijection(S, 1 .. n)
  <2>1. f \in [S -> 1 .. n]
    BY <1>1
  <2>2. f \in Injection(S, 1 .. n)
    BY <2>1, <1>3 DEF Injection, IsInjective
  <2>3. f \in Surjection(S, 1 .. n)
    BY <2>1, <1>2 DEF Surjection
  <2> QED BY <2>2, <2>3 DEF Bijection
<1>5. ExistsBijection(1 .. n, S)
  <2>1. ExistsBijection(S, 1 .. n)
    BY <1>4 DEF ExistsBijection
  <2> HIDE DEF S, n
  <2> QED BY <2>1, Fun_ExistsBijSymmetric
<1>6. IsFiniteSet(1 .. n) /\ Cardinality(1 .. n) = n
  <2>1. 1 \in Int /\ n \in Int /\ n >= 0
    BY <1>0
  <2> HIDE DEF n
  <2>2. IsFiniteSet(1 .. n) /\ Cardinality(1 .. n) = IF 1 > n THEN 0 ELSE n - 1 + 1
    BY ONLY <2>1, FS_Interval
  <2> QED BY <2>1, <2>2
<1>7. Cardinality(S) = n
  <2> HIDE DEF S, n
  <2> QED BY <1>5, <1>6, FS_Bijection
<1> QED BY <1>7 DEF BookAt, Upto

LEMMA BookAtNothing ==
  ASSUME ChainInv, NEW m, NEW s,
         \A i \in DOMAIN Writes : ~ (Writes[i].market = m /\ Writes[i].slot <= s)
  PROVE  BookAt(m, s) = 0
<1>1. Upto(m, s) = {}
  <2>1. SUFFICES ASSUME NEW t \in cluster.trades, t.market = m, t.slot <= s PROVE FALSE
    BY DEF Upto
  <2>2. PICK i \in DOMAIN Writes : t \in TradesOf(Writes[i])
    BY TradeHasWrite
  <2>3. t.market = Writes[i].market /\ t.slot = Writes[i].slot
    BY <2>2, WriteFields, TradeOfFields
  <2> QED BY <2>1, <2>3
<1> QED BY <1>1, FS_EmptySet DEF BookAt, Upto

(* A book is nothing or what some write left, and no earlier write left    *)
(* more.                                                                   *)
LEMMA BookFacts ==
  ASSUME ChainInv, NEW m \in Markets, NEW s \in Int
  PROVE  /\ BookAt(m, s) \in Nat
         /\ \A i \in DOMAIN Writes :
              Writes[i].market = m /\ Writes[i].slot <= s => Writes[i].data <= BookAt(m, s)
         /\ \/ BookAt(m, s) = 0
            \/ \E i \in DOMAIN Writes :
                 /\ Writes[i].market = m /\ Writes[i].slot <= s
                 /\ Writes[i].data = BookAt(m, s)
<1> DEFINE I == {i \in DOMAIN Writes : Writes[i].market = m /\ Writes[i].slot <= s}
<1>1. CASE I = {}
  <2>1. BookAt(m, s) = 0
    BY <1>1, BookAtNothing
  <2> QED BY <1>1, <2>1
<1>2. CASE I # {}
  <2>1. I \in SUBSET (0 .. Len(Writes)) /\ Len(Writes) \in Nat
    BY ChainFields
  <2>2. PICK g \in I : \A i \in I : i <= g
    <3> HIDE DEF I
    <3> QED BY <1>2, <2>1, GreatestNat
  <2>3. g \in DOMAIN Writes /\ Writes[g].market = m /\ Writes[g].slot <= s
    BY <2>2
  <2>4. BookAt(m, s) = Writes[g].data
    BY <2>2, <2>3, BookAtWrite
  <2>5. \A i \in I : Writes[i].data <= Writes[g].data
    BY <2>2, <2>3, WriteOrder
  <2> QED BY <2>3, <2>4, <2>5, WriteFields
<1> QED BY <1>1, <1>2

-----------------------------------------------------------------------------
(* The steps of the cluster. *)

(* The writes, or the transactions, are those of before and perhaps one    *)
(* more.                                                                   *)
Gains(s, t, x) ==
  /\ DOMAIN t = 1 .. Len(s) + 1
  /\ \A i \in DOMAIN s : i \in DOMAIN t /\ t[i] = s[i]
  /\ t[Len(s) + 1] = x

LEMMA GainsOne ==
  ASSUME NEW S, NEW s \in Seq(S), NEW x \in S
  PROVE  s \o <<x>> \in Seq(S) /\ Gains(s, s \o <<x>>, x)
<1>1. /\ s \o <<x>> \in Seq(S)
      /\ Len(s) \in Nat /\ DOMAIN s = 1 .. Len(s)
      /\ DOMAIN (s \o <<x>>) = 1 .. Len(s) + 1
      /\ \A i \in DOMAIN s : (s \o <<x>>)[i] = s[i]
      /\ (s \o <<x>>)[Len(s) + 1] = x
  BY Extended
<1>2. \A i \in DOMAIN s : i \in DOMAIN (s \o <<x>>)
  BY <1>1
<1> QED BY <1>1, <1>2 DEF Gains

LEMMA GainsCases ==
  ASSUME NEW S, NEW s \in Seq(S), NEW t, NEW x, Gains(s, t, x)
  PROVE  /\ \A i \in DOMAIN t : i \in DOMAIN s \/ i = Len(s) + 1
         /\ \A i \in DOMAIN s : i \in DOMAIN t /\ t[i] = s[i] /\ i < Len(s) + 1
         /\ Len(s) + 1 \in DOMAIN t /\ Len(s) + 1 \in Nat /\ t[Len(s) + 1] = x
<1>1. Len(s) \in Nat /\ DOMAIN s = 1 .. Len(s)
  OBVIOUS
<1>2. DOMAIN t = 1 .. Len(s) + 1
  BY DEF Gains
<1> QED BY <1>1, <1>2 DEF Gains

LandedWrite(signature) ==
  AccountUpdate(cluster.slot, MarketOf[signature],
                BookAt(MarketOf[signature], cluster.slot) + Fills[signature], signature)

LandedRun(signature, succeeded) ==
  [slot |-> cluster.slot, signature |-> signature, succeeded |-> succeeded]

(* Nothing changes but the chain and what it sent. *)
OnlyChain == UNCHANGED <<wire, process, store, since>>

LEMMA LandIs ==
  ASSUME ChainInv, NEW sig \in Signatures, Land(sig)
  PROVE  /\ sig \notin cluster.landed
         /\ LandedWrite(sig) \in Update
         /\ BookAt(MarketOf[sig], cluster.slot) \in Nat
         /\ cluster' \in Clusters
         /\ cluster'.slot = cluster.slot /\ cluster'.rooted = cluster.rooted
         /\ cluster'.dead = cluster.dead /\ cluster'.landed = cluster.landed \cup {sig}
         /\ cluster'.trades = cluster.trades \cup TradesOf(LandedWrite(sig))
         /\ sent' \in Sendings
         /\ sent'.slots = sent.slots
         /\ Gains(Writes, Writes', LandedWrite(sig))
         /\ Gains(Runs, Runs', LandedRun(sig, TRUE))
         /\ OnlyChain
<1> DEFINE m == MarketOf[sig]
           before == BookAt(m, cluster.slot)
           w == LandedWrite(sig)
           r == LandedRun(sig, TRUE)
           new == {[market |-> m, slot |-> cluster.slot, signature |-> sig, order |-> n] :
                     n \in before + 1 .. before + Fills[sig]}
<1>1. cluster \in Clusters /\ sent \in Sendings
  BY DEF ChainInv, ChainTypes
<1>2. m \in Markets /\ Fills[sig] \in Nat /\ cluster.slot \in 1 .. MaxSlot + 1
  BY <1>1 DEF Clusters
<1>3. before \in Nat
  BY <1>2, BookFacts, SlotBound
<1>4. /\ sig \notin cluster.landed
      /\ cluster.slot <= MaxSlot
      /\ cluster' = [cluster EXCEPT !.landed = @ \cup {sig}, !.trades = @ \cup new]
      /\ sent' = [sent EXCEPT !.accounts = @ \o <<w>>,
                              !.transactions = @ \o <<r>>,
                              !.slots = @ \o <<>>]
      /\ OnlyChain
  BY DEF Land, Send, LandedWrite, LandedRun, OnlyChain
<1>5. cluster.slot \in 1 .. MaxSlot
  BY <1>2, <1>4, SlotBound
<1>6. w \in Update /\ w.market = m /\ w.slot = cluster.slot /\ w.signature = sig
        /\ w.data = before + Fills[sig]
  BY <1>2, <1>3, <1>5 DEF Update, LandedWrite, AccountUpdate
<1>7. r \in Execution
  BY <1>5 DEF Execution, LandedRun
<1>8. new = TradesOf(w)
  <2>1. (before + Fills[sig]) - Fills[sig] = before
    BY <1>2, <1>3
  <2> QED BY <1>6, <2>1 DEF TradesOf
<1>9. new \subseteq AllTrades
  <2>1. SUFFICES ASSUME NEW n \in before + 1 .. before + Fills[sig]
                 PROVE  [market |-> m, slot |-> cluster.slot, signature |-> sig,
                         order |-> n] \in AllTrades
    OBVIOUS
  <2>2. n \in Nat
    BY <1>2, <1>3
  <2> QED BY <1>2, <1>5, <2>2 DEF AllTrades
<1>10. /\ cluster' \in Clusters
       /\ cluster'.slot = cluster.slot /\ cluster'.rooted = cluster.rooted
       /\ cluster'.dead = cluster.dead /\ cluster'.landed = cluster.landed \cup {sig}
       /\ cluster'.trades = cluster.trades \cup new
  <2> HIDE DEF new
  <2> QED BY <1>1, <1>4, <1>9 DEF Clusters
<1>11. /\ sent.accounts \in Seq(Update) /\ sent.transactions \in Seq(Execution)
       /\ sent.slots \in Seq(Status)
  BY <1>1 DEF Sendings
<1>12. /\ sent.accounts \o <<w>> \in Seq(Update) /\ Gains(sent.accounts, sent.accounts \o <<w>>, w)
       /\ sent.transactions \o <<r>> \in Seq(Execution)
       /\ Gains(sent.transactions, sent.transactions \o <<r>>, r)
       /\ sent.slots \o <<>> = sent.slots
  <2> HIDE DEF w, r
  <2>1. /\ sent.accounts \o <<w>> \in Seq(Update)
        /\ Gains(sent.accounts, sent.accounts \o <<w>>, w)
    BY <1>6, <1>11, GainsOne
  <2>2. /\ sent.transactions \o <<r>> \in Seq(Execution)
        /\ Gains(sent.transactions, sent.transactions \o <<r>>, r)
    BY <1>7, <1>11, GainsOne
  <2>3. sent.slots \o <<>> = sent.slots
    BY <1>11, ConcatEmptySeq
  <2> QED BY <2>1, <2>2, <2>3
<1>13. /\ sent' \in Sendings
       /\ sent'.accounts = sent.accounts \o <<w>>
       /\ sent'.transactions = sent.transactions \o <<r>>
       /\ sent'.slots = sent.slots
  <2> HIDE DEF w, r
  <2> QED BY <1>1, <1>4, <1>11, <1>12 DEF Sendings
<1> QED BY <1>3, <1>4, <1>6, <1>8, <1>10, <1>12, <1>13 DEF Writes, Runs

LEMMA LandFailingIs ==
  ASSUME ChainInv, NEW sig \in Signatures, LandFailing(sig)
  PROVE  /\ sig \notin cluster.landed
         /\ cluster' \in Clusters
         /\ cluster'.slot = cluster.slot /\ cluster'.rooted = cluster.rooted
         /\ cluster'.dead = cluster.dead /\ cluster'.landed = cluster.landed \cup {sig}
         /\ cluster'.trades = cluster.trades
         /\ sent' \in Sendings
         /\ sent'.slots = sent.slots
         /\ Writes' = Writes
         /\ Gains(Runs, Runs', LandedRun(sig, FALSE))
         /\ OnlyChain
<1> DEFINE r == LandedRun(sig, FALSE)
<1>1. cluster \in Clusters /\ sent \in Sendings
  BY DEF ChainInv, ChainTypes
<1>2. cluster.slot \in 1 .. MaxSlot + 1
  BY <1>1 DEF Clusters
<1>4. /\ sig \notin cluster.landed
      /\ cluster.slot <= MaxSlot
      /\ cluster' = [cluster EXCEPT !.landed = @ \cup {sig}]
      /\ sent' = [sent EXCEPT !.accounts = @ \o <<>>,
                              !.transactions = @ \o <<r>>,
                              !.slots = @ \o <<>>]
      /\ OnlyChain
  BY DEF LandFailing, Send, LandedRun, OnlyChain
<1>5. cluster.slot \in 1 .. MaxSlot
  BY <1>2, <1>4, SlotBound
<1>7. r \in Execution
  BY <1>5 DEF Execution, LandedRun
<1>10. /\ cluster' \in Clusters
       /\ cluster'.slot = cluster.slot /\ cluster'.rooted = cluster.rooted
       /\ cluster'.dead = cluster.dead /\ cluster'.landed = cluster.landed \cup {sig}
       /\ cluster'.trades = cluster.trades
  BY <1>1, <1>4 DEF Clusters
<1>11. /\ sent.accounts \in Seq(Update) /\ sent.transactions \in Seq(Execution)
       /\ sent.slots \in Seq(Status)
  BY <1>1 DEF Sendings
<1>12. /\ sent.transactions \o <<r>> \in Seq(Execution)
       /\ Gains(sent.transactions, sent.transactions \o <<r>>, r)
       /\ sent.accounts \o <<>> = sent.accounts
       /\ sent.slots \o <<>> = sent.slots
  <2> HIDE DEF r
  <2>2. /\ sent.transactions \o <<r>> \in Seq(Execution)
        /\ Gains(sent.transactions, sent.transactions \o <<r>>, r)
    BY <1>7, <1>11, GainsOne
  <2>3. sent.slots \o <<>> = sent.slots /\ sent.accounts \o <<>> = sent.accounts
    BY <1>11, ConcatEmptySeq
  <2> QED BY <2>2, <2>3
<1>13. /\ sent' \in Sendings
       /\ sent'.accounts = sent.accounts
       /\ sent'.transactions = sent.transactions \o <<r>>
       /\ sent'.slots = sent.slots
  <2> HIDE DEF r
  <2> QED BY <1>1, <1>4, <1>11, <1>12 DEF Sendings
<1> QED BY <1>4, <1>10, <1>12, <1>13 DEF Writes, Runs

(* The steps that send only a slot status. *)
Reports(status) ==
  /\ cluster' \in Clusters
  /\ cluster'.landed = cluster.landed
  /\ cluster'.trades = cluster.trades
  /\ sent' \in Sendings
  /\ Writes' = Writes /\ Runs' = Runs
  /\ Gains(sent.slots, sent'.slots, status)
  /\ OnlyChain

LEMMA SendStatus ==
  ASSUME ChainInv, NEW status \in Status, Send(<<>>, <<>>, <<status>>)
  PROVE  /\ sent' \in Sendings
         /\ Writes' = Writes /\ Runs' = Runs
         /\ Gains(sent.slots, sent'.slots, status)
<1>1. sent \in Sendings
  BY DEF ChainInv, ChainTypes
<1>2. sent' = [sent EXCEPT !.accounts = @ \o <<>>,
                           !.transactions = @ \o <<>>,
                           !.slots = @ \o <<status>>]
  BY DEF Send
<1>3. /\ sent.accounts \in Seq(Update) /\ sent.transactions \in Seq(Execution)
      /\ sent.slots \in Seq(Status)
  BY <1>1 DEF Sendings
<1>4. sent.transactions \o <<>> = sent.transactions /\ sent.accounts \o <<>> = sent.accounts
  BY <1>3, ConcatEmptySeq
<1>5. sent.slots \o <<status>> \in Seq(Status)
        /\ Gains(sent.slots, sent.slots \o <<status>>, status)
  BY <1>3, GainsOne
<1>6. /\ sent' \in Sendings
      /\ sent'.accounts = sent.accounts
      /\ sent'.transactions = sent.transactions
      /\ sent'.slots = sent.slots \o <<status>>
  BY <1>1, <1>2, <1>3, <1>4, <1>5 DEF Sendings
<1> QED BY <1>5, <1>6 DEF Writes, Runs

LEMMA CloseSlotIs ==
  ASSUME ChainInv, CloseSlot
  PROVE  /\ Reports([slot |-> cluster.slot, status |-> "confirmed"])
         /\ cluster'.slot = cluster.slot + 1
         /\ cluster'.rooted = cluster.rooted /\ cluster'.dead = cluster.dead
<1>1. cluster \in Clusters
  BY DEF ChainInv, ChainTypes
<1>2. cluster.slot \in 1 .. MaxSlot + 1
  BY <1>1 DEF Clusters
<1> DEFINE status == [slot |-> cluster.slot, status |-> "confirmed"]
<1>3. /\ cluster.slot <= MaxSlot
      /\ cluster' = [cluster EXCEPT !.slot = @ + 1]
      /\ Send(<<>>, <<>>, <<status>>)
      /\ OnlyChain
  BY DEF CloseSlot, OnlyChain
<1>4. cluster.slot \in 1 .. MaxSlot /\ cluster.slot + 1 \in 1 .. MaxSlot + 1
  BY <1>2, <1>3, SlotBound
<1>5. /\ cluster' \in Clusters
      /\ cluster'.slot = cluster.slot + 1
      /\ cluster'.rooted = cluster.rooted /\ cluster'.dead = cluster.dead
      /\ cluster'.landed = cluster.landed /\ cluster'.trades = cluster.trades
  BY <1>1, <1>3, <1>4 DEF Clusters
<1>6. status \in Status
  BY <1>4 DEF Status
<1>7. /\ sent' \in Sendings
      /\ Writes' = Writes /\ Runs' = Runs
      /\ Gains(sent.slots, sent'.slots, status)
  <2> HIDE DEF status
  <2> QED BY <1>3, <1>6, SendStatus
<1> QED BY <1>3, <1>5, <1>7 DEF Reports

(* Where no slot dies with a write in it, abandoning one takes no trade    *)
(* back.                                                                   *)
LEMMA AbandonSlotIs ==
  ASSUME ChainInv, AbandonSlot, DeadSlotsAreEmpty'
  PROVE  /\ Reports([slot |-> cluster.slot - 1, status |-> "dead"])
         /\ cluster'.slot = cluster.slot
         /\ cluster'.rooted = cluster.rooted
         /\ cluster'.dead = cluster.dead \cup {cluster.slot - 1}
         /\ cluster.slot - 1 \in 1 .. MaxSlot
         /\ cluster.rooted < cluster.slot - 1
<1>1. cluster \in Clusters
  BY DEF ChainInv, ChainTypes
<1>2. cluster.slot \in 1 .. MaxSlot + 1 /\ cluster.rooted \in 0 .. MaxSlot
  BY <1>1 DEF Clusters
<1> DEFINE slot == cluster.slot - 1
           lost == {t \in cluster.trades : t.slot = slot}
           status == [slot |-> slot, status |-> "dead"]
<1>3. /\ slot \in Unrooted
      /\ cluster' = [cluster EXCEPT !.dead = @ \cup {slot}, !.trades = @ \ lost,
                                    !.landed = @ \ {t.signature : t \in lost}]
      /\ Send(<<>>, <<>>, <<status>>)
      /\ OnlyChain
  BY DEF AbandonSlot, OnlyChain
<1>4. slot \in 1 .. cluster.slot - 1 /\ cluster.rooted < slot
  BY <1>3 DEF Unrooted
<1>5. slot \in 1 .. MaxSlot
  BY <1>2, <1>4, SlotBound
<1>6. status \in Status
  BY <1>5 DEF Status
<1>7. /\ sent' \in Sendings
      /\ Writes' = Writes /\ Runs' = Runs
      /\ Gains(sent.slots, sent'.slots, status)
  <2> HIDE DEF status
  <2> QED BY <1>3, <1>6, SendStatus
<1>8. cluster'.dead = cluster.dead \cup {slot}
  BY <1>1, <1>3 DEF Clusters
<1>9. lost = {}
  <2>1. SUFFICES ASSUME NEW t \in cluster.trades, t.slot = slot PROVE FALSE
    OBVIOUS
  <2>2. PICK i \in DOMAIN Writes : t \in TradesOf(Writes[i])
    BY TradeHasWrite
  <2>3. Writes[i].slot = slot
    BY <2>1, <2>2, TradeOfFields, WriteFields
  <2>4. i \in DOMAIN sent'.accounts /\ sent'.accounts[i].slot = slot
    BY <1>7, <2>3 DEF Writes
  <2> QED BY <1>8, <2>4 DEF DeadSlotsAreEmpty
<1>10. cluster' = [cluster EXCEPT !.dead = @ \cup {slot}, !.trades = @, !.landed = @]
  BY <1>3, <1>9
<1>11. /\ cluster' \in Clusters
       /\ cluster'.slot = cluster.slot /\ cluster'.rooted = cluster.rooted
       /\ cluster'.landed = cluster.landed /\ cluster'.trades = cluster.trades
  BY <1>1, <1>5, <1>10 DEF Clusters
<1> QED BY <1>3, <1>4, <1>5, <1>7, <1>8, <1>11 DEF Reports

LEMMA FinalizeSlotIs ==
  ASSUME ChainInv, FinalizeSlot
  PROVE  /\ Reports([slot |-> cluster'.rooted, status |-> "finalized"])
         /\ cluster'.slot = cluster.slot /\ cluster'.dead = cluster.dead
         /\ cluster'.rooted \in 1 .. MaxSlot
         /\ cluster.rooted < cluster'.rooted /\ cluster'.rooted < cluster.slot
         /\ cluster'.rooted \notin cluster.dead
<1>1. cluster \in Clusters
  BY DEF ChainInv, ChainTypes
<1>2. cluster.slot \in 1 .. MaxSlot + 1 /\ cluster.rooted \in 0 .. MaxSlot
  BY <1>1 DEF Clusters
<1>3. PICK slot \in Unrooted :
        /\ cluster' = [cluster EXCEPT !.rooted = slot]
        /\ Send(<<>>, <<>>, <<[slot |-> slot, status |-> "finalized"]>>)
        /\ OnlyChain
  BY DEF FinalizeSlot, OnlyChain
<1>4. slot \in 1 .. cluster.slot - 1 /\ cluster.rooted < slot /\ slot \notin cluster.dead
  BY <1>3 DEF Unrooted
<1>5. slot \in 1 .. MaxSlot /\ slot < cluster.slot
  BY <1>2, <1>4, SlotBound
<1> DEFINE status == [slot |-> slot, status |-> "finalized"]
<1>6. status \in Status
  BY <1>5 DEF Status
<1>9. Send(<<>>, <<>>, <<status>>)
  BY <1>3
<1>7. /\ sent' \in Sendings
      /\ Writes' = Writes /\ Runs' = Runs
      /\ Gains(sent.slots, sent'.slots, status)
  <2> HIDE DEF status
  <2> QED BY <1>9, <1>6, SendStatus
<1>10. cluster' = [cluster EXCEPT !.rooted = slot] /\ slot \in 0 .. MaxSlot
  BY <1>3, <1>5, SlotBound
<1>8. /\ cluster' \in Clusters
      /\ cluster'.slot = cluster.slot /\ cluster'.rooted = slot
      /\ cluster'.dead = cluster.dead
      /\ cluster'.landed = cluster.landed /\ cluster'.trades = cluster.trades
  BY <1>1, <1>10 DEF Clusters
<1> QED BY <1>3, <1>4, <1>5, <1>7, <1>8 DEF Reports

LEMMA ChainParts ==
  ChainInv <=> /\ ChainTypes /\ WritesAreSound /\ TradesAreWritten /\ RunsAreSound
               /\ \A k \in DOMAIN sent.slots : StatusIsTrue(k)
BY DEF ChainInv

(* The chain and what it sent are all ChainInv speaks of. *)
LEMMA ChainStands ==
  ASSUME ChainInv, UNCHANGED <<cluster, sent>>
  PROVE  ChainInv'
<1>1. cluster' = cluster /\ sent' = sent
  OBVIOUS
<1>2. Writes' = Writes /\ Runs' = Runs
  BY <1>1 DEF Writes, Runs
<1>3. ChainTypes'
  BY <1>1 DEF ChainInv, ChainTypes
<1>4. WritesAreSound'
  BY <1>1, <1>2 DEF ChainInv, WritesAreSound, WriteIsPlaced, WritesInOrder, StartsAt, Start,
    OrdersTraded
<1>5. TradesAreWritten'
  BY <1>1, <1>2 DEF ChainInv, TradesAreWritten
<1>6. RunsAreSound'
  BY <1>1, <1>2 DEF ChainInv, RunsAreSound, RunIsPlaced, RunsInOrder, IsRunOf
<1>7. \A k \in DOMAIN sent'.slots : StatusIsTrue(k)'
  BY <1>1 DEF ChainInv, StatusIsTrue
<1> QED BY <1>3, <1>4, <1>5, <1>6, <1>7 DEF ChainInv

(* What holds of the writes holds while the chain, the transactions and    *)
(* the statuses grow.                                                      *)
LEMMA SameWrites ==
  ASSUME ChainInv, Writes' = Writes, cluster.slot <= cluster'.slot,
         cluster'.slot \in Int, cluster.landed \subseteq cluster'.landed,
         cluster'.trades = cluster.trades
  PROVE  WritesAreSound' /\ TradesAreWritten'
<1>1. \A i \in DOMAIN Writes : WriteIsPlaced(i)'
  <2>1. TAKE i \in DOMAIN Writes
  <2>2. WriteIsPlaced(i)
    BY DEF ChainInv, WritesAreSound
  <2>3. Writes[i].slot \in Nat /\ Writes[i].slot <= cluster.slot /\ cluster.slot \in Int
    BY WriteFields, ChainFields
  <2> QED BY <2>2, <2>3 DEF WriteIsPlaced
<1>2. \A i, j \in DOMAIN Writes : WritesInOrder(i, j)'
  BY DEF ChainInv, WritesAreSound, WritesInOrder
<1>3. \A i \in DOMAIN Writes : StartsAt(i, Start(i))'
  BY DEF ChainInv, WritesAreSound, StartsAt, Start
<1>4. \A i \in DOMAIN Writes : OrdersTraded(i)'
  BY DEF ChainInv, WritesAreSound, OrdersTraded
<1>5. TradesAreWritten'
  BY DEF ChainInv, TradesAreWritten
<1> QED BY <1>1, <1>2, <1>3, <1>4, <1>5 DEF WritesAreSound

LEMMA ReportKeepsChain ==
  ASSUME ChainInv, NEW status, Reports(status),
         cluster.slot <= cluster'.slot, cluster.rooted <= cluster'.rooted,
         cluster.dead \subseteq cluster'.dead,
         cluster'.rooted < cluster'.slot, cluster'.rooted \notin cluster'.dead,
         \A s \in cluster'.dead : s < cluster'.slot,
         status.slot < cluster'.slot,
         status.status = "dead" => status.slot \in cluster'.dead,
         status.status = "finalized" => status.slot <= cluster'.rooted
  PROVE  ChainInv'
<1>1. /\ cluster' \in Clusters /\ sent' \in Sendings
      /\ cluster'.landed = cluster.landed /\ cluster'.trades = cluster.trades
      /\ Writes' = Writes /\ Runs' = Runs
      /\ Gains(sent.slots, sent'.slots, status)
  BY DEF Reports
<1>2. cluster'.slot \in Int /\ cluster'.rooted \in Int /\ cluster.slot \in Int
        /\ cluster.rooted \in Int
  BY <1>1, ChainFields DEF Clusters
<1>3. ChainTypes'
  BY <1>1 DEF ChainTypes
<1>4. WritesAreSound' /\ TradesAreWritten'
  BY <1>1, <1>2, SameWrites
<1>5. RunsAreSound'
  <2>1. \A k \in DOMAIN Runs : RunIsPlaced(k)'
    <3>1. TAKE k \in DOMAIN Runs
    <3>2. RunIsPlaced(k)
      BY DEF ChainInv, RunsAreSound
    <3>3. Runs[k].slot \in Int
      BY RunFields
    <3> QED BY <1>1, <1>2, <3>2, <3>3 DEF RunIsPlaced
  <2>2. \A k, l \in DOMAIN Runs : RunsInOrder(k, l)'
    BY <1>1 DEF ChainInv, RunsAreSound, RunsInOrder
  <2>3. \A k \in DOMAIN Runs, i \in DOMAIN Writes : IsRunOf(k, i)' <=> IsRunOf(k, i)
    BY <1>1 DEF IsRunOf
  <2> QED BY <1>1, <2>1, <2>2, <2>3 DEF ChainInv, RunsAreSound
<1>6. \A k \in DOMAIN sent'.slots : StatusIsTrue(k)'
  <2>1. TAKE k \in DOMAIN sent'.slots
  <2>2. sent.slots \in Seq(Status)
    BY ChainFields
  <2>3. \/ k \in DOMAIN sent.slots /\ sent'.slots[k] = sent.slots[k]
        \/ sent'.slots[k] = status
    BY <1>1, <2>1, <2>2, GainsCases
  <2>4. CASE sent'.slots[k] = status
    BY <2>4 DEF StatusIsTrue
  <2>5. CASE k \in DOMAIN sent.slots /\ sent'.slots[k] = sent.slots[k]
    <3>1. StatusIsTrue(k)
      BY <2>5 DEF ChainInv
    <3>2. sent.slots[k] \in Status
      BY <2>2, <2>5
    <3>3. sent.slots[k].slot \in Nat
      BY <3>2, SlotBound DEF Status
    <3> QED BY <1>2, <2>5, <3>1, <3>3 DEF StatusIsTrue
  <2> QED BY <2>3, <2>4, <2>5
<1> QED BY <1>3, <1>4, <1>5, <1>6 DEF ChainInv

LEMMA CloseSlotKeepsChain ==
  ASSUME ChainInv, CloseSlot
  PROVE  ChainInv'
<1> DEFINE status == [slot |-> cluster.slot, status |-> "confirmed"]
<1>1. /\ Reports(status)
      /\ cluster'.slot = cluster.slot + 1
      /\ cluster'.rooted = cluster.rooted /\ cluster'.dead = cluster.dead
  BY CloseSlotIs
<1>2. status.slot = cluster.slot /\ status.status = "confirmed"
  OBVIOUS
<1>3. ChainTypes /\ cluster.slot \in Int /\ cluster.rooted \in Int
  BY ChainFields DEF ChainInv
<1>4. \A s \in cluster.dead : s \in Int
  BY <1>3, SlotBound DEF ChainTypes, Clusters
<1>5. /\ cluster.slot <= cluster'.slot /\ cluster.rooted <= cluster'.rooted
      /\ cluster'.rooted < cluster'.slot /\ cluster'.rooted \notin cluster'.dead
      /\ \A s \in cluster'.dead : s < cluster'.slot
  BY <1>1, <1>3, <1>4 DEF ChainTypes
<1>6. status.slot < cluster'.slot
  BY <1>1, <1>2, <1>3
<1> HIDE DEF status
<1> QED BY <1>1, <1>2, <1>5, <1>6, ReportKeepsChain

LEMMA AbandonSlotKeepsChain ==
  ASSUME ChainInv, AbandonSlot, DeadSlotsAreEmpty'
  PROVE  ChainInv'
<1> DEFINE status == [slot |-> cluster.slot - 1, status |-> "dead"]
<1>1. /\ Reports(status)
      /\ cluster'.slot = cluster.slot
      /\ cluster'.rooted = cluster.rooted
      /\ cluster'.dead = cluster.dead \cup {cluster.slot - 1}
      /\ cluster.rooted < cluster.slot - 1
  BY AbandonSlotIs
<1>2. status.slot = cluster.slot - 1 /\ status.status = "dead"
  OBVIOUS
<1>3. ChainTypes /\ cluster.slot \in Int /\ cluster.rooted \in Int
  BY ChainFields DEF ChainInv
<1>4. \A s \in cluster.dead : s \in Int
  BY <1>3, SlotBound DEF ChainTypes, Clusters
<1>5. /\ cluster.slot <= cluster'.slot /\ cluster.rooted <= cluster'.rooted
      /\ cluster.dead \subseteq cluster'.dead
      /\ cluster'.rooted < cluster'.slot /\ cluster'.rooted \notin cluster'.dead
      /\ \A s \in cluster'.dead : s < cluster'.slot
  BY <1>1, <1>3, <1>4 DEF ChainTypes
<1>6. status.slot < cluster'.slot /\ status.slot \in cluster'.dead
  BY <1>1, <1>2, <1>3
<1> HIDE DEF status
<1> QED BY <1>1, <1>2, <1>5, <1>6, ReportKeepsChain

LEMMA FinalizeSlotKeepsChain ==
  ASSUME ChainInv, FinalizeSlot
  PROVE  ChainInv'
<1> DEFINE status == [slot |-> cluster'.rooted, status |-> "finalized"]
<1>1. /\ Reports(status)
      /\ cluster'.slot = cluster.slot /\ cluster'.dead = cluster.dead
      /\ cluster'.rooted \in 1 .. MaxSlot
      /\ cluster.rooted < cluster'.rooted /\ cluster'.rooted < cluster.slot
      /\ cluster'.rooted \notin cluster.dead
  BY FinalizeSlotIs
<1>2. status.slot = cluster'.rooted /\ status.status = "finalized"
  OBVIOUS
<1>3. ChainTypes /\ cluster.slot \in Int /\ cluster.rooted \in Int
  BY ChainFields DEF ChainInv
<1>4. cluster'.rooted \in Nat
  BY <1>1, SlotBound
<1>5. /\ cluster.slot <= cluster'.slot /\ cluster.rooted <= cluster'.rooted
      /\ cluster.dead \subseteq cluster'.dead
      /\ cluster'.rooted < cluster'.slot /\ cluster'.rooted \notin cluster'.dead
      /\ \A s \in cluster'.dead : s < cluster'.slot
  BY <1>1, <1>3, <1>4 DEF ChainTypes
<1>6. status.slot < cluster'.slot /\ status.slot <= cluster'.rooted
  BY <1>1, <1>2, <1>4, <1>5
<1> HIDE DEF status
<1> QED BY <1>1, <1>2, <1>5, <1>6, ReportKeepsChain

(* The transaction that lands is the last, and its write too. *)
LEMMA LandedRunIsLast ==
  ASSUME ChainInv, NEW sig, sig \notin cluster.landed, NEW succeeded,
         sent' \in Sendings, cluster'.slot = cluster.slot,
         cluster'.landed = cluster.landed \cup {sig},
         Gains(Runs, Runs', LandedRun(sig, succeeded))
  PROVE  /\ \A k \in DOMAIN Runs' : RunIsPlaced(k)'
         /\ \A k, l \in DOMAIN Runs' : RunsInOrder(k, l)'
<1>1. /\ \A k \in DOMAIN Runs' : k \in DOMAIN Runs \/ k = Len(Runs) + 1
      /\ \A k \in DOMAIN Runs : k \in DOMAIN Runs' /\ Runs'[k] = Runs[k] /\ k < Len(Runs) + 1
      /\ Len(Runs) + 1 \in DOMAIN Runs' /\ Len(Runs) + 1 \in Nat
      /\ Runs'[Len(Runs) + 1] = LandedRun(sig, succeeded)
  BY ChainFields, GainsCases
<1>2. /\ Runs'[Len(Runs) + 1].slot = cluster.slot
      /\ Runs'[Len(Runs) + 1].signature = sig
  BY <1>1 DEF LandedRun
<1>3. \A k \in DOMAIN Runs :
        /\ Runs[k].slot <= cluster.slot /\ Runs[k].signature \in cluster.landed
        /\ Runs[k].signature # sig
  BY DEF ChainInv, RunsAreSound, RunIsPlaced
<1>4. \A k \in DOMAIN Runs' : RunIsPlaced(k)'
  <2>1. TAKE k \in DOMAIN Runs'
  <2>2. CASE k \in DOMAIN Runs
    BY <1>1, <1>3, <2>2 DEF RunIsPlaced
  <2>3. CASE k = Len(Runs) + 1
    BY <1>2, <2>3, ChainFields DEF RunIsPlaced
  <2> QED BY <1>1, <2>2, <2>3
<1>5. \A k, l \in DOMAIN Runs' : RunsInOrder(k, l)'
  <2>1. TAKE k, l \in DOMAIN Runs'
  <2>2. CASE k \in DOMAIN Runs /\ l \in DOMAIN Runs
    <3>1. RunsInOrder(k, l)
      BY <2>2 DEF ChainInv, RunsAreSound
    <3> QED BY <1>1, <2>2, <3>1 DEF RunsInOrder
  <2>3. CASE k \in DOMAIN Runs /\ l = Len(Runs) + 1
    BY <1>1, <1>2, <1>3, <2>3 DEF RunsInOrder
  <2>4. CASE k = Len(Runs) + 1
    <3>1. Len(Runs) \in Nat /\ DOMAIN Runs = 1 .. Len(Runs)
      BY ChainFields
    <3>2. l \in DOMAIN Runs \/ l = Len(Runs) + 1
      BY <1>1
    <3>3. ~ (k < l)
      BY ONLY <2>4, <3>1, <3>2
    <3> QED BY <3>3 DEF RunsInOrder
  <2> QED BY <1>1, <2>2, <2>3, <2>4
<1> QED BY <1>4, <1>5

LEMMA LandFailingKeepsChain ==
  ASSUME ChainInv, NEW sig \in Signatures, LandFailing(sig)
  PROVE  ChainInv'
<1> DEFINE r == LandedRun(sig, FALSE)
           l == Len(Runs) + 1
<1>1. /\ sig \notin cluster.landed
      /\ cluster' \in Clusters
      /\ cluster'.slot = cluster.slot /\ cluster'.rooted = cluster.rooted
      /\ cluster'.dead = cluster.dead /\ cluster'.landed = cluster.landed \cup {sig}
      /\ cluster'.trades = cluster.trades
      /\ sent' \in Sendings
      /\ sent'.slots = sent.slots
      /\ Writes' = Writes
      /\ Gains(Runs, Runs', r)
  BY LandFailingIs
<1>2. ChainTypes'
  BY <1>1 DEF ChainInv, ChainTypes
<1>3. WritesAreSound' /\ TradesAreWritten'
  BY <1>1, ChainFields, SameWrites
<1>4. /\ \A k \in DOMAIN Runs' : RunIsPlaced(k)'
      /\ \A k, n \in DOMAIN Runs' : RunsInOrder(k, n)'
  BY <1>1, LandedRunIsLast
<1>5. /\ \A k \in DOMAIN Runs' : k \in DOMAIN Runs \/ k = l
      /\ \A k \in DOMAIN Runs : k \in DOMAIN Runs' /\ Runs'[k] = Runs[k]
      /\ Runs'[l] = r
  <2>1. Runs \in Seq(Execution) /\ Gains(Runs, Runs', r)
    BY <1>1, ChainFields
  <2> HIDE DEF r
  <2> QED BY ONLY <2>1, GainsCases
<1>6. ~ Runs'[l].succeeded
  BY <1>5 DEF LandedRun
<1>7. /\ \A i \in DOMAIN Writes, k \in DOMAIN Runs : IsRunOf(k, i)' <=> IsRunOf(k, i)
      /\ \A i \in DOMAIN Writes, k \in DOMAIN Runs' : IsRunOf(k, i)' => k \in DOMAIN Runs
  <2> HIDE DEF l, r
  <2>1. \A i \in DOMAIN Writes, k \in DOMAIN Runs : IsRunOf(k, i)' <=> IsRunOf(k, i)
    BY <1>1, <1>5 DEF IsRunOf
  <2>2. \A i \in DOMAIN Writes, k \in DOMAIN Runs' : IsRunOf(k, i)' => Runs'[k].succeeded
    BY DEF IsRunOf
  <2>3. \A i \in DOMAIN Writes, k \in DOMAIN Runs' : IsRunOf(k, i)' => k \in DOMAIN Runs
    BY <1>5, <1>6, <2>2
  <2> QED BY <2>1, <2>3
<1>8. \A i \in DOMAIN Writes' : \E k \in DOMAIN Runs' : IsRunOf(k, i)'
  BY <1>1, <1>5, <1>7 DEF ChainInv, RunsAreSound
<1>9. \A k \in DOMAIN Runs' :
        Runs'[k].succeeded => \E i \in DOMAIN Writes' : IsRunOf(k, i)'
  BY <1>1, <1>5, <1>6, <1>7 DEF ChainInv, RunsAreSound
<1>10. \A i, j \in DOMAIN Writes', k, n \in DOMAIN Runs' :
         IsRunOf(k, i)' /\ IsRunOf(n, j)' /\ i < j => k < n
  <2> HIDE DEF l, r
  <2>1. TAKE i, j \in DOMAIN Writes', k, n \in DOMAIN Runs'
  <2>2. HAVE IsRunOf(k, i)' /\ IsRunOf(n, j)' /\ i < j
  <2>3. k \in DOMAIN Runs /\ n \in DOMAIN Runs /\ IsRunOf(k, i) /\ IsRunOf(n, j)
    BY <1>1, <1>5, <1>7, <2>2
  <2> QED BY <1>1, <2>2, <2>3 DEF ChainInv, RunsAreSound
<1>11. \A k \in DOMAIN sent'.slots : StatusIsTrue(k)'
  BY <1>1 DEF ChainInv, StatusIsTrue
<1> QED BY <1>2, <1>3, <1>4, <1>8, <1>9, <1>10, <1>11 DEF ChainInv, RunsAreSound

LEMMA LandKeepsChain ==
  ASSUME ChainInv, NEW sig \in Signatures, Land(sig)
  PROVE  ChainInv'
<1> DEFINE w == LandedWrite(sig)
           r == LandedRun(sig, TRUE)
           e == Len(Writes) + 1
           l == Len(Runs) + 1
           m == MarketOf[sig]
           before == BookAt(m, cluster.slot)
<1>1. /\ sig \notin cluster.landed
      /\ w \in Update
      /\ before \in Nat
      /\ cluster' \in Clusters
      /\ cluster'.slot = cluster.slot /\ cluster'.rooted = cluster.rooted
      /\ cluster'.dead = cluster.dead /\ cluster'.landed = cluster.landed \cup {sig}
      /\ cluster'.trades = cluster.trades \cup TradesOf(w)
      /\ sent' \in Sendings
      /\ sent'.slots = sent.slots
      /\ Gains(Writes, Writes', w)
      /\ Gains(Runs, Runs', r)
  BY LandIs
<1>2. ChainTypes'
  BY <1>1 DEF ChainInv, ChainTypes
<1>3. /\ \A i \in DOMAIN Writes' : i \in DOMAIN Writes \/ i = e
      /\ \A i \in DOMAIN Writes : i \in DOMAIN Writes' /\ Writes'[i] = Writes[i] /\ i < e
      /\ e \in DOMAIN Writes' /\ e \in Nat /\ Writes'[e] = w
  <2>1. Writes \in Seq(Update) /\ Gains(Writes, Writes', w)
    BY <1>1, ChainFields
  <2> HIDE DEF w
  <2> QED BY ONLY <2>1, GainsCases
<1>4. /\ \A k \in DOMAIN Runs' : k \in DOMAIN Runs \/ k = l
      /\ \A k \in DOMAIN Runs : k \in DOMAIN Runs' /\ Runs'[k] = Runs[k] /\ k < l
      /\ l \in DOMAIN Runs' /\ l \in Nat /\ Runs'[l] = r
  <2>1. Runs \in Seq(Execution) /\ Gains(Runs, Runs', r)
    BY <1>1, ChainFields
  <2> HIDE DEF r
  <2> QED BY ONLY <2>1, GainsCases
<1>5. /\ w.slot = cluster.slot /\ w.market = m /\ w.signature = sig
      /\ w.data = before + Fills[sig]
      /\ r.slot = cluster.slot /\ r.signature = sig /\ r.succeeded
  BY DEF LandedWrite, LandedRun, AccountUpdate
<1>6. m \in Markets /\ Fills[sig] \in Nat \ {0} /\ cluster.slot \in Int
  BY ChainFields
<1>7. /\ \A i \in DOMAIN Writes : Writes[i].market = m => Writes[i].data <= before
      /\ \/ before = 0
         \/ \E i \in DOMAIN Writes : Writes[i].market = m /\ Writes[i].data = before
  <2>1. \A i \in DOMAIN Writes :
          Writes[i].market = m /\ Writes[i].slot <= cluster.slot => Writes[i].data <= before
    BY <1>6, BookFacts
  <2>2. \/ before = 0
        \/ \E i \in DOMAIN Writes :
             Writes[i].market = m /\ Writes[i].slot <= cluster.slot /\ Writes[i].data = before
    BY <1>6, BookFacts
  <2> HIDE DEF before, m
  <2> QED BY <2>1, <2>2, WriteFields
<1>8. \A i \in DOMAIN Writes :
        /\ Writes[i].slot <= cluster.slot /\ Writes[i].signature # sig
        /\ Writes[i].signature \in cluster.landed
  BY <1>1 DEF ChainInv, WritesAreSound, WriteIsPlaced
<1>9. w.data - Fills[sig] = before /\ w.data \in Nat /\ Fills[sig] <= w.data
  BY <1>1, <1>5, <1>6
<1>10. \A i \in DOMAIN Writes' : WriteIsPlaced(i)'
  <2> HIDE DEF w, e, r, l, m, before
  <2>1. TAKE i \in DOMAIN Writes'
  <2>2. CASE i \in DOMAIN Writes
    <3>1. WriteIsPlaced(i)
      BY <2>2 DEF ChainInv, WritesAreSound
    <3> QED BY <1>1, <1>3, <2>2, <3>1 DEF WriteIsPlaced
  <2>3. CASE i = e
    BY <1>1, <1>3, <1>5, <1>6, <1>9, <2>3 DEF WriteIsPlaced, m
  <2> QED BY <1>3, <2>2, <2>3
<1>11. \A i, j \in DOMAIN Writes' : WritesInOrder(i, j)'
  <2> HIDE DEF w, e, r, l, m, before
  <2>1. TAKE i, j \in DOMAIN Writes'
  <2>2. CASE i \in DOMAIN Writes /\ j \in DOMAIN Writes
    <3>1. WritesInOrder(i, j)
      BY <2>2 DEF ChainInv, WritesAreSound
    <3> QED BY <1>3, <2>2, <3>1 DEF WritesInOrder
  <2>3. CASE i \in DOMAIN Writes /\ j = e
    <3>1. /\ Writes'[i] = Writes[i] /\ Writes'[j] = w
      BY <1>3, <2>3
    <3>2. Writes[i].market = w.market => Writes[i].data <= w.data - Fills[w.signature]
      BY <1>5, <1>7, <1>9, <2>3
    <3> QED BY <1>5, <1>8, <2>3, <3>1, <3>2 DEF WritesInOrder
  <2>4. CASE i = e
    <3>1. e = Len(Writes) + 1 /\ Len(Writes) \in Nat /\ DOMAIN Writes = 1 .. Len(Writes)
      BY ChainFields DEF e
    <3>2. j \in DOMAIN Writes \/ j = e
      BY <1>3
    <3>3. ~ (i < j)
      BY ONLY <2>4, <3>1, <3>2
    <3> QED BY <3>3 DEF WritesInOrder
  <2> QED BY <1>3, <2>2, <2>3, <2>4
<1>12. \A i \in DOMAIN Writes' : StartsAt(i, Start(i))'
  <2> HIDE DEF w, e, r, l, m, before
  <2>1. TAKE i \in DOMAIN Writes'
  <2>2. CASE i \in DOMAIN Writes
    <3>1. StartsAt(i, Start(i)) /\ Start(i)' = Start(i)
      BY <1>3, <2>2 DEF ChainInv, WritesAreSound, Start
    <3> QED BY <1>3, <2>2, <3>1 DEF StartsAt
  <2>3. CASE i = e
    <3>1. Start(i)' = before /\ Writes'[i].market = m
      BY <1>3, <1>5, <1>9, <2>3 DEF Start
    <3>2. \/ before = 0
          \/ \E j \in DOMAIN Writes' :
               j < i /\ Writes'[j].market = m /\ Writes'[j].data = before
      BY <1>3, <1>7, <2>3
    <3> QED BY <3>1, <3>2 DEF StartsAt
  <2> QED BY <1>3, <2>2, <2>3
<1>13. \A i \in DOMAIN Writes' : OrdersTraded(i)'
  <2> HIDE DEF w, e, r, l, m, before
  <2>1. TAKE i \in DOMAIN Writes'
  <2>2. CASE i \in DOMAIN Writes
    <3>1. OrdersTraded(i)
      BY <2>2 DEF ChainInv, WritesAreSound
    <3> QED BY <1>1, <1>3, <2>2, <3>1 DEF OrdersTraded
  <2>3. CASE i = e
    <3>1. SUFFICES ASSUME NEW n \in 1 .. w.data
                   PROVE  \E t \in cluster'.trades :
                            t.market = m /\ t.order = n /\ t.slot <= cluster.slot
      BY <1>3, <1>5, <2>3 DEF OrdersTraded
    <3>2. CASE n <= before
      <4>1. before # 0 /\ n \in 1 .. before
        BY <1>1, <3>2
      <4>2. PICK j \in DOMAIN Writes : Writes[j].market = m /\ Writes[j].data = before
        BY <1>7, <4>1
      <4>3. OrdersTraded(j)
        BY DEF ChainInv, WritesAreSound
      <4>4. PICK t \in cluster.trades :
              t.market = m /\ t.order = n /\ t.slot <= Writes[j].slot
        BY <4>1, <4>2, <4>3 DEF OrdersTraded
      <4>5. t.slot \in Nat /\ Writes[j].slot \in Nat /\ Writes[j].slot <= cluster.slot
        BY WriteFields, TradeFields
      <4> QED BY <1>1, <1>6, <4>4, <4>5
    <3>3. CASE n > before
      <4>1. n \in (w.data - Fills[w.signature]) + 1 .. w.data
        BY <1>1, <1>5, <1>9, <3>1, <3>3
      <4> DEFINE t == [market |-> w.market, slot |-> w.slot, signature |-> w.signature,
                       order |-> n]
      <4>2. t \in TradesOf(w)
        BY <4>1 DEF TradesOf
      <4>3. t.market = m /\ t.order = n /\ t.slot <= cluster.slot
        BY <1>5, <1>6
      <4> HIDE DEF t
      <4> QED BY <1>1, <4>2, <4>3
    <3>4. n \in Int /\ before \in Int
      BY <1>1
    <3> QED BY <3>2, <3>3, <3>4
  <2> QED BY <1>3, <2>2, <2>3
<1>14. TradesAreWritten'
  <2> HIDE DEF w, e, r, l, m, before
  <2>1. \A t \in cluster'.trades : \E i \in DOMAIN Writes' : t \in TradesOf(Writes'[i])
    <3>1. TAKE t \in cluster'.trades
    <3>2. CASE t \in cluster.trades
      <4>1. PICK i \in DOMAIN Writes : t \in TradesOf(Writes[i])
        BY <3>2, TradeHasWrite
      <4> QED BY <1>3, <4>1
    <3>3. CASE t \in TradesOf(w)
      BY <1>3, <3>3
    <3> QED BY <1>1, <3>2, <3>3
  <2>2. \A i \in DOMAIN Writes' : TradesOf(Writes'[i]) \subseteq cluster'.trades
    <3>1. TAKE i \in DOMAIN Writes'
    <3>2. CASE i \in DOMAIN Writes
      <4>1. TradesOf(Writes[i]) \subseteq cluster.trades
        BY <3>2 DEF ChainInv, TradesAreWritten
      <4> QED BY <1>1, <1>3, <3>2, <4>1
    <3>3. CASE i = e
      BY <1>1, <1>3, <3>3
    <3> QED BY <1>3, <3>2, <3>3
  <2> QED BY <2>1, <2>2 DEF TradesAreWritten
<1>15. /\ \A k \in DOMAIN Runs' : RunIsPlaced(k)'
       /\ \A k, n \in DOMAIN Runs' : RunsInOrder(k, n)'
  BY <1>1, LandedRunIsLast
<1>16. /\ \A i \in DOMAIN Writes, k \in DOMAIN Runs : IsRunOf(k, i)' <=> IsRunOf(k, i)
       /\ \A i \in DOMAIN Writes', k \in DOMAIN Runs' :
            IsRunOf(k, i)' => (k = l <=> i = e)
       /\ \A i \in DOMAIN Writes', k \in DOMAIN Runs' :
            i = e /\ k = l => IsRunOf(k, i)'
  <2> HIDE DEF w, e, r, l, m, before
  <2>1. \A i \in DOMAIN Writes, k \in DOMAIN Runs : IsRunOf(k, i)' <=> IsRunOf(k, i)
    BY <1>3, <1>4 DEF IsRunOf
  <2>2. \A i \in DOMAIN Writes', k \in DOMAIN Runs' : IsRunOf(k, i)' => (k = l <=> i = e)
    <3>1. TAKE i \in DOMAIN Writes', k \in DOMAIN Runs'
    <3>2. HAVE IsRunOf(k, i)'
    <3>3. Runs'[k].signature = Writes'[i].signature
      BY <3>2 DEF IsRunOf
    <3>4. Writes'[i].signature = sig <=> i = e
      BY <1>3, <1>5, <1>8
    <3>5. \A n \in DOMAIN Runs : Runs[n].signature # sig
      BY <1>1 DEF ChainInv, RunsAreSound, RunIsPlaced
    <3>6. Runs'[k].signature = sig <=> k = l
      BY <1>4, <1>5, <3>5
    <3> QED BY <3>3, <3>4, <3>6
  <2>3. \A i \in DOMAIN Writes', k \in DOMAIN Runs' : i = e /\ k = l => IsRunOf(k, i)'
    BY <1>3, <1>4, <1>5 DEF IsRunOf
  <2> QED BY <2>1, <2>2, <2>3
<1>17. \A i \in DOMAIN Writes' : \E k \in DOMAIN Runs' : IsRunOf(k, i)'
  <2> HIDE DEF w, e, r, l, m, before
  <2>1. TAKE i \in DOMAIN Writes'
  <2>2. CASE i \in DOMAIN Writes
    <3>1. PICK k \in DOMAIN Runs : IsRunOf(k, i)
      BY <2>2 DEF ChainInv, RunsAreSound
    <3> QED BY <1>4, <1>16, <2>2, <3>1
  <2>3. CASE i = e
    BY <1>4, <1>16, <2>3
  <2> QED BY <1>3, <2>2, <2>3
<1>18. \A k \in DOMAIN Runs' :
         Runs'[k].succeeded => \E i \in DOMAIN Writes' : IsRunOf(k, i)'
  <2> HIDE DEF w, e, r, l, m, before
  <2>1. TAKE k \in DOMAIN Runs'
  <2>2. HAVE Runs'[k].succeeded
  <2>3. CASE k \in DOMAIN Runs
    <3>1. PICK i \in DOMAIN Writes : IsRunOf(k, i)
      BY <1>4, <2>2, <2>3 DEF ChainInv, RunsAreSound
    <3> QED BY <1>3, <1>16, <2>3, <3>1
  <2>4. CASE k = l
    BY <1>3, <1>16, <2>4
  <2> QED BY <1>4, <2>3, <2>4
<1>19. \A i, j \in DOMAIN Writes', k, n \in DOMAIN Runs' :
         IsRunOf(k, i)' /\ IsRunOf(n, j)' /\ i < j => k < n
  <2> HIDE DEF w, e, r, l, m, before
  <2>1. TAKE i, j \in DOMAIN Writes', k, n \in DOMAIN Runs'
  <2>2. HAVE IsRunOf(k, i)' /\ IsRunOf(n, j)' /\ i < j
  <2>3. i \in DOMAIN Writes
    <3>1. SUFFICES ASSUME i = e PROVE FALSE
      BY <1>3
    <3> QED BY <1>3, <2>2, <3>1, ChainFields
  <2>4. i # e
    BY <1>3, <2>3, ChainFields
  <2>5. k \in DOMAIN Runs
    BY <1>4, <1>16, <2>2, <2>4
  <2>6. CASE j \in DOMAIN Writes
    <3>1. j # e
      BY <1>3, <2>6, ChainFields
    <3>2. n \in DOMAIN Runs
      BY <1>4, <1>16, <2>2, <3>1
    <3>3. IsRunOf(k, i) /\ IsRunOf(n, j)
      BY <1>16, <2>2, <2>3, <2>5, <2>6, <3>2
    <3> QED BY <2>2, <2>3, <2>5, <2>6, <3>2, <3>3 DEF ChainInv, RunsAreSound
  <2>7. CASE j = e
    <3>1. n = l
      BY <1>16, <2>2, <2>7
    <3> QED BY <1>4, <2>5, <3>1
  <2> QED BY <1>3, <2>6, <2>7
<1>20. \A k \in DOMAIN sent'.slots : StatusIsTrue(k)'
  BY <1>1 DEF ChainInv, StatusIsTrue
<1>21. WritesAreSound'
  BY <1>10, <1>11, <1>12, <1>13 DEF WritesAreSound
<1>22. RunsAreSound'
  BY <1>15, <1>17, <1>18, <1>19 DEF RunsAreSound
<1> QED BY <1>2, <1>14, <1>20, <1>21, <1>22 DEF ChainInv

LEMMA ChainStarts ==
  ASSUME Init
  PROVE  ChainInv
<1>1. /\ cluster = [slot |-> 1, rooted |-> 0, dead |-> {}, landed |-> {}, trades |-> {}]
      /\ sent = [accounts |-> <<>>, transactions |-> <<>>, slots |-> <<>>]
  BY DEF Init, NoUpdates
<1>2. /\ cluster.slot = 1 /\ cluster.rooted = 0 /\ cluster.dead = {} /\ cluster.trades = {}
      /\ sent.slots = <<>> /\ Writes = <<>> /\ Runs = <<>>
  BY <1>1 DEF Writes, Runs
<1>3. cluster \in Clusters /\ sent \in Sendings
  <2>1. 1 \in 1 .. MaxSlot + 1 /\ 0 \in 0 .. MaxSlot
    BY SlotBound
  <2> QED BY <1>1, <2>1 DEF Clusters, Sendings
<1>4. ChainTypes
  BY <1>2, <1>3 DEF ChainTypes
<1> QED BY <1>2, <1>4 DEF ChainInv, WritesAreSound, TradesAreWritten, RunsAreSound

(* ChainInv is kept by every step of the cluster. *)
LEMMA ClusterKeepsChain ==
  ASSUME ChainInv, Cluster, DeadSlotsAreEmpty'
  PROVE  ChainInv'
BY LandKeepsChain, LandFailingKeepsChain, CloseSlotKeepsChain, AbandonSlotKeepsChain,
   FinalizeSlotKeepsChain DEF Cluster

-----------------------------------------------------------------------------
(* The process. *)

Up == stage \in {"next", "checkpoint"}

(* The account half of a write is still to come, or waits to be paired, or *)
(* nothing more will be made of it.                                        *)
Comes(i) == i \in DueAccounts
Waits(i) == Writes[i] \in correlator.accounts
Settled(i) == ~ Comes(i) /\ ~ Waits(i)

SameMarket(i, j) == Writes[i].market = Writes[j].market

(* The types of what the process holds and has stored. *)
ProcessTypes ==
  /\ wire \in Wires
  /\ IsCorrelator(correlator)
  /\ pending \in [by_slot : SUBSET AllTrades, flushed_through : {pending.flushed_through}]
  /\ store \in Stores
  /\ stage \in {"down", "seed", "next", "checkpoint"}
  /\ todo \in [slot : 0 .. MaxSlot, markets : SUBSET Markets]

(* A process that is starting knows nothing yet. *)
Fresh ==
  stage \in {"down", "seed"} => correlator = NewCorrelator /\ pending = NewPending

(* An update the cluster starts with says where the subscription begins. *)
StartupIsTrue(u) ==
  /\ wire.accounts = 0
  /\ u.slot < wire.from
  /\ u.data = BookAt(u.market, u.slot)
  /\ \A i \in DOMAIN Writes :
       Writes[i].market = u.market /\ Writes[i].slot < wire.from => Writes[i].data <= u.data

(* Nothing still to come is older than where a reconnect replays from. *)
WireInv ==
  stage # "down" =>
    /\ wire.accounts <= Len(Writes) /\ wire.transactions <= Len(Runs)
    /\ 1 <= wire.from /\ wire.from <= wire.last /\ wire.last <= cluster.slot
    /\ \A i \in DueAccounts : wire.last <= Writes[i].slot
    /\ \A k \in DueTransactions : wire.last <= Runs[k].slot
    /\ \A u \in wire.startup : StartupIsTrue(u)
    /\ stage = "seed" => wire.accounts = 0 /\ wire.transactions = 0

HalvesWereRead ==
  \A a \in correlator.accounts :
    \E i \in DOMAIN Writes : i <= wire.accounts /\ a = Writes[i] /\ wire.from <= a.slot

WaitingHasToRun(i, k) == Waits(i) /\ IsRunOf(k, i) => wire.transactions < k

WaitingRan(k) ==
  Runs[k].signature \in correlator.transactions /\ wire.from <= Runs[k].slot =>
    k <= wire.transactions

RanIsWaiting(i, k) ==
  Comes(i) /\ IsRunOf(k, i) /\ k <= wire.transactions =>
    Runs[k].signature \in correlator.transactions

(* Behind a half that waits, every later one of the market waits. *)
WaitsInOrder(i, j) ==
  i < j /\ j <= wire.accounts /\ SameMarket(i, j) /\ Waits(i) => Waits(j)

(* Halves that wait were read and their counterparts were not, and the     *)
(* writes of a market settle in order.                                     *)
PairInv ==
  Up =>
    /\ HalvesWereRead
    /\ correlator.transactions \subseteq cluster.landed
    /\ \A i \in DOMAIN Writes, k \in DOMAIN Runs : WaitingHasToRun(i, k)
    /\ \A k \in DOMAIN Runs : WaitingRan(k)
    /\ \A i \in DOMAIN Writes, k \in DOMAIN Runs : RanIsWaiting(i, k)
    /\ \A i, j \in DOMAIN Writes : WaitsInOrder(i, j)

Latest(i) == correlator.latest[Writes[i].market]
KnownAt(i) == correlator.known_at[Writes[i].market]

(* What a market is compared with is not behind what was settled. *)
SettledIsKnown(i) == Settled(i) /\ Latest(i) # Unknown => Writes[i].data <= Latest(i)

(* A write that will be dropped as stale is no longer needed. *)
StaleIsKnown(i) ==
  Comes(i) /\ Writes[i].slot < KnownAt(i) =>
    /\ Latest(i) # Unknown
    /\ Writes[i].data <= Latest(i)
    /\ \A j \in DOMAIN Writes : SameMarket(i, j) => ~ Waits(j)

WaitsBefore(i) == Waits(i) => Writes[i].slot <= KnownAt(i)

(* The book kept of a market is one that a write left, by the slot it says. *)
MarketIsKnown(m) ==
  /\ correlator.latest[m] # Unknown => correlator.known_at[m] # Unknown
  /\ correlator.known_at[m] < cluster.slot
  /\ correlator.known_at[m] # Unknown /\ correlator.latest[m] = Unknown =>
       \E i \in DOMAIN Writes : Writes[i].market = m /\ Waits(i)
  /\ correlator.latest[m] \notin {Unknown, 0} =>
       \E i \in DOMAIN Writes :
         /\ Writes[i].market = m
         /\ Writes[i].slot <= correlator.known_at[m]
         /\ Writes[i].data = correlator.latest[m]

(* What the comparisons start from is true and not behind what settled. *)
BaseInv ==
  Up =>
    /\ \A m \in Markets : MarketIsKnown(m)
    /\ \A i \in DOMAIN Writes : SettledIsKnown(i) /\ StaleIsKnown(i) /\ WaitsBefore(i)

CheckpointIsTrue(m) ==
  /\ store.checkpoints[m].slot < cluster.slot
  /\ store.checkpoints[m].data = BookAt(m, store.checkpoints[m].slot)

(* A market about to be checkpointed is at the end of the slot it names. *)
ToSave(m) ==
  /\ correlator.latest[m] # Unknown
  /\ correlator.known_at[m] <= todo.slot =>
       correlator.latest[m] = BookAt(m, correlator.known_at[m])

(* What is queued, stored or about to be saved is true. *)
RowsInv ==
  /\ pending.by_slot \subseteq cluster.trades
  /\ store.rows \subseteq RootedTrades
  /\ \A m \in Checkpointed : CheckpointIsTrue(m)
  /\ stage = "checkpoint" => todo.slot <= cluster.rooted
  /\ stage = "checkpoint" => \A m \in todo.markets : ToSave(m)

IInv ==
  /\ ChainInv
  /\ ProcessTypes
  /\ Fresh
  /\ WireInv
  /\ PairInv
  /\ BaseInv
  /\ RowsInv

(* Trades that are owed, and what became of them. *)
Recorded(t) == t \in pending.by_slot \/ t \in store.rows

Covered(i, t) ==
  since < Writes[i].slot =>
    /\ Settled(i) => Recorded(t)
    /\ ~ Settled(i) => \/ Recorded(t)
                       \/ Latest(i) < t.order
    /\ ~ Settled(i) /\ Writes[i].slot <= pending.flushed_through => t \in store.rows
    /\ stage = "checkpoint" /\ Writes[i].slot <= todo.slot => Recorded(t)

(* Every trade owed is recorded, or will be derived when its write settles. *)
CoverInv ==
  /\ pending.flushed_through \in 0 .. cluster.rooted
  /\ since \in 0 .. MaxSlot
  /\ \A t \in pending.by_slot : pending.flushed_through < t.slot
  /\ Up /\ since < MaxSlot => \A m \in Markets : correlator.latest[m] # Unknown
  /\ Up => \A i \in DOMAIN Writes : \A t \in TradesOf(Writes[i]) : Covered(i, t)

-----------------------------------------------------------------------------
(* What the correlator does with one half. *)

LEMMA CorrelatorFields ==
  ASSUME NEW c, IsCorrelator(c)
  PROVE  /\ c.latest \in [Markets -> States]
         /\ c.known_at \in [Markets -> Unknown .. MaxSlot]
         /\ c.transactions \subseteq Signatures
         /\ c.accounts \subseteq Update
BY DEF IsCorrelator

SeenAt(c, slot) == [c EXCEPT !.tip = MaxOf(@, slot)]

LEMMA SeenIs ==
  ASSUME NEW c, IsCorrelator(c), NEW slot
  PROVE  /\ IsCorrelator(SeenAt(c, slot))
         /\ SeenAt(c, slot).latest = c.latest
         /\ SeenAt(c, slot).known_at = c.known_at
         /\ SeenAt(c, slot).transactions = c.transactions
         /\ SeenAt(c, slot).accounts = c.accounts
         /\ SeenAt(c, slot).transaction_order = c.transaction_order
         /\ SeenAt(c, slot).account_order = c.account_order
<1> DEFINE x == MaxOf(c.tip, slot)
<1>1. SeenAt(c, slot) = [c EXCEPT !.tip = x]
  BY DEF SeenAt
<1> HIDE DEF x
<1> QED BY <1>1 DEF IsCorrelator

KnownFrom(c, market, slot) == [c EXCEPT !.known_at[market] = slot]

LEMMA KnownIs ==
  ASSUME NEW c, IsCorrelator(c), NEW m \in Markets, NEW slot \in 0 .. MaxSlot
  PROVE  /\ IsCorrelator(KnownFrom(c, m, slot))
         /\ KnownFrom(c, m, slot).latest = c.latest
         /\ KnownFrom(c, m, slot).known_at = [c.known_at EXCEPT ![m] = slot]
         /\ KnownFrom(c, m, slot).transactions = c.transactions
         /\ KnownFrom(c, m, slot).accounts = c.accounts
         /\ KnownFrom(c, m, slot).transaction_order = c.transaction_order
         /\ KnownFrom(c, m, slot).account_order = c.account_order
<1>1. slot \in Unknown .. MaxSlot
  BY SlotBound DEF Unknown
<1>2. [c.known_at EXCEPT ![m] = slot] \in [Markets -> Unknown .. MaxSlot]
  BY <1>1, CorrelatorFields
<1>3. KnownFrom(c, m, slot) = [c EXCEPT !.known_at = [c.known_at EXCEPT ![m] = slot]]
  BY DEF KnownFrom, IsCorrelator
<1> QED BY <1>2, <1>3 DEF IsCorrelator

LEMMA CompleteIs ==
  ASSUME NEW c, IsCorrelator(c), NEW half, half.market \in Markets, half.data \in Nat
  PROVE  /\ IsCorrelator(Complete(c, half).correlator)
         /\ Complete(c, half).correlator.latest = [c.latest EXCEPT ![half.market] = half.data]
         /\ Complete(c, half).correlator.known_at = c.known_at
         /\ Complete(c, half).correlator.transactions = c.transactions
         /\ Complete(c, half).correlator.accounts = c.accounts
         /\ Complete(c, half).changes =
              {[market |-> half.market, slot |-> half.slot, signature |-> half.signature,
                before |-> c.latest[half.market], after |-> half.data]}
<1> DEFINE d == Complete(c, half).correlator
           latest == [c.latest EXCEPT ![half.market] = half.data]
<1>1. latest \in [Markets -> States]
  BY CorrelatorFields DEF States
<1>2. d = [c EXCEPT !.latest = latest]
  BY DEF Complete, IsCorrelator
<1>3. /\ IsCorrelator(d) /\ d.latest = latest /\ d.known_at = c.known_at
      /\ d.transactions = c.transactions /\ d.accounts = c.accounts
  <2> HIDE DEF latest, d
  <2> QED BY <1>1, <1>2 DEF IsCorrelator
<1>4. Complete(c, half).changes =
        {[market |-> half.market, slot |-> half.slot, signature |-> half.signature,
          before |-> c.latest[half.market], after |-> half.data]}
  BY DEF Complete
<1> QED BY <1>3, <1>4

LEMMA RememberTransactionIs ==
  ASSUME NEW c, IsCorrelator(c), NEW sig \in Signatures,
         HasPlace(c.transaction_order, c.transactions)
  PROVE  /\ IsCorrelator(RememberTransaction(c, sig))
         /\ RememberTransaction(c, sig).latest = c.latest
         /\ RememberTransaction(c, sig).known_at = c.known_at
         /\ RememberTransaction(c, sig).transactions = c.transactions \cup {sig}
         /\ RememberTransaction(c, sig).accounts = c.accounts
<1> DEFINE order == Queued(c.transaction_order, c.transactions, sig)
           kept == Kept(order)
           gone == Evicted(order)
           all == c.transactions \cup {sig}
           d == RememberTransaction(c, sig)
<1>1. gone \cap all = {}
  BY DEF HasPlace
<1>2. d = [c EXCEPT !.transactions = (c.transactions \cup {sig}) \ gone,
                    !.transaction_order = kept]
  BY DEF RememberTransaction, IsCorrelator
<1>3. (c.transactions \cup {sig}) \ gone = all
  BY <1>1
<1>4. all \subseteq Signatures
  BY CorrelatorFields
<1>5. d = [c EXCEPT !.transactions = all, !.transaction_order = kept]
  BY <1>2, <1>3
<1>6. /\ IsCorrelator(d) /\ d.latest = c.latest /\ d.known_at = c.known_at
      /\ d.transactions = all /\ d.accounts = c.accounts
  <2> HIDE DEF d, all, kept
  <2> QED BY <1>4, <1>5 DEF IsCorrelator
<1> QED BY <1>6

LEMMA RememberAccountIs ==
  ASSUME NEW c, IsCorrelator(c), NEW half \in Update,
         half.signature \notin WaitingAccounts(c),
         HasPlace(c.account_order, WaitingAccounts(c))
  PROVE  /\ IsCorrelator(RememberAccount(c, half))
         /\ RememberAccount(c, half).latest = c.latest
         /\ RememberAccount(c, half).known_at = c.known_at
         /\ RememberAccount(c, half).transactions = c.transactions
         /\ RememberAccount(c, half).accounts = c.accounts \cup {half}
<1> DEFINE order == Queued(c.account_order, WaitingAccounts(c), half.signature)
           kept == Kept(order)
           gone == Evicted(order)
           others == {a \in c.accounts : a.signature # half.signature}
           all == c.accounts \cup {half}
           d == RememberAccount(c, half)
<1>0. half.signature \in Signatures
  BY DEF Update
<1>1. gone \cap (WaitingAccounts(c) \cup {half.signature}) = {}
  BY <1>0 DEF HasPlace
<1>2. others = c.accounts
  BY DEF WaitingAccounts
<1>3. \A a \in all : a.signature \notin gone
  <2> HIDE DEF gone
  <2> QED BY <1>1 DEF WaitingAccounts
<1>4. {a \in others \cup {half} : a.signature \notin gone} = all
  <2> HIDE DEF gone, others
  <2> QED BY <1>2, <1>3
<1>5. d = [c EXCEPT !.accounts = {a \in others \cup {half} : a.signature \notin gone},
                    !.account_order = kept]
  BY DEF RememberAccount, IsCorrelator
<1>6. d = [c EXCEPT !.accounts = all, !.account_order = kept]
  BY <1>4, <1>5
<1>7. all \subseteq Update
  BY CorrelatorFields
<1>8. /\ IsCorrelator(d) /\ d.latest = c.latest /\ d.known_at = c.known_at
      /\ d.transactions = c.transactions /\ d.accounts = all
  <2> HIDE DEF d, all, kept
  <2> QED BY <1>6, <1>7 DEF IsCorrelator
<1> QED BY <1>8

(* The outcomes of an account update. *)

LEMMA AcceptStale ==
  ASSUME NEW c, IsCorrelator(c), NEW u, u.slot < c.known_at[u.market]
  PROVE  /\ AcceptAccount(c, u).correlator = SeenAt(c, u.slot)
         /\ AcceptAccount(c, u).changes = {}
<1>1. SeenAt(c, u.slot).known_at = c.known_at
  BY SeenIs
<1>2. IsStale(SeenAt(c, u.slot), u.market, u.slot)
  BY <1>1 DEF IsStale
<1>3. AcceptAccount(c, u) = NoChange(SeenAt(c, u.slot))
  BY <1>2 DEF AcceptAccount, SeenAt
<1> QED BY <1>3 DEF NoChange

KnownOf(c, u) == KnownFrom(SeenAt(c, u.slot), u.market, u.slot)

LEMMA KnownOfIs ==
  ASSUME NEW c, IsCorrelator(c), NEW u, u.market \in Markets, u.slot \in 0 .. MaxSlot
  PROVE  /\ IsCorrelator(KnownOf(c, u))
         /\ KnownOf(c, u).latest = c.latest
         /\ KnownOf(c, u).known_at = [c.known_at EXCEPT ![u.market] = u.slot]
         /\ KnownOf(c, u).transactions = c.transactions
         /\ KnownOf(c, u).accounts = c.accounts
         /\ KnownOf(c, u).transaction_order = c.transaction_order
         /\ KnownOf(c, u).account_order = c.account_order
         /\ WaitingAccounts(KnownOf(c, u)) = WaitingAccounts(c)
<1> DEFINE s == SeenAt(c, u.slot)
<1>1. /\ IsCorrelator(s) /\ s.latest = c.latest /\ s.known_at = c.known_at
      /\ s.transactions = c.transactions /\ s.accounts = c.accounts
      /\ s.transaction_order = c.transaction_order /\ s.account_order = c.account_order
  BY SeenIs
<1> HIDE DEF s
<1> DEFINE d == KnownFrom(s, u.market, u.slot)
<1>2. /\ IsCorrelator(d) /\ d.latest = s.latest
      /\ d.known_at = [s.known_at EXCEPT ![u.market] = u.slot]
      /\ d.transactions = s.transactions /\ d.accounts = s.accounts
      /\ d.transaction_order = s.transaction_order /\ d.account_order = s.account_order
  BY <1>1, KnownIs
<1>3. KnownOf(c, u) = d
  BY DEF KnownOf, s
<1> HIDE DEF d
<1>4. WaitingAccounts(d) = WaitingAccounts(c)
  BY <1>1, <1>2 DEF WaitingAccounts
<1> QED BY <1>1, <1>2, <1>3, <1>4

LEMMA AcceptCases ==
  ASSUME NEW c, IsCorrelator(c), NEW u, u.market \in Markets, u.slot \in 0 .. MaxSlot,
         ~ (u.slot < c.known_at[u.market])
  PROVE  /\ u.signature = NoSignature =>
              AcceptAccount(c, u) =
                NoChange([KnownOf(c, u) EXCEPT !.latest[u.market] = u.data])
         /\ u.signature # NoSignature /\ u.signature \in c.transactions =>
              AcceptAccount(c, u) =
                Complete([KnownOf(c, u) EXCEPT !.transactions = @ \ {u.signature}], u)
         /\ u.signature # NoSignature /\ u.signature \notin c.transactions =>
              AcceptAccount(c, u) = NoChange(RememberAccount(KnownOf(c, u), u))
<1>1. SeenAt(c, u.slot).known_at = c.known_at
  BY SeenIs
<1>2. ~ IsStale(SeenAt(c, u.slot), u.market, u.slot)
  BY <1>1 DEF IsStale
<1>3. KnownOf(c, u).transactions = c.transactions
  BY KnownOfIs
<1> QED BY <1>2, <1>3 DEF AcceptAccount, SeenAt, KnownFrom, KnownOf

(* An unattributed update is a new base. *)
LEMMA AcceptStartup ==
  ASSUME NEW c, IsCorrelator(c), NEW u \in StartupUpdate, ~ (u.slot < c.known_at[u.market])
  PROVE  LET d == AcceptAccount(c, u).correlator
         IN  /\ IsCorrelator(d)
             /\ d.latest = [c.latest EXCEPT ![u.market] = u.data]
             /\ d.known_at = [c.known_at EXCEPT ![u.market] = u.slot]
             /\ d.transactions = c.transactions /\ d.accounts = c.accounts
             /\ AcceptAccount(c, u).changes = {}
<1> DEFINE k == KnownOf(c, u)
           latest == [k.latest EXCEPT ![u.market] = u.data]
           d == [k EXCEPT !.latest = latest]
<1>1. /\ u.market \in Markets /\ u.slot \in 0 .. MaxSlot /\ u.signature = NoSignature
      /\ u.data \in Nat
  BY DEF StartupUpdate
<1>2. /\ IsCorrelator(k) /\ k.latest = c.latest
      /\ k.known_at = [c.known_at EXCEPT ![u.market] = u.slot]
      /\ k.transactions = c.transactions /\ k.accounts = c.accounts
  BY <1>1, KnownOfIs
<1>3. AcceptAccount(c, u) = NoChange([k EXCEPT !.latest[u.market] = u.data])
  BY <1>1, AcceptCases
<1> HIDE DEF k
<1>4. [k EXCEPT !.latest[u.market] = u.data] = d
  BY <1>2 DEF IsCorrelator
<1>5. latest \in [Markets -> States]
  BY <1>1, <1>2, CorrelatorFields DEF States
<1> HIDE DEF latest
<1>6. /\ IsCorrelator(d) /\ d.latest = latest /\ d.known_at = k.known_at
      /\ d.transactions = k.transactions /\ d.accounts = k.accounts
  BY <1>2, <1>5 DEF IsCorrelator
<1> HIDE DEF d
<1>7. AcceptAccount(c, u).correlator = d /\ AcceptAccount(c, u).changes = {}
  BY <1>3, <1>4 DEF NoChange
<1>8. latest = [c.latest EXCEPT ![u.market] = u.data]
  BY <1>2 DEF latest
<1> QED BY <1>2, <1>6, <1>7, <1>8

ChangeOf(c, half) ==
  [market |-> half.market, slot |-> half.slot, signature |-> half.signature,
   before |-> c.latest[half.market], after |-> half.data]

(* An account half whose transaction waits. *)
LEMMA AcceptPaired ==
  ASSUME NEW c, IsCorrelator(c), NEW u \in Update, ~ (u.slot < c.known_at[u.market]),
         u.signature \in c.transactions
  PROVE  LET d == AcceptAccount(c, u).correlator
         IN  /\ IsCorrelator(d)
             /\ d.latest = [c.latest EXCEPT ![u.market] = u.data]
             /\ d.known_at = [c.known_at EXCEPT ![u.market] = u.slot]
             /\ d.transactions = c.transactions \ {u.signature} /\ d.accounts = c.accounts
             /\ AcceptAccount(c, u).changes = {ChangeOf(c, u)}
<1> DEFINE k == KnownOf(c, u)
           left == k.transactions \ {u.signature}
           e == [k EXCEPT !.transactions = left]
<1>1. /\ u.market \in Markets /\ u.slot \in 0 .. MaxSlot /\ u.signature # NoSignature
      /\ u.data \in Nat
  BY SlotBound DEF Update
<1>2. /\ IsCorrelator(k) /\ k.latest = c.latest
      /\ k.known_at = [c.known_at EXCEPT ![u.market] = u.slot]
      /\ k.transactions = c.transactions /\ k.accounts = c.accounts
  BY <1>1, KnownOfIs
<1>3. AcceptAccount(c, u) = Complete([k EXCEPT !.transactions = @ \ {u.signature}], u)
  BY <1>1, AcceptCases
<1> HIDE DEF k
<1>4. [k EXCEPT !.transactions = @ \ {u.signature}] = e
  OBVIOUS
<1>5. left \subseteq Signatures /\ left = c.transactions \ {u.signature}
  BY <1>2, CorrelatorFields
<1> HIDE DEF left
<1>6. /\ IsCorrelator(e) /\ e.latest = k.latest /\ e.known_at = k.known_at
      /\ e.transactions = left /\ e.accounts = k.accounts
  BY <1>2, <1>5 DEF IsCorrelator
<1> HIDE DEF e
<1>7. LET d == Complete(e, u).correlator
      IN  /\ IsCorrelator(d)
          /\ d.latest = [e.latest EXCEPT ![u.market] = u.data]
          /\ d.known_at = e.known_at
          /\ d.transactions = e.transactions /\ d.accounts = e.accounts
          /\ Complete(e, u).changes = {ChangeOf(e, u)}
  <2>1. IsCorrelator(e) /\ u.market \in Markets /\ u.data \in Nat
    BY <1>1, <1>6
  <2> QED BY ONLY <2>1, CompleteIs DEF ChangeOf
<1>8. ChangeOf(e, u) = ChangeOf(c, u)
  BY <1>2, <1>6 DEF ChangeOf
<1> QED BY <1>2, <1>3, <1>4, <1>5, <1>6, <1>7, <1>8

(* An account half that has to wait. *)
LEMMA AcceptWaiting ==
  ASSUME NEW c, IsCorrelator(c), NEW u \in Update, ~ (u.slot < c.known_at[u.market]),
         u.signature \notin c.transactions, u.signature \notin WaitingAccounts(c),
         HasPlace(c.account_order, WaitingAccounts(c))
  PROVE  LET d == AcceptAccount(c, u).correlator
         IN  /\ IsCorrelator(d)
             /\ d.latest = c.latest
             /\ d.known_at = [c.known_at EXCEPT ![u.market] = u.slot]
             /\ d.transactions = c.transactions /\ d.accounts = c.accounts \cup {u}
             /\ AcceptAccount(c, u).changes = {}
<1> DEFINE k == KnownOf(c, u)
           d == RememberAccount(k, u)
<1>1. /\ u.market \in Markets /\ u.slot \in 0 .. MaxSlot /\ u.signature # NoSignature
  BY SlotBound DEF Update
<1>2. /\ IsCorrelator(k) /\ k.latest = c.latest
      /\ k.known_at = [c.known_at EXCEPT ![u.market] = u.slot]
      /\ k.transactions = c.transactions /\ k.accounts = c.accounts
      /\ k.account_order = c.account_order /\ WaitingAccounts(k) = WaitingAccounts(c)
  BY <1>1, KnownOfIs
<1>3. AcceptAccount(c, u) = NoChange(d)
  BY <1>1, AcceptCases
<1> HIDE DEF k
<1>4. HasPlace(k.account_order, WaitingAccounts(k)) /\ u.signature \notin WaitingAccounts(k)
  BY <1>2
<1>5. /\ IsCorrelator(d) /\ d.latest = k.latest /\ d.known_at = k.known_at
      /\ d.transactions = k.transactions /\ d.accounts = k.accounts \cup {u}
  BY <1>2, <1>4, RememberAccountIs
<1> HIDE DEF d
<1>6. AcceptAccount(c, u).correlator = d /\ AcceptAccount(c, u).changes = {}
  BY <1>3 DEF NoChange
<1> QED BY <1>2, <1>5, <1>6

(* The outcomes of a transaction. *)

LEMMA AcceptFailed ==
  ASSUME NEW c, IsCorrelator(c), NEW tx, ~ tx.succeeded
  PROVE  /\ AcceptTransaction(c, tx).correlator = SeenAt(c, tx.slot)
         /\ AcceptTransaction(c, tx).changes = {}
<1>1. AcceptTransaction(c, tx) = NoChange(SeenAt(c, tx.slot))
  BY DEF AcceptTransaction, SeenAt
<1> QED BY <1>1 DEF NoChange

(* A transaction whose account half waits. *)
LEMMA AcceptCompleting ==
  ASSUME NEW c, IsCorrelator(c), NEW tx, tx.succeeded, NEW half \in c.accounts,
         half.signature = tx.signature,
         \A a \in c.accounts : a.signature = tx.signature => a = half
  PROVE  LET d == AcceptTransaction(c, tx).correlator
         IN  /\ IsCorrelator(d)
             /\ d.latest = [c.latest EXCEPT ![half.market] = half.data]
             /\ d.known_at = c.known_at
             /\ d.transactions = c.transactions /\ d.accounts = c.accounts \ {half}
             /\ AcceptTransaction(c, tx).changes = {ChangeOf(c, half)}
<1> DEFINE s == SeenAt(c, tx.slot)
           left == s.accounts \ {half}
           e == [s EXCEPT !.accounts = left]
<1>1. half \in Update /\ half.market \in Markets /\ half.data \in Nat
  BY CorrelatorFields DEF Update
<1>2. /\ IsCorrelator(s) /\ s.latest = c.latest /\ s.known_at = c.known_at
      /\ s.transactions = c.transactions /\ s.accounts = c.accounts
  BY SeenIs
<1>3. tx.signature \in WaitingAccounts(s)
  BY <1>2 DEF WaitingAccounts
<1>4. half = CHOOSE a \in s.accounts : a.signature = tx.signature
  BY <1>2
<1>5. AcceptTransaction(c, tx) =
        Complete([s EXCEPT !.accounts =
                    @ \ {CHOOSE a \in s.accounts : a.signature = tx.signature}],
                 CHOOSE a \in s.accounts : a.signature = tx.signature)
  BY <1>3 DEF AcceptTransaction, SeenAt
<1> HIDE DEF s
<1>6. AcceptTransaction(c, tx) = Complete(e, half)
  BY <1>4, <1>5
<1>7. left \subseteq Update /\ left = c.accounts \ {half}
  BY <1>2, CorrelatorFields
<1> HIDE DEF left
<1>8. /\ IsCorrelator(e) /\ e.latest = s.latest /\ e.known_at = s.known_at
      /\ e.transactions = s.transactions /\ e.accounts = left
  BY <1>2, <1>7 DEF IsCorrelator
<1> HIDE DEF e
<1>9. LET d == Complete(e, half).correlator
      IN  /\ IsCorrelator(d)
          /\ d.latest = [e.latest EXCEPT ![half.market] = half.data]
          /\ d.known_at = e.known_at
          /\ d.transactions = e.transactions /\ d.accounts = e.accounts
          /\ Complete(e, half).changes = {ChangeOf(e, half)}
  BY <1>1, <1>8, CompleteIs DEF ChangeOf
<1>10. ChangeOf(e, half) = ChangeOf(c, half)
  BY <1>2, <1>8 DEF ChangeOf
<1> QED BY <1>2, <1>6, <1>7, <1>8, <1>9, <1>10

(* A transaction that has to wait. *)
LEMMA AcceptUnpaired ==
  ASSUME NEW c, IsCorrelator(c), NEW tx, tx.succeeded, tx.signature \in Signatures,
         tx.signature \notin WaitingAccounts(c),
         HasPlace(c.transaction_order, c.transactions)
  PROVE  LET d == AcceptTransaction(c, tx).correlator
         IN  /\ IsCorrelator(d)
             /\ d.latest = c.latest /\ d.known_at = c.known_at
             /\ d.transactions = c.transactions \cup {tx.signature}
             /\ d.accounts = c.accounts
             /\ AcceptTransaction(c, tx).changes = {}
<1> DEFINE s == SeenAt(c, tx.slot)
           d == RememberTransaction(s, tx.signature)
<1>2. /\ IsCorrelator(s) /\ s.latest = c.latest /\ s.known_at = c.known_at
      /\ s.transactions = c.transactions /\ s.accounts = c.accounts
      /\ s.transaction_order = c.transaction_order
  BY SeenIs
<1>3. tx.signature \notin WaitingAccounts(s)
  BY <1>2 DEF WaitingAccounts
<1>4. AcceptTransaction(c, tx) = NoChange(d)
  BY <1>3 DEF AcceptTransaction, SeenAt
<1> HIDE DEF s
<1>5. HasPlace(s.transaction_order, s.transactions)
  BY <1>2
<1>6. /\ IsCorrelator(d) /\ d.latest = s.latest /\ d.known_at = s.known_at
      /\ d.transactions = s.transactions \cup {tx.signature} /\ d.accounts = s.accounts
  BY <1>2, <1>5, RememberTransactionIs
<1> HIDE DEF d
<1>7. AcceptTransaction(c, tx).correlator = d /\ AcceptTransaction(c, tx).changes = {}
  BY <1>4 DEF NoChange
<1> QED BY <1>2, <1>6, <1>7

-----------------------------------------------------------------------------
(* What is derived, queued and stored. *)

LEMMA DerivedRows ==
  ASSUME NEW ch, ch.before \in Nat, ch.after \in Nat
  PROVE  RowsOf(Derived(ch)) =
           {[market |-> ch.market, slot |-> ch.slot, signature |-> ch.signature,
             order |-> n] : n \in ch.before + 1 .. ch.after}
<1> DEFINE N == IF ch.after > ch.before THEN ch.after - ch.before ELSE 0
           Row(n) == [market |-> ch.market, slot |-> ch.slot,
                      signature |-> ch.signature, order |-> n]
           d == Derived(ch)
<1>1. d = [i \in 1 .. N |-> Row(ch.before + i)]
  BY DEF Derived
<1>2. N \in Nat
  OBVIOUS
<1>3. RowsOf(d) = {Row(ch.before + i) : i \in 1 .. N}
  <2> HIDE DEF Row, N
  <2>1. DOMAIN d = 1 .. N /\ \A i \in 1 .. N : d[i] = Row(ch.before + i)
    BY <1>1
  <2> HIDE DEF d
  <2> QED BY <2>1 DEF RowsOf
<1>4. \A i \in 1 .. N : ch.before + i \in ch.before + 1 .. ch.after
  OBVIOUS
<1>5. \A n \in ch.before + 1 .. ch.after : n - ch.before \in 1 .. N /\ ch.before + (n - ch.before) = n
  OBVIOUS
<1>6. {Row(ch.before + i) : i \in 1 .. N} = {Row(n) : n \in ch.before + 1 .. ch.after}
  <2> HIDE DEF Row, N
  <2>1. \A i \in 1 .. N : \E n \in ch.before + 1 .. ch.after : Row(n) = Row(ch.before + i)
    BY <1>4
  <2>2. \A n \in ch.before + 1 .. ch.after : \E i \in 1 .. N : Row(n) = Row(ch.before + i)
    BY <1>5
  <2> QED BY <2>1, <2>2
<1> QED BY <1>3, <1>6

LEMMA HandleNothing ==
  ASSUME NEW outcome, Handle(outcome), outcome.changes = {}
  PROVE  correlator' = outcome.correlator /\ pending' = pending
BY DEF Handle

LEMMA HandleChange ==
  ASSUME NEW outcome, NEW ch, Handle(outcome), outcome.changes = {ch}
  PROVE  /\ correlator' = outcome.correlator
         /\ ch.before = Unknown => pending' = pending
         /\ ch.before # Unknown => pending' = Record(pending, ch.slot, RowsOf(Derived(ch)))
BY DEF Handle

PendingType(p) == p \in [by_slot : SUBSET AllTrades, flushed_through : {p.flushed_through}]

LEMMA RecordIs ==
  ASSUME NEW p, PendingType(p), NEW slot, NEW rows \in SUBSET AllTrades
  PROVE  /\ PendingType(Record(p, slot, rows))
         /\ Record(p, slot, rows).flushed_through = p.flushed_through
         /\ slot <= p.flushed_through => Record(p, slot, rows).by_slot = p.by_slot
         /\ ~ (slot <= p.flushed_through) =>
              Record(p, slot, rows).by_slot = p.by_slot \cup rows
<1>1. CASE slot <= p.flushed_through
  <2>1. Record(p, slot, rows) = p
    BY <1>1 DEF Record
  <2> QED BY <1>1, <2>1
<1>2. CASE ~ (slot <= p.flushed_through)
  <2> DEFINE all == p.by_slot \cup rows
  <2>1. Record(p, slot, rows) = [p EXCEPT !.by_slot = all]
    BY <1>2 DEF Record
  <2>2. all \subseteq AllTrades
    BY DEF PendingType
  <2> HIDE DEF all
  <2>3. /\ PendingType(Record(p, slot, rows))
        /\ Record(p, slot, rows).flushed_through = p.flushed_through
        /\ Record(p, slot, rows).by_slot = all
    BY <2>1, <2>2 DEF PendingType
  <2> QED BY <1>2, <2>3 DEF all
<1> QED BY <1>1, <1>2

LEMMA SameTradeIs ==
  ASSUME NEW t \in AllTrades, NEW u \in AllTrades, SameTrade(t, u)
  PROVE  t = u
BY DEF SameTrade, AllTrades

(* Rows written again are the rows that are there. *)
LEMMA AppendRowsIs ==
  ASSUME NEW stored \in SUBSET AllTrades, NEW rows \in SUBSET AllTrades
  PROVE  AppendRows(stored, rows) = stored \cup rows
<1> DEFINE fresh == {t \in rows : \A u \in stored : ~ SameTrade(t, u)}
           added == {CHOOSE u \in fresh : SameTrade(t, u) : t \in fresh}
<1>1. AppendRows(stored, rows) = stored \cup added
  BY DEF AppendRows
<1>2. \A t \in fresh : (CHOOSE u \in fresh : SameTrade(t, u)) = t
  <2>1. TAKE t \in fresh
  <2>2. fresh \subseteq AllTrades
    OBVIOUS
  <2> HIDE DEF fresh
  <2> DEFINE c == CHOOSE u \in fresh : SameTrade(t, u)
  <2>3. SameTrade(t, t)
    BY DEF SameTrade
  <2>4. c \in fresh /\ SameTrade(t, c)
    BY <2>1, <2>3
  <2> HIDE DEF c
  <2>5. t = c
    BY <2>1, <2>2, <2>4, SameTradeIs
  <2> QED BY <2>5 DEF c
<1>3. added = fresh
  <2> HIDE DEF fresh
  <2> QED BY <1>2
<1>4. \A t \in rows : t \in fresh \/ t \in stored
  <2>1. SUFFICES ASSUME NEW t \in rows, NEW u \in stored, SameTrade(t, u) PROVE t \in stored
    OBVIOUS
  <2>2. t = u
    BY <2>1, SameTradeIs
  <2> QED BY <2>2
<1> HIDE DEF added
<1>5. fresh \subseteq rows
  OBVIOUS
<1> QED BY <1>1, <1>3, <1>4, <1>5

-----------------------------------------------------------------------------
(* What the parts of the invariant say. *)

LEMMA IInvParts ==
  ASSUME IInv
  PROVE  ChainInv /\ ProcessTypes /\ Fresh /\ WireInv /\ PairInv /\ BaseInv /\ RowsInv
BY DEF IInv

LEMMA WireFields ==
  ASSUME ProcessTypes
  PROVE  /\ wire.from \in Nat /\ wire.last \in Nat
         /\ wire.accounts \in Nat /\ wire.transactions \in Nat /\ wire.slots \in Nat
         /\ wire.startup \subseteq StartupUpdate
BY DEF ProcessTypes, Wires

LEMMA ProcessFields ==
  ASSUME ProcessTypes
  PROVE  /\ correlator.latest \in [Markets -> States]
         /\ correlator.known_at \in [Markets -> Unknown .. MaxSlot]
         /\ correlator.transactions \subseteq Signatures
         /\ correlator.accounts \subseteq Update
         /\ PendingType(pending) /\ pending.by_slot \subseteq AllTrades
         /\ store.rows \subseteq AllTrades
         /\ store.checkpoints \in [Markets -> [slot : Unknown .. MaxSlot, data : States]]
         /\ todo.slot \in 0 .. MaxSlot /\ todo.slot \in Nat /\ todo.markets \subseteq Markets
<1>1. IsCorrelator(correlator)
  BY DEF ProcessTypes
<1>2. /\ correlator.latest \in [Markets -> States]
      /\ correlator.known_at \in [Markets -> Unknown .. MaxSlot]
      /\ correlator.transactions \subseteq Signatures
      /\ correlator.accounts \subseteq Update
  BY <1>1, CorrelatorFields
<1>3. PendingType(pending) /\ pending.by_slot \subseteq AllTrades
  BY DEF ProcessTypes, PendingType
<1>4. /\ store.rows \subseteq AllTrades
      /\ store.checkpoints \in [Markets -> [slot : Unknown .. MaxSlot, data : States]]
  BY DEF ProcessTypes, Stores
<1>5. todo.slot \in 0 .. MaxSlot /\ todo.markets \subseteq Markets
  BY DEF ProcessTypes
<1> QED BY <1>2, <1>3, <1>4, <1>5, SlotBound

(* The numbers a market is known by. *)
LEMMA MarketNumbers ==
  ASSUME ProcessTypes, NEW m \in Markets
  PROVE  /\ correlator.latest[m] \in Int
         /\ correlator.latest[m] # Unknown => correlator.latest[m] \in Nat
         /\ correlator.known_at[m] \in Int /\ Unknown <= correlator.known_at[m]
         /\ correlator.known_at[m] # Unknown => correlator.known_at[m] \in Nat
         /\ correlator.known_at[m] <= MaxSlot
<1>1. correlator.latest[m] \in States /\ correlator.known_at[m] \in Unknown .. MaxSlot
  BY ProcessFields
<1> QED BY <1>1, SlotBound DEF States, Unknown

(* A write is due when it is past the cursor and of a replayed slot. *)
LEMMA ComesIs ==
  ASSUME ChainInv, ProcessTypes, NEW i \in DOMAIN Writes
  PROVE  Comes(i) <=> wire.accounts < i /\ wire.from <= Writes[i].slot
<1>1. DOMAIN Writes = 1 .. Len(Writes) /\ Len(Writes) \in Nat /\ wire.accounts \in Nat
  BY ChainFields, WireFields
<1>2. Comes(i) <=> i \in wire.accounts + 1 .. Len(Writes) /\ Writes[i].slot >= wire.from
  BY DEF Comes, DueAccounts, Due, Writes
<1>3. wire.from \in Nat /\ Writes[i].slot \in Nat
  BY WriteFields, WireFields
<1> QED BY <1>1, <1>2, <1>3

LEMMA WillRunIs ==
  ASSUME ChainInv, ProcessTypes, NEW k \in DOMAIN Runs
  PROVE  k \in DueTransactions <=> wire.transactions < k /\ wire.from <= Runs[k].slot
<1>1. DOMAIN Runs = 1 .. Len(Runs) /\ Len(Runs) \in Nat /\ wire.transactions \in Nat
  BY ChainFields, WireFields
<1>2. k \in DueTransactions <=>
        k \in wire.transactions + 1 .. Len(Runs) /\ Runs[k].slot >= wire.from
  BY DEF DueTransactions, Due, Runs
<1>3. wire.from \in Nat /\ Runs[k].slot \in Nat
  BY RunFields, WireFields
<1> QED BY <1>1, <1>2, <1>3

LEMMA DueDomains ==
  ASSUME ChainInv, ProcessTypes
  PROVE  DueAccounts \subseteq DOMAIN Writes /\ DueTransactions \subseteq DOMAIN Runs
<1>1. /\ DOMAIN Writes = 1 .. Len(Writes) /\ Len(Writes) \in Nat /\ wire.accounts \in Nat
      /\ DOMAIN Runs = 1 .. Len(Runs) /\ Len(Runs) \in Nat /\ wire.transactions \in Nat
  BY ChainFields, WireFields
<1>2. DueAccounts \subseteq wire.accounts + 1 .. Len(Writes)
  BY DEF DueAccounts, Due, Writes
<1>3. DueTransactions \subseteq wire.transactions + 1 .. Len(Runs)
  BY DEF DueTransactions, Due, Runs
<1> QED BY <1>1, <1>2, <1>3

(* A write waits under its own signature. *)
LEMMA WaitsIs ==
  ASSUME ChainInv, HalvesWereRead
  PROVE  /\ \A i \in DOMAIN Writes :
              Writes[i].signature \in WaitingAccounts(correlator) <=> Waits(i)
         /\ \A i \in DOMAIN Writes :
              Waits(i) => i <= wire.accounts /\ wire.from <= Writes[i].slot
<1>1. \A i \in DOMAIN Writes, a \in correlator.accounts :
        a.signature = Writes[i].signature =>
          a = Writes[i] /\ i <= wire.accounts /\ wire.from <= Writes[i].slot
  <2>1. TAKE i \in DOMAIN Writes, a \in correlator.accounts
  <2>2. HAVE a.signature = Writes[i].signature
  <2>3. PICK j \in DOMAIN Writes : j <= wire.accounts /\ a = Writes[j] /\ wire.from <= a.slot
    BY DEF HalvesWereRead
  <2>4. i = j
    BY <2>2, <2>3, WriteOrder
  <2> QED BY <2>3, <2>4
<1> QED BY <1>1 DEF Waits, WaitingAccounts

(* The transaction of a write is the only one with its signature. *)
LEMMA RunOfWrite ==
  ASSUME ChainInv, NEW i \in DOMAIN Writes, NEW k \in DOMAIN Runs,
         Runs[k].signature = Writes[i].signature
  PROVE  IsRunOf(k, i)
<1>1. PICK n \in DOMAIN Runs : IsRunOf(n, i)
  BY DEF ChainInv, RunsAreSound
<1>2. Runs[n].signature = Runs[k].signature
  BY <1>1 DEF IsRunOf
<1>3. n = k
  <2>1. RunsInOrder(n, k) /\ RunsInOrder(k, n)
    BY DEF ChainInv, RunsAreSound
  <2>2. n \in Nat /\ k \in Nat
    BY RunFields
  <2> QED BY <1>2, <2>1, <2>2 DEF RunsInOrder
<1> QED BY <1>1, <1>3

LEMMA WriteHasRun ==
  ASSUME ChainInv, NEW i \in DOMAIN Writes
  PROVE  \E k \in DOMAIN Runs : IsRunOf(k, i)
BY DEF ChainInv, RunsAreSound

LEMMA RunOrder ==
  ASSUME ChainInv, NEW i \in DOMAIN Writes, NEW j \in DOMAIN Writes,
         NEW k \in DOMAIN Runs, NEW l \in DOMAIN Runs,
         IsRunOf(k, i), IsRunOf(l, j), i < j
  PROVE  k < l
BY DEF ChainInv, RunsAreSound

(* The same facts, as formulas that can be carried over to the next state. *)

WriteNumbers ==
  /\ Len(Writes) \in Nat /\ DOMAIN Writes = 1 .. Len(Writes)
  /\ \A i \in DOMAIN Writes :
       /\ i \in Nat /\ Writes[i] \in Update
       /\ Writes[i].slot \in Nat /\ Writes[i].slot \in 1 .. MaxSlot
       /\ Writes[i].market \in Markets /\ Writes[i].data \in Nat
       /\ Writes[i].signature \in Signatures
       /\ Start(i) \in Nat
  /\ Len(Runs) \in Nat /\ DOMAIN Runs = 1 .. Len(Runs)
  /\ \A k \in DOMAIN Runs : k \in Nat /\ Runs[k].slot \in Nat

DueNumbers ==
  /\ \A i \in DOMAIN Writes : Comes(i) <=> wire.accounts < i /\ wire.from <= Writes[i].slot
  /\ \A k \in DOMAIN Runs :
       k \in DueTransactions <=> wire.transactions < k /\ wire.from <= Runs[k].slot
  /\ DueAccounts \subseteq DOMAIN Writes
  /\ DueTransactions \subseteq DOMAIN Runs

LEMMA WriteNumbersHold ==
  ASSUME ChainInv
  PROVE  WriteNumbers
<1>1. \A i \in DOMAIN Writes :
       /\ i \in Nat /\ Writes[i] \in Update
       /\ Writes[i].slot \in Nat /\ Writes[i].slot \in 1 .. MaxSlot
       /\ Writes[i].market \in Markets /\ Writes[i].data \in Nat
       /\ Writes[i].signature \in Signatures
       /\ Start(i) \in Nat
  BY WriteFields
<1>2. \A k \in DOMAIN Runs : k \in Nat /\ Runs[k].slot \in Nat
  BY RunFields
<1>3. /\ Len(Writes) \in Nat /\ DOMAIN Writes = 1 .. Len(Writes)
      /\ Len(Runs) \in Nat /\ DOMAIN Runs = 1 .. Len(Runs)
  BY ChainFields
<1> QED BY <1>1, <1>2, <1>3 DEF WriteNumbers

LEMMA WriteNumbersNext ==
  ASSUME ChainInv'
  PROVE  WriteNumbers'
BY WriteNumbersHold, PTL

LEMMA DueNumbersHold ==
  ASSUME ChainInv, ProcessTypes
  PROVE  DueNumbers
BY ComesIs, WillRunIs, DueDomains DEF DueNumbers

LEMMA DueNumbersNext ==
  ASSUME ChainInv', ProcessTypes'
  PROVE  DueNumbers'
BY DueNumbersHold, PTL

WriteOrders ==
  \A i, j \in DOMAIN Writes :
    /\ i < j => Writes[i].slot <= Writes[j].slot
    /\ Writes[i].signature = Writes[j].signature => i = j
    /\ i < j /\ SameMarket(i, j) => Writes[i].data <= Start(j)
    /\ i <= j /\ SameMarket(i, j) => Writes[i].data <= Writes[j].data

LEMMA WriteOrdersHold ==
  ASSUME ChainInv
  PROVE  WriteOrders
BY WriteOrder DEF WriteOrders, SameMarket

LEMMA WriteOrdersNext ==
  ASSUME ChainInv'
  PROVE  WriteOrders'
BY WriteOrdersHold, PTL

-----------------------------------------------------------------------------
(* The cluster goes on while the process stands still. *)

IsNew(i, s, t) == i \in DOMAIN t /\ i \notin DOMAIN s

Extension ==
  /\ OnlyChain
  /\ cluster.slot <= cluster'.slot
  /\ cluster.rooted <= cluster'.rooted /\ cluster'.rooted \in Nat
  /\ cluster.landed \subseteq cluster'.landed
  /\ cluster.trades \subseteq cluster'.trades
  /\ \A t \in cluster'.trades : t \in cluster.trades \/ t.slot = cluster.slot
  /\ Len(Writes) <= Len(Writes') /\ Len(Runs) <= Len(Runs')
  /\ \A i \in DOMAIN Writes : i \in DOMAIN Writes' /\ Writes'[i] = Writes[i]
  /\ \A k \in DOMAIN Runs : k \in DOMAIN Runs' /\ Runs'[k] = Runs[k]
  /\ \A i \in DOMAIN Writes' : i \notin DOMAIN Writes =>
       /\ Len(Writes) < i
       /\ Writes'[i].slot = cluster.slot
       /\ Writes'[i].signature \notin cluster.landed
  /\ \A k \in DOMAIN Runs' : k \notin DOMAIN Runs =>
       /\ Len(Runs) < k
       /\ Runs'[k].slot = cluster.slot
       /\ Runs'[k].signature \notin cluster.landed

LEMMA ReportExtends ==
  ASSUME ChainInv, NEW status, Reports(status),
         cluster.slot <= cluster'.slot, cluster.rooted <= cluster'.rooted,
         cluster'.rooted \in Nat
  PROVE  Extension
<1>1. /\ cluster'.landed = cluster.landed /\ cluster'.trades = cluster.trades
      /\ Writes' = Writes /\ Runs' = Runs /\ OnlyChain
  BY DEF Reports
<1>2. Len(Writes) \in Nat /\ Len(Runs) \in Nat
  BY ChainFields
<1> QED BY <1>1, <1>2 DEF Extension

LEMMA ClusterExtends ==
  ASSUME ChainInv, Cluster, DeadSlotsAreEmpty'
  PROVE  Extension
<1>1. /\ cluster.slot \in Nat /\ cluster.rooted \in Nat
      /\ Len(Writes) \in Nat /\ Len(Runs) \in Nat
  BY ChainFields, SlotBound
<1>2. ASSUME NEW sig \in Signatures, Land(sig) PROVE Extension
  <2> DEFINE w == LandedWrite(sig)
             r == LandedRun(sig, TRUE)
  <2>1. /\ sig \notin cluster.landed
        /\ w \in Update
        /\ cluster'.slot = cluster.slot /\ cluster'.rooted = cluster.rooted
        /\ cluster'.landed = cluster.landed \cup {sig}
        /\ cluster'.trades = cluster.trades \cup TradesOf(w)
        /\ Gains(Writes, Writes', w)
        /\ Gains(Runs, Runs', r)
        /\ OnlyChain
    BY <1>2, LandIs
  <2>2. w.slot = cluster.slot /\ w.signature = sig /\ r.slot = cluster.slot /\ r.signature = sig
    BY DEF LandedWrite, LandedRun, AccountUpdate
  <2>3. \A t \in TradesOf(w) : t.slot = cluster.slot
    BY <2>1, <2>2, TradeOfFields
  <2>4. sent' \in Sendings
    BY <1>2, LandIs
  <2>5. Len(Writes') = Len(Writes) + 1 /\ Len(Runs') = Len(Runs) + 1
    <3>1. Writes' \in Seq(Update) /\ Runs' \in Seq(Execution)
      BY <2>4 DEF Sendings, Writes, Runs
    <3>2. DOMAIN Writes' = 1 .. Len(Writes) + 1 /\ DOMAIN Runs' = 1 .. Len(Runs) + 1
      BY <2>1 DEF Gains
    <3> QED BY <1>1, <3>1, <3>2
  <2> HIDE DEF w, r
  <2>6. /\ \A i \in DOMAIN Writes' : i \in DOMAIN Writes \/ i = Len(Writes) + 1
        /\ \A i \in DOMAIN Writes : i \in DOMAIN Writes' /\ Writes'[i] = Writes[i]
        /\ Writes'[Len(Writes) + 1] = w
    <3>1. Writes \in Seq(Update) /\ Gains(Writes, Writes', w)
      BY <2>1, ChainFields
    <3> QED BY ONLY <3>1, GainsCases
  <2>7. /\ \A i \in DOMAIN Runs' : i \in DOMAIN Runs \/ i = Len(Runs) + 1
        /\ \A i \in DOMAIN Runs : i \in DOMAIN Runs' /\ Runs'[i] = Runs[i]
        /\ Runs'[Len(Runs) + 1] = r
    <3>1. Runs \in Seq(Execution) /\ Gains(Runs, Runs', r)
      BY <2>1, ChainFields
    <3> QED BY ONLY <3>1, GainsCases
  <2>8. /\ cluster.slot <= cluster'.slot
        /\ cluster.rooted <= cluster'.rooted /\ cluster'.rooted \in Nat
        /\ Len(Writes) <= Len(Writes') /\ Len(Runs) <= Len(Runs')
    BY ONLY <1>1, <2>1, <2>5
  <2>9. \A i \in DOMAIN Writes' : i \notin DOMAIN Writes =>
          Len(Writes) < i /\ Writes'[i].slot = cluster.slot
            /\ Writes'[i].signature \notin cluster.landed
    <3>1. Len(Writes) < Len(Writes) + 1
      BY <1>1
    <3> QED BY ONLY <2>1, <2>2, <2>6, <3>1
  <2>10. \A k \in DOMAIN Runs' : k \notin DOMAIN Runs =>
          Len(Runs) < k /\ Runs'[k].slot = cluster.slot
            /\ Runs'[k].signature \notin cluster.landed
    <3>1. Len(Runs) < Len(Runs) + 1
      BY <1>1
    <3> QED BY ONLY <2>1, <2>2, <2>7, <3>1
  <2> QED BY <2>1, <2>3, <2>6, <2>7, <2>8, <2>9, <2>10 DEF Extension
<1>3. ASSUME NEW sig \in Signatures, LandFailing(sig) PROVE Extension
  <2> DEFINE r == LandedRun(sig, FALSE)
  <2>1. /\ sig \notin cluster.landed
        /\ cluster'.slot = cluster.slot /\ cluster'.rooted = cluster.rooted
        /\ cluster'.landed = cluster.landed \cup {sig}
        /\ cluster'.trades = cluster.trades
        /\ Writes' = Writes
        /\ Gains(Runs, Runs', r)
        /\ sent' \in Sendings
        /\ OnlyChain
    BY <1>3, LandFailingIs
  <2>2. r.slot = cluster.slot /\ r.signature = sig
    BY DEF LandedRun
  <2>5. Len(Runs') = Len(Runs) + 1
    <3>1. Runs' \in Seq(Execution)
      BY <2>1 DEF Sendings, Runs
    <3>2. DOMAIN Runs' = 1 .. Len(Runs) + 1
      BY <2>1 DEF Gains
    <3> QED BY <1>1, <3>1, <3>2
  <2> HIDE DEF r
  <2>7. /\ \A i \in DOMAIN Runs' : i \in DOMAIN Runs \/ i = Len(Runs) + 1
        /\ \A i \in DOMAIN Runs : i \in DOMAIN Runs' /\ Runs'[i] = Runs[i]
        /\ Runs'[Len(Runs) + 1] = r
    <3>1. Runs \in Seq(Execution) /\ Gains(Runs, Runs', r)
      BY <2>1, ChainFields
    <3> QED BY ONLY <3>1, GainsCases
  <2>8. /\ cluster.slot <= cluster'.slot
        /\ cluster.rooted <= cluster'.rooted /\ cluster'.rooted \in Nat
        /\ Len(Writes) <= Len(Writes') /\ Len(Runs) <= Len(Runs')
    BY ONLY <1>1, <2>1, <2>5
  <2>9. \A k \in DOMAIN Runs' : k \notin DOMAIN Runs =>
         Len(Runs) < k /\ Runs'[k].slot = cluster.slot
            /\ Runs'[k].signature \notin cluster.landed
    <3>1. Len(Runs) < Len(Runs) + 1
      BY <1>1
    <3> QED BY ONLY <2>1, <2>2, <2>7, <3>1
  <2> QED BY <2>1, <2>7, <2>8, <2>9 DEF Extension
<1>4. CASE CloseSlot
  <2>1. /\ Reports([slot |-> cluster.slot, status |-> "confirmed"])
        /\ cluster'.slot = cluster.slot + 1 /\ cluster'.rooted = cluster.rooted
    BY <1>4, CloseSlotIs
  <2>2. cluster.slot <= cluster'.slot /\ cluster.rooted <= cluster'.rooted
          /\ cluster'.rooted \in Nat
    BY <1>1, <2>1
  <2> QED BY <2>1, <2>2, ReportExtends
<1>5. CASE AbandonSlot
  <2>1. /\ Reports([slot |-> cluster.slot - 1, status |-> "dead"])
        /\ cluster'.slot = cluster.slot /\ cluster'.rooted = cluster.rooted
    BY <1>5, AbandonSlotIs
  <2>2. cluster.slot <= cluster'.slot /\ cluster.rooted <= cluster'.rooted
          /\ cluster'.rooted \in Nat
    BY <1>1, <2>1
  <2> QED BY <2>1, <2>2, ReportExtends
<1>6. CASE FinalizeSlot
  <2>1. /\ Reports([slot |-> cluster'.rooted, status |-> "finalized"])
        /\ cluster'.slot = cluster.slot
        /\ cluster'.rooted \in 1 .. MaxSlot
        /\ cluster.rooted < cluster'.rooted
    BY <1>6, FinalizeSlotIs
  <2>2. cluster.slot <= cluster'.slot /\ cluster.rooted <= cluster'.rooted
          /\ cluster'.rooted \in Nat
    BY <1>1, <2>1, SlotBound
  <2> QED BY <2>1, <2>2, ReportExtends
<1> QED BY <1>2, <1>3, <1>4, <1>5, <1>6 DEF Cluster

LEMMA BookStands ==
  ASSUME ChainInv, Extension, NEW m, NEW s \in Int, s < cluster.slot
  PROVE  BookAt(m, s)' = BookAt(m, s)
<1>1. /\ \A t \in cluster'.trades : t \in cluster.trades \/ t.slot = cluster.slot
      /\ cluster.trades \subseteq cluster'.trades
  BY DEF Extension
<1>2. cluster.slot \in Int
  BY ChainFields, SlotBound
<1>3. ~ (cluster.slot <= s)
  BY <1>2
<1>4. {t \in cluster'.trades : t.market = m /\ t.slot <= s}
        = {t \in cluster.trades : t.market = m /\ t.slot <= s}
  BY <1>1, <1>3
<1> QED BY <1>4 DEF BookAt

LEMMA ExtendedTypes ==
  ASSUME ProcessTypes, Fresh, OnlyChain
  PROVE  ProcessTypes' /\ Fresh'
<1>1. /\ wire' = wire /\ correlator' = correlator /\ pending' = pending
      /\ store' = store /\ stage' = stage /\ todo' = todo
  BY DEF OnlyChain, process
<1>2. ProcessTypes'
  BY <1>1 DEF ProcessTypes, IsCorrelator
<1>3. Fresh'
  BY <1>1 DEF Fresh, NewCorrelator, NewPending, ResumingFrom
<1> QED BY <1>2, <1>3

(* What is new comes, and nothing of it was seen. *)
LEMMA ExtendedDue ==
  ASSUME IInv, Extension, ChainInv', stage # "down"
  PROVE  /\ \A i \in DOMAIN Writes : (Comes(i)' <=> Comes(i)) /\ (Waits(i)' <=> Waits(i))
         /\ \A i \in DOMAIN Writes' : i \notin DOMAIN Writes => Comes(i)'
         /\ \A i \in DOMAIN Writes' : i \notin DOMAIN Writes => wire.last <= Writes'[i].slot
         /\ \A k \in DOMAIN Runs' : k \notin DOMAIN Runs => wire.last <= Runs'[k].slot
         /\ \A k \in DOMAIN Runs :
              (k \in DueTransactions)' <=> k \in DueTransactions
         /\ Up /\ HalvesWereRead =>
              \A i \in DOMAIN Writes' : i \notin DOMAIN Writes => ~ Waits(i)'
         /\ \A i \in DOMAIN Writes', k \in DOMAIN Runs' :
              IsRunOf(k, i)' /\ (i \in DOMAIN Writes \/ k \in DOMAIN Runs) =>
                i \in DOMAIN Writes /\ k \in DOMAIN Runs /\ IsRunOf(k, i)
<1>1. /\ wire' = wire /\ correlator' = correlator /\ stage' = stage
      /\ \A i \in DOMAIN Writes : i \in DOMAIN Writes' /\ Writes'[i] = Writes[i]
      /\ \A k \in DOMAIN Runs : k \in DOMAIN Runs' /\ Runs'[k] = Runs[k]
      /\ \A i \in DOMAIN Writes' : i \notin DOMAIN Writes =>
           Len(Writes) < i /\ Writes'[i].slot = cluster.slot
             /\ Writes'[i].signature \notin cluster.landed
      /\ \A k \in DOMAIN Runs' : k \notin DOMAIN Runs =>
           Len(Runs) < k /\ Runs'[k].slot = cluster.slot
             /\ Runs'[k].signature \notin cluster.landed
  BY DEF Extension, OnlyChain, process
<1>2. ProcessTypes' /\ ProcessTypes /\ ChainInv /\ WireInv /\ Fresh
  BY ExtendedTypes, IInvParts DEF Extension
<1>3. DueNumbers /\ DueNumbers' /\ WriteNumbers /\ WriteNumbers'
  BY <1>2, DueNumbersHold, DueNumbersNext, WriteNumbersHold, WriteNumbersNext
<1>4. /\ wire.accounts <= Len(Writes) /\ wire.transactions <= Len(Runs)
      /\ wire.from <= wire.last /\ wire.last <= cluster.slot
      /\ wire.from \in Nat /\ wire.last \in Nat /\ wire.accounts \in Nat
      /\ wire.transactions \in Nat /\ cluster.slot \in Nat
  BY <1>2, WireFields, ChainFields, SlotBound DEF WireInv
<1>5. \A i \in DOMAIN Writes : Comes(i)' <=> Comes(i)
  BY <1>1, <1>3 DEF DueNumbers
<1>6. \A i \in DOMAIN Writes : Waits(i)' <=> Waits(i)
  BY <1>1 DEF Waits
<1>7. \A i \in DOMAIN Writes' : i \notin DOMAIN Writes =>
         Comes(i)' /\ wire.last <= Writes'[i].slot
  <2>1. SUFFICES ASSUME NEW i \in DOMAIN Writes', i \notin DOMAIN Writes
                 PROVE  Comes(i)' /\ wire.last <= Writes'[i].slot
    OBVIOUS
  <2>2. Len(Writes) < i /\ Writes'[i].slot = cluster.slot /\ i \in Nat /\ Len(Writes) \in Nat
    BY <1>1, <1>3, <2>1 DEF WriteNumbers
  <2>3. wire.accounts < i /\ wire.from <= Writes'[i].slot /\ wire.last <= Writes'[i].slot
    BY ONLY <1>4, <2>2
  <2>4. Comes(i)' <=> wire'.accounts < i /\ wire'.from <= Writes'[i].slot
    BY <1>3, <2>1 DEF DueNumbers
  <2>5. wire' = wire
    BY <1>1
  <2> QED BY <2>3, <2>4, <2>5
<1>8. \A k \in DOMAIN Runs' : k \notin DOMAIN Runs => wire.last <= Runs'[k].slot
  BY <1>1, <1>4
<1>9. \A k \in DOMAIN Runs : (k \in DueTransactions)' <=> k \in DueTransactions
  BY <1>1, <1>3 DEF DueNumbers
<1>10. Up /\ HalvesWereRead => \A i \in DOMAIN Writes' : i \notin DOMAIN Writes => ~ Waits(i)'
  <2>1. SUFFICES ASSUME HalvesWereRead, NEW i \in DOMAIN Writes', i \notin DOMAIN Writes,
                        Waits(i)'
                 PROVE  FALSE
    OBVIOUS
  <2>2. Writes'[i] \in correlator.accounts
    BY <1>1, <2>1 DEF Waits
  <2>3. PICK j \in DOMAIN Writes : Writes'[i] = Writes[j]
    BY <2>1, <2>2 DEF HalvesWereRead
  <2>4. Writes[j].signature \in cluster.landed
    BY <1>2 DEF ChainInv, WritesAreSound, WriteIsPlaced
  <2> QED BY <1>1, <2>1, <2>3, <2>4
<1>11. \A i \in DOMAIN Writes', k \in DOMAIN Runs' :
         IsRunOf(k, i)' /\ (i \in DOMAIN Writes \/ k \in DOMAIN Runs) =>
           i \in DOMAIN Writes /\ k \in DOMAIN Runs /\ IsRunOf(k, i)
  <2>1. TAKE i \in DOMAIN Writes', k \in DOMAIN Runs'
  <2>2. HAVE IsRunOf(k, i)' /\ (i \in DOMAIN Writes \/ k \in DOMAIN Runs)
  <2>3. Runs'[k].signature = Writes'[i].signature
    BY <2>2 DEF IsRunOf
  <2>4. i \in DOMAIN Writes => Writes'[i].signature \in cluster.landed
    BY <1>1, <1>2 DEF ChainInv, WritesAreSound, WriteIsPlaced
  <2>5. k \in DOMAIN Runs => Runs'[k].signature \in cluster.landed
    BY <1>1, <1>2 DEF ChainInv, RunsAreSound, RunIsPlaced
  <2>6. i \in DOMAIN Writes /\ k \in DOMAIN Runs
    BY <1>1, <2>2, <2>3, <2>4, <2>5
  <2>7. IsRunOf(k, i)
    BY <1>1, <2>2, <2>6 DEF IsRunOf
  <2> QED BY <2>6, <2>7
<1> QED BY <1>5, <1>6, <1>7, <1>8, <1>9, <1>10, <1>11

LEMMA ExtendedWire ==
  ASSUME IInv, Extension, ChainInv'
  PROVE  WireInv'
<1>1. SUFFICES ASSUME stage' # "down" PROVE WireInv'
  BY DEF WireInv
<1>2. /\ wire' = wire /\ correlator' = correlator /\ stage' = stage
      /\ \A i \in DOMAIN Writes : i \in DOMAIN Writes' /\ Writes'[i] = Writes[i]
      /\ \A i \in DOMAIN Writes' : i \notin DOMAIN Writes => Writes'[i].slot = cluster.slot
      /\ \A k \in DOMAIN Runs : k \in DOMAIN Runs' /\ Runs'[k] = Runs[k]
      /\ Len(Writes) <= Len(Writes') /\ Len(Runs) <= Len(Runs')
      /\ cluster.slot <= cluster'.slot
  BY DEF Extension, OnlyChain, process
<1>3. ProcessTypes /\ ProcessTypes' /\ ChainInv /\ WireInv
  BY ExtendedTypes, IInvParts DEF Extension
<1>4. /\ wire.accounts <= Len(Writes) /\ wire.transactions <= Len(Runs)
      /\ 1 <= wire.from /\ wire.from <= wire.last /\ wire.last <= cluster.slot
      /\ \A i \in DueAccounts : wire.last <= Writes[i].slot
      /\ \A k \in DueTransactions : wire.last <= Runs[k].slot
      /\ \A u \in wire.startup : StartupIsTrue(u)
      /\ stage = "seed" => wire.accounts = 0 /\ wire.transactions = 0
  BY <1>1, <1>2, <1>3 DEF WireInv
<1>5. DueNumbers /\ DueNumbers' /\ WriteNumbers /\ WriteNumbers'
  BY <1>3, DueNumbersHold, DueNumbersNext, WriteNumbersHold, WriteNumbersNext
<1>6. /\ wire.from \in Nat /\ wire.last \in Nat /\ wire.accounts \in Nat
      /\ wire.transactions \in Nat /\ cluster.slot \in Nat /\ cluster'.slot \in Nat
      /\ wire.startup \subseteq StartupUpdate
  <2>1. cluster'.slot \in 1 .. MaxSlot + 1
    BY DEF ChainInv, ChainTypes, Clusters
  <2>2. /\ wire.from \in Nat /\ wire.last \in Nat /\ wire.accounts \in Nat
        /\ wire.transactions \in Nat /\ wire.startup \subseteq StartupUpdate
    BY <1>3, WireFields
  <2>3. cluster.slot \in 1 .. MaxSlot + 1
    BY <1>3, ChainFields
  <2>4. cluster.slot \in Nat /\ cluster'.slot \in Nat
    BY ONLY <2>1, <2>3, SlotBound
  <2> QED BY ONLY <2>2, <2>4
<1>7. /\ wire.accounts <= Len(Writes') /\ wire.transactions <= Len(Runs')
      /\ wire.last <= cluster'.slot
  <2>1. /\ Len(Writes) \in Nat /\ Len(Writes') \in Nat
        /\ Len(Runs) \in Nat /\ Len(Runs') \in Nat
    BY <1>5 DEF WriteNumbers
  <2>2. /\ Len(Writes) <= Len(Writes') /\ Len(Runs) <= Len(Runs')
        /\ cluster.slot <= cluster'.slot
    BY <1>2
  <2>3. /\ wire.accounts <= Len(Writes) /\ wire.transactions <= Len(Runs)
        /\ wire.last <= cluster.slot
    BY <1>4
  <2> QED BY ONLY <1>6, <2>1, <2>2, <2>3
<1>8. \A i \in DueAccounts' : wire.last <= Writes'[i].slot
  <2>1. TAKE i \in DueAccounts'
  <2>2. i \in DOMAIN Writes' /\ Comes(i)'
    BY <1>5 DEF DueNumbers, Comes
  <2>3. CASE i \in DOMAIN Writes
    <3>1. Comes(i)
      BY <1>1, <1>2, <2>2, <2>3, ExtendedDue
    <3> QED BY <1>2, <1>4, <2>3, <3>1 DEF Comes
  <2>4. CASE i \notin DOMAIN Writes
    BY <1>1, <1>2, <2>2, <2>4, ExtendedDue
  <2> QED BY <2>3, <2>4
<1>9. \A k \in DueTransactions' : wire.last <= Runs'[k].slot
  <2>1. TAKE k \in DueTransactions'
  <2>2. k \in DOMAIN Runs'
    BY <1>5 DEF DueNumbers
  <2>3. CASE k \in DOMAIN Runs
    <3>1. k \in DueTransactions
      BY <1>1, <1>2, <2>1, <2>3, ExtendedDue
    <3> QED BY <1>2, <1>4, <2>3, <3>1
  <2>4. CASE k \notin DOMAIN Runs
    BY <1>1, <1>2, <2>2, <2>4, ExtendedDue
  <2> QED BY <2>3, <2>4
<1>10. \A u \in wire.startup : StartupIsTrue(u)'
  <2>1. TAKE u \in wire.startup
  <2>2. /\ StartupIsTrue(u) /\ u \in StartupUpdate
    BY <1>4, <1>6
  <2>3. u.slot \in Nat
    BY <2>2, SlotBound DEF StartupUpdate
  <2>4. u.slot < cluster.slot
    <3>1. u.slot < wire.from
      BY <2>2 DEF StartupIsTrue
    <3>2. wire.from <= wire.last /\ wire.last <= cluster.slot
      BY <1>4
    <3> QED BY ONLY <1>6, <2>3, <3>1, <3>2
  <2>5. BookAt(u.market, u.slot)' = BookAt(u.market, u.slot)
    BY <1>3, <2>3, <2>4, BookStands
  <2>6. \A i \in DOMAIN Writes' :
          Writes'[i].slot < wire.from => i \in DOMAIN Writes /\ Writes'[i] = Writes[i]
    <3>1. ~ (cluster.slot < wire.from)
      BY <1>4, <1>6
    <3> QED BY <1>2, <3>1
  <2>7. \A i \in DOMAIN Writes' :
         Writes'[i].market = u.market /\ Writes'[i].slot < wire.from =>
           Writes'[i].data <= u.data
    BY <2>2, <2>6 DEF StartupIsTrue
  <2>8. wire.accounts = 0 /\ u.slot < wire.from /\ u.data = BookAt(u.market, u.slot)
    BY <2>2 DEF StartupIsTrue
  <2> QED BY <1>2, <2>5, <2>7, <2>8 DEF StartupIsTrue
<1> QED BY <1>2, <1>4, <1>7, <1>8, <1>9, <1>10 DEF WireInv

LEMMA ExtendedPairs ==
  ASSUME IInv, Extension, ChainInv'
  PROVE  PairInv'
<1>1. SUFFICES ASSUME Up' PROVE PairInv'
  BY DEF PairInv
<1>2. /\ wire' = wire /\ correlator' = correlator /\ stage' = stage
      /\ \A i \in DOMAIN Writes : i \in DOMAIN Writes' /\ Writes'[i] = Writes[i]
      /\ \A k \in DOMAIN Runs : k \in DOMAIN Runs' /\ Runs'[k] = Runs[k]
      /\ \A k \in DOMAIN Runs' : k \notin DOMAIN Runs =>
           Len(Runs) < k /\ Runs'[k].signature \notin cluster.landed
      /\ \A i \in DOMAIN Writes' : i \notin DOMAIN Writes => Len(Writes) < i
      /\ cluster.landed \subseteq cluster'.landed
  BY DEF Extension, OnlyChain, process
<1>3. ProcessTypes /\ ChainInv /\ WireInv /\ PairInv /\ Up /\ stage # "down"
  BY <1>1, <1>2, IInvParts DEF Up
<1>4. WriteNumbers /\ WriteNumbers'
  BY <1>3, WriteNumbersHold, WriteNumbersNext
<1>5. /\ wire.accounts \in Nat /\ wire.transactions \in Nat
      /\ wire.accounts <= Len(Writes) /\ wire.transactions <= Len(Runs)
  BY <1>3, WireFields DEF WireInv
<1>6. /\ HalvesWereRead
      /\ correlator.transactions \subseteq cluster.landed
      /\ \A i \in DOMAIN Writes, k \in DOMAIN Runs : WaitingHasToRun(i, k)
      /\ \A k \in DOMAIN Runs : WaitingRan(k)
      /\ \A i \in DOMAIN Writes, k \in DOMAIN Runs : RanIsWaiting(i, k)
      /\ \A i, j \in DOMAIN Writes : WaitsInOrder(i, j)
  BY <1>3 DEF PairInv
<1>7. /\ \A i \in DOMAIN Writes : (Comes(i)' <=> Comes(i)) /\ (Waits(i)' <=> Waits(i))
      /\ \A i \in DOMAIN Writes' : i \notin DOMAIN Writes => ~ Waits(i)'
      /\ \A i \in DOMAIN Writes', k \in DOMAIN Runs' :
           IsRunOf(k, i)' /\ (i \in DOMAIN Writes \/ k \in DOMAIN Runs) =>
             i \in DOMAIN Writes /\ k \in DOMAIN Runs /\ IsRunOf(k, i)
  BY <1>3, <1>6, ExtendedDue
<1>8. HalvesWereRead'
  BY <1>2, <1>6 DEF HalvesWereRead
<1>9. correlator'.transactions \subseteq cluster'.landed
  BY <1>2, <1>6
<1>10. \A i \in DOMAIN Writes', k \in DOMAIN Runs' : WaitingHasToRun(i, k)'
  <2>1. TAKE i \in DOMAIN Writes', k \in DOMAIN Runs'
  <2>2. SUFFICES ASSUME Waits(i)', IsRunOf(k, i)' PROVE wire.transactions < k
    BY <1>2 DEF WaitingHasToRun
  <2>3. i \in DOMAIN Writes /\ Waits(i) /\ k \in DOMAIN Runs /\ IsRunOf(k, i)
    BY <1>7, <2>2
  <2> QED BY <1>6, <2>3 DEF WaitingHasToRun
<1>11. \A k \in DOMAIN Runs' : WaitingRan(k)'
  <2>1. TAKE k \in DOMAIN Runs'
  <2>2. SUFFICES ASSUME Runs'[k].signature \in correlator.transactions,
                        wire.from <= Runs'[k].slot
                 PROVE  k <= wire.transactions
    BY <1>2 DEF WaitingRan
  <2>3. k \in DOMAIN Runs
    BY <1>2, <1>6, <2>2
  <2> QED BY <1>2, <1>6, <2>2, <2>3 DEF WaitingRan
<1>12. \A i \in DOMAIN Writes', k \in DOMAIN Runs' : RanIsWaiting(i, k)'
  <2>1. TAKE i \in DOMAIN Writes', k \in DOMAIN Runs'
  <2>2. SUFFICES ASSUME Comes(i)', IsRunOf(k, i)', k <= wire.transactions
                 PROVE  Runs'[k].signature \in correlator.transactions
    BY <1>2 DEF RanIsWaiting
  <2>3. k \in DOMAIN Runs
    <3>1. SUFFICES ASSUME Len(Runs) < k PROVE FALSE
      BY <1>2
    <3> QED BY <1>4, <1>5, <2>2, <3>1 DEF WriteNumbers
  <2>4. i \in DOMAIN Writes /\ Comes(i) /\ IsRunOf(k, i)
    BY <1>7, <2>2, <2>3
  <2> QED BY <1>2, <1>6, <2>2, <2>3, <2>4 DEF RanIsWaiting
<1>13. \A i, j \in DOMAIN Writes' : WaitsInOrder(i, j)'
  <2>1. TAKE i, j \in DOMAIN Writes'
  <2>2. SUFFICES ASSUME i < j, j <= wire.accounts, SameMarket(i, j)', Waits(i)'
                 PROVE  Waits(j)'
    BY <1>2 DEF WaitsInOrder
  <2>3. j \in DOMAIN Writes
    <3>1. SUFFICES ASSUME Len(Writes) < j PROVE FALSE
      BY <1>2
    <3> QED BY <1>4, <1>5, <2>2, <3>1 DEF WriteNumbers
  <2>4. i \in DOMAIN Writes /\ Waits(i)
    BY <1>7, <2>2
  <2>5. SameMarket(i, j)
    BY <1>2, <2>2, <2>3, <2>4 DEF SameMarket
  <2> QED BY <1>6, <1>7, <2>2, <2>3, <2>4, <2>5 DEF WaitsInOrder
<1> QED BY <1>8, <1>9, <1>10, <1>11, <1>12, <1>13 DEF PairInv

LEMMA ExtendedBase ==
  ASSUME IInv, Extension, ChainInv'
  PROVE  BaseInv'
<1>1. SUFFICES ASSUME Up' PROVE BaseInv'
  BY DEF BaseInv
<1>2. /\ wire' = wire /\ correlator' = correlator /\ stage' = stage
      /\ \A i \in DOMAIN Writes : i \in DOMAIN Writes' /\ Writes'[i] = Writes[i]
      /\ \A i \in DOMAIN Writes' : i \notin DOMAIN Writes => Writes'[i].slot = cluster.slot
      /\ cluster.slot <= cluster'.slot
  BY DEF Extension, OnlyChain, process
<1>3. ProcessTypes /\ ChainInv /\ PairInv /\ BaseInv /\ Up /\ stage # "down"
  BY <1>1, <1>2, IInvParts DEF Up
<1>4. WriteNumbers'
  BY <1>3, WriteNumbersNext
<1>5. HalvesWereRead
  BY <1>3 DEF PairInv
<1>6. /\ \A i \in DOMAIN Writes : (Comes(i)' <=> Comes(i)) /\ (Waits(i)' <=> Waits(i))
      /\ \A i \in DOMAIN Writes' : i \notin DOMAIN Writes => Comes(i)' /\ ~ Waits(i)'
  BY <1>3, <1>5, ExtendedDue
<1>7. /\ \A m \in Markets : MarketIsKnown(m)
      /\ \A i \in DOMAIN Writes : SettledIsKnown(i) /\ StaleIsKnown(i) /\ WaitsBefore(i)
  BY <1>3 DEF BaseInv
<1>8. cluster.slot \in Nat /\ cluster'.slot \in Nat
  <2>1. cluster'.slot \in 1 .. MaxSlot + 1
    BY DEF ChainInv, ChainTypes, Clusters
  <2> QED BY <1>3, <2>1, ChainFields, SlotBound
<1>9. \A m \in Markets : MarketIsKnown(m)'
  <2>1. TAKE m \in Markets
  <2>2. MarketIsKnown(m) /\ correlator.known_at[m] \in Int
    BY <1>3, <1>7, MarketNumbers
  <2>3. /\ correlator.latest[m] # Unknown => correlator.known_at[m] # Unknown
        /\ correlator.known_at[m] < cluster'.slot
    BY <1>2, <1>8, <2>2 DEF MarketIsKnown
  <2>4. correlator.known_at[m] # Unknown /\ correlator.latest[m] = Unknown =>
          \E i \in DOMAIN Writes' : Writes'[i].market = m /\ Waits(i)'
    BY <1>2, <1>6, <2>2 DEF MarketIsKnown
  <2>5. correlator.latest[m] \notin {Unknown, 0} =>
          \E i \in DOMAIN Writes' :
            /\ Writes'[i].market = m
            /\ Writes'[i].slot <= correlator.known_at[m]
            /\ Writes'[i].data = correlator.latest[m]
    BY <1>2, <2>2 DEF MarketIsKnown
  <2> QED BY <1>2, <2>3, <2>4, <2>5 DEF MarketIsKnown, Unknown
<1>10. \A i \in DOMAIN Writes' : (SettledIsKnown(i) /\ StaleIsKnown(i) /\ WaitsBefore(i))'
  <2>1. TAKE i \in DOMAIN Writes'
  <2>2. CASE i \in DOMAIN Writes
    <3>1. SettledIsKnown(i) /\ StaleIsKnown(i) /\ WaitsBefore(i)
      BY <1>7, <2>2
    <3>2. Latest(i)' = Latest(i) /\ KnownAt(i)' = KnownAt(i) /\ Writes'[i] = Writes[i]
      BY <1>2, <2>2 DEF Latest, KnownAt
    <3>3. SettledIsKnown(i)'
      BY <1>6, <2>2, <3>1, <3>2 DEF SettledIsKnown, Settled, Unknown
    <3>4. WaitsBefore(i)'
      BY <1>6, <2>2, <3>1, <3>2 DEF WaitsBefore
    <3>5. StaleIsKnown(i)'
      <4>1. SUFFICES ASSUME Comes(i)', Writes'[i].slot < KnownAt(i)'
                     PROVE  /\ Latest(i)' # Unknown
                            /\ Writes'[i].data <= Latest(i)'
                            /\ \A j \in DOMAIN Writes' : SameMarket(i, j)' => ~ Waits(j)'
        BY DEF StaleIsKnown, Unknown
      <4>2. /\ Latest(i) # Unknown
            /\ Writes[i].data <= Latest(i)
            /\ \A j \in DOMAIN Writes : SameMarket(i, j) => ~ Waits(j)
        BY <1>6, <2>2, <3>1, <3>2, <4>1 DEF StaleIsKnown
      <4>3. \A j \in DOMAIN Writes' : SameMarket(i, j)' => ~ Waits(j)'
        BY <1>2, <1>6, <2>2, <4>2 DEF SameMarket
      <4> QED BY <3>2, <4>2, <4>3
    <3> QED BY <3>3, <3>4, <3>5
  <2>3. CASE i \notin DOMAIN Writes
    <3>1. Comes(i)' /\ ~ Waits(i)' /\ Writes'[i].slot = cluster.slot
      BY <1>2, <1>6, <2>3
    <3>2. KnownAt(i)' < cluster.slot /\ KnownAt(i)' \in Int
      <4>1. Writes'[i].market \in Markets
        BY <1>4 DEF WriteNumbers
      <4> QED BY <1>2, <1>3, <1>7, <4>1, MarketNumbers DEF KnownAt, MarketIsKnown
    <3>3. ~ (Writes'[i].slot < KnownAt(i)')
      BY <1>8, <3>1, <3>2
    <3> QED BY <3>1, <3>3 DEF SettledIsKnown, StaleIsKnown, WaitsBefore, Settled
  <2> QED BY <2>2, <2>3
<1> QED BY <1>9, <1>10 DEF BaseInv

(* A book named by its slot, now and after a step of the cluster. *)
LEMMA NamedBookStands ==
  ASSUME ChainInv, Extension, NEW m, NEW n \in Int, NEW data,
         n < cluster.slot, data = BookAt(m, n)
  PROVE  data = Cardinality({t \in cluster'.trades : t.market = m /\ t.slot <= n})
<1>1. BookAt(m, n)' = BookAt(m, n)
  BY BookStands
<1> QED BY <1>1 DEF BookAt

LEMMA ExtendedRows ==
  ASSUME IInv, Extension, ChainInv'
  PROVE  RowsInv'
<1>1. /\ correlator' = correlator /\ pending' = pending /\ store' = store /\ stage' = stage
      /\ todo' = todo
      /\ cluster.slot <= cluster'.slot
      /\ cluster.rooted <= cluster'.rooted /\ cluster'.rooted \in Nat
      /\ cluster.trades \subseteq cluster'.trades
      /\ \A t \in cluster'.trades : t \in cluster.trades \/ t.slot = cluster.slot
  BY DEF Extension, OnlyChain, process
<1>2. ChainInv /\ ProcessTypes /\ RowsInv
  BY IInvParts
<1>3. cluster.slot \in Nat /\ cluster.rooted \in Nat /\ cluster.rooted < cluster.slot
  BY <1>2, ChainFields, SlotBound
<1>4. cluster'.slot \in Nat
  <2>1. cluster'.slot \in 1 .. MaxSlot + 1
    BY DEF ChainInv, ChainTypes, Clusters
  <2> QED BY <2>1, SlotBound
<1>5. RootedTrades \subseteq RootedTrades'
  <2>1. SUFFICES ASSUME NEW t \in cluster.trades, t.slot <= cluster.rooted
                 PROVE  t \in cluster'.trades /\ t.slot <= cluster'.rooted
    BY DEF RootedTrades
  <2>2. t.slot \in Nat
    BY <1>2, TradeFields
  <2> QED BY <1>1, <1>3, <2>1, <2>2
<1>6. pending'.by_slot \subseteq cluster'.trades /\ store'.rows \subseteq RootedTrades'
  BY <1>1, <1>2, <1>5 DEF RowsInv
<1>7. Checkpointed' = Checkpointed
  BY <1>1 DEF Checkpointed, Unknown
<1>8. \A m \in Checkpointed : CheckpointIsTrue(m)'
  <2>1. TAKE m \in Checkpointed
  <2>2. CheckpointIsTrue(m)
    BY <1>2 DEF RowsInv
  <2>3. m \in Markets /\ store.checkpoints[m].slot \in Int
    <3>1. m \in Markets
      BY DEF Checkpointed
    <3>2. store.checkpoints[m] \in [slot : Unknown .. MaxSlot, data : States]
      BY <1>2, <3>1, ProcessFields
    <3>3. store.checkpoints[m].slot \in Unknown .. MaxSlot
      BY <3>2
    <3> QED BY <3>1, <3>3, SlotBound DEF Unknown
  <2>4. PICK n \in Int : n = store.checkpoints[m].slot
    BY <2>3
  <2>5. n < cluster.slot /\ store.checkpoints[m].data = BookAt(m, n)
    BY <2>2, <2>4 DEF CheckpointIsTrue
  <2>6. store.checkpoints[m].data =
          Cardinality({t \in cluster'.trades : t.market = m /\ t.slot <= n})
    BY <1>2, <2>5, NamedBookStands
  <2>7. n < cluster'.slot
    BY <1>1, <1>3, <1>4, <2>5
  <2>8. store'.checkpoints[m] = store.checkpoints[m] /\ store'.checkpoints[m].slot = n
    BY <1>1, <2>4
  <2> QED BY <2>6, <2>7, <2>8 DEF CheckpointIsTrue, BookAt
<1>9. stage' = "checkpoint" => todo'.slot <= cluster'.rooted
  <2>1. todo.slot \in Nat
    BY <1>2, ProcessFields
  <2> QED BY <1>1, <1>2, <1>3, <2>1 DEF RowsInv
<1>10. ASSUME stage' = "checkpoint", NEW m \in todo'.markets PROVE ToSave(m)'
  <2>1. stage = "checkpoint" /\ m \in todo.markets /\ ToSave(m) /\ todo.slot <= cluster.rooted
    BY <1>1, <1>2, <1>10 DEF RowsInv
  <2>2. m \in Markets /\ todo.slot \in Nat
    BY <1>2, <2>1, ProcessFields
  <2>3. PICK n \in Int : n = correlator.known_at[m]
    BY <1>2, <2>2, MarketNumbers
  <2>4. n <= todo.slot =>
          correlator.latest[m] =
            Cardinality({t \in cluster'.trades : t.market = m /\ t.slot <= n})
    <3>1. SUFFICES ASSUME n <= todo.slot
                   PROVE  correlator.latest[m] =
                            Cardinality({t \in cluster'.trades : t.market = m /\ t.slot <= n})
      OBVIOUS
    <3>2. n < cluster.slot
      BY <1>3, <2>1, <2>2, <3>1
    <3>3. correlator.latest[m] = BookAt(m, n)
      BY <2>1, <2>3, <3>1 DEF ToSave
    <3> QED BY <1>2, <3>2, <3>3, NamedBookStands
  <2>5. correlator.latest[m] # Unknown
    BY <2>1 DEF ToSave
  <2>6. correlator'.known_at[m] = n /\ correlator'.latest[m] = correlator.latest[m]
          /\ todo'.slot = todo.slot
    BY <1>1, <2>3
  <2> QED BY <2>4, <2>5, <2>6 DEF ToSave, BookAt, Unknown
<1> QED BY <1>6, <1>7, <1>8, <1>9, <1>10 DEF RowsInv

LEMMA ExtendedCover ==
  ASSUME IInv, CoverInv, Extension, ChainInv'
  PROVE  CoverInv'
<1>1. /\ wire' = wire /\ correlator' = correlator /\ pending' = pending /\ store' = store
      /\ stage' = stage /\ todo' = todo /\ since' = since
      /\ cluster.rooted <= cluster'.rooted /\ cluster'.rooted \in Nat
      /\ \A i \in DOMAIN Writes : i \in DOMAIN Writes' /\ Writes'[i] = Writes[i]
      /\ \A i \in DOMAIN Writes' : i \notin DOMAIN Writes =>
           Len(Writes) < i /\ Writes'[i].slot = cluster.slot
  BY DEF Extension, OnlyChain, process
<1>2. ChainInv /\ ProcessTypes /\ PairInv /\ BaseInv /\ RowsInv
  BY IInvParts
<1>3. /\ cluster.slot \in Nat /\ cluster.rooted \in Nat /\ cluster.rooted < cluster.slot
      /\ todo.slot \in Nat
  BY <1>2, ChainFields, ProcessFields, SlotBound
<1>4. /\ pending.flushed_through \in 0 .. cluster.rooted
      /\ since \in 0 .. MaxSlot
      /\ \A t \in pending.by_slot : pending.flushed_through < t.slot
      /\ Up /\ since < MaxSlot => \A m \in Markets : correlator.latest[m] # Unknown
      /\ Up => \A i \in DOMAIN Writes : \A t \in TradesOf(Writes[i]) : Covered(i, t)
  BY DEF CoverInv
<1>5. pending'.flushed_through \in 0 .. cluster'.rooted
  BY <1>1, <1>3, <1>4
<1>6. Up' <=> Up
  BY <1>1 DEF Up
<1>7. Up' /\ since' < MaxSlot => \A m \in Markets : correlator'.latest[m] # Unknown
  BY <1>1, <1>4, <1>6
<1>8. ASSUME Up', NEW i \in DOMAIN Writes', NEW t \in TradesOf(Writes'[i])
      PROVE  Covered(i, t)'
  <2>1. Up /\ stage # "down" /\ HalvesWereRead
    BY <1>2, <1>6, <1>8 DEF Up, PairInv
  <2>2. /\ \A j \in DOMAIN Writes : (Comes(j)' <=> Comes(j)) /\ (Waits(j)' <=> Waits(j))
        /\ \A j \in DOMAIN Writes' : j \notin DOMAIN Writes => Comes(j)'
    BY <2>1, ExtendedDue
  <2>3. CASE i \in DOMAIN Writes
    <3>1. Covered(i, t)
      BY <1>1, <1>4, <1>8, <2>1, <2>3
    <3>2. Latest(i)' = Latest(i)
      BY <1>1, <2>3 DEF Latest
    <3> QED BY <1>1, <2>2, <2>3, <3>1, <3>2 DEF Covered, Settled, Recorded
  <2>4. CASE i \notin DOMAIN Writes
    <3>1. /\ Writes'[i] \in Update /\ Writes'[i].market \in Markets
          /\ Writes'[i].slot \in 1 .. MaxSlot /\ Writes'[i].slot = cluster.slot
          /\ Start(i)' \in Nat /\ Len(Writes) < i /\ i \in Nat
      BY <1>1, <2>4, WriteNumbersNext DEF WriteNumbers
    <3>2. SUFFICES ASSUME since < Writes'[i].slot
                   PROVE  /\ Latest(i)' < t.order
                          /\ ~ (Writes'[i].slot <= pending.flushed_through)
                          /\ ~ (stage = "checkpoint" /\ Writes'[i].slot <= todo.slot)
      BY <1>1, <2>2, <2>4 DEF Covered, Settled
    <3>3. since < MaxSlot
      BY <1>4, <3>1, <3>2, SlotBound
    <3>4. t.order \in Int /\ Start(i)' < t.order
      BY <3>1, TradeOfFields DEF Start
    <3> DEFINE m == Writes'[i].market
    <3>5. correlator.latest[m] \in Nat /\ correlator.latest[m] # Unknown
      BY <1>2, <1>4, <2>1, <3>1, <3>3, MarketNumbers
    <3>6. correlator.latest[m] <= Start(i)'
      <4>1. CASE correlator.latest[m] = 0
        BY <3>1, <4>1
      <4>2. CASE correlator.latest[m] # 0
        <5>1. PICK j \in DOMAIN Writes :
                Writes[j].market = m /\ Writes[j].data = correlator.latest[m]
          <6>1. MarketIsKnown(m)
            BY <1>2, <2>1, <3>1 DEF BaseInv
          <6> HIDE DEF m
          <6> QED BY <3>5, <4>2, <6>1 DEF MarketIsKnown
        <5>2. j \in DOMAIN Writes' /\ Writes'[j] = Writes[j] /\ j < i
          <6>1. j \in Nat /\ j <= Len(Writes) /\ Len(Writes) \in Nat
            BY <1>2, ChainFields, WriteFields
          <6> QED BY <1>1, <3>1, <6>1
        <5>3. Writes'[j].data <= Start(i)'
          BY <5>1, <5>2, WriteOrdersNext DEF WriteOrders, SameMarket
        <5> QED BY <5>1, <5>2, <5>3
      <4> QED BY <4>1, <4>2
    <3>7. Latest(i)' = correlator.latest[m]
      BY <1>1 DEF Latest
    <3>8. Latest(i)' < t.order
      <4> HIDE DEF m
      <4> QED BY <3>1, <3>4, <3>5, <3>6, <3>7
    <3>9. ~ (Writes'[i].slot <= pending.flushed_through)
      BY <1>3, <1>4, <3>1
    <3>10. ~ (stage = "checkpoint" /\ Writes'[i].slot <= todo.slot)
      BY <1>2, <1>3, <3>1 DEF RowsInv
    <3> QED BY <3>8, <3>9, <3>10
  <2> QED BY <2>3, <2>4
<1> QED BY <1>1, <1>4, <1>5, <1>7, <1>8 DEF CoverInv

LEMMA ClusterKeeps ==
  ASSUME IInv, Cluster, DeadSlotsAreEmpty'
  PROVE  IInv' /\ (CoverInv => CoverInv')
<1>1. ChainInv'
  BY IInvParts, ClusterKeepsChain
<1>2. Extension
  BY IInvParts, ClusterExtends
<1>3. ProcessTypes' /\ Fresh'
  BY <1>2, IInvParts, ExtendedTypes DEF Extension
<1>4. WireInv' /\ PairInv' /\ BaseInv' /\ RowsInv'
  BY <1>1, <1>2, ExtendedWire, ExtendedPairs, ExtendedBase, ExtendedRows
<1>5. CoverInv => CoverInv'
  BY <1>1, <1>2, ExtendedCover
<1> QED BY <1>1, <1>3, <1>4, <1>5 DEF IInv

-----------------------------------------------------------------------------
(* The process starts while the chain stands still. *)

LEMMA ChainFrame ==
  ASSUME ChainInv, UNCHANGED <<cluster, sent>>
  PROVE  /\ ChainInv' /\ cluster' = cluster /\ sent' = sent
         /\ Writes' = Writes /\ Runs' = Runs
BY ChainStands DEF Writes, Runs

LEMMA NewCorrelatorIs ==
  /\ IsCorrelator(NewCorrelator)
  /\ NewCorrelator.latest = [m \in Markets |-> Unknown]
  /\ NewCorrelator.known_at = [m \in Markets |-> Unknown]
  /\ NewCorrelator.transactions = {} /\ NewCorrelator.accounts = {}
<1>1. Unknown \in Unknown .. MaxSlot /\ Unknown \in States
  BY SlotBound DEF Unknown, States
<1>2. [m \in Markets |-> Unknown] \in [Markets -> Unknown .. MaxSlot]
        /\ [m \in Markets |-> Unknown] \in [Markets -> States]
  BY <1>1
<1> QED BY <1>2 DEF NewCorrelator, IsCorrelator

LEMMA SeedAtIs ==
  ASSUME NEW ms \in SUBSET Markets, NEW snapshot,
         \A m \in ms : snapshot[m].data \in States /\ snapshot[m].slot \in 0 .. MaxSlot
  PROVE  LET d == SeedAt(ms, snapshot)
         IN  /\ IsCorrelator(d)
             /\ d.latest = [m \in Markets |-> IF m \in ms THEN snapshot[m].data ELSE Unknown]
             /\ d.known_at = [m \in Markets |-> IF m \in ms THEN snapshot[m].slot ELSE Unknown]
             /\ d.transactions = {} /\ d.accounts = {}
             /\ d.transaction_order = <<>> /\ d.account_order = <<>>
<1> DEFINE slots == {snapshot[m].slot : m \in ms}
           tip == CHOOSE s \in slots : \A r \in slots : r <= s
           latest == [m \in Markets |-> IF m \in ms THEN snapshot[m].data ELSE Unknown]
           known_at == [m \in Markets |-> IF m \in ms THEN snapshot[m].slot ELSE Unknown]
           d == SeedAt(ms, snapshot)
<1>1. \A m \in ms : snapshot[m].data \in States /\ snapshot[m].slot \in Unknown .. MaxSlot
  BY SlotBound DEF States, Unknown
<1>2. Unknown \in Unknown .. MaxSlot /\ Unknown \in States
  BY SlotBound DEF Unknown, States
<1>3. latest \in [Markets -> States] /\ known_at \in [Markets -> Unknown .. MaxSlot]
  BY <1>1, <1>2
<1>4. d = [NewCorrelator EXCEPT !.latest = latest, !.known_at = known_at, !.tip = tip]
  BY DEF SeedAt
<1> HIDE DEF latest, known_at, tip
<1>5. d = [latest |-> latest, known_at |-> known_at, transactions |-> {}, accounts |-> {},
           transaction_order |-> <<>>, account_order |-> <<>>, tip |-> tip]
  BY <1>4 DEF NewCorrelator
<1> HIDE DEF d
<1>6. /\ IsCorrelator(d) /\ d.latest = latest /\ d.known_at = known_at
      /\ d.transactions = {} /\ d.accounts = {}
      /\ d.transaction_order = <<>> /\ d.account_order = <<>>
  BY <1>3, <1>5 DEF IsCorrelator
<1> QED BY <1>6 DEF d, latest, known_at

LEMMA ReplayIs ==
  ASSUME NEW slot \in Nat
  PROVE  /\ Replay(slot) \in Wires
         /\ Replay(slot).from = slot /\ Replay(slot).last = slot
         /\ Replay(slot).accounts = 0 /\ Replay(slot).transactions = 0
         /\ Replay(slot).startup = {}
BY DEF Replay, Wires

(* The newest confirmed slot that stands has every write before the open   *)
(* slot behind it.                                                         *)
LEMMA LiveSlotIs ==
  ASSUME ChainInv, DeadSlotsAreEmpty
  PROVE  /\ LiveSlot \in 0 .. MaxSlot /\ LiveSlot \in Nat /\ LiveSlot < cluster.slot
         /\ \A i \in DOMAIN Writes : Writes[i].slot < cluster.slot => Writes[i].slot <= LiveSlot
<1>1. cluster.slot \in 1 .. MaxSlot + 1 /\ cluster.dead \subseteq 1 .. MaxSlot
  BY DEF ChainInv, ChainTypes, Clusters
<1>2. cluster.slot - 1 \in Nat /\ cluster.slot \in Nat /\ cluster.slot <= MaxSlot + 1
  BY <1>1, SlotBound
<1> DEFINE all == 0 .. cluster.slot - 1
           S == {s \in all : s \notin cluster.dead}
<1>3. 0 \in S
  BY <1>1, <1>2
<1>4. PICK g \in S : \A k \in S : k <= g
  <2>1. S \in SUBSET (0 .. cluster.slot - 1) /\ S # {}
    BY <1>3
  <2> HIDE DEF S
  <2> QED BY ONLY <1>2, <2>1, GreatestNat
<1>5. g \in all /\ g \notin cluster.dead /\ \A r \in all : r > g => r \in cluster.dead
  BY <1>4
<1>6. /\ LiveSlot \in all /\ LiveSlot \notin cluster.dead
      /\ \A r \in all : r > LiveSlot => r \in cluster.dead
  BY <1>5 DEF LiveSlot
<1>7. LiveSlot \in 0 .. MaxSlot /\ LiveSlot \in Nat /\ LiveSlot < cluster.slot
  BY <1>2, <1>6, SlotBound
<1>8. ASSUME NEW i \in DOMAIN Writes, Writes[i].slot < cluster.slot
      PROVE  Writes[i].slot <= LiveSlot
  <2>1. Writes[i].slot \in Nat /\ Writes[i].slot \notin cluster.dead
    BY WriteFields DEF DeadSlotsAreEmpty, Writes
  <2>2. Writes[i].slot \in all
    BY <1>2, <1>8, <2>1
  <2>3. ~ (Writes[i].slot > LiveSlot)
    BY <1>6, <2>1, <2>2
  <2> QED BY <1>7, <2>1, <2>3
<1> QED BY <1>7, <1>8

(* A wire that has read nothing. *)
LEMMA WireStarts ==
  ASSUME ChainInv, UNCHANGED <<cluster, sent>>, ProcessTypes',
         wire'.accounts = 0, wire'.transactions = 0,
         1 <= wire'.from, wire'.last = wire'.from, wire'.last <= cluster.slot,
         \A u \in wire'.startup : StartupIsTrue(u)'
  PROVE  WireInv'
<1>1. Writes' = Writes /\ Runs' = Runs /\ ChainInv' /\ cluster' = cluster
  BY ChainFrame
<1>2. DueNumbers' /\ WriteNumbers'
  BY <1>1, DueNumbersNext, WriteNumbersNext
<1>3. \A i \in DueAccounts' : wire'.last <= Writes'[i].slot
  BY <1>2 DEF DueNumbers, Comes
<1>4. \A k \in DueTransactions' : wire'.last <= Runs'[k].slot
  BY <1>2 DEF DueNumbers
<1>5. 0 <= Len(Writes') /\ 0 <= Len(Runs')
  BY <1>2 DEF WriteNumbers
<1>6. wire'.from <= wire'.last
  <2>1. wire'.from \in Nat
    BY DEF ProcessTypes, Wires
  <2> QED BY <2>1
<1> QED BY <1>1, <1>3, <1>4, <1>5, <1>6 DEF WireInv

(* No account half waits, and a transaction that does is not replayed. *)
LEMMA PairsStart ==
  ASSUME ChainInv, UNCHANGED <<cluster, sent>>, ProcessTypes',
         wire'.transactions = 0, correlator'.accounts = {},
         correlator'.transactions \subseteq cluster.landed,
         \A k \in DOMAIN Runs :
           Runs[k].signature \in correlator'.transactions => Runs[k].slot < wire'.from
  PROVE  PairInv'
<1>1. Writes' = Writes /\ Runs' = Runs /\ ChainInv' /\ cluster' = cluster
  BY ChainFrame
<1>2. HalvesWereRead'
  BY DEF HalvesWereRead
<1>3. \A i \in DOMAIN Writes : ~ Waits(i)'
  BY DEF Waits
<1>4. \A k \in DOMAIN Runs : k \in Nat /\ 1 <= k /\ Runs[k].slot \in Nat
  BY RunFields
<1>5. wire'.from \in Nat
  BY DEF ProcessTypes, Wires
<1>6. \A i \in DOMAIN Writes, k \in DOMAIN Runs : WaitingHasToRun(i, k)'
  BY <1>3 DEF WaitingHasToRun
<1>7. \A k \in DOMAIN Runs : WaitingRan(k)'
  BY <1>1, <1>4, <1>5 DEF WaitingRan
<1>8. \A i \in DOMAIN Writes, k \in DOMAIN Runs : RanIsWaiting(i, k)'
  <2>1. \A k \in DOMAIN Runs : ~ (k <= wire'.transactions)
    BY <1>4
  <2> QED BY <2>1 DEF RanIsWaiting
<1>9. \A i, j \in DOMAIN Writes : WaitsInOrder(i, j)'
  BY <1>3 DEF WaitsInOrder
<1> QED BY <1>1, <1>2, <1>6, <1>7, <1>8, <1>9 DEF PairInv

(* A market that is not known, or is known as it was after some slot. *)
SeededAt(m, s) ==
  /\ correlator.known_at[m] = s
  /\ correlator.latest[m] = BookAt(m, s)
  /\ s < cluster.slot
  /\ \A i \in DOMAIN Writes :
       Writes[i].market = m /\ Writes[i].slot < wire.from => Writes[i].slot <= s

Seeded(m) ==
  \/ correlator.known_at[m] = Unknown /\ correlator.latest[m] = Unknown
  \/ \E s \in 0 .. MaxSlot : SeededAt(m, s)

LEMMA BaseStartsHere ==
  ASSUME ChainInv, ProcessTypes, wire.accounts = 0, correlator.accounts = {},
         \A m \in Markets : Seeded(m)
  PROVE  BaseInv
<1>1. \A i \in DOMAIN Writes : ~ Waits(i)
  BY DEF Waits
<1>2. \A i \in DOMAIN Writes : Comes(i) <=> ~ (Writes[i].slot < wire.from)
  <2>1. TAKE i \in DOMAIN Writes
  <2>2. i \in Nat /\ 1 <= i /\ Writes[i].slot \in Nat /\ wire.from \in Nat
    BY WriteFields, WireFields
  <2>3. Comes(i) <=> wire.accounts < i /\ wire.from <= Writes[i].slot
    BY ComesIs
  <2> QED BY <2>2, <2>3
<1>3. cluster.slot \in Nat /\ 1 <= cluster.slot
  BY ChainFields, SlotBound
<1>4. ASSUME NEW m \in Markets PROVE MarketIsKnown(m)
  <2>1. CASE correlator.known_at[m] = Unknown /\ correlator.latest[m] = Unknown
    BY <1>3, <2>1 DEF MarketIsKnown, Unknown
  <2>2. ASSUME NEW s \in 0 .. MaxSlot, SeededAt(m, s) PROVE MarketIsKnown(m)
    <3>1. s \in Nat /\ s \in Int /\ s # Unknown
      BY SlotBound DEF Unknown
    <3>2. BookAt(m, s) \in Nat /\ BookAt(m, s) # Unknown
      <4>1. BookAt(m, s) \in Nat
        BY <3>1, BookFacts
      <4> QED BY <4>1 DEF Unknown
    <3>3. \/ BookAt(m, s) = 0
          \/ \E i \in DOMAIN Writes :
               /\ Writes[i].market = m /\ Writes[i].slot <= s
               /\ Writes[i].data = BookAt(m, s)
      BY <3>1, BookFacts
    <3> QED BY <2>2, <3>1, <3>2, <3>3 DEF SeededAt, MarketIsKnown
  <2> QED BY <2>1, <2>2 DEF Seeded
<1>5. ASSUME NEW i \in DOMAIN Writes PROVE SettledIsKnown(i) /\ StaleIsKnown(i) /\ WaitsBefore(i)
  <2> DEFINE m == Writes[i].market
  <2>1. m \in Markets /\ Writes[i].slot \in Nat
    BY WriteFields
  <2>2. CASE correlator.known_at[m] = Unknown /\ correlator.latest[m] = Unknown
    <3>1. ~ (Writes[i].slot < Unknown)
      BY <2>1 DEF Unknown
    <3> QED BY <1>1, <2>2, <3>1
      DEF SettledIsKnown, StaleIsKnown, WaitsBefore, Latest, KnownAt
  <2>3. ASSUME NEW s \in 0 .. MaxSlot, SeededAt(m, s)
        PROVE  SettledIsKnown(i) /\ StaleIsKnown(i) /\ WaitsBefore(i)
    <3>1. s \in Nat /\ s \in Int /\ s # Unknown
      BY SlotBound DEF Unknown
    <3>2. BookAt(m, s) \in Nat /\ BookAt(m, s) # Unknown
      <4>1. BookAt(m, s) \in Nat
        BY <2>1, <3>1, BookFacts
      <4> QED BY <4>1 DEF Unknown
    <3>3. Writes[i].slot <= s => Writes[i].data <= BookAt(m, s)
      BY <2>1, <3>1, BookFacts
    <3>4. Latest(i) = BookAt(m, s) /\ KnownAt(i) = s
      BY <2>3 DEF SeededAt, Latest, KnownAt
    <3>5. Settled(i) => Writes[i].slot <= s
      BY <1>2, <2>3 DEF SeededAt, Settled
    <3>6. Writes[i].slot < s => Writes[i].slot <= s
      BY <2>1, <3>1
    <3> QED BY <1>1, <3>2, <3>3, <3>4, <3>5, <3>6
      DEF SettledIsKnown, StaleIsKnown, WaitsBefore
  <2>4. Seeded(m)
    BY <2>1
  <2> QED BY <2>2, <2>3, <2>4 DEF Seeded
<1> QED BY <1>4, <1>5 DEF BaseInv

LEMMA BaseStarts ==
  ASSUME ChainInv', ProcessTypes', wire'.accounts = 0, correlator'.accounts = {},
         (\A m \in Markets : Seeded(m))'
  PROVE  BaseInv'
<1>1. (wire.accounts = 0)' /\ (correlator.accounts = {})'
  OBVIOUS
<1> QED BY <1>1, BaseStartsHere, PTL
(* The store and the queue say nothing false while they gain nothing. *)
LEMMA RowsStand ==
  ASSUME ChainInv, RowsInv, UNCHANGED <<cluster, sent, store>>,
         pending'.by_slot \subseteq cluster.trades,
         stage' = "checkpoint" => UNCHANGED <<stage, todo, correlator>>
  PROVE  RowsInv'
<1>1. cluster' = cluster /\ store' = store
  OBVIOUS
<1>2. RootedTrades' = RootedTrades /\ Checkpointed' = Checkpointed
  BY <1>1 DEF RootedTrades, Checkpointed, Unknown
<1>3. \A m \in Checkpointed : CheckpointIsTrue(m)'
  BY <1>1 DEF RowsInv, CheckpointIsTrue, BookAt
<1>4. stage' = "checkpoint" => todo'.slot <= cluster'.rooted
  BY <1>1 DEF RowsInv
<1>5. stage' = "checkpoint" => \A m \in todo'.markets : ToSave(m)'
  BY <1>1 DEF RowsInv, ToSave, BookAt, Unknown
<1> QED BY <1>1, <1>2, <1>3, <1>4, <1>5 DEF RowsInv

LEMMA NewPendingIs ==
  ASSUME NEW slot
  PROVE  /\ PendingType(ResumingFrom(slot)) /\ ResumingFrom(slot).by_slot = {}
         /\ ResumingFrom(slot).flushed_through = slot
         /\ PendingType(NewPending) /\ NewPending.by_slot = {}
         /\ NewPending.flushed_through = 0
BY DEF PendingType, ResumingFrom, NewPending

LEMMA Starts ==
  ASSUME Init
  PROVE  IInv /\ CoverInv
<1>1. ChainInv
  BY ChainStarts
<1>2. /\ cluster.trades = {} /\ cluster.rooted = 0
      /\ wire = Replay(0) /\ correlator = NewCorrelator /\ pending = NewPending
      /\ store = [rows |-> {},
                  checkpoints |-> [m \in Markets |-> [slot |-> Unknown, data |-> Unknown]]]
      /\ stage = "down" /\ todo = [slot |-> 0, markets |-> {}] /\ since = MaxSlot
  BY DEF Init, NoWire
<1>3. store \in Stores
  <2>1. Unknown \in Unknown .. MaxSlot /\ Unknown \in States
    BY SlotBound DEF Unknown, States
  <2>2. [slot |-> Unknown, data |-> Unknown] \in [slot : Unknown .. MaxSlot, data : States]
    BY <2>1
  <2> QED BY <1>2, <2>2 DEF Stores
<1>4. ProcessTypes
  <2>1. wire \in Wires
    BY <1>2, ReplayIs
  <2>2. IsCorrelator(correlator)
    BY <1>2, NewCorrelatorIs
  <2>3. PendingType(pending)
    BY <1>2, NewPendingIs
  <2>4. todo \in [slot : 0 .. MaxSlot, markets : SUBSET Markets]
    BY <1>2, SlotBound
  <2> QED BY <1>2, <1>3, <2>1, <2>2, <2>3, <2>4 DEF ProcessTypes, PendingType
<1>5. Fresh
  BY <1>2 DEF Fresh
<1>6. WireInv /\ PairInv /\ BaseInv
  BY <1>2 DEF WireInv, PairInv, BaseInv, Up
<1>7. RowsInv
  <2>1. Checkpointed = {}
    BY <1>2 DEF Checkpointed
  <2> QED BY <1>2, <2>1, NewPendingIs DEF RowsInv
<1>8. CoverInv
  BY <1>2, NewPendingIs, SlotBound DEF CoverInv, Up
<1> QED BY <1>1, <1>4, <1>5, <1>6, <1>7, <1>8 DEF IInv

LEMMA CrashKeeps ==
  ASSUME IInv, Crash
  PROVE  IInv' /\ (CoverInv => CoverInv')
<1>1. ChainInv /\ ProcessTypes /\ RowsInv
  BY IInvParts
<1>2. /\ UNCHANGED <<cluster, sent, store, since>>
      /\ wire' = Replay(0) /\ correlator' = NewCorrelator /\ pending' = NewPending
      /\ stage' = "down" /\ todo' = [slot |-> 0, markets |-> {}]
  BY DEF Crash, NoWire
<1>3. ChainInv'
  BY <1>1, <1>2, ChainFrame
<1>4. ProcessTypes'
  <2>1. wire' \in Wires
    BY <1>2, ReplayIs
  <2>2. IsCorrelator(correlator')
    BY <1>2, NewCorrelatorIs
  <2>3. PendingType(pending')
    BY <1>2, NewPendingIs
  <2>4. todo' \in [slot : 0 .. MaxSlot, markets : SUBSET Markets]
    BY <1>2, SlotBound
  <2>5. store' \in Stores
    BY <1>1, <1>2 DEF ProcessTypes
  <2> QED BY <1>2, <2>1, <2>2, <2>3, <2>4, <2>5 DEF ProcessTypes, PendingType, IsCorrelator
<1>5. Fresh' 
  BY <1>2 DEF Fresh, NewCorrelator, NewPending, ResumingFrom, Unknown
<1>6. WireInv' /\ PairInv' /\ BaseInv'
  BY <1>2 DEF WireInv, PairInv, BaseInv, Up
<1>7. RowsInv'
  <2>1. pending'.by_slot = {}
    BY <1>2, NewPendingIs
  <2> QED BY <1>1, <1>2, <2>1, RowsStand
<1>8. CoverInv => CoverInv'
  <2>1. pending'.by_slot = {} /\ pending'.flushed_through = 0
    BY <1>2, NewPendingIs
  <2>2. cluster.rooted \in Nat
    BY <1>1, ChainFields, SlotBound
  <2> QED BY <1>2, <2>1, <2>2 DEF CoverInv, Up
<1> QED BY <1>3, <1>4, <1>5, <1>6, <1>7, <1>8 DEF IInv

LEMMA SubscribeKeeps ==
  ASSUME IInv, Subscribe, DeadSlotsAreEmpty
  PROVE  IInv' /\ (CoverInv => CoverInv')
<1>1. ChainInv /\ ProcessTypes /\ Fresh /\ RowsInv
  BY IInvParts
<1>2. /\ UNCHANGED <<cluster, sent, correlator, pending, todo, store, since>>
      /\ stage = "down" /\ stage' = "seed"
  BY DEF Subscribe
<1> DEFINE state(m) == AccountUpdate(LiveSlot, m, BookAt(m, LiveSlot), NoSignature)
<1>3. PICK startup \in {{}} \cup {{state(m)} : m \in Markets} :
        wire' = [Replay(cluster.slot) EXCEPT !.startup = startup]
  BY DEF Subscribe
<1>4. cluster.slot \in Nat /\ 1 <= cluster.slot
  BY <1>1, ChainFields, SlotBound
<1>5. /\ LiveSlot \in 0 .. MaxSlot /\ LiveSlot \in Nat /\ LiveSlot < cluster.slot
      /\ \A i \in DOMAIN Writes : Writes[i].slot < cluster.slot => Writes[i].slot <= LiveSlot
  BY <1>1, LiveSlotIs
<1>6. ASSUME NEW u \in startup
      PROVE  /\ u \in StartupUpdate /\ u.slot = LiveSlot /\ u.market \in Markets
             /\ u.data = BookAt(u.market, LiveSlot)
  <2>1. PICK m \in Markets : u = state(m)
    BY <1>3, <1>6
  <2>2. BookAt(m, LiveSlot) \in Nat
    BY <1>1, <1>5, BookFacts
  <2> QED BY <1>5, <2>1, <2>2 DEF AccountUpdate, StartupUpdate
<1>7. /\ wire' \in Wires /\ wire'.startup = startup
      /\ wire'.from = cluster.slot /\ wire'.last = cluster.slot
      /\ wire'.accounts = 0 /\ wire'.transactions = 0
  <2>1. Replay(cluster.slot) \in Wires
    BY <1>4, ReplayIs
  <2>2. startup \subseteq StartupUpdate
    BY <1>6
  <2> QED BY <1>3, <1>4, <2>1, <2>2, ReplayIs DEF Wires
<1>8. ChainInv' /\ Writes' = Writes /\ cluster' = cluster
  BY <1>1, <1>2, ChainFrame
<1>9. ProcessTypes'
  BY <1>1, <1>2, <1>7 DEF ProcessTypes, IsCorrelator
<1>10. Fresh'
  BY <1>1, <1>2 DEF Fresh, NewCorrelator, NewPending, ResumingFrom, Unknown
<1>11. \A u \in wire'.startup : StartupIsTrue(u)'
  <2>1. TAKE u \in wire'.startup
  <2>2. u.slot = LiveSlot /\ u.market \in Markets /\ u.data = BookAt(u.market, LiveSlot)
    BY <1>6, <1>7
  <2>3. PICK n \in Nat : n = LiveSlot
    BY <1>5
  <2>4. u.slot = n /\ u.data = BookAt(u.market, n) /\ n < cluster.slot
    BY <1>5, <2>2, <2>3
  <2>5. u.data = Cardinality({t \in cluster'.trades : t.market = u.market /\ t.slot <= u.slot})
    BY <1>8, <2>4 DEF BookAt
  <2>6. \A i \in DOMAIN Writes :
          Writes[i].market = u.market /\ Writes[i].slot < cluster.slot => Writes[i].data <= u.data
    <3>1. TAKE i \in DOMAIN Writes
    <3>2. HAVE Writes[i].market = u.market /\ Writes[i].slot < cluster.slot
    <3>3. Writes[i].slot <= n
      BY <1>5, <2>3, <3>2
    <3> QED BY <1>1, <2>2, <2>4, <3>2, <3>3, BookFacts
  <2> QED BY <1>7, <1>8, <2>4, <2>5, <2>6 DEF StartupIsTrue, BookAt
<1>12. WireInv'
  BY <1>1, <1>2, <1>4, <1>7, <1>9, <1>11, WireStarts
<1>13. PairInv' /\ BaseInv'
  BY <1>2 DEF PairInv, BaseInv, Up
<1>14. RowsInv'
  BY <1>1, <1>2, RowsStand DEF RowsInv
<1>15. CoverInv => CoverInv'
  BY <1>2, <1>8 DEF CoverInv, Up
<1> QED BY <1>8, <1>9, <1>10, <1>12, <1>13, <1>14, <1>15 DEF IInv

LEMMA StartColdKeeps ==
  ASSUME IInv, StartCold
  PROVE  IInv' /\ (CoverInv => CoverInv')
<1>1. ChainInv /\ ProcessTypes /\ Fresh /\ WireInv /\ RowsInv
  BY IInvParts
<1>2. /\ UNCHANGED <<cluster, sent, wire, correlator, todo, store>>
      /\ stage = "seed" /\ stage' = "next" /\ pending' = NewPending /\ since' = MaxSlot
  BY DEF StartCold
<1>3. correlator = NewCorrelator /\ wire.accounts = 0 /\ wire.transactions = 0
  BY <1>1, <1>2 DEF Fresh, WireInv
<1>4. ChainInv' /\ Writes' = Writes /\ Runs' = Runs /\ cluster' = cluster
  BY <1>1, <1>2, ChainFrame
<1>5. ProcessTypes'
  <2>1. PendingType(pending')
    BY <1>2, NewPendingIs
  <2> QED BY <1>1, <1>2, <2>1 DEF ProcessTypes, IsCorrelator, PendingType
<1>6. Fresh'
  BY <1>2 DEF Fresh
<1>7. WireInv'
  <2>1. wire' = wire /\ cluster' = cluster /\ sent' = sent
    BY <1>2
  <2>2. DueAccounts' = DueAccounts /\ DueTransactions' = DueTransactions
    BY <2>1 DEF DueAccounts, DueTransactions, Due
  <2>3. \A u \in wire.startup : StartupIsTrue(u) => StartupIsTrue(u)'
    BY <1>4, <2>1 DEF StartupIsTrue, BookAt
  <2> QED BY <1>1, <1>2, <1>4, <2>1, <2>2, <2>3 DEF WireInv
<1>8. /\ correlator'.accounts = {} /\ correlator'.transactions = {}
      /\ correlator'.latest = [m \in Markets |-> Unknown]
      /\ correlator'.known_at = [m \in Markets |-> Unknown]
  BY <1>2, <1>3, NewCorrelatorIs
<1>9. PairInv'
  BY <1>1, <1>2, <1>3, <1>5, <1>8, PairsStart
<1>10. BaseInv'
  <2>1. (\A m \in Markets : Seeded(m))'
    BY <1>8 DEF Seeded, Unknown
  <2> QED BY <1>2, <1>3, <1>4, <1>5, <1>8, <2>1, BaseStarts
<1>11. RowsInv'
  <2>1. pending'.by_slot = {}
    BY <1>2, NewPendingIs
  <2> QED BY <1>1, <1>2, <2>1, RowsStand
<1>12. CoverInv'
  <2>1. pending'.by_slot = {} /\ pending'.flushed_through = 0
    BY <1>2, NewPendingIs
  <2>2. cluster.rooted \in Nat
    BY <1>1, ChainFields, SlotBound
  <2>3. \A i \in DOMAIN Writes : ~ (MaxSlot < Writes[i].slot)
    <3>1. \A i \in DOMAIN Writes : Writes[i].slot \in 1 .. MaxSlot
      BY <1>1, WriteFields
    <3> QED BY <3>1, SlotBound
  <2>4. \A i \in DOMAIN Writes' : \A t \in TradesOf(Writes'[i]) : Covered(i, t)'
    BY <1>2, <1>4, <2>3 DEF Covered
  <2> QED BY <1>2, <2>1, <2>2, <2>4, <1>4, SlotBound DEF CoverInv
<1> QED BY <1>4, <1>5, <1>6, <1>7, <1>9, <1>10, <1>11, <1>12 DEF IInv
(* The newest row of some markets is of a finalized slot. *)
LEMMA HighestSlotIs ==
  ASSUME ChainInv, NEW stored, stored \subseteq RootedTrades, NEW markets
  PROVE  HighestSlot(stored, markets) \in 0 .. cluster.rooted
<1> DEFINE slots == {t.slot : t \in {u \in stored : u.market \in markets}}
<1>1. cluster.rooted \in Nat
  BY ChainFields, SlotBound
<1>2. slots \in SUBSET (0 .. cluster.rooted)
  <2>1. ASSUME NEW t \in stored PROVE t.slot \in 0 .. cluster.rooted
    <3>1. t \in cluster.trades /\ t.slot <= cluster.rooted
      BY DEF RootedTrades
    <3>2. t.slot \in Nat
      BY <3>1, TradeFields
    <3> QED BY <1>1, <3>1, <3>2
  <2> QED BY <2>1
<1>3. CASE slots = {}
  BY <1>1, <1>3 DEF HighestSlot
<1>4. CASE slots # {}
  <2>1. HighestSlot(stored, markets) = CHOOSE s \in slots : \A r \in slots : r <= s
    BY <1>4 DEF HighestSlot
  <2> HIDE DEF slots
  <2>2. \E g \in slots : \A k \in slots : k <= g
    BY ONLY <1>1, <1>2, <1>4, GreatestNat
  <2>3. HighestSlot(stored, markets) \in slots
    BY <2>1, <2>2
  <2> QED BY <1>2, <2>3
<1> QED BY <1>3, <1>4

(* A write starts from the book as it was before its slot, or later. *)
LEMMA BookBefore ==
  ASSUME ChainInv, NEW i \in DOMAIN Writes, NEW n \in Nat, n < Writes[i].slot
  PROVE  /\ BookAt(Writes[i].market, n) \in Nat
         /\ BookAt(Writes[i].market, n) <= Start(i)
<1> DEFINE m == Writes[i].market
<1>1. Writes[i].slot \in Nat /\ m \in Markets /\ Start(i) \in Nat /\ i \in Nat
  BY WriteFields
<1>2. /\ BookAt(m, n) \in Nat
      /\ \/ BookAt(m, n) = 0
         \/ \E j \in DOMAIN Writes :
              /\ Writes[j].market = m /\ Writes[j].slot <= n
              /\ Writes[j].data = BookAt(m, n)
  <2>1. m \in Markets /\ n \in Int
    BY <1>1
  <2> HIDE DEF m
  <2> QED BY <2>1, BookFacts
<1>3. CASE BookAt(m, n) = 0
  BY <1>1, <1>3
<1>4. ASSUME NEW j \in DOMAIN Writes, Writes[j].market = m, Writes[j].slot <= n,
             Writes[j].data = BookAt(m, n)
      PROVE  BookAt(m, n) <= Start(i)
  <2>1. j \in Nat /\ Writes[j].slot \in Nat
    BY WriteFields
  <2>2. i < j => Writes[i].slot <= Writes[j].slot
    BY WriteOrder
  <2>3. i # j /\ ~ (i < j)
    BY <1>1, <1>4, <2>1, <2>2
  <2>4. j < i
    BY <1>1, <2>1, <2>3
  <2> QED BY <1>4, <2>4, WriteOrder
<1> QED BY <1>2, <1>3, <1>4

LEMMA SeedFromRpcKeeps ==
  ASSUME IInv, SeedFromRpc, DeadSlotsAreEmpty
  PROVE  IInv' /\ (CoverInv => CoverInv')
<1>1. ChainInv /\ ProcessTypes /\ Fresh /\ WireInv /\ RowsInv
  BY IInvParts
<1> DEFINE snapshot == [m \in Markets |-> [data |-> BookAt(m, LiveSlot), slot |-> LiveSlot]]
<1>2. /\ UNCHANGED <<cluster, sent, wire, todo, store>>
      /\ stage = "seed" /\ stage' = "next" /\ since' = LiveSlot
      /\ correlator' = SeedAt(Markets, snapshot)
      /\ pending' = ResumingFrom(HighestSlot(store.rows, Markets))
  BY DEF SeedFromRpc, Resuming
<1>3. /\ LiveSlot \in 0 .. MaxSlot /\ LiveSlot \in Nat /\ LiveSlot < cluster.slot
      /\ \A i \in DOMAIN Writes : Writes[i].slot < cluster.slot => Writes[i].slot <= LiveSlot
  BY <1>1, LiveSlotIs
<1>4. PICK n \in Nat : n = LiveSlot
  BY <1>3
<1>5. \A m \in Markets : snapshot[m].data = BookAt(m, n) /\ snapshot[m].slot = n
  BY <1>4
<1>6. \A m \in Markets : snapshot[m].data \in Nat /\ snapshot[m].slot \in 0 .. MaxSlot
  BY <1>1, <1>3, <1>4, <1>5, BookFacts
<1> HIDE DEF snapshot
<1>7. /\ IsCorrelator(correlator')
      /\ \A m \in Markets : correlator'.latest[m] = BookAt(m, n) /\ correlator'.known_at[m] = n
      /\ correlator'.transactions = {} /\ correlator'.accounts = {}
  <2> DEFINE d == SeedAt(Markets, snapshot)
  <2>1. /\ IsCorrelator(d)
        /\ d.latest = [m \in Markets |-> IF m \in Markets THEN snapshot[m].data ELSE Unknown]
        /\ d.known_at = [m \in Markets |-> IF m \in Markets THEN snapshot[m].slot ELSE Unknown]
        /\ d.transactions = {} /\ d.accounts = {}
        /\ d.transaction_order = <<>> /\ d.account_order = <<>>
    <3>1. Markets \in SUBSET Markets
      OBVIOUS
    <3>2. \A m \in Markets : snapshot[m].data \in States /\ snapshot[m].slot \in 0 .. MaxSlot
      BY <1>6 DEF States
    <3> HIDE DEF d
    <3> QED BY ONLY <3>1, <3>2, SeedAtIs DEF d
  <2>2. \A m \in Markets : d.latest[m] = BookAt(m, n) /\ d.known_at[m] = n
    <3> HIDE DEF d
    <3> QED BY <1>5, <2>1
  <2>3. correlator' = d
    BY <1>2
  <2> HIDE DEF d
  <2> QED BY <2>1, <2>2, <2>3
<1>8. ChainInv' /\ Writes' = Writes /\ Runs' = Runs /\ cluster' = cluster
  BY <1>1, <1>2, ChainFrame
<1>9. /\ PendingType(pending') /\ pending'.by_slot = {}
      /\ pending'.flushed_through \in 0 .. cluster.rooted
  <2>1. HighestSlot(store.rows, Markets) \in 0 .. cluster.rooted
    BY <1>1, HighestSlotIs DEF RowsInv
  <2> QED BY <1>2, <2>1, NewPendingIs
<1>10. ProcessTypes'
  BY <1>1, <1>2, <1>7, <1>9 DEF ProcessTypes, PendingType
<1>11. Fresh'
  BY <1>2 DEF Fresh
<1>12. /\ wire.accounts = 0 /\ wire.transactions = 0
       /\ wire.from \in Nat /\ wire.from <= cluster.slot /\ cluster.slot \in Nat
  <2>1. wire.accounts = 0 /\ wire.transactions = 0 /\ wire.from <= wire.last
          /\ wire.last <= cluster.slot
    BY <1>1, <1>2 DEF WireInv
  <2>2. wire.from \in Nat /\ wire.last \in Nat /\ cluster.slot \in Nat
    BY <1>1, WireFields, ChainFields, SlotBound
  <2> QED BY <2>1, <2>2
<1>13. WireInv'
  <2>1. wire' = wire /\ cluster' = cluster /\ sent' = sent
    BY <1>2
  <2>2. DueAccounts' = DueAccounts /\ DueTransactions' = DueTransactions
    BY <2>1 DEF DueAccounts, DueTransactions, Due
  <2>3. \A u \in wire.startup : StartupIsTrue(u) => StartupIsTrue(u)'
    BY <1>8, <2>1 DEF StartupIsTrue, BookAt
  <2> QED BY <1>1, <1>2, <1>8, <2>1, <2>2, <2>3 DEF WireInv
<1>14. PairInv'
  BY <1>1, <1>2, <1>7, <1>10, <1>12, PairsStart
<1>15. \A i \in DOMAIN Writes : Writes[i].slot < wire.from => Writes[i].slot <= n
  <2>1. TAKE i \in DOMAIN Writes
  <2>2. Writes[i].slot \in Nat
    BY <1>1, WriteFields
  <2> QED BY <1>3, <1>4, <1>12, <2>2
<1>16. BaseInv'
  <2>1. ASSUME NEW m \in Markets
        PROVE  /\ correlator'.known_at[m] = n
               /\ correlator'.latest[m] = BookAt(m, n)'
               /\ n < cluster'.slot
               /\ \A i \in DOMAIN Writes' :
                    Writes'[i].market = m /\ Writes'[i].slot < wire'.from =>
                      Writes'[i].slot <= n
    BY <1>2, <1>3, <1>4, <1>7, <1>8, <1>15 DEF BookAt
  <2>2. n \in 0 .. MaxSlot
    BY <1>3, <1>4
  <2>3. (\A m \in Markets : Seeded(m))'
    BY <2>1, <2>2 DEF Seeded, SeededAt
  <2>4. wire'.accounts = 0
    BY <1>2, <1>12
  <2> QED BY <1>7, <1>8, <1>10, <2>3, <2>4, BaseStarts
<1>17. RowsInv'
  BY <1>1, <1>2, <1>9, RowsStand
<1>18. CoverInv'
  <2>1. \A m \in Markets : correlator'.latest[m] # Unknown
    <3>1. \A m \in Markets : BookAt(m, n) \in Nat
      BY <1>1, BookFacts
    <3> QED BY <1>7, <3>1 DEF Unknown
  <2>2. ASSUME NEW i \in DOMAIN Writes, NEW t \in TradesOf(Writes[i]), n < Writes[i].slot
        PROVE  /\ ~ Settled(i)'
               /\ Latest(i)' < t.order
               /\ ~ (Writes[i].slot <= pending'.flushed_through)
    <3>1. /\ Writes[i] \in Update /\ Writes[i].slot \in Nat /\ Writes[i].slot <= cluster.slot
          /\ Writes[i].market \in Markets /\ Start(i) \in Nat /\ i \in Nat /\ 1 <= i
      BY <1>1, WriteFields
    <3>2. Writes[i].slot = cluster.slot
      BY <1>3, <1>4, <1>12, <2>2, <3>1
    <3>3. Comes(i)'
      <4>1. DueNumbers'
        BY <1>8, <1>10, DueNumbersNext
      <4>2. wire'.accounts < i /\ wire'.from <= Writes'[i].slot
        BY <1>2, <1>8, <1>12, <3>1, <3>2
      <4> QED BY <1>8, <4>1, <4>2 DEF DueNumbers
    <3>4. t.order \in Int /\ Start(i) < t.order
      BY <3>1, TradeOfFields DEF Start
    <3> DEFINE m == Writes[i].market
    <3>5. BookAt(m, n) \in Nat /\ BookAt(m, n) <= Start(i)
      BY <1>1, <2>2, <3>1, BookBefore
    <3>6. Latest(i)' = BookAt(m, n)
      BY <1>7, <1>8, <3>1 DEF Latest
    <3>7. Latest(i)' < t.order
      <4> HIDE DEF m
      <4> QED BY <3>1, <3>4, <3>5, <3>6
    <3>8. ~ (Writes[i].slot <= pending'.flushed_through)
      <4>1. cluster.rooted \in Nat /\ cluster.rooted < cluster.slot
        BY <1>1, ChainFields, SlotBound
      <4> QED BY <1>9, <1>12, <3>2, <4>1
    <3> QED BY <3>3, <3>7, <3>8 DEF Settled
  <2>3. \A i \in DOMAIN Writes' : \A t \in TradesOf(Writes'[i]) : Covered(i, t)'
    BY <1>2, <1>4, <1>8, <2>2 DEF Covered
  <2>4. since' \in 0 .. MaxSlot
    BY <1>2, <1>3
  <2> QED BY <1>2, <1>8, <1>9, <2>1, <2>3, <2>4 DEF CoverInv
<1> QED BY <1>8, <1>10, <1>11, <1>13, <1>14, <1>16, <1>17, <1>18 DEF IInv
LEMMA CheckpointFields ==
  ASSUME IInv, NEW m \in Checkpointed
  PROVE  /\ m \in Markets
         /\ store.checkpoints[m].slot \in 0 .. MaxSlot
         /\ store.checkpoints[m].slot \in Nat
         /\ store.checkpoints[m].slot < cluster.slot
         /\ store.checkpoints[m].data = BookAt(m, store.checkpoints[m].slot)
         /\ store.checkpoints[m].data \in Nat
<1>1. ChainInv /\ ProcessTypes /\ RowsInv
  BY IInvParts
<1>2. m \in Markets /\ store.checkpoints[m].slot # Unknown
  BY DEF Checkpointed
<1>3. store.checkpoints[m] \in [slot : Unknown .. MaxSlot, data : States]
  BY <1>1, <1>2, ProcessFields
<1>4. store.checkpoints[m].slot \in Unknown .. MaxSlot
  BY <1>3
<1>5. store.checkpoints[m].slot \in 0 .. MaxSlot /\ store.checkpoints[m].slot \in Nat
  BY <1>2, <1>4, SlotBound DEF Unknown
<1>6. CheckpointIsTrue(m)
  BY <1>1 DEF RowsInv
<1>7. BookAt(m, store.checkpoints[m].slot) \in Nat
  BY <1>1, <1>2, <1>5, BookFacts
<1> QED BY <1>2, <1>5, <1>6, <1>7 DEF CheckpointIsTrue

LEMMA OldestIs ==
  ASSUME IInv, Checkpointed # {}
  PROVE  /\ OldestCheckpoint \in Nat /\ OldestCheckpoint < cluster.slot
         /\ \A m \in Checkpointed : OldestCheckpoint <= store.checkpoints[m].slot
<1> DEFINE slots == {store.checkpoints[m].slot : m \in Checkpointed}
<1>1. slots \in SUBSET Nat /\ slots # {}
  BY CheckpointFields
<1>2. OldestCheckpoint = CHOOSE s \in slots : \A r \in slots : s <= r
  BY DEF OldestCheckpoint
<1>3. \A s \in slots : s < cluster.slot
  BY CheckpointFields
<1>4. \A m \in Checkpointed : store.checkpoints[m].slot \in slots
  OBVIOUS
<1> HIDE DEF slots
<1>5. \E s \in slots : \A r \in slots : s <= r
  BY ONLY <1>1, LeastNat
<1>6. OldestCheckpoint \in slots /\ \A r \in slots : OldestCheckpoint <= r
  BY <1>2, <1>5
<1> QED BY <1>1, <1>3, <1>4, <1>6

LEMMA ResumeKeeps ==
  ASSUME IInv, Resume
  PROVE  IInv'
<1>1. ChainInv /\ ProcessTypes /\ RowsInv
  BY IInvParts
<1>2. /\ UNCHANGED <<cluster, sent, todo, store>>
      /\ Checkpointed # {} /\ stage' = "next"
      /\ correlator' = SeedAt(Checkpointed, store.checkpoints)
      /\ pending' = ResumingFrom(HighestSlot(store.rows, Checkpointed))
      /\ wire' = Replay(OldestCheckpoint + 1)
  BY DEF Resume, Resuming, RestoredCorrelator
<1>3. ChainInv' /\ Writes' = Writes /\ Runs' = Runs /\ cluster' = cluster
  BY <1>1, <1>2, ChainFrame
<1>4. PICK oldest \in Nat : oldest = OldestCheckpoint
  BY <1>2, OldestIs
<1>5. oldest < cluster.slot /\ \A m \in Checkpointed : oldest <= store.checkpoints[m].slot
  BY <1>2, <1>4, OldestIs
<1>6. /\ wire' \in Wires /\ wire'.startup = {} /\ wire'.accounts = 0 /\ wire'.transactions = 0
      /\ wire'.from = oldest + 1 /\ wire'.last = oldest + 1 /\ 1 <= oldest + 1
      /\ oldest + 1 <= cluster.slot
  <2>1. oldest + 1 \in Nat /\ wire' = Replay(oldest + 1) /\ cluster.slot \in Nat
    BY <1>1, <1>2, <1>4, ChainFields, SlotBound
  <2>2. 1 <= oldest + 1 /\ oldest + 1 <= cluster.slot
    BY <1>5, <2>1
  <2> QED BY <2>1, <2>2, ReplayIs
<1>7. /\ IsCorrelator(correlator')
      /\ \A m \in Markets : m \in Checkpointed =>
           /\ correlator'.latest[m] = store.checkpoints[m].data
           /\ correlator'.known_at[m] = store.checkpoints[m].slot
      /\ \A m \in Markets : m \notin Checkpointed =>
           correlator'.latest[m] = Unknown /\ correlator'.known_at[m] = Unknown
      /\ correlator'.transactions = {} /\ correlator'.accounts = {}
  <2> DEFINE snapshot == store.checkpoints
             ms == Checkpointed
             d == SeedAt(ms, snapshot)
  <2>1. ms \in SUBSET Markets
    BY DEF Checkpointed
  <2>2. \A m \in ms : snapshot[m].data \in Nat /\ snapshot[m].slot \in 0 .. MaxSlot
    BY CheckpointFields
  <2>3. correlator' = d
    BY <1>2
  <2> HIDE DEF snapshot, ms
  <2>4. /\ IsCorrelator(d)
        /\ d.latest = [m \in Markets |-> IF m \in ms THEN snapshot[m].data ELSE Unknown]
        /\ d.known_at = [m \in Markets |-> IF m \in ms THEN snapshot[m].slot ELSE Unknown]
        /\ d.transactions = {} /\ d.accounts = {}
        /\ d.transaction_order = <<>> /\ d.account_order = <<>>
    <3>1. \A m \in ms : snapshot[m].data \in States /\ snapshot[m].slot \in 0 .. MaxSlot
      BY <2>2 DEF States
    <3> HIDE DEF d
    <3> QED BY ONLY <2>1, <3>1, SeedAtIs DEF d
  <2> HIDE DEF d
  <2> QED BY <2>3, <2>4 DEF snapshot, ms
<1>8. PendingType(pending') /\ pending'.by_slot = {}
  BY <1>2, NewPendingIs
<1>9. ProcessTypes'
  BY <1>1, <1>2, <1>6, <1>7, <1>8 DEF ProcessTypes, PendingType
<1>10. Fresh'
  BY <1>2 DEF Fresh
<1>11. WireInv'
  BY <1>1, <1>2, <1>6, <1>9, WireStarts
<1>12. PairInv'
  BY <1>1, <1>2, <1>6, <1>7, <1>9, PairsStart
<1>13. BaseInv'
  <2>1. ASSUME NEW m \in Markets, m \in Checkpointed
        PROVE  \E s \in 0 .. MaxSlot :
                 /\ correlator'.known_at[m] = s
                 /\ correlator'.latest[m]
                      = Cardinality({t \in cluster'.trades : t.market = m /\ t.slot <= s})
                 /\ s < cluster'.slot
                 /\ \A i \in DOMAIN Writes' :
                      Writes'[i].market = m /\ Writes'[i].slot < wire'.from =>
                        Writes'[i].slot <= s
    <3>1. PICK s \in Nat : s = store.checkpoints[m].slot
      BY <2>1, CheckpointFields
    <3>2. s \in 0 .. MaxSlot /\ s < cluster.slot /\ store.checkpoints[m].data = BookAt(m, s)
      BY <2>1, <3>1, CheckpointFields
    <3>3. \A i \in DOMAIN Writes : Writes[i].slot < wire'.from => Writes[i].slot <= s
      <4>1. TAKE i \in DOMAIN Writes
      <4>2. Writes[i].slot \in Nat /\ oldest <= s
        BY <1>1, <1>5, <2>1, <3>1, WriteFields
      <4> QED BY <1>6, <4>2
    <3>4. store.checkpoints[m].data
            = Cardinality({t \in cluster.trades : t.market = m /\ t.slot <= s})
      BY <3>2 DEF BookAt
    <3>5. correlator'.latest[m] = store.checkpoints[m].data /\ correlator'.known_at[m] = s
      BY <1>7, <2>1, <3>1
    <3> QED BY <1>3, <3>2, <3>3, <3>4, <3>5
  <2>2. (\A m \in Markets : Seeded(m))'
    <3>1. ASSUME NEW m \in Markets PROVE Seeded(m)'
      <4>1. CASE m \in Checkpointed
        BY <2>1, <4>1 DEF Seeded, SeededAt, BookAt
      <4>2. CASE m \notin Checkpointed
        BY <1>7, <4>2 DEF Seeded, Unknown
      <4> QED BY <4>1, <4>2
    <3> QED BY <3>1
  <2> QED BY <1>3, <1>6, <1>7, <1>9, <2>2, BaseStarts
<1>14. RowsInv'
  BY <1>1, <1>2, <1>8, RowsStand
<1> QED BY <1>3, <1>9, <1>10, <1>11, <1>12, <1>13, <1>14 DEF IInv

(* Nothing waits while the client reconnects. *)
LEMMA NoHalfReplayed ==
  ASSUME IInv, Up, NothingReplayedWaits
  PROVE  /\ correlator.accounts = {}
         /\ \A k \in DOMAIN Runs :
              Runs[k].signature \in correlator.transactions => Runs[k].slot < wire.last
<1>1. ChainInv /\ ProcessTypes /\ WireInv /\ PairInv /\ stage # "down"
  BY IInvParts DEF Up
<1>2. SUFFICES ASSUME NEW half \in correlator.accounts PROVE FALSE
  BY DEF NothingReplayedWaits, Runs
<1>3. PICK i \in DOMAIN Writes : i <= wire.accounts /\ half = Writes[i] /\ wire.from <= half.slot
  BY <1>1 DEF PairInv, HalvesWereRead
<1>4. Waits(i)
  BY <1>3 DEF Waits
<1>5. PICK k \in DOMAIN Runs : IsRunOf(k, i)
  BY <1>1, WriteHasRun
<1>6. wire.transactions < k
  BY <1>1, <1>4, <1>5 DEF PairInv, WaitingHasToRun
<1>7. Runs[k].slot = half.slot
  BY <1>3, <1>5 DEF IsRunOf
<1>8. wire.last <= half.slot
  BY <1>1, <1>3, <1>6, <1>7, WillRunIs DEF WireInv
<1>9. half.slot < wire.last
  BY DEF NothingReplayedWaits
<1>10. half.slot \in Nat /\ wire.last \in Nat
  BY <1>1, <1>3, WriteFields, WireFields
<1> QED BY <1>8, <1>9, <1>10

LEMMA ReconnectKeeps ==
  ASSUME IInv, Reconnect, NothingReplayedWaits
  PROVE  IInv' /\ (CoverInv => CoverInv')
<1>1. ChainInv /\ ProcessTypes /\ WireInv /\ PairInv /\ BaseInv /\ RowsInv
  BY IInvParts
<1>2. /\ cluster' = cluster /\ sent' = sent /\ correlator' = correlator /\ pending' = pending
      /\ stage' = stage /\ todo' = todo /\ store' = store /\ since' = since
      /\ Up /\ stage # "down" /\ wire' = Replay(wire.last)
  BY DEF Reconnect, process, Up
<1>3. ChainInv' /\ Writes' = Writes /\ Runs' = Runs
  BY <1>1, <1>2, ChainFrame
<1>4. /\ correlator.accounts = {}
      /\ \A k \in DOMAIN Runs :
           Runs[k].signature \in correlator.transactions => Runs[k].slot < wire.last
  BY <1>2, NoHalfReplayed
<1>5. /\ wire.last \in Nat /\ 1 <= wire.last /\ wire.last <= cluster.slot
  <2>1. 1 <= wire.from /\ wire.from <= wire.last /\ wire.last <= cluster.slot
    BY <1>1, <1>2 DEF WireInv
  <2>2. wire.from \in Nat /\ wire.last \in Nat
    BY <1>1, WireFields
  <2> QED BY <2>1, <2>2
<1>6. /\ wire' \in Wires /\ wire'.startup = {} /\ wire'.accounts = 0 /\ wire'.transactions = 0
      /\ wire'.from = wire.last /\ wire'.last = wire.last
  BY <1>2, <1>5, ReplayIs
<1>7. ProcessTypes'
  BY <1>1, <1>2, <1>6 DEF ProcessTypes, IsCorrelator
<1>8. Fresh'
  BY <1>2 DEF Fresh, Up
<1>9. WireInv'
  BY <1>1, <1>2, <1>5, <1>6, <1>7, WireStarts
<1>10. PairInv'
  BY <1>1, <1>2, <1>4, <1>6, <1>7, PairsStart DEF PairInv
<1>11. /\ \A i \in DOMAIN Writes : ~ Waits(i) /\ ~ Waits(i)'
       /\ \A i \in DOMAIN Writes : Comes(i) => wire.last <= Writes[i].slot
       /\ \A i \in DOMAIN Writes : Comes(i)' <=> wire.last <= Writes[i].slot
  <2>1. \A i \in DOMAIN Writes : ~ Waits(i) /\ ~ Waits(i)'
    BY <1>2, <1>4 DEF Waits
  <2>2. \A i \in DOMAIN Writes : Comes(i) => wire.last <= Writes[i].slot
    BY <1>1, <1>2 DEF WireInv, Comes
  <2>3. \A i \in DOMAIN Writes : Comes(i)' <=> wire.last <= Writes[i].slot
    <3>1. DueNumbers'
      BY <1>3, <1>7, DueNumbersNext
    <3>2. \A i \in DOMAIN Writes : wire'.accounts < i
      <4>1. \A i \in DOMAIN Writes : i \in Nat /\ 1 <= i
        BY <1>1, WriteFields
      <4> QED BY <1>6, <4>1
    <3> QED BY <1>3, <1>6, <3>1, <3>2 DEF DueNumbers
  <2> QED BY <2>1, <2>2, <2>3
<1>12. /\ \A m \in Markets : MarketIsKnown(m)
       /\ \A i \in DOMAIN Writes : SettledIsKnown(i) /\ StaleIsKnown(i) /\ WaitsBefore(i)
  BY <1>1, <1>2 DEF BaseInv
<1>13. BaseInv'
  <2>1. ASSUME NEW m \in Markets PROVE MarketIsKnown(m)'
    <3>1. MarketIsKnown(m)
      BY <1>12
    <3> QED BY <1>2, <1>3, <1>11, <3>1 DEF MarketIsKnown, Unknown
  <2>2. ASSUME NEW i \in DOMAIN Writes
        PROVE  (SettledIsKnown(i) /\ StaleIsKnown(i) /\ WaitsBefore(i))'
    <3>1. Latest(i)' = Latest(i) /\ KnownAt(i)' = KnownAt(i)
      BY <1>2, <1>3 DEF Latest, KnownAt
    <3>2. SettledIsKnown(i)'
      BY <1>3, <1>11, <1>12, <2>2, <3>1 DEF SettledIsKnown, Settled, Unknown
    <3>3. WaitsBefore(i)'
      BY <1>11, <2>2 DEF WaitsBefore
    <3>4. ASSUME Writes[i].slot < KnownAt(i)
          PROVE  Latest(i) # Unknown /\ Writes[i].data <= Latest(i)
      <4>1. CASE Comes(i)
        BY <1>12, <2>2, <3>4, <4>1 DEF StaleIsKnown
      <4>2. CASE ~ Comes(i)
        <5>1. Settled(i)
          BY <1>11, <2>2, <4>2 DEF Settled
        <5>2. Writes[i].market \in Markets /\ Writes[i].slot \in Nat
          BY <1>1, <2>2, WriteFields
        <5>3. KnownAt(i) # Unknown
          BY <3>4, <5>2 DEF Unknown
        <5>4. Latest(i) # Unknown
          BY <1>11, <1>12, <5>2, <5>3 DEF MarketIsKnown, Latest, KnownAt
        <5> QED BY <1>12, <2>2, <5>1, <5>4 DEF SettledIsKnown
      <4> QED BY <4>1, <4>2
    <3>5. StaleIsKnown(i)'
      BY <1>3, <1>11, <3>1, <3>4 DEF StaleIsKnown, Unknown
    <3> QED BY <3>2, <3>3, <3>5
  <2> QED BY <1>3, <2>1, <2>2 DEF BaseInv
<1>14. RowsInv'
  BY <1>1, <1>2, RowsStand DEF RowsInv
<1>15. CoverInv => CoverInv'
  <2>1. SUFFICES ASSUME CoverInv PROVE CoverInv'
    OBVIOUS
  <2>2. /\ pending.flushed_through \in 0 .. cluster.rooted
        /\ since \in 0 .. MaxSlot
        /\ \A t \in pending.by_slot : pending.flushed_through < t.slot
        /\ since < MaxSlot => \A m \in Markets : correlator.latest[m] # Unknown
        /\ \A i \in DOMAIN Writes : \A t \in TradesOf(Writes[i]) : Covered(i, t)
    BY <1>2, <2>1 DEF CoverInv
  <2>3. ASSUME NEW i \in DOMAIN Writes, NEW t \in TradesOf(Writes[i]) PROVE Covered(i, t)'
    <3>1. Covered(i, t)
      BY <2>2, <2>3
    <3>2. t.slot = Writes[i].slot /\ Writes[i].slot \in Nat
      BY <1>1, <2>3, WriteFields, TradeOfFields
    <3>3. Settled(i)' => Settled(i)
      BY <1>11, <2>3 DEF Settled
    <3>4. Latest(i)' = Latest(i)
      BY <1>2, <1>3 DEF Latest
    <3>5. Recorded(t) /\ Writes[i].slot <= pending.flushed_through => t \in store.rows
      <4>1. SUFFICES ASSUME t \in pending.by_slot, Writes[i].slot <= pending.flushed_through
                     PROVE  FALSE
        BY DEF Recorded
      <4>2. pending.flushed_through < t.slot /\ pending.flushed_through \in Int
        BY <2>2, <4>1
      <4> QED BY <3>2, <4>1, <4>2
    <3>6. Recorded(t)' <=> Recorded(t)
      BY <1>2 DEF Recorded
    <3> QED BY <1>2, <1>3, <3>1, <3>3, <3>4, <3>5, <3>6 DEF Covered
  <2> QED BY <1>2, <1>3, <2>2, <2>3 DEF CoverInv
<1> QED BY <1>3, <1>7, <1>8, <1>9, <1>10, <1>13, <1>14, <1>15 DEF IInv
-----------------------------------------------------------------------------
(* Content is read in the order in which it was sent. *)

LEMMA DueNumbersOf ==
  ASSUME ChainInv, wire \in Wires
  PROVE  DueNumbers
<1>1. /\ wire.from \in Nat /\ wire.accounts \in Nat /\ wire.transactions \in Nat
  BY DEF Wires
<1>2. WriteNumbers
  BY WriteNumbersHold
<1>3. ASSUME NEW i PROVE i \in DueAccounts <=>
                             /\ i \in wire.accounts + 1 .. Len(Writes)
                             /\ Writes[i].slot >= wire.from
  BY DEF DueAccounts, Due, Writes
<1>4. ASSUME NEW k PROVE k \in DueTransactions <=>
                             /\ k \in wire.transactions + 1 .. Len(Runs)
                             /\ Runs[k].slot >= wire.from
  BY DEF DueTransactions, Due, Runs
<1>5. DueAccounts \subseteq DOMAIN Writes
  BY <1>1, <1>2, <1>3 DEF WriteNumbers
<1>6. DueTransactions \subseteq DOMAIN Runs
  BY <1>1, <1>2, <1>4 DEF WriteNumbers
<1>7. \A i \in DOMAIN Writes : Comes(i) <=> wire.accounts < i /\ wire.from <= Writes[i].slot
  <2>1. TAKE i \in DOMAIN Writes
  <2>2. i \in Nat /\ i <= Len(Writes) /\ Len(Writes) \in Nat /\ Writes[i].slot \in Nat
    BY <1>2 DEF WriteNumbers
  <2>3. Comes(i) <=> i \in wire.accounts + 1 .. Len(Writes) /\ Writes[i].slot >= wire.from
    BY <1>3 DEF Comes
  <2> QED BY ONLY <1>1, <2>2, <2>3
<1>8. \A k \in DOMAIN Runs :
        k \in DueTransactions <=> wire.transactions < k /\ wire.from <= Runs[k].slot
  <2>1. TAKE k \in DOMAIN Runs
  <2>2. k \in Nat /\ k <= Len(Runs) /\ Len(Runs) \in Nat /\ Runs[k].slot \in Nat
    BY <1>2 DEF WriteNumbers
  <2>3. k \in DueTransactions <=>
          k \in wire.transactions + 1 .. Len(Runs) /\ Runs[k].slot >= wire.from
    BY <1>4
  <2> QED BY ONLY <1>1, <2>2, <2>3
<1> QED BY <1>5, <1>6, <1>7, <1>8 DEF DueNumbers

LEMMA DueNumbersThen ==
  ASSUME ChainInv', wire' \in Wires
  PROVE  DueNumbers'
<1>1. (wire \in Wires)'
  BY DEF Wires, StartupUpdate
<1> QED BY <1>1, DueNumbersOf, PTL

(* What reading a half leaves alone. *)
Reading ==
  /\ stage = "next"
  /\ UNCHANGED <<cluster, sent, stage, todo, store, since>>
  /\ wire' \in Wires
  /\ wire'.from = wire.from

AccountRead(i) ==
  /\ Reading
  /\ Comes(i)
  /\ Writes[i].slot < cluster.slot
  /\ wire'.accounts = i /\ wire'.transactions = wire.transactions
  /\ \A j \in DOMAIN Writes : Comes(j) => i <= j
  /\ \A j \in DOMAIN Writes : Comes(j)' <=> Comes(j) /\ j # i

LEMMA AccountIsRead ==
  ASSUME IInv, ReceiveAccount
  PROVE  /\ WireInv'
         /\ \E i \in DOMAIN Writes :
              AccountRead(i) /\ Handle(AcceptAccount(correlator, Writes[i]))
<1>1. ChainInv /\ ProcessTypes /\ WireInv /\ wire \in Wires
  BY IInvParts DEF ProcessTypes
<1>2. PICK i \in DueAccounts :
        /\ wire.startup = {}
        /\ IsNext(i, DueAccounts)
        /\ Delivers(Writes[i].slot)
        /\ wire' = [wire EXCEPT !.accounts = i, !.last = MaxOf(@, Writes[i].slot)]
        /\ Handle(AcceptAccount(correlator, Writes[i]))
        /\ UNCHANGED <<cluster, sent, stage, todo, store, faults, since>>
  BY DEF ReceiveAccount, Writes
<1>3. DueNumbers /\ WriteNumbers
  BY <1>1, DueNumbersHold, WriteNumbersHold
<1>4. /\ i \in DOMAIN Writes /\ Comes(i) /\ i \in Nat
      /\ wire.accounts < i /\ wire.from <= Writes[i].slot /\ Writes[i].slot \in Nat
      /\ \A j \in DOMAIN Writes : Comes(j) => i <= j
  BY <1>2, <1>3 DEF DueNumbers, WriteNumbers, Comes, IsNext
<1>5. /\ stage = "next" /\ Writes[i].slot < cluster.slot
      /\ \A j \in DueAccounts : Writes[i].slot <= Writes[j].slot
      /\ \A k \in DueTransactions : Writes[i].slot <= Runs[k].slot
  BY <1>2 DEF Delivers, ContentSlots, Writes, Runs
<1>6. /\ wire.last <= Writes[i].slot
      /\ 1 <= wire.from /\ wire.from <= wire.last
      /\ wire.transactions <= Len(Runs)
  BY <1>1, <1>2, <1>5 DEF WireInv
<1>7. /\ wire.from \in Nat /\ wire.last \in Nat /\ wire.accounts \in Nat
      /\ wire.transactions \in Nat /\ cluster.slot \in Nat
  BY <1>1, WireFields, ChainFields, SlotBound
<1>8. MaxOf(wire.last, Writes[i].slot) = Writes[i].slot
  BY <1>4, <1>6, <1>7 DEF MaxOf
<1>9. /\ wire' \in Wires
      /\ wire'.from = wire.from /\ wire'.startup = {} /\ wire'.accounts = i
      /\ wire'.transactions = wire.transactions /\ wire'.last = Writes[i].slot
  BY <1>1, <1>2, <1>4, <1>8 DEF Wires
<1>10. ChainInv' /\ Writes' = Writes /\ Runs' = Runs /\ cluster' = cluster
  BY <1>1, <1>2, ChainFrame
<1>11. DueNumbers'
  BY <1>9, <1>10, DueNumbersThen
<1>12. \A j \in DOMAIN Writes : Comes(j)' <=> Comes(j) /\ j # i
  <2>1. TAKE j \in DOMAIN Writes
  <2>2. Comes(j)' <=> i < j /\ wire.from <= Writes[j].slot
    BY <1>9, <1>10, <1>11 DEF DueNumbers
  <2>3. Comes(j) <=> wire.accounts < j /\ wire.from <= Writes[j].slot
    BY <1>3 DEF DueNumbers
  <2>4. j \in Nat
    BY <1>3 DEF WriteNumbers
  <2> QED BY <1>4, <1>7, <2>2, <2>3, <2>4
<1>13. DueTransactions' = DueTransactions
  BY <1>9, <1>10 DEF DueTransactions, Due, Runs
<1>14. \A j \in DueAccounts' : Writes[i].slot <= Writes[j].slot
  BY <1>5, <1>10, <1>11, <1>12 DEF DueNumbers, Comes
<1>15. i <= Len(Writes)
  BY <1>3, <1>4 DEF WriteNumbers
<1>16. Writes[i].slot <= cluster.slot /\ wire.from <= Writes[i].slot
  BY <1>4, <1>5, <1>7
<1>17. WireInv'
  BY <1>2, <1>5, <1>6, <1>9, <1>10, <1>13, <1>14, <1>15, <1>16 DEF WireInv
<1>18. AccountRead(i)
  BY <1>2, <1>4, <1>5, <1>9, <1>12 DEF AccountRead, Reading
<1> QED BY <1>2, <1>4, <1>17, <1>18

RunRead(k) ==
  /\ Reading
  /\ k \in DueTransactions
  /\ wire'.transactions = k /\ wire'.accounts = wire.accounts
  /\ \A l \in DOMAIN Runs : l \in DueTransactions => k <= l
  /\ \A j \in DOMAIN Writes : Comes(j)' <=> Comes(j)

LEMMA RunIsRead ==
  ASSUME IInv, ReceiveTransaction
  PROVE  /\ WireInv'
         /\ \E k \in DOMAIN Runs :
              RunRead(k) /\ Handle(AcceptTransaction(correlator, Runs[k]))
<1>1. ChainInv /\ ProcessTypes /\ WireInv /\ wire \in Wires
  BY IInvParts DEF ProcessTypes
<1>2. PICK k \in DueTransactions :
        /\ IsNext(k, DueTransactions)
        /\ Delivers(Runs[k].slot)
        /\ wire' = [wire EXCEPT !.transactions = k, !.last = MaxOf(@, Runs[k].slot)]
        /\ Handle(AcceptTransaction(correlator, Runs[k]))
        /\ UNCHANGED <<cluster, sent, stage, todo, store, faults, since>>
  BY DEF ReceiveTransaction, Runs
<1>3. DueNumbers /\ WriteNumbers
  BY <1>1, DueNumbersHold, WriteNumbersHold
<1>4. /\ k \in DOMAIN Runs /\ k \in Nat
      /\ wire.transactions < k /\ wire.from <= Runs[k].slot /\ Runs[k].slot \in Nat
      /\ \A l \in DOMAIN Runs : l \in DueTransactions => k <= l
  BY <1>2, <1>3 DEF DueNumbers, WriteNumbers, IsNext
<1>5. /\ stage = "next" /\ Runs[k].slot < cluster.slot
      /\ \A j \in DueAccounts : Runs[k].slot <= Writes[j].slot
      /\ \A l \in DueTransactions : Runs[k].slot <= Runs[l].slot
  BY <1>2 DEF Delivers, ContentSlots, Writes, Runs
<1>6. /\ wire.last <= Runs[k].slot
      /\ 1 <= wire.from /\ wire.from <= wire.last
      /\ wire.accounts <= Len(Writes)
      /\ \A u \in wire.startup : StartupIsTrue(u)
  BY <1>1, <1>2, <1>5 DEF WireInv
<1>7. /\ wire.from \in Nat /\ wire.last \in Nat /\ wire.accounts \in Nat
      /\ wire.transactions \in Nat /\ cluster.slot \in Nat
  BY <1>1, WireFields, ChainFields, SlotBound
<1>8. MaxOf(wire.last, Runs[k].slot) = Runs[k].slot
  BY <1>4, <1>6, <1>7 DEF MaxOf
<1>9. /\ wire' \in Wires
      /\ wire'.from = wire.from /\ wire'.startup = wire.startup
      /\ wire'.accounts = wire.accounts
      /\ wire'.transactions = k /\ wire'.last = Runs[k].slot
  BY <1>1, <1>2, <1>4, <1>8 DEF Wires
<1>10. ChainInv' /\ Writes' = Writes /\ Runs' = Runs /\ cluster' = cluster
  BY <1>1, <1>2, ChainFrame
<1>11. DueNumbers'
  BY <1>9, <1>10, DueNumbersThen
<1>12. DueAccounts' = DueAccounts
  BY <1>9, <1>10 DEF DueAccounts, Due, Writes
<1>13. \A l \in DueTransactions' : Runs[k].slot <= Runs[l].slot
  <2>1. TAKE l \in DueTransactions'
  <2>2. l \in DOMAIN Runs /\ k < l /\ wire.from <= Runs[l].slot
    BY <1>9, <1>10, <1>11 DEF DueNumbers
  <2>3. l \in Nat
    BY <1>3, <2>2 DEF WriteNumbers
  <2>4. l \in DueTransactions
    BY <1>3, <1>4, <1>7, <2>2, <2>3 DEF DueNumbers
  <2> QED BY <1>5, <2>4
<1>14. k <= Len(Runs)
  BY <1>3, <1>4 DEF WriteNumbers
<1>15. Runs[k].slot <= cluster.slot /\ wire.from <= Runs[k].slot
  BY <1>4, <1>5, <1>7
<1>16. \A u \in wire'.startup : StartupIsTrue(u)'
  BY <1>6, <1>9, <1>10 DEF StartupIsTrue, BookAt
<1>17. WireInv'
  BY <1>2, <1>5, <1>6, <1>9, <1>10, <1>12, <1>13, <1>14, <1>15, <1>16 DEF WireInv
<1>18. RunRead(k)
  BY <1>2, <1>4, <1>5, <1>9, <1>12 DEF RunRead, Reading, Comes
<1> QED BY <1>2, <1>4, <1>17, <1>18
(* What the correlator and the queue become, by what a half meets. *)
Became(latest, known_at, transactions, accounts) ==
  /\ IsCorrelator(correlator')
  /\ correlator'.latest = latest
  /\ correlator'.known_at = known_at
  /\ correlator'.transactions = transactions
  /\ correlator'.accounts = accounts

Queues(i) ==
  /\ Latest(i) = Unknown => pending' = pending
  /\ Latest(i) # Unknown =>
       pending' = Record(pending, Writes[i].slot,
                         RowsOf(Derived(ChangeOf(correlator, Writes[i]))))

NowLatest(i) == [correlator.latest EXCEPT ![Writes[i].market] = Writes[i].data]
NowKnown(i) == [correlator.known_at EXCEPT ![Writes[i].market] = Writes[i].slot]

StaleRead(i) ==
  /\ Writes[i].slot < KnownAt(i)
  /\ Became(correlator.latest, correlator.known_at, correlator.transactions,
            correlator.accounts)
  /\ pending' = pending

PairedRead(i) ==
  /\ ~ (Writes[i].slot < KnownAt(i))
  /\ Writes[i].signature \in correlator.transactions
  /\ Became(NowLatest(i), NowKnown(i), correlator.transactions \ {Writes[i].signature},
            correlator.accounts)
  /\ Queues(i)

WaitingRead(i) ==
  /\ ~ (Writes[i].slot < KnownAt(i))
  /\ Writes[i].signature \notin correlator.transactions
  /\ Became(correlator.latest, NowKnown(i), correlator.transactions,
            correlator.accounts \cup {Writes[i]})
  /\ pending' = pending

LEMMA QueuesIs ==
  ASSUME NEW i \in DOMAIN Writes, NEW outcome, Handle(outcome),
         outcome.changes = {ChangeOf(correlator, Writes[i])}
  PROVE  Queues(i)
<1> DEFINE ch == ChangeOf(correlator, Writes[i])
<1>1. ch.before = Latest(i) /\ ch.slot = Writes[i].slot
  BY DEF ChangeOf, Latest
<1> HIDE DEF ch
<1>2. /\ ch.before = Unknown => pending' = pending
      /\ ch.before # Unknown => pending' = Record(pending, ch.slot, RowsOf(Derived(ch)))
  BY HandleChange DEF ch
<1> QED BY <1>1, <1>2 DEF Queues, ch

LEMMA AccountOutcomes ==
  ASSUME IInv, QueuesHold, NEW i \in DOMAIN Writes, AccountRead(i),
         Handle(AcceptAccount(correlator, Writes[i]))
  PROVE  StaleRead(i) \/ PairedRead(i) \/ WaitingRead(i)
<1>1. ChainInv /\ ProcessTypes /\ PairInv /\ IsCorrelator(correlator) /\ Writes[i] \in Update
  BY IInvParts, WriteFields DEF ProcessTypes
<1> DEFINE u == Writes[i]
           outcome == AcceptAccount(correlator, u)
<1>2. CASE u.slot < correlator.known_at[u.market]
  <2>1. outcome.correlator = SeenAt(correlator, u.slot) /\ outcome.changes = {}
    BY <1>1, <1>2, AcceptStale
  <2> HIDE DEF outcome
  <2>2. correlator' = SeenAt(correlator, u.slot) /\ pending' = pending
    BY <2>1, HandleNothing DEF outcome
  <2>3. Became(correlator.latest, correlator.known_at, correlator.transactions,
               correlator.accounts)
    BY <1>1, <2>2, SeenIs DEF Became
  <2> QED BY <1>2, <2>2, <2>3 DEF StaleRead, KnownAt
<1>3. CASE ~ (u.slot < correlator.known_at[u.market]) /\ u.signature \in correlator.transactions
  <2> DEFINE d == outcome.correlator
  <2>1. /\ IsCorrelator(d)
        /\ d.latest = [correlator.latest EXCEPT ![u.market] = u.data]
        /\ d.known_at = [correlator.known_at EXCEPT ![u.market] = u.slot]
        /\ d.transactions = correlator.transactions \ {u.signature}
        /\ d.accounts = correlator.accounts
        /\ outcome.changes = {ChangeOf(correlator, u)}
    BY <1>1, <1>3, AcceptPaired
  <2> HIDE DEF outcome
  <2>2. correlator' = d
    BY DEF Handle, outcome
  <2>3. Queues(i)
    BY <2>1, QueuesIs DEF outcome
  <2> HIDE DEF d
  <2>4. Became(NowLatest(i), NowKnown(i), correlator.transactions \ {u.signature},
               correlator.accounts)
    BY <2>1, <2>2 DEF Became, NowLatest, NowKnown
  <2> QED BY <1>3, <2>3, <2>4 DEF PairedRead, KnownAt
<1>4. CASE ~ (u.slot < correlator.known_at[u.market]) /\ u.signature \notin correlator.transactions
  <2> DEFINE d == outcome.correlator
  <2>1. u.signature \notin WaitingAccounts(correlator)
    <3>1. HalvesWereRead /\ stage = "next"
      BY <1>1 DEF PairInv, Up, AccountRead, Reading
    <3>2. wire.accounts < i /\ i \in Nat /\ wire.accounts \in Nat
      BY <1>1, ComesIs, WriteFields, WireFields DEF AccountRead
    <3>3. ~ Waits(i)
      BY <1>1, <3>1, <3>2, WaitsIs
    <3> QED BY <1>1, <3>1, <3>3, WaitsIs
  <2>2. HasPlace(correlator.account_order, WaitingAccounts(correlator))
    BY DEF QueuesHold
  <2>3. /\ IsCorrelator(d)
        /\ d.latest = correlator.latest
        /\ d.known_at = [correlator.known_at EXCEPT ![u.market] = u.slot]
        /\ d.transactions = correlator.transactions
        /\ d.accounts = correlator.accounts \cup {u}
        /\ outcome.changes = {}
    BY <1>1, <1>4, <2>1, <2>2, AcceptWaiting
  <2> HIDE DEF outcome
  <2>4. correlator' = d /\ pending' = pending
    BY <2>3, HandleNothing DEF outcome
  <2> HIDE DEF d
  <2>5. Became(correlator.latest, NowKnown(i), correlator.transactions,
               correlator.accounts \cup {u})
    BY <2>3, <2>4 DEF Became, NowKnown
  <2> QED BY <1>4, <2>4, <2>5 DEF WaitingRead, KnownAt
<1> QED BY <1>2, <1>3, <1>4

FailedRead(k) ==
  /\ ~ Runs[k].succeeded
  /\ Became(correlator.latest, correlator.known_at, correlator.transactions,
            correlator.accounts)
  /\ pending' = pending

UnpairedRead(k) ==
  /\ Runs[k].succeeded
  /\ Runs[k].signature \notin WaitingAccounts(correlator)
  /\ Became(correlator.latest, correlator.known_at,
            correlator.transactions \cup {Runs[k].signature}, correlator.accounts)
  /\ pending' = pending

CompletingRead(k, i) ==
  /\ IsRunOf(k, i)
  /\ Waits(i)
  /\ Became(NowLatest(i), correlator.known_at, correlator.transactions,
            correlator.accounts \ {Writes[i]})
  /\ Queues(i)

LEMMA RunOutcomes ==
  ASSUME IInv, QueuesHold, NEW k \in DOMAIN Runs, RunRead(k),
         Handle(AcceptTransaction(correlator, Runs[k]))
  PROVE  \/ FailedRead(k) \/ UnpairedRead(k)
         \/ \E i \in DOMAIN Writes : CompletingRead(k, i)
<1>1. /\ ChainInv /\ ProcessTypes /\ PairInv /\ IsCorrelator(correlator)
      /\ Runs[k].signature \in Signatures
  BY IInvParts, RunFields DEF ProcessTypes
<1>2. HalvesWereRead
  BY <1>1 DEF PairInv, Up, RunRead, Reading
<1> DEFINE tx == Runs[k]
           outcome == AcceptTransaction(correlator, tx)
<1>3. CASE ~ tx.succeeded
  <2>1. outcome.correlator = SeenAt(correlator, tx.slot) /\ outcome.changes = {}
    BY <1>1, <1>3, AcceptFailed
  <2> HIDE DEF outcome
  <2>2. correlator' = SeenAt(correlator, tx.slot) /\ pending' = pending
    BY <2>1, HandleNothing DEF outcome
  <2>3. Became(correlator.latest, correlator.known_at, correlator.transactions,
               correlator.accounts)
    BY <1>1, <2>2, SeenIs DEF Became
  <2> QED BY <1>3, <2>2, <2>3 DEF FailedRead
<1>4. CASE tx.succeeded /\ tx.signature \notin WaitingAccounts(correlator)
  <2> DEFINE d == outcome.correlator
  <2>1. HasPlace(correlator.transaction_order, correlator.transactions)
    BY DEF QueuesHold
  <2>2. /\ IsCorrelator(d)
        /\ d.latest = correlator.latest /\ d.known_at = correlator.known_at
        /\ d.transactions = correlator.transactions \cup {tx.signature}
        /\ d.accounts = correlator.accounts
        /\ outcome.changes = {}
    BY <1>1, <1>4, <2>1, AcceptUnpaired
  <2> HIDE DEF outcome
  <2>3. correlator' = d /\ pending' = pending
    BY <2>2, HandleNothing DEF outcome
  <2> HIDE DEF d
  <2>4. Became(correlator.latest, correlator.known_at,
               correlator.transactions \cup {tx.signature}, correlator.accounts)
    BY <2>2, <2>3 DEF Became
  <2> QED BY <1>4, <2>3, <2>4 DEF UnpairedRead
<1>5. CASE tx.succeeded /\ tx.signature \in WaitingAccounts(correlator)
  <2>1. PICK half \in correlator.accounts : half.signature = tx.signature
    BY <1>5 DEF WaitingAccounts
  <2>2. PICK i \in DOMAIN Writes : half = Writes[i]
    BY <1>2, <2>1 DEF HalvesWereRead
  <2>3. \A a \in correlator.accounts : a.signature = tx.signature => a = half
    <3>1. TAKE a \in correlator.accounts
    <3>2. HAVE a.signature = tx.signature
    <3>3. PICK j \in DOMAIN Writes : a = Writes[j]
      BY <1>2 DEF HalvesWereRead
    <3> QED BY <1>1, <2>1, <2>2, <3>2, <3>3, WriteOrder
  <2> DEFINE d == outcome.correlator
  <2>4. /\ IsCorrelator(d)
        /\ d.latest = [correlator.latest EXCEPT ![half.market] = half.data]
        /\ d.known_at = correlator.known_at
        /\ d.transactions = correlator.transactions
        /\ d.accounts = correlator.accounts \ {half}
        /\ outcome.changes = {ChangeOf(correlator, half)}
    <3> HIDE DEF tx
    <3> QED BY <1>1, <1>5, <2>1, <2>3, AcceptCompleting
  <2> HIDE DEF outcome
  <2>5. correlator' = d
    BY DEF Handle, outcome
  <2>6. Queues(i)
    BY <2>2, <2>4, QueuesIs DEF outcome
  <2> HIDE DEF d
  <2>7. Became(NowLatest(i), correlator.known_at, correlator.transactions,
               correlator.accounts \ {Writes[i]})
    BY <2>2, <2>4, <2>5 DEF Became, NowLatest
  <2>8. IsRunOf(k, i)
    BY <1>1, <2>1, <2>2, RunOfWrite
  <2>9. Waits(i)
    BY <2>1, <2>2 DEF Waits
  <2> QED BY <2>6, <2>7, <2>8, <2>9 DEF CompletingRead
<1> QED BY <1>3, <1>4, <1>5
-----------------------------------------------------------------------------
(* The halves that wait, after one was read. *)

LEMMA PairParts ==
  ASSUME IInv, Up
  PROVE  /\ ChainInv /\ ProcessTypes /\ HalvesWereRead
         /\ correlator.transactions \subseteq cluster.landed
         /\ \A i \in DOMAIN Writes, k \in DOMAIN Runs : WaitingHasToRun(i, k)
         /\ \A k \in DOMAIN Runs : WaitingRan(k)
         /\ \A i \in DOMAIN Writes, k \in DOMAIN Runs : RanIsWaiting(i, k)
         /\ \A i, j \in DOMAIN Writes : WaitsInOrder(i, j)
BY IInvParts DEF PairInv

(* A write that comes does not wait. *)
LEMMA ComesOrWaits ==
  ASSUME IInv, Up, NEW i \in DOMAIN Writes, Comes(i)
  PROVE  ~ Waits(i)
<1>1. ChainInv /\ ProcessTypes /\ HalvesWereRead
  BY PairParts
<1>2. wire.accounts < i /\ i \in Nat /\ wire.accounts \in Nat
  BY <1>1, ComesIs, WriteFields, WireFields
<1>3. Waits(i) => i <= wire.accounts
  BY <1>1, WaitsIs
<1> QED BY <1>2, <1>3

(* While an earlier write waits, no later one has its transaction.  *)
LEMMA RunsAhead ==
  ASSUME IInv, Up, NEW a \in DOMAIN Writes, NEW i \in DOMAIN Writes, NEW k \in DOMAIN Runs,
         Waits(a), a < i, IsRunOf(k, i)
  PROVE  \E l \in DOMAIN Runs : l \in DueTransactions /\ IsRunOf(l, a) /\ l < k
<1>1. ChainInv /\ ProcessTypes /\ HalvesWereRead
  BY PairParts
<1>2. PICK l \in DOMAIN Runs : IsRunOf(l, a)
  BY <1>1, WriteHasRun
<1>3. l < k
  BY <1>1, <1>2, RunOrder
<1>4. wire.transactions < l
  BY <1>2, PairParts DEF WaitingHasToRun
<1>5. wire.from <= Runs[l].slot
  BY <1>1, <1>2, WaitsIs DEF IsRunOf
<1> QED BY <1>1, <1>2, <1>3, <1>4, <1>5, WillRunIs

LEMMA ReadNext ==
  ASSUME IInv, NEW i \in DOMAIN Writes, AccountRead(i),
         NEW a \in DOMAIN Writes, NEW b \in DOMAIN Writes,
         Waits(a), a < b, b <= i, ~ (b <= wire.accounts)
  PROVE  b = i
<1>1. Up
  BY DEF AccountRead, Reading, Up
<1>2. ChainInv /\ ProcessTypes /\ HalvesWereRead
  BY <1>1, PairParts
<1>3. Writes[a].slot <= Writes[b].slot
  BY <1>2, WriteOrder
<1>4. wire.from <= Writes[a].slot
  BY <1>2, WaitsIs
<1>5. /\ Writes[a].slot \in Nat /\ Writes[b].slot \in Nat /\ b \in Nat /\ i \in Nat
      /\ wire.from \in Nat /\ wire.accounts \in Nat
  BY <1>2, WriteFields, WireFields
<1>6. wire.accounts < b /\ wire.from <= Writes[b].slot
  BY <1>3, <1>4, <1>5
<1>7. Comes(b)
  BY <1>2, <1>6, ComesIs
<1>8. i <= b
  BY <1>7 DEF AccountRead
<1> QED BY <1>5, <1>8

LEMMA ReadPast ==
  ASSUME IInv, NEW i \in DOMAIN Writes, AccountRead(i)
  PROVE  /\ Up /\ Up'
         /\ cluster' = cluster /\ Writes' = Writes /\ Runs' = Runs
         /\ wire'.from = wire.from /\ wire'.transactions = wire.transactions
         /\ wire'.accounts = i
         /\ wire.accounts < i /\ wire.accounts \in Nat /\ i \in Nat
         /\ wire.from <= Writes[i].slot
         /\ ~ Waits(i)
<1>1. Up /\ Up'
  BY DEF AccountRead, Reading, Up
<1>2. ChainInv /\ ProcessTypes
  BY <1>1, PairParts
<1>3. wire.accounts < i /\ wire.accounts \in Nat /\ i \in Nat /\ wire.from <= Writes[i].slot
  BY <1>2, ComesIs, WriteFields, WireFields DEF AccountRead
<1>4. ~ Waits(i)
  BY <1>1, ComesOrWaits DEF AccountRead
<1> QED BY <1>1, <1>3, <1>4 DEF AccountRead, Reading, Writes, Runs

LEMMA StalePairs ==
  ASSUME IInv, NEW i \in DOMAIN Writes, AccountRead(i), StaleRead(i)
  PROVE  PairInv'
<1>1. /\ Up /\ Up' /\ cluster' = cluster /\ Writes' = Writes /\ Runs' = Runs
      /\ wire'.from = wire.from /\ wire'.transactions = wire.transactions
      /\ wire'.accounts = i /\ wire.accounts < i /\ wire.accounts \in Nat /\ i \in Nat
  BY ReadPast
<1>2. correlator'.transactions = correlator.transactions
        /\ correlator'.accounts = correlator.accounts
  BY DEF StaleRead, Became
<1>3. ChainInv /\ ProcessTypes /\ BaseInv
  BY IInvParts
<1>4. \A j \in DOMAIN Writes : j \in Nat
  BY <1>3, WriteFields
<1>5. \A j \in DOMAIN Writes : (Waits(j)' <=> Waits(j)) /\ (Comes(j)' => Comes(j))
  BY <1>1, <1>2 DEF Waits, AccountRead
<1>6. HalvesWereRead'
  <2>1. \A j \in DOMAIN Writes : j <= wire.accounts => j <= i
    BY <1>1, <1>4
  <2> QED BY <1>1, <1>2, <2>1, PairParts DEF HalvesWereRead
<1>7. \A j \in DOMAIN Writes, k \in DOMAIN Runs : WaitingHasToRun(j, k)'
  BY <1>1, <1>5, PairParts DEF WaitingHasToRun, IsRunOf
<1>8. \A k \in DOMAIN Runs : WaitingRan(k)'
  BY <1>1, <1>2, PairParts DEF WaitingRan
<1>9. \A j \in DOMAIN Writes, k \in DOMAIN Runs : RanIsWaiting(j, k)'
  BY <1>1, <1>2, <1>5, PairParts DEF RanIsWaiting, IsRunOf
<1>10. ASSUME NEW a \in DOMAIN Writes, NEW b \in DOMAIN Writes PROVE WaitsInOrder(a, b)'
  <2>1. SUFFICES ASSUME a < b, b <= i, SameMarket(a, b), Waits(a) PROVE Waits(b)
    BY <1>1, <1>5 DEF WaitsInOrder, SameMarket
  <2>2. CASE b <= wire.accounts
    BY <2>1, <2>2, <1>1, PairParts DEF WaitsInOrder
  <2>3. CASE ~ (b <= wire.accounts)
    <3>1. b = i
      BY <2>1, <2>3, ReadNext
    <3>2. StaleIsKnown(i)
      BY <1>1, <1>3 DEF BaseInv
    <3>3. SameMarket(i, a)
      BY <2>1, <3>1 DEF SameMarket
    <3>4. ~ Waits(a)
      BY <3>2, <3>3 DEF StaleIsKnown, StaleRead, AccountRead
    <3> QED BY <2>1, <3>4
  <2> QED BY <2>2, <2>3
<1> QED BY <1>1, <1>2, <1>6, <1>7, <1>8, <1>9, <1>10, PairParts DEF PairInv

LEMMA PairedPairs ==
  ASSUME IInv, NEW i \in DOMAIN Writes, AccountRead(i), PairedRead(i)
  PROVE  /\ PairInv'
         /\ \A a \in DOMAIN Writes : a < i => ~ Waits(a)
<1>1. /\ Up /\ Up' /\ cluster' = cluster /\ Writes' = Writes /\ Runs' = Runs
      /\ wire'.from = wire.from /\ wire'.transactions = wire.transactions
      /\ wire'.accounts = i /\ wire.accounts < i /\ wire.accounts \in Nat /\ i \in Nat
      /\ wire.from <= Writes[i].slot
  BY ReadPast
<1>2. /\ correlator'.transactions = correlator.transactions \ {Writes[i].signature}
      /\ correlator'.accounts = correlator.accounts
      /\ Writes[i].signature \in correlator.transactions
  BY DEF PairedRead, Became
<1>3. ChainInv /\ ProcessTypes /\ BaseInv
  BY IInvParts
<1>4. \A j \in DOMAIN Writes : j \in Nat
  BY <1>3, WriteFields
<1>5. /\ \A j \in DOMAIN Writes : Waits(j)' <=> Waits(j)
      /\ \A j \in DOMAIN Writes : Comes(j)' <=> Comes(j) /\ j # i
  BY <1>1, <1>2 DEF Waits, AccountRead
<1>6. ASSUME NEW a \in DOMAIN Writes, a < i, Waits(a) PROVE FALSE
  <2>1. PICK k \in DOMAIN Runs : IsRunOf(k, i)
    BY <1>3, WriteHasRun
  <2>2. Runs[k].signature = Writes[i].signature /\ Runs[k].slot = Writes[i].slot
    BY <2>1 DEF IsRunOf
  <2>3. k <= wire.transactions
    BY <1>1, <1>2, <2>2, PairParts DEF WaitingRan
  <2>4. PICK l \in DOMAIN Runs : l \in DueTransactions /\ l < k
    BY <1>1, <1>6, <2>1, RunsAhead
  <2>5. wire.transactions < l
    BY <1>3, <2>4, WillRunIs
  <2>6. l \in Nat /\ k \in Nat /\ wire.transactions \in Nat
    BY <1>3, RunFields, WireFields
  <2> QED BY <2>3, <2>4, <2>5, <2>6
<1>7. HalvesWereRead'
  <2>1. \A j \in DOMAIN Writes : j <= wire.accounts => j <= i
    BY <1>1, <1>4
  <2> QED BY <1>1, <1>2, <2>1, PairParts DEF HalvesWereRead
<1>8. \A j \in DOMAIN Writes, k \in DOMAIN Runs : WaitingHasToRun(j, k)'
  BY <1>1, <1>5, PairParts DEF WaitingHasToRun, IsRunOf
<1>9. \A k \in DOMAIN Runs : WaitingRan(k)'
  BY <1>1, <1>2, PairParts DEF WaitingRan
<1>10. ASSUME NEW j \in DOMAIN Writes, NEW k \in DOMAIN Runs PROVE RanIsWaiting(j, k)'
  <2>1. SUFFICES ASSUME Comes(j), j # i, IsRunOf(k, j), k <= wire.transactions
                 PROVE  Runs[k].signature \in correlator'.transactions
    BY <1>1, <1>5 DEF RanIsWaiting, IsRunOf
  <2>2. Runs[k].signature \in correlator.transactions
    BY <1>1, <2>1, PairParts DEF RanIsWaiting
  <2>3. Runs[k].signature = Writes[j].signature
    BY <2>1 DEF IsRunOf
  <2>4. Writes[j].signature # Writes[i].signature
    BY <1>3, <2>1, WriteOrder
  <2> QED BY <1>2, <2>2, <2>3, <2>4
<1>11. ASSUME NEW a \in DOMAIN Writes, NEW b \in DOMAIN Writes PROVE WaitsInOrder(a, b)'
  <2>1. SUFFICES ASSUME a < b, b <= i, Waits(a) PROVE FALSE
    BY <1>1, <1>5 DEF WaitsInOrder
  <2>2. a < i
    BY <1>4, <2>1
  <2> QED BY <1>6, <2>1, <2>2
<1>12. correlator'.transactions \subseteq cluster'.landed
  BY <1>1, <1>2, PairParts
<1> QED BY <1>1, <1>6, <1>7, <1>8, <1>9, <1>10, <1>11, <1>12 DEF PairInv

LEMMA WaitingPairs ==
  ASSUME IInv, NEW i \in DOMAIN Writes, AccountRead(i), WaitingRead(i)
  PROVE  /\ PairInv'
         /\ \A j \in DOMAIN Writes : Waits(j)' <=> Waits(j) \/ j = i
<1>1. /\ Up /\ Up' /\ cluster' = cluster /\ Writes' = Writes /\ Runs' = Runs
      /\ wire'.from = wire.from /\ wire'.transactions = wire.transactions
      /\ wire'.accounts = i /\ wire.accounts < i /\ wire.accounts \in Nat /\ i \in Nat
      /\ wire.from <= Writes[i].slot
  BY ReadPast
<1>2. /\ correlator'.transactions = correlator.transactions
      /\ correlator'.accounts = correlator.accounts \cup {Writes[i]}
      /\ Writes[i].signature \notin correlator.transactions
  BY DEF WaitingRead, Became
<1>3. ChainInv /\ ProcessTypes /\ BaseInv
  BY IInvParts
<1>4. \A j \in DOMAIN Writes : j \in Nat
  BY <1>3, WriteFields
<1>5. \A j \in DOMAIN Writes : Waits(j)' <=> Waits(j) \/ j = i
  <2>1. TAKE j \in DOMAIN Writes
  <2>2. Writes[j] = Writes[i] => j = i
    BY <1>3, WriteOrder
  <2> QED BY <1>1, <1>2, <2>2 DEF Waits
<1>6. \A j \in DOMAIN Writes : Comes(j)' <=> Comes(j) /\ j # i
  BY DEF AccountRead
<1>7. HalvesWereRead'
  <2>1. \A j \in DOMAIN Writes : j <= wire.accounts => j <= i
    BY <1>1, <1>4
  <2>2. i <= i
    BY <1>1
  <2> QED BY <1>1, <1>2, <2>1, <2>2, PairParts DEF HalvesWereRead
<1>8. ASSUME NEW j \in DOMAIN Writes, NEW k \in DOMAIN Runs PROVE WaitingHasToRun(j, k)'
  <2>1. SUFFICES ASSUME Waits(j) \/ j = i, IsRunOf(k, j) PROVE wire.transactions < k
    BY <1>1, <1>5 DEF WaitingHasToRun, IsRunOf
  <2>2. CASE Waits(j)
    BY <1>1, <2>1, <2>2, PairParts DEF WaitingHasToRun
  <2>3. CASE j = i
    <3>1. Runs[k].signature \notin correlator.transactions
      BY <1>2, <2>1, <2>3 DEF IsRunOf
    <3>2. ~ (k <= wire.transactions)
      BY <1>1, <2>1, <2>3, <3>1, PairParts DEF RanIsWaiting, AccountRead
    <3>3. k \in Nat /\ wire.transactions \in Nat
      BY <1>3, RunFields, WireFields
    <3> QED BY <3>2, <3>3
  <2> QED BY <2>1, <2>2, <2>3
<1>9. \A k \in DOMAIN Runs : WaitingRan(k)'
  BY <1>1, <1>2, PairParts DEF WaitingRan
<1>10. \A j \in DOMAIN Writes, k \in DOMAIN Runs : RanIsWaiting(j, k)'
  BY <1>1, <1>2, <1>6, PairParts DEF RanIsWaiting, IsRunOf
<1>11. ASSUME NEW a \in DOMAIN Writes, NEW b \in DOMAIN Writes PROVE WaitsInOrder(a, b)'
  <2>1. SUFFICES ASSUME a < b, b <= i, SameMarket(a, b), Waits(a) \/ a = i
                 PROVE  Waits(b) \/ b = i
    BY <1>1, <1>5 DEF WaitsInOrder, SameMarket
  <2>2. Waits(a)
    BY <1>4, <2>1
  <2>3. CASE b <= wire.accounts
    BY <1>1, <2>1, <2>2, <2>3, PairParts DEF WaitsInOrder
  <2>4. CASE ~ (b <= wire.accounts)
    BY <2>1, <2>2, <2>4, ReadNext
  <2> QED BY <2>3, <2>4
<1>12. correlator'.transactions \subseteq cluster'.landed
  BY <1>1, <1>2, PairParts
<1> QED BY <1>1, <1>5, <1>7, <1>8, <1>9, <1>10, <1>11, <1>12 DEF PairInv
LEMMA RunPast ==
  ASSUME IInv, NEW k \in DOMAIN Runs, RunRead(k)
  PROVE  /\ Up /\ Up'
         /\ cluster' = cluster /\ Writes' = Writes /\ Runs' = Runs
         /\ wire'.from = wire.from /\ wire'.transactions = k
         /\ wire'.accounts = wire.accounts
         /\ wire.transactions < k /\ wire.transactions \in Nat /\ k \in Nat
         /\ \A l \in DOMAIN Runs : l \in Nat /\ (l \in DueTransactions => k <= l)
<1>1. Up /\ Up'
  BY DEF RunRead, Reading, Up
<1>2. ChainInv /\ ProcessTypes
  BY <1>1, PairParts
<1>3. wire.transactions < k /\ wire.transactions \in Nat /\ k \in Nat
  BY <1>2, WillRunIs, RunFields, WireFields DEF RunRead
<1>4. \A l \in DOMAIN Runs : l \in Nat
  BY <1>2, RunFields
<1> QED BY <1>1, <1>3, <1>4 DEF RunRead, Reading, Writes, Runs

(* A half whose transaction is not the one read goes on waiting for it. *)
LEMMA StillToRun ==
  ASSUME IInv, NEW k \in DOMAIN Runs, RunRead(k), NEW j \in DOMAIN Writes, Waits(j),
         NEW l \in DOMAIN Runs, IsRunOf(l, j), l # k
  PROVE  k < l
<1>1. Up /\ ChainInv /\ ProcessTypes /\ HalvesWereRead
  BY RunPast, PairParts
<1>2. wire.transactions < l
  BY <1>1, PairParts DEF WaitingHasToRun
<1>3. wire.from <= Runs[l].slot
  BY <1>1, WaitsIs DEF IsRunOf
<1>4. k <= l
  BY <1>1, <1>2, <1>3, WillRunIs, RunPast
<1>5. k \in Nat /\ l \in Nat
  BY RunPast
<1> QED BY <1>4, <1>5

(* The transaction of a write that comes was read only if it is the last. *)
LEMMA RanBefore ==
  ASSUME IInv, NEW k \in DOMAIN Runs, RunRead(k), NEW j \in DOMAIN Writes, Comes(j),
         NEW l \in DOMAIN Runs, IsRunOf(l, j), l <= k, l # k
  PROVE  Runs[l].signature \in correlator.transactions
<1>1. Up /\ ChainInv /\ ProcessTypes
  BY RunPast, PairParts
<1>2. wire.from <= Runs[l].slot
  BY <1>1, ComesIs DEF IsRunOf
<1>3. /\ k \in Nat /\ l \in Nat /\ wire.transactions \in Nat
      /\ l \in DueTransactions => k <= l
  BY RunPast
<1>4. ~ (wire.transactions < l)
  BY <1>1, <1>2, <1>3, WillRunIs
<1>5. l <= wire.transactions
  BY <1>3, <1>4
<1> QED BY <1>1, <1>5, PairParts DEF RanIsWaiting

LEMMA FailedPairs ==
  ASSUME IInv, NEW k \in DOMAIN Runs, RunRead(k), FailedRead(k)
  PROVE  PairInv'
<1>1. /\ Up /\ Up' /\ cluster' = cluster /\ Writes' = Writes /\ Runs' = Runs
      /\ wire'.from = wire.from /\ wire'.transactions = k /\ wire'.accounts = wire.accounts
      /\ wire.transactions < k /\ wire.transactions \in Nat /\ k \in Nat
      /\ \A l \in DOMAIN Runs : l \in Nat
  BY RunPast
<1>2. /\ correlator'.transactions = correlator.transactions
      /\ correlator'.accounts = correlator.accounts /\ ~ Runs[k].succeeded
  BY DEF FailedRead, Became
<1>3. \A j \in DOMAIN Writes : (Waits(j)' <=> Waits(j)) /\ (Comes(j)' <=> Comes(j))
  BY <1>1, <1>2 DEF Waits, RunRead
<1>4. \A j \in DOMAIN Writes, l \in DOMAIN Runs : IsRunOf(l, j) => l # k
  BY <1>2 DEF IsRunOf
<1>5. HalvesWereRead'
  BY <1>1, <1>2, PairParts DEF HalvesWereRead
<1>6. \A j \in DOMAIN Writes, l \in DOMAIN Runs : WaitingHasToRun(j, l)'
  <2>1. SUFFICES ASSUME NEW j \in DOMAIN Writes, NEW l \in DOMAIN Runs, Waits(j), IsRunOf(l, j)
                 PROVE  k < l
    BY <1>1, <1>3 DEF WaitingHasToRun, IsRunOf
  <2> QED BY <1>4, <2>1, StillToRun
<1>7. \A l \in DOMAIN Runs : WaitingRan(l)'
  <2>1. \A l \in DOMAIN Runs : l <= wire.transactions => l <= k
    BY <1>1
  <2> QED BY <1>1, <1>2, <2>1, PairParts DEF WaitingRan
<1>8. \A j \in DOMAIN Writes, l \in DOMAIN Runs : RanIsWaiting(j, l)'
  <2>1. SUFFICES ASSUME NEW j \in DOMAIN Writes, NEW l \in DOMAIN Runs, Comes(j), IsRunOf(l, j),
                        l <= k
                 PROVE  Runs[l].signature \in correlator.transactions
    BY <1>1, <1>2, <1>3 DEF RanIsWaiting, IsRunOf
  <2> QED BY <1>4, <2>1, RanBefore
<1>9. \A i, j \in DOMAIN Writes : WaitsInOrder(i, j)'
  BY <1>1, <1>3, PairParts DEF WaitsInOrder, SameMarket
<1> QED BY <1>1, <1>2, <1>5, <1>6, <1>7, <1>8, <1>9, PairParts DEF PairInv

LEMMA UnpairedPairs ==
  ASSUME IInv, NEW k \in DOMAIN Runs, RunRead(k), UnpairedRead(k)
  PROVE  PairInv'
<1>1. /\ Up /\ Up' /\ cluster' = cluster /\ Writes' = Writes /\ Runs' = Runs
      /\ wire'.from = wire.from /\ wire'.transactions = k /\ wire'.accounts = wire.accounts
      /\ wire.transactions < k /\ wire.transactions \in Nat /\ k \in Nat
      /\ \A l \in DOMAIN Runs : l \in Nat
  BY RunPast
<1>2. /\ correlator'.transactions = correlator.transactions \cup {Runs[k].signature}
      /\ correlator'.accounts = correlator.accounts
      /\ Runs[k].signature \notin WaitingAccounts(correlator)
  BY DEF UnpairedRead, Became
<1>3. \A j \in DOMAIN Writes : (Waits(j)' <=> Waits(j)) /\ (Comes(j)' <=> Comes(j))
  BY <1>1, <1>2 DEF Waits, RunRead
<1>4. ChainInv
  BY IInvParts
<1>5. HalvesWereRead'
  BY <1>1, <1>2, PairParts DEF HalvesWereRead
<1>6. \A j \in DOMAIN Writes, l \in DOMAIN Runs : WaitingHasToRun(j, l)'
  <2>1. SUFFICES ASSUME NEW j \in DOMAIN Writes, NEW l \in DOMAIN Runs, Waits(j), IsRunOf(l, j)
                 PROVE  k < l
    BY <1>1, <1>3 DEF WaitingHasToRun, IsRunOf
  <2>2. Runs[l].signature \in WaitingAccounts(correlator)
    BY <2>1 DEF IsRunOf, Waits, WaitingAccounts
  <2>3. l # k
    BY <1>2, <2>2
  <2> QED BY <2>1, <2>3, StillToRun
<1>7. \A l \in DOMAIN Runs : WaitingRan(l)'
  <2>1. TAKE l \in DOMAIN Runs
  <2>2. SUFFICES ASSUME Runs[l].signature \in correlator'.transactions, wire.from <= Runs[l].slot
                 PROVE  l <= k
    BY <1>1 DEF WaitingRan
  <2>3. CASE Runs[l].signature = Runs[k].signature
    <3>1. RunsInOrder(k, l) /\ RunsInOrder(l, k)
      BY <1>4 DEF ChainInv, RunsAreSound
    <3> QED BY <1>1, <2>3, <3>1 DEF RunsInOrder
  <2>4. CASE Runs[l].signature # Runs[k].signature
    <3>1. l <= wire.transactions
      BY <1>1, <1>2, <2>2, <2>4, PairParts DEF WaitingRan
    <3> QED BY <1>1, <3>1
  <2> QED BY <2>3, <2>4
<1>8. \A j \in DOMAIN Writes, l \in DOMAIN Runs : RanIsWaiting(j, l)'
  <2>1. SUFFICES ASSUME NEW j \in DOMAIN Writes, NEW l \in DOMAIN Runs, Comes(j), IsRunOf(l, j),
                        l <= k
                 PROVE  Runs[l].signature \in correlator'.transactions
    BY <1>1, <1>3 DEF RanIsWaiting, IsRunOf
  <2> QED BY <1>2, <2>1, RanBefore
<1>9. \A i, j \in DOMAIN Writes : WaitsInOrder(i, j)'
  BY <1>1, <1>3, PairParts DEF WaitsInOrder, SameMarket
<1>10. correlator'.transactions \subseteq cluster'.landed
  <2>1. Runs[k].signature \in cluster.landed
    BY <1>4 DEF ChainInv, RunsAreSound, RunIsPlaced
  <2> QED BY <1>1, <1>2, <2>1, PairParts
<1> QED BY <1>1, <1>5, <1>6, <1>7, <1>8, <1>9, <1>10 DEF PairInv

LEMMA CompletingPairs ==
  ASSUME IInv, NEW k \in DOMAIN Runs, RunRead(k), NEW i \in DOMAIN Writes, CompletingRead(k, i)
  PROVE  /\ PairInv'
         /\ \A j \in DOMAIN Writes : Waits(j)' <=> Waits(j) /\ j # i
         /\ \A a \in DOMAIN Writes : a < i => ~ Waits(a)
<1>1. /\ Up /\ Up' /\ cluster' = cluster /\ Writes' = Writes /\ Runs' = Runs
      /\ wire'.from = wire.from /\ wire'.transactions = k /\ wire'.accounts = wire.accounts
      /\ wire.transactions < k /\ wire.transactions \in Nat /\ k \in Nat
      /\ \A l \in DOMAIN Runs : l \in Nat
  BY RunPast
<1>2. /\ correlator'.transactions = correlator.transactions
      /\ correlator'.accounts = correlator.accounts \ {Writes[i]}
      /\ Waits(i) /\ IsRunOf(k, i)
  BY DEF CompletingRead, Became
<1>3. ChainInv
  BY IInvParts
<1>4. \A j \in DOMAIN Writes : Waits(j)' <=> Waits(j) /\ j # i
  <2>1. TAKE j \in DOMAIN Writes
  <2>2. Writes[j] = Writes[i] => j = i
    BY <1>3, WriteOrder
  <2> QED BY <1>1, <1>2, <2>2 DEF Waits
<1>5. \A j \in DOMAIN Writes : Comes(j)' <=> Comes(j)
  BY DEF RunRead
<1>6. \A a \in DOMAIN Writes : a < i => ~ Waits(a)
  <2>1. SUFFICES ASSUME NEW a \in DOMAIN Writes, a < i, Waits(a) PROVE FALSE
    OBVIOUS
  <2>2. PICK l \in DOMAIN Runs : l \in DueTransactions /\ l < k
    BY <1>1, <1>2, <2>1, RunsAhead
  <2>3. k <= l /\ l \in Nat
    BY <2>2, RunPast
  <2> QED BY <1>1, <2>2, <2>3
<1>7. HalvesWereRead'
  BY <1>1, <1>2, PairParts DEF HalvesWereRead
<1>8. \A j \in DOMAIN Writes, l \in DOMAIN Runs : WaitingHasToRun(j, l)'
  <2>1. SUFFICES ASSUME NEW j \in DOMAIN Writes, NEW l \in DOMAIN Runs, Waits(j), j # i,
                        IsRunOf(l, j)
                 PROVE  k < l
    BY <1>1, <1>4 DEF WaitingHasToRun, IsRunOf
  <2>2. l # k
    BY <1>2, <1>3, <2>1, WriteOrder DEF IsRunOf
  <2> QED BY <2>1, <2>2, StillToRun
<1>9. \A l \in DOMAIN Runs : WaitingRan(l)'
  <2>1. \A l \in DOMAIN Runs : l <= wire.transactions => l <= k
    BY <1>1
  <2> QED BY <1>1, <1>2, <2>1, PairParts DEF WaitingRan
<1>10. \A j \in DOMAIN Writes, l \in DOMAIN Runs : RanIsWaiting(j, l)'
  <2>1. SUFFICES ASSUME NEW j \in DOMAIN Writes, NEW l \in DOMAIN Runs, Comes(j), IsRunOf(l, j),
                        l <= k
                 PROVE  Runs[l].signature \in correlator.transactions
    BY <1>1, <1>2, <1>5 DEF RanIsWaiting, IsRunOf
  <2>2. l # k
    <3>1. SUFFICES ASSUME l = k PROVE FALSE
      OBVIOUS
    <3>2. j = i
      BY <1>2, <1>3, <2>1, <3>1, WriteOrder DEF IsRunOf
    <3> QED BY <1>1, <1>2, <2>1, <3>2, ComesOrWaits
  <2> QED BY <2>1, <2>2, RanBefore
<1>11. ASSUME NEW a \in DOMAIN Writes, NEW b \in DOMAIN Writes PROVE WaitsInOrder(a, b)'
  <2>1. SUFFICES ASSUME a < b, b <= wire.accounts, SameMarket(a, b), Waits(a)
                 PROVE  Waits(b) /\ b # i
    BY <1>1, <1>4 DEF WaitsInOrder, SameMarket
  <2> QED BY <1>1, <1>6, <2>1, PairParts DEF WaitsInOrder
<1> QED BY <1>1, <1>2, <1>4, <1>6, <1>7, <1>8, <1>9, <1>10, <1>11, PairParts DEF PairInv
-----------------------------------------------------------------------------
(* The writes of a market settle in their order. *)

Settles(i) ==
  /\ ~ Settled(i)
  /\ \A j \in DOMAIN Writes : Settled(j)' <=> Settled(j) \/ j = i
  /\ \A j \in DOMAIN Writes : j < i /\ SameMarket(i, j) => Settled(j)
  /\ \A j \in DOMAIN Writes : i < j /\ SameMarket(i, j) => ~ Settled(j)

LEMMA PairedSettles ==
  ASSUME IInv, NEW i \in DOMAIN Writes, AccountRead(i), PairedRead(i)
  PROVE  Settles(i)
<1>1. /\ Up /\ wire.accounts < i /\ wire.accounts \in Nat /\ i \in Nat
      /\ wire.from <= Writes[i].slot /\ ~ Waits(i) /\ Writes' = Writes
  BY ReadPast
<1>2. ChainInv /\ ProcessTypes
  BY IInvParts
<1>3. /\ Comes(i)
      /\ \A j \in DOMAIN Writes : Comes(j)' <=> Comes(j) /\ j # i
      /\ \A j \in DOMAIN Writes : Comes(j) => i <= j
  BY DEF AccountRead
<1>4. \A j \in DOMAIN Writes : Waits(j)' <=> Waits(j)
  BY <1>1 DEF Waits, PairedRead, Became
<1>5. \A j \in DOMAIN Writes : j \in Nat /\ Writes[j].slot \in Nat
  BY <1>2, WriteFields
<1>6. \A j \in DOMAIN Writes : Settled(j)' <=> Settled(j) \/ j = i
  BY <1>1, <1>3, <1>4 DEF Settled
<1>7. \A j \in DOMAIN Writes : j < i => Settled(j)
  <2>1. \A j \in DOMAIN Writes : j < i => ~ Waits(j)
    BY PairedPairs
  <2>2. \A j \in DOMAIN Writes : j < i => ~ Comes(j)
    BY <1>1, <1>3, <1>5
  <2> QED BY <2>1, <2>2 DEF Settled
<1>8. ASSUME NEW j \in DOMAIN Writes, i < j PROVE ~ Settled(j)
  <2>1. Writes[i].slot <= Writes[j].slot
    BY <1>2, <1>8, WriteOrder
  <2>2. wire.from \in Nat
    BY <1>2, WireFields
  <2>3. wire.accounts < j /\ wire.from <= Writes[j].slot
    BY <1>1, <1>5, <1>8, <2>1, <2>2
  <2> QED BY <1>2, <2>3, ComesIs DEF Settled
<1> QED BY <1>3, <1>6, <1>7, <1>8 DEF Settles, Settled

LEMMA CompletingSettles ==
  ASSUME IInv, NEW k \in DOMAIN Runs, RunRead(k), NEW i \in DOMAIN Writes, CompletingRead(k, i)
  PROVE  Settles(i)
<1>1. Up /\ Writes' = Writes
  BY RunPast
<1>2. ChainInv /\ ProcessTypes /\ HalvesWereRead
  BY <1>1, PairParts
<1>3. Waits(i) /\ \A j \in DOMAIN Writes : Comes(j)' <=> Comes(j)
  BY DEF CompletingRead, RunRead
<1>4. /\ \A j \in DOMAIN Writes : Waits(j)' <=> Waits(j) /\ j # i
      /\ \A j \in DOMAIN Writes : j < i => ~ Waits(j)
  BY CompletingPairs
<1>5. ~ Comes(i)
  BY <1>1, <1>3, ComesOrWaits
<1>6. i <= wire.accounts /\ wire.from <= Writes[i].slot
  BY <1>2, <1>3, WaitsIs
<1>7. /\ \A j \in DOMAIN Writes : j \in Nat /\ Writes[j].slot \in Nat
      /\ i \in Nat /\ wire.accounts \in Nat /\ wire.from \in Nat
  BY <1>2, WriteFields, WireFields
<1>8. \A j \in DOMAIN Writes : Settled(j)' <=> Settled(j) \/ j = i
  BY <1>3, <1>4, <1>5 DEF Settled
<1>9. ASSUME NEW j \in DOMAIN Writes, j < i PROVE Settled(j)
  <2>1. ~ (wire.accounts < j)
    BY <1>6, <1>7, <1>9
  <2>2. ~ Comes(j)
    BY <1>2, <2>1, ComesIs
  <2> QED BY <1>4, <1>9, <2>2 DEF Settled
<1>10. ASSUME NEW j \in DOMAIN Writes, i < j, SameMarket(i, j) PROVE ~ Settled(j)
  <2>1. SUFFICES ASSUME ~ Comes(j) PROVE Waits(j)
    BY DEF Settled
  <2>2. Writes[i].slot <= Writes[j].slot
    BY <1>2, <1>10, WriteOrder
  <2>3. wire.from <= Writes[j].slot
    BY <1>6, <1>7, <2>2
  <2>4. j <= wire.accounts
    BY <1>2, <1>7, <2>1, <2>3, ComesIs
  <2>5. WaitsInOrder(i, j)
    BY <1>1, PairParts
  <2> QED BY <1>3, <1>10, <2>4, <2>5 DEF WaitsInOrder
<1> QED BY <1>3, <1>8, <1>9, <1>10 DEF Settles, Settled

Settling(i) ==
  /\ Reading
  /\ Settles(i)
  /\ correlator'.latest = NowLatest(i)
  /\ Queues(i)

(* What a market is compared with is where the write started, or later. *)
LEMMA BaseIsReached ==
  ASSUME IInv, Up, NEW i \in DOMAIN Writes, Settles(i), Latest(i) # Unknown
  PROVE  Start(i) <= Latest(i)
<1>1. ChainInv /\ ProcessTypes /\ BaseInv
  BY IInvParts
<1>2. Writes[i].market \in Markets /\ i \in Nat
  BY <1>1, WriteFields
<1>3. Latest(i) \in Nat
  BY <1>1, <1>2, MarketNumbers DEF Latest
<1>4. StartsAt(i, Start(i))
  BY <1>1 DEF ChainInv, WritesAreSound
<1>5. CASE Start(i) = 0
  BY <1>3, <1>5
<1>6. ASSUME NEW j \in DOMAIN Writes, j < i, Writes[j].market = Writes[i].market,
             Writes[j].data = Start(i)
      PROVE  Start(i) <= Latest(i)
  <2>1. Settled(j)
    BY <1>6 DEF Settles, SameMarket
  <2>2. Latest(j) = Latest(i)
    BY <1>6 DEF Latest
  <2>3. SettledIsKnown(j)
    BY <1>1 DEF BaseInv
  <2> QED BY <1>6, <2>1, <2>2, <2>3 DEF SettledIsKnown
<1> QED BY <1>4, <1>5, <1>6 DEF StartsAt

(* The rows of a write are trades of it, and every one not known before. *)
LEMMA SettledRows ==
  ASSUME IInv, Up, NEW i \in DOMAIN Writes, Settles(i), Latest(i) # Unknown
  PROVE  LET rows == RowsOf(Derived(ChangeOf(correlator, Writes[i])))
         IN  /\ rows \subseteq TradesOf(Writes[i])
             /\ \A t \in TradesOf(Writes[i]) : Latest(i) < t.order => t \in rows
<1> DEFINE ch == ChangeOf(correlator, Writes[i])
           w == Writes[i]
           rows == RowsOf(Derived(ch))
           Row(n) == [market |-> w.market, slot |-> w.slot, signature |-> w.signature,
                      order |-> n]
<1>1. ChainInv /\ ProcessTypes
  BY IInvParts
<1>2. /\ w \in Update /\ w.market \in Markets /\ w.data \in Nat /\ Start(i) \in Nat
      /\ Start(i) = w.data - Fills[w.signature]
  BY <1>1, WriteFields DEF Start
<1>3. Latest(i) \in Nat /\ Start(i) <= Latest(i)
  BY <1>1, <1>2, MarketNumbers, BaseIsReached DEF Latest
<1>4. /\ ch.before = Latest(i) /\ ch.after = w.data /\ ch.market = w.market
      /\ ch.slot = w.slot /\ ch.signature = w.signature
  BY DEF ChangeOf, Latest
<1> HIDE DEF ch
<1>5. rows = {[market |-> ch.market, slot |-> ch.slot, signature |-> ch.signature,
               order |-> n] : n \in ch.before + 1 .. ch.after}
  BY <1>2, <1>3, <1>4, DerivedRows
<1>6. rows = {Row(n) : n \in Latest(i) + 1 .. w.data}
  BY <1>4, <1>5
<1>7. \A n \in Latest(i) + 1 .. w.data : n \in Start(i) + 1 .. w.data
  BY <1>2, <1>3
<1>8. TradesOf(w) = {Row(n) : n \in Start(i) + 1 .. w.data}
  BY <1>2 DEF TradesOf
<1>9. rows \subseteq TradesOf(w)
  BY <1>6, <1>7, <1>8
<1>10. ASSUME NEW t \in TradesOf(w), Latest(i) < t.order PROVE t \in rows
  <2>1. t.order \in Int /\ t.order <= w.data /\ t = Row(t.order)
    BY <1>2, TradeOfFields
  <2>2. t.order \in Latest(i) + 1 .. w.data
    BY <1>2, <1>3, <1>10, <2>1
  <2> QED BY <1>6, <2>1, <2>2
<1> QED BY <1>9, <1>10 DEF ch

LEMMA SettlingQueue ==
  ASSUME IInv, NEW i \in DOMAIN Writes, Settling(i)
  PROVE  /\ PendingType(pending') /\ pending'.by_slot \subseteq cluster.trades
         /\ pending'.flushed_through = pending.flushed_through
         /\ pending.by_slot \subseteq pending'.by_slot
         /\ \A t \in pending'.by_slot :
              \/ t \in pending.by_slot
              \/ t.slot = Writes[i].slot /\ ~ (Writes[i].slot <= pending.flushed_through)
         /\ \A t \in TradesOf(Writes[i]) :
              \/ Latest(i) = Unknown
              \/ ~ (Latest(i) < t.order)
              \/ t \in pending'.by_slot
              \/ Writes[i].slot <= pending.flushed_through
<1>1. ChainInv /\ ProcessTypes /\ RowsInv /\ Up
  BY IInvParts DEF Settling, Reading, Up
<1>2. PendingType(pending) /\ pending.by_slot \subseteq cluster.trades
  BY <1>1, ProcessFields DEF RowsInv
<1>3. Queues(i) /\ Settles(i)
  BY DEF Settling
<1>4. CASE Latest(i) = Unknown
  BY <1>2, <1>3, <1>4 DEF Queues
<1>5. CASE Latest(i) # Unknown
  <2> DEFINE rows == RowsOf(Derived(ChangeOf(correlator, Writes[i])))
             slot == Writes[i].slot
  <2>1. /\ rows \subseteq TradesOf(Writes[i])
        /\ \A t \in TradesOf(Writes[i]) : Latest(i) < t.order => t \in rows
    BY <1>1, <1>3, <1>5, SettledRows
  <2>2. pending' = Record(pending, slot, rows)
    BY <1>3, <1>5 DEF Queues
  <2> HIDE DEF rows
  <2>3. rows \subseteq cluster.trades /\ rows \subseteq AllTrades
    <3>1. TradesOf(Writes[i]) \subseteq cluster.trades
      BY <1>1 DEF ChainInv, TradesAreWritten
    <3> QED BY <1>1, <2>1, <3>1, ChainFields
  <2>4. \A t \in rows : t.slot = slot
    <3>1. Writes[i] \in Update
      BY <1>1, WriteFields
    <3> QED BY <2>1, <3>1, TradeOfFields
  <2>5. /\ PendingType(pending')
        /\ pending'.flushed_through = pending.flushed_through
        /\ slot <= pending.flushed_through => pending'.by_slot = pending.by_slot
        /\ ~ (slot <= pending.flushed_through) => pending'.by_slot = pending.by_slot \cup rows
    BY <1>2, <2>2, <2>3, RecordIs
  <2> QED BY <1>2, <2>1, <2>3, <2>4, <2>5
<1> QED BY <1>4, <1>5

LEMMA SettlingKnown ==
  ASSUME IInv, NEW i \in DOMAIN Writes, Settling(i)
  PROVE  \A j \in DOMAIN Writes : SettledIsKnown(j)'
<1>1. ChainInv /\ ProcessTypes /\ BaseInv /\ Up
  BY IInvParts DEF Settling, Reading, Up
<1>2. /\ correlator'.latest = [correlator.latest EXCEPT ![Writes[i].market] = Writes[i].data]
      /\ Writes' = Writes /\ Settles(i)
  BY DEF Settling, NowLatest, Reading, Writes
<1>3. TAKE j \in DOMAIN Writes
<1>4. SUFFICES ASSUME Settled(j)', Latest(j)' # Unknown PROVE Writes[j].data <= Latest(j)'
  BY <1>2 DEF SettledIsKnown, Unknown
<1>5. correlator.latest \in [Markets -> States] /\ Writes[i].market \in Markets
        /\ Writes[j].market \in Markets /\ i \in Nat /\ j \in Nat
  BY <1>1, ProcessFields, WriteFields
<1>6. Settled(j) \/ j = i
  BY <1>2, <1>4 DEF Settles
<1>7. CASE SameMarket(i, j)
  <2>1. Latest(j)' = Writes[i].data
    BY <1>2, <1>5, <1>7 DEF Latest, SameMarket
  <2>2. ~ (i < j)
    BY <1>2, <1>5, <1>6, <1>7 DEF Settles
  <2>3. j <= i
    BY <1>5, <2>2
  <2>4. Writes[j].data <= Writes[i].data
    BY <1>1, <1>7, <2>3, WriteOrder DEF SameMarket
  <2> QED BY <2>1, <2>4
<1>8. CASE ~ SameMarket(i, j)
  <2>1. Latest(j)' = Latest(j) /\ Settled(j)
    BY <1>2, <1>5, <1>6, <1>8 DEF Latest, SameMarket
  <2>2. SettledIsKnown(j)
    BY <1>1 DEF BaseInv
  <2> QED BY <1>4, <2>1, <2>2 DEF SettledIsKnown
<1> QED BY <1>7, <1>8

LEMMA SettlingCover ==
  ASSUME IInv, CoverInv, NEW i \in DOMAIN Writes, Settling(i)
  PROVE  CoverInv'
<1>1. ChainInv /\ ProcessTypes /\ BaseInv /\ Up /\ Up'
  BY IInvParts DEF Settling, Reading, Up
<1>2. /\ correlator'.latest = [correlator.latest EXCEPT ![Writes[i].market] = Writes[i].data]
      /\ Writes' = Writes /\ cluster' = cluster /\ Settles(i)
      /\ store' = store /\ since' = since /\ stage' = "next" /\ stage = "next"
  BY DEF Settling, NowLatest, Reading, Writes
<1>3. /\ pending'.flushed_through = pending.flushed_through
      /\ pending.by_slot \subseteq pending'.by_slot
      /\ \A t \in pending'.by_slot :
           \/ t \in pending.by_slot
           \/ t.slot = Writes[i].slot /\ ~ (Writes[i].slot <= pending.flushed_through)
      /\ \A t \in TradesOf(Writes[i]) :
           \/ Latest(i) = Unknown
           \/ ~ (Latest(i) < t.order)
           \/ t \in pending'.by_slot
           \/ Writes[i].slot <= pending.flushed_through
  BY SettlingQueue
<1>4. /\ pending.flushed_through \in 0 .. cluster.rooted
      /\ since \in 0 .. MaxSlot
      /\ \A t \in pending.by_slot : pending.flushed_through < t.slot
      /\ since < MaxSlot => \A m \in Markets : correlator.latest[m] # Unknown
      /\ \A j \in DOMAIN Writes : \A t \in TradesOf(Writes[j]) : Covered(j, t)
  BY <1>1 DEF CoverInv
<1>5. /\ correlator.latest \in [Markets -> States]
      /\ \A j \in DOMAIN Writes :
           /\ Writes[j] \in Update /\ Writes[j].market \in Markets /\ Writes[j].data \in Nat
           /\ Writes[j].slot \in Nat /\ Writes[j].slot <= MaxSlot /\ j \in Nat
           /\ Start(j) \in Nat
      /\ pending.flushed_through \in Nat
  <2>1. cluster.rooted \in Nat
    BY <1>1, ChainFields, SlotBound
  <2>2. \A j \in DOMAIN Writes : Writes[j].slot \in 1 .. MaxSlot
    BY <1>1, WriteFields
  <2> QED BY <1>1, <1>4, <2>1, <2>2, ProcessFields, WriteFields, SlotBound
<1>6. \A t \in pending'.by_slot : pending'.flushed_through < t.slot
  BY <1>3, <1>4, <1>5
<1>7. since' < MaxSlot => \A m \in Markets : correlator'.latest[m] # Unknown
  <2>1. Writes[i].data # Unknown
    BY <1>5 DEF Unknown
  <2> QED BY <1>2, <1>4, <1>5, <2>1
<1>8. ASSUME NEW j \in DOMAIN Writes, NEW t \in TradesOf(Writes[j]) PROVE Covered(j, t)'
  <2>1. Covered(j, t)
    BY <1>4, <1>8
  <2>2. SUFFICES ASSUME since < Writes[j].slot
                 PROVE  /\ Settled(j)' => Recorded(t)'
                        /\ ~ Settled(j)' => Recorded(t)' \/ Latest(j)' < t.order
                        /\ ~ Settled(j)' /\ Writes[j].slot <= pending.flushed_through =>
                             t \in store.rows
    BY <1>2, <1>3 DEF Covered
  <2>3. Recorded(t) => Recorded(t)'
    BY <1>2, <1>3 DEF Recorded
  <2>4. Settled(j)' <=> Settled(j) \/ j = i
    BY <1>2 DEF Settles
  <2>5. ~ Settled(j)' /\ Writes[j].slot <= pending.flushed_through => t \in store.rows
    BY <2>1, <2>2, <2>4 DEF Covered
  <2>6. CASE j = i
    <3>1. Latest(i) # Unknown
      <4>1. since < MaxSlot
        BY <1>4, <1>5, <2>2, <2>6, SlotBound
      <4> QED BY <1>4, <1>5, <4>1 DEF Latest
    <3>2. ~ Settled(i) /\ Covered(i, t)
      BY <1>2, <2>1, <2>6 DEF Settles
    <3>3. CASE Recorded(t)
      BY <2>3, <2>4, <2>6, <3>3
    <3>4. CASE ~ Recorded(t)
      <4>1. Latest(i) < t.order
        BY <2>2, <2>6, <3>2, <3>4 DEF Covered
      <4>2. Writes[i].slot <= pending.flushed_through => t \in store.rows
        BY <2>2, <2>6, <3>2 DEF Covered
      <4>3. t \in pending'.by_slot
        BY <1>3, <1>8, <2>6, <3>1, <3>4, <4>1, <4>2 DEF Recorded
      <4> QED BY <2>4, <2>6, <4>3 DEF Recorded
    <3> QED BY <3>3, <3>4
  <2>7. CASE j # i /\ Settled(j)
    <3>1. Recorded(t)
      BY <2>1, <2>2, <2>7 DEF Covered
    <3> QED BY <2>3, <2>4, <2>7, <3>1
  <2>8. CASE j # i /\ ~ Settled(j)
    <3>1. CASE SameMarket(i, j)
      <4>1. i < j
        BY <1>2, <1>5, <2>8, <3>1 DEF Settles
      <4>2. Writes[i].data <= Start(j)
        BY <1>1, <3>1, <4>1, WriteOrder DEF SameMarket
      <4>3. Start(j) < t.order /\ t.order \in Int
        BY <1>5, <1>8, TradeOfFields DEF Start
      <4>4. Latest(j)' = Writes[i].data
        BY <1>2, <1>5, <3>1 DEF Latest, SameMarket
      <4>5. Latest(j)' < t.order
        BY <1>5, <4>2, <4>3, <4>4
      <4> QED BY <2>4, <2>5, <2>8, <4>5
    <3>2. CASE ~ SameMarket(i, j)
      <4>1. Latest(j)' = Latest(j)
        BY <1>2, <1>5, <3>2 DEF Latest, SameMarket
      <4>2. Recorded(t) \/ Latest(j) < t.order
        BY <2>1, <2>2, <2>8 DEF Covered
      <4> QED BY <2>3, <2>4, <2>5, <2>8, <4>1, <4>2
    <3> QED BY <3>1, <3>2
  <2> QED BY <2>5, <2>6, <2>7, <2>8
<1> QED BY <1>1, <1>2, <1>3, <1>4, <1>6, <1>7, <1>8 DEF CoverInv
-----------------------------------------------------------------------------
(* What the comparisons start from, after a half was read. *)

LEMMA BaseParts ==
  ASSUME IInv, Up
  PROVE  /\ \A m \in Markets : MarketIsKnown(m)
         /\ \A i \in DOMAIN Writes : SettledIsKnown(i) /\ StaleIsKnown(i) /\ WaitsBefore(i)
BY IInvParts DEF BaseInv

(* Nothing is compared, and what stops coming or waiting is known. *)
Passing ==
  /\ Up /\ Up'
  /\ UNCHANGED <<cluster, sent, store, since, pending>>
  /\ stage' = "checkpoint" => UNCHANGED <<stage, todo>>
  /\ correlator'.latest = correlator.latest
  /\ \A j \in DOMAIN Writes : Settled(j) => Settled(j)'
  /\ \A j \in DOMAIN Writes :
       Settled(j)' =>
         Settled(j) \/ (Latest(j) # Unknown /\ Writes[j].data <= Latest(j))

LEMMA PassingKnown ==
  ASSUME IInv, Passing
  PROVE  \A j \in DOMAIN Writes : SettledIsKnown(j)'
<1>1. \A j \in DOMAIN Writes : SettledIsKnown(j)
  BY BaseParts DEF Passing
<1>2. \A j \in DOMAIN Writes : Latest(j)' = Latest(j) /\ Writes' = Writes
  BY DEF Passing, Latest, Writes
<1> QED BY <1>1, <1>2 DEF Passing, SettledIsKnown, Unknown

LEMMA PassingCover ==
  ASSUME IInv, CoverInv, Passing
  PROVE  CoverInv'
<1>1. /\ ChainInv /\ ProcessTypes /\ Up /\ Up'
  BY IInvParts DEF Passing
<1>2. /\ Writes' = Writes /\ cluster' = cluster /\ pending' = pending
      /\ store' = store /\ since' = since /\ correlator'.latest = correlator.latest
      /\ stage' = "checkpoint" => stage = "checkpoint" /\ todo' = todo
  BY DEF Passing, Writes
<1>3. ASSUME NEW j \in DOMAIN Writes, NEW t \in TradesOf(Writes[j]) PROVE Covered(j, t)'
  <2>1. Covered(j, t)
    BY <1>1, <1>3 DEF CoverInv
  <2>2. (Recorded(t)' <=> Recorded(t)) /\ Latest(j)' = Latest(j)
    BY <1>2 DEF Recorded, Latest
  <2>3. Settled(j) => Settled(j)'
    BY DEF Passing
  <2>4. Settled(j)' /\ ~ Settled(j) /\ since < Writes[j].slot => Recorded(t)
    <3>1. SUFFICES ASSUME Settled(j)', ~ Settled(j), since < Writes[j].slot,
                          Latest(j) < t.order
                   PROVE  FALSE
      BY <2>1 DEF Covered
    <3>2. Latest(j) # Unknown /\ Writes[j].data <= Latest(j)
      BY <3>1 DEF Passing
    <3>3. Writes[j] \in Update /\ Writes[j].market \in Markets /\ Writes[j].data \in Nat
      BY <1>1, WriteFields
    <3>4. t.order \in Int /\ t.order <= Writes[j].data
      BY <1>3, <3>3, TradeOfFields
    <3>5. Latest(j) \in Int
      BY <1>1, <3>3, MarketNumbers DEF Latest
    <3> QED BY <3>1, <3>2, <3>3, <3>4, <3>5
  <2> QED BY <1>2, <2>1, <2>2, <2>3, <2>4 DEF Covered
<1>4. /\ pending.flushed_through \in 0 .. cluster.rooted
      /\ since \in 0 .. MaxSlot
      /\ \A t \in pending.by_slot : pending.flushed_through < t.slot
      /\ since < MaxSlot => \A m \in Markets : correlator.latest[m] # Unknown
  BY <1>1 DEF CoverInv
<1> QED BY <1>1, <1>2, <1>3, <1>4 DEF CoverInv, Unknown

(* The correlator compares with the same, and the same halves wait. *)
LEMMA SameBase ==
  ASSUME IInv, Passing, correlator'.known_at = correlator.known_at,
         correlator'.accounts = correlator.accounts,
         \A j \in DOMAIN Writes : Comes(j)' => Comes(j)
  PROVE  BaseInv'
<1>1. /\ \A m \in Markets : MarketIsKnown(m)
      /\ \A i \in DOMAIN Writes : SettledIsKnown(i) /\ StaleIsKnown(i) /\ WaitsBefore(i)
  BY BaseParts DEF Passing
<1>2. Writes' = Writes /\ cluster' = cluster /\ correlator'.latest = correlator.latest
  BY DEF Passing, Writes
<1>3. \A j \in DOMAIN Writes :
        (Waits(j)' <=> Waits(j)) /\ Latest(j)' = Latest(j) /\ KnownAt(j)' = KnownAt(j)
  BY <1>2 DEF Waits, Latest, KnownAt
<1>4. \A m \in Markets : MarketIsKnown(m)'
  BY <1>1, <1>2, <1>3 DEF MarketIsKnown, Unknown
<1>5. \A j \in DOMAIN Writes : StaleIsKnown(j)'
  BY <1>1, <1>2, <1>3 DEF StaleIsKnown, SameMarket, Unknown
<1>6. \A j \in DOMAIN Writes : WaitsBefore(j)'
  BY <1>1, <1>2, <1>3 DEF WaitsBefore
<1> QED BY <1>2, <1>4, <1>5, <1>6, PassingKnown DEF BaseInv

(* A half starts to wait. *)
LEMMA WaitingBase ==
  ASSUME IInv, NEW i \in DOMAIN Writes, AccountRead(i), WaitingRead(i)
  PROVE  Passing /\ BaseInv'
<1>1. ChainInv /\ ProcessTypes /\ Up /\ Up' /\ Writes' = Writes /\ cluster' = cluster
  BY IInvParts, ReadPast
<1>2. /\ \A j \in DOMAIN Writes : Waits(j)' <=> Waits(j) \/ j = i
      /\ \A j \in DOMAIN Writes : Comes(j)' <=> Comes(j) /\ j # i
      /\ \A j \in DOMAIN Writes : Comes(j) => i <= j
      /\ Comes(i) /\ Writes[i].slot < cluster.slot
  BY WaitingPairs DEF AccountRead
<1>3. /\ correlator'.latest = correlator.latest
      /\ correlator'.known_at = [correlator.known_at EXCEPT ![Writes[i].market] = Writes[i].slot]
      /\ pending' = pending /\ ~ (Writes[i].slot < KnownAt(i))
  BY DEF WaitingRead, Became, NowKnown
<1>4. Passing
  <2>1. \A j \in DOMAIN Writes : Settled(j)' <=> Settled(j)
    BY <1>2 DEF Settled
  <2> QED BY <1>1, <1>3, <2>1 DEF Passing, AccountRead, Reading
<1>5. /\ \A m \in Markets : MarketIsKnown(m)
      /\ \A j \in DOMAIN Writes : SettledIsKnown(j) /\ StaleIsKnown(j) /\ WaitsBefore(j)
  BY <1>1, BaseParts
<1>6. /\ \A j \in DOMAIN Writes :
           /\ j \in Nat /\ Writes[j].slot \in Nat /\ Writes[j].market \in Markets
           /\ KnownAt(j) \in Int
      /\ correlator.known_at \in [Markets -> Unknown .. MaxSlot]
  BY <1>1, WriteFields, MarketNumbers, ProcessFields DEF KnownAt
<1>7. KnownAt(i) <= Writes[i].slot
  BY <1>3, <1>6
<1>8. \A j \in DOMAIN Writes :
        /\ SameMarket(i, j) => KnownAt(j)' = Writes[i].slot /\ KnownAt(j) = KnownAt(i)
        /\ ~ SameMarket(i, j) => KnownAt(j)' = KnownAt(j)
        /\ Latest(j)' = Latest(j)
  BY <1>1, <1>3, <1>6 DEF KnownAt, SameMarket, Latest
<1>9. ASSUME NEW m \in Markets PROVE MarketIsKnown(m)'
  <2>1. MarketIsKnown(m)
    BY <1>5
  <2>2. CASE m # Writes[i].market
    <3>1. correlator'.known_at[m] = correlator.known_at[m]
      BY <1>3, <1>6, <2>2
    <3>2. \A j \in DOMAIN Writes : Waits(j) => Waits(j)'
      BY <1>2
    <3> QED BY <1>1, <1>3, <2>1, <3>1, <3>2 DEF MarketIsKnown, Unknown
  <2>3. CASE m = Writes[i].market
    <3>1. correlator'.known_at[m] = Writes[i].slot
      BY <1>3, <1>6, <2>3
    <3>2. Writes[i].slot # Unknown /\ Waits(i)'
      BY <1>2, <1>6 DEF Unknown
    <3>3. correlator.known_at[m] <= Writes[i].slot /\ correlator.known_at[m] \in Int
      BY <1>6, <1>7, <2>3 DEF KnownAt
    <3>4. ASSUME NEW j \in DOMAIN Writes, Writes[j].slot <= correlator.known_at[m]
          PROVE  Writes[j].slot <= Writes[i].slot
      BY <1>6, <3>3, <3>4
    <3>5. correlator.latest[m] \notin {Unknown, 0} =>
            \E j \in DOMAIN Writes :
              /\ Writes[j].market = m /\ Writes[j].slot <= Writes[i].slot
              /\ Writes[j].data = correlator.latest[m]
      BY <2>1, <3>4 DEF MarketIsKnown
    <3>6. \E j \in DOMAIN Writes : Writes[j].market = m /\ Waits(j)'
      BY <2>3, <3>2
    <3> QED BY <1>1, <1>2, <1>3, <3>1, <3>2, <3>5, <3>6 DEF MarketIsKnown, Unknown
  <2> QED BY <2>2, <2>3
<1>10. ASSUME NEW j \in DOMAIN Writes PROVE StaleIsKnown(j)'
  <2>1. CASE SameMarket(i, j)
    <3>1. SUFFICES ASSUME Comes(j)', Writes[j].slot < Writes[i].slot PROVE FALSE
      BY <1>1, <1>8, <2>1 DEF StaleIsKnown
    <3>2. i < j
      BY <1>2, <1>6, <3>1
    <3>3. Writes[i].slot <= Writes[j].slot
      BY <1>1, <3>2, WriteOrder
    <3> QED BY <1>6, <3>1, <3>3
  <2>2. CASE ~ SameMarket(i, j)
    <3>1. \A a \in DOMAIN Writes : SameMarket(j, a) => (Waits(a)' <=> Waits(a))
      BY <1>2, <2>2 DEF SameMarket
    <3> QED BY <1>1, <1>2, <1>5, <1>8, <2>2, <3>1 DEF StaleIsKnown, SameMarket, Unknown
  <2> QED BY <2>1, <2>2
<1>11. ASSUME NEW j \in DOMAIN Writes PROVE WaitsBefore(j)'
  <2>1. CASE j = i
    BY <1>1, <1>6, <1>8, <2>1 DEF WaitsBefore, SameMarket
  <2>2. CASE j # i
    <3>1. SUFFICES ASSUME Waits(j) PROVE Writes[j].slot <= KnownAt(j)'
      BY <1>1, <1>2, <2>2 DEF WaitsBefore
    <3>2. Writes[j].slot <= KnownAt(j)
      BY <1>5, <3>1 DEF WaitsBefore
    <3> QED BY <1>6, <1>7, <1>8, <3>2
  <2> QED BY <2>1, <2>2
<1> QED BY <1>1, <1>4, <1>9, <1>10, <1>11, PassingKnown DEF BaseInv
LEMMA PairedBase ==
  ASSUME IInv, NEW i \in DOMAIN Writes, AccountRead(i), PairedRead(i)
  PROVE  Settling(i) /\ BaseInv'
<1>1. ChainInv /\ ProcessTypes /\ Up /\ Up' /\ Writes' = Writes /\ cluster' = cluster
  BY IInvParts, ReadPast
<1>2. /\ \A j \in DOMAIN Writes : Comes(j)' <=> Comes(j) /\ j # i
      /\ \A j \in DOMAIN Writes : Comes(j) => i <= j
      /\ Writes[i].slot < cluster.slot
  BY DEF AccountRead
<1>3. /\ correlator'.latest = [correlator.latest EXCEPT ![Writes[i].market] = Writes[i].data]
      /\ correlator'.known_at = [correlator.known_at EXCEPT ![Writes[i].market] = Writes[i].slot]
      /\ correlator'.accounts = correlator.accounts
      /\ ~ (Writes[i].slot < KnownAt(i))
  BY DEF PairedRead, Became, NowKnown, NowLatest
<1>4. Settling(i)
  BY PairedSettles DEF Settling, AccountRead, PairedRead, Became
<1>5. /\ \A m \in Markets : MarketIsKnown(m)
      /\ \A j \in DOMAIN Writes : SettledIsKnown(j) /\ StaleIsKnown(j) /\ WaitsBefore(j)
  BY <1>1, BaseParts
<1>6. /\ \A j \in DOMAIN Writes :
           /\ j \in Nat /\ Writes[j].slot \in Nat /\ Writes[j].market \in Markets
           /\ Writes[j].data \in Nat /\ KnownAt(j) \in Int
      /\ correlator.known_at \in [Markets -> Unknown .. MaxSlot]
      /\ correlator.latest \in [Markets -> States]
  BY <1>1, WriteFields, MarketNumbers, ProcessFields DEF KnownAt
<1>7. KnownAt(i) <= Writes[i].slot
  BY <1>3, <1>6
<1>8. \A j \in DOMAIN Writes :
        /\ SameMarket(i, j) => KnownAt(j)' = Writes[i].slot /\ KnownAt(j) = KnownAt(i)
        /\ ~ SameMarket(i, j) => KnownAt(j)' = KnownAt(j) /\ Latest(j)' = Latest(j)
        /\ Waits(j)' <=> Waits(j)
  BY <1>1, <1>3, <1>6 DEF KnownAt, SameMarket, Latest, Waits
<1>9. ASSUME NEW m \in Markets PROVE MarketIsKnown(m)'
  <2>1. CASE m # Writes[i].market
    <3>1. correlator'.known_at[m] = correlator.known_at[m]
            /\ correlator'.latest[m] = correlator.latest[m]
      BY <1>3, <1>6, <2>1
    <3> QED BY <1>1, <1>5, <1>8, <3>1 DEF MarketIsKnown, Unknown
  <2>2. CASE m = Writes[i].market
    <3>1. correlator'.known_at[m] = Writes[i].slot /\ correlator'.latest[m] = Writes[i].data
      BY <1>3, <1>6, <2>2
    <3>2. Writes[i].slot # Unknown /\ Writes[i].data # Unknown /\ Writes[i].slot <= Writes[i].slot
      BY <1>6 DEF Unknown
    <3> QED BY <1>1, <1>2, <2>2, <3>1, <3>2 DEF MarketIsKnown, Unknown
  <2> QED BY <2>1, <2>2
<1>10. ASSUME NEW j \in DOMAIN Writes PROVE StaleIsKnown(j)'
  <2>1. CASE SameMarket(i, j)
    <3>1. SUFFICES ASSUME Comes(j)', Writes[j].slot < Writes[i].slot PROVE FALSE
      BY <1>1, <1>8, <2>1 DEF StaleIsKnown
    <3>2. i < j
      BY <1>2, <1>6, <3>1
    <3>3. Writes[i].slot <= Writes[j].slot
      BY <1>1, <3>2, WriteOrder
    <3> QED BY <1>6, <3>1, <3>3
  <2>2. CASE ~ SameMarket(i, j)
    BY <1>1, <1>2, <1>5, <1>8, <2>2 DEF StaleIsKnown, SameMarket, Unknown
  <2> QED BY <2>1, <2>2
<1>11. ASSUME NEW j \in DOMAIN Writes PROVE WaitsBefore(j)'
  <2>1. SUFFICES ASSUME Waits(j) PROVE Writes[j].slot <= KnownAt(j)'
    BY <1>1, <1>8 DEF WaitsBefore
  <2>2. Writes[j].slot <= KnownAt(j)
    BY <1>5, <2>1 DEF WaitsBefore
  <2> QED BY <1>6, <1>7, <1>8, <2>2
<1> QED BY <1>1, <1>4, <1>9, <1>10, <1>11, SettlingKnown DEF BaseInv

LEMMA CompletingBase ==
  ASSUME IInv, NEW k \in DOMAIN Runs, RunRead(k), NEW i \in DOMAIN Writes, CompletingRead(k, i)
  PROVE  Settling(i) /\ BaseInv'
<1>1. ChainInv /\ ProcessTypes /\ Up /\ Up' /\ Writes' = Writes /\ cluster' = cluster
  BY IInvParts, RunPast
<1>2. /\ \A j \in DOMAIN Writes : Comes(j)' <=> Comes(j)
      /\ \A j \in DOMAIN Writes : Waits(j)' <=> Waits(j) /\ j # i
      /\ Waits(i)
  BY CompletingPairs DEF RunRead, CompletingRead
<1>3. /\ correlator'.latest = [correlator.latest EXCEPT ![Writes[i].market] = Writes[i].data]
      /\ correlator'.known_at = correlator.known_at
  BY DEF CompletingRead, Became, NowLatest
<1>4. Settling(i)
  BY CompletingSettles DEF Settling, RunRead, CompletingRead, Became
<1>5. /\ \A m \in Markets : MarketIsKnown(m)
      /\ \A j \in DOMAIN Writes : SettledIsKnown(j) /\ StaleIsKnown(j) /\ WaitsBefore(j)
  BY <1>1, BaseParts
<1>6. /\ \A j \in DOMAIN Writes :
           /\ Writes[j].slot \in Nat /\ Writes[j].market \in Markets
           /\ Writes[j].data \in Nat /\ KnownAt(j) \in Int
      /\ correlator.latest \in [Markets -> States]
  BY <1>1, WriteFields, MarketNumbers, ProcessFields DEF KnownAt
<1>7. Writes[i].slot <= KnownAt(i)
  BY <1>2, <1>5 DEF WaitsBefore
<1>8. \A j \in DOMAIN Writes :
        /\ KnownAt(j)' = KnownAt(j)
        /\ ~ SameMarket(i, j) => Latest(j)' = Latest(j)
  BY <1>1, <1>3, <1>6 DEF KnownAt, SameMarket, Latest
<1>9. ASSUME NEW m \in Markets PROVE MarketIsKnown(m)'
  <2>1. CASE m # Writes[i].market
    <3>1. correlator'.latest[m] = correlator.latest[m]
      BY <1>3, <1>6, <2>1
    <3>2. \A j \in DOMAIN Writes : Writes[j].market = m => (Waits(j)' <=> Waits(j))
      BY <1>2, <2>1
    <3> QED BY <1>1, <1>3, <1>5, <3>1, <3>2 DEF MarketIsKnown, Unknown
  <2>2. CASE m = Writes[i].market
    <3>1. correlator'.latest[m] = Writes[i].data
      BY <1>3, <1>6, <2>2
    <3>2. /\ correlator.known_at[m] # Unknown /\ Writes[i].data # Unknown
          /\ Writes[i].slot <= correlator.known_at[m]
      BY <1>6, <1>7, <2>2 DEF Unknown, KnownAt
    <3>3. correlator.known_at[m] < cluster.slot
      BY <1>5 DEF MarketIsKnown
    <3> QED BY <1>1, <1>3, <2>2, <3>1, <3>2, <3>3 DEF MarketIsKnown, Unknown
  <2> QED BY <2>1, <2>2
<1>10. ASSUME NEW j \in DOMAIN Writes PROVE StaleIsKnown(j)'
  <2>1. CASE SameMarket(i, j)
    <3>1. SUFFICES ASSUME Comes(j), Writes[j].slot < KnownAt(j) PROVE FALSE
      BY <1>1, <1>2, <1>8 DEF StaleIsKnown
    <3>2. SameMarket(j, i)
      BY <2>1 DEF SameMarket
    <3> QED BY <1>2, <1>5, <3>1, <3>2 DEF StaleIsKnown
  <2>2. CASE ~ SameMarket(i, j)
    BY <1>1, <1>2, <1>5, <1>8, <2>2 DEF StaleIsKnown, SameMarket, Unknown
  <2> QED BY <2>1, <2>2
<1>11. ASSUME NEW j \in DOMAIN Writes PROVE WaitsBefore(j)'
  BY <1>1, <1>2, <1>5, <1>8 DEF WaitsBefore
<1> QED BY <1>1, <1>4, <1>9, <1>10, <1>11, SettlingKnown DEF BaseInv

LEMMA ReadTypes ==
  ASSUME IInv, Reading, IsCorrelator(correlator'), PendingType(pending'),
         pending'.by_slot \subseteq cluster.trades
  PROVE  /\ ChainInv' /\ ProcessTypes' /\ Fresh' /\ RowsInv'
<1>1. ChainInv /\ ProcessTypes /\ RowsInv
  BY IInvParts
<1>2. /\ UNCHANGED <<cluster, sent, stage, todo, store, since>> /\ stage = "next"
      /\ wire' \in Wires
  BY DEF Reading
<1>3. ChainInv'
  BY <1>1, <1>2, ChainFrame
<1>4. ProcessTypes'
  <2>1. /\ store' \in Stores /\ stage' \in {"down", "seed", "next", "checkpoint"}
        /\ todo' \in [slot : 0 .. MaxSlot, markets : SUBSET Markets]
    BY <1>1, <1>2 DEF ProcessTypes
  <2> QED BY <1>2, <2>1 DEF ProcessTypes, IsCorrelator, PendingType, Wires, Stores
<1>5. Fresh'
  BY <1>2 DEF Fresh
<1>6. RowsInv'
  BY <1>1, <1>2, RowsStand
<1> QED BY <1>3, <1>4, <1>5, <1>6

LEMMA ReceiveAccountKeeps ==
  ASSUME IInv, ReceiveAccount, QueuesHold
  PROVE  IInv' /\ (CoverInv => CoverInv')
<1>1. /\ ChainInv /\ ProcessTypes /\ RowsInv /\ PendingType(pending)
      /\ pending.by_slot \subseteq cluster.trades
  BY IInvParts, ProcessFields DEF RowsInv
<1>2. WireInv'
  BY AccountIsRead
<1>3. PICK i \in DOMAIN Writes : AccountRead(i) /\ Handle(AcceptAccount(correlator, Writes[i]))
  BY AccountIsRead
<1>4. Reading /\ Up /\ Up'
  BY <1>3, ReadPast DEF AccountRead
<1>5. CASE StaleRead(i)
  <2>1. /\ Became(correlator.latest, correlator.known_at, correlator.transactions,
                  correlator.accounts)
        /\ pending' = pending
    BY <1>5 DEF StaleRead
  <2>2. /\ correlator'.latest = correlator.latest
        /\ correlator'.known_at = correlator.known_at
        /\ correlator'.accounts = correlator.accounts /\ IsCorrelator(correlator')
    BY <2>1 DEF Became
  <2>3. /\ \A j \in DOMAIN Writes : Waits(j)' <=> Waits(j)
        /\ \A j \in DOMAIN Writes : Comes(j)' <=> Comes(j) /\ j # i
    BY <1>3, <1>4, <2>2 DEF Waits, AccountRead, Reading, Writes
  <2>4. Latest(i) # Unknown /\ Writes[i].data <= Latest(i)
    BY <1>3, <1>4, <1>5, BaseParts DEF StaleIsKnown, StaleRead, AccountRead
  <2>5. Passing
    <3>1. /\ \A j \in DOMAIN Writes : Settled(j) => Settled(j)'
          /\ \A j \in DOMAIN Writes : Settled(j)' => Settled(j) \/ j = i
      BY <2>3 DEF Settled
    <3> QED BY <1>4, <2>1, <2>2, <2>4, <3>1 DEF Passing, Reading
  <2>6. BaseInv'
    BY <2>2, <2>3, <2>5, SameBase
  <2>7. PairInv'
    BY <1>3, <1>5, StalePairs
  <2>8. ChainInv' /\ ProcessTypes' /\ Fresh' /\ RowsInv'
    BY <1>1, <1>4, <2>1, <2>2, ReadTypes
  <2> QED BY <1>2, <2>5, <2>6, <2>7, <2>8, PassingCover DEF IInv
<1>6. CASE PairedRead(i)
  <2>1. Settling(i) /\ BaseInv'
    BY <1>3, <1>6, PairedBase
  <2>2. PairInv'
    BY <1>3, <1>6, PairedPairs
  <2>3. IsCorrelator(correlator')
    BY <1>6 DEF PairedRead, Became
  <2>4. PendingType(pending') /\ pending'.by_slot \subseteq cluster.trades
    BY <2>1, SettlingQueue
  <2>5. ChainInv' /\ ProcessTypes' /\ Fresh' /\ RowsInv'
    BY <1>4, <2>3, <2>4, ReadTypes
  <2> QED BY <1>2, <2>1, <2>2, <2>5, SettlingCover DEF IInv
<1>7. CASE WaitingRead(i)
  <2>1. Passing /\ BaseInv'
    BY <1>3, <1>7, WaitingBase
  <2>2. PairInv'
    BY <1>3, <1>7, WaitingPairs
  <2>3. IsCorrelator(correlator') /\ pending' = pending
    BY <1>7 DEF WaitingRead, Became
  <2>4. ChainInv' /\ ProcessTypes' /\ Fresh' /\ RowsInv'
    BY <1>1, <1>4, <2>3, ReadTypes
  <2> QED BY <1>2, <2>1, <2>2, <2>4, PassingCover DEF IInv
<1> QED BY <1>3, <1>5, <1>6, <1>7, AccountOutcomes

LEMMA ReceiveTransactionKeeps ==
  ASSUME IInv, ReceiveTransaction, QueuesHold
  PROVE  IInv' /\ (CoverInv => CoverInv')
<1>1. /\ ChainInv /\ ProcessTypes /\ RowsInv /\ PendingType(pending)
      /\ pending.by_slot \subseteq cluster.trades
  BY IInvParts, ProcessFields DEF RowsInv
<1>2. WireInv'
  BY RunIsRead
<1>3. PICK k \in DOMAIN Runs : RunRead(k) /\ Handle(AcceptTransaction(correlator, Runs[k]))
  BY RunIsRead
<1>4. Reading /\ Up /\ Up'
  BY <1>3, RunPast DEF RunRead
<1>5. ASSUME FailedRead(k) \/ UnpairedRead(k)
      PROVE  IInv' /\ (CoverInv => CoverInv')
  <2>1. /\ correlator'.latest = correlator.latest
        /\ correlator'.known_at = correlator.known_at
        /\ correlator'.accounts = correlator.accounts /\ IsCorrelator(correlator')
        /\ pending' = pending
    BY <1>5 DEF FailedRead, UnpairedRead, Became
  <2>2. /\ \A j \in DOMAIN Writes : Waits(j)' <=> Waits(j)
        /\ \A j \in DOMAIN Writes : Comes(j)' <=> Comes(j)
    BY <1>3, <1>4, <2>1 DEF Waits, RunRead, Reading, Writes
  <2>3. Passing
    <3>1. \A j \in DOMAIN Writes : Settled(j) <=> Settled(j)'
      BY <2>2 DEF Settled
    <3> QED BY <1>4, <2>1, <3>1 DEF Passing, Reading
  <2>4. BaseInv'
    BY <2>1, <2>2, <2>3, SameBase
  <2>5. PairInv'
    BY <1>3, <1>5, FailedPairs, UnpairedPairs
  <2>6. ChainInv' /\ ProcessTypes' /\ Fresh' /\ RowsInv'
    BY <1>1, <1>4, <2>1, ReadTypes
  <2> QED BY <1>2, <2>3, <2>4, <2>5, <2>6, PassingCover DEF IInv
<1>6. ASSUME NEW i \in DOMAIN Writes, CompletingRead(k, i)
      PROVE  IInv' /\ (CoverInv => CoverInv')
  <2>1. Settling(i) /\ BaseInv'
    BY <1>3, <1>6, CompletingBase
  <2>2. PairInv'
    BY <1>3, <1>6, CompletingPairs
  <2>3. IsCorrelator(correlator')
    BY <1>6 DEF CompletingRead, Became
  <2>4. PendingType(pending') /\ pending'.by_slot \subseteq cluster.trades
    BY <2>1, SettlingQueue
  <2>5. ChainInv' /\ ProcessTypes' /\ Fresh' /\ RowsInv'
    BY <1>4, <2>3, <2>4, ReadTypes
  <2> QED BY <1>2, <2>1, <2>2, <2>5, SettlingCover DEF IInv
<1> QED BY <1>3, <1>5, <1>6, RunOutcomes
-----------------------------------------------------------------------------
(* What stands while no half is read. *)

Resting ==
  /\ Up /\ Up'
  /\ UNCHANGED <<cluster, sent>>
  /\ wire' \in Wires
  /\ wire'.from = wire.from
  /\ wire'.accounts = wire.accounts /\ wire'.transactions = wire.transactions
  /\ correlator'.accounts = correlator.accounts
  /\ correlator'.transactions = correlator.transactions

LEMMA PairsRest ==
  ASSUME IInv, Resting
  PROVE  /\ ChainInv' /\ PairInv'
         /\ cluster' = cluster /\ Writes' = Writes /\ Runs' = Runs
         /\ DueAccounts' = DueAccounts /\ DueTransactions' = DueTransactions
         /\ \A j \in DOMAIN Writes :
              /\ Comes(j)' <=> Comes(j)
              /\ Waits(j)' <=> Waits(j)
              /\ Settled(j)' <=> Settled(j)
<1>1. ChainInv /\ Up /\ Up'
  BY IInvParts DEF Resting
<1>2. /\ wire'.from = wire.from
      /\ wire'.accounts = wire.accounts /\ wire'.transactions = wire.transactions
      /\ correlator'.accounts = correlator.accounts
      /\ correlator'.transactions = correlator.transactions
  BY DEF Resting
<1>3. ChainInv' /\ cluster' = cluster /\ Writes' = Writes /\ Runs' = Runs
  BY <1>1, ChainFrame DEF Resting
<1>4. sent' = sent
  BY DEF Resting
<1>5. DueAccounts' = DueAccounts /\ DueTransactions' = DueTransactions
  BY <1>2, <1>4 DEF DueAccounts, DueTransactions, Due
<1>6. \A j \in DOMAIN Writes :
        /\ Comes(j)' <=> Comes(j)
        /\ Waits(j)' <=> Waits(j)
        /\ Settled(j)' <=> Settled(j)
  BY <1>2, <1>3, <1>5 DEF Comes, Waits, Settled
<1>7. HalvesWereRead' /\ correlator'.transactions \subseteq cluster'.landed
  BY <1>1, <1>2, <1>3, PairParts DEF HalvesWereRead
<1>8. \A i \in DOMAIN Writes, k \in DOMAIN Runs : WaitingHasToRun(i, k)' /\ RanIsWaiting(i, k)'
  BY <1>1, <1>2, <1>3, <1>6, PairParts DEF WaitingHasToRun, RanIsWaiting, IsRunOf
<1>9. \A k \in DOMAIN Runs : WaitingRan(k)'
  BY <1>1, <1>2, <1>3, PairParts DEF WaitingRan
<1>10. \A i, j \in DOMAIN Writes : WaitsInOrder(i, j)'
  BY <1>1, <1>2, <1>3, <1>6, PairParts DEF WaitsInOrder, SameMarket
<1> QED BY <1>1, <1>3, <1>5, <1>6, <1>7, <1>8, <1>9, <1>10 DEF PairInv

LEMMA BaseRests ==
  ASSUME IInv, Resting,
         correlator'.latest = correlator.latest, correlator'.known_at = correlator.known_at
  PROVE  /\ BaseInv'
         /\ \A j \in DOMAIN Writes : Latest(j)' = Latest(j)
<1>1. /\ \A m \in Markets : MarketIsKnown(m)
      /\ \A i \in DOMAIN Writes : SettledIsKnown(i) /\ StaleIsKnown(i) /\ WaitsBefore(i)
  BY BaseParts DEF Resting
<1>2. /\ Writes' = Writes /\ cluster' = cluster
      /\ \A j \in DOMAIN Writes :
           /\ Comes(j)' <=> Comes(j)
           /\ Waits(j)' <=> Waits(j)
           /\ Settled(j)' <=> Settled(j)
  BY PairsRest
<1>3. \A j \in DOMAIN Writes : Latest(j)' = Latest(j) /\ KnownAt(j)' = KnownAt(j)
  BY <1>2 DEF Latest, KnownAt
<1>4. \A m \in Markets : MarketIsKnown(m)'
  BY <1>1, <1>2 DEF MarketIsKnown, Unknown
<1>5. \A j \in DOMAIN Writes : SettledIsKnown(j)' /\ WaitsBefore(j)'
  BY <1>1, <1>2, <1>3 DEF SettledIsKnown, WaitsBefore, Unknown
<1>6. \A j \in DOMAIN Writes : StaleIsKnown(j)'
  BY <1>1, <1>2, <1>3 DEF StaleIsKnown, SameMarket, Unknown
<1> QED BY <1>2, <1>3, <1>4, <1>5, <1>6 DEF BaseInv

LEMMA WireRests ==
  ASSUME IInv, Resting, wire'.startup \subseteq wire.startup,
         wire.last <= wire'.last, wire'.last <= cluster.slot,
         \A i \in DueAccounts : wire'.last <= Writes[i].slot,
         \A k \in DueTransactions : wire'.last <= Runs[k].slot
  PROVE  WireInv'
<1>1. ProcessTypes /\ WireInv /\ stage # "down" /\ stage' # "seed"
  BY IInvParts DEF Resting, Up
<1>2. /\ cluster' = cluster /\ Writes' = Writes /\ Runs' = Runs
      /\ DueAccounts' = DueAccounts /\ DueTransactions' = DueTransactions
      /\ wire'.from = wire.from
      /\ wire'.accounts = wire.accounts /\ wire'.transactions = wire.transactions
  BY PairsRest DEF Resting
<1>3. \A u \in wire.startup : StartupIsTrue(u) => StartupIsTrue(u)'
  BY <1>2 DEF StartupIsTrue, BookAt
<1>4. wire.from <= wire'.last
  <2>1. wire.from \in Nat /\ wire.last \in Nat /\ wire'.last \in Nat
    BY <1>1, WireFields DEF Resting, Wires
  <2>2. wire.from <= wire.last
    BY <1>1 DEF WireInv
  <2> QED BY <2>1, <2>2
<1> QED BY <1>1, <1>2, <1>3, <1>4 DEF WireInv

-----------------------------------------------------------------------------
(* An update the cluster starts with moves a market to where its           *)
(* subscription begins.                                                    *)

LEMMA ReceiveStartupKeeps ==
  ASSUME IInv, ReceiveStartup
  PROVE  IInv' /\ (CoverInv => CoverInv')
<1>1. /\ ChainInv /\ ProcessTypes /\ WireInv /\ RowsInv /\ IsCorrelator(correlator)
      /\ PendingType(pending) /\ pending.by_slot \subseteq cluster.trades
  BY IInvParts, ProcessFields DEF RowsInv, ProcessTypes
<1>2. PICK u \in wire.startup :
        /\ Delivers(u.slot)
        /\ wire' = [wire EXCEPT !.startup = {}, !.last = MaxOf(@, u.slot)]
        /\ Handle(AcceptAccount(correlator, u))
        /\ UNCHANGED <<cluster, sent, stage, todo, store, faults, since>>
  BY DEF ReceiveStartup
<1>3. stage = "next" /\ u.slot < cluster.slot
  BY <1>2 DEF Delivers
<1>4. /\ u \in StartupUpdate /\ u.slot \in 0 .. MaxSlot /\ u.slot \in Nat
      /\ u.market \in Markets /\ u.data \in Nat
  BY <1>1, WireFields, SlotBound DEF StartupUpdate
<1>5. /\ wire.accounts = 0 /\ u.slot < wire.from /\ u.data = BookAt(u.market, u.slot)
      /\ \A i \in DOMAIN Writes :
           Writes[i].market = u.market /\ Writes[i].slot < wire.from => Writes[i].data <= u.data
      /\ wire.from <= wire.last /\ wire.last <= cluster.slot
      /\ \A i \in DueAccounts : wire.last <= Writes[i].slot
      /\ \A k \in DueTransactions : wire.last <= Runs[k].slot
  BY <1>1, <1>3 DEF WireInv, StartupIsTrue
<1>6. /\ wire.from \in Nat /\ wire.last \in Nat /\ wire \in Wires
  BY <1>1, WireFields DEF ProcessTypes
<1>7. MaxOf(wire.last, u.slot) = wire.last
  BY <1>4, <1>5, <1>6 DEF MaxOf
<1>8. /\ wire' \in Wires /\ wire'.from = wire.from /\ wire'.last = wire.last
      /\ wire'.accounts = wire.accounts /\ wire'.transactions = wire.transactions
      /\ wire'.startup = {}
  BY <1>2, <1>6, <1>7 DEF Wires
<1>9. \A j \in DOMAIN Writes :
        /\ j \in Nat /\ 0 < j /\ Writes[j].slot \in Nat /\ Writes[j].market \in Markets
        /\ Writes[j].data \in Nat /\ Start(j) \in Nat /\ Writes[j] \in Update
  <2>1. DOMAIN Writes = 1 .. Len(Writes)
    BY <1>1, ChainFields
  <2> QED BY <1>1, <2>1, WriteFields
<1>10. \A j \in DOMAIN Writes : ~ Waits(j)
  <2>1. HalvesWereRead
    BY <1>3, PairParts DEF Up
  <2>2. \A j \in DOMAIN Writes : Waits(j) => j <= wire.accounts
    BY <1>1, <2>1, WaitsIs
  <2> QED BY <1>5, <1>9, <2>2
<1>11. \A j \in DOMAIN Writes : Comes(j) <=> wire.from <= Writes[j].slot
  BY <1>1, <1>5, <1>9, ComesIs
<1>12. Reading
  BY <1>2, <1>3, <1>8 DEF Reading
<1> DEFINE m == u.market
           outcome == AcceptAccount(correlator, u)
<1>13. CASE u.slot < correlator.known_at[u.market]
  <2>1. outcome.correlator = SeenAt(correlator, u.slot) /\ outcome.changes = {}
    BY <1>1, <1>13, AcceptStale
  <2> HIDE DEF outcome
  <2>2. correlator' = SeenAt(correlator, u.slot) /\ pending' = pending
    BY <1>2, <2>1, HandleNothing DEF outcome
  <2>3. /\ IsCorrelator(correlator')
        /\ correlator'.latest = correlator.latest /\ correlator'.known_at = correlator.known_at
        /\ correlator'.transactions = correlator.transactions
        /\ correlator'.accounts = correlator.accounts
    BY <1>1, <2>2, SeenIs
  <2>4. Resting
    BY <1>2, <1>3, <1>8, <2>3 DEF Resting, Up
  <2>5. BaseInv' /\ PairInv'
    BY <2>3, <2>4, BaseRests, PairsRest
  <2>6. WireInv'
    <3>1. wire'.startup \subseteq wire.startup /\ wire.last <= wire'.last
      BY <1>6, <1>8
    <3> QED BY <1>5, <1>8, <2>4, <3>1, WireRests
  <2>7. ChainInv' /\ ProcessTypes' /\ Fresh' /\ RowsInv'
    BY <1>1, <1>12, <2>2, <2>3, ReadTypes
  <2>8. Passing
    <3>1. \A j \in DOMAIN Writes : Settled(j)' <=> Settled(j)
      BY <2>4, PairsRest
    <3> QED BY <1>2, <1>3, <2>2, <2>3, <3>1 DEF Passing, Up
  <2> QED BY <2>5, <2>6, <2>7, <2>8, PassingCover DEF IInv
<1>14. CASE ~ (u.slot < correlator.known_at[u.market])
  <2> DEFINE d == outcome.correlator
  <2>1. /\ IsCorrelator(d)
        /\ d.latest = [correlator.latest EXCEPT ![m] = u.data]
        /\ d.known_at = [correlator.known_at EXCEPT ![m] = u.slot]
        /\ d.transactions = correlator.transactions /\ d.accounts = correlator.accounts
        /\ outcome.changes = {}
    BY <1>1, <1>4, <1>14, AcceptStartup
  <2> HIDE DEF outcome
  <2>2. correlator' = d /\ pending' = pending
    BY <1>2, <2>1, HandleNothing DEF outcome
  <2> HIDE DEF d
  <2>3. /\ IsCorrelator(correlator')
        /\ correlator'.latest = [correlator.latest EXCEPT ![m] = u.data]
        /\ correlator'.known_at = [correlator.known_at EXCEPT ![m] = u.slot]
        /\ correlator'.transactions = correlator.transactions
        /\ correlator'.accounts = correlator.accounts
    BY <2>1, <2>2
  <2>4. Resting
    BY <1>2, <1>3, <1>8, <2>3 DEF Resting, Up
  <2>5. /\ PairInv' /\ cluster' = cluster /\ Writes' = Writes
        /\ \A j \in DOMAIN Writes :
             /\ Comes(j)' <=> Comes(j)
             /\ Waits(j)' <=> Waits(j)
             /\ Settled(j)' <=> Settled(j)
    BY <2>4, PairsRest
  <2>6. WireInv'
    <3>1. wire'.startup \subseteq wire.startup /\ wire.last <= wire'.last
      BY <1>6, <1>8
    <3> QED BY <1>5, <1>8, <2>4, <3>1, WireRests
  <2>7. ChainInv' /\ ProcessTypes' /\ Fresh' /\ RowsInv'
    BY <1>1, <1>12, <2>2, <2>3, ReadTypes
  <2>8. /\ correlator.latest \in [Markets -> States]
        /\ correlator.known_at \in [Markets -> Unknown .. MaxSlot]
    BY <1>1, ProcessFields
  <2>9. /\ \A n \in Markets : MarketIsKnown(n)
        /\ \A i \in DOMAIN Writes : SettledIsKnown(i) /\ StaleIsKnown(i) /\ WaitsBefore(i)
    BY <1>3, BaseParts DEF Up
  <2>10. \A j \in DOMAIN Writes :
           /\ Writes[j].market = m => Latest(j)' = u.data /\ KnownAt(j)' = u.slot
           /\ Writes[j].market # m => Latest(j)' = Latest(j) /\ KnownAt(j)' = KnownAt(j)
    BY <1>4, <1>9, <2>3, <2>5, <2>8 DEF Latest, KnownAt
  <2>11. ASSUME NEW n \in Markets PROVE MarketIsKnown(n)'
    <3>1. CASE n # m
      <4>1. correlator'.latest[n] = correlator.latest[n]
              /\ correlator'.known_at[n] = correlator.known_at[n]
        BY <1>4, <2>3, <2>8, <3>1
      <4> QED BY <2>5, <2>9, <4>1 DEF MarketIsKnown, Unknown
    <3>2. CASE n = m
      <4>1. correlator'.latest[n] = u.data /\ correlator'.known_at[n] = u.slot
        BY <1>4, <2>3, <2>8, <3>2
      <4>2. u.data # Unknown /\ u.slot # Unknown
        BY <1>4 DEF Unknown
      <4>3. u.data # 0 =>
              \E i \in DOMAIN Writes :
                Writes[i].market = m /\ Writes[i].slot <= u.slot /\ Writes[i].data = u.data
        <5>1. PICK s \in Nat : s = u.slot
          BY <1>4
        <5>2. u.data = BookAt(m, s) /\ m \in Markets /\ s \in Int
          BY <1>4, <1>5, <5>1
        <5> HIDE DEF m
        <5>3. \/ BookAt(m, s) = 0
              \/ \E i \in DOMAIN Writes :
                   /\ Writes[i].market = m /\ Writes[i].slot <= s
                   /\ Writes[i].data = BookAt(m, s)
          BY <1>1, <5>2, BookFacts
        <5> QED BY <5>1, <5>2, <5>3
      <4> QED BY <1>3, <2>5, <3>2, <4>1, <4>2, <4>3 DEF MarketIsKnown, Unknown
    <3> QED BY <3>1, <3>2
  <2>12. ASSUME NEW j \in DOMAIN Writes PROVE SettledIsKnown(j)' /\ WaitsBefore(j)'
    <3>1. WaitsBefore(j)'
      BY <1>10, <2>5 DEF WaitsBefore
    <3>2. CASE Writes[j].market = m
      <4>1. Settled(j) => Writes[j].slot < wire.from
        BY <1>6, <1>9, <1>11 DEF Settled
      <4>2. Settled(j) => Writes[j].data <= u.data
        BY <1>5, <3>2, <4>1
      <4> QED BY <2>5, <2>10, <3>1, <3>2, <4>2 DEF SettledIsKnown
    <3>3. CASE Writes[j].market # m
      BY <2>5, <2>9, <2>10, <3>1, <3>3 DEF SettledIsKnown, Unknown
    <3> QED BY <3>2, <3>3
  <2>13. ASSUME NEW j \in DOMAIN Writes PROVE StaleIsKnown(j)'
    <3>1. CASE Writes[j].market = m
      <4>1. Comes(j) => ~ (Writes[j].slot < u.slot)
        BY <1>4, <1>5, <1>6, <1>9, <1>11
      <4> QED BY <2>5, <2>10, <3>1, <4>1 DEF StaleIsKnown
    <3>2. CASE Writes[j].market # m
      BY <1>10, <2>5, <2>9, <2>10, <3>2 DEF StaleIsKnown, SameMarket, Unknown
    <3> QED BY <3>1, <3>2
  <2>14. BaseInv'
    BY <2>5, <2>11, <2>12, <2>13 DEF BaseInv
  <2>15. ASSUME CoverInv PROVE CoverInv'
    <3>1. /\ pending.flushed_through \in 0 .. cluster.rooted
          /\ since \in 0 .. MaxSlot
          /\ \A t \in pending.by_slot : pending.flushed_through < t.slot
          /\ since < MaxSlot => \A n \in Markets : correlator.latest[n] # Unknown
          /\ \A j \in DOMAIN Writes : \A t \in TradesOf(Writes[j]) : Covered(j, t)
      BY <1>3, <2>15 DEF CoverInv, Up
    <3>2. since < MaxSlot => \A n \in Markets : correlator'.latest[n] # Unknown
      <4>1. u.data # Unknown
        BY <1>4 DEF Unknown
      <4> QED BY <2>3, <2>8, <3>1, <4>1
    <3>3. ASSUME NEW j \in DOMAIN Writes, NEW t \in TradesOf(Writes[j]) PROVE Covered(j, t)'
      <4>1. Covered(j, t)
        BY <3>1, <3>3
      <4>2. Recorded(t)' <=> Recorded(t)
        BY <1>2, <2>2 DEF Recorded
      <4>3. CASE Writes[j].market # m
        BY <1>2, <2>2, <2>5, <2>10, <4>1, <4>2, <4>3 DEF Covered
      <4>4. CASE Writes[j].market = m
        <5>1. ASSUME ~ Settled(j) PROVE u.data < t.order
          <6>1. wire.from <= Writes[j].slot
            BY <1>10, <1>11, <5>1 DEF Settled
          <6>2. PICK s \in Nat : s = u.slot
            BY <1>4
          <6>3. s < Writes[j].slot /\ u.data = BookAt(Writes[j].market, s)
            BY <1>4, <1>5, <1>6, <1>9, <4>4, <6>1, <6>2
          <6>4. u.data <= Start(j)
            BY <1>1, <6>3, BookBefore
          <6>5. t.order \in Int /\ Start(j) < t.order
            BY <1>9, <3>3, TradeOfFields DEF Start
          <6> QED BY <1>4, <1>9, <6>4, <6>5
        <5>2. Latest(j)' = u.data
          BY <2>10, <4>4
        <5> QED BY <1>2, <1>3, <2>2, <2>5, <4>1, <4>2, <5>1, <5>2 DEF Covered
      <4> QED BY <4>3, <4>4
    <3> QED BY <1>2, <2>2, <2>5, <3>1, <3>2, <3>3 DEF CoverInv, Unknown
  <2> QED BY <2>5, <2>6, <2>7, <2>14, <2>15 DEF IInv
<1> QED BY <1>13, <1>14
-----------------------------------------------------------------------------
(* Slot statuses. *)

(* What comes after a slot: every write up to it has been settled.  *)
LEMMA SettledUpTo ==
  ASSUME IInv, Up, NEW slot \in Nat,
         \A i \in DueAccounts : slot < Writes[i].slot,
         \A k \in DueTransactions : slot < Runs[k].slot
  PROVE  \A j \in DOMAIN Writes : Writes[j].slot <= slot => Settled(j)
<1>1. ChainInv /\ ProcessTypes /\ HalvesWereRead
  BY PairParts
<1>2. TAKE j \in DOMAIN Writes
<1>3. HAVE Writes[j].slot <= slot
<1>4. Writes[j].slot \in Nat
  BY <1>1, WriteFields
<1>5. ~ Comes(j)
  BY <1>3, <1>4 DEF Comes
<1>6. ASSUME Waits(j) PROVE FALSE
  <2>1. PICK k \in DOMAIN Runs : IsRunOf(k, j)
    BY <1>1, WriteHasRun
  <2>2. wire.transactions < k
    BY <1>6, <2>1, PairParts DEF WaitingHasToRun
  <2>3. Runs[k].slot = Writes[j].slot /\ wire.from <= Runs[k].slot
    BY <1>1, <1>6, <2>1, WaitsIs DEF IsRunOf
  <2>4. k \in DueTransactions
    BY <1>1, <2>2, <2>3, WillRunIs
  <2> QED BY <1>3, <1>4, <2>3, <2>4
<1> QED BY <1>5, <1>6 DEF Settled

LEMMA ReportedIs ==
  ASSUME IInv, NEW slot \in 1 .. MaxSlot, NEW status, Reported(slot, status),
         UNCHANGED <<cluster, sent>>, Up',
         correlator'.accounts = correlator.accounts,
         correlator'.transactions = correlator.transactions
  PROVE  /\ stage = "next" /\ Up /\ Resting /\ WireInv' /\ slot \in Nat
         /\ slot < cluster.slot
         /\ status = "dead" => slot \in cluster.dead
         /\ status = "finalized" => slot <= cluster.rooted
         /\ \A j \in DOMAIN Writes : Writes[j].slot <= slot => Settled(j)
<1>1. ChainInv /\ ProcessTypes /\ WireInv
  BY IInvParts
<1>2. PICK i \in DueSlots :
        /\ stage = "next"
        /\ sent.slots[i] = [slot |-> slot, status |-> status]
        /\ \A s \in ContentSlots : s > slot
        /\ wire' = [wire EXCEPT !.slots = i, !.last = MaxOf(@, slot)]
  BY DEF Reported
<1>3. i \in DOMAIN sent.slots /\ i \in Nat
  <2>1. /\ i \in wire.slots + 1 .. Len(sent.slots)
    BY DEF DueSlots, Due
  <2>2. sent.slots \in Seq(Status) /\ wire.slots \in Nat
    BY <1>1, ChainFields, WireFields
  <2>3. Len(sent.slots) \in Nat /\ DOMAIN sent.slots = 1 .. Len(sent.slots)
    BY <2>2
  <2> QED BY <2>1, <2>2, <2>3
<1>4. StatusIsTrue(i) /\ sent.slots[i].slot = slot /\ sent.slots[i].status = status
  BY <1>1, <1>2, <1>3 DEF ChainInv
<1>5. /\ slot < cluster.slot
      /\ status = "dead" => slot \in cluster.dead
      /\ status = "finalized" => slot <= cluster.rooted
  BY <1>4 DEF StatusIsTrue
<1>6. /\ slot \in Nat /\ cluster.slot \in Nat
      /\ wire.last \in Nat /\ wire \in Wires
  <2>1. cluster.slot \in 1 .. MaxSlot + 1 /\ MaxSlot \in Nat
    BY <1>1, SlotBound, ChainFields
  <2>2. wire.last \in Nat
    BY <1>1, WireFields
  <2>3. wire \in Wires
    BY <1>1 DEF ProcessTypes
  <2> QED BY <2>1, <2>2, <2>3
<1>7. /\ \A j \in DueAccounts : j \in DOMAIN Writes /\ Writes[j].slot \in Nat
      /\ \A k \in DueTransactions : k \in DOMAIN Runs /\ Runs[k].slot \in Nat
  BY <1>1, DueDomains, WriteFields, RunFields
<1>8. /\ \A j \in DueAccounts : slot < Writes[j].slot
      /\ \A k \in DueTransactions : slot < Runs[k].slot
  <2>1. \A j \in DueAccounts : Writes[j].slot > slot
    BY <1>2 DEF ContentSlots, Writes
  <2>2. \A k \in DueTransactions : Runs[k].slot > slot
    BY <1>2 DEF ContentSlots, Runs
  <2> QED BY <1>6, <1>7, <2>1, <2>2
<1>9. /\ wire.last <= cluster.slot
      /\ \A j \in DueAccounts : wire.last <= Writes[j].slot
      /\ \A k \in DueTransactions : wire.last <= Runs[k].slot
  BY <1>1, <1>2 DEF WireInv
<1> DEFINE last == MaxOf(wire.last, slot)
<1>10. /\ last \in Nat /\ wire.last <= last /\ last <= cluster.slot
       /\ \A j \in DueAccounts : last <= Writes[j].slot
       /\ \A k \in DueTransactions : last <= Runs[k].slot
  BY <1>5, <1>6, <1>7, <1>8, <1>9 DEF MaxOf
<1> HIDE DEF last
<1>11. /\ wire' \in Wires /\ wire'.from = wire.from /\ wire'.startup = wire.startup
       /\ wire'.accounts = wire.accounts /\ wire'.transactions = wire.transactions
       /\ wire'.last = last
  BY <1>2, <1>3, <1>6, <1>10 DEF Wires, last
<1>12. Up
  BY <1>2 DEF Up
<1>13. Resting
  BY <1>11, <1>12 DEF Resting
<1>14. WireInv'
  BY <1>10, <1>11, <1>13, WireRests
<1>15. \A j \in DOMAIN Writes : Writes[j].slot <= slot => Settled(j)
  BY <1>6, <1>8, <1>12, SettledUpTo
<1> QED BY <1>2, <1>5, <1>6, <1>12, <1>13, <1>14, <1>15

(* The same is owed and recorded while no half is read and no row moves. *)
LEMMA CoverRests ==
  ASSUME IInv, CoverInv, Resting, correlator'.latest = correlator.latest,
         since' = since, pending' = pending, store'.rows = store.rows,
         \A j \in DOMAIN Writes :
           stage' = "checkpoint" /\ Writes[j].slot <= todo'.slot =>
             Settled(j) \/ (stage = "checkpoint" /\ todo'.slot = todo.slot)
  PROVE  CoverInv'
<1>1. /\ pending.flushed_through \in 0 .. cluster.rooted
      /\ since \in 0 .. MaxSlot
      /\ \A t \in pending.by_slot : pending.flushed_through < t.slot
      /\ since < MaxSlot => \A n \in Markets : correlator.latest[n] # Unknown
      /\ \A j \in DOMAIN Writes : \A t \in TradesOf(Writes[j]) : Covered(j, t)
  BY DEF CoverInv, Resting
<1>2. /\ cluster' = cluster /\ Writes' = Writes
      /\ \A j \in DOMAIN Writes : Settled(j)' <=> Settled(j)
  BY PairsRest
<1>3. ASSUME NEW j \in DOMAIN Writes, NEW t \in TradesOf(Writes[j]) PROVE Covered(j, t)'
  <2>1. Covered(j, t)
    BY <1>1, <1>3
  <2>2. (Recorded(t)' <=> Recorded(t)) /\ Latest(j)' = Latest(j)
    BY <1>2 DEF Recorded, Latest
  <2>3. (Settled(j)' <=> Settled(j)) /\ Writes'[j] = Writes[j]
    BY <1>2
  <2>4. since < Writes[j].slot /\ stage' = "checkpoint" /\ Writes[j].slot <= todo'.slot =>
          Recorded(t)
    BY <2>1 DEF Covered
  <2> QED BY <2>1, <2>2, <2>3, <2>4 DEF Covered
<1> QED BY <1>1, <1>2, <1>3 DEF CoverInv, Unknown

LEMMA AcceptSlotIs ==
  ASSUME NEW c, IsCorrelator(c), NEW slot, NEW status
  PROVE  /\ IsCorrelator(AcceptSlot(c, slot, status))
         /\ AcceptSlot(c, slot, status).latest = c.latest
         /\ AcceptSlot(c, slot, status).known_at = c.known_at
         /\ AcceptSlot(c, slot, status).transactions = c.transactions
         /\ AcceptSlot(c, slot, status).accounts = c.accounts
<1>1. CASE status = "dead"
  BY <1>1 DEF AcceptSlot
<1>2. CASE status # "dead"
  <2>1. AcceptSlot(c, slot, status) = SeenAt(c, slot)
    BY <1>2 DEF AcceptSlot, SeenAt
  <2> QED BY <2>1, SeenIs
<1> QED BY <1>1, <1>2

(* A status that only moves the tip. *)
LEMMA TipKeeps ==
  ASSUME IInv, NEW slot \in 1 .. MaxSlot, NEW status, Reported(slot, status),
         UNCHANGED <<cluster, sent, pending, stage, todo, store, since>>,
         correlator' = AcceptSlot(correlator, slot, status)
  PROVE  IInv' /\ (CoverInv => CoverInv')
<1>1. /\ IsCorrelator(correlator) /\ PendingType(pending)
      /\ pending.by_slot \subseteq cluster.trades
  BY IInvParts, ProcessFields DEF RowsInv, ProcessTypes
<1>2. /\ IsCorrelator(correlator')
      /\ correlator'.latest = correlator.latest /\ correlator'.known_at = correlator.known_at
      /\ correlator'.transactions = correlator.transactions
      /\ correlator'.accounts = correlator.accounts
  BY <1>1, AcceptSlotIs
<1>3. stage = "next" /\ Up'
  BY DEF Reported, Up
<1>4. Resting /\ WireInv'
  BY <1>2, <1>3, ReportedIs
<1>5. BaseInv' /\ PairInv'
  BY <1>2, <1>4, BaseRests, PairsRest
<1>6. Reading
  BY <1>3, <1>4 DEF Reading, Resting
<1>7. ChainInv' /\ ProcessTypes' /\ Fresh' /\ RowsInv'
  BY <1>1, <1>2, <1>6, ReadTypes
<1>8. CoverInv => CoverInv'
  BY <1>2, <1>3, <1>4, CoverRests
<1> QED BY <1>4, <1>5, <1>7, <1>8 DEF IInv

LEMMA ReceiveConfirmedKeeps ==
  ASSUME IInv, NEW slot \in 1 .. MaxSlot, ReceiveConfirmed(slot)
  PROVE  IInv' /\ (CoverInv => CoverInv')
<1>1. /\ Reported(slot, "confirmed")
      /\ UNCHANGED <<cluster, sent, pending, stage, todo, store, since>>
      /\ correlator' = AcceptSlot(correlator, slot, "confirmed")
  BY DEF ReceiveConfirmed
<1> QED BY <1>1, TipKeeps

(* The death of a slot in which nothing was written retracts no row. *)
LEMMA ReceiveDeadKeeps ==
  ASSUME IInv, NEW slot \in 1 .. MaxSlot, ReceiveDead(slot), DeadSlotsAreEmpty
  PROVE  IInv' /\ (CoverInv => CoverInv')
<1>1. /\ Reported(slot, "dead")
      /\ UNCHANGED <<cluster, sent, stage, todo, store, since>>
      /\ pending' = RetractPending(pending, slot)
      /\ correlator' = AcceptSlot(correlator, slot, "dead")
  BY DEF ReceiveDead
<1>2. ChainInv /\ ProcessTypes /\ IsCorrelator(correlator) /\ PendingType(pending)
        /\ pending.by_slot \subseteq cluster.trades
  BY IInvParts, ProcessFields DEF RowsInv, ProcessTypes
<1>3. stage = "next" /\ Up'
  BY <1>1 DEF Reported, Up
<1>4. slot \in cluster.dead
  BY <1>1, <1>2, <1>3, AcceptSlotIs, ReportedIs
<1>5. \A t \in pending.by_slot : t.slot # slot
  <2>1. TAKE t \in pending.by_slot
  <2>2. PICK i \in DOMAIN Writes : t \in TradesOf(Writes[i])
    BY <1>2 DEF ChainInv, TradesAreWritten
  <2>3. t.slot = Writes[i].slot
    BY <1>2, <2>2, WriteFields, TradeOfFields
  <2> QED BY <1>4, <2>3 DEF DeadSlotsAreEmpty, Writes
<1>6. pending' = pending
  <2>1. {t \in pending.by_slot : t.slot # slot} = pending.by_slot
    BY <1>5
  <2>2. pending' = [pending EXCEPT !.by_slot = pending.by_slot]
    BY <1>1, <2>1 DEF RetractPending
  <2> QED BY <1>2, <2>2 DEF PendingType
<1> QED BY <1>1, <1>6, TipKeeps

LEMMA ReceiveFinalizedKeeps ==
  ASSUME IInv, NEW slot \in 1 .. MaxSlot, ReceiveFinalized(slot)
  PROVE  IInv' /\ (CoverInv => CoverInv')
<1>1. /\ Reported(slot, "finalized")
      /\ UNCHANGED <<cluster, sent, correlator, pending, store, since>>
      /\ todo' = [slot |-> slot, markets |-> KnownMarkets(correlator)]
      /\ stage' = "checkpoint"
  BY DEF ReceiveFinalized
<1>2. ChainInv /\ ProcessTypes /\ RowsInv
  BY IInvParts
<1>3. stage = "next" /\ Up' /\ Up
  BY <1>1 DEF Reported, Up
<1>4. /\ Resting /\ WireInv' /\ slot <= cluster.rooted /\ slot \in Nat
      /\ \A j \in DOMAIN Writes : Writes[j].slot <= slot => Settled(j)
  BY <1>1, <1>3, ReportedIs
<1>5. BaseInv' /\ PairInv' /\ ChainInv'
  BY <1>1, <1>4, BaseRests, PairsRest
<1>6. ProcessTypes'
  <2>1. todo' \in [slot : 0 .. MaxSlot, markets : SUBSET Markets]
    BY <1>1, SlotBound DEF KnownMarkets
  <2>2. wire' \in Wires
    BY <1>4 DEF Resting
  <2> QED BY <1>1, <1>2, <2>1, <2>2 DEF ProcessTypes, IsCorrelator, Wires, Stores
<1>7. Fresh'
  BY <1>1 DEF Fresh
<1>8. ASSUME NEW m \in KnownMarkets(correlator), correlator.known_at[m] <= slot
      PROVE  correlator.latest[m] = BookAt(m, correlator.known_at[m])
  <2>1. m \in Markets /\ correlator.latest[m] # Unknown
    BY DEF KnownMarkets
  <2>2. MarketIsKnown(m)
    BY <1>3, <2>1, BaseParts
  <2>3. correlator.known_at[m] \in Nat /\ correlator.latest[m] \in Nat
    BY <1>2, <2>1, <2>2, MarketNumbers DEF MarketIsKnown
  <2>4. PICK n \in Nat : n = correlator.known_at[m]
    BY <2>3
  <2>5. /\ BookAt(m, n) \in Nat
        /\ \A i \in DOMAIN Writes :
             Writes[i].market = m /\ Writes[i].slot <= n => Writes[i].data <= BookAt(m, n)
        /\ \/ BookAt(m, n) = 0
           \/ \E i \in DOMAIN Writes :
                /\ Writes[i].market = m /\ Writes[i].slot <= n
                /\ Writes[i].data = BookAt(m, n)
    <3>1. n \in Int
      OBVIOUS
    <3> QED BY <1>2, <2>1, <3>1, BookFacts
  <2>6. correlator.latest[m] <= BookAt(m, n)
    <3>1. CASE correlator.latest[m] = 0
      BY <2>5, <3>1
    <3>2. CASE correlator.latest[m] # 0
      <4>1. PICK i \in DOMAIN Writes :
              /\ Writes[i].market = m /\ Writes[i].slot <= n
              /\ Writes[i].data = correlator.latest[m]
        BY <2>1, <2>2, <2>4, <3>2 DEF MarketIsKnown
      <4> QED BY <2>5, <4>1
    <3> QED BY <3>1, <3>2
  <2>7. BookAt(m, n) <= correlator.latest[m]
    <3>1. CASE BookAt(m, n) = 0
      BY <2>3, <3>1
    <3>2. ASSUME NEW j \in DOMAIN Writes, Writes[j].market = m, Writes[j].slot <= n,
                 Writes[j].data = BookAt(m, n)
          PROVE  BookAt(m, n) <= correlator.latest[m]
      <4>1. Writes[j].slot \in Nat
        BY <1>2, WriteFields
      <4>2. Writes[j].slot <= slot
        BY <1>4, <1>8, <2>4, <3>2, <4>1
      <4>3. Settled(j) /\ SettledIsKnown(j)
        BY <1>3, <1>4, <4>2, BaseParts
      <4> QED BY <2>1, <3>2, <4>3 DEF SettledIsKnown, Latest
    <3> QED BY <2>5, <3>1, <3>2
  <2>8. correlator.latest[m] = BookAt(m, n)
    BY <2>3, <2>5, <2>6, <2>7
  <2> QED BY <2>4, <2>8
<1>9. RowsInv'
  <2>1. cluster' = cluster /\ store' = store /\ pending' = pending /\ correlator' = correlator
    BY <1>1
  <2>2. RootedTrades' = RootedTrades /\ Checkpointed' = Checkpointed
    BY <2>1 DEF RootedTrades, Checkpointed, Unknown
  <2>3. \A m \in Checkpointed : CheckpointIsTrue(m)'
    BY <1>2, <2>1 DEF RowsInv, CheckpointIsTrue, BookAt
  <2>4. \A m \in KnownMarkets(correlator) : ToSave(m)'
    <3>1. TAKE m \in KnownMarkets(correlator)
    <3>2. correlator.latest[m] # Unknown
      BY DEF KnownMarkets
    <3>3. todo'.slot = slot
      BY <1>1
    <3> QED BY <1>8, <2>1, <3>2, <3>3 DEF ToSave, BookAt, Unknown
  <2> QED BY <1>1, <1>2, <1>4, <2>1, <2>2, <2>3, <2>4 DEF RowsInv
<1>10. CoverInv => CoverInv'
  <2>1. todo'.slot = slot
    BY <1>1
  <2> QED BY <1>1, <1>4, <2>1, CoverRests
<1> QED BY <1>4, <1>5, <1>6, <1>7, <1>9, <1>10 DEF IInv
-----------------------------------------------------------------------------
(* A finalized slot: the checkpoints, then the flush. *)

LEMMA CheckpointKeeps ==
  ASSUME IInv, NEW m \in Markets, Checkpoint(m)
  PROVE  IInv' /\ (CoverInv => CoverInv')
<1> DEFINE new == [slot |-> correlator.known_at[m], data |-> correlator.latest[m]]
           kept == SaveCheckpoint(store.checkpoints[m], new)
<1>1. /\ stage = "checkpoint" /\ stage' = "checkpoint" /\ m \in todo.markets
      /\ todo' = [todo EXCEPT !.markets = @ \ {m}]
      /\ store' = IF IsRooted(m) THEN [store EXCEPT !.checkpoints[m] = kept] ELSE store
      /\ UNCHANGED <<cluster, sent, wire, correlator, pending, since>>
  BY DEF Checkpoint
<1>2. /\ ChainInv /\ ProcessTypes /\ RowsInv /\ WireInv /\ Up /\ Up'
      /\ store \in Stores /\ todo \in [slot : 0 .. MaxSlot, markets : SUBSET Markets]
      /\ wire \in Wires
  BY <1>1, IInvParts DEF ProcessTypes, Up
<1>3. /\ todo' \in [slot : 0 .. MaxSlot, markets : SUBSET Markets]
      /\ todo'.slot = todo.slot /\ todo'.markets \subseteq todo.markets
  BY <1>1, <1>2
<1>4. cluster' = cluster /\ correlator' = correlator /\ pending' = pending /\ wire' = wire
  BY <1>1
<1>5. Resting
  BY <1>1, <1>2 DEF Resting
<1>6. BaseInv' /\ PairInv' /\ ChainInv'
  BY <1>1, <1>5, BaseRests, PairsRest
<1>7. WireInv'
  <2>1. /\ wire'.startup \subseteq wire.startup /\ wire.last <= wire'.last
        /\ wire'.last <= cluster.slot
        /\ \A i \in DueAccounts : wire'.last <= Writes[i].slot
        /\ \A k \in DueTransactions : wire'.last <= Runs[k].slot
    <3>1. wire.last \in Nat
      BY <1>2, WireFields
    <3> QED BY <1>1, <1>2, <3>1 DEF WireInv
  <2> QED BY <1>5, <2>1, WireRests
<1>8. MarketIsKnown(m) /\ ToSave(m)
  BY <1>1, <1>2, BaseParts DEF RowsInv
<1>9. /\ correlator.latest[m] \in Nat /\ correlator.known_at[m] \in Nat
      /\ correlator.known_at[m] < cluster.slot
      /\ correlator.known_at[m] \in Unknown .. MaxSlot
      /\ IsRooted(m) => correlator.latest[m] = BookAt(m, correlator.known_at[m])
  <2>1. correlator.latest[m] # Unknown /\ correlator.known_at[m] # Unknown
          /\ correlator.known_at[m] < cluster.slot
    BY <1>8 DEF ToSave, MarketIsKnown
  <2>2. IsRooted(m) => correlator.latest[m] = BookAt(m, correlator.known_at[m])
    BY <1>8 DEF ToSave, IsRooted
  <2> QED BY <1>2, <2>1, <2>2, MarketNumbers, ProcessFields
<1>10. new \in [slot : Unknown .. MaxSlot, data : States]
  BY <1>9 DEF States
<1>11. store.checkpoints[m] \in [slot : Unknown .. MaxSlot, data : States]
  BY <1>2, ProcessFields
<1>12. kept \in [slot : Unknown .. MaxSlot, data : States]
         /\ (kept = new \/ kept = store.checkpoints[m])
  BY <1>10, <1>11 DEF SaveCheckpoint
<1> HIDE DEF kept
<1>13. /\ store' \in Stores /\ store'.rows = store.rows
       /\ \A n \in Markets : n # m => store'.checkpoints[n] = store.checkpoints[n]
       /\ ~ IsRooted(m) => store' = store
       /\ IsRooted(m) => store'.checkpoints[m] = kept
  <2>1. CASE IsRooted(m)
    <3> DEFINE checkpoints == [store.checkpoints EXCEPT ![m] = kept]
    <3>1. store.checkpoints \in [Markets -> [slot : Unknown .. MaxSlot, data : States]]
      BY <1>2, ProcessFields
    <3>2. checkpoints \in [Markets -> [slot : Unknown .. MaxSlot, data : States]]
      BY <1>12, <3>1
    <3>3. store' = [store EXCEPT !.checkpoints = checkpoints]
      BY <1>1, <2>1
    <3>4. /\ \A n \in Markets : n # m => checkpoints[n] = store.checkpoints[n]
          /\ checkpoints[m] = kept
      BY <3>1
    <3> HIDE DEF checkpoints
    <3>5. store' \in Stores /\ store'.rows = store.rows /\ store'.checkpoints = checkpoints
      BY <1>2, <3>2, <3>3 DEF Stores
    <3> QED BY <2>1, <3>4, <3>5
  <2>2. CASE ~ IsRooted(m)
    BY <1>1, <1>2, <2>2
  <2> QED BY <2>1, <2>2
<1>14. ProcessTypes'
  BY <1>1, <1>2, <1>3, <1>4, <1>13 DEF ProcessTypes, IsCorrelator, Wires, Stores
<1>15. Fresh'
  BY <1>1 DEF Fresh
<1>16. ASSUME NEW n \in Checkpointed' PROVE CheckpointIsTrue(n)'
  <2>1. n \in Markets /\ store'.checkpoints[n].slot # Unknown
    BY DEF Checkpointed, Unknown
  <2>2. CASE store'.checkpoints[n] = store.checkpoints[n]
    <3>1. n \in Checkpointed
      BY <2>1, <2>2 DEF Checkpointed
    <3> QED BY <1>2, <1>4, <2>2, <3>1 DEF RowsInv, CheckpointIsTrue, BookAt
  <2>3. CASE store'.checkpoints[n] # store.checkpoints[n]
    <3>1. n = m /\ IsRooted(m) /\ store'.checkpoints[n] = new
      BY <1>12, <1>13, <2>1, <2>3
    <3>2. PICK s \in Nat : s = correlator.known_at[m]
      BY <1>9
    <3>3. /\ store'.checkpoints[n].slot = s
          /\ store'.checkpoints[n].data = BookAt(m, s) /\ s < cluster.slot
      BY <1>9, <3>1, <3>2
    <3> QED BY <1>4, <3>1, <3>3 DEF CheckpointIsTrue, BookAt
  <2> QED BY <2>2, <2>3
<1>17. RowsInv'
  <2>1. RootedTrades' = RootedTrades
    BY <1>4 DEF RootedTrades
  <2>2. \A n \in todo'.markets : ToSave(n)'
    BY <1>1, <1>2, <1>3, <1>4 DEF RowsInv, ToSave, BookAt, Unknown
  <2> QED BY <1>1, <1>2, <1>3, <1>4, <1>13, <1>16, <2>1, <2>2 DEF RowsInv
<1>18. CoverInv => CoverInv'
  BY <1>1, <1>3, <1>5, <1>13, CoverRests
<1> QED BY <1>6, <1>7, <1>14, <1>15, <1>17, <1>18 DEF IInv

LEMMA CheckpointFailsKeeps ==
  ASSUME IInv, NEW m \in Markets, CheckpointFails(m)
  PROVE  IInv' /\ (CoverInv => CoverInv')
<1>1. /\ stage = "checkpoint" /\ stage' = "checkpoint"
      /\ todo' = [todo EXCEPT !.markets = @ \ {m}]
      /\ UNCHANGED <<cluster, sent, wire, correlator, pending, store, since>>
  BY DEF CheckpointFails
<1>2. /\ ChainInv /\ ProcessTypes /\ RowsInv /\ WireInv /\ Up /\ Up'
      /\ todo \in [slot : 0 .. MaxSlot, markets : SUBSET Markets]
      /\ wire \in Wires
  BY <1>1, IInvParts DEF ProcessTypes, Up
<1>3. /\ todo' \in [slot : 0 .. MaxSlot, markets : SUBSET Markets]
      /\ todo'.slot = todo.slot /\ todo'.markets \subseteq todo.markets
  BY <1>1, <1>2
<1>4. /\ cluster' = cluster /\ correlator' = correlator /\ pending' = pending /\ wire' = wire
      /\ store' = store
  BY <1>1
<1>5. Resting
  BY <1>1, <1>2 DEF Resting
<1>6. BaseInv' /\ PairInv' /\ ChainInv'
  BY <1>1, <1>5, BaseRests, PairsRest
<1>7. WireInv'
  <2>1. /\ wire'.startup \subseteq wire.startup /\ wire.last <= wire'.last
        /\ wire'.last <= cluster.slot
        /\ \A i \in DueAccounts : wire'.last <= Writes[i].slot
        /\ \A k \in DueTransactions : wire'.last <= Runs[k].slot
    <3>1. wire.last \in Nat
      BY <1>2, WireFields
    <3> QED BY <1>1, <1>2, <3>1 DEF WireInv
  <2> QED BY <1>5, <2>1, WireRests
<1>8. ProcessTypes'
  BY <1>1, <1>2, <1>3, <1>4 DEF ProcessTypes, IsCorrelator, Wires, Stores
<1>9. Fresh'
  BY <1>1 DEF Fresh
<1>10. RowsInv'
  <2>1. RootedTrades' = RootedTrades /\ Checkpointed' = Checkpointed
    BY <1>4 DEF RootedTrades, Checkpointed, Unknown
  <2>2. \A n \in todo'.markets : ToSave(n)'
    BY <1>1, <1>2, <1>3, <1>4 DEF RowsInv, ToSave, BookAt, Unknown
  <2>3. \A n \in Checkpointed : CheckpointIsTrue(n)'
    BY <1>2, <1>4 DEF RowsInv, CheckpointIsTrue, BookAt
  <2> QED BY <1>1, <1>2, <1>3, <1>4, <2>1, <2>2, <2>3 DEF RowsInv
<1>11. CoverInv => CoverInv'
  BY <1>1, <1>3, <1>5, CoverRests
<1> QED BY <1>6, <1>7, <1>8, <1>9, <1>10, <1>11 DEF IInv
LEMMA RootedIs ==
  ASSUME NEW slot, NEW t \in Rooted(pending, slot)
  PROVE  t \in pending.by_slot /\ t.slot <= slot /\ ~ (slot <= pending.flushed_through)
BY DEF Rooted

(* Rows of a finalized slot go to the store, all or some of them. *)
LEMMA FlushStands ==
  ASSUME IInv, stage = "checkpoint", UNCHANGED <<cluster, sent, wire>>, Finish,
         PendingType(pending'), pending'.by_slot \subseteq pending.by_slot,
         NEW written \in SUBSET Rooted(pending, todo.slot),
         store' = [store EXCEPT !.rows = AppendRows(@, written)]
  PROVE  /\ IInv' /\ Resting
         /\ correlator'.latest = correlator.latest /\ stage' = "next"
         /\ store'.rows = store.rows \cup written
<1>1. /\ ChainInv /\ ProcessTypes /\ RowsInv /\ WireInv /\ Up /\ IsCorrelator(correlator)
      /\ store \in Stores /\ wire \in Wires
  BY IInvParts DEF ProcessTypes, Up
<1>2. /\ correlator' = AcceptSlot(correlator, todo.slot, "finalized")
      /\ todo' = [slot |-> 0, markets |-> {}] /\ stage' = "next"
  BY DEF Finish
<1>3. /\ IsCorrelator(correlator')
      /\ correlator'.latest = correlator.latest /\ correlator'.known_at = correlator.known_at
      /\ correlator'.transactions = correlator.transactions
      /\ correlator'.accounts = correlator.accounts
  BY <1>1, <1>2, AcceptSlotIs
<1>4. Resting
  BY <1>1, <1>2, <1>3 DEF Resting, Up
<1>5. BaseInv' /\ PairInv' /\ ChainInv' /\ cluster' = cluster
  BY <1>3, <1>4, BaseRests, PairsRest
<1>6. WireInv'
  <2>1. /\ wire'.startup \subseteq wire.startup /\ wire.last <= wire'.last
        /\ wire'.last <= cluster.slot
        /\ \A i \in DueAccounts : wire'.last <= Writes[i].slot
        /\ \A k \in DueTransactions : wire'.last <= Runs[k].slot
    <3>1. wire.last \in Nat
      BY <1>1, WireFields
    <3> QED BY <1>1, <3>1 DEF WireInv
  <2> QED BY <1>4, <2>1, WireRests
<1>7. /\ written \subseteq pending.by_slot /\ \A t \in written : t.slot <= todo.slot
      /\ pending.by_slot \subseteq AllTrades /\ pending.by_slot \subseteq cluster.trades
      /\ store.rows \subseteq AllTrades /\ todo.slot <= cluster.rooted
      /\ todo.slot \in Nat /\ cluster.rooted \in Nat
  <2>1. written \subseteq pending.by_slot /\ \A t \in written : t.slot <= todo.slot
    BY RootedIs
  <2>2. cluster.rooted \in Nat
    BY <1>1, ChainFields, SlotBound
  <2>3. pending.by_slot \subseteq cluster.trades /\ todo.slot <= cluster.rooted
    BY <1>1 DEF RowsInv
  <2> QED BY <1>1, <2>1, <2>2, <2>3, ProcessFields
<1>8. AppendRows(store.rows, written) = store.rows \cup written
  BY <1>7, AppendRowsIs
<1> DEFINE rows == store.rows \cup written
<1>9. rows \subseteq AllTrades /\ store' = [store EXCEPT !.rows = rows]
  BY <1>7, <1>8
<1>10. /\ store' \in Stores /\ store'.rows = rows
       /\ store'.checkpoints = store.checkpoints
  <2> HIDE DEF rows
  <2> QED BY <1>1, <1>9 DEF Stores
<1>11. ProcessTypes'
  <2>1. todo' \in [slot : 0 .. MaxSlot, markets : SUBSET Markets]
    BY <1>2, SlotBound
  <2> QED BY <1>1, <1>2, <1>3, <1>10, <2>1 DEF ProcessTypes, PendingType, IsCorrelator, Wires, Stores
<1>12. Fresh'
  BY <1>2 DEF Fresh
<1>13. RowsInv'
  <2>1. RootedTrades' = RootedTrades
    BY <1>5 DEF RootedTrades
  <2>2. rows \subseteq RootedTrades
    <3>1. ASSUME NEW t \in written PROVE t \in RootedTrades
      <4>1. t \in cluster.trades /\ t.slot <= todo.slot
        BY <1>7
      <4>2. t.slot \in Nat
        BY <1>1, <4>1, TradeFields
      <4>3. t.slot <= cluster.rooted
        BY <1>7, <4>1, <4>2
      <4> QED BY <4>1, <4>3 DEF RootedTrades
    <3> QED BY <1>1, <3>1 DEF RowsInv
  <2>3. Checkpointed' = Checkpointed
    BY <1>10 DEF Checkpointed, Unknown
  <2>4. \A m \in Checkpointed : CheckpointIsTrue(m)'
    BY <1>1, <1>5, <1>10 DEF RowsInv, CheckpointIsTrue, BookAt
  <2> QED BY <1>2, <1>5, <1>7, <1>10, <2>1, <2>2, <2>3, <2>4 DEF RowsInv
<1> QED BY <1>2, <1>3, <1>4, <1>5, <1>6, <1>10, <1>11, <1>12, <1>13 DEF IInv

(* Rows only move towards the store, and the watermark stays behind them. *)
LEMMA FlushCovers ==
  ASSUME IInv, CoverInv, Resting, stage = "checkpoint", stage' = "next",
         correlator'.latest = correlator.latest, since' = since,
         store.rows \subseteq store'.rows,
         pending'.flushed_through \in 0 .. cluster.rooted,
         \/ pending'.flushed_through = pending.flushed_through
         \/ pending'.flushed_through <= todo.slot,
         \A t \in pending'.by_slot : pending'.flushed_through < t.slot,
         \A t \in pending.by_slot :
           \/ t \in store'.rows
           \/ t \in pending'.by_slot /\ ~ (t.slot <= pending'.flushed_through)
  PROVE  CoverInv'
<1>1. ChainInv /\ ProcessTypes /\ Up /\ Up'
  BY IInvParts DEF Resting
<1>2. /\ since \in 0 .. MaxSlot
      /\ since < MaxSlot => \A n \in Markets : correlator.latest[n] # Unknown
      /\ \A j \in DOMAIN Writes : \A t \in TradesOf(Writes[j]) : Covered(j, t)
  BY <1>1 DEF CoverInv
<1>3. /\ cluster' = cluster /\ Writes' = Writes
      /\ \A j \in DOMAIN Writes : Settled(j)' <=> Settled(j)
  BY PairsRest
<1>4. ASSUME NEW j \in DOMAIN Writes, NEW t \in TradesOf(Writes[j]) PROVE Covered(j, t)'
  <2>1. Covered(j, t)
    BY <1>2, <1>4
  <2>2. /\ Recorded(t) => Recorded(t)'
        /\ Recorded(t) /\ t.slot <= pending'.flushed_through => t \in store'.rows
    BY DEF Recorded
  <2>3. Latest(j)' = Latest(j) /\ (Settled(j)' <=> Settled(j)) /\ Writes'[j] = Writes[j]
    BY <1>3 DEF Latest
  <2>4. t.slot = Writes[j].slot
    BY <1>1, <1>4, WriteFields, TradeOfFields
  <2>5. ASSUME since < Writes[j].slot, ~ Settled(j), Writes[j].slot <= pending'.flushed_through
        PROVE  t \in store'.rows
    <3>1. CASE pending'.flushed_through = pending.flushed_through
      BY <2>1, <2>5, <3>1 DEF Covered
    <3>2. CASE pending'.flushed_through <= todo.slot
      <4>1. Writes[j].slot \in Nat /\ todo.slot \in Nat /\ pending'.flushed_through \in Int
        BY <1>1, WriteFields, ProcessFields
      <4>2. Writes[j].slot <= todo.slot
        BY <2>5, <3>2, <4>1
      <4> QED BY <2>1, <2>2, <2>4, <2>5, <4>2 DEF Covered
    <3> QED BY <3>1, <3>2
  <2> QED BY <2>1, <2>2, <2>3, <2>5 DEF Covered
<1> QED BY <1>1, <1>2, <1>3, <1>4 DEF CoverInv, Unknown

LEMMA FlushRootedKeeps ==
  ASSUME IInv, FlushRooted
  PROVE  IInv' /\ (CoverInv => CoverInv')
<1> DEFINE s == todo.slot
           rows == Rooted(pending, s)
<1>1. /\ stage = "checkpoint"
      /\ pending' = TakeThrough(pending, s)
      /\ store' = [store EXCEPT !.rows = AppendRows(@, rows)]
      /\ Finish
      /\ UNCHANGED <<cluster, sent, wire, since>>
  BY DEF FlushRooted
<1>2. ChainInv /\ ProcessTypes /\ PendingType(pending) /\ RowsInv
  BY IInvParts, ProcessFields
<1>3. /\ PendingType(pending') /\ pending'.by_slot \subseteq pending.by_slot
      /\ s <= pending.flushed_through => pending' = pending
      /\ ~ (s <= pending.flushed_through) =>
           /\ pending'.by_slot = {t \in pending.by_slot : t.slot > s}
           /\ pending'.flushed_through = s
           /\ rows = {t \in pending.by_slot : t.slot <= s}
  <2>1. CASE s <= pending.flushed_through
    BY <1>1, <1>2, <2>1 DEF TakeThrough
  <2>2. CASE ~ (s <= pending.flushed_through)
    <3> DEFINE left == {t \in pending.by_slot : t.slot > s}
    <3>1. pending' = [by_slot |-> left, flushed_through |-> s]
      BY <1>1, <2>2 DEF TakeThrough
    <3>2. left \subseteq AllTrades
      BY <1>2, ProcessFields
    <3>3. rows = {t \in pending.by_slot : t.slot <= s}
      BY <2>2 DEF Rooted
    <3> QED BY <2>2, <3>1, <3>2, <3>3 DEF PendingType
  <2> QED BY <2>1, <2>2
<1>4. /\ IInv' /\ Resting
      /\ correlator'.latest = correlator.latest /\ stage' = "next"
      /\ store'.rows = store.rows \cup rows
  <2>1. rows \in SUBSET rows
    OBVIOUS
  <2> HIDE DEF rows
  <2> QED BY <1>1, <1>3, <2>1, FlushStands DEF rows
<1>5. ASSUME CoverInv PROVE CoverInv'
  <2>1. /\ pending.flushed_through \in 0 .. cluster.rooted
        /\ \A t \in pending.by_slot : pending.flushed_through < t.slot
    BY <1>5 DEF CoverInv
  <2>2. /\ s \in Nat /\ s <= cluster.rooted /\ cluster.rooted \in Nat
        /\ \A t \in pending.by_slot : t.slot \in Nat
    <3>1. pending.by_slot \subseteq cluster.trades /\ s <= cluster.rooted
      BY <1>1, <1>2 DEF RowsInv
    <3>2. \A t \in pending.by_slot : t.slot \in Nat
      BY <1>2, <3>1, TradeFields
    <3> QED BY <1>2, <3>1, <3>2, ProcessFields, ChainFields, SlotBound
  <2>3. pending'.flushed_through \in 0 .. cluster.rooted
    BY <1>3, <2>1, <2>2
  <2>4. \/ pending'.flushed_through = pending.flushed_through
        \/ pending'.flushed_through <= todo.slot
    BY <1>3, <2>2
  <2>5. \A t \in pending'.by_slot : pending'.flushed_through < t.slot
    BY <1>3, <2>1, <2>2
  <2>6. \A t \in pending.by_slot :
          \/ t \in store'.rows
          \/ t \in pending'.by_slot /\ ~ (t.slot <= pending'.flushed_through)
    <3>1. TAKE t \in pending.by_slot
    <3>2. CASE s <= pending.flushed_through
      BY <1>3, <2>1, <2>2, <3>2
    <3>3. CASE ~ (s <= pending.flushed_through)
      BY <1>3, <1>4, <2>2, <3>3
    <3> QED BY <3>2, <3>3
  <2>7. store.rows \subseteq store'.rows
    BY <1>4
  <2> QED BY <1>1, <1>4, <1>5, <2>3, <2>4, <2>5, <2>6, <2>7, FlushCovers
<1> QED BY <1>4, <1>5

LEMMA LowestSlotIs ==
  ASSUME NEW rows, rows # {}, \A t \in rows : t.slot \in Nat
  PROVE  /\ \E t \in rows : LowestSlot(rows) = t.slot
         /\ \A t \in rows : LowestSlot(rows) <= t.slot
<1> DEFINE slots == {t.slot : t \in rows}
<1>1. slots \in SUBSET Nat /\ slots # {}
  OBVIOUS
<1>2. \E n \in slots : \A k \in slots : n <= k
  <2> HIDE DEF slots
  <2> QED BY ONLY <1>1, LeastNat
<1>3. \E t \in rows : \A u \in rows : t.slot <= u.slot
  BY <1>2
<1> DEFINE low == CHOOSE t \in rows : \A u \in rows : t.slot <= u.slot
<1>4. low \in rows /\ \A u \in rows : low.slot <= u.slot
  BY <1>3
<1>5. LowestSlot(rows) = low.slot
  BY DEF LowestSlot
<1> HIDE DEF low
<1> QED BY <1>4, <1>5

LEMMA FlushFailsKeeps ==
  ASSUME IInv, FlushFails
  PROVE  IInv' /\ (CoverInv => CoverInv')
<1> DEFINE s == todo.slot
           rows == Rooted(pending, s)
           left == {t \in pending.by_slot : t.slot > s}
           below == LowestSlot(rows) - 1
<1>1. /\ stage = "checkpoint" /\ rows # {}
      /\ pending' = Requeue(TakeThrough(pending, s), rows)
      /\ Finish
      /\ UNCHANGED <<cluster, sent, wire, since>>
  BY DEF FlushFails
<1>2. PICK written \in SUBSET rows :
        store' = [store EXCEPT !.rows = AppendRows(@, written)]
  BY DEF FlushFails
<1>3. ChainInv /\ ProcessTypes /\ PendingType(pending) /\ RowsInv
        /\ pending.by_slot \subseteq AllTrades
  BY IInvParts, ProcessFields
<1>4. /\ s \in Nat /\ s <= cluster.rooted /\ cluster.rooted \in Nat
      /\ \A t \in pending.by_slot : t.slot \in Nat
  <2>1. pending.by_slot \subseteq cluster.trades /\ s <= cluster.rooted
    BY <1>1, <1>3 DEF RowsInv
  <2>2. \A t \in pending.by_slot : t.slot \in Nat
    BY <1>3, <2>1, TradeFields
  <2> QED BY <1>3, <2>1, <2>2, ProcessFields, ChainFields, SlotBound
<1>5. ~ (s <= pending.flushed_through)
  BY <1>1, RootedIs
<1>6. rows = {t \in pending.by_slot : t.slot <= s}
  BY <1>5 DEF Rooted
<1>7. left \cup rows = pending.by_slot
  BY <1>4, <1>6
<1>8. /\ \E t \in rows : LowestSlot(rows) = t.slot
      /\ \A t \in rows : LowestSlot(rows) <= t.slot
  BY <1>1, <1>4, <1>6, LowestSlotIs
<1>9. LowestSlot(rows) \in Nat /\ LowestSlot(rows) <= s
  BY <1>4, <1>6, <1>8
<1>10. pending' = [by_slot |-> pending.by_slot, flushed_through |-> below]
  <2>1. TakeThrough(pending, s) = [by_slot |-> left, flushed_through |-> s]
    BY <1>5 DEF TakeThrough
  <2>2. below < s
    BY <1>4, <1>9
  <2> HIDE DEF left, rows, below
  <2>3. Requeue([by_slot |-> left, flushed_through |-> s], rows) =
          [by_slot |-> left \cup rows, flushed_through |-> below]
    BY <2>2 DEF Requeue, below
  <2> QED BY <1>1, <1>7, <2>1, <2>3
<1>11. /\ PendingType(pending') /\ pending'.by_slot = pending.by_slot
       /\ pending'.flushed_through = below
  <2> HIDE DEF below
  <2> QED BY <1>3, <1>10 DEF PendingType
<1>12. /\ IInv' /\ Resting
       /\ correlator'.latest = correlator.latest /\ stage' = "next"
       /\ store'.rows = store.rows \cup written
  <2> HIDE DEF rows
  <2> QED BY <1>1, <1>2, <1>11, FlushStands DEF rows
<1>13. ASSUME CoverInv PROVE CoverInv'
  <2>1. /\ pending.flushed_through \in 0 .. cluster.rooted
        /\ \A t \in pending.by_slot : pending.flushed_through < t.slot
    BY <1>13 DEF CoverInv
  <2>2. 0 <= below
    <3>1. PICK t \in rows : LowestSlot(rows) = t.slot
      BY <1>8
    <3>2. pending.flushed_through < t.slot
      BY <1>6, <2>1, <3>1
    <3> QED BY <1>4, <1>9, <2>1, <3>1, <3>2
  <2>3. below <= s /\ below \in 0 .. cluster.rooted
    BY <1>4, <1>9, <2>2
  <2>4. \A t \in pending.by_slot : below < t.slot
    <3>1. TAKE t \in pending.by_slot
    <3>2. CASE t \in rows
      BY <1>4, <1>8, <1>9, <3>2
    <3>3. CASE t \notin rows
      BY <1>4, <1>6, <2>3, <3>3
    <3> QED BY <3>2, <3>3
  <2>5. /\ pending'.flushed_through \in 0 .. cluster.rooted
        /\ pending'.flushed_through <= todo.slot
        /\ \A t \in pending'.by_slot : pending'.flushed_through < t.slot
    BY <1>11, <2>3, <2>4
  <2>6. \A t \in pending.by_slot :
          \/ t \in store'.rows
          \/ t \in pending'.by_slot /\ ~ (t.slot <= pending'.flushed_through)
    BY <1>4, <1>11, <2>3, <2>4
  <2>7. store.rows \subseteq store'.rows
    BY <1>12
  <2> QED BY <1>1, <1>12, <1>13, <2>5, <2>6, <2>7, FlushCovers
<1> QED BY <1>12, <1>13
-----------------------------------------------------------------------------
(* Every step of a behaviour that meets none of the known limits. *)

LEMMA StutterKeeps ==
  ASSUME IInv, UNCHANGED vars
  PROVE  IInv' /\ (CoverInv => CoverInv')
<1>1. /\ cluster' = cluster /\ sent' = sent /\ wire' = wire /\ correlator' = correlator
      /\ pending' = pending /\ store' = store /\ stage' = stage /\ todo' = todo
      /\ since' = since
  BY DEF vars, process
<1>2. ChainInv /\ ProcessTypes /\ Fresh /\ WireInv /\ RowsInv /\ wire \in Wires
  BY IInvParts DEF ProcessTypes
<1>3. ChainInv' /\ Writes' = Writes /\ Runs' = Runs
  BY <1>1, <1>2, ChainFrame
<1>4. ProcessTypes'
  BY <1>1, <1>2 DEF ProcessTypes, IsCorrelator, Wires, Stores
<1>5. Fresh'
  BY <1>1, <1>2 DEF Fresh, NewCorrelator, NewPending, ResumingFrom, Unknown
<1>6. WireInv'
  <2>1. DueAccounts' = DueAccounts /\ DueTransactions' = DueTransactions
    BY <1>1 DEF DueAccounts, DueTransactions, Due
  <2>2. \A u \in wire.startup : StartupIsTrue(u) => StartupIsTrue(u)'
    BY <1>1, <1>3 DEF StartupIsTrue, BookAt
  <2> QED BY <1>1, <1>2, <1>3, <2>1, <2>2 DEF WireInv
<1>7. RowsInv'
  <2>1. pending'.by_slot \subseteq cluster.trades
    BY <1>1, <1>2 DEF RowsInv
  <2> QED BY <1>1, <1>2, <2>1, RowsStand
<1>8. CASE Up
  <2>1. Resting
    BY <1>1, <1>2, <1>8 DEF Resting, Up
  <2>2. PairInv' /\ BaseInv'
    BY <1>1, <2>1, PairsRest, BaseRests
  <2>3. CoverInv => CoverInv'
    BY <1>1, <2>1, CoverRests
  <2> QED BY <1>3, <1>4, <1>5, <1>6, <1>7, <2>2, <2>3 DEF IInv
<1>9. CASE ~ Up
  <2>1. ~ Up'
    BY <1>1, <1>9 DEF Up
  <2>2. PairInv' /\ BaseInv'
    BY <2>1 DEF PairInv, BaseInv
  <2>3. CoverInv => CoverInv'
    BY <1>1, <2>1 DEF CoverInv
  <2> QED BY <1>3, <1>4, <1>5, <1>6, <1>7, <2>2, <2>3 DEF IInv
<1> QED BY <1>8, <1>9

Consumes ==
  \/ ReceiveStartup \/ ReceiveAccount \/ ReceiveTransaction
  \/ \E s \in 1 .. MaxSlot : ReceiveConfirmed(s) \/ ReceiveDead(s) \/ ReceiveFinalized(s)
  \/ \E m \in Markets : Checkpoint(m) \/ CheckpointFails(m)
  \/ FlushRooted \/ FlushFails

LEMMA ConsumesKeeps ==
  ASSUME IInv, Consumes, Calm
  PROVE  IInv' /\ (CoverInv => CoverInv')
<1>1. DeadSlotsAreEmpty /\ QueuesHold
  BY DEF Calm
<1>2. CASE ReceiveStartup
  BY <1>2, ReceiveStartupKeeps
<1>3. CASE ReceiveAccount
  BY <1>1, <1>3, ReceiveAccountKeeps
<1>4. CASE ReceiveTransaction
  BY <1>1, <1>4, ReceiveTransactionKeeps
<1>5. ASSUME NEW s \in 1 .. MaxSlot, ReceiveConfirmed(s) \/ ReceiveDead(s) \/ ReceiveFinalized(s)
      PROVE  IInv' /\ (CoverInv => CoverInv')
  BY <1>1, <1>5, ReceiveConfirmedKeeps, ReceiveDeadKeeps, ReceiveFinalizedKeeps
<1>6. ASSUME NEW m \in Markets, Checkpoint(m) \/ CheckpointFails(m)
      PROVE  IInv' /\ (CoverInv => CoverInv')
  BY <1>6, CheckpointKeeps, CheckpointFailsKeeps
<1>7. CASE FlushRooted
  BY <1>7, FlushRootedKeeps
<1>8. CASE FlushFails
  BY <1>8, FlushFailsKeeps
<1> QED BY <1>2, <1>3, <1>4, <1>5, <1>6, <1>7, <1>8 DEF Consumes

LEMMA NextParts ==
  ASSUME Next
  PROVE  \/ Cluster \/ Resume \/ Subscribe \/ SeedFromRpc \/ StartCold
         \/ Reconnect \/ Crash \/ Consumes
BY DEF Next, Ingest, Fault, Consumes

LEMMA StepKeeps ==
  ASSUME IInv, [Next]_vars, Calm, Calm', [Reconnect => NothingReplayedWaits]_vars
  PROVE  /\ IInv'
         /\ StartsAfresh /\ CoverInv => CoverInv'
<1>1. CASE UNCHANGED vars
  BY <1>1, StutterKeeps
<1>2. CASE ~ UNCHANGED vars
  <2>1. Next /\ (Reconnect => NothingReplayedWaits)
    BY <1>2
  <2>2. DeadSlotsAreEmpty /\ DeadSlotsAreEmpty'
    BY DEF Calm
  <2>3. CASE Cluster
    BY <2>2, <2>3, ClusterKeeps
  <2>4. CASE Resume
    <3>1. ~ StartsAfresh
      BY <2>4 DEF Resume, StartsAfresh
    <3> QED BY <2>4, <3>1, ResumeKeeps
  <2>5. CASE Subscribe
    BY <2>2, <2>5, SubscribeKeeps
  <2>6. CASE SeedFromRpc
    BY <2>2, <2>6, SeedFromRpcKeeps
  <2>7. CASE StartCold
    BY <2>7, StartColdKeeps
  <2>8. CASE Reconnect
    BY <2>1, <2>8, ReconnectKeeps
  <2>9. CASE Crash
    BY <2>9, CrashKeeps
  <2>10. CASE Consumes
    BY <2>10, ConsumesKeeps
  <2> QED BY <2>1, <2>3, <2>4, <2>5, <2>6, <2>7, <2>8, <2>9, <2>10, NextParts
<1> QED BY <1>1, <1>2

LEMMA Invariance == Spec /\ []Calm /\ ReconnectsBetweenPairs => []IInv
<1>1. Init => IInv
  BY Starts
<1>2. IInv /\ [Next]_vars /\ Calm /\ Calm' /\ [Reconnect => NothingReplayedWaits]_vars => IInv'
  BY StepKeeps
<1> QED BY <1>1, <1>2, PTL DEF Spec, ReconnectsBetweenPairs

LEMMA CoverInvariance ==
  Spec /\ []Calm /\ ReconnectsBetweenPairs /\ []StartsAfresh => [](IInv /\ CoverInv)
<1>1. Init => IInv /\ CoverInv
  BY Starts
<1>2. IInv /\ CoverInv /\ [Next]_vars /\ Calm /\ Calm' /\ StartsAfresh
        /\ [Reconnect => NothingReplayedWaits]_vars => IInv' /\ CoverInv'
  BY StepKeeps
<1> QED BY <1>1, <1>2, PTL DEF Spec, ReconnectsBetweenPairs

-----------------------------------------------------------------------------
(* What the store holds. *)

(* No row of the store ever turns out to be false: whatever crashes,       *)
(* resumes, failed and half-done writes, empty dead slots and reconnects   *)
(* between pairs there are, each row is a trade of a finalized slot under  *)
(* its own signature (the rows that run() queues and flush_rooted writes,  *)
(* pipeline.rs).                                                           *)
THEOREM EveryRowIsTrue == Spec /\ []Calm /\ ReconnectsBetweenPairs => []StoreIsTrue
<1>1. IInv => StoreIsTrue
  BY DEF IInv, RowsInv, StoreIsTrue
<1> QED BY <1>1, Invariance, PTL

(* What save_checkpoints stores of a market, and a restart resumes from,   *)
(* is the market's book at the end of the slot it names.                   *)
THEOREM EveryCheckpointIsTrue ==
  Spec /\ []Calm /\ ReconnectsBetweenPairs => []CheckpointsMatchChain
<1>1. IInv => CheckpointsMatchChain
  BY DEF IInv, RowsInv, CheckpointIsTrue, CheckpointsMatchChain
<1> QED BY <1>1, Invariance, PTL

(* A trade that is owed and behind the watermark is in the store. *)
OwedIsStored ==
  \A t \in RootedTrades : since < t.slot /\ t.slot <= pending.flushed_through => t \in store.rows

LEMMA StoredBehind ==
  ASSUME IInv, CoverInv
  PROVE  OwedIsStored
<1>1. ChainInv /\ ProcessTypes /\ Fresh
  BY IInvParts
<1> SUFFICES ASSUME NEW t \in RootedTrades, since < t.slot, t.slot <= pending.flushed_through
             PROVE  t \in store.rows
  BY DEF OwedIsStored
<1>2. t \in cluster.trades
  BY DEF RootedTrades
<1>3. t.slot \in Nat /\ 1 <= t.slot
  BY <1>1, <1>2, TradeFields
<1>4. CASE Up
  <2>1. PICK i \in DOMAIN Writes : t \in TradesOf(Writes[i])
    BY <1>1, <1>2, TradeHasWrite
  <2>2. t.slot = Writes[i].slot
    BY <1>1, <2>1, WriteFields, TradeOfFields
  <2>3. Covered(i, t)
    BY <1>4, <2>1 DEF CoverInv
  <2>4. t \notin pending.by_slot
    <3>1. pending.flushed_through \in Int
      BY DEF CoverInv
    <3>2. t \in pending.by_slot => pending.flushed_through < t.slot
      BY DEF CoverInv
    <3> QED BY <1>3, <3>1, <3>2
  <2> QED BY <2>2, <2>3, <2>4 DEF Covered, Recorded
<1>5. CASE ~ Up
  <2>1. pending = NewPending
    BY <1>1, <1>5 DEF Fresh, ProcessTypes, Up
  <2>2. pending.flushed_through = 0
    BY <2>1, NewPendingIs
  <2> QED BY <1>3, <2>2
<1> QED BY <1>4, <1>5

(* Behind the watermark no trade since coverage began is missing, also     *)
(* after failed and half-done writes, crashes and reconnects, as long as   *)
(* no restart had a checkpoint to resume from (PendingTrades, flush.rs).   *)
THEOREM NothingIsEverMissing ==
  Spec /\ []Calm /\ ReconnectsBetweenPairs /\ []StartsAfresh => []NothingMissing
<1>1. IInv /\ CoverInv => NothingMissing
  BY StoredBehind DEF OwedIsStored, NothingMissing
<1> QED BY <1>1, CoverInvariance, PTL
-----------------------------------------------------------------------------
(* The stream implements the contract of its store. *)

(* What the chain has finalized stays, and what it finalizes is new. *)
LEMMA ClusterRoots ==
  ASSUME ChainInv, Cluster
  PROVE  /\ RootedTrades \subseteq RootedTrades'
         /\ \A t \in RootedTrades' : t \in RootedTrades \/ ~ (t.slot <= cluster.rooted)
<1>1. /\ cluster \in Clusters /\ cluster.slot \in Nat /\ cluster.rooted \in Nat
      /\ cluster.rooted < cluster.slot
      /\ \A t \in cluster.trades : t.slot \in Nat
  BY ChainFields, TradeFields, SlotBound DEF ChainInv, ChainTypes
<1>2. ASSUME NEW s \in Signatures, Land(s)
      PROVE  /\ cluster'.rooted = cluster.rooted /\ cluster.trades \subseteq cluster'.trades
             /\ \A t \in cluster'.trades : t \in cluster.trades \/ t.slot = cluster.slot
  <2> DEFINE new == {[market |-> MarketOf[s], slot |-> cluster.slot, signature |-> s, order |-> n] :
                       n \in BookAt(MarketOf[s], cluster.slot) + 1
                               .. BookAt(MarketOf[s], cluster.slot) + Fills[s]}
  <2>1. cluster' = [cluster EXCEPT !.landed = @ \cup {s}, !.trades = @ \cup new]
    BY <1>2 DEF Land
  <2>2. \A t \in new : t.slot = cluster.slot
    OBVIOUS
  <2> HIDE DEF new
  <2>3. cluster'.rooted = cluster.rooted /\ cluster'.trades = cluster.trades \cup new
    BY <1>1, <2>1 DEF Clusters
  <2> QED BY <2>2, <2>3
<1>3. ASSUME NEW s \in Signatures, LandFailing(s)
      PROVE  cluster'.rooted = cluster.rooted /\ cluster'.trades = cluster.trades
  BY <1>1, <1>3 DEF LandFailing, Clusters
<1>4. CASE CloseSlot
  BY <1>1, <1>4 DEF CloseSlot, Clusters, RootedTrades
<1>5. CASE AbandonSlot
  <2> DEFINE slot == cluster.slot - 1
             lost == {t \in cluster.trades : t.slot = slot}
  <2>1. /\ slot \in Unrooted
        /\ cluster' = [cluster EXCEPT !.dead = @ \cup {slot}, !.trades = @ \ lost,
                                      !.landed = @ \ {t.signature : t \in lost}]
    BY <1>5 DEF AbandonSlot
  <2>2. slot > cluster.rooted
    BY <2>1 DEF Unrooted
  <2> HIDE DEF lost
  <2>3. cluster'.rooted = cluster.rooted /\ cluster'.trades = cluster.trades \ lost
    BY <1>1, <2>1 DEF Clusters
  <2>4. \A t \in lost : ~ (t.slot <= cluster.rooted)
    BY <1>1, <2>2 DEF lost
  <2> QED BY <2>3, <2>4 DEF RootedTrades
<1>6. CASE FinalizeSlot
  <2>1. PICK slot \in Unrooted : cluster' = [cluster EXCEPT !.rooted = slot]
    BY <1>6 DEF FinalizeSlot
  <2>2. slot \in Nat /\ slot > cluster.rooted
    BY <1>1, <2>1 DEF Unrooted
  <2>3. cluster'.rooted = slot /\ cluster'.trades = cluster.trades
    BY <1>1, <2>1 DEF Clusters
  <2>4. \A t \in cluster.trades : t.slot <= cluster.rooted => t.slot <= slot
    BY <1>1, <2>2
  <2> QED BY <2>3, <2>4 DEF RootedTrades
<1>7. ASSUME NEW s \in Signatures, Land(s)
      PROVE  /\ RootedTrades \subseteq RootedTrades'
             /\ \A t \in RootedTrades' : t \in RootedTrades \/ ~ (t.slot <= cluster.rooted)
  BY <1>1, <1>2, <1>7 DEF RootedTrades
<1>8. ASSUME NEW s \in Signatures, LandFailing(s)
      PROVE  /\ RootedTrades \subseteq RootedTrades'
             /\ \A t \in RootedTrades' : t \in RootedTrades \/ ~ (t.slot <= cluster.rooted)
  BY <1>3, <1>8 DEF RootedTrades
<1> QED BY <1>4, <1>5, <1>6, <1>7, <1>8 DEF Cluster

(* What holds at each end of a step of the contract. *)
PromiseHolds ==
  /\ RootedTrades \subseteq AllTrades
  /\ store.rows \subseteq RootedTrades
  /\ pending.flushed_through \in 0 .. cluster.rooted
  /\ pending.flushed_through \in 0 .. MaxSlot
  /\ since \in 0 .. MaxSlot
  /\ OwedIsStored

LEMMA PromiseAlwaysHolds ==
  ASSUME IInv, CoverInv
  PROVE  PromiseHolds
<1>1. ChainInv /\ RowsInv /\ OwedIsStored
  BY IInvParts, StoredBehind
<1>2. RootedTrades \subseteq AllTrades
  BY <1>1, ChainFields DEF RootedTrades
<1>3. pending.flushed_through \in 0 .. cluster.rooted /\ since \in 0 .. MaxSlot
  BY DEF CoverInv
<1>4. cluster.rooted \in 0 .. MaxSlot
  BY <1>1, ChainFields
<1>5. pending.flushed_through \in 0 .. MaxSlot
  BY <1>3, <1>4, SlotBound
<1> QED BY <1>1, <1>2, <1>3, <1>5 DEF PromiseHolds, RowsInv

(* A chain step roots trades; the process neither sees nor stores them.  *)
LEMMA ClusterIsRoot ==
  ASSUME IInv, PromiseHolds, PromiseHolds', Cluster
  PROVE  Contract!Root
<1>1. store' = store /\ since' = since /\ pending' = pending
  BY DEF Cluster, Land, LandFailing, CloseSlot, AbandonSlot, FinalizeSlot, process
<1>2. /\ RootedTrades \subseteq RootedTrades'
      /\ \A t \in RootedTrades' : t \in RootedTrades \/ ~ (t.slot <= cluster.rooted)
  BY IInvParts, ClusterRoots
<1>3. RootedTrades' \subseteq AllTrades
  BY DEF PromiseHolds, AllTrades
<1>4. pending.flushed_through \in 0 .. cluster.rooted /\ cluster.rooted \in Nat
  BY IInvParts, ChainFields, SlotBound DEF PromiseHolds
<1>5. \A t \in RootedTrades' \ RootedTrades : ~ (t.slot <= pending.flushed_through)
  <2>1. TAKE t \in RootedTrades' \ RootedTrades
  <2>2. ~ (t.slot <= cluster.rooted)
    BY <1>2
  <2>3. t.slot \in 1 .. MaxSlot
    BY <1>3 DEF AllTrades
  <2> QED BY <1>4, <2>2, <2>3, SlotBound
<1>6. Contract!Owed(RootedTrades' \ RootedTrades, since, pending.flushed_through) = {}
  BY <1>5 DEF Contract!Owed
<1> QED BY <1>1, <1>2, <1>3, <1>6 DEF Contract!Root

(* Rows are added and the watermark moves, or neither. *)
LEMMA AddingIsPersist ==
  ASSUME PromiseHolds, PromiseHolds', cluster' = cluster, since' = since, store.rows \subseteq store'.rows
  PROVE  Contract!Persist
<1>1. RootedTrades' = RootedTrades
  BY DEF RootedTrades
<1>2. /\ store'.rows \subseteq RootedTrades
      /\ pending'.flushed_through \in 0 .. MaxSlot
      /\ \A t \in RootedTrades :
           since < t.slot /\ t.slot <= pending'.flushed_through => t \in store'.rows
  BY <1>1 DEF PromiseHolds, OwedIsStored
<1>3. Contract!Owed(RootedTrades, since, pending'.flushed_through) \subseteq store'.rows
  BY <1>2 DEF Contract!Owed
<1> QED BY <1>1, <1>2, <1>3 DEF Contract!Persist

(* Where coverage starts, nothing that is finalized is owed. *)
LEMMA CoveringIsCover ==
  ASSUME IInv, PromiseHolds', DeadSlotsAreEmpty, SeedFromRpc \/ StartCold
  PROVE  Contract!Cover
<1>1. ChainInv
  BY IInvParts
<1>2. cluster' = cluster /\ store' = store
  BY DEF SeedFromRpc, StartCold
<1>3. RootedTrades' = RootedTrades
  BY <1>2 DEF RootedTrades
<1>4. \A t \in RootedTrades : ~ (since' < t.slot)
  <2>1. TAKE t \in RootedTrades
  <2>2. t \in cluster.trades /\ t.slot <= cluster.rooted
    BY DEF RootedTrades
  <2>3. t.slot \in Nat /\ t.slot <= MaxSlot
    BY <1>1, <2>2, TradeFields, SlotBound
  <2>4. CASE StartCold
    <3>1. since' = MaxSlot
      BY <2>4 DEF StartCold
    <3> QED BY <2>3, <3>1, SlotBound
  <2>5. CASE SeedFromRpc
    <3>1. since' = LiveSlot
      BY <2>5 DEF SeedFromRpc
    <3>2. PICK i \in DOMAIN Writes : t \in TradesOf(Writes[i])
      BY <1>1, <2>2, TradeHasWrite
    <3>3. Writes[i].slot = t.slot
      BY <1>1, <3>2, WriteFields, TradeOfFields
    <3>4. t.slot < cluster.slot
      <4>1. cluster.rooted \in Nat /\ cluster.slot \in Nat /\ cluster.rooted < cluster.slot
        BY <1>1, ChainFields, SlotBound
      <4> QED BY <2>2, <2>3, <4>1
    <3>5. t.slot <= LiveSlot /\ LiveSlot \in Nat
      BY <1>1, <3>3, <3>4, LiveSlotIs
    <3> QED BY <2>3, <3>1, <3>5
  <2> QED BY <2>4, <2>5
<1>5. Contract!Owed(RootedTrades, since', MaxSlot) = {}
  BY <1>4 DEF Contract!Owed
<1>6. since' \in 0 .. MaxSlot /\ pending'.flushed_through \in 0 .. MaxSlot
  BY DEF PromiseHolds
<1> QED BY <1>2, <1>3, <1>5, <1>6 DEF Contract!Cover

(* Every other step of the process leaves the chain alone, and no row is   *)
(* taken back.                                                             *)
LEMMA ConsumingAdds ==
  ASSUME IInv, Consumes
  PROVE  cluster' = cluster /\ since' = since /\ store.rows \subseteq store'.rows
<1>1. ProcessTypes /\ store \in Stores
  BY IInvParts DEF ProcessTypes
<1>2. ASSUME ReceiveStartup \/ ReceiveAccount \/ ReceiveTransaction
      PROVE  cluster' = cluster /\ since' = since /\ store.rows \subseteq store'.rows
  BY <1>2 DEF ReceiveStartup, ReceiveAccount, ReceiveTransaction
<1>3. ASSUME NEW s \in 1 .. MaxSlot, ReceiveConfirmed(s) \/ ReceiveDead(s) \/ ReceiveFinalized(s)
      PROVE  cluster' = cluster /\ since' = since /\ store.rows \subseteq store'.rows
  BY <1>3 DEF ReceiveConfirmed, ReceiveDead, ReceiveFinalized
<1>4. ASSUME NEW m \in Markets, Checkpoint(m) \/ CheckpointFails(m)
      PROVE  cluster' = cluster /\ since' = since /\ store.rows \subseteq store'.rows
  BY <1>1, <1>4 DEF Checkpoint, CheckpointFails, Stores
<1>5. CASE FlushRooted
  <2> DEFINE rows == AppendRows(store.rows, Rooted(pending, todo.slot))
  <2>1. cluster' = cluster /\ since' = since /\ store' = [store EXCEPT !.rows = rows]
    BY <1>5 DEF FlushRooted
  <2>2. store.rows \subseteq rows
    BY DEF AppendRows
  <2> HIDE DEF rows
  <2> QED BY <1>1, <2>1, <2>2 DEF Stores
<1>6. CASE FlushFails
  <2>1. PICK written : /\ cluster' = cluster /\ since' = since
                       /\ store' = [store EXCEPT !.rows = AppendRows(@, written)]
    BY <1>6 DEF FlushFails
  <2> DEFINE rows == AppendRows(store.rows, written)
  <2>2. store.rows \subseteq rows
    BY DEF AppendRows
  <2>3. store' = [store EXCEPT !.rows = rows]
    BY <2>1
  <2> HIDE DEF rows
  <2> QED BY <1>1, <2>1, <2>2, <2>3 DEF Stores
<1> QED BY <1>2, <1>3, <1>4, <1>5, <1>6 DEF Consumes

LEMMA StepIsContract ==
  ASSUME IInv, PromiseHolds, PromiseHolds', [Next]_vars, DeadSlotsAreEmpty, StartsAfresh
  PROVE  Contract!TapeNext
<1>1. CASE UNCHANGED vars
  <2>1. cluster' = cluster /\ since' = since /\ store' = store
    BY <1>1 DEF vars
  <2> QED BY <2>1, AddingIsPersist DEF Contract!TapeNext
<1>2. CASE Cluster
  BY <1>2, ClusterIsRoot DEF Contract!TapeNext
<1>3. CASE SeedFromRpc \/ StartCold
  BY <1>3, CoveringIsCover DEF Contract!TapeNext
<1>4. CASE Subscribe \/ Reconnect \/ Crash
  <2>1. cluster' = cluster /\ since' = since /\ store' = store
    BY <1>4 DEF Subscribe, Reconnect, Crash
  <2> QED BY <2>1, AddingIsPersist DEF Contract!TapeNext
<1>5. CASE Consumes
  BY <1>5, ConsumingAdds, AddingIsPersist DEF Contract!TapeNext
<1>6. CASE Resume
  BY <1>6 DEF Resume, StartsAfresh
<1> QED BY <1>1, <1>2, <1>3, <1>4, <1>5, <1>6, NextParts

LEMMA ContractStarts ==
  ASSUME Init
  PROVE  Contract!TapeInit
<1>1. /\ cluster.trades = {} /\ store.rows = {} /\ since = MaxSlot
      /\ pending.flushed_through = 0
  BY DEF Init, NewPending, ResumingFrom
<1>2. RootedTrades = {}
  BY <1>1 DEF RootedTrades
<1> QED BY <1>1, <1>2, SlotBound DEF Contract!TapeInit, Contract!Owed

(* The stream implements Tape, the contract of its store: only trades of   *)
(* finalized slots are written, nothing written is taken back, coverage    *)
(* starts where nothing is owed, and behind the watermark nothing owed is  *)
(* missing, whatever the process, the store and the client go through      *)
(* short of a restart that has a checkpoint (flush.rs, store/mod.rs).      *)
THEOREM StreamImplementsTape ==
  Spec /\ []Calm /\ ReconnectsBetweenPairs /\ []StartsAfresh => StreamKeepsTheContract
<1>1. Spec /\ []Calm /\ ReconnectsBetweenPairs /\ []StartsAfresh => [](IInv /\ CoverInv)
  BY CoverInvariance
<1>2. IInv /\ CoverInv => PromiseHolds
  BY PromiseAlwaysHolds
<1>3. IInv /\ PromiseHolds /\ PromiseHolds' /\ [Next]_vars /\ Calm /\ StartsAfresh => Contract!TapeNext
  BY StepIsContract DEF Calm
<1>4. Init => Contract!TapeInit
  BY ContractStarts
<1> QED BY <1>1, <1>2, <1>3, <1>4, PTL DEF Spec, StreamKeepsTheContract, Contract!TapeSpec
-----------------------------------------------------------------------------
(* What every state of every behaviour holds, dead slots, evicted halves   *)
(* and reconnects included: no premise is needed in this part.             *)

USE RegistryAssumption

IsQueue(order) == order \in Seq(Signatures) /\ Len(order) <= PendingCapacity

QueuesFit(c) == IsQueue(c.transaction_order) /\ IsQueue(c.account_order)

IsAccounted(v) ==
  v.trades_seen <= TapeCapacity => v.trades_seen = Len(v.tape) + v.trades_retracted

IsView(v) ==
  /\ v \in [tracked : BOOLEAN, state : {v.state}, slot : {v.slot}, tape : Seq(AllTrades),
            trades_seen : Nat, finalized_through : {v.finalized_through},
            trades_retracted : Nat]
  /\ Len(v.tape) <= TapeCapacity
  /\ IsAccounted(v)

ChainKinds == cluster \in Clusters /\ IsFiniteSet(cluster.trades) /\ sent \in Sendings

ViewKinds == DOMAIN views = Markets /\ \A m \in Markets : IsView(views[m])

Watermark == pending.flushed_through \in 0 .. MaxSlot

Kinds ==
  /\ ChainKinds
  /\ ProcessTypes
  /\ Watermark
  /\ QueuesFit(correlator)
  /\ ViewKinds

LEMMA KindsAreTypes ==
  ASSUME Kinds
  PROVE  TypeOK /\ RetractionsAreAccounted
<1>1. /\ cluster.slot \in 1 .. MaxSlot + 1 /\ cluster.rooted \in 0 .. MaxSlot
      /\ cluster.dead \subseteq 1 .. MaxSlot /\ cluster.landed \subseteq Signatures
  BY DEF Kinds, ChainKinds, Clusters
<1>2. ProcessTypes
  BY DEF Kinds
<1>3. /\ correlator.latest \in [Markets -> {Unknown} \cup Nat]
      /\ correlator.known_at \in [Markets -> Unknown .. MaxSlot]
      /\ correlator.transactions \subseteq Signatures
      /\ correlator.accounts \subseteq Update
      /\ todo.slot \in 0 .. MaxSlot /\ todo.markets \subseteq Markets
  BY <1>2, ProcessFields DEF States
<1>4. WaitingAccounts(correlator) \subseteq Signatures
  BY <1>3 DEF WaitingAccounts, Update
<1>5. /\ Len(correlator.transaction_order) <= PendingCapacity
      /\ Len(correlator.account_order) <= PendingCapacity
      /\ pending.flushed_through \in 0 .. MaxSlot
  BY DEF Kinds, QueuesFit, IsQueue, Watermark
<1>6. \A m \in Markets : Len(views[m].tape) <= TapeCapacity /\ IsAccounted(views[m])
  BY DEF Kinds, ViewKinds, IsView
<1>7. stage \in {"down", "seed", "next", "checkpoint"}
  BY <1>2 DEF ProcessTypes
<1> QED BY <1>1, <1>3, <1>4, <1>5, <1>6, <1>7 DEF TypeOK, RetractionsAreAccounted, IsAccounted

(* The chain. *)

LEMMA BookIsCounted ==
  ASSUME ChainKinds, NEW m, NEW s
  PROVE  BookAt(m, s) \in Nat
<1> DEFINE upto == {t \in cluster.trades : t.market = m /\ t.slot <= s}
<1>1. IsFiniteSet(upto)
  BY FS_Subset, upto \subseteq cluster.trades DEF ChainKinds
<1> QED BY <1>1, FS_CardinalityType DEF BookAt

LEMMA Sends ==
  ASSUME ChainKinds, NEW accounts \in Seq(Update), NEW transactions \in Seq(Execution),
         NEW slots \in Seq(Status), Send(accounts, transactions, slots)
  PROVE  sent' \in Sendings
<1>1. /\ sent \in Sendings
      /\ sent.accounts \in Seq(Update) /\ sent.transactions \in Seq(Execution)
      /\ sent.slots \in Seq(Status)
  BY DEF ChainKinds, Sendings
<1>2. /\ sent.accounts \o accounts \in Seq(Update)
      /\ sent.transactions \o transactions \in Seq(Execution)
      /\ sent.slots \o slots \in Seq(Status)
  BY <1>1, ConcatProperties
<1> QED BY <1>1, <1>2 DEF Send, Sendings

LEMMA NoneIsSeq ==
  /\ <<>> \in Seq(Update) /\ <<>> \in Seq(Execution) /\ <<>> \in Seq(Status)
  OBVIOUS

LEMMA LandKinds ==
  ASSUME ChainKinds, NEW sig \in Signatures, Land(sig)
  PROVE  ChainKinds' /\ OnlyChain
<1> DEFINE m == MarketOf[sig]
           before == BookAt(m, cluster.slot)
           after == before + Fills[sig]
           new == {[market |-> m, slot |-> cluster.slot, signature |-> sig, order |-> n] :
                     n \in before + 1 .. after}
           u == AccountUpdate(cluster.slot, m, after, sig)
           r == [slot |-> cluster.slot, signature |-> sig, succeeded |-> TRUE]
<1>1. /\ cluster.slot <= MaxSlot
      /\ cluster' = [cluster EXCEPT !.landed = @ \cup {sig}, !.trades = @ \cup new]
      /\ Send(<<u>>, <<r>>, <<>>)
      /\ OnlyChain
  BY DEF Land, OnlyChain
<1>2. /\ cluster \in Clusters /\ cluster.slot \in 1 .. MaxSlot + 1
      /\ cluster.trades \subseteq AllTrades /\ IsFiniteSet(cluster.trades)
  BY DEF ChainKinds, Clusters
<1>3. m \in Markets /\ before \in Nat /\ after \in Nat /\ cluster.slot \in 1 .. MaxSlot
  <2>1. m \in Markets /\ Fills[sig] \in Nat
    OBVIOUS
  <2>2. before \in Nat
    BY BookIsCounted
  <2> HIDE DEF before
  <2> QED BY <1>1, <1>2, <2>1, <2>2, SlotBound
<1>4. new \subseteq AllTrades
  <2>1. \A n \in before + 1 .. after : n \in Nat
    BY <1>3
  <2> HIDE DEF before, after, m
  <2> QED BY <1>3, <2>1 DEF AllTrades
<1>5. IsFiniteSet(new)
  <2>1. before + 1 \in Int /\ after \in Int
    BY <1>3
  <2> DEFINE orders == before + 1 .. after
  <2>2. IsFiniteSet(orders)
    BY <2>1, FS_Interval
  <2> HIDE DEF orders
  <2> DEFINE f == [n \in orders |->
                    [market |-> m, slot |-> cluster.slot, signature |-> sig, order |-> n]]
             image == {f[n] : n \in orders}
  <2>3. f \in [orders -> image] /\ \A t \in image : \E n \in orders : f[n] = t
    OBVIOUS
  <2>4. image = new
    BY DEF orders
  <2> HIDE DEF f, image
  <2>5. f \in Surjection(orders, image)
    BY <2>3 DEF Surjection
  <2>6. IsFiniteSet(image)
    BY ONLY <2>2, <2>5, FS_Surjection
  <2> QED BY <2>4, <2>6
<1>6. u \in Update /\ r \in Execution
  BY <1>3 DEF Update, AccountUpdate, Execution
<1> HIDE DEF new, u, r
<1>7. cluster' \in Clusters /\ cluster'.trades = cluster.trades \cup new
  BY <1>1, <1>2, <1>4 DEF Clusters
<1>8. IsFiniteSet(cluster'.trades)
  <2>1. IsFiniteSet(cluster.trades) /\ IsFiniteSet(new)
    BY <1>2, <1>5
  <2>2. IsFiniteSet(cluster.trades \cup new)
    BY ONLY <2>1, FS_Union
  <2> QED BY <1>7, <2>2
<1>9. <<u>> \in Seq(Update) /\ <<r>> \in Seq(Execution)
  BY <1>6
<1>10. sent' \in Sendings
  BY <1>1, <1>9, NoneIsSeq, Sends
<1> QED BY <1>1, <1>7, <1>8, <1>10 DEF ChainKinds

LEMMA LandFailingKinds ==
  ASSUME ChainKinds, NEW sig \in Signatures, LandFailing(sig)
  PROVE  ChainKinds' /\ OnlyChain
<1> DEFINE r == [slot |-> cluster.slot, signature |-> sig, succeeded |-> FALSE]
<1>1. /\ cluster.slot <= MaxSlot
      /\ cluster' = [cluster EXCEPT !.landed = @ \cup {sig}]
      /\ Send(<<>>, <<r>>, <<>>)
      /\ OnlyChain
  BY DEF LandFailing, OnlyChain
<1>2. cluster \in Clusters /\ cluster.slot \in 1 .. MaxSlot + 1 /\ IsFiniteSet(cluster.trades)
  BY DEF ChainKinds, Clusters
<1>3. cluster.slot \in 1 .. MaxSlot
  BY <1>1, <1>2, SlotBound
<1>4. <<r>> \in Seq(Execution)
  BY <1>3 DEF Execution
<1> HIDE DEF r
<1>5. sent' \in Sendings
  BY <1>1, <1>4, NoneIsSeq, Sends
<1>6. cluster' \in Clusters /\ cluster'.trades = cluster.trades
  BY <1>1, <1>2 DEF Clusters
<1> QED BY <1>1, <1>2, <1>5, <1>6 DEF ChainKinds

(* A slot status. *)
LEMMA StatusSends ==
  ASSUME ChainKinds, NEW status \in Status, Send(<<>>, <<>>, <<status>>)
  PROVE  sent' \in Sendings
<1>1. <<status>> \in Seq(Status)
  OBVIOUS
<1> QED BY <1>1, NoneIsSeq, Sends

LEMMA CloseSlotKinds ==
  ASSUME ChainKinds, CloseSlot
  PROVE  ChainKinds' /\ OnlyChain
<1> DEFINE status == [slot |-> cluster.slot, status |-> "confirmed"]
<1>1. /\ cluster.slot <= MaxSlot
      /\ cluster' = [cluster EXCEPT !.slot = @ + 1]
      /\ Send(<<>>, <<>>, <<status>>)
      /\ OnlyChain
  BY DEF CloseSlot, OnlyChain
<1>2. cluster \in Clusters /\ cluster.slot \in 1 .. MaxSlot + 1 /\ IsFiniteSet(cluster.trades)
  BY DEF ChainKinds, Clusters
<1>3. cluster.slot \in 1 .. MaxSlot /\ cluster.slot + 1 \in 1 .. MaxSlot + 1
  BY <1>1, <1>2, SlotBound
<1>4. status \in Status
  BY <1>3 DEF Status
<1> HIDE DEF status
<1>5. sent' \in Sendings
  BY <1>1, <1>4, StatusSends
<1>6. cluster' \in Clusters /\ cluster'.trades = cluster.trades
  BY <1>1, <1>2, <1>3 DEF Clusters
<1> QED BY <1>1, <1>2, <1>5, <1>6 DEF ChainKinds

LEMMA AbandonSlotKinds ==
  ASSUME ChainKinds, AbandonSlot
  PROVE  ChainKinds' /\ OnlyChain
<1> DEFINE slot == cluster.slot - 1
           lost == {t \in cluster.trades : t.slot = slot}
           status == [slot |-> slot, status |-> "dead"]
<1>1. /\ slot \in Unrooted
      /\ cluster' = [cluster EXCEPT !.dead = @ \cup {slot}, !.trades = @ \ lost,
                                    !.landed = @ \ {t.signature : t \in lost}]
      /\ Send(<<>>, <<>>, <<status>>)
      /\ OnlyChain
  BY DEF AbandonSlot, OnlyChain
<1>2. cluster \in Clusters /\ cluster.slot \in 1 .. MaxSlot + 1 /\ IsFiniteSet(cluster.trades)
  BY DEF ChainKinds, Clusters
<1>3. slot \in 1 .. MaxSlot
  BY <1>1, <1>2, SlotBound DEF Unrooted
<1>4. status \in Status
  BY <1>3 DEF Status
<1> HIDE DEF status, lost, slot
<1>5. sent' \in Sendings
  BY <1>1, <1>4, StatusSends
<1>6. cluster' \in Clusters /\ cluster'.trades = cluster.trades \ lost
  BY <1>1, <1>2, <1>3 DEF Clusters
<1>7. IsFiniteSet(cluster'.trades)
  BY <1>2, <1>6, FS_Subset, cluster.trades \ lost \subseteq cluster.trades
<1> QED BY <1>1, <1>5, <1>6, <1>7 DEF ChainKinds

LEMMA FinalizeSlotKinds ==
  ASSUME ChainKinds, FinalizeSlot
  PROVE  ChainKinds' /\ OnlyChain
<1>1. PICK slot \in Unrooted :
        /\ cluster' = [cluster EXCEPT !.rooted = slot]
        /\ Send(<<>>, <<>>, <<[slot |-> slot, status |-> "finalized"]>>)
        /\ OnlyChain
  BY DEF FinalizeSlot, OnlyChain
<1>2. cluster \in Clusters /\ cluster.slot \in 1 .. MaxSlot + 1 /\ IsFiniteSet(cluster.trades)
  BY DEF ChainKinds, Clusters
<1>3. slot \in 1 .. MaxSlot /\ slot \in 0 .. MaxSlot
  BY <1>1, <1>2, SlotBound DEF Unrooted
<1>4. [slot |-> slot, status |-> "finalized"] \in Status
  BY <1>3 DEF Status
<1>5. sent' \in Sendings
  BY <1>1, <1>4, StatusSends
<1>6. cluster' \in Clusters /\ cluster'.trades = cluster.trades
  BY <1>1, <1>2, <1>3 DEF Clusters
<1> QED BY <1>1, <1>2, <1>5, <1>6 DEF ChainKinds

LEMMA ClusterKinds ==
  ASSUME Kinds, Cluster
  PROVE  Kinds'
<1>1. ChainKinds' /\ OnlyChain
  <2>1. ChainKinds
    BY DEF Kinds
  <2> QED BY <2>1, LandKinds, LandFailingKinds, CloseSlotKinds, AbandonSlotKinds,
             FinalizeSlotKinds DEF Cluster
<1>2. UNCHANGED <<wire, correlator, pending, views, stage, todo, store>>
  BY <1>1 DEF OnlyChain, process
<1>3. ProcessTypes'
  BY <1>2 DEF Kinds, ProcessTypes, IsCorrelator
<1>4. Watermark' /\ QueuesFit(correlator') /\ ViewKinds'
  BY <1>2 DEF Kinds, Watermark, ViewKinds
<1> QED BY <1>1, <1>3, <1>4 DEF Kinds

(* What reading one half yields, whatever waits and whatever it evicts. *)

IsChange(ch) ==
  ch \in [market : Markets, slot : 1 .. MaxSlot, signature : Signatures,
          before : States, after : Nat]

IsOutcome(outcome) ==
  /\ IsCorrelator(outcome.correlator)
  /\ QueuesFit(outcome.correlator)
  /\ \/ outcome.changes = {}
     \/ \E ch : IsChange(ch) /\ outcome.changes = {ch}

(* A queue never grows past its capacity. *)
LEMMA KeptFits ==
  ASSUME NEW order, IsQueue(order), NEW waiting, NEW sig \in Signatures
  PROVE  IsQueue(Kept(Queued(order, waiting, sig)))
<1> DEFINE q == Queued(order, waiting, sig)
           x == Excess(q)
<1>1. order \in Seq(Signatures) /\ PendingCapacity \in Nat
  BY CorrelateAssumption DEF IsQueue
<1>2. q \in Seq(Signatures)
  BY <1>1 DEF Queued
<1> HIDE DEF q
<1>3. Len(q) \in Nat /\ x = Len(q) - PendingCapacity
  BY <1>2 DEF Excess
<1> HIDE DEF x
<1>4. CASE x > 0
  <2>1. Kept(q) = SubSeq(q, x + 1, Len(q))
    BY <1>4 DEF Kept, x
  <2>2. x + 1 \in 1 .. Len(q) + 1 /\ Len(q) \in Int /\ Len(q) - (x + 1) + 1 = PendingCapacity
          /\ x + 1 \in Int /\ x + 1 >= 1
    BY <1>1, <1>3, <1>4
  <2>3. Kept(q) \in Seq(Signatures) /\ Len(Kept(q)) = PendingCapacity
    BY <1>1, <1>2, <1>3, <2>1, <2>2
  <2> QED BY <1>1, <2>3 DEF IsQueue, q
<1>5. CASE ~ (x > 0)
  <2>1. Kept(q) = q
    BY <1>5 DEF Kept, x
  <2>2. Len(q) <= PendingCapacity
    BY <1>1, <1>3, <1>5
  <2> QED BY <1>2, <2>1, <2>2 DEF IsQueue, q
<1> QED BY <1>4, <1>5

LEMMA RememberedTransaction ==
  ASSUME NEW c, IsCorrelator(c), QueuesFit(c), NEW sig \in Signatures
  PROVE  IsOutcome(NoChange(RememberTransaction(c, sig)))
<1> DEFINE order == Queued(c.transaction_order, c.transactions, sig)
           kept == Kept(order)
           left == (c.transactions \cup {sig}) \ Evicted(order)
           d == RememberTransaction(c, sig)
<1>1. d = [c EXCEPT !.transactions = left, !.transaction_order = kept]
  BY DEF RememberTransaction, IsCorrelator
<1>2. left \subseteq Signatures
  BY CorrelatorFields
<1>3. IsQueue(kept)
  BY KeptFits DEF QueuesFit
<1> HIDE DEF left, kept, d
<1>4. IsCorrelator(d) /\ d.transaction_order = kept /\ d.account_order = c.account_order
  BY <1>1, <1>2 DEF IsCorrelator
<1>5. QueuesFit(d)
  BY <1>3, <1>4 DEF QueuesFit
<1> QED BY <1>4, <1>5 DEF IsOutcome, NoChange, d

LEMMA RememberedAccount ==
  ASSUME NEW c, IsCorrelator(c), QueuesFit(c), NEW half \in Update
  PROVE  IsOutcome(NoChange(RememberAccount(c, half)))
<1> DEFINE order == Queued(c.account_order, WaitingAccounts(c), half.signature)
           kept == Kept(order)
           others == {a \in c.accounts : a.signature # half.signature}
           left == {a \in others \cup {half} : a.signature \notin Evicted(order)}
           d == RememberAccount(c, half)
<1>1. d = [c EXCEPT !.accounts = left, !.account_order = kept]
  BY DEF RememberAccount, IsCorrelator
<1>2. left \subseteq Update
  BY CorrelatorFields
<1>3. IsQueue(kept)
  <2>1. half.signature \in Signatures
    BY DEF Update
  <2> QED BY <2>1, KeptFits DEF QueuesFit
<1> HIDE DEF left, kept, d
<1>4. IsCorrelator(d) /\ d.account_order = kept /\ d.transaction_order = c.transaction_order
  BY <1>1, <1>2 DEF IsCorrelator
<1>5. QueuesFit(d)
  BY <1>3, <1>4 DEF QueuesFit
<1> QED BY <1>4, <1>5 DEF IsOutcome, NoChange, d

LEMMA SeenFits ==
  ASSUME NEW c, IsCorrelator(c), QueuesFit(c), NEW slot
  PROVE  IsCorrelator(SeenAt(c, slot)) /\ QueuesFit(SeenAt(c, slot))
BY SeenIs DEF QueuesFit

(* A pair completes: its state is the new base, and the change says what   *)
(* it replaces.                                                            *)
LEMMA CompletedPair ==
  ASSUME NEW c, IsCorrelator(c), QueuesFit(c), NEW half \in Update
  PROVE  /\ IsOutcome(Complete(c, half))
         /\ Complete(c, half).changes = {ChangeOf(c, half)}
<1>1. /\ half.market \in Markets /\ half.data \in Nat /\ half.slot \in 1 .. MaxSlot
      /\ half.signature \in Signatures
  BY DEF Update
<1>2. c.latest \in [Markets -> States]
  BY CorrelatorFields
<1>3. IsChange(ChangeOf(c, half))
  BY <1>1, <1>2 DEF IsChange, ChangeOf
<1>4. /\ IsCorrelator(Complete(c, half).correlator)
      /\ Complete(c, half).changes = {ChangeOf(c, half)}
  BY <1>1, CompleteIs DEF ChangeOf
<1>5. /\ Complete(c, half).correlator.transaction_order = c.transaction_order
      /\ Complete(c, half).correlator.account_order = c.account_order
  BY DEF Complete, IsCorrelator
<1>6. QueuesFit(Complete(c, half).correlator)
  BY <1>5 DEF QueuesFit
<1> QED BY <1>3, <1>4, <1>6 DEF IsOutcome

LEMMA ReadsAccount ==
  ASSUME NEW c, IsCorrelator(c), QueuesFit(c), NEW u \in Update \cup StartupUpdate
  PROVE  /\ IsOutcome(AcceptAccount(c, u))
         /\ AcceptAccount(c, u).changes \subseteq {ChangeOf(c, u)}
<1>1. u.market \in Markets /\ u.slot \in 0 .. MaxSlot /\ u.data \in Nat
  BY SlotBound DEF Update, StartupUpdate
<1>2. CASE u.slot < c.known_at[u.market]
  <2>1. /\ AcceptAccount(c, u).correlator = SeenAt(c, u.slot)
        /\ AcceptAccount(c, u).changes = {}
    BY <1>2, AcceptStale
  <2> QED BY <2>1, SeenFits DEF IsOutcome
<1>3. CASE ~ (u.slot < c.known_at[u.market])
  <2> DEFINE k == KnownOf(c, u)
  <2>1. /\ IsCorrelator(k) /\ k.latest = c.latest
        /\ k.transactions = c.transactions /\ k.accounts = c.accounts
        /\ k.transaction_order = c.transaction_order /\ k.account_order = c.account_order
    BY <1>1, KnownOfIs
  <2>2. QueuesFit(k)
    BY <2>1 DEF QueuesFit
  <2>3. /\ u.signature = NoSignature =>
             AcceptAccount(c, u) = NoChange([k EXCEPT !.latest[u.market] = u.data])
        /\ u.signature # NoSignature /\ u.signature \in c.transactions =>
             AcceptAccount(c, u) =
               Complete([k EXCEPT !.transactions = @ \ {u.signature}], u)
        /\ u.signature # NoSignature /\ u.signature \notin c.transactions =>
             AcceptAccount(c, u) = NoChange(RememberAccount(k, u))
    BY <1>1, <1>3, AcceptCases
  <2> HIDE DEF k
  <2>4. CASE u.signature = NoSignature
    <3> DEFINE l == [k.latest EXCEPT ![u.market] = u.data]
               d == [k EXCEPT !.latest = l]
    <3>1. AcceptAccount(c, u) = NoChange(d)
      BY <2>1, <2>3, <2>4 DEF IsCorrelator
    <3>2. l \in [Markets -> States]
      BY <1>1, <2>1, CorrelatorFields DEF States
    <3> HIDE DEF l
    <3>3. /\ IsCorrelator(d)
          /\ d.transaction_order = k.transaction_order /\ d.account_order = k.account_order
      BY <2>1, <3>2 DEF IsCorrelator
    <3>4. QueuesFit(d)
      BY <2>2, <3>3 DEF QueuesFit
    <3> HIDE DEF d
    <3> QED BY <3>1, <3>3, <3>4 DEF IsOutcome, NoChange
  <2>5. CASE u.signature # NoSignature
    <3>1. u \in Update
      BY <2>5 DEF StartupUpdate
    <3>2. CASE u.signature \in c.transactions
      <4> DEFINE rest == k.transactions \ {u.signature}
                 e == [k EXCEPT !.transactions = rest]
      <4>1. AcceptAccount(c, u) = Complete(e, u)
        BY <2>1, <2>3, <2>5, <3>2 DEF IsCorrelator
      <4>2. rest \subseteq Signatures
        BY <2>1, CorrelatorFields
      <4> HIDE DEF rest
      <4>3. /\ IsCorrelator(e) /\ e.latest = k.latest
            /\ e.transaction_order = k.transaction_order /\ e.account_order = k.account_order
        BY <2>1, <4>2 DEF IsCorrelator
      <4>4. QueuesFit(e)
        BY <2>2, <4>3 DEF QueuesFit
      <4> HIDE DEF e
      <4>5. ChangeOf(e, u) = ChangeOf(c, u)
        BY <2>1, <4>3 DEF ChangeOf
      <4> QED BY <3>1, <4>1, <4>3, <4>4, <4>5, CompletedPair
    <3>3. CASE u.signature \notin c.transactions
      <4>1. AcceptAccount(c, u) = NoChange(RememberAccount(k, u))
        BY <2>3, <2>5, <3>3
      <4>2. IsOutcome(NoChange(RememberAccount(k, u)))
        BY <2>1, <2>2, <3>1, RememberedAccount
      <4> QED BY <4>1, <4>2 DEF NoChange
    <3> QED BY <3>2, <3>3
  <2> QED BY <2>4, <2>5
<1> QED BY <1>2, <1>3

LEMMA ReadsTransaction ==
  ASSUME NEW c, IsCorrelator(c), QueuesFit(c), NEW tx \in Execution
  PROVE  /\ IsOutcome(AcceptTransaction(c, tx))
         /\ \/ AcceptTransaction(c, tx).changes = {}
            \/ \E half \in c.accounts :
                 /\ half.signature = tx.signature
                 /\ AcceptTransaction(c, tx).changes = {ChangeOf(c, half)}
<1> DEFINE s == SeenAt(c, tx.slot)
<1>1. /\ IsCorrelator(s) /\ QueuesFit(s)
      /\ s.latest = c.latest /\ s.accounts = c.accounts
  BY SeenIs, SeenFits
<1>2. CASE ~ tx.succeeded
  <2>1. AcceptTransaction(c, tx).correlator = s /\ AcceptTransaction(c, tx).changes = {}
    BY <1>2, AcceptFailed
  <2> QED BY <1>1, <2>1 DEF IsOutcome
<1>3. CASE tx.succeeded /\ tx.signature \in WaitingAccounts(s)
  <2> DEFINE half == CHOOSE a \in s.accounts : a.signature = tx.signature
             left == s.accounts \ {half}
             e == [s EXCEPT !.accounts = left]
  <2>1. AcceptTransaction(c, tx) = Complete([s EXCEPT !.accounts = @ \ {half}], half)
    BY <1>3 DEF AcceptTransaction, SeenAt
  <2>2. half \in s.accounts /\ half.signature = tx.signature
    BY <1>3 DEF WaitingAccounts
  <2> HIDE DEF half, s
  <2>3. half \in Update
    BY <1>1, <2>2, CorrelatorFields
  <2>4. AcceptTransaction(c, tx) = Complete(e, half)
    BY <1>1, <2>1 DEF IsCorrelator
  <2>5. left \subseteq Update
    BY <1>1, CorrelatorFields
  <2> HIDE DEF left
  <2>6. /\ IsCorrelator(e) /\ e.latest = s.latest
        /\ e.transaction_order = s.transaction_order /\ e.account_order = s.account_order
    BY <1>1, <2>5 DEF IsCorrelator
  <2>7. QueuesFit(e)
    BY <1>1, <2>6 DEF QueuesFit
  <2> HIDE DEF e
  <2>8. ChangeOf(e, half) = ChangeOf(c, half)
    BY <1>1, <2>6 DEF ChangeOf
  <2> QED BY <1>1, <2>2, <2>3, <2>4, <2>6, <2>7, <2>8, CompletedPair
<1>4. CASE tx.succeeded /\ tx.signature \notin WaitingAccounts(s)
  <2>1. AcceptTransaction(c, tx) = NoChange(RememberTransaction(s, tx.signature))
    BY <1>4 DEF AcceptTransaction, SeenAt
  <2>2. tx.signature \in Signatures
    BY DEF Execution
  <2> HIDE DEF s
  <2>3. IsOutcome(NoChange(RememberTransaction(s, tx.signature)))
    BY <1>1, <2>2, RememberedTransaction
  <2> QED BY <2>1, <2>3 DEF NoChange
<1> QED BY <1>2, <1>3, <1>4

(* The views. *)

LEMMA EmptyViews ==
  ASSUME NEW state, NEW slot
  PROVE  /\ IsView(NoView) /\ RowsOf(NoView.tape) = {}
         /\ IsView(NewView(state, slot)) /\ RowsOf(NewView(state, slot).tape) = {}
<1>1. Len(<<>>) = 0 /\ <<>> \in Seq(AllTrades) /\ TapeCapacity \in Nat
  BY RegistryAssumption
<1>2. IsView(NoView) /\ NoView.tape = <<>>
  BY <1>1 DEF NoView, IsView, IsAccounted
<1>3. IsView(NewView(state, slot)) /\ NewView(state, slot).tape = <<>>
  <2> DEFINE v == NewView(state, slot)
             n == NoView
  <2>1. v = [n EXCEPT !.tracked = TRUE, !.state = state, !.slot = slot]
    BY DEF NewView
  <2>2. /\ n \in [tracked : BOOLEAN, state : {n.state}, slot : {n.slot},
                  tape : Seq(AllTrades), trades_seen : Nat,
                  finalized_through : {n.finalized_through}, trades_retracted : Nat]
        /\ n.tape = <<>> /\ n.trades_seen = 0 /\ n.trades_retracted = 0
    BY <1>1 DEF NoView
  <2> HIDE DEF v, n
  <2>3. /\ v \in [tracked : BOOLEAN, state : {v.state}, slot : {v.slot},
                  tape : Seq(AllTrades), trades_seen : Nat,
                  finalized_through : {v.finalized_through}, trades_retracted : Nat]
        /\ v.tape = <<>> /\ v.trades_seen = 0 /\ v.trades_retracted = 0
    BY <2>1, <2>2
  <2>4. Len(v.tape) <= TapeCapacity /\ IsAccounted(v)
    BY <1>1, <2>3 DEF IsAccounted
  <2>5. IsView(v) /\ v.tape = <<>>
    BY <2>3, <2>4 DEF IsView
  <2> QED BY <2>5 DEF v
<1> QED BY <1>2, <1>3 DEF RowsOf

LEMMA SeededView ==
  ASSUME NEW v, IsView(v), NEW state, NEW slot
  PROVE  /\ IsView(SeedView(v, state, slot))
         /\ RowsOf(SeedView(v, state, slot).tape) \subseteq RowsOf(v.tape)
BY EmptyViews DEF SeedView

(* The tape keeps its newest rows. *)
LEMMA NewestIs ==
  ASSUME NEW tape \in Seq(AllTrades)
  PROVE  /\ Newest(tape) \in Seq(AllTrades)
         /\ Len(Newest(tape)) <= TapeCapacity
         /\ Len(tape) <= TapeCapacity => Newest(tape) = tape
         /\ RowsOf(Newest(tape)) \subseteq RowsOf(tape)
<1>1. TapeCapacity \in Nat /\ Len(tape) \in Nat
  BY RegistryAssumption
<1>2. CASE Len(tape) > TapeCapacity
  <2> DEFINE x == Len(tape) - TapeCapacity + 1
             kept == SubSeq(tape, x, Len(tape))
  <2>1. Newest(tape) = kept
    BY <1>2 DEF Newest
  <2>2. x \in 1 .. Len(tape) + 1 /\ x \in Nat /\ Len(tape) - x + 1 = TapeCapacity
    BY <1>1, <1>2
  <2> HIDE DEF x
  <2>3. kept \in Seq(AllTrades) /\ Len(kept) = TapeCapacity
    BY <1>1, <2>2
  <2>4. \A i \in 1 .. Len(kept) : kept[i] = tape[x + i - 1] /\ x + i - 1 \in 1 .. Len(tape)
    BY <1>1, <2>2, <2>3
  <2>5. DOMAIN kept = 1 .. Len(kept) /\ DOMAIN tape = 1 .. Len(tape)
    BY <2>3
  <2> HIDE DEF kept
  <2>6. RowsOf(kept) \subseteq RowsOf(tape)
    BY <2>4, <2>5 DEF RowsOf
  <2> QED BY <1>1, <1>2, <2>1, <2>3, <2>6
<1>3. CASE ~ (Len(tape) > TapeCapacity)
  BY <1>1, <1>3 DEF Newest
<1> QED BY <1>2, <1>3

LEMMA DerivedIsSeq ==
  ASSUME NEW ch, IsChange(ch), ch.before # Unknown
  PROVE  Derived(ch) \in Seq(AllTrades)
<1>1. /\ ch.market \in Markets /\ ch.slot \in 1 .. MaxSlot /\ ch.signature \in Signatures
      /\ ch.before \in Nat /\ ch.after \in Nat
  BY DEF IsChange, States
<1> DEFINE n == IF ch.after > ch.before THEN ch.after - ch.before ELSE 0
<1>2. n \in Nat
  BY <1>1
<1>3. \A i \in 1 .. n : ch.before + i \in Nat
  BY <1>1, <1>2
<1>4. Derived(ch) = [i \in 1 .. n |-> [market |-> ch.market, slot |-> ch.slot,
                       signature |-> ch.signature, order |-> ch.before + i]]
  BY DEF Derived
<1> HIDE DEF n
<1>5. Derived(ch) \in [1 .. n -> AllTrades]
  BY <1>1, <1>3, <1>4 DEF AllTrades
<1> QED BY <1>2, <1>5

LEMMA AppliedView ==
  ASSUME NEW v, IsView(v), NEW state, NEW slot, NEW trades \in Seq(AllTrades)
  PROVE  /\ IsView(ApplyDerived(v, state, slot, trades))
         /\ RowsOf(ApplyDerived(v, state, slot, trades).tape)
              \subseteq RowsOf(v.tape) \cup RowsOf(trades)
<1> DEFINE w == SeedView(v, state, slot)
           all == w.tape \o trades
           x == ApplyDerived(v, state, slot, trades)
<1>1. IsView(w) /\ RowsOf(w.tape) \subseteq RowsOf(v.tape)
  BY SeededView
<1>2. x = [w EXCEPT !.state = state, !.slot = slot, !.trades_seen = @ + Len(trades),
                    !.tape = Newest(@ \o trades)]
  BY DEF ApplyDerived
<1> HIDE DEF w
<1>3. /\ w.tape \in Seq(AllTrades) /\ w.trades_seen \in Nat /\ w.trades_retracted \in Nat
      /\ Len(w.tape) \in Nat /\ Len(trades) \in Nat
  BY <1>1 DEF IsView
<1>4. /\ all \in Seq(AllTrades) /\ Len(all) = Len(w.tape) + Len(trades)
      /\ RowsOf(all) \subseteq RowsOf(w.tape) \cup RowsOf(trades)
  <2>1. all \in Seq(AllTrades) /\ Len(all) = Len(w.tape) + Len(trades)
    BY <1>3
  <2>2. \A i \in 1 .. Len(w.tape) + Len(trades) :
          all[i] = IF i <= Len(w.tape) THEN w.tape[i] ELSE trades[i - Len(w.tape)]
    BY <1>3
  <2>3. /\ DOMAIN all = 1 .. Len(w.tape) + Len(trades)
        /\ DOMAIN w.tape = 1 .. Len(w.tape) /\ DOMAIN trades = 1 .. Len(trades)
    BY <1>3, <2>1
  <2> HIDE DEF all
  <2>4. ASSUME NEW i \in DOMAIN all PROVE all[i] \in RowsOf(w.tape) \cup RowsOf(trades)
    <3>1. CASE i <= Len(w.tape)
      <4>1. i \in DOMAIN w.tape /\ all[i] = w.tape[i]
        BY <1>3, <2>2, <2>3, <3>1
      <4> QED BY <4>1 DEF RowsOf
    <3>2. CASE ~ (i <= Len(w.tape))
      <4>1. i \in 1 .. Len(w.tape) + Len(trades)
        BY <2>3
      <4>2. i - Len(w.tape) \in 1 .. Len(trades)
        BY ONLY <1>3, <3>2, <4>1
      <4>3. i - Len(w.tape) \in DOMAIN trades
        BY <2>3, <4>2
      <4>4. all[i] = trades[i - Len(w.tape)]
        BY <2>2, <3>2, <4>1
      <4> QED BY <4>3, <4>4 DEF RowsOf
    <3> QED BY <3>1, <3>2
  <2>5. RowsOf(all) \subseteq RowsOf(w.tape) \cup RowsOf(trades)
    BY <2>4 DEF RowsOf
  <2> QED BY <2>1, <2>5
<1>5. /\ x.tape = Newest(all) /\ x.trades_seen = w.trades_seen + Len(trades)
      /\ x.trades_retracted = w.trades_retracted
      /\ x \in [tracked : BOOLEAN, state : {x.state}, slot : {x.slot}, tape : {Newest(all)},
                trades_seen : Nat, finalized_through : {x.finalized_through},
                trades_retracted : Nat]
  <2> DEFINE seen == w.trades_seen + Len(trades)
             kept == Newest(all)
  <2>1. seen \in Nat
    BY <1>3
  <2>2. x = [w EXCEPT !.state = state, !.slot = slot, !.trades_seen = seen, !.tape = kept]
    BY <1>1, <1>2 DEF IsView
  <2> HIDE DEF seen, kept, all, x
  <2>3. /\ x.tape = kept /\ x.trades_seen = seen
        /\ x.trades_retracted = w.trades_retracted
        /\ x \in [tracked : BOOLEAN, state : {x.state}, slot : {x.slot}, tape : {kept},
                  trades_seen : Nat, finalized_through : {x.finalized_through},
                  trades_retracted : Nat]
    BY <1>1, <2>1, <2>2 DEF IsView
  <2> QED BY <2>3 DEF seen, kept
<1> HIDE DEF all, x
<1>6. /\ Newest(all) \in Seq(AllTrades) /\ Len(Newest(all)) <= TapeCapacity
      /\ Len(all) <= TapeCapacity => Newest(all) = all
      /\ RowsOf(Newest(all)) \subseteq RowsOf(all)
  BY <1>4, NewestIs
<1>7. IsAccounted(x)
  <2>1. SUFFICES ASSUME w.trades_seen + Len(trades) <= TapeCapacity
                 PROVE  w.trades_seen + Len(trades) = Len(Newest(all)) + w.trades_retracted
    BY <1>5 DEF IsAccounted
  <2>2. TapeCapacity \in Nat
    BY RegistryAssumption
  <2>3. w.trades_seen = Len(w.tape) + w.trades_retracted
    <3>1. IsAccounted(w)
      BY <1>1 DEF IsView
    <3>2. w.trades_seen <= TapeCapacity
      BY ONLY <1>3, <2>1, <2>2
    <3> QED BY ONLY <3>1, <3>2 DEF IsAccounted
  <2>4. Len(all) <= TapeCapacity
    <3>1. Len(all) = Len(w.tape) + Len(trades)
      BY <1>4
    <3> QED BY ONLY <1>3, <2>1, <2>2, <2>3, <3>1
  <2>5. Len(Newest(all)) = Len(w.tape) + Len(trades)
    BY <1>4, <1>6, <2>4
  <2> QED BY ONLY <1>3, <2>3, <2>5
<1>8. IsView(x)
  BY <1>5, <1>6, <1>7 DEF IsView
<1> QED BY <1>1, <1>4, <1>5, <1>6, <1>8 DEF x

LEMMA FinalizedViewIs ==
  ASSUME NEW v, IsView(v), NEW slot
  PROVE  IsView(FinalizeView(v, slot)) /\ FinalizeView(v, slot).tape = v.tape
BY DEF FinalizeView, IsView, IsAccounted

LEMMA RetractedViewIs ==
  ASSUME NEW v, IsView(v), NEW slot
  PROVE  /\ IsView(RetractView(v, slot))
         /\ RowsOf(RetractView(v, slot).tape) \subseteq {t \in RowsOf(v.tape) : t.slot # slot}
<1> DEFINE keep == {i \in DOMAIN v.tape : v.tape[i].slot # slot}
           kept == Sublist(v.tape, keep)
           x == RetractView(v, slot)
<1>1. /\ v.tape \in Seq(AllTrades) /\ v.trades_seen \in Nat /\ v.trades_retracted \in Nat
      /\ Len(v.tape) \in Nat /\ DOMAIN v.tape = 1 .. Len(v.tape)
  BY DEF IsView
<1>2. kept \in Seq(AllTrades) /\ Len(kept) <= Len(v.tape) /\ Len(kept) \in Nat
  BY <1>1, SublistIs
<1>3. \A t : Occurs(t, kept) => \E i \in 1 .. Len(v.tape) : i \in keep /\ v.tape[i] = t
  BY <1>1, SublistIs
<1>4. RowsOf(kept) \subseteq {t \in RowsOf(v.tape) : t.slot # slot}
  <2>1. DOMAIN kept = 1 .. Len(kept)
    BY <1>2
  <2>2. ASSUME NEW i \in DOMAIN kept
        PROVE  kept[i] \in RowsOf(v.tape) /\ kept[i].slot # slot
    <3>1. Occurs(kept[i], kept)
      BY <2>1 DEF Occurs
    <3> HIDE DEF kept
    <3>2. PICK j \in 1 .. Len(v.tape) : j \in keep /\ v.tape[j] = kept[i]
      BY <1>3, <3>1
    <3> QED BY <1>1, <3>2 DEF RowsOf
  <2> HIDE DEF kept
  <2> QED BY <2>2 DEF RowsOf
<1>5. x = [v EXCEPT !.tape = kept, !.trades_retracted = @ + Len(v.tape) - Len(kept)]
  BY DEF RetractView, SurvivesSlot
<1> HIDE DEF kept, x
<1>6. v.trades_retracted + Len(v.tape) - Len(kept) \in Nat
  BY <1>1, <1>2
<1>7. /\ x.tape = kept /\ x.trades_seen = v.trades_seen
      /\ x.trades_retracted = v.trades_retracted + Len(v.tape) - Len(kept)
      /\ x \in [tracked : BOOLEAN, state : {x.state}, slot : {x.slot}, tape : {kept},
                trades_seen : Nat, finalized_through : {x.finalized_through},
                trades_retracted : Nat]
  BY <1>1, <1>5, <1>6 DEF IsView
<1>8. Len(v.tape) <= TapeCapacity /\ IsAccounted(v) /\ TapeCapacity \in Nat
  BY RegistryAssumption DEF IsView
<1>9. IsAccounted(x) /\ Len(kept) <= TapeCapacity
  <2>1. Len(kept) <= TapeCapacity
    BY <1>1, <1>2, <1>8
  <2>2. SUFFICES ASSUME v.trades_seen <= TapeCapacity
                 PROVE  v.trades_seen = Len(kept) + x.trades_retracted
    BY <1>7, <2>1 DEF IsAccounted
  <2>3. v.trades_seen = Len(v.tape) + v.trades_retracted
    BY <1>8, <2>2 DEF IsAccounted
  <2> QED BY ONLY <1>1, <1>2, <1>7, <2>3
<1> QED BY <1>2, <1>4, <1>7, <1>9 DEF IsView, x

(* After a half: the tape of its market shows what was derived of it too. *)
LEMMA HandledKinds ==
  ASSUME PendingType(pending), ViewKinds, NEW outcome, IsOutcome(outcome), Handle(outcome)
  PROVE  /\ IsCorrelator(correlator') /\ QueuesFit(correlator')
         /\ PendingType(pending')
         /\ pending'.flushed_through = pending.flushed_through
         /\ ViewKinds'
         /\ \A m \in Markets : \A t \in RowsOf(views'[m].tape) :
              \/ t \in RowsOf(views[m].tape)
              \/ \E ch \in outcome.changes :
                   ch.before # Unknown /\ t \in RowsOf(Derived(ch))
<1>1. IsCorrelator(correlator') /\ QueuesFit(correlator')
  BY DEF Handle, IsOutcome
<1>2. DOMAIN views = Markets /\ \A m \in Markets : IsView(views[m])
  BY DEF ViewKinds
<1>3. CASE outcome.changes = {}
  BY <1>1, <1>2, <1>3 DEF Handle, ViewKinds, PendingType
<1>4. ASSUME NEW ch, IsChange(ch), outcome.changes = {ch}, ch.before = Unknown
      PROVE  /\ pending' = pending /\ ViewKinds'
             /\ \A m \in Markets : RowsOf(views'[m].tape) \subseteq RowsOf(views[m].tape)
  <2> DEFINE w == SeedView(views[ch.market], ch.after, ch.slot)
  <2>1. pending' = pending /\ views' = [views EXCEPT ![ch.market] = w]
    BY <1>4 DEF Handle
  <2>2. ch.market \in Markets
    BY <1>4 DEF IsChange
  <2>3. IsView(w) /\ RowsOf(w.tape) \subseteq RowsOf(views[ch.market].tape)
    BY <1>2, <2>2, SeededView
  <2> HIDE DEF w
  <2>4. DOMAIN views' = Markets
    BY <1>2, <2>1
  <2>5. \A m \in Markets : views'[m] = IF m = ch.market THEN w ELSE views[m]
    BY <1>2, <2>1
  <2> QED BY <1>2, <2>1, <2>3, <2>4, <2>5 DEF ViewKinds
<1>5. ASSUME NEW ch, IsChange(ch), outcome.changes = {ch}, ch.before # Unknown
      PROVE  /\ PendingType(pending')
             /\ pending'.flushed_through = pending.flushed_through
             /\ ViewKinds'
             /\ \A m \in Markets :
                  RowsOf(views'[m].tape) \subseteq RowsOf(views[m].tape) \cup RowsOf(Derived(ch))
  <2> DEFINE w == ApplyDerived(views[ch.market], ch.after, ch.slot, Derived(ch))
             rows == RowsOf(Derived(ch))
  <2>1. /\ pending' = Record(pending, ch.slot, rows)
        /\ views' = [views EXCEPT ![ch.market] = w]
    BY <1>5 DEF Handle
  <2>2. ch.market \in Markets
    BY <1>5 DEF IsChange
  <2>3. Derived(ch) \in Seq(AllTrades)
    BY <1>5, DerivedIsSeq
  <2>4. rows \in SUBSET AllTrades
    BY <2>3 DEF RowsOf
  <2>5. IsView(w) /\ RowsOf(w.tape) \subseteq RowsOf(views[ch.market].tape) \cup rows
    BY <1>2, <2>2, <2>3, AppliedView
  <2> HIDE DEF w, rows
  <2>6. DOMAIN views' = Markets
    BY <1>2, <2>1
  <2>7. \A m \in Markets : views'[m] = IF m = ch.market THEN w ELSE views[m]
    BY <1>2, <2>1
  <2>8. PendingType(pending') /\ pending'.flushed_through = pending.flushed_through
    BY <2>1, <2>4, RecordIs
  <2>9. ViewKinds'
    BY <1>2, <2>5, <2>6, <2>7 DEF ViewKinds
  <2> QED BY <2>5, <2>7, <2>8, <2>9 DEF rows
<1>6. CASE outcome.changes # {}
  <2>1. PICK ch : IsChange(ch) /\ outcome.changes = {ch}
    BY <1>6 DEF IsOutcome
  <2>2. CASE ch.before = Unknown
    BY <1>1, <1>4, <2>1, <2>2 DEF PendingType
  <2>3. CASE ch.before # Unknown
    BY <1>1, <1>5, <2>1, <2>3
  <2> QED BY <2>2, <2>3
<1> QED BY <1>3, <1>6

(* The steps of the process. *)

Stages == {"down", "seed", "next", "checkpoint"}

Todos == [slot : 0 .. MaxSlot, markets : SUBSET Markets]

LEMMA KindParts ==
  ASSUME Kinds
  PROVE  /\ ChainKinds /\ ViewKinds /\ QueuesFit(correlator)
         /\ cluster.slot \in 1 .. MaxSlot + 1 /\ cluster.slot \in Nat
         /\ wire \in Wires
         /\ wire.last \in Nat /\ wire.accounts \in Nat /\ wire.transactions \in Nat
         /\ wire.slots \in Nat /\ wire.startup \subseteq StartupUpdate
         /\ IsCorrelator(correlator)
         /\ PendingType(pending) /\ pending.by_slot \subseteq AllTrades
         /\ pending.flushed_through \in 0 .. MaxSlot
         /\ store \in Stores /\ store.rows \subseteq AllTrades
         /\ store.checkpoints \in [Markets -> [slot : Unknown .. MaxSlot, data : States]]
         /\ stage \in Stages /\ todo \in Todos
         /\ todo.slot \in 0 .. MaxSlot /\ todo.slot \in Nat /\ todo.markets \subseteq Markets
<1>1. ProcessTypes /\ ChainKinds /\ ViewKinds /\ QueuesFit(correlator) /\ Watermark
  BY DEF Kinds
<1>2. cluster.slot \in 1 .. MaxSlot + 1 /\ cluster.slot \in Nat
  BY <1>1, SlotBound DEF ChainKinds, Clusters
<1>3. wire \in Wires /\ IsCorrelator(correlator) /\ store \in Stores /\ stage \in Stages
        /\ todo \in Todos
  BY <1>1 DEF ProcessTypes, Stages, Todos
<1> QED BY <1>1, <1>2, <1>3, WireFields, ProcessFields DEF Watermark

LEMMA KindsFrom ==
  ASSUME Kinds, UNCHANGED <<cluster, sent>>,
         wire' \in Wires, IsCorrelator(correlator'), QueuesFit(correlator'),
         PendingType(pending'), pending'.flushed_through \in 0 .. MaxSlot,
         store' \in Stores, stage' \in Stages, todo' \in Todos, ViewKinds'
  PROVE  Kinds'
<1>1. ChainKinds'
  BY DEF Kinds, ChainKinds
<1>2. ProcessTypes'
  BY DEF ProcessTypes, PendingType, IsCorrelator, Stages, Todos
<1> QED BY <1>1, <1>2 DEF Kinds, Watermark, QueuesFit, IsQueue

LEMMA ViewsStand ==
  ASSUME ViewKinds, views' = views
  PROVE  ViewKinds'
BY DEF ViewKinds

LEMMA EmptyQueues ==
  ASSUME NEW c, c.transaction_order = <<>>, c.account_order = <<>>
  PROVE  QueuesFit(c)
<1>1. <<>> \in Seq(Signatures) /\ Len(<<>>) = 0 /\ PendingCapacity \in Nat
  BY CorrelateAssumption
<1> QED BY <1>1 DEF QueuesFit, IsQueue

LEMMA LiveSlotKind ==
  ASSUME ChainKinds
  PROVE  LiveSlot \in 0 .. MaxSlot
<1>1. cluster.slot \in 1 .. MaxSlot + 1 /\ cluster.dead \subseteq 1 .. MaxSlot
  BY DEF ChainKinds, Clusters
<1>2. cluster.slot - 1 \in Nat /\ cluster.slot \in Nat /\ cluster.slot <= MaxSlot + 1
  BY <1>1, SlotBound
<1> DEFINE all == 0 .. cluster.slot - 1
           S == {s \in all : s \notin cluster.dead}
<1>3. 0 \in S
  BY <1>1, <1>2
<1>4. PICK g \in S : \A k \in S : k <= g
  <2>1. S \in SUBSET (0 .. cluster.slot - 1) /\ S # {}
    BY <1>3
  <2> HIDE DEF S
  <2> QED BY ONLY <1>2, <2>1, GreatestNat
<1>5. g \in all /\ g \notin cluster.dead /\ \A r \in all : r > g => r \in cluster.dead
  BY <1>4
<1>6. LiveSlot \in all
  BY <1>5 DEF LiveSlot
<1> QED BY <1>2, <1>6, SlotBound

LEMMA HighestSlotKind ==
  ASSUME NEW stored \in SUBSET AllTrades, NEW markets
  PROVE  HighestSlot(stored, markets) \in 0 .. MaxSlot
<1> DEFINE slots == {t.slot : t \in {u \in stored : u.market \in markets}}
<1>1. slots \in SUBSET (0 .. MaxSlot)
  BY SlotBound DEF AllTrades
<1>2. CASE slots = {}
  BY <1>2, SlotBound DEF HighestSlot
<1>3. CASE slots # {}
  <2>1. HighestSlot(stored, markets) = CHOOSE s \in slots : \A r \in slots : r <= s
    BY <1>3 DEF HighestSlot
  <2> HIDE DEF slots
  <2>2. \E g \in slots : \A k \in slots : k <= g
    <3>1. MaxSlot \in Nat
      BY SlotBound
    <3> QED BY ONLY <1>1, <1>3, <3>1, GreatestNat
  <2> QED BY <1>1, <2>1, <2>2
<1> QED BY <1>2, <1>3

LEMMA OldestCheckpointKind ==
  ASSUME Kinds, Checkpointed # {}
  PROVE  /\ OldestCheckpoint \in Nat
         /\ \A m \in Checkpointed :
              /\ m \in Markets
              /\ store.checkpoints[m].data \in States
              /\ store.checkpoints[m].slot \in 0 .. MaxSlot
<1>1. \A m \in Markets : store.checkpoints[m] \in [slot : Unknown .. MaxSlot, data : States]
  BY KindParts
<1>2. \A m \in Checkpointed :
        /\ m \in Markets /\ store.checkpoints[m].data \in States
        /\ store.checkpoints[m].slot \in 0 .. MaxSlot
  BY <1>1, SlotBound DEF Checkpointed, Unknown
<1> DEFINE slots == {store.checkpoints[m].slot : m \in Checkpointed}
<1>3. slots \in SUBSET Nat /\ slots # {}
  BY <1>2, SlotBound
<1>4. OldestCheckpoint = CHOOSE s \in slots : \A r \in slots : s <= r
  BY DEF OldestCheckpoint
<1> HIDE DEF slots
<1>5. \E s \in slots : \A r \in slots : s <= r
  BY ONLY <1>3, LeastNat
<1> QED BY <1>2, <1>3, <1>4, <1>5

LEMMA CrashKinds ==
  ASSUME Kinds, Crash
  PROVE  Kinds'
<1>1. /\ correlator' = NewCorrelator /\ pending' = NewPending
      /\ views' = [m \in Markets |-> NoView]
      /\ todo' = [slot |-> 0, markets |-> {}] /\ stage' = "down" /\ wire' = Replay(0)
      /\ UNCHANGED <<cluster, sent, store>>
  BY DEF Crash, NoWire
<1>2. IsCorrelator(correlator') /\ QueuesFit(correlator')
  <2>1. NewCorrelator.transaction_order = <<>> /\ NewCorrelator.account_order = <<>>
    BY DEF NewCorrelator
  <2> QED BY <1>1, <2>1, NewCorrelatorIs, EmptyQueues
<1>3. PendingType(pending') /\ pending'.flushed_through \in 0 .. MaxSlot
  BY <1>1, NewPendingIs, SlotBound
<1>4. ViewKinds'
  BY <1>1, EmptyViews DEF ViewKinds
<1>5. wire' \in Wires /\ todo' \in Todos /\ stage' \in Stages
  BY <1>1, ReplayIs, SlotBound DEF Todos, Stages
<1> QED BY <1>1, <1>2, <1>3, <1>4, <1>5, KindParts, KindsFrom

LEMMA ResumeKinds ==
  ASSUME Kinds, Resume
  PROVE  Kinds'
<1> DEFINE known == Checkpointed
           snapshot == store.checkpoints
           d == SeedAt(known, snapshot)
<1>1. /\ known # {}
      /\ correlator' = d
      /\ views' = [m \in Markets |->
           IF m \in known THEN NewView(snapshot[m].data, snapshot[m].slot) ELSE NoView]
      /\ pending' = ResumingFrom(HighestSlot(store.rows, known))
      /\ wire' = Replay(OldestCheckpoint + 1)
      /\ stage' = "next"
      /\ UNCHANGED <<cluster, sent, todo, store>>
  BY DEF Resume, RestoredCorrelator, Resuming
<1>2. /\ known \in SUBSET Markets /\ OldestCheckpoint + 1 \in Nat
      /\ \A m \in known : snapshot[m].data \in States /\ snapshot[m].slot \in 0 .. MaxSlot
  BY <1>1, OldestCheckpointKind DEF Checkpointed
<1>3. wire' \in Wires
  BY <1>1, <1>2, ReplayIs
<1> HIDE DEF known, snapshot
<1>4. IsCorrelator(d) /\ d.transaction_order = <<>> /\ d.account_order = <<>>
  <2> HIDE DEF d
  <2> QED BY ONLY <1>2, SeedAtIs DEF d
<1> HIDE DEF d
<1>5. IsCorrelator(correlator') /\ QueuesFit(correlator')
  BY <1>1, <1>4, EmptyQueues
<1>6. PendingType(pending') /\ pending'.flushed_through \in 0 .. MaxSlot
  <2>1. HighestSlot(store.rows, known) \in 0 .. MaxSlot
    BY KindParts, HighestSlotKind
  <2> QED BY <1>1, <2>1, NewPendingIs
<1>7. ViewKinds'
  <2>1. \A m \in Markets : IsView(views'[m])
    BY <1>1, EmptyViews
  <2> QED BY <1>1, <2>1 DEF ViewKinds
<1>8. stage' \in Stages
  BY <1>1 DEF Stages
<1> QED BY <1>1, <1>3, <1>5, <1>6, <1>7, <1>8, KindParts, KindsFrom

LEMMA SubscribeKinds ==
  ASSUME Kinds, Subscribe
  PROVE  Kinds'
<1>1. /\ \E startup \in {{}} \cup
           {{AccountUpdate(LiveSlot, m, BookAt(m, LiveSlot), NoSignature)} : m \in Markets} :
           wire' = [Replay(cluster.slot) EXCEPT !.startup = startup]
      /\ stage' = "seed"
      /\ UNCHANGED <<cluster, sent, correlator, pending, views, todo, store>>
  BY DEF Subscribe
<1>2. PICK startup \in {{}} \cup
           {{AccountUpdate(LiveSlot, m, BookAt(m, LiveSlot), NoSignature)} : m \in Markets} :
           wire' = [Replay(cluster.slot) EXCEPT !.startup = startup]
  BY <1>1
<1>3. startup \subseteq StartupUpdate
  <2>1. \A m \in Markets :
          AccountUpdate(LiveSlot, m, BookAt(m, LiveSlot), NoSignature) \in StartupUpdate
    BY KindParts, LiveSlotKind, BookIsCounted DEF AccountUpdate, StartupUpdate
  <2> QED BY <1>2, <2>1
<1>4. wire' \in Wires
  <2>1. Replay(cluster.slot) \in Wires
    BY KindParts, ReplayIs
  <2> QED BY <1>2, <1>3, <2>1 DEF Wires
<1>5. stage' \in Stages
  BY <1>1 DEF Stages
<1> QED BY <1>1, <1>4, <1>5, KindParts, ViewsStand, KindsFrom

LEMMA SeedFromRpcKinds ==
  ASSUME Kinds, SeedFromRpc
  PROVE  Kinds'
<1> DEFINE n == LiveSlot
           snapshot == [m \in Markets |-> [data |-> BookAt(m, n), slot |-> n]]
           d == SeedAt(Markets, snapshot)
<1>1. /\ correlator' = d
      /\ views' = [m \in Markets |-> NewView(snapshot[m].data, n)]
      /\ pending' = ResumingFrom(HighestSlot(store.rows, Markets))
      /\ stage' = "next"
      /\ UNCHANGED <<cluster, sent, wire, todo, store>>
  BY DEF SeedFromRpc, Resuming
<1>2. /\ Markets \in SUBSET Markets
      /\ \A m \in Markets : snapshot[m].data \in States /\ snapshot[m].slot \in 0 .. MaxSlot
  BY KindParts, LiveSlotKind, BookIsCounted DEF States
<1> HIDE DEF snapshot
<1>3. IsCorrelator(d) /\ d.transaction_order = <<>> /\ d.account_order = <<>>
  <2> HIDE DEF d
  <2> QED BY ONLY <1>2, SeedAtIs DEF d
<1> HIDE DEF d
<1>4. IsCorrelator(correlator') /\ QueuesFit(correlator')
  BY <1>1, <1>3, EmptyQueues
<1>5. PendingType(pending') /\ pending'.flushed_through \in 0 .. MaxSlot
  <2>1. HighestSlot(store.rows, Markets) \in 0 .. MaxSlot
    BY KindParts, HighestSlotKind
  <2> QED BY <1>1, <2>1, NewPendingIs
<1>6. ViewKinds'
  <2>1. \A m \in Markets : IsView(views'[m])
    BY <1>1, EmptyViews
  <2> QED BY <1>1, <2>1 DEF ViewKinds
<1>7. stage' \in Stages
  BY <1>1 DEF Stages
<1> QED BY <1>1, <1>4, <1>5, <1>6, <1>7, KindParts, KindsFrom

LEMMA StartColdKinds ==
  ASSUME Kinds, StartCold
  PROVE  Kinds'
<1>1. /\ pending' = NewPending /\ stage' = "next"
      /\ UNCHANGED <<cluster, sent, wire, correlator, views, todo, store>>
  BY DEF StartCold
<1>2. PendingType(pending') /\ pending'.flushed_through \in 0 .. MaxSlot
  BY <1>1, NewPendingIs, SlotBound
<1>3. stage' \in Stages
  BY <1>1 DEF Stages
<1> QED BY <1>1, <1>2, <1>3, KindParts, ViewsStand, KindsFrom

LEMMA ReconnectKinds ==
  ASSUME Kinds, Reconnect
  PROVE  Kinds'
<1>1. /\ wire' = Replay(wire.last)
      /\ UNCHANGED <<cluster, sent, correlator, pending, views, stage, todo, store>>
  BY DEF Reconnect, process
<1>2. wire' \in Wires
  BY <1>1, KindParts, ReplayIs
<1> QED BY <1>1, <1>2, KindParts, ViewsStand, KindsFrom

LEMMA ReadingKinds ==
  ASSUME Kinds, NEW outcome, IsOutcome(outcome), Handle(outcome), wire' \in Wires,
         UNCHANGED <<cluster, sent, stage, todo, store>>
  PROVE  Kinds'
<1>1. /\ IsCorrelator(correlator') /\ QueuesFit(correlator')
      /\ PendingType(pending') /\ pending'.flushed_through = pending.flushed_through
      /\ ViewKinds'
  BY KindParts, HandledKinds
<1> QED BY <1>1, KindParts, KindsFrom

LEMMA LaterIsNat ==
  ASSUME NEW a \in Nat, NEW b \in Nat
  PROVE  MaxOf(a, b) \in Nat
BY DEF MaxOf

LEMMA DueUpdates ==
  ASSUME Kinds
  PROVE  /\ \A i \in DueAccounts :
              i \in Nat /\ sent.accounts[i] \in Update /\ sent.accounts[i].slot \in Nat
         /\ \A i \in DueTransactions :
              /\ i \in Nat /\ sent.transactions[i] \in Execution
              /\ sent.transactions[i].slot \in Nat
         /\ \A i \in DueSlots : i \in Nat
<1>1. /\ sent.accounts \in Seq(Update) /\ sent.transactions \in Seq(Execution)
      /\ sent.slots \in Seq(Status)
      /\ wire.accounts \in Nat /\ wire.transactions \in Nat /\ wire.slots \in Nat
  <2>1. /\ ChainKinds
        /\ wire.accounts \in Nat /\ wire.transactions \in Nat /\ wire.slots \in Nat
    BY KindParts
  <2> QED BY ONLY <2>1 DEF ChainKinds, Sendings
<1>2. /\ Len(sent.accounts) \in Nat /\ Len(sent.transactions) \in Nat /\ Len(sent.slots) \in Nat
  BY ONLY <1>1
<1>3. \A i \in 1 .. Len(sent.accounts) : sent.accounts[i] \in Update
  BY <1>1
<1>4. \A i \in 1 .. Len(sent.transactions) : sent.transactions[i] \in Execution
  BY <1>1
<1>5. /\ DueAccounts \subseteq 1 .. Len(sent.accounts)
      /\ DueTransactions \subseteq 1 .. Len(sent.transactions)
      /\ DueSlots \subseteq 1 .. Len(sent.slots)
  <2>1. ASSUME NEW updates, NEW read \in Nat, Len(updates) \in Nat
        PROVE  Due(updates, read) \subseteq 1 .. Len(updates)
    <3>1. Due(updates, read) \subseteq read + 1 .. Len(updates)
      BY DEF Due
    <3> QED BY ONLY <2>1, <3>1, read \in Nat
  <2> QED BY <1>1, <1>2, <2>1 DEF DueAccounts, DueTransactions, DueSlots
<1>6. /\ \A u \in Update : u.slot \in Nat
      /\ \A u \in Execution : u.slot \in Nat
  BY SlotBound DEF Update, Execution
<1>7. /\ \A i \in 1 .. Len(sent.accounts) : i \in Nat
      /\ \A i \in 1 .. Len(sent.transactions) : i \in Nat
      /\ \A i \in 1 .. Len(sent.slots) : i \in Nat
  BY <1>2
<1> QED BY <1>3, <1>4, <1>5, <1>6, <1>7

LEMMA ReceiveStartupKinds ==
  ASSUME Kinds, ReceiveStartup
  PROVE  Kinds'
<1>1. PICK u \in wire.startup :
        /\ wire' = [wire EXCEPT !.startup = {}, !.last = MaxOf(@, u.slot)]
        /\ Handle(AcceptAccount(correlator, u))
        /\ UNCHANGED <<cluster, sent, stage, todo, store>>
  BY DEF ReceiveStartup
<1>2. u \in StartupUpdate /\ u.slot \in Nat
  BY KindParts, SlotBound DEF StartupUpdate
<1>3. wire' \in Wires
  BY <1>1, <1>2, KindParts, LaterIsNat DEF Wires
<1>4. IsOutcome(AcceptAccount(correlator, u))
  BY <1>2, KindParts, ReadsAccount
<1> QED BY <1>1, <1>3, <1>4, ReadingKinds

LEMMA ReceiveAccountKinds ==
  ASSUME Kinds, ReceiveAccount
  PROVE  Kinds'
<1>1. PICK i \in DueAccounts :
        /\ wire' = [wire EXCEPT !.accounts = i, !.last = MaxOf(@, sent.accounts[i].slot)]
        /\ Handle(AcceptAccount(correlator, sent.accounts[i]))
        /\ UNCHANGED <<cluster, sent, stage, todo, store>>
  BY DEF ReceiveAccount
<1>2. i \in Nat /\ sent.accounts[i] \in Update /\ sent.accounts[i].slot \in Nat
  BY DueUpdates
<1>3. wire' \in Wires
  BY <1>1, <1>2, KindParts, LaterIsNat DEF Wires
<1>4. IsOutcome(AcceptAccount(correlator, sent.accounts[i]))
  BY <1>2, KindParts, ReadsAccount
<1> QED BY <1>1, <1>3, <1>4, ReadingKinds

LEMMA ReceiveTransactionKinds ==
  ASSUME Kinds, ReceiveTransaction
  PROVE  Kinds'
<1>1. PICK i \in DueTransactions :
        /\ wire' = [wire EXCEPT !.transactions = i,
                                !.last = MaxOf(@, sent.transactions[i].slot)]
        /\ Handle(AcceptTransaction(correlator, sent.transactions[i]))
        /\ UNCHANGED <<cluster, sent, stage, todo, store>>
  BY DEF ReceiveTransaction
<1>2. i \in Nat /\ sent.transactions[i] \in Execution /\ sent.transactions[i].slot \in Nat
  BY DueUpdates
<1>3. wire' \in Wires
  BY <1>1, <1>2, KindParts, LaterIsNat DEF Wires
<1>4. IsOutcome(AcceptTransaction(correlator, sent.transactions[i]))
  BY <1>2, KindParts, ReadsTransaction
<1> QED BY <1>1, <1>3, <1>4, ReadingKinds

LEMMA ReportedWire ==
  ASSUME Kinds, NEW slot \in 1 .. MaxSlot, NEW status, Reported(slot, status)
  PROVE  wire' \in Wires
<1>1. PICK i \in DueSlots : wire' = [wire EXCEPT !.slots = i, !.last = MaxOf(@, slot)]
  BY DEF Reported
<1> QED BY <1>1, KindParts, DueUpdates, SlotBound, LaterIsNat DEF Wires

LEMMA TipFits ==
  ASSUME NEW c, IsCorrelator(c), QueuesFit(c), NEW slot, NEW status
  PROVE  IsCorrelator(AcceptSlot(c, slot, status)) /\ QueuesFit(AcceptSlot(c, slot, status))
<1> DEFINE d == AcceptSlot(c, slot, status)
<1>1. d.transaction_order = c.transaction_order /\ d.account_order = c.account_order
  BY DEF AcceptSlot, IsCorrelator
<1> QED BY <1>1, AcceptSlotIs DEF QueuesFit

LEMMA ReceiveConfirmedKinds ==
  ASSUME Kinds, NEW slot \in 1 .. MaxSlot, ReceiveConfirmed(slot)
  PROVE  Kinds'
<1>1. /\ Reported(slot, "confirmed")
      /\ correlator' = AcceptSlot(correlator, slot, "confirmed")
      /\ UNCHANGED <<cluster, sent, pending, views, stage, todo, store>>
  BY DEF ReceiveConfirmed
<1>2. wire' \in Wires /\ IsCorrelator(correlator') /\ QueuesFit(correlator')
  BY <1>1, ReportedWire, KindParts, TipFits
<1> QED BY <1>1, <1>2, KindParts, ViewsStand, KindsFrom

LEMMA ReceiveDeadKinds ==
  ASSUME Kinds, NEW slot \in 1 .. MaxSlot, ReceiveDead(slot)
  PROVE  Kinds'
<1>1. /\ Reported(slot, "dead")
      /\ pending' = RetractPending(pending, slot)
      /\ views' = [m \in Markets |-> RetractView(views[m], slot)]
      /\ correlator' = AcceptSlot(correlator, slot, "dead")
      /\ UNCHANGED <<cluster, sent, stage, todo, store>>
  BY DEF ReceiveDead
<1>2. wire' \in Wires /\ IsCorrelator(correlator') /\ QueuesFit(correlator')
  BY <1>1, ReportedWire, KindParts, TipFits
<1>3. PendingType(pending') /\ pending'.flushed_through = pending.flushed_through
  BY <1>1, KindParts DEF RetractPending, PendingType
<1>4. ViewKinds'
  <2>1. \A m \in Markets : IsView(views[m])
    BY KindParts DEF ViewKinds
  <2>2. \A m \in Markets : IsView(RetractView(views[m], slot))
    BY <2>1, RetractedViewIs
  <2>3. \A m \in Markets : views'[m] = RetractView(views[m], slot)
    BY <1>1
  <2> QED BY <1>1, <2>2, <2>3 DEF ViewKinds
<1> QED BY <1>1, <1>2, <1>3, <1>4, KindParts, KindsFrom

LEMMA ReceiveFinalizedKinds ==
  ASSUME Kinds, NEW slot \in 1 .. MaxSlot, ReceiveFinalized(slot)
  PROVE  Kinds'
<1>1. /\ Reported(slot, "finalized")
      /\ views' = [m \in Markets |-> FinalizeView(views[m], slot)]
      /\ todo' = [slot |-> slot, markets |-> KnownMarkets(correlator)]
      /\ stage' = "checkpoint"
      /\ UNCHANGED <<cluster, sent, correlator, pending, store>>
  BY DEF ReceiveFinalized
<1>2. wire' \in Wires
  BY <1>1, ReportedWire
<1>3. todo' \in Todos /\ stage' \in Stages
  BY <1>1, SlotBound DEF Todos, Stages, KnownMarkets
<1>4. ViewKinds'
  <2>1. \A m \in Markets : IsView(views[m])
    BY KindParts DEF ViewKinds
  <2>2. \A m \in Markets : IsView(FinalizeView(views[m], slot))
    BY <2>1, FinalizedViewIs
  <2>3. \A m \in Markets : views'[m] = FinalizeView(views[m], slot)
    BY <1>1
  <2> QED BY <1>1, <2>2, <2>3 DEF ViewKinds
<1> QED BY <1>1, <1>2, <1>3, <1>4, KindParts, KindsFrom

LEMMA CheckpointKinds ==
  ASSUME Kinds, NEW m \in Markets, Checkpoint(m)
  PROVE  Kinds'
<1> DEFINE new == [slot |-> correlator.known_at[m], data |-> correlator.latest[m]]
           saved == SaveCheckpoint(store.checkpoints[m], new)
<1>1. /\ todo' = [todo EXCEPT !.markets = @ \ {m}]
      /\ store' = IF IsRooted(m) THEN [store EXCEPT !.checkpoints[m] = saved] ELSE store
      /\ UNCHANGED <<cluster, sent, wire, correlator, pending, views, stage>>
  BY DEF Checkpoint
<1>2. new \in [slot : Unknown .. MaxSlot, data : States]
  BY KindParts, CorrelatorFields
<1>3. store.checkpoints[m] \in [slot : Unknown .. MaxSlot, data : States]
  BY KindParts
<1>4. saved \in [slot : Unknown .. MaxSlot, data : States]
  BY <1>2, <1>3 DEF SaveCheckpoint
<1> HIDE DEF new, saved
<1>5. store' \in Stores
  BY <1>1, <1>4, KindParts DEF Stores
<1>6. todo' \in Todos
  BY <1>1, KindParts DEF Todos
<1> QED BY <1>1, <1>5, <1>6, KindParts, ViewsStand, KindsFrom

LEMMA CheckpointFailsKinds ==
  ASSUME Kinds, NEW m \in Markets, CheckpointFails(m)
  PROVE  Kinds'
<1>1. /\ todo' = [todo EXCEPT !.markets = @ \ {m}]
      /\ UNCHANGED <<cluster, sent, wire, correlator, pending, views, stage, store>>
  BY DEF CheckpointFails
<1>2. todo' \in Todos
  BY <1>1, KindParts DEF Todos
<1> QED BY <1>1, <1>2, KindParts, ViewsStand, KindsFrom

LEMMA FinishKinds ==
  ASSUME Kinds, Finish
  PROVE  /\ IsCorrelator(correlator') /\ QueuesFit(correlator')
         /\ todo' \in Todos /\ stage' \in Stages
BY KindParts, TipFits, SlotBound DEF Finish, Todos, Stages

(* The watermark is the slot that was taken, or the one before. *)
LEMMA TakenKinds ==
  ASSUME Kinds
  PROVE  LET taken == TakeThrough(pending, todo.slot)
         IN  PendingType(taken) /\ taken.flushed_through \in 0 .. MaxSlot
BY KindParts DEF TakeThrough, PendingType

LEMMA AppendedKinds ==
  ASSUME Kinds, NEW rows \in SUBSET pending.by_slot,
         store' = [store EXCEPT !.rows = AppendRows(@, rows)]
  PROVE  store' \in Stores
<1>1. store.rows \in SUBSET AllTrades /\ rows \in SUBSET AllTrades
  BY KindParts
<1>2. AppendRows(store.rows, rows) \subseteq AllTrades
  BY <1>1, AppendRowsIs
<1> QED BY <1>2, KindParts DEF Stores

LEMMA FlushRootedKinds ==
  ASSUME Kinds, FlushRooted
  PROVE  Kinds'
<1>1. /\ pending' = TakeThrough(pending, todo.slot)
      /\ store' = [store EXCEPT !.rows = AppendRows(@, Rooted(pending, todo.slot))]
      /\ Finish
      /\ UNCHANGED <<cluster, sent, wire, views>>
  BY DEF FlushRooted
<1>2. PendingType(pending') /\ pending'.flushed_through \in 0 .. MaxSlot
  BY <1>1, TakenKinds
<1>3. Rooted(pending, todo.slot) \in SUBSET pending.by_slot
  BY DEF Rooted
<1>4. store' \in Stores
  BY <1>1, <1>3, AppendedKinds
<1> QED BY <1>1, <1>2, <1>4, FinishKinds, KindParts, ViewsStand, KindsFrom

LEMMA FlushFailsKinds ==
  ASSUME Kinds, FlushFails
  PROVE  Kinds'
<1> DEFINE rows == Rooted(pending, todo.slot)
           taken == TakeThrough(pending, todo.slot)
           below == LowestSlot(rows) - 1
<1>1. /\ rows # {}
      /\ pending' = Requeue(taken, rows)
      /\ \E written \in SUBSET rows :
           store' = [store EXCEPT !.rows = AppendRows(@, written)]
      /\ Finish
      /\ UNCHANGED <<cluster, sent, wire, views>>
  BY DEF FlushFails
<1>2. PendingType(taken) /\ taken.flushed_through \in 0 .. MaxSlot
  BY TakenKinds
<1>3. rows \in SUBSET pending.by_slot /\ rows \subseteq AllTrades
  BY KindParts DEF Rooted
<1>4. below \in 0 .. MaxSlot
  <2>1. \A t \in rows : t.slot \in 1 .. MaxSlot /\ t.slot \in Nat
    BY <1>3, SlotBound DEF AllTrades
  <2> HIDE DEF rows
  <2>2. \E t \in rows : LowestSlot(rows) = t.slot
    BY <1>1, <2>1, LowestSlotIs
  <2>3. LowestSlot(rows) \in 1 .. MaxSlot
    BY <2>1, <2>2
  <2> QED BY <2>3, SlotBound
<1>5. store' \in Stores
  BY <1>1, <1>3, AppendedKinds
<1>6. PendingType(pending') /\ pending'.flushed_through \in 0 .. MaxSlot
  <2> HIDE DEF rows, taken
  <2>1. pending' = [by_slot |-> taken.by_slot \cup rows,
                    flushed_through |-> IF below < taken.flushed_through
                                        THEN below ELSE taken.flushed_through]
    BY <1>1 DEF Requeue
  <2> HIDE DEF below
  <2> QED BY <1>2, <1>3, <1>4, <2>1 DEF PendingType
<1> QED BY <1>1, <1>5, <1>6, FinishKinds, KindParts, ViewsStand, KindsFrom

LEMMA KindsStart ==
  ASSUME Init
  PROVE  Kinds
<1>1. IInv
  BY Starts
<1>2. ProcessTypes
  BY <1>1, IInvParts
<1>3. ChainKinds
  <2>1. cluster \in Clusters /\ sent \in Sendings
    BY <1>1, IInvParts DEF ChainInv, ChainTypes
  <2>2. IsFiniteSet(cluster.trades)
    BY FS_EmptySet DEF Init
  <2> QED BY <2>1, <2>2 DEF ChainKinds
<1>4. QueuesFit(correlator)
  <2>1. correlator.transaction_order = <<>> /\ correlator.account_order = <<>>
    BY DEF Init, NewCorrelator
  <2> QED BY <2>1, EmptyQueues
<1>5. Watermark
  BY NewPendingIs, SlotBound DEF Init, Watermark
<1>6. ViewKinds
  BY EmptyViews DEF Init, ViewKinds
<1> QED BY <1>2, <1>3, <1>4, <1>5, <1>6 DEF Kinds

LEMMA KindsStep ==
  ASSUME Kinds, [Next]_vars
  PROVE  Kinds'
<1>1. CASE UNCHANGED vars
  BY <1>1, KindParts, ViewsStand, KindsFrom DEF vars, process
<1>2. CASE Next
  <2>1. CASE Cluster
    BY <2>1, ClusterKinds
  <2>2. CASE Resume \/ Subscribe \/ SeedFromRpc \/ StartCold \/ Reconnect \/ Crash
    BY <2>2, ResumeKinds, SubscribeKinds, SeedFromRpcKinds, StartColdKinds, ReconnectKinds,
       CrashKinds
  <2>3. CASE Consumes
    BY <2>3, ReceiveStartupKinds, ReceiveAccountKinds, ReceiveTransactionKinds,
       ReceiveConfirmedKinds, ReceiveDeadKinds, ReceiveFinalizedKinds, CheckpointKinds,
       CheckpointFailsKinds, FlushRootedKinds, FlushFailsKinds DEF Consumes
  <2> QED BY <1>2, <2>1, <2>2, <2>3, NextParts
<1> QED BY <1>1, <1>2

LEMMA KindsInvariance == Spec => []Kinds
<1>1. Init => Kinds
  BY KindsStart
<1>2. Kinds /\ [Next]_vars => Kinds'
  BY KindsStep
<1> QED BY <1>1, <1>2, PTL DEF Spec

(* Every variable holds a value of its kind, and what a market published   *)
(* is on its tape or was publicly withdrawn until the tape is full: in     *)
(* every behaviour, dead slots with trades in them, evicted halves and     *)
(* reconnects at any moment included (Registry, registry.rs, and the       *)
(* queues of Correlator, correlate.rs).                                    *)
THEOREM StreamIsTyped == Spec => [](TypeOK /\ RetractionsAreAccounted)
<1>1. Kinds => TypeOK /\ RetractionsAreAccounted
  BY KindsAreTypes
<1> QED BY <1>1, KindsInvariance, PTL

-----------------------------------------------------------------------------
(* What the public tapes show, in a behaviour that meets none of the known *)
(* limits.                                                                 *)

Shown(m) == RowsOf(views[m].tape)

AllShownHappened == \A m \in Markets : Shown(m) \subseteq cluster.trades

LEMMA NothingShown ==
  ASSUME NEW state, NEW slot
  PROVE  RowsOf(NoView.tape) = {} /\ RowsOf(NewView(state, slot).tape) = {}
BY EmptyViews

LEMMA ShownStands ==
  ASSUME AllShownHappened, views' = views, cluster.trades \subseteq cluster'.trades
  PROVE  AllShownHappened'
BY DEF AllShownHappened, Shown

(* Only an account half whose transaction waits yields a change. *)
LEMMA YieldsPaired ==
  ASSUME NEW c, IsCorrelator(c), NEW u, AcceptAccount(c, u).changes # {}
  PROVE  /\ ~ (u.slot < c.known_at[u.market])
         /\ u.signature # NoSignature /\ u.signature \in c.transactions
<1>1. ~ (u.slot < c.known_at[u.market])
  BY AcceptStale
<1> DEFINE s == SeenAt(c, u.slot)
           k == [s EXCEPT !.known_at[u.market] = u.slot]
<1>2. s.transactions = c.transactions
  BY SeenIs
<1>3. k.transactions = s.transactions
  BY DEF SeenAt, IsCorrelator
<1>4. \/ AcceptAccount(c, u) = NoChange(s)
      \/ AcceptAccount(c, u) = NoChange([k EXCEPT !.latest[u.market] = u.data])
      \/ u.signature # NoSignature /\ u.signature \in k.transactions
      \/ AcceptAccount(c, u) = NoChange(RememberAccount(k, u))
  BY DEF AcceptAccount, SeenAt
<1>5. u.signature # NoSignature /\ u.signature \in k.transactions
  <2> HIDE DEF s, k
  <2>1. \A x : AcceptAccount(c, u) # NoChange(x)
    BY DEF NoChange
  <2> QED BY <1>4, <2>1
<1> QED BY <1>1, <1>2, <1>3, <1>5

(* What a half settles is shown only when it happened. *)
LEMMA SettledIsShown ==
  ASSUME IInv, Kinds, AllShownHappened, NEW i \in DOMAIN Writes, Up, Settles(i),
         NEW outcome, IsOutcome(outcome), Handle(outcome), cluster' = cluster,
         outcome.changes = {ChangeOf(correlator, Writes[i])}
  PROVE  AllShownHappened'
<1> DEFINE ch == ChangeOf(correlator, Writes[i])
<1>1. ch.before = Latest(i)
  BY DEF ChangeOf, Latest
<1>2. TradesOf(Writes[i]) \subseteq cluster.trades
  BY IInvParts DEF ChainInv, TradesAreWritten
<1>3. ch.before # Unknown => RowsOf(Derived(ch)) \subseteq cluster.trades
  BY <1>1, <1>2, SettledRows
<1> HIDE DEF ch
<1>4. \A m \in Markets : \A t \in RowsOf(views'[m].tape) :
        \/ t \in RowsOf(views[m].tape)
        \/ \E c \in outcome.changes : c.before # Unknown /\ t \in RowsOf(Derived(c))
  BY KindParts, HandledKinds
<1>5. \A c \in outcome.changes : c = ch
  BY DEF ch
<1> QED BY <1>3, <1>4, <1>5 DEF AllShownHappened, Shown

LEMMA NothingIsShown ==
  ASSUME AllShownHappened, cluster' = cluster, NEW outcome, Handle(outcome),
         outcome.changes = {}
  PROVE  AllShownHappened'
<1>1. views' = views
  BY DEF Handle
<1> QED BY <1>1, ShownStands

LEMMA ReceiveStartupShows ==
  ASSUME IInv, Kinds, AllShownHappened, ReceiveStartup
  PROVE  AllShownHappened'
<1>1. PICK u \in wire.startup : Handle(AcceptAccount(correlator, u)) /\ cluster' = cluster
  BY DEF ReceiveStartup
<1>2. u.signature = NoSignature
  BY <1>1, KindParts DEF StartupUpdate
<1>3. AcceptAccount(correlator, u).changes = {}
  BY <1>2, KindParts, YieldsPaired
<1> QED BY <1>1, <1>3, NothingIsShown

LEMMA ReceiveAccountShows ==
  ASSUME IInv, Kinds, AllShownHappened, ReceiveAccount, QueuesHold
  PROVE  AllShownHappened'
<1>1. PICK i \in DOMAIN Writes : AccountRead(i) /\ Handle(AcceptAccount(correlator, Writes[i]))
  BY AccountIsRead
<1>2. Up /\ cluster' = cluster
  BY <1>1, ReadPast
<1> DEFINE outcome == AcceptAccount(correlator, Writes[i])
<1>3. Writes[i] \in Update
  BY IInvParts, WriteFields
<1>4. IsOutcome(outcome) /\ outcome.changes \subseteq {ChangeOf(correlator, Writes[i])}
  BY <1>3, KindParts, ReadsAccount
<1>5. CASE outcome.changes = {}
  BY <1>1, <1>2, <1>5, NothingIsShown
<1>6. CASE outcome.changes # {}
  <2>1. /\ ~ (Writes[i].slot < KnownAt(i))
        /\ Writes[i].signature \in correlator.transactions
    BY <1>6, KindParts, YieldsPaired DEF KnownAt
  <2>2. PairedRead(i)
    BY <1>1, <2>1, AccountOutcomes DEF StaleRead, WaitingRead
  <2>3. Settles(i)
    BY <1>1, <2>2, PairedSettles
  <2>4. outcome.changes = {ChangeOf(correlator, Writes[i])}
    BY <1>4, <1>6
  <2> HIDE DEF outcome
  <2> QED BY <1>1, <1>2, <1>4, <2>3, <2>4, SettledIsShown DEF outcome
<1> QED BY <1>5, <1>6

LEMMA ReceiveTransactionShows ==
  ASSUME IInv, Kinds, AllShownHappened, ReceiveTransaction, QueuesHold
  PROVE  AllShownHappened'
<1>1. PICK k \in DOMAIN Runs : RunRead(k) /\ Handle(AcceptTransaction(correlator, Runs[k]))
  BY RunIsRead
<1>2. Up /\ cluster' = cluster
  BY <1>1, RunPast
<1> DEFINE outcome == AcceptTransaction(correlator, Runs[k])
<1>3. ChainInv /\ Runs[k] \in Execution
  BY IInvParts, RunFields
<1>4. /\ IsOutcome(outcome)
      /\ \/ outcome.changes = {}
         \/ \E half \in correlator.accounts :
              /\ half.signature = Runs[k].signature
              /\ outcome.changes = {ChangeOf(correlator, half)}
  BY <1>3, KindParts, ReadsTransaction
<1>5. CASE outcome.changes = {}
  BY <1>1, <1>2, <1>5, NothingIsShown
<1>6. CASE outcome.changes # {}
  <2>1. PICK half \in correlator.accounts :
          half.signature = Runs[k].signature /\ outcome.changes = {ChangeOf(correlator, half)}
    BY <1>4, <1>6
  <2>2. HalvesWereRead
    BY <1>2, PairParts
  <2>3. PICK j \in DOMAIN Writes : half = Writes[j]
    BY <2>1, <2>2 DEF HalvesWereRead
  <2>4. Runs[k].signature \in WaitingAccounts(correlator) /\ Runs[k].succeeded
    <3>1. Runs[k].signature \in WaitingAccounts(correlator)
      BY <2>1 DEF WaitingAccounts
    <3>2. Runs[k].succeeded
      BY <1>6, KindParts, AcceptFailed
    <3> QED BY <3>1, <3>2
  <2>5. PICK i \in DOMAIN Writes : CompletingRead(k, i)
    BY <1>1, <2>4, RunOutcomes DEF FailedRead, UnpairedRead
  <2>6. Writes[i].signature = Runs[k].signature /\ Settles(i)
    BY <1>1, <2>5, CompletingSettles DEF CompletingRead, IsRunOf
  <2>7. half = Writes[i]
    BY <1>3, <2>1, <2>3, <2>6, WriteOrder
  <2> HIDE DEF outcome
  <2> QED BY <1>1, <1>2, <1>4, <2>1, <2>6, <2>7, SettledIsShown DEF outcome
<1> QED BY <1>5, <1>6

LEMMA StatusShows ==
  ASSUME Kinds, AllShownHappened, NEW slot \in 1 .. MaxSlot,
         ReceiveConfirmed(slot) \/ ReceiveDead(slot) \/ ReceiveFinalized(slot)
  PROVE  AllShownHappened'
<1>1. cluster' = cluster /\ \A m \in Markets : IsView(views[m])
  BY KindParts DEF ReceiveConfirmed, ReceiveDead, ReceiveFinalized, ViewKinds
<1>2. CASE ReceiveConfirmed(slot)
  BY <1>1, <1>2, ShownStands DEF ReceiveConfirmed
<1>3. CASE ReceiveDead(slot)
  <2>1. \A m \in Markets : views'[m] = RetractView(views[m], slot)
    BY <1>3 DEF ReceiveDead
  <2>2. \A m \in Markets : RowsOf(RetractView(views[m], slot).tape) \subseteq Shown(m)
    BY <1>1, RetractedViewIs DEF Shown
  <2> QED BY <1>1, <2>1, <2>2 DEF AllShownHappened, Shown
<1>4. CASE ReceiveFinalized(slot)
  <2>1. \A m \in Markets : views'[m] = FinalizeView(views[m], slot)
    BY <1>4 DEF ReceiveFinalized
  <2>2. \A m \in Markets : RowsOf(FinalizeView(views[m], slot).tape) = Shown(m)
    BY <1>1, FinalizedViewIs DEF Shown
  <2> QED BY <1>1, <2>1, <2>2 DEF AllShownHappened, Shown
<1> QED BY <1>2, <1>3, <1>4

(* A process that starts shows nothing. *)
LEMMA StartingShows ==
  ASSUME Resume \/ SeedFromRpc \/ Crash
  PROVE  AllShownHappened'
<1>1. \A m \in Markets : RowsOf(views'[m].tape) = {}
  <2>1. CASE Resume
    BY <2>1, NothingShown DEF Resume
  <2>2. CASE SeedFromRpc
    BY <2>2, NothingShown DEF SeedFromRpc
  <2>3. CASE Crash
    BY <2>3, NothingShown DEF Crash
  <2> QED BY <2>1, <2>2, <2>3
<1> QED BY <1>1 DEF AllShownHappened, Shown

LEMMA ShownStep ==
  ASSUME IInv, Kinds, AllShownHappened, [Next]_vars, Calm, Calm'
  PROVE  AllShownHappened'
<1>1. CASE UNCHANGED vars
  BY <1>1, ShownStands DEF vars, process
<1>2. CASE Cluster
  <2>1. Extension
    BY <1>2, IInvParts, ClusterExtends DEF Calm
  <2> QED BY <2>1, ShownStands DEF Extension, OnlyChain, process
<1>3. CASE Subscribe \/ StartCold \/ Reconnect
  <2>1. views' = views /\ cluster' = cluster
    BY <1>3 DEF Subscribe, StartCold, Reconnect, process
  <2> QED BY <2>1, ShownStands
<1>4. CASE \/ \E m \in Markets : Checkpoint(m) \/ CheckpointFails(m)
           \/ FlushRooted \/ FlushFails
  <2>1. views' = views /\ cluster' = cluster
    BY <1>4 DEF Checkpoint, CheckpointFails, FlushRooted, FlushFails
  <2> QED BY <2>1, ShownStands
<1>5. CASE ReceiveStartup \/ ReceiveAccount \/ ReceiveTransaction
  BY <1>5, ReceiveStartupShows, ReceiveAccountShows, ReceiveTransactionShows DEF Calm
<1>6. CASE \E s \in 1 .. MaxSlot : ReceiveConfirmed(s) \/ ReceiveDead(s) \/ ReceiveFinalized(s)
  BY <1>6, StatusShows
<1>7. CASE Resume \/ SeedFromRpc \/ Crash
  BY <1>7, StartingShows
<1>8. CASE Consumes
  BY <1>4, <1>5, <1>6, <1>8 DEF Consumes
<1> QED BY <1>1, <1>2, <1>3, <1>7, <1>8, NextParts

LEMMA ShownInvariance == Spec /\ []Calm /\ ReconnectsBetweenPairs => []AllShownHappened
<1>1. Init => AllShownHappened
  <2>1. SUFFICES ASSUME Init PROVE AllShownHappened
    OBVIOUS
  <2>2. \A m \in Markets : Shown(m) = {}
    BY <2>1, NothingShown DEF Init, Shown
  <2> QED BY <2>2 DEF AllShownHappened
<1>2. IInv /\ Kinds /\ AllShownHappened /\ [Next]_vars /\ Calm /\ Calm' => AllShownHappened'
  BY ShownStep
<1> QED BY <1>1, <1>2, Invariance, KindsInvariance, PTL DEF Spec

(* Every trade on a public tape happened, under its own signature and in   *)
(* its own slot, and what a tape no longer shows was publicly withdrawn:   *)
(* between any two steps of the process, its restarts and the reconnects   *)
(* included (run(), pipeline.rs; Registry, registry.rs).                   *)
THEOREM EveryTapeIsTrue == Spec /\ []Calm /\ ReconnectsBetweenPairs => []TapeIsTrue
<1>1. AllShownHappened => ShownTradesHappened
  BY DEF AllShownHappened, Shown, ShownTradesHappened
<1>2. Kinds => TypeOK /\ RetractionsAreAccounted
  BY KindsAreTypes
<1>3. Kinds /\ AllShownHappened => TapeIsTrue
  BY <1>1, <1>2 DEF TapeIsTrue
<1> QED BY <1>3, ShownInvariance, KindsInvariance, PTL
=============================================================================
