-------------------------- MODULE FileStore_proofs --------------------------
(***************************************************************************)
(* Proofs about FileStore: the file store keeps the contract of a store,   *)
(* and whatever fails, dies and is restarted it holds each row of a rooted *)
(* slot once, but those passed over, of which there are none unless a      *)
(* process died owing rows or found no checkpoint.                         *)
(***************************************************************************)
EXTENDS FileStore, Sums_proofs, SequenceTheorems

-----------------------------------------------------------------------------
(* Appending, row by row. *)

(* What is kept after each of the first N of the batch. *)
IsTaking(f, rows, batch, N) ==
  f = [n \in 0 .. N |-> IF n = 0 THEN rows ELSE Taken(f[n - 1], batch[n])]

LEMMA TakingExists ==
  ASSUME NEW N \in Nat, NEW rows, NEW batch
  PROVE  \E f : IsTaking(f, rows, batch, N)
<1> DEFINE Bad == {n \in Nat : ~ \E f : IsTaking(f, rows, batch, n)}
<1>1. SUFFICES ASSUME Bad # {} PROVE FALSE
  OBVIOUS
<1>2. PICK n \in Bad : \A k \in Bad : n <= k
  BY <1>1, LeastNat, Bad \subseteq Nat
<1>3. CASE n = 0
  <2>1. IsTaking([i \in 0 .. 0 |-> rows], rows, batch, 0)
    BY DEF IsTaking
  <2> QED BY <2>1, <1>2, <1>3
<1>4. CASE n # 0
  <2>1. PICK f : IsTaking(f, rows, batch, n - 1)
    BY <1>2, <1>4
  <2> DEFINE h == [i \in 0 .. n |-> IF i = n THEN Taken(f[n - 1], batch[n]) ELSE f[i]]
  <2>2. \A i \in 0 .. n - 1 : f[i] = IF i = 0 THEN rows ELSE Taken(f[i - 1], batch[i])
    BY <2>1 DEF IsTaking
  <2>3. n \in Nat /\ n - 1 \in Nat /\ n - 1 \in 0 .. n /\ n - 1 # n
    BY <1>2, <1>4
  <2>4. \A i \in 0 .. n : h[i] = IF i = 0 THEN rows ELSE Taken(h[i - 1], batch[i])
    BY <2>2, <2>3
  <2>5. IsTaking(h, rows, batch, n)
    BY <2>4 DEF IsTaking
  <2> QED BY <2>5, <1>2
<1> QED BY <1>3, <1>4

LEMMA AppendedTakes ==
  ASSUME NEW rows, NEW batch, Len(batch) \in Nat
  PROVE  \E f : IsTaking(f, rows, batch, Len(batch)) /\ Appended(rows, batch) = f[Len(batch)]
<1> DEFINE g == CHOOSE f : IsTaking(f, rows, batch, Len(batch))
<1>1. \E f : IsTaking(f, rows, batch, Len(batch))
  BY TakingExists
<1>2. IsTaking(g, rows, batch, Len(batch))
  BY <1>1
<1>3. Appended(rows, batch) = g[Len(batch)]
  BY DEF Appended, IsTaking
<1> QED BY <1>2, <1>3

LEMMA TakeUnfold ==
  ASSUME NEW N \in Nat, NEW f, NEW rows, NEW batch, IsTaking(f, rows, batch, N)
  PROVE  /\ f[0] = rows
         /\ \A n \in 1 .. N : n - 1 \in 0 .. N /\ f[n] = Taken(f[n - 1], batch[n])
BY DEF IsTaking

LEMMA AppendNothing ==
  ASSUME NEW rows
  PROVE  Appended(rows, <<>>) = rows
<1>1. Len(<<>>) = 0 /\ Len(<<>>) \in Nat
  OBVIOUS
<1>2. PICK f : IsTaking(f, rows, <<>>, Len(<<>>)) /\ Appended(rows, <<>>) = f[Len(<<>>)]
  BY <1>1, AppendedTakes
<1> QED BY <1>1, <1>2, TakeUnfold

(* Two batches one after the other are one. *)
LEMMA AppendTwice ==
  ASSUME NEW rows, NEW S, NEW a \in Seq(S), NEW b \in Seq(S)
  PROVE  Appended(rows, a \o b) = Appended(Appended(rows, a), b)
<1> DEFINE N == Len(a) + Len(b)
<1> DEFINE c == a \o b
<1>1. /\ Len(a) \in Nat /\ Len(b) \in Nat /\ Len(c) = N /\ Len(c) \in Nat
      /\ \A n \in 1 .. Len(a) : c[n] = a[n]
      /\ \A n \in 1 .. Len(b) : c[Len(a) + n] = b[n]
  OBVIOUS
<1> HIDE DEF c
<1>2. PICK f : /\ IsTaking(f, rows, c, Len(c))
               /\ Appended(rows, c) = f[Len(c)]
  BY <1>1, AppendedTakes
<1>3. PICK g : IsTaking(g, rows, a, Len(a)) /\ Appended(rows, a) = g[Len(a)]
  BY <1>1, AppendedTakes
<1>4. PICK h : /\ IsTaking(h, Appended(rows, a), b, Len(b))
               /\ Appended(Appended(rows, a), b) = h[Len(b)]
  BY <1>1, AppendedTakes
<1>5. /\ f[0] = rows /\ g[0] = rows /\ h[0] = g[Len(a)]
      /\ \A n \in 1 .. N : f[n] = Taken(f[n - 1], c[n])
      /\ \A n \in 1 .. Len(a) : g[n] = Taken(g[n - 1], a[n])
      /\ \A n \in 1 .. Len(b) : h[n] = Taken(h[n - 1], b[n])
  <2>1. f[0] = rows /\ \A n \in 1 .. Len(c) : f[n] = Taken(f[n - 1], c[n])
    <3>1. Len(c) \in Nat
      BY <1>1
    <3> QED BY <3>1, <1>2, TakeUnfold
  <2>2. g[0] = rows /\ \A n \in 1 .. Len(a) : g[n] = Taken(g[n - 1], a[n])
    <3>1. Len(a) \in Nat
      BY <1>1
    <3> QED BY <3>1, <1>3, TakeUnfold
  <2>3. /\ h[0] = Appended(rows, a)
        /\ \A n \in 1 .. Len(b) : h[n] = Taken(h[n - 1], b[n])
    <3>1. Len(b) \in Nat
      BY <1>1
    <3> QED BY <3>1, <1>4, TakeUnfold
  <2> QED BY <1>1, <1>3, <2>1, <2>2, <2>3
<1>6. \A n \in 0 .. Len(a) : f[n] = g[n]
  <2> DEFINE Bad == {n \in 0 .. Len(a) : f[n] # g[n]}
  <2>1. SUFFICES ASSUME Bad # {} PROVE FALSE
    OBVIOUS
  <2>2. PICK n \in Bad : \A k \in Bad : n <= k
    BY <1>1, <2>1, LeastNat, Bad \subseteq Nat
  <2>3. n # 0
    BY <1>5, <2>2
  <2>4. n \in 1 .. Len(a) /\ n \in 1 .. N /\ n - 1 \in 0 .. Len(a) /\ n - 1 < n
    BY <1>1, <2>2, <2>3
  <2>5. f[n - 1] = g[n - 1]
    BY <2>2, <2>4
  <2> QED BY <1>1, <1>5, <2>2, <2>4, <2>5
<1>7. \A n \in 0 .. Len(b) : f[Len(a) + n] = h[n]
  <2> DEFINE Bad == {n \in 0 .. Len(b) : f[Len(a) + n] # h[n]}
  <2>1. SUFFICES ASSUME Bad # {} PROVE FALSE
    OBVIOUS
  <2>2. PICK n \in Bad : \A k \in Bad : n <= k
    BY <1>1, <2>1, LeastNat, Bad \subseteq Nat
  <2>3. n # 0
    BY <1>1, <1>5, <1>6, <2>2
  <2>4. /\ n \in 1 .. Len(b) /\ Len(a) + n \in 1 .. N /\ n - 1 \in 0 .. Len(b) /\ n - 1 < n
        /\ Len(a) + n - 1 = Len(a) + (n - 1)
    BY <1>1, <2>2, <2>3
  <2>5. f[Len(a) + n - 1] = h[n - 1]
    BY <2>2, <2>4
  <2> QED BY <1>1, <1>5, <2>2, <2>4, <2>5
<1>8. f[N] = h[Len(b)]
  BY <1>1, <1>7
<1> QED BY <1>1, <1>2, <1>4, <1>8 DEF c

-----------------------------------------------------------------------------
(* Cutting sequences. *)

LEMMA CutSeq ==
  ASSUME NEW S, NEW s \in Seq(S), NEW m \in Nat, NEW n \in Nat, m <= n, n <= Len(s)
  PROVE  /\ SubSeq(s, m + 1, n) \in Seq(S)
         /\ Len(SubSeq(s, m + 1, n)) = n - m
         /\ \A i \in 1 .. n - m : SubSeq(s, m + 1, n)[i] = s[m + i]
OBVIOUS

LEMMA PrefixSeq ==
  ASSUME NEW S, NEW s \in Seq(S), NEW n \in Nat, n <= Len(s)
  PROVE  /\ SubSeq(s, 1, n) \in Seq(S)
         /\ Len(SubSeq(s, 1, n)) = n
         /\ \A i \in 1 .. n : SubSeq(s, 1, n)[i] = s[i]
OBVIOUS

(* Two cuts of one sequence that end at the same place are the same.       *)
LEMMA CutOneMore ==
  ASSUME NEW S, NEW s \in Seq(S), NEW n \in 1 .. Len(s)
  PROVE  Append(SubSeq(s, 1, n - 1), s[n]) = SubSeq(s, 1, n)
<1>1. 1 \in 1 .. Len(s) /\ n \in 1 .. Len(s) /\ s[n] \in S /\ n - 1 \in Nat /\ n - 1 <= Len(s)
  OBVIOUS
<1>2. SubSeq(s, 1, n - 1) \in Seq(S)
  BY <1>1, PrefixSeq
<1>3. SubSeq(s, 1, n) = SubSeq(s, 1, n - 1) \o <<s[n]>>
  BY <1>1, SubSeqRecursiveSecond
<1>4. Append(SubSeq(s, 1, n - 1), s[n]) = SubSeq(s, 1, n - 1) \o <<s[n]>>
  BY <1>1, <1>2, AppendIsConcat
<1> QED BY <1>3, <1>4

(* A trade that is there is not taken again, one that is not there is.     *)
LEMMA TakenAgain ==
  ASSUME NEW rows, NEW line, NEW n \in DOMAIN rows, rows[n] = line
  PROVE  Taken(rows, line) = rows
BY DEF Taken, SameTrade

LEMMA TakenNew ==
  ASSUME NEW rows, NEW line, line # Unreadable,
         \A n \in DOMAIN rows : ~ SameTrade(rows[n], line)
  PROVE  Taken(rows, line) = Append(rows, line)
BY DEF Taken

(* Appending a stretch of a sequence of distinct trades to a beginning of  *)
(* it that the stretch overlaps or meets gives the longer beginning.       *)
LEMMA AppendStretch ==
  ASSUME NEW S, NEW s \in Seq(S), Unreadable \notin S, Contract!Distinct(s),
         NEW p \in 0 .. Len(s), NEW m \in 0 .. p, NEW w \in m .. Len(s)
  PROVE  Appended(SubSeq(s, 1, p), SubSeq(s, m + 1, w)) = SubSeq(s, 1, IF p > w THEN p ELSE w)
<1> DEFINE b == SubSeq(s, m + 1, w)
<1> DEFINE r == SubSeq(s, 1, p)
<1> DEFINE till(n) == IF p > n THEN p ELSE n
<1>1. /\ Len(s) \in Nat /\ p \in Nat /\ m \in Nat /\ w \in Nat /\ m <= w /\ w <= Len(s)
      /\ m <= p /\ p <= Len(s)
  OBVIOUS
<1>2. /\ Len(b) = w - m /\ Len(b) \in Nat
      /\ \A i \in 1 .. w - m : b[i] = s[m + i]
  BY <1>1, CutSeq
<1> HIDE DEF b, r
<1>3. PICK f : /\ IsTaking(f, r, b, Len(b))
               /\ Appended(r, b) = f[Len(b)]
  BY <1>2, AppendedTakes
<1>4. /\ f[0] = r
      /\ \A n \in 1 .. Len(b) : f[n] = Taken(f[n - 1], b[n])
  <2>1. Len(b) \in Nat
    BY <1>2
  <2> QED BY <2>1, <1>3, TakeUnfold
<1>5. \A n \in 0 .. w - m : f[n] = SubSeq(s, 1, till(m + n))
  <2> DEFINE Bad == {n \in 0 .. w - m : f[n] # SubSeq(s, 1, till(m + n))}
  <2>1. SUFFICES ASSUME Bad # {} PROVE FALSE
    OBVIOUS
  <2>2. PICK n \in Bad : \A k \in Bad : n <= k
    <3>1. Bad \subseteq Nat
      BY <1>1
    <3> QED BY <2>1, <3>1, LeastNat
  <2>3. n # 0
    <3>1. till(m + 0) = p
      BY <1>1
    <3> QED BY <1>4, <2>2, <3>1 DEF r
  <2>4. /\ n \in 1 .. w - m /\ n \in 1 .. Len(b) /\ n - 1 \in 0 .. w - m /\ n - 1 < n
        /\ n \in Nat /\ m + n \in 1 .. Len(s) /\ m + (n - 1) = m + n - 1
    BY <1>1, <1>2, <2>2, <2>3
  <2>5. f[n - 1] = SubSeq(s, 1, till(m + n - 1))
    BY <2>2, <2>4
  <2>6. f[n] = Taken(f[n - 1], s[m + n])
    BY <1>2, <1>4, <2>4
  <2>7. s[m + n] \in S /\ s[m + n] # Unreadable
    BY <2>4
  <2>8. CASE m + n <= p
    <3>1. till(m + n - 1) = p /\ till(m + n) = p
      BY <1>1, <2>4, <2>8
    <3>2. m + n \in DOMAIN SubSeq(s, 1, p) /\ SubSeq(s, 1, p)[m + n] = s[m + n]
      BY <1>1, <2>4, <2>8, PrefixSeq
    <3>3. Taken(SubSeq(s, 1, p), s[m + n]) = SubSeq(s, 1, p)
      BY <3>2, TakenAgain
    <3> QED BY <2>2, <2>5, <2>6, <3>1, <3>3
  <2>9. CASE m + n > p
    <3> DEFINE q == m + n - 1
    <3>1. till(m + n - 1) = q /\ till(m + n) = m + n /\ q \in Nat /\ q <= Len(s)
      BY <1>1, <2>4, <2>9
    <3>2. DOMAIN SubSeq(s, 1, q) = 1 .. q /\ \A i \in 1 .. q : SubSeq(s, 1, q)[i] = s[i]
      BY <3>1, PrefixSeq
    <3>3. \A i \in 1 .. q : ~ SameTrade(s[i], s[m + n])
      BY <1>1, <2>4 DEF Contract!Distinct
    <3>4. Taken(SubSeq(s, 1, q), s[m + n]) = Append(SubSeq(s, 1, q), s[m + n])
      BY <2>7, <3>2, <3>3, TakenNew
    <3>5. Append(SubSeq(s, 1, q), s[m + n]) = SubSeq(s, 1, m + n)
      BY <2>4, CutOneMore
    <3> QED BY <2>2, <2>5, <2>6, <3>1, <3>4, <3>5
  <2> QED BY <1>1, <2>4, <2>8, <2>9
<1>6. w - m \in 0 .. w - m /\ m + (w - m) = w
  BY <1>1
<1>7. f[w - m] = SubSeq(s, 1, till(w))
  BY <1>5, <1>6
<1> QED BY <1>2, <1>3, <1>7 DEF b, r

LEMMA CutOfCut ==
  ASSUME NEW S, NEW s \in Seq(S), NEW n \in 0 .. Len(s), NEW m \in 0 .. n
  PROVE  SubSeq(SubSeq(s, 1, n), 1, m) = SubSeq(s, 1, m)
<1>1. n \in Nat /\ m \in Nat /\ m <= n /\ n <= Len(s) /\ m <= Len(s)
  OBVIOUS
<1> DEFINE t == SubSeq(s, 1, n)
<1>2. t \in Seq(S) /\ Len(t) = n /\ \A i \in 1 .. n : t[i] = s[i]
  BY <1>1, PrefixSeq
<1> HIDE DEF t
<1>3. /\ SubSeq(t, 1, m) \in Seq(S) /\ Len(SubSeq(t, 1, m)) = m
      /\ \A i \in 1 .. m : SubSeq(t, 1, m)[i] = t[i]
  BY <1>1, <1>2, PrefixSeq
<1>4. /\ SubSeq(s, 1, m) \in Seq(S) /\ Len(SubSeq(s, 1, m)) = m
      /\ \A i \in 1 .. m : SubSeq(s, 1, m)[i] = s[i]
  BY <1>1, PrefixSeq
<1>5. \A i \in 1 .. m : SubSeq(t, 1, m)[i] = SubSeq(s, 1, m)[i]
  BY <1>1, <1>2, <1>3, <1>4
<1>6. SubSeq(t, 1, m) = SubSeq(s, 1, m)
  BY <1>3, <1>4, <1>5, SeqEqual
<1> QED BY <1>6 DEF t

LEMMA CutsArePrefixes ==
  ASSUME NEW S, NEW s \in Seq(S), NEW n \in 0 .. Len(s), NEW m \in 0 .. n
  PROVE  IsPrefix(SubSeq(s, 1, m), SubSeq(s, 1, n))
<1>1. n \in Nat /\ m \in Nat /\ m <= n /\ n <= Len(s) /\ m <= Len(s) /\ m \in 0 .. m /\ m \in 0 .. Len(s)
  OBVIOUS
<1>2. Len(SubSeq(s, 1, m)) = m /\ Len(SubSeq(s, 1, n)) = n
  BY <1>1, PrefixSeq
<1>3. SubSeq(SubSeq(s, 1, m), 1, m) = SubSeq(s, 1, m) /\ SubSeq(SubSeq(s, 1, n), 1, m) = SubSeq(s, 1, m)
  BY <1>1, CutOfCut
<1> QED BY <1>1, <1>2, <1>3 DEF IsPrefix

LEMMA PrefixOfItself ==
  ASSUME NEW S, NEW s \in Seq(S)
  PROVE  IsPrefix(s, s)
<1>1. Len(s) \in Nat
  OBVIOUS
<1> QED BY <1>1 DEF IsPrefix

(* Of two sequences, the first whole and a beginning of the second are a   *)
(* beginning of the two together.                                          *)
LEMMA CutsOfTwo ==
  ASSUME NEW S, NEW a \in Seq(S), NEW b \in Seq(S), NEW k \in 0 .. Len(b)
  PROVE  /\ a \o b \in Seq(S) /\ Len(a \o b) = Len(a) + Len(b)
         /\ a = SubSeq(a \o b, 1, Len(a))
         /\ SubSeq(b, 1, k) = SubSeq(a \o b, Len(a) + 1, Len(a) + k)
<1> DEFINE c == a \o b
<1> DEFINE m == Len(a)
<1> DEFINE l == Len(b)
<1>1. m \in Nat /\ l \in Nat /\ k \in Nat /\ k <= l
  OBVIOUS
<1>2. /\ c \in Seq(S) /\ Len(c) = m + l
      /\ \A i \in 1 .. m : c[i] = a[i]
      /\ \A i \in 1 .. l : c[m + i] = b[i]
  OBVIOUS
<1> HIDE DEF c
<1>3. a = SubSeq(c, 1, m)
  <2>1. /\ SubSeq(c, 1, m) \in Seq(S) /\ Len(SubSeq(c, 1, m)) = m
        /\ \A i \in 1 .. m : SubSeq(c, 1, m)[i] = c[i]
    BY <1>1, <1>2, PrefixSeq
  <2> QED BY <1>2, <2>1, SeqEqual
<1>4. SubSeq(b, 1, k) = SubSeq(c, m + 1, m + k)
  <2>1. /\ SubSeq(b, 1, k) \in Seq(S) /\ Len(SubSeq(b, 1, k)) = k
        /\ \A i \in 1 .. k : SubSeq(b, 1, k)[i] = b[i]
    BY <1>1, PrefixSeq
  <2>2. m + k \in Nat /\ m <= m + k /\ m + k <= Len(c) /\ m + k - m = k
    BY <1>1, <1>2
  <2>3. /\ SubSeq(c, m + 1, m + k) \in Seq(S) /\ Len(SubSeq(c, m + 1, m + k)) = k
        /\ \A i \in 1 .. k : SubSeq(c, m + 1, m + k)[i] = c[m + i]
    <3> DEFINE w == m + k
    <3>1. m \in Nat /\ w \in Nat /\ m <= w /\ w <= Len(c) /\ c \in Seq(S)
      BY <1>1, <1>2, <2>2
    <3>2. w - m = k
      BY <2>2
    <3> HIDE DEF w, m
    <3>3. /\ SubSeq(c, m + 1, w) \in Seq(S) /\ Len(SubSeq(c, m + 1, w)) = w - m
          /\ \A i \in 1 .. w - m : SubSeq(c, m + 1, w)[i] = c[m + i]
      BY <3>1, CutSeq
    <3> QED BY <3>2, <3>3 DEF w
  <2>4. \A i \in 1 .. k : SubSeq(b, 1, k)[i] = SubSeq(c, m + 1, m + k)[i]
    BY <1>1, <1>2, <2>1, <2>3
  <2> QED BY <2>1, <2>3, <2>4, SeqEqual
<1> QED BY <1>2, <1>3, <1>4 DEF c

(* Cutting the second of two, and joining what was cut again.              *)
LEMMA CutAndRest ==
  ASSUME NEW S, NEW a \in Seq(S), NEW b \in Seq(S), NEW k \in 0 .. Len(b)
  PROVE  SubSeq(a \o b, 1, Len(a) + k) \o SubSeq(b, k + 1, Len(b)) = a \o b
<1> DEFINE c == a \o b
<1> DEFINE m == Len(a)
<1> DEFINE l == Len(b)
<1>1. m \in Nat /\ l \in Nat /\ k \in Nat /\ k <= l
  OBVIOUS
<1>2. /\ c \in Seq(S) /\ Len(c) = m + l
      /\ \A i \in 1 .. m : c[i] = a[i]
      /\ \A i \in 1 .. l : c[m + i] = b[i]
  OBVIOUS
<1> HIDE DEF c
<1>3. SubSeq(c, 1, m + k) \o SubSeq(b, k + 1, l) = c
  <2> DEFINE x == SubSeq(c, 1, m + k)
  <2> DEFINE y == SubSeq(b, k + 1, l)
  <2>1. /\ x \in Seq(S) /\ Len(x) = m + k /\ \A i \in 1 .. m + k : x[i] = c[i]
    <3>1. m + k \in Nat /\ m + k <= Len(c)
      BY <1>1, <1>2
    <3> QED BY <1>2, <3>1, PrefixSeq
  <2>2. /\ y \in Seq(S) /\ Len(y) = l - k /\ \A i \in 1 .. l - k : y[i] = b[k + i]
    BY <1>1, CutSeq
  <2> HIDE DEF x, y
  <2>3. /\ x \o y \in Seq(S) /\ Len(x \o y) = m + l
        /\ \A i \in 1 .. m + l : (x \o y)[i] = IF i <= m + k THEN x[i] ELSE y[i - (m + k)]
    <3>1. /\ x \o y \in Seq(S) /\ Len(x \o y) = Len(x) + Len(y)
          /\ \A i \in 1 .. Len(x) + Len(y) :
               (x \o y)[i] = IF i <= Len(x) THEN x[i] ELSE y[i - Len(x)]
      BY <2>1, <2>2, ConcatProperties
    <3>2. Len(x) = m + k /\ Len(x) + Len(y) = m + l
      BY <1>1, <2>1, <2>2
    <3> QED BY <3>1, <3>2
  <2>4. ASSUME NEW i \in 1 .. m + l PROVE (x \o y)[i] = c[i]
    <3>1. CASE i <= m + k
      BY <1>1, <2>1, <2>3, <3>1
    <3>2. CASE i > m + k
      <4>1. /\ i - (m + k) \in 1 .. l - k /\ k + (i - (m + k)) = i - m
            /\ i - m \in 1 .. l /\ m + (i - m) = i
        BY <1>1, <3>2
      <4>2. y[i - (m + k)] = b[i - m] /\ c[i] = b[i - m]
        BY <1>2, <2>2, <4>1
      <4> QED BY <1>1, <2>3, <3>2, <4>2
    <3>3. i <= m + k \/ i > m + k
      BY <1>1
    <3> QED BY <3>1, <3>2, <3>3
  <2>5. x \o y = c
    BY <1>2, <2>3, <2>4, SeqEqual
  <2> QED BY <2>5 DEF x, y
<1> QED BY <1>3 DEF c

LEMMA RangeOfCut ==
  ASSUME NEW S, NEW s \in Seq(S), NEW n \in 0 .. Len(s), NEW m \in 0 .. n
  PROVE  /\ Range(SubSeq(s, 1, n)) \subseteq Range(s)
         /\ Range(SubSeq(s, 1, m)) \subseteq Range(SubSeq(s, 1, n))
<1>1. n \in Nat /\ m \in Nat /\ m <= n /\ n <= Len(s) /\ m <= Len(s)
  OBVIOUS
<1>2. DOMAIN SubSeq(s, 1, n) = 1 .. n /\ \A i \in 1 .. n : SubSeq(s, 1, n)[i] = s[i]
  BY <1>1, PrefixSeq
<1>3. DOMAIN SubSeq(s, 1, m) = 1 .. m /\ \A i \in 1 .. m : SubSeq(s, 1, m)[i] = s[i]
  BY <1>1, PrefixSeq
<1>4. 1 .. m \subseteq 1 .. n /\ 1 .. n \subseteq DOMAIN s
  BY <1>1
<1> HIDE DEF Range
<1>5. \A t \in Range(SubSeq(s, 1, n)) : t \in Range(s)
  BY <1>2, <1>4 DEF Range
<1>6. \A t \in Range(SubSeq(s, 1, m)) : t \in Range(SubSeq(s, 1, n))
  BY <1>2, <1>3, <1>4 DEF Range
<1> QED BY <1>5, <1>6

-----------------------------------------------------------------------------
(* Rows in order, cut at a slot. *)

LEMMA FillsAreReadable ==
  ASSUME NEW t \in Fill
  PROVE  /\ t.slot \in Nat /\ t.slot \in 1 .. MaxSlot /\ t.slot >= 1
         /\ t.signature \in Nat /\ t.order \in Nat
         /\ t # Unreadable
<1>1. /\ t.slot \in 1 .. MaxSlot /\ t.signature \in Nat /\ t.order \in Nat
  BY DEF Fill
<1>2. Unreadable.slot = 0
  BY DEF Unreadable
<1> QED BY <1>1, <1>2, FileStoreAssumption

LEMMA InOrderAreDistinct ==
  ASSUME NEW s \in Seq(Fill), InOrder(s)
  PROVE  Contract!Distinct(s)
<1>1. SUFFICES ASSUME NEW i \in DOMAIN s, NEW j \in DOMAIN s, i # j
               PROVE  ~ SameTrade(s[i], s[j])
  BY DEF Contract!Distinct
<1>2. i \in Nat /\ j \in Nat /\ s[i] \in Fill /\ s[j] \in Fill
  OBVIOUS
<1>3. /\ s[i].signature \in Nat /\ s[i].order \in Nat
      /\ s[j].signature \in Nat /\ s[j].order \in Nat
  BY <1>2, FillsAreReadable
<1>4. Before(s[i], s[j]) \/ Before(s[j], s[i])
  BY <1>1, <1>2 DEF InOrder
<1> QED BY <1>3, <1>4 DEF Before, SameTrade

LEMMA CutInOrder ==
  ASSUME NEW S, NEW s \in Seq(S), InOrder(s), NEW m \in Nat, NEW n \in Nat, m <= n, n <= Len(s)
  PROVE  InOrder(SubSeq(s, m + 1, n))
<1> DEFINE c == SubSeq(s, m + 1, n)
<1>1. DOMAIN c = 1 .. n - m /\ \A i \in 1 .. n - m : c[i] = s[m + i]
  BY CutSeq
<1> HIDE DEF c
<1>2. ASSUME NEW i \in 1 .. n - m, NEW j \in 1 .. n - m, i < j PROVE Before(c[i], c[j])
  <2>1. m + i \in DOMAIN s /\ m + j \in DOMAIN s /\ m + i < m + j
    BY <1>2
  <2> QED BY <1>1, <2>1 DEF InOrder
<1>3. InOrder(c)
  BY <1>1, <1>2 DEF InOrder
<1> QED BY <1>3 DEF c

LEMMA PrefixInOrder ==
  ASSUME NEW S, NEW s \in Seq(S), InOrder(s), NEW n \in 0 .. Len(s)
  PROVE  InOrder(SubSeq(s, 1, n))
<1>1. 0 \in Nat /\ n \in Nat /\ 0 <= n /\ n <= Len(s) /\ 0 + 1 = 1
  OBVIOUS
<1>2. InOrder(SubSeq(s, 0 + 1, n))
  BY <1>1, CutInOrder
<1> QED BY <1>1, <1>2

(* n of the rows are those of slots up to the given one.                   *)
CutsAt(rows, slot, n) == \A i \in DOMAIN rows : i <= n <=> rows[i].slot <= slot

LEMMA ThroughCuts ==
  ASSUME NEW rows \in Seq(Fill), InOrder(rows), NEW slot \in Nat
  PROVE  Through(rows, slot) \in 0 .. Len(rows) /\ CutsAt(rows, slot, Through(rows, slot))
<1>1. \A i \in DOMAIN rows : rows[i].slot \in Nat
  BY FillsAreReadable
<1>2. Len(rows) \in Nat /\ DOMAIN rows = 1 .. Len(rows)
  OBVIOUS
<1>3. \E n \in 0 .. Len(rows) : CutsAt(rows, slot, n)
  <2> DEFINE Late == {i \in DOMAIN rows : rows[i].slot > slot}
  <2>1. CASE Late = {}
    <3>1. CutsAt(rows, slot, Len(rows))
      BY <1>1, <1>2, <2>1 DEF CutsAt
    <3> QED BY <1>2, <3>1
  <2>2. CASE Late # {}
    <3>1. Late \subseteq Nat
      BY <1>2
    <3>2. PICK k \in Late : \A j \in Late : k <= j
      BY <2>2, <3>1, LeastNat
    <3>3. k \in 1 .. Len(rows) /\ k - 1 \in 0 .. Len(rows)
      BY <1>2
    <3>4. ASSUME NEW i \in DOMAIN rows PROVE i <= k - 1 <=> rows[i].slot <= slot
      <4>1. CASE i < k
        <5>1. i \notin Late
          BY <1>2, <3>2, <3>3, <4>1
        <5> QED BY <1>1, <1>2, <3>3, <4>1, <5>1
      <4>2. CASE i = k
        BY <1>1, <1>2, <3>3, <4>2
      <4>3. CASE k < i
        <5>1. rows[k].slot <= rows[i].slot
          BY <1>2, <3>3, <4>3 DEF InOrder, Before
        <5>2. rows[k].slot \in Nat /\ rows[i].slot \in Nat /\ rows[k].slot > slot
          BY <1>1
        <5> QED BY <1>2, <3>3, <4>3, <5>1, <5>2
      <4> QED BY <1>2, <3>3, <4>1, <4>2, <4>3
    <3>5. CutsAt(rows, slot, k - 1)
      BY <3>4 DEF CutsAt
    <3> QED BY <3>3, <3>5
  <2> QED BY <2>1, <2>2
<1>4. Through(rows, slot) = CHOOSE n \in 0 .. Len(rows) : CutsAt(rows, slot, n)
  BY DEF Through, CutsAt
<1> HIDE DEF CutsAt
<1> QED BY <1>3, <1>4

LEMMA ThroughIs ==
  ASSUME NEW rows \in Seq(Fill), InOrder(rows), NEW slot \in Nat,
         NEW n \in 0 .. Len(rows), CutsAt(rows, slot, n)
  PROVE  Through(rows, slot) = n
<1> DEFINE k == Through(rows, slot)
<1>1. k \in 0 .. Len(rows) /\ CutsAt(rows, slot, k)
  BY ThroughCuts
<1> HIDE DEF k
<1>2. \A i \in 1 .. Len(rows) : i <= k <=> i <= n
  BY <1>1 DEF CutsAt
<1>3. k = n
  <2>1. CASE k < n
    <3>1. n \in 1 .. Len(rows)
      BY <1>1, <2>1
    <3> QED BY <1>1, <1>2, <2>1, <3>1
  <2>2. CASE n < k
    <3>1. k \in 1 .. Len(rows)
      BY <1>1, <2>2
    <3> QED BY <1>1, <1>2, <2>2, <3>1
  <2> QED BY <1>1, <2>1, <2>2
<1> QED BY <1>3 DEF k

LEMMA HighestBounds ==
  ASSUME NEW rows \in Seq(Fill), InOrder(rows)
  PROVE  /\ Highest(rows) \in 0 .. MaxSlot
         /\ \A i \in DOMAIN rows : rows[i].slot <= Highest(rows)
         /\ rows # <<>> => /\ Len(rows) \in DOMAIN rows
                           /\ Highest(rows) = rows[Len(rows)].slot
<1>1. MaxSlot \in Nat /\ Len(rows) \in Nat /\ DOMAIN rows = 1 .. Len(rows)
  BY FileStoreAssumption
<1>2. \A i \in DOMAIN rows : rows[i].slot \in Nat /\ rows[i].slot \in 1 .. MaxSlot
  BY FillsAreReadable
<1>3. CASE rows = <<>>
  BY <1>1, <1>3 DEF Highest
<1>4. CASE rows # <<>>
  <2> DEFINE l == Len(rows)
  <2>1. l \in 1 .. Len(rows)
    BY <1>1, <1>4
  <2>2. \A i \in DOMAIN rows : rows[i].slot <= rows[l].slot
    <3>1. TAKE i \in DOMAIN rows
    <3>2. CASE i = l
      BY <1>2, <3>2
    <3>3. CASE i # l
      BY <1>1, <2>1, <3>3 DEF InOrder, Before
    <3> QED BY <3>2, <3>3
  <2>3. rows[l].slot \in Slots(rows) /\ \A r \in Slots(rows) : r <= rows[l].slot /\ r \in Nat
    BY <1>1, <1>2, <2>1, <2>2 DEF Slots
  <2>4. Highest(rows) = CHOOSE s \in Slots(rows) : \A r \in Slots(rows) : r <= s
    BY <1>4 DEF Highest
  <2>5. Highest(rows) \in Slots(rows) /\ \A r \in Slots(rows) : r <= Highest(rows)
    BY <2>3, <2>4
  <2>6. Highest(rows) = rows[l].slot
    BY <2>3, <2>5
  <2> QED BY <1>1, <1>2, <2>1, <2>2, <2>6
<1> QED BY <1>3, <1>4

-----------------------------------------------------------------------------
(* Writing and remembering. *)

(* Memory takes the first of the rows that wait.                           *)
LEMMA RememberSome ==
  ASSUME NEW S, NEW a \in Seq(S), NEW b \in Seq(S), Unreadable \notin S,
         Contract!Distinct(a \o b), NEW j \in 0 .. Len(b)
  PROVE  /\ Appended(a, SubSeq(b, 1, j)) = SubSeq(a \o b, 1, Len(a) + j)
         /\ Appended(a, SubSeq(b, 1, j)) \o SubSeq(b, j + 1, Len(b)) = a \o b
<1> DEFINE s == a \o b
<1> DEFINE m == Len(a)
<1>1. m \in Nat /\ Len(b) \in Nat /\ j \in Nat /\ j <= Len(b)
  OBVIOUS
<1>2. /\ s \in Seq(S) /\ Len(s) = m + Len(b) /\ a = SubSeq(s, 1, m)
      /\ SubSeq(b, 1, j) = SubSeq(s, m + 1, m + j)
      /\ SubSeq(s, 1, m + j) \o SubSeq(b, j + 1, Len(b)) = s
  <2>1. s \in Seq(S) /\ Len(s) = m + Len(b)
    BY CutsOfTwo
  <2>2. a = SubSeq(s, 1, m)
    BY CutsOfTwo
  <2>3. SubSeq(b, 1, j) = SubSeq(s, m + 1, m + j)
    BY CutsOfTwo
  <2>4. SubSeq(s, 1, m + j) \o SubSeq(b, j + 1, Len(b)) = s
    BY CutAndRest
  <2> QED BY <2>1, <2>2, <2>3, <2>4
<1>3. m \in 0 .. Len(s) /\ m \in 0 .. m /\ m + j \in m .. Len(s)
  BY <1>1, <1>2
<1>4. Contract!Distinct(s)
  OBVIOUS
<1> HIDE DEF s, m
<1>5. Appended(SubSeq(s, 1, m), SubSeq(s, m + 1, m + j))
        = SubSeq(s, 1, IF m > m + j THEN m ELSE m + j)
  BY <1>2, <1>3, <1>4, AppendStretch
<1>6. (IF m > m + j THEN m ELSE m + j) = m + j
  BY <1>1
<1>7. Appended(a, SubSeq(b, 1, j)) = SubSeq(s, 1, m + j)
  BY <1>2, <1>5, <1>6
<1> QED BY <1>2, <1>7 DEF s, m

(* The file takes the first of the rows that wait, some of which it may    *)
(* hold already.                                                           *)
LEMMA WriteSome ==
  ASSUME NEW S, NEW a \in Seq(S), NEW b \in Seq(S), Unreadable \notin S,
         Contract!Distinct(a \o b), NEW j \in 0 .. Len(b),
         NEW d \in Seq(S), NEW n \in Len(a) .. Len(a \o b), Load(d) = SubSeq(a \o b, 1, n)
  PROVE  Load(d \o SubSeq(b, 1, j))
           = SubSeq(a \o b, 1, IF n > Len(a) + j THEN n ELSE Len(a) + j)
<1> DEFINE s == a \o b
<1> DEFINE m == Len(a)
<1> DEFINE c == SubSeq(b, 1, j)
<1>1. m \in Nat /\ Len(b) \in Nat /\ j \in Nat /\ j <= Len(b)
  OBVIOUS
<1>2. s \in Seq(S) /\ Len(s) = m + Len(b) /\ c = SubSeq(s, m + 1, m + j)
  BY CutsOfTwo
<1>3. c \in Seq(S)
  BY <1>1, PrefixSeq
<1>4. n \in 0 .. Len(s) /\ m \in 0 .. n /\ m + j \in m .. Len(s)
  BY <1>1, <1>2
<1>5. Contract!Distinct(s) /\ Load(d) = SubSeq(s, 1, n)
  OBVIOUS
<1> HIDE DEF s, m, c
<1>6. Appended(SubSeq(s, 1, n), SubSeq(s, m + 1, m + j))
        = SubSeq(s, 1, IF n > m + j THEN n ELSE m + j)
  BY <1>2, <1>4, <1>5, AppendStretch
<1>7. Load(d \o c) = Appended(Load(d), c)
  BY <1>3, AppendTwice DEF Load
<1>8. Load(d \o c) = SubSeq(s, 1, IF n > m + j THEN n ELSE m + j)
  BY <1>2, <1>5, <1>6, <1>7
<1> QED BY <1>8 DEF s, m, c

(* What lines added to a file whose last line is whole make of it.         *)
LEMMA JoinedCuts ==
  ASSUME NEW S, disk \in Seq(S), ~ open, NEW lines \in Seq(S)
  PROVE  Joined(lines) = disk \o lines
BY DEF Joined

(* A write that did not succeed and did not tear a line left the first     *)
(* rows of the batch.                                                      *)
LEMMA WholeLeavings ==
  ASSUME NEW S, disk \in Seq(S), ~ open, NEW b \in Seq(S), NEW k \in 0 .. Len(b),
         NEW left \in Leavings(SubSeq(b, 1, k)), ~ left.open
  PROVE  \E j \in 0 .. k : left.disk = disk \o SubSeq(b, 1, j)
<1> DEFINE c == SubSeq(b, 1, k)
<1>1. k \in Nat /\ k <= Len(b) /\ c \in Seq(S) /\ Len(c) = k
  <2>1. k \in Nat /\ k <= Len(b)
    OBVIOUS
  <2> QED BY <2>1, PrefixSeq
<1>2. 0 \in 0 .. k /\ k \in 0 .. k /\ 0 \in Nat /\ 0 <= Len(b)
  BY <1>1
<1>3. SubSeq(b, 1, 0) = <<>>
  <2>1. SubSeq(b, 1, 0) \in Seq(S) /\ Len(SubSeq(b, 1, 0)) = 0
    BY <1>2, PrefixSeq
  <2> QED BY <2>1
<1>4. disk \o SubSeq(b, 1, 0) = disk
  BY <1>3
<1>5. Joined(c) = disk \o c
  BY <1>1, JoinedCuts
<1>6. \A n \in 1 .. k : Joined(SubSeq(c, 1, n)) = disk \o SubSeq(b, 1, n)
  <2>1. TAKE n \in 1 .. k
  <2>2. n \in Nat /\ n <= Len(b) /\ n \in 0 .. k
    BY <1>1
  <2>3. SubSeq(b, 1, n) \in Seq(S)
    BY <2>2, PrefixSeq
  <2>4. SubSeq(c, 1, n) = SubSeq(b, 1, n)
    BY <2>2, CutOfCut
  <2>5. Joined(SubSeq(b, 1, n)) = disk \o SubSeq(b, 1, n)
    BY <2>3, JoinedCuts
  <2> QED BY <2>4, <2>5
<1> HIDE DEF c
<1>7. \/ left = [disk |-> disk, open |-> open]
      \/ left = [disk |-> Joined(c), open |-> FALSE]
      \/ \E n \in 1 .. Len(c) :
           \/ left = [disk |-> Joined(SubSeq(c, 1, n)), open |-> FALSE]
           \/ left = [disk |-> Joined(SubSeq(c, 1, n)), open |-> TRUE]
           \/ left = [disk |-> Joined(SubSeq(c, 1, n - 1) \o <<Unreadable>>), open |-> TRUE]
  <2>1. left \in Leavings(c)
    BY DEF c
  <2> QED BY <2>1 DEF Leavings
<1>8. CASE left = [disk |-> disk, open |-> open]
  <2>1. left.disk = disk
    BY <1>8
  <2> QED BY <1>2, <1>4, <2>1
<1>9. CASE left = [disk |-> Joined(c), open |-> FALSE]
  <2>1. left.disk = disk \o SubSeq(b, 1, k)
    BY <1>5, <1>9 DEF c
  <2> QED BY <1>2, <2>1
<1>10. ASSUME NEW n \in 1 .. Len(c),
              \/ left = [disk |-> Joined(SubSeq(c, 1, n)), open |-> FALSE]
              \/ left = [disk |-> Joined(SubSeq(c, 1, n)), open |-> TRUE]
              \/ left = [disk |-> Joined(SubSeq(c, 1, n - 1) \o <<Unreadable>>), open |-> TRUE]
       PROVE  \E j \in 0 .. k : left.disk = disk \o SubSeq(b, 1, j)
  <2>1. left = [disk |-> Joined(SubSeq(c, 1, n)), open |-> FALSE]
    BY <1>10
  <2>2. n \in 1 .. k /\ n \in 0 .. k
    BY <1>1
  <2>3. left.disk = disk \o SubSeq(b, 1, n)
    BY <1>6, <2>1, <2>2
  <2> QED BY <2>2, <2>3
<1> QED BY <1>7, <1>8, <1>9, <1>10

(* And if writes are whole, all of them or none.                           *)
LEMMA AllOrNone ==
  ASSUME NEW S, disk \in Seq(S), ~ open, ~ Tears, NEW c \in Seq(S), NEW left \in Leavings(c)
  PROVE  ~ left.open /\ (left.disk = disk \/ left.disk = disk \o c)
<1>1. Joined(c) = disk \o c
  BY JoinedCuts
<1>2. left = [disk |-> disk, open |-> open] \/ left = [disk |-> Joined(c), open |-> FALSE]
  BY DEF Leavings
<1> QED BY <1>1, <1>2

(* The rows of a cut.                                                      *)
LEMMA RowsUpTo ==
  ASSUME NEW s \in Seq(Fill), InOrder(s), NEW slot \in Nat
  PROVE  Range(UpTo(s, slot)) = {t \in Range(s) : t.slot <= slot}
<1> DEFINE k == Through(s, slot)
<1>1. k \in 0 .. Len(s) /\ CutsAt(s, slot, k) /\ UpTo(s, slot) = SubSeq(s, 1, k)
  BY ThroughCuts DEF UpTo
<1> HIDE DEF k
<1>2. Len(s) \in Nat /\ DOMAIN s = 1 .. Len(s) /\ k \in Nat /\ k <= Len(s)
  BY <1>1
<1>3. DOMAIN UpTo(s, slot) = 1 .. k /\ \A i \in 1 .. k : UpTo(s, slot)[i] = s[i]
  BY <1>1, <1>2, PrefixSeq
<1>4. \A t : t \in Range(UpTo(s, slot)) <=> \E i \in 1 .. k : t = s[i]
  BY <1>3 DEF Range
<1>5. \A t : t \in Range(s) <=> \E i \in 1 .. Len(s) : t = s[i]
  BY <1>2 DEF Range
<1>6. \A i \in 1 .. Len(s) : i <= k <=> s[i].slot <= slot
  BY <1>1, <1>2 DEF CutsAt
<1>7. \A i : i \in 1 .. k <=> i \in 1 .. Len(s) /\ i <= k
  BY <1>2
<1>8. \A t : t \in Range(UpTo(s, slot)) <=> t \in Range(s) /\ t.slot <= slot
  BY <1>4, <1>5, <1>6, <1>7
<1> HIDE DEF Range
<1> QED BY <1>8

LEMMA RowsOfSeq ==
  ASSUME NEW S, NEW s \in Seq(S)
  PROVE  Range(s) \subseteq S /\ \A i \in DOMAIN s : s[i] \in Range(s)
BY DEF Range

-----------------------------------------------------------------------------
(* The invariant, and what it says of the rows at hand. *)

LEMMA StoreFacts ==
  ASSUME StoreInv
  PROVE  /\ Range(made) \subseteq Fill /\ Unreadable \notin Range(made)
         /\ memory \in Seq(Fill) /\ queue \in Seq(Fill) /\ disk \in Seq(Fill)
         /\ InHand \in Seq(Range(made)) /\ InHand \in Seq(Fill)
         /\ Len(InHand) = Len(memory) + Len(queue)
         /\ memory = SubSeq(InHand, 1, Len(memory))
         /\ Contract!Distinct(InHand)
         /\ InOrder(memory) /\ InOrder(queue)
<1> USE DEF StoreInv, ChainInv, ListsInv, FileInv
<1> DEFINE S == Range(made)
<1>1. S \subseteq Fill
  BY DEF Range
<1>2. Unreadable \notin S
  BY <1>1, FillsAreReadable
<1>3. memory \in Seq(S) /\ queue \in Seq(S) /\ disk \in Seq(S) /\ Seq(S) \subseteq Seq(Fill)
  BY <1>1
<1> HIDE DEF S
<1>4. /\ InHand \in Seq(S) /\ Len(InHand) = Len(memory) + Len(queue)
      /\ memory = SubSeq(InHand, 1, Len(memory))
      /\ queue = SubSeq(InHand, Len(memory) + 1, Len(memory) + Len(queue))
  <2>1. Len(queue) \in 0 .. Len(queue) /\ SubSeq(queue, 1, Len(queue)) = queue
    BY <1>3
  <2> QED BY <1>3, <2>1, CutsOfTwo DEF InHand
<1>5. InHand \in Seq(Fill) /\ Contract!Distinct(InHand)
  BY <1>3, <1>4, InOrderAreDistinct
<1>6. Len(memory) \in Nat /\ Len(queue) \in Nat /\ 0 + 1 = 1
  BY <1>3
<1>7. InOrder(memory)
  <2>1. Len(memory) \in 0 .. Len(InHand)
    BY <1>4, <1>6
  <2>2. InOrder(InHand)
    OBVIOUS
  <2>3. InOrder(SubSeq(InHand, 1, Len(memory)))
    BY <1>4, <2>1, <2>2, PrefixInOrder
  <2> QED BY <1>4, <2>3
<1>8. InOrder(queue)
  <2>1. InOrder(SubSeq(InHand, Len(memory) + 1, Len(memory) + Len(queue)))
    BY <1>4, <1>6, CutInOrder
  <2> QED BY <1>4, <2>1
<1> QED BY <1>1, <1>2, <1>3, <1>4, <1>5, <1>7, <1>8 DEF S

(* What a reader can be shown is rows of the chain.                        *)
LEMMA RowsAreMade ==
  ASSUME StoreInv
  PROVE  Rows \in Seq(Range(made)) /\ IsPrefix(Rows, Rows)
<1>1. up => memory \in Seq(Range(made))
  BY DEF StoreInv, ListsInv
<1>2. ~ up => Load(disk) \in Seq(Range(made))
  BY DEF StoreInv, FileInv
<1>3. Rows \in Seq(Range(made))
  BY <1>1, <1>2 DEF Rows
<1> QED BY <1>3, PrefixOfItself

LEMMA StoreInitially ==
  Init => StoreInv /\ ~ open
<1>1. SUFFICES ASSUME Init PROVE StoreInv /\ ~ open
  OBVIOUS
<1>2. made = <<>> /\ memory = <<>> /\ queue = <<>> /\ disk = <<>> /\ acked = {}
  BY <1>1 DEF Init
<1>3. InHand = <<>> /\ Len(InHand) = 0 /\ Len(memory) = 0
  BY <1>2 DEF InHand
<1>4. Load(disk) = <<>>
  BY <1>2, AppendNothing DEF Load
<1>5. SubSeq(InHand, 1, 0) = <<>>
  BY <1>3
<1>6. InOrder(<<>>)
  BY DEF InOrder
<1>7. MaxSlot \in Nat /\ NoCheckpoint = -1
  BY FileStoreAssumption DEF NoCheckpoint
<1>8. ChainInv
  <2>1. rooted = 0
    BY <1>1 DEF Init
  <2> QED BY <1>2, <1>6, <1>7, <2>1 DEF ChainInv
<1>9. PlacesInv
  <2>1. /\ derived = 0 /\ known = 0 /\ through = 0 /\ rooted = 0
        /\ noted = NoCheckpoint /\ checkpoint = NoCheckpoint /\ up = TRUE
    BY <1>1 DEF Init
  <2> QED BY <1>2, <1>7, <2>1 DEF PlacesInv
<1>10. ListsInv
  BY <1>2, <1>3, <1>6 DEF ListsInv
<1>11. FileInv
  <2>1. 0 \in Len(memory) .. Len(InHand) /\ Load(disk) = SubSeq(InHand, 1, 0)
    BY <1>3, <1>4, <1>5
  <2>2. disk \in Seq(Range(made)) /\ up = TRUE /\ acked = {}
    BY <1>1, <1>2 DEF Init
  <2> QED BY <2>1, <2>2 DEF FileInv
<1> QED BY <1>1, <1>8, <1>9, <1>10, <1>11 DEF StoreInv, Init

LEMMA AppendInOrder ==
  ASSUME NEW S, NEW s \in Seq(S), InOrder(s), NEW t, \A i \in DOMAIN s : Before(s[i], t)
  PROVE  InOrder(Append(s, t))
<1> DEFINE c == Append(s, t)
<1>1. /\ Len(s) \in Nat /\ DOMAIN s = 1 .. Len(s) /\ DOMAIN c = 1 .. Len(s) + 1
      /\ c[Len(s) + 1] = t /\ \A i \in 1 .. Len(s) : c[i] = s[i]
  OBVIOUS
<1> HIDE DEF c
<1>2. ASSUME NEW i \in 1 .. Len(s) + 1, NEW j \in 1 .. Len(s) + 1, i < j
      PROVE  Before(c[i], c[j])
  <2>1. i \in 1 .. Len(s)
    BY <1>1, <1>2
  <2>2. CASE j \in 1 .. Len(s)
    BY <1>1, <1>2, <2>1, <2>2 DEF InOrder
  <2>3. CASE j = Len(s) + 1
    BY <1>1, <2>1, <2>3
  <2> QED BY <1>1, <2>2, <2>3
<1>3. InOrder(c)
  BY <1>1, <1>2 DEF InOrder
<1> QED BY <1>3 DEF c

LEMMA AppendToTwo ==
  ASSUME NEW S, NEW a \in Seq(S), NEW b \in Seq(S), NEW t \in S, NEW n \in 0 .. Len(a \o b)
  PROVE  /\ a \o Append(b, t) = Append(a \o b, t)
         /\ SubSeq(a \o Append(b, t), 1, n) = SubSeq(a \o b, 1, n)
<1> DEFINE s == a \o b
<1>1. s \in Seq(S) /\ Len(s) = Len(a) + Len(b) /\ Len(s) \in Nat
  OBVIOUS
<1>2. a \o Append(b, t) = Append(s, t)
  <2>1. Append(b, t) = b \o <<t>> /\ Append(s, t) = s \o <<t>>
    BY <1>1, AppendIsConcat
  <2>2. <<t>> \in Seq(S)
    OBVIOUS
  <2>3. a \o (b \o <<t>>) = (a \o b) \o <<t>>
    BY <2>2, ConcatAssociative
  <2> QED BY <2>1, <2>3
<1>3. n \in Nat /\ n <= Len(s)
  BY <1>1
<1> HIDE DEF s
<1> DEFINE c == Append(s, t)
<1>4. c \in Seq(S) /\ n <= Len(c) /\ \A i \in 1 .. n : c[i] = s[i]
  BY <1>1, <1>3
<1> HIDE DEF c
<1>5. /\ SubSeq(c, 1, n) \in Seq(S) /\ Len(SubSeq(c, 1, n)) = n
      /\ \A i \in 1 .. n : SubSeq(c, 1, n)[i] = c[i]
  BY <1>3, <1>4, PrefixSeq
<1>6. /\ SubSeq(s, 1, n) \in Seq(S) /\ Len(SubSeq(s, 1, n)) = n
      /\ \A i \in 1 .. n : SubSeq(s, 1, n)[i] = s[i]
  BY <1>1, <1>3, PrefixSeq
<1>7. SubSeq(c, 1, n) = SubSeq(s, 1, n)
  BY <1>4, <1>5, <1>6, SeqEqual
<1> QED BY <1>2, <1>7 DEF s, c

-----------------------------------------------------------------------------
(* Steps. *)

(* A fill of a new transaction, or one more of the last, comes after all   *)
(* there are.                                                              *)
LEMMA FillIsNext ==
  ASSUME StoreInv, NEW slot \in Highest(made) .. MaxSlot, NEW price \in Prices,
         NEW lots \in Sizes, NEW swept \in BOOLEAN, NEW fill, rooted < slot,
         fill = [slot      |-> IF swept THEN Last(made).slot ELSE slot,
                 signature |-> IF swept THEN Last(made).signature ELSE Len(made) + 1,
                 order     |-> IF swept THEN Last(made).order + 1 ELSE 1,
                 price     |-> price, lots |-> lots, quote |-> price * lots * QuotePerTick],
         swept => made # <<>> /\ Last(made).slot = slot
  PROVE  /\ fill \in Fill
         /\ fill.slot = slot /\ fill.signature <= Len(made) + 1
         /\ \A t \in Range(made) : Before(t, fill)
<1>1. /\ made \in Seq(Fill) /\ InOrder(made) /\ Len(made) \in Nat /\ DOMAIN made = 1 .. Len(made)
      /\ \A i \in DOMAIN made : made[i].signature <= Len(made)
  BY DEF StoreInv, ChainInv
<1>2. /\ Highest(made) \in 0 .. MaxSlot /\ MaxSlot \in Nat
      /\ \A i \in DOMAIN made : made[i].slot <= Highest(made)
  BY <1>1, HighestBounds, FileStoreAssumption
<1>3. slot \in 1 .. MaxSlot /\ slot \in Nat
  BY <1>2 DEF StoreInv, ChainInv
<1>4. \A i \in DOMAIN made : /\ made[i] \in Fill /\ made[i].slot \in Nat
                             /\ made[i].signature \in Nat /\ made[i].order \in Nat
  BY <1>1, FillsAreReadable
<1>5. price * lots * QuotePerTick \in Nat
  <2>1. price \in Nat /\ lots \in Nat /\ QuotePerTick \in Nat
    BY FileStoreAssumption
  <2>2. price * lots \in Nat
    BY <2>1
  <2> HIDE DEF Fill
  <2> QED BY <2>1, <2>2
<1>6. CASE swept
  <2> DEFINE l == Len(made)
  <2>1. made # <<>> /\ l \in DOMAIN made /\ Last(made) = made[l] /\ made[l].slot = slot
    BY <1>1, <1>6 DEF Last
  <2>2. fill = [slot |-> slot, signature |-> made[l].signature, order |-> made[l].order + 1,
                price |-> price, lots |-> lots, quote |-> price * lots * QuotePerTick]
    BY <1>6, <2>1
  <2>3. /\ fill.slot = slot /\ fill.signature = made[l].signature
        /\ fill.order = made[l].order + 1
    BY <2>2
  <2>4. fill \in Fill
    BY <1>3, <1>4, <1>5, <2>1, <2>2 DEF Fill
  <2>5. ASSUME NEW i \in DOMAIN made PROVE Before(made[i], fill)
    <3>1. CASE i = l
      BY <1>4, <1>3, <2>1, <2>3, <3>1 DEF Before
    <3>2. CASE i # l
      <4>1. Before(made[i], made[l])
        BY <1>1, <2>1, <3>2 DEF InOrder
      <4> QED BY <1>4, <1>3, <2>1, <2>3, <4>1 DEF Before
    <3> QED BY <3>1, <3>2
  <2>6. \A t \in Range(made) : Before(t, fill)
    BY <2>5 DEF Range
  <2>7. fill.signature <= l + 1
    BY <1>1, <1>4, <2>1, <2>3
  <2> QED BY <2>3, <2>4, <2>6, <2>7
<1>7. CASE ~ swept
  <2>1. fill = [slot |-> slot, signature |-> Len(made) + 1, order |-> 1,
                price |-> price, lots |-> lots, quote |-> price * lots * QuotePerTick]
    BY <1>7
  <2>2. fill.slot = slot /\ fill.signature = Len(made) + 1 /\ fill.order = 1
    BY <2>1
  <2>3. fill \in Fill
    BY <1>1, <1>3, <1>5, <2>1 DEF Fill
  <2>4. ASSUME NEW i \in DOMAIN made PROVE Before(made[i], fill)
    <3>1. made[i].slot <= slot
      BY <1>2, <1>3, <1>4
    <3>2. made[i].signature < Len(made) + 1
      BY <1>1, <1>4
    <3> QED BY <2>2, <3>1, <3>2 DEF Before
  <2>5. \A t \in Range(made) : Before(t, fill)
    BY <2>4 DEF Range
  <2> QED BY <1>1, <2>2, <2>3, <2>5
<1> QED BY <1>6, <1>7

(* What a trade does, without the cases. *)
LEMMA TradeIs ==
  ASSUME StoreInv, Trade
  PROVE  \E fill \in Fill :
           /\ fill.signature <= Len(made) + 1 /\ rooted < fill.slot /\ known <= fill.slot
           /\ \A t \in Range(made) : Before(t, fill)
           /\ made' = Append(made, fill)
           /\ UNCHANGED <<rooted, derived, known, queue, through, memory, noted, files, up, history>>
<1>1. PICK slot \in Highest(made) .. MaxSlot, price \in Prices, lots \in Sizes,
           swept \in BOOLEAN :
        LET last == Last(made)
            fill == [slot      |-> IF swept THEN last.slot ELSE slot,
                     signature |-> IF swept THEN last.signature ELSE Len(made) + 1,
                     order     |-> IF swept THEN last.order + 1 ELSE 1,
                     price     |-> price, lots |-> lots,
                     quote |-> price * lots * QuotePerTick]
        IN  /\ IF swept THEN made # <<>> /\ last.slot = slot ELSE TRUE
            /\ rooted < fill.slot /\ known <= fill.slot
            /\ made' = Append(made, fill)
            /\ UNCHANGED <<rooted, derived, known, queue, through, memory, noted, files, up, history>>
  BY DEF Trade
<1> DEFINE fill == [slot      |-> IF swept THEN Last(made).slot ELSE slot,
                    signature |-> IF swept THEN Last(made).signature ELSE Len(made) + 1,
                    order     |-> IF swept THEN Last(made).order + 1 ELSE 1,
                    price     |-> price, lots |-> lots,
                    quote |-> price * lots * QuotePerTick]
<1>2. /\ (swept => made # <<>> /\ Last(made).slot = slot)
      /\ rooted < fill.slot /\ known <= fill.slot
      /\ made' = Append(made, fill)
      /\ UNCHANGED <<rooted, derived, known, queue, through, memory, noted, files, up, history>>
  BY <1>1
<1>3. fill.slot = slot
  BY <1>2
<1>4. \E f : f = fill
  OBVIOUS
<1>5. PICK f : f = fill
  BY <1>4
<1>6. /\ f \in Fill /\ f.signature <= Len(made) + 1
      /\ \A t \in Range(made) : Before(t, f)
  BY <1>2, <1>3, <1>5, FillIsNext
<1> HIDE DEF fill
<1> QED BY <1>2, <1>5, <1>6

(* The chain with one fill more.                                           *)
LEMMA ChainGrows ==
  ASSUME StoreInv, NEW fill \in Fill, fill.signature <= Len(made) + 1,
         \A t \in Range(made) : Before(t, fill),
         made' = Append(made, fill), rooted' = rooted
  PROVE  /\ ChainInv'
         /\ Len(made) \in Nat /\ Len(made') = Len(made) + 1
         /\ made'[Len(made) + 1] = fill /\ \A i \in 1 .. Len(made) : made'[i] = made[i]
         /\ Range(made') = Range(made) \cup {fill}
         /\ fill \notin Range(made)
<1>1. /\ made \in Seq(Fill) /\ InOrder(made) /\ Len(made) \in Nat
      /\ DOMAIN made = 1 .. Len(made)
      /\ \A i \in DOMAIN made : made[i].signature <= Len(made) /\ made[i].signature \in Nat
  <2>1. made \in Seq(Fill)
    BY DEF StoreInv, ChainInv
  <2>2. \A i \in DOMAIN made : made[i].signature \in Nat
    BY <2>1, FillsAreReadable
  <2> QED BY <2>1, <2>2 DEF StoreInv, ChainInv
<1>2. made' \in Seq(Fill) /\ DOMAIN made' = 1 .. Len(made) + 1 /\ Len(made') = Len(made) + 1
  BY <1>1
<1>3. made'[Len(made) + 1] = fill /\ \A i \in 1 .. Len(made) : made'[i] = made[i]
  BY <1>1
<1>4. InOrder(made')
  <2>1. \A i \in DOMAIN made : Before(made[i], fill)
    BY DEF Range
  <2> QED BY <1>1, <2>1, AppendInOrder
<1>5. \A i \in DOMAIN made' : made'[i].signature <= Len(made')
  BY <1>1, <1>2, <1>3
<1>6. Range(made') = Range(made) \cup {fill}
  <2>1. \A t : t \in Range(made) <=> \E i \in 1 .. Len(made) : t = made[i]
    BY <1>1 DEF Range
  <2>2. \A t : t \in Range(made') <=> \E i \in 1 .. Len(made) + 1 : t = made'[i]
    BY <1>2 DEF Range
  <2>3. \A i : i \in 1 .. Len(made) + 1 <=> i \in 1 .. Len(made) \/ i = Len(made) + 1
    BY <1>1
  <2>4. \A t : t \in Range(made') <=> t \in Range(made) \cup {fill}
    BY <1>3, <2>1, <2>2, <2>3
  <2> HIDE DEF Range
  <2> QED BY <2>4
<1>7. fill \notin Range(made)
  <2>1. ~ Before(fill, fill)
    BY FillsAreReadable DEF Before
  <2> QED BY <2>1
<1>8. rooted' \in 0 .. MaxSlot
  BY DEF StoreInv, ChainInv
<1>9. ChainInv'
  BY <1>2, <1>4, <1>5, <1>8 DEF ChainInv
<1> QED BY <1>1, <1>2, <1>3, <1>6, <1>7, <1>9

(* What a step keeps: the invariant and the promises made.                 *)
Keeps == /\ StoreInv'
         /\ IsPrefix(Rows, Rows')
         /\ acked \subseteq acked'

LEMMA TradeKeeps ==
  ASSUME StoreInv, Trade
  PROVE  Keeps
<1>1. PICK fill \in Fill :
           /\ fill.signature <= Len(made) + 1 /\ rooted < fill.slot /\ known <= fill.slot
           /\ \A t \in Range(made) : Before(t, fill)
           /\ made' = Append(made, fill)
           /\ UNCHANGED <<rooted, derived, known, queue, through, memory, noted, files, up, history>>
  BY TradeIs
<1>2. UNCHANGED <<rooted, derived, known, queue, through, memory, noted, disk, checkpoint, up, acked>>
  BY <1>1 DEF files, history
<1>3. /\ ChainInv' /\ Len(made) \in Nat /\ Len(made') = Len(made) + 1
      /\ \A i \in 1 .. Len(made) : made'[i] = made[i]
      /\ Range(made') = Range(made) \cup {fill}
  BY <1>1, ChainGrows
<1> DEFINE S == Range(made)
<1> DEFINE T == Range(made')
<1>4. Seq(S) \subseteq Seq(T)
  BY <1>3
<1>5. PlacesInv'
  BY <1>2, <1>3 DEF StoreInv, PlacesInv
<1>6. Handled' = Handled
  <2>1. derived' = derived /\ \A i \in 1 .. derived : made'[i] = made[i]
    BY <1>2, <1>3 DEF StoreInv, PlacesInv
  <2> QED BY <2>1 DEF Handled
<1>7. InHand' = InHand /\ Load(disk)' = Load(disk) /\ Rows' = Rows
  BY <1>2 DEF InHand, Load, Rows
<1>8. InOrder(InHand')
  BY <1>7 DEF StoreInv, ListsInv
<1> HIDE DEF S, T
<1>9. ListsInv'
  <2>1. memory \in Seq(S) /\ queue \in Seq(S)
    BY DEF StoreInv, ListsInv, S
  <2>2. memory' \in Seq(T) /\ queue' \in Seq(T)
    BY <1>2, <1>4, <2>1
  <2>3. /\ \A i \in DOMAIN memory' : memory'[i].slot <= through'
        /\ \A i \in DOMAIN queue' : through' < queue'[i].slot /\ queue'[i] \in Handled'
    BY <1>2, <1>6 DEF StoreInv, ListsInv
  <2> QED BY <1>8, <2>2, <2>3 DEF ListsInv, T
<1>10. FileInv'
  <2>1. disk \in Seq(S) /\ (~ up => Load(disk) \in Seq(S))
    BY DEF StoreInv, FileInv, S
  <2>2. disk' \in Seq(T) /\ (~ up' => Load(disk)' \in Seq(T))
    BY <1>2, <1>4, <1>7, <2>1
  <2>3. up' => \E n \in Len(memory') .. Len(InHand') : Load(disk)' = SubSeq(InHand', 1, n)
    BY <1>2, <1>7 DEF StoreInv, FileInv
  <2>4. ~ up' => InHand' = <<>> /\ InOrder(Load(disk)')
    BY <1>2, <1>7 DEF StoreInv, FileInv
  <2>5. acked' \subseteq Range(Rows')
    BY <1>2, <1>7 DEF StoreInv, FileInv
  <2> QED BY <2>2, <2>3, <2>4, <2>5 DEF FileInv, T
<1>11. StoreInv'
  BY <1>3, <1>5, <1>9, <1>10 DEF StoreInv
<1>12. IsPrefix(Rows, Rows') /\ acked \subseteq acked'
  BY <1>2, <1>7, RowsAreMade
<1> QED BY <1>11, <1>12 DEF Keeps

(* The rows of the slots before a fill's were made before it.              *)
LEMMA EarlierSlots ==
  ASSUME StoreInv, NEW n \in 1 .. Len(made), NEW t \in Range(made), t.slot < made[n].slot
  PROVE  Before(t, made[n])
<1>1. /\ made \in Seq(Fill) /\ InOrder(made) /\ DOMAIN made = 1 .. Len(made)
      /\ Len(made) \in Nat
  BY DEF StoreInv, ChainInv
<1>2. PICK i \in 1 .. Len(made) : t = made[i]
  BY <1>1 DEF Range
<1>3. made[i].slot \in Nat /\ made[n].slot \in Nat
  BY <1>1, FillsAreReadable
<1>4. i # n /\ ~ (made[n].slot <= made[i].slot)
  BY <1>2, <1>3
<1>5. ~ (n < i)
  BY <1>1, <1>4 DEF InOrder, Before
<1>6. i < n
  BY <1>1, <1>4, <1>5
<1> QED BY <1>1, <1>2, <1>6 DEF InOrder

LEMMA DeriveKeeps ==
  ASSUME StoreInv, Derive
  PROVE  Keeps
<1> DEFINE fill == made[derived + 1]
<1> DEFINE S == Range(made)
<1>1. /\ up /\ derived < Len(made) /\ derived' = derived + 1 /\ known' = fill.slot
      /\ queue' = Recorded(fill)
      /\ UNCHANGED <<made, rooted, through, memory, noted, disk, open, checkpoint, up, acked>>
  BY DEF Derive, chain, files
<1>2. /\ made \in Seq(Fill) /\ InOrder(made) /\ Len(made) \in Nat
      /\ DOMAIN made = 1 .. Len(made)
      /\ derived \in Nat /\ derived + 1 \in 1 .. Len(made) /\ through \in Nat
  BY <1>1, FileStoreAssumption DEF StoreInv, ChainInv, PlacesInv
<1>3. fill \in Fill /\ fill \in S
  BY <1>2 DEF Range
<1>4. fill.slot \in Nat /\ fill.slot \in 1 .. MaxSlot
  BY <1>3, FillsAreReadable
<1>5. ChainInv'
  BY <1>1 DEF StoreInv, ChainInv, InOrder
<1>6. PlacesInv'
  BY <1>1, <1>2, <1>4 DEF StoreInv, PlacesInv
<1>7. Handled' = Handled \cup {fill}
  <2>1. \A i : i \in 1 .. derived + 1 <=> i \in 1 .. derived \/ i = derived + 1
    BY <1>2
  <2> QED BY <1>1, <2>1 DEF Handled
<1>8. Load(disk)' = Load(disk) /\ Rows' = memory /\ Rows = memory /\ Range(made') = S
  BY <1>1 DEF Load, Rows
<1> HIDE DEF S
<1>9. /\ memory \in Seq(S) /\ queue \in Seq(S) /\ InOrder(InHand) /\ InHand \in Seq(S)
      /\ InHand = memory \o queue /\ Len(InHand) \in Nat /\ Len(memory) \in Nat
  <2>1. InHand \in Seq(S)
    BY StoreFacts DEF S
  <2> QED BY <2>1 DEF StoreInv, ListsInv, S, InHand
<1>10. PICK n \in Len(memory) .. Len(InHand) : Load(disk) = SubSeq(InHand, 1, n)
  BY <1>1 DEF StoreInv, FileInv
<1>11. \A i \in DOMAIN memory : memory[i].slot <= through
  BY DEF StoreInv, ListsInv
<1>12. \A i \in DOMAIN queue : through < queue[i].slot /\ queue[i] \in Handled
  BY DEF StoreInv, ListsInv
<1>13. /\ queue' \in Seq(S) /\ InOrder(InHand')
       /\ \A i \in DOMAIN queue' : through < queue'[i].slot /\ queue'[i] \in Handled'
       /\ n \in Len(memory) .. Len(InHand') /\ Load(disk) = SubSeq(InHand', 1, n)
  <2>1. CASE fill.slot <= through
    <3>1. queue' = queue
      BY <1>1, <2>1 DEF Recorded
    <3>2. InHand' = InHand
      BY <1>1, <3>1 DEF InHand
    <3> QED BY <1>7, <1>9, <1>10, <1>12, <3>1, <3>2
  <2>2. CASE ~ (fill.slot <= through)
    <3>1. queue' = Append(queue, fill)
      BY <1>1, <2>2 DEF Recorded
    <3>2. InHand' = Append(InHand, fill) /\ SubSeq(InHand', 1, n) = SubSeq(InHand, 1, n)
      <4>1. InHand' = memory \o Append(queue, fill)
        BY <1>1, <3>1 DEF InHand
      <4>2. n \in 0 .. Len(memory \o queue)
        BY <1>9, <1>10
      <4>3. fill \in S
        BY <1>3 DEF S
      <4>4. /\ memory \o Append(queue, fill) = Append(memory \o queue, fill)
            /\ SubSeq(memory \o Append(queue, fill), 1, n) = SubSeq(memory \o queue, 1, n)
        BY <1>9, <4>2, <4>3, AppendToTwo
      <4> QED BY <1>9, <4>1, <4>4
    <3>3. \A i \in DOMAIN InHand : Before(InHand[i], fill)
      <4>1. \A i \in DOMAIN memory : Before(memory[i], fill)
        <5>1. TAKE i \in DOMAIN memory
        <5>2. memory[i] \in Range(made)
          BY <1>9 DEF S
        <5>3. memory[i].slot \in Nat /\ memory[i].slot <= through
          <6>1. memory[i] \in Fill
            BY <5>2, StoreFacts
          <6> QED BY <6>1, <1>11, FillsAreReadable
        <5>4. memory[i].slot < fill.slot
          BY <1>2, <1>4, <2>2, <5>3
        <5> QED BY <1>2, <5>2, <5>4, EarlierSlots
      <4>2. \A i \in DOMAIN queue : Before(queue[i], fill)
        <5>1. TAKE i \in DOMAIN queue
        <5>2. PICK j \in 1 .. derived : queue[i] = made[j]
          BY <1>12 DEF Handled
        <5>3. j \in DOMAIN made /\ derived + 1 \in DOMAIN made /\ j < derived + 1
          BY <1>2
        <5> QED BY <1>2, <5>2, <5>3 DEF InOrder
      <4>3. \A i \in DOMAIN InHand : \/ \E j \in DOMAIN memory : InHand[i] = memory[j]
                                    \/ \E j \in DOMAIN queue : InHand[i] = queue[j]
        <5>1. TAKE i \in DOMAIN InHand
        <5>2. /\ Len(queue) \in Nat /\ DOMAIN memory = 1 .. Len(memory)
              /\ DOMAIN queue = 1 .. Len(queue) /\ DOMAIN InHand = 1 .. Len(memory) + Len(queue)
              /\ InHand[i] = IF i <= Len(memory) THEN memory[i] ELSE queue[i - Len(memory)]
          BY <1>9
        <5>3. CASE i <= Len(memory)
          <6>1. i \in DOMAIN memory
            BY <1>9, <5>2, <5>3
          <6> QED BY <5>2, <5>3, <6>1
        <5>4. CASE ~ (i <= Len(memory))
          <6>1. i - Len(memory) \in DOMAIN queue
            BY <1>9, <5>2, <5>4
          <6> QED BY <5>2, <5>4, <6>1
        <5> QED BY <5>3, <5>4
      <4> QED BY ONLY <4>1, <4>2, <4>3
    <3>4. InOrder(InHand')
      BY <1>9, <3>2, <3>3, AppendInOrder
    <3>5. Len(InHand') = Len(InHand) + 1
      BY <1>9, <3>2
    <3>6. n \in Len(memory) .. Len(InHand')
      BY <1>9, <1>10, <3>5
    <3>7. queue' \in Seq(S)
      BY <1>3, <1>9, <3>1 DEF S
    <3>8. ASSUME NEW i \in DOMAIN queue' PROVE through < queue'[i].slot /\ queue'[i] \in Handled'
      <4>1. i \in DOMAIN queue \/ i = Len(queue) + 1
        BY <1>9, <3>1
      <4>2. CASE i \in DOMAIN queue
        <5>1. queue'[i] = queue[i]
          BY <1>9, <3>1, <4>2
        <5> QED BY <1>7, <1>12, <4>2, <5>1
      <4>3. CASE i = Len(queue) + 1
        <5>1. queue'[i] = fill
          BY <1>9, <3>1, <4>3
        <5>2. through < fill.slot
          BY <1>2, <1>4, <2>2
        <5> QED BY <1>7, <5>1, <5>2
      <4> QED BY <4>1, <4>2, <4>3
    <3> QED BY <1>10, <3>2, <3>4, <3>6, <3>7, <3>8
  <2> QED BY <2>1, <2>2
<1>14. ListsInv'
  BY <1>1, <1>8, <1>9, <1>11, <1>13 DEF ListsInv
<1>15. FileInv'
  <2>1. disk' \in Seq(Range(made'))
    BY <1>1 DEF StoreInv, FileInv
  <2>2. \E k \in Len(memory') .. Len(InHand') : Load(disk)' = SubSeq(InHand', 1, k)
    BY <1>1, <1>8, <1>13
  <2>3. acked' \subseteq Range(Rows')
    BY <1>1, <1>8 DEF StoreInv, FileInv
  <2> QED BY <1>1, <2>1, <2>2, <2>3 DEF FileInv
<1>16. StoreInv'
  BY <1>5, <1>6, <1>14, <1>15 DEF StoreInv
<1>17. IsPrefix(Rows, Rows') /\ acked \subseteq acked'
  <2>1. Rows' = Rows /\ acked' = acked
    BY <1>1, <1>8
  <2> QED BY <2>1, RowsAreMade
<1> QED BY <1>16, <1>17 DEF Keeps

(* A step that touches neither the rows nor where they stand.              *)
LEMMA StillKeeps ==
  ASSUME StoreInv, known' \in 0 .. MaxSlot,
         UNCHANGED <<made, rooted, derived, queue, through, memory, noted, disk, checkpoint, up, acked>>
  PROVE  Keeps
<1>1. Rows' = Rows /\ InHand' = InHand /\ Load(disk)' = Load(disk) /\ Handled' = Handled
  BY DEF Rows, InHand, Load, Handled
<1>2. ChainInv'
  BY DEF StoreInv, ChainInv, InOrder
<1>3. PlacesInv'
  BY DEF StoreInv, PlacesInv
<1>4. ListsInv'
  <2>1. InOrder(InHand')
    BY <1>1 DEF StoreInv, ListsInv
  <2> QED BY <1>1, <2>1 DEF StoreInv, ListsInv
<1>5. FileInv'
  BY <1>1 DEF StoreInv, FileInv, InOrder
<1>6. IsPrefix(Rows, Rows') /\ acked \subseteq acked'
  BY <1>1, RowsAreMade
<1> QED BY <1>2, <1>3, <1>4, <1>5, <1>6 DEF Keeps, StoreInv

(* What waits for a slot is the first of the queue.                        *)
LEMMA WaitingCut ==
  ASSUME StoreInv, NEW slot \in Nat
  PROVE  /\ Through(queue, slot) \in 0 .. Len(queue)
         /\ Waiting(slot) = SubSeq(queue, 1, Through(queue, slot))
         /\ Later(slot) = SubSeq(queue, Through(queue, slot) + 1, Len(queue))
<1>1. queue \in Seq(Fill) /\ InOrder(queue)
  BY StoreFacts
<1>2. Through(queue, slot) \in 0 .. Len(queue)
  BY <1>1, ThroughCuts
<1> QED BY <1>2 DEF Waiting, Later, UpTo, After

(* What the file holds when the first j of the queue have been written.    *)
LEMMA FileAfter ==
  ASSUME StoreInv, up, NEW j \in 0 .. Len(queue)
  PROVE  /\ disk \o SubSeq(queue, 1, j) \in Seq(Range(made))
         /\ \E n \in Len(memory) .. Len(InHand) :
              /\ n >= Len(memory) + j
              /\ Load(disk \o SubSeq(queue, 1, j)) = SubSeq(InHand, 1, n)
         /\ \/ Load(disk \o SubSeq(queue, 1, j)) = Load(disk)
            \/ Load(disk \o SubSeq(queue, 1, j)) = SubSeq(InHand, 1, Len(memory) + j)
<1> DEFINE S == Range(made)
<1>1. /\ memory \in Seq(S) /\ queue \in Seq(S) /\ disk \in Seq(S) /\ Unreadable \notin S
      /\ Contract!Distinct(InHand) /\ InHand = memory \o queue
      /\ Len(InHand) = Len(memory) + Len(queue)
  BY StoreFacts DEF StoreInv, ListsInv, FileInv, InHand
<1>2. Len(memory) \in Nat /\ Len(queue) \in Nat /\ j \in Nat /\ j <= Len(queue)
  BY <1>1
<1>3. PICK n \in Len(memory) .. Len(InHand) : Load(disk) = SubSeq(InHand, 1, n)
  BY DEF StoreInv, FileInv
<1> HIDE DEF S
<1>4. SubSeq(queue, 1, j) \in Seq(S)
  BY <1>1, <1>2, PrefixSeq
<1>5. disk \o SubSeq(queue, 1, j) \in Seq(S)
  BY <1>1, <1>4, ConcatProperties
<1>6. Load(disk \o SubSeq(queue, 1, j))
        = SubSeq(memory \o queue, 1, IF n > Len(memory) + j THEN n ELSE Len(memory) + j)
  <2>1. Contract!Distinct(memory \o queue) /\ n \in Len(memory) .. Len(memory \o queue)
    BY <1>1, <1>3
  <2>2. Load(disk) = SubSeq(memory \o queue, 1, n)
    BY <1>1, <1>3
  <2>3. /\ memory \in Seq(S) /\ queue \in Seq(S) /\ disk \in Seq(S) /\ Unreadable \notin S
    BY <1>1
  <2> QED BY ONLY <2>1, <2>2, <2>3, WriteSome
<1>7. CASE n > Len(memory) + j
  <2>1. Load(disk \o SubSeq(queue, 1, j)) = SubSeq(InHand, 1, n)
    BY <1>1, <1>6, <1>7
  <2>2. n >= Len(memory) + j
    BY <1>2, <1>7
  <2>3. Load(disk \o SubSeq(queue, 1, j)) = Load(disk)
    BY <1>3, <2>1
  <2> QED BY <1>3, <1>5, <2>1, <2>2, <2>3 DEF S
<1>8. CASE ~ (n > Len(memory) + j)
  <2>1. Load(disk \o SubSeq(queue, 1, j)) = SubSeq(InHand, 1, Len(memory) + j)
    BY <1>1, <1>6, <1>8
  <2>2. Len(memory) + j \in Len(memory) .. Len(InHand) /\ Len(memory) + j >= Len(memory) + j
    BY <1>1, <1>2
  <2> QED BY <1>5, <2>1, <2>2 DEF S
<1> QED BY <1>7, <1>8

(* What a write of all that waits for a slot makes of memory and the file. *)
LEMMA WriteIs ==
  ASSUME StoreInv, ~ open, up, NEW slot \in Nat
  PROVE  LET after == Appended(memory, Waiting(slot))
             lines == disk \o Waiting(slot)
         IN  /\ after \in Seq(Range(made)) /\ Later(slot) \in Seq(Range(made))
             /\ after \o Later(slot) = InHand
             /\ IsPrefix(memory, after) /\ InOrder(after)
             /\ Range(after) = Range(memory) \cup Range(Waiting(slot))
             /\ Joined(Waiting(slot)) = lines /\ lines \in Seq(Range(made))
             /\ \E n \in Len(after) .. Len(InHand) : Load(lines) = SubSeq(InHand, 1, n)
             /\ Load(lines) = Load(disk) \/ Load(lines) = after
<1> DEFINE S == Range(made)
<1> DEFINE k == Through(queue, slot)
<1> DEFINE s == InHand
<1> DEFINE m == Len(memory)
<1> DEFINE w == SubSeq(queue, 1, k)
<1> DEFINE r == SubSeq(s, 1, m + k)
<1>1. k \in 0 .. Len(queue) /\ Waiting(slot) = w /\ Later(slot) = SubSeq(queue, k + 1, Len(queue))
  BY WaitingCut
<1> HIDE DEF k
<1>2. /\ memory \in Seq(S) /\ queue \in Seq(S) /\ disk \in Seq(S) /\ Unreadable \notin S
      /\ s \in Seq(S) /\ Contract!Distinct(s) /\ s = memory \o queue
      /\ Len(s) = m + Len(queue) /\ memory = SubSeq(s, 1, m)
  BY StoreFacts DEF StoreInv, ListsInv, FileInv, InHand
<1>3. /\ m \in Nat /\ Len(queue) \in Nat /\ k \in Nat /\ k <= Len(queue)
      /\ m + k \in Nat /\ m + k <= Len(s) /\ m + k \in 0 .. Len(s) /\ m \in 0 .. m + k
  BY <1>1, <1>2
<1>4. /\ disk \o w \in Seq(S)
      /\ \E n \in m .. Len(s) : n >= m + k /\ Load(disk \o w) = SubSeq(s, 1, n)
      /\ Load(disk \o w) = Load(disk) \/ Load(disk \o w) = r
  BY <1>1, FileAfter
<1> HIDE DEF S, s
<1>5. Appended(memory, w) = r /\ r \o SubSeq(queue, k + 1, Len(queue)) = s
  <2>1. Contract!Distinct(memory \o queue)
    BY <1>2
  <2>2. /\ Appended(memory, SubSeq(queue, 1, k)) = SubSeq(memory \o queue, 1, m + k)
        /\ Appended(memory, SubSeq(queue, 1, k)) \o SubSeq(queue, k + 1, Len(queue))
             = memory \o queue
    BY <1>1, <1>2, <2>1, RememberSome
  <2> QED BY <1>2, <2>2
<1>6. /\ w \in Seq(S) /\ Len(w) = k /\ (\A i \in 1 .. k : w[i] = queue[i])
      /\ SubSeq(queue, k + 1, Len(queue)) \in Seq(S)
      /\ r \in Seq(S) /\ Len(r) = m + k /\ (\A i \in 1 .. m + k : r[i] = s[i])
  <2>1. w \in Seq(S) /\ Len(w) = k /\ \A i \in 1 .. k : w[i] = queue[i]
    BY <1>2, <1>3, PrefixSeq
  <2>2. SubSeq(queue, k + 1, Len(queue)) \in Seq(S)
    BY <1>2, <1>3, CutSeq
  <2>3. r \in Seq(S) /\ Len(r) = m + k /\ \A i \in 1 .. m + k : r[i] = s[i]
    BY <1>2, <1>3, PrefixSeq
  <2> QED BY <2>1, <2>2, <2>3
<1>7. Joined(w) = disk \o w
  BY <1>2, <1>6, JoinedCuts
<1>8. IsPrefix(memory, r) /\ InOrder(r)
  <2>1. InOrder(s)
    BY DEF StoreInv, ListsInv, s
  <2>2. InOrder(r)
    BY <1>2, <1>3, <2>1, PrefixInOrder
  <2> QED BY <1>2, <1>3, <2>2, CutsArePrefixes
<1>9. Range(r) = Range(memory) \cup Range(w)
  <2> HIDE DEF r, w
  <2>1. /\ DOMAIN r = 1 .. m + k /\ DOMAIN memory = 1 .. m /\ DOMAIN w = 1 .. k
    BY <1>2, <1>6
  <2>2. \A i \in 1 .. m : i \in 1 .. m + k /\ r[i] = memory[i]
    BY <1>2, <1>3, <1>6
  <2>3. \A i \in 1 .. k : m + i \in 1 .. m + k /\ r[m + i] = w[i]
    <3>1. \A i \in 1 .. k : m + i \in 1 .. m + k /\ i \in 1 .. Len(queue)
      BY <1>3
    <3>2. \A i \in 1 .. Len(queue) : (memory \o queue)[m + i] = queue[i]
      BY <1>2
    <3> QED BY <1>2, <1>6, <3>1, <3>2
  <2>4. ASSUME NEW i \in 1 .. m + k PROVE r[i] \in Range(memory) \cup Range(w)
    <3>1. CASE i \in 1 .. m
      BY <2>1, <2>2, <3>1 DEF Range
    <3>2. CASE i \notin 1 .. m
      <4>1. i - m \in 1 .. k /\ m + (i - m) = i
        BY <1>3, <3>2
      <4>2. r[i] = w[i - m]
        BY <2>3, <4>1
      <4> QED BY <2>1, <4>1, <4>2 DEF Range
    <3> QED BY <3>1, <3>2
  <2>5. \A t \in Range(r) : t \in Range(memory) \cup Range(w)
    BY <2>1, <2>4 DEF Range
  <2>6. \A t \in Range(memory) : t \in Range(r)
    BY <2>1, <2>2 DEF Range
  <2>7. \A t \in Range(w) : t \in Range(r)
    BY <2>1, <2>3 DEF Range
  <2> HIDE DEF Range
  <2> QED BY <2>5, <2>6, <2>7
<1>10. \E n \in Len(r) .. Len(s) : Load(disk \o w) = SubSeq(s, 1, n)
  BY <1>3, <1>4, <1>6
<1> HIDE DEF w, r
<1> QED BY <1>1, <1>4, <1>5, <1>6, <1>7, <1>8, <1>9, <1>10 DEF S, s

(* The news that a slot is rooted, and the checkpoint it allows.           *)
LEMMA FinalizedIs ==
  ASSUME StoreInv, NEW slot \in 1 .. MaxSlot, Finalized(slot)
  PROVE  /\ up /\ made' = made /\ ChainInv' /\ slot \in Nat /\ rooted \in Nat
         /\ rooted' \in 0 .. MaxSlot /\ rooted <= rooted' /\ slot <= rooted'
         /\ noted <= Noted(slot) /\ Noted(slot) \in NoCheckpoint .. rooted'
         /\ \/ Filed(slot) = checkpoint
            \/ Filed(slot) = known /\ known <= slot /\ Noted(slot) = known
         /\ Filed(slot) \in NoCheckpoint .. rooted' /\ checkpoint \in NoCheckpoint .. rooted'
<1>1. up /\ made' = made /\ rooted' = Higher(rooted, slot)
  BY DEF Finalized
<1>2. /\ slot \in Nat /\ rooted \in 0 .. MaxSlot /\ MaxSlot \in Nat /\ NoCheckpoint = -1
      /\ known \in 0 .. MaxSlot /\ noted \in NoCheckpoint .. rooted
      /\ checkpoint \in NoCheckpoint .. rooted
  BY FileStoreAssumption DEF StoreInv, ChainInv, PlacesInv, NoCheckpoint
<1>3. rooted' \in 0 .. MaxSlot /\ rooted <= rooted' /\ slot <= rooted'
  BY <1>1, <1>2 DEF Higher
<1>4. ChainInv'
  BY <1>1, <1>3 DEF StoreInv, ChainInv, InOrder
<1>5. \/ Noted(slot) = noted
      \/ Noted(slot) = known /\ known <= slot /\ noted < known
  BY <1>2 DEF Noted, Higher
<1>6. noted <= Noted(slot) /\ Noted(slot) \in NoCheckpoint .. rooted'
  BY <1>2, <1>3, <1>5
<1>7. \/ Filed(slot) = checkpoint
      \/ Filed(slot) = known /\ known <= slot /\ Noted(slot) = known
  BY <1>5 DEF Filed
<1> QED BY <1>1, <1>2, <1>3, <1>4, <1>6, <1>7

(* Rows written and remembered.                                            *)
LEMMA WritesKeeps ==
  ASSUME StoreInv, ~ open, NEW slot \in 1 .. MaxSlot, Writes(slot),
         checkpoint' \in {checkpoint, Filed(slot)}
  PROVE  Keeps
<1> DEFINE S == Range(made)
<1>1. /\ Finalized(slot) /\ noted' = Noted(slot)
      /\ disk' = Joined(Waiting(slot))
      /\ memory' = Appended(memory, Waiting(slot)) /\ queue' = Later(slot)
      /\ acked' = acked \cup Range(Waiting(slot)) /\ through' = Higher(through, slot)
      /\ derived' = derived /\ known' = known /\ up' = up
  BY DEF Writes
<1>2. /\ up /\ made' = made /\ ChainInv' /\ slot \in Nat
      /\ Noted(slot) \in NoCheckpoint .. rooted'
      /\ checkpoint' \in NoCheckpoint .. rooted'
  BY <1>1, FinalizedIs
<1>3. /\ memory' \in Seq(S) /\ queue' \in Seq(S) /\ memory' \o queue' = InHand
      /\ IsPrefix(memory, memory')
      /\ Range(memory') = Range(memory) \cup Range(Waiting(slot))
      /\ disk' \in Seq(S)
      /\ \E n \in Len(memory') .. Len(InHand) : Load(disk') = SubSeq(InHand, 1, n)
  BY <1>1, <1>2, WriteIs
<1>4. InHand' = InHand /\ Handled' = Handled /\ Range(made') = S
  BY <1>1, <1>2, <1>3 DEF InHand, Handled
<1>5. Rows = memory /\ Rows' = memory' /\ up'
  BY <1>1, <1>2 DEF Rows
<1> HIDE DEF S
<1>6. through \in Nat /\ through \in 0 .. MaxSlot /\ MaxSlot \in Nat
  BY FileStoreAssumption DEF StoreInv, PlacesInv
<1>7. PlacesInv'
  <2>1. through' \in 0 .. MaxSlot
    BY <1>1, <1>2, <1>6 DEF Higher
  <2> QED BY <1>1, <1>2, <2>1 DEF StoreInv, PlacesInv
<1>8. ListsInv'
  <2>1. queue \in Seq(Fill) /\ InOrder(queue) /\ memory \in Seq(Fill)
    BY StoreFacts
  <2>2. \A t \in Range(memory') : t.slot <= through'
    <3>1. \A t \in Range(memory) : t.slot <= through /\ t.slot \in Nat
      <4>1. \A i \in DOMAIN memory : memory[i].slot <= through /\ memory[i].slot \in Nat
        BY <2>1, FillsAreReadable DEF StoreInv, ListsInv
      <4> QED BY <4>1 DEF Range
    <3>2. \A t \in Range(Waiting(slot)) : t.slot <= slot /\ t.slot \in Nat
      <4>1. Range(Waiting(slot)) = {t \in Range(queue) : t.slot <= slot}
        BY <1>2, <2>1, RowsUpTo DEF Waiting
      <4>2. \A t \in Range(queue) : t.slot \in Nat
        BY <2>1, RowsOfSeq, FillsAreReadable
      <4> QED BY <4>1, <4>2
    <3> HIDE DEF Range
    <3>3. through' \in Nat /\ through <= through' /\ slot <= through'
      BY <1>1, <1>2, <1>6 DEF Higher
    <3>4. ASSUME NEW t \in Range(memory') PROVE t.slot <= through'
      <4>1. t \in Range(memory) \/ t \in Range(Waiting(slot))
        BY <1>3
      <4> QED BY ONLY <1>2, <1>6, <3>1, <3>2, <3>3, <4>1
    <3> QED BY <3>4
  <2>3. \A i \in DOMAIN memory' : memory'[i].slot <= through'
    BY <1>3, <2>2, RowsOfSeq
  <2>4. \A i \in DOMAIN queue' : through' < queue'[i].slot /\ queue'[i] \in Handled
    <3> DEFINE k == Through(queue, slot)
    <3>1. k \in 0 .. Len(queue) /\ CutsAt(queue, slot, k) /\ queue' = SubSeq(queue, k + 1, Len(queue))
      BY <1>1, <1>2, <2>1, ThroughCuts, WaitingCut
    <3> HIDE DEF k
    <3>2. TAKE i \in DOMAIN queue'
    <3>3. Len(queue) \in Nat /\ k \in Nat /\ k <= Len(queue) /\ DOMAIN queue = 1 .. Len(queue)
      BY <2>1, <3>1
    <3>4. /\ DOMAIN queue' = 1 .. Len(queue) - k
          /\ \A j \in 1 .. Len(queue) - k : queue'[j] = queue[k + j]
      BY <2>1, <3>1, <3>3, CutSeq
    <3>5. k + i \in 1 .. Len(queue) /\ queue'[i] = queue[k + i] /\ ~ (k + i <= k)
      BY <3>2, <3>3, <3>4
    <3>6. /\ through < queue[k + i].slot /\ queue[k + i] \in Handled
          /\ queue[k + i].slot \in Nat /\ ~ (queue[k + i].slot <= slot)
      <4>1. through < queue[k + i].slot /\ queue[k + i] \in Handled
        BY <3>3, <3>5 DEF StoreInv, ListsInv
      <4>2. queue[k + i].slot \in Nat
        BY <2>1, <3>3, <3>5, FillsAreReadable
      <4>3. ~ (queue[k + i].slot <= slot)
        BY <3>1, <3>3, <3>5 DEF CutsAt
      <4> QED BY <4>1, <4>2, <4>3
    <3> QED BY <1>1, <1>2, <1>6, <3>5, <3>6 DEF Higher
  <2>5. InOrder(InHand')
    BY <1>4 DEF StoreInv, ListsInv
  <2> QED BY <1>3, <1>4, <2>3, <2>4, <2>5 DEF ListsInv
<1>9. acked' \subseteq Range(Rows')
  <2>1. acked \subseteq Range(memory)
    BY <1>5 DEF StoreInv, FileInv
  <2> QED BY <1>1, <1>3, <1>5, <2>1
<1>10. FileInv'
  <2>1. \E n \in Len(memory') .. Len(InHand') : Load(disk)' = SubSeq(InHand', 1, n)
    BY <1>3, <1>4 DEF Load
  <2>2. disk' \in Seq(Range(made'))
    BY <1>3, <1>4
  <2> QED BY <1>5, <1>9, <2>1, <2>2 DEF FileInv
<1>11. acked \subseteq acked' /\ IsPrefix(Rows, Rows')
  BY <1>1, <1>3, <1>5
<1> QED BY <1>2, <1>7, <1>8, <1>10, <1>11 DEF Keeps, StoreInv

(* What the file is left with by a write that did not succeed.             *)
LEMMA FileLeft ==
  ASSUME StoreInv, ~ open, up, NEW slot \in Nat,
         NEW left \in Leavings(Waiting(slot)), ~ left.open
  PROVE  \E j \in 0 .. Len(queue) : left.disk = disk \o SubSeq(queue, 1, j)
<1> DEFINE S == Range(made)
<1> DEFINE k == Through(queue, slot)
<1>1. k \in 0 .. Len(queue) /\ Waiting(slot) = SubSeq(queue, 1, k)
  BY WaitingCut
<1> HIDE DEF k
<1>2. queue \in Seq(S) /\ disk \in Seq(S) /\ Len(queue) \in Nat
  BY DEF StoreInv, ListsInv, FileInv
<1> HIDE DEF S
<1>3. left \in Leavings(SubSeq(queue, 1, k))
  BY <1>1
<1>4. PICK j \in 0 .. k : left.disk = disk \o SubSeq(queue, 1, j)
  BY <1>1, <1>2, <1>3, WholeLeavings
<1>5. j \in 0 .. Len(queue)
  BY <1>1, <1>2
<1> QED BY <1>4, <1>5

(* The first of what waits.                                                *)
LEMMA HeadWaits ==
  ASSUME StoreInv, NEW slot \in Nat, Waiting(slot) # <<>>
  PROVE  /\ Head(Waiting(slot)).slot \in 1 .. MaxSlot /\ through < Head(Waiting(slot)).slot
         /\ Head(Waiting(slot)).slot <= slot
         /\ \A t \in Range(queue) : Head(Waiting(slot)).slot <= t.slot
<1> DEFINE k == Through(queue, slot)
<1>1. k \in 0 .. Len(queue) /\ Waiting(slot) = SubSeq(queue, 1, k)
  BY WaitingCut
<1>2. queue \in Seq(Fill) /\ InOrder(queue)
  BY StoreFacts
<1>3. CutsAt(queue, slot, k)
  BY <1>2, ThroughCuts
<1> HIDE DEF k
<1>4. /\ Len(queue) \in Nat /\ DOMAIN queue = 1 .. Len(queue) /\ k \in Nat /\ k <= Len(queue)
      /\ k # 0
  <2>1. k \in Nat /\ k <= Len(queue) /\ Len(queue) \in Nat
    BY <1>1, <1>2
  <2>2. Len(SubSeq(queue, 1, k)) = k /\ SubSeq(queue, 1, k) \in Seq(Fill)
    BY <1>2, <2>1, PrefixSeq
  <2>3. k # 0
    BY <1>1, <2>2
  <2> QED BY <1>2, <2>1, <2>3
<1>5. 1 \in 1 .. k /\ 1 \in DOMAIN queue /\ SubSeq(queue, 1, k)[1] = queue[1]
  <2>1. 1 \in 1 .. k /\ 1 \in DOMAIN queue
    BY <1>4
  <2> QED BY <1>2, <1>4, <2>1, PrefixSeq
<1>6. Head(Waiting(slot)) = queue[1]
  BY <1>1, <1>5
<1>7. through < queue[1].slot /\ queue[1].slot \in 1 .. MaxSlot
  <2>1. through < queue[1].slot
    BY <1>5 DEF StoreInv, ListsInv
  <2> QED BY <1>2, <1>5, <2>1, FillsAreReadable
<1>8. queue[1].slot <= slot
  BY <1>3, <1>4, <1>5 DEF CutsAt
<1>9. \A i \in DOMAIN queue : queue[1].slot <= queue[i].slot
  <2>1. TAKE i \in DOMAIN queue
  <2>2. CASE i = 1
    BY <1>7, <2>2
  <2>3. CASE i # 1
    BY <1>2, <1>4, <1>5, <2>3 DEF InOrder, Before
  <2> QED BY <2>2, <2>3
<1>10. \A t \in Range(queue) : queue[1].slot <= t.slot
  BY <1>9 DEF Range
<1> QED BY <1>6, <1>7, <1>8, <1>10

LEMMA FlushFailsKeeps ==
  ASSUME StoreInv, ~ open, NEW slot \in 1 .. MaxSlot, FlushFails(slot), ~ open'
  PROVE  Keeps
<1>1. /\ Finalized(slot) /\ Waiting(slot) # <<>> /\ noted' = Noted(slot)
      /\ checkpoint' \in {checkpoint, Filed(slot)}
      /\ through' = Head(Waiting(slot)).slot - 1
      /\ derived' = derived /\ known' = known /\ up' = up
      /\ queue' = queue /\ memory' = memory /\ acked' = acked
  BY DEF FlushFails
<1>2. /\ up /\ made' = made /\ ChainInv' /\ slot \in Nat
      /\ Noted(slot) \in NoCheckpoint .. rooted'
      /\ checkpoint' \in NoCheckpoint .. rooted'
  BY <1>1, FinalizedIs
<1>3. PICK left \in Leavings(Waiting(slot)) : disk' = left.disk /\ open' = left.open
  BY DEF FlushFails
<1>4. PICK j \in 0 .. Len(queue) : disk' = disk \o SubSeq(queue, 1, j)
  BY <1>2, <1>3, FileLeft
<1>5. /\ disk' \in Seq(Range(made))
      /\ \E n \in Len(memory) .. Len(InHand) : Load(disk') = SubSeq(InHand, 1, n)
  BY <1>2, <1>4, FileAfter
<1>6. InHand' = InHand /\ Handled' = Handled /\ Rows' = Rows
  BY <1>1, <1>2 DEF InHand, Handled, Rows
<1>7. /\ Head(Waiting(slot)).slot \in 1 .. MaxSlot /\ through < Head(Waiting(slot)).slot
      /\ \A t \in Range(queue) : Head(Waiting(slot)).slot <= t.slot
  BY <1>1, <1>2, HeadWaits
<1>8. through' \in 0 .. MaxSlot /\ through \in Nat /\ through <= through' /\ MaxSlot \in Nat
  <2>1. through \in 0 .. MaxSlot /\ MaxSlot \in Nat
    BY FileStoreAssumption DEF StoreInv, PlacesInv
  <2>2. through' = Head(Waiting(slot)).slot - 1
    BY <1>1
  <2> QED BY ONLY <1>7, <2>1, <2>2
<1>9. PlacesInv'
  BY <1>1, <1>2, <1>8 DEF StoreInv, PlacesInv
<1>10. ListsInv'
  <2>1. memory \in Seq(Fill) /\ queue \in Seq(Fill)
    BY StoreFacts
  <2>2. \A i \in DOMAIN memory : memory[i].slot <= through'
    <3>1. \A i \in DOMAIN memory : memory[i].slot <= through /\ memory[i].slot \in Nat
      BY <2>1, FillsAreReadable DEF StoreInv, ListsInv
    <3> QED BY <1>8, <3>1
  <2>3. \A i \in DOMAIN queue : through' < queue[i].slot /\ queue[i] \in Handled
    <3>1. TAKE i \in DOMAIN queue
    <3>2. queue[i].slot \in Nat /\ Head(Waiting(slot)).slot <= queue[i].slot
      BY <1>7, <2>1, <3>1, FillsAreReadable, RowsOfSeq
    <3>3. queue[i] \in Handled
      BY <3>1 DEF StoreInv, ListsInv
    <3> QED BY <1>1, <1>7, <3>2, <3>3
  <2>4. InOrder(InHand')
    BY <1>6 DEF StoreInv, ListsInv
  <2>5. memory' \in Seq(Range(made')) /\ queue' \in Seq(Range(made'))
    BY <1>1, <1>2 DEF StoreInv, ListsInv
  <2> QED BY <1>1, <1>6, <2>2, <2>3, <2>4, <2>5 DEF ListsInv
<1>11. FileInv'
  <2>1. \E n \in Len(memory') .. Len(InHand') : Load(disk)' = SubSeq(InHand', 1, n)
    BY <1>1, <1>5, <1>6 DEF Load
  <2>2. disk' \in Seq(Range(made')) /\ up'
    BY <1>1, <1>2, <1>5
  <2>3. acked' \subseteq Range(Rows')
    BY <1>1, <1>6 DEF StoreInv, FileInv
  <2> QED BY <2>1, <2>2, <2>3 DEF FileInv
<1>12. IsPrefix(Rows, Rows') /\ acked \subseteq acked'
  BY <1>1, <1>6, RowsAreMade
<1> QED BY <1>2, <1>9, <1>10, <1>11, <1>12 DEF Keeps, StoreInv

(* The process is down, and the file holds the first rows it had in hand,  *)
(* those remembered at least.                                              *)
LEMMA CrashKeeps ==
  ASSUME StoreInv, up, Dies, made' = made, rooted' \in 0 .. MaxSlot, acked' = acked,
         checkpoint' \in NoCheckpoint .. rooted', disk' \in Seq(Range(made)),
         NEW n \in Len(memory) .. Len(InHand), Load(disk') = SubSeq(InHand, 1, n)
  PROVE  Keeps
<1> DEFINE S == Range(made)
<1>1. /\ up' = FALSE /\ derived' = 0 /\ known' = 0 /\ through' = 0 /\ noted' = NoCheckpoint
      /\ memory' = <<>> /\ queue' = <<>>
  BY DEF Dies
<1>2. /\ memory \in Seq(S) /\ InHand \in Seq(S) /\ memory = SubSeq(InHand, 1, Len(memory))
      /\ InOrder(InHand)
  BY StoreFacts DEF StoreInv, ListsInv
<1> HIDE DEF S
<1>3. n \in Nat /\ Len(memory) \in 0 .. n /\ n \in 0 .. Len(InHand) /\ n <= Len(InHand)
  BY <1>2
<1>4. Rows = memory /\ Rows' = SubSeq(InHand, 1, n)
  BY <1>1 DEF Rows, Load
<1>5. IsPrefix(Rows, Rows') /\ Range(Rows) \subseteq Range(Rows')
  <2>1. IsPrefix(SubSeq(InHand, 1, Len(memory)), SubSeq(InHand, 1, n))
    BY <1>2, <1>3, CutsArePrefixes
  <2>2. Range(SubSeq(InHand, 1, Len(memory))) \subseteq Range(SubSeq(InHand, 1, n))
    BY <1>2, <1>3, RangeOfCut
  <2> QED BY <1>2, <1>4, <2>1, <2>2
<1>6. SubSeq(InHand, 1, n) \in Seq(S) /\ InOrder(SubSeq(InHand, 1, n))
  <2>1. InOrder(SubSeq(InHand, 1, n))
    BY <1>2, <1>3, PrefixInOrder
  <2> QED BY <1>2, <1>3, <2>1, PrefixSeq
<1>7. InHand' = <<>> /\ InOrder(InHand') /\ Load(disk)' = SubSeq(InHand, 1, n)
  BY <1>1 DEF InHand, InOrder, Load
<1>8. ChainInv'
  BY DEF StoreInv, ChainInv, InOrder
<1>9. PlacesInv'
  <2>1. /\ Len(made') \in Nat /\ MaxSlot \in Nat /\ NoCheckpoint = -1 /\ rooted' \in Nat
    BY <1>8, FileStoreAssumption DEF ChainInv, NoCheckpoint
  <2>2. up' \in BOOLEAN
    BY <1>1
  <2>3. derived' \in 0 .. Len(made') /\ known' \in 0 .. MaxSlot /\ through' \in 0 .. MaxSlot
    BY <1>1, <2>1
  <2>4. noted' \in NoCheckpoint .. rooted'
    BY <1>1, <2>1
  <2> QED BY <2>2, <2>3, <2>4 DEF PlacesInv
<1>10. ListsInv'
  BY <1>1, <1>7 DEF ListsInv
<1>11. FileInv'
  <2>1. disk' \in Seq(Range(made')) /\ Load(disk)' \in Seq(Range(made')) /\ InOrder(Load(disk)')
    BY <1>6, <1>7 DEF S
  <2>2. acked' \subseteq Range(Rows')
    BY <1>5 DEF StoreInv, FileInv
  <2> QED BY <1>1, <1>7, <2>1, <2>2 DEF FileInv
<1> QED BY <1>5, <1>8, <1>9, <1>10, <1>11 DEF Keeps, StoreInv

LEMMA CrashInFlushKeeps ==
  ASSUME StoreInv, ~ open, NEW slot \in 1 .. MaxSlot, CrashInFlush(slot), ~ open'
  PROVE  Keeps
<1>1. /\ Finalized(slot) /\ Dies /\ acked' = acked
      /\ \/ disk' = disk /\ checkpoint' = checkpoint
         \/ /\ checkpoint' = Filed(slot)
            /\ \E left \in Leavings(Waiting(slot)) : disk' = left.disk /\ open' = left.open
  BY DEF CrashInFlush, files
<1>2. /\ up /\ made' = made /\ rooted' \in 0 .. MaxSlot /\ slot \in Nat
      /\ checkpoint' \in NoCheckpoint .. rooted'
  BY <1>1, FinalizedIs
<1>3. /\ disk' \in Seq(Range(made))
      /\ \E n \in Len(memory) .. Len(InHand) : Load(disk') = SubSeq(InHand, 1, n)
  <2>1. CASE disk' = disk
    BY <1>2, <2>1 DEF StoreInv, FileInv
  <2>2. CASE \E left \in Leavings(Waiting(slot)) : disk' = left.disk /\ open' = left.open
    <3>1. PICK left \in Leavings(Waiting(slot)) : disk' = left.disk /\ open' = left.open
      BY <2>2
    <3>2. PICK j \in 0 .. Len(queue) : disk' = disk \o SubSeq(queue, 1, j)
      BY <1>2, <3>1, FileLeft
    <3> QED BY <1>2, <3>2, FileAfter
  <2> QED BY <1>1, <2>1, <2>2
<1> QED BY <1>1, <1>2, <1>3, CrashKeeps

LEMMA CrashOutsideKeeps ==
  ASSUME StoreInv, Crash
  PROVE  Keeps
<1>1. /\ up /\ Dies /\ made' = made /\ rooted' = rooted /\ acked' = acked /\ disk' = disk
      /\ checkpoint' = checkpoint
  BY DEF Crash, chain, files
<1>2. PICK n \in Len(memory) .. Len(InHand) : Load(disk) = SubSeq(InHand, 1, n)
  BY <1>1 DEF StoreInv, FileInv
<1>3. Load(disk') = SubSeq(InHand, 1, n)
  BY <1>1, <1>2
<1>4. /\ disk' \in Seq(Range(made)) /\ rooted' \in 0 .. MaxSlot
      /\ checkpoint' \in NoCheckpoint .. rooted'
  BY <1>1 DEF StoreInv, ChainInv, PlacesInv, FileInv
<1> QED BY <1>1, <1>3, <1>4, CrashKeeps

(* Where a restart starts.                                                 *)
LEMMA StartIs ==
  ASSUME StoreInv, Restart
  PROVE  \/ /\ checkpoint # NoCheckpoint /\ checkpoint \in Nat
            /\ CutsAt(made, checkpoint, derived') /\ known' = checkpoint
            /\ derived' \in 0 .. Len(made) /\ known' \in 0 .. MaxSlot
            /\ StartsAt(checkpoint, derived')
         \/ /\ checkpoint = NoCheckpoint
            /\ Highest(made) <= known' /\ derived' = Len(made)
            /\ derived' \in 0 .. Len(made) /\ known' \in 0 .. MaxSlot
            /\ StartsAt(known', Len(made))
<1>1. /\ made \in Seq(Fill) /\ InOrder(made) /\ Len(made) \in Nat
      /\ rooted \in 0 .. MaxSlot /\ checkpoint \in NoCheckpoint .. rooted
      /\ MaxSlot \in Nat /\ NoCheckpoint = -1
  BY FileStoreAssumption DEF StoreInv, ChainInv, PlacesInv, NoCheckpoint
<1>2. CASE checkpoint # NoCheckpoint
  <2>1. checkpoint \in Nat /\ checkpoint \in 0 .. MaxSlot
    BY <1>1, <1>2
  <2>2. StartsAt(checkpoint, Through(made, checkpoint))
    BY <1>2 DEF Restart
  <2>3. derived' = Through(made, checkpoint) /\ known' = checkpoint
    BY <2>2 DEF StartsAt
  <2>4. Through(made, checkpoint) \in 0 .. Len(made) /\ CutsAt(made, checkpoint, Through(made, checkpoint))
    BY <1>1, <2>1, ThroughCuts
  <2> QED BY <1>2, <2>1, <2>2, <2>3, <2>4
<1>3. CASE checkpoint = NoCheckpoint
  <2>1. PICK slot \in Higher(rooted, Highest(made)) .. MaxSlot : StartsAt(slot, Len(made))
    BY <1>3 DEF Restart
  <2>2. Highest(made) \in 0 .. MaxSlot
    BY <1>1, HighestBounds
  <2>3. slot \in 0 .. MaxSlot /\ Highest(made) <= slot
    BY <1>1, <2>1, <2>2 DEF Higher
  <2>4. known' = slot /\ derived' = Len(made)
    BY <2>1 DEF StartsAt
  <2> QED BY <1>1, <1>3, <2>1, <2>3, <2>4
<1> QED BY <1>2, <1>3

LEMMA RestartKeeps ==
  ASSUME StoreInv, Restart
  PROVE  Keeps
<1> DEFINE L == Load(disk)
<1>1. /\ ~ up /\ up' = TRUE /\ memory' = L /\ queue' = <<>> /\ through' = Highest(L)
      /\ noted' = checkpoint
      /\ made' = made /\ rooted' = rooted /\ disk' = disk /\ checkpoint' = checkpoint
      /\ acked' = acked
  BY DEF Restart, chain, files
<1>2. derived' \in 0 .. Len(made) /\ known' \in 0 .. MaxSlot
  BY StartIs
<1>3. /\ L \in Seq(Range(made)) /\ InOrder(L) /\ acked \subseteq Range(Rows) /\ Rows = L
  BY <1>1 DEF StoreInv, FileInv, Rows
<1>4. L \in Seq(Fill)
  <2>1. Range(made) \subseteq Fill
    BY StoreFacts
  <2> HIDE DEF L
  <2> QED BY <1>3, <2>1
<1> HIDE DEF L
<1>5. Highest(L) \in 0 .. MaxSlot /\ \A i \in DOMAIN L : L[i].slot <= Highest(L)
  BY <1>3, <1>4, HighestBounds
<1>6. InHand' = L
  BY <1>1, <1>4 DEF InHand
<1>7. Load(disk)' = L /\ L = SubSeq(L, 1, Len(L)) /\ Len(L) \in Len(L) .. Len(L) /\ Rows' = L
  <2>1. Load(disk)' = L /\ Rows' = L
    BY <1>1 DEF Load, L, Rows
  <2> QED BY <1>4, <2>1
<1>8. ChainInv'
  BY <1>1 DEF StoreInv, ChainInv, InOrder
<1>9. PlacesInv'
  BY <1>1, <1>2, <1>5 DEF StoreInv, PlacesInv
<1>10. ListsInv'
  BY <1>1, <1>3, <1>5, <1>6 DEF ListsInv
<1>11. FileInv'
  <2>1. disk' \in Seq(Range(made'))
    BY <1>1 DEF StoreInv, FileInv
  <2> QED BY <1>1, <1>3, <1>6, <1>7, <2>1 DEF FileInv
<1>12. IsPrefix(Rows, Rows') /\ acked \subseteq acked'
  BY <1>1, <1>3, <1>7, PrefixOfItself
<1> QED BY <1>8, <1>9, <1>10, <1>11, <1>12 DEF Keeps, StoreInv

LEMMA StepKeeps ==
  ASSUME StoreInv, ~ open, ~ open', [Next]_vars
  PROVE  Keeps
<1>1. CASE Trade
  BY <1>1, TradeKeeps
<1>2. CASE Derive
  BY <1>2, DeriveKeeps
<1>3. ASSUME NEW slot \in 1 .. MaxSlot, Touch(slot) PROVE Keeps
  <2>1. /\ known' = slot
        /\ UNCHANGED <<made, rooted, derived, queue, through, memory, noted, disk, checkpoint, up, acked>>
    BY <1>3 DEF Touch, chain, files, history
  <2>2. known' \in 0 .. MaxSlot
    BY <2>1, FileStoreAssumption
  <2> QED BY <2>1, <2>2, StillKeeps
<1>4. ASSUME NEW slot \in 1 .. MaxSlot, Flush(slot) \/ SaveFails(slot) PROVE Keeps
  <2>1. Writes(slot) /\ checkpoint' \in {checkpoint, Filed(slot)}
    BY <1>4 DEF Flush, SaveFails
  <2> QED BY <2>1, WritesKeeps
<1>5. ASSUME NEW slot \in 1 .. MaxSlot, FlushFails(slot) PROVE Keeps
  BY <1>5, FlushFailsKeeps
<1>6. ASSUME NEW slot \in 1 .. MaxSlot, CrashInFlush(slot) PROVE Keeps
  BY <1>6, CrashInFlushKeeps
<1>7. CASE Crash
  BY <1>7, CrashOutsideKeeps
<1>8. CASE Restart
  BY <1>8, RestartKeeps
<1>9. CASE UNCHANGED vars
  <2>1. /\ known' = known
        /\ UNCHANGED <<made, rooted, derived, queue, through, memory, noted, disk, checkpoint, up, acked>>
    BY <1>9 DEF vars
  <2>2. known' \in 0 .. MaxSlot
    BY <2>1 DEF StoreInv, PlacesInv
  <2> QED BY <2>1, <2>2, StillKeeps
<1> QED BY <1>1, <1>2, <1>3, <1>4, <1>5, <1>6, <1>7, <1>8, <1>9 DEF Next

-----------------------------------------------------------------------------
(* The contract of a store. *)

(* What a reader can be shown is rows in order, each once.                 *)
LEMMA RowsAreDistinct ==
  StoreInv => Contract!Distinct(Rows) /\ acked \subseteq Range(Rows)
<1>1. SUFFICES ASSUME StoreInv PROVE Contract!Distinct(Rows)
  BY DEF StoreInv, FileInv
<1>2. CASE up
  <2>1. memory \in Seq(Fill) /\ InOrder(memory)
    BY <1>1, StoreFacts
  <2> QED BY <1>2, <2>1, InOrderAreDistinct DEF Rows
<1>3. CASE ~ up
  <2>1. Load(disk) \in Seq(Range(made)) /\ InOrder(Load(disk)) /\ Range(made) \subseteq Fill
    BY <1>1, <1>3, StoreFacts DEF StoreInv, FileInv
  <2>2. Load(disk) \in Seq(Fill)
    BY <2>1
  <2> QED BY <1>3, <2>1, <2>2, InOrderAreDistinct DEF Rows
<1> QED BY <1>2, <1>3

LEMMA ContractInitially ==
  Init => Contract!LogInit
<1>1. ASSUME Init PROVE Rows = <<>> /\ acked = {}
  BY <1>1 DEF Init, Rows
<1> QED BY <1>1 DEF Contract!LogInit

(* While no line is torn the file holds what memory does, and besides only *)
(* the first of the rows that wait: rows of writes that failed.            *)
THEOREM FileHoldsWhatIsServed ==
  Spec /\ [](~ open) => []StoreInv
<1>1. Init => StoreInv
  BY StoreInitially
<1>2. StoreInv /\ ~ open /\ ~ open' /\ [Next]_vars => StoreInv'
  BY StepKeeps DEF Keeps
<1> QED BY <1>1, <1>2, PTL DEF Spec

(* A history in which no line is torn is one of a store that keeps the     *)
(* contract (TradeLog): what a reader can be shown only grows, at its end, *)
(* each trade is there once, and a row whose append succeeded is there for *)
(* good, whatever fails, dies and is restarted in between.                 *)
THEOREM WholeLinesKeepTheContract ==
  Spec /\ [](~ open) => StoreKeepsTheContract
<1>1. Spec /\ [](~ open) => []StoreInv
  BY FileHoldsWhatIsServed
<1>2. StoreInv => Contract!Distinct(Rows) /\ acked \subseteq Range(Rows)
  BY RowsAreDistinct
<1>3. /\ StoreInv /\ ~ open /\ ~ open' /\ [Next]_vars
      /\ (Contract!Distinct(Rows) /\ acked \subseteq Range(Rows))'
      => Contract!Extend
  <2>1. SUFFICES ASSUME /\ StoreInv /\ ~ open /\ ~ open' /\ [Next]_vars
                        /\ (Contract!Distinct(Rows) /\ acked \subseteq Range(Rows))'
                 PROVE  Contract!Extend
    OBVIOUS
  <2>2. IsPrefix(Rows, Rows') /\ acked \subseteq acked'
    BY <2>1, StepKeeps DEF Keeps
  <2>3. Contract!Distinct(Rows') /\ acked' \subseteq Range(Rows')
    BY <2>1 DEF Contract!Distinct
  <2>4. Contract!IsPrefix(Rows, Rows') /\ Contract!Range(Rows') = Range(Rows')
    BY <2>2 DEF Contract!IsPrefix, IsPrefix, Contract!Range, Range
  <2> QED BY <2>2, <2>3, <2>4 DEF Contract!Extend
<1>4. Init => Contract!LogInit
  BY ContractInitially
<1> QED BY <1>1, <1>2, <1>3, <1>4, PTL DEF Spec, StoreKeepsTheContract, Contract!LogSpec

-----------------------------------------------------------------------------
(* Writes that are whole. *)

LEMMA NoLineIsTorn ==
  ASSUME ~ Tears, open = FALSE, [Next]_vars
  PROVE  open' = FALSE
<1>1. CASE Trade
  BY <1>1 DEF Trade, files
<1>2. CASE Derive
  BY <1>2 DEF Derive, files
<1>3. ASSUME NEW slot \in 1 .. MaxSlot, Touch(slot) PROVE open' = FALSE
  BY <1>3 DEF Touch, files
<1>4. ASSUME NEW slot \in 1 .. MaxSlot, Flush(slot) \/ SaveFails(slot) PROVE open' = FALSE
  BY <1>4 DEF Flush, SaveFails, Writes
<1>5. \A batch : \A left \in Leavings(batch) : left.open = FALSE
  BY DEF Leavings
<1>6. ASSUME NEW slot \in 1 .. MaxSlot, FlushFails(slot) PROVE open' = FALSE
  BY <1>5, <1>6 DEF FlushFails
<1>7. ASSUME NEW slot \in 1 .. MaxSlot, CrashInFlush(slot) PROVE open' = FALSE
  BY <1>5, <1>7 DEF CrashInFlush, files
<1>8. CASE Crash
  BY <1>8 DEF Crash, files
<1>9. CASE Restart
  BY <1>9 DEF Restart, files
<1>10. CASE UNCHANGED vars
  BY <1>10 DEF vars
<1> QED BY <1>1, <1>2, <1>3, <1>4, <1>6, <1>7, <1>8, <1>9, <1>10 DEF Next

(* The rows of the invariant, as sets.                                     *)
LEMMA WholeFacts ==
  ASSUME WholeInv
  PROVE  /\ Range(made) \subseteq Fill /\ Len(made) \in Nat /\ DOMAIN made = 1 .. Len(made)
         /\ \A t : t \in Range(made) <=> \E i \in 1 .. Len(made) : t = made[i]
         /\ \A t \in Range(made) : t.slot \in Nat
         /\ \A i \in 1 .. Len(made) : made[i] \in Range(made) /\ made[i].slot \in Nat
         /\ rooted \in Nat /\ through \in Nat /\ MaxSlot \in Nat /\ NoCheckpoint = -1
         /\ derived \in Nat /\ derived <= Len(made)
         /\ checkpoint \in Int /\ noted \in Int /\ known \in Nat
         /\ Range(memory) \subseteq Range(made) /\ Range(queue) \subseteq Range(made)
         /\ Range(InHand) = Range(memory) \cup Range(queue)
         /\ Handled \subseteq Range(made) /\ Range(queue) \subseteq Handled
         /\ \A t \in Range(memory) : t.slot <= through
         /\ Load(disk) \in Seq(Range(made)) /\ Range(Load(disk)) \subseteq Range(made)
         /\ Load(disk) \in Seq(Fill) /\ InOrder(Load(disk))
         /\ Highest(Load(disk)) \in Nat
         /\ \A t \in Range(Load(disk)) : t.slot <= Highest(Load(disk))
         /\ up => /\ Range(memory) \subseteq Range(Load(disk))
                  /\ Range(Load(disk)) \subseteq Range(InHand)
<1>1. StoreInv /\ ChainInv /\ PlacesInv /\ ListsInv /\ FileInv
  BY DEF WholeInv, StoreInv
<1>2. /\ made \in Seq(Fill) /\ Len(made) \in Nat /\ DOMAIN made = 1 .. Len(made)
      /\ rooted \in Nat /\ MaxSlot \in Nat
  BY <1>1, FileStoreAssumption DEF ChainInv
<1>3. Range(made) \subseteq Fill /\ \A t \in Range(made) : t.slot \in Nat
  BY <1>2, RowsOfSeq, FillsAreReadable
<1>4. \A t : t \in Range(made) <=> \E i \in 1 .. Len(made) : t = made[i]
  BY <1>2 DEF Range
<1>5. \A i \in 1 .. Len(made) : made[i] \in Range(made) /\ made[i].slot \in Nat
  BY <1>3, <1>4
<1>6. /\ through \in Nat /\ derived \in Nat /\ derived <= Len(made) /\ NoCheckpoint = -1
      /\ checkpoint \in Int /\ noted \in Int /\ known \in Nat
  BY <1>1, <1>2 DEF PlacesInv, NoCheckpoint
<1>7. memory \in Seq(Range(made)) /\ queue \in Seq(Range(made)) /\ InHand \in Seq(Range(made))
  BY <1>1, StoreFacts DEF ListsInv
<1>8. /\ Range(memory) \subseteq Range(made) /\ Range(queue) \subseteq Range(made)
      /\ Range(InHand) = Range(memory) \cup Range(queue)
  <2>1. Range(memory) \subseteq Range(made) /\ Range(queue) \subseteq Range(made)
    BY <1>7, RowsOfSeq
  <2>2. Range(memory \o queue) = Range(memory) \cup Range(queue)
    BY <1>7, RangeConcatenation
  <2> QED BY <2>1, <2>2 DEF InHand
<1>9. Handled \subseteq Range(made)
  BY <1>5, <1>6 DEF Handled
<1>10. \A i \in DOMAIN queue : queue[i] \in Handled
  BY <1>1 DEF ListsInv
<1>11. Range(queue) \subseteq Handled
  BY <1>10 DEF Range
<1>12. \A i \in DOMAIN memory : memory[i].slot <= through
  BY <1>1 DEF ListsInv
<1>13. \A t \in Range(memory) : t.slot <= through
  BY <1>12 DEF Range
<1>14. /\ Load(disk) \in Seq(Range(made)) /\ InOrder(Load(disk))
       /\ up => /\ Range(memory) \subseteq Range(Load(disk))
                /\ Range(Load(disk)) \subseteq Range(InHand)
  <2>1. CASE up
    <3>1. PICK n \in Len(memory) .. Len(InHand) : Load(disk) = SubSeq(InHand, 1, n)
      BY <1>1, <2>1 DEF FileInv
    <3>2. /\ n \in Nat /\ n \in 0 .. Len(InHand) /\ Len(memory) \in 0 .. n /\ n <= Len(InHand)
      BY <1>7
    <3>3. SubSeq(InHand, 1, n) \in Seq(Range(made))
      BY <1>7, <3>2, PrefixSeq
    <3>4. InOrder(SubSeq(InHand, 1, n))
      BY <1>1, <1>7, <3>2, PrefixInOrder DEF ListsInv
    <3>5. /\ Range(SubSeq(InHand, 1, n)) \subseteq Range(InHand)
          /\ Range(SubSeq(InHand, 1, Len(memory))) \subseteq Range(SubSeq(InHand, 1, n))
      BY <1>7, <3>2, RangeOfCut
    <3>6. memory = SubSeq(InHand, 1, Len(memory))
      BY <1>1, StoreFacts
    <3>7. Range(memory) \subseteq Range(SubSeq(InHand, 1, n))
      BY <3>5, <3>6
    <3> QED BY <3>1, <3>3, <3>4, <3>5, <3>7
  <2>2. CASE ~ up
    BY <1>1, <2>2 DEF FileInv
  <2> QED BY <2>1, <2>2
<1> DEFINE L == Load(disk)
<1>15. L \in Seq(Range(made)) /\ InOrder(L)
  BY <1>14
<1> HIDE DEF L
<1>16. Range(L) \subseteq Range(made) /\ L \in Seq(Fill)
  BY <1>3, <1>15, RowsOfSeq
<1>17. Highest(L) \in Nat /\ \A t \in Range(L) : t.slot <= Highest(L)
  <2>1. Highest(L) \in 0 .. MaxSlot /\ \A i \in DOMAIN L : L[i].slot <= Highest(L)
    BY <1>15, <1>16, HighestBounds
  <2> QED BY <1>2, <2>1 DEF Range
<1>18. Load(disk) \in Seq(Fill) /\ Range(Load(disk)) \subseteq Range(made)
  BY <1>16 DEF L
<1>19. Highest(Load(disk)) \in Nat /\ \A t \in Range(Load(disk)) : t.slot <= Highest(Load(disk))
  BY <1>17 DEF L
<1> HIDE DEF Range
<1> QED BY ONLY <1>2, <1>3, <1>4, <1>5, <1>6, <1>8, <1>9, <1>11, <1>13, <1>14, <1>18, <1>19

(* Rows of slots up to a bound have their highest slot within it.          *)
LEMMA HighestWithin ==
  ASSUME NEW rows \in Seq(Fill), InOrder(rows), NEW bound \in Nat,
         \A t \in Range(rows) : t.slot <= bound
  PROVE  Highest(rows) <= bound
<1>1. CASE rows = <<>>
  BY <1>1 DEF Highest
<1>2. CASE rows # <<>>
  <2>1. Len(rows) \in DOMAIN rows /\ Highest(rows) = rows[Len(rows)].slot
    BY <1>2, HighestBounds
  <2>2. rows[Len(rows)] \in Range(rows)
    BY <2>1 DEF Range
  <2> HIDE DEF Range
  <2> QED BY <2>1, <2>2
<1> QED BY <1>1, <1>2

(* What is counted of failures and crashes.                                *)
LEMMA FailsIs ==
  ASSUME faults \in Faults, Fails
  PROVE  faults' \in Faults /\ faults'.owed = faults.owed /\ faults'.cold = faults.cold
BY DEF Faults, Fails

LEMMA DiesIs ==
  ASSUME faults \in Faults, Dies
  PROVE  /\ faults' \in Faults /\ faults'.cold = faults.cold
         /\ ~ faults'.owed => ~ faults.owed /\ Waiting(rooted') = <<>>
<1> DEFINE now == faults.owed \/ Waiting(rooted') # <<>>
<1> DEFINE more == faults.crashes + 1
<1>1. faults' = [faults EXCEPT !.crashes = more, !.owed = now]
  BY DEF Dies
<1>2. now \in BOOLEAN /\ more \in Nat
  <2>1. faults.crashes \in Nat
    BY DEF Faults
  <2> QED BY <2>1
<1> HIDE DEF now, more
<1>3. faults' \in Faults /\ faults'.cold = faults.cold /\ faults'.owed = now
  BY <1>1, <1>2, Zenon DEF Faults
<1> QED BY <1>3 DEF now

LEMMA StartCounts ==
  ASSUME faults \in Faults, Restart
  PROVE  /\ faults' \in Faults /\ faults'.owed = faults.owed
         /\ ~ faults'.cold => ~ faults.cold /\ checkpoint # NoCheckpoint
<1> DEFINE now == faults.cold \/ checkpoint = NoCheckpoint
<1>1. faults' = [faults EXCEPT !.cold = now]
  BY DEF Restart
<1>2. now \in BOOLEAN
  OBVIOUS
<1> HIDE DEF now
<1>3. faults' \in Faults /\ faults'.owed = faults.owed /\ faults'.cold = now
  BY <1>1, <1>2 DEF Faults
<1> QED BY <1>3 DEF now

(* News of a slot comes after all its rows, and a checkpoint covers none    *)
(* that was not derived.                                                   *)
LEMMA WhatIsSaved ==
  ASSUME WholeInv, NEW slot \in 1 .. MaxSlot, Finalized(slot),
         NEW saved \in {checkpoint, Filed(slot)}
  PROVE  /\ saved # NoCheckpoint => \A t \in missed : t.slot <= saved
         /\ saved <= Noted(slot)
         /\ \A i \in DOMAIN made : made[i].slot <= saved => i <= derived
         /\ \A t \in Range(made) : t.slot <= slot => t \in Handled
         /\ \A t \in Absent(InHand) : t.slot > slot
<1>1. /\ up /\ slot \in Nat /\ noted <= Noted(slot) /\ Noted(slot) \in Int
      /\ \/ Filed(slot) = checkpoint
         \/ Filed(slot) = known /\ known <= slot /\ Noted(slot) = known
  BY FinalizedIs DEF WholeInv
<1>2. /\ made \in Seq(Fill) /\ InOrder(made) /\ Through(made, slot) <= derived
  BY DEF WholeInv, StoreInv, ChainInv, Finalized
<1>3. /\ Len(made) \in Nat /\ DOMAIN made = 1 .. Len(made)
      /\ \A t : t \in Range(made) <=> \E i \in 1 .. Len(made) : t = made[i]
      /\ \A t \in Range(made) : t.slot \in Nat
      /\ \A i \in 1 .. Len(made) : made[i].slot \in Nat
      /\ derived \in Nat /\ checkpoint \in Int /\ noted \in Int /\ known \in Nat
  BY WholeFacts
<1>4. /\ Handled \cap Absent(InHand) = {} /\ \A t \in missed : t.slot <= known
      /\ checkpoint <= noted
      /\ \A i \in DOMAIN made : made[i].slot <= checkpoint => i <= derived
      /\ checkpoint # NoCheckpoint => \A t \in missed : t.slot <= checkpoint
  BY <1>1 DEF WholeInv, RunningInv, MissedInv
<1>5. \A i \in 1 .. Len(made) : made[i].slot <= slot => i <= derived
  <2>1. Through(made, slot) \in 0 .. Len(made) /\ CutsAt(made, slot, Through(made, slot))
    BY <1>1, <1>2, ThroughCuts
  <2> QED BY <1>2, <1>3, <2>1 DEF CutsAt
<1>6. \A t \in Range(made) : t.slot <= slot => t \in Handled
  <2>1. TAKE t \in Range(made)
  <2>2. HAVE t.slot <= slot
  <2>3. PICK i \in 1 .. Len(made) : t = made[i]
    BY <1>3
  <2>4. i \in 1 .. derived
    BY <1>3, <1>5, <2>2, <2>3
  <2> QED BY <2>3, <2>4 DEF Handled
<1>7. \A t \in Absent(InHand) : t.slot > slot
  <2>1. TAKE t \in Absent(InHand)
  <2>2. t \in Range(made) /\ t.slot \in Nat
    BY <1>3 DEF Absent
  <2>3. ~ (t.slot <= slot)
    BY <1>4, <1>6, <2>2
  <2> QED BY ONLY <1>1, <2>2, <2>3
<1>8. CASE saved = checkpoint
  <2>1. saved <= Noted(slot)
    BY ONLY <1>1, <1>3, <1>4, <1>8
  <2> QED BY <1>4, <1>6, <1>7, <1>8, <2>1
<1>9. CASE saved = known /\ known <= slot /\ Noted(slot) = known
  <2>1. \A i \in 1 .. Len(made) : made[i].slot <= saved => made[i].slot <= slot
    BY ONLY <1>1, <1>3, <1>9
  <2>2. \A i \in DOMAIN made : made[i].slot <= saved => i <= derived
    BY ONLY <1>3, <1>5, <2>1
  <2>3. saved <= Noted(slot)
    BY ONLY <1>3, <1>9
  <2> QED BY <1>4, <1>6, <1>7, <1>9, <2>2, <2>3
<1> QED BY <1>1, <1>8, <1>9

(* The file with all that waits for a slot, or as it was.                  *)
LEMMA WhatIsWritten ==
  ASSUME WholeInv, NEW slot \in 1 .. MaxSlot, Finalized(slot),
         NEW lines \in {disk, disk \o Waiting(slot)}
  PROVE  LET after == Appended(memory, Waiting(slot))
         IN  /\ Range(memory) \subseteq Range(Load(lines))
             /\ Range(Load(lines)) \subseteq Range(InHand)
             /\ Highest(Load(lines)) \in Nat /\ Highest(Load(lines)) <= rooted'
             /\ \A t \in Absent(Load(lines)) : t.slot > Highest(Load(lines))
             /\ \A t \in Absent(after) : t.slot > Higher(through, slot)
<1> DEFINE after == Appended(memory, Waiting(slot))
<1> DEFINE bound == Higher(through, slot)
<1>1. /\ up /\ slot \in Nat /\ rooted' \in Nat /\ rooted <= rooted' /\ slot <= rooted'
  <2>1. rooted' \in 0 .. MaxSlot /\ MaxSlot \in Nat
    BY FinalizedIs, FileStoreAssumption DEF WholeInv
  <2> QED BY <2>1, FinalizedIs DEF WholeInv
<1>2. /\ \A t \in Range(made) : t.slot \in Nat
      /\ rooted \in Nat /\ through \in Nat
      /\ Range(made) \subseteq Fill
      /\ Range(queue) \subseteq Range(made)
      /\ Range(InHand) = Range(memory) \cup Range(queue)
      /\ \A t \in Range(memory) : t.slot <= through
      /\ Highest(Load(disk)) \in Nat
      /\ Range(memory) \subseteq Range(Load(disk)) /\ Range(Load(disk)) \subseteq Range(InHand)
  BY <1>1, WholeFacts
<1>3. /\ Highest(Load(disk)) <= rooted /\ through <= rooted
      /\ \A t \in Absent(Load(disk)) : t.slot > Highest(Load(disk))
      /\ \A t \in Absent(memory) : t.slot > through
  BY <1>1 DEF WholeInv, EndsInv, RunningInv
<1>4. \A t \in Absent(InHand) : t.slot > slot
  BY WhatIsSaved
<1>5. /\ after \in Seq(Range(made)) /\ InOrder(after)
      /\ Range(after) = Range(memory) \cup Range(Waiting(slot))
      /\ lines = disk \/ Load(lines) = Load(disk) \/ Load(lines) = after
  BY <1>1, WriteIs DEF WholeInv
<1>6. Range(Waiting(slot)) = {t \in Range(queue) : t.slot <= slot}
  <2>1. queue \in Seq(Fill) /\ InOrder(queue)
    BY StoreFacts DEF WholeInv
  <2> QED BY <1>1, <2>1, RowsUpTo DEF Waiting
<1> HIDE DEF after
<1>7. bound \in Nat /\ through <= bound /\ slot <= bound /\ bound <= rooted'
  BY <1>1, <1>2, <1>3 DEF Higher
<1>8. bound = through \/ bound = slot
  BY DEF Higher
<1> HIDE DEF bound
<1>9. \A t \in Absent(after) : t.slot > bound /\ t.slot \in Nat
  <2>1. TAKE t \in Absent(after)
  <2>2. t \in Range(made) /\ t \notin Range(memory) /\ t \notin missed /\ t \notin Range(Waiting(slot))
    BY <1>5 DEF Absent
  <2>3. t.slot > through /\ t.slot \in Nat
    BY <1>2, <1>3, <2>2 DEF Absent
  <2>4. t.slot > slot
    <3>1. CASE t \in Range(queue)
      BY ONLY <1>1, <1>6, <2>2, <2>3, <3>1
    <3>2. CASE t \notin Range(queue)
      BY <1>2, <1>4, <2>2, <3>2 DEF Absent
    <3> QED BY <3>1, <3>2
  <2> QED BY ONLY <1>8, <2>3, <2>4
<1>10. Range(after) \subseteq Range(InHand) /\ \A t \in Range(after) : t.slot <= bound
  <2>1. \A t \in Range(memory) : t.slot <= bound
    <3>1. \A t \in Range(memory) : t.slot \in Nat /\ t.slot <= through
      BY WholeFacts
    <3> QED BY ONLY <1>2, <1>7, <3>1
  <2>2. \A t \in Range(Waiting(slot)) : t \in Range(queue) /\ t.slot <= bound
    BY <1>1, <1>2, <1>6, <1>7
  <2> QED BY ONLY <1>2, <1>5, <2>1, <2>2
<1>11. after \in Seq(Fill)
  BY <1>2, <1>5
<1>12. Highest(after) \in Nat /\ Highest(after) <= bound
  <2>1. Highest(after) \in 0 .. MaxSlot /\ MaxSlot \in Nat
    BY <1>5, <1>11, HighestBounds, FileStoreAssumption
  <2>2. Highest(after) <= bound
    BY <1>5, <1>7, <1>10, <1>11, HighestWithin
  <2> QED BY ONLY <2>1, <2>2
<1>13. CASE Load(lines) = Load(disk)
  <2>1. Highest(Load(disk)) <= rooted'
    BY ONLY <1>1, <1>2, <1>3
  <2> QED BY <1>2, <1>3, <1>9, <1>13, <2>1 DEF after, bound
<1>14. CASE Load(lines) = after
  <2>1. Highest(after) <= rooted' /\ \A t \in Absent(after) : t.slot > Highest(after)
    BY ONLY <1>1, <1>7, <1>9, <1>12
  <2>2. Range(memory) \subseteq Range(after)
    BY <1>5
  <2> QED BY <1>9, <1>10, <1>12, <1>14, <2>1, <2>2 DEF after, bound
<1> QED BY <1>5, <1>13, <1>14

(* What WholeInv says of rows passed over, for one step at a time. *)
Accounted == EndsInv /\ MissedInv /\ RunningInv /\ DownInv

LEMMA TradeAccounts ==
  ASSUME WholeInv, Trade
  PROVE  Accounted'
<1>1. PICK fill \in Fill :
           /\ fill.signature <= Len(made) + 1 /\ rooted < fill.slot /\ known <= fill.slot
           /\ \A t \in Range(made) : Before(t, fill)
           /\ made' = Append(made, fill)
           /\ UNCHANGED <<rooted, derived, known, queue, through, memory, noted, files, up, history>>
  BY TradeIs DEF WholeInv
<1>2. UNCHANGED <<rooted, derived, known, queue, through, memory, noted, disk, checkpoint, up, missed, faults>>
  BY <1>1 DEF files, history
<1>3. /\ Len(made') = Len(made) + 1
      /\ made'[Len(made) + 1] = fill /\ \A i \in 1 .. Len(made) : made'[i] = made[i]
      /\ Range(made') = Range(made) \cup {fill} /\ fill \notin Range(made)
  BY <1>1, <1>2, ChainGrows DEF WholeInv
<1>4. /\ Len(made) \in Nat /\ DOMAIN made = 1 .. Len(made) /\ derived \in Nat /\ derived <= Len(made)
      /\ rooted \in Nat /\ through \in Nat /\ checkpoint \in Int
      /\ Highest(Load(disk)) \in Nat /\ Handled \subseteq Range(made)
      /\ Range(Load(disk)) \subseteq Range(made)
      /\ Range(InHand) \subseteq Range(made)
  BY WholeFacts
<1>5. fill.slot \in Nat
  BY FillsAreReadable
<1>6. /\ Handled' = Handled /\ InHand' = InHand /\ Load(disk)' = Load(disk)
      /\ Highest(Load(disk))' = Highest(Load(disk))
  <2>1. \A i \in 1 .. derived : i \in 1 .. Len(made)
    BY <1>4
  <2>2. Handled' = Handled
    BY <1>2, <1>3, <2>1 DEF Handled
  <2>3. InHand' = InHand /\ Load(disk)' = Load(disk)
    BY <1>2 DEF InHand, Load
  <2>4. Highest(Load(disk))' = Highest(Load(disk))
    BY <2>3 DEF Highest, Slots
  <2> QED BY <2>2, <2>3, <2>4
<1> HIDE DEF Range
<1>7. /\ Absent(Load(disk))' \subseteq Absent(Load(disk)) \cup {fill}
      /\ Absent(InHand)' \subseteq Absent(InHand) \cup {fill}
      /\ Absent(memory)' \subseteq Absent(memory) \cup {fill}
  BY <1>2, <1>3, <1>6 DEF Absent, Range
<1>8. checkpoint <= rooted /\ through <= rooted /\ Highest(Load(disk)) <= rooted
  BY <1>4 DEF WholeInv, StoreInv, PlacesInv, EndsInv
<1>9. fill.slot > Highest(Load(disk)) /\ fill.slot > through /\ fill.slot > checkpoint
  BY ONLY <1>1, <1>4, <1>5, <1>8
<1>10. EndsInv'
  BY <1>2, <1>6, <1>7, <1>9 DEF WholeInv, EndsInv
<1>11. MissedInv'
  <2>1. Range(Load(disk))' = Range(Load(disk)) /\ Range(InHand)' = Range(InHand)
    BY <1>6 DEF Range
  <2> QED BY <1>2, <1>3, <2>1 DEF WholeInv, MissedInv, OnlyDebtsAreLost
<1>12. RunningInv'
  <2>1. SUFFICES ASSUME up PROVE RunningInv'
    BY <1>2 DEF RunningInv
  <2>2. Handled' \cap Absent(InHand)' = {}
    BY <1>3, <1>4, <1>6, <1>7, <2>1 DEF WholeInv, RunningInv
  <2>3. \A i \in DOMAIN made' : made'[i].slot <= checkpoint => i <= derived
    <3>1. made' \in Seq(Fill) /\ DOMAIN made' = 1 .. Len(made) + 1
      BY <1>1, <1>4 DEF WholeInv, StoreInv, ChainInv
    <3>2. TAKE i \in DOMAIN made'
    <3>3. CASE i = Len(made) + 1
      BY ONLY <1>3, <1>4, <1>5, <1>9, <3>3
    <3>4. CASE i # Len(made) + 1
      <4>1. i \in 1 .. Len(made) /\ made'[i] = made[i]
        BY <1>3, <1>4, <3>1, <3>4
      <4> QED BY <1>4, <2>1, <4>1 DEF WholeInv, RunningInv
    <3> QED BY <3>3, <3>4
  <2> QED BY <1>2, <1>6, <1>7, <1>9, <2>1, <2>2, <2>3 DEF WholeInv, RunningInv
<1>13. DownInv'
  BY <1>2, <1>7, <1>9 DEF WholeInv, DownInv
<1> QED BY <1>10, <1>11, <1>12, <1>13 DEF Accounted

LEMMA StillAccounts ==
  ASSUME WholeInv, known' \in Nat, known <= known',
         UNCHANGED <<made, rooted, derived, queue, through, memory, noted, disk, checkpoint, up, missed, faults>>
  PROVE  Accounted'
<1>1. /\ Handled' = Handled /\ InHand' = InHand /\ Load(disk)' = Load(disk)
      /\ Highest(Load(disk))' = Highest(Load(disk))
  <2>1. Handled' = Handled /\ InHand' = InHand /\ Load(disk)' = Load(disk)
    BY DEF Handled, InHand, Load
  <2> QED BY <2>1 DEF Highest, Slots
<1>2. /\ Absent(Load(disk))' = Absent(Load(disk)) /\ Absent(InHand)' = Absent(InHand)
      /\ Absent(memory)' = Absent(memory)
  BY <1>1 DEF Absent
<1>3. EndsInv'
  BY <1>1, <1>2 DEF WholeInv, EndsInv
<1>4. MissedInv'
  BY <1>1 DEF WholeInv, MissedInv, OnlyDebtsAreLost
<1>5. RunningInv'
  <2>1. SUFFICES ASSUME up PROVE RunningInv'
    BY DEF RunningInv
  <2>2. \A t \in missed : t.slot <= known'
    <3>1. \A t \in missed : t.slot \in Nat /\ t.slot <= known
      BY <2>1, WholeFacts DEF WholeInv, MissedInv, RunningInv
    <3>2. known \in Nat
      BY WholeFacts
    <3> QED BY ONLY known' \in Nat, known <= known', <3>1, <3>2
  <2> QED BY <1>1, <1>2, <2>1, <2>2 DEF WholeInv, RunningInv
<1>6. DownInv'
  BY <1>2 DEF WholeInv, DownInv
<1> QED BY <1>3, <1>4, <1>5, <1>6 DEF Accounted

(* What is derived joins the rows in hand, or was stored already: nothing  *)
(* is passed over.                                                         *)
LEMMA DeriveAccounts ==
  ASSUME WholeInv, Derive
  PROVE  Accounted'
<1> DEFINE fill == made[derived + 1]
<1>1. /\ up /\ derived < Len(made) /\ derived' = derived + 1 /\ known' = fill.slot
      /\ queue' = Recorded(fill)
      /\ missed' = missed \cup ({fill} \ (Range(memory) \cup Range(queue')))
      /\ UNCHANGED <<made, rooted, through, memory, noted, disk, checkpoint, up, faults>>
  BY DEF Derive, chain, files
<1>2. /\ Len(made) \in Nat /\ DOMAIN made = 1 .. Len(made) /\ derived \in Nat
      /\ \A i \in 1 .. Len(made) : made[i] \in Range(made) /\ made[i].slot \in Nat
      /\ through \in Nat /\ Range(InHand) = Range(memory) \cup Range(queue)
      /\ Range(Load(disk)) \subseteq Range(InHand)
      /\ Range(queue) \subseteq Handled
  BY <1>1, WholeFacts
<1>3. derived + 1 \in 1 .. Len(made) /\ fill \in Range(made) /\ fill.slot \in Nat
  BY <1>1, <1>2
<1>4. /\ made \in Seq(Fill) /\ InOrder(made)
      /\ queue \in Seq(Range(made)) /\ memory \in Seq(Range(made))
  BY DEF WholeInv, StoreInv, ChainInv, ListsInv
<1>5. \A i \in 1 .. derived : Before(made[i], fill)
  BY <1>2, <1>3, <1>4 DEF InOrder
<1>6. fill \notin Handled
  <2>1. ~ Before(fill, fill)
    BY <1>3, <1>4, FillsAreReadable DEF Before
  <2> QED BY <1>5, <2>1 DEF Handled
<1>7. Handled' = Handled \cup {fill}
  <2>1. \A i : i \in 1 .. derived + 1 <=> i \in 1 .. derived \/ i = derived + 1
    BY <1>2
  <2> QED BY <1>1, <2>1 DEF Handled
<1>8. /\ Handled \cap Absent(InHand) = {} /\ missed \subseteq Handled
      /\ \A t \in Absent(memory) : t.slot > through
      /\ checkpoint <= noted
      /\ \A i \in DOMAIN made : made[i].slot <= checkpoint => i <= derived
      /\ missed \cap (Range(Load(disk)) \cup Range(InHand)) = {}
  BY <1>1 DEF WholeInv, RunningInv, MissedInv
<1>9. fill \notin missed
  BY <1>6, <1>8
<1> HIDE DEF fill, Range
<1>10. /\ fill \in Range(memory) \cup Range(queue')
       /\ Range(queue') \subseteq Range(queue) \cup {fill} /\ Range(queue) \subseteq Range(queue')
  <2>1. CASE fill.slot <= through
    <3>1. fill \in Range(memory)
      <4>1. fill \notin Absent(memory)
        BY ONLY <1>2, <1>3, <1>8, <2>1
      <4> QED BY <1>3, <1>9, <4>1 DEF Absent
    <3> QED BY <1>1, <2>1, <3>1 DEF Recorded
  <2>2. CASE ~ (fill.slot <= through)
    <3>1. queue' = Append(queue, fill)
      BY <1>1, <2>2 DEF Recorded
    <3>2. Range(Append(queue, fill)) = Range(queue) \cup {fill}
      <4>1. /\ DOMAIN Append(queue, fill) = 1 .. Len(queue) + 1 /\ DOMAIN queue = 1 .. Len(queue)
            /\ Append(queue, fill)[Len(queue) + 1] = fill /\ Len(queue) \in Nat
            /\ \A i \in 1 .. Len(queue) : Append(queue, fill)[i] = queue[i]
        BY <1>4
      <4>2. \A i : i \in 1 .. Len(queue) + 1 <=> i \in 1 .. Len(queue) \/ i = Len(queue) + 1
        BY <4>1
      <4> QED BY <4>1, <4>2 DEF Range
    <3> QED BY <3>1, <3>2
  <2> QED BY <2>1, <2>2
<1>11. missed' = missed
  BY <1>1, <1>10
<1>12. Range(InHand)' = Range(memory) \cup Range(queue')
  <2>1. queue' \in Seq(Fill) /\ memory \in Seq(Fill)
    <3>1. memory' \in Seq(Range(made')) /\ queue' \in Seq(Range(made')) /\ Range(made') = Range(made)
      BY <1>1, DeriveKeeps DEF WholeInv, Keeps, StoreInv, ListsInv
    <3>2. Range(made) \subseteq Fill
      BY WholeFacts
    <3> QED BY <1>4, <3>1, <3>2
  <2>2. Range(memory \o queue') = Range(memory) \cup Range(queue')
    BY <2>1, RangeConcatenation
  <2>3. InHand' = memory \o queue'
    BY <1>1 DEF InHand
  <2>4. Range(InHand)' = Range(InHand')
    BY DEF Range
  <2> QED BY <2>2, <2>3, <2>4
<1>13. /\ Load(disk)' = Load(disk) /\ Highest(Load(disk))' = Highest(Load(disk))
       /\ Range(Load(disk))' = Range(Load(disk))
  <2>1. Load(disk)' = Load(disk)
    BY <1>1 DEF Load
  <2> QED BY <2>1 DEF Highest, Slots, Range
<1>14. /\ Absent(Load(disk))' = Absent(Load(disk)) /\ Absent(memory)' = Absent(memory)
       /\ Absent(InHand)' = Range(made) \ (Range(memory) \cup Range(queue') \cup missed)
  <2>1. Range(made)' = Range(made) /\ Range(memory)' = Range(memory)
    BY <1>1 DEF Range
  <2> QED BY <1>11, <1>12, <1>13, <2>1 DEF Absent
<1>15. EndsInv'
  BY <1>1, <1>13, <1>14 DEF WholeInv, EndsInv
<1>16. MissedInv'
  <2>1. Range(made)' = Range(made)
    BY <1>1 DEF Range
  <2>2. missed \cap (Range(Load(disk)) \cup Range(InHand)') = {}
    BY <1>2, <1>8, <1>9, <1>10, <1>12
  <2> QED BY <1>1, <1>11, <1>13, <2>1, <2>2 DEF WholeInv, MissedInv, OnlyDebtsAreLost
<1>17. RunningInv'
  <2>1. Handled' \cap Absent(InHand)' = {} /\ missed' \subseteq Handled'
    BY <1>2, <1>7, <1>8, <1>10, <1>11, <1>14 DEF Absent
  <2>2. \A t \in missed' : t.slot <= known'
    <3>1. \A t \in Handled : t.slot <= fill.slot
      BY <1>5 DEF Handled, Before
    <3> QED BY <1>1, <1>8, <1>11, <3>1 DEF fill
  <2>3. \A i \in DOMAIN made : made[i].slot <= checkpoint => i <= derived + 1
    <3>1. \A i \in DOMAIN made : i \in Nat
      BY <1>2
    <3> QED BY ONLY <1>2, <1>8, <3>1
  <2>4. \A t \in Absent(memory)' : t.slot > through'
    BY <1>1, <1>8, <1>14
  <2> QED BY <1>1, <1>8, <2>1, <2>2, <2>3, <2>4 DEF RunningInv
<1>18. DownInv'
  BY <1>1 DEF DownInv
<1> QED BY <1>15, <1>16, <1>17, <1>18 DEF Accounted

(* Rows written and remembered, with the checkpoint filed or not.          *)
LEMMA WritesAccount ==
  ASSUME WholeInv, ~ Tears, NEW slot \in 1 .. MaxSlot, Writes(slot),
         checkpoint' \in {checkpoint, Filed(slot)},
         faults'.owed = faults.owed, faults'.cold = faults.cold
  PROVE  Accounted'
<1> DEFINE lines == disk \o Waiting(slot)
<1> DEFINE after == Appended(memory, Waiting(slot))
<1>1. /\ Finalized(slot) /\ noted' = Noted(slot)
      /\ disk' = Joined(Waiting(slot)) /\ memory' = after /\ queue' = Later(slot)
      /\ through' = Higher(through, slot)
      /\ derived' = derived /\ known' = known /\ up' = up /\ missed' = missed
  BY DEF Writes
<1>2. up /\ made' = made /\ slot \in Nat /\ rooted' = Higher(rooted, slot) /\ rooted \in Nat
  BY <1>1, FinalizedIs DEF WholeInv, Finalized
<1>3. disk' = lines /\ memory' \o queue' = InHand
  BY <1>1, <1>2, WriteIs DEF WholeInv
<1>4. /\ Range(Load(lines)) \subseteq Range(InHand)
      /\ Highest(Load(lines)) <= rooted'
      /\ \A t \in Absent(Load(lines)) : t.slot > Highest(Load(lines))
      /\ \A t \in Absent(after) : t.slot > Higher(through, slot)
  BY <1>1, WhatIsWritten
<1>5. /\ checkpoint' # NoCheckpoint => \A t \in missed : t.slot <= checkpoint'
      /\ checkpoint' <= Noted(slot)
      /\ \A i \in DOMAIN made : made[i].slot <= checkpoint' => i <= derived
  BY <1>1, WhatIsSaved
<1> HIDE DEF after, lines
<1>6. InHand' = InHand /\ Load(disk)' = Load(lines) /\ Handled' = Handled
  BY <1>1, <1>2, <1>3 DEF InHand, Load, Handled
<1>7. /\ Highest(Load(disk))' = Highest(Load(lines))
      /\ Absent(Load(disk))' = Absent(Load(lines)) /\ Absent(memory)' = Absent(after)
      /\ Absent(InHand)' = Absent(InHand)
      /\ Range(Load(disk))' = Range(Load(lines)) /\ Range(InHand)' = Range(InHand)
      /\ Range(made)' = Range(made)
  BY <1>1, <1>2, <1>6 DEF Highest, Slots, Absent, Range
<1>8. through' <= rooted'
  <2>1. through \in Nat /\ through <= rooted
    BY WholeFacts DEF WholeInv, EndsInv
  <2> QED BY <1>1, <1>2, <2>1 DEF Higher
<1> HIDE DEF Range
<1>9. EndsInv'
  BY <1>4, <1>7, <1>8 DEF EndsInv
<1>10. MissedInv'
  BY <1>1, <1>4, <1>5, <1>7 DEF WholeInv, MissedInv, OnlyDebtsAreLost
<1>11. RunningInv'
  BY <1>1, <1>2, <1>4, <1>5, <1>6, <1>7 DEF WholeInv, RunningInv
<1>12. DownInv'
  BY <1>1, <1>2 DEF DownInv
<1> QED BY <1>9, <1>10, <1>11, <1>12 DEF Accounted

(* What a write that did not succeed left, when lines come all or none.    *)
LEMMA LeftIs ==
  ASSUME WholeInv, ~ Tears, up, NEW slot \in Nat,
         \E left \in Leavings(Waiting(slot)) : disk' = left.disk /\ open' = left.open
  PROVE  disk' \in {disk, disk \o Waiting(slot)}
<1>1. PICK left \in Leavings(Waiting(slot)) : disk' = left.disk
  OBVIOUS
<1>2. /\ disk \in Seq(Range(made)) /\ ~ open /\ queue \in Seq(Range(made))
  BY DEF WholeInv, StoreInv, ListsInv, FileInv
<1>3. Waiting(slot) \in Seq(Range(made))
  <2>1. /\ Through(queue, slot) \in 0 .. Len(queue)
        /\ Waiting(slot) = SubSeq(queue, 1, Through(queue, slot))
    BY WaitingCut DEF WholeInv
  <2>2. Through(queue, slot) \in Nat /\ Through(queue, slot) <= Len(queue)
    BY <1>2, <2>1
  <2> QED BY <1>2, <2>1, <2>2, PrefixSeq
<1>4. left.disk = disk \/ left.disk = disk \o Waiting(slot)
  BY <1>2, <1>3, AllOrNone
<1> QED BY <1>1, <1>4

LEMMA FlushFailsAccounts ==
  ASSUME WholeInv, ~ Tears, NEW slot \in 1 .. MaxSlot, FlushFails(slot)
  PROVE  Accounted'
<1>1. /\ Finalized(slot) /\ Waiting(slot) # <<>> /\ Fails /\ noted' = Noted(slot)
      /\ checkpoint' \in {checkpoint, Filed(slot)}
      /\ through' = Head(Waiting(slot)).slot - 1
      /\ \E left \in Leavings(Waiting(slot)) : disk' = left.disk /\ open' = left.open
      /\ UNCHANGED <<derived, known, queue, memory, up, acked, missed>>
  BY DEF FlushFails
<1>2. up /\ made' = made /\ slot \in Nat /\ slot <= rooted' /\ rooted' \in 0 .. MaxSlot
  BY <1>1, FinalizedIs DEF WholeInv
<1>3. faults'.owed = faults.owed /\ faults'.cold = faults.cold
  BY <1>1, FailsIs DEF WholeInv
<1>4. disk' \in {disk, disk \o Waiting(slot)}
  BY <1>1, <1>2, LeftIs
<1>5. /\ Range(Load(disk')) \subseteq Range(InHand)
      /\ Highest(Load(disk')) <= rooted'
      /\ \A t \in Absent(Load(disk')) : t.slot > Highest(Load(disk'))
  BY <1>1, <1>4, WhatIsWritten
<1>6. /\ checkpoint' # NoCheckpoint => \A t \in missed : t.slot <= checkpoint'
      /\ checkpoint' <= Noted(slot)
      /\ \A i \in DOMAIN made : made[i].slot <= checkpoint' => i <= derived
      /\ \A t \in Absent(InHand) : t.slot > slot
  BY <1>1, WhatIsSaved
<1>7. /\ Head(Waiting(slot)).slot \in 1 .. MaxSlot
      /\ Head(Waiting(slot)).slot <= slot
      /\ \A t \in Range(queue) : Head(Waiting(slot)).slot <= t.slot
  BY <1>1, <1>2, HeadWaits DEF WholeInv
<1>8. /\ Range(InHand) = Range(memory) \cup Range(queue)
      /\ \A t \in Range(made) : t.slot \in Nat
  BY WholeFacts
<1>9. InHand' = InHand /\ Load(disk)' = Load(disk') /\ Handled' = Handled
  BY <1>1, <1>2 DEF InHand, Load, Handled
<1>10. /\ Highest(Load(disk))' = Highest(Load(disk'))
       /\ Absent(Load(disk))' = Absent(Load(disk')) /\ Absent(memory)' = Absent(memory)
       /\ Absent(InHand)' = Absent(InHand)
       /\ Range(Load(disk))' = Range(Load(disk')) /\ Range(InHand)' = Range(InHand)
       /\ Range(made)' = Range(made)
  BY <1>1, <1>2, <1>9 DEF Highest, Slots, Absent, Range
<1>11. MaxSlot \in Nat
  BY FileStoreAssumption
<1>12. through' <= rooted'
  BY ONLY <1>1, <1>2, <1>7, <1>11
<1> HIDE DEF Range
<1>13. \A t \in Absent(memory) : t.slot > through'
  <2>1. TAKE t \in Absent(memory)
  <2>2. t \in Range(queue) \/ t \in Absent(InHand)
    BY <1>8 DEF Absent
  <2>3. t.slot \in Nat
    BY <1>8 DEF Absent
  <2>4. Head(Waiting(slot)).slot <= t.slot
    <3>1. CASE t \in Range(queue)
      BY <1>7, <3>1
    <3>2. CASE t \in Absent(InHand)
      <4>1. t.slot > slot
        BY <1>6, <3>2
      <4> QED BY ONLY <1>2, <1>7, <1>11, <2>3, <4>1
    <3> QED BY <2>2, <3>1, <3>2
  <2> QED BY ONLY <1>1, <1>7, <1>11, <2>3, <2>4
<1>14. EndsInv'
  BY <1>5, <1>10, <1>12 DEF EndsInv
<1>15. MissedInv'
  BY <1>1, <1>3, <1>5, <1>6, <1>10 DEF WholeInv, MissedInv, OnlyDebtsAreLost
<1>16. RunningInv'
  BY <1>1, <1>2, <1>6, <1>9, <1>10, <1>13 DEF WholeInv, RunningInv
<1>17. DownInv'
  BY <1>1, <1>2 DEF DownInv
<1> QED BY <1>14, <1>15, <1>16, <1>17 DEF Accounted

(* A death: what the checkpoint covers is in the file, unless rooted rows  *)
(* waited.                                                                 *)
LEMMA DeathAccounts ==
  ASSUME WholeInv, Dies, up, made' = made, rooted' \in Nat,
         checkpoint' \in Int, checkpoint' <= rooted',
         Highest(Load(disk')) <= rooted',
         \A t \in Absent(Load(disk')) : t.slot > Highest(Load(disk')),
         Range(memory) \subseteq Range(Load(disk')),
         Range(Load(disk')) \subseteq Range(InHand),
         checkpoint' # NoCheckpoint => \A t \in missed : t.slot <= checkpoint',
         \A i \in DOMAIN made : made[i].slot <= checkpoint' => i <= derived
  PROVE  Accounted'
<1>1. /\ up' = FALSE /\ through' = 0 /\ memory' = <<>> /\ queue' = <<>> /\ missed' = missed
  BY DEF Dies
<1>2. /\ faults'.cold = faults.cold
      /\ ~ faults'.owed => ~ faults.owed /\ Waiting(rooted') = <<>>
  BY DiesIs DEF WholeInv
<1>3. Load(disk)' = Load(disk') /\ InHand' = <<>>
  BY <1>1 DEF Load, InHand
<1>4. /\ Highest(Load(disk))' = Highest(Load(disk'))
      /\ Absent(Load(disk))' = Absent(Load(disk'))
      /\ Range(Load(disk))' = Range(Load(disk')) /\ Range(InHand)' = {}
      /\ Range(made)' = Range(made)
  BY <1>1, <1>3 DEF Highest, Slots, Absent, Range
<1>5. EndsInv'
  BY <1>1, <1>4 DEF EndsInv
<1> HIDE DEF Range
<1>6. missed \cap Range(Load(disk')) = {}
  BY DEF WholeInv, MissedInv
<1>7. OnlyDebtsAreLost'
  BY <1>1, <1>2 DEF WholeInv, MissedInv, OnlyDebtsAreLost
<1>8. MissedInv'
  BY <1>1, <1>4, <1>6, <1>7 DEF WholeInv, MissedInv
<1>9. RunningInv'
  BY <1>1 DEF RunningInv
<1>10. ASSUME ~ faults'.owed, NEW t \in Absent(Load(disk')) PROVE t.slot > checkpoint'
  <2>1. t \in Range(made) /\ t \notin Range(Load(disk')) /\ t \notin missed
    BY <1>10 DEF Absent
  <2>2. PICK i \in DOMAIN made : t = made[i]
    BY <2>1, WholeFacts
  <2>3. t.slot \in Nat /\ i \in Nat /\ derived \in Nat /\ i >= 1
    BY <2>1, <2>2, WholeFacts
  <2>4. SUFFICES ASSUME t.slot <= checkpoint' PROVE FALSE
    BY <2>3
  <2>5. i \in 1 .. derived
    BY <2>2, <2>3, <2>4
  <2>6. t \in Handled
    BY <2>2, <2>5 DEF Handled
  <2>7. Handled \cap Absent(InHand) = {} /\ Range(InHand) = Range(memory) \cup Range(queue)
    BY WholeFacts DEF WholeInv, RunningInv
  <2>8. t \in Range(queue)
    BY <2>1, <2>6, <2>7 DEF Absent
  <2>9. queue \in Seq(Fill) /\ InOrder(queue)
    BY StoreFacts DEF WholeInv
  <2>10. Range(UpTo(queue, rooted')) = {r \in Range(queue) : r.slot <= rooted'}
    BY <2>9, RowsUpTo
  <2>11. t \in Range(Waiting(rooted'))
    <3>1. t.slot <= rooted'
      BY <2>3, <2>4
    <3> QED BY <2>8, <2>10, <3>1 DEF Waiting
  <2>12. Waiting(rooted') = <<>>
    BY <1>2, <1>10
  <2> QED BY <2>11, <2>12 DEF Range
<1>11. DownInv'
  BY <1>4, <1>10 DEF DownInv
<1> QED BY <1>5, <1>8, <1>9, <1>11 DEF Accounted

LEMMA CrashAccounts ==
  ASSUME WholeInv, Crash
  PROVE  Accounted'
<1>1. /\ up /\ Dies /\ made' = made /\ rooted' = rooted /\ disk' = disk /\ checkpoint' = checkpoint
  BY DEF Crash, chain, files
<1>2. /\ rooted \in Nat /\ checkpoint \in Int /\ checkpoint <= rooted
  <2>1. /\ rooted \in 0 .. MaxSlot /\ MaxSlot \in Nat
        /\ checkpoint \in NoCheckpoint .. rooted /\ NoCheckpoint = -1
    BY FileStoreAssumption DEF WholeInv, StoreInv, ChainInv, PlacesInv, NoCheckpoint
  <2> QED BY <2>1
<1>3. /\ Range(memory) \subseteq Range(Load(disk)) /\ Range(Load(disk)) \subseteq Range(InHand)
  BY <1>1, WholeFacts
<1>4. /\ Highest(Load(disk)) <= rooted
      /\ \A t \in Absent(Load(disk)) : t.slot > Highest(Load(disk))
      /\ checkpoint # NoCheckpoint => \A t \in missed : t.slot <= checkpoint
      /\ \A i \in DOMAIN made : made[i].slot <= checkpoint => i <= derived
  BY <1>1 DEF WholeInv, EndsInv, MissedInv, RunningInv
<1>5. Load(disk') = Load(disk)
  BY <1>1
<1> QED BY <1>1, <1>2, <1>3, <1>4, <1>5, DeathAccounts

LEMMA CrashInFlushAccounts ==
  ASSUME WholeInv, ~ Tears, NEW slot \in 1 .. MaxSlot, CrashInFlush(slot)
  PROVE  Accounted'
<1>1. /\ Finalized(slot) /\ Dies
      /\ \/ disk' = disk /\ checkpoint' = checkpoint
         \/ /\ checkpoint' = Filed(slot)
            /\ \E left \in Leavings(Waiting(slot)) : disk' = left.disk /\ open' = left.open
  BY DEF CrashInFlush, files
<1>2. /\ up /\ made' = made /\ rooted' \in 0 .. MaxSlot /\ slot \in Nat
      /\ checkpoint' \in NoCheckpoint .. rooted'
  BY <1>1, FinalizedIs DEF WholeInv
<1>3. rooted' \in Nat /\ checkpoint' \in Int /\ checkpoint' <= rooted'
  BY <1>2, FileStoreAssumption DEF NoCheckpoint
<1>4. disk' \in {disk, disk \o Waiting(slot)}
  BY <1>1, <1>2, LeftIs
<1>5. /\ Range(memory) \subseteq Range(Load(disk')) /\ Range(Load(disk')) \subseteq Range(InHand)
      /\ Highest(Load(disk')) <= rooted'
      /\ \A t \in Absent(Load(disk')) : t.slot > Highest(Load(disk'))
  BY <1>1, <1>4, WhatIsWritten
<1>6. checkpoint' \in {checkpoint, Filed(slot)}
  BY <1>1
<1>7. /\ checkpoint' # NoCheckpoint => \A t \in missed : t.slot <= checkpoint'
      /\ \A i \in DOMAIN made : made[i].slot <= checkpoint' => i <= derived
  BY <1>1, <1>6, WhatIsSaved
<1> QED BY <1>1, <1>2, <1>3, <1>5, <1>7, DeathAccounts

(* A restart passes over what its start covers and the file lacks: nothing *)
(* where the file has what the checkpoint covers.                          *)
LEMMA RestartAccounts ==
  ASSUME WholeInv, Restart
  PROVE  Accounted'
<1> DEFINE L == Load(disk)
<1> DEFINE n == derived'
<1> DEFINE Start == {made[i] : i \in 1 .. n}
<1>1. /\ ~ up /\ up' = TRUE /\ memory' = L /\ queue' = <<>> /\ through' = Highest(L)
      /\ noted' = checkpoint
      /\ made' = made /\ rooted' = rooted /\ disk' = disk /\ checkpoint' = checkpoint
  BY DEF Restart, chain, files
<1>2. /\ faults'.owed = faults.owed
      /\ ~ faults'.cold => ~ faults.cold /\ checkpoint # NoCheckpoint
  BY StartCounts DEF WholeInv
<1>3. /\ DOMAIN made = 1 .. Len(made) /\ Len(made) \in Nat
      /\ \A t : t \in Range(made) <=> \E i \in 1 .. Len(made) : t = made[i]
      /\ \A t \in Range(made) : t.slot \in Nat
      /\ \A i \in 1 .. Len(made) : made[i] \in Range(made) /\ made[i].slot \in Nat
      /\ checkpoint \in Int /\ L \in Seq(Fill) /\ NoCheckpoint = -1
  BY WholeFacts
<1>4. /\ n \in 0 .. Len(made) /\ missed' = missed \cup (Start \ Range(L))
      /\ \A t \in missed' : t \in Start
      /\ \A t \in Start : t.slot <= known' /\ known' \in Nat
      /\ \A i \in 1 .. Len(made) : made[i].slot <= checkpoint => i <= n
      /\ checkpoint # NoCheckpoint => known' = checkpoint
  <2> HIDE DEF L
  <2>1. made \in Seq(Fill) /\ InOrder(made) /\ MaxSlot \in Nat
    BY FileStoreAssumption DEF WholeInv, StoreInv, ChainInv
  <2>2. missed \subseteq Range(made)
    BY DEF WholeInv, MissedInv
  <2>3. CASE /\ checkpoint # NoCheckpoint /\ checkpoint \in Nat
             /\ CutsAt(made, checkpoint, n) /\ known' = checkpoint
             /\ n \in 0 .. Len(made) /\ StartsAt(checkpoint, n)
    <3>1. missed' = missed \cup (Start \ Range(L))
      BY <2>3 DEF StartsAt, L
    <3>2. \A i \in 1 .. Len(made) : i <= n <=> made[i].slot <= checkpoint
      BY <1>3, <2>3 DEF CutsAt
    <3>3. \A t \in missed : t.slot <= checkpoint
      BY <2>3 DEF WholeInv, MissedInv
    <3>4. \A t \in missed : t \in Start
      <4>1. TAKE t \in missed
      <4>2. PICK i \in 1 .. Len(made) : t = made[i]
        BY <1>3, <2>2
      <4>3. i \in 1 .. n
        BY <2>3, <3>2, <3>3, <4>2
      <4> QED BY <4>2, <4>3
    <3>5. \A t \in Start : t.slot <= known'
      <4>1. \A i \in 1 .. n : i \in 1 .. Len(made) /\ i <= n
        BY <1>3, <2>3
      <4> QED BY <2>3, <3>2, <4>1
    <3> QED BY <2>3, <3>1, <3>2, <3>4, <3>5
  <2>4. CASE /\ checkpoint = NoCheckpoint
             /\ Highest(made) <= known' /\ n = Len(made)
             /\ n \in 0 .. Len(made) /\ known' \in 0 .. MaxSlot
             /\ StartsAt(known', Len(made))
    <3>1. missed' = missed \cup (Start \ Range(L))
      BY <2>4 DEF StartsAt, L
    <3>2. \A t \in Range(made) : t \in Start
      BY <1>3, <2>4
    <3>3. \A t \in Start : t.slot <= known'
      <4>1. Highest(made) \in 0 .. MaxSlot /\ \A i \in DOMAIN made : made[i].slot <= Highest(made)
        BY <2>1, HighestBounds
      <4>2. \A i \in 1 .. Len(made) : made[i].slot <= known'
        BY <1>3, <2>1, <2>4, <4>1
      <4> QED BY <2>4, <4>2
    <3>4. known' \in Nat
      BY <2>1, <2>4
    <3> QED BY <1>3, <2>2, <2>4, <3>1, <3>2, <3>3, <3>4
  <2> QED BY <2>3, <2>4, StartIs DEF WholeInv
<1>5. InHand' = L
  BY <1>1, <1>3 DEF InHand
<1>6. Handled' = Start
  BY <1>1 DEF Handled
<1> HIDE DEF n, Start
<1>7. /\ Load(disk)' = L /\ Highest(Load(disk))' = Highest(L)
      /\ Range(Load(disk))' = Range(L) /\ Range(InHand)' = Range(L)
      /\ Range(made)' = Range(made)
      /\ Absent(L)' = Range(made) \ (Range(L) \cup missed')
      /\ Absent(InHand)' = Range(made) \ (Range(L) \cup missed')
      /\ Absent(memory)' = Range(made) \ (Range(L) \cup missed')
  <2>1. Load(disk)' = L
    BY <1>1 DEF Load
  <2> QED BY <1>1, <1>5, <2>1 DEF Highest, Slots, Range, Absent
<1>8. /\ Highest(L) <= rooted /\ \A t \in Absent(L) : t.slot > Highest(L)
      /\ missed \subseteq Range(made) /\ missed \cap Range(L) = {}
      /\ OnlyDebtsAreLost
      /\ ~ faults.owed => \A t \in Absent(L) : t.slot > checkpoint
  BY <1>1 DEF WholeInv, EndsInv, MissedInv, DownInv
<1> HIDE DEF Range, L
<1>9. \A t \in Range(made) : t \notin Range(L) /\ t \notin missed' => t \in Absent(L)
  BY <1>4 DEF Absent
<1>10. Start \subseteq Range(made)
  BY <1>3, <1>4 DEF Start, n
<1>11. EndsInv'
  BY <1>1, <1>7, <1>8, <1>9 DEF EndsInv, L
<1>12. MissedInv'
  <2>1. OnlyDebtsAreLost'
    <3>1. SUFFICES ASSUME ~ faults.owed, ~ faults.cold, checkpoint # NoCheckpoint
                   PROVE  missed' = {}
      BY <1>2 DEF OnlyDebtsAreLost
    <3>2. missed = {}
      BY <1>8, <3>1 DEF OnlyDebtsAreLost
    <3>3. ASSUME NEW t \in Start, t \notin Range(L) PROVE FALSE
      <4>1. t \in Absent(L)
        BY <1>10, <3>2, <3>3 DEF Absent
      <4>2. t.slot > checkpoint /\ t.slot <= checkpoint /\ t.slot \in Nat
        BY <1>3, <1>4, <1>8, <1>10, <3>1, <4>1
      <4> QED BY ONLY <1>3, <4>2
    <3> QED BY <1>4, <3>2, <3>3
  <2>2. checkpoint' # NoCheckpoint => \A t \in missed' : t.slot <= checkpoint'
    BY <1>1, <1>4
  <2>3. missed' \cap Range(L) = {} /\ missed' \subseteq Range(made)
    BY <1>4, <1>8, <1>10
  <2> QED BY <1>7, <2>1, <2>2, <2>3 DEF MissedInv
<1>13. RunningInv'
  <2>1. Handled' \cap Absent(InHand)' = {} /\ missed' \subseteq Handled'
    BY <1>4, <1>6, <1>7
  <2>2. \A t \in Absent(memory)' : t.slot > through'
    BY <1>1, <1>7, <1>8, <1>9
  <2>3. \A t \in missed' : t.slot <= known'
    BY <1>4
  <2>4. checkpoint' <= noted'
    BY ONLY <1>1, <1>3
  <2>5. \A i \in DOMAIN made' : made'[i].slot <= checkpoint' => i <= derived'
    BY <1>1, <1>3, <1>4 DEF n
  <2> QED BY <2>1, <2>2, <2>3, <2>4, <2>5 DEF RunningInv
<1>14. DownInv'
  BY <1>1 DEF DownInv
<1> QED BY <1>11, <1>12, <1>13, <1>14 DEF Accounted

(* A step of a store whose writes are whole.                               *)
LEMMA WholeStep ==
  ASSUME WholeInv, ~ Tears, [Next]_vars
  PROVE  WholeInv'
<1>1. open' = FALSE
  BY NoLineIsTorn DEF WholeInv
<1>2. StoreInv'
  BY <1>1, StepKeeps DEF WholeInv, Keeps
<1> DEFINE Counted == faults' \in Faults
<1>3. SUFFICES Counted /\ Accounted'
  BY <1>1, <1>2 DEF WholeInv, Accounted
<1>4. faults \in Faults
  BY DEF WholeInv
<1>5. CASE Trade
  BY <1>4, <1>5, TradeAccounts DEF Trade, history
<1>6. CASE Derive
  BY <1>4, <1>6, DeriveAccounts DEF Derive
<1>7. ASSUME NEW slot \in 1 .. MaxSlot, Touch(slot) PROVE Counted /\ Accounted'
  <2>1. /\ known' = slot /\ known < slot /\ faults' = faults
        /\ UNCHANGED <<made, rooted, derived, queue, through, memory, noted, disk, checkpoint, up, missed>>
    BY <1>7 DEF Touch, chain, files, history
  <2>2. known' \in Nat /\ known <= known'
    BY <2>1, WholeFacts
  <2> QED BY <1>4, <2>1, <2>2, StillAccounts
<1>8. ASSUME NEW slot \in 1 .. MaxSlot, Flush(slot) PROVE Counted /\ Accounted'
  <2>1. Writes(slot) /\ checkpoint' \in {checkpoint, Filed(slot)} /\ faults' = faults
    BY <1>8 DEF Flush
  <2> QED BY <1>4, <2>1, WritesAccount
<1>9. ASSUME NEW slot \in 1 .. MaxSlot, SaveFails(slot) PROVE Counted /\ Accounted'
  <2>1. Writes(slot) /\ checkpoint' \in {checkpoint, Filed(slot)} /\ Fails
    BY <1>9 DEF SaveFails
  <2> QED BY <1>4, <2>1, FailsIs, WritesAccount
<1>10. ASSUME NEW slot \in 1 .. MaxSlot, FlushFails(slot) PROVE Counted /\ Accounted'
  <2>1. Fails
    BY <1>10 DEF FlushFails
  <2> QED BY <1>4, <1>10, <2>1, FailsIs, FlushFailsAccounts
<1>11. ASSUME NEW slot \in 1 .. MaxSlot, CrashInFlush(slot) PROVE Counted /\ Accounted'
  <2>1. Dies
    BY <1>11 DEF CrashInFlush
  <2> QED BY <1>4, <1>11, <2>1, DiesIs, CrashInFlushAccounts
<1>12. CASE Crash
  <2>1. Dies
    BY <1>12 DEF Crash
  <2> QED BY <1>4, <1>12, <2>1, DiesIs, CrashAccounts
<1>13. CASE Restart
  BY <1>4, <1>13, StartCounts, RestartAccounts
<1>14. CASE UNCHANGED vars
  <2>1. known' = known /\ known \in Nat /\ faults' = faults
    BY <1>14, WholeFacts DEF vars
  <2>2. UNCHANGED <<made, rooted, derived, queue, through, memory, noted, disk, checkpoint, up, missed>>
    BY <1>14 DEF vars
  <2> QED BY <1>4, <2>1, <2>2, StillAccounts
<1> QED BY <1>5, <1>6, <1>7, <1>8, <1>9, <1>10, <1>11, <1>12, <1>13, <1>14 DEF Next

LEMMA WholeInitially ==
  Init => WholeInv
<1>1. SUFFICES ASSUME Init PROVE WholeInv
  OBVIOUS
<1>2. StoreInv /\ open = FALSE
  BY <1>1, StoreInitially DEF Init
<1>3. /\ made = <<>> /\ memory = <<>> /\ queue = <<>> /\ disk = <<>> /\ rooted = 0 /\ through = 0
      /\ missed = {} /\ checkpoint = NoCheckpoint /\ noted = NoCheckpoint /\ up = TRUE
      /\ derived = 0
      /\ faults = [failures |-> 0, crashes |-> 0, owed |-> FALSE, cold |-> FALSE]
  BY <1>1 DEF Init
<1>4. faults \in Faults
  BY <1>3 DEF Faults
<1>5. /\ Range(made) = {} /\ Load(disk) = <<>>
      /\ Absent(Load(disk)) = {} /\ Absent(InHand) = {} /\ Absent(memory) = {}
      /\ Highest(Load(disk)) = 0
  BY <1>3, AppendNothing DEF Load, Range, Absent, Highest
<1>6. EndsInv /\ MissedInv /\ DownInv
  BY <1>3, <1>5 DEF EndsInv, MissedInv, DownInv, OnlyDebtsAreLost
<1>7. RunningInv
  <2>1. DOMAIN made = {} /\ NoCheckpoint <= NoCheckpoint
    BY <1>3 DEF NoCheckpoint
  <2> QED BY <1>3, <1>5, <2>1 DEF RunningInv
<1> QED BY <1>2, <1>4, <1>6, <1>7 DEF WholeInv

(* Where writes are whole: a row the process derived it has stored or      *)
(* holds back, once and in order, or has passed over, and it passes over   *)
(* none unless a process died with rooted rows unwritten or found no       *)
(* checkpoint (main.rs, checkpoint and flush; flush.rs, requeue).          *)
THEOREM WholeWritesKeepEveryTrade ==
  ASSUME ~ Tears
  PROVE  Spec => []WholeInv
<1>1. Init => WholeInv
  BY WholeInitially
<1>2. WholeInv /\ [Next]_vars => WholeInv'
  BY WholeStep
<1> QED BY <1>1, <1>2, PTL DEF Spec

(* There the file store is a store (TradeLog), without a proviso.          *)
THEOREM WholeWritesKeepTheContract ==
  ASSUME ~ Tears
  PROVE  Spec => StoreKeepsTheContract
<1>1. Spec => []WholeInv
  BY WholeWritesKeepEveryTrade
<1>2. WholeInv => ~ open
  BY DEF WholeInv
<1>3. Spec /\ [](~ open) => StoreKeepsTheContract
  BY WholeLinesKeepTheContract
<1> QED BY <1>1, <1>2, <1>3, PTL

LEMMA WholeTypeOK ==
  WholeInv => TypeOK
<1>1. SUFFICES ASSUME WholeInv PROVE TypeOK
  OBVIOUS
<1>2. /\ StoreInv /\ open = FALSE /\ made \in Seq(Fill) /\ rooted \in 0 .. MaxSlot
      /\ memory \in Seq(Range(made)) /\ queue \in Seq(Range(made))
      /\ disk \in Seq(Range(made)) /\ MaxSlot \in Nat /\ NoCheckpoint = -1
  BY <1>1, FileStoreAssumption DEF WholeInv, StoreInv, ChainInv, ListsInv, FileInv, NoCheckpoint
<1>3. /\ derived \in 0 .. Len(made) /\ known \in 0 .. MaxSlot /\ through \in 0 .. MaxSlot
      /\ noted \in NoCheckpoint .. rooted /\ checkpoint \in NoCheckpoint .. rooted
      /\ up \in BOOLEAN
  BY <1>2 DEF StoreInv, PlacesInv
<1>4. noted \in NoCheckpoint .. MaxSlot /\ checkpoint \in NoCheckpoint .. MaxSlot
  BY <1>2, <1>3
<1>5. /\ Range(queue) \subseteq Range(made) /\ Range(memory) \subseteq Range(made)
      /\ \A i \in DOMAIN disk : disk[i] \in Range(made)
  <2>1. \A i \in DOMAIN disk : disk[i] \in Range(made)
    BY <1>2, RowsOfSeq
  <2> QED BY <1>2, <2>1, RowsOfSeq
<1>6. acked \subseteq Range(made)
  <2>1. Range(Rows) \subseteq Range(made)
    BY <1>2, RowsAreMade, RowsOfSeq
  <2> QED BY <1>2, <2>1 DEF StoreInv, FileInv
<1>7. missed \subseteq Range(made)
  BY <1>1 DEF WholeInv, MissedInv
<1>8. open \in BOOLEAN
  BY <1>2
<1> QED BY <1>2, <1>3, <1>4, <1>5, <1>6, <1>7, <1>8 DEF TypeOK

(* And what a reader is served is right.  Once what is rooted has been     *)
(* derived and written, memory is the rows of rooted slots, in order and   *)
(* once, but those passed over; none is passed over unless a process died  *)
(* owing rows or found no checkpoint; and what was acknowledged is there   *)
(* (file.rs, append; main.rs, checkpoint and restore).                     *)
THEOREM WholeWritesAreServed ==
  ASSUME ~ Tears
  PROVE  Spec => []StoredExactly /\ []AcknowledgedIsDurable
<1>1. Spec => []WholeInv
  BY WholeWritesKeepEveryTrade
<1>2. ASSUME WholeInv PROVE RootedRowsAreServed
  <2>1. SUFFICES ASSUME Settled
                 PROVE  InOrder(memory) /\ Range(memory) = Range(UpTo(made, rooted)) \ missed
    BY DEF RootedRowsAreServed
  <2>2. /\ up /\ Through(made, rooted) <= derived /\ Waiting(rooted) = <<>>
    BY <2>1 DEF Settled
  <2>3. /\ made \in Seq(Fill) /\ InOrder(made)
        /\ InOrder(memory) /\ queue \in Seq(Fill) /\ InOrder(queue)
    BY <1>2, StoreFacts DEF WholeInv, StoreInv, ChainInv
  <2>4. /\ Len(made) \in Nat /\ DOMAIN made = 1 .. Len(made) /\ rooted \in Nat /\ through \in Nat
        /\ \A t : t \in Range(made) <=> \E i \in 1 .. Len(made) : t = made[i]
        /\ \A t \in Range(made) : t.slot \in Nat
        /\ derived \in Nat
        /\ Range(memory) \subseteq Range(made)
        /\ Range(InHand) = Range(memory) \cup Range(queue)
        /\ \A t \in Range(memory) : t.slot <= through
    BY <1>2, WholeFacts
  <2>5. /\ through <= rooted /\ missed \cap Range(InHand) = {}
        /\ Handled \cap Absent(InHand) = {}
    BY <1>2, <2>2 DEF WholeInv, EndsInv, MissedInv, RunningInv
  <2>6. /\ Range(UpTo(made, rooted)) = {t \in Range(made) : t.slot <= rooted}
        /\ Range(UpTo(queue, rooted)) = {t \in Range(queue) : t.slot <= rooted}
    BY <2>3, <2>4, RowsUpTo
  <2>7. Range(UpTo(queue, rooted)) = {}
    BY <2>2 DEF Waiting, Range
  <2>8. ASSUME NEW t \in Range(made), t.slot <= rooted PROVE t \in Handled
    <3>1. PICK i \in 1 .. Len(made) : t = made[i]
      BY <2>4
    <3>2. /\ Through(made, rooted) \in 0 .. Len(made)
          /\ CutsAt(made, rooted, Through(made, rooted))
      BY <2>3, <2>4, ThroughCuts
    <3>3. i <= Through(made, rooted)
      BY <2>4, <2>8, <3>1, <3>2 DEF CutsAt
    <3>4. i \in 1 .. derived
      BY <2>2, <2>4, <3>1, <3>2, <3>3
    <3> QED BY <3>1, <3>4 DEF Handled
  <2> HIDE DEF Range
  <2>9. ASSUME NEW t \in Range(memory) PROVE t \in Range(UpTo(made, rooted)) \ missed
    <3>1. t \in Range(made) /\ t.slot \in Nat /\ t.slot <= through /\ t \notin missed
      BY <2>4, <2>5
    <3>2. t.slot <= rooted
      BY ONLY <2>4, <2>5, <3>1
    <3> QED BY <2>6, <3>1, <3>2
  <2>10. ASSUME NEW t \in Range(UpTo(made, rooted)), t \notin missed PROVE t \in Range(memory)
    <3>1. t \in Range(made) /\ t.slot <= rooted
      BY <2>6
    <3>2. t \in Handled
      BY <2>8, <3>1
    <3>3. t \in Range(memory) \/ t \in Range(queue)
      BY <2>4, <2>5, <2>10, <3>1, <3>2 DEF Absent
    <3> QED BY <2>6, <2>7, <3>1, <3>3
  <2> QED BY <2>3, <2>9, <2>10
<1>3. WholeInv => StoredExactly
  BY <1>2, WholeTypeOK DEF StoredExactly, WholeInv, MissedInv
<1>4. WholeInv => AcknowledgedIsDurable
  BY DEF WholeInv, StoreInv, FileInv, AcknowledgedIsDurable, Rows
<1> QED BY <1>1, <1>3, <1>4, PTL
=============================================================================
