----------------------------- MODULE Sums_proofs -----------------------------
(***************************************************************************)
(* What SumTo computes: facts about finite sums, for every length; and     *)
(* what Sublist keeps of a sequence.                                       *)
(*                                                                         *)
(* Induction is by a least counterexample (WFMin), stated with sets.       *)
(***************************************************************************)
EXTENDS Sums, Sublists, TLAPS, WellFoundedInduction

(* Every non-empty set of naturals has a least element. *)
LEMMA LeastNat ==
  ASSUME NEW S \in SUBSET Nat, S # {}
  PROVE  \E n \in S : \A k \in S : n <= k
<1>1. IsWellFoundedOn(OpToRel(<, Nat), Nat)
  BY NatLessThanWellFounded
<1>2. \E x \in S : \A y \in S : ~ (<<y, x>> \in OpToRel(<, Nat))
  BY <1>1, WFMin
<1>3. \A x, y \in Nat : ~ (<<y, x>> \in OpToRel(<, Nat)) => x <= y
  BY DEF OpToRel
<1> QED BY <1>2, <1>3

(* The recursive definition of SumTo has a solution for every length. *)
LEMMA PartialSumsExist ==
  ASSUME NEW N \in Nat, NEW f
  PROVE  \E g : IsPartialSums(g, f, N)
<1> DEFINE Bad == {n \in Nat : ~ \E g : IsPartialSums(g, f, n)}
<1>1. SUFFICES ASSUME Bad # {} PROVE FALSE
  OBVIOUS
<1>2. PICK n \in Bad : \A k \in Bad : n <= k
  BY <1>1, LeastNat, Bad \subseteq Nat
<1>3. CASE n = 0
  <2>1. IsPartialSums([i \in 0 .. 0 |-> 0], f, 0)
    BY DEF IsPartialSums
  <2> QED BY <2>1, <1>3
<1>4. CASE n # 0
  <2>1. PICK g : IsPartialSums(g, f, n - 1)
    BY <1>2, <1>4
  <2> DEFINE h == [i \in 0 .. n |-> IF i = n THEN g[n - 1] + f[n] ELSE g[i]]
  <2>2. \A i \in 0 .. n - 1 : g[i] = IF i = 0 THEN 0 ELSE g[i - 1] + f[i]
    BY <2>1 DEF IsPartialSums
  <2>3. n \in Nat /\ n - 1 \in Nat /\ n - 1 \in 0 .. n /\ n - 1 # n
    BY <1>4
  <2>4. \A i \in 0 .. n : h[i] = IF i = 0 THEN 0 ELSE h[i - 1] + f[i]
    BY <2>2, <2>3
  <2>5. IsPartialSums(h, f, n)
    BY <2>4 DEF IsPartialSums
  <2> QED BY <2>5
<1> QED BY <1>3, <1>4

LEMMA SumToPartial ==
  ASSUME NEW N \in Nat, NEW f
  PROVE  \E g : IsPartialSums(g, f, N) /\ SumTo(f, N) = g[N]
BY PartialSumsExist DEF SumTo, IsPartialSums

(* A sequence of sums that satisfies the recursion, element by element. *)
LEMMA Unfold ==
  ASSUME NEW N \in Nat, NEW f, NEW g, IsPartialSums(g, f, N)
  PROVE  /\ g[0] = 0
         /\ \A i \in 1 .. N : i \in 0 .. N /\ i - 1 \in 0 .. N /\ g[i] = g[i - 1] + f[i]
BY DEF IsPartialSums

(* Two sequences of sums agree while their functions do. *)
LEMMA PartialSumsAgree ==
  ASSUME NEW N \in Nat, NEW M \in Nat, NEW n \in 0 .. N, n <= M,
         NEW f, NEW e, NEW g, NEW h,
         IsPartialSums(g, f, N), IsPartialSums(h, e, M),
         \A i \in 1 .. n : f[i] = e[i]
  PROVE  g[n] = h[n]
<1> DEFINE Bad == {i \in 0 .. n : g[i] # h[i]}
<1>1. SUFFICES ASSUME Bad # {} PROVE FALSE
  OBVIOUS
<1>2. PICK i \in Bad : \A k \in Bad : i <= k
  BY <1>1, LeastNat, Bad \subseteq Nat
<1>3. i # 0
  BY <1>2, Unfold
<1>4. i \in 1 .. N /\ i \in 1 .. M /\ i \in 1 .. n /\ i - 1 \in 0 .. n /\ i - 1 < i
  BY <1>2, <1>3
<1>5. g[i - 1] = h[i - 1]
  BY <1>2, <1>4
<1>6. g[i] = g[i - 1] + f[i] /\ h[i] = h[i - 1] + e[i]
  BY <1>4, Unfold
<1> QED BY <1>2, <1>4, <1>5, <1>6

(* Partial sums of integers are integers, of naturals naturals. *)
LEMMA PartialSumsInt ==
  ASSUME NEW N \in Nat, NEW f, NEW g, IsPartialSums(g, f, N),
         \A i \in 1 .. N : f[i] \in Int
  PROVE  \A i \in 0 .. N : g[i] \in Int
<1> DEFINE Bad == {i \in 0 .. N : g[i] \notin Int}
<1>1. SUFFICES ASSUME Bad # {} PROVE FALSE
  OBVIOUS
<1>2. PICK i \in Bad : \A k \in Bad : i <= k
  BY <1>1, LeastNat, Bad \subseteq Nat
<1>3. i # 0
  BY <1>2, Unfold
<1>4. i \in 1 .. N /\ i - 1 \in 0 .. N /\ i - 1 < i
  BY <1>2, <1>3
<1>5. g[i - 1] \in Int
  BY <1>2, <1>4
<1> QED BY <1>2, <1>4, <1>5, Unfold

-----------------------------------------------------------------------------
(* The facts other modules cite. *)

LEMMA SumZero ==
  ASSUME NEW N \in Nat, NEW f, \A i \in 1 .. N : f[i] = 0
  PROVE  SumTo(f, N) = 0
<1>1. PICK g : IsPartialSums(g, f, N) /\ SumTo(f, N) = g[N]
  BY SumToPartial
<1> DEFINE Bad == {i \in 0 .. N : g[i] # 0}
<1>2. SUFFICES ASSUME Bad # {} PROVE FALSE
  BY <1>1
<1>3. PICK i \in Bad : \A k \in Bad : i <= k
  BY <1>2, LeastNat, Bad \subseteq Nat
<1>4. i # 0
  BY <1>1, <1>3, Unfold
<1>5. i \in 1 .. N /\ i - 1 \in 0 .. N /\ i - 1 < i
  BY <1>3, <1>4
<1>6. g[i - 1] = 0 /\ g[i] = g[i - 1] + f[i]
  BY <1>1, <1>3, <1>5, Unfold
<1> QED BY <1>3, <1>5, <1>6

(* Functions that agree on 1 .. N have the same sum. *)
LEMMA SumEqual ==
  ASSUME NEW N \in Nat, NEW f, NEW e, \A i \in 1 .. N : f[i] = e[i]
  PROVE  SumTo(f, N) = SumTo(e, N)
<1>1. PICK g : IsPartialSums(g, f, N) /\ SumTo(f, N) = g[N]
  BY SumToPartial
<1>2. PICK h : IsPartialSums(h, e, N) /\ SumTo(e, N) = h[N]
  BY SumToPartial
<1>3. g[N] = h[N]
  BY <1>1, <1>2, PartialSumsAgree, N \in 0 .. N, N <= N
<1> QED BY <1>1, <1>2, <1>3

(* Changing one term changes the sum by the same amount. *)
LEMMA SumUpdate ==
  ASSUME NEW N \in Nat, NEW p \in 1 .. N, NEW f, NEW e,
         \A i \in 1 .. N : f[i] \in Int, e[p] \in Int,
         \A i \in 1 .. N : i # p => e[i] = f[i]
  PROVE  SumTo(e, N) = SumTo(f, N) + e[p] - f[p]
<1>1. PICK g : IsPartialSums(g, f, N) /\ SumTo(f, N) = g[N]
  BY SumToPartial
<1>2. PICK h : IsPartialSums(h, e, N) /\ SumTo(e, N) = h[N]
  BY SumToPartial
<1>3. \A i \in 1 .. N : e[i] \in Int
  OBVIOUS
<1>4. \A i \in 0 .. N : g[i] \in Int /\ h[i] \in Int
  BY <1>1, <1>2, <1>3, PartialSumsInt
<1> DEFINE Bad == {i \in p .. N : h[i] # g[i] + e[p] - f[p]}
<1>5. SUFFICES ASSUME Bad # {} PROVE FALSE
  BY <1>1, <1>2
<1>6. PICK i \in Bad : \A k \in Bad : i <= k
  BY <1>5, LeastNat, Bad \subseteq Nat
<1>7. i \in 1 .. N /\ i \in p .. N /\ i - 1 \in 0 .. N
  BY <1>6
<1>8. h[i] = h[i - 1] + e[i] /\ g[i] = g[i - 1] + f[i]
  BY <1>1, <1>2, <1>7, Unfold
<1>9. CASE i = p
  <2>1. p - 1 \in 0 .. N /\ p - 1 <= N /\ \A j \in 1 .. p - 1 : e[j] = f[j]
    OBVIOUS
  <2>2. h[p - 1] = g[p - 1]
    BY <1>1, <1>2, <2>1, PartialSumsAgree
  <2> QED BY <1>3, <1>4, <1>6, <1>7, <1>8, <1>9, <2>2
<1>10. CASE i # p
  <2>1. i - 1 \in p .. N /\ i - 1 < i
    BY <1>7, <1>10
  <2>2. h[i - 1] = g[i - 1] + e[p] - f[p]
    BY <1>6, <2>1
  <2> QED BY <1>3, <1>4, <1>6, <1>7, <1>8, <1>10, <2>2
<1> QED BY <1>9, <1>10

(* A sum of naturals is a natural, at least each of its terms. *)
LEMMA SumNat ==
  ASSUME NEW N \in Nat, NEW f, \A i \in 1 .. N : f[i] \in Nat
  PROVE  SumTo(f, N) \in Nat /\ \A p \in 1 .. N : f[p] <= SumTo(f, N)
<1>1. PICK g : IsPartialSums(g, f, N) /\ SumTo(f, N) = g[N]
  BY SumToPartial
<1>2. \A i \in 0 .. N : g[i] \in Int
  BY <1>1, PartialSumsInt
<1>3. \A p \in 0 .. N : \A i \in p .. N : g[p] <= g[i]
  <2> SUFFICES ASSUME NEW p \in 0 .. N,
                      {i \in p .. N : g[i] < g[p]} # {}
               PROVE FALSE
    BY <1>2
  <2> DEFINE Bad == {i \in p .. N : g[i] < g[p]}
  <2>1. PICK i \in Bad : \A k \in Bad : i <= k
    BY LeastNat, Bad \subseteq Nat
  <2>2. i # p
    BY <1>2, <2>1
  <2>3. i \in 1 .. N /\ i - 1 \in p .. N /\ i - 1 < i
    BY <2>1, <2>2
  <2>4. g[i] = g[i - 1] + f[i]
    BY <1>1, <2>3, Unfold
  <2>5. g[p] <= g[i - 1]
    BY <1>2, <2>1, <2>3
  <2> QED BY <1>2, <2>1, <2>3, <2>4, <2>5
<1>4. g[0] = 0 /\ 0 \in 0 .. N /\ N \in 0 .. N
  BY <1>1, Unfold
<1>5. SumTo(f, N) \in Nat
  BY <1>1, <1>2, <1>3, <1>4
<1>6. ASSUME NEW p \in 1 .. N PROVE f[p] <= SumTo(f, N)
  <2>1. p - 1 \in 0 .. N /\ p \in 0 .. N /\ N \in p .. N /\ p - 1 \in 0 .. N
    OBVIOUS
  <2>2. g[p] = g[p - 1] + f[p]
    BY <1>1, Unfold
  <2>3. g[0] <= g[p - 1] /\ g[p] <= g[N]
    BY <1>3, <1>4, <2>1
  <2> QED BY <1>1, <1>2, <1>4, <2>1, <2>2, <2>3
<1> QED BY <1>5, <1>6

(* Two terms of a sum of naturals are no more than the sum. *)
LEMMA SumTwo ==
  ASSUME NEW N \in Nat, NEW f, \A i \in 1 .. N : f[i] \in Nat,
         NEW p \in 1 .. N, NEW q \in 1 .. N, p # q
  PROVE  f[p] + f[q] <= SumTo(f, N)
<1> DEFINE e == [i \in 1 .. N |-> IF i = p THEN 0 ELSE f[i]]
<1>1. \A i \in 1 .. N : e[i] \in Nat /\ f[i] \in Int
  OBVIOUS
<1>2. e[p] = 0 /\ e[q] = f[q] /\ \A i \in 1 .. N : i # p => e[i] = f[i]
  OBVIOUS
<1> HIDE DEF e
<1>3. SumTo(e, N) = SumTo(f, N) + e[p] - f[p]
  BY <1>1, <1>2, SumUpdate
<1>4. SumTo(e, N) \in Nat /\ e[q] <= SumTo(e, N)
  BY <1>1, SumNat
<1>5. SumTo(f, N) \in Nat
  BY SumNat
<1> QED BY <1>2, <1>3, <1>4, <1>5

-----------------------------------------------------------------------------
(* Sublists. *)

(* The step of the recursion, and its first n steps. *)
StepSublist(before, s, keep, i) == IF i \in keep THEN Append(before, s[i]) ELSE before

SublistsTo(g, s, keep, n) ==
  g = [i \in 0 .. n |-> IF i = 0 THEN <<>> ELSE StepSublist(g[i - 1], s, keep, i)]

(* The recursive definition of Sublist has a solution for every sequence. *)
LEMMA PartialSublistsExist ==
  ASSUME NEW N \in Nat, NEW s, NEW keep
  PROVE  \E g : SublistsTo(g, s, keep, N)
<1> DEFINE Bad == {n \in Nat : ~ \E g : SublistsTo(g, s, keep, n)}
<1>1. SUFFICES ASSUME Bad # {} PROVE FALSE
  OBVIOUS
<1>2. PICK n \in Bad : \A k \in Bad : n <= k
  BY <1>1, LeastNat, Bad \subseteq Nat
<1>3. CASE n = 0
  <2>1. SublistsTo([i \in 0 .. 0 |-> <<>>], s, keep, 0)
    BY DEF SublistsTo
  <2> QED BY <2>1, <1>3
<1>4. CASE n # 0
  <2>1. PICK g : SublistsTo(g, s, keep, n - 1)
    BY <1>2, <1>4
  <2> DEFINE h == [i \in 0 .. n |-> IF i = n THEN StepSublist(g[n - 1], s, keep, n) ELSE g[i]]
  <2>2. \A i \in 0 .. n - 1 : g[i] = IF i = 0 THEN <<>> ELSE StepSublist(g[i - 1], s, keep, i)
    BY <2>1 DEF SublistsTo
  <2>3. n \in Nat /\ n - 1 \in Nat /\ n - 1 \in 0 .. n /\ n - 1 # n
    BY <1>4
  <2>4. \A i \in 0 .. n : h[i] = IF i = 0 THEN <<>> ELSE StepSublist(h[i - 1], s, keep, i)
    BY <2>2, <2>3
  <2>5. SublistsTo(h, s, keep, n)
    BY <2>4 DEF SublistsTo
  <2> QED BY <2>5
<1> QED BY <1>3, <1>4

LEMMA SublistPartial ==
  ASSUME NEW s, Len(s) \in Nat, NEW keep
  PROVE  \E g : /\ Sublist(s, keep) = g[Len(s)]
                /\ g[0] = <<>>
                /\ \A i \in 1 .. Len(s) : g[i] = StepSublist(g[i - 1], s, keep, i)
<1> DEFINE N == Len(s)
           g == CHOOSE g : g = [i \in 0 .. N |-> IF i = 0 THEN <<>>
                  ELSE IF i \in keep THEN Append(g[i - 1], s[i]) ELSE g[i - 1]]
<1>1. Sublist(s, keep) = g[N]
  BY DEF Sublist
<1>2. \E h : SublistsTo(h, s, keep, N)
  BY PartialSublistsExist
<1>3. g = [i \in 0 .. N |-> IF i = 0 THEN <<>>
             ELSE IF i \in keep THEN Append(g[i - 1], s[i]) ELSE g[i - 1]]
  <2>1. \E h : h = [i \in 0 .. N |-> IF i = 0 THEN <<>>
                      ELSE IF i \in keep THEN Append(h[i - 1], s[i]) ELSE h[i - 1]]
    BY ONLY <1>2, Zenon DEF SublistsTo, StepSublist
  <2> QED BY ONLY <2>1, Zenon
<1>4. \A i \in 0 .. N : g[i] = IF i = 0 THEN <<>> ELSE StepSublist(g[i - 1], s, keep, i)
  <2> HIDE DEF g
  <2> QED BY <1>3 DEF StepSublist
<1> HIDE DEF g
<1>5. g[0] = <<>>
  BY <1>4
<1>6. \A i \in 1 .. N : g[i] = StepSublist(g[i - 1], s, keep, i)
  BY <1>4
<1> QED BY <1>1, <1>5, <1>6

(* The members of a sequence. *)
Occurs(x, s) == \E i \in 1 .. Len(s) : s[i] = x

(* A sublist is no longer than its sequence, and has its members at the    *)
(* kept positions and no others.                                           *)
LEMMA SublistIs ==
  ASSUME NEW S, NEW s \in Seq(S), NEW keep
  PROVE  /\ Sublist(s, keep) \in Seq(S)
         /\ Len(Sublist(s, keep)) <= Len(s)
         /\ \A x : Occurs(x, Sublist(s, keep)) => \E i \in 1 .. Len(s) : i \in keep /\ s[i] = x
<1>0. Len(s) \in Nat /\ \A i \in 1 .. Len(s) : s[i] \in S
  OBVIOUS
<1>1. PICK g : /\ Sublist(s, keep) = g[Len(s)]
               /\ g[0] = <<>>
               /\ \A i \in 1 .. Len(s) : g[i] = StepSublist(g[i - 1], s, keep, i)
  BY <1>0, SublistPartial
<1> DEFINE Good(i) == /\ g[i] \in Seq(S)
                      /\ Len(g[i]) <= i
                      /\ \A x : Occurs(x, g[i]) => \E j \in 1 .. i : j \in keep /\ s[j] = x
           Bad == {i \in 0 .. Len(s) : ~ Good(i)}
<1>2. SUFFICES ASSUME Bad # {} PROVE FALSE
  <2>1. Len(s) \in 0 .. Len(s)
    BY <1>0
  <2> HIDE DEF Good
  <2>2. Good(Len(s))
    BY <2>1
  <2> QED BY <1>1, <2>2 DEF Good
<1>3. PICK i \in Bad : \A k \in Bad : i <= k
  <2> HIDE DEF Good
  <2> QED BY <1>2, LeastNat, Bad \subseteq Nat
<1>4. i \in 0 .. Len(s) /\ ~ Good(i)
  BY <1>3
<1>5. CASE i = 0
  <2>1. g[i] = <<>> /\ Len(<<>>) = 0 /\ <<>> \in Seq(S)
    BY <1>1, <1>5
  <2>2. \A x : ~ Occurs(x, g[i])
    BY <2>1 DEF Occurs
  <2> QED BY <1>4, <1>5, <2>1, <2>2
<1>6. CASE i # 0
  <2>1. i - 1 \in 0 .. Len(s) /\ i \in 1 .. Len(s) /\ ~ (i <= i - 1) /\ i - 1 \in Nat
    BY <1>0, <1>4, <1>6
  <2>2. Good(i - 1)
    <3> HIDE DEF Good
    <3> QED BY <1>3, <2>1
  <2>3. g[i] = StepSublist(g[i - 1], s, keep, i)
    BY <1>1, <2>1
  <2>4. CASE i \notin keep
    <3>1. g[i] = g[i - 1]
      BY <2>3, <2>4 DEF StepSublist
    <3>2. \A j \in 1 .. i - 1 : j \in 1 .. i
      BY <2>1
    <3>3. Len(g[i]) \in Nat
      BY <2>2, <3>1
    <3> QED BY <1>4, <2>1, <2>2, <3>1, <3>2, <3>3
  <2>5. CASE i \in keep
    <3> DEFINE t == g[i - 1]
    <3>1. g[i] = Append(t, s[i])
      BY <2>3, <2>5 DEF StepSublist
    <3>2. t \in Seq(S) /\ Len(t) <= i - 1 /\ s[i] \in S
      BY <1>0, <2>1, <2>2
    <3>2a. \A x : Occurs(x, t) => \E j \in 1 .. i - 1 : j \in keep /\ s[j] = x
      BY <2>2
    <3> HIDE DEF t
    <3>3. g[i] \in Seq(S) /\ Len(g[i]) = Len(t) + 1 /\ Len(t) \in Nat
      BY <3>1, <3>2
    <3>4. \A k \in 1 .. Len(t) + 1 : g[i][k] = IF k = Len(t) + 1 THEN s[i] ELSE t[k]
      BY <3>1, <3>2
    <3>5. ASSUME NEW x, Occurs(x, g[i]) PROVE \E j \in 1 .. i : j \in keep /\ s[j] = x
      <4>1. PICK k \in 1 .. Len(t) + 1 : g[i][k] = x
        BY <3>3, <3>5 DEF Occurs
      <4>2. CASE k = Len(t) + 1
        <5>1. s[i] = x
          BY <3>4, <4>1, <4>2
        <5>2. i \in 1 .. i
          BY <2>1
        <5> QED BY <2>5, <5>1, <5>2
      <4>3. CASE k # Len(t) + 1
        <5>1. k \in 1 .. Len(t) /\ t[k] = x
          BY <3>3, <3>4, <4>1, <4>3
        <5>2. PICK j \in 1 .. i - 1 : j \in keep /\ s[j] = x
          BY <5>1, <3>2a DEF Occurs
        <5>3. j \in 1 .. i
          BY <2>1
        <5> QED BY <5>2, <5>3
      <4> QED BY <4>2, <4>3
    <3>6. Len(g[i]) <= i
      BY <2>1, <3>2, <3>3
    <3> QED BY <1>4, <3>3, <3>5, <3>6
  <2> QED BY <2>4, <2>5
<1> QED BY <1>5, <1>6

(* A sublist picks positions of its sequence, in order: all those kept.    *)
Picks(m, part, s, keep, n) ==
  /\ m \in [1 .. Len(part) -> 1 .. n]
  /\ \A a, b \in 1 .. Len(part) : a < b => m[a] < m[b]
  /\ \A a \in 1 .. Len(part) : m[a] \in keep /\ part[a] = s[m[a]]
  /\ \A j \in 1 .. n : j \in keep => \E a \in 1 .. Len(part) : m[a] = j

LEMMA PicksStep ==
  ASSUME NEW S, NEW s \in Seq(S), NEW keep, NEW i \in 1 .. Len(s),
         NEW part \in Seq(S), NEW m, Picks(m, part, s, keep, i - 1)
  PROVE  \E k : Picks(k, StepSublist(part, s, keep, i), s, keep, i)
<1>0. /\ Len(s) \in Nat /\ i \in Nat /\ s[i] \in S /\ Len(part) \in Nat
      /\ \A j \in 1 .. i : j = i \/ j \in 1 .. i - 1
  OBVIOUS
<1>1. CASE i \notin keep
  <2>1. StepSublist(part, s, keep, i) = part
    BY <1>1 DEF StepSublist
  <2>2. \A a \in 1 .. Len(part) : m[a] \in 1 .. i
    <3>1. \A a \in 1 .. Len(part) : m[a] \in 1 .. i - 1
      BY DEF Picks
    <3>2. \A j \in 1 .. i - 1 : j \in 1 .. i
      BY ONLY <1>0
    <3> QED BY ONLY <3>1, <3>2
  <2>3. m \in [1 .. Len(part) -> 1 .. i]
    BY <2>2 DEF Picks
  <2>4. \A j \in 1 .. i : j \in keep => j \in 1 .. i - 1
    BY <1>0, <1>1
  <2>5. Picks(m, part, s, keep, i)
    BY <2>3, <2>4 DEF Picks
  <2> QED BY <2>1, <2>5
<1>2. CASE i \in keep
  <2> DEFINE longer == StepSublist(part, s, keep, i)
             k == [a \in 1 .. Len(part) + 1 |-> IF a = Len(part) + 1 THEN i ELSE m[a]]
  <2>1. longer = Append(part, s[i])
    BY <1>2 DEF StepSublist
  <2>2. /\ Len(longer) = Len(part) + 1
        /\ \A a \in 1 .. Len(part) + 1 :
             longer[a] = IF a = Len(part) + 1 THEN s[i] ELSE part[a]
    BY <1>0, <2>1
  <2> HIDE DEF longer
  <2>3. \A a \in 1 .. Len(part) : m[a] \in 1 .. i - 1
    BY DEF Picks
  <2>4. \A a \in 1 .. Len(part) + 1 : a = Len(part) + 1 \/ a \in 1 .. Len(part)
    BY <1>0
  <2>5. k \in [1 .. Len(longer) -> 1 .. i]
    BY <1>0, <2>2, <2>3, <2>4
  <2>6. \A a, b \in 1 .. Len(longer) : a < b => k[a] < k[b]
    BY <1>0, <2>2, <2>3, <2>4 DEF Picks
  <2>7. \A a \in 1 .. Len(longer) : k[a] \in keep /\ longer[a] = s[k[a]]
    BY <1>0, <1>2, <2>2, <2>3, <2>4 DEF Picks
  <2>8. ASSUME NEW j \in 1 .. i, j \in keep PROVE \E a \in 1 .. Len(longer) : k[a] = j
    <3>1. CASE j = i
      <4>1. Len(part) + 1 \in 1 .. Len(longer) /\ k[Len(part) + 1] = i
        BY <1>0, <2>2
      <4> QED BY <3>1, <4>1
    <3>2. CASE j # i
      <4>1. PICK a \in 1 .. Len(part) : m[a] = j
        BY <1>0, <2>8, <3>2 DEF Picks
      <4>2. a \in 1 .. Len(longer) /\ k[a] = m[a]
        BY <1>0, <2>2
      <4> QED BY <4>1, <4>2
    <3> QED BY <3>1, <3>2
  <2> HIDE DEF k
  <2>9. Picks(k, longer, s, keep, i)
    BY <2>5, <2>6, <2>7, <2>8 DEF Picks
  <2> QED BY <2>9 DEF longer
<1> QED BY <1>1, <1>2

LEMMA SublistPicks ==
  ASSUME NEW S, NEW s \in Seq(S), NEW keep
  PROVE  /\ \E m : Picks(m, Sublist(s, keep), s, keep, Len(s))
         /\ (\E j \in 1 .. Len(s) : j \notin keep) => Len(Sublist(s, keep)) < Len(s)
<1>0. Len(s) \in Nat /\ \A i \in 1 .. Len(s) : s[i] \in S
  OBVIOUS
<1>1. PICK g : /\ Sublist(s, keep) = g[Len(s)]
               /\ g[0] = <<>>
               /\ \A i \in 1 .. Len(s) : g[i] = StepSublist(g[i - 1], s, keep, i)
  BY <1>0, SublistPartial
<1> DEFINE Good(i) == /\ g[i] \in Seq(S)
                      /\ \E m : Picks(m, g[i], s, keep, i)
                      /\ Len(g[i]) <= i
                      /\ (\E j \in 1 .. i : j \notin keep) => Len(g[i]) < i
           Bad == {i \in 0 .. Len(s) : ~ Good(i)}
<1>2. SUFFICES ASSUME Bad # {} PROVE FALSE
  <2>1. Len(s) \in 0 .. Len(s)
    BY <1>0
  <2> HIDE DEF Good
  <2>2. Good(Len(s))
    BY <2>1
  <2> QED BY <1>1, <2>2 DEF Good
<1>3. PICK i \in Bad : \A k \in Bad : i <= k
  <2> HIDE DEF Good
  <2> QED BY <1>2, LeastNat, Bad \subseteq Nat
<1>4. i \in 0 .. Len(s) /\ ~ Good(i)
  BY <1>3
<1>5. CASE i = 0
  <2>1. g[i] = <<>> /\ Len(<<>>) = 0 /\ <<>> \in Seq(S)
    BY <1>1, <1>5
  <2>2. Picks(<<>>, g[i], s, keep, 0)
    BY <2>1 DEF Picks
  <2> QED BY <1>4, <1>5, <2>1, <2>2
<1>6. CASE i # 0
  <2>1. i - 1 \in 0 .. Len(s) /\ i \in 1 .. Len(s) /\ ~ (i <= i - 1) /\ i - 1 \in Nat
    BY <1>0, <1>4, <1>6
  <2>2. Good(i - 1)
    <3> HIDE DEF Good
    <3> QED BY <1>3, <2>1
  <2>3. g[i] = StepSublist(g[i - 1], s, keep, i)
    BY <1>1, <2>1
  <2>4. \E m : Picks(m, g[i], s, keep, i)
    <3>1. PICK m : Picks(m, g[i - 1], s, keep, i - 1)
      BY <2>2
    <3>2. g[i - 1] \in Seq(S)
      BY <2>2
    <3> QED BY <2>1, <2>3, <3>1, <3>2, PicksStep
  <2>5. s[i] \in S
    BY <1>0, <2>1
  <2>6. CASE i \notin keep
    <3>1. g[i] = g[i - 1]
      BY <2>3, <2>6 DEF StepSublist
    <3>2. Len(g[i]) < i
      BY <2>1, <2>2, <3>1
    <3> QED BY <1>4, <2>2, <2>4, <3>1, <3>2
  <2>7. CASE i \in keep
    <3> DEFINE t == g[i - 1]
    <3>1. g[i] = Append(t, s[i])
      BY <2>3, <2>7 DEF StepSublist
    <3>2. /\ t \in Seq(S) /\ Len(t) <= i - 1
          /\ (\E j \in 1 .. i - 1 : j \notin keep) => Len(t) < i - 1
      BY <2>2
    <3> HIDE DEF t
    <3>3. g[i] \in Seq(S) /\ Len(g[i]) = Len(t) + 1 /\ Len(t) \in Nat
      BY <2>5, <3>1, <3>2
    <3>4. ASSUME NEW j \in 1 .. i, j \notin keep PROVE j \in 1 .. i - 1
      BY <2>1, <2>7, <3>4
    <3>5. Len(g[i]) <= i /\ ((\E j \in 1 .. i : j \notin keep) => Len(g[i]) < i)
      BY <2>1, <3>2, <3>3, <3>4
    <3> QED BY <1>4, <2>4, <3>3, <3>5
  <2> QED BY <2>6, <2>7
<1> QED BY <1>5, <1>6
=============================================================================
