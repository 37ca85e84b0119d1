-------------------------- MODULE QueueReducer_proofs --------------------------
(***************************************************************************)
(* The play order of the shared queue, for any set of queue items, any     *)
(* number of tracks in an event and any sequence of events.                *)
(***************************************************************************)
EXTENDS QueueReducer, FiniteSetTheorems, SequenceTheorems, TLAPS

USE IdAssumption

------------------------------------------------------------------------------
(* Lists without repetition *)

Once(s) == \A i, j \in 1..Len(s) : s[i] = s[j] => i = j

\* Every number up to n, once.
Perm(o, n) == o \in Seq(1..n) /\ Once(o) /\ \A v \in 1..n : Contains(o, v)

LEMMA ListsOnce ==
  ASSUME NEW S, NEW n, NEW s \in Lists(S, n)
  PROVE  s \in Seq(S) /\ Once(s)
<1>1. PICK k \in 0..n : s \in [1..k -> S] /\ IsInjective(s)
  BY DEF Lists
<1>2. k \in Nat
  BY <1>1
<1>3. s \in Seq(S) /\ Len(s) = k /\ DOMAIN s = 1..k
  BY <1>1, <1>2
<1> QED
  BY <1>1, <1>3 DEF Once, IsInjective

LEMMA FunctionIsList ==
  ASSUME NEW n \in Nat, NEW S, NEW f \in [1..n -> S]
  PROVE  f \in Seq(S) /\ Len(f) = n
OBVIOUS

LEMMA ListIsFunction ==
  ASSUME NEW S, NEW s \in Seq(S)
  PROVE  s \in [1..Len(s) -> S] /\ Len(s) \in Nat
OBVIOUS

LEMMA ListOfMore ==
  ASSUME NEW S, NEW T, S \subseteq T, NEW s \in Seq(S)
  PROVE  s \in Seq(T)
OBVIOUS

LEMMA ToSetContains ==
  ASSUME NEW S, NEW s \in Seq(S)
  PROVE  \A v : v \in ToSet(s) <=> Contains(s, v)
<1>1. DOMAIN s = 1..Len(s)
  OBVIOUS
<1> QED
  BY <1>1 DEF ToSet, Contains

LEMMA ContainsTyped ==
  ASSUME NEW S, NEW s \in Seq(S), NEW v, Contains(s, v)
  PROVE  v \in S /\ Position(s, v) \in 1..Len(s) /\ s[Position(s, v)] = v
BY DEF Contains, Position

LEMMA UpTo ==
  ASSUME NEW n \in Nat
  PROVE  IsFiniteSet(1..n) /\ Cardinality(1..n) = n
<1>1. 1 \in Int /\ n \in Int
  OBVIOUS
<1>2. IsFiniteSet(1..n) /\ Cardinality(1..n) = IF 1 > n THEN 0 ELSE n - 1 + 1
  BY <1>1, FS_Interval
<1> QED
  BY <1>2

\* A list of distinct numbers that has them all is as long as they are many.
LEMMA PermLength ==
  ASSUME NEW n \in Nat, NEW o, Perm(o, n)
  PROVE  Len(o) = n /\ ToSet(o) = 1..n
<1>1. o \in Seq(1..n) /\ Len(o) \in Nat /\ o \in [1..Len(o) -> 1..n]
  BY DEF Perm
<1>2. o \in Injection(1..Len(o), 1..n)
  BY <1>1 DEF Perm, Once, Injection, IsInjective
<1>3. o \in Surjection(1..Len(o), 1..n)
  BY <1>1 DEF Perm, Contains, Surjection
<1>4. IsFiniteSet(1..Len(o)) /\ Cardinality(1..Len(o)) = Len(o) /\ Cardinality(1..n) = n
  BY <1>1, UpTo
<1>5. Cardinality(1..n) = Cardinality(1..Len(o))
  BY <1>2, <1>3, <1>4, FS_Surjection
<1>6. ToSet(o) = 1..n
  BY <1>1 DEF Perm, Contains, ToSet
<1> QED
  BY <1>4, <1>5, <1>6

LEMMA SetToSeqsPerm ==
  ASSUME NEW n \in Nat, NEW o \in SetToSeqs(1..n)
  PROVE  Perm(o, n) /\ Len(o) = n
<1>1. IsFiniteSet(1..n) /\ Cardinality(1..n) = n
  BY UpTo
<1>2. o \in [1..n -> 1..n] /\ \A i, j \in 1..n : i # j => o[i] # o[j]
  BY <1>1 DEF SetToSeqs
<1>3. o \in Injection(1..n, 1..n)
  BY <1>2 DEF Injection, IsInjective
<1>4. o \in Surjection(1..n, 1..n)
  BY <1>1, <1>3, FS_Injection
<1>5. o \in Seq(1..n) /\ Len(o) = n
  BY <1>2
<1> QED
  BY <1>2, <1>4, <1>5 DEF Perm, Once, Contains, Surjection

------------------------------------------------------------------------------
(* Joining and splitting *)

Joins(u, s, t) ==
    /\ Len(u) = Len(s) + Len(t) /\ Len(s) \in Nat /\ Len(t) \in Nat
    /\ \A i \in 1..Len(s) : u[i] = s[i]
    /\ \A i \in 1..Len(t) : u[Len(s) + i] = t[i]

LEMMA JoinAt ==
  ASSUME NEW S, NEW s \in Seq(S), NEW t \in Seq(S)
  PROVE  s \o t \in Seq(S) /\ Joins(s \o t, s, t)
BY ConcatProperties DEF Joins

LEMMA JoinOnce ==
  ASSUME NEW S, NEW s \in Seq(S), NEW t \in Seq(S), Once(s), Once(t),
         \A v : ~(Contains(s, v) /\ Contains(t, v))
  PROVE  /\ s \o t \in Seq(S) /\ Once(s \o t) /\ Len(s \o t) = Len(s) + Len(t)
         /\ \A v : Contains(s \o t, v) <=> Contains(s, v) \/ Contains(t, v)
<1> DEFINE u == s \o t
<1>1. /\ u \in Seq(S) /\ Len(u) = Len(s) + Len(t) /\ Len(s) \in Nat /\ Len(t) \in Nat
      /\ \A i \in 1..Len(s) : u[i] = s[i]
      /\ \A i \in 1..Len(t) : u[Len(s) + i] = t[i]
  BY JoinAt DEF Joins
<1> HIDE DEF u
<1>2. ASSUME NEW i \in 1..Len(u), i > Len(s)
      PROVE  i - Len(s) \in 1..Len(t) /\ u[i] = t[i - Len(s)]
  <2>1. i - Len(s) \in 1..Len(t) /\ Len(s) + (i - Len(s)) = i
    BY <1>1, <1>2
  <2> QED
    BY <1>1, <2>1
<1>3. ASSUME NEW i \in 1..Len(u), ~(i > Len(s))
      PROVE  i \in 1..Len(s) /\ u[i] = s[i]
  BY <1>1, <1>3
<1>4. ASSUME NEW v PROVE Contains(u, v) <=> Contains(s, v) \/ Contains(t, v)
  <2>1. ASSUME Contains(u, v) PROVE Contains(s, v) \/ Contains(t, v)
    <3>1. PICK i \in 1..Len(u) : u[i] = v
      BY <2>1 DEF Contains
    <3> QED
      BY <1>2, <1>3, <3>1 DEF Contains
  <2>2. ASSUME Contains(s, v) PROVE Contains(u, v)
    <3>1. PICK i \in 1..Len(s) : s[i] = v
      BY <2>2 DEF Contains
    <3>2. i \in 1..Len(u)
      BY <1>1
    <3> QED
      BY <1>1, <3>1, <3>2 DEF Contains
  <2>3. ASSUME Contains(t, v) PROVE Contains(u, v)
    <3>1. PICK i \in 1..Len(t) : t[i] = v
      BY <2>3 DEF Contains
    <3>2. Len(s) + i \in 1..Len(u)
      BY <1>1
    <3> QED
      BY <1>1, <3>1, <3>2 DEF Contains
  <2> QED
    BY <2>1, <2>2, <2>3
<1>5. ASSUME NEW i \in 1..Len(u), NEW j \in 1..Len(u), u[i] = u[j] PROVE i = j
  <2>1. CASE i > Len(s) /\ j > Len(s)
    <3>1. i - Len(s) = j - Len(s)
      BY <1>2, <1>5, <2>1 DEF Once
    <3> QED
      BY <1>1, <3>1
  <2>2. CASE ~(i > Len(s)) /\ ~(j > Len(s))
    BY <1>3, <1>5, <2>2 DEF Once
  <2>3. CASE i > Len(s) /\ ~(j > Len(s))
    <3>1. Contains(t, u[i]) /\ Contains(s, u[i])
      BY <1>2, <1>3, <1>5, <2>3 DEF Contains
    <3> QED
      BY <3>1
  <2>4. CASE ~(i > Len(s)) /\ j > Len(s)
    <3>1. Contains(t, u[i]) /\ Contains(s, u[i])
      BY <1>2, <1>3, <1>5, <2>4 DEF Contains
    <3> QED
      BY <3>1
  <2> QED
    BY <2>1, <2>2, <2>3, <2>4
<1> QED
  BY <1>1, <1>4, <1>5 DEF Once, u

LEMMA SplitOnce ==
  ASSUME NEW S, NEW s \in Seq(S), Once(s), NEW n \in 0..Len(s)
  PROVE  LET front == SubSeq(s, 1, n)
             back == SubSeq(s, n + 1, Len(s))
         IN  /\ front \in Seq(S) /\ Once(front) /\ back \in Seq(S) /\ Once(back)
             /\ \A v : ~(Contains(front, v) /\ Contains(back, v))
             /\ \A v : Contains(s, v) <=> Contains(front, v) \/ Contains(back, v)
<1> DEFINE front == SubSeq(s, 1, n)
           back == SubSeq(s, n + 1, Len(s))
<1>0. n \in Nat /\ Len(s) \in Nat /\ n <= Len(s)
  OBVIOUS
<1>1. front \in Seq(S) /\ Len(front) = n /\ \A i \in 1..n : front[i] = s[i]
  BY <1>0
<1>2. back \in Seq(S) /\ Len(back) = Len(s) - n /\ \A i \in 1..Len(s) - n : back[i] = s[n + i]
  BY <1>0
<1> HIDE DEF front, back
<1>3. Once(front)
  BY <1>0, <1>1 DEF Once
<1>4. Once(back)
  <2> SUFFICES ASSUME NEW i \in 1..Len(back), NEW j \in 1..Len(back), back[i] = back[j] PROVE i = j
    BY DEF Once
  <2>1. n + i \in 1..Len(s) /\ n + j \in 1..Len(s) /\ s[n + i] = s[n + j]
    BY <1>0, <1>2
  <2>2. n + i = n + j
    BY <2>1 DEF Once
  <2> QED
    BY <1>0, <1>2, <2>2
<1>5. ASSUME NEW v, Contains(front, v), Contains(back, v) PROVE FALSE
  <2>1. PICK i \in 1..n : s[i] = v
    BY <1>1, <1>5 DEF Contains
  <2>2. PICK j \in 1..Len(s) - n : s[n + j] = v
    BY <1>2, <1>5 DEF Contains
  <2>3. i \in 1..Len(s) /\ n + j \in 1..Len(s) /\ i # n + j
    BY <1>0
  <2> QED
    BY <2>1, <2>2, <2>3 DEF Once
<1>6. ASSUME NEW v PROVE Contains(s, v) <=> Contains(front, v) \/ Contains(back, v)
  <2>1. ASSUME Contains(s, v) PROVE Contains(front, v) \/ Contains(back, v)
    <3>1. PICK i \in 1..Len(s) : s[i] = v
      BY <2>1 DEF Contains
    <3>2. CASE i <= n
      <4>1. i \in 1..n
        BY <1>0, <3>2
      <4> QED
        BY <1>1, <3>1, <4>1 DEF Contains
    <3>3. CASE ~(i <= n)
      <4>1. i - n \in 1..Len(s) - n /\ n + (i - n) = i
        BY <1>0, <3>3
      <4> QED
        BY <1>2, <3>1, <4>1 DEF Contains
    <3> QED
      BY <3>2, <3>3
  <2>2. ASSUME Contains(front, v) PROVE Contains(s, v)
    <3>1. PICK i \in 1..n : s[i] = v
      BY <1>1, <2>2 DEF Contains
    <3>2. i \in 1..Len(s)
      BY <1>0
    <3> QED
      BY <3>1, <3>2 DEF Contains
  <2>3. ASSUME Contains(back, v) PROVE Contains(s, v)
    <3>1. PICK i \in 1..Len(s) - n : s[n + i] = v
      BY <1>2, <2>3 DEF Contains
    <3>2. n + i \in 1..Len(s)
      BY <1>0
    <3> QED
      BY <3>1, <3>2 DEF Contains
  <2> QED
    BY <2>1, <2>2, <2>3
<1> QED
  BY <1>1, <1>2, <1>3, <1>4, <1>5, <1>6 DEF front, back

\* What is spliced in joins what was there.
LEMMA SplicedOnce ==
  ASSUME NEW S, NEW s \in Seq(S), NEW t \in Seq(S), Once(s), Once(t), NEW n \in 0..Len(s),
         \A v : ~(Contains(s, v) /\ Contains(t, v))
  PROVE  /\ Spliced(s, n, t) \in Seq(S) /\ Once(Spliced(s, n, t))
         /\ \A v : Contains(Spliced(s, n, t), v) <=> Contains(s, v) \/ Contains(t, v)
<1> DEFINE front == SubSeq(s, 1, n)
           back == SubSeq(s, n + 1, Len(s))
<1>1. /\ front \in Seq(S) /\ Once(front) /\ back \in Seq(S) /\ Once(back)
      /\ \A v : ~(Contains(front, v) /\ Contains(back, v))
      /\ \A v : Contains(s, v) <=> Contains(front, v) \/ Contains(back, v)
  BY SplitOnce
<1>2. Spliced(s, n, t) = (front \o t) \o back
  BY DEF Spliced
<1> HIDE DEF front, back
<1>3. /\ front \o t \in Seq(S) /\ Once(front \o t)
      /\ \A v : Contains(front \o t, v) <=> Contains(front, v) \/ Contains(t, v)
  <2>1. \A v : ~(Contains(front, v) /\ Contains(t, v))
    BY <1>1
  <2> QED
    BY <1>1, <2>1, JoinOnce
<1> DEFINE left == front \o t
<1>4. left \in Seq(S) /\ Once(left) /\ \A v : Contains(left, v) <=> Contains(front, v) \/ Contains(t, v)
  BY <1>3
<1>5. Spliced(s, n, t) = left \o back
  BY <1>2
<1> HIDE DEF left
<1>6. \A v : ~(Contains(left, v) /\ Contains(back, v))
  BY <1>1, <1>4
<1>7. /\ left \o back \in Seq(S) /\ Once(left \o back)
      /\ \A v : Contains(left \o back, v) <=> Contains(left, v) \/ Contains(back, v)
  BY <1>1, <1>4, <1>6, JoinOnce
<1> QED
  BY <1>1, <1>4, <1>5, <1>7

------------------------------------------------------------------------------
(* Filtering *)

\* Filtering s by S takes the elements at n places p, in their order.
FilteredAt(s, S, n, p) ==
    /\ p \in [1..n -> 1..Len(s)]
    /\ Kept(s, S) = [k \in 1..n |-> s[p[k]]]
    /\ \A k \in 1..n : s[p[k]] \in S
    /\ \A k, l \in 1..n : k <= l <=> p[k] <= p[l]
    /\ \A i \in 1..Len(s) : s[i] \in S => \E k \in 1..n : p[k] = i

LEMMA KeptPlaces ==
  ASSUME NEW T, NEW s \in Seq(T), NEW S
  PROVE  \E n \in Nat : \E p : FilteredAt(s, S, n, p)
<1> DEFINE places == {i \in 1..Len(s) : s[i] \in S}
           Below(i) == {j \in places : j <= i}
           Rank(i) == Cardinality({j \in places : j <= i})
           n == Cardinality(places)
           p == [k \in 1..n |-> CHOOSE i \in places : Rank(i) = k]
           rank == [i \in places |-> Rank(i)]
<1>1. IsFiniteSet(places) /\ n \in Nat /\ places \subseteq 1..Len(s)
  <2>1. IsFiniteSet(1..Len(s)) /\ places \in SUBSET (1..Len(s))
    BY UpTo
  <2>2. IsFiniteSet(places)
    BY <2>1, FS_Subset
  <2> QED
    BY <2>1, <2>2, FS_CardinalityType
<1>2. Kept(s, S) = [k \in 1..n |-> s[p[k]]]
  BY DEF Kept
<1>3. ASSUME NEW i \in places PROVE Rank(i) \in 1..n /\ IsFiniteSet(Below(i))
  <2>1. Below(i) \in SUBSET places /\ i \in Below(i) /\ Rank(i) = Cardinality(Below(i))
    BY <1>1
  <2> HIDE DEF places, Below, Rank
  <2>2. IsFiniteSet(Below(i)) /\ Cardinality(Below(i)) <= Cardinality(places)
    BY <1>1, <2>1, FS_Subset
  <2>3. Cardinality(Below(i)) \in Nat /\ Cardinality(Below(i)) # 0
    BY <2>1, <2>2, FS_CardinalityType, FS_EmptySet
  <2> QED
    BY <1>1, <2>1, <2>2, <2>3
<1>4. ASSUME NEW i \in places, NEW j \in places, i < j PROVE Rank(i) < Rank(j)
  <2>1. /\ Below(i) \in SUBSET Below(j) /\ j \in Below(j) /\ j \notin Below(i)
        /\ Rank(i) = Cardinality(Below(i)) /\ Rank(j) = Cardinality(Below(j))
    BY <1>1, <1>4
  <2>2. IsFiniteSet(Below(j))
    BY <1>3
  <2>3. Rank(i) \in Nat /\ Rank(j) \in Nat
    <3> HIDE DEF places, Below, Rank, n
    <3> QED
      BY <1>1, <1>3
  <2> HIDE DEF places, Below, Rank
  <2>4. Rank(i) <= Rank(j) /\ Rank(i) # Rank(j)
    BY <2>1, <2>2, FS_Subset
  <2> QED
    BY <2>3, <2>4
<1>5. ASSUME NEW i \in places, NEW j \in places, Rank(i) = Rank(j) PROVE i = j
  <2>1. i < j \/ j < i \/ i = j
    BY <1>1
  <2>2. Rank(i) \in Nat /\ Rank(j) \in Nat
    <3> HIDE DEF places, Below, Rank, n
    <3> QED
      BY <1>1, <1>3
  <2> HIDE DEF places, Rank
  <2>3. ~(Rank(i) < Rank(j)) /\ ~(Rank(j) < Rank(i))
    BY <1>5, <2>2
  <2> QED
    BY <1>4, <2>1, <2>3
<1>6. rank \in Injection(places, 1..n)
  <2> HIDE DEF places, Rank, n
  <2> QED
    BY <1>3, <1>5 DEF Injection, IsInjective
<1>7. rank \in Surjection(places, 1..n)
  <2>1. IsFiniteSet(1..n) /\ Cardinality(1..n) = Cardinality(places)
    BY <1>1, UpTo
  <2> HIDE DEF places, Rank, n, rank
  <2> QED
    BY <1>6, <2>1, FS_Injection
<1> HIDE DEF Rank, places, n
<1>8. ASSUME NEW k \in 1..n PROVE p[k] \in places /\ Rank(p[k]) = k
  <2>1. \E i \in places : Rank(i) = k
    BY <1>7 DEF Surjection
  <2> QED
    BY <2>1
<1> HIDE DEF p
<1>9. ASSUME NEW i \in places PROVE \E k \in 1..n : p[k] = i
  BY <1>3, <1>5, <1>8
<1>10. p \in [1..n -> 1..Len(s)]
  BY <1>1, <1>8 DEF p
<1>11. \A k \in 1..n : s[p[k]] \in S
  BY <1>8 DEF places
<1>12. ASSUME NEW k \in 1..n, NEW l \in 1..n PROVE k <= l <=> p[k] <= p[l]
  <2>1. /\ p[k] \in places /\ Rank(p[k]) = k /\ p[k] \in 1..Len(s)
        /\ p[l] \in places /\ Rank(p[l]) = l /\ p[l] \in 1..Len(s)
    BY <1>1, <1>8
  <2>2. (p[k] < p[l] => k < l) /\ (p[l] < p[k] => l < k)
    BY <1>4, <2>1
  <2>3. p[k] = p[l] => k = l
    BY <2>1
  <2>4. k \in Nat /\ l \in Nat /\ p[k] \in Nat /\ p[l] \in Nat
    BY <1>1, <2>1
  <2> QED
    BY <2>2, <2>3, <2>4
<1>13. \A i \in 1..Len(s) : s[i] \in S => \E k \in 1..n : p[k] = i
  BY <1>9 DEF places
<1>14. FilteredAt(s, S, n, p)
  BY <1>2, <1>10, <1>11, <1>12, <1>13 DEF FilteredAt
<1> QED
  BY <1>1, <1>14

LEMMA KeptOnce ==
  ASSUME NEW T, NEW s \in Seq(T), NEW S
  PROVE  /\ Kept(s, S) \in Seq(T) /\ Kept(s, S) \in Seq(S)
         /\ \A v : Contains(Kept(s, S), v) <=> Contains(s, v) /\ v \in S
         /\ Once(s) => Once(Kept(s, S))
<1>0. PICK n \in Nat : \E p : FilteredAt(s, S, n, p)
  BY KeptPlaces
<1>1. PICK p : FilteredAt(s, S, n, p)
  BY <1>0
<1>2. /\ p \in [1..n -> 1..Len(s)]
      /\ Kept(s, S) = [k \in 1..n |-> s[p[k]]]
      /\ \A k \in 1..n : s[p[k]] \in S
      /\ \A k, l \in 1..n : k <= l <=> p[k] <= p[l]
      /\ \A i \in 1..Len(s) : s[i] \in S => \E k \in 1..n : p[k] = i
  BY <1>1 DEF FilteredAt
<1> DEFINE kept == Kept(s, S)
<1>3. kept \in [1..n -> T] /\ kept \in [1..n -> S]
  BY <1>2
<1>4. kept \in Seq(T) /\ kept \in Seq(S) /\ Len(kept) = n
  BY <1>3
<1>5. \A k \in 1..n : kept[k] = s[p[k]] /\ p[k] \in 1..Len(s)
  BY <1>2
<1> HIDE DEF kept
<1>6. ASSUME NEW v PROVE Contains(kept, v) <=> Contains(s, v) /\ v \in S
  <2>1. ASSUME Contains(kept, v) PROVE Contains(s, v) /\ v \in S
    BY <1>2, <1>4, <1>5, <2>1 DEF Contains
  <2>2. ASSUME Contains(s, v), v \in S PROVE Contains(kept, v)
    <3>1. PICK i \in 1..Len(s) : s[i] = v
      BY <2>2 DEF Contains
    <3>2. PICK k \in 1..n : p[k] = i
      BY <1>2, <2>2, <3>1
    <3> QED
      BY <1>4, <1>5, <3>1, <3>2 DEF Contains
  <2> QED
    BY <2>1, <2>2
<1>7. ASSUME Once(s) PROVE Once(kept)
  <2> SUFFICES ASSUME NEW k \in 1..n, NEW l \in 1..n, kept[k] = kept[l] PROVE k = l
    BY <1>4 DEF Once
  <2>1. p[k] = p[l]
    BY <1>5, <1>7 DEF Once
  <2>2. k <= l /\ l <= k /\ k \in Nat /\ l \in Nat
    BY <1>2, <1>5, <2>1
  <2> QED
    BY <2>2
<1> QED
  BY <1>4, <1>6, <1>7 DEF kept

------------------------------------------------------------------------------
(* Renumbering *)

LEMMA PlusOnce ==
  ASSUME NEW m \in Nat, NEW n \in Nat, NEW a, Perm(a, n)
  PROVE  /\ Plus(m, a) \in Seq(1..m + n) /\ Once(Plus(m, a))
         /\ \A v : Contains(Plus(m, a), v) <=> v \in m + 1..m + n
<1> DEFINE b == Plus(m, a)
<1>1. a \in Seq(1..n) /\ Len(a) \in Nat /\ DOMAIN a = 1..Len(a) /\ a \in [1..Len(a) -> 1..n]
  BY DEF Perm
<1>2. b = [i \in 1..Len(a) |-> m + a[i]]
  BY <1>1 DEF Plus
<1>3. b \in [1..Len(a) -> 1..m + n] /\ \A i \in 1..Len(a) : b[i] = m + a[i]
  BY <1>1, <1>2
<1>4. b \in Seq(1..m + n) /\ Len(b) = Len(a)
  BY <1>1, <1>3
<1> HIDE DEF b
<1>5. Once(b)
  <2> SUFFICES ASSUME NEW i \in 1..Len(b), NEW j \in 1..Len(b), b[i] = b[j] PROVE i = j
    BY DEF Once
  <2>1. a[i] = a[j]
    BY <1>1, <1>3, <1>4
  <2> QED
    BY <1>4, <2>1 DEF Perm, Once
<1>6. ASSUME NEW v, Contains(b, v) PROVE v \in m + 1..m + n
  <2>1. PICK i \in 1..Len(a) : b[i] = v
    BY <1>4, <1>6 DEF Contains
  <2>2. v = m + a[i] /\ a[i] \in 1..n
    BY <1>1, <1>3, <2>1
  <2> QED
    BY <2>2
<1>7. ASSUME NEW v, v \in m + 1..m + n PROVE Contains(b, v)
  <2>1. v - m \in 1..n /\ m + (v - m) = v
    BY <1>7
  <2>2. PICK i \in 1..Len(a) : a[i] = v - m
    BY <2>1 DEF Perm, Contains
  <2>3. b[i] = v
    BY <1>3, <2>1, <2>2
  <2> QED
    BY <1>4, <2>3 DEF Contains
<1> QED
  BY <1>4, <1>5, <1>6, <1>7 DEF b

LEMMA ShiftedOnce ==
  ASSUME NEW m \in Nat, NEW n \in Nat, NEW s, Perm(s, m), NEW at \in 0..m
  PROVE  /\ Shifted(s, at, n) \in Seq(1..m + n) /\ Once(Shifted(s, at, n))
         /\ Len(Shifted(s, at, n)) = Len(s)
         /\ \A v : Contains(Shifted(s, at, n), v) <=> v \in 1..at \/ v \in at + n + 1..m + n
<1> DEFINE b == Shifted(s, at, n)
<1>1. /\ s \in Seq(1..m) /\ Len(s) \in Nat /\ DOMAIN s = 1..Len(s) /\ s \in [1..Len(s) -> 1..m]
      /\ at \in Nat /\ at <= m
  BY DEF Perm
<1>2. b = [i \in 1..Len(s) |-> IF s[i] > at THEN s[i] + n ELSE s[i]]
  BY <1>1 DEF Shifted
<1>3. /\ b \in [1..Len(s) -> 1..m + n]
      /\ \A i \in 1..Len(s) : b[i] = IF s[i] > at THEN s[i] + n ELSE s[i]
  BY <1>1, <1>2
<1>4. b \in Seq(1..m + n) /\ Len(b) = Len(s)
  BY <1>1, <1>3
<1> HIDE DEF b
<1>5. Once(b)
  <2> SUFFICES ASSUME NEW i \in 1..Len(b), NEW j \in 1..Len(b), b[i] = b[j] PROVE i = j
    BY DEF Once
  <2>1. s[i] \in 1..m /\ s[j] \in 1..m
    BY <1>1, <1>4
  <2>2. /\ b[i] = IF s[i] > at THEN s[i] + n ELSE s[i]
        /\ b[j] = IF s[j] > at THEN s[j] + n ELSE s[j]
    BY <1>3, <1>4
  <2>3. \A x, y \in Nat : (IF x > at THEN x + n ELSE x) = (IF y > at THEN y + n ELSE y) => x = y
    <3> SUFFICES ASSUME NEW x \in Nat, NEW y \in Nat,
                        (IF x > at THEN x + n ELSE x) = (IF y > at THEN y + n ELSE y)
                 PROVE  x = y
      OBVIOUS
    <3> QED
      BY <1>1
  <2>4. s[i] \in Nat /\ s[j] \in Nat
    BY <2>1
  <2>5. s[i] = s[j]
    BY <2>2, <2>3, <2>4
  <2> QED
    BY <1>4, <2>5 DEF Perm, Once
<1>6. ASSUME NEW v, Contains(b, v) PROVE v \in 1..at \/ v \in at + n + 1..m + n
  <2>1. PICK i \in 1..Len(s) : b[i] = v
    BY <1>4, <1>6 DEF Contains
  <2>2. s[i] \in 1..m /\ v = IF s[i] > at THEN s[i] + n ELSE s[i]
    BY <1>1, <1>3, <2>1
  <2> QED
    BY <1>1, <2>2
<1>7. ASSUME NEW v, v \in 1..at PROVE Contains(b, v)
  <2>1. v \in 1..m /\ ~(v > at)
    BY <1>1, <1>7
  <2>2. PICK i \in 1..Len(s) : s[i] = v
    BY <2>1 DEF Perm, Contains
  <2>3. b[i] = v
    BY <1>3, <2>1, <2>2
  <2> QED
    BY <1>4, <2>3 DEF Contains
<1>8. ASSUME NEW v, v \in at + n + 1..m + n PROVE Contains(b, v)
  <2>1. v - n \in 1..m /\ v - n > at /\ (v - n) + n = v
    BY <1>1, <1>8
  <2>2. PICK i \in 1..Len(s) : s[i] = v - n
    BY <2>1 DEF Perm, Contains
  <2>3. b[i] = v
    BY <1>3, <2>1, <2>2
  <2> QED
    BY <1>4, <2>3 DEF Contains
<1> QED
  BY <1>4, <1>5, <1>6, <1>7, <1>8 DEF b

\* Appended tracks take the last numbers and the last turns.
LEMMA AppendedPerm ==
  ASSUME NEW m \in Nat, NEW n \in Nat, NEW s, Perm(s, m), NEW a, Perm(a, n)
  PROVE  Perm(s \o Plus(m, a), m + n)
<1> DEFINE b == Plus(m, a)
<1>1. b \in Seq(1..m + n) /\ Once(b) /\ \A v : Contains(b, v) <=> v \in m + 1..m + n
  BY PlusOnce
<1>2. s \in Seq(1..m) /\ Once(s) /\ \A v \in 1..m : Contains(s, v)
  BY DEF Perm
<1>3. s \in Seq(1..m + n)
  BY <1>2
<1>4. \A v : Contains(s, v) => v \in 1..m
  BY <1>2, ContainsTyped
<1> HIDE DEF b
<1>5. \A v : ~(Contains(s, v) /\ Contains(b, v))
  <2>1. \A v : ~(v \in 1..m /\ v \in m + 1..m + n)
    OBVIOUS
  <2> QED
    BY <1>1, <1>4, <2>1
<1>6. /\ s \o b \in Seq(1..m + n) /\ Once(s \o b)
      /\ \A v : Contains(s \o b, v) <=> Contains(s, v) \/ Contains(b, v)
  BY <1>1, <1>2, <1>3, <1>5, JoinOnce
<1>7. \A v \in 1..m + n : v \in 1..m \/ v \in m + 1..m + n
  OBVIOUS
<1>8. \A v \in 1..m + n : Contains(s \o b, v)
  BY <1>1, <1>2, <1>6, <1>7
<1> QED
  BY <1>6, <1>8 DEF Perm, b

\* Inserted tracks take the numbers from the insertion on, at any turn.
LEMMA InsertedPerm ==
  ASSUME NEW m \in Nat, NEW n \in Nat, NEW s, Perm(s, m), NEW a, Perm(a, n),
         NEW at \in 0..m, NEW turn \in 0..Len(s)
  PROVE  Perm(Spliced(Shifted(s, at, n), turn, Plus(at, a)), m + n)
<1> DEFINE b == Plus(at, a)
           c == Shifted(s, at, n)
<1>0. at \in Nat /\ at <= m
  OBVIOUS
<1>1. /\ b \in Seq(1..at + n) /\ Once(b)
      /\ \A v : Contains(b, v) <=> v \in at + 1..at + n
  BY <1>0, PlusOnce
<1>2. /\ c \in Seq(1..m + n) /\ Once(c) /\ Len(c) = Len(s)
      /\ \A v : Contains(c, v) <=> v \in 1..at \/ v \in at + n + 1..m + n
  BY ShiftedOnce
<1> HIDE DEF b, c
<1>3. b \in Seq(1..m + n)
  <2>1. 1..at + n \subseteq 1..m + n
    BY <1>0
  <2> QED
    BY <1>1, <2>1
<1>4. \A v : ~(Contains(c, v) /\ Contains(b, v))
  <2>1. \A v : ~(v \in 1..at /\ v \in at + 1..at + n)
    BY <1>0
  <2>2. \A v : ~(v \in at + n + 1..m + n /\ v \in at + 1..at + n)
    BY <1>0
  <2> QED
    BY <1>1, <1>2, <2>1, <2>2
<1>5. turn \in 0..Len(c)
  BY <1>2
<1>6. /\ Spliced(c, turn, b) \in Seq(1..m + n) /\ Once(Spliced(c, turn, b))
      /\ \A v : Contains(Spliced(c, turn, b), v) <=> Contains(c, v) \/ Contains(b, v)
  BY <1>1, <1>2, <1>3, <1>4, <1>5, SplicedOnce
<1>7. \A v \in 1..m + n : v \in 1..at \/ v \in at + 1..at + n \/ v \in at + n + 1..m + n
  BY <1>0
<1>8. \A v \in 1..m + n : Contains(Spliced(c, turn, b), v)
  BY <1>1, <1>2, <1>6, <1>7
<1> QED
  BY <1>6, <1>8 DEF Perm, b, c

\* Renumbering an order of all old tracks gives one of all new ones, when the
\* new ones were there before.
LEMMA RenumberedPerm ==
  ASSUME items \in Seq(Ids), Once(items), NEW queue \in Seq(Ids), Once(queue),
         \A v : Contains(queue, v) => Contains(items, v), NEW s, Perm(s, Len(items))
  PROVE  Perm(Renumbered(s, queue), Len(queue))
<1> DEFINE S == {i \in 1..Len(items) : Contains(queue, items[i])}
           kept == Kept(s, S)
           r == Renumbered(s, queue)
<1>1. /\ s \in Seq(1..Len(items)) /\ Once(s) /\ Len(items) \in Nat /\ Len(queue) \in Nat
      /\ \A v \in 1..Len(items) : Contains(s, v)
  BY DEF Perm
<1>2. /\ kept \in Seq(S) /\ Once(kept)
      /\ \A v : Contains(kept, v) <=> Contains(s, v) /\ v \in S
  <2> HIDE DEF S
  <2> QED
    BY <1>1, KeptOnce
<1>3. r = [i \in DOMAIN kept |-> Position(queue, items[kept[i]])]
  BY DEF Renumbered
<1>4. \A i \in S : i \in 1..Len(items) /\ Contains(queue, items[i])
  OBVIOUS
<1>5. \A i \in 1..Len(items) : Contains(queue, items[i]) => i \in S
  OBVIOUS
<1> HIDE DEF S, kept, r
<1>6. Len(kept) \in Nat /\ DOMAIN kept = 1..Len(kept) /\ kept \in [1..Len(kept) -> S]
  BY <1>2
<1>7. ASSUME NEW i \in 1..Len(kept)
      PROVE  /\ r[i] = Position(queue, items[kept[i]]) /\ r[i] \in 1..Len(queue)
             /\ queue[r[i]] = items[kept[i]] /\ kept[i] \in 1..Len(items)
  <2>1. kept[i] \in 1..Len(items) /\ Contains(queue, items[kept[i]])
    BY <1>4, <1>6
  <2>2. r[i] = Position(queue, items[kept[i]])
    BY <1>3, <1>6
  <2> QED
    BY <2>1, <2>2, ContainsTyped
<1>8. r \in [1..Len(kept) -> 1..Len(queue)]
  BY <1>3, <1>6, <1>7
<1>9. r \in Seq(1..Len(queue)) /\ Len(r) = Len(kept)
  <2> HIDE DEF r
  <2> QED
    BY <1>6, <1>8, FunctionIsList
<1>10. Once(r)
  <2> SUFFICES ASSUME NEW i \in 1..Len(r), NEW j \in 1..Len(r), r[i] = r[j] PROVE i = j
    BY DEF Once
  <2>1. items[kept[i]] = items[kept[j]] /\ kept[i] \in 1..Len(items) /\ kept[j] \in 1..Len(items)
    BY <1>7, <1>9
  <2>2. kept[i] = kept[j]
    BY <2>1 DEF Once
  <2> QED
    BY <1>2, <1>9, <2>2 DEF Once
<1>11. ASSUME NEW v \in 1..Len(queue) PROVE Contains(r, v)
  <2>1. Contains(queue, queue[v])
    BY DEF Contains
  <2>2. PICK u \in 1..Len(items) : items[u] = queue[v]
    BY <2>1 DEF Contains
  <2>3. u \in S /\ Contains(s, u)
    BY <1>1, <1>5, <2>1, <2>2
  <2>4. PICK k \in 1..Len(kept) : kept[k] = u
    BY <1>2, <2>3 DEF Contains
  <2>5. r[k] \in 1..Len(queue) /\ queue[r[k]] = queue[v]
    BY <1>7, <2>2, <2>4
  <2>6. r[k] = v
    BY <2>5 DEF Once
  <2> QED
    BY <1>9, <2>4, <2>6 DEF Contains
<1> QED
  BY <1>9, <1>10, <1>11 DEF Perm, r

------------------------------------------------------------------------------
(* The steps *)

\* u is s with c put in behind the first n.
Opened(u, s, n, c) ==
    /\ Len(u) = Len(s) + Len(c)
    /\ \A i \in 1..n : u[i] = s[i]
    /\ \A i \in 1..Len(c) : u[n + i] = c[i]
    /\ \A i \in n + 1..Len(s) : u[i + Len(c)] = s[i]

LEMMA SplicedAt ==
  ASSUME NEW S, NEW s \in Seq(S), NEW t \in Seq(S), NEW n \in 0..Len(s)
  PROVE  Spliced(s, n, t) \in Seq(S) /\ Opened(Spliced(s, n, t), s, n, t)
<1> DEFINE front == SubSeq(s, 1, n)
           back == SubSeq(s, n + 1, Len(s))
           left == front \o t
           u == left \o back
<1>1. n \in Nat /\ Len(s) \in Nat /\ n <= Len(s) /\ Len(t) \in Nat
  OBVIOUS
<1>2. front \in Seq(S) /\ Len(front) = n /\ \A i \in 1..n : front[i] = s[i]
  BY <1>1
<1>3. /\ back \in Seq(S) /\ Len(back) = Len(s) - n
      /\ \A i \in 1..Len(s) - n : back[i] = s[n + i]
  BY <1>1
<1>4. Spliced(s, n, t) = u
  BY DEF Spliced
<1> HIDE DEF front, back
<1>5. left \in Seq(S) /\ Joins(left, front, t)
  BY <1>2, JoinAt
<1> HIDE DEF left
<1>6. u \in Seq(S) /\ Joins(u, left, back)
  BY <1>3, <1>5, JoinAt
<1> HIDE DEF u
<1>7. Len(u) = Len(s) + Len(t)
  BY <1>1, <1>2, <1>3, <1>5, <1>6 DEF Joins
<1>8. ASSUME NEW i \in 1..n PROVE u[i] = s[i]
  <2>1. i \in 1..Len(left)
    BY <1>1, <1>2, <1>5 DEF Joins
  <2> QED
    BY <1>2, <1>5, <1>6, <2>1 DEF Joins
<1>9. ASSUME NEW i \in 1..Len(t) PROVE u[n + i] = t[i]
  <2>1. n + i \in 1..Len(left)
    BY <1>1, <1>2, <1>5 DEF Joins
  <2> QED
    BY <1>2, <1>5, <1>6, <2>1 DEF Joins
<1>10. ASSUME NEW i \in n + 1..Len(s) PROVE u[i + Len(t)] = s[i]
  <2>1. i - n \in 1..Len(back) /\ i - n \in 1..Len(s) - n /\ n + (i - n) = i
        /\ Len(left) + (i - n) = i + Len(t)
    BY <1>1, <1>2, <1>3, <1>5 DEF Joins
  <2> QED
    BY <1>3, <1>6, <2>1 DEF Joins
<1> QED
  BY <1>4, <1>6, <1>7, <1>8, <1>9, <1>10 DEF Opened

LEMMA InsertionInRange ==
  ASSUME NEW S, NEW s \in Seq(S), NEW e
  PROVE  InsertionIndex(s, e) \in 0..Len(s)
<1>1. CASE Contains(s, e)
  <2>1. Position(s, e) \in 1..Len(s)
    BY <1>1, ContainsTyped
  <2> QED
    BY <1>1, <2>1 DEF InsertionIndex
<1>2. CASE ~Contains(s, e)
  BY <1>2 DEF InsertionIndex
<1> QED
  BY <1>1, <1>2

LEMMA NewOrdersPerm ==
  ASSUME NEW queue \in Seq(Ids), NEW seeded, NEW pivot,
         NEW o \in NewOrders(queue, seeded, pivot), o # NoOrder
  PROVE  Perm(o, Len(queue))
<1>1. o \in SetToSeqs(1..Len(queue))
  BY DEF NewOrders, ShuffleOrders
<1>2. Len(queue) \in Nat
  OBVIOUS
<1> QED
  BY <1>1, <1>2, SetToSeqsPerm

LEMMA ShuffleOrdersPerm ==
  ASSUME NEW n \in Nat, NEW pivot, NEW o \in ShuffleOrders(n, pivot)
  PROVE  Perm(o, n)
BY SetToSeqsPerm DEF ShuffleOrders

\* The queue repeats no item, and an order, if there is one, is a permutation
\* of its indexes.
QueueInv ==
    /\ items \in Seq(Ids) /\ Once(items)
    /\ shuffle \in BOOLEAN /\ autoplay \subseteq AutoplayIds
    /\ order # NoOrder => shuffle /\ Perm(order, Len(items))

\* What an edit extends covers the queue, also when the queue was empty.
LEMMA PriorPerm ==
  ASSUME QueueInv, PriorOrder # NoOrder
  PROVE  Perm(PriorOrder, Len(items)) /\ PriorOrder \in Seq(1..Len(items))
<1>1. CASE items = <<>>
  <2>1. PriorOrder = <<>> /\ Len(items) = 0
    BY <1>1 DEF PriorOrder
  <2> QED
    BY <2>1 DEF Perm, Once
<1>2. CASE items # <<>>
  <2>1. PriorOrder = order
    BY <1>2 DEF PriorOrder
  <2> QED
    BY <2>1 DEF QueueInv, Perm
<1> QED
  BY <1>1, <1>2

\* Tracks the server adds are not in the queue yet.
LEMMA FreshTracks ==
  ASSUME QueueInv, NEW tracks \in Fresh
  PROVE  tracks \in Seq(Ids) /\ Once(tracks) /\ \A v : ~(Contains(items, v) /\ Contains(tracks, v))
<1>1. tracks \in Seq(Ids \ ToSet(items)) /\ Once(tracks)
  BY ListsOnce DEF Fresh
<1>2. \A v : Contains(tracks, v) => v \in Ids \ ToSet(items)
  BY <1>1, ContainsTyped
<1>3. \A v : v \in ToSet(items) <=> Contains(items, v)
  BY ToSetContains DEF QueueInv
<1>4. tracks \in Seq(Ids)
  BY <1>1
<1> QED
  BY <1>1, <1>2, <1>3, <1>4

LEMMA ReplacedStep ==
  ASSUME QueueInv, Snapshot
  PROVE  QueueInv'
<1>1. PICK tracks \in Lists(Ids, MaxLength), next \in SUBSET AutoplayIds, mode \in BOOLEAN :
        \E indexes \in {<<>>} \cup SetToSeqs(1..Len(tracks)) :
           QueueStateReplaced(tracks, mode, indexes, next)
  BY DEF Snapshot
<1>2. PICK indexes \in {<<>>} \cup SetToSeqs(1..Len(tracks)) :
        QueueStateReplaced(tracks, mode, indexes, next)
  BY <1>1
<1>3. tracks \in Seq(Ids) /\ Once(tracks) /\ Len(tracks) \in Nat
  BY ListsOnce
<1>4. /\ items' = tracks /\ shuffle' = mode /\ autoplay' = next
      /\ order' = IF mode /\ indexes # <<>> THEN indexes ELSE NoOrder
  BY <1>2 DEF QueueStateReplaced
<1>5. ASSUME order' # NoOrder PROVE shuffle' /\ Perm(order', Len(tracks))
  <2>1. mode /\ indexes \in SetToSeqs(1..Len(tracks)) /\ order' = indexes
    BY <1>4, <1>5
  <2> QED
    BY <1>3, <1>4, <2>1, SetToSeqsPerm
<1> QED
  BY <1>3, <1>4, <1>5 DEF QueueInv

LEMMA AutoplayStays ==
  ASSUME QueueInv, NEW reset \in BOOLEAN, ResetAutoplay(reset)
  PROVE  autoplay' \subseteq AutoplayIds
BY DEF QueueInv, ResetAutoplay

LEMMA AddedStep ==
  ASSUME QueueInv, NEW tracks \in Fresh, NEW seeded \in BOOLEAN, NEW reset \in BOOLEAN,
         TracksAdded(tracks, seeded, reset)
  PROVE  QueueInv'
<1>1. tracks \in Seq(Ids) /\ Once(tracks) /\ \A v : ~(Contains(items, v) /\ Contains(tracks, v))
  BY FreshTracks
<1>2. items \in Seq(Ids) /\ Once(items) /\ shuffle \in BOOLEAN
  BY DEF QueueInv
<1>3. /\ items' = items \o tracks /\ shuffle' = shuffle /\ autoplay' \subseteq AutoplayIds
      /\ IF ~shuffle THEN order' = order
         ELSE IF PriorOrder = NoOrder \/ ~seeded THEN order' = NoOrder
         ELSE \E added \in ShuffleOrders(Len(tracks), 0) :
                 order' = PriorOrder \o Plus(Len(items), added)
  BY AutoplayStays DEF TracksAdded
<1>4. items' \in Seq(Ids) /\ Once(items') /\ Len(items') = Len(items) + Len(tracks)
  BY <1>1, <1>2, <1>3, JoinOnce
<1>5. ASSUME order' # NoOrder PROVE shuffle /\ Perm(order', Len(items'))
  <2>1. shuffle /\ PriorOrder # NoOrder
    BY <1>3, <1>5 DEF QueueInv
  <2>2. PICK added \in ShuffleOrders(Len(tracks), 0) : order' = PriorOrder \o Plus(Len(items), added)
    BY <1>3, <1>5, <2>1
  <2>3. Len(items) \in Nat /\ Len(tracks) \in Nat
    BY <1>1, <1>2
  <2>4. Perm(added, Len(tracks)) /\ Perm(PriorOrder, Len(items))
    BY <2>1, <2>3, ShuffleOrdersPerm, PriorPerm
  <2> QED
    BY <1>4, <2>1, <2>2, <2>3, <2>4, AppendedPerm
<1> QED
  BY <1>2, <1>3, <1>4, <1>5 DEF QueueInv

LEMMA InsertedStep ==
  ASSUME QueueInv, NEW tracks \in Fresh, NEW after, NEW seeded \in BOOLEAN,
         NEW reset \in BOOLEAN, TracksInserted(tracks, after, seeded, reset)
  PROVE  QueueInv'
<1> DEFINE at == InsertionIndex(items, after)
           n == Len(tracks)
<1>1. tracks \in Seq(Ids) /\ Once(tracks) /\ \A v : ~(Contains(items, v) /\ Contains(tracks, v))
  BY FreshTracks
<1>2. items \in Seq(Ids) /\ Once(items) /\ shuffle \in BOOLEAN
  BY DEF QueueInv
<1>3. /\ items' = Spliced(items, at, tracks) /\ shuffle' = shuffle
      /\ autoplay' \subseteq AutoplayIds
      /\ IF ~shuffle THEN order' = order
         ELSE IF PriorOrder = NoOrder \/ ~seeded THEN order' = NoOrder
         ELSE \E added \in ShuffleOrders(n, 0) :
                 order' = Spliced(Shifted(PriorOrder, at, n), TurnOf(after), Plus(at, added))
  BY AutoplayStays DEF TracksInserted
<1>4. at \in 0..Len(items) /\ n \in Nat /\ Len(items) \in Nat
  BY <1>1, <1>2, InsertionInRange
<1> HIDE DEF at
<1>5. items' \in Seq(Ids) /\ Once(items')
  BY <1>1, <1>2, <1>3, <1>4, SplicedOnce
<1>6. Len(items') = Len(items) + n
  BY <1>1, <1>2, <1>3, <1>4, SplicedAt DEF Opened
<1>7. ASSUME order' # NoOrder PROVE shuffle /\ Perm(order', Len(items'))
  <2>1. shuffle /\ PriorOrder # NoOrder
    BY <1>3, <1>7 DEF QueueInv
  <2>2. PICK added \in ShuffleOrders(n, 0) :
          order' = Spliced(Shifted(PriorOrder, at, n), TurnOf(after), Plus(at, added))
    BY <1>3, <1>7, <2>1
  <2>3. Perm(added, n) /\ Perm(PriorOrder, Len(items)) /\ PriorOrder \in Seq(1..Len(items))
    BY <1>4, <2>1, ShuffleOrdersPerm, PriorPerm
  <2>4. TurnOf(after) \in 0..Len(PriorOrder)
    <3>1. Len(PriorOrder) \in Nat /\ \A e : InsertionIndex(PriorOrder, e) \in 0..Len(PriorOrder)
      BY <2>3, InsertionInRange
    <3> QED
      BY <3>1 DEF TurnOf
  <2>5. Perm(Spliced(Shifted(PriorOrder, at, n), TurnOf(after), Plus(at, added)), Len(items) + n)
    BY <1>4, <2>3, <2>4, InsertedPerm
  <2> QED
    BY <1>6, <2>1, <2>2, <2>5
<1> QED
  BY <1>2, <1>3, <1>5, <1>7 DEF QueueInv

LEMMA LoadedStep ==
  ASSUME QueueInv, NEW tracks \in Lists(Ids, MaxLength), NEW mode \in BOOLEAN,
         NEW seeded \in BOOLEAN, NEW pivot, NEW reset \in BOOLEAN,
         TracksLoaded(tracks, mode, seeded, pivot, reset)
  PROVE  QueueInv'
<1>1. tracks \in Seq(Ids) /\ Once(tracks)
  BY ListsOnce
<1>2. /\ items' = tracks /\ shuffle' = mode /\ autoplay' \subseteq AutoplayIds
      /\ order' \in IF mode THEN NewOrders(tracks, seeded, pivot) ELSE {NoOrder}
  BY AutoplayStays DEF TracksLoaded
<1>3. order' # NoOrder => mode /\ Perm(order', Len(tracks))
  BY <1>1, <1>2, NewOrdersPerm
<1> QED
  BY <1>1, <1>2, <1>3 DEF QueueInv

LEMMA ShuffledStep ==
  ASSUME QueueInv, NEW mode \in BOOLEAN, NEW seeded \in BOOLEAN, NEW pivot,
         NEW reset \in BOOLEAN, ShuffleModeSet(mode, seeded, pivot, reset)
  PROVE  QueueInv'
<1>1. items \in Seq(Ids) /\ Once(items)
  BY DEF QueueInv
<1>2. /\ items' = items /\ shuffle' = mode /\ autoplay' \subseteq AutoplayIds
      /\ order' \in IF mode THEN NewOrders(items, seeded, pivot) ELSE {NoOrder}
  BY AutoplayStays DEF ShuffleModeSet
<1>3. order' # NoOrder => mode /\ Perm(order', Len(items))
  BY <1>1, <1>2, NewOrdersPerm
<1> QED
  BY <1>1, <1>2, <1>3 DEF QueueInv

\* A queue of tracks that were there before, with the order renumbered.
LEMMA RenumberedStep ==
  ASSUME QueueInv, items' \in Seq(Ids), Once(items'),
         \A v : Contains(items', v) => Contains(items, v),
         order' = IF order = NoOrder THEN NoOrder ELSE Renumbered(order, items'),
         shuffle' = shuffle, autoplay' \subseteq AutoplayIds
  PROVE  QueueInv'
<1>1. order # NoOrder => Perm(Renumbered(order, items'), Len(items'))
  BY RenumberedPerm DEF QueueInv
<1> QED
  BY <1>1 DEF QueueInv

LEMMA RemovedStep ==
  ASSUME QueueInv, NEW ids \in SUBSET Ids, NEW reset \in BOOLEAN, TracksRemoved(ids, reset)
  PROVE  QueueInv'
<1>1. items \in Seq(Ids) /\ Once(items)
  BY DEF QueueInv
<1>2. /\ items' = Kept(items, Ids \ ids) /\ shuffle' = shuffle
      /\ order' = IF order = NoOrder THEN NoOrder ELSE Renumbered(order, items')
      /\ autoplay' \subseteq AutoplayIds
  BY AutoplayStays DEF TracksRemoved
<1>3. items' \in Seq(Ids) /\ Once(items') /\ \A v : Contains(items', v) => Contains(items, v)
  BY <1>1, <1>2, KeptOnce
<1> QED
  BY <1>2, <1>3, RenumberedStep

LEMMA ReorderedStep ==
  ASSUME QueueInv, NEW ids \in Lists(Ids, MaxLength), NEW after, NEW reset \in BOOLEAN,
         TracksReordered(ids, after, reset)
  PROVE  QueueInv'
<1> DEFINE moving == Kept(ids, ToSet(items))
           remaining == Kept(items, Ids \ ToSet(ids))
           at == InsertionIndex(remaining, after)
<1>1. items \in Seq(Ids) /\ Once(items) /\ ids \in Seq(Ids) /\ Once(ids)
  BY ListsOnce DEF QueueInv
<1>2. /\ IF moving = <<>> THEN items' = items /\ order' = order
         ELSE items' = Spliced(remaining, at, moving) /\ order' = OrderAfterMove(items')
      /\ shuffle' = shuffle /\ autoplay' \subseteq AutoplayIds
  BY AutoplayStays DEF TracksReordered
<1>3. /\ moving \in Seq(Ids) /\ Once(moving)
      /\ \A v : Contains(moving, v) => Contains(ids, v) /\ v \in ToSet(items)
  BY <1>1, KeptOnce
<1>4. /\ remaining \in Seq(Ids) /\ Once(remaining)
      /\ \A v : Contains(remaining, v) => Contains(items, v) /\ v \notin ToSet(ids)
  BY <1>1, KeptOnce
<1>5. at \in 0..Len(remaining)
  BY <1>4, InsertionInRange
<1> HIDE DEF moving, remaining, at
<1>6. \A v : ~(Contains(remaining, v) /\ Contains(moving, v))
  BY <1>1, <1>3, <1>4, ToSetContains
<1>7. /\ Spliced(remaining, at, moving) \in Seq(Ids) /\ Once(Spliced(remaining, at, moving))
      /\ \A v : Contains(Spliced(remaining, at, moving), v)
                   <=> Contains(remaining, v) \/ Contains(moving, v)
  BY <1>3, <1>4, <1>5, <1>6, SplicedOnce
<1>8. CASE moving = <<>>
  BY <1>2, <1>8 DEF QueueInv
<1>9. CASE moving # <<>>
  <2>1. /\ items' = Spliced(remaining, at, moving)
        /\ order' = IF order = NoOrder THEN NoOrder ELSE Renumbered(order, items')
    BY <1>2, <1>9 DEF OrderAfterMove
  <2>2. \A v : Contains(items', v) => Contains(items, v)
    BY <1>1, <1>3, <1>4, <1>7, <2>1, ToSetContains
  <2>3. items' \in Seq(Ids) /\ Once(items')
    BY <1>7, <2>1
  <2> QED
    BY <1>2, <2>1, <2>2, <2>3, RenumberedStep
<1> QED
  BY <1>8, <1>9

LEMMA EmptyList == <<>> \in Seq(Ids) /\ Once(<<>>)
<1>1. Len(<<>>) = 0 /\ <<>> \in Seq(Ids)
  OBVIOUS
<1> QED
  BY <1>1 DEF Once

LEMMA InitQueue == Init => QueueInv
<1> SUFFICES ASSUME Init PROVE QueueInv
  OBVIOUS
<1>1. items = <<>> /\ shuffle = FALSE /\ order = NoOrder /\ autoplay = {}
  BY DEF Init
<1>2. items \in Seq(Ids) /\ Once(items)
  BY <1>1, EmptyList
<1> QED
  BY <1>1, <1>2 DEF QueueInv

LEMMA QueueStep == QueueInv /\ [Next]_vars => QueueInv'
<1> SUFFICES ASSUME QueueInv, [Next]_vars PROVE QueueInv'
  OBVIOUS
<1>1. CASE Snapshot
  BY <1>1, ReplacedStep
<1>2. CASE Edit
  <2>1. PICK reset \in BOOLEAN, seeded \in BOOLEAN :
       \/ \E tracks \in Fresh : TracksAdded(tracks, seeded, reset)
       \/ \E tracks \in Fresh, after \in Anchors : TracksInserted(tracks, after, seeded, reset)
       \/ \E tracks \in Lists(Ids, MaxLength), mode \in BOOLEAN, pivot \in Anchors :
             TracksLoaded(tracks, mode, seeded, pivot, reset)
       \/ \E mode \in BOOLEAN, pivot \in Anchors : ShuffleModeSet(mode, seeded, pivot, reset)
       \/ AutoplayModeSet(reset)
    BY <1>2 DEF Edit
  <2>2. CASE \E tracks \in Fresh : TracksAdded(tracks, seeded, reset)
    BY <2>2, AddedStep
  <2>3. CASE \E tracks \in Fresh, after \in Anchors : TracksInserted(tracks, after, seeded, reset)
    BY <2>3, InsertedStep
  <2>4. CASE \E tracks \in Lists(Ids, MaxLength), mode \in BOOLEAN, pivot \in Anchors :
                TracksLoaded(tracks, mode, seeded, pivot, reset)
    BY <2>4, LoadedStep
  <2>5. CASE \E mode \in BOOLEAN, pivot \in Anchors : ShuffleModeSet(mode, seeded, pivot, reset)
    BY <2>5, ShuffledStep
  <2>6. CASE AutoplayModeSet(reset)
    <3>1. autoplay' \subseteq AutoplayIds /\ items' = items /\ shuffle' = shuffle /\ order' = order
      BY <2>6, AutoplayStays DEF AutoplayModeSet
    <3> QED
      BY <3>1 DEF QueueInv
  <2> QED
    BY <2>1, <2>2, <2>3, <2>4, <2>5, <2>6
<1>3. CASE Rearrange
  <2>1. PICK reset \in BOOLEAN :
       \/ \E ids \in SUBSET Ids : TracksRemoved(ids, reset)
       \/ \E ids \in Lists(Ids, MaxLength), after \in Anchors : TracksReordered(ids, after, reset)
    BY <1>3 DEF Rearrange
  <2> QED
    BY <2>1, RemovedStep, ReorderedStep
<1>4. CASE Autoplay
  <2>1. autoplay' \subseteq AutoplayIds /\ items' = items /\ shuffle' = shuffle /\ order' = order
    BY <1>4 DEF Autoplay, AutoplayTracksLoaded, AutoplayTracksRemoved, QueueInv
  <2> QED
    BY <2>1 DEF QueueInv
<1>5. CASE QueueCleared
  <2>1. items' = <<>> /\ autoplay' = {} /\ shuffle' = FALSE /\ order' = NoOrder
    BY <1>5 DEF QueueCleared
  <2>2. items' \in Seq(Ids) /\ Once(items')
    BY <2>1, EmptyList
  <2> QED
    BY <2>1, <2>2 DEF QueueInv
<1>6. CASE UNCHANGED vars
  BY <1>6 DEF QueueInv, vars
<1> QED
  BY <1>1, <1>2, <1>3, <1>4, <1>5, <1>6 DEF Next

\* The order a renderer plays is a permutation of the queue and exists only
\* under shuffle, whatever the server sends and however long the queue gets:
\* apply_event renumbers the order with every edit.
THEOREM OrderCovers == Spec => []OrderCoversQueue
<1>1. QueueInv => OrderCoversQueue
  <2> SUFFICES ASSUME QueueInv PROVE OrderCoversQueue
    OBVIOUS
  <2>1. Len(items) \in Nat
    BY DEF QueueInv
  <2>2. CASE order = NoOrder
    BY <2>2 DEF QueueInv, OrderCoversQueue, TypeOK
  <2>3. CASE order # NoOrder
    <3>1. shuffle /\ Perm(order, Len(items)) /\ order \in Seq(1..Len(items))
      BY <2>3 DEF QueueInv, Perm
    <3>2. Len(order) = Len(items) /\ ToSet(order) = 1..Len(items)
      BY <2>1, <3>1, PermLength
    <3> QED
      BY <3>1, <3>2 DEF QueueInv, OrderCoversQueue, TypeOK
  <2> QED
    BY <2>2, <2>3
<1> QED
  BY <1>1, InitQueue, QueueStep, PTL DEF Spec

------------------------------------------------------------------------------
(* The turns of the tracks that stay *)

\* f tells where in t the elements of s are that belong to E, in the same order.
Traces(s, t, E, f) ==
    /\ \A i \in 1..Len(s) : s[i] \in E => f[i] \in 1..Len(t) /\ t[f[i]] = s[i]
    /\ \A i, j \in 1..Len(s) : s[i] \in E /\ s[j] \in E => (i <= j <=> f[i] <= f[j])
    /\ \A k \in 1..Len(t) : t[k] \in E => \E i \in 1..Len(s) : f[i] = k /\ s[i] = t[k]

LEMMA InTurnAt ==
  ASSUME NEW S, NEW s \in Seq(S), NEW u, NEW v
  PROVE  InTurn(s, u, v) <=> \E i, j \in 1..Len(s) : i <= j /\ s[i] = u /\ s[j] = v
<1>1. DOMAIN s = 1..Len(s) /\ Len(s) \in Nat
  OBVIOUS
<1>2. ASSUME NEW i \in 1..Len(s), NEW j PROVE j \in i..Len(s) <=> j \in 1..Len(s) /\ i <= j
  BY <1>1
<1> QED
  BY <1>1, <1>2 DEF InTurn

LEMMA SameTurns ==
  ASSUME NEW S, NEW T, NEW s \in Seq(S), NEW t \in Seq(T), NEW E, NEW f, Traces(s, t, E, f)
  PROVE  \A u, v \in E : InTurn(t, u, v) = InTurn(s, u, v)
<1> SUFFICES ASSUME NEW u \in E, NEW v \in E PROVE InTurn(t, u, v) <=> InTurn(s, u, v)
  BY DEF InTurn
<1>0. /\ InTurn(s, u, v) <=> \E i, j \in 1..Len(s) : i <= j /\ s[i] = u /\ s[j] = v
      /\ InTurn(t, u, v) <=> \E i, j \in 1..Len(t) : i <= j /\ t[i] = u /\ t[j] = v
  BY InTurnAt
<1>1. ASSUME InTurn(s, u, v) PROVE InTurn(t, u, v)
  <2>1. PICK i \in 1..Len(s), j \in 1..Len(s) : i <= j /\ s[i] = u /\ s[j] = v
    BY <1>0, <1>1
  <2>2. f[i] \in 1..Len(t) /\ t[f[i]] = u /\ f[j] \in 1..Len(t) /\ t[f[j]] = v /\ f[i] <= f[j]
    BY <2>1 DEF Traces
  <2> QED
    BY <1>0, <2>2
<1>2. ASSUME InTurn(t, u, v) PROVE InTurn(s, u, v)
  <2>1. PICK k \in 1..Len(t), l \in 1..Len(t) : k <= l /\ t[k] = u /\ t[l] = v
    BY <1>0, <1>2
  <2>2. PICK i \in 1..Len(s) : f[i] = k /\ s[i] = u
    BY <2>1 DEF Traces
  <2>3. PICK j \in 1..Len(s) : f[j] = l /\ s[j] = v
    BY <2>1 DEF Traces
  <2>4. i <= j
    BY <2>1, <2>2, <2>3 DEF Traces
  <2> QED
    BY <1>0, <2>2, <2>3, <2>4
<1> QED
  BY <1>1, <1>2

\* A list with new things put in at one place keeps the turns of the old ones.
LEMMA OpenedTurns ==
  ASSUME NEW S, NEW T, NEW U, NEW s \in Seq(S), NEW t \in Seq(T), NEW E,
         NEW n \in 0..Len(s), NEW c \in Seq(U), Opened(t, s, n, c),
         \A i \in 1..Len(c) : c[i] \notin E
  PROVE  \A u, v \in E : InTurn(t, u, v) = InTurn(s, u, v)
<1> DEFINE m == Len(c)
<1>10. /\ m \in Nat /\ Len(t) = Len(s) + m
       /\ \A i \in 1..n : t[i] = s[i]
       /\ \A i \in 1..m : t[n + i] = c[i]
       /\ \A i \in n + 1..Len(s) : t[i + m] = s[i]
  BY DEF Opened
<1>11. \A i \in n + 1..n + m : t[i] \notin E
  <2> SUFFICES ASSUME NEW i \in n + 1..n + m PROVE t[i] \notin E
    OBVIOUS
  <2>1. i - n \in 1..m /\ n + (i - n) = i
    BY <1>10
  <2>2. PICK j \in 1..m : n + j = i
    BY <2>1
  <2>3. t[n + j] = c[j] /\ c[j] \notin E
    BY <1>10
  <2> QED
    BY <2>2, <2>3
<1> HIDE DEF m
<1> DEFINE f == [i \in 1..Len(s) |-> IF i <= n THEN i ELSE i + m]
<1>0. n \in Nat /\ Len(s) \in Nat /\ n <= Len(s)
  OBVIOUS
<1>1. ASSUME NEW i \in 1..Len(s)
      PROVE  f[i] \in 1..Len(t) /\ t[f[i]] = s[i] /\ f[i] = IF i <= n THEN i ELSE i + m
  <2>1. f[i] = IF i <= n THEN i ELSE i + m
    OBVIOUS
  <2> HIDE DEF f
  <2>2. CASE i <= n
    <3>1. i \in 1..n /\ i \in 1..Len(t) /\ f[i] = i
      BY <1>0, <1>10, <2>1, <2>2
    <3> QED
      BY <1>10, <2>1, <3>1
  <2>3. CASE ~(i <= n)
    <3>1. i \in n + 1..Len(s) /\ i + m \in 1..Len(t) /\ f[i] = i + m
      BY <1>0, <1>10, <2>1, <2>3
    <3>2. t[i + m] = s[i]
      BY <1>10, <3>1
    <3> QED
      BY <2>1, <3>1, <3>2
  <2> QED
    BY <2>2, <2>3
<1> HIDE DEF f
<1>2. ASSUME NEW i \in 1..Len(s), NEW j \in 1..Len(s) PROVE i <= j <=> f[i] <= f[j]
  <2>1. f[i] = (IF i <= n THEN i ELSE i + m) /\ f[j] = IF j <= n THEN j ELSE j + m
    BY <1>1
  <2> QED
    BY <1>0, <1>10, <2>1
<1>3. ASSUME NEW k \in 1..Len(t), t[k] \in E PROVE \E i \in 1..Len(s) : f[i] = k /\ s[i] = t[k]
  <2>1. CASE k <= n
    <3>1. k \in 1..Len(s) /\ f[k] = k
      BY <1>0, <1>10, <1>1, <2>1
    <3> QED
      BY <1>1, <3>1
  <2>2. CASE ~(k <= n)
    <3>1. k \notin n + 1..n + m
      BY <1>11, <1>3
    <3>2. k - m \in 1..Len(s) /\ ~(k - m <= n) /\ (k - m) + m = k
      BY <1>0, <1>10, <2>2, <3>1
    <3>3. f[k - m] = k
      BY <1>1, <3>2
    <3> QED
      BY <1>1, <3>2, <3>3
  <2> QED
    BY <2>1, <2>2
<1>4. Traces(s, t, E, f)
  BY <1>1, <1>2, <1>3 DEF Traces
<1> QED
  BY <1>4, SameTurns

\* A list of what s has at certain places, in their order and everything of E
\* among it, keeps the turns in s.
LEMMA FilteredTurns ==
  ASSUME NEW S, NEW T, NEW s \in Seq(S), NEW t \in Seq(T), NEW E,
         NEW p \in [1..Len(t) -> 1..Len(s)],
         \A k \in 1..Len(t) : t[k] = s[p[k]],
         \A k, l \in 1..Len(t) : k <= l <=> p[k] <= p[l],
         \A i \in 1..Len(s) : s[i] \in E => \E k \in 1..Len(t) : p[k] = i
  PROVE  \A u, v \in E : InTurn(t, u, v) = InTurn(s, u, v)
<1>1. Traces(t, s, E, p)
  BY DEF Traces
<1>2. \A u, v \in E : InTurn(s, u, v) = InTurn(t, u, v)
  BY <1>1, SameTurns
<1> QED
  BY <1>2

------------------------------------------------------------------------------
(* What is played when tracks come in *)

LEMMA PositionIs ==
  ASSUME NEW S, NEW s \in Seq(S), Once(s), NEW i \in 1..Len(s)
  PROVE  Contains(s, s[i]) /\ Position(s, s[i]) = i
<1>1. Contains(s, s[i])
  BY DEF Contains
<1>2. Position(s, s[i]) \in 1..Len(s) /\ s[Position(s, s[i])] = s[i]
  BY <1>1, ContainsTyped
<1> QED
  BY <1>1, <1>2 DEF Once

\* PlayOrder of a queue q under an order o
Played(q, o) == IF o = NoOrder THEN q ELSE [i \in DOMAIN o |-> q[o[i]]]

LEMMA PlayedOnce ==
  ASSUME NEW q \in Seq(Ids), Once(q), NEW o, o # NoOrder => Perm(o, Len(q))
  PROVE  /\ Played(q, o) \in Seq(Ids) /\ Len(Played(q, o)) = Len(q) /\ Once(Played(q, o))
         /\ \A v : Contains(Played(q, o), v) <=> Contains(q, v)
         /\ o # NoOrder => \A i \in 1..Len(q) : o[i] \in 1..Len(q) /\ Played(q, o)[i] = q[o[i]]
<1>1. CASE o = NoOrder
  BY <1>1 DEF Played
<1>2. CASE o # NoOrder
  <2> DEFINE p == Played(q, o)
  <2>1. /\ o \in Seq(1..Len(q)) /\ Len(o) = Len(q) /\ Len(q) \in Nat /\ DOMAIN o = 1..Len(q)
        /\ Once(o) /\ \A v \in 1..Len(q) : Contains(o, v)
    BY <1>2, PermLength DEF Perm
  <2>2. p = [i \in 1..Len(q) |-> q[o[i]]] /\ \A i \in 1..Len(q) : o[i] \in 1..Len(q)
    BY <1>2, <2>1 DEF Played
  <2>3. p \in [1..Len(q) -> Ids] /\ \A i \in 1..Len(q) : p[i] = q[o[i]]
    BY <2>2
  <2> HIDE DEF p
  <2>4. p \in Seq(Ids) /\ Len(p) = Len(q)
    BY <2>1, <2>3, FunctionIsList
  <2>5. Once(p)
    <3> SUFFICES ASSUME NEW i \in 1..Len(q), NEW j \in 1..Len(q), p[i] = p[j] PROVE i = j
      BY <2>4 DEF Once
    <3>1. o[i] \in 1..Len(q) /\ o[j] \in 1..Len(q) /\ q[o[i]] = q[o[j]]
      BY <2>2, <2>3
    <3>2. o[i] = o[j]
      BY <3>1 DEF Once
    <3> QED
      BY <2>1, <3>2 DEF Once
  <2>6. ASSUME NEW v, Contains(p, v) PROVE Contains(q, v)
    BY <2>2, <2>3, <2>4, <2>6 DEF Contains
  <2>7. ASSUME NEW v, Contains(q, v) PROVE Contains(p, v)
    <3>1. PICK j \in 1..Len(q) : q[j] = v
      BY <2>7 DEF Contains
    <3>2. PICK i \in 1..Len(q) : o[i] = j
      BY <2>1 DEF Contains
    <3> QED
      BY <2>3, <2>4, <3>1, <3>2 DEF Contains
  <2> QED
    BY <2>2, <2>3, <2>4, <2>5, <2>6, <2>7 DEF p
<1> QED
  BY <1>1, <1>2

\* Tracks put into the queue at one place and into its order at one turn are put
\* into what is played at that turn.
LEMMA PlayedOpens ==
  ASSUME NEW q \in Seq(Ids), NEW tracks \in Seq(Ids), NEW at \in 0..Len(q),
         NEW o, Perm(o, Len(q)), NEW turn \in 0..Len(q), NEW a, Perm(a, Len(tracks)),
         NEW q2 \in Seq(Ids), Opened(q2, q, at, tracks),
         NEW o2, DOMAIN o2 = 1..Len(o2),
         Opened(o2, Shifted(o, at, Len(tracks)), turn, Plus(at, a)),
         o # NoOrder, o2 # NoOrder
  PROVE  Opened(Played(q2, o2), Played(q, o), turn, [i \in 1..Len(tracks) |-> tracks[a[i]]])
<1> DEFINE n == Len(tracks)
           m == Len(q)
           c == [i \in 1..n |-> tracks[a[i]]]
           s == Played(q, o)
           t == Played(q2, o2)
           b == Plus(at, a)
           z == Shifted(o, at, n)
<1>1. /\ n \in Nat /\ m \in Nat /\ at \in Nat /\ at <= m /\ turn \in Nat /\ turn <= m
      /\ Len(o) = m /\ Len(a) = n /\ DOMAIN o = 1..m /\ DOMAIN a = 1..n
      /\ \A i \in 1..m : o[i] \in 1..m
      /\ \A i \in 1..n : a[i] \in 1..n
  <2>1. n \in Nat /\ m \in Nat /\ o \in Seq(1..m) /\ a \in Seq(1..n)
        /\ Perm(o, m) /\ Perm(a, n)
    BY DEF Perm
  <2> HIDE DEF m, n
  <2>2. Len(o) = m /\ Len(a) = n
    BY <2>1, PermLength
  <2>3. o \in [1..m -> 1..m] /\ a \in [1..n -> 1..n]
    <3>1. o \in [1..Len(o) -> 1..m] /\ a \in [1..Len(a) -> 1..n]
      BY <2>1, ListIsFunction
    <3> QED
      BY <2>2, <3>1
  <2>4. at \in Nat /\ at <= m /\ turn \in Nat /\ turn <= m
    BY <2>1 DEF m
  <2> QED
    BY <2>1, <2>2, <2>3, <2>4
<1>2. /\ s = [i \in 1..m |-> q[o[i]]] /\ t = [i \in 1..Len(o2) |-> q2[o2[i]]]
  BY <1>1 DEF Played
<1>3. /\ b = [i \in 1..n |-> at + a[i]]
      /\ z = [i \in 1..m |-> IF o[i] > at THEN o[i] + n ELSE o[i]]
  BY <1>1 DEF Plus, Shifted
<1>4. /\ Len(q2) = m + n
      /\ \A i \in 1..at : q2[i] = q[i]
      /\ \A i \in 1..n : q2[at + i] = tracks[i]
      /\ \A i \in at + 1..m : q2[i + n] = q[i]
  BY DEF Opened
<1>5. /\ Len(b) = n /\ Len(z) = m
      /\ \A i \in 1..n : b[i] = at + a[i]
      /\ \A i \in 1..m : z[i] = IF o[i] > at THEN o[i] + n ELSE o[i]
  BY <1>1, <1>3
<1>6. Opened(o2, z, turn, b)
  OBVIOUS
<1> HIDE DEF b, z, s, t, c
<1>7. /\ Len(o2) = m + n
      /\ \A i \in 1..turn : o2[i] = z[i]
      /\ \A i \in 1..n : o2[turn + i] = b[i]
      /\ \A i \in turn + 1..m : o2[i + n] = z[i]
  BY <1>5, <1>6 DEF Opened
<1>8. ASSUME NEW i \in 1..m PROVE q2[z[i]] = q[o[i]]
  <2>1. o[i] \in 1..m
    BY <1>1
  <2>2. CASE o[i] > at
    <3>1. z[i] = o[i] + n /\ o[i] \in at + 1..m
      BY <1>1, <1>5, <2>1, <2>2
    <3>2. q2[o[i] + n] = q[o[i]]
      BY <1>4, <3>1
    <3> QED
      BY <3>1, <3>2
  <2>3. CASE ~(o[i] > at)
    <3>1. z[i] = o[i] /\ o[i] \in 1..at
      BY <1>1, <1>5, <2>1, <2>3
    <3> QED
      BY <1>4, <3>1
  <2> QED
    BY <2>2, <2>3
<1>9. Len(s) = m /\ Len(t) = m + n /\ Len(c) = n
  BY <1>1, <1>2, <1>7 DEF c
<1>10. ASSUME NEW i \in 1..turn PROVE t[i] = s[i]
  <2>1. i \in 1..m /\ i \in 1..Len(o2)
    BY <1>1, <1>7
  <2>2. t[i] = q2[o2[i]] /\ o2[i] = z[i] /\ s[i] = q[o[i]]
    BY <1>2, <1>7, <2>1
  <2> QED
    BY <1>8, <2>1, <2>2
<1>11. ASSUME NEW i \in 1..n PROVE t[turn + i] = c[i]
  <2>1. turn + i \in 1..Len(o2) /\ a[i] \in 1..n
    BY <1>1, <1>7
  <2>2. t[turn + i] = q2[o2[turn + i]] /\ o2[turn + i] = at + a[i]
    BY <1>2, <1>5, <1>7, <2>1
  <2>3. q2[at + a[i]] = tracks[a[i]] /\ c[i] = tracks[a[i]]
    BY <1>4, <2>1 DEF c
  <2> QED
    BY <2>2, <2>3
<1>12. ASSUME NEW i \in turn + 1..m PROVE t[i + n] = s[i]
  <2>1. i + n \in 1..Len(o2) /\ i \in 1..m
    BY <1>1, <1>7
  <2>2. t[i + n] = q2[o2[i + n]] /\ o2[i + n] = z[i] /\ s[i] = q[o[i]]
    BY <1>2, <1>7, <2>1
  <2> QED
    BY <1>8, <2>1, <2>2
<1>13. /\ Len(t) = Len(s) + Len(c)
       /\ \A i \in 1..turn : t[i] = s[i]
       /\ \A i \in 1..Len(c) : t[turn + i] = c[i]
       /\ \A i \in turn + 1..Len(s) : t[i + Len(c)] = s[i]
  BY <1>9, <1>10, <1>11, <1>12
<1>14. Opened(t, s, turn, c)
  BY <1>13 DEF Opened
<1> QED
  BY <1>14 DEF t, s, c

\* PlayOrder of the two states of a step
LEMMA PlayedNow ==
  PlayOrder = Played(items, order) /\ PlayOrder' = Played(items', order')
BY DEF PlayOrder, Played

LEMMA OrderIsPrior ==
  ASSUME QueueInv, order # NoOrder
  PROVE  PriorOrder = order /\ Perm(order, Len(items)) /\ Len(order) = Len(items)
<1>1. Perm(order, Len(items)) /\ Len(items) \in Nat
  BY DEF QueueInv
<1>2. Len(order) = Len(items) /\ order \in Seq(1..Len(items))
  BY <1>1, PermLength DEF Perm
<1>3. CASE items = <<>>
  <2>1. Len(order) = 0
    BY <1>2, <1>3
  <2>2. order = <<>>
    BY <1>2, <2>1
  <2> QED
    BY <1>1, <1>2, <1>3, <2>2 DEF PriorOrder
<1>4. CASE items # <<>>
  BY <1>1, <1>2, <1>4 DEF PriorOrder
<1> QED
  BY <1>3, <1>4

\* In what is played, tracks came in as one block behind the given turn.
Grew(turn) ==
    \E c \in Seq(Ids) : /\ Len(c) = Len(items') - Len(items)
                        /\ \A i \in 1..Len(c) : ~Contains(items, c[i])
                        /\ Opened(PlayOrder', PlayOrder, turn, c)

\* What a queue played in another order shows of new tracks is new.
LEMMA NewBlock ==
  ASSUME NEW tracks \in Seq(Ids), \A v : ~(Contains(items, v) /\ Contains(tracks, v)),
         NEW a, Perm(a, Len(tracks))
  PROVE  LET c == [i \in 1..Len(tracks) |-> tracks[a[i]]]
         IN  c \in Seq(Ids) /\ Len(c) = Len(tracks) /\ \A i \in 1..Len(c) : ~Contains(items, c[i])
<1> DEFINE n == Len(tracks)
           c == [i \in 1..n |-> tracks[a[i]]]
<1>1. n \in Nat /\ a \in Seq(1..n) /\ Len(a) = n
  BY PermLength DEF Perm
<1>2. \A i \in 1..n : a[i] \in 1..n
  <2>1. a \in [1..Len(a) -> 1..n]
    BY <1>1
  <2> HIDE DEF n
  <2> QED
    BY <1>1, <2>1
<1>3. \A i \in 1..n : tracks[i] \in Ids /\ ~Contains(items, tracks[i])
  BY DEF Contains
<1> HIDE DEF n
<1>4. c \in [1..n -> Ids] /\ \A i \in 1..n : ~Contains(items, c[i])
  BY <1>2, <1>3
<1>5. c \in Seq(Ids) /\ Len(c) = n
  BY <1>1, <1>4, FunctionIsList
<1> QED
  BY <1>4, <1>5 DEF n

LEMMA InsertedGrows ==
  ASSUME QueueInv, NEW tracks \in Fresh, NEW after, NEW seeded \in BOOLEAN,
         NEW reset \in BOOLEAN, TracksInserted(tracks, after, seeded, reset), SameKind
  PROVE  Grew(InsertionIndex(PlayOrder, after))
<1> DEFINE at == InsertionIndex(items, after)
           n == Len(tracks)
<1>1. tracks \in Seq(Ids) /\ Once(tracks) /\ \A v : ~(Contains(items, v) /\ Contains(tracks, v))
  BY FreshTracks
<1>2. items \in Seq(Ids) /\ Once(items) /\ shuffle \in BOOLEAN
  BY DEF QueueInv
<1>3. /\ items' = Spliced(items, at, tracks)
      /\ IF ~shuffle THEN order' = order
         ELSE IF PriorOrder = NoOrder \/ ~seeded THEN order' = NoOrder
         ELSE \E added \in ShuffleOrders(n, 0) :
                 order' = Spliced(Shifted(PriorOrder, at, n), TurnOf(after), Plus(at, added))
  BY DEF TracksInserted
<1>4. at \in 0..Len(items) /\ n \in Nat /\ Len(items) \in Nat
  BY <1>1, <1>2, InsertionInRange
<1>5. items' \in Seq(Ids) /\ Opened(items', items, at, tracks)
  <2> HIDE DEF at
  <2> QED
    BY <1>1, <1>2, <1>3, <1>4, SplicedAt
<1>6. Len(items') - Len(items) = n
  BY <1>4, <1>5 DEF Opened
<1>7. CASE order = NoOrder
  <2>1. PlayOrder = items /\ PlayOrder' = items'
    BY <1>7 DEF SameKind, PlayOrder
  <2>2. \A i \in 1..Len(tracks) : ~Contains(items, tracks[i])
    BY <1>1 DEF Contains
  <2>3. Opened(PlayOrder', PlayOrder, InsertionIndex(PlayOrder, after), tracks)
    BY <1>5, <2>1
  <2> QED
    BY <1>1, <1>6, <2>2, <2>3 DEF Grew
<1>8. CASE order # NoOrder
  <2>1. /\ shuffle /\ order' # NoOrder /\ PriorOrder = order /\ Perm(order, Len(items))
        /\ Len(order) = Len(items)
    BY <1>8, OrderIsPrior DEF SameKind, QueueInv
  <2> HIDE DEF at
  <2>2. PICK added \in ShuffleOrders(n, 0) :
          order' = Spliced(Shifted(order, at, n), TurnOf(after), Plus(at, added))
    BY <1>3, <2>1
  <2>3. Perm(added, n)
    BY <1>4, ShuffleOrdersPerm
  <2> DEFINE z == Shifted(order, at, n)
             b == Plus(at, added)
             turn == TurnOf(after)
  <2>4. z \in Seq(1..Len(items) + n) /\ Len(z) = Len(items)
    BY <1>4, <2>1, ShiftedOnce
  <2>5. b \in Seq(1..Len(items) + n)
    <3>1. at \in Nat /\ 1..at + n \subseteq 1..Len(items) + n
      BY <1>4
    <3>2. b \in Seq(1..at + n)
      BY <1>4, <2>3, <3>1, PlusOnce
    <3> HIDE DEF b
    <3> QED
      BY <3>1, <3>2, ListOfMore
  <2>6. order \in Seq(1..Len(items)) /\ Once(order)
    BY <2>1 DEF Perm
  <2>7. turn \in 0..Len(items) /\ turn = InsertionIndex(PlayOrder, after)
    <3>1. /\ PlayOrder \in Seq(Ids) /\ Once(PlayOrder) /\ Len(PlayOrder) = Len(items)
          /\ \A v : Contains(PlayOrder, v) <=> Contains(items, v)
          /\ \A i \in 1..Len(items) : PlayOrder[i] = items[order[i]]
      <4>1. Perm(order, Len(items))
        BY <2>1
      <4>2. /\ Played(items, order) \in Seq(Ids) /\ Len(Played(items, order)) = Len(items)
            /\ Once(Played(items, order))
            /\ \A v : Contains(Played(items, order), v) <=> Contains(items, v)
            /\ \A i \in 1..Len(items) : Played(items, order)[i] = items[order[i]]
        BY <1>2, <1>8, <4>1, PlayedOnce
      <4> QED
        BY <4>2, PlayedNow
    <3>2. CASE Contains(items, after)
      <4> DEFINE pos == Position(items, after)
                 i == Position(order, pos)
      <4>1. pos \in 1..Len(items) /\ items[pos] = after
        BY <1>2, <3>2, ContainsTyped
      <4>2. Contains(order, pos)
        BY <2>1, <4>1 DEF Perm
      <4>3. turn = i
        BY <2>1, <3>2, <4>2 DEF TurnOf, InsertionIndex
      <4>4. i \in 1..Len(items) /\ order[i] = pos
        BY <2>1, <2>6, <4>2, ContainsTyped
      <4> HIDE DEF pos, i
      <4>5. PlayOrder[i] = after
        BY <3>1, <4>1, <4>4
      <4>6. Contains(PlayOrder, after) /\ Position(PlayOrder, after) = i
        BY <3>1, <4>4, <4>5, PositionIs
      <4> QED
        BY <1>4, <4>3, <4>4, <4>6 DEF InsertionIndex
    <3>3. CASE ~Contains(items, after)
      BY <1>4, <3>1, <3>3 DEF TurnOf, InsertionIndex
    <3> QED
      BY <3>2, <3>3
  <2>8. order' \in Seq(1..Len(items) + n) /\ Opened(order', z, turn, b)
    <3>1. order' = Spliced(z, turn, b) /\ turn \in 0..Len(z)
      BY <2>1, <2>2, <2>4, <2>7
    <3> HIDE DEF z, turn, b
    <3> QED
      BY <2>4, <2>5, <3>1, SplicedAt
  <2> DEFINE c == [i \in 1..n |-> tracks[added[i]]]
  <2>9. Opened(Played(items', order'), Played(items, order), turn, c)
    <3>1. DOMAIN order' = 1..Len(order')
      <4> HIDE DEF z, turn, b
      <4> QED
        BY <2>8
    <3>2. Opened(order', Shifted(order, at, Len(tracks)), turn, Plus(at, added)) /\ turn \in 0..Len(items)
      BY <2>7, <2>8
    <3> HIDE DEF turn
    <3> QED
      BY <1>1, <1>2, <1>4, <1>5, <1>8, <2>1, <2>3, <3>1, <3>2, PlayedOpens
  <2>10. c \in Seq(Ids) /\ Len(c) = n /\ \A i \in 1..Len(c) : ~Contains(items, c[i])
    BY <1>1, <2>3, NewBlock
  <2> HIDE DEF c
  <2>11. Opened(PlayOrder', PlayOrder, InsertionIndex(PlayOrder, after), c)
    BY <2>7, <2>9, PlayedNow
  <2> QED
    BY <1>6, <2>10, <2>11 DEF Grew
<1> QED
  BY <1>7, <1>8

LEMMA AddedGrows ==
  ASSUME QueueInv, NEW tracks \in Fresh, NEW seeded \in BOOLEAN, NEW reset \in BOOLEAN,
         TracksAdded(tracks, seeded, reset), SameKind
  PROVE  Grew(Len(PlayOrder)) /\ PlayOrder \in Seq(Ids)
<1> DEFINE n == Len(tracks)
           m == Len(items)
<1>1. tracks \in Seq(Ids) /\ Once(tracks) /\ \A v : ~(Contains(items, v) /\ Contains(tracks, v))
  BY FreshTracks
<1>2. items \in Seq(Ids) /\ Once(items) /\ shuffle \in BOOLEAN /\ m \in Nat /\ n \in Nat
  BY <1>1 DEF QueueInv
<1>3. /\ items' = items \o tracks
      /\ IF ~shuffle THEN order' = order
         ELSE IF PriorOrder = NoOrder \/ ~seeded THEN order' = NoOrder
         ELSE \E added \in ShuffleOrders(n, 0) : order' = PriorOrder \o Plus(m, added)
  BY DEF TracksAdded
<1>4. ASSUME NEW S, NEW s \in Seq(S), NEW t \in Seq(S), NEW u, u = s \o t
      PROVE  u \in Seq(S) /\ Opened(u, s, Len(s), t)
  <2>1. u \in Seq(S) /\ Joins(u, s, t)
    BY <1>4, JoinAt
  <2>2. \A i \in Len(s) + 1..Len(s) : FALSE
    BY <2>1 DEF Joins
  <2> QED
    BY <2>1, <2>2 DEF Joins, Opened
<1>5. items' \in Seq(Ids) /\ Opened(items', items, m, tracks)
  BY <1>1, <1>2, <1>3, <1>4
<1>6. Len(items') - m = n
  BY <1>2, <1>5 DEF Opened
<1>7. CASE order = NoOrder
  <2>1. PlayOrder = items /\ PlayOrder' = items'
    BY <1>7 DEF SameKind, PlayOrder
  <2>2. \A i \in 1..Len(tracks) : ~Contains(items, tracks[i])
    BY <1>1 DEF Contains
  <2>3. Opened(PlayOrder', PlayOrder, Len(PlayOrder), tracks)
    BY <1>5, <2>1
  <2> QED
    BY <1>1, <1>2, <1>6, <2>1, <2>2, <2>3 DEF Grew
<1>8. CASE order # NoOrder
  <2>1. /\ shuffle /\ order' # NoOrder /\ PriorOrder = order /\ Perm(order, m) /\ Len(order) = m
    BY <1>8, OrderIsPrior DEF SameKind, QueueInv
  <2>2. PICK added \in ShuffleOrders(n, 0) : order' = order \o Plus(m, added)
    BY <1>3, <2>1
  <2>3. Perm(added, n)
    BY <1>2, ShuffleOrdersPerm
  <2> DEFINE b == Plus(m, added)
             z == Shifted(order, m, n)
  <2>4. b \in Seq(1..m + n) /\ order \in Seq(1..m)
    BY <1>2, <2>1, <2>3, PlusOnce DEF Perm
  <2>5. order \in Seq(1..m + n)
    <3>1. 1..m \subseteq 1..m + n
      BY <1>2
    <3> QED
      BY <2>4, <3>1, ListOfMore
  <2>6. z = order
    <3>1. order \in [1..m -> 1..m]
      <4>1. order \in [1..Len(order) -> 1..m]
        BY <2>4, ListIsFunction
      <4> QED
        BY <2>1, <4>1
    <3>2. \A i \in 1..m : ~(order[i] > m)
      BY <1>2, <3>1
    <3> QED
      BY <3>1, <3>2 DEF Shifted
  <2>7. order' \in Seq(1..m + n) /\ Opened(order', z, m, b)
    <3>1. order' = order \o b
      BY <2>2
    <3> HIDE DEF b, z
    <3> QED
      BY <1>4, <2>1, <2>4, <2>5, <2>6, <3>1
  <2> DEFINE c == [i \in 1..n |-> tracks[added[i]]]
  <2>8. Opened(Played(items', order'), Played(items, order), m, c)
    <3>1. DOMAIN order' = 1..Len(order')
      <4> HIDE DEF z, b
      <4> QED
        BY <2>7
    <3>2. Opened(order', Shifted(order, Len(items), Len(tracks)), Len(items), Plus(Len(items), added))
      BY <2>7
    <3>3. Len(items) \in 0..Len(items)
      BY <1>2
    <3> QED
      BY <1>1, <1>2, <1>5, <1>8, <2>1, <2>3, <3>1, <3>2, <3>3, PlayedOpens
  <2>9. c \in Seq(Ids) /\ Len(c) = n /\ \A i \in 1..Len(c) : ~Contains(items, c[i])
    BY <1>1, <2>3, NewBlock
  <2>10. PlayOrder \in Seq(Ids) /\ Len(PlayOrder) = m
    BY <1>2, <1>8, <2>1, PlayedOnce, PlayedNow
  <2> HIDE DEF c
  <2>11. Opened(PlayOrder', PlayOrder, Len(PlayOrder), c)
    BY <2>8, <2>10, PlayedNow
  <2> QED
    BY <1>6, <2>9, <2>10, <2>11 DEF Grew
<1> QED
  BY <1>7, <1>8

\* A block of new tracks leaves the turns of the old ones.
LEMMA GrowthKeepsTurns ==
  ASSUME QueueInv, QueueInv', NEW turn \in 0..Len(PlayOrder), Grew(turn)
  PROVE  TurnsStay
<1>1. PICK c \in Seq(Ids) : /\ Len(c) = Len(items') - Len(items)
                            /\ \A i \in 1..Len(c) : ~Contains(items, c[i])
                            /\ Opened(PlayOrder', PlayOrder, turn, c)
  BY DEF Grew
<1>2. PlayOrder \in Seq(Ids) /\ PlayOrder' \in Seq(Ids)
  <2>1. Played(items, order) \in Seq(Ids)
    BY PlayedOnce DEF QueueInv
  <2>2. Played(items', order') \in Seq(Ids)
    BY PlayedOnce DEF QueueInv
  <2> QED
    BY <2>1, <2>2, PlayedNow
<1> DEFINE E == ToSet(items) \cap ToSet(items')
<1>3. \A i \in 1..Len(c) : c[i] \notin E
  <2>1. \A v : v \in ToSet(items) <=> Contains(items, v)
    BY ToSetContains DEF QueueInv
  <2> QED
    BY <1>1, <2>1
<1> DEFINE before == PlayOrder
           after == PlayOrder'
<1>4. before \in Seq(Ids) /\ after \in Seq(Ids) /\ Opened(after, before, turn, c) /\ turn \in 0..Len(before)
  BY <1>1, <1>2
<1> HIDE DEF before, after, E
<1>5. \A u, v \in E : InTurn(after, u, v) = InTurn(before, u, v)
  BY <1>3, <1>4, OpenedTurns
<1> QED
  BY <1>5 DEF TurnsStay, before, after, E

LEMMA GrowthIsNext ==
  ASSUME QueueInv, QueueInv', NEW anchor, anchor \in Ids \cup {NoId},
         Grew(InsertionIndex(PlayOrder, anchor)), event'.after = anchor
  PROVE  NewOnesAreNext
<1> DEFINE before == PlayOrder
           after == PlayOrder'
           turn == InsertionIndex(before, anchor)
           e == IF Contains(items, anchor) THEN anchor ELSE NoId
<1>1. PICK c \in Seq(Ids) : /\ Len(c) = Len(items') - Len(items)
                            /\ \A i \in 1..Len(c) : ~Contains(items, c[i])
                            /\ Opened(after, before, turn, c)
  BY DEF Grew
<1>2. before \in Seq(Ids) /\ Once(before) /\ \A v : Contains(before, v) <=> Contains(items, v)
  <2>1. /\ Played(items, order) \in Seq(Ids) /\ Once(Played(items, order))
        /\ \A v : Contains(Played(items, order), v) <=> Contains(items, v)
    BY PlayedOnce DEF QueueInv
  <2> QED
    BY <2>1, PlayedNow
<1>3. after \in Seq(Ids) /\ Once(after)
  <2>1. Played(items', order') \in Seq(Ids) /\ Once(Played(items', order'))
    BY PlayedOnce DEF QueueInv
  <2> QED
    BY <2>1, PlayedNow
<1>4. turn \in 0..Len(before) /\ Len(before) \in Nat
  BY <1>2, InsertionInRange
<1> HIDE DEF before, after
<1>5. InsertionIndex(after, e) = turn
  <2>1. CASE Contains(items, anchor)
    <3>1. turn = Position(before, anchor) /\ turn \in 1..Len(before) /\ before[turn] = anchor
      BY <1>2, <2>1, ContainsTyped DEF InsertionIndex
    <3>2. turn \in 1..Len(after) /\ after[turn] = anchor
      <4>1. Len(c) \in Nat /\ Len(after) = Len(before) + Len(c) /\ after[turn] = before[turn]
        BY <1>1, <1>4, <3>1 DEF Opened
      <4> HIDE DEF turn
      <4> QED
        BY <1>4, <3>1, <4>1
    <3>3. Contains(after, anchor) /\ Position(after, anchor) = turn
      BY <1>3, <3>2, PositionIs
    <3> QED
      BY <2>1, <3>3 DEF InsertionIndex
  <2>2. CASE ~Contains(items, anchor)
    <3>1. turn = 0
      BY <1>2, <2>2 DEF InsertionIndex
    <3>2. ~Contains(after, NoId)
      BY <1>3, ContainsTyped
    <3> QED
      BY <2>2, <3>1, <3>2 DEF InsertionIndex
  <2> QED
    BY <2>1, <2>2
<1>6. ASSUME NEW i \in turn + 1..turn + Len(c)
      PROVE  i \in DOMAIN after /\ ~Contains(items, after[i])
  <2> HIDE DEF turn
  <2>1. /\ Len(c) \in Nat /\ turn \in Nat /\ turn <= Len(before) /\ Len(after) = Len(before) + Len(c)
        /\ DOMAIN after = 1..Len(after) /\ \A j \in 1..Len(c) : after[turn + j] = c[j]
    BY <1>1, <1>3, <1>4 DEF Opened
  <2>2. i - turn \in 1..Len(c) /\ turn + (i - turn) = i /\ i \in 1..Len(after)
    BY <1>4, <2>1
  <2>3. PICK j \in 1..Len(c) : turn + j = i
    BY <2>2
  <2>4. after[turn + j] = c[j] /\ ~Contains(items, c[j])
    BY <1>1, <2>1
  <2> QED
    BY <2>1, <2>2, <2>3, <2>4
<1>7. /\ InsertionIndex(PlayOrder', IF Contains(items, event'.after) THEN event'.after ELSE NoId) = turn
      /\ Len(items') - Len(items) = Len(c)
  BY <1>1, <1>5 DEF after
<1> HIDE DEF turn
<1> QED
  BY <1>6, <1>7 DEF NewOnesAreNext, after

------------------------------------------------------------------------------
(* What is played when tracks leave or move *)

LEMMA RenumberedTurns ==
  ASSUME QueueInv, order # NoOrder, NEW q \in Seq(Ids), Once(q),
         \A v : Contains(q, v) => Contains(items, v),
         NEW o2, o2 = Renumbered(order, q), o2 # NoOrder
  PROVE  \A u, v \in ToSet(items) \cap ToSet(q) :
            InTurn(Played(q, o2), u, v) = InTurn(Played(items, order), u, v)
<1> DEFINE S == {i \in 1..Len(items) : Contains(q, items[i])}
           kept == Kept(order, S)
           s == Played(items, order)
           t == Played(q, o2)
           E == ToSet(items) \cap ToSet(q)
<1>1. /\ items \in Seq(Ids) /\ Once(items) /\ Perm(order, Len(items))
      /\ Len(order) = Len(items) /\ order \in Seq(1..Len(items))
  BY OrderIsPrior DEF QueueInv, Perm
<1>2. /\ s \in Seq(Ids) /\ Len(s) = Len(items)
      /\ \A i \in 1..Len(items) : order[i] \in 1..Len(items) /\ s[i] = items[order[i]]
  BY <1>1, PlayedOnce
<1>3. PICK n \in Nat : \E p : FilteredAt(order, S, n, p)
  <2> HIDE DEF S
  <2> QED
    BY <1>1, KeptPlaces
<1>4. PICK p : FilteredAt(order, S, n, p)
  BY <1>3
<1>5. o2 = [i \in DOMAIN kept |-> Position(q, items[kept[i]])]
  BY DEF Renumbered
<1>6. \A i : i \in S <=> i \in 1..Len(items) /\ Contains(q, items[i])
  OBVIOUS
<1>7. t = [i \in DOMAIN o2 |-> q[o2[i]]]
  BY DEF Played
<1> HIDE DEF S, s, t
<1>8. /\ p \in [1..n -> 1..Len(order)]
      /\ kept = [k \in 1..n |-> order[p[k]]]
      /\ \A k \in 1..n : order[p[k]] \in S
      /\ \A k, l \in 1..n : k <= l <=> p[k] <= p[l]
      /\ \A i \in 1..Len(order) : order[i] \in S => \E k \in 1..n : p[k] = i
  BY <1>4 DEF FilteredAt
<1> HIDE DEF kept
<1>9. o2 = [k \in 1..n |-> Position(q, items[kept[k]])] /\ \A k \in 1..n : kept[k] = order[p[k]]
  BY <1>5, <1>8
<1>10. t = [k \in 1..n |-> q[o2[k]]]
  BY <1>7, <1>9
<1>11. ASSUME NEW k \in 1..n PROVE t[k] = s[p[k]] /\ p[k] \in 1..Len(s)
  <2>1. p[k] \in 1..Len(items) /\ order[p[k]] \in S /\ Contains(q, items[order[p[k]]])
    BY <1>1, <1>6, <1>8
  <2>2. o2[k] = Position(q, items[order[p[k]]])
    BY <1>9
  <2>3. q[o2[k]] = items[order[p[k]]]
    BY <2>1, <2>2, ContainsTyped
  <2> QED
    BY <1>2, <1>10, <2>1, <2>3
<1>12. t \in Seq(Ids) /\ Len(t) = n
  <2>1. \A i \in 1..Len(s) : s[i] \in Ids
    BY <1>2
  <2>2. t \in [1..n -> Ids]
    BY <1>10, <1>11, <2>1
  <2> QED
    BY <2>2, FunctionIsList
<1>13. ASSUME NEW i \in 1..Len(s), s[i] \in E PROVE \E k \in 1..Len(t) : p[k] = i
  <2>1. i \in 1..Len(items) /\ order[i] \in 1..Len(items) /\ Contains(q, items[order[i]])
    BY <1>2, <1>13, ToSetContains
  <2> QED
    BY <1>1, <1>6, <1>8, <1>12, <2>1
<1> HIDE DEF E
<1>14. Traces(t, s, E, p)
  BY <1>8, <1>11, <1>12, <1>13 DEF Traces
<1>15. \A u, v \in E : InTurn(s, u, v) = InTurn(t, u, v)
  BY <1>2, <1>12, <1>14, SameTurns
<1> QED
  BY <1>15 DEF s, t, E

\* An order that is renumbered for the new queue keeps the turns.
LEMMA RenumberingKeepsTurns ==
  ASSUME QueueInv, order # NoOrder, order' # NoOrder, items' \in Seq(Ids), Once(items'),
         \A v : Contains(items', v) => Contains(items, v), order' = Renumbered(order, items')
  PROVE  TurnsStay
BY RenumberedTurns, PlayedNow DEF TurnsStay

LEMMA KeptTurns ==
  ASSUME NEW T, NEW s \in Seq(T), NEW S
  PROVE  \A u, v \in ToSet(s) \cap ToSet(Kept(s, S)) : InTurn(Kept(s, S), u, v) = InTurn(s, u, v)
<1> DEFINE t == Kept(s, S)
           E == ToSet(s) \cap ToSet(t)
<1>1. PICK n \in Nat : \E p : FilteredAt(s, S, n, p)
  BY KeptPlaces
<1>2. PICK p : FilteredAt(s, S, n, p)
  BY <1>1
<1>3. /\ t \in Seq(T) /\ \A v : Contains(t, v) <=> Contains(s, v) /\ v \in S
  BY KeptOnce
<1>4. /\ p \in [1..n -> 1..Len(s)]
      /\ t = [k \in 1..n |-> s[p[k]]]
      /\ \A k, l \in 1..n : k <= l <=> p[k] <= p[l]
      /\ \A i \in 1..Len(s) : s[i] \in S => \E k \in 1..n : p[k] = i
  BY <1>2 DEF FilteredAt
<1> HIDE DEF t
<1>5. Len(t) = n
  BY <1>3, <1>4
<1>6. \A i \in 1..Len(s) : s[i] \in E => s[i] \in S
  BY <1>3, ToSetContains
<1> HIDE DEF E
<1>7. Traces(t, s, E, p)
  <2>1. \A k \in 1..Len(t) : p[k] \in 1..Len(s) /\ s[p[k]] = t[k]
    BY <1>4, <1>5
  <2>2. \A i \in 1..Len(s) : s[i] \in E => \E k \in 1..Len(t) : p[k] = i /\ t[k] = s[i]
    BY <1>4, <1>5, <1>6, <2>1
  <2> QED
    BY <1>4, <1>5, <2>1, <2>2 DEF Traces
<1>8. \A u, v \in E : InTurn(s, u, v) = InTurn(t, u, v)
  BY <1>3, <1>7, SameTurns
<1> QED
  BY <1>8 DEF t, E

LEMMA RemovedKeepsTurns ==
  ASSUME QueueInv, NEW ids \in SUBSET Ids, NEW reset \in BOOLEAN, TracksRemoved(ids, reset), SameKind
  PROVE  TurnsStay
<1>1. items \in Seq(Ids) /\ Once(items)
  BY DEF QueueInv
<1>2. /\ items' = Kept(items, Ids \ ids)
      /\ order' = IF order = NoOrder THEN NoOrder ELSE Renumbered(order, items')
  BY DEF TracksRemoved
<1>3. items' \in Seq(Ids) /\ Once(items') /\ \A v : Contains(items', v) => Contains(items, v)
  BY <1>1, <1>2, KeptOnce
<1>4. CASE order = NoOrder
  <2>1. PlayOrder = items /\ PlayOrder' = items'
    BY <1>4 DEF SameKind, PlayOrder
  <2>2. \A u, v \in ToSet(items) \cap ToSet(items') : InTurn(items', u, v) = InTurn(items, u, v)
    BY <1>1, <1>2, KeptTurns
  <2> QED
    BY <2>1, <2>2 DEF TurnsStay
<1>5. CASE order # NoOrder
  BY <1>2, <1>3, <1>5, RenumberingKeepsTurns DEF SameKind
<1> QED
  BY <1>4, <1>5

LEMMA ReorderedKeepsTurns ==
  ASSUME QueueInv, QueueInv', NEW ids \in Lists(Ids, MaxLength), NEW after, NEW reset \in BOOLEAN,
         TracksReordered(ids, after, reset), SameKind, order # NoOrder
  PROVE  TurnsStay
<1>1. items \in Seq(Ids) /\ ids \in Seq(Ids) /\ Once(ids) /\ Once(items)
  BY ListsOnce DEF QueueInv
<1> DEFINE moving == Kept(ids, ToSet(items))
           remaining == Kept(items, Ids \ ToSet(ids))
           at == InsertionIndex(remaining, after)
<1>2. IF moving = <<>> THEN items' = items /\ order' = order
      ELSE items' = Spliced(remaining, at, moving) /\ order' = OrderAfterMove(items')
  BY DEF TracksReordered
<1>3. CASE moving = <<>>
  <2>1. items' = items /\ order' = order
    BY <1>2, <1>3
  <2>2. PlayOrder' = PlayOrder
    BY <2>1 DEF PlayOrder
  <2> QED
    BY <2>2 DEF TurnsStay
<1>4. CASE moving # <<>>
  <2>1. /\ moving \in Seq(Ids) /\ Once(moving)
        /\ \A v : Contains(moving, v) => Contains(ids, v) /\ v \in ToSet(items)
    BY <1>1, KeptOnce
  <2>2. /\ remaining \in Seq(Ids) /\ Once(remaining)
        /\ \A v : Contains(remaining, v) => Contains(items, v) /\ v \notin ToSet(ids)
    BY <1>1, KeptOnce
  <2>3. at \in 0..Len(remaining)
    BY <2>2, InsertionInRange
  <2>4. items' = Spliced(remaining, at, moving) /\ order' = Renumbered(order, items')
    BY <1>2, <1>4 DEF OrderAfterMove
  <2> HIDE DEF moving, remaining, at
  <2>5. \A v : ~(Contains(remaining, v) /\ Contains(moving, v))
    BY <1>1, <2>1, <2>2, ToSetContains
  <2>6. \A v : Contains(items', v) <=> Contains(remaining, v) \/ Contains(moving, v)
    BY <2>1, <2>2, <2>3, <2>4, <2>5, SplicedOnce
  <2>7. \A v : Contains(items', v) => Contains(items, v)
    BY <1>1, <2>1, <2>2, <2>6, ToSetContains
  <2>8. order' # NoOrder /\ items' \in Seq(Ids) /\ Once(items')
    BY DEF SameKind, QueueInv
  <2> QED
    BY <2>4, <2>7, <2>8, RenumberingKeepsTurns
<1> QED
  BY <1>3, <1>4

\* The kinds of steps that the two properties speak of
LEMMA EditedSteps ==
  ASSUME Next
  PROVE  /\ event'.type = "added" =>
              \E tracks \in Fresh, seeded, reset \in BOOLEAN : TracksAdded(tracks, seeded, reset)
         /\ event'.type = "inserted" =>
              \E tracks \in Fresh, after \in Anchors, seeded, reset \in BOOLEAN :
                 TracksInserted(tracks, after, seeded, reset)
         /\ event'.type = "removed" =>
              \E ids \in SUBSET Ids, reset \in BOOLEAN : TracksRemoved(ids, reset)
         /\ event'.type = "reordered" =>
              \E ids \in Lists(Ids, MaxLength), after \in Anchors, reset \in BOOLEAN :
                 TracksReordered(ids, after, reset)
<1>1. CASE Snapshot
  <2>1. event'.type = "replaced"
    BY <1>1 DEF Snapshot, QueueStateReplaced, Saw
  <2> QED
    BY <2>1
<1>2. CASE Edit
  <2>1. PICK reset \in BOOLEAN, seeded \in BOOLEAN :
       \/ \E tracks \in Fresh : TracksAdded(tracks, seeded, reset)
       \/ \E tracks \in Fresh, after \in Anchors : TracksInserted(tracks, after, seeded, reset)
       \/ \E tracks \in Lists(Ids, MaxLength), mode \in BOOLEAN, pivot \in Anchors :
             TracksLoaded(tracks, mode, seeded, pivot, reset)
       \/ \E mode \in BOOLEAN, pivot \in Anchors : ShuffleModeSet(mode, seeded, pivot, reset)
       \/ AutoplayModeSet(reset)
    BY <1>2 DEF Edit
  <2>2. CASE \E tracks \in Fresh : TracksAdded(tracks, seeded, reset)
    <3>1. event'.type = "added"
      BY <2>2 DEF TracksAdded, Saw
    <3> QED
      BY <2>2, <3>1
  <2>3. CASE \E tracks \in Fresh, after \in Anchors : TracksInserted(tracks, after, seeded, reset)
    <3>1. event'.type = "inserted"
      BY <2>3 DEF TracksInserted, Saw
    <3> QED
      BY <2>3, <3>1
  <2>4. CASE \E tracks \in Lists(Ids, MaxLength), mode \in BOOLEAN, pivot \in Anchors :
                TracksLoaded(tracks, mode, seeded, pivot, reset)
    <3>1. event'.type = "loaded"
      BY <2>4 DEF TracksLoaded, Saw
    <3> QED
      BY <3>1
  <2>5. CASE \E mode \in BOOLEAN, pivot \in Anchors : ShuffleModeSet(mode, seeded, pivot, reset)
    <3>1. event'.type = "shuffled"
      BY <2>5 DEF ShuffleModeSet, Saw
    <3> QED
      BY <3>1
  <2>6. CASE AutoplayModeSet(reset)
    <3>1. event'.type = "autoplay"
      BY <2>6 DEF AutoplayModeSet, Saw
    <3> QED
      BY <3>1
  <2> QED
    BY <2>1, <2>2, <2>3, <2>4, <2>5, <2>6
<1>3. CASE Rearrange
  <2>1. PICK reset \in BOOLEAN :
       \/ \E ids \in SUBSET Ids : TracksRemoved(ids, reset)
       \/ \E ids \in Lists(Ids, MaxLength), after \in Anchors : TracksReordered(ids, after, reset)
    BY <1>3 DEF Rearrange
  <2>2. CASE \E ids \in SUBSET Ids : TracksRemoved(ids, reset)
    <3>1. event'.type = "removed"
      BY <2>2 DEF TracksRemoved, Saw
    <3> QED
      BY <2>2, <3>1
  <2>3. CASE \E ids \in Lists(Ids, MaxLength), after \in Anchors : TracksReordered(ids, after, reset)
    <3>1. event'.type = "reordered"
      BY <2>3 DEF TracksReordered, Saw
    <3> QED
      BY <2>3, <3>1
  <2> QED
    BY <2>1, <2>2, <2>3
<1>4. CASE Autoplay
  <2>1. event'.type = "autoplay"
    BY <1>4 DEF Autoplay, AutoplayTracksLoaded, AutoplayTracksRemoved, Saw
  <2> QED
    BY <2>1
<1>5. CASE QueueCleared
  <2>1. event'.type = "cleared"
    BY <1>5 DEF QueueCleared, Saw
  <2> QED
    BY <2>1
<1> QED
  BY <1>1, <1>2, <1>3, <1>4, <1>5 DEF Next

LEMMA PlayOrderList ==
  ASSUME QueueInv
  PROVE  PlayOrder \in Seq(Ids) /\ Len(PlayOrder) \in Nat
<1>1. Played(items, order) \in Seq(Ids)
  BY PlayedOnce DEF QueueInv
<1> QED
  BY <1>1, PlayedNow

\* Whatever the server sends, an edit keeps the turns of the tracks that stay:
\* apply_event's renumbering neither skips nor repeats a track.
THEOREM TurnsAreKept == Spec => StayersKeepTheirTurn
<1>1. QueueInv /\ QueueInv' /\ [Next]_vars =>
         [SameKind /\ (\/ event'.type \in {"added", "inserted", "removed"}
                       \/ event'.type = "reordered" /\ order # NoOrder)
             => TurnsStay]_vars
  <2> SUFFICES ASSUME QueueInv, QueueInv', Next, SameKind,
                      \/ event'.type \in {"added", "inserted", "removed"}
                      \/ event'.type = "reordered" /\ order # NoOrder
               PROVE  TurnsStay
    OBVIOUS
  <2>1. CASE event'.type = "added"
    <3>1. PICK tracks \in Fresh, seeded \in BOOLEAN, reset \in BOOLEAN :
            TracksAdded(tracks, seeded, reset)
      BY <2>1, EditedSteps
    <3>2. Grew(Len(PlayOrder)) /\ Len(PlayOrder) \in 0..Len(PlayOrder)
      BY <3>1, AddedGrows, PlayOrderList
    <3> QED
      BY <3>2, GrowthKeepsTurns
  <2>2. CASE event'.type = "inserted"
    <3>1. PICK tracks \in Fresh, after \in Anchors, seeded \in BOOLEAN, reset \in BOOLEAN :
            TracksInserted(tracks, after, seeded, reset)
      BY <2>2, EditedSteps
    <3>2. Grew(InsertionIndex(PlayOrder, after))
      BY <3>1, InsertedGrows
    <3>3. InsertionIndex(PlayOrder, after) \in 0..Len(PlayOrder)
      BY PlayOrderList, InsertionInRange
    <3> QED
      BY <3>2, <3>3, GrowthKeepsTurns
  <2>3. CASE event'.type = "removed"
    BY <2>3, EditedSteps, RemovedKeepsTurns
  <2>4. CASE event'.type = "reordered"
    BY <2>4, EditedSteps, ReorderedKeepsTurns
  <2> QED
    BY <2>1, <2>2, <2>3, <2>4
<1> QED
  BY <1>1, InitQueue, QueueStep, PTL DEF Spec, StayersKeepTheirTurn

\* Whatever the server sends, inserted tracks are played right after their
\* anchor: TracksInserted finds the anchor's turn, not its place in the queue.
THEOREM InsertedAreNext == Spec => InsertedPlayNext
<1>1. QueueInv /\ QueueInv' /\ [Next]_vars =>
         [SameKind /\ event'.type = "inserted" => NewOnesAreNext]_vars
  <2> SUFFICES ASSUME QueueInv, QueueInv', Next, SameKind, event'.type = "inserted"
               PROVE  NewOnesAreNext
    OBVIOUS
  <2>1. PICK tracks \in Fresh, after \in Anchors, seeded \in BOOLEAN, reset \in BOOLEAN :
          TracksInserted(tracks, after, seeded, reset)
    BY EditedSteps
  <2>2. event'.after = after /\ after \in Ids \cup {NoId}
    BY <2>1 DEF TracksInserted, Saw, Anchors
  <2>3. Grew(InsertionIndex(PlayOrder, after))
    BY <2>1, InsertedGrows
  <2> QED
    BY <2>2, <2>3, GrowthIsNext
<1> QED
  BY <1>1, InitQueue, QueueStep, PTL DEF Spec, InsertedPlayNext
==============================================================================
