---------------------------- MODULE FailoverProofs ----------------------------
(***************************************************************************)
(* Proofs about the failover loop for any number of requests, providers,   *)
(* accounts and routes, and whatever vendors and refreshes answer.  First  *)
(* what the ordering functions compute, for lists of any length.           *)
(***************************************************************************)
EXTENDS Failover, Integers, FiniteSetTheorems, WellFoundedInduction, TLAPS

\* Every pair of elements is in a relation, the earlier one first.
Sorted(s, R) == \A i, j \in 1..Len(s) : i < j => <<s[i], s[j]>> \in R

\* The least number principle, from which inductions on positions start.
LEMMA LeastNumber ==
  ASSUME NEW T, T \subseteq Nat, T # {}
  PROVE  \E x \in T : \A y \in T : x <= y
<1>1. PICK x \in T : \A y \in T : ~ (<<y, x>> \in OpToRel(<,Nat))
  BY WFMin, NatLessThanWellFounded
<1>2. \A m, n \in Nat : m < n => <<m, n>> \in OpToRel(<,Nat)
  BY DEF OpToRel
<1>3. \A y \in T : ~(y < x)
  BY <1>1, <1>2, Zenon
<1> QED
  BY <1>3

\* A counter that moves by one moves its remainder.
LEMMA RemainderMoves ==
  ASSUME NEW a \in Nat, NEW n \in Nat, n > 1
  PROVE  (a + 1) % n # a % n
<1> SUFFICES ASSUME (a + 1) % n = a % n PROVE FALSE
  OBVIOUS
<1> DEFINE q == a \div n
           p == (a + 1) \div n
<1>1. a = n * q + (a % n) /\ a + 1 = n * p + ((a + 1) % n) /\ q \in Int /\ p \in Int
  BY SMTT(20)
<1>2. n * (p - q) = 1
  <2>1. n * p - n * q = 1
    BY <1>1
  <2> QED
    BY <1>1, <2>1
<1>3. p - q <= 0 \/ p - q >= 1
  BY <1>1
<1>4. CASE p - q <= 0
  <2>1. n * (p - q) <= 0
    BY <1>1, <1>4
  <2> QED
    BY <1>1, <1>2, <2>1
<1>5. CASE p - q >= 1
  <2>1. n * (p - q) >= n
    BY <1>1, <1>5
  <2> QED
    BY <1>1, <1>2, <2>1
<1> QED
  BY <1>3, <1>4, <1>5

-----------------------------------------------------------------------------

\* The ascending enumeration of a finite set of positions exists: the rank of a
\* position is a bijection, and its inverse ascends.
LEMMA AscendingExists ==
  ASSUME NEW n \in Nat, NEW at \in SUBSET (1..n)
  PROVE  \E f \in [1..Cardinality(at) -> at] :
           \A k, l \in 1..Cardinality(at) : k < l => f[k] < f[l]
<1> DEFINE N == Cardinality(at)
           Upto(i) == {j \in at : j <= i}
           rank == [i \in at |-> Cardinality(Upto(i))]
<1>0. \A i \in at : i \in Int
  OBVIOUS
<1>1. IsFiniteSet(at) /\ N \in Nat
  <2>1. IsFiniteSet(1..n)
    BY FS_Interval
  <2>2. IsFiniteSet(at)
    BY <2>1, FS_Subset
  <2> QED
    BY <2>2, FS_CardinalityType
<1>2. \A i \in at : IsFiniteSet(Upto(i)) /\ Cardinality(Upto(i)) \in 1..N
  <2> TAKE i \in at
  <2>1. Upto(i) \in SUBSET at /\ i \in Upto(i)
    OBVIOUS
  <2>2. IsFiniteSet(Upto(i)) /\ Cardinality(Upto(i)) <= N
    BY <1>1, <2>1, FS_Subset
  <2>3. Cardinality(Upto(i)) \in Nat /\ Cardinality(Upto(i)) # 0
    BY <2>1, <2>2, FS_CardinalityType, FS_EmptySet
  <2> QED
    BY <1>1, <2>2, <2>3
<1>3. \A i, j \in at : i < j => Cardinality(Upto(i)) < Cardinality(Upto(j))
  <2> SUFFICES ASSUME NEW i \in at, NEW j \in at, i < j
               PROVE  Cardinality(Upto(i)) < Cardinality(Upto(j))
    OBVIOUS
  <2>1. Upto(i) \in SUBSET Upto(j) /\ j \in Upto(j) /\ j \notin Upto(i)
    <3>1. i \in Int /\ j \in Int
      BY <1>0
    <3>2. ASSUME NEW m \in at, m <= i PROVE m <= j
      <4>1. m \in Int
        BY <1>0
      <4> QED
        BY <3>1, <3>2, <4>1
    <3>3. j <= j /\ ~(j <= i)
      BY <3>1
    <3> QED
      BY <3>2, <3>3
  <2>2. Upto(i) # Upto(j)
    BY <2>1
  <2>3. Cardinality(Upto(i)) <= Cardinality(Upto(j)) /\ Cardinality(Upto(i)) # Cardinality(Upto(j))
    BY <1>2, <2>1, <2>2, FS_Subset
  <2> QED
    BY <1>2, <2>3
<1>4. rank \in Injection(at, 1..N)
  <2>1. rank \in [at -> 1..N]
    BY <1>2
  <2>2. \A i, j \in at : rank[i] = rank[j] => i = j
    <3> SUFFICES ASSUME NEW i \in at, NEW j \in at, i # j PROVE rank[i] # rank[j]
      OBVIOUS
    <3>1. i < j \/ j < i
      BY <1>0
    <3>2. Cardinality(Upto(i)) \in Nat /\ Cardinality(Upto(j)) \in Nat
      BY <1>2
    <3> QED
      BY <1>3, <3>1, <3>2
  <2> QED
    BY <2>1, <2>2 DEF Injection, IsInjective
<1>5. rank \in Surjection(at, 1..N)
  <2>1. IsFiniteSet(1..N) /\ Cardinality(1..N) = N
    BY <1>1, FS_Interval
  <2> QED
    BY <1>4, <2>1, FS_Injection
<1>6. \A k \in 1..N : \E i \in at : rank[i] = k
  BY <1>5 DEF Surjection
<1> DEFINE f == [k \in 1..N |-> CHOOSE i \in at : rank[i] = k]
<1>7. \A k \in 1..N : f[k] \in at /\ rank[f[k]] = k
  BY <1>6
<1>8. \A k, l \in 1..N : k < l => f[k] < f[l]
  <2> SUFFICES ASSUME NEW k \in 1..N, NEW l \in 1..N, k < l PROVE f[k] < f[l]
    OBVIOUS
  <2>1. f[k] \in at /\ f[l] \in at /\ rank[f[k]] = k /\ rank[f[l]] = l
    BY <1>7
  <2>2. f[l] < f[k] => rank[f[l]] < rank[f[k]]
    BY <1>3, <2>1
  <2>3. k \in Int /\ l \in Int
    BY <1>1
  <2> HIDE DEF f, rank
  <2>4. f[k] \in Int /\ f[l] \in Int
    BY <1>0, <2>1, Zenon
  <2>5. k # l
    BY <2>3
  <2>6. f[k] # f[l]
    BY <2>1, <2>5, Zenon
  <2> QED
    BY <2>1, <2>2, <2>3, <2>4, <2>6
<1>9. f \in [1..N -> at]
  BY <1>7
<1> QED
  BY <1>8, <1>9

\* Ascending enumerates all of the positions, in order.
LEMMA AscendingIs ==
  ASSUME NEW n \in Nat, NEW at \in SUBSET (1..n)
  PROVE  /\ Cardinality(at) \in Nat
         /\ Ascending(at) \in [1..Cardinality(at) -> at]
         /\ \A k, l \in 1..Cardinality(at) : k < l => Ascending(at)[k] < Ascending(at)[l]
         /\ \A i \in at : \E k \in 1..Cardinality(at) : Ascending(at)[k] = i
<1> DEFINE N == Cardinality(at)
           f == Ascending(at)
<1>0. \A i \in at : i \in Int
  OBVIOUS
<1>1. IsFiniteSet(at) /\ N \in Nat
  <2>1. IsFiniteSet(1..n)
    BY FS_Interval
  <2>2. IsFiniteSet(at)
    BY <2>1, FS_Subset
  <2> QED
    BY <2>2, FS_CardinalityType
<1>2. f \in [1..N -> at] /\ \A k, l \in 1..N : k < l => f[k] < f[l]
  BY AscendingExists DEF Ascending
<1> HIDE DEF f
<1>3. f \in Injection(1..N, at)
  <2>1. \A k, l \in 1..N : f[k] = f[l] => k = l
    <3> SUFFICES ASSUME NEW k \in 1..N, NEW l \in 1..N, k # l PROVE f[k] # f[l]
      OBVIOUS
    <3>1. k < l \/ l < k
      BY <1>1
    <3>2. f[k] \in Int /\ f[l] \in Int
      BY <1>0, <1>2
    <3> QED
      BY <1>2, <3>1, <3>2
  <2> QED
    BY <1>2, <2>1 DEF Injection, IsInjective
<1>4. f \in Surjection(1..N, at)
  <2>1. IsFiniteSet(1..N) /\ Cardinality(1..N) = N
    BY <1>1, FS_Interval
  <2> QED
    BY <1>1, <1>3, <2>1, FS_Injection
<1>5. \A i \in at : \E k \in 1..N : f[k] = i
  BY <1>4 DEF Surjection
<1> QED
  BY <1>1, <1>2, <1>5 DEF f

\* What is picked from a sequence stands in it, in the same order, and all of
\* the chosen positions are there.
LEMMA PickedIs ==
  ASSUME NEW S, NEW s \in Seq(S), NEW at \in SUBSET (1..Len(s))
  PROVE  /\ Picked(s, at) \in Seq(S)
         /\ \A k \in 1..Len(Picked(s, at)) : \E i \in at : Picked(s, at)[k] = s[i]
         /\ \A i \in at : \E k \in 1..Len(Picked(s, at)) : Picked(s, at)[k] = s[i]
         /\ \A k, l \in 1..Len(Picked(s, at)) : k < l =>
              \E i, j \in at : i < j /\ Picked(s, at)[k] = s[i] /\ Picked(s, at)[l] = s[j]
<1> DEFINE N == Cardinality(at)
           f == Ascending(at)
           p == Picked(s, at)
<1>0. Len(s) \in Nat
  OBVIOUS
<1>1. /\ N \in Nat /\ f \in [1..N -> at]
      /\ \A k, l \in 1..N : k < l => f[k] < f[l]
      /\ \A i \in at : \E k \in 1..N : f[k] = i
  BY <1>0, AscendingIs
<1>2. p = [k \in 1..N |-> s[f[k]]]
  BY DEF Picked
<1> HIDE DEF N, f, p
<1>3. \A k \in 1..N : f[k] \in at /\ f[k] \in 1..Len(s) /\ s[f[k]] \in S
  <2> SUFFICES ASSUME NEW k \in 1..N PROVE f[k] \in at /\ f[k] \in 1..Len(s) /\ s[f[k]] \in S
    OBVIOUS
  <2>1. f[k] \in at
    BY <1>1
  <2>2. f[k] \in 1..Len(s)
    BY <2>1
  <2> QED
    BY <2>1, <2>2
<1>4. p \in Seq(S) /\ Len(p) = N
  BY <1>1, <1>2, <1>3
<1>5. \A k \in 1..N : p[k] = s[f[k]]
  BY <1>2
<1>6. \A k \in 1..Len(p) : \E i \in at : p[k] = s[i]
  BY <1>3, <1>4, <1>5
<1>7. \A i \in at : \E k \in 1..Len(p) : p[k] = s[i]
  BY <1>1, <1>4, <1>5
<1>8. \A k, l \in 1..Len(p) : k < l => \E i, j \in at : i < j /\ p[k] = s[i] /\ p[l] = s[j]
  BY <1>1, <1>3, <1>4, <1>5
<1> QED
  BY <1>4, <1>6, <1>7, <1>8 DEF p

-----------------------------------------------------------------------------

LEMMA NamesOfConcat ==
  ASSUME NEW S, NEW s \in Seq(S), NEW t \in Seq(S)
  PROVE  Names(s \o t) = Names(s) \cup Names(t)
<1>1. Len(s) \in Nat /\ Len(t) \in Nat /\ Len(s \o t) = Len(s) + Len(t)
  OBVIOUS
<1>2. /\ \A i \in 1..Len(s) : i \in 1..Len(s \o t) /\ (s \o t)[i] = s[i]
      /\ \A i \in 1..Len(t) : Len(s) + i \in 1..Len(s \o t) /\ (s \o t)[Len(s) + i] = t[i]
  BY <1>1
<1>3. \A k \in 1..Len(s \o t) : (s \o t)[k] \in Names(s) \cup Names(t)
  <2> SUFFICES ASSUME NEW k \in 1..Len(s \o t) PROVE (s \o t)[k] \in Names(s) \cup Names(t)
    OBVIOUS
  <2>1. CASE k <= Len(s)
    <3>1. k \in 1..Len(s) /\ (s \o t)[k] = s[k]
      BY <1>1, <2>1
    <3> QED
      BY <3>1 DEF Names
  <2>2. CASE k > Len(s)
    <3>1. k - Len(s) \in 1..Len(t) /\ (s \o t)[k] = t[k - Len(s)]
      BY <1>1, <2>2
    <3> QED
      BY <3>1 DEF Names
  <2> QED
    BY <1>1, <2>1, <2>2
<1>4. Names(s) \subseteq Names(s \o t) /\ Names(t) \subseteq Names(s \o t)
  <2>1. \A i \in 1..Len(s) : s[i] \in Names(s \o t)
    BY <1>2 DEF Names
  <2>2. \A i \in 1..Len(t) : t[i] \in Names(s \o t)
    BY <1>2 DEF Names
  <2> QED
    BY ONLY <2>1, <2>2 DEF Names
<1>5. Names(s \o t) \subseteq Names(s) \cup Names(t)
  <2> DEFINE U == Names(s) \cup Names(t)
  <2>1. \A k \in 1..Len(s \o t) : (s \o t)[k] \in U
    BY <1>3
  <2> HIDE DEF U
  <2>2. Names(s \o t) \subseteq U
    BY ONLY <2>1 DEF Names
  <2> QED
    BY <2>2 DEF U
<1> QED
  BY <1>4, <1>5

LEMMA SortedConcat ==
  ASSUME NEW S, NEW s \in Seq(S), NEW t \in Seq(S), NEW R, Sorted(s, R), Sorted(t, R),
         \A x \in Names(s), y \in Names(t) : <<x, y>> \in R
  PROVE  Sorted(s \o t, R)
<1>1. Len(s) \in Nat /\ Len(t) \in Nat /\ Len(s \o t) = Len(s) + Len(t)
  OBVIOUS
<1> SUFFICES ASSUME NEW i \in 1..Len(s \o t), NEW j \in 1..Len(s \o t), i < j
             PROVE  <<(s \o t)[i], (s \o t)[j]>> \in R
  BY DEF Sorted
<1>2. CASE j <= Len(s)
  <2>1. i \in 1..Len(s) /\ j \in 1..Len(s) /\ (s \o t)[i] = s[i] /\ (s \o t)[j] = s[j]
    BY <1>1, <1>2
  <2> QED
    BY <2>1 DEF Sorted
<1>3. CASE i > Len(s)
  <2>1. /\ i - Len(s) \in 1..Len(t) /\ (s \o t)[i] = t[i - Len(s)]
        /\ j - Len(s) \in 1..Len(t) /\ (s \o t)[j] = t[j - Len(s)]
        /\ i - Len(s) < j - Len(s)
    BY <1>1, <1>3
  <2> QED
    BY <2>1 DEF Sorted
<1>4. CASE i <= Len(s) /\ j > Len(s)
  <2>1. /\ i \in 1..Len(s) /\ (s \o t)[i] = s[i]
        /\ j - Len(s) \in 1..Len(t) /\ (s \o t)[j] = t[j - Len(s)]
    BY <1>1, <1>4
  <2> QED
    BY <2>1 DEF Names
<1>5. j <= Len(s) \/ i > Len(s) \/ (i <= Len(s) /\ j > Len(s))
  <2>1. i \in Int /\ j \in Int
    BY <1>1
  <2> QED
    BY <1>1, <2>1
<1> QED
  BY <1>2, <1>3, <1>4, <1>5

\* Picking keeps every order.
LEMMA PickedSorted ==
  ASSUME NEW S, NEW s \in Seq(S), NEW at \in SUBSET (1..Len(s)), NEW R, Sorted(s, R)
  PROVE  Sorted(Picked(s, at), R)
<1> DEFINE p == Picked(s, at)
<1>1. \A k, l \in 1..Len(p) : k < l => \E i, j \in at : i < j /\ p[k] = s[i] /\ p[l] = s[j]
  BY PickedIs
<1> HIDE DEF p
<1>2. \A i, j \in at : i < j => <<s[i], s[j]>> \in R
  BY DEF Sorted
<1>3. Sorted(p, R)
  BY <1>1, <1>2 DEF Sorted
<1> QED
  BY <1>3 DEF p

LEMMA WithinIs ==
  ASSUME NEW S, NEW s \in Seq(S), NEW T
  PROVE  /\ Within(s, T) \in Seq(S)
         /\ Names(Within(s, T)) = Names(s) \cap T
         /\ \A R : Sorted(s, R) => Sorted(Within(s, T), R)
<1> DEFINE at == {i \in 1..Len(s) : s[i] \in T}
           p == Picked(s, at)
<1>1. at \in SUBSET (1..Len(s)) /\ p = Within(s, T)
  BY DEF Within
<1>2. \A i : i \in at <=> i \in 1..Len(s) /\ s[i] \in T
  OBVIOUS
<1> HIDE DEF at
<1>3. /\ p \in Seq(S)
      /\ \A k \in 1..Len(p) : \E i \in at : p[k] = s[i]
      /\ \A i \in at : \E k \in 1..Len(p) : p[k] = s[i]
  BY <1>1, PickedIs
<1>4. \A R : Sorted(s, R) => Sorted(p, R)
  BY <1>1, PickedSorted
<1> HIDE DEF p
<1>5. Names(p) = Names(s) \cap T
  <2>1. \A k \in 1..Len(p) : p[k] \in Names(s) \cap T
    BY <1>2, <1>3 DEF Names
  <2>2. \A x \in Names(s) : x \in T => x \in Names(p)
    BY <1>2, <1>3 DEF Names
  <2>3. Names(p) \subseteq Names(s) \cap T
    BY <2>1 DEF Names
  <2> QED
    BY <2>2, <2>3
<1> QED
  BY <1>1, <1>3, <1>4, <1>5

LEMMA OutsideIs ==
  ASSUME NEW S, NEW s \in Seq(S), NEW T
  PROVE  /\ Outside(s, T) \in Seq(S)
         /\ Names(Outside(s, T)) = Names(s) \ T
         /\ \A R : Sorted(s, R) => Sorted(Outside(s, T), R)
<1> DEFINE at == {i \in 1..Len(s) : s[i] \notin T}
           p == Picked(s, at)
<1>1. at \in SUBSET (1..Len(s)) /\ p = Outside(s, T)
  BY DEF Outside
<1>2. \A i : i \in at <=> i \in 1..Len(s) /\ s[i] \notin T
  OBVIOUS
<1> HIDE DEF at
<1>3. /\ p \in Seq(S)
      /\ \A k \in 1..Len(p) : \E i \in at : p[k] = s[i]
      /\ \A i \in at : \E k \in 1..Len(p) : p[k] = s[i]
  BY <1>1, PickedIs
<1>4. \A R : Sorted(s, R) => Sorted(p, R)
  BY <1>1, PickedSorted
<1> HIDE DEF p
<1>5. Names(p) = Names(s) \ T
  <2>1. \A k \in 1..Len(p) : p[k] \in Names(s) \ T
    BY <1>2, <1>3 DEF Names
  <2>2. \A x \in Names(s) : x \notin T => x \in Names(p)
    BY <1>2, <1>3 DEF Names
  <2>3. Names(p) \subseteq Names(s) \ T
    BY <2>1 DEF Names
  <2> QED
    BY <2>2, <2>3
<1> QED
  BY <1>1, <1>3, <1>4, <1>5

-----------------------------------------------------------------------------

\* The first place of a name.
IsFirst(s, i) == i \in 1..Len(s) /\ \A j \in 1..(i - 1) : s[j] # s[i]

LEMMA EveryNameHasAFirst ==
  ASSUME NEW S, NEW s \in Seq(S), NEW x \in Names(s)
  PROVE  \E i \in 1..Len(s) : s[i] = x /\ IsFirst(s, i)
<1> DEFINE T == {i \in 1..Len(s) : s[i] = x}
<1>1. T \subseteq Nat /\ T # {}
  BY DEF Names
<1>2. PICK i \in T : \A j \in T : i <= j
  BY <1>1, LeastNumber
<1>3. i \in 1..Len(s) /\ s[i] = x
  BY <1>2
<1>4. \A j \in 1..(i - 1) : s[j] # s[i]
  <2> SUFFICES ASSUME NEW j \in 1..(i - 1), s[j] = s[i] PROVE FALSE
    OBVIOUS
  <2>1. j \in 1..Len(s) /\ ~(i <= j)
    BY <1>3
  <2>2. j \in T
    BY <1>3, <2>1
  <2> QED
    BY <1>2, <2>1, <2>2
<1> QED
  BY <1>3, <1>4 DEF IsFirst

\* account_ids: every id but the empty one, by its first place in the list, so
\* none twice.
THEOREM AccountIdsIs ==
  ASSUME NEW S, NEW listed \in Seq(S), NEW empty
  PROVE  /\ AccountIds(listed, empty) \in Seq(S)
         /\ Names(AccountIds(listed, empty)) = Names(listed) \ {empty}
         /\ \A k, l \in 1..Len(AccountIds(listed, empty)) : k < l =>
              \E i, j \in 1..Len(listed) :
                 /\ i < j /\ IsFirst(listed, i) /\ IsFirst(listed, j)
                 /\ AccountIds(listed, empty)[k] = listed[i]
                 /\ AccountIds(listed, empty)[l] = listed[j]
<1> DEFINE at == {i \in 1..Len(listed) :
                    listed[i] # empty /\ \A j \in 1..(i - 1) : listed[j] # listed[i]}
           p == Picked(listed, at)
<1>1. at \in SUBSET (1..Len(listed)) /\ p = AccountIds(listed, empty)
  BY DEF AccountIds
<1>2. \A i : i \in at <=> listed[i] # empty /\ IsFirst(listed, i)
  BY DEF IsFirst
<1> HIDE DEF at
<1>3. /\ p \in Seq(S)
      /\ \A k \in 1..Len(p) : \E i \in at : p[k] = listed[i]
      /\ \A i \in at : \E k \in 1..Len(p) : p[k] = listed[i]
      /\ \A k, l \in 1..Len(p) : k < l =>
           \E i, j \in at : i < j /\ p[k] = listed[i] /\ p[l] = listed[j]
  BY <1>1, PickedIs
<1> HIDE DEF p
<1>4. Names(p) \subseteq Names(listed) \ {empty}
  <2>1. \A i \in at : listed[i] \in Names(listed) \ {empty}
    BY <1>1, <1>2 DEF Names
  <2>2. \A k \in 1..Len(p) : p[k] \in Names(listed) \ {empty}
    BY <1>3, <2>1
  <2> QED
    BY ONLY <2>2 DEF Names
<1>5. ASSUME NEW x \in Names(listed) \ {empty} PROVE x \in Names(p)
  <2>1. PICK i \in 1..Len(listed) : listed[i] = x /\ IsFirst(listed, i)
    BY <1>5, EveryNameHasAFirst
  <2>2. i \in at
    BY <1>2, <1>5, <2>1
  <2> QED
    BY <1>3, <2>1, <2>2 DEF Names
<1>6. \A k, l \in 1..Len(p) : k < l =>
        \E i, j \in 1..Len(listed) :
           i < j /\ IsFirst(listed, i) /\ IsFirst(listed, j) /\ p[k] = listed[i] /\ p[l] = listed[j]
  <2>1. \A i \in at : i \in 1..Len(listed) /\ IsFirst(listed, i)
    BY <1>1, <1>2
  <2> SUFFICES ASSUME NEW k \in 1..Len(p), NEW l \in 1..Len(p), k < l
               PROVE  \E i, j \in 1..Len(listed) :
                        /\ i < j /\ IsFirst(listed, i) /\ IsFirst(listed, j)
                        /\ p[k] = listed[i] /\ p[l] = listed[j]
    OBVIOUS
  <2>2. PICK i \in at, j \in at : i < j /\ p[k] = listed[i] /\ p[l] = listed[j]
    BY <1>3
  <2> QED
    BY <2>1, <2>2
<1>7. Names(p) = Names(listed) \ {empty}
  BY <1>4, <1>5
<1> QED
  BY <1>1, <1>3, <1>6, <1>7

\* apply_order loses no id and keeps each part's order, the saved part first.
THEOREM ApplyOrderIs ==
  ASSUME NEW S, NEW ids \in Seq(S), NEW saved \in Seq(S)
  PROVE  /\ ApplyOrder(ids, saved) \in Seq(S)
         /\ Names(ApplyOrder(ids, saved)) = Names(ids)
         /\ \A R : /\ Sorted(saved, R) /\ Sorted(Outside(ids, Names(saved)), R)
                   /\ \A x \in Names(saved), y \in Names(ids) \ Names(saved) : <<x, y>> \in R
                   => Sorted(ApplyOrder(ids, saved), R)
<1> DEFINE s == Within(saved, Names(ids))
           t == Outside(ids, Names(saved))
<1>1. /\ s \in Seq(S) /\ Names(s) = Names(saved) \cap Names(ids)
      /\ \A R : Sorted(saved, R) => Sorted(s, R)
  BY WithinIs
<1>2. t \in Seq(S) /\ Names(t) = Names(ids) \ Names(saved)
  BY OutsideIs
<1>3. ApplyOrder(ids, saved) = s \o t
  BY DEF ApplyOrder
<1> HIDE DEF s, t
<1>4. s \o t \in Seq(S)
  BY <1>1, <1>2
<1>5. Names(s \o t) = Names(ids)
  <2>1. Names(s \o t) = Names(s) \cup Names(t)
    BY <1>1, <1>2, NamesOfConcat
  <2> QED
    BY ONLY <1>1, <1>2, <2>1
<1>6. ASSUME NEW R, Sorted(saved, R), Sorted(t, R),
             \A x \in Names(saved), y \in Names(ids) \ Names(saved) : <<x, y>> \in R
      PROVE  Sorted(s \o t, R)
  <2>1. \A x \in Names(s), y \in Names(t) : <<x, y>> \in R
    BY <1>1, <1>2, <1>6
  <2> QED
    BY <1>1, <1>2, <1>6, <2>1, SortedConcat
<1> QED
  BY <1>3, <1>4, <1>5, <1>6 DEF t

\* order_accounts loses no id: within the accounts that have room, and within
\* those that do not, the order stays.
THEOREM OrderAccountsIs ==
  ASSUME NEW S, NEW ids \in Seq(S), NEW past
  PROVE  /\ OrderAccounts(ids, past) \in Seq(S)
         /\ Names(OrderAccounts(ids, past)) = Names(ids)
         /\ \A R : Sorted(ids, R) =>
              Sorted(OrderAccounts(ids, past),
                     {z \in Names(ids) \X Names(ids) :
                        IF z[1] \in past <=> z[2] \in past THEN z \in R ELSE z[2] \in past})
<1> DEFINE s == Outside(ids, past)
           t == Within(ids, past)
<1>1. /\ s \in Seq(S) /\ Names(s) = Names(ids) \ past
      /\ \A R : Sorted(ids, R) => Sorted(s, R)
  BY OutsideIs
<1>2. /\ t \in Seq(S) /\ Names(t) = Names(ids) \cap past
      /\ \A R : Sorted(ids, R) => Sorted(t, R)
  BY WithinIs
<1>3. OrderAccounts(ids, past) = s \o t
  BY DEF OrderAccounts
<1> HIDE DEF s, t
<1>4. s \o t \in Seq(S)
  BY <1>1, <1>2
<1>5. Names(s \o t) = Names(ids)
  <2>1. Names(s \o t) = Names(s) \cup Names(t)
    BY <1>1, <1>2, NamesOfConcat
  <2> QED
    BY ONLY <1>1, <1>2, <2>1
<1>6. ASSUME NEW R, Sorted(ids, R)
      PROVE  Sorted(s \o t, {z \in Names(ids) \X Names(ids) :
                        IF z[1] \in past <=> z[2] \in past THEN z \in R ELSE z[2] \in past})
  <2> DEFINE Q == {z \in Names(ids) \X Names(ids) :
                     IF z[1] \in past <=> z[2] \in past THEN z \in R ELSE z[2] \in past}
  <2>1. \A x, y \in Names(ids) :
          (IF x \in past <=> y \in past THEN <<x, y>> \in R ELSE y \in past) => <<x, y>> \in Q
    OBVIOUS
  <2> HIDE DEF Q
  <2>2. Sorted(s, R) /\ Sorted(t, R)
    BY <1>1, <1>2, <1>6
  <2>3. Sorted(s, Q)
    <3>1. \A i \in 1..Len(s) : s[i] \in Names(ids) /\ s[i] \notin past
      BY <1>1 DEF Names
    <3> QED
      BY <2>1, <2>2, <3>1 DEF Sorted
  <2>4. Sorted(t, Q)
    <3>1. \A i \in 1..Len(t) : t[i] \in Names(ids) /\ t[i] \in past
      BY <1>2 DEF Names
    <3> QED
      BY <2>1, <2>2, <3>1 DEF Sorted
  <2>5. \A x \in Names(s), y \in Names(t) : <<x, y>> \in Q
    BY <1>1, <1>2, <2>1
  <2>6. Sorted(s \o t, Q)
    BY <1>1, <1>2, <2>3, <2>4, <2>5, SortedConcat
  <2> QED
    BY <2>6 DEF Q
<1> QED
  BY <1>3, <1>4, <1>5, <1>6

\* order_provider_names only rotates: every place of the new list is a place of
\* the old one, and every old one is met once.
THEOREM RotationIs ==
  ASSUME NEW S, NEW given \in Seq(S), NEW strategy, NEW turn \in Nat,
         NEW t, t = OrderProviderNames(given, strategy, turn)
  PROVE  /\ t \in Seq(S) /\ Len(t) = Len(given)
         /\ Names(t) = Names(given)
         /\ \A x : NamesOnce(given, x) => NamesOnce(t, x)
         /\ Rotates(given, strategy) =>
              (turn % Len(given)) + 1 \in 1..Len(given) /\ t[1] = given[(turn % Len(given)) + 1]
<1> DEFINE n == Len(given)
           c == turn % n
<1>1. n \in Nat
  OBVIOUS
<1>2. CASE ~Rotates(given, strategy)
  <2>1. t = given
    BY <1>2 DEF OrderProviderNames
  <2> QED
    BY <1>2, <2>1
<1>3. CASE Rotates(given, strategy)
  <2>1. n > 1
    BY <1>3 DEF Rotates
  <2>2. c \in 0..(n - 1)
    BY <1>1, <2>1
  <2> DEFINE u == SubSeq(given, c + 1, n)
             v == SubSeq(given, 1, c)
  <2>3. t = u \o v
    BY <1>3 DEF OrderProviderNames
  <2> HIDE DEF c
  <2>4. /\ u \in Seq(S) /\ Len(u) = n - c
        /\ \A i \in 1..(n - c) : u[i] = given[c + i]
    BY <1>1, <2>2
  <2>5. /\ v \in Seq(S) /\ Len(v) = c
        /\ \A i \in 1..c : v[i] = given[i]
    BY <1>1, <2>2
  <2> HIDE DEF u, v
  <2>6. t \in Seq(S) /\ Len(t) = n
    <3>0. u \in Seq(S) /\ v \in Seq(S)
      BY ONLY <2>4, <2>5
    <3>1. u \o v \in Seq(S) /\ Len(u \o v) = Len(u) + Len(v)
      BY ONLY <3>0
    <3>2. c \in Int /\ (n - c) + c = n
      BY <1>1, <2>2
    <3> QED
      BY <2>3, <2>4, <2>5, <3>1, <3>2
  <2> DEFINE from(i) == IF i <= n - c THEN c + i ELSE i - (n - c)
  <2>7. \A i \in 1..n : from(i) \in 1..n /\ t[i] = given[from(i)]
    <3> SUFFICES ASSUME NEW i \in 1..n PROVE from(i) \in 1..n /\ t[i] = given[from(i)]
      OBVIOUS
    <3>1. CASE i <= n - c
      <4>1. i \in 1..(n - c) /\ t[i] = u[i]
        BY <1>1, <2>2, <2>3, <2>4, <2>5, <3>1
      <4> QED
        BY <1>1, <2>2, <2>4, <3>1, <4>1
    <3>2. CASE ~(i <= n - c)
      <4>1. i - (n - c) \in 1..c /\ t[i] = v[i - (n - c)]
        BY <1>1, <2>2, <2>3, <2>4, <2>5, <3>2
      <4> QED
        BY <1>1, <2>2, <2>5, <3>2, <4>1
    <3> QED
      BY <3>1, <3>2
  <2>8. \A i, j \in 1..n : from(i) = from(j) => i = j
    BY <1>1, <2>2
  <2>9. \A k \in 1..n : \E i \in 1..n : from(i) = k
    <3> SUFFICES ASSUME NEW k \in 1..n PROVE \E i \in 1..n : from(i) = k
      OBVIOUS
    <3>1. CASE k > c
      <4>1. k - c \in 1..n /\ from(k - c) = k
        BY <1>1, <2>2, <3>1
      <4> QED
        BY <4>1
    <3>2. CASE ~(k > c)
      <4>1. k + (n - c) \in 1..n /\ from(k + (n - c)) = k
        BY <1>1, <2>2, <3>2
      <4> QED
        BY <4>1
    <3> QED
      BY <3>1, <3>2
  <2>10. 1 \in 1..n /\ from(1) = c + 1
    BY <1>1, <2>1, <2>2
  <2> HIDE DEF from
  <2>11. Names(t) = Names(given)
    <3>1. \A i \in 1..n : t[i] \in Names(given)
      BY <2>7 DEF Names, n
    <3>2. \A k \in 1..n : given[k] \in Names(t)
      BY <2>6, <2>7, <2>9 DEF Names
    <3> QED
      BY <2>6, <3>1, <3>2 DEF Names, n
  <2>12. ASSUME NEW x, NamesOnce(given, x) PROVE NamesOnce(t, x)
    <3>1. \A i, j \in 1..n : given[i] = x /\ given[j] = x => i = j
      BY <2>12 DEF NamesOnce, n
    <3>2. \A i, j \in 1..n : t[i] = x /\ t[j] = x => i = j
      BY <2>7, <2>8, <3>1
    <3> QED
      BY <2>6, <3>2 DEF NamesOnce
  <2>13. c + 1 \in 1..n /\ t[1] = given[c + 1]
    BY <2>7, <2>10
  <2> HIDE DEF n
  <2> QED
    BY <2>6, <2>11, <2>12, <2>13 DEF n, c
<1> QED
  BY <1>2, <1>3

-----------------------------------------------------------------------------

LEMMA TailIs ==
  ASSUME NEW S, NEW s \in Seq(S), s # <<>>
  PROVE  /\ Tail(s) \in Seq(S) /\ Len(Tail(s)) < Len(s) /\ Len(Tail(s)) \in Nat
         /\ Head(s) \in S
         /\ Names(s) = {Head(s)} \cup Names(Tail(s))
         /\ \A R : Sorted(s, R) =>
              Sorted(Tail(s), R) /\ \A y \in Names(Tail(s)) : <<Head(s), y>> \in R
         /\ \A i \in 1..Len(Tail(s)) : i + 1 \in 1..Len(s) /\ Tail(s)[i] = s[i + 1]
<1> DEFINE t == Tail(s)
<1>1. /\ t \in Seq(S) /\ Len(s) \in Nat \ {0} /\ Len(t) = Len(s) - 1 /\ Head(s) = s[1]
      /\ \A i \in 1..Len(t) : i + 1 \in 1..Len(s) /\ t[i] = s[i + 1]
  OBVIOUS
<1>2. 1 \in 1..Len(s) /\ Head(s) \in S
  BY <1>1
<1> HIDE DEF t
<1>3. Names(t) \subseteq Names(s) /\ Head(s) \in Names(s)
  <2>1. \A i \in 1..Len(t) : t[i] \in Names(s)
    BY <1>1 DEF Names
  <2>2. Head(s) \in Names(s)
    BY <1>1, <1>2 DEF Names
  <2> QED
    BY ONLY <2>1, <2>2 DEF Names
<1>4. \A k \in 1..Len(s) : s[k] \in {Head(s)} \cup Names(t)
  <2> SUFFICES ASSUME NEW k \in 1..Len(s) PROVE s[k] = Head(s) \/ s[k] \in Names(t)
    OBVIOUS
  <2>1. CASE k = 1
    BY <1>1, <2>1
  <2>2. CASE k # 1
    <3>1. k - 1 \in 1..Len(t) /\ t[k - 1] = s[k]
      BY <1>1, <2>2
    <3> QED
      BY <3>1 DEF Names
  <2> QED
    BY <2>1, <2>2
<1>5. Names(s) = {Head(s)} \cup Names(t)
  <2> DEFINE U == {Head(s)} \cup Names(t)
  <2>1. \A k \in 1..Len(s) : s[k] \in U
    BY <1>4
  <2> HIDE DEF U
  <2>2. Names(s) \subseteq U
    BY ONLY <2>1 DEF Names
  <2> QED
    BY <1>3, <2>2 DEF U
<1>6. ASSUME NEW R, Sorted(s, R)
      PROVE  Sorted(t, R) /\ \A y \in Names(t) : <<Head(s), y>> \in R
  <2>1. \A i, j \in 1..Len(s) : i < j => <<s[i], s[j]>> \in R
    BY <1>6 DEF Sorted
  <2>2. \A i, j \in 1..Len(t) : i < j => <<t[i], t[j]>> \in R
    <3> SUFFICES ASSUME NEW i \in 1..Len(t), NEW j \in 1..Len(t), i < j PROVE <<t[i], t[j]>> \in R
      OBVIOUS
    <3>1. i + 1 \in 1..Len(s) /\ j + 1 \in 1..Len(s) /\ i + 1 < j + 1
      BY <1>1
    <3> QED
      BY <1>1, <2>1, <3>1
  <2>3. \A i \in 1..Len(t) : <<Head(s), t[i]>> \in R
    <3> SUFFICES ASSUME NEW i \in 1..Len(t) PROVE <<Head(s), t[i]>> \in R
      OBVIOUS
    <3>1. i + 1 \in 1..Len(s) /\ 1 < i + 1
      BY <1>1
    <3> QED
      BY <1>1, <1>2, <2>1, <3>1
  <2>4. Sorted(t, R)
    BY ONLY <2>2 DEF Sorted
  <2>5. \A y \in Names(t) : <<Head(s), y>> \in R
    BY ONLY <2>3 DEF Names
  <2> QED
    BY <2>4, <2>5
<1>7. Len(t) < Len(s) /\ Len(t) \in Nat
  BY <1>1
<1> QED
  BY <1>1, <1>2, <1>5, <1>6, <1>7 DEF t

LEMMA AppendIs ==
  ASSUME NEW S, NEW s \in Seq(S), NEW e \in S
  PROVE  /\ Append(s, e) \in Seq(S) /\ Len(Append(s, e)) = Len(s) + 1
         /\ Names(Append(s, e)) = Names(s) \cup {e}
         /\ \A R : Sorted(s, R) /\ (\A x \in Names(s) : <<x, e>> \in R) => Sorted(Append(s, e), R)
<1> DEFINE t == Append(s, e)
<1>1. /\ t \in Seq(S) /\ Len(s) \in Nat /\ Len(t) = Len(s) + 1
      /\ \A i \in 1..Len(s) : i \in 1..Len(t) /\ t[i] = s[i]
      /\ t[Len(s) + 1] = e /\ Len(s) + 1 \in 1..Len(t)
  OBVIOUS
<1> HIDE DEF t
<1>2. \A k \in 1..Len(t) : k \in 1..Len(s) \/ k = Len(s) + 1
  BY <1>1
<1>3. Names(t) = Names(s) \cup {e}
  <2> DEFINE U == Names(s) \cup {e}
  <2>1. \A k \in 1..Len(t) : t[k] \in U
    BY <1>1, <1>2 DEF Names
  <2>2. \A k \in 1..Len(s) : s[k] \in Names(t)
    BY <1>1 DEF Names
  <2>3. e \in Names(t)
    BY <1>1 DEF Names
  <2>4. Names(s) \subseteq Names(t)
    BY ONLY <2>2 DEF Names
  <2> HIDE DEF U
  <2>5. Names(t) \subseteq U
    BY ONLY <2>1 DEF Names
  <2> QED
    BY <2>3, <2>4, <2>5 DEF U
<1>4. ASSUME NEW R, Sorted(s, R), \A x \in Names(s) : <<x, e>> \in R PROVE Sorted(t, R)
  <2> SUFFICES ASSUME NEW i \in 1..Len(t), NEW j \in 1..Len(t), i < j PROVE <<t[i], t[j]>> \in R
    BY DEF Sorted
  <2>1. i \in 1..Len(s)
    BY <1>1, <1>2
  <2>2. CASE j \in 1..Len(s)
    BY <1>1, <1>4, <2>1, <2>2 DEF Sorted
  <2>3. CASE j = Len(s) + 1
    <3>1. s[i] \in Names(s)
      BY <2>1 DEF Names
    <3> QED
      BY <1>1, <1>4, <2>1, <2>3, <3>1
  <2> QED
    BY <1>2, <2>2, <2>3
<1> QED
  BY <1>1, <1>3, <1>4 DEF t

\* A list of names from a smaller set.
LEMMA SeqOfNames ==
  ASSUME NEW S, NEW s \in Seq(S), NEW T, Names(s) \subseteq T
  PROVE  s \in Seq(T)
<1>1. Len(s) \in Nat /\ s = [i \in 1..Len(s) |-> s[i]]
  OBVIOUS
<1>2. \A i \in 1..Len(s) : s[i] \in T
  BY DEF Names
<1> QED
  BY <1>1, <1>2

LEMMA EmptyIs == Names(<<>>) = {} /\ \A R : Sorted(<<>>, R)
  BY DEF Names, Sorted

(***************************************************************************)
(* The failover loop.                                                      *)
(***************************************************************************)
\* A sequence, whatever its elements are.
IsSeq(s) == \E S : s \in Seq(S)

LEMMA AppendIsSeq ==
  ASSUME NEW s, IsSeq(s), NEW e
  PROVE  IsSeq(Append(s, e))
<1>1. PICK S : s \in Seq(S)
  BY DEF IsSeq
<1>2. s \in Seq(S \cup {e})
  BY <1>1
<1>3. Append(s, e) \in Seq(S \cup {e})
  BY <1>2
<1> QED
  BY <1>3 DEF IsSeq

LEMMA LenOfSeq ==
  ASSUME NEW s, IsSeq(s)
  PROVE  Len(s) \in Nat
  BY DEF IsSeq

\* The part of TypeOK the arguments need.
LoopType ==
  /\ pc \in [Requests -> PCs]
  /\ attempt \in [Requests -> Nat] /\ retried \in [Requests -> Nat]
  /\ sends \in [Requests -> Nat]
  /\ answer \in [Requests -> Answers]
  /\ plan = [r \in Requests |-> plan[r]]
  /\ \A r \in Requests : IsSeq(plan[r])

\* A seat that sent the request before and may send it again has had its
\* refresh, and a refresh is asked for only after the first 401.
RetryOf(r) ==
    /\ pc[r] \in {"idle", "plan", "done"} => sends[r] = 0
    /\ pc[r] \in {"build", "send"} => sends[r] = 0 \/ (sends[r] = 1 /\ retried[r] = attempt[r])
    /\ pc[r] = "refresh" => sends[r] = 1
    /\ pc[r] = "judge" => sends[r] <= 2

RetryInv == \A r \in Requests : RetryOf(r)

\* Only a finished request has an answer, and its plan is fixed.
AnswerInv ==
  \A r \in Requests :
    /\ pc[r] # "done" => answer[r] = "none"
    /\ answer[r] \in {"retryable", "unavailable", "exhausted", "revoked"} =>
         ~HasNext(r)

LoopInv == LoopType /\ RetryInv /\ AnswerInv

LEMMA LoopInitially == Init => LoopInv
<1> SUFFICES ASSUME Init PROVE LoopInv
  OBVIOUS
<1>1. \A r \in Requests : IsSeq(plan[r])
  BY DEF Init, IsSeq
<1> QED
  BY <1>1 DEF Init, LoopInv, LoopType, RetryInv, RetryOf, AnswerInv, PCs, Answers

\* Moving on to the next seat forgets the seat's 401.
LEMMA AdvanceKeeps ==
  ASSUME LoopInv, NEW r \in Requests, Advance(r), pc[r] # "done", UNCHANGED <<plan, retried>>
  PROVE  LoopInv'
<1> USE DEF LoopInv, LoopType, RetryInv, RetryOf, AnswerInv, PCs, Answers
<1>1. /\ attempt' = [attempt EXCEPT ![r] = attempt[r] + 1]
      /\ pc' = [pc EXCEPT ![r] = "build"]
      /\ sends' = [sends EXCEPT ![r] = 0]
      /\ UNCHANGED <<answer, plan, retried>>
  BY DEF Advance, Forget, Goto
<1>2. LoopType'
  BY <1>1
<1>3. \A q \in Requests \ {r} : pc'[q] = pc[q] /\ sends'[q] = sends[q] /\ attempt'[q] = attempt[q]
  BY <1>1
<1>4. pc'[r] = "build" /\ sends'[r] = 0 /\ answer'[r] = "none"
  BY <1>1
<1>5. RetryInv'
  <2> SUFFICES ASSUME NEW q \in Requests PROVE RetryOf(q)'
    OBVIOUS
  <2>1. CASE q = r
    BY ONLY <1>4, <2>1 DEF RetryOf
  <2>2. CASE q # r
    <3>1. RetryOf(q) /\ UNCHANGED <<pc[q], sends[q], attempt[q], retried[q]>>
      BY <1>1, <1>3, <2>2
    <3> QED
      BY ONLY <3>1 DEF RetryOf
  <2> QED
    BY <2>1, <2>2
<1>6. AnswerInv'
  BY <1>1, <1>3, <1>4 DEF HasNext
<1> QED
  BY <1>2, <1>5, <1>6

\* An answer ends the request where it stands.
LEMMA FinishKeeps ==
  ASSUME LoopInv, NEW r \in Requests, NEW a \in Answers, Finish(r, a),
         a \in {"retryable", "unavailable", "exhausted", "revoked"} => ~HasNext(r),
         UNCHANGED <<plan, retried>>
  PROVE  LoopInv'
<1> USE DEF LoopInv, LoopType, RetryInv, RetryOf, AnswerInv, PCs, Answers
<1>1. /\ answer' = [answer EXCEPT ![r] = a]
      /\ pc' = [pc EXCEPT ![r] = "done"]
      /\ sends' = [sends EXCEPT ![r] = 0]
      /\ UNCHANGED <<attempt, plan, retried>>
  BY DEF Finish, Forget, Goto
<1>2. LoopType'
  BY <1>1
<1>3. \A q \in Requests \ {r} : pc'[q] = pc[q] /\ sends'[q] = sends[q] /\ answer'[q] = answer[q]
  BY <1>1
<1>4. pc'[r] = "done" /\ sends'[r] = 0 /\ answer'[r] = a
  BY <1>1
<1>5. RetryInv'
  <2> SUFFICES ASSUME NEW q \in Requests PROVE RetryOf(q)'
    OBVIOUS
  <2>1. CASE q = r
    BY ONLY <1>4, <2>1 DEF RetryOf
  <2>2. CASE q # r
    <3>1. RetryOf(q) /\ UNCHANGED <<pc[q], sends[q], attempt[q], retried[q]>>
      BY <1>1, <1>3, <2>2
    <3> QED
      BY ONLY <3>1 DEF RetryOf
  <2> QED
    BY <2>1, <2>2
<1>6. AnswerInv'
  BY <1>1, <1>3, <1>4 DEF HasNext
<1> QED
  BY <1>2, <1>5, <1>6

LEMMA AdvanceOrFinishKeeps ==
  ASSUME LoopInv, NEW r \in Requests, NEW a \in Answers, AdvanceOrFinish(r, a),
         pc[r] # "done", UNCHANGED <<plan, retried>>
  PROVE  LoopInv'
  BY AdvanceKeeps, FinishKeeps DEF AdvanceOrFinish

\* Where only a request's place changes.
LEMMA GotoKeeps ==
  ASSUME LoopInv, NEW r \in Requests, NEW to \in {"plan", "build", "send"}, Goto(r, to),
         to = "plan" => pc[r] = "idle", to = "build" => pc[r] = "plan",
         to = "send" => pc[r] = "build",
         UNCHANGED <<attempt, retried, sends, answer, plan>>
  PROVE  LoopInv'
<1> USE DEF LoopInv, LoopType, RetryInv, RetryOf, AnswerInv, PCs, Answers
<1>1. pc' = [pc EXCEPT ![r] = to]
  BY DEF Goto
<1>2. LoopType'
  BY <1>1
<1>3. \A q \in Requests \ {r} : pc'[q] = pc[q]
  BY <1>1
<1>4. pc'[r] = to
  BY <1>1
<1>5. RetryInv'
  <2> SUFFICES ASSUME NEW q \in Requests PROVE RetryOf(q)'
    OBVIOUS
  <2>1. CASE q = r
    <3>1. RetryOf(r) /\ UNCHANGED <<sends[r], attempt[r], retried[r]>>
      BY <1>1
    <3>2. \/ to = "plan" /\ pc[r] = "idle"
          \/ to = "build" /\ pc[r] = "plan"
          \/ to = "send" /\ pc[r] = "build"
      OBVIOUS
    <3> QED
      BY ONLY <1>4, <2>1, <3>1, <3>2 DEF RetryOf
  <2>2. CASE q # r
    <3>1. RetryOf(q) /\ UNCHANGED <<pc[q], sends[q], attempt[q], retried[q]>>
      BY <1>1, <1>3, <2>2
    <3> QED
      BY ONLY <3>1 DEF RetryOf
  <2> QED
    BY <2>1, <2>2
<1>6. AnswerInv'
  BY <1>1, <1>3, <1>4 DEF HasNext
<1> QED
  BY <1>2, <1>5, <1>6

LEMMA LoopInductive == LoopInv /\ [Next]_vars => LoopInv'
<1> SUFFICES ASSUME LoopInv, [Next]_vars PROVE LoopInv'
  OBVIOUS
<1> USE DEF planning, judging, history
<1>1. ASSUME NEW r \in Requests, Arrive(r) PROVE LoopInv'
  BY <1>1, GotoKeeps DEF Arrive
<1>2. ASSUME NEW r \in Requests, PlanProvider(r) PROVE LoopInv'
  BY <1>2 DEF PlanProvider, LoopInv, LoopType, RetryInv, RetryOf, AnswerInv, HasNext
<1>3. ASSUME NEW r \in Requests, PlanSeat(r) PROVE LoopInv'
  <2>1. CASE plan' = [plan EXCEPT ![r] = Append(plan[r], Head(cands[r]))]
             /\ UNCHANGED <<pc, attempt, retried, sends, answer>>
    <3>1. pc[r] = "plan"
      BY <1>3 DEF PlanSeat
    <3>2. \A q \in Requests \ {r} : plan'[q] = plan[q]
      BY <2>1 DEF LoopInv, LoopType
    <3>3. LoopType' /\ RetryInv'
      BY <2>1, <3>2, AppendIsSeq DEF LoopInv, LoopType, RetryInv, RetryOf
    <3>4. AnswerInv'
      BY <2>1, <3>1, <3>2 DEF LoopInv, AnswerInv, HasNext
    <3> QED
      BY <3>3, <3>4 DEF LoopInv
  <2>2. CASE UNCHANGED <<plan, pc, attempt, retried, sends, answer>>
    BY <2>2 DEF LoopInv, LoopType, RetryInv, RetryOf, AnswerInv, HasNext
  <2>3. CASE Finish(r, "error") /\ UNCHANGED <<plan, retried>>
    BY <2>3, FinishKeeps DEF Answers
  <2> QED
    BY <1>3, <2>1, <2>2, <2>3 DEF PlanSeat
<1>4. ASSUME NEW r \in Requests, StartLoop(r) PROVE LoopInv'
  BY <1>4, GotoKeeps DEF StartLoop
<1>5. ASSUME NEW r \in Requests, Build(r) PROVE LoopInv'
  <2>1. CASE Finish(r, "error")
    BY <1>5, <2>1, FinishKeeps DEF Build, Answers
  <2>2. CASE AdvanceOrFinish(r, "unavailable")
    BY <1>5, <2>2, AdvanceOrFinishKeeps DEF Build, Answers
  <2>3. CASE Goto(r, "send") /\ UNCHANGED <<attempt, answer, sends>>
    BY <1>5, <2>3, GotoKeeps DEF Build
  <2> QED
    BY <1>5, <2>1, <2>2, <2>3 DEF Build
<1>6. ASSUME NEW r \in Requests, Exhausted(r) PROVE LoopInv'
  <2>1. ~HasNext(r)
    BY <1>6, LenOfSeq DEF Exhausted, HasNext, LoopInv, LoopType
  <2> QED
    BY <1>6, <2>1, FinishKeeps DEF Exhausted, Answers
<1>7. ASSUME NEW r \in Requests, Answer(r) PROVE LoopInv'
  BY <1>7, FinishKeeps DEF Answer, Answers
<1>8. ASSUME NEW r \in Requests, Retryable(r) PROVE LoopInv'
  BY <1>8, AdvanceOrFinishKeeps DEF Retryable, Answers
<1>9. ASSUME NEW r \in Requests, TransportFails(r) PROVE LoopInv'
  BY <1>9, AdvanceKeeps DEF TransportFails
<1>10. ASSUME NEW r \in Requests, Unauthorized(r) PROVE LoopInv'
  BY <1>10 DEF Unauthorized, Goto, LoopInv, LoopType, RetryInv, RetryOf, AnswerInv, HasNext, PCs
<1>11. ASSUME NEW r \in Requests, Refresh(r) PROVE LoopInv'
  <2>1. /\ pc[r] = "refresh" /\ pc'[r] \in {"build", "judge"}
        /\ pc'[r] = "build" => retried'[r] = attempt[r]
        /\ pc' = [pc EXCEPT ![r] = pc'[r]] /\ retried' = [retried EXCEPT ![r] = retried'[r]]
        /\ retried'[r] \in Nat
        /\ UNCHANGED <<attempt, sends, answer, plan>>
    BY <1>11 DEF Refresh, Goto, LoopInv, LoopType
  <2>2. LoopType' /\ AnswerInv'
    BY <2>1 DEF LoopInv, LoopType, AnswerInv, HasNext, PCs
  <2>3. RetryInv'
    <3> SUFFICES ASSUME NEW q \in Requests PROVE RetryOf(q)'
      BY DEF RetryInv
    <3> QED
      BY <2>1 DEF LoopInv, LoopType, RetryInv, RetryOf
  <2> QED
    BY <2>2, <2>3 DEF LoopInv
<1>12. ASSUME NEW r \in Requests, Judge(r) PROVE LoopInv'
  <2>1. CASE \E a \in Answers : AdvanceOrFinish(r, a)
    BY <1>12, <2>1, AdvanceOrFinishKeeps DEF Judge
  <2>2. CASE Finish(r, "refusal")
    BY <1>12, <2>2, FinishKeeps DEF Judge, Answers
  <2>3. CASE Advance(r)
    BY <1>12, <2>3, AdvanceKeeps DEF Judge
  <2> QED
    BY <1>12, <2>1, <2>2, <2>3 DEF Judge, Answers
<1>13. ASSUME NEW a \in Accounts, SignIn(a) PROVE LoopInv'
  BY <1>13 DEF SignIn, LoopInv, LoopType, RetryInv, RetryOf, AnswerInv, HasNext
<1>14. CASE UNCHANGED vars
  BY <1>14 DEF vars, LoopInv, LoopType, RetryInv, RetryOf, AnswerInv, HasNext
<1> QED
  BY <1>1, <1>2, <1>3, <1>4, <1>5, <1>6, <1>7, <1>8, <1>9, <1>10, <1>11, <1>12, <1>13, <1>14
     DEF Next, Step

LEMMA LoopAlways == Spec => []LoopInv
  BY LoopInitially, LoopInductive, PTL DEF Spec

\* However its vendor answers, a seat sends the request at most twice: the
\* loop of process_request refreshes once per seat.
THEOREM SeatsRetryOnce == Spec => []OneRetryPerSeat
<1>1. LoopInv => OneRetryPerSeat
  BY DEF LoopInv, LoopType, RetryInv, RetryOf, OneRetryPerSeat, PCs
<1> QED
  BY <1>1, LoopAlways, PTL

\* A client sees a retryable status, an unavailable or revoked account or an
\* exhausted plan only when no seat of the plan is left.
THEOREM FailoverIsExhaustive == Spec => []EverySeatHasItsTurn
<1>1. LoopInv => EverySeatHasItsTurn
  BY LenOfSeq DEF LoopInv, LoopType, AnswerInv, HasNext, EverySeatHasItsTurn
<1> QED
  BY <1>1, LoopAlways, PTL

\* Both together, which the failover run checks on a small instance.
THEOREM SeatsAlwaysUsedRightly == Spec => []SeatsUsedRightly
BY SeatsRetryOnce, FailoverIsExhaustive, PTL DEF SeatsUsedRightly

-----------------------------------------------------------------------------
(***************************************************************************)
(* The seats of one provider.                                              *)
(***************************************************************************)

LEMMA PlaceOfFirst ==
  ASSUME NEW S, NEW s \in Seq(S), NEW i, IsFirst(s, i)
  PROVE  Place(s, s[i]) = i
<1>1. i \in 1..Len(s) /\ \A j \in 1..(i - 1) : s[j] # s[i]
  BY DEF IsFirst
<1>2. ASSUME NEW k \in 1..Len(s), s[k] = s[i], \A j \in 1..(k - 1) : s[j] # s[i]
      PROVE  k = i
  <2>1. CASE k < i
    <3>1. k \in 1..(i - 1)
      BY <1>1, <2>1
    <3> QED
      BY <1>1, <1>2, <3>1
  <2>2. CASE i < k
    <3>1. i \in 1..(k - 1)
      BY <1>1, <2>2
    <3> QED
      BY <1>2, <3>1
  <2>3. k < i \/ i < k \/ k = i
    BY <1>1
  <2> QED
    BY <2>1, <2>2, <2>3
<1> DEFINE Q(k) == s[k] = s[i] /\ \A j \in 1..(k - 1) : s[j] # s[i]
<1>3. i \in 1..Len(s) /\ Q(i)
  BY <1>1
<1>4. \A k \in 1..Len(s) : Q(k) => k = i
  BY <1>2
<1>5. Place(s, s[i]) = CHOOSE k \in 1..Len(s) : Q(k)
  BY DEF Place
<1> HIDE DEF Q
<1> QED
  BY <1>3, <1>4, <1>5

\* The user's order of a provider's accounts.
Pref(p) == {z \in Accounts \X Accounts : UserPrefers(p, z[1], z[2])}

\* UserOrder has the listed accounts, each once, as the user prefers them.
LEMMA UserOrderIs ==
  ASSUME NEW p \in Providers
  PROVE  /\ UserOrder(p) \in Seq(Accounts)
         /\ Names(UserOrder(p)) = Names(Listed[p]) \ {NoName}
         /\ Sorted(UserOrder(p), Pref(p))
<1> DEFINE L == Listed[p]
           V == Saved[p]
           ids == AccountIds(L, NoName)
           byList == {z \in Accounts \X Accounts : Place(L, z[1]) < Place(L, z[2])}
           rest == Outside(ids, Names(V))
<1>1. /\ L \in Seq(Accounts \cup {NoName}) /\ V \in Seq(Accounts)
      /\ \A i, j \in 1..Len(V) : V[i] = V[j] => i = j
  <2>1. L \in Seq(Accounts \cup {NoName}) /\ V \in Seq(Accounts)
    BY FailoverAssumption
  <2>2. \A i, j \in 1..Len(Saved[p]) : Saved[p][i] = Saved[p][j] => i = j
    BY FailoverAssumption, Zenon
  <2> QED
    BY <2>1, <2>2
<1>2. UserOrder(p) = ApplyOrder(ids, V)
  BY DEF UserOrder
<1> HIDE DEF L, V
<1>3. /\ ids \in Seq(Accounts \cup {NoName}) /\ Names(ids) = Names(L) \ {NoName}
      /\ \A k, l \in 1..Len(ids) : k < l =>
           \E i, j \in 1..Len(L) :
              i < j /\ IsFirst(L, i) /\ IsFirst(L, j) /\ ids[k] = L[i] /\ ids[l] = L[j]
  BY <1>1, AccountIdsIs
<1> HIDE DEF ids
<1>4. Names(L) \subseteq Accounts \cup {NoName}
  BY <1>1 DEF Names
<1>5. ids \in Seq(Accounts)
  BY <1>3, <1>4, SeqOfNames
<1>6. Sorted(ids, byList)
  <2> SUFFICES ASSUME NEW k \in 1..Len(ids), NEW l \in 1..Len(ids), k < l
               PROVE  <<ids[k], ids[l]>> \in byList
    BY DEF Sorted
  <2>1. PICK i \in 1..Len(L), j \in 1..Len(L) :
          i < j /\ IsFirst(L, i) /\ IsFirst(L, j) /\ ids[k] = L[i] /\ ids[l] = L[j]
    BY <1>3
  <2>2. Place(L, ids[k]) = i /\ Place(L, ids[l]) = j
    BY <1>1, <2>1, PlaceOfFirst
  <2>3. ids[k] \in Accounts /\ ids[l] \in Accounts
    BY <1>5
  <2> QED
    BY <2>1, <2>2, <2>3
<1>7. Sorted(V, Pref(p))
  <2> SUFFICES ASSUME NEW i \in 1..Len(V), NEW j \in 1..Len(V), i < j
               PROVE  <<V[i], V[j]>> \in Pref(p)
    BY DEF Sorted
  <2>1. IsFirst(V, i) /\ IsFirst(V, j)
    BY <1>1 DEF IsFirst
  <2>2. Place(V, V[i]) = i /\ Place(V, V[j]) = j
    BY <1>1, <2>1, PlaceOfFirst
  <2>3. V[i] \in Names(V) /\ V[j] \in Names(V)
    BY DEF Names
  <2>4. V[i] \in Accounts /\ V[j] \in Accounts
    BY <1>1
  <2>5. UserPrefers(p, V[i], V[j])
    BY <2>2, <2>3 DEF UserPrefers, V
  <2> QED
    BY <2>4, <2>5 DEF Pref
<1>8. /\ Names(rest) = Names(ids) \ Names(V) /\ rest \in Seq(Accounts)
      /\ Sorted(rest, byList)
  BY <1>5, <1>6, OutsideIs
<1>9. Sorted(rest, Pref(p))
  <2> SUFFICES ASSUME NEW i \in 1..Len(rest), NEW j \in 1..Len(rest), i < j
               PROVE  <<rest[i], rest[j]>> \in Pref(p)
    BY DEF Sorted
  <2>1. rest[i] \in Names(rest) /\ rest[j] \in Names(rest)
    BY DEF Names
  <2>2. <<rest[i], rest[j]>> \in byList
    BY <1>8 DEF Sorted
  <2>3. Place(L, rest[i]) < Place(L, rest[j]) /\ rest[i] \in Accounts /\ rest[j] \in Accounts
    BY <2>2
  <2>4. rest[i] \notin Names(V) /\ rest[j] \notin Names(V)
    BY <1>8, <2>1
  <2>5. UserPrefers(p, rest[i], rest[j])
    BY <2>3, <2>4 DEF UserPrefers, V, L
  <2> QED
    BY <2>3, <2>5 DEF Pref
<1>10. ASSUME NEW x \in Names(V), NEW y \in Names(ids) \ Names(V) PROVE <<x, y>> \in Pref(p)
  <2>1. x \in Accounts /\ y \in Accounts
    BY <1>1, <1>5 DEF Names
  <2>2. UserPrefers(p, x, y)
    BY <1>10 DEF UserPrefers, V
  <2> QED
    BY <2>1, <2>2 DEF Pref
<1> HIDE DEF byList
<1>11. /\ ApplyOrder(ids, V) \in Seq(Accounts) /\ Names(ApplyOrder(ids, V)) = Names(ids)
       /\ Sorted(ApplyOrder(ids, V), Pref(p))
  BY <1>1, <1>5, <1>7, <1>9, <1>10, ApplyOrderIs
<1> QED
  BY <1>2, <1>3, <1>11 DEF L

\* SeatsOf has every account the user listed, in the user's order, those past
\* their line last.
LEMMA SeatsOfIs ==
  ASSUME NEW p \in Providers, NEW past \in SUBSET Exhaustible(p)
  PROVE  /\ past \subseteq Accounts
         /\ SeatsOf(p, past) \in Seq(Seats)
         /\ \A x \in Names(SeatsOf(p, past)) : x.p = p
         /\ \A a \in Names(Listed[p]) \ {NoName} : [p |-> p, a |-> a] \in Names(SeatsOf(p, past))
         /\ \A i, j \in 1..Len(SeatsOf(p, past)) : i < j =>
              LET a == SeatsOf(p, past)[i].a  b == SeatsOf(p, past)[j].a IN
              IF a \in past <=> b \in past THEN UserPrefers(p, a, b) ELSE b \in past
<1> DEFINE u == UserOrder(p)
           ids == OrderAccounts(u, past)
           s == SeatsOf(p, past)
           R == {z \in Names(u) \X Names(u) :
                   IF z[1] \in past <=> z[2] \in past THEN z \in Pref(p) ELSE z[2] \in past}
<1>1. /\ u \in Seq(Accounts) /\ Names(u) = Names(Listed[p]) \ {NoName} /\ Sorted(u, Pref(p))
  BY UserOrderIs
<1>2. past \subseteq Accounts
  <2>1. Names(u) \subseteq Accounts
    BY <1>1 DEF Names
  <2> QED
    BY <2>1 DEF Exhaustible
<1>3. s = IF ids = <<>> THEN <<[p |-> p, a |-> NoAccount]>>
          ELSE [i \in 1..Len(ids) |-> [p |-> p, a |-> ids[i]]]
  BY DEF SeatsOf
<1> HIDE DEF u
<1>4. ids \in Seq(Accounts) /\ Names(ids) = Names(u) /\ Sorted(ids, R)
  BY <1>1, OrderAccountsIs
<1> HIDE DEF ids, s
<1>5. CASE ids = <<>>
  <2>1. s = <<[p |-> p, a |-> NoAccount]>>
    BY <1>3, <1>5
  <2>2. [p |-> p, a |-> NoAccount] \in Seats
    BY DEF Seats
  <2>3. /\ s \in Seq(Seats) /\ Len(s) = 1
        /\ \A k \in 1..Len(s) : s[k] = [p |-> p, a |-> NoAccount]
    BY <2>1, <2>2
  <2>4. \A x \in Names(s) : x.p = p
    BY <2>3 DEF Names
  <2>5. Names(Listed[p]) \ {NoName} = {}
    BY <1>1, <1>4, <1>5, EmptyIs
  <2>6. \A i, j \in 1..Len(s) : ~(i < j)
    BY <2>3
  <2> QED
    BY <1>2, <2>3, <2>4, <2>5, <2>6 DEF s
<1>6. CASE ids # <<>>
  <2>1. s = [i \in 1..Len(ids) |-> [p |-> p, a |-> ids[i]]]
    BY <1>3, <1>6
  <2>2. \A i \in 1..Len(ids) : ids[i] \in Accounts /\ [p |-> p, a |-> ids[i]] \in Seats
    BY <1>4 DEF Seats
  <2>3. /\ s \in Seq(Seats) /\ Len(s) = Len(ids)
        /\ \A k \in 1..Len(s) : s[k] = [p |-> p, a |-> ids[k]]
    BY <1>4, <2>1, <2>2
  <2>4. \A k \in 1..Len(s) : s[k].p = p /\ s[k].a = ids[k]
    <3> SUFFICES ASSUME NEW k \in 1..Len(s) PROVE s[k].p = p /\ s[k].a = ids[k]
      OBVIOUS
    <3>1. s[k] = [p |-> p, a |-> ids[k]]
      BY <2>3
    <3> QED
      BY ONLY <3>1
  <2>5. \A x \in Names(s) : x.p = p
    BY ONLY <2>4 DEF Names
  <2>6. ASSUME NEW a \in Names(Listed[p]) \ {NoName} PROVE [p |-> p, a |-> a] \in Names(s)
    <3>1. a \in Names(ids)
      BY <1>1, <1>4
    <3>2. PICK k \in 1..Len(ids) : ids[k] = a
      BY <3>1 DEF Names
    <3> QED
      BY <2>3, <3>2 DEF Names
  <2>7. ASSUME NEW i \in 1..Len(s), NEW j \in 1..Len(s), i < j
        PROVE  LET a == s[i].a  b == s[j].a IN
               IF a \in past <=> b \in past THEN UserPrefers(p, a, b) ELSE b \in past
    <3>1. s[i].a = ids[i] /\ s[j].a = ids[j]
      BY <2>4
    <3>2. <<ids[i], ids[j]>> \in R
      BY <1>4, <2>3, <2>7 DEF Sorted
    <3>3. IF ids[i] \in past <=> ids[j] \in past THEN <<ids[i], ids[j]>> \in Pref(p)
          ELSE ids[j] \in past
      BY <3>2
    <3> QED
      BY <3>1, <3>3 DEF Pref
  <2> QED
    BY <1>2, <2>3, <2>5, <2>6, <2>7 DEF s
<1> QED
  BY <1>5, <1>6

-----------------------------------------------------------------------------
(***************************************************************************)
(* The plan.                                                               *)
(***************************************************************************)

\* Seats of one provider, named once by the route, stand in the user's order.
BeforeIn(r) ==
  {z \in Seats \X Seats :
     z[1].p = z[2].p /\ NamesOnce(route[r].names, z[1].p) => Before(z[1], z[2], spent[r])}

OrderOf(r) ==
  /\ Sorted(plan[r], BeforeIn(r)) /\ Sorted(cands[r], BeforeIn(r))
  /\ \A x \in Names(plan[r]), y \in Names(cands[r]) : <<x, y>> \in BeforeIn(r)

\* A provider whose turn to be planned is still to come has no seat yet.
TurnOf(r) ==
  \A p \in Providers : NamesOnce(route[r].names, p) =>
    /\ NamesOnce(names[r], p)
    /\ p \in Names(names[r]) =>
         \A x \in Names(plan[r]) \cup Names(cands[r]) \cup spent[r] : x.p # p

\* The accounts of the other providers are planned or about to be, unless they
\* are revoked.
CoverOf(r) ==
  pc[r] \in {"plan", "build", "send", "refresh", "judge"} /\ signIns = 0 =>
    \A p \in (Names(route[r].names) \cap Configured) \ Names(names[r]) :
      \A a \in Names(Listed[p]) \ (revoked \cup {NoName}) :
        [p |-> p, a |-> a] \in Names(plan[r]) \cup Names(cands[r])

\* Where a request is with its plan.
PlaceOf(r) ==
  /\ pc[r] = "idle" => names[r] = <<>> /\ cands[r] = <<>> /\ plan[r] = <<>> /\ spent[r] = {}
  /\ InLoop(r) => names[r] = <<>> /\ cands[r] = <<>>
  /\ pc[r] \in {"idle", "plan"} => attempt[r] = 1
  /\ pc[r] = "build" => attempt[r] <= Len(plan[r]) + 1
  /\ pc[r] \in {"send", "refresh", "judge"} => attempt[r] <= Len(plan[r])
  /\ pc[r] \in {"refresh", "judge"} => ~SignsItself(r)
  /\ attempt[r] >= 1

PlanInv ==
  /\ TypeOK
  /\ \A r \in Requests : OrderOf(r) /\ TurnOf(r) /\ CoverOf(r) /\ PlaceOf(r)

\* The providers the round-robin routes started with last.
StartInv ==
  \A rt \in Routes : Rotates(rt.names, rt.strategy) /\ started[rt] # NoName =>
    counter > 0 /\ started[rt] = rt.names[((counter - 1) % Len(rt.names)) + 1]

LEMMA PlanInitially == Init => PlanInv /\ StartInv
<1> SUFFICES ASSUME Init PROVE PlanInv /\ StartInv
  OBVIOUS
<1>1. TypeOK
  BY DEF Init, TypeOK, PCs, Words, Answers
<1>2. \A r \in Requests : /\ names[r] = <<>> /\ cands[r] = <<>> /\ plan[r] = <<>>
                         /\ spent[r] = {} /\ pc[r] = "idle" /\ attempt[r] = 1
  BY DEF Init
<1>3. ASSUME NEW r \in Requests PROVE OrderOf(r) /\ TurnOf(r) /\ CoverOf(r) /\ PlaceOf(r)
  <2>1. Sorted(plan[r], BeforeIn(r)) /\ Sorted(cands[r], BeforeIn(r)) /\ Names(plan[r]) = {}
    BY <1>2, EmptyIs
  <2>2. OrderOf(r)
    BY <2>1 DEF OrderOf
  <2>3. TurnOf(r)
    <3>1. Names(names[r]) = {} /\ Len(names[r]) = 0
      BY <1>2, EmptyIs
    <3> QED
      BY <3>1 DEF TurnOf, NamesOnce
  <2>4. CoverOf(r) /\ PlaceOf(r)
    BY <1>2 DEF CoverOf, PlaceOf, InLoop
  <2> QED
    BY <2>2, <2>3, <2>4
<1>4. StartInv
  BY DEF Init, StartInv
<1> QED
  BY <1>1, <1>3, <1>4 DEF PlanInv

\* A step of the loop: it answers the request, starts the loop, goes on with
\* the next seat, or is one of the few steps a seat has.
LoopStep(r) ==
  /\ pc[r] \notin {"idle", "done"}
  /\ \/ pc'[r] = "done" /\ attempt'[r] = attempt[r]
     \/ /\ pc[r] = "plan" /\ names[r] = <<>> /\ cands[r] = <<>>
        /\ pc'[r] = "build" /\ attempt'[r] = attempt[r]
     \/ /\ InLoop(r) /\ attempt[r] <= Len(plan[r])
        /\ \/ pc'[r] = "build" /\ attempt'[r] = attempt[r] + 1
           \/ /\ pc[r] = "send" /\ pc'[r] \in {"refresh", "judge"} /\ ~SignsItself(r)
              /\ attempt'[r] = attempt[r] /\ sends[r] < sends'[r]
           \/ /\ \/ pc[r] = "build" /\ pc'[r] = "send"
                 \/ pc[r] = "refresh" /\ pc'[r] \in {"build", "judge"}
              /\ attempt'[r] = attempt[r] /\ sends'[r] = sends[r]

\* Such a step leaves the plans and the other requests alone.
Moves(r) ==
  /\ UNCHANGED <<counter, planning, spent, started, signIns>>
  /\ revoked \subseteq revoked' /\ revoked' \subseteq Accounts
  /\ pc' \in [Requests -> PCs] /\ attempt' \in [Requests -> Nat]
  /\ retried' \in [Requests -> Nat] /\ sends' \in [Requests -> Nat]
  /\ status' \in [Requests -> {401, 403}] /\ words' \in [Requests -> Words]
  /\ answer' \in [Requests -> Answers]
  /\ \A q \in Requests \ {r} : UNCHANGED <<pc[q], attempt[q], sends[q]>>
  /\ LoopStep(r)

\* What Advance and Finish change.
LEMMA AdvanceIs ==
  ASSUME TypeOK, NEW r \in Requests, Advance(r)
  PROVE  /\ pc' \in [Requests -> PCs] /\ attempt' \in [Requests -> Nat] /\ sends' \in [Requests -> Nat]
         /\ status' \in [Requests -> {401, 403}] /\ words' \in [Requests -> Words]
         /\ answer' \in [Requests -> Answers]
         /\ \A q \in Requests \ {r} : pc'[q] = pc[q] /\ attempt'[q] = attempt[q] /\ sends'[q] = sends[q]
         /\ pc'[r] = "build" /\ attempt'[r] = attempt[r] + 1
  BY DEF TypeOK, Advance, Goto, Forget, PCs, Words

LEMMA FinishIs ==
  ASSUME TypeOK, NEW r \in Requests, NEW a \in Answers, Finish(r, a)
  PROVE  /\ pc' \in [Requests -> PCs] /\ attempt' \in [Requests -> Nat] /\ sends' \in [Requests -> Nat]
         /\ status' \in [Requests -> {401, 403}] /\ words' \in [Requests -> Words]
         /\ answer' \in [Requests -> Answers]
         /\ \A q \in Requests \ {r} : pc'[q] = pc[q] /\ attempt'[q] = attempt[q] /\ sends'[q] = sends[q]
         /\ pc'[r] = "done" /\ attempt'[r] = attempt[r]
  BY DEF TypeOK, Finish, Goto, Forget, PCs, Words

LEMMA AdvanceMoves ==
  ASSUME TypeOK, NEW r \in Requests, Advance(r), InLoop(r), attempt[r] <= Len(plan[r]),
         UNCHANGED <<counter, planning, spent, started, signIns, retried>>,
         revoked \subseteq revoked', revoked' \subseteq Accounts
  PROVE  Moves(r)
<1>1. retried' \in [Requests -> Nat]
  BY DEF TypeOK
<1> QED
  BY <1>1, AdvanceIs DEF Moves, LoopStep, InLoop

LEMMA FinishMoves ==
  ASSUME TypeOK, NEW r \in Requests, NEW a \in Answers, Finish(r, a), InLoop(r),
         UNCHANGED <<counter, planning, spent, started, signIns, retried>>,
         revoked \subseteq revoked', revoked' \subseteq Accounts
  PROVE  Moves(r)
<1>1. retried' \in [Requests -> Nat]
  BY DEF TypeOK
<1> QED
  BY <1>1, FinishIs DEF Moves, LoopStep, InLoop

LEMMA AdvanceOrFinishMoves ==
  ASSUME TypeOK, NEW r \in Requests, NEW a \in Answers, AdvanceOrFinish(r, a), InLoop(r),
         attempt[r] <= Len(plan[r]),
         UNCHANGED <<counter, planning, spent, started, signIns, retried>>,
         revoked \subseteq revoked', revoked' \subseteq Accounts
  PROVE  Moves(r)
  BY AdvanceMoves, FinishMoves DEF AdvanceOrFinish

\* StartLoop and every step of process_request's loop.
LoopActions(r) ==
  \/ StartLoop(r) \/ Build(r) \/ Exhausted(r) \/ Answer(r) \/ Retryable(r)
  \/ TransportFails(r) \/ Unauthorized(r) \/ Refresh(r) \/ Judge(r)

LEMMA LoopMoves ==
  ASSUME PlanInv, NEW r \in Requests, LoopActions(r)
  PROVE  Moves(r)
<1>1. TypeOK /\ PlaceOf(r) /\ revoked \subseteq Accounts
  BY DEF PlanInv, TypeOK
<1>2. CASE StartLoop(r)
  BY <1>1, <1>2 DEF StartLoop, TypeOK, Moves, LoopStep, Goto, PCs, judging, history, planning
<1>3. CASE Build(r)
  <2>1. InLoop(r) /\ attempt[r] <= Len(plan[r]) /\ revoked' = revoked
        /\ UNCHANGED <<counter, planning, spent, started, signIns, retried>>
    BY <1>3 DEF Build, InLoop, planning
  <2>2. CASE Finish(r, "error")
    BY <1>1, <2>1, <2>2, FinishMoves DEF Answers
  <2>3. CASE AdvanceOrFinish(r, "unavailable")
    BY <1>1, <2>1, <2>3, AdvanceOrFinishMoves DEF Answers
  <2>4. CASE Goto(r, "send") /\ UNCHANGED <<attempt, answer, sends, status, words>>
    BY <1>1, <1>3, <2>1, <2>4 DEF Build, TypeOK, Moves, LoopStep, Goto, PCs
  <2> QED
    BY <1>3, <2>2, <2>3, <2>4 DEF Build
<1>4. CASE Exhausted(r)
  BY <1>1, <1>4, FinishMoves DEF Exhausted, Answers, InLoop, planning
<1>5. CASE Answer(r)
  BY <1>1, <1>5, FinishMoves DEF Answer, Answers, InLoop, planning
<1>6. CASE Retryable(r)
  BY <1>1, <1>6, AdvanceOrFinishMoves DEF Retryable, Answers, InLoop, PlaceOf, planning
<1>7. CASE TransportFails(r)
  BY <1>1, <1>7, AdvanceMoves DEF TransportFails, InLoop, PlaceOf, planning
<1>8. CASE Unauthorized(r)
  <2>1. PICK st \in Statuses, w \in Words :
          /\ status' = [status EXCEPT ![r] = st]
          /\ words' = [words EXCEPT ![r] = w]
          /\ Goto(r, IF st = 401 /\ retried[r] # attempt[r] THEN "refresh" ELSE "judge")
    BY <1>8, Zenon DEF Unauthorized
  <2>2. PICK to \in {"refresh", "judge"} : pc' = [pc EXCEPT ![r] = to]
    BY <2>1 DEF Goto
  <2>3. /\ pc[r] = "send" /\ ~SignsItself(r) /\ sends' = [sends EXCEPT ![r] = sends[r] + 1]
        /\ UNCHANGED <<revoked, counter, planning, attempt, retried, answer, spent, started, signIns>>
    BY <1>8 DEF Unauthorized
  <2>4. /\ pc' \in [Requests -> PCs] /\ attempt' \in [Requests -> Nat]
        /\ retried' \in [Requests -> Nat] /\ answer' \in [Requests -> Answers]
        /\ words' \in [Requests -> Words]
    BY <1>1, <2>1, <2>2, <2>3 DEF TypeOK, PCs
  <2>5. sends' \in [Requests -> Nat] /\ sends[r] < sends'[r]
    BY <1>1, <2>3 DEF TypeOK
  <2>6. status' \in [Requests -> {401, 403}]
    BY <1>1, <2>1, FailoverAssumption DEF TypeOK
  <2>7. pc'[r] \in {"refresh", "judge"} /\ attempt'[r] = attempt[r]
    BY <1>1, <2>2, <2>3 DEF TypeOK
  <2>8. \A q \in Requests \ {r} : UNCHANGED <<pc[q], attempt[q], sends[q]>>
    BY <1>1, <2>2, <2>3 DEF TypeOK
  <2>9. LoopStep(r)
    BY <1>1, <2>3, <2>5, <2>7 DEF LoopStep, InLoop, PlaceOf
  <2> QED
    BY <1>1, <2>3, <2>4, <2>5, <2>6, <2>8, <2>9 DEF Moves
<1>9. CASE Refresh(r)
  <2>1. /\ pc[r] = "refresh"
        /\ UNCHANGED <<revoked, counter, planning, attempt, status, words, answer, sends, spent,
                       started, signIns>>
        /\ retried' = [retried EXCEPT ![r] = attempt[r]] \/ retried' = retried
    BY <1>9 DEF Refresh
  <2>2. PICK to \in {"build", "judge"} : pc' = [pc EXCEPT ![r] = to]
    BY <1>9 DEF Refresh, Goto
  <2>3. /\ pc' \in [Requests -> PCs] /\ attempt' \in [Requests -> Nat]
        /\ sends' \in [Requests -> Nat] /\ status' \in [Requests -> {401, 403}]
        /\ words' \in [Requests -> Words] /\ answer' \in [Requests -> Answers]
    BY <1>1, <2>1, <2>2 DEF TypeOK, PCs
  <2>4. retried' \in [Requests -> Nat]
    <3>1. attempt[r] \in Nat /\ retried \in [Requests -> Nat]
      BY <1>1 DEF TypeOK
    <3>2. [retried EXCEPT ![r] = attempt[r]] \in [Requests -> Nat]
      BY ONLY <3>1
    <3> QED
      BY <2>1, <3>1, <3>2
  <2>5. pc'[r] \in {"build", "judge"} /\ \A q \in Requests \ {r} : pc'[q] = pc[q]
    BY <1>1, <2>2 DEF TypeOK
  <2>6. LoopStep(r)
    BY <1>1, <2>1, <2>5 DEF LoopStep, InLoop, PlaceOf
  <2> QED
    BY <1>1, <2>1, <2>3, <2>4, <2>5, <2>6 DEF Moves
<1>10. CASE Judge(r)
  <2>1. /\ InLoop(r) /\ attempt[r] <= Len(plan[r])
        /\ UNCHANGED <<counter, planning, spent, started, signIns, retried>>
    BY <1>1, <1>10 DEF Judge, InLoop, PlaceOf, planning
  <2>2. Seat(r).a \in Accounts
    <3>1. ~SignsItself(r) /\ attempt[r] \in 1..Len(plan[r]) /\ plan[r] \in Seq(Seats)
      BY <1>1, <1>10, <2>1 DEF Judge, PlaceOf, TypeOK
    <3>2. Seat(r) \in Seats
      BY <3>1 DEF Seat
    <3> QED
      BY <3>1, <3>2 DEF SignsItself, Seats
  <2>3. revoked \subseteq revoked' /\ revoked' \subseteq Accounts
    BY <1>1, <1>10, <2>2 DEF Judge
  <2>4. CASE \E a \in Answers : AdvanceOrFinish(r, a)
    BY <1>1, <2>1, <2>3, <2>4, AdvanceOrFinishMoves
  <2>5. CASE Finish(r, "refusal")
    BY <1>1, <2>1, <2>3, <2>5, FinishMoves DEF Answers
  <2>6. CASE Advance(r)
    BY <1>1, <2>1, <2>3, <2>6, AdvanceMoves
  <2> QED
    BY <1>10, <2>4, <2>5, <2>6 DEF Judge, Answers
<1> QED
  BY <1>2, <1>3, <1>4, <1>5, <1>6, <1>7, <1>8, <1>9, <1>10 DEF LoopActions

\* A step that leaves the plans alone keeps what is known of them.
LEMMA OrderStays ==
  ASSUME NEW r \in Requests, OrderOf(r), TurnOf(r),
         UNCHANGED <<route[r], names[r], cands[r], plan[r], spent[r]>>
  PROVE  OrderOf(r)' /\ TurnOf(r)'
<1>1. BeforeIn(r)' = BeforeIn(r)
  BY DEF BeforeIn, Before
<1> QED
  BY <1>1 DEF OrderOf, TurnOf

LEMMA CoverStays ==
  ASSUME NEW r \in Requests, CoverOf(r), pc[r] # "idle" \/ pc'[r] = "idle",
         signIns' = 0 => signIns = 0 /\ revoked \subseteq revoked',
         pc'[r] # "done" => pc[r] # "done",
         pc[r] \in PCs,
         UNCHANGED <<route[r], names[r], cands[r], plan[r]>>
  PROVE  CoverOf(r)'
  BY DEF CoverOf, PCs

LEMMA MovesKeeps ==
  ASSUME PlanInv, NEW r \in Requests, Moves(r)
  PROVE  PlanInv'
<1>1. TypeOK'
  BY DEF PlanInv, TypeOK, Moves, planning
<1>2. ASSUME NEW q \in Requests PROVE OrderOf(q)' /\ TurnOf(q)' /\ CoverOf(q)' /\ PlaceOf(q)'
  <2>1. OrderOf(q) /\ TurnOf(q) /\ CoverOf(q) /\ PlaceOf(q) /\ pc[q] \in PCs /\ attempt[q] \in Nat
    BY DEF PlanInv, TypeOK
  <2>2. UNCHANGED <<route[q], names[q], cands[q], plan[q], spent[q], signIns>> /\ revoked \subseteq revoked'
    BY DEF Moves, planning
  <2>3. OrderOf(q)' /\ TurnOf(q)'
    BY <2>1, <2>2, OrderStays
  <2>4. CASE q = r
    <3>1. LoopStep(q)
      BY <2>4 DEF Moves
    <3>2. CoverOf(q)'
      BY <2>1, <2>2, <3>1, CoverStays DEF LoopStep, InLoop
    <3>3. PlaceOf(q)'
      <4>1. Len(plan[q]) \in Nat
        BY DEF PlanInv, TypeOK
      <4>2. attempt'[q] = attempt[q] => (SignsItself(q)' <=> SignsItself(q))
        BY <2>2 DEF SignsItself, Seat
      <4> QED
        BY <2>1, <2>2, <3>1, <4>1, <4>2 DEF LoopStep, PlaceOf, InLoop
    <3> QED
      BY <2>3, <3>2, <3>3
  <2>5. CASE q # r
    <3>1. UNCHANGED <<pc[q], attempt[q]>>
      BY <2>5 DEF Moves
    <3>2. CoverOf(q)'
      BY <2>1, <2>2, <3>1, CoverStays
    <3>3. SignsItself(q)' <=> SignsItself(q)
      BY <2>2, <3>1 DEF SignsItself, Seat
    <3>4. PlaceOf(q)'
      BY <2>1, <2>2, <3>1, <3>3 DEF PlaceOf, InLoop
    <3> QED
      BY <2>3, <3>2, <3>4
  <2> QED
    BY <2>4, <2>5
<1> QED
  BY <1>1, <1>2 DEF PlanInv

\* What holds of a request is not disturbed by another one's planning.
LEMMA OthersStay ==
  ASSUME PlanInv, NEW q \in Requests,
         UNCHANGED <<route[q], names[q], cands[q], plan[q], spent[q], pc[q], attempt[q]>>,
         signIns' = 0 => signIns = 0 /\ revoked \subseteq revoked'
  PROVE  OrderOf(q)' /\ TurnOf(q)' /\ CoverOf(q)' /\ PlaceOf(q)'
<1>1. OrderOf(q) /\ TurnOf(q) /\ CoverOf(q) /\ PlaceOf(q) /\ pc[q] \in PCs
  BY DEF PlanInv, TypeOK
<1>2. OrderOf(q)' /\ TurnOf(q)'
  BY <1>1, OrderStays
<1>3. CoverOf(q)'
  BY <1>1, CoverStays
<1>4. SignsItself(q)' <=> SignsItself(q)
  BY DEF SignsItself, Seat
<1>5. PlaceOf(q)'
  BY <1>1, <1>4 DEF PlaceOf, InLoop
<1> QED
  BY <1>2, <1>3, <1>5

\* A route is put in order: no provider is lost, and none named twice anew.
LEMMA ArriveKeeps ==
  ASSUME PlanInv, NEW r \in Requests, Arrive(r)
  PROVE  PlanInv'
<1> DEFINE rt == route[r]
           ordered == OrderProviderNames(rt.names, rt.strategy, counter)
<1>1. /\ pc[r] = "idle" /\ pc' = [pc EXCEPT ![r] = "plan"]
      /\ names' = [names EXCEPT ![r] = ordered]
      /\ started' = [started EXCEPT ![rt] = Head(ordered)]
      /\ counter' = counter \/ counter' = counter + 1
      /\ UNCHANGED <<revoked, route, cands, plan, attempt, judging, answer, sends, spent, signIns>>
  BY DEF Arrive, Goto
<1>2. TypeOK /\ OrderOf(r) /\ PlaceOf(r)
  BY DEF PlanInv
<1>3. rt \in Routes /\ rt.names \in Seq(Providers) /\ Len(rt.names) > 0 /\ counter \in Nat
  <2>1. rt \in Routes /\ counter \in Nat
    BY <1>2 DEF TypeOK
  <2>2. rt.names \in Seq(Providers) /\ rt.names # <<>>
    BY <2>1, FailoverAssumption
  <2> QED
    BY <2>1, <2>2
<1>4. /\ ordered \in Seq(Providers) /\ Len(ordered) = Len(rt.names)
      /\ Names(ordered) = Names(rt.names)
      /\ \A p : NamesOnce(rt.names, p) => NamesOnce(ordered, p)
  <2> DEFINE old == rt.names
  <2>1. /\ old \in Seq(Providers) /\ counter \in Nat
        /\ ordered = OrderProviderNames(old, rt.strategy, counter)
    BY <1>3
  <2> HIDE DEF ordered, rt, old
  <2>2. /\ ordered \in Seq(Providers) /\ Len(ordered) = Len(old)
        /\ Names(ordered) = Names(old)
        /\ \A x : NamesOnce(old, x) => NamesOnce(ordered, x)
    BY <2>1, RotationIs
  <2> QED
    BY <2>2 DEF old
<1> HIDE DEF ordered, rt
<1>5. ordered # <<>> /\ Head(ordered) \in Providers
  BY <1>3, <1>4
<1>6. TypeOK'
  BY <1>1, <1>2, <1>3, <1>4, <1>5 DEF TypeOK, PCs, judging
<1>7. ASSUME NEW q \in Requests, q # r PROVE OrderOf(q)' /\ TurnOf(q)' /\ CoverOf(q)' /\ PlaceOf(q)'
  <2>1. UNCHANGED <<route[q], names[q], cands[q], plan[q], spent[q], pc[q], attempt[q]>>
    BY <1>1, <1>2, <1>7 DEF TypeOK
  <2> QED
    BY <1>1, <2>1, OthersStay
<1>8. /\ names'[r] = ordered /\ cands'[r] = <<>> /\ plan'[r] = <<>> /\ spent'[r] = {} /\ pc'[r] = "plan"
      /\ route'[r] = rt /\ attempt'[r] = 1
  BY <1>1, <1>2 DEF TypeOK, PlaceOf, rt
<1>9. OrderOf(r)'
  BY <1>8, EmptyIs DEF OrderOf
<1>10. TurnOf(r)'
  BY <1>4, <1>8, EmptyIs DEF TurnOf
<1>11. CoverOf(r)'
  BY <1>4, <1>8 DEF CoverOf
<1>12. PlaceOf(r)'
  BY <1>8 DEF PlaceOf, InLoop
<1> QED
  BY <1>6, <1>7, <1>9, <1>10, <1>11, <1>12 DEF PlanInv

\* The next provider of a list that names it once is not named by the rest.
LEMMA TailNamesOnce ==
  ASSUME NEW S, NEW s \in Seq(S), s # <<>>, NEW x, NamesOnce(s, x)
  PROVE  NamesOnce(Tail(s), x) /\ (x = Head(s) => x \notin Names(Tail(s)))
<1>1. /\ Len(Tail(s)) \in Nat /\ 1 \in 1..Len(s) /\ s[1] = Head(s)
      /\ \A i \in 1..Len(Tail(s)) : i + 1 \in 1..Len(s) /\ Tail(s)[i] = s[i + 1]
  OBVIOUS
<1> DEFINE t == Tail(s)
<1> HIDE DEF t
<1>2. \A i, j \in 1..Len(s) : s[i] = x /\ s[j] = x => i = j
  BY DEF NamesOnce
<1>3. \A i, j \in 1..Len(t) : t[i] = x /\ t[j] = x => i = j
  <2> SUFFICES ASSUME NEW i \in 1..Len(t), NEW j \in 1..Len(t), t[i] = x, t[j] = x PROVE i = j
    OBVIOUS
  <2>1. i + 1 = j + 1
    BY <1>1, <1>2 DEF t
  <2>2. i \in Int /\ j \in Int
    BY <1>1 DEF t
  <2> QED
    BY <2>1, <2>2
<1>4. ASSUME x = Head(s), NEW i \in 1..Len(t), t[i] = x PROVE FALSE
  <2>1. 1 = i + 1 /\ i >= 1
    BY <1>1, <1>2, <1>4 DEF t
  <2> QED
    BY <1>1, <2>1 DEF t
<1>5. NamesOnce(t, x)
  BY ONLY <1>3 DEF NamesOnce
<1>6. x = Head(s) => x \notin Names(t)
  BY <1>4 DEF Names
<1> QED
  BY <1>5, <1>6 DEF t

LEMMA PlanProviderKeeps ==
  ASSUME PlanInv, NEW r \in Requests, PlanProvider(r)
  PROVE  PlanInv'
<1> DEFINE p == Head(names[r])
           rest == Tail(names[r])
           new == cands'[r]
<1>1. /\ pc[r] = "plan" /\ cands[r] = <<>> /\ names[r] # <<>>
      /\ names' = [names EXCEPT ![r] = rest]
      /\ UNCHANGED <<revoked, counter, pc, route, plan, attempt, judging, answer, sends, started,
                     signIns>>
  BY DEF PlanProvider
<1>2. TypeOK /\ OrderOf(r) /\ TurnOf(r) /\ CoverOf(r) /\ PlaceOf(r)
  BY DEF PlanInv
<1>3. /\ names[r] \in Seq(Providers) /\ plan[r] \in Seq(Seats) /\ cands[r] \in Seq(Seats)
      /\ spent[r] \subseteq Seats
  BY <1>2 DEF TypeOK
<1>4. /\ p \in Providers /\ rest \in Seq(Providers) /\ Names(names[r]) = {p} \cup Names(rest)
      /\ names'[r] = rest
  BY <1>1, <1>2, <1>3, TailIs DEF TypeOK
<1>5. \A q : NamesOnce(names[r], q) => NamesOnce(rest, q) /\ (q = p => q \notin Names(rest))
  BY <1>1, <1>3, TailNamesOnce
<1>6. \A x \in Names(plan[r]) : x \in Seats
  BY <1>3 DEF Names
<1>7. Names(cands[r]) = {}
  BY <1>1, EmptyIs
<1>8. PICK past \in SUBSET Accounts :
        /\ spent' = [spent EXCEPT ![r] = spent[r] \cup [p : {p}, a : past]]
        /\ cands' = [cands EXCEPT ![r] = new]
        /\ new \in Seq(Seats) /\ \A x \in Names(new) : x.p = p
        /\ p \in Configured => \A a \in Names(Listed[p]) \ {NoName} : [p |-> p, a |-> a] \in Names(new)
        /\ \A i, j \in 1..Len(new) : i < j =>
             LET a == new[i].a  b == new[j].a IN
             IF a \in past <=> b \in past THEN UserPrefers(p, a, b) ELSE b \in past
  <2>1. CASE p \notin Configured /\ UNCHANGED <<cands, spent>>
    <3>1. [p : {p}, a : {}] = {}
      OBVIOUS
    <3>2. /\ spent' = [spent EXCEPT ![r] = spent[r] \cup [p : {p}, a : {}]]
          /\ cands' = [cands EXCEPT ![r] = new] /\ new = <<>>
      BY <1>1, <1>2, <2>1, <3>1 DEF TypeOK
    <3>3. new \in Seq(Seats) /\ Names(new) = {} /\ Len(new) = 0
      BY <3>2, EmptyIs
    <3>4. (\A x \in Names(new) : x.p = p) /\ \A i, j \in 1..Len(new) : ~(i < j)
      BY <3>3
    <3>5. {} \in SUBSET Accounts
      OBVIOUS
    <3> HIDE DEF p, new
    <3> QED
      BY <2>1, <3>2, <3>3, <3>4, <3>5
  <2>2. CASE p \in Configured /\ \E past \in SUBSET Exhaustible(p) :
               /\ cands' = [cands EXCEPT ![r] = SeatsOf(p, past)]
               /\ spent' = [spent EXCEPT ![r] = spent[r] \cup [p : {p}, a : past]]
    <3>1. PICK past \in SUBSET Exhaustible(p) :
            /\ cands' = [cands EXCEPT ![r] = SeatsOf(p, past)]
            /\ spent' = [spent EXCEPT ![r] = spent[r] \cup [p : {p}, a : past]]
      BY <2>2
    <3>2. new = SeatsOf(p, past)
      BY <1>2, <3>1 DEF TypeOK
    <3> HIDE DEF p, new
    <3>3. /\ past \subseteq Accounts
          /\ new \in Seq(Seats) /\ \A x \in Names(new) : x.p = p
          /\ \A a \in Names(Listed[p]) \ {NoName} : [p |-> p, a |-> a] \in Names(new)
          /\ \A i, j \in 1..Len(new) : i < j =>
               LET a == new[i].a  b == new[j].a IN
               IF a \in past <=> b \in past THEN UserPrefers(p, a, b) ELSE b \in past
      BY <1>4, <3>2, SeatsOfIs
    <3> QED
      BY <3>1, <3>2, <3>3
  <2> QED
    BY <2>1, <2>2 DEF PlanProvider
<1>9. spent'[r] = spent[r] \cup [p : {p}, a : past] /\ \A x \in [p : {p}, a : past] : x \in Seats /\ x.p = p
  BY <1>2, <1>4, <1>8 DEF TypeOK, Seats
<1>10. TypeOK'
  BY <1>1, <1>2, <1>4, <1>8, <1>9 DEF TypeOK, judging
<1>11. ASSUME NEW q \in Requests, q # r PROVE OrderOf(q)' /\ TurnOf(q)' /\ CoverOf(q)' /\ PlaceOf(q)'
  <2>1. UNCHANGED <<route[q], names[q], cands[q], plan[q], spent[q], pc[q], attempt[q]>>
    BY <1>1, <1>2, <1>8, <1>11 DEF TypeOK
  <2> QED
    BY <1>1, <2>1, OthersStay
<1>12. UNCHANGED <<route[r], plan[r], pc[r], attempt[r], signIns, revoked>>
  BY <1>1
<1>13. ASSUME NamesOnce(route[r].names, p)
       PROVE  \A x \in Names(plan[r]) \cup spent[r] : x.p # p
  BY <1>2, <1>4, <1>13 DEF TurnOf
<1> HIDE DEF p, rest, new
<1>14. OrderOf(r)'
  <2>1. \A x, y \in Seats : (x.p = y.p /\ NamesOnce(route[r].names, x.p) => Before(x, y, spent'[r]))
                            => <<x, y>> \in BeforeIn(r)'
    BY <1>12 DEF BeforeIn
  <2>2. ASSUME NEW x \in Names(plan[r]), NEW y \in Names(plan[r]), <<x, y>> \in BeforeIn(r)
        PROVE  <<x, y>> \in BeforeIn(r)'
    <3>1. x \in Seats /\ y \in Seats
      BY <1>6
    <3> SUFFICES ASSUME x.p = y.p, NamesOnce(route[r].names, x.p) PROVE Before(x, y, spent'[r])
      BY <2>1, <3>1
    <3>2. Before(x, y, spent[r])
      BY <2>2 DEF BeforeIn
    <3>3. x.p # p /\ y.p # p
      BY <1>13
    <3>4. (x \in spent'[r] <=> x \in spent[r]) /\ (y \in spent'[r] <=> y \in spent[r])
      BY <1>9, <3>3
    <3> QED
      BY <3>2, <3>4 DEF Before
  <2>3. Sorted(plan[r], BeforeIn(r))
    BY <1>2 DEF OrderOf
  <2>4. Sorted(plan'[r], BeforeIn(r)')
    <3>1. \A i \in 1..Len(plan[r]) : plan[r][i] \in Names(plan[r])
      BY DEF Names
    <3> QED
      BY <1>12, <2>2, <2>3, <3>1 DEF Sorted
  <2>5. Sorted(new, BeforeIn(r)')
    <3> SUFFICES ASSUME NEW i \in 1..Len(new), NEW j \in 1..Len(new), i < j
                 PROVE  <<new[i], new[j]>> \in BeforeIn(r)'
      BY DEF Sorted
    <3> DEFINE x == new[i]
               y == new[j]
    <3>1. x \in Seats /\ y \in Seats /\ x.p = p /\ y.p = p
      BY <1>8 DEF Names
    <3>2. IF x.a \in past <=> y.a \in past THEN UserPrefers(p, x.a, y.a) ELSE y.a \in past
      BY <1>8
    <3> HIDE DEF x, y
    <3> SUFFICES ASSUME NamesOnce(route[r].names, p) PROVE Before(x, y, spent'[r])
      BY <2>1, <3>1 DEF x, y
    <3>3. x \notin spent[r] /\ y \notin spent[r]
      BY <1>13, <3>1
    <3>4. x = [p |-> p, a |-> x.a] /\ y = [p |-> p, a |-> y.a]
      BY <3>1 DEF Seats
    <3>5. (x \in spent'[r] <=> x.a \in past) /\ (y \in spent'[r] <=> y.a \in past)
      BY <1>9, <3>3, <3>4
    <3> QED
      BY <3>1, <3>2, <3>5 DEF Before
  <2>6. ASSUME NEW x \in Names(plan[r]), NEW y \in Names(new) PROVE <<x, y>> \in BeforeIn(r)'
    <3>1. x \in Seats /\ y \in Seats /\ y.p = p
      BY <1>6, <1>8 DEF Names
    <3> SUFFICES ASSUME x.p = y.p, NamesOnce(route[r].names, x.p) PROVE FALSE
      BY <2>1, <3>1
    <3> QED
      BY <1>13, <3>1
  <2> QED
    BY <1>12, <2>4, <2>5, <2>6 DEF OrderOf, new
<1>15. TurnOf(r)'
  <2> SUFFICES ASSUME NEW q \in Providers, NamesOnce(route[r].names, q)
               PROVE  /\ NamesOnce(rest, q)
                      /\ q \in Names(rest) =>
                           \A x \in Names(plan[r]) \cup Names(new) \cup spent'[r] : x.p # q
    BY <1>4, <1>12 DEF TurnOf, new
  <2>1. NamesOnce(names[r], q) /\ (q \in Names(names[r]) => \A x \in Names(plan[r]) \cup spent[r] : x.p # q)
    BY <1>2 DEF TurnOf
  <2>2. NamesOnce(rest, q) /\ (q = p => q \notin Names(rest))
    BY <1>5, <2>1
  <2>3. ASSUME q \in Names(rest), NEW x \in Names(plan[r]) \cup Names(new) \cup spent'[r]
        PROVE  x.p # q
    <3>1. q # p /\ q \in Names(names[r])
      BY <1>4, <2>2, <2>3
    <3>2. x \in Names(plan[r]) \cup spent[r] \/ x.p = p
      BY <1>8, <1>9, <2>3
    <3> QED
      BY <2>1, <3>1, <3>2
  <2> QED
    BY <2>2, <2>3
<1>16. CoverOf(r)'
  <2> SUFFICES ASSUME signIns = 0,
                      NEW q \in (Names(route[r].names) \cap Configured) \ Names(rest),
                      NEW a \in Names(Listed[q]) \ (revoked \cup {NoName})
               PROVE  [p |-> q, a |-> a] \in Names(plan[r]) \cup Names(new)
    BY <1>4, <1>12 DEF CoverOf, new
  <2>1. CASE q = p
    BY <1>8, <2>1
  <2>2. CASE q # p
    <3>1. q \notin Names(names[r])
      BY <1>4, <2>2
    <3> QED
      BY <1>1, <1>2, <1>7, <3>1 DEF CoverOf
  <2> QED
    BY <2>1, <2>2
<1>17. PlaceOf(r)'
  BY <1>1, <1>2 DEF PlaceOf, InLoop
<1> QED
  BY <1>10, <1>11, <1>14, <1>15, <1>16, <1>17 DEF PlanInv

LEMMA PlanSeatKeeps ==
  ASSUME PlanInv, NEW r \in Requests, PlanSeat(r)
  PROVE  PlanInv'
<1> DEFINE seat == Head(cands[r])
           rest == Tail(cands[r])
<1>1. /\ pc[r] = "plan" /\ cands[r] # <<>>
      /\ cands' = [cands EXCEPT ![r] = rest]
      /\ UNCHANGED <<revoked, counter, route, names, retried, spent, started, signIns>>
  BY DEF PlanSeat
<1>2. TypeOK /\ OrderOf(r) /\ TurnOf(r) /\ CoverOf(r) /\ PlaceOf(r)
  BY DEF PlanInv
<1>3. names[r] \in Seq(Providers) /\ plan[r] \in Seq(Seats) /\ cands[r] \in Seq(Seats)
  BY <1>2 DEF TypeOK
<1>4. /\ seat \in Seats /\ rest \in Seq(Seats) /\ Names(cands[r]) = {seat} \cup Names(rest)
      /\ Sorted(rest, BeforeIn(r)) /\ \A y \in Names(rest) : <<seat, y>> \in BeforeIn(r)
  BY <1>1, <1>2, <1>3, TailIs DEF OrderOf
<1>5. /\ Append(plan[r], seat) \in Seq(Seats)
      /\ Names(Append(plan[r], seat)) = Names(plan[r]) \cup {seat}
      /\ Sorted(Append(plan[r], seat), BeforeIn(r))
  BY <1>2, <1>3, <1>4, AppendIs DEF OrderOf
<1>6. \/ seat.a \in revoked /\ plan' = plan
         /\ UNCHANGED <<pc, answer, sends, status, words, attempt>>
      \/ plan' = [plan EXCEPT ![r] = Append(plan[r], seat)]
         /\ UNCHANGED <<pc, answer, sends, status, words, attempt>>
      \/ Finish(r, "error") /\ plan' = plan
  BY DEF PlanSeat
<1> HIDE DEF seat, rest
<1>7. /\ pc' \in [Requests -> PCs] /\ attempt' \in [Requests -> Nat] /\ sends' \in [Requests -> Nat]
      /\ status' \in [Requests -> {401, 403}] /\ words' \in [Requests -> Words]
      /\ answer' \in [Requests -> Answers] /\ attempt'[r] = attempt[r]
      /\ \A q \in Requests \ {r} : UNCHANGED <<pc[q], attempt[q], sends[q]>>
  <2>1. CASE UNCHANGED <<pc, answer, sends, status, words, attempt>>
    BY <1>2, <2>1 DEF TypeOK
  <2>2. CASE Finish(r, "error")
    BY <1>2, <2>2, FinishIs DEF Answers
  <2> QED
    BY <1>6, <2>1, <2>2
<1>8. \/ /\ plan'[r] = plan[r]
         /\ (seat.a \in revoked /\ pc'[r] = "plan") \/ pc'[r] = "done"
      \/ plan'[r] = Append(plan[r], seat) /\ pc'[r] = "plan"
  <2>1. Finish(r, "error") => pc'[r] = "done"
    BY <1>2, FinishIs DEF Answers
  <2> QED
    BY <1>1, <1>2, <1>6, <2>1 DEF TypeOK
<1>9. /\ plan' \in [Requests -> Seq(Seats)] /\ cands' \in [Requests -> Seq(Seats)]
      /\ cands'[r] = rest
      /\ \A q \in Requests \ {r} : UNCHANGED <<plan[q], cands[q]>>
  <2>1. plan \in [Requests -> Seq(Seats)] /\ cands \in [Requests -> Seq(Seats)]
    BY <1>2 DEF TypeOK
  <2>2. /\ cands' \in [Requests -> Seq(Seats)] /\ cands'[r] = rest
        /\ \A q \in Requests \ {r} : cands'[q] = cands[q]
    BY <1>1, <1>4, <2>1
  <2>3. CASE plan' = plan
    BY <2>1, <2>2, <2>3
  <2>4. CASE plan' = [plan EXCEPT ![r] = Append(plan[r], seat)]
    <3> DEFINE longer == Append(plan[r], seat)
    <3>1. longer \in Seq(Seats) /\ plan' = [plan EXCEPT ![r] = longer]
      BY <1>5, <2>4
    <3> HIDE DEF longer
    <3> QED
      BY <2>1, <2>2, <3>1
  <2> QED
    BY <1>6, <2>3, <2>4
<1>10. TypeOK'
  BY <1>1, <1>2, <1>7, <1>9 DEF TypeOK
<1>11. ASSUME NEW q \in Requests, q # r PROVE OrderOf(q)' /\ TurnOf(q)' /\ CoverOf(q)' /\ PlaceOf(q)'
  <2>1. UNCHANGED <<route[q], names[q], cands[q], plan[q], spent[q], pc[q], attempt[q]>>
    BY <1>1, <1>7, <1>9, <1>11
  <2> QED
    BY <1>1, <2>1, OthersStay
<1>12. BeforeIn(r)' = BeforeIn(r)
  BY <1>1 DEF BeforeIn, Before
<1>13. /\ \A x \in Names(plan[r]), y \in Names(cands[r]) : <<x, y>> \in BeforeIn(r)
       /\ Sorted(plan[r], BeforeIn(r))
  BY <1>2 DEF OrderOf
<1>14. OrderOf(r)'
  <2> DEFINE longer == Append(plan[r], seat)
  <2>1. /\ Names(longer) = Names(plan[r]) \cup {seat} /\ Sorted(longer, BeforeIn(r))
        /\ plan'[r] = plan[r] \/ plan'[r] = longer
    BY <1>5, <1>8
  <2> HIDE DEF longer
  <2>2. Names(rest) \subseteq Names(cands[r])
    BY <1>4
  <2>3. Sorted(plan'[r], BeforeIn(r))
    BY <1>13, <2>1
  <2>4. \A x \in Names(plan'[r]), y \in Names(rest) : <<x, y>> \in BeforeIn(r)
    BY <1>4, <1>13, <2>1, <2>2
  <2> QED
    BY <1>4, <1>9, <1>12, <2>3, <2>4 DEF OrderOf
<1>15. /\ Names(plan'[r]) \cup Names(rest) \subseteq Names(plan[r]) \cup Names(cands[r])
       /\ \A x \in Names(plan[r]) \cup Names(cands[r]) :
            x \in Names(plan'[r]) \cup Names(rest) \/ x.a \in revoked \/ pc'[r] = "done"
  BY <1>4, <1>5, <1>8
<1>16. TurnOf(r)'
  BY <1>1, <1>2, <1>9, <1>15 DEF TurnOf
<1>17. CoverOf(r)'
  <2> SUFFICES ASSUME pc'[r] # "done", signIns = 0,
                      NEW q \in (Names(route[r].names) \cap Configured) \ Names(names[r]),
                      NEW a \in Names(Listed[q]) \ (revoked \cup {NoName})
               PROVE  [p |-> q, a |-> a] \in Names(plan'[r]) \cup Names(rest)
    BY <1>1, <1>9 DEF CoverOf
  <2>1. [p |-> q, a |-> a] \in Names(plan[r]) \cup Names(cands[r])
    BY <1>1, <1>2 DEF CoverOf
  <2>2. [p |-> q, a |-> a].a \notin revoked
    OBVIOUS
  <2> QED
    BY <1>15, <2>1, <2>2
<1>18. PlaceOf(r)'
  BY <1>1, <1>2, <1>7, <1>8 DEF PlaceOf, InLoop
<1> QED
  BY <1>10, <1>11, <1>14, <1>16, <1>17, <1>18 DEF PlanInv

\* A sign-in brings a revoked account back, which no plan has to have.
LEMMA SignInKeeps ==
  ASSUME PlanInv, NEW a \in Accounts, SignIn(a)
  PROVE  PlanInv'
<1>1. /\ revoked' \subseteq revoked /\ signIns' = signIns + 1
      /\ UNCHANGED <<counter, pc, planning, attempt, judging, answer, history>>
  BY DEF SignIn
<1>2. TypeOK /\ signIns \in Nat
  BY DEF PlanInv, TypeOK
<1>3. TypeOK'
  BY <1>1, <1>2 DEF TypeOK, planning, judging, history
<1>4. ASSUME NEW q \in Requests PROVE OrderOf(q)' /\ TurnOf(q)' /\ CoverOf(q)' /\ PlaceOf(q)'
  <2>1. UNCHANGED <<route[q], names[q], cands[q], plan[q], spent[q], pc[q], attempt[q]>>
    BY <1>1 DEF planning, history
  <2> QED
    BY <1>1, <1>2, <2>1, OthersStay
<1> QED
  BY <1>3, <1>4 DEF PlanInv

LEMMA PlanStutters ==
  ASSUME PlanInv, UNCHANGED vars
  PROVE  PlanInv'
<1>1. TypeOK'
  BY DEF PlanInv, TypeOK, vars, planning, judging, history
<1>2. ASSUME NEW q \in Requests PROVE OrderOf(q)' /\ TurnOf(q)' /\ CoverOf(q)' /\ PlaceOf(q)'
  BY OthersStay DEF vars, planning, history
<1> QED
  BY <1>1, <1>2 DEF PlanInv

\* The steps there are, as the lemmas above take them.
LEMMA StepIsOne ==
  ASSUME PlanInv, Next
  PROVE  \/ \E r \in Requests : Arrive(r) \/ PlanProvider(r) \/ PlanSeat(r) \/ Moves(r)
         \/ \E a \in Accounts : SignIn(a)
  BY LoopMoves DEF Next, Step, LoopActions

LEMMA PlanInductive == PlanInv /\ [Next]_vars => PlanInv'
  BY StepIsOne, ArriveKeeps, PlanProviderKeeps, PlanSeatKeeps, MovesKeeps, SignInKeeps, PlanStutters

LEMMA PlanAlways == Spec => []PlanInv
  BY PlanInitially, PlanInductive, PTL DEF Spec

LEMMA PlanGivesSeats == PlanInv => PlanIsTheUsers
<1> SUFFICES ASSUME PlanInv PROVE PlanIsTheUsers
  OBVIOUS
<1>1. NoSeatLost
  <2> SUFFICES ASSUME NEW r \in Requests, InLoop(r), signIns = 0,
                      NEW p \in Names(route[r].names) \cap Configured,
                      NEW a \in Names(Listed[p]) \ (revoked \cup {NoName})
               PROVE  [p |-> p, a |-> a] \in Names(plan[r])
    BY DEF NoSeatLost, InLoop
  <2>1. names[r] = <<>> /\ cands[r] = <<>> /\ CoverOf(r)
    BY DEF PlanInv, PlaceOf
  <2>2. Names(names[r]) = {} /\ Names(cands[r]) = {}
    BY <2>1, EmptyIs
  <2> QED
    BY <2>1, <2>2 DEF CoverOf, InLoop
<1>2. SeatsInUserOrder
  <2> SUFFICES ASSUME NEW r \in Requests,
                      NEW i \in 1..Len(plan[r]), NEW j \in 1..Len(plan[r]), i < j,
                      plan[r][i].p = plan[r][j].p, NamesOnce(route[r].names, plan[r][i].p)
               PROVE  Before(plan[r][i], plan[r][j], spent[r])
    BY DEF SeatsInUserOrder
  <2>1. <<plan[r][i], plan[r][j]>> \in BeforeIn(r)
    BY DEF PlanInv, OrderOf, Sorted
  <2> DEFINE x == plan[r][i]
             y == plan[r][j]
  <2>2. <<x, y>> \in BeforeIn(r) /\ x.p = y.p /\ NamesOnce(route[r].names, x.p)
    BY <2>1
  <2> HIDE DEF x, y
  <2>3. Before(x, y, spent[r])
    BY <2>2 DEF BeforeIn
  <2> QED
    BY <2>3 DEF x, y
<1> QED
  BY <1>1, <1>2 DEF PlanIsTheUsers, PlanInv

(***************************************************************************)
(* Whatever routes, listings, saved orders and allowances there are, a     *)
(* plan has every seat of its route's providers, but the revoked, in the   *)
(* user's order with those past their line last (mod.rs 325-432,           *)
(* provider_pool.rs 67-107).                                               *)
(***************************************************************************)
THEOREM PlanAlwaysTheUsers == Spec => []PlanIsTheUsers
  BY PlanAlways, PlanGivesSeats, PTL

-----------------------------------------------------------------------------
(***************************************************************************)
(* Moving on.                                                              *)
(***************************************************************************)

\* What StepsCloser says of one request.
CloserOf(r) ==
       \/ UNCHANGED <<pc[r], names[r], cands[r], plan[r], attempt[r], sends[r]>>
       \/ pc[r] # "done" /\ pc'[r] = "done"
       \/ /\ pc[r] = "plan"
          /\ \/ InLoop(r)'
             \/ Len(names'[r]) < Len(names[r])
             \/ names'[r] = names[r] /\ Len(cands'[r]) < Len(cands[r])
       \/ /\ InLoop(r) /\ plan'[r] = plan[r]
          /\ \/ attempt[r] < attempt'[r] /\ attempt'[r] <= Len(plan[r]) + 1
             \/ attempt'[r] = attempt[r] /\ sends[r] < sends'[r]
             \/ UNCHANGED <<attempt[r], sends[r]>> /\ Ahead(r)' < Ahead(r)

LEMMA LoopStepsCloser ==
  ASSUME PlanInv, NEW r \in Requests, Moves(r)
  PROVE  CloserOf(r)
<1>1. LoopStep(r) /\ plan'[r] = plan[r]
  BY DEF Moves, planning
<1>2. attempt[r] \in Nat /\ Len(plan[r]) \in Nat
  BY DEF PlanInv, TypeOK
<1>3. CASE pc'[r] = "done"
  BY <1>1, <1>3 DEF LoopStep, CloserOf
<1>4. CASE pc[r] = "plan" /\ pc'[r] = "build"
  BY <1>4 DEF CloserOf, InLoop
<1>5. CASE InLoop(r) /\ attempt[r] <= Len(plan[r]) /\ attempt'[r] = attempt[r] + 1
  BY <1>1, <1>2, <1>5 DEF CloserOf
<1>6. CASE InLoop(r) /\ attempt'[r] = attempt[r] /\ sends[r] < sends'[r]
  BY <1>1, <1>6 DEF CloserOf
<1>7. CASE /\ InLoop(r) /\ attempt'[r] = attempt[r] /\ sends'[r] = sends[r]
           /\ \/ pc[r] = "build" /\ pc'[r] = "send"
              \/ pc[r] = "refresh" /\ pc'[r] \in {"build", "judge"}
  <2>1. Ahead(r)' < Ahead(r)
    BY <1>7 DEF Ahead
  <2> QED
    BY <1>1, <1>7, <2>1 DEF CloserOf
<1> QED
  BY <1>1, <1>3, <1>4, <1>5, <1>6, <1>7 DEF LoopStep

LEMMA PlanProviderCloser ==
  ASSUME PlanInv, NEW r \in Requests, PlanProvider(r)
  PROVE  CloserOf(r)
<1>1. /\ pc[r] = "plan" /\ names[r] \in Seq(Providers) /\ names[r] # <<>>
      /\ names'[r] = Tail(names[r])
  BY DEF PlanInv, TypeOK, PlanProvider
<1>2. Len(names'[r]) < Len(names[r])
  BY <1>1, TailIs
<1> QED
  BY <1>1, <1>2 DEF CloserOf

LEMMA PlanSeatCloser ==
  ASSUME PlanInv, NEW r \in Requests, PlanSeat(r)
  PROVE  CloserOf(r)
<1>1. /\ pc[r] = "plan" /\ cands[r] \in Seq(Seats) /\ cands[r] # <<>>
      /\ cands'[r] = Tail(cands[r]) /\ names'[r] = names[r]
  BY DEF PlanInv, TypeOK, PlanSeat
<1>2. Len(cands'[r]) < Len(cands[r])
  BY <1>1, TailIs
<1> QED
  BY <1>1, <1>2 DEF CloserOf

LEMMA NextIsCloser == PlanInv /\ Next => StepsCloser
<1> SUFFICES ASSUME PlanInv, Next, NEW q \in Requests, pc[q] # "idle" PROVE CloserOf(q)
  BY DEF StepsCloser, CloserOf
<1>1. TypeOK
  BY DEF PlanInv
<1>2. ASSUME NEW r \in Requests, Arrive(r) PROVE CloserOf(q)
  BY <1>1, <1>2 DEF Arrive, Goto, TypeOK, CloserOf
<1>3. ASSUME NEW r \in Requests, PlanProvider(r) PROVE CloserOf(q)
  <2>1. CASE q = r
    BY <1>3, <2>1, PlanProviderCloser
  <2>2. CASE q # r
    BY <1>1, <1>3, <2>2 DEF PlanProvider, TypeOK, CloserOf
  <2> QED
    BY <2>1, <2>2
<1>4. ASSUME NEW r \in Requests, PlanSeat(r) PROVE CloserOf(q)
  <2>1. CASE q = r
    BY <1>4, <2>1, PlanSeatCloser
  <2>2. CASE q # r
    BY <1>1, <1>4, <2>2 DEF PlanSeat, Finish, Goto, Forget, TypeOK, CloserOf
  <2> QED
    BY <2>1, <2>2
<1>5. ASSUME NEW r \in Requests, Moves(r) PROVE CloserOf(q)
  <2>1. CASE q = r
    BY <1>5, <2>1, LoopStepsCloser
  <2>2. CASE q # r
    BY <1>5, <2>2 DEF Moves, planning, CloserOf
  <2> QED
    BY <2>1, <2>2
<1>6. ASSUME NEW a \in Accounts, SignIn(a) PROVE CloserOf(q)
  BY <1>6 DEF SignIn, planning, history, CloserOf
<1> QED
  BY <1>2, <1>3, <1>4, <1>5, <1>6, StepIsOne

(***************************************************************************)
(* Every step answers its request or brings it closer to its answer, and   *)
(* no other request's step sets it back, however many there are: nothing   *)
(* makes process_request loop for ever (mod.rs 470-510, failover.rs 58-84).*)
(***************************************************************************)
THEOREM StepsAlwaysCloser == Spec => [][StepsCloser]_vars
<1>1. PlanInv /\ [Next]_vars => [StepsCloser]_vars
  BY NextIsCloser
<1> QED
  BY <1>1, PlanAlways, PTL DEF Spec

\* Only one route rotates, and it names no provider twice.
OneRotates ==
  /\ \A rt, other \in Routes :
       Rotates(rt.names, rt.strategy) /\ Rotates(other.names, other.strategy) => rt = other
  /\ \A rt \in Routes : Rotates(rt.names, rt.strategy) => \A p \in Providers : NamesOnce(rt.names, p)

\* An arriving request of the rotating route starts where the counter says.
LEMMA ArrivesAt ==
  ASSUME PlanInv, OneRotates, StartInv, NEW r \in Requests, Arrive(r),
         NEW rt \in Routes, Rotates(rt.names, rt.strategy)
  PROVE  \/ /\ route[r] = rt /\ counter' = counter + 1 /\ counter \in Nat
            /\ started'[rt] = rt.names[(counter % Len(rt.names)) + 1]
         \/ route[r] # rt /\ counter' = counter /\ started'[rt] = started[rt]
<1>1. /\ route[r] \in Routes /\ counter \in Nat /\ started \in [Routes -> Providers \cup {NoName}]
  BY DEF PlanInv, TypeOK
<1>2. rt.names \in Seq(Providers)
  BY FailoverAssumption
<1>3. CASE route[r] = rt
  <2> DEFINE ordered == OrderProviderNames(rt.names, rt.strategy, counter)
  <2>1. counter' = counter + 1 /\ started'[rt] = Head(ordered)
    BY <1>1, <1>3 DEF Arrive
  <2> HIDE DEF ordered
  <2>2. /\ ordered \in Seq(Providers) /\ Len(ordered) = Len(rt.names)
        /\ ordered[1] = rt.names[(counter % Len(rt.names)) + 1]
    BY <1>1, <1>2, RotationIs DEF ordered
  <2>3. Head(ordered) = ordered[1]
    BY <1>2, <2>2 DEF Rotates
  <2> QED
    BY <1>1, <1>3, <2>1, <2>2, <2>3
<1>4. CASE route[r] # rt
  <2>1. ~Rotates(route[r].names, route[r].strategy)
    BY <1>1, <1>4 DEF OneRotates
  <2>2. counter' = counter /\ started'[rt] = started[rt]
    BY <1>1, <1>4, <2>1 DEF Arrive
  <2> QED
    BY <1>4, <2>2
<1> QED
  BY <1>3, <1>4

LEMMA StartInductive ==
  ASSUME PlanInv, OneRotates, StartInv, [Next]_vars
  PROVE  StartInv'
<1>1. CASE \E r \in Requests : Arrive(r)
  <2>1. PICK r \in Requests : Arrive(r)
    BY <1>1
  <2> SUFFICES ASSUME NEW rt \in Routes, Rotates(rt.names, rt.strategy), started'[rt] # NoName
               PROVE  /\ counter' > 0
                      /\ started'[rt] = rt.names[((counter' - 1) % Len(rt.names)) + 1]
    BY DEF StartInv
  <2>2. CASE /\ counter' = counter + 1 /\ counter \in Nat
             /\ started'[rt] = rt.names[(counter % Len(rt.names)) + 1]
    <3>1. counter' > 0 /\ counter' - 1 = counter
      BY <2>2
    <3> QED
      BY <2>2, <3>1
  <2>3. CASE counter' = counter /\ started'[rt] = started[rt]
    BY <2>3 DEF StartInv
  <2> QED
    BY <2>1, <2>2, <2>3, ArrivesAt
<1>2. CASE UNCHANGED <<counter, started>>
  BY <1>2 DEF StartInv
<1>3. ASSUME NEW r \in Requests, PlanProvider(r) \/ PlanSeat(r) \/ Moves(r)
      PROVE  UNCHANGED <<counter, started>>
  BY <1>3 DEF PlanProvider, PlanSeat, Moves
<1>4. ASSUME NEW a \in Accounts, SignIn(a) PROVE UNCHANGED <<counter, started>>
  BY <1>4 DEF SignIn, history
<1>5. UNCHANGED vars => UNCHANGED <<counter, started>>
  BY DEF vars, history
<1> QED
  BY <1>1, <1>2, <1>3, <1>4, <1>5, StepIsOne

LEMMA NextRotates ==
  ASSUME PlanInv, OneRotates, StartInv, Next
  PROVE  StartRotates
<1> SUFFICES ASSUME NEW rt \in Routes, Rotates(rt.names, rt.strategy), started'[rt] # NoName,
                    NEW r \in Requests, route[r] = rt, pc[r] = "idle", pc'[r] = "plan"
             PROVE  started'[rt] # started[rt]
  BY DEF StartRotates
<1>1. /\ pc \in [Requests -> PCs] /\ rt.names \in Seq(Providers)
  BY FailoverAssumption DEF PlanInv, TypeOK
<1>2. Arrive(r)
  <2>1. ASSUME NEW q \in Requests, Arrive(q) PROVE q = r
    BY <1>1, <2>1 DEF Arrive, Goto
  <2>2. ASSUME NEW q \in Requests, PlanProvider(q) PROVE FALSE
    BY <2>2 DEF PlanProvider
  <2>3. ASSUME NEW q \in Requests, PlanSeat(q) PROVE FALSE
    BY <1>1, <2>3 DEF PlanSeat, Finish, Goto
  <2>4. ASSUME NEW q \in Requests, Moves(q) PROVE FALSE
    BY <2>4 DEF Moves, LoopStep
  <2>5. ASSUME NEW a \in Accounts, SignIn(a) PROVE FALSE
    BY <2>5 DEF SignIn
  <2> QED
    BY <2>1, <2>2, <2>3, <2>4, <2>5, StepIsOne
<1>3. counter \in Nat /\ started'[rt] = rt.names[(counter % Len(rt.names)) + 1]
  BY <1>2, ArrivesAt
<1>4. CASE started[rt] = NoName
  BY <1>4
<1>5. CASE started[rt] # NoName
  <2> DEFINE n == Len(rt.names)
             before == counter - 1
  <2>1. n \in Nat /\ n > 1
    BY <1>1 DEF Rotates
  <2>2. before \in Nat /\ before + 1 = counter /\ started[rt] = rt.names[(before % n) + 1]
    BY <1>3, <1>5 DEF StartInv
  <2> HIDE DEF n, before
  <2>3. counter % n # before % n
    BY <2>1, <2>2, RemainderMoves
  <2>4. (counter % n) + 1 \in 1..n /\ (before % n) + 1 \in 1..n
    BY <1>3, <2>1, <2>2
  <2>5. \A p \in Providers : NamesOnce(rt.names, p)
    BY DEF OneRotates
  <2>6. \A i, j \in 1..n : rt.names[i] = rt.names[j] => i = j
    BY <1>1, <2>5 DEF NamesOnce, n
  <2>7. (counter % n) \in Nat /\ (before % n) \in Nat
    BY <1>3, <2>1, <2>2
  <2>8. (counter % n) + 1 # (before % n) + 1
    BY <2>3, <2>7
  <2>9. rt.names[(counter % n) + 1] # rt.names[(before % n) + 1]
    BY <2>4, <2>6, <2>8
  <2> QED
    BY <1>3, <2>2, <2>9 DEF n
<1> QED
  BY <1>4, <1>5

(***************************************************************************)
(* Where only one route rotates, and names each provider once, requests    *)
(* and the route move on: with each of its requests the route starts with  *)
(* another provider, however many it has (route_strategy.rs 5-27,          *)
(* README.md 247).                                                         *)
(***************************************************************************)
THEOREM RequestsAlwaysMoveOn == ASSUME OneRotates PROVE Spec => RequestsMoveOn
<1>1. Init => PlanInv /\ StartInv
  BY PlanInitially
<1>2. PlanInv /\ StartInv /\ [Next]_vars => PlanInv' /\ StartInv'
  BY PlanInductive, StartInductive
<1>3. PlanInv /\ StartInv /\ [Next]_vars => [StepsCloser /\ StartRotates]_vars
  BY NextIsCloser, NextRotates
<1> QED
  BY <1>1, <1>2, <1>3, PTL DEF Spec, RequestsMoveOn
===============================================================================
