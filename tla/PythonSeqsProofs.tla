---------------------------- MODULE PythonSeqsProofs ----------------------------
(***************************************************************************)
(* What the list operations of PythonSeqs keep: a sort permutes the places *)
(* of a list and orders the keys, a comprehension keeps what it selects,   *)
(* and deduplication keeps the last of each key.  A finite set of numbers  *)
(* has a greatest, and a sum bounds what it sums up.                       *)
(***************************************************************************)
EXTENDS PythonSeqs, FiniteSetTheorems, WellFoundedInduction, TLAPS

(* Distinct ranks below the number of places are all taken.                *)
LEMMA RanksAreTaken ==
    ASSUME NEW rank, NEW n \in Nat, IsFiniteSet(DOMAIN rank), Cardinality(DOMAIN rank) = n,
           rank \in [DOMAIN rank -> 0..n - 1],
           \A i, j \in DOMAIN rank : rank[i] = rank[j] => i = j
    PROVE  /\ InOrder(rank) \in [1..n -> DOMAIN rank]
           /\ \A k \in 1..n : rank[InOrder(rank)[k]] = k - 1
           /\ \A i \in DOMAIN rank : rank[i] + 1 \in 1..n /\ InOrder(rank)[rank[i] + 1] = i
<1>1. IsFiniteSet(0..n - 1) /\ Cardinality(0..n - 1) = n
  BY FS_Interval
<1>2. rank \in Injection(DOMAIN rank, 0..n - 1)
  BY DEF Injection, IsInjective
<1>3. rank \in Surjection(DOMAIN rank, 0..n - 1)
  BY <1>1, <1>2, FS_Injection
<1>4. \A m \in 0..n - 1 : \E i \in DOMAIN rank : rank[i] = m
  BY <1>3 DEF Surjection
<1>5. \A k \in 1..n : \E i \in DOMAIN rank : rank[i] = k - 1
  BY <1>4
<1>6. \A k \in 1..n : InOrder(rank)[k] \in DOMAIN rank /\ rank[InOrder(rank)[k]] = k - 1
  BY <1>5 DEF InOrder
<1>7. ASSUME NEW i \in DOMAIN rank
      PROVE  rank[i] + 1 \in 1..n /\ InOrder(rank)[rank[i] + 1] = i
  <2>1. rank[i] + 1 \in 1..n /\ (rank[i] + 1) - 1 = rank[i]
    OBVIOUS
  <2> QED
    BY <1>6, <2>1
<1> QED
  BY <1>6, <1>7 DEF InOrder

(* Places ranked by how many are before them, for a strict total order.    *)
Rank(S, before) == [i \in S |-> Cardinality({j \in S : <<j, i>> \in before})]

StrictOrder(S, before) ==
    /\ \A i \in S : <<i, i>> \notin before
    /\ \A i, j, k \in S : <<i, j>> \in before /\ <<j, k>> \in before => <<i, k>> \in before
    /\ \A i, j \in S : i = j \/ <<i, j>> \in before \/ <<j, i>> \in before

LEMMA CountingRanks ==
    ASSUME NEW S, IsFiniteSet(S), NEW before, StrictOrder(S, before)
    PROVE  /\ Cardinality(S) \in Nat
           /\ Rank(S, before) \in [S -> 0..Cardinality(S) - 1]
           /\ \A i, j \in S : <<i, j>> \in before <=> Rank(S, before)[i] < Rank(S, before)[j]
           /\ \A i, j \in S : Rank(S, before)[i] = Rank(S, before)[j] => i = j
<1> DEFINE ahead(i) == {j \in S : <<j, i>> \in before}
           rank == Rank(S, before)
<1>1. Cardinality(S) \in Nat
  BY FS_CardinalityType
<1>2. ASSUME NEW i \in S
      PROVE  IsFiniteSet(ahead(i)) /\ Cardinality(ahead(i)) \in 0..Cardinality(S) - 1
  <2>1. ahead(i) \subseteq S /\ ahead(i) # S
    BY DEF StrictOrder
  <2> HIDE DEF ahead
  <2>2. IsFiniteSet(ahead(i)) /\ Cardinality(ahead(i)) <= Cardinality(S) /\ Cardinality(ahead(i)) # Cardinality(S)
    BY <2>1, FS_Subset
  <2>3. Cardinality(ahead(i)) \in Nat
    BY <2>2, FS_CardinalityType
  <2> QED
    BY <1>1, <2>2, <2>3
<1>3. ASSUME NEW i \in S, NEW j \in S, <<i, j>> \in before
      PROVE  Cardinality(ahead(i)) < Cardinality(ahead(j))
  <2>1. ahead(i) \subseteq ahead(j) /\ ahead(i) # ahead(j)
    BY <1>3 DEF StrictOrder
  <2> HIDE DEF ahead
  <2>2. Cardinality(ahead(i)) <= Cardinality(ahead(j)) /\ Cardinality(ahead(i)) # Cardinality(ahead(j))
    BY <1>2, <2>1, FS_Subset
  <2> QED
    BY <1>2, <2>2
<1>4. DOMAIN rank = S /\ rank = [i \in S |-> rank[i]] /\ \A i \in S : rank[i] = Cardinality(ahead(i))
  BY DEF Rank
<1> HIDE DEF ahead, rank
<1>5. \A i \in S : rank[i] \in 0..Cardinality(S) - 1
  BY <1>2, <1>4
<1>6. ASSUME NEW i \in S, NEW j \in S
      PROVE  (<<i, j>> \in before <=> rank[i] < rank[j]) /\ (rank[i] = rank[j] => i = j)
  <2>1. rank[i] \in Int /\ rank[j] \in Int
    BY <1>1, <1>5
  <2>2. <<i, j>> \in before => rank[i] < rank[j]
    BY <1>3, <1>4
  <2>3. <<j, i>> \in before => rank[j] < rank[i]
    BY <1>3, <1>4
  <2> QED
    BY <2>1, <2>2, <2>3 DEF StrictOrder
<1>7. rank \in [S -> 0..Cardinality(S) - 1]
  BY <1>4, <1>5
<1> QED
  BY <1>1, <1>6, <1>7 DEF rank

(* Enumerated by rank, each place comes once, behind those before it. *)
LEMMA Enumerated ==
    ASSUME NEW S, IsFiniteSet(S), NEW before, StrictOrder(S, before),
           NEW order, order = InOrder(Rank(S, before))
    PROVE  /\ Cardinality(S) \in Nat
           /\ order \in [1..Cardinality(S) -> S]
           /\ \A i \in S : \E k \in 1..Cardinality(S) : order[k] = i
           /\ \A k, l \in 1..Cardinality(S) : k < l => <<order[k], order[l]>> \in before
<1> DEFINE rank == Rank(S, before)
           n == Cardinality(S)
<1>1. /\ n \in Nat
      /\ rank \in [S -> 0..n - 1]
      /\ \A i, j \in S : <<i, j>> \in before <=> rank[i] < rank[j]
      /\ \A i, j \in S : rank[i] = rank[j] => i = j
  BY CountingRanks
<1>2. DOMAIN rank = S
  BY DEF Rank
<1> HIDE DEF rank, n
<1>3. IsFiniteSet(DOMAIN rank) /\ Cardinality(DOMAIN rank) = n /\ rank \in [DOMAIN rank -> 0..n - 1]
  BY <1>1, <1>2 DEF n
<1>4. /\ InOrder(rank) \in [1..n -> DOMAIN rank]
      /\ \A k \in 1..n : rank[InOrder(rank)[k]] = k - 1
      /\ \A i \in DOMAIN rank : rank[i] + 1 \in 1..n /\ InOrder(rank)[rank[i] + 1] = i
  BY <1>1, <1>2, <1>3, RanksAreTaken
<1>5. order = InOrder(rank)
  BY DEF rank
<1>6. order \in [1..n -> S] /\ \A i \in S : \E k \in 1..n : order[k] = i
  BY <1>2, <1>4, <1>5
<1>7. ASSUME NEW k \in 1..n, NEW l \in 1..n, k < l PROVE <<order[k], order[l]>> \in before
  <2>1. order[k] \in S /\ order[l] \in S /\ rank[order[k]] = k - 1 /\ rank[order[l]] = l - 1
    BY <1>4, <1>5, <1>6
  <2>2. rank[order[k]] < rank[order[l]]
    BY <1>7, <2>1
  <2> QED
    BY <1>1, <2>1, <2>2
<1> QED
  BY <1>1, <1>6, <1>7 DEF n

(* The places of a set of numbers in their order. *)
LEMMA AscendingPlaces ==
    ASSUME NEW I, I \subseteq Nat, IsFiniteSet(I)
    PROVE  /\ Cardinality(I) \in Nat
           /\ Ascending(I) \in [1..Cardinality(I) -> I]
           /\ ToSet(Ascending(I)) = I
           /\ \A k, l \in 1..Cardinality(I) : k < l => Ascending(I)[k] < Ascending(I)[l]
<1> DEFINE before == {p \in I \X I : p[1] < p[2]}
<1>1. \A i, j \in I : <<i, j>> \in before <=> i < j
  OBVIOUS
<1>2. \A i \in I : {j \in I : <<j, i>> \in before} = {j \in I : j < i}
  BY <1>1
<1>3. Ascending(I) = InOrder(Rank(I, before))
  BY <1>2 DEF Ascending, Rank
<1> HIDE DEF before
<1>4. \A i \in I : i \in Int
  OBVIOUS
<1>5. StrictOrder(I, before)
  BY <1>1, <1>4 DEF StrictOrder
<1> DEFINE a == Ascending(I)
           n == Cardinality(I)
<1> HIDE DEF a, n
<1>6. /\ n \in Nat /\ a \in [1..n -> I]
      /\ \A i \in I : \E k \in 1..n : a[k] = i
      /\ \A k, l \in 1..n : k < l => <<a[k], a[l]>> \in before
  BY <1>3, <1>5, Enumerated DEF a, n
<1>7. ToSet(a) = I
  BY <1>6 DEF ToSet
<1>8. \A k, l \in 1..n : k < l => a[k] < a[l]
  BY <1>1, <1>6
<1> QED
  BY <1>6, <1>7, <1>8 DEF a, n

(* A stable sort permutes the places and orders the keys. *)
LEMMA StablePlaces ==
    ASSUME NEW n \in Nat, NEW keys \in [1..n -> Int]
    PROVE  /\ StableOrder(keys) \in [1..n -> 1..n]
           /\ ToSet(StableOrder(keys)) = 1..n
           /\ \A k, l \in 1..n : k < l =>
                LET i == StableOrder(keys)[k]
                    j == StableOrder(keys)[l]
                IN  keys[i] < keys[j] \/ (keys[i] = keys[j] /\ i < j)
<1> DEFINE S == 1..n
           first(i, j) == keys[i] < keys[j] \/ (keys[i] = keys[j] /\ i < j)
           before == {p \in S \X S : first(p[1], p[2])}
           order == StableOrder(keys)
<1>1. \A i, j \in S : <<i, j>> \in before <=> first(i, j)
  OBVIOUS
<1>2. \A i \in S : {j \in S : <<j, i>> \in before} = {j \in S : first(j, i)}
  BY <1>1
<1>3. DOMAIN keys = S
  OBVIOUS
<1>4. order = InOrder(Rank(S, before))
  BY <1>2, <1>3 DEF StableOrder, Rank
<1>5. IsFiniteSet(S) /\ Cardinality(S) = n
  BY FS_Interval
<1>6. \A i, j \in S : keys[i] \in Int /\ i \in Int
  OBVIOUS
<1> HIDE DEF before, order
<1>7. StrictOrder(S, before)
  <2>1. \A i \in S : ~first(i, i)
    BY <1>6
  <2>2. \A i, j, k \in S : first(i, j) /\ first(j, k) => first(i, k)
    BY <1>6
  <2>3. \A i, j \in S : i = j \/ first(i, j) \/ first(j, i)
    BY <1>6
  <2> HIDE DEF S, first
  <2> QED
    BY <1>1, <2>1, <2>2, <2>3 DEF StrictOrder
<1> HIDE DEF S, first
<1>11. IsFiniteSet(S)
  BY <1>5
<1>8. /\ order \in [1..Cardinality(S) -> S]
      /\ \A i \in S : \E k \in 1..Cardinality(S) : order[k] = i
      /\ \A k, l \in 1..Cardinality(S) : k < l => <<order[k], order[l]>> \in before
  BY <1>4, <1>7, <1>11, Enumerated
<1>9. order \in [1..n -> S] /\ ToSet(order) = S
  BY <1>5, <1>8 DEF ToSet
<1>10. \A k, l \in 1..n : k < l => first(order[k], order[l])
  BY <1>1, <1>5, <1>8
<1> QED
  BY <1>9, <1>10 DEF order, S, first

-----------------------------------------------------------------------------
(* What is picked of a list are elements of it. *)
LEMMA AtPlaces ==
    ASSUME NEW T, NEW seq \in Seq(T), NEW m \in Nat, NEW places \in [1..m -> 1..Len(seq)]
    PROVE  /\ At(seq, places) \in Seq(T)
           /\ Len(At(seq, places)) = m
           /\ \A k \in 1..m : At(seq, places)[k] = seq[places[k]]
           /\ ToSet(At(seq, places)) = {seq[i] : i \in ToSet(places)}
<1>1. At(seq, places) = [k \in 1..m |-> seq[places[k]]]
  BY DEF At
<1>2. \A k \in 1..m : seq[places[k]] \in T
  OBVIOUS
<1>3. At(seq, places) \in [1..m -> T]
  BY <1>1, <1>2
<1>4. At(seq, places) \in Seq(T) /\ Len(At(seq, places)) = m
  BY <1>3
<1>5. ToSet(places) = {places[k] : k \in 1..m}
  BY DEF ToSet
<1>6. ToSet(At(seq, places)) = {seq[places[k]] : k \in 1..m}
  <2>1. DOMAIN At(seq, places) = 1..m /\ \A k \in 1..m : At(seq, places)[k] = seq[places[k]]
    BY <1>1
  <2> QED
    BY <2>1 DEF ToSet
<1>7. {seq[places[k]] : k \in 1..m} = {seq[i] : i \in {places[k] : k \in 1..m}}
  OBVIOUS
<1> QED
  BY <1>1, <1>4, <1>5, <1>6, <1>7

(* Those at some places, in their order. *)
LEMMA SelectedPlaces ==
    ASSUME NEW T, NEW seq \in Seq(T), NEW I, I \subseteq 1..Len(seq)
    PROVE  /\ IsFiniteSet(I)
           /\ At(seq, Ascending(I)) \in Seq(T)
           /\ Len(At(seq, Ascending(I))) = Cardinality(I)
           /\ ToSet(At(seq, Ascending(I))) = {seq[i] : i \in I}
<1>1. IsFiniteSet(1..Len(seq))
  BY FS_Interval
<1>2. IsFiniteSet(I)
  BY <1>1, FS_Subset
<1>5. I \subseteq Nat
  OBVIOUS
<1>3. /\ Cardinality(I) \in Nat /\ Ascending(I) \in [1..Cardinality(I) -> I]
      /\ ToSet(Ascending(I)) = I
  BY <1>2, <1>5, AscendingPlaces
<1>4. Ascending(I) \in [1..Cardinality(I) -> 1..Len(seq)]
  BY <1>3
<1>6. /\ At(seq, Ascending(I)) \in Seq(T)
      /\ Len(At(seq, Ascending(I))) = Cardinality(I)
      /\ ToSet(At(seq, Ascending(I))) = {seq[i] : i \in ToSet(Ascending(I))}
  BY <1>3, <1>4, AtPlaces
<1> QED
  BY <1>2, <1>3, <1>6

(* Sorting keeps every element and adds none. *)
LEMMA SortedPlaces ==
    ASSUME NEW T, NEW seq \in Seq(T), NEW keys, keys \in [1..Len(seq) -> Int]
    PROVE  /\ At(seq, StableOrder(keys)) \in Seq(T)
           /\ Len(At(seq, StableOrder(keys))) = Len(seq)
           /\ ToSet(At(seq, StableOrder(keys))) = ToSet(seq)
<1>1. PICK n \in Nat : n = Len(seq)
  OBVIOUS
<1>2. keys \in [1..n -> Int]
  BY <1>1
<1>3. PICK order : order = StableOrder(keys)
  OBVIOUS
<1>4. order \in [1..n -> 1..n] /\ ToSet(order) = 1..n
  BY <1>2, <1>3, StablePlaces
<1>5. order \in [1..n -> 1..Len(seq)]
  BY <1>1, <1>4
<1>6. /\ At(seq, order) \in Seq(T) /\ Len(At(seq, order)) = n
      /\ ToSet(At(seq, order)) = {seq[i] : i \in ToSet(order)}
  BY <1>5, AtPlaces
<1>7. ToSet(seq) = {seq[i] : i \in 1..Len(seq)}
  BY DEF ToSet
<1> QED
  BY <1>1, <1>3, <1>4, <1>6, <1>7

-----------------------------------------------------------------------------
LEMMA LeastNumber ==
    ASSUME NEW I \in SUBSET Nat, I # {}
    PROVE  \E i \in I : \A j \in I : i <= j
<1> DEFINE less == OpToRel(<, Nat)
<1>1. IsWellFoundedOn(less, Nat)
  BY NatLessThanWellFounded
<1>2. \A i, j \in Nat : <<i, j>> \in less <=> i < j
  BY DEF OpToRel
<1> HIDE DEF less
<1>3. PICK i \in I : \A j \in I : <<j, i>> \notin less
  BY <1>1, WFMin
<1>4. ASSUME NEW j \in I PROVE i <= j
  <2>1. i \in Nat /\ j \in Nat /\ ~(j < i)
    BY <1>2, <1>3
  <2> QED
    BY <2>1
<1> QED
  BY <1>4

LEMMA GreatestNumber ==
    ASSUME NEW n \in Nat, NEW I \in SUBSET (1..n), I # {}
    PROVE  \E i \in I : \A j \in I : j <= i
<1> DEFINE below == {n - i : i \in I}
<1>5. \A i \in I : i \in 1..n /\ n - i \in Nat
  OBVIOUS
<1>1. below \in SUBSET Nat /\ below # {}
  BY <1>5
<1>2. PICK b \in below : \A c \in below : b <= c
  BY <1>1, LeastNumber
<1>3. PICK i \in I : b = n - i
  OBVIOUS
<1>4. ASSUME NEW j \in I PROVE j <= i
  <2>1. n - j \in below
    OBVIOUS
  <2>2. n - i <= n - j
    BY <1>2, <1>3, <2>1
  <2> QED
    BY <2>2
<1> QED
  BY <1>4

(* The places no later one has the key of. *)
Lasts(keys) == {l \in DOMAIN keys : \A j \in DOMAIN keys : j > l => keys[j] # keys[l]}

(* Deduplication keeps exactly the last of each key. *)
LEMMA LastsAreKept ==
    ASSUME NEW n \in Nat, NEW keys, DOMAIN keys = 1..n
    PROVE  /\ \E m \in Nat : LastPlaces(keys) \in [1..m -> 1..n]
           /\ ToSet(LastPlaces(keys)) = Lasts(keys)
<1> DEFINE firsts == {i \in 1..n : \A j \in 1..i - 1 : keys[j] # keys[i]}
           isLast(l) == \A j \in 1..n : j > l => keys[j] # keys[l]
           last == [i \in 1..n |-> CHOOSE l \in 1..n : keys[l] = keys[i] /\ \A j \in 1..n : j > l => keys[j] # keys[i]]
<1>1. LastPlaces(keys) = At(last, Ascending(firsts))
  BY DEF LastPlaces
<1>2. ASSUME NEW i \in 1..n
      PROVE  /\ last[i] \in 1..n /\ keys[last[i]] = keys[i]
             /\ \A j \in 1..n : j > last[i] => keys[j] # keys[i]
  <2> DEFINE same == {l \in 1..n : keys[l] = keys[i]}
  <2>1. PICK l \in same : \A j \in same : j <= l
    <3>1. same \in SUBSET (1..n) /\ same # {}
      OBVIOUS
    <3> QED
      BY <3>1, GreatestNumber
  <2>2. l \in 1..n /\ keys[l] = keys[i] /\ \A j \in 1..n : j > l => keys[j] # keys[i]
    BY <2>1
  <2> QED
    BY <2>2
<1>3. ASSUME NEW i \in 1..n
      PROVE  \E f \in firsts : keys[f] = keys[i]
  <2> DEFINE same == {l \in 1..n : keys[l] = keys[i]}
  <2>1. PICK f \in same : \A j \in same : f <= j
    <3>1. same \in SUBSET Nat /\ same # {}
      OBVIOUS
    <3> QED
      BY <3>1, LeastNumber
  <2>2. ASSUME NEW j \in 1..f - 1 PROVE keys[j] # keys[f]
    <3>1. j \in 1..n /\ j < f
      OBVIOUS
    <3> QED
      BY <2>1, <3>1
  <2> QED
    BY <2>1, <2>2
<1> HIDE DEF last
<1>4. last \in [1..n -> 1..n]
  BY <1>2 DEF last
<1>5. last \in Seq(1..n) /\ Len(last) = n
  BY <1>4
<1>6. firsts \subseteq 1..Len(last)
  BY <1>5
<1> HIDE DEF firsts
<1>7. /\ At(last, Ascending(firsts)) \in Seq(1..n)
      /\ ToSet(At(last, Ascending(firsts))) = {last[i] : i \in firsts}
  BY <1>5, <1>6, SelectedPlaces
<1>8. \E m \in Nat : LastPlaces(keys) \in [1..m -> 1..n]
  BY <1>1, <1>7
<1>9. ASSUME NEW l \in 1..n, isLast(l) PROVE l \in {last[i] : i \in firsts}
  <2>1. PICK f \in firsts : keys[f] = keys[l]
    BY <1>3
  <2>2. f \in 1..n
    BY DEF firsts
  <2>3. last[f] = l
    BY <1>2, <1>9, <2>1, <2>2
  <2> QED
    BY <2>3
<1>10. ASSUME NEW f \in firsts PROVE last[f] \in 1..n /\ isLast(last[f])
  <2>1. f \in 1..n
    BY DEF firsts
  <2> QED
    BY <1>2, <2>1
<1>11. {last[i] : i \in firsts} = {l \in 1..n : isLast(l)}
  BY <1>9, <1>10
<1>12. {l \in 1..n : isLast(l)} = Lasts(keys)
  BY DEF Lasts
<1> QED
  BY <1>1, <1>7, <1>8, <1>11, <1>12

(* The same, of the elements of a list. *)
LEMMA LastOnesKept ==
    ASSUME NEW T, NEW seq \in Seq(T), NEW keys, DOMAIN keys = 1..Len(seq)
    PROVE  /\ At(seq, LastPlaces(keys)) \in Seq(T)
           /\ ToSet(At(seq, LastPlaces(keys))) = {seq[l] : l \in Lasts(keys)}
<1>1. Len(seq) \in Nat
  OBVIOUS
<1>2. PICK m \in Nat : LastPlaces(keys) \in [1..m -> 1..Len(seq)]
  BY <1>1, LastsAreKept
<1>3. ToSet(LastPlaces(keys)) = Lasts(keys)
  BY <1>1, LastsAreKept
<1> DEFINE places == LastPlaces(keys)
<1> HIDE DEF places
<1>4. /\ At(seq, places) \in Seq(T)
      /\ ToSet(At(seq, places)) = {seq[i] : i \in ToSet(places)}
  <2>1. places \in [1..m -> 1..Len(seq)]
    BY <1>2 DEF places
  <2> QED
    BY <2>1, AtPlaces
<1> QED
  BY <1>3, <1>4 DEF places
-----------------------------------------------------------------------------
(* Counting places.  As many places of the sorted list as of the list.     *)
Permutes(order, n) ==
    /\ order \in [1..n -> 1..n] /\ ToSet(order) = 1..n
    /\ \A k, l \in 1..n : k < l => order[k] # order[l]

LEMMA SortingKeepsCounts ==
    ASSUME NEW n \in Nat, NEW order, Permutes(order, n),
           NEW A \in SUBSET (1..n), NEW P \in SUBSET (1..n),
           \A k \in 1..n : k \in P <=> order[k] \in A
    PROVE  Cardinality(P) = Cardinality(A)
<1> DEFINE f == [k \in P |-> order[k]]
<1> USE DEF Permutes
<1>1. IsFiniteSet(P)
  <2>1. IsFiniteSet(1..n) /\ P \in SUBSET (1..n)
    BY FS_Interval
  <2> QED
    BY <2>1, FS_Subset
<1>2. f \in [P -> A]
  OBVIOUS
<1>3. \A k, l \in P : f[k] = f[l] => k = l
  <2>1. \A k, l \in 1..n : order[k] = order[l] => k = l
    <3> TAKE k, l \in 1..n
    <3>1. k < l \/ l < k \/ k = l
      OBVIOUS
    <3> QED
      BY <3>1
  <2> QED
    BY <2>1
<1>4. \A a \in A : \E k \in P : f[k] = a
  <2> TAKE a \in A
  <2>1. PICK k \in 1..n : order[k] = a
    BY DEF ToSet
  <2> QED
    BY <2>1
<1>5. f \in Bijection(P, A)
  <2> HIDE DEF f
  <2>1. f \in Injection(P, A)
    BY <1>2, <1>3 DEF Injection, IsInjective
  <2>2. f \in Surjection(P, A)
    BY <1>2, <1>4 DEF Surjection
  <2> QED
    BY <2>1, <2>2 DEF Bijection
<1>6. ExistsBijection(P, A)
  BY <1>5 DEF ExistsBijection
<1> QED
  BY <1>1, <1>6, FS_Bijection

(* Places with every earlier one are the first so many. *)
LEMMA FirstSoMany ==
    ASSUME NEW n \in Nat, NEW A \in SUBSET (1..n),
           \A k \in A : \A l \in 1..k : l \in A
    PROVE  /\ Cardinality(A) \in 0..n
           /\ A = 1..Cardinality(A)
<1>1. CASE A = {}
  BY <1>1, FS_EmptySet
<1>2. CASE A # {}
  <2>1. PICK g \in A : \A k \in A : k <= g
    BY <1>2, GreatestNumber
  <2>2. g \in 1..n
    OBVIOUS
  <2>3. A = 1..g
    <3>1. A \subseteq 1..g
      BY <2>1, <2>2
    <3> QED
      BY <2>1, <3>1
  <2>4. Cardinality(1..g) = g
    BY <2>2, FS_Interval
  <2> QED
    BY <2>2, <2>3, <2>4
<1> QED
  BY <1>1, <1>2
(* A sorted list has every place once, in the order of the keys. *)
LEMMA SortingPermutes ==
    ASSUME NEW n \in Nat, NEW keys \in [1..n -> Int]
    PROVE  /\ Permutes(StableOrder(keys), n)
           /\ \A k, l \in 1..n : k < l => keys[StableOrder(keys)[k]] <= keys[StableOrder(keys)[l]]
<1>1. PICK order : order = StableOrder(keys)
  OBVIOUS
<1>2. /\ order \in [1..n -> 1..n] /\ ToSet(order) = 1..n
      /\ \A k, l \in 1..n : k < l =>
           keys[order[k]] < keys[order[l]] \/ (keys[order[k]] = keys[order[l]] /\ order[k] < order[l])
  BY <1>1, StablePlaces
<1>3. /\ \A k, l \in 1..n : k < l => order[k] # order[l]
      /\ \A k, l \in 1..n : k < l => keys[order[k]] <= keys[order[l]]
  <2>1. ASSUME NEW k \in 1..n, NEW l \in 1..n, k < l
        PROVE  order[k] # order[l] /\ keys[order[k]] <= keys[order[l]]
    <3>1. order[k] \in 1..n /\ order[l] \in 1..n
      BY <1>2
    <3>2. keys[order[k]] \in Int /\ keys[order[l]] \in Int
      BY <3>1
    <3>3. keys[order[k]] < keys[order[l]] \/ (keys[order[k]] = keys[order[l]] /\ order[k] < order[l])
      BY <1>2, <2>1
    <3>4. order[k] < order[l] => order[k] # order[l]
      BY <3>1
    <3>5. keys[order[k]] < keys[order[l]] => order[k] # order[l] /\ keys[order[k]] <= keys[order[l]]
      BY <3>2
    <3>6. keys[order[k]] = keys[order[l]] => keys[order[k]] <= keys[order[l]]
      BY <3>2
    <3> QED
      BY <3>3, <3>4, <3>5, <3>6
  <2> QED
    BY <2>1
<1> QED
  BY <1>1, <1>2, <1>3 DEF Permutes

(* The first so many of a sorted list have a key when fewer are below it.  *)
Smaller(keys, a) == {i \in DOMAIN keys : keys[i] < keys[a]}

LEMMA SmallestFirst ==
    ASSUME NEW n \in Nat, NEW keys \in [1..n -> Int], NEW most \in Nat, NEW a \in 1..n
    PROVE  (\E k \in 1..n : k <= most /\ keys[StableOrder(keys)[k]] = keys[a])
             <=> Cardinality(Smaller(keys, a)) < most
<1>1. PICK order : order = StableOrder(keys)
  OBVIOUS
<1>2. /\ order \in [1..n -> 1..n] /\ ToSet(order) = 1..n
      /\ \A k, l \in 1..n : k < l =>
           keys[order[k]] < keys[order[l]] \/ (keys[order[k]] = keys[order[l]] /\ order[k] < order[l])
  BY <1>1, StablePlaces
<1>3. PICK A : A = {i \in 1..n : keys[i] < keys[a]} /\ A = Smaller(keys, a)
  BY DEF Smaller
<1>4. PICK P : P = {k \in 1..n : order[k] \in A}
  OBVIOUS
<1>5. Permutes(order, n) /\ \A k, l \in 1..n : k < l => keys[order[k]] <= keys[order[l]]
  BY <1>1, SortingPermutes
<1>6. Cardinality(P) = Cardinality(A)
  <2>1. Permutes(order, n) /\ A \in SUBSET (1..n)
    BY <1>3, <1>5
  <2>2. P \in SUBSET (1..n) /\ \A k \in 1..n : k \in P <=> order[k] \in A
    BY <1>4
  <2> QED
    BY <2>1, <2>2, SortingKeepsCounts
<1>7. \A k \in 1..n : k \in P <=> keys[order[k]] < keys[a]
  BY <1>2, <1>3, <1>4
<1>8. P \in SUBSET (1..n) /\ \A k \in P : \A l \in 1..k : l \in P
  <2>1. P \in SUBSET (1..n)
    BY <1>4
  <2>2. ASSUME NEW k \in P, NEW l \in 1..k PROVE l \in P
    <3>1. k \in 1..n /\ l \in 1..n
      BY <2>1
    <3>2. keys[order[l]] <= keys[order[k]]
      BY <1>2, <1>5, <3>1
    <3>3. keys[order[k]] < keys[a]
      BY <1>7, <3>1
    <3>4. keys[order[l]] \in Int /\ keys[order[k]] \in Int
      BY <1>2, <3>1
    <3> QED
      BY <1>7, <3>1, <3>2, <3>3, <3>4
  <2> QED
    BY <2>1, <2>2
<1>9. PICK c \in 0..n : c = Cardinality(A) /\ P = 1..c
  BY <1>6, <1>8, FirstSoMany
<1>10. PICK place \in 1..n : order[place] = a
  BY <1>2 DEF ToSet
<1>11. \A k \in 1..n : keys[order[k]] \in Int
  BY <1>2
<1>12. place \notin 1..c
  <2>1. keys[a] \in Int
    OBVIOUS
  <2>2. place \in P => keys[a] < keys[a]
    BY <1>7, <1>10
  <2>3. place \notin P
    BY <2>1, <2>2
  <2> QED
    BY <1>9, <2>3
<1>13. ASSUME NEW k \in 1..n, k <= most, keys[order[k]] = keys[a] PROVE c < most
  <2>1. k \notin 1..c
    BY <1>7, <1>9, <1>11, <1>13
  <2> QED
    BY <1>13, <2>1
<1>14. ASSUME c < most PROVE \E k \in 1..n : k <= most /\ keys[order[k]] = keys[a]
  <2>1. c + 1 \in 1..n /\ c + 1 <= place /\ c + 1 \notin 1..c
    BY <1>12
  <2>2. ~(keys[order[c + 1]] < keys[a])
    BY <1>7, <1>9, <2>1
  <2>3. keys[order[c + 1]] <= keys[order[place]]
    <3>1. CASE c + 1 = place
      BY <1>11, <3>1
    <3>2. CASE c + 1 < place
      BY <1>5, <2>1, <3>2
    <3> QED
      BY <2>1, <3>1, <3>2
  <2>4. keys[order[c + 1]] = keys[a]
    BY <1>10, <1>11, <2>1, <2>2, <2>3
  <2> QED
    BY <1>14, <2>1, <2>4
<1> QED
  BY <1>1, <1>3, <1>9, <1>13, <1>14
-----------------------------------------------------------------------------
(* No two places kept have the same key. *)
LEMMA KeptKeysDiffer ==
    ASSUME NEW n \in Nat, NEW keys, DOMAIN keys = 1..n,
           NEW m \in Nat, LastPlaces(keys) \in [1..m -> 1..n]
    PROVE  \A k, l \in 1..m : keys[LastPlaces(keys)[k]] = keys[LastPlaces(keys)[l]] => k = l
<1> DEFINE firsts == {i \in 1..n : \A j \in 1..i - 1 : keys[j] # keys[i]}
           last == [i \in 1..n |-> CHOOSE l \in 1..n : keys[l] = keys[i] /\ \A j \in 1..n : j > l => keys[j] # keys[i]]
           up == Ascending(firsts)
<1>1. LastPlaces(keys) = At(last, up)
  BY DEF LastPlaces
<1>2. ASSUME NEW i \in 1..n
      PROVE  keys[last[i]] = keys[i]
  <2> DEFINE same == {l \in 1..n : keys[l] = keys[i]}
  <2>1. PICK l \in same : \A j \in same : j <= l
    <3>1. same \in SUBSET (1..n) /\ same # {}
      OBVIOUS
    <3> QED
      BY <3>1, GreatestNumber
  <2>2. l \in 1..n /\ keys[l] = keys[i] /\ \A j \in 1..n : j > l => keys[j] # keys[i]
    BY <2>1
  <2> QED
    BY <2>2
<1>3. \A i, j \in firsts : keys[i] = keys[j] => i = j
  <2> TAKE i, j \in firsts
  <2> HAVE keys[i] = keys[j]
  <2>1. i \in 1..n /\ j \in 1..n
    OBVIOUS
  <2>2. CASE i < j
    <3>1. i \in 1..j - 1
      BY <2>1, <2>2
    <3> QED
      BY <3>1
  <2>3. CASE j < i
    <3>1. j \in 1..i - 1
      BY <2>1, <2>3
    <3> QED
      BY <3>1
  <2> QED
    BY <2>1, <2>2, <2>3
<1>4. IsFiniteSet(firsts) /\ firsts \subseteq Nat /\ firsts \subseteq 1..n
  <2>1. IsFiniteSet(1..n) /\ firsts \in SUBSET (1..n)
    BY FS_Interval
  <2> QED
    BY <2>1, FS_Subset
<1> HIDE DEF firsts, last
<1>5. /\ Cardinality(firsts) \in Nat /\ up \in [1..Cardinality(firsts) -> firsts]
      /\ \A k, l \in 1..Cardinality(firsts) : k < l => up[k] < up[l]
  BY <1>4, AscendingPlaces
<1> HIDE DEF up
<1>6. DOMAIN At(last, up) = DOMAIN up /\ \A k \in DOMAIN up : At(last, up)[k] = last[up[k]]
  BY DEF At
<1>7. 1..m = 1..Cardinality(firsts)
  BY <1>1, <1>5, <1>6
<1>8. ASSUME NEW k \in 1..m, NEW l \in 1..m, keys[LastPlaces(keys)[k]] = keys[LastPlaces(keys)[l]]
      PROVE  k = l
  <2>1. up[k] \in firsts /\ up[l] \in firsts
    BY <1>5, <1>7
  <2>2. LastPlaces(keys)[k] = last[up[k]] /\ LastPlaces(keys)[l] = last[up[l]]
    BY <1>1, <1>5, <1>6, <1>7
  <2>3. up[k] = up[l]
    <3>1. up[k] \in 1..n /\ up[l] \in 1..n
      BY <1>4, <2>1
    <3>2. keys[last[up[k]]] = keys[up[k]] /\ keys[last[up[l]]] = keys[up[l]]
      BY <1>2, <3>1
    <3>3. keys[up[k]] = keys[up[l]]
      BY <1>8, <2>2, <3>2
    <3> QED
      BY <1>3, <2>1, <3>3
  <2>4. up[k] \in Int
    <3>1. \A i \in firsts : i \in Int
      BY <1>4
    <3> QED
      BY <2>1, <3>1
  <2>5. ~(k < l) /\ ~(l < k)
    BY <1>5, <1>7, <2>3, <2>4
  <2> QED
    BY <2>5
<1> QED
  BY <1>8

(* Of each key one is kept, and no more. *)
OneOfEach(places, keys, m, n) ==
    /\ places \in [1..m -> 1..n]
    /\ \A k, l \in 1..m : keys[places[k]] = keys[places[l]] => k = l
    /\ \A i \in 1..n : \E k \in 1..m : keys[places[k]] = keys[i]

LEMMA OneOfEachKey ==
    ASSUME NEW n \in Nat, NEW keys, DOMAIN keys = 1..n
    PROVE  \E m \in Nat : OneOfEach(LastPlaces(keys), keys, m, n)
<1>1. PICK m \in Nat : LastPlaces(keys) \in [1..m -> 1..n]
  BY LastsAreKept
<1>2. PICK places : places = LastPlaces(keys)
  OBVIOUS
<1>3. places \in [1..m -> 1..n] /\ ToSet(places) = Lasts(keys)
  BY <1>1, <1>2, LastsAreKept
<1>4. \A k, l \in 1..m : keys[places[k]] = keys[places[l]] => k = l
  <2>1. \A k, l \in 1..m : keys[LastPlaces(keys)[k]] = keys[LastPlaces(keys)[l]] => k = l
    BY <1>1, KeptKeysDiffer
  <2> QED
    BY <1>2, <2>1
<1>5. ASSUME NEW i \in 1..n
      PROVE  \E k \in 1..m : keys[places[k]] = keys[i]
  <2> DEFINE same == {l \in 1..n : keys[l] = keys[i]}
  <2>1. PICK l \in same : \A j \in same : j <= l
    <3>1. same \in SUBSET (1..n) /\ same # {}
      OBVIOUS
    <3> QED
      BY <3>1, GreatestNumber
  <2>2. l \in 1..n /\ keys[l] = keys[i] /\ \A j \in 1..n : j > l => keys[j] # keys[l]
    BY <2>1
  <2>3. l \in Lasts(keys)
    BY <2>2 DEF Lasts
  <2>4. PICK k \in 1..m : places[k] = l
    BY <1>3, <2>3 DEF ToSet
  <2> QED
    BY <2>2, <2>4
<1>6. OneOfEach(places, keys, m, n)
  BY <1>3, <1>4, <1>5 DEF OneOfEach
<1> QED
  BY <1>2, <1>6

(* As many as there are of what they stand for. *)
LEMMA SameSize ==
    ASSUME NEW S, IsFiniteSet(S), NEW T, NEW f \in [S -> T],
           \A x, y \in S : f[x] = f[y] => x = y,
           \A t \in T : \E x \in S : f[x] = t
    PROVE  Cardinality(S) = Cardinality(T)
<1>1. f \in Injection(S, T)
  BY DEF Injection, IsInjective
<1>2. f \in Surjection(S, T)
  BY DEF Surjection
<1>3. f \in Bijection(S, T)
  BY <1>1, <1>2 DEF Bijection
<1>4. ExistsBijection(S, T)
  BY <1>3 DEF ExistsBijection
<1> QED
  BY <1>4, FS_Bijection

(* A function on the places of a list is one. *)
LEMMA IsAList ==
    ASSUME NEW n \in Nat, NEW s, s = [k \in 1..n |-> s[k]]
    PROVE  s \in Seq({s[k] : k \in DOMAIN s}) /\ DOMAIN s = 1..n /\ Len(s) = n
<1>1. DOMAIN s = 1..n
  OBVIOUS
<1>2. PICK T : T = {s[k] : k \in DOMAIN s}
  OBVIOUS
<1>3. \A k \in 1..n : s[k] \in T
  BY <1>1, <1>2
<1>4. s \in [1..n -> T]
  BY <1>3
<1>5. s \in Seq(T) /\ Len(s) = n
  BY <1>4
<1> QED
  BY <1>1, <1>2, <1>5

LEMMA JoinedSets ==
    ASSUME NEW T, NEW s \in Seq(T), NEW u \in Seq(T)
    PROVE  s \o u \in Seq(T) /\ ToSet(s \o u) = ToSet(s) \cup ToSet(u)
<1>1. PICK m \in Nat, n \in Nat : m = Len(s) /\ n = Len(u)
  OBVIOUS
<1>2. /\ s \o u \in Seq(T) /\ DOMAIN (s \o u) = 1..m + n
      /\ \A i \in 1..m : (s \o u)[i] = s[i]
      /\ \A j \in 1..n : (s \o u)[m + j] = u[j]
  BY <1>1
<1>3. \A i \in 1..m + n : i \in 1..m \/ (i - m \in 1..n /\ i = m + (i - m))
  OBVIOUS
<1>4. ASSUME NEW i \in 1..m + n PROVE (s \o u)[i] \in ToSet(s) \cup ToSet(u)
  <2>1. CASE i \in 1..m
    BY <1>1, <1>2, <2>1 DEF ToSet
  <2>2. CASE i - m \in 1..n
    <3>1. PICK j \in 1..n : i = m + j
      BY <2>2
    <3>2. u[j] \in ToSet(u)
      BY <1>1 DEF ToSet
    <3> QED
      BY <1>2, <3>1, <3>2
  <2> QED
    BY <1>3, <2>1, <2>2
<1>5. ASSUME NEW x \in ToSet(s) \cup ToSet(u) PROVE \E i \in 1..m + n : (s \o u)[i] = x
  <2>1. CASE x \in ToSet(s)
    <3>1. PICK i \in 1..m : s[i] = x
      BY <1>1, <2>1 DEF ToSet
    <3>2. i \in 1..m + n
      OBVIOUS
    <3> QED
      BY <1>2, <3>1, <3>2
  <2>2. CASE x \in ToSet(u)
    <3>1. PICK j \in 1..n : u[j] = x
      BY <1>1, <2>2 DEF ToSet
    <3>2. m + j \in 1..m + n
      OBVIOUS
    <3> QED
      BY <1>2, <3>1, <3>2
  <2> QED
    BY <2>1, <2>2
<1>6. ToSet(s \o u) = {(s \o u)[i] : i \in 1..m + n}
  BY <1>2 DEF ToSet
<1>7. ASSUME NEW x \in ToSet(s \o u) PROVE x \in ToSet(s) \cup ToSet(u)
  BY <1>4, <1>6, <1>7
<1>8. ASSUME NEW x \in ToSet(s) \cup ToSet(u) PROVE x \in ToSet(s \o u)
  BY <1>5, <1>6, <1>8
<1> QED
  BY <1>2, <1>7, <1>8

(* Lists one after the other hold what each of them holds. *)
LEMMA Flattened ==
    ASSUME NEW T, NEW n \in Nat, NEW seqs \in [1..n -> Seq(T)]
    PROVE  /\ FlattenSeq(seqs) \in Seq(T)
           /\ ToSet(FlattenSeq(seqs)) = UNION {ToSet(seqs[i]) : i \in 1..n}
<1> DEFINE is(f, m) == f = [i \in 1..m |-> IF i = 1 THEN seqs[i] ELSE f[i - 1] \o seqs[i]]
           flat == CHOOSE f : is(f, n)
           sets(m) == UNION {ToSet(seqs[i]) : i \in 1..m}
           good(m) == flat[m] \in Seq(T) /\ ToSet(flat[m]) = sets(m)
<1>1. CASE n = 0
  <2>1. FlattenSeq(seqs) = seqs /\ seqs = <<>>
    BY <1>1 DEF FlattenSeq
  <2> QED
    BY <1>1, <2>1 DEF ToSet
<1>2. CASE n > 0
  <2>1. \E f : is(f, n)
    <3> DEFINE bad == {m \in Nat : ~\E f : is(f, m)}
    <3>1. SUFFICES ASSUME bad # {} PROVE FALSE
      OBVIOUS
    <3>2. PICK m \in bad : \A k \in bad : m <= k
      BY <3>1, LeastNumber
    <3>3. m # 0
      <4>1. is([i \in 1..0 |-> seqs[i]], 0)
        OBVIOUS
      <4> QED
        BY <3>2, <4>1
    <3>4. PICK f : is(f, m - 1)
      <4>1. m \in Nat /\ \A k \in bad : m <= k
        BY <3>2
      <4>2. m - 1 \in Nat /\ ~(m <= m - 1)
        BY <3>3, <4>1
      <4>3. m - 1 \notin bad
        BY <4>1, <4>2
      <4> QED
        BY <4>2, <4>3
    <3>5. PICK g : g = [i \in 1..m |-> IF i = m THEN IF i = 1 THEN seqs[i] ELSE f[i - 1] \o seqs[i] ELSE f[i]]
      OBVIOUS
    <3>6. \A i \in 1..m : g[i] = IF i = 1 THEN seqs[i] ELSE g[i - 1] \o seqs[i]
      <4> TAKE i \in 1..m
      <4>1. CASE i = m
        <5>1. i = 1 \/ (i - 1 \in 1..m /\ i - 1 # m)
          BY <4>1
        <5> QED
          BY <3>5, <4>1, <5>1
      <4>2. CASE i # m
        <5>1. i \in 1..m - 1 /\ (i = 1 \/ (i - 1 \in 1..m /\ i - 1 # m))
          BY <4>2
        <5>2. f[i] = IF i = 1 THEN seqs[i] ELSE f[i - 1] \o seqs[i]
          BY <3>4, <5>1
        <5> QED
          BY <3>5, <4>2, <5>1, <5>2
      <4> QED
        BY <4>1, <4>2
    <3>7. is(g, m)
      BY <3>5, <3>6
    <3> QED
      BY <3>2, <3>7
  <2>2. is(flat, n)
    BY <2>1
  <2>3. FlattenSeq(seqs) = flat[n]
    <3>1. Len(seqs) = n
      OBVIOUS
    <3> QED
      BY <1>2, <3>1 DEF FlattenSeq
  <2> HIDE DEF flat
  <2>4. \A i \in 1..n : flat[i] = IF i = 1 THEN seqs[i] ELSE flat[i - 1] \o seqs[i]
    BY <2>2
  <2>5. good(n)
    <3> DEFINE bad == {m \in Nat : m \in 1..n /\ ~good(m)}
    <3> HIDE DEF good
    <3>1. SUFFICES ASSUME bad # {} PROVE FALSE
      BY <1>2
    <3>2. PICK m \in bad : \A k \in bad : m <= k
      BY <3>1, LeastNumber
    <3>3. m \in 1..n
      OBVIOUS
    <3>4. CASE m = 1
      <4>1. flat[1] = seqs[1] /\ seqs[1] \in Seq(T)
        BY <2>4, <3>3, <3>4
      <4>2. sets(1) = ToSet(seqs[1])
        OBVIOUS
      <4>3. ~good(m)
        BY <3>2
      <4> QED
        BY <3>4, <4>1, <4>2, <4>3 DEF good
    <3>5. CASE m # 1
      <4>1. m - 1 \in 1..n /\ m - 1 \in Nat /\ m - 1 < m
        BY <3>3, <3>5
      <4>2. good(m - 1)
        BY <3>2, <4>1
      <4>7. flat[m - 1] \in Seq(T) /\ ToSet(flat[m - 1]) = sets(m - 1) /\ ~good(m)
        BY <3>2, <4>2 DEF good
      <4>3. flat[m] = flat[m - 1] \o seqs[m] /\ seqs[m] \in Seq(T)
        BY <2>4, <3>3, <3>5
      <4>4. flat[m] \in Seq(T) /\ ToSet(flat[m]) = ToSet(flat[m - 1]) \cup ToSet(seqs[m])
        BY <4>3, <4>7, JoinedSets
      <4>5. 1..m = (1..m - 1) \cup {m}
        BY <3>3
      <4>6. sets(m) = sets(m - 1) \cup ToSet(seqs[m])
        BY <4>5
      <4> QED
        BY <4>4, <4>6, <4>7 DEF good
    <3> QED
      BY <3>4, <3>5
  <2> QED
    BY <2>3, <2>5
<1> QED
  BY <1>1, <1>2

-----------------------------------------------------------------------------
(* max() and sum() over a finite set *)

(* A finite set of natural numbers has a greatest. *)
LEMMA FiniteGreatest ==
    ASSUME NEW I \in SUBSET Nat, IsFiniteSet(I), I # {}
    PROVE  \E i \in I : \A j \in I : j <= i
<1> DEFINE over(i) == {j \in I : j > i}
           counts == {Cardinality(over(i)) : i \in I}
<1>1. \A i \in I : IsFiniteSet(over(i)) /\ Cardinality(over(i)) \in Nat
  <2> TAKE i \in I
  <2>1. PICK T : T = over(i)
    OBVIOUS
  <2>2. T \in SUBSET I
    BY <2>1
  <2>3. IsFiniteSet(T)
    BY <2>2, FS_Subset
  <2> QED
    BY <2>1, <2>3, FS_CardinalityType
<1>2. counts \in SUBSET Nat /\ counts # {}
  BY <1>1
<1>3. PICK c \in counts : \A d \in counts : c <= d
  BY <1>2, LeastNumber
<1>4. PICK i \in I : c = Cardinality(over(i))
  OBVIOUS
<1>5. ASSUME NEW j \in I PROVE j <= i
  <2>1. SUFFICES ASSUME j > i PROVE FALSE
    OBVIOUS
  <2>6. \A k \in I : k > j => k > i
    <3> TAKE k \in I
    <3>1. i \in Nat /\ j \in Nat /\ k \in Nat
      OBVIOUS
    <3> QED
      BY <2>1, <3>1
  <2>7. ~(j > j)
    <3>1. j \in Nat
      OBVIOUS
    <3> QED
      BY <3>1
  <2>2. over(j) \in SUBSET over(i) /\ j \in over(i) /\ j \notin over(j)
    BY <2>1, <2>6, <2>7
  <2>3. over(j) # over(i)
    BY <2>2
  <2> HIDE DEF over
  <2>4. Cardinality(over(j)) <= Cardinality(over(i)) /\ Cardinality(over(j)) # Cardinality(over(i))
    BY <1>1, <2>2, <2>3, FS_Subset
  <2>5. Cardinality(over(i)) <= Cardinality(over(j))
    BY <1>3, <1>4
  <2> QED
    BY <1>1, <2>4, <2>5
<1> QED
  BY <1>5

(* A table of the sums of g over the subsets of S, as MapThenSumSet builds *)
(* it: each set takes one element out.                                     *)
SumsOf(g, S, sums) ==
    sums = [s \in SUBSET S |->
        IF s = {} THEN 0 ELSE g[CHOOSE x \in s : TRUE] + sums[s \ {CHOOSE x \in s : TRUE}]]

(* There is one. *)
LEMMA SumsExist ==
    ASSUME NEW S, IsFiniteSet(S), NEW g
    PROVE  \E sums : SumsOf(g, S, sums)
<1> DEFINE upTo(n) == {s \in SUBSET S : Cardinality(s) <= n}
           one(s) == CHOOSE x \in s : TRUE
           is(h, n) == h = [s \in upTo(n) |-> IF s = {} THEN 0 ELSE g[one(s)] + h[s \ {one(s)}]]
           bad == {n \in Nat : ~\E h : is(h, n)}
<1>1. \A s \in SUBSET S : IsFiniteSet(s) /\ Cardinality(s) \in Nat
  BY FS_Subset, FS_CardinalityType
<1>2. \A s \in SUBSET S : s # {} =>
        s \ {one(s)} \in SUBSET S /\ Cardinality(s \ {one(s)}) = Cardinality(s) - 1
  BY <1>1, FS_RemoveElement
<1>3. \A s \in SUBSET S : Cardinality(s) = 0 <=> s = {}
  BY <1>1, FS_EmptySet
<1> HIDE DEF one
<1>4. bad = {}
  <2>1. SUFFICES ASSUME bad # {} PROVE FALSE
    OBVIOUS
  <2>2. PICK n \in bad : \A k \in bad : n <= k
    BY <2>1, LeastNumber
  <2>3. n # 0
    <3>1. PICK h : h = [s \in upTo(0) |-> 0]
      OBVIOUS
    <3>2. \A s \in upTo(0) : s = {}
      BY <1>1, <1>3
    <3>3. is(h, 0)
      BY <3>1, <3>2
    <3>4. 0 \notin bad
      BY <3>3
    <3> QED
      BY <2>2, <3>4
  <2>4. n - 1 \in Nat /\ n - 1 \notin bad
    <3>1. n \in Nat /\ n - 1 \in Nat /\ ~(n <= n - 1)
      BY <2>3
    <3> QED
      BY <2>2, <3>1
  <2>5. PICK h : is(h, n - 1)
    BY <2>4
  <2> DEFINE val(s) == IF s = {} THEN 0 ELSE g[one(s)] + h[s \ {one(s)}]
  <2>6. PICK k : k = [s \in upTo(n) |-> val(s)]
    OBVIOUS
  <2>7. \A s \in upTo(n - 1) : s \in upTo(n) /\ k[s] = h[s]
    <3> TAKE s \in upTo(n - 1)
    <3>1. s \in upTo(n)
      BY <1>1, <2>4
    <3>2. h[s] = val(s)
      BY <2>5
    <3> QED
      BY <2>6, <3>1, <3>2
  <2>8. ASSUME NEW s \in upTo(n), s # {} PROVE s \ {one(s)} \in upTo(n - 1)
    BY <1>1, <1>2, <2>4, <2>8
  <2>9. \A s \in upTo(n) : k[s] = IF s = {} THEN 0 ELSE g[one(s)] + k[s \ {one(s)}]
    BY <2>6, <2>7, <2>8
  <2>10. is(k, n)
    BY <2>6, <2>9
  <2> QED
    BY <2>2, <2>10
<1>5. PICK h : is(h, Cardinality(S))
  BY <1>1, <1>4
<1>6. \A s \in SUBSET S : Cardinality(s) <= Cardinality(S)
  BY FS_Subset
<1>7. upTo(Cardinality(S)) = SUBSET S
  BY <1>6
<1> QED
  BY <1>5, <1>7 DEF SumsOf, one

(* A sum of natural numbers is one, and no less than any of them; of       *)
(* nothing it is 0 and of one number that number.                          *)
LEMMA SumsBound ==
    ASSUME NEW S, IsFiniteSet(S), NEW g, \A x \in S : g[x] \in Nat,
           NEW sums, SumsOf(g, S, sums)
    PROVE  /\ sums[S] \in Nat
           /\ \A x \in S : g[x] <= sums[S]
           /\ S = {} => sums[S] = 0
           /\ \A x : S = {x} => sums[S] = g[x]
<1> DEFINE one(s) == CHOOSE x \in s : TRUE
           good(s) == sums[s] \in Nat /\ \A x \in s : g[x] <= sums[s]
           bad == {n \in Nat : \E s \in SUBSET S : Cardinality(s) = n /\ ~good(s)}
<1>1. \A s \in SUBSET S : IsFiniteSet(s) /\ Cardinality(s) \in Nat
  BY FS_Subset, FS_CardinalityType
<1>2. \A s \in SUBSET S : s # {} =>
        one(s) \in s /\ s \ {one(s)} \in SUBSET S /\ Cardinality(s \ {one(s)}) = Cardinality(s) - 1
  BY <1>1, FS_RemoveElement
<1>3. \A s \in SUBSET S : sums[s] = IF s = {} THEN 0 ELSE g[one(s)] + sums[s \ {one(s)}]
  BY DEF SumsOf
<1> HIDE DEF one, good
<1>4. \A s \in SUBSET S : good(s)
  <2>1. SUFFICES ASSUME bad # {} PROVE FALSE
    BY <1>1
  <2>2. PICK n \in bad : \A k \in bad : n <= k
    BY <2>1, LeastNumber
  <2>3. PICK s \in SUBSET S : Cardinality(s) = n /\ ~good(s)
    BY <2>2
  <2>4. s # {}
    <3>1. ASSUME s = {} PROVE sums[s] = 0
      BY <1>3, <3>1
    <3> QED
      BY <2>3, <3>1 DEF good
  <2>5. good(s \ {one(s)})
    <3>3. n \in Nat /\ Cardinality(s \ {one(s)}) \in Nat /\ Cardinality(s \ {one(s)}) = n - 1
      BY <1>1, <1>2, <2>3, <2>4
    <3>1. n \in Nat /\ n - 1 \in Nat /\ ~(n <= n - 1)
      BY <3>3
    <3>2. n - 1 \notin bad
      BY <2>2, <3>1
    <3> QED
      BY <1>2, <2>3, <2>4, <3>1, <3>2
  <2>6. one(s) \in S /\ g[one(s)] \in Nat
    BY <1>2, <2>4
  <2>7. sums[s] = g[one(s)] + sums[s \ {one(s)}]
    BY <1>3, <2>4
  <2>8. sums[s] \in Nat /\ g[one(s)] <= sums[s] /\ sums[s \ {one(s)}] <= sums[s]
    BY <2>5, <2>6, <2>7 DEF good
  <2>9. ASSUME NEW x \in s PROVE g[x] <= sums[s]
    <3>1. CASE x = one(s)
      BY <2>8, <3>1
    <3>2. CASE x # one(s)
      <4>1. g[x] <= sums[s \ {one(s)}] /\ g[x] \in Nat /\ sums[s \ {one(s)}] \in Nat
        BY <2>5, <3>2 DEF good
      <4> QED
        BY <2>8, <4>1
    <3> QED
      BY <3>1, <3>2
  <2> QED
    BY <2>3, <2>8, <2>9 DEF good
<1>5. S = {} => sums[S] = 0
  BY <1>3
<1>6. ASSUME NEW x, S = {x} PROVE sums[S] = g[x]
  <2>1. one(S) = x /\ S \ {one(S)} = {} /\ S # {}
    BY <1>2, <1>6
  <2>2. sums[{}] = 0 /\ {} \in SUBSET S
    BY <1>3
  <2>3. sums[S] = g[x] + 0 /\ g[x] \in Nat
    BY <1>3, <1>6, <2>1, <2>2
  <2> QED
    BY <2>3
<1> QED
  BY <1>4, <1>5, <1>6 DEF good
================================================================================
