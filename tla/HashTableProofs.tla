---------------------------- MODULE HashTableProofs ----------------------------
(***************************************************************************)
(* For every set of keys and values, every hash function and every         *)
(* capacity: the searches of an insertion end inside the table, no pair is *)
(* lost when others are displaced or the table grows, and a key that was   *)
(* not updated in place is mapped to what it was inserted with.            *)
(***************************************************************************)
EXTENDS HashTable, FiniteSetTheorems, WellFoundedInduction, TLAPS

(* The buckets in use of a table t. *)
Occupied(t) == {p \in DOMAIN t : t[p] # Vacant}

(* A table with buckets 0..n-1.                                            *)
HasBuckets(t, n) == n \in Nat \ {0} /\ DOMAIN t = 0..n - 1

Shape == /\ \E n \in Nat \ {0} : HasBuckets(table, n)
         /\ size \in Nat
         /\ room \in Nat

(* Drives-out append to the vectors without looking at the size, so `size' *)
(* may pass the limit; then it says nothing of the buckets in use, and     *)
(* their own number has to be known.                                       *)
Counted == Cardinality(Occupied(table)) <= size
Airy    == 10 * Cardinality(Occupied(table)) < 9 * Capacity

IInv == Shape /\ Counted /\ Airy

(* The buckets a key lies in, and the places in a list of pairs it waits at. *)
Lies(t, k)  == {p \in DOMAIN t : t[p].key = k}
Waits(w, k) == {i \in DOMAIN w : w[i].key = k}

Buckets == [key : Keys, value : Values, displacement : Int]
Pairs   == [key : Keys, value : Values, at : {NoBucket} \cup Nat]

(* Pairs that wait begin at their home bucket, but for one that was driven *)
(* out of bucket p and goes on from there.                                 *)
Typed(t, w) == /\ \A p \in DOMAIN t : t[p] = Vacant \/ t[p] \in Buckets
               /\ w \in Seq(Pairs)
               /\ \A i \in DOMAIN w : w[i].at = NoBucket \/ (i = 1 /\ w[i].at \in DOMAIN t)

(* What was inserted and not removed lies in the table or waits.           *)
Kept(t, w, l) == \A k \in Keys : l[k] # NoValue => Lies(t, k) # {} \/ Waits(w, k) # {}

(* A clean key is in one place at most, with the value it was given.  The  *)
(* search finds the first of its places only, and a pair that waits may    *)
(* update any: two places of a key could disagree.                         *)
Single(t, w, l, c) ==
    \A k \in c : /\ \A p, q \in Lies(t, k) : p = q
                 /\ \A i, j \in Waits(w, k) : i = j
                 /\ Lies(t, k) = {} \/ Waits(w, k) = {}
                 /\ \A p \in Lies(t, k) : t[p].value = l[k]
                 /\ \A i \in Waits(w, k) : w[i].value = l[k]

Sound(t, w, l, c) == Typed(t, w) /\ Kept(t, w, l) /\ Single(t, w, l, c)

Placed == /\ latest \in [Keys -> Values \cup {NoValue}]
          /\ clean \subseteq Keys
          /\ Sound(table, todo, latest, clean)

-----------------------------------------------------------------------------
(* A table of n buckets has capacity n, and a finite number of them is in  *)
(* use.                                                                    *)
LEMMA BucketsCount ==
    ASSUME NEW t, NEW n, HasBuckets(t, n)
    PROVE  /\ Cardinality(DOMAIN t) = n
           /\ IsFiniteSet(DOMAIN t)
           /\ IsFiniteSet(Occupied(t))
           /\ Cardinality(Occupied(t)) \in Nat
  <1>1. n \in Int /\ n - 1 \in Int /\ 0 \in Int /\ DOMAIN t = 0..n - 1 /\ n > 0
    BY DEF HasBuckets
  <1>2. IsFiniteSet(0..n - 1) /\ Cardinality(0..n - 1) = IF 0 > n - 1 THEN 0 ELSE (n - 1) - 0 + 1
    BY <1>1, FS_Interval
  <1>3. IsFiniteSet(DOMAIN t) /\ Cardinality(DOMAIN t) = n
    BY <1>1, <1>2
  <1>4. Occupied(t) \subseteq DOMAIN t
    BY DEF Occupied
  <1> QED
    BY <1>3, <1>4, FS_Subset, FS_CardinalityType

(* An empty table. *)
LEMMA EmptyTable ==
    ASSUME NEW n \in Nat \ {0}
    PROVE  HasBuckets(Empty(n), n) /\ Occupied(Empty(n)) = {}
  BY DEF HasBuckets, Empty, Occupied

(* Overwriting one bucket, or a place outside the table, occupies at most  *)
(* one more bucket.                                                        *)
LEMMA OneMore ==
    ASSUME NEW t, NEW n, HasBuckets(t, n), NEW p, NEW b, NEW u, u = [t EXCEPT ![p] = b]
    PROVE  /\ HasBuckets(u, n)
           /\ Cardinality(Occupied(u)) <= Cardinality(Occupied(t)) + 1
           /\ p \notin DOMAIN t \/ t[p] # Vacant \/ b = Vacant
                => Cardinality(Occupied(u)) <= Cardinality(Occupied(t))
  <1>1. HasBuckets(u, n)
    BY DEF HasBuckets
  <1>2. IsFiniteSet(Occupied(t)) /\ IsFiniteSet(Occupied(u))
        /\ Cardinality(Occupied(t)) \in Nat /\ Cardinality(Occupied(u)) \in Nat
    BY <1>1, BucketsCount
  <1>3. Occupied(u) \subseteq Occupied(t) \cup {p}
    BY DEF Occupied
  <1>4. /\ IsFiniteSet(Occupied(t) \cup {p})
        /\ Cardinality(Occupied(t) \cup {p}) =
              IF p \in Occupied(t) THEN Cardinality(Occupied(t)) ELSE Cardinality(Occupied(t)) + 1
    BY <1>2, FS_AddElement
  <1>5. Cardinality(Occupied(u)) <= Cardinality(Occupied(t) \cup {p})
    BY <1>3, <1>4, FS_Subset
  <1>6. Cardinality(Occupied(u)) <= Cardinality(Occupied(t)) + 1
    BY <1>2, <1>4, <1>5
  <1>7. ASSUME p \notin DOMAIN t \/ t[p] # Vacant \/ b = Vacant
        PROVE  Cardinality(Occupied(u)) <= Cardinality(Occupied(t))
    <2>1. Occupied(u) \subseteq Occupied(t)
      BY <1>7 DEF Occupied
    <2> QED
      BY <2>1, <1>2, FS_Subset
  <1> QED
    BY <1>1, <1>6, <1>7

(* An update leaves a vacant bucket vacant: it has no value to replace.    *)
LEMMA VacantKept ==
    ASSUME NEW v
    PROVE  [Vacant EXCEPT !.value = v] = Vacant
  BY DEF Vacant

(* The capacity after a growth. *)
LEMMA GrowthType ==
    ASSUME NEW n \in Nat
    PROVE  NewCapacity(n) \in Nat \ {0}
  BY DEF NewCapacity

(* A placement that occupies no more buckets than it appends pairs keeps   *)
(* the invariant, whether the table grows or not.                          *)
LEMMA SettledKeeps ==
    ASSUME IInv, NEW t, NEW n \in Nat, NEW r \in Nat, NEW c, HasBuckets(table, c), HasBuckets(t, c),
           Cardinality(Occupied(t)) <= n, Settled(t, n, r)
    PROVE  IInv'
  <1>1. CASE ~Overloaded(n) /\ table' = t /\ size' = n /\ room' = r
    <2>1. Shape'
      BY <1>1 DEF Shape, HasBuckets
    <2>2. Capacity = c /\ Capacity' = c /\ c \in Nat
      BY <1>1, BucketsCount DEF Capacity, HasBuckets
    <2>3. 10 * n < 9 * c
      BY <1>1, <2>2 DEF Overloaded
    <2>4. Cardinality(Occupied(t)) \in Nat
      BY BucketsCount
    <2>5. Counted'
      BY <1>1 DEF Counted, Occupied, Vacant
    <2>6. 10 * Cardinality(Occupied(t)) < 9 * c
      BY <2>2, <2>3, <2>4
    <2>7. Airy'
      BY <1>1, <2>2, <2>6 DEF Airy, Occupied, Vacant
    <2> QED
      BY <2>1, <2>5, <2>7 DEF IInv
  <1>2. CASE table' = Empty(NewCapacity(r)) /\ size' = 0 /\ room' = NewCapacity(r)
    <2> DEFINE m == NewCapacity(r)
    <2>1. m \in Nat \ {0}
      BY GrowthType
    <2>2. HasBuckets(Empty(m), m) /\ Occupied(Empty(m)) = {}
      BY <2>1, EmptyTable
    <2>3. Cardinality(DOMAIN Empty(m)) = m
      BY <2>2, BucketsCount
    <2> HIDE DEF m
    <2>4. table' = Empty(m) /\ room' = m
      BY <1>2 DEF m
    <2>5. Shape'
      BY <1>2, <2>1, <2>2, <2>4 DEF Shape, HasBuckets
    <2>6. Capacity' = m
      BY <2>3, <2>4 DEF Capacity
    <2>7. Occupied(table)' = {}
      BY <2>2, <2>4 DEF Occupied, Vacant
    <2>8. Cardinality(Occupied(table)') = 0
      BY <2>7, FS_EmptySet
    <2> QED
      BY <1>2, <2>1, <2>5, <2>6, <2>8 DEF IInv, Counted, Airy, Occupied, Vacant
  <1> QED
    BY <1>1, <1>2 DEF Settled

-----------------------------------------------------------------------------
LEMMA InitKeeps == Init => IInv
  <1> SUFFICES ASSUME Init PROVE IInv
    OBVIOUS
  <1>1. InitialCapacity \in Nat \ {0}
    BY TableAssumption
  <1>2. HasBuckets(table, InitialCapacity) /\ Occupied(table) = {}
    BY <1>1, EmptyTable DEF Init
  <1>3. Capacity = InitialCapacity /\ Cardinality(Occupied(table)) = 0
    BY <1>2, BucketsCount, FS_EmptySet DEF Capacity
  <1> QED
    BY <1>1, <1>2, <1>3 DEF Init, IInv, Shape, Counted, Airy

LEMMA NextKeeps == IInv /\ [Next]_vars => IInv'
  <1> SUFFICES ASSUME IInv, [Next]_vars PROVE IInv'
    OBVIOUS
  <1>0. PICK n \in Nat \ {0} : HasBuckets(table, n)
    BY DEF IInv, Shape
  <1>1. /\ size \in Nat /\ room \in Nat /\ Capacity = n
        /\ Cardinality(Occupied(table)) \in Nat
        /\ Cardinality(Occupied(table)) <= size
        /\ 10 * Cardinality(Occupied(table)) < 9 * n
    BY <1>0, BucketsCount DEF IInv, Shape, Counted, Airy, Capacity
  <1> DEFINE occ(t) == Cardinality(Occupied(t))
  <1>a. ASSUME HasBuckets(table', n), occ(table') <= occ(table), size' \in Nat, size' >= size,
               room' \in Nat
        PROVE  IInv'
    <2>1. occ(table') \in Nat
      BY <1>a, BucketsCount
    <2>2. Capacity' = n
      BY <1>a, BucketsCount DEF Capacity
    <2>3. occ(table') <= size' /\ 10 * occ(table') < 9 * n
      BY <1>1, <1>a, <2>1
    <2> QED
      BY <1>0, <1>a, <2>2, <2>3 DEF IInv, Shape, Counted, Airy, Occupied, Vacant, HasBuckets
  <1>2. ASSUME NEW k \in Keys, NEW v \in Values, InsertOrUpdate(k, v)
        PROVE  IInv'
    BY <1>0, <1>1, <1>2, <1>a DEF InsertOrUpdate
  <1>3. ASSUME NEW k \in Keys, RemoveIfContained(k)
        PROVE  IInv'
    <2>1. CASE Places(k) = {}
      BY <1>0, <1>1, <1>3, <1>a, <2>1 DEF RemoveIfContained
    <2>2. CASE Places(k) # {}
      <3>1. table' = [table EXCEPT ![Min(Places(k))] = Vacant] /\ size' = size /\ room' = room
        BY <1>3, <2>2 DEF RemoveIfContained
      <3>2. HasBuckets(table', n) /\ occ(table') <= occ(table)
        BY <1>0, <3>1, OneMore
      <3> QED
        BY <1>1, <1>a, <3>1, <3>2
    <2> QED
      BY <2>1, <2>2
  <1>4. CASE Clear
    <2>1. table' = Empty(n) /\ size' = 0 /\ room' = room
      BY <1>1, <1>4 DEF Clear
    <2>2. HasBuckets(Empty(n), n) /\ Occupied(Empty(n)) = {}
      BY EmptyTable
    <2>3. occ(table') = 0 /\ HasBuckets(table', n)
      BY <2>1, <2>2, FS_EmptySet
    <2>4. Capacity' = n
      BY <2>3, BucketsCount DEF Capacity
    <2> QED
      BY <1>1, <2>1, <2>3, <2>4 DEF IInv, Shape, Counted, Airy, Occupied, Vacant, HasBuckets
  <1>5. ASSUME NEW p, Update(p)
        PROVE  IInv'
    <2> DEFINE t == [table EXCEPT ![p].value = Pair.value]
               b == [table[p] EXCEPT !.value = Pair.value]
    <2>1. t = [table EXCEPT ![p] = b]
      OBVIOUS
    <2>2. table[p] # Vacant \/ b = Vacant
      BY VacantKept
    <2>3. Settled(t, size, room)
      BY <1>5 DEF Update
    <2> HIDE DEF t, b
    <2>4. HasBuckets(t, n) /\ occ(t) <= occ(table)
      BY <1>0, <2>1, <2>2, OneMore
    <2>5. occ(t) \in Nat
      BY <2>4, BucketsCount
    <2>6. occ(t) <= size
      BY <1>1, <2>4, <2>5
    <2> QED
      BY <1>0, <1>1, <2>3, <2>4, <2>6, SettledKeeps
  <1>6. Grown \in Nat
    BY <1>1 DEF Grown
  <1>7. ASSUME NEW p, Insert(p)
        PROVE  IInv'
    <2> DEFINE b == [key |-> Pair.key, value |-> Pair.value, displacement |-> Displacement(p)]
               t == [table EXCEPT ![p] = b]
    <2>1. Settled(t, size + 1, Grown)
      BY <1>7 DEF Insert, With
    <2> HIDE DEF b
    <2>2. HasBuckets(t, n) /\ occ(t) <= occ(table) + 1
      BY <1>0, OneMore
    <2> HIDE DEF t
    <2>3. occ(t) \in Nat
      BY <2>2, BucketsCount
    <2>4. occ(t) <= size + 1 /\ size + 1 \in Nat
      BY <1>1, <2>2, <2>3
    <2> QED
      BY <1>0, <1>6, <2>1, <2>2, <2>4, SettledKeeps
  <1>8. ASSUME NEW p, DriveOut(p)
        PROVE  IInv'
    <2> DEFINE b == [key |-> Pair.key, value |-> Pair.value, displacement |-> p - Start]
    <2>1. table' = [table EXCEPT ![p] = b] /\ size' = size + 1 /\ room' = Grown
      BY <1>8 DEF DriveOut, With
    <2>2. table[p] # Vacant
      BY <1>8 DEF DriveOut, DrivesOut, Yields, Fits
    <2> HIDE DEF b
    <2>3. HasBuckets(table', n) /\ occ(table') <= occ(table)
      BY <1>0, <2>1, <2>2, OneMore
    <2> QED
      BY <1>1, <1>6, <1>a, <2>1, <2>3
  <1>9. ASSUME NEW p, Dangle(p)
        PROVE  IInv'
    BY <1>0, <1>1, <1>9, <1>a DEF Dangle
  <1>10. CASE Place
    <2>1. PICK p : Update(p) \/ Insert(p) \/ DriveOut(p) \/ Dangle(p)
      BY <1>10 DEF Place
    <2> QED
      BY <2>1, <1>5, <1>7, <1>8, <1>9
  <1>11. CASE UNCHANGED vars
    BY <1>0, <1>1, <1>11, <1>a DEF vars
  <1> QED
    BY <1>2, <1>3, <1>4, <1>10, <1>11 DEF Next, Dead

LEMMA VacantAtAllTimes == IInv => SomeVacant
  <1> SUFFICES ASSUME IInv, ~SomeVacant PROVE FALSE
    OBVIOUS
  <1>1. PICK n \in Nat \ {0} : HasBuckets(table, n)
    BY DEF IInv, Shape
  <1>2. Occupied(table) = DOMAIN table
    BY DEF SomeVacant, Occupied
  <1>3. Cardinality(Occupied(table)) = n /\ Capacity = n
    BY <1>1, <1>2, BucketsCount DEF Capacity
  <1> QED
    BY <1>3 DEF IInv, Airy

(* SomeVacant (in the run TableSafety): there is always a vacant bucket,   *)
(* although `size' may pass the limit of hashtable_rehash unnoticed: the   *)
(* searches of insert_or_update stop inside the table.                     *)
THEOREM TableSomeVacant == Spec => []SomeVacant
  BY VacantAtAllTimes, InitKeeps, NextKeeps, PTL DEF Spec

-----------------------------------------------------------------------------
(* Searches *)

LEMMA MinIsLeast ==
    ASSUME NEW S \in SUBSET Nat, S # {}
    PROVE  Min(S) \in S /\ \A q \in S : Min(S) <= q
  <1> DEFINE Less == {ss \in Nat \X Nat : ss[1] < ss[2]}
  <1>1. IsWellFoundedOn(Less, Nat)
    BY NatLessThanWellFounded, Zenon DEF OpToRel
  <1> HIDE DEF Less
  <1>2. PICK p \in S : \A q \in S : ~(<<q, p>> \in Less)
    BY <1>1, WFMin
  <1>3. \A q \in S : <<q, p>> \in Nat \X Nat /\ <<q, p>>[1] = q /\ <<q, p>>[2] = p
    OBVIOUS
  <1>4. \A q \in S : ~(q < p)
    BY <1>2, <1>3, Zenon DEF Less
  <1>5. \A q \in S : p <= q
    BY <1>4
  <1> QED
    BY <1>5 DEF Min

(* The search for a key ends at one of its buckets, if there is one.       *)
LEMMA SearchFinds ==
    ASSUME NEW n, HasBuckets(table, n), NEW k \in Keys
    PROVE  /\ Places(k) \subseteq Lies(table, k)
           /\ Places(k) = {} <=> Lies(table, k) = {}
           /\ Places(k) # {} => Min(Places(k)) \in Lies(table, k)
  <1>1. Capacity = n /\ n \in Nat \ {0} /\ DOMAIN table = 0..n - 1
    BY BucketsCount DEF Capacity, HasBuckets
  <1>2. Home(k) \in 0..n - 1
    BY <1>1, TableAssumption DEF Home
  <1>3. Places(k) \subseteq Lies(table, k)
    BY <1>1, <1>2 DEF Places, PlacesAhead, Holds, Lies
  <1>4. ASSUME NEW p \in Lies(table, k) PROVE Places(k) # {}
    BY <1>1, <1>2 DEF Places, PlacesAhead, Holds, Lies
  <1>5. Places(k) \in SUBSET Nat
    BY <1>1, <1>3 DEF Lies
  <1> QED
    BY <1>3, <1>4, <1>5, MinIsLeast

(* A key that lies in the table has a value. *)
LEMMA GetIsValue ==
    ASSUME NEW n, HasBuckets(table, n), Typed(table, todo), NEW k \in Keys, Lies(table, k) # {}
    PROVE  Get(k) \in Values
  <1>1. Places(k) # {} /\ Min(Places(k)) \in Lies(table, k)
    BY SearchFinds
  <1>2. Min(Places(k)) \in DOMAIN table /\ table[Min(Places(k))].key = k
    BY <1>1 DEF Lies
  <1>3. table[Min(Places(k))] \in Buckets
    BY <1>2, TableAssumption DEF Typed, Vacant
  <1> QED
    BY <1>1, <1>3 DEF Get, Buckets

(* A pair comes to a bucket of the table where it fits, or from which it   *)
(* drives out another.                                                     *)
LEMMA TargetInside ==
    ASSUME NEW n, HasBuckets(table, n), SomeVacant, todo # <<>>, Typed(table, todo)
    PROVE  Target \in DOMAIN table /\ (Fits(Target) \/ DrivesOut(Target))
  <1>1. Capacity = n /\ n \in Nat \ {0} /\ DOMAIN table = 0..n - 1
    BY BucketsCount DEF Capacity, HasBuckets
  <1>2. /\ Pair \in Pairs
        /\ Pair.at = NoBucket \/ Pair.at \in DOMAIN table
    BY DEF Typed, Pair
  <1>3. Start \in 0..n - 1
    <2>1. Home(Pair.key) \in 0..n - 1
      BY <1>1, <1>2, TableAssumption DEF Home, Pairs
    <2> QED
      BY <1>1, <1>2, <2>1 DEF Start
  <1>4. CASE Fits(Start)
    BY <1>1, <1>3, <1>4 DEF Target
  <1>5. CASE ~Fits(Start) /\ Stops # {}
    <2>1. Stops \in SUBSET Nat
      BY <1>1, <1>3 DEF Stops
    <2>2. Min(Stops) \in Stops
      BY <1>5, <2>1, MinIsLeast
    <2>3. Target = Min(Stops)
      BY <1>5 DEF Target
    <2> HIDE DEF Target
    <2> QED
      BY <1>1, <1>3, <2>2, <2>3 DEF Stops, DrivesOut
  <1>6. CASE ~Fits(Start) /\ Stops = {} /\ Wrapped # {}
    <2>1. Wrapped \in SUBSET Nat
      BY <1>1, <1>3 DEF Wrapped
    <2>2. Min(Wrapped) \in Wrapped
      BY <1>6, <2>1, MinIsLeast
    <2>3. Target = Min(Wrapped)
      BY <1>6 DEF Target
    <2> QED
      BY <1>1, <1>3, <2>2, <2>3 DEF Wrapped
  <1>7. CASE ~Fits(Start) /\ Stops = {} /\ Wrapped = {}
    <2>1. PICK v \in DOMAIN table : table[v] = Vacant
      BY DEF SomeVacant
    <2>2. Fits(v)
      BY <2>1 DEF Fits
    <2>3. v \notin Start + 1..n - 1 /\ v \notin 0..Start - 2 /\ v # Start
      BY <1>1, <1>7, <2>2 DEF Stops, Wrapped
    <2>4. v = Start - 1
      BY <1>1, <1>3, <2>1, <2>3
    <2>5. Target = Start - 1
      BY <1>7 DEF Target
    <2> QED
      BY <2>1, <2>2, <2>4, <2>5
  <1> QED
    BY <1>4, <1>5, <1>6, <1>7

-----------------------------------------------------------------------------
(* hashtable_rehash *)

(* It inserts each pair of the table anew, and each one once.              *)
LEMMA ReinsertionsExact ==
    ASSUME NEW t, NEW n, HasBuckets(t, n)
    PROVE  \E m \in Nat : \E f \in Bijection(1..m, Occupied(t)) :
               Reinsertions(t) = [i \in 1..m |-> [key |-> t[f[i]].key, value |-> t[f[i]].value,
                                                  at |-> NoBucket]]
  <1> DEFINE used == Occupied(t)
             m == Cardinality(used)
             below(p) == {q \in used : q < p}
             rank(p) == Cardinality(below(p))
             nth(i) == CHOOSE p \in used : rank(p) = i - 1
             f == [i \in 1..m |-> nth(i)]
  <1>1. IsFiniteSet(used) /\ m \in Nat /\ used \subseteq Nat
    <2>1. used \subseteq Nat
      BY DEF Occupied, HasBuckets
    <2> QED
      BY <2>1, BucketsCount
  <1>2. \A p \in used : IsFiniteSet(below(p)) /\ rank(p) \in Nat
    <2>1. \A p \in used : IsFiniteSet(below(p))
      BY <1>1, FS_Subset
    <2> QED
      BY <2>1, FS_CardinalityType
  <1>3. ASSUME NEW p \in used, NEW q \in used, p < q
        PROVE  rank(p) < rank(q)
    <2>1. p \in Nat /\ q \in Nat
      BY <1>1
    <2>2. below(p) \subseteq below(q) /\ p \in below(q) /\ p \notin below(p)
      <3> HIDE DEF used
      <3>1. \A r \in used : r \in Nat /\ (r < p => r < q)
        BY <1>1, <1>3, <2>1
      <3>2. ~(p < p)
        BY <2>1
      <3> QED
        BY <1>3, <3>1, <3>2
    <2>3. rank(p) <= rank(q) /\ rank(p) # rank(q)
      BY <1>2, <2>2, FS_Subset
    <2>4. rank(p) \in Nat /\ rank(q) \in Nat
      BY <1>2
    <2> HIDE DEF rank
    <2> QED
      BY <2>3, <2>4
  <1>4. ASSUME NEW p \in used PROVE rank(p) \in 0..m - 1
    <2>1. below(p) \subseteq used /\ p \notin below(p)
      BY <1>1
    <2>2. rank(p) <= m /\ rank(p) # m
      BY <1>1, <2>1, FS_Subset
    <2>3. rank(p) \in Nat
      BY <1>2
    <2> HIDE DEF rank, m
    <2> QED
      BY <1>1, <2>2, <2>3
  <1>5. ASSUME NEW p \in used, NEW q \in used, rank(p) = rank(q)
        PROVE  p = q
    <2>1. p \in Nat /\ q \in Nat
      BY <1>1
    <2>2. rank(p) \in Nat /\ rank(q) \in Nat
      BY <1>2
    <2> HIDE DEF rank
    <2>3. ~(p < q) /\ ~(q < p)
      BY <1>3, <1>5, <2>2
    <2> QED
      BY <2>1, <2>3
  <1>6. \A i \in 1..m : \E p \in used : rank(p) = i - 1
    <2> DEFINE ranks == [p \in used |-> rank(p)]
    <2>1. ranks \in Injection(used, 0..m - 1)
      BY <1>4, <1>5 DEF Injection, IsInjective
    <2>2. IsFiniteSet(0..m - 1) /\ Cardinality(0..m - 1) = m
      <3> HIDE DEF m
      <3>1. 0 \in Int /\ m - 1 \in Int
        BY <1>1
      <3>2. IsFiniteSet(0..m - 1) /\ Cardinality(0..m - 1) = IF 0 > m - 1 THEN 0 ELSE (m - 1) - 0 + 1
        BY <3>1, FS_Interval
      <3> QED
        BY <1>1, <3>2
    <2> HIDE DEF ranks, m
    <2>3. ranks \in Surjection(used, 0..m - 1)
      BY <2>1, <2>2, FS_Injection DEF m
    <2>4. \A i \in 1..m : i - 1 \in 0..m - 1
      BY <1>1
    <2> QED
      BY <2>3, <2>4 DEF Surjection, ranks
  <1>7. \A i \in 1..m : nth(i) \in used /\ rank(nth(i)) = i - 1
    BY <1>6
  <1> HIDE DEF rank, m
  <1>8. \A i \in 1..m : i \in Nat
    BY <1>1
  <1>9. ASSUME NEW p \in used PROVE \E i \in 1..m : nth(i) = p
    <2>1. rank(p) + 1 \in 1..m /\ (rank(p) + 1) - 1 = rank(p)
      BY <1>1, <1>4
    <2>2. nth(rank(p) + 1) = p
      <3> HIDE DEF nth
      <3> QED
        BY <1>5, <1>7, <2>1
    <2> QED
      BY <2>1, <2>2
  <1> HIDE DEF nth
  <1>10. \A i, j \in 1..m : nth(i) = nth(j) => i = j
    <2> SUFFICES ASSUME NEW i \in 1..m, NEW j \in 1..m, nth(i) = nth(j) PROVE i = j
      OBVIOUS
    <2>1. i - 1 = j - 1
      BY <1>7
    <2> QED
      BY <1>8, <2>1
  <1>11. f \in Bijection(1..m, used)
    BY <1>7, <1>9, <1>10 DEF Bijection, Injection, Surjection, IsInjective
  <1>12. Reinsertions(t) = [i \in 1..m |-> [key |-> t[nth(i)].key, value |-> t[nth(i)].value,
                                              at |-> NoBucket]]
    BY DEF Reinsertions, m, nth, rank, Occupied
  <1>13. Reinsertions(t) = [i \in 1..m |-> [key |-> t[f[i]].key, value |-> t[f[i]].value,
                                              at |-> NoBucket]]
    BY <1>12
  <1> QED
    BY <1>1, <1>11, <1>13

(* Pairs that all begin at their home bucket. *)
Fresh(w) == \A i \in DOMAIN w : w[i].at = NoBucket

(* Nothing is lost or doubled when the table is made larger.               *)
LEMMA ReinsertionsSound ==
    ASSUME NEW t, NEW n, HasBuckets(t, n), NEW w, NEW l, NEW c \in SUBSET Keys,
           Sound(t, w, l, c), Fresh(w), NEW larger \in Nat \ {0}
    PROVE  Sound(Empty(larger), Reinsertions(t) \o w, l, c)
  <1> DEFINE R == Reinsertions(t)
             u == R \o w
             e == Empty(larger)
  <1>1. PICK m \in Nat : \E f \in Bijection(1..m, Occupied(t)) :
               R = [i \in 1..m |-> [key |-> t[f[i]].key, value |-> t[f[i]].value, at |-> NoBucket]]
    BY ReinsertionsExact
  <1>2. PICK f \in Bijection(1..m, Occupied(t)) :
               R = [i \in 1..m |-> [key |-> t[f[i]].key, value |-> t[f[i]].value, at |-> NoBucket]]
    BY <1>1
  <1>3. /\ \A i \in 1..m : f[i] \in Occupied(t)
        /\ \A i, j \in 1..m : f[i] = f[j] => i = j
        /\ \A p \in Occupied(t) : \E i \in 1..m : f[i] = p
    BY DEF Bijection, Injection, Surjection, IsInjective
  <1>4. \A p \in Occupied(t) : p \in DOMAIN t /\ t[p] \in Buckets
    BY DEF Sound, Typed, Occupied
  <1>5. \A i \in 1..m : /\ R[i] \in Pairs
                        /\ R[i].key = t[f[i]].key /\ R[i].value = t[f[i]].value
                        /\ R[i].at = NoBucket
    BY <1>2, <1>3, <1>4 DEF Pairs, Buckets
  <1>6. R \in Seq(Pairs) /\ Len(R) = m /\ w \in Seq(Pairs)
    BY <1>2, <1>5 DEF Sound, Typed
  <1> HIDE DEF R
  <1>7. /\ u \in Seq(Pairs)
        /\ DOMAIN u = 1..m + Len(w) /\ DOMAIN w = 1..Len(w) /\ Len(w) \in Nat
        /\ \A i \in 1..m : u[i] = R[i]
        /\ \A i \in DOMAIN w : m + i \in DOMAIN u /\ u[m + i] = w[i]
        /\ \A i \in DOMAIN u : i \in 1..m \/ (i - m \in DOMAIN w /\ u[i] = w[i - m])
    BY <1>6
  <1> HIDE DEF u
  <1>8. /\ DOMAIN e = 0..larger - 1
        /\ \A p \in DOMAIN e : e[p] = Vacant
        /\ \A k \in Keys : Lies(e, k) = {}
    BY TableAssumption DEF Empty, Lies, Vacant
  <1>9. \A k \in Keys : Lies(t, k) \subseteq Occupied(t)
    BY TableAssumption DEF Lies, Vacant, Occupied
  <1> HIDE DEF e
  <1>10. ASSUME NEW k \in Keys, NEW i \in Waits(u, k)
         PROVE  \/ /\ i \in 1..m /\ f[i] \in Lies(t, k) /\ u[i].value = t[f[i]].value
                \/ /\ i \notin 1..m /\ i - m \in Waits(w, k) /\ u[i].value = w[i - m].value
    BY <1>3, <1>4, <1>5, <1>7 DEF Waits, Lies
  <1>11. Typed(e, u)
    <2>1. \A i \in DOMAIN u : u[i].at = NoBucket
      BY <1>5, <1>7 DEF Fresh
    <2> QED
      BY <1>7, <1>8, <2>1 DEF Typed
  <1>12. Kept(e, u, l)
    <2> SUFFICES ASSUME NEW k \in Keys, l[k] # NoValue PROVE Waits(u, k) # {}
      BY DEF Kept
    <2>1. CASE Lies(t, k) # {}
      <3>1. PICK p \in Lies(t, k) : TRUE
        BY <2>1
      <3>2. PICK i \in 1..m : f[i] = p
        BY <1>3, <1>9, <3>1
      <3>3. i \in DOMAIN u /\ u[i].key = k
        BY <1>5, <1>7, <3>1, <3>2 DEF Lies
      <3> QED
        BY <3>3 DEF Waits
    <2>2. CASE Waits(w, k) # {}
      BY <1>7, <2>2 DEF Waits
    <2> QED
      BY <2>1, <2>2 DEF Sound, Kept
  <1>13. Single(e, u, l, c)
    <2> SUFFICES ASSUME NEW k \in c
                 PROVE  /\ \A i, j \in Waits(u, k) : i = j
                        /\ \A i \in Waits(u, k) : u[i].value = l[k]
      BY <1>8 DEF Single
    <2>1. /\ \A p, q \in Lies(t, k) : p = q
          /\ \A i, j \in Waits(w, k) : i = j
          /\ Lies(t, k) = {} \/ Waits(w, k) = {}
          /\ \A p \in Lies(t, k) : t[p].value = l[k]
          /\ \A i \in Waits(w, k) : w[i].value = l[k]
      BY DEF Sound, Single
    <2>2. ASSUME NEW i \in Waits(u, k), NEW j \in Waits(u, k) PROVE i = j
      <3>1. CASE Waits(w, k) = {}
        BY <1>3, <1>10, <2>1, <3>1
      <3>2. CASE Lies(t, k) = {}
        <4>1. i - m = j - m
          BY <1>10, <2>1, <3>2
        <4>2. i \in Nat /\ j \in Nat
          BY <1>7 DEF Waits
        <4> QED
          BY <4>1, <4>2
      <3> QED
        BY <2>1, <3>1, <3>2
    <2>3. \A i \in Waits(u, k) : u[i].value = l[k]
      BY <1>10, <2>1
    <2> QED
      BY <2>2, <2>3
  <1> QED
    BY <1>11, <1>12, <1>13 DEF Sound, u, R, e

(* A pair that is placed: the table t and the pairs w that wait stay as    *)
(* they are, or the table is made larger.                                  *)
LEMMA SettledPlaced ==
    ASSUME Placed, NEW t, NEW k, HasBuckets(t, k), NEW n, NEW r \in Nat, Settled(t, n, r),
           Sound(t, Tail(todo), latest, clean), Fresh(Tail(todo)),
           UNCHANGED <<latest, clean>>
    PROVE  Placed'
  <1>1. CASE table' = t /\ todo' = Tail(todo)
    BY <1>1 DEF Placed
  <1>2. CASE table' = Empty(NewCapacity(r)) /\ todo' = Reinsertions(t) \o Tail(todo)
    <2>1. NewCapacity(r) \in Nat \ {0}
      BY GrowthType
    <2>2. Sound(Empty(NewCapacity(r)), Reinsertions(t) \o Tail(todo), latest, clean)
      BY <2>1, ReinsertionsSound DEF Placed
    <2> QED
      BY <1>2, <2>2 DEF Placed
  <1> QED
    BY <1>1, <1>2 DEF Settled

-----------------------------------------------------------------------------
(* Each step keeps every pair, and a clean key in one place *)

(* The first pair is taken off the list. *)
LEMMA PairTaken ==
    ASSUME Typed(table, todo), todo # <<>>
    PROVE  /\ Pair \in Pairs
           /\ 1 \in Waits(todo, Pair.key) /\ todo[1] = Pair
           /\ Tail(todo) \in Seq(Pairs) /\ Fresh(Tail(todo))
           /\ \A i \in DOMAIN todo : i = 1 \/ (i - 1 \in DOMAIN Tail(todo) /\ Tail(todo)[i - 1] = todo[i])
           /\ \A i \in DOMAIN Tail(todo) : /\ i + 1 \in DOMAIN todo /\ i + 1 # 1
                                           /\ Tail(todo)[i] = todo[i + 1]
  <1>1. todo \in Seq(Pairs) /\ Len(todo) \in Nat /\ Len(todo) # 0 /\ DOMAIN todo = 1..Len(todo)
    BY DEF Typed
  <1>2. /\ Pair = todo[1] /\ Pair \in Pairs /\ 1 \in DOMAIN todo
        /\ Tail(todo) \in Seq(Pairs) /\ Len(Tail(todo)) = Len(todo) - 1
        /\ DOMAIN Tail(todo) = 1..Len(todo) - 1
        /\ \A i \in 1..Len(todo) - 1 : Tail(todo)[i] = todo[i + 1]
    BY <1>1 DEF Pair
  <1>3. \A i \in DOMAIN Tail(todo) : /\ i + 1 \in DOMAIN todo /\ i + 1 # 1
                                     /\ Tail(todo)[i] = todo[i + 1]
    BY <1>1, <1>2
  <1>4. Fresh(Tail(todo))
    BY <1>3 DEF Fresh, Typed
  <1>5. ASSUME NEW i \in DOMAIN todo, i # 1
        PROVE  i - 1 \in DOMAIN Tail(todo) /\ Tail(todo)[i - 1] = todo[i]
    BY <1>1, <1>2, <1>5
  <1> QED
    BY <1>2, <1>3, <1>4, <1>5 DEF Waits

(* The pair of key k0 leaves the list for bucket p: it is the only one     *)
(* there of its key, if this one is clean.                                 *)
LEMMA Moved ==
    ASSUME Placed, todo # <<>>, NEW t, DOMAIN t = DOMAIN table,
           NEW p \in DOMAIN table,
           t[p] \in Buckets, t[p].key = Pair.key, t[p].value = Pair.value,
           table[p] = Vacant \/ Holds(p, Pair.key),
           \A q \in DOMAIN table : q # p => t[q] = table[q]
    PROVE  Sound(t, Tail(todo), latest, clean) /\ Fresh(Tail(todo))
  <1> DEFINE w == Tail(todo)
             k0 == Pair.key
  <1>1. Typed(table, todo) /\ Kept(table, todo, latest) /\ Single(table, todo, latest, clean)
        /\ clean \subseteq Keys
    BY DEF Placed, Sound
  <1>2. /\ Pair \in Pairs
        /\ 1 \in Waits(todo, k0) /\ todo[1] = Pair
        /\ w \in Seq(Pairs) /\ Fresh(w)
        /\ \A i \in DOMAIN todo : i = 1 \/ (i - 1 \in DOMAIN w /\ w[i - 1] = todo[i])
        /\ \A i \in DOMAIN w : i + 1 \in DOMAIN todo /\ i + 1 # 1 /\ w[i] = todo[i + 1]
    BY <1>1, PairTaken
  <1>3. \A i \in DOMAIN w : i \in Nat
    BY <1>2
  <1> HIDE DEF w
  <1>4. k0 \in Keys /\ NoValue \notin Keys
    BY <1>2, TableAssumption DEF Pairs
  <1>5. Typed(t, w)
    BY <1>1, <1>2 DEF Typed, Fresh
  <1>6. \A k \in Keys : k # k0 => Lies(t, k) = Lies(table, k)
    BY <1>4 DEF Lies, Holds, Vacant
  <1>7. p \in Lies(t, k0) /\ Lies(t, k0) \subseteq Lies(table, k0) \cup {p}
    BY DEF Lies
  <1>8. Kept(t, w, latest)
    <2> SUFFICES ASSUME NEW k \in Keys, latest[k] # NoValue, k # k0
                 PROVE  Lies(t, k) # {} \/ Waits(w, k) # {}
      BY <1>7 DEF Kept
    <2>1. CASE Lies(table, k) # {}
      BY <1>6, <2>1
    <2>2. CASE Waits(todo, k) # {}
      <3>1. PICK i \in DOMAIN todo : todo[i].key = k
        BY <2>2 DEF Waits
      <3> QED
        BY <1>2, <3>1 DEF Waits
    <2> QED
      BY <1>1, <2>1, <2>2 DEF Kept
  <1>9. ASSUME NEW k \in clean
        PROVE  /\ \A q, r \in Lies(t, k) : q = r
               /\ \A i, j \in Waits(w, k) : i = j
               /\ Lies(t, k) = {} \/ Waits(w, k) = {}
               /\ \A q \in Lies(t, k) : t[q].value = latest[k]
               /\ \A i \in Waits(w, k) : w[i].value = latest[k]
    <2>1. /\ \A q, r \in Lies(table, k) : q = r
          /\ \A i, j \in Waits(todo, k) : i = j
          /\ Lies(table, k) = {} \/ Waits(todo, k) = {}
          /\ \A q \in Lies(table, k) : table[q].value = latest[k]
          /\ \A i \in Waits(todo, k) : todo[i].value = latest[k]
      BY <1>1 DEF Single
    <2>2. \A i \in Waits(w, k) : i + 1 \in Waits(todo, k) /\ i + 1 # 1 /\ w[i].value = todo[i + 1].value
      BY <1>2 DEF Waits
    <2>3. \A i, j \in Waits(w, k) : i = j
      <3> SUFFICES ASSUME NEW i \in Waits(w, k), NEW j \in Waits(w, k) PROVE i = j
        OBVIOUS
      <3>1. i + 1 = j + 1 /\ i \in Nat /\ j \in Nat
        BY <1>3, <2>1, <2>2 DEF Waits
      <3> QED
        BY <3>1
    <2>4. CASE k = k0
      <3>1. Lies(table, k) = {} /\ Waits(w, k) = {}
        BY <1>2, <2>1, <2>2, <2>4
      <3>2. Pair.value = latest[k]
        BY <1>2, <2>1, <2>4
      <3> QED
        BY <1>7, <2>4, <3>1, <3>2
    <2>5. CASE k # k0
      <3>1. Lies(t, k) = Lies(table, k)
        BY <1>1, <1>6, <2>5
      <3>2. \A q \in Lies(t, k) : q # p /\ q \in DOMAIN table
        BY <2>5 DEF Lies
      <3> QED
        BY <2>1, <2>2, <2>3, <3>1, <3>2
    <2> QED
      BY <2>4, <2>5
  <1>10. Single(t, w, latest, clean)
    BY <1>9 DEF Single
  <1> QED
    BY <1>2, <1>5, <1>8, <1>10 DEF Sound, w

(* A pair is driven out and waits: only the two change places.             *)
LEMMA DrivenOutPlaced ==
    ASSUME Placed, todo # <<>>, NEW p \in DOMAIN table, DriveOut(p), Start \in Int, p \in Nat
    PROVE  Placed'
  <1> DEFINE k0 == Pair.key
             b  == table[p]
  <1>1. Typed(table, todo) /\ Kept(table, todo, latest) /\ Single(table, todo, latest, clean)
        /\ clean \subseteq Keys /\ latest \in [Keys -> Values \cup {NoValue}]
    BY DEF Placed, Sound
  <1>2. /\ Pair \in Pairs
        /\ 1 \in Waits(todo, k0) /\ todo[1] = Pair
        /\ Tail(todo) \in Seq(Pairs) /\ Fresh(Tail(todo))
        /\ \A i \in DOMAIN todo : i = 1 \/ (i - 1 \in DOMAIN Tail(todo) /\ Tail(todo)[i - 1] = todo[i])
    BY <1>1, PairTaken
  <1>3. /\ b \in Buckets /\ b.key # k0
        /\ table' = [table EXCEPT ![p] = [key |-> k0, value |-> Pair.value, displacement |-> p - Start]]
        /\ todo' = <<[key |-> b.key, value |-> b.value, at |-> p]>> \o Tail(todo)
        /\ UNCHANGED <<latest, clean>>
    BY <1>1 DEF DriveOut, DrivesOut, Yields, Fits, Holds, With, DrivenOut, Typed
  <1>4. k0 \in Keys /\ NoValue \notin Keys /\ Pair.value \in Values
        /\ b.key \in Keys /\ b.value \in Values
    BY <1>2, <1>3, TableAssumption DEF Pairs, Buckets
  <1>5. /\ todo' \in Seq(Pairs) /\ DOMAIN todo' = DOMAIN todo
        /\ todo'[1].key = b.key /\ todo'[1].value = b.value /\ todo'[1].at = p
        /\ \A i \in DOMAIN todo : i # 1 => todo'[i] = todo[i]
        /\ 1 \in DOMAIN todo
    <2> DEFINE new == [key |-> b.key, value |-> b.value, at |-> p]
    <2>1. new \in Pairs
      BY <1>4 DEF Pairs
    <2>2. todo \in Seq(Pairs) /\ todo # <<>>
      BY <1>1 DEF Typed
    <2>3. new.key = b.key /\ new.value = b.value /\ new.at = p
      OBVIOUS
    <2> HIDE DEF new
    <2>4. todo' = <<new>> \o Tail(todo)
      BY <1>3 DEF new
    <2>5. todo' \in Seq(Pairs) /\ DOMAIN todo' = DOMAIN todo /\ todo'[1] = new /\ 1 \in DOMAIN todo
      BY <1>2, <2>1, <2>2, <2>4
    <2>6. \A i \in DOMAIN todo : i # 1 => todo'[i] = todo[i]
      BY <1>2, <2>1, <2>2, <2>4
    <2> QED
      BY <2>3, <2>5, <2>6
  <1>6. /\ DOMAIN table' = DOMAIN table
        /\ table'[p] \in Buckets /\ table'[p].key = k0 /\ table'[p].value = Pair.value
        /\ \A q \in DOMAIN table : q # p => table'[q] = table[q]
    BY <1>3, <1>4 DEF Buckets
  <1>7. \A i \in DOMAIN todo : i # 1 => todo[i].at = NoBucket
    BY <1>1 DEF Typed
  <1>8. Typed(table', todo')
    BY <1>1, <1>5, <1>6, <1>7 DEF Typed
  <1>9. /\ p \in Lies(table', k0) /\ Lies(table', k0) \subseteq Lies(table, k0) \cup {p}
        /\ Lies(table', b.key) = Lies(table, b.key) \ {p} /\ p \in Lies(table, b.key)
        /\ \A k \in Keys : k # k0 /\ k # b.key => Lies(table', k) = Lies(table, k)
    BY <1>3, <1>6 DEF Lies
  <1>10. /\ 1 \in Waits(todo', b.key)
         /\ Waits(todo', k0) = Waits(todo, k0) \ {1}
         /\ Waits(todo', b.key) = Waits(todo, b.key) \cup {1}
         /\ \A k \in Keys : k # k0 /\ k # b.key => Waits(todo', k) = Waits(todo, k)
    BY <1>2, <1>3, <1>5 DEF Waits
  <1>11. Kept(table', todo', latest)
    BY <1>1, <1>9, <1>10 DEF Kept
  <1>12. ASSUME NEW k \in clean
         PROVE  /\ \A q, r \in Lies(table', k) : q = r
                /\ \A i, j \in Waits(todo', k) : i = j
                /\ Lies(table', k) = {} \/ Waits(todo', k) = {}
                /\ \A q \in Lies(table', k) : table'[q].value = latest[k]
                /\ \A i \in Waits(todo', k) : todo'[i].value = latest[k]
    <2>1. /\ \A q, r \in Lies(table, k) : q = r
          /\ \A i, j \in Waits(todo, k) : i = j
          /\ Lies(table, k) = {} \/ Waits(todo, k) = {}
          /\ \A q \in Lies(table, k) : table[q].value = latest[k]
          /\ \A i \in Waits(todo, k) : todo[i].value = latest[k]
      BY <1>1 DEF Single
    <2>2. CASE k = k0
      BY <1>2, <1>6, <1>9, <1>10, <2>1, <2>2
    <2>3. CASE k = b.key
      BY <1>5, <1>9, <1>10, <2>1, <2>3
    <2>4. CASE k # k0 /\ k # b.key
      <3>1. Lies(table', k) = Lies(table, k) /\ Waits(todo', k) = Waits(todo, k)
        BY <1>1, <1>9, <1>10, <2>4
      <3>2. \A q \in Lies(table, k) : q # p /\ q \in DOMAIN table
        BY <2>4 DEF Lies
      <3>3. \A i \in Waits(todo, k) : i # 1 /\ i \in DOMAIN todo
        BY <1>2, <2>4 DEF Waits
      <3> QED
        BY <1>5, <1>6, <2>1, <3>1, <3>2, <3>3
    <2> QED
      BY <2>2, <2>3, <2>4
  <1>13. Single(table', todo', latest, clean)
    BY <1>12 DEF Single
  <1> QED
    BY <1>1, <1>3, <1>8, <1>11, <1>13 DEF Placed, Sound

LEMMA InitPlaced == Init => Placed
  <1> SUFFICES ASSUME Init PROVE Placed
    OBVIOUS
  <1>1. \A p \in DOMAIN table : table[p] = Vacant
    BY DEF Init, Empty
  <1>2. \A k \in Keys : Lies(table, k) = {} /\ Waits(todo, k) = {}
    BY <1>1, TableAssumption DEF Lies, Waits, Vacant, Init
  <1>3. \A k \in Keys : latest[k] = NoValue
    BY DEF Init
  <1>4. Typed(table, todo)
    BY <1>1 DEF Typed, Init
  <1>5. Kept(table, todo, latest) /\ Single(table, todo, latest, clean)
    BY <1>2, <1>3 DEF Kept, Single, Init
  <1> QED
    BY <1>4, <1>5 DEF Placed, Sound, Init

(* The operations of a table whose last insertion has ended.               *)
LEMMA InsertOrUpdatePlaced ==
    ASSUME Placed, NEW n, HasBuckets(table, n), NEW k \in Keys, NEW v \in Values,
           InsertOrUpdate(k, v)
    PROVE  Placed'
  <1> DEFINE new == [key |-> k, value |-> v, at |-> NoBucket]
  <1>1. /\ todo = <<>> /\ todo' = <<new>> /\ table' = table
        /\ latest' = [latest EXCEPT ![k] = v]
        /\ clean' = IF Get(k) = NoValue THEN clean ELSE clean \ {k}
    BY DEF InsertOrUpdate, Idle
  <1>2. Typed(table, todo) /\ Kept(table, todo, latest) /\ Single(table, todo, latest, clean)
        /\ clean \subseteq Keys /\ latest \in [Keys -> Values \cup {NoValue}]
    BY DEF Placed, Sound
  <1>3. new \in Pairs /\ new.key = k /\ new.value = v /\ new.at = NoBucket
    BY DEF Pairs
  <1> HIDE DEF new
  <1>4. todo' \in Seq(Pairs) /\ DOMAIN todo' = {1} /\ todo'[1] = new
    BY <1>1, <1>3
  <1>5. \A q \in Keys : Waits(todo, q) = {} /\ Waits(todo', q) = IF q = k THEN {1} ELSE {}
    BY <1>1, <1>3, <1>4 DEF Waits
  <1>6. Typed(table', todo')
    BY <1>1, <1>2, <1>3, <1>4 DEF Typed
  <1>7. Kept(table', todo', latest')
    BY <1>1, <1>2, <1>5 DEF Kept
  <1>8. k \in clean' => Lies(table, k) = {}
    <2> SUFFICES ASSUME k \in clean', Lies(table, k) # {} PROVE FALSE
      OBVIOUS
    <2>1. Get(k) = NoValue
      BY <1>1
    <2>2. Get(k) \in Values
      BY <1>2, GetIsValue
    <2> QED
      BY <2>1, <2>2, TableAssumption
  <1>9. Single(table', todo', latest', clean')
    <2> SUFFICES ASSUME NEW q \in clean'
                 PROVE  /\ \A p, r \in Lies(table, q) : p = r
                        /\ \A i, j \in Waits(todo', q) : i = j
                        /\ Lies(table, q) = {} \/ Waits(todo', q) = {}
                        /\ \A p \in Lies(table, q) : table[p].value = latest'[q]
                        /\ \A i \in Waits(todo', q) : todo'[i].value = latest'[q]
      BY <1>1 DEF Single
    <2>1. q \in clean /\ q \in Keys
      BY <1>1, <1>2
    <2>2. CASE q = k
      BY <1>1, <1>2, <1>3, <1>4, <1>5, <1>8, <2>2
    <2>3. CASE q # k
      BY <1>1, <1>2, <1>5, <2>1, <2>3 DEF Single
    <2> QED
      BY <2>2, <2>3
  <1> QED
    BY <1>1, <1>2, <1>6, <1>7, <1>9 DEF Placed, Sound

LEMMA RemovePlaced ==
    ASSUME Placed, NEW n, HasBuckets(table, n), NEW k \in Keys, RemoveIfContained(k)
    PROVE  Placed'
  <1>1. /\ todo = <<>> /\ todo' = todo /\ clean' = clean
        /\ latest' = [latest EXCEPT ![k] = NoValue]
        /\ table' = IF Places(k) = {} THEN table ELSE [table EXCEPT ![Min(Places(k))] = Vacant]
    BY DEF RemoveIfContained, Idle
  <1>2. Typed(table, todo) /\ Kept(table, todo, latest) /\ Single(table, todo, latest, clean)
        /\ clean \subseteq Keys /\ latest \in [Keys -> Values \cup {NoValue}]
    BY DEF Placed, Sound
  <1>3. \A q \in Keys : Waits(todo, q) = {}
    BY <1>1 DEF Waits
  <1>4. NoValue \notin Keys
    BY TableAssumption
  <1>5. CASE Lies(table, k) = {}
    <2>1. table' = table
      BY <1>1, <1>5, SearchFinds
    <2> QED
      <3>1. Kept(table', todo', latest')
        BY <1>1, <1>2, <2>1 DEF Kept
      <3>2. ASSUME NEW q \in clean
            PROVE  \A r \in Lies(table, q) : table[r].value = latest'[q]
        BY <1>1, <1>2, <1>5 DEF Single
      <3>3. ASSUME NEW q \in clean
            PROVE  Waits(todo, q) = {} /\ \A r, s \in Lies(table, q) : r = s
        BY <1>2, <1>3 DEF Single
      <3>4. Single(table, todo, latest', clean)
        BY <3>2, <3>3 DEF Single
      <3> QED
        BY <1>1, <1>2, <2>1, <3>1, <3>4 DEF Placed, Sound
  <1>6. CASE Lies(table, k) # {}
    <2>1. PICK p \in Lies(table, k) : table' = [table EXCEPT ![p] = Vacant]
      BY <1>1, <1>6, SearchFinds
    <2>2. /\ p \in DOMAIN table /\ DOMAIN table' = DOMAIN table
          /\ table'[p] = Vacant /\ Vacant.key = NoValue
          /\ \A q \in DOMAIN table : q # p => table'[q] = table[q]
      BY <2>1 DEF Lies, Vacant
    <2>3. \A q \in Keys : Lies(table', q) = Lies(table, q) \ {p}
      BY <1>4, <2>2 DEF Lies
    <2>4. \A q \in Keys : q # k => Lies(table', q) = Lies(table, q)
      BY <2>3 DEF Lies
    <2>5. Typed(table', todo')
      BY <1>1, <1>2, <2>2 DEF Typed
    <2>6. Kept(table', todo', latest')
      BY <1>1, <1>2, <2>4 DEF Kept
    <2>7. Single(table', todo', latest', clean')
      <3> SUFFICES ASSUME NEW q \in clean
                   PROVE  /\ \A r, s \in Lies(table', q) : r = s
                          /\ \A r \in Lies(table', q) : table'[r].value = latest'[q]
        BY <1>1, <1>2, <1>3 DEF Single
      <3>1. /\ q \in Keys
            /\ \A r, s \in Lies(table, q) : r = s
            /\ \A r \in Lies(table, q) : table[r].value = latest[q]
        BY <1>2 DEF Single
      <3>2. CASE q = k
        BY <2>1, <2>3, <3>1, <3>2
      <3>3. CASE q # k
        <4>1. \A r \in Lies(table', q) : table'[r] = table[r] /\ r \in Lies(table, q)
          BY <2>2, <2>3, <3>1 DEF Lies
        <4> QED
          BY <1>1, <1>2, <3>1, <3>3, <4>1
      <3> QED
        BY <3>2, <3>3
    <2> QED
      BY <1>1, <1>2, <2>5, <2>6, <2>7 DEF Placed, Sound
  <1> QED
    BY <1>5, <1>6

LEMMA ClearPlaced ==
    ASSUME Placed, Clear
    PROVE  Placed'
  <1>1. /\ todo = <<>> /\ todo' = <<>> /\ table' = Empty(Capacity)
        /\ latest' = [k \in Keys |-> NoValue] /\ clean' = Keys
    BY DEF Clear, Idle
  <1>2. \A p \in DOMAIN table' : table'[p] = Vacant
    BY <1>1 DEF Empty
  <1>3. \A k \in Keys : Lies(table', k) = {} /\ Waits(todo', k) = {}
    BY <1>1, <1>2, TableAssumption DEF Lies, Waits, Vacant
  <1>4. Typed(table', todo')
    BY <1>1, <1>2 DEF Typed
  <1>5. Kept(table', todo', latest') /\ Single(table', todo', latest', clean')
    BY <1>1, <1>3 DEF Kept, Single
  <1> QED
    BY <1>1, <1>4, <1>5 DEF Placed, Sound

LEMMA PlacePlaced ==
    ASSUME IInv, Placed, SomeVacant, Place
    PROVE  Placed'
  <1>1. PICK n \in Nat \ {0} : HasBuckets(table, n)
    BY DEF IInv, Shape
  <1>2. Typed(table, todo) /\ todo # <<>>
    BY DEF Placed, Sound, Place
  <1> DEFINE p == Target
  <1>3. p \in DOMAIN table /\ (Fits(p) \/ DrivesOut(p))
    BY <1>1, <1>2, TargetInside
  <1>4. DOMAIN table = 0..n - 1 /\ Capacity = n
    BY <1>1, BucketsCount DEF HasBuckets, Capacity
  <1>5. Pair \in Pairs /\ (Pair.at = NoBucket \/ Pair.at \in DOMAIN table)
    BY <1>2 DEF Typed, Pair
  <1>6. Start \in Int /\ p \in Nat
    <2>1. Home(Pair.key) \in Int
      BY <1>4, <1>5, TableAssumption DEF Home, Pairs
    <2> HIDE DEF p
    <2> QED
      BY <1>3, <1>4, <1>5, <2>1 DEF Start
  <1>7. size \in Nat /\ room \in Nat /\ Grown \in Nat
    BY DEF IInv, Shape, Grown
  <1>8. Update(p) \/ Insert(p) \/ DriveOut(p) \/ Dangle(p)
    BY DEF Place
  <1> HIDE DEF p
  <1>9. CASE Update(p)
    <2> DEFINE t == [table EXCEPT ![p].value = Pair.value]
    <2>1. /\ Holds(p, Pair.key) /\ Settled(t, size, room) /\ UNCHANGED <<latest, clean>>
      BY <1>9 DEF Update
    <2>2. table[p] \in Buckets
      BY <1>2, <1>3, <1>5, <2>1, TableAssumption DEF Typed, Holds, Vacant, Pairs
    <2>3. /\ HasBuckets(t, n) /\ DOMAIN t = DOMAIN table
          /\ t[p] \in Buckets /\ t[p].key = Pair.key /\ t[p].value = Pair.value
          /\ \A q \in DOMAIN table : q # p => t[q] = table[q]
      BY <1>1, <1>3, <1>5, <2>1, <2>2 DEF HasBuckets, Buckets, Pairs, Holds
    <2> HIDE DEF t
    <2>4. Sound(t, Tail(todo), latest, clean) /\ Fresh(Tail(todo))
      BY <1>2, <1>3, <2>1, <2>3, Moved
    <2> QED
      BY <1>7, <2>1, <2>3, <2>4, SettledPlaced
  <1>10. CASE Insert(p)
    <2> DEFINE t == With(p, Displacement(p))
    <2>1. /\ ~Holds(p, Pair.key) /\ ~DrivesOut(p) /\ Settled(t, size + 1, Grown)
          /\ UNCHANGED <<latest, clean>>
      BY <1>10 DEF Insert
    <2>2. table[p] = Vacant
      BY <1>3, <2>1 DEF Fits
    <2>3. Displacement(p) \in Int
      BY <1>6 DEF Displacement
    <2>4. /\ HasBuckets(t, n) /\ DOMAIN t = DOMAIN table
          /\ t[p] \in Buckets /\ t[p].key = Pair.key /\ t[p].value = Pair.value
          /\ \A q \in DOMAIN table : q # p => t[q] = table[q]
      BY <1>1, <1>3, <1>5, <2>3 DEF HasBuckets, With, Buckets, Pairs
    <2> HIDE DEF t
    <2>5. Sound(t, Tail(todo), latest, clean) /\ Fresh(Tail(todo))
      BY <1>2, <1>3, <2>2, <2>4, Moved
    <2> QED
      BY <1>7, <2>1, <2>4, <2>5, SettledPlaced
  <1>11. CASE DriveOut(p)
    BY <1>2, <1>3, <1>6, <1>11, DrivenOutPlaced
  <1>12. CASE Dangle(p)
    BY <1>12 DEF Dangle, Placed
  <1> QED
    BY <1>8, <1>9, <1>10, <1>11, <1>12

LEMMA NextPlaced == IInv /\ Placed /\ [Next]_vars => Placed'
  <1> SUFFICES ASSUME IInv, Placed, [Next]_vars PROVE Placed'
    OBVIOUS
  <1>1. PICK n \in Nat \ {0} : HasBuckets(table, n)
    BY DEF IInv, Shape
  <1>2. ASSUME NEW k \in Keys, NEW v \in Values, InsertOrUpdate(k, v) PROVE Placed'
    BY <1>1, <1>2, InsertOrUpdatePlaced
  <1>3. ASSUME NEW k \in Keys, RemoveIfContained(k) PROVE Placed'
    BY <1>1, <1>3, RemovePlaced
  <1>4. CASE Clear
    BY <1>4, ClearPlaced
  <1>5. CASE Place
    BY <1>5, VacantAtAllTimes, PlacePlaced
  <1>6. CASE UNCHANGED vars
    BY <1>6 DEF vars, Placed
  <1> QED
    BY <1>2, <1>3, <1>4, <1>5, <1>6 DEF Next, Dead

(* NothingLost (in the run TableSafety): what was inserted and not removed *)
(* is found by hashtable_get_value once no insertion runs, whatever was    *)
(* driven out, wrapped around or reinserted into a larger table since.     *)
THEOREM TableNothingLost == Spec => []NothingLost
  <1>1. IInv /\ Placed => NothingLost
    <2> SUFFICES ASSUME IInv, Placed, todo = <<>>, NEW k \in Keys, latest[k] # NoValue
                 PROVE  Get(k) # NoValue
      BY DEF NothingLost, Idle
    <2>1. PICK n \in Nat \ {0} : HasBuckets(table, n)
      BY DEF IInv, Shape
    <2>2. Lies(table, k) # {}
      BY DEF Placed, Sound, Kept, Waits
    <2>3. Get(k) \in Values
      BY <2>1, <2>2, GetIsValue DEF Placed, Sound
    <2> QED
      BY <2>3, TableAssumption
  <1> QED
    BY <1>1, InitKeeps, NextKeeps, InitPlaced, NextPlaced, PTL DEF Spec

(* CleanExact (in the run TableSafety): a key that no insertion met in the *)
(* table has the value it was inserted with, and none after its removal.   *)
THEOREM TableCleanExact == Spec => []CleanExact
  <1>1. IInv /\ Placed => CleanExact
    <2> SUFFICES ASSUME IInv, Placed, todo = <<>>, NEW k \in clean
                 PROVE  Get(k) = latest[k]
      BY DEF CleanExact, Idle
    <2>1. PICK n \in Nat \ {0} : HasBuckets(table, n)
      BY DEF IInv, Shape
    <2>2. k \in Keys /\ Waits(todo, k) = {}
      BY DEF Placed, Waits
    <2>3. CASE Lies(table, k) = {}
      <3>1. Get(k) = NoValue
        BY <2>1, <2>2, <2>3, SearchFinds DEF Get
      <3>2. latest[k] = NoValue
        BY <2>2, <2>3 DEF Placed, Sound, Kept
      <3> QED
        BY <3>1, <3>2
    <2>4. CASE Lies(table, k) # {}
      <3>1. Places(k) # {} /\ Min(Places(k)) \in Lies(table, k)
        BY <2>1, <2>2, <2>4, SearchFinds
      <3>2. table[Min(Places(k))].value = latest[k]
        BY <3>1 DEF Placed, Sound, Single
      <3> QED
        BY <3>1, <3>2 DEF Get
    <2> QED
      BY <2>3, <2>4
  <1> QED
    BY <1>1, InitKeeps, NextKeeps, InitPlaced, NextPlaced, PTL DEF Spec
=============================================================================
