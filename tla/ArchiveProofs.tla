---------------------------- MODULE ArchiveProofs ----------------------------
(***************************************************************************)
(* For every string table, size of the iterator's vector, hash function    *)
(* and number of slots: the cache is least recently used with its links    *)
(* intact, and every way to a text gives the right one.                    *)
(*                                                                         *)
(* A walk along links (Walk, Reads) is compared with the order it has to   *)
(* give, and the first place where they differ is excluded.                *)
(***************************************************************************)
EXTENDS ArchiveStrings, SequenceTheorems, FiniteSetTheorems, WellFoundedInduction, TLAPS

Slot == 1..Slots

(* A bucket of the cache with its links and what it may hold.              *)
BucketType == [most : Slot, lest : Slot,
               prev : [Slot -> Slot \cup {None}], next : [Slot -> Slot \cup {None}],
               id   : [Slot -> Ids \cup {0}],     text : [Slot -> Texts \cup {None}]]

(* The slots in the order of the links, each once.                         *)
InOrder(list, order) ==
    /\ list \in BucketType
    /\ order \in [Slot -> Slot]
    /\ \A j, k \in Slot : order[j] = order[k] => j = k
    /\ \A s \in Slot : \E k \in Slot : order[k] = s
    /\ list.most = order[1] /\ list.lest = order[Slots]
    /\ \A k \in Slot : list.next[order[k]] = IF k < Slots THEN order[k + 1] ELSE None
    /\ \A k \in Slot : k > 1 => list.prev[order[k]] = order[k - 1]

(* The order in which the p-th slot has gone to the front.                 *)
Ahead(order, p) == [k \in Slot |-> IF k = 1 THEN order[p]
                                   ELSE IF k <= p THEN order[k - 1] ELSE order[k]]

(* The text of the dictionary for an identifier. *)
RightText(id) == Entries[TextOf(id)].text

(* The slots hold the identifiers ids in their order, and right texts; the *)
(* slots behind them were never used.                                      *)
Filled(list, order, ids) ==
    /\ ids \in Seq(Ids) /\ Len(ids) <= Slots
    /\ \A k \in Slot : k <= Len(ids) => /\ list.id[order[k]] = ids[k]
                                        /\ list.text[order[k]] = RightText(ids[k])
    /\ \A k \in Slot : k > Len(ids) => list.id[order[k]] = 0 /\ list.text[order[k]] = None

Sound(list, ids) == \E order : InOrder(list, order) /\ Filled(list, order, ids)

(* The identifiers asked for last, when id is asked for after ids.         *)
Renewed(ids, id) == LET asked == <<id>> \o RemoveFirst(ids, id)
                    IN  SubSeq(asked, 1, IF Len(asked) < Slots THEN Len(asked) ELSE Slots)

NumEntries == Len(Entries)

(* What is written of the table: the first entries, at the offsets offs,   *)
(* each with the place of the next one.                                    *)
TableAt(offs) ==
    /\ written \in 0..NumEntries
    /\ offs \in [1..written + 1 -> Nat \ {0}]
    /\ offs[1] = FirstEntry /\ offs[written + 1] = pos
    /\ \A i \in 1..written : offs[i] < pos
    /\ DOMAIN headers = {offs[i] : i \in 1..written}
    /\ DOMAIN texts = {offs[i] + HeaderSize : i \in 1..written}
    /\ \A i \in 1..written :
         /\ headers[offs[i]].id = Entries[i].id
         /\ headers[offs[i]].next = IF i < NumEntries THEN offs[i + 1] ELSE 0
         /\ texts[offs[i] + HeaderSize] = Entries[i].text

Whole == written = NumEntries

(* Where an iterator is that is going to read the i-th entry.              *)
Place(offs, i) == IF i <= NumEntries THEN offs[i] ELSE 0

(* The entries up to the i-th that a search for needle has to find.        *)
Hits(needle, i) == {j \in 1..i : <<needle, Entries[j].text>> \in Occurs}

AllHits(needle) == Hits(needle, NumEntries)

-----------------------------------------------------------------------------
(* Numbers and sets *)

LEMMA SlotsType == /\ Slots \in Nat /\ Slots > 1 /\ 1 \in Slot /\ Slots \in Slot
                   /\ \A s \in Slot : s # None
  BY SidCacheAssumption DEF Slot

LEMMA SlotNumbers ==
    ASSUME NEW k \in Slot
    PROVE  /\ k \in Nat /\ 1 <= k /\ k <= Slots
           /\ k # 1 => k > 1 /\ k - 1 \in Slot
           /\ k # Slots => k < Slots /\ k + 1 \in Slot
  BY SlotsType DEF Slot

(* A non-empty set of numbers has a least one.                             *)
LEMMA LeastOne ==
    ASSUME NEW S \in SUBSET Nat, S # {}
    PROVE  /\ Min(S) \in S
           /\ \A q \in S : Min(S) <= q
  <1> DEFINE Less == {ss \in Nat \X Nat : ss[1] < ss[2]}
  <1>1. IsWellFoundedOn(Less, Nat)
    BY NatLessThanWellFounded, Zenon DEF OpToRel
  <1> HIDE DEF Less
  <1>2. PICK p \in S : \A q \in S : ~(<<q, p>> \in Less)
    BY <1>1, WFMin
  <1>3. \A q \in S : <<q, p>> \in Nat \X Nat /\ <<q, p>>[1] = q /\ <<q, p>>[2] = p
    OBVIOUS
  <1>4. \A q \in S : ~(q < p)
    BY <1>2, <1>3, Zenon DEF Less
  <1>5. \A q \in S : p <= q
    BY <1>4
  <1> QED
    BY <1>5 DEF Min

(* Two members of a set of numbers have different ranks.                   *)
LEMMA RankStrict ==
    ASSUME NEW S \in SUBSET Nat, IsFiniteSet(S), NEW a \in S, NEW b \in S
    PROVE  /\ Rank(S, a) \in 1..Cardinality(S)
           /\ a < b => Rank(S, a) < Rank(S, b)
           /\ Rank(S, a) = Rank(S, b) => a = b
  <1> DEFINE Upto(i) == {j \in S : j <= i}
  <1>1. ASSUME NEW x \in S
        PROVE  /\ IsFiniteSet(Upto(x)) /\ Cardinality(Upto(x)) \in Nat
               /\ Cardinality(Upto(x)) <= Cardinality(S) /\ Cardinality(Upto(x)) # 0
    <2>1. Upto(x) \in SUBSET S /\ x \in Upto(x)
      OBVIOUS
    <2> HIDE DEF Upto
    <2>2. IsFiniteSet(Upto(x)) /\ Cardinality(Upto(x)) <= Cardinality(S)
      BY <2>1, FS_Subset
    <2>3. Cardinality(Upto(x)) # 0
      BY <2>1, <2>2, FS_EmptySet
    <2> QED
      BY <2>2, <2>3, FS_CardinalityType
  <1>2. ASSUME NEW x \in S, NEW y \in S, x < y
        PROVE  Cardinality(Upto(x)) < Cardinality(Upto(y))
    <2>1. Upto(x) \in SUBSET Upto(y) /\ y \in Upto(y) /\ y \notin Upto(x)
      <3>1. x \in Nat /\ y \in Nat /\ \A j \in S : j \in Nat
        OBVIOUS
      <3>2. ~(y <= x) /\ y <= y /\ \A j \in S : j <= x => j <= y
        BY <1>2, <3>1
      <3> QED
        BY <3>2, Zenon
    <2> HIDE DEF Upto
    <2>2. Cardinality(Upto(x)) <= Cardinality(Upto(y)) /\ Cardinality(Upto(x)) # Cardinality(Upto(y))
      BY <1>1, <2>1, FS_Subset
    <2> QED
      BY <1>1, <2>2
  <1>3. Cardinality(S) \in Nat
    BY FS_CardinalityType
  <1> HIDE DEF Upto
  <1>4. Cardinality(Upto(a)) \in 1..Cardinality(S)
    BY <1>1, <1>3
  <1>5. a < b => Cardinality(Upto(a)) < Cardinality(Upto(b))
    BY <1>2
  <1>6. Cardinality(Upto(a)) = Cardinality(Upto(b)) => a = b
    <2>1. a < b \/ b < a \/ a = b
      OBVIOUS
    <2> QED
      BY <1>1, <1>2, <2>1
  <1> QED
    BY <1>4, <1>5, <1>6 DEF Rank, Upto

(* Each rank up to the size of the set is that of a member.                *)
LEMMA RankTakesAll ==
    ASSUME NEW S \in SUBSET Nat, IsFiniteSet(S), NEW r \in 1..Cardinality(S)
    PROVE  \E k \in S : Rank(S, k) = r
  <1> DEFINE T == 1..Cardinality(S)
             f == [k \in S |-> Rank(S, k)]
  <1>1. Cardinality(S) \in Nat
    BY FS_CardinalityType
  <1>2. IsFiniteSet(T) /\ Cardinality(T) = Cardinality(S)
    BY <1>1, FS_Interval
  <1>3. \A k \in S : f[k] \in T
    BY RankStrict
  <1>4. \A j, k \in S : f[j] = f[k] => j = k
    BY RankStrict
  <1>5. f \in [S -> T]
    BY <1>3
  <1> HIDE DEF T, f
  <1>6. f \in Injection(S, T)
    BY <1>4, <1>5 DEF Injection, IsInjective
  <1>7. f \in Surjection(S, T)
    BY <1>2, <1>6, FS_Injection
  <1>8. \E k \in S : f[k] = r
    BY <1>7 DEF Surjection, T
  <1> QED
    BY <1>8 DEF f

LEMMA JoinedSeq ==
    ASSUME NEW S, NEW a \in Seq(S), NEW b \in Seq(S)
    PROVE  /\ a \o b \in Seq(S) /\ Len(a \o b) = Len(a) + Len(b)
           /\ \A k \in 1..Len(a) + Len(b) :
                 (a \o b)[k] = IF k <= Len(a) THEN a[k] ELSE b[k - Len(a)]
  OBVIOUS

-----------------------------------------------------------------------------
(* The links of a bucket *)

(* A walk along the links passes the slots in their order.                 *)
LEMMA WalkIsOrder ==
    ASSUME NEW list, NEW order, InOrder(list, order)
    PROVE  Walk(list) = order
  <1> DEFINE After(before) == LET last == Last(before)
                              IN  IF last = None \/ list.next[last] = None THEN before
                                  ELSE Append(before, list.next[last])
             Far(n) == IF n <= Slots THEN n ELSE Slots
             Way == [n \in 1..Slots + 1 |-> [k \in 1..Far(n) |-> order[k]]]
             Step(f, n) == IF n = 1 THEN <<list.most>> ELSE After(f[n - 1])
             Follows(f) == f = [n \in 1..Slots + 1 |-> Step(f, n)]
             Passed == CHOOSE f : Follows(f)
  <1>1. Walk(list) = Passed[Slots + 1]
    BY DEF Walk
  <1> HIDE DEF After
  <1>2. \A n \in 1..Slots + 1 : Way[n] = [k \in 1..Far(n) |-> order[k]]
    OBVIOUS
  <1>3. ASSUME NEW m \in Slot
        PROVE  After(Way[m]) = Way[m + 1]
    <2>1. m \in Nat /\ m <= Slots /\ m \in 1..Slots + 1 /\ m + 1 \in 1..Slots + 1 /\ Far(m) = m
      BY SlotsType DEF Slot
    <2>2. order \in [Slot -> Slot]
      BY DEF InOrder
    <2>3. Way[m] = [k \in 1..m |-> order[k]]
      BY <1>2, <2>1
    <2> HIDE DEF Way, Far
    <2>4. \A k \in 1..m : order[k] \in Slot
      BY <2>1, <2>2, SlotsType DEF Slot
    <2>5. Way[m] \in Seq(Slot) /\ Len(Way[m]) = m /\ Way[m][m] = order[m]
      BY <2>1, <2>3, <2>4
    <2>6. Last(Way[m]) = order[m]
      BY <2>5 DEF Last
    <2>7. order[m] # None /\ list.next[order[m]] = IF m < Slots THEN order[m + 1] ELSE None
      BY <2>2, SlotsType DEF InOrder
    <2>8. CASE m = Slots
      <3>1. Way[m + 1] = Way[m]
        BY <1>2, <2>1, <2>3, <2>8 DEF Far
      <3> QED
        BY <2>6, <2>7, <2>8, <3>1, SlotsType DEF After
    <2>9. CASE m < Slots
      <3>1. m + 1 \in Slot
        BY <2>9, SlotsType, <2>1 DEF Slot
      <3>2. order[m + 1] # None
        BY <2>2, <3>1, SlotsType
      <3>3. After(Way[m]) = Append(Way[m], order[m + 1])
        BY <2>6, <2>7, <2>9, <3>2 DEF After
      <3>4. Append([k \in 1..m |-> order[k]], order[m + 1]) = [k \in 1..m + 1 |-> order[k]]
        BY <2>1, <2>4
      <3>5. Way[m + 1] = [k \in 1..m + 1 |-> order[k]]
        BY <1>2, <2>1, <2>9, SlotsType DEF Far
      <3> QED
        BY <2>3, <3>3, <3>4, <3>5
    <2> QED
      BY <2>8, <2>9, <2>1, SlotsType
  <1>4. Way[1] = <<list.most>>
    BY <1>2, SlotsType DEF InOrder, Slot
  <1> HIDE DEF Far
  <1>5. Follows(Way)
    <2>1. \A n \in 1..Slots + 1 : Way[n] = Step(Way, n)
      <3> HIDE DEF Way
      <3> SUFFICES ASSUME NEW n \in 1..Slots + 1, n # 1 PROVE Way[n] = After(Way[n - 1])
        BY <1>4
      <3>1. PICK m \in Slot : m = n - 1 /\ n = m + 1
        BY SlotsType DEF Slot
      <3> QED
        BY <1>3, <3>1
    <2> QED
      BY <2>1
  <1>6. Follows(Passed)
    <2> HIDE DEF Follows
    <2> QED
      BY <1>5
  <1>7. Passed = [n \in 1..Slots + 1 |-> Step(Passed, n)]
    BY <1>6
  <1> HIDE DEF Passed, Way
  <1>8. Passed[1] = <<list.most>>
    BY <1>7, SlotsType
  <1>9. ASSUME NEW m \in Slot PROVE Passed[m + 1] = After(Passed[m])
    <2>1. m + 1 \in 1..Slots + 1 /\ m + 1 # 1 /\ (m + 1) - 1 = m
      BY SlotsType DEF Slot
    <2> QED
      BY <1>7, <2>1
  <1> DEFINE Off == {n \in 1..Slots + 1 : Passed[n] # Way[n]}
  <1>10. Off = {}
    <2> SUFFICES ASSUME Off # {} PROVE FALSE
      OBVIOUS
    <2>1. PICK n \in Off : \A m \in Off : n <= m
      <3>1. Off \in SUBSET Nat
        BY SlotsType
      <3> QED
        BY <3>1, LeastOne
    <2>2. n \in 1..Slots + 1 /\ Passed[n] # Way[n] /\ n > 1
      BY <1>4, <1>8, SlotsType
    <2>3. PICK m \in Slot : n = m + 1
      <3>1. n - 1 \in Slot /\ n = (n - 1) + 1
        BY <2>2, SlotsType DEF Slot
      <3> QED
        BY <3>1
    <2>4. m \in 1..Slots + 1 /\ m \notin Off
      BY <2>1, <2>3, SlotsType DEF Slot
    <2>5. Passed[m] = Way[m]
      BY <2>4
    <2> QED
      BY <1>3, <1>9, <2>2, <2>3, <2>5
  <1>11. Passed[Slots + 1] = Way[Slots + 1]
    BY <1>10, SlotsType
  <1>12. Way[Slots + 1] = [k \in 1..Slots |-> order[k]]
    BY SlotsType DEF Way, Far
  <1> QED
    BY <1>1, <1>11, <1>12 DEF InOrder, Slot

LEMMA AheadType ==
    ASSUME NEW list, NEW order, InOrder(list, order), NEW p \in Slot
    PROVE  /\ Ahead(order, p) \in [Slot -> Slot]
           /\ Ahead(order, p)[1] = order[p]
           /\ \A k \in Slot : 1 < k /\ k <= p => Ahead(order, p)[k] = order[k - 1]
           /\ \A k \in Slot : p < k => Ahead(order, p)[k] = order[k]
           /\ \A j, k \in Slot : Ahead(order, p)[j] = Ahead(order, p)[k] => j = k
           /\ \A s \in Slot : \E k \in Slot : Ahead(order, p)[k] = s
  <1> order \in [Slot -> Slot]
    BY DEF InOrder
  <1>1. p \in Nat /\ 1 <= p /\ Slots \in Nat
    BY SlotsType DEF Slot
  <1>2. \A k \in Slot : k \in Nat /\ 1 <= k /\ (k # 1 => k - 1 \in Slot)
    BY SlotNumbers
  <1>3. \A k \in Slot : Ahead(order, p)[k] = IF k = 1 THEN order[p]
                                   ELSE IF k <= p THEN order[k - 1] ELSE order[k]
    BY DEF Ahead
  <1>4. \A k \in Slot : Ahead(order, p)[k] \in Slot
    BY <1>1, <1>2, <1>3
  <1>5. Ahead(order, p) \in [Slot -> Slot]
    BY <1>4 DEF Ahead
  <1>6. Ahead(order, p)[1] = order[p]
    BY <1>3, SlotsType
  <1>7. \A k \in Slot : /\ 1 < k /\ k <= p => Ahead(order, p)[k] = order[k - 1]
                        /\ p < k => Ahead(order, p)[k] = order[k]
    BY <1>1, <1>2, <1>3
  <1>8. ASSUME NEW j \in Slot, NEW k \in Slot, Ahead(order, p)[j] = Ahead(order, p)[k]
        PROVE  j = k
    <2> DEFINE From(i) == IF i = 1 THEN p ELSE IF i <= p THEN i - 1 ELSE i
    <2>1. From(j) \in Slot /\ From(k) \in Slot
      BY <1>1, <1>2
    <2>2. Ahead(order, p)[j] = order[From(j)] /\ Ahead(order, p)[k] = order[From(k)]
      BY <1>3
    <2>3. From(j) = From(k)
      <3>1. \A a, b \in Slot : order[a] = order[b] => a = b
        BY DEF InOrder
      <3> HIDE DEF From
      <3>2. order[From(j)] = order[From(k)]
        BY <2>2, <1>8, Zenon
      <3> QED
        BY <2>1, <3>1, <3>2, Zenon
    <2> QED
      BY <2>3, <1>1, <1>2
  <1>9. ASSUME NEW s \in Slot PROVE \E k \in Slot : Ahead(order, p)[k] = s
    <2>1. PICK i \in Slot : order[i] = s
      BY DEF InOrder
    <2>2. CASE i = p
      BY <2>1, <2>2, <1>6, SlotsType
    <2>3. CASE i < p
      <3>1. i + 1 \in Slot /\ 1 < i + 1 /\ i + 1 <= p /\ (i + 1) - 1 = i
        BY <2>3, <1>1, <1>2 DEF Slot
      <3> QED
        BY <3>1, <2>1, <1>7
    <2>4. CASE i > p
      BY <2>1, <2>4, <1>7
    <2> QED
      BY <2>2, <2>3, <2>4, <1>1, <1>2
  <1> QED
    BY <1>5, <1>6, <1>7, <1>8, <1>9

(* The slot that is made most recent goes to the front, the others keep    *)
(* their order, and no slot changes what it holds.                         *)
LEMMA MadeMostRecent ==
    ASSUME NEW list, NEW order, InOrder(list, order), NEW p \in Slot
    PROVE  /\ InOrder(MakeMostRecent(list, order[p]), Ahead(order, p))
           /\ MakeMostRecent(list, order[p]).id = list.id
           /\ MakeMostRecent(list, order[p]).text = list.text
  <1> DEFINE s == order[p]
             new == Ahead(order, p)
             made == MakeMostRecent(list, s)
  <1>1. /\ list \in BucketType /\ order \in [Slot -> Slot] /\ s \in Slot
        /\ \A j, k \in Slot : order[j] = order[k] => j = k
        /\ \A i \in Slot : \E k \in Slot : order[k] = i
        /\ list.most = order[1] /\ list.lest = order[Slots]
        /\ \A k \in Slot : list.next[order[k]] = IF k < Slots THEN order[k + 1] ELSE None
        /\ \A k \in Slot : k > 1 => list.prev[order[k]] = order[k - 1]
    BY DEF InOrder
  <1>2. p \in Nat /\ 1 <= p /\ p <= Slots /\ Slots \in Nat /\ Slots > 1
    BY SlotsType DEF Slot
  <1>3. /\ new \in [Slot -> Slot] /\ new[1] = s
        /\ \A k \in Slot : 1 < k /\ k <= p => new[k] = order[k - 1]
        /\ \A k \in Slot : p < k => new[k] = order[k]
        /\ \A j, k \in Slot : new[j] = new[k] => j = k
        /\ \A i \in Slot : \E k \in Slot : new[k] = i
    <2>1. new \in [Slot -> Slot] /\ new[1] = s
      BY AheadType
    <2>2. \A k \in Slot : 1 < k /\ k <= p => new[k] = order[k - 1]
      BY AheadType
    <2>3. \A k \in Slot : p < k => new[k] = order[k]
      BY AheadType
    <2>4. \A j, k \in Slot : new[j] = new[k] => j = k
      BY AheadType
    <2>5. \A i \in Slot : \E k \in Slot : new[k] = i
      BY AheadType
    <2> QED
      BY <2>1, <2>2, <2>3, <2>4, <2>5
  <1>4. CASE p = 1
    <2>1. made = list
      BY <1>1, <1>4 DEF MakeMostRecent
    <2>2. \A k \in Slot : new[k] = order[k]
      BY <1>3, <1>4, SlotNumbers
    <2>3. new = order
      BY <2>2, <1>1, <1>3
    <2> QED
      BY <2>1, <2>3
  <1>5. CASE p > 1
    <2> DEFINE P == order[p - 1]
               n == list.next[s]
    <2>1. p - 1 \in Slot /\ P \in Slot /\ list.prev[s] = P /\ P # None /\ list.most # s
          /\ P # s /\ order[1] \in Slot /\ order[1] # s
      <3>1. p - 1 \in Slot /\ p - 1 # p /\ 1 # p /\ 1 \in Slot
        BY <1>2, <1>5, SlotsType DEF Slot
      <3> QED
        BY <1>1, <1>5, <3>1, SlotsType
    <2>2. /\ n \in Slot \cup {None}
          /\ p < Slots => p + 1 \in Slot /\ n = order[p + 1] /\ n # None
          /\ p = Slots => n = None
      <3>1. p < Slots => p + 1 \in Slot
        BY <1>2 DEF Slot
      <3>2. n = IF p < Slots THEN order[p + 1] ELSE None
        BY <1>1
      <3>3. p + 1 \in Slot => order[p + 1] \in Slot /\ order[p + 1] # None
        BY <1>1, SlotsType
      <3> HIDE DEF n
      <3> QED
        BY <1>2, <3>1, <3>2, <3>3
    <2> DEFINE out == IF n # None THEN [[list EXCEPT !.next[P] = n] EXCEPT !.prev[n] = P]
                                  ELSE [[list EXCEPT !.next[P] = n] EXCEPT !.lest = P]
    <2>3. Unlinked(list, s) = out
      BY <2>1 DEF Unlinked
    <2>4. /\ out \in BucketType
          /\ out.most = order[1] /\ out.id = list.id /\ out.text = list.text
          /\ out.next = [list.next EXCEPT ![P] = n]
          /\ n # None => out.prev = [list.prev EXCEPT ![n] = P] /\ out.lest = list.lest
          /\ n = None => out.prev = list.prev /\ out.lest = P
      BY <1>1, <2>1, <2>2 DEF BucketType
    <2>5. made = [out EXCEPT !.prev[out.most] = s, !.next[s] = out.most, !.most = s]
      BY <2>1, <2>3 DEF MakeMostRecent
    <2> HIDE DEF out, made
    <2>6. /\ made \in BucketType
          /\ made.most = s /\ made.lest = out.lest /\ made.id = out.id /\ made.text = out.text
          /\ made.next = [out.next EXCEPT ![s] = order[1]]
          /\ made.prev = [out.prev EXCEPT ![order[1]] = s]
      BY <1>1, <2>1, <2>4, <2>5 DEF BucketType
    <2>7. /\ list.next \in [Slot -> Slot \cup {None}] /\ list.prev \in [Slot -> Slot \cup {None}]
      BY <1>1 DEF BucketType
    <2>8. \A x \in Slot : made.next[x] = IF x = s THEN order[1] ELSE IF x = P THEN n ELSE list.next[x]
      BY <2>1, <2>4, <2>6, <2>7
    <2>9. \A x \in Slot : made.prev[x] = IF x = order[1] THEN s ELSE IF n # None /\ x = n THEN P
                                         ELSE list.prev[x]
      BY <2>1, <2>2, <2>4, <2>6, <2>7
    <2>10. ASSUME NEW k \in Slot
           PROVE  made.next[new[k]] = IF k < Slots THEN new[k + 1] ELSE None
      <3>1. k \in Nat /\ 1 <= k /\ k <= Slots
        BY SlotNumbers
      <3>2. CASE k = 1
        <4>1. 2 \in Slot /\ 1 < 2 /\ 2 <= p /\ 2 - 1 = 1
          BY <1>2, <1>5 DEF Slot
        <4>2. new[k] = s /\ new[k + 1] = order[1]
          BY <1>3, <3>2, <4>1
        <4> QED
          BY <1>1, <1>2, <2>8, <3>2, <4>2
      <3>3. CASE k > 1 /\ k < p
        <4>1. k - 1 \in Slot /\ k + 1 \in Slot /\ 1 < k + 1 /\ k + 1 <= p /\ (k + 1) - 1 = k
              /\ k - 1 # p /\ k - 1 # p - 1 /\ k - 1 < Slots /\ (k - 1) + 1 = k /\ k < Slots
          BY <1>2, <3>1, <3>3 DEF Slot
        <4>2. new[k] = order[k - 1] /\ new[k + 1] = order[k]
          BY <1>3, <3>3, <4>1, <3>1
        <4>3. order[k - 1] # s /\ order[k - 1] # P /\ order[k - 1] \in Slot
          BY <1>1, <2>1, <4>1
        <4>4. list.next[order[k - 1]] = order[k]
          BY <1>1, <4>1
        <4> QED
          BY <2>8, <4>1, <4>2, <4>3, <4>4
      <3>4. CASE k = p
        <4>1. new[k] = P
          BY <1>2, <1>3, <1>5, <3>4
        <4>2. k < Slots => k + 1 \in Slot /\ p < k + 1 /\ new[k + 1] = order[k + 1]
          <5>1. k < Slots => k + 1 \in Slot /\ p < k + 1
            BY <1>2, <3>4 DEF Slot
          <5> QED
            BY <1>3, <5>1
        <4>3. made.next[P] = n
          BY <2>1, <2>8
        <4> HIDE DEF n, P
        <4> QED
          BY <1>2, <2>2, <3>4, <4>1, <4>2, <4>3
      <3>5. CASE k > p
        <4>1. k # p /\ k # p - 1 /\ (k < Slots => k + 1 \in Slot /\ p < k + 1)
          BY <1>2, <3>1, <3>5 DEF Slot
        <4>2. new[k] = order[k] /\ (k < Slots => new[k + 1] = order[k + 1])
          BY <1>3, <3>5, <4>1
        <4>3. order[k] # s /\ order[k] # P /\ order[k] \in Slot
          BY <1>1, <2>1, <4>1
        <4> QED
          BY <1>1, <2>8, <4>1, <4>2, <4>3
      <3> QED
        BY <1>2, <3>1, <3>2, <3>3, <3>4, <3>5
    <2>11. ASSUME NEW k \in Slot, k > 1
           PROVE  made.prev[new[k]] = new[k - 1]
      <3>1. k \in Nat /\ 1 <= k /\ k <= Slots /\ k - 1 \in Slot
        BY SlotNumbers, <2>11
      <3>2. CASE k = 2
        <4>1. new[k] = order[1] /\ new[k - 1] = s
          BY <1>2, <1>3, <1>5, <3>2
        <4> QED
          BY <2>1, <2>9, <4>1
      <3>3. CASE k > 2 /\ k <= p
        <4>1. k - 1 > 1 /\ k - 1 <= p /\ (k - 1) - 1 \in Slot /\ k - 1 # 1 /\ k - 1 # p + 1
          BY <1>2, <3>1, <3>3 DEF Slot
        <4>2. new[k] = order[k - 1] /\ new[k - 1] = order[(k - 1) - 1]
          BY <1>3, <3>1, <3>3, <4>1, <2>11
        <4>3. order[k - 1] \in Slot /\ order[k - 1] # order[1]
          BY <1>1, <3>1, <4>1, SlotsType
        <4>4. n # None => order[k - 1] # n
          BY <1>1, <1>2, <2>2, <3>1, <4>1
        <4>5. list.prev[order[k - 1]] = order[(k - 1) - 1]
          BY <1>1, <3>1, <4>1
        <4> QED
          BY <2>9, <4>2, <4>3, <4>4, <4>5
      <3>4. CASE k = p + 1
        <4>1. p < Slots /\ p + 1 \in Slot /\ k - 1 = p /\ p < k /\ k # 1
          BY <1>2, <3>1, <3>4
        <4>2. new[k] = order[k] /\ new[k - 1] = P
          BY <1>3, <1>5, <1>2, <4>1
        <4>3. n = order[k] /\ n # None /\ order[k] \in Slot /\ order[k] # order[1]
          BY <1>1, <2>2, <4>1, <3>4, SlotsType
        <4> QED
          BY <2>9, <4>2, <4>3
      <3>5. CASE k > p + 1
        <4>1. p < k /\ p < k - 1 /\ k # 1 /\ k # p + 1
          BY <1>2, <3>1, <3>5
        <4>2. new[k] = order[k] /\ new[k - 1] = order[k - 1]
          BY <1>3, <3>1, <4>1
        <4>3. order[k] \in Slot /\ order[k] # order[1] /\ (n # None => order[k] # n)
          BY <1>1, <1>2, <2>2, <4>1, SlotsType
        <4> QED
          BY <1>1, <2>9, <2>11, <4>2, <4>3
      <3> QED
        BY <1>2, <2>11, <3>1, <3>2, <3>3, <3>4, <3>5
    <2>12. made.lest = new[Slots]
      <3>1. CASE p = Slots
        <4>1. new[Slots] = P
          BY <1>2, <1>3, <1>5, <3>1, SlotsType
        <4> QED
          BY <2>2, <2>4, <2>6, <3>1, <4>1
      <3>2. CASE p < Slots
        <4>1. new[Slots] = order[Slots]
          BY <1>3, <3>2, SlotsType
        <4> QED
          BY <1>1, <2>2, <2>4, <2>6, <3>2, <4>1
      <3> QED
        BY <1>2, <3>1, <3>2
    <2>13. InOrder(made, new)
      <3> HIDE DEF new
      <3> QED
        BY <1>3, <2>6, <2>10, <2>11, <2>12 DEF InOrder
    <2> QED
      BY <2>4, <2>6, <2>13 DEF made
  <1> QED
    BY <1>2, <1>4, <1>5

-----------------------------------------------------------------------------
(* What a bucket holds *)

LEMMA EntriesType ==
    /\ Len(Entries) \in Nat /\ Len(Entries) > 0 /\ DOMAIN Entries = 1..Len(Entries)
    /\ \A i \in 1..Len(Entries) : Entries[i].id \in Ids /\ Entries[i].text \in Texts
    /\ \A i, j \in 1..Len(Entries) : Entries[i].id = Entries[j].id => i = j
    /\ None \notin Texts /\ 0 \notin Ids /\ 0 \notin Unknown
  <1>1. Entries \in Seq([id : Ids, text : Texts]) /\ Entries # <<>>
    BY ArchiveStringsAssumption
  <1>2. Len(Entries) \in Nat /\ Len(Entries) > 0 /\ DOMAIN Entries = 1..Len(Entries)
    BY <1>1
  <1>3. ASSUME NEW i \in 1..Len(Entries) PROVE Entries[i].id \in Ids /\ Entries[i].text \in Texts
    BY <1>2 DEF Ids, Texts
  <1> QED
    BY <1>2, <1>3, ArchiveStringsAssumption

LEMMA TextOfEntry ==
    /\ \A i \in 1..Len(Entries) : RightText(Entries[i].id) = Entries[i].text
    /\ \A id \in Ids : RightText(id) \in Texts /\ RightText(id) # None
                      /\ \E i \in 1..Len(Entries) : id = Entries[i].id
  <1>1. ASSUME NEW i \in 1..Len(Entries) PROVE RightText(Entries[i].id) = Entries[i].text
    <2>1. TextOf(Entries[i].id) \in 1..Len(Entries)
          /\ Entries[TextOf(Entries[i].id)].id = Entries[i].id
      BY EntriesType DEF TextOf
    <2>2. TextOf(Entries[i].id) = i
      BY <2>1, EntriesType
    <2> QED
      BY <2>2 DEF RightText
  <1>2. \A id \in Ids : \E i \in 1..Len(Entries) : id = Entries[i].id
    BY EntriesType DEF Ids
  <1> QED
    BY <1>1, <1>2, EntriesType

LEMMA NewBucketSound == Sound(NewBucket, <<>>)
  <1> DEFINE order == [k \in Slot |-> k]
  <1>1. NewBucket \in BucketType
    BY SlotsType, SlotNumbers DEF NewBucket, BucketType, Slot
  <1>2. InOrder(NewBucket, order)
    BY <1>1, SlotsType, SlotNumbers DEF NewBucket, InOrder, Slot
  <1>3. Filled(NewBucket, order, <<>>)
    BY SlotsType, SlotNumbers DEF Filled, NewBucket, Slot
  <1> QED
    BY <1>2, <1>3 DEF Sound

(* A sound bucket is as the property asks.                                 *)
LEMMA SoundIsLRU ==
    ASSUME NEW list, NEW ids, Sound(list, ids)
    PROVE  /\ Linked(list)
           /\ Holds(list, ids)
           /\ \A s \in 1..Slots : list.text[s] # None => list.text[s] = Entries[TextOf(list.id[s])].text
  <1>1. PICK order : InOrder(list, order) /\ Filled(list, order, ids)
    BY DEF Sound
  <1>2. Walk(list) = order
    BY <1>1, WalkIsOrder
  <1>3. order \in [Slot -> Slot] /\ Slots \in Nat /\ Slots > 1
    BY <1>1, SlotsType DEF InOrder
  <1>4. Linked(list)
    <2>1. order \in Seq(Slot) /\ Len(order) = Slots /\ DOMAIN order = Slot
      BY <1>3 DEF Slot
    <2>2. Last(order) = list.lest
      BY <1>1, <2>1 DEF Last, InOrder
    <2>3. ToSet(order) = 1..Slots
      <3>1. ToSet(order) = {order[k] : k \in Slot}
        BY <2>1 DEF ToSet
      <3>2. \A s \in Slot : \E k \in Slot : order[k] = s
        BY <1>1 DEF InOrder
      <3> QED
        BY <1>3, <3>1, <3>2 DEF Slot
    <2>4. \A k \in 2..Slots : list.prev[order[k]] = order[k - 1]
      <3>1. \A k \in Slot : k > 1 => list.prev[order[k]] = order[k - 1]
        BY <1>1 DEF InOrder
      <3>2. \A k \in 2..Slots : k \in Slot /\ k > 1
        BY <1>3 DEF Slot
      <3> QED
        BY <3>1, <3>2
    <2> QED
      BY <1>2, <2>1, <2>2, <2>3, <2>4 DEF Linked
  <1>5. \A k \in Slot : k <= Len(ids) => ids[k] \in Ids
    BY <1>1, SlotNumbers DEF Filled
  <1>6. Holds(list, ids)
    <2>1. ASSUME NEW k \in 1..Slots
          PROVE  IF k <= Len(ids) THEN list.id[order[k]] = ids[k] /\ list.text[order[k]] # None
                                  ELSE list.text[order[k]] = None
      <3>1. k \in Slot /\ k \in Nat /\ Len(ids) \in Nat
        BY <1>1 DEF Slot, Filled
      <3> QED
        BY <1>1, <1>5, <3>1, TextOfEntry DEF Filled
    <2> QED
      BY <1>2, <2>1 DEF Holds
  <1>7. ASSUME NEW s \in 1..Slots, list.text[s] # None
        PROVE  list.text[s] = Entries[TextOf(list.id[s])].text
    <2>1. PICK k \in Slot : order[k] = s
      BY <1>1 DEF InOrder, Slot
    <2>2. k <= Len(ids)
      BY <1>1, <1>7, <2>1, SlotNumbers DEF Filled
    <2> QED
      BY <1>1, <2>1, <2>2 DEF Filled, RightText
  <1> QED
    BY <1>4, <1>6, <1>7

(* A lookup stops at the first slot with the identifier.                   *)
LEMMA LookupStops ==
    ASSUME NEW list, NEW order, NEW ids, InOrder(list, order), Filled(list, order, ids),
           NEW id \in Ids \cup Unknown
    PROVE  \/ /\ Lookup(list, id) = None
              /\ \A k \in 1..Len(ids) : ids[k] # id
           \/ \E p \in 1..Len(ids) : /\ p \in Slot /\ Lookup(list, id) = order[p] /\ order[p] # None
                                     /\ ids[p] = id
                                     /\ \A k \in 1..Len(ids) : ids[k] = id => p <= k
  <1> DEFINE hits == {k \in Slot : list.id[order[k]] = id}
  <1>1. order \in [Slot -> Slot] /\ DOMAIN order = Slot /\ Len(ids) \in Nat /\ Len(ids) <= Slots
    BY DEF InOrder, Filled
  <1>2. Lookup(list, id) = IF hits = {} THEN None ELSE order[Min(hits)]
    <2>1. Walk(list) = order
      BY WalkIsOrder
    <2>2. {k \in DOMAIN order : list.id[order[k]] = id} = hits
      BY <1>1
    <2> HIDE DEF hits
    <2> QED
      BY <2>1, <2>2 DEF Lookup
  <1>3. \A k \in Slot : k \in hits <=> k <= Len(ids) /\ ids[k] = id
    <2>1. id # 0
      BY EntriesType
    <2> QED
      BY <1>1, <2>1, SlotNumbers DEF Filled
  <1>4. \A k \in 1..Len(ids) : k \in Slot
    BY <1>1, SlotsType DEF Slot
  <1>5. CASE hits = {}
    BY <1>2, <1>3, <1>4, <1>5
  <1>6. CASE hits # {}
    <2>1. hits \in SUBSET Nat
      BY SlotNumbers
    <2> HIDE DEF hits
    <2>2. Min(hits) \in hits /\ \A q \in hits : Min(hits) <= q
      BY <1>6, <2>1, LeastOne
    <2>3. Lookup(list, id) = order[Min(hits)]
      BY <1>2, <1>6
    <2>4. Min(hits) \in Slot /\ Min(hits) \in 1..Len(ids)
      <3>1. Min(hits) \in Slot
        BY <2>2 DEF hits
      <3> QED
        BY <1>1, <1>3, <2>2, <3>1, SlotNumbers
    <2>5. order[Min(hits)] # None
      BY <1>1, <2>4, SlotsType
    <2> QED
      BY <1>3, <1>4, <2>2, <2>3, <2>4, <2>5
  <1> QED
    BY <1>5, <1>6

(* An identifier that was not asked for is put before the others, which go *)
(* one place back, the last of them out if there is no room.               *)
LEMMA RenewedByNew ==
    ASSUME NEW ids \in Seq(Ids), Len(ids) <= Slots, NEW id \in Ids,
           \A k \in 1..Len(ids) : ids[k] # id
    PROVE  /\ Renewed(ids, id) \in Seq(Ids)
           /\ Len(Renewed(ids, id)) = IF Len(ids) < Slots THEN Len(ids) + 1 ELSE Slots
           /\ \A k \in 1..Len(Renewed(ids, id)) :
                  Renewed(ids, id)[k] = IF k = 1 THEN id ELSE ids[k - 1]
  <1> DEFINE asked == <<id>> \o ids
             n == IF Len(asked) < Slots THEN Len(asked) ELSE Slots
  <1>1. RemoveFirst(ids, id) = ids
    BY DEF RemoveFirst
  <1>2. Renewed(ids, id) = SubSeq(asked, 1, n)
    BY <1>1 DEF Renewed
  <1>3. /\ asked \in Seq(Ids) /\ Len(asked) = Len(ids) + 1
        /\ \A k \in 1..Len(ids) + 1 : asked[k] = IF k = 1 THEN id ELSE ids[k - 1]
    OBVIOUS
  <1> HIDE DEF asked
  <1>4. n \in Nat /\ n <= Len(asked) /\ n = IF Len(ids) < Slots THEN Len(ids) + 1 ELSE Slots
    BY <1>3, SlotsType
  <1> HIDE DEF n
  <1>5. SubSeq(asked, 1, n) \in Seq(Ids) /\ Len(SubSeq(asked, 1, n)) = n
        /\ \A k \in 1..n : SubSeq(asked, 1, n)[k] = asked[k]
    BY <1>3, <1>4
  <1>6. \A k \in 1..n : k \in 1..Len(ids) + 1
    BY <1>3, <1>4
  <1>7. \A k \in 1..n : SubSeq(asked, 1, n)[k] = IF k = 1 THEN id ELSE ids[k - 1]
    BY <1>3, <1>5, <1>6
  <1> QED
    BY <1>2, <1>4, <1>5, <1>7

(* One that was asked for before goes from its place to the front.         *)
LEMMA RenewedByOld ==
    ASSUME NEW ids \in Seq(Ids), Len(ids) <= Slots, NEW id \in Ids, NEW p \in 1..Len(ids),
           ids[p] = id, \A k \in 1..Len(ids) : ids[k] = id => p <= k
    PROVE  /\ Renewed(ids, id) \in Seq(Ids)
           /\ Len(Renewed(ids, id)) = Len(ids)
           /\ \A k \in 1..Len(ids) :
                  Renewed(ids, id)[k] = IF k = 1 THEN id ELSE IF k <= p THEN ids[k - 1] ELSE ids[k]
  <1> DEFINE I == {i \in 1..Len(ids) : ids[i] = id}
             before == SubSeq(ids, 1, p - 1)
             behind == SubSeq(ids, p + 1, Len(ids))
             asked == <<id>> \o (before \o behind)
  <1>1. SelectInSeq(ids, LAMBDA v : v = id) = Min(I)
    BY DEF SelectInSeq
  <1>2. Min(I) = p
    <2>1. I \in SUBSET Nat /\ p \in I /\ \A k \in I : p <= k
      OBVIOUS
    <2> HIDE DEF I
    <2>2. Min(I) \in I /\ \A q \in I : Min(I) <= q
      BY <2>1, LeastOne
    <2>3. Min(I) <= p /\ p <= Min(I) /\ Min(I) \in Nat /\ p \in Nat
      BY <2>1, <2>2
    <2> QED
      BY <2>3
  <1>3. RemoveFirst(ids, id) = before \o behind
    BY <1>1, <1>2 DEF RemoveFirst, RemoveAt
  <1>4. before \in Seq(Ids) /\ Len(before) = p - 1 /\ \A k \in 1..p - 1 : before[k] = ids[k]
    OBVIOUS
  <1>5. behind \in Seq(Ids) /\ Len(behind) = Len(ids) - p
        /\ \A k \in 1..Len(ids) - p : behind[k] = ids[k + p]
    OBVIOUS
  <1> HIDE DEF before, behind
  <1> DEFINE rest == before \o behind
  <1>10. /\ rest \in Seq(Ids) /\ Len(rest) = Len(ids) - 1
         /\ \A k \in 1..Len(ids) - 1 : rest[k] = IF k < p THEN before[k] ELSE behind[k - (p - 1)]
    <2>1. /\ rest \in Seq(Ids) /\ Len(rest) = Len(before) + Len(behind)
          /\ \A k \in 1..Len(before) + Len(behind) :
                rest[k] = IF k <= Len(before) THEN before[k] ELSE behind[k - Len(before)]
      BY <1>4, <1>5, JoinedSeq
    <2>2. p \in Nat /\ Len(ids) \in Nat /\ Len(before) + Len(behind) = Len(ids) - 1
      BY <1>4, <1>5
    <2> HIDE DEF rest
    <2>3. \A k \in 1..Len(ids) - 1 : k < p <=> k <= Len(before)
      BY <1>4, <2>2
    <2> QED
      BY <1>4, <2>1, <2>2, <2>3
  <1> HIDE DEF rest
  <1>6. /\ asked \in Seq(Ids) /\ Len(asked) = Len(ids)
        /\ \A k \in 1..Len(ids) :
              asked[k] = IF k = 1 THEN id ELSE IF k <= p THEN before[k - 1] ELSE behind[k - p]
    <2>1. asked = <<id>> \o rest
      BY DEF rest
    <2>2. /\ asked \in Seq(Ids) /\ Len(asked) = Len(ids) /\ asked[1] = id
          /\ \A k \in 1..Len(ids) : k # 1 => asked[k] = rest[k - 1]
      <3> HIDE DEF asked
      <3> QED
        BY <1>10, <2>1
    <2> HIDE DEF asked
    <2>3. ASSUME NEW k \in 1..Len(ids), k # 1
          PROVE  rest[k - 1] = IF k <= p THEN before[k - 1] ELSE behind[k - p]
      <3>1. k - 1 \in 1..Len(ids) - 1 /\ (k - 1 < p <=> k <= p) /\ (k - 1) - (p - 1) = k - p
        BY <2>3
      <3>2. rest[k - 1] = IF k - 1 < p THEN before[k - 1] ELSE behind[(k - 1) - (p - 1)]
        BY <1>10, <3>1
      <3> QED
        BY <3>1, <3>2
    <2> QED
      BY <2>2, <2>3
  <1>7. ASSUME NEW k \in 1..Len(ids)
        PROVE  asked[k] = IF k = 1 THEN id ELSE IF k <= p THEN ids[k - 1] ELSE ids[k]
    <2>1. asked[k] = IF k = 1 THEN id ELSE IF k <= p THEN before[k - 1] ELSE behind[k - p]
      BY <1>6
    <2>2. k # 1 /\ k <= p => before[k - 1] = ids[k - 1]
      BY <1>4
    <2>3. ~(k <= p) => behind[k - p] = ids[k]
      <3>1. ~(k <= p) => k - p \in 1..Len(ids) - p /\ (k - p) + p = k
        OBVIOUS
      <3> QED
        BY <1>5, <3>1
    <2> HIDE DEF asked
    <2> QED
      BY <2>1, <2>2, <2>3
  <1>8. Renewed(ids, id) = SubSeq(asked, 1, Len(asked))
    <2>1. (IF Len(asked) < Slots THEN Len(asked) ELSE Slots) = Len(asked)
      BY <1>6, SlotsType
    <2> QED
      BY <1>3, <2>1 DEF Renewed
  <1> HIDE DEF asked
  <1>9. SubSeq(asked, 1, Len(asked)) = asked
    BY <1>6
  <1> QED
    BY <1>6, <1>7, <1>8, <1>9

(* A hit: the slot goes to the front, its identifier with it.              *)
LEMMA HitSound ==
    ASSUME NEW list, NEW ids, Sound(list, ids), NEW id \in Ids \cup Unknown,
           Lookup(list, id) # None
    PROVE  /\ id \in Ids
           /\ list.text[Lookup(list, id)] = RightText(id)
           /\ Sound(MakeMostRecent(list, Lookup(list, id)), Renewed(ids, id))
  <1>1. PICK order : InOrder(list, order) /\ Filled(list, order, ids)
    BY DEF Sound
  <1>2. PICK p \in 1..Len(ids) : /\ p \in Slot /\ Lookup(list, id) = order[p]
                                 /\ ids[p] = id
                                 /\ \A k \in 1..Len(ids) : ids[k] = id => p <= k
    BY <1>1, LookupStops
  <1>3. ids \in Seq(Ids) /\ Len(ids) \in Nat /\ Len(ids) <= Slots /\ p \in Nat /\ p <= Len(ids)
    BY <1>1 DEF Filled
  <1>4. id \in Ids
    BY <1>2, <1>3
  <1>5. list.text[order[p]] = RightText(id)
    BY <1>1, <1>2, <1>3 DEF Filled
  <1> DEFINE made == MakeMostRecent(list, order[p])
             new == Ahead(order, p)
             now == Renewed(ids, id)
  <1>6. InOrder(made, new) /\ made.id = list.id /\ made.text = list.text
    BY <1>1, <1>2, MadeMostRecent
  <1>7. /\ now \in Seq(Ids) /\ Len(now) = Len(ids)
        /\ \A k \in 1..Len(ids) :
              now[k] = IF k = 1 THEN id ELSE IF k <= p THEN ids[k - 1] ELSE ids[k]
    BY <1>2, <1>3, <1>4, RenewedByOld
  <1>8. /\ new[1] = order[p]
        /\ \A k \in Slot : 1 < k /\ k <= p => new[k] = order[k - 1]
        /\ \A k \in Slot : p < k => new[k] = order[k]
    <2>1. new[1] = order[p]
      BY <1>1, <1>2, AheadType
    <2>2. \A k \in Slot : 1 < k /\ k <= p => new[k] = order[k - 1]
      BY <1>1, <1>2, AheadType
    <2>3. \A k \in Slot : p < k => new[k] = order[k]
      BY <1>1, <1>2, AheadType
    <2> QED
      BY <2>1, <2>2, <2>3
  <1> HIDE DEF made, new, now
  <1>9. ASSUME NEW k \in Slot, k <= Len(ids)
        PROVE  made.id[new[k]] = now[k] /\ made.text[new[k]] = RightText(now[k])
    <2>1. k \in Nat /\ 1 <= k /\ (k # 1 => k > 1 /\ k - 1 \in Slot /\ k - 1 <= Len(ids))
      BY <1>3, <1>9, SlotNumbers
    <2>2. \A j \in Slot : j <= Len(ids) => /\ list.id[order[j]] = ids[j]
                                           /\ list.text[order[j]] = RightText(ids[j])
      BY <1>1 DEF Filled
    <2>3. CASE k = 1
      BY <1>2, <1>3, <1>6, <1>7, <1>8, <2>1, <2>2, <2>3
    <2>4. CASE k > 1 /\ k <= p
      <3>1. new[k] = order[k - 1] /\ now[k] = ids[k - 1]
        BY <1>3, <1>7, <1>8, <2>1, <2>4, <1>9
      <3> QED
        BY <1>6, <2>1, <2>2, <2>4, <3>1
    <2>5. CASE k > p
      <3>1. new[k] = order[k] /\ now[k] = ids[k]
        BY <1>2, <1>3, <1>7, <1>8, <2>1, <2>5, <1>9
      <3> QED
        BY <1>6, <1>9, <2>2, <3>1
    <2> QED
      BY <1>3, <2>1, <2>3, <2>4, <2>5
  <1>10. ASSUME NEW k \in Slot, k > Len(ids)
         PROVE  made.id[new[k]] = 0 /\ made.text[new[k]] = None
    <2>1. k > p
      <3>1. k \in Nat
        BY SlotNumbers
      <3> QED
        BY <1>3, <1>10, <3>1
    <2> QED
      BY <1>1, <1>6, <1>8, <1>10, <2>1 DEF Filled
  <1>11. Filled(made, new, now)
    BY <1>3, <1>7, <1>9, <1>10 DEF Filled
  <1>12. Sound(made, now)
    BY <1>6, <1>11 DEF Sound
  <1> QED
    BY <1>2, <1>4, <1>5, <1>12 DEF made, now

(* A miss: the least recent slot takes the text that was fetched.          *)
LEMMA MissSound ==
    ASSUME NEW list, NEW ids, Sound(list, ids), NEW id \in Ids, Lookup(list, id) = None
    PROVE  Sound(Stored(list, id, RightText(id)), Renewed(ids, id))
  <1>1. PICK order : InOrder(list, order) /\ Filled(list, order, ids)
    BY DEF Sound
  <1>2. \A k \in 1..Len(ids) : ids[k] # id
    BY <1>1, LookupStops
  <1>3. ids \in Seq(Ids) /\ Len(ids) \in Nat /\ Len(ids) <= Slots
    BY <1>1 DEF Filled
  <1> DEFINE s == list.lest
             put == [list EXCEPT !.text[s] = RightText(id), !.id[s] = id]
             made == MakeMostRecent(put, s)
             new == Ahead(order, Slots)
             now == Renewed(ids, id)
  <1>4. s = order[Slots] /\ s \in Slot /\ list \in BucketType /\ order \in [Slot -> Slot]
    BY <1>1, SlotsType DEF InOrder
  <1>5. /\ put \in BucketType
        /\ put.most = list.most /\ put.lest = list.lest /\ put.prev = list.prev /\ put.next = list.next
        /\ \A x \in Slot : put.id[x] = IF x = s THEN id ELSE list.id[x]
        /\ \A x \in Slot : put.text[x] = IF x = s THEN RightText(id) ELSE list.text[x]
    BY <1>4, TextOfEntry DEF BucketType
  <1> HIDE DEF put, s
  <1>6. InOrder(put, order)
    BY <1>1, <1>5 DEF InOrder
  <1>7. InOrder(made, new) /\ made.id = put.id /\ made.text = put.text
    BY <1>4, <1>6, MadeMostRecent, SlotsType
  <1>8. /\ now \in Seq(Ids) /\ Len(now) = IF Len(ids) < Slots THEN Len(ids) + 1 ELSE Slots
        /\ \A k \in 1..Len(now) : now[k] = IF k = 1 THEN id ELSE ids[k - 1]
    BY <1>2, <1>3, RenewedByNew
  <1>9. /\ new[1] = s
        /\ \A k \in Slot : k > 1 => new[k] = order[k - 1]
    <2>1. /\ new[1] = order[Slots]
          /\ \A k \in Slot : 1 < k /\ k <= Slots => new[k] = order[k - 1]
      BY <1>1, AheadType, SlotsType
    <2> QED
      BY <1>4, <2>1, SlotNumbers
  <1> HIDE DEF made, new, now
  <1>10. ASSUME NEW k \in Slot, k > 1
         PROVE  /\ k - 1 \in Slot /\ order[k - 1] \in Slot /\ order[k - 1] # s
                /\ made.id[new[k]] = list.id[order[k - 1]]
                /\ made.text[new[k]] = list.text[order[k - 1]]
    <2>1. k - 1 \in Slot /\ k - 1 # Slots
      BY <1>10, SlotNumbers
    <2>2. order[k - 1] \in Slot /\ order[k - 1] # s
      BY <1>1, <1>4, <2>1, SlotsType DEF InOrder
    <2> QED
      BY <1>5, <1>7, <1>9, <1>10, <2>1, <2>2
  <1>11. ASSUME NEW k \in Slot, k <= Len(now)
         PROVE  made.id[new[k]] = now[k] /\ made.text[new[k]] = RightText(now[k])
    <2>1. k \in 1..Len(now) /\ k \in Nat /\ (k # 1 => k > 1 /\ k - 1 <= Len(ids))
      BY <1>3, <1>8, <1>11, SlotNumbers, SlotsType
    <2>2. CASE k = 1
      BY <1>4, <1>5, <1>7, <1>8, <1>9, <2>1, <2>2
    <2>3. CASE k > 1
      <3>1. now[k] = ids[k - 1]
        BY <1>8, <2>1, <2>3
      <3> QED
        BY <1>1, <1>10, <2>1, <2>3, <3>1 DEF Filled
    <2> QED
      BY <2>1, <2>2, <2>3
  <1>12. ASSUME NEW k \in Slot, k > Len(now)
         PROVE  made.id[new[k]] = 0 /\ made.text[new[k]] = None
    <2>1. k > 1 /\ k - 1 > Len(ids)
      BY <1>3, <1>8, <1>12, SlotNumbers, SlotsType
    <2> QED
      BY <1>1, <1>10, <2>1 DEF Filled
  <1>13. Filled(made, new, now)
    BY <1>3, <1>8, <1>11, <1>12, SlotsType DEF Filled
  <1>14. Sound(made, now)
    BY <1>7, <1>13 DEF Sound
  <1> QED
    BY <1>14 DEF Stored, made, now, put, s

-----------------------------------------------------------------------------
(* The iterator *)

(* The entries that a vector holds, the first of them being the i-th, and  *)
(* where the next vector begins.                                           *)
VectorIs(offs, i, m) ==
    /\ i + m <= NumEntries + 1
    /\ AfterVector = Place(offs, i + m)
    /\ DOMAIN Infos = 1..m
    /\ \A k \in 1..m : /\ Infos[k].id = Entries[(i - 1) + k].id
                       /\ Infos[k].offset = offs[(i - 1) + k] + HeaderSize
                       /\ texts[Infos[k].offset] = Entries[(i - 1) + k].text

(* Every entry of the whole table leads to the next, the last one to 0.    *)
LEMMA LinksOfTable ==
    ASSUME NEW offs, TableAt(offs), Whole
    PROVE  /\ \A j \in 1..NumEntries : /\ offs[j] \in DOMAIN headers /\ offs[j] \in Nat \ {0}
                                       /\ headers[offs[j]].next = Place(offs, j + 1)
           /\ 0 \notin DOMAIN headers
           /\ Place(offs, NumEntries + 1) = 0
           /\ \A j \in 1..NumEntries : Place(offs, j) # 0
           /\ \A j \in 1..NumEntries + 1 : Place(offs, j) \in Nat
  <1>1. NumEntries \in Nat /\ written = NumEntries
    BY EntriesType DEF NumEntries, Whole
  <1>2. offs \in [1..NumEntries + 1 -> Nat \ {0}] /\ DOMAIN headers = {offs[j] : j \in 1..NumEntries}
    BY <1>1 DEF TableAt
  <1>3. \A j \in 1..NumEntries : j \in 1..NumEntries + 1 /\ j <= NumEntries /\ j \in Nat
    BY <1>1
  <1>4. \A j \in 1..NumEntries : offs[j] \in Nat \ {0} /\ offs[j] \in DOMAIN headers
                                /\ Place(offs, j) = offs[j]
    BY <1>2, <1>3 DEF Place
  <1>5. ASSUME NEW j \in 1..NumEntries PROVE headers[offs[j]].next = Place(offs, j + 1)
    <2>1. headers[offs[j]].next = IF j < NumEntries THEN offs[j + 1] ELSE 0
      <3>1. \A k \in 1..written : headers[offs[k]].next = IF k < NumEntries THEN offs[k + 1] ELSE 0
        BY DEF TableAt
      <3> QED
        BY <1>1, <3>1
    <2>2. j < NumEntries <=> j + 1 <= NumEntries
      BY <1>1
    <2> QED
      BY <2>1, <2>2 DEF Place
  <1>6. Place(offs, NumEntries + 1) = 0
    BY <1>1 DEF Place
  <1>7. \A j \in 1..NumEntries + 1 : Place(offs, j) \in Nat
    BY <1>1, <1>4, <1>6
  <1> QED
    BY <1>2, <1>4, <1>5, <1>6, <1>7

(* The reads of a vector follow the links from entry to entry.             *)
LEMMA ReadsFollow ==
    ASSUME NEW offs, TableAt(offs), Whole, NEW i \in 1..NumEntries, it = Place(offs, i),
           NEW n \in 0..Vector
    PROVE  Reads[n] = [k \in 1..(IF n <= NumEntries + 1 - i THEN n ELSE NumEntries + 1 - i) + 1
                         |-> Place(offs, (i - 1) + k)]
  <1> DEFINE After(before) == IF Last(before) \notin DOMAIN headers THEN before
                              ELSE Append(before, headers[Last(before)].next)
             Reach(x) == IF x <= NumEntries + 1 - i THEN x ELSE NumEntries + 1 - i
             Way == [x \in 0..Vector |-> [k \in 1..Reach(x) + 1 |-> Place(offs, (i - 1) + k)]]
             Step(f, x) == IF x = 0 THEN <<it>> ELSE After(f[x - 1])
             Follows(f) == f = [x \in 0..Vector |-> Step(f, x)]
  <1>1. Reads = CHOOSE f : Follows(f)
    BY DEF Reads
  <1>2. Vector \in Nat /\ NumEntries \in Nat /\ i \in Nat /\ 1 <= i /\ i <= NumEntries
    BY ArchiveStringsAssumption, EntriesType DEF NumEntries
  <1>3. /\ \A j \in 1..NumEntries : offs[j] \in DOMAIN headers /\ offs[j] \in Nat
                                   /\ headers[offs[j]].next = Place(offs, j + 1)
        /\ 0 \notin DOMAIN headers
        /\ Place(offs, NumEntries + 1) = 0
        /\ \A j \in 1..NumEntries + 1 : Place(offs, j) \in Nat
    BY <1>2, LinksOfTable
  <1> HIDE DEF After
  <1>4. \A x \in 0..Vector : Way[x] = [k \in 1..Reach(x) + 1 |-> Place(offs, (i - 1) + k)]
    OBVIOUS
  <1>5. Way = [x \in 0..Vector |-> Way[x]]
    OBVIOUS
  <1> HIDE DEF Way
  <1>6. ASSUME NEW x \in 0..Vector, x # Vector
        PROVE  After(Way[x]) = Way[x + 1]
    <2> DEFINE r == Reach(x)
    <2>1. /\ x \in Nat /\ x + 1 \in 0..Vector /\ r \in Nat /\ r <= NumEntries + 1 - i
          /\ Reach(x + 1) = IF r = NumEntries + 1 - i THEN r ELSE r + 1
      BY <1>2, <1>6
    <2> HIDE DEF r
    <2>2. Way[x] = [k \in 1..r + 1 |-> Place(offs, (i - 1) + k)]
      BY <1>4 DEF r
    <2>3. Way[x + 1] = [k \in 1..Reach(x + 1) + 1 |-> Place(offs, (i - 1) + k)]
      BY <1>4, <2>1
    <2> HIDE DEF Reach
    <2> DEFINE here == (i - 1) + (r + 1)
    <2>4. /\ here \in 1..NumEntries + 1
          /\ \A k \in 1..r + 1 : (i - 1) + k \in 1..NumEntries + 1
      BY <1>2, <2>1
    <2>5. \A k \in 1..r + 1 : Place(offs, (i - 1) + k) \in Nat
      BY <1>3, <2>4
    <2>6. Way[x] \in Seq(Nat) /\ Len(Way[x]) = r + 1 /\ Way[x][r + 1] = Place(offs, here)
      BY <2>1, <2>2, <2>5
    <2>7. Last(Way[x]) = Place(offs, here)
      BY <2>6 DEF Last
    <2>8. CASE r = NumEntries + 1 - i
      <3>1. here = NumEntries + 1
        BY <1>2, <2>8
      <3>2. After(Way[x]) = Way[x]
        BY <1>3, <2>7, <3>1 DEF After
      <3> QED
        BY <2>1, <2>2, <2>3, <2>8, <3>2
    <2>9. CASE r # NumEntries + 1 - i
      <3>1. here \in 1..NumEntries /\ here + 1 = (i - 1) + (r + 2) /\ Reach(x + 1) + 1 = r + 2
        BY <1>2, <2>1, <2>9
      <3>2. Place(offs, here) = offs[here]
        BY <1>2, <3>1 DEF Place
      <3>3. After(Way[x]) = Append(Way[x], Place(offs, (i - 1) + (r + 2)))
        BY <1>3, <2>7, <3>1, <3>2 DEF After
      <3> DEFINE P(k) == Place(offs, (i - 1) + k)
      <3>4. /\ Way[x] = [k \in 1..r + 1 |-> P(k)] /\ Way[x + 1] = [k \in 1..r + 2 |-> P(k)]
            /\ After(Way[x]) = Append(Way[x], P(r + 2)) /\ \A k \in 1..r + 1 : P(k) \in Nat
        BY <2>2, <2>3, <2>5, <3>1, <3>3
      <3> HIDE DEF P
      <3>5. Append([k \in 1..r + 1 |-> P(k)], P(r + 2)) = [k \in 1..r + 2 |-> P(k)]
        BY <2>1
      <3> QED
        BY <3>4, <3>5
    <2> QED
      BY <2>8, <2>9
  <1>7. Way[0] = <<it>>
    <2>1. Reach(0) = 0 /\ 0 \in 0..Vector /\ (i - 1) + 1 = i
      BY <1>2
    <2> HIDE DEF Reach
    <2>2. Reach(0) + 1 = 1
      BY <2>1
    <2>3. Way[0] = [k \in 1..Reach(0) + 1 |-> Place(offs, (i - 1) + k)]
      BY <1>4, <2>1
    <2> QED
      BY <2>1, <2>2, <2>3
  <1> HIDE DEF Reach
  <1>8. Follows(Way)
    <2>1. ASSUME NEW x \in 0..Vector, x # 0 PROVE Way[x] = After(Way[x - 1])
      <3>1. PICK y \in 0..Vector : y = x - 1 /\ x = y + 1 /\ y # Vector
        BY <1>2, <2>1
      <3> QED
        BY <1>6, <3>1
    <2> QED
      BY <1>5, <1>7, <2>1
  <1>9. Follows(Reads)
    <2> HIDE DEF Follows
    <2> QED
      BY <1>1, <1>8
  <1>10. Reads[0] = <<it>>
    BY <1>2, <1>9
  <1>11. ASSUME NEW x \in 0..Vector, x # Vector PROVE Reads[x + 1] = After(Reads[x])
    <2>1. x + 1 \in 0..Vector /\ x + 1 # 0 /\ (x + 1) - 1 = x
      BY <1>2, <1>11
    <2> QED
      BY <1>9, <2>1
  <1> DEFINE Off == {x \in 0..Vector : Reads[x] # Way[x]}
  <1>12. Off = {}
    <2> SUFFICES ASSUME Off # {} PROVE FALSE
      OBVIOUS
    <2>1. PICK x \in Off : \A y \in Off : x <= y
      <3>1. Off \in SUBSET Nat
        BY <1>2
      <3> HIDE DEF Off
      <3> QED
        BY <3>1, LeastOne
    <2>2. x \in 0..Vector /\ Reads[x] # Way[x] /\ x # 0
      BY <1>7, <1>10
    <2>3. PICK y \in 0..Vector : x = y + 1 /\ y # Vector
      <3>1. x - 1 \in 0..Vector /\ x = (x - 1) + 1 /\ x - 1 # Vector
        BY <1>2, <2>2
      <3> QED
        BY <3>1
    <2>4. y \notin Off
      BY <2>1, <2>3
    <2>5. Reads[y] = Way[y]
      BY <2>4
    <2> QED
      BY <1>6, <1>11, <2>2, <2>3, <2>5
  <1>13. Reads[n] = Way[n]
    BY <1>12
  <1> QED
    BY <1>4, <1>13 DEF Reach

(* A vector that begins at an entry holds it and those behind it, as many  *)
(* as there are or as it has room for.                                     *)
LEMMA VectorRead ==
    ASSUME NEW offs, TableAt(offs), Whole, NEW i \in 1..NumEntries, it = Place(offs, i)
    PROVE  \E m \in Nat \ {0} : VectorIs(offs, i, m)
  <1> DEFINE left == NumEntries + 1 - i
             m == IF Vector <= left THEN Vector ELSE left
             P(k) == Place(offs, (i - 1) + k)
  <1>1. Vector \in Nat \ {0} /\ NumEntries \in Nat /\ i \in Nat /\ 1 <= i /\ i <= NumEntries
    BY ArchiveStringsAssumption, EntriesType DEF NumEntries
  <1>2. m \in Nat \ {0} /\ m <= left /\ left \in Nat /\ m <= Vector /\ (m < Vector => m = left)
    BY <1>1
  <1> HIDE DEF m
  <1>3. Reads[Vector] = [k \in 1..m + 1 |-> P(k)]
    BY <1>1, ReadsFollow DEF m
  <1>4. \A k \in 1..m : (i - 1) + k \in 1..NumEntries
    BY <1>1, <1>2
  <1>5. (i - 1) + (m + 1) = i + m /\ i + m \in 1..NumEntries + 1 /\ (m = left => i + m = NumEntries + 1)
    BY <1>1, <1>2
  <1>6. \A k \in 1..m + 1 : P(k) \in Nat
    <2>1. \A k \in 1..m + 1 : (i - 1) + k \in 1..NumEntries + 1
      BY <1>1, <1>2
    <2> QED
      BY <2>1, LinksOfTable
  <1>7. P(m + 1) = Place(offs, i + m)
    BY <1>5
  <1>8. \A k \in 1..m : P(k) = offs[(i - 1) + k]
    BY <1>1, <1>4 DEF Place
  <1>9. m = left => P(m + 1) = 0
    BY <1>5, <1>7, LinksOfTable
  <1> HIDE DEF P, left
  <1>10. /\ Reads[Vector] \in Seq(Nat) /\ Len(Reads[Vector]) = m + 1
         /\ \A k \in 1..m + 1 : Reads[Vector][k] = P(k)
    BY <1>2, <1>3, <1>6
  <1>11. Last(Reads[Vector]) = P(m + 1)
    BY <1>2, <1>10 DEF Last
  <1>12. ~NoHeader
    BY <1>1, <1>2, <1>9, <1>10, <1>11 DEF NoHeader
  <1>13. AfterVector = Place(offs, i + m)
    BY <1>7, <1>11, <1>12 DEF AfterVector
  <1>14. Offsets \in Seq(Nat) /\ DOMAIN Offsets = 1..m /\ \A k \in 1..m : Offsets[k] = P(k)
    <2>1. Offsets = SubSeq(Reads[Vector], 1, m)
      BY <1>2, <1>10, <1>12 DEF Offsets, Front
    <2> QED
      BY <1>2, <1>10, <2>1
  <1>15. DOMAIN Infos = 1..m /\ \A k \in 1..m : Infos[k] = Info(Offsets[k])
    BY <1>14 DEF Infos
  <1>16. ASSUME NEW k \in 1..m
         PROVE  /\ Infos[k].id = Entries[(i - 1) + k].id
                /\ Infos[k].offset = offs[(i - 1) + k] + HeaderSize
                /\ texts[Infos[k].offset] = Entries[(i - 1) + k].text
    <2> DEFINE j == (i - 1) + k
    <2>1. j \in 1..written
      BY <1>4 DEF Whole
    <2> HIDE DEF j
    <2>2. headers[offs[j]].id = Entries[j].id /\ texts[offs[j] + HeaderSize] = Entries[j].text
      BY <2>1 DEF TableAt
    <2>3. Infos[k] = Info(offs[j])
      BY <1>8, <1>14, <1>15 DEF j
    <2>4. Infos[k].id = Entries[j].id /\ Infos[k].offset = offs[j] + HeaderSize
      BY <2>2, <2>3 DEF Info
    <2> QED
      BY <2>2, <2>4 DEF j
  <1>17. VectorIs(offs, i, m)
    BY <1>1, <1>5, <1>13, <1>15, <1>16 DEF VectorIs
  <1> QED
    BY <1>2, <1>17

-----------------------------------------------------------------------------
(* The entries a search finds *)

LEMMA HitsFinite ==
    ASSUME NEW needle, NEW i \in Nat
    PROVE  /\ Hits(needle, i) \in SUBSET Nat
           /\ IsFiniteSet(Hits(needle, i)) /\ Cardinality(Hits(needle, i)) \in Nat
  <1>1. Hits(needle, i) \in SUBSET (1..i) /\ Hits(needle, i) \in SUBSET Nat
    BY DEF Hits
  <1>2. IsFiniteSet(1..i)
    BY FS_Interval
  <1> QED
    BY <1>1, <1>2, FS_Subset, FS_CardinalityType

(* The places in a vector, of which the first is that of entry i, at which *)
(* there is a hit.                                                         *)
HitsFrom(needle, i, m) == {k \in 1..m : <<needle, Entries[(i - 1) + k].text>> \in Occurs}

LEMMA HitsFromFinite ==
    ASSUME NEW needle, NEW i \in Nat \ {0}, NEW m \in Nat
    PROVE  /\ HitsFrom(needle, i, m) \in SUBSET Nat
           /\ IsFiniteSet(HitsFrom(needle, i, m)) /\ Cardinality(HitsFrom(needle, i, m)) \in Nat
  <1>1. HitsFrom(needle, i, m) \in SUBSET (1..m) /\ HitsFrom(needle, i, m) \in SUBSET Nat
    BY DEF HitsFrom
  <1>2. IsFiniteSet(1..m)
    BY FS_Interval
  <1> QED
    BY <1>1, <1>2, FS_Subset, FS_CardinalityType

(* The hits up to an entry of the vector are those before the vector and   *)
(* those in it.                                                            *)
LEMMA HitsAdd ==
    ASSUME NEW needle, NEW i \in Nat \ {0}, NEW m \in Nat, NEW x \in 0..m
    PROVE  Cardinality(Hits(needle, (i - 1) + x)) =
             Cardinality(Hits(needle, i - 1)) + Cardinality({k \in HitsFrom(needle, i, m) : k <= x})
  <1> DEFINE A == {k \in HitsFrom(needle, i, m) : k <= x}
             H == Hits(needle, i - 1)
             T == {j \in i..(i - 1) + x : <<needle, Entries[j].text>> \in Occurs}
             f == [k \in A |-> (i - 1) + k]
  <1>1. x \in Nat /\ x <= m /\ i - 1 \in Nat
    OBVIOUS
  <1>2. Hits(needle, (i - 1) + x) = H \cup T /\ H \cap T = {}
    BY DEF Hits
  <1>3. \A k \in A : k \in 1..x /\ (i - 1) + k \in T
    BY DEF HitsFrom
  <1>4. \A j \in T : j - (i - 1) \in A /\ (i - 1) + (j - (i - 1)) = j
    <2> SUFFICES ASSUME NEW j \in T PROVE j - (i - 1) \in A /\ (i - 1) + (j - (i - 1)) = j
      OBVIOUS
    <2> DEFINE k == j - (i - 1)
    <2>1. k \in 1..m /\ k <= x /\ (i - 1) + k = j
      BY <1>1
    <2>2. <<needle, Entries[j].text>> \in Occurs
      OBVIOUS
    <2> HIDE DEF k
    <2>3. k \in HitsFrom(needle, i, m)
      BY <2>1, <2>2 DEF HitsFrom
    <2>4. k \in A /\ (i - 1) + k = j
      BY <2>1, <2>3
    <2> QED
      BY <2>4 DEF k
  <1>5. A \in SUBSET HitsFrom(needle, i, m) /\ A \in SUBSET Nat
    BY DEF HitsFrom
  <1> HIDE DEF A, T
  <1>6. f \in Bijection(A, T)
    <2>1. f \in [A -> T]
      BY <1>3
    <2>2. \A k, l \in A : f[k] = f[l] => k = l
      BY <1>1, <1>5
    <2>3. \A j \in T : \E k \in A : f[k] = j
      <3> SUFFICES ASSUME NEW j \in T PROVE \E k \in A : f[k] = j
        OBVIOUS
      <3>1. PICK k \in A : (i - 1) + k = j
        BY <1>4
      <3> QED
        BY <3>1
    <2> HIDE DEF f
    <2> QED
      BY <2>1, <2>2, <2>3 DEF Bijection, Injection, Surjection, IsInjective
  <1>7. IsFiniteSet(A) /\ Cardinality(A) \in Nat
    BY <1>1, <1>5, HitsFromFinite, FS_Subset, FS_CardinalityType
  <1>8. IsFiniteSet(T) /\ Cardinality(T) = Cardinality(A)
    BY <1>6, <1>7, FS_Bijection DEF ExistsBijection
  <1>9. IsFiniteSet(H) /\ Cardinality(H) \in Nat
    BY <1>1, HitsFinite
  <1> HIDE DEF H
  <1>10. Cardinality(H \cup T) = Cardinality(H) + Cardinality(T) - Cardinality(H \cap T)
    BY <1>8, <1>9, FS_Union
  <1>11. Cardinality(H \cap T) = 0
    BY <1>2, FS_EmptySet
  <1>12. Cardinality(H \cup T) = Cardinality(H) + Cardinality(A)
    BY <1>7, <1>8, <1>9, <1>10, <1>11
  <1>13. Cardinality(Hits(needle, (i - 1) + x)) = Cardinality(H) + Cardinality(A)
    BY <1>2, <1>12
  <1> QED
    BY <1>13 DEF A, H

(* A hit that is not among the first i entries is ranked behind them, one  *)
(* that is has a rank among theirs.                                        *)
LEMMA HitsRanked ==
    ASSUME NEW needle, NEW i \in 0..NumEntries, NEW h \in AllHits(needle)
    PROVE  /\ Rank(AllHits(needle), h) = Cardinality(Hits(needle, h))
           /\ Rank(AllHits(needle), h) \in 1..Cardinality(AllHits(needle))
           /\ Rank(AllHits(needle), h) <= Cardinality(Hits(needle, i)) <=> h <= i
           /\ Cardinality(Hits(needle, i)) <= Cardinality(AllHits(needle))
  <1>1. NumEntries \in Nat /\ i \in Nat /\ i <= NumEntries
    BY EntriesType DEF NumEntries
  <1>2. h \in Nat /\ h \in 1..NumEntries /\ h \in Hits(needle, h)
    BY <1>1 DEF AllHits, Hits
  <1>3. {j \in AllHits(needle) : j <= h} = Hits(needle, h)
    BY <1>1, <1>2 DEF AllHits, Hits
  <1>4. Rank(AllHits(needle), h) = Cardinality(Hits(needle, h))
    BY <1>3 DEF Rank
  <1>5. /\ AllHits(needle) \in SUBSET Nat /\ IsFiniteSet(AllHits(needle))
        /\ IsFiniteSet(Hits(needle, i)) /\ Cardinality(Hits(needle, i)) \in Nat
        /\ IsFiniteSet(Hits(needle, h)) /\ Cardinality(Hits(needle, h)) \in Nat
    BY <1>1, <1>2, HitsFinite DEF AllHits
  <1>6. Rank(AllHits(needle), h) \in 1..Cardinality(AllHits(needle))
    BY <1>5, RankStrict
  <1>7. Hits(needle, i) \in SUBSET AllHits(needle)
    BY <1>1 DEF AllHits, Hits
  <1>8. Cardinality(Hits(needle, i)) <= Cardinality(AllHits(needle))
    BY <1>5, <1>7, FS_Subset
  <1>9. ASSUME h <= i PROVE Cardinality(Hits(needle, h)) <= Cardinality(Hits(needle, i))
    <2>1. Hits(needle, h) \in SUBSET Hits(needle, i)
      BY <1>1, <1>2, <1>9 DEF Hits
    <2> QED
      BY <1>5, <2>1, FS_Subset
  <1>10. ASSUME ~(h <= i) PROVE ~(Cardinality(Hits(needle, h)) <= Cardinality(Hits(needle, i)))
    <2>1. Hits(needle, i) \in SUBSET Hits(needle, h) /\ h \notin Hits(needle, i)
      BY <1>1, <1>2, <1>10 DEF Hits
    <2>2. /\ Cardinality(Hits(needle, i)) <= Cardinality(Hits(needle, h))
          /\ Cardinality(Hits(needle, i)) # Cardinality(Hits(needle, h))
      BY <1>2, <1>5, <2>1, FS_Subset
    <2> QED
      BY <1>5, <2>2
  <1> QED
    BY <1>4, <1>6, <1>8, <1>9, <1>10

(* The i-th hit of a search is the i-th it answers.                        *)
Found(ids, needle) ==
    /\ ids \in Seq(Ids)
    /\ \A h \in AllHits(needle) : Rank(AllHits(needle), h) <= Len(ids) =>
                                      ids[Rank(AllHits(needle), h)] = Entries[h].id

(* The hits of a vector are put behind those that were found before.       *)
LEMMA VectorCollected ==
    ASSUME NEW offs, TableAt(offs), Whole, NEW i \in 1..NumEntries, NEW m \in Nat \ {0},
           VectorIs(offs, i, m),
           Found(task.ids, task.needle), task.pred \in DOMAIN PredLimit,
           Len(task.ids) = Cardinality(Hits(task.needle, i - 1))
    PROVE  LET all == task.ids \o [r \in 1..Cardinality(HitsFrom(task.needle, i, m)) |->
                                     Infos[CHOOSE k \in HitsFrom(task.needle, i, m) :
                                             Rank(HitsFrom(task.needle, i, m), k) = r].id]
           IN  /\ Found(all, task.needle)
               /\ Len(all) = Cardinality(Hits(task.needle, (i + m) - 1))
               /\ Collected = IF task.limit > 0 /\ Len(all) >= task.limit
                              THEN SubSeq(all, 1, task.limit) ELSE all
  <1> DEFINE needle == task.needle
             B == HitsFrom(needle, i, m)
             R == [r \in 1..Cardinality(B) |-> Infos[CHOOSE k \in B : Rank(B, k) = r].id]
             all == task.ids \o R
             j == (i + m) - 1
  <1>1. /\ NumEntries \in Nat /\ i \in Nat \ {0} /\ i <= NumEntries /\ i + m <= NumEntries + 1
        /\ i - 1 \in 0..NumEntries /\ i - 1 \in Nat /\ j \in 0..NumEntries /\ j = (i - 1) + m /\ m \in 0..m
    BY EntriesType DEF VectorIs, NumEntries
  <1>2. B \in SUBSET Nat /\ IsFiniteSet(B) /\ Cardinality(B) \in Nat /\ B \in SUBSET (1..m)
    <2>1. B \in SUBSET Nat /\ IsFiniteSet(B) /\ Cardinality(B) \in Nat
      BY <1>1, HitsFromFinite
    <2> QED
      BY <2>1 DEF HitsFrom
  <1>3. {k \in DOMAIN Infos : Matches(task.pred, task.needle, texts[Infos[k].offset])} = B
    BY DEF VectorIs, Matches, HitsFrom
  <1>4. \A k \in 1..m : (i - 1) + k \in 1..NumEntries
    BY <1>1
  <1>5. \A k \in B : Infos[k].id = Entries[(i - 1) + k].id /\ Infos[k].id \in Ids
    <2>1. \A k \in 1..m : Entries[(i - 1) + k].id \in Ids
      BY <1>4, EntriesType DEF NumEntries
    <2> QED
      BY <1>2, <2>1 DEF VectorIs
  <1> HIDE DEF needle, B
  <1>6. \A k \in B : Rank(B, k) \in 1..Cardinality(B)
    BY <1>2, RankStrict
  <1>7. \A k \in B : R[Rank(B, k)] = Infos[k].id
    <2> SUFFICES ASSUME NEW k \in B PROVE R[Rank(B, k)] = Infos[k].id
      OBVIOUS
    <2> DEFINE c == CHOOSE l \in B : Rank(B, l) = Rank(B, k)
    <2>1. c \in B /\ Rank(B, c) = Rank(B, k)
      OBVIOUS
    <2> HIDE DEF c
    <2>2. c = k
      BY <1>2, <2>1, RankStrict
    <2> QED
      BY <1>6, <2>2 DEF c
  <1>8. \A r \in 1..Cardinality(B) : R[r] \in Ids
    <2> SUFFICES ASSUME NEW r \in 1..Cardinality(B) PROVE R[r] \in Ids
      OBVIOUS
    <2>1. PICK k \in B : Rank(B, k) = r
      BY <1>2, RankTakesAll
    <2> HIDE DEF R
    <2> QED
      BY <1>5, <1>7, <2>1
  <1>9. R \in Seq(Ids) /\ Len(R) = Cardinality(B)
    <2>1. R = [r \in 1..Cardinality(B) |-> R[r]]
      OBVIOUS
    <2> HIDE DEF R
    <2> QED
      BY <1>2, <1>8, <2>1
  <1>10. task.ids \in Seq(Ids) /\ Len(task.ids) \in Nat
    BY DEF Found
  <1> HIDE DEF R
  <1>11. /\ all \in Seq(Ids) /\ Len(all) = Len(task.ids) + Cardinality(B)
         /\ \A k \in 1..Len(task.ids) + Cardinality(B) :
               all[k] = IF k <= Len(task.ids) THEN task.ids[k] ELSE R[k - Len(task.ids)]
    BY <1>9, <1>10, JoinedSeq
  <1> HIDE DEF all
  <1>12. \A x \in 0..m : Cardinality(Hits(needle, (i - 1) + x)) =
                             Len(task.ids) + Cardinality({k \in B : k <= x})
    <2> SUFFICES ASSUME NEW x \in 0..m
                 PROVE  Cardinality(Hits(needle, (i - 1) + x)) =
                            Len(task.ids) + Cardinality({k \in B : k <= x})
      OBVIOUS
    <2>1. m \in Nat
      BY <1>1
    <2>2. Cardinality(Hits(needle, (i - 1) + x)) =
             Cardinality(Hits(needle, i - 1)) + Cardinality({k \in B : k <= x})
      BY <1>1, <2>1, HitsAdd DEF B
    <2> QED
      BY <2>2 DEF needle
  <1>13. Len(all) = Cardinality(Hits(needle, j))
    <2>1. {k \in B : k <= m} = B
      <3>1. \A k \in B : k <= m
        BY <1>2
      <3> QED
        BY <3>1
    <2> QED
      BY <1>1, <1>11, <1>12, <2>1
  <1>14. ASSUME NEW h \in AllHits(needle), Rank(AllHits(needle), h) <= Len(all)
         PROVE  all[Rank(AllHits(needle), h)] = Entries[h].id
    <2> DEFINE q == Rank(AllHits(needle), h)
    <2>1. q = Cardinality(Hits(needle, h)) /\ q \in 1..Cardinality(AllHits(needle))
      BY <1>1, HitsRanked
    <2>2. q <= Cardinality(Hits(needle, j)) <=> h <= j
      BY <1>1, HitsRanked
    <2>3. q <= Cardinality(Hits(needle, i - 1)) <=> h <= i - 1
      BY <1>1, HitsRanked
    <2>4. h \in 1..NumEntries /\ <<needle, Entries[h].text>> \in Occurs
      BY DEF AllHits, Hits
    <2>5. Cardinality(AllHits(needle)) \in Nat
      BY <1>1, HitsFinite DEF AllHits
    <2>6. q \in Nat /\ q >= 1 /\ q <= Len(all) /\ h <= j
      BY <1>13, <1>14, <2>1, <2>2, <2>5
    <2>7. CASE h <= i - 1
      <3>1. q <= Len(task.ids)
        BY <2>3, <2>7 DEF needle
      <3>2. task.ids[q] = Entries[h].id
        BY <3>1 DEF Found, needle
      <3>3. q \in 1..Len(task.ids) + Cardinality(B)
        BY <1>2, <1>10, <2>6, <3>1
      <3> HIDE DEF q
      <3>4. all[q] = task.ids[q]
        BY <1>11, <3>1, <3>3
      <3> QED
        BY <3>2, <3>4 DEF q
    <2>8. CASE ~(h <= i - 1)
      <3>1. PICK x \in 1..m : h = (i - 1) + x
        <4>1. h - (i - 1) \in 1..m /\ h = (i - 1) + (h - (i - 1))
          BY <1>1, <2>4, <2>6, <2>8
        <4> QED
          BY <4>1
      <3>2. x \in B /\ x \in 0..m
        BY <2>4, <3>1 DEF B, HitsFrom
      <3>3. q = Len(task.ids) + Rank(B, x)
        BY <1>12, <2>1, <3>1, <3>2 DEF Rank
      <3>4. Rank(B, x) \in 1..Cardinality(B)
        BY <1>6, <3>2
      <3> HIDE DEF q
      <3>5. q \in 1..Len(task.ids) + Cardinality(B) /\ ~(q <= Len(task.ids)) /\ q - Len(task.ids) = Rank(B, x)
        BY <1>2, <1>10, <3>3, <3>4
      <3>6. all[q] = R[Rank(B, x)]
        BY <1>11, <3>5
      <3>7. all[q] = Entries[h].id
        BY <1>5, <1>7, <3>1, <3>2, <3>6
      <3> QED
        BY <3>7 DEF q
    <2> QED
      BY <2>7, <2>8
  <1>15. Found(all, needle)
    BY <1>11, <1>14 DEF Found
  <1>16. Collected = IF task.limit > 0 /\ Len(all) >= task.limit THEN SubSeq(all, 1, task.limit) ELSE all
    <2> DEFINE Cut(hits) ==
                 LET ids == task.ids \o [r \in 1..Cardinality(hits) |->
                                           Infos[CHOOSE k \in hits : Rank(hits, k) = r].id]
                 IN  IF task.limit > 0 /\ Len(ids) >= task.limit THEN SubSeq(ids, 1, task.limit)
                     ELSE ids
    <2>1. Collected = Cut({k \in DOMAIN Infos : Matches(task.pred, task.needle, texts[Infos[k].offset])})
      BY DEF Collected
    <2>2. Cut(B) = IF task.limit > 0 /\ Len(all) >= task.limit THEN SubSeq(all, 1, task.limit) ELSE all
      BY DEF all, R
    <2> HIDE DEF Cut
    <2> QED
      BY <1>3, <2>1, <2>2
  <1> QED
    BY <1>13, <1>15, <1>16 DEF all, R, B, needle-----------------------------------------------------------------------------
(* The inductive invariant *)

(* A map that has the places of the texts of the entries before the i-th.  *)
MapUpto(map, file, i) ==
    /\ DOMAIN map = {Entries[j].id : j \in 1..i - 1}
    /\ \A j \in 1..i - 1 : file[map[Entries[j].id].offset] = Entries[j].text

RightMap(map, file) == /\ DOMAIN map = Ids
                       /\ \A id \in Ids : file[map[id].offset] = RightText(id)

(* What an operation t that goes on has done when its iterator is at the   *)
(* place at.                                                               *)
Indexing(t, at, file, offs) ==
    /\ \/ t = [op |-> "index", map |-> t.map, buckets |-> t.buckets] /\ t.buckets \in Buckets
       \/ t = [op |-> "bake", map |-> t.map]
    /\ \E i \in 1..NumEntries + 1 : at = Place(offs, i) /\ MapUpto(t.map, file, i)

Scanning(t, at, offs) ==
    /\ t = [op |-> "scan", id |-> t.id] /\ t.id \in Ids \cup Unknown
    /\ \E i \in 1..NumEntries + 1 : /\ at = Place(offs, i)
                                    /\ \A j \in 1..i - 1 : Entries[j].id # t.id

Delivering(t) ==
    /\ t = Deliver(t.id, t.text) /\ t.id \in Ids \cup Unknown
    /\ t.text = IF t.id \in Ids THEN RightText(t.id) ELSE None

Searching(t, at, offs) ==
    /\ t = [op |-> "find", pred |-> t.pred, needle |-> t.needle, limit |-> t.limit, ids |-> t.ids]
    /\ t.pred \in DOMAIN PredLimit /\ t.limit \in Int \ {0} /\ Found(t.ids, t.needle)
    /\ \/ \E i \in 1..NumEntries + 1 : /\ at = Place(offs, i)
                                       /\ Len(t.ids) = Cardinality(Hits(t.needle, i - 1))
                                       /\ t.limit > 0 => Len(t.ids) < t.limit
       \/ /\ at = 0 /\ t.limit > 0 /\ Len(t.ids) = t.limit
          /\ t.limit <= Cardinality(AllHits(t.needle))

Working(t, at, file, offs) ==
    t = Idle \/ Indexing(t, at, file, offs) \/ Scanning(t, at, offs)
             \/ Delivering(t) \/ Searching(t, at, offs)

(* Every bucket is sound for what was asked of it.                         *)
CacheSound(buckets, asked) ==
    buckets # None =>
        \E n \in Nat \ {0} : /\ DOMAIN buckets = 0..n - 1 /\ DOMAIN asked = 0..n - 1
                             /\ \A b \in 0..n - 1 : Sound(buckets[b], asked[b])

(* What is fetched from the file is not in the cache.                      *)
Missing(buckets, id) ==
    buckets # None => Lookup(buckets[HashOf[id] % Cardinality(DOMAIN buckets)], id) = None

(* The indexes, the one of the open archive and the one at the end of the  *)
(* file, are those of the whole table.                                     *)
IndexesRight == /\ open => Whole
                /\ index # None => Whole /\ RightMap(index, texts)
                /\ saved # None => Whole /\ RightMap(saved, texts)

RightAnswer(a) ==
    /\ a.op = "fetch" => a.result = IF a.of \in Ids THEN RightText(a.of) ELSE None
    /\ a.op \in DOMAIN PredLimit =>
         /\ Len(a.result) = IF 0 < a.limit /\ a.limit < Cardinality(AllHits(a.of))
                            THEN a.limit ELSE Cardinality(AllHits(a.of))
         /\ \A i \in AllHits(a.of) : Rank(AllHits(a.of), i) <= Len(a.result) =>
                                         a.result[Rank(AllHits(a.of), i)] = Entries[i].id

Inv(offs) == /\ TableAt(offs)
             /\ IndexesRight
             /\ task # Idle => Whole
             /\ Working(task, it, texts, offs)
             /\ CacheSound(cache, recent)
             /\ task.op \in {"scan", "deliver"} => Missing(cache, task.id)
             /\ RightAnswer(answer)

IInv == \E offs : Inv(offs)

LEMMA InvAnswersRight ==
    ASSUME IInv PROVE AnswersRight
  <1>1. RightAnswer(answer)
    BY DEF IInv, Inv
  <1>2. \A needle : AllHits(needle) = {i \in DOMAIN Entries : <<needle, Entries[i].text>> \in Occurs}
    BY EntriesType DEF AllHits, Hits, NumEntries
  <1>3. answer.op = "fetch" =>
          answer.result = IF answer.of \in Ids THEN Entries[TextOf(answer.of)].text ELSE None
    BY <1>1 DEF RightAnswer, RightText
  <1>4. answer.op \in DOMAIN PredLimit =>
          LET hits == AllHits(answer.of)
              all  == Cardinality(hits)
          IN  /\ Len(answer.result) = IF 0 < answer.limit /\ answer.limit < all
                                      THEN answer.limit ELSE all
              /\ \A i \in hits : Rank(hits, i) <= Len(answer.result) =>
                                     answer.result[Rank(hits, i)] = Entries[i].id
    BY <1>1 DEF RightAnswer
  <1>5. AllHits(answer.of) = {i \in DOMAIN Entries : <<answer.of, Entries[i].text>> \in Occurs}
    BY <1>2
  <1> QED
    BY <1>3, <1>4, <1>5, Zenon DEF AnswersRight

LEMMA InvCacheIsLRU ==
    ASSUME IInv PROVE CacheIsLRU
  <1>1. CacheSound(cache, recent)
    BY DEF IInv, Inv
  <1> SUFFICES ASSUME cache # None, NEW b \in DOMAIN cache
               PROVE  /\ Linked(cache[b])
                      /\ Holds(cache[b], recent[b])
                      /\ \A s \in 1..Slots : cache[b].text[s] # None =>
                           cache[b].text[s] = Entries[TextOf(cache[b].id[s])].text
    BY DEF CacheIsLRU
  <1>2. Sound(cache[b], recent[b])
    BY <1>1 DEF CacheSound
  <1> QED
    BY <1>2, SoundIsLRU

-----------------------------------------------------------------------------
(* The table *)

LEMMA TableKept ==
    ASSUME NEW offs, TableAt(offs), UNCHANGED table
    PROVE  TableAt(offs)' /\ texts' = texts /\ Whole' = Whole
  BY DEF TableAt, table, Whole

LEMMA InitInv == Init => IInv
  <1> SUFFICES ASSUME Init PROVE IInv
    OBVIOUS
  <1> DEFINE offs == [k \in 1..1 |-> FirstEntry]
  <1>1. NumEntries \in Nat /\ FirstEntry \in Nat \ {0}
    BY EntriesType, ArchiveStringsAssumption DEF NumEntries
  <1>2. TableAt(offs)
    BY <1>1 DEF TableAt, Init, NoMap
  <1>3. IndexesRight
    BY DEF IndexesRight, Init
  <1>4. Idle.op = "none" /\ task = Idle /\ answer = Idle /\ cache = None
    BY DEF Idle, Init
  <1>5. RightAnswer(answer)
    BY <1>4 DEF RightAnswer, PredLimit
  <1> HIDE DEF offs
  <1>6. Inv(offs)
    BY <1>2, <1>3, <1>4, <1>5 DEF Inv, Working, CacheSound
  <1> QED
    BY <1>6 DEF IInv-----------------------------------------------------------------------------
(* What the actions have in common *)

LEMMA InvParts ==
    ASSUME NEW offs, Inv(offs)
    PROVE  /\ TableAt(offs) /\ IndexesRight /\ (task # Idle => Whole)
           /\ Working(task, it, texts, offs) /\ CacheSound(cache, recent)
           /\ (task.op \in {"scan", "deliver"} => Missing(cache, task.id))
           /\ RightAnswer(answer)
  BY DEF Inv

LEMMA TableStays ==
    ASSUME NEW offs, Inv(offs), UNCHANGED table,
           IndexesRight', task' # Idle => Whole, Working(task', it', texts, offs),
           CacheSound(cache', recent'),
           task'.op \in {"scan", "deliver"} => Missing(cache', task'.id),
           RightAnswer(answer')
    PROVE  Inv(offs)'
  <1>1. TableAt(offs)' /\ texts' = texts /\ Whole' = Whole
    BY InvParts, TableKept
  <1> QED
    BY <1>1 DEF Inv

LEMMA IndexesKept ==
    ASSUME IndexesRight, UNCHANGED <<headers, texts, written, pos, saved, open, index>>
    PROVE  IndexesRight'
  BY DEF IndexesRight, Whole

LEMMA InstalledSound ==
    ASSUME NEW n \in Buckets, InstallCache(n)
    PROVE  CacheSound(cache', recent')
  <1>1. n \in Nat \ {0}
    BY ArchiveStringsAssumption
  <1>2. \A b \in 0..n - 1 : cache'[b] = NewBucket /\ recent'[b] = <<>>
    BY DEF InstallCache
  <1>3. DOMAIN cache' = 0..n - 1 /\ DOMAIN recent' = 0..n - 1
    BY DEF InstallCache
  <1> QED
    BY <1>1, <1>2, <1>3, NewBucketSound DEF CacheSound

LEMMA NoCacheSound ==
    /\ \A asked : CacheSound(None, asked)
    /\ \A id : Missing(None, id)
  BY DEF CacheSound, Missing

LEMMA IdleRight ==
    /\ RightAnswer(Idle)
    /\ Idle.op \notin {"scan", "deliver"}
    /\ \A at, file, offs : Working(Idle, at, file, offs)
  BY DEF RightAnswer, Idle, PredLimit, Working

(* A scan begins at the first entry.                                       *)
LEMMA ScanBegins ==
    ASSUME NEW offs, TableAt(offs)
    PROVE  FirstEntry = Place(offs, 1) /\ 1 \in 1..NumEntries + 1 /\ NumEntries \in Nat /\ NumEntries > 0
           /\ 1 - 1 = 0 /\ 1..0 = {}
  BY EntriesType DEF TableAt, Place, NumEntries

-----------------------------------------------------------------------------
(* Opening, closing, the indexes and the cache *)

LEMMA ArchiveOpenKeeps ==
    ASSUME NEW offs, Inv(offs), ArchiveOpen
    PROVE  Inv(offs)'
  <1>1. IndexesRight'
    BY InvParts DEF ArchiveOpen, table, IndexesRight, Whole, NumEntries
  <1>2. /\ UNCHANGED table /\ task' = task /\ it' = it /\ answer' = answer
        /\ cache' = None
    BY DEF ArchiveOpen
  <1> QED
    BY <1>1, <1>2, InvParts, NoCacheSound, TableStays

LEMMA ArchiveCloseKeeps ==
    ASSUME NEW offs, Inv(offs), ArchiveClose
    PROVE  Inv(offs)'
  <1>1. IndexesRight'
    BY InvParts DEF ArchiveClose, table, IndexesRight, Whole
  <1>2. /\ UNCHANGED table /\ task' = task /\ it' = it /\ answer' = answer
        /\ cache' = None
    BY DEF ArchiveClose
  <1> QED
    BY <1>1, <1>2, InvParts, NoCacheSound, TableStays

LEMMA AnswerUsedKeeps ==
    ASSUME NEW offs, Inv(offs), AnswerUsed
    PROVE  Inv(offs)'
  <1>1. IndexesRight'
    BY InvParts, IndexesKept DEF AnswerUsed, table
  <1>2. /\ UNCHANGED <<table, it, task, cache, recent>>
        /\ answer' = Idle
    BY DEF AnswerUsed
  <1> QED
    BY <1>1, <1>2, InvParts, IdleRight, TableStays

LEMMA QueryIndexedKeeps ==
    ASSUME NEW offs, Inv(offs), NEW n \in Buckets, QueryIndexed(n)
    PROVE  Inv(offs)'
  <1>1. IndexesRight'
    BY InvParts, IndexesKept DEF QueryIndexed, table
  <1>2. UNCHANGED <<table, it, task, answer>> /\ task = Idle
    BY DEF QueryIndexed, Quiet
  <1>3. CacheSound(cache', recent')
    <2>1. CASE cache = None
      BY <2>1, InstalledSound DEF QueryIndexed
    <2>2. CASE cache # None
      BY <2>2, InvParts DEF QueryIndexed
    <2> QED
      BY <2>1, <2>2
  <1> QED
    BY <1>1, <1>2, <1>3, InvParts, IdleRight, TableStays

LEMMA CreateCacheKeeps ==
    ASSUME NEW offs, Inv(offs), NEW n \in Buckets, CreateCache(n)
    PROVE  Inv(offs)'
  <1>1. IndexesRight'
    BY InvParts, IndexesKept DEF CreateCache, table
  <1>2. UNCHANGED <<table, it, task, answer>> /\ task = Idle
    BY DEF CreateCache, Quiet
  <1>3. CacheSound(cache', recent')
    BY InstalledSound DEF CreateCache
  <1> QED
    BY <1>1, <1>2, <1>3, InvParts, IdleRight, TableStays

LEMMA DropIndexesKeeps ==
    ASSUME NEW offs, Inv(offs), DropIndexes
    PROVE  Inv(offs)'
  <1>1. IndexesRight'
    BY InvParts DEF DropIndexes, table, IndexesRight, Whole
  <1>2. UNCHANGED <<table, it, task, cache, recent, answer>>
    BY DEF DropIndexes
  <1> QED
    BY <1>1, <1>2, InvParts, TableStays

LEMMA DropCacheKeeps ==
    ASSUME NEW offs, Inv(offs), DropCache
    PROVE  Inv(offs)'
  <1>1. IndexesRight'
    BY InvParts, IndexesKept DEF DropCache, table
  <1>2. UNCHANGED <<table, it, task, answer>> /\ cache' = None
    BY DEF DropCache
  <1> QED
    BY <1>1, <1>2, InvParts, NoCacheSound, TableStays

(* An index is begun with nothing in it.                                   *)
LEMMA IndexBegins ==
    ASSUME NEW offs, TableAt(offs), NEW t,
           t = [op |-> "bake", map |-> NoMap]
           \/ \E n \in Buckets : t = [op |-> "index", map |-> NoMap, buckets |-> n]
    PROVE  /\ Working(t, FirstEntry, texts, offs)
           /\ t.op \notin {"scan", "deliver"}
  <1>1. MapUpto(NoMap, texts, 1)
    BY ScanBegins DEF MapUpto, NoMap
  <1>2. t.map = NoMap
    OBVIOUS
  <1>3. \E i \in 1..NumEntries + 1 : FirstEntry = Place(offs, i) /\ MapUpto(t.map, texts, i)
    BY <1>1, <1>2, ScanBegins
  <1>4. Indexing(t, FirstEntry, texts, offs)
    BY <1>3 DEF Indexing
  <1> QED
    BY <1>4 DEF Working

LEMMA QueryUnindexedKeeps ==
    ASSUME NEW offs, Inv(offs), NEW n \in Buckets, QueryUnindexed(n)
    PROVE  Inv(offs)'
  <1>1. IndexesRight'
    BY InvParts, IndexesKept DEF QueryUnindexed, table
  <1>2. /\ UNCHANGED <<table, cache, recent, answer>> /\ it' = FirstEntry
        /\ task' = [op |-> "index", map |-> NoMap, buckets |-> n]
    BY DEF QueryUnindexed, Scan
  <1>3. Working(task', FirstEntry, texts, offs) /\ task'.op \notin {"scan", "deliver"}
    BY <1>2, InvParts, IndexBegins
  <1>4. Whole
    BY InvParts DEF QueryUnindexed, Quiet, IndexesRight
  <1> QED
    BY <1>1, <1>2, <1>3, <1>4, InvParts, TableStays

LEMMA BakeKeeps ==
    ASSUME NEW offs, Inv(offs), Bake
    PROVE  Inv(offs)'
  <1>1. IndexesRight'
    BY InvParts, IndexesKept DEF Bake, table
  <1>2. /\ UNCHANGED <<table, cache, recent, answer>> /\ it' = FirstEntry
        /\ task' = [op |-> "bake", map |-> NoMap]
    BY DEF Bake, Scan
  <1>3. Working(task', FirstEntry, texts, offs) /\ task'.op \notin {"scan", "deliver"}
    BY <1>2, InvParts, IndexBegins
  <1>4. Whole
    BY DEF Bake, Whole, NumEntries
  <1> QED
    BY <1>1, <1>2, <1>3, <1>4, InvParts, TableStays(* The operation that goes on is told by its name.                         *)
LEMMA WorkIs ==
    ASSUME NEW t, NEW at, NEW file, NEW offs, Working(t, at, file, offs)
    PROVE  /\ t.op \in {"index", "bake"} => Indexing(t, at, file, offs)
           /\ t.op = "scan" => Scanning(t, at, offs)
           /\ t.op = "deliver" => Delivering(t)
           /\ t.op = "find" => Searching(t, at, offs)
  <1>1. t = Idle => t.op = "none"
    BY DEF Idle
  <1>2. Indexing(t, at, file, offs) => t.op \in {"index", "bake"}
    BY DEF Indexing
  <1>3. Scanning(t, at, offs) => t.op = "scan"
    BY DEF Scanning
  <1>4. Delivering(t) => t.op = "deliver"
    BY DEF Delivering, Deliver
  <1>5. Searching(t, at, offs) => t.op = "find"
    BY DEF Searching
  <1> QED
    BY <1>1, <1>2, <1>3, <1>4, <1>5 DEF Working

LEMMA NotIdle ==
    ASSUME NEW t, t.op \in {"index", "bake", "scan", "deliver", "find"}
    PROVE  t # Idle
  BY DEF Idle

(* An iterator that is not at the end is at an entry, and reads a vector.  *)
LEMMA AtEntry ==
    ASSUME NEW offs, TableAt(offs), Whole, it # 0, NEW i \in 1..NumEntries + 1, it = Place(offs, i)
    PROVE  /\ i \in 1..NumEntries
           /\ \E m \in Nat \ {0} : VectorIs(offs, i, m)
  <1>1. i \in 1..NumEntries
    BY LinksOfTable DEF NumEntries, Whole
  <1> QED
    BY <1>1, VectorRead

(* The entries of a vector are put into the map with those before.         *)
LEMMA EnteredUpto ==
    ASSUME NEW offs, NEW i \in 1..NumEntries, NEW m \in Nat \ {0}, VectorIs(offs, i, m),
           NEW map, MapUpto(map, texts, i)
    PROVE  MapUpto(Put(map, Entered), texts, i + m)
  <1>1. NumEntries \in Nat /\ i \in Nat /\ i >= 1 /\ i + m <= NumEntries + 1
    BY EntriesType DEF VectorIs, NumEntries
  <1>2. \A k \in 1..m : (i - 1) + k \in 1..NumEntries /\ (i - 1) + k \in 1..(i + m) - 1
    BY <1>1
  <1>3. \A j \in 1..(i + m) - 1 : j \in 1..NumEntries /\ (j \in 1..i - 1 \/ \E k \in 1..m : j = (i - 1) + k)
    <2> SUFFICES ASSUME NEW j \in 1..(i + m) - 1, j \notin 1..i - 1
                 PROVE  \E k \in 1..m : j = (i - 1) + k
      BY <1>1
    <2>1. j - (i - 1) \in 1..m /\ j = (i - 1) + (j - (i - 1))
      BY <1>1
    <2> QED
      BY <2>1
  <1>4. /\ DOMAIN Infos = 1..m
        /\ \A k \in 1..m : /\ Infos[k].id = Entries[(i - 1) + k].id
                           /\ texts[Infos[k].offset] = Entries[(i - 1) + k].text
    BY DEF VectorIs
  <1>5. \A k \in 1..m, l \in 1..m : Infos[k].id = Infos[l].id => k = l
    <2> SUFFICES ASSUME NEW k \in 1..m, NEW l \in 1..m, Infos[k].id = Infos[l].id PROVE k = l
      OBVIOUS
    <2>1. (i - 1) + k = (i - 1) + l
      BY <1>2, <1>4, EntriesType DEF NumEntries
    <2> QED
      BY <1>1, <2>1
  <1>6. DOMAIN Entered = {Infos[k].id : k \in 1..m}
    BY <1>4 DEF Entered
  <1>7. ASSUME NEW k \in 1..m
        PROVE  Infos[k].id \in DOMAIN Entered /\ Entered[Infos[k].id].offset = Infos[k].offset
    <2> DEFINE c == CHOOSE j \in DOMAIN Infos : Infos[j].id = Infos[k].id
    <2>1. c \in 1..m /\ Infos[c].id = Infos[k].id
      BY <1>4
    <2> HIDE DEF c
    <2>2. c = k
      BY <1>5, <2>1
    <2>3. Entered[Infos[k].id] = [offset |-> Infos[c].offset, strlen |-> Infos[c].strlen]
      BY <1>4 DEF Entered, c
    <2> QED
      BY <1>6, <2>2, <2>3
  <1> DEFINE new == Put(map, Entered)
  <1>8. DOMAIN new = DOMAIN Entered \cup DOMAIN map
        /\ \A x \in DOMAIN new : new[x] = IF x \in DOMAIN Entered THEN Entered[x] ELSE map[x]
    BY DEF Put
  <1>9. DOMAIN map = {Entries[j].id : j \in 1..i - 1}
        /\ \A j \in 1..i - 1 : texts[map[Entries[j].id].offset] = Entries[j].text
    BY DEF MapUpto
  <1> HIDE DEF new
  <1>10. DOMAIN new = {Entries[j].id : j \in 1..(i + m) - 1}
    <2>1. ASSUME NEW x \in DOMAIN new PROVE x \in {Entries[j].id : j \in 1..(i + m) - 1}
      <3>1. CASE x \in DOMAIN Entered
        <4>1. PICK k \in 1..m : x = Infos[k].id
          BY <1>6, <3>1
        <4>2. x = Entries[(i - 1) + k].id
          BY <1>4, <4>1
        <4> QED
          BY <1>2, <4>2
      <3>2. CASE x \in DOMAIN map
        <4>1. PICK j \in 1..i - 1 : x = Entries[j].id
          BY <1>9, <3>2
        <4>2. j \in 1..(i + m) - 1
          BY <1>1
        <4> QED
          BY <4>1, <4>2
      <3> QED
        BY <1>8, <3>1, <3>2
    <2>2. ASSUME NEW j \in 1..(i + m) - 1 PROVE Entries[j].id \in DOMAIN new
      <3>1. CASE j \in 1..i - 1
        BY <1>8, <1>9, <3>1
      <3>2. CASE \E k \in 1..m : j = (i - 1) + k
        <4>1. PICK k \in 1..m : j = (i - 1) + k
          BY <3>2
        <4>2. Entries[j].id = Infos[k].id
          BY <1>4, <4>1
        <4> QED
          BY <1>7, <1>8, <4>2
      <3> QED
        BY <1>3, <3>1, <3>2
    <2> QED
      BY <2>1, <2>2
  <1>11. ASSUME NEW j \in 1..(i + m) - 1 PROVE texts[new[Entries[j].id].offset] = Entries[j].text
    <2>1. CASE \E k \in 1..m : j = (i - 1) + k
      <3>1. PICK k \in 1..m : j = (i - 1) + k
        BY <2>1
      <3>2. Entries[j].id = Infos[k].id /\ Entries[j].text = texts[Infos[k].offset]
        BY <1>4, <3>1
      <3>3. new[Infos[k].id] = Entered[Infos[k].id]
        BY <1>7, <1>8
      <3> QED
        BY <1>7, <3>2, <3>3
    <2>2. CASE ~ \E k \in 1..m : j = (i - 1) + k
      <3>1. j \in 1..i - 1 /\ j \in 1..NumEntries
        BY <1>3, <2>2
      <3>2. Entries[j].id \notin DOMAIN Entered
        <4> SUFFICES ASSUME NEW k \in 1..m, Entries[j].id = Infos[k].id PROVE FALSE
          BY <1>6
        <4>1. (i - 1) + k \in 1..NumEntries /\ Entries[j].id = Entries[(i - 1) + k].id
          BY <1>2, <1>4
        <4>2. j = (i - 1) + k
          BY <3>1, <4>1, EntriesType DEF NumEntries
        <4> QED
          BY <2>2, <4>2
      <3>3. new[Entries[j].id] = map[Entries[j].id]
        BY <1>8, <1>9, <3>1, <3>2
      <3> QED
        BY <1>9, <3>1, <3>3
    <2> QED
      BY <2>1, <2>2
  <1> QED
    BY <1>10, <1>11 DEF MapUpto, new

LEMMA IndexVectorKeeps ==
    ASSUME NEW offs, Inv(offs), IndexVector
    PROVE  Inv(offs)'
  <1>1. IndexesRight'
    BY InvParts, IndexesKept DEF IndexVector, table
  <1>2. /\ UNCHANGED <<table, cache, recent, answer>> /\ it # 0 /\ it' = AfterVector
        /\ task.op \in {"index", "bake"}
        /\ task' = [task EXCEPT !.map = Put(@, Entered)]
    BY DEF IndexVector
  <1>3. Indexing(task, it, texts, offs) /\ Whole /\ TableAt(offs)
    BY <1>2, InvParts, WorkIs, NotIdle
  <1>4. PICK i \in 1..NumEntries + 1 : it = Place(offs, i) /\ MapUpto(task.map, texts, i)
    BY <1>3 DEF Indexing
  <1>5. i \in 1..NumEntries
    BY <1>2, <1>3, <1>4, AtEntry
  <1>6. PICK m \in Nat \ {0} : VectorIs(offs, i, m)
    BY <1>2, <1>3, <1>4, AtEntry
  <1>7. MapUpto(Put(task.map, Entered), texts, i + m)
    BY <1>4, <1>5, <1>6, EnteredUpto
  <1>8. it' = Place(offs, i + m) /\ i + m \in 1..NumEntries + 1
    <2>1. i + m <= NumEntries + 1 /\ NumEntries \in Nat
      BY <1>6, EntriesType DEF VectorIs, NumEntries
    <2> QED
      BY <1>2, <1>5, <1>6, <2>1 DEF VectorIs
  <1> DEFINE new == Put(task.map, Entered)
  <1> HIDE DEF new
  <1>9. task' = [task EXCEPT !.map = new]
    BY <1>2 DEF new
  <1>10. /\ task'.map = new /\ task'.op = task.op
         /\ \/ task' = [op |-> "index", map |-> task'.map, buckets |-> task'.buckets]
               /\ task'.buckets \in Buckets
            \/ task' = [op |-> "bake", map |-> task'.map]
    BY <1>3, <1>9 DEF Indexing
  <1>11. \E j \in 1..NumEntries + 1 : it' = Place(offs, j) /\ MapUpto(task'.map, texts, j)
    BY <1>7, <1>8, <1>10 DEF new
  <1>12. Indexing(task', it', texts, offs)
    BY <1>10, <1>11 DEF Indexing
  <1>13. Working(task', it', texts, offs) /\ task'.op \notin {"scan", "deliver"}
    BY <1>2, <1>10, <1>12 DEF Working
  <1> QED
    BY <1>1, <1>2, <1>3, <1>13, InvParts, TableStays

(* At the end the map is that of the whole table.                          *)
LEMMA IndexComplete ==
    ASSUME NEW offs, TableAt(offs), Whole, Indexing(task, it, texts, offs), it = 0
    PROVE  RightMap(task.map, texts)
  <1>1. PICK i \in 1..NumEntries + 1 : it = Place(offs, i) /\ MapUpto(task.map, texts, i)
    BY DEF Indexing
  <1>2. NumEntries \in Nat
    BY EntriesType DEF NumEntries
  <1>3. i - 1 = NumEntries
    BY <1>1, <1>2, LinksOfTable
  <1>4. /\ DOMAIN task.map = {Entries[j].id : j \in 1..NumEntries}
        /\ \A j \in 1..NumEntries : texts[task.map[Entries[j].id].offset] = Entries[j].text
    BY <1>1, <1>3 DEF MapUpto
  <1>5. Ids = {Entries[j].id : j \in 1..NumEntries}
    BY EntriesType DEF Ids, NumEntries
  <1>6. ASSUME NEW id \in Ids PROVE texts[task.map[id].offset] = RightText(id)
    <2>1. PICK j \in 1..NumEntries : id = Entries[j].id
      BY <1>5
    <2> QED
      BY <1>4, <2>1, TextOfEntry DEF NumEntries
  <1> QED
    BY <1>4, <1>5, <1>6 DEF RightMap

LEMMA IndexDoneKeeps ==
    ASSUME NEW offs, Inv(offs), IndexDone
    PROVE  Inv(offs)'
  <1>1. /\ UNCHANGED <<table, it, answer>> /\ it = 0 /\ task.op = "index" /\ task' = Idle
        /\ index' = task.map /\ UNCHANGED <<saved, open>>
    BY DEF IndexDone
  <1>2. Indexing(task, it, texts, offs) /\ Whole /\ TableAt(offs) /\ task.buckets \in Buckets
    <2>1. Indexing(task, it, texts, offs) /\ Whole /\ TableAt(offs)
      BY <1>1, InvParts, WorkIs, NotIdle
    <2> QED
      BY <1>1, <2>1 DEF Indexing
  <1>3. RightMap(task.map, texts)
    BY <1>1, <1>2, IndexComplete
  <1>4. IndexesRight'
    BY <1>1, <1>2, <1>3, InvParts DEF IndexesRight, table, Whole
  <1>5. CacheSound(cache', recent')
    <2>1. CASE cache = None
      BY <1>2, <2>1, InstalledSound DEF IndexDone
    <2>2. CASE cache # None
      BY <2>2, InvParts DEF IndexDone
    <2> QED
      BY <2>1, <2>2
  <1> QED
    BY <1>1, <1>4, <1>5, InvParts, IdleRight, TableStays

LEMMA BakeDoneKeeps ==
    ASSUME NEW offs, Inv(offs), BakeDone
    PROVE  Inv(offs)'
  <1>1. /\ UNCHANGED <<table, it, answer, cache, recent>> /\ it = 0 /\ task.op = "bake"
        /\ task' = Idle /\ saved' = task.map /\ UNCHANGED <<index, open>>
    BY DEF BakeDone
  <1>2. Indexing(task, it, texts, offs) /\ Whole /\ TableAt(offs)
    BY <1>1, InvParts, WorkIs, NotIdle
  <1>3. RightMap(task.map, texts)
    BY <1>1, <1>2, IndexComplete
  <1>4. IndexesRight'
    BY <1>1, <1>2, <1>3, InvParts DEF IndexesRight, table, Whole
  <1> QED
    BY <1>1, <1>4, InvParts, IdleRight, TableStays-----------------------------------------------------------------------------
(* Fetching a text *)

LEMMA BucketSound ==
    ASSUME cache # None, CacheSound(cache, recent), NEW id \in Ids \cup Unknown
    PROVE  \E n \in Nat \ {0} : /\ DOMAIN cache = 0..n - 1 /\ DOMAIN recent = 0..n - 1
                                /\ BucketOf(id) \in 0..n - 1
                                /\ \A b \in 0..n - 1 : Sound(cache[b], recent[b])
  <1>1. PICK n \in Nat \ {0} : /\ DOMAIN cache = 0..n - 1 /\ DOMAIN recent = 0..n - 1
                               /\ \A b \in 0..n - 1 : Sound(cache[b], recent[b])
    BY DEF CacheSound
  <1>2. Cardinality(DOMAIN cache) = n
    BY <1>1, FS_Interval
  <1>3. HashOf[id] \in Nat
    BY ArchiveStringsAssumption
  <1>4. HashOf[id] % n \in 0..n - 1
    BY <1>3
  <1> QED
    BY <1>1, <1>2, <1>4 DEF BucketOf

(* The bucket of the identifier asked for is renewed, the others stay.     *)
LEMMA BucketRenewed ==
    ASSUME cache # None, CacheSound(cache, recent), NEW id \in Ids \cup Unknown,
           NEW list, Sound(list, Renewed(recent[BucketOf(id)], id)),
           cache' = [cache EXCEPT ![BucketOf(id)] = list], Noted(id)
    PROVE  CacheSound(cache', recent')
  <1> DEFINE b == BucketOf(id)
  <1>1. PICK n \in Nat \ {0} : /\ DOMAIN cache = 0..n - 1 /\ DOMAIN recent = 0..n - 1
                               /\ b \in 0..n - 1
                               /\ \A x \in 0..n - 1 : Sound(cache[x], recent[x])
    BY BucketSound
  <1>2. recent' = [recent EXCEPT ![b] = Renewed(recent[b], id)]
    BY DEF Noted, Renewed
  <1> HIDE DEF b
  <1>3. cache' = [cache EXCEPT ![b] = list] /\ Sound(list, Renewed(recent[b], id))
    BY DEF b
  <1>4. DOMAIN cache' = 0..n - 1 /\ DOMAIN recent' = 0..n - 1
    BY <1>1, <1>2, <1>3
  <1>5. \A x \in 0..n - 1 : Sound(cache'[x], recent'[x])
    <2> SUFFICES ASSUME NEW x \in 0..n - 1 PROVE Sound(cache'[x], recent'[x])
      OBVIOUS
    <2>1. CASE x = b
      <3>1. cache'[x] = list /\ recent'[x] = Renewed(recent[b], id)
        BY <1>1, <1>2, <1>3, <2>1
      <3> QED
        BY <1>3, <3>1
    <2>2. CASE x # b
      <3>1. cache'[x] = cache[x] /\ recent'[x] = recent[x]
        BY <1>1, <1>2, <1>3, <2>2
      <3> QED
        BY <1>1, <3>1
    <2> QED
      BY <2>1, <2>2
  <1> QED
    BY <1>4, <1>5 DEF CacheSound

LEMMA FetchedRight ==
    ASSUME NEW id, NEW text, text = IF id \in Ids THEN RightText(id) ELSE None
    PROVE  RightAnswer(Answer("fetch", id, text))
  <1> DEFINE a == Answer("fetch", id, text)
  <1>1. a.op = "fetch" /\ a.of = id /\ a.result = text /\ a.op \notin DOMAIN PredLimit
    BY DEF Answer, PredLimit
  <1> HIDE DEF a
  <1>2. RightAnswer(a)
    BY <1>1 DEF RightAnswer
  <1> QED
    BY <1>2 DEF a

LEMMA FetchHitKeeps ==
    ASSUME NEW offs, Inv(offs), NEW id \in Ids \cup Unknown, FetchHit(id)
    PROVE  Inv(offs)'
  <1> DEFINE b == BucketOf(id)
             s == Lookup(cache[b], id)
  <1>1. IndexesRight'
    BY InvParts, IndexesKept DEF FetchHit, table
  <1>2. /\ UNCHANGED <<table, it, task>> /\ task = Idle
        /\ cache # None /\ s # None /\ Noted(id)
        /\ cache' = [cache EXCEPT ![b] = MakeMostRecent(cache[b], s)]
        /\ answer' = Answer("fetch", id, cache[b].text[s])
    BY DEF FetchHit, Quiet, Hit
  <1>3. Sound(cache[b], recent[b])
    BY <1>2, InvParts, BucketSound
  <1>4. /\ id \in Ids
        /\ cache[b].text[s] = RightText(id)
        /\ Sound(MakeMostRecent(cache[b], s), Renewed(recent[b], id))
    BY <1>2, <1>3, HitSound
  <1>5. CacheSound(cache', recent')
    <2> HIDE DEF s
    <2> QED
      BY <1>2, <1>4, InvParts, BucketRenewed
  <1>6. RightAnswer(answer')
    BY <1>2, <1>4, FetchedRight
  <1> QED
    BY <1>1, <1>2, <1>5, <1>6, InvParts, IdleRight, TableStays

LEMMA NotHitMissing ==
    ASSUME NEW id, ~Hit(id)
    PROVE  Missing(cache, id)
  BY DEF Hit, Missing, BucketOf

LEMMA Delivers ==
    ASSUME NEW id \in Ids \cup Unknown, NEW text,
           text = IF id \in Ids THEN RightText(id) ELSE None
    PROVE  /\ \A at, file, offs : Working(Deliver(id, text), at, file, offs)
           /\ Deliver(id, text).op = "deliver" /\ Deliver(id, text).id = id
           /\ Deliver(id, text).text = text
  <1> DEFINE t == Deliver(id, text)
  <1>1. t = Deliver(t.id, t.text) /\ t.id = id /\ t.text = text /\ t.op = "deliver"
    BY DEF Deliver
  <1> HIDE DEF t
  <1>2. Delivering(t)
    BY <1>1 DEF Delivering
  <1>3. \A at, file, offs : Working(t, at, file, offs)
    BY <1>2 DEF Working
  <1> QED
    BY <1>1, <1>3 DEF t

LEMMA FetchIndexedKeeps ==
    ASSUME NEW offs, Inv(offs), NEW id \in Ids \cup Unknown, FetchIndexed(id)
    PROVE  Inv(offs)'
  <1> DEFINE text == IF id \in DOMAIN index THEN texts[index[id].offset] ELSE None
  <1>1. IndexesRight'
    BY InvParts, IndexesKept DEF FetchIndexed, table
  <1>2. /\ UNCHANGED <<table, it, cache, recent, answer>> /\ index # None /\ Missing(cache, id)
        /\ task' = Deliver(id, text)
    BY NotHitMissing DEF FetchIndexed
  <1>3. Whole /\ RightMap(index, texts)
    BY <1>2, InvParts DEF IndexesRight
  <1>4. text = IF id \in Ids THEN RightText(id) ELSE None
    BY <1>3 DEF RightMap
  <1> HIDE DEF text
  <1>5. Working(task', it', texts, offs) /\ task'.id = id
    BY <1>2, <1>4, Delivers
  <1> QED
    BY <1>1, <1>2, <1>3, <1>5, InvParts, TableStays

LEMMA FetchByScanKeeps ==
    ASSUME NEW offs, Inv(offs), NEW id \in Ids \cup Unknown, FetchByScan(id)
    PROVE  Inv(offs)'
  <1>1. IndexesRight'
    BY InvParts, IndexesKept DEF FetchByScan, table
  <1>2. /\ UNCHANGED <<table, cache, recent, answer>> /\ it' = FirstEntry /\ Missing(cache, id)
        /\ task' = [op |-> "scan", id |-> id] /\ open
    BY NotHitMissing DEF FetchByScan, Scan, Quiet
  <1>3. Whole /\ TableAt(offs)
    BY <1>2, InvParts DEF IndexesRight
  <1>4. task'.id = id /\ task' = [op |-> "scan", id |-> task'.id]
    BY <1>2
  <1>5. \E i \in 1..NumEntries + 1 : /\ it' = Place(offs, i)
                                     /\ \A j \in 1..i - 1 : Entries[j].id # task'.id
    <2>1. \A j \in 1..1 - 1 : Entries[j].id # task'.id
      OBVIOUS
    <2> QED
      BY <1>2, <1>3, <2>1, ScanBegins
  <1>6. Scanning(task', it', offs)
    BY <1>4, <1>5 DEF Scanning
  <1>7. Working(task', it', texts, offs)
    BY <1>6 DEF Working
  <1> QED
    BY <1>1, <1>2, <1>3, <1>4, <1>7, InvParts, TableStays

LEMMA ScanVectorKeeps ==
    ASSUME NEW offs, Inv(offs), ScanVector
    PROVE  Inv(offs)'
  <1> DEFINE here == {k \in DOMAIN Infos : Infos[k].id = task.id}
  <1>1. IndexesRight'
    BY InvParts, IndexesKept DEF ScanVector, table
  <1>2. /\ UNCHANGED <<table, cache, recent, answer>> /\ it # 0 /\ it' = AfterVector
        /\ task.op = "scan"
        /\ task' = IF here = {} THEN task ELSE Deliver(task.id, texts[Infos[Min(here)].offset])
    BY DEF ScanVector
  <1>3. Scanning(task, it, offs) /\ Whole /\ TableAt(offs) /\ Missing(cache, task.id)
    BY <1>2, InvParts, WorkIs, NotIdle
  <1>4. PICK i \in 1..NumEntries + 1 : /\ it = Place(offs, i)
                                       /\ \A j \in 1..i - 1 : Entries[j].id # task.id
    BY <1>3 DEF Scanning
  <1>5. i \in 1..NumEntries
    BY <1>2, <1>3, <1>4, AtEntry
  <1>6. PICK m \in Nat \ {0} : VectorIs(offs, i, m)
    BY <1>2, <1>3, <1>4, AtEntry
  <1>7. /\ NumEntries \in Nat /\ i + m \in 1..NumEntries + 1 /\ it' = Place(offs, i + m)
        /\ \A k \in 1..m : (i - 1) + k \in 1..NumEntries
    BY <1>2, <1>5, <1>6, EntriesType DEF VectorIs, NumEntries
  <1>8. /\ DOMAIN Infos = 1..m
        /\ \A k \in 1..m : /\ Infos[k].id = Entries[(i - 1) + k].id
                           /\ texts[Infos[k].offset] = Entries[(i - 1) + k].text
    BY <1>6 DEF VectorIs
  <1>9. CASE here = {}
    <2>1. \A j \in 1..(i + m) - 1 : Entries[j].id # task.id
      <3> SUFFICES ASSUME NEW j \in 1..(i + m) - 1, j \notin 1..i - 1 PROVE Entries[j].id # task.id
        BY <1>4
      <3>1. PICK k \in 1..m : j = (i - 1) + k
        <4>1. j - (i - 1) \in 1..m /\ j = (i - 1) + (j - (i - 1))
          BY <1>5
        <4> QED
          BY <4>1
      <3> QED
        BY <1>8, <1>9, <3>1
    <2>2. Scanning(task', it', offs) /\ task' = task
      BY <1>2, <1>3, <1>7, <1>9, <2>1 DEF Scanning
    <2>3. Working(task', it', texts, offs)
      BY <2>2 DEF Working
    <2> QED
      BY <1>1, <1>2, <1>3, <2>2, <2>3, InvParts, TableStays
  <1>10. CASE here # {}
    <2>1. here \in SUBSET Nat
      BY <1>8
    <2>2. Min(here) \in here
      BY <1>10, <2>1, LeastOne
    <2>3. Min(here) \in 1..m /\ Infos[Min(here)].id = task.id
      BY <1>8, <2>2
    <2> HIDE DEF here
    <2> DEFINE j == (i - 1) + Min(here)
    <2>4. j \in 1..NumEntries /\ Entries[j].id = task.id /\ texts[Infos[Min(here)].offset] = Entries[j].text
      BY <1>7, <1>8, <2>3
    <2> HIDE DEF j
    <2>5. task.id \in Ids /\ RightText(task.id) = Entries[j].text
      BY <2>4, EntriesType, TextOfEntry DEF NumEntries
    <2>6. task' = Deliver(task.id, RightText(task.id))
      BY <1>2, <1>10, <2>4, <2>5
    <2>7. Working(task', it', texts, offs) /\ task'.id = task.id
      BY <2>5, <2>6, Delivers
    <2> QED
      BY <1>1, <1>2, <1>3, <2>7, InvParts, TableStays
  <1> QED
    BY <1>9, <1>10

LEMMA ScanFailsKeeps ==
    ASSUME NEW offs, Inv(offs), ScanFails
    PROVE  Inv(offs)'
  <1>1. IndexesRight'
    BY InvParts, IndexesKept DEF ScanFails, table
  <1>2. /\ UNCHANGED <<table, it, cache, recent, answer>> /\ it = 0 /\ task.op = "scan"
        /\ task' = Deliver(task.id, None)
    BY DEF ScanFails
  <1>3. Scanning(task, it, offs) /\ Whole /\ TableAt(offs) /\ Missing(cache, task.id)
    BY <1>2, InvParts, WorkIs, NotIdle
  <1>4. PICK i \in 1..NumEntries + 1 : /\ it = Place(offs, i)
                                       /\ \A j \in 1..i - 1 : Entries[j].id # task.id
    BY <1>3 DEF Scanning
  <1>5. NumEntries \in Nat
    BY EntriesType DEF NumEntries
  <1>6. i - 1 = NumEntries
    BY <1>2, <1>3, <1>4, <1>5, LinksOfTable
  <1>7. task.id \notin Ids /\ task.id \in Ids \cup Unknown
    BY <1>3, <1>4, <1>6, TextOfEntry DEF NumEntries, Scanning
  <1>8. Working(task', it', texts, offs) /\ task'.id = task.id
    BY <1>2, <1>7, Delivers
  <1> QED
    BY <1>1, <1>2, <1>3, <1>8, InvParts, TableStays

LEMMA FetchAnswersKeeps ==
    ASSUME NEW offs, Inv(offs), FetchAnswers
    PROVE  Inv(offs)'
  <1> DEFINE id == task.id
             b == BucketOf(id)
  <1>1. IndexesRight'
    BY InvParts, IndexesKept DEF FetchAnswers, table
  <1>2. UNCHANGED <<table, it>> /\ task.op = "deliver" /\ task' = Idle
    BY DEF FetchAnswers
  <1>3. Delivering(task) /\ Missing(cache, id)
    BY <1>2, InvParts, WorkIs
  <1>4. id \in Ids \cup Unknown /\ task.text = IF id \in Ids THEN RightText(id) ELSE None
    BY <1>3 DEF Delivering
  <1>5. CASE cache # None /\ task.text = None
    <2>1. UNCHANGED <<cache, recent, answer>>
      BY <1>5 DEF FetchAnswers
    <2> QED
      BY <1>1, <1>2, <2>1, InvParts, IdleRight, TableStays
  <1>6. CASE ~(cache # None /\ task.text = None)
    <2>1. answer' = Answer("fetch", id, task.text)
      BY <1>6 DEF FetchAnswers
    <2>2. RightAnswer(answer')
      BY <1>4, <2>1, FetchedRight
    <2>3. CacheSound(cache', recent')
      <3>1. CASE cache = None
        BY <1>6, <3>1, InvParts DEF FetchAnswers
      <3>2. CASE cache # None
        <4>1. /\ cache' = [cache EXCEPT ![b] = Stored(cache[b], id, task.text)]
              /\ Noted(id)
          BY <1>6, <3>2 DEF FetchAnswers
        <4>2. id \in Ids /\ task.text = RightText(id)
          BY <1>4, <1>6, <3>2
        <4>3. Sound(cache[b], recent[b])
          BY <1>4, <3>2, InvParts, BucketSound
        <4>4. Lookup(cache[b], id) = None
          BY <1>3, <3>2 DEF Missing, BucketOf
        <4>5. Sound(Stored(cache[b], id, task.text), Renewed(recent[b], id))
          BY <4>2, <4>3, <4>4, MissSound
        <4> QED
          BY <1>4, <3>2, <4>1, <4>5, InvParts, BucketRenewed
      <3> QED
        BY <3>1, <3>2
    <2> QED
      BY <1>1, <1>2, <2>2, <2>3, InvParts, IdleRight, TableStays
  <1> QED
    BY <1>5, <1>6-----------------------------------------------------------------------------
(* Searching *)

LEMMA FindNothingKeeps ==
    ASSUME NEW offs, Inv(offs), NEW pred, NEW needle, NEW limit, FindNothing(pred, needle, limit)
    PROVE  Inv(offs)'
  <1>1. IndexesRight'
    BY InvParts, IndexesKept DEF FindNothing, table
  <1>2. /\ UNCHANGED <<table, it, task, cache, recent>>
        /\ answer' = Answer("nothing", needle, <<>>)
    BY DEF FindNothing
  <1>3. answer'.op = "nothing"
    BY <1>2 DEF Answer
  <1>4. RightAnswer(answer')
    BY <1>3 DEF RightAnswer, PredLimit
  <1> QED
    BY <1>1, <1>2, <1>4, InvParts, TableStays

LEMMA FindIdsKeeps ==
    ASSUME NEW offs, Inv(offs), NEW pred \in DOMAIN PredLimit, NEW needle, NEW limit \in Limits,
           FindIds(pred, needle, limit)
    PROVE  Inv(offs)'
  <1> DEFINE l == Limit(pred, limit)
  <1>1. IndexesRight'
    BY InvParts, IndexesKept DEF FindIds, table
  <1>2. /\ UNCHANGED <<table, cache, recent, answer>> /\ it' = FirstEntry /\ open /\ l # 0
        /\ task' = [op |-> "find", pred |-> pred, needle |-> needle, limit |-> l, ids |-> <<>>]
    BY DEF FindIds, Scan, Quiet
  <1>3. Whole /\ TableAt(offs)
    BY <1>2, InvParts DEF IndexesRight
  <1>4. l \in Int
    <2>1. limit \in Int /\ PredLimit[pred] \in Int
      BY ArchiveStringsAssumption DEF PredLimit
    <2> QED
      BY <2>1 DEF Limit
  <1> HIDE DEF l
  <1>5. /\ task' = [op |-> "find", pred |-> task'.pred, needle |-> task'.needle,
                    limit |-> task'.limit, ids |-> task'.ids]
        /\ task'.op = "find" /\ task'.pred = pred /\ task'.needle = needle
        /\ task'.limit = l /\ task'.ids = <<>>
    BY <1>2
  <1>6. Cardinality(Hits(needle, 0)) = 0
    BY FS_EmptySet DEF Hits
  <1>7. Found(<<>>, needle)
    <2>1. \A h \in AllHits(needle) : ~(Rank(AllHits(needle), h) <= 0)
      <3> SUFFICES ASSUME NEW h \in AllHits(needle) PROVE ~(Rank(AllHits(needle), h) <= 0)
        OBVIOUS
      <3>1. /\ AllHits(needle) \in SUBSET Nat /\ IsFiniteSet(AllHits(needle))
            /\ Cardinality(AllHits(needle)) \in Nat
        BY ScanBegins, <1>3, HitsFinite DEF AllHits
      <3>2. Rank(AllHits(needle), h) \in 1..Cardinality(AllHits(needle))
        BY <3>1, RankStrict
      <3> QED
        BY <3>1, <3>2
    <2> QED
      BY <2>1 DEF Found
  <1>8. \E i \in 1..NumEntries + 1 : /\ it' = Place(offs, i)
                                     /\ Len(task'.ids) = Cardinality(Hits(task'.needle, i - 1))
                                     /\ task'.limit > 0 => Len(task'.ids) < task'.limit
    <2>1. Len(<<>>) = 0 /\ (l > 0 => 0 < l)
      BY <1>4
    <2>2. it' = Place(offs, 1) /\ Cardinality(Hits(needle, 1 - 1)) = 0
      BY <1>2, <1>3, <1>6, ScanBegins
    <2> QED
      BY <1>3, <1>5, <2>1, <2>2, ScanBegins
  <1>9. Searching(task', it', offs)
    BY <1>2, <1>4, <1>5, <1>7, <1>8 DEF Searching
  <1>10. Working(task', it', texts, offs) /\ task'.op \notin {"scan", "deliver"}
    BY <1>5, <1>9 DEF Working
  <1> QED
    BY <1>1, <1>2, <1>3, <1>10, InvParts, TableStays

(* What is found up to a limit is the beginning of all that is found.      *)
LEMMA FoundFirst ==
    ASSUME NEW all, NEW needle, Found(all, needle), NEW n \in Nat, n <= Len(all)
    PROVE  Found(SubSeq(all, 1, n), needle) /\ Len(SubSeq(all, 1, n)) = n
  <1>1. all \in Seq(Ids)
    BY DEF Found
  <1>2. /\ SubSeq(all, 1, n) \in Seq(Ids) /\ Len(SubSeq(all, 1, n)) = n
        /\ \A k \in 1..n : SubSeq(all, 1, n)[k] = all[k]
    BY <1>1
  <1>3. ASSUME NEW h \in AllHits(needle), Rank(AllHits(needle), h) <= n
        PROVE  SubSeq(all, 1, n)[Rank(AllHits(needle), h)] = Entries[h].id
    <2>1. /\ AllHits(needle) \in SUBSET Nat /\ IsFiniteSet(AllHits(needle))
          /\ Cardinality(AllHits(needle)) \in Nat
      BY EntriesType, HitsFinite DEF AllHits, NumEntries
    <2>2. Rank(AllHits(needle), h) \in 1..Cardinality(AllHits(needle))
      BY <2>1, RankStrict
    <2>3. Rank(AllHits(needle), h) \in 1..n /\ Rank(AllHits(needle), h) <= Len(all)
      BY <1>1, <1>3, <2>1, <2>2
    <2> QED
      BY <1>2, <2>3 DEF Found
  <1> QED
    BY <1>2, <1>3 DEF Found

LEMMA FindVectorKeeps ==
    ASSUME NEW offs, Inv(offs), FindVector
    PROVE  Inv(offs)'
  <1> DEFINE needle == task.needle
             limit == task.limit
  <1>1. IndexesRight'
    BY InvParts, IndexesKept DEF FindVector, table
  <1>2. /\ UNCHANGED <<table, cache, recent, answer>> /\ it # 0 /\ task.op = "find"
        /\ task' = [task EXCEPT !.ids = Collected]
        /\ it' = IF limit > 0 /\ Len(Collected) = limit THEN 0 ELSE AfterVector
    BY DEF FindVector
  <1>3. Searching(task, it, offs) /\ Whole /\ TableAt(offs)
    BY <1>2, InvParts, WorkIs, NotIdle
  <1>4. PICK i \in 1..NumEntries + 1 : /\ it = Place(offs, i)
                                       /\ Len(task.ids) = Cardinality(Hits(needle, i - 1))
                                       /\ limit > 0 => Len(task.ids) < limit
    BY <1>2, <1>3 DEF Searching
  <1>5. i \in 1..NumEntries
    BY <1>2, <1>3, <1>4, AtEntry
  <1>6. PICK m \in Nat \ {0} : VectorIs(offs, i, m)
    BY <1>2, <1>3, <1>4, AtEntry
  <1>7. /\ NumEntries \in Nat /\ i + m \in 1..NumEntries + 1 /\ (i + m) - 1 \in 0..NumEntries
        /\ AfterVector = Place(offs, i + m)
    BY <1>5, <1>6, EntriesType DEF VectorIs, NumEntries
  <1>8. /\ task = [op |-> "find", pred |-> task.pred, needle |-> task.needle, limit |-> task.limit,
                   ids |-> task.ids]
        /\ task.pred \in DOMAIN PredLimit /\ limit \in Int \ {0} /\ Found(task.ids, needle)
    BY <1>3 DEF Searching
  <1>9. \E all : /\ Found(all, needle)
                 /\ Len(all) = Cardinality(Hits(needle, (i + m) - 1))
                 /\ Collected = IF limit > 0 /\ Len(all) >= limit THEN SubSeq(all, 1, limit) ELSE all
    <2>1. Len(task.ids) = Cardinality(Hits(task.needle, i - 1))
      BY <1>4
    <2>2. Found(task.ids, task.needle)
      BY <1>8
    <2> QED
      BY <1>3, <1>5, <1>6, <1>8, <2>1, <2>2, VectorCollected, Zenon
  <1>10. PICK all : /\ Found(all, needle)
                    /\ Len(all) = Cardinality(Hits(needle, (i + m) - 1))
                    /\ Collected = IF limit > 0 /\ Len(all) >= limit THEN SubSeq(all, 1, limit)
                                   ELSE all
    BY <1>9
  <1>11. /\ Len(all) \in Nat /\ Cardinality(AllHits(needle)) \in Nat
         /\ Len(all) <= Cardinality(AllHits(needle))
    <2>1. (i + m) - 1 \in Nat /\ NumEntries \in Nat
      BY <1>7
    <2>2. /\ IsFiniteSet(AllHits(needle)) /\ Cardinality(AllHits(needle)) \in Nat
          /\ Cardinality(Hits(needle, (i + m) - 1)) \in Nat
      BY <2>1, HitsFinite DEF AllHits
    <2>3. Hits(needle, (i + m) - 1) \in SUBSET AllHits(needle)
      BY <1>7 DEF Hits, AllHits
    <2> QED
      BY <1>10, <2>2, <2>3, FS_Subset
  <1> DEFINE found == Collected
  <1> HIDE DEF found
  <1>12. task' = [task EXCEPT !.ids = found]
    BY <1>2 DEF found
  <1>13. /\ task' = [op |-> "find", pred |-> task'.pred, needle |-> task'.needle,
                     limit |-> task'.limit, ids |-> task'.ids]
         /\ task'.op = "find" /\ task'.pred = task.pred /\ task'.needle = needle
         /\ task'.limit = limit /\ task'.ids = found
    BY <1>8, <1>12
  <1> HIDE DEF needle, limit
  <1>14. Searching(task', it', offs)
    <2>1. CASE limit > 0 /\ Len(all) >= limit
      <3>1. found = SubSeq(all, 1, limit)
        BY <1>10, <2>1 DEF found
      <3>2. limit \in Nat /\ limit <= Len(all) /\ limit <= Cardinality(AllHits(needle))
        BY <1>8, <1>11, <2>1 DEF limit
      <3>3. Found(found, needle) /\ Len(found) = limit
        BY <1>10, <3>1, <3>2, FoundFirst
      <3>4. it' = 0
        BY <1>2, <2>1, <3>3 DEF found, limit
      <3> QED
        BY <1>8, <1>13, <2>1, <3>2, <3>3, <3>4 DEF Searching, limit, needle
    <2>2. CASE ~(limit > 0 /\ Len(all) >= limit)
      <3>1. found = all
        BY <1>10, <2>2 DEF found
      <3>2. limit > 0 => Len(found) < limit
        BY <1>8, <1>11, <2>2, <3>1 DEF limit
      <3>3. it' = Place(offs, i + m)
        <4>1. ~(limit > 0 /\ Len(found) = limit)
          BY <1>8, <1>11, <3>1, <3>2 DEF limit
        <4> QED
          BY <1>2, <1>7, <4>1 DEF found, limit
      <3>4. \E j \in 1..NumEntries + 1 : /\ it' = Place(offs, j)
                                         /\ Len(task'.ids) = Cardinality(Hits(task'.needle, j - 1))
                                         /\ task'.limit > 0 => Len(task'.ids) < task'.limit
        BY <1>7, <1>10, <1>13, <3>1, <3>2, <3>3
      <3>5. task'.pred \in DOMAIN PredLimit /\ task'.limit \in Int \ {0} /\ Found(task'.ids, task'.needle)
        BY <1>8, <1>10, <1>13, <3>1 DEF limit
      <3> QED
        BY <1>13, <3>4, <3>5 DEF Searching
    <2> QED
      BY <2>1, <2>2
  <1>15. Working(task', it', texts, offs) /\ task'.op \notin {"scan", "deliver"}
    BY <1>13, <1>14 DEF Working
  <1> QED
    BY <1>1, <1>2, <1>3, <1>15, InvParts, TableStays

LEMMA FindAnswersKeeps ==
    ASSUME NEW offs, Inv(offs), FindAnswers
    PROVE  Inv(offs)'
  <1> DEFINE needle == task.needle
             all == Cardinality(AllHits(needle))
  <1>1. IndexesRight'
    BY InvParts, IndexesKept DEF FindAnswers, table
  <1>2. /\ UNCHANGED <<table, it, cache, recent>> /\ it = 0 /\ task.op = "find" /\ task' = Idle
        /\ answer' = [op |-> task.pred, of |-> task.needle, result |-> task.ids,
                      limit |-> task.limit]
    BY DEF FindAnswers
  <1>3. Searching(task, it, offs) /\ Whole /\ TableAt(offs)
    BY <1>2, InvParts, WorkIs, NotIdle
  <1>4. task.pred \in DOMAIN PredLimit /\ task.limit \in Int \ {0} /\ Found(task.ids, needle)
    BY <1>3 DEF Searching
  <1>5. NumEntries \in Nat /\ all \in Nat
    BY EntriesType, HitsFinite DEF AllHits, NumEntries
  <1>6. Len(task.ids) = IF 0 < task.limit /\ task.limit < all THEN task.limit ELSE all
    <2>1. CASE \E i \in 1..NumEntries + 1 : /\ it = Place(offs, i)
                                            /\ Len(task.ids) = Cardinality(Hits(needle, i - 1))
                                            /\ task.limit > 0 => Len(task.ids) < task.limit
      <3>1. PICK i \in 1..NumEntries + 1 : /\ it = Place(offs, i)
                                           /\ Len(task.ids) = Cardinality(Hits(needle, i - 1))
                                           /\ task.limit > 0 => Len(task.ids) < task.limit
        BY <2>1
      <3>2. i - 1 = NumEntries
        BY <1>2, <1>3, <1>5, <3>1, LinksOfTable
      <3>3. Len(task.ids) = all
        BY <3>1, <3>2 DEF AllHits
      <3> HIDE DEF all
      <3> QED
        BY <1>4, <1>5, <3>1, <3>3
    <2>2. CASE task.limit > 0 /\ Len(task.ids) = task.limit /\ task.limit <= all
      <3> HIDE DEF all
      <3> QED
        BY <1>4, <1>5, <2>2
    <2> QED
      BY <1>3, <2>1, <2>2 DEF Searching
  <1>7. /\ answer'.op = task.pred /\ answer'.of = needle /\ answer'.result = task.ids
        /\ answer'.limit = task.limit /\ answer'.op # "fetch"
    <2>1. task.pred # "fetch"
      BY <1>4 DEF PredLimit
    <2> QED
      BY <1>2, <2>1
  <1>8. \A h \in AllHits(needle) : Rank(AllHits(needle), h) <= Len(task.ids) =>
                                       task.ids[Rank(AllHits(needle), h)] = Entries[h].id
    BY <1>4 DEF Found
  <1> HIDE DEF needle
  <1>9. RightAnswer(answer')
    BY <1>6, <1>7, <1>8 DEF RightAnswer
  <1> QED
    BY <1>1, <1>2, <1>9, InvParts, IdleRight, TableStays

-----------------------------------------------------------------------------
(* Writing the table *)

LEMMA WriteEntryKeeps ==
    ASSUME IInv, WriteEntry
    PROVE  IInv'
  <1>1. PICK offs : Inv(offs)
    BY DEF IInv
  <1> DEFINE i == written + 1
             e == Entries[i]
             after == pos + HeaderSize + Size[e.text]
  <1>2. /\ written < NumEntries /\ pos' = after /\ written' = i
        /\ headers' = Put(headers, [o \in {pos} |-> [id |-> e.id, next |-> NextEntryOff(i),
                                                     strlen |-> Size[e.text]]])
        /\ texts' = Put(texts, [o \in {pos + HeaderSize} |-> e.text])
        /\ UNCHANGED <<saved, open, index, cache, it, task, answer, recent>>
    BY DEF WriteEntry, NumEntries
  <1>3. TableAt(offs) /\ written \in Nat /\ NumEntries \in Nat /\ i \in 1..NumEntries
    <2>1. TableAt(offs) /\ NumEntries \in Nat
      BY <1>1, InvParts, EntriesType DEF NumEntries
    <2> QED
      BY <1>2, <2>1 DEF TableAt
  <1>4. /\ offs \in [1..i -> Nat \ {0}] /\ offs[1] = FirstEntry /\ offs[i] = pos
        /\ \A k \in 1..written : offs[k] < pos
        /\ DOMAIN headers = {offs[k] : k \in 1..written}
        /\ DOMAIN texts = {offs[k] + HeaderSize : k \in 1..written}
        /\ \A k \in 1..written :
              /\ headers[offs[k]].id = Entries[k].id
              /\ headers[offs[k]].next = IF k < NumEntries THEN offs[k + 1] ELSE 0
              /\ texts[offs[k] + HeaderSize] = Entries[k].text
    BY <1>3 DEF TableAt
  <1>5. HeaderSize \in Nat \ {0} /\ Size[e.text] \in Nat /\ e.text \in Texts
    BY <1>3, ArchiveStringsAssumption, EntriesType DEF NumEntries
  <1>6. pos \in Nat \ {0} /\ after \in Nat \ {0} /\ pos < after
    <2>1. i \in 1..i
      BY <1>3
    <2>2. pos \in Nat \ {0}
      BY <1>4, <2>1
    <2> QED
      BY <1>5, <2>2
  <1>7. ~Whole
    BY <1>2, <1>3 DEF Whole
  <1>8. NextEntryOff(i) = IF i < NumEntries THEN after ELSE 0
    BY DEF NextEntryOff, NumEntries
  <1> HIDE DEF after, e
  <1> PICK new : new = [k \in 1..i + 1 |-> IF k <= i THEN offs[k] ELSE after]
    OBVIOUS
  <1>9. /\ new \in [1..i + 1 -> Nat \ {0}]
        /\ \A k \in 1..i : new[k] = offs[k]
        /\ new[i + 1] = after /\ new[1] = FirstEntry /\ new[i] = pos
    <2>1. \A k \in 1..i + 1 : k <= i => k \in 1..i
      BY <1>3
    <2> QED
      BY <1>3, <1>4, <1>6, <2>1
  <1>10. \A k \in 1..i : k \in 1..written \/ k = i
    BY <1>3
  <1>11. \A k \in 1..written : k \in 1..i /\ k + 1 \in 1..i /\ k # i
    BY <1>3
  <1>12. \A k \in 1..written : offs[k] \in Nat /\ offs[k] # pos /\ offs[k] + HeaderSize # pos + HeaderSize
    BY <1>4, <1>5, <1>6, <1>11
  <1> DEFINE head == [id |-> e.id, next |-> NextEntryOff(i), strlen |-> Size[e.text]]
  <1>13. /\ DOMAIN headers' = DOMAIN headers \cup {pos}
         /\ headers'[pos] = head
         /\ \A o \in DOMAIN headers : o # pos => headers'[o] = headers[o]
    BY <1>2 DEF Put
  <1>14. /\ DOMAIN texts' = DOMAIN texts \cup {pos + HeaderSize}
         /\ texts'[pos + HeaderSize] = e.text
         /\ \A o \in DOMAIN texts : o # pos + HeaderSize => texts'[o] = texts[o]
    BY <1>2 DEF Put
  <1>15. DOMAIN headers' = {new[k] : k \in 1..i}
    <2>1. \A o \in DOMAIN headers : \E k \in 1..i : o = new[k]
      BY <1>4, <1>9, <1>11
    <2>2. \E k \in 1..i : pos = new[k]
      BY <1>3, <1>9
    <2>3. \A k \in 1..i : new[k] \in DOMAIN headers \cup {pos}
      BY <1>4, <1>9, <1>10
    <2> QED
      BY <1>13, <2>1, <2>2, <2>3
  <1>16. DOMAIN texts' = {new[k] + HeaderSize : k \in 1..i}
    <2>1. \A o \in DOMAIN texts : \E k \in 1..i : o = new[k] + HeaderSize
      BY <1>4, <1>9, <1>11
    <2>2. \E k \in 1..i : pos + HeaderSize = new[k] + HeaderSize
      BY <1>3, <1>9
    <2>3. \A k \in 1..i : new[k] + HeaderSize \in DOMAIN texts \cup {pos + HeaderSize}
      BY <1>4, <1>9, <1>10
    <2> QED
      BY <1>14, <2>1, <2>2, <2>3
  <1>17. ASSUME NEW k \in 1..i
         PROVE  /\ headers'[new[k]].id = Entries[k].id
                /\ headers'[new[k]].next = IF k < NumEntries THEN new[k + 1] ELSE 0
                /\ texts'[new[k] + HeaderSize] = Entries[k].text
    <2>1. CASE k = i
      <3>1. new[k] = pos /\ new[k + 1] = after
        BY <1>9, <2>1
      <3>2. head.id = Entries[k].id /\ head.next = IF k < NumEntries THEN after ELSE 0
        BY <1>8, <2>1 DEF e
      <3> HIDE DEF head
      <3> QED
        BY <1>13, <1>14, <2>1, <3>1, <3>2 DEF e
    <2>2. CASE k \in 1..written
      <3>1. new[k] = offs[k] /\ new[k + 1] = offs[k + 1]
        BY <1>9, <1>11, <2>2
      <3>2. headers'[offs[k]] = headers[offs[k]]
        BY <1>4, <1>12, <1>13, <2>2
      <3>3. texts'[offs[k] + HeaderSize] = texts[offs[k] + HeaderSize]
        BY <1>4, <1>12, <1>14, <2>2
      <3> QED
        BY <1>4, <2>2, <3>1, <3>2, <3>3
    <2> QED
      BY <1>10, <2>1, <2>2
  <1>18. \A k \in 1..i : new[k] < after
    BY <1>4, <1>6, <1>9, <1>10, <1>12
  <1>19. TableAt(new)'
    <2>1. written' \in 0..NumEntries
      BY <1>2, <1>3
    <2>2. written' = i /\ pos' = after
      BY <1>2
    <2> HIDE DEF i
    <2>3. /\ new \in [1..written' + 1 -> Nat \ {0}]
          /\ new[1] = FirstEntry /\ new[written' + 1] = pos'
      BY <1>9, <2>2
    <2>4. \A k \in 1..written' : new[k] < pos'
      BY <1>18, <2>2
    <2>5. /\ DOMAIN headers' = {new[k] : k \in 1..written'}
          /\ DOMAIN texts' = {new[k] + HeaderSize : k \in 1..written'}
      BY <1>15, <1>16, <2>2
    <2>6. \A k \in 1..written' :
             /\ headers'[new[k]].id = Entries[k].id
             /\ headers'[new[k]].next = IF k < NumEntries THEN new[k + 1] ELSE 0
             /\ texts'[new[k] + HeaderSize] = Entries[k].text
      BY <1>17, <2>2
    <2> QED
      BY <2>1, <2>3, <2>4, <2>5, <2>6 DEF TableAt
  <1>20. task = Idle /\ ~open /\ index = None /\ saved = None
    BY <1>1, <1>7, InvParts DEF IndexesRight
  <1>21. IndexesRight'
    BY <1>2, <1>20 DEF IndexesRight
  <1>22. Inv(new)'
    BY <1>1, <1>2, <1>19, <1>20, <1>21, InvParts, IdleRight DEF Inv
  <1> QED
    BY <1>22 DEF IInv

-----------------------------------------------------------------------------
(* The theorems *)

LEMMA CallKeeps ==
    ASSUME IInv, Calls
    PROVE  IInv'
  <1>1. PICK offs : Inv(offs)
    BY DEF IInv
  <1> SUFFICES Inv(offs)'
    BY DEF IInv
  <1>2. CASE ArchiveOpen
    BY <1>1, <1>2, ArchiveOpenKeeps
  <1>3. CASE ArchiveClose
    BY <1>1, <1>3, ArchiveCloseKeeps
  <1>4. CASE AnswerUsed
    BY <1>1, <1>4, AnswerUsedKeeps
  <1>5. CASE Bake
    BY <1>1, <1>5, BakeKeeps
  <1>6. CASE DropIndexes
    BY <1>1, <1>6, DropIndexesKeeps
  <1>7. CASE DropCache
    BY <1>1, <1>7, DropCacheKeeps
  <1>8. CASE \E n \in Buckets : QueryIndexed(n) \/ QueryUnindexed(n) \/ CreateCache(n)
    BY <1>1, <1>8, QueryIndexedKeeps, QueryUnindexedKeeps, CreateCacheKeeps
  <1>9. CASE \E id \in Ids \cup Unknown : FetchHit(id) \/ FetchIndexed(id) \/ FetchByScan(id)
    BY <1>1, <1>9, FetchHitKeeps, FetchIndexedKeeps, FetchByScanKeeps
  <1>10. CASE \E p \in DOMAIN PredLimit, t \in Needles, l \in Limits :
                FindNothing(p, t, l) \/ FindIds(p, t, l)
    BY <1>1, <1>10, FindNothingKeeps, FindIdsKeeps
  <1> QED
    BY <1>2, <1>3, <1>4, <1>5, <1>6, <1>7, <1>8, <1>9, <1>10 DEF Calls

LEMMA GoingKeeps ==
    ASSUME IInv, Goes
    PROVE  IInv'
  <1>1. CASE WriteEntry
    BY <1>1, WriteEntryKeeps
  <1>2. CASE ~WriteEntry
    <2>1. PICK offs : Inv(offs)
      BY DEF IInv
    <2>2. Inv(offs)'
      BY <1>2, <2>1, IndexVectorKeeps, IndexDoneKeeps, BakeDoneKeeps, ScanVectorKeeps,
         ScanFailsKeeps, FetchAnswersKeeps, FindVectorKeeps, FindAnswersKeeps DEF Goes
    <2> QED
      BY <2>2 DEF IInv
  <1> QED
    BY <1>1, <1>2

LEMMA StutterKeeps ==
    ASSUME IInv, UNCHANGED vars
    PROVE  IInv'
  <1>1. PICK offs : Inv(offs)
    BY DEF IInv
  <1>2. IndexesRight'
    BY <1>1, InvParts, IndexesKept DEF vars
  <1>3. UNCHANGED <<table, it, task, cache, recent, answer>>
    BY DEF vars, table
  <1>4. Inv(offs)'
    BY <1>1, <1>2, <1>3, InvParts, TableStays
  <1> QED
    BY <1>4 DEF IInv

(* The table is linked as far as it is written, every index is that of the *)
(* whole table, an operation that goes on has done what it should up to    *)
(* its iterator's place, and every bucket of the cache holds what was      *)
(* asked of it last.                                                       *)
THEOREM ArchiveInvariant == Spec => []IInv
  <1>1. IInv /\ [Next]_vars => IInv'
    BY CallKeeps, GoingKeeps, StutterKeeps DEF Next
  <1> QED
    BY InitInv, <1>1, PTL DEF Spec

(* Whatever way an identifier takes, through the cache, an index built now *)
(* or baked before, or a scan, a fetch answers its text and nothing for an *)
(* identifier that is not there; a search answers the identifiers of the   *)
(* texts it has to find, in the order of the table, up to its limit.       *)
THEOREM ArchiveAnswersRight == Spec => []AnswersRight
  <1>1. IInv => AnswersRight
    BY InvAnswersRight
  <1> QED
    BY ArchiveInvariant, <1>1, PTL

(* Each bucket of the string cache holds the identifiers asked of it last, *)
(* in that order and with their texts, and its links lead through all      *)
(* slots in both directions.                                               *)
THEOREM ArchiveCacheIsLRU == Spec => []CacheIsLRU
  <1>1. IInv => CacheIsLRU
    BY InvCacheIsLRU
  <1> QED
    BY ArchiveInvariant, <1>1, PTL


=============================================================================
