----------------------------- MODULE SyncDictProofs -----------------------------
(***************************************************************************)
(* The string dictionary implements Dictionary, for every set of strings,  *)
(* every hash function, every number of buckets, every size of slices and  *)
(* batches, and every capacity, of the dictionary and of a batch's filter. *)
(* In the lists of its buckets, bounds, filters, sealed slices and         *)
(* remembered positions never hide a pair and never answer for another.    *)
(***************************************************************************)
EXTENDS SyncDict, SequenceTheorems, WellFoundedInduction, TLAPS

-----------------------------------------------------------------------------
(* The lists of the buckets *)

(* A slice whose bounds and filter cover its keys, and whose remembered    *)
(* position is one of its pairs.                                           *)
SliceOK(slice) ==
    /\ slice \in Slice
    /\ slice.cache # NoCache => slice.cache \in DOMAIN slice.pairs
    /\ \A i \in DOMAIN slice.pairs :
         LET h == Hash[slice.pairs[i].key]
         IN  slice.minHash <= h /\ h <= slice.maxHash /\ h \in slice.filter

ListOK(list) == /\ list \in Seq(Slice)
                /\ list # <<>>
                /\ \A i \in DOMAIN list : SliceOK(list[i])

(* The list holds the key with the identifier. *)
Holds(list, key, id) ==
    \E i \in DOMAIN list : \E j \in DOMAIN list[i].pairs :
        list[i].pairs[j] = [key |-> key, id |-> id]

(* The same pairs at the same places. *)
SamePairs(new, list) ==
    DOMAIN new = DOMAIN list /\ \A i \in DOMAIN list : new[i].pairs = list[i].pairs

(* What becomes of a list to which a pair is appended. *)
HoldsAlso(new, list, key, id) ==
    \A k \in Strings : \A n \in Nat :
        Holds(new, k, n) <=> Holds(list, k, n) \/ (k = key /\ n = id)

-----------------------------------------------------------------------------
(* A set of numbers that is not empty has a least member.                  *)
LEMMA LeastMember ==
    ASSUME NEW T, T \subseteq Nat, T # {}
    PROVE  Min(T) \in T
  <1> DEFINE Less == {ss \in Nat \X Nat : ss[1] < ss[2]}
  <1>1. IsWellFoundedOn(Less, Nat)
    BY NatLessThanWellFounded, Zenon DEF OpToRel
  <1> HIDE DEF Less
  <1>2. PICK x \in T : \A y \in T : ~ (<<y, x>> \in Less)
    BY <1>1, WFMin
  <1>3. \A y \in T : <<y, x>> \in Nat \X Nat /\ <<y, x>>[1] = y /\ <<y, x>>[2] = x
    OBVIOUS
  <1>4. \A y \in T : ~(y < x)
    BY <1>2, <1>3, Zenon DEF Less
  <1>5. \A y \in T : x <= y
    BY <1>4
  <1> QED
    BY <1>5 DEF Min

(* Members of a sequence, and of one with another member behind it.        *)
LEMMA MemberOf == ASSUME NEW S, NEW s \in Seq(S), NEW i \in DOMAIN s PROVE s[i] \in S
  OBVIOUS

LEMMA LastOf == ASSUME NEW S, NEW s \in Seq(S), s # <<>> PROVE Len(s) \in DOMAIN s
  OBVIOUS

LEMMA OneBehind ==
    ASSUME NEW S, NEW s \in Seq(S), NEW e \in S
    PROVE  /\ Append(s, e) \in Seq(S)
           /\ DOMAIN Append(s, e) = DOMAIN s \cup {Len(s) + 1}
           /\ Append(s, e)[Len(s) + 1] = e
           /\ \A i \in DOMAIN s : Append(s, e)[i] = s[i]
  OBVIOUS

LEMMA HashType == ASSUME NEW s \in Strings PROVE Hash[s] \in 0..MaxHash /\ Hash[s] \in Nat
  BY SliceAssumption

(* slice_list_lookup on one slice: it finds a key exactly when a pair has  *)
(* it, and a pair that has it.                                             *)
LEMMA SliceLookup ==
    ASSUME NEW slice, SliceOK(slice), NEW key \in Strings
    PROVE  /\ FoundIn(slice, key) <=> \E j \in DOMAIN slice.pairs : slice.pairs[j].key = key
           /\ FoundIn(slice, key) => /\ Scan(slice, key) \in DOMAIN slice.pairs
                                     /\ slice.pairs[Scan(slice, key)].key = key
  <1>1. slice.pairs \in Seq([key : Strings, id : Nat])
    BY DEF SliceOK, Slice
  <1>2. DOMAIN slice.pairs \subseteq Nat
    BY <1>1
  <1>3. CacheHit(slice, key) => slice.cache \in DOMAIN slice.pairs /\ slice.pairs[slice.cache].key = key
    BY DEF CacheHit, SliceOK
  <1>4. Positions(slice, key) # {} => Min(Positions(slice, key)) \in Positions(slice, key)
    BY <1>2, LeastMember DEF Positions
  <1>5. ASSUME NEW j \in DOMAIN slice.pairs, slice.pairs[j].key = key
        PROVE  FoundIn(slice, key)
    <2>1. slice.pairs # <<>>
      BY <1>1
    <2>2. MaybeIn(slice, key)
      BY <1>5, <2>1 DEF MaybeIn, SliceOK, Slice
    <2>3. Positions(slice, key) # {}
      BY <1>5 DEF Positions
    <2> QED
      BY <2>2, <2>3 DEF FoundIn
  <1>6. ASSUME FoundIn(slice, key)
        PROVE  /\ Scan(slice, key) \in DOMAIN slice.pairs
               /\ slice.pairs[Scan(slice, key)].key = key
    <2>1. CASE CacheHit(slice, key)
      BY <1>3, <2>1 DEF Scan
    <2>2. CASE ~CacheHit(slice, key)
      BY <1>4, <1>6, <2>2 DEF Scan, FoundIn, Positions
    <2> QED
      BY <2>1, <2>2
  <1> QED
    BY <1>5, <1>6

(* The same for the list. *)
LEMMA ListLookup ==
    ASSUME NEW list, ListOK(list), NEW key \in Strings
    PROVE  /\ Contains(list, key) <=> \E id \in Nat : Holds(list, key, id)
           /\ Contains(list, key) => /\ ValueOf(list, key) \in Nat
                                     /\ Holds(list, key, ValueOf(list, key))
           /\ Contains(list, key) => LET i == Min(SlicesWith(list, key))
                                     IN  i \in DOMAIN list /\ FoundIn(list[i], key)
  <1>1. /\ \A i \in DOMAIN list : SliceOK(list[i])
        /\ DOMAIN list \subseteq Nat
    BY DEF ListOK
  <1>2. ASSUME NEW id \in Nat, Holds(list, key, id)
        PROVE  Contains(list, key)
    <2>1. PICK i \in DOMAIN list : \E j \in DOMAIN list[i].pairs :
                 list[i].pairs[j] = [key |-> key, id |-> id]
      BY <1>2 DEF Holds
    <2>2. FoundIn(list[i], key)
      BY <1>1, <2>1, SliceLookup
    <2> QED
      BY <2>2 DEF Contains, SlicesWith
  <1>3. ASSUME Contains(list, key)
        PROVE  /\ ValueOf(list, key) \in Nat
               /\ Holds(list, key, ValueOf(list, key))
               /\ Min(SlicesWith(list, key)) \in DOMAIN list
               /\ FoundIn(list[Min(SlicesWith(list, key))], key)
    <2> DEFINE i == Min(SlicesWith(list, key))
    <2>1. i \in SlicesWith(list, key)
      BY <1>1, <1>3, LeastMember DEF Contains, SlicesWith
    <2>2. i \in DOMAIN list /\ FoundIn(list[i], key)
      BY <2>1 DEF SlicesWith
    <2> DEFINE slice == list[i]
               j == Scan(slice, key)
    <2>3. j \in DOMAIN slice.pairs /\ slice.pairs[j].key = key /\ SliceOK(slice)
      BY <1>1, <2>2, SliceLookup
    <2> HIDE DEF slice, j
    <2>4. slice.pairs[j] \in [key : Strings, id : Nat]
      BY <2>3, MemberOf DEF SliceOK, Slice
    <2>5. ValueOf(list, key) = slice.pairs[j].id
      BY DEF ValueOf, slice, j
    <2>6. slice.pairs[j] = [key |-> key, id |-> slice.pairs[j].id] /\ slice.pairs[j].id \in Nat
      BY <2>3, <2>4
    <2> HIDE DEF i
    <2>7. Holds(list, key, slice.pairs[j].id)
      BY <2>2, <2>3, <2>6 DEF Holds, slice
    <2> QED
      BY <2>2, <2>5, <2>6, <2>7 DEF i
  <1> QED
    BY <1>2, <1>3

(* Where the pairs are the same, the same is held.                         *)
LEMMA SameHeld ==
    ASSUME NEW new, NEW list, SamePairs(new, list), NEW key, NEW id
    PROVE  Holds(new, key, id) <=> Holds(list, key, id)
  BY DEF SamePairs, Holds

(* A lookup remembers where it found its key, and changes nothing else.    *)
LEMMA LookupKeeps ==
    ASSUME NEW list, ListOK(list), NEW key \in Strings
    PROVE  ListOK(AfterLookup(list, key)) /\ SamePairs(AfterLookup(list, key), list)
  <1>1. CASE ~Contains(list, key)
    BY <1>1 DEF AfterLookup, SamePairs
  <1>2. CASE Contains(list, key)
    <2> DEFINE i == Min(SlicesWith(list, key))
               found == Scan(list[i], key)
               slice == [list[i] EXCEPT !.cache = found]
               new == [list EXCEPT ![i] = slice]
    <2>1. i \in DOMAIN list /\ FoundIn(list[i], key)
      BY <1>2, ListLookup
    <2>2. AfterLookup(list, key) = new
      BY <1>2 DEF AfterLookup
    <2>3. SliceOK(list[i]) /\ list \in Seq(Slice) /\ list # <<>>
      BY <2>1 DEF ListOK
    <2> HIDE DEF i
    <2>4. found \in DOMAIN list[i].pairs
      BY <2>1, <2>3, SliceLookup
    <2> HIDE DEF found
    <2>5. list[i].pairs \in Seq([key : Strings, id : Nat])
      BY <2>3 DEF SliceOK, Slice
    <2>6. found \in Nat
      BY <2>4, <2>5
    <2>7. slice \in Slice /\ slice.pairs = list[i].pairs /\ slice.cache = found
          /\ slice.minHash = list[i].minHash /\ slice.maxHash = list[i].maxHash
          /\ slice.filter = list[i].filter
      BY <2>3, <2>6 DEF SliceOK, Slice
    <2> HIDE DEF slice
    <2>8. SliceOK(slice)
      BY <2>3, <2>4, <2>7 DEF SliceOK
    <2>9. new \in Seq(Slice) /\ DOMAIN new = DOMAIN list /\ new # <<>>
          /\ \A n \in DOMAIN list : new[n] = IF n = i THEN slice ELSE list[n]
      BY <2>1, <2>3, <2>7
    <2> HIDE DEF new
    <2>10. ListOK(new)
      BY <2>8, <2>9 DEF ListOK
    <2>11. SamePairs(new, list)
      BY <2>7, <2>9 DEF SamePairs
    <2> QED
      BY <2>2, <2>10, <2>11
  <1> QED
    BY <1>1, <1>2

LEMMA EmptySlice == NewSlice \in Slice /\ SliceOK(NewSlice) /\ NewSlice.pairs = <<>>
  <1>1. <<>> \in Seq([key : Strings, id : Nat]) /\ DOMAIN <<>> = {}
    OBVIOUS
  <1>2. NewSlice.pairs = <<>> /\ NewSlice.cache = NoCache
    BY DEF NewSlice
  <1>3. NewSlice \in Slice
    BY <1>1, SliceAssumption DEF NewSlice, Slice, NoCache
  <1> QED
    BY <1>1, <1>2, <1>3 DEF SliceOK

(* slice_list_insert on the appender. *)
LEMMA AppendToSlice ==
    ASSUME NEW slice, SliceOK(slice), NEW key \in Strings, NEW id \in Nat
    PROVE  LET new == Appended(slice, key, id) IN
           /\ SliceOK(new)
           /\ new.pairs = Append(slice.pairs, [key |-> key, id |-> id])
  <1> DEFINE pair == [key |-> key, id |-> id]
             low == Lower(slice.minHash, Hash[key])
             high == Higher(slice.maxHash, Hash[key])
             filter == slice.filter \cup {Hash[key]}
             pairs == Append(slice.pairs, pair)
             new == Appended(slice, key, id)
  <1>1. /\ slice.pairs \in Seq([key : Strings, id : Nat])
        /\ slice.cache \in Nat
        /\ slice.minHash \in 0..MaxHash /\ slice.maxHash \in 0..MaxHash
        /\ slice.filter \in SUBSET (0..MaxHash)
        /\ MaxHash \in Nat /\ Hash[key] \in 0..MaxHash
    BY HashType, SliceAssumption DEF SliceOK, Slice
  <1>2. /\ low \in 0..MaxHash /\ low <= slice.minHash /\ low <= Hash[key]
        /\ high \in 0..MaxHash /\ high >= slice.maxHash /\ high >= Hash[key]
        /\ filter \in SUBSET (0..MaxHash)
    BY <1>1 DEF Lower, Higher
  <1>3. pair \in [key : Strings, id : Nat] /\ pair.key = key
    OBVIOUS
  <1> HIDE DEF pair
  <1>4. /\ pairs \in Seq([key : Strings, id : Nat])
        /\ DOMAIN pairs = DOMAIN slice.pairs \cup {Len(slice.pairs) + 1}
        /\ pairs[Len(slice.pairs) + 1] = pair
        /\ \A i \in DOMAIN slice.pairs : pairs[i] = slice.pairs[i]
    BY <1>1, <1>3
  <1> HIDE DEF pairs, low, high, filter
  <1>5. /\ new \in Slice
        /\ new.pairs = pairs /\ new.cache = slice.cache
        /\ new.minHash = low /\ new.maxHash = high /\ new.filter = filter
    BY <1>1, <1>2, <1>4 DEF Appended, Slice, SliceOK, pairs, pair, low, high, filter
  <1> HIDE DEF new
  <1>6. new.cache # NoCache => new.cache \in DOMAIN new.pairs
    BY <1>4, <1>5 DEF SliceOK
  <1>7. ASSUME NEW i \in DOMAIN pairs
        PROVE  LET h == Hash[pairs[i].key] IN low <= h /\ h <= high /\ h \in filter
    <2>1. CASE i \in DOMAIN slice.pairs
      <3> DEFINE h == Hash[slice.pairs[i].key]
      <3>1. slice.minHash <= h /\ h <= slice.maxHash /\ h \in slice.filter
        BY <2>1 DEF SliceOK
      <3>2. slice.pairs[i] \in [key : Strings, id : Nat]
        BY <1>1, <2>1, MemberOf
      <3>3. h \in Nat
        BY <3>2, HashType
      <3> HIDE DEF h
      <3>4. low <= h /\ h <= high
        BY <1>1, <1>2, <3>1, <3>3
      <3>5. h \in filter
        BY <3>1 DEF filter
      <3> QED
        BY <1>4, <2>1, <3>4, <3>5 DEF h
    <2>2. CASE i = Len(slice.pairs) + 1
      BY <1>1, <1>2, <1>3, <1>4, <2>2 DEF filter
    <2> QED
      BY <1>4, <2>1, <2>2
  <1>8. SliceOK(new)
    BY <1>5, <1>6, <1>7 DEF SliceOK
  <1> QED
    BY <1>5, <1>8 DEF new, pairs, pair

(* The appender takes the pair, and where it is full then, an empty slice  *)
(* follows it: the list holds the pair beside what it held.                *)
LEMMA AppendKeeps ==
    ASSUME NEW list, ListOK(list), NEW key \in Strings, NEW id \in Nat
    PROVE  /\ ListOK(AfterAppend(list, key, id))
           /\ HoldsAlso(AfterAppend(list, key, id), list, key, id)
  <1> DEFINE pair == [key |-> key, id |-> id]
             last == Len(list)
             slice == Appended(list[last], key, id)
             new == [list EXCEPT ![last] = slice]
  <1>1. list \in Seq(Slice) /\ last \in Nat /\ last \in DOMAIN list /\ DOMAIN list = 1..last
    BY DEF ListOK
  <1>2. SliceOK(list[last])
    BY <1>1 DEF ListOK
  <1>3. SliceOK(slice) /\ slice.pairs = Append(list[last].pairs, pair)
    BY <1>2, AppendToSlice
  <1>4. slice \in Slice /\ list[last].pairs \in Seq([key : Strings, id : Nat])
    BY <1>2, <1>3 DEF SliceOK, Slice
  <1>5. /\ DOMAIN slice.pairs = DOMAIN list[last].pairs \cup {Len(list[last].pairs) + 1}
        /\ slice.pairs[Len(list[last].pairs) + 1] = pair
        /\ \A j \in DOMAIN list[last].pairs : slice.pairs[j] = list[last].pairs[j]
    <2>1. pair \in [key : Strings, id : Nat]
      OBVIOUS
    <2> HIDE DEF slice, pair, last
    <2> QED
      BY <1>3, <1>4, <2>1, OneBehind
  <1> HIDE DEF slice
  <1>6. new \in Seq(Slice) /\ Len(new) = last /\ DOMAIN new = 1..last /\ new # <<>>
        /\ \A i \in 1..last : new[i] = IF i = last THEN slice ELSE list[i]
    BY <1>1, <1>4
  <1> HIDE DEF new, last
  <1>7. ListOK(new)
    BY <1>1, <1>3, <1>6 DEF ListOK
  <1>8. ASSUME NEW k \in Strings, NEW n \in Nat
        PROVE  Holds(new, k, n) <=> Holds(list, k, n) \/ (k = key /\ n = id)
    <2>1. ASSUME Holds(new, k, n)
          PROVE  Holds(list, k, n) \/ (k = key /\ n = id)
      <3>0. PICK i \in DOMAIN new : \E j \in DOMAIN new[i].pairs : new[i].pairs[j] = [key |-> k, id |-> n]
        BY <2>1 DEF Holds
      <3>1. PICK j \in DOMAIN new[i].pairs : new[i].pairs[j] = [key |-> k, id |-> n]
        BY <3>0
      <3>2. CASE i # last
        BY <1>1, <1>6, <3>1, <3>2 DEF Holds
      <3>3. CASE i = last /\ j \in DOMAIN list[last].pairs
        BY <1>1, <1>5, <1>6, <3>1, <3>3 DEF Holds
      <3>4. CASE i = last /\ j \notin DOMAIN list[last].pairs
        <4>1. [key |-> k, id |-> n] = pair
          BY <1>5, <1>6, <3>1, <3>4
        <4> QED
          BY <4>1
      <3> QED
        BY <3>2, <3>3, <3>4
    <2>2. ASSUME Holds(list, k, n)
          PROVE  Holds(new, k, n)
      <3>0. PICK i \in DOMAIN list : \E j \in DOMAIN list[i].pairs : list[i].pairs[j] = [key |-> k, id |-> n]
        BY <2>2 DEF Holds
      <3>1. PICK j \in DOMAIN list[i].pairs : list[i].pairs[j] = [key |-> k, id |-> n]
        BY <3>0
      <3>2. j \in DOMAIN new[i].pairs /\ new[i].pairs[j] = [key |-> k, id |-> n]
        BY <1>1, <1>5, <1>6, <3>1
      <3> QED
        BY <1>1, <1>6, <3>2 DEF Holds
    <2>3. ASSUME k = key, n = id
          PROVE  Holds(new, k, n)
      <3>1. last \in DOMAIN new /\ new[last] = slice
        BY <1>1, <1>6
      <3>2. \E j \in DOMAIN slice.pairs : slice.pairs[j] = [key |-> k, id |-> n]
        BY <1>5, <2>3
      <3> QED
        BY <3>1, <3>2 DEF Holds
    <2> QED
      BY <2>1, <2>2, <2>3
  <1>9. CASE AfterAppend(list, key, id) = new
    BY <1>7, <1>8, <1>9 DEF HoldsAlso
  <1>10. CASE AfterAppend(list, key, id) = Append(new, NewSlice)
    <2> DEFINE longer == Append(new, NewSlice)
    <2>1. /\ longer \in Seq(Slice) /\ longer # <<>>
          /\ DOMAIN longer = DOMAIN new \cup {last + 1}
          /\ longer[last + 1] = NewSlice
          /\ \A i \in DOMAIN new : longer[i] = new[i]
      BY <1>1, <1>6, EmptySlice
    <2> HIDE DEF longer
    <2>2. ListOK(longer)
      BY <1>7, <2>1, EmptySlice DEF ListOK
    <2>3. ASSUME NEW k \in Strings, NEW n \in Nat
          PROVE  Holds(longer, k, n) <=> Holds(new, k, n)
      <3>1. DOMAIN NewSlice.pairs = {}
        BY EmptySlice
      <3> QED
        BY <2>1, <3>1 DEF Holds
    <2> QED
      BY <1>8, <1>10, <2>2, <2>3 DEF longer, HoldsAlso
  <1> QED
    BY <1>9, <1>10 DEF AfterAppend, new, slice, last

(* slice_list_insert: the list holds the key afterwards, with the new      *)
(* identifier unless it held it before.                                    *)
LEMMA InsertKeeps ==
    ASSUME NEW list, ListOK(list), NEW key \in Strings, NEW id \in Nat
    PROVE  LET new == AfterInsert(list, key, id) IN
           /\ ListOK(new)
           /\ \/ Contains(list, key) /\ SamePairs(new, list)
              \/ HoldsAlso(new, list, key, id)
  BY LookupKeeps, AppendKeeps DEF AfterInsert

-----------------------------------------------------------------------------
(* The dictionary *)

(* The free list free of the vector cells: its members are positions of    *)
(* the vector, no one twice, and exactly those that are not in use.        *)
Exact(free, cells) ==
    /\ free \in Seq(0..Len(cells) - 1)
    /\ \A i, j \in DOMAIN free : i # j => free[i] # free[j]
    /\ \A n \in 0..Len(cells) - 1 : (\E i \in DOMAIN free : free[i] = n) <=> ~cells[n + 1].in_use

(* The entry of the identifier holds the string. *)
At(id, s) == id + 1 \in DOMAIN contents /\ contents[id + 1] = Used(s)

(* What a caller may be told for a key. *)
Right(key, id) == id \in Nat /\ IF key = Null THEN id = NullId ELSE At(id, key)

(* A list of the index leads to entries that hold its keys, and the list   *)
(* of a string's bucket holds the string if an entry does.                 *)
Indexed ==
    /\ DOMAIN index = Buckets
    /\ \A b \in Buckets : ListOK(index[b])
    /\ \A b \in Buckets : \A s \in Strings : \A id \in Nat : Holds(index[b], s, id) => At(id, s)
    /\ \A s \in Strings : \A id \in Nat :
          At(id, s) => \E n \in Nat : Holds(index[Bucket[s]], s, n)

Typed == /\ contents \in Seq(Entry)
         /\ call \in Call \cup {Idle}
         /\ answers \subseteq Keys \X Nat
         /\ dead \in BOOLEAN

(* What the running call has got so far: the answers of the index, the     *)
(* identifiers it has placed.                                              *)
ValueOK(i) == IF call.values[i] = NoId THEN call.keys[i] # Null
                                       ELSE Right(call.keys[i], call.values[i])

Answered ==
    /\ \A a \in answers : Right(a[1], a[2])
    /\ call # Idle => /\ Len(call.values) <= Len(call.keys)
                      /\ Len(call.out) <= Len(call.keys)
                      /\ \A i \in DOMAIN call.values : ValueOK(i)
                      /\ \A i \in DOMAIN call.out : Right(call.keys[i], call.out[i])

(* A string has one entry at most. *)
Single == \A s \in Strings : \A m, n \in Nat : At(m, s) /\ At(n, s) => m = n

(* A string that the index did not know when the call asked still has no   *)
(* entry, unless this call has put it into its filter since.               *)
Fresh == call # Idle =>
           \A i \in DOMAIN call.values :
               call.values[i] = NoId => \/ call.keys[i] \in call.seen
                                        \/ \A n \in Nat : ~At(n, call.keys[i])

IInv == /\ Typed
        /\ Exact(freelist, contents)
        /\ Indexed
        /\ Answered
        /\ Single
        /\ Fresh

-----------------------------------------------------------------------------
(* The free list *)

(* freelist_push: new positions come to both vectors.                      *)
LEMMA GrowKeeps ==
    ASSUME NEW S, NEW cells \in Seq(S), NEW more \in Nat,
           \A i \in DOMAIN cells : cells[i].in_use
    PROVE  LET free == [i \in 1..more |-> Len(cells) + i - 1]
               all  == cells \o [i \in 1..more |-> Unused]
           IN  /\ all \in Seq(S \cup {Unused})
               /\ Exact(free, all)
  <1> DEFINE free == [i \in 1..more |-> Len(cells) + i - 1]
             blank == [i \in 1..more |-> Unused]
             all == cells \o blank
             len == Len(cells)
  <1>1. len \in Nat /\ cells \in Seq(S \cup {Unused}) /\ DOMAIN cells = 1..len
    OBVIOUS
  <1>2. blank \in Seq(S \cup {Unused}) /\ Len(blank) = more /\ \A i \in 1..more : blank[i] = Unused
    OBVIOUS
  <1> HIDE DEF blank
  <1>3. /\ all \in Seq(S \cup {Unused})
        /\ Len(all) = len + more
        /\ \A i \in 1..len : all[i] = cells[i]
        /\ \A i \in len + 1..len + more : all[i] = Unused
    <2>1. \A i \in 1..len + more : all[i] = IF i <= len THEN cells[i] ELSE blank[i - len]
      BY <1>1, <1>2
    <2>2. \A i \in 1..len : i \in 1..len + more /\ i <= len
      BY <1>1
    <2>3. \A i \in len + 1..len + more : i \in 1..len + more /\ ~(i <= len) /\ i - len \in 1..more
      BY <1>1
    <2>4. all \in Seq(S \cup {Unused}) /\ Len(all) = len + more
      BY <1>1, <1>2
    <2> HIDE DEF all, len
    <2> QED
      BY <1>2, <2>1, <2>2, <2>3, <2>4
  <1> HIDE DEF all
  <1>4. DOMAIN free = 1..more /\ \A i \in 1..more : free[i] = len + i - 1
    OBVIOUS
  <1>5. free \in Seq(0..Len(all) - 1)
    BY <1>1, <1>3
  <1> HIDE DEF free, len
  <1>6. \A i, j \in DOMAIN free : i # j => free[i] # free[j]
    BY <1>1, <1>4
  <1>7. ASSUME NEW n \in 0..Len(all) - 1
        PROVE  (\E i \in DOMAIN free : free[i] = n) <=> ~all[n + 1].in_use
    <2>1. CASE n < len
      <3>1. n + 1 \in 1..len
        BY <1>1, <1>7, <2>1
      <3>2. all[n + 1].in_use
        BY <1>1, <1>3, <3>1
      <3>3. \A i \in DOMAIN free : free[i] # n
        BY <1>1, <1>4, <1>7, <2>1
      <3> QED
        BY <3>2, <3>3
    <2>2. CASE n >= len
      <3>1. n + 1 \in len + 1..len + more
        BY <1>1, <1>3, <1>7, <2>2
      <3>2. ~all[n + 1].in_use
        BY <1>3, <3>1 DEF Unused
      <3>3. n - len + 1 \in 1..more /\ free[n - len + 1] = n
        BY <1>1, <1>3, <1>4, <1>7, <2>2
      <3> QED
        BY <1>4, <3>2, <3>3
    <2> QED
      BY <1>1, <1>7, <2>1, <2>2
  <1> QED
    BY <1>3, <1>5, <1>6, <1>7 DEF Exact, free, all, blank, len

(* freelist_pop and the entry that is filled: the last free position is    *)
(* taken and comes into use.                                               *)
LEMMA PopKeeps ==
    ASSUME NEW S, NEW cells \in Seq(S), NEW free, Exact(free, cells), free # <<>>, NEW s
    PROVE  LET id == free[Len(free)]
               new == [cells EXCEPT ![id + 1] = Used(s)]
           IN  /\ new \in Seq(S \cup {Used(s)})
               /\ Exact(SubSeq(free, 1, Len(free) - 1), new)
  <1> DEFINE last == Len(free)
             id == free[last]
             new == [cells EXCEPT ![id + 1] = Used(s)]
             rest == SubSeq(free, 1, last - 1)
             Ids == 0..Len(cells) - 1
  <1>1. free \in Seq(Ids) /\ last \in Nat /\ last >= 1 /\ id \in Ids
    BY DEF Exact
  <1>2. Len(cells) \in Nat /\ DOMAIN free = 1..last
    BY <1>1
  <1>3. new \in Seq(S \cup {Used(s)}) /\ Len(new) = Len(cells)
    BY <1>1, <1>2
  <1>4. rest \in Seq(Ids) /\ Len(rest) = last - 1 /\ \A i \in 1..last - 1 : rest[i] = free[i]
    <2>1. \A i \in 1..last - 1 : free[i] \in Ids
      BY <1>1
    <2>2. 1 \in Int /\ last - 1 \in Int
      BY <1>1
    <2> HIDE DEF last, Ids
    <2>3. /\ rest \in Seq(Ids)
          /\ Len(rest) = IF 1 <= last - 1 THEN (last - 1) - 1 + 1 ELSE 0
          /\ \A i \in 1..((last - 1) - 1 + 1) : rest[i] = free[1 + i - 1]
      BY <2>1, <2>2, SubSeqProperties
    <2> HIDE DEF rest
    <2> QED
      BY <1>1, <2>3
  <1>5. DOMAIN rest = 1..last - 1
    BY <1>1, <1>4
  <1> HIDE DEF rest
  <1>6. \A i, j \in DOMAIN rest : i # j => rest[i] # rest[j]
    <2>1. \A i \in 1..last - 1 : i \in 1..last
      BY <1>1
    <2> QED
      BY <1>2, <1>4, <1>5, <2>1 DEF Exact
  <1>7. ASSUME NEW n \in Ids
        PROVE  (\E i \in DOMAIN rest : rest[i] = n) <=> ~new[n + 1].in_use
    <2>1. CASE n = id
      <3>1. new[n + 1].in_use
        BY <1>1, <1>2, <2>1 DEF Used
      <3>2. \A i \in 1..last - 1 : i \in 1..last /\ last \in 1..last /\ i # last
        BY <1>1
      <3>3. \A i \in 1..last - 1 : free[i] # id
        BY <1>2, <3>2 DEF Exact
      <3> QED
        BY <1>4, <1>5, <2>1, <3>1, <3>3
    <2>2. CASE n # id
      <3>1. new[n + 1] = cells[n + 1]
        BY <1>1, <1>2, <2>2
      <3>2. \A i \in 1..last : free[i] = n => i \in 1..last - 1
        BY <1>1, <2>2
      <3>3. \A i \in 1..last - 1 : i \in 1..last
        BY <1>1
      <3>4. (\E i \in DOMAIN free : free[i] = n) <=> ~cells[n + 1].in_use
        BY <1>7 DEF Exact
      <3> QED
        BY <1>2, <1>4, <1>5, <3>1, <3>2, <3>3, <3>4
    <2> QED
      BY <2>1, <2>2
  <1> QED
    BY <1>3, <1>4, <1>6, <1>7 DEF Exact, rest

LEMMA InitFree == Init => contents \in Seq(Entry) /\ Exact(freelist, contents)
  <1> SUFFICES ASSUME Init PROVE contents \in Seq(Entry) /\ Exact(freelist, contents)
    OBVIOUS
  <1>1. Capacity \in Nat
    BY DictAssumption
  <1>2. contents = [i \in 1..Capacity |-> Unused] /\ freelist = [i \in 1..Capacity |-> i - 1]
    BY DEF Init
  <1>3. contents \in Seq(Entry) /\ Len(contents) = Capacity
    BY <1>1, <1>2 DEF Entry
  <1>4. DOMAIN freelist = 1..Capacity /\ \A i \in 1..Capacity : freelist[i] = i - 1
    BY <1>1, <1>2
  <1>5. freelist \in Seq(0..Capacity - 1)
    BY <1>1, <1>2
  <1>6. \A i, j \in DOMAIN freelist : i # j => freelist[i] # freelist[j]
    BY <1>1, <1>4
  <1>7. ASSUME NEW n \in 0..Capacity - 1
        PROVE  (\E i \in DOMAIN freelist : freelist[i] = n) <=> ~contents[n + 1].in_use
    <2>1. n + 1 \in 1..Capacity /\ (n + 1) - 1 = n
      BY <1>1
    <2>2. ~contents[n + 1].in_use
      BY <1>2, <2>1 DEF Unused
    <2> QED
      BY <1>4, <2>1, <2>2
  <1> QED
    BY <1>3, <1>5, <1>6, <1>7 DEF Exact

(* Where no position is free, every entry is in use, and the vectors grow  *)
(* by one at least; what was in use stays where it was.                    *)
LEMMA RoomKeeps ==
    ASSUME contents \in Seq(Entry), Exact(freelist, contents)
    PROVE  /\ WithRoom \in Seq(Entry)
           /\ Exact(FreeIds, WithRoom)
           /\ FreeIds # <<>>
           /\ \A i \in DOMAIN contents : i \in DOMAIN WithRoom /\ WithRoom[i] = contents[i]
           /\ \A i \in DOMAIN WithRoom : i \in DOMAIN contents \/ WithRoom[i] = Unused
  <1>1. CASE freelist # <<>>
    BY <1>1 DEF FreeIds, WithRoom
  <1>2. CASE freelist = <<>>
    <2>1. Len(contents) \in Nat /\ DOMAIN contents = 1..Len(contents)
      OBVIOUS
    <2>2. GrownBy \in Nat /\ GrownBy >= 1
      BY <2>1 DEF GrownBy, GrownCapacity
    <2>3. ASSUME NEW i \in DOMAIN contents PROVE contents[i].in_use
      <3>1. i - 1 \in 0..Len(contents) - 1 /\ (i - 1) + 1 = i
        BY <2>1, <2>3
      <3>2. DOMAIN freelist = {}
        BY <1>2
      <3> QED
        BY <3>1, <3>2 DEF Exact
    <2> DEFINE more == GrownBy
               len == Len(contents)
               free == [i \in 1..more |-> len + i - 1]
               blank == [i \in 1..more |-> Unused]
               all  == contents \o blank
    <2>4. FreeIds = free /\ WithRoom = all
      BY <1>2 DEF FreeIds, WithRoom
    <2>5. free # <<>>
      BY <2>2
    <2>6. all \in Seq(Entry \cup {Unused}) /\ Exact(free, all)
      BY <2>2, <2>3, GrowKeeps
    <2>7. Entry \cup {Unused} = Entry
      BY DEF Entry
    <2> HIDE DEF more
    <2>8. blank \in Seq(Entry) /\ Len(blank) = more /\ \A i \in 1..more : blank[i] = Unused
      BY <2>2 DEF Entry, more
    <2> HIDE DEF blank
    <2>9. /\ DOMAIN all = 1..len + more
          /\ \A i \in 1..len + more : all[i] = IF i <= len THEN contents[i] ELSE blank[i - len]
      BY <2>1, <2>2, <2>8 DEF more
    <2> HIDE DEF all, len
    <2>10. \A i \in 1..len : i \in 1..len + more /\ i <= len
      BY <2>1, <2>2 DEF len, more
    <2>11. \A i \in 1..len + more : i \in 1..len \/ (~(i <= len) /\ i - len \in 1..more)
      BY <2>1, <2>2 DEF len, more
    <2>12. /\ \A i \in DOMAIN contents : i \in DOMAIN all /\ all[i] = contents[i]
           /\ \A i \in DOMAIN all : i \in DOMAIN contents \/ all[i] = Unused
      BY <2>1, <2>8, <2>9, <2>10, <2>11 DEF len
    <2> QED
      BY <2>4, <2>5, <2>6, <2>7, <2>12
  <1> QED
    BY <1>1, <1>2

-----------------------------------------------------------------------------
(* The index *)

(* strhash_get: the index answers with the entry that holds the string.    *)
LEMMA IndexAnswers ==
    ASSUME Indexed, NEW s \in Strings
    PROVE  /\ InIndex(s) <=> \E n \in Nat : At(n, s)
           /\ InIndex(s) => IndexValue(s) \in Nat /\ At(IndexValue(s), s)
  <1> DEFINE list == index[Bucket[s]]
  <1>1. Bucket[s] \in Buckets
    BY DictAssumption
  <1>2. ListOK(list)
    BY <1>1 DEF Indexed
  <1>3. /\ Contains(list, s) <=> \E id \in Nat : Holds(list, s, id)
        /\ Contains(list, s) => ValueOf(list, s) \in Nat /\ Holds(list, s, ValueOf(list, s))
    BY <1>2, ListLookup
  <1>4. \A id \in Nat : Holds(list, s, id) => At(id, s)
    BY <1>1 DEF Indexed
  <1>5. \A id \in Nat : At(id, s) => \E n \in Nat : Holds(list, s, n)
    BY DEF Indexed
  <1> QED
    BY <1>3, <1>4, <1>5 DEF InIndex, IndexValue

(* A lookup changes nothing that the index holds.                          *)
LEMMA LookupIndexed ==
    ASSUME Indexed, NEW s \in Strings, contents' = contents,
           index' = [index EXCEPT ![Bucket[s]] = AfterLookup(@, s)]
    PROVE  Indexed'
  <1>1. Bucket[s] \in Buckets /\ \A t \in Strings : Bucket[t] \in Buckets
    BY DictAssumption
  <1>2. /\ DOMAIN index' = Buckets
        /\ \A b \in Buckets : ListOK(index'[b]) /\ SamePairs(index'[b], index[b])
    <2>1. ASSUME NEW b \in Buckets, b = Bucket[s]
          PROVE  ListOK(index'[b]) /\ SamePairs(index'[b], index[b])
      <3>1. index'[b] = AfterLookup(index[b], s)
        BY <2>1 DEF Indexed
      <3> QED
        BY <3>1, LookupKeeps DEF Indexed
    <2>2. ASSUME NEW b \in Buckets, b # Bucket[s]
          PROVE  ListOK(index'[b]) /\ SamePairs(index'[b], index[b])
      BY <2>2 DEF Indexed, SamePairs
    <2> QED
      BY <2>1, <2>2 DEF Indexed
  <1>3. \A b \in Buckets : \A t \in Strings : \A n \in Nat :
            Holds(index'[b], t, n) <=> Holds(index[b], t, n)
    BY <1>2, SameHeld
  <1>4. \A n \in Nat : \A t \in Strings : At(n, t)' <=> At(n, t)
    BY DEF At
  <1> QED
    BY <1>1, <1>2, <1>3, <1>4 DEF Indexed

(* A string without an entry is put into its bucket with the identifier of *)
(* its new entry.                                                          *)
LEMMA InsertIndexed ==
    ASSUME Indexed, NEW s \in Strings, NEW id \in Nat,
           \A n \in Nat : ~At(n, s),
           \A n \in Nat : \A t \in Strings : At(n, t)' <=> At(n, t) \/ (n = id /\ t = s),
           index' = [index EXCEPT ![Bucket[s]] = AfterInsert(@, s, id)]
    PROVE  Indexed'
  <1> DEFINE home == Bucket[s]
  <1>1. home \in Buckets /\ \A t \in Strings : Bucket[t] \in Buckets
    BY DictAssumption
  <1>2. ListOK(index[home]) /\ DOMAIN index = Buckets
    BY <1>1 DEF Indexed
  <1>3. ~Contains(index[home], s)
    BY IndexAnswers DEF InIndex
  <1>4. index'[home] = AfterInsert(index[home], s, id)
    BY <1>1, <1>2
  <1>5. ListOK(index'[home]) /\ HoldsAlso(index'[home], index[home], s, id)
    BY <1>2, <1>3, <1>4, InsertKeeps
  <1>6. \A b \in Buckets : b # home => index'[b] = index[b]
    BY <1>2
  <1>7. DOMAIN index' = Buckets
    BY <1>2
  <1> HIDE DEF home
  <1>8. \A b \in Buckets : ListOK(index'[b])
    BY <1>5, <1>6 DEF Indexed
  <1>9. ASSUME NEW b \in Buckets, NEW t \in Strings, NEW n \in Nat, Holds(index'[b], t, n)
        PROVE  At(n, t)'
    <2>1. Holds(index[b], t, n) \/ (n = id /\ t = s)
      BY <1>5, <1>6, <1>9 DEF HoldsAlso
    <2> QED
      BY <2>1 DEF Indexed
  <1>10. ASSUME NEW t \in Strings, NEW n \in Nat, At(n, t)'
         PROVE  \E m \in Nat : Holds(index'[Bucket[t]], t, m)
    <2>1. CASE n = id /\ t = s
      BY <1>5, <2>1 DEF HoldsAlso, home
    <2>2. CASE At(n, t)
      <3>1. PICK m \in Nat : Holds(index[Bucket[t]], t, m)
        BY <2>2 DEF Indexed
      <3>2. Holds(index'[Bucket[t]], t, m)
        BY <1>1, <1>5, <1>6, <3>1 DEF HoldsAlso
      <3> QED
        BY <3>2
    <2> QED
      BY <1>10, <2>1, <2>2
  <1> QED
    BY <1>7, <1>8, <1>9, <1>10 DEF Indexed

-----------------------------------------------------------------------------
(* The running call *)

LEMMA BatchType == ASSUME NEW keys \in Batches PROVE keys \in Seq(Keys)
  BY DEF Batches

LEMMA CallFields ==
    ASSUME Typed, call # Idle
    PROVE  /\ call \in Call
           /\ call.keys \in Seq(Keys)
           /\ call.values \in Seq(Nat \cup {NoId})
           /\ call.out \in Seq(Nat \cup {NoId})
           /\ call.seen \subseteq Strings
  BY BatchType DEF Typed, Call

LEMMA RunningIsCall == ASSUME NEW op \in {"insert", "locate"}, Running(op) PROVE call # Idle
  BY DEF Running, Idle

(* The key to be placed, and what the index answered for it.               *)
LEMMA KeyPlaced ==
    ASSUME IInv, Placing
    PROVE  /\ call # Idle
           /\ Position \in DOMAIN call.keys /\ Position \in DOMAIN call.values
           /\ Key \in Keys
           /\ Known => Right(Key, call.values[Position])
           /\ ~Known => Key \in Strings /\ (Key \in call.seen \/ \A n \in Nat : ~At(n, Key))
  <1>1. call # Idle
    BY RunningIsCall DEF Placing
  <1>2. /\ call.keys \in Seq(Keys) /\ call.values \in Seq(Nat \cup {NoId})
        /\ call.out \in Seq(Nat \cup {NoId})
    BY <1>1, CallFields DEF IInv
  <1>3. Len(call.out) < Len(call.keys) /\ Len(call.values) = Len(call.keys)
    BY DEF Placing, LookedUp
  <1>4. Position \in 1..Len(call.keys)
    BY <1>2, <1>3 DEF Position
  <1>5. Position \in DOMAIN call.keys /\ Position \in DOMAIN call.values
    BY <1>2, <1>3, <1>4
  <1>6. Key \in Keys
    BY <1>2, <1>5, MemberOf DEF Key
  <1>7. ValueOK(Position)
    BY <1>1, <1>5 DEF IInv, Answered
  <1>8. Known => Right(Key, call.values[Position])
    BY <1>7 DEF Known, ValueOK, Key
  <1>9. ~Known => Key \in Strings
    BY <1>6, <1>7 DEF Known, ValueOK, Key, Keys
  <1>10. ~Known => Key \in call.seen \/ \A n \in Nat : ~At(n, Key)
    BY <1>1, <1>5 DEF IInv, Fresh, Known, Key
  <1> QED
    BY <1>1, <1>5, <1>6, <1>8, <1>9, <1>10

(* A key is placed with an identifier that is right for it, and what was   *)
(* right stays right.                                                      *)
LEMMA Placed ==
    ASSUME Typed, Answered, call # Idle, Len(call.out) < Len(call.keys),
           NEW key, key = Key, NEW id, id \in Nat, Right(key, id)',
           call'.keys = call.keys, call'.values = call.values,
           call'.out = Append(call.out, id),
           \A n \in Nat : \A s \in Strings : At(n, s) => At(n, s)',
           answers' = answers
    PROVE  Answered'
  <1>1. /\ call.keys \in Seq(Keys) /\ call.values \in Seq(Nat \cup {NoId})
        /\ call.out \in Seq(Nat \cup {NoId})
    BY CallFields
  <1>2. ASSUME NEW k \in Keys, NEW n, Right(k, n)
        PROVE  Right(k, n)'
    BY <1>2 DEF Right, Keys
  <1>3. /\ DOMAIN call'.out = DOMAIN call.out \cup {Len(call.out) + 1}
        /\ Len(call'.out) = Len(call.out) + 1
        /\ call'.out[Len(call.out) + 1] = id
        /\ \A i \in DOMAIN call.out : call'.out[i] = call.out[i]
    BY <1>1
  <1>4. Len(call'.out) <= Len(call'.keys)
    BY <1>1, <1>3
  <1>5. DOMAIN call.values \subseteq DOMAIN call.keys /\ DOMAIN call.out \subseteq DOMAIN call.keys
    BY <1>1 DEF Answered
  <1>6. \A i \in DOMAIN call.keys : call.keys[i] \in Keys
    BY <1>1
  <1>7. ASSUME NEW i \in DOMAIN call'.values
        PROVE  ValueOK(i)'
    <2>1. ValueOK(i) /\ call.keys[i] \in Keys
      BY <1>5, <1>6, <1>7 DEF Answered
    <2> QED
      BY <1>2, <2>1 DEF ValueOK
  <1>8. ASSUME NEW i \in DOMAIN call'.out
        PROVE  Right(call.keys[i], call.out[i])'
    <2>1. CASE i \in DOMAIN call.out
      <3>1. Right(call.keys[i], call.out[i]) /\ call.keys[i] \in Keys
        BY <1>5, <1>6, <2>1 DEF Answered
      <3> QED
        BY <1>2, <1>3, <2>1, <3>1
    <2>2. CASE i = Len(call.out) + 1
      BY <1>3, <2>2 DEF Key, Position
    <2> QED
      BY <1>3, <1>8, <2>1, <2>2
  <1>9. \A a \in answers' : Right(a[1], a[2])'
    <2>1. \A a \in answers : a[1] \in Keys /\ Right(a[1], a[2])
      BY DEF Typed, Answered
    <2> QED
      BY <1>2, <2>1
  <1> QED
    BY <1>4, <1>7, <1>8, <1>9 DEF Answered

-----------------------------------------------------------------------------
(* The steps *)

(* A step that leaves contents and free list alone leaves to be shown what *)
(* it does to the call, the index and the answers.                         *)
LEMMA StoreKept ==
    ASSUME IInv, contents' = contents, freelist' = freelist, dead' \in BOOLEAN
    PROVE  /\ \A n, s : At(n, s)' <=> At(n, s)
           /\ \A k, n : Right(k, n)' <=> Right(k, n)
           /\ Exact(freelist, contents)'
           /\ Single'
           /\ index' = index => Indexed'
           /\ call' \in Call \cup {Idle} /\ answers' \subseteq Keys \X Nat => Typed'
  <1>1. \A n, s : At(n, s)' <=> At(n, s)
    BY DEF At
  <1>2. \A k, n : Right(k, n)' <=> Right(k, n)
    BY <1>1 DEF Right
  <1>3. Exact(freelist, contents)'
    BY DEF IInv, Exact
  <1>4. Single'
    BY <1>1 DEF IInv, Single
  <1>5. index' = index => Indexed'
    BY <1>1 DEF IInv, Indexed
  <1>6. call' \in Call \cup {Idle} /\ answers' \subseteq Keys \X Nat => Typed'
    BY DEF IInv, Typed
  <1> QED
    BY <1>1, <1>2, <1>3, <1>4, <1>5, <1>6

LEMMA BeginKeeps ==
    ASSUME IInv, NEW op \in {"insert", "locate"}, NEW keys \in Batches, Begin(op, keys)
    PROVE  IInv'
  <1>1. /\ UNCHANGED <<contents, freelist, index, answers, dead>>
        /\ call' = [op |-> op, keys |-> keys, values |-> <<>>, seen |-> {}, out |-> <<>>]
    BY DEF Begin
  <1>2. <<>> \in Seq(Nat \cup {NoId}) /\ Len(<<>>) = 0 /\ DOMAIN <<>> = {}
    OBVIOUS
  <1>3. call' \in Call
    BY <1>1, <1>2 DEF Call
  <1>4. dead' \in BOOLEAN /\ answers' \subseteq Keys \X Nat
    BY <1>1 DEF IInv, Typed
  <1>5. Len(keys) \in Nat
    BY BatchType
  <1>6. call'.values = <<>> /\ call'.out = <<>> /\ call'.keys = keys
    BY <1>1
  <1>7. Answered'
    BY <1>1, <1>2, <1>4, <1>5, <1>6, StoreKept DEF IInv, Answered
  <1>8. Fresh'
    BY <1>2, <1>6 DEF Fresh
  <1> QED
    BY <1>1, <1>3, <1>4, <1>7, <1>8, StoreKept DEF IInv

LEMMA AskKeeps == ASSUME IInv, Ask PROVE IInv'
  <1>1. PICK i : i = Len(call.values) + 1
    OBVIOUS
  <1>2. PICK s : s = call.keys[i]
    OBVIOUS
  <1>3. PICK a : a = Asked(s)
    OBVIOUS
  <1>4. /\ call # Idle
        /\ call' = [call EXCEPT !.values = Append(@, a)]
        /\ UNCHANGED <<contents, freelist, answers, dead>>
        /\ index' = IF s = Null THEN index ELSE [index EXCEPT ![Bucket[s]] = AfterLookup(@, s)]
    BY <1>1, <1>2, <1>3 DEF Ask
  <1>5. /\ call \in Call
        /\ call.keys \in Seq(Keys) /\ call.values \in Seq(Nat \cup {NoId})
        /\ call.out \in Seq(Nat \cup {NoId})
    BY <1>4, CallFields DEF IInv
  <1>6. Len(call.values) <= Len(call.keys) /\ Len(call.values) # Len(call.keys)
    BY <1>4 DEF IInv, Answered, Ask, LookedUp
  <1>7. i \in 1..Len(call.keys)
    BY <1>1, <1>5, <1>6
  <1>8. i \in DOMAIN call.keys /\ s \in Keys
    BY <1>2, <1>5, <1>7, MemberOf
  <1>9. /\ a \in Nat \cup {NoId}
        /\ IF a = NoId THEN s # Null /\ \A n \in Nat : ~At(n, s) ELSE Right(s, a)
    <2>1. CASE s = Null
      BY <1>3, <2>1, DictAssumption DEF Asked, Right, NullId
    <2>2. CASE s # Null
      <3>1. s \in Strings
        BY <1>8, <2>2 DEF Keys
      <3>2. Indexed
        BY DEF IInv
      <3>3. CASE InIndex(s)
        BY <1>3, <2>2, <3>1, <3>2, <3>3, IndexAnswers, DictAssumption DEF Asked, Right
      <3>4. CASE ~InIndex(s)
        BY <1>3, <2>2, <3>1, <3>2, <3>4, IndexAnswers DEF Asked
      <3> QED
        BY <3>3, <3>4
    <2> QED
      BY <2>1, <2>2
  <1>10. PICK values : values = Append(call.values, a)
    OBVIOUS
  <1>11. /\ values \in Seq(Nat \cup {NoId})
         /\ DOMAIN values = DOMAIN call.values \cup {i}
         /\ values[i] = a
         /\ \A j \in DOMAIN call.values : values[j] = call.values[j]
    BY <1>1, <1>5, <1>9, <1>10, OneBehind
  <1>12. Len(values) <= Len(call.keys)
    BY <1>5, <1>6, <1>10
  <1>13. /\ call' \in Call
         /\ call'.keys = call.keys /\ call'.values = values
         /\ call'.out = call.out /\ call'.seen = call.seen
    BY <1>4, <1>5, <1>10, <1>11 DEF Call
  <1>14. answers' \subseteq Keys \X Nat /\ dead' \in BOOLEAN
    BY <1>4 DEF IInv, Typed
  <1>15. Indexed'
    <2>1. CASE s = Null
      BY <1>4, <1>14, <2>1, StoreKept
    <2>2. CASE s # Null
      <3>1. s \in Strings
        BY <1>8, <2>2 DEF Keys
      <3> QED
        BY <1>4, <2>2, <3>1, LookupIndexed DEF IInv
    <2> QED
      BY <2>1, <2>2
  <1>16. Answered'
    <2>1. \A j \in DOMAIN call.values : ValueOK(j)
      BY <1>4 DEF IInv, Answered
    <2>2. \A j \in DOMAIN values : ValueOK(j)'
      BY <1>2, <1>4, <1>9, <1>11, <1>13, <1>14, <2>1, StoreKept DEF ValueOK
    <2>3. \A j \in DOMAIN call.out : Right(call.keys[j], call.out[j])'
      BY <1>4, <1>13, <1>14, StoreKept DEF IInv, Answered
    <2>4. \A x \in answers' : Right(x[1], x[2])'
      BY <1>4, <1>14, StoreKept DEF IInv, Answered
    <2>5. Len(call'.out) <= Len(call'.keys) /\ Len(call'.values) <= Len(call'.keys)
      BY <1>4, <1>12, <1>13 DEF IInv, Answered
    <2> QED
      BY <1>13, <2>2, <2>3, <2>4, <2>5 DEF Answered
  <1>17. Fresh'
    <2>1. \A n, t : At(n, t)' <=> At(n, t)
      BY <1>4, <1>14, StoreKept
    <2>2. ASSUME NEW j \in DOMAIN values, values[j] = NoId
          PROVE  call.keys[j] \in call.seen \/ \A n \in Nat : ~At(n, call.keys[j])
      BY <1>2, <1>4, <1>9, <1>11, <2>2 DEF IInv, Fresh
    <2> QED
      BY <1>13, <2>1, <2>2 DEF Fresh
  <1> QED
    BY <1>4, <1>13, <1>14, <1>15, <1>16, <1>17, StoreKept DEF IInv

(* A key is placed that has an entry already.                              *)
LEMMA KnownPlaced ==
    ASSUME IInv, Placing, NEW id \in Nat, Right(Key, id), NEW seen, seen \subseteq Strings,
           call.seen \subseteq seen, call' \in Call,
           call'.keys = call.keys, call'.values = call.values,
           call'.out = Append(call.out, id), call'.seen = seen,
           UNCHANGED <<contents, freelist, answers, dead>>, Indexed'
    PROVE  IInv'
  <1>1. dead' \in BOOLEAN /\ answers' \subseteq Keys \X Nat
    BY DEF IInv, Typed
  <1>2. \A n, s : At(n, s)' <=> At(n, s)
    BY <1>1, StoreKept
  <1>3. call # Idle /\ Len(call.out) < Len(call.keys)
    BY KeyPlaced DEF Placing
  <1>4. PICK key : key = Key
    OBVIOUS
  <1>5. Right(key, id)'
    BY <1>1, <1>4, StoreKept
  <1>6. Answered'
    BY <1>2, <1>3, <1>4, <1>5, Placed DEF IInv
  <1>7. Fresh'
    BY <1>2, <1>3 DEF IInv, Fresh
  <1> QED
    BY <1>1, <1>6, <1>7, StoreKept DEF IInv

LEMMA PlaceKnownKeeps == ASSUME IInv, PlaceKnown PROVE IInv'
  <1>1. PICK id : id = call.values[Position]
    OBVIOUS
  <1>2. Right(Key, id) /\ id \in Nat
    BY <1>1, KeyPlaced DEF PlaceKnown, Right
  <1>3. /\ call' = [call EXCEPT !.out = Append(@, id)]
        /\ UNCHANGED <<contents, freelist, index, answers, dead>>
    BY <1>1 DEF PlaceKnown
  <1>4. call \in Call /\ call.out \in Seq(Nat \cup {NoId}) /\ call.seen \subseteq Strings
    BY KeyPlaced, CallFields DEF PlaceKnown, IInv
  <1>5. /\ call' \in Call
        /\ call'.keys = call.keys /\ call'.values = call.values
        /\ call'.out = Append(call.out, id) /\ call'.seen = call.seen
    <2>1. PICK out : out = Append(call.out, id)
      OBVIOUS
    <2>2. out \in Seq(Nat \cup {NoId})
      BY <1>2, <1>4, <2>1, OneBehind
    <2> QED
      BY <1>3, <1>4, <2>1, <2>2 DEF Call
  <1>6. Indexed'
    BY <1>3, StoreKept DEF IInv, Typed
  <1> QED
    BY <1>2, <1>3, <1>4, <1>5, <1>6, KnownPlaced DEF PlaceKnown

(* What Place does to the call. *)
LEMMA PlaceFields ==
    ASSUME Typed, call # Idle, Key \in Strings, NEW id \in Nat, Place(id)
    PROVE  /\ call' \in Call
           /\ call'.keys = call.keys /\ call'.values = call.values
           /\ call'.out = Append(call.out, id) /\ call'.seen = call.seen \cup {Key}
           /\ call.seen \cup {Key} \subseteq Strings
  <1>1. call \in Call /\ call.out \in Seq(Nat \cup {NoId}) /\ call.seen \subseteq Strings
    BY CallFields
  <1>2. PICK out : out = Append(call.out, id)
    OBVIOUS
  <1>3. PICK seen : seen = call.seen \cup {Key}
    OBVIOUS
  <1>4. out \in Seq(Nat \cup {NoId}) /\ seen \in SUBSET Strings
    BY <1>1, <1>2, <1>3, OneBehind
  <1>5. call' = [call EXCEPT !.out = out, !.seen = seen]
    BY <1>2, <1>3 DEF Place
  <1> QED
    BY <1>1, <1>2, <1>3, <1>4, <1>5 DEF Call

LEMMA PlaceSeenKeeps == ASSUME IInv, PlaceSeen PROVE IInv'
  <1>1. PICK id : id = IndexValue(Key)
    OBVIOUS
  <1>2. PICK s : s = Key
    OBVIOUS
  <1>3. call # Idle /\ Key \in Strings
    BY KeyPlaced DEF PlaceSeen
  <1>4. id \in Nat /\ At(id, Key)
    BY <1>1, <1>3, IndexAnswers DEF PlaceSeen, IInv
  <1>5. Right(Key, id)
    BY <1>3, <1>4, DictAssumption DEF Right
  <1>6. Place(id) /\ UNCHANGED <<contents, freelist, answers, dead>>
    BY <1>1 DEF PlaceSeen
  <1>7. Indexed'
    <2>1. index' = [index EXCEPT ![Bucket[s]] = AfterLookup(@, s)]
      BY <1>2 DEF PlaceSeen
    <2> QED
      BY <1>2, <1>3, <1>6, <2>1, LookupIndexed DEF IInv
  <1>8. /\ call' \in Call
        /\ call'.keys = call.keys /\ call'.values = call.values
        /\ call'.out = Append(call.out, id) /\ call'.seen = call.seen \cup {Key}
        /\ call.seen \cup {Key} \subseteq Strings
    BY <1>3, <1>4, <1>6, PlaceFields DEF IInv
  <1> QED
    BY <1>4, <1>5, <1>6, <1>7, <1>8, KnownPlaced DEF PlaceSeen

(* A string that has no entry gets one at a free position, and the entries *)
(* of the others stay where they are.                                      *)
LEMMA NewEntry ==
    ASSUME IInv, PlaceNew, NEW k, k = Key, NEW id, id = NewId
    PROVE  /\ id \in Nat /\ k \in Strings
           /\ \A n \in Nat : ~At(n, k)
           /\ contents' \in Seq(Entry)
           /\ Exact(freelist, contents)'
           /\ \A n \in Nat : \A t \in Strings : At(n, t)' <=> At(n, t) \/ (n = id /\ t = k)
  <1> DEFINE free == FreeIds
             room == WithRoom
             last == free[Len(free)]
             new == [room EXCEPT ![id + 1] = Used(k)]
             rest == SubSeq(free, 1, Len(free) - 1)
  <1>1. /\ k \in Strings
        /\ Key \in call.seen \/ \A n \in Nat : ~At(n, Key)
    BY KeyPlaced DEF PlaceNew
  <1>2. \A n \in Nat : ~At(n, k)
    BY <1>1, IndexAnswers DEF PlaceNew, SeenBefore, IInv
  <1>3. /\ room \in Seq(Entry) /\ Exact(free, room) /\ free # <<>>
        /\ \A i \in DOMAIN contents : i \in DOMAIN room /\ room[i] = contents[i]
        /\ \A i \in DOMAIN room : i \in DOMAIN contents \/ room[i] = Unused
    BY RoomKeeps DEF IInv, Typed
  <1>4. freelist' = rest /\ contents' = new /\ id = last
    BY DEF PlaceNew, Popped, NewId
  <1> HIDE DEF free, room
  <1>5. new \in Seq(Entry \cup {Used(k)}) /\ Exact(rest, new)
    BY <1>3, <1>4, PopKeeps
  <1>6. Entry \cup {Used(k)} = Entry
    BY <1>1 DEF Entry
  <1>7. /\ free \in Seq(0..Len(room) - 1) /\ Len(free) \in DOMAIN free
        /\ \A n \in 0..Len(room) - 1 : (\E i \in DOMAIN free : free[i] = n) <=> ~room[n + 1].in_use
    <2>1. free \in Seq(0..Len(room) - 1)
      BY <1>3 DEF Exact
    <2>2. Len(free) \in DOMAIN free
      BY <1>3, <2>1, LastOf
    <2> QED
      BY <1>3, <2>1, <2>2 DEF Exact
  <1>8. id \in 0..Len(room) - 1 /\ ~room[id + 1].in_use
    <2>1. id \in 0..Len(room) - 1
      BY <1>4, <1>7, MemberOf
    <2> QED
      BY <1>4, <1>7, <2>1
  <1>9. id \in Nat /\ id + 1 \in DOMAIN room
    BY <1>3, <1>8
  <1>10. ASSUME NEW n \in Nat, NEW t \in Strings
         PROVE  At(n, t)' <=> At(n, t) \/ (n = id /\ t = k)
    <2>1. DOMAIN new = DOMAIN room /\ new[id + 1] = Used(k)
      BY <1>9
    <2>2. \A i \in DOMAIN room : i # id + 1 => new[i] = room[i]
      OBVIOUS
    <2> HIDE DEF new, last, rest
    <2>3. Used(k) = Used(t) => k = t
      BY DEF Used
    <2>4. Used(t).in_use /\ Used(t) # Unused
      BY DEF Used, Unused
    <2>5. At(n, t)' <=> n + 1 \in DOMAIN room /\ new[n + 1] = Used(t)
      BY <1>4, <2>1 DEF At
    <2>6. CASE n = id
      <3>1. ~At(id, t)
        BY <1>3, <1>8, <2>4 DEF At
      <3> QED
        BY <1>9, <2>1, <2>3, <2>5, <2>6, <3>1
    <2>7. CASE n # id
      <3>1. n + 1 # id + 1
        BY <1>9, <2>7
      <3>2. At(n, t)' <=> n + 1 \in DOMAIN room /\ room[n + 1] = Used(t)
        BY <2>2, <2>5, <3>1
      <3>3. n + 1 \in DOMAIN room /\ room[n + 1] = Used(t) <=> At(n, t)
        BY <1>3, <2>4 DEF At
      <3> QED
        BY <2>7, <3>2, <3>3
    <2> QED
      BY <2>6, <2>7
  <1>11. Exact(freelist, contents)'
    BY <1>4, <1>5 DEF Exact
  <1> QED
    BY <1>1, <1>2, <1>4, <1>5, <1>6, <1>9, <1>10, <1>11

LEMMA PlaceNewKeeps == ASSUME IInv, PlaceNew PROVE IInv'
  <1>1. PICK k : k = Key
    OBVIOUS
  <1>2. PICK id : id = NewId
    OBVIOUS
  <1>3. /\ id \in Nat /\ k \in Strings
        /\ \A n \in Nat : ~At(n, k)
        /\ contents' \in Seq(Entry)
        /\ Exact(freelist, contents)'
        /\ \A n \in Nat : \A t \in Strings : At(n, t)' <=> At(n, t) \/ (n = id /\ t = k)
    BY <1>1, <1>2, NewEntry
  <1>4. call # Idle /\ Len(call.out) < Len(call.keys)
    BY KeyPlaced DEF PlaceNew, Placing
  <1>5. /\ Place(id) /\ UNCHANGED <<answers, dead>>
        /\ index' = [index EXCEPT ![Bucket[k]] = AfterInsert(@, k, id)]
    BY <1>1, <1>2 DEF PlaceNew
  <1>6. /\ call' \in Call
        /\ call'.keys = call.keys /\ call'.values = call.values
        /\ call'.out = Append(call.out, id) /\ call'.seen = call.seen \cup {k}
    BY <1>1, <1>3, <1>4, <1>5, PlaceFields DEF IInv
  <1>7. Typed'
    BY <1>3, <1>5, <1>6 DEF IInv, Typed
  <1>8. Indexed'
    BY <1>3, <1>5, InsertIndexed DEF IInv
  <1>9. Right(k, id)'
    BY <1>3, DictAssumption DEF Right
  <1>10. Answered'
    BY <1>1, <1>3, <1>4, <1>5, <1>6, <1>9, Placed DEF IInv
  <1>11. Single'
    BY <1>3 DEF IInv, Single
  <1>12. Fresh'
    <2>1. /\ call.keys \in Seq(Keys) /\ call.values \in Seq(Nat \cup {NoId})
          /\ Len(call.values) <= Len(call.keys)
          /\ \A i \in DOMAIN call.values : ValueOK(i)
      BY <1>4, CallFields DEF IInv, Answered
    <2>2. ASSUME NEW i \in DOMAIN call.values, call.values[i] = NoId
          PROVE  call.keys[i] \in call.seen \cup {k} \/ \A n \in Nat : ~At(n, call.keys[i])'
      <3>1. i \in DOMAIN call.keys
        BY <2>1
      <3>2. call.keys[i] \in Strings
        BY <2>1, <2>2, <3>1 DEF ValueOK, Keys
      <3>3. call.keys[i] \in call.seen \/ \A n \in Nat : ~At(n, call.keys[i])
        BY <1>4, <2>2 DEF IInv, Fresh
      <3>4. PICK t : t = call.keys[i]
        OBVIOUS
      <3>5. t \in call.seen \cup {k} \/ \A n \in Nat : ~At(n, t)'
        BY <1>3, <3>2, <3>3, <3>4
      <3> QED
        BY <1>6, <3>4, <3>5
    <2> QED
      BY <1>6, <2>2 DEF Fresh
  <1> QED
    BY <1>3, <1>7, <1>8, <1>10, <1>11, <1>12 DEF IInv

(* What a call has got when it returns. *)
ToTell(ids) == \A i \in DOMAIN ids : ids[i] # NoId => /\ call.keys[i] \in Keys
                                                      /\ Right(call.keys[i], ids[i])

LEMMA ReturnKeeps ==
    ASSUME IInv, NEW ids, ToTell(ids), Return(ids)
    PROVE  IInv'
  <1>1. UNCHANGED <<contents, freelist, index, dead>> /\ call' = Idle
        /\ answers' = answers \cup Told(ids)
    BY DEF Return
  <1>2. \A a \in Told(ids) : a \in Keys \X Nat /\ Right(a[1], a[2])
    BY DEF Told, ToTell, Right
  <1>3. /\ answers' \subseteq Keys \X Nat
        /\ \A a \in answers' : Right(a[1], a[2])
    BY <1>1, <1>2 DEF IInv, Typed, Answered
  <1>4. dead' \in BOOLEAN
    BY <1>1 DEF IInv, Typed
  <1>5. Answered' /\ Fresh'
    BY <1>1, <1>3, <1>4, StoreKept DEF Answered, Fresh
  <1> QED
    BY <1>1, <1>3, <1>4, <1>5, StoreKept DEF IInv

LEMMA EndTells ==
    ASSUME IInv
    PROVE  /\ EndInsert => ToTell(call.out) /\ Return(call.out)
           /\ EndLocate => ToTell(call.values) /\ Return(call.values)
  <1>1. CASE call # Idle
    <2>1. /\ call.keys \in Seq(Keys)
          /\ call.values \in Seq(Nat \cup {NoId}) /\ call.out \in Seq(Nat \cup {NoId})
          /\ Len(call.values) <= Len(call.keys) /\ Len(call.out) <= Len(call.keys)
      BY <1>1, CallFields DEF IInv, Answered
    <2>2. DOMAIN call.values \subseteq DOMAIN call.keys /\ DOMAIN call.out \subseteq DOMAIN call.keys
      BY <2>1
    <2>3. \A i \in DOMAIN call.keys : call.keys[i] \in Keys
      BY <2>1
    <2>4. ToTell(call.out)
      BY <1>1, <2>2, <2>3 DEF IInv, Answered, ToTell
    <2>5. ToTell(call.values)
      BY <1>1, <2>2, <2>3 DEF IInv, Answered, ValueOK, ToTell
    <2> QED
      BY <2>4, <2>5 DEF EndInsert, EndLocate
  <1>2. CASE call = Idle
    BY <1>2, RunningIsCall DEF EndInsert, EndLocate
  <1> QED
    BY <1>1, <1>2

LEMMA InitKeeps == Init => IInv
  <1> SUFFICES ASSUME Init PROVE IInv
    OBVIOUS
  <1>1. contents \in Seq(Entry) /\ Exact(freelist, contents)
    BY InitFree
  <1>2. Typed
    BY <1>1 DEF Init, Typed
  <1>3. \A n \in Nat : \A s \in Strings : ~At(n, s)
    <2>1. \A i \in DOMAIN contents : contents[i] = Unused
      BY DEF Init
    <2>2. \A s \in Strings : Used(s) # Unused
      BY DEF Used, Unused
    <2> QED
      BY <2>1, <2>2 DEF At
  <1>4. ListOK(NewList) /\ \A s \in Strings : \A n \in Nat : ~Holds(NewList, s, n)
    <2>1. NewList \in Seq(Slice) /\ NewList # <<>> /\ DOMAIN NewList = {1} /\ NewList[1] = NewSlice
      BY EmptySlice DEF NewList
    <2>2. DOMAIN NewSlice.pairs = {}
      BY EmptySlice
    <2> QED
      BY <2>1, <2>2, EmptySlice DEF ListOK, Holds
  <1>5. Indexed
    BY <1>3, <1>4 DEF Init, Indexed
  <1>6. Answered /\ Single /\ Fresh
    BY <1>3 DEF Init, Answered, Single, Fresh
  <1> QED
    BY <1>1, <1>2, <1>5, <1>6 DEF IInv

LEMMA NextKeeps == IInv /\ [Next]_vars => IInv'
  <1> SUFFICES ASSUME IInv, [Next]_vars PROVE IInv'
    OBVIOUS
  <1>1. CASE Insert \/ Locate
    BY <1>1, BeginKeeps DEF Insert, Locate
  <1>2. CASE Ask
    BY <1>2, AskKeeps
  <1>3. CASE PlaceKnown \/ PlaceSeen \/ PlaceNew
    BY <1>3, PlaceKnownKeeps, PlaceSeenKeeps, PlaceNewKeeps
  <1>4. CASE EndInsert \/ EndLocate
    BY <1>4, EndTells, ReturnKeeps
  <1>5. CASE FilterFails \/ Remove \/ Dead \/ UNCHANGED vars
    <2>1. UNCHANGED <<contents, freelist, index, call, answers>> /\ dead' \in BOOLEAN
      BY <1>5 DEF FilterFails, Remove, Dead, vars, IInv, Typed
    <2>2. Answered' /\ Fresh' /\ Typed'
      BY <2>1, StoreKept DEF IInv, Answered, ValueOK, Fresh, Typed
    <2> QED
      BY <2>1, <2>2, StoreKept DEF IInv
  <1> QED
    BY <1>1, <1>2, <1>3, <1>4, <1>5 DEF Next, Work

-----------------------------------------------------------------------------
LEMMA Invariant == Spec => []IInv
  BY InitKeeps, NextKeeps, PTL DEF Spec

(* Every variable keeps its type; a slice remembers no place outside it.   *)
THEOREM DictType == Spec => []TypeOK
  <1>1. IInv => TypeOK
    BY DEF IInv, Typed, Exact, Indexed, ListOK, TypeOK
  <1> QED
    BY <1>1, Invariant, PTL

(* FreelistExact (in the run DictSync): freelist_pop never gives out the   *)
(* place of a string, and no place is lost.                                *)
THEOREM DictFreelist == Spec => []FreelistExact
  <1>1. IInv => FreelistExact
    BY DEF IInv, Exact, FreelistExact
  <1> QED
    BY <1>1, Invariant, PTL

(* IndexExact (in the run DictSync): strhash_get answers for a string      *)
(* exactly when an entry holds it, and with that entry.                    *)
THEOREM DictIndex == Spec => []IndexExact
  <1>1. ASSUME IInv, NEW s \in Strings
        PROVE  /\ InIndex(s) <=> \E i \in DOMAIN contents : contents[i] = Used(s)
               /\ InIndex(s) => contents[IndexValue(s) + 1] = Used(s)
    <2>1. /\ InIndex(s) <=> \E n \in Nat : At(n, s)
          /\ InIndex(s) => IndexValue(s) \in Nat /\ At(IndexValue(s), s)
      BY <1>1, IndexAnswers DEF IInv
    <2>2. ASSUME NEW i \in DOMAIN contents, contents[i] = Used(s)
          PROVE  \E n \in Nat : At(n, s)
      <3>1. i - 1 \in Nat /\ (i - 1) + 1 = i
        BY <1>1, <2>2 DEF IInv, Typed
      <3> QED
        BY <2>2, <3>1 DEF At
    <2> QED
      BY <2>1, <2>2 DEF At
  <1>2. IInv => IndexExact
    BY <1>1 DEF IndexExact
  <1> QED
    BY <1>2, Invariant, PTL

(* IdsResolve (in the run DictSync): an identifier told for a string leads *)
(* back to it for ever, but for identifier 0.                              *)
THEOREM DictIds == Spec => []IdsResolve
  <1>1. ASSUME IInv, NEW a \in answers, a[2] # NullId
        PROVE  Extracted(a[2]) = a[1]
    <2>1. At(a[2], a[1])
      BY <1>1 DEF IInv, Answered, Right
    <2> QED
      BY <1>1, <2>1 DEF At, Used, Extracted
  <1>2. IInv => IdsResolve
    BY <1>1 DEF IdsResolve
  <1> QED
    BY <1>2, Invariant, PTL

-----------------------------------------------------------------------------
(* Refinement *)

(* IdOf is the entry of a string. *)
Entries ==
    \A s \in Strings :
        /\ \A n \in Nat : At(n, s) => IdOf(s) = n
        /\ IdOf(s) = NoId \/ (IdOf(s) \in Nat /\ At(IdOf(s), s))

LEMMA IdOfEntry == IInv => Entries
  <1> SUFFICES ASSUME IInv, NEW s \in Strings
               PROVE  /\ \A n \in Nat : At(n, s) => IdOf(s) = n
                      /\ IdOf(s) = NoId \/ (IdOf(s) \in Nat /\ At(IdOf(s), s))
    BY DEF Entries
  <1>1. CASE \E i \in DOMAIN contents : contents[i] = Used(s)
    <2>1. PICK i : i \in DOMAIN contents /\ contents[i] = Used(s) /\ IdOf(s) = i - 1
      BY <1>1 DEF IdOf
    <2>2. i - 1 \in Nat /\ (i - 1) + 1 = i
      BY <2>1 DEF IInv, Typed
    <2>3. At(i - 1, s)
      BY <2>1, <2>2 DEF At
    <2> QED
      BY <2>1, <2>2, <2>3 DEF IInv, Single
  <1>2. CASE ~\E i \in DOMAIN contents : contents[i] = Used(s)
    BY <1>2 DEF IdOf, At
  <1> QED
    BY <1>1, <1>2

(* A call that returns tells its callers what the entries say.             *)
LEMMA ReturnAnswers ==
    ASSUME IInv, NEW ids, ToTell(ids), Return(ids)
    PROVE  \E S \in SUBSET Strings : Promise!Answer(S)
  <1> DEFINE told == {i \in DOMAIN ids : ids[i] # NoId}
             id_of == [s \in Strings |-> IdOf(s)]
             abstract == {a \in answers : a[1] # Null}
  <1>0. PICK S : S = {call.keys[i] : i \in told} \ {Null}
    OBVIOUS
  <1>1. answers' = answers \cup Told(ids) /\ contents' = contents
    BY DEF Return
  <1>2. S \in SUBSET Strings
    BY <1>0 DEF ToTell, Keys
  <1>3. ASSUME NEW i \in told, call.keys[i] # Null
        PROVE  /\ call.keys[i] \in Strings
               /\ ids[i] \in Nat
               /\ id_of[call.keys[i]] = ids[i]
    <2>1. call.keys[i] \in Strings /\ ids[i] \in Nat /\ At(ids[i], call.keys[i])
      BY <1>3 DEF ToTell, Right, Keys
    <2> QED
      BY <2>1, IdOfEntry DEF Entries
  <1>4. \A s \in S : id_of[s] # NoId
    BY <1>0, <1>3, DictAssumption
  <1> HIDE DEF id_of
  <1>5. {a \in answers' : a[1] # Null} = abstract \cup {<<s, id_of[s]>> : s \in S}
    <2>1. ASSUME NEW a \in Told(ids), a[1] # Null
          PROVE  a \in {<<s, id_of[s]>> : s \in S}
      <3>1. PICK i \in told : a = <<call.keys[i], ids[i]>>
        BY <2>1 DEF Told
      <3>2. call.keys[i] # Null /\ call.keys[i] \in S
        BY <1>0, <2>1, <3>1
      <3> QED
        BY <1>3, <3>1, <3>2
    <2>2. ASSUME NEW s \in S
          PROVE  <<s, id_of[s]>> \in Told(ids) /\ s # Null
      <3>1. PICK i \in told : s = call.keys[i] /\ s # Null
        BY <1>0, <2>2
      <3>2. <<s, id_of[s]>> = <<call.keys[i], ids[i]>>
        BY <1>3, <3>1
      <3> QED
        BY <3>1, <3>2 DEF Told
    <2> QED
      BY <1>1, <2>1, <2>2
  <1>6. id_of' = id_of
    BY <1>1 DEF id_of, IdOf
  <1>7. Promise!Answer(S)
    BY <1>4, <1>5, <1>6 DEF Promise!Answer, id_of
  <1> QED
    BY <1>2, <1>7

(* A new entry is a new identifier. *)
LEMMA NewEntryAdds ==
    ASSUME IInv, IInv', PlaceNew
    PROVE  \E S \in SUBSET Strings : Promise!Add(S)
  <1>1. PICK k : k = Key
    OBVIOUS
  <1>2. PICK id : id = NewId
    OBVIOUS
  <1>3. /\ id \in Nat /\ k \in Strings
        /\ \A n \in Nat : ~At(n, k)
        /\ \A n \in Nat : \A t \in Strings : At(n, t)' <=> At(n, t) \/ (n = id /\ t = k)
    BY <1>1, <1>2, NewEntry
  <1>4. Entries
    BY IdOfEntry
  <1>5. Entries'
    BY IdOfEntry, PTL
  <1>6. IdOf(k) = NoId /\ IdOf(k)' = id
    BY <1>3, <1>4, <1>5 DEF Entries
  <1>7. ASSUME NEW t \in Strings, t # k
        PROVE  IdOf(t)' = IdOf(t) /\ IdOf(t)' # id
    <2>1. \A n \in Nat : At(n, t)' <=> At(n, t)
      BY <1>3, <1>7
    <2>2. ~At(id, t)
      <3>1. At(id, k)'
        BY <1>3
      <3>2. Used(k) = Used(t) => k = t
        BY DEF Used
      <3> QED
        BY <1>3, <1>7, <2>1, <3>1, <3>2 DEF At
    <2> QED
      BY <1>3, <1>4, <1>5, <2>1, <2>2, DictAssumption DEF Entries
  <1>8. answers' = answers
    BY DEF PlaceNew
  <1>9. Promise!Add({k})
    BY <1>3, <1>6, <1>7, <1>8 DEF Promise!Add
  <1> QED
    BY <1>3, <1>9

LEMMA StepRefines ==
    ASSUME IInv, IInv', [Next]_vars
    PROVE  [Promise!Next]_(Promise!vars)
  <1>1. CASE PlaceNew
    BY <1>1, NewEntryAdds DEF Promise!Next
  <1>2. CASE EndInsert \/ EndLocate
    BY <1>2, EndTells, ReturnAnswers DEF Promise!Next
  <1>3. CASE UNCHANGED <<contents, answers>>
    BY <1>3 DEF Promise!vars, IdOf
  <1>4. CASE Insert \/ Locate \/ Ask \/ PlaceKnown \/ PlaceSeen
    BY <1>3, <1>4 DEF Insert, Locate, Begin, Ask, PlaceKnown, PlaceSeen
  <1>5. CASE FilterFails \/ Remove \/ Dead \/ UNCHANGED vars
    BY <1>3, <1>5 DEF FilterFails, Remove, Dead, vars
  <1> QED
    BY <1>1, <1>2, <1>4, <1>5 DEF Next, Work

(* ImplementsDictionary (in the run DictSync): a string gets an identifier *)
(* of its own and keeps it, and callers are told nothing else.             *)
THEOREM DictRefines == Spec => ImplementsDictionary
  <1>1. Init => Promise!Init
    <2> SUFFICES ASSUME Init PROVE Promise!Init
      OBVIOUS
    <2>1. ~\E i \in DOMAIN contents : \E s \in Strings : contents[i] = Used(s)
      BY DEF Init, Unused, Used
    <2>2. \A s \in Strings : IdOf(s) = NoId
      BY <2>1 DEF IdOf
    <2> QED
      BY <2>2 DEF Init, Promise!Init
  <1>2. IInv /\ IInv' /\ [Next]_vars => [Promise!Next]_(Promise!vars)
    BY StepRefines
  <1> QED
    BY <1>1, <1>2, Invariant, PTL DEF Spec, ImplementsDictionary, Promise!Spec
=============================================================================
