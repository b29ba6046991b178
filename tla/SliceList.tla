------------------------------ MODULE SliceList ------------------------------
(***************************************************************************)
(* The list of slices behind a bucket of the string index                  *)
(* (src/stdx/slicelist.c): pairs of a string and its identifier in slices  *)
(* of a fixed capacity, of which the last one, the appender, takes new     *)
(* pairs.  A lookup skips a slice by the bounds of its hashes and by its   *)
(* Bloom filter, tries the pair the slice found last, then scans.          *)
(***************************************************************************)
EXTENDS Naturals, Sequences, FiniteSetsExt

CONSTANTS Strings,       \* the strings
          Hash,          \* hash32_t of each string (get_hashcode)
          MaxHash,       \* the largest hash: 2^32 - 1
          SliceCapacity  \* SLICE_KEY_COLUMN_MAX_ELEMS

ASSUME SliceAssumption == /\ MaxHash \in Nat
                          /\ Hash \in [Strings -> 0..MaxHash]
                          /\ SliceCapacity \in Nat \ {0}

NoCache == 0  \* cacheIdx = (u32) -1; positions count from 1 here

(* The Bloom filter is the set of the hashes put into it.  The hashes for  *)
(* which the real filter errs cost a scan that finds nothing.              *)
Slice == [pairs   : Seq([key : Strings, id : Nat]),
          cache   : Nat,
          minHash : 0..MaxHash, maxHash : 0..MaxHash,
          filter  : SUBSET (0..MaxHash)]

NewSlice == [pairs |-> <<>>, cache |-> NoCache,
             minHash |-> MaxHash, maxHash |-> 0, filter |-> {}]

NewList == <<NewSlice>>

-----------------------------------------------------------------------------
(* Lookup *)

MaybeIn(slice, key) == /\ slice.pairs # <<>>
                       /\ Hash[key] >= slice.minHash
                       /\ Hash[key] <= slice.maxHash
                       /\ Hash[key] \in slice.filter

(* Mutation: only the hashes are compared.                                 *)
CacheHitByHash(slice, key) == /\ slice.cache # NoCache
                              /\ Hash[slice.pairs[slice.cache].key] = Hash[key]

CacheHit(slice, key) == /\ slice.cache # NoCache
                        /\ slice.pairs[slice.cache].key = key

Positions(slice, key) == {i \in DOMAIN slice.pairs : slice.pairs[i].key = key}

(* SLICE_SCAN: the first position of the key. *)
Scan(slice, key) == IF CacheHit(slice, key) THEN slice.cache
                                            ELSE Min(Positions(slice, key))

FoundIn(slice, key) == /\ MaybeIn(slice, key)
                       /\ CacheHit(slice, key) \/ Positions(slice, key) # {}

SlicesWith(list, key) == {i \in DOMAIN list : FoundIn(list[i], key)}

Contains(list, key) == SlicesWith(list, key) # {}

(* The identifier slice_list_lookup returns for a key that is contained.   *)
ValueOf(list, key) ==
    LET slice == list[Min(SlicesWith(list, key))]
    IN  slice.pairs[Scan(slice, key)].id

(* A lookup leaves the position it found in the slice.                     *)
AfterLookup(list, key) ==
    IF Contains(list, key)
    THEN LET i == Min(SlicesWith(list, key))
         IN  [list EXCEPT ![i].cache = Scan(list[i], key)]
    ELSE list

-----------------------------------------------------------------------------
(* Insertion *)

Lower(a, b)  == IF a < b THEN a ELSE b
Higher(a, b) == IF a > b THEN a ELSE b

(* Mutation: the upper bound of the hashes does not follow.                *)
AppendedLow(slice, key, id) ==
    [slice EXCEPT !.pairs   = Append(@, [key |-> key, id |-> id]),
                  !.minHash = Lower(@, Hash[key]),
                  !.filter  = @ \cup {Hash[key]}]

Appended(slice, key, id) ==
    [slice EXCEPT !.pairs   = Append(@, [key |-> key, id |-> id]),
                  !.minHash = Lower(@, Hash[key]),
                  !.maxHash = Higher(@, Hash[key]),
                  !.filter  = @ \cup {Hash[key]}]

Full(slice) == Len(slice.pairs) = SliceCapacity

(* A full appender is sealed and a new one takes its place.                *)
AfterAppend(list, key, id) ==
    LET appended == [list EXCEPT ![Len(list)] = Appended(@, key, id)]
    IN  IF Full(appended[Len(list)]) THEN Append(appended, NewSlice) ELSE appended

AfterInsert(list, key, id) ==
    IF Contains(list, key) THEN AfterLookup(list, key) ELSE AfterAppend(list, key, id)
=============================================================================
