------------------------------- MODULE SyncDict -------------------------------
(***************************************************************************)
(* The string dictionary of src/core/encode/encode_sync.c over its index   *)
(* src/core/strhash/strhash_mem.c.                                         *)
(*                                                                         *)
(* An identifier is a position of the vector `contents'; the free ones are *)
(* a stack.  The index maps a string to its identifier: buckets chosen by  *)
(* a hash, each a list of slices.  insert first asks the index about the   *)
(* whole batch, then places the strings one by one, with a Bloom filter of *)
(* its own to notice a string the same batch has already placed.           *)
(*                                                                         *)
(* A call holds the dictionary's lock until it returns (module SpinLock),  *)
(* so there is one call at a time; it proceeds one string per step.        *)
(***************************************************************************)
EXTENDS SliceList

CONSTANTS Buckets,       \* the buckets of the index
          Bucket,        \* the bucket of each string
          Null,          \* a NULL key
          Capacity,      \* capacity of the dictionary at its creation
          MaxBatch,      \* strings in a call at most
          BitsPerString, \* bits of the batch's Bloom filter per new string: 22
          BitmapLimit,   \* bitmap_create takes the number of bits as a u16: 2^16
          NoId           \* (field_sid_t) -1

ASSUME DictAssumption == /\ Bucket \in [Strings -> Buckets]
                         /\ Null \notin Strings
                         /\ Capacity \in Nat
                         /\ MaxBatch \in Nat
                         /\ BitsPerString \in Nat
                         /\ BitmapLimit \in Nat \ {0}
                         /\ NoId \notin Nat

VARIABLES contents,  \* vector of entries; identifier n is contents[n + 1]
          freelist,  \* vector of the free identifiers, popped at its end
          index,     \* the slice list of each bucket
          call,      \* the call that holds the lock
          answers,   \* history: pairs <<key, identifier>> told to the callers
          dead       \* the process was stopped by a call

vars == <<contents, freelist, index, call, answers, dead>>

-----------------------------------------------------------------------------
(* Types *)

Keys    == Strings \cup {Null}
Batches == UNION {[1..n -> Keys] : n \in 1..MaxBatch}

Unused == [in_use |-> FALSE, str |-> Null]
Used(s) == [in_use |-> TRUE, str |-> s]

Entry == {Unused} \cup {Used(s) : s \in Strings}

(* values holds NoId where found_mask is false.                            *)
Call == [op : {"insert", "locate"}, keys : Batches,
         values : Seq(Nat \cup {NoId}),  \* answers of the index so far
         seen : SUBSET Strings,          \* strings put into the Bloom filter
         out : Seq(Nat \cup {NoId})]     \* identifiers placed so far

Idle == [op |-> "none"]

TypeOK == /\ contents \in Seq(Entry)
          /\ freelist \in Seq(0..Len(contents) - 1)
          /\ DOMAIN index = Buckets
          /\ \A b \in Buckets : index[b] \in Seq(Slice)
          /\ call \in Call \cup {Idle}
          /\ answers \subseteq Keys \X Nat
          /\ dead \in BOOLEAN

-----------------------------------------------------------------------------
(* create_extra: the free list is filled in the order of the positions. *)

Init == /\ contents = [i \in 1..Capacity |-> Unused]
        /\ freelist = [i \in 1..Capacity |-> i - 1]
        /\ index = [b \in Buckets |-> NewList]
        /\ call = Idle
        /\ answers = {}
        /\ dead = FALSE

-----------------------------------------------------------------------------
(* Taking the lock *)

Begin(op, keys) ==
    /\ ~dead /\ call = Idle
    /\ call' = [op |-> op, keys |-> keys, values |-> <<>>, seen |-> {}, out |-> <<>>]
    /\ UNCHANGED <<contents, freelist, index, answers, dead>>

Insert == \E keys \in Batches : Begin("insert", keys)
Locate == \E keys \in Batches : Begin("locate", keys)

Running(op) == ~dead /\ call.op = op

-----------------------------------------------------------------------------
(* strhash_get_bulk_safe, the next key.  NULL is known from the start. *)

InIndex(s) == Contains(index[Bucket[s]], s)
IndexValue(s) == ValueOf(index[Bucket[s]], s)

LookedUp == Len(call.values) = Len(call.keys)

NullId == 0  \* NG5_NULL_ENCODED_STRING

Asked(s) == IF s = Null THEN NullId
            ELSE IF InIndex(s) THEN IndexValue(s) ELSE NoId

Ask == /\ ~dead /\ call # Idle /\ ~LookedUp
       /\ LET s == call.keys[Len(call.values) + 1]
          IN  /\ call' = [call EXCEPT !.values = Append(@, Asked(s))]
              /\ index' = IF s = Null THEN index
                          ELSE [index EXCEPT ![Bucket[s]] = AfterLookup(@, s)]
       /\ UNCHANGED <<contents, freelist, answers, dead>>

-----------------------------------------------------------------------------
(* The second pass of insert, the next key *)

Placing == Running("insert") /\ LookedUp /\ Len(call.out) < Len(call.keys)

Position == Len(call.out) + 1
Key      == call.keys[Position]
Known    == call.values[Position] # NoId

NumNotFound == Cardinality({i \in DOMAIN call.values : call.values[i] = NoId})

(* bloom_create passes its size to the u16 of bitmap_create.               *)
FilterBits == (BitsPerString * NumNotFound) % BitmapLimit

Place(id) == call' = [call EXCEPT !.out = Append(@, id), !.seen = @ \cup {Key}]

PlaceKnown == /\ Placing /\ Known
              /\ call' = [call EXCEPT !.out = Append(@, call.values[Position])]
              /\ UNCHANGED <<contents, freelist, index, answers, dead>>

(* With a filter of no bits its positions are taken modulo zero.           *)
FilterFails == /\ Placing /\ ~Known
               /\ FilterBits = 0
               /\ dead' = TRUE
               /\ UNCHANGED <<contents, freelist, index, call, answers>>

(* Mutation: the strings of the batch are not looked for again.            *)
NeverSeen == FALSE

(* NG5_BLOOM_TEST_AND_SET.  Where the filter errs the index, which is      *)
(* asked next (strhash_get_bulk_safe_exact), does not find the string.     *)
SeenBefore == Key \in call.seen

PlaceSeen == /\ Placing /\ ~Known /\ FilterBits # 0
             /\ SeenBefore /\ InIndex(Key)
             /\ Place(IndexValue(Key))
             /\ index' = [index EXCEPT ![Bucket[Key]] = AfterLookup(@, Key)]
             /\ UNCHANGED <<contents, freelist, answers, dead>>

(* vec_grow: 1.7 times the capacity, and one more.                         *)
GrownCapacity(cap) == (cap * 17) \div 10 + 1

GrownBy == GrownCapacity(Len(contents)) - Len(contents)

(* freelist_pop adds free positions to both vectors when there are none.   *)
FreeIds == IF freelist = <<>> THEN [i \in 1..GrownBy |-> Len(contents) + i - 1]
                              ELSE freelist

WithRoom == IF freelist = <<>> THEN contents \o [i \in 1..GrownBy |-> Unused]
                               ELSE contents

NewId == FreeIds[Len(FreeIds)]

(* Mutation: the identifier stays in the free list.                        *)
PoppedNot == FreeIds

Popped == SubSeq(FreeIds, 1, Len(FreeIds) - 1)

PlaceNew == /\ Placing /\ ~Known /\ FilterBits # 0
            /\ ~(SeenBefore /\ InIndex(Key))
            /\ Place(NewId)
            /\ freelist' = Popped
            /\ contents' = [WithRoom EXCEPT ![NewId + 1] = Used(Key)]
            /\ index' = [index EXCEPT ![Bucket[Key]] = AfterInsert(@, Key, NewId)]
            /\ UNCHANGED <<answers, dead>>

-----------------------------------------------------------------------------
(* Returning: the lock is released. *)

Told(ids) == {<<call.keys[i], ids[i]>> : i \in {j \in DOMAIN ids : ids[j] # NoId}}

(* Mutation: the lock is not released.                                     *)
ReturnLocked(ids) == /\ answers' = answers \cup Told(ids)
                     /\ UNCHANGED <<contents, freelist, index, call, dead>>

Return(ids) == /\ answers' = answers \cup Told(ids)
               /\ call' = Idle
               /\ UNCHANGED <<contents, freelist, index, dead>>

EndInsert == /\ Running("insert") /\ Len(call.out) = Len(call.keys)
             /\ Return(call.out)

EndLocate == /\ Running("locate") /\ LookedUp
             /\ Return(call.values)

(* this_remove: the index does not implement the removal of a string that  *)
(* is contained, and stops the process (SliceListRemove).                  *)
Remove == /\ ~dead /\ call = Idle
          /\ \E i \in DOMAIN contents : contents[i].in_use
          /\ dead' = TRUE
          /\ UNCHANGED <<contents, freelist, index, call, answers>>

(* Nothing happens in a process that was stopped.                          *)
Dead == dead /\ UNCHANGED vars

Work == Ask \/ PlaceKnown \/ FilterFails \/ PlaceSeen \/ PlaceNew \/ EndInsert \/ EndLocate

Next == Insert \/ Locate \/ Work \/ Remove \/ Dead

Spec == Init /\ [][Next]_vars

(* A call that has the lock runs on: its thread is scheduled.              *)
FairSpec == Spec /\ WF_vars(Work)

-----------------------------------------------------------------------------
(* Properties *)

(* extract: the string of an identifier.                                   *)
NullText == Null
Extracted(id) == IF id # NullId THEN contents[id + 1].str ELSE NullText

(* An identifier is free exactly when no string has it, and the free list  *)
(* holds it once: freelist_pop never gives out the place of a string.      *)
FreelistExact ==
    /\ \A i, j \in DOMAIN freelist : i # j => freelist[i] # freelist[j]
    /\ \A n \in 0..Len(contents) - 1 :
           (\E i \in DOMAIN freelist : freelist[i] = n) <=> ~contents[n + 1].in_use

(* The index finds a string exactly when an entry holds it, and leads to   *)
(* that entry: bounds, filters, sealed slices and remembered positions     *)
(* never hide a string and never answer for another one.                   *)
IndexExact ==
    \A s \in Strings :
        /\ InIndex(s) <=> \E i \in DOMAIN contents : contents[i] = Used(s)
        /\ InIndex(s) => contents[IndexValue(s) + 1] = Used(s)

(* An identifier told for a string leads back to it for ever, and two      *)
(* strings are never told the same one.  Identifier 0 is left out: extract *)
(* answers it with the text of NULL.                                       *)
IdsResolve ==
    \A a \in answers : a[2] # NullId => Extracted(a[2]) = a[1]

(* A call that has the lock gives it back, unless the process dies.        *)
CallsReturn == (call # Idle) ~> (call = Idle \/ dead)

IdOf(s) == IF \E i \in DOMAIN contents : contents[i] = Used(s)
           THEN (CHOOSE i \in DOMAIN contents : contents[i] = Used(s)) - 1
           ELSE NoId

(* The dictionary keeps the promise of module Dictionary for its strings.  *)
Promise == INSTANCE Dictionary
               WITH Ids <- Nat,
                    id_of <- [s \in Strings |-> IdOf(s)],
                    answers <- {a \in answers : a[1] # Null}

ImplementsDictionary == Promise!Spec

=============================================================================
