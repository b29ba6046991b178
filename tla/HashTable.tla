------------------------------ MODULE HashTable ------------------------------
(***************************************************************************)
(* The hash table with displacement of src/std/hash_table.c; the set of    *)
(* src/std/hash_set.c is the same without values.                          *)
(*                                                                         *)
(* A pair lives in a bucket of the table.  A pair that meets another key   *)
(* in its bucket goes on to the next bucket that is vacant, or takes the   *)
(* bucket of a pair displaced less than itself; the pair it drives out     *)
(* then looks for a place of its own.  Every placement appends the pair to *)
(* the vectors of keys and values, and `size' counts what was appended:    *)
(* when it reaches nine tenths of the table, the table is made larger and  *)
(* its pairs are inserted anew.  A step places one pair.                   *)
(*                                                                         *)
(* Asserts are compiled out, as in the default build.                      *)
(***************************************************************************)
EXTENDS Integers, Sequences, FiniteSetsExt

CONSTANTS Keys,            \* the keys
          Hash,            \* hash of each key
          Values,          \* the values
          NoValue,         \* NULL: the key is not contained
          InitialCapacity, \* capacity at creation
          MaxCapacity      \* bound: no insertion into a larger table

ASSUME TableAssumption == /\ Hash \in [Keys -> Nat]
                          /\ InitialCapacity \in Nat \ {0}
                          /\ MaxCapacity \in Nat
                          /\ NoValue \notin Keys \cup Values

VARIABLES table,    \* the buckets
          size,     \* pairs appended to the vectors of keys and values
          room,     \* capacity of these vectors
          todo,     \* pairs the running insertion still has to place
          latest,   \* history: what each key was last mapped to
          clean,    \* history: keys that were never updated while contained
          dead      \* an insertion went on with a pair in freed memory

vars == <<table, size, room, todo, latest, clean, dead>>

-----------------------------------------------------------------------------
Capacity == Cardinality(DOMAIN table)

NoBucket == -1

Vacant == [key |-> NoValue]

Empty(capacity) == [p \in 0..capacity - 1 |-> Vacant]

Init == /\ table = Empty(InitialCapacity)
        /\ size = 0
        /\ room = InitialCapacity
        /\ todo = <<>>
        /\ latest = [k \in Keys |-> NoValue]
        /\ clean = Keys
        /\ dead = FALSE

-----------------------------------------------------------------------------
(* Lookup *)

Holds(p, k) == table[p].key = k

Home(k) == Hash[k] % Capacity

PlacesAhead(k) == {p \in Home(k)..Capacity - 1 : Holds(p, k)}

(* The places of a key: the search takes the first from its bucket on, or  *)
(* else the first of the table.                                            *)
Places(k) == IF PlacesAhead(k) # {} THEN PlacesAhead(k)
                                    ELSE {p \in 0..Home(k) - 1 : Holds(p, k)}

Get(k) == IF Places(k) = {} THEN NoValue ELSE table[Min(Places(k))].value

-----------------------------------------------------------------------------
(* The operations *)

Idle == ~dead /\ todo = <<>>

InsertOrUpdate(k, v) ==
    /\ Idle /\ Capacity <= MaxCapacity
    /\ todo' = <<[key |-> k, value |-> v, at |-> NoBucket]>>
    /\ latest' = [latest EXCEPT ![k] = v]
    /\ clean' = IF Get(k) = NoValue THEN clean ELSE clean \ {k}
    /\ UNCHANGED <<table, size, room, dead>>

(* hashtable_remove_if_contained: the bucket is vacated and nothing else.  *)
RemoveIfContained(k) ==
    /\ Idle
    /\ table' = IF Places(k) = {} THEN table ELSE [table EXCEPT ![Min(Places(k))] = Vacant]
    /\ latest' = [latest EXCEPT ![k] = NoValue]
    /\ UNCHANGED <<size, room, todo, clean, dead>>

Clear == /\ Idle
         /\ table' = Empty(Capacity)
         /\ size' = 0
         /\ latest' = [k \in Keys |-> NoValue]
         /\ clean' = Keys
         /\ UNCHANGED <<room, todo, dead>>

-----------------------------------------------------------------------------
(* insert_or_update, the next pair *)

Pair  == Head(todo)
Start == IF Pair.at = NoBucket THEN Home(Pair.key) ELSE Pair.at

Fits(p) == table[p] = Vacant \/ Holds(p, Pair.key)

(* Behind its bucket a pair stops where it fits, or at a pair that is      *)
(* displaced less.                                                         *)
Yields(p) == ~Fits(p) /\ table[p].displacement < p - Start
Stops     == {p \in Start + 1..Capacity - 1 : Fits(p) \/ Yields(p)}

(* The second loop leaves out the bucket before the first one; where no    *)
(* bucket fits, its counter has just reached that one.                     *)
Wrapped == {p \in 0..Start - 2 : Fits(p)}

Target == IF Fits(Start) THEN Start
          ELSE IF Stops # {} THEN Min(Stops)
          ELSE IF Wrapped # {} THEN Min(Wrapped)
          ELSE Start - 1

(* vec_push: the vectors grow by 1.7.                                      *)
Grown == IF size = room THEN ((room + 1) * 17) \div 10 ELSE room

(* Places taken without driving out a pair are counted backwards.          *)
Displacement(p) == Start - p

With(p, displacement) ==
    [table EXCEPT ![p] = [key |-> Pair.key, value |-> Pair.value, displacement |-> displacement]]

(* Mutation: the table grows when there is no place left.                  *)
OverloadedLate(n) == n > Capacity

Overloaded(n) == 10 * n >= 9 * Capacity

(* Mutation: the table does not grow.                                      *)
NewCapacityKept(n) == Capacity

NewCapacity(n) == ((n + 1) * 17) \div 10

(* hashtable_rehash: the pairs in the order of their buckets.              *)
Reinsertions(t) ==
    LET used == {p \in DOMAIN t : t[p] # Vacant}
        Nth(i) == CHOOSE p \in used : Cardinality({q \in used : q < p}) = i - 1
    IN  [i \in 1..Cardinality(used) |->
            [key |-> t[Nth(i)].key, value |-> t[Nth(i)].value, at |-> NoBucket]]

(* The pair was placed: t is the table, n what was appended, in vectors of *)
(* capacity r.                                                             *)
Settled(t, n, r) ==
    \/ /\ ~Overloaded(n)
       /\ table' = t /\ size' = n /\ room' = r
       /\ todo' = Tail(todo)
    \/ /\ Overloaded(n)
       /\ table' = Empty(NewCapacity(r)) /\ size' = 0 /\ room' = NewCapacity(r)
       /\ todo' = Reinsertions(t) \o Tail(todo)

(* The pair comes to bucket p.                                             *)
Update(p) == /\ Holds(p, Pair.key)
             /\ Settled([table EXCEPT ![p].value = Pair.value], size, room)
             /\ UNCHANGED <<latest, clean, dead>>

DrivesOut(p) == p > Start /\ Yields(p)

Insert(p) == /\ ~Holds(p, Pair.key) /\ ~DrivesOut(p)
             /\ Settled(With(p, Displacement(p)), size + 1, Grown)
             /\ UNCHANGED <<latest, clean, dead>>

(* Mutation: the pair driven out is forgotten.                             *)
DrivenOutLost(p) == <<>>

DrivenOut(p) == <<[key |-> table[p].key, value |-> table[p].value, at |-> p]>>

DriveOut(p) == /\ DrivesOut(p)
               /\ table' = With(p, p - Start)
               /\ size' = size + 1
               /\ room' = Grown
               /\ todo' = DrivenOut(p) \o Tail(todo)
               /\ UNCHANGED <<latest, clean, dead>>

(* The pair driven out is addressed in the vectors; when these move to     *)
(* grow, the address leads into freed memory.                              *)
Dangle(p) == /\ DrivesOut(p) /\ size = room
             /\ dead' = TRUE
             /\ UNCHANGED <<table, size, room, todo, latest, clean>>

Place == /\ ~dead /\ todo # <<>>
         /\ LET p == Target
            IN  Update(p) \/ Insert(p) \/ DriveOut(p) \/ Dangle(p)

Dead == dead /\ UNCHANGED vars

Next == \/ \E k \in Keys : \E v \in Values : InsertOrUpdate(k, v)
        \/ \E k \in Keys : RemoveIfContained(k)
        \/ Clear \/ Place \/ Dead

Spec == Init /\ [][Next]_vars

(* An insertion runs on.  This is WF_vars(Place): Place is enabled exactly  *)
(* when there is a pair to place in a live process.                        *)
FairSpec == Spec /\ ([]<>(dead \/ todo = <<>>) \/ []<><<Place>>_vars)

-----------------------------------------------------------------------------
(* Properties *)

(* A key that was never updated while the table contained it is mapped to  *)
(* what it was inserted with, and to nothing once it is removed, whatever  *)
(* was driven out, wrapped around or moved to a larger table meanwhile.    *)
CleanExact == Idle => \A k \in clean : Get(k) = latest[k]

(* No operation loses another key: what was inserted and not removed is    *)
(* found.                                                                  *)
NothingLost == Idle => \A k \in Keys : latest[k] # NoValue => Get(k) # NoValue

(* There is always a vacant bucket: the searches of an insertion end       *)
(* within the table and overwrite nothing.                                 *)
SomeVacant == \E p \in DOMAIN table : table[p] = Vacant

(* An insertion ends: pairs are not driven out in a circle, and growing    *)
(* does not trigger growing for ever.                                      *)
InsertionsEnd == todo # <<>> ~> Idle \/ dead

(* What the name of hashtable_insert_or_update and its test say: a key is  *)
(* mapped to the value it was inserted or updated with last.               *)
LatestWins == Idle => \A k \in Keys : Get(k) = latest[k]
=============================================================================
