------------------------------- MODULE MemPool -------------------------------
(***************************************************************************)
(* The memory pool of src/core/mem/pool.c with its two strategies (none.c  *)
(* and magic.c) and the data pointers it hands out (data_ptr.c).           *)
(*                                                                         *)
(* The pool keeps a vector `in_use' with one entry per block and a stack   *)
(* `in_use_pos_freelist' of the positions whose entry is free.  A data     *)
(* pointer carries the position of its entry in its upper 16 bits, and     *)
(* realloc and free find the entry through it.  Every operation holds the  *)
(* pool's lock from its first access to its last one (module SpinLock), so *)
(* an operation is one step; pool_free_all, which walks the entries, takes *)
(* one step per entry.                                                     *)
(***************************************************************************)
EXTENDS Integers, Sequences, FiniteSets

CONSTANTS Addrs,      \* addresses the C library may return
          NullAdr,    \* NULL
          NumPos,     \* positions a data pointer can carry: 2^16
          MaxLive,    \* pointers the clients hold at most at a time
          Sizes,      \* sizes the clients ask for, below 2^31 (bytes_used)
          MayFail,    \* the C library may be out of memory
          GrowOnly,   \* the clients never shrink a block
          CounterMod  \* the counters are unsigned: 2^32

ASSUME NullAssumption     == NullAdr \notin Addrs
ASSUME BoundAssumption    == /\ NumPos \in Nat \ {0}
                             /\ MaxLive \in Nat
                             /\ CounterMod \in Nat \ {0}
ASSUME SizesAssumption    == Sizes \subseteq Nat
ASSUME ClientAssumption   == MayFail \in BOOLEAN /\ GrowOnly \in BOOLEAN

VARIABLES in_use,     \* vector of pool_ptr_info; position p is in_use[p + 1]
          freelist,   \* in_use_pos_freelist, popped at its end
          limit_err,  \* pool->err holds NG5_ERR_MEMPOOL_LIMIT
          counters,   \* pool_counters of the strategy
          open,       \* the pool is created and not dropped
          managed,    \* its strategy: TRUE for "magic", FALSE for "none"
          walk,       \* pool_free_all: the next entry it looks at, or 0
          dropping,   \* the walk is that of pool_drop
          heap,       \* the C library: size of the block at each address
          held        \* the data pointers the clients hold, and the sizes asked

poolVars == <<in_use, freelist, limit_err, open, managed, walk, dropping>>
vars     == <<in_use, freelist, limit_err, counters, open, managed, walk, dropping,
              heap, held>>

-----------------------------------------------------------------------------
(* The C library *)

Unallocated == -1

Available == {a \in Addrs : heap[a] = Unallocated}

MallocResults == Available \cup (IF MayFail THEN {NullAdr} ELSE {})

AfterMalloc(a, n) == IF a = NullAdr THEN heap ELSE [heap EXCEPT ![a] = n]

AfterFree(a) == IF a = NullAdr THEN heap ELSE [heap EXCEPT ![a] = Unallocated]

-----------------------------------------------------------------------------
(* Counters *)

Mod(n) == n % CounterMod

Zeroed == [alloc_calls |-> 0, realloc_calls |-> 0, managed_realloc_calls |-> 0,
           free_calls |-> 0, bytes_allocd |-> 0, bytes_reallocd |-> 0, bytes_freed |-> 0]

Span(a, b) == IF a > b THEN a - b ELSE b - a

AllocCounted(c, n) == [c EXCEPT !.alloc_calls  = Mod(@ + 1),
                                !.bytes_allocd = Mod(@ + n)]

(* The statistics of a realloc, taken before its outcome is known. *)
ReallocCounted(c, info, n) ==
    [c EXCEPT !.bytes_reallocd = Mod(n),
              !.bytes_allocd   = Mod(@ + Span(info.bytes_total, n))]

(* Mutation: the bytes of a freed block are not counted.                   *)
FreeCountedUsed(c, info) == [c EXCEPT !.free_calls = Mod(@ + 1)]

FreeCounted(c, info) == [c EXCEPT !.free_calls  = Mod(@ + 1),
                                  !.bytes_freed = Mod(@ + info.bytes_total)]

-----------------------------------------------------------------------------
(* Data pointers and the entries they lead to *)

DataPtr == [pos : 0..(NumPos - 1), adr : Addrs \cup {NullAdr}]

Entry == [is_free : BOOLEAN, bytes_used : Nat, bytes_total : Nat, ptr : DataPtr]

(* pool_internal_get_info: the entry the tag of a data pointer leads to *)
Info(ptr) == in_use[ptr.pos + 1]

(* pool_internal_register: the position of the new entry.  The u16 wraps.  *)
NewPos == IF freelist = <<>> THEN Len(in_use) % NumPos ELSE freelist[Len(freelist)]

(* Mutation: the position stays in the free list.                          *)
PoppedNot(s) == s

Popped(s) == SubSeq(s, 1, Len(s) - 1)

NewEntry(pos, a, n) == [is_free |-> FALSE, bytes_used |-> n, bytes_total |-> n,
                        ptr |-> [pos |-> pos, adr |-> a]]

Register(a, n) ==
    LET pos == NewPos IN
    /\ IF freelist = <<>>
       THEN /\ in_use' = Append(in_use, NewEntry(pos, a, n))
            /\ UNCHANGED freelist
       ELSE /\ in_use' = [in_use EXCEPT ![pos + 1] = NewEntry(pos, a, n)]
            /\ freelist' = Popped(freelist)
    /\ limit_err' = (limit_err \/ pos + 1 = NumPos - 1)

(* pool_internal_unregister *)
(* Mutation: the entry stays live.                                         *)
ReleasedKept(info) == info

Released(info) == [info EXCEPT !.is_free = TRUE]

(* Mutation: the position after the entry goes into the free list.         *)
UnregisterNext(ptr) ==
    /\ in_use' = [in_use EXCEPT ![ptr.pos + 1] = Released(@)]
    /\ freelist' = Append(freelist, ptr.pos + 1)

Unregister(ptr) ==
    /\ in_use' = [in_use EXCEPT ![ptr.pos + 1] = Released(@)]
    /\ freelist' = Append(freelist, ptr.pos)

(* this_free of both strategies *)
FreeBlock(ptr) ==
    /\ heap' = AfterFree(ptr.adr)
    /\ Unregister(ptr)
    /\ counters' = FreeCounted(counters, Info(ptr))
    /\ held' = {h \in held : h.ptr # ptr}

(* The entry after a successful realloc. *)
(* Mutation: the entry keeps the total size of the old block.              *)
MovedStale(info, a, n) == [info EXCEPT !.bytes_used = n, !.ptr.adr = a]

(* Mutation: the entry keeps the address of the old block.                 *)
MovedElsewhere(info, a, n) == [info EXCEPT !.bytes_used = n, !.bytes_total = n]

Moved(info, a, n) == [info EXCEPT !.bytes_used = n, !.bytes_total = n, !.ptr.adr = a]

(* Strategy "magic" keeps a block that is large enough. *)
(* Mutation: a block one byte short passes.                                *)
FitsAlmost(info, n) == managed /\ info.bytes_total >= n - 1

Fits(info, n) == managed /\ info.bytes_total >= n

-----------------------------------------------------------------------------
(* Operations.  Clients call them on a created pool that nobody walks, as  *)
(* the lock makes them wait.                                               *)

Ready == open /\ walk = 0

(* pool_create, pool_create_by_name: the options or the name select the    *)
(* strategy.                                                               *)
Create ==
    /\ ~open
    /\ in_use' = <<>> /\ freelist' = <<>> /\ limit_err' = FALSE
    /\ counters' = Zeroed
    /\ open' = TRUE
    /\ managed' \in BOOLEAN
    /\ UNCHANGED <<walk, dropping, heap, held>>

(* pool_alloc, pool_alloc_array *)
Alloc(n) ==
    /\ Ready
    /\ Len(in_use) - Len(freelist) < MaxLive
    /\ \E a \in MallocResults :
          /\ Register(a, n)
          /\ heap' = AfterMalloc(a, n)
          /\ held' = held \cup {[ptr |-> [pos |-> NewPos, adr |-> a], asked |-> n]}
    /\ counters' = AllocCounted(counters, n)
    /\ UNCHANGED <<open, managed, walk, dropping>>

(* The client keeps the data pointer pool_realloc returned in place of h.  *)
Replace(h, ptr, n) == held' = (held \ {h}) \cup {[ptr |-> ptr, asked |-> n]}

MayRealloc(h, n) == Ready /\ h \in held /\ (GrowOnly => n >= h.asked)

(* pool_realloc, strategy "magic", when the block is large enough *)
ReallocInPlace(h, n) ==
    /\ MayRealloc(h, n)
    /\ Fits(Info(h.ptr), n)
    /\ Replace(h, h.ptr, n)
    /\ counters' = ReallocCounted(counters, Info(h.ptr), n)
    /\ UNCHANGED <<poolVars, heap>>

CallsRealloc(h, n) == MayRealloc(h, n) /\ ~Fits(Info(h.ptr), n)

(* pool_realloc when the C library's realloc finds a block, the old one or *)
(* another one; the address is written to the entry and to the result.     *)
ReallocMoves(h, n) ==
    /\ CallsRealloc(h, n)
    /\ n > 0 \/ h.ptr.adr = NullAdr
    /\ \E a \in Available \cup ({h.ptr.adr} \ {NullAdr}) :
          /\ heap' = [b \in Addrs |-> IF b = a THEN n
                                      ELSE IF b = h.ptr.adr THEN Unallocated
                                      ELSE heap[b]]
          /\ in_use' = [in_use EXCEPT ![h.ptr.pos + 1] = Moved(@, a, n)]
          /\ Replace(h, [h.ptr EXCEPT !.adr = a], n)
    /\ counters' = [ReallocCounted(counters, Info(h.ptr), n)
                        EXCEPT !.realloc_calls = Mod(@ + 1)]
    /\ UNCHANGED <<freelist, limit_err, open, managed, walk, dropping>>

(* pool_realloc when realloc returns NULL: the pool prints an error and    *)
(* returns the old data pointer.  The C library returns NULL when it is    *)
(* out of memory, and also, after it freed the block, for size 0.          *)
ReallocReturnsNull(h, n) ==
    /\ CallsRealloc(h, n)
    /\ \/ MayFail /\ UNCHANGED heap
       \/ n = 0 /\ h.ptr.adr # NullAdr /\ heap' = AfterFree(h.ptr.adr)
    /\ Replace(h, h.ptr, n)
    /\ counters' = ReallocCounted(counters, Info(h.ptr), n)
    /\ UNCHANGED poolVars

(* pool_free *)
Free(h) ==
    /\ Ready /\ h \in held
    /\ FreeBlock(h.ptr)
    /\ UNCHANGED <<limit_err, open, managed, walk, dropping>>

(* pool_free_all, called by a client or by pool_drop *)
FreeAll ==
    /\ Ready
    /\ walk' = 1
    /\ dropping' \in BOOLEAN
    /\ UNCHANGED <<in_use, freelist, limit_err, counters, open, managed, heap, held>>

(* One entry of the walk. *)
(* Mutation: the walk does not go past a free entry.                       *)
FreeNextStuck ==
    /\ walk \in 1..Len(in_use)
    /\ IF in_use[walk].is_free
       THEN UNCHANGED <<in_use, freelist, walk, counters, heap, held>>
       ELSE FreeBlock(in_use[walk].ptr) /\ walk' = walk + 1
    /\ UNCHANGED <<limit_err, open, managed, dropping>>

FreeNext ==
    /\ walk \in 1..Len(in_use)
    /\ IF in_use[walk].is_free
       THEN UNCHANGED <<in_use, freelist, counters, heap, held>>
       ELSE FreeBlock(in_use[walk].ptr)
    /\ walk' = walk + 1
    /\ UNCHANGED <<limit_err, open, managed, dropping>>

(* The walk is over; pool_drop releases the two vectors. *)
EndWalk ==
    /\ walk = Len(in_use) + 1
    /\ walk' = 0
    /\ dropping' = FALSE
    /\ IF dropping
       THEN open' = FALSE /\ in_use' = <<>> /\ freelist' = <<>>
       ELSE UNCHANGED <<open, in_use, freelist>>
    /\ UNCHANGED <<limit_err, counters, managed, heap, held>>

(* pool_reset_counters *)
ResetCounters ==
    /\ Ready
    /\ counters' = Zeroed
    /\ UNCHANGED <<poolVars, heap, held>>

-----------------------------------------------------------------------------

Init == /\ in_use = <<>> /\ freelist = <<>>
        /\ limit_err = FALSE
        /\ counters = Zeroed
        /\ open = FALSE
        /\ managed = FALSE
        /\ walk = 0
        /\ dropping = FALSE
        /\ heap = [a \in Addrs |-> Unallocated]
        /\ held = {}

Next == \/ Create
        \/ \E n \in Sizes : \/ Alloc(n)
                            \/ \E h \in held : \/ ReallocInPlace(h, n)
                                               \/ ReallocMoves(h, n)
                                               \/ ReallocReturnsNull(h, n)
        \/ \E h \in held : Free(h)
        \/ FreeAll
        \/ FreeNext
        \/ EndWalk
        \/ ResetCounters

Spec == Init /\ [][Next]_vars

FairSpec == Spec /\ WF_vars(FreeNext) /\ WF_vars(EndWalk)

-----------------------------------------------------------------------------
(* Properties *)

Handle == [ptr : DataPtr, asked : Nat]

U32 == 0..(CounterMod - 1)

Counters == [alloc_calls : U32, realloc_calls : U32, managed_realloc_calls : U32,
             free_calls : U32, bytes_allocd : U32, bytes_reallocd : U32, bytes_freed : U32]

(* Every variable has its type. *)
TypeOK == /\ in_use \in Seq(Entry)
          /\ freelist \in Seq(0..(NumPos - 1))
          /\ limit_err \in BOOLEAN
          /\ counters \in Counters
          /\ open \in BOOLEAN /\ managed \in BOOLEAN /\ dropping \in BOOLEAN
          /\ walk \in Nat
          /\ heap \in [Addrs -> Nat \cup {Unallocated}]
          /\ held \subseteq Handle

FreePositions == {p \in 0..(Len(in_use) - 1) : in_use[p + 1].is_free}

(* The freelist names every free position once and no other one: register  *)
(* reuses a position only after its block is freed, and every position     *)
(* that was freed is reused before the vector grows.                       *)
FreelistExact ==
    /\ {freelist[i] : i \in 1..Len(freelist)} = FreePositions
    /\ \A i, j \in 1..Len(freelist) : freelist[i] = freelist[j] => i = j

(* A data pointer a client holds leads to a live entry that holds the same *)
(* data pointer: what the assertions of pool_internal_get_info and of      *)
(* pool_internal_unregister demand, which the release build leaves out.    *)
HandleResolves ==
    \A h \in held : /\ h.ptr.pos < Len(in_use)
                    /\ ~Info(h.ptr).is_free
                    /\ Info(h.ptr).ptr = h.ptr

(* Two data pointers never lead to the same entry and never to the same    *)
(* block of the C library.                                                 *)
NoAliasing ==
    \A g, h \in held :
        \/ g = h
        \/ /\ g.ptr.pos # h.ptr.pos
           /\ g.ptr.adr = h.ptr.adr => g.ptr.adr = NullAdr

LiveAt(a) == {i \in 1..Len(in_use) : ~in_use[i].is_free /\ in_use[i].ptr.adr = a}

(* The entries and the C library agree: a block is allocated exactly as    *)
(* long as one entry is live that has its address, and that entry's        *)
(* bytes_total is the block's size.  A dropped pool leaves no block.       *)
LedgerMatchesHeap ==
    \A a \in Addrs : IF heap[a] = Unallocated
                     THEN LiveAt(a) = {}
                     ELSE \E i \in LiveAt(a) : /\ LiveAt(a) = {i}
                                               /\ in_use[i].bytes_total = heap[a]

(* The block behind a data pointer has at least the size its holder asked  *)
(* for last.                                                               *)
RequestBacked ==
    \A h \in held : h.ptr.adr \in Addrs => heap[h.ptr.adr] >= h.asked

(* What the counters say of the live entries *)

LiveEntries == {i \in 1..Len(in_use) : ~in_use[i].is_free}

LiveSize(info) == IF info.is_free THEN 0 ELSE info.bytes_total

(* The bytes of the live ones among the first i entries. *)
BytesUpTo(entries) ==
    LET upTo[i \in 0..Len(entries)] == IF i = 0 THEN 0 ELSE upTo[i - 1] + LiveSize(entries[i])
    IN  upTo

LiveBytes == BytesUpTo(in_use)[Len(in_use)]

ByteBalance == Mod(counters.bytes_allocd - counters.bytes_freed - LiveBytes)

CallBalance == Mod(counters.alloc_calls - counters.free_calls - Cardinality(LiveEntries))

(* As long as no client shrinks a block and the C library has memory, the  *)
(* counters account for every live block and byte, across moves, reuse of  *)
(* positions and wrap-around of the 32 bit counters: only a reset (or the  *)
(* creation of a pool) changes the difference.                             *)
BalanceKept ==
    [][ByteBalance' = ByteBalance /\ CallBalance' = CallBalance]_<<in_use, freelist, heap, held>>
=============================================================================
