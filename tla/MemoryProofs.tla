---------------------------- MODULE MemoryProofs ----------------------------
(***************************************************************************)
(* Memory: the pool and the memory file.                                   *)
(*                                                                         *)
(* The memory pool for any number of addresses and sizes, both strategies  *)
(* and an unreliable C library.  As long as the clients hold no more       *)
(* pointers than a data pointer can number, every data pointer leads to    *)
(* its own entry, and the freelist is exact.                               *)
(*                                                                         *)
(* What the operations of a memory file do to its cells, for files of      *)
(* every size: the writer of records fills slots it has skipped while the  *)
(* block moves and grows, and looks at no result of a write.               *)
(***************************************************************************)
EXTENDS MemPool, MemFile, SequenceTheorems, FiniteSetTheorems, WellFoundedInduction, TLAPS

(* Assumption of the theorems: 16 bit are enough for the live pointers.    *)
PositionsSuffice == MaxLive <= NumPos

(* The inductive invariant.  An entry's data pointer carries the entry's   *)
(* own position, so that what a client frees or moves is its own block.    *)
SizeBound   == Len(in_use) <= MaxLive
OwnPosition == \A i \in 1..Len(in_use) : in_use[i].ptr.pos = i - 1
HandlesDistinct == \A g, h \in held : g.ptr.pos = h.ptr.pos => g = h
Phase == /\ ~open => in_use = <<>> /\ freelist = <<>> /\ walk = 0
         /\ dropping => walk # 0
WalkedFree == \A i \in 1..Len(in_use) : i < walk => in_use[i].is_free

IInv == /\ TypeOK /\ SizeBound /\ OwnPosition /\ FreelistExact
        /\ HandleResolves /\ HandlesDistinct /\ Phase /\ WalkedFree

-----------------------------------------------------------------------------
(* Sequences and counters *)

LEMMA ModType == ASSUME NEW n \in Int PROVE Mod(n) \in U32
  BY BoundAssumption DEF Mod, U32

LEMMA NoElements == ASSUME NEW S PROVE <<>> \in Seq(S)
  OBVIOUS

LEMMA SmallMod == ASSUME NEW n \in Nat, NEW m \in Nat, n < m PROVE n % m = n
  OBVIOUS

LEMMA PoppedSeq ==
  ASSUME NEW S, NEW s \in Seq(S), s # <<>>
  PROVE  /\ Popped(s) \in Seq(S)
         /\ Len(Popped(s)) = Len(s) - 1
         /\ \A i \in 1..Len(Popped(s)) : Popped(s)[i] = s[i]
<1>1. PICK m \in Nat : Len(s) = m + 1
  <2>1. Len(s) - 1 \in Nat /\ Len(s) = (Len(s) - 1) + 1
    OBVIOUS
  <2>2. QED
    BY <2>1
<1>2. Popped(s) = SubSeq(s, 1, m)
  <2>1. Len(s) - 1 = m
    BY <1>1
  <2>2. QED
    BY <2>1 DEF Popped
<1>3. \A i \in 1..m : s[i] \in S
  BY <1>1
<1>4. /\ Popped(s) \in Seq(S)
      /\ Len(Popped(s)) = (IF 1 <= m THEN m - 1 + 1 ELSE 0)
      /\ \A i \in 1..(m - 1 + 1) : Popped(s)[i] = s[1 + i - 1]
  BY <1>2, <1>3, SubSeqProperties
<1>5. Len(Popped(s)) = m /\ \A i \in 1..m : Popped(s)[i] = s[i]
  BY <1>4
<1>6. QED
  BY <1>1, <1>4, <1>5

LEMMA AllocCountedType ==
  ASSUME NEW c \in Counters, NEW n \in Nat
  PROVE  AllocCounted(c, n) \in Counters
<1>1. Mod(c.alloc_calls + 1) \in U32 /\ Mod(c.bytes_allocd + n) \in U32
  <2>1. c.alloc_calls \in Int /\ c.bytes_allocd \in Int
    BY DEF Counters, U32
  <2>2. QED
    BY <2>1, ModType
<1>2. QED
  BY <1>1 DEF Counters, AllocCounted

LEMMA FreeCountedType ==
  ASSUME NEW c \in Counters, NEW info \in Entry
  PROVE  FreeCounted(c, info) \in Counters
<1>1. c.free_calls \in Int /\ c.bytes_freed \in Int /\ info.bytes_total \in Int
  BY DEF Counters, Entry, U32
<1>2. Mod(c.free_calls + 1) \in U32 /\ Mod(c.bytes_freed + info.bytes_total) \in U32
  BY <1>1, ModType
<1>3. QED
  BY <1>2 DEF Counters, FreeCounted

LEMMA ReallocCountedType ==
  ASSUME NEW c \in Counters, NEW info \in Entry, NEW n \in Nat
  PROVE  /\ ReallocCounted(c, info, n) \in Counters
         /\ [ReallocCounted(c, info, n) EXCEPT !.realloc_calls = Mod(@ + 1)] \in Counters
<1>1. c.bytes_allocd \in Int /\ info.bytes_total \in Int /\ c.realloc_calls \in Int
  BY DEF Counters, Entry, U32
<1>2. Span(info.bytes_total, n) \in Int
  BY <1>1 DEF Span
<1>3. /\ Mod(n) \in U32 /\ Mod(c.bytes_allocd + Span(info.bytes_total, n)) \in U32
      /\ Mod(c.realloc_calls + 1) \in U32
  BY <1>1, <1>2, ModType
<1>4. ReallocCounted(c, info, n) \in Counters
  BY <1>3 DEF Counters, ReallocCounted
<1>5. ReallocCounted(c, info, n).realloc_calls = c.realloc_calls
  BY DEF Counters, ReallocCounted
<1>6. QED
  BY <1>3, <1>4, <1>5 DEF Counters

LEMMA ZeroedType == Zeroed \in Counters
  BY BoundAssumption DEF Zeroed, Counters, U32

-----------------------------------------------------------------------------
(* pool_internal_register *)

LEMMA RegisterPosition ==
  ASSUME PositionsSuffice, IInv, Len(in_use) - Len(freelist) < MaxLive
  PROVE  /\ NewPos \in 0..(NumPos - 1)
         /\ freelist = <<>> => NewPos = Len(in_use) /\ Len(in_use) < MaxLive
         /\ freelist # <<>> => NewPos \in FreePositions
<1> USE BoundAssumption DEF IInv, TypeOK
<1>1. CASE freelist = <<>>
  <2>1. Len(in_use) \in Nat /\ Len(in_use) < MaxLive
    BY <1>1
  <2>2. Len(in_use) < NumPos
    BY <2>1 DEF PositionsSuffice
  <2>3. NewPos = Len(in_use)
    BY <1>1, <2>1, <2>2, SmallMod DEF NewPos
  <2>4. QED
    BY <1>1, <2>1, <2>2, <2>3
<1>2. CASE freelist # <<>>
  <2>1. Len(freelist) \in 1..Len(freelist)
    BY <1>2
  <2>2. NewPos \in FreePositions
    BY <1>2, <2>1 DEF NewPos, FreelistExact
  <2>3. NewPos \in 0..(NumPos - 1)
    BY <1>2, <2>1 DEF NewPos
  <2>4. QED
    BY <1>2, <2>2, <2>3
<1>3. QED
  BY <1>1, <1>2

LEMMA NewEntryType ==
  ASSUME NEW p \in 0..(NumPos - 1), NEW a \in Addrs \cup {NullAdr}, NEW n \in Nat
  PROVE  /\ NewEntry(p, a, n) \in Entry
         /\ NewEntry(p, a, n).ptr = [pos |-> p, adr |-> a]
         /\ NewEntry(p, a, n).ptr \in DataPtr
         /\ ~NewEntry(p, a, n).is_free
  BY DEF NewEntry, Entry, DataPtr

(* The two ways register changes the vector, entry by entry. *)
LEMMA RegisterVector ==
  ASSUME PositionsSuffice, IInv, Len(in_use) - Len(freelist) < MaxLive,
         NEW a \in Addrs \cup {NullAdr}, NEW n \in Nat, Register(a, n)
  PROVE  /\ in_use' \in Seq(Entry)
         /\ Len(in_use') = IF freelist = <<>> THEN Len(in_use) + 1 ELSE Len(in_use)
         /\ NewPos + 1 \in 1..Len(in_use')
         /\ in_use'[NewPos + 1] = NewEntry(NewPos, a, n)
         /\ \A i \in 1..Len(in_use') :
               i # NewPos + 1 => i \in 1..Len(in_use) /\ in_use'[i] = in_use[i]
<1> DEFINE e == NewEntry(NewPos, a, n)
<1>1. e \in Entry
  BY RegisterPosition, NewEntryType
<1> HIDE DEF e
<1>2. in_use \in Seq(Entry) /\ Len(in_use) \in Nat
  BY DEF IInv, TypeOK
<1>3. CASE freelist = <<>>
  <2>1. in_use' = Append(in_use, e) /\ NewPos = Len(in_use)
    BY <1>3, RegisterPosition DEF Register, e
  <2>2. QED
    BY <1>1, <1>2, <1>3, <2>1 DEF e
<1>4. CASE freelist # <<>>
  <2>1. in_use' = [in_use EXCEPT ![NewPos + 1] = e]
    BY <1>4 DEF Register, e
  <2>2. NewPos + 1 \in 1..Len(in_use)
    BY <1>2, <1>4, RegisterPosition DEF FreePositions
  <2>3. QED
    BY <1>1, <1>2, <1>4, <2>1, <2>2 DEF e
<1>5. QED
  BY <1>3, <1>4

LEMMA RegisterFreelist ==
  ASSUME PositionsSuffice, IInv, Len(in_use) - Len(freelist) < MaxLive,
         NEW a \in Addrs \cup {NullAdr}, NEW n \in Nat, Register(a, n)
  PROVE  freelist' \in Seq(0..(NumPos - 1)) /\ FreelistExact'
<1>1. /\ freelist \in Seq(0..(NumPos - 1)) /\ in_use \in Seq(Entry) /\ Len(in_use) \in Nat
      /\ {freelist[i] : i \in 1..Len(freelist)} = FreePositions
      /\ \A i, j \in 1..Len(freelist) : freelist[i] = freelist[j] => i = j
  BY DEF IInv, TypeOK, FreelistExact
<1>2. /\ Len(in_use') = IF freelist = <<>> THEN Len(in_use) + 1 ELSE Len(in_use)
      /\ NewPos + 1 \in 1..Len(in_use')
      /\ ~in_use'[NewPos + 1].is_free
      /\ \A i \in 1..Len(in_use') :
            i # NewPos + 1 => i \in 1..Len(in_use) /\ in_use'[i] = in_use[i]
  <2>1. ~NewEntry(NewPos, a, n).is_free
    BY RegisterPosition, NewEntryType
  <2>2. /\ in_use'[NewPos + 1] = NewEntry(NewPos, a, n)
        /\ Len(in_use') = IF freelist = <<>> THEN Len(in_use) + 1 ELSE Len(in_use)
        /\ NewPos + 1 \in 1..Len(in_use')
    BY RegisterVector
  <2>3. \A i \in 1..Len(in_use') :
            i # NewPos + 1 => i \in 1..Len(in_use) /\ in_use'[i] = in_use[i]
    BY RegisterVector
  <2>4. QED
    BY <2>1, <2>2, <2>3
<1>3. NewPos \in Nat
  BY BoundAssumption, RegisterPosition
<1>4. FreePositions' = FreePositions \ {NewPos}
  <2>1. ASSUME NEW p \in FreePositions' PROVE p \in FreePositions /\ p # NewPos
    BY <1>1, <1>2, <1>3, <2>1 DEF FreePositions
  <2>2. ASSUME NEW p \in FreePositions, p # NewPos PROVE p \in FreePositions'
    <3>1. p \in 0..(Len(in_use) - 1) /\ in_use[p + 1].is_free
      BY DEF FreePositions
    <3>2. p \in 0..(Len(in_use') - 1) /\ p + 1 # NewPos + 1
      BY <1>1, <1>2, <1>3, <2>2, <3>1
    <3>3. in_use'[p + 1] = in_use[p + 1]
      BY <1>1, <1>2, <3>1, <3>2
    <3>4. QED
      BY <3>1, <3>2, <3>3 DEF FreePositions
  <2>3. QED
    BY <2>1, <2>2
<1>5. CASE freelist = <<>>
  <2>1. freelist' = freelist /\ FreePositions = {}
    BY <1>1, <1>5 DEF Register
  <2>2. FreePositions' = {}
    BY <1>4, <2>1
  <2>3. \A i \in 1..Len(freelist) : FALSE
    BY <1>5
  <2>4. freelist' \in Seq(0..(NumPos - 1)) /\ \A i \in 1..Len(freelist') : FALSE
    BY <1>1, <2>1, <2>3
  <2>5. {freelist'[i] : i \in 1..Len(freelist')} = {}
    BY <2>4
  <2>6. QED
    BY <2>2, <2>4, <2>5 DEF FreelistExact
<1>6. CASE freelist # <<>>
  <2>1. freelist' = Popped(freelist) /\ NewPos = freelist[Len(freelist)]
    BY <1>6 DEF Register, NewPos
  <2>2. PICK m \in Nat : Len(freelist) = m + 1
    <3>1. Len(freelist) - 1 \in Nat /\ Len(freelist) = (Len(freelist) - 1) + 1
      BY <1>1, <1>6
    <3>2. QED
      BY <3>1
  <2>3. /\ freelist' \in Seq(0..(NumPos - 1)) /\ Len(freelist') = m
        /\ \A i \in 1..m : freelist'[i] = freelist[i]
    BY <1>1, <1>6, <2>1, <2>2, PoppedSeq
  <2>4. {freelist'[i] : i \in 1..Len(freelist')} = FreePositions'
    <3>1. ASSUME NEW i \in 1..m PROVE freelist'[i] \in FreePositions'
      BY <1>1, <1>4, <2>1, <2>2, <2>3
    <3>2. ASSUME NEW p \in FreePositions' PROVE \E i \in 1..m : freelist'[i] = p
      <4>1. PICK i \in 1..Len(freelist) : freelist[i] = p
        BY <1>1, <1>4
      <4>2. i # m + 1
        BY <1>4, <2>1, <2>2, <4>1
      <4>3. i \in 1..m
        BY <2>2, <4>1, <4>2
      <4>4. QED
        BY <2>3, <4>1, <4>3
    <3>3. QED
      BY <2>3, <3>1, <3>2
  <2>5. \A i, j \in 1..Len(freelist') : freelist'[i] = freelist'[j] => i = j
    BY <1>1, <2>2, <2>3
  <2>6. QED
    BY <2>3, <2>4, <2>5 DEF FreelistExact
<1>7. QED
  BY <1>5, <1>6

LEMMA AllocStep ==
  ASSUME PositionsSuffice, IInv, NEW n \in Sizes, Alloc(n)
  PROVE  IInv'
<1>1. n \in Nat
  BY SizesAssumption
<1>2. PICK a \in Addrs \cup {NullAdr} :
         /\ Register(a, n)
         /\ heap' = AfterMalloc(a, n)
         /\ held' = held \cup {[ptr |-> [pos |-> NewPos, adr |-> a], asked |-> n]}
  BY DEF Alloc, MallocResults, Available
<1>3. Len(in_use) - Len(freelist) < MaxLive /\ open /\ walk = 0
  BY DEF Alloc, Ready
<1>4. NewPos \in 0..(NumPos - 1)
  BY <1>3, RegisterPosition
<1> DEFINE h0 == [ptr |-> [pos |-> NewPos, adr |-> a], asked |-> n]
<1>5. h0 \in Handle /\ h0.ptr = [pos |-> NewPos, adr |-> a] /\ h0.ptr.pos = NewPos
  BY <1>1, <1>4 DEF Handle, DataPtr
<1>6. /\ in_use' \in Seq(Entry)
      /\ Len(in_use') = IF freelist = <<>> THEN Len(in_use) + 1 ELSE Len(in_use)
      /\ NewPos + 1 \in 1..Len(in_use')
      /\ in_use'[NewPos + 1] = NewEntry(NewPos, a, n)
  BY <1>1, <1>2, <1>3, RegisterVector
<1>7. \A i \in 1..Len(in_use') :
         i # NewPos + 1 => i \in 1..Len(in_use) /\ in_use'[i] = in_use[i]
  BY <1>1, <1>2, <1>3, RegisterVector
<1>8. ~NewEntry(NewPos, a, n).is_free /\ NewEntry(NewPos, a, n).ptr = h0.ptr
  BY <1>1, <1>4, <1>5, NewEntryType
<1>9. \A h \in held : h.ptr.pos # NewPos
  <2>1. ASSUME NEW h \in held, h.ptr.pos = NewPos PROVE FALSE
    <3>1. NewPos < Len(in_use) /\ ~in_use[NewPos + 1].is_free
      BY <2>1 DEF IInv, HandleResolves, Info
    <3>2. freelist # <<>> /\ NewPos \in FreePositions
      BY <1>3, <3>1, RegisterPosition DEF IInv, TypeOK
    <3>3. QED
      BY <3>1, <3>2 DEF FreePositions
  <2>2. QED
    BY <2>1
<1>10. TypeOK'
  <2>1. counters' \in Counters
    BY <1>1, AllocCountedType DEF Alloc, IInv, TypeOK
  <2>2. limit_err' \in BOOLEAN
    BY <1>2 DEF Register, IInv, TypeOK
  <2>3. heap' \in [Addrs -> Nat \cup {Unallocated}]
    BY <1>1, <1>2 DEF AfterMalloc, IInv, TypeOK
  <2>4. held' \subseteq Handle
    BY <1>2, <1>5 DEF IInv, TypeOK
  <2>5. freelist' \in Seq(0..(NumPos - 1))
    BY <1>1, <1>2, <1>3, RegisterFreelist
  <2>6. open' = open /\ managed' = managed /\ walk' = walk /\ dropping' = dropping
    BY DEF Alloc
  <2>7. QED
    BY <1>6, <2>1, <2>2, <2>3, <2>4, <2>5, <2>6 DEF IInv, TypeOK
<1>11. SizeBound'
  BY <1>3, <1>6, RegisterPosition, BoundAssumption DEF IInv, SizeBound, TypeOK
<1>12. OwnPosition'
  <2>1. ASSUME NEW i \in 1..Len(in_use') PROVE in_use'[i].ptr.pos = i - 1
    <3>1. CASE i = NewPos + 1
      BY <1>4, <1>5, <1>6, <1>8, <3>1
    <3>2. CASE i # NewPos + 1
      BY <1>7, <3>2 DEF IInv, OwnPosition
    <3>3. QED
      BY <3>1, <3>2
  <2>2. QED
    BY <2>1 DEF OwnPosition
<1>13. FreelistExact'
  BY <1>1, <1>2, <1>3, RegisterFreelist
<1>14. HandleResolves'
  <2>1. ASSUME NEW h \in held'
        PROVE  /\ h.ptr.pos < Len(in_use')
               /\ ~in_use'[h.ptr.pos + 1].is_free
               /\ in_use'[h.ptr.pos + 1].ptr = h.ptr
    <3>1. CASE h = h0
      BY <1>4, <1>5, <1>6, <1>8, <3>1
    <3>2. CASE h \in held
      <4>1. /\ h.ptr.pos < Len(in_use) /\ ~in_use[h.ptr.pos + 1].is_free
            /\ in_use[h.ptr.pos + 1].ptr = h.ptr
        BY <3>2 DEF IInv, HandleResolves, Info
      <4>2. h.ptr.pos \in Nat /\ h.ptr.pos # NewPos
        BY <1>9, <3>2, BoundAssumption DEF IInv, TypeOK, Handle, DataPtr
      <4>3. h.ptr.pos + 1 \in 1..Len(in_use') /\ h.ptr.pos + 1 # NewPos + 1
        BY <1>4, <1>6, <4>1, <4>2 DEF IInv, TypeOK
      <4>4. in_use'[h.ptr.pos + 1] = in_use[h.ptr.pos + 1]
        BY <1>7, <4>3
      <4>5. QED
        BY <4>1, <4>2, <4>3, <4>4
    <3>3. QED
      BY <1>2, <3>1, <3>2
  <2>2. QED
    BY <2>1 DEF HandleResolves, Info
<1>15. HandlesDistinct'
  BY <1>2, <1>5, <1>9 DEF IInv, HandlesDistinct
<1>16. Phase' /\ WalkedFree'
  BY <1>3 DEF Alloc, IInv, Phase, WalkedFree
<1>17. QED
  BY <1>10, <1>11, <1>12, <1>13, <1>14, <1>15, <1>16 DEF IInv

-----------------------------------------------------------------------------
(* pool_internal_unregister, on a data pointer that resolves *)

Resolves(ptr) == /\ ptr \in DataPtr
                 /\ ptr.pos < Len(in_use)
                 /\ ~Info(ptr).is_free
                 /\ Info(ptr).ptr = ptr

LEMMA FreeVector ==
  ASSUME IInv, NEW ptr, Resolves(ptr), FreeBlock(ptr)
  PROVE  /\ ptr.pos \in Nat /\ ptr.pos + 1 \in 1..Len(in_use)
         /\ in_use' \in Seq(Entry) /\ Len(in_use') = Len(in_use)
         /\ in_use'[ptr.pos + 1] = Released(in_use[ptr.pos + 1])
         /\ \A i \in 1..Len(in_use) : i # ptr.pos + 1 => in_use'[i] = in_use[i]
         /\ \A i \in 1..Len(in_use) : in_use'[i].ptr = in_use[i].ptr
<1>1. ptr.pos \in Nat /\ ptr.pos + 1 \in 1..Len(in_use)
  BY BoundAssumption DEF Resolves, DataPtr, IInv, TypeOK
<1>2. in_use \in Seq(Entry) /\ in_use[ptr.pos + 1] \in Entry
  BY <1>1 DEF IInv, TypeOK
<1>3. /\ Released(in_use[ptr.pos + 1]) \in Entry
      /\ Released(in_use[ptr.pos + 1]).ptr = in_use[ptr.pos + 1].ptr
  BY <1>2 DEF Released, Entry
<1>4. in_use' = [in_use EXCEPT ![ptr.pos + 1] = Released(in_use[ptr.pos + 1])]
  BY DEF FreeBlock, Unregister
<1>5. QED
  BY <1>1, <1>2, <1>3, <1>4

LEMMA FreeFreelist ==
  ASSUME IInv, NEW ptr, Resolves(ptr), FreeBlock(ptr)
  PROVE  freelist' \in Seq(0..(NumPos - 1)) /\ FreelistExact'
<1>1. /\ freelist \in Seq(0..(NumPos - 1)) /\ Len(in_use) \in Nat
      /\ {freelist[i] : i \in 1..Len(freelist)} = FreePositions
      /\ \A i, j \in 1..Len(freelist) : freelist[i] = freelist[j] => i = j
  BY DEF IInv, TypeOK, FreelistExact
<1>2. ptr.pos \in 0..(NumPos - 1) /\ freelist' = Append(freelist, ptr.pos)
  BY DEF Resolves, DataPtr, FreeBlock, Unregister
<1>3. ptr.pos \notin FreePositions
  BY DEF Resolves, Info, FreePositions
<1>4. FreePositions' = FreePositions \cup {ptr.pos}
  <2>1. Released(in_use[ptr.pos + 1]).is_free
    <3>1. in_use[ptr.pos + 1] \in Entry
      BY FreeVector DEF IInv, TypeOK
    <3>2. QED
      BY <3>1 DEF Released, Entry
  <2>2. ptr.pos \in FreePositions'
    BY <1>1, <2>1, FreeVector DEF FreePositions
  <2>3. ASSUME NEW p \in 0..(Len(in_use) - 1), p # ptr.pos
        PROVE  in_use'[p + 1] = in_use[p + 1]
    <3>1. p + 1 \in 1..Len(in_use) /\ p + 1 # ptr.pos + 1
      BY <1>1, <2>3, FreeVector
    <3>2. QED
      BY <3>1, FreeVector
  <2>4. Len(in_use') = Len(in_use)
    BY FreeVector
  <2>5. QED
    BY <2>2, <2>3, <2>4 DEF FreePositions
<1>5. PICK m \in Nat : Len(freelist) = m
  BY <1>1
<1>6. /\ freelist' \in Seq(0..(NumPos - 1)) /\ Len(freelist') = m + 1
      /\ freelist'[m + 1] = ptr.pos
      /\ \A i \in 1..m : freelist'[i] = freelist[i]
  BY <1>1, <1>2, <1>5
<1>7. {freelist'[i] : i \in 1..Len(freelist')} = FreePositions'
  <2>1. ASSUME NEW i \in 1..(m + 1) PROVE freelist'[i] \in FreePositions'
    <3>1. CASE i = m + 1
      BY <1>4, <1>6, <3>1
    <3>2. CASE i # m + 1
      <4>1. i \in 1..m
        BY <3>2
      <4>2. QED
        BY <1>1, <1>4, <1>5, <1>6, <4>1
    <3>3. QED
      BY <3>1, <3>2
  <2>2. ASSUME NEW p \in FreePositions' PROVE \E i \in 1..(m + 1) : freelist'[i] = p
    <3>1. CASE p = ptr.pos
      BY <1>6, <3>1
    <3>2. CASE p # ptr.pos
      <4>1. PICK i \in 1..m : freelist[i] = p
        BY <1>1, <1>4, <1>5, <3>2
      <4>2. QED
        BY <1>6, <4>1
    <3>3. QED
      BY <3>1, <3>2
  <2>3. QED
    BY <1>6, <2>1, <2>2
<1>8. \A i, j \in 1..Len(freelist') : freelist'[i] = freelist'[j] => i = j
  <2>1. ASSUME NEW i \in 1..m PROVE freelist'[i] # ptr.pos
    BY <1>1, <1>3, <1>5, <1>6
  <2>2. \A i \in 1..(m + 1) : i = m + 1 \/ i \in 1..m
    OBVIOUS
  <2>3. QED
    BY <1>1, <1>5, <1>6, <2>1, <2>2
<1>9. QED
  BY <1>6, <1>7, <1>8 DEF FreelistExact

LEMMA FreeBlockStep ==
  ASSUME IInv, NEW ptr, Resolves(ptr), FreeBlock(ptr)
  PROVE  /\ in_use' \in Seq(Entry) /\ Len(in_use') = Len(in_use)
         /\ freelist' \in Seq(0..(NumPos - 1)) /\ counters' \in Counters
         /\ heap' \in [Addrs -> Nat \cup {Unallocated}] /\ held' \subseteq Handle
         /\ SizeBound' /\ OwnPosition' /\ FreelistExact' /\ HandleResolves'
         /\ HandlesDistinct'
<1>1. heap' \in [Addrs -> Nat \cup {Unallocated}]
  BY DEF FreeBlock, AfterFree, IInv, TypeOK
<1>2. held' \subseteq Handle
  BY DEF FreeBlock, IInv, TypeOK
<1>3. counters' \in Counters
  <2>1. Info(ptr) \in Entry
    BY FreeVector DEF Info, IInv, TypeOK
  <2>2. QED
    BY <2>1, FreeCountedType DEF FreeBlock, IInv, TypeOK
<1>4. SizeBound' /\ OwnPosition'
  BY FreeVector DEF SizeBound, OwnPosition, IInv
<1>5. HandleResolves'
  <2>1. ASSUME NEW h \in held'
        PROVE  /\ h.ptr.pos < Len(in_use')
               /\ ~in_use'[h.ptr.pos + 1].is_free
               /\ in_use'[h.ptr.pos + 1].ptr = h.ptr
    <3>1. h \in held /\ h.ptr # ptr
      BY DEF FreeBlock
    <3>2. /\ h.ptr.pos < Len(in_use) /\ ~in_use[h.ptr.pos + 1].is_free
          /\ in_use[h.ptr.pos + 1].ptr = h.ptr
      BY <3>1 DEF IInv, HandleResolves, Info
    <3>3. in_use[ptr.pos + 1].ptr = ptr
      BY DEF Resolves, Info
    <3>4. h.ptr.pos # ptr.pos
      BY <3>1, <3>2, <3>3
    <3>5. h.ptr.pos \in Nat
      BY <3>1, BoundAssumption DEF IInv, TypeOK, Handle, DataPtr
    <3>6. h.ptr.pos + 1 \in 1..Len(in_use) /\ h.ptr.pos + 1 # ptr.pos + 1
      BY <3>2, <3>4, <3>5, FreeVector DEF IInv, TypeOK
    <3>7. in_use'[h.ptr.pos + 1] = in_use[h.ptr.pos + 1]
      BY <3>6, FreeVector
    <3>8. QED
      BY <3>2, <3>7, FreeVector
  <2>2. QED
    BY <2>1 DEF HandleResolves, Info
<1>6. HandlesDistinct'
  BY DEF FreeBlock, IInv, HandlesDistinct
<1>7. QED
  BY <1>1, <1>2, <1>3, <1>4, <1>5, <1>6, FreeVector, FreeFreelist

LEMMA FreeStep ==
  ASSUME IInv, NEW h \in held, Free(h)
  PROVE  IInv'
<1>1. Resolves(h.ptr)
  BY DEF IInv, HandleResolves, Resolves, TypeOK, Handle
<1>2. /\ open /\ walk = 0 /\ FreeBlock(h.ptr)
      /\ UNCHANGED <<limit_err, open, managed, walk, dropping>>
  BY DEF Free, Ready
<1>3. Phase' /\ WalkedFree'
  BY <1>2 DEF IInv, Phase, WalkedFree
<1>4. TypeOK'
  BY <1>1, <1>2, FreeBlockStep DEF IInv, TypeOK
<1>5. QED
  BY <1>1, <1>2, <1>3, <1>4, FreeBlockStep DEF IInv

LEMMA FreeNextStep ==
  ASSUME IInv, FreeNext
  PROVE  IInv'
<1>1. open /\ walk \in Nat /\ walk' = walk + 1 /\ UNCHANGED <<limit_err, open, managed, dropping>>
  BY DEF FreeNext, IInv, TypeOK, Phase
<1>2. Phase'
  BY <1>1 DEF Phase
<1>3. CASE in_use[walk].is_free
  <2>1. UNCHANGED <<in_use, freelist, counters, heap, held>>
    BY <1>3 DEF FreeNext
  <2>2. TypeOK'
    BY <1>1, <2>1 DEF IInv, TypeOK
  <2>3. /\ SizeBound' /\ OwnPosition' /\ FreelistExact' /\ HandleResolves'
        /\ HandlesDistinct'
    BY <2>1 DEF IInv, SizeBound, OwnPosition, FreelistExact, FreePositions,
                HandleResolves, HandlesDistinct, Info
  <2>4. WalkedFree'
    BY <1>1, <1>3, <2>1 DEF IInv, TypeOK, WalkedFree
  <2>5. QED
    BY <1>2, <2>2, <2>3, <2>4 DEF IInv
<1>4. CASE ~in_use[walk].is_free
  <2>1. walk \in 1..Len(in_use) /\ FreeBlock(in_use[walk].ptr)
    BY <1>4 DEF FreeNext
  <2>2. in_use[walk] \in Entry /\ in_use[walk].ptr.pos = walk - 1
    BY <2>1 DEF IInv, TypeOK, OwnPosition
  <2>3. in_use[walk].ptr.pos + 1 = walk /\ in_use[walk].ptr \in DataPtr
    BY <1>1, <2>2 DEF Entry
  <2>4. Resolves(in_use[walk].ptr)
    BY <1>1, <1>4, <2>1, <2>2, <2>3 DEF Resolves, Info, IInv, TypeOK
  <2>5. TypeOK'
    BY <1>1, <2>1, <2>4, FreeBlockStep DEF IInv, TypeOK
  <2>6. WalkedFree'
    <3>1. in_use'[walk].is_free
      BY <2>1, <2>2, <2>3, <2>4, FreeVector DEF Released, Entry
    <3>2. ASSUME NEW i \in 1..Len(in_use), i < walk PROVE in_use'[i].is_free
      <4>1. i # in_use[walk].ptr.pos + 1
        BY <1>1, <2>3, <3>2
      <4>2. in_use'[i] = in_use[i]
        BY <2>1, <2>4, <4>1, FreeVector
      <4>3. QED
        BY <3>2, <4>2 DEF IInv, WalkedFree
    <3>3. \A i \in 1..Len(in_use) : i < walk + 1 => i = walk \/ i < walk
      BY <1>1
    <3>4. Len(in_use') = Len(in_use)
      BY <2>1, <2>4, FreeVector
    <3>5. QED
      BY <1>1, <3>1, <3>2, <3>3, <3>4 DEF WalkedFree
  <2>7. QED
    BY <1>2, <2>1, <2>4, <2>5, <2>6, FreeBlockStep DEF IInv
<1>5. QED
  BY <1>3, <1>4

-----------------------------------------------------------------------------
(* pool_realloc *)

LEMMA MovedType ==
  ASSUME NEW info \in Entry, NEW a \in Addrs \cup {NullAdr}, NEW n \in Nat
  PROVE  /\ Moved(info, a, n) \in Entry
         /\ Moved(info, a, n).ptr = [info.ptr EXCEPT !.adr = a]
         /\ Moved(info, a, n).ptr.pos = info.ptr.pos
         /\ Moved(info, a, n).is_free = info.is_free
         /\ Moved(info, a, n).bytes_total = n
         /\ Moved(info, a, n).ptr.adr = a
  BY DEF Moved, Entry, DataPtr

LEMMA HandleType ==
  ASSUME IInv, NEW h \in held
  PROVE  /\ h \in Handle /\ h.ptr \in DataPtr /\ h.ptr.pos \in Nat
         /\ h.ptr.pos + 1 \in 1..Len(in_use)
         /\ Info(h.ptr) \in Entry /\ Info(h.ptr) = in_use[h.ptr.pos + 1]
         /\ ~in_use[h.ptr.pos + 1].is_free
         /\ in_use[h.ptr.pos + 1].ptr = h.ptr
<1>1. h \in Handle /\ h.ptr \in DataPtr /\ h.ptr.pos \in Nat
  BY BoundAssumption DEF IInv, TypeOK, Handle, DataPtr
<1>2. /\ h.ptr.pos < Len(in_use) /\ ~in_use[h.ptr.pos + 1].is_free
      /\ in_use[h.ptr.pos + 1].ptr = h.ptr
  BY DEF IInv, HandleResolves, Info
<1>3. h.ptr.pos + 1 \in 1..Len(in_use)
  BY <1>1, <1>2 DEF IInv, TypeOK
<1>4. QED
  BY <1>1, <1>2, <1>3 DEF Info, IInv, TypeOK

(* A client that replaces a data pointer by one with the same position.    *)
LEMMA ReplaceStep ==
  ASSUME IInv, NEW h \in held, NEW ptr \in DataPtr, ptr.pos = h.ptr.pos,
         NEW n \in Nat, Replace(h, ptr, n)
  PROVE  held' \subseteq Handle /\ HandlesDistinct'
<1> DEFINE g == [ptr |-> ptr, asked |-> n]
<1>1. g \in Handle /\ g.ptr.pos = h.ptr.pos
  BY DEF Handle
<1>2. held' = (held \ {h}) \cup {g}
  BY DEF Replace
<1> HIDE DEF g
<1>3. QED
  BY <1>1, <1>2 DEF IInv, TypeOK, HandlesDistinct

LEMMA SameEntriesStep ==
  ASSUME IInv, NEW h \in held, NEW n \in Nat, Replace(h, h.ptr, n), UNCHANGED poolVars,
         counters' \in Counters, heap' \in [Addrs -> Nat \cup {Unallocated}]
  PROVE  IInv'
<1>1. held' \subseteq Handle /\ HandlesDistinct'
  BY HandleType, ReplaceStep
<1>2. HandleResolves'
  BY DEF Replace, poolVars, IInv, HandleResolves, Info
<1>3. TypeOK'
  BY <1>1 DEF poolVars, IInv, TypeOK
<1>4. SizeBound' /\ OwnPosition' /\ FreelistExact' /\ Phase' /\ WalkedFree'
  BY DEF poolVars, IInv, SizeBound, OwnPosition, FreelistExact, FreePositions, Phase,
         WalkedFree
<1>5. QED
  BY <1>1, <1>2, <1>3, <1>4 DEF IInv

LEMMA ReallocInPlaceStep ==
  ASSUME IInv, NEW h \in held, NEW n \in Sizes, ReallocInPlace(h, n)
  PROVE  IInv'
<1>1. n \in Nat /\ UNCHANGED <<poolVars, heap>> /\ Replace(h, h.ptr, n)
  BY SizesAssumption DEF ReallocInPlace
<1>2. counters' \in Counters
  BY <1>1, HandleType, ReallocCountedType DEF ReallocInPlace, IInv, TypeOK
<1>3. QED
  BY <1>1, <1>2, SameEntriesStep DEF IInv, TypeOK

LEMMA ReallocReturnsNullStep ==
  ASSUME IInv, NEW h \in held, NEW n \in Sizes, ReallocReturnsNull(h, n)
  PROVE  IInv'
<1>1. n \in Nat /\ UNCHANGED poolVars /\ Replace(h, h.ptr, n)
  BY SizesAssumption DEF ReallocReturnsNull
<1>2. counters' \in Counters
  BY <1>1, HandleType, ReallocCountedType DEF ReallocReturnsNull, IInv, TypeOK
<1>3. heap' \in [Addrs -> Nat \cup {Unallocated}]
  BY DEF ReallocReturnsNull, AfterFree, IInv, TypeOK
<1>4. QED
  BY <1>1, <1>2, <1>3, SameEntriesStep

LEMMA MovesVector ==
  ASSUME IInv, NEW h \in held, NEW n \in Nat, NEW a \in Addrs,
         in_use' = [in_use EXCEPT ![h.ptr.pos + 1] = Moved(@, a, n)]
  PROVE  /\ in_use' \in Seq(Entry) /\ Len(in_use') = Len(in_use)
         /\ in_use'[h.ptr.pos + 1] = Moved(in_use[h.ptr.pos + 1], a, n)
         /\ \A i \in 1..Len(in_use) : i # h.ptr.pos + 1 => in_use'[i] = in_use[i]
         /\ \A i \in 1..Len(in_use) : /\ in_use'[i].is_free = in_use[i].is_free
                                      /\ in_use'[i].ptr.pos = in_use[i].ptr.pos
<1>1. h.ptr.pos + 1 \in 1..Len(in_use) /\ in_use[h.ptr.pos + 1] \in Entry
  BY HandleType
<1> DEFINE info == in_use[h.ptr.pos + 1]
           e == Moved(info, a, n)
<1>2. e \in Entry /\ e.is_free = info.is_free /\ e.ptr.pos = info.ptr.pos
  <2>1. info \in Entry /\ a \in Addrs \cup {NullAdr}
    BY <1>1
  <2> HIDE DEF info
  <2>2. Moved(info, a, n) \in Entry
    BY <2>1, MovedType
  <2>3. Moved(info, a, n).is_free = info.is_free
    BY <2>1 DEF Moved, Entry
  <2>4. Moved(info, a, n).ptr.pos = info.ptr.pos
    BY <2>1 DEF Moved, Entry, DataPtr
  <2>5. QED
    BY <2>2, <2>3, <2>4
<1>3. in_use' = [in_use EXCEPT ![h.ptr.pos + 1] = e]
  OBVIOUS
<1> HIDE DEF e
<1>4. in_use \in Seq(Entry)
  BY DEF IInv, TypeOK
<1>5. QED
  BY <1>1, <1>2, <1>3, <1>4 DEF e

LEMMA ReallocMovesStep ==
  ASSUME IInv, NEW h \in held, NEW n \in Sizes, ReallocMoves(h, n)
  PROVE  IInv'
<1>1. n \in Nat
  BY SizesAssumption
<1>2. PICK a \in Addrs :
         /\ heap' = [b \in Addrs |-> IF b = a THEN n
                                     ELSE IF b = h.ptr.adr THEN Unallocated ELSE heap[b]]
         /\ in_use' = [in_use EXCEPT ![h.ptr.pos + 1] = Moved(@, a, n)]
         /\ Replace(h, [h.ptr EXCEPT !.adr = a], n)
  BY HandleType DEF ReallocMoves, Available, DataPtr
<1>3. UNCHANGED <<freelist, limit_err, open, managed, walk, dropping>>
  BY DEF ReallocMoves
<1> DEFINE q == [h.ptr EXCEPT !.adr = a]
<1>4. q \in DataPtr /\ q.pos = h.ptr.pos
  BY HandleType DEF DataPtr
<1>5. held' \subseteq Handle /\ HandlesDistinct'
  BY <1>1, <1>2, <1>4, ReplaceStep
<1>6. /\ in_use' \in Seq(Entry) /\ Len(in_use') = Len(in_use)
      /\ in_use'[h.ptr.pos + 1] = Moved(in_use[h.ptr.pos + 1], a, n)
      /\ \A i \in 1..Len(in_use) : i # h.ptr.pos + 1 => in_use'[i] = in_use[i]
      /\ \A i \in 1..Len(in_use) : /\ in_use'[i].is_free = in_use[i].is_free
                                   /\ in_use'[i].ptr.pos = in_use[i].ptr.pos
  BY <1>1, <1>2, MovesVector
<1>7. TypeOK'
  <2>1. counters' \in Counters
    BY <1>1, HandleType, ReallocCountedType DEF ReallocMoves, IInv, TypeOK
  <2>2. heap' \in [Addrs -> Nat \cup {Unallocated}]
    BY <1>1, <1>2 DEF IInv, TypeOK
  <2>3. QED
    BY <1>3, <1>5, <1>6, <2>1, <2>2 DEF IInv, TypeOK
<1>8. SizeBound' /\ OwnPosition' /\ Phase' /\ WalkedFree'
  <2>1. SizeBound' /\ OwnPosition'
    BY <1>6 DEF IInv, SizeBound, OwnPosition
  <2>2. open /\ walk = 0
    BY DEF ReallocMoves, CallsRealloc, MayRealloc, Ready
  <2>3. QED
    BY <1>3, <2>1, <2>2 DEF IInv, Phase, WalkedFree
<1>9. FreelistExact'
  <2>1. \A p \in 0..(Len(in_use) - 1) : p + 1 \in 1..Len(in_use)
    BY DEF IInv, TypeOK
  <2>2. FreePositions' = FreePositions
    BY <1>6, <2>1 DEF FreePositions
  <2>3. QED
    BY <1>3, <2>2 DEF IInv, FreelistExact
<1>10. HandleResolves'
  <2>1. ASSUME NEW g \in held'
        PROVE  /\ g.ptr.pos < Len(in_use')
               /\ ~in_use'[g.ptr.pos + 1].is_free
               /\ in_use'[g.ptr.pos + 1].ptr = g.ptr
    <3>1. CASE g \in held /\ g # h
      <4>1. /\ g.ptr.pos + 1 \in 1..Len(in_use) /\ g.ptr.pos \in Nat
            /\ ~in_use[g.ptr.pos + 1].is_free /\ in_use[g.ptr.pos + 1].ptr = g.ptr
        BY <3>1, HandleType
      <4>2. g.ptr.pos # h.ptr.pos /\ h.ptr.pos \in Nat
        BY <3>1, HandleType DEF IInv, HandlesDistinct
      <4>3. in_use'[g.ptr.pos + 1] = in_use[g.ptr.pos + 1]
        BY <1>6, <4>1, <4>2
      <4>4. QED
        BY <1>6, <4>1, <4>3 DEF IInv, TypeOK
    <3>2. CASE g = [ptr |-> q, asked |-> n]
      <4>1. g.ptr = q /\ g.ptr.pos = h.ptr.pos
        BY <1>4, <3>2
      <4>2. /\ h.ptr.pos + 1 \in 1..Len(in_use) /\ h.ptr.pos \in Nat
            /\ ~in_use[h.ptr.pos + 1].is_free /\ in_use[h.ptr.pos + 1].ptr = h.ptr
            /\ in_use[h.ptr.pos + 1] \in Entry
        BY HandleType
      <4>3. in_use'[h.ptr.pos + 1].ptr = q /\ ~in_use'[h.ptr.pos + 1].is_free
        BY <1>1, <1>6, <4>2, MovedType
      <4>4. QED
        BY <1>6, <4>1, <4>2, <4>3 DEF IInv, TypeOK
    <3>3. QED
      BY <1>2, <3>1, <3>2 DEF Replace
  <2>2. QED
    BY <2>1 DEF HandleResolves, Info
<1>11. QED
  BY <1>5, <1>7, <1>8, <1>9, <1>10 DEF IInv

-----------------------------------------------------------------------------
(* The invariant *)

LEMMA EmptyPool ==
  ASSUME in_use' = <<>>, freelist' = <<>>, \A h \in held' : FALSE
  PROVE  /\ SizeBound' /\ OwnPosition' /\ FreelistExact' /\ HandleResolves'
         /\ HandlesDistinct'
<1>1. /\ Len(in_use') = 0 /\ Len(freelist') = 0
      /\ \A i \in 1..Len(in_use') : FALSE
      /\ \A i \in 1..Len(freelist') : FALSE
  OBVIOUS
<1>2. FreePositions' = {}
  BY <1>1 DEF FreePositions
<1>3. {freelist'[i] : i \in 1..Len(freelist')} = {}
  BY <1>1
<1>4. QED
  BY <1>1, <1>2, <1>3, BoundAssumption
  DEF SizeBound, OwnPosition, FreelistExact, HandleResolves, HandlesDistinct

LEMMA NoHandlesWhenEmpty ==
  ASSUME IInv, in_use = <<>> \/ \A i \in 1..Len(in_use) : in_use[i].is_free
  PROVE  \A h \in held : FALSE
<1>1. ASSUME NEW h \in held PROVE FALSE
  <2>1. h.ptr.pos + 1 \in 1..Len(in_use) /\ ~in_use[h.ptr.pos + 1].is_free
    BY HandleType
  <2>2. QED
    BY <2>1
<1>2. QED
  BY <1>1

LEMMA EndWalkStep ==
  ASSUME IInv, EndWalk
  PROVE  IInv'
<1>1. /\ walk = Len(in_use) + 1 /\ walk' = 0 /\ dropping' = FALSE /\ open
      /\ UNCHANGED <<limit_err, counters, managed, heap, held>>
  BY DEF EndWalk, IInv, Phase, TypeOK
<1>2. WalkedFree' /\ Phase'
  <2>1. WalkedFree'
    BY <1>1 DEF WalkedFree, IInv, TypeOK
  <2>2. ~dropping' /\ walk' = 0
    BY <1>1
  <2>3. ~open' => in_use' = <<>> /\ freelist' = <<>>
    BY <1>1 DEF EndWalk
  <2>4. QED
    BY <2>1, <2>2, <2>3 DEF Phase
<1>3. CASE dropping
  <2>1. in_use' = <<>> /\ freelist' = <<>> /\ open' = FALSE
    BY <1>3 DEF EndWalk
  <2>2. \A i \in 1..Len(in_use) : in_use[i].is_free
    BY <1>1 DEF IInv, WalkedFree, TypeOK
  <2>3. \A h \in held' : FALSE
    BY <1>1, <2>2, NoHandlesWhenEmpty
  <2>4. TypeOK'
    <3>1. in_use' \in Seq(Entry) /\ freelist' \in Seq(0..(NumPos - 1))
      BY <2>1, NoElements
    <3>2. QED
      BY <1>1, <2>1, <3>1 DEF IInv, TypeOK
  <2>5. QED
    BY <1>2, <2>1, <2>3, <2>4, EmptyPool DEF IInv
<1>4. CASE ~dropping
  <2>1. UNCHANGED <<open, in_use, freelist>>
    BY <1>4 DEF EndWalk
  <2>2. TypeOK'
    BY <1>1, <2>1 DEF IInv, TypeOK
  <2>3. SizeBound' /\ OwnPosition' /\ FreelistExact' /\ HandleResolves' /\ HandlesDistinct'
    BY <1>1, <2>1 DEF IInv, SizeBound, OwnPosition, FreelistExact, FreePositions,
                      HandleResolves, HandlesDistinct, Info
  <2>4. QED
    BY <1>2, <2>2, <2>3 DEF IInv
<1>5. QED
  BY <1>3, <1>4

LEMMA CreateStep ==
  ASSUME IInv, Create
  PROVE  IInv'
<1>1. /\ in_use = <<>> /\ in_use' = <<>> /\ freelist' = <<>> /\ held' = held /\ open'
      /\ walk' = 0 /\ ~dropping'
  BY DEF Create, IInv, Phase
<1>2. \A h \in held' : FALSE
  BY <1>1, NoHandlesWhenEmpty
<1>3. TypeOK'
  <2>1. in_use' \in Seq(Entry) /\ freelist' \in Seq(0..(NumPos - 1))
    BY <1>1, NoElements
  <2>2. QED
    BY <1>1, <2>1, ZeroedType DEF Create, IInv, TypeOK
<1>4. Phase' /\ WalkedFree'
  BY <1>1 DEF Phase, WalkedFree
<1>5. QED
  BY <1>1, <1>2, <1>3, <1>4, EmptyPool DEF IInv

LEMMA SameEntries ==
  ASSUME IInv, UNCHANGED <<in_use, freelist, held>>
  PROVE  /\ SizeBound' /\ OwnPosition' /\ FreelistExact' /\ HandleResolves'
         /\ HandlesDistinct'
  BY DEF IInv, SizeBound, OwnPosition, FreelistExact, FreePositions, HandleResolves,
         HandlesDistinct, Info

LEMMA FreeAllStep ==
  ASSUME IInv, FreeAll
  PROVE  IInv'
<1>1. /\ open /\ walk' = 1 /\ dropping' \in BOOLEAN
      /\ UNCHANGED <<in_use, freelist, limit_err, counters, open, managed, heap, held>>
  BY DEF FreeAll, Ready
<1>2. TypeOK'
  BY <1>1 DEF IInv, TypeOK
<1>3. Phase' /\ WalkedFree'
  BY <1>1 DEF Phase, WalkedFree
<1>4. QED
  BY <1>1, <1>2, <1>3, SameEntries DEF IInv

LEMMA ResetCountersStep ==
  ASSUME IInv, ResetCounters
  PROVE  IInv'
<1>1. counters' = Zeroed /\ UNCHANGED <<poolVars, heap, held>>
  BY DEF ResetCounters
<1>2. TypeOK'
  BY <1>1, ZeroedType DEF poolVars, IInv, TypeOK
<1>3. Phase' /\ WalkedFree'
  BY <1>1 DEF poolVars, IInv, Phase, WalkedFree
<1>4. QED
  BY <1>1, <1>2, <1>3, SameEntries DEF IInv, poolVars

LEMMA InvariantInit == Init => IInv
<1> SUFFICES ASSUME Init PROVE IInv
  OBVIOUS
<1>1. TypeOK
  <2>1. in_use \in Seq(Entry) /\ freelist \in Seq(0..(NumPos - 1))
    BY NoElements DEF Init
  <2>2. QED
    BY <2>1, ZeroedType DEF Init, TypeOK
<1>2. /\ Len(in_use) = 0 /\ Len(freelist) = 0 /\ held = {}
      /\ \A i \in 1..Len(in_use) : FALSE
      /\ \A i \in 1..Len(freelist) : FALSE
  BY DEF Init
<1>3. FreePositions = {} /\ {freelist[i] : i \in 1..Len(freelist)} = {}
  BY <1>2 DEF FreePositions
<1>4. Phase
  BY DEF Init, Phase
<1>5. QED
  BY <1>1, <1>2, <1>3, <1>4, BoundAssumption
  DEF IInv, SizeBound, OwnPosition, FreelistExact, HandleResolves, HandlesDistinct,
      WalkedFree

LEMMA InvariantNext ==
  ASSUME PositionsSuffice
  PROVE  IInv /\ [Next]_vars => IInv'
<1> SUFFICES ASSUME IInv, [Next]_vars PROVE IInv'
  OBVIOUS
<1>1. CASE \E n \in Sizes : Alloc(n)
  BY <1>1, AllocStep
<1>2. CASE \E n \in Sizes : \E h \in held :
              ReallocInPlace(h, n) \/ ReallocMoves(h, n) \/ ReallocReturnsNull(h, n)
  BY <1>2, ReallocInPlaceStep, ReallocMovesStep, ReallocReturnsNullStep
<1>3. CASE \E h \in held : Free(h)
  BY <1>3, FreeStep
<1>4. CASE Create \/ FreeAll \/ FreeNext \/ EndWalk \/ ResetCounters
  BY <1>4, CreateStep, FreeAllStep, FreeNextStep, EndWalkStep, ResetCountersStep
<1>5. CASE UNCHANGED vars
  <2>1. TypeOK' /\ Phase' /\ WalkedFree'
    BY <1>5 DEF vars, IInv, TypeOK, Phase, WalkedFree
  <2>2. QED
    BY <1>5, <2>1, SameEntries DEF vars, IInv
<1>6. QED
  BY <1>1, <1>2, <1>3, <1>4, <1>5 DEF Next

THEOREM PoolInvariant == ASSUME PositionsSuffice PROVE Spec => []IInv
<1>1. Init => IInv
  BY InvariantInit
<1>2. IInv /\ [Next]_vars => IInv'
  BY InvariantNext
<1>3. QED
  BY <1>1, <1>2, PTL DEF Spec

(* The pool's state is well-typed.                                         *)
THEOREM PoolType == ASSUME PositionsSuffice PROVE Spec => []TypeOK
<1>1. IInv => TypeOK
  BY DEF IInv
<1>2. QED
  BY <1>1, PoolInvariant, PTL

(* Every data pointer a client holds leads to its own live entry, whatever *)
(* sequence of allocations, reallocations, frees, walks and drops, and     *)
(* whatever the C library answers.                                         *)
THEOREM PoolHandles == ASSUME PositionsSuffice PROVE Spec => []HandleResolves
<1>1. IInv => HandleResolves
  BY DEF IInv
<1>2. QED
  BY <1>1, PoolInvariant, PTL

(* The freelist is exact.                                                  *)
THEOREM PoolFreelist == ASSUME PositionsSuffice PROVE Spec => []FreelistExact
<1>1. IInv => FreelistExact
  BY DEF IInv
<1>2. QED
  BY <1>1, PoolInvariant, PTL

-----------------------------------------------------------------------------
(* The entries and the C library.  Clients that never ask for 0 bytes get  *)
(* blocks that no two entries share; with 0 bytes, realloc may free a      *)
(* block whose entry stays live.                                           *)

NonZero == 0 \notin Sizes

LedgerAt(a) == IF heap[a] = Unallocated
               THEN LiveAt(a) = {}
               ELSE \E i \in LiveAt(a) : LiveAt(a) = {i} /\ in_use[i].bytes_total = heap[a]

LEMMA LedgerPointwise == LedgerMatchesHeap <=> \A a \in Addrs : LedgerAt(a)
  BY DEF LedgerMatchesHeap, LedgerAt

(* An address whose live entries and block stay as they are.               *)
LEMMA LedgerKept ==
  ASSUME NEW a \in Addrs, LedgerAt(a), heap'[a] = heap[a], LiveAt(a)' = LiveAt(a),
         \A i \in LiveAt(a) : in_use'[i].bytes_total = in_use[i].bytes_total
  PROVE  LedgerAt(a)'
  BY DEF LedgerAt, Unallocated

(* An address that gets its first block. *)
LEMMA LedgerNew ==
  ASSUME NEW a \in Addrs, NEW i, LiveAt(a)' = {i},
         in_use'[i].bytes_total = heap'[a], heap'[a] \in Nat
  PROVE  LedgerAt(a)'
  BY DEF LedgerAt, Unallocated

LEMMA AllocLedger ==
  ASSUME PositionsSuffice, IInv, LedgerMatchesHeap, NEW n \in Sizes, Alloc(n)
  PROVE  LedgerMatchesHeap'
<1>1. n \in Nat
  BY SizesAssumption
<1>2. PICK a \in MallocResults : Register(a, n) /\ heap' = AfterMalloc(a, n)
  BY DEF Alloc
<1>3. a \in Addrs \cup {NullAdr} /\ (a = NullAdr \/ heap[a] = Unallocated)
  BY <1>2 DEF MallocResults, Available
<1>4. Len(in_use) - Len(freelist) < MaxLive
  BY DEF Alloc
<1>5. /\ NewPos \in 0..(NumPos - 1)
      /\ NewPos + 1 \in 1..Len(in_use) => in_use[NewPos + 1].is_free
  <2>1. freelist = <<>> => NewPos = Len(in_use)
    BY <1>4, RegisterPosition
  <2>2. freelist # <<>> => NewPos \in FreePositions
    BY <1>4, RegisterPosition
  <2>3. QED
    BY <1>4, <2>1, <2>2, RegisterPosition DEF FreePositions, IInv, TypeOK
<1>6. /\ Len(in_use') = IF freelist = <<>> THEN Len(in_use) + 1 ELSE Len(in_use)
      /\ NewPos + 1 \in 1..Len(in_use')
      /\ in_use'[NewPos + 1] = NewEntry(NewPos, a, n)
  BY <1>1, <1>2, <1>3, <1>4, RegisterVector
<1>7. \A i \in 1..Len(in_use') :
         i # NewPos + 1 => i \in 1..Len(in_use) /\ in_use'[i] = in_use[i]
  BY <1>1, <1>2, <1>3, <1>4, RegisterVector
<1>8. \A i \in 1..Len(in_use) : i \in 1..Len(in_use')
  BY <1>6 DEF IInv, TypeOK
<1> DEFINE e == NewEntry(NewPos, a, n)
<1>9. e.ptr.adr = a /\ ~e.is_free /\ e.bytes_total = n
  BY DEF NewEntry
<1> HIDE DEF e
<1>10. in_use'[NewPos + 1] = e
  BY <1>6 DEF e
<1>11. ASSUME NEW b \in Addrs PROVE LedgerAt(b)'
  <2>1. LedgerAt(b)
    BY LedgerPointwise
  <2>2. CASE b = a
    <3>1. a # NullAdr /\ heap[a] = Unallocated
      BY <1>3, <2>2, NullAssumption
    <3>2. LiveAt(b) = {}
      BY <2>1, <2>2, <3>1 DEF LedgerAt
    <3>3. LiveAt(b)' = {NewPos + 1}
      BY <1>6, <1>7, <1>9, <1>10, <2>2, <3>2 DEF LiveAt
    <3>4. heap'[b] = n
      BY <1>2, <2>2, <3>1 DEF AfterMalloc, IInv, TypeOK
    <3>5. QED
      BY <1>1, <1>9, <1>10, <3>3, <3>4, LedgerNew
  <2>3. CASE b # a
    <3>1. heap'[b] = heap[b]
      BY <1>2, <2>3 DEF AfterMalloc, IInv, TypeOK
    <3>2. ASSUME NEW i \in LiveAt(b) PROVE i \in LiveAt(b)' /\ in_use'[i] = in_use[i]
      BY <1>5, <1>7, <1>8 DEF LiveAt
    <3>3. ASSUME NEW i \in LiveAt(b)' PROVE i \in LiveAt(b)
      BY <1>7, <1>9, <1>10, <2>3 DEF LiveAt
    <3>4. LiveAt(b)' = LiveAt(b)
      BY <3>2, <3>3
    <3>5. \A i \in LiveAt(b) : in_use'[i].bytes_total = in_use[i].bytes_total
      BY <3>2
    <3>6. QED
      BY <2>1, <3>1, <3>4, <3>5, LedgerKept
  <2>4. QED
    BY <2>2, <2>3
<1>12. QED
  BY <1>11 DEF LedgerMatchesHeap, LedgerAt

LEMMA FreeLedger ==
  ASSUME IInv, LedgerMatchesHeap, NEW ptr, Resolves(ptr), FreeBlock(ptr)
  PROVE  LedgerMatchesHeap'
<1>1. /\ ptr.pos + 1 \in 1..Len(in_use) /\ Len(in_use') = Len(in_use)
      /\ in_use'[ptr.pos + 1] = Released(in_use[ptr.pos + 1])
      /\ \A i \in 1..Len(in_use) : i # ptr.pos + 1 => in_use'[i] = in_use[i]
  BY FreeVector
<1>2. in_use[ptr.pos + 1] \in Entry
  BY <1>1 DEF IInv, TypeOK
<1>3. in_use'[ptr.pos + 1].is_free
  BY <1>1, <1>2 DEF Released, Entry
<1>4. ~in_use[ptr.pos + 1].is_free /\ in_use[ptr.pos + 1].ptr = ptr
  BY DEF Resolves, Info
<1>5. ptr.adr \in Addrs \cup {NullAdr} /\ heap' = AfterFree(ptr.adr)
  BY DEF Resolves, DataPtr, FreeBlock
<1>6. ASSUME NEW b \in Addrs PROVE LedgerAt(b)'
  <2>1. LedgerAt(b)
    BY LedgerPointwise
  <2>2. CASE b = ptr.adr
    <3>1. ptr.pos + 1 \in LiveAt(b)
      BY <1>1, <1>4, <2>2 DEF LiveAt
    <3>2. LiveAt(b) = {ptr.pos + 1}
      BY <2>1, <3>1 DEF LedgerAt
    <3>3. LiveAt(b)' = {}
      BY <1>1, <1>3, <3>2 DEF LiveAt
    <3>4. heap'[b] = Unallocated
      BY <1>5, <2>2, NullAssumption DEF AfterFree, IInv, TypeOK
    <3>5. QED
      BY <3>3, <3>4 DEF LedgerAt, Unallocated
  <2>3. CASE b # ptr.adr
    <3>1. heap'[b] = heap[b]
      BY <1>5, <2>3 DEF AfterFree, IInv, TypeOK
    <3>2. ptr.pos + 1 \notin LiveAt(b)
      BY <1>4, <2>3 DEF LiveAt
    <3>3. LiveAt(b)' = LiveAt(b) /\ \A i \in LiveAt(b) : in_use'[i] = in_use[i]
      BY <1>1, <1>3, <3>2 DEF LiveAt
    <3>4. QED
      BY <2>1, <3>1, <3>3, LedgerKept
  <2>4. QED
    BY <2>2, <2>3
<1>7. QED
  BY <1>6 DEF LedgerMatchesHeap, LedgerAt

LEMMA MovesLedger ==
  ASSUME IInv, LedgerMatchesHeap, NEW h \in held, NEW n \in Sizes, ReallocMoves(h, n)
  PROVE  LedgerMatchesHeap'
<1>1. n \in Nat
  BY SizesAssumption
<1>2. PICK a \in Available \cup ({h.ptr.adr} \ {NullAdr}) :
         /\ heap' = [b \in Addrs |-> IF b = a THEN n
                                     ELSE IF b = h.ptr.adr THEN Unallocated ELSE heap[b]]
         /\ in_use' = [in_use EXCEPT ![h.ptr.pos + 1] = Moved(@, a, n)]
  BY DEF ReallocMoves
<1> DEFINE k == h.ptr.pos + 1
           old == h.ptr.adr
<1>3. /\ k \in 1..Len(in_use) /\ in_use[k] \in Entry /\ ~in_use[k].is_free
      /\ in_use[k].ptr.adr = old /\ old \in Addrs \cup {NullAdr}
  BY HandleType DEF DataPtr
<1>4. a \in Addrs /\ (a = old \/ heap[a] = Unallocated)
  BY <1>2, <1>3 DEF Available
<1>5. /\ Len(in_use') = Len(in_use) /\ in_use'[k] = Moved(in_use[k], a, n)
      /\ \A i \in 1..Len(in_use) : i # k => in_use'[i] = in_use[i]
  BY <1>1, <1>2, <1>4, MovesVector
<1>6. ~in_use'[k].is_free /\ in_use'[k].ptr.adr = a /\ in_use'[k].bytes_total = n
  BY <1>1, <1>3, <1>4, <1>5 DEF Moved, Entry, DataPtr
<1> HIDE DEF k, old
<1>7. heap' = [b \in Addrs |-> IF b = a THEN n ELSE IF b = old THEN Unallocated ELSE heap[b]]
  BY <1>2 DEF old
<1>8. ASSUME NEW b \in Addrs PROVE LedgerAt(b)'
  <2>1. LedgerAt(b)
    BY LedgerPointwise
  <2>2. b = old => LiveAt(b) = {k}
    <3>1. b = old => k \in LiveAt(b)
      BY <1>3 DEF LiveAt
    <3>2. QED
      BY <2>1, <3>1 DEF LedgerAt
  <2>3. CASE b = a
    <3>1. LiveAt(b) \subseteq {k}
      BY <1>4, <2>1, <2>2, <2>3 DEF LedgerAt
    <3>2. LiveAt(b)' = {k}
      BY <1>3, <1>5, <1>6, <2>3, <3>1 DEF LiveAt
    <3>3. heap'[b] = n
      BY <1>7, <2>3
    <3>4. QED
      BY <1>1, <1>6, <3>2, <3>3, LedgerNew
  <2>4. CASE b # a /\ b = old
    <3>1. LiveAt(b)' = {}
      BY <1>5, <1>6, <2>2, <2>4 DEF LiveAt
    <3>2. heap'[b] = Unallocated
      BY <1>7, <2>4
    <3>3. QED
      BY <3>1, <3>2 DEF LedgerAt, Unallocated
  <2>5. CASE b # a /\ b # old
    <3>1. k \notin LiveAt(b)
      BY <1>3, <2>5 DEF LiveAt
    <3>2. LiveAt(b)' = LiveAt(b) /\ \A i \in LiveAt(b) : in_use'[i] = in_use[i]
      BY <1>5, <1>6, <2>5, <3>1 DEF LiveAt
    <3>3. heap'[b] = heap[b]
      BY <1>7, <2>5
    <3>4. QED
      BY <2>1, <3>2, <3>3, LedgerKept
  <2>6. QED
    BY <2>3, <2>4, <2>5
<1>9. QED
  BY <1>8 DEF LedgerMatchesHeap, LedgerAt

(* Steps that change neither the entries nor the blocks; for pool_drop,    *)
(* the vector is dropped when no entry is live any more.                   *)
LEMMA SameLedger ==
  ASSUME LedgerMatchesHeap, UNCHANGED <<in_use, heap>>
  PROVE  LedgerMatchesHeap'
  BY DEF LedgerMatchesHeap, LiveAt

LEMMA EndWalkLedger ==
  ASSUME IInv, LedgerMatchesHeap, EndWalk
  PROVE  LedgerMatchesHeap'
<1>1. walk = Len(in_use) + 1 /\ UNCHANGED heap
  BY DEF EndWalk
<1>2. CASE dropping
  <2>1. in_use' = <<>>
    BY <1>2 DEF EndWalk
  <2>2. \A i \in 1..Len(in_use) : in_use[i].is_free
    BY <1>1 DEF IInv, WalkedFree, TypeOK
  <2>3. \A a \in Addrs : LiveAt(a) = {} /\ LiveAt(a)' = {}
    BY <2>1, <2>2 DEF LiveAt
  <2>4. QED
    BY <1>1, <2>3 DEF LedgerMatchesHeap
<1>3. CASE ~dropping
  BY <1>1, <1>3, SameLedger DEF EndWalk
<1>4. QED
  BY <1>2, <1>3

LEMMA WalkResolves ==
  ASSUME IInv, FreeNext, ~in_use[walk].is_free
  PROVE  Resolves(in_use[walk].ptr)
<1>1. walk \in 1..Len(in_use)
  BY DEF FreeNext
<1>2. /\ in_use[walk] \in Entry /\ in_use[walk].ptr.pos = walk - 1
      /\ walk \in Nat /\ Len(in_use) \in Nat
  BY <1>1 DEF IInv, TypeOK, OwnPosition
<1>3. in_use[walk].ptr.pos + 1 = walk /\ in_use[walk].ptr \in DataPtr
  BY <1>2 DEF Entry
<1>4. QED
  BY <1>1, <1>2, <1>3 DEF Resolves, Info

LEMMA FreeNextLedger ==
  ASSUME IInv, LedgerMatchesHeap, FreeNext
  PROVE  LedgerMatchesHeap'
<1>1. CASE in_use[walk].is_free
  BY <1>1, SameLedger DEF FreeNext
<1>2. CASE ~in_use[walk].is_free
  BY <1>2, WalkResolves, FreeLedger DEF FreeNext
<1>3. QED
  BY <1>1, <1>2

LEMMA LedgerNext ==
  ASSUME PositionsSuffice, NonZero
  PROVE  IInv /\ LedgerMatchesHeap /\ [Next]_vars => LedgerMatchesHeap'
<1> SUFFICES ASSUME IInv, LedgerMatchesHeap, [Next]_vars PROVE LedgerMatchesHeap'
  OBVIOUS
<1>1. CASE \E n \in Sizes : Alloc(n)
  BY <1>1, AllocLedger
<1>2. CASE \E n \in Sizes : \E h \in held : ReallocMoves(h, n)
  BY <1>2, MovesLedger
<1>3. CASE \E n \in Sizes : \E h \in held : ReallocInPlace(h, n) \/ ReallocReturnsNull(h, n)
  <2>1. UNCHANGED <<in_use, heap>>
    BY <1>3 DEF ReallocInPlace, ReallocReturnsNull, NonZero, poolVars
  <2>2. QED
    BY <2>1, SameLedger
<1>4. CASE \E h \in held : Free(h)
  <2>1. PICK h \in held : FreeBlock(h.ptr)
    BY <1>4 DEF Free
  <2>2. Resolves(h.ptr)
    BY HandleType DEF Resolves, IInv, HandleResolves
  <2>3. QED
    BY <2>1, <2>2, FreeLedger
<1>5. CASE FreeNext
  BY <1>5, FreeNextLedger
<1>6. CASE EndWalk
  BY <1>6, EndWalkLedger
<1>7. CASE Create
  <2>1. UNCHANGED <<in_use, heap>>
    BY <1>7 DEF Create, IInv, Phase
  <2>2. QED
    BY <2>1, SameLedger
<1>8. CASE FreeAll \/ ResetCounters \/ UNCHANGED vars
  <2>1. UNCHANGED <<in_use, heap>>
    BY <1>8 DEF FreeAll, ResetCounters, poolVars, vars
  <2>2. QED
    BY <2>1, SameLedger
<1>9. QED
  BY <1>1, <1>2, <1>3, <1>4, <1>5, <1>6, <1>7, <1>8 DEF Next

(* The pool and the C library agree on every block: none is lost, none is  *)
(* freed under a live entry, each entry has its block's size, and a        *)
(* dropped pool leaves nothing behind.                                     *)
THEOREM PoolLedger ==
  ASSUME PositionsSuffice, NonZero
  PROVE  Spec => []LedgerMatchesHeap
<1>1. Init => LedgerMatchesHeap
  <2> SUFFICES ASSUME Init PROVE LedgerMatchesHeap
    OBVIOUS
  <2>1. Len(in_use) = 0 /\ \A i \in 1..Len(in_use) : FALSE
    BY DEF Init
  <2>2. \A a \in Addrs : heap[a] = Unallocated /\ LiveAt(a) = {}
    BY <2>1 DEF Init, LiveAt
  <2>3. QED
    BY <2>2 DEF LedgerMatchesHeap
<1>2. IInv /\ LedgerMatchesHeap /\ [Next]_vars => LedgerMatchesHeap'
  BY LedgerNext
<1>3. QED
  BY <1>1, <1>2, PoolInvariant, PTL DEF Spec

(* Two data pointers never lead to the same entry nor to the same block.   *)
THEOREM PoolNoAliasing ==
  ASSUME PositionsSuffice, NonZero
  PROVE  Spec => []NoAliasing
<1>1. IInv /\ LedgerMatchesHeap => NoAliasing
  <2> SUFFICES ASSUME IInv, LedgerMatchesHeap, NEW g \in held, NEW h \in held, g # h
               PROVE  /\ g.ptr.pos # h.ptr.pos
                      /\ g.ptr.adr = h.ptr.adr => g.ptr.adr = NullAdr
    BY DEF NoAliasing
  <2>1. g.ptr.pos # h.ptr.pos
    BY DEF IInv, HandlesDistinct
  <2>2. ASSUME g.ptr.adr = h.ptr.adr, g.ptr.adr # NullAdr PROVE FALSE
    <3>1. g.ptr.adr \in Addrs
      BY <2>2, HandleType DEF DataPtr
    <3>2. g.ptr.pos + 1 \in LiveAt(g.ptr.adr) /\ h.ptr.pos + 1 \in LiveAt(g.ptr.adr)
      BY <2>2, HandleType DEF LiveAt
    <3>3. g.ptr.pos + 1 = h.ptr.pos + 1
      BY <3>1, <3>2 DEF LedgerMatchesHeap
    <3>4. QED
      BY <2>1, <3>3, HandleType
  <2>3. QED
    BY <2>1, <2>2
<1>2. QED
  BY <1>1, PoolInvariant, PoolLedger, PTL

-----------------------------------------------------------------------------
(* Sizes.  With a C library that always finds memory, no block is smaller  *)
(* than what its holder asked for; bytes_used never exceeds bytes_total.   *)

AskedFits == \A h \in held : h.asked <= in_use[h.ptr.pos + 1].bytes_total

(* A step keeps the size behind each data pointer, or makes it what its    *)
(* holder asks for.                                                        *)
SizesFollow ==
    \A h \in held' : \/ /\ h \in held
                        /\ in_use'[h.ptr.pos + 1].bytes_total = in_use[h.ptr.pos + 1].bytes_total
                     \/ /\ in_use'[h.ptr.pos + 1].bytes_total = h.asked
                        /\ h.asked \in Nat

LEMMA AllocSizes ==
  ASSUME PositionsSuffice, IInv, NEW n \in Sizes, Alloc(n)
  PROVE  SizesFollow
<1>1. n \in Nat
  BY SizesAssumption
<1>2. PICK a \in MallocResults :
         /\ Register(a, n)
         /\ held' = held \cup {[ptr |-> [pos |-> NewPos, adr |-> a], asked |-> n]}
  BY DEF Alloc
<1>3. a \in Addrs \cup {NullAdr} /\ Len(in_use) - Len(freelist) < MaxLive
  BY DEF MallocResults, Available, Alloc
<1>4. /\ in_use'[NewPos + 1] = NewEntry(NewPos, a, n)
      /\ Len(in_use') = IF freelist = <<>> THEN Len(in_use) + 1 ELSE Len(in_use)
      /\ \A i \in 1..Len(in_use') : i # NewPos + 1 => in_use'[i] = in_use[i]
  BY <1>1, <1>2, <1>3, RegisterVector
<1>5. NewPos + 1 \in 1..Len(in_use) => in_use[NewPos + 1].is_free
  <2>1. freelist = <<>> => NewPos = Len(in_use)
    BY <1>3, RegisterPosition
  <2>2. freelist # <<>> => NewPos \in FreePositions
    BY <1>3, RegisterPosition
  <2>3. QED
    BY <1>3, <2>1, <2>2, RegisterPosition DEF FreePositions, IInv, TypeOK
<1>6. NewEntry(NewPos, a, n).bytes_total = n
  BY DEF NewEntry
<1>7. ASSUME NEW h \in held PROVE in_use'[h.ptr.pos + 1].bytes_total = in_use[h.ptr.pos + 1].bytes_total
  <2>1. h.ptr.pos + 1 \in 1..Len(in_use) /\ ~in_use[h.ptr.pos + 1].is_free
    BY HandleType
  <2>2. h.ptr.pos + 1 # NewPos + 1
    BY <1>5, <2>1
  <2>3. \A i \in 1..Len(in_use) : i \in 1..Len(in_use')
    BY <1>4 DEF IInv, TypeOK
  <2>4. in_use'[h.ptr.pos + 1] = in_use[h.ptr.pos + 1]
    BY <1>4, <2>1, <2>2, <2>3
  <2>5. QED
    BY <2>4
<1>8. QED
  BY <1>1, <1>2, <1>4, <1>6, <1>7 DEF SizesFollow

LEMMA ReleasedSize ==
  ASSUME NEW info \in Entry
  PROVE  Released(info).bytes_total = info.bytes_total
  BY DEF Released, Entry

LEMMA FreeSizes ==
  ASSUME IInv, NEW ptr, Resolves(ptr), FreeBlock(ptr)
  PROVE  SizesFollow
<1>1. ASSUME NEW h \in held', h \in held
      PROVE  in_use'[h.ptr.pos + 1].bytes_total = in_use[h.ptr.pos + 1].bytes_total
  <2>1. h.ptr.pos + 1 \in 1..Len(in_use)
    BY <1>1, HandleType
  <2>2. in_use[h.ptr.pos + 1] \in Entry
    BY <2>1 DEF IInv, TypeOK
  <2>3. Released(in_use[h.ptr.pos + 1]).bytes_total = in_use[h.ptr.pos + 1].bytes_total
    BY <2>2, ReleasedSize
  <2>4. \/ in_use'[h.ptr.pos + 1] = in_use[h.ptr.pos + 1]
        \/ in_use'[h.ptr.pos + 1] = Released(in_use[h.ptr.pos + 1])
    BY <2>1, FreeVector
  <2>5. QED
    BY <1>1, <2>3, <2>4
<1>2. held' \subseteq held
  BY DEF FreeBlock
<1>3. QED
  BY <1>1, <1>2 DEF SizesFollow

LEMMA MovesSizes ==
  ASSUME IInv, NEW h \in held, NEW n \in Sizes, ReallocMoves(h, n)
  PROVE  SizesFollow
<1>1. n \in Nat
  BY SizesAssumption
<1>2. PICK a \in Addrs :
         /\ in_use' = [in_use EXCEPT ![h.ptr.pos + 1] = Moved(@, a, n)]
         /\ Replace(h, [h.ptr EXCEPT !.adr = a], n)
  BY HandleType DEF ReallocMoves, Available, DataPtr
<1>3. /\ in_use'[h.ptr.pos + 1] = Moved(in_use[h.ptr.pos + 1], a, n)
      /\ \A i \in 1..Len(in_use) : i # h.ptr.pos + 1 => in_use'[i] = in_use[i]
  BY <1>1, <1>2, MovesVector
<1> DEFINE q == [h.ptr EXCEPT !.adr = a]
<1>4. q.pos = h.ptr.pos
  BY HandleType DEF DataPtr
<1>5. held' = (held \ {h}) \cup {[ptr |-> q, asked |-> n]}
  BY <1>2 DEF Replace
<1> HIDE DEF q
<1>6. in_use'[h.ptr.pos + 1].bytes_total = n
  BY <1>1, <1>3, HandleType DEF Moved, Entry
<1>7. ASSUME NEW g \in held, g # h PROVE in_use'[g.ptr.pos + 1].bytes_total = in_use[g.ptr.pos + 1].bytes_total
  <2>1. g.ptr.pos + 1 \in 1..Len(in_use) /\ g.ptr.pos \in Nat /\ h.ptr.pos \in Nat
    BY <1>7, HandleType
  <2>2. g.ptr.pos # h.ptr.pos
    BY <1>7 DEF IInv, HandlesDistinct
  <2>3. in_use'[g.ptr.pos + 1] = in_use[g.ptr.pos + 1]
    BY <1>3, <2>1, <2>2
  <2>4. QED
    BY <1>7, <2>3
<1>8. QED
  BY <1>1, <1>4, <1>5, <1>6, <1>7 DEF SizesFollow

LEMMA InPlaceAsked ==
  ASSUME IInv, AskedFits, NEW h \in held, NEW n \in Sizes, ReallocInPlace(h, n)
  PROVE  AskedFits'
<1>1. n \in Nat /\ in_use[h.ptr.pos + 1] \in Entry
  BY SizesAssumption, HandleType
<1>2. /\ held' = (held \ {h}) \cup {[ptr |-> h.ptr, asked |-> n]}
      /\ in_use' = in_use
      /\ n <= in_use[h.ptr.pos + 1].bytes_total
  BY <1>1 DEF ReallocInPlace, Replace, poolVars, Fits, Info, Entry
<1>3. QED
  BY <1>2 DEF AskedFits

LEMMA AskedNext ==
  ASSUME PositionsSuffice, NonZero, ~MayFail
  PROVE  IInv /\ AskedFits /\ [Next]_vars => AskedFits'
<1> SUFFICES ASSUME IInv, AskedFits, [Next]_vars PROVE AskedFits'
  OBVIOUS
<1>0. ASSUME SizesFollow PROVE AskedFits'
  <2>1. \A n \in Nat : n <= n
    OBVIOUS
  <2>2. QED
    BY <1>0, <2>1 DEF AskedFits, SizesFollow
<1>1. CASE \E n \in Sizes : Alloc(n)
  BY <1>0, <1>1, AllocSizes
<1>2. CASE \E n \in Sizes : \E h \in held :
              ReallocInPlace(h, n) \/ ReallocMoves(h, n) \/ ReallocReturnsNull(h, n)
  <2>1. \A n \in Sizes : \A h \in held : ~ReallocReturnsNull(h, n)
    BY DEF ReallocReturnsNull, NonZero
  <2>2. QED
    BY <1>0, <1>2, <2>1, InPlaceAsked, MovesSizes
<1>3. CASE \E h \in held : Free(h)
  <2>1. PICK h \in held : FreeBlock(h.ptr)
    BY <1>3 DEF Free
  <2>2. Resolves(h.ptr)
    BY HandleType DEF Resolves, IInv, HandleResolves
  <2>3. QED
    BY <1>0, <2>1, <2>2, FreeSizes
<1>4. CASE FreeNext
  <2>1. CASE in_use[walk].is_free
    BY <1>4, <2>1 DEF FreeNext, AskedFits
  <2>2. CASE ~in_use[walk].is_free
    <3>1. FreeBlock(in_use[walk].ptr)
      BY <1>4, <2>2 DEF FreeNext
    <3>2. Resolves(in_use[walk].ptr)
      BY <1>4, <2>2, WalkResolves
    <3>3. QED
      BY <1>0, <3>1, <3>2, FreeSizes
  <2>3. QED
    BY <2>1, <2>2
<1>5. CASE EndWalk
  <2>1. walk = Len(in_use) + 1 /\ held' = held
    BY <1>5 DEF EndWalk
  <2>2. CASE dropping
    <3>1. \A i \in 1..Len(in_use) : in_use[i].is_free
      BY <2>1 DEF IInv, WalkedFree, TypeOK
    <3>2. \A h \in held : FALSE
      BY <3>1, NoHandlesWhenEmpty
    <3>3. QED
      BY <2>1, <3>2 DEF AskedFits
  <2>3. CASE ~dropping
    BY <1>5, <2>1, <2>3 DEF EndWalk, AskedFits
  <2>4. QED
    BY <2>2, <2>3
<1>6. CASE Create \/ FreeAll \/ ResetCounters \/ UNCHANGED vars
  <2>1. in_use' = in_use /\ held' = held
    BY <1>6 DEF Create, IInv, Phase, FreeAll, ResetCounters, poolVars, vars
  <2>2. QED
    BY <2>1 DEF AskedFits
<1>7. QED
  BY <1>1, <1>2, <1>3, <1>4, <1>5, <1>6 DEF Next

(* The block behind a data pointer has at least the size its holder asked  *)
(* for last, whichever strategy is used, when the C library has memory.    *)
THEOREM PoolRequests ==
  ASSUME PositionsSuffice, NonZero, ~MayFail
  PROVE  Spec => []RequestBacked
<1>1. Init => AskedFits
  BY DEF Init, AskedFits
<1>2. IInv /\ AskedFits /\ [Next]_vars => AskedFits'
  BY AskedNext
<1>3. IInv /\ AskedFits /\ LedgerMatchesHeap => RequestBacked
  <2> SUFFICES ASSUME IInv, AskedFits, LedgerMatchesHeap,
                      NEW h \in held, h.ptr.adr \in Addrs
               PROVE  heap[h.ptr.adr] >= h.asked
    BY DEF RequestBacked
  <2>1. h.ptr.pos + 1 \in LiveAt(h.ptr.adr)
    BY HandleType DEF LiveAt
  <2>2. in_use[h.ptr.pos + 1].bytes_total = heap[h.ptr.adr]
    BY <2>1 DEF LedgerMatchesHeap
  <2>3. /\ h.asked <= in_use[h.ptr.pos + 1].bytes_total
        /\ h.asked \in Nat /\ in_use[h.ptr.pos + 1].bytes_total \in Nat
    BY HandleType DEF AskedFits, Handle, Entry
  <2>4. QED
    BY <2>2, <2>3
<1>4. QED
  BY <1>1, <1>2, <1>3, PoolInvariant, PoolLedger, PTL DEF Spec
-----------------------------------------------------------------------------
(* Accounting: the bytes of the entries, added up one by one *)

(* A non-empty set of numbers has a least one.                             *)
LEMMA LeastNumber ==
  ASSUME NEW S \in SUBSET Nat, S # {}
  PROVE  \E p \in S : \A q \in S : p <= q
<1> DEFINE Less == {ss \in Nat \X Nat : ss[1] < ss[2]}
<1>1. IsWellFoundedOn(Less, Nat)
  BY NatLessThanWellFounded, Zenon DEF OpToRel
<1> HIDE DEF Less
<1>2. PICK p \in S : \A q \in S : ~(<<q, p>> \in Less)
  BY <1>1, WFMin
<1>3. \A q \in S : <<q, p>> \in Nat \X Nat /\ <<q, p>>[1] = q /\ <<q, p>>[2] = p
  OBVIOUS
<1>4. \A q \in S : ~(q < p)
  BY <1>2, <1>3, Zenon DEF Less
<1>5. QED
  BY <1>4

LEMMA LiveSizeType == ASSUME NEW info \in Entry PROVE LiveSize(info) \in Nat
<1>1. info.bytes_total \in Nat
  BY DEF Entry
<1>2. QED
  BY <1>1 DEF LiveSize

(* The recursive definition has a solution, so that it says what it seems  *)
(* to say.                                                                 *)
AddsUp(f, s, n) == /\ f \in [0..n -> Nat]
                   /\ f[0] = 0
                   /\ \A i \in 0..(n - 1) : f[i + 1] = f[i] + LiveSize(s[i + 1])

LEMMA SizesAddUp ==
  ASSUME NEW s \in Seq(Entry), NEW n \in 0..Len(s)
  PROVE  \E f : AddsUp(f, s, n)
<1> DEFINE Bad == {m \in 0..Len(s) : ~\E f : AddsUp(f, s, m)}
<1>1. \A i \in 1..Len(s) : LiveSize(s[i]) \in Nat
  <2>1. \A i \in 1..Len(s) : s[i] \in Entry
    OBVIOUS
  <2>2. QED
    BY <2>1, LiveSizeType
<1>2. Len(s) \in Nat
  OBVIOUS
<1>3. SUFFICES Bad = {}
  OBVIOUS
<1>4. SUFFICES ASSUME Bad # {} PROVE FALSE
  OBVIOUS
<1>5. PICK m \in Bad : \A q \in Bad : m <= q
  <2>1. Bad \in SUBSET Nat
    BY <1>2
  <2>2. QED
    BY <1>4, <2>1, LeastNumber
<1>6. m # 0
  <2>1. AddsUp([i \in 0..0 |-> 0], s, 0)
    BY DEF AddsUp
  <2>2. QED
    BY <2>1
<1>7. PICK k \in Nat : m = k + 1 /\ k \in 0..Len(s) /\ k \notin Bad /\ m \in 1..Len(s)
  <2>1. m \in 0..Len(s) /\ m - 1 \in Nat /\ m = (m - 1) + 1 /\ m - 1 \in 0..Len(s) /\ ~(m <= m - 1)
    BY <1>2, <1>6
  <2>2. QED
    BY <1>5, <2>1
<1>8. PICK f : AddsUp(f, s, k)
  BY <1>7
<1> HIDE DEF Bad
<1> DEFINE g == [i \in 0..m |-> IF i = m THEN f[k] + LiveSize(s[m]) ELSE f[i]]
<1>9. /\ f \in [0..k -> Nat] /\ f[0] = 0
      /\ \A i \in 0..(k - 1) : f[i + 1] = f[i] + LiveSize(s[i + 1])
  BY <1>8 DEF AddsUp
<1>10. f[k] + LiveSize(s[m]) \in Nat /\ \A i \in 0..m : i # m => i \in 0..k
  BY <1>1, <1>7, <1>9
<1>11. g \in [0..m -> Nat] /\ g[0] = 0
  BY <1>7, <1>9, <1>10
<1>12. ASSUME NEW i \in 0..(m - 1) PROVE g[i + 1] = g[i] + LiveSize(s[i + 1])
  <2>1. i \in 0..k /\ i + 1 \in 0..m /\ i \in 0..m /\ i # m
    BY <1>7
  <2>2. g[i] = f[i]
    BY <2>1
  <2>3. CASE i = k
    BY <1>7, <2>1, <2>2, <2>3
  <2>4. CASE i # k
    <3>1. i \in 0..(k - 1) /\ i + 1 # m
      BY <1>7, <2>1, <2>4
    <3>2. g[i + 1] = f[i + 1]
      BY <2>1, <3>1
    <3>3. QED
      BY <1>9, <2>2, <3>1, <3>2
  <2>5. QED
    BY <2>3, <2>4
<1>13. AddsUp(g, s, m)
  BY <1>11, <1>12 DEF AddsUp
<1>14. QED
  BY <1>13, <1>5 DEF Bad

LEMMA BytesAddUp ==
  ASSUME NEW s \in Seq(Entry)
  PROVE  AddsUp(BytesUpTo(s), s, Len(s))
<1> DEFINE n == Len(s)
           Step(f, i) == IF i = 0 THEN 0 ELSE f[i - 1] + LiveSize(s[i])
           Is(f) == f = [i \in 0..n |-> Step(f, i)]
<1>1. n \in Nat /\ n \in 0..Len(s)
  OBVIOUS
<1>2. BytesUpTo(s) = CHOOSE f : Is(f)
  BY DEF BytesUpTo
<1>3. PICK g : AddsUp(g, s, n)
  BY <1>1, SizesAddUp
<1> HIDE DEF n
<1>4. Is(g)
  <2>1. ASSUME NEW i \in 0..n PROVE g[i] = Step(g, i)
    <3>1. CASE i = 0
      BY <1>3, <3>1 DEF AddsUp
    <3>2. CASE i # 0
      <4>1. PICK k \in 0..(n - 1) : i = k + 1
        <5>1. i - 1 \in 0..(n - 1) /\ i = (i - 1) + 1
          BY <1>1, <3>2
        <5>2. QED
          BY <5>1
      <4>2. i - 1 = k
        BY <1>1, <4>1
      <4>3. QED
        BY <1>3, <3>2, <4>1, <4>2 DEF AddsUp
    <3>3. QED
      BY <3>1, <3>2
  <2> HIDE DEF Step
  <2>2. g = [i \in 0..n |-> g[i]]
    BY <1>3 DEF AddsUp
  <2>3. QED
    BY <2>1, <2>2
<1> DEFINE f == BytesUpTo(s)
<1>5. Is(f)
  <2> HIDE DEF Is
  <2>1. QED
    BY <1>2, <1>4
<1> HIDE DEF f
<1>6. DOMAIN f = 0..n /\ \A i \in 0..n : f[i] = Step(f, i)
  BY <1>5
<1>7. f[0] = 0
  BY <1>1, <1>6
<1>8. ASSUME NEW k \in 0..(n - 1) PROVE f[k + 1] = f[k] + LiveSize(s[k + 1])
  <2>1. k + 1 \in 0..n /\ k + 1 # 0 /\ (k + 1) - 1 = k
    BY <1>1
  <2>2. QED
    BY <1>6, <2>1
<1>9. f = g
  <2> DEFINE Off == {i \in 0..n : f[i] # g[i]}
  <2>1. Off = {}
    <3>1. SUFFICES ASSUME Off # {} PROVE FALSE
      OBVIOUS
    <3>2. Off \in SUBSET Nat
      BY <1>1
    <3>3. PICK m \in Off : \A q \in Off : m <= q
      BY <3>1, <3>2, LeastNumber
    <3>4. m # 0
      BY <1>3, <1>7, <3>3 DEF AddsUp
    <3>5. PICK k \in 0..(n - 1) : m = k + 1 /\ k \in 0..n /\ k < m
      <4>1. m \in 0..n
        BY <3>3
      <4>2. m - 1 \in 0..(n - 1) /\ m = (m - 1) + 1 /\ m - 1 \in 0..n /\ m - 1 < m
        BY <1>1, <3>4, <4>1
      <4>3. QED
        BY <4>2
    <3>6. f[k] = g[k]
      BY <1>1, <3>3, <3>5
    <3>7. f[m] = g[m]
      BY <1>3, <1>8, <3>5, <3>6 DEF AddsUp
    <3>8. QED
      BY <3>3, <3>7
  <2>2. \A i \in 0..n : f[i] = g[i]
    BY <2>1
  <2>3. DOMAIN g = 0..n /\ g = [i \in 0..n |-> g[i]] /\ f = [i \in 0..n |-> f[i]]
    BY <1>3, <1>5, <1>6 DEF AddsUp
  <2>4. QED
    BY <2>2, <2>3
<1>10. QED
  BY <1>3, <1>9 DEF n, f

(* Where two vectors differ at most in one entry, so do their sums.        *)
LEMMA SumsDiffer ==
  ASSUME NEW s \in Seq(Entry), NEW t \in Seq(Entry), NEW n \in Nat,
         n <= Len(s), n <= Len(t), NEW p \in 1..n,
         \A i \in 1..n : i # p => t[i] = s[i]
  PROVE  BytesUpTo(t)[n] + LiveSize(s[p]) = BytesUpTo(s)[n] + LiveSize(t[p])
<1> DEFINE f == BytesUpTo(s)
           g == BytesUpTo(t)
           Was == LiveSize(s[p])
           Is == LiveSize(t[p])
           Right(i) == IF i < p THEN g[i] = f[i] ELSE g[i] + Was = f[i] + Is
           Off == {i \in 0..n : ~Right(i)}
<1>1. /\ \A i \in 0..n : f[i] \in Nat /\ g[i] \in Nat
      /\ f[0] = 0 /\ g[0] = 0
      /\ \A i \in 0..(n - 1) : /\ f[i + 1] = f[i] + LiveSize(s[i + 1])
                               /\ g[i + 1] = g[i] + LiveSize(t[i + 1])
  <2>1. /\ f \in [0..Len(s) -> Nat] /\ f[0] = 0
        /\ \A i \in 0..(Len(s) - 1) : f[i + 1] = f[i] + LiveSize(s[i + 1])
    BY BytesAddUp DEF AddsUp
  <2>2. /\ g \in [0..Len(t) -> Nat] /\ g[0] = 0
        /\ \A i \in 0..(Len(t) - 1) : g[i + 1] = g[i] + LiveSize(t[i + 1])
    BY BytesAddUp DEF AddsUp
  <2> HIDE DEF f, g
  <2>3. /\ \A i \in 0..n : i \in 0..Len(s) /\ i \in 0..Len(t)
        /\ \A i \in 0..(n - 1) : i \in 0..(Len(s) - 1) /\ i \in 0..(Len(t) - 1)
    OBVIOUS
  <2>4. QED
    BY <2>1, <2>2, <2>3
<1>2. Was \in Nat /\ Is \in Nat /\ \A i \in 1..n : LiveSize(s[i]) \in Nat /\ LiveSize(t[i]) \in Nat
  <2>1. \A i \in 1..n : s[i] \in Entry /\ t[i] \in Entry
    OBVIOUS
  <2>2. QED
    BY <2>1, LiveSizeType
<1> HIDE DEF f, g, Right
<1>3. Off = {}
  <2>1. SUFFICES ASSUME Off # {} PROVE FALSE
    OBVIOUS
  <2>2. PICK m \in Off : \A q \in Off : m <= q
    <3>1. Off \in SUBSET Nat
      OBVIOUS
    <3>2. QED
      BY <2>1, <3>1, LeastNumber
  <2>3. m # 0
    BY <1>1, <2>2 DEF Right
  <2>4. PICK k \in 0..(n - 1) : m = k + 1 /\ k \in 0..n /\ k < m /\ k + 1 \in 1..n
    <3>1. m - 1 \in 0..(n - 1) /\ m = (m - 1) + 1 /\ m - 1 \in 0..n /\ m - 1 < m
      BY <2>2, <2>3
    <3>2. QED
      BY <3>1
  <2>5. IF k < p THEN g[k] = f[k] ELSE g[k] + Was = f[k] + Is
    <3>1. Right(k)
      BY <2>2, <2>4
    <3>2. QED
      BY <3>1 DEF Right
  <2>6. /\ f[m] = f[k] + LiveSize(s[m]) /\ g[m] = g[k] + LiveSize(t[m])
        /\ f[k] \in Nat /\ g[k] \in Nat
        /\ LiveSize(s[m]) \in Nat /\ LiveSize(t[m]) \in Nat
    BY <1>1, <1>2, <2>4
  <2>7. m # p => LiveSize(t[m]) = LiveSize(s[m])
    BY <2>4
  <2>8. m = p => LiveSize(s[m]) = Was /\ LiveSize(t[m]) = Is
    OBVIOUS
  <2> HIDE DEF Was, Is
  <2>9. IF m < p THEN g[m] = f[m] ELSE g[m] + Was = f[m] + Is
    <3>1. CASE m < p
      <4>1. k < p /\ m # p
        BY <2>4, <3>1
      <4>2. QED
        BY <2>5, <2>6, <2>7, <3>1, <4>1
    <3>2. CASE m = p
      <4>1. k < p
        BY <2>4, <3>2
      <4>2. g[k] = f[k] /\ f[m] = f[k] + Was /\ g[m] = g[k] + Is
        BY <2>5, <2>6, <2>8, <3>2, <4>1
      <4>3. g[m] + Was = f[m] + Is
        BY <1>2, <2>6, <4>2
      <4>4. QED
        BY <3>2, <4>3
    <3>3. CASE p < m
      <4>1. ~(k < p) /\ ~(m < p) /\ m # p
        BY <2>4, <3>3
      <4>2. g[k] + Was = f[k] + Is /\ LiveSize(t[m]) = LiveSize(s[m])
        BY <2>5, <2>7, <4>1
      <4>3. PICK x \in Nat : LiveSize(s[m]) = x
        BY <2>6
      <4>4. f[m] = f[k] + x /\ g[m] = g[k] + x /\ f[k] \in Nat /\ g[k] \in Nat
        BY <2>6, <4>2, <4>3
      <4>5. g[k] \in Nat /\ f[k] \in Nat /\ Was \in Nat /\ Is \in Nat /\ g[k] + Was = f[k] + Is
        BY <1>2, <4>2, <4>4
      <4>6. PICK a \in Nat, b \in Nat, c \in Nat, d \in Nat :
                a = g[k] /\ b = f[k] /\ c = Was /\ d = Is
        BY <4>5
      <4>7. a + c = b + d
        BY <4>5, <4>6
      <4>8. (a + x) + c = (b + x) + d
        BY <4>7
      <4>9. QED
        BY <4>1, <4>4, <4>6, <4>8
    <3>4. QED
      BY <2>4, <3>1, <3>2, <3>3
  <2>10. QED
    BY <2>2, <2>9 DEF Right
<1>4. ~(n < p) /\ n \in 0..n
  OBVIOUS
<1>5. g[n] + Was = f[n] + Is
  BY <1>3, <1>4 DEF Right
<1>6. QED
  BY <1>5 DEF f, g, Was, Is

LEMMA SumType ==
  ASSUME NEW s \in Seq(Entry)
  PROVE  BytesUpTo(s)[Len(s)] \in Nat
<1>1. Len(s) \in 0..Len(s)
  OBVIOUS
<1>2. QED
  BY <1>1, BytesAddUp DEF AddsUp

LEMMA EqualSums ==
  ASSUME NEW s \in Seq(Entry), NEW t \in Seq(Entry), Len(t) = Len(s), NEW p \in 1..Len(s),
         \A i \in 1..Len(s) : i # p => t[i] = s[i]
  PROVE  BytesUpTo(t)[Len(s)] + LiveSize(s[p]) = BytesUpTo(s)[Len(s)] + LiveSize(t[p])
<1>1. Len(s) \in Nat /\ Len(s) <= Len(s) /\ Len(s) <= Len(t)
  OBVIOUS
<1>2. QED
  BY <1>1, SumsDiffer

(* A new entry at the end adds its bytes to the sum of those before it.    *)
LEMMA SumGrows ==
  ASSUME NEW s \in Seq(Entry), NEW t \in Seq(Entry), Len(t) = Len(s) + 1,
         \A i \in 1..Len(s) : t[i] = s[i]
  PROVE  BytesUpTo(t)[Len(t)] = BytesUpTo(s)[Len(s)] + LiveSize(t[Len(t)])
<1> DEFINE n == Len(s)
<1>1. n \in Nat /\ n \in 0..(Len(t) - 1) /\ n + 1 = Len(t)
  OBVIOUS
<1>2. /\ BytesUpTo(t)[0] = 0 /\ BytesUpTo(s)[0] = 0
      /\ BytesUpTo(t)[n + 1] = BytesUpTo(t)[n] + LiveSize(t[n + 1])
      /\ BytesUpTo(t)[n] \in Nat /\ BytesUpTo(s)[n] \in Nat
  BY <1>1, BytesAddUp DEF AddsUp
<1>3. BytesUpTo(t)[n] = BytesUpTo(s)[n]
  <2>1. CASE n = 0
    BY <1>2, <2>1
  <2>2. CASE n # 0
    <3>1. n \in 1..n /\ n <= Len(s) /\ n <= Len(t)
      BY <1>1, <2>2
    <3>2. BytesUpTo(t)[n] + LiveSize(s[n]) = BytesUpTo(s)[n] + LiveSize(t[n])
      BY <1>1, <3>1, SumsDiffer
    <3>3. t[n] = s[n] /\ s[n] \in Entry
      BY <3>1
    <3>4. LiveSize(s[n]) \in Nat
      BY <3>3, LiveSizeType
    <3>5. QED
      BY <1>2, <3>2, <3>3, <3>4
  <2>3. QED
    BY <2>1, <2>2
<1>4. QED
  BY <1>1, <1>2, <1>3

LEMMA SumOfFree ==
  ASSUME NEW s \in Seq(Entry), \A i \in 1..Len(s) : s[i].is_free
  PROVE  BytesUpTo(s)[Len(s)] = 0
<1> DEFINE f == BytesUpTo(s)
           Off == {i \in 0..Len(s) : f[i] # 0}
<1>1. f[0] = 0 /\ \A i \in 0..(Len(s) - 1) : f[i + 1] = f[i] + LiveSize(s[i + 1])
  BY BytesAddUp DEF AddsUp
<1>2. Len(s) \in Nat /\ \A i \in 1..Len(s) : LiveSize(s[i]) = 0
  BY DEF LiveSize
<1> HIDE DEF f
<1>3. Off = {}
  <2>1. SUFFICES ASSUME Off # {} PROVE FALSE
    OBVIOUS
  <2>2. PICK m \in Off : \A q \in Off : m <= q
    <3>1. Off \in SUBSET Nat
      BY <1>2
    <3>2. QED
      BY <2>1, <3>1, LeastNumber
  <2>3. m # 0
    BY <1>1, <2>2
  <2>4. PICK k \in 0..(Len(s) - 1) : m = k + 1 /\ k \in 0..Len(s) /\ k < m /\ k + 1 \in 1..Len(s)
    <3>1. m - 1 \in 0..(Len(s) - 1) /\ m = (m - 1) + 1 /\ m - 1 \in 0..Len(s) /\ m - 1 < m
      BY <1>2, <2>2, <2>3
    <3>2. QED
      BY <1>2, <3>1
  <2>5. f[k] = 0
    BY <1>2, <2>2, <2>4
  <2>6. f[m] = 0
    BY <1>1, <1>2, <2>4, <2>5
  <2>7. QED
    BY <2>2, <2>6
<1>4. QED
  BY <1>2, <1>3 DEF f

(* Counters that wrap around                                               *)

LEMMA ModQuotient ==
  ASSUME NEW x \in Int
  PROVE  \E q \in Int : x = q * CounterMod + Mod(x)
<1>1. x \div CounterMod \in Int /\ x = CounterMod * (x \div CounterMod) + (x % CounterMod)
  BY BoundAssumption
<1>2. PICK q \in Int : x = CounterMod * q + (x % CounterMod)
  BY <1>1
<1>3. CounterMod * q = q * CounterMod
  BY BoundAssumption
<1>4. QED
  BY <1>2, <1>3 DEF Mod

LEMMA ModUnique ==
  ASSUME NEW x \in Int, NEW q \in Int, NEW r \in U32, x = q * CounterMod + r
  PROVE  Mod(x) = r
<1>1. PICK p \in Int : x = p * CounterMod + Mod(x)
  BY ModQuotient
<1>2. Mod(x) \in Nat /\ Mod(x) < CounterMod /\ r \in Nat /\ r < CounterMod /\ CounterMod \in Nat
  BY ModType, BoundAssumption DEF U32
<1>3. ~(p > q)
  <2>1. SUFFICES ASSUME p > q PROVE FALSE
    OBVIOUS
  <2>2. p * CounterMod >= q * CounterMod + CounterMod
    BY <1>2, <2>1
  <2>3. p * CounterMod \in Int /\ q * CounterMod \in Int
    BY <1>2
  <2>4. QED
    BY <1>1, <1>2, <2>2, <2>3
<1>4. ~(q > p)
  <2>1. SUFFICES ASSUME q > p PROVE FALSE
    OBVIOUS
  <2>2. q * CounterMod >= p * CounterMod + CounterMod
    BY <1>2, <2>1
  <2>3. p * CounterMod \in Int /\ q * CounterMod \in Int
    BY <1>2
  <2>4. QED
    BY <1>1, <1>2, <2>2, <2>3
<1>5. p = q
  BY <1>3, <1>4
<1>6. PICK a \in Int : q * CounterMod = a
  BY <1>2
<1>7. x = a + r /\ x = a + Mod(x)
  BY <1>1, <1>5, <1>6
<1>8. PICK m \in Nat : Mod(x) = m
  BY <1>2
<1>9. m = r
  BY <1>2, <1>7, <1>8
<1>10. QED
  BY <1>8, <1>9

(* What a wrapped sum is off by does not show in what is wrapped again.    *)
LEMMA ModAgain ==
  ASSUME NEW x \in Int, NEW y \in Int, NEW z \in Int, Mod(z) - z = x - y \/ Mod(z) - z = y - x
  PROVE  Mod(x) = Mod(y)
<1>1. PICK q \in Int : z = q * CounterMod + Mod(z)
  BY ModQuotient
<1>2. PICK p \in Int : y = p * CounterMod + Mod(y)
  BY ModQuotient
<1>3. Mod(y) \in U32 /\ Mod(y) \in Int /\ Mod(z) \in Int /\ CounterMod \in Int
  BY ModType, BoundAssumption DEF U32
<1> DEFINE a == q * CounterMod
           b == p * CounterMod
<1>4. a \in Int /\ b \in Int /\ z = a + Mod(z) /\ y = b + Mod(y)
  BY <1>1, <1>2, <1>3
<1>5. (p + q) * CounterMod = b + a /\ (p - q) * CounterMod = b - a
  BY <1>3
<1>6. p + q \in Int /\ p - q \in Int
  OBVIOUS
<1> HIDE DEF a, b
<1>7. PICK m \in Int, n \in Int : Mod(y) = m /\ Mod(z) = n
  BY <1>3
<1>8. CASE Mod(z) - z = x - y
  <2>1. x = (b - a) + m
    BY <1>4, <1>7, <1>8
  <2>2. PICK k \in Int : k * CounterMod = b - a
    BY <1>5, <1>6
  <2>3. x = k * CounterMod + m /\ m \in U32
    BY <1>3, <1>7, <2>1, <2>2
  <2>4. QED
    BY <1>7, <2>3, ModUnique
<1>9. CASE Mod(z) - z = y - x
  <2>1. x = (b + a) + m
    BY <1>4, <1>7, <1>9
  <2>2. PICK k \in Int : k * CounterMod = b + a
    BY <1>5, <1>6
  <2>3. x = k * CounterMod + m /\ m \in U32
    BY <1>3, <1>7, <2>1, <2>2
  <2>4. QED
    BY <1>7, <2>3, ModUnique
<1>10. QED
  BY <1>8, <1>9

(* What is added to a counter and to what it counts does not show in their *)
(* difference.                                                             *)
LEMMA AddedToBoth ==
  ASSUME NEW a \in Int, NEW b \in Int, NEW l \in Int, NEW n \in Int
  PROVE  Mod(Mod(a + n) - b - (l + n)) = Mod(a - b - l)
<1>1. PICK m \in Int : m = Mod(a + n)
  BY ModType, BoundAssumption DEF U32
<1>2. m - (a + n) = (m - b - (l + n)) - (a - b - l)
  OBVIOUS
<1>3. QED
  BY <1>1, <1>2, ModAgain

LEMMA TakenFromBoth ==
  ASSUME NEW a \in Int, NEW b \in Int, NEW l \in Int, NEW n \in Int
  PROVE  Mod(a - Mod(b + n) - (l - n)) = Mod(a - b - l)
<1>1. PICK m \in Int : m = Mod(b + n)
  BY ModType, BoundAssumption DEF U32
<1>2. m - (b + n) = (a - b - l) - (a - m - (l - n))
  OBVIOUS
<1>3. QED
  BY <1>1, <1>2, ModAgain

LEMMA OneTaken ==
  ASSUME NEW a \in Int, NEW b \in Int, NEW l \in Int
  PROVE  Mod(a - Mod(b + 1) - (l - 1)) = Mod(a - b - l)
<1>1. PICK m \in Int : m = Mod(b + 1)
  BY ModType, BoundAssumption DEF U32
<1>2. m - (b + 1) = (a - b - l) - (a - m - (l - 1))
  OBVIOUS
<1>3. QED
  BY <1>1, <1>2, ModAgain

LEMMA NoneAdded ==
  ASSUME NEW a \in Int, NEW b \in Int, NEW l \in Int
  PROVE  Mod(Mod(a + 0) - b - l) = Mod(a - b - l)
<1>1. PICK m \in Int : m = Mod(a + 0)
  BY ModType, BoundAssumption DEF U32
<1>2. m - (a + 0) = (m - b - l) - (a - b - l)
  OBVIOUS
<1>3. QED
  BY <1>1, <1>2, ModAgain

(* What the two balances are taken of are integers.                        *)
LEMMA BalanceType ==
  ASSUME IInv
  PROVE  /\ counters.bytes_allocd \in Int /\ counters.bytes_freed \in Int
         /\ counters.alloc_calls \in Int /\ counters.free_calls \in Int
         /\ LiveBytes \in Int
         /\ IsFiniteSet(LiveEntries) /\ Cardinality(LiveEntries) \in Int
<1>1. counters \in Counters /\ in_use \in Seq(Entry)
  BY DEF IInv, TypeOK
<1>2. U32 \subseteq Int
  BY BoundAssumption DEF U32
<1>3. LiveBytes \in Int
  BY <1>1, BytesAddUp DEF LiveBytes, AddsUp
<1>4. Len(in_use) \in Nat
  BY <1>1
<1>5. IsFiniteSet(LiveEntries)
  <2>1. LiveEntries \in SUBSET (1..Len(in_use))
    BY DEF LiveEntries
  <2>2. IsFiniteSet(1..Len(in_use))
    BY <1>4, FS_Interval
  <2>3. QED
    BY <2>1, <2>2, FS_Subset
<1>6. Cardinality(LiveEntries) \in Int
  BY <1>5, FS_CardinalityType
<1>7. QED
  BY <1>1, <1>2, <1>3, <1>5, <1>6 DEF Counters

SameBalance == ByteBalance' = ByteBalance /\ CallBalance' = CallBalance

LEMMA AllocBalance ==
  ASSUME PositionsSuffice, IInv, NEW n \in Sizes, Alloc(n)
  PROVE  SameBalance
<1>1. n \in Nat
  BY SizesAssumption
<1>2. PICK a \in MallocResults : Register(a, n)
  BY DEF Alloc
<1>3. a \in Addrs \cup {NullAdr} /\ Len(in_use) - Len(freelist) < MaxLive
  BY DEF MallocResults, Available, Alloc
<1>4. /\ in_use' \in Seq(Entry)
      /\ Len(in_use') = IF freelist = <<>> THEN Len(in_use) + 1 ELSE Len(in_use)
      /\ NewPos + 1 \in 1..Len(in_use')
      /\ in_use'[NewPos + 1] = NewEntry(NewPos, a, n)
  BY <1>1, <1>2, <1>3, RegisterVector
<1>5. \A i \in 1..Len(in_use') :
         i # NewPos + 1 => i \in 1..Len(in_use) /\ in_use'[i] = in_use[i]
  BY <1>1, <1>2, <1>3, RegisterVector
<1>6. in_use \in Seq(Entry) /\ Len(in_use) \in Nat /\ NewPos \in Nat
  BY <1>3, RegisterPosition, BoundAssumption DEF IInv, TypeOK
<1>7. ~in_use'[NewPos + 1].is_free /\ LiveSize(in_use'[NewPos + 1]) = n
  BY <1>4 DEF NewEntry, LiveSize
<1>8. freelist = <<>> => NewPos + 1 = Len(in_use')
  BY <1>3, <1>4, RegisterPosition
<1>9. freelist # <<>> => NewPos + 1 \in 1..Len(in_use) /\ in_use[NewPos + 1].is_free
  BY <1>3, <1>6, RegisterPosition DEF FreePositions
<1>10. LiveBytes' = LiveBytes + n
  <2>1. CASE freelist = <<>>
    <3>1. \A i \in 1..Len(in_use) : in_use'[i] = in_use[i]
      BY <1>4, <1>5, <1>6, <1>8, <2>1
    <3>2. Len(in_use') = Len(in_use) + 1
      BY <1>4, <2>1
    <3>3. BytesUpTo(in_use')[Len(in_use')]
             = BytesUpTo(in_use)[Len(in_use)] + LiveSize(in_use'[Len(in_use')])
      BY <1>4, <1>6, <3>1, <3>2, SumGrows
    <3>4. QED
      BY <1>7, <1>8, <2>1, <3>3 DEF LiveBytes
  <2>2. CASE freelist # <<>>
    <3>1. Len(in_use') = Len(in_use)
      BY <1>4, <2>2
    <3>2. PICK p \in 1..Len(in_use) : p = NewPos + 1 /\ in_use[p].is_free
      BY <1>9, <2>2
    <3>3. \A i \in 1..Len(in_use) : i # p => in_use'[i] = in_use[i]
      BY <1>5, <3>1, <3>2
    <3>4. BytesUpTo(in_use')[Len(in_use)] + LiveSize(in_use[p])
            = BytesUpTo(in_use)[Len(in_use)] + LiveSize(in_use'[p])
      BY <1>4, <1>6, <3>1, <3>3, EqualSums
    <3>5. LiveSize(in_use[p]) = 0 /\ LiveSize(in_use'[p]) = n
      BY <1>7, <3>2 DEF LiveSize
    <3>6. BytesUpTo(in_use')[Len(in_use)] \in Nat
      BY <1>4, <3>1, SumType
    <3>7. QED
      BY <3>1, <3>4, <3>5, <3>6 DEF LiveBytes
  <2>3. QED
    BY <2>1, <2>2
<1>11. NewPos + 1 \notin LiveEntries
  BY <1>4, <1>6, <1>8, <1>9 DEF LiveEntries
<1>12. LiveEntries' = LiveEntries \cup {NewPos + 1}
  <2>1. ASSUME NEW i \in LiveEntries' PROVE i \in LiveEntries \cup {NewPos + 1}
    BY <1>5 DEF LiveEntries
  <2>2. ASSUME NEW i \in LiveEntries PROVE i \in LiveEntries'
    <3>1. i \in 1..Len(in_use) /\ ~in_use[i].is_free /\ i # NewPos + 1
      BY <1>11 DEF LiveEntries
    <3>2. i \in 1..Len(in_use')
      BY <1>4, <1>6, <3>1
    <3>3. QED
      BY <1>5, <3>1, <3>2 DEF LiveEntries
  <2>3. NewPos + 1 \in LiveEntries'
    BY <1>4, <1>7 DEF LiveEntries
  <2>4. QED
    BY <2>1, <2>2, <2>3
<1>13. Cardinality(LiveEntries') = Cardinality(LiveEntries) + 1
  BY <1>11, <1>12, BalanceType, FS_AddElement
<1>14. /\ counters'.alloc_calls = Mod(counters.alloc_calls + 1)
       /\ counters'.bytes_allocd = Mod(counters.bytes_allocd + n)
       /\ counters'.bytes_freed = counters.bytes_freed
       /\ counters'.free_calls = counters.free_calls
  <2>1. counters' = AllocCounted(counters, n) /\ counters \in Counters
    BY DEF Alloc, IInv, TypeOK
  <2>2. QED
    BY <2>1 DEF AllocCounted, Counters
<1>15. ByteBalance' = ByteBalance
  BY <1>1, <1>10, <1>14, BalanceType, AddedToBoth DEF ByteBalance
<1>16. CallBalance' = CallBalance
  BY <1>13, <1>14, BalanceType, AddedToBoth DEF CallBalance
<1>17. QED
  BY <1>15, <1>16 DEF SameBalance

LEMMA FreeBalance ==
  ASSUME IInv, NEW ptr, Resolves(ptr), FreeBlock(ptr)
  PROVE  SameBalance
<1> DEFINE p == ptr.pos + 1
<1>1. /\ p \in 1..Len(in_use)
      /\ in_use' \in Seq(Entry) /\ Len(in_use') = Len(in_use)
      /\ in_use'[p] = Released(in_use[p])
  BY FreeVector
<1>2. \A i \in 1..Len(in_use) : i # p => in_use'[i] = in_use[i]
  BY FreeVector
<1>3. in_use \in Seq(Entry) /\ in_use[p] \in Entry /\ ~in_use[p].is_free
  BY <1>1 DEF IInv, TypeOK, Resolves, Info
<1>4. in_use'[p].is_free
  BY <1>1, <1>3 DEF Released, Entry
<1>5. counters' = FreeCounted(counters, in_use[p])
  BY DEF FreeBlock, Info
<1> HIDE DEF p
<1>6. PICK n \in Nat : n = in_use[p].bytes_total
  BY <1>3 DEF Entry
<1>7. LiveSize(in_use[p]) = n /\ LiveSize(in_use'[p]) = 0
  BY <1>3, <1>4, <1>6 DEF LiveSize
<1>8. LiveBytes' = LiveBytes - n
  <2>1. BytesUpTo(in_use')[Len(in_use)] + LiveSize(in_use[p])
          = BytesUpTo(in_use)[Len(in_use)] + LiveSize(in_use'[p])
    BY <1>1, <1>2, <1>3, EqualSums
  <2>2. BytesUpTo(in_use)[Len(in_use)] \in Nat
    BY <1>3, SumType
  <2>3. BytesUpTo(in_use')[Len(in_use)] \in Nat
    BY <1>1, SumType
  <2>4. PICK x \in Nat, y \in Nat : /\ x = BytesUpTo(in_use)[Len(in_use)]
                                    /\ y = BytesUpTo(in_use')[Len(in_use)]
    BY <2>2, <2>3
  <2>5. y + n = x + 0
    BY <1>7, <2>1, <2>4
  <2>6. y = x - n
    BY <2>5
  <2>7. QED
    BY <1>1, <2>4, <2>6 DEF LiveBytes
<1>9. p \in LiveEntries
  BY <1>1, <1>3 DEF LiveEntries
<1>10. LiveEntries' = LiveEntries \ {p}
  BY <1>1, <1>2, <1>4 DEF LiveEntries
<1>11. Cardinality(LiveEntries') = Cardinality(LiveEntries) - 1
  BY <1>9, <1>10, BalanceType, FS_RemoveElement
<1>12. /\ counters'.free_calls = Mod(counters.free_calls + 1)
       /\ counters'.bytes_freed = Mod(counters.bytes_freed + n)
       /\ counters'.bytes_allocd = counters.bytes_allocd
       /\ counters'.alloc_calls = counters.alloc_calls
  <2>1. counters \in Counters
    BY DEF IInv, TypeOK
  <2>2. QED
    BY <1>5, <1>6, <2>1 DEF FreeCounted, Counters
<1>13. ByteBalance' = ByteBalance
  BY <1>8, <1>12, BalanceType, TakenFromBoth DEF ByteBalance
<1>14. CallBalance' = CallBalance
  <2>1. PICK a \in Int, b \in Int, l \in Int :
            /\ a = counters.alloc_calls /\ b = counters.free_calls
            /\ l = Cardinality(LiveEntries)
    BY BalanceType
  <2>2. Mod(a - Mod(b + 1) - (l - 1)) = Mod(a - b - l)
    BY OneTaken
  <2>3. QED
    BY <1>11, <1>12, <2>1, <2>2 DEF CallBalance
<1>15. QED
  BY <1>13, <1>14 DEF SameBalance

(* A block keeps its size when the C library moves it, and the old size is *)
(* what its holder had asked for.                                          *)
AskedIsTotal == \A h \in held : in_use[h.ptr.pos + 1].bytes_total = h.asked

LEMMA MovesBalance ==
  ASSUME IInv, AskedIsTotal, GrowOnly, NEW h \in held, NEW n \in Sizes, ReallocMoves(h, n)
  PROVE  SameBalance
<1> DEFINE p == h.ptr.pos + 1
<1>1. n \in Nat
  BY SizesAssumption
<1>2. PICK a \in Addrs : in_use' = [in_use EXCEPT ![h.ptr.pos + 1] = Moved(@, a, n)]
  BY HandleType DEF ReallocMoves, Available, DataPtr
<1>3. /\ in_use' \in Seq(Entry) /\ Len(in_use') = Len(in_use)
      /\ in_use'[p] = Moved(in_use[p], a, n)
      /\ \A i \in 1..Len(in_use) : i # p => in_use'[i] = in_use[i]
  BY <1>1, <1>2, MovesVector
<1>4. /\ p \in 1..Len(in_use) /\ in_use[p] \in Entry /\ ~in_use[p].is_free
      /\ in_use \in Seq(Entry)
  BY HandleType DEF IInv, TypeOK
<1>5. PICK o \in Nat : o = in_use[p].bytes_total
  BY <1>4 DEF Entry
<1>6. n >= o
  BY <1>5 DEF AskedIsTotal, ReallocMoves, CallsRealloc, MayRealloc
<1>7. in_use'[p].bytes_total = n /\ ~in_use'[p].is_free
  BY <1>1, <1>3, <1>4 DEF Moved, Entry
<1>8. counters' = [ReallocCounted(counters, in_use[p], n) EXCEPT !.realloc_calls = Mod(@ + 1)]
  BY DEF ReallocMoves, Info
<1> HIDE DEF p
<1>9. LiveSize(in_use[p]) = o /\ LiveSize(in_use'[p]) = n
  BY <1>4, <1>5, <1>7 DEF LiveSize
<1>10. LiveBytes' = LiveBytes + (n - o)
  <2>1. BytesUpTo(in_use')[Len(in_use)] + LiveSize(in_use[p])
          = BytesUpTo(in_use)[Len(in_use)] + LiveSize(in_use'[p])
    BY <1>3, <1>4, EqualSums
  <2>2. BytesUpTo(in_use)[Len(in_use)] \in Nat
    BY <1>4, SumType
  <2>3. BytesUpTo(in_use')[Len(in_use)] \in Nat
    BY <1>3, SumType
  <2>4. PICK x \in Nat, y \in Nat : /\ x = BytesUpTo(in_use)[Len(in_use)]
                                    /\ y = BytesUpTo(in_use')[Len(in_use)]
    BY <2>2, <2>3
  <2>5. y + o = x + n
    BY <1>9, <2>1, <2>4
  <2>6. y = x + (n - o)
    BY <1>1, <2>5
  <2>7. QED
    BY <1>3, <2>4, <2>6 DEF LiveBytes
<1>11. LiveEntries' = LiveEntries
  <2>1. \A i \in 1..Len(in_use) : in_use'[i].is_free <=> in_use[i].is_free
    BY <1>3, <1>4, <1>7
  <2>2. QED
    BY <1>3, <2>1 DEF LiveEntries
<1>12. /\ counters'.bytes_allocd = Mod(counters.bytes_allocd + (n - o))
       /\ counters'.bytes_freed = counters.bytes_freed
       /\ counters'.alloc_calls = counters.alloc_calls
       /\ counters'.free_calls = counters.free_calls
  <2>1. counters \in Counters
    BY DEF IInv, TypeOK
  <2>2. Span(o, n) = n - o
    BY <1>1, <1>6 DEF Span
  <2>3. QED
    BY <1>5, <1>8, <2>1, <2>2 DEF ReallocCounted, Counters
<1>13. ByteBalance' = ByteBalance
  <2>1. n - o \in Int
    BY <1>1
  <2>2. QED
    BY <1>10, <1>12, <2>1, BalanceType, AddedToBoth DEF ByteBalance
<1>14. CallBalance' = CallBalance
  BY <1>11, <1>12 DEF CallBalance
<1>15. QED
  BY <1>13, <1>14 DEF SameBalance

(* A realloc that moves nothing counts nothing: the block has the size.    *)
LEMMA StaysBalance ==
  ASSUME IInv, NEW h \in held, NEW n \in Nat, in_use[h.ptr.pos + 1].bytes_total = n,
         in_use' = in_use, counters' = ReallocCounted(counters, Info(h.ptr), n)
  PROVE  SameBalance
<1>1. Span(n, n) = 0
  BY DEF Span
<1>2. counters \in Counters
  BY DEF IInv, TypeOK
<1>3. /\ counters'.bytes_allocd = Mod(counters.bytes_allocd + 0)
      /\ counters'.bytes_freed = counters.bytes_freed
      /\ counters'.alloc_calls = counters.alloc_calls
      /\ counters'.free_calls = counters.free_calls
  BY <1>1, <1>2 DEF ReallocCounted, Counters, Info
<1>4. LiveBytes' = LiveBytes /\ LiveEntries' = LiveEntries
  BY DEF LiveBytes, LiveEntries
<1>5. ByteBalance' = ByteBalance
  <2>1. PICK a \in Int, b \in Int, l \in Int :
            a = counters.bytes_allocd /\ b = counters.bytes_freed /\ l = LiveBytes
    BY BalanceType
  <2>2. Mod(Mod(a + 0) - b - l) = Mod(a - b - l)
    BY NoneAdded
  <2>3. QED
    BY <1>3, <1>4, <2>1, <2>2 DEF ByteBalance
<1>6. CallBalance' = CallBalance
  BY <1>3, <1>4 DEF CallBalance
<1>7. QED
  BY <1>5, <1>6 DEF SameBalance

(* What a client asks of a realloc that does not move its block.           *)
LEMMA StaysSize ==
  ASSUME IInv, AskedIsTotal, GrowOnly, ~MayFail, NEW h \in held, NEW n \in Sizes,
         ReallocInPlace(h, n) \/ ReallocReturnsNull(h, n)
  PROVE  /\ n \in Nat /\ in_use[h.ptr.pos + 1].bytes_total = n
         /\ in_use' = in_use /\ held' = held
         /\ counters' = ReallocCounted(counters, Info(h.ptr), n)
<1>1. /\ n \in Nat /\ in_use[h.ptr.pos + 1].bytes_total = h.asked
      /\ in_use[h.ptr.pos + 1] \in Entry /\ h \in Handle
  BY SizesAssumption, HandleType DEF AskedIsTotal
<1>2. n >= h.asked /\ h.asked \in Nat
  BY <1>1 DEF ReallocInPlace, ReallocReturnsNull, CallsRealloc, MayRealloc, Handle
<1>3. n = h.asked
  <2>1. CASE ReallocInPlace(h, n)
    <3>1. h.asked >= n
      BY <1>1, <2>1 DEF ReallocInPlace, Fits, Info
    <3>2. QED
      BY <1>1, <1>2, <3>1
  <2>2. CASE ReallocReturnsNull(h, n)
    <3>1. n = 0
      BY <2>2 DEF ReallocReturnsNull
    <3>2. QED
      BY <1>2, <3>1
  <2>3. QED
    BY <2>1, <2>2
<1>4. /\ in_use' = in_use
      /\ counters' = ReallocCounted(counters, Info(h.ptr), n)
      /\ held' = (held \ {h}) \cup {[ptr |-> h.ptr, asked |-> n]}
  BY DEF ReallocInPlace, ReallocReturnsNull, poolVars, Replace
<1>5. [ptr |-> h.ptr, asked |-> n] = h
  BY <1>1, <1>3 DEF Handle
<1>6. QED
  BY <1>1, <1>3, <1>4, <1>5

LEMMA BalanceNext ==
  ASSUME PositionsSuffice, GrowOnly, ~MayFail, IInv, AskedIsTotal, [Next]_vars
  PROVE  /\ AskedIsTotal'
         /\ SameBalance \/ UNCHANGED <<in_use, freelist, heap, held>>
<1>0. SizesFollow => AskedIsTotal'
  BY DEF AskedIsTotal, SizesFollow
<1>1. CASE \E n \in Sizes : Alloc(n)
  BY <1>0, <1>1, AllocSizes, AllocBalance
<1>2. CASE \E n \in Sizes : \E h \in held :
              ReallocInPlace(h, n) \/ ReallocMoves(h, n) \/ ReallocReturnsNull(h, n)
  <2>1. PICK n \in Sizes, h \in held :
              ReallocInPlace(h, n) \/ ReallocMoves(h, n) \/ ReallocReturnsNull(h, n)
    BY <1>2
  <2>2. CASE ReallocMoves(h, n)
    BY <1>0, <2>2, MovesSizes, MovesBalance
  <2>3. CASE ReallocInPlace(h, n) \/ ReallocReturnsNull(h, n)
    <3>1. /\ n \in Nat /\ in_use[h.ptr.pos + 1].bytes_total = n
          /\ in_use' = in_use /\ held' = held
          /\ counters' = ReallocCounted(counters, Info(h.ptr), n)
      BY <2>3, StaysSize
    <3>2. SameBalance
      BY <3>1, StaysBalance
    <3>3. AskedIsTotal'
      BY <3>1 DEF AskedIsTotal
    <3>4. QED
      BY <3>2, <3>3
  <2>4. QED
    BY <2>1, <2>2, <2>3
<1>3. CASE \E h \in held : Free(h)
  <2>1. PICK h \in held : FreeBlock(h.ptr)
    BY <1>3 DEF Free
  <2>2. Resolves(h.ptr)
    BY HandleType DEF Resolves, IInv, HandleResolves
  <2>3. QED
    BY <1>0, <2>1, <2>2, FreeSizes, FreeBalance
<1>4. CASE FreeNext
  <2>1. CASE in_use[walk].is_free
    BY <1>4, <2>1 DEF FreeNext, AskedIsTotal
  <2>2. CASE ~in_use[walk].is_free
    <3>1. FreeBlock(in_use[walk].ptr)
      BY <1>4, <2>2 DEF FreeNext
    <3>2. Resolves(in_use[walk].ptr)
      BY <1>4, <2>2, WalkResolves
    <3>3. QED
      BY <1>0, <3>1, <3>2, FreeSizes, FreeBalance
  <2>3. QED
    BY <2>1, <2>2
<1>5. CASE EndWalk
  <2>1. walk = Len(in_use) + 1 /\ held' = held /\ heap' = heap /\ counters' = counters
    BY <1>5 DEF EndWalk
  <2>2. CASE dropping
    <3>1. in_use \in Seq(Entry) /\ \A i \in 1..Len(in_use) : in_use[i].is_free
      BY <2>1 DEF IInv, WalkedFree, TypeOK
    <3>2. \A h \in held : FALSE
      BY <3>1, NoHandlesWhenEmpty
    <3>3. AskedIsTotal'
      BY <2>1, <3>2 DEF AskedIsTotal
    <3>4. in_use' = <<>> /\ in_use' \in Seq(Entry) /\ \A i \in 1..Len(in_use') : FALSE
      BY <1>5, <2>2 DEF EndWalk
    <3>5. LiveEntries = {} /\ LiveEntries' = {}
      BY <3>1, <3>4 DEF LiveEntries
    <3>6. LiveBytes = 0
      BY <3>1, SumOfFree DEF LiveBytes
    <3>7. BytesUpTo(in_use')[Len(in_use')] = 0
      BY <3>4, SumOfFree
    <3>8. LiveBytes' = 0
      BY <3>7 DEF LiveBytes
    <3>9. SameBalance
      BY <2>1, <3>5, <3>6, <3>8 DEF SameBalance, ByteBalance, CallBalance
    <3>10. QED
      BY <3>3, <3>9
  <2>3. CASE ~dropping
    BY <1>5, <2>1, <2>3 DEF EndWalk, AskedIsTotal
  <2>4. QED
    BY <2>2, <2>3
<1>6. CASE Create \/ FreeAll \/ ResetCounters \/ UNCHANGED vars
  <2>1. UNCHANGED <<in_use, freelist, heap, held>>
    BY <1>6 DEF Create, IInv, Phase, FreeAll, ResetCounters, poolVars, vars
  <2>2. QED
    BY <2>1 DEF AskedIsTotal
<1>7. QED
  BY <1>1, <1>2, <1>3, <1>4, <1>5, <1>6 DEF Next

(* The counters account for every live block and every live byte, across   *)
(* moves, reuse of positions and wrap-around, as long as no client shrinks *)
(* a block and the C library has memory: no step that touches the entries, *)
(* the blocks or the data pointers changes the difference.                 *)
THEOREM PoolBalance ==
  ASSUME PositionsSuffice, GrowOnly, ~MayFail
  PROVE  Spec => BalanceKept
<1>1. Init => AskedIsTotal
  BY DEF Init, AskedIsTotal
<1>2. IInv /\ AskedIsTotal /\ [Next]_vars =>
         /\ AskedIsTotal'
         /\ SameBalance \/ UNCHANGED <<in_use, freelist, heap, held>>
  BY BalanceNext
<1>3. QED
  BY <1>1, <1>2, PoolInvariant, PTL DEF Spec, BalanceKept, SameBalance

-----------------------------------------------------------------------------
(* The memory file *)

(* A file that holds values of V; its users may keep more with it.  A block *)
(* of one cell is left out, for it does not grow.                          *)
IsFile(f, V) == /\ {"block", "pos", "last"} \subseteq DOMAIN f
                /\ f.block \in Seq(V)
                /\ Len(f.block) >= 2
                /\ f.pos \in Nat
                /\ f.last \in Nat

(* The cells of f are those of g, but for n of them from a position on.    *)
SameBut(f, g, at, n) ==
    /\ Len(f.block) >= Len(g.block)
    /\ \A i \in 1..Len(g.block) : i \notin (at + 1)..(at + n) => f.block[i] = g.block[i]

(* What becomes of f when cells are written: g. *)
Wrote(g, f, cells, V) ==
    /\ IsFile(g, V)
    /\ g.pos = f.pos + Len(cells)
    /\ SameBut(g, f, f.pos, Len(cells))
    /\ cells # <<>> => f.pos + Len(cells) < Len(g.block)
    /\ \A i \in 1..Len(cells) : g.block[f.pos + i] = cells[i]

-----------------------------------------------------------------------------
(* What is new in a block that grows is not set, what was there stays.     *)
LEMMA ResizedGrows ==
    ASSUME NEW V, Unset \in V, NEW f, IsFile(f, V), NEW size \in Nat, size >= Len(f.block)
    PROVE  /\ IsFile(Resized(f, size), V)
           /\ Resized(f, size).pos = f.pos
           /\ Resized(f, size).last = f.last
           /\ Len(Resized(f, size).block) = size
           /\ SameBut(Resized(f, size), f, 0, 0)
  <1> DEFINE blank == [i \in 1..size |-> Unset]
             all == f.block \o blank
             new == SubSeq(all, 1, size)
             n == Len(f.block)
  <1>1. n \in Nat /\ n >= 2 /\ f.block \in Seq(V)
    BY DEF IsFile
  <1>2. blank \in Seq(V) /\ Len(blank) = size
    OBVIOUS
  <1>3. /\ all \in Seq(V)
        /\ Len(all) = n + size
        /\ \A i \in 1..n : all[i] = f.block[i]
    BY <1>1, <1>2
  <1>4. /\ new \in Seq(V)
        /\ Len(new) = size
        /\ \A i \in 1..size : new[i] = all[i]
    <2>1. \A i \in 1..size : all[i] \in V
      BY <1>1, <1>3
    <2> HIDE DEF all
    <2>2. /\ new \in Seq(V)
          /\ Len(new) = IF 1 <= size THEN size - 1 + 1 ELSE 0
          /\ \A i \in 1..(size - 1 + 1) : new[i] = all[1 + i - 1]
      BY <2>1, SubSeqProperties
    <2> QED
      BY <1>1, <2>2
  <1> HIDE DEF new, all, blank
  <1>5. Resized(f, size) = [f EXCEPT !.block = new]
    BY DEF Resized, new, all, blank
  <1> QED
    BY <1>1, <1>3, <1>4, <1>5 DEF IsFile, SameBut

(* memfile_write and memfile_skip: the block has room behind the position  *)
(* that is required.                                                       *)
LEMMA RoomIsThere ==
    ASSUME NEW V, Unset \in V, NEW f, IsFile(f, V), NEW required \in Nat
    PROVE  /\ IsFile(Room(f, required), V)
           /\ Room(f, required).pos = f.pos
           /\ Room(f, required).last = f.last
           /\ required < Len(Room(f, required).block)
           /\ SameBut(Room(f, required), f, 0, 0)
  <1>1. Len(f.block) \in Nat /\ Len(f.block) >= 2
    BY DEF IsFile
  <1>2. CASE required >= Len(f.block)
    <2> DEFINE size == (17 * required) \div 10
    <2>1. size \in Nat /\ size > required /\ size >= Len(f.block)
      BY <1>1, <1>2
    <2> HIDE DEF size
    <2>2. Room(f, required) = Resized(f, size)
      BY <1>2 DEF Room, size
    <2>3. /\ IsFile(Resized(f, size), V)
          /\ Resized(f, size).pos = f.pos
          /\ Resized(f, size).last = f.last
          /\ Len(Resized(f, size).block) = size
          /\ SameBut(Resized(f, size), f, 0, 0)
      BY <2>1, ResizedGrows
    <2> QED
      BY <2>1, <2>2, <2>3
  <1>3. CASE ~(required >= Len(f.block))
    BY <1>1, <1>3 DEF Room, SameBut
  <1> QED
    BY <1>2, <1>3

(* memcpy into a block. *)
LEMMA OverwrittenCells ==
    ASSUME NEW V, NEW block \in Seq(V), NEW pos \in Nat, NEW cells \in Seq(V),
           pos + Len(cells) < Len(block)
    PROVE  LET new == Overwritten(block, pos, cells) IN
           /\ new \in Seq(V)
           /\ Len(new) = Len(block)
           /\ \A i \in 1..Len(block) :
                new[i] = IF i \in (pos + 1)..(pos + Len(cells)) THEN cells[i - pos] ELSE block[i]
  <1> DEFINE n == Len(cells)
             m == Len(block)
             front == SubSeq(block, 1, pos)
             rest == SubSeq(block, pos + n + 1, m)
  <1>1. n \in Nat /\ m \in Nat /\ pos + n < m
    OBVIOUS
  <1>2. \A i \in 1..m : block[i] \in V
    OBVIOUS
  <1>3. front \in Seq(V) /\ Len(front) = pos /\ \A i \in 1..pos : front[i] = block[i]
    <2>1. \A i \in 1..pos : block[i] \in V
      BY <1>1, <1>2
    <2>2. /\ front \in Seq(V)
          /\ Len(front) = IF 1 <= pos THEN pos - 1 + 1 ELSE 0
          /\ \A i \in 1..(pos - 1 + 1) : front[i] = block[1 + i - 1]
      BY <2>1, SubSeqProperties
    <2> HIDE DEF front
    <2> QED
      BY <2>2
  <1>4. rest \in Seq(V) /\ Len(rest) = m - (pos + n) /\ \A i \in 1..(m - (pos + n)) : rest[i] = block[pos + n + i]
    <2>1. \A i \in (pos + n + 1)..m : block[i] \in V
      BY <1>1, <1>2
    <2>2. pos + n + 1 \in Int /\ m \in Int
      BY <1>1
    <2> DEFINE k == pos + n + 1
    <2> HIDE DEF k
    <2>3. /\ SubSeq(block, k, m) \in Seq(V)
          /\ Len(SubSeq(block, k, m)) = IF k <= m THEN m - k + 1 ELSE 0
          /\ \A i \in 1..(m - k + 1) : SubSeq(block, k, m)[i] = block[k + i - 1]
      <3>1. k \in Int /\ m \in Int /\ \A i \in k..m : block[i] \in V
        BY <2>1, <2>2 DEF k
      <3> QED
        BY <3>1, SubSeqProperties
    <2>4. rest = SubSeq(block, k, m)
      BY DEF k
    <2> HIDE DEF rest
    <2>5. k = pos + n + 1
      BY DEF k
    <2> HIDE DEF n, m
    <2> QED
      BY <1>1, <2>3, <2>4, <2>5
  <1> HIDE DEF front, rest
  <1>5. Overwritten(block, pos, cells) = (front \o cells) \o rest
    BY DEF Overwritten, front, rest
  <1>6. /\ front \o cells \in Seq(V)
        /\ Len(front \o cells) = pos + n
        /\ \A i \in 1..pos : (front \o cells)[i] = block[i]
        /\ \A i \in (pos + 1)..(pos + n) : (front \o cells)[i] = cells[i - pos]
    BY <1>1, <1>3
  <1> DEFINE begin == front \o cells
  <1> HIDE DEF begin
  <1>7. /\ begin \in Seq(V)
        /\ Len(begin) = pos + n
        /\ \A i \in 1..pos : begin[i] = block[i]
        /\ \A i \in (pos + 1)..(pos + n) : begin[i] = cells[i - pos]
    BY <1>6 DEF begin
  <1>8. /\ begin \o rest \in Seq(V)
        /\ Len(begin \o rest) = m
        /\ \A i \in 1..(pos + n) : (begin \o rest)[i] = begin[i]
        /\ \A i \in (pos + n + 1)..m : (begin \o rest)[i] = block[i]
    <2> HIDE DEF n, m
    <2>1. \A i \in (pos + n + 1)..m : (begin \o rest)[i] = rest[i - (pos + n)] /\ i - (pos + n) \in 1..(m - (pos + n))
      <3> SUFFICES ASSUME NEW i \in (pos + n + 1)..m
                   PROVE  (begin \o rest)[i] = rest[i - (pos + n)] /\ i - (pos + n) \in 1..(m - (pos + n))
        OBVIOUS
      <3>1. i \in Nat /\ i - (pos + n) \in 1..(m - (pos + n))
        BY <1>1
      <3>2. \A j \in 1..Len(begin) + Len(rest) :
               (begin \o rest)[j] = IF j <= Len(begin) THEN begin[j] ELSE rest[j - Len(begin)]
        BY <1>4, <1>7, ConcatProperties
      <3>3. i \in 1..Len(begin) + Len(rest) /\ ~(i <= Len(begin)) /\ Len(begin) = pos + n
        BY <1>1, <1>4, <1>7
      <3> QED
        BY <3>1, <3>2, <3>3
    <2>2. \A i \in (pos + n + 1)..m : rest[i - (pos + n)] = block[i]
      BY <1>1, <1>4, <2>1
    <2>3. begin \o rest \in Seq(V) /\ Len(begin \o rest) = (pos + n) + (m - (pos + n))
      <3>1. begin \in Seq(V) /\ rest \in Seq(V)
        BY <1>4, <1>7
      <3>2. begin \o rest \in Seq(V) /\ Len(begin \o rest) = Len(begin) + Len(rest)
        BY <3>1, ConcatProperties
      <3> QED
        BY <1>4, <1>7, <3>2
    <2>4. \A i \in 1..(pos + n) : (begin \o rest)[i] = begin[i]
      BY <1>1, <1>4, <1>7
    <2>5. (pos + n) + (m - (pos + n)) = m
      BY <1>1
    <2> QED
      BY <2>1, <2>2, <2>3, <2>4, <2>5
  <1> QED
    BY <1>1, <1>5, <1>7, <1>8 DEF begin

-----------------------------------------------------------------------------
(* A write puts its cells at the position, moves behind them and leaves    *)
(* every other cell as it was; it is never refused (file.c:138-161,        *)
(* block.c:93-104).                                                        *)
THEOREM WriteExact ==
    ASSUME NEW V, Unset \in V, NEW f, IsFile(f, V), NEW cells \in Seq(V)
    PROVE  Wrote(Write(f, cells), f, cells, V)
  <1> DEFINE n == Len(cells)
             r == Room(f, f.pos + n)
             new == Overwritten(r.block, f.pos, cells)
  <1>1. n \in Nat /\ f.pos \in Nat /\ f.pos + n \in Nat
    BY DEF IsFile
  <1>2. /\ IsFile(r, V)
        /\ r.pos = f.pos
        /\ r.last = f.last
        /\ f.pos + n < Len(r.block)
        /\ SameBut(r, f, 0, 0)
    BY <1>1, RoomIsThere
  <1> HIDE DEF r
  <1>3. CASE n = 0
    <2>1. Write(f, cells) = f /\ cells = <<>>
      BY <1>3 DEF Write
    <2> QED
      BY <1>3, <2>1 DEF SameBut, IsFile, Wrote
  <1>4. CASE n # 0
    <2>1. /\ new \in Seq(V)
          /\ Len(new) = Len(r.block)
          /\ \A i \in 1..Len(r.block) :
               new[i] = IF i \in (f.pos + 1)..(f.pos + n) THEN cells[i - f.pos] ELSE r.block[i]
      BY <1>1, <1>2, OverwrittenCells DEF IsFile
    <2> HIDE DEF new
    <2> DEFINE last == IF f.pos + n > r.last THEN f.pos + n ELSE r.last
    <2>2. Write(f, cells) = [r EXCEPT !.block = new, !.pos = f.pos + n, !.last = last]
      BY <1>2, <1>4 DEF Write, Stores, new, r
    <2>3. last \in Nat
      BY <1>1, <1>2 DEF IsFile
    <2> HIDE DEF last
    <2> DEFINE g == Write(f, cells)
    <2>4. /\ {"block", "pos", "last"} \subseteq DOMAIN g
          /\ g.block = new /\ g.pos = f.pos + n /\ g.last = last
      BY <1>2, <2>2 DEF IsFile
    <2> HIDE DEF g
    <2>5. IsFile(g, V)
      BY <1>1, <1>2, <2>1, <2>3, <2>4 DEF IsFile
    <2>6. SameBut(g, f, f.pos, n)
      BY <1>1, <1>2, <2>1, <2>4 DEF SameBut, IsFile
    <2>7. ASSUME NEW i \in 1..n PROVE g.block[f.pos + i] = cells[i]
      <3>1. Len(r.block) \in Nat
        BY <1>2 DEF IsFile
      <3> DEFINE k == f.pos + i
      <3>2. k \in 1..Len(r.block) /\ k \in (f.pos + 1)..(f.pos + n) /\ k - f.pos = i
        BY <1>1, <1>2, <3>1
      <3> HIDE DEF k
      <3>3. new[k] = cells[k - f.pos]
        BY <2>1, <3>2
      <3> QED
        BY <2>4, <3>2, <3>3 DEF k
    <2> QED
      BY <1>2, <2>1, <2>4, <2>5, <2>6, <2>7 DEF g, Wrote
  <1> QED
    BY <1>3, <1>4

(* A position that is sought changes no cell (file.c:34-50).               *)
LEMMA SeekKeeps ==
    ASSUME NEW V, Unset \in V, NEW f, IsFile(f, V), NEW pos \in Nat
    PROVE  LET g == Seek(f, pos) IN
           /\ IsFile(g, V)
           /\ g.pos = pos
           /\ pos < Len(g.block)
           /\ SameBut(g, f, 0, 0)
  <1>1. Len(f.block) \in Nat
    BY DEF IsFile
  <1>2. CASE pos >= Len(f.block)
    <2> DEFINE h == Resized(f, pos + 1)
    <2> DEFINE size == pos + 1
    <2>3. size \in Nat /\ size >= Len(f.block)
      BY <1>1, <1>2
    <2> HIDE DEF size
    <2>1. /\ IsFile(Resized(f, size), V)
          /\ Len(Resized(f, size).block) = size
          /\ SameBut(Resized(f, size), f, 0, 0)
      BY <2>3, ResizedGrows
    <2>4. h = Resized(f, size) /\ size = pos + 1
      BY DEF size
    <2>2. Seek(f, pos) = [h EXCEPT !.pos = pos]
      BY <1>2 DEF Seek
    <2> HIDE DEF h
    <2> QED
      BY <2>1, <2>2, <2>4 DEF IsFile, SameBut
  <1>3. CASE ~(pos >= Len(f.block))
    <2>1. Seek(f, pos) = [f EXCEPT !.pos = pos]
      BY <1>3 DEF Seek
    <2> QED
      BY <1>1, <1>3, <2>1 DEF IsFile, SameBut
  <1> QED
    BY <1>2, <1>3

(* A slot that was skipped is filled without touching any other cell, and  *)
(* writing goes on where it was (archive.c:983-989).                       *)
THEOREM PatchExact ==
    ASSUME NEW V, Unset \in V, NEW f, IsFile(f, V), NEW slot \in Nat, NEW cell \in V
    PROVE  LET g == Patch(f, slot, cell) IN
           /\ IsFile(g, V)
           /\ g.pos = f.pos
           /\ g.block[slot + 1] = cell
           /\ SameBut(g, f, slot, 1)
  <1> DEFINE a == Seek(f, slot)
             one == <<cell>>
             b == Write(a, one)
             c == Seek(b, f.pos)
  <1>1. one \in Seq(V) /\ Len(one) = 1 /\ one[1] = cell /\ one # <<>>
    OBVIOUS
  <1> HIDE DEF one
  <1>2. IsFile(a, V) /\ a.pos = slot /\ SameBut(a, f, 0, 0)
    BY SeekKeeps
  <1> HIDE DEF a
  <1>3. /\ IsFile(b, V)
        /\ SameBut(b, a, slot, 1)
        /\ slot + 1 < Len(b.block)
        /\ b.block[slot + 1] = cell
    <2> HIDE DEF b
    <2>3. one \in Seq(V) /\ IsFile(a, V)
      BY <1>1, <1>2
    <2>4. Wrote(Write(a, one), a, one, V)
      BY <2>3, WriteExact
    <2>5. b = Write(a, one)
      BY DEF b
    <2>1. /\ IsFile(b, V)
          /\ SameBut(b, a, a.pos, Len(one))
          /\ one # <<>> => a.pos + Len(one) < Len(b.block)
          /\ \A i \in 1..Len(one) : b.block[a.pos + i] = one[i]
      BY <2>4, <2>5 DEF Wrote
    <2>2. 1 \in 1..Len(one)
      BY <1>1
    <2> QED
      BY <1>1, <1>2, <2>1, <2>2
  <1> HIDE DEF b
  <1>4. f.pos \in Nat
    BY DEF IsFile
  <1>5. IsFile(c, V) /\ c.pos = f.pos /\ SameBut(c, b, 0, 0)
    BY <1>3, <1>4, SeekKeeps
  <1> HIDE DEF c
  <1>6. Patch(f, slot, cell) = c
    BY DEF Patch, a, b, c, one
  <1>7. Len(a.block) \in Nat /\ Len(b.block) \in Nat /\ Len(c.block) \in Nat /\ Len(f.block) \in Nat
    BY <1>2, <1>3, <1>5 DEF IsFile
  <1>8. c.block[slot + 1] = cell
    BY <1>3, <1>5, <1>7 DEF SameBut
  <1>9. SameBut(c, f, slot, 1)
    BY <1>2, <1>3, <1>5, <1>7 DEF SameBut
  <1> QED
    BY <1>5, <1>6, <1>8, <1>9
=============================================================================
