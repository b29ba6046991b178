--------------------------- MODULE SpinLockProofs ---------------------------
(***************************************************************************)
(* The spin lock for any number of threads.  Clients that take the lock    *)
(* once per call get a mutual-exclusion lock, however the steps of         *)
(* spin_acquire and spin_release interleave; the runs on SpinLock show     *)
(* that clients that nest calls do not.                                    *)
(***************************************************************************)
EXTENDS SpinLock, TLAPS

(* The inductive invariant of flat clients.  The flag tells exactly whether *)
(* some thread holds the lock, no two do, the owner field never names a    *)
(* thread that is about to compare itself with it, and a call counts one   *)
(* acquisition while it is in its section.                                 *)
FlagSet   == flag = TRUE <=> \E t \in Threads : Holding(t)
OneHolder == \A s, t \in Threads : Holding(s) /\ Holding(t) => s = t
FlatCalls == \A t \in Threads : /\ pc[t] # "idle" => depth[t] = 1
                                /\ level[t] = IF pc[t] \in {"work", "clear"} THEN 1 ELSE 0

IInv == TypeOK /\ FlagSet /\ OneHolder /\ OwnerIsHolder /\ FlatCalls

(* Every variable of the lock keeps its type and the flat invariant is     *)
(* inductive, for every set of threads.                                    *)
LEMMA InvariantInit == ASSUME Depths = {1} PROVE Init => IInv
<1> SUFFICES ASSUME Init PROVE IInv
  OBVIOUS
<1>1. TypeOK
  BY DEF Init, TypeOK, Locations
<1>2. \A t \in Threads : pc[t] = "idle" /\ level[t] = 0 /\ ~Holding(t)
  BY DEF Init, Holding
<1>3. flag # TRUE /\ owner \notin Threads
  BY NoThreadAssumption DEF Init
<1>4. QED
  BY <1>1, <1>2, <1>3 DEF IInv, FlagSet, OneHolder, OwnerIsHolder, FlatCalls

LEMMA InvariantNext ==
  ASSUME Depths = {1}
  PROVE  IInv /\ [Next]_vars => IInv'
<1> SUFFICES ASSUME IInv, [Next]_vars PROVE IInv'
  OBVIOUS
<1> USE NoThreadAssumption
    DEF IInv, TypeOK, Locations, FlagSet, OneHolder, OwnerIsHolder, FlatCalls, Holding
<1>1. ASSUME NEW t \in Threads, Call(t) PROVE IInv'
  BY <1>1 DEF Call
<1>2. ASSUME NEW t \in Threads, CheckOwner(t) PROVE IInv'
  BY <1>2 DEF CheckOwner
<1>3. ASSUME NEW t \in Threads, TestAndSet(t) PROVE IInv'
  BY <1>3 DEF TestAndSet
<1>4. ASSUME NEW t \in Threads, SetOwner(t) PROVE IInv'
  BY <1>4 DEF SetOwner, Acquired
<1>5. ASSUME NEW t \in Threads, EndWork(t) PROVE IInv'
  BY <1>5 DEF EndWork
<1>6. ASSUME NEW t \in Threads, ClearFlag(t) PROVE IInv'
  <2>1. Holding(t) /\ level[t] = 1
    BY <1>6 DEF ClearFlag
  <2>2. level' = [level EXCEPT ![t] = 0]
    BY <1>6, <2>1 DEF ClearFlag
  <2>6. TypeOK'
    <3>1. level' \in [Threads -> Nat]
      BY <2>2
    <3>2. pc' \in [Threads -> Locations]
      BY <1>6 DEF ClearFlag
    <3>3. depth' = depth /\ owner' = owner /\ flag' = FALSE
      BY <1>6 DEF ClearFlag
    <3>4. QED
      BY <3>1, <3>2, <3>3
  <2>7. OwnerIsHolder'
    BY <1>6 DEF ClearFlag
  <2>3. ASSUME NEW s \in Threads PROVE ~Holding(s)'
    <3>1. CASE s = t
      BY <1>6, <3>1 DEF ClearFlag
    <3>2. CASE s # t
      <4>1. ~Holding(s)
        BY <2>1, <3>2
      <4>2. QED
        BY <1>6, <3>2, <4>1 DEF ClearFlag
    <3>3. QED
      BY <3>1, <3>2
  <2>4. FlagSet' /\ OneHolder'
    BY <1>6, <2>3 DEF ClearFlag
  <2>5. FlatCalls'
    BY <1>6, <2>1 DEF ClearFlag
  <2>8. QED
    BY <2>4, <2>5, <2>6, <2>7
<1>7. ASSUME NEW t \in Threads, ClearOwner(t) PROVE IInv'
  BY <1>7 DEF ClearOwner
<1>8. CASE UNCHANGED vars
  BY <1>8 DEF vars
<1>9. QED
  BY <1>1, <1>2, <1>3, <1>4, <1>5, <1>6, <1>7, <1>8 DEF Next, Step

THEOREM FlatInvariant == ASSUME Depths = {1} PROVE Spec => []IInv
<1>1. Init => IInv
  BY InvariantInit
<1>2. IInv /\ [Next]_vars => IInv'
  BY InvariantNext
<1>3. QED
  BY <1>1, <1>2, PTL DEF Spec

(* Every variable of the lock keeps its type.                              *)
THEOREM FlatType == ASSUME Depths = {1} PROVE Spec => []TypeOK
<1>1. IInv => TypeOK
  BY DEF IInv
<1>2. QED
  BY <1>1, FlatInvariant, PTL

(* Threads whose calls take the lock once never work in the shared         *)
(* structure at the same time.                                             *)
THEOREM FlatMutualExclusion == ASSUME Depths = {1} PROVE Spec => []MutualExclusion
<1>1. IInv => MutualExclusion
  BY DEF IInv, OneHolder, Holding, MutualExclusion
<1>2. QED
  BY <1>1, FlatInvariant, PTL

(* The owner field of a flat client's lock never outlives its release.     *)
THEOREM FlatOwner == ASSUME Depths = {1} PROVE Spec => []OwnerIsHolder
<1>1. IInv => OwnerIsHolder
  BY DEF IInv
<1>2. QED
  BY <1>1, FlatInvariant, PTL

-----------------------------------------------------------------------------
(* The refinement: TestAndSet is the abstract Lock, ClearFlag the abstract *)
(* Unlock, every other step of a flat client leaves the holder alone.      *)

Holder == IF \E t \in Threads : Holding(t)
          THEN CHOOSE t \in Threads : Holding(t)
          ELSE NoThread

LEMMA HolderOf ==
  ASSUME OneHolder, NEW t \in Threads, Holding(t)
  PROVE  Holder = t
  BY DEF OneHolder, Holder

LEMMA HolderNone ==
  ASSUME \A t \in Threads : ~Holding(t)
  PROVE  Holder = NoThread
  BY DEF Holder

LEMMA StepRefines ==
  ASSUME Depths = {1}, IInv, IInv', [Next]_vars
  PROVE  \/ \E t \in Threads : \/ Holder = NoThread /\ Holder' = t
                               \/ Holder = t /\ Holder' = NoThread
         \/ Holder' = Holder
<1> USE DEF IInv, TypeOK
<1>1. ASSUME NEW t \in Threads, TestAndSet(t)
      PROVE  Holder = NoThread /\ Holder' = t
  <2>1. Holder = NoThread
    BY <1>1, HolderNone DEF TestAndSet, FlagSet
  <2>2. Holding(t)'
    BY <1>1 DEF TestAndSet, Holding
  <2>3. Holder' = t
    BY <2>2 DEF OneHolder, Holder
  <2>4. QED
    BY <2>1, <2>3
<1>2. ASSUME NEW t \in Threads, ClearFlag(t)
      PROVE  Holder = t /\ Holder' = NoThread
  <2>1. Holder = t
    BY <1>2, HolderOf DEF ClearFlag, Holding
  <2>2. \A s \in Threads : ~Holding(s)'
    BY <1>2 DEF ClearFlag, FlagSet
  <2>3. QED
    BY <2>1, <2>2 DEF Holder
<1>3. ASSUME \A t \in Threads : Holding(t)' = Holding(t)
      PROVE  Holder' = Holder
  <2>1. CASE \E t \in Threads : Holding(t)
    <3>1. PICK t \in Threads : Holding(t)
      BY <2>1
    <3>2. Holder = t
      BY <3>1, HolderOf
    <3>3. Holder' = t
      BY <1>3, <3>1 DEF OneHolder, Holder
    <3>4. QED
      BY <3>2, <3>3
  <2>2. CASE \A t \in Threads : ~Holding(t)
    BY <1>3, <2>2 DEF Holder
  <2>3. QED
    BY <2>1, <2>2
<1>4. ASSUME NEW t \in Threads,
             Call(t) \/ CheckOwner(t) \/ SetOwner(t) \/ EndWork(t) \/ ClearOwner(t)
      PROVE  \A s \in Threads : Holding(s)' = Holding(s)
  <2>1. depth[t] = 1 \/ pc[t] = "idle"
    BY DEF FlatCalls
  <2>2. ~CheckOwner(t) \/ owner # t
    BY DEF CheckOwner, OwnerIsHolder
  <2>3. level[t] = 0 \/ ~ClearOwner(t)
    BY DEF ClearOwner, FlatCalls
  <2>4. level[t] = 0 \/ ~SetOwner(t)
    BY DEF SetOwner, FlatCalls
  <2>5. QED
    BY <1>4, <2>1, <2>2, <2>3, <2>4
    DEF Holding, Call, CheckOwner, SetOwner, Acquired, EndWork, ClearOwner, Locations
<1>5. CASE UNCHANGED vars
  <2>1. \A t \in Threads : Holding(t)' = Holding(t)
    BY <1>5 DEF vars, Holding
  <2>2. QED
    BY <1>3, <2>1
<1>6. QED
  BY <1>1, <1>2, <1>3, <1>4, <1>5 DEF Next, Step

(* Flat clients of spin.c use a lock that implements the abstract mutual   *)
(* exclusion lock.                                                         *)
THEOREM FlatRefinesMutex == ASSUME Depths = {1} PROVE Spec => ImplementsMutex
<1>1. Init => Abstract!Init
  BY DEF Init, Abstract!Init, Holding
<1>2. IInv /\ IInv' /\ [Next]_vars => [Abstract!Next]_(Holder)
  BY StepRefines DEF Abstract!Next, Abstract!Lock, Abstract!Unlock, Holder
<1>3. QED
  BY <1>1, <1>2, FlatInvariant, PTL DEF Spec, ImplementsMutex, Abstract!Spec, Holder
=============================================================================
