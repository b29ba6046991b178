------------------------------ MODULE SpinLock ------------------------------
(***************************************************************************)
(* The spin lock of src/core/async/spin.c, used by every shared structure  *)
(* of the library.  The lock is an atomic flag and the identity of the     *)
(* thread that acquired it.  A thread that finds its own identity in the   *)
(* owner field skips the acquisition, so a call that holds the lock may    *)
(* call another one that takes it; nothing counts how often that happened, *)
(* and the first release clears the flag.                                  *)
(*                                                                         *)
(* A client call takes the lock `depth' times before it does its work and  *)
(* releases it as often afterwards: depth 1 is pool_alloc or the insert of *)
(* the dictionaries, depth 2 is pool_drop around pool_free_all and         *)
(* locate_fast around locate_safe.  Every access to the shared fields is a *)
(* step of its own.                                                        *)
(***************************************************************************)
EXTENDS Integers, FiniteSets

CONSTANTS Threads,   \* the threads that share the lock
          NoThread,  \* the zeroed owner field
          Depths     \* how often a client call takes the lock

ASSUME NoThreadAssumption == NoThread \notin Threads
ASSUME DepthsAssumption   == Depths \subseteq Nat \ {0}

VARIABLES flag,   \* atomic_flag lock: TRUE when set
          owner,  \* pthread_t owner
          pc,     \* where each thread is inside a call
          depth,  \* how often the current call of a thread takes the lock
          level   \* acquisitions of the current call not yet released

vars == <<flag, owner, pc, depth, level>>

-----------------------------------------------------------------------------
(* spin_init *)

Init == /\ flag = FALSE
        /\ owner = NoThread
        /\ pc = [t \in Threads |-> "idle"]
        /\ depth = [t \in Threads |-> 0]
        /\ level = [t \in Threads |-> 0]

(* A client call starts. *)
Call(t) == /\ pc[t] = "idle"
           /\ \E d \in Depths : depth' = [depth EXCEPT ![t] = d]
           /\ pc' = [pc EXCEPT ![t] = "check"]
           /\ UNCHANGED <<flag, owner, level>>

-----------------------------------------------------------------------------
(* spin_acquire *)

(* The acquisition returns: the call takes the lock again, or it works. *)
Acquired(t) == /\ level' = [level EXCEPT ![t] = @ + 1]
               /\ pc' = [pc EXCEPT ![t] = IF level[t] + 1 < depth[t]
                                          THEN "check" ELSE "work"]

(* if (!pthread_equal(spinlock->owner, pthread_self())) *)
CheckOwner(t) == /\ pc[t] = "check"
                 /\ IF owner = t
                    THEN Acquired(t)
                    ELSE pc' = [pc EXCEPT ![t] = "spin"] /\ UNCHANGED level
                 /\ UNCHANGED <<flag, owner, depth>>

(* while (atomic_flag_test_and_set(&spinlock->lock)) *)
(* Mutation: the flag is set whether or not it was clear.                  *)
TestAndSetNotAtomic(t) == /\ pc[t] = "spin"
                          /\ flag' = TRUE
                          /\ pc' = [pc EXCEPT ![t] = "own"]
                          /\ UNCHANGED <<owner, depth, level>>

TestAndSet(t) == /\ pc[t] = "spin"
                 /\ ~flag
                 /\ flag' = TRUE
                 /\ pc' = [pc EXCEPT ![t] = "own"]
                 /\ UNCHANGED <<owner, depth, level>>

(* spinlock->owner = pthread_self() *)
SetOwner(t) == /\ pc[t] = "own"
               /\ owner' = t
               /\ Acquired(t)
               /\ UNCHANGED <<flag, depth>>

-----------------------------------------------------------------------------
(* spin_release *)

(* The critical section between an acquisition and a release ends. *)
EndWork(t) == /\ pc[t] = "work"
              /\ pc' = [pc EXCEPT ![t] = "clear"]
              /\ UNCHANGED <<flag, owner, depth, level>>

(* atomic_flag_clear(&spinlock->lock) *)
(* Mutation: the flag is not cleared.                                      *)
ClearFlagLost(t) == /\ pc[t] = "clear"
                    /\ pc' = [pc EXCEPT ![t] = "disown"]
                    /\ level' = [level EXCEPT ![t] = @ - 1]
                    /\ UNCHANGED <<flag, owner, depth>>

ClearFlag(t) == /\ pc[t] = "clear"
                /\ flag' = FALSE
                /\ pc' = [pc EXCEPT ![t] = "disown"]
                /\ level' = [level EXCEPT ![t] = @ - 1]
                /\ UNCHANGED <<owner, depth>>

(* memset(&spinlock->owner, 0, sizeof(pthread_t)), after the flag: another *)
(* thread may own the lock by now.  An outer section goes on.              *)
(* Mutation: the owner is not wiped.                                       *)
ClearOwnerForgotten(t) ==
    /\ pc[t] = "disown"
    /\ pc' = [pc EXCEPT ![t] = IF level[t] > 0 THEN "work" ELSE "idle"]
    /\ UNCHANGED <<flag, owner, depth, level>>

ClearOwner(t) ==
    /\ pc[t] = "disown"
    /\ owner' = NoThread
    /\ pc' = [pc EXCEPT ![t] = IF level[t] > 0 THEN "work" ELSE "idle"]
    /\ UNCHANGED <<flag, depth, level>>

-----------------------------------------------------------------------------

Step(t) == \/ Call(t)
           \/ CheckOwner(t)
           \/ TestAndSet(t)
           \/ SetOwner(t)
           \/ EndWork(t)
           \/ ClearFlag(t)
           \/ ClearOwner(t)

Next == \E t \in Threads : Step(t)

Spec == Init /\ [][Next]_vars

(* Every thread inside a call keeps running; no thread has to call.        *)
Proceed(t) == \/ CheckOwner(t) \/ TestAndSet(t) \/ SetOwner(t)
              \/ EndWork(t) \/ ClearFlag(t) \/ ClearOwner(t)

FairSpec == Spec /\ \A t \in Threads : WF_vars(Proceed(t))

-----------------------------------------------------------------------------
(* Properties *)

Locations == {"idle", "check", "spin", "own", "work", "clear", "disown"}

(* Every variable has its type. *)
TypeOK == /\ flag \in BOOLEAN
          /\ owner \in Threads \cup {NoThread}
          /\ pc \in [Threads -> Locations]
          /\ depth \in [Threads -> Nat]
          /\ level \in [Threads -> Nat]

(* The thread that set the flag and has not cleared it yet. *)
Holding(t) == pc[t] \in {"own", "work", "clear"}

(* No two threads are in the innermost section of a call, where it touches *)
(* the shared structure, at the same time: what every user of spin_acquire *)
(* and spin_release in the library relies on.                              *)
MutualExclusion ==
    \A s, t \in Threads :
        pc[s] = "work" /\ level[s] = depth[s] /\ pc[t] = "work" /\ level[t] = depth[t]
        => s = t

(* While the owner field names a thread, that thread is between taking the *)
(* lock and the last statement of its release: a stale owner would let its *)
(* next spin_acquire walk into a section that someone else holds.          *)
OwnerIsHolder ==
    \A t \in Threads : owner = t => pc[t] \in {"work", "clear", "disown"}

(* As long as some thread spins, some thread gets to work again: the       *)
(* threads never wait on one another forever (no thread in particular is   *)
(* promised the lock).                                                     *)
Progress == (\E t \in Threads : pc[t] = "spin") ~> (\E t \in Threads : pc[t] = "work")

(* With calls that take the lock once, the flag and the owner field behave *)
(* as one mutual-exclusion lock: spin_acquire and spin_release each have   *)
(* one step at which the lock changes hands.                               *)
Abstract == INSTANCE Mutex
            WITH holder <- IF \E t \in Threads : Holding(t)
                           THEN CHOOSE t \in Threads : Holding(t)
                           ELSE NoThread

ImplementsMutex == Abstract!Spec
=============================================================================
