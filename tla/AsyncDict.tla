------------------------------ MODULE AsyncDict ------------------------------
(***************************************************************************)
(* The parallel string dictionary of src/core/encode/encode_async.c.       *)
(*                                                                         *)
(* A hash of a string names the carrier that owns it; each carrier has a   *)
(* dictionary of its own (encode_sync.c, module SyncDict, of which only    *)
(* what module Dictionary promises is used here).  A call takes the lock,  *)
(* splits its batch by carrier, starts one thread per carrier, joins them, *)
(* puts their answers together in the order of the batch and releases the  *)
(* lock.  The thread of a carrier is remembered in the carrier, not in the *)
(* call.                                                                   *)
(***************************************************************************)
EXTENDS Naturals, SequencesExt

CONSTANTS Clients,      \* the threads that use the dictionary
          Nobody,       \* no thread
          NumCarriers,  \* num_threads of encode_async_create
          Strings,      \* the strings; no key is NULL (it would be hashed)
          CarrierOf,    \* HASHCODE_OF(string) % num_threads
          Null,         \* the text of NULL
          NoId,         \* (field_sid_t) -1
          ThreadLimit,  \* carriers an identifier can tell apart: 2^10
          LocalLimit,   \* identifiers of a carrier it can tell apart: 2^54
          MaxBatch,     \* strings in a call at most
          Leftovers,    \* values of a size_t on the stack nobody wrote
          NestedCalls   \* locate_fast, which locks twice, has concurrent calls

Carriers == 0..NumCarriers - 1

(* "TECHNICAL LIMIT: 1024 threads" (encode_async.c:454).  With 1024, the    *)
(* last identifier of the last carrier would be (field_sid_t) -1: no       *)
(* memory holds the 2^54 strings that lead there.                          *)
ASSUME AsyncAssumption == /\ NumCarriers \in 1..ThreadLimit /\ MaxBatch \in Nat
                          /\ CarrierOf \in [Strings -> Carriers]
                          /\ ThreadLimit \in Nat /\ LocalLimit \in Nat \ {0}
                          /\ NoId \notin 0..NumCarriers * LocalLimit - 1
                          /\ Nobody \notin Clients
                          /\ NestedCalls \in BOOLEAN

VARIABLES users,    \* the clients that there are
          lock,     \* the client that has the lock, or Nobody
          pc,       \* where each client is
          req,      \* the call of each client
          next,     \* the carrier its loop over the carriers is at
          work,     \* the threads of the call, one per carrier
          out,      \* what each of these threads found
          thread,   \* carrier->thread: whose call it belongs to
          local,    \* the dictionary of each carrier
          answers,  \* history: pairs <<string, identifier>> told to clients
          count,    \* num_not_found of the last call: <<told, true>>
          dead      \* the process was stopped by a call

vars == <<users, lock, pc, req, next, work, out, thread, local, answers, count, dead>>
callVars == <<req, next, work, out>>

LocalIds == 0..LocalLimit - 1

Ids == 0..ThreadLimit * LocalLimit - 1

Batches(S) == UNION {[1..n -> S] : n \in 1..MaxBatch}

NoCall == [op |-> "none"]

NoWork   == [t \in Carriers |-> "none"]
NoOutput == [t \in Carriers |-> <<>>]

Init == /\ users \in SUBSET Clients \ {{}}
        /\ lock = Nobody
        /\ pc = [c \in Clients |-> "idle"]
        /\ req = [c \in Clients |-> NoCall]
        /\ next = [c \in Clients |-> 0]
        /\ work = [c \in Clients |-> NoWork]
        /\ out = [c \in Clients |-> NoOutput]
        /\ thread = [t \in Carriers |-> Nobody]
        /\ local = [t \in Carriers |-> [s \in Strings |-> NoId]]
        /\ answers = {}
        /\ count = <<0, 0>>
        /\ dead = FALSE

-----------------------------------------------------------------------------
(* Identifiers *)

Word == ThreadLimit * LocalLimit

MakeGlobal(t, l) == IF l = NoId THEN NoId ELSE ((t * LocalLimit) % Word) + l
GetOwner(id)     == id \div LocalLimit
GetLocal(id)     == id % LocalLimit

-----------------------------------------------------------------------------
(* The split of a batch *)

OwnerOf(c, x) == IF req[c].op = "extract" THEN GetOwner(x) ELSE CarrierOf[x]

Owner(c, i) == OwnerOf(c, req[c].batch[i])

Places(c, t) == {i \in DOMAIN req[c].batch : Owner(c, i) = t}

(* str_carrier_idx_mapping: the place of a string in its carrier's part,   *)
(* behind those that went there before it.                                 *)
LocalIndex(c, i) == Cardinality({j \in 1..i : Owner(c, j) = Owner(c, i)})

(* The part of the batch that goes to carrier t.                           *)
Part(c, t) == [n \in 1..Cardinality(Places(c, t)) |->
                  req[c].batch[CHOOSE i \in Places(c, t) : LocalIndex(c, i) = n]]

-----------------------------------------------------------------------------
(* A client's call *)

(* this_lock, where the client waited if need be.  The second this_lock of *)
(* locate_fast returns at once: the client owns the lock already.          *)
Call(c, r) == /\ ~dead /\ pc[c] = "idle" /\ lock = Nobody
              /\ lock' = c
              /\ pc' = [pc EXCEPT ![c] = "spawn"]
              /\ req' = [req EXCEPT ![c] = r]
              /\ UNCHANGED <<users, next, work, out, thread, local, answers, count, dead>>

CallInsert(c)  == \E b \in Batches(Strings) : Call(c, [op |-> "insert", batch |-> b])
CallLocate(c)  == \E b \in Batches(Strings) : Call(c, [op |-> "locate", batch |-> b])
CallFast(c)    == /\ NestedCalls \/ users = {c}
                  /\ \E b \in Batches(Strings) : Call(c, [op |-> "locate_fast", batch |-> b])
CallExtract(c) == \E b \in Batches({a[2] : a \in answers}) :
                      Call(c, [op |-> "extract", batch |-> b])

(* Mutation: the loop does not end.                                        *)
AdvanceStuck(c, after) ==
    IF next[c] = NumCarriers - 1
    THEN UNCHANGED <<next, pc>>
    ELSE next' = [next EXCEPT ![c] = @ + 1] /\ UNCHANGED pc

(* The step of a loop over the carriers, which goes on to pc `after'.      *)
Advance(c, after) ==
    IF next[c] = NumCarriers - 1
    THEN next' = [next EXCEPT ![c] = 0] /\ pc' = [pc EXCEPT ![c] = after]
    ELSE next' = [next EXCEPT ![c] = @ + 1] /\ UNCHANGED pc

(* pthread_create for the next carrier.                                    *)
Spawn(c) == /\ ~dead /\ pc[c] = "spawn"
            /\ thread' = [thread EXCEPT ![next[c]] = c]
            /\ work' = [work EXCEPT ![c][next[c]] = "running"]
            /\ Advance(c, "join")
            /\ UNCHANGED <<users, lock, req, out, local, answers, count, dead>>

(* Mutation: the join does not wait.                                       *)
ExitedAlways(t) == TRUE

(* The thread the carrier remembers has ended.                             *)
Exited(t) == work[thread[t]][t] # "running"

(* synchronize: pthread_join of the next carrier's thread.                 *)
Join(c) == /\ ~dead /\ pc[c] = "join" /\ Exited(next[c])
           /\ Advance(c, "collect")
           /\ UNCHANGED <<users, lock, req, work, out, thread, local, answers, count, dead>>

-----------------------------------------------------------------------------
(* The threads of a call.  A dictionary of a carrier is used under its own *)
(* lock, so each of them acts at once.                                     *)

Finish(c, t, result) == /\ out' = [out EXCEPT ![c][t] = result]
                        /\ work' = [work EXCEPT ![c][t] = "done"]
                        /\ UNCHANGED <<users, lock, pc, req, next, thread, answers, count, dead>>

LocalIdsOf(t) == {local[t][s] : s \in Strings} \ {NoId}

NewStrings(c, t) == {s \in ToSet(Part(c, t)) : local[t][s] = NoId}

InsertWork(c, t) ==
    /\ req[c].op = "insert"
    /\ \E new \in Injection(NewStrings(c, t), LocalIds \ LocalIdsOf(t)) :
           LET known == [s \in Strings |-> IF s \in DOMAIN new THEN new[s] ELSE local[t][s]]
           IN  /\ local' = [local EXCEPT ![t] = known]
               /\ Finish(c, t, [n \in DOMAIN Part(c, t) |-> known[Part(c, t)[n]]])

LocateWork(c, t) ==
    /\ req[c].op \in {"locate", "locate_fast"}
    /\ Finish(c, t, [n \in DOMAIN Part(c, t) |-> local[t][Part(c, t)[n]]])
    /\ UNCHANGED local

(* The local extract takes identifier 0 for NULL (encode_sync.c:425).      *)
StringOf(t, l) == IF l = 0 THEN Null ELSE CHOOSE s \in Strings : local[t][s] = l

ExtractWork(c, t) ==
    /\ req[c].op = "extract"
    /\ Finish(c, t, [n \in DOMAIN Part(c, t) |-> StringOf(t, GetLocal(Part(c, t)[n]))])
    /\ UNCHANGED local

Work(c, t) == /\ ~dead /\ work[c][t] = "running"
              /\ InsertWork(c, t) \/ LocateWork(c, t) \/ ExtractWork(c, t)

-----------------------------------------------------------------------------
(* The answer *)

(* Mutation: the place is taken after all the strings are distributed.     *)
ResultOfLast(c, i) == out[c][Owner(c, i)][Len(Part(c, Owner(c, i)))]

Result(c, i) == out[c][Owner(c, i)][LocalIndex(c, i)]

GlobalId(c, i) == MakeGlobal(Owner(c, i), Result(c, i))

Told(c) ==
    LET B == DOMAIN req[c].batch
    IN  IF req[c].op = "extract"
        THEN {<<Result(c, i), req[c].batch[i]>> : i \in {j \in B : Result(c, j) # Null}}
        ELSE {<<req[c].batch[i], GlobalId(c, i)>> : i \in {j \in B : GlobalId(c, j) # NoId}}

NotFound(c) == {i \in DOMAIN req[c].batch : Result(c, i) = NoId}

Idle(c) == {t \in Carriers : Part(c, t) = <<>>}

(* num_not_found_out of a carrier without strings is never written.        *)
TellCount(c) ==
    IF req[c].op = "locate"
    THEN \E junk \in [Idle(c) -> Leftovers] :
             count' = <<Cardinality(NotFound(c)) + SumFunction(junk), Cardinality(NotFound(c))>>
    ELSE count' = <<0, 0>>

(* The results are put together and the lock is released.                  *)
Collect(c) == /\ ~dead /\ pc[c] = "collect"
              /\ answers' = answers \cup Told(c)
              /\ TellCount(c)
              /\ lock' = Nobody
              /\ pc' = [pc EXCEPT ![c] = IF req[c].op = "locate_fast" THEN "outer" ELSE "idle"]
              /\ req' = [req EXCEPT ![c] = NoCall]
              /\ work' = [work EXCEPT ![c] = NoWork]
              /\ out' = [out EXCEPT ![c] = NoOutput]
              /\ UNCHANGED <<users, next, thread, local, dead>>

(* The second this_unlock of locate_fast.                                  *)
Outer(c) == /\ ~dead /\ pc[c] = "outer"
            /\ lock' = Nobody
            /\ pc' = [pc EXCEPT ![c] = "idle"]
            /\ UNCHANGED <<users, callVars, thread, local, answers, count, dead>>

(* this_remove: the carriers' dictionaries stop the process (SyncDict).    *)
RemoveIds(c) == /\ ~dead /\ pc[c] = "idle" /\ lock = Nobody
             /\ answers # {}
             /\ dead' = TRUE
             /\ UNCHANGED <<users, lock, pc, callVars, thread, local, answers, count>>

Dead == dead /\ UNCHANGED vars

Proceed(c) == Spawn(c) \/ Join(c) \/ Collect(c) \/ Outer(c)

Next == \/ \E c \in users : \/ CallInsert(c) \/ CallLocate(c) \/ CallFast(c)
                              \/ CallExtract(c) \/ RemoveIds(c)
                              \/ Proceed(c)
                              \/ \E t \in Carriers : Work(c, t)
        \/ Dead

Spec == Init /\ [][Next]_vars

(* Threads that are not waiting for the lock run on.                       *)
FairSpec == /\ Spec
            /\ \A c \in Clients : /\ WF_vars(Proceed(c))
                                  /\ \A t \in Carriers : WF_vars(Work(c, t))

-----------------------------------------------------------------------------
(* Properties *)

(* A call puts its answer together only from threads that have ended: what *)
(* it joined, through the carriers, is what it started.                    *)
CollectsOwnWork ==
    \A c \in Clients : pc[c] = "collect" => \A t \in Carriers : work[c][t] = "done"

(* A call that has the lock returns, unless the process dies.              *)
HoldersReturn == \A c \in Clients : pc[c] = "spawn" ~> pc[c] = "idle" \/ dead

(* The number of keys not found (encode_async.c:660 "compute total number  *)
(* of not-found elements") is the number of keys not found.                *)
CountIsExact == count[1] = count[2]

GlobalIdOf(s) == MakeGlobal(CarrierOf[s], local[CarrierOf[s]][s])

(* All carriers together keep the promise of one dictionary: one string,   *)
(* one identifier, answers in the order of the questions.                  *)
Promise == INSTANCE Dictionary WITH id_of <- [s \in Strings |-> GlobalIdOf(s)]

ImplementsDictionary == Promise!Spec
=============================================================================
