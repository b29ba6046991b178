---------------------------- MODULE AsyncDictProofs ----------------------------
(***************************************************************************)
(* The parallel dictionary, for every number of clients and carriers,      *)
(* every assignment of strings to carriers and every size of batches: a    *)
(* call that has the lock merges only what its own threads have finished,  *)
(* and all carriers together implement Dictionary.                         *)
(***************************************************************************)
EXTENDS AsyncDict, FiniteSetTheorems, TLAPS

(* The client is between this_lock and this_unlock. *)
Busy(c) == pc[c] \in {"spawn", "join", "collect"}

(* The lock excludes: who is busy has it, and the one who runs locate_fast, *)
(* whose two unlocks open it twice, has nobody beside it.                  *)
Locked ==
    /\ users \subseteq Clients
    /\ pc \in [Clients -> {"idle", "spawn", "join", "collect", "outer"}]
    /\ DOMAIN req = Clients
    /\ \A c \in Clients : pc[c] # "idle" => c \in users
    /\ \A c \in Clients : Busy(c) => lock = c
    /\ \A c \in Clients : pc[c] = "outer" \/ (Busy(c) /\ req[c].op = "locate_fast")
                              => users = {c}

(* What the loop of a client over the carriers has started and joined.     *)
Staffed(c) ==
    /\ ~Busy(c) => next[c] = 0 /\ work[c] = NoWork
    /\ pc[c] = "spawn" => \A t \in Carriers :
           IF t < next[c] THEN work[c][t] # "none" /\ thread[t] = c ELSE work[c][t] = "none"
    /\ pc[c] = "join" => \A t \in Carriers :
           work[c][t] # "none" /\ thread[t] = c /\ (t < next[c] => work[c][t] = "done")
    /\ pc[c] = "collect" => next[c] = 0 /\ \A t \in Carriers : work[c][t] = "done"

Threads ==
    /\ next \in [Clients -> Carriers]
    /\ work \in [Clients -> [Carriers -> {"none", "running", "done"}]]
    /\ DOMAIN thread = Carriers
    /\ \A c \in Clients : Staffed(c)

(* The string has an identifier. *)
Known(s) == local[CarrierOf[s]][s] # NoId

(* The carriers keep the strings they own apart, and what callers were     *)
(* told is what they have.                                                 *)
Stored ==
    /\ local \in [Carriers -> [Strings -> LocalIds \cup {NoId}]]
    /\ \A t \in Carriers : \A s \in Strings : local[t][s] # NoId => CarrierOf[s] = t
    /\ \A t \in Carriers : \A s, u \in Strings :
           local[t][s] = local[t][u] /\ local[t][s] # NoId => s = u
    /\ \A a \in answers : \E s \in Strings : Known(s) /\ a = <<s, GlobalIdOf(s)>>

(* A call is one of four, for strings or for identifiers told before.      *)
Asking(c) ==
    Busy(c) => /\ req[c].op \in {"insert", "locate", "locate_fast", "extract"}
               /\ Len(req[c].batch) \in Nat
               /\ DOMAIN req[c].batch = 1..Len(req[c].batch)
               /\ \A i \in DOMAIN req[c].batch :
                      IF req[c].op = "extract"
                      THEN \E s \in Strings : Known(s) /\ req[c].batch[i] = GlobalIdOf(s)
                      ELSE req[c].batch[i] \in Strings

(* What a carrier that has these identifiers may answer to x with y.       *)
Right(op, ids, x, y) ==
    IF op = "extract"
    THEN y # Null => y \in Strings /\ ids[y] # NoId /\ ids[y] = GetLocal(x)
    ELSE y # NoId => ids[x] = y

(* A thread that is done has answered its part of the batch, each string   *)
(* where the call looks for it.                                            *)
Replied(c) ==
    Busy(c) => \A i \in DOMAIN req[c].batch :
                   work[c][Owner(c, i)] = "done" =>
                       Right(req[c].op, local[Owner(c, i)], req[c].batch[i], Result(c, i))

Consistent == /\ Stored
              /\ DOMAIN out = Clients /\ \A c \in Clients : DOMAIN out[c] = Carriers
              /\ \A c \in Clients : Asking(c) /\ Replied(c)

-----------------------------------------------------------------------------
(* The lock and the threads *)

LEMMA ZeroIsCarrier ==
    /\ 0 \in Carriers
    /\ \A t \in Carriers : /\ t \in Nat /\ t < NumCarriers
                           /\ t # NumCarriers - 1 => t + 1 \in Carriers
  BY AsyncAssumption DEF Carriers

LEMMA InitLocked == Init => Locked /\ Threads
  BY ZeroIsCarrier DEF Init, Locked, Threads, Staffed, Busy, NoWork, NoCall

(* this_lock keeps all others out. *)
LEMMA CallLocked ==
    ASSUME Locked, Threads, NEW c \in users, NEW r, Call(c, r),
           r.op = "locate_fast" => users = {c}
    PROVE  Locked' /\ Threads'
  <1>1. /\ lock = Nobody /\ lock' = c /\ pc[c] = "idle"
        /\ pc' = [pc EXCEPT ![c] = "spawn"]
        /\ req' = [req EXCEPT ![c] = r]
        /\ UNCHANGED <<users, next, work, thread>>
    BY DEF Call
  <1>2. c \in Clients /\ \A d \in Clients : ~Busy(d) /\ d # Nobody
    BY <1>1, AsyncAssumption DEF Locked
  <1>3. Locked'
    BY <1>1, <1>2 DEF Locked, Busy
  <1>4. ASSUME NEW d \in Clients PROVE Staffed(d)'
    <2>1. Staffed(d) /\ next[d] = 0 /\ work[d] = NoWork
      BY <1>2 DEF Threads, Staffed
    <2>2. CASE d = c
      BY <1>1, <2>1, <2>2, ZeroIsCarrier DEF Staffed, Busy, NoWork, Locked
    <2>3. CASE d # c
      BY <1>1, <2>1, <2>3 DEF Staffed, Busy, Locked
    <2> QED
      BY <2>2, <2>3
  <1> QED
    BY <1>1, <1>3, <1>4 DEF Threads

(* A loop of the client c that has the lock concerns nobody else.          *)
LEMMA OthersStaffed ==
    ASSUME Locked, Threads, NEW c \in Clients, Busy(c), NEW d \in Clients, d # c,
           pc'[d] = pc[d], next'[d] = next[d], work'[d] = work[d]
    PROVE  Staffed(d)'
  BY DEF Locked, Threads, Staffed, Busy

LEMMA SpawnLocked ==
    ASSUME Locked, Threads, NEW c \in users, Spawn(c)
    PROVE  Locked' /\ Threads'
  <1>1. /\ pc[c] = "spawn" /\ UNCHANGED <<users, lock, req>>
        /\ thread' = [thread EXCEPT ![next[c]] = c]
        /\ work' = [work EXCEPT ![c][next[c]] = "running"]
    BY DEF Spawn
  <1>2. c \in Clients /\ Busy(c) /\ next[c] \in Carriers
    BY <1>1 DEF Locked, Threads, Busy
  <1>3. \/ /\ next[c] = NumCarriers - 1
           /\ next' = [next EXCEPT ![c] = 0] /\ pc' = [pc EXCEPT ![c] = "join"]
        \/ /\ next[c] # NumCarriers - 1
           /\ next' = [next EXCEPT ![c] = next[c] + 1] /\ pc' = pc
    BY DEF Spawn, Advance
  <1>4. Locked'
    BY <1>1, <1>2, <1>3 DEF Locked, Busy
  <1>5. /\ next' \in [Clients -> Carriers]
        /\ work' \in [Clients -> [Carriers -> {"none", "running", "done"}]]
        /\ DOMAIN thread' = Carriers
    <2>1. next' \in [Clients -> Carriers]
      BY <1>2, <1>3, ZeroIsCarrier DEF Threads
    <2> QED
      BY <1>1, <1>2, <2>1 DEF Threads
  <1>6. \A t \in Carriers : /\ t = next[c] => work'[c][t] = "running" /\ thread'[t] = c
                            /\ t # next[c] => work'[c][t] = work[c][t] /\ thread'[t] = thread[t]
    BY <1>1, <1>2 DEF Threads
  <1>7. Staffed(c)'
    <2>1. \A t \in Carriers : IF t < next[c] THEN work[c][t] # "none" /\ thread[t] = c
                                              ELSE work[c][t] = "none"
      BY <1>1, <1>2 DEF Threads, Staffed
    <2>2. \A t \in Carriers : t \in Nat /\ t < NumCarriers /\ next[c] \in Nat
      BY <1>2, ZeroIsCarrier
    <2>3. CASE next[c] = NumCarriers - 1
      <3>1. pc'[c] = "join" /\ next'[c] = 0
        BY <1>2, <1>3, <2>3 DEF Locked, Threads
      <3>2. \A t \in Carriers : t < next[c] \/ t = next[c]
        BY <2>2, <2>3, AsyncAssumption
      <3>3. \A t \in Carriers : work'[c][t] # "none" /\ thread'[t] = c /\ ~(t < 0)
        BY <1>6, <2>1, <2>2, <3>2
      <3> QED
        BY <3>1, <3>3 DEF Staffed, Busy
    <2>4. CASE next[c] # NumCarriers - 1
      <3>1. pc'[c] = "spawn" /\ next'[c] = next[c] + 1
        BY <1>1, <1>2, <1>3, <2>4 DEF Locked, Threads
      <3>2. \A t \in Carriers : t < next[c] + 1 <=> t < next[c] \/ t = next[c]
        BY <2>2
      <3>3. \A t \in Carriers : IF t < next'[c] THEN work'[c][t] # "none" /\ thread'[t] = c
                                                ELSE work'[c][t] = "none"
        BY <1>6, <2>1, <3>1, <3>2
      <3> QED
        BY <3>1, <3>3 DEF Staffed, Busy
    <2> QED
      BY <2>3, <2>4
  <1>8. ASSUME NEW d \in Clients, d # c PROVE Staffed(d)'
    <2>1. pc'[d] = pc[d] /\ next'[d] = next[d] /\ work'[d] = work[d]
      BY <1>1, <1>2, <1>3, <1>8 DEF Locked, Threads
    <2> QED
      BY <1>2, <1>8, <2>1, OthersStaffed
  <1> QED
    BY <1>4, <1>5, <1>7, <1>8 DEF Threads

(* A thread that is joined through the carrier is one of the client's own. *)
LEMMA JoinLocked ==
    ASSUME Locked, Threads, NEW c \in users, Join(c)
    PROVE  Locked' /\ Threads'
  <1>1. pc[c] = "join" /\ UNCHANGED <<users, lock, req, work, thread>>
    BY DEF Join
  <1>2. c \in Clients /\ Busy(c) /\ next[c] \in Carriers
    BY <1>1 DEF Locked, Threads, Busy
  <1>3. \/ /\ next[c] = NumCarriers - 1
           /\ next' = [next EXCEPT ![c] = 0] /\ pc' = [pc EXCEPT ![c] = "collect"]
        \/ /\ next[c] # NumCarriers - 1
           /\ next' = [next EXCEPT ![c] = next[c] + 1] /\ pc' = pc
    BY DEF Join, Advance
  <1>4. Locked'
    BY <1>1, <1>2, <1>3 DEF Locked, Busy
  <1>5. next' \in [Clients -> Carriers]
    BY <1>2, <1>3, ZeroIsCarrier DEF Threads
  <1>6. \A t \in Carriers : work[c][t] # "none" /\ thread[t] = c /\ (t < next[c] => work[c][t] = "done")
    BY <1>1, <1>2 DEF Threads, Staffed
  <1>7. work[c][next[c]] = "done"
    <2>1. work[thread[next[c]]][next[c]] # "running"
      BY DEF Join, Exited
    <2>2. work[c][next[c]] \in {"none", "running", "done"}
      BY <1>2 DEF Threads
    <2> QED
      BY <1>2, <1>6, <2>1, <2>2
  <1>8. \A t \in Carriers : t \in Nat /\ t < NumCarriers /\ next[c] \in Nat
    BY <1>2, ZeroIsCarrier
  <1>9. Staffed(c)'
    <2>1. CASE next[c] = NumCarriers - 1
      <3>1. pc'[c] = "collect" /\ next'[c] = 0
        BY <1>2, <1>3, <2>1 DEF Locked, Threads
      <3>2. \A t \in Carriers : t < next[c] \/ t = next[c]
        BY <1>8, <2>1, AsyncAssumption
      <3>3. \A t \in Carriers : work[c][t] = "done"
        BY <1>6, <1>7, <3>2
      <3> QED
        BY <1>1, <3>1, <3>3 DEF Staffed, Busy
    <2>2. CASE next[c] # NumCarriers - 1
      <3>1. pc'[c] = "join" /\ next'[c] = next[c] + 1
        BY <1>1, <1>2, <1>3, <2>2 DEF Locked, Threads
      <3>2. \A t \in Carriers : t < next[c] + 1 <=> t < next[c] \/ t = next[c]
        BY <1>8
      <3>3. \A t \in Carriers : t < next'[c] => work[c][t] = "done"
        BY <1>6, <1>7, <3>1, <3>2
      <3> QED
        BY <1>1, <1>6, <3>1, <3>3 DEF Staffed, Busy
    <2> QED
      BY <2>1, <2>2
  <1>10. ASSUME NEW d \in Clients, d # c PROVE Staffed(d)'
    <2>1. pc'[d] = pc[d] /\ next'[d] = next[d] /\ work'[d] = work[d]
      BY <1>1, <1>2, <1>3, <1>10 DEF Locked, Threads
    <2> QED
      BY <1>2, <1>10, <2>1, OthersStaffed
  <1> QED
    BY <1>1, <1>4, <1>5, <1>9, <1>10 DEF Threads

(* The thread of a carrier has done its part.                              *)
LEMMA FinishLocked ==
    ASSUME Locked, Threads, NEW c \in users, NEW t \in Carriers, NEW result,
           work[c][t] = "running", Finish(c, t, result)
    PROVE  Locked' /\ Threads'
  <1>1. /\ work' = [work EXCEPT ![c][t] = "done"]
        /\ UNCHANGED <<users, lock, pc, req, next, thread>>
    BY DEF Finish
  <1>2. c \in Clients
    BY DEF Locked
  <1>3. Locked'
    BY <1>1 DEF Locked, Busy
  <1>4. work' \in [Clients -> [Carriers -> {"none", "running", "done"}]]
    BY <1>1, <1>2 DEF Threads
  <1>5. /\ work'[c][t] = "done" /\ \A u \in Carriers : u # t => work'[c][u] = work[c][u]
        /\ \A d \in Clients : d # c => work'[d] = work[d]
    BY <1>1, <1>2 DEF Threads
  <1>6. Busy(c)
    BY <1>2 DEF Threads, Staffed, NoWork
  <1>7. Staffed(c)'
    BY <1>1, <1>2, <1>5, <1>6 DEF Threads, Staffed, Busy
  <1>8. ASSUME NEW d \in Clients, d # c PROVE Staffed(d)'
    BY <1>1, <1>2, <1>5, <1>6, <1>8, OthersStaffed
  <1> QED
    BY <1>1, <1>3, <1>4, <1>7, <1>8 DEF Threads

(* this_unlock. *)
LEMMA CollectLocked ==
    ASSUME Locked, Threads, NEW c \in users, Collect(c)
    PROVE  Locked' /\ Threads'
  <1>1. /\ pc[c] = "collect" /\ lock' = Nobody
        /\ pc' = [pc EXCEPT ![c] = IF req[c].op = "locate_fast" THEN "outer" ELSE "idle"]
        /\ req' = [req EXCEPT ![c] = NoCall]
        /\ work' = [work EXCEPT ![c] = NoWork]
        /\ UNCHANGED <<users, next, thread>>
    BY DEF Collect
  <1>2. c \in Clients /\ Busy(c) /\ \A d \in Clients : d # c => ~Busy(d)
    BY <1>1 DEF Locked, Busy
  <1>3. \A d \in Clients : ~Busy(d)'
    BY <1>1, <1>2 DEF Locked, Busy
  <1>4. Locked'
    BY <1>1, <1>2, <1>3 DEF Locked, Busy
  <1>5. work' \in [Clients -> [Carriers -> {"none", "running", "done"}]]
    BY <1>1, <1>2 DEF Threads, NoWork
  <1>6. \A d \in Clients : next[d] = 0 /\ work'[d] = NoWork
    BY <1>1, <1>2 DEF Threads, Staffed
  <1>7. \A d \in Clients : Staffed(d)'
    BY <1>1, <1>3, <1>6 DEF Staffed, Busy
  <1> QED
    BY <1>1, <1>4, <1>5, <1>7 DEF Threads

(* The second this_unlock of locate_fast.                                  *)
LEMMA OuterLocked ==
    ASSUME Locked, Threads, NEW c \in users, Outer(c)
    PROVE  Locked' /\ Threads'
  <1>1. /\ pc[c] = "outer" /\ lock' = Nobody /\ pc' = [pc EXCEPT ![c] = "idle"]
        /\ UNCHANGED <<users, req, next, work, thread>>
    BY DEF Outer, callVars
  <1>2. c \in Clients /\ users = {c}
    BY <1>1 DEF Locked
  <1>3. \A d \in Clients : ~Busy(d) /\ ~Busy(d)'
    BY <1>1, <1>2 DEF Locked, Busy
  <1>4. Locked'
    BY <1>1, <1>2, <1>3 DEF Locked, Busy
  <1>5. \A d \in Clients : Staffed(d)'
    BY <1>1, <1>3 DEF Threads, Staffed, Busy
  <1> QED
    BY <1>1, <1>4, <1>5 DEF Threads

LEMMA NextLocked ==
    ASSUME NestedCalls = FALSE
    PROVE  Locked /\ Threads /\ [Next]_vars => (Locked /\ Threads)'
  <1> SUFFICES ASSUME Locked, Threads, [Next]_vars PROVE Locked' /\ Threads'
    OBVIOUS
  <1>1. CASE UNCHANGED <<users, lock, pc, req, next, work, thread>>
    BY <1>1 DEF Locked, Threads, Staffed, Busy
  <1>2. ASSUME NEW c \in users, CallInsert(c) \/ CallLocate(c) \/ CallFast(c) \/ CallExtract(c)
        PROVE  Locked' /\ Threads'
    <2>1. PICK r : Call(c, r) /\ (r.op = "locate_fast" => users = {c})
      <3>1. \A op \in {"insert", "locate", "locate_fast", "extract"} : \A b :
               Call(c, [op |-> op, batch |-> b]) /\ (op = "locate_fast" => users = {c})
                   => \E r : Call(c, r) /\ (r.op = "locate_fast" => users = {c})
        <4> TAKE op \in {"insert", "locate", "locate_fast", "extract"}
        <4> TAKE b
        <4> DEFINE q == [op |-> op, batch |-> b]
        <4>1. q.op = op
          OBVIOUS
        <4> HIDE DEF q
        <4>2. Call(c, q) /\ (op = "locate_fast" => users = {c})
                  => \E r : Call(c, r) /\ (r.op = "locate_fast" => users = {c})
          BY <4>1
        <4> QED
          BY <4>2 DEF q
      <3>2. \E op \in {"insert", "locate", "locate_fast", "extract"} : \E b :
               Call(c, [op |-> op, batch |-> b]) /\ (op = "locate_fast" => users = {c})
        BY <1>2, Zenon DEF CallInsert, CallLocate, CallFast, CallExtract
      <3> QED
        BY <3>1, <3>2, Zenon
    <2> QED
      BY <2>1, CallLocked
  <1>3. ASSUME NEW c \in users, NEW t \in Carriers, Work(c, t)
        PROVE  Locked' /\ Threads'
    <2>1. PICK result : Finish(c, t, result)
      BY <1>3 DEF Work, InsertWork, LocateWork, ExtractWork
    <2> QED
      BY <1>3, <2>1, FinishLocked DEF Work
  <1>4. ASSUME NEW c \in users, RemoveIds(c)
        PROVE  UNCHANGED <<users, lock, pc, req, next, work, thread>>
    BY <1>4 DEF RemoveIds, callVars
  <1>5. Dead \/ UNCHANGED vars => UNCHANGED <<users, lock, pc, req, next, work, thread>>
    BY DEF Dead, vars
  <1> QED
    BY <1>1, <1>2, <1>3, <1>4, <1>5, SpawnLocked, JoinLocked, CollectLocked, OuterLocked
       DEF Next, Proceed

(* CollectsOwnWork (in the run DictAsync): a call puts its answer together *)
(* only from threads that have ended, if nobody runs locate_fast beside    *)
(* another call: what it joins through the carriers is what it started.    *)
THEOREM AsyncCollectsOwnWork ==
    ASSUME NestedCalls = FALSE
    PROVE  Spec => []CollectsOwnWork
  <1>1. Locked /\ Threads => CollectsOwnWork
    BY DEF Threads, Staffed, CollectsOwnWork
  <1> QED
    BY <1>1, InitLocked, NextLocked, PTL DEF Spec

-----------------------------------------------------------------------------
(* Identifiers *)

(* A product of carriers and identifiers stays within a word.              *)
LEMMA ProductBound ==
    ASSUME NEW t \in Nat, NEW n \in Nat, NEW k \in Nat \ {0}, t < n
    PROVE  t * k \in Nat /\ t * k + k <= n * k
  <1>1. n - t - 1 \in Nat
    OBVIOUS
  <1>2. PICK d \in Nat : n = t + 1 + d
    BY <1>1
  <1>3. n * k = t * k + k + d * k /\ d * k >= 0
    BY <1>2
  <1>4. t * k \in Nat /\ d * k \in Nat
    OBVIOUS
  <1> QED
    BY <1>3, <1>4

(* The carrier and the identifier of the carrier can be told from an       *)
(* identifier of the dictionary.                                           *)
LEMMA GlobalIds ==
    ASSUME NEW t \in Carriers, NEW l \in LocalIds
    PROVE  /\ l # NoId
           /\ MakeGlobal(t, l) \in Ids
           /\ MakeGlobal(t, l) # NoId
           /\ GetOwner(MakeGlobal(t, l)) = t
           /\ GetLocal(MakeGlobal(t, l)) = l
  <1>1. /\ t \in Nat /\ t < NumCarriers /\ NumCarriers \in Nat /\ ThreadLimit \in Nat
        /\ NumCarriers <= ThreadLimit /\ NumCarriers >= 1
        /\ LocalLimit \in Nat \ {0} /\ l \in Nat /\ l < LocalLimit
        /\ NoId \notin 0..NumCarriers * LocalLimit - 1
    BY AsyncAssumption DEF Carriers, LocalIds
  <1>2. /\ t * LocalLimit \in Nat /\ NumCarriers * LocalLimit \in Nat
        /\ t * LocalLimit + LocalLimit <= NumCarriers * LocalLimit
    BY <1>1, ProductBound
  <1>3. /\ ThreadLimit * LocalLimit \in Nat
        /\ t * LocalLimit + LocalLimit <= ThreadLimit * LocalLimit
    BY <1>1, ProductBound
  <1>4. LocalLimit <= NumCarriers * LocalLimit
    BY <1>1, <1>2
  <1> DEFINE low == t * LocalLimit
             all == NumCarriers * LocalLimit
             word == ThreadLimit * LocalLimit
  <1>5. GetOwner(low + l) = t /\ GetLocal(low + l) = l
    BY <1>1 DEF GetOwner, GetLocal
  <1> HIDE DEF low, all, word
  <1>6. /\ low \in Nat /\ all \in Nat /\ word \in Nat
        /\ low + LocalLimit <= all /\ low + LocalLimit <= word /\ LocalLimit <= all
        /\ NoId \notin 0..all - 1 /\ Word = word /\ low = t * LocalLimit
        /\ Ids = 0..word - 1
    BY <1>1, <1>2, <1>3, <1>4 DEF low, all, word, Word, Ids
  <1>7. l # NoId
    BY <1>1, <1>6
  <1>8. low % word = low
    BY <1>1, <1>6
  <1>9. MakeGlobal(t, l) = low + l
    BY <1>6, <1>7, <1>8 DEF MakeGlobal
  <1> QED
    BY <1>1, <1>5, <1>6, <1>7, <1>9

-----------------------------------------------------------------------------
(* The split of a batch *)

(* The part of a carrier has each string of the batch that is its own, at  *)
(* the place that was noted for it, and no other.                          *)
LEMMA PartPlaces ==
    ASSUME NEW c, NEW n \in Nat, DOMAIN req[c].batch = 1..n, NEW t
    PROVE  /\ \A i \in Places(c, t) : /\ LocalIndex(c, i) \in DOMAIN Part(c, t)
                                     /\ Part(c, t)[LocalIndex(c, i)] = req[c].batch[i]
           /\ \A k \in DOMAIN Part(c, t) :
                  \E i \in Places(c, t) : Part(c, t)[k] = req[c].batch[i]
  <1> DEFINE mine == Places(c, t)
             upto(k) == {j \in 1..k : Owner(c, j) = Owner(c, k)}
             m == Cardinality(mine)
  <1>1. mine = {j \in 1..n : Owner(c, j) = t}
    BY DEF Places
  <1>2. IsFiniteSet(mine) /\ m \in Nat
    <2>1. IsFiniteSet(1..n)
      BY FS_Interval
    <2>2. IsFiniteSet(mine)
      BY <1>1, <2>1, FS_Subset
    <2> QED
      BY <2>2, FS_CardinalityType
  <1>3. ASSUME NEW k \in mine
        PROVE  /\ upto(k) \subseteq mine
               /\ k \in upto(k)
               /\ LocalIndex(c, k) = Cardinality(upto(k))
    <2>1. k \in 1..n /\ Owner(c, k) = t
      BY <1>1
    <2>2. \A j \in 1..k : j \in 1..n
      BY <2>1
    <2> QED
      BY <1>1, <2>1, <2>2 DEF LocalIndex
  <1>4. \A k \in mine : IsFiniteSet(upto(k)) /\ Cardinality(upto(k)) \in Nat
    <2>1. \A k \in mine : IsFiniteSet(upto(k))
      BY <1>2, <1>3, FS_Subset
    <2> QED
      BY <2>1, FS_CardinalityType
  <1>5. ASSUME NEW j \in mine, NEW k \in mine, j < k
        PROVE  LocalIndex(c, j) < LocalIndex(c, k)
    <2>1. j \in 1..n /\ k \in 1..n
      BY <1>1
    <2>2. upto(j) \subseteq upto(k) /\ k \notin upto(j) /\ k \in upto(k)
      BY <1>1, <1>3, <1>5, <2>1
    <2>3. Cardinality(upto(j)) <= Cardinality(upto(k)) /\ Cardinality(upto(j)) # Cardinality(upto(k))
      BY <1>4, <2>2, FS_Subset
    <2>4. LocalIndex(c, j) = Cardinality(upto(j)) /\ LocalIndex(c, k) = Cardinality(upto(k))
      BY <1>3
    <2>5. Cardinality(upto(j)) \in Nat /\ Cardinality(upto(k)) \in Nat
      BY <1>4
    <2> HIDE DEF upto
    <2> QED
      BY <2>3, <2>4, <2>5
  <1>6. ASSUME NEW k \in mine PROVE LocalIndex(c, k) \in 1..m
    <2>1. Cardinality(upto(k)) <= m
      BY <1>2, <1>3, FS_Subset
    <2>2. Cardinality(upto(k)) # 0
      BY <1>3, <1>4, FS_EmptySet
    <2>3. LocalIndex(c, k) = Cardinality(upto(k)) /\ Cardinality(upto(k)) \in Nat
      BY <1>3, <1>4
    <2> HIDE DEF upto, m
    <2> QED
      BY <1>2, <2>1, <2>2, <2>3
  <1>7. ASSUME NEW j \in mine, NEW k \in mine, LocalIndex(c, j) = LocalIndex(c, k)
        PROVE  j = k
    <2>1. j \in Nat /\ k \in Nat
      BY <1>1
    <2>2. ~(j < k) /\ ~(k < j)
      BY <1>2, <1>5, <1>6, <1>7
    <2> QED
      BY <2>1, <2>2
  <1>8. \A k \in 1..m : \E i \in mine : LocalIndex(c, i) = k
    <2> DEFINE place == [k \in mine |-> LocalIndex(c, k)]
    <2>1. place \in Injection(mine, 1..m)
      BY <1>6, <1>7 DEF Injection, IsInjective
    <2>2. IsFiniteSet(1..m) /\ Cardinality(1..m) = m
      BY <1>2, FS_Interval
    <2> HIDE DEF place, m
    <2>3. place \in Surjection(mine, 1..m)
      BY <2>1, <2>2, FS_Injection DEF m
    <2> QED
      BY <2>3 DEF Surjection, place
  <1>9. DOMAIN Part(c, t) = 1..m
    BY DEF Part
  <1>10. ASSUME NEW i \in mine
         PROVE  LocalIndex(c, i) \in 1..m /\ Part(c, t)[LocalIndex(c, i)] = req[c].batch[i]
    <2>1. (CHOOSE k \in mine : LocalIndex(c, k) = LocalIndex(c, i)) = i
      BY <1>7
    <2> QED
      BY <1>6, <2>1 DEF Part
  <1> HIDE DEF mine, m
  <1>11. ASSUME NEW k \in 1..m
         PROVE  \E i \in mine : Part(c, t)[k] = req[c].batch[i]
    BY <1>8, <1>10
  <1> QED
    BY <1>9, <1>10, <1>11 DEF mine

-----------------------------------------------------------------------------
(* Requests and replies *)

(* No string loses its identifier. *)
Grown == \A t \in Carriers : \A s \in Strings : local[t][s] # NoId => local'[t][s] = local[t][s]

LEMMA OwnsIts == \A s \in Strings : CarrierOf[s] \in Carriers
  BY AsyncAssumption

(* The identifier of a string names its carrier and its identifier there.  *)
LEMMA KnownIds ==
    ASSUME Stored, NEW s \in Strings, Known(s)
    PROVE  /\ GlobalIdOf(s) \in Ids
           /\ GlobalIdOf(s) # NoId
           /\ GetOwner(GlobalIdOf(s)) = CarrierOf[s]
           /\ GetLocal(GlobalIdOf(s)) = local[CarrierOf[s]][s]
  <1>1. CarrierOf[s] \in Carriers /\ local[CarrierOf[s]][s] \in LocalIds
    BY OwnsIts DEF Stored, Known
  <1> QED
    BY <1>1, GlobalIds DEF GlobalIdOf

LEMMA OwnerIsCarrier ==
    ASSUME Stored, NEW c \in Clients, Busy(c), Asking(c), NEW i \in DOMAIN req[c].batch
    PROVE  /\ Owner(c, i) \in Carriers
           /\ req[c].op # "extract" => Owner(c, i) = CarrierOf[req[c].batch[i]]
  <1>1. CASE req[c].op = "extract"
    <2>1. PICK s \in Strings : Known(s) /\ req[c].batch[i] = GlobalIdOf(s)
      BY <1>1 DEF Asking
    <2> QED
      BY <1>1, <2>1, KnownIds, OwnsIts DEF Owner, OwnerOf
  <1>2. CASE req[c].op # "extract"
    BY <1>2, OwnsIts DEF Asking, Owner, OwnerOf
  <1> QED
    BY <1>1, <1>2

(* The same of all calls, in this state or in the next.                    *)
OwnersThere == \A c \in Clients : Busy(c) /\ Asking(c) =>
                   \A i \in DOMAIN req[c].batch : Owner(c, i) \in Carriers

LEMMA OwnersAreThere == Stored => OwnersThere
  BY OwnerIsCarrier DEF OwnersThere

LEMMA StillKnown ==
    ASSUME Stored, Grown, NEW s \in Strings, Known(s)
    PROVE  Known(s)' /\ GlobalIdOf(s)' = GlobalIdOf(s)
  BY OwnsIts DEF Known, Grown, GlobalIdOf

LEMMA StillAsking ==
    ASSUME Stored, Grown, NEW d \in Clients, req'[d] = req[d], Busy(d)' => Busy(d), Asking(d)
    PROVE  Asking(d)'
  BY StillKnown DEF Asking

LEMMA StillRight ==
    ASSUME Grown, NEW op, NEW t \in Carriers, NEW x, NEW y, op = "extract" \/ x \in Strings,
           Right(op, local[t], x, y)
    PROVE  Right(op, local'[t], x, y)
  BY DEF Grown, Right

(* A reply stays right. *)
LEMMA StillReplied ==
    ASSUME Stored, Grown, NEW d \in Clients, UNCHANGED req, Busy(d)' => Busy(d),
           Asking(d), Replied(d),
           \A t \in Carriers : work'[d][t] = "done" => work[d][t] = "done" /\ out'[d][t] = out[d][t]
    PROVE  Asking(d)' /\ Replied(d)'
  <1>1. Asking(d)'
    BY StillAsking
  <1>2. ASSUME Busy(d), NEW i \in DOMAIN req[d].batch, work'[d][Owner(d, i)] = "done"
        PROVE  Right(req[d].op, local'[Owner(d, i)], req[d].batch[i], Result(d, i)')
    <2>1. Owner(d, i) \in Carriers
      BY <1>2, OwnerIsCarrier
    <2>2. Right(req[d].op, local[Owner(d, i)], req[d].batch[i], Result(d, i))
      BY <1>2, <2>1 DEF Replied
    <2>3. Result(d, i)' = Result(d, i)
      BY <1>2, <2>1 DEF Result, Owner, OwnerOf, LocalIndex
    <2>4. req[d].op = "extract" \/ req[d].batch[i] \in Strings
      BY <1>2 DEF Asking
    <2> QED
      BY <2>1, <2>2, <2>3, <2>4, StillRight
  <1>3. \A i : Owner(d, i)' = Owner(d, i)
    BY DEF Owner, OwnerOf
  <1> QED
    BY <1>1, <1>2, <1>3 DEF Replied

LEMMA InitConsistent == Init => Consistent
  BY OwnsIts, AsyncAssumption
  DEF Init, Consistent, Stored, Asking, Replied, Busy, NoOutput

(* Steps that store nothing and finish nothing.                            *)
LEMMA QuietConsistent ==
    ASSUME Consistent, UNCHANGED <<req, out, local, answers>>,
           \A d \in Clients : Busy(d)' => Busy(d),
           \A d \in Clients : \A t \in Carriers : work'[d][t] = "done" => work[d][t] = "done"
    PROVE  Consistent'
  <1>1. Grown /\ Stored'
    BY DEF Grown, Consistent, Stored, Known, GlobalIdOf
  <1>2. \A d \in Clients : Asking(d)' /\ Replied(d)'
    BY <1>1, StillReplied DEF Consistent
  <1> QED
    BY <1>1, <1>2 DEF Consistent

(* A new call asks for what it may ask for.                                *)
LEMMA CallConsistent ==
    ASSUME Locked, Threads, Consistent, NEW c \in users,
           NEW op \in {"insert", "locate", "locate_fast", "extract"},
           NEW S, NEW n \in Nat, NEW b \in [1..n -> S],
           S = IF op = "extract" THEN {a[2] : a \in answers} ELSE Strings,
           Call(c, [op |-> op, batch |-> b])
    PROVE  Consistent'
  <1> DEFINE r == [op |-> op, batch |-> b]
  <1>1. /\ pc[c] = "idle" /\ lock = Nobody
        /\ pc' = [pc EXCEPT ![c] = "spawn"]
        /\ req' = [req EXCEPT ![c] = r]
        /\ UNCHANGED <<work, out, local, answers>>
    BY DEF Call
  <1>2. c \in Clients /\ \A d \in Clients : ~Busy(d)
    BY <1>1, AsyncAssumption DEF Locked
  <1>3. Stored' /\ UNCHANGED <<local, answers>>
    BY <1>1 DEF Consistent, Stored, Known, GlobalIdOf
  <1>4. \A d \in Clients : d # c => ~Busy(d)'
    BY <1>1, <1>2 DEF Locked, Busy
  <1>5. req'[c] = r /\ r.op = op /\ r.batch = b
    BY <1>1, <1>2 DEF Locked
  <1>6. DOMAIN b = 1..n /\ Len(b) = n /\ \A i \in 1..n : b[i] \in S
    OBVIOUS
  <1>7. ASSUME op = "extract", NEW i \in 1..n
        PROVE  \E s \in Strings : Known(s)' /\ b[i] = GlobalIdOf(s)'
    <2>1. PICK a \in answers : b[i] = a[2]
      BY <1>6, <1>7
    <2>2. PICK s \in Strings : Known(s) /\ a = <<s, GlobalIdOf(s)>>
      BY DEF Consistent, Stored
    <2>3. b[i] = GlobalIdOf(s)
      BY <2>1, <2>2
    <2> QED
      BY <1>3, <2>2, <2>3 DEF Known, GlobalIdOf
  <1> HIDE DEF r
  <1>8. Asking(c)'
    BY <1>5, <1>6, <1>7 DEF Asking
  <1>9. Replied(c)'
    <2>1. ASSUME Busy(c)', NEW i \in DOMAIN req'[c].batch
          PROVE  work'[c][Owner(c, i)'] # "done"
      <3>1. Owner(c, i)' \in Carriers
        <4>1. OwnersThere'
          BY <1>3, OwnersAreThere, PTL
        <4> QED
          BY <1>2, <1>8, <2>1, <4>1 DEF OwnersThere
      <3>2. work'[c] = NoWork
        BY <1>1, <1>2 DEF Threads, Staffed
      <3> QED
        BY <3>1, <3>2 DEF NoWork
    <2> QED
      BY <2>1 DEF Replied
  <1>10. \A d \in Clients : Asking(d)' /\ Replied(d)'
    BY <1>4, <1>8, <1>9 DEF Asking, Replied
  <1> QED
    BY <1>1, <1>3, <1>10 DEF Consistent

(* A thread that answers its part rightly. *)
LEMMA FinishConsistent ==
    ASSUME Locked, Threads, Consistent, NEW c \in users, NEW t \in Carriers, NEW result,
           Busy(c), Finish(c, t, result), Grown, Stored',
           \A n \in DOMAIN Part(c, t) : Right(req[c].op, local'[t], Part(c, t)[n], result[n])
    PROVE  Consistent'
  <1>1. /\ out' = [out EXCEPT ![c][t] = result]
        /\ work' = [work EXCEPT ![c][t] = "done"]
        /\ UNCHANGED <<pc, req>>
    BY DEF Finish
  <1>2. c \in Clients /\ DOMAIN out = Clients /\ \A d \in Clients : DOMAIN out[d] = Carriers
    BY DEF Locked, Consistent
  <1>3. DOMAIN out' = Clients /\ \A d \in Clients : DOMAIN out'[d] = Carriers
    BY <1>1, <1>2
  <1>4. /\ out'[c][t] = result
        /\ \A u \in Carriers : u # t => out'[c][u] = out[c][u] /\ work'[c][u] = work[c][u]
        /\ \A d \in Clients : d # c => out'[d] = out[d] /\ work'[d] = work[d]
    BY <1>1, <1>2 DEF Threads
  <1>5. ASSUME NEW d \in Clients, d # c PROVE Asking(d)' /\ Replied(d)'
    BY <1>1, <1>4, <1>5, StillReplied DEF Consistent, Busy
  <1>6. Asking(c) /\ Replied(c) /\ Stored
    BY <1>2 DEF Consistent
  <1>7. Asking(c)'
    BY <1>1, <1>2, <1>6, StillAsking DEF Busy
  <1>8. ASSUME NEW i \in DOMAIN req[c].batch, work'[c][Owner(c, i)] = "done"
        PROVE  Right(req[c].op, local'[Owner(c, i)], req[c].batch[i], Result(c, i)')
    <2>1. Owner(c, i) \in Carriers
      BY <1>2, <1>6, OwnerIsCarrier
    <2>2. Result(c, i)' = out'[c][Owner(c, i)][LocalIndex(c, i)]
      BY <1>1 DEF Result, Owner, OwnerOf, LocalIndex
    <2>3. CASE Owner(c, i) = t
      <3>1. i \in Places(c, t)
        BY <2>3 DEF Places
      <3>2. /\ LocalIndex(c, i) \in DOMAIN Part(c, t)
            /\ Part(c, t)[LocalIndex(c, i)] = req[c].batch[i]
        BY <1>6, <3>1, PartPlaces DEF Asking
      <3> QED
        BY <1>4, <2>2, <2>3, <3>2
    <2>4. CASE Owner(c, i) # t
      <3>1. Right(req[c].op, local[Owner(c, i)], req[c].batch[i], Result(c, i))
        BY <1>4, <1>6, <1>8, <2>1, <2>4 DEF Replied
      <3>2. Result(c, i)' = Result(c, i)
        BY <1>4, <2>1, <2>2, <2>4 DEF Result
      <3>3. req[c].op = "extract" \/ req[c].batch[i] \in Strings
        BY <1>6 DEF Asking
      <3> QED
        BY <2>1, <3>1, <3>2, <3>3, StillRight
    <2> QED
      BY <2>3, <2>4
  <1>9. \A i : Owner(c, i)' = Owner(c, i)
    BY <1>1 DEF Owner, OwnerOf
  <1>10. Replied(c)'
    BY <1>1, <1>8, <1>9 DEF Replied
  <1> QED
    BY <1>3, <1>5, <1>7, <1>10 DEF Consistent

(* What is in the part of carrier t is a string of its own, or stands for  *)
(* one that it has.                                                        *)
LEMMA PartOwned ==
    ASSUME Stored, NEW c \in Clients, Busy(c), Asking(c), NEW t \in Carriers,
           NEW n \in DOMAIN Part(c, t)
    PROVE  LET x == Part(c, t)[n] IN
           IF req[c].op = "extract"
           THEN \E s \in Strings : local[t][s] # NoId /\ GetLocal(x) = local[t][s]
           ELSE x \in Strings /\ CarrierOf[x] = t
  <1>1. PICK i \in Places(c, t) : Part(c, t)[n] = req[c].batch[i]
    BY PartPlaces DEF Asking
  <1>2. i \in DOMAIN req[c].batch /\ Owner(c, i) = t
    BY DEF Places
  <1>3. CASE req[c].op = "extract"
    <2>1. PICK s \in Strings : Known(s) /\ req[c].batch[i] = GlobalIdOf(s)
      BY <1>2, <1>3 DEF Asking
    <2>2. t = CarrierOf[s]
      BY <1>2, <1>3, <2>1, KnownIds DEF Owner, OwnerOf
    <2> QED
      BY <1>1, <1>3, <2>1, <2>2, KnownIds DEF Known
  <1>4. CASE req[c].op # "extract"
    BY <1>1, <1>2, <1>4, OwnerIsCarrier DEF Asking
  <1> QED
    BY <1>3, <1>4

(* parallel_insert_function: new strings of the carrier get identifiers no *)
(* string of the carrier has.                                              *)
InsertAs(c, t, new, known) ==
    /\ req[c].op = "insert"
    /\ new \in Injection(NewStrings(c, t), LocalIds \ LocalIdsOf(t))
    /\ known = [s \in Strings |-> IF s \in DOMAIN new THEN new[s] ELSE local[t][s]]
    /\ local' = [local EXCEPT ![t] = known]
    /\ Finish(c, t, [n \in DOMAIN Part(c, t) |-> known[Part(c, t)[n]]])

LEMMA InsertsSo ==
    ASSUME NEW c, NEW t, InsertWork(c, t)
    PROVE  \E new, known : InsertAs(c, t, new, known)
  <1>1. PICK new \in Injection(NewStrings(c, t), LocalIds \ LocalIdsOf(t)) :
           LET known == [s \in Strings |-> IF s \in DOMAIN new THEN new[s] ELSE local[t][s]]
           IN  /\ local' = [local EXCEPT ![t] = known]
               /\ Finish(c, t, [n \in DOMAIN Part(c, t) |-> known[Part(c, t)[n]]])
    BY DEF InsertWork
  <1> DEFINE known == [s \in Strings |-> IF s \in DOMAIN new THEN new[s] ELSE local[t][s]]
  <1>2. InsertAs(c, t, new, known)
    BY <1>1 DEF InsertWork, InsertAs
  <1> HIDE DEF known
  <1> QED
    BY <1>2

LEMMA InsertGrows ==
    ASSUME Consistent, NEW c \in Clients, Busy(c), NEW t \in Carriers, NEW new, NEW known,
           InsertAs(c, t, new, known)
    PROVE  /\ \A s \in NewStrings(c, t) :
                  /\ s \in Strings /\ CarrierOf[s] = t /\ local[t][s] = NoId
                  /\ local'[t][s] \in LocalIds
                  /\ \A u \in Strings \ {s} : local'[t][u] # local'[t][s]
           /\ \A u \in Carriers : \A s \in Strings :
                  u # t \/ s \notin NewStrings(c, t) => local'[u][s] = local[u][s]
           /\ Grown
           /\ Stored'
  <1>1. /\ req[c].op = "insert"
        /\ new \in [NewStrings(c, t) -> LocalIds \ LocalIdsOf(t)] /\ IsInjective(new)
        /\ known = [s \in Strings |-> IF s \in DOMAIN new THEN new[s] ELSE local[t][s]]
        /\ local' = [local EXCEPT ![t] = known]
        /\ answers' = answers
    BY DEF InsertAs, Injection, Finish
  <1>2. local \in [Carriers -> [Strings -> LocalIds \cup {NoId}]]
    BY DEF Consistent, Stored
  <1>3. ASSUME NEW s \in NewStrings(c, t)
        PROVE  s \in Strings /\ CarrierOf[s] = t /\ local[t][s] = NoId
    <2>1. local[t][s] = NoId /\ \E n \in DOMAIN Part(c, t) : s = Part(c, t)[n]
      BY DEF NewStrings, ToSet
    <2> QED
      BY <1>1, <2>1, PartOwned DEF Consistent
  <1>4. NoId \notin LocalIds
    BY ZeroIsCarrier, GlobalIds
  <1>5. /\ local' \in [Carriers -> [Strings -> LocalIds \cup {NoId}]]
        /\ local'[t] = known
        /\ \A u \in Carriers : u # t => local'[u] = local[u]
    BY <1>1, <1>2
  <1>6. \A s \in Strings : IF s \in NewStrings(c, t)
                           THEN local'[t][s] = new[s] /\ new[s] \in LocalIds \ LocalIdsOf(t)
                           ELSE local'[t][s] = local[t][s]
    BY <1>1, <1>5
  <1>7. Grown
    BY <1>3, <1>5, <1>6 DEF Grown
  <1>8. ASSUME NEW s \in Strings, NEW u \in Strings, local'[t][s] = local'[t][u], local'[t][s] # NoId
        PROVE  s = u
    <2>1. CASE s \in NewStrings(c, t) /\ u \in NewStrings(c, t)
      BY <1>1, <1>6, <1>8, <2>1 DEF IsInjective
    <2>2. CASE s \in NewStrings(c, t) /\ u \notin NewStrings(c, t)
      BY <1>4, <1>6, <1>8, <2>2 DEF LocalIdsOf
    <2>3. CASE s \notin NewStrings(c, t) /\ u \in NewStrings(c, t)
      BY <1>4, <1>6, <1>8, <2>3 DEF LocalIdsOf
    <2>4. CASE s \notin NewStrings(c, t) /\ u \notin NewStrings(c, t)
      BY <1>6, <1>8, <2>4 DEF Consistent, Stored
    <2> QED
      BY <2>1, <2>2, <2>3, <2>4
  <1>9. Stored'
    <2>1. \A u \in Carriers : \A s \in Strings : local'[u][s] # NoId => CarrierOf[s] = u
      BY <1>3, <1>5, <1>6 DEF Consistent, Stored
    <2>2. \A u \in Carriers : \A s, r \in Strings :
              local'[u][s] = local'[u][r] /\ local'[u][s] # NoId => s = r
      BY <1>5, <1>8 DEF Consistent, Stored
    <2>3. ASSUME NEW a \in answers
          PROVE  \E s \in Strings : Known(s)' /\ a = <<s, GlobalIdOf(s)'>>
      <3>1. PICK s \in Strings : Known(s) /\ a = <<s, GlobalIdOf(s)>>
        BY DEF Consistent, Stored
      <3> QED
        BY <1>7, <3>1, StillKnown DEF Consistent
    <2> QED
      BY <1>1, <1>5, <2>1, <2>2, <2>3 DEF Stored
  <1>10. ASSUME NEW s \in NewStrings(c, t)
         PROVE  /\ local'[t][s] \in LocalIds
                /\ \A u \in Strings \ {s} : local'[t][u] # local'[t][s]
    BY <1>3, <1>4, <1>6, <1>8
  <1> QED
    BY <1>3, <1>5, <1>6, <1>7, <1>9, <1>10

LEMMA WorkConsistent ==
    ASSUME Locked, Threads, Consistent, NEW c \in users, NEW t \in Carriers, Work(c, t)
    PROVE  Consistent'
  <1>1. work[c][t] = "running" /\ c \in Clients
    BY DEF Work, Locked
  <1>2. Busy(c)
    BY <1>1 DEF Threads, Staffed, NoWork
  <1>3. Asking(c) /\ Stored
    BY <1>1 DEF Consistent
  <1> DEFINE part == Part(c, t)
  <1>4. CASE InsertWork(c, t)
    <2>1. PICK new, known : InsertAs(c, t, new, known)
      BY <1>4, InsertsSo
    <2>2. Grown /\ Stored'
      BY <1>1, <1>2, <2>1, InsertGrows
    <2>3. local'[t] = known /\ req[c].op = "insert"
      BY <1>3, <2>1 DEF InsertAs, Stored
    <2> DEFINE result == [n \in DOMAIN part |-> known[part[n]]]
    <2>4. \A n \in DOMAIN part : Right(req[c].op, local'[t], part[n], result[n])
      BY <2>3 DEF Right
    <2>5. Finish(c, t, result)
      BY <2>1 DEF InsertAs
    <2> HIDE DEF result
    <2> QED
      BY <1>2, <2>2, <2>4, <2>5, FinishConsistent
  <1>5. ASSUME UNCHANGED <<local, answers>> PROVE Grown /\ Stored'
    BY <1>3, <1>5 DEF Grown, Stored, Known, GlobalIdOf
  <1>6. CASE LocateWork(c, t)
    <2> DEFINE result == [n \in DOMAIN part |-> local[t][part[n]]]
    <2>1. Finish(c, t, result) /\ UNCHANGED <<local, answers>> /\ req[c].op # "extract"
      BY <1>6 DEF LocateWork, Finish
    <2>2. \A n \in DOMAIN part : Right(req[c].op, local'[t], part[n], result[n])
      BY <2>1 DEF Right
    <2> HIDE DEF result
    <2> QED
      BY <1>2, <1>5, <2>1, <2>2, FinishConsistent
  <1>7. CASE ExtractWork(c, t)
    <2> DEFINE result == [n \in DOMAIN part |-> StringOf(t, GetLocal(part[n]))]
    <2>1. Finish(c, t, result) /\ UNCHANGED <<local, answers>> /\ req[c].op = "extract"
      BY <1>7 DEF ExtractWork, Finish
    <2>2. ASSUME NEW n \in DOMAIN part
          PROVE  Right(req[c].op, local'[t], part[n], result[n])
      <3>1. PICK s \in Strings : local[t][s] # NoId /\ GetLocal(part[n]) = local[t][s]
        BY <1>1, <1>2, <1>3, <2>1, PartOwned
      <3> DEFINE l == GetLocal(part[n])
                 y == CHOOSE u \in Strings : local[t][u] = l
      <3>2. y \in Strings /\ local[t][y] = l
        BY <3>1
      <3>3. result[n] = IF l = 0 THEN Null ELSE y
        BY DEF StringOf
      <3> HIDE DEF y, result
      <3> QED
        BY <2>1, <3>1, <3>2, <3>3 DEF Right
    <2> HIDE DEF result
    <2> QED
      BY <1>2, <1>5, <2>1, <2>2, FinishConsistent
  <1> QED
    BY <1>4, <1>6, <1>7 DEF Work

(* What a call tells its client: strings with their identifiers.           *)
LEMMA ToldKnown ==
    ASSUME Locked, Threads, Consistent, NEW c \in Clients, pc[c] = "collect", NEW a \in Told(c)
    PROVE  \E s \in Strings : Known(s) /\ a = <<s, GlobalIdOf(s)>>
  <1>1. Stored /\ Busy(c) /\ Asking(c) /\ Replied(c)
    BY DEF Consistent, Busy
  <1>2. \A i \in DOMAIN req[c].batch :
            /\ Owner(c, i) \in Carriers
            /\ Right(req[c].op, local[Owner(c, i)], req[c].batch[i], Result(c, i))
    BY <1>1, OwnerIsCarrier DEF Threads, Staffed, Replied
  <1>3. CASE req[c].op = "extract"
    <2>1. PICK i \in DOMAIN req[c].batch : Result(c, i) # Null /\ a = <<Result(c, i), req[c].batch[i]>>
      BY <1>3 DEF Told
    <2> DEFINE y == Result(c, i)
               t == Owner(c, i)
    <2>2. PICK s \in Strings : Known(s) /\ req[c].batch[i] = GlobalIdOf(s)
      BY <1>1, <1>3 DEF Asking
    <2>3. t = CarrierOf[s] /\ GetLocal(req[c].batch[i]) = local[t][s]
      BY <1>1, <1>3, <2>2, KnownIds DEF Owner, OwnerOf
    <2>4. y \in Strings /\ local[t][y] # NoId /\ local[t][y] = local[t][s] /\ t \in Carriers
      BY <1>2, <1>3, <2>1, <2>3 DEF Right
    <2>5. y = s
      BY <1>1, <2>4 DEF Stored
    <2> QED
      BY <2>1, <2>2, <2>5
  <1>4. CASE req[c].op # "extract"
    <2>1. PICK i \in DOMAIN req[c].batch : GlobalId(c, i) # NoId /\ a = <<req[c].batch[i], GlobalId(c, i)>>
      BY <1>4 DEF Told
    <2>2. req[c].batch[i] \in Strings /\ Owner(c, i) = CarrierOf[req[c].batch[i]]
      BY <1>1, <1>4, OwnerIsCarrier DEF Asking
    <2>3. Result(c, i) # NoId
      BY <2>1 DEF GlobalId, MakeGlobal
    <2>4. local[Owner(c, i)][req[c].batch[i]] = Result(c, i)
      BY <1>2, <1>4, <2>3 DEF Right
    <2> QED
      BY <2>1, <2>2, <2>3, <2>4 DEF GlobalId, GlobalIdOf, Known
  <1> QED
    BY <1>3, <1>4

LEMMA CollectConsistent ==
    ASSUME Locked, Threads, Consistent, NEW c \in users, Collect(c)
    PROVE  Consistent'
  <1>1. /\ pc[c] = "collect" /\ c \in Clients
        /\ answers' = answers \cup Told(c)
        /\ pc' = [pc EXCEPT ![c] = IF req[c].op = "locate_fast" THEN "outer" ELSE "idle"]
        /\ req' = [req EXCEPT ![c] = NoCall]
        /\ out' = [out EXCEPT ![c] = NoOutput]
        /\ local' = local
    BY DEF Collect, Locked
  <1>2. Stored'
    <2>1. \A a \in answers' : \E s \in Strings : Known(s) /\ a = <<s, GlobalIdOf(s)>>
      BY <1>1, ToldKnown DEF Consistent, Stored
    <2> QED
      BY <1>1, <2>1 DEF Consistent, Stored, Known, GlobalIdOf
  <1>3. \A d \in Clients : ~Busy(d)'
    BY <1>1 DEF Locked, Busy
  <1>4. \A d \in Clients : Asking(d)' /\ Replied(d)'
    BY <1>3 DEF Asking, Replied
  <1> QED
    BY <1>1, <1>2, <1>4 DEF Consistent, NoOutput

IInv == Locked /\ Threads /\ Consistent

LEMMA CallsConsistent ==
    ASSUME IInv, NEW c \in users,
           CallInsert(c) \/ CallLocate(c) \/ CallFast(c) \/ CallExtract(c)
    PROVE  Consistent'
  <1>1. \E op \in {"insert", "locate", "locate_fast", "extract"} :
           \E b \in Batches(IF op = "extract" THEN {a[2] : a \in answers} ELSE Strings) :
               Call(c, [op |-> op, batch |-> b])
    BY Zenon DEF CallInsert, CallLocate, CallFast, CallExtract
  <1>2. PICK op \in {"insert", "locate", "locate_fast", "extract"} :
           \E b \in Batches(IF op = "extract" THEN {a[2] : a \in answers} ELSE Strings) :
               Call(c, [op |-> op, batch |-> b])
    BY <1>1
  <1> DEFINE S == IF op = "extract" THEN {a[2] : a \in answers} ELSE Strings
  <1>3. PICK b \in Batches(S) : Call(c, [op |-> op, batch |-> b])
    BY <1>2
  <1>4. PICK n \in 1..MaxBatch : b \in [1..n -> S]
    BY DEF Batches
  <1>5. n \in Nat
    BY AsyncAssumption
  <1> HIDE DEF S
  <1> QED
    BY <1>3, <1>4, <1>5, CallConsistent DEF IInv, S

LEMMA NextConsistent ==
    ASSUME NestedCalls = FALSE
    PROVE  IInv /\ [Next]_vars => IInv'
  <1> SUFFICES ASSUME IInv, [Next]_vars PROVE Consistent'
    BY NextLocked DEF IInv
  <1> USE DEF IInv
  <1>1. CASE UNCHANGED <<req, out, local, answers, pc, work>>
    BY <1>1, QuietConsistent DEF Busy
  <1>2. ASSUME NEW c \in users, Spawn(c) PROVE Consistent'
    <2>1. /\ pc[c] = "spawn" /\ c \in Clients
          /\ UNCHANGED <<req, out, local, answers>>
          /\ work' = [work EXCEPT ![c][next[c]] = "running"]
          /\ pc' = pc \/ pc' = [pc EXCEPT ![c] = "join"]
      BY <1>2 DEF Spawn, Advance, Locked
    <2>2. \A d \in Clients : Busy(d)' => Busy(d)
      BY <2>1 DEF Busy, Locked
    <2>3. \A d \in Clients : \A t \in Carriers : work'[d][t] = "done" => work[d][t] = "done"
      BY <2>1 DEF Threads
    <2> QED
      BY <2>1, <2>2, <2>3, QuietConsistent
  <1>3. ASSUME NEW c \in users, Join(c) PROVE Consistent'
    <2>1. /\ pc[c] = "join" /\ c \in Clients
          /\ UNCHANGED <<req, out, local, answers, work>>
          /\ pc' = pc \/ pc' = [pc EXCEPT ![c] = "collect"]
      BY <1>3 DEF Join, Advance, Locked
    <2>2. \A d \in Clients : Busy(d)' => Busy(d)
      BY <2>1 DEF Busy, Locked
    <2> QED
      BY <2>1, <2>2, QuietConsistent
  <1>4. ASSUME NEW c \in users, Outer(c) PROVE Consistent'
    <2>1. /\ pc' = [pc EXCEPT ![c] = "idle"] /\ c \in Clients
          /\ UNCHANGED <<req, out, local, answers, work>>
      BY <1>4 DEF Outer, callVars, Locked
    <2>2. \A d \in Clients : Busy(d)' => Busy(d)
      BY <2>1 DEF Busy, Locked
    <2> QED
      BY <2>1, <2>2, QuietConsistent
  <1>5. ASSUME NEW c \in users, RemoveIds(c) PROVE Consistent'
    BY <1>1, <1>5 DEF RemoveIds, callVars
  <1>6. CASE Dead \/ UNCHANGED vars
    BY <1>1, <1>6 DEF Dead, vars
  <1> QED
    BY <1>2, <1>3, <1>4, <1>5, <1>6, CallsConsistent, WorkConsistent, CollectConsistent
       DEF Next, Proceed

-----------------------------------------------------------------------------
(* Refinement *)

(* The strings a thread inserts are the ones that are added.               *)
LEMMA InsertAdds ==
    ASSUME IInv, NEW c \in users, NEW t \in Carriers, work[c][t] = "running", InsertWork(c, t)
    PROVE  \E S \in SUBSET Strings : Promise!Add(S)
  <1> DEFINE new == NewStrings(c, t)
  <1>1. c \in Clients /\ Busy(c)
    BY DEF IInv, Locked, Threads, Staffed, NoWork
  <1>2. PICK f, g : InsertAs(c, t, f, g)
    BY InsertsSo
  <1>3. /\ \A s \in new : /\ s \in Strings /\ CarrierOf[s] = t /\ local[t][s] = NoId
                          /\ local'[t][s] \in LocalIds
                          /\ \A u \in Strings \ {s} : local'[t][u] # local'[t][s]
        /\ \A u \in Carriers : \A s \in Strings :
               u # t \/ s \notin new => local'[u][s] = local[u][s]
        /\ Stored'
    BY <1>1, <1>2, InsertGrows DEF IInv
  <1> HIDE DEF new
  <1>4. ASSUME NEW s \in new
        PROVE  /\ GlobalIdOf(s) = NoId
               /\ GlobalIdOf(s)' \in Ids
               /\ \A u \in Strings \ {s} : GlobalIdOf(s)' # GlobalIdOf(u)'
    <2>1. GlobalIdOf(s) = NoId /\ GlobalIdOf(s)' = MakeGlobal(t, local'[t][s])
      BY <1>3 DEF GlobalIdOf, MakeGlobal
    <2>2. ASSUME NEW u \in Strings \ {s} PROVE GlobalIdOf(s)' # GlobalIdOf(u)'
      <3>1. GlobalIdOf(u)' = MakeGlobal(CarrierOf[u], local'[CarrierOf[u]][u])
        BY DEF GlobalIdOf
      <3>2. CASE local'[CarrierOf[u]][u] = NoId
        BY <1>3, <2>1, <3>1, <3>2, GlobalIds DEF MakeGlobal
      <3>3. CASE local'[CarrierOf[u]][u] # NoId
        <4>1. CarrierOf[u] \in Carriers /\ local'[CarrierOf[u]][u] \in LocalIds
          BY <1>3, <3>3, OwnsIts DEF Stored
        <4>2. CarrierOf[u] # t \/ local'[CarrierOf[u]][u] # local'[t][s]
          BY <1>3, <2>2
        <4> QED
          BY <1>3, <2>1, <3>1, <4>1, <4>2, GlobalIds
      <3> QED
        BY <3>2, <3>3
    <2> QED
      BY <1>3, <2>1, <2>2, GlobalIds
  <1>5. \A s \in Strings \ new : GlobalIdOf(s)' = GlobalIdOf(s)
    BY <1>3, OwnsIts DEF GlobalIdOf
  <1>6. answers' = answers
    BY <1>2 DEF InsertAs, Finish
  <1>7. new \in SUBSET Strings
    BY <1>3
  <1>8. Promise!Add(new)
    BY <1>4, <1>5, <1>6, <1>7 DEF Promise!Add
  <1> QED
    BY <1>7, <1>8

(* What a call merges is an answer. *)
LEMMA CollectTells ==
    ASSUME IInv, NEW c \in users, Collect(c)
    PROVE  \E S \in SUBSET Strings : Promise!Answer(S)
  <1> DEFINE S == {s \in Strings : Known(s) /\ <<s, GlobalIdOf(s)>> \in Told(c)}
  <1>1. /\ pc[c] = "collect" /\ c \in Clients
        /\ answers' = answers \cup Told(c)
        /\ local' = local
    BY DEF Collect, Locked, IInv
  <1>2. Told(c) = {<<s, GlobalIdOf(s)>> : s \in S}
    BY <1>1, ToldKnown DEF IInv
  <1>3. \A s \in S : GlobalIdOf(s) # NoId
    BY KnownIds DEF IInv, Consistent
  <1>4. \A s \in Strings : GlobalIdOf(s)' = GlobalIdOf(s)
    BY <1>1 DEF GlobalIdOf
  <1>5. S \in SUBSET Strings
    OBVIOUS
  <1> HIDE DEF S
  <1>6. {<<s, GlobalIdOf(s)>> : s \in S} = {<<s, [u \in Strings |-> GlobalIdOf(u)][s]>> : s \in S}
    BY <1>5
  <1>7. Promise!Answer(S)
    BY <1>1, <1>2, <1>3, <1>4, <1>5, <1>6 DEF Promise!Answer
  <1> QED
    BY <1>5, <1>7

LEMMA StepRefines ==
    ASSUME IInv, [Next]_vars
    PROVE  [Promise!Next]_(Promise!vars)
  <1>1. CASE UNCHANGED <<local, answers>>
    BY <1>1 DEF Promise!vars, GlobalIdOf
  <1>2. ASSUME NEW c \in users, NEW t \in Carriers, Work(c, t), ~InsertWork(c, t)
        PROVE  UNCHANGED <<local, answers>>
    BY <1>2 DEF Work, LocateWork, ExtractWork, Finish
  <1>3. ASSUME NEW c \in users, NEW t \in Carriers, Work(c, t), InsertWork(c, t)
        PROVE  Promise!Next
    BY <1>3, InsertAdds DEF Work, Promise!Next
  <1>4. ASSUME NEW c \in users, Collect(c) PROVE Promise!Next
    BY <1>4, CollectTells DEF Promise!Next
  <1>5. ASSUME NEW c \in users,
               \/ CallInsert(c) \/ CallLocate(c) \/ CallFast(c) \/ CallExtract(c)
               \/ RemoveIds(c) \/ Spawn(c) \/ Join(c) \/ Outer(c)
        PROVE  UNCHANGED <<local, answers>>
    BY <1>5 DEF CallInsert, CallLocate, CallFast, CallExtract, Call, RemoveIds, Spawn, Join, Outer
  <1>6. Dead \/ UNCHANGED vars => UNCHANGED <<local, answers>>
    BY DEF Dead, vars
  <1> QED
    BY <1>1, <1>2, <1>3, <1>4, <1>5, <1>6 DEF Next, Proceed

(* ImplementsDictionary (in the run DictAsync): all carriers together give *)
(* a string one identifier that no other string has, and the answers that  *)
(* are merged are in the order of the questions, if nobody runs            *)
(* locate_fast beside another call.                                        *)
THEOREM AsyncRefines ==
    ASSUME NestedCalls = FALSE
    PROVE  Spec => ImplementsDictionary
  <1>1. Init => IInv
    BY InitLocked, InitConsistent DEF IInv
  <1>2. IInv /\ [Next]_vars => IInv'
    BY NextConsistent
  <1>3. Init => Promise!Init
    <2> SUFFICES ASSUME Init PROVE Promise!Init
      OBVIOUS
    <2>1. \A s \in Strings : GlobalIdOf(s) = NoId
      BY OwnsIts DEF Init, GlobalIdOf, MakeGlobal
    <2> QED
      BY <2>1 DEF Init, Promise!Init
  <1>4. IInv /\ [Next]_vars => [Promise!Next]_(Promise!vars)
    BY StepRefines
  <1> QED
    BY <1>1, <1>2, <1>3, <1>4, PTL DEF Spec, ImplementsDictionary, Promise!Spec
=============================================================================
