---------------------------- MODULE ParallelProofs ----------------------------
(***************************************************************************)
(* For every number of elements and helper threads and every schedule: no  *)
(* thread outlives its call, no two threads write to the same cell, and    *)
(* the result is the one that one thread alone would have computed.        *)
(***************************************************************************)
EXTENDS Parallel, FiniteSetTheorems, WellFoundedInduction, TLAPS

(* The helpers that were started and not joined.                           *)
Out(h) == team[h] # "none"

(* Where the caller is tells which helpers may still be out: those it has  *)
(* started, while it starts them; none when the loop needs no helper; and  *)
(* those not joined yet, while it joins them.                              *)
Roster ==
    /\ DOMAIN team = Helpers
    /\ job.threads \in Nat /\ next \in Nat
    /\ \A h \in Helpers : Out(h) => h < job.threads
    /\ stage = "start" => /\ Started(job) > 0
                          /\ next < job.threads
                          /\ \A h \in Helpers : Out(h) => h < next
    /\ stage = "work"  => next = 0 /\ (Started(job) > 0 \/ \A h \in Helpers : ~Out(h))
    /\ stage = "join"  => \A h \in Helpers : Out(h) => h >= next
    /\ stage \notin {"start", "work", "join"} => \A h \in Helpers : ~Out(h)

(* The chunk of worker w when n elements are cut for t helpers. *)
From(n, t, w) == w * (n \div (t + 1))
Size(n, t, w) == (n \div (t + 1)) + IF w = t THEN n % (t + 1) ELSE 0
To(n, t, w)   == From(n, t, w) + Size(n, t, w)

Team == 0..job.threads

Running == stage \in {"start", "work", "join", "merge"}

OneToOne(f) == \A g, k \in DOMAIN f : f[g] = f[k] => g = k

Typed ==
    /\ stage \in {"idle", "start", "work", "join", "merge", "returned", "aborted"}
    /\ job.len \in Nat /\ job.threads \in 0..MaxThreads /\ job.base \in Nat
    /\ job.from \in [Upto(job.len) -> Cells]
    /\ job.to \in [Upto(job.len) -> Nat] /\ OneToOne(job.to)
    /\ \A g \in Upto(job.len) : Cell(g) \in Cells
    /\ next \in Nat
    /\ at \in [Workers -> Nat] /\ \A w \in Team : at[w] <= ChunkLen(w)
    /\ dst \in [Cells -> Int \cup {Unset}]
    /\ found \in [Workers -> Seq(Int)]
    /\ ~Running => job = NoJob /\ queue = {} /\ at = [w \in Workers |-> 0]
    /\ stage = "idle" => dst = Clean /\ total = 0 /\ found = [w \in Workers |-> <<>>]
    /\ Running \/ stage = "returned" =>
           /\ call.len \in 0..MaxLen
           /\ call.from \in [Upto(call.len) -> Cells]
           /\ call.to \in [Upto(call.len) -> Cells] /\ OneToOne(call.to)
           /\ call.pred \subseteq Upto(call.len)

(* A chunk is done when the caller has joined the helper, and before that  *)
(* every chunk has a thread or needs none.                                 *)
ChunkIsDone(w) == at[w] = ChunkLen(w)

Begun ==
    /\ \A h \in Helpers : team[h] \in {"none", "runs", "ended"}
                          /\ (team[h] = "ended" => ChunkIsDone(h))
    /\ stage = "start" => \A h \in Helpers : h < next => Out(h)
    /\ stage \in {"work", "join"} => \A h \in Helpers : h < job.threads => Out(h) \/ ChunkIsDone(h)
    /\ stage = "join" => next < job.threads
    /\ stage \in {"join", "merge"} => ChunkIsDone(job.threads)
    /\ stage = "merge" => \A w \in Team : ChunkIsDone(w)

(* What a predicate holds for, from lo to below hi.                        *)
Hits(S, lo, hi) == {g \in S : lo <= g /\ g < hi}

(* A sequence lists a set in ascending order, or the first n cells do.     *)
Lists(s, S) == /\ {s[i] : i \in DOMAIN s} = S
               /\ \A i, k \in DOMAIN s : i < k => s[i] < s[k]

FirstList(f, n, S) == /\ n = Cardinality(S)
                      /\ {f[c] : c \in Upto(n)} = S
                      /\ \A c, d \in Upto(n) : c < d => f[c] < f[d]

(* Up to here the caller has joined the helpers. *)
Joined == IF stage = "join" THEN next ELSE IF stage = "merge" THEN job.threads ELSE 0

(* A filter at work: each worker has noted what it met, the caller what    *)
(* lies in the chunks it has joined.                                       *)
Filtering ==
    Running /\ job.kind \in Filters =>
        /\ call.op = job.kind /\ job.len = call.len /\ queue = {}
        /\ \A w \in Team : Lists(found[w], Hits(call.pred, ChunkStart(w), Element(w)))
        /\ total = Cardinality(Hits(call.pred, 0, ChunkStart(Joined)))
        /\ job.kind = "filter_late" => /\ FirstList(dst, total, Hits(call.pred, 0, ChunkStart(Joined)))
                                       /\ \A c \in Cells \ Upto(total) : dst[c] = Unset
        /\ job.kind = "filter_early" => dst = Clean

(* The gather of filter_early for worker w: the results of the workers     *)
(* before it are in place.                                                 *)
Gathering(w) ==
    /\ found[w] # <<>> /\ job.len = Len(found[w])
    /\ job.from = [i \in Upto(job.len) |-> found[w][i + 1]] /\ job.to = Identity(job.len)
    /\ queue = {v \in Finders : v > w}
    /\ FirstList(dst, job.base, Hits(call.pred, 0, From(call.len, job.threads, w)))
    /\ \A v \in Team :
           Lists(found[v], Hits(call.pred, From(call.len, job.threads, v),
                                           To(call.len, job.threads, v)))
    /\ total = Cardinality(call.pred)

(* The elements of the loop that are copied. *)
Written == {g \in Upto(job.len) : \E w \in Team : ChunkStart(w) <= g /\ g < Element(w)}

Copying ==
    Running /\ job.kind \notin Filters =>
        /\ \A g \in Written : dst[Cell(g)] = job.from[g]
        /\ \A c \in Cells : c >= job.base /\ (\A g \in Written : Cell(g) # c) => dst[c] = Unset
        /\ IF call.op \in Filters
           THEN call.op = "filter_early" /\ \E w \in Team : Gathering(w)
           ELSE /\ job.len = call.len /\ job.from = call.from /\ job.to = call.to
                /\ job.base = 0 /\ queue = {}

IInv == Roster /\ Typed /\ Begun /\ Filtering /\ Copying /\ SameAsOneThread

-----------------------------------------------------------------------------
LEMMA InitKeeps == Init => Roster
  BY ParallelAssumption DEF Init, Roster, Out, NoJob, Job, Helpers

(* A loop begins with all helpers at home.                                 *)
LEMMA LaunchKeeps ==
    ASSUME Roster, NEW j, j.threads \in Nat, Launch(j), stage \in {"idle", "merge"}
    PROVE  Roster'
  <1>1. /\ job' = j /\ next' = 0 /\ team' = team
        /\ stage' = IF Started(j) > 0 THEN "start" ELSE "work"
    BY DEF Launch
  <1>2. \A h \in Helpers : ~Out(h) /\ ~Out(h)'
    BY <1>1 DEF Roster, Out
  <1>3. Started(j) > 0 => 0 < j.threads
    BY DEF Started
  <1> QED
    BY <1>1, <1>2, <1>3 DEF Roster, Started

(* A call ends with all helpers at home.                                   *)
LEMMA ReturnKeeps ==
    ASSUME Roster, Return, UNCHANGED <<next, team>>, stage \in {"idle", "merge"}
    PROVE  Roster'
  BY DEF Roster, Return, Out, NoJob, Job

LEMMA CallsKeep == ASSUME Roster, Calls PROVE Roster'
  <1>1. PICK op \in Operations, len \in 0..MaxLen, hint \in {"single", "multi"},
             threads \in 0..MaxThreads :
               \E from \in Sources(op, len), to \in Targets(op, len), pred \in Predicates(op, len) :
                 Call(op, len, hint, threads, from, to, pred)
    BY DEF Calls
  <1>2. PICK from, to, pred : Call(op, len, hint, threads, from, to, pred)
    BY <1>1
  <1>3. stage = "idle"
    BY DEF Calls
  <1> DEFINE here == IF hint = "single" THEN 0 ELSE threads
             j == Job(op, len, here, from, to, 0)
  <1>4. CASE Return /\ UNCHANGED <<next, team>>
    BY <1>3, <1>4, ReturnKeeps
  <1>5. CASE Launch(j)
    <2>1. j.threads \in Nat
      BY ParallelAssumption DEF Job
    <2> QED
      BY <1>3, <1>5, <2>1, LaunchKeeps
  <1> QED
    BY <1>2, <1>4, <1>5 DEF Call

LEMMA StartKeeps == ASSUME Roster, StartHelper PROVE Roster'
  <1>1. next < job.threads /\ next \in Nat /\ job.threads \in Nat /\ stage = "start"
    BY DEF Roster, StartHelper
  <1>2. job' = job /\ team' = [team EXCEPT ![next] = "runs"]
    BY DEF StartHelper
  <1>3. ASSUME NEW h \in Helpers, Out(h)'
        PROVE  h < next + 1 /\ h < job.threads
    <2>1. h = next \/ Out(h)
      BY <1>2, <1>3 DEF Roster, Out
    <2> QED
      BY <1>1, <2>1 DEF Roster, Helpers
  <1>4. CASE next + 1 < job.threads /\ next' = next + 1 /\ stage' = stage
    BY <1>1, <1>2, <1>3, <1>4 DEF Roster, Started
  <1>5. CASE next' = 0 /\ stage' = "work"
    BY <1>1, <1>2, <1>3, <1>5 DEF Roster, Started
  <1> QED
    BY <1>4, <1>5 DEF StartHelper, NextHelper

LEMMA ChunkDoneKeeps == ASSUME Roster, ChunkDone PROVE Roster'
  <1>1. stage = "work" /\ job' = job /\ team' = team /\ next' = next
    BY DEF ChunkDone
  <1>2. CASE Started(job) > 0 /\ stage' = "join"
    BY <1>1, <1>2 DEF Roster, Out, Helpers
  <1>3. CASE ~(Started(job) > 0) /\ stage' = "merge"
    BY <1>1, <1>3 DEF Roster, Out
  <1> QED
    BY <1>2, <1>3 DEF ChunkDone

LEMMA JoinKeeps == ASSUME Roster, Join PROVE Roster'
  <1>1. stage = "join" /\ job' = job /\ team' = [team EXCEPT ![next] = "none"]
    BY DEF Join
  <1>2. next \in Nat /\ job.threads \in Nat
    BY DEF Roster
  <1>3. ASSUME NEW h \in Helpers, Out(h)'
        PROVE  h >= next + 1 /\ h < job.threads
    <2>1. h # next /\ Out(h)
      BY <1>1, <1>3 DEF Roster, Out
    <2> QED
      BY <1>1, <1>2, <2>1 DEF Roster, Helpers
  <1>4. CASE next + 1 < job.threads /\ next' = next + 1 /\ stage' = stage
    BY <1>1, <1>2, <1>3, <1>4 DEF Roster
  <1>5. CASE ~(next + 1 < job.threads) /\ next' = 0 /\ stage' = "merge"
    BY <1>1, <1>2, <1>3, <1>5 DEF Roster, Helpers
  <1> QED
    BY <1>4, <1>5 DEF Join

(* Worker threads start and join nobody.                                   *)
LEMMA WorkerKeeps == ASSUME Roster, NEW w \in Workers, Worker(w) PROVE Roster'
  <1>1. CASE Step(w)
    BY <1>1 DEF Step, Roster, Out, Started
  <1>2. CASE w \in Helpers /\ HelperEnds(w)
    <2>1. /\ UNCHANGED <<stage, job, next>>
          /\ team' = [team EXCEPT ![w] = "ended"] /\ team[w] = "runs"
      BY <1>2 DEF HelperEnds
    <2>2. \A h \in Helpers : Out(h)' <=> Out(h)
      BY <1>2, <2>1 DEF Roster, Out
    <2> QED
      BY <2>1, <2>2 DEF Roster, Started
  <1> QED
    BY <1>1, <1>2 DEF Worker

LEMMA GatherKeeps ==
    ASSUME Roster, NEW workers, NEW base, LaunchGather(workers, base), stage = "merge"
    PROVE  Roster'
  <1>1. PICK w : Launch(GatherOf(w, base))
    BY DEF LaunchGather
  <1>2. GatherOf(w, base).threads \in Nat
    BY DEF GatherOf, Job, Roster
  <1> QED
    BY <1>1, <1>2, LaunchKeeps

LEMMA NextKeeps == Roster /\ [Next]_vars => Roster'
  <1> SUFFICES ASSUME Roster, [Next]_vars PROVE Roster'
    OBVIOUS
  <1>1. CASE ParallelShuffle
    BY <1>1 DEF ParallelShuffle, Roster, Out
  <1>2. CASE Prepare
    BY <1>2 DEF Prepare, Roster, Out
  <1>3. CASE ForReturns
    BY <1>3, ReturnKeeps DEF ForReturns
  <1>4. CASE LateReturns
    BY <1>4, ReturnKeeps DEF LateReturns
  <1>5. CASE EarlyGathers
    BY <1>5, ReturnKeeps, GatherKeeps DEF EarlyGathers
  <1>6. CASE NextGather
    BY <1>6, GatherKeeps DEF NextGather
  <1>7. CASE UNCHANGED vars
    BY <1>7 DEF vars, Roster, Out, Started
  <1> QED
    BY <1>1, <1>2, <1>3, <1>4, <1>5, <1>6, <1>7,
       CallsKeep, StartKeeps, ChunkDoneKeeps, JoinKeeps, WorkerKeeps DEF Next, Caller

(* NoOrphans (in the run Parallel): when a call has returned, or goes on   *)
(* to merge what its threads have found, none of them runs: they work with *)
(* arguments in arrays on the caller's stack.                              *)
THEOREM ParallelNoOrphans == Spec => []NoOrphans
  <1>1. Roster => NoOrphans
    BY DEF Roster, NoOrphans, Out
  <1> QED
    BY <1>1, InitKeeps, NextKeeps, PTL DEF Spec

-----------------------------------------------------------------------------
(* Chunks *)

LEMMA Division ==
    ASSUME NEW n \in Nat, NEW m \in Nat \ {0}
    PROVE  /\ n \div m \in Nat /\ n % m \in Nat
           /\ n = m * (n \div m) + (n % m)
  OBVIOUS

LEMMA Multiples ==
    ASSUME NEW q \in Nat, NEW v \in Nat, NEW w \in Nat
    PROVE  /\ v * q \in Nat
           /\ v < w => v * q + q <= w * q
           /\ (v + 1) * q = v * q + q
  OBVIOUS

LEMMA LeastOne ==
    ASSUME NEW S \in SUBSET Nat, S # {}
    PROVE  \E p \in S : \A q \in S : p <= q
  <1> DEFINE Less == {ss \in Nat \X Nat : ss[1] < ss[2]}
  <1>1. IsWellFoundedOn(Less, Nat)
    BY NatLessThanWellFounded, Zenon DEF OpToRel
  <1> HIDE DEF Less
  <1>2. PICK p \in S : \A q \in S : ~(<<q, p>> \in Less)
    BY <1>1, WFMin
  <1>3. \A q \in S : <<q, p>> \in Nat \X Nat /\ <<q, p>>[1] = q /\ <<q, p>>[2] = p
    OBVIOUS
  <1>4. \A q \in S : ~(q < p)
    BY <1>2, <1>3, Zenon DEF Less
  <1> QED
    BY <1>4

(* The chunks follow one another and together are all elements.            *)
LEMMA Chunks ==
    ASSUME NEW n \in Nat, NEW t \in Nat
    PROVE  /\ \A w \in 0..t : /\ From(n, t, w) \in Nat /\ Size(n, t, w) \in Nat
                             /\ To(n, t, w) \in Nat /\ To(n, t, w) <= n
           /\ \A w \in 0..t : w + 1 <= t => From(n, t, w + 1) = To(n, t, w)
           /\ \A v, w \in 0..t : v < w => To(n, t, v) <= From(n, t, w)
           /\ From(n, t, 0) = 0 /\ To(n, t, t) = n
           /\ \A g \in Upto(n) : \E w \in 0..t : From(n, t, w) <= g /\ g < To(n, t, w)
  <1> DEFINE q == n \div (t + 1)
             r == n % (t + 1)
  <1>1. q \in Nat /\ r \in Nat /\ n = (t + 1) * q + r
    <2>1. t + 1 \in Nat \ {0}
      OBVIOUS
    <2> QED
      BY <2>1, Division, Zenon
  <1> HIDE DEF q, r
  <1>2. /\ \A w : From(n, t, w) = w * q
        /\ \A w : Size(n, t, w) = q + IF w = t THEN r ELSE 0
    BY DEF From, Size, q, r
  <1>3. \A w \in 0..t : /\ From(n, t, w) \in Nat /\ Size(n, t, w) \in Nat
                       /\ To(n, t, w) \in Nat
                       /\ To(n, t, w) = w * q + q + IF w = t THEN r ELSE 0
    <2> SUFFICES ASSUME NEW w \in 0..t
                 PROVE  /\ From(n, t, w) \in Nat /\ Size(n, t, w) \in Nat
                        /\ To(n, t, w) \in Nat
                        /\ To(n, t, w) = w * q + q + IF w = t THEN r ELSE 0
      OBVIOUS
    <2> DEFINE a == w * q
    <2>1. From(n, t, w) = a /\ a \in Nat
      BY <1>1, <1>2, Multiples
    <2>2. Size(n, t, w) = q + IF w = t THEN r ELSE 0
      BY <1>2
    <2> HIDE DEF a
    <2>3. To(n, t, w) = a + q + IF w = t THEN r ELSE 0
      BY <1>1, <2>1, <2>2 DEF To
    <2> QED
      BY <1>1, <2>1, <2>2, <2>3 DEF To, a
  <1>4. n = t * q + q + r /\ t * q \in Nat
    BY <1>1, Multiples
  <1>5. To(n, t, t) = n
    BY <1>3, <1>4
  <1>6. \A v, w \in 0..t : v < w => To(n, t, v) <= From(n, t, w)
    <2> SUFFICES ASSUME NEW v \in 0..t, NEW w \in 0..t, v < w
                 PROVE  To(n, t, v) <= From(n, t, w)
      OBVIOUS
    <2>1. To(n, t, v) = v * q + q /\ v * q \in Nat /\ v * q + q <= w * q
      BY <1>1, <1>3, Multiples
    <2> QED
      BY <1>2, <2>1
  <1>7. \A w \in 0..t : To(n, t, w) <= n
    <2> SUFFICES ASSUME NEW w \in 0..t, w # t PROVE To(n, t, w) <= n
      BY <1>4, <1>5
    <2>1. To(n, t, w) <= From(n, t, t)
      BY <1>6
    <2> QED
      BY <1>1, <1>2, <1>3, <1>4, <2>1
  <1>8. From(n, t, 0) = 0
    BY <1>1, <1>2
  <1>9. \A w \in 0..t : w + 1 <= t => From(n, t, w + 1) = To(n, t, w)
    <2> SUFFICES ASSUME NEW w \in 0..t, w + 1 <= t
                 PROVE  From(n, t, w + 1) = To(n, t, w)
      OBVIOUS
    <2>1. To(n, t, w) = w * q + q /\ (w + 1) * q = w * q + q
      BY <1>1, <1>3, Multiples
    <2> QED
      BY <1>2, <2>1
  <1>10. ASSUME NEW g \in Upto(n)
         PROVE  \E w \in 0..t : From(n, t, w) <= g /\ g < To(n, t, w)
    <2> DEFINE beyond == {w \in 0..t : g < To(n, t, w)}
    <2>1. t \in beyond /\ beyond \in SUBSET Nat
      BY <1>5, <1>10 DEF Upto
    <2>2. PICK w \in beyond : \A v \in beyond : w <= v
      BY <2>1, LeastOne
    <2>3. CASE w = 0
      BY <1>8, <1>10, <2>2, <2>3 DEF Upto
    <2>4. CASE w # 0
      <3>1. w - 1 \in 0..t /\ w - 1 \notin beyond /\ (w - 1) + 1 = w /\ w <= t
        BY <2>2, <2>4
      <3>2. To(n, t, w - 1) <= g
        BY <1>3, <1>10, <3>1 DEF Upto
      <3>3. From(n, t, w) = To(n, t, w - 1)
        BY <1>9, <3>1
      <3> QED
        BY <2>2, <3>2, <3>3
    <2> QED
      BY <2>3, <2>4
  <1> QED
    BY <1>3, <1>5, <1>6, <1>7, <1>8, <1>9, <1>10

-----------------------------------------------------------------------------
(* Lists of positions *)

LEMMA BelowFinite ==
    ASSUME NEW n \in Nat, NEW S \in SUBSET Upto(n)
    PROVE  S \in SUBSET Nat /\ IsFiniteSet(S) /\ Cardinality(S) <= n
  <1>1. IsFiniteSet(Upto(n)) /\ Cardinality(Upto(n)) = n
    <2>1. 0 \in Int /\ n - 1 \in Int
      OBVIOUS
    <2>2. IsFiniteSet(0..n - 1) /\ Cardinality(0..n - 1) = IF 0 > n - 1 THEN 0 ELSE (n - 1) - 0 + 1
      BY <2>1, FS_Interval
    <2> QED
      BY <2>2 DEF Upto
  <1>2. S \in SUBSET Nat
    BY DEF Upto
  <1> QED
    BY <1>1, <1>2, FS_Subset

LEMMA HitsFinite ==
    ASSUME NEW S, IsFiniteSet(S), NEW a, NEW b
    PROVE  /\ IsFiniteSet(Hits(S, a, b)) /\ Cardinality(Hits(S, a, b)) \in Nat
           /\ Cardinality(Hits(S, a, b)) <= Cardinality(S)
  <1>1. Hits(S, a, b) \in SUBSET S
    BY DEF Hits
  <1> QED
    BY <1>1, FS_Subset, FS_CardinalityType

LEMMA HitsAdd ==
    ASSUME NEW S \in SUBSET Nat, IsFiniteSet(S), NEW a \in Nat, NEW b \in Nat, NEW c \in Nat,
           a <= b, b <= c
    PROVE  /\ Hits(S, a, c) = Hits(S, a, b) \cup Hits(S, b, c)
           /\ Cardinality(Hits(S, a, c)) = Cardinality(Hits(S, a, b)) + Cardinality(Hits(S, b, c))
  <1>1. S \subseteq Nat
    OBVIOUS
  <1>2. \A x \in S : /\ a <= x /\ x < c <=> (a <= x /\ x < b) \/ (b <= x /\ x < c)
                     /\ ~(x < b /\ b <= x)
    BY <1>1
  <1>3. Hits(S, a, c) = Hits(S, a, b) \cup Hits(S, b, c)
    BY <1>2 DEF Hits
  <1>4. Hits(S, a, b) \cap Hits(S, b, c) = {}
    BY <1>2 DEF Hits
  <1>5. /\ IsFiniteSet(Hits(S, a, b)) /\ IsFiniteSet(Hits(S, b, c))
        /\ Cardinality(Hits(S, a, b)) \in Nat /\ Cardinality(Hits(S, b, c)) \in Nat
    BY HitsFinite
  <1>6. /\ Cardinality(Hits(S, a, b) \cup Hits(S, b, c)) =
              Cardinality(Hits(S, a, b)) + Cardinality(Hits(S, b, c))
                - Cardinality(Hits(S, a, b) \cap Hits(S, b, c))
    BY <1>5, FS_Union
  <1>7. Cardinality({}) = 0
    BY FS_EmptySet
  <1>8. Cardinality(Hits(S, a, c)) = Cardinality(Hits(S, a, b)) + Cardinality(Hits(S, b, c)) - 0
    BY <1>3, <1>4, <1>6, <1>7, Zenon
  <1> QED
    BY <1>3, <1>5, <1>8

LEMMA HitsFromZero ==
    ASSUME NEW S \in SUBSET Nat, IsFiniteSet(S), NEW b \in Nat, NEW c \in Nat, b <= c
    PROVE  /\ Hits(S, 0, c) = Hits(S, 0, b) \cup Hits(S, b, c)
           /\ Cardinality(Hits(S, 0, c)) = Cardinality(Hits(S, 0, b)) + Cardinality(Hits(S, b, c))
  <1>1. PICK z \in Nat : z = 0 /\ z <= b
    OBVIOUS
  <1>2. /\ Hits(S, z, c) = Hits(S, z, b) \cup Hits(S, b, c)
        /\ Cardinality(Hits(S, z, c)) = Cardinality(Hits(S, z, b)) + Cardinality(Hits(S, b, c))
    BY <1>1, HitsAdd
  <1> QED
    BY <1>1, <1>2

LEMMA ListLength ==
    ASSUME NEW s \in Seq(Int), NEW S, Lists(s, S)
    PROVE  Cardinality(S) = Len(s)
  <1>1. Len(s) \in Nat /\ DOMAIN s = 1..Len(s) /\ \A i \in 1..Len(s) : s[i] \in Int
    OBVIOUS
  <1>2. s \in [1..Len(s) -> S]
    BY <1>1 DEF Lists
  <1>3. \A i, k \in 1..Len(s) : s[i] = s[k] => i = k
    <2> SUFFICES ASSUME NEW i \in 1..Len(s), NEW k \in 1..Len(s), s[i] = s[k], i < k
                 PROVE  FALSE
      BY <1>1
    <2>1. s[i] < s[k] /\ s[i] \in Int
      BY <1>1 DEF Lists
    <2> QED
      BY <2>1
  <1>4. s \in Bijection(1..Len(s), S)
    BY <1>1, <1>2, <1>3 DEF Bijection, Injection, Surjection, IsInjective, Lists
  <1>5. IsFiniteSet(1..Len(s)) /\ Cardinality(1..Len(s)) = Len(s)
    <2>1. 1 \in Int /\ Len(s) \in Int
      BY <1>1
    <2>2. IsFiniteSet(1..Len(s)) /\ Cardinality(1..Len(s)) = IF 1 > Len(s) THEN 0 ELSE Len(s) - 1 + 1
      BY <2>1, FS_Interval
    <2> QED
      BY <1>1, <2>2
  <1> QED
    BY <1>4, <1>5, FS_Bijection DEF ExistsBijection

LEMMA NotEmpty == ASSUME NEW s \in Seq(Int), s # <<>> PROVE {s[i] : i \in DOMAIN s} # {}
  <1>1. Len(s) # 0
    OBVIOUS
  <1>2. 1 \in DOMAIN s
    BY <1>1
  <1> QED
    BY <1>2

(* A worker meets the next element. *)
LEMMA NotedNext ==
    ASSUME NEW s \in Seq(Int), NEW S \in SUBSET Nat, NEW a \in Nat, NEW g \in Nat, a <= g,
           Lists(s, Hits(S, a, g))
    PROVE  /\ g \in S => Lists(Append(s, g), Hits(S, a, g + 1))
           /\ g \notin S => Lists(s, Hits(S, a, g + 1))
  <1>1. Len(s) \in Nat /\ DOMAIN s = 1..Len(s) /\ \A i \in 1..Len(s) : s[i] \in Int
    OBVIOUS
  <1>2. CASE g \notin S
    <2>1. \A x \in S : x < g + 1 <=> x < g
      BY <1>2
    <2>2. Hits(S, a, g + 1) = Hits(S, a, g)
      BY <2>1 DEF Hits
    <2> QED
      BY <1>2, <2>2
  <1>3. CASE g \in S
    <2> DEFINE u == Append(s, g)
    <2>1. /\ DOMAIN u = 1..Len(s) + 1 /\ u[Len(s) + 1] = g
          /\ \A i \in 1..Len(s) : u[i] = s[i]
      BY <1>1
    <2> HIDE DEF u
    <2>2. Hits(S, a, g + 1) = Hits(S, a, g) \cup {g}
      <3>1. \A x \in S : x < g + 1 <=> x < g \/ x = g
        OBVIOUS
      <3> QED
        BY <1>3, <3>1 DEF Hits
    <2>3. \A i \in DOMAIN u : i = Len(s) + 1 \/ i \in DOMAIN s
      BY <1>1, <2>1
    <2>4. {u[i] : i \in DOMAIN u} = {s[i] : i \in DOMAIN s} \cup {g}
      <3>1. \A i \in DOMAIN s : i \in DOMAIN u
        BY <1>1, <2>1
      <3>2. Len(s) + 1 \in DOMAIN u
        BY <1>1, <2>1
      <3> QED
        BY <1>1, <2>1, <2>3, <3>1, <3>2
    <2>5. \A i \in 1..Len(s) : s[i] < g
      BY <1>1 DEF Lists, Hits
    <2>6. \A i, k \in DOMAIN u : i < k => u[i] < u[k]
      <3> SUFFICES ASSUME NEW i \in DOMAIN u, NEW k \in DOMAIN u, i < k PROVE u[i] < u[k]
        OBVIOUS
      <3>1. i \in 1..Len(s)
        BY <1>1, <2>1
      <3>2. CASE k = Len(s) + 1
        BY <2>1, <2>5, <3>1, <3>2
      <3>3. CASE k \in 1..Len(s)
        BY <1>1, <2>1, <3>1, <3>3 DEF Lists
      <3> QED
        BY <1>1, <2>1, <3>2, <3>3
    <2>7. Lists(u, Hits(S, a, g + 1))
      BY <2>2, <2>4, <2>6 DEF Lists
    <2> QED
      BY <1>3, <2>7 DEF u
  <1> QED
    BY <1>2, <1>3

(* The list of a chunk is put behind those of the chunks before it.        *)
LEMMA ListsJoin ==
    ASSUME NEW S \in SUBSET Nat, IsFiniteSet(S), NEW b \in Nat, NEW c \in Nat, b <= c,
           NEW f, NEW m \in Nat, FirstList(f, m, Hits(S, 0, b)),
           NEW s \in Seq(Int), Lists(s, Hits(S, b, c)),
           \A i \in 1..Len(s) : f[m + i - 1] = s[i]
    PROVE  FirstList(f, m + Len(s), Hits(S, 0, c))
  <1>1. Len(s) \in Nat /\ DOMAIN s = 1..Len(s)
    OBVIOUS
  <1>2. S \subseteq Nat
    OBVIOUS
  <1>3. m + Len(s) = Cardinality(Hits(S, 0, c)) /\ Hits(S, 0, c) = Hits(S, 0, b) \cup Hits(S, b, c)
    <2>1. /\ Hits(S, 0, c) = Hits(S, 0, b) \cup Hits(S, b, c)
          /\ Cardinality(Hits(S, 0, c)) = Cardinality(Hits(S, 0, b)) + Cardinality(Hits(S, b, c))
      BY HitsFromZero
    <2>2. m = Cardinality(Hits(S, 0, b)) /\ Len(s) = Cardinality(Hits(S, b, c))
      BY ListLength DEF FirstList
    <2> QED
      BY <2>1, <2>2
  <1>4. \A x \in Upto(m) : f[x] \in Hits(S, 0, b)
    BY DEF FirstList
  <1>5. \A x \in Upto(m + Len(s)) : x \notin Upto(m) =>
           (x - m) + 1 \in DOMAIN s /\ f[x] = s[(x - m) + 1]
    <2> SUFFICES ASSUME NEW x \in Upto(m + Len(s)), x \notin Upto(m)
                 PROVE  (x - m) + 1 \in DOMAIN s /\ f[x] = s[(x - m) + 1]
      OBVIOUS
    <2>1. (x - m) + 1 \in 1..Len(s) /\ (m + ((x - m) + 1)) - 1 = x
      BY <1>1 DEF Upto
    <2> QED
      BY <1>1, <2>1
  <1>6. \A i \in DOMAIN s : (m + i) - 1 \in Upto(m + Len(s))
    BY <1>1 DEF Upto
  <1>7. \A x \in Upto(m) : x \in Upto(m + Len(s))
    BY <1>1 DEF Upto
  <1>8. {f[x] : x \in Upto(m + Len(s))} = {f[x] : x \in Upto(m)} \cup {s[i] : i \in DOMAIN s}
    <2>1. ASSUME NEW x \in Upto(m + Len(s))
          PROVE  f[x] \in {f[y] : y \in Upto(m)} \cup {s[i] : i \in DOMAIN s}
      BY <1>5
    <2>2. ASSUME NEW i \in DOMAIN s
          PROVE  s[i] \in {f[x] : x \in Upto(m + Len(s))}
      <3>1. (m + i) - 1 \in Upto(m + Len(s)) /\ f[(m + i) - 1] = s[i]
        BY <1>1, <1>6
      <3> QED
        BY <3>1, Zenon
    <2> QED
      BY <1>7, <2>1, <2>2
  <1>9. \A x, y \in Upto(m + Len(s)) : x < y => f[x] < f[y]
    <2> SUFFICES ASSUME NEW x \in Upto(m + Len(s)), NEW y \in Upto(m + Len(s)), x < y
                 PROVE  f[x] < f[y]
      OBVIOUS
    <2>1. x \in Nat /\ y \in Nat
      BY <1>1 DEF Upto
    <2>2. CASE y \in Upto(m)
      <3>1. x \in Upto(m)
        BY <2>1, <2>2 DEF Upto
      <3> QED
        BY <2>2, <3>1 DEF FirstList
    <2>3. CASE x \in Upto(m) /\ y \notin Upto(m)
      <3>1. f[x] \in Hits(S, 0, b) /\ f[y] \in Hits(S, b, c)
        BY <1>4, <1>5, <2>3 DEF Lists
      <3>2. f[x] \in Nat /\ f[x] < b /\ f[y] \in Nat /\ b <= f[y]
        BY <1>2, <3>1 DEF Hits
      <3> QED
        BY <3>2
    <2>4. CASE x \notin Upto(m) /\ y \notin Upto(m)
      <3>1. (x - m) + 1 < (y - m) + 1
        BY <2>1
      <3> QED
        BY <1>5, <2>4, <3>1 DEF Lists
    <2> QED
      BY <2>2, <2>3, <2>4
  <1>10. {f[x] : x \in Upto(m + Len(s))} = Hits(S, 0, c)
    BY <1>3, <1>8 DEF FirstList, Lists
  <1> QED
    BY <1>3, <1>9, <1>10 DEF FirstList

-----------------------------------------------------------------------------
(* The loop that runs *)

LEMMA JobChunks ==
    ASSUME Typed
    PROVE  /\ job.len \in Nat /\ job.threads \in Nat /\ Team \subseteq Workers
           /\ \A w \in Team : /\ ChunkStart(w) = From(job.len, job.threads, w)
                              /\ ChunkStart(w) + ChunkLen(w) = To(job.len, job.threads, w)
                              /\ ChunkStart(w) \in Nat /\ ChunkLen(w) \in Nat
                              /\ ChunkStart(w) + ChunkLen(w) <= job.len
                              /\ at[w] \in Nat /\ at[w] <= ChunkLen(w)
           /\ \A v, w \in Team : v < w => ChunkStart(v) + ChunkLen(v) <= ChunkStart(w)
           /\ ChunkStart(0) = 0
           /\ \A g \in Upto(job.len) :
                  \E w \in Team : ChunkStart(w) <= g /\ g < ChunkStart(w) + ChunkLen(w)
  <1>1. job.len \in Nat /\ job.threads \in Nat /\ Team \subseteq Workers
    BY ParallelAssumption DEF Typed, Team, Workers
  <1>2. \A w : ChunkStart(w) = From(job.len, job.threads, w) /\ ChunkLen(w) = Size(job.len, job.threads, w)
    BY DEF ChunkStart, ChunkLen, From, Size
  <1>3. \A w \in Team : ChunkStart(w) + ChunkLen(w) = To(job.len, job.threads, w)
    BY <1>2 DEF To
  <1>4. \A w \in Team : at[w] \in Nat /\ at[w] <= ChunkLen(w)
    BY <1>1 DEF Typed
  <1> DEFINE n == job.len
             t == job.threads
  <1>5. /\ \A w \in 0..t : /\ From(n, t, w) \in Nat /\ Size(n, t, w) \in Nat
                          /\ To(n, t, w) \in Nat /\ To(n, t, w) <= n
        /\ \A v, w \in 0..t : v < w => To(n, t, v) <= From(n, t, w)
        /\ From(n, t, 0) = 0
        /\ \A g \in Upto(n) : \E w \in 0..t : From(n, t, w) <= g /\ g < To(n, t, w)
    BY <1>1, Chunks
  <1> QED
    BY <1>1, <1>2, <1>3, <1>4, <1>5 DEF Team

(* What a worker has still to do is its own, and nobody has copied it.     *)
LEMMA StillToDo ==
    ASSUME Typed, NEW w \in Team, NEW g \in Nat, Element(w) <= g, g < ChunkStart(w) + ChunkLen(w)
    PROVE  /\ g \in Upto(job.len) /\ ChunkStart(w) <= g
           /\ \A v \in Team : ~(ChunkStart(v) <= g /\ g < Element(v))
           /\ \A v \in Team : v # w => ~(ChunkStart(v) <= g /\ g < ChunkStart(v) + ChunkLen(v))
  <1>1. /\ ChunkStart(w) \in Nat /\ ChunkLen(w) \in Nat /\ at[w] \in Nat
        /\ ChunkStart(w) + ChunkLen(w) <= job.len /\ job.len \in Nat
    BY JobChunks
  <1>2. ChunkStart(w) <= g /\ Element(w) \in Nat
    BY <1>1 DEF Element
  <1>3. ASSUME NEW v \in Team, v # w, ChunkStart(v) <= g, g < ChunkStart(v) + ChunkLen(v)
        PROVE  FALSE
    <2>1. /\ ChunkStart(v) \in Nat /\ ChunkLen(v) \in Nat
          /\ v < w => ChunkStart(v) + ChunkLen(v) <= ChunkStart(w)
          /\ w < v => ChunkStart(w) + ChunkLen(w) <= ChunkStart(v)
      BY JobChunks
    <2>2. v \in Nat /\ w \in Nat
      BY DEF Team
    <2> QED
      BY <1>1, <1>2, <1>3, <2>1, <2>2
  <1>4. ASSUME NEW v \in Team, ChunkStart(v) <= g, g < Element(v)
        PROVE  FALSE
    <2>1. ChunkStart(v) \in Nat /\ ChunkLen(v) \in Nat /\ at[v] \in Nat /\ at[v] <= ChunkLen(v)
      BY JobChunks
    <2>2. Element(v) <= ChunkStart(v) + ChunkLen(v) /\ Element(v) \in Nat
      BY <2>1 DEF Element
    <2> QED
      BY <1>2, <1>3, <1>4, <2>1, <2>2
  <1>5. g \in Upto(job.len)
    BY <1>1 DEF Upto
  <1> QED
    BY <1>2, <1>3, <1>4, <1>5

(* So is the element a worker is at.                                       *)
LEMMA ElementIsNew ==
    ASSUME Typed, NEW w \in Team, at[w] < ChunkLen(w)
    PROVE  /\ Element(w) \in Nat /\ Element(w) \in Upto(job.len)
           /\ ChunkStart(w) <= Element(w)
           /\ \A v \in Team : ~(ChunkStart(v) <= Element(w) /\ Element(w) < Element(v))
  <1>1. ChunkStart(w) \in Nat /\ ChunkLen(w) \in Nat /\ at[w] \in Nat
    BY JobChunks
  <1>2. Element(w) \in Nat /\ Element(w) <= Element(w) /\ Element(w) < ChunkStart(w) + ChunkLen(w)
    BY <1>1 DEF Element
  <1> QED
    BY <1>2, StillToDo

(* When every chunk is done, every element is.                             *)
LEMMA AllWritten ==
    ASSUME Typed, \A w \in Team : ChunkIsDone(w)
    PROVE  Written = Upto(job.len)
  <1>1. \A w \in Team : Element(w) = ChunkStart(w) + ChunkLen(w)
    BY DEF ChunkIsDone, Element
  <1> QED
    BY <1>1, JobChunks DEF Written

LEMMA CallPredicate ==
    ASSUME Typed, Running \/ stage = "returned"
    PROVE  /\ call.len \in Nat /\ call.len <= MaxLen /\ MaxLen \in Nat
           /\ call.pred \in SUBSET Upto(call.len) /\ call.pred \in SUBSET Nat
           /\ IsFiniteSet(call.pred) /\ Cardinality(call.pred) <= call.len
           /\ Cardinality(call.pred) \in Nat
  <1>1. call.len \in 0..MaxLen /\ MaxLen \in Nat /\ call.pred \in SUBSET Upto(call.len)
    BY ParallelAssumption DEF Typed
  <1>2. PICK n \in Nat : n = call.len /\ n <= MaxLen
    BY <1>1
  <1>3. PICK S \in SUBSET Upto(n) : S = call.pred
    BY <1>1, <1>2
  <1>4. S \in SUBSET Nat /\ IsFiniteSet(S) /\ Cardinality(S) <= n
    BY BelowFinite
  <1>5. Cardinality(S) \in Nat
    BY <1>4, FS_CardinalityType
  <1> QED
    BY <1>1, <1>2, <1>3, <1>4, <1>5

(* Nothing is hit between two chunks when none of the workers between them *)
(* found anything.                                                         *)
LEMMA NothingBetween ==
    ASSUME Typed, Running,
           \A v \in Team : Lists(found[v], Hits(call.pred, From(call.len, job.threads, v),
                                                           To(call.len, job.threads, v))),
           NEW lo \in Nat, NEW hi \in Nat, lo <= hi,
           \A v \in Finders : \/ To(call.len, job.threads, v) <= lo
                              \/ hi <= From(call.len, job.threads, v)
    PROVE  Hits(call.pred, 0, hi) = Hits(call.pred, 0, lo)
  <1>1. /\ call.len \in Nat /\ job.threads \in Nat /\ Team = 0..job.threads
        /\ call.pred \in SUBSET Nat /\ call.pred \in SUBSET Upto(call.len)
    BY CallPredicate, JobChunks DEF Team
  <1>2. ASSUME NEW g \in call.pred, lo <= g, g < hi PROVE FALSE
    <2>1. g \in Upto(call.len) /\ g \in Nat
      BY <1>1
    <2>2. PICK v \in Team : /\ From(call.len, job.threads, v) <= g
                           /\ g < To(call.len, job.threads, v)
      BY <1>1, <2>1, Chunks
    <2>3. g \in {found[v][i] : i \in DOMAIN found[v]}
      BY <2>2 DEF Lists, Hits
    <2>4. v \in Finders
      BY <1>1, <2>3 DEF Finders
    <2>5. From(call.len, job.threads, v) \in Nat /\ To(call.len, job.threads, v) \in Nat
      BY <1>1, Chunks
    <2> QED
      BY <1>2, <2>1, <2>2, <2>4, <2>5
  <1>3. \A g \in call.pred : g \in Nat /\ (g < lo => g < hi)
    BY <1>1
  <1> QED
    BY <1>2, <1>3 DEF Hits

(* memcpy of a list behind the cells that hold the lists before it.        *)
LEMMA AppendedLists ==
    ASSUME Typed, Running, NEW b \in Nat, NEW c \in Nat, b <= c,
           FirstList(dst, total, Hits(call.pred, 0, b)),
           \A x \in Cells \ Upto(total) : dst[x] = Unset,
           NEW s \in Seq(Int), Lists(s, Hits(call.pred, b, c))
    PROVE  /\ Appended(s) \in [Cells -> Int \cup {Unset}]
           /\ FirstList(Appended(s), total + Len(s), Hits(call.pred, 0, c))
           /\ \A x \in Cells \ Upto(total + Len(s)) : Appended(s)[x] = Unset
  <1> DEFINE S == call.pred
             d == Appended(s)
  <1>1. /\ call.len \in Nat /\ call.len <= MaxLen /\ MaxLen \in Nat
        /\ S \in SUBSET Nat /\ IsFiniteSet(S) /\ Cardinality(S) <= call.len
    BY CallPredicate
  <1> HIDE DEF S
  <1>2. Cardinality(Hits(S, 0, c)) = Cardinality(Hits(S, 0, b)) + Cardinality(Hits(S, b, c))
    BY <1>1, HitsFromZero
  <1>3. /\ Cardinality(Hits(S, 0, b)) \in Nat /\ Cardinality(Hits(S, 0, c)) \in Nat
        /\ Cardinality(Hits(S, 0, c)) <= Cardinality(S) /\ Cardinality(S) \in Nat
    BY <1>1, HitsFinite, FS_CardinalityType
  <1>4. total = Cardinality(Hits(S, 0, b)) /\ Len(s) = Cardinality(Hits(S, b, c))
    BY ListLength DEF FirstList, S
  <1>5. total \in Nat /\ Len(s) \in Nat /\ total + Len(s) <= MaxLen
    BY <1>1, <1>2, <1>3, <1>4
  <1>6. \A x \in Cells : d[x] = IF x \in total..total + Len(s) - 1 THEN s[x - total + 1] ELSE dst[x]
    BY DEF Appended
  <1>7. d \in [Cells -> Int \cup {Unset}]
    <2> SUFFICES ASSUME NEW x \in Cells, x \in total..total + Len(s) - 1
                 PROVE  s[x - total + 1] \in Int
      BY DEF Appended, Typed
    <2>1. x - total + 1 \in 1..Len(s)
      BY <1>5 DEF Cells
    <2> QED
      BY <2>1
  <1> HIDE DEF d
  <1>8. \A x \in Upto(total) : x \in Cells /\ d[x] = dst[x]
    <2> SUFFICES ASSUME NEW x \in Upto(total) PROVE x \in Cells /\ d[x] = dst[x]
      OBVIOUS
    <2>1. x \in Cells /\ x \notin total..total + Len(s) - 1
      BY <1>1, <1>5 DEF Upto, Cells
    <2> QED
      BY <1>6, <2>1
  <1>9. \A i \in 1..Len(s) : d[(total + i) - 1] = s[i]
    <2> SUFFICES ASSUME NEW i \in 1..Len(s) PROVE d[(total + i) - 1] = s[i]
      OBVIOUS
    <2>1. /\ (total + i) - 1 \in Cells /\ (total + i) - 1 \in total..total + Len(s) - 1
          /\ ((total + i) - 1) - total + 1 = i
      BY <1>1, <1>5 DEF Cells
    <2> QED
      BY <1>6, <2>1
  <1>10. FirstList(d, total, Hits(S, 0, b)) /\ Lists(s, Hits(S, b, c))
    BY <1>8 DEF FirstList, S
  <1>11. FirstList(d, total + Len(s), Hits(S, 0, c))
    BY <1>1, <1>5, <1>9, <1>10, ListsJoin
  <1>12. ASSUME NEW x \in Cells \ Upto(total + Len(s)) PROVE d[x] = Unset
    <2>1. x \notin Upto(total) /\ x \notin total..total + Len(s) - 1
      BY <1>5, <1>12 DEF Upto, Cells
    <2> QED
      BY <1>6, <1>12, <2>1
  <1> QED
    BY <1>7, <1>11, <1>12 DEF d, S

(* All a filter can hit lies below its length. *)
LEMMA HitsAll ==
    ASSUME Typed, Running \/ stage = "returned"
    PROVE  Hits(call.pred, 0, call.len) = call.pred
  <1>1. \A g \in call.pred : 0 <= g /\ g < call.len
    BY CallPredicate DEF Upto
  <1> QED
    BY <1>1 DEF Hits

(* No two workers of a loop write the same cell, and none leaves the part  *)
(* of the destination that the loop is for.                                *)
LEMMA Apart == Typed /\ Copying => CellsApart
  <1> SUFFICES ASSUME Typed, Copying,
                      NEW v \in 0..job.threads, NEW w \in 0..job.threads
               PROVE  /\ v # w => ToWrite(v) \cap ToWrite(w) = {}
                      /\ ToWrite(w) \subseteq Cells
                      /\ \A c \in ToWrite(w) : dst[c] = Unset
    BY DEF CellsApart
  <1>1. CASE job.kind \in Filters
    BY <1>1 DEF ToWrite
  <1>2. CASE job.kind \notin Filters
    <2>1. \A u \in Team : /\ ChunkStart(u) \in Nat /\ ChunkLen(u) \in Nat
                          /\ Element(u) \in Nat /\ ChunkStart(u) <= Element(u)
      BY JobChunks DEF Element
    <2>2. ASSUME NEW u \in Team, NEW c \in ToWrite(u)
          PROVE  \E g \in Upto(job.len) :
                    /\ c = Cell(g) /\ g \notin Written
                    /\ ChunkStart(u) <= g /\ g < ChunkStart(u) + ChunkLen(u)
                    /\ \A x \in Team : x # u =>
                           ~(ChunkStart(x) <= g /\ g < ChunkStart(x) + ChunkLen(x))
      <3>1. PICK g \in Element(u)..ChunkStart(u) + ChunkLen(u) - 1 : c = Cell(g)
        BY <1>2, <2>2 DEF ToWrite
      <3>2. g \in Nat /\ Element(u) <= g /\ g < ChunkStart(u) + ChunkLen(u)
        BY <2>1
      <3>3. /\ g \in Upto(job.len) /\ ChunkStart(u) <= g
            /\ \A x \in Team : ~(ChunkStart(x) <= g /\ g < Element(x))
            /\ \A x \in Team : x # u => ~(ChunkStart(x) <= g /\ g < ChunkStart(x) + ChunkLen(x))
        BY <3>2, StillToDo
      <3>4. g \notin Written
        BY <3>3 DEF Written
      <3> QED
        BY <3>1, <3>2, <3>3, <3>4
    <2>3. v \in Team /\ w \in Team
      BY DEF Team
    <2>4. \A g, k \in Upto(job.len) : Cell(g) = Cell(k) => g = k
      BY DEF Typed, OneToOne, Cell
    <2>5. v # w => ToWrite(v) \cap ToWrite(w) = {}
      BY <2>2, <2>3, <2>4
    <2>6. ToWrite(w) \subseteq Cells
      BY <2>2, <2>3 DEF Typed
    <2>7. ASSUME NEW c \in ToWrite(w) PROVE dst[c] = Unset
      <3>1. PICK g \in Upto(job.len) : c = Cell(g) /\ g \notin Written
        BY <2>2, <2>3
      <3>2. job.len # 0
        BY <3>1 DEF Upto
      <3>3. Running
        BY <3>2 DEF Typed, NoJob, Job
      <3>4. c \in Cells /\ c >= job.base
        BY <3>1 DEF Typed, Cell
      <3>5. \A k \in Written : Cell(k) # c
        BY <2>4, <3>1 DEF Written
      <3> QED
        BY <1>2, <3>3, <3>4, <3>5 DEF Copying
    <2> QED
      BY <2>5, <2>6, <2>7
  <1> QED
    BY <1>1, <1>2

-----------------------------------------------------------------------------
(* The steps of a call *)

Work == Typed /\ Begun /\ Filtering /\ Copying

(* What a call may be given, and what it is. *)
CallTyped == /\ call.len \in 0..MaxLen
             /\ call.from \in [Upto(call.len) -> Cells]
             /\ call.to \in [Upto(call.len) -> Cells] /\ OneToOne(call.to)
             /\ call.pred \subseteq Upto(call.len)

JobTyped(j) == /\ j.len \in Nat /\ j.threads \in 0..MaxThreads /\ j.base \in Nat
               /\ j.from \in [Upto(j.len) -> Cells]
               /\ j.to \in [Upto(j.len) -> Nat] /\ OneToOne(j.to)
               /\ \A g \in Upto(j.len) : j.base + j.to[g] \in Cells

LEMMA ArgumentsTyped ==
    ASSUME NEW op, NEW len \in 0..MaxLen, NEW from \in Sources(op, len),
           NEW to \in Targets(op, len), NEW pred \in Predicates(op, len)
    PROVE  /\ from \in [Upto(len) -> Cells] /\ to \in [Upto(len) -> Cells] /\ OneToOne(to)
           /\ pred \subseteq Upto(len)
  <1>1. MaxLen \in Nat
    BY ParallelAssumption
  <1>2. Identity(len) \in [Upto(len) -> Cells] /\ OneToOne(Identity(len))
    BY <1>1 DEF Identity, Upto, Cells, OneToOne
  <1>3. from \in [Upto(len) -> Cells]
    BY <1>2 DEF Sources
  <1>4. to \in [Upto(len) -> Cells] /\ OneToOne(to)
    BY <1>2 DEF Targets, Injections, OneToOne
  <1> QED
    BY <1>3, <1>4 DEF Predicates

(* A loop of no element is done.                                           *)
LEMMA NoJobTyped == JobTyped(NoJob)
  <1>1. Upto(0) = {}
    BY DEF Upto
  <1> QED
    BY <1>1, ParallelAssumption DEF JobTyped, NoJob, Job, Identity, OneToOne

(* When a call returns, nothing is under way.                              *)
LEMMA ReturnWorks ==
    ASSUME Roster, Typed, Return, UNCHANGED <<next, team, found>>, queue' = {}, CallTyped',
           dst' \in [Cells -> Int \cup {Unset}], stage \in {"idle", "merge"}
    PROVE  Work'
  <1>1. stage' = "returned" /\ job' = NoJob /\ at' = [w \in Workers |-> 0]
    BY DEF Return
  <1>2. \A h \in Helpers : team'[h] = "none"
    BY DEF Roster, Out
  <1>3. JobTyped(job')
    BY <1>1, NoJobTyped
  <1>4. Team' = {0} /\ 0 \in Workers
    BY <1>1, ParallelAssumption DEF Team, NoJob, Job, Workers
  <1>5. ChunkLen(0)' \in Nat
    BY <1>1 DEF ChunkLen, NoJob, Job
  <1>6. \A w \in Team' : at'[w] = 0 /\ 0 <= ChunkLen(w)'
    BY <1>1, <1>4, <1>5
  <1>7. at' \in [Workers -> Nat]
    BY <1>1
  <1>8. Typed'
    BY <1>1, <1>3, <1>6, <1>7 DEF Typed, JobTyped, CallTyped, Cell, Running
  <1>9. Begun'
    BY <1>1, <1>2 DEF Begun
  <1> QED
    BY <1>1, <1>8, <1>9 DEF Work, Filtering, Copying, Running

(* When a loop is launched, no element of it is done; what it must find in *)
(* place is left to its kind.                                              *)
LEMMA LaunchWorks ==
    ASSUME Roster, Typed, NEW j, JobTyped(j), Launch(j), UNCHANGED <<dst, found>>, CallTyped',
           stage \in {"idle", "merge"}
    PROVE  /\ Typed' /\ Begun' /\ Running' /\ Joined' = 0 /\ Written' = {}
           /\ \A w \in Team' : Element(w)' = ChunkStart(w)' /\ ChunkStart(w)' \in Nat
           /\ ChunkStart(0)' = 0
  <1>1. /\ job' = j /\ next' = 0 /\ team' = team /\ at' = [w \in Workers |-> 0]
        /\ stage' = IF Started(j) > 0 THEN "start" ELSE "work"
    BY DEF Launch
  <1>2. \A h \in Helpers : team'[h] = "none"
    BY <1>1 DEF Roster, Out
  <1>3. /\ j.len \in Nat /\ j.threads \in Nat /\ Team' \subseteq Workers /\ Team' = 0..j.threads
    BY <1>1, ParallelAssumption DEF JobTyped, Team, Workers
  <1>4. \A w \in 0..j.threads : From(j.len, j.threads, w) \in Nat /\ Size(j.len, j.threads, w) \in Nat
    BY <1>3, Chunks
  <1>5. \A w : ChunkStart(w)' = From(j.len, j.threads, w) /\ ChunkLen(w)' = Size(j.len, j.threads, w)
    BY <1>1 DEF ChunkStart, ChunkLen, From, Size
  <1>6. \A w \in Team' : /\ at'[w] = 0 /\ ChunkStart(w)' \in Nat /\ ChunkLen(w)' \in Nat
                         /\ at'[w] <= ChunkLen(w)'
    BY <1>1, <1>3, <1>4, <1>5
  <1>7. \A w \in Team' : Element(w)' = ChunkStart(w)'
    BY <1>6 DEF Element
  <1>8. Running' /\ Joined' = 0
    BY <1>1 DEF Running, Joined
  <1>9. at' \in [Workers -> Nat]
    BY <1>1
  <1>10. Typed'
    BY <1>1, <1>6, <1>8, <1>9 DEF Typed, JobTyped, CallTyped, Cell
  <1>11. ASSUME stage' = "work", NEW h \in Helpers, h < j.threads
         PROVE  ChunkIsDone(h)'
    <2>1. Started(j) = 0 /\ h # j.threads /\ h \in Nat
      BY <1>1, <1>3, <1>11 DEF Started, Helpers
    <2>2. j.len \div (j.threads + 1) = 0
      BY <1>3, <1>11, <2>1 DEF Started
    <2>3. h \in Team'
      BY <1>3, <1>11, <2>1
    <2> QED
      BY <1>5, <1>6, <2>1, <2>2, <2>3 DEF Size, ChunkIsDone
  <1>12. Begun'
    BY <1>1, <1>2, <1>11 DEF Begun, Out, Helpers
  <1>13. Written' = {}
    <2>1. \A w \in Team' : \A g \in Upto(job.len)' : ~(ChunkStart(w)' <= g /\ g < Element(w)')
      BY <1>1, <1>3, <1>6, <1>7 DEF Upto
    <2> QED
      BY <2>1 DEF Written
  <1>14. ChunkStart(0)' = 0
    BY <1>3, <1>5, Chunks
  <1> QED
    BY <1>6, <1>7, <1>8, <1>10, <1>12, <1>13, <1>14

LEMMA InitWorks == Init => Work /\ SameAsOneThread
  <1> SUFFICES ASSUME Init PROVE Work /\ SameAsOneThread
    OBVIOUS
  <1>1. JobTyped(job) /\ job = NoJob
    BY NoJobTyped DEF Init
  <1>2. Team = {0} /\ 0 \in Workers
    BY <1>1, ParallelAssumption DEF Team, NoJob, Job, Workers
  <1>3. ChunkLen(0) \in Nat
    BY <1>1 DEF ChunkLen, NoJob, Job
  <1>4. Typed
    BY <1>1, <1>2, <1>3 DEF Init, Typed, JobTyped, Cell, Running, Clean
  <1> QED
    BY <1>4 DEF Init, Work, Begun, Filtering, Copying, Running, SameAsOneThread

(* A call is made: it returns at once, refused or with nothing to do, or   *)
(* its loop is launched.                                                   *)
LEMMA CallsWork == ASSUME Roster, Typed, Calls PROVE Work' /\ SameAsOneThread'
  <1>1. PICK op \in Operations, len \in 0..MaxLen, hint \in {"single", "multi"},
             threads \in 0..MaxThreads :
               \E from \in Sources(op, len), to \in Targets(op, len), pred \in Predicates(op, len) :
                 Call(op, len, hint, threads, from, to, pred)
    BY DEF Calls
  <1>2. PICK from \in Sources(op, len), to \in Targets(op, len), pred \in Predicates(op, len) :
               Call(op, len, hint, threads, from, to, pred)
    BY <1>1
  <1> DEFINE single == hint = "single"
             here == IF single THEN 0 ELSE threads
             j == Job(op, len, here, from, to, 0)
  <1>3. /\ stage = "idle" /\ dst = Clean /\ total = 0 /\ found = [w \in Workers |-> <<>>]
        /\ queue = {}
    BY DEF Calls, Typed, Running
  <1>4. /\ call' = [op |-> op, len |-> len, from |-> from, to |-> to, pred |-> pred]
        /\ ok' = ~Rejects(op, len, single) /\ UNCHANGED <<dst, found, queue, total>>
        /\ IF Rejects(op, len, single) \/ ReturnsAtOnce(op, len, single)
           THEN Return /\ UNCHANGED <<next, team>> ELSE Launch(j)
    BY <1>2 DEF Call
  <1>5. /\ from \in [Upto(len) -> Cells] /\ to \in [Upto(len) -> Cells] /\ OneToOne(to)
        /\ pred \subseteq Upto(len) /\ len \in Nat /\ MaxLen \in Nat
    BY ArgumentsTyped, ParallelAssumption
  <1>6. CallTyped'
    BY <1>4, <1>5 DEF CallTyped
  <1>7. dst' \in [Cells -> Int \cup {Unset}]
    BY <1>3, <1>4 DEF Clean
  <1>8. CASE Rejects(op, len, single) \/ ReturnsAtOnce(op, len, single)
    <2>1. Return /\ UNCHANGED <<next, team, found>> /\ queue' = {}
      BY <1>3, <1>4, <1>8
    <2>2. Work'
      BY <1>3, <1>6, <1>7, <2>1, ReturnWorks
    <2>3. ok' => len = 0
      BY <1>4, <1>8 DEF ReturnsAtOnce
    <2>4. Upto(0) = {}
      BY DEF Upto
    <2>5. len = 0 => dst' = Copied'
      BY <1>3, <1>4, <2>4 DEF Copied, Clean
    <2>6. len = 0 => Selected'
      <3>1. Cardinality({}) = 0
        BY FS_EmptySet
      <3>2. len = 0 => /\ call'.pred = {} /\ total' = 0 /\ Upto(total') = {}
        BY <1>3, <1>4, <1>5, <2>4
      <3>3. \A c \in Cells : dst'[c] = Unset
        BY <1>3, <1>4 DEF Clean
      <3> QED
        BY <3>1, <3>2, <3>3 DEF Selected
    <2> QED
      BY <2>2, <2>3, <2>5, <2>6 DEF SameAsOneThread
  <1>9. CASE ~(Rejects(op, len, single) \/ ReturnsAtOnce(op, len, single))
    <2>1. Launch(j)
      BY <1>4, <1>9
    <2>2. JobTyped(j)
      <3>1. here \in 0..MaxThreads
        BY ParallelAssumption
      <3>2. \A g \in Upto(len) : to[g] \in Cells /\ to[g] \in Nat /\ 0 + to[g] = to[g]
        BY <1>5 DEF Cells
      <3>3. to \in [Upto(len) -> Nat]
        BY <1>5, <3>2
      <3> HIDE DEF here
      <3> QED
        BY <1>5, <3>1, <3>2, <3>3 DEF JobTyped, Job
    <2>3. /\ Typed' /\ Begun' /\ Running' /\ Joined' = 0 /\ Written' = {}
          /\ \A w \in Team' : Element(w)' = ChunkStart(w)' /\ ChunkStart(w)' \in Nat
          /\ ChunkStart(0)' = 0
      BY <1>3, <1>4, <1>6, <2>1, <2>2, LaunchWorks
    <2>4. job' = j
      BY <2>1 DEF Launch
    <2>5. \A a \in Nat : Hits(pred, a, a) = {}
      <3>1. pred \subseteq Nat
        BY <1>5 DEF Upto
      <3>2. \A a \in Nat : \A g \in pred : ~(a <= g /\ g < a)
        BY <3>1
      <3> QED
        BY <3>2 DEF Hits
    <2>6. Filtering'
      <3>1. \A w \in Team' : found'[w] = <<>>
        BY <1>3, <1>4, <2>4, ParallelAssumption DEF Team, Job, Workers
      <3>2. Lists(<<>>, {})
        BY DEF Lists
      <3>3. \A w \in Team' : Lists(found'[w], Hits(call'.pred, ChunkStart(w)', Element(w)'))
        BY <1>4, <2>3, <2>5, <3>1, <3>2
      <3>4. Hits(call'.pred, 0, ChunkStart(Joined)') = {}
        BY <1>4, <2>3, <2>5
      <3>5. FirstList(dst', 0, {}) /\ Cardinality({}) = 0
        BY FS_EmptySet DEF FirstList, Upto
      <3>6. \A c \in Cells \ Upto(total') : dst'[c] = Unset
        BY <1>3, <1>4 DEF Clean
      <3>7. total' = 0 /\ dst' = Clean /\ queue' = {}
        BY <1>3, <1>4
      <3>8. call'.op = job'.kind /\ job'.len = call'.len
        BY <1>4, <2>4 DEF Job
      <3> QED
        BY <3>3, <3>4, <3>5, <3>6, <3>7, <3>8 DEF Filtering
    <2>7. Copying'
      <3>1. \A c \in Cells : dst'[c] = Unset
        BY <1>3, <1>4 DEF Clean
      <3>2. /\ call'.op = job'.kind /\ job'.len = call'.len /\ job'.from = call'.from
            /\ job'.to = call'.to /\ job'.base = 0 /\ queue' = {}
        BY <1>3, <1>4, <2>4 DEF Job
      <3> QED
        BY <2>3, <3>1, <3>2 DEF Copying
    <2>8. stage' # "returned"
      BY <2>3 DEF Running
    <2> QED
      BY <2>3, <2>6, <2>7, <2>8 DEF Work, SameAsOneThread
  <1> QED
    BY <1>8, <1>9

(* Outside of a call nothing is under way.                                 *)
LEMMA OutsideWorks ==
    ASSUME Roster, Typed, Begun, ParallelShuffle \/ Prepare PROVE Work' /\ SameAsOneThread'
  <1>1. /\ stage \in {"idle", "returned"} /\ stage' \in {"idle", "aborted"} /\ ~Running
        /\ UNCHANGED <<job, team, next, at, queue>>
    BY DEF ParallelShuffle, Prepare, Running
  <1>2. dst' \in [Cells -> Int \cup {Unset}] /\ found' \in [Workers -> Seq(Int)]
    <2>1. CASE ParallelShuffle
      BY <2>1 DEF ParallelShuffle, Typed
    <2>2. CASE Prepare
      <3>1. dst' = Clean /\ found' = [w \in Workers |-> <<>>]
        BY <2>2 DEF Prepare
      <3>2. <<>> \in Seq(Int)
        OBVIOUS
      <3> QED
        BY <3>1, <3>2 DEF Clean
    <2> QED
      BY <2>1, <2>2
  <1>3. stage' = "idle" => dst' = Clean /\ total' = 0 /\ found' = [w \in Workers |-> <<>>]
    BY DEF ParallelShuffle, Prepare
  <1>4. Typed'
    BY <1>1, <1>2, <1>3 DEF Typed, Team, Cell, ChunkLen, Running
  <1>5. Begun'
    BY <1>1 DEF Begun, ChunkIsDone, ChunkLen
  <1> QED
    BY <1>1, <1>4, <1>5 DEF Work, Filtering, Copying, Running, SameAsOneThread

(* Threads come and go; the work of the loop stays what it is.             *)
LEMMA SameLoop ==
    ASSUME Work, UNCHANGED <<call, job, at, dst, found, queue, total>>,
           Running, stage' \in {"start", "work", "join", "merge"}, next' \in Nat,
           ChunkStart(Joined)' = ChunkStart(Joined)
    PROVE  Typed' /\ Filtering' /\ Copying' /\ SameAsOneThread'
  <1>1. Running' /\ stage' # "returned"
    BY DEF Running
  <1>2. Typed'
    BY <1>1 DEF Work, Typed, Team, Cell, ChunkLen
  <1>3. /\ Team' = Team
        /\ \A w : ChunkStart(w)' = ChunkStart(w) /\ Element(w)' = Element(w)
        /\ \A g : Cell(g)' = Cell(g)
    BY DEF Team, Element, ChunkStart, Cell
  <1>4. Filtering'
    BY <1>3 DEF Work, Filtering
  <1>5. Written' = Written
    BY <1>3 DEF Written
  <1>6. \A w \in Team : Gathering(w)' <=> Gathering(w)
    BY <1>3 DEF Gathering, Finders
  <1>7. Copying'
    BY <1>3, <1>5, <1>6 DEF Work, Copying
  <1> QED
    BY <1>1, <1>2, <1>4, <1>7 DEF SameAsOneThread

LEMMA StartWorks == ASSUME Roster, Work, StartHelper PROVE Work' /\ SameAsOneThread'
  <1>1. /\ stage = "start" /\ team' = [team EXCEPT ![next] = "runs"]
        /\ UNCHANGED <<call, job, at, dst, found, queue, total>>
        /\ \/ next + 1 < job.threads /\ next' = next + 1 /\ stage' = "start"
           \/ ~(next + 1 < job.threads) /\ next' = 0 /\ stage' = "work"
    BY DEF StartHelper, NextHelper
  <1>2. next \in Nat /\ next < job.threads /\ job.threads \in Nat /\ DOMAIN team = Helpers
    BY <1>1 DEF Roster
  <1>3. Joined = 0 /\ Joined' = 0 /\ next' \in Nat /\ Running
    BY <1>1, <1>2 DEF Joined, Running
  <1>4. ChunkStart(Joined)' = ChunkStart(Joined)
    BY <1>1, <1>3 DEF ChunkStart
  <1>5. Typed' /\ Filtering' /\ Copying' /\ SameAsOneThread'
    BY <1>1, <1>3, <1>4, SameLoop
  <1>6. \A h \in Helpers : team'[h] = IF h = next THEN "runs" ELSE team[h]
    BY <1>1, <1>2
  <1>7. \A h \in Helpers : h < next => Out(h)
    BY <1>1 DEF Work, Begun
  <1>8. \A h \in Helpers : h < next + 1 => Out(h)'
    BY <1>2, <1>6, <1>7 DEF Out, Helpers
  <1>9. \A w : ChunkIsDone(w)' <=> ChunkIsDone(w)
    BY <1>1 DEF ChunkIsDone, ChunkLen
  <1>10. \A h \in Helpers : /\ team'[h] \in {"none", "runs", "ended"}
                            /\ team'[h] = "ended" => ChunkIsDone(h)'
    BY <1>6, <1>9 DEF Work, Begun
  <1>11. Begun'
    BY <1>1, <1>2, <1>8, <1>10 DEF Begun, Helpers
  <1> QED
    BY <1>5, <1>11 DEF Work

LEMMA ChunkDoneWorks == ASSUME Roster, Work, ChunkDone PROVE Work' /\ SameAsOneThread'
  <1>1. /\ stage = "work" /\ ChunkIsDone(job.threads)
        /\ stage' = IF Started(job) > 0 THEN "join" ELSE "merge"
        /\ UNCHANGED <<call, job, next, team, at, dst, found, queue, total>>
    BY DEF ChunkDone, ChunkIsDone
  <1>2. next = 0 /\ job.threads \in Nat /\ job.len \in Nat
    BY <1>1 DEF Roster, Work, Typed
  <1>3. Joined = 0 /\ Joined' \in {0, job.threads} /\ Running
    BY <1>1, <1>2 DEF Joined, Running
  <1>4. ChunkStart(Joined)' = ChunkStart(Joined)
    <2>1. CASE Started(job) > 0
      BY <1>1, <1>2, <2>1 DEF Joined, ChunkStart
    <2>2. CASE ~(Started(job) > 0)
      <3>1. Joined' = job.threads
        BY <1>1, <2>2 DEF Joined
      <3>2. job.threads = 0 \/ job.len \div (job.threads + 1) = 0
        BY <1>2, <2>2 DEF Started
      <3>3. job.threads * (job.len \div (job.threads + 1)) = 0
        <4>1. CASE job.threads = 0
          <5>1. job.len \div (job.threads + 1) \in Int
            BY <1>2, <4>1
          <5> QED
            BY <4>1, <5>1
        <4> QED
          BY <1>2, <3>2, <4>1
      <3>4. 0 * (job.len \div (job.threads + 1)) = 0
        <4>1. job.threads + 1 \in Nat \ {0}
          BY <1>2
        <4>2. job.len \div (job.threads + 1) \in Nat
          BY <1>2, <4>1, Division
        <4> QED
          BY <4>2
      <3> QED
        BY <1>1, <1>3, <3>1, <3>3, <3>4 DEF ChunkStart
    <2> QED
      BY <2>1, <2>2
  <1>5. Typed' /\ Filtering' /\ Copying' /\ SameAsOneThread'
    BY <1>1, <1>2, <1>3, <1>4, SameLoop
  <1>6. \A w : ChunkIsDone(w)' <=> ChunkIsDone(w)
    BY <1>1 DEF ChunkIsDone, ChunkLen
  <1>7. stage' = "join" => next' < job'.threads
    BY <1>1, <1>2 DEF Started
  <1>8. ASSUME stage' = "merge", NEW w \in Team PROVE ChunkIsDone(w)
    <2>1. \A h \in Helpers : ~Out(h)
      BY <1>1, <1>8 DEF Roster
    <2>2. w # job.threads => w \in Helpers /\ w < job.threads
      <3>1. job.threads \in 0..MaxThreads /\ MaxThreads \in Nat
        BY ParallelAssumption DEF Work, Typed
      <3> QED
        BY <3>1 DEF Team, Helpers
    <2> QED
      BY <1>1, <2>1, <2>2 DEF Work, Begun
  <1>9. Begun'
    BY <1>1, <1>6, <1>7, <1>8 DEF Work, Begun, Out, Team
  <1> QED
    BY <1>5, <1>9 DEF Work

LEMMA HelperEndsWorks ==
    ASSUME Roster, Work, NEW h \in Helpers, HelperEnds(h) PROVE Work' /\ SameAsOneThread'
  <1>1. /\ h < job.threads /\ team[h] = "runs" /\ ChunkIsDone(h)
        /\ team' = [team EXCEPT ![h] = "ended"]
        /\ UNCHANGED <<call, stage, job, next, at, dst, found, queue, total>>
    BY DEF HelperEnds, ChunkIsDone
  <1>2. stage \in {"start", "work", "join"}
    BY <1>1 DEF Roster, Out
  <1>3. ChunkStart(Joined)' = ChunkStart(Joined) /\ next' \in Nat
    BY <1>1 DEF ChunkStart, Joined, Roster
  <1>4. Typed' /\ Filtering' /\ Copying' /\ SameAsOneThread'
    BY <1>1, <1>2, <1>3, SameLoop DEF Running
  <1>5. \A k \in Helpers : team'[k] = IF k = h THEN "ended" ELSE team[k]
    BY <1>1 DEF Roster
  <1>6. \A w : ChunkIsDone(w)' <=> ChunkIsDone(w)
    BY <1>1 DEF ChunkIsDone, ChunkLen
  <1>7. \A k \in Helpers : Out(k)' <=> Out(k)
    BY <1>1, <1>5 DEF Out
  <1>8. Begun'
    BY <1>1, <1>5, <1>6, <1>7 DEF Work, Begun, Team
  <1> QED
    BY <1>4, <1>8 DEF Work

(* The caller joins a helper: its chunk is done, and begins where those    *)
(* joined before it end.                                                   *)
LEMMA JoinWorks == ASSUME Roster, Work, Join PROVE Work' /\ SameAsOneThread'
  <1>1. /\ stage = "join" /\ team[next] = "ended" /\ team' = [team EXCEPT ![next] = "none"]
        /\ total' = IF job.kind \in Filters THEN total + Len(found[next]) ELSE total
        /\ dst' = IF job.kind = "filter_late" THEN Appended(found[next]) ELSE dst
        /\ \/ next + 1 < job.threads /\ next' = next + 1 /\ stage' = "join"
           \/ ~(next + 1 < job.threads) /\ next' = 0 /\ stage' = "merge"
        /\ UNCHANGED <<call, job, at, found, queue>>
    BY DEF Join
  <1>2. next \in Nat /\ next < job.threads /\ job.threads \in 0..MaxThreads /\ MaxThreads \in Nat
    BY <1>1, ParallelAssumption DEF Work, Begun, Typed
  <1>3. next \in Helpers /\ next \in Team /\ next + 1 \in Team /\ next \in Workers /\ Running
    BY <1>1, <1>2 DEF Helpers, Team, Workers, Running
  <1>4. Joined = next /\ Joined' = next + 1
    BY <1>1, <1>2 DEF Joined
  <1>5. ChunkIsDone(next)
    BY <1>1, <1>3 DEF Work, Begun
  <1>6. /\ ChunkStart(next) \in Nat /\ ChunkStart(next + 1) \in Nat
        /\ Element(next) = ChunkStart(next + 1) /\ ChunkStart(next) <= ChunkStart(next + 1)
    <2>1. job.len \in Nat /\ job.threads \in Nat
      BY <1>2 DEF Work, Typed
    <2>2. From(job.len, job.threads, next + 1) = To(job.len, job.threads, next)
      <3>1. \A w \in 0..job.threads : w + 1 <= job.threads =>
               From(job.len, job.threads, w + 1) = To(job.len, job.threads, w)
        BY <2>1, Chunks
      <3>2. next \in 0..job.threads /\ next + 1 <= job.threads
        BY <1>2
      <3> QED
        BY <3>1, <3>2
    <2>3. /\ ChunkStart(next) \in Nat /\ ChunkStart(next + 1) \in Nat /\ ChunkLen(next) \in Nat
          /\ ChunkStart(next) + ChunkLen(next) = To(job.len, job.threads, next)
          /\ ChunkStart(next + 1) = From(job.len, job.threads, next + 1)
      BY <1>3, JobChunks DEF Work
    <2> QED
      BY <1>5, <2>2, <2>3 DEF Element, ChunkIsDone
  <1>7. found[next] \in Seq(Int)
    BY <1>3 DEF Work, Typed
  <1> DEFINE S == call.pred
             b == ChunkStart(next)
             c == ChunkStart(next + 1)
  <1>8. ASSUME job.kind \in Filters
        PROVE  /\ Lists(found[next], Hits(S, b, c))
               /\ total = Cardinality(Hits(S, 0, b))
               /\ total' = Cardinality(Hits(S, 0, c))
    <2>1. Lists(found[next], Hits(S, b, c)) /\ total = Cardinality(Hits(S, 0, b))
      BY <1>3, <1>4, <1>6, <1>8 DEF Work, Filtering
    <2>2. Len(found[next]) = Cardinality(Hits(S, b, c))
      BY <1>7, <2>1, ListLength
    <2>3. S \in SUBSET Nat /\ IsFiniteSet(S)
      BY <1>3, CallPredicate DEF Work
    <2>4. Cardinality(Hits(S, 0, c)) = Cardinality(Hits(S, 0, b)) + Cardinality(Hits(S, b, c))
      BY <1>6, <2>3, HitsFromZero
    <2> QED
      BY <1>1, <1>8, <2>1, <2>2, <2>4
  <1>9. ASSUME job.kind = "filter_late"
        PROVE  /\ dst' \in [Cells -> Int \cup {Unset}]
               /\ FirstList(dst', total', Hits(S, 0, c))
               /\ \A x \in Cells \ Upto(total') : dst'[x] = Unset
    <2>1. job.kind \in Filters
      BY <1>9 DEF Filters
    <2>2. FirstList(dst, total, Hits(S, 0, b)) /\ \A x \in Cells \ Upto(total) : dst[x] = Unset
      BY <1>3, <1>4, <1>9, <2>1 DEF Work, Filtering
    <2>3. Typed /\ dst' = Appended(found[next]) /\ total' = total + Len(found[next])
      BY <1>1, <1>9, <2>1 DEF Work
    <2> QED
      BY <1>3, <1>6, <1>7, <1>8, <2>1, <2>2, <2>3, AppendedLists
  <1>10. dst' \in [Cells -> Int \cup {Unset}]
    BY <1>1, <1>9 DEF Work, Typed
  <1>11. Running' /\ stage' # "returned" /\ next' \in Nat
    BY <1>1, <1>2 DEF Running
  <1>12. /\ Team' = Team
         /\ \A w : ChunkStart(w)' = ChunkStart(w) /\ Element(w)' = Element(w)
                  /\ ChunkLen(w)' = ChunkLen(w) /\ (ChunkIsDone(w)' <=> ChunkIsDone(w))
         /\ \A g : Cell(g)' = Cell(g)
    BY <1>1 DEF Team, Element, ChunkStart, ChunkLen, ChunkIsDone, Cell
  <1>13. Typed'
    BY <1>1, <1>3, <1>10, <1>11, <1>12 DEF Work, Typed
  <1>14. \A h \in Helpers : team'[h] = IF h = next THEN "none" ELSE team[h]
    BY <1>1 DEF Roster
  <1>15. Begun'
    <2>1. \A h \in Helpers : /\ team'[h] \in {"none", "runs", "ended"}
                             /\ team'[h] = "ended" => ChunkIsDone(h)'
      BY <1>12, <1>14 DEF Work, Begun
    <2>2. \A h \in Helpers : h < job.threads => Out(h)' \/ ChunkIsDone(h)
      BY <1>1, <1>5, <1>14 DEF Work, Begun, Out
    <2>3. ChunkIsDone(job.threads)
      BY <1>1 DEF Work, Begun
    <2>4. ASSUME stage' = "merge", NEW w \in Team PROVE ChunkIsDone(w)
      <3>1. \A h \in Helpers : ~Out(h)'
        BY <2>4, JoinKeeps DEF Roster
      <3>2. w # job.threads => w \in Helpers /\ w < job.threads
        BY <1>2 DEF Team, Helpers
      <3> QED
        BY <2>2, <2>3, <3>1, <3>2
    <2> QED
      BY <1>1, <1>12, <2>1, <2>2, <2>3, <2>4 DEF Begun
  <1>16. Filtering'
    BY <1>1, <1>3, <1>4, <1>8, <1>9, <1>12 DEF Work, Filtering, Filters
  <1>17. Copying'
    <2>1. CASE job.kind \in Filters
      BY <1>1, <2>1 DEF Copying
    <2>2. CASE job.kind \notin Filters
      <3>1. dst' = dst /\ total' = total
        BY <1>1, <2>2 DEF Filters
      <3>2. Written' = Written
        BY <1>1, <1>12 DEF Written
      <3>3. \A w \in Team : Gathering(w)' <=> Gathering(w)
        BY <1>1, <1>12, <3>1 DEF Gathering, Finders
      <3> QED
        BY <1>1, <1>3, <1>12, <3>1, <3>2, <3>3 DEF Work, Copying
    <2> QED
      BY <2>1, <2>2
  <1> QED
    BY <1>11, <1>13, <1>15, <1>16, <1>17 DEF Work, SameAsOneThread

(* One element: a filter notes it or not, a copy puts it into its cell.    *)
LEMMA StepWorks ==
    ASSUME Roster, Work, NEW w \in Workers, Step(w) PROVE Work' /\ SameAsOneThread'
  <1> DEFINE g == Element(w)
  <1>1. /\ Works(w) /\ at[w] < ChunkLen(w) /\ at' = [at EXCEPT ![w] = @ + 1]
        /\ IF job.kind \in Filters
           THEN /\ found' = IF g \in call.pred THEN [found EXCEPT ![w] = Append(@, g)] ELSE found
                /\ dst' = dst
           ELSE /\ dst' = [dst EXCEPT ![Cell(g)] = job.from[g]]
                /\ found' = found
        /\ UNCHANGED <<call, stage, job, next, team, queue, total>>
    BY DEF Step
  <1>2. /\ job.threads \in 0..MaxThreads /\ MaxThreads \in Nat /\ w \in Nat
        /\ w = job.threads => stage = "work"
        /\ w # job.threads => w < job.threads /\ w \in Helpers /\ team[w] = "runs"
    <2>1. job.threads \in 0..MaxThreads /\ MaxThreads \in Nat
      BY ParallelAssumption DEF Work, Typed
    <2>2. IF w = job.threads THEN stage = "work" ELSE w < job.threads /\ team[w] = "runs"
      BY <1>1 DEF Works
    <2>3. w \in Nat /\ (w < job.threads => w \in Helpers)
      BY <2>1 DEF Helpers, Workers
    <2> QED
      BY <2>1, <2>2, <2>3
  <1>3. w \in Team /\ stage \in {"start", "work", "join"} /\ Running
    BY <1>2 DEF Team, Roster, Out, Running
  <1>4. /\ g \in Nat /\ g \in Upto(job.len) /\ ChunkStart(w) <= g
        /\ \A v \in Team : ~(ChunkStart(v) <= g /\ g < Element(v))
    BY <1>1, <1>3, ElementIsNew DEF Work
  <1>5. /\ \A v \in Team : ChunkStart(v) \in Nat /\ ChunkLen(v) \in Nat /\ at[v] \in Nat
                          /\ at[v] <= ChunkLen(v) /\ v \in Workers
        /\ Typed
    BY JobChunks DEF Work
  <1>6. \A v \in Workers : at'[v] = IF v = w THEN at[v] + 1 ELSE at[v]
    BY <1>1, <1>5 DEF Typed
  <1>7. /\ Team' = Team /\ Running' /\ stage' # "returned" /\ Joined' = Joined
        /\ \A v : ChunkStart(v)' = ChunkStart(v) /\ ChunkLen(v)' = ChunkLen(v)
        /\ \A k : Cell(k)' = Cell(k)
    BY <1>1, <1>3 DEF Team, Running, Joined, ChunkStart, ChunkLen, Cell
  <1>8. \A v \in Team : Element(v)' = IF v = w THEN g + 1 ELSE Element(v)
    BY <1>5, <1>6, <1>7 DEF Element
  <1>9. /\ at' \in [Workers -> Nat]
        /\ \A v \in Team' : at'[v] <= ChunkLen(v)'
    <2>1. at[w] \in Nat /\ ChunkLen(w) \in Nat /\ at[w] + 1 <= ChunkLen(w)
      BY <1>1, <1>3, <1>5
    <2> QED
      BY <1>1, <1>5, <1>6, <1>7, <2>1 DEF Typed
  <1>10. Begun'
    <2>1. \A v \in Workers : v # w => (ChunkIsDone(v)' <=> ChunkIsDone(v))
      BY <1>6, <1>7 DEF ChunkIsDone
    <2>2. \A h \in Helpers : h \in Workers
      BY <1>2 DEF Helpers, Workers
    <2>3. job.threads \in Workers
      BY <1>2 DEF Workers
    <2>4. \A h \in Helpers : (team[h] = "ended" => ChunkIsDone(h)) => (team[h] = "ended" => ChunkIsDone(h)')
      <3>1. \A h \in Helpers : h = w => team[h] # "ended"
        BY <1>2 DEF Roster, Out
      <3> HIDE DEF g
      <3> QED
        BY <2>1, <2>2, <3>1
    <2>5. \A h \in Helpers : h < job.threads =>
             (Out(h) \/ ChunkIsDone(h) => Out(h)' \/ ChunkIsDone(h)')
      <3>1. \A h \in Helpers : h < job.threads => h # job.threads
        BY <1>2 DEF Helpers
      <3>2. \A h \in Helpers : h < job.threads => (h = w => Out(h)')
        BY <1>1, <1>2, <3>1 DEF Out
      <3>3. \A h : Out(h)' <=> Out(h)
        BY <1>1 DEF Out
      <3> HIDE DEF g
      <3> QED
        BY <2>1, <2>2, <3>2, <3>3
    <2>6. stage = "join" => (ChunkIsDone(job.threads) => ChunkIsDone(job.threads)')
      <3>1. job'.threads = job.threads
        BY <1>1
      <3>2. stage = "join" => job.threads # w
        BY <1>2
      <3> HIDE DEF g
      <3> QED
        BY <2>1, <2>3, <3>1, <3>2
    <2>7. \A h \in Helpers : Out(h)' <=> Out(h)
      BY <1>1 DEF Out
    <2> HIDE DEF g
    <2> QED
      BY <1>1, <1>3, <2>4, <2>5, <2>6, <2>7 DEF Work, Begun
  <1>11. CASE job.kind \in Filters
    <2>1. /\ found' = IF g \in call.pred THEN [found EXCEPT ![w] = Append(@, g)] ELSE found
          /\ dst' = dst
      BY <1>1, <1>11
    <2>2. found[w] \in Seq(Int) /\ Append(found[w], g) \in Seq(Int)
      BY <1>4, <1>5 DEF Typed
    <2>3. found' \in [Workers -> Seq(Int)]
      BY <1>5, <2>1, <2>2 DEF Typed
    <2>4. Typed'
      BY <1>1, <1>3, <1>5, <1>7, <1>9, <2>1, <2>3 DEF Typed
    <2>5. \A v \in Team : Lists(found[v], Hits(call.pred, ChunkStart(v), Element(v)))
      BY <1>3, <1>11 DEF Work, Filtering
    <2>6. Lists(found'[w], Hits(call.pred, ChunkStart(w), g + 1))
      <3>1. call.pred \in SUBSET Nat
        BY <1>3, <1>5, CallPredicate
      <3>2. ChunkStart(w) \in Nat /\ Lists(found[w], Hits(call.pred, ChunkStart(w), g))
        BY <1>3, <1>5, <2>5
      <3>3. /\ g \in call.pred => Lists(Append(found[w], g), Hits(call.pred, ChunkStart(w), g + 1))
            /\ g \notin call.pred => Lists(found[w], Hits(call.pred, ChunkStart(w), g + 1))
        BY <1>4, <2>2, <3>1, <3>2, NotedNext
      <3>4. found'[w] = IF g \in call.pred THEN Append(found[w], g) ELSE found[w]
        BY <1>5, <2>1 DEF Typed
      <3> QED
        BY <3>3, <3>4
    <2>7. \A v \in Team : v # w => found'[v] = found[v]
      BY <1>5, <2>1 DEF Typed
    <2>8. \A v \in Team' : Lists(found'[v], Hits(call'.pred, ChunkStart(v)', Element(v)'))
      BY <1>1, <1>7, <1>8, <2>5, <2>6, <2>7
    <2>9. Filtering'
      BY <1>1, <1>3, <1>7, <1>11, <2>1, <2>8 DEF Work, Filtering
    <2>10. Copying'
      BY <1>1, <1>11 DEF Copying
    <2> QED
      BY <1>7, <1>10, <2>4, <2>9, <2>10 DEF Work, SameAsOneThread
  <1>12. CASE job.kind \notin Filters
    <2>1. dst' = [dst EXCEPT ![Cell(g)] = job.from[g]] /\ found' = found
      BY <1>1, <1>12
    <2>2. Cell(g) \in Cells /\ job.from[g] \in Int /\ dst \in [Cells -> Int \cup {Unset}]
      BY <1>4, <1>5 DEF Typed, Cells
    <2>3. dst' \in [Cells -> Int \cup {Unset}]
      BY <2>1, <2>2
    <2>4. \A x \in Cells : dst'[x] = IF x = Cell(g) THEN job.from[g] ELSE dst[x]
      BY <2>1, <2>2
    <2>5. Typed'
      BY <1>1, <1>3, <1>5, <1>7, <1>9, <2>1, <2>3 DEF Typed
    <2>6. Written' = Written \cup {g}
      <3>1. \A k \in Upto(job.len) :
               (\E v \in Team : ChunkStart(v) <= k /\ k < Element(v)') <=>
               (k = g \/ \E v \in Team : ChunkStart(v) <= k /\ k < Element(v))
        <4>1. Upto(job.len) \subseteq Nat
          BY <1>5 DEF Typed, Upto
        <4>2. Element(w)' = g + 1 /\ \A v \in Team : v # w => Element(v)' = Element(v)
          BY <1>3, <1>8
        <4>3. \A k \in Upto(job.len) : k < g + 1 <=> k < g \/ k = g
          BY <1>4, <4>1
        <4> HIDE DEF g
        <4> QED
          BY <1>3, <1>4, <4>2, <4>3 DEF g
      <3> QED
        BY <1>1, <1>4, <1>7, <3>1 DEF Written
    <2>7. /\ \A k, m \in Upto(job.len) : Cell(k) = Cell(m) => k = m
          /\ \A k \in Upto(job.len) : Cell(k) \in Cells /\ Cell(k) >= job.base
          /\ job.base \in Nat
      BY <1>5 DEF Typed, OneToOne, Cell
    <2>8. g \notin Written /\ Written \subseteq Upto(job.len)
      BY <1>4 DEF Written
    <2>9. \A k \in Written' : dst'[Cell(k)'] = job'.from[k]
      <3>1. \A k \in Written : dst[Cell(k)] = job.from[k]
        BY <1>3, <1>12 DEF Work, Copying
      <3>2. \A k \in Written : Cell(k) # Cell(g) /\ Cell(k) \in Cells
        BY <1>4, <2>7, <2>8
      <3> QED
        BY <1>1, <1>7, <2>2, <2>4, <2>6, <3>1, <3>2
    <2>10. \A x \in Cells : x >= job.base /\ (\A k \in Written' : Cell(k)' # x) => dst'[x] = Unset
      BY <1>3, <1>7, <1>12, <2>4, <2>6 DEF Work, Copying
    <2>11. ASSUME NEW u \in Team, Gathering(u) PROVE Gathering(u)'
      <3>1. \A x \in Upto(job.base) : dst'[x] = dst[x]
        <4>1. \A x \in Upto(job.base) : x < Cell(g) /\ x \in Cells
          BY <1>4, <2>2, <2>7, ParallelAssumption DEF Upto, Cells
        <4> QED
          BY <2>2, <2>4, <4>1 DEF Cells
      <3>2. FirstList(dst, job.base, Hits(call.pred, 0, From(call.len, job.threads, u)))
        BY <2>11 DEF Gathering
      <3>3. FirstList(dst', job.base, Hits(call.pred, 0, From(call.len, job.threads, u)))
        BY <3>1, <3>2 DEF FirstList
      <3> QED
        BY <1>1, <1>7, <2>1, <2>11, <3>3 DEF Gathering, Finders
    <2>12. Copying'
      BY <1>1, <1>3, <1>7, <1>12, <2>9, <2>10, <2>11 DEF Work, Copying
    <2>13. Filtering'
      BY <1>1, <1>12 DEF Filtering
    <2> QED
      BY <1>7, <1>10, <2>5, <2>12, <2>13 DEF Work, SameAsOneThread
  <1> QED
    BY <1>11, <1>12

-----------------------------------------------------------------------------
(* The end of a loop *)

(* When the threads of a filter are joined, each worker has listed what    *)
(* its chunk holds.                                                        *)
LEMMA ChunksListed ==
    ASSUME Work, stage = "merge", job.kind \in Filters
    PROVE  /\ call.op = job.kind /\ job.len = call.len /\ queue = {}
           /\ \A v \in Team : Lists(found[v], Hits(call.pred, From(call.len, job.threads, v),
                                                              To(call.len, job.threads, v)))
           /\ total + Len(found[job.threads]) = Cardinality(call.pred)
  <1>1. Running /\ Joined = job.threads /\ Typed
    BY DEF Running, Joined, Work
  <1>2. /\ call.op = job.kind /\ job.len = call.len /\ queue = {}
        /\ \A w \in Team : Lists(found[w], Hits(call.pred, ChunkStart(w), Element(w)))
        /\ total = Cardinality(Hits(call.pred, 0, ChunkStart(job.threads)))
    BY <1>1 DEF Work, Filtering
  <1>3. \A w \in Team : Element(w) = ChunkStart(w) + ChunkLen(w)
    BY DEF Work, Begun, ChunkIsDone, Element
  <1>4. \A v \in Team : /\ ChunkStart(v) = From(call.len, job.threads, v)
                        /\ Element(v) = To(call.len, job.threads, v)
    BY <1>1, <1>2, <1>3, JobChunks
  <1>5. \A v \in Team : Lists(found[v], Hits(call.pred, From(call.len, job.threads, v),
                                                       To(call.len, job.threads, v)))
    BY <1>2, <1>4
  <1> DEFINE T == job.threads
             b == ChunkStart(T)
             S == call.pred
             n == call.len
  <1>6. T \in Team /\ T \in Nat /\ found[T] \in Seq(Int)
    BY <1>1, JobChunks DEF Team, Typed
  <1>7. b \in Nat /\ b <= n /\ n \in Nat /\ Element(T) = n
    <2>1. To(n, T, T) = n
      BY <1>2, <1>6, JobChunks, <1>1, Chunks
    <2> QED
      BY <1>1, <1>2, <1>4, <1>6, <2>1, JobChunks
  <1>8. Len(found[T]) = Cardinality(Hits(S, b, n))
    BY <1>2, <1>6, <1>7, ListLength
  <1>9. S \in SUBSET Nat /\ IsFiniteSet(S) /\ Hits(S, 0, n) = S
    BY <1>1, CallPredicate, HitsAll
  <1> HIDE DEF S, b, n, T
  <1>10. Cardinality(Hits(S, 0, n)) = Cardinality(Hits(S, 0, b)) + Cardinality(Hits(S, b, n))
    BY <1>7, <1>9, HitsFromZero
  <1> QED
    BY <1>2, <1>5, <1>8, <1>9, <1>10 DEF S, b, n, T

(* filter_late has all positions, in order.                                *)
LEMMA LateWorks == ASSUME Roster, Work, LateReturns PROVE Work' /\ SameAsOneThread'
  <1> DEFINE T == job.threads
             s == found[T]
             b == ChunkStart(T)
  <1>1. /\ stage = "merge" /\ job.kind = "filter_late" /\ dst' = Appended(s)
        /\ total' = total + Len(s) /\ Return /\ UNCHANGED <<call, next, team, found, queue, ok>>
    BY DEF LateReturns
  <1>2. Running /\ Joined = T /\ Typed /\ job.kind \in Filters
    BY <1>1 DEF Running, Joined, Work, Filters
  <1>3. /\ call.op = "filter_late" /\ job.len = call.len /\ queue = {}
        /\ total + Len(s) = Cardinality(call.pred)
    BY <1>1, <1>2, ChunksListed
  <1>4. /\ T \in Team /\ s \in Seq(Int) /\ b \in Nat /\ b <= call.len /\ call.len \in Nat
        /\ Element(T) = call.len
    <2>1. T \in Team /\ T \in Nat /\ job.len \in Nat
      BY <1>2, JobChunks DEF Team
    <2>2. ChunkStart(T) + ChunkLen(T) = To(job.len, T, T) /\ To(job.len, T, T) = job.len
      BY <1>2, <2>1, JobChunks, Chunks
    <2>3. Element(T) = ChunkStart(T) + ChunkLen(T)
      BY <1>1 DEF Work, Begun, ChunkIsDone, Element
    <2>4. ChunkStart(T) \in Nat /\ ChunkLen(T) \in Nat
      BY <1>2, <2>1, JobChunks
    <2> QED
      BY <1>2, <1>3, <2>1, <2>2, <2>3, <2>4, JobChunks DEF Typed
  <1>5. /\ Lists(s, Hits(call.pred, b, call.len))
        /\ FirstList(dst, total, Hits(call.pred, 0, b))
        /\ \A x \in Cells \ Upto(total) : dst[x] = Unset
    BY <1>1, <1>2, <1>4 DEF Work, Filtering
  <1> HIDE DEF b, s
  <1>6. /\ dst' \in [Cells -> Int \cup {Unset}]
        /\ FirstList(dst', total', Hits(call.pred, 0, call.len))
        /\ \A x \in Cells \ Upto(total') : dst'[x] = Unset
    BY <1>1, <1>2, <1>4, <1>5, AppendedLists
  <1>7. FirstList(dst', total', call.pred)
    BY <1>2, <1>6, HitsAll
  <1>8. CallTyped'
    BY <1>1, <1>2 DEF Typed, CallTyped
  <1>9. Work'
    BY <1>1, <1>2, <1>3, <1>6, <1>8, ReturnWorks
  <1>10. Selected' /\ call'.op \in Filters
    BY <1>1, <1>3, <1>6, <1>7 DEF Selected, FirstList, Filters
  <1> QED
    BY <1>9, <1>10 DEF SameAsOneThread

(* A gather of filter_early is done: the results of the workers up to its  *)
(* own are in place, and nothing behind them.                              *)
LEMMA GatherDone ==
    ASSUME Work, stage = "merge", job.kind \notin Filters, NEW u \in Team, Gathering(u)
    PROVE  /\ FirstList(dst, job.base + job.len,
                        Hits(call.pred, 0, To(call.len, job.threads, u)))
           /\ job.base + job.len \in Nat
           /\ \A c \in Cells : c >= job.base + job.len => dst[c] = Unset
  <1> DEFINE n == call.len
             S == call.pred
             s == found[u]
             b == From(n, job.threads, u)
             c == To(n, job.threads, u)
  <1>1. Running /\ Typed /\ u \in Workers /\ job.threads \in Nat /\ u \in 0..job.threads
    BY JobChunks DEF Running, Work, Team
  <1>2. S \in SUBSET Nat /\ IsFiniteSet(S) /\ n \in Nat
    BY <1>1, CallPredicate
  <1>3. b \in Nat /\ c \in Nat /\ b <= c
    <2>1. b \in Nat /\ Size(n, job.threads, u) \in Nat /\ c \in Nat
      BY <1>1, <1>2, Chunks
    <2> QED
      BY <2>1 DEF To
  <1>4. /\ job.len = Len(s) /\ job.from = [i \in Upto(job.len) |-> s[i + 1]]
        /\ job.to = Identity(job.len) /\ FirstList(dst, job.base, Hits(S, 0, b))
        /\ Lists(s, Hits(S, b, c))
    BY DEF Gathering
  <1>5. s \in Seq(Int) /\ job.base \in Nat /\ Len(s) \in Nat
    BY <1>1 DEF Typed
  <1>6. Written = Upto(Len(s))
    BY <1>1, <1>4, AllWritten DEF Work, Begun
  <1>7. /\ \A g \in Upto(Len(s)) : dst[job.base + g] = s[g + 1]
        /\ \A g \in Upto(Len(s)) : Cell(g) = job.base + g
    BY <1>1, <1>4, <1>6 DEF Work, Copying, Cell, Identity
  <1>8. \A x \in Cells : x >= job.base /\ (\A g \in Upto(Len(s)) : job.base + g # x) => dst[x] = Unset
    BY <1>1, <1>6, <1>7 DEF Work, Copying
  <1> HIDE DEF s, b, c, S, n
  <1>9. \A i \in 1..Len(s) : dst[(job.base + i) - 1] = s[i]
    <2> SUFFICES ASSUME NEW i \in 1..Len(s) PROVE dst[(job.base + i) - 1] = s[i]
      OBVIOUS
    <2>1. i - 1 \in Upto(Len(s)) /\ (i - 1) + 1 = i /\ job.base + (i - 1) = (job.base + i) - 1
      BY <1>5 DEF Upto
    <2> QED
      BY <1>7, <2>1
  <1>10. FirstList(dst, job.base + Len(s), Hits(S, 0, c))
    <2>1. PICK m \in Nat : m = job.base
      BY <1>5
    <2>2. FirstList(dst, m, Hits(S, 0, b)) /\ \A i \in 1..Len(s) : dst[m + i - 1] = s[i]
      BY <1>4, <1>9, <2>1
    <2>3. FirstList(dst, m + Len(s), Hits(S, 0, c))
      BY <1>2, <1>3, <1>4, <1>5, <2>2, ListsJoin
    <2> QED
      BY <2>1, <2>3
  <1>11. \A x \in Cells : x >= job.base + Len(s) => dst[x] = Unset
    <2> SUFFICES ASSUME NEW x \in Cells, x >= job.base + Len(s)
                 PROVE  x >= job.base /\ \A g \in Upto(Len(s)) : job.base + g # x
      BY <1>8
    <2> QED
      BY <1>5 DEF Upto, Cells
  <1> QED
    BY <1>4, <1>5, <1>10, <1>11 DEF s, c, S, n

LEMMA LeastWorker ==
    ASSUME NEW ws \in SUBSET Nat, ws # {}
    PROVE  Min(ws) \in ws /\ \A v \in ws : Min(ws) <= v
  BY LeastOne DEF Min

(* filter_early launches the gather of the next worker that found          *)
(* something: what lies before the base is there, and what is to come fits *)
(* behind it.                                                              *)
LEMMA GatherLaunched ==
    ASSUME Roster, Work, stage = "merge", call.op = "filter_early",
           \A v \in Team : Lists(found[v], Hits(call.pred, From(call.len, job.threads, v),
                                                           To(call.len, job.threads, v))),
           NEW ws \in SUBSET Finders, ws # {}, NEW base \in Nat, NEW lo \in Nat,
           LaunchGather(ws, base), UNCHANGED <<call, dst, found>>,
           total' = Cardinality(call.pred),
           FirstList(dst, base, Hits(call.pred, 0, lo)),
           \A c \in Cells : c >= base => dst[c] = Unset,
           \A v \in Finders \ ws : To(call.len, job.threads, v) <= lo,
           \A v \in ws : lo <= From(call.len, job.threads, v)
    PROVE  Work' /\ SameAsOneThread'
  <1> DEFINE n == call.len
             S == call.pred
             T == job.threads
             w == Min(ws)
             s == found[w]
             b == From(n, T, w)
             c == To(n, T, w)
             j == GatherOf(w, base)
  <1>1. Running /\ Typed /\ T \in Nat /\ Team = 0..T /\ Finders \subseteq Team
    BY JobChunks DEF Running, Work, Team, Finders
  <1>2. /\ S \in SUBSET Nat /\ IsFiniteSet(S) /\ n \in Nat /\ n <= MaxLen /\ MaxLen \in Nat
        /\ Cardinality(S) <= n /\ Cardinality(S) \in Nat /\ S \in SUBSET Upto(n)
    BY <1>1, CallPredicate
  <1>3. w \in ws /\ \A v \in ws : w <= v
    BY <1>1, LeastWorker
  <1>4. w \in Team /\ w \in Finders /\ s # <<>> /\ s \in Seq(Int) /\ Len(s) \in Nat
    <2>1. w \in Finders /\ w \in Team
      BY <1>1, <1>3
    <2>2. s # <<>> /\ s \in Seq(Int)
      BY <1>1, <2>1, JobChunks DEF Finders, Typed
    <2> QED
      BY <2>1, <2>2
  <1>5. /\ job' = j /\ queue' = ws \ {w} /\ Launch(j)
        /\ j.kind = "gather" /\ j.len = Len(s) /\ j.threads = T /\ j.base = base
        /\ j.from = [i \in Upto(Len(s)) |-> s[i + 1]] /\ j.to = Identity(Len(s))
    BY DEF LaunchGather, Launch, GatherOf, Job
  <1>6. /\ b \in Nat /\ c \in Nat /\ b <= c /\ lo <= b
        /\ \A v \in Team : /\ From(n, T, v) \in Nat /\ To(n, T, v) \in Nat
                           /\ From(n, T, v) <= To(n, T, v)
        /\ \A u, v \in Team : u < v => To(n, T, u) <= From(n, T, v)
    <2>1. \A v \in Team : /\ From(n, T, v) \in Nat /\ To(n, T, v) \in Nat /\ Size(n, T, v) \in Nat
      BY <1>1, <1>2, Chunks
    <2>2. \A v \in Team : From(n, T, v) <= To(n, T, v)
      BY <2>1 DEF To
    <2>3. \A u, v \in Team : u < v => To(n, T, u) <= From(n, T, v)
      BY <1>1, <1>2, Chunks
    <2> QED
      BY <1>3, <1>4, <2>1, <2>2, <2>3
  <1>7. Lists(s, Hits(S, b, c))
    BY <1>4
  <1>8. \A i \in 1..Len(s) : s[i] \in S
    BY <1>4, <1>7 DEF Lists, Hits
  <1>9. \A v \in Team : Lists(found[v], Hits(S, From(n, T, v), To(n, T, v)))
    OBVIOUS
  <1>10. \A v \in Finders : To(n, T, v) <= lo \/ b <= From(n, T, v)
    <2> SUFFICES ASSUME NEW v \in Finders, v \in ws PROVE b <= From(n, T, v)
      OBVIOUS
    <2>1. v = w \/ w < v
      BY <1>1, <1>3, <1>4
    <2> QED
      BY <1>1, <1>4, <1>6, <2>1
  <1>11. \A v \in Finders : v \in ws <=> v >= w
    <2> SUFFICES ASSUME NEW v \in Finders PROVE v \in ws <=> v >= w
      OBVIOUS
    <2>1. v \in Team /\ v \in Nat /\ w \in Nat
      BY <1>1, <1>4
    <2>2. v >= w /\ v \notin ws => FALSE
      <3> SUFFICES ASSUME v >= w, v \notin ws PROVE FALSE
        OBVIOUS
      <3>1. To(n, T, v) <= lo /\ w < v
        BY <1>3, <2>1
      <3>2. Hits(S, From(n, T, w), To(n, T, w)) = {}
        <4>1. c <= From(n, T, v) /\ From(n, T, v) <= To(n, T, v)
          BY <1>4, <1>6, <2>1, <3>1
        <4>2. c <= b
          BY <1>6, <2>1, <3>1, <4>1
        <4> QED
          BY <1>2, <1>6, <4>2 DEF Hits
      <3>3. {s[i] : i \in DOMAIN s} = {}
        BY <1>7, <3>2 DEF Lists
      <3> HIDE DEF s
      <3> QED
        BY <1>4, <3>3, NotEmpty
    <2> QED
      BY <1>3, <2>1, <2>2
  <1>12. Hits(S, 0, b) = Hits(S, 0, lo)
    <2> HIDE DEF b
    <2> QED
      BY <1>1, <1>6, <1>9, <1>10, NothingBetween
  <1>13. FirstList(dst, base, Hits(S, 0, b)) /\ base = Cardinality(Hits(S, 0, b))
    BY <1>12 DEF FirstList
  <1>14. base + Len(s) \in Nat /\ base + Len(s) <= MaxLen
    <2> HIDE DEF s, b, c, S, n
    <2>1. Len(s) = Cardinality(Hits(S, b, c))
      BY <1>4, <1>7, ListLength
    <2>2. Cardinality(Hits(S, 0, c)) = Cardinality(Hits(S, 0, b)) + Cardinality(Hits(S, b, c))
      BY <1>2, <1>6, HitsFromZero
    <2>3. Cardinality(Hits(S, 0, c)) <= Cardinality(S) /\ Cardinality(Hits(S, 0, c)) \in Nat
      BY <1>2, HitsFinite
    <2> QED
      BY <1>2, <1>4, <1>13, <2>1, <2>2, <2>3
  <1> HIDE DEF j, s, c
  <1>15. JobTyped(j)
    <2>1. \A i \in Upto(Len(s)) : i + 1 \in 1..Len(s) /\ s[i + 1] \in Cells
      <3>1. \A i \in Upto(Len(s)) : i + 1 \in 1..Len(s)
        BY <1>4 DEF Upto
      <3>2. S \subseteq Cells
        BY <1>2 DEF Upto, Cells
      <3> QED
        BY <1>8, <3>1, <3>2
    <2>2. j.from \in [Upto(j.len) -> Cells]
      BY <1>5, <2>1
    <2>3. \A i \in Upto(Len(s)) : j.to[i] = i /\ i \in Nat /\ base + i \in Cells
      <3>1. \A i \in Upto(Len(s)) : j.to[i] = i
        BY <1>5 DEF Identity
      <3>2. \A i \in Upto(Len(s)) : i \in Nat /\ base + i \in Cells
        BY <1>2, <1>4, <1>14 DEF Upto, Cells
      <3> QED
        BY <3>1, <3>2
    <2>4. j.to \in [Upto(j.len) -> Nat] /\ OneToOne(j.to)
      BY <1>5, <2>3 DEF Identity, OneToOne
    <2>5. j.threads \in 0..MaxThreads
      BY <1>1, <1>5 DEF Typed
    <2> QED
      BY <1>4, <1>5, <2>2, <2>3, <2>4, <2>5 DEF JobTyped
  <1>16. CallTyped'
    BY <1>1 DEF Typed, CallTyped
  <1>17. /\ Typed' /\ Begun' /\ Running' /\ Written' = {}
    BY <1>1, <1>5, <1>15, <1>16, LaunchWorks
  <1>18. Team' = Team /\ Finders' = Finders
    BY <1>5 DEF Team, Finders
  <1>19. Gathering(w)'
    <2>1. found'[w]= s /\ job'.len = Len(s) /\ job'.base = base /\ job'.threads = T
      BY <1>5 DEF s
    <2>2. queue' = {v \in Finders' : v > w}
      <3>1. \A v \in Finders : v \in Nat /\ w \in Nat
        BY <1>1, <1>4
      <3>2. \A v \in Finders : v > w <=> v >= w /\ v # w
        BY <3>1
      <3>3. queue' = ws \ {w}
        BY <1>5
      <3> QED
        BY <1>11, <1>18, <3>2, <3>3
    <2>3. job'.from = [i \in Upto(job'.len) |-> found'[w][i + 1]] /\ job'.to = Identity(job'.len)
      BY <1>5, <2>1
    <2>4. FirstList(dst', job'.base, Hits(call'.pred, 0, From(call'.len, job'.threads, w)))
      BY <1>13, <2>1
    <2>5. \A v \in Team' : Lists(found'[v], Hits(call'.pred, From(call'.len, job'.threads, v),
                                                  To(call'.len, job'.threads, v)))
      BY <1>18, <2>1
    <2> HIDE DEF w
    <2> QED
      BY <1>4, <2>1, <2>2, <2>3, <2>4, <2>5 DEF Gathering
  <1>20. Copying'
    <2>1. \A x \in Cells : x >= job'.base => dst'[x] = Unset
      BY <1>5
    <2>2. call'.op = "filter_early" /\ w \in Team'
      BY <1>4, <1>18
    <2> HIDE DEF w
    <2> QED
      BY <1>17, <1>19, <2>1, <2>2 DEF Copying, Filters
  <1>21. Filtering'
    BY <1>5 DEF Filtering, Filters
  <1>22. stage' # "returned"
    BY <1>17 DEF Running
  <1> QED
    BY <1>17, <1>20, <1>21, <1>22 DEF Work, SameAsOneThread

LEMMA EarlyWorks == ASSUME Roster, Work, EarlyGathers PROVE Work' /\ SameAsOneThread'
  <1>1. /\ stage = "merge" /\ job.kind = "filter_early" /\ UNCHANGED <<call, dst, found, ok>>
        /\ total' = total + Len(found[job.threads])
        /\ IF Finders = {} THEN Return /\ UNCHANGED <<next, team, queue>>
           ELSE LaunchGather(Finders, 0)
    BY DEF EarlyGathers
  <1>2. Running /\ Typed /\ job.kind \in Filters
    BY <1>1 DEF Running, Work, Filters
  <1>3. /\ call.op = "filter_early" /\ queue = {}
        /\ \A v \in Team : Lists(found[v], Hits(call.pred, From(call.len, job.threads, v),
                                                           To(call.len, job.threads, v)))
        /\ total' = Cardinality(call.pred)
    BY <1>1, <1>2, ChunksListed
  <1>4. dst = Clean
    BY <1>1, <1>2 DEF Work, Filtering
  <1>5. CASE Finders = {}
    <2>1. call.len \in Nat /\ 0 <= call.len
      BY <1>2, CallPredicate
    <2>2. Hits(call.pred, 0, 0) = {}
      <3>1. \A g \in call.pred : ~(0 <= g /\ g < 0)
        BY <1>2, CallPredicate
      <3> QED
        BY <3>1 DEF Hits
    <2>3. \A v \in Finders : \/ To(call.len, job.threads, v) <= 0
                             \/ call.len <= From(call.len, job.threads, v)
      BY <1>5
    <2>4. \A z \in Nat : z = 0 => Hits(call.pred, 0, call.len) = Hits(call.pred, 0, z)
      BY <1>2, <1>3, <2>1, <2>3, NothingBetween
    <2>5. call.pred = {}
      BY <1>2, <2>2, <2>4, HitsAll
    <2>6. CallTyped' /\ queue' = {}
      BY <1>1, <1>2, <1>3, <1>5 DEF Typed, CallTyped
    <2>7. Work'
      BY <1>1, <1>2, <1>5, <2>6, ReturnWorks DEF Typed
    <2>8. total' = 0 /\ Upto(total') = {}
      <3>1. total' = 0
        BY <1>3, <2>5, FS_EmptySet
      <3> QED
        BY <3>1 DEF Upto
    <2>9. \A c \in Cells : dst'[c] = Unset
      BY <1>1, <1>4 DEF Clean
    <2>10. Selected'
      BY <1>1, <1>3, <2>5, <2>8, <2>9 DEF Selected
    <2>11. call'.op \in Filters
      BY <1>1, <1>3 DEF Filters
    <2> QED
      BY <2>7, <2>10, <2>11 DEF SameAsOneThread
  <1>6. CASE Finders # {}
    <2>1. FirstList(dst, 0, Hits(call.pred, 0, 0))
      <3>1. \A g \in call.pred : ~(0 <= g /\ g < 0)
        BY <1>2, CallPredicate
      <3>2. Hits(call.pred, 0, 0) = {}
        BY <3>1 DEF Hits
      <3>3. Cardinality({}) = 0 /\ Upto(0) = {}
        BY FS_EmptySet DEF Upto
      <3> QED
        BY <3>2, <3>3 DEF FirstList
    <2>2. \A c \in Cells : dst[c] = Unset
      BY <1>4 DEF Clean
    <2>3. \A v \in Finders : 0 <= From(call.len, job.threads, v)
      <3>1. call.len \in Nat /\ job.threads \in Nat /\ Finders \subseteq 0..job.threads
        BY <1>2, CallPredicate, JobChunks DEF Finders
      <3>2. \A v \in 0..job.threads : From(call.len, job.threads, v) \in Nat
        BY <3>1, Chunks
      <3> QED
        BY <3>1, <3>2
    <2>4. LaunchGather(Finders, 0) /\ Finders \in SUBSET Finders
      BY <1>1, <1>6
    <2>5. PICK z \in Nat : z = 0
      OBVIOUS
    <2> QED
      BY <1>1, <1>3, <1>6, <2>1, <2>2, <2>3, <2>4, <2>5, GatherLaunched
  <1> QED
    BY <1>5, <1>6

LEMMA NextGatherWorks == ASSUME Roster, Work, NextGather PROVE Work' /\ SameAsOneThread'
  <1>1. /\ stage = "merge" /\ job.kind \notin Filters /\ queue # {}
        /\ LaunchGather(queue, job.base + job.len) /\ UNCHANGED <<call, dst, found, total, ok>>
    BY DEF NextGather
  <1>2. Running /\ Typed
    BY <1>1 DEF Running, Work
  <1>3. call.op = "filter_early" /\ \E u \in Team : Gathering(u)
    BY <1>1, <1>2 DEF Work, Copying
  <1>4. PICK u \in Team : Gathering(u)
    BY <1>3
  <1>5. /\ FirstList(dst, job.base + job.len, Hits(call.pred, 0, To(call.len, job.threads, u)))
        /\ job.base + job.len \in Nat
        /\ \A c \in Cells : c >= job.base + job.len => dst[c] = Unset
    BY <1>1, <1>4, GatherDone
  <1>6. /\ queue = {v \in Finders : v > u} /\ total = Cardinality(call.pred)
        /\ \A v \in Team : Lists(found[v], Hits(call.pred, From(call.len, job.threads, v),
                                                           To(call.len, job.threads, v)))
    BY <1>4 DEF Gathering
  <1>7. /\ call.len \in Nat /\ job.threads \in Nat /\ u \in 0..job.threads
        /\ Finders \subseteq 0..job.threads /\ queue \in SUBSET Finders
    BY <1>2, <1>4, <1>6, CallPredicate, JobChunks DEF Finders, Team
  <1> DEFINE n == call.len
             T == job.threads
  <1>8. /\ \A v \in 0..T : From(n, T, v) \in Nat /\ To(n, T, v) \in Nat
        /\ \A v, x \in 0..T : v < x => To(n, T, v) <= From(n, T, x)
        /\ \A v \in 0..T : From(n, T, v) <= To(n, T, v)
    <2>1. /\ \A v \in 0..T : From(n, T, v) \in Nat /\ To(n, T, v) \in Nat /\ Size(n, T, v) \in Nat
          /\ \A v, x \in 0..T : v < x => To(n, T, v) <= From(n, T, x)
      BY <1>7, Chunks
    <2>2. \A v \in 0..T : From(n, T, v) <= To(n, T, v)
      BY <2>1 DEF To
    <2> QED
      BY <2>1, <2>2
  <1>9. \A v \in queue : To(n, T, u) <= From(n, T, v)
    BY <1>6, <1>7, <1>8
  <1>10. \A v \in Finders \ queue : To(n, T, v) <= To(n, T, u)
    <2> SUFFICES ASSUME NEW v \in Finders \ queue PROVE To(n, T, v) <= To(n, T, u)
      OBVIOUS
    <2>1. v \in 0..T /\ (v = u \/ v < u)
      BY <1>6, <1>7
    <2> QED
      BY <1>7, <1>8, <2>1
  <1>11. To(n, T, u) \in Nat
    BY <1>7, <1>8
  <1> QED
    BY <1>1, <1>3, <1>5, <1>6, <1>7, <1>9, <1>10, <1>11, GatherLaunched

(* A loop of copies is over: of the call itself, or the last gather of     *)
(* filter_early.                                                           *)
LEMMA ForWorks == ASSUME Roster, Work, ForReturns PROVE Work' /\ SameAsOneThread'
  <1>1. /\ stage = "merge" /\ job.kind \notin Filters /\ queue = {} /\ Return
        /\ UNCHANGED <<call, next, team, dst, found, queue, total, ok>>
    BY DEF ForReturns
  <1>2. Running /\ Typed
    BY <1>1 DEF Running, Work
  <1>3. CallTyped' /\ dst' \in [Cells -> Int \cup {Unset}]
    BY <1>1, <1>2 DEF Typed, CallTyped
  <1>4. Work'
    BY <1>1, <1>2, <1>3, ReturnWorks
  <1>5. Written = Upto(job.len)
    BY <1>1, <1>2, AllWritten DEF Work, Begun
  <1>6. CASE call.op \notin Filters
    <2>1. /\ job.len = call.len /\ job.from = call.from /\ job.to = call.to /\ job.base = 0
          /\ \A g \in Upto(call.len) : dst[Cell(g)] = call.from[g]
          /\ \A c \in Cells : c >= 0 /\ (\A g \in Upto(call.len) : Cell(g) # c) => dst[c] = Unset
      BY <1>1, <1>2, <1>5, <1>6 DEF Work, Copying
    <2>2. /\ \A g \in Upto(call.len) : Cell(g) = call.to[g]
          /\ \A g, k \in Upto(call.len) : call.to[g] = call.to[k] => g = k
          /\ dst \in [Cells -> Int \cup {Unset}]
      BY <1>2, <2>1 DEF Typed, Cell, OneToOne
    <2>3. ASSUME NEW c \in Cells
          PROVE  dst[c] = IF \E g \in Upto(call.len) : call.to[g] = c
                          THEN call.from[CHOOSE g \in Upto(call.len) : call.to[g] = c] ELSE Unset
      <3>1. CASE \E g \in Upto(call.len) : call.to[g] = c
        <4> DEFINE g == CHOOSE g \in Upto(call.len) : call.to[g] = c
        <4>1. g \in Upto(call.len) /\ call.to[g] = c
          BY <3>1
        <4> QED
          BY <2>1, <2>2, <3>1, <4>1
      <3>2. CASE ~\E g \in Upto(call.len) : call.to[g] = c
        <4>1. c >= 0
          BY DEF Cells
        <4> QED
          BY <2>1, <2>2, <3>2, <4>1
      <3> QED
        BY <3>1, <3>2
    <2>4. dst = Copied
      BY <2>2, <2>3 DEF Copied
    <2>5. Copied' = Copied /\ dst' = dst /\ call' = call
      BY <1>1 DEF Copied
    <2> QED
      BY <1>4, <1>6, <2>4, <2>5 DEF SameAsOneThread
  <1>7. CASE call.op \in Filters
    <2>1. PICK u \in Team : Gathering(u)
      BY <1>1, <1>2, <1>7 DEF Work, Copying
    <2>2. /\ FirstList(dst, job.base + job.len, Hits(call.pred, 0, To(call.len, job.threads, u)))
          /\ job.base + job.len \in Nat
          /\ \A c \in Cells : c >= job.base + job.len => dst[c] = Unset
      BY <1>1, <2>1, GatherDone
    <2>3. /\ \A v \in Finders : ~(v > u)
          /\ total = Cardinality(call.pred)
          /\ \A v \in Team : Lists(found[v], Hits(call.pred, From(call.len, job.threads, v),
                                                           To(call.len, job.threads, v)))
      BY <1>1, <2>1 DEF Gathering
    <2> DEFINE n == call.len
               T == job.threads
    <2>4. /\ n \in Nat /\ T \in Nat /\ u \in 0..T /\ Finders \subseteq 0..T
      BY <1>2, <2>1, CallPredicate, JobChunks DEF Finders, Team
    <2>5. /\ \A v \in 0..T : From(n, T, v) \in Nat /\ To(n, T, v) \in Nat /\ Size(n, T, v) \in Nat
                              /\ To(n, T, v) <= n
          /\ \A v, x \in 0..T : v < x => To(n, T, v) <= From(n, T, x)
      BY <2>4, Chunks
    <2>6. To(n, T, u) \in Nat /\ To(n, T, u) <= n
      BY <2>4, <2>5
    <2>7. \A v \in Finders : To(n, T, v) <= To(n, T, u) \/ n <= From(n, T, v)
      <3> SUFFICES ASSUME NEW v \in Finders PROVE To(n, T, v) <= To(n, T, u)
        OBVIOUS
      <3>1. v \in 0..T /\ (v = u \/ v < u)
        BY <2>3, <2>4
      <3>2. From(n, T, u) <= To(n, T, u)
        BY <2>4, <2>5 DEF To
      <3> QED
        BY <2>4, <2>5, <3>1, <3>2
    <2>8. Hits(call.pred, 0, n) = Hits(call.pred, 0, To(n, T, u))
      BY <1>2, <2>3, <2>4, <2>6, <2>7, NothingBetween
    <2>9. FirstList(dst, total, call.pred) /\ total = job.base + job.len
      BY <1>2, <2>2, <2>3, <2>8, HitsAll DEF FirstList
    <2>10. \A c \in Cells \ Upto(total) : dst[c] = Unset
      <3>1. \A c \in Cells \ Upto(total) : c >= total
        BY <2>2, <2>9 DEF Cells, Upto
      <3> QED
        BY <2>2, <2>9, <3>1
    <2>11. Selected'
      BY <1>1, <2>9, <2>10 DEF Selected, FirstList
    <2> QED
      BY <1>1, <1>4, <1>7, <2>11 DEF SameAsOneThread
  <1> QED
    BY <1>6, <1>7

-----------------------------------------------------------------------------
LEMMA InitIInv == Init => IInv
  BY InitKeeps, InitWorks DEF IInv, Work

LEMMA NextIInv == IInv /\ [Next]_vars => IInv'
  <1> SUFFICES ASSUME IInv, [Next]_vars PROVE IInv'
    OBVIOUS
  <1>1. Roster /\ Work /\ Typed /\ Begun /\ SameAsOneThread
    BY DEF IInv, Work
  <1>2. Roster'
    BY <1>1, NextKeeps
  <1>3. CASE Calls
    BY <1>1, <1>2, <1>3, CallsWork DEF IInv, Work
  <1>4. CASE ParallelShuffle \/ Prepare
    BY <1>1, <1>2, <1>4, OutsideWorks DEF IInv, Work
  <1>5. CASE StartHelper
    BY <1>1, <1>2, <1>5, StartWorks DEF IInv, Work
  <1>6. CASE ChunkDone
    BY <1>1, <1>2, <1>6, ChunkDoneWorks DEF IInv, Work
  <1>7. CASE Join
    BY <1>1, <1>2, <1>7, JoinWorks DEF IInv, Work
  <1>8. CASE ForReturns
    BY <1>1, <1>2, <1>8, ForWorks DEF IInv, Work
  <1>9. CASE LateReturns
    BY <1>1, <1>2, <1>9, LateWorks DEF IInv, Work
  <1>10. CASE EarlyGathers
    BY <1>1, <1>2, <1>10, EarlyWorks DEF IInv, Work
  <1>11. CASE NextGather
    BY <1>1, <1>2, <1>11, NextGatherWorks DEF IInv, Work
  <1>12. ASSUME NEW w \in Workers, Step(w) PROVE IInv'
    BY <1>1, <1>2, <1>12, StepWorks DEF IInv, Work
  <1>13. ASSUME NEW h \in Helpers, HelperEnds(h) PROVE IInv'
    BY <1>1, <1>2, <1>13, HelperEndsWorks DEF IInv, Work
  <1>14. CASE UNCHANGED vars
    <2>1. UNCHANGED <<call, stage, job, next, team, at, dst, found, queue, total, ok>>
      BY <1>14 DEF vars
    <2>2. /\ Team' = Team /\ Running' = Running /\ Joined' = Joined
          /\ \A w : ChunkStart(w)' = ChunkStart(w) /\ Element(w)' = Element(w)
                   /\ ChunkLen(w)' = ChunkLen(w) /\ (ChunkIsDone(w)' <=> ChunkIsDone(w))
                   /\ (Out(w)' <=> Out(w))
          /\ \A g : Cell(g)' = Cell(g)
      BY <2>1 DEF Team, Running, Joined, ChunkStart, Element, ChunkLen, ChunkIsDone, Out, Cell
    <2>3. Typed'
      BY <1>1, <2>1, <2>2 DEF Typed
    <2>4. Begun'
      BY <1>1, <2>1, <2>2 DEF Begun
    <2>5. Filtering'
      BY <1>1, <2>1, <2>2 DEF Work, Filtering
    <2>6. Copying'
      <3>1. Written' = Written
        BY <2>1, <2>2 DEF Written
      <3>2. \A w \in Team : Gathering(w)' <=> Gathering(w)
        BY <2>1, <2>2 DEF Gathering, Finders
      <3> QED
        BY <1>1, <2>1, <2>2, <3>1, <3>2 DEF Work, Copying
    <2>7. SameAsOneThread'
      BY <1>1, <2>1 DEF SameAsOneThread, Selected, Copied
    <2> QED
      BY <1>2, <2>3, <2>4, <2>5, <2>6, <2>7 DEF IInv
  <1> QED
    BY <1>3, <1>4, <1>5, <1>6, <1>7, <1>8, <1>9, <1>10, <1>11, <1>12, <1>13, <1>14
       DEF Next, Caller, Worker

(* CellsApart (in the run Parallel): no two threads of a loop write the    *)
(* same cell, none leaves the part of the destination the loop is for, and *)
(* nobody overwrites a result, neither a chunk nor a gather of             *)
(* filter_early behind the others.                                         *)
THEOREM ParallelCellsApart == Spec => []CellsApart
  <1>1. IInv => CellsApart
    BY Apart DEF IInv
  <1> QED
    BY <1>1, InitIInv, NextIInv, PTL DEF Spec

(* SameAsOneThread (in the run Parallel): a call that succeeds leaves what *)
(* one thread would leave, in the same order, however its range is cut and *)
(* however its threads are scheduled.                                      *)
THEOREM ParallelSameAsOneThread == Spec => []SameAsOneThread
  <1>1. IInv => SameAsOneThread
    BY DEF IInv
  <1> QED
    BY <1>1, InitIInv, NextIInv, PTL DEF Spec
=============================================================================
