------------------------------ MODULE Parallel ------------------------------
(***************************************************************************)
(* The data-parallel primitives of src/core/async/parallel.c: map, gather, *)
(* scatter, shuffle and the two filters, each on one thread or on several. *)
(*                                                                         *)
(* A call cuts its range into one chunk per helper thread and a last one,  *)
(* which takes the remainder, for the caller.  The caller starts the       *)
(* helpers one after the other, works on its own chunk, joins them in      *)
(* order and, for the filters, puts the partial results together.          *)
(* parallel_filter_early filters first and then runs one parallel gather   *)
(* per non-empty partial result.                                           *)
(*                                                                         *)
(* The elements of the source are their positions 0, 1, ...: a cell of the *)
(* destination holds the position its value came from.                     *)
(***************************************************************************)
EXTENDS Integers, Sequences, FiniteSetsExt

CONSTANTS MaxLen,      \* bound: elements of a call
          MaxThreads,  \* bound: helper threads of a call
          NullChecks,  \* a debug build, where error_if_null rejects zero
          Unset        \* what a cell holds that was not written

ASSUME ParallelAssumption == /\ MaxLen \in Nat
                             /\ MaxThreads \in Nat
                             /\ NullChecks \in BOOLEAN
                             /\ Unset \notin Int

VARIABLES call,    \* the last call: its operation and its arguments
          stage,   \* where the caller is
          job,     \* the loop over chunks that runs now
          next,    \* the helper that is started or joined next
          team,    \* the thread of each helper
          at,      \* how many elements of its chunk each worker has done
          dst,     \* the destination: result, or positions
          found,   \* filters: the positions each worker found
          queue,   \* filter_early: the workers whose gather is still to do
          total,   \* filters: result_size, num_pos
          ok       \* the answer of the last call

vars == <<call, stage, job, next, team, at, dst, found, queue, total, ok>>

Cells == 0..MaxLen - 1

Filters == {"filter_late", "filter_early"}

Operations == {"map", "gather", "gather_adr", "scatter", "shuffle"} \cup Filters

Helpers == 0..MaxThreads - 1

Workers == 0..MaxThreads

Upto(n) == 0..n - 1

(* What a call may be given: idx names a source for each cell (gather), a  *)
(* cell for each source (scatter; two writers of one cell would race), or  *)
(* both; a filter has a predicate, here the set of positions it holds for. *)
Identity(n) == [i \in Upto(n) |-> i]

Injections(n) == {f \in [Upto(n) -> Cells] : \A i, k \in Upto(n) : f[i] = f[k] => i = k}

Sources(op, n) == IF op \in {"gather", "gather_adr", "shuffle"} THEN [Upto(n) -> Cells]
                  ELSE {Identity(n)}

Targets(op, n) == IF op \in {"scatter", "shuffle"} THEN Injections(n) ELSE {Identity(n)}

Predicates(op, n) == IF op \in Filters THEN SUBSET Upto(n) ELSE {{}}

Job(kind, len, threads, from, to, base) ==
    [kind |-> kind, len |-> len, threads |-> threads, from |-> from, to |-> to, base |-> base]

NoJob == Job("none", 0, 0, Identity(0), Identity(0), 0)

Clean == [c \in Cells |-> Unset]

NoCall == [op |-> "none"]

Init == /\ call = NoCall
        /\ stage = "idle"
        /\ job = NoJob
        /\ next = 0
        /\ team = [h \in Helpers |-> "none"]
        /\ at = [w \in Workers |-> 0]
        /\ dst = Clean
        /\ found = [w \in Workers |-> <<>>]
        /\ queue = {}
        /\ total = 0
        /\ ok = TRUE

-----------------------------------------------------------------------------
(* Chunks.  Worker job.threads is the caller; its chunk is the last one.   *)

(* Mutations of the operators that follow: the caller does not take the    *)
(* remainder; its chunk starts one chunk early.                            *)
ChunkLenEven(w) == job.len \div (job.threads + 1)

ChunkStartEarly(w) ==
    (IF w = job.threads /\ w > 0 THEN w - 1 ELSE w) * (job.len \div (job.threads + 1))

ChunkLen(w) == (job.len \div (job.threads + 1))
                 + IF w = job.threads THEN job.len % (job.threads + 1) ELSE 0

ChunkStart(w) == w * (job.len \div (job.threads + 1))

(* filter_late starts and joins no thread when the chunks are empty.       *)
Started(j) == IF j.kind = "filter_late" /\ j.len \div (j.threads + 1) = 0 THEN 0 ELSE j.threads

Launch(j) == /\ job' = j
             /\ next' = 0
             /\ stage' = IF Started(j) > 0 THEN "start" ELSE "work"
             /\ at' = [w \in Workers |-> 0]
             /\ UNCHANGED team

(* A debug build rejects a length of zero in the sequential for and filter *)
(* and in both forms of filter_early; gather, scatter and shuffle do not   *)
(* look at it.                                                             *)
Rejects(op, len, single) ==
    /\ NullChecks
    /\ len = 0
    /\ op = "filter_early" \/ (single /\ op \in {"map", "filter_late"})

(* parallel_for and filter_late do nothing for a length of zero.           *)
ReturnsAtOnce(op, len, single) == len = 0 /\ ~single /\ op # "filter_early"

(* The call is over; the loop's variables are gone.                        *)
Return == stage' = "returned" /\ job' = NoJob /\ at' = [w \in Workers |-> 0]

(* A call with its hint and num_threads; on one thread, the same loop runs *)
(* over one chunk.                                                         *)
Call(op, len, hint, threads, from, to, pred) ==
    LET single == hint = "single"
        here   == IF single THEN 0 ELSE threads
    IN  /\ op = "shuffle" => single
        /\ call' = [op |-> op, len |-> len, from |-> from, to |-> to, pred |-> pred]
        /\ ok' = ~Rejects(op, len, single)
        /\ IF Rejects(op, len, single) \/ ReturnsAtOnce(op, len, single)
           THEN Return /\ UNCHANGED <<next, team>>
           ELSE Launch(Job(op, len, here, from, to, 0))
        /\ UNCHANGED <<dst, found, queue, total>>

(* There is no parallel shuffle: NG5_NOT_IMPLEMENTED ends the process.     *)
ParallelShuffle == /\ stage = "idle"
                   /\ stage' = "aborted"
                   /\ UNCHANGED <<call, job, next, team, at, dst, found, queue, total, ok>>

(* Mutation: the loop does not advance.                                    *)
NextHelperSame(h) == h

(* pthread_create for the next helper; after the last one the caller works *)
(* on its own chunk.                                                       *)
NextHelper(h) == h + 1

StartHelper == /\ stage = "start"
               /\ team' = [team EXCEPT ![next] = "runs"]
               /\ IF NextHelper(next) < job.threads
                  THEN next' = NextHelper(next) /\ UNCHANGED stage
                  ELSE next' = 0 /\ stage' = "work"
               /\ UNCHANGED <<call, job, at, dst, found, queue, total, ok>>

Works(w) == IF w = job.threads THEN stage = "work" ELSE w < job.threads /\ team[w] = "runs"

(* The cell a worker writes for the element g of the whole range, and what *)
(* it writes there.                                                        *)
Cell(g) == job.base + job.to[g]

Element(w) == ChunkStart(w) + at[w]

(* One element: a copy to the destination, or a test of the predicate that *)
(* notes the position in the worker's own array.                           *)
Step(w) ==
    LET g == Element(w)
    IN  /\ Works(w)
        /\ at[w] < ChunkLen(w)
        /\ at' = [at EXCEPT ![w] = @ + 1]
        /\ IF job.kind \in Filters
           THEN /\ found' = IF g \in call.pred THEN [found EXCEPT ![w] = Append(@, g)] ELSE found
                /\ UNCHANGED dst
           ELSE /\ dst' = [dst EXCEPT ![Cell(g)] = job.from[g]]
                /\ UNCHANGED found
        /\ UNCHANGED <<call, stage, job, next, team, queue, total, ok>>

(* A helper has done its chunk and its thread ends.                        *)
HelperEnds(h) == /\ h < job.threads
                 /\ team[h] = "runs"
                 /\ at[h] = ChunkLen(h)
                 /\ team' = [team EXCEPT ![h] = "ended"]
                 /\ UNCHANGED <<call, stage, job, next, at, dst, found, queue, total, ok>>

(* Mutation: joins only if the chunks are not empty, whoever was started.  *)
ChunkDoneSkipping == /\ stage = "work"
                     /\ at[job.threads] = ChunkLen(job.threads)
                     /\ stage' = IF Started(job) > 0 /\ job.len \div (job.threads + 1) > 0
                                 THEN "join" ELSE "merge"
                     /\ UNCHANGED <<call, job, next, team, at, dst, found, queue, total, ok>>

(* The caller has done its own chunk.                                      *)
ChunkDone == /\ stage = "work"
             /\ at[job.threads] = ChunkLen(job.threads)
             /\ stage' = IF Started(job) > 0 THEN "join" ELSE "merge"
             /\ UNCHANGED <<call, job, next, team, at, dst, found, queue, total, ok>>

(* memcpy of positions behind those that are there already.                *)
Appended(s) == [c \in Cells |-> IF c \in total..total + Len(s) - 1 THEN s[c - total + 1]
                                ELSE dst[c]]

(* pthread_join; a filter counts the positions of the thread, filter_late  *)
(* copies them at once.                                                    *)
Join == /\ stage = "join"
        /\ team[next] = "ended"
        /\ team' = [team EXCEPT ![next] = "none"]
        /\ total' = IF job.kind \in Filters THEN total + Len(found[next]) ELSE total
        /\ dst' = IF job.kind = "filter_late" THEN Appended(found[next]) ELSE dst
        /\ IF next + 1 < job.threads
           THEN next' = next + 1 /\ UNCHANGED stage
           ELSE next' = 0 /\ stage' = "merge"
        /\ UNCHANGED <<call, job, at, found, queue, ok>>

-----------------------------------------------------------------------------
(* After the last join.                                                    *)

(* parallel_for returns.                                                   *)
ForReturns == /\ stage = "merge"
              /\ job.kind \notin Filters
              /\ queue = {}
              /\ Return
              /\ UNCHANGED <<call, next, team, dst, found, queue, total, ok>>

(* filter_late copies the positions of the caller's chunk.                 *)
LateReturns == /\ stage = "merge"
               /\ job.kind = "filter_late"
               /\ dst' = Appended(found[job.threads])
               /\ total' = total + Len(found[job.threads])
               /\ Return
               /\ UNCHANGED <<call, next, team, found, queue, ok>>

(* The gathers of filter_early: one per worker that found something, each  *)
(* behind the results of the workers before it.                            *)
GatherOf(w, base) == LET f == [i \in Upto(Len(found[w])) |-> found[w][i + 1]]
                     IN  Job("gather", Len(found[w]), job.threads, f, Identity(Len(found[w])), base)

Finders == {w \in 0..job.threads : found[w] # <<>>}

LaunchGather(workers, base) == LET w == Min(workers)
                               IN  Launch(GatherOf(w, base)) /\ queue' = workers \ {w}

EarlyGathers == /\ stage = "merge"
                /\ job.kind = "filter_early"
                /\ total' = total + Len(found[job.threads])
                /\ IF Finders = {}
                   THEN Return /\ UNCHANGED <<next, team, queue>>
                   ELSE LaunchGather(Finders, 0)
                /\ UNCHANGED <<call, dst, found, ok>>

NextGather == /\ stage = "merge"
              /\ job.kind \notin Filters
              /\ queue # {}
              /\ LaunchGather(queue, job.base + job.len)
              /\ UNCHANGED <<call, dst, found, total, ok>>

(* The caller has used the result and prepares another call.               *)
Prepare == /\ stage = "returned"
           /\ stage' = "idle"
           /\ call' = NoCall
           /\ dst' = Clean
           /\ found' = [w \in Workers |-> <<>>]
           /\ total' = 0
           /\ ok' = TRUE
           /\ UNCHANGED <<job, next, team, at, queue>>

-----------------------------------------------------------------------------
Calls ==
    /\ stage = "idle"
    /\ \E op \in Operations, len \in 0..MaxLen, hint \in {"single", "multi"},
          threads \in 0..MaxThreads :
         \E from \in Sources(op, len), to \in Targets(op, len), pred \in Predicates(op, len) :
           Call(op, len, hint, threads, from, to, pred)

Worker(w) == Step(w) \/ (w \in Helpers /\ HelperEnds(w))

Caller == \/ StartHelper
          \/ ChunkDone
          \/ Join
          \/ ForReturns
          \/ LateReturns
          \/ EarlyGathers
          \/ NextGather

Next == Calls \/ ParallelShuffle \/ Prepare \/ Caller \/ \E w \in Workers : Worker(w)

Spec == Init /\ [][Next]_vars

(* The operating system runs every thread.                                 *)
FairSpec == Spec /\ WF_vars(Caller) /\ \A w \in Workers : WF_vars(Worker(w))

-----------------------------------------------------------------------------
(* Properties.                                                             *)

(* The result of a copy on one thread, by its definition.                  *)
Copied == [c \in Cells |->
              IF \E g \in Upto(call.len) : call.to[g] = c
              THEN call.from[CHOOSE g \in Upto(call.len) : call.to[g] = c] ELSE Unset]

(* The result of a filter on one thread: the first cells hold the elements *)
(* it selects, in ascending order, and the others nothing.                 *)
Selected == /\ total = Cardinality(call.pred)
            /\ {dst[c] : c \in Upto(total)} = call.pred
            /\ \A c, d \in Upto(total) : c < d => dst[c] < dst[d]
            /\ \A c \in Cells \ Upto(total) : dst[c] = Unset

(* A call that succeeds leaves what one thread would leave, in the same    *)
(* order, however many threads there were and however they were scheduled  *)
(* (parallel.c:172-211, 515-598, 623-716).                                 *)
SameAsOneThread ==
    stage = "returned" /\ ok => IF call.op \in Filters THEN Selected ELSE dst = Copied

(* The cells a worker has still to write in this loop.                     *)
ToWrite(w) == IF job.kind \in Filters THEN {}
              ELSE {Cell(g) : g \in Element(w)..ChunkStart(w) + ChunkLen(w) - 1}

(* No two workers of a loop write the same cell, and none leaves the part  *)
(* of the destination that this loop is for: neither the chunks nor the    *)
(* bases of the gathers of filter_early overlap.                           *)
CellsApart ==
    \A v, w \in 0..job.threads :
        /\ v # w => ToWrite(v) \cap ToWrite(w) = {}
        /\ ToWrite(w) \subseteq Cells
        /\ \A c \in ToWrite(w) : dst[c] = Unset

(* When a call has returned, none of its threads runs: they work with      *)
(* arguments in arrays on the caller's stack (parallel.c:180-199).         *)
NoOrphans == stage \in {"returned", "merge"} => \A h \in Helpers : team[h] = "none"

(* Every call returns.                                                     *)
CallsReturn == (stage = "start" \/ stage = "work") ~> (stage = "returned")

=============================================================================
