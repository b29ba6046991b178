------------------------------ MODULE SidCache ------------------------------
(***************************************************************************)
(* One bucket of the string cache, src/core/carbon/archive_sid_cache.c: a  *)
(* fixed number of slots linked in both directions, most recent first.     *)
(* The operators are those of the code on struct lru_list; module          *)
(* ArchiveStrings has the buckets and the calls.                           *)
(***************************************************************************)
EXTENDS Integers, SequencesExt, FiniteSetsExt

CONSTANTS Slots,  \* entries of a bucket: 1024
          None    \* NULL

ASSUME SidCacheAssumption == Slots \in Nat \ {0, 1} /\ None \notin Int

(* init_list, on zeroed memory: no slot has a text, every identifier is 0. *)
NewBucket == [most |-> 1, lest |-> Slots,
              prev |-> [s \in 1..Slots |-> IF s = 1 THEN None ELSE s - 1],
              next |-> [s \in 1..Slots |-> IF s < Slots THEN s + 1 ELSE None],
              id   |-> [s \in 1..Slots |-> 0],
              text |-> [s \in 1..Slots |-> None]]

(* The slots in the order in which a lookup passes them; one more than     *)
(* there are, if the links go in a circle.                                 *)
Walk(list) ==
    LET Passed[n \in 1..Slots + 1] ==
          IF n = 1 THEN <<list.most>>
          ELSE LET before == Passed[n - 1]
                   last   == Last(before)
               IN  IF last = None \/ list.next[last] = None THEN before
                   ELSE Append(before, list.next[last])
    IN  Passed[Slots + 1]

(* The slot at which a lookup stops, or None.                              *)
Lookup(list, id) ==
    LET order == Walk(list)
        hits  == {k \in DOMAIN order : list.id[order[k]] = id}
    IN  IF hits = {} THEN None ELSE order[Min(hits)]

(* Mutation of the operator that follows: the end is forgotten.            *)
UnlinkedKeepingEnd(list, s) ==
    LET p == list.prev[s]
        n == list.next[s]
        forward == IF p # None THEN [list EXCEPT !.next[p] = n] ELSE list
    IN  IF n # None THEN [forward EXCEPT !.prev[n] = p] ELSE forward

(* make_most_recent: the slot leaves its place and goes to the front.  Its *)
(* own prev stays as it was, until another slot goes before it.            *)
Unlinked(list, s) ==
    LET p == list.prev[s]
        n == list.next[s]
        forward == IF p # None THEN [list EXCEPT !.next[p] = n] ELSE list
    IN  IF n # None THEN [forward EXCEPT !.prev[n] = p] ELSE [forward EXCEPT !.lest = p]

MakeMostRecent(list, s) ==
    IF list.most = s THEN list
    ELSE LET out == Unlinked(list, s)
         IN  [out EXCEPT !.prev[out.most] = s, !.next[s] = out.most, !.most = s]

(* A miss: the least recent slot takes the text that was fetched; the text *)
(* it had is not freed.                                                    *)
Stored(list, id, text) ==
    LET s == list.lest
    IN  MakeMostRecent([list EXCEPT !.text[s] = text, !.id[s] = id], s)

(* The slots hold these identifiers, most recent first; the others were    *)
(* never used.                                                             *)
Holds(list, ids) ==
    LET order == Walk(list)
    IN  \A k \in 1..Slots :
            IF k <= Len(ids) THEN list.id[order[k]] = ids[k] /\ list.text[order[k]] # None
                             ELSE list.text[order[k]] = None

(* The links of both directions lead through all slots; the prev of the    *)
(* front is not looked at.                                                 *)
Linked(list) ==
    LET order == Walk(list)
    IN  /\ Len(order) = Slots
        /\ ToSet(order) = 1..Slots
        /\ Last(order) = list.lest
        /\ \A k \in 2..Slots : list.prev[order[k]] = order[k - 1]
=============================================================================
