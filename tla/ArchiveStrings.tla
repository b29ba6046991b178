--------------------------- MODULE ArchiveStrings ---------------------------
(***************************************************************************)
(* The strings of a CARBON archive: how the string table is written        *)
(* (archive.c), scanned (archive_strid_iter.c), indexed, searched and      *)
(* fetched from (archive_query.c), and the cache in front of it            *)
(* (archive_sid_cache.c).                                                  *)
(*                                                                         *)
(* The table is a list in the file: each entry has a header, with the      *)
(* offset of the next entry or 0, and the text behind it.  An iterator     *)
(* reads the headers, a vector full at a time.  The index maps an          *)
(* identifier to the place of its text; the hash table it is kept in is    *)
(* module HashTable and taken here as the map it promises, and the packers *)
(* by what a text decodes to.  The cache has a bucket per hash, each a     *)
(* doubly linked list of a fixed number of slots, most recent first.       *)
(***************************************************************************)
EXTENDS SidCache

CONSTANTS Entries,    \* what the string dictionary holds: <<[id, text], ...>>
          Unknown,    \* identifiers that are not in the table
          Occurs,     \* pairs of texts: the first one occurs in the second
          Needles,    \* the texts searched for
          Size,       \* the encoded size of a text
          HeaderSize, \* sizeof(struct string_entry_header)
          FirstEntry, \* where the table begins in the file
          Vector,     \* entries in the iterator's vector: 100000
          HashOf,     \* NG5_HASH_BERNSTEIN of an identifier
          Buckets,    \* how many buckets a cache may be created with
          Limits      \* limits of a search: -1 is NG5_QUERY_LIMIT_NONE

Ids == {Entries[i].id : i \in DOMAIN Entries}

Texts == {Entries[i].text : i \in DOMAIN Entries}

(* An identifier of 0 is that of the slots nobody used, see the README;    *)
(* identifiers and texts of a dictionary are distinct.                     *)
ASSUME ArchiveStringsAssumption ==
    /\ Entries \in Seq([id : Ids, text : Texts]) \ {<<>>}
    /\ \A i, k \in DOMAIN Entries :
         Entries[i].id = Entries[k].id \/ Entries[i].text = Entries[k].text => i = k
    /\ 0 \notin Ids \cup Unknown
    /\ Ids \cap Unknown = {}
    /\ None \notin Texts
    /\ Size \in [Texts -> Nat]
    /\ HashOf \in [Ids \cup Unknown -> Nat]
    /\ {HeaderSize, FirstEntry, Vector} \cup Buckets \subseteq Nat \ {0}
    /\ Limits \subseteq Int

VARIABLES headers,  \* the file: headers by their offset
          texts,    \* and texts by theirs
          written,  \* how many entries are written
          pos,      \* where the next one goes
          saved,    \* the index at the end of the file, or None
          open,     \* the archive is open
          index,    \* query_index_string_id_to_offset, or None
          cache,    \* string_id_cache, or None
          it,       \* disk_offset of the iterator
          task,     \* the operation that is going on
          answer,   \* what the last one answered
          recent,   \* history: identifiers asked of each bucket, latest first
          dead      \* an assertion has stopped the process

vars == <<headers, texts, written, pos, saved, open, index, cache, it, task, answer, recent, dead>>
table == <<headers, texts, written, pos>>

Idle == [op |-> "none"]

NoMap == [x \in {} |-> None]

(* A map after some of its keys were given new values.                     *)
Put(map, new) == [x \in DOMAIN map \cup DOMAIN new |-> IF x \in DOMAIN new THEN new[x] ELSE map[x]]

Init == /\ headers = NoMap
        /\ texts = NoMap
        /\ written = 0
        /\ pos = FirstEntry
        /\ saved = None
        /\ open = FALSE
        /\ index = None
        /\ cache = None
        /\ it = 0
        /\ task = Idle
        /\ answer = Idle
        /\ recent = <<>>
        /\ dead = FALSE

-----------------------------------------------------------------------------
(* The table is written: serialize_string_dic.                             *)

(* Mutation of the operator that follows: the last entry names the first.  *)
NextEntryOffRound(i) ==
    IF i < Len(Entries) THEN pos + HeaderSize + Size[Entries[i].text] ELSE FirstEntry

NextEntryOff(i) == IF i < Len(Entries) THEN pos + HeaderSize + Size[Entries[i].text] ELSE 0

WriteEntry ==
    LET i == written + 1
        e == Entries[i]
    IN  /\ written < Len(Entries)
        /\ headers' = Put(headers, [o \in {pos} |-> [id |-> e.id, next |-> NextEntryOff(i),
                                                     strlen |-> Size[e.text]]])
        /\ texts' = Put(texts, [o \in {pos + HeaderSize} |-> e.text])
        /\ pos' = pos + HeaderSize + Size[e.text]
        /\ written' = i
        /\ UNCHANGED <<saved, open, index, cache, it, task, answer, recent, dead>>

-----------------------------------------------------------------------------
(* strid_iter_next: the offsets at which it reads headers, a vector full   *)
(* at most, and then the one where the next vector begins.  It stops at 0  *)
(* and fails where no header is.                                           *)
Reads[n \in 0..Vector] ==
    IF n = 0 THEN <<it>>
    ELSE LET before == Reads[n - 1]
         IN  IF Last(before) \notin DOMAIN headers THEN before
             ELSE Append(before, headers[Last(before)].next)

NoHeader == Len(Reads[Vector]) <= Vector /\ Last(Reads[Vector]) # 0

Offsets == IF NoHeader THEN <<>> ELSE Front(Reads[Vector])

Info(off) == [id |-> headers[off].id, offset |-> off + HeaderSize, strlen |-> headers[off].strlen]

Infos == [k \in DOMAIN Offsets |-> Info(Offsets[k])]

(* Mutation of the operator that follows: the entry at which the vector is *)
(* full is skipped.                                                        *)
AfterVectorSkipping == LET last == Last(Reads[Vector])
                       IN  IF last = 0 THEN 0 ELSE headers[last].next

AfterVector == IF NoHeader THEN 0 ELSE Last(Reads[Vector])

(* strid_iter_open, at the start of an operation that scans.               *)
Scan(t) == it' = FirstEntry /\ task' = t

(* A call is made when the one before has answered and its answer is used. *)
Quiet == open /\ ~dead /\ task = Idle /\ answer = Idle

(* archive_open of a whole file, with the index that was baked into it.    *)
ArchiveOpen == /\ written = Len(Entries)
               /\ ~open /\ ~dead
               /\ open' = TRUE
               /\ index' = saved
               /\ cache' = None
               /\ recent' = <<>>
               /\ UNCHANGED <<table, saved, it, task, answer, dead>>

ArchiveClose == /\ Quiet
                /\ open' = FALSE
                /\ index' = None
                /\ cache' = None
                /\ recent' = <<>>
                /\ UNCHANGED <<table, saved, it, task, answer, dead>>

AnswerUsed == /\ answer # Idle
              /\ answer' = Idle
              /\ UNCHANGED <<table, saved, open, index, cache, it, task, recent, dead>>

-----------------------------------------------------------------------------
(* The index: query_create_index_string_id_to_offset, called by            *)
(* archive_query and, to be put at the end of the file, by                 *)
(* run_string_id_baking.                                                   *)

(* string_id_cache_create_LRU_ex; archive_query asks for a quarter of the  *)
(* number of strings, at least one.                                        *)
InstallCache(n) == /\ cache' = [b \in 0..n - 1 |-> NewBucket]
                   /\ recent' = [b \in 0..n - 1 |-> <<>>]

(* archive_query on an archive that has an index.                          *)
QueryIndexed(n) == /\ Quiet
                   /\ index # None
                   /\ IF cache = None THEN InstallCache(n) ELSE UNCHANGED <<cache, recent>>
                   /\ UNCHANGED <<table, saved, open, index, it, task, answer, dead>>

QueryUnindexed(n) == /\ Quiet
                     /\ index = None
                     /\ Scan([op |-> "index", map |-> NoMap, buckets |-> n])
                     /\ UNCHANGED <<table, saved, open, index, cache, answer, recent, dead>>

(* run_string_id_baking of a stream that has no index yet.                 *)
Bake == /\ written = Len(Entries)
        /\ ~open /\ ~dead
        /\ saved = None
        /\ task = Idle
        /\ Scan([op |-> "bake", map |-> NoMap])
        /\ UNCHANGED <<table, saved, open, index, cache, answer, recent, dead>>

Entered == LET new == Infos
           IN  [x \in {new[k].id : k \in DOMAIN new} |->
                  LET k == CHOOSE j \in DOMAIN new : new[j].id = x
                  IN  [offset |-> new[k].offset, strlen |-> new[k].strlen]]

IndexVector == /\ task.op \in {"index", "bake"}
               /\ it # 0
               /\ task' = [task EXCEPT !.map = Put(@, Entered)]
               /\ it' = AfterVector
               /\ UNCHANGED <<table, saved, open, index, cache, answer, recent, dead>>

IndexDone == /\ task.op = "index"
             /\ it = 0
             /\ index' = task.map
             /\ IF cache = None THEN InstallCache(task.buckets) ELSE UNCHANGED <<cache, recent>>
             /\ task' = Idle
             /\ UNCHANGED <<table, saved, open, it, answer, dead>>

BakeDone == /\ task.op = "bake"
            /\ it = 0
            /\ saved' = task.map
            /\ task' = Idle
            /\ UNCHANGED <<table, open, index, cache, it, answer, recent, dead>>

DropIndexes == /\ Quiet
               /\ index # None
               /\ index' = None
               /\ UNCHANGED <<table, saved, open, cache, it, task, answer, recent, dead>>

DropCache == /\ Quiet
             /\ cache # None
             /\ cache' = None
             /\ recent' = <<>>
             /\ UNCHANGED <<table, saved, open, index, it, task, answer, dead>>

CreateCache(n) == /\ Quiet
                  /\ cache = None
                  /\ InstallCache(n)
                  /\ UNCHANGED <<table, saved, open, index, it, task, answer, dead>>
-----------------------------------------------------------------------------
(* query_fetch_string_by_id: the cache, else the index, else a scan.       *)

BucketOf(id) == HashOf[id] % Cardinality(DOMAIN cache)

Answer(op, of, result) == [op |-> op, of |-> of, result |-> result]

(* The latest distinct identifiers that were asked of a bucket, as many as *)
(* it has slots (history).                                                 *)
Noted(id) ==
    LET b     == BucketOf(id)
        asked == <<id>> \o RemoveFirst(recent[b], id)
    IN  recent' = [recent EXCEPT ![b] = SubSeq(asked, 1, IF Len(asked) < Slots THEN Len(asked)
                                                         ELSE Slots)]

Hit(id) == cache # None /\ Lookup(cache[BucketOf(id)], id) # None

FetchHit(id) ==
    LET b == BucketOf(id)
        s == Lookup(cache[b], id)
    IN  /\ Quiet
        /\ Hit(id)
        /\ cache' = [cache EXCEPT ![b] = MakeMostRecent(@, s)]
        /\ Noted(id)
        /\ answer' = Answer("fetch", id, cache[b].text[s])
        /\ UNCHANGED <<table, saved, open, index, it, task, dead>>

Deliver(id, text) == [op |-> "deliver", id |-> id, text |-> text]

FetchIndexed(id) ==
    /\ Quiet
    /\ ~Hit(id)
    /\ index # None
    /\ task' = Deliver(id, IF id \in DOMAIN index THEN texts[index[id].offset] ELSE None)
    /\ UNCHANGED <<table, saved, open, index, cache, it, answer, recent, dead>>

FetchByScan(id) ==
    /\ Quiet
    /\ ~Hit(id)
    /\ index = None
    /\ Scan([op |-> "scan", id |-> id])
    /\ UNCHANGED <<table, saved, open, index, cache, answer, recent, dead>>

ScanVector ==
    LET here == {k \in DOMAIN Infos : Infos[k].id = task.id}
    IN  /\ task.op = "scan"
        /\ it # 0
        /\ it' = AfterVector
        /\ task' = IF here = {} THEN task
                   ELSE Deliver(task.id, texts[Infos[Min(here)].offset])
        /\ UNCHANGED <<table, saved, open, index, cache, answer, recent, dead>>

ScanFails ==
    /\ task.op = "scan"
    /\ it = 0
    /\ task' = Deliver(task.id, None)
    /\ UNCHANGED <<table, saved, open, index, cache, it, answer, recent, dead>>

(* The text goes to the caller, through the cache if there is one: that    *)
(* asserts that there is a text.                                           *)
FetchAnswers ==
    /\ task.op = "deliver"
    /\ task' = Idle
    /\ IF cache # None /\ task.text = None
       THEN dead' = TRUE /\ UNCHANGED <<cache, recent, answer>>
       ELSE /\ answer' = Answer("fetch", task.id, task.text)
            /\ IF cache = None THEN UNCHANGED <<cache, recent>>
               ELSE /\ cache' = [cache EXCEPT ![BucketOf(task.id)] = Stored(@, task.id, task.text)]
                    /\ Noted(task.id)
            /\ UNCHANGED dead
    /\ UNCHANGED <<table, saved, open, index, it>>

-----------------------------------------------------------------------------
(* query_find_ids.  Both predicates of the code test for an occurrence     *)
(* (string_pred_contains.h, string_pred_equals.h); they differ in limit.   *)

PredLimit == [contains |-> -1, equals |-> 1]

(* A limit below 0 of the predicate is none; otherwise the smaller one of  *)
(* the two is taken, which is none if that of the search is.               *)
Limit(pred, limit) == IF PredLimit[pred] < 0 \/ limit < PredLimit[pred] THEN limit
                      ELSE PredLimit[pred]

Matches(pred, needle, text) == <<needle, text>> \in Occurs

(* A limit of 0 answers NULL at once.                                      *)
FindNothing(pred, needle, limit) ==
    /\ Quiet
    /\ Limit(pred, limit) = 0
    /\ answer' = Answer("nothing", needle, <<>>)
    /\ UNCHANGED <<table, saved, open, index, cache, it, task, recent, dead>>

FindIds(pred, needle, limit) ==
    /\ Quiet
    /\ Limit(pred, limit) # 0
    /\ Scan([op |-> "find", pred |-> pred, needle |-> needle, limit |-> Limit(pred, limit),
             ids |-> <<>>])
    /\ UNCHANGED <<table, saved, open, index, cache, answer, recent, dead>>

(* How many of a set of places are not behind place i.                     *)
Rank(places, i) == Cardinality({j \in places : j <= i})

(* The identifiers of the entries of a vector that match, behind those     *)
(* found before, up to the limit.                                          *)
Collected ==
    LET hits == {k \in DOMAIN Infos : Matches(task.pred, task.needle, texts[Infos[k].offset])}
        ids  == task.ids \o [r \in 1..Cardinality(hits) |->
                               Infos[CHOOSE k \in hits : Rank(hits, k) = r].id]
    IN  IF task.limit > 0 /\ Len(ids) >= task.limit THEN SubSeq(ids, 1, task.limit) ELSE ids

FindVector ==
    /\ task.op = "find"
    /\ it # 0
    /\ task' = [task EXCEPT !.ids = Collected]
    /\ it' = IF task.limit > 0 /\ Len(Collected) = task.limit THEN 0 ELSE AfterVector
    /\ UNCHANGED <<table, saved, open, index, cache, answer, recent, dead>>

FindAnswers ==
    /\ task.op = "find"
    /\ it = 0
    /\ task' = Idle
    /\ answer' = [op |-> task.pred, of |-> task.needle, result |-> task.ids,
                  limit |-> task.limit]
    /\ UNCHANGED <<table, saved, open, index, cache, it, recent, dead>>

-----------------------------------------------------------------------------
Calls == \/ ArchiveOpen
         \/ ArchiveClose
         \/ AnswerUsed
         \/ Bake
         \/ DropIndexes
         \/ DropCache
         \/ \E n \in Buckets : QueryIndexed(n) \/ QueryUnindexed(n) \/ CreateCache(n)
         \/ \E id \in Ids \cup Unknown : FetchHit(id) \/ FetchIndexed(id) \/ FetchByScan(id)
         \/ \E p \in DOMAIN PredLimit, t \in Needles, l \in Limits :
              FindNothing(p, t, l) \/ FindIds(p, t, l)

Goes == \/ WriteEntry
        \/ IndexVector
        \/ IndexDone
        \/ BakeDone
        \/ ScanVector
        \/ ScanFails
        \/ FetchAnswers
        \/ FindVector
        \/ FindAnswers

Next == Calls \/ Goes

Spec == Init /\ [][Next]_vars

(* An operation that has begun goes on: weak fairness of Goes, which is    *)
(* enabled while the table is incomplete or an operation is under way.     *)
FairSpec == Spec /\ (\/ []<>(written = Len(Entries) /\ task = Idle)
                     \/ []<><<Goes>>_vars)

-----------------------------------------------------------------------------
(* Properties.                                                             *)

TextOf(id) == (CHOOSE i \in DOMAIN Entries : Entries[i].id = id)

(* Whatever way an identifier took, through the cache, the index built now *)
(* or baked before, or a scan, the answer is the text of the dictionary,   *)
(* and NULL for an identifier that it does not have; a search for a text   *)
(* answers the identifiers of the texts that contain it, in the order of   *)
(* the table, each once, up to the limit (archive_query.c:200-314,         *)
(* 377-525).                                                               *)
AnswersRight ==
    /\ answer.op = "fetch" =>
         answer.result = IF answer.of \in Ids THEN Entries[TextOf(answer.of)].text ELSE None
    /\ answer.op \in DOMAIN PredLimit =>
         LET hits == {i \in DOMAIN Entries : <<answer.of, Entries[i].text>> \in Occurs}
             all  == Cardinality(hits)
         IN  /\ Len(answer.result) = IF 0 < answer.limit /\ answer.limit < all
                                     THEN answer.limit ELSE all
             /\ \A i \in hits : Rank(hits, i) <= Len(answer.result) =>
                                    answer.result[Rank(hits, i)] = Entries[i].id

(* Each bucket of the cache holds the identifiers asked for last, in that  *)
(* order and with the right texts, and its links lead through all slots in *)
(* both directions (archive_sid_cache.c:103-146).                          *)
CacheIsLRU ==
    cache # None =>
        \A b \in DOMAIN cache :
            /\ Linked(cache[b])
            /\ Holds(cache[b], recent[b])
            /\ \A s \in 1..Slots : cache[b].text[s] # None =>
                 cache[b].text[s] = Entries[TextOf(cache[b].id[s])].text

(* Every operation ends.                                                   *)
OperationsEnd == (task # Idle) ~> (task = Idle)

(* A search with the predicate equals finds the text itself and nothing    *)
(* else (tests/test-archive-ops.cpp:260-264).                              *)
EqualsFindsEqual ==
    answer.op = "equals" =>
        answer.result = LET all == SelectSeq(Entries, LAMBDA e : e.text = answer.of)
                        IN  [k \in DOMAIN all |-> all[k].id]
=============================================================================
