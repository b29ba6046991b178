# libcarbon: models, checks and proofs

libcarbon turns JSON collections into CARBON archives, files in a columnar
binary format, and reads, searches and converts these archives. This
directory holds TLA+ models of the library in `src/src`, the TLC
configurations that check them on small instances, and proofs that TLAPS
checks for every instance. Paths of code below are relative to `src/src`.

- [The system](#the-system): parts, state, operations, what is hard
- [Modules](#modules): what models what, and how
- [Runs](#runs): what TLC checks, bounds, fairness
- [Proofs](#proofs): what TLAPS proves, and how
- [What the checks found](#what-the-checks-found)
- [Not modelled](#not-modelled)
- [Plan](#plan)

## The system

A collection takes this way through the library:

    JSON text --json.c--> parse tree --doc.c--> documents, sorted, typed
      --columndoc.c--> columns --archive.c--> archive file
      --archive_iter.c, archive_visitor.c--> callbacks
      --archive_converter.c--> encoded documents --> JSON text

Two services stand beside it. Strings are replaced by identifiers by a
*string dictionary* (`core/encode`), on the way in, and the archive carries
the dictionary's contents as a *string table* that queries read, on the way
out (`core/carbon/archive_query.c`). Below lie containers (vectors, hash
table, hash set, slice lists, Bloom filters), a memory pool, a spin lock and
data-parallel loops.

### Components

| component | state | operations | who uses it |
|---|---|---|---|
| spin lock, `core/async/spin.c` | atomic flag, owner | acquire, release | pool, dictionaries, slice list, hash set |
| parallel loops, `core/async/parallel.c` | threads and argument arrays of a call | for, map, gather, scatter, shuffle, filters | async dictionary |
| memory pool, `core/mem/pool.c`, `pools/none.c`, `pools/magic.c` | entries, freelist of positions, counters, strategy | create, alloc, realloc, free, free_all, drop, counters | clients of the library |
| data pointers, `core/ptrs/data_ptr.c` | address and a 16 bit position in a word | make, get | pool |
| slice list, `stdx/slicelist.c` | slices with keys, ids, bounds, filter, last hit | insert, lookup | string index |
| string index, `core/strhash/strhash_mem.c` | buckets of slice lists, counters | put, get (safe, fast, exact), remove | sync dictionary |
| sync dictionary, `core/encode/encode_sync.c` | contents, free list, index, lock | insert, locate, extract, remove | async dictionary |
| async dictionary, `core/encode/encode_async.c` | one sync dictionary and one thread per carrier, lock | the same, in parallel | doc.c, columndoc.c, command line tool |
| hash table and set, `std/hash_table.c`, `std/hash_set.c` | buckets, vectors of keys and values, size | insert or update, get, remove, clear, rehash | archive index, encoded documents, histogram |
| string table and index, `core/carbon/archive.c` | headers and texts in the file, baked index | serialise, open, close, bake, index | queries |
| queries, `core/carbon/archive_query.c` | index, scan position | fetch by id, find ids | visitor, converter, tool |
| string cache, `core/carbon/archive_sid_cache.c` | buckets of linked slots, statistics | create, get, drop | queries |
| JSON parser, `json/json.c` | tokens, stack of brackets, tree | parse, test, print | `archive.c`, tool |
| documents, `json/doc.c`, `std/sort.h` | entries of one type each | import, collect texts, sort | columns |
| columns, `json/columndoc.c` | groups of properties by kind, columns of object arrays | import | records |
| records, `core/carbon/archive.c` | a memory file with offsets filled in later | serialise, bake, write, open, print | tool, iteration |
| iteration, `archive_iter.c`, `archive_int.c`, `archive_visitor.c` | cursor, mask, offsets of an object | iterate groups, vectors, columns; visit | converter, tool |
| converter, `archive_converter.c`, `json/encoded_doc.c` | documents by object identifier | rebuild, print | tool |
| Huffman coder and packers, `coding/`, `core/pack/` | code table | build, encode, decode | string table |
| memory files, `core/mem/file.c`, `block.c` | a block, position, bit mode | read, write, seek, bits | record and string writers |
| tool, `tools/carbon` | command line state, an open archive | convert, list, query | users |

`PROJECT.json` lists all of them, with what is modelled of each.

### Interactions

- **Locks.** Pool and dictionaries bracket their operations with the spin
  lock. The lock lets its owner pass without counting, so an operation that
  calls another one of the same structure (`pool_drop` around
  `pool_free_all`, `locate_fast` around `locate_safe`) gives the lock away
  at the inner release.
- **Threads.** The async dictionary starts one thread per carrier and joins
  it through a field of the carrier that all calls share. The parallel loops
  start helpers on arrays of the caller's stack.
- **Identifiers.** An identifier of the sync dictionary is a position of its
  contents; the async one puts a carrier number in front of it; the archive
  stores it next to the text; the index, the cache and the queries go from
  it to a place in the file. Identifier 0 means NULL to the dictionaries and
  "unused" to the slots of the cache.
- **Handles.** A data pointer leads to a pool entry by its position, and the
  entry back to the block. Realloc and free trust both.
- **Offsets.** The record is written with slots for places that are known
  later; readers go by these offsets or by the markers in the file.
- **Kinds.** The 26 groups of properties (one of 13 types each, alone or as
  array) go through columns, flags, offsets, iterator and visitor in an order
  that each of them spells out by hand.
- **Memory that moves.** Vectors move when they grow. The hash table and the
  dictionary keep pointers into them across pushes.

### What is hard here

Interleavings of the lock's two fields and of nested locks; threads of one
call joined by another; reuse of positions, identifiers and slots over long
sequences of legal calls; state remembered from an earlier call (last hit of
a slice, thread of a carrier, `prev` of a cache slot, capacity of a moved
block); boundaries (16 bit positions, 16 bit filter sizes, wrap-around of
searches and counters, a vector that becomes full at an entry); partial
failure of `realloc`; a file of which only the beginning was written;
structures that the code knows in several hand-written versions (order of the
groups, types of numbers, layouts); termination of walks, rehashing and scans.
`PROJECT.json` lists each hazard at its line, with the properties that would
catch it or the reason why none does.

What makes each component correct:

- *lock*: one thread works in the structure at a time; somebody always gets in;
- *pool*: every data pointer leads to its own live block of the size asked for,
  nothing leaks, the counters balance;
- *dictionary*: a string has one identifier for life, no two share one, an
  identifier gives its string back, every call returns;
- *table*: a key keeps its value whatever happens to others, insertions end;
- *parallel loops*: the result of one thread, and no thread left behind;
- *string table, queries, cache*: an identifier gives the text that was stored,
  by every way of access; the cache keeps what was used last;
- *parser*: an accepted text is well nested and is read as what it says;
- *pipeline*: columns say what the text said, an archive what the columns
  said, by whatever reader, and what is converted back is what went in.

## Modules

| module | models | kind |
|---|---|---|
| `Mutex` | what users expect of a lock | abstract specification |
| `SpinLock` | `spin.c`, one step per access to flag or owner | component, implements `Mutex` |
| `SpinLockProofs` | | theorems |
| `MemPool` | `pool.c`, `none.c`, `magic.c`, `data_ptr.c` over a C library | component |
| `MCMemPool` | | instances |
| `Dictionary` | what users of a dictionary are promised | abstract specification |
| `SliceList` | `slicelist.c` as operators on a list | operators |
| `SyncDict` | `encode_sync.c` over `strhash_mem.c`, extends `SliceList` | component, implements `Dictionary` |
| `AsyncDict` | `encode_async.c`, threads and carriers | component, implements `Dictionary` |
| `HashTable` | `hash_table.c` (and `hash_set.c`, line by line the same) | component |
| `Parallel` | `parallel.c` | component |
| `SidCache` | one bucket of `archive_sid_cache.c` as operators | operators |
| `ArchiveStrings` | string table, iterator, index, queries, cache | composition, extends `SidCache` |
| `FieldTypes` | the types of `types.h`: limits, nulls, order of the groups | operators |
| `JsonTokens` | tokenizer and `process_token` of `json.c` | component, a token per step |
| `JsonTree` | the tree of `json.c`: building, `json_test`, `json_print` | operators |
| `Json` | `json_parse` and `json_test` on one text | composition of both |
| `Numbers` | `doc.c`: types of numbers and arrays | operators, extends `FieldTypes` |
| `Documents` | `doc.c` | operators, extends `JsonTree`, `Numbers` |
| `ColumnLayout` | `columndoc.c`: columns of an array of objects | operators |
| `Sorting` | `sort.c`, `sort.h` | operators |
| `Columns` | `columndoc.c`, sorting of `doc.c` | operators, extends `Documents`, `ColumnLayout`, `Sorting` |
| `MemFile` | `mem/file.c`, `mem/block.c` | operators |
| `Record` | records of `archive.c`: writer and printer | operators, extends `Columns`, `MemFile` |
| `ArchiveFile` | headers, baking, opening, printing of an archive | operators, extends `Record` |
| `ArchiveIter` | `archive_iter.c`, `archive_int.c` | operators, extends `ArchiveFile` |
| `Converter` | `archive_visitor.c`, `archive_converter.c`, `encoded_doc.c` | operators, extends `ArchiveIter` |
| `Pipeline` | one text on its way through all of it | composition, extends `Json`, `Converter` |
| `MemoryProofs` (of `MemPool` and `MemFile`), `SyncDictProofs`, `AsyncDictProofs`, `HashTableProofs`, `ParallelProofs`, `ArchiveProofs`, `PipelineProofs` (of `JsonTokens`, `Numbers`, `ColumnLayout` and `Sorting`) | | theorems and their lemmas |
| `MC...` | values of the constants that a `.cfg` cannot write | instances |

Operators with "Mutation" in their comment are plausible mistakes
in the operator that follows; each shows that one property notices it.
Names follow the source where there is a name to follow.

### SpinLock

State: the atomic `flag`, the `owner`, and per thread a location, how often
its call takes the lock (`depth`) and how often it has (`level`). Each access
of `spin_acquire` and `spin_release` to the shared fields is an action: the
test of the owner, the test-and-set, the write of the owner, the clearing of
the flag, the wiping of the owner. A read of `owner` while another thread
writes it is a data race in C; on every platform the library is built for the
read returns the old or the new word, which is what interleaving gives.

The order in `spin_release` (flag first, owner second) is the interesting
part: between the two another thread may have taken the lock and written its
name, and the wipe then erases it. With calls that lock once this costs
nothing, because the erased name is only looked at by its bearer, at the
start of a call (`OwnerIsHolder` says that a name never stays behind).
With calls that lock twice the exclusion is lost; `Depths = {1, 2}` shows
it in a few steps, and `DictNested` what follows from it.

### MemPool

State: the vector `in_use`, the `freelist`, the counters, and the C library
as a map from addresses to sizes. `held` are the data pointers clients have,
with the size they asked for last. An operation of the pool holds the lock
from the first to the last access and is one action; `pool_free_all`, a loop
over the entries, takes a step per entry with the pool locked. `realloc` is
three actions, by what happens: the block is large enough (magic only), it
grows or moves, or the C library returns NULL.

Clients hold at most `MaxLive` pointers. With `MaxLive <= NumPos` every
theorem below holds; with one more, the 16 bit position wraps and two
pointers share an entry (`pool.c:249`), since the code notes the error and
goes on.

### SliceList, SyncDict

`SliceList` has the operators of `slicelist.c` on a list of slices: lookup
through bounds, filter, remembered position and scan, each leaving the
remembered position behind; insertion into the last slice, which is sealed
when it is full. A Bloom filter is the set of hashes put into it; a false
positive of the real one costs a scan that finds nothing, and the instance
has two strings of equal hash, which behave as such.

`SyncDict` runs one call at a time, one string per step: a first pass asks
the index about the whole batch (`Ask`), a second one places each string,
known (`PlaceKnown`), met before in this batch (`PlaceSeen`) or new
(`PlaceNew`), and a last step returns. The free list grows by the rule of
`vec_grow`. The batch's own Bloom filter has `22 * new` bits cut to 16 bits:
`BitmapLimit` 66 puts that boundary at three new strings, where the filter
has no bits and the process dies of a division by zero (`FilterFails`).

### AsyncDict

Clients take the lock, start a thread per carrier (`Spawn`), join them
(`Join`), put the answers together (`Collect`) and release the lock, in the
order of the code and one carrier per step. `thread` is the field of the
carrier through which a call joins. A carrier's dictionary is the
`Dictionary` that `SyncDict` implements: a thread's work on it is one step
under that dictionary's own lock. Identifiers are split and merged by the
code's arithmetic, with `ThreadLimit` and `LocalLimit` for `2^10` and `2^54`.

### HashTable

One step of `Place` puts one pair into a bucket: where the search from its
home bucket stops, by the rules of the code, which include the search
backwards from the start, the odd last bucket and the displacement counted
with either sign. A pair that is driven out is the next one to place. The
vectors of keys and values count what was ever appended (`size`), and growth
re-inserts the pairs in the order of the buckets. `Dangle` is the outcome in
which the pair driven out was addressed in a vector that has just moved.
`latest` and `clean` are history: what each key was given last, and which
keys were never updated while they were contained.

### Parallel

A call cuts its range into chunks (`ChunkStart`, `ChunkLen`), starts helpers
one by one, works on its own chunk, joins them in order and merges. Each
element is a step of its worker. Cells of the destination hold the position
of the element they got, so an operation's result is known exactly.
`filter_early` continues with one parallel gather per non-empty partial
result. Where a debug build rejects lengths of zero, `NullChecks` says so.

### SidCache, ArchiveStrings

The file is two functions from offsets: to headers and to texts, written by
`WriteEntry` in the order of `serialize_string_dic`, with `next_entry_off`
zero in the last entry. `Offsets` is one call of `strid_iter_next`: the
headers it reads until its vector is full or the list ends. On it are built
the index (`IndexVector`), baking (`Bake`), fetching by scan (`ScanVector`)
and searching (`FindVector`), a vector per step. The index is the map its
hash table promises for keys that are inserted once (`CleanExact` of
`HashTable`). `SidCache` has the operators of a bucket of the cache with
both directions of its links; `ArchiveStrings` has the calls. `recent`
is history: the identifiers a bucket was asked for, latest first.

A packer is taken by what a text decodes to, which is exact for the packer
that does nothing. A fetch that finds nothing with a cache in front stops the
process on an assertion (`dead`); without one it answers NULL.

### FieldTypes, JsonTokens, JsonTree, Json

`JsonTokens` reads one token per step: `Follows` is the table of what may
come behind what, `brackets` the stack. A bracket that matches nothing is not
an error of the code; it is pushed, and the stack at the end of the input is
the only thing that tells. Characters are left out, but for one effect: the
tokenizer knows `true`, `false` and `null` by the character behind them, so at
the very end of the input such a word is an unknown token (`Tokenized`).

`JsonTree` has the functions that build the tree. Each takes the place of a
token and gives a value and the place where it stopped, failed, or
`Crashed`: `get_token` reads behind the end of the stream without a test.
Numbers are cut to 64 bits as `sscanf` does; a number with a fraction counts
halves. `JsonTest` is `json_test` with its condition on mixed arrays as it is
written, `JsonPrint` is `json_print` as tokens.

### Documents, Columns

`Documents` imports a value as `doc.c` does: fields in order, each with a type
and values. `Numbers` has the type of a number by the limits in `types.h`, the
type of an array merged element by element (`Widened`), and what is stored of
each element. A text is a number, its place in
the order of texts, and 0 the NULL pointer that stands for no text. An array
whose elements have several kinds reads one member of a union as another:
`Defined` says when this does not happen, and the model stops (`undefined`)
when it does. `Importable` says when the import ends the process.

`Columns` groups the fields of an object by kind, and an array of objects by
key and type, each entry with the position of its object: `PushToGroup` and
`PushToColumn` of `ColumnLayout` are `object_array_key_columns_find_or_new`
with the push behind it, once for every field. Records are sorted by the quicksort of `sort.h` on indices,
then keys, positions and values are copied by index. `Sorting` is that
quicksort as the loop it is: `LookedAt` is a round of the partition's loop,
`Round` one of the outer loop, which takes a segment from the stack of its
`malloc`ed cells and puts back the parts that have two elements and more. A column of nulls keeps `Undetermined` values: the code
pushes 32 bits into a vector of 16-bit elements and writes it as one of 32.

### MemFile, Record, ArchiveFile

A memory file is a sequence of cells of one value each, with a position and
the end of the last write; the block grows by 1.7, and a write that would end
at the very end of the block is refused in silence. `Record` serialises an
object: flags, slots for the offsets of its groups and of the next object, the
groups, and `Patch` for each slot when the place is known. `PrintObject` is
the printer of `archive.c`, which reads by markers. `ArchiveFile` adds
both headers, the baked index, and `Opened`: what `archive_open` makes of a
file, which may be the beginning of an archive only.

### ArchiveIter, Converter

`Advanced` is one step of the property iterator: the next group that has an
offset and passes the mask. Value vectors, collections, column groups, columns
and entries are read by the offsets and positions that are in the file.
`Visit` is the visitor as the sequence of the calls it makes, with the two
things the code reads before they are set: the identifier of the object
(`garbage`) and the flags of objects to skip, which are looked up by the
number of a column (`stale`). `Convert` folds the converter's callbacks over
these calls; `Printed` is what `encoded_doc.c` prints of the first document.

### Pipeline

One text goes through `archive_from_json`: read, parsed, tested, imported,
serialised, baked if asked for, and stored; `Crash` stores any beginning of
the file instead. The archive is opened, and then either iterated with any
mask from any of its objects, or converted back, and closed. Ends of the
process and undefined behaviour are the statuses `dead` and `undefined`.
Everything is sequential in the code; the steps are its calls.

## Runs

| run | module | states | asks |
|---|---|---|---|
| `SpinLockFlat` | `SpinLock` | 4 thousand | Do calls that lock once exclude one another, does the owner field stay honest, does somebody always get in, is it a `Mutex`? |
| `PoolSafety` | `MCMemPool` | 172 thousand | Do handles resolve, never alias, and do entries, freelist and C library agree, also when memory runs out? Do walks end? |
| `PoolAccounting` | `MCMemPool` | 672 thousand | Do the counters account for every byte, and is every block as large as asked? |
| `DictSync` | `MCSyncDict` | 59 thousand | Is the sync dictionary a `Dictionary`, with an exact index and free list? Does every call return? |
| `DictAsync` | `MCAsyncDict` | 392 thousand | Is the async dictionary a `Dictionary`? Does a call use its own threads' results only? |
| `TableSafety` | `MCHashTable` | 325 thousand | Do keys that are inserted once keep their values through displacement, wrap-around and growth? Do insertions end? |
| `Parallel` | `Parallel` | 106 thousand | Is the result that of one thread, under every schedule? Is every thread joined? |
| `ArchiveStrings` | `MCArchiveStrings` | 128 thousand | Does every way to a text give the right one? Is the cache least-recently-used, with intact links? |
| `Pipeline` | `MCPipeline` | 73 thousand | Is a text accepted exactly when it is well nested, read as it says, kept by columns, sorting, record, baking and torn files, iterated exactly and converted back? |
| `DictNested` | `MCAsyncDict` | violation | Does a call still join its own threads when calls nest the lock? |
| `TableUpdates` | `MCHashTable` | violation | Is a key mapped to the value given last? |
| `ArchiveEquals` | `MCArchiveStrings` | violation | Does a search with `equals` find the equal string only? |

### Bounds, and why they are enough

- `SpinLockFlat`: four threads. A stale owner needs one thread that releases,
  one that takes the lock in between and one that watches; four leave one more.
- `PoolSafety`: three addresses, three positions, sizes 1 and 2. A position is
  freed and reused while two others are live; a realloc finds room at another
  address or does not. Counters modulo 1 leave them out here.
- `PoolAccounting`: counters modulo 3 wrap after a few calls. `GrowOnly`:
  magic keeps a block that shrinks and the counters of a shrinking block are
  not meant to balance; `MayFail = FALSE`: after a failed realloc the
  caller believes in a size that no block has, by the code's choice to go on.
- `DictSync`: three strings, two of one hash, slices of two, a batch of up to
  three keys with repetitions and NULL, capacity 1 that grows to 2 and 4:
  sealing, growth and the filter boundary all happen.
- `DictAsync`: two carriers, one with two strings, two clients, batches of two:
  batches go to one carrier, to both, in either order, with repetitions.
- `TableSafety`: four keys with home buckets 3, 3, 0, 1 of 4: collision,
  wrap-around and driving out; tables of 4, 8 and 15 buckets.
  `MaxCapacity` only forbids to begin an insertion into a larger table.
- `Parallel`: up to four elements and two helpers: fewer elements than
  workers, as many, more, with and without a remainder.
- `ArchiveStrings`: four strings read three at a time (a full vector, then
  the rest), one text empty, caches of one or two buckets with three slots of
  which one bucket is asked for four identifiers.
- `Pipeline`: every sequence of up to five tokens (`MaxTokens`), which covers
  each rule of `Follows` and brackets two deep with a mismatch at each level,
  and about a hundred larger texts: each type and each array type, values at
  the limits, three values out of order in each group that is sorted, object
  arrays with columns of every kind, nested objects, several documents at the
  top. Integers have 3, 4, 5 and 6 bits, so that 3 is the null of `i8`, 7 of
  `i16`, 31 of `i64`, and 40 is above all signed ones. `BlockSize` 4 makes the
  block grow while every record is written. Every beginning of the file is
  tried. `RootKey` 4 is the text "/"; `Ids` gives identifiers that are not in
  the order of the texts, so that sorting by one is not sorting by the other.
  `StaleOids` {0, 1}: an uninitialised identifier is none or that of the first
  object. `NaN` 1000 and `Undetermined` 7 stand for not-a-number and for what
  is read behind a value.

Deadlock is checked, except where the process may really stop: `Parallel` (a
parallel shuffle is not implemented and aborts), `ArchiveStrings` (the
assertion on a missing text) and `Pipeline` (a text goes through once). In
`SyncDict`, `AsyncDict` and `HashTable` a dead process is an explicit
stuttering step.

Two properties of `Pipeline` leave aside what the code is known to change, by
named predicates. `Representable` (of `ColumnsRepresent`) leaves out a null
among objects or among numbers with a fraction, an empty object at the end of
an array, and numbers that no signed type holds in an array. `Convertible` (of
`ConvertsBack`) also leaves out objects nested in object arrays, objects that
have nothing but an object array, and arrays with more columns than objects.
`Canon` says what counts as the same value: a number is its value, however it
is written; an array of one is its element; an array of nulls is null; members
have no order.

### Fairness

A thread that is inside a call and not blocked goes on: weak fairness of its
steps, which is what the operating system's scheduler gives (`SpinLock`,
`AsyncDict`, `Parallel`). Nothing is assumed fair about winning the spin
lock: `Progress` promises it to somebody, not to everybody. A sequential
operation that has begun goes on (`MemPool`, `SyncDict`, `HashTable`,
`ArchiveStrings`). Nobody has to make a call, and `Pipeline` promises nothing
that must happen. `HashTable` and
`ArchiveStrings` spell weak fairness out as "infinitely often disabled or
infinitely often taken", with the guard written by hand, since TLC evaluates
`ENABLED` of their large steps slowly.

## Proofs

`SpinLockProofs`, for every set of threads whose calls lock once
(`Depths = {1}`):

- `FlatType`, `FlatMutualExclusion`, `FlatOwner`, `FlatRefinesMutex`.
  The inductive invariant says that at most one thread is at a location that
  holds the flag, that the flag is set exactly then, and that the owner field
  names a thread only between its write and the end of its release. The last
  part is needed because a stale name would let its bearer pass the test of
  `spin_acquire`: exclusion is inductive only together with it.

`MemoryProofs` on the pool, for every number of addresses, positions and sizes,
every counter width and both strategies:

- `PoolType`, `PoolHandles`, `PoolFreelist`, `PoolNoAliasing` under
  `MaxLive <= NumPos` (as many positions as live pointers): the invariant
  adds to the stated properties that entry `p` carries a data pointer of
  position `p` (`OwnPosition`), that the vector is not longer than
  `NumPos`, that held pointers differ in their positions, and that a walk has
  only freed entries behind it.
- `PoolLedger` (entries and C library agree on every block) also assumes
  that no client asks for 0 bytes, since `realloc` to 0 frees a block whose
  entry stays live.
- `PoolRequests` (a block is as large as asked) also assumes a C library that
  has memory.
- `PoolBalance` (`BalanceKept`): between two operations the difference of the
  byte counters is what lies in the live entries, and the difference of the
  call counters is their number, each modulo the counter's range; so for every
  width, also after the counters have wrapped. It assumes what the run
  `PoolAccounting` does: blocks only grow and the C library has memory (the
  code books a shrinking block and a failed call as it books success). The sum
  over the entries is a function by recursion on positions; that it exists, and that two
  sums agree when their entries do, follows from the least position where they
  would not. The invariant adds `AskedIsTotal`: while a reallocation is under way
  the sum is off by exactly what it still has to book.

`HashTableProofs`, for every set of keys and values, hash function and
capacity:

- `TableSomeVacant`: there is always a vacant bucket. `size` alone does not
  carry this: a pair that is driven out is appended to the vectors without a
  look at the limit, so `size` may pass it and no longer says anything about
  buckets. The invariant counts the buckets themselves: they are at most
  `size` and stay under nine tenths of the capacity.
- `TableNothingLost` and `TableCleanExact`: what was inserted and not removed
  is in the table when no operation is under way, and a key that no insertion
  met there has the value it was given. The invariant `Placed` says of the
  steps in between that such a key lies in a bucket or waits to be placed
  (`Kept`), and that a clean key does so in one place only, with its value
  (`Single`). One place is needed because a search stops at the first one it
  meets, and a pair that was driven out may update another. Both assume that
  `NoValue` is neither a key nor a value.

`ParallelProofs`, for every number of elements and helpers:

- `ParallelNoOrphans`: no thread runs when its call has returned. `Roster`
  says, for each place the caller may be at, which helpers may still be out:
  those before `next` while they are started, those from `next` on while they
  are joined, none where the loop needs no helper.
- `ParallelCellsApart`: no two workers ever have a cell in common. The chunks
  of a division follow one another, each ends where the next begins, and the
  last one, with the remainder, ends at the last element; the cells of a loop
  differ because its `to` is one to one, and the base of each gather of
  `filter_early` is the number of hits before its chunk.
- `ParallelSameAsOneThread`: a call that returned has left what one thread
  would have left. It rests on `Begun` (a chunk that was joined is done),
  `Filtering` (each worker has listed, in order, what it met in its part of
  the chunk, and the caller what lies in the chunks it has joined), `Copying`
  (the cells written hold their elements, all others are untouched) and
  `Gathering` (the results of the workers before this one are in place).

`SyncDictProofs` first shows that `slicelist.c` is a map, for every slice size and
hash function: bounds and filter of a slice cover its keys (`SliceOK`), a
remembered position is only believed when its key is the one asked for, and
appending and sealing keep every pair. On it rests, for every set of strings,
buckets and capacities:

- `DictType`, `DictFreelist`, `DictIndex`, `DictIds` and `DictRefines` (`Spec
  => ImplementsDictionary`). The invariant has the type of every variable; the
  free list's exactness; index and contents agreeing both ways (`Indexed`);
  what the running call has collected so far (`Answered`); one entry per
  string (`Single`); and `Fresh`: a string the index did not know when the
  batch asked still has no entry unless the batch's own filter has it. `Fresh`
  is the heart: between `Ask` and `PlaceNew` other strings of the same batch
  are placed, and without it the second one of two equal strings would be
  placed twice. The refinement maps an identifier to a string's entry and a
  placed string to a step of `Dictionary`; every other step stutters.

`AsyncDictProofs`, for every number of clients, carriers and strings, without
calls that lock twice while others wait (`NestedCalls = FALSE`; the run
`DictNested` refutes the first theorem with them):

- `AsyncCollectsOwnWork`: an answer is put together only from threads the
  call started itself and has joined. `Locked` says that a busy client has
  the lock, and that one in `locate_fast`, whose inner release opens the lock
  early, has nobody beside it; `Threads` says for each place of a call which
  carriers work for it.
- `AsyncRefines` (`Spec => ImplementsDictionary`): `Consistent` says that
  each string is in its carrier only and under one identifier, what each
  thread was asked, and that what a thread that is done has answered is still
  right, because identifiers stay for ever. Identifiers that are split and
  merged again come back, which needs `NumCarriers <= ThreadLimit`.

`ArchiveProofs`, for every table, hash function, size of the iterator's vector
and number of slots and buckets:

- `ArchiveAnswersRight`: a fetch gives the text of its identifier, by cache,
  index or scan, and a search the identifiers it has to find. `TableAt` says
  which offset each written entry has and that it leads to the next;
  `IndexesRight`, that an index in the archive or at the end of the file is
  that of the whole table; `Working`, what a running operation has done when
  its iterator is at the i-th entry: entered or looked at all entries before
  it, found their hits and no others. `Rank` counts hits, so that a
  search's results in several vectors fit together (`HitsAdd`).
- `ArchiveCacheIsLRU`: `Sound` names the order of the slots that both
  directions of the links agree with, and what each slot holds; behind the
  identifiers asked for all slots are unused. A hit moves a slot of that order
  to the front (`HitSound`), a miss the last one (`MissSound`). The two
  theorems share one invariant: a text from the cache is right because the
  bucket is sound, and a miss stores an identifier the bucket does not have
  (`Missing`) with the text the answer has. That 0 is no identifier of the
  table is an assumption of the module, since the code takes unused slots for
  those of identifier 0.

`PipelineProofs` on the token reader, for every set of tokens and texts:

- `ReaderMismatchStays`: a bracket that matches nothing is never taken from
  the stack again, so its text is not accepted, whatever follows; with
  `ReaderType`. `ReaderEachFollows`: in the stream that the tree is built from
  every token may follow the one before, which the building functions rely on
  when they skip tokens. It needs that `memory` is the type of the last token.
- `ReaderNested`: a text that is read as whole is well nested. While nothing
  was out of place the stack holds exactly the brackets that are open, each at
  its own depth (`Balanced`), so a closing bracket meets the one it belongs to.

`PipelineProofs` on the import, for all widths of the integer types, all
arrays and all fields:

- `NumbersExact`: an array of numbers and nulls whose integers are within the
  limits of `i64` is stored as it is: the hand-written cases of `doc.c` widen
  the type in any order of the elements, no number is cut and none turns into
  the null of the type. After each element the type is none yet, float with a fraction
  met, or a signed type that has all numbers so far (`TypeHolds`). Powers of two
  are a recursive function, since the prover knows nothing of `^`.
- `NumberFits`: the type of a single number has it, but for the largest
  signed and the largest unsigned one. With the condition on `i64` of
  `NumbersExact` these are the exceptions that `Representable` names.
- `ColumnsHaveAll`: the columns of an array of objects differ in name or
  type and hold every field of every object once, in order, with the position of its
  object. Each cell of a column is traced to the field it was (`CellsAre`).

`PipelineProofs` on the sort, for every number of elements:

- `QuicksortEnds`: after `n` rounds no segment waits, and the stack, which has
  as many cells as there are indices and no test of its limit, never needs more than
  that. Each segment waiting has two elements or more and none in common with
  another, so `n` elements leave room for half as many segments; and each round
  puts a pivot at its place, which no segment contains.
- `QuicksortPermutes`: the indices are a permutation, so no value is lost or
  written twice when records are copied by them.
- `QuicksortSorts`: for a total order the result is sorted. Two elements that
  are not in one waiting segment are already in order.

The first two hold for any comparison. They have to: the code's comparison of
arrays is no order, and one of numbers with a null real number neither.

`MemoryProofs` on the memory file, for every file whose block has at least two
cells (a block of one cell does not grow: 17/10 of one is one):

- `WriteExact`: a write, though `memblock_write` may refuse it in silence, is
  never refused, because the block has grown enough; it changes its own cells
  only. `PatchExact`: filling a slot changes that slot only and returns to the
  end.

The constants' assumptions that proofs use are the named `ASSUME`s of the
modules; TLC evaluates them in the runs.

Only model-checked: all liveness properties (fairness and `ENABLED` are out
of the prover's reach), and the pipeline but for the token reader, the
types of numbers, the columns of an array, the sort and the memory file: `DocumentsRead`,
`NoArrayOfArrays`, `ColumnsRepresent`, `RecordSorted`, `ReadersAgree`,
`IterationExact`, `ConvertsBack`. `JsonTree`, `Documents`, `Columns`,
`Record`, `ArchiveFile`, `ArchiveIter`, `Converter` and `Pipeline` declare
recursive operators, since documents nest, and the prover takes no module that does; besides, what a
recursive definition computes for every argument needs induction over an
operator parameter, which the installed provers cannot instantiate. The
modules that are proved about write recursion as functions over bounded
ranges (`Walk`, `Reads`), whose values a proof names and compares place by place. Type invariants are stated apart for the pool and the
sync dictionary; elsewhere types are a part of the inductive invariant.

## What the checks found

Each violation run shows one disagreement between the code and its own
documentation or tests; `PROJECT.json` quotes the lines.

- `DictNested`: `locate_fast` locks twice, its inner release opens the
  lock, and two calls join each other's threads.
- `TableUpdates`: an update can store a key a second time, and the older
  value comes back after a removal or when the table grows.
- `ArchiveEquals`: the predicate `equals` is `contains`, and its limit is
  lost in a search without limit.

Others are recorded as hazards without a run: the wrapping position of the
pool, the uninitialised counter of an idle carrier, a failed `pthread_create`,
`realloc` to 0 bytes, identifier 0, which belongs to NULL and to the string
that gets the last free position, also in the cache, and the write behind the
result buffer of a search.

Along the pipeline the model follows the code where a reader may not expect it:

- the condition on arrays of mixed types (`json.c:305`) never holds, so such
  arrays pass the test and are imported with undefined values;
- a text that is a bare `true`, `false` or `null` without a blank behind it is
  rejected;
- the type of an array gives way from `u64` to `i8` (`doc.c:428`), and a
  number read before is cut; an array with only one element comes back without
  its brackets;
- a value alone at the top leaves an empty document behind, and its failure is
  not looked at;
- a column of nulls is pushed with 32 bits an element into a vector of 16
  (`columndoc.c:997`);
- the visitor tells the identifier of an object before it is set
  (`archive_visitor.c:168`) and looks up skipped objects by column (`:388`);
- booleans of an archive are printed as texts.

## Not modelled

- *Huffman coder*: archives with this packer can be written and never read,
  because the decoder and the reader of its header stop the process as not
  implemented (`core/pack/coding_huffman.c:135`, `:178`). There is no round
  trip to state. Its bit mode of memory files is left out with it.
- *Printing* of documents, columns and vectors, the *byte sizes* of cells,
  *characters* of JSON texts and the formatting of numbers.
- *Queries' result buffer* beyond 1024 identifiers (`archive_query.c:505`),
  the *remembered position* of a slice written without the list's lock
  (`slicelist.c:53`): the caller holds the dictionary's lock.
- *Failed* `pthread_create`, and the counter of an idle carrier, which goes
  into the number of strings not found.
- *Batches of several pairs* of a hash table (no caller has them).
- *Allocation failures* outside the pool: the code ends the process or has
  undefined behaviour, with nothing promised afterwards.
- *Object identifiers*: uniqueness rests on random bits.
- *Hash functions*: constants of the modules.
- *Histograms* (floating point), *allocators* (function tables), *tagged
  pointers* (unused), *printing*, *the shell*: no state worth checking, or
  input and output only. The shell's thread that prints the cache's
  statistics reads them while they change, by design.
- *Concurrent use of a hash table*: its lock's bodies are commented out, and
  no caller shares one.

## Plan

What could still be added, in this order:

1. **Proofs.** More parts of the pipeline that can be written without
   recursive operators (the slots of a record, the steps of an iterator).
2. **Composition.** `SpinLock` with nested calls under the pool and the
   dictionaries, in place of the assumption that an operation is one step.
3. **Documents larger than the bounds**: object arrays two deep in the
   reading direction, which the converter loses today.
4. **Huffman coder**, when a decoder exists.
