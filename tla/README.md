# DSTF in TLA+

DSTF is a C++ prototype of searchable encryption over spatio-temporal records: a
client encrypts tables of (time, position, keywords) records, a server answers
range-and-keyword queries on the ciphertexts. What makes an answer right or wrong is
not the cryptography but the chain of indexes in front of it: records are cut into
time buckets, each bucket has a tree with Bloom filters that prunes a query, days
are kept in a B+ tree, positions become cubes, cubes and ranges become labels of an
encrypted multimap, and two tables are joined on the user of their rows. All of them
may return too much - the client filters - and none may ever return too little. That
is the property most of this project is about.

## 1. Inventory

Paths are relative to `src/`.

| Component | State | Operations | Interacts with | What is hard | Correct when |
|---|---|---|---|---|---|
| Segment tree (`test/SegmentTree`) | array of nodes; tokens per leaf; a `shared_ptr` to a Bloom filter per node | `build`, `update`, `update_deferred`, `finalize_bloom_filters`, `getCandidateIntervals` | one per day in the B+ tree, one per bucket of the time index | filters of similar siblings are merged in place and shared by three nodes, so the effect of an insert depends on the history of inserts | no stored token whose slot and keyword match is pruned |
| Time buckets (`TDAG/src/adaptive_time_bucket.cpp`) | sorted records, bucket list with links, record to bucket map, (day, slot) table | `build`, `locateFirstBucketForQuery`, `localRangeForQuery`, the query loop | feeds `SegmentTree`/`TdagBF` sizes; walked by `hash_st_bf_test`, `HashSetup_JXTp` | three limits that close a bucket; negative times; table rows that are coarser or finer than the slots | every record is probed for by each query that covers it; the walk ends |
| TdagBF (`test/TdagBF`) | binary tree, a filter per node; ranges and middle ranges | `insert_keyword`, `insert_keyword_deferred`, `finalize_bloom_filters`, `get_single_range_cover`, `descend_tree` | one per bucket in `hash_tdag_bf_test`, one per day in `BPlusTdag` | two ways of maintaining the filters; cover and filing computed by different arithmetic | the cover is a range each matching record is filed under, and the smallest one |
| Thread pool (`src/include/ThreadPool.h`) | queue, `stop`, mutex, condition | `enqueue`, the worker loop, destructor | runs the server's queries (`Server_JXTp`) | notification after unlock, `stop` racing sleep, tasks that enqueue tasks | every accepted task runs, the destructor returns |
| B+ tree of days (`test/BPlus`) | nodes, keys, parent and next pointers, a segment tree per day | `insert`, `remove`, `search`, `rangeSearch`, `query_sql` | owns segment trees; gives the join its time slots | splits, merges, pointers that are set one at a time | every key stays reachable by search and by the leaf list |
| B+ tree over TdagBF (`test/BPlusTdag`) | as above, a TdagBF per day | as above | owns TdagBF trees | as above | as above |
| Cube codes (`test/serverdb`) | none | codes of a point, codes of a query box | keywords of the join, of the trees' filters | points on cube boundaries, boxes at the domain's edge, points outside it | every point in a box has a code the box asks for |
| TDAG and 3-D cover (`TDAG/src/tdag*.cpp`) | none after construction | path labels of a point, cover of a range | labels of the encrypted multimap | cover and path labels agree by arithmetic only | the cover of a range is on the path of each point in it, and no smaller range is |
| Quad-tree cover (`TDAG/src/q*.cpp`) | none after construction | as TDAG, cubes instead of ranges | as TDAG | as TDAG; half-open cubes | as TDAG |
| Coordinate transformer (`TDAG/include`) | bounds of the data | coordinates to grid cells | before both 3-D covers | rounding at the edges, axes without extent | a box's cells hold the cells of its points |
| Logarithmic SRC-i1 (`TDAG/include`) | range table, two sets of labels | build, two-round query | uses TDAG and the multimap | the first answer is the input of the second query | no record is missed |
| Encrypted multimap and database (`TDAG/src/standard_emm.cpp`, `TDAG/include/encrypted_db.hpp`) | label and counter to ciphertext | build, tokens, search | labels come from a cover scheme | a search counts up until the first gap | a search returns the records stored under the label |
| PeaHash day index (`TDAG/src/pea_dram_day_index.cpp`) | ordered map, hash table, linked days | insert, find, range | replaces the B+ tree of days | three structures updated one after the other, one of which may fail | hash, map and list hold the same days |
| JXT+ setup and server (`src/main`, `src/test`) | token sets, ciphertext sets, filters of two tables | construct, two searches, the client's reading | B+ tree of days, segment trees, cube codes | repeated users under one keyword, false positives of the filter, an answer read by position | the join finds each matching pair and no other |
| Page management (`src/utils`) | queues of pages, index, spill file, read buffer | `Set`, `Write2Disk`, `Get` | used by its test only | partly filled pages, short writes, unchecked pops | no item lost or given to another key |
| libbf (`libbf`) | bit vectors, counter vectors, filters over them | bit operations; `add`, `remove`, `lookup`, `clear` of seven kinds of filter | all Bloom filters | bits behind the last one; counters that saturate and wrap; filters that forget | blocks hold the bits; no false negative |
| Hashing, AES, Xor8, Bloom, tools (`src/utils`) | none | pure functions | all | - | - |
| Time utilities (`src/include/TimeUtil.h`) | none | calendar arithmetic | loaders | - | - |
| Older copies, benchmark tables, experiment scripts | - | - | - | - | - |

The programs are sequential (one client builds, then queries) except for the thread
pool. The hard behaviours are therefore mostly long sequences of legal calls,
aliasing (filters shared by several nodes), stale derived state (deferred filters,
locator tables, links), arithmetic at boundaries, and - in the pool - interleavings.
Each one is listed under `hazards` in `PROJECT.json`, at the line where it bites,
with the properties that would catch it going wrong.

## 2. Modules

| Module | Models | Is used by |
|---|---|---|
| `BloomHeap` | plain Bloom filters as heap objects that several nodes may hold; add, lookup, merge, similarity | `SegmentTree`, `TdagBF` |
| `SupersetIndex` | the abstract specification of an index: an answer lies between the matching visible records and the records in the interval | `SegmentTree` (refinement) |
| `SegmentTree` | `test/SegmentTree` | `MC_SegmentTree`, `SegmentTreeProofs` |
| `SegmentTreeProofs` | its theorems | |
| `AdaptiveTimeBucket` | `TDAG/src/adaptive_time_bucket.cpp` and the query loop | `MC_AdaptiveTimeBucket`, `AdaptiveTimeBucketProofs` |
| `AdaptiveTimeBucketProofs` | its theorems | |
| `TdagBF` | `test/TdagBF` | `MC_TdagBF`, `TdagBFProofs` |
| `TdagBFProofs` | its theorems | |
| `ThreadPool` | `src/include/ThreadPool.h` | `MC_ThreadPool`, `ThreadPoolProofs` |
| `ThreadPoolProofs` | its theorems | |
| `DayIndex` | the abstract specification of an index of days: a map with range searches | `BPlusTree` (refinement) |
| `BPlusTree` | `test/BPlus` | `MC_BPlusTree` |
| `PeaDramDayIndex` | `TDAG/src/pea_dram_day_index.cpp` and the walk over its days | `MC_PeaDramDayIndex`, `PeaDramDayIndexProofs` |
| `PeaDramDayIndexProofs` | its theorems | |
| `PageManagement` | `src/utils/PageManagement.cpp` | `MC_Storage`, `StorageProofs` |
| `Bitvector` | `libbf/src/bitvector.cpp` | `MC_Storage`, `StorageProofs` |
| `BloomVariants` | `libbf/src/bloom_filter/{counting,stable,bitwise,a2}.cpp`, `libbf/src/counter_vector.cpp` | `MC_Storage`, `StorageProofs` |
| `StorageProofs` | the theorems of these three | |
| `SumTheorems` | no code: induction, and sums over finite sets, for the proofs | `AdaptiveTimeBucketProofs`, `TdagBFProofs`, `StorageProofs`, `EncryptedSearchProofs` |
| `Numbers` | powers of two (tree heights, cube sides) and the ascending order in which maps and sorted vectors are read | `TdagCover`, `QuadTreeCover`, `CubeCode` and all above them |
| `TdagCover` | `TDAG/src/tdag.cpp` | `LogarithmicSrcI1Index`, `EncryptedSpatialDB` |
| `QuadTreeCover` | `TDAG/src/quad_tree_3d_src.cpp` | `EncryptedSpatialDB` |
| `StandardEMM` | `TDAG/src/standard_emm.cpp` | `EncryptedSpatialDB` |
| `LogarithmicSrcI1Index` | `TDAG/include/logarithmic_src_i1_index.hpp` | `EncryptedSpatialDB` |
| `EncryptedSpatialDB` | `TDAG/include/encrypted_db.hpp`, `coordinate_transformer.hpp`, `TDAG/src/tdag_src_3d.cpp`, `qdag_src_3d.cpp` and the query loop of the two-round index | `MC_EncryptedSearch`, `EncryptedSearchProofs` |
| `CubeCode` | `test/serverdb/cube_code.cpp` | `JoinSearch` |
| `JoinSearch` | `src/main/Setup_JXTP.cpp`, `Server_JXTp.cpp`, `query_sql` of `test/BPlus` and the client in `src/test/IdTokenTest_interval.cpp` | `MC_EncryptedSearch`, `EncryptedSearchProofs` |
| `EncryptedSearchProofs` | the theorems of these two, and of what they are made of | |

`MC_Storage` puts the three stores that nothing else in the model depends on side by
side (it extends all three, so that their assumptions are checked for its instance, and
therefore their definitions have names of their own: `BitsInit`, `FilterNext`), and
`MC_EncryptedSearch` the two searches over encrypted data (`JoinInit`, `JoinNext` are
those of the join); a behaviour of
either uses one of them from beginning to end, and the variables of the others rest.

### Filters as heap objects

A tree node owns a `std::shared_ptr` to a filter, and one filter may belong to many
nodes. `BloomHeap` keeps `bf` (node to object) apart from `bits` (object to set of
one bits). `make_shared` takes an object no node points to; an object nobody points
to any more is forgotten (`Collect`), which is what `shared_ptr` does with it and
keeps the state space small. `Hash` maps a keyword to the set of bits its k hash
functions select; it is a constant, since a tree builds all filters with one hasher
and one size. A false positive is possible whenever the hashes overlap, and the
configurations choose hashes that do. That a filter's storage is a set of bits at all,
under the operators the trees use on it, is what `Bitvector` shows.

### Segment tree

`Update` is the leaf's part of `update` and starts the loop over the ancestors;
each round of the loop is one `RefreshNode` step, whose four alternatives are the
branches of `updateParent`. `FinalizeBloomFilters` starts the same loop over all
inner nodes. `todo` holds the nodes still to be refreshed, and `Precedes` gives
the order in which the code visits them. Nothing else can start while `todo` is
non-empty: the code has no second thread. `Ask` is `getCandidateIntervals`, with the
descent expressed as "no filter on the path rules the query out".
`Span` is what `build` makes of the array; the assumption `TreeShape` says so, and
TLC evaluates it.

`pending` is a history variable: a record inserted with `update_deferred` is promised
to queries only after its ancestors were refreshed, by `finalize` or by an
`update` at the same slot.

### Time buckets

`Build` sorts, `TakePoint` is one round of the loop over the records (including
`finalizeCurrentBucket` when the bucket closes), `LinkAndLocate` sets the links and
fills the table. `StartQuery`, `VisitBucket` and `EndQuery` are the loop that three
programs share. `WalkIsExact` says both halves at once: each bucket visited is probed
in the slots of the query and in no others, and when the walk ends each record in
the query's slots has been probed for. Times are whole seconds; calendar conversions
happen before and are not modelled.

### TdagBF

Tree nodes are numbered as a heap over `2^Height` slots (the constructor pads to a
power of two). `RangeOf` and `Middles` are the constructor's arithmetic. The calls
of `update_parent` that one `insert_keyword` makes are a sequence (`Climbs`): the
recursion climbs again from every inner node it returns through, and the model keeps
that. `finalize` empties and refills filters in place (`Rebuilt`), which is
only right if no two nodes share one. `mode` says how callers use a tree:
the programs use one kind of insert per tree; `mixed` is what the comment in the
header allows.

### Thread pool

Each critical section under `queue_mutex` is one step, `condition.wait` puts the
worker to sleep and releases the mutex in one step, notifications are steps of their
own after the unlock, and a sleeping worker may wake spuriously. A task may
enqueue another one while it runs (`FollowUp`): on a stopped pool this throws.
Clients do not call `enqueue` on a pool whose destructor has begun, which would be
undefined behaviour.

### B+ tree of days

Nodes are heap objects with the fields of `BPlusTreeNode`; an address that no pointer
leads to is free again. `Insert` puts the day into a leaf, and each call of
`splitNode` is one `SplitNode` step, up to the root. `Remove` is one step, since
`borrowOrMerge` is called for the leaf only and never for the node above it: its
branches for inner nodes are unreachable and left out. The two descents are kept apart
as in the code (`FindLeafToInsert` with `lower_bound`, `FindLeafNode` with
`upper_bound`), and so are the parent pointers, which the code sets in a leaf's
neighbour as well. Two things the code does are not defined by C++: it follows
null pointers (any call after the last day is gone) and it indexes an empty or too
short vector of children (a removal after inner nodes have become too small). The
model sets `undefined` and stops there. One more is harmless in every build: the
key that moves up is read just behind the end of a vector that was shortened a line
before, where it still is; the model reads it there.

`mode` says how callers use a tree: `new days` is what all programs do, `any day`
inserts a day again, `removal` removes days; `DaysOf` gives each mode its own number of
days. The history `days` is what callers have been told is in the index; `DayIndex`
takes it as its state.

### PeaHash day index

`Linked` is what `emplace` and the two assignments of links make of the map, and
`HashInsert` follows in the same step: when the hash table refuses the key, `insert`
throws, and the map and the links stay as they are. `failed` remembers the days for
which that happened; a second insert of such a day returns normally and does not mend
it. The loop of `intersectingDays`, which the query programs repeat by hand, is
`StartWalk`, `VisitDay` and `EndWalk`.

### Page management

A page is a number; below `NumPages` it is memory, above it disk (the constructor makes
as many disk pages as memory pages, whatever the setting says). `Set` and `Write2Disk`
are loops over items and pages: starting a call, each item, each page taken and each
page written is a step, and `call` holds what is left, so that an exception can end a
call between two pages as it can in the code. `SpillFails` is the short write that
throws: both pages have been popped and the index still names the memory page.
The results of the queues' `pop` are not checked; where the code would follow an
uninitialised pointer, read behind its buffer, or look for items behind the null
pointer of a short read (`GetFails`), `fault` says why and the behaviour ends.

An item is a row id (`rows`) and 32 bytes (`values`). A page says which key's index it
is in, an item says only its value, and `Scan` returns the items whose value
equals the key asked for (`Matches`). Nothing in the code makes a value equal its key -
`PageTest` happens to store the key as the value - so a caller stores under a key any of
`ValuesFor[key]`. `Scanned` is what the pointers of a `Get` lead to once it has returned:
disk pages are all read into the first slot of the buffer and looked for at an offset
that grows for ever, so that only the first read of all finds something, and what it
finds is overwritten by the pages read after it (the place in the first page is kept, the
row there is the last page's). The history `given` counts the items stored under a key,
`wanted` has the rows of those whose value is the key. `GetIsExact` says which of them
a `Get` returns: in memory all of them and no others, on disk all of them if this is the first
read and of one page, and none afterwards.

### Bit vectors and the other filters

`Bitvector` keeps blocks of `W` bits, each as the set of the positions that are one, and
`numBits`; the histories `ones` and `size` are what a caller thinks the vector is. Every
operation works on blocks as the code does: shifts carry between neighbours, `resize`
fills up the last block, `flip` and `set` clear what lies behind the last bit. Counting and
searching read whole blocks. `operator>>=` is left out: nothing calls it, and it reads
behind the last block, so that its effect is not defined.

`BloomVariants` has a constructor-chosen `kind` and one add for each. `HashersFit` says
what a constructor makes sure of: a hasher for every part, and at least one digest, hence
one cell, per object. Counters are
numbers up to `Max` that drop an increment when full (`Incremented`) and wrap at zero
(`Decremented`); a hasher is a function from objects to sets of cells, and the
configuration takes all of them. The stable filter's random draw is a nondeterministic
choice of distinct cells. `net`, `age`, `saturated` and `misused` are histories: `misused`
is set by a removal of what was not there or after a counter was full, after which no
filter promises anything, and the model stops. Two limits were found on the way and are
why `CountsHold` says what it does: the recurring-minimum filter may return less than
the number of adds, even without any removal (it only never forgets the object), and
the carries of the bitwise filter clear bits of other objects, so its counts hold only
for objects that share no cell.

### Range search over labels

`TdagCover` is the tree of overlapping ranges as sets: `TreeRanges` is what the recursive
constructor makes, as a recursive function of the range; `DescendTree` the ranges a value is filed under, `SingleRangeCover`
the search for the cover. `QuadTreeCover` is the same for cubes: `Starts` and
`CubesOfPower` are the candidates of each size in the order they are tried.
`EncryptedSpatialDB` chooses one of three schemes at construction: a `Tdag` per axis, the
cubes, or the two-round index. `Cell` and `EndCell` are the rounding of the coordinate
transformer, in exact arithmetic (the code's is in doubles). Records are loaded
one at a time and the index can be built, queried and built again. The
two-round index's query is two steps, `FirstRound` and `SecondRound`, with the ids the
server returned in `round` between them. `StandardEMM` numbers the ciphertexts of a label
from zero, and a search counts until an index is missing.

`QueryMissesNothing` names the cases in which the code does lose a record or throw: a
record on the upper end of a box that falls on a cell exactly (the cube scheme, see
Findings), and a box whose end lies one past the last cell (the scheme per axis, which
throws). `CoverIsSmallest` is claimed for the schemes over ranges only: of the two cubes
the quad tree tries for each size, the right one (`quad_tree_3d_src.cpp:309`)
never helps, so that a cube twice as long may be taken.

### JXT+ join

Hashes are opaque: a hash is an atom, what `tool::Xor` makes of hashes is the set of atoms
that occur an odd number of times. So two masks cancel exactly when they
do in the code, and nothing else does. `Read` is a line of a table's file, `Construct`
makes the token set and the ciphertext set; `Entries` has the extra mask for
the second row of a user under one keyword. `SearchJoin` is the client's query: it takes the
cubes of its box, the slots `query_sql` gives for its times (`QuerySlots`; the trees may
name more of them than needed, `named`), and the server's two loops over them.
`hits` are the keys the filter of table 2 wrongly says yes to. The answer by slots
pairs groups strictly, the answer by cubes does not (`GroupsOf`), and the client tells
tables apart by position (`ReadStag`); this is why `ClientReadsTheBox` needs a filter
that was right to promise that only the box is read.

A ciphertext does not say whether a key is the right one. `AESUtil` checks the padding
alone, and about one wrong key in 256 leaves a correct one and gives garbage. Which pairs of a
keyword and a ciphertext do so is chosen for each reading (`wrong`, one of
`WrongKeys`); for the groups of table 1 the client tries the keys of all cubes with
entries in turn (`KeysAt`) and believes the first that decrypts (`Decrypt`), so that the
right key may never be tried. A joined row can therefore be lost, and
`ClientReadsTheBox` says exactly how: only if a wrong key decrypts that row's own
ciphertext, and then `Garbage` is in its place. The partners from table 2 are tried with
one key, the right one, and are never lost.

Which rows are read is stated in terms of the geometry of box and point (`Reached`), not of
the cubes that were asked for. The query asks for the cubes of the last level that meet the box (`Meets`):
rows a little outside the box are read too, and rows in the box are read with three
exceptions, all of the code's making: a box that holds the whole domain asks for nothing;
a point at a corner of the domain is filed under one cube only; and a point beyond the
domain is counted to the outermost cubes (`CubeAt` clamps it, as the code does), while a
box that lies beside the domain (`MeetsDomain`) asks for no cube. By slots the client
takes entry i of the answer for one of slot i / 2 (`ReadRange`), so that a slot in which
the user has no row, or two, shifts what follows out of its reach; only when each slot
gives one pair does it read everything, and `ClientReadsTheBox` says so. The earlier server `Server_JXTp_for.cpp` has the same two loops for one
keyword at a time, which are `RangeOf` and `StagOf`.

## 3. Runs

| Run | Instance | Shows |
|---|---|---|
| `segment_tree` | 3 slots (5 nodes, an unbalanced tree), 3 interchangeable records, 2 keywords on 3 bits with overlapping hashes, distance bound 1 | pruning is safe in every order of update, deferred update and finalize; leaf filters never lose bits; the tree implements `SupersetIndex` |
| `time_buckets` | a day of 6 s, a table of 3 rows, slot lengths 1, 2 and 4 (even, too fine for the table, not a divisor), up to 4 records from before 0 to the second day, five settings, one of them nonsense that the constructor repairs | buckets are complete, in order and within limits; the locator never starts too late; the walk probes for each record it must and only for slots of the query; it ends |
| `tdag_bf` | 8 slots, 4 interchangeable records, either kind of insert | a smallest cover is found and matching records are filed under it; inner filters contain what is below them |
| `tdag_bf_mixed` | 2 slots, 3 records, both kinds of insert on one tree | **violation**, see Findings |
| `thread_pool` | 3 workers, 2 clients, 4 tasks, two of them enqueued by others | no lost wake-up, FIFO, the destructor drains the queue, accepted tasks run, the destructor returns |
| `bplus_tree` | M = 3 as in the source; 7 days in every order, or 5 days inserted and removed in every order | splits keep the tree's shape; the tree implements `DayIndex` until something is removed; no answer brings a day back, mixes days up, or is out of order |
| `bplus_lost` | 3 days inserted and removed | **violation**, see Findings |
| `bplus_again` | 3 days with two trees each, inserted again and again | **violation**, see Findings |
| `day_index` | days -2 to 1, two roots, each hash insert may be refused | links follow the map; lookups miss exactly the days that threw; walks find their range and move on |
| `storage` | 2 keys, one for each overload of `Set`, values that are the key and one that is not, 3 memory pages of 2 items, batches of 2, a buffer of 3 pages; vectors of up to 7 bits in blocks of 3; filters of up to 3 cells with every hasher of two digests over 3 objects, counters up to 3, up to 5 calls | pages lose and mix up nothing, failed writes included, and a `Get` returns what it can still reach and no other row; blocks hold the bits; counts and recent objects survive |
| `encrypted_search` | a grid of 8 cells on two axes, 2 records, coordinate ranges that round and that do not, all boxes, attributes 0 to 4; a join of up to 3 and 2 rows over 8 by 8 coordinates, two slots a day, one wrong key that decrypts | no scheme misses a record of the box, covers are smallest, the join is exact and its client reads the box, or garbage in place of a row |
| `qdag_face` | a grid of 4 cells, an axis that needs no rounding | **violation**, see Findings |

Bounds. Three slots give leaves at two depths, four give two sibling pairs under a
root: sharing at one level can meet sharing at the next; eight are the first with
middle ranges at two levels. Three bits and two
overlapping keywords give filters at every distance the two branches of the merge
tell apart. Three workers let one sleep, one run and one check at once, and two
clients leave two notifications outstanding. Seven days are the first number that
gives a B+ tree of three levels after a root split and one more split below it; five
days already give removals with a lender on either side, merges both ways and
an inner node that is too small. `MaxNode` (12) is more than any such tree uses. Four
days let a new day come first, last and in between, with a failed one on either side.
Three memory pages let one key have a full page and another being filled while the other
key has one, run out, and spill more than once; a buffer of three pages is soon read
full. One value that is the key and one that is not, in any order, put matches at every
place of a page. Seven bits are two full blocks and one
more, so that shifts cross two borders. Three objects on two or three cells collide in
every way two can and with a third; `Max` = 3 is reached, dropped and decremented
within the five calls that `MaxCalls` allows. A grid of eight has middle ranges and
overlapping cubes at two levels; two records may share a cell, a value or a cover, or
not. Three rows in table 1 let a user occur twice under one keyword and another user
between. `MaxWrong` = 1: one wrong key that decrypts is enough to hide a row; two hide
two rows independently, and the proof is for any number. Symmetry is used only for records,
which no definition orders, and only in runs without liveness properties.

Deadlock. `CHECK_DEADLOCK FALSE` where the system stops by design: a TdagBF in
`incremental` mode has nothing left to do when all records are inserted (its queries
read only, and are part of the properties), a destroyed pool stays destroyed, a
B+ tree on which callers remove days may reach undefined behaviour, where the
model stops, and in `storage` pages stop at a fault and filters after `MaxCalls`.
That the pool does not hang is what its two liveness properties say.

Fairness. `AdaptiveTimeBucket` is sequential code: a loop that has been entered makes
its next round (weak fairness of the rounds); nobody is obliged to build or to ask.
`ThreadPool`: the operating system schedules every runnable thread, tasks end, and
the short critical sections cannot starve a thread for ever; hence weak fairness
for each worker's steps, each pending notification and the destructor. Neither
enqueueing, nor destroying, nor a spurious wake-up is fair.

Every property of a passing run has a mutant in the module of the code it is about:
a definition changed as a plausible slip would change it, which TLC then refutes.

## 4. Proofs

TLAPS proves the following for every value of the constants that satisfies the
assumptions their modules name.

`SegmentTreeProofs` - from a tree shape as `build` makes it (`Span`), any
hash, any number of records and any distance bound: types (`TypeCorrect`), safe
pruning (`PruningIsSafe`), leaves that only gain bits (`LeavesOnlyGrow`), and the
refinement of `SupersetIndex` (`SegmentTreeImplementsIndex`). Safety of pruning is not
inductive: while ancestors are being refreshed, and after deferred inserts, filters
above a leaf lack bits of records the leaf has. The inductive invariant `IInv` adds
`FilterInv`, which says of each record and each node above its slot, that the node's
filter holds the record's bits as soon as the record has been carried up to
that node (`Refreshed`). Sharing is dealt with once, in lemmas about the heap: a merge
or an overwrite only ever adds bits to an object, and a node that changes its object
gets one with at least the bits of the old one.

`ThreadPoolProofs` - for any finite set of workers and any clients and tasks: types, no lost
wake-up, FIFO order, and a destructor that leaves no accepted task behind. Added to the
properties are that `stop` is set exactly from the destructor on, that a worker that
has left saw `stop` and an empty queue (which stays empty: `enqueue` throws on
a stopped pool), and that each task taken is running or finished.

`PeaDramDayIndexProofs` - for any set of integers as days, any roots and any pattern of
failing hash inserts: types, links, lookups, walks. The invariant adds that a set of
stored days has a first and a last element (the model's only use of
finiteness), that the hash table lacks exactly the failed days, and that a walk has
found precisely the days of its range before its cursor.

`AdaptiveTimeBucketProofs` - for any records, settings, table and query times, negative
ones included: complete and ordered buckets (`RecordsHaveBuckets`), slots split only by
a full bucket (`SplitsAreForced`), a locator that is never late (`LocatorIsNotLate`) and
the exactness of the walk (`TheWalkIsExact`). The invariant `BucketInv` relates the list
of buckets to the sorted records: there is a sequence of positions (`Cuts`) at which the
closed buckets end, each bucket is what its interval of positions makes it, and the
counter of forced splits counts the ends inside a slot. The rest is arithmetic: division
that rounds down is monotone, and so are the slot of a time and the position of a
slot in a bucket's sorted list. While a query runs, each bucket before the cursor that
reaches into its range has been probed in its local range and no bucket in another one.

`StorageProofs`, pages - for any keys, any number and size of pages, any batch and any
buffer: whatever values are stored, items are kept (`ItemsAreKept`), pages have one owner
(`PagesAreOwned`), a `Get` is exact (`GetsAreExact`). The invariant follows pages through the queues: none is queued
twice, an indexed page is in no queue of free ones, every used page is some key's, there
are always disk pages left for the memory pages, and the page a key fills is among its
pages as long as it has room. `MatchInv` ties the rows wanted to the pages: they are the rows
at the places of the indexed pages whose value is the key, and since no row is
stored twice, what is wanted and not on disk is in memory. The failed write is the case that needs care: two pages leave
the queues and no index changes, which the invariant allows and the sums survive.

`StorageProofs`, libbf - for any width of a block: bit vectors (`BlocksAreExact`); for any objects,
cells and hashers: counts (`CountsAreHeld`) and recent objects (`RecentIsFound`). `BitsInv`
says that the blocks are a function of the bits the caller set (`Packed`), so a block has
nothing behind the last bit; the proof for each operation is a lemma that its work on
blocks is the packing of its effect on bits, from what division by the width does, and
`Count` is shown to be the cardinality by induction over the blocks. `FilterInv` has one
part per kind: in a counting filter each counter is the sum of the copies of all objects
that use its cell, cut off at `Max` (so a removal is exact as long as nothing was cut off);
with minimal increase each counter is enough for each of its objects; the second vector
of a recurring minimum counts the objects that have a single cell, all to themselves; a stable
filter's counters are at least `Max` less the age; an A2 filter finds its last
`items` objects in the first filter and the `Capacity` before them in one of the two; the levels
of a bitwise filter are the binary number of copies of an object that shares no bit.

`TdagBFProofs` - for a tree of any height, any hashes and any records: inner filters
summarise what is below (`InnersSummarise`), no matching record is missed
(`NothingIsMissed`), the cover is the smallest range (`CoverIsTheSmallest`). The first two
are for a tree that sees one kind of insert, as every tree in the repository does and as
the hypothesis says; with both kinds they are false (`tdag_bf_mixed`). The
invariant for deferred inserts is simple: nothing is shared, and only nodes still listed lack
bits of their children. For `insert_keyword` it has to say who may share a filter with
whom. Siblings that are similar and their parent come to hold the left child's object, so
the holders of one object lie on a *spine*: a node, the nodes reached from it through left edges
and the right siblings of these; and if a node of this chain that is not above the
running climb holds it, so does all of the chain below. With this, writing one
object changes the summaries of nodes the climb has still to visit, and of no other; that
the climb visits them all is a lemma on `Climbs` (each node's parent is behind it in the
sequence). The minimal cover follows from the alignment of ranges: node v of a
row spans an interval of the row's length from a multiple of it on (`Sized`), a middle
range starts at an odd multiple of half its length, so that any range of the tree that
holds a query is one of the two candidates the search tries for its length.

`EncryptedSearchProofs`, range search - for any finite set of axes, any `GridBits`, any
bounds of the data and any records: no scheme misses a record of the box
(`SearchesMissNothing`), the range asked for on an axis is a smallest one and the answer
is exactly what is filed under it (`SearchesAskForLeast`). The two properties speak of an
answer alone; what makes them hold from step to step is `SpatialInv`: the multimap is
`BuildEMM` of the labels of the records it was built from, with the values they still have
(`GridServed`, `I1Served`; for the two rounds only while nothing has been loaded since, as
the code requires), and the ids between the rounds are those of one query's first round
(`RoundStands`). Under it lie lemmas on each part. The multimap: a search that counts up
to the first gap returns the values of its labels and nothing else. The range tree: its
shape over a power of two is given level by level (blocks at multiples of their width,
middle ranges half a width off), from which a value is filed under exactly the ranges of
the tree that hold it, and the cover of a query is one of them with no smaller one around
it. The quad tree: cubes start at multiples of half their width, a cube of the grid that
holds a point is found on the way down to it, and the cube that is asked for, after the
rectangle has been adjusted to the grid, holds every cell of the query. The transformer:
rounding down is monotone, and at most rounding up, with equality only at multiples - the
one case `OnUpperFace` excepts. The two rounds: the merged ranges cover each position the
first round has returned.

`EncryptedSearchProofs`, join - for any tables, boxes, times, number of slots a day and
levels of cubes, and whatever the filter of table 2 wrongly says yes to: the answers of the
server are exact (`JoinIsExact`) and the client reads what it should, whichever and however
many wrong keys decrypt (`ClientReadsItsBox`).
The invariant `JoinInv` says that token set and ciphertext sets are those of the rows
that were read (`JoinStored`), and that a result is the answer to one query on them
(`ResultStands`). The rest is what such an answer is. `Xor` of sets of atoms cancels: the
client's token turns the first entry of a user under a keyword into that user's keys in
both ciphertext sets, and an entry with the extra mask into a key nobody has
(`TokenUnmasks`, `EntryLeads`); keys of different keywords or users differ
(`KeysDiffer`). So each token gives the user's two groups once or nothing, the groups of
the two tables come in turn, and stay in turn when the answers of tokens and slots
are strung together (`TurnsHold`), which is what a client that reads by position relies
on. What a reading gives of a group is what the first key that decrypts gives
(`DecryptFacts`): the row if no wrong key before the right one decrypts it, else garbage and a
witness in `wrong` (`ReadOrLost`). The right key is among those tried, since a group is
filed under a cube that has entries (`KeysTried`, `StagIsFiled`, `StagIsRead`). That the rows
read are the rows reached goes through the cubes: the cubes of a point are each other's
parents, clamped or not (`CubeAtFacts`); if a cube of the point lies in
the box, the largest that does is asked for, else the smallest if it meets the box, so
that a point is filed under an asked cube exactly if it is reached (`ReachedIsFiled`,
`FiledAreReached`). A point of the box is reached
unless it is one of the exceptions (`BoxIsReached`). In the search for that proof
`ClientReadsTheBox` turned out to be too strong: it did not exclude boxes beside the domain,
which no instance had.

`SumTheorems` holds the induction the proofs use. The theorems of the library take an
operator as a parameter, which the provers cannot instantiate; with a set of elements in
place of the predicate the same theorems are first-order, and can be used for what the
recursive functions of the model compute (sums over sets, paths in a tree, digits of a number).

TLC has checked each of these invariants before it was proved, on the instance of its run
or a smaller one; those of the two encrypted searches on a grid of four cells with
attributes 0 to 2, and on the join's own instance.

Model-checked only: the liveness properties (`WalkTerminates`, `AcceptedTasksRun`,
`DestructorReturns`), since fairness and ENABLED are out of the prover's reach; and
`BPlusTree`, that is `SplitsKeepShape`, `AnswersAreSound` and the refinement of `DayIndex`.
A proof of these has to follow the shape of the tree through a split that climbs, and
through removals that leave parent pointers stale and separators that no longer
separate strictly; TLC does it for every order of seven days.

## 5. Findings

`tdag_bf_mixed`: the header of TdagBF describes `insert_keyword_deferred` as the same
insert with the inner merges postponed to `finalize_bloom_filters`. If a tree
has seen an incremental insert before, two children and their parent may hold one
filter; `finalize` empties the parent's filter in place and thereby its children's,
leaves included, and records are no longer found. The programs in the repository
use one kind per tree, so none of them is affected.

`bplus_lost`: with days 1, 2, 3 in leaves [1] and [2, 3], removing 3 and 2 empties the
right leaf, which is merged into the left one; the emptied root is then replaced by
the right leaf, which no longer holds anything. Day 1 cannot be found by
`search` or `rangeSearch`. The test `DeleteDay` (`bplus_tree_test.cpp:97-99`) expects the other day to survive a
removal, and passes because its tree has one leaf. No program removes days.

`bplus_again`: inserting a day again that has become a separator adds a second entry in
the leaf to the left, while searches go right: the new tree is never found, although
the comment at that place says that the day's tree is replaced. The loaders build the
tree of a day before inserting it once.

`qdag_face`: the quad tree's rectangles and cubes leave out their upper end. The
transformer rounds the end of a box up, which makes room for records on the end, except
when the end falls on a cell exactly. A record there is not in the answer of the cube
scheme, while the test of that scheme compares the answer with the closed box and asserts
that nothing is missing; its random data has no record on such an end.

## 6. Not modelled

- B+ tree over TdagBF: its trees and its descents are those of `TdagBF` and `BPlusTree`;
  its splits on the way down are not modelled, and its loader only inserts.
- In `TdagBF`, inserts of intervals longer than one slot and `update_src_cover` (no
  caller); `mergeLeafNodes` of the segment tree (no caller); in libbf, `operator>>=` of
  bit vectors, `operator|=` and `set` of counter vectors (no caller), formulas for sizes.
- JXT+: saving and loading as JSON and Base64.
- `cube_code_k.cpp`, which only its own test builds; `Server_JXTp_for.cpp` beyond its two
  loops, `Demm_interface0.cpp`, `DSegmentTree.cpp` and other older copies, which no CMake
  file builds.
- Hash functions, AES (but for what a decryption with a wrong key may give), the Xor filter
  (compiled, used by no program), time and calendar conversions: pure functions, opaque
  to their users.
- Statistics, timing, storage accounting, printing; benchmark tables, which are
  third-party code; experiment scripts.

## 7. Plan

What is left, in this order:

1. `BPlusTree`: `SplitsKeepShape` and the refinement of `DayIndex` for insertions of new
   days, then `AnswersAreSound` in every mode. The descents are recursive functions over the
   nodes, as the tree functions of `TdagBF` are.
2. The B+ tree over TdagBF, with its splits on the way down, as a second refinement of
   `DayIndex`.
