# A TLA+ model of TDSL

TDSL (`src/`) is a C++ implementation of the transactional skip list of
"Transactional Data Structure Libraries". Transactions of several calls
(`insert`, `remove`, `contains`) run on one list; each call reads the list
through the transaction's write set, and `TXCommit` locks, validates and writes
back. This directory models it in TLA+, checks the model with TLC on small
instances, and proves theorems about it for all instances with TLAPS.

## The system

| part | source | state | operations | what makes it correct |
|---|---|---|---|---|
| transactional skip list | `tskiplist/TSkipList.cpp`, `TSkipList.h` | per transaction: read and write version, read set, write set, `indexTodo` | `TXBegin`, `contains`, `insert`, `remove`, `TXCommit`; inside them `traverseTo`, `getValidatedValue`, `validateReadSet` | opacity and serializability; no committed update is lost; abort only for a conflict; every transaction ends |
| write set | `tskiplist/WriteSet.cpp` | one `Operation` (next, deleted) per node | `addItem`, `getValue`, `tryLock`, `update` | merged items describe what the calls did; stores happen under the node's mutex |
| version clock | `tskiplist/GVC.h` | a 32-bit counter | `read`, `addAndFetch` | versions of a node never fall |
| node | `tskiplist/Node.h` | key, next, deleted, version, mutex | construction | out of reach of others until committed |
| mutex, lock list | `tskiplist/Mutex.h`, `SafeLock.h` | a recursive mutex and a flag | `tryLock`, `unlock`, `isLocked`, `lock`; release in reverse on scope exit | every mutex taken is released once, on every path |
| index | `tskiplist/Index.cpp` | the head node and a concurrent skip list of nodes | `update`, `insert`, `remove`, `getPrev`, `sum`, `size` | a start node before the key; has all that the chain needs, or is about to; sheds what was removed |
| index library | `tskiplist/skiplist/skiplist.cc` | towers of next pointers, marks, a read-write spin lock and a reference count per node | insert, erase, find and more | inserts and erases that take effect at one moment, finds that miss no node that stays; whole towers, no failed store; the lock excludes; marks are given back |
| workload driver | `experiments.cpp` | two counters, an end time | `warmUp`, `chooseOps`, `performOp`, `worker` | every transaction counted once, as committed or aborted |
| benchmark | `bench/` but for `common/fraser/` | an arena per thread in one pool, a barrier, two counters; a descriptor (a list of operations) per transaction | `Tester`, `WorkThread`, `SetAdaptor::Init`, `ExecuteOps`, `help_ops`, `Alloc`, `Wait` | a committed descriptor takes effect up to its first operation that answers false, an aborted one not at all; descriptors do not overlap in memory; every transaction is counted once; the run ends |
| Fraser's library | `bench/common/fraser/` | epochs and memory pools per thread | only the calls that start and stop it, and `fr_gc_add_allocator`, are made | third-party code, nothing of the benchmark runs through it |
| scripts, Java driver, projects, googletest | `run_experiments/`, `Experiments.java`, `windows/`, `externals/` | none of the list's | | not part of the model |

The parts meet in memory. A worker thread calls the list; calls read nodes that
other threads' commits write, with no lock and no atomics (only the clock is
atomic); commits exclude each other node by node with `tryLock`; the index is
updated after the mutexes have been released, so it lags behind the chain. The
benchmark's workers call the list too: a descriptor is turned into the calls of one
transaction.

The hard behaviours: plain loads racing with write-backs; commits that overlap;
stale start nodes; a commit that fails half-way; reads that a later commit makes
stale; loops whose end depends on other threads. PROJECT.json lists each at its
line.

## Modules

- `TxSet` is the promise: a set of keys; a transaction's calls are answered from
  the keys committed when it began plus its own updates (also when it goes on to
  abort), and it may commit only if all its answers hold at that moment.
- `TSkipList` is the code. `heap` is the nodes with the fields of `Node`,
  `index` the set of nodes linked in the index, `gvc` the clock; `tx[t]` is the
  `SkipListTransaction` of thread `t`, `reg[t]` the locals of `traverseTo` and
  `getValidatedValue`, `todo[t]` the loads or stores it still has to make,
  `locks[t]` its `SafeLockList`. Three history variables record the answers of
  the open transaction, the committed keys at its beginning, and what committed
  transactions have done to each key; no guard reads them.
- `TSkipListTxSet` maps `TSkipList` to `TxSet`: a transaction commits at
  `addAndFetch`, and the committed keys are the chain as it will be when every
  transaction past that point has written back.
- `MCTSkipList` and the `.cfg` files are the instances for TLC.
- `TSkipListProofs` holds the theorems on types and pointers, on mutexes and versions,
  and on nodes that no
  other thread can reach before their transaction commits. `TSkipListChains` has the
  lemmas on sorted chains of nodes, `TSkipListChainProofs` the theorems on the list, its
  index, its aborts and its refinement of `TxSet` that rest on them.
- `AccessingNext` is the read-write spin lock of a node of the index library
  (`_sl_read_lock_an`, `_sl_write_lock_an` and their unlocks). `word` is
  `accessing_next`, taken apart into its two counters, with the carry from one to
  the other; `pc[t]` is where thread `t` is. Each atomic access is an action: `Wait`
  (the spin before the add), `AddR`, `CheckR`, `UndoR`, `UnlockR`, and `AddW`, `CheckW`,
  `UndoW`, `Drain`, `UnlockW`. It stands on its own: `TSkipList` takes the calls of the
  library as atomic. `MCAccessingNext` is its instance, `AccessingNextProofs` its theorems.

- `IndexSet` is the promise of the index library: a set of nodes. An insert or an erase
  takes effect at one moment between call and return. A find of a smaller node is weaker: it
  answers with a node below its key that was in the set at some moment of the call (`met`), and no node
  that was there throughout (`kept`) lies between that one and the key.
- `SkipIndex` is the code of it (`skiplist.cc`): insert, erase and find, layer by layer.
  `nodes` is `skiplist_node` (next pointers, `full` for `is_fully_linked`, `flag` for
  `being_modified`, `removed`, `top`, and who holds the write lock over several steps),
  `entries` is `layer_entries`, `listTop` the list's `top_layer`; `l[t]` is the locals of
  thread `t`, `todo[t]` the calls it will make; `seen[t]`, a history variable, is the nodes
  met and kept since its find was called. The `flag` keeps which thread set it, which no guard
  reads. `Full`, `Told` and `Promise` are the mapping to `IndexSet`: the set is the nodes with
  `is_fully_linked`, a call has taken effect (`Effected`) once `Publish` or `Unlink` has changed that bit.
  `MCSkipIndex` is its instance. `SkipIndexProofs` has the theorems on types and marks,
  `SkipIndexListProofs` those on the lists of the layers, `SkipIndexAtomicProofs` the refinement of `IndexSet`
  and what callers owe for all of them to hold (`InTurn`, `Steady`).

- `Bench` is the benchmark: main fills the list, starts the workers, meets them at the
  barrier and joins them; each worker runs its descriptors. It composes `ThreadBarrier`
  (`threadbarrier.h`, `m_arrived`), `Allocator` (`allocator.h`: `m_ticket`, and per thread
  `m_base` and `m_freeIndex`, addresses being offsets in the pool) and `TxSet` (the list).
  `g_count` is the two counters of `setadaptor.h`. `MCBench` is its instance, `BenchProofs` its
  theorems.

| actions of `TSkipList` | code |
|---|---|
| `TXBegin` | `SkipList::TXBegin`, and the driver choosing a program |
| `Seek`, `Restart`, `Walk` | `traverseTo`: ask the index, ask again, go on to `succ` |
| `Load` | one load of `getValidatedValue`, with its tests |
| `Contains`, `Insert`, `Refuse`, `Remove`, `Unlink` | the rest of each call after `traverseTo`; `remove` reads one more node, which is why it has two actions |
| `TryLock` | one iteration of `WriteSet::tryLock`, and the throw |
| `Validate`, `Invalid` | one iteration of `validateReadSet`, and the throw |
| `AddAndFetch`, `Store` | the clock, and one store of `WriteSet::update` |
| `Unlock` | one iteration of `~SafeLockList` |
| `UpdateIndex`, `Finish` | one entry of `Index::update`; the transaction goes out of scope |

| actions of `SkipIndex` | code |
|---|---|
| `Call`, `Start` | the beginning of the three calls; `_sl_node_init` and the write lock of a new node; where the descent begins |
| `Removed`, `Mark`, `Retire`, `Linked`, `Restore`, `Unmark` | the flags of `skiplist_erase_node_passive`, and `skiplist_erase_node` trying again |
| `Peek`, `Hop`, `Hopped` | `_sl_next`: the load under the read lock, and the way past nodes that are not linked or are to be erased |
| `Pass`, `Descend`, `Answer`, `Return` | the comparison after `_sl_next`, and the end of a find |
| `Place`, `Try`, `Prev`, `NextValid`, `Placed` | the place in a layer: mark the predecessor, check both neighbours, look again |
| `Unlink`, `Store`, `Publish`, `Release` | the stores of `is_fully_linked` and of the next pointers, bottom up |
| `Count`, `Scan`, `SetTop`, `Clear` | `layer_entries`, the loop that finds the top layer, its store, `_sl_clr_flags` |

| actions of `Bench` | code |
|---|---|
| `TakeArena`, `ResetMetrics` | `SetAdaptor::Init` |
| `ExecuteOps` | a turn of the loop in `Tester` or `WorkThread` up to the end of `ExecuteOps`' allocation and copy |
| `Begin`, `Operate`, `TXCommit`, `Throw`, `Count` | `help_ops`: begin, one operation, commit, the exception from either, the counter |
| `StartWorker`, `Join`, `Exit` | `Tester`: the threads it starts and joins, the end |
| `Arrive`, `Pass`, `Spin` | `ThreadBarrier::Wait` |
| `Leave` | the end of `WorkThread` |

A step is one access to memory that others can touch, with the thread-local work
around it. An exception (`Throw`) leads to `abort`, where the mutexes are
released one by one before the transaction is over.

Three choices need a word.

*Data races.* The fields `next`, `deleted` and `version` are plain, so the
compiler and the machine may reorder their loads and stores. With `Reorder` FALSE
they happen in program order (what the x86 build does when the compiler keeps
the order); with TRUE the loads of one `getValidatedValue`, and all the stores
of one `update`, happen in any order. A field is read and written whole.

*Grain.* `Grain` tells the scheduler what to leave whole. With `"step"` it leaves
nothing whole: that is the program. With `"commit"` no other thread runs from
the first `tryLock` of a commit to its last unlock, while calls and index updates
still interleave, load by load; whole calls of two open transactions in turn, as
`test.cpp` drives them from one thread, are among its behaviours. The coarser grain
is there to say exactly what the finer one breaks.

In `SkipIndex` a section between lock and unlock of `accessing_next` is one step, since
`AccessingNext` shows that it excludes; only the lock that an insert keeps on its new node
lasts longer, and blocks (`Held`). A local that the code leaves uninitialised is
`None`; a thread that follows it, or a NULL, stops there, and `StoresSucceed` and
`NoNull` say that it does not come to that.

*Reference counts.* `refs` is `ref_count` of each node of the library, modulo 2^16. Nothing
is ever freed by it (`wait_for_free` has no caller), so that no guard reads it; what
matters is whether it is balanced. `_sl_next` counts the node it returns and gives back
the nodes it hopped over; the model gives the latter back one hop at a time, which is
the same between calls. A find leaves its answer counted, for its caller to give back, as the
comment at `skiplist.cc:635` says, and `Index::getPrev` does not: the counts grow with
every `getPrev`, and `RefsBalanced` says that they grow by that and nothing else. No run
reaches the wrap.

*Benchmark.* `w[t]` is what thread `t` has on its stack in `Tester` or `WorkThread` and in
`help_ops`. Its draws of operations are any of `Batches`, its calls of the list any that
`TxSet` allows, with any aborts: what the benchmark adds must be right over any
list that keeps that promise. `threadbarrier.h`'s wait is split into the arrival and the loop, whose
turns are `Spin`.

*Index.* In `TSkipList` a call of the index library is one atomic step, as `Atomic`
justifies for inserts and erases (but for the exceptions below): `getPrev` answers a
linked node with the largest key strictly below the one asked for (the function
is called `skiplist_find_smaller_or_equal`, but passes `SM`, strictly smaller).
When two nodes with one key are linked, either may be the answer. That a find meets updates
of other threads may cost it the largest node, but not a smaller one: it answers with a
node of the index all the same, from which `traverseTo` has only more steps to make.

## Runs

| run | instance | result |
|---|---|---|
| `commits` | 2 threads, each with one transaction of one or two calls or two of one call, on keys 2 and 3, list <2, 9>; every load interleaved, commits whole, an index that lags | `TxSet` implemented, the chain holds what was committed and is sorted, aborts only for conflicts |
| `steps` | 2 threads, one transaction of one or two calls, keys to the end of the list, racing accesses reordered | types, lock discipline, rising versions, stores under the mutex, new nodes private; the index has what the chain needs, or is about to, and keeps a removed node in one case only |
| `progress` | 2 threads, one call each, fair | every transaction ends |
| `lost_insert` | 2 threads, one call each, program order | **violation**: a committed insert is lost |
| `lone_abort` | one thread, one call | **violation**: a transaction aborts with no other in the system |
| `remove_last` | one thread, two calls | **violation**: a removed key stays in the list |
| `rwlock` | 3 threads lock for reading and writing again and again | writers are alone, the word counts who is in it, a lone writer gets past the readers |
| `index` | 3 threads, one call each (or 2 threads, one of them two calls), 5 nodes with a tie, 3 layers of which 2 are used | `IndexSet` implemented, stores find what they expect, marks go back, references are balanced, towers are whole; types, new nodes unmarked, erases start high enough |
| `index_flat` | 3 fair threads, one call each, one layer | every call returns |
| `index_top` | 2 threads, 3 calls, 2 layers, the second one empty at first | **violation**: an erase stores through an uninitialised pointer |
| `index_meet` | 2 threads, an insert and an erase of one node, 2 layers | **violation**: an erased node stays in the upper layer |
| `bench` | 2 fair workers and main, 2 transactions of 2 operations each, 3 kinds of transaction, after a prefill of 2 keys | descriptors have no byte in common, take effect up to the first operation that answers false, and are counted once; the benchmark ends |

What they show together. With commits whole, the design works: opacity and
serializability hold although traversals interleave with everything else and the
index is out of date. With the code's own interleaving it fails, for one reason.
`Mutex::tryLock` does not set the flag `locked`, so `isLocked` is always FALSE:

- A thread begins between another's `addAndFetch` and its write-back. It gets a
  read version equal to the version about to be stored, reads the old `next`,
  and later validates, as the stored version is not greater. Its own write-back
  takes the other's insert out of the chain.
- Two commits hold different mutexes, each validates a node that the other one
  is about to write, and both go on.

Two further defects need no second thread. `validateReadSet` takes the NULL next of
the last node for a failed validation, so a transaction that has read the last
node can never commit (a `contains` beyond the end, a `remove` of the last key).
And `addItem` takes a NULL next for no next, so a commit cannot cut off the last
node. The first of these hides the second, except when the same transaction
gives the node it removed a successor.

For these two reasons the instance of `commits` holds a large key 9 that
no transaction removes: it stands for the larger keys of a list that is not
empty, and keeps both end-of-list defects, which have runs of their own, out of
the way. `steps` and `progress` do reach the end of the list.

The index library is a set, if its finds are read as `IndexSet` has them. They are not of one
moment: with the node b in the list and an insert of a smaller a, an erase of b and a find
of a larger key under way, the find may load a's address from the head and see that a is not fully
linked yet, wait until a is and b is erased, and then hop over a all the same: `_sl_next` reads a's next pointer
only then (`skiplist.cc:366`). It answers that there is no smaller node, although at each
moment a or b was there. A node that stays, on the other hand, is never missed.

To inserts and erases there are two exceptions. `index_top`:
an insert computes the list's top layer from the counters and then stores it; in
between another insert may link a taller node and store its layer, which the late
store takes back. An erase of the taller node then starts its descent below the node's
upper layers and never fills `prevs` for them. In `index`, two nodes with two layers are in
the list from the start and none is taller, so that `top_layer` is right whenever an erase needs it.
The other exception is an erase of a node while another thread inserts it, which
`Index::update` of two commits may cause, as `TXCommit` lets go of its mutexes before it updates the
index. `index_meet` shows what comes of it: the erase reads `node->top_layer` first of all (737), when it is still the 0 of a
new node; the insert then draws its height (452) and links the node in every layer; the erase goes on, finds the node fully
linked, and unlinks it from the bottom layer only. In the layers above the node is still there,
not fully linked and in nobody's hands. `_sl_next` looks twice at a node that is not fully linked, and answers NULL
if it still is not (377); each caller then starts again, so that no search that comes to this node in that layer ever gets past it. The erase may also give back a mark (768) that by then
is another thread's. The instances of `index` and `index_flat` erase a node before or after its insert.

`Index::update` of different commits is not ordered either, and `IndexAgrees` and `IndexSheds` say how far that goes wrong. A removal
never takes away a node that the chain still needs: whatever the chain leads to is deleted, or in the index, or a commit is about to insert
it there. The other way round a deleted node may stay in the index for good, if its removal comes before
its insert, and there is no other way to it than that (`Late`). `traverseTo` steps back from such a start node, which is why
`Opaque` holds in `commits`, where it happens.

Bounds: `MaxTx` transactions per thread, `MaxCalls` calls that a thread's transactions
make together (with 2 and 2: one transaction of two calls, or two of one each), `MaxNodes` nodes ever allocated (large enough
that an insert is never refused for it: warm nodes, the head, and one for every
insert of every program), keys 1 to 3 around the interesting places: before,
between, at, and after the warm keys. Two threads are enough for every conflict
between a reader and a writer, or between two writers; `commits` runs up to two
transactions per thread, so that a transaction also starts from the index and
the versions that committed ones have left.

In `index` four nodes, two of them with the same key, give every call neighbours that
another call links, unlinks or marks: an insert next to an erase of its predecessor, two
inserts at one place, two erases around it, and finds that come across both; a fifth node, of the
largest key, is only looked for, so that a find has all the others to pass. The third
layer is empty, as most of the twelve of the code are. The programs insert a node once, as
`OnceAssumption` says: `Index::insert` gets a new node from every transaction. What can be reached in a
layer (`InLayer`) is defined as the least set with the head that the next pointers lead out of nowhere,
rather than by a walk, so that theorems can speak of it.

In `bench` the descriptors fail at their first or at their second operation, or succeed, and
conflict with each other; two turns let a worker start from what its first turn has left
in the arena, and a worker that begins its turns meet one that has not passed the barrier.
A descriptor of n operations has 4 + 8n bytes and its block 2 + 8n, since `SizeOf` leaves out the
padding: a descriptor reaches two bytes into the next block. That is harmless, because the
next block of the same thread is filled when this descriptor is done with, and the arena of a
thread has as many spare blocks as there are turns of somebody else; `DescriptorsApart` says
so, of descriptors that are in use at the same time.

Fairness (`bench`): weak fairness of each thread's next step, threads being scheduled by the
operating system. The loop of the barrier is a stutter: that it ends is what `Ends` says,
and it ends because everybody else arrives. An aborted transaction is not run again, so
no fairness of the list is needed.

Fairness (`progress`): weak fairness of each thread's next step. Threads are scheduled
by the operating system and no step waits for another thread: `tryLock` does not
wait and no loop spins on a flag. The calls of the index library do spin; they
are atomic here, so that `Termination` does not speak of them.

Fairness (`rwlock`): weak fairness of the steps of a thread between its call of lock
and its unlock; a thread need not lock again. The sections under this lock in
`skiplist.cc` are a few loads and stores. Several writers that meet all step back
and try again, possibly forever, so that no property says that every writer gets in;
`Drained` says it of a writer that was alone when it looked. Three threads are what
two rivals and a third that comes in between need. Counters modulo 4 are the smallest that
hold three threads.

Fairness (`index_flat`): weak fairness of each thread. It is enough with one layer. With two
it is not: an insert that has marked a node in the upper layer and an erase that has
marked the insert's predecessor in the lower one can each make the other start
again, in turn, forever; only their timing ends it. `Returns` is therefore checked
for one layer only.

A real stop is allowed: when every thread has run its transactions, `Done`
stutters, as `main` joins the threads.

## Proofs

For every value of the constants that satisfies the assumptions of `TSkipList`
(keys above `MIN_VAL`, `Warm` ascending, `NoOwner` not a thread), for any number of
threads, every `Grain` and both values of `Reorder` (`TSkipListChainProofs` excepted):

- `TSkipListProofs`: every variable keeps its type (`TypeCorrect`) and no pointer
  leads outside the heap (`PointersCorrect`). `TypeOK` alone is not inductive: a step
  reads `heap` at a pointer taken from a node, the index, the read set, the write
  set, `indexTodo`, a lock list or a local, so `TypeInv` adds that all of these
  point to allocated nodes, and what a thread may count on inside
  `getValidatedValue` and `update` (`Control`: a node to work on, a call that goes
  on, stores to nodes of its write set).
- Of mutexes and versions, in the same module: `LocksHeld`, `WritesUnderLock` and `VersionsRise`
  (`LocksCorrect`, `WritesCorrect`, `VersionsCorrect`). `LocksHeld` becomes inductive
  with the stage of each thread (`Stage`): mutexes are held only inside `TXCommit`,
  and from validation to the last store all of the write set is locked. With that,
  only `Store` touches what is in a node, and it does so under its mutex. For the
  versions, `ClockInv` adds that no version is ahead of the clock and that a
  version still to be stored is newer than the one in place: it is when
  `addAndFetch` makes it, and the mutex keeps every other store away until it is
  stored.

- There too: `PrivateNodes` (`PrivateCorrect`). That nothing in the heap or the index leads
  to a new node is not enough, as a write-back may link, and an index update may insert,
  whatever the transaction has a pointer to. `PrivInv` therefore keeps the nodes that an open
  transaction has inserted out of everything that the others can `Reach`: their read sets,
  their write sets and the pointers in them, their index updates, their locals and the loads they
  still have to make. A step gives a thread only what it could reach, what the
  index has, or what a node that it can reach points to (`Apart`), and the node that
  `insert` allocates is new.

- `TSkipListChainProofs`, with `TSkipListChains`: `ChainSorted`, `CommittedSum`, `AbortOnlyOnConflict` and the
  refinement `Opaque` (`ChainSortedCorrect`, `CommittedSumCorrect`, `AbortsCorrect`, `OpaqueCorrect`) under the hypotheses `Coarse` and `LastKept`;
  `IndexAgrees` and `IndexSheds` (`IndexAgreesCorrect`, `IndexShedsCorrect`) without any hypothesis. See below.

- `AccessingNextProofs`: `Counted` and `Exclusion` (`CountedCorrect`,
  `ExclusionCorrect`) for any number of threads below the widths of the counters
  (`WidthAssumption`: 2^12 writers in the code). `Counted` is what a thread that
  looks at the word knows of the others: zero writers, nobody is past the check; one
  writer, it is itself. `Alone` strengthens `Exclusion` to writers that still wait for
  readers: two of them could not both have seen a count of one.

- `BenchProofs`: `TypeOK`, `DescriptorsApart` and `Totals` (`BenchTypes`, `DescriptorsApartCorrect`,
  `TotalsCorrect`) for any finite number of workers and any sizes that satisfy
  `BenchAssumption` and `BatchAssumption`: at least one worker, key and transaction, 1 to 255 operations. The invariant
  counts who has taken an arena and who has arrived (`Tickets`), so that two threads never
  have one ticket; knows which threads can still be where (`Control`: nobody is past the barrier
  before all have arrived, hence nobody sets the counters back once somebody counts);
  places each thread's arena by its ticket and what it has used of it by its turns
  (`Places`); and says that the counters are the turns that the workers have
  made (`Counts`).

- `SkipIndexProofs`: `TypeOK` (`IndexTypes`) and `MarksReturned` (`MarksCorrect`), for any number of
  threads, nodes and layers and any programs, given `ListAssumption` and `ProgramAssumption`.
  `IndexTypes` needs nothing else: it holds of the runs that go wrong, too, since a
  thread that follows an uninitialised pointer stops. `TypeOK` becomes inductive with
  `Sound`, what the locals of a thread mean at each point of its call. `MarksCorrect` is about
  executions in which `Fresh` and `Topped` always hold: nobody inserts a node that is linked or marked
  and no erase starts below its node's top layer (which
  the stale `top_layer` of `index_top` breaks). Both follow from what the callers owe; see below. Its invariant `MarkInv` says where the marks of a thread
  are: on the predecessors of its `Zone`, the layers that it has placed (`Has`), on the node it
  erases, which is none of these (`Owns`), and nowhere else (`Only`). `_sl_clr_flags`
  compares only layers one below the other, so that `Stacked` is needed as well: predecessors that are
  equal in two layers are equal in the next one. Only then is each mark taken away once, as
  the assertion behind the CAS says. What other threads do leaves all of it alone
  (`MarkOthers`), as they set marks only where there is none.

- `SkipIndexListProofs` and `SkipIndexAtomicProofs`: `StoresSucceed`, `NoNull`, `Towers` and `Atomic`
  (`StoresCorrect`, `NullNever`, `TowersStand`, `AtomicCorrect`), and their hypotheses `Fresh`, `Known` and
  `Topped` (`FreshCorrect`, `KnownCorrect`, `ToppedCorrect`, `IndexCorrect`). See below.

### The list when commits are whole

The theorems on the chain say which part of the design is right. `Coarse` (`Grain # "step"` and no
`Reorder`) leaves whole what happens between the first `tryLock` of a commit and its last unlock, while traversals
and loads of all threads interleave with it before and after; `LastKept` says that the list
starts with a key beyond those of all calls. The code ensures neither, which is why
these are hypotheses and not assumptions of the model, and none can go:
`lost_insert` breaks `CommittedSum` without `Coarse`, `lone_abort` breaks `AbortOnlyOnConflict` and `remove_last`
breaks `CommittedSum` without `LastKept`. The instance of `commits`
satisfies both. What the theorems add to this run is any number of threads, nodes, keys,
transactions and calls.

The invariant (`ChainHolds`) is far from `ChainSorted`. A transaction traverses a list that others
change, adds its own writes to what it sees, and finds out only in `validateReadSet` whether all of that
belongs together. `ListInv` is about the list as it is once the writes that have begun are over
(`NowNext`, `Chained`): it is sorted, its nodes are not deleted, its keys are what was committed, and
the index knows only nodes that are or were in it. `Snapshot(t, S, N)` is about an open transaction `t`: there
are the nodes `S` and the next pointers `N` of the list at the moment it began, kept by no variable
of the code or the model, such that

- `Chains`: `S` is sorted, and still is with the transaction's own writes (`View`, `ViewNext`);
- `Logged`: what it writes it has read or made, and `indexTodo` speaks of nothing else;
- `Agrees`: a node not written since `t` began is as `S` and `N` say, so that an old version or
  an unchanged `next` tells the truth about the snapshot, and a new version gives it away;
- `Told`: the calls that it has been told succeeded account for every key in which its view differs from the snapshot;
- `Answered`: `snap` has the keys of `S`, each answer is the one that these keys and the calls before it give, the
  view has the keys that the calls make of them, and for every key that a call was about the read
  set holds a node whose pointer leads across it (`Spanned`);
- `Reading`: in the middle of `getValidatedValue`, what it has loaded so far belongs to the snapshot or the
  version will give it away.

The list moves on while `t` works; `N` stays. The step that has to join the two is
`AddAndFetch`, after validation has found every node of the read set unwritten. Then the snapshot and
the list are two chains that differ from each other only in nodes that somebody else wrote, and from `t`'s view
only in nodes that `t` wrote (`Rivals`). No node is in both sets, since what is written was read and was
validated. `MergedSorted` shows that writing both gives a sorted chain again, and `OneAtAKey` that no key is
in it twice: two inserts of one key would have had the same predecessor, and both would have written it. This is
where an unlocked read of the neighbours is shown to be enough. `AbortsCorrect` uses the same invariant: a load that
leads to an abort has a version newer than the snapshot, hence a writer.

`OpaqueCorrect` shows that `TSkipList` implements `TxSet`. Until a transaction ends `Answered` has all
that is asked of it: a call that returns is a `Do`, answered from `snap`, and everything else, traversals, locking,
validation, write-back and the index, is a stutter, since neither `Committed` nor the open transactions
change with it (`CommittedSame`, `UnseenSteps`); where an exception is thrown it is an `Abort`. The step to justify is
`AddAndFetch`, which has to be a `Commit`: its answers must hold of the keys committed by then, not only of those
in `snap`, and what is committed must be what its calls make of them. For a key that was asked for, the node of the read
set whose pointer leads across it is unchanged, and two sorted chains that share that pointer agree on whether they
have the key (`SpannedAgree`, `FetchCovered`). So the answers hold again (`ExplainsAgree`), and by `OneAtAKey` the merged
list has of a key what the view has or what the list had (`FetchCommits`). This is also why `contains` has to
put the node it stopped at into the read set although it writes nothing.

### The index and the chain

`IndexAgreesCorrect` and `IndexShedsCorrect` are for the program as it is: every `Grain`, with `Reorder` or without it, lost inserts
and all. So nothing of `ChainInv` is there to lean on, and the list may be anything. What holds all the same is a matter of who
can get at a node and of what each commit still owes the index (`IndexInv`):

- `Leaked` are the nodes that are in no index, not deleted, and not a new node of any transaction: those of transactions that
  aborted. No thread can get at one of them (`Avoids`: its read set, write set, pointers, locals and loads to come), and no node outside
  leads to one. With `PrivateNodes` for the new nodes of open transactions, a walk from the head
  therefore meets only nodes that are deleted, in the index, or new nodes of a commit.
- `Entries`: an `indexTodo` has a remove just for the nodes that its transaction deletes, and for a node that it inserts and
  deletes the insert comes first (`Tidy`).
- `Owes`: once it has committed, a transaction removes from the index only what it has deleted or is about to, and a deletion of
  its own node stays owed as long as the insert does. So an update takes a node from the index only when that node is
  deleted (`IndexAgrees`), and a node that is deleted by the one who inserts it is always removed again (`IndexSheds`).

`IndexInv` changes with every action that moves a pointer, which is why most of its proof is about where a thread's
pointers come from (`StepAvoids`, shared with `PrivateCorrect`).

These proofs need induction over the numbers, to follow a chain from its head. It is had
without an operator parameter, for a set (`SetInduction`, from `WFMin` on a set of numbers), and `ChainIs`
says with it what the recursive function of `ChainOf` yields on sorted pointers (`ChainAvoids` does it for a chain that keeps out of a set). The
parts of `ChainInv` quantify over chains and
are too large for TLC, which sees their consequences in `commits`.

### The lists of the index library

`StoresCorrect`, `NullNever`, `TowersStand` and `AtomicCorrect` are for any number of threads, nodes and layers, any keys with any
ties, and any programs that insert a node once. Like `MarksCorrect` they are about executions in which
`Fresh` and `Topped` always hold, and besides them `Known`: an erase that begins its descent knows the height of its node. It
reads the height before it has the node's mark, and an insert of the same node that comes in between makes it
stale. These three in turn are proved from what the callers owe the library (below), so that `IndexCorrect` supposes nothing of what happens
inside it.

An insert looks for its place from the top layer down, marks the predecessor in each layer, and looks
again; only when it has all of them does it store, from the bottom up. In between others insert and erase around it, and
towers are half linked. The invariant (`ListInv`) says what the lists of the layers are at every moment. It has
two parameters that no variable keeps, the nodes `B` that have been in the list so far and an order `g`
of the nodes of one key, where each insert comes before those that are there:

- `Lists`: the members of a layer are its two ends, the nodes that are fully linked and reach up to it, and the nodes that a
  thread has stored there already, or not yet taken out (`Half`); each points to the next member in the order `Bef`.
- `Standing`, `Looking`, `Seeking`: a search stands at a node that was in the layer at some time and comes before its place. It
  need not be there any more: its next pointer still leads forward, and a retry does the rest.
- `Settles`: in the layers that are placed, marked and looked at again, the predecessor points to where it pointed then. This is
  what the marks are for (`Protected`): whatever comes after a marked member is linked, or in the hands of the
  thread with the mark, so that no one else stores a pointer there or takes away either neighbour.
- `Making`, `Erasing`, `Alone`, `Pending`: the node in hand is the thread's own; nobody has met a node that is still to be inserted.

Every store then replaces one link of one sorted list (`StoreLinks`, `StoreUnlinks`), and finds it as it left it. That members
and only members can be reached (`MembersReached`, `ReachedMembers`) follows from the lists being sorted and
`B` finite. `Bef` only ever grows (`OrderKept`), which is why it needs `g`: with equal keys, where a search stands and where its
place is would otherwise not be comparable later on.

For `Atomic` two facts come on top (`AtomInv`). `Gone`: a node that is marked as removed has an eraser that has it
in hand, or it is out of the list and no insert is going to link it; an erase that is refused because of the removed mark
therefore leaves the node to one that is under way, or comes too late. And `Watch`, of an open find: the node it stands at was in the set during the
call, and in the bottom layer no node that was there throughout lies between it and the node that it looks at. The way past a node that is
not linked keeps this, since such a node was not there throughout, and what follows it in the order is not jumped
over. `StepTells` has one case for every action: `Publish` and `Unlink` are the moments of insert and erase; an
erase that finds its node unlinked or removed has its moment there, and `Answer` is a find's; all else is a stutter.

### What the callers of the index library owe

`InTurn`: no thread erases a node that another one is inserting, or still has to insert. `Owners` is a condition on the programs alone that
is enough for it (`OwnersTakeTurns`): what a thread inserts is erased by that thread, if at all. `TSkipList` does not
see to either: a commit may erase a node that it has met in the list while the insert of that node
into the index is under way, and `index_meet` shows what happens then: `Known` is false, and `Towers` with it.

- `FreshCorrect`, `KnownCorrect` need `InTurn` and `Topped`. The invariant `TurnInv` adds to `ListInv` that
  an erase knows its node's height all along (`Knows`) and that only its own thread may have marked a node still to be inserted
  (`Unmarked`).
- `ToppedCorrect` needs `InTurn` and `Steady`: what is inserted and erased again is no higher than some node
  that is there from the beginning and stays. The library does not see to this either: heights are drawn at random, and in
  `index_top`, where the highest node comes and goes (`Grow`), an erase does start too low and a store fails. The
  invariant `LevelInv` says that the counters of the layers are exact but for the calls on their way
  to them (`Tally`, over the nodes that are `Tallied`), that what the program never erases stays
  (`Lasts`), and that neither `top_layer` nor a scan on its way to write it goes below a node that is counted from the
  beginning (`Lasting`). Several calls may scan and write at once, each by counters that are stale by then; what
  they can agree on is only that a layer with a lasting node never counts zero.
- `IndexCorrect` puts it together: from `Steady` and `InTurn` alone follow `Atomic`, `StoresSucceed`, `NoNull`, `Towers` and `MarksReturned`.

Each hypothesis has its counterexample. All instances but `Grow` and `Meet` satisfy both conditions; `Grow` satisfies `Owners` only and goes wrong in
`index_top`, `Meet` satisfies `Steady` only and goes wrong in `index_meet`. TLC evaluates this (`CallersAssumption` in `MCSkipIndex`).

### What the proofs leave

In all of these modules but `AccessingNextProofs` each action has a lemma of its own; lemmas on `Visit`, `Throw`, `Return` and on a
step that changes one node carry what several actions share.

Only model-checked: of `SkipIndex` `RefsBalanced`, whose counts are modulo 2^16 of how many threads hold a node; `DescriptorsSerial` (it folds over the operations of a descriptor, which needs induction over
data), and `Termination`, `Drained`, `Returns` and `Ends`, which need fairness and are out of the
prover's reach.

## Not modelled

- `Mutex::lock` and `SafeLock`: no caller. The calls of the index library without a caller:
  `num_entries`, `next`, `prev`, `begin`, `end`, `grab`, `release`, `wait_for_free` and the
  modes of find other than a smaller node.
- What comes after an insert and an erase of one node at once in `SkipIndex`: `index_meet` stops at the broken
  tower, and all else about `SkipIndex` is stated for programs without it.
- Weak memory in the index library: its atomics are `memory_order_relaxed` and its compare-and-swaps weak (`skiplist.cc:69-74`,
  `95-101`). `SkipIndex` and `AccessingNext` take them in program order and let no compare-and-swap fail that finds what it expects, as on
  x86 with a compiler that keeps the order; on other machines stores may be seen out of order, and a spurious failure would trip the
  code's own assertions behind the stores. (`Reorder` in `TSkipList` is about the plain accesses of the list's nodes only.)
- What `transskip.cc` still holds of the lock-free list that it was made from: `helpStack` is
  empty whenever it is read, the status of a descriptor is only ever LIVE where it is
  read, no `NodeDesc` is allocated, and `FinishPendingTxn`, `IsKeyExist` and the marking of
  pointers have no caller. `g_count_fake_abort` is counted in a branch that is never taken.
- Fraser's library (`bench/common/fraser/`): third-party, initialised and never used.
- The rest of the drivers: how `chooseOps` and `Tester` draw operations and keys (any of a set, in the
  models), `warmUp` (the list starts warm), clocks, timers and output.
- The 32-bit wrap of the clock, a descriptor of 256 operations, a benchmark of no workers: excluded by
  assumption or by the width of the naturals, and recorded as hazards where they are.
- Memory: nothing is freed, so there is no reclamation to check.
- The Java driver, the scripts, build files, googletest and the tests themselves, whose assertions
  are where some of the findings come from.
