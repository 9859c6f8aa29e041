----------------------------- MODULE TSkipList -----------------------------
(***************************************************************************)
(* The transactional skip list of src/tskiplist: a sorted chain of         *)
(* versioned nodes, a global version clock, an index that finds where in   *)
(* the chain to start, and transactions that read the chain through a      *)
(* write set and take effect in TXCommit (lock the write set, validate     *)
(* the read set, advance the clock, write back, unlock, update the index). *)
(*                                                                         *)
(* A step is one access to memory that other threads can touch, with the   *)
(* thread-local work around it.  The concurrent index library is one       *)
(* atomic step per call.  The fields of a node are plain, so the loads of  *)
(* getValidatedValue and the stores of WriteSet::update race; they are     *)
(* taken in program order, or in any order when Reorder is TRUE.           *)
(***************************************************************************)
EXTENDS Integers, Sequences, FiniteSets

CONSTANTS Threads,   \* the worker threads, each with one transaction at a time
          NoOwner,   \* the owner of a free mutex
          Keys,      \* the keys that transactions use
          MIN_VAL,   \* the key of the head node
          Warm,      \* the keys that one earlier transaction inserted, ascending
          Programs,  \* the sequences of calls a transaction may make
          MaxTx,     \* bound: the transactions that each thread runs
          MaxCalls,  \* bound: the calls that these make together
          MaxNodes,  \* bound: the nodes that are ever allocated
          Grain,     \* what the scheduler leaves whole: a "commit" or a "step"
          Reorder    \* whether racing loads and stores may leave program order

OpTypes == {"insert", "remove", "contains"}
Calls == [op : OpTypes, key : Keys]
Nodes == 1..MaxNodes
NULL == 0
HeadNode == 1
Ref == Nodes \cup {NULL}
Fields == {"next", "deleted", "version"}

ASSUME KeysAssumption == Keys \subseteq Int /\ MIN_VAL \in Int /\ \A k \in Keys : MIN_VAL < k
ASSUME ThreadsAssumption == NoOwner \notin Threads
ASSUME WarmAssumption == /\ Warm \in Seq(Keys)
                         /\ \A i, j \in DOMAIN Warm : i < j => Warm[i] < Warm[j]
ASSUME ProgramsAssumption == Programs \subseteq Seq(Calls)
ASSUME BoundsAssumption == /\ MaxTx \in Nat /\ MaxCalls \in Nat /\ MaxNodes \in Nat
                           /\ Len(Warm) < MaxNodes
ASSUME GrainAssumption == Grain \in {"commit", "step"} /\ Reorder \in BOOLEAN

VARIABLES
  gvc,    \* GVC::version
  heap,   \* the nodes allocated so far; HeadNode is Index::head
  index,  \* the nodes linked in the index
  left,   \* per thread: the transactions it has yet to run, and the calls they may have
  pc,     \* per thread: where it is
  ret,    \* per thread: what follows the getValidatedValue it is in
  prog,   \* per thread: the calls its transaction has yet to finish
  tx,     \* per thread: its SkipListTransaction
  reg,    \* per thread: the locals of traverseTo and getValidatedValue
  todo,   \* per thread: the loads or stores of node fields still to make
  pos,    \* per thread: how far validateReadSet is
  locks,  \* per thread: its SafeLockList
  \* history: the answers of each open transaction, the committed keys when it
  \* began, and per key the committed inserts less the committed removes
  trace, snap, net

vars == <<gvc, heap, index, left, pc, ret, prog, tx, reg, todo, pos, locks, trace, snap, net>>
shared == <<gvc, heap, index>>
history == <<trace, snap, net>>

Operation == [next : Ref, deleted : BOOLEAN]
Node == [key : Int, next : Ref, deleted : BOOLEAN, version : Nat,
         owner : Threads \cup {NoOwner}, locked : BOOLEAN]
IndexOperation == [node : Nodes, op : OpTypes]
Answers == [op : OpTypes, key : Keys, ok : BOOLEAN]
PCs == {"idle", "ready", "load", "lock", "publish", "abort"}
Rets == {"none", "start", "walk", "unlink", "validate"}

NoTx == [readVersion |-> 0, writeVersion |-> 0, readSet |-> <<>>,
         writeSet |-> [n \in {} |-> NULL], indexTodo |-> <<>>]
NoReg == [node |-> NULL, next |-> NULL, deleted |-> FALSE, pred |-> NULL]

Allocated == DOMAIN heap
Elems(s) == {s[i] : i \in DOMAIN s}

-----------------------------------------------------------------------------
\* The chain, as Index::sum and Index::size walk it.

\* The nodes after the head when nx gives each node's next pointer.
ChainOf(nx) ==
    LET nth[i \in 0..Len(heap)] ==
          IF i = 0 THEN HeadNode
          ELSE LET p == nth[i - 1] IN IF p = NULL THEN NULL ELSE nx[p]
    IN Allocated \cap {nth[i] : i \in 1..Len(heap)}

Chain == ChainOf([n \in Allocated |-> heap[n].next])

\* The next pointer of n once the transactions past addAndFetch have written back.
NextToBe(n) ==
    LET writers == {t \in Threads : pc[t] = "publish" /\ <<n, "next">> \in todo[t]}
    IN IF writers = {} THEN heap[n].next
       ELSE tx[CHOOSE t \in writers : TRUE].writeSet[n].next

\* The committed keys.
Committed == {heap[n].key : n \in ChainOf([n \in Allocated |-> NextToBe(n)])}

-----------------------------------------------------------------------------
\* Mutant: an item that is there already is left alone.
AddItemOnce(ws, n, nx, del) ==
    [m \in DOMAIN ws \cup {n} |-> IF m \in DOMAIN ws THEN ws[m] ELSE [next |-> nx, deleted |-> del]]

\* WriteSet::addItem; a NULL next and a FALSE deleted leave the item as it was.
AddItem(ws, n, nx, del) ==
    [m \in DOMAIN ws \cup {n} |->
        IF m # n THEN ws[m]
        ELSE IF n \notin DOMAIN ws THEN [next |-> nx, deleted |-> del]
        ELSE [next |-> IF nx # NULL THEN nx ELSE ws[n].next,
              deleted |-> ws[n].deleted \/ del]]

\* Index::getPrev: a node of the index with the largest key below k.
GetPrev(k) == {n \in index : /\ heap[n].key < k
                             /\ \A m \in index : heap[m].key < k => heap[m].key <= heap[n].key}

\* The accesses of set S that may come next, when fields are accessed in the given order.
Due(S, order) ==
    {a \in S : Reorder \/ \A b \in S : b[1] = a[1] => order[a[2]] <= order[b[2]]}
LoadOrder == [next |-> 1, deleted |-> 2, version |-> 3]
StoreOrder == [deleted |-> 1, next |-> 2, version |-> 3]

\* Mutant: a version equal to the transaction's counts as newer.
TooNewOrEqual(t, n) == heap[n].version >= tx[t].readVersion

TooNew(t, n) == heap[n].version > tx[t].readVersion

\* Entering getValidatedValue(n): what WriteSet::getValue answers needs no load.
Visit(t, n, wantDeleted, after, pred) ==
    LET ws == tx[t].writeSet
        item == IF n \in DOMAIN ws THEN ws[n] ELSE [next |-> NULL, deleted |-> FALSE]
    IN /\ pc' = [pc EXCEPT ![t] = "load"]
       /\ ret' = [ret EXCEPT ![t] = after]
       /\ reg' = [reg EXCEPT ![t] = [node |-> n, next |-> item.next, pred |-> pred,
                                     deleted |-> wantDeleted /\ item.deleted]]
       /\ todo' = [todo EXCEPT ![t] =
             {<<n, "version">>}
             \cup (IF item.next = NULL THEN {<<n, "next">>} ELSE {})
             \cup (IF wantDeleted /\ n \notin DOMAIN ws THEN {<<n, "deleted">>} ELSE {})]

\* throw AbortTransactionException: SafeLockList unwinds, nothing else happens.
Throw(t) == /\ pc' = [pc EXCEPT ![t] = "abort"]
            /\ ret' = [ret EXCEPT ![t] = "none"]
            /\ reg' = [reg EXCEPT ![t] = NoReg]
            /\ todo' = [todo EXCEPT ![t] = {}]
            /\ trace' = [trace EXCEPT ![t] = <<>>]
            /\ snap' = [snap EXCEPT ![t] = {}]
            /\ UNCHANGED net

\* getValidatedValue has returned to the caller named by c.
Loaded(t, c) == pc[t] = "load" /\ todo[t] = {} /\ ret[t] = c

-----------------------------------------------------------------------------
\* Mutant: one transaction too many.
HasLeftOrNone(t, p) == left[t].txs >= 0 /\ Len(p) <= left[t].calls

HasLeft(t, p) == left[t].txs > 0 /\ Len(p) <= left[t].calls

TXBegin(t) ==
    /\ pc[t] = "idle"
    /\ \E p \in Programs :
         /\ HasLeft(t, p)
         /\ prog' = [prog EXCEPT ![t] = p]
         /\ left' = [left EXCEPT ![t] = [txs |-> @.txs - 1, calls |-> @.calls - Len(p)]]
    /\ pc' = [pc EXCEPT ![t] = "ready"]
    /\ tx' = [tx EXCEPT ![t].readVersion = gvc]
    /\ snap' = [snap EXCEPT ![t] = Committed]
    /\ UNCHANGED <<shared, ret, reg, todo, pos, locks, trace, net>>

\* One load of getValidatedValue.  The version may make it throw, and so may the lock
\* flag, which the code reads before the first load and after the last one.
Load(t) ==
    /\ pc[t] = "load"
    /\ \E a \in Due(todo[t], LoadOrder) :
         LET n == a[1]  f == a[2]
         IN IF heap[n].locked \/ (f = "version" /\ TooNew(t, n))
            THEN Throw(t)
            ELSE /\ todo' = [todo EXCEPT ![t] = @ \ {a}]
                 /\ reg' = [reg EXCEPT ![t].next = IF f = "next" THEN heap[n].next ELSE @,
                                       ![t].deleted = IF f = "deleted" THEN heap[n].deleted ELSE @]
                 /\ UNCHANGED <<pc, ret, history>>
    /\ UNCHANGED <<shared, left, prog, tx, pos, locks>>

\* traverseTo asks the index for a start node.
Seek(t) ==
    /\ pc[t] = "ready" /\ prog[t] # <<>>
    /\ \E n \in GetPrev(prog[t][1].key) : Visit(t, n, TRUE, "start", NULL)
    /\ UNCHANGED <<shared, left, prog, tx, pos, locks, history>>

\* Mutant: a deleted start node will do.
UnusableIfLocked(t) == heap[reg[t].node].locked

\* The start node is unusable, and traverseTo asks for one before it.
Unusable(t) == heap[reg[t].node].locked \/ reg[t].deleted

Restart(t) ==
    /\ Loaded(t, "start") /\ Unusable(t)
    /\ \E n \in GetPrev(heap[reg[t].node].key) : Visit(t, n, TRUE, "start", NULL)
    /\ UNCHANGED <<shared, left, prog, tx, pos, locks, history>>

\* The second loop of traverseTo goes on while succ is before k or pred is deleted.
InWalk(t) == Loaded(t, "walk") \/ (Loaded(t, "start") /\ ~Unusable(t))

More(t) == /\ reg[t].next # NULL
           /\ heap[reg[t].next].key < prog[t][1].key \/ reg[t].deleted

Walk(t) ==
    /\ InWalk(t) /\ More(t)
    /\ Visit(t, reg[t].next, TRUE, "walk", NULL)
    /\ UNCHANGED <<shared, left, prog, tx, pos, locks, history>>

\* traverseTo has returned pred in reg.node and succ in reg.next.
Arrived(t, op) == InWalk(t) /\ ~More(t) /\ prog[t][1].op = op
Succ(t) == reg[t].next
Present(t) == Succ(t) # NULL /\ heap[Succ(t)].key = prog[t][1].key

\* traverseTo ends by recording pred in the read set.
Read(t) == Append(tx[t].readSet, reg[t].node)

\* The call returns ok.
Return(t, ok) ==
    /\ trace' = [trace EXCEPT ![t] = Append(@, [op |-> prog[t][1].op,
                                               key |-> prog[t][1].key, ok |-> ok])]
    /\ prog' = [prog EXCEPT ![t] = Tail(@)]
    /\ pc' = [pc EXCEPT ![t] = "ready"]
    /\ ret' = [ret EXCEPT ![t] = "none"]
    /\ reg' = [reg EXCEPT ![t] = NoReg]
    /\ UNCHANGED <<left, todo, pos, locks, snap, net>>

Contains(t) ==
    /\ Arrived(t, "contains")
    /\ tx' = [tx EXCEPT ![t].readSet = Read(t)]
    /\ Return(t, Present(t))
    /\ UNCHANGED shared

NewNode(t) == [key |-> prog[t][1].key, next |-> Succ(t), deleted |-> FALSE,
               version |-> tx[t].readVersion, owner |-> NoOwner, locked |-> FALSE]

\* Mutant: insert links the new node into the chain at once.
AllocateLinked(t) == Append([heap EXCEPT ![reg[t].node].next = Len(heap) + 1], NewNode(t))

Allocate(t) == Append(heap, NewNode(t))

Insert(t) ==
    /\ Arrived(t, "insert") /\ ~Present(t)
    /\ Len(heap) < MaxNodes
    /\ LET new == Len(heap) + 1
       IN /\ heap' = Allocate(t)
          /\ tx' = [tx EXCEPT
               ![t].readSet = Read(t),
               ![t].writeSet = AddItem(AddItem(@, reg[t].node, new, FALSE), new, NULL, FALSE),
               ![t].indexTodo = Append(@, [node |-> new, op |-> "insert"])]
    /\ Return(t, TRUE)
    /\ UNCHANGED <<gvc, index>>

\* insert of a key that is there and remove of one that is not return false.
Refuse(t) ==
    /\ (Arrived(t, "insert") /\ Present(t)) \/ (Arrived(t, "remove") /\ ~Present(t))
    /\ tx' = [tx EXCEPT ![t].readSet = Read(t)]
    /\ Return(t, FALSE)
    /\ UNCHANGED shared

\* remove reads on what follows the node it removes, ...
Remove(t) ==
    /\ Arrived(t, "remove") /\ Present(t)
    /\ tx' = [tx EXCEPT ![t].readSet = Append(Read(t), Succ(t))]
    /\ Visit(t, Succ(t), FALSE, "unlink", reg[t].node)
    /\ UNCHANGED <<shared, left, prog, pos, locks, history>>

\* ... and has its predecessor skip it.
Unlink(t) ==
    /\ Loaded(t, "unlink")
    /\ tx' = [tx EXCEPT
         ![t].writeSet = AddItem(AddItem(@, reg[t].pred, reg[t].next, FALSE),
                                 reg[t].node, NULL, TRUE),
         ![t].indexTodo = Append(@, [node |-> reg[t].node, op |-> "remove"])]
    /\ Return(t, TRUE)
    /\ UNCHANGED shared

-----------------------------------------------------------------------------
TXCommit(t) ==
    /\ pc[t] = "ready" /\ prog[t] = <<>>
    /\ pc' = [pc EXCEPT ![t] = "lock"]
    /\ UNCHANGED <<shared, left, ret, prog, tx, reg, todo, pos, locks, history>>

Items(t) == DOMAIN tx[t].writeSet

\* Mutant: the answer of try_lock is ignored.
FreeOrNot(n) == TRUE

Free(n) == heap[n].owner = NoOwner

Lock(t, n) == /\ heap' = [heap EXCEPT ![n].owner = t]
              /\ locks' = [locks EXCEPT ![t] = Append(@, n)]
              /\ UNCHANGED <<pc, ret, reg, todo, history>>

\* Mutant: lock, which waits for a mutex, in the place of tryLock.
WaitLock(t) ==
    /\ pc[t] = "lock"
    /\ \E n \in Items(t) \ Elems(locks[t]) : Free(n) /\ Lock(t, n)
    /\ UNCHANGED <<gvc, index, left, prog, tx, pos>>

\* WriteSet::tryLock takes the mutexes in the order of a hash table.
\* Mutex::tryLock leaves the flag that isLocked reads as it was.
TryLock(t) ==
    /\ pc[t] = "lock"
    /\ \E n \in Items(t) \ Elems(locks[t]) :
         IF Free(n)
         THEN Lock(t, n)
         ELSE Throw(t) /\ UNCHANGED <<heap, locks>>
    /\ UNCHANGED <<gvc, index, left, prog, tx, pos>>

\* The write set is locked and the first pos nodes of the read set are validated.
Validating(t) == \/ pc[t] = "lock" /\ Items(t) \subseteq Elems(locks[t])
                 \/ Loaded(t, "validate") /\ reg[t].next # NULL

\* Mutant: the last node of the read set is not validated.
ValidatedButOne(t) == pos[t] >= Len(tx[t].readSet) - 1

Validated(t) == pos[t] = Len(tx[t].readSet)

Validate(t) ==
    /\ Validating(t) /\ pos[t] < Len(tx[t].readSet)
    /\ pos' = [pos EXCEPT ![t] = @ + 1]
    /\ Visit(t, tx[t].readSet[pos[t] + 1], FALSE, "validate", NULL)
    /\ UNCHANGED <<shared, left, prog, tx, locks, history>>

\* validateReadSet takes a NULL next for a failed validation.
Invalid(t) ==
    /\ Loaded(t, "validate") /\ reg[t].next = NULL
    /\ Throw(t)
    /\ UNCHANGED <<shared, left, prog, tx, pos, locks>>

\* The stores that WriteSet::update makes.
Stores(ws) == {<<n, "version">> : n \in DOMAIN ws}
              \cup {<<n, "next">> : n \in {m \in DOMAIN ws : ws[m].next # NULL}}
              \cup {<<n, "deleted">> : n \in {m \in DOMAIN ws : ws[m].deleted}}

Times(tr, op, k) == Cardinality({i \in DOMAIN tr : tr[i] = [op |-> op, key |-> k, ok |-> TRUE]})

AddAndFetch(t) ==
    /\ Validating(t) /\ Validated(t)
    /\ gvc' = gvc + 1
    /\ tx' = [tx EXCEPT ![t].writeVersion = gvc + 1]
    /\ pc' = [pc EXCEPT ![t] = "publish"]
    /\ ret' = [ret EXCEPT ![t] = "none"]
    /\ reg' = [reg EXCEPT ![t] = NoReg]
    /\ todo' = [todo EXCEPT ![t] = Stores(tx[t].writeSet)]
    /\ net' = [k \in Keys |-> net[k] + Times(trace[t], "insert", k) - Times(trace[t], "remove", k)]
    /\ trace' = [trace EXCEPT ![t] = <<>>]
    /\ snap' = [snap EXCEPT ![t] = {}]
    /\ UNCHANGED <<heap, index, left, prog, pos, locks>>

\* One store of WriteSet::update, which finishes with a node before it takes the next.
Store(t) ==
    /\ pc[t] = "publish"
    /\ \E a \in Due(todo[t], StoreOrder) :
         LET n == a[1]  f == a[2]  item == tx[t].writeSet[n]
         IN /\ Reorder \/ reg[t].node \in {NULL, n}
            /\ heap' = [heap EXCEPT
                 ![n].deleted = IF f = "deleted" THEN TRUE ELSE @,
                 ![n].next = IF f = "next" THEN item.next ELSE @,
                 ![n].version = IF f = "version" THEN tx[t].writeVersion ELSE @]
            /\ todo' = [todo EXCEPT ![t] = @ \ {a}]
            /\ reg' = [reg EXCEPT ![t].node = IF f = "version" THEN NULL ELSE n]
    /\ UNCHANGED <<gvc, index, left, pc, ret, prog, tx, pos, locks, history>>

\* Mutant: the mutexes are released before the write-back.
WrittenOrNot(t) == pc[t] = "publish"

Written(t) == pc[t] = "publish" /\ todo[t] = {}

\* ~SafeLockList, after the write-back or while an exception unwinds.
Unlock(t) ==
    /\ pc[t] = "abort" \/ Written(t)
    /\ locks[t] # <<>>
    /\ LET last == Len(locks[t])
       IN /\ heap' = [heap EXCEPT ![locks[t][last]].owner = NoOwner,
                                  ![locks[t][last]].locked = FALSE]
          /\ locks' = [locks EXCEPT ![t] = SubSeq(@, 1, last - 1)]
    /\ UNCHANGED <<gvc, index, left, pc, ret, prog, tx, reg, todo, pos, history>>

\* Mutant: an exception leaves the mutexes locked.
UnlockedOrThrown(t) == locks[t] = <<>> \/ pc[t] = "abort"

Unlocked(t) == locks[t] = <<>>

\* Mutant: removed nodes stay in the index.
IndexKeeps(e) == index \cup {e.node}

IndexAfter(e) == IF e.op = "remove" THEN index \ {e.node} ELSE index \cup {e.node}

\* One entry of Index::update; erasing a node that is not linked does nothing.
UpdateIndex(t) ==
    /\ Written(t) /\ Unlocked(t)
    /\ tx[t].indexTodo # <<>>
    /\ index' = IndexAfter(tx[t].indexTodo[1])
    /\ tx' = [tx EXCEPT ![t].indexTodo = Tail(@)]
    /\ UNCHANGED <<gvc, heap, left, pc, ret, prog, reg, todo, pos, locks, history>>

\* The SkipListTransaction goes out of scope.
Finish(t) ==
    /\ Unlocked(t)
    /\ pc[t] = "abort" \/ (Written(t) /\ tx[t].indexTodo = <<>>)
    /\ pc' = [pc EXCEPT ![t] = "idle"]
    /\ prog' = [prog EXCEPT ![t] = <<>>]
    /\ tx' = [tx EXCEPT ![t] = NoTx]
    /\ reg' = [reg EXCEPT ![t] = NoReg]
    /\ pos' = [pos EXCEPT ![t] = 0]
    /\ UNCHANGED <<shared, left, ret, todo, locks, history>>

-----------------------------------------------------------------------------
Init ==
    LET size == Len(Warm) + 1
        clock == IF Warm = <<>> THEN 0 ELSE 1
    IN /\ gvc = clock
       /\ heap = [n \in 1..size |->
                    [key |-> IF n = HeadNode THEN MIN_VAL ELSE Warm[n - 1],
                     next |-> IF n = size THEN NULL ELSE n + 1,
                     deleted |-> FALSE, version |-> clock,
                     owner |-> NoOwner, locked |-> FALSE]]
       /\ index = 1..size
       /\ left = [t \in Threads |-> [txs |-> MaxTx, calls |-> MaxCalls]]
       /\ pc = [t \in Threads |-> "idle"]
       /\ ret = [t \in Threads |-> "none"]
       /\ prog = [t \in Threads |-> <<>>]
       /\ tx = [t \in Threads |-> NoTx]
       /\ reg = [t \in Threads |-> NoReg]
       /\ todo = [t \in Threads |-> {}]
       /\ pos = [t \in Threads |-> 0]
       /\ locks = [t \in Threads |-> <<>>]
       /\ trace = [t \in Threads |-> <<>>]
       /\ snap = [t \in Threads |-> {}]
       /\ net = [k \in Keys |-> 0]

\* From tryLock to the last unlock, TXCommit of t is under way.
Committing(t) == \/ pc[t] = "lock"
                 \/ pc[t] = "load" /\ ret[t] = "validate"
                 \/ pc[t] = "publish" /\ todo[t] # {}
                 \/ locks[t] # <<>>

\* The scheduler may run t: with a coarse Grain, no other thread is in the part it leaves whole.
Scheduled(t) == Grain = "commit" => \A u \in Threads \ {t} : ~Committing(u)

Step(t) == \/ TXBegin(t) \/ Seek(t) \/ Load(t) \/ Restart(t) \/ Walk(t)
           \/ Contains(t) \/ Insert(t) \/ Refuse(t) \/ Remove(t) \/ Unlink(t)
           \/ TXCommit(t) \/ TryLock(t) \/ Validate(t) \/ Invalid(t) \/ AddAndFetch(t)
           \/ Store(t) \/ Unlock(t) \/ UpdateIndex(t) \/ Finish(t)

\* Every thread has run its transactions: the program ends.
Done == /\ \A t \in Threads : pc[t] = "idle" /\ \A p \in Programs : ~HasLeft(t, p)
        /\ UNCHANGED vars

Next == (\E t \in Threads : Scheduled(t) /\ Step(t)) \/ Done

Spec == Init /\ [][Next]_vars

\* A thread that can take a step takes one: no thread waits for a mutex.
FairSpec == Spec /\ \A t \in Threads : WF_vars(Scheduled(t) /\ Step(t))

-----------------------------------------------------------------------------
Transaction(items) == [readVersion : Nat, writeVersion : Nat, readSet : Seq(Nodes),
                       writeSet : [items -> Operation], indexTodo : Seq(IndexOperation)]
Registers == [node : Ref, next : Ref, deleted : BOOLEAN, pred : Ref]

\* Every variable has its type, and no pointer of the index leads outside the heap.
TypeOK == /\ gvc \in Nat
          /\ heap \in Seq(Node) /\ Len(heap) \in 1..MaxNodes
          /\ index \subseteq Allocated
          /\ left \in [Threads -> [txs : 0..MaxTx, calls : 0..MaxCalls]]
          /\ pc \in [Threads -> PCs]
          /\ ret \in [Threads -> Rets]
          /\ prog \in [Threads -> Seq(Calls)]
          /\ tx = [t \in Threads |-> tx[t]]
          /\ \A t \in Threads : Items(t) \subseteq Nodes /\ tx[t] \in Transaction(Items(t))
          /\ reg \in [Threads -> Registers]
          /\ todo \in [Threads -> SUBSET (Nodes \X Fields)]
          /\ pos \in [Threads -> Nat]
          /\ locks \in [Threads -> Seq(Nodes)]
          /\ trace \in [Threads -> Seq(Answers)]
          /\ snap \in [Threads -> SUBSET Int]
          /\ net \in [Keys -> Int]

\* A thread owns a mutex exactly when its SafeLockList will unlock it, it locks
\* no mutex twice, and it holds none when its call of the API is over: whatever
\* way TXCommit ends, by a failed tryLock, a failed validation or a commit.
LocksHeld ==
    /\ \A t \in Threads :
         /\ \A i \in DOMAIN locks[t] : heap[locks[t][i]].owner = t
         /\ \A i, j \in DOMAIN locks[t] : i # j => locks[t][i] # locks[t][j]
         /\ pc[t] \in {"idle", "ready"} => locks[t] = <<>>
    /\ \A n \in Allocated : heap[n].owner # NoOwner => n \in Elems(locks[heap[n].owner])

\* The version of a node never falls, though several transactions may have an
\* older writeVersion in hand than the one a node already carries.
VersionsRise == [][\A n \in Allocated : heap'[n].version >= heap[n].version]_vars

\* A node changes only while a committing transaction holds its mutex and has it
\* in its write set, however the commits of several threads interleave.
WritesUnderLock ==
    [][\A n \in Allocated :
         \/ /\ heap'[n].next = heap[n].next
            /\ heap'[n].deleted = heap[n].deleted
            /\ heap'[n].version = heap[n].version
         \/ \E t \in Threads : pc[t] = "publish" /\ heap[n].owner = t /\ n \in Items(t)]_vars

\* The nodes that t has yet to insert into the index, or to remove from it.
Entry(t, o) == {e.node : e \in {i \in Elems(tx[t].indexTodo) : i.op = o}}

\* The nodes that the open transaction of t has inserted.
Fresh(t) == Entry(t, "insert")

\* Until its transaction commits, a new node is out of reach of the other
\* threads: no node of theirs, no index entry and no local of theirs leads to it.
PrivateNodes ==
    \A t \in Threads : pc[t] # "publish" =>
      \A n \in Fresh(t) :
        /\ n \notin index
        /\ \A m \in Allocated \ Fresh(t) : heap[m].next # n
        /\ \A u \in Threads \ {t} :
             n \notin Items(u) \cup Elems(tx[u].readSet)
                      \cup {reg[u].node, reg[u].next, reg[u].pred}

\* No write-back is under way.
Quiet == \A t \in Threads : pc[t] = "publish" => todo[t] = {}

\* Between write-backs the chain that Index::sum walks holds every key as often
\* as the committed transactions say: no insert is lost, none is made twice, and
\* a removed key is gone (test.cpp asserts the sum after every commit and abort).
CommittedSum ==
    Quiet => \A k \in Keys :
      Cardinality({n \in Chain : heap[n].key = k})
        = (IF k \in Elems(Warm) THEN 1 ELSE 0) + net[k]

\* The chain is strictly ascending from the head, so a walk may stop at the first
\* key that is not below the one it looks for; it holds no deleted node.
ChainSorted ==
    Quiet => \A n \in Chain \cup {HeadNode} :
      /\ ~heap[n].deleted
      /\ heap[n].next # NULL => heap[n].key < heap[heap[n].next].key

\* A transaction that has committed has yet to tell the index of n.
Owed(n, o) == \E t \in Threads : pc[t] = "publish" /\ n \in Entry(t, o)

\* A node of the chain is deleted, or in the index, or a transaction that has committed
\* is about to insert it there: in every state, however commits and their updates of
\* the index interleave, no removal takes a node away that the chain still needs.
IndexAgrees ==
    \A n \in Chain \cup {HeadNode} : heap[n].deleted \/ n \in index \/ Owed(n, "insert")

\* A deleted node that is in the index and that no transaction is to remove from it.
Stale(n) == n \in index /\ heap[n].deleted /\ ~Owed(n, "remove")

\* The update of t is about to insert n, which a transaction other than t has deleted.
Late(t, n) == /\ Written(t) /\ Unlocked(t) /\ n \in Entry(t, "insert")
              /\ heap[n].deleted /\ ~tx[t].writeSet[n].deleted

\* Index::update is not ordered with the updates of other commits, and a deleted node may
\* stay in the index for good. There is one way to it only: another transaction than the
\* one that removed the node inserted it, and its update comes after the remover's.
IndexSheds ==
    [][\A n \in Allocated : Stale(n)' => Stale(n) \/ \E t \in Threads : Late(t, n)]_vars

\* A transaction aborts only for a conflict: another one has committed to, or holds
\* the mutex of, a node that this one has read or is about to write.
AbortOnlyOnConflict ==
    [][\A t \in Threads : (pc[t] # "abort" /\ pc'[t] = "abort") =>
         \E n \in Items(t) \cup Elems(tx[t].readSet) \cup ({reg[t].node} \ {NULL}) :
           \/ heap[n].version > tx[t].readVersion
           \/ heap[n].owner \notin {NoOwner, t}]_vars

\* A transaction that has begun comes to an end, commit or abort: no traversal
\* runs round in circles and no commit waits for another for ever.
Termination == \A t \in Threads : pc[t] # "idle" ~> pc[t] = "idle"
=============================================================================
