-------------------------- MODULE TSkipListProofs --------------------------
(***************************************************************************)
(* Proofs about the transactional skip list, for any threads, keys,        *)
(* programs and bounds, and for every Grain and Reorder: that no pointer   *)
(* leads outside the heap (TypeOK); about the mutexes and the versions of  *)
(* its nodes (LocksHeld, WritesUnderLock, VersionsRise); and about the     *)
(* nodes that open transactions have inserted, which nobody else can reach *)
(* until TXCommit publishes them (PrivateNodes).                           *)
(***************************************************************************)
EXTENDS TSkipList, TLAPS, SequenceTheorems, FiniteSetTheorems

-----------------------------------------------------------------------------
\* Pointers.

\* Every pointer that a node, the index or a thread holds leads to a node of the heap.
Pointer == Allocated \cup {NULL}

Pointers(t) ==
    /\ reg[t].node \in Pointer /\ reg[t].next \in Pointer /\ reg[t].pred \in Pointer
    /\ Items(t) \subseteq Allocated
    /\ \A n \in Items(t) : tx[t].writeSet[n].next \in Pointer
    /\ tx[t].readSet \in Seq(Allocated)
    /\ tx[t].indexTodo \in Seq([node : Allocated, op : OpTypes])
    /\ locks[t] \in Seq(Allocated)
    /\ todo[t] \subseteq Allocated \X Fields

\* What a thread inside getValidatedValue or writing back can rely on.
Control(t) ==
    /\ pc[t] = "load" => reg[t].node # NULL /\ ret[t] # "none"
    /\ pc[t] = "load" /\ ret[t] # "validate" => prog[t] # <<>>
    /\ pc[t] = "load" /\ ret[t] = "unlink" => reg[t].pred # NULL
    /\ pc[t] = "publish" => \A a \in todo[t] : a[1] \in Items(t)

TypeInv == /\ TypeOK
           /\ \A n \in Allocated : heap[n].next \in Pointer
           /\ \A t \in Threads : Pointers(t) /\ Control(t)

-----------------------------------------------------------------------------
\* The nodes allocated so far are the first Len(heap) of Nodes.
LEMMA HeapNodes ==
  ASSUME heap \in Seq(Node), Len(heap) \in 1..MaxNodes
  PROVE  Allocated = 1..Len(heap) /\ Allocated \subseteq Nodes /\ Len(heap) \in Nat
BY BoundsAssumption, LenProperties DEF Nodes, Allocated

\* Replacing one node of the heap leaves the others and the size as they were.
LEMMA HeapExcept ==
  ASSUME heap \in Seq(Node), NEW n \in Allocated, NEW e \in Node, heap' = [heap EXCEPT ![n] = e]
  PROVE  /\ heap' \in Seq(Node) /\ Allocated' = Allocated /\ Len(heap') = Len(heap)
         /\ \A m \in Allocated : heap'[m] = IF m = n THEN e ELSE heap[m]
<1>1. Allocated = 1..Len(heap)
  BY LenProperties DEF Allocated
<1>2. /\ heap' \in Seq(Node) /\ Len(heap') = Len(heap)
      /\ \A m \in 1..Len(heap) : heap'[m] = IF m = n THEN e ELSE heap[m]
  BY <1>1, ExceptSeq
<1>3. Allocated' = 1..Len(heap')
  BY <1>2, LenProperties DEF Allocated
<1> QED  BY <1>1, <1>2, <1>3

\* Nodes that the index proposes are allocated.
LEMMA GetPrevAllocated == ASSUME TypeInv, NEW k PROVE GetPrev(k) \subseteq Allocated
BY DEF TypeInv, TypeOK, GetPrev

\* The operations of thread t on its own state leave the other threads' as it was.
LEMMA OthersKeep ==
  ASSUME TypeInv, Allocated \subseteq Allocated', NEW u \in Threads,
         reg'[u] = reg[u], tx'[u] = tx[u], locks'[u] = locks[u], todo'[u] = todo[u],
         pc'[u] = pc[u], ret'[u] = ret[u], prog'[u] = prog[u]
  PROVE  Pointers(u)' /\ Control(u)'
<1> USE DEF TypeInv, Pointers, Control, Pointer, Items
<1>1. tx'[u].readSet \in Seq(Allocated')
  BY SeqMonotonic
<1>2. tx'[u].indexTodo \in Seq([node : Allocated', op : OpTypes])
  <2>1. [node : Allocated, op : OpTypes] \subseteq [node : Allocated', op : OpTypes]
    OBVIOUS
  <2> QED  BY <2>1, SeqMonotonic
<1>3. locks'[u] \in Seq(Allocated')
  BY SeqMonotonic
<1> QED  BY <1>1, <1>2, <1>3

\* Entering getValidatedValue on an allocated node.
LEMMA VisitTyped ==
  ASSUME TypeInv, NEW t \in Threads, NEW n \in Allocated, NEW wantDeleted \in BOOLEAN,
         NEW after \in Rets, NEW pred \in Pointer, Visit(t, n, wantDeleted, after, pred)
  PROVE  /\ pc' \in [Threads -> PCs] /\ ret' \in [Threads -> Rets]
         /\ reg' \in [Threads -> Registers]
         /\ todo' \in [Threads -> SUBSET (Nodes \X Fields)]
         /\ pc'[t] = "load" /\ ret'[t] = after
         /\ reg'[t].node = n /\ reg'[t].next \in Pointer /\ reg'[t].pred = pred
         /\ todo'[t] \subseteq Allocated \X Fields
         /\ \A u \in Threads \ {t} : /\ pc'[u] = pc[u] /\ ret'[u] = ret[u]
                                    /\ reg'[u] = reg[u] /\ todo'[u] = todo[u]
<1> DEFINE ws == tx[t].writeSet
           item == IF n \in DOMAIN ws THEN ws[n] ELSE [next |-> NULL, deleted |-> FALSE]
<1>1. Allocated \subseteq Nodes
  BY HeapNodes DEF TypeInv, TypeOK
<1>2. item \in Operation /\ item.next \in Pointer
  BY DEF TypeInv, TypeOK, Pointers, Pointer, Items, Transaction, Operation, Ref, NULL
<1> HIDE DEF item
<1>3. Pointer \subseteq Ref
  BY <1>1 DEF Pointer, Ref
<1>4. item.deleted \in BOOLEAN /\ (wantDeleted /\ item.deleted) \in BOOLEAN
  BY <1>2 DEF Operation
<1>5. /\ pc' = [pc EXCEPT ![t] = "load"]
      /\ ret' = [ret EXCEPT ![t] = after]
      /\ reg' = [reg EXCEPT ![t] = [node |-> n, next |-> item.next, pred |-> pred,
                                     deleted |-> wantDeleted /\ item.deleted]]
  BY DEF Visit, item
<1>6. /\ todo' = [todo EXCEPT ![t] = todo'[t]]
      /\ todo'[t] \subseteq {n} \X Fields
  BY DEF Visit, Fields, TypeInv, TypeOK
<1>7. [node |-> n, next |-> item.next, pred |-> pred, deleted |-> wantDeleted /\ item.deleted]
        \in Registers
  BY <1>1, <1>2, <1>3, <1>4 DEF Registers, Ref
<1>8. todo'[t] \subseteq Allocated \X Fields /\ todo'[t] \subseteq Nodes \X Fields
  BY <1>1, <1>6
<1>9. pc \in [Threads -> PCs] /\ ret \in [Threads -> Rets] /\ reg \in [Threads -> Registers]
      /\ todo \in [Threads -> SUBSET (Nodes \X Fields)]
  BY DEF TypeInv, TypeOK
<1> QED  BY <1>2, <1>5, <1>6, <1>7, <1>8, <1>9 DEF PCs

\* Throwing leaves the thread with nothing under way.
LEMMA ThrowTyped ==
  ASSUME TypeInv, NEW t \in Threads, Throw(t)
  PROVE  /\ pc' \in [Threads -> PCs] /\ ret' \in [Threads -> Rets]
         /\ reg' \in [Threads -> Registers]
         /\ todo' \in [Threads -> SUBSET (Nodes \X Fields)]
         /\ trace' \in [Threads -> Seq(Answers)] /\ snap' \in [Threads -> SUBSET Int]
         /\ net' = net
         /\ pc'[t] = "abort" /\ todo'[t] = {} /\ reg'[t] = NoReg
         /\ \A u \in Threads \ {t} : /\ pc'[u] = pc[u] /\ ret'[u] = ret[u]
                                    /\ reg'[u] = reg[u] /\ todo'[u] = todo[u]
<1>1. NoReg \in Registers
  BY DEF NoReg, Registers, Ref
<1>2. <<>> \in Seq(Answers)
  BY EmptySeq
<1> QED  BY <1>1, <1>2 DEF Throw, TypeInv, TypeOK, PCs, Rets

\* A call that returns has recorded its answer and is taken off the program.
LEMMA ReturnTyped ==
  ASSUME TypeInv, NEW t \in Threads, NEW ok \in BOOLEAN, prog[t] # <<>>, Return(t, ok)
  PROVE  /\ pc' \in [Threads -> PCs] /\ ret' \in [Threads -> Rets]
         /\ prog' \in [Threads -> Seq(Calls)] /\ reg' \in [Threads -> Registers]
         /\ trace' \in [Threads -> Seq(Answers)]
         /\ pc'[t] = "ready" /\ reg'[t] = NoReg
         /\ UNCHANGED <<left, todo, pos, locks, snap, net>>
         /\ \A u \in Threads \ {t} : /\ pc'[u] = pc[u] /\ ret'[u] = ret[u]
                                    /\ prog'[u] = prog[u] /\ reg'[u] = reg[u]
<1> DEFINE a == [op |-> prog[t][1].op, key |-> prog[t][1].key, ok |-> ok]
<1>1. NoReg \in Registers
  BY DEF NoReg, Registers, Ref
<1>2. prog[t] \in Seq(Calls)
  BY DEF TypeInv, TypeOK
<1>3. prog[t][1] \in Calls /\ Tail(prog[t]) \in Seq(Calls)
  BY <1>2, EmptySeq, ElementOfSeq, HeadTailProperties
<1>4. a \in Answers
  BY <1>3 DEF Calls, Answers
<1>5. Append(trace[t], a) \in Seq(Answers)
  BY <1>4, AppendProperties DEF TypeInv, TypeOK
<1> QED  BY <1>1, <1>3, <1>5 DEF Return, TypeInv, TypeOK, PCs, Rets

\* A step of thread t preserves TypeInv if it does so for the heap and for t itself.
LEMMA StepOf ==
  ASSUME TypeInv, NEW t \in Threads, TypeOK', Allocated \subseteq Allocated',
         \A n \in Allocated' : heap'[n].next \in Pointer',
         Pointers(t)', Control(t)',
         \A u \in Threads \ {t} : /\ reg'[u] = reg[u] /\ tx'[u] = tx[u] /\ locks'[u] = locks[u]
                                 /\ todo'[u] = todo[u] /\ pc'[u] = pc[u] /\ ret'[u] = ret[u]
                                 /\ prog'[u] = prog[u]
  PROVE  TypeInv'
<1>1. \A u \in Threads \ {t} : Pointers(u)' /\ Control(u)'
  BY OthersKeep
<1> QED  BY <1>1 DEF TypeInv

LEMMA InitTyped == Init => TypeInv
<1> SUFFICES ASSUME Init PROVE TypeInv
  OBVIOUS
<1> DEFINE size == Len(Warm) + 1
           clock == IF Warm = <<>> THEN 0 ELSE 1
           node(n) == [key |-> IF n = HeadNode THEN MIN_VAL ELSE Warm[n - 1],
                       next |-> IF n = size THEN NULL ELSE n + 1,
                       deleted |-> FALSE, version |-> clock,
                       owner |-> NoOwner, locked |-> FALSE]
<1>1. size \in 1..MaxNodes /\ size \in Nat /\ clock \in Nat
  BY WarmAssumption, BoundsAssumption, LenProperties
<1>2. ASSUME NEW n \in 1..size PROVE node(n) \in Node
  <2>1. node(n).key \in Int
    <3>1. n # HeadNode => n - 1 \in 1..Len(Warm)
      BY <1>1, WarmAssumption, LenProperties DEF HeadNode
    <3> QED  BY <3>1, WarmAssumption, KeysAssumption, ElementOfSeq
  <2>2. node(n).next \in Ref
    BY <1>1, BoundsAssumption DEF Ref, Nodes
  <2> QED  BY <1>1, <2>1, <2>2 DEF Node
<1>3. heap = [n \in 1..size |-> node(n)]
  BY DEF Init
<1> HIDE DEF node
<1>4. heap \in Seq(Node) /\ Len(heap) = size
  <2>1. heap \in [1..size -> Node]
    BY <1>2, <1>3
  <2> QED  BY <1>1, <2>1, SeqDef, LenProperties
<1>5. Allocated = 1..size
  BY <1>3 DEF Allocated
<1>6. NoReg \in Registers /\ NoReg.node = NULL /\ NoReg.next = NULL /\ NoReg.pred = NULL
  BY DEF NoReg, Registers, Ref
<1>7. /\ NoTx \in Transaction(DOMAIN NoTx.writeSet) /\ DOMAIN NoTx.writeSet = {}
      /\ NoTx.readSet = <<>> /\ NoTx.indexTodo = <<>>
  BY EmptySeq DEF NoTx, Transaction
<1>8. \A S : <<>> \in Seq(S)
  BY EmptySeq
<1>9. TypeOK
  <2>1. gvc \in Nat /\ index \subseteq Allocated
    BY <1>1, <1>5 DEF Init
  <2>2. /\ left \in [Threads -> [txs : 0..MaxTx, calls : 0..MaxCalls]] /\ pos \in [Threads -> Nat] /\ net \in [Keys -> Int]
        /\ pc \in [Threads -> PCs] /\ ret \in [Threads -> Rets]
    BY BoundsAssumption DEF Init, PCs, Rets
  <2>3. /\ prog \in [Threads -> Seq(Calls)] /\ locks \in [Threads -> Seq(Nodes)]
        /\ trace \in [Threads -> Seq(Answers)] /\ snap \in [Threads -> SUBSET Int]
        /\ todo \in [Threads -> SUBSET (Nodes \X Fields)]
    BY <1>8 DEF Init
  <2>4. tx = [t \in Threads |-> NoTx] /\ reg \in [Threads -> Registers]
    BY <1>6 DEF Init
  <2>5. \A t \in Threads : Items(t) \subseteq Nodes /\ tx[t] \in Transaction(Items(t))
    BY <1>7, <2>4 DEF Items
  <2> QED  BY <1>1, <1>4, <2>1, <2>2, <2>3, <2>4, <2>5 DEF TypeOK
<1>10. \A n \in Allocated : heap[n].next \in Pointer
  BY <1>1, <1>3, <1>5 DEF node, Pointer
<1>11. ASSUME NEW t \in Threads PROVE Pointers(t) /\ Control(t)
  BY <1>6, <1>7, <1>8 DEF Init, Pointers, Control, Pointer, Items
<1> QED  BY <1>9, <1>10, <1>11 DEF TypeInv

-----------------------------------------------------------------------------
\* One lemma per action: it preserves TypeInv.

\* The committed keys are keys of nodes.
LEMMA CommittedInt == ASSUME TypeInv PROVE Committed \subseteq Int
<1>1. \A n \in Allocated : heap[n] \in Node
  BY HeapNodes, ElementOfSeq DEF TypeInv, TypeOK
<1>2. Committed \subseteq {heap[n].key : n \in Allocated}
  BY DEF Committed, ChainOf
<1> QED  BY <1>1, <1>2 DEF Node

\* Changing the transaction of t to r leaves those of the other threads as they were.
LEMMA TxExcept ==
  ASSUME TypeInv, NEW t \in Threads, NEW r, tx' = [tx EXCEPT ![t] = r],
         r \in Transaction(DOMAIN r.writeSet), DOMAIN r.writeSet \subseteq Nodes
  PROVE  /\ tx' = [u \in Threads |-> tx'[u]]
         /\ \A u \in Threads : Items(u)' \subseteq Nodes /\ tx'[u] \in Transaction(Items(u)')
         /\ tx'[t] = r /\ Items(t)' = DOMAIN r.writeSet
         /\ \A u \in Threads \ {t} : tx'[u] = tx[u]
<1>1. tx = [u \in Threads |-> tx[u]]
  BY DEF TypeInv, TypeOK
<1>2. /\ tx' = [u \in Threads |-> tx'[u]] /\ tx'[t] = r
      /\ \A u \in Threads \ {t} : tx'[u] = tx[u]
  BY <1>1
<1>3. Items(t)' = DOMAIN r.writeSet /\ \A u \in Threads \ {t} : Items(u)' = Items(u)
  BY <1>2 DEF Items
<1>4. \A u \in Threads : Items(u)' \subseteq Nodes /\ tx'[u] \in Transaction(Items(u)')
  BY <1>2, <1>3 DEF TypeInv, TypeOK
<1> QED  BY <1>2, <1>3, <1>4

LEMMA TXBeginTyped == ASSUME TypeInv, NEW t \in Threads, TXBegin(t) PROVE TypeInv'
<1> DEFINE r == [tx[t] EXCEPT !.readVersion = gvc]
<1>1. PICK p \in Programs : /\ HasLeft(t, p) /\ prog' = [prog EXCEPT ![t] = p]
                             /\ left' = [left EXCEPT ![t] = [txs |-> @.txs - 1, calls |-> @.calls - Len(p)]]
  BY DEF TXBegin
<1>2. p \in Seq(Calls)
  BY ProgramsAssumption
<1>3. /\ r \in Transaction(DOMAIN r.writeSet) /\ DOMAIN r.writeSet \subseteq Nodes
      /\ r.readSet = tx[t].readSet /\ r.writeSet = tx[t].writeSet
      /\ r.indexTodo = tx[t].indexTodo
  BY DEF TypeInv, TypeOK, Items, Transaction
<1>4. tx' = [tx EXCEPT ![t] = r]
  BY DEF TXBegin
<1> HIDE DEF r
<1>5. /\ tx' = [u \in Threads |-> tx'[u]]
      /\ \A u \in Threads : Items(u)' \subseteq Nodes /\ tx'[u] \in Transaction(Items(u)')
      /\ tx'[t] = r /\ Items(t)' = Items(t)
      /\ \A u \in Threads \ {t} : tx'[u] = tx[u]
  BY <1>3, <1>4, TxExcept DEF Items
<1>6. TypeOK'
  <2>1. /\ gvc' \in Nat /\ heap' \in Seq(Node) /\ Len(heap') \in 1..MaxNodes
        /\ index' \subseteq Allocated'
    BY DEF TXBegin, shared, TypeInv, TypeOK, Allocated
  <2>2. left' \in [Threads -> [txs : 0..MaxTx, calls : 0..MaxCalls]]
    <3>1. /\ left \in [Threads -> [txs : 0..MaxTx, calls : 0..MaxCalls]]
          /\ left[t].txs > 0 /\ Len(p) <= left[t].calls /\ Len(p) \in Nat
      BY <1>1, <1>2, LenProperties DEF TXBegin, HasLeft, TypeInv, TypeOK
    <3>2. left[t].txs - 1 \in 0..MaxTx /\ left[t].calls - Len(p) \in 0..MaxCalls
      BY <3>1, BoundsAssumption
    <3> QED  BY <1>1, <3>1, <3>2
  <2>3. pc' \in [Threads -> PCs] /\ prog' \in [Threads -> Seq(Calls)]
    BY <1>1, <1>2 DEF TXBegin, TypeInv, TypeOK, PCs
  <2>4. snap' \in [Threads -> SUBSET Int]
    BY CommittedInt DEF TXBegin, TypeInv, TypeOK
  <2> QED  BY <1>5, <2>1, <2>2, <2>3, <2>4 DEF TXBegin, TypeInv, TypeOK
<1>7. Pointers(t)' /\ Control(t)'
  <2>1. pc'[t] = "ready" /\ heap' = heap /\ reg' = reg /\ todo' = todo /\ locks' = locks
    BY DEF TXBegin, shared, TypeInv, TypeOK
  <2>2. Allocated' = Allocated /\ Pointer' = Pointer
    BY <2>1 DEF Allocated, Pointer
  <2>3. Pointers(t)'
    BY <1>3, <1>5, <2>1, <2>2 DEF TypeInv, Pointers
  <2>4. Control(t)'
    BY <2>1 DEF Control
  <2> QED  BY <2>3, <2>4
<1>8. \A u \in Threads \ {t} : /\ reg'[u] = reg[u] /\ tx'[u] = tx[u] /\ locks'[u] = locks[u]
                              /\ todo'[u] = todo[u] /\ pc'[u] = pc[u] /\ ret'[u] = ret[u]
                              /\ prog'[u] = prog[u]
  BY <1>1, <1>5 DEF TXBegin, TypeInv, TypeOK
<1>9. Allocated' = Allocated /\ \A n \in Allocated' : heap'[n].next \in Pointer'
  BY DEF TXBegin, shared, TypeInv, Pointer, Allocated
<1> QED  BY <1>6, <1>7, <1>8, <1>9, StepOf

\* A step of t leaves every transaction well typed, and that of t with pointers into the heap.
TxStep(t) ==
    /\ tx' = [u \in Threads |-> tx'[u]]
    /\ \A u \in Threads : Items(u)' \subseteq Nodes /\ tx'[u] \in Transaction(Items(u)')
    /\ \A u \in Threads \ {t} : tx'[u] = tx[u]
    /\ Items(t)' \subseteq Allocated'
    /\ \A n \in Items(t)' : tx'[t].writeSet[n].next \in Pointer'
    /\ tx'[t].readSet \in Seq(Allocated')
    /\ tx'[t].indexTodo \in Seq([node : Allocated', op : OpTypes])

LEMMA TxSame ==
  ASSUME TypeInv, NEW t \in Threads, tx' = tx, Allocated' = Allocated
  PROVE  TxStep(t)
<1>1. Pointer' = Pointer /\ \A u \in Threads : Items(u)' = Items(u)
  BY DEF Pointer, Items
<1> QED  BY <1>1 DEF TxStep, TypeInv, TypeOK, Pointers

\* Transactions with the given items in the write set and pointers to the given nodes.
TxInto(items, nodes) ==
    [readVersion : Nat, writeVersion : Nat, readSet : Seq(nodes),
     writeSet : [items -> [next : nodes \cup {NULL}, deleted : BOOLEAN]],
     indexTodo : Seq([node : nodes, op : OpTypes])]

LEMMA TxUpdate ==
  ASSUME TypeInv, NEW t \in Threads, Allocated' \subseteq Nodes,
         NEW r, r \in TxInto(DOMAIN r.writeSet, Allocated'), DOMAIN r.writeSet \subseteq Allocated',
         tx' = [tx EXCEPT ![t] = r]
  PROVE  TxStep(t)
<1>1. r.readSet \in Seq(Nodes)
  BY SeqMonotonic DEF TxInto
<1>2. r.indexTodo \in Seq(IndexOperation)
  <2>1. [node : Allocated', op : OpTypes] \subseteq IndexOperation
    BY DEF IndexOperation
  <2> QED  BY <2>1, SeqMonotonic DEF TxInto
<1>3. r.writeSet \in [DOMAIN r.writeSet -> Operation]
  <2>1. Pointer' \subseteq Ref
    BY DEF Pointer, Ref
  <2> QED  BY <2>1 DEF Operation, TxInto, Pointer
<1>4. r \in Transaction(DOMAIN r.writeSet) /\ DOMAIN r.writeSet \subseteq Nodes
  BY <1>1, <1>2, <1>3 DEF Transaction, TxInto
<1>5. /\ tx' = [u \in Threads |-> tx'[u]]
      /\ \A u \in Threads : Items(u)' \subseteq Nodes /\ tx'[u] \in Transaction(Items(u)')
      /\ tx'[t] = r /\ Items(t)' = DOMAIN r.writeSet
      /\ \A u \in Threads \ {t} : tx'[u] = tx[u]
  BY <1>4, TxExcept
<1> QED  BY <1>5 DEF TxStep, TxInto, Pointer

\* The transaction of t, as it stands.
LEMMA TxNow ==
  ASSUME TypeInv, NEW t \in Threads
  PROVE  tx[t] \in TxInto(Items(t), Allocated) /\ Items(t) \subseteq Allocated
<1> DEFINE ws == tx[t].writeSet
<1>1. tx[t] \in Transaction(Items(t)) /\ Items(t) = DOMAIN ws /\ Items(t) \subseteq Allocated
  BY DEF TypeInv, TypeOK, Pointers, Items
<1>2. ws \in [Items(t) -> Operation]
  BY <1>1 DEF Transaction
<1>3. ws \in [Items(t) -> [next : Pointer, deleted : BOOLEAN]]
  BY <1>2 DEF Operation, TypeInv, Pointers
<1> QED  BY <1>1, <1>3 DEF Transaction, TxInto, TypeInv, Pointers, Pointer

\* Allocated nodes have the type of nodes.
LEMMA NodeAt ==
  ASSUME TypeInv, NEW n \in Allocated
  PROVE  /\ heap[n] \in Node /\ heap[n].next \in Pointer /\ heap[n].deleted \in BOOLEAN
         /\ heap[n].key \in Int /\ heap[n].version \in Nat
         /\ heap[n].owner \in Threads \cup {NoOwner} /\ heap[n].locked \in BOOLEAN
<1>1. heap[n] \in Node
  BY HeapNodes, ElementOfSeq DEF TypeInv, TypeOK
<1> QED  BY <1>1 DEF Node, TypeInv

\* An action of t that enters getValidatedValue.
LEMMA VisitStep ==
  ASSUME TypeInv, NEW t \in Threads, NEW n \in Allocated, NEW wantDeleted \in BOOLEAN,
         NEW after \in Rets, NEW pred \in Pointer, Visit(t, n, wantDeleted, after, pred),
         after # "none", after # "validate" => prog[t] # <<>>,
         after = "unlink" => pred # NULL,
         TxStep(t), pos' \in [Threads -> Nat],
         UNCHANGED <<gvc, heap, index, left, prog, locks, trace, snap, net>>
  PROVE  TypeInv'
<1>1. /\ pc' \in [Threads -> PCs] /\ ret' \in [Threads -> Rets]
      /\ reg' \in [Threads -> Registers]
      /\ todo' \in [Threads -> SUBSET (Nodes \X Fields)]
      /\ pc'[t] = "load" /\ ret'[t] = after
      /\ reg'[t].node = n /\ reg'[t].next \in Pointer /\ reg'[t].pred = pred
      /\ todo'[t] \subseteq Allocated \X Fields
      /\ \A u \in Threads \ {t} : /\ pc'[u] = pc[u] /\ ret'[u] = ret[u]
                                 /\ reg'[u] = reg[u] /\ todo'[u] = todo[u]
  BY VisitTyped
<1>2. heap' = heap /\ prog' = prog /\ locks' = locks /\ Allocated' = Allocated /\ Pointer' = Pointer
  BY DEF Allocated, Pointer
<1>3. TypeOK'
  BY <1>1, <1>2 DEF TypeInv, TypeOK, TxStep
<1>4. n # NULL
  BY HeapNodes DEF TypeInv, TypeOK, Nodes, NULL
<1>5. Pointers(t)'
  BY <1>1, <1>2 DEF TypeInv, Pointers, TxStep, Pointer
<1>6. Control(t)'
  BY <1>1, <1>2, <1>4 DEF Control
<1>7. \A m \in Allocated' : heap'[m].next \in Pointer'
  BY <1>2 DEF TypeInv
<1>8. \A u \in Threads \ {t} : /\ reg'[u] = reg[u] /\ tx'[u] = tx[u] /\ locks'[u] = locks[u]
                              /\ todo'[u] = todo[u] /\ pc'[u] = pc[u] /\ ret'[u] = ret[u]
                              /\ prog'[u] = prog[u]
  BY <1>1, <1>2 DEF TxStep
<1> QED  BY <1>2, <1>3, <1>5, <1>6, <1>7, <1>8, StepOf

\* An action of t that throws.
LEMMA ThrowStep ==
  ASSUME TypeInv, NEW t \in Threads, Throw(t),
         UNCHANGED <<gvc, heap, index, left, prog, tx, pos, locks>>
  PROVE  TypeInv'
<1>1. /\ pc' \in [Threads -> PCs] /\ ret' \in [Threads -> Rets]
      /\ reg' \in [Threads -> Registers]
      /\ todo' \in [Threads -> SUBSET (Nodes \X Fields)]
      /\ trace' \in [Threads -> Seq(Answers)] /\ snap' \in [Threads -> SUBSET Int]
      /\ net' = net
      /\ pc'[t] = "abort" /\ todo'[t] = {} /\ reg'[t] = NoReg
      /\ \A u \in Threads \ {t} : /\ pc'[u] = pc[u] /\ ret'[u] = ret[u]
                                 /\ reg'[u] = reg[u] /\ todo'[u] = todo[u]
  BY ThrowTyped
<1>2. /\ heap' = heap /\ prog' = prog /\ locks' = locks /\ tx' = tx
      /\ Allocated' = Allocated /\ Pointer' = Pointer
  BY DEF Allocated, Pointer
<1>3. TxStep(t)
  BY <1>2, TxSame
<1>4. TypeOK'
  BY <1>1, <1>2, <1>3 DEF TypeInv, TypeOK, TxStep
<1>5. Pointers(t)'
  BY <1>1, <1>2, <1>3 DEF TypeInv, Pointers, TxStep, Pointer, NoReg
<1>6. Control(t)'
  BY <1>1 DEF Control
<1>7. \A m \in Allocated' : heap'[m].next \in Pointer'
  BY <1>2 DEF TypeInv
<1> QED  BY <1>1, <1>2, <1>4, <1>5, <1>6, <1>7, StepOf

\* An action of t in which its call returns.
LEMMA ReturnStep ==
  ASSUME TypeInv, NEW t \in Threads, NEW ok \in BOOLEAN, prog[t] # <<>>, Return(t, ok),
         todo[t] = {}, TxStep(t), UNCHANGED <<gvc, index>>,
         heap' \in Seq(Node), Len(heap') \in 1..MaxNodes, Allocated \subseteq Allocated',
         \A n \in Allocated' : heap'[n].next \in Pointer'
  PROVE  TypeInv'
<1>1. /\ pc' \in [Threads -> PCs] /\ ret' \in [Threads -> Rets]
      /\ prog' \in [Threads -> Seq(Calls)] /\ reg' \in [Threads -> Registers]
      /\ trace' \in [Threads -> Seq(Answers)]
      /\ pc'[t] = "ready" /\ reg'[t] = NoReg
      /\ UNCHANGED <<left, todo, pos, locks, snap, net>>
      /\ \A u \in Threads \ {t} : /\ pc'[u] = pc[u] /\ ret'[u] = ret[u]
                                 /\ prog'[u] = prog[u] /\ reg'[u] = reg[u]
  BY ReturnTyped
<1>2. todo' = todo /\ locks' = locks /\ index' = index
  BY <1>1
<1>3. TypeOK'
  BY <1>1, <1>2 DEF TypeInv, TypeOK, TxStep
<1>4. locks'[t] \in Seq(Allocated')
  BY <1>2, SeqMonotonic DEF TypeInv, Pointers
<1>5. Pointers(t)'
  BY <1>1, <1>2, <1>4 DEF Pointers, TxStep, Pointer, NoReg
<1>6. Control(t)'
  BY <1>1 DEF Control
<1>7. \A u \in Threads \ {t} : /\ reg'[u] = reg[u] /\ tx'[u] = tx[u] /\ locks'[u] = locks[u]
                              /\ todo'[u] = todo[u] /\ pc'[u] = pc[u] /\ ret'[u] = ret[u]
                              /\ prog'[u] = prog[u]
  BY <1>1, <1>2 DEF TxStep
<1> QED  BY <1>3, <1>5, <1>6, <1>7, StepOf

\* A load of a node field leads to a node of the heap.
LEMMA LoadTyped == ASSUME TypeInv, NEW t \in Threads, Load(t) PROVE TypeInv'
<1>1. PICK a \in Due(todo[t], LoadOrder) :
        IF heap[a[1]].locked \/ (a[2] = "version" /\ TooNew(t, a[1]))
        THEN Throw(t)
        ELSE /\ todo' = [todo EXCEPT ![t] = @ \ {a}]
             /\ reg' = [reg EXCEPT
                  ![t].next = IF a[2] = "next" THEN heap[a[1]].next ELSE @,
                  ![t].deleted = IF a[2] = "deleted" THEN heap[a[1]].deleted ELSE @]
             /\ UNCHANGED <<pc, ret, history>>
  BY DEF Load
<1>2. UNCHANGED <<gvc, heap, index, left, prog, tx, pos, locks>> /\ pc[t] = "load"
  BY DEF Load, shared
<1>3. CASE heap[a[1]].locked \/ (a[2] = "version" /\ TooNew(t, a[1]))
  BY <1>1, <1>2, <1>3, ThrowStep
<1>4. CASE ~(heap[a[1]].locked \/ (a[2] = "version" /\ TooNew(t, a[1])))
  <2>1. /\ todo' = [todo EXCEPT ![t] = @ \ {a}]
        /\ reg' = [reg EXCEPT
             ![t].next = IF a[2] = "next" THEN heap[a[1]].next ELSE @,
             ![t].deleted = IF a[2] = "deleted" THEN heap[a[1]].deleted ELSE @]
        /\ pc' = pc /\ ret' = ret /\ trace' = trace /\ snap' = snap /\ net' = net
    BY <1>1, <1>4 DEF history
  <2>2. a \in todo[t] /\ a[1] \in Allocated
    BY DEF Due, TypeInv, Pointers
  <2>3. heap[a[1]].next \in Pointer /\ heap[a[1]].deleted \in BOOLEAN
    BY <2>2, NodeAt
  <2>4. /\ heap' = heap /\ prog' = prog /\ locks' = locks /\ tx' = tx
        /\ Allocated' = Allocated /\ Pointer' = Pointer
    BY <1>2 DEF Allocated, Pointer
  <2>5. Pointer \subseteq Ref
    BY HeapNodes DEF Pointer, Ref, TypeInv, TypeOK
  <2>6. /\ reg' \in [Threads -> Registers]
        /\ reg'[t].node = reg[t].node /\ reg'[t].pred = reg[t].pred /\ reg'[t].next \in Pointer
        /\ \A u \in Threads \ {t} : reg'[u] = reg[u]
    <3> DEFINE nx == IF a[2] = "next" THEN heap[a[1]].next ELSE reg[t].next
               dl == IF a[2] = "deleted" THEN heap[a[1]].deleted ELSE reg[t].deleted
               r == [reg[t] EXCEPT !.next = nx, !.deleted = dl]
    <3>1. reg \in [Threads -> Registers] /\ reg[t].next \in Pointer
      BY DEF TypeInv, TypeOK, Pointers
    <3>2. nx \in Pointer /\ dl \in BOOLEAN
      BY <2>3, <3>1 DEF Registers
    <3>3. reg' = [reg EXCEPT ![t] = r]
      BY <2>1, <3>1
    <3> HIDE DEF nx, dl
    <3>4. r \in Registers /\ r.node = reg[t].node /\ r.pred = reg[t].pred /\ r.next = nx
      BY <2>5, <3>1, <3>2 DEF Registers
    <3> HIDE DEF r
    <3> QED  BY <3>1, <3>2, <3>3, <3>4
  <2>7. /\ todo' \in [Threads -> SUBSET (Nodes \X Fields)] /\ todo'[t] \subseteq todo[t]
        /\ \A u \in Threads \ {t} : todo'[u] = todo[u]
    BY <2>1 DEF TypeInv, TypeOK
  <2>8. TxStep(t)
    BY <2>4, TxSame
  <2>9. TypeOK'
    BY <1>2, <2>1, <2>4, <2>6, <2>7, <2>8 DEF TypeInv, TypeOK, TxStep
  <2>10. Pointers(t)'
    BY <2>4, <2>6, <2>7, <2>8 DEF TypeInv, Pointers, TxStep
  <2>11. Control(t)'
    BY <1>2, <2>1, <2>4, <2>6 DEF TypeInv, Control
  <2>12. \A m \in Allocated' : heap'[m].next \in Pointer'
    BY <2>4 DEF TypeInv
  <2> QED  BY <2>1, <2>4, <2>6, <2>7, <2>9, <2>10, <2>11, <2>12, StepOf
<1> QED  BY <1>3, <1>4

LEMMA SeekTyped == ASSUME TypeInv, NEW t \in Threads, Seek(t) PROVE TypeInv'
<1>1. PICK n \in GetPrev(prog[t][1].key) : Visit(t, n, TRUE, "start", NULL)
  BY DEF Seek
<1>2. UNCHANGED <<gvc, heap, index, left, prog, tx, pos, locks, trace, snap, net>> /\ prog[t] # <<>>
  BY DEF Seek, shared, history
<1>3. TxStep(t)
  BY <1>2, TxSame DEF Allocated
<1>4. n \in Allocated /\ NULL \in Pointer /\ "start" \in Rets
  BY GetPrevAllocated DEF Pointer, Rets
<1> QED  BY <1>1, <1>2, <1>3, <1>4, VisitStep DEF TypeInv, TypeOK

LEMMA RestartTyped == ASSUME TypeInv, NEW t \in Threads, Restart(t) PROVE TypeInv'
<1>1. PICK n \in GetPrev(heap[reg[t].node].key) : Visit(t, n, TRUE, "start", NULL)
  BY DEF Restart
<1>2. UNCHANGED <<gvc, heap, index, left, prog, tx, pos, locks, trace, snap, net>> /\ prog[t] # <<>>
  BY DEF Restart, Loaded, shared, history, TypeInv, Control
<1>3. TxStep(t)
  BY <1>2, TxSame DEF Allocated
<1>4. n \in Allocated /\ NULL \in Pointer /\ "start" \in Rets
  BY GetPrevAllocated DEF Pointer, Rets
<1> QED  BY <1>1, <1>2, <1>3, <1>4, VisitStep DEF TypeInv, TypeOK

LEMMA WalkTyped == ASSUME TypeInv, NEW t \in Threads, Walk(t) PROVE TypeInv'
<1>1. Visit(t, reg[t].next, TRUE, "walk", NULL) /\ reg[t].next # NULL
  BY DEF Walk, More
<1>2. UNCHANGED <<gvc, heap, index, left, prog, tx, pos, locks, trace, snap, net>> /\ prog[t] # <<>>
  BY DEF Walk, InWalk, Loaded, shared, history, TypeInv, Control
<1>3. TxStep(t)
  BY <1>2, TxSame DEF Allocated
<1>4. reg[t].next \in Allocated /\ NULL \in Pointer /\ "walk" \in Rets
  BY <1>1 DEF TypeInv, Pointers, Pointer, Rets
<1> QED  BY <1>1, <1>2, <1>3, <1>4, VisitStep DEF TypeInv, TypeOK

\* Where traverseTo has arrived, pred is a node and the read set can take it.
LEMMA ArrivedAt ==
  ASSUME TypeInv, NEW t \in Threads, NEW op, Arrived(t, op)
  PROVE  /\ reg[t].node \in Allocated /\ Succ(t) \in Pointer
         /\ prog[t] # <<>> /\ todo[t] = {} /\ pc[t] = "load"
         /\ Read(t) \in Seq(Allocated)
<1>1. /\ reg[t].node \in Allocated /\ Succ(t) \in Pointer
      /\ prog[t] # <<>> /\ todo[t] = {} /\ pc[t] = "load"
  BY DEF Arrived, InWalk, Loaded, TypeInv, Pointers, Control, Succ, Pointer
<1> QED  BY <1>1, AppendProperties DEF Read, TypeInv, Pointers

\* Adding to the read set of t.
LEMMA TxRead ==
  ASSUME TypeInv, NEW t \in Threads, NEW rs \in Seq(Allocated), Allocated' = Allocated,
         tx' = [tx EXCEPT ![t].readSet = rs]
  PROVE  TxStep(t)
<1> DEFINE r == [tx[t] EXCEPT !.readSet = rs]
<1>1. tx[t] \in TxInto(Items(t), Allocated) /\ Items(t) \subseteq Allocated
  BY TxNow
<1>2. r \in TxInto(Items(t), Allocated) /\ Items(t) = DOMAIN r.writeSet
  BY <1>1 DEF TxInto, Items
<1>3. tx' = [tx EXCEPT ![t] = r]
  OBVIOUS
<1>4. Allocated' \subseteq Nodes
  BY HeapNodes DEF TypeInv, TypeOK
<1> HIDE DEF r
<1> QED  BY <1>1, <1>2, <1>3, <1>4, TxUpdate

LEMMA ContainsTyped == ASSUME TypeInv, NEW t \in Threads, Contains(t) PROVE TypeInv'
<1>1. /\ reg[t].node \in Allocated /\ prog[t] # <<>> /\ todo[t] = {}
      /\ Read(t) \in Seq(Allocated)
  BY ArrivedAt DEF Contains
<1>2. /\ tx' = [tx EXCEPT ![t].readSet = Read(t)] /\ Return(t, Present(t))
      /\ UNCHANGED <<gvc, heap, index>> /\ Allocated' = Allocated /\ Pointer' = Pointer
  BY DEF Contains, shared, Allocated, Pointer
<1>3. Present(t) \in BOOLEAN
  BY DEF Present
<1>4. TxStep(t)
  BY <1>1, <1>2, TxRead
<1> QED  BY <1>1, <1>2, <1>3, <1>4, ReturnStep DEF TypeInv, TypeOK

LEMMA RefuseTyped == ASSUME TypeInv, NEW t \in Threads, Refuse(t) PROVE TypeInv'
<1>1. Arrived(t, "insert") \/ Arrived(t, "remove")
  BY DEF Refuse
<1>2. /\ reg[t].node \in Allocated /\ prog[t] # <<>> /\ todo[t] = {}
      /\ Read(t) \in Seq(Allocated)
  BY <1>1, ArrivedAt
<1>3. /\ tx' = [tx EXCEPT ![t].readSet = Read(t)] /\ Return(t, FALSE)
      /\ UNCHANGED <<gvc, heap, index>> /\ Allocated' = Allocated /\ Pointer' = Pointer
  BY DEF Refuse, shared, Allocated, Pointer
<1>4. TxStep(t)
  BY <1>2, <1>3, TxRead
<1> QED  BY <1>2, <1>3, <1>4, ReturnStep DEF TypeInv, TypeOK

LEMMA RemoveTyped == ASSUME TypeInv, NEW t \in Threads, Remove(t) PROVE TypeInv'
<1>1. /\ reg[t].node \in Allocated /\ prog[t] # <<>>
      /\ Read(t) \in Seq(Allocated) /\ Succ(t) \in Pointer /\ Succ(t) # NULL
  BY ArrivedAt DEF Remove, Present
<1>2. Succ(t) \in Allocated /\ reg[t].node \in Pointer /\ reg[t].node # NULL /\ "unlink" \in Rets
  <2>1. reg[t].node # NULL
    BY <1>1, HeapNodes DEF TypeInv, TypeOK, Nodes, NULL
  <2> QED  BY <1>1, <2>1 DEF Pointer, Rets
<1>3. Append(Read(t), Succ(t)) \in Seq(Allocated)
  BY <1>1, <1>2, AppendProperties
<1>4. /\ tx' = [tx EXCEPT ![t].readSet = Append(Read(t), Succ(t))]
      /\ Visit(t, Succ(t), FALSE, "unlink", reg[t].node)
      /\ UNCHANGED <<gvc, heap, index, left, prog, pos, locks, trace, snap, net>>
      /\ Allocated' = Allocated
  BY DEF Remove, shared, history, Allocated
<1>5. TxStep(t)
  BY <1>3, <1>4, TxRead
<1> QED  BY <1>1, <1>2, <1>4, <1>5, VisitStep DEF TypeInv, TypeOK

\* What addItem makes of a write set.
LEMMA AddItemTyped ==
  ASSUME NEW D, NEW P, NEW ws \in [D -> [next : P, deleted : BOOLEAN]],
         NEW n, NEW nx \in P, NEW del \in BOOLEAN
  PROVE  AddItem(ws, n, nx, del) \in [D \cup {n} -> [next : P, deleted : BOOLEAN]]
<1> SUFFICES ASSUME NEW m \in D \cup {n}
             PROVE  AddItem(ws, n, nx, del)[m] \in [next : P, deleted : BOOLEAN]
  BY DEF AddItem
<1>1. CASE m # n
  BY <1>1 DEF AddItem
<1>2. CASE m = n /\ n \notin D
  BY <1>2 DEF AddItem
<1>3. CASE m = n /\ n \in D
  <2>1. ws[n].next \in P /\ ws[n].deleted \in BOOLEAN
    BY <1>3
  <2>2. AddItem(ws, n, nx, del)[m]
          = [next |-> IF nx # NULL THEN nx ELSE ws[n].next, deleted |-> ws[n].deleted \/ del]
    BY <1>3 DEF AddItem
  <2>3. (ws[n].deleted \/ del) \in BOOLEAN
    BY <2>1
  <2> QED  BY <2>1, <2>2, <2>3
<1> QED  BY <1>1, <1>2, <1>3

\* A transaction whose write set and index list grow.
LEMMA TxWrite ==
  ASSUME TypeInv, NEW t \in Threads, NEW rs \in Seq(Allocated'), NEW ws, NEW e,
         ws \in [DOMAIN ws -> [next : Pointer', deleted : BOOLEAN]],
         DOMAIN ws \subseteq Allocated', e \in [node : Allocated', op : OpTypes],
         Allocated \subseteq Allocated', Allocated' \subseteq Nodes,
         tx' = [tx EXCEPT ![t] = [@ EXCEPT !.readSet = rs, !.writeSet = ws,
                                           !.indexTodo = Append(tx[t].indexTodo, e)]]
  PROVE  TxStep(t)
<1> DEFINE todos == Append(tx[t].indexTodo, e)
           r == [tx[t] EXCEPT !.readSet = rs, !.writeSet = ws, !.indexTodo = todos]
<1>1. tx[t] \in TxInto(Items(t), Allocated)
  BY TxNow
<1>2. todos \in Seq([node : Allocated', op : OpTypes])
  <2>1. [node : Allocated, op : OpTypes] \subseteq [node : Allocated', op : OpTypes]
    OBVIOUS
  <2>2. tx[t].indexTodo \in Seq([node : Allocated', op : OpTypes])
    BY <1>1, <2>1, SeqMonotonic DEF TxInto
  <2> QED  BY <2>2, AppendProperties
<1> HIDE DEF todos
<1>3. r \in TxInto(DOMAIN r.writeSet, Allocated') /\ DOMAIN r.writeSet \subseteq Allocated'
  BY <1>1, <1>2 DEF TxInto, Pointer
<1>4. tx' = [tx EXCEPT ![t] = r]
  BY DEF todos
<1> HIDE DEF r
<1> QED  BY <1>3, <1>4, TxUpdate

LEMMA InsertTyped == ASSUME TypeInv, NEW t \in Threads, Insert(t) PROVE TypeInv'
<1> DEFINE new == Len(heap) + 1
           e == [node |-> new, op |-> "insert"]
           ws1 == AddItem(tx[t].writeSet, reg[t].node, new, FALSE)
           ws == AddItem(ws1, new, NULL, FALSE)
<1>1. /\ reg[t].node \in Allocated /\ prog[t] # <<>> /\ todo[t] = {}
      /\ Read(t) \in Seq(Allocated) /\ Succ(t) \in Pointer
  BY ArrivedAt DEF Insert
<1>2. /\ heap' = Append(heap, NewNode(t)) /\ Return(t, TRUE) /\ UNCHANGED <<gvc, index>>
      /\ Len(heap) < MaxNodes
      /\ tx' = [tx EXCEPT ![t].readSet = Read(t), ![t].writeSet = ws,
                          ![t].indexTodo = Append(@, e)]
  BY DEF Insert, Allocate
<1>3. /\ heap \in Seq(Node) /\ Len(heap) \in Nat /\ Allocated = 1..Len(heap)
      /\ Allocated \subseteq Nodes
  BY HeapNodes DEF TypeInv, TypeOK
<1>4. NewNode(t) \in Node
  <2>1. prog[t][1].key \in Int
    <3>1. prog[t] \in Seq(Calls)
      BY DEF TypeInv, TypeOK
    <3>2. Len(prog[t]) \in Nat \ {0}
      BY <1>1, <3>1, EmptySeq
    <3>3. prog[t][1] \in Calls
      BY <3>1, <3>2, ElementOfSeq
    <3> QED  BY <3>3, KeysAssumption DEF Calls
  <2>2. tx[t].readVersion \in Nat
    BY DEF TypeInv, TypeOK, Transaction
  <2>3. Succ(t) \in Ref
    BY <1>1, <1>3 DEF Pointer, Ref
  <2> QED  BY <2>1, <2>2, <2>3 DEF NewNode, Node
<1>5. /\ heap' \in Seq(Node) /\ Len(heap') = new
      /\ \A n \in Allocated : heap'[n] = heap[n]
      /\ heap'[new] = NewNode(t)
  BY <1>2, <1>3, <1>4, AppendProperties
<1>6. Len(heap') \in 1..MaxNodes
  BY <1>2, <1>3, <1>5, BoundsAssumption
<1>7. /\ Allocated' = Allocated \cup {new} /\ new \in Allocated'
      /\ Allocated' \subseteq Nodes
  BY <1>3, <1>5, <1>6, LenProperties, BoundsAssumption DEF Allocated, Nodes
<1>8. \A n \in Allocated' : heap'[n].next \in Pointer'
  BY <1>1, <1>5, <1>7 DEF NewNode, Pointer, TypeInv
<1>9. ws \in [DOMAIN ws -> [next : Pointer', deleted : BOOLEAN]] /\ DOMAIN ws \subseteq Allocated'
  <2>1. /\ tx[t].writeSet \in [Items(t) -> [next : Pointer', deleted : BOOLEAN]]
        /\ Items(t) \subseteq Allocated
    BY <1>7, TxNow DEF TxInto, Pointer
  <2>2. new \in Pointer' /\ NULL \in Pointer'
    BY <1>7 DEF Pointer
  <2>3. ws1 \in [Items(t) \cup {reg[t].node} -> [next : Pointer', deleted : BOOLEAN]]
    BY <2>1, <2>2, AddItemTyped
  <2>4. ws \in [(Items(t) \cup {reg[t].node}) \cup {new} -> [next : Pointer', deleted : BOOLEAN]]
    BY <2>2, <2>3, AddItemTyped
  <2> HIDE DEF ws
  <2> QED  BY <1>1, <1>7, <2>1, <2>4
<1>10. Read(t) \in Seq(Allocated') /\ e \in [node : Allocated', op : OpTypes]
  BY <1>1, <1>7, SeqMonotonic DEF OpTypes
<1>11. TxStep(t)
  <2> HIDE DEF ws, e, new
  <2>1. tx' = [tx EXCEPT ![t] = [@ EXCEPT !.readSet = Read(t), !.writeSet = ws,
                                          !.indexTodo = Append(tx[t].indexTodo, e)]]
    BY <1>2
  <2> QED  BY <1>7, <1>9, <1>10, <2>1, TxWrite
<1> QED  BY <1>1, <1>2, <1>5, <1>6, <1>7, <1>8, <1>11, ReturnStep

LEMMA UnlinkTyped == ASSUME TypeInv, NEW t \in Threads, Unlink(t) PROVE TypeInv'
<1> DEFINE e == [node |-> reg[t].node, op |-> "remove"]
           ws1 == AddItem(tx[t].writeSet, reg[t].pred, reg[t].next, FALSE)
           ws == AddItem(ws1, reg[t].node, NULL, TRUE)
<1>1. /\ reg[t].node \in Allocated /\ reg[t].pred \in Allocated /\ reg[t].next \in Pointer
      /\ prog[t] # <<>> /\ todo[t] = {}
  BY DEF Unlink, Loaded, TypeInv, Pointers, Control, Pointer
<1>2. /\ Return(t, TRUE) /\ UNCHANGED <<gvc, heap, index>>
      /\ tx' = [tx EXCEPT ![t].writeSet = ws, ![t].indexTodo = Append(@, e)]
      /\ Allocated' = Allocated /\ Pointer' = Pointer
  BY DEF Unlink, shared, Allocated, Pointer
<1>3. Allocated \subseteq Nodes
  BY HeapNodes DEF TypeInv, TypeOK
<1>4. /\ tx[t].writeSet \in [Items(t) -> [next : Pointer, deleted : BOOLEAN]]
      /\ Items(t) \subseteq Allocated /\ tx[t].readSet \in Seq(Allocated)
  BY TxNow DEF TxInto, Pointer
<1>5. ws \in [DOMAIN ws -> [next : Pointer, deleted : BOOLEAN]] /\ DOMAIN ws \subseteq Allocated
  <2>1. NULL \in Pointer
    BY DEF Pointer
  <2>2. ws1 \in [Items(t) \cup {reg[t].pred} -> [next : Pointer, deleted : BOOLEAN]]
    BY <1>1, <1>4, AddItemTyped
  <2>3. ws \in [(Items(t) \cup {reg[t].pred}) \cup {reg[t].node}
                    -> [next : Pointer, deleted : BOOLEAN]]
    BY <2>1, <2>2, AddItemTyped
  <2> HIDE DEF ws
  <2> QED  BY <1>1, <1>4, <2>3
<1>6. e \in [node : Allocated, op : OpTypes]
  BY <1>1 DEF OpTypes
<1>7. TxStep(t)
  <2> HIDE DEF ws, e
  <2>1. tx[t] \in Transaction(Items(t))
    BY DEF TypeInv, TypeOK
  <2>2. tx' = [tx EXCEPT ![t] = [@ EXCEPT !.readSet = tx[t].readSet, !.writeSet = ws,
                                          !.indexTodo = Append(tx[t].indexTodo, e)]]
    BY <1>2, <2>1 DEF Transaction
  <2> QED  BY <1>2, <1>3, <1>4, <1>5, <1>6, <2>2, TxWrite
<1> QED  BY <1>1, <1>2, <1>7, ReturnStep DEF TypeInv, TypeOK

LEMMA TXCommitTyped == ASSUME TypeInv, NEW t \in Threads, TXCommit(t) PROVE TypeInv'
<1>1. /\ heap' = heap /\ reg' = reg /\ todo' = todo /\ locks' = locks /\ tx' = tx /\ prog' = prog
      /\ ret' = ret /\ pc' = [pc EXCEPT ![t] = "lock"]
      /\ UNCHANGED <<gvc, index, left, pos, trace, snap, net>>
      /\ Allocated' = Allocated /\ Pointer' = Pointer
  BY DEF TXCommit, shared, history, Allocated, Pointer
<1>2. TxStep(t)
  BY <1>1, TxSame
<1>3. pc' \in [Threads -> PCs] /\ pc'[t] = "lock" /\ \A u \in Threads \ {t} : pc'[u] = pc[u]
  BY <1>1 DEF TypeInv, TypeOK, PCs
<1>4. TypeOK'
  BY <1>1, <1>2, <1>3 DEF TypeInv, TypeOK, TxStep
<1>5. Pointers(t)' /\ Control(t)'
  BY <1>1, <1>2, <1>3 DEF TypeInv, Pointers, Control, TxStep
<1>6. \A m \in Allocated' : heap'[m].next \in Pointer'
  BY <1>1 DEF TypeInv
<1> QED  BY <1>1, <1>3, <1>4, <1>5, <1>6, StepOf

\* An action of t that changes one node and, of its own state, locks, todo and reg.node.
LEMMA NodeStep ==
  ASSUME TypeInv, NEW t \in Threads, NEW n \in Allocated, NEW e \in Node,
         e.next \in Pointer, heap' = [heap EXCEPT ![n] = e],
         locks' \in [Threads -> Seq(Nodes)], locks'[t] \in Seq(Allocated),
         \A u \in Threads \ {t} : locks'[u] = locks[u],
         todo' \in [Threads -> SUBSET (Nodes \X Fields)], todo'[t] \subseteq todo[t],
         \A u \in Threads \ {t} : todo'[u] = todo[u],
         NEW m \in Pointer, reg' = [reg EXCEPT ![t].node = m], pc[t] = "load" => m = reg[t].node,
         UNCHANGED <<gvc, index, left, pc, ret, prog, tx, pos, trace, snap, net>>
  PROVE  TypeInv'
<1>1. /\ heap' \in Seq(Node) /\ Allocated' = Allocated /\ Len(heap') = Len(heap)
      /\ \A k \in Allocated : heap'[k] = IF k = n THEN e ELSE heap[k]
  BY HeapExcept DEF TypeInv, TypeOK
<1>2. Pointer' = Pointer /\ pc' = pc /\ ret' = ret /\ prog' = prog /\ tx' = tx
  BY <1>1 DEF Pointer
<1>3. Pointer \subseteq Ref
  BY HeapNodes DEF Pointer, Ref, TypeInv, TypeOK
<1>4. /\ reg' \in [Threads -> Registers]
      /\ reg'[t].node = m /\ reg'[t].next = reg[t].next /\ reg'[t].pred = reg[t].pred
      /\ \A u \in Threads \ {t} : reg'[u] = reg[u]
  <2> DEFINE r == [reg[t] EXCEPT !.node = m]
  <2>1. reg \in [Threads -> Registers]
    BY DEF TypeInv, TypeOK
  <2>2. reg' = [reg EXCEPT ![t] = r]
    BY <2>1
  <2>3. r \in Registers /\ r.node = m /\ r.next = reg[t].next /\ r.pred = reg[t].pred
    BY <1>3, <2>1 DEF Registers
  <2> HIDE DEF r
  <2> QED  BY <2>1, <2>2, <2>3
<1>5. TxStep(t)
  BY <1>1, <1>2, TxSame
<1>6. TypeOK'
  BY <1>1, <1>2, <1>4, <1>5 DEF TypeInv, TypeOK, TxStep
<1>7. Pointers(t)' /\ Control(t)'
  BY <1>1, <1>2, <1>4, <1>5 DEF TypeInv, Pointers, Control, TxStep, Items
<1>8. \A k \in Allocated' : heap'[k].next \in Pointer'
  BY <1>1, <1>2 DEF TypeInv
<1> QED  BY <1>1, <1>2, <1>4, <1>6, <1>7, <1>8, StepOf

LEMMA TryLockTyped == ASSUME TypeInv, NEW t \in Threads, TryLock(t) PROVE TypeInv'
<1>1. PICK n \in Items(t) \ Elems(locks[t]) :
        IF Free(n) THEN Lock(t, n) ELSE Throw(t) /\ UNCHANGED <<heap, locks>>
  BY DEF TryLock
<1>2. UNCHANGED <<gvc, index, left, prog, tx, pos>> /\ pc[t] = "lock"
  BY DEF TryLock
<1>3. CASE ~Free(n)
  BY <1>1, <1>2, <1>3, ThrowStep
<1>4. CASE Free(n)
  <2> DEFINE e == [heap[n] EXCEPT !.owner = t]
  <2>1. /\ heap' = [heap EXCEPT ![n] = e] /\ locks' = [locks EXCEPT ![t] = Append(@, n)]
        /\ pc' = pc /\ ret' = ret /\ reg' = reg /\ todo' = todo
        /\ trace' = trace /\ snap' = snap /\ net' = net
    BY <1>1, <1>4 DEF Lock, history
  <2>2. n \in Allocated
    BY DEF TypeInv, Pointers
  <2>3. e \in Node /\ e.next \in Pointer
    BY <2>2, NodeAt DEF Node
  <2>4. Append(locks[t], n) \in Seq(Allocated) /\ Allocated \subseteq Nodes
    BY <2>2, AppendProperties, HeapNodes DEF TypeInv, TypeOK, Pointers
  <2>5. Append(locks[t], n) \in Seq(Nodes)
    BY <2>4, SeqMonotonic
  <2>6. /\ locks' \in [Threads -> Seq(Nodes)] /\ locks'[t] \in Seq(Allocated)
        /\ \A u \in Threads \ {t} : locks'[u] = locks[u]
    BY <2>1, <2>4, <2>5 DEF TypeInv, TypeOK
  <2>7. reg' = [reg EXCEPT ![t].node = reg[t].node] /\ reg[t].node \in Pointer
    BY <2>1 DEF TypeInv, TypeOK, Registers, Pointers
  <2>8. todo' \in [Threads -> SUBSET (Nodes \X Fields)]
    BY <2>1 DEF TypeInv, TypeOK
  <2> HIDE DEF e
  <2> QED  BY <1>2, <2>1, <2>2, <2>3, <2>6, <2>7, <2>8, NodeStep
<1> QED  BY <1>3, <1>4

LEMMA ValidateTyped == ASSUME TypeInv, NEW t \in Threads, Validate(t) PROVE TypeInv'
<1>1. /\ pos[t] < Len(tx[t].readSet) /\ pos' = [pos EXCEPT ![t] = @ + 1]
      /\ Visit(t, tx[t].readSet[pos[t] + 1], FALSE, "validate", NULL)
      /\ UNCHANGED <<gvc, heap, index, left, prog, tx, locks, trace, snap, net>>
  BY DEF Validate, shared, history
<1>2. pos \in [Threads -> Nat] /\ pos[t] \in Nat
  BY DEF TypeInv, TypeOK
<1>3. tx[t].readSet \in Seq(Allocated) /\ Len(tx[t].readSet) \in Nat
  BY LenProperties DEF TypeInv, Pointers
<1>4. tx[t].readSet[pos[t] + 1] \in Allocated
  <2>1. pos[t] + 1 \in 1..Len(tx[t].readSet)
    BY <1>1, <1>2, <1>3
  <2> QED  BY <1>3, <2>1, ElementOfSeq
<1>5. pos' \in [Threads -> Nat]
  BY <1>1, <1>2
<1>6. TxStep(t)
  BY <1>1, TxSame DEF Allocated
<1>7. NULL \in Pointer /\ "validate" \in Rets
  BY DEF Pointer, Rets
<1> QED  BY <1>1, <1>4, <1>5, <1>6, <1>7, VisitStep

LEMMA InvalidTyped == ASSUME TypeInv, NEW t \in Threads, Invalid(t) PROVE TypeInv'
BY ThrowStep DEF Invalid, shared

LEMMA StoreTyped == ASSUME TypeInv, NEW t \in Threads, Store(t) PROVE TypeInv'
<1>1. PICK a \in Due(todo[t], StoreOrder) :
        /\ heap' = [heap EXCEPT
             ![a[1]].deleted = IF a[2] = "deleted" THEN TRUE ELSE @,
             ![a[1]].next = IF a[2] = "next" THEN tx[t].writeSet[a[1]].next ELSE @,
             ![a[1]].version = IF a[2] = "version" THEN tx[t].writeVersion ELSE @]
        /\ todo' = [todo EXCEPT ![t] = @ \ {a}]
        /\ reg' = [reg EXCEPT ![t].node = IF a[2] = "version" THEN NULL ELSE a[1]]
  BY DEF Store
<1>2. UNCHANGED <<gvc, index, left, pc, ret, prog, tx, pos, locks, trace, snap, net>>
      /\ pc[t] = "publish"
  BY DEF Store, history
<1> DEFINE n == a[1]
           d == IF a[2] = "deleted" THEN TRUE ELSE heap[n].deleted
           x == IF a[2] = "next" THEN tx[t].writeSet[n].next ELSE heap[n].next
           v == IF a[2] = "version" THEN tx[t].writeVersion ELSE heap[n].version
           e == [heap[n] EXCEPT !.deleted = d, !.next = x, !.version = v]
           m == IF a[2] = "version" THEN NULL ELSE n
<1>3. a \in todo[t] /\ n \in Allocated /\ n \in Items(t)
  BY <1>2 DEF Due, TypeInv, Pointers, Control
<1>4. /\ heap[n] \in Node /\ heap[n].next \in Pointer /\ heap[n].deleted \in BOOLEAN
      /\ heap[n].version \in Nat
  BY <1>3, NodeAt
<1>5. x \in Pointer /\ d \in BOOLEAN /\ v \in Nat
  BY <1>3, <1>4 DEF TypeInv, TypeOK, Pointers, Transaction
<1>6. heap' = [heap EXCEPT ![n] = e]
  <2>1. heap \in Seq(Node) /\ n \in DOMAIN heap
    BY <1>3 DEF TypeInv, TypeOK, Allocated
  <2> QED  BY <1>1, <2>1
<1>7. Pointer \subseteq Ref
  BY HeapNodes DEF Pointer, Ref, TypeInv, TypeOK
<1>8. e \in Node /\ e.next \in Pointer
  <2> HIDE DEF x, d, v
  <2> QED  BY <1>4, <1>5, <1>7 DEF Node
<1>9. todo' \in [Threads -> SUBSET (Nodes \X Fields)] /\ todo'[t] \subseteq todo[t]
      /\ \A u \in Threads \ {t} : todo'[u] = todo[u]
  BY <1>1 DEF TypeInv, TypeOK
<1>10. m \in Pointer /\ reg' = [reg EXCEPT ![t].node = m]
  BY <1>1, <1>3 DEF Pointer
<1>11. /\ locks' = locks /\ locks' \in [Threads -> Seq(Nodes)] /\ locks'[t] \in Seq(Allocated)
  BY <1>2 DEF TypeInv, TypeOK, Pointers
<1> HIDE DEF e, m, n
<1> QED  BY <1>2, <1>3, <1>6, <1>8, <1>9, <1>10, <1>11, NodeStep

LEMMA UnlockTyped == ASSUME TypeInv, NEW t \in Threads, Unlock(t) PROVE TypeInv'
<1> DEFINE last == Len(locks[t])
           n == locks[t][last]
           e == [heap[n] EXCEPT !.owner = NoOwner, !.locked = FALSE]
<1>1. /\ locks[t] # <<>> /\ locks' = [locks EXCEPT ![t] = SubSeq(@, 1, last - 1)]
      /\ heap' = [heap EXCEPT ![n].owner = NoOwner, ![n].locked = FALSE]
      /\ UNCHANGED <<gvc, index, left, pc, ret, prog, tx, reg, todo, pos, trace, snap, net>>
  BY DEF Unlock, history
<1>2. locks[t] \in Seq(Allocated) /\ locks[t] \in Seq(Nodes)
  BY DEF TypeInv, TypeOK, Pointers
<1>3. last \in 1..Len(locks[t]) /\ last - 1 \in 0..Len(locks[t])
  BY <1>1, <1>2, EmptySeq, LenProperties
<1>4. n \in Allocated
  BY <1>2, <1>3, ElementOfSeq
<1>5. e \in Node /\ e.next \in Pointer
  BY <1>4, NodeAt DEF Node
<1>6. heap' = [heap EXCEPT ![n] = e]
  <2>1. heap \in Seq(Node) /\ n \in DOMAIN heap
    BY <1>4 DEF TypeInv, TypeOK, Allocated
  <2> HIDE DEF n
  <2> QED  BY <1>1, <2>1
<1>7. SubSeq(locks[t], 1, last - 1) \in Seq(Allocated) /\ SubSeq(locks[t], 1, last - 1) \in Seq(Nodes)
  BY <1>2, <1>3, SubSeqProperties
<1>8. /\ locks' \in [Threads -> Seq(Nodes)] /\ locks'[t] \in Seq(Allocated)
      /\ \A u \in Threads \ {t} : locks'[u] = locks[u]
  BY <1>1, <1>7 DEF TypeInv, TypeOK
<1> DEFINE m == reg[t].node
<1>9. reg' = [reg EXCEPT ![t].node = m] /\ m \in Pointer
  BY <1>1 DEF TypeInv, TypeOK, Registers, Pointers
<1>10. todo' \in [Threads -> SUBSET (Nodes \X Fields)] /\ todo' = todo
  BY <1>1 DEF TypeInv, TypeOK
<1>11. pc[t] = "load" => m = reg[t].node
  OBVIOUS
<1> HIDE DEF e, n, last, m
<1>12. /\ todo'[t] \subseteq todo[t] /\ \A u \in Threads \ {t} : todo'[u] = todo[u]
       /\ UNCHANGED <<gvc, index, left, pc, ret, prog, tx, pos, trace, snap, net>>
  BY <1>1, <1>10
<1> QED  BY <1>4, <1>5, <1>6, <1>8, <1>9, <1>10, <1>11, <1>12, NodeStep

LEMMA UpdateIndexTyped == ASSUME TypeInv, NEW t \in Threads, UpdateIndex(t) PROVE TypeInv'
<1>1. /\ tx[t].indexTodo # <<>> /\ index' = IndexAfter(tx[t].indexTodo[1])
      /\ tx' = [tx EXCEPT ![t].indexTodo = Tail(@)]
      /\ UNCHANGED <<gvc, heap, left, pc, ret, prog, reg, todo, pos, locks, trace, snap, net>>
      /\ Allocated' = Allocated /\ Pointer' = Pointer
  BY DEF UpdateIndex, history, Allocated, Pointer
<1>2. Allocated \subseteq Nodes
  BY HeapNodes DEF TypeInv, TypeOK
<1>3. tx[t] \in TxInto(Items(t), Allocated) /\ Items(t) \subseteq Allocated
  BY TxNow
<1>4. /\ tx[t].indexTodo \in Seq([node : Allocated, op : OpTypes])
      /\ tx[t].indexTodo[1] \in [node : Allocated, op : OpTypes]
      /\ Tail(tx[t].indexTodo) \in Seq([node : Allocated, op : OpTypes])
  <2> DEFINE S == [node : Allocated, op : OpTypes]
  <2>1. tx[t].indexTodo \in Seq(S)
    BY <1>3 DEF TxInto
  <2> HIDE DEF S
  <2>2. tx[t].indexTodo[1] \in S /\ Tail(tx[t].indexTodo) \in Seq(S)
    BY <1>1, <2>1
  <2> QED  BY <2>1, <2>2 DEF S
<1>5. index' \subseteq Allocated'
  BY <1>1, <1>4 DEF IndexAfter, TypeInv, TypeOK
<1>6. TxStep(t)
  <2> DEFINE r == [tx[t] EXCEPT !.indexTodo = Tail(tx[t].indexTodo)]
  <2>1. tx' = [tx EXCEPT ![t] = r]
    BY <1>1
  <2>2. /\ r \in TxInto(DOMAIN r.writeSet, Allocated')
        /\ DOMAIN r.writeSet \subseteq Allocated'
    BY <1>1, <1>3, <1>4 DEF TxInto
  <2> HIDE DEF r
  <2> QED  BY <1>1, <1>2, <2>1, <2>2, TxUpdate
<1>7. TypeOK'
  BY <1>1, <1>5, <1>6 DEF TypeInv, TypeOK, TxStep
<1>8. Items(t)' = Items(t)
  <2>1. tx[t] \in Transaction(Items(t))
    BY DEF TypeInv, TypeOK
  <2>2. tx'[t] = [tx[t] EXCEPT !.indexTodo = Tail(tx[t].indexTodo)]
    BY <1>1 DEF TypeInv, TypeOK
  <2> QED  BY <2>1, <2>2 DEF Items, Transaction
<1>9. Pointers(t)' /\ Control(t)'
  BY <1>1, <1>6, <1>8 DEF TypeInv, Pointers, Control, TxStep
<1>10. \A m \in Allocated' : heap'[m].next \in Pointer'
  BY <1>1 DEF TypeInv
<1>11. \A u \in Threads \ {t} : tx'[u] = tx[u]
  BY <1>6 DEF TxStep
<1> QED  BY <1>1, <1>7, <1>9, <1>10, <1>11, StepOf

LEMMA FinishTyped == ASSUME TypeInv, NEW t \in Threads, Finish(t) PROVE TypeInv'
<1>1. /\ pc' = [pc EXCEPT ![t] = "idle"] /\ prog' = [prog EXCEPT ![t] = <<>>]
      /\ tx' = [tx EXCEPT ![t] = NoTx] /\ reg' = [reg EXCEPT ![t] = NoReg]
      /\ pos' = [pos EXCEPT ![t] = 0]
      /\ UNCHANGED <<gvc, heap, index, left, ret, todo, locks, trace, snap, net>>
      /\ Allocated' = Allocated /\ Pointer' = Pointer
  BY DEF Finish, shared, history, Allocated, Pointer
<1>2. Allocated \subseteq Nodes
  BY HeapNodes DEF TypeInv, TypeOK
<1>3. TxStep(t)
  <2>1. NoTx \in TxInto(DOMAIN NoTx.writeSet, Allocated') /\ DOMAIN NoTx.writeSet = {}
    BY EmptySeq DEF NoTx, TxInto
  <2> QED  BY <1>1, <1>2, <2>1, TxUpdate
<1>4. NoReg \in Registers /\ NoReg.node = NULL /\ NoReg.next = NULL /\ NoReg.pred = NULL
  BY DEF NoReg, Registers, Ref
<1>5. <<>> \in Seq(Calls)
  BY EmptySeq
<1>6. /\ pc' \in [Threads -> PCs] /\ prog' \in [Threads -> Seq(Calls)]
      /\ reg' \in [Threads -> Registers] /\ pos' \in [Threads -> Nat]
      /\ pc'[t] = "idle" /\ reg'[t] = NoReg
      /\ \A u \in Threads \ {t} : reg'[u] = reg[u] /\ pc'[u] = pc[u] /\ prog'[u] = prog[u]
  BY <1>1, <1>4, <1>5 DEF TypeInv, TypeOK, PCs
<1>7. TypeOK'
  BY <1>1, <1>3, <1>6 DEF TypeInv, TypeOK, TxStep
<1>8. Pointers(t)' /\ Control(t)'
  BY <1>1, <1>3, <1>4, <1>6 DEF TypeInv, Pointers, Control, TxStep, Pointer
<1>9. \A m \in Allocated' : heap'[m].next \in Pointer'
  BY <1>1 DEF TypeInv
<1>10. \A u \in Threads \ {t} : tx'[u] = tx[u]
  BY <1>3 DEF TxStep
<1> QED  BY <1>1, <1>6, <1>7, <1>8, <1>9, <1>10, StepOf

\* How often a trace holds an answer is a number.
LEMMA TimesNat ==
  ASSUME NEW tr \in Seq(Answers), NEW op, NEW k PROVE Times(tr, op, k) \in Nat
<1>1. DOMAIN tr = 1..Len(tr) /\ Len(tr) \in Nat
  BY LenProperties
<1>2. IsFiniteSet(DOMAIN tr)
  BY <1>1, FS_Interval
<1>3. IsFiniteSet({i \in DOMAIN tr : tr[i] = [op |-> op, key |-> k, ok |-> TRUE]})
  BY <1>2, FS_Subset
<1> QED  BY <1>3, FS_CardinalityType DEF Times

LEMMA AddAndFetchTyped == ASSUME TypeInv, NEW t \in Threads, AddAndFetch(t) PROVE TypeInv'
<1>1. /\ gvc' = gvc + 1 /\ tx' = [tx EXCEPT ![t].writeVersion = gvc + 1]
      /\ pc' = [pc EXCEPT ![t] = "publish"] /\ ret' = [ret EXCEPT ![t] = "none"]
      /\ reg' = [reg EXCEPT ![t] = NoReg]
      /\ todo' = [todo EXCEPT ![t] = Stores(tx[t].writeSet)]
      /\ net' = [k \in Keys |-> net[k] + Times(trace[t], "insert", k) - Times(trace[t], "remove", k)]
      /\ trace' = [trace EXCEPT ![t] = <<>>] /\ snap' = [snap EXCEPT ![t] = {}]
      /\ UNCHANGED <<heap, index, left, prog, pos, locks>>
      /\ Allocated' = Allocated /\ Pointer' = Pointer
  BY DEF AddAndFetch, Allocated, Pointer
<1>2. Allocated \subseteq Nodes
  BY HeapNodes DEF TypeInv, TypeOK
<1>3. tx[t] \in TxInto(Items(t), Allocated) /\ Items(t) \subseteq Allocated
  BY TxNow
<1>4. TxStep(t) /\ Items(t)' = Items(t)
  <2> DEFINE r == [tx[t] EXCEPT !.writeVersion = gvc + 1]
  <2>1. tx' = [tx EXCEPT ![t] = r]
    BY <1>1
  <2>2. /\ r \in TxInto(DOMAIN r.writeSet, Allocated') /\ r.writeSet = tx[t].writeSet
        /\ DOMAIN r.writeSet \subseteq Allocated'
    <3>1. gvc + 1 \in Nat
      BY DEF TypeInv, TypeOK
    <3>2. Items(t) = DOMAIN tx[t].writeSet
      BY DEF Items
    <3> QED  BY <1>1, <1>3, <3>1, <3>2 DEF TxInto
  <2>3. tx'[t] = r
    BY <2>1 DEF TypeInv, TypeOK
  <2> HIDE DEF r
  <2> QED  BY <1>1, <1>2, <2>1, <2>2, <2>3, TxUpdate DEF Items
<1>5. NoReg \in Registers /\ NoReg.node = NULL /\ NoReg.next = NULL /\ NoReg.pred = NULL
  BY DEF NoReg, Registers, Ref
<1>6. net' \in [Keys -> Int]
  <2>1. \A k \in Keys : Times(trace[t], "insert", k) \in Nat /\ Times(trace[t], "remove", k) \in Nat
    BY TimesNat DEF TypeInv, TypeOK
  <2> QED  BY <1>1, <2>1 DEF TypeInv, TypeOK
<1>7. Stores(tx[t].writeSet) \subseteq Items(t) \X Fields
  BY DEF Stores, Items, Fields
<1>8. todo' \in [Threads -> SUBSET (Nodes \X Fields)] /\ todo'[t] \subseteq Items(t) \X Fields
  <2>1. Stores(tx[t].writeSet) \subseteq Nodes \X Fields
    BY <1>2, <1>3, <1>7
  <2> QED  BY <1>1, <1>7, <2>1 DEF TypeInv, TypeOK
<1>9. trace' \in [Threads -> Seq(Answers)] /\ snap' \in [Threads -> SUBSET Int]
  BY <1>1, EmptySeq DEF TypeInv, TypeOK
<1>10. /\ pc' \in [Threads -> PCs] /\ ret' \in [Threads -> Rets]
       /\ reg' \in [Threads -> Registers] /\ gvc' \in Nat
       /\ pc'[t] = "publish" /\ reg'[t] = NoReg
  BY <1>1, <1>5 DEF TypeInv, TypeOK, PCs, Rets
<1>11. \A u \in Threads \ {t} : /\ reg'[u] = reg[u] /\ todo'[u] = todo[u] /\ pc'[u] = pc[u]
                                /\ ret'[u] = ret[u] /\ tx'[u] = tx[u]
  BY <1>1, <1>4 DEF TypeInv, TypeOK, TxStep
<1>12. TypeOK'
  BY <1>1, <1>4, <1>6, <1>8, <1>9, <1>10 DEF TypeInv, TypeOK, TxStep
<1>13. Pointers(t)'
  BY <1>1, <1>3, <1>4, <1>5, <1>8, <1>10 DEF TypeInv, Pointers, TxStep, Pointer
<1>14. Control(t)'
  BY <1>4, <1>8, <1>10 DEF Control
<1>15. \A m \in Allocated' : heap'[m].next \in Pointer'
  BY <1>1 DEF TypeInv
<1> QED  BY <1>1, <1>11, <1>12, <1>13, <1>14, <1>15, StepOf

-----------------------------------------------------------------------------
LEMMA NextTyped == TypeInv /\ [Next]_vars => TypeInv'
<1> SUFFICES ASSUME TypeInv, [Next]_vars PROVE TypeInv'
  OBVIOUS
<1>1. ASSUME NEW t \in Threads, Step(t) PROVE TypeInv'
  BY <1>1, TXBeginTyped, LoadTyped, SeekTyped, RestartTyped, WalkTyped, ContainsTyped, InsertTyped,
     RefuseTyped, RemoveTyped, UnlinkTyped, TXCommitTyped, TryLockTyped, ValidateTyped,
     InvalidTyped, AddAndFetchTyped, StoreTyped, UnlockTyped, UpdateIndexTyped, FinishTyped
     DEF Step
<1>2. ASSUME UNCHANGED vars PROVE TypeInv'
  BY <1>2 DEF vars, TypeInv, TypeOK, Pointers, Control, Pointer, Allocated, Items
<1> QED  BY <1>1, <1>2 DEF Next, Done

\* TypeInv is an invariant of the transactional skip list.
THEOREM PointersCorrect == Spec => []TypeInv
<1>1. Init => TypeInv
  BY InitTyped
<1>2. TypeInv /\ [Next]_vars => TypeInv'
  BY NextTyped
<1> QED  BY <1>1, <1>2, PTL DEF Spec

\* Every variable keeps its type, and the index never leads outside the heap.
THEOREM TypeCorrect == Spec => []TypeOK
<1>1. TypeInv => TypeOK
  BY DEF TypeInv
<1> QED  BY <1>1, PointersCorrect, PTL

-----------------------------------------------------------------------------
\* Mutexes and versions.

\* The parts of TXCommit in which a thread may hold mutexes, ...
MayHold(t) == pc[t] \in {"lock", "publish", "abort"} \/ (pc[t] = "load" /\ ret[t] = "validate")

\* ... and those in which it relies on holding the mutexes of its write set.
Relies(t) == (pc[t] = "load" /\ ret[t] = "validate") \/ (pc[t] = "publish" /\ todo[t] # {})

Holds(t) == /\ \A i \in DOMAIN locks[t] : heap[locks[t][i]].owner = t
            /\ \A i, j \in DOMAIN locks[t] : i # j => locks[t][i] # locks[t][j]

Stage(t) == /\ locks[t] # <<>> => MayHold(t)
            /\ Relies(t) => Items(t) \subseteq Elems(locks[t])

Listed == \A n \in Allocated : heap[n].owner # NoOwner => n \in Elems(locks[heap[n].owner])

LockInv == /\ \A t \in Threads : Holds(t) /\ Stage(t)
           /\ Listed

\* Of the clock: no version is ahead of it, and a version about to be stored is
\* newer than the one in place.
Pending(t) == \A n \in Items(t) :
                 (pc[t] = "publish" /\ <<n, "version">> \in todo[t])
                    => heap[n].version < tx[t].writeVersion

ClockInv == /\ \A n \in Allocated : heap[n].version <= gvc
            /\ \A t \in Threads : /\ tx[t].readVersion <= gvc /\ tx[t].writeVersion <= gvc
                                  /\ Pending(t)

-----------------------------------------------------------------------------
LEMMA InitLocked == Init => LockInv /\ ClockInv
<1> SUFFICES ASSUME Init PROVE LockInv /\ ClockInv
  OBVIOUS
<1>1. \A t \in Threads : pc[t] = "idle" /\ locks[t] = <<>> /\ tx[t] = NoTx
  BY DEF Init
<1>2. \A n \in Allocated : heap[n].owner = NoOwner /\ heap[n].version = gvc
  BY DEF Init, Allocated
<1>3. gvc \in {0, 1}
  BY DEF Init
<1>4. \A n \in Allocated : heap[n].version <= gvc
  BY <1>2, <1>3
<1>5. NoTx.readVersion = 0 /\ NoTx.writeVersion = 0
  BY DEF NoTx
<1>6. ClockInv
  BY <1>1, <1>3, <1>4, <1>5 DEF ClockInv, Pending
<1>7. LockInv
  BY <1>1, <1>2 DEF LockInv, Holds, Stage, Listed, Relies
<1> QED  BY <1>6, <1>7

\* A step of t that leaves the mutexes alone keeps LockInv if it keeps t's stage.
LEMMA LockKeep ==
  ASSUME TypeInv, LockInv, NEW t \in Threads, locks' = locks, Allocated \subseteq Allocated',
         \A n \in Allocated : heap'[n].owner = heap[n].owner,
         \A n \in Allocated' \ Allocated : heap'[n].owner = NoOwner,
         Stage(t)',
         \A u \in Threads \ {t} : /\ pc'[u] = pc[u] /\ ret'[u] = ret[u]
                                 /\ todo'[u] = todo[u] /\ tx'[u] = tx[u]
  PROVE  LockInv'
<1>1. ASSUME NEW u \in Threads PROVE Holds(u)'
  <2>1. \A i \in DOMAIN locks[u] : locks[u][i] \in Allocated
    BY ElementOfSeq, LenProperties DEF TypeInv, Pointers
  <2> QED  BY <2>1 DEF LockInv, Holds
<1>2. ASSUME NEW u \in Threads \ {t} PROVE Stage(u)'
  BY DEF LockInv, Stage, MayHold, Relies, Items, Elems
<1>3. Listed'
  BY DEF LockInv, Listed, Elems
<1> QED  BY <1>1, <1>2, <1>3 DEF LockInv

\* The same for a step that leaves the heap alone too.
LEMMA LockSame ==
  ASSUME TypeInv, LockInv, NEW t \in Threads, locks' = locks, heap' = heap, Stage(t)',
         \A u \in Threads \ {t} : /\ pc'[u] = pc[u] /\ ret'[u] = ret[u]
                                 /\ todo'[u] = todo[u] /\ tx'[u] = tx[u]
  PROVE  LockInv'
BY LockKeep DEF Allocated

\* Throwing is a stage in which mutexes may be held, and none is relied upon.
LEMMA ThrowLocked ==
  ASSUME TypeInv, LockInv, NEW t \in Threads, Throw(t), locks' = locks, heap' = heap, tx' = tx
  PROVE  LockInv'
<1>1. /\ pc'[t] = "abort" /\ \A u \in Threads \ {t} : /\ pc'[u] = pc[u] /\ ret'[u] = ret[u]
                                                     /\ todo'[u] = todo[u]
  BY ThrowTyped
<1>2. Stage(t)'
  BY <1>1 DEF Stage, MayHold, Relies
<1> QED  BY <1>1, <1>2, LockSame

\* In the middle of a call a thread holds no mutex, and entering getValidatedValue
\* from there it still holds none.
LEMMA VisitLocked ==
  ASSUME TypeInv, LockInv, NEW t \in Threads, NEW n \in Allocated, NEW wantDeleted \in BOOLEAN,
         NEW after \in Rets, NEW pred \in Pointer, Visit(t, n, wantDeleted, after, pred),
         after # "validate", locks[t] = <<>>, locks' = locks, heap' = heap,
         \A u \in Threads \ {t} : tx'[u] = tx[u]
  PROVE  LockInv'
<1>1. /\ pc'[t] = "load" /\ ret'[t] = after
      /\ \A u \in Threads \ {t} : /\ pc'[u] = pc[u] /\ ret'[u] = ret[u] /\ todo'[u] = todo[u]
  BY VisitTyped
<1>2. Stage(t)'
  BY <1>1 DEF Stage, Relies
<1> QED  BY <1>1, <1>2, LockSame

LEMMA NoneHeld ==
  ASSUME LockInv, NEW t \in Threads,
         pc[t] \in {"idle", "ready"} \/ (pc[t] = "load" /\ ret[t] # "validate")
  PROVE  locks[t] = <<>>
BY DEF LockInv, Stage, MayHold

LEMMA BeginLocked == ASSUME TypeInv, LockInv, NEW t \in Threads, TXBegin(t) PROVE LockInv'
<1>1. locks[t] = <<>>
  BY NoneHeld DEF TXBegin
<1>2. /\ locks' = locks /\ heap' = heap /\ ret' = ret /\ todo' = todo
      /\ pc'[t] = "ready" /\ \A u \in Threads \ {t} : pc'[u] = pc[u] /\ tx'[u] = tx[u]
  BY DEF TXBegin, shared, TypeInv, TypeOK
<1> QED  BY <1>1, <1>2, LockSame DEF Stage, Relies

LEMMA LoadLocked == ASSUME TypeInv, LockInv, NEW t \in Threads, Load(t) PROVE LockInv'
<1>1. locks' = locks /\ heap' = heap /\ tx' = tx /\ pc[t] = "load"
  BY DEF Load, shared
<1>2. CASE Throw(t)
  BY <1>1, <1>2, ThrowLocked
<1>3. CASE ~Throw(t)
  <2>1. PICK a : todo' = [todo EXCEPT ![t] = @ \ {a}] /\ pc' = pc /\ ret' = ret
    BY <1>3 DEF Load
  <2>2. Stage(t)'
    BY <1>1, <2>1 DEF LockInv, Stage, MayHold, Relies, Items, Elems
  <2>3. \A u \in Threads \ {t} : todo'[u] = todo[u]
    BY <2>1 DEF TypeInv, TypeOK
  <2> QED  BY <1>1, <2>1, <2>2, <2>3, LockSame
<1> QED  BY <1>2, <1>3

LEMMA TraverseLocked ==
  ASSUME TypeInv, LockInv, NEW t \in Threads, Seek(t) \/ Restart(t) \/ Walk(t) \/ Remove(t)
  PROVE  LockInv'
<1>1. locks[t] = <<>>
  BY NoneHeld DEF Seek, Restart, Walk, Remove, Arrived, InWalk, Loaded
<1>2. locks' = locks /\ heap' = heap /\ \A u \in Threads \ {t} : tx'[u] = tx[u]
  BY DEF Seek, Restart, Walk, Remove, shared, TypeInv, TypeOK
<1>3. NULL \in Pointer /\ {"start", "walk", "unlink"} \subseteq Rets
  BY DEF Pointer, Rets
<1>4. CASE Seek(t)
  <2>1. PICK n \in GetPrev(prog[t][1].key) : Visit(t, n, TRUE, "start", NULL)
    BY <1>4 DEF Seek
  <2> QED  BY <1>1, <1>2, <1>3, <2>1, GetPrevAllocated, VisitLocked
<1>5. CASE Restart(t)
  <2>1. PICK n \in GetPrev(heap[reg[t].node].key) : Visit(t, n, TRUE, "start", NULL)
    BY <1>5 DEF Restart
  <2> QED  BY <1>1, <1>2, <1>3, <2>1, GetPrevAllocated, VisitLocked
<1>6. CASE Walk(t)
  <2>1. Visit(t, reg[t].next, TRUE, "walk", NULL) /\ reg[t].next \in Allocated
    BY <1>6 DEF Walk, More, TypeInv, Pointers, Pointer
  <2> QED  BY <1>1, <1>2, <1>3, <2>1, VisitLocked
<1>7. CASE Remove(t)
  <2>1. /\ Visit(t, Succ(t), FALSE, "unlink", reg[t].node) /\ Succ(t) \in Allocated
        /\ reg[t].node \in Pointer
    BY <1>7 DEF Remove, Present, Succ, TypeInv, Pointers, Pointer
  <2> QED  BY <1>1, <1>2, <1>3, <2>1, VisitLocked
<1> QED  BY <1>4, <1>5, <1>6, <1>7

\* A call that returns leaves a thread with no mutex.
LEMMA ReturnLocked ==
  ASSUME TypeInv, LockInv, NEW t \in Threads,
         Contains(t) \/ Refuse(t) \/ Unlink(t) \/ Insert(t)
  PROVE  LockInv'
<1>1. locks[t] = <<>>
  BY NoneHeld DEF Contains, Refuse, Unlink, Insert, Arrived, InWalk, Loaded
<1>2. PICK ok : Return(t, ok)
  BY DEF Contains, Refuse, Unlink, Insert
<1>3. /\ locks' = locks /\ todo' = todo /\ pc'[t] = "ready"
      /\ \A u \in Threads \ {t} : pc'[u] = pc[u] /\ ret'[u] = ret[u] /\ tx'[u] = tx[u]
  BY <1>2 DEF Return, Contains, Refuse, Unlink, Insert, TypeInv, TypeOK
<1>4. Stage(t)'
  BY <1>1, <1>3 DEF Stage, Relies
<1>5. CASE ~Insert(t)
  <2>1. heap' = heap
    BY <1>5 DEF Contains, Refuse, Unlink, shared
  <2> QED  BY <1>3, <1>4, <2>1, LockSame
<1>6. CASE Insert(t)
  <2>1. heap' = Append(heap, NewNode(t)) /\ heap \in Seq(Node)
    BY <1>6 DEF Insert, Allocate, TypeInv, TypeOK
  <2>2. /\ Allocated = 1..Len(heap) /\ Allocated' = 1..(Len(heap) + 1) /\ Len(heap) \in Nat
        /\ \A n \in Allocated : heap'[n] = heap[n]
        /\ heap'[Len(heap) + 1] = NewNode(t)
    BY <2>1, AppendProperties, LenProperties DEF Allocated
  <2>3. \A n \in Allocated' \ Allocated : heap'[n].owner = NoOwner
    BY <2>2 DEF NewNode
  <2> QED  BY <1>3, <1>4, <2>2, <2>3, LockKeep
<1> QED  BY <1>5, <1>6

LEMMA TXCommitLocked == ASSUME TypeInv, LockInv, NEW t \in Threads, TXCommit(t) PROVE LockInv'
<1>1. /\ locks' = locks /\ heap' = heap /\ ret' = ret /\ todo' = todo /\ tx' = tx
      /\ pc'[t] = "lock" /\ \A u \in Threads \ {t} : pc'[u] = pc[u]
  BY DEF TXCommit, shared, TypeInv, TypeOK
<1> QED  BY <1>1, LockSame DEF Stage, MayHold, Relies

LEMMA TryLockLocked == ASSUME TypeInv, LockInv, NEW t \in Threads, TryLock(t) PROVE LockInv'
<1>1. PICK n \in Items(t) \ Elems(locks[t]) :
        IF Free(n) THEN Lock(t, n) ELSE Throw(t) /\ UNCHANGED <<heap, locks>>
  BY DEF TryLock
<1>2. tx' = tx /\ pc[t] = "lock"
  BY DEF TryLock
<1>3. CASE ~Free(n)
  BY <1>1, <1>2, <1>3, ThrowLocked
<1>4. CASE Free(n)
  <2>1. /\ heap' = [heap EXCEPT ![n].owner = t] /\ locks' = [locks EXCEPT ![t] = Append(@, n)]
        /\ pc' = pc /\ ret' = ret /\ todo' = todo
    BY <1>1, <1>4 DEF Lock
  <2>2. n \in Allocated /\ heap[n].owner = NoOwner /\ heap \in Seq(Node)
    BY <1>4 DEF TypeInv, TypeOK, Pointers, Free
  <2>3. /\ Allocated' = Allocated /\ heap'[n].owner = t
        /\ \A m \in Allocated \ {n} : heap'[m].owner = heap[m].owner
    BY <2>1, <2>2, NodeAt DEF Allocated, Node
  <2> DEFINE s == locks[t]
             r == Append(s, n)
  <2>4. /\ s \in Seq(Allocated) /\ DOMAIN s = 1..Len(s) /\ DOMAIN r = 1..(Len(s) + 1)
        /\ Len(s) \in Nat /\ r[Len(s) + 1] = n /\ \A i \in DOMAIN s : r[i] = s[i]
    BY <2>2, AppendProperties, LenProperties DEF TypeInv, Pointers
  <2>5. locks'[t] = r /\ \A u \in Threads \ {t} : locks'[u] = locks[u]
    BY <2>1 DEF TypeInv, TypeOK
  <2> HIDE DEF r
  <2>6. \A u \in Threads : \A i \in DOMAIN locks[u] :
          locks[u][i] \in Allocated /\ heap[locks[u][i]].owner = u /\ locks[u][i] # n
    BY <2>2, ThreadsAssumption, ElementOfSeq, LenProperties DEF TypeInv, Pointers, LockInv, Holds
  <2>7. Holds(t)'
    <3>1. \A i \in DOMAIN r : heap'[r[i]].owner = t
      BY <2>3, <2>4, <2>6
    <3>2. \A i, j \in DOMAIN r : i # j => r[i] # r[j]
      BY <2>4, <2>6 DEF LockInv, Holds
    <3> QED  BY <2>5, <3>1, <3>2 DEF Holds
  <2>8. ASSUME NEW u \in Threads \ {t} PROVE Holds(u)'
    BY <2>3, <2>5, <2>6 DEF LockInv, Holds
  <2>9. ASSUME NEW u \in Threads PROVE Stage(u)'
    <3>1. CASE u = t
      BY <1>2, <2>1, <3>1 DEF Stage, MayHold, Relies
    <3>2. CASE u # t
      BY <1>2, <2>1, <2>5, <3>2 DEF LockInv, Stage, MayHold, Relies, Items, Elems
    <3> QED  BY <3>1, <3>2
  <2>10. Listed'
    <3> SUFFICES ASSUME NEW m \in Allocated, heap'[m].owner # NoOwner
                 PROVE  m \in Elems(locks'[heap'[m].owner])
      BY <2>3 DEF Listed, Elems
    <3>1. Elems(r) = Elems(s) \cup {n}
      BY <2>4 DEF Elems
    <3>2. CASE m = n
      BY <2>3, <2>5, <3>1, <3>2
    <3>3. CASE m # n
      <4>1. heap'[m].owner = heap[m].owner /\ m \in Elems(locks[heap[m].owner])
        BY <2>3, <3>3 DEF LockInv, Listed
      <4>2. heap[m].owner \in Threads
        BY <4>1, NodeAt
      <4> QED  BY <2>5, <3>1, <4>1, <4>2
    <3> QED  BY <3>2, <3>3
  <2> QED  BY <2>7, <2>8, <2>9, <2>10 DEF LockInv
<1> QED  BY <1>3, <1>4

\* Once a thread validates or writes back, it has locked its write set.
LEMMA ValidateLocked == ASSUME TypeInv, LockInv, NEW t \in Threads, Validate(t) PROVE LockInv'
<1>1. /\ pos[t] < Len(tx[t].readSet) /\ Visit(t, tx[t].readSet[pos[t] + 1], FALSE, "validate", NULL)
      /\ heap' = heap /\ tx' = tx /\ locks' = locks
  BY DEF Validate, shared
<1>2. Items(t) \subseteq Elems(locks[t])
  BY DEF Validate, Validating, Loaded, LockInv, Stage, Relies
<1>3. /\ pc'[t] = "load" /\ ret'[t] = "validate"
      /\ \A u \in Threads \ {t} : /\ pc'[u] = pc[u] /\ ret'[u] = ret[u] /\ todo'[u] = todo[u]
  BY <1>1 DEF Visit, TypeInv, TypeOK
<1>4. Stage(t)'
  BY <1>1, <1>2, <1>3 DEF Stage, MayHold, Items, Elems
<1> QED  BY <1>1, <1>3, <1>4, LockSame

LEMMA AddAndFetchLocked ==
  ASSUME TypeInv, LockInv, NEW t \in Threads, AddAndFetch(t) PROVE LockInv'
<1>1. /\ tx' = [tx EXCEPT ![t].writeVersion = gvc + 1] /\ heap' = heap /\ locks' = locks
      /\ pc' = [pc EXCEPT ![t] = "publish"] /\ ret' = [ret EXCEPT ![t] = "none"]
      /\ todo' = [todo EXCEPT ![t] = Stores(tx[t].writeSet)]
  BY DEF AddAndFetch
<1>2. Items(t) \subseteq Elems(locks[t])
  BY DEF AddAndFetch, Validating, Loaded, LockInv, Stage, Relies
<1>3. Items(t)' = Items(t) /\ pc'[t] = "publish"
  <2>1. tx'[t] = [tx[t] EXCEPT !.writeVersion = gvc + 1] /\ tx[t] \in Transaction(Items(t))
    BY <1>1 DEF TypeInv, TypeOK
  <2> QED  BY <1>1, <2>1 DEF Items, Transaction, TypeInv, TypeOK
<1>4. Stage(t)'
  BY <1>1, <1>2, <1>3 DEF Stage, MayHold, Elems
<1>5. \A u \in Threads \ {t} : /\ pc'[u] = pc[u] /\ ret'[u] = ret[u]
                              /\ todo'[u] = todo[u] /\ tx'[u] = tx[u]
  BY <1>1 DEF TypeInv, TypeOK
<1> QED  BY <1>1, <1>4, <1>5, LockSame

\* Thread t stores field f of node n, which is in its write set and locked by it.
StoreOf(t, n, f) ==
    /\ n \in Items(t) /\ n \in Allocated /\ heap[n].owner = t
    /\ <<n, f>> \in todo[t] /\ pc[t] = "publish"
    /\ Allocated' = Allocated /\ \A m \in Allocated \ {n} : heap'[m] = heap[m]
    /\ heap'[n].owner = heap[n].owner
    /\ heap'[n].version = IF f = "version" THEN tx[t].writeVersion ELSE heap[n].version
    /\ todo' = [todo EXCEPT ![t] = @ \ {<<n, f>>}]
    /\ UNCHANGED <<gvc, pc, ret, tx, locks>>

LEMMA StoreEffect ==
  ASSUME TypeInv, LockInv, NEW t \in Threads, Store(t)
  PROVE  \E n \in Nodes, f \in Fields : StoreOf(t, n, f)
<1>1. PICK a \in Due(todo[t], StoreOrder) :
        /\ heap' = [heap EXCEPT
             ![a[1]].deleted = IF a[2] = "deleted" THEN TRUE ELSE @,
             ![a[1]].next = IF a[2] = "next" THEN tx[t].writeSet[a[1]].next ELSE @,
             ![a[1]].version = IF a[2] = "version" THEN tx[t].writeVersion ELSE @]
        /\ todo' = [todo EXCEPT ![t] = @ \ {a}]
  BY DEF Store
<1>2. UNCHANGED <<gvc, pc, ret, tx, locks>> /\ pc[t] = "publish"
  BY DEF Store
<1> DEFINE n == a[1]
           f == a[2]
<1>3. a \in todo[t] /\ a \in Allocated \X Fields /\ n \in Items(t)
  BY <1>2 DEF Due, TypeInv, Pointers, Control
<1>4. a = <<n, f>> /\ n \in Allocated /\ f \in Fields
  BY <1>3
<1>5. heap[n].owner = t
  BY <1>2, <1>3 DEF LockInv, Stage, Relies, Holds, Elems
<1>6. heap \in Seq(Node) /\ heap[n] \in Node
  BY <1>4, NodeAt DEF TypeInv, TypeOK
<1>7. /\ Allocated' = Allocated /\ \A m \in Allocated \ {n} : heap'[m] = heap[m]
      /\ heap'[n].owner = heap[n].owner
      /\ heap'[n].version = IF f = "version" THEN tx[t].writeVersion ELSE heap[n].version
  BY <1>1, <1>4, <1>6 DEF Allocated, Node
<1>8. n \in Nodes
  BY <1>4, HeapNodes DEF TypeInv, TypeOK
<1>9. StoreOf(t, n, f)
  BY <1>1, <1>2, <1>3, <1>4, <1>5, <1>7 DEF StoreOf
<1> QED  BY <1>4, <1>8, <1>9

LEMMA StoreLocked == ASSUME TypeInv, LockInv, NEW t \in Threads, Store(t) PROVE LockInv'
<1>0. PICK n \in Nodes, f \in Fields : StoreOf(t, n, f)
  BY StoreEffect
<1>1. /\ Allocated' = Allocated /\ \A m \in Allocated \ {n} : heap'[m] = heap[m]
      /\ heap'[n].owner = heap[n].owner
      /\ todo' = [todo EXCEPT ![t] = @ \ {<<n, f>>}]
      /\ UNCHANGED <<gvc, pc, ret, tx, locks>>
  BY <1>0 DEF StoreOf
<1>2. /\ todo'[t] = todo[t] \ {<<n, f>>}
      /\ \A u \in Threads \ {t} : todo'[u] = todo[u]
  BY <1>1 DEF TypeInv, TypeOK
<1>3. Stage(t)'
  BY <1>1, <1>2 DEF LockInv, Stage, MayHold, Relies, Items, Elems
<1>4. \A m \in Allocated : heap'[m].owner = heap[m].owner
  BY <1>1
<1> QED  BY <1>1, <1>2, <1>3, <1>4, LockKeep

\* The effect of an unlock on the owners.
LEMMA UnlockEffect ==
  ASSUME TypeInv, NEW t \in Threads, Unlock(t)
  PROVE  LET last == Len(locks[t])  n == locks[t][last]
         IN /\ last \in Nat \ {0} /\ DOMAIN locks[t] = 1..last /\ n \in Allocated
            /\ Allocated' = Allocated /\ heap'[n].owner = NoOwner
            /\ heap'[n].version = heap[n].version /\ heap'[n].next = heap[n].next
            /\ heap'[n].deleted = heap[n].deleted
            /\ \A m \in Allocated \ {n} : heap'[m] = heap[m]
            /\ DOMAIN locks'[t] = 1..(last - 1)
            /\ \A i \in 1..(last - 1) : locks'[t][i] = locks[t][i]
            /\ \A u \in Threads \ {t} : locks'[u] = locks[u]
            /\ ~Relies(t) /\ MayHold(t)
            /\ UNCHANGED <<gvc, pc, ret, tx, todo>>
<1> DEFINE last == Len(locks[t])
           n == locks[t][last]
<1>1. /\ locks[t] # <<>> /\ locks' = [locks EXCEPT ![t] = SubSeq(@, 1, last - 1)]
      /\ heap' = [heap EXCEPT ![n].owner = NoOwner, ![n].locked = FALSE]
      /\ UNCHANGED <<gvc, pc, ret, tx, todo>>
  BY DEF Unlock
<1>2. locks[t] \in Seq(Allocated)
  BY DEF TypeInv, Pointers
<1>3. last \in Nat \ {0} /\ DOMAIN locks[t] = 1..last /\ last - 1 \in 0..last
  BY <1>1, <1>2, EmptySeq, LenProperties
<1>4. n \in Allocated
  BY <1>2, <1>3, ElementOfSeq
<1>5. heap \in Seq(Node) /\ heap[n] \in Node
  BY <1>4, NodeAt DEF TypeInv, TypeOK
<1>6. /\ Allocated' = Allocated /\ heap'[n].owner = NoOwner
      /\ heap'[n].version = heap[n].version /\ heap'[n].next = heap[n].next
      /\ heap'[n].deleted = heap[n].deleted
      /\ \A m \in Allocated \ {n} : heap'[m] = heap[m]
  <2> HIDE DEF n
  <2> QED  BY <1>1, <1>4, <1>5 DEF Allocated, Node
<1>7. locks'[t] = SubSeq(locks[t], 1, last - 1) /\ \A u \in Threads \ {t} : locks'[u] = locks[u]
  BY <1>1 DEF TypeInv, TypeOK
<1>8. DOMAIN locks'[t] = 1..(last - 1) /\ \A i \in 1..(last - 1) : locks'[t][i] = locks[t][i]
  BY <1>2, <1>3, <1>7, SubSeqProperties
<1>9. ~Relies(t) /\ MayHold(t)
  BY DEF Unlock, Written, Relies, MayHold
<1> QED  BY <1>1, <1>3, <1>4, <1>6, <1>7, <1>8, <1>9

LEMMA UnlockLocked == ASSUME TypeInv, LockInv, NEW t \in Threads, Unlock(t) PROVE LockInv'
<1> DEFINE last == Len(locks[t])
           n == locks[t][last]
<1>1. /\ last \in Nat \ {0} /\ DOMAIN locks[t] = 1..last /\ n \in Allocated
      /\ Allocated' = Allocated /\ heap'[n].owner = NoOwner
      /\ \A m \in Allocated \ {n} : heap'[m] = heap[m]
      /\ DOMAIN locks'[t] = 1..(last - 1)
      /\ \A i \in 1..(last - 1) : locks'[t][i] = locks[t][i]
      /\ \A u \in Threads \ {t} : locks'[u] = locks[u]
      /\ ~Relies(t) /\ MayHold(t)
      /\ UNCHANGED <<gvc, pc, ret, tx, todo>>
  BY UnlockEffect
<1>2. last \in DOMAIN locks[t]
  BY <1>1
<1> HIDE DEF last
<1>3. \A u \in Threads : \A i \in DOMAIN locks[u] :
        locks[u][i] \in Allocated /\ heap[locks[u][i]].owner = u
  BY ElementOfSeq, LenProperties DEF TypeInv, Pointers, LockInv, Holds
<1>4. heap[n].owner = t
  BY <1>2, <1>3
<1>5. Holds(t)'
  <2>1. \A i \in 1..(last - 1) : i \in DOMAIN locks[t] /\ i # last
    BY <1>1
  <2>2. \A i \in 1..(last - 1) : locks[t][i] # n
    BY <1>2, <2>1 DEF LockInv, Holds
  <2>3. \A i \in 1..(last - 1) : heap'[locks'[t][i]].owner = t
    <3> HIDE DEF n
    <3> QED  BY <1>1, <1>3, <2>1, <2>2
  <2>4. \A i, j \in 1..(last - 1) : i # j => locks'[t][i] # locks'[t][j]
    BY <1>1, <2>1 DEF LockInv, Holds
  <2> QED  BY <1>1, <2>3, <2>4 DEF Holds
<1>6. ASSUME NEW u \in Threads \ {t} PROVE Holds(u)'
  <2>1. \A i \in DOMAIN locks[u] : locks[u][i] # n
    BY <1>3, <1>4
  <2>2. \A i \in DOMAIN locks[u] : heap'[locks[u][i]].owner = u
    <3> HIDE DEF n
    <3> QED  BY <1>1, <1>3, <2>1
  <2> QED  BY <1>1, <2>2 DEF LockInv, Holds
<1>7. ASSUME NEW u \in Threads PROVE Stage(u)'
  <2>1. CASE u = t
    BY <1>1, <2>1 DEF Stage, MayHold, Relies
  <2>2. CASE u # t
    BY <1>1, <2>2 DEF LockInv, Stage, MayHold, Relies, Items, Elems
  <2> QED  BY <2>1, <2>2
<1>8. Listed'
  <2> SUFFICES ASSUME NEW m \in Allocated, heap'[m].owner # NoOwner
               PROVE  m \in Elems(locks'[heap'[m].owner])
    BY <1>1 DEF Listed, Elems
  <2>1. m # n
    BY <1>1
  <2>2. heap'[m].owner = heap[m].owner /\ m \in Elems(locks[heap[m].owner])
    BY <1>1, <2>1 DEF LockInv, Listed
  <2>3. PICK i \in DOMAIN locks[heap[m].owner] : locks[heap[m].owner][i] = m
    BY <2>2 DEF Elems
  <2>4. CASE heap[m].owner = t
    <3>1. i # last /\ i \in 1..last
      BY <1>1, <2>1, <2>3, <2>4
    <3>2. i \in 1..(last - 1)
      BY <1>1, <3>1
    <3>3. locks'[t][i] = m /\ i \in DOMAIN locks'[t]
      BY <1>1, <2>3, <2>4, <3>2
    <3> QED  BY <2>2, <2>4, <3>3 DEF Elems
  <2>5. CASE heap[m].owner # t
    <3>1. heap[m].owner \in Threads
      BY <2>2, NodeAt
    <3> QED  BY <1>1, <2>2, <2>5, <3>1
  <2> QED  BY <2>4, <2>5
<1> QED  BY <1>5, <1>6, <1>7, <1>8 DEF LockInv

LEMMA UpdateIndexLocked ==
  ASSUME TypeInv, LockInv, NEW t \in Threads, UpdateIndex(t) PROVE LockInv'
<1>1. /\ locks' = locks /\ heap' = heap /\ pc' = pc /\ ret' = ret /\ todo' = todo
      /\ \A u \in Threads \ {t} : tx'[u] = tx[u]
  BY DEF UpdateIndex, TypeInv, TypeOK
<1>2. ~Relies(t)' /\ locks[t] = <<>>
  BY <1>1 DEF UpdateIndex, Written, Unlocked, Relies
<1> QED  BY <1>1, <1>2, LockSame DEF Stage

LEMMA FinishLocked == ASSUME TypeInv, LockInv, NEW t \in Threads, Finish(t) PROVE LockInv'
<1>1. /\ locks' = locks /\ heap' = heap /\ ret' = ret /\ todo' = todo
      /\ pc'[t] = "idle" /\ \A u \in Threads \ {t} : pc'[u] = pc[u] /\ tx'[u] = tx[u]
  BY DEF Finish, shared, TypeInv, TypeOK
<1>2. locks[t] = <<>>
  BY DEF Finish, Unlocked
<1> QED  BY <1>1, <1>2, LockSame DEF Stage, Relies

LEMMA NextLocked == TypeInv /\ LockInv /\ [Next]_vars => LockInv'
<1> SUFFICES ASSUME TypeInv, LockInv, [Next]_vars PROVE LockInv'
  OBVIOUS
<1>1. ASSUME NEW t \in Threads, Step(t) PROVE LockInv'
  <2>1. CASE Invalid(t)
    BY <2>1, ThrowLocked DEF Invalid, shared
  <2> QED  BY <1>1, <2>1, BeginLocked, LoadLocked, TraverseLocked, ReturnLocked, TXCommitLocked,
             TryLockLocked, ValidateLocked, AddAndFetchLocked, StoreLocked, UnlockLocked,
             UpdateIndexLocked, FinishLocked DEF Step
<1>2. ASSUME UNCHANGED vars PROVE LockInv'
  BY <1>2 DEF vars, LockInv, Holds, Stage, Listed, MayHold, Relies, Items, Elems, Allocated
<1> QED  BY <1>1, <1>2 DEF Next, Done

-----------------------------------------------------------------------------
\* The mutexes and the lists of them agree, and a thread that validates or writes
\* back has locked its write set.
THEOREM LocksAgree == Spec => [](TypeInv /\ LockInv)
<1>1. Init => TypeInv /\ LockInv
  BY InitTyped, InitLocked
<1>2. TypeInv /\ LockInv /\ [Next]_vars => (TypeInv /\ LockInv)'
  BY NextTyped, NextLocked
<1> QED  BY <1>1, <1>2, PTL DEF Spec

\* Every mutex that a commit takes is in its SafeLockList once, is held by no other
\* thread, and has been released when the call is over, however TXCommit ends.
THEOREM LocksCorrect == Spec => []LocksHeld
<1>1. LockInv => LocksHeld
  BY DEF LockInv, LocksHeld, Holds, Stage, MayHold, Listed
<1> QED  BY <1>1, LocksAgree, PTL

-----------------------------------------------------------------------------
\* Only Store writes to what is in a node.
LEMMA HeapKept ==
  ASSUME TypeInv, NEW t \in Threads, Step(t), ~Store(t)
  PROVE  /\ Allocated \subseteq Allocated'
         /\ \A n \in Allocated : /\ heap'[n].version = heap[n].version
                                 /\ heap'[n].next = heap[n].next
                                 /\ heap'[n].deleted = heap[n].deleted
<1>1. CASE heap' = heap
  BY <1>1 DEF Allocated
<1>2. CASE Insert(t)
  <2>1. heap' = Append(heap, NewNode(t)) /\ heap \in Seq(Node)
    BY <1>2 DEF Insert, Allocate, TypeInv, TypeOK
  <2>2. /\ Allocated \subseteq Allocated' /\ \A n \in Allocated : heap'[n] = heap[n]
    BY <2>1, AppendProperties, LenProperties DEF Allocated
  <2> QED  BY <2>2
<1>3. CASE TryLock(t)
  <2>1. PICK n \in Items(t) \ Elems(locks[t]) :
          heap' = [heap EXCEPT ![n].owner = t] \/ heap' = heap
    BY <1>3 DEF TryLock, Lock
  <2>2. n \in Allocated /\ heap \in Seq(Node)
    BY DEF TypeInv, TypeOK, Pointers
  <2> DEFINE e == [heap[n] EXCEPT !.owner = t]
  <2>3. /\ e \in Node /\ e.version = heap[n].version /\ e.next = heap[n].next
        /\ e.deleted = heap[n].deleted
    BY <2>2, NodeAt DEF Node
  <2>4. heap' = [heap EXCEPT ![n] = e] \/ heap' = heap
    BY <2>1
  <2> HIDE DEF e
  <2>5. CASE heap' = [heap EXCEPT ![n] = e]
    <3>1. Allocated' = Allocated /\ \A m \in Allocated : heap'[m] = IF m = n THEN e ELSE heap[m]
      BY <2>2, <2>3, <2>5, HeapExcept
    <3> QED  BY <2>3, <3>1
  <2> QED  BY <1>1, <2>4, <2>5
<1>4. CASE Unlock(t)
  BY <1>4, UnlockEffect
<1> QED  BY <1>1, <1>2, <1>3, <1>4
         DEF Step, TXBegin, Seek, Load, Restart, Walk, Contains, Refuse, Remove, Unlink, TXCommit,
             Validate, Invalid, AddAndFetch, UpdateIndex, Finish, shared

\* No node changes but under its mutex, held by a commit that has it in its write set.
THEOREM WritesCorrect == Spec => WritesUnderLock
<1> DEFINE A == \A n \in Allocated :
                  \/ /\ heap'[n].next = heap[n].next
                     /\ heap'[n].deleted = heap[n].deleted
                     /\ heap'[n].version = heap[n].version
                  \/ \E t \in Threads : pc[t] = "publish" /\ heap[n].owner = t /\ n \in Items(t)
<1>1. TypeInv /\ LockInv /\ [Next]_vars => [A]_vars
  <2> SUFFICES ASSUME TypeInv, LockInv, Next PROVE A \/ UNCHANGED vars
    OBVIOUS
  <2>1. ASSUME NEW t \in Threads, Store(t) PROVE A
    <3>1. PICK n \in Nodes, f \in Fields : StoreOf(t, n, f)
      BY <2>1, StoreEffect
    <3> QED  BY <3>1 DEF StoreOf
  <2>2. ASSUME NEW t \in Threads, Step(t), ~Store(t) PROVE A
    BY <2>2, HeapKept
  <2> QED  BY <2>1, <2>2 DEF Next, Done
<1> QED  BY <1>1, LocksAgree, PTL DEF Spec, WritesUnderLock

-----------------------------------------------------------------------------
\* A step of t that stores no version keeps ClockInv if it does so for t.
LEMMA ClockKeep ==
  ASSUME TypeInv, ClockInv, NEW t \in Threads, Allocated \subseteq Allocated',
         \A n \in Allocated : heap'[n].version = heap[n].version,
         \A n \in Allocated' \ Allocated : heap'[n].version <= gvc',
         gvc' \in Nat, gvc <= gvc', tx'[t].readVersion <= gvc', tx'[t].writeVersion <= gvc',
         Pending(t)',
         \A u \in Threads \ {t} : pc'[u] = pc[u] /\ todo'[u] = todo[u] /\ tx'[u] = tx[u]
  PROVE  ClockInv'
<1>1. gvc \in Nat /\ \A n \in Allocated : heap[n].version \in Nat
  BY NodeAt DEF TypeInv, TypeOK
<1>2. \A n \in Allocated' : heap'[n].version <= gvc'
  <2>1. ASSUME NEW n \in Allocated PROVE heap'[n].version <= gvc'
    BY <1>1 DEF ClockInv
  <2> QED  BY <2>1
<1>3. ASSUME NEW u \in Threads \ {t}
      PROVE  tx'[u].readVersion <= gvc' /\ tx'[u].writeVersion <= gvc' /\ Pending(u)'
  <2>1. tx[u] \in Transaction(Items(u)) /\ Items(u) \subseteq Allocated
    BY DEF TypeInv, TypeOK, Pointers
  <2>2. tx[u].readVersion \in Nat /\ tx[u].writeVersion \in Nat
    BY <2>1 DEF Transaction
  <2>3. tx'[u].readVersion <= gvc' /\ tx'[u].writeVersion <= gvc'
    BY <1>1, <2>2 DEF ClockInv
  <2>4. Pending(u)'
    BY <2>1 DEF ClockInv, Pending, Items
  <2> QED  BY <2>3, <2>4
<1> QED  BY <1>2, <1>3 DEF ClockInv

\* A step that is neither addAndFetch nor a store.
LEMMA ClockOther ==
  ASSUME TypeInv, ClockInv, NEW t \in Threads, Step(t), ~Store(t), gvc' = gvc,
         tx'[t].readVersion <= gvc, tx'[t].writeVersion <= gvc,
         \A n \in Allocated' \ Allocated : heap'[n].version <= gvc,
         pc'[t] # "publish" \/ todo'[t] = {},
         \A u \in Threads \ {t} : pc'[u] = pc[u] /\ todo'[u] = todo[u] /\ tx'[u] = tx[u]
  PROVE  ClockInv'
<1>1. gvc \in Nat
  BY DEF TypeInv, TypeOK
<1>2. Pending(t)'
  BY DEF Pending
<1> QED  BY <1>1, <1>2, HeapKept, ClockKeep

\* The versions that a transaction carries are numbers no greater than the clock.
LEMMA Carried ==
  ASSUME TypeInv, ClockInv, NEW t \in Threads
  PROVE  /\ tx[t] \in Transaction(Items(t)) /\ gvc \in Nat
         /\ tx[t].readVersion <= gvc /\ tx[t].writeVersion <= gvc
         /\ tx[t].readVersion \in Nat /\ tx[t].writeVersion \in Nat
BY DEF TypeInv, TypeOK, ClockInv, Transaction

LEMMA BeginClocked ==
  ASSUME TypeInv, ClockInv, NEW t \in Threads, TXBegin(t) \/ Finish(t) PROVE ClockInv'
<1>1. /\ Step(t) /\ ~Store(t) /\ gvc' = gvc /\ heap' = heap /\ todo' = todo /\ pc'[t] # "publish"
      /\ \A u \in Threads \ {t} : pc'[u] = pc[u] /\ tx'[u] = tx[u]
      /\ tx' = [tx EXCEPT ![t].readVersion = gvc] \/ tx' = [tx EXCEPT ![t] = NoTx]
  BY DEF Step, Store, TXBegin, Finish, shared, Written, TypeInv, TypeOK
<1>2. tx'[t].readVersion <= gvc /\ tx'[t].writeVersion <= gvc
  <2>1. CASE tx' = [tx EXCEPT ![t].readVersion = gvc]
    <3>1. tx'[t] = [tx[t] EXCEPT !.readVersion = gvc]
      BY <2>1 DEF TypeInv, TypeOK
    <3> QED  BY <3>1, Carried DEF Transaction
  <2>2. CASE tx' = [tx EXCEPT ![t] = NoTx]
    <3>1. tx'[t] = NoTx
      BY <2>2 DEF TypeInv, TypeOK
    <3> QED  BY <3>1, Carried DEF NoTx
  <2> QED  BY <1>1, <2>1, <2>2
<1> QED  BY <1>1, <1>2, ClockOther DEF Allocated

\* The steps that leave the versions of a transaction and its commit alone.
LEMMA CallClocked ==
  ASSUME TypeInv, ClockInv, NEW t \in Threads,
         \/ Seek(t) \/ Restart(t) \/ Walk(t) \/ Remove(t) \/ TXCommit(t) \/ Validate(t)
         \/ Contains(t) \/ Refuse(t) \/ Unlink(t) \/ Insert(t)
  PROVE  ClockInv'
<1>1. /\ Step(t) /\ gvc' = gvc /\ pc'[t] # "publish"
      /\ \A u \in Threads \ {t} : pc'[u] = pc[u] /\ todo'[u] = todo[u]
  BY DEF Step, Seek, Restart, Walk, Remove, TXCommit, Validate, Contains, Refuse, Unlink, Insert,
         Visit, Return, shared, TypeInv, TypeOK
<1>2. ~Store(t)
  BY DEF Store, Seek, Restart, Walk, Remove, TXCommit, Validate, Contains, Refuse, Unlink, Insert,
         Arrived, InWalk, Loaded, Validating
<1>3. /\ \A u \in Threads \ {t} : tx'[u] = tx[u]
      /\ tx'[t].readVersion = tx[t].readVersion /\ tx'[t].writeVersion = tx[t].writeVersion
  <2>1. CASE Seek(t) \/ Restart(t) \/ Walk(t) \/ TXCommit(t) \/ Validate(t)
    BY <2>1 DEF Seek, Restart, Walk, TXCommit, Validate
  <2>2. CASE Contains(t) \/ Refuse(t) \/ Remove(t)
    <3>1. PICK rs : tx' = [tx EXCEPT ![t].readSet = rs]
      BY <2>2 DEF Contains, Refuse, Remove
    <3> QED  BY <3>1, Carried DEF TypeInv, TypeOK, Transaction
  <2>3. CASE Unlink(t) \/ Insert(t)
    <3>1. CASE Insert(t)
      <4>1. PICK rs, ws, ops : tx' = [tx EXCEPT ![t].readSet = rs, ![t].writeSet = ws,
                                                ![t].indexTodo = ops]
        BY <3>1 DEF Insert
      <4> QED  BY <4>1, Carried DEF TypeInv, TypeOK, Transaction
    <3>2. CASE Unlink(t)
      <4>1. PICK ws, ops : tx' = [tx EXCEPT ![t].writeSet = ws, ![t].indexTodo = ops]
        BY <3>2 DEF Unlink
      <4> QED  BY <4>1, Carried DEF TypeInv, TypeOK, Transaction
    <3> QED  BY <2>3, <3>1, <3>2
  <2> QED  BY <2>1, <2>2, <2>3
<1>4. \A n \in Allocated' \ Allocated : heap'[n].version <= gvc
  <2>1. CASE ~Insert(t)
    BY <2>1 DEF Seek, Restart, Walk, Remove, TXCommit, Validate, Contains, Refuse, Unlink, shared,
                Allocated
  <2>2. CASE Insert(t)
    <3>1. heap' = Append(heap, NewNode(t)) /\ heap \in Seq(Node)
      BY <2>2 DEF Insert, Allocate, TypeInv, TypeOK
    <3>2. /\ Allocated = 1..Len(heap) /\ Allocated' = 1..(Len(heap) + 1) /\ Len(heap) \in Nat
          /\ heap'[Len(heap) + 1] = NewNode(t)
      BY <3>1, AppendProperties, LenProperties DEF Allocated
    <3> QED  BY <3>2, Carried DEF NewNode
  <2> QED  BY <2>1, <2>2
<1> QED  BY <1>1, <1>2, <1>3, <1>4, Carried, ClockOther

LEMMA CommitClocked ==
  ASSUME TypeInv, ClockInv, NEW t \in Threads,
         Load(t) \/ TryLock(t) \/ Invalid(t) \/ Unlock(t) \/ UpdateIndex(t)
  PROVE  ClockInv'
<1>1. Step(t) /\ gvc' = gvc
  BY DEF Step, Load, TryLock, Invalid, Unlock, UpdateIndex, shared
<1>2. pc'[t] # "publish" \/ todo'[t] = {}
  BY DEF Load, TryLock, Invalid, Unlock, UpdateIndex, Throw, Lock, Loaded, Written, TypeInv, TypeOK
<1>3. ~Store(t)
  BY DEF Store, Load, TryLock, Invalid, Unlock, UpdateIndex, Loaded, Written, Due
<1>4. \A u \in Threads \ {t} : pc'[u] = pc[u] /\ todo'[u] = todo[u]
  <2>1. CASE Throw(t)
    BY <2>1, ThrowTyped
  <2>2. CASE Load(t)
    BY <2>1, <2>2 DEF Load, TypeInv, TypeOK
  <2>3. CASE ~Load(t)
    BY <2>1, <2>3 DEF TryLock, Invalid, Unlock, UpdateIndex, Lock
  <2> QED  BY <2>2, <2>3
<1>5. /\ \A u \in Threads \ {t} : tx'[u] = tx[u]
      /\ tx'[t].readVersion = tx[t].readVersion /\ tx'[t].writeVersion = tx[t].writeVersion
  <2>1. CASE UpdateIndex(t)
    <3>1. tx' = [tx EXCEPT ![t].indexTodo = Tail(@)]
      BY <2>1 DEF UpdateIndex
    <3> QED  BY <3>1, Carried DEF TypeInv, TypeOK, Transaction
  <2>2. CASE ~UpdateIndex(t)
    BY <2>2 DEF Load, TryLock, Invalid, Unlock
  <2> QED  BY <2>1, <2>2
<1>6. Allocated' = Allocated
  <2>1. CASE TryLock(t)
    BY <2>1 DEF TryLock, Lock, Allocated, TypeInv, TypeOK
  <2>2. CASE ~TryLock(t)
    BY <2>2, UnlockEffect DEF Load, Invalid, UpdateIndex, shared, Allocated
  <2> QED  BY <2>1, <2>2
<1> QED  BY <1>1, <1>2, <1>3, <1>4, <1>5, <1>6, Carried, ClockOther

\* addAndFetch makes a version that is newer than that of every node.
LEMMA AddAndFetchClocked ==
  ASSUME TypeInv, ClockInv, NEW t \in Threads, AddAndFetch(t) PROVE ClockInv'
<1>1. /\ tx' = [tx EXCEPT ![t].writeVersion = gvc + 1] /\ heap' = heap /\ gvc' = gvc + 1
      /\ \A u \in Threads \ {t} : pc'[u] = pc[u] /\ todo'[u] = todo[u]
      /\ Allocated' = Allocated
  BY DEF AddAndFetch, Allocated, TypeInv, TypeOK
<1>2. /\ tx'[t] = [tx[t] EXCEPT !.writeVersion = gvc + 1]
      /\ \A u \in Threads \ {t} : tx'[u] = tx[u]
  BY <1>1 DEF TypeInv, TypeOK
<1>3. /\ tx'[t].readVersion = tx[t].readVersion /\ tx'[t].writeVersion = gvc + 1
      /\ Items(t)' = Items(t) /\ Items(t) \subseteq Allocated
  BY <1>2, Carried DEF Transaction, Items, TypeInv, Pointers
<1>4. \A n \in Allocated : heap[n].version \in Nat /\ heap[n].version <= gvc
  BY NodeAt DEF ClockInv
<1>5. Pending(t)'
  BY <1>1, <1>3, <1>4, Carried DEF Pending
<1> QED  BY <1>1, <1>2, <1>3, <1>5, Carried, ClockKeep

\* A store of a version: it was pending, and no other thread has the node locked.
LEMMA StoreClocked ==
  ASSUME TypeInv, LockInv, ClockInv, NEW t \in Threads, Store(t)
  PROVE  ClockInv' /\ \A n \in Allocated : heap'[n].version >= heap[n].version
<1>1. PICK n \in Nodes, f \in Fields : StoreOf(t, n, f)
  BY StoreEffect
<1>2. /\ n \in Items(t) /\ n \in Allocated /\ heap[n].owner = t
      /\ <<n, f>> \in todo[t] /\ pc[t] = "publish"
      /\ Allocated' = Allocated /\ \A m \in Allocated \ {n} : heap'[m] = heap[m]
      /\ heap'[n].version = IF f = "version" THEN tx[t].writeVersion ELSE heap[n].version
      /\ gvc' = gvc /\ pc' = pc /\ tx' = tx
  BY <1>1 DEF StoreOf
<1>3. todo'[t] = todo[t] \ {<<n, f>>} /\ \A u \in Threads \ {t} : todo'[u] = todo[u]
  BY <1>1 DEF StoreOf, TypeInv, TypeOK
<1>4. \A u \in Threads : Items(u)' = Items(u) /\ Items(u) \subseteq Allocated
  BY <1>2 DEF Items, TypeInv, Pointers
<1>5. \A m \in Allocated : heap[m].version \in Nat
  BY NodeAt
<1>6. heap'[n].version \in Nat /\ heap'[n].version <= gvc /\ heap'[n].version >= heap[n].version
  BY <1>2, <1>5, Carried DEF ClockInv, Pending
<1>7. Pending(t)'
  BY <1>2, <1>3, <1>4 DEF ClockInv, Pending
<1>8. ASSUME NEW u \in Threads \ {t} PROVE Pending(u)'
  <2> SUFFICES ASSUME NEW m \in Items(u), pc[u] = "publish", <<m, "version">> \in todo[u]
               PROVE  heap'[m].version < tx[u].writeVersion
    BY <1>2, <1>3, <1>4 DEF Pending
  <2>1. m \in Elems(locks[u])
    BY DEF LockInv, Stage, Relies
  <2>2. heap[m].owner = u /\ m # n
    BY <1>2, <2>1 DEF LockInv, Holds, Elems
  <2> QED  BY <1>2, <1>4, <2>2 DEF ClockInv, Pending
<1>9. \A m \in Allocated : heap'[m].version <= gvc
  BY <1>2, <1>6 DEF ClockInv
<1>10. \A u \in Threads : tx'[u].readVersion <= gvc' /\ tx'[u].writeVersion <= gvc'
  BY <1>2 DEF ClockInv
<1>11. ClockInv'
  BY <1>2, <1>7, <1>8, <1>9, <1>10 DEF ClockInv
<1> QED  BY <1>2, <1>5, <1>6, <1>11

LEMMA NextClocked == TypeInv /\ LockInv /\ ClockInv /\ [Next]_vars => ClockInv'
<1> SUFFICES ASSUME TypeInv, LockInv, ClockInv, [Next]_vars PROVE ClockInv'
  OBVIOUS
<1>1. ASSUME NEW t \in Threads, Step(t) PROVE ClockInv'
  BY <1>1, BeginClocked, CallClocked, CommitClocked, AddAndFetchClocked, StoreClocked DEF Step
<1>2. ASSUME UNCHANGED vars PROVE ClockInv'
  BY <1>2 DEF vars, ClockInv, Pending, Items, Allocated
<1> QED  BY <1>1, <1>2 DEF Next, Done

\* No node ever goes back to an older version, though commits write back in an
\* order of their own: the mutexes keep their stores apart, and the clock is ahead.
THEOREM VersionsCorrect == Spec => VersionsRise
<1> DEFINE A == \A n \in Allocated : heap'[n].version >= heap[n].version
           Inv == TypeInv /\ LockInv /\ ClockInv
<1>1. Init => Inv
  BY InitTyped, InitLocked
<1>2. Inv /\ [Next]_vars => Inv'
  BY NextTyped, NextLocked, NextClocked
<1>3. Inv /\ [Next]_vars => [A]_vars
  <2> SUFFICES ASSUME Inv, Next PROVE A \/ UNCHANGED vars
    OBVIOUS
  <2>1. ASSUME NEW t \in Threads, Step(t), ~Store(t) PROVE A
    BY <2>1, HeapKept, NodeAt
  <2>2. ASSUME NEW t \in Threads, Store(t) PROVE A
    BY <2>2, StoreClocked
  <2> QED  BY <2>1, <2>2 DEF Next, Done
<1> QED  BY <1>1, <1>2, <1>3, PTL DEF Spec, VersionsRise

-----------------------------------------------------------------------------
\* New nodes.

SameLocals(t) ==
    /\ pc'[t] = pc[t] /\ ret'[t] = ret[t] /\ prog'[t] = prog[t] /\ tx'[t] = tx[t]
    /\ reg'[t] = reg[t] /\ todo'[t] = todo[t] /\ pos'[t] = pos[t]
    /\ trace'[t] = trace[t] /\ snap'[t] = snap[t]

\* A step of t leaves the locals of the other threads alone.
LEMMA OthersSame ==
  ASSUME TypeInv, NEW t \in Threads, Step(t), NEW u \in Threads \ {t} PROVE SameLocals(u)
<1> USE DEF SameLocals, TypeInv, TypeOK
<1>1. CASE TXBegin(t)
  BY <1>1 DEF TXBegin
<1>2. CASE Seek(t)
  BY <1>2 DEF Seek, Visit, history
<1>3. CASE Load(t)
  BY <1>3 DEF Load, Throw, history
<1>4. CASE Restart(t)
  BY <1>4 DEF Restart, Visit, history
<1>5. CASE Walk(t)
  BY <1>5 DEF Walk, Visit, history
<1>6. CASE Contains(t)
  BY <1>6 DEF Contains, Return
<1>7. CASE Insert(t)
  BY <1>7 DEF Insert, Return
<1>8. CASE Refuse(t)
  BY <1>8 DEF Refuse, Return
<1>9. CASE Remove(t)
  BY <1>9 DEF Remove, Visit, history
<1>10. CASE Unlink(t)
  BY <1>10 DEF Unlink, Return
<1>11. CASE TXCommit(t)
  BY <1>11 DEF TXCommit, history
<1>12. CASE TryLock(t)
  BY <1>12 DEF TryLock, Lock, Throw, history
<1>13. CASE Validate(t)
  BY <1>13 DEF Validate, Visit, history
<1>14. CASE Invalid(t)
  BY <1>14 DEF Invalid, Throw
<1>15. CASE AddAndFetch(t)
  BY <1>15 DEF AddAndFetch
<1>16. CASE Store(t)
  BY <1>16 DEF Store, history
<1>17. CASE Unlock(t)
  BY <1>17 DEF Unlock, history
<1>18. CASE UpdateIndex(t)
  BY <1>18 DEF UpdateIndex, history
<1>19. CASE Finish(t)
  BY <1>19 DEF Finish, history
<1> QED  BY <1>1, <1>2, <1>3, <1>4, <1>5, <1>6, <1>7, <1>8, <1>9, <1>10, <1>11, <1>12, <1>13,
            <1>14, <1>15, <1>16, <1>17, <1>18, <1>19 DEF Step

\* The nodes that thread t has a pointer to, in its transaction or in a local.
Reach(t) == Items(t) \cup Elems(tx[t].readSet) \cup {reg[t].node, reg[t].next, reg[t].pred}
            \cup {tx[t].writeSet[m].next : m \in Items(t)} \cup {a[1] : a \in todo[t]}
            \cup {e.node : e \in Elems(tx[t].indexTodo)}

\* Nothing that t can get hold of is in F.
Avoids(t, F) ==
    /\ NULL \notin F
    /\ \A n \in index \cup Reach(t) : n \notin F
    /\ \A m \in Allocated : m \notin F => heap[m].next \notin F

Unpublished(t) == pc[t] # "publish"

\* Out of reach of the others are also what their write sets and index updates lead to.
Hidden(t) == Unpublished(t) => \A n \in Fresh(t) :
                          /\ n \notin index
                          /\ \A m \in Allocated \ Fresh(t) : heap[m].next # n
                          /\ \A u \in Threads \ {t} : n \notin Reach(u)

PrivInv == \A t \in Threads : Hidden(t)

-----------------------------------------------------------------------------
LEMMA TodoAllocated ==
  ASSUME TypeInv, NEW t \in Threads
  PROVE  \A e \in Elems(tx[t].indexTodo) : e.node \in Allocated
<1>1. tx[t].indexTodo \in Seq([node : Allocated, op : OpTypes])
  BY DEF TypeInv, Pointers
<1>2. \A k \in DOMAIN tx[t].indexTodo : tx[t].indexTodo[k] \in [node : Allocated, op : OpTypes]
  BY <1>1, ElementOfSeq, LenProperties
<1> QED  BY <1>2 DEF Elems

\* The new nodes of an open transaction are what the other threads avoid.
LEMMA Apart ==
  ASSUME TypeInv, PrivInv, NEW u \in Threads, Unpublished(u), NEW t \in Threads \ {u}
  PROVE  Fresh(u) \subseteq Allocated /\ Avoids(t, Fresh(u))
<1>1. Fresh(u) \subseteq Allocated
  BY TodoAllocated DEF Fresh, Entry
<1>2. NULL \notin Fresh(u)
  BY <1>1, HeapNodes DEF TypeInv, TypeOK, Nodes, NULL
<1> QED  BY <1>1, <1>2 DEF PrivInv, Hidden, Avoids

\* A step that changes no pointer of the heap or the index.
LEMMA AvoidsKeep ==
  ASSUME NEW t \in Threads, NEW F, Avoids(t, F), Allocated' = Allocated,
         \A n \in Allocated : heap'[n].next = heap[n].next, index' = index,
         \A n \in Reach(t)' : n \notin F
  PROVE  Avoids(t, F)'
BY DEF Avoids

-----------------------------------------------------------------------------
\* Entering getValidatedValue gives a thread the node, its predecessor, and what its
\* write set has as the next one.
LEMMA VisitReach ==
  ASSUME TypeInv, NEW t \in Threads, NEW F, Avoids(t, F), NEW n \in Allocated, NEW w \in BOOLEAN, NEW after \in Rets,
         NEW pred \in Pointer, Visit(t, n, w, after, pred), n \notin F, pred \notin F,
         tx'[t].writeSet = tx[t].writeSet, tx'[t].indexTodo = tx[t].indexTodo,
         \A m \in Elems(tx'[t].readSet) : m \notin F, UNCHANGED <<heap, index>>
  PROVE  Avoids(t, F)'
<1>1. reg'[t].node = n /\ reg'[t].pred = pred /\ \A a \in todo'[t] : a[1] = n
  <2>1. \A a \in todo'[t] : a[1] = n
    BY DEF Visit, TypeInv, TypeOK
  <2> QED  BY <2>1, VisitTyped
<1>2. reg'[t].next \in {tx[t].writeSet[m].next : m \in Items(t)} \cup {NULL}
  <2>1. reg'[t].next = IF n \in Items(t) THEN tx[t].writeSet[n].next ELSE NULL
    BY DEF Visit, Items, TypeInv, TypeOK
  <2> QED  BY <2>1
<1>3. Items(t)' = Items(t) /\ Allocated' = Allocated
  BY DEF Items, Allocated
<1>4. \A m \in Reach(t)' : m \notin F
  BY <1>1, <1>2, <1>3 DEF Reach, Avoids
<1> QED  BY <1>3, <1>4, AvoidsKeep

LEMMA VisitAvoids ==
  ASSUME TypeInv, NEW t \in Threads, NEW F, Avoids(t, F), Seek(t) \/ Restart(t) \/ Walk(t) \/ Validate(t)
  PROVE  Avoids(t, F)'
<1>1. tx' = tx /\ UNCHANGED <<heap, index>>
  BY DEF Seek, Restart, Walk, Validate, shared
<1>2. \A m \in Elems(tx[t].readSet) : m \notin F
  BY DEF Avoids, Reach
<1>3. NULL \in Pointer /\ NULL \notin F /\ {"start", "walk", "validate"} \subseteq Rets
  BY DEF Avoids, Pointer, Rets
<1>4. CASE Seek(t) \/ Restart(t)
  <2>1. PICK n \in index : Visit(t, n, TRUE, "start", NULL)
    BY <1>4 DEF Seek, Restart, GetPrev
  <2>2. n \in Allocated /\ n \notin F
    BY DEF Avoids, TypeInv, TypeOK
  <2> QED  BY <1>1, <1>2, <1>3, <2>1, <2>2, VisitReach
<1>5. CASE Walk(t)
  <2>1. Visit(t, reg[t].next, TRUE, "walk", NULL) /\ reg[t].next # NULL
    BY <1>5 DEF Walk, More
  <2>2. reg[t].next \in Allocated /\ reg[t].next \notin F
    BY <2>1 DEF Avoids, Reach, TypeInv, Pointers, Pointer
  <2> QED  BY <1>1, <1>2, <1>3, <2>1, <2>2, VisitReach
<1>6. CASE Validate(t)
  <2> DEFINE n == tx[t].readSet[pos[t] + 1]
  <2>1. Visit(t, n, FALSE, "validate", NULL) /\ pos[t] < Len(tx[t].readSet) /\ pos[t] \in Nat
    BY <1>6 DEF Validate, TypeInv, TypeOK
  <2>2. tx[t].readSet \in Seq(Allocated)
    BY DEF TypeInv, Pointers
  <2>3. pos[t] + 1 \in DOMAIN tx[t].readSet
    BY <2>1, <2>2, LenProperties
  <2>4. n \in Allocated /\ n \in Elems(tx[t].readSet)
    BY <2>2, <2>3 DEF Elems
  <2> HIDE DEF n
  <2> QED  BY <1>1, <1>2, <1>3, <2>1, <2>4, VisitReach
<1> QED  BY <1>4, <1>5, <1>6

\* Elements of a sequence that has grown at the end.
LEMMA AppendElems == ASSUME NEW S, NEW s \in Seq(S), NEW e \in S PROVE Elems(Append(s, e)) = Elems(s) \cup {e}
<1>1. /\ DOMAIN s = 1..Len(s) /\ DOMAIN Append(s, e) = 1..(Len(s) + 1) /\ Len(s) \in Nat
      /\ \A i \in 1..Len(s) : Append(s, e)[i] = s[i]
      /\ Append(s, e)[Len(s) + 1] = e
  BY AppendProperties, LenProperties
<1> QED  BY <1>1 DEF Elems

LEMMA RemoveAvoids == ASSUME TypeInv, NEW t \in Threads, NEW F, Avoids(t, F), Remove(t) PROVE Avoids(t, F)'
<1>0. Arrived(t, "remove") /\ Succ(t) # NULL
  BY DEF Remove, Present
<1>1. reg[t].node \in Allocated /\ Succ(t) \in Allocated /\ Read(t) \in Seq(Allocated)
  <2>1. reg[t].node \in Allocated /\ Succ(t) \in Pointer /\ Read(t) \in Seq(Allocated)
    BY <1>0, ArrivedAt
  <2> QED  BY <1>0, <2>1 DEF Pointer
<1>2. /\ Visit(t, Succ(t), FALSE, "unlink", reg[t].node) /\ UNCHANGED <<heap, index>>
      /\ tx' = [tx EXCEPT ![t].readSet = Append(Read(t), Succ(t))]
  BY DEF Remove, shared
<1>3. /\ tx'[t].writeSet = tx[t].writeSet /\ tx'[t].indexTodo = tx[t].indexTodo
      /\ tx'[t].readSet = Append(Read(t), Succ(t))
  BY <1>2 DEF TypeInv, TypeOK, Transaction
<1>4. Elems(tx'[t].readSet) = Elems(tx[t].readSet) \cup {reg[t].node, Succ(t)}
  <2>1. tx[t].readSet \in Seq(Allocated)
    BY DEF TypeInv, Pointers
  <2>2. Elems(Read(t)) = Elems(tx[t].readSet) \cup {reg[t].node}
    BY <1>1, <2>1, AppendElems DEF Read
  <2>3. Elems(Append(Read(t), Succ(t))) = Elems(Read(t)) \cup {Succ(t)}
    BY <1>1, AppendElems
  <2> QED  BY <1>3, <2>2, <2>3
<1>5. \A m \in Elems(tx'[t].readSet) : m \notin F
  BY <1>4 DEF Avoids, Reach, Succ
<1>6. Succ(t) \notin F /\ reg[t].node \notin F /\ reg[t].node \in Pointer /\ "unlink" \in Rets
  BY <1>1 DEF Avoids, Reach, Succ, Pointer, Rets
<1> QED  BY <1>1, <1>2, <1>3, <1>5, <1>6, VisitReach

-----------------------------------------------------------------------------
\* A load of a node in reach gives a node that is not in F.
LEMMA LoadAvoids == ASSUME TypeInv, NEW t \in Threads, NEW F, Avoids(t, F), Load(t) PROVE Avoids(t, F)'
<1>1. UNCHANGED <<heap, index, tx>> /\ Allocated' = Allocated /\ Items(t)' = Items(t)
  BY DEF Load, shared, Allocated, Items
<1>2. CASE Throw(t)
  <2>1. reg'[t] = NoReg /\ todo'[t] = {}
    BY <1>2, ThrowTyped
  <2>2. \A n \in Reach(t)' : n \in Reach(t) \cup {NULL}
    BY <1>1, <2>1 DEF Reach, NoReg
  <2> QED  BY <1>1, <2>2, AvoidsKeep DEF Avoids
<1>3. CASE ~Throw(t)
  <2>1. PICK a \in todo[t] :
          /\ reg' = [reg EXCEPT ![t].next = IF a[2] = "next" THEN heap[a[1]].next ELSE @,
                                ![t].deleted = IF a[2] = "deleted" THEN heap[a[1]].deleted ELSE @]
          /\ todo' = [todo EXCEPT ![t] = @ \ {a}]
    BY <1>3 DEF Load, Due
  <2>2. a[1] \in Allocated /\ a[1] \notin F
    BY DEF Avoids, Reach, TypeInv, Pointers
  <2>3. /\ reg'[t].node = reg[t].node /\ reg'[t].pred = reg[t].pred
        /\ reg'[t].next \in {reg[t].next, heap[a[1]].next}
    BY <2>1 DEF TypeInv, TypeOK, Registers
  <2>4. todo'[t] \subseteq todo[t]
    BY <2>1 DEF TypeInv, TypeOK
  <2>5. \A n \in Reach(t)' : n \in Reach(t) \cup {heap[a[1]].next}
    BY <1>1, <2>3, <2>4 DEF Reach
  <2>6. heap[a[1]].next \notin F
    BY <2>2 DEF Avoids
  <2> QED  BY <1>1, <2>5, <2>6, AvoidsKeep DEF Avoids
<1> QED  BY <1>2, <1>3

\* TXBegin, TXCommit, a mutex taken or refused, a validation that fails, addAndFetch and
\* an unlock give a thread nothing that it had not.
LEMMA CommitAvoids ==
  ASSUME TypeInv, NEW t \in Threads, NEW F, Avoids(t, F),
         TXBegin(t) \/ TXCommit(t) \/ TryLock(t) \/ Invalid(t) \/ AddAndFetch(t) \/ Unlock(t)
  PROVE  Avoids(t, F)'
<1>1. Step(t) /\ index' = index /\ ~Store(t)
  <2>1. Step(t)
    BY DEF Step
  <2>2. index' = index
    BY DEF TXBegin, TXCommit, TryLock, Invalid, AddAndFetch, Unlock, shared
  <2>3. pc[t] # "publish" \/ todo[t] = {}
    BY DEF TXBegin, TXCommit, TryLock, Invalid, AddAndFetch, Unlock, Loaded, Validating, Written
  <2>4. Due(todo[t], StoreOrder) \subseteq todo[t]
    BY DEF Due
  <2>5. Store(t) => pc[t] = "publish" /\ \E a : a \in Due(todo[t], StoreOrder)
    BY Zenon DEF Store
  <2>6. ~Store(t)
    BY <2>3, <2>4, <2>5
  <2> QED  BY <2>1, <2>2, <2>6
<1>2. tx'[t].writeSet = tx[t].writeSet /\ tx'[t].readSet = tx[t].readSet /\ tx'[t].indexTodo = tx[t].indexTodo
  <2>1. CASE tx' = tx
    BY <2>1
  <2>2. CASE TXBegin(t)
    <3>1. tx' = [tx EXCEPT ![t].readVersion = gvc]
      BY <2>2 DEF TXBegin
    <3> QED  BY <3>1 DEF TypeInv, TypeOK, Transaction
  <2>3. CASE AddAndFetch(t)
    <3>1. tx' = [tx EXCEPT ![t].writeVersion = gvc + 1]
      BY <2>3 DEF AddAndFetch
    <3> QED  BY <3>1 DEF TypeInv, TypeOK, Transaction
  <2>4. CASE TXCommit(t) \/ TryLock(t) \/ Invalid(t) \/ Unlock(t)
    BY <2>1, <2>4 DEF TXCommit, TryLock, Invalid, Unlock
  <2> QED  BY <2>2, <2>3, <2>4
<1>3. Allocated' = Allocated
  BY UnlockEffect DEF TXBegin, TXCommit, TryLock, Lock, Invalid, AddAndFetch, shared, Allocated, TypeInv, TypeOK
<1>4. \A n \in Reach(t)' : n \in Reach(t) \cup {NULL}
  <2>1. CASE Throw(t)
    <3>1. reg'[t] = NoReg /\ todo'[t] = {}
      BY <2>1, ThrowTyped
    <3> QED  BY <1>2, <3>1 DEF Reach, NoReg, Items
  <2>2. CASE ~Throw(t)
    <3>1. reg'[t] = reg[t] \/ reg'[t] = NoReg
      BY <2>2 DEF TXBegin, TXCommit, TryLock, Lock, Invalid, AddAndFetch, Unlock, TypeInv, TypeOK
    <3>2. \A a \in todo'[t] : a \in todo[t] \/ a[1] \in Items(t)
      <4>1. CASE AddAndFetch(t)
        <5>1. todo'[t] = Stores(tx[t].writeSet)
          BY <4>1 DEF AddAndFetch, TypeInv, TypeOK
        <5> QED  BY <5>1 DEF Stores, Items
      <4>2. CASE ~AddAndFetch(t)
        BY <2>2, <4>2 DEF TXBegin, TXCommit, TryLock, Lock, Invalid, Unlock
      <4> QED  BY <4>1, <4>2
    <3> QED  BY <1>2, <3>1, <3>2 DEF Reach, NoReg, Items
  <2> QED  BY <2>1, <2>2
<1> QED  BY <1>1, <1>3, <1>4, HeapKept, AvoidsKeep DEF Avoids

\* A call that returns leaves its thread with the transaction alone.
LEMMA ReadAvoids ==
  ASSUME TypeInv, NEW t \in Threads, NEW F, Avoids(t, F), Contains(t) \/ Refuse(t) PROVE Avoids(t, F)'
<1>0. Arrived(t, "contains") \/ Arrived(t, "insert") \/ Arrived(t, "remove")
  BY DEF Contains, Refuse
<1>1. \E ok \in BOOLEAN : Return(t, ok)
  <2>1. CASE Contains(t)
    <3>1. Return(t, Present(t)) /\ Present(t) \in BOOLEAN
      BY <2>1 DEF Contains, Present
    <3> QED  BY <3>1
  <2>2. CASE Refuse(t)
    <3>1. Return(t, FALSE)
      BY <2>2 DEF Refuse
    <3> QED  BY <3>1
  <2> QED  BY <2>1, <2>2
<1>2. reg[t].node \in Allocated /\ prog[t] # <<>> /\ tx[t].readSet \in Seq(Allocated)
  BY <1>0, ArrivedAt DEF TypeInv, Pointers
<1>3. reg'[t] = NoReg /\ todo' = todo
  BY <1>1, <1>2, ReturnTyped
<1>4. UNCHANGED <<heap, index>> /\ Allocated' = Allocated /\ tx' = [tx EXCEPT ![t].readSet = Read(t)]
  BY DEF Contains, Refuse, shared, Allocated
<1>5. tx'[t].writeSet = tx[t].writeSet /\ tx'[t].indexTodo = tx[t].indexTodo /\ tx'[t].readSet = Read(t)
  BY <1>4 DEF TypeInv, TypeOK, Transaction
<1>6. Elems(tx'[t].readSet) = Elems(tx[t].readSet) \cup {reg[t].node}
  BY <1>2, <1>5, AppendElems DEF Read
<1>7. \A n \in Reach(t)' : n \in Reach(t) \cup {NULL}
  BY <1>3, <1>5, <1>6 DEF Reach, NoReg, Items
<1> QED  BY <1>4, <1>7, AvoidsKeep DEF Avoids

LEMMA UnlinkAvoids == ASSUME TypeInv, NEW t \in Threads, NEW F, Avoids(t, F), Unlink(t) PROVE Avoids(t, F)'
<1> DEFINE E == [node : Allocated, op : OpTypes]
           e == [node |-> reg[t].node, op |-> "remove"]
           ws1 == AddItem(tx[t].writeSet, reg[t].pred, reg[t].next, FALSE)
           ws == AddItem(ws1, reg[t].node, NULL, TRUE)
<1>1. /\ reg[t].node \in Allocated /\ prog[t] # <<>>
      /\ tx[t].indexTodo \in Seq([node : Allocated, op : OpTypes])
  BY DEF Unlink, Loaded, TypeInv, Pointers, Control, Pointer
<1>2. reg'[t] = NoReg /\ todo' = todo
  BY <1>1, ReturnTyped DEF Unlink
<1>3. UNCHANGED <<heap, index>> /\ Allocated' = Allocated
      /\ tx' = [tx EXCEPT ![t].writeSet = ws, ![t].indexTodo = Append(@, e)]
  BY DEF Unlink, shared, Allocated
<1> HIDE DEF ws, e
<1>4. tx'[t].writeSet = ws /\ tx'[t].indexTodo = Append(tx[t].indexTodo, e) /\ tx'[t].readSet = tx[t].readSet
  BY <1>3 DEF TypeInv, TypeOK, Transaction
<1>5. /\ DOMAIN ws \subseteq Items(t) \cup {reg[t].node, reg[t].pred}
      /\ \A m \in DOMAIN ws : ws[m].next \in {tx[t].writeSet[k].next : k \in Items(t)} \cup {NULL, reg[t].next}
  <2>1. \A m \in DOMAIN ws1 : /\ m \in DOMAIN tx[t].writeSet \cup {reg[t].pred}
                             /\ ws1[m].next \in {reg[t].next} \cup {tx[t].writeSet[k].next : k \in DOMAIN tx[t].writeSet}
    BY DEF AddItem
  <2> HIDE DEF ws1
  <2>2. \A m \in DOMAIN ws : /\ m \in DOMAIN ws1 \cup {reg[t].node}
                            /\ ws[m].next \in {NULL} \cup {ws1[k].next : k \in DOMAIN ws1}
    BY DEF ws, AddItem
  <2> QED  BY <2>1, <2>2 DEF Items
<1>6. Elems(tx'[t].indexTodo) = Elems(tx[t].indexTodo) \cup {e} /\ e.node = reg[t].node
  <2>1. e \in E /\ e.node = reg[t].node /\ tx[t].indexTodo \in Seq(E)
    BY <1>1 DEF e, OpTypes
  <2> HIDE DEF E
  <2>2. Elems(Append(tx[t].indexTodo, e)) = Elems(tx[t].indexTodo) \cup {e}
    BY <2>1, AppendElems
  <2> QED  BY <1>4, <2>1, <2>2
<1>7. \A n \in Reach(t)' : n \in Reach(t) \cup {NULL}
  BY <1>2, <1>4, <1>5, <1>6 DEF Reach, NoReg, Items
<1> QED  BY <1>3, <1>7, AvoidsKeep DEF Avoids

\* A thread has pointers into the heap only.
LEMMA ReachAllocated == ASSUME TypeInv, NEW t \in Threads PROVE Reach(t) \subseteq Pointer
<1>1. tx[t].readSet \in Seq(Allocated)
  BY DEF TypeInv, Pointers
<1>2. \A m \in Elems(tx[t].readSet) : m \in Allocated
  BY <1>1, ElementOfSeq, LenProperties DEF Elems
<1>3. \A e \in Elems(tx[t].indexTodo) : e.node \in Allocated
  BY TodoAllocated
<1> QED  BY <1>2, <1>3 DEF Reach, TypeInv, Pointers, Pointer

\* The node that insert allocates, and what leads to it.
Born(t, new) ==
    /\ Allocated' = Allocated \cup {new} /\ new \notin Pointer /\ index' = index
    /\ \A n \in Allocated : heap'[n] = heap[n]
    /\ heap'[new].next = reg[t].next /\ heap'[new].deleted = FALSE
    /\ \A n \in Reach(t)' : n \in Reach(t) \cup {NULL, new}
    /\ Fresh(t)' = Fresh(t) \cup {new}

LEMMA InsertBorn == ASSUME TypeInv, NEW t \in Threads, Insert(t) PROVE Born(t, Len(heap) + 1)
<1> DEFINE new == Len(heap) + 1
           E == [node : Allocated', op : OpTypes]
           e == [node |-> new, op |-> "insert"]
           ws1 == AddItem(tx[t].writeSet, reg[t].node, new, FALSE)
           ws == AddItem(ws1, new, NULL, FALSE)
<1>1. /\ reg[t].node \in Allocated /\ prog[t] # <<>>
      /\ tx[t].readSet \in Seq(Allocated) /\ tx[t].indexTodo \in Seq([node : Allocated, op : OpTypes])
  BY ArrivedAt DEF Insert, TypeInv, Pointers
<1>2. reg'[t] = NoReg /\ todo' = todo
  BY <1>1, ReturnTyped DEF Insert
<1>3. /\ heap' = Append(heap, NewNode(t)) /\ index' = index
      /\ tx' = [tx EXCEPT ![t].readSet = Read(t), ![t].writeSet = ws, ![t].indexTodo = Append(@, e)]
  BY DEF Insert, Allocate
<1>4. heap \in Seq(Node) /\ Len(heap) \in Nat /\ Allocated = 1..Len(heap)
  BY HeapNodes DEF TypeInv, TypeOK
<1>5. /\ Allocated' = Allocated \cup {new} /\ new \notin Pointer
      /\ \A n \in Allocated : heap'[n] = heap[n]
      /\ heap'[new].next = reg[t].next /\ heap'[new].deleted = FALSE
  <2>1. Len(Append(heap, NewNode(t))) = new /\ Append(heap, NewNode(t))[new] = NewNode(t)
        /\ (\A n \in 1..Len(heap) : Append(heap, NewNode(t))[n] = heap[n])
        /\ DOMAIN Append(heap, NewNode(t)) = 1..new
    BY <1>4
  <2>2. NewNode(t).next = reg[t].next /\ NewNode(t).deleted = FALSE
    BY DEF NewNode, Succ
  <2> QED  BY <1>3, <1>4, <2>1, <2>2 DEF Allocated, Pointer, NULL
<1> HIDE DEF new, e, ws, E
<1>6. tx'[t].writeSet = ws /\ tx'[t].indexTodo = Append(tx[t].indexTodo, e) /\ tx'[t].readSet = Read(t)
  BY <1>3 DEF TypeInv, TypeOK, Transaction
<1>7. /\ DOMAIN ws \subseteq Items(t) \cup {reg[t].node, new}
      /\ \A m \in DOMAIN ws : ws[m].next \in {tx[t].writeSet[k].next : k \in Items(t)} \cup {NULL, new}
  <2>1. \A m \in DOMAIN ws1 : /\ m \in Items(t) \cup {reg[t].node}
                             /\ ws1[m].next \in {tx[t].writeSet[k].next : k \in Items(t)} \cup {new}
    BY DEF AddItem, Items
  <2> HIDE DEF ws1
  <2>2. \A m \in DOMAIN ws : /\ m \in DOMAIN ws1 \cup {new}
                            /\ ws[m].next \in {NULL} \cup {ws1[k].next : k \in DOMAIN ws1}
    BY DEF ws, AddItem
  <2> QED  BY <2>1, <2>2
<1>8. Elems(tx'[t].readSet) = Elems(tx[t].readSet) \cup {reg[t].node}
  BY <1>1, <1>6, AppendElems DEF Read
<1>9. Elems(tx'[t].indexTodo) = Elems(tx[t].indexTodo) \cup {e} /\ e.op = "insert" /\ e.node = new
  <2>1. e \in E /\ e.op = "insert" /\ e.node = new
    BY <1>5 DEF e, E, OpTypes
  <2>2. tx[t].indexTodo \in Seq(E)
    <3>1. [node : Allocated, op : OpTypes] \subseteq E
      BY <1>5 DEF E
    <3> QED  BY <1>1, <3>1, SeqMonotonic
  <2>3. Elems(Append(tx[t].indexTodo, e)) = Elems(tx[t].indexTodo) \cup {e}
    BY <2>1, <2>2, AppendElems
  <2> QED  BY <1>6, <2>1, <2>3
<1>10. Fresh(t)' = Fresh(t) \cup {new}
  BY <1>9 DEF Fresh, Entry
<1>11. \A n \in Reach(t)' : n \in Reach(t) \cup {NULL, new}
  BY <1>2, <1>6, <1>7, <1>8, <1>9 DEF Reach, NoReg, Items
<1>12. Born(t, new)
  BY <1>3, <1>5, <1>10, <1>11 DEF Born
<1> QED  BY <1>12 DEF new

-----------------------------------------------------------------------------
\* A thread that writes back links what is in its write set.
LEMMA StoreAvoids == ASSUME TypeInv, NEW t \in Threads, NEW F, Avoids(t, F), Store(t) PROVE Avoids(t, F)'
<1>1. PICK a \in todo[t] :
        /\ heap' = [heap EXCEPT
             ![a[1]].deleted = IF a[2] = "deleted" THEN TRUE ELSE @,
             ![a[1]].next = IF a[2] = "next" THEN tx[t].writeSet[a[1]].next ELSE @,
             ![a[1]].version = IF a[2] = "version" THEN tx[t].writeVersion ELSE @]
        /\ todo' = [todo EXCEPT ![t] = @ \ {a}]
        /\ reg' = [reg EXCEPT ![t].node = IF a[2] = "version" THEN NULL ELSE a[1]]
  BY DEF Store, Due
<1>2. UNCHANGED <<index, pc, tx>> /\ pc[t] = "publish"
  BY DEF Store
<1>3. a[1] \in Items(t) /\ a[1] \in Allocated
  BY <1>2 DEF TypeInv, Pointers, Control
<1>4. heap \in Seq(Node) /\ heap[a[1]] \in Node
  BY <1>3, NodeAt DEF TypeInv, TypeOK
<1>5. /\ Allocated' = Allocated /\ \A m \in Allocated \ {a[1]} : heap'[m] = heap[m]
      /\ heap'[a[1]].next \in {heap[a[1]].next, tx[t].writeSet[a[1]].next}
  BY <1>1, <1>3, <1>4 DEF Allocated, Node
<1>6. tx[t].writeSet[a[1]].next \notin F
  BY <1>3 DEF Avoids, Reach
<1>7. /\ todo'[t] \subseteq todo[t] /\ reg'[t].next = reg[t].next /\ reg'[t].pred = reg[t].pred
      /\ reg'[t].node \in {NULL, a[1]}
  BY <1>1 DEF TypeInv, TypeOK, Registers
<1>8. \A n \in Reach(t)' : n \in Reach(t) \cup {NULL}
  BY <1>2, <1>3, <1>7 DEF Reach, Items
<1> QED  BY <1>2, <1>5, <1>6, <1>8 DEF Avoids

\* A thread puts its own nodes into the index.
LEMMA UpdateIndexAvoids == ASSUME TypeInv, NEW t \in Threads, NEW F, Avoids(t, F), UpdateIndex(t) PROVE Avoids(t, F)'
<1> DEFINE E == [node : Allocated, op : OpTypes]
           s == tx[t].indexTodo
<1>1. /\ UNCHANGED <<heap, reg, todo>> /\ Allocated' = Allocated
      /\ s # <<>> /\ index' = IndexAfter(s[1]) /\ tx' = [tx EXCEPT ![t].indexTodo = Tail(s)]
  BY DEF UpdateIndex, Allocated, TypeInv, TypeOK
<1>2. tx'[t].writeSet = tx[t].writeSet /\ tx'[t].readSet = tx[t].readSet /\ tx'[t].indexTodo = Tail(s)
  BY <1>1 DEF TypeInv, TypeOK, Transaction
<1>3. s \in Seq(E)
  BY DEF TypeInv, Pointers
<1> HIDE DEF E, s
<1>4. s[1] \in Elems(s) /\ \A i \in Elems(Tail(s)) : i \in Elems(s)
  BY <1>1, <1>3 DEF Elems
<1>5. \A n \in Reach(t)' : n \in Reach(t)
  BY <1>1, <1>2, <1>4 DEF Reach, Items, s
<1>6. \A n \in index' : n \notin F
  <2>1. s[1].node \in Reach(t)
    BY <1>4 DEF Reach, s
  <2> QED  BY <1>1, <2>1 DEF Avoids, IndexAfter
<1> QED  BY <1>1, <1>5, <1>6 DEF Avoids

\* A transaction that is over has no nodes of its own, and none of anybody's.
LEMMA FinishEffect ==
  ASSUME TypeInv, NEW t \in Threads, Finish(t)
  PROVE  /\ UNCHANGED <<heap, index>> /\ Allocated' = Allocated
         /\ Fresh(t)' = {} /\ \A n \in Reach(t)' : n \in Reach(t) \cup {NULL}
<1>1. UNCHANGED <<heap, index, todo>> /\ Allocated' = Allocated /\ tx'[t] = NoTx /\ reg'[t] = NoReg
  BY DEF Finish, shared, Allocated, TypeInv, TypeOK
<1> QED  BY <1>1 DEF Fresh, Entry, Reach, NoTx, NoReg, Items, Elems

\* Whatever a thread does, it does not come by a node that it could not get hold of before.
LEMMA StepAvoids ==
  ASSUME TypeInv, NEW t \in Threads, NEW F, F \subseteq Allocated, Avoids(t, F), Step(t) PROVE Avoids(t, F)'
<1>1. CASE Insert(t)
  <2>1. PICK new : Born(t, new) /\ new \notin F
    BY <1>1, InsertBorn DEF Born, Pointer
  <2>2. reg[t].next \notin F
    BY DEF Avoids, Reach
  <2> QED  BY <2>1, <2>2 DEF Avoids, Born
<1>2. CASE Finish(t)
  BY <1>2, FinishEffect, AvoidsKeep DEF Avoids
<1> QED  BY <1>1, <1>2, CommitAvoids, VisitAvoids, LoadAvoids, ReadAvoids, RemoveAvoids, UnlinkAvoids,
            StoreAvoids, UpdateIndexAvoids DEF Step

-----------------------------------------------------------------------------
\* The new nodes of t change with insert, the update of the index and the end of the
\* transaction only.
LEMMA FreshKept ==
  ASSUME TypeInv, NEW t \in Threads, Step(t), ~Insert(t), ~UpdateIndex(t), ~Finish(t)
  PROVE  Fresh(t)' = Fresh(t) /\ index' = index
<1>1. index' = index
  BY Zenon DEF Step, TXBegin, Seek, Load, Restart, Walk, Contains, Refuse, Remove, Unlink,
     TXCommit, TryLock, Validate, Invalid, AddAndFetch, Store, Unlock, shared
<1>2. CASE Unlink(t)
  <2> DEFINE E == [node : Allocated, op : OpTypes]
             e == [node |-> reg[t].node, op |-> "remove"]
  <2>1. e \in E /\ tx[t].indexTodo \in Seq(E) /\ e.op = "remove"
    BY <1>2 DEF Unlink, Loaded, TypeInv, Pointers, Control, Pointer, OpTypes
  <2>2. tx'[t].indexTodo = Append(tx[t].indexTodo, e)
    BY <1>2 DEF Unlink, TypeInv, TypeOK, Transaction
  <2> HIDE DEF E, e
  <2>3. Elems(tx'[t].indexTodo) = Elems(tx[t].indexTodo) \cup {e}
    BY <2>1, <2>2, AppendElems
  <2> QED  BY <1>1, <2>1, <2>3 DEF Fresh, Entry
<1>3. CASE ~Unlink(t)
  <2>1. tx'[t].indexTodo = tx[t].indexTodo
    <3>1. CASE Contains(t) \/ Refuse(t) \/ Remove(t)
      <4>1. PICK rs : tx' = [tx EXCEPT ![t].readSet = rs]
        BY <3>1 DEF Contains, Refuse, Remove
      <4> QED  BY <4>1 DEF TypeInv, TypeOK, Transaction
    <3>2. CASE TXBegin(t) \/ AddAndFetch(t)
      BY <3>2 DEF TXBegin, AddAndFetch, TypeInv, TypeOK, Transaction
    <3>3. CASE Seek(t) \/ Restart(t) \/ Walk(t) \/ Load(t) \/ TXCommit(t) \/ TryLock(t) \/ Validate(t) \/ Invalid(t)
               \/ Store(t) \/ Unlock(t)
      BY <3>3, Zenon DEF Seek, Restart, Walk, Load, TXCommit, TryLock, Validate, Invalid, Store, Unlock
    <3> QED  BY <1>3, <3>1, <3>2, <3>3 DEF Step
  <2> QED  BY <1>1, <2>1 DEF Fresh, Entry
<1> QED  BY <1>2, <1>3

\* What a thread has made itself stays hidden from the others.
LEMMA OwnHidden == ASSUME TypeInv, PrivInv, NEW t \in Threads, Step(t) PROVE Hidden(t)'
<1>1. \A u \in Threads \ {t} : Reach(u)' = Reach(u)
  <2>1. \A u \in Threads \ {t} : SameLocals(u)
    BY OthersSame
  <2> QED  BY <2>1 DEF SameLocals, Reach, Items
<1>2. CASE Store(t) \/ UpdateIndex(t)
  BY <1>2 DEF Store, UpdateIndex, Written, Hidden, Unpublished
<1>3. CASE Finish(t)
  BY <1>3, FinishEffect DEF Hidden
<1>4. CASE Insert(t)
  <2>1. PICK new : Born(t, new)
    BY <1>4, InsertBorn
  <2>2. Unpublished(t)
    BY <1>4 DEF Insert, Arrived, InWalk, Loaded, Unpublished
  <2>3. \A m \in Allocated : heap'[m].next # new
    BY <2>1 DEF Born, TypeInv
  <2>4. new \notin index' /\ \A u \in Threads \ {t} : new \notin Reach(u)
    BY <2>1, ReachAllocated DEF Born, TypeInv, TypeOK, Pointer
  <2> QED  BY <1>1, <2>1, <2>2, <2>3, <2>4 DEF PrivInv, Hidden, Born
<1>5. CASE ~(Store(t) \/ UpdateIndex(t) \/ Finish(t) \/ Insert(t))
  <2>1. Fresh(t)' = Fresh(t) /\ index' = index /\ \A m \in Allocated : heap'[m].next = heap[m].next
    BY <1>5, FreshKept, HeapKept
  <2>2. Allocated' = Allocated
    BY <1>5, UnlockEffect DEF Step, TXBegin, Seek, Load, Restart, Walk, Contains, Refuse, Remove, Unlink, TXCommit,
       TryLock, Lock, Validate, Invalid, AddAndFetch, shared, Allocated, TypeInv, TypeOK
  <2>3. Unpublished(t) \/ pc'[t] = "publish"
    BY <1>5 DEF Step, TXBegin, Seek, Load, Restart, Walk, Contains, Refuse, Remove, Unlink, TXCommit, Unlock, Arrived,
       TryLock, Validate, Invalid, AddAndFetch, Validating, InWalk, Loaded, Unpublished, TypeInv, TypeOK
  <2> QED  BY <1>1, <2>1, <2>2, <2>3 DEF PrivInv, Hidden, Unpublished
<1> QED  BY <1>2, <1>3, <1>4, <1>5

LEMMA InitPrivate == Init => PrivInv
<1> SUFFICES ASSUME Init, NEW t \in Threads PROVE Fresh(t) = {}
  BY DEF PrivInv, Hidden
<1> QED  BY DEF Init, NoTx, Fresh, Entry, Elems

LEMMA NextPrivate == TypeInv /\ PrivInv /\ [Next]_vars => PrivInv'
<1> SUFFICES ASSUME TypeInv, PrivInv, [Next]_vars PROVE PrivInv'
  OBVIOUS
<1>1. ASSUME NEW t \in Threads, Step(t) PROVE PrivInv'
  <2> SUFFICES ASSUME NEW u \in Threads \ {t} PROVE Hidden(u)'
    BY <1>1, OwnHidden DEF PrivInv
  <2>1. \A v \in Threads \ {t} : SameLocals(v)
    BY <1>1, OthersSame
  <2>2. PICK F : F = Fresh(u)
    OBVIOUS
  <2>3. Fresh(u)' = F /\ Unpublished(u)' = Unpublished(u)
    BY <2>1, <2>2 DEF SameLocals, Fresh, Entry, Unpublished
  <2>4. SUFFICES ASSUME Unpublished(u) PROVE Hidden(u)'
    BY <2>3 DEF Hidden
  <2>5. F \subseteq Allocated /\ Avoids(t, F)
    BY <2>2, <2>4, Apart
  <2>6. Avoids(t, F)'
    BY <1>1, <2>5, StepAvoids
  <2>7. \A v \in Threads \ {u} : \A n \in F : n \notin Reach(v)'
    <3>1. \A v \in Threads \ {t} : Reach(v)' = Reach(v)
      BY <2>1 DEF SameLocals, Reach, Items
    <3> QED  BY <2>2, <2>4, <2>6, <3>1 DEF PrivInv, Hidden, Avoids
  <2> QED  BY <2>3, <2>6, <2>7 DEF Hidden, Avoids
<1>2. ASSUME UNCHANGED vars PROVE PrivInv'
  BY <1>2 DEF vars, PrivInv, Hidden, Unpublished, Fresh, Entry, Reach, Items, Allocated
<1> QED  BY <1>1, <1>2 DEF Next, Done

\* A node that insert has built is out of reach of every other thread until its transaction
\* has validated and begins to publish: nothing is seen of a transaction that aborts.
THEOREM PrivateCorrect == Spec => []PrivateNodes
<1>1. Init => TypeInv /\ PrivInv
  BY InitTyped, InitPrivate
<1>2. TypeInv /\ PrivInv /\ [Next]_vars => (TypeInv /\ PrivInv)'
  BY NextTyped, NextPrivate
<1>3. PrivInv => PrivateNodes
  BY DEF PrivInv, Hidden, Unpublished, PrivateNodes, Reach
<1> QED  BY <1>1, <1>2, <1>3, PTL DEF Spec
=============================================================================
