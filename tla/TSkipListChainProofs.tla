------------------------ MODULE TSkipListChainProofs ------------------------
(***************************************************************************)
(* Proofs about the transactional skip list when TXCommit is left whole:   *)
(* it implements the transactional set of TxSet (Opaque), its chain stays  *)
(* sorted and holds what the committed transactions say (ChainSorted,      *)
(* CommittedSum), a transaction aborts only for a conflict                 *)
(* (AbortOnlyOnConflict), for any threads, keys, programs and bounds.  Two *)
(* hypotheses, Coarse and LastKept, keep out what the runs lost_insert,    *)
(* lone_abort and remove_last show.  Without them, and for every           *)
(* interleaving of single loads and stores: what the chain leads to is in  *)
(* the index or about to be (IndexAgrees), and a removed node stays there  *)
(* for one reason only (IndexSheds).                                       *)
(***************************************************************************)
EXTENDS TSkipListChains, TSkipListTxSet

\* No other thread runs while one is between its first tryLock and its last
\* unlock, and getValidatedValue loads in program order.
Coarse == Grain # "step" /\ ~Reorder

\* The calls that the programs make.
Called == UNION {Elems(p) : p \in Programs}

\* The list begins with a key that lies beyond those of all calls.
LastKept == \E k \in Elems(Warm) : \A c \in Called : c.key < k

-----------------------------------------------------------------------------
\* The list as it is once the transactions past addAndFetch have written back.
KeyOf == [n \in Allocated |-> heap[n].key]
NowNext == [n \in Allocated |-> NextToBe(n)]
Chained == ChainOf(NowNext) \cup {HeadNode}
DeletedToBe(n) ==
    heap[n].deleted \/ \E u \in Threads : pc[u] = "publish" /\ <<n, "deleted">> \in todo[u]

InTx(t) == pc[t] \in {"ready", "load", "lock"}

\* Node n has been written since t began.
Changed(t, n) == \/ heap[n].version > tx[t].readVersion
                 \/ \E u \in Threads : pc[u] = "publish" /\ <<n, "version">> \in todo[u]

\* What t makes of the chain S and the pointers N that it found when it began: its new
\* nodes are in, the nodes that it has removed are out, and its write set leads on.
Cut(t) == {n \in Items(t) : tx[t].writeSet[n].deleted}
View(t, S) == (S \cup Fresh(t)) \ Cut(t)
ViewNext(t, N) == [n \in Allocated |->
    IF n \in Items(t) /\ tx[t].writeSet[n].next # NULL THEN tx[t].writeSet[n].next ELSE N[n]]

\* A node of V has a key beyond those of all calls.
Above(V) == \E m \in V : \A c \in Called : c.key < heap[m].key

\* How often V has key k.
Has(V, k) == IF \E n \in V \ {HeadNode} : heap[n].key = k THEN 1 ELSE 0

Chains(t, S, N) ==
    /\ S \subseteq Allocated /\ Sorted(S, N, KeyOf) /\ Above(S)
    /\ S \cap Fresh(t) = {} /\ Sorted(View(t, S), ViewNext(t, N), KeyOf)

\* What t writes it has read or made, the index is to learn of what it made and removed.
Logged(t, S, N) ==
    /\ Fresh(t) \subseteq Items(t) /\ Items(t) \subseteq Fresh(t) \cup Elems(tx[t].readSet)
    /\ Elems(tx[t].readSet) \subseteq S \cup Fresh(t)
    /\ \A n \in Elems(tx[t].readSet) : ViewNext(t, N)[n] # NULL
    /\ \A e \in Elems(tx[t].indexTodo) : e.node \in Items(t)
    /\ \A n \in Cut(t) : \E c \in Called : c.key = heap[n].key

\* A node that has not been written since t began is now as t found it.
Agrees(t, S, N) ==
    /\ \A n \in Allocated : ~Changed(t, n) => /\ n \in S <=> n \in Chained
                                              /\ n \in S => N[n] = NextToBe(n)
    /\ \A n \in Fresh(t) : ~Changed(t, n) /\ ~DeletedToBe(n) /\ N[n] = NextToBe(n)

\* t has been told of each key what its view says.
Told(t, S) ==
    \A k \in Keys : Has(View(t, S), k)
                      = Has(S, k) + Times(trace[t], "insert", k) - Times(trace[t], "remove", k)

\* Where t is in the chain, and what it has loaded of the node it is at.
At(t, S, N) ==
    LET n == reg[t].node  k == prog[t][1].key
    IN /\ ret[t] = "start" => /\ n \in S \/ Changed(t, n) \/ DeletedToBe(n)
                              /\ heap[n].key < k
       /\ ret[t] = "walk" => n \in View(t, S) /\ heap[n].key < k
       /\ ret[t] = "unlink" => /\ n \in View(t, S) /\ heap[n].key = k /\ prog[t][1].op = "remove"
                               /\ reg[t].pred \in View(t, S) /\ ViewNext(t, N)[reg[t].pred] = n
                               /\ n \in Elems(tx[t].readSet) /\ reg[t].pred \in Elems(tx[t].readSet)
       /\ ret[t] = "validate" => pos[t] \in DOMAIN tx[t].readSet /\ n = tx[t].readSet[pos[t]]

HasLoaded(t, S, N) ==
    LET n == reg[t].node
    IN /\ \A a \in todo[t] : a[1] = n
       /\ todo[t] # {} => <<n, "version">> \in todo[t]
       /\ <<n, "next">> \in todo[t] => ViewNext(t, N)[n] = N[n]
       /\ <<n, "deleted">> \in todo[t] => n \notin Items(t)
       /\ ~Changed(t, n) /\ n \in S \cup Fresh(t) /\ <<n, "next">> \notin todo[t]
            => reg[t].next = ViewNext(t, N)[n]
       /\ ~Changed(t, n) /\ ret[t] \in {"start", "walk"} /\ <<n, "deleted">> \notin todo[t]
            => (reg[t].deleted <=> IF n \in Items(t) THEN n \in Cut(t) ELSE DeletedToBe(n))
       /\ ret[t] = "unlink" => ~reg[t].deleted /\ <<n, "deleted">> \notin todo[t]
       /\ todo[t] = {} => \/ ret[t] = "start" /\ reg[t].deleted
                          \/ ret[t] = "validate" /\ reg[t].next = ViewNext(t, N)[n]
                          \/ /\ n \in View(t, S) /\ reg[t].next = ViewNext(t, N)[n]
                             /\ ~reg[t].deleted

Reading(t, S, N) == pc[t] = "load" => At(t, S, N) /\ HasLoaded(t, S, N)

\* The keys of V, as TxSet has them.
Held(V) == {heap[n].key : n \in V \ {HeadNode}}

\* What t was told is right by the keys it found, its view has what its calls make of
\* them, and its read set shows of each key that it asked for whether it was there.
Covered(t, S, N, k) == Spanned(S, N, KeyOf, Elems(tx[t].readSet), k)
Answered(t, S, N) ==
    /\ snap[t] = Held(S) /\ Abstract!Explains(snap[t], trace[t])
    /\ \A k \in Keys : k \in Held(View(t, S)) <=> k \in Abstract!After(snap[t], trace[t])
    /\ \A i \in DOMAIN trace[t] : Covered(t, S, N, trace[t][i].key)
    /\ \A n \in Fresh(t) : Covered(t, S, N, heap[n].key)

Snapshot(t, S, N) ==
    /\ Chains(t, S, N) /\ Logged(t, S, N) /\ Agrees(t, S, N) /\ Told(t, S)
    /\ Answered(t, S, N) /\ Reading(t, S, N)

\* How far t has validated its read set.
Validates(t) == pc[t] = "load" /\ ret[t] = "validate"
Checked(t) ==
    /\ Validates(t) => \A i \in 1..pos[t] : i # pos[t] \/ todo[t] = {} => ~Changed(t, tx[t].readSet[i])
    /\ pc[t] \in {"idle", "ready", "lock"} \/ (pc[t] = "load" /\ ~Validates(t)) => pos[t] = 0

\* A write-back is under way with a version that is newer than what t found.
Newer(t) == \A u \in Threads \ {t} :
               InTx(t) /\ pc[u] = "publish" /\ todo[u] # {} => tx[t].readVersion < tx[u].writeVersion

TxInv(t) == /\ InTx(t) => \E S, N : Snapshot(t, S, N)
            /\ \A i \in DOMAIN prog[t] : prog[t][i] \in Called
            /\ ~InTx(t) => trace[t] = <<>>
            /\ pc[t] = "idle" => tx[t] = NoTx
            /\ Checked(t) /\ Newer(t)

\* The index leads to nodes that are in the chain or have been.
Known(n) == n \in Chained \/ DeletedToBe(n)

ListInv ==
    /\ heap[HeadNode].key = MIN_VAL /\ \A n \in Allocated : ~heap[n].locked
    /\ \A n \in Allocated \ {HeadNode} : heap[n].key \in Keys
    /\ Sorted(Chained, NowNext, KeyOf) /\ Above(Chained)
    /\ \A n \in Chained : ~DeletedToBe(n)
    /\ \A n \in index : Known(n)
    /\ \A u \in Threads : pc[u] = "publish" => \A e \in Elems(tx[u].indexTodo) : Known(e.node)
    /\ \A k \in Keys : Has(Chained, k) = (IF k \in Elems(Warm) THEN 1 ELSE 0) + net[k]

ChainInv == ListInv /\ \A t \in Threads : TxInv(t)

Base == TypeInv /\ LockInv /\ ClockInv /\ PrivInv

-----------------------------------------------------------------------------
\* The thread that takes a step: no commit of another one is under way.
Alone(t) == \A u \in Threads \ {t} : ~Committing(u)

LEMMA ScheduledAlone ==
  ASSUME Coarse, LockInv, NEW t \in Threads, Scheduled(t) PROVE Alone(t)
BY GrainAssumption DEF Coarse, Scheduled, Alone, Committing, LockInv, Stage, MayHold

LEMMA SortedSame ==
  ASSUME NEW V, NEW N, NEW K, Sorted(V, N, K), NEW M, NEW J, \A n \in V : M[n] = N[n] /\ J[n] = K[n]
  PROVE  Sorted(V, M, J)
BY DEF Sorted

LEMMA HeadAllocated == TypeInv => HeadNode \in Allocated /\ NULL \notin Allocated /\ Allocated = 1..Len(heap) /\ Len(heap) \in Nat
<1> SUFFICES ASSUME TypeInv PROVE HeadNode \in Allocated /\ NULL \notin Allocated /\ Allocated = 1..Len(heap) /\ Len(heap) \in Nat
  OBVIOUS
<1>1. Allocated = 1..Len(heap) /\ Len(heap) \in Nat /\ Len(heap) \in 1..MaxNodes
  BY HeapNodes DEF TypeInv, TypeOK
<1> QED  BY <1>1, BoundsAssumption DEF HeadNode, NULL

LEMMA HeadAllocatedNext == (TypeInv => HeadNode \in Allocated /\ NULL \notin Allocated /\ Allocated = 1..Len(heap) /\ Len(heap) \in Nat)'
BY HeadAllocated, PTL

LEMMA ChainedIs == TypeInv => \A V \in SUBSET Allocated : Sorted(V, NowNext, KeyOf) => Chained = V
<1> SUFFICES ASSUME TypeInv, NEW V \in SUBSET Allocated, Sorted(V, NowNext, KeyOf) PROVE Chained = V
  OBVIOUS
<1>1. ChainOf(NowNext) = V \ {HeadNode}
  BY HeadAllocated, ChainIs
<1> QED  BY <1>1 DEF Chained, Sorted

LEMMA ChainedIsNext == (TypeInv => \A V \in SUBSET Allocated : Sorted(V, NowNext, KeyOf) => Chained = V)'
BY ChainedIs, PTL

LEMMA ChainedAllocated == TypeInv => Chained \subseteq Allocated
BY HeadAllocated DEF Chained, ChainOf

\* With no write-back under way the list is what the heap says.
LEMMA QuietNow ==
  Quiet => /\ \A n : NextToBe(n) = heap[n].next
           /\ \A n, t : Changed(t, n) <=> heap[n].version > tx[t].readVersion
<1> SUFFICES ASSUME Quiet
             PROVE  /\ \A n : NextToBe(n) = heap[n].next
                    /\ \A n, t : Changed(t, n) <=> heap[n].version > tx[t].readVersion
  OBVIOUS
<1>1. \A n : {t \in Threads : pc[t] = "publish" /\ <<n, "next">> \in todo[t]} = {}
  BY DEF Quiet
<1> QED  BY <1>1 DEF NextToBe, Changed, Quiet

LEMMA QuietNext ==
  (Quiet => /\ \A n : NextToBe(n) = heap[n].next
            /\ \A n, t : Changed(t, n) <=> heap[n].version > tx[t].readVersion)'
BY QuietNow, PTL

LEMMA QuietDeleted == TypeInv /\ Quiet => \A n \in Allocated : DeletedToBe(n) = heap[n].deleted
<1> SUFFICES ASSUME TypeInv, Quiet, NEW n \in Allocated PROVE DeletedToBe(n) = heap[n].deleted
  OBVIOUS
<1>1. heap[n].deleted \in BOOLEAN
  BY NodeAt
<1>2. ~\E u \in Threads : pc[u] = "publish" /\ <<n, "deleted">> \in todo[u]
  BY DEF Quiet
<1> QED  BY <1>1, <1>2 DEF DeletedToBe

LEMMA QuietDeletedNext == (TypeInv /\ Quiet => \A n \in Allocated : DeletedToBe(n) = heap[n].deleted)'
BY QuietDeleted, PTL

-----------------------------------------------------------------------------
\* What t has found is as it was, where it has not been written since t began.
Still(t) ==
    /\ Allocated \subseteq Allocated'
    /\ \A n \in Allocated : /\ heap'[n].key = heap[n].key
                            /\ Changed(t, n) => Changed(t, n)'
                            /\ DeletedToBe(n) => DeletedToBe(n)'
                            /\ ~Changed(t, n)' => /\ n \in Chained <=> n \in Chained'
                                                  /\ NextToBe(n)' = NextToBe(n)
                                                  /\ DeletedToBe(n)' => DeletedToBe(n)
    /\ \A n \in Allocated' \ Allocated : n \notin Chained'
    /\ \A n \in Fresh(t) : ~Changed(t, n) => ~Changed(t, n)'

SameWrites(t) == tx'[t].writeSet = tx[t].writeSet /\ tx'[t].indexTodo = tx[t].indexTodo
SameCount(t) == \A op \in {"insert", "remove"}, k \in Keys : Times(trace'[t], op, k) = Times(trace[t], op, k)

LEMMA SameView ==
  ASSUME TypeInv, TypeInv', NEW t \in Threads, NEW S, NEW N, Allocated \subseteq Allocated', SameWrites(t)
  PROVE  /\ View(t, S)' = View(t, S) /\ Items(t)' = Items(t) /\ Fresh(t)' = Fresh(t) /\ Cut(t)' = Cut(t)
         /\ \A n \in Allocated : ViewNext(t, N)'[n] = ViewNext(t, N)[n]
<1>1. Items(t)' = Items(t) /\ Fresh(t)' = Fresh(t)
  BY DEF SameWrites, Items, Fresh, Entry
<1>2. Cut(t)' = Cut(t)
  BY <1>1 DEF SameWrites, Cut
<1>3. View(t, S)' = View(t, S)
  BY <1>1, <1>2 DEF View
<1>4. ASSUME NEW n \in Allocated PROVE ViewNext(t, N)'[n] = ViewNext(t, N)[n]
  BY <1>1, <1>4 DEF ViewNext, SameWrites
<1> QED  BY <1>1, <1>2, <1>3, <1>4

LEMMA FreshAllocated ==
  ASSUME TypeInv, NEW t \in Threads PROVE Fresh(t) \subseteq Allocated /\ Items(t) \subseteq Allocated
                                           /\ Elems(tx[t].readSet) \subseteq Allocated
<1>1. Fresh(t) \subseteq Allocated
  BY TodoAllocated DEF Fresh, Entry
<1>2. tx[t].readSet \in Seq(Allocated) /\ Items(t) \subseteq Allocated
  BY DEF TypeInv, Pointers
<1> QED  BY <1>1, <1>2 DEF Elems

LEMMA AgreesKeep ==
  ASSUME TypeInv, TypeInv', NEW t \in Threads, NEW S, NEW N, Still(t), Agrees(t, S, N), S \subseteq Allocated,
         Fresh(t)' = Fresh(t)
  PROVE  Agrees(t, S, N)'
<1>1. ASSUME NEW n \in Allocated', ~Changed(t, n)'
      PROVE  (n \in S <=> n \in Chained') /\ (n \in S => N[n] = NextToBe(n)')
  <2>1. CASE n \in Allocated
    BY <1>1, <2>1 DEF Still, Agrees
  <2>2. CASE n \notin Allocated
    BY <1>1, <2>2 DEF Still
  <2> QED  BY <2>1, <2>2
<1>2. ASSUME NEW n \in Fresh(t) PROVE ~Changed(t, n)' /\ ~DeletedToBe(n)' /\ N[n] = NextToBe(n)'
  BY <1>2, FreshAllocated DEF Still, Agrees
<1> QED  BY <1>1, <1>2 DEF Agrees

LEMMA SnapKeep ==
  ASSUME TypeInv, TypeInv', NEW t \in Threads, NEW S, NEW N, Still(t), SameWrites(t), SameCount(t),
         Chains(t, S, N), Agrees(t, S, N), Told(t, S)
  PROVE  Chains(t, S, N)' /\ Agrees(t, S, N)' /\ Told(t, S)'
<1>1. /\ View(t, S)' = View(t, S) /\ Items(t)' = Items(t) /\ Fresh(t)' = Fresh(t) /\ Cut(t)' = Cut(t)
      /\ \A n \in Allocated : ViewNext(t, N)'[n] = ViewNext(t, N)[n]
  BY SameView DEF Still
<1>2. S \subseteq Allocated /\ View(t, S) \subseteq Allocated /\ Fresh(t) \subseteq Allocated
  BY FreshAllocated DEF Chains, View
<1>3. \A n \in Allocated : n \in Allocated' /\ KeyOf[n] = heap[n].key /\ KeyOf'[n] = heap[n].key
  BY DEF KeyOf, Still
<1>4. Chains(t, S, N)'
  <2>1. Sorted(S, N, KeyOf)'
    BY <1>2, <1>3, SortedSame DEF Chains
  <2>2. Sorted(View(t, S), ViewNext(t, N), KeyOf)'
    <3> DEFINE V == View(t, S)  M == ViewNext(t, N)
    <3>1. Sorted(V, M, KeyOf)
      BY DEF Chains
    <3>2. \A n \in V : M'[n] = M[n] /\ KeyOf'[n] = KeyOf[n]
      BY <1>1, <1>2, <1>3
    <3> HIDE DEF M, V
    <3>3. Sorted(V, M', KeyOf')
      BY <3>1, <3>2, SortedSame
    <3> QED  BY <1>1, <3>3 DEF V, M
  <2>3. Above(S)' /\ (S \subseteq Allocated)' /\ (S \cap Fresh(t) = {})'
    BY <1>1, <1>2, <1>3 DEF Chains, Above, KeyOf, Still
  <2> QED  BY <2>1, <2>2, <2>3 DEF Chains
<1>5. Agrees(t, S, N)'
  BY <1>1, <1>2, AgreesKeep
<1>6. Told(t, S)'
  <2>1. ASSUME NEW k \in Keys, NEW V, V \subseteq Allocated PROVE Has(V, k)' = Has(V, k)
    BY <2>1, <1>3 DEF Has, Still
  <2> QED  BY <1>1, <1>2, <2>1 DEF Told, SameCount
<1> QED  BY <1>4, <1>5, <1>6

LEMMA LoggedKeep ==
  ASSUME TypeInv, TypeInv', NEW t \in Threads, NEW S, NEW N, Still(t), SameWrites(t), Logged(t, S, N),
         Elems(tx[t].readSet) \subseteq Elems(tx'[t].readSet),
         \A n \in Elems(tx'[t].readSet) \ Elems(tx[t].readSet) :
            n \in Allocated /\ n \in S \cup Fresh(t) /\ ViewNext(t, N)[n] # NULL
  PROVE  Logged(t, S, N)'
<1>1. /\ Items(t)' = Items(t) /\ Fresh(t)' = Fresh(t) /\ Cut(t)' = Cut(t)
      /\ \A n \in Allocated : ViewNext(t, N)'[n] = ViewNext(t, N)[n]
  BY SameView DEF Still
<1>2. Items(t) \subseteq Allocated /\ Elems(tx[t].readSet) \subseteq Allocated
  BY FreshAllocated
<1>3. \A n \in Cut(t) : n \in Allocated /\ heap'[n].key = heap[n].key
  BY <1>2 DEF Cut, Still
<1>4. \A n \in Elems(tx'[t].readSet) : n \in S \cup Fresh(t) /\ ViewNext(t, N)'[n] # NULL
  BY <1>1, <1>2 DEF Logged
<1> QED  BY <1>1, <1>3, <1>4 DEF Logged, SameWrites

LEMMA AnsweredKeep ==
  ASSUME TypeInv, TypeInv', NEW t \in Threads, NEW S, NEW N, Still(t), SameWrites(t), Chains(t, S, N), Answered(t, S, N),
         trace'[t] = trace[t], snap'[t] = snap[t], Elems(tx[t].readSet) \subseteq Elems(tx'[t].readSet)
  PROVE  Answered(t, S, N)'
<1>1. View(t, S)' = View(t, S) /\ Fresh(t)' = Fresh(t)
  BY SameView DEF Still
<1>2. S \subseteq Allocated /\ View(t, S) \subseteq Allocated /\ Fresh(t) \subseteq Allocated
  BY FreshAllocated DEF Chains, View
<1>3. \A n \in Allocated : n \in Allocated' /\ heap'[n].key = heap[n].key /\ KeyOf'[n] = KeyOf[n]
  BY DEF KeyOf, Still
<1>4. ASSUME NEW V, V \subseteq Allocated PROVE Held(V)' = Held(V)
  BY <1>3, <1>4 DEF Held
<1>5. ASSUME NEW k, Covered(t, S, N, k) PROVE Covered(t, S, N, k)'
  <2>1. Sorted(S, N, KeyOf) /\ \A n \in S : N[n] = N[n] /\ KeyOf'[n] = KeyOf[n]
    BY <1>2, <1>3 DEF Chains
  <2>2. PICK R, Q, J, K : R = Elems(tx[t].readSet) /\ Q = Elems(tx'[t].readSet) /\ K = KeyOf /\ J = KeyOf'
    OBVIOUS
  <2>3. Spanned(S, N, K, R, k) /\ R \subseteq Q
    BY <1>5, <2>2 DEF Covered
  <2>4. Spanned(S, N, J, Q, k)
    BY <2>1, <2>2, <2>3, SpannedSame
  <2> QED  BY <2>2, <2>4 DEF Covered
<1>6. ASSUME NEW n \in Fresh(t) PROVE Covered(t, S, N, heap[n].key)'
  <2>1. PICK k : k = heap[n].key
    OBVIOUS
  <2>2. Covered(t, S, N, k)'
    BY <1>5, <2>1 DEF Answered
  <2>3. heap'[n].key = k
    BY <1>2, <1>3, <2>1
  <2> QED  BY <2>2, <2>3
<1>7. ASSUME NEW i \in DOMAIN trace[t] PROVE Covered(t, S, N, trace[t][i].key)'
  <2>1. PICK k : k = trace[t][i].key
    OBVIOUS
  <2>2. Covered(t, S, N, k)'
    BY <1>5, <2>1 DEF Answered
  <2> QED  BY <2>1, <2>2
<1>8. Held(S)' = Held(S) /\ Held(View(t, S))' = Held(View(t, S))
  BY <1>1, <1>2, <1>4
<1> QED  BY <1>1, <1>6, <1>7, <1>8 DEF Answered

LEMMA ReadingKeep ==
  ASSUME TypeInv, TypeInv', NEW t \in Threads, NEW S, NEW N, Still(t), SameLocals(t), Reading(t, S, N)
  PROVE  Reading(t, S, N)'
<1> SUFFICES ASSUME pc[t] = "load" PROVE At(t, S, N)' /\ HasLoaded(t, S, N)'
  BY DEF Reading, SameLocals
<1> PICK n : n = reg[t].node
  OBVIOUS
<1>0. At(t, S, N) /\ HasLoaded(t, S, N)
  BY DEF Reading
<1>1. n \in Allocated /\ (ret[t] = "unlink" => reg[t].pred \in Allocated)
  BY DEF TypeInv, Control, Pointers, Pointer
<1>2. /\ View(t, S)' = View(t, S) /\ Items(t)' = Items(t) /\ Fresh(t)' = Fresh(t) /\ Cut(t)' = Cut(t)
      /\ \A m \in Allocated : ViewNext(t, N)'[m] = ViewNext(t, N)[m]
  BY SameView DEF SameLocals, SameWrites, Still
<1>3. heap'[n].key = heap[n].key /\ (Changed(t, n) => Changed(t, n)') /\ (DeletedToBe(n) => DeletedToBe(n)')
  BY <1>1 DEF Still
<1>4. At(t, S, N)'
  BY <1>0, <1>1, <1>2, <1>3 DEF At, SameLocals
<1>5. ~Changed(t, n)' => ~Changed(t, n) /\ (DeletedToBe(n)' <=> DeletedToBe(n))
  BY <1>1, <1>3 DEF Still
<1>6. HasLoaded(t, S, N)'
  BY <1>0, <1>1, <1>2, <1>5 DEF HasLoaded, SameLocals
<1> QED  BY <1>4, <1>6

LEMMA OtherKeep ==
  ASSUME TypeInv, TypeInv', NEW t \in Threads, TxInv(t), SameLocals(t), InTx(t) => Still(t),
         Validates(t) => \A n \in Elems(tx[t].readSet) : Changed(t, n)' => Changed(t, n),
         Newer(t)'
  PROVE  TxInv(t)'
<1>1. Checked(t)'
  <2>1. Validates(t)' = Validates(t)
    BY DEF Validates, SameLocals
  <2>2. Validates(t) => pos[t] \in DOMAIN tx[t].readSet
    BY DEF Validates, TxInv, InTx, Snapshot, Reading, At
  <2>3. tx[t].readSet \in Seq(Allocated)
    BY DEF TypeInv, Pointers
  <2>4. Validates(t) => \A i \in 1..pos[t] : tx[t].readSet[i] \in Elems(tx[t].readSet)
    BY <2>2, <2>3 DEF Elems
  <2>5. Checked(t)
    BY DEF TxInv
  <2> QED  BY <2>1, <2>4, <2>5 DEF Checked, SameLocals
<1>2. ASSUME InTx(t) PROVE \E S, N : Snapshot(t, S, N)'
  <2>1. PICK S, N : Snapshot(t, S, N)
    BY <1>2 DEF TxInv
  <2>2. Chains(t, S, N)' /\ Agrees(t, S, N)' /\ Told(t, S)'
    BY <1>2, <2>1, SnapKeep DEF Snapshot, SameLocals, SameWrites, SameCount
  <2>3. Logged(t, S, N)'
    BY <1>2, <2>1, LoggedKeep DEF Snapshot, SameLocals, SameWrites
  <2>4. Reading(t, S, N)'
    BY <1>2, <2>1, ReadingKeep DEF Snapshot
  <2>5. Answered(t, S, N)'
    BY <1>2, <2>1, AnsweredKeep DEF Snapshot, SameLocals, SameWrites
  <2> QED  BY <2>2, <2>3, <2>4, <2>5 DEF Snapshot
<1>3. InTx(t)' = InTx(t) /\ (\A i \in DOMAIN prog'[t] : prog'[t][i] \in Called)
      /\ (~InTx(t)' => trace'[t] = <<>>) /\ (pc'[t] = "idle" => tx'[t] = NoTx)
  BY DEF TxInv, InTx, SameLocals
<1> QED  BY <1>1, <1>2, <1>3 DEF TxInv

-----------------------------------------------------------------------------
\* A step after which the list will be what it would have been.
SameList ==
    /\ Allocated \subseteq Allocated'
    /\ \A n \in Allocated : /\ heap'[n].key = heap[n].key /\ (heap'[n].locked => heap[n].locked)
                            /\ NextToBe(n)' = NextToBe(n) /\ (DeletedToBe(n)' <=> DeletedToBe(n))
    /\ \A n \in Allocated' \ Allocated : ~heap'[n].locked /\ heap'[n].key \in Keys

LEMMA SameChained ==
  ASSUME TypeInv, TypeInv', SameList, Sorted(Chained, NowNext, KeyOf)
  PROVE  Chained' = Chained /\ Sorted(Chained, NowNext, KeyOf)'
<1>1. Chained \subseteq Allocated
  BY ChainedAllocated
<1>2. \A n \in Allocated : n \in Allocated' /\ NowNext'[n] = NowNext[n] /\ KeyOf'[n] = KeyOf[n]
  BY DEF SameList, NowNext, KeyOf
<1>3. PICK V : V = Chained
  OBVIOUS
<1>4. Sorted(V, NowNext, KeyOf)'
  BY <1>1, <1>2, <1>3, SortedSame
<1>5. V \subseteq Allocated'
  BY <1>1, <1>2, <1>3
<1>6. Chained' = V
  BY <1>4, <1>5, ChainedIsNext
<1> QED  BY <1>3, <1>4, <1>6

LEMMA ListKeep ==
  ASSUME TypeInv, TypeInv', ListInv, NEW t \in Threads, SameList, net' = net,
         \A n \in index' : \/ n \in index
                           \/ pc[t] = "publish" /\ \E e \in Elems(tx[t].indexTodo) : e.node = n,
         pc'[t] = "publish" => pc[t] = "publish" /\ Elems(tx'[t].indexTodo) \subseteq Elems(tx[t].indexTodo),
         \A u \in Threads \ {t} : SameLocals(u)
  PROVE  ListInv'
<1>1. Chained' = Chained /\ Sorted(Chained, NowNext, KeyOf)' /\ Chained \subseteq Allocated
  BY SameChained, ChainedAllocated DEF ListInv
<1>2. Above(Chained)' /\ (\A n \in Chained : ~DeletedToBe(n))'
  BY <1>1 DEF Above, ListInv, SameList
<1>3. HeadNode \in Allocated
  BY HeadAllocated
<1>4. /\ heap'[HeadNode].key = MIN_VAL /\ \A n \in Allocated' : ~heap'[n].locked
      /\ \A n \in Allocated' \ {HeadNode} : heap'[n].key \in Keys
  BY <1>3 DEF ListInv, SameList
<1>5. ASSUME NEW n \in Allocated, Known(n) PROVE Known(n)'
  BY <1>1, <1>5 DEF Known, SameList
<1>6. \A n \in index : n \in Allocated
  BY DEF TypeInv, TypeOK
<1>7. \A u \in Threads : \A e \in Elems(tx[u].indexTodo) : e.node \in Allocated
  BY TodoAllocated
<1>8. \A n \in index' : Known(n)'
  <2> TAKE n \in index'
  <2>1. n \in Allocated /\ Known(n)
    BY <1>6, <1>7 DEF ListInv
  <2> QED  BY <2>1, <1>5
<1>9. ASSUME NEW u \in Threads, pc'[u] = "publish", NEW e \in Elems(tx'[u].indexTodo) PROVE Known(e.node)'
  <2>1. PICK n : n = e.node
    OBVIOUS
  <2>2. n \in Allocated /\ Known(n)
    BY <1>7, <1>9, <2>1 DEF ListInv, SameLocals
  <2>3. Known(n)'
    BY <2>2, <1>5
  <2> QED  BY <2>1, <2>3
<1>10. ASSUME NEW k \in Keys PROVE Has(Chained, k)' = (IF k \in Elems(Warm) THEN 1 ELSE 0) + net'[k]
  <2>1. Has(Chained, k)' = Has(Chained, k)
    BY <1>1 DEF Has, SameList
  <2> QED  BY <2>1, <1>10 DEF ListInv
<1> QED  BY <1>1, <1>2, <1>4, <1>8, <1>9, <1>10 DEF ListInv

LEMMA SameStill ==
  ASSUME TypeInv, TypeInv', SameList, Sorted(Chained, NowNext, KeyOf), NEW t \in Threads,
         \A n \in Allocated : Changed(t, n)' <=> Changed(t, n)
  PROVE  Still(t)
<1>1. Chained' = Chained /\ Chained \subseteq Allocated
  BY SameChained, ChainedAllocated
<1>2. Fresh(t) \subseteq Allocated
  BY FreshAllocated
<1> QED  BY <1>1, <1>2 DEF Still, SameList

LEMMA StepKeep ==
  ASSUME TypeInv, TypeInv', ChainInv, NEW t \in Threads, SameList, net' = net, TxInv(t)',
         \A n \in index' : \/ n \in index
                           \/ pc[t] = "publish" /\ \E e \in Elems(tx[t].indexTodo) : e.node = n,
         pc'[t] = "publish" => /\ pc[t] = "publish" /\ todo'[t] \subseteq todo[t]
                               /\ Elems(tx'[t].indexTodo) \subseteq Elems(tx[t].indexTodo)
                               /\ todo'[t] # {} => tx'[t].writeVersion = tx[t].writeVersion,
         \A u \in Threads \ {t} : SameLocals(u) /\ (InTx(u) => \A n \in Allocated : Changed(u, n)' <=> Changed(u, n))
  PROVE  ChainInv'
<1>1. ListInv'
  BY ListKeep DEF ChainInv
<1>2. ASSUME NEW u \in Threads \ {t} PROVE TxInv(u)'
  <2>1. TxInv(u) /\ SameLocals(u) /\ Sorted(Chained, NowNext, KeyOf)
    BY DEF ChainInv, ListInv
  <2>2. InTx(u) => Still(u)
    BY <2>1, SameStill
  <2>3. Validates(u) => \A n \in Elems(tx[u].readSet) : Changed(u, n)' => Changed(u, n)
    BY FreshAllocated DEF Validates, InTx
  <2>4. Newer(u)'
    BY <2>1 DEF TxInv, Newer, InTx, SameLocals
  <2> QED  BY <2>1, <2>2, <2>3, <2>4, OtherKeep
<1> QED  BY <1>1, <1>2 DEF ChainInv

-----------------------------------------------------------------------------
\* No step sets the flag that isLocked reads, and none changes a key.
LEMMA KeysKept ==
  ASSUME TypeInv, NEW t \in Threads, Step(t)
  PROVE  /\ Allocated \subseteq Allocated'
         /\ \A n \in Allocated : heap'[n].key = heap[n].key /\ (heap'[n].locked => heap[n].locked)
         /\ \A n \in Allocated' \ Allocated : ~heap'[n].locked /\ heap'[n].key \in Keys
<1> USE DEF Allocated
<1>0. heap \in Seq(Node)
  BY DEF TypeInv, TypeOK
<1>1. CASE heap' = heap
  BY <1>1
<1>2. CASE Insert(t)
  <2>1. prog[t] # <<>> /\ prog[t] \in Seq(Calls)
    BY <1>2 DEF Insert, Arrived, InWalk, Loaded, TypeInv, TypeOK, Control
  <2>2. prog[t][1].key \in Keys
    <3>1. prog[t][1] \in Calls
      BY <2>1
    <3> QED  BY <3>1 DEF Calls
  <2>3. PICK e : e = NewNode(t)
    OBVIOUS
  <2>4. e.key \in Keys /\ ~e.locked
    BY <2>2, <2>3 DEF NewNode
  <2>5. heap' = Append(heap, e)
    BY <1>2, <2>3 DEF Insert, Allocate
  <2>6. /\ Len(heap) \in Nat /\ Len(heap') = Len(heap) + 1 /\ heap'[Len(heap) + 1] = e
        /\ \A i \in 1..Len(heap) : heap'[i] = heap[i]
    BY <1>0, <2>5
  <2> QED  BY <2>4, <2>6
<1>3. CASE TryLock(t)
  <2>1. ASSUME NEW n \in Nodes, heap' = [heap EXCEPT ![n].owner = t]
        PROVE  Allocated' = Allocated /\ \A m \in Allocated : heap'[m].key = heap[m].key /\ heap'[m].locked = heap[m].locked
    BY <1>0, <2>1 DEF Node
  <2>2. Items(t) \subseteq Nodes
    BY DEF TypeInv, TypeOK
  <2>3. heap' = heap \/ \E n \in Nodes : heap' = [heap EXCEPT ![n].owner = t]
    BY <1>3, <2>2 DEF TryLock, Lock
  <2> QED  BY <2>1, <2>3
<1>4. CASE Store(t)
  <2>1. PICK a \in todo[t] : LET n == a[1]  f == a[2]  item == tx[t].writeSet[n]
             IN heap' = [heap EXCEPT
                 ![n].deleted = IF f = "deleted" THEN TRUE ELSE @,
                 ![n].next = IF f = "next" THEN item.next ELSE @,
                 ![n].version = IF f = "version" THEN tx[t].writeVersion ELSE @]
    BY <1>4, Zenon DEF Store, Due
  <2> QED  BY <1>0, <2>1, SMTT(30) DEF Node
<1>5. CASE Unlock(t)
  <2>1. PICK n : heap' = [heap EXCEPT ![n].owner = NoOwner, ![n].locked = FALSE]
    BY <1>5 DEF Unlock
  <2> QED  BY <1>0, <2>1 DEF Node
<1>6. CASE ~(Insert(t) \/ TryLock(t) \/ Store(t) \/ Unlock(t))
  BY <1>1, <1>6 DEF Step, TXBegin, Seek, Load, Restart, Walk, Contains, Refuse, Remove, Unlink,
     TXCommit, Validate, Invalid, AddAndFetch, UpdateIndex, Finish, shared
<1> QED  BY <1>2, <1>3, <1>4, <1>5, <1>6

\* A step of t that is no part of a write-back leaves the list alone.
LEMMA AsideQuiet ==
  ASSUME TypeInv, NEW t \in Threads, Alone(t), Step(t), ~AddAndFetch(t), ~Store(t)
  PROVE  Quiet /\ Quiet' /\ (pc'[t] = "publish" => pc[t] = "publish" /\ todo[t] = {} /\ todo'[t] = {}) /\ net' = net
<1> USE DEF TypeInv, TypeOK
<1>1. \A u \in Threads \ {t} : pc[u] = "publish" => todo[u] = {}
  BY DEF Alone, Committing
<1>2. \A u \in Threads \ {t} : pc'[u] = pc[u] /\ todo'[u] = todo[u]
  BY OthersSame DEF SameLocals
<1>3. /\ pc[t] = "publish" => todo[t] = {}
      /\ pc'[t] = "publish" => pc[t] = "publish" /\ todo'[t] = {}
      /\ net' = net
  <2>1. CASE Unlock(t)
    BY <2>1 DEF Unlock, Written, history
  <2>2. CASE UpdateIndex(t)
    BY <2>2 DEF UpdateIndex, Written, history
  <2>3. CASE Finish(t)
    BY <2>3 DEF Finish, Written, history
  <2>4. CASE TXBegin(t) \/ TXCommit(t)
    BY <2>4, Zenon DEF TXBegin, TXCommit, history
  <2>5. CASE Load(t)
    BY <2>5, Zenon DEF Load, Throw, history
  <2>6. CASE Seek(t) \/ Restart(t) \/ Walk(t) \/ Remove(t)
    BY <2>6, Zenon DEF Seek, Restart, Walk, Remove, Visit, Loaded, InWalk, Arrived, history
  <2>7. CASE Contains(t) \/ Insert(t) \/ Refuse(t) \/ Unlink(t)
    BY <2>7, Zenon DEF Contains, Insert, Refuse, Unlink, Return, Loaded, InWalk, Arrived
  <2>8. CASE TryLock(t)
    BY <2>8, Zenon DEF TryLock, Lock, Throw, history
  <2>9. CASE Validate(t) \/ Invalid(t)
    BY <2>9 DEF Validate, Invalid, Validating, Visit, Throw, Loaded, history
  <2> QED  BY <2>1, <2>2, <2>3, <2>4, <2>5, <2>6, <2>7, <2>8, <2>9 DEF Step
<1> QED  BY <1>1, <1>2, <1>3 DEF Quiet

LEMMA Aside ==
  ASSUME TypeInv, TypeInv', NEW t \in Threads, Alone(t), Step(t), ~AddAndFetch(t), ~Store(t)
  PROVE  /\ SameList
         /\ \A u \in Threads, n \in Allocated :
               tx'[u].readVersion = tx[u].readVersion => (Changed(u, n)' <=> Changed(u, n))
<1>1. Quiet /\ Quiet'
  BY AsideQuiet
<1>2. \A n \in Allocated : heap'[n].version = heap[n].version /\ heap'[n].next = heap[n].next
                           /\ heap'[n].deleted = heap[n].deleted
  BY HeapKept
<1>3. ASSUME NEW n \in Allocated PROVE NextToBe(n)' = NextToBe(n) /\ (DeletedToBe(n)' <=> DeletedToBe(n))
  <2>1. NextToBe(n) = heap[n].next /\ DeletedToBe(n) = heap[n].deleted
    BY <1>1, QuietNow, QuietDeleted
  <2>2. n \in Allocated'
    BY KeysKept
  <2>3. NextToBe(n)' = heap'[n].next /\ DeletedToBe(n)' = heap'[n].deleted
    BY <1>1, <2>2, QuietNext, QuietDeletedNext
  <2> QED  BY <1>2, <2>1, <2>3
<1>4. SameList
  BY <1>3, KeysKept DEF SameList
<1>5. ASSUME NEW u \in Threads, NEW n \in Allocated, tx'[u].readVersion = tx[u].readVersion
      PROVE  Changed(u, n)' <=> Changed(u, n)
  <2>1. Changed(u, n) <=> heap[n].version > tx[u].readVersion
    BY <1>1, QuietNow
  <2>2. Changed(u, n)' <=> heap'[n].version > tx'[u].readVersion
    BY <1>1, QuietNext
  <2> QED  BY <1>2, <1>5, <2>1, <2>2
<1> QED  BY <1>4, <1>5

\* What t has to show of a step that is no part of a write-back.
LEMMA AsideKeep ==
  ASSUME TypeInv, TypeInv', ChainInv, NEW t \in Threads, Alone(t), Step(t), ~AddAndFetch(t), ~Store(t), TxInv(t)'
  PROVE  ChainInv'
<1>1. SameList /\ \A u \in Threads, n \in Allocated :
                    tx'[u].readVersion = tx[u].readVersion => (Changed(u, n)' <=> Changed(u, n))
  BY Aside
<1>2. net' = net /\ (pc'[t] = "publish" => pc[t] = "publish" /\ todo'[t] \subseteq todo[t] /\ todo'[t] = {})
  BY AsideQuiet
<1>3. \A u \in Threads \ {t} : SameLocals(u)
  BY OthersSame
<1>4. tx[t].indexTodo \in Seq([node : Allocated, op : OpTypes]) /\ tx = [u \in Threads |-> tx[u]]
  BY DEF TypeInv, TypeOK, Pointers
<1>5. CASE UpdateIndex(t)
  <2>1. PICK s \in Seq([node : Allocated, op : OpTypes]) : s = tx[t].indexTodo
    BY <1>4
  <2>2. /\ pc[t] = "publish" /\ s # <<>> /\ index' \subseteq index \cup {s[1].node}
        /\ tx'[t].indexTodo = Tail(s)
    <3>1. tx' = [tx EXCEPT ![t].indexTodo = Tail(s)] /\ t \in DOMAIN tx /\ tx[t] \in Transaction(Items(t))
      BY <1>4, <1>5, <2>1 DEF UpdateIndex, TypeInv, TypeOK
    <3>2. tx'[t].indexTodo = Tail(s)
      BY <3>1 DEF Transaction
    <3> QED  BY <1>5, <2>1, <3>2 DEF UpdateIndex, Written, IndexAfter
  <2>3. 1 \in DOMAIN s /\ \A i \in DOMAIN Tail(s) : i + 1 \in DOMAIN s /\ Tail(s)[i] = s[i + 1]
    BY <2>2
  <2>4. s[1] \in Elems(s) /\ Elems(Tail(s)) \subseteq Elems(s)
    BY <2>3 DEF Elems
  <2> QED  BY <1>1, <1>2, <1>3, <2>1, <2>2, <2>4, StepKeep DEF SameLocals
<1>6. CASE ~UpdateIndex(t)
  <2>1. index' = index
    BY <1>6, Zenon DEF Step, TXBegin, Seek, Load, Restart, Walk, Contains, Insert, Refuse, Remove, Unlink,
       TXCommit, TryLock, Validate, Invalid, Unlock, Finish, shared
  <2>2. pc'[t] = "publish" => Unlock(t)
    <3> USE DEF TypeInv, TypeOK
    <3>1. CASE Finish(t) \/ TXBegin(t) \/ TXCommit(t)
      BY <3>1 DEF Finish, TXBegin, TXCommit
    <3>2. CASE Load(t)
      BY <3>2, Zenon DEF Load, Throw
    <3>3. CASE Seek(t) \/ Restart(t) \/ Walk(t) \/ Remove(t) \/ Validate(t)
      BY <3>3, Zenon DEF Seek, Restart, Walk, Remove, Validate, Visit
    <3>4. CASE Contains(t) \/ Insert(t) \/ Refuse(t) \/ Unlink(t)
      BY <3>4 DEF Contains, Insert, Refuse, Unlink, Return
    <3>5. CASE TryLock(t) \/ Invalid(t)
      BY <3>5 DEF TryLock, Lock, Invalid, Throw
    <3> QED  BY <1>6, <3>1, <3>2, <3>3, <3>4, <3>5 DEF Step
  <2>3. Unlock(t) => tx' = tx
    BY DEF Unlock
  <2> QED  BY <1>1, <1>2, <1>3, <2>1, <2>2, <2>3, StepKeep, Zenon DEF SameLocals
<1> QED  BY <1>5, <1>6

-----------------------------------------------------------------------------
\* The calls that were answered.
LEMMA TimesNone == \A op, k : Times(<<>>, op, k) = 0
<1> TAKE op, k
<1>1. {i \in DOMAIN <<>> : <<>>[i] = [op |-> op, key |-> k, ok |-> TRUE]} = {}
  OBVIOUS
<1> QED  BY <1>1, FS_EmptySet DEF Times

LEMMA TimesAppend ==
  ASSUME NEW tr \in Seq(Answers), NEW a, NEW op, NEW k
  PROVE  Times(Append(tr, a), op, k)
           = Times(tr, op, k) + (IF a = [op |-> op, key |-> k, ok |-> TRUE] THEN 1 ELSE 0)
<1> DEFINE w == [op |-> op, key |-> k, ok |-> TRUE]
           T == {i \in DOMAIN tr : tr[i] = w}
           U == {i \in DOMAIN Append(tr, a) : Append(tr, a)[i] = w}
<1>0. Times(tr, op, k) = Cardinality(T) /\ Times(Append(tr, a), op, k) = Cardinality(U)
  BY DEF Times
<1> HIDE DEF w
<1>1. Len(tr) \in Nat /\ DOMAIN tr = 1..Len(tr) /\ DOMAIN Append(tr, a) = 1..(Len(tr) + 1)
      /\ (\A i \in 1..Len(tr) : Append(tr, a)[i] = tr[i]) /\ Append(tr, a)[Len(tr) + 1] = a
  OBVIOUS
<1>2. IsFiniteSet(T) /\ Len(tr) + 1 \notin T
  <2>1. IsFiniteSet(1..Len(tr)) /\ T \subseteq 1..Len(tr)
    BY <1>1, FS_Interval
  <2> QED  BY <1>1, <2>1, FS_Subset
<1>3. CASE a = w
  <2>1. U = T \cup {Len(tr) + 1}
    BY <1>1, <1>3
  <2>2. Cardinality(U) = Cardinality(T) + 1
    <3> HIDE DEF U, T
    <3> QED  BY <1>2, <2>1, FS_AddElement
  <2> QED  BY <1>0, <1>3, <2>2 DEF w
<1>4. CASE a # w
  <2>1. U = T
    BY <1>1, <1>4
  <2>2. Cardinality(T) \in Nat
    BY <1>2, FS_CardinalityType
  <2>3. Times(Append(tr, a), op, k) = Times(tr, op, k) /\ Times(tr, op, k) \in Nat
    <3> HIDE DEF T, U
    <3> QED  BY <1>0, <2>1, <2>2
  <2> QED  BY <1>4, <2>3 DEF w
<1> QED  BY <1>3, <1>4

LEMMA NothingYet == Elems(<<>>) = {}
BY DEF Elems

-----------------------------------------------------------------------------
\* The answers of a transaction, read as TxSet reads them.

\* One more answer makes its update, if it is one, on what those before it made.
Updated(A, B, a) ==
    \A k \in Keys : k \in B <=> IF a.ok /\ a.key = k /\ a.op # "contains" THEN a.op = "insert" ELSE k \in A

LEMMA AfterAppend ==
  ASSUME NEW S, NEW tr \in Seq(Answers), NEW a \in Answers
  PROVE  Updated(Abstract!After(S, tr), Abstract!After(S, Append(tr, a)), a)
<1> PICK n, s : n = Len(tr) /\ s = Append(tr, a)
  OBVIOUS
<1>1. /\ DOMAIN tr = 1..n /\ DOMAIN s = 1..(n + 1) /\ n \in Nat /\ s[n + 1] = a
      /\ \A i \in 1..n : s[i] = tr[i]
  BY AppendProperties, LenProperties
<1> SUFFICES ASSUME NEW k \in Keys
             PROVE  k \in Abstract!After(S, s)
                      <=> IF a.ok /\ a.key = k /\ a.op # "contains" THEN a.op = "insert" ELSE k \in Abstract!After(S, tr)
  BY DEF Updated
<1> PICK U, W : U = Abstract!Updates(tr, k) /\ W = Abstract!Updates(s, k)
  OBVIOUS
<1>2. /\ k \in Abstract!After(S, tr) <=> IF U = {} THEN k \in S
                                         ELSE \E i \in U : tr[i].op = "insert" /\ \A j \in U : j <= i
      /\ k \in Abstract!After(S, s) <=> IF W = {} THEN k \in S
                                        ELSE \E i \in W : s[i].op = "insert" /\ \A j \in W : j <= i
  BY DEF Abstract!After
<1>3. U \subseteq 1..n /\ \A i \in 1..(n + 1) : i \in W <=> s[i].ok /\ s[i].key = k /\ s[i].op # "contains"
  BY <1>1 DEF Abstract!Updates
<1>4. W \subseteq 1..(n + 1) /\ \A i \in 1..n : i \in W <=> i \in U
  BY <1>1 DEF Abstract!Updates
<1>5. CASE a.ok /\ a.key = k /\ a.op # "contains"
  <2>1. n + 1 \in W
    BY <1>1, <1>3, <1>5
  <2>2. \A j \in W : j <= n + 1
    BY <1>1, <1>4
  <2>3. \A i \in W : (\A j \in W : j <= i) => i = n + 1
    BY <1>1, <1>4, <2>1
  <2>4. k \in Abstract!After(S, s) <=> s[n + 1].op = "insert"
    BY <1>2, <2>1, <2>2, <2>3
  <2> QED  BY <1>1, <1>5, <2>4
<1>6. CASE ~(a.ok /\ a.key = k /\ a.op # "contains")
  <2>1. W = U
    BY <1>1, <1>3, <1>4, <1>6
  <2>2. \A i \in U : s[i] = tr[i]
    BY <1>1, <1>3
  <2> QED  BY <1>2, <1>6, <2>1, <2>2
<1> QED  BY <1>5, <1>6

\* The answers so far are not changed by one more.
LEMMA ExplainsAppend ==
  ASSUME NEW S, NEW tr \in Seq(Answers), NEW a \in Answers, Abstract!Explains(S, tr),
         a.ok = Abstract!Answer(Abstract!After(S, tr), a)
  PROVE  Abstract!Explains(S, Append(tr, a))
<1> PICK n, s : n = Len(tr) /\ s = Append(tr, a)
  OBVIOUS
<1>1. /\ DOMAIN tr = 1..n /\ DOMAIN s = 1..(n + 1) /\ n \in Nat /\ s[n + 1] = a
      /\ \A i \in 1..n : s[i] = tr[i]
  BY AppendProperties, LenProperties
<1>2. ASSUME NEW i \in 1..n PROVE SubSeq(s, 1, i - 1) = SubSeq(tr, 1, i - 1)
  BY <1>1, <1>2
<1>3. SubSeq(s, 1, n) = tr
  BY <1>1
<1>4. ASSUME NEW i \in DOMAIN s PROVE s[i].ok = Abstract!Answer(Abstract!After(S, SubSeq(s, 1, i - 1)), s[i])
  <2>1. CASE i = n + 1
    <3>1. i - 1 = n
      BY <1>1, <2>1
    <3>2. SubSeq(s, 1, i - 1) = tr
      BY <1>3, <3>1
    <3> QED  BY <1>1, <2>1, <3>2
  <2>2. CASE i # n + 1
    <3>1. i \in 1..n
      BY <1>1, <1>4, <2>2
    <3>2. tr[i].ok = Abstract!Answer(Abstract!After(S, SubSeq(tr, 1, i - 1)), tr[i])
      BY <1>1, <3>1 DEF Abstract!Explains
    <3>3. PICK x : x = SubSeq(s, 1, i - 1)
      OBVIOUS
    <3> QED  BY <1>1, <1>2, <3>1, <3>2
  <2> QED  BY <2>1, <2>2
<1> QED  BY <1>4 DEF Abstract!Explains

\* What the calls make of a key depends on nothing but whether it was there at first.
LEMMA AfterAgree ==
  ASSUME NEW S, NEW T, NEW tr, NEW k \in Keys, k \in S <=> k \in T
  PROVE  k \in Abstract!After(S, tr) <=> k \in Abstract!After(T, tr)
BY DEF Abstract!After

LEMMA ExplainsAgree ==
  ASSUME NEW S, NEW T, NEW tr \in Seq(Answers), \A i \in DOMAIN tr : tr[i].key \in S <=> tr[i].key \in T,
         Abstract!Explains(S, tr)
  PROVE  Abstract!Explains(T, tr)
<1> SUFFICES ASSUME NEW i \in DOMAIN tr
             PROVE  tr[i].ok = Abstract!Answer(Abstract!After(T, SubSeq(tr, 1, i - 1)), tr[i])
  BY DEF Abstract!Explains
<1> PICK q, a : q = SubSeq(tr, 1, i - 1) /\ a = tr[i]
  OBVIOUS
<1>1. a \in Answers
  OBVIOUS
<1>2. a.key \in Keys /\ (a.key \in S <=> a.key \in T)
  BY <1>1 DEF Answers
<1>3. a.key \in Abstract!After(S, q) <=> a.key \in Abstract!After(T, q)
  BY <1>2, AfterAgree
<1>4. a.ok = Abstract!Answer(Abstract!After(S, q), a)
  BY DEF Abstract!Explains
<1>5. a.ok = Abstract!Answer(Abstract!After(T, q), a)
  <2>1. PICK V, W : V = Abstract!After(S, q) /\ W = Abstract!After(T, q)
    OBVIOUS
  <2> QED  BY <1>3, <1>4, <2>1 DEF Abstract!Answer
<1> QED  BY <1>5

-----------------------------------------------------------------------------
\* What a step that is no part of a write-back leaves of t itself.
LEMMA OwnParts ==
  ASSUME TypeInv, TypeInv', ChainInv, NEW t \in Threads, Alone(t), Step(t), ~AddAndFetch(t), ~Store(t)
  PROVE  /\ Newer(t)'
         /\ tx'[t].readVersion = tx[t].readVersion => Still(t)
<1>1. Quiet'
  BY AsideQuiet
<1>2. SameList /\ (tx'[t].readVersion = tx[t].readVersion => \A n \in Allocated : Changed(t, n)' <=> Changed(t, n))
  BY Aside
<1>3. Newer(t)'
  BY <1>1 DEF Newer, Quiet
<1> QED  BY <1>2, <1>3, SameStill DEF ChainInv, ListInv

\* t has thrown, or is past its write-back, or has gone.
LEMMA OutKeep ==
  ASSUME TypeInv, TypeInv', ChainInv, NEW t \in Threads, Newer(t)', pc'[t] \in {"abort", "publish", "idle"},
         prog'[t] \in {prog[t], <<>>}, trace'[t] = <<>>, pc'[t] = "idle" => tx'[t] = NoTx /\ pos'[t] = 0
  PROVE  TxInv(t)'
<1>1. ~InTx(t)' /\ ~Validates(t)' /\ Checked(t)'
  BY DEF InTx, Validates, Checked
<1>2. \A i \in DOMAIN prog'[t] : prog'[t][i] \in Called
  BY DEF ChainInv, TxInv
<1> QED  BY <1>1, <1>2 DEF TxInv

LEMMA ThrowOut ==
  ASSUME TypeInv, NEW t \in Threads, Throw(t) PROVE pc'[t] = "abort" /\ trace'[t] = <<>>
BY DEF Throw, TypeInv, TypeOK

LEMMA UnlockKeep ==
  ASSUME TypeInv, TypeInv', ChainInv, NEW t \in Threads, Alone(t), Unlock(t) \/ UpdateIndex(t) \/ Finish(t)
  PROVE  ChainInv'
<1> USE DEF TypeInv, TypeOK
<1>0. Step(t) /\ ~AddAndFetch(t) /\ ~Store(t)
  BY Zenon DEF Step, Unlock, UpdateIndex, Finish, AddAndFetch, Store, Validating, Loaded, Written, Due
<1>1. pc[t] \in {"abort", "publish"} /\ pc'[t] \in {"abort", "publish", "idle"}
  BY DEF Unlock, UpdateIndex, Finish, Written
<1>2. trace[t] = <<>> /\ trace' = trace
  BY <1>1 DEF Unlock, UpdateIndex, Finish, ChainInv, TxInv, InTx, history
<1>3. prog'[t] \in {prog[t], <<>>} /\ (pc'[t] = "idle" => tx'[t] = NoTx /\ pos'[t] = 0)
  BY <1>1 DEF Unlock, UpdateIndex, Finish
<1>4. Newer(t)'
  BY <1>0, OwnParts
<1>5. TxInv(t)'
  BY <1>1, <1>2, <1>3, <1>4, OutKeep
<1> QED  BY <1>0, <1>5, AsideKeep, Zenon

\* The committed keys are those of the list.
LEMMA CommittedHeld ==
  TypeInv /\ ListInv => Committed = Held(Chained)
<1> SUFFICES ASSUME TypeInv, ListInv PROVE Committed = Held(Chained)
  OBVIOUS
<1>1. Chained \subseteq Allocated /\ Sorted(Chained, NowNext, KeyOf)
  BY ChainedAllocated DEF ListInv
<1>2. ChainOf(NowNext) = Chained \ {HeadNode}
  BY <1>1, HeadAllocated, ChainIs
<1>3. Committed = {heap[n].key : n \in ChainOf(NowNext)}
  BY DEF Committed, NowNext
<1> QED  BY <1>2, <1>3 DEF Held

LEMMA CommittedHeldNext == (TypeInv /\ ListInv => Committed = Held(Chained))'
BY CommittedHeld, PTL

LEMMA BeginKeep ==
  ASSUME TypeInv, TypeInv', ChainInv, NEW t \in Threads, Alone(t), TXBegin(t)
  PROVE  ChainInv'
<1> USE DEF TypeInv, TypeOK
<1>0. Step(t) /\ ~AddAndFetch(t) /\ ~Store(t)
  BY DEF Step, TXBegin, AddAndFetch, Store, Validating, Loaded
<1>1. /\ pc[t] = "idle" /\ pc'[t] = "ready" /\ tx[t] = NoTx /\ trace[t] = <<>> /\ trace' = trace /\ heap' = heap
      /\ tx'[t] = [NoTx EXCEPT !.readVersion = gvc] /\ pos' = pos /\ pos[t] = 0
  BY DEF TXBegin, ChainInv, TxInv, InTx, Checked, history, shared
<1>2. Items(t)' = {} /\ Fresh(t)' = {} /\ Cut(t)' = {} /\ Elems(tx'[t].readSet) = {} /\ Elems(tx'[t].indexTodo) = {}
  <2>1. tx'[t].writeSet = [n \in {} |-> NULL] /\ tx'[t].readSet = <<>> /\ tx'[t].indexTodo = <<>>
    BY <1>1 DEF NoTx
  <2>2. Items(t)' = {}
    BY <2>1 DEF Items
  <2>3. Elems(tx'[t].readSet) = {} /\ Elems(tx'[t].indexTodo) = {}
    BY <2>1, NothingYet
  <2> QED  BY <2>2, <2>3 DEF Fresh, Entry, Cut
<1>3. PICK S, N : S = Chained /\ N = NowNext
  OBVIOUS
<1>4. Chained' = S /\ S \subseteq Allocated /\ Allocated' = Allocated /\ (\A n \in Allocated : N[n] = NextToBe(n)')
  <2>1. SameList
    BY <1>0, Aside
  <2>2. Chained' = Chained /\ Chained \subseteq Allocated
    BY <2>1, SameChained, ChainedAllocated DEF ChainInv, ListInv
  <2> QED  BY <1>1, <1>3, <2>1, <2>2 DEF NowNext, SameList, Allocated
<1>5. View(t, S)' = S /\ \A n \in Allocated : ViewNext(t, N)'[n] = N[n]
  BY <1>2, <1>4 DEF View, ViewNext
<1>6. Chains(t, S, N)'
  <2>1. Sorted(S, N, KeyOf)' /\ Above(S)'
    BY <1>1, <1>3 DEF ChainInv, ListInv, KeyOf, Allocated, Above
  <2>2. Sorted(View(t, S), ViewNext(t, N), KeyOf)'
    <3>1. PICK M : M = ViewNext(t, N)'
      OBVIOUS
    <3>2. Sorted(S, M, KeyOf')
      BY <1>4, <1>5, <2>1, <3>1, SortedSame
    <3> QED  BY <1>5, <3>1, <3>2
  <2> QED  BY <1>2, <1>4, <2>1, <2>2 DEF Chains
<1>7. Logged(t, S, N)'
  BY <1>2 DEF Logged
<1>8. Agrees(t, S, N)'
  BY <1>2, <1>4 DEF Agrees
<1>9. Told(t, S)'
  BY <1>1, <1>5, TimesNone DEF Told, Has
<1>10. Newer(t)'
  BY <1>0, OwnParts
<1>11. \A i \in DOMAIN prog'[t] : prog'[t][i] \in Called
  BY DEF TXBegin, Called, Elems
<1>12. Answered(t, S, N)'
  <2>1. snap'[t] = Committed
    BY DEF TXBegin
  <2>2. Committed = Held(Chained)
    BY CommittedHeld DEF ChainInv
  <2>3. snap'[t] = Held(S)' /\ Held(View(t, S))' = Held(S)'
    BY <1>1, <1>3, <1>5, <2>1, <2>2 DEF Held
  <2>4. trace'[t] = <<>>
    BY <1>1
  <2>5. \A T : \A k \in Keys : k \in T <=> k \in Abstract!After(T, <<>>)
    BY DEF Abstract!After, Abstract!Updates
  <2>6. Abstract!Explains(snap'[t], trace'[t])
    BY <2>4 DEF Abstract!Explains
  <2>7. \A k \in Keys : k \in Held(View(t, S))' <=> k \in Abstract!After(snap'[t], trace'[t])
    <3>1. PICK T : T = snap'[t]
      OBVIOUS
    <3>2. Held(View(t, S))' = T
      BY <2>3, <3>1
    <3> QED  BY <2>4, <2>5, <3>1, <3>2
  <2>8. \A i \in DOMAIN trace'[t] : Covered(t, S, N, trace[t][i].key)'
    BY <2>4
  <2>9. \A n \in Fresh(t)' : Covered(t, S, N, heap[n].key)'
    BY <1>2
  <2> QED  BY <2>3, <2>6, <2>7, <2>8, <2>9 DEF Answered
<1>13. TxInv(t)'
  <2>1. Snapshot(t, S, N)'
    BY <1>1, <1>6, <1>7, <1>8, <1>9, <1>12 DEF Snapshot, Reading
  <2>2. InTx(t)' /\ Checked(t)' /\ pc'[t] # "idle"
    BY <1>1 DEF InTx, Checked, Validates
  <2> QED  BY <1>10, <1>11, <2>1, <2>2 DEF TxInv
<1> QED  BY <1>0, <1>13, AsideKeep

\* A step of t inside its transaction that changes neither its sets nor its answers.
LEMMA InKeep ==
  ASSUME TypeInv, TypeInv', ChainInv, NEW t \in Threads, Alone(t), Step(t), ~AddAndFetch(t), ~Store(t),
         InTx(t), InTx(t)', tx'[t] = tx[t], trace'[t] = trace[t], snap'[t] = snap[t], prog'[t] = prog[t], Checked(t)',
         \A S, N : Snapshot(t, S, N) => Reading(t, S, N)'
  PROVE  ChainInv'
<1>1. Newer(t)' /\ Still(t) /\ TxInv(t)
  BY OwnParts DEF ChainInv
<1>2. PICK S, N : Snapshot(t, S, N)
  BY <1>1 DEF TxInv
<1>3. Chains(t, S, N)' /\ Agrees(t, S, N)' /\ Told(t, S)'
  BY <1>1, <1>2, SnapKeep DEF Snapshot, SameWrites, SameCount
<1>4. Logged(t, S, N)'
  BY <1>1, <1>2, LoggedKeep DEF Snapshot, SameWrites
<1>5. Answered(t, S, N)'
  BY <1>1, <1>2, AnsweredKeep DEF Snapshot, SameWrites
<1>6. Snapshot(t, S, N)'
  BY <1>2, <1>3, <1>4, <1>5 DEF Snapshot
<1>7. TxInv(t)'
  BY <1>1, <1>6 DEF TxInv, InTx
<1> QED  BY <1>7, AsideKeep

LEMMA CommitKeep ==
  ASSUME TypeInv, TypeInv', ChainInv, NEW t \in Threads, Alone(t), TXCommit(t) \/ TryLock(t) \/ Invalid(t)
  PROVE  ChainInv'
<1> USE DEF TypeInv, TypeOK
<1>0. Step(t) /\ ~AddAndFetch(t) /\ ~Store(t)
  <2>1. CASE TXCommit(t)
    BY <2>1 DEF Step, TXCommit, AddAndFetch, Store, Validating, Loaded
  <2>2. CASE TryLock(t)
    BY <2>2 DEF Step, TryLock, AddAndFetch, Store, Validating, Loaded
  <2>3. CASE Invalid(t)
    BY <2>3 DEF Step, Invalid, AddAndFetch, Store, Validating, Loaded
  <2> QED  BY <2>1, <2>2, <2>3
<1>1. CASE Throw(t)
  <2>1. tx' = tx /\ prog' = prog
    BY <1>1 DEF TXCommit, TryLock, Invalid
  <2> QED  BY <1>0, <1>1, <2>1, ThrowOut, OwnParts, OutKeep, AsideKeep
<1>2. CASE ~Throw(t)
  <2>1. InTx(t) /\ pc'[t] = "lock" /\ tx'[t] = tx[t] /\ trace'[t] = trace[t] /\ prog'[t] = prog[t] /\ pos' = pos
        /\ snap'[t] = snap[t] /\ pc[t] \in {"ready", "lock"}
    BY <1>2 DEF TXCommit, TryLock, Lock, Invalid, InTx, history
  <2>2. InTx(t)' /\ Checked(t)'
    BY <2>1 DEF InTx, Checked, Validates, ChainInv, TxInv
  <2>3. \A S, N : Reading(t, S, N)'
    BY <2>1 DEF Reading
  <2> QED  BY <1>0, <2>1, <2>2, <2>3, InKeep
<1> QED  BY <1>1, <1>2

-----------------------------------------------------------------------------
LEMMA CalledCalls == Called \subseteq Calls
<1> SUFFICES ASSUME NEW c \in Called PROVE c \in Calls
  OBVIOUS
<1>1. PICK p \in Programs : c \in Elems(p)
  BY DEF Called
<1>2. p \in Seq(Calls)
  BY ProgramsAssumption
<1> QED  BY <1>1, <1>2 DEF Elems

\* What t has found of a chain that goes on beyond the keys of all calls.
LEMMA BelowCalled ==
  ASSUME TypeInv, NEW t \in Threads, NEW S, NEW N, Chains(t, S, N), Logged(t, S, N),
         NEW n \in View(t, S), NEW c \in Called, heap[n].key <= c.key
  PROVE  ViewNext(t, N)[n] # NULL
<1>1. View(t, S) \subseteq Allocated /\ Sorted(View(t, S), ViewNext(t, N), KeyOf) /\ S \subseteq Allocated
  BY FreshAllocated DEF Chains, View
<1>2. PICK m \in S : \A d \in Called : d.key < heap[m].key
  BY DEF Chains, Above
<1>3. \A i \in Allocated : KeyOf[i] = heap[i].key /\ heap[i].key \in Int
  BY NodeAt DEF KeyOf
<1>4. c.key \in Int
  BY CalledCalls, KeysAssumption DEF Calls
<1>5. m \in View(t, S)
  <2>1. m \notin Cut(t)
    BY <1>1, <1>2, <1>3 DEF Logged
  <2> QED  BY <2>1 DEF View
<1>6. KeyOf[n] < KeyOf[m]
  BY <1>1, <1>2, <1>3, <1>4, <1>5
<1> QED  BY <1>1, <1>5, <1>6 DEF Sorted

\* In the second loop of traverseTo, t stands at a node of its view.
LEMMA WalkAt ==
  ASSUME TypeInv, ChainInv, NEW t \in Threads, NEW S, NEW N, Snapshot(t, S, N), InWalk(t)
  PROVE  LET p == reg[t].node  k == prog[t][1].key
         IN /\ p \in View(t, S) /\ p \in Allocated /\ p \in S \cup Fresh(t) /\ p \notin Cut(t)
            /\ heap[p].key < k /\ ~reg[t].deleted /\ Succ(t) = ViewNext(t, N)[p] /\ ViewNext(t, N)[p] # NULL
            /\ Succ(t) \in View(t, S) /\ Succ(t) \in Allocated /\ heap[p].key < heap[Succ(t)].key
            /\ prog[t] # <<>> /\ prog[t][1] \in Called /\ prog[t][1] \in Calls /\ heap[p].key \in Int
            /\ pc[t] = "load" /\ todo[t] = {} /\ ret[t] \in {"start", "walk"}
            /\ heap[Succ(t)].key \in Int /\ k \in Int /\ k \in Keys /\ k > MIN_VAL
<1> PICK p, k : p = reg[t].node /\ k = prog[t][1].key
  OBVIOUS
<1>1. pc[t] = "load" /\ todo[t] = {} /\ ret[t] \in {"start", "walk"} /\ (ret[t] = "start" => ~reg[t].deleted)
  BY DEF InWalk, Loaded, Unusable
<1>2. /\ p \in View(t, S) /\ reg[t].next = ViewNext(t, N)[p] /\ ~reg[t].deleted /\ heap[p].key < k
  BY <1>1 DEF Snapshot, Reading, At, HasLoaded
<1>3. View(t, S) \subseteq Allocated /\ Sorted(View(t, S), ViewNext(t, N), KeyOf)
  BY FreshAllocated DEF Snapshot, Chains, View
<1>4. prog[t] # <<>> /\ prog[t] \in Seq(Calls)
  BY <1>1 DEF TypeInv, TypeOK, Control
<1>5. prog[t][1] \in Called /\ prog[t][1] \in Calls /\ k \in Int /\ k \in Keys /\ k > MIN_VAL
  <2>1. 1 \in DOMAIN prog[t] /\ prog[t][1] \in Calls
    BY <1>4
  <2>2. prog[t][1] \in Called
    BY <2>1 DEF ChainInv, TxInv
  <2> QED  BY <2>1, <2>2, KeysAssumption DEF Calls
<1>6. \A i \in Allocated : KeyOf[i] = heap[i].key /\ heap[i].key \in Int
  BY NodeAt DEF KeyOf
<1>7. ViewNext(t, N)[p] # NULL
  BY <1>2, <1>3, <1>5, <1>6, BelowCalled DEF Snapshot
<1>8. Succ(t) = ViewNext(t, N)[p] /\ Succ(t) \in View(t, S) /\ KeyOf[p] < KeyOf[Succ(t)]
  BY <1>2, <1>3, <1>7 DEF Succ, Sorted
<1> QED  BY <1>1, <1>2, <1>3, <1>4, <1>5, <1>6, <1>7, <1>8 DEF View

\* traverseTo has found the place of the key.
LEMMA Arrives ==
  ASSUME TypeInv, ChainInv, NEW t \in Threads, NEW S, NEW N, Snapshot(t, S, N), InWalk(t), ~More(t)
  PROVE  LET k == prog[t][1].key
         IN /\ k <= heap[Succ(t)].key
            /\ Present(t) <=> heap[Succ(t)].key = k
            /\ \A n \in View(t, S) : heap[n].key = k => n = Succ(t)
<1> PICK p, k, s : p = reg[t].node /\ k = prog[t][1].key /\ s = Succ(t)
  OBVIOUS
<1>1. /\ p \in View(t, S) /\ heap[p].key < k /\ ~reg[t].deleted /\ s = ViewNext(t, N)[p] /\ s # NULL
      /\ s \in View(t, S) /\ k \in Int /\ heap[s].key \in Int /\ heap[p].key \in Int
  BY WalkAt
<1>2. k <= heap[s].key
  BY <1>1 DEF More, Succ
<1>3. ASSUME NEW n \in View(t, S), heap[n].key = k PROVE n = s
  <2>1. View(t, S) \subseteq Allocated /\ Sorted(View(t, S), ViewNext(t, N), KeyOf)
    BY FreshAllocated DEF Snapshot, Chains, View
  <2>2. \A i \in View(t, S) : KeyOf[i] = heap[i].key
    BY <2>1 DEF KeyOf
  <2>3. KeyOf[p] < KeyOf[n] /\ KeyOf[n] = k
    BY <1>1, <1>3, <2>2
  <2>4. KeyOf[s] <= k
    BY <1>1, <2>1, <2>3 DEF Sorted
  <2>5. KeyOf[s] = KeyOf[n]
    BY <1>1, <1>2, <2>2, <2>3, <2>4
  <2> QED  BY <1>1, <2>1, <2>5 DEF Sorted
<1> QED  BY <1>1, <1>2, <1>3 DEF Present

\* Whether the key is present is what the view of t says.
LEMMA PresentHeld ==
  ASSUME TypeInv, ChainInv, NEW t \in Threads, NEW S, NEW N, Snapshot(t, S, N), InWalk(t), ~More(t)
  PROVE  Present(t) <=> prog[t][1].key \in Held(View(t, S))
<1> PICK k, s, V : k = prog[t][1].key /\ s = Succ(t) /\ V = View(t, S)
  OBVIOUS
<1>1. s \in V /\ k > MIN_VAL /\ k \in Int
  BY WalkAt
<1>2. (Present(t) <=> heap[s].key = k) /\ \A n \in V : heap[n].key = k => n = s
  BY Arrives
<1>3. heap[HeadNode].key = MIN_VAL /\ MIN_VAL \in Int
  BY KeysAssumption DEF ChainInv, ListInv
<1>4. heap[s].key = k => s # HeadNode
  BY <1>1, <1>3
<1>5. k \in Held(V) <=> \E n \in V \ {HeadNode} : heap[n].key = k
  BY DEF Held
<1> QED  BY <1>1, <1>2, <1>4, <1>5

\* Where t stops at p for a key, what it has read with p shows whether it had found the key.
LEMMA CallCovered ==
  ASSUME TypeInv, ChainInv, NEW t \in Threads, NEW S, NEW N, Snapshot(t, S, N), NEW c \in Called,
         NEW p \in View(t, S), heap[p].key < c.key, ViewNext(t, N)[p] # NULL,
         c.key <= heap[ViewNext(t, N)[p]].key,
         NEW Q, Elems(tx[t].readSet) \subseteq Q, p \in Q
  PROVE  Spanned(S, N, KeyOf, Q, c.key)
<1> PICK V, M, K, F, R, k : /\ V = View(t, S) /\ M = ViewNext(t, N) /\ K = KeyOf /\ F = Fresh(t)
                            /\ R = Elems(tx[t].readSet) /\ k = c.key
  OBVIOUS
<1>1. Sorted(S, N, K) /\ Sorted(V, M, K) /\ S \subseteq Allocated /\ S \cap F = {} /\ V \subseteq S \cup F
  BY DEF Snapshot, Chains, View
<1>2. F \subseteq Allocated /\ V \subseteq Allocated /\ HeadNode \in Allocated /\ \A n \in Allocated : K[n] = heap[n].key
  BY <1>1, FreshAllocated, HeadAllocated DEF KeyOf
<1>3. k \in Int /\ K[HeadNode] < k
  <2>1. c \in Calls
    BY CalledCalls
  <2>2. heap[HeadNode].key = MIN_VAL
    BY DEF ChainInv, ListInv
  <2> QED  BY <1>2, <2>1, <2>2, KeysAssumption DEF Calls
<1>4. PICK z \in S : k < K[z]
  BY <1>1, <1>2 DEF Snapshot, Chains, Above
<1>5. \A n \in S : n \in V \/ n \in Q
  BY <1>1 DEF View, Cut, Snapshot, Logged
<1>6. \A n \in F : Spanned(S, N, K, Q, K[n])
  <2> SUFFICES ASSUME NEW n \in F PROVE Spanned(S, N, K, Q, K[n])
    OBVIOUS
  <2>1. PICK j : j = heap[n].key
    OBVIOUS
  <2>2. Spanned(S, N, K, R, j)
    BY <2>1 DEF Snapshot, Answered, Covered
  <2>3. Spanned(S, N, K, Q, j)
    BY <1>1, <2>2, SpannedSame
  <2> QED  BY <1>2, <2>1, <2>3
<1>7. Derived(S, N, V, F, K, Q)
  BY <1>1, <1>5, <1>6 DEF Derived
<1>8. p \in V /\ p \in Q /\ K[p] < k /\ M[p] # NULL /\ M[p] \in V /\ k <= K[M[p]]
  BY <1>1, <1>2 DEF Sorted
<1>9. k <= K[z]
  BY <1>1, <1>3, <1>4 DEF Sorted
<1> QED  BY <1>1, <1>3, <1>7, <1>8, <1>9, StopSpanned

\* The answer a that t is given by its view.
Answering(t, S, N, M, a) ==
    /\ Allocated \subseteq Allocated' /\ \A n \in Allocated : heap'[n].key = heap[n].key
    /\ (\A n \in S : M[n] = N[n]) /\ Elems(tx[t].readSet) \subseteq Elems(tx'[t].readSet)
    /\ snap'[t] = snap[t] /\ a \in Answers /\ trace'[t] = Append(trace[t], a)
    /\ a.ok <=> (a.key \in Held(View(t, S)) <=> a.op # "insert")
    /\ \A i \in Keys : i \in Held(View(t, S))'
                         <=> IF a.ok /\ a.key = i /\ a.op # "contains" THEN a.op = "insert"
                             ELSE i \in Held(View(t, S))
    /\ Spanned(S, N, KeyOf, Elems(tx'[t].readSet), a.key)
    /\ \A n \in Fresh(t)' : n \in Fresh(t) \/ heap'[n].key = a.key

LEMMA AnswerKeep ==
  ASSUME TypeInv, TypeInv', NEW t \in Threads, NEW S, NEW N, Chains(t, S, N), Answered(t, S, N),
         NEW M, NEW a, Answering(t, S, N, M, a)
  PROVE  Answered(t, S, M)'
<1> PICK V, tr, T, R, Q, K, J : /\ V = Held(View(t, S)) /\ tr = trace[t] /\ T = snap[t] /\ K = KeyOf /\ J = KeyOf'
                                /\ R = Elems(tx[t].readSet) /\ Q = Elems(tx'[t].readSet)
  OBVIOUS
<1>1. /\ Allocated \subseteq Allocated' /\ (\A n \in Allocated : heap'[n].key = heap[n].key)
      /\ (\A n \in S : M[n] = N[n]) /\ R \subseteq Q /\ snap'[t] = T /\ a \in Answers /\ trace'[t] = Append(tr, a)
      /\ Spanned(S, N, K, Q, a.key) /\ \A n \in Fresh(t)' : n \in Fresh(t) \/ heap'[n].key = a.key
  BY DEF Answering
<1>2. S \subseteq Allocated /\ Fresh(t) \subseteq Allocated /\ tr \in Seq(Answers) /\ Sorted(S, N, K)
  BY FreshAllocated DEF Chains, TypeInv, TypeOK
<1>3. Held(S)' = Held(S)
  BY <1>1, <1>2 DEF Held
<1>4. T = Held(S) /\ Abstract!Explains(T, tr) /\ \A k \in Keys : k \in V <=> k \in Abstract!After(T, tr)
  BY DEF Answered
<1>5. Abstract!Explains(T, Append(tr, a))
  <2>1. a.key \in Keys /\ a.ok \in BOOLEAN
    BY <1>1 DEF Answers
  <2>2. a.ok <=> (a.key \in V <=> a.op # "insert")
    BY DEF Answering
  <2>3. PICK A : A = Abstract!After(T, tr)
    OBVIOUS
  <2>4. a.key \in V <=> a.key \in A
    BY <1>4, <2>1, <2>3
  <2>5. a.ok = Abstract!Answer(A, a)
    BY <2>1, <2>2, <2>4 DEF Abstract!Answer
  <2> QED  BY <1>1, <1>2, <1>4, <2>3, <2>5, ExplainsAppend
<1>6. ASSUME NEW k \in Keys PROVE k \in Held(View(t, S))' <=> k \in Abstract!After(T, Append(tr, a))
  <2>1. k \in Abstract!After(T, Append(tr, a))
          <=> IF a.ok /\ a.key = k /\ a.op # "contains" THEN a.op = "insert" ELSE k \in Abstract!After(T, tr)
    <3>1. tr \in Seq(Answers) /\ a \in Answers
      BY <1>1, <1>2
    <3>2. Updated(Abstract!After(T, tr), Abstract!After(T, Append(tr, a)), a)
      BY <3>1, AfterAppend
    <3> QED  BY <3>2 DEF Updated
  <2>2. k \in Held(View(t, S))'
          <=> IF a.ok /\ a.key = k /\ a.op # "contains" THEN a.op = "insert" ELSE k \in V
    BY DEF Answering
  <2>3. k \in V <=> k \in Abstract!After(T, tr)
    BY <1>4
  <2>4. PICK A, B : A = Abstract!After(T, tr) /\ B = Abstract!After(T, Append(tr, a))
    OBVIOUS
  <2> QED  BY <2>1, <2>2, <2>3, <2>4
<1>7. ASSUME NEW k, Spanned(S, N, K, R, k) \/ Spanned(S, N, K, Q, k) PROVE Covered(t, S, M, k)'
  <2>1. \A n \in S : M[n] = N[n] /\ J[n] = K[n]
    BY <1>1, <1>2 DEF KeyOf
  <2>2. Spanned(S, M, J, Q, k)
    BY <1>1, <1>2, <1>7, <2>1, SpannedSame
  <2> QED  BY <2>2 DEF Covered
<1>8. ASSUME NEW i \in DOMAIN trace'[t] PROVE Covered(t, S, M, trace[t][i].key)'
  <2>1. PICK n : n = Len(tr)
    OBVIOUS
  <2>2. /\ DOMAIN tr = 1..n /\ DOMAIN trace'[t] = 1..(n + 1) /\ n \in Nat /\ trace'[t][n + 1] = a
        /\ \A j \in 1..n : trace'[t][j] = tr[j]
    BY <1>1, <1>2, <2>1, AppendProperties, LenProperties
  <2>3. PICK k : k = trace'[t][i].key
    OBVIOUS
  <2>4. Spanned(S, N, K, R, k) \/ Spanned(S, N, K, Q, k)
    <3>1. CASE i = n + 1
      BY <1>1, <2>2, <2>3, <3>1
    <3>2. CASE i # n + 1
      <4>1. i \in DOMAIN tr /\ k = tr[i].key
        BY <1>8, <2>2, <2>3, <3>2
      <4>2. Covered(t, S, N, k)
        BY <4>1 DEF Answered
      <4> QED  BY <4>2 DEF Covered
    <3> QED  BY <3>1, <3>2
  <2>5. Covered(t, S, M, k)'
    BY <1>7, <2>4
  <2> QED  BY <2>3, <2>5
<1>9. ASSUME NEW n \in Fresh(t)' PROVE Covered(t, S, M, heap[n].key)'
  <2>1. PICK k : k = heap'[n].key
    OBVIOUS
  <2>2. Spanned(S, N, K, R, k) \/ Spanned(S, N, K, Q, k)
    <3>1. CASE n \in Fresh(t)
      <4>1. k = heap[n].key
        BY <1>1, <1>2, <2>1, <3>1
      <4>2. Covered(t, S, N, k)
        BY <3>1, <4>1 DEF Answered
      <4> QED  BY <4>2 DEF Covered
    <3>2. CASE n \notin Fresh(t)
      BY <1>1, <2>1, <3>2
    <3> QED  BY <3>1, <3>2
  <2>3. Covered(t, S, M, k)'
    BY <1>7, <2>2
  <2> QED  BY <2>1, <2>3
<1> QED  BY <1>1, <1>3, <1>4, <1>5, <1>6, <1>8, <1>9 DEF Answered

-----------------------------------------------------------------------------
\* getValidatedValue starts with what the write set answers.
LEMMA VisitLoads ==
  ASSUME TypeInv, TypeInv', NEW t \in Threads, NEW S, NEW N, NEW n \in Allocated, NEW w \in BOOLEAN,
         NEW after, NEW pred, Visit(t, n, w, after, pred), after \in {"start", "walk"} => w,
         after = "unlink" => ~w, Allocated \subseteq Allocated', SameWrites(t)
  PROVE  HasLoaded(t, S, N)'
<1> PICK ws : ws = tx[t].writeSet
  OBVIOUS
<1>1. Items(t) = DOMAIN ws /\ ws \in [Items(t) -> Operation]
  BY DEF TypeInv, TypeOK, Items, Transaction
<1> DEFINE nx == IF n \in DOMAIN ws THEN ws[n].next ELSE NULL
<1>2. /\ ret'[t] = after /\ reg'[t].node = n /\ reg'[t].next = nx
      /\ reg'[t].deleted <=> w /\ n \in DOMAIN ws /\ ws[n].deleted
      /\ todo'[t] = {<<n, "version">>} \cup (IF nx = NULL THEN {<<n, "next">>} ELSE {})
                      \cup (IF w /\ n \notin DOMAIN ws THEN {<<n, "deleted">>} ELSE {})
  <2>1. ret \in [Threads -> Rets] /\ reg \in [Threads -> Registers] /\ todo \in [Threads -> SUBSET (Nodes \X Fields)]
    BY DEF TypeInv, TypeOK
  <2>2. n \in DOMAIN ws => ws[n].deleted \in BOOLEAN
    BY <1>1 DEF Operation
  <2> QED  BY <2>1, <2>2 DEF Visit
<1>3. /\ Items(t)' = Items(t) /\ Cut(t)' = Cut(t)
      /\ \A m \in Allocated : ViewNext(t, N)'[m] = ViewNext(t, N)[m]
  BY SameView
<1>4. ViewNext(t, N)[n] = IF nx # NULL THEN nx ELSE N[n]
  BY <1>1 DEF ViewNext
<1>5. n \in Cut(t) <=> n \in DOMAIN ws /\ ws[n].deleted
  BY <1>1 DEF Cut
<1>6. (<<n, "next">> \in todo'[t] <=> nx = NULL) /\ (<<n, "deleted">> \in todo'[t] <=> w /\ n \notin Items(t))
      /\ <<n, "version">> \in todo'[t] /\ \A a \in todo'[t] : a[1] = n
  BY <1>1, <1>2
<1> HIDE DEF nx
<1>7. /\ <<n, "next">> \in todo'[t] => ViewNext(t, N)'[n] = N[n]
      /\ <<n, "next">> \notin todo'[t] => reg'[t].next = ViewNext(t, N)'[n]
  BY <1>2, <1>3, <1>4, <1>6
<1>8. after \in {"start", "walk"} /\ <<n, "deleted">> \notin todo'[t] => n \in Items(t) /\ (reg'[t].deleted <=> n \in Cut(t))
  BY <1>1, <1>2, <1>5, <1>6
<1>9. after = "unlink" => ~reg'[t].deleted /\ <<n, "deleted">> \notin todo'[t]
  BY <1>2, <1>6
<1> QED  BY <1>2, <1>3, <1>6, <1>7, <1>8, <1>9, Zenon DEF HasLoaded

\* A step of t that goes on to getValidatedValue.
LEMMA VisitKeep ==
  ASSUME TypeInv, TypeInv', ChainInv, NEW t \in Threads, Alone(t), Step(t), ~AddAndFetch(t), ~Store(t),
         NEW n \in Allocated, NEW w \in BOOLEAN, NEW after, NEW pred, Visit(t, n, w, after, pred),
         after \in {"start", "walk"} => w, after = "unlink" => ~w,
         InTx(t), tx' = tx, trace' = trace, snap' = snap, prog' = prog, Checked(t)',
         \A S, N : Snapshot(t, S, N) => At(t, S, N)'
  PROVE  ChainInv'
<1>1. pc'[t] = "load" /\ InTx(t)'
  BY DEF Visit, InTx, TypeInv, TypeOK
<1>2. \A S, N : HasLoaded(t, S, N)'
  BY VisitLoads, KeysKept DEF SameWrites
<1>3. \A S, N : Snapshot(t, S, N) => Reading(t, S, N)'
  BY <1>2 DEF Reading
<1> QED  BY <1>1, <1>3, InKeep

LEMMA VisitSets ==
  ASSUME TypeInv, NEW t \in Threads, NEW n, NEW w, NEW after, NEW pred, Visit(t, n, w, after, pred)
  PROVE  pc'[t] = "load" /\ ret'[t] = after /\ reg'[t].node = n /\ reg'[t].pred = pred
BY Zenon DEF Visit, TypeInv, TypeOK

LEMMA NoWriteBack ==
  ASSUME TypeInv, NEW t \in Threads, pc'[t] # "publish" PROVE ~AddAndFetch(t) /\ ~Store(t)
BY Zenon DEF AddAndFetch, Store, TypeInv, TypeOK

LEMMA StartKeep ==
  ASSUME TypeInv, TypeInv', ChainInv, NEW t \in Threads, Alone(t), Seek(t) \/ Restart(t), NEW k, GetPrev(k) # {},
         NEW n \in GetPrev(k), Visit(t, n, TRUE, "start", NULL), heap[n].key < prog[t][1].key
  PROVE  ChainInv'
<1>1. pc[t] \in {"ready", "load"} /\ InTx(t) /\ ~Validates(t)
      /\ tx' = tx /\ trace' = trace /\ snap' = snap /\ prog' = prog /\ pos' = pos /\ heap' = heap
  BY Zenon DEF Seek, Restart, Loaded, InTx, Validates, history, shared
<1>2. n \in Allocated /\ n \in index
  BY GetPrevAllocated DEF GetPrev
<1>3. Step(t) /\ ~AddAndFetch(t) /\ ~Store(t)
  BY Zenon DEF Step, AddAndFetch, Store, Seek, Restart, Validating, Loaded
<1>4. pc'[t] = "load" /\ ret'[t] = "start" /\ reg'[t].node = n
  BY VisitSets
<1>5. Checked(t)'
  BY <1>1, <1>4 DEF Checked, Validates, ChainInv, TxInv
<1>6. Still(t)
  BY <1>1, <1>3, OwnParts
<1>7. ASSUME NEW S, NEW N, Snapshot(t, S, N) PROVE At(t, S, N)'
  <2>1. n \in S \/ Changed(t, n) \/ DeletedToBe(n)
    BY <1>2, <1>7 DEF ChainInv, ListInv, Known, Snapshot, Agrees
  <2>2. n \in S \/ Changed(t, n)' \/ DeletedToBe(n)'
    BY <1>2, <1>6, <2>1 DEF Still
  <2> QED  BY <1>1, <1>4, <2>2 DEF At
<1> QED  BY <1>1, <1>2, <1>3, <1>5, <1>7, VisitKeep, Zenon

LEMMA SeekKeep ==
  ASSUME TypeInv, TypeInv', ChainInv, NEW t \in Threads, Alone(t), Seek(t) \/ Restart(t)
  PROVE  ChainInv'
<1>1. CASE Seek(t)
  <2>1. PICK n \in GetPrev(prog[t][1].key) : Visit(t, n, TRUE, "start", NULL)
    BY <1>1 DEF Seek
  <2> QED  BY <1>1, <2>1, StartKeep DEF GetPrev
<1>2. CASE Restart(t)
  <2>1. PICK n \in GetPrev(heap[reg[t].node].key) : Visit(t, n, TRUE, "start", NULL)
    BY <1>2 DEF Restart
  <2>2. pc[t] = "load" /\ ret[t] = "start" /\ InTx(t)
    BY <1>2 DEF Restart, Loaded, InTx
  <2>3. heap[reg[t].node].key < prog[t][1].key
    BY <2>2 DEF ChainInv, TxInv, Snapshot, Reading, At
  <2>4. heap[n].key < heap[reg[t].node].key
    BY DEF GetPrev
  <2>5. heap[n].key \in Int /\ heap[reg[t].node].key \in Int /\ prog[t][1].key \in Int
    <3>1. n \in Allocated /\ reg[t].node \in Allocated
      BY <2>2, GetPrevAllocated DEF TypeInv, Pointers, Control, Pointer
    <3>2. prog[t] # <<>> /\ prog[t] \in Seq(Calls)
      BY <2>2 DEF TypeInv, TypeOK, Control
    <3>3. prog[t][1] \in Calls
      BY <3>2
    <3> QED  BY <3>1, <3>3, NodeAt, KeysAssumption DEF Calls
  <2>6. heap[n].key < prog[t][1].key
    BY <2>3, <2>4, <2>5
  <2> QED  BY <1>2, <2>1, <2>6, StartKeep
<1> QED  BY <1>1, <1>2

LEMMA WalkKeep ==
  ASSUME TypeInv, TypeInv', ChainInv, NEW t \in Threads, Alone(t), Walk(t)
  PROVE  ChainInv'
<1> PICK n : n = reg[t].next
  OBVIOUS
<1>1. /\ InWalk(t) /\ More(t) /\ Visit(t, n, TRUE, "walk", NULL)
      /\ tx' = tx /\ trace' = trace /\ snap' = snap /\ prog' = prog /\ pos' = pos /\ heap' = heap
  BY DEF Walk, history, shared
<1>2. pc[t] = "load" /\ InTx(t) /\ ~Validates(t)
  BY <1>1, SMTT(30) DEF InWalk, Loaded, InTx, Validates
<1>4. pc'[t] = "load" /\ ret'[t] = "walk" /\ reg'[t].node = n
  BY <1>1 DEF Visit, TypeInv, TypeOK
<1>3. Step(t) /\ ~AddAndFetch(t) /\ ~Store(t)
  BY <1>4, NoWriteBack DEF Step
<1>5. Checked(t)'
  BY <1>1, <1>2, <1>4 DEF Checked, Validates, ChainInv, TxInv
<1>6. ASSUME NEW S, NEW N, Snapshot(t, S, N) PROVE At(t, S, N)'
  <2>1. n \in View(t, S) /\ ~reg[t].deleted
    BY <1>1, <1>6, WalkAt DEF Succ
  <2>2. heap[n].key < prog[t][1].key
    BY <1>1, <2>1 DEF More
  <2>3. View(t, S)' = View(t, S)
    BY <1>1, SameView DEF SameWrites, Allocated
  <2> QED  BY <1>1, <1>4, <2>1, <2>2, <2>3 DEF At
<1>7. n \in Allocated
  BY <1>1, <1>2, WalkAt DEF ChainInv, TxInv, Succ
<1> QED  BY <1>1, <1>2, <1>3, <1>5, <1>6, <1>7, VisitKeep

LEMMA ValidateKeep ==
  ASSUME TypeInv, TypeInv', ChainInv, NEW t \in Threads, Alone(t), Validate(t)
  PROVE  ChainInv'
<1> PICK rs, i : rs = tx[t].readSet /\ i = pos[t] + 1
  OBVIOUS
<1> PICK n : n = rs[i]
  OBVIOUS
<1>1. /\ Validating(t) /\ Visit(t, n, FALSE, "validate", NULL) /\ pos'[t] = i
      /\ pos[t] < Len(rs) /\ pos[t] \in Nat
      /\ tx' = tx /\ trace' = trace /\ snap' = snap /\ prog' = prog /\ heap' = heap
  BY DEF Validate, history, shared, TypeInv, TypeOK
<1>2. pc[t] \in {"lock", "load"} /\ InTx(t) /\ (pc[t] = "load" => Validates(t) /\ todo[t] = {})
  BY <1>1 DEF Validating, Loaded, InTx, Validates
<1>4. pc'[t] = "load" /\ ret'[t] = "validate" /\ reg'[t].node = n
  BY <1>1, VisitSets, Zenon
<1>3. Step(t) /\ ~AddAndFetch(t) /\ ~Store(t)
  BY <1>4, NoWriteBack DEF Step
<1>5. rs \in Seq(Allocated) /\ i \in DOMAIN rs /\ n \in Allocated /\ \A j \in 1..i : rs[j] \in Allocated
  BY <1>1 DEF TypeInv, Pointers
<1>6. Checked(t)'
  <2>1. todo'[t] # {}
    BY <1>1, Zenon DEF Visit, TypeInv, TypeOK
  <2>2. ASSUME NEW j \in 1..pos[t] PROVE ~Changed(t, rs[j])
    <3>1. Checked(t)
      BY DEF ChainInv, TxInv
    <3>2. CASE pc[t] = "lock"
      BY <2>2, <3>1, <3>2 DEF Checked
    <3>3. CASE pc[t] = "load"
      BY <1>1, <1>2, <2>2, <3>1, <3>3 DEF Checked
    <3> QED  BY <1>2, <3>2, <3>3
  <2>3. \A m \in Allocated : Changed(t, m)' <=> Changed(t, m)
    BY <1>1, <1>3, Aside
  <2>4. \A j \in 1..i : j # i => ~Changed(t, rs[j])'
    BY <1>1, <1>5, <2>2, <2>3
  <2> QED  BY <1>1, <1>4, <2>1, <2>4, Zenon DEF Checked, Validates
<1>7. \A S, N : At(t, S, N)'
  BY <1>1, <1>4, <1>5 DEF At
<1> QED  BY <1>1, <1>2, <1>3, <1>5, <1>6, <1>7, VisitKeep

-----------------------------------------------------------------------------
\* What one load of getValidatedValue brings: without Reorder, the version comes last.
LoadOf(t, n, f) ==
    /\ <<n, f>> \in todo[t] /\ f \in Fields /\ n = reg[t].node /\ n \in Allocated
    /\ todo'[t] = todo[t] \ {<<n, f>>}
    /\ f = "version" => todo[t] = {<<n, f>>} /\ ~TooNew(t, n)
    /\ reg'[t].node = n /\ reg'[t].pred = reg[t].pred
    /\ reg'[t].next = IF f = "next" THEN heap[n].next ELSE reg[t].next
    /\ reg'[t].deleted = IF f = "deleted" THEN heap[n].deleted ELSE reg[t].deleted
    /\ UNCHANGED <<gvc, heap, index, left, pc, ret, prog, tx, pos, locks, trace, snap, net>>

LEMMA LoadEffect ==
  ASSUME ~Reorder, TypeInv, NEW t \in Threads, Load(t), ~Throw(t), \A a \in todo[t] : a[1] = reg[t].node
  PROVE  \E n, f : LoadOf(t, n, f)
<1>1. PICK a \in Due(todo[t], LoadOrder) :
         LET n == a[1]  f == a[2]
         IN /\ ~(heap[n].locked \/ (f = "version" /\ TooNew(t, n)))
            /\ todo' = [todo EXCEPT ![t] = @ \ {a}]
            /\ reg' = [reg EXCEPT ![t].next = IF f = "next" THEN heap[n].next ELSE @,
                                  ![t].deleted = IF f = "deleted" THEN heap[n].deleted ELSE @]
            /\ UNCHANGED <<pc, ret, history>>
  BY DEF Load
<1>2. a \in todo[t] /\ \A b \in todo[t] : b[1] = a[1] => LoadOrder[a[2]] <= LoadOrder[b[2]]
  BY <1>1 DEF Due
<1>3. todo \in [Threads -> SUBSET (Nodes \X Fields)] /\ reg \in [Threads -> Registers] /\ todo[t] \subseteq Allocated \X Fields
  BY DEF TypeInv, TypeOK, Pointers
<1>4. PICK n, f : n = a[1] /\ f = a[2]
  OBVIOUS
<1>5. a = <<n, f>> /\ n \in Allocated /\ f \in Fields
  BY <1>2, <1>3, <1>4
<1>6. n = reg[t].node
  BY <1>2, <1>4
<1>7. f = "version" => todo[t] = {<<n, f>>}
  <2> SUFFICES ASSUME f = "version", NEW b \in todo[t] PROVE b = <<n, f>>
    BY <1>2, <1>5
  <2>1. b[1] = n /\ b[2] \in Fields /\ b = <<b[1], b[2]>>
    BY <1>3, <1>6
  <2>2. LoadOrder[f] <= LoadOrder[b[2]]
    BY <1>2, <1>4, <2>1
  <2>3. b[2] = "version"
    BY <2>1, <2>2 DEF Fields, LoadOrder
  <2> QED  BY <2>1, <2>3
<1>8. todo'[t] = todo[t] \ {<<n, f>>}
  BY <1>1, <1>3, <1>5
<1>9. /\ reg'[t].node = reg[t].node /\ reg'[t].pred = reg[t].pred
      /\ reg'[t].next = IF f = "next" THEN heap[n].next ELSE reg[t].next
      /\ reg'[t].deleted = IF f = "deleted" THEN heap[n].deleted ELSE reg[t].deleted
  BY <1>1, <1>3, <1>4 DEF Registers
<1>10. UNCHANGED <<gvc, heap, index, left, pc, ret, prog, tx, pos, locks, trace, snap, net>>
  BY <1>1 DEF Load, history, shared
<1>11. f = "version" => ~TooNew(t, n)
  BY <1>1, <1>4
<1>12. LoadOf(t, n, f)
  BY <1>2, <1>5, <1>6, <1>7, <1>8, <1>9, <1>10, <1>11 DEF LoadOf
<1> QED  BY <1>12

LEMMA LoadReads ==
  ASSUME TypeInv, TypeInv', ListInv, Quiet, NEW t \in Threads, pc[t] = "load", NEW S, NEW N, Snapshot(t, S, N),
         NEW n, NEW f, LoadOf(t, n, f), Still(t)
  PROVE  Reading(t, S, N)'
<1>1. At(t, S, N) /\ HasLoaded(t, S, N) /\ Logged(t, S, N) /\ Agrees(t, S, N)
  BY DEF Snapshot, Reading
<1>2. /\ <<n, f>> \in todo[t] /\ f \in Fields /\ n = reg[t].node /\ n \in Allocated /\ todo'[t] = todo[t] \ {<<n, f>>}
      /\ reg'[t].node = n /\ reg'[t].pred = reg[t].pred
      /\ reg'[t].next = IF f = "next" THEN heap[n].next ELSE reg[t].next
      /\ reg'[t].deleted = IF f = "deleted" THEN heap[n].deleted ELSE reg[t].deleted
      /\ pc' = pc /\ ret' = ret /\ prog' = prog /\ tx' = tx /\ pos' = pos /\ heap' = heap
      /\ f = "version" => todo[t] = {<<n, f>>} /\ ~TooNew(t, n)
  BY DEF LoadOf
<1>3. /\ View(t, S)' = View(t, S) /\ Items(t)' = Items(t) /\ Fresh(t)' = Fresh(t) /\ Cut(t)' = Cut(t)
      /\ \A m \in Allocated : ViewNext(t, N)'[m] = ViewNext(t, N)[m]
  BY <1>2, SameView DEF SameWrites, Still
<1>4. /\ NextToBe(n) = heap[n].next /\ DeletedToBe(n) = heap[n].deleted /\ (Changed(t, n) => Changed(t, n)')
      /\ (DeletedToBe(n) => DeletedToBe(n)') /\ (~Changed(t, n)' => (DeletedToBe(n)' => DeletedToBe(n)))
      /\ (f = "version" => ~Changed(t, n))
  BY <1>2, QuietNow, QuietDeleted DEF Still, TooNew
<1>5. At(t, S, N)'
  <2>1. ret[t] = "unlink" => reg[t].pred \in Allocated
    BY DEF TypeInv, Control, Pointers, Pointer
  <2> QED  BY <1>1, <1>2, <1>3, <1>4, <2>1 DEF At
<1>6. ~Changed(t, n) /\ n \in S \cup Fresh(t) => N[n] = NextToBe(n)
  BY <1>1, <1>2 DEF Agrees
<1>7. /\ \A a \in todo'[t] : a[1] = n
      /\ todo'[t] # {} => <<n, "version">> \in todo'[t]
      /\ <<n, "next">> \in todo'[t] => ViewNext(t, N)[n] = N[n]
      /\ <<n, "deleted">> \in todo'[t] => n \notin Items(t)
      /\ ret[t] = "unlink" => ~reg'[t].deleted /\ <<n, "deleted">> \notin todo'[t]
  <2>1. ret[t] = "unlink" => f # "deleted"
    BY <1>1, <1>2 DEF HasLoaded
  <2> QED  BY <1>1, <1>2, <2>1 DEF HasLoaded
<1>8. ~Changed(t, n) /\ n \in S \cup Fresh(t) /\ <<n, "next">> \notin todo'[t] => reg'[t].next = ViewNext(t, N)[n]
  BY <1>1, <1>2, <1>4, <1>6 DEF HasLoaded
<1>9. ~Changed(t, n) /\ ret[t] \in {"start", "walk"} /\ <<n, "deleted">> \notin todo'[t]
          => (reg'[t].deleted <=> IF n \in Items(t) THEN n \in Cut(t) ELSE DeletedToBe(n))
  BY <1>1, <1>2, <1>4 DEF HasLoaded
<1>10. todo'[t] = {} => \/ ret[t] = "start" /\ reg'[t].deleted
                        \/ ret[t] = "validate" /\ reg'[t].next = ViewNext(t, N)[n]
                        \/ /\ n \in View(t, S) /\ reg'[t].next = ViewNext(t, N)[n]
                           /\ ~reg'[t].deleted
  <2> SUFFICES ASSUME todo'[t] = {}
               PROVE  \/ ret[t] = "start" /\ reg'[t].deleted
                      \/ ret[t] = "validate" /\ reg'[t].next = ViewNext(t, N)[n]
                      \/ /\ n \in View(t, S) /\ reg'[t].next = ViewNext(t, N)[n]
                         /\ ~reg'[t].deleted
    OBVIOUS
  <2>1. f = "version" /\ ~Changed(t, n) /\ (n \in S <=> n \in Chained)
    BY <1>1, <1>2, <1>4 DEF HasLoaded, Agrees
  <2>2. n \in S \cup Fresh(t) => reg'[t].next = ViewNext(t, N)[n]
    BY <1>8, <2>1
  <2>3. /\ Fresh(t) \subseteq Items(t) /\ Items(t) \subseteq S \cup Fresh(t) /\ Cut(t) \subseteq Items(t)
        /\ Elems(tx[t].readSet) \subseteq S \cup Fresh(t)
    BY <1>1 DEF Logged, Cut
  <2>4. n \in Chained => ~DeletedToBe(n)
    BY DEF ListInv
  <2>5. CASE ret[t] = "start"
    <3>1. n \in S \/ DeletedToBe(n)
      BY <1>1, <1>2, <2>1, <2>5 DEF At
    <3>2. reg'[t].deleted <=> IF n \in Items(t) THEN n \in Cut(t) ELSE DeletedToBe(n)
      BY <1>9, <2>1, <2>5
    <3> QED  BY <2>2, <2>3, <2>5, <3>1, <3>2 DEF View
  <2>6. CASE ret[t] = "walk"
    <3>1. n \in View(t, S)
      BY <1>1, <1>2, <2>6 DEF At
    <3>2. reg'[t].deleted <=> IF n \in Items(t) THEN n \in Cut(t) ELSE DeletedToBe(n)
      BY <1>9, <2>1, <2>6
    <3> QED  BY <2>1, <2>2, <2>3, <2>4, <3>1, <3>2 DEF View
  <2>7. CASE ret[t] = "unlink"
    BY <1>1, <1>2, <1>7, <2>2, <2>7 DEF At, View
  <2>8. CASE ret[t] = "validate"
    <3>1. n \in Elems(tx[t].readSet)
      BY <1>1, <1>2, <2>8 DEF At, Elems
    <3> QED  BY <2>2, <2>3, <2>8, <3>1
  <2>9. ret[t] \in {"start", "walk", "unlink", "validate"}
    BY DEF TypeInv, TypeOK, Control, Rets
  <2> QED  BY <2>5, <2>6, <2>7, <2>8, <2>9
<1>11. ~Changed(t, n)' => ~Changed(t, n) /\ (DeletedToBe(n)' <=> DeletedToBe(n))
  BY <1>4
<1>12. HasLoaded(t, S, N)'
  BY <1>2, <1>3, <1>7, <1>8, <1>9, <1>10, <1>11 DEF HasLoaded
<1> QED  BY <1>5, <1>12 DEF Reading

LEMMA LoadKeep ==
  ASSUME ~Reorder, TypeInv, TypeInv', ChainInv, NEW t \in Threads, Alone(t), Load(t)
  PROVE  ChainInv'
<1>1. pc[t] = "load" /\ InTx(t) /\ Step(t) /\ tx' = tx /\ prog' = prog
  BY DEF Load, InTx, Step
<1>2. ~AddAndFetch(t) /\ ~Store(t)
  <2>1. pc'[t] # "publish"
    BY <1>1 DEF Load, Throw, TypeInv, TypeOK
  <2> QED  BY <2>1, NoWriteBack
<1>3. CASE Throw(t)
  BY <1>1, <1>2, <1>3, ThrowOut, OwnParts, OutKeep, AsideKeep
<1>4. CASE ~Throw(t)
  <2>1. \A a \in todo[t] : a[1] = reg[t].node
    BY <1>1 DEF ChainInv, TxInv, Snapshot, Reading, HasLoaded
  <2>2. PICK n, f : LoadOf(t, n, f)
    BY <1>4, <2>1, LoadEffect
  <2>3. Still(t) /\ Quiet /\ ListInv
    BY <1>1, <1>2, OwnParts, AsideQuiet DEF ChainInv
  <2>4. \A S, N : Snapshot(t, S, N) => Reading(t, S, N)'
    BY <1>1, <2>2, <2>3, LoadReads
  <2>5. Checked(t)'
    <3>0. UNCHANGED <<pc, ret, tx, pos, trace>> /\ todo'[t] = todo[t] \ {<<n, f>>} /\ n = reg[t].node
          /\ n \in Allocated /\ f \in Fields /\ <<n, f>> \in todo[t]
          /\ (f = "version" => ~TooNew(t, n))
      BY <2>2 DEF LoadOf
    <3> TxInv(t) /\ Checked(t)
      BY DEF ChainInv, TxInv
    <3>1. CASE ~Validates(t)
      <4>1. pos[t] = 0 /\ ~Validates(t)' /\ pc'[t] = "load"
        BY <1>1, <3>0, <3>1 DEF Checked, Validates
      <4> QED  BY <3>0, <4>1 DEF Checked
    <3>2. CASE Validates(t)
      <4>1. /\ pos[t] \in DOMAIN tx[t].readSet /\ n = tx[t].readSet[pos[t]] /\ <<n, "version">> \in todo[t]
        <5>1. PICK S, N : Snapshot(t, S, N)
          BY <1>1 DEF TxInv
        <5> QED  BY <1>1, <3>0, <3>2, <5>1 DEF Validates, Snapshot, Reading, At, HasLoaded
      <4>2. ASSUME todo'[t] = {} PROVE ~Changed(t, n)
        <5>1. f = "version"
          BY <3>0, <4>1, <4>2
        <5>2. ~(heap[n].version > tx[t].readVersion)
          BY <3>0, <5>1 DEF TooNew
        <5> QED  BY <2>3, <5>2, QuietNow
      <4>3. \A m \in Allocated : Changed(t, m)' <=> Changed(t, m)
        BY <1>1, <1>2, Aside
      <4>4. \A i \in 1..pos[t] : tx[t].readSet[i] \in Allocated
        BY <4>1 DEF TypeInv, Pointers
      <4>5. \A i \in 1..pos[t] : i # pos[t] => ~Changed(t, tx[t].readSet[i])
        BY <3>2 DEF Checked, ChainInv, TxInv
      <4>6. ASSUME NEW i \in 1..pos[t], i # pos[t] \/ todo'[t] = {} PROVE ~Changed(t, tx[t].readSet[i])'
        <5>1. PICK m \in Allocated : m = tx[t].readSet[i]
          BY <4>4
        <5>2. ~Changed(t, m)'
          BY <4>1, <4>2, <4>3, <4>5, <4>6, <5>1
        <5> QED  BY <3>0, <5>1, <5>2
      <4>7. Validates(t)' /\ pc'[t] = "load" /\ pos'[t] = pos[t]
        BY <3>0, <3>2 DEF Validates
      <4> QED  BY <4>6, <4>7 DEF Checked
    <3> QED  BY <3>1, <3>2
  <2>6. InTx(t)' /\ trace'[t] = trace[t] /\ snap'[t] = snap[t]
    BY <1>1, <2>2 DEF LoadOf, InTx
  <2> QED  BY <1>1, <1>2, <2>4, <2>5, <2>6, InKeep
<1> QED  BY <1>3, <1>4

-----------------------------------------------------------------------------
\* A step of t that reads more and answers no insert and no remove with TRUE.
LEMMA GrowKeep ==
  ASSUME TypeInv, TypeInv', ChainInv, NEW t \in Threads, Alone(t), Step(t), ~AddAndFetch(t), ~Store(t),
         InTx(t), InTx(t)', SameWrites(t), tx'[t].readVersion = tx[t].readVersion, SameCount(t), Checked(t)',
         \A i \in DOMAIN prog'[t] : prog'[t][i] \in Called,
         \A S, N : Snapshot(t, S, N) => Logged(t, S, N)' /\ Reading(t, S, N)' /\ Answered(t, S, N)'
  PROVE  ChainInv'
<1>1. Newer(t)' /\ Still(t) /\ TxInv(t)
  BY OwnParts DEF ChainInv
<1>2. PICK S, N : Snapshot(t, S, N)
  BY <1>1 DEF TxInv
<1>3. Chains(t, S, N)' /\ Agrees(t, S, N)' /\ Told(t, S)'
  BY <1>1, <1>2, SnapKeep DEF Snapshot
<1>4. Snapshot(t, S, N)'
  BY <1>2, <1>3 DEF Snapshot
<1>5. TxInv(t)'
  BY <1>1, <1>4 DEF TxInv, InTx
<1> QED  BY <1>5, AsideKeep

LEMMA TxReads ==
  ASSUME TypeInv, NEW t \in Threads, NEW rs, tx' = [tx EXCEPT ![t].readSet = rs]
  PROVE  SameWrites(t) /\ tx'[t].readVersion = tx[t].readVersion /\ tx'[t].readSet = rs
<1>1. t \in DOMAIN tx /\ tx[t] \in Transaction(Items(t))
  BY DEF TypeInv, TypeOK
<1> QED  BY <1>1 DEF SameWrites, Transaction

LEMMA RemoveKeep ==
  ASSUME TypeInv, TypeInv', ChainInv, NEW t \in Threads, Alone(t), Remove(t)
  PROVE  ChainInv'
<1> PICK p, s, rs : p = reg[t].node /\ s = Succ(t) /\ rs = tx[t].readSet
  OBVIOUS
<1>1. /\ InWalk(t) /\ ~More(t) /\ Present(t) /\ Visit(t, s, FALSE, "unlink", p) /\ prog[t][1].op = "remove"
      /\ tx' = [tx EXCEPT ![t].readSet = Append(Append(rs, p), s)]
      /\ trace' = trace /\ snap' = snap /\ prog' = prog /\ pos' = pos /\ heap' = heap
  BY DEF Remove, Arrived, Read, history, shared
<1>2. pc[t] = "load" /\ InTx(t) /\ ~Validates(t) /\ TxInv(t)
  BY <1>1 DEF InWalk, Loaded, InTx, Validates, ChainInv
<1>3. pc'[t] = "load" /\ ret'[t] = "unlink" /\ reg'[t].node = s /\ reg'[t].pred = p
  BY <1>1 DEF Visit, TypeInv, TypeOK
<1>4. Step(t) /\ ~AddAndFetch(t) /\ ~Store(t)
  BY <1>3, NoWriteBack DEF Step
<1>5. SameWrites(t) /\ tx'[t].readVersion = tx[t].readVersion /\ tx'[t].readSet = Append(Append(rs, p), s)
  BY <1>1, TxReads
<1>6. Still(t)
  BY <1>4, <1>5, OwnParts
<1>7. ASSUME NEW S, NEW N, Snapshot(t, S, N)
      PROVE  /\ p \in View(t, S) /\ p \in Allocated /\ s \in View(t, S) /\ s \in Allocated
             /\ heap[s].key = prog[t][1].key /\ ViewNext(t, N)[p] = s
             /\ Elems(tx'[t].readSet) = Elems(rs) \cup {p} \cup {s}
             /\ ViewNext(t, N)[p] # NULL /\ ViewNext(t, N)[s] # NULL
  <2>1. /\ p \in View(t, S) /\ p \in Allocated /\ s \in View(t, S) /\ s \in Allocated
        /\ s = ViewNext(t, N)[p] /\ ViewNext(t, N)[p] # NULL /\ prog[t][1] \in Called /\ heap[s].key \in Int
    BY <1>1, <1>7, WalkAt
  <2>2. heap[s].key = prog[t][1].key
    BY <1>1 DEF Present
  <2>3. ViewNext(t, N)[s] # NULL
    BY <1>7, <2>1, <2>2, BelowCalled DEF Snapshot
  <2>4. rs \in Seq(Allocated)
    BY DEF TypeInv, Pointers
  <2>5. Elems(tx'[t].readSet) = Elems(rs) \cup {p} \cup {s}
    <3>1. PICK q : q = Append(rs, p)
      OBVIOUS
    <3>2. q \in Seq(Allocated) /\ Elems(q) = Elems(rs) \cup {p}
      BY <2>1, <2>4, <3>1, AppendElems
    <3>3. Elems(Append(q, s)) = Elems(q) \cup {s}
      BY <2>1, <3>2, AppendElems
    <3> QED  BY <1>5, <3>1, <3>2, <3>3
  <2> QED  BY <2>1, <2>2, <2>3, <2>5
<1>8. ASSUME NEW S, NEW N, Snapshot(t, S, N) PROVE Logged(t, S, N)' /\ Reading(t, S, N)' /\ Answered(t, S, N)'
  <2>1. Logged(t, S, N)'
    <3>1. p \in S \cup Fresh(t) /\ s \in S \cup Fresh(t)
      BY <1>7, <1>8 DEF View
    <3> QED  BY <1>5, <1>6, <1>7, <1>8, <3>1, LoggedKeep DEF Snapshot
  <2>2. View(t, S)' = View(t, S) /\ ViewNext(t, N)'[p] = ViewNext(t, N)[p]
    BY <1>5, <1>6, <1>7, <1>8, SameView DEF Still
  <2>3. At(t, S, N)'
    BY <1>1, <1>3, <1>7, <1>8, <2>2 DEF At
  <2>4. HasLoaded(t, S, N)'
    <3>1. PICK w \in BOOLEAN : ~w /\ Visit(t, s, w, "unlink", p)
      BY <1>1
    <3>2. s \in Allocated /\ Allocated \subseteq Allocated'
      BY <1>6, <1>7, <1>8 DEF Still
    <3> QED  BY <1>5, <3>1, <3>2, VisitLoads
  <2>5. Answered(t, S, N)'
    BY <1>1, <1>5, <1>6, <1>7, <1>8, AnsweredKeep DEF Snapshot
  <2> QED  BY <2>1, <2>3, <2>4, <2>5 DEF Reading
<1>9. Checked(t)' /\ InTx(t)' /\ SameCount(t)
  BY <1>1, <1>2, <1>3 DEF Checked, Validates, TxInv, InTx, SameCount
<1>10. \A i \in DOMAIN prog'[t] : prog'[t][i] \in Called
  BY <1>1, <1>2 DEF TxInv
<1> QED  BY <1>2, <1>4, <1>5, <1>8, <1>9, <1>10, GrowKeep

\* The call of t has returned.
LEMMA ReturnSets ==
  ASSUME TypeInv, NEW t \in Threads, NEW ok \in BOOLEAN, prog[t] # <<>>, Return(t, ok), TxInv(t), ~Validates(t), pc[t] = "load"
  PROVE  /\ pc'[t] = "ready" /\ InTx(t)' /\ Checked(t)'
         /\ \A i \in DOMAIN prog'[t] : prog'[t][i] \in Called
         /\ trace'[t] = Append(trace[t], [op |-> prog[t][1].op, key |-> prog[t][1].key, ok |-> ok])
         /\ snap'[t] = snap[t]
<1>1. prog[t] \in Seq(Calls) /\ prog'[t] = Tail(prog[t]) /\ pc'[t] = "ready" /\ pos' = pos /\ snap' = snap
      /\ trace'[t] = Append(trace[t], [op |-> prog[t][1].op, key |-> prog[t][1].key, ok |-> ok])
  BY DEF Return, TypeInv, TypeOK
<1>2. \A i \in DOMAIN Tail(prog[t]) : i + 1 \in DOMAIN prog[t] /\ Tail(prog[t])[i] = prog[t][i + 1]
  BY <1>1
<1>3. Checked(t)' /\ InTx(t)'
  BY <1>1 DEF Checked, Validates, TxInv, InTx
<1> QED  BY <1>1, <1>2, <1>3 DEF TxInv

Replies(t, ok) == ok <=> (Present(t) <=> prog[t][1].op # "insert")

LEMMA ReadKeep ==
  ASSUME TypeInv, TypeInv', ChainInv, NEW t \in Threads, Alone(t), Contains(t) \/ Refuse(t)
  PROVE  ChainInv'
<1> PICK p, rs : p = reg[t].node /\ rs = tx[t].readSet
  OBVIOUS
<1>1. /\ InWalk(t) /\ ~More(t) /\ tx' = [tx EXCEPT ![t].readSet = Append(rs, p)] /\ heap' = heap
      /\ \E ok \in BOOLEAN : Return(t, ok) /\ (ok => prog[t][1].op = "contains") /\ Replies(t, ok)
  BY DEF Contains, Refuse, Arrived, Read, shared, Present, Replies
<1>2. pc[t] = "load" /\ InTx(t) /\ ~Validates(t) /\ TxInv(t)
  BY <1>1 DEF InWalk, Loaded, InTx, Validates, ChainInv
<1>3. PICK ok \in BOOLEAN : Return(t, ok) /\ (ok => prog[t][1].op = "contains") /\ Replies(t, ok)
  BY <1>1
<1>4. prog[t] # <<>>
  BY <1>1, <1>2, WalkAt DEF TxInv
<1>5. /\ pc'[t] = "ready" /\ InTx(t)' /\ Checked(t)'
      /\ \A i \in DOMAIN prog'[t] : prog'[t][i] \in Called
      /\ trace'[t] = Append(trace[t], [op |-> prog[t][1].op, key |-> prog[t][1].key, ok |-> ok])
      /\ snap'[t] = snap[t]
  BY <1>2, <1>3, <1>4, ReturnSets
<1>6. SameCount(t)
  <2>1. trace[t] \in Seq(Answers)
    BY DEF TypeInv, TypeOK
  <2>2. ASSUME NEW op \in {"insert", "remove"}, NEW k \in Keys PROVE Times(trace'[t], op, k) = Times(trace[t], op, k)
    <3>1. [op |-> prog[t][1].op, key |-> prog[t][1].key, ok |-> ok] # [op |-> op, key |-> k, ok |-> TRUE]
      <4>1. CASE ok
        <5>1. prog[t][1].op # op
          BY <1>3, <4>1
        <5> QED  BY <5>1
      <4>2. CASE ok = FALSE
        BY <4>2
      <4> QED  BY <4>1, <4>2
    <3>2. Times(trace[t], op, k) \in Nat
      BY <2>1, TimesNat
    <3>3. PICK a : a = [op |-> prog[t][1].op, key |-> prog[t][1].key, ok |-> ok]
      OBVIOUS
    <3>4. a # [op |-> op, key |-> k, ok |-> TRUE]
      BY <3>1, <3>3
    <3>5. Times(Append(trace[t], a), op, k) = Times(trace[t], op, k) + 0
      BY <2>1, <3>4, TimesAppend
    <3> QED  BY <1>5, <3>2, <3>3, <3>5
  <2> QED  BY <2>2 DEF SameCount
<1>7. Step(t) /\ ~AddAndFetch(t) /\ ~Store(t)
  BY <1>5, NoWriteBack DEF Step
<1>8. SameWrites(t) /\ tx'[t].readVersion = tx[t].readVersion /\ tx'[t].readSet = Append(rs, p)
  BY <1>1, TxReads
<1>9. Still(t)
  BY <1>7, <1>8, OwnParts
<1>10. ASSUME NEW S, NEW N, Snapshot(t, S, N) PROVE Logged(t, S, N)' /\ Reading(t, S, N)' /\ Answered(t, S, N)'
  <2>1. p \in S \cup Fresh(t) /\ p \in Allocated /\ ViewNext(t, N)[p] # NULL
    BY <1>1, <1>10, WalkAt
  <2>2. Elems(tx'[t].readSet) = Elems(rs) \cup {p}
    BY <1>8, <2>1, AppendElems DEF TypeInv, Pointers
  <2>3. Logged(t, S, N)'
    BY <1>8, <1>9, <1>10, <2>1, <2>2, LoggedKeep DEF Snapshot
  <2>4. Answered(t, S, N)'
    <3> PICK c, a : c = prog[t][1] /\ a = [op |-> c.op, key |-> c.key, ok |-> ok]
      OBVIOUS
    <3>1. c \in Called /\ c \in Calls /\ p \in View(t, S) /\ heap[p].key < c.key /\ Succ(t) = ViewNext(t, N)[p]
      BY <1>1, <1>10, WalkAt
    <3>2. a.op = c.op /\ a.key = c.key /\ (a.ok <=> ok) /\ a \in Answers
      BY <3>1 DEF Calls, Answers
    <3>3. View(t, S)' = View(t, S) /\ Fresh(t)' = Fresh(t)
      BY <1>8, <1>9, SameView DEF Still
    <3>4. Held(View(t, S))' = Held(View(t, S))
      BY <1>1, <3>3 DEF Held
    <3>5. a.ok <=> (a.key \in Held(View(t, S)) <=> a.op # "insert")
      <4>1. Present(t) <=> c.key \in Held(View(t, S))
        BY <1>1, <1>10, PresentHeld
      <4>2. ok <=> (Present(t) <=> c.op # "insert")
        BY <1>3 DEF Replies
      <4> QED  BY <3>2, <4>1, <4>2
    <3>6. Spanned(S, N, KeyOf, Elems(tx'[t].readSet), a.key)
      <4>1. c.key <= heap[ViewNext(t, N)[p]].key
        BY <1>1, <1>10, <3>1, Arrives
      <4>2. PICK Q : Q = Elems(tx'[t].readSet)
        OBVIOUS
      <4>3. Elems(tx[t].readSet) \subseteq Q /\ p \in Q
        BY <2>2, <4>2
      <4>4. Spanned(S, N, KeyOf, Q, c.key)
        BY <1>10, <2>1, <3>1, <4>1, <4>3, CallCovered
      <4> QED  BY <3>2, <4>2, <4>4
    <3>7. a.ok => a.op = "contains"
      BY <1>3, <3>2
    <3>8. Elems(tx[t].readSet) \subseteq Elems(tx'[t].readSet) /\ Allocated \subseteq Allocated'
      BY <1>9, <2>2 DEF Still
    <3>9. Answering(t, S, N, N, a)
      BY <1>1, <1>5, <3>2, <3>3, <3>4, <3>5, <3>6, <3>7, <3>8 DEF Answering
    <3> QED  BY <1>10, <3>9, AnswerKeep DEF Snapshot
  <2> QED  BY <1>5, <2>3, <2>4 DEF Reading
<1> QED  BY <1>2, <1>5, <1>6, <1>7, <1>8, <1>10, GrowKeep

-----------------------------------------------------------------------------
\* What insert and remove do to a write set: p leads to x, d is there, d is removed.
Leads(ws, p, x) == AddItem(ws, p, x, FALSE)
Joins(ws, d) == AddItem(ws, d, NULL, FALSE)
Goes(ws, d) == AddItem(ws, d, NULL, TRUE)

\* t comes to write that p leads to x, it adds the item of d, and it removes the nodes of C.
Rewrites(t, p, x, d, C) ==
    LET w == tx'[t].writeSet  u == Leads(tx[t].writeSet, p, x)
    IN /\ p # d /\ x \in Ref \ {NULL} /\ Allocated \subseteq Allocated' /\ p \in Allocated'
       /\ DOMAIN w = DOMAIN u \cup {d}
       /\ {m \in DOMAIN w : w[m].deleted} = {m \in DOMAIN u : u[m].deleted} \cup C
       /\ \A m \in DOMAIN u \ {d} : w[m] = u[m]
       /\ w[d].next = (IF d \in DOMAIN u THEN u[d].next ELSE NULL)

\* What that does to the pointers that t has in view.
Redirected(t, M, p, x, d, C) ==
    /\ Items(t)' = Items(t) \cup {p, d} /\ Cut(t)' = Cut(t) \cup C
    /\ ViewNext(t, M)'[p] = x
    /\ \A n \in Allocated \ {p} : ViewNext(t, M)'[n] = ViewNext(t, M)[n]
    /\ \A n \in Allocated' \ (Allocated \cup {p}) :
         ViewNext(t, M)'[n] = IF n \in Items(t) /\ tx[t].writeSet[n].next # NULL
                              THEN tx[t].writeSet[n].next ELSE M[n]

LEMMA WrittenTwice ==
  ASSUME NEW t \in Threads, NEW M, NEW p, NEW x, NEW d, NEW C, Rewrites(t, p, x, d, C)
  PROVE  Redirected(t, M, p, x, d, C)
<1> PICK D, ws, w1, w2 : D = Items(t) /\ ws = tx[t].writeSet /\ w1 = Leads(ws, p, x) /\ w2 = tx'[t].writeSet
  OBVIOUS
<1>1. /\ DOMAIN ws = D
      /\ {m \in DOMAIN w2 : w2[m].deleted} = {m \in DOMAIN w1 : w1[m].deleted} \cup C
      /\ DOMAIN w2 = DOMAIN w1 \cup {d} /\ \A m \in DOMAIN w1 \ {d} : w2[m] = w1[m]
      /\ w2[d].next = (IF d \in DOMAIN w1 THEN w1[d].next ELSE NULL)
      /\ p # d /\ x # NULL /\ Allocated \subseteq Allocated' /\ p \in Allocated'
  BY DEF Items, Rewrites
<1>2. /\ DOMAIN w1 = D \cup {p} /\ \A m \in D \ {p} : w1[m] = ws[m]
      /\ w1[p].next = x /\ (w1[p].deleted <=> p \in D /\ ws[p].deleted)
  <2>1. DOMAIN w1 = DOMAIN ws \cup {p} /\ \A m \in DOMAIN ws \ {p} : w1[m] = ws[m]
    BY DEF AddItem, Leads
  <2>2. CASE p \notin DOMAIN ws
    <3>1. w1[p] = [next |-> x, deleted |-> FALSE]
      BY <2>2 DEF AddItem, Leads
    <3> QED  BY <1>1, <2>1, <2>2, <3>1
  <2>3. CASE p \in DOMAIN ws
    <3>1. w1[p] = [next |-> x, deleted |-> ws[p].deleted \/ FALSE]
      BY <1>1, <2>3 DEF AddItem, Leads
    <3>2. w1[p].next = x /\ w1[p].deleted = (ws[p].deleted \/ FALSE)
      BY <3>1
    <3> QED  BY <1>1, <2>1, <2>3, <3>2
  <2> QED  BY <2>2, <2>3
<1>3. /\ w2[p].next = x /\ w2[d].next = (IF d \in D THEN ws[d].next ELSE NULL)
      /\ \A m \in D \ {p, d} : w2[m] = ws[m]
      /\ DOMAIN w2 = D \cup {p, d}
  BY <1>1, <1>2
<1>7. Items(t)' = D \cup {p, d}
  BY <1>3 DEF Items
<1>8. Cut(t)' = Cut(t) \cup C
  <2>1. Cut(t)' = {m \in DOMAIN w2 : w2[m].deleted}
    BY DEF Cut, Items
  <2>2. Cut(t) = {m \in DOMAIN ws : ws[m].deleted}
    BY DEF Cut, Items
  <2>3. {m \in DOMAIN w1 : w1[m].deleted} = {m \in DOMAIN ws : ws[m].deleted}
    BY <1>1, <1>2
  <2> QED  BY <1>1, <2>1, <2>2, <2>3
<1>9. ASSUME NEW n \in Allocated'
      PROVE  ViewNext(t, M)'[n] = IF n \in D \cup {p, d} /\ w2[n].next # NULL THEN w2[n].next ELSE M[n]
  BY <1>7 DEF ViewNext
<1>10. ViewNext(t, M)'[p] = x
  BY <1>1, <1>3, <1>9
<1>11. ASSUME NEW n \in Allocated' \ {p}
       PROVE  ViewNext(t, M)'[n] = IF n \in D /\ ws[n].next # NULL THEN ws[n].next ELSE M[n]
  <2>1. CASE n = d
    BY <1>3, <1>9, <2>1
  <2>2. CASE n # d
    BY <1>3, <1>9, <2>2
  <2> QED  BY <2>1, <2>2
<1>12. \A n \in Allocated : ViewNext(t, M)[n] = IF n \in D /\ ws[n].next # NULL THEN ws[n].next ELSE M[n]
  BY DEF ViewNext
<1>13. \A n \in Allocated \ {p} : ViewNext(t, M)'[n] = ViewNext(t, M)[n]
  BY <1>1, <1>11, <1>12
<1>14. \A n \in Allocated' \ (Allocated \cup {p}) :
         ViewNext(t, M)'[n] = IF n \in Items(t) /\ tx[t].writeSet[n].next # NULL
                              THEN tx[t].writeSet[n].next ELSE M[n]
  BY <1>11
<1> QED  BY <1>7, <1>8, <1>10, <1>13, <1>14 DEF Redirected

\* What remove does to the transaction.
LEMMA UnlinkSets ==
  ASSUME TypeInv, TypeInv', ChainInv, NEW t \in Threads, Unlink(t), NEW S, NEW N, Snapshot(t, S, N),
         NEW p, NEW d, NEW x, p = reg[t].pred, d = reg[t].node, x = reg[t].next
  PROVE  /\ p \in View(t, S) /\ d \in View(t, S) /\ p # d /\ d # HeadNode /\ p \in Allocated /\ d \in Allocated
         /\ ViewNext(t, N)[p] = d /\ ViewNext(t, N)[d] = x /\ x # NULL /\ heap[d].key = prog[t][1].key
         /\ p \in Elems(tx[t].readSet) /\ d \in Elems(tx[t].readSet)
         /\ Items(t)' = Items(t) \cup {p, d} /\ Cut(t)' = Cut(t) \cup {d} /\ Fresh(t)' = Fresh(t)
         /\ ViewNext(t, N)'[p] = x /\ \A n \in Allocated \ {p} : ViewNext(t, N)'[n] = ViewNext(t, N)[n]
         /\ tx'[t].readVersion = tx[t].readVersion /\ tx'[t].readSet = tx[t].readSet
         /\ \A e \in Elems(tx'[t].indexTodo) : e \in Elems(tx[t].indexTodo) \/ e.node = d
<1> PICK ws, w1, w2, e : /\ ws = tx[t].writeSet /\ w1 = Leads(ws, p, x) /\ w2 = Goes(w1, d)
                         /\ e = [node |-> d, op |-> "remove"]
  OBVIOUS
<1>1. pc[t] = "load" /\ ret[t] = "unlink" /\ todo[t] = {} /\ prog[t] # <<>> /\ heap' = heap
      /\ tx' = [tx EXCEPT ![t].writeSet = w2, ![t].indexTodo = Append(@, e)]
  BY DEF Unlink, Loaded, Leads, Goes, shared, TypeInv, Control
<1>2. /\ p \in View(t, S) /\ d \in View(t, S) /\ ViewNext(t, N)[p] = d /\ ViewNext(t, N)[d] = x
      /\ heap[d].key = prog[t][1].key
      /\ p \in Elems(tx[t].readSet) /\ d \in Elems(tx[t].readSet)
  BY <1>1 DEF Snapshot, Reading, At, HasLoaded
<1>3. ViewNext(t, N)[d] # NULL /\ p \in Allocated /\ d \in Allocated
  BY <1>2, FreshAllocated DEF Snapshot, Logged
<1>4. p # d /\ d # HeadNode
  <2>1. Sorted(View(t, S), ViewNext(t, N), KeyOf) /\ d # NULL
    BY <1>3, HeadAllocated DEF Snapshot, Chains
  <2> QED  BY <1>2, <2>1 DEF Sorted
<1>5. x \in Ref \ {NULL}
  BY <1>2, <1>3 DEF TypeInv, TypeOK, Registers
<1>6. tx'[t].writeSet = w2 /\ tx'[t].indexTodo = Append(tx[t].indexTodo, e)
      /\ tx'[t].readVersion = tx[t].readVersion /\ tx'[t].readSet = tx[t].readSet
  <2>1. t \in DOMAIN tx /\ tx[t] \in Transaction(Items(t))
    BY DEF TypeInv, TypeOK
  <2> QED  BY <1>1, <2>1 DEF Transaction
<1>7. DOMAIN w2 = DOMAIN w1 \cup {d} /\ (\A m \in DOMAIN w1 \ {d} : w2[m] = w1[m])
      /\ w2[d].next = (IF d \in DOMAIN w1 THEN w1[d].next ELSE NULL)
  BY SMTT(30) DEF Goes, AddItem
<1>8. PICK C : C = {d}
  OBVIOUS
<1>9. {m \in DOMAIN w2 : w2[m].deleted} = {m \in DOMAIN w1 : w1[m].deleted} \cup C
  <2>1. w2[d].deleted
    BY DEF Goes, AddItem
  <2> QED  BY <1>7, <1>8, <2>1
<1>10. Redirected(t, N, p, x, d, C)
  <2>1. Allocated' = Allocated
    BY <1>1 DEF Allocated
  <2>2. w2 = tx'[t].writeSet /\ w1 = Leads(tx[t].writeSet, p, x)
    BY <1>6
  <2>3. p # d /\ x \in Ref \ {NULL} /\ Allocated \subseteq Allocated' /\ p \in Allocated'
    BY <1>3, <1>4, <1>5, <2>1
  <2>4. Rewrites(t, p, x, d, C)
    BY <1>7, <1>9, <2>2, <2>3, Zenon DEF Rewrites
  <2> QED  BY <2>4, WrittenTwice
<1>11. /\ Items(t)' = Items(t) \cup {p, d} /\ Cut(t)' = Cut(t) \cup C
       /\ ViewNext(t, N)'[p] = x /\ \A n \in Allocated \ {p} : ViewNext(t, N)'[n] = ViewNext(t, N)[n]
  BY <1>10 DEF Redirected
<1>12. Elems(tx'[t].indexTodo) = Elems(tx[t].indexTodo) \cup {e} /\ e.op = "remove" /\ e.node = d
  <2>1. PICK E : E = [node : Allocated, op : OpTypes]
    OBVIOUS
  <2>2. e \in E /\ e.op = "remove" /\ e.node = d
    BY <1>3, <2>1 DEF OpTypes
  <2>3. tx[t].indexTodo \in Seq(E)
    BY <2>1 DEF TypeInv, Pointers
  <2>4. Elems(Append(tx[t].indexTodo, e)) = Elems(tx[t].indexTodo) \cup {e}
    BY <2>2, <2>3, AppendElems
  <2> QED  BY <1>6, <2>2, <2>4
<1>13. Fresh(t)' = Fresh(t)
  BY <1>12 DEF Fresh, Entry
<1> QED  BY <1>2, <1>3, <1>4, <1>6, <1>8, <1>10, <1>11, <1>12, <1>13

\* What t is told with TRUE of an insert or a remove.
LEMMA TellKeep ==
  ASSUME TypeInv, NEW t \in Threads, NEW S, Told(t, S), NEW o \in {"insert", "remove"}, NEW k \in Keys,
         trace'[t] = Append(trace[t], [op |-> o, key |-> k, ok |-> TRUE]),
         \A i \in Keys : /\ Has(S, i)' = Has(S, i)
                         /\ Has(View(t, S), i)' = Has(View(t, S), i) + (IF i # k THEN 0
                                                     ELSE IF o = "insert" THEN 1 ELSE -1)
  PROVE  Told(t, S)'
<1>1. ASSUME NEW op \in {"insert", "remove"}, NEW i \in Keys
      PROVE  /\ Times(trace[t], op, i) \in Nat
             /\ Times(trace'[t], op, i) = Times(trace[t], op, i) + (IF op = o /\ i = k THEN 1 ELSE 0)
  <2>1. trace[t] \in Seq(Answers)
    BY DEF TypeInv, TypeOK
  <2>2. PICK a : a = [op |-> o, key |-> k, ok |-> TRUE]
    OBVIOUS
  <2>3. (a = [op |-> op, key |-> i, ok |-> TRUE]) <=> (op = o /\ i = k)
    BY <2>2
  <2>4. Times(Append(trace[t], a), op, i)
          = Times(trace[t], op, i) + (IF a = [op |-> op, key |-> i, ok |-> TRUE] THEN 1 ELSE 0)
    BY <2>1, TimesAppend
  <2>5. Times(trace[t], op, i) \in Nat
    BY <2>1, TimesNat
  <2>6. Times(trace'[t], op, i) = Times(trace[t], op, i) + (IF op = o /\ i = k THEN 1 ELSE 0)
    BY <2>2, <2>3, <2>4
  <2> QED  BY <2>5, <2>6
<1>2. \A i \in Keys : Has(View(t, S), i) \in Int /\ Has(S, i) \in Int
  BY DEF Has
<1>3. ASSUME NEW i \in Keys
      PROVE Has(View(t, S), i)' = Has(S, i)' + Times(trace'[t], "insert", i) - Times(trace'[t], "remove", i)
  <2>1. PICK a, b, c, d : /\ a = Times(trace[t], "insert", i) /\ b = Times(trace[t], "remove", i)
                          /\ c = Times(trace'[t], "insert", i) /\ d = Times(trace'[t], "remove", i)
    OBVIOUS
  <2>2. /\ a \in Nat /\ b \in Nat /\ c = a + (IF "insert" = o /\ i = k THEN 1 ELSE 0)
        /\ d = b + (IF "remove" = o /\ i = k THEN 1 ELSE 0)
    BY <1>1, <2>1
  <2>3. Has(View(t, S), i) = Has(S, i) + a - b
    BY <2>1 DEF Told
  <2>4. PICK v, w, s : v = Has(View(t, S), i) /\ w = Has(View(t, S), i)' /\ s = Has(S, i)
    OBVIOUS
  <2>5. v \in Int /\ s \in Int /\ v = s + a - b /\ Has(S, i)' = s
        /\ w = v + (IF i # k THEN 0 ELSE IF o = "insert" THEN 1 ELSE -1)
    BY <1>2, <2>3, <2>4
  <2>6. w = s + c - d
    BY <2>2, <2>5
  <2> QED  BY <2>1, <2>4, <2>5, <2>6
<1> QED  BY <1>3 DEF Told

\* A node of V is the only one with its key.
LEMMA HasOne ==
  ASSUME NEW V, NEW N, Sorted(V, N, KeyOf), V \subseteq Allocated, NEW d \in V, d # HeadNode
  PROVE  /\ Has(V, heap[d].key) = 1 /\ Has(V \ {d}, heap[d].key) = 0
         /\ \A i : i # heap[d].key => Has(V \ {d}, i) = Has(V, i)
<1>1. \A n \in V : KeyOf[n] = heap[n].key
  BY DEF KeyOf
<1>2. \A n \in V : heap[n].key = heap[d].key => n = d
  BY <1>1 DEF Sorted
<1> QED  BY <1>2 DEF Has

LEMMA UnlinkKeep ==
  ASSUME TypeInv, TypeInv', ChainInv, NEW t \in Threads, Alone(t), Unlink(t)
  PROVE  ChainInv'
<1> PICK p, d, x : p = reg[t].pred /\ d = reg[t].node /\ x = reg[t].next
  OBVIOUS
<1>1. /\ pc[t] = "load" /\ ret[t] = "unlink" /\ InTx(t) /\ ~Validates(t) /\ TxInv(t) /\ prog[t] # <<>>
      /\ heap' = heap /\ \E ok \in BOOLEAN : ok /\ Return(t, ok)
  BY DEF Unlink, Loaded, InTx, Validates, ChainInv, shared, TypeInv, Control
<1>2. PICK ok \in BOOLEAN : ok /\ Return(t, ok)
  BY <1>1
<1>3. /\ pc'[t] = "ready" /\ InTx(t)' /\ Checked(t)'
      /\ \A i \in DOMAIN prog'[t] : prog'[t][i] \in Called
      /\ trace'[t] = Append(trace[t], [op |-> prog[t][1].op, key |-> prog[t][1].key, ok |-> ok])
      /\ snap'[t] = snap[t]
  BY <1>1, <1>2, ReturnSets
<1>4. Step(t) /\ ~AddAndFetch(t) /\ ~Store(t)
  BY <1>3, NoWriteBack DEF Step
<1>5. PICK S, N : Snapshot(t, S, N)
  BY <1>1 DEF TxInv
<1>6. /\ p \in View(t, S) /\ d \in View(t, S) /\ p # d /\ d # HeadNode /\ p \in Allocated /\ d \in Allocated
      /\ ViewNext(t, N)[p] = d /\ ViewNext(t, N)[d] = x /\ x # NULL /\ heap[d].key = prog[t][1].key
      /\ p \in Elems(tx[t].readSet) /\ d \in Elems(tx[t].readSet)
      /\ Items(t)' = Items(t) \cup {p, d} /\ Cut(t)' = Cut(t) \cup {d} /\ Fresh(t)' = Fresh(t)
      /\ ViewNext(t, N)'[p] = x /\ \A n \in Allocated \ {p} : ViewNext(t, N)'[n] = ViewNext(t, N)[n]
      /\ tx'[t].readVersion = tx[t].readVersion /\ tx'[t].readSet = tx[t].readSet
      /\ \A e \in Elems(tx'[t].indexTodo) : e \in Elems(tx[t].indexTodo) \/ e.node = d
  BY <1>5, UnlinkSets
<1>7. Still(t) /\ Newer(t)'
  BY <1>4, <1>6, OwnParts
<1>8. View(t, S)' = View(t, S) \ {d} /\ Allocated' = Allocated /\ KeyOf' = KeyOf
  BY <1>1, <1>6 DEF View, Allocated, KeyOf
<1>9. View(t, S) \subseteq Allocated /\ S \subseteq Allocated /\ d # NULL
  BY <1>5, <1>6, FreshAllocated, HeadAllocated DEF Snapshot, Chains, View
<1>10. prog[t][1] \in Called /\ prog[t][1] \in Calls
  <2>1. 1 \in DOMAIN prog[t] /\ prog[t][1] \in Calls
    BY <1>1 DEF TypeInv, TypeOK
  <2> QED  BY <1>1, <2>1 DEF TxInv
<1>11. Chains(t, S, N)'
  <2>1. Sorted(S, N, KeyOf)' /\ Above(S)'
    BY <1>1, <1>5, <1>8 DEF Snapshot, Chains, Above
  <2>2. PICK V, M, W, Q : V = View(t, S) /\ M = ViewNext(t, N) /\ W = View(t, S)' /\ Q = ViewNext(t, N)'
    OBVIOUS
  <2>3. Sorted(V, M, KeyOf) /\ W = V \ {d} /\ p \in V /\ M[p] = d /\ Q[p] = M[d] /\ \A n \in W \ {p} : Q[n] = M[n]
    BY <1>5, <1>6, <1>8, <1>9, <2>2 DEF Snapshot, Chains
  <2>4. Sorted(W, Q, KeyOf)
    BY <1>9, <2>3, CutSorted
  <2> QED  BY <1>5, <1>6, <1>8, <1>9, <2>1, <2>2, <2>4 DEF Snapshot, Chains
<1>12. Logged(t, S, N)'
  <2>1. Elems(tx[t].readSet) \subseteq Allocated /\ Logged(t, S, N)
    BY <1>5, FreshAllocated DEF Snapshot
  <2>2. \A n \in Elems(tx[t].readSet) : ViewNext(t, N)'[n] # NULL
    BY <1>6, <2>1 DEF Logged
  <2>3. \A n \in Cut(t)' : \E c \in Called : c.key = heap[n].key
    BY <1>6, <1>10, <2>1 DEF Logged
  <2> QED  BY <1>1, <1>6, <2>1, <2>2, <2>3 DEF Logged
<1>13. Agrees(t, S, N)'
  BY <1>5, <1>6, <1>7, <1>9, AgreesKeep DEF Snapshot
<1>14. Told(t, S)'
  <2>1. PICK o, k : o = prog[t][1].op /\ k = prog[t][1].key
    OBVIOUS
  <2>2. o = "remove" /\ k \in Keys /\ k = heap[d].key
    <3>1. o = "remove"
      BY <1>1, <1>5, <2>1 DEF Snapshot, Reading, At
    <3> QED  BY <1>6, <1>10, <2>1, <3>1 DEF Calls
  <2>3. \A i : Has(S, i)' = Has(S, i) /\ Has(View(t, S), i)' = Has(View(t, S) \ {d}, i)
    BY <1>1, <1>8 DEF Has
  <2>4. Has(View(t, S), k) = 1 /\ Has(View(t, S) \ {d}, k) = 0
        /\ \A i : i # k => Has(View(t, S) \ {d}, i) = Has(View(t, S), i)
    <3>1. PICK V, M : V = View(t, S) /\ M = ViewNext(t, N)
      OBVIOUS
    <3>2. Sorted(V, M, KeyOf) /\ V \subseteq Allocated /\ d \in V /\ d # HeadNode
      BY <1>5, <1>6, <1>9, <3>1 DEF Snapshot, Chains
    <3>3. /\ Has(V, heap[d].key) = 1 /\ Has(V \ {d}, heap[d].key) = 0
          /\ \A i : i # heap[d].key => Has(V \ {d}, i) = Has(V, i)
      BY <3>2, HasOne
    <3> QED  BY <2>2, <3>1, <3>3
  <2>5. \A i \in Keys : Has(View(t, S), i) \in Int
    BY DEF Has
  <2>6. \A i \in Keys : /\ Has(S, i)' = Has(S, i)
                        /\ Has(View(t, S), i)' = Has(View(t, S), i) + (IF i # k THEN 0
                                                     ELSE IF o = "insert" THEN 1 ELSE -1)
    BY <2>2, <2>3, <2>4, <2>5
  <2>7. trace'[t] = Append(trace[t], [op |-> o, key |-> k, ok |-> TRUE])
    BY <1>2, <1>3, <2>1
  <2>8. Told(t, S)
    BY <1>5 DEF Snapshot
  <2> QED  BY <2>2, <2>6, <2>7, <2>8, TellKeep
<1>15. Answered(t, S, N)'
  <2> PICK c, a, V : c = prog[t][1] /\ a = [op |-> c.op, key |-> c.key, ok |-> ok] /\ V = View(t, S)
    OBVIOUS
  <2>1. c.op = "remove" /\ c \in Called /\ c \in Calls /\ heap[d].key = c.key
    BY <1>1, <1>5, <1>6, <1>10 DEF Snapshot, Reading, At
  <2>2. a.op = "remove" /\ a.key = c.key /\ a.ok /\ a \in Answers
    BY <1>2, <2>1 DEF Calls, Answers
  <2>3. /\ Sorted(V, ViewNext(t, N), KeyOf) /\ d \in V /\ p \in V /\ V \subseteq Allocated /\ View(t, S)' = V \ {d}
        /\ \A n \in V : KeyOf[n] = heap[n].key
    BY <1>5, <1>6, <1>8, <1>9 DEF Snapshot, Chains, KeyOf
  <2>4. \A n \in V : heap[n].key = c.key => n = d
    BY <2>1, <2>3 DEF Sorted
  <2>5. heap[p].key < c.key
    BY <1>6, <1>9, <2>1, <2>3 DEF Sorted
  <2>6. c.key \in Held(V)
    BY <1>6, <2>1, <2>3 DEF Held
  <2>7. ASSUME NEW i PROVE i \in Held(View(t, S))' <=> i # c.key /\ i \in Held(V)
    <3>1. i \in Held(View(t, S))' <=> \E n \in V \ {d} : n # HeadNode /\ heap[n].key = i
      BY <1>1, <2>3 DEF Held
    <3>2. i \in Held(V) <=> \E n \in V : n # HeadNode /\ heap[n].key = i
      BY DEF Held
    <3> QED  BY <2>1, <2>4, <3>1, <3>2
  <2>8. Spanned(S, N, KeyOf, Elems(tx'[t].readSet), a.key)
    <3>1. PICK Q : Q = Elems(tx[t].readSet)
      OBVIOUS
    <3>2. c.key \in Int
      BY <2>1, KeysAssumption DEF Calls
    <3>3. ViewNext(t, N)[p] # NULL /\ c.key <= heap[ViewNext(t, N)[p]].key
      BY <1>6, <1>9, <2>1, <3>2
    <3>4. p \in Q /\ Elems(tx[t].readSet) \subseteq Q
      BY <1>6, <3>1
    <3>5. Spanned(S, N, KeyOf, Q, c.key)
      BY <1>5, <1>6, <2>1, <2>5, <3>3, <3>4, CallCovered
    <3> QED  BY <1>6, <2>2, <3>1, <3>5
  <2>9. \A i \in Keys : i \in Held(View(t, S))'
                         <=> IF a.ok /\ a.key = i /\ a.op # "contains" THEN a.op = "insert"
                             ELSE i \in Held(View(t, S))
    BY <2>2, <2>7
  <2>10. Answering(t, S, N, N, a)
    BY <1>1, <1>3, <1>6, <1>8, <1>2, <2>2, <2>6, <2>8, <2>9 DEF Answering
  <2> QED  BY <1>5, <2>10, AnswerKeep DEF Snapshot
<1>16. Snapshot(t, S, N)'
  BY <1>3, <1>11, <1>12, <1>13, <1>14, <1>15 DEF Snapshot, Reading
<1>17. TxInv(t)'
  BY <1>3, <1>7, <1>16 DEF TxInv, InTx
<1> QED  BY <1>4, <1>17, AsideKeep

-----------------------------------------------------------------------------
\* What insert does to the heap and to the transaction.
Inserts(t, p, s, e, k) ==
    /\ Allocated' = Allocated \cup {e} /\ e \notin Allocated /\ e \in Nodes
    /\ \A n \in Allocated : heap'[n] = heap[n]
    /\ heap'[e].key = k /\ heap'[e].next = s /\ ~heap'[e].deleted /\ heap'[e].version = tx[t].readVersion
    /\ Elems(tx'[t].readSet) = Elems(tx[t].readSet) \cup {p} /\ tx'[t].readVersion = tx[t].readVersion
    /\ Fresh(t)' = Fresh(t) \cup {e} /\ \A i \in Elems(tx'[t].indexTodo) : i \in Elems(tx[t].indexTodo) \/ i.node = e

LEMMA InsertSets ==
  ASSUME TypeInv, NEW t \in Threads, Insert(t), NEW p \in Allocated, NEW s, NEW k, NEW e,
         p = reg[t].node, s = Succ(t), k = prog[t][1].key, e = Len(heap) + 1
  PROVE  /\ Inserts(t, p, s, e, k) /\ prog[t][1].op = "insert" /\ InWalk(t) /\ ~More(t) /\ ~Present(t)
         /\ \E ok \in BOOLEAN : ok /\ Return(t, ok)
         /\ Rewrites(t, p, e, e, {})
<1> PICK ws, w1, w2, rs, i : /\ ws = tx[t].writeSet /\ w1 = Leads(ws, p, e) /\ w2 = Joins(w1, e)
                             /\ rs = tx[t].readSet /\ i = [node |-> e, op |-> "insert"]
  OBVIOUS
<1> PICK a : a = NewNode(t)
  OBVIOUS
<1>1. /\ heap' = Append(heap, a) /\ Len(heap) < MaxNodes
      /\ tx' = [tx EXCEPT ![t].readSet = Append(rs, p), ![t].writeSet = w2, ![t].indexTodo = Append(@, i)]
  BY DEF Insert, Allocate, Leads, Joins, Read
<1>2. prog[t][1].op = "insert" /\ InWalk(t) /\ ~More(t) /\ ~Present(t) /\ \E ok \in BOOLEAN : ok /\ Return(t, ok)
  BY DEF Insert, Arrived
<1>3. Allocated = 1..Len(heap) /\ Len(heap) \in Nat /\ heap \in Seq(Node)
  BY HeadAllocated DEF TypeInv, TypeOK
<1>4. /\ Allocated' = Allocated \cup {e} /\ e \notin Allocated /\ e \in Nodes
      /\ (\A n \in Allocated : heap'[n] = heap[n]) /\ heap'[e] = a
  <2>1. PICK L \in Nat : L = Len(heap)
    BY <1>3
  <2>2. /\ DOMAIN heap = 1..L /\ DOMAIN heap' = 1..(L + 1) /\ heap'[L + 1] = a
        /\ \A n \in 1..L : heap'[n] = heap[n]
    BY <1>1, <1>3, <2>1
  <2>3. L + 1 \in Nodes
    BY <1>1, <2>1, BoundsAssumption DEF Nodes
  <2> QED  BY <2>1, <2>2, <2>3 DEF Allocated
<1>5. a.key = k /\ a.next = s /\ ~a.deleted /\ a.version = tx[t].readVersion
  BY DEF NewNode
<1>6. /\ tx'[t].writeSet = w2 /\ tx'[t].indexTodo = Append(tx[t].indexTodo, i)
      /\ tx'[t].readVersion = tx[t].readVersion /\ tx'[t].readSet = Append(rs, p)
  <2>1. t \in DOMAIN tx /\ tx[t] \in Transaction(Items(t))
    BY DEF TypeInv, TypeOK
  <2> QED  BY <1>1, <2>1 DEF Transaction
<1>7. Elems(tx'[t].readSet) = Elems(tx[t].readSet) \cup {p}
  BY <1>6, AppendElems DEF TypeInv, Pointers
<1>8. Elems(tx'[t].indexTodo) = Elems(tx[t].indexTodo) \cup {i} /\ i.op = "insert" /\ i.node = e
  <2>1. PICK E : E = [node : Nodes, op : OpTypes]
    OBVIOUS
  <2>2. i \in E /\ i.op = "insert" /\ i.node = e
    BY <1>4, <2>1 DEF OpTypes
  <2>3. tx[t].indexTodo \in Seq(E)
    BY <2>1 DEF TypeInv, TypeOK, Transaction, IndexOperation
  <2>4. Elems(Append(tx[t].indexTodo, i)) = Elems(tx[t].indexTodo) \cup {i}
    BY <2>2, <2>3, AppendElems
  <2> QED  BY <1>6, <2>2, <2>4
<1>9. Fresh(t)' = Fresh(t) \cup {e}
  BY <1>8 DEF Fresh, Entry
<1>10. Inserts(t, p, s, e, k)
  BY <1>4, <1>5, <1>6, <1>7, <1>8, <1>9 DEF Inserts
<1>11. DOMAIN ws \subseteq Allocated
  BY FreshAllocated, SMTT(30) DEF Items
<1>12. DOMAIN w1 = DOMAIN ws \cup {p}
  BY DEF Leads, AddItem
<1>13. e \notin DOMAIN w1 /\ p # e
  BY <1>4, <1>11, <1>12
<1>14. DOMAIN w2 = DOMAIN w1 \cup {e} /\ (\A m \in DOMAIN w1 : w2[m] = w1[m]) /\ w2[e] = [next |-> NULL, deleted |-> FALSE]
  BY <1>13 DEF Joins, AddItem
<1>15. {m \in DOMAIN w2 : w2[m].deleted} = {m \in DOMAIN w1 : w1[m].deleted}
  <2>1. w2[e].next = NULL /\ ~w2[e].deleted
    BY <1>14, SMTT(30)
  <2> QED  BY <1>14, <2>1
<1>16. Rewrites(t, p, e, e, {})
  <2>1. e \in Ref \ {NULL}
    BY <1>4 DEF Nodes, NULL, Ref
  <2>2. w2[e].next = NULL
    BY <1>14
  <2> QED  BY <1>4, <1>6, <1>13, <1>14, <1>15, <2>1, <2>2 DEF Rewrites
<1> QED  BY <1>2, <1>10, <1>16

LEMMA InsertKeep ==
  ASSUME TypeInv, TypeInv', ChainInv, NEW t \in Threads, Alone(t), Insert(t)
  PROVE  ChainInv'
<1> PICK p, s, k, e : p = reg[t].node /\ s = Succ(t) /\ k = prog[t][1].key /\ e = Len(heap) + 1
  OBVIOUS
<1>1. InWalk(t) /\ pc[t] = "load" /\ InTx(t) /\ ~Validates(t) /\ TxInv(t)
  BY DEF Insert, Arrived, InWalk, Loaded, InTx, Validates, ChainInv
<1>2. PICK S, N : Snapshot(t, S, N)
  BY <1>1 DEF TxInv
<1>3. /\ p \in View(t, S) /\ p \in Allocated /\ p \in S \cup Fresh(t) /\ p \notin Cut(t)
      /\ heap[p].key < k /\ s = ViewNext(t, N)[p] /\ s # NULL /\ s \in View(t, S) /\ s \in Allocated
      /\ heap[p].key < heap[s].key /\ prog[t] # <<>> /\ heap[p].key \in Int
      /\ heap[s].key \in Int /\ k \in Int /\ k \in Keys /\ k > MIN_VAL
  BY <1>1, <1>2, WalkAt
<1>4. Inserts(t, p, s, e, k) /\ prog[t][1].op = "insert" /\ ~More(t) /\ ~Present(t)
      /\ (\E ok \in BOOLEAN : ok /\ Return(t, ok)) /\ Rewrites(t, p, e, e, {})
  BY <1>3, InsertSets
<1>5. PICK ok \in BOOLEAN : ok /\ Return(t, ok)
  BY <1>4
<1>6. /\ pc'[t] = "ready" /\ InTx(t)' /\ Checked(t)'
      /\ \A i \in DOMAIN prog'[t] : prog'[t][i] \in Called
      /\ trace'[t] = Append(trace[t], [op |-> prog[t][1].op, key |-> prog[t][1].key, ok |-> ok])
      /\ snap'[t] = snap[t]
  BY <1>1, <1>3, <1>5, ReturnSets
<1>7. Step(t) /\ ~AddAndFetch(t) /\ ~Store(t)
  BY <1>6, NoWriteBack DEF Step
<1>8. /\ Allocated' = Allocated \cup {e} /\ e \notin Allocated /\ e \in Nodes
      /\ \A n \in Allocated : heap'[n] = heap[n]
      /\ heap'[e].key = k /\ heap'[e].next = s /\ ~heap'[e].deleted /\ heap'[e].version = tx[t].readVersion
      /\ Elems(tx'[t].readSet) = Elems(tx[t].readSet) \cup {p} /\ tx'[t].readVersion = tx[t].readVersion
      /\ Fresh(t)' = Fresh(t) \cup {e}
      /\ \A i \in Elems(tx'[t].indexTodo) : i \in Elems(tx[t].indexTodo) \/ i.node = e
  BY <1>4 DEF Inserts
<1>9. Still(t) /\ Newer(t)'
  BY <1>7, <1>8, OwnParts
<1>10. PICK M : M = [n \in Allocated' |-> IF n = e THEN s ELSE N[n]]
  OBVIOUS
<1>11. M[e] = s /\ (\A n \in Allocated : M[n] = N[n] /\ n # e) /\ e # NULL /\ p # e
  BY <1>3, <1>8, <1>10 DEF Nodes, NULL
<1>12. Items(t) \subseteq Allocated /\ Fresh(t) \subseteq Allocated /\ Elems(tx[t].readSet) \subseteq Allocated
       /\ Cut(t) \subseteq Allocated /\ S \subseteq Allocated /\ View(t, S) \subseteq Allocated
  BY <1>2, FreshAllocated DEF Snapshot, Chains, View, Cut
<1>13. /\ Items(t)' = Items(t) \cup {p, e} /\ Cut(t)' = Cut(t)
       /\ ViewNext(t, M)'[p] = e /\ ViewNext(t, M)'[e] = s
       /\ \A n \in Allocated \ {p} : ViewNext(t, M)'[n] = ViewNext(t, N)[n]
  <2>1. Redirected(t, M, p, e, e, {})
    BY <1>4, WrittenTwice
  <2>2. \A n \in Allocated : ViewNext(t, M)[n] = ViewNext(t, N)[n]
    BY <1>11 DEF ViewNext
  <2>3. e \in Allocated' \ (Allocated \cup {p}) /\ e \notin Items(t)
    BY <1>8, <1>11, <1>12
  <2> QED  BY <1>11, <2>1, <2>2, <2>3 DEF Redirected
<1>14. View(t, S)' = View(t, S) \cup {e} /\ e \notin View(t, S) /\ e \notin S
  BY <1>8, <1>12, <1>13 DEF View
<1>15. \A n \in Allocated : KeyOf'[n] = KeyOf[n] /\ KeyOf[n] = heap[n].key /\ heap'[n].key = heap[n].key /\ n \in Allocated'
  BY <1>8 DEF KeyOf
<1>16. KeyOf'[e] = k /\ k < heap[s].key /\ \A n \in View(t, S) : heap[n].key # k
  <2>1. /\ k <= heap[s].key /\ heap[s].key # k
        /\ \A n \in View(t, S) : heap[n].key = k => n = s
    BY <1>1, <1>2, <1>4, Arrives
  <2> QED  BY <1>3, <1>8, <2>1 DEF KeyOf
<1>17. Chains(t, S, M)'
  <2>1. Sorted(S, M, KeyOf)'
    <3>1. Sorted(S, N, KeyOf) /\ \A n \in S : M[n] = N[n] /\ KeyOf'[n] = KeyOf[n]
      BY <1>2, <1>11, <1>12, <1>15 DEF Snapshot, Chains
    <3> QED  BY <3>1, SortedSame
  <2>2. Above(S)'
    BY <1>2, <1>12, <1>15 DEF Snapshot, Chains, Above
  <2>3. PICK V, P, W, Q, K, J : /\ V = View(t, S) /\ P = ViewNext(t, N) /\ K = KeyOf
                                /\ W = View(t, S)' /\ Q = ViewNext(t, M)' /\ J = KeyOf'
    OBVIOUS
  <2>4. Sorted(V, P, K) /\ W = V \cup {e} /\ Links(V, P, K, p, e, Q, J)
    <3>1. Sorted(V, P, K) /\ V \subseteq Allocated /\ p \in V /\ p \in Allocated /\ W = V \cup {e} /\ e \notin V
      BY <1>2, <1>3, <1>12, <1>14, <2>3 DEF Snapshot, Chains
    <3>2. \A n \in Allocated : J[n] = K[n] /\ K[n] = heap[n].key
      BY <1>15, <2>3
    <3>3. P[p] = s /\ s \in Allocated /\ J[e] = k /\ J[e] \in Int /\ J[e] < K[P[p]] /\ J[p] < J[e]
      BY <1>3, <1>16, <2>3, <3>2
    <3>4. Q[p] = e /\ Q[e] = P[p] /\ \A n \in V \ {p} : Q[n] = P[n]
      BY <1>13, <2>3, <3>1, <3>3
    <3> QED  BY <1>11, <3>1, <3>2, <3>3, <3>4 DEF Links
  <2>5. Sorted(W, Q, J)
    BY <2>4, LinkSorted
  <2>6. (S \subseteq Allocated)' /\ (S \cap Fresh(t) = {})'
    BY <1>2, <1>8, <1>12 DEF Snapshot, Chains
  <2> QED  BY <2>1, <2>2, <2>3, <2>5, <2>6 DEF Chains
<1>18. Logged(t, S, M)'
  <2>1. Logged(t, S, N)
    BY <1>2 DEF Snapshot
  <2>2. \A n \in Elems(tx'[t].readSet) : ViewNext(t, M)'[n] # NULL
    BY <1>3, <1>8, <1>11, <1>12, <1>13, <2>1 DEF Logged
  <2>3. \A n \in Cut(t)' : \E c \in Called : c.key = heap'[n].key
    BY <1>12, <1>13, <1>15, <2>1 DEF Logged
  <2>4. \A i \in Elems(tx'[t].indexTodo) : i.node \in Items(t)'
    BY <1>8, <1>13, <2>1 DEF Logged
  <2> QED  BY <1>3, <1>8, <1>13, <2>1, <2>2, <2>3, <2>4 DEF Logged
<1>19. Agrees(t, S, M)'
  <2>1. Quiet'
    BY <1>7, AsideQuiet
  <2>2. ~Changed(t, e)' /\ ~DeletedToBe(e)' /\ NextToBe(e)' = s
    <3>1. tx[t].readVersion \in Nat
      BY DEF TypeInv, TypeOK, Transaction
    <3>2. NextToBe(e)' = heap'[e].next /\ (Changed(t, e)' <=> heap'[e].version > tx'[t].readVersion)
      BY <2>1, QuietNext
    <3>3. DeletedToBe(e)' = heap'[e].deleted
      BY <1>8, <2>1, QuietDeletedNext
    <3> QED  BY <1>8, <3>1, <3>2, <3>3
  <2>3. ASSUME NEW n \in Allocated', ~Changed(t, n)'
        PROVE  (n \in S <=> n \in Chained') /\ (n \in S => M[n] = NextToBe(n)')
    <3>1. CASE n \in Allocated
      BY <1>2, <1>9, <1>11, <2>3, <3>1 DEF Still, Snapshot, Agrees
    <3>2. CASE n \notin Allocated
      BY <1>9, <1>12, <3>2 DEF Still
    <3> QED  BY <3>1, <3>2
  <2>4. ASSUME NEW n \in Fresh(t)' PROVE ~Changed(t, n)' /\ ~DeletedToBe(n)' /\ M[n] = NextToBe(n)'
    <3>1. CASE n = e
      BY <1>11, <2>2, <3>1
    <3>2. CASE n \in Fresh(t)
      BY <1>2, <1>9, <1>11, <1>12, <3>2 DEF Still, Snapshot, Agrees
    <3> QED  BY <1>8, <2>4, <3>1, <3>2
  <2> QED  BY <2>3, <2>4 DEF Agrees
<1>20. Told(t, S)'
  <2>1. PICK o : o = prog[t][1].op
    OBVIOUS
  <2>2. \A i : Has(S, i)' = Has(S, i)
    BY <1>12, <1>15 DEF Has
  <2>3. Has(View(t, S), k) = 0 /\ Has(View(t, S), k)' = 1
    <3>1. e # HeadNode
      BY <1>8, HeadAllocated
    <3> QED  BY <1>8, <1>14, <1>16, <3>1 DEF Has
  <2>4. \A i : i # k => Has(View(t, S), i)' = Has(View(t, S), i)
    BY <1>8, <1>12, <1>14, <1>15 DEF Has
  <2>5. \A i \in Keys : Has(View(t, S), i) \in Int
    BY DEF Has
  <2>6. \A i \in Keys : /\ Has(S, i)' = Has(S, i)
                        /\ Has(View(t, S), i)' = Has(View(t, S), i) + (IF i # k THEN 0
                                                     ELSE IF o = "insert" THEN 1 ELSE -1)
    BY <1>4, <2>1, <2>2, <2>3, <2>4, <2>5
  <2>7. trace'[t] = Append(trace[t], [op |-> o, key |-> k, ok |-> TRUE]) /\ o \in {"insert", "remove"}
    BY <1>4, <1>5, <1>6, <2>1
  <2>8. Told(t, S)
    BY <1>2 DEF Snapshot
  <2> QED  BY <1>3, <2>6, <2>7, <2>8, TellKeep
<1>21. Answered(t, S, M)'
  <2> PICK c, a, V : c = prog[t][1] /\ a = [op |-> c.op, key |-> c.key, ok |-> ok] /\ V = View(t, S)
    OBVIOUS
  <2>1. c.op = "insert" /\ c.key = k /\ c \in Called /\ c \in Calls
    BY <1>1, <1>2, <1>4, WalkAt
  <2>2. a.op = "insert" /\ a.key = k /\ a.ok /\ a \in Answers
    BY <1>5, <2>1 DEF Calls, Answers
  <2>3. k \notin Held(V)
    BY <1>16 DEF Held
  <2>4. ASSUME NEW i PROVE i \in Held(View(t, S))' <=> i = k \/ i \in Held(V)
    <3>1. e # HeadNode
      BY <1>8, HeadAllocated
    <3>2. i \in Held(View(t, S))' <=> \E n \in V \cup {e} : n # HeadNode /\ heap'[n].key = i
      BY <1>14 DEF Held
    <3>3. i \in Held(V) <=> \E n \in V : n # HeadNode /\ heap[n].key = i
      BY DEF Held
    <3>4. heap'[e].key = k /\ \A n \in V : heap'[n].key = heap[n].key
      BY <1>8, <1>12, <1>15
    <3> QED  BY <3>1, <3>2, <3>3, <3>4
  <2>5. Spanned(S, N, KeyOf, Elems(tx'[t].readSet), a.key)
    <3>1. PICK Q : Q = Elems(tx'[t].readSet)
      OBVIOUS
    <3>2. ViewNext(t, N)[p] # NULL /\ c.key <= heap[ViewNext(t, N)[p]].key /\ heap[p].key < c.key
      BY <1>3, <1>16, <2>1
    <3>3. p \in Q /\ Elems(tx[t].readSet) \subseteq Q
      BY <1>8, <3>1
    <3>4. Spanned(S, N, KeyOf, Q, c.key)
      BY <1>2, <1>3, <2>1, <3>2, <3>3, CallCovered
    <3> QED  BY <2>1, <2>2, <3>1, <3>4
  <2>6. \A i \in Keys : i \in Held(View(t, S))'
                         <=> IF a.ok /\ a.key = i /\ a.op # "contains" THEN a.op = "insert"
                             ELSE i \in Held(View(t, S))
    BY <2>2, <2>4
  <2>7. trace'[t] = Append(trace[t], a)
    BY <1>6
  <2>8. (\A n \in S : M[n] = N[n]) /\ \A n \in Fresh(t)' : n \in Fresh(t) \/ heap'[n].key = a.key
    BY <1>8, <1>11, <1>12, <2>2
  <2>9. Allocated \subseteq Allocated' /\ (\A n \in Allocated : heap'[n].key = heap[n].key)
        /\ Elems(tx[t].readSet) \subseteq Elems(tx'[t].readSet)
    BY <1>8
  <2>10. Answering(t, S, N, M, a)
    BY <1>6, <2>2, <2>3, <2>5, <2>6, <2>7, <2>8, <2>9 DEF Answering
  <2> QED  BY <1>2, <2>10, AnswerKeep DEF Snapshot
<1>22. Snapshot(t, S, M)'
  BY <1>6, <1>17, <1>18, <1>19, <1>20, <1>21 DEF Snapshot, Reading
<1>23. TxInv(t)'
  BY <1>6, <1>9, <1>22 DEF TxInv, InTx
<1> QED  BY <1>7, <1>23, AsideKeep

-----------------------------------------------------------------------------
\* addAndFetch: from here on the write set of t is what the list will be.
Fetches(t) ==
    /\ Quiet /\ InTx(t) /\ heap' = heap /\ index' = index /\ prog' = prog
    /\ pc'[t] = "publish" /\ trace'[t] = <<>> /\ \A u \in Threads \ {t} : SameLocals(u)
    /\ \A u \in Threads : tx'[u].readVersion = tx[u].readVersion
    /\ tx'[t].indexTodo = tx[t].indexTodo /\ tx'[t].writeVersion = gvc + 1
    /\ \A n \in Allocated :
         /\ NextToBe(n)' = IF n \in Items(t) /\ tx[t].writeSet[n].next # NULL
                           THEN tx[t].writeSet[n].next ELSE heap[n].next
         /\ DeletedToBe(n)' <=> heap[n].deleted \/ n \in Cut(t)
         /\ \A u \in Threads : Changed(u, n)' <=> heap[n].version > tx[u].readVersion \/ n \in Items(t)

LEMMA StoresAre ==
  ASSUME NEW ws, NEW n
  PROVE  /\ <<n, "next">> \in Stores(ws) <=> n \in DOMAIN ws /\ ws[n].next # NULL
         /\ <<n, "deleted">> \in Stores(ws) <=> n \in {m \in DOMAIN ws : ws[m].deleted}
         /\ <<n, "version">> \in Stores(ws) <=> n \in DOMAIN ws
BY DEF Stores

LEMMA FetchSets ==
  ASSUME TypeInv, NEW t \in Threads, Alone(t), AddAndFetch(t) PROVE Fetches(t)
<1> PICK ws : ws = tx[t].writeSet
  OBVIOUS
<1>1. /\ pc[t] \in {"lock", "load"} /\ heap' = heap /\ index' = index /\ prog' = prog
      /\ tx' = [tx EXCEPT ![t].writeVersion = gvc + 1] /\ todo' = [todo EXCEPT ![t] = Stores(ws)]
      /\ pc'[t] = "publish" /\ trace'[t] = <<>>
  BY DEF AddAndFetch, Validating, Loaded, TypeInv, TypeOK
<1>2. Step(t)
  BY DEF Step
<1>3. \A u \in Threads \ {t} : SameLocals(u)
  BY <1>2, OthersSame
<1>4. t \in DOMAIN tx /\ tx[t] \in Transaction(Items(t)) /\ t \in DOMAIN todo
  BY DEF TypeInv, TypeOK
<1>5. /\ tx'[t].writeSet = ws /\ tx'[t].readVersion = tx[t].readVersion /\ tx'[t].indexTodo = tx[t].indexTodo
      /\ tx'[t].writeVersion = gvc + 1 /\ todo'[t] = Stores(ws)
  BY <1>1, <1>4 DEF Transaction
<1>6. Quiet /\ \A u \in Threads \ {t} : pc'[u] = "publish" => todo'[u] = {}
  BY <1>1, <1>3 DEF Alone, Committing, Quiet, SameLocals
<1>7. \A u \in Threads : tx'[u].readVersion = tx[u].readVersion
  BY <1>3, <1>5 DEF SameLocals
<1>8. ASSUME NEW n \in Allocated
      PROVE  NextToBe(n)' = IF n \in Items(t) /\ ws[n].next # NULL THEN ws[n].next ELSE heap[n].next
  <2>1. PICK w : w = {u \in Threads : pc'[u] = "publish" /\ <<n, "next">> \in todo'[u]}
    OBVIOUS
  <2>2. \A u \in Threads : u \in w <=> u = t /\ n \in DOMAIN ws /\ ws[n].next # NULL
    <3>1. <<n, "next">> \in Stores(ws) <=> n \in DOMAIN ws /\ ws[n].next # NULL
      BY StoresAre, Zenon
    <3>2. \A u \in Threads : u \in w <=> pc'[u] = "publish" /\ <<n, "next">> \in todo'[u]
      BY <2>1
    <3> QED  BY <1>1, <1>5, <1>6, <3>1, <3>2
  <2>3. NextToBe(n)' = IF w = {} THEN heap'[n].next ELSE tx'[CHOOSE u \in w : TRUE].writeSet[n].next
    BY <2>1 DEF NextToBe
  <2>4. w # {} => (CHOOSE u \in w : TRUE) = t
    BY <2>1, <2>2
  <2>5. w = {} <=> ~(n \in Items(t) /\ ws[n].next # NULL)
    BY <2>1, <2>2 DEF Items
  <2> QED  BY <1>1, <1>5, <2>3, <2>4, <2>5
<1>9. ASSUME NEW n \in Allocated PROVE DeletedToBe(n)' <=> heap[n].deleted \/ n \in Cut(t)
  <2>1. \A u \in Threads : pc'[u] = "publish" /\ <<n, "deleted">> \in todo'[u]
                             <=> u = t /\ n \in {m \in DOMAIN ws : ws[m].deleted}
    <3>1. <<n, "deleted">> \in Stores(ws) <=> n \in {m \in DOMAIN ws : ws[m].deleted}
      BY StoresAre, Zenon
    <3> QED  BY <1>1, <1>5, <1>6, <3>1
  <2> QED  BY <1>1, <2>1 DEF DeletedToBe, Cut, Items
<1>10. ASSUME NEW n \in Allocated, NEW u \in Threads
       PROVE  Changed(u, n)' <=> heap[n].version > tx[u].readVersion \/ n \in Items(t)
  <2>1. \A v \in Threads : pc'[v] = "publish" /\ <<n, "version">> \in todo'[v] <=> v = t /\ n \in DOMAIN ws
    <3>1. <<n, "version">> \in Stores(ws) <=> n \in DOMAIN ws
      BY StoresAre, Zenon
    <3> QED  BY <1>1, <1>5, <1>6, <3>1
  <2> QED  BY <1>1, <1>7, <2>1 DEF Changed, Items
<1>11. InTx(t)
  BY <1>1 DEF InTx
<1> QED  BY <1>1, <1>3, <1>5, <1>6, <1>7, <1>8, <1>9, <1>10, <1>11 DEF Fetches

\* Nothing that t has read has been written since it began.
LEMMA AllChecked ==
  ASSUME TypeInv, ChainInv, NEW t \in Threads, AddAndFetch(t)
  PROVE  \A n \in Elems(tx[t].readSet) : ~Changed(t, n)
<1>1. Checked(t) /\ Validating(t) /\ pos[t] = Len(tx[t].readSet) /\ tx[t].readSet \in Seq(Allocated)
  BY DEF ChainInv, TxInv, AddAndFetch, Validated, TypeInv, Pointers
<1>2. \A i \in DOMAIN tx[t].readSet : ~Changed(t, tx[t].readSet[i])
  <2>1. CASE pc[t] = "lock"
    BY <1>1, <2>1 DEF Checked
  <2>2. CASE pc[t] # "lock"
    <3>1. Validates(t) /\ todo[t] = {}
      BY <1>1, <2>2 DEF Validating, Loaded, Validates
    <3> QED  BY <1>1, <3>1 DEF Checked
  <2> QED  BY <2>1, <2>2
<1> QED  BY <1>2 DEF Elems

\* What t writes is in the list as t found it, or is new.
LEMMA FetchOwn ==
  ASSUME TypeInv, ChainInv, NEW t \in Threads, AddAndFetch(t), NEW S, NEW N, Snapshot(t, S, N)
  PROVE  \A n \in Items(t) : /\ n \in Allocated /\ ~Changed(t, n) /\ ~DeletedToBe(n) /\ N[n] = NextToBe(n)
                             /\ n \in S \cup Fresh(t) /\ (n \in S <=> n \in Chained)
<1> SUFFICES ASSUME NEW n \in Items(t)
             PROVE  /\ n \in Allocated /\ ~Changed(t, n) /\ ~DeletedToBe(n) /\ N[n] = NextToBe(n)
                    /\ n \in S \cup Fresh(t) /\ (n \in S <=> n \in Chained)
  OBVIOUS
<1>1. n \in Allocated
  BY FreshAllocated
<1>2. Agrees(t, S, N) /\ n \in Fresh(t) \cup Elems(tx[t].readSet) /\ Elems(tx[t].readSet) \subseteq S \cup Fresh(t)
  BY DEF Snapshot, Logged
<1>3. ~Changed(t, n)
  BY <1>2, AllChecked DEF Agrees
<1>4. n \in S <=> n \in Chained
  BY <1>1, <1>2, <1>3 DEF Agrees
<1>5. N[n] = NextToBe(n)
  BY <1>1, <1>2, <1>3 DEF Agrees
<1>6. ~DeletedToBe(n)
  BY <1>2, <1>4 DEF Agrees, ChainInv, ListInv
<1> QED  BY <1>1, <1>2, <1>3, <1>4, <1>5, <1>6

\* What others have written since t began.
Theirs(t) == {n \in Allocated : Changed(t, n)}

LEMMA FetchRivals ==
  ASSUME TypeInv, ChainInv, NEW t \in Threads, AddAndFetch(t), NEW S, NEW N, Snapshot(t, S, N)
  PROVE  Rivals(S, N, View(t, S), ViewNext(t, N), Items(t), Chained, NowNext, Theirs(t), KeyOf)
<1>1. Sorted(S, N, KeyOf) /\ Sorted(View(t, S), ViewNext(t, N), KeyOf) /\ S \subseteq Allocated
  BY DEF Snapshot, Chains
<1>2. Sorted(Chained, NowNext, KeyOf)
  BY DEF ChainInv, ListInv
<1>3. SameBut(Items(t), View(t, S), ViewNext(t, N), S, N)
  <2>1. Fresh(t) \subseteq Items(t) /\ Cut(t) \subseteq Items(t)
    BY DEF Snapshot, Logged, Cut
  <2>2. \A n \in S : n \notin Items(t) => ViewNext(t, N)[n] = N[n]
    BY <1>1 DEF ViewNext
  <2> QED  BY <2>1, <2>2 DEF SameBut, View
<1>4. SameBut(Theirs(t), Chained, NowNext, S, N)
  <2>1. Chained \subseteq Allocated
    BY ChainedAllocated
  <2>2. \A n \in Allocated : n \notin Theirs(t) => /\ n \in S <=> n \in Chained
                                                   /\ n \in S => N[n] = NextToBe(n)
    BY DEF Snapshot, Agrees, Theirs
  <2>3. \A n \in Allocated : NowNext[n] = NextToBe(n)
    BY DEF NowNext
  <2> QED  BY <1>1, <2>1, <2>2, <2>3 DEF SameBut
<1>5. Items(t) \cap Theirs(t) = {}
  BY FetchOwn DEF Theirs
<1> QED  BY <1>1, <1>2, <1>3, <1>4, <1>5 DEF Rivals

LEMMA FetchMerged ==
  ASSUME TypeInv, TypeInv', ChainInv, NEW t \in Threads, AddAndFetch(t), Fetches(t), NEW S, NEW N, Snapshot(t, S, N)
  PROVE  /\ Chained' = Merged(View(t, S), Chained, Items(t)) /\ Sorted(Chained, NowNext, KeyOf)'
         /\ Chained' \subseteq Allocated /\ Allocated' = Allocated
<1> PICK A, V, P, U, O, B, W, M : /\ A = Items(t) /\ V = View(t, S) /\ P = ViewNext(t, N) /\ U = Chained
                                  /\ O = NowNext /\ B = Theirs(t) /\ W = Merged(V, U, A) /\ M = NowNext'
  OBVIOUS
<1>1. Rivals(S, N, V, P, A, U, O, B, KeyOf)
  BY FetchRivals
<1>2. heap' = heap /\ Allocated' = Allocated /\ KeyOf' = KeyOf
  BY DEF Fetches, Allocated, KeyOf
<1>3. V \subseteq Allocated /\ U \subseteq Allocated /\ A \subseteq Allocated
  BY ChainedAllocated, FreshAllocated DEF Snapshot, Chains, View
<1>4. W \subseteq Allocated
  BY <1>3 DEF Merged
<1>5. ASSUME NEW n \in W PROVE M[n] = IF n \in A THEN P[n] ELSE O[n]
  <2>1. n \in Allocated /\ M[n] = NextToBe(n)' /\ O[n] = NextToBe(n)
    BY <1>2, <1>4 DEF NowNext
  <2>2. NextToBe(n) = heap[n].next
    BY QuietNow DEF Fetches
  <2>3. NextToBe(n)' = IF n \in A /\ tx[t].writeSet[n].next # NULL THEN tx[t].writeSet[n].next ELSE heap[n].next
    BY <2>1 DEF Fetches
  <2>4. P[n] = IF n \in A /\ tx[t].writeSet[n].next # NULL THEN tx[t].writeSet[n].next ELSE N[n]
    BY <2>1 DEF ViewNext
  <2>5. n \in A => N[n] = NextToBe(n)
    BY FetchOwn
  <2> QED  BY <2>1, <2>2, <2>3, <2>4, <2>5
<1>6. Sorted(W, M, KeyOf)
  BY <1>1, <1>5, MergedSorted
<1>7. Sorted(W, NowNext', KeyOf') /\ W \subseteq Allocated'
  BY <1>2, <1>4, <1>6
<1>8. Chained' = W
  BY <1>7, ChainedIsNext
<1> QED  BY <1>2, <1>4, <1>7, <1>8

\* Others have not touched key k since t began, or t has not.
LEMMA FetchEither ==
  ASSUME TypeInv, ChainInv, NEW t \in Threads, AddAndFetch(t), NEW S, NEW N, Snapshot(t, S, N), NEW k \in Keys,
         NEW V, V = View(t, S), NEW U, U = Chained, NEW W, W = Merged(V, U, Items(t))
  PROVE  \/ \A m : KeyOf[m] = k => (m \in U <=> m \in S) /\ (m \in W <=> m \in V)
         \/ \A m : KeyOf[m] = k => (m \in V <=> m \in S) /\ (m \in W <=> m \in U)
<1> PICK A, P, O, B : A = Items(t) /\ P = ViewNext(t, N) /\ O = NowNext /\ B = Theirs(t)
  OBVIOUS
<1>1. Rivals(S, N, V, P, A, U, O, B, KeyOf)
  BY FetchRivals
<1>2. k \in Int /\ KeyOf[HeadNode] < k
  <2>1. HeadNode \in Allocated /\ heap[HeadNode].key = MIN_VAL
    BY HeadAllocated DEF ChainInv, ListInv
  <2> QED  BY <2>1, KeysAssumption DEF KeyOf
<1> QED  BY <1>1, <1>2, OneAtAKey

\* What the merged list has of each key.
LEMMA FetchHas ==
  ASSUME TypeInv, ChainInv, NEW t \in Threads, AddAndFetch(t), NEW S, NEW N, Snapshot(t, S, N), NEW k \in Keys
  PROVE  Has(Merged(View(t, S), Chained, Items(t)), k) - Has(Chained, k) = Has(View(t, S), k) - Has(S, k)
<1> PICK V, U, W : V = View(t, S) /\ U = Chained /\ W = Merged(V, U, Items(t))
  OBVIOUS
<1>1. \/ \A m : KeyOf[m] = k => (m \in U <=> m \in S) /\ (m \in W <=> m \in V)
      \/ \A m : KeyOf[m] = k => (m \in V <=> m \in S) /\ (m \in W <=> m \in U)
  BY FetchEither
<1>2. V \subseteq Allocated /\ U \subseteq Allocated /\ S \subseteq Allocated /\ W \subseteq Allocated
  BY ChainedAllocated, FreshAllocated DEF Snapshot, Chains, View, Merged
<1>3. \A m \in Allocated : KeyOf[m] = heap[m].key
  BY DEF KeyOf
<1>4. CASE \A m : KeyOf[m] = k => (m \in U <=> m \in S) /\ (m \in W <=> m \in V)
  <2>1. Has(U, k) = Has(S, k)
    BY <1>2, <1>3, <1>4 DEF Has
  <2>2. Has(W, k) = Has(V, k)
    BY <1>2, <1>3, <1>4 DEF Has
  <2> QED  BY <2>1, <2>2
<1>5. CASE \A m : KeyOf[m] = k => (m \in V <=> m \in S) /\ (m \in W <=> m \in U)
  <2>1. Has(V, k) = Has(S, k)
    BY <1>2, <1>3, <1>5 DEF Has
  <2>2. Has(W, k) = Has(U, k) /\ Has(U, k) \in Int /\ Has(S, k) \in Int
    BY <1>2, <1>3, <1>5 DEF Has
  <2> QED  BY <2>1, <2>2
<1> QED  BY <1>1, <1>4, <1>5

LEMMA FetchList ==
  ASSUME TypeInv, TypeInv', ChainInv, NEW t \in Threads, AddAndFetch(t), Fetches(t), NEW S, NEW N, Snapshot(t, S, N)
  PROVE  ListInv'
<1> PICK A, V, U, W : A = Items(t) /\ V = View(t, S) /\ U = Chained /\ W = Merged(V, U, A)
  OBVIOUS
<1>1. /\ Chained' = W /\ Sorted(Chained, NowNext, KeyOf)' /\ W \subseteq Allocated /\ Allocated' = Allocated
      /\ heap' = heap /\ index' = index
  BY FetchMerged DEF Fetches
<1>2. ListInv
  BY DEF ChainInv
<1>3. \A n \in A : /\ n \in Allocated /\ ~DeletedToBe(n) /\ n \in S \cup Fresh(t) /\ (n \in S <=> n \in U)
                   /\ ~Changed(t, n)
  BY FetchOwn
<1>4. \A n \in Allocated : /\ DeletedToBe(n) <=> heap[n].deleted
                           /\ DeletedToBe(n)' <=> heap[n].deleted \/ n \in Cut(t)
  BY QuietDeleted DEF Fetches
<1>5. \A n \in A : n \in W \/ n \in Cut(t)
  BY <1>3 DEF Merged, View
<1>6. U \subseteq Allocated /\ Cut(t) \subseteq A /\ V \cap Cut(t) = {}
  BY ChainedAllocated DEF Cut, View
<1>7. \A n \in U : n \in W \/ n \in Cut(t)
  BY <1>5 DEF Merged
<1>8. \A n \in Allocated : Known(n) => Known(n)'
  BY <1>1, <1>4, <1>7 DEF Known
<1>9. Above(Chained)'
  <2>1. PICK m \in U : \A c \in Called : c.key < heap[m].key
    BY <1>2 DEF ListInv, Above
  <2>2. m \notin Cut(t)
    <3>1. heap[m].key \in Int
      BY <1>6, NodeAt
    <3> QED  BY <2>1, <3>1 DEF Snapshot, Logged
  <2>3. m \in W
    BY <1>7, <2>2
  <2> QED  BY <1>1, <2>1, <2>3 DEF Above
<1>10. \A n \in W : ~DeletedToBe(n)'
  <2>1. \A n \in W : n \notin Cut(t) /\ ~DeletedToBe(n)
    BY <1>2, <1>3, <1>6 DEF Merged, ListInv
  <2> QED  BY <1>1, <1>4, <2>1
<1>11. /\ heap[HeadNode].key = MIN_VAL /\ \A n \in Allocated : ~heap[n].locked
       /\ \A n \in Allocated \ {HeadNode} : heap[n].key \in Keys
  BY <1>2 DEF ListInv
<1>12. \A n \in index : Known(n)'
  <2>1. index \subseteq Allocated
    BY DEF TypeInv, TypeOK
  <2> QED  BY <1>2, <1>8, <2>1 DEF ListInv
<1>13. ASSUME NEW u \in Threads, pc'[u] = "publish", NEW e \in Elems(tx'[u].indexTodo) PROVE Known(e.node)'
  <2>1. PICK n : n = e.node
    OBVIOUS
  <2>2. CASE u = t
    <3>1. n \in A
      BY <1>13, <2>1, <2>2 DEF Fetches, Snapshot, Logged
    <3>2. Known(n)'
      BY <1>1, <1>3, <1>4, <1>5, <3>1 DEF Known
    <3> QED  BY <2>1, <3>2
  <2>3. CASE u # t
    <3>1. pc[u] = "publish" /\ e \in Elems(tx[u].indexTodo)
      BY <1>13, <2>3 DEF Fetches, SameLocals
    <3>2. n \in Allocated
      BY <2>1, <3>1, TodoAllocated
    <3>3. Known(n)
      BY <1>2, <2>1, <3>1 DEF ListInv
    <3>4. Known(n)'
      BY <1>8, <3>2, <3>3
    <3> QED  BY <2>1, <3>4
  <2> QED  BY <2>2, <2>3
<1>14. ASSUME NEW k \in Keys PROVE Has(Chained, k)' = (IF k \in Elems(Warm) THEN 1 ELSE 0) + net'[k]
  <2>1. Has(Chained, k)' = Has(W, k)
    BY <1>1 DEF Has
  <2>2. PICK a, b, w, u, v, s : /\ a = Times(trace[t], "insert", k) /\ b = Times(trace[t], "remove", k)
                                /\ w = Has(W, k) /\ u = Has(U, k) /\ v = Has(V, k) /\ s = Has(S, k)
    OBVIOUS
  <2>3. a \in Nat /\ b \in Nat
    BY <2>2, TimesNat DEF TypeInv, TypeOK
  <2>4. w \in Int /\ u \in Int /\ v \in Int /\ s \in Int
    BY <2>2 DEF Has
  <2>5. w - u = v - s
    BY <2>2, FetchHas
  <2>6. v = s + a - b
    BY <2>2 DEF Snapshot, Told
  <2>7. net'[k] = net[k] + a - b /\ net[k] \in Int
    BY <2>2 DEF AddAndFetch, TypeInv, TypeOK
  <2>8. u = (IF k \in Elems(Warm) THEN 1 ELSE 0) + net[k]
    BY <1>2, <2>2 DEF ListInv
  <2>9. w = (IF k \in Elems(Warm) THEN 1 ELSE 0) + net'[k]
    BY <2>3, <2>4, <2>5, <2>6, <2>7, <2>8
  <2> QED  BY <2>1, <2>2, <2>9
<1> QED  BY <1>1, <1>9, <1>10, <1>11, <1>12, <1>13, <1>14 DEF ListInv

\* What another thread has found is as it was where t does not write.
LEMMA FetchStill ==
  ASSUME TypeInv, TypeInv', ChainInv, PrivInv, NEW t \in Threads, AddAndFetch(t), Fetches(t),
         NEW S, NEW N, Snapshot(t, S, N), NEW u \in Threads \ {t}, InTx(u)
  PROVE  Still(u)
<1> PICK A, V, U : A = Items(t) /\ V = View(t, S) /\ U = Chained
  OBVIOUS
<1>1. Chained' = Merged(V, U, A) /\ Allocated' = Allocated /\ heap' = heap
  BY FetchMerged DEF Fetches
<1>2. \A n \in Allocated : /\ NextToBe(n) = heap[n].next /\ (DeletedToBe(n) <=> heap[n].deleted)
                           /\ Changed(u, n) <=> heap[n].version > tx[u].readVersion
  BY QuietNow, QuietDeleted DEF Fetches
<1>3. \A n \in Allocated : /\ n \notin A => NextToBe(n)' = heap[n].next
                           /\ DeletedToBe(n)' <=> heap[n].deleted \/ n \in Cut(t)
                           /\ Changed(u, n)' <=> heap[n].version > tx[u].readVersion \/ n \in A
  BY DEF Fetches
<1>4. Cut(t) \subseteq A
  BY DEF Cut
<1>5. \A n \in Allocated : n \notin A => (n \in Chained <=> n \in Chained')
  BY <1>1 DEF Merged
<1>6. Fresh(u) \subseteq Allocated /\ Fresh(u) \cap A = {}
  <2>1. pc[u] # "publish"
    BY DEF InTx
  <2> QED  BY <2>1, FreshAllocated DEF PrivInv, Hidden, Unpublished, Reach
<1> QED  BY <1>1, <1>2, <1>3, <1>4, <1>5, <1>6 DEF Still

LEMMA FetchKeep ==
  ASSUME TypeInv, TypeInv', ClockInv, PrivInv, ChainInv, NEW t \in Threads, Alone(t), AddAndFetch(t)
  PROVE  ChainInv'
<1>1. Fetches(t)
  BY FetchSets
<1>2. PICK S, N : Snapshot(t, S, N)
  BY <1>1 DEF Fetches, ChainInv, TxInv
<1>3. ListInv'
  BY <1>1, <1>2, FetchList
<1>4. TxInv(t)'
  <2>1. pc'[t] = "publish" /\ prog'[t] = prog[t] /\ trace'[t] = <<>>
    BY <1>1 DEF Fetches
  <2>2. Newer(t)'
    BY <2>1 DEF Newer, InTx
  <2> QED  BY <2>1, <2>2, OutKeep
<1>5. ASSUME NEW u \in Threads \ {t} PROVE TxInv(u)'
  <2>1. SameLocals(u) /\ TxInv(u) /\ ~Validates(u)
    BY <1>1 DEF Fetches, ChainInv, Alone, Committing, Validates
  <2>2. InTx(u) => Still(u)
    BY <1>1, <1>2, FetchStill
  <2>3. Newer(u)'
    <3>1. tx[u].readVersion <= gvc /\ tx[u].readVersion \in Nat /\ gvc \in Nat
      BY Carried DEF ClockInv
    <3>2. tx'[u].readVersion = tx[u].readVersion /\ tx'[t].writeVersion = gvc + 1
      BY <1>1 DEF Fetches
    <3>3. \A v \in Threads \ {t} : pc'[v] = "publish" => todo'[v] = {}
      BY <1>1 DEF Fetches, Quiet, SameLocals
    <3> QED  BY <3>1, <3>2, <3>3 DEF Newer
  <2> QED  BY <2>1, <2>2, <2>3, OtherKeep
<1> QED  BY <1>3, <1>4, <1>5 DEF ChainInv

-----------------------------------------------------------------------------
\* One store of the write-back.
Stored(t, n, f) ==
    /\ pc[t] = "publish" /\ <<n, f>> \in todo[t] /\ f \in Fields /\ n \in Allocated /\ Allocated' = Allocated
    /\ \A m \in Allocated \ {n} : heap'[m] = heap[m]
    /\ heap'[n].key = heap[n].key /\ heap'[n].locked = heap[n].locked
    /\ heap'[n].deleted = IF f = "deleted" THEN TRUE ELSE heap[n].deleted
    /\ heap'[n].next = IF f = "next" THEN tx[t].writeSet[n].next ELSE heap[n].next
    /\ heap'[n].version = IF f = "version" THEN tx[t].writeVersion ELSE heap[n].version
    /\ todo'[t] = todo[t] \ {<<n, f>>} /\ \A u \in Threads \ {t} : SameLocals(u)
    /\ UNCHANGED <<gvc, index, left, pc, ret, prog, tx, pos, locks, trace, snap, net>>

LEMMA StoreSets ==
  ASSUME TypeInv, NEW t \in Threads, Store(t) PROVE \E n, f : Stored(t, n, f)
<1>1. PICK a \in todo[t] :
         LET n == a[1]  f == a[2]  item == tx[t].writeSet[n]
         IN /\ heap' = [heap EXCEPT
                 ![n].deleted = IF f = "deleted" THEN TRUE ELSE @,
                 ![n].next = IF f = "next" THEN item.next ELSE @,
                 ![n].version = IF f = "version" THEN tx[t].writeVersion ELSE @]
            /\ todo' = [todo EXCEPT ![t] = @ \ {a}]
  BY Zenon DEF Store, Due
<1>2. /\ pc[t] = "publish"
      /\ UNCHANGED <<gvc, index, left, pc, ret, prog, tx, pos, locks, trace, snap, net>>
  BY DEF Store, history
<1>3. PICK n, f : n = a[1] /\ f = a[2]
  OBVIOUS
<1>4. a = <<n, f>> /\ n \in Allocated /\ f \in Fields
  <2>1. todo[t] \subseteq Allocated \X Fields
    BY DEF TypeInv, Pointers
  <2> QED  BY <1>3, <2>1
<1>5. todo'[t] = todo[t] \ {<<n, f>>}
  BY <1>1, <1>4 DEF TypeInv, TypeOK
<1>6. \A u \in Threads \ {t} : SameLocals(u)
  BY OthersSame DEF Step
<1>7. heap \in Seq(Node) /\ n \in DOMAIN heap /\ heap[n] \in Node
  BY <1>4 DEF TypeInv, TypeOK, Allocated
<1>8. PICK v, x, d : /\ d = (IF f = "deleted" THEN TRUE ELSE heap[n].deleted)
                     /\ x = (IF f = "next" THEN tx[t].writeSet[n].next ELSE heap[n].next)
                     /\ v = (IF f = "version" THEN tx[t].writeVersion ELSE heap[n].version)
  OBVIOUS
<1>9. heap' = [heap EXCEPT ![n].deleted = d, ![n].next = x, ![n].version = v]
  BY <1>1, <1>3, <1>7, <1>8
<1>10. /\ DOMAIN heap' = DOMAIN heap /\ (\A m \in DOMAIN heap \ {n} : heap'[m] = heap[m])
       /\ heap'[n] = [[[heap[n] EXCEPT !.deleted = d] EXCEPT !.next = x] EXCEPT !.version = v]
  BY <1>7, <1>9
<1>11. /\ heap'[n].deleted = d /\ heap'[n].next = x /\ heap'[n].version = v
       /\ heap'[n].key = heap[n].key /\ heap'[n].locked = heap[n].locked
  BY <1>7, <1>10 DEF Node
<1>12. Stored(t, n, f)
  BY <1>1, <1>2, <1>4, <1>5, <1>6, <1>8, <1>10, <1>11 DEF Stored, Allocated
<1> QED  BY <1>12

LEMMA StoreList ==
  ASSUME TypeInv, NEW t \in Threads, Alone(t), Store(t)
  PROVE  SameList
<1>1. PICK n, f : Stored(t, n, f)
  BY StoreSets
<1>2. /\ pc[t] = "publish" /\ <<n, f>> \in todo[t] /\ f \in Fields /\ n \in Allocated /\ Allocated' = Allocated
      /\ \A m \in Allocated \ {n} : heap'[m] = heap[m]
      /\ heap'[n].key = heap[n].key /\ heap'[n].locked = heap[n].locked
      /\ heap'[n].deleted = (IF f = "deleted" THEN TRUE ELSE heap[n].deleted)
      /\ heap'[n].next = (IF f = "next" THEN tx[t].writeSet[n].next ELSE heap[n].next)
      /\ heap'[n].version = (IF f = "version" THEN tx[t].writeVersion ELSE heap[n].version)
      /\ todo'[t] = todo[t] \ {<<n, f>>} /\ (\A u \in Threads \ {t} : SameLocals(u))
      /\ index' = index /\ pc' = pc /\ prog' = prog /\ tx' = tx /\ trace' = trace /\ net' = net
  BY <1>1 DEF Stored
<1>3. \A u \in Threads \ {t} : (pc[u] = "publish" => todo[u] = {}) /\ (pc'[u] = "publish" => todo'[u] = {})
  BY <1>2 DEF Alone, Committing, SameLocals
<1>4. ASSUME NEW m \in Allocated PROVE NextToBe(m)' = NextToBe(m)
  <2>1. PICK v, w : /\ v = {u \in Threads : pc[u] = "publish" /\ <<m, "next">> \in todo[u]}
                    /\ w = {u \in Threads : pc'[u] = "publish" /\ <<m, "next">> \in todo'[u]}
    OBVIOUS
  <2>2. /\ NextToBe(m) = IF v = {} THEN heap[m].next ELSE tx[CHOOSE u \in v : TRUE].writeSet[m].next
        /\ NextToBe(m)' = IF w = {} THEN heap'[m].next ELSE tx'[CHOOSE u \in w : TRUE].writeSet[m].next
    BY <2>1 DEF NextToBe
  <2>3. /\ \A u \in v : u = t
        /\ \A u \in w : u = t
        /\ t \in v <=> <<m, "next">> \in todo[t]
        /\ t \in w <=> <<m, "next">> \in todo[t] /\ <<m, "next">> # <<n, f>>
    BY <1>2, <1>3, <2>1
  <2>4. (v # {} => (CHOOSE u \in v : TRUE) = t) /\ (w # {} => (CHOOSE u \in w : TRUE) = t)
    BY <2>3
  <2>5. (v = {} <=> t \notin v) /\ (w = {} <=> t \notin w)
    BY <2>3
  <2>6. /\ NextToBe(m) = IF <<m, "next">> \notin todo[t] THEN heap[m].next ELSE tx[t].writeSet[m].next
        /\ NextToBe(m)' = IF ~(<<m, "next">> \in todo[t] /\ <<m, "next">> # <<n, f>>)
                          THEN heap'[m].next ELSE tx[t].writeSet[m].next
    BY <1>2, <2>2, <2>3, <2>4, <2>5
  <2>7. CASE m = n /\ f = "next"
    BY <1>2, <2>6, <2>7
  <2>8. CASE ~(m = n /\ f = "next")
    <3>1. <<m, "next">> # <<n, f>> /\ heap'[m].next = heap[m].next
      BY <1>2, <2>8
    <3> QED  BY <2>6, <3>1
  <2> QED  BY <2>7, <2>8
<1>5. ASSUME NEW m \in Allocated PROVE DeletedToBe(m)' <=> DeletedToBe(m)
  <2>1. /\ DeletedToBe(m) <=> heap[m].deleted \/ <<m, "deleted">> \in todo[t]
        /\ DeletedToBe(m)' <=> heap'[m].deleted \/ (<<m, "deleted">> \in todo[t] /\ <<m, "deleted">> # <<n, f>>)
    BY <1>2, <1>3 DEF DeletedToBe
  <2>2. CASE m = n /\ f = "deleted"
    BY <1>2, <2>1, <2>2
  <2>3. CASE ~(m = n /\ f = "deleted")
    <3>1. <<m, "deleted">> # <<n, f>> /\ heap'[m].deleted = heap[m].deleted
      BY <1>2, <2>3
    <3> QED  BY <2>1, <3>1
  <2> QED  BY <2>2, <2>3
<1> QED  BY <1>2, <1>4, <1>5 DEF SameList

LEMMA StoreKeep ==
  ASSUME TypeInv, TypeInv', ChainInv, NEW t \in Threads, Alone(t), Store(t)
  PROVE  ChainInv'
<1>1. PICK n, f : Stored(t, n, f)
  BY StoreSets
<1>2. /\ pc[t] = "publish" /\ <<n, f>> \in todo[t] /\ f \in Fields /\ n \in Allocated /\ Allocated' = Allocated
      /\ \A m \in Allocated \ {n} : heap'[m] = heap[m]
      /\ heap'[n].key = heap[n].key /\ heap'[n].locked = heap[n].locked
      /\ heap'[n].deleted = (IF f = "deleted" THEN TRUE ELSE heap[n].deleted)
      /\ heap'[n].next = (IF f = "next" THEN tx[t].writeSet[n].next ELSE heap[n].next)
      /\ heap'[n].version = (IF f = "version" THEN tx[t].writeVersion ELSE heap[n].version)
      /\ todo'[t] = todo[t] \ {<<n, f>>} /\ (\A u \in Threads \ {t} : SameLocals(u))
      /\ index' = index /\ pc' = pc /\ prog' = prog /\ tx' = tx /\ trace' = trace /\ net' = net
  BY <1>1 DEF Stored
<1>3. \A u \in Threads \ {t} : (pc[u] = "publish" => todo[u] = {}) /\ (pc'[u] = "publish" => todo'[u] = {})
  BY <1>2 DEF Alone, Committing, SameLocals
<1>4. ASSUME NEW u \in Threads \ {t}, InTx(u), NEW m \in Allocated PROVE Changed(u, m)' <=> Changed(u, m)
  <2>1. /\ Changed(u, m) <=> heap[m].version > tx[u].readVersion \/ <<m, "version">> \in todo[t]
        /\ Changed(u, m)' <=> \/ heap'[m].version > tx[u].readVersion
                              \/ <<m, "version">> \in todo[t] /\ <<m, "version">> # <<n, f>>
    BY <1>2, <1>3 DEF Changed
  <2>2. CASE m = n /\ f = "version"
    <3>1. tx[u].readVersion < tx[t].writeVersion
      BY <1>2, <1>4 DEF ChainInv, TxInv, Newer
    <3>2. tx[u].readVersion \in Nat /\ tx[t].writeVersion \in Nat
      BY DEF TypeInv, TypeOK, Transaction
    <3> QED  BY <1>2, <2>1, <2>2, <3>1, <3>2
  <2>3. CASE ~(m = n /\ f = "version")
    <3>1. <<m, "version">> # <<n, f>> /\ heap'[m].version = heap[m].version
      BY <1>2, <2>3
    <3> QED  BY <2>1, <3>1
  <2> QED  BY <2>2, <2>3
<1>5. SameList
  BY StoreList
<1>6. TxInv(t)'
  <2>1. Newer(t)' /\ trace[t] = <<>>
    BY <1>2 DEF Newer, InTx, ChainInv, TxInv
  <2> QED  BY <1>2, <2>1, OutKeep
<1> QED  BY <1>2, <1>4, <1>5, <1>6, StepKeep

-----------------------------------------------------------------------------
\* What the program starts from.
LEMMA InitHeap ==
  ASSUME Init
  PROVE  /\ Allocated = 1..(Len(Warm) + 1) /\ Len(Warm) \in Nat /\ index = Allocated
         /\ heap[HeadNode].key = MIN_VAL
         /\ \A n \in Allocated : /\ n # HeadNode => heap[n].key = Warm[n - 1] /\ Warm[n - 1] \in Keys
                                 /\ heap[n].next = IF n = Len(Warm) + 1 THEN NULL ELSE n + 1
                                 /\ ~heap[n].deleted /\ ~heap[n].locked
         /\ \A i, j \in Allocated : i < j => heap[i].key < heap[j].key
<1>1. PICK L \in Nat : L = Len(Warm) /\ DOMAIN Warm = 1..L
  BY WarmAssumption
<1>2. /\ Allocated = 1..(L + 1) /\ index = 1..(L + 1)
      /\ \A n \in 1..(L + 1) : /\ heap[n].key = IF n = HeadNode THEN MIN_VAL ELSE Warm[n - 1]
                               /\ heap[n].next = IF n = L + 1 THEN NULL ELSE n + 1
                               /\ ~heap[n].deleted /\ ~heap[n].locked
  BY <1>1 DEF Init, Allocated
<1>3. \A n \in 1..(L + 1) : n # HeadNode => n - 1 \in 1..L /\ Warm[n - 1] \in Keys
  BY <1>1, WarmAssumption DEF HeadNode
<1>4. ASSUME NEW i \in 1..(L + 1), NEW j \in 1..(L + 1), i < j PROVE heap[i].key < heap[j].key
  <2>1. j # HeadNode
    BY <1>4 DEF HeadNode
  <2>2. CASE i = HeadNode
    BY <1>2, <1>3, <2>1, <2>2, KeysAssumption
  <2>3. CASE i # HeadNode
    <3>1. i - 1 \in DOMAIN Warm /\ j - 1 \in DOMAIN Warm /\ i - 1 < j - 1
      BY <1>1, <1>3, <1>4, <2>1, <2>3
    <3> QED  BY <1>2, <2>1, <2>3, <3>1, WarmAssumption
  <2> QED  BY <2>2, <2>3
<1> QED  BY <1>1, <1>2, <1>3, <1>4 DEF HeadNode

LEMMA InitSorted == ASSUME Init PROVE Sorted(Allocated, NowNext, KeyOf)
<1>1. TypeInv /\ Quiet
  BY InitTyped DEF Init, Quiet
<1> PICK A, L : A = Allocated /\ L = Len(Warm) + 1
  OBVIOUS
<1>2. /\ A = 1..L /\ L \in Nat /\ L >= 1 /\ index = A /\ heap[HeadNode].key = MIN_VAL
      /\ \A n \in A : /\ n # HeadNode => heap[n].key = Warm[n - 1] /\ Warm[n - 1] \in Keys
                      /\ heap[n].next = IF n = L THEN NULL ELSE n + 1
                      /\ ~heap[n].deleted /\ ~heap[n].locked
      /\ \A i, j \in A : i < j => heap[i].key < heap[j].key
  BY InitHeap
<1>3. \A n \in A : KeyOf[n] = heap[n].key /\ heap[n].key \in Int /\ NowNext[n] = heap[n].next
  BY <1>1, QuietNow, NodeAt DEF KeyOf, NowNext
<1>4. Sorted(A, NowNext, KeyOf)
  <2>1. HeadNode \in A /\ \A n \in A : KeyOf[n] \in Int /\ KeyOf[HeadNode] <= KeyOf[n]
    <3>1. HeadNode \in A /\ \A n \in A : n # HeadNode => HeadNode < n
      BY <1>2 DEF HeadNode
    <3> QED  BY <1>2, <1>3, <3>1
  <2>2. ASSUME NEW n \in A, NEW m \in A, KeyOf[n] <= KeyOf[m] PROVE n <= m
    <3>1. ~(m < n)
      BY <1>2, <1>3, <2>2
    <3> QED  BY <1>2, <3>1
  <2>3. \A n, m \in A : KeyOf[n] = KeyOf[m] => n = m
    <3> SUFFICES ASSUME NEW n \in A, NEW m \in A, KeyOf[n] = KeyOf[m] PROVE n = m
      OBVIOUS
    <3>1. n <= m /\ m <= n
      BY <2>1, <2>2
    <3> QED  BY <1>2, <3>1
  <2>4. ASSUME NEW n \in A, NowNext[n] # NULL PROVE NowNext[n] \in A /\ KeyOf[n] < KeyOf[NowNext[n]]
    <3>1. n # L /\ NowNext[n] = n + 1 /\ n + 1 \in A /\ n < n + 1
      BY <1>2, <1>3, <2>4
    <3>2. heap[n].key < heap[n + 1].key
      BY <1>2, <3>1
    <3> QED  BY <1>3, <3>1, <3>2
  <2>5. ASSUME NEW n \in A, NEW m \in A, KeyOf[n] < KeyOf[m] PROVE NowNext[n] # NULL /\ KeyOf[NowNext[n]] <= KeyOf[m]
    <3>1. n <= m /\ n # m
      BY <1>3, <2>2, <2>5
    <3>2. n # L /\ NowNext[n] = n + 1 /\ n + 1 \in A /\ n + 1 # NULL /\ n + 1 <= m
      BY <1>2, <1>3, <3>1 DEF NULL
    <3>3. n + 1 = m \/ heap[n + 1].key < heap[m].key
      BY <1>2, <3>2
    <3> QED  BY <1>3, <3>2, <3>3
  <2> QED  BY <2>1, <2>3, <2>4, <2>5 DEF Sorted
<1> QED  BY <1>4

LEMMA InitList == ASSUME LastKept, Init PROVE ListInv
<1>1. TypeInv /\ Quiet
  BY InitTyped DEF Init, Quiet
<1> PICK A, L : A = Allocated /\ L = Len(Warm) + 1
  OBVIOUS
<1>2. /\ A = 1..L /\ L \in Nat /\ L >= 1 /\ index = A /\ heap[HeadNode].key = MIN_VAL
      /\ \A n \in A : /\ n # HeadNode => heap[n].key = Warm[n - 1] /\ Warm[n - 1] \in Keys
                      /\ heap[n].next = IF n = L THEN NULL ELSE n + 1
                      /\ ~heap[n].deleted /\ ~heap[n].locked
      /\ \A i, j \in A : i < j => heap[i].key < heap[j].key
  BY InitHeap
<1>3. \A n \in A : KeyOf[n] = heap[n].key /\ heap[n].key \in Int /\ NowNext[n] = heap[n].next
  BY <1>1, QuietNow, NodeAt DEF KeyOf, NowNext
<1>4. Sorted(A, NowNext, KeyOf)
  BY InitSorted
<1>5. Chained = A
  BY <1>1, <1>4, ChainedIs
<1>6. Above(Chained)
  <2>1. PICK k \in Elems(Warm) : \A c \in Called : c.key < k
    BY DEF LastKept
  <2>2. PICK i \in DOMAIN Warm : k = Warm[i]
    BY <2>1 DEF Elems
  <2>3. DOMAIN Warm = 1..(L - 1)
    BY WarmAssumption
  <2>4. i + 1 \in A /\ i + 1 # HeadNode /\ (i + 1) - 1 = i
    BY <1>2, <2>3 DEF HeadNode
  <2>5. heap[i + 1].key = k
    BY <1>2, <2>2, <2>4
  <2> QED  BY <1>5, <2>1, <2>4, <2>5 DEF Above
<1>7. \A n \in A : ~DeletedToBe(n)
  BY <1>1, <1>2, QuietDeleted
<1>8. \A n \in index : Known(n)
  BY <1>2, <1>5 DEF Known
<1>9. \A u \in Threads : pc[u] # "publish"
  BY DEF Init
<1>10. ASSUME NEW k \in Keys PROVE Has(Chained, k) = (IF k \in Elems(Warm) THEN 1 ELSE 0) + net[k]
  <2>1. net[k] = 0
    BY DEF Init
  <2>2. DOMAIN Warm = 1..(L - 1)
    BY WarmAssumption
  <2>3. k \in Elems(Warm) <=> \E n \in A \ {HeadNode} : heap[n].key = k
    <3>1. ASSUME NEW n \in A \ {HeadNode}, heap[n].key = k PROVE k \in Elems(Warm)
      <4>1. n - 1 \in DOMAIN Warm /\ k = Warm[n - 1]
        BY <1>2, <2>2, <3>1 DEF HeadNode
      <4> QED  BY <4>1 DEF Elems
    <3>2. ASSUME NEW i \in DOMAIN Warm, k = Warm[i] PROVE \E n \in A \ {HeadNode} : heap[n].key = k
      <4>1. i + 1 \in A /\ i + 1 # HeadNode /\ (i + 1) - 1 = i
        BY <1>2, <2>2 DEF HeadNode
      <4> QED  BY <1>2, <3>2, <4>1
    <3> QED  BY <3>1, <3>2 DEF Elems
  <2> QED  BY <1>5, <2>1, <2>3 DEF Has
<1> QED  BY <1>2, <1>4, <1>5, <1>6, <1>7, <1>8, <1>9, <1>10 DEF ListInv

LEMMA InitChain == ASSUME LastKept, Init PROVE ChainInv
<1>1. ListInv
  BY InitList
<1>2. ASSUME NEW t \in Threads PROVE TxInv(t)
  <2>1. pc[t] = "idle" /\ prog[t] = <<>> /\ tx[t] = NoTx /\ pos[t] = 0 /\ trace[t] = <<>>
    BY DEF Init
  <2> QED  BY <2>1 DEF TxInv, InTx, Checked, Validates, Newer
<1> QED  BY <1>1, <1>2 DEF ChainInv

LEMMA StepChain ==
  ASSUME Coarse, Base, Base', ChainInv, NEW t \in Threads, Scheduled(t), Step(t) PROVE ChainInv'
<1>1. TypeInv /\ TypeInv' /\ ClockInv /\ PrivInv /\ Alone(t) /\ ~Reorder
  BY ScheduledAlone DEF Base, Coarse
<1>2. CASE TXBegin(t) \/ Seek(t) \/ Restart(t) \/ Walk(t) \/ Load(t)
  BY <1>1, <1>2, BeginKeep, SeekKeep, WalkKeep, LoadKeep
<1>3. CASE Contains(t) \/ Refuse(t) \/ Insert(t) \/ Remove(t) \/ Unlink(t)
  BY <1>1, <1>3, ReadKeep, InsertKeep, RemoveKeep, UnlinkKeep
<1>4. CASE TXCommit(t) \/ TryLock(t) \/ Invalid(t) \/ Validate(t)
  BY <1>1, <1>4, CommitKeep, ValidateKeep
<1>5. CASE AddAndFetch(t) \/ Store(t)
  BY <1>1, <1>5, FetchKeep, StoreKeep
<1>6. CASE Unlock(t) \/ UpdateIndex(t) \/ Finish(t)
  BY <1>1, <1>6, UnlockKeep
<1> QED  BY <1>2, <1>3, <1>4, <1>5, <1>6 DEF Step

LEMMA StutterChain ==
  ASSUME TypeInv, TypeInv', ChainInv, UNCHANGED vars PROVE ChainInv'
<1>1. /\ heap' = heap /\ index' = index /\ pc' = pc /\ tx' = tx /\ todo' = todo /\ net' = net
      /\ Allocated' = Allocated /\ \A t \in Threads : SameLocals(t)
  BY DEF vars, SameLocals, Allocated
<1>2. /\ \A n : NextToBe(n)' = NextToBe(n) /\ (DeletedToBe(n)' <=> DeletedToBe(n))
      /\ \A n, t : Changed(t, n)' <=> Changed(t, n)
  BY <1>1 DEF NextToBe, DeletedToBe, Changed
<1>3. SameList
  BY <1>1, <1>2 DEF SameList
<1>4. Sorted(Chained, NowNext, KeyOf) /\ ListInv
  BY DEF ChainInv, ListInv
<1>5. Chained' = Chained /\ Sorted(Chained, NowNext, KeyOf)'
  BY <1>3, <1>4, SameChained
<1>6. ListInv'
  <2>1. \A n : Known(n) => Known(n)'
    BY <1>2, <1>5 DEF Known
  <2>2. Above(Chained)' /\ \A k : Has(Chained, k)' = Has(Chained, k)
    BY <1>1, <1>4, <1>5 DEF Above, Has, ListInv
  <2> QED  BY <1>1, <1>2, <1>4, <1>5, <2>1, <2>2 DEF ListInv
<1>7. ASSUME NEW t \in Threads PROVE TxInv(t)'
  <2>1. SameLocals(t) /\ Still(t) /\ TxInv(t)
    BY <1>1, <1>2, <1>3, <1>4, SameStill DEF ChainInv
  <2>2. Newer(t)'
    BY <1>1 DEF ChainInv, TxInv, Newer, InTx
  <2> QED  BY <1>2, <2>1, <2>2, OtherKeep
<1> QED  BY <1>6, <1>7 DEF ChainInv

LEMMA InitBase == Init => Base
BY InitTyped, InitLocked, InitPrivate DEF Base

LEMMA NextBase == Base /\ [Next]_vars => Base'
BY NextTyped, NextLocked, NextClocked, NextPrivate DEF Base

LEMMA NextChain == ASSUME Coarse, Base, Base', ChainInv, [Next]_vars PROVE ChainInv'
<1>1. ASSUME UNCHANGED vars PROVE ChainInv'
  BY <1>1, StutterChain DEF Base
<1>2. ASSUME NEW t \in Threads, Scheduled(t), Step(t) PROVE ChainInv'
  BY <1>2, StepChain
<1> QED  BY <1>1, <1>2 DEF Next, Done

-----------------------------------------------------------------------------
\* Between write-backs the nodes that Index::sum walks are those of the list.
LEMMA QuietChain ==
  ASSUME TypeInv, ListInv, Quiet
  PROVE  /\ Chain = Chained \ {HeadNode} /\ HeadNode \in Chained /\ Chained \subseteq Allocated
         /\ \A n \in Chained : NowNext[n] = heap[n].next /\ KeyOf[n] = heap[n].key
<1>1. NowNext = [n \in Allocated |-> heap[n].next]
  BY QuietNow DEF NowNext
<1>2. Chained \subseteq Allocated /\ Sorted(Chained, NowNext, KeyOf)
  BY ChainedAllocated DEF ListInv
<1>3. ChainOf(NowNext) = Chained \ {HeadNode}
  BY <1>2, HeadAllocated, ChainIs
<1>4. Chain = ChainOf(NowNext)
  BY <1>1 DEF Chain
<1> QED  BY <1>1, <1>2, <1>3, <1>4 DEF KeyOf, Sorted

\* The list, the snapshots of the open transactions and the progress of each agree.
THEOREM ChainHolds == ASSUME Coarse, LastKept PROVE Spec => [](Base /\ ChainInv)
<1>1. Init => Base /\ ChainInv
  BY InitBase, InitChain
<1>2. Base /\ ChainInv /\ [Next]_vars => (Base /\ ChainInv)'
  BY NextBase, NextChain
<1> QED  BY <1>1, <1>2, PTL DEF Spec

\* However the calls of the threads interleave, a walk along the list meets its keys
\* in ascending order and no node that was removed: a transaction that lost a node
\* or a neighbour to another one's commit does not get to write.
THEOREM ChainSortedCorrect == ASSUME Coarse, LastKept PROVE Spec => []ChainSorted
<1>1. Base /\ ChainInv => ChainSorted
  <2> SUFFICES ASSUME Base, ChainInv, Quiet, NEW n \in Chain \cup {HeadNode}
               PROVE  ~heap[n].deleted /\ (heap[n].next # NULL => heap[n].key < heap[heap[n].next].key)
    BY DEF ChainSorted
  <2>1. TypeInv /\ ListInv
    BY DEF Base, ChainInv
  <2>2. /\ n \in Chained /\ n \in Allocated /\ NowNext[n] = heap[n].next
        /\ \A m \in Chained : KeyOf[m] = heap[m].key
    BY <2>1, QuietChain
  <2>3. ~heap[n].deleted
    BY <2>1, <2>2 DEF ListInv, DeletedToBe
  <2>4. ASSUME heap[n].next # NULL PROVE heap[n].key < heap[heap[n].next].key
    <3>1. NowNext[n] \in Chained /\ KeyOf[n] < KeyOf[NowNext[n]]
      BY <2>1, <2>2, <2>4 DEF ListInv, Sorted
    <3> QED  BY <2>2, <3>1
  <2> QED  BY <2>3, <2>4
<1> QED  BY <1>1, ChainHolds, PTL

\* Every key is in the list as often as the transactions that committed have it, once
\* or not at all: no commit loses an insert of another one or makes it twice.
THEOREM CommittedSumCorrect == ASSUME Coarse, LastKept PROVE Spec => []CommittedSum
<1>1. Base /\ ChainInv => CommittedSum
  <2> SUFFICES ASSUME Base, ChainInv, Quiet, NEW k \in Keys
               PROVE  Cardinality({n \in Chain : heap[n].key = k}) = (IF k \in Elems(Warm) THEN 1 ELSE 0) + net[k]
    BY DEF CommittedSum
  <2>1. TypeInv /\ ListInv
    BY DEF Base, ChainInv
  <2>2. Chain = Chained \ {HeadNode} /\ \A n \in Chained : KeyOf[n] = heap[n].key
    BY <2>1, QuietChain
  <2>3. PICK H : H = {n \in Chain : heap[n].key = k}
    OBVIOUS
  <2>4. Cardinality(H) = Has(Chained, k)
    <3>1. CASE H = {}
      BY <2>2, <2>3, <3>1, FS_EmptySet DEF Has
    <3>2. CASE H # {}
      <4>1. PICK n : n \in H
        BY <3>2
      <4>2. H = {n}
        BY <2>1, <2>2, <2>3, <4>1 DEF ListInv, Sorted
      <4>3. Cardinality(H) = 1
        BY <4>2, FS_Singleton, SMTT(30)
      <4> QED  BY <2>2, <2>3, <4>1, <4>3 DEF Has
    <3> QED  BY <3>1, <3>2
  <2> QED  BY <2>1, <2>3, <2>4 DEF ListInv
<1> QED  BY <1>1, ChainHolds, PTL

-----------------------------------------------------------------------------
\* The steps that may throw.
LEMMA AbortSteps ==
  ASSUME TypeInv, NEW t \in Threads, Step(t), pc[t] # "abort", pc'[t] = "abort"
  PROVE  Load(t) \/ TryLock(t) \/ Invalid(t)
<1> USE DEF TypeInv, TypeOK
<1>1. ASSUME TXBegin(t) \/ TXCommit(t) \/ AddAndFetch(t) \/ Finish(t) PROVE FALSE
  BY <1>1, Zenon DEF TXBegin, TXCommit, AddAndFetch, Finish
<1>2. ASSUME Seek(t) \/ Restart(t) \/ Walk(t) \/ Remove(t) \/ Validate(t) PROVE FALSE
  BY <1>2, Zenon DEF Seek, Restart, Walk, Remove, Validate, Visit
<1>3. ASSUME Contains(t) \/ Insert(t) \/ Refuse(t) \/ Unlink(t) PROVE FALSE
  BY <1>3, Zenon DEF Contains, Insert, Refuse, Unlink, Return
<1>4. ASSUME Store(t) \/ Unlock(t) \/ UpdateIndex(t) PROVE FALSE
  BY <1>4, Zenon DEF Store, Unlock, UpdateIndex
<1> QED  BY <1>1, <1>2, <1>3, <1>4 DEF Step

\* A node that stands in the way of t.
Conflict(t) ==
    \E n \in Items(t) \cup Elems(tx[t].readSet) \cup ({reg[t].node} \ {NULL}) :
      \/ heap[n].version > tx[t].readVersion
      \/ heap[n].owner \notin {NoOwner, t}

LEMMA AbortConflict ==
  ASSUME Base, ChainInv, NEW t \in Threads, Step(t), pc[t] # "abort", pc'[t] = "abort"
  PROVE  Conflict(t)
<1>1. TypeInv /\ LockInv /\ ListInv /\ TxInv(t)
  BY DEF Base, ChainInv
<1>2. CASE Load(t)
  <2>1. PICK a \in todo[t] : heap[a[1]].locked \/ TooNew(t, a[1])
    <3>1. PICK a \in todo[t] : LET n == a[1]  f == a[2]
                               IN \/ heap[n].locked \/ (f = "version" /\ TooNew(t, n))
                                  \/ UNCHANGED <<pc, ret, history>>
      BY <1>2, Zenon DEF Load, Due
    <3> QED  BY <3>1
  <2>2. pc[t] = "load" /\ InTx(t)
    BY <1>2 DEF Load, InTx
  <2>3. a[1] = reg[t].node
    BY <1>1, <2>2 DEF TxInv, Snapshot, Reading, HasLoaded
  <2>4. reg[t].node \in Allocated /\ reg[t].node # NULL
    BY <1>1, <2>2 DEF TypeInv, Control, Pointers, Pointer
  <2>5. ~heap[reg[t].node].locked
    BY <1>1, <2>4 DEF ListInv
  <2>6. heap[reg[t].node].version > tx[t].readVersion
    BY <2>1, <2>3, <2>5 DEF TooNew
  <2> QED  BY <2>4, <2>6 DEF Conflict
<1>3. CASE TryLock(t)
  <2>1. PICK n \in Items(t) \ Elems(locks[t]) : ~Free(n)
    BY <1>1, <1>3 DEF TryLock, Lock
  <2>2. n \in Allocated
    BY <1>1, <2>1, FreshAllocated
  <2>3. heap[n].owner # NoOwner /\ heap[n].owner # t
    BY <1>1, <2>1, <2>2 DEF LockInv, Listed, Free
  <2> QED  BY <2>1, <2>3 DEF Conflict
<1>4. CASE Invalid(t)
  <2>1. pc[t] = "load" /\ ret[t] = "validate" /\ todo[t] = {} /\ reg[t].next = NULL /\ InTx(t)
    BY <1>4 DEF Invalid, Loaded, InTx
  <2>2. PICK S, N : Snapshot(t, S, N)
    BY <1>1, <2>1 DEF TxInv
  <2>3. reg[t].next = ViewNext(t, N)[reg[t].node] /\ reg[t].node \in Elems(tx[t].readSet)
    BY <2>1, <2>2 DEF Snapshot, Reading, At, HasLoaded, Elems
  <2> QED  BY <2>1, <2>2, <2>3 DEF Snapshot, Logged
<1> QED  BY <1>1, <1>2, <1>3, <1>4, AbortSteps

\* A transaction that is alone with what it reads and writes is never made to abort:
\* a throw always names a node that another one has written or has locked.
THEOREM AbortsCorrect == ASSUME Coarse, LastKept PROVE Spec => AbortOnlyOnConflict
<1> DEFINE A == \A t \in Threads : (pc[t] # "abort" /\ pc'[t] = "abort") => Conflict(t)
<1>1. Base /\ ChainInv /\ [Next]_vars => [A]_vars
  <2> SUFFICES ASSUME Base, ChainInv, NEW u \in Threads, Step(u), NEW t \in Threads, pc[t] # "abort", pc'[t] = "abort"
               PROVE  Conflict(t)
    BY DEF Next, Done
  <2>1. u = t
    BY OthersSame DEF Base, SameLocals
  <2> QED  BY <2>1, AbortConflict
<1>2. [][A]_vars => AbortOnlyOnConflict
  BY PTL DEF AbortOnlyOnConflict, Conflict
<1> QED  BY <1>1, <1>2, ChainHolds, PTL DEF Spec

-----------------------------------------------------------------------------
\* The index and the chain.  This part holds for every Grain, with Reorder or without it.

\* A node that is inserted and removed is inserted first.
Tidy(s) == \A i, j \in DOMAIN s : i < j /\ s[i].op = "remove" /\ s[j].op = "insert" => s[i].node # s[j].node

Deleting(t, n) == <<n, "deleted">> \in todo[t]

\* What t has committed: the index is to lose what t has removed, not before it is deleted.
Owes(t) ==
    /\ Entry(t, "remove") \subseteq Cut(t)
    /\ \A n \in Allocated : Deleting(t, n) => n \in Cut(t)
    /\ \A n \in Cut(t) : Deleting(t, n) \/ heap[n].deleted
    /\ \A n \in Cut(t) : Deleting(t, n) \/ n \in Fresh(t) => n \in Entry(t, "remove")

\* What t is to tell the index, by where it is.
Entries(t) ==
    /\ Tidy(tx[t].indexTodo) /\ \A e \in Elems(tx[t].indexTodo) : e.op \in {"insert", "remove"}
    /\ Fresh(t) \subseteq Items(t)
    /\ InTx(t) => Entry(t, "remove") = Cut(t)
    /\ pc[t] = "publish" => Owes(t)
    /\ pc[t] = "idle" => tx[t] = NoTx
    /\ pc[t] = "abort" => todo[t] = {}
    /\ Unpublished(t) => \A n \in Fresh(t) : ~heap[n].deleted

\* The nodes that no index leads to and none will, though they were not deleted: those of
\* transactions that aborted.
Leaked == {n \in Allocated : n \notin index /\ ~heap[n].deleted /\ \A t \in Threads : n \notin Fresh(t)}

IndexInv ==
    /\ \A t \in Threads : Entries(t) /\ Avoids(t, Leaked)
    /\ \A m \in Allocated : m \notin Leaked => heap[m].next \notin Leaked
    /\ HeadNode \notin Leaked /\ \A t \in Threads : HeadNode \notin Fresh(t)

LEMMA TidyAppend ==
  ASSUME NEW E, NEW s \in Seq(E), NEW e \in E, Tidy(s), e.op = "remove" \/ \A i \in Elems(s) : i.node # e.node
  PROVE  Tidy(Append(s, e))
<1>1. /\ DOMAIN s = 1..Len(s) /\ DOMAIN Append(s, e) = 1..(Len(s) + 1) /\ Len(s) \in Nat
      /\ \A i \in 1..Len(s) : Append(s, e)[i] = s[i]
      /\ Append(s, e)[Len(s) + 1] = e
  BY AppendProperties, LenProperties
<1>2. PICK q : q = Append(s, e)
  OBVIOUS
<1>3. ASSUME NEW i \in DOMAIN q, NEW j \in DOMAIN q, i < j, q[i].op = "remove", q[j].op = "insert"
      PROVE  q[i].node # q[j].node
  <2>1. i \in DOMAIN s /\ q[i] = s[i]
    BY <1>1, <1>2, <1>3
  <2>2. CASE j \in DOMAIN s
    <3>1. q[j] = s[j]
      BY <1>1, <1>2, <2>2
    <3> QED  BY <1>3, <2>1, <2>2, <3>1 DEF Tidy
  <2>3. CASE j \notin DOMAIN s
    <3>1. q[j] = e /\ s[i] \in Elems(s)
      BY <1>1, <1>2, <2>1, <2>3 DEF Elems
    <3> QED  BY <1>3, <2>1, <3>1
  <2> QED  BY <2>2, <2>3
<1> QED  BY <1>2, <1>3 DEF Tidy

\* The calls of t that have the index learn of node n.
Tells(t, n, o) == \/ Insert(t) /\ o = "insert" /\ n = Len(heap) + 1
                  \/ Unlink(t) /\ o = "remove" /\ n = reg[t].node

Grows(t, i) ==
    /\ tx'[t].indexTodo = Append(tx[t].indexTodo, i)
    /\ Elems(tx'[t].indexTodo) = Elems(tx[t].indexTodo) \cup {i}
    /\ tx[t].indexTodo \in Seq(IndexOperation) /\ i \in IndexOperation

LEMMA TodoGrows ==
  ASSUME TypeInv, NEW t \in Threads, NEW n \in Nodes, NEW o, Tells(t, n, o)
  PROVE  Grows(t, [node |-> n, op |-> o])
<1> PICK w, v, e, s : /\ w = Joins(Leads(tx[t].writeSet, reg[t].node, n), n) /\ e = [node |-> n, op |-> o]
                      /\ v = Goes(Leads(tx[t].writeSet, reg[t].pred, reg[t].next), n)
                      /\ s = tx[t].indexTodo
  OBVIOUS
<1>1. t \in DOMAIN tx /\ tx[t] \in Transaction(Items(t)) /\ s \in Seq(IndexOperation)
  BY DEF TypeInv, TypeOK, Transaction
<1>2. e \in IndexOperation
  BY DEF IndexOperation, OpTypes, Tells
<1>3. CASE Insert(t) /\ o = "insert" /\ n = Len(heap) + 1
  <2>1. tx' = [tx EXCEPT ![t].readSet = Read(t), ![t].writeSet = w, ![t].indexTodo = Append(@, e)]
    BY <1>3 DEF Insert, Leads, Joins
  <2>2. tx'[t].indexTodo = Append(s, e)
    BY <1>1, <2>1 DEF Transaction
  <2> QED  BY <1>1, <1>2, <2>2, AppendElems DEF Grows
<1>4. CASE Unlink(t) /\ o = "remove" /\ n = reg[t].node
  <2>1. tx' = [tx EXCEPT ![t].writeSet = v, ![t].indexTodo = Append(@, e)]
    BY <1>4 DEF Unlink, Leads, Goes
  <2>2. tx'[t].indexTodo = Append(s, e)
    BY <1>1, <2>1 DEF Transaction
  <2> QED  BY <1>1, <1>2, <2>2, AppendElems DEF Grows
<1> QED  BY <1>3, <1>4 DEF Tells, Grows

LEMMA TidyTail ==
  ASSUME NEW E, NEW s \in Seq(E), s # <<>>, Tidy(s)
  PROVE  /\ Tidy(Tail(s)) /\ Elems(s) = Elems(Tail(s)) \cup {s[1]} /\ s[1] \in E
         /\ s[1].op = "remove" => \A e \in Elems(Tail(s)) : e.op = "insert" => e.node # s[1].node
<1>1. /\ DOMAIN s = 1..Len(s) /\ Len(s) \in Nat /\ Len(s) >= 1 /\ DOMAIN Tail(s) = 1..(Len(s) - 1)
      /\ \A i \in 1..(Len(s) - 1) : Tail(s)[i] = s[i + 1]
  BY LenProperties, HeadTailProperties
<1>2. PICK q : q = Tail(s)
  OBVIOUS
<1>3. Tidy(q)
  BY <1>1, <1>2 DEF Tidy
<1>4. Elems(s) = Elems(q) \cup {s[1]}
  <2>1. ASSUME NEW i \in DOMAIN s PROVE s[i] \in Elems(q) \cup {s[1]}
    <3>1. CASE i = 1
      BY <3>1
    <3>2. CASE i # 1
      <4>1. i - 1 \in DOMAIN q /\ q[i - 1] = s[i]
        BY <1>1, <1>2, <3>2
      <4> QED  BY <4>1 DEF Elems
    <3> QED  BY <3>1, <3>2
  <2>2. \A i \in DOMAIN q : q[i] \in Elems(s)
    <3>1. \A i \in DOMAIN q : i + 1 \in DOMAIN s /\ q[i] = s[i + 1]
      BY <1>1, <1>2
    <3> QED  BY <3>1 DEF Elems
  <2>3. s[1] \in Elems(s)
    BY <1>1 DEF Elems
  <2> QED  BY <2>1, <2>2, <2>3 DEF Elems
<1>5. ASSUME s[1].op = "remove", NEW e \in Elems(q), e.op = "insert" PROVE e.node # s[1].node
  <2>1. PICK j \in DOMAIN q : e = q[j]
    BY DEF Elems
  <2>2. j + 1 \in DOMAIN s /\ 1 \in DOMAIN s /\ 1 < j + 1 /\ e = s[j + 1]
    BY <1>1, <1>2, <2>1
  <2> QED  BY <1>5, <2>2 DEF Tidy
<1> QED  BY <1>1, <1>2, <1>3, <1>4, <1>5

\* The steps of t that leave its write set and its entries as they are.
LEMMA NothingWritten ==
  ASSUME TypeInv, NEW t \in Threads, Step(t), ~TXBegin(t), ~Insert(t), ~Unlink(t), ~AddAndFetch(t),
         ~UpdateIndex(t), ~Finish(t)
  PROVE  SameWrites(t) /\ (InTx(t)' => InTx(t))
<1>0. pc \in [Threads -> PCs]
  BY DEF TypeInv, TypeOK
<1>1. CASE Contains(t) \/ Refuse(t) \/ Remove(t)
  <2>1. \E rs : tx' = [tx EXCEPT ![t].readSet = rs]
    BY <1>1 DEF Contains, Refuse, Remove
  <2>2. SameWrites(t)
    BY <2>1, TxReads
  <2>3. InTx(t)
    BY <1>1 DEF Contains, Refuse, Remove, Arrived, InWalk, Loaded, InTx
  <2> QED  BY <2>2, <2>3
<1>2. CASE Seek(t) \/ Restart(t) \/ Walk(t) \/ Load(t) \/ TXCommit(t) \/ TryLock(t) \/ Validate(t) \/ Invalid(t)
  <2>1. tx' = tx
    BY <1>2, Zenon DEF Seek, Restart, Walk, Load, TXCommit, TryLock, Validate, Invalid
  <2>2. InTx(t)
    BY <1>2, Zenon DEF Seek, Restart, Walk, Load, TXCommit, TryLock, Validate, Validating, Invalid, InWalk, Loaded, InTx
  <2> QED  BY <2>1, <2>2 DEF SameWrites
<1>3. CASE Store(t) \/ Unlock(t)
  BY <1>3, Zenon DEF Store, Unlock, SameWrites, InTx
<1> QED  BY <1>1, <1>2, <1>3 DEF Step

-----------------------------------------------------------------------------
\* What each step makes of the entries of t.
Keeps(t) ==
    /\ SameWrites(t) /\ (InTx(t)' => InTx(t))
    /\ pc'[t] = "idle" => pc[t] = "idle" /\ tx'[t] = tx[t]
    /\ pc'[t] = "abort" => todo'[t] = {}
    /\ pc'[t] = "publish" => /\ pc[t] = "publish" /\ todo'[t] \subseteq todo[t]
                             /\ \A n \in Allocated : heap[n].deleted \/ Deleting(t, n)
                                                       => heap'[n].deleted \/ Deleting(t, n)'
    /\ Unpublished(t)' => Unpublished(t) /\ \A n \in Fresh(t) : ~heap'[n].deleted

LEMMA EntriesKeep ==
  ASSUME TypeInv, NEW t \in Threads, Entries(t), Keeps(t) PROVE Entries(t)'
<1>1. /\ tx'[t].indexTodo = tx[t].indexTodo /\ tx'[t].writeSet = tx[t].writeSet
  BY DEF Keeps, SameWrites
<1>2. /\ Fresh(t)' = Fresh(t) /\ Entry(t, "remove")' = Entry(t, "remove")
      /\ Cut(t)' = Cut(t) /\ Items(t)' = Items(t)
  BY <1>1 DEF Fresh, Entry, Cut, Items
<1>3. Cut(t) \subseteq Allocated /\ todo[t] \subseteq Allocated \X Fields
  BY DEF Cut, TypeInv, Pointers
<1>4. ASSUME pc'[t] = "publish" PROVE Owes(t)'
  <2>1. Owes(t) /\ todo'[t] \subseteq todo[t]
    BY <1>4 DEF Entries, Keeps
  <2>2. \A n : Deleting(t, n)' => Deleting(t, n)
    BY <2>1 DEF Deleting
  <2>3. \A n : Deleting(t, n) => n \in Allocated
    BY <1>3 DEF Deleting
  <2>4. \A n \in Cut(t) : Deleting(t, n)' \/ heap'[n].deleted
    BY <1>3, <1>4, <2>1 DEF Owes, Keeps
  <2>5. \A n : Deleting(t, n)' => n \in Cut(t)
    BY <2>1, <2>2, <2>3 DEF Owes
  <2>6. \A n \in Cut(t) : Deleting(t, n)' \/ n \in Fresh(t) => n \in Entry(t, "remove")
    BY <2>1, <2>2 DEF Owes
  <2>7. Entry(t, "remove") \subseteq Cut(t)
    BY <2>1 DEF Owes
  <2> QED  BY <1>2, <2>4, <2>5, <2>6, <2>7 DEF Owes
<1>5. /\ Tidy(tx'[t].indexTodo) /\ (\A e \in Elems(tx'[t].indexTodo) : e.op \in {"insert", "remove"})
      /\ Fresh(t) \subseteq Items(t)
  BY <1>1 DEF Entries
<1>6. /\ InTx(t)' => Entry(t, "remove") = Cut(t)
      /\ pc'[t] = "idle" => tx'[t] = NoTx
      /\ pc'[t] = "abort" => todo'[t] = {}
      /\ Unpublished(t)' => \A n \in Fresh(t) : ~heap'[n].deleted
  BY DEF Entries, Keeps
<1> QED  BY <1>2, <1>4, <1>5, <1>6 DEF Entries

\* What is deleted stays deleted, and a write-back deletes what its transaction has cut off.
LEMMA DeletedBy ==
  ASSUME TypeInv, NEW t \in Threads, Step(t), NEW n \in Allocated
  PROVE  /\ n \in Allocated' /\ (heap[n].deleted => heap'[n].deleted)
         /\ heap'[n].deleted => heap[n].deleted \/ (Store(t) /\ pc[t] = "publish" /\ Deleting(t, n))
<1>1. CASE Store(t)
  <2>1. PICK m, f : Stored(t, m, f)
    BY <1>1, StoreSets
  <2>2. CASE m = n
    BY <1>1, <2>1, <2>2 DEF Stored, Deleting
  <2>3. CASE m # n
    BY <2>1, <2>3 DEF Stored
  <2> QED  BY <2>2, <2>3
<1>2. CASE ~Store(t)
  BY <1>2, HeapKept
<1> QED  BY <1>1, <1>2

\* The other threads.
LEMMA OthersEntries ==
  ASSUME TypeInv, NEW t \in Threads, Step(t), NEW u \in Threads \ {t}, Entries(u), Unpublished(u) => Avoids(t, Fresh(u))
  PROVE  Entries(u)'
<1>1. SameLocals(u)
  BY OthersSame
<1>2. pc'[u] = pc[u] /\ tx'[u] = tx[u] /\ todo'[u] = todo[u]
  BY <1>1 DEF SameLocals
<1>3. \A n : Deleting(u, n)' <=> Deleting(u, n)
  BY <1>2 DEF Deleting
<1>4. \A n \in Allocated : heap[n].deleted => heap'[n].deleted
  BY DeletedBy
<1>5. ASSUME Unpublished(u), NEW n \in Fresh(u) PROVE ~heap'[n].deleted
  <2>1. n \in Allocated /\ ~heap[n].deleted
    BY <1>5, FreshAllocated DEF Entries
  <2>2. ~Deleting(t, n)
    <3>1. n \notin Reach(t)
      BY <1>5 DEF Avoids
    <3>2. Deleting(t, n) => n \in {a[1] : a \in todo[t]}
      BY DEF Deleting
    <3> QED  BY <3>1, <3>2 DEF Reach
  <2> QED  BY <2>1, <2>2, DeletedBy
<1>6. Keeps(u)
  BY <1>2, <1>3, <1>4, <1>5 DEF Keeps, SameWrites, InTx, Unpublished, Entries
<1> QED  BY <1>6, EntriesKeep

-----------------------------------------------------------------------------
\* The thread that takes the step.
LEMMA PlainEntries ==
  ASSUME TypeInv, NEW t \in Threads, Step(t), ~TXBegin(t), ~Insert(t), ~Unlink(t), ~AddAndFetch(t),
         ~UpdateIndex(t), ~Finish(t), Entries(t)
  PROVE  Entries(t)'
<1>1. SameWrites(t) /\ (InTx(t)' => InTx(t))
  BY NothingWritten
<1>2. \A n \in Fresh(t) : n \in Allocated
  BY FreshAllocated
<1>3. CASE Store(t)
  <2>1. PICK m, f : Stored(t, m, f)
    BY <1>3, StoreSets
  <2>2. pc[t] = "publish" /\ pc'[t] = "publish" /\ todo'[t] = todo[t] \ {<<m, f>>}
    BY <2>1 DEF Stored
  <2>3. ASSUME NEW n \in Allocated, heap[n].deleted \/ Deleting(t, n) PROVE heap'[n].deleted \/ Deleting(t, n)'
    <3>1. CASE heap[n].deleted
      BY <3>1, DeletedBy
    <3>2. CASE Deleting(t, n) /\ n = m /\ f = "deleted"
      BY <2>1, <3>2 DEF Stored
    <3>3. CASE Deleting(t, n) /\ ~(n = m /\ f = "deleted")
      BY <2>2, <3>3 DEF Deleting
    <3> QED  BY <2>3, <3>1, <3>2, <3>3
  <2>4. Keeps(t)
    BY <1>1, <2>2, <2>3 DEF Keeps, Unpublished
  <2> QED  BY <2>4, EntriesKeep
<1>4. CASE ~Store(t)
  <2>1. \A n \in Allocated : heap'[n].deleted = heap[n].deleted
    BY <1>4, HeapKept
  <2>2. CASE Unlock(t)
    <3>1. pc' = pc /\ todo' = todo /\ tx' = tx
      BY <2>2 DEF Unlock
    <3>2. Keeps(t)
      BY <1>1, <1>2, <2>1, <3>1 DEF Keeps, Unpublished, Deleting, Entries
    <3> QED  BY <3>2, EntriesKeep
  <2>3. CASE ~Unlock(t)
    <3>1. pc[t] \notin {"publish", "idle", "abort"} /\ pc'[t] \notin {"publish", "idle"}
          /\ (pc'[t] = "abort" => todo'[t] = {})
      <4>1. CASE TXCommit(t)
        BY <4>1 DEF TXCommit, TypeInv, TypeOK
      <4>2. CASE Contains(t) \/ Refuse(t)
        BY <4>2 DEF Contains, Refuse, Return, Arrived, InWalk, Loaded, TypeInv, TypeOK
      <4>3. CASE Seek(t) \/ Restart(t) \/ Walk(t) \/ Remove(t) \/ Validate(t)
        BY <4>3 DEF Seek, Restart, Walk, Remove, Validate, Visit, Validating, Arrived, InWalk, Loaded, TypeInv, TypeOK
      <4>4. CASE Load(t) \/ Invalid(t) \/ TryLock(t)
        BY <4>4 DEF Load, Invalid, TryLock, Lock, Throw, Loaded, TypeInv, TypeOK
      <4> QED  BY <1>4, <2>3, <4>1, <4>2, <4>3, <4>4 DEF Step
    <3>2. Keeps(t)
      BY <1>1, <1>2, <2>1, <3>1 DEF Keeps, Unpublished, Entries
    <3> QED  BY <3>2, EntriesKeep
  <2> QED  BY <2>2, <2>3
<1> QED  BY <1>3, <1>4

\* A transaction that has not called anything has nothing to tell.
LEMMA EmptyEntries ==
  ASSUME NEW t \in Threads, tx'[t].indexTodo = <<>>, tx'[t].writeSet = [n \in {} |-> NULL],
         pc'[t] \notin {"publish", "abort"}, pc'[t] = "idle" => tx'[t] = NoTx
  PROVE  Entries(t)'
<1>1. Cut(t)' = {} /\ Entry(t, "remove")' = {} /\ Fresh(t)' = {}
  BY NothingYet DEF Cut, Items, Entry, Fresh
<1> QED  BY <1>1, NothingYet DEF Entries, Tidy

LEMMA BeginEndEntries ==
  ASSUME TypeInv, NEW t \in Threads, TXBegin(t) \/ Finish(t), Entries(t) PROVE Entries(t)'
<1>1. CASE Finish(t)
  <2>1. tx'[t] = NoTx /\ pc'[t] = "idle"
    BY <1>1 DEF Finish, TypeInv, TypeOK
  <2> QED  BY <2>1, EmptyEntries DEF NoTx
<1>2. CASE TXBegin(t)
  <2>1. tx[t] = NoTx /\ tx'[t] = [NoTx EXCEPT !.readVersion = gvc] /\ pc'[t] = "ready"
    BY <1>2 DEF TXBegin, Entries, TypeInv, TypeOK
  <2>2. tx'[t].indexTodo = <<>> /\ tx'[t].writeSet = [n \in {} |-> NULL]
    BY <2>1 DEF NoTx
  <2> QED  BY <2>1, <2>2, EmptyEntries
<1> QED  BY <1>1, <1>2

LEMMA FetchEntries ==
  ASSUME TypeInv, NEW t \in Threads, AddAndFetch(t), Entries(t) PROVE Entries(t)'
<1> PICK ws : ws = tx[t].writeSet
  OBVIOUS
<1>1. /\ InTx(t) /\ pc'[t] = "publish" /\ todo'[t] = Stores(ws)
      /\ tx'[t].writeSet = ws /\ tx'[t].indexTodo = tx[t].indexTodo
  <2>1. t \in DOMAIN tx /\ tx[t] \in Transaction(Items(t)) /\ t \in DOMAIN todo /\ t \in DOMAIN pc
    BY DEF TypeInv, TypeOK
  <2>2. /\ tx' = [tx EXCEPT ![t].writeVersion = gvc + 1] /\ todo' = [todo EXCEPT ![t] = Stores(ws)]
        /\ pc' = [pc EXCEPT ![t] = "publish"] /\ InTx(t)
    BY DEF AddAndFetch, Validating, Loaded, InTx
  <2> QED  BY <2>1, <2>2 DEF Transaction
<1>2. /\ Fresh(t)' = Fresh(t) /\ Entry(t, "remove")' = Entry(t, "remove")
      /\ Cut(t)' = Cut(t) /\ Items(t)' = Items(t)
  BY <1>1 DEF Fresh, Entry, Cut, Items
<1>3. \A n : Deleting(t, n)' <=> n \in Cut(t)
  BY <1>1, StoresAre DEF Deleting, Cut, Items
<1>4. Entry(t, "remove") = Cut(t)
  BY <1>1 DEF Entries
<1>5. Owes(t)'
  BY <1>2, <1>3, <1>4 DEF Owes
<1>6. ~InTx(t)'
  BY <1>1 DEF InTx
<1> QED  BY <1>1, <1>2, <1>5, <1>6 DEF Entries, Unpublished

\* The first entry e of the index, and what is left to tell.
Consumes(t, e) ==
    /\ Written(t) /\ UNCHANGED <<heap, pc, todo, reg>> /\ index' = IndexAfter(e)
    /\ tx'[t].writeSet = tx[t].writeSet /\ Tidy(tx'[t].indexTodo)
    /\ e \in Elems(tx[t].indexTodo)
    /\ Elems(tx[t].indexTodo) = Elems(tx'[t].indexTodo) \cup {e}
    /\ e.op = "remove" => \A i \in Elems(tx'[t].indexTodo) : i.op = "insert" => i.node # e.node

LEMMA UpdateConsumes ==
  ASSUME TypeInv, NEW t \in Threads, UpdateIndex(t), Entries(t) PROVE \E e : Consumes(t, e)
<1> PICK s, e : s = tx[t].indexTodo /\ e = s[1]
  OBVIOUS
<1>1. s \in Seq(IndexOperation) /\ s # <<>> /\ Tidy(s)
  BY DEF UpdateIndex, TypeInv, TypeOK, Transaction, Entries
<1>2. tx'[t].indexTodo = Tail(s) /\ tx'[t].writeSet = tx[t].writeSet
  <2>1. t \in DOMAIN tx /\ tx[t] \in Transaction(Items(t))
    BY DEF TypeInv, TypeOK
  <2> QED  BY <2>1 DEF UpdateIndex, Transaction
<1>3. /\ Tidy(Tail(s)) /\ Elems(s) = Elems(Tail(s)) \cup {e}
      /\ e.op = "remove" => \A i \in Elems(Tail(s)) : i.op = "insert" => i.node # e.node
  BY <1>1, TidyTail
<1>4. Consumes(t, e)
  BY <1>2, <1>3 DEF Consumes, UpdateIndex
<1> QED  BY <1>4

LEMMA UpdateEntries ==
  ASSUME TypeInv, NEW t \in Threads, UpdateIndex(t), Entries(t) PROVE Entries(t)'
<1> PICK e : Consumes(t, e)
  BY UpdateConsumes
<1>1. /\ pc[t] = "publish" /\ todo[t] = {} /\ pc' = pc /\ todo' = todo /\ heap' = heap
      /\ e.op \in {"insert", "remove"} /\ Owes(t)
  BY DEF Consumes, Written, Entries
<1>2. Cut(t)' = Cut(t) /\ Items(t)' = Items(t)
  BY DEF Consumes, Cut, Items
<1>3. \A o : /\ Entry(t, o)' \subseteq Entry(t, o)
             /\ \A n \in Entry(t, o) : n \in Entry(t, o)' \/ (e.op = o /\ n = e.node)
  BY DEF Consumes, Entry
<1>4. e.op = "remove" => e.node \notin Fresh(t)'
  BY DEF Consumes, Entry, Fresh
<1>5. Fresh(t)' \subseteq Fresh(t)
  BY <1>3 DEF Fresh
<1>6. \A n : Deleting(t, n)' <=> Deleting(t, n)
  BY <1>1 DEF Deleting
<1>7. Owes(t)'
  <2>1. \A n \in Cut(t) : ~Deleting(t, n)
    BY <1>1 DEF Deleting
  <2>2. ASSUME NEW n \in Cut(t), n \in Fresh(t)' PROVE n \in Entry(t, "remove")'
    <3>1. n \in Entry(t, "remove")
      BY <1>1, <1>5, <2>2 DEF Owes
    <3> QED  BY <1>3, <1>4, <2>2, <3>1
  <2>3. Entry(t, "remove")' \subseteq Cut(t)
    BY <1>1, <1>3 DEF Owes
  <2> QED  BY <1>1, <1>2, <1>6, <2>1, <2>2, <2>3 DEF Owes, Allocated
<1>8. \A i \in Elems(tx'[t].indexTodo) : i.op \in {"insert", "remove"}
  BY DEF Consumes, Entries
<1>9. Fresh(t)' \subseteq Items(t)
  BY <1>5 DEF Entries
<1> QED  BY <1>1, <1>2, <1>7, <1>8, <1>9 DEF Consumes, Entries, InTx, Unpublished

\* What addItem makes of a write set.
Flagged(ws) == {m \in DOMAIN ws : ws[m].deleted}
Flags(ws) == \A m \in DOMAIN ws : ws[m].deleted \in BOOLEAN
Adds(ws, n, del, w) ==
    /\ DOMAIN w = DOMAIN ws \cup {n} /\ Flags(w)
    /\ Flagged(w) = Flagged(ws) \cup {m \in {n} : del}

LEMMA AddItemCut ==
  ASSUME NEW ws, NEW n, NEW nx, NEW del \in BOOLEAN, Flags(ws)
  PROVE  Adds(ws, n, del, AddItem(ws, n, nx, del))
<1> PICK w : w = AddItem(ws, n, nx, del)
  OBVIOUS
<1>1. DOMAIN w = DOMAIN ws \cup {n}
  BY DEF AddItem
<1>2. ASSUME NEW m \in DOMAIN w
      PROVE  /\ w[m].deleted \in BOOLEAN
             /\ w[m].deleted <=> (m \in DOMAIN ws /\ ws[m].deleted) \/ (m = n /\ del)
  <2>1. CASE m # n
    BY <1>1, <2>1 DEF AddItem, Flags
  <2>2. CASE m = n /\ n \notin DOMAIN ws
    BY <1>1, <2>2 DEF AddItem
  <2>3. CASE m = n /\ n \in DOMAIN ws
    BY <1>1, <2>3 DEF AddItem, Flags
  <2> QED  BY <2>1, <2>2, <2>3
<1>3. \A m : m \in Flagged(w) <=> m \in Flagged(ws) \cup {k \in {n} : del}
  BY <1>1, <1>2 DEF Flagged
<1>4. Adds(ws, n, del, w)
  BY <1>1, <1>2, <1>3 DEF Adds, Flags
<1> QED  BY <1>4

\* The call of t has the index learn of node n.
LEMMA TellEntries ==
  ASSUME TypeInv, NEW t \in Threads, NEW n \in Nodes, NEW o, Tells(t, n, o), Entries(t),
         o = "insert" => n \notin Allocated /\ ~heap'[n].deleted /\ \A m \in Allocated : ~heap[m].deleted => ~heap'[m].deleted,
         o # "insert" => heap' = heap
  PROVE  Entries(t)'
<1>1. InTx(t) /\ pc'[t] = "ready" /\ o \in {"insert", "remove"}
  BY DEF Tells, Insert, Unlink, Arrived, InWalk, Loaded, InTx, Return, TypeInv, TypeOK
<1> PICK i : i = [node |-> n, op |-> o]
  OBVIOUS
<1>2. /\ tx'[t].indexTodo = Append(tx[t].indexTodo, i) /\ tx[t].indexTodo \in Seq(IndexOperation)
      /\ Elems(tx'[t].indexTodo) = Elems(tx[t].indexTodo) \cup {i} /\ i \in IndexOperation
      /\ i.node = n /\ i.op = o
  BY TodoGrows DEF Grows
<1>3. Tidy(tx'[t].indexTodo)
  <2>1. o = "insert" => \A j \in Elems(tx[t].indexTodo) : j.node # n
    BY TodoAllocated
  <2> QED  BY <1>1, <1>2, <2>1, TidyAppend DEF Entries
<1>4. /\ Items(t) \cup {n} \subseteq Items(t)' /\ Cut(t)' = Cut(t) \cup {m \in {n} : o = "remove"}
  <2> PICK ws, p, x, del, w, v :
           /\ del \in BOOLEAN /\ ws = tx[t].writeSet /\ w = AddItem(ws, p, x, FALSE) /\ v = AddItem(w, n, NULL, del)
           /\ del <=> o = "remove"
           /\ o = "insert" => p = reg[t].node /\ x = n
           /\ o = "remove" => p = reg[t].pred /\ x = reg[t].next
    <3>1. PICK del : del \in BOOLEAN /\ (del <=> o = "remove")
      OBVIOUS
    <3>2. PICK p, x : /\ o = "insert" => p = reg[t].node /\ x = n
                      /\ o = "remove" => p = reg[t].pred /\ x = reg[t].next
      OBVIOUS
    <3> QED  BY <3>1, <3>2
  <2>1. t \in DOMAIN tx /\ tx[t] \in Transaction(Items(t))
    BY DEF TypeInv, TypeOK
  <2>2. Flags(ws)
    BY <2>1 DEF Flags, Items, Transaction, Operation
  <2>3. tx'[t].writeSet = v
    <3>1. CASE Insert(t) /\ o = "insert" /\ n = Len(heap) + 1
      <4>1. PICK rs, s : tx' = [tx EXCEPT ![t].readSet = rs, ![t].writeSet = v, ![t].indexTodo = s]
        BY <3>1 DEF Insert
      <4> QED  BY <2>1, <4>1 DEF Transaction
    <3>2. CASE Unlink(t) /\ o = "remove" /\ n = reg[t].node
      <4>1. PICK s : tx' = [tx EXCEPT ![t].writeSet = v, ![t].indexTodo = s]
        BY <3>2 DEF Unlink
      <4> QED  BY <2>1, <4>1 DEF Transaction
    <3> QED  BY <3>1, <3>2 DEF Tells
  <2>4. Adds(ws, p, FALSE, w)
    <3>1. Adds(ws, p, FALSE, AddItem(ws, p, x, FALSE))
      BY <2>2, AddItemCut, Zenon
    <3> QED  BY <3>1
  <2>5. Adds(w, n, del, v)
    <3>1. Flags(w)
      BY <2>4 DEF Adds
    <3>2. Adds(w, n, del, AddItem(w, n, NULL, del))
      BY <3>1, AddItemCut, Zenon
    <3> QED  BY <3>2
  <2>6. DOMAIN v = DOMAIN ws \cup {p, n} /\ Flagged(v) = Flagged(ws) \cup {m \in {n} : del}
    BY <2>4, <2>5 DEF Adds
  <2>7. Flagged(ws) = Cut(t) /\ Flagged(v) = Cut(t)' /\ DOMAIN ws = Items(t) /\ DOMAIN v = Items(t)'
    BY <2>3 DEF Flagged, Cut, Items
  <2> QED  BY <2>6, <2>7
<1>5. \A k : Entry(t, k)' = Entry(t, k) \cup {m \in {n} : o = k}
  BY <1>2 DEF Entry
<1>6. Fresh(t)' = Fresh(t) \cup {m \in {n} : o = "insert"} /\ Fresh(t)' \subseteq Items(t)'
  BY <1>4, <1>5 DEF Fresh, Entries
<1>7. Entry(t, "remove")' = Cut(t)'
  BY <1>1, <1>4, <1>5 DEF Entries
<1>8. \A e \in Elems(tx'[t].indexTodo) : e.op \in {"insert", "remove"}
  BY <1>1, <1>2 DEF Entries
<1>9. ASSUME NEW m \in Fresh(t)' PROVE ~heap'[m].deleted
  <2>1. CASE m \in Fresh(t)
    <3>1. ~heap[m].deleted /\ m \in Allocated
      BY <1>1, <2>1, FreshAllocated DEF Entries, InTx, Unpublished
    <3> QED  BY <1>1, <3>1
  <2>2. CASE m \notin Fresh(t)
    BY <1>6, <1>9, <2>2
  <2> QED  BY <2>1, <2>2
<1> QED  BY <1>1, <1>3, <1>6, <1>7, <1>8, <1>9 DEF Entries

LEMMA OwnEntries ==
  ASSUME TypeInv, NEW t \in Threads, Step(t), Entries(t) PROVE Entries(t)'
<1>1. CASE Insert(t)
  <2>1. PICK e : e = Len(heap) + 1 /\ Born(t, e)
    BY <1>1, InsertBorn
  <2>2. e \in Nodes /\ e \notin Allocated
    <3>1. Len(heap) \in Nat /\ Len(heap) < MaxNodes
      BY <1>1, HeadAllocated DEF Insert
    <3> QED  BY <2>1, <3>1, BoundsAssumption DEF Nodes, Born, Pointer
  <2>3. \A m \in Allocated : heap'[m] = heap[m]
    BY <2>1 DEF Born
  <2>4. Tells(t, e, "insert") /\ ~heap'[e].deleted
    BY <1>1, <2>1 DEF Tells, Born
  <2> QED  BY <2>2, <2>3, <2>4, TellEntries
<1>2. CASE Unlink(t)
  <2>1. reg[t].node \in Nodes
    BY <1>2, HeapNodes DEF Unlink, Loaded, TypeInv, TypeOK, Pointers, Control, Pointer
  <2>2. Tells(t, reg[t].node, "remove") /\ heap' = heap
    BY <1>2 DEF Tells, Unlink, shared
  <2> QED  BY <2>1, <2>2, TellEntries
<1>3. CASE TXBegin(t) \/ Finish(t)
  BY <1>3, BeginEndEntries
<1>4. CASE ~(TXBegin(t) \/ Finish(t) \/ Insert(t) \/ Unlink(t) \/ AddAndFetch(t) \/ UpdateIndex(t))
  BY <1>4, PlainEntries
<1> QED  BY <1>1, <1>2, <1>3, <1>4, FetchEntries, UpdateEntries

-----------------------------------------------------------------------------
\* The nodes of an aborted transaction: no thread can get hold of them any more.
LEMMA AbortEffect ==
  ASSUME TypeInv, NEW t \in Threads, Finish(t), Entries(t)
  PROVE  /\ UNCHANGED <<heap, index>> /\ Fresh(t)' = {}
         /\ pc[t] = "publish" => Fresh(t) = {}
         /\ pc[t] # "publish" => Reach(t)' \subseteq {NULL}
<1>1. /\ UNCHANGED <<heap, index>> /\ Fresh(t)' = {} /\ todo' = todo /\ tx'[t] = NoTx /\ reg'[t] = NoReg
  BY FinishEffect DEF Finish, TypeInv, TypeOK
<1>2. pc[t] = "publish" => Fresh(t) = {}
  BY NothingYet DEF Finish, Written, Fresh, Entry
<1>3. pc[t] # "publish" => todo'[t] = {}
  BY <1>1 DEF Finish, Written, Entries
<1>4. {e.node : e \in Elems(tx'[t].indexTodo)} = {} /\ Elems(tx'[t].readSet) = {} /\ Items(t)' = {}
  BY <1>1, NothingYet DEF NoTx, Items
<1>5. pc[t] # "publish" => Reach(t)' \subseteq {NULL}
  BY <1>1, <1>3, <1>4 DEF Reach, NoReg
<1> QED  BY <1>1, <1>2, <1>5

\* What is out of reach of the thread that steps, and of the others, stays so.
Kept(F) ==
    /\ F \subseteq Allocated /\ \A m \in Allocated : m \notin F => heap[m].next \notin F
    /\ \A u \in Threads : Avoids(u, F)

LEMMA StepKept ==
  ASSUME TypeInv, NEW t \in Threads, Step(t), NEW F, Kept(F) PROVE Kept(F)'
<1>1. Avoids(t, F)' /\ F \subseteq Allocated'
  BY StepAvoids, DeletedBy DEF Kept
<1>2. ASSUME NEW u \in Threads \ {t} PROVE Avoids(u, F)'
  <2>1. SameLocals(u)
    BY OthersSame
  <2>2. Reach(u)' = Reach(u)
    BY <2>1 DEF SameLocals, Reach, Items
  <2> QED  BY <1>1, <2>2 DEF Avoids, Kept
<1> QED  BY <1>1, <1>2 DEF Kept, Avoids

\* Where nobody can get hold of a node it is not made known, and it is not deleted either.
LEMMA KeptLost ==
  ASSUME TypeInv, NEW t \in Threads, Step(t), NEW F, Kept(F), Kept(F)', NEW n \in F, ~heap[n].deleted
  PROVE  n \in Leaked'
<1>1. n \in Allocated /\ n \in Allocated'
  BY DEF Kept
<1>2. n \notin index'
  BY DEF Kept, Avoids
<1>3. ASSUME NEW u \in Threads PROVE n \notin Fresh(u)'
  <2>1. Fresh(u)' \subseteq Reach(u)'
    BY DEF Fresh, Entry, Reach
  <2> QED  BY <2>1 DEF Kept, Avoids
<1>4. ~heap'[n].deleted
  <2>1. n \notin Reach(t)
    BY DEF Kept, Avoids
  <2>2. Deleting(t, n) => n \in {a[1] : a \in todo[t]}
    BY DEF Deleting
  <2>3. ~Deleting(t, n)
    BY <2>1, <2>2 DEF Reach
  <2> QED  BY <1>1, <2>3, DeletedBy
<1> QED  BY <1>1, <1>2, <1>3, <1>4 DEF Leaked

\* A node leaves the index when it is deleted, and a transaction that commits tells the
\* index of all it has made: only an abort leaves nodes behind.
LEMMA LeakedSteps ==
  ASSUME TypeInv, NEW t \in Threads, Step(t), Entries(t), NEW n \in Leaked'
  PROVE  n \in Leaked \/ (Finish(t) /\ pc[t] # "publish" /\ n \in Fresh(t))
<1>1. n \in Allocated' /\ n \notin index' /\ ~heap'[n].deleted /\ \A u \in Threads : n \notin Fresh(u)'
  BY DEF Leaked
<1>2. \A u \in Threads \ {t} : Fresh(u)' = Fresh(u)
  <2>1. \A u \in Threads \ {t} : SameLocals(u)
    BY OthersSame
  <2> QED  BY <2>1 DEF SameLocals, Fresh, Entry
<1>3. CASE n \notin Allocated
  <2>1. CASE Insert(t)
    BY <1>1, <1>3, <2>1, InsertBorn DEF Born
  <2>2. CASE ~Insert(t)
    <3>1. Allocated' = Allocated
      BY <2>2, UnlockEffect, StoreSets DEF Stored, Step, TXBegin, Seek, Load, Restart, Walk, Contains, Refuse, Remove,
         Unlink, TXCommit, TryLock, Lock, Validate, Invalid, AddAndFetch, UpdateIndex, Finish, shared, Allocated, TypeInv, TypeOK
    <3> QED  BY <1>1, <1>3, <3>1
  <2> QED  BY <2>1, <2>2
<1>4. CASE n \in Allocated /\ UpdateIndex(t)
  <2>1. PICK e : Consumes(t, e)
    BY <1>4, UpdateConsumes
  <2>2. CASE n = e.node /\ e.op = "insert"
    BY <1>1, <2>1, <2>2 DEF Consumes, IndexAfter
  <2>3. CASE n = e.node /\ e.op = "remove"
    <3>1. n \in Entry(t, "remove") /\ pc[t] = "publish" /\ todo[t] = {} /\ heap' = heap
      BY <2>1, <2>3 DEF Consumes, Entry, Written
    <3>2. heap[n].deleted
      BY <3>1 DEF Entries, Owes, Deleting
    <3> QED  BY <1>1, <3>1, <3>2
  <2>4. CASE n # e.node
    <3>1. n \in index' <=> n \in index
      BY <2>1, <2>4 DEF Consumes, IndexAfter
    <3>2. n \in Fresh(t)' <=> n \in Fresh(t)
      BY <2>1, <2>4 DEF Consumes, Fresh, Entry
    <3>3. heap' = heap
      BY <2>1 DEF Consumes
    <3> QED  BY <1>1, <1>2, <1>4, <3>1, <3>2, <3>3 DEF Leaked
  <2>5. e.op \in {"insert", "remove"}
    BY <2>1 DEF Consumes, Entries
  <2> QED  BY <2>2, <2>3, <2>4, <2>5
<1>5. CASE n \in Allocated /\ ~UpdateIndex(t)
  <2>1. index' = index /\ ~heap[n].deleted
    <3>1. CASE Insert(t)
      BY <1>1, <1>5, <3>1, InsertBorn, DeletedBy DEF Born
    <3>2. CASE Finish(t)
      BY <1>1, <1>5, <3>2, DeletedBy, FinishEffect
    <3> QED  BY <1>1, <1>5, <3>1, <3>2, FreshKept, DeletedBy
  <2>2. CASE n \in Fresh(t)
    <3>1. Finish(t)
      <4>1. Insert(t) => Fresh(t) \subseteq Fresh(t)'
        BY InsertBorn DEF Born
      <4> QED  BY <1>1, <1>5, <2>2, <4>1, FreshKept
    <3>2. pc[t] # "publish"
      BY <2>2, <3>1, AbortEffect
    <3> QED  BY <2>2, <3>1, <3>2
  <2>3. CASE n \notin Fresh(t)
    BY <1>1, <1>2, <1>5, <2>1, <2>3 DEF Leaked
  <2> QED  BY <2>2, <2>3
<1> QED  BY <1>3, <1>4, <1>5

-----------------------------------------------------------------------------
LEMMA InitIndexed == ASSUME Init PROVE IndexInv
<1>1. TypeInv
  BY InitTyped
<1>2. \A t \in Threads : tx[t] = NoTx /\ reg[t] = NoReg /\ todo[t] = {} /\ pc[t] = "idle"
  BY DEF Init
<1>3. ASSUME NEW t \in Threads
      PROVE  Fresh(t) = {} /\ Entry(t, "remove") = {} /\ Cut(t) = {} /\ Reach(t) \subseteq {NULL}
  <2>1. tx[t].indexTodo = <<>> /\ tx[t].readSet = <<>> /\ tx[t].writeSet = [n \in {} |-> NULL]
    BY <1>2 DEF NoTx
  <2>2. Items(t) = {} /\ Elems(tx[t].indexTodo) = {} /\ Elems(tx[t].readSet) = {}
    BY <2>1, NothingYet DEF Items
  <2> QED  BY <1>2, <2>2 DEF Fresh, Entry, Cut, Reach, NoReg
<1>4. ASSUME NEW t \in Threads PROVE Entries(t)
  <2>1. tx[t].indexTodo = <<>>
    BY <1>2 DEF NoTx
  <2> QED  BY <1>2, <1>3, <2>1, NothingYet DEF Entries, Tidy, InTx
<1>5. Leaked = {}
  BY InitHeap DEF Leaked
<1>6. \A t \in Threads : Avoids(t, Leaked)
  BY <1>5 DEF Avoids
<1> QED  BY <1>3, <1>4, <1>5, <1>6 DEF IndexInv

LEMMA HeadOld ==
  ASSUME TypeInv, NEW t \in Threads, Step(t), Entries(t), HeadNode \notin Fresh(t) PROVE HeadNode \notin Fresh(t)'
<1>1. CASE Insert(t)
  <2>1. PICK e : Born(t, e)
    BY <1>1, InsertBorn
  <2>2. HeadNode \in Allocated
    BY HeadAllocated
  <2> QED  BY <2>1, <2>2 DEF Born, Pointer
<1>2. CASE Finish(t)
  BY <1>2, FinishEffect
<1>3. CASE UpdateIndex(t)
  BY <1>3, UpdateConsumes DEF Consumes, Fresh, Entry
<1> QED  BY <1>1, <1>2, <1>3, FreshKept

LEMMA AbortKept ==
  ASSUME TypeInv, PrivInv, IndexInv, NEW t \in Threads, Finish(t), Unpublished(t), NEW F, F = Leaked \cup Fresh(t)
  PROVE  Kept(F)' /\ F \subseteq Leaked'
<1>0. Step(t) /\ Entries(t) /\ Hidden(t)
  BY DEF Step, IndexInv, PrivInv
<1>1. /\ UNCHANGED <<heap, index>> /\ Fresh(t)' = {} /\ Reach(t)' \subseteq {NULL} /\ Allocated' = Allocated
  BY <1>0, AbortEffect DEF Unpublished, Allocated
<1>2. \A u \in Threads \ {t} : Reach(u)' = Reach(u) /\ Fresh(u)' = Fresh(u)
  <2>1. \A u \in Threads \ {t} : SameLocals(u)
    BY <1>0, OthersSame
  <2> QED  BY <2>1 DEF SameLocals, Reach, Items, Fresh, Entry
<1>3. F \subseteq Allocated /\ NULL \notin F
  BY FreshAllocated, HeadAllocated DEF Leaked
<1>4. \A m \in Allocated : m \notin F => heap[m].next \notin F
  BY <1>0 DEF IndexInv, Hidden
<1>5. \A n \in index : n \notin F
  BY <1>0 DEF Leaked, Hidden
<1>6. ASSUME NEW u \in Threads \ {t} PROVE \A n \in Reach(u) : n \notin F
  BY <1>0 DEF IndexInv, Avoids, Hidden
<1>7. ASSUME NEW u \in Threads PROVE Avoids(u, F)'
  BY <1>1, <1>2, <1>3, <1>4, <1>5, <1>6 DEF Avoids
<1>8. ASSUME NEW n \in F PROVE n \in Leaked'
  <2>1. ~heap[n].deleted
    BY <1>0 DEF Leaked, Entries
  <2>2. \A u \in Threads \ {t} : n \notin Fresh(u)
    <3>1. \A u \in Threads : Fresh(u) \subseteq Reach(u)
      BY DEF Fresh, Entry, Reach
    <3> QED  BY <1>6, <3>1
  <2> QED  BY <1>1, <1>2, <1>3, <1>5, <2>1, <2>2 DEF Leaked
<1> QED  BY <1>1, <1>3, <1>4, <1>7, <1>8 DEF Kept

LEMMA StepIndexed ==
  ASSUME TypeInv, PrivInv, IndexInv, NEW t \in Threads, Step(t) PROVE IndexInv'
<1>1. ASSUME NEW u \in Threads PROVE Entries(u)'
  <2>1. CASE u = t
    BY <2>1, OwnEntries DEF IndexInv
  <2>2. CASE u # t
    BY <2>2, Apart, OthersEntries DEF IndexInv
  <2> QED  BY <2>1, <2>2
<1>2. PICK F : Kept(F)' /\ F = Leaked'
  <2>1. CASE Finish(t) /\ Unpublished(t)
    <3>1. PICK F : F = Leaked \cup Fresh(t)
      OBVIOUS
    <3>2. Kept(F)' /\ F \subseteq Leaked'
      BY <2>1, <3>1, AbortKept
    <3>3. \A n \in Leaked' : n \in F
      BY <3>1, LeakedSteps DEF IndexInv
    <3> QED  BY <3>2, <3>3
  <2>2. CASE ~(Finish(t) /\ Unpublished(t))
    <3>1. PICK F : F = Leaked
      OBVIOUS
    <3>2. Kept(F)
      BY <3>1 DEF Kept, IndexInv, Leaked
    <3>3. Kept(F)'
      BY <3>2, StepKept
    <3>4. \A n \in F : n \in Leaked'
      BY <3>1, <3>2, <3>3, KeptLost DEF Leaked
    <3>5. \A n \in Leaked' : n \in F
      BY <2>2, <3>1, LeakedSteps DEF IndexInv, Unpublished
    <3> QED  BY <3>3, <3>4, <3>5
  <2> QED  BY <2>1, <2>2
<1>3. \A u \in Threads : HeadNode \notin Fresh(u)'
  <2>1. \A u \in Threads \ {t} : SameLocals(u)
    BY OthersSame
  <2>2. \A u \in Threads \ {t} : Fresh(u)' = Fresh(u)
    BY <2>1 DEF SameLocals, Fresh, Entry
  <2> QED  BY <2>2, HeadOld DEF IndexInv
<1>4. HeadNode \notin Leaked'
  BY LeakedSteps DEF IndexInv
<1>5. /\ \A u \in Threads : Avoids(u, Leaked)'
      /\ \A m \in Allocated' : m \notin Leaked' => heap'[m].next \notin Leaked'
  <2>1. \A u \in Threads : Avoids(u, F)'
    BY <1>2 DEF Kept
  <2> QED  BY <1>2, <2>1 DEF Kept, Avoids
<1> QED  BY <1>1, <1>3, <1>4, <1>5 DEF IndexInv

LEMMA StutterIndexed == ASSUME UNCHANGED vars, IndexInv PROVE IndexInv'
<1>1. /\ heap' = heap /\ index' = index /\ pc' = pc /\ tx' = tx /\ todo' = todo /\ reg' = reg /\ Allocated' = Allocated
  BY DEF vars, Allocated
<1>2. /\ \A t \in Threads : /\ Fresh(t)' = Fresh(t) /\ Reach(t)' = Reach(t) /\ Cut(t)' = Cut(t)
                            /\ Items(t)' = Items(t) /\ Entry(t, "remove")' = Entry(t, "remove")
                            /\ InTx(t)' = InTx(t) /\ Unpublished(t)' = Unpublished(t)
                            /\ \A n : Deleting(t, n)' = Deleting(t, n)
  BY <1>1 DEF Fresh, Entry, Reach, Cut, Items, InTx, Unpublished, Deleting
<1>3. Leaked' = Leaked
  BY <1>1, <1>2 DEF Leaked
<1>4. \A t \in Threads : Owes(t) => Owes(t)'
  BY <1>1, <1>2 DEF Owes
<1>5. \A t \in Threads : Entries(t) => Entries(t)'
  BY <1>1, <1>2, <1>4 DEF Entries
<1>6. \A t \in Threads : Avoids(t, Leaked) => Avoids(t, Leaked)'
  BY <1>1, <1>2, <1>3 DEF Avoids
<1> QED  BY <1>1, <1>2, <1>3, <1>5, <1>6 DEF IndexInv

LEMMA IndexHolds == Spec => [](TypeInv /\ PrivInv /\ IndexInv)
<1>1. Init => TypeInv /\ PrivInv /\ IndexInv
  BY InitTyped, InitPrivate, InitIndexed
<1>2. TypeInv /\ PrivInv /\ IndexInv /\ [Next]_vars => (TypeInv /\ PrivInv /\ IndexInv)'
  <2> SUFFICES ASSUME TypeInv, PrivInv, IndexInv, [Next]_vars PROVE IndexInv'
    BY NextTyped, NextPrivate
  <2>1. ASSUME UNCHANGED vars PROVE IndexInv'
    BY <2>1, StutterIndexed
  <2>2. ASSUME NEW t \in Threads, Step(t) PROVE IndexInv'
    BY <2>2, StepIndexed
  <2> QED  BY <2>1, <2>2 DEF Next, Done
<1> QED  BY <1>1, <1>2, PTL DEF Spec

\* A node that the chain leads to is deleted, or the index has it, or is about to: the
\* nodes that are in no index are those of transactions that aborted, and nothing leads there.
THEOREM IndexAgreesCorrect == Spec => []IndexAgrees
<1>1. TypeInv /\ PrivInv /\ IndexInv => IndexAgrees
  <2> SUFFICES ASSUME TypeInv, PrivInv, IndexInv, NEW n \in Chain \cup {HeadNode}, ~heap[n].deleted, n \notin index
               PROVE  Owed(n, "insert")
    BY DEF IndexAgrees
  <2> DEFINE F == Leaked \cup UNION {Fresh(t) : t \in {u \in Threads : Unpublished(u)}}
  <2>1. \A m \in Allocated \ F : heap[m].next \in (Allocated \ F) \cup {NULL}
    <3>1. ASSUME NEW m \in Allocated \ F PROVE heap[m].next \notin F
      <4>1. heap[m].next \notin Leaked
        BY DEF IndexInv
      <4>2. \A u \in Threads : Unpublished(u) => heap[m].next \notin Fresh(u)
        BY DEF PrivInv, Hidden
      <4> QED  BY <4>1, <4>2
    <3> QED  BY <3>1 DEF TypeInv, Pointer
  <2>2. HeadNode \in Allocated /\ NULL \notin Allocated /\ Len(heap) \in Nat /\ HeadNode \notin F
    BY HeadAllocated DEF IndexInv
  <2> HIDE DEF F
  <2>3. Chain \cap F = {}
    <3>1. PICK N : N = [m \in Allocated |-> heap[m].next]
      OBVIOUS
    <3>2. \A m \in Allocated \ F : N[m] \in (Allocated \ F) \cup {NULL}
      BY <2>1, <3>1
    <3>3. ChainOf(N) \cap F = {}
      BY <2>2, <3>2, ChainAvoids
    <3> QED  BY <3>1, <3>3 DEF Chain
  <2>4. n \in Allocated /\ n \notin F
    BY <2>2, <2>3 DEF Chain, ChainOf
  <2>5. PICK t \in Threads : n \in Fresh(t)
    BY <2>4 DEF F, Leaked
  <2>6. pc[t] = "publish"
    BY <2>4, <2>5 DEF F, Unpublished
  <2> QED  BY <2>5, <2>6 DEF Owed, Fresh
<1> QED  BY <1>1, IndexHolds, PTL

\* What the other threads owe the index.
LEMMA OwedKeep ==
  ASSUME TypeInv, NEW t \in Threads, Step(t), NEW n, NEW o,
         pc[t] = "publish" /\ n \in Entry(t, o) => pc'[t] = "publish" /\ n \in Entry(t, o)', Owed(n, o)
  PROVE  Owed(n, o)'
<1>1. PICK u \in Threads : pc[u] = "publish" /\ n \in Entry(u, o)
  BY DEF Owed
<1>2. pc'[u] = "publish" /\ n \in Entry(u, o)'
  <2>1. CASE u = t
    BY <1>1, <2>1
  <2>2. CASE u # t
    <3>1. SameLocals(u)
      BY <2>2, OthersSame
    <3> QED  BY <1>1, <3>1 DEF SameLocals, Entry
  <2> QED  BY <2>1, <2>2
<1> QED  BY <1>2 DEF Owed

LEMMA UpdateSheds ==
  ASSUME TypeInv, NEW t \in Threads, UpdateIndex(t), Entries(t), NEW n \in Allocated, Stale(n)', ~Stale(n)
  PROVE  Late(t, n)
<1> PICK e : Consumes(t, e)
  BY UpdateConsumes
<1>1. /\ n \in index' /\ heap[n].deleted /\ ~Owed(n, "remove")' /\ pc'[t] = "publish" /\ pc[t] = "publish" /\ Step(t)
  BY DEF Stale, Consumes, Written, Step
<1>2. n \notin Entry(t, "remove")'
  BY <1>1 DEF Owed
<1>3. e.op = "insert" /\ e.node = n
  <2>1. e.op \in {"insert", "remove"}
    BY DEF Consumes, Entries
  <2>2. ASSUME e.node = n, e.op = "remove" PROVE FALSE
    BY <1>1, <2>2 DEF Consumes, IndexAfter
  <2>3. ASSUME e.node # n PROVE FALSE
    <3>1. n \in index
      BY <1>1, <2>3 DEF Consumes, IndexAfter
    <3>2. n \in Entry(t, "remove") => n \in Entry(t, "remove")'
      BY <2>3 DEF Consumes, Entry
    <3>3. ~Owed(n, "remove")
      BY <1>1, <3>2, OwedKeep
    <3> QED  BY <1>1, <3>1, <3>3 DEF Stale
  <2> QED  BY <2>1, <2>2, <2>3
<1>4. n \in Entry(t, "insert")
  BY <1>3 DEF Consumes, Entry
<1>5. ASSUME tx[t].writeSet[n].deleted PROVE FALSE
  <2>1. n \in Cut(t) /\ n \in Fresh(t)
    BY <1>4, <1>5 DEF Entries, Fresh, Cut
  <2>2. n \in Entry(t, "remove")
    BY <1>1, <2>1 DEF Entries, Owes
  <2>3. n \in Entry(t, "remove")'
    BY <1>3, <2>2 DEF Consumes, Entry
  <2> QED  BY <1>2, <2>3
<1> QED  BY <1>1, <1>4, <1>5 DEF Late, UpdateIndex

LEMMA OthersShed ==
  ASSUME TypeInv, NEW t \in Threads, Step(t), ~UpdateIndex(t), Entries(t), NEW n \in Allocated, Stale(n)'
  PROVE  Stale(n)
<1>1. n \in index' /\ heap'[n].deleted /\ ~Owed(n, "remove")'
  BY DEF Stale
<1>2. index' = index
  <2>1. CASE Insert(t)
    BY <2>1, InsertBorn DEF Born
  <2>2. CASE Finish(t)
    BY <2>2, FinishEffect
  <2> QED  BY <2>1, <2>2, FreshKept
<1>3. pc[t] = "publish" /\ n \in Entry(t, "remove") => pc'[t] = "publish" /\ n \in Entry(t, "remove")'
  <2>1. CASE Store(t) \/ Unlock(t)
    BY <2>1, Zenon DEF Store, Unlock, Entry
  <2>2. CASE Finish(t)
    BY <2>2, NothingYet DEF Finish, Written, Entry
  <2>3. CASE ~(Store(t) \/ Unlock(t) \/ Finish(t))
    BY <2>3 DEF Step, TXBegin, Seek, Load, Restart, Walk, Contains, Insert, Refuse, Remove, Unlink, Arrived,
       InWalk, Loaded, TXCommit, TryLock, Validate, Validating, Invalid, AddAndFetch
  <2> QED  BY <2>1, <2>2, <2>3
<1>4. ~Owed(n, "remove")
  BY <1>1, <1>3, OwedKeep
<1>5. heap[n].deleted
  <2> SUFFICES ASSUME ~heap[n].deleted PROVE FALSE
    OBVIOUS
  <2>1. pc[t] = "publish" /\ Deleting(t, n)
    BY <1>1, DeletedBy
  <2>2. n \in Entry(t, "remove")
    BY <2>1 DEF Entries, Owes
  <2> QED  BY <1>4, <2>1, <2>2 DEF Owed
<1> QED  BY <1>1, <1>2, <1>4, <1>5 DEF Stale

\* A removed node stays in the index only if the one that inserted it comes late.
THEOREM IndexShedsCorrect == Spec => IndexSheds
<1> DEFINE A == \A n \in Allocated : Stale(n)' => Stale(n) \/ \E t \in Threads : Late(t, n)
<1>1. TypeInv /\ IndexInv /\ [Next]_vars => [A]_vars
  <2> SUFFICES ASSUME TypeInv, IndexInv, NEW t \in Threads, Step(t), NEW n \in Allocated, Stale(n)', ~Stale(n)
               PROVE  Late(t, n)
    BY DEF Next, Done
  <2>1. Entries(t)
    BY DEF IndexInv
  <2> QED  BY <2>1, UpdateSheds, OthersShed
<1>2. [][A]_vars => IndexSheds
  BY PTL DEF IndexSheds
<1> QED  BY <1>1, <1>2, IndexHolds, PTL DEF Spec

-----------------------------------------------------------------------------
\* A step that leaves the list as it will be leaves the committed keys.
LEMMA CommittedSame ==
  ASSUME TypeInv, TypeInv', ListInv, ListInv', SameList PROVE Committed' = Committed
<1>1. Chained' = Chained /\ Chained \subseteq Allocated
  BY SameChained, ChainedAllocated DEF ListInv
<1>2. Committed = Held(Chained) /\ Committed' = Held(Chained)'
  BY CommittedHeld, CommittedHeldNext
<1>3. Held(Chained)' = Held(Chained)
  BY <1>1 DEF Held, SameList
<1> QED  BY <1>2, <1>3

\* At addAndFetch the list has the keys that t asked for just as t found them.
LEMMA FetchCovered ==
  ASSUME TypeInv, ChainInv, NEW t \in Threads, AddAndFetch(t), NEW S, NEW N, Snapshot(t, S, N),
         NEW k \in Keys, Covered(t, S, N, k)
  PROVE  k \in Held(S) <=> k \in Held(Chained)
<1> PICK R, U, O, K : R = Elems(tx[t].readSet) /\ U = Chained /\ O = NowNext /\ K = KeyOf
  OBVIOUS
<1>1. Sorted(S, N, K) /\ Sorted(U, O, K) /\ S \subseteq Allocated /\ U \subseteq Allocated
  BY ChainedAllocated DEF Snapshot, Chains, ChainInv, ListInv
<1>2. \A n \in S \cap R : n \in U /\ O[n] = N[n]
  <2>1. \A n \in R : ~Changed(t, n)
    BY AllChecked
  <2> QED  BY <1>1, <2>1 DEF Snapshot, Agrees, NowNext
<1>3. Spanned(S, N, K, R, k)
  BY DEF Covered
<1>4. k \in Int
  BY KeysAssumption
<1>5. \A m : K[m] = k => (m \in S <=> m \in U)
  BY <1>1, <1>2, <1>3, <1>4, SpannedAgree
<1>6. \A m \in Allocated : K[m] = heap[m].key
  BY DEF KeyOf
<1> QED  BY <1>1, <1>5, <1>6 DEF Held

\* The answers of t still hold, and the list is to have what its calls make of it.
LEMMA FetchCommits ==
  ASSUME TypeInv, TypeInv', ChainInv, ListInv', NEW t \in Threads, Alone(t), AddAndFetch(t)
  PROVE  Abstract!Explains(Committed, trace[t]) /\ Committed' = Abstract!After(Committed, trace[t])
<1>1. Fetches(t)
  BY FetchSets
<1>2. PICK S, N : Snapshot(t, S, N)
  BY <1>1 DEF Fetches, ChainInv, TxInv
<1> PICK tr, U, V, W, T : /\ tr = trace[t] /\ U = Chained /\ V = View(t, S)
                          /\ W = Merged(V, U, Items(t)) /\ T = snap[t]
  OBVIOUS
<1>3. Committed = Held(U) /\ Committed' = Held(Chained)'
  BY CommittedHeld, CommittedHeldNext DEF ChainInv
<1>4. Chained' = W /\ W \subseteq Allocated /\ Allocated' = Allocated /\ heap' = heap
  BY <1>1, <1>2, FetchMerged DEF Fetches
<1>5. Held(Chained)' = Held(W)
  BY <1>4 DEF Held
<1>6. /\ T = Held(S) /\ Abstract!Explains(T, tr) /\ tr \in Seq(Answers)
      /\ \A k \in Keys : k \in Held(V) <=> k \in Abstract!After(T, tr)
      /\ \A i \in DOMAIN tr : Covered(t, S, N, tr[i].key)
  BY <1>2 DEF Snapshot, Answered, TypeInv, TypeOK
<1>7. ASSUME NEW i \in DOMAIN tr PROVE tr[i].key \in T <=> tr[i].key \in Held(U)
  <2>1. PICK k : k = tr[i].key
    OBVIOUS
  <2>2. tr[i] \in Answers
    BY <1>6
  <2>3. k \in Keys /\ Covered(t, S, N, k)
    BY <1>6, <2>1, <2>2 DEF Answers
  <2>4. k \in Held(S) <=> k \in Held(Chained)
    BY <1>2, <2>3, FetchCovered
  <2> QED  BY <1>6, <2>1, <2>4
<1>8. Abstract!Explains(Held(U), tr)
  BY <1>6, <1>7, ExplainsAgree
<1>9. ASSUME NEW k \in Keys PROVE k \in Held(W) <=> k \in Abstract!After(Held(U), tr)
  <2>1. \/ \A m : KeyOf[m] = k => (m \in U <=> m \in S) /\ (m \in W <=> m \in V)
        \/ \A m : KeyOf[m] = k => (m \in V <=> m \in S) /\ (m \in W <=> m \in U)
    BY <1>2, FetchEither
  <2>2. V \subseteq Allocated /\ U \subseteq Allocated /\ S \subseteq Allocated /\ \A m \in Allocated : KeyOf[m] = heap[m].key
    BY <1>2, ChainedAllocated, FreshAllocated DEF Snapshot, Chains, View, KeyOf
  <2>3. k \in T <=> k \in Held(S)
    BY <1>6
  <2>4. k \in Held(V) <=> k \in Abstract!After(T, tr)
    BY <1>6
  <2>5. CASE \A m : KeyOf[m] = k => (m \in U <=> m \in S) /\ (m \in W <=> m \in V)
    <3>1. k \in Held(U) <=> k \in Held(S)
      BY <2>2, <2>5 DEF Held
    <3>2. k \in Held(W) <=> k \in Held(V)
      BY <1>4, <2>2, <2>5 DEF Held
    <3>3. k \in Abstract!After(T, tr) <=> k \in Abstract!After(Held(U), tr)
      BY <2>3, <3>1, AfterAgree
    <3> QED  BY <2>4, <3>2, <3>3
  <2>6. CASE \A m : KeyOf[m] = k => (m \in V <=> m \in S) /\ (m \in W <=> m \in U)
    <3>1. k \in Held(V) <=> k \in Held(S)
      BY <2>2, <2>6 DEF Held
    <3>2. k \in Held(W) <=> k \in Held(U)
      BY <1>4, <2>2, <2>6 DEF Held
    <3>3. CASE Abstract!Updates(tr, k) = {}
      <4>1. k \in Abstract!After(Held(U), tr) <=> k \in Held(U)
        BY <3>3 DEF Abstract!After
      <4> QED  BY <3>2, <4>1
    <3>4. CASE Abstract!Updates(tr, k) # {}
      <4>1. PICK i \in DOMAIN tr : tr[i].key = k
        BY <3>4 DEF Abstract!Updates
      <4>2. k \in T <=> k \in Held(U)
        BY <1>7, <4>1
      <4>3. k \in Abstract!After(T, tr) <=> k \in Abstract!After(Held(U), tr)
        BY <4>2, AfterAgree
      <4> QED  BY <2>3, <2>4, <3>1, <3>2, <4>2, <4>3
    <3> QED  BY <3>3, <3>4
  <2> QED  BY <2>1, <2>5, <2>6
<1>10. Held(W) \subseteq Keys
  BY <1>4 DEF Held, ListInv
<1>11. Abstract!After(Held(U), tr) \subseteq Keys
  BY DEF Abstract!After
<1>12. Held(W) = Abstract!After(Held(U), tr)
  BY <1>9, <1>10, <1>11
<1> QED  BY <1>3, <1>5, <1>8, <1>12

-----------------------------------------------------------------------------
\* Which transactions are open changes with pc of the thread that steps.
LEMMA OpenIs ==
  ASSUME TypeInv, NEW t \in Threads, Step(t)
  PROVE  /\ pc'[t] \notin {"idle", "publish", "abort"} => Open' = Open \cup {t}
         /\ pc'[t] \in {"idle", "publish", "abort"} => Open' = Open \ {t}
<1>1. \A u \in Threads \ {t} : pc'[u] = pc[u]
  BY OthersSame DEF SameLocals
<1> QED  BY <1>1 DEF Open

\* A step that is no part of what TxSet tells.
Unseen(t) == Open' = Open /\ UNCHANGED <<snap, trace>>

\* A step at which TxSet would see an exception thrown.
Thrown(t) == /\ t \in Open /\ Open' = Open \ {t}
             /\ snap' = [snap EXCEPT ![t] = {}] /\ trace' = [trace EXCEPT ![t] = <<>>]

LEMMA UnseenSteps ==
  ASSUME TypeInv, NEW t \in Threads, Step(t),
         \/ Seek(t) \/ Restart(t) \/ Walk(t) \/ Remove(t) \/ TXCommit(t) \/ Validate(t)
         \/ Store(t) \/ Unlock(t) \/ UpdateIndex(t) \/ Finish(t)
  PROVE  Unseen(t)
<1>1. CASE Seek(t) \/ Restart(t) \/ Walk(t) \/ Remove(t) \/ TXCommit(t) \/ Validate(t)
  <2>1. pc[t] \in {"ready", "load", "lock"} /\ UNCHANGED <<snap, trace>>
    BY <1>1 DEF Seek, Restart, Walk, Remove, TXCommit, Validate, Validating, InWalk, Arrived, Loaded, history
  <2>2. pc'[t] \in {"load", "lock"}
    <3>1. CASE TXCommit(t)
      BY <3>1, Zenon DEF TXCommit, TypeInv, TypeOK
    <3>2. ASSUME ~TXCommit(t) PROVE \E n, w, after, pred : Visit(t, n, w, after, pred)
      BY <1>1, <3>2, Zenon DEF Seek, Restart, Walk, Remove, Validate
    <3> QED  BY <3>1, <3>2, VisitSets
  <2>3. t \in Open /\ Open' = Open \cup {t}
    BY <2>1, <2>2, OpenIs DEF Open
  <2> QED  BY <2>1, <2>3 DEF Unseen
<1>2. CASE Store(t) \/ Unlock(t) \/ UpdateIndex(t) \/ Finish(t)
  <2>1. /\ pc[t] \in {"publish", "abort"} /\ pc'[t] \in {"publish", "abort", "idle"} /\ UNCHANGED <<snap, trace>>
    BY <1>2, Zenon DEF Store, Unlock, UpdateIndex, Finish, Written, history, TypeInv, TypeOK
  <2>2. t \notin Open /\ Open' = Open \ {t}
    BY <2>1, OpenIs DEF Open
  <2> QED  BY <2>1, <2>2 DEF Unseen
<1> QED  BY <1>1, <1>2

LEMMA ThrowSteps ==
  ASSUME TypeInv, NEW t \in Threads, Step(t), Load(t) \/ TryLock(t) \/ Invalid(t)
  PROVE  Unseen(t) \/ Thrown(t)
<1>1. pc[t] \in {"load", "lock"}
  BY DEF Load, TryLock, Invalid, Loaded
<1>2. CASE Throw(t)
  <2>1. pc'[t] = "abort"
    BY <1>2, ThrowOut
  <2>2. t \in Open /\ Open' = Open \ {t}
    BY <1>1, <2>1, OpenIs DEF Open
  <2> QED  BY <1>2, <2>2 DEF Thrown, Throw
<1>3. CASE UNCHANGED <<pc, history>>
  <2>1. pc' = pc /\ UNCHANGED <<snap, trace>>
    BY <1>3 DEF history
  <2>2. Open' = Open
    BY <2>1 DEF Open
  <2> QED  BY <2>1, <2>2 DEF Unseen
<1>4. Throw(t) \/ UNCHANGED <<pc, history>>
  <2>1. CASE Load(t)
    BY <2>1, Zenon DEF Load
  <2>2. CASE TryLock(t)
    BY <2>2, Zenon DEF TryLock, Lock
  <2>3. CASE Invalid(t)
    BY <2>3 DEF Invalid
  <2> QED  BY <2>1, <2>2, <2>3
<1> QED  BY <1>2, <1>3, <1>4

\* A call returns what TxSet would answer.
LEMMA CallSteps ==
  ASSUME TypeInv, TypeInv', ChainInv', NEW t \in Threads, Step(t),
         Contains(t) \/ Insert(t) \/ Refuse(t) \/ Unlink(t), Committed' = Committed
  PROVE  \E c \in Abstract!Calls : Abstract!Do(t, c)
<1>1. pc[t] = "load" /\ \E ok : Return(t, ok)
  <2>1. CASE Contains(t)
    BY <2>1, Zenon DEF Contains, Arrived, InWalk, Loaded
  <2>2. CASE Insert(t)
    BY <2>2, Zenon DEF Insert, Arrived, InWalk, Loaded
  <2>3. CASE Refuse(t)
    BY <2>3, Zenon DEF Refuse, Arrived, InWalk, Loaded
  <2>4. CASE Unlink(t)
    BY <2>4, Zenon DEF Unlink, Loaded
  <2> QED  BY <2>1, <2>2, <2>3, <2>4
<1>2. PICK a : /\ trace' = [trace EXCEPT ![t] = Append(trace[t], a)] /\ a = [op |-> a.op, key |-> a.key, ok |-> a.ok]
               /\ pc'[t] = "ready" /\ snap' = snap
  <2>1. PICK ok : Return(t, ok)
    BY <1>1
  <2>2. PICK a : a = [op |-> prog[t][1].op, key |-> prog[t][1].key, ok |-> ok]
    OBVIOUS
  <2>3. a = [op |-> a.op, key |-> a.key, ok |-> a.ok]
    BY <2>2
  <2>4. trace' = [trace EXCEPT ![t] = Append(trace[t], a)] /\ pc'[t] = "ready" /\ snap' = snap
    BY <2>1, <2>2 DEF Return, TypeInv, TypeOK
  <2> QED  BY <2>3, <2>4
<1> PICK tr, s, n, T : tr = trace[t] /\ s = trace'[t] /\ n = Len(tr) /\ T = snap[t]
  OBVIOUS
<1>3. tr \in Seq(Answers) /\ s \in Seq(Answers) /\ s = Append(tr, a)
  BY <1>2 DEF TypeInv, TypeOK
<1>4. /\ n \in Nat /\ n + 1 \in DOMAIN s /\ s[n + 1] = a /\ SubSeq(s, 1, n) = tr
  BY <1>3
<1>5. a \in Answers
  BY <1>3, <1>4
<1>6. InTx(t)'
  BY <1>2 DEF InTx
<1>7. Abstract!Explains(T, s)
  <2>1. PICK S, N : Snapshot(t, S, N)'
    BY <1>6 DEF ChainInv, TxInv
  <2>2. Abstract!Explains(snap'[t], trace'[t])
    BY <2>1 DEF Snapshot, Answered
  <2> QED  BY <1>2, <2>2
<1>8. a.ok = Abstract!Answer(Abstract!After(T, tr), a)
  <2>1. s[n + 1].ok = Abstract!Answer(Abstract!After(T, SubSeq(s, 1, n + 1 - 1)), s[n + 1])
    BY <1>4, <1>7 DEF Abstract!Explains
  <2>2. n + 1 - 1 = n
    BY <1>4
  <2> QED  BY <1>4, <2>1, <2>2
<1>9. PICK c : c = [op |-> a.op, key |-> a.key]
  OBVIOUS
<1>10. c \in Abstract!Calls /\ c.op = a.op /\ c.key = a.key
  BY <1>5, <1>9 DEF Answers, OpTypes, Abstract!Calls, Abstract!OpTypes
<1>11. Abstract!Answer(Abstract!After(T, tr), c) = a.ok
  BY <1>8, <1>10 DEF Abstract!Answer
<1>12. a = [op |-> c.op, key |-> c.key, ok |-> a.ok] /\ a.ok \in BOOLEAN
  BY <1>2, <1>5, <1>10 DEF Answers
<1>13. t \in Open /\ Open' = Open
  <2>1. t \in Open
    BY <1>1 DEF Open
  <2>2. Open' = Open \cup {t}
    BY <1>2, OpenIs
  <2> QED  BY <2>1, <2>2
<1>14. \E ok \in BOOLEAN : /\ trace' = [trace EXCEPT ![t] = Append(@, [op |-> c.op, key |-> c.key, ok |-> ok])]
                           /\ ok = Abstract!Answer(Abstract!After(snap[t], trace[t]), c)
  <2>1. trace' = [trace EXCEPT ![t] = Append(@, [op |-> c.op, key |-> c.key, ok |-> a.ok])]
    BY <1>2, <1>12
  <2> QED  BY <1>11, <1>12, <2>1
<1>15. Abstract!Do(t, c)
  BY <1>2, <1>13, <1>14 DEF Abstract!Do
<1> QED  BY <1>10, <1>15

LEMMA StepRefines ==
  ASSUME Coarse, Base, Base', ChainInv, ChainInv', NEW t \in Threads, Scheduled(t), Step(t)
  PROVE  [Abstract!Next]_Abstract!vars
<1>1. TypeInv /\ TypeInv' /\ ListInv /\ ListInv' /\ Alone(t)
  BY ScheduledAlone DEF Base, ChainInv
<1>2. ASSUME ~AddAndFetch(t) PROVE Committed' = Committed
  <2>1. SameList
    BY <1>1, <1>2, Aside, StoreList
  <2> QED  BY <1>1, <2>1, CommittedSame
<1>3. CASE TXBegin(t)
  <2>1. pc[t] = "idle" /\ pc'[t] = "ready" /\ snap' = [snap EXCEPT ![t] = Committed] /\ trace' = trace
    BY <1>1, <1>3 DEF TXBegin, TypeInv, TypeOK
  <2>2. t \notin Open /\ Open' = Open \cup {t}
    BY <1>1, <2>1, OpenIs DEF Open
  <2>3. Committed' = Committed
    BY <1>1, <1>2, <2>1, NoWriteBack
  <2>4. Abstract!Begin(t)
    BY <2>1, <2>2, <2>3 DEF Abstract!Begin
  <2> QED  BY <2>4 DEF Abstract!Next
<1>4. CASE Contains(t) \/ Insert(t) \/ Refuse(t) \/ Unlink(t)
  <2>1. ~AddAndFetch(t)
    <3>1. pc'[t] = "ready"
      BY <1>1, <1>4 DEF Contains, Insert, Refuse, Unlink, Return, TypeInv, TypeOK
    <3> QED  BY <1>1, <3>1, NoWriteBack
  <2>2. \E c \in Abstract!Calls : Abstract!Do(t, c)
    BY <1>1, <1>2, <1>4, <2>1, CallSteps
  <2> QED  BY <2>2 DEF Abstract!Next
<1>5. CASE AddAndFetch(t)
  <2>1. /\ pc[t] \in {"lock", "load"} /\ pc'[t] = "publish"
        /\ snap' = [snap EXCEPT ![t] = {}] /\ trace' = [trace EXCEPT ![t] = <<>>]
    BY <1>1, <1>5 DEF AddAndFetch, Validating, Loaded, TypeInv, TypeOK
  <2>2. t \in Open /\ Open' = Open \ {t}
    BY <1>1, <2>1, OpenIs DEF Open
  <2>3. Abstract!Explains(Committed, trace[t]) /\ Committed' = Abstract!After(Committed, trace[t])
    BY <1>1, <1>5, FetchCommits
  <2>4. Abstract!Commit(t)
    BY <2>1, <2>2, <2>3 DEF Abstract!Commit, Abstract!Close
  <2> QED  BY <2>4 DEF Abstract!Next
<1>6. ASSUME ~AddAndFetch(t), Unseen(t) \/ Thrown(t) PROVE [Abstract!Next]_Abstract!vars
  <2>1. Committed' = Committed
    BY <1>2, <1>6
  <2>2. CASE Unseen(t)
    BY <2>1, <2>2 DEF Unseen, Abstract!vars
  <2>3. CASE Thrown(t)
    <3>1. Abstract!Abort(t)
      BY <2>1, <2>3 DEF Thrown, Abstract!Abort, Abstract!Close
    <3> QED  BY <3>1 DEF Abstract!Next
  <2> QED  BY <1>6, <2>2, <2>3
<1> QED  BY <1>1, <1>3, <1>4, <1>5, <1>6, UnseenSteps, ThrowSteps DEF Step

\* Opacity and serializability: every call, also of a transaction that goes on to abort,
\* answers by the keys committed when its transaction began and by its own updates; a
\* transaction commits only when all its answers hold of the keys committed by then,
\* and what it commits is what its calls make of those.
THEOREM OpaqueCorrect == ASSUME Coarse, LastKept PROVE Spec => Opaque
<1>1. Init => Abstract!Init
  <2> SUFFICES ASSUME Init PROVE Abstract!Init
    OBVIOUS
  <2>1. Open = {} /\ snap = [t \in Threads |-> {}] /\ trace = [t \in Threads |-> <<>>]
    BY DEF Init, Open
  <2>2. Committed = Elems(Warm)
    <3>1. TypeInv /\ ListInv /\ \A k \in Keys : net[k] = 0
      BY InitTyped, InitList DEF Init
    <3>2. Committed = Held(Chained)
      BY <3>1, CommittedHeld
    <3>3. Held(Chained) \subseteq Keys
      BY <3>1, ChainedAllocated DEF Held, ListInv
    <3>4. Elems(Warm) \subseteq Keys
      BY WarmAssumption DEF Elems
    <3>5. \A k \in Keys : k \in Held(Chained) <=> k \in Elems(Warm)
      BY <3>1 DEF Held, Has, ListInv
    <3> QED  BY <3>2, <3>3, <3>4, <3>5
  <2> QED  BY <2>1, <2>2 DEF Abstract!Init
<1>2. Base /\ ChainInv /\ (Base /\ ChainInv)' /\ [Next]_vars => [Abstract!Next]_Abstract!vars
  <2> SUFFICES ASSUME Base, ChainInv, Base', ChainInv', [Next]_vars PROVE [Abstract!Next]_Abstract!vars
    OBVIOUS
  <2>1. ASSUME UNCHANGED vars PROVE UNCHANGED Abstract!vars
    <3>1. /\ heap' = heap /\ pc' = pc /\ tx' = tx /\ todo' = todo /\ snap' = snap /\ trace' = trace
      BY <2>1 DEF vars
    <3>2. Committed' = Committed
      <4>1. SameList
        BY <3>1 DEF SameList, NextToBe, DeletedToBe, Allocated
      <4> QED  BY <4>1, CommittedSame DEF Base, ChainInv
    <3> QED  BY <3>1, <3>2 DEF Abstract!vars, Open
  <2>2. ASSUME NEW t \in Threads, Scheduled(t), Step(t) PROVE [Abstract!Next]_Abstract!vars
    BY <2>2, StepRefines
  <2> QED  BY <2>1, <2>2 DEF Next, Done
<1>3. Spec => Abstract!Spec
  BY <1>1, <1>2, ChainHolds, PTL DEF Spec, Abstract!Spec
<1> QED  BY <1>3 DEF Opaque
=============================================================================
