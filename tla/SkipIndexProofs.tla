-------------------------- MODULE SkipIndexProofs --------------------------
(***************************************************************************)
(* The index library, for any number of threads, nodes and layers: types,  *)
(* and that every mark is given back by the thread that has set it.        *)
(***************************************************************************)
EXTENDS SkipIndex, FiniteSetTheorems, TLAPS

Search == {"peek", "look", "hop", "try", "prev", "next", "clear"}
Change == {"unlink", "store", "publish", "release", "count", "scan", "top"}

\* In the middle of a layer: its place has been found and marked, and is looked at again.
Again(r) == r.pc \in {"peek", "look", "hop"} /\ r.again

\* What the locals of a thread may be relied on for, wherever it is.
Sound(r) ==
  /\ r.op \in {"insert", "erase"} => r.node \in Nodes
  /\ r.op \in {"none", "find"} => r.top = -1
  /\ r.pc \in {"removed", "mark", "retire", "linked", "restore", "unmark"} => r.op = "erase"
  /\ r.pc = "answer" => r.op = "find"
  /\ r.pc \in Search \cup Change => r.cur \in Links
  /\ r.pc \in {"look", "hop"} => r.next \in Links
  /\ r.pc = "try" => ~r.again /\ r.layer <= r.top /\ r.prevs[r.layer] = r.cur
  /\ r.pc \in {"prev", "next"} => r.layer <= r.top
  /\ r.pc \in {"try", "prev", "next", "clear"} \cup Change \/ Again(r) => r.op \in {"insert", "erase"}
  /\ r.pc = "clear" => /\ r.layer <= r.top
                       /\ r.then = "start" \/ (r.then = "idle" /\ r.op = "insert")
                                           \/ (r.then \in {"linked", "unmark"} /\ r.op = "erase")

TypeInv == TypeOK /\ \A t \in Threads : Sound(l[t])

-----------------------------------------------------------------------------
\* Nodes and locals, one field at a time.
LEMMA PutNext == ASSUME nodes \in [Links -> NodeRec], NEW n, NEW i \in Layers, NEW m \in Links \cup {None}
                 PROVE [nodes EXCEPT ![n].next[i] = m] \in [Links -> NodeRec]
BY DEF NodeRec
LEMMA PutFlag == ASSUME nodes \in [Links -> NodeRec], NEW n, NEW v \in Threads \cup {None}, Put(n, "flag", v)
                 PROVE nodes' \in [Links -> NodeRec]
BY DEF NodeRec, Put
LEMMA PutFull == ASSUME nodes \in [Links -> NodeRec], NEW n, NEW v \in BOOLEAN, Put(n, "full", v)
                 PROVE nodes' \in [Links -> NodeRec]
BY DEF NodeRec, Put
LEMMA PutRemoved == ASSUME nodes \in [Links -> NodeRec], NEW n, NEW v \in BOOLEAN, Put(n, "removed", v)
                    PROVE nodes' \in [Links -> NodeRec]
BY DEF NodeRec, Put
LEMMA PutHolder == ASSUME nodes \in [Links -> NodeRec], NEW n, Put(n, "holder", None)
                   PROVE nodes' \in [Links -> NodeRec]
BY DEF NodeRec, Put

LEMMA IdleTyped == Idle \in Locals /\ Sound(Idle)
<1>1. Idle.pc \in PCs /\ Idle.then \in PCs  BY DEF Idle, PCs
<1>2. Idle.layer \in Layers /\ Idle.prevs \in [Layers -> Links \cup {None}] /\ Idle.nexts \in [Layers -> Links \cup {None}]
  BY ListAssumption DEF Idle, Layers
<1>3. Idle \in Locals  BY <1>1, <1>2 DEF Idle, Locals
<1> QED  BY <1>3 DEF Idle, Sound, Search, Change, Again

LEMMA SetPc == ASSUME NEW r \in Locals, NEW p \in PCs PROVE [r EXCEPT !.pc = p] \in Locals
BY DEF Locals
LEMMA SetOp == ASSUME NEW r \in Locals, NEW p \in {"none", "insert", "erase", "find"} PROVE [r EXCEPT !.op = p] \in Locals
BY DEF Locals
LEMMA SetNode == ASSUME NEW r \in Locals, NEW n \in Nodes PROVE [r EXCEPT !.node = n] \in Locals
BY DEF Locals
LEMMA SetKey == ASSUME NEW r \in Locals, NEW k \in Int PROVE [r EXCEPT !.key = k] \in Locals
BY DEF Locals
LEMMA SetTopLayer == ASSUME NEW r \in Locals, NEW i \in Layers PROVE [r EXCEPT !.top = i] \in Locals
BY DEF Locals
LEMMA SetLayer == ASSUME NEW r \in Locals, NEW i \in Layers PROVE [r EXCEPT !.layer = i] \in Locals
BY DEF Locals
LEMMA SetCur == ASSUME NEW r \in Locals, NEW n \in Links PROVE [r EXCEPT !.cur = n] \in Locals
BY DEF Locals
LEMMA SetNext == ASSUME NEW r \in Locals, NEW n \in Links PROVE [r EXCEPT !.next = n] \in Locals
BY DEF Locals
LEMMA SetFound == ASSUME NEW r \in Locals, NEW b \in BOOLEAN PROVE [r EXCEPT !.found = b] \in Locals
BY DEF Locals
LEMMA SetAgain == ASSUME NEW r \in Locals, NEW b \in BOOLEAN PROVE [r EXCEPT !.again = b] \in Locals
BY DEF Locals
LEMMA SetThen == ASSUME NEW r \in Locals, NEW p \in PCs PROVE [r EXCEPT !.then = p] \in Locals
BY DEF Locals
LEMMA SetAnswer == ASSUME NEW r \in Locals, NEW n \in Links \cup {None} PROVE [r EXCEPT !.answer = n] \in Locals
BY DEF Locals
LEMMA SetPrev == ASSUME NEW r \in Locals, NEW i \in Layers, NEW n \in Links PROVE [r EXCEPT !.prevs[i] = n] \in Locals
BY DEF Locals
LEMMA SetNexts == ASSUME NEW r \in Locals, NEW i \in Layers, NEW n \in Links PROVE [r EXCEPT !.nexts[i] = n] \in Locals
BY DEF Locals

\* Several fields at once.
LEMMA SetInsert == ASSUME NEW n \in Nodes, NEW i \in Layers
                   PROVE [Idle EXCEPT !.op = "insert", !.node = n, !.key = Key[n], !.top = i] \in Locals
<1> DEFINE r1 == [Idle EXCEPT !.op = "insert"]
           r2 == [r1 EXCEPT !.node = n]
           r3 == [r2 EXCEPT !.key = Key[n]]
           r4 == [r3 EXCEPT !.top = i]
<1>1. r1 \in Locals  BY IdleTyped, SetOp
<1>2. r2 \in Locals  BY <1>1, SetNode
<1>3. r3 \in Locals  BY <1>2, SetKey, ListAssumption
<1>4. r4 \in Locals  BY <1>3, SetTopLayer
<1> QED  BY <1>4

LEMMA SetErase == ASSUME NEW n \in Nodes, NEW i \in Layers
                  PROVE [Idle EXCEPT !.op = "erase", !.node = n, !.key = Key[n], !.top = i] \in Locals
<1> DEFINE r1 == [Idle EXCEPT !.op = "erase"]
           r2 == [r1 EXCEPT !.node = n]
           r3 == [r2 EXCEPT !.key = Key[n]]
           r4 == [r3 EXCEPT !.top = i]
<1>1. r1 \in Locals  BY IdleTyped, SetOp
<1>2. r2 \in Locals  BY <1>1, SetNode
<1>3. r3 \in Locals  BY <1>2, SetKey, ListAssumption
<1>4. r4 \in Locals  BY <1>3, SetTopLayer
<1> QED  BY <1>4

LEMMA SetFind == ASSUME NEW k \in Int PROVE [Idle EXCEPT !.op = "find", !.key = k] \in Locals
<1> DEFINE r1 == [Idle EXCEPT !.op = "find"]
           r2 == [r1 EXCEPT !.key = k]
<1>1. r1 \in Locals  BY IdleTyped, SetOp
<1>2. r2 \in Locals  BY <1>1, SetKey
<1> QED  BY <1>2

LEMMA SetStart == ASSUME NEW r \in Locals, NEW i \in Layers
                  PROVE [r EXCEPT !.cur = head, !.layer = i, !.again = FALSE] \in Locals
<1> DEFINE r1 == [r EXCEPT !.cur = head]
           r2 == [r1 EXCEPT !.layer = i]
           r3 == [r2 EXCEPT !.again = FALSE]
<1>1. r1 \in Locals  BY SetCur DEF Links
<1>2. r2 \in Locals  BY <1>1, SetLayer
<1>3. r3 \in Locals  BY <1>2, SetAgain
<1> QED  BY <1>3

LEMMA SetClear == ASSUME NEW r \in Locals, NEW i \in Layers, NEW p \in PCs
                  PROVE [r EXCEPT !.layer = i, !.then = p] \in Locals
<1> DEFINE r1 == [r EXCEPT !.layer = i]
           r2 == [r1 EXCEPT !.then = p]
<1>1. r1 \in Locals  BY SetLayer
<1>2. r2 \in Locals  BY <1>1, SetThen
<1> QED  BY <1>2

LEMMA SetPlace == ASSUME NEW r \in Locals, NEW i \in Layers, NEW m \in Links, NEW n \in Links
                  PROVE [r EXCEPT !.prevs[i] = m, !.nexts[i] = n] \in Locals
<1> DEFINE r1 == [r EXCEPT !.prevs[i] = m]
           r2 == [r1 EXCEPT !.nexts[i] = n]
<1>1. r1 \in Locals  BY SetPrev
<1>2. r2 \in Locals  BY <1>1, SetNexts
<1> QED  BY <1>2

LEMMA SetDown == ASSUME NEW r \in Locals, NEW i \in Layers
                 PROVE [r EXCEPT !.layer = i, !.again = FALSE] \in Locals
<1> DEFINE r1 == [r EXCEPT !.layer = i]
           r2 == [r1 EXCEPT !.again = FALSE]
<1>1. r1 \in Locals  BY SetLayer
<1>2. r2 \in Locals  BY <1>1, SetAgain
<1> QED  BY <1>2

-----------------------------------------------------------------------------
\* What Goto does to the locals.
LEMMA GotoTyped == ASSUME TypeOK, NEW t \in Threads, NEW p \in PCs, NEW r \in Locals, Goto(t, p, r)
                   PROVE l' \in [Threads -> Locals]
<1>1. [r EXCEPT !.pc = p] \in Locals  BY SetPc
<1> QED  BY <1>1, IdleTyped DEF Goto, TypeOK

LEMMA GotoOthers == ASSUME TypeOK, NEW t \in Threads, NEW p, NEW r, Goto(t, p, r)
                    PROVE \A u \in Threads : u # t => l'[u] = l[u]
BY DEF Goto, TypeOK

LEMMA GotoFields == ASSUME TypeOK, NEW t \in Threads, NEW p \in PCs \ {"idle"}, NEW r \in Locals, Goto(t, p, r)
                    PROVE /\ l'[t].pc = p /\ l'[t].op = r.op /\ l'[t].node = r.node /\ l'[t].top = r.top
                          /\ l'[t].layer = r.layer /\ l'[t].cur = r.cur /\ l'[t].next = r.next
                          /\ l'[t].again = r.again /\ l'[t].then = r.then /\ l'[t].prevs = r.prevs
BY DEF Goto, TypeOK, Locals

LEMMA GotoIdle == ASSUME TypeOK, NEW t \in Threads, NEW r, Goto(t, "idle", r)
                  PROVE l'[t] = Idle
BY DEF Goto, TypeOK

LEMMA CountedTyped == ASSUME TypeOK, NEW A, NEW B, Counted(A, B)
                      PROVE refs' \in [Links -> 0..RefBase - 1]
<1> DEFINE One(S, n) == IF n \in S THEN 1 ELSE 0
           sum(n) == refs[n] + One(A, n) - One(B, n)
<1> RefBase \in Nat \ {0}  BY DEF RefBase
<1>1. \A n \in Links : refs[n] \in Int  BY DEF TypeOK
<1>2. \A S, n : One(S, n) \in Int  OBVIOUS
<1> HIDE DEF One
<1>3. \A n \in Links : sum(n) \in Int  BY <1>1, <1>2
<1>4. refs' = [n \in Links |-> sum(n) % RefBase]  BY DEF Counted, One
<1> HIDE DEF sum
<1>5. \A x \in Int : x % RefBase \in 0..RefBase - 1  OBVIOUS
<1> QED  BY <1>3, <1>4, <1>5

\* A step of one thread keeps the invariant if it keeps types and what the thread relies on.
LEMMA Typed == ASSUME TypeInv, NEW t \in Threads,
                      nodes' \in [Links -> NodeRec], refs' \in [Links -> 0..RefBase - 1],
                      entries' \in [Layers -> Int], listTop' \in Layers, todo' \in [Threads -> Seq(Calls)],
                      seen' \in [Threads -> Sights],
                      l' \in [Threads -> Locals], \A u \in Threads : u # t => l'[u] = l[u], Sound(l'[t])
               PROVE TypeInv'
BY DEF TypeInv, TypeOK

LEMMA TypedFixed == ASSUME TypeInv, NEW t \in Threads, UNCHANGED <<Fixed, todo>>, refs' \in [Links -> 0..RefBase - 1],
                           l' \in [Threads -> Locals], \A u \in Threads : u # t => l'[u] = l[u], Sound(l'[t])
                    PROVE TypeInv'
BY Typed DEF TypeInv, TypeOK, Fixed

LEMMA TypedNodes == ASSUME TypeInv, NEW t \in Threads, UNCHANGED <<entries, listTop, todo, seen>>,
                           refs' \in [Links -> 0..RefBase - 1], nodes' \in [Links -> NodeRec],
                           l' \in [Threads -> Locals], \A u \in Threads : u # t => l'[u] = l[u], Sound(l'[t])
                    PROVE TypeInv'
BY Typed DEF TypeInv, TypeOK

-----------------------------------------------------------------------------
\* A step of thread t to p with the locals that it has.
LEMMA GoTyped == ASSUME TypeOK, NEW t \in Threads, NEW p \in PCs, Goto(t, p, l[t])
                 PROVE /\ l' \in [Threads -> Locals] /\ \A u \in Threads : u # t => l'[u] = l[u]
                       /\ p = "idle" => Sound(l'[t])
                       /\ p # "idle" => /\ l'[t].pc = p /\ l'[t].op = l[t].op /\ l'[t].node = l[t].node
                                        /\ l'[t].top = l[t].top /\ l'[t].layer = l[t].layer /\ l'[t].cur = l[t].cur
                                        /\ l'[t].next = l[t].next /\ l'[t].again = l[t].again
                                        /\ l'[t].then = l[t].then /\ l'[t].prevs = l[t].prevs
<1>1. l[t] \in Locals  BY DEF TypeOK
<1>2. l' \in [Threads -> Locals] /\ \A u \in Threads : u # t => l'[u] = l[u]  BY <1>1, GotoTyped, GotoOthers
<1>3. CASE p = "idle"  BY <1>2, <1>3, GotoIdle, IdleTyped
<1>4. CASE p # "idle"  BY <1>1, <1>2, <1>4, GotoFields
<1> QED  BY <1>3, <1>4

LEMMA ClearFromTyped ==
  ASSUME TypeInv, NEW t \in Threads, NEW i \in Nat, NEW p \in PCs, NEW less, ClearFrom(t, i, p, less),
         l[t].cur \in Links,
         p = "start" \/ (p = "idle" /\ l[t].op = "insert") \/ (p \in {"linked", "unmark"} /\ l[t].op = "erase")
  PROVE /\ l' \in [Threads -> Locals] /\ \A u \in Threads : u # t => l'[u] = l[u]
        /\ refs' \in [Links -> 0..RefBase - 1] /\ Sound(l'[t])
<1>1. l[t] \in Locals /\ Sound(l[t]) /\ TypeOK  BY DEF TypeInv, TypeOK
<1>2. CASE i > l[t].top
  <2>1. Goto(t, p, l[t]) /\ refs' \in [Links -> 0..RefBase - 1]  BY <1>1, <1>2, CountedTyped DEF ClearFrom
  <2>2. Sound(l'[t])
    <3>1. CASE p = "idle"  BY <1>1, <2>1, <3>1, GoTyped
    <3>2. CASE p # "idle"  BY <1>1, <2>1, <3>2, GoTyped DEF Sound, Search, Change, Again
    <3> QED  BY <3>1, <3>2
  <2> QED  BY <1>1, <2>1, <2>2, GoTyped
<1>3. CASE ~(i > l[t].top)
  <2> DEFINE r == [l[t] EXCEPT !.layer = i, !.then = p]
  <2>1. Goto(t, "clear", r) /\ refs' \in [Links -> 0..RefBase - 1]  BY <1>1, <1>3, CountedTyped DEF ClearFrom
  <2>2. l[t].top \in Layers /\ i \in Layers /\ l[t].op \in {"insert", "erase"}
    BY <1>1, <1>3, ListAssumption DEF Locals, Layers, Sound
  <2>3. r \in Locals  BY <1>1, <2>2, SetClear
  <2>4. r.op = l[t].op /\ r.node = l[t].node /\ r.top = l[t].top /\ r.layer = i /\ r.cur = l[t].cur /\ r.then = p
    BY <1>1 DEF Locals
  <2> HIDE DEF r
  <2>5. "clear" \in PCs \ {"idle"}  BY DEF PCs
  <2>7. /\ l'[t].pc = "clear" /\ l'[t].op = l[t].op /\ l'[t].node = l[t].node /\ l'[t].top = l[t].top
        /\ l'[t].layer = i /\ l'[t].cur = l[t].cur /\ l'[t].then = p
    BY <1>1, <2>1, <2>3, <2>4, <2>5, GotoFields
  <2>8. i <= l[t].top  BY <1>3, <2>2 DEF Layers
  <2>6. Sound(l'[t])  BY <1>1, <2>2, <2>7, <2>8 DEF Sound, Search, Change, Again
  <2> QED  BY <1>1, <2>1, <2>3, <2>5, <2>6, GotoTyped, GotoOthers
<1> QED  BY <1>2, <1>3

-----------------------------------------------------------------------------
\* Each action keeps the types.
LEMMA FullTyped == Full \subseteq Nodes /\ Full' \subseteq Nodes
BY DEF Full

LEMMA ObserveTyped == ASSUME TypeOK, Observe PROVE seen' \in [Threads -> Sights]
BY FullTyped DEF Observe, TypeOK, Sights

LEMMA CallTyped == ASSUME TypeInv, NEW t \in Threads, Call(t) PROVE TypeInv'
<1> DEFINE first == todo[t][1]
<1>1. first \in Calls /\ todo' \in [Threads -> Seq(Calls)]
  <2>1. todo[t] \in Seq(Calls) /\ todo[t] # <<>>  BY DEF TypeInv, TypeOK, Call
  <2>2. SubSeq(todo[t], 2, Len(todo[t])) \in Seq(Calls)  BY <2>1
  <2> QED  BY <2>1, <2>2 DEF Call, TypeInv, TypeOK
<1> HIDE DEF first
<1>2. TypeOK /\ first.node \in Nodes /\ first.tops \subseteq Layers  BY <1>1 DEF Calls, TypeInv
<1>3. "start" \in PCs \ {"idle"} /\ "removed" \in PCs \ {"idle"}  BY DEF PCs
<1>4. UNCHANGED <<refs, entries, listTop>>  BY DEF Call
<1>5. CASE \E i \in first.tops : CallInsert(t, first.node, i)
  <2>1. PICK i \in Layers : CallInsert(t, first.node, i)  BY <1>2, <1>5
  <2> DEFINE n == first.node
             r == [Idle EXCEPT !.op = "insert", !.node = n, !.key = Key[n], !.top = i]
             new == [next |-> [j \in Layers |-> None], full |-> FALSE, flag |-> None,
                     removed |-> FALSE, top |-> i, holder |-> t]
  <2>2. n \in Nodes /\ r \in Locals  BY <1>2, SetInsert
  <2>3. r.op = "insert" /\ r.node = n /\ r.top = i  BY DEF Idle
  <2>4. new \in NodeRec  BY DEF NodeRec
  <2>5. nodes' = [nodes EXCEPT ![n] = new] /\ Goto(t, "start", r) /\ UNCHANGED seen  BY <2>1 DEF CallInsert
  <2> HIDE DEF n, r, new
  <2>6. nodes' \in [Links -> NodeRec]  BY <1>2, <2>4, <2>5 DEF TypeOK
  <2>7. l' \in [Threads -> Locals] /\ \A u \in Threads : u # t => l'[u] = l[u]  BY <1>2, <1>3, <2>2, <2>5, GotoTyped, GotoOthers
  <2>8. l'[t].pc = "start" /\ l'[t].op = "insert" /\ l'[t].node = n /\ l'[t].top = i
    BY <1>2, <1>3, <2>2, <2>3, <2>5, GotoFields
  <2>9. Sound(l'[t])  BY <2>2, <2>8 DEF Sound, Search, Change, Again
  <2> QED  BY <1>1, <1>2, <1>4, <2>5, <2>6, <2>7, <2>9, Typed DEF TypeOK
<1>6. CASE CallErase(t, first.node)
  <2> DEFINE n == first.node
             r == [Idle EXCEPT !.op = "erase", !.node = n, !.key = Key[n], !.top = nodes[n].top]
  <2>1. n \in Nodes /\ nodes[n].top \in Layers  BY <1>2 DEF TypeOK, NodeRec, Links
  <2>2. r \in Locals  BY <2>1, SetErase
  <2>3. r.op = "erase" /\ r.node = n /\ r.top = nodes[n].top  BY DEF Idle
  <2>4. Goto(t, "removed", r) /\ UNCHANGED <<nodes, seen>>  BY <1>6 DEF CallErase
  <2> HIDE DEF n, r
  <2>5. l' \in [Threads -> Locals] /\ \A u \in Threads : u # t => l'[u] = l[u]  BY <1>2, <1>3, <2>2, <2>4, GotoTyped, GotoOthers
  <2>6. l'[t].pc = "removed" /\ l'[t].op = "erase" /\ l'[t].node = n
    BY <1>2, <1>3, <2>2, <2>3, <2>4, GotoFields
  <2>7. Sound(l'[t])  BY <2>1, <2>6 DEF Sound, Search, Change, Again
  <2> QED  BY <1>1, <1>2, <1>4, <2>4, <2>5, <2>7, Typed DEF TypeOK
<1>7. CASE CallFind(t, Key[first.node])
  <2> DEFINE k == Key[first.node]
             r == [Idle EXCEPT !.op = "find", !.key = k]
  <2>1. k \in Int  BY <1>2, ListAssumption
  <2>2. r \in Locals  BY <2>1, SetFind
  <2>3. r.op = "find" /\ r.top = -1  BY DEF Idle
  <2>4. Goto(t, "start", r) /\ Sees(t) /\ UNCHANGED nodes  BY <1>7 DEF CallFind
  <2> HIDE DEF k, r
  <2>5. l' \in [Threads -> Locals] /\ \A u \in Threads : u # t => l'[u] = l[u]  BY <1>2, <1>3, <2>2, <2>4, GotoTyped, GotoOthers
  <2>6. l'[t].pc = "start" /\ l'[t].op = "find" /\ l'[t].top = -1
    BY <1>2, <1>3, <2>2, <2>3, <2>4, GotoFields
  <2>7. Sound(l'[t])  BY <2>6 DEF Sound, Search, Change, Again
  <2>8. seen' \in [Threads -> Sights]
    BY <1>2, <2>4, FullTyped DEF Sees, TypeOK, Sights
  <2> QED  BY <1>1, <1>2, <1>4, <2>4, <2>5, <2>7, <2>8, Typed DEF TypeOK
<1> QED  BY <1>5, <1>6, <1>7 DEF Call, first

LEMMA RemovedTyped == ASSUME TypeInv, NEW t \in Threads, Removed(t) PROVE TypeInv'
<1>1. TypeOK /\ Sound(l[t]) /\ At(t, "removed")  BY DEF TypeInv, Removed
<1>2. PICK p \in {"idle", "mark"} : Goto(t, p, l[t])  BY DEF Removed
<1>3. p \in PCs  BY DEF PCs
<1>4. Sound(l'[t])  BY <1>1, <1>2, <1>3, GoTyped DEF Sound, Search, Change, Again, At
<1>5. UNCHANGED <<Fixed, todo>> /\ refs' = refs  BY DEF Removed, Shared
<1> QED  BY <1>1, <1>2, <1>3, <1>4, <1>5, GoTyped, TypedFixed DEF TypeOK

LEMMA MarkTyped == ASSUME TypeInv, NEW t \in Threads, Mark(t) PROVE TypeInv'
<1>1. TypeOK /\ Sound(l[t]) /\ At(t, "mark") /\ l[t] \in Locals  BY DEF TypeInv, TypeOK, Mark
<1>2. l[t].op = "erase" /\ l[t].node \in Nodes  BY <1>1 DEF Sound, At
<1>3. "removed" \in PCs \ {"idle"} /\ "retire" \in PCs \ {"idle"}  BY DEF PCs
<1>4. UNCHANGED <<refs, entries, listTop, todo, seen>>  BY DEF Mark
<1>5. CASE nodes[l[t].node].flag # None
  <2> DEFINE i == nodes[l[t].node].top
             r == [l[t] EXCEPT !.top = i]
  <2>1. i \in Layers  BY <1>1, <1>2 DEF TypeOK, NodeRec, Links
  <2>2. r \in Locals  BY <1>1, <2>1, SetTopLayer
  <2>3. r.op = l[t].op /\ r.node = l[t].node  BY <1>1 DEF Locals
  <2>4. Goto(t, "removed", r) /\ UNCHANGED nodes  BY <1>5 DEF Mark
  <2> HIDE DEF r
  <2>5. l' \in [Threads -> Locals] /\ \A u \in Threads : u # t => l'[u] = l[u]  BY <1>1, <1>3, <2>2, <2>4, GotoTyped, GotoOthers
  <2>6. l'[t].pc = "removed" /\ l'[t].op = "erase" /\ l'[t].node \in Nodes
    BY <1>1, <1>2, <1>3, <2>2, <2>3, <2>4, GotoFields
  <2>7. Sound(l'[t])  BY <2>6 DEF Sound, Search, Change, Again
  <2> QED  BY <1>1, <1>4, <2>4, <2>5, <2>7, TypedNodes DEF TypeOK
<1>6. CASE nodes[l[t].node].flag = None
  <2>1. Goto(t, "retire", l[t]) /\ Put(l[t].node, "flag", t)  BY <1>6 DEF Mark
  <2>2. nodes' \in [Links -> NodeRec]  BY <1>1, <2>1, PutFlag DEF TypeOK
  <2>3. Sound(l'[t])  BY <1>1, <1>2, <1>3, <2>1, GoTyped DEF Sound, Search, Change, Again
  <2> QED  BY <1>1, <1>3, <1>4, <2>1, <2>2, <2>3, GoTyped, TypedNodes DEF TypeOK
<1> QED  BY <1>5, <1>6

LEMMA RetireTyped == ASSUME TypeInv, NEW t \in Threads, Retire(t) PROVE TypeInv'
<1>1. TypeOK /\ Sound(l[t]) /\ At(t, "retire")  BY DEF TypeInv, Retire
<1>2. Put(l[t].node, "removed", TRUE) /\ Goto(t, "linked", l[t]) /\ "linked" \in PCs  BY DEF Retire, PCs
<1>3. nodes' \in [Links -> NodeRec]  BY <1>1, <1>2, PutRemoved DEF TypeOK
<1>4. Sound(l'[t])  BY <1>1, <1>2, GoTyped DEF Sound, Search, Change, Again, At
<1>5. UNCHANGED <<refs, entries, listTop, todo, seen>>  BY DEF Retire
<1> QED  BY <1>1, <1>2, <1>3, <1>4, <1>5, GoTyped, TypedNodes DEF TypeOK

LEMMA LinkedTyped == ASSUME TypeInv, NEW t \in Threads, Linked(t) PROVE TypeInv'
<1>1. TypeOK /\ Sound(l[t]) /\ At(t, "linked")  BY DEF TypeInv, Linked
<1>2. PICK p \in {"start", "restore"} : Goto(t, p, l[t])  BY DEF Linked
<1>3. p \in PCs  BY DEF PCs
<1>4. Sound(l'[t])  BY <1>1, <1>2, <1>3, GoTyped DEF Sound, Search, Change, Again, At
<1>5. UNCHANGED <<Fixed, todo>> /\ refs' = refs  BY DEF Linked, Shared
<1> QED  BY <1>1, <1>2, <1>3, <1>4, <1>5, GoTyped, TypedFixed DEF TypeOK

LEMMA RestoreTyped == ASSUME TypeInv, NEW t \in Threads, Restore(t) PROVE TypeInv'
<1>1. TypeOK /\ Sound(l[t]) /\ At(t, "restore")  BY DEF TypeInv, Restore
<1>2. Put(l[t].node, "removed", FALSE) /\ Goto(t, "unmark", l[t]) /\ "unmark" \in PCs  BY DEF Restore, PCs
<1>3. nodes' \in [Links -> NodeRec]  BY <1>1, <1>2, PutRemoved DEF TypeOK
<1>4. Sound(l'[t])  BY <1>1, <1>2, GoTyped DEF Sound, Search, Change, Again, At
<1>5. UNCHANGED <<refs, entries, listTop, todo, seen>>  BY DEF Restore
<1> QED  BY <1>1, <1>2, <1>3, <1>4, <1>5, GoTyped, TypedNodes DEF TypeOK

LEMMA UnmarkTyped == ASSUME TypeInv, NEW t \in Threads, Unmark(t) PROVE TypeInv'
<1>1. TypeOK  BY DEF TypeInv
<1>2. Put(l[t].node, "flag", None) /\ Goto(t, "idle", l[t]) /\ "idle" \in PCs  BY DEF Unmark, PCs
<1>3. nodes' \in [Links -> NodeRec]  BY <1>1, <1>2, PutFlag DEF TypeOK
<1>5. UNCHANGED <<refs, entries, listTop, todo, seen>>  BY DEF Unmark
<1> QED  BY <1>1, <1>2, <1>3, <1>5, GoTyped, TypedNodes DEF TypeOK

LEMMA ReturnTyped == ASSUME TypeInv, NEW t \in Threads, Return(t) PROVE TypeInv'
<1>1. TypeOK  BY DEF TypeInv
<1>2. Goto(t, "idle", l[t]) /\ Forget(t) /\ "idle" \in PCs /\ UNCHANGED <<nodes, refs, entries, listTop, todo>>
  BY DEF Return, PCs
<1>3. seen' \in [Threads -> Sights]  BY <1>1, <1>2 DEF Forget, TypeOK, Sights, Unseen
<1> QED  BY <1>1, <1>2, <1>3, GoTyped, Typed DEF TypeOK

-----------------------------------------------------------------------------
\* The search.
LEMMA BeginAt == ASSUME NEW t \in Threads
                 PROVE Begin(t) = "start" \/ (Begin(t) = "linked" /\ l[t].op = "erase")
BY DEF Begin

LEMMA RetryTyped == ASSUME TypeInv, NEW t \in Threads, NEW less, Retry(t, less), l[t].cur \in Links
                    PROVE /\ l' \in [Threads -> Locals] /\ \A u \in Threads : u # t => l'[u] = l[u]
                          /\ refs' \in [Links -> 0..RefBase - 1] /\ Sound(l'[t])
<1>1. TypeOK /\ Sound(l[t]) /\ l[t] \in Locals  BY DEF TypeInv, TypeOK
<1>2. CASE l[t].again
  <2>1. Goto(t, "crash", l[t]) /\ UNCHANGED refs /\ "crash" \in PCs  BY <1>2 DEF Retry, PCs
  <2>2. Sound(l'[t])  BY <1>1, <2>1, GoTyped DEF Sound, Search, Change, Again
  <2> QED  BY <1>1, <2>1, <2>2, GoTyped DEF TypeOK
<1>3. CASE ~l[t].again
  <2>1. ClearFrom(t, l[t].layer + 1, Begin(t), less)  BY <1>3 DEF Retry
  <2>2. l[t].layer + 1 \in Nat  BY <1>1 DEF Locals, Layers
  <2>3. Begin(t) \in PCs  BY DEF Begin, PCs
  <2> QED  BY <2>1, <2>2, <2>3, BeginAt, ClearFromTyped
<1> QED  BY <1>2, <1>3

LEMMA TakeTyped == ASSUME TypeInv, NEW t \in Threads, NEW n \in Links \cup {None}, NEW less, NEW r \in Locals,
                          Take(t, n, less, r), l[t].pc \in {"peek", "hop"}, r.pc = l[t].pc,
                          r.op = l[t].op, r.node = l[t].node, r.top = l[t].top, r.cur = l[t].cur, r.again = l[t].again
                   PROVE /\ l' \in [Threads -> Locals] /\ \A u \in Threads : u # t => l'[u] = l[u]
                         /\ refs' \in [Links -> 0..RefBase - 1] /\ Sound(l'[t])
<1>1. TypeOK /\ Sound(l[t])  BY DEF TypeInv
<1>2. CASE n = None
  <2>1. Goto(t, "crash", l[t]) /\ UNCHANGED refs /\ "crash" \in PCs  BY <1>2 DEF Take, PCs
  <2>2. Sound(l'[t])  BY <1>1, <2>1, GoTyped DEF Sound, Search, Change, Again
  <2> QED  BY <1>1, <2>1, <2>2, GoTyped DEF TypeOK
<1>3. CASE n # None
  <2> DEFINE s == [r EXCEPT !.next = n]
  <2>1. Goto(t, "look", s) /\ Counted({n}, less) /\ n \in Links /\ "look" \in PCs \ {"idle"}  BY <1>3 DEF Take, PCs
  <2>2. s \in Locals  BY <2>1, SetNext
  <2>3. /\ s.op = l[t].op /\ s.node = l[t].node /\ s.top = l[t].top /\ s.cur = l[t].cur /\ s.again = l[t].again
        /\ s.next = n
    BY DEF Locals
  <2> HIDE DEF s
  <2>4. /\ l'[t].pc = "look" /\ l'[t].op = l[t].op /\ l'[t].node = l[t].node /\ l'[t].top = l[t].top
        /\ l'[t].cur = l[t].cur /\ l'[t].again = l[t].again /\ l'[t].next = n
    BY <1>1, <2>1, <2>2, <2>3, GotoFields
  <2>5. Sound(l'[t])  BY <1>1, <2>1, <2>4 DEF Sound, Search, Change, Again
  <2> QED  BY <1>1, <2>1, <2>2, <2>5, GotoTyped, GotoOthers, CountedTyped
<1> QED  BY <1>2, <1>3

LEMMA StartTyped == ASSUME TypeInv, NEW t \in Threads, Start(t) PROVE TypeInv'
<1> DEFINE i == IF l[t].op = "insert" /\ l[t].top > listTop THEN l[t].top ELSE listTop
           r == [l[t] EXCEPT !.cur = head, !.layer = i, !.again = FALSE]
<1>1. TypeOK /\ Sound(l[t]) /\ l[t] \in Locals  BY DEF TypeInv, TypeOK
<1>2. i \in Layers  BY <1>1 DEF TypeOK, Locals, Layers
<1>3. Goto(t, "peek", r) /\ Counted({head}, {}) /\ UNCHANGED <<Fixed, todo>> /\ "peek" \in PCs \ {"idle"}
  BY DEF Start, PCs
<1> HIDE DEF i
<1>4. r \in Locals  BY <1>1, <1>2, SetStart
<1>5. r.op = l[t].op /\ r.node = l[t].node /\ r.top = l[t].top /\ r.cur = head /\ r.again = FALSE
  BY <1>1 DEF Locals
<1> HIDE DEF r
<1>6. /\ l'[t].pc = "peek" /\ l'[t].op = l[t].op /\ l'[t].node = l[t].node /\ l'[t].top = l[t].top
      /\ l'[t].cur = head /\ l'[t].again = FALSE
  BY <1>1, <1>3, <1>4, <1>5, GotoFields
<1>7. Sound(l'[t])  BY <1>1, <1>6 DEF Sound, Search, Change, Again, Links
<1> QED  BY <1>1, <1>3, <1>4, <1>7, GotoTyped, GotoOthers, CountedTyped, TypedFixed

LEMMA PeekTyped == ASSUME TypeInv, NEW t \in Threads, Peek(t) PROVE TypeInv'
<1>1. TypeOK /\ Sound(l[t]) /\ l[t] \in Locals /\ l[t].pc = "peek"  BY DEF TypeInv, TypeOK, Peek, At
<1>2. l[t].cur \in Links  BY <1>1 DEF Sound, Search
<1>3. UNCHANGED <<Fixed, todo>>  BY DEF Peek
<1>4. CASE Retry(t, {})  BY <1>2, <1>3, <1>4, RetryTyped, TypedFixed
<1>5. CASE Take(t, nodes[l[t].cur].next[l[t].layer], {}, [l[t] EXCEPT !.found = FALSE])
  <2> DEFINE n == nodes[l[t].cur].next[l[t].layer]
             r == [l[t] EXCEPT !.found = FALSE]
  <2>1. n \in Links \cup {None}  BY <1>1, <1>2 DEF TypeOK, NodeRec, Locals
  <2>2. r \in Locals  BY <1>1, SetFound
  <2>3. /\ r.pc = l[t].pc /\ r.op = l[t].op /\ r.node = l[t].node /\ r.top = l[t].top /\ r.cur = l[t].cur
        /\ r.again = l[t].again
    BY <1>1 DEF Locals
  <2>4. Take(t, n, {}, r)  BY <1>5
  <2> HIDE DEF n, r
  <2> QED  BY <1>1, <1>3, <2>1, <2>2, <2>3, <2>4, TakeTyped, TypedFixed
<1> QED  BY <1>4, <1>5 DEF Peek

LEMMA HopTyped == ASSUME TypeInv, NEW t \in Threads, Hop(t) PROVE TypeInv'
<1> DEFINE r == [l[t] EXCEPT !.found = @ \/ l[t].next = Target(t)]
<1>1. TypeOK /\ Sound(l[t]) /\ l[t] \in Locals /\ l[t].pc = "look"  BY DEF TypeInv, TypeOK, Hop, At
<1>2. Goto(t, "hop", r) /\ UNCHANGED <<Fixed, refs, todo>> /\ "hop" \in PCs \ {"idle"}  BY DEF Hop, Shared, PCs
<1>3. r \in Locals
  <2>1. (l[t].found \/ l[t].next = Target(t)) \in BOOLEAN  OBVIOUS
  <2> QED  BY <1>1, <2>1, SetFound
<1>4. /\ r.op = l[t].op /\ r.node = l[t].node /\ r.top = l[t].top /\ r.cur = l[t].cur /\ r.next = l[t].next
      /\ r.again = l[t].again
  BY <1>1 DEF Locals
<1> HIDE DEF r
<1>5. /\ l'[t].pc = "hop" /\ l'[t].op = l[t].op /\ l'[t].node = l[t].node /\ l'[t].top = l[t].top
      /\ l'[t].cur = l[t].cur /\ l'[t].next = l[t].next /\ l'[t].again = l[t].again
  BY <1>1, <1>2, <1>3, <1>4, GotoFields
<1>6. Sound(l'[t])  BY <1>1, <1>5 DEF Sound, Search, Change, Again
<1> QED  BY <1>1, <1>2, <1>3, <1>6, GotoTyped, GotoOthers, TypedFixed DEF TypeOK

LEMMA HoppedTyped == ASSUME TypeInv, NEW t \in Threads, Hopped(t) PROVE TypeInv'
<1>1. TypeOK /\ Sound(l[t]) /\ l[t] \in Locals /\ l[t].pc = "hop"  BY DEF TypeInv, TypeOK, Hopped, At
<1>2. l[t].cur \in Links /\ l[t].next \in Links  BY <1>1 DEF Sound, Search
<1>3. UNCHANGED <<Fixed, todo>>  BY DEF Hopped
<1>4. CASE Retry(t, {l[t].next})  BY <1>2, <1>3, <1>4, RetryTyped, TypedFixed
<1>5. CASE Take(t, nodes[l[t].next].next[l[t].layer], {l[t].next}, l[t])
  <2>1. nodes[l[t].next].next[l[t].layer] \in Links \cup {None}  BY <1>1, <1>2 DEF TypeOK, NodeRec, Locals
  <2> QED  BY <1>1, <1>3, <1>5, <2>1, TakeTyped, TypedFixed
<1> QED  BY <1>4, <1>5 DEF Hopped

LEMMA PassTyped == ASSUME TypeInv, NEW t \in Threads, Pass(t) PROVE TypeInv'
<1> DEFINE r == [l[t] EXCEPT !.cur = l[t].next]
<1>1. TypeOK /\ Sound(l[t]) /\ l[t] \in Locals /\ l[t].pc = "look"
  BY DEF TypeInv, TypeOK, Pass, First, Answers, At
<1>2. Goto(t, "peek", r) /\ Counted({}, {l[t].cur}) /\ UNCHANGED <<Fixed, todo>> /\ "peek" \in PCs \ {"idle"}
  BY DEF Pass, PCs
<1>3. l[t].next \in Links  BY <1>1 DEF Sound
<1>4. r \in Locals  BY <1>1, <1>3, SetCur
<1>5. r.op = l[t].op /\ r.node = l[t].node /\ r.top = l[t].top /\ r.cur = l[t].next /\ r.again = l[t].again
  BY <1>1 DEF Locals
<1> HIDE DEF r
<1>6. /\ l'[t].pc = "peek" /\ l'[t].op = l[t].op /\ l'[t].node = l[t].node /\ l'[t].top = l[t].top
      /\ l'[t].cur = l[t].next /\ l'[t].again = l[t].again
  BY <1>1, <1>2, <1>4, <1>5, GotoFields
<1>7. Sound(l'[t])  BY <1>1, <1>3, <1>6 DEF Sound, Search, Change, Again
<1> QED  BY <1>1, <1>2, <1>4, <1>7, GotoTyped, GotoOthers, CountedTyped, TypedFixed

LEMMA DescendTyped == ASSUME TypeInv, NEW t \in Threads, Descend(t) PROVE TypeInv'
<1> DEFINE r == [l[t] EXCEPT !.layer = @ - 1]
<1>1. TypeOK /\ Sound(l[t]) /\ l[t] \in Locals /\ l[t].pc = "look"
  BY DEF TypeInv, TypeOK, Descend, First, Answers, At
<1>2. Goto(t, "peek", r) /\ Counted({}, {l[t].next}) /\ UNCHANGED <<Fixed, todo>> /\ "peek" \in PCs \ {"idle"}
  BY DEF Descend, PCs
<1>3. l[t].layer - 1 \in Layers  BY <1>1, ListAssumption DEF Descend, Locals, Layers
<1>4. r \in Locals  BY <1>1, <1>3, SetLayer
<1>5. r.op = l[t].op /\ r.node = l[t].node /\ r.top = l[t].top /\ r.cur = l[t].cur /\ r.again = l[t].again
  BY <1>1 DEF Locals
<1> HIDE DEF r
<1>6. /\ l'[t].pc = "peek" /\ l'[t].op = l[t].op /\ l'[t].node = l[t].node /\ l'[t].top = l[t].top
      /\ l'[t].cur = l[t].cur /\ l'[t].again = l[t].again
  BY <1>1, <1>2, <1>4, <1>5, GotoFields
<1>7. Sound(l'[t])  BY <1>1, <1>6 DEF Sound, Search, Change, Again
<1> QED  BY <1>1, <1>2, <1>4, <1>7, GotoTyped, GotoOthers, CountedTyped, TypedFixed

LEMMA AnswerTyped == ASSUME TypeInv, NEW t \in Threads, Answer(t) PROVE TypeInv'
<1> DEFINE n == IF l[t].cur = head THEN None ELSE l[t].cur
           r == [l[t] EXCEPT !.answer = n]
<1>1. TypeOK /\ Sound(l[t]) /\ l[t] \in Locals /\ l[t].op = "find"  BY DEF TypeInv, TypeOK, Answer
<1>2. /\ Goto(t, "answer", r) /\ refs' \in [Links -> 0..RefBase - 1] /\ UNCHANGED <<Fixed, todo>>
      /\ "answer" \in PCs \ {"idle"}
  BY <1>1, CountedTyped DEF Answer, PCs
<1>3. n \in Links \cup {None}  BY <1>1 DEF Locals
<1> HIDE DEF n
<1>4. r \in Locals  BY <1>1, <1>3, SetAnswer
<1>5. r.op = l[t].op /\ r.node = l[t].node /\ r.top = l[t].top  BY <1>1 DEF Locals
<1> HIDE DEF r
<1>6. l'[t].pc = "answer" /\ l'[t].op = l[t].op /\ l'[t].node = l[t].node /\ l'[t].top = l[t].top
  BY <1>1, <1>2, <1>4, <1>5, GotoFields
<1>7. Sound(l'[t])  BY <1>1, <1>6 DEF Sound, Search, Change, Again
<1> QED  BY <1>1, <1>2, <1>4, <1>7, GotoTyped, GotoOthers, TypedFixed

LEMMA PlaceTyped == ASSUME TypeInv, NEW t \in Threads, Place(t) PROVE TypeInv'
<1> DEFINE i == l[t].layer
           r == [l[t] EXCEPT !.prevs[i] = l[t].cur, !.nexts[i] = l[t].next]
<1>1. TypeOK /\ Sound(l[t]) /\ l[t] \in Locals /\ l[t].pc = "look" /\ ~l[t].again
  BY DEF TypeInv, TypeOK, Place, First, Answers, At
<1>2. Goto(t, "try", r) /\ Counted({}, {l[t].next}) /\ UNCHANGED <<Fixed, todo>> /\ "try" \in PCs \ {"idle"}
  BY DEF Place, PCs
<1>3. l[t].cur \in Links /\ l[t].next \in Links /\ i \in Layers /\ i <= l[t].top
  BY <1>1 DEF Sound, Search, Locals, Place
<1>4. l[t].op \in {"insert", "erase"}  BY <1>1, <1>3 DEF Sound, Locals, Layers
<1>5. r \in Locals  BY <1>1, <1>3, SetPlace
<1>6. /\ r.op = l[t].op /\ r.node = l[t].node /\ r.top = l[t].top /\ r.cur = l[t].cur /\ r.again = l[t].again
      /\ r.layer = i /\ r.prevs[i] = l[t].cur
  BY <1>1, <1>3 DEF Locals
<1> HIDE DEF r
<1>7. /\ l'[t].pc = "try" /\ l'[t].op = l[t].op /\ l'[t].node = l[t].node /\ l'[t].top = l[t].top
      /\ l'[t].cur = l[t].cur /\ l'[t].again = FALSE /\ l'[t].layer = i /\ l'[t].prevs[i] = l[t].cur
  BY <1>1, <1>2, <1>5, <1>6, GotoFields
<1>8. Sound(l'[t])  BY <1>1, <1>3, <1>4, <1>7 DEF Sound, Search, Change, Again
<1> QED  BY <1>1, <1>2, <1>5, <1>8, GotoTyped, GotoOthers, CountedTyped, TypedFixed

LEMMA TryTyped == ASSUME TypeInv, NEW t \in Threads, Try(t) PROVE TypeInv'
<1>1. TypeOK /\ Sound(l[t]) /\ l[t] \in Locals /\ l[t].pc = "try"  BY DEF TypeInv, TypeOK, Try, At
<1>2. l[t].cur \in Links /\ l[t].layer <= l[t].top /\ l[t].op \in {"insert", "erase"}  BY <1>1 DEF Sound, Search
<1>3. UNCHANGED <<entries, listTop, todo, seen>>  BY DEF Try
<1>4. CASE Retry(t, {}) /\ UNCHANGED nodes  BY <1>1, <1>2, <1>3, <1>4, RetryTyped, TypedNodes DEF TypeOK
<1>5. CASE Goto(t, "prev", l[t]) /\ UNCHANGED refs /\ (UNCHANGED nodes \/ Put(l[t].cur, "flag", t))
  <2>1. "prev" \in PCs \ {"idle"}  BY DEF PCs
  <2>2. nodes' \in [Links -> NodeRec]  BY <1>1, <1>5, PutFlag DEF TypeOK
  <2>3. Sound(l'[t])  BY <1>1, <1>2, <1>5, <2>1, GoTyped DEF Sound, Search, Change, Again
  <2> QED  BY <1>1, <1>3, <1>5, <2>1, <2>2, <2>3, GoTyped, TypedNodes DEF TypeOK
<1> QED  BY <1>4, <1>5 DEF Try

LEMMA PrevTyped == ASSUME TypeInv, NEW t \in Threads, Prev(t) PROVE TypeInv'
<1>1. TypeOK /\ Sound(l[t]) /\ l[t] \in Locals /\ l[t].pc = "prev"  BY DEF TypeInv, TypeOK, Prev, At
<1>2. /\ l[t].cur \in Links /\ l[t].layer <= l[t].top /\ l[t].op \in {"insert", "erase"} /\ l[t].layer \in Nat
  BY <1>1 DEF Sound, Search, Locals, Layers
<1>3. UNCHANGED <<Fixed, todo>>  BY DEF Prev
<1>4. CASE Goto(t, "next", l[t]) /\ UNCHANGED refs
  <2>1. "next" \in PCs \ {"idle"}  BY DEF PCs
  <2>2. Sound(l'[t])  BY <1>1, <1>2, <1>4, <2>1, GoTyped DEF Sound, Search, Change, Again
  <2> QED  BY <1>1, <1>3, <1>4, <2>1, <2>2, GoTyped, TypedFixed DEF TypeOK
<1>5. CASE ClearFrom(t, l[t].layer, Begin(t), {})
  <2>1. Begin(t) \in PCs  BY DEF Begin, PCs
  <2> QED  BY <1>2, <1>3, <1>5, <2>1, BeginAt, ClearFromTyped, TypedFixed
<1> QED  BY <1>4, <1>5 DEF Prev

LEMMA NextValidTyped == ASSUME TypeInv, NEW t \in Threads, NextValid(t) PROVE TypeInv'
<1>1. TypeOK /\ Sound(l[t]) /\ l[t] \in Locals /\ l[t].pc = "next"  BY DEF TypeInv, TypeOK, NextValid, At
<1>2. /\ l[t].cur \in Links /\ l[t].layer <= l[t].top /\ l[t].op \in {"insert", "erase"}
      /\ l[t].layer \in Nat /\ l[t].layer \in Layers
  BY <1>1 DEF Sound, Search, Locals, Layers
<1>3. UNCHANGED <<entries, listTop, todo, seen>>  BY DEF NextValid
<1>4. CASE IsLinked(l[t].next)
  <2> DEFINE r == [l[t] EXCEPT !.again = TRUE]
  <2>1. Goto(t, "peek", r) /\ UNCHANGED refs /\ "peek" \in PCs \ {"idle"}  BY <1>4 DEF NextValid, PCs
  <2>2. nodes' \in [Links -> NodeRec]
    <3>1. CASE l[t].op = "insert"
      <4>1. nodes' = [nodes EXCEPT ![l[t].node].next[l[t].layer] = l[t].next]  BY <1>4, <3>1 DEF NextValid
      <4>2. l[t].next \in Links \cup {None}  BY <1>1 DEF Locals
      <4> QED  BY <1>1, <1>2, <4>1, <4>2, PutNext DEF TypeOK
    <3>2. CASE l[t].op # "insert"  BY <1>1, <1>4, <3>2 DEF NextValid, TypeOK
    <3> QED  BY <3>1, <3>2
  <2>3. r \in Locals  BY <1>1, SetAgain
  <2>4. r.op = l[t].op /\ r.node = l[t].node /\ r.top = l[t].top /\ r.cur = l[t].cur  BY <1>1 DEF Locals
  <2> HIDE DEF r
  <2>5. /\ l'[t].pc = "peek" /\ l'[t].op = l[t].op /\ l'[t].node = l[t].node /\ l'[t].top = l[t].top
        /\ l'[t].cur = l[t].cur
    BY <1>1, <2>1, <2>3, <2>4, GotoFields
  <2>6. Sound(l'[t])  BY <1>1, <1>2, <2>5 DEF Sound, Search, Change, Again
  <2> QED  BY <1>1, <1>3, <2>1, <2>2, <2>3, <2>6, GotoTyped, GotoOthers, TypedNodes DEF TypeOK
<1>5. CASE ~IsLinked(l[t].next)
  <2>1. Begin(t) \in PCs  BY DEF Begin, PCs
  <2>2. ClearFrom(t, l[t].layer, Begin(t), {}) /\ UNCHANGED nodes  BY <1>5 DEF NextValid
  <2> QED  BY <1>1, <1>2, <1>3, <2>1, <2>2, BeginAt, ClearFromTyped, TypedNodes DEF TypeOK
<1> QED  BY <1>4, <1>5

LEMMA PlacedTyped == ASSUME TypeInv, NEW t \in Threads, Placed(t) PROVE TypeInv'
<1>1. TypeOK /\ Sound(l[t]) /\ l[t] \in Locals /\ l[t].pc = "look" /\ l[t].again
  BY DEF TypeInv, TypeOK, Placed, Answers, At
<1>2. l[t].cur \in Links /\ l[t].op \in {"insert", "erase"} /\ l[t].layer \in Nat
  BY <1>1 DEF Sound, Search, Locals, Layers, Again
<1>3. UNCHANGED <<Fixed, todo>>  BY DEF Placed
<1>4. CASE ClearFrom(t, l[t].layer, Begin(t), {l[t].next})
  <2>1. Begin(t) \in PCs  BY DEF Begin, PCs
  <2> QED  BY <1>2, <1>3, <1>4, <2>1, BeginAt, ClearFromTyped, TypedFixed
<1>5. CASE l[t].layer > 0 /\ Counted({}, {l[t].next}) /\ Goto(t, "peek", [l[t] EXCEPT !.layer = @ - 1, !.again = FALSE])
  <2> DEFINE r == [l[t] EXCEPT !.layer = @ - 1, !.again = FALSE]
  <2>1. l[t].layer - 1 \in Layers  BY <1>1, <1>5, ListAssumption DEF Locals, Layers
  <2>2. r \in Locals  BY <1>1, <2>1, SetDown
  <2>3. r.op = l[t].op /\ r.node = l[t].node /\ r.top = l[t].top /\ r.cur = l[t].cur /\ r.again = FALSE
    BY <1>1 DEF Locals
  <2>4. Goto(t, "peek", r) /\ "peek" \in PCs \ {"idle"}  BY <1>5 DEF PCs
  <2> HIDE DEF r
  <2>5. /\ l'[t].pc = "peek" /\ l'[t].op = l[t].op /\ l'[t].node = l[t].node /\ l'[t].top = l[t].top
        /\ l'[t].cur = l[t].cur
    BY <1>1, <2>2, <2>3, <2>4, GotoFields
  <2>6. Sound(l'[t])  BY <1>1, <1>2, <2>5 DEF Sound, Search, Change, Again
  <2> QED  BY <1>1, <1>3, <1>5, <2>2, <2>4, <2>6, GotoTyped, GotoOthers, CountedTyped, TypedFixed
<1>6. CASE /\ Counted({}, {l[t].next})
           /\ Goto(t, IF l[t].op = "insert" THEN "store" ELSE "unlink", l[t])
  <2>1. PICK p \in {"store", "unlink"} : Goto(t, p, l[t])  BY <1>6
  <2>2. p \in PCs \ {"idle"}  BY DEF PCs
  <2>3. Sound(l'[t])  BY <1>1, <1>2, <2>1, <2>2, GoTyped DEF Sound, Search, Change, Again
  <2> QED  BY <1>1, <1>3, <1>6, <2>1, <2>2, <2>3, GoTyped, CountedTyped, TypedFixed
<1> QED  BY <1>4, <1>5, <1>6 DEF Placed

-----------------------------------------------------------------------------
\* The changes, and their marks.
LEMMA UnlinkTyped == ASSUME TypeInv, NEW t \in Threads, Unlink(t) PROVE TypeInv'
<1>1. TypeOK /\ Sound(l[t]) /\ At(t, "unlink")  BY DEF TypeInv, Unlink
<1>2. Put(l[t].node, "full", FALSE) /\ Goto(t, "store", l[t]) /\ Observe /\ "store" \in PCs \ {"idle"}  BY DEF Unlink, PCs
<1>3. nodes' \in [Links -> NodeRec]  BY <1>1, <1>2, PutFull DEF TypeOK
<1>4. Sound(l'[t])  BY <1>1, <1>2, GoTyped DEF Sound, Search, Change, Again, At
<1>5. UNCHANGED <<refs, entries, listTop, todo>>  BY DEF Unlink
<1> QED  BY <1>1, <1>2, <1>3, <1>4, <1>5, GoTyped, ObserveTyped, Typed DEF TypeOK

LEMMA StoreTyped == ASSUME TypeInv, NEW t \in Threads, Store(t) PROVE TypeInv'
<1> DEFINE i == l[t].layer
           p == l[t].prevs[i]
<1>1. TypeOK /\ Sound(l[t]) /\ l[t] \in Locals /\ l[t].pc = "store"  BY DEF TypeInv, TypeOK, Store, At
<1>2. UNCHANGED <<refs, entries, listTop, todo, seen>>  BY DEF Store
<1>3. l[t].op \in {"insert", "erase"} /\ i \in Layers  BY <1>1 DEF Sound, Change, Locals
<1>4. nodes' \in [Links -> NodeRec]
  <2>1. Desired(t) \in Links \cup {None}  BY <1>1, <1>3 DEF Desired, Locals, Links
  <2>2. UNCHANGED nodes \/ nodes' = [nodes EXCEPT ![p].next[i] = Desired(t)]  BY DEF Store
  <2> HIDE DEF p, i
  <2>3. CASE UNCHANGED nodes  BY <1>1, <2>3 DEF TypeOK
  <2>4. CASE nodes' = [nodes EXCEPT ![p].next[i] = Desired(t)]
    <3>1. nodes \in [Links -> NodeRec]  BY <1>1 DEF TypeOK
    <3>2. [nodes EXCEPT ![p].next[i] = Desired(t)] \in [Links -> NodeRec]  BY <1>3, <2>1, <3>1, PutNext
    <3> QED  BY <2>4, <3>2
  <2> QED  BY <2>2, <2>3, <2>4
<1>5. CASE i < l[t].top
  <2> DEFINE r == [l[t] EXCEPT !.layer = @ + 1]
  <2>1. Goto(t, "store", r) /\ "store" \in PCs \ {"idle"}  BY <1>5 DEF Store, PCs
  <2>2. i + 1 \in Layers  BY <1>1, <1>3, <1>5, ListAssumption DEF Locals, Layers
  <2>3. r \in Locals  BY <1>1, <2>2, SetLayer
  <2>4. r.op = l[t].op /\ r.node = l[t].node /\ r.top = l[t].top /\ r.cur = l[t].cur  BY <1>1 DEF Locals
  <2> HIDE DEF r
  <2>5. /\ l'[t].pc = "store" /\ l'[t].op = l[t].op /\ l'[t].node = l[t].node /\ l'[t].top = l[t].top
        /\ l'[t].cur = l[t].cur
    BY <1>1, <2>1, <2>3, <2>4, GotoFields
  <2>6. Sound(l'[t])  BY <1>1, <1>3, <2>5 DEF Sound, Search, Change, Again
  <2> QED  BY <1>1, <1>2, <1>4, <2>1, <2>3, <2>6, GotoTyped, GotoOthers, TypedNodes DEF TypeOK
<1>6. CASE ~(i < l[t].top)
  <2>1. PICK q \in {"publish", "count"} : Goto(t, q, l[t])  BY <1>6 DEF Store
  <2>2. q \in PCs \ {"idle"}  BY DEF PCs
  <2>3. Sound(l'[t])  BY <1>1, <1>3, <2>1, <2>2, GoTyped DEF Sound, Search, Change, Again
  <2> QED  BY <1>1, <1>2, <1>4, <2>1, <2>2, <2>3, GoTyped, TypedNodes DEF TypeOK
<1> QED  BY <1>5, <1>6

LEMMA PublishTyped == ASSUME TypeInv, NEW t \in Threads, Publish(t) PROVE TypeInv'
<1>1. TypeOK /\ Sound(l[t]) /\ At(t, "publish")  BY DEF TypeInv, Publish
<1>2. Put(l[t].node, "full", TRUE) /\ Goto(t, "release", l[t]) /\ Observe /\ "release" \in PCs \ {"idle"}
  BY DEF Publish, PCs
<1>3. nodes' \in [Links -> NodeRec]  BY <1>1, <1>2, PutFull DEF TypeOK
<1>4. Sound(l'[t])  BY <1>1, <1>2, GoTyped DEF Sound, Search, Change, Again, At
<1>5. UNCHANGED <<refs, entries, listTop, todo>>  BY DEF Publish
<1> QED  BY <1>1, <1>2, <1>3, <1>4, <1>5, GoTyped, ObserveTyped, Typed DEF TypeOK

LEMMA ReleaseTyped == ASSUME TypeInv, NEW t \in Threads, Release(t) PROVE TypeInv'
<1>1. TypeOK /\ Sound(l[t]) /\ At(t, "release")  BY DEF TypeInv, Release
<1>2. Put(l[t].node, "holder", None) /\ Goto(t, "count", l[t]) /\ "count" \in PCs \ {"idle"}  BY DEF Release, PCs
<1>3. nodes' \in [Links -> NodeRec]  BY <1>1, <1>2, PutHolder DEF TypeOK
<1>4. Sound(l'[t])  BY <1>1, <1>2, GoTyped DEF Sound, Search, Change, Again, At
<1>5. UNCHANGED <<refs, entries, listTop, todo, seen>>  BY DEF Release
<1> QED  BY <1>1, <1>2, <1>3, <1>4, <1>5, GoTyped, TypedNodes DEF TypeOK

LEMMA CountTyped == ASSUME TypeInv, NEW t \in Threads, Count(t) PROVE TypeInv'
<1> DEFINE r == [l[t] EXCEPT !.layer = MaxLayer - 1]
<1>1. TypeOK /\ Sound(l[t]) /\ l[t] \in Locals /\ l[t].pc = "count"  BY DEF TypeInv, TypeOK, Count, At
<1>2. Goto(t, "scan", r) /\ UNCHANGED <<nodes, refs, listTop, todo, seen>> /\ "scan" \in PCs \ {"idle"}
  BY DEF Count, PCs
<1>3. l[t].op \in {"insert", "erase"}  BY <1>1 DEF Sound, Change
<1>4. entries' \in [Layers -> Int]
  <2> DEFINE j == nodes[l[t].node].top
  <2>1. \E c \in {1, -1} : entries' = [entries EXCEPT ![j] = @ + c]
    <3>1. CASE l[t].op = "insert"
      <4>1. entries' = [entries EXCEPT ![j] = @ + 1]  BY <3>1 DEF Count
      <4> QED  BY <4>1
    <3>2. CASE l[t].op # "insert"
      <4>1. entries' = [entries EXCEPT ![j] = @ - 1]  BY <3>2 DEF Count
      <4>2. j \in Layers  BY <1>1, <1>3 DEF Sound, TypeOK, NodeRec, Links
      <4>3. entries[j] - 1 = entries[j] + (-1)  BY <1>1, <4>2 DEF TypeOK
      <4> QED  BY <4>1, <4>3
    <3> QED  BY <3>1, <3>2
  <2>2. j \in Layers  BY <1>1, <1>3 DEF Sound, TypeOK, NodeRec, Links
  <2> HIDE DEF j
  <2> QED  BY <1>1, <2>1, <2>2 DEF TypeOK
<1>5. MaxLayer - 1 \in Layers  BY ListAssumption DEF Layers
<1>6. r \in Locals  BY <1>1, <1>5, SetLayer
<1>7. r.op = l[t].op /\ r.node = l[t].node /\ r.top = l[t].top /\ r.cur = l[t].cur  BY <1>1 DEF Locals
<1> HIDE DEF r
<1>8. /\ l'[t].pc = "scan" /\ l'[t].op = l[t].op /\ l'[t].node = l[t].node /\ l'[t].top = l[t].top
      /\ l'[t].cur = l[t].cur
  BY <1>1, <1>2, <1>6, <1>7, GotoFields
<1>9. Sound(l'[t])  BY <1>1, <1>3, <1>8 DEF Sound, Search, Change, Again
<1> QED  BY <1>1, <1>2, <1>4, <1>6, <1>9, GotoTyped, GotoOthers, Typed DEF TypeOK

LEMMA FinishTyped == ASSUME TypeInv, NEW t \in Threads, Finish(t), l[t].cur \in Links, l[t].op \in {"insert", "erase"}
                     PROVE /\ l' \in [Threads -> Locals] /\ \A u \in Threads : u # t => l'[u] = l[u]
                           /\ refs' \in [Links -> 0..RefBase - 1] /\ Sound(l'[t])
<1>1. "idle" \in PCs /\ "unmark" \in PCs /\ 0 \in Nat  BY DEF PCs
<1> QED  BY <1>1, ClearFromTyped DEF Finish

LEMMA ScanTyped == ASSUME TypeInv, NEW t \in Threads, Scan(t) PROVE TypeInv'
<1>1. TypeOK /\ Sound(l[t]) /\ l[t] \in Locals /\ l[t].pc = "scan"  BY DEF TypeInv, TypeOK, Scan, At
<1>2. l[t].op \in {"insert", "erase"} /\ l[t].cur \in Links  BY <1>1 DEF Sound, Change
<1>3. UNCHANGED <<Fixed, todo>>  BY DEF Scan
<1>4. CASE Goto(t, "top", l[t]) /\ UNCHANGED refs
  <2>1. "top" \in PCs \ {"idle"}  BY DEF PCs
  <2>2. Sound(l'[t])  BY <1>1, <1>2, <1>4, <2>1, GoTyped DEF Sound, Search, Change, Again
  <2> QED  BY <1>1, <1>3, <1>4, <2>1, <2>2, GoTyped, TypedFixed DEF TypeOK
<1>5. CASE l[t].layer > 0 /\ Goto(t, "scan", [l[t] EXCEPT !.layer = @ - 1]) /\ UNCHANGED refs
  <2> DEFINE r == [l[t] EXCEPT !.layer = @ - 1]
  <2>1. Goto(t, "scan", r) /\ "scan" \in PCs \ {"idle"}  BY <1>5 DEF PCs
  <2>2. l[t].layer - 1 \in Layers  BY <1>1, <1>5, ListAssumption DEF Locals, Layers
  <2>3. r \in Locals  BY <1>1, <2>2, SetLayer
  <2>4. r.op = l[t].op /\ r.node = l[t].node /\ r.top = l[t].top /\ r.cur = l[t].cur  BY <1>1 DEF Locals
  <2> HIDE DEF r
  <2>5. /\ l'[t].pc = "scan" /\ l'[t].op = l[t].op /\ l'[t].node = l[t].node /\ l'[t].top = l[t].top
        /\ l'[t].cur = l[t].cur
    BY <1>1, <2>1, <2>3, <2>4, GotoFields
  <2>6. Sound(l'[t])  BY <1>1, <1>2, <2>5 DEF Sound, Search, Change, Again
  <2> QED  BY <1>1, <1>3, <1>5, <2>1, <2>3, <2>6, GotoTyped, GotoOthers, TypedFixed DEF TypeOK
<1>6. CASE Finish(t)  BY <1>2, <1>3, <1>6, FinishTyped, TypedFixed
<1> QED  BY <1>4, <1>5, <1>6 DEF Scan

LEMMA SetTopTyped == ASSUME TypeInv, NEW t \in Threads, SetTop(t) PROVE TypeInv'
<1>1. TypeOK /\ Sound(l[t]) /\ l[t] \in Locals /\ l[t].pc = "top"  BY DEF TypeInv, TypeOK, SetTop, At
<1>2. l[t].op \in {"insert", "erase"} /\ l[t].cur \in Links /\ l[t].layer \in Layers  BY <1>1 DEF Sound, Change, Locals
<1>3. UNCHANGED <<nodes, entries, todo, seen>> /\ Finish(t) /\ listTop' = l[t].layer  BY DEF SetTop
<1> QED  BY <1>1, <1>2, <1>3, FinishTyped, Typed DEF TypeOK

LEMMA ClearTyped == ASSUME TypeInv, NEW t \in Threads, Clear(t) PROVE TypeInv'
<1> DEFINE i == l[t].layer
<1>1. TypeOK /\ Sound(l[t]) /\ l[t] \in Locals /\ l[t].pc = "clear"  BY DEF TypeInv, TypeOK, Clear, At
<1>2. l[t].cur \in Links /\ i <= l[t].top /\ l[t].op \in {"insert", "erase"} /\ i \in Layers
  BY <1>1 DEF Sound, Search, Locals
<1>3. UNCHANGED <<entries, listTop, todo, seen>>  BY DEF Clear
<1>4. nodes' \in [Links -> NodeRec]
  <2>1. UNCHANGED nodes \/ Put(l[t].prevs[i], "flag", None)  BY DEF Clear
  <2> QED  BY <1>1, <2>1, PutFlag DEF TypeOK
<1>5. CASE i < l[t].top
  <2> DEFINE r == [l[t] EXCEPT !.layer = @ + 1]
  <2>1. Goto(t, "clear", r) /\ UNCHANGED refs /\ "clear" \in PCs \ {"idle"}  BY <1>5 DEF Clear, PCs
  <2>2. i + 1 \in Layers /\ i + 1 <= l[t].top  BY <1>1, <1>2, <1>5, ListAssumption DEF Locals, Layers
  <2>3. r \in Locals  BY <1>1, <2>2, SetLayer
  <2>4. /\ r.op = l[t].op /\ r.node = l[t].node /\ r.top = l[t].top /\ r.cur = l[t].cur /\ r.then = l[t].then
        /\ r.layer = i + 1
    BY <1>1 DEF Locals
  <2> HIDE DEF r
  <2>5. /\ l'[t].pc = "clear" /\ l'[t].op = l[t].op /\ l'[t].node = l[t].node /\ l'[t].top = l[t].top
        /\ l'[t].cur = l[t].cur /\ l'[t].then = l[t].then /\ l'[t].layer = i + 1
    BY <1>1, <2>1, <2>3, <2>4, GotoFields
  <2>6. Sound(l'[t])  BY <1>1, <1>2, <2>2, <2>5 DEF Sound, Search, Change, Again
  <2> QED  BY <1>1, <1>3, <1>4, <2>1, <2>3, <2>6, GotoTyped, GotoOthers, TypedNodes DEF TypeOK
<1>6. CASE ~(i < l[t].top)
  <2>1. Goto(t, l[t].then, l[t]) /\ Counted({}, {l[t].cur})  BY <1>6 DEF Clear
  <2>2. l[t].then \in PCs  BY <1>1 DEF Locals
  <2>3. \/ l[t].then = "start" \/ l[t].then = "idle"
        \/ l[t].then \in {"linked", "unmark"} /\ l[t].op = "erase"
    BY <1>1 DEF Sound
  <2>4. Sound(l'[t])  BY <1>1, <1>2, <2>1, <2>2, <2>3, GoTyped DEF Sound, Search, Change, Again
  <2> QED  BY <1>1, <1>3, <1>4, <2>1, <2>2, <2>4, GoTyped, CountedTyped, TypedNodes
<1> QED  BY <1>5, <1>6

-----------------------------------------------------------------------------
LEMMA WarmNextTyped == ASSUME NEW n, NEW i PROVE WarmNext(n, i) \in Links
<1> DEFINE After == {m \in DOMAIN Warm : Warm[m] >= i /\ Past(Key[m], n)}
           Nearest == {m \in After : \A k \in After : Key[m] <= Key[k]}
<1>1. Nearest \subseteq Nodes  BY ListAssumption
<1> HIDE DEF Nearest
<1>2. Nearest # {} => (CHOOSE m \in Nearest : TRUE) \in Nearest  OBVIOUS
<1>3. WarmNext(n, i) = IF Nearest = {} THEN tail ELSE CHOOSE m \in Nearest : TRUE  BY DEF WarmNext, Nearest
<1> QED  BY <1>1, <1>2, <1>3 DEF Links

LEMMA NodeTyped == ASSUME NEW n, NEW i \in Layers \cup {-1} PROVE Node(n, i) \in NodeRec
<1>1. [j \in Layers |-> IF j <= i THEN WarmNext(n, j) ELSE None] \in [Layers -> Links \cup {None}]
  BY WarmNextTyped
<1>2. (IF i < 0 THEN 0 ELSE i) \in Layers  BY ListAssumption DEF Layers
<1>3. (i >= 0) \in BOOLEAN  OBVIOUS
<1> QED  BY <1>1, <1>2, <1>3 DEF Node, NodeRec

LEMMA InitTyped == Init => TypeInv
<1> SUFFICES ASSUME Init PROVE TypeInv  OBVIOUS
<1>1. nodes \in [Links -> NodeRec]
  <2>1. MaxLayer - 1 \in Layers  BY ListAssumption DEF Layers
  <2>2. \A n \in DOMAIN Warm : Node(n, Warm[n]) \in NodeRec  BY NodeTyped, ListAssumption
  <2>3. Node(head, MaxLayer - 1) \in NodeRec  BY <2>1, NodeTyped
  <2>4. \A n \in Links : [Node(n, -1) EXCEPT !.full = n = tail] \in NodeRec
    <3>1. \A n : Node(n, -1) \in NodeRec  BY NodeTyped
    <3> QED  BY <3>1 DEF NodeRec
  <2> QED  BY <2>2, <2>3, <2>4 DEF Init
<1>2. refs \in [Links -> 0..RefBase - 1]
  <2> RefBase \in Nat \ {0}  BY DEF RefBase
  <2> QED  BY DEF Init
<1>3. entries \in [Layers -> Int]
  <2>1. \A i : IsFiniteSet({n \in DOMAIN Warm : Warm[n] = i})  BY ListAssumption, FS_Subset
  <2>2. \A i : Cardinality({n \in DOMAIN Warm : Warm[n] = i}) \in Nat  BY <2>1, FS_CardinalityType
  <2> DEFINE size(i) == Cardinality({n \in DOMAIN Warm : Warm[n] = i})
  <2>3. entries = [i \in Layers |-> size(i)]  BY DEF Init
  <2>4. \A i : size(i) \in Int  BY <2>2
  <2> HIDE DEF size
  <2> QED  BY <2>3, <2>4
<1>4. listTop \in Layers /\ todo \in [Threads -> Seq(Calls)]  BY ProgramAssumption DEF Init
<1>5. l \in [Threads -> Locals] /\ \A t \in Threads : Sound(l[t])  BY IdleTyped DEF Init
<1>6. seen \in [Threads -> Sights]  BY DEF Init, Sights, Unseen
<1> QED  BY <1>1, <1>2, <1>3, <1>4, <1>5, <1>6 DEF TypeInv, TypeOK

LEMMA StutterTyped == TypeInv /\ UNCHANGED vars => TypeInv'
BY DEF TypeInv, TypeOK, vars

LEMMA NextTyped == TypeInv /\ [Next]_vars => TypeInv'
<1> SUFFICES ASSUME TypeInv, [Next]_vars PROVE TypeInv'  OBVIOUS
<1>1. CASE UNCHANGED vars  BY <1>1, StutterTyped
<1>2. CASE Done  BY <1>2, StutterTyped DEF Done
<1>3. ASSUME NEW t \in Threads, Step(t) PROVE TypeInv'
  <2>1. CASE Call(t) \/ Removed(t) \/ Mark(t) \/ Retire(t) \/ Linked(t) \/ Restore(t) \/ Unmark(t) \/ Return(t)
    BY <2>1, CallTyped, RemovedTyped, MarkTyped, RetireTyped, LinkedTyped, RestoreTyped, UnmarkTyped, ReturnTyped
  <2>2. CASE Start(t) \/ Peek(t) \/ Hop(t) \/ Hopped(t) \/ Pass(t) \/ Descend(t) \/ Answer(t)
    BY <2>2, StartTyped, PeekTyped, HopTyped, HoppedTyped, PassTyped, DescendTyped, AnswerTyped
  <2>3. CASE Place(t) \/ Try(t) \/ Prev(t) \/ NextValid(t) \/ Placed(t)
    BY <2>3, PlaceTyped, TryTyped, PrevTyped, NextValidTyped, PlacedTyped
  <2>4. CASE \/ Unlink(t) \/ Store(t) \/ Publish(t) \/ Release(t) \/ Count(t) \/ Scan(t) \/ SetTop(t) \/ Clear(t)
    BY <2>4, UnlinkTyped, StoreTyped, PublishTyped, ReleaseTyped, CountTyped, ScanTyped, SetTopTyped, ClearTyped
  <2> QED  BY <1>3, <2>1, <2>2, <2>3, <2>4 DEF Step
<1> QED  BY <1>1, <1>2, <1>3 DEF Next

\* The types and the control facts hold in every state.
THEOREM IndexInvariant == Spec => []TypeInv
<1> QED  BY InitTyped, NextTyped, PTL DEF Spec

\* Every variable of the index library keeps its type, on every run, also one that goes
\* wrong: nodes point to nodes, and what a thread holds are nodes and layers.
THEOREM IndexTypes == Spec => []TypeOK
<1>1. TypeInv => TypeOK  BY DEF TypeInv
<1> QED  BY <1>1, IndexInvariant, PTL

-----------------------------------------------------------------------------
\* The layers whose predecessor a thread has marked, and whether it has marked the node
\* that it erases.
From(r) == IF r.pc \in {"prev", "next", "clear"} \/ Again(r) THEN r.layer
           ELSE IF r.pc \in {"peek", "look", "hop", "try"} THEN r.layer + 1
           ELSE IF r.pc \in Change THEN 0 ELSE MaxLayer
Zone(r) == {i \in Layers : From(r) <= i /\ i <= r.top}
Own(r) == r.op = "erase" /\ r.pc \notin {"removed", "mark", "idle", "crash"}

\* The marks of thread t are those of its zone and its own node; predecessors that are equal
\* are in layers one below the other, so that _sl_clr_flags takes each mark away once.
Has(t) == \A i \in Zone(l[t]) : l[t].prevs[i] \in Links /\ nodes[l[t].prevs[i]].flag = t
Stacked(t) == \A i, j \in Zone(l[t]) : i < j /\ l[t].prevs[i] = l[t].prevs[j] => l[t].prevs[i] = l[t].prevs[i + 1]
Owns(t) == Own(l[t]) => nodes[l[t].node].flag = t /\ \A i \in Zone(l[t]) : l[t].prevs[i] # l[t].node
Only(t) == l[t].pc # "crash" =>
             \A n \in Links : nodes[n].flag = t => \/ Own(l[t]) /\ n = l[t].node
                                                   \/ \E i \in Zone(l[t]) : n = l[t].prevs[i]
Marks(t) == Has(t) /\ Stacked(t) /\ Owns(t) /\ Only(t)

MarkInv == TypeInv /\ \A t \in Threads : Marks(t)

-----------------------------------------------------------------------------
FlagsSame == \A n \in Links : nodes'[n].flag = nodes[n].flag

LEMMA MarkOthers ==
  ASSUME MarkInv, NEW t \in Threads, \A u \in Threads : u # t => l'[u] = l[u],
         \A n \in Links : nodes'[n].flag = nodes[n].flag \/ (nodes'[n].flag \in {t, None} /\ nodes[n].flag \in {t, None}),
         NEW u \in Threads, u # t
  PROVE Marks(u)'
<1>1. l'[u] = l[u] /\ Marks(u) /\ Sound(l[u])  BY DEF MarkInv, TypeInv
<1>2. \A n \in Links : nodes'[n].flag = u <=> nodes[n].flag = u  BY ListAssumption
<1>3. Has(u)'  BY <1>1, <1>2 DEF Marks, Has
<1>4. Stacked(u)'  BY <1>1 DEF Marks, Stacked
<1>5. Owns(u)'  BY <1>1, <1>2 DEF Marks, Owns, Own, Sound, Links
<1>6. Only(u)'  BY <1>1, <1>2 DEF Marks, Only
<1> QED  BY <1>3, <1>4, <1>5, <1>6 DEF Marks

LEMMA MarkInvStep ==
  ASSUME MarkInv, TypeInv', NEW t \in Threads, \A u \in Threads : u # t => l'[u] = l[u],
         \A n \in Links : nodes'[n].flag = nodes[n].flag \/ (nodes'[n].flag \in {t, None} /\ nodes[n].flag \in {t, None}),
         Marks(t)'
  PROVE MarkInv'
<1>1. \A u \in Threads : u # t => Marks(u)'  BY MarkOthers
<1> QED  BY <1>1 DEF MarkInv

LEMMA MarkStep == ASSUME MarkInv, TypeInv', NEW t \in Threads, \A u \in Threads : u # t => l'[u] = l[u], FlagsSame, Marks(t)'
                  PROVE MarkInv'
BY MarkInvStep DEF FlagsSame

LEMMA FromInt == ASSUME MarkInv, NEW t \in Threads PROVE From(l[t]) \in Int /\ l[t].top \in Int
<1>1. l[t].layer \in Int /\ l[t].top \in Int  BY DEF MarkInv, TypeInv, TypeOK, Locals, Layers
<1> QED  BY <1>1, ListAssumption DEF From

\* A thread keeps its marks when it keeps what they are for.
LEMMA MarkStill ==
  ASSUME MarkInv, NEW t \in Threads, FlagsSame, Zone(l'[t]) = Zone(l[t]), l[t].pc # "crash",
         \A i \in Zone(l[t]) : l'[t].prevs[i] = l[t].prevs[i],
         Own(l'[t]) <=> Own(l[t]), Own(l[t]) => l'[t].node = l[t].node
  PROVE Marks(t)'
<1>1. Marks(t) /\ Sound(l[t])  BY DEF MarkInv, TypeInv
<1>2. Has(t)'  BY <1>1 DEF Marks, Has, FlagsSame
<1>3. Stacked(t)'
  <2>1. \A i, j \in Zone(l[t]) : i < j => i + 1 \in Zone(l[t])
    BY FromInt, ListAssumption DEF Zone, Layers
  <2> QED  BY <1>1, <2>1 DEF Marks, Stacked
<1>4. Owns(t)'  BY <1>1 DEF Marks, Owns, FlagsSame, Own, Sound, Links
<1>5. Only(t)'  BY <1>1 DEF Marks, Only, FlagsSame
<1> QED  BY <1>2, <1>3, <1>4, <1>5 DEF Marks

LEMMA NoZone == ASSUME NEW r, From(r) = MaxLayer PROVE Zone(r) = {}
BY ListAssumption DEF Zone, Layers

LEMMA MarkCrash == ASSUME NEW t \in Threads, l'[t].pc = "crash" PROVE Marks(t)'
<1>1. Zone(l'[t]) = {}  BY NoZone DEF From, Again, Change
<1>2. ~Own(l'[t])  BY DEF Own
<1> QED  BY <1>1, <1>2 DEF Marks, Has, Stacked, Owns, Only

LEMMA ClearFromMarks ==
  ASSUME MarkInv, NEW t \in Threads, NEW i \in Nat, NEW p \in PCs, NEW less, ClearFrom(t, i, p, less),
         l[t].pc \in Search \cup Change, FlagsSame, Zone(l[t]) = {j \in Layers : i <= j /\ j <= l[t].top},
         p = "start" \/ (p = "idle" /\ l[t].op = "insert") \/ (p \in {"linked", "unmark"} /\ l[t].op = "erase")
  PROVE Marks(t)'
<1>1. TypeOK /\ l[t] \in Locals  BY DEF MarkInv, TypeInv, TypeOK
<1>2. Own(l[t]) <=> l[t].op = "erase"  BY DEF Own, Search, Change
<1>0. l[t].pc # "crash"  BY DEF Search, Change
<1>3. CASE i > l[t].top
  <2>1. Goto(t, p, l[t])  BY <1>3 DEF ClearFrom
  <2>2. Zone(l[t]) = {}  BY <1>1, <1>3 DEF Locals, Layers
  <2>3. CASE p = "idle"
    <3>1. l'[t] = Idle  BY <1>1, <2>1, <2>3, GotoIdle
    <3>2. Zone(l'[t]) = {} /\ ~Own(l'[t])  BY <3>1, NoZone DEF From, Again, Change, Own, Idle
    <3>3. ~Own(l[t])  BY <1>2, <2>3
    <3> QED  BY <1>0, <2>2, <3>2, <3>3, MarkStill
  <2>4. CASE p # "idle"
    <3>1. l'[t].pc = p /\ l'[t].op = l[t].op /\ l'[t].node = l[t].node  BY <1>1, <2>1, <2>4, GoTyped
    <3>2. Zone(l'[t]) = {}  BY <2>4, <3>1, NoZone DEF From, Again, Change
    <3>3. Own(l'[t]) <=> Own(l[t])  BY <1>2, <2>4, <3>1 DEF Own
    <3> QED  BY <1>0, <2>2, <3>1, <3>2, <3>3, MarkStill
  <2> QED  BY <2>3, <2>4
<1>4. CASE ~(i > l[t].top)
  <2> DEFINE r == [l[t] EXCEPT !.layer = i, !.then = p]
  <2>1. Goto(t, "clear", r) /\ "clear" \in PCs \ {"idle"}  BY <1>4 DEF ClearFrom, PCs
  <2>2. l[t].top \in Layers /\ i \in Layers  BY <1>1, <1>4, ListAssumption DEF Locals, Layers
  <2>3. r \in Locals  BY <1>1, <2>2, SetClear
  <2>4. r.op = l[t].op /\ r.node = l[t].node /\ r.top = l[t].top /\ r.layer = i /\ r.prevs = l[t].prevs
    BY <1>1 DEF Locals
  <2> HIDE DEF r
  <2>5. /\ l'[t].pc = "clear" /\ l'[t].op = l[t].op /\ l'[t].node = l[t].node /\ l'[t].top = l[t].top
        /\ l'[t].layer = i /\ l'[t].prevs = l[t].prevs
    BY <1>1, <2>1, <2>3, <2>4, GotoFields
  <2>6. Zone(l'[t]) = Zone(l[t])  BY <2>5 DEF Zone, From
  <2>7. Own(l'[t]) <=> Own(l[t])  BY <1>2, <2>5 DEF Own
  <2> QED  BY <1>0, <2>5, <2>6, <2>7, MarkStill
<1> QED  BY <1>3, <1>4

-----------------------------------------------------------------------------
\* Steps that set and take away no mark.
LEMMA SameNodes == ASSUME UNCHANGED nodes PROVE FlagsSame
BY DEF FlagsSame

LEMMA SamePut == ASSUME TypeOK, NEW n, NEW v, Put(n, "full", v) \/ Put(n, "removed", v) \/ Put(n, "holder", v)
                 PROVE FlagsSame
<1>1. CASE Put(n, "full", v)  BY <1>1 DEF FlagsSame, TypeOK, NodeRec, Put
<1>2. CASE Put(n, "removed", v)  BY <1>2 DEF FlagsSame, TypeOK, NodeRec, Put
<1>3. CASE Put(n, "holder", v)  BY <1>3 DEF FlagsSame, TypeOK, NodeRec, Put
<1> QED  BY <1>1, <1>2, <1>3

LEMMA SameNext == ASSUME TypeOK, NEW n, NEW i, NEW v, nodes' = [nodes EXCEPT ![n].next[i] = v]
                  PROVE FlagsSame
BY DEF FlagsSame, TypeOK, NodeRec

LEMMA MarkBasics == ASSUME MarkInv, NEW t \in Threads
                    PROVE TypeInv /\ TypeOK /\ Sound(l[t]) /\ l[t] \in Locals /\ Marks(t)
BY DEF MarkInv, TypeInv, TypeOK

LEMMA NoMarks ==
  ASSUME MarkInv, TypeInv', NEW t \in Threads, \A u \in Threads : u # t => l'[u] = l[u], FlagsSame, l[t].pc # "crash",
         Zone(l[t]) = {}, ~Own(l[t]), Zone(l'[t]) = {}, ~Own(l'[t])
  PROVE MarkInv'
<1>1. Marks(t)'  BY MarkStill
<1> QED  BY <1>1, MarkStep

LEMMA GoMarks ==
  ASSUME MarkInv, TypeInv', NEW t \in Threads, NEW p \in PCs \ {"idle", "removed", "mark", "crash"}, NEW r \in Locals, Goto(t, p, r),
         FlagsSame, l[t].pc \notin {"idle", "removed", "mark", "crash"},
         r.op = l[t].op, r.node = l[t].node, r.top = l[t].top, \A i \in Zone(l[t]) : r.prevs[i] = l[t].prevs[i],
         From(l'[t]) = From(l[t])
  PROVE MarkInv'
<1>1. TypeOK  BY MarkBasics
<1>2. /\ l'[t].pc = p /\ l'[t].op = l[t].op /\ l'[t].node = l[t].node /\ l'[t].top = l[t].top /\ l'[t].prevs = r.prevs
      /\ \A u \in Threads : u # t => l'[u] = l[u]
  BY <1>1, GotoFields, GotoOthers
<1>3. Zone(l'[t]) = Zone(l[t])  BY <1>2 DEF Zone
<1>4. Own(l'[t]) <=> Own(l[t])  BY <1>2 DEF Own
<1>5. Marks(t)'  BY <1>2, <1>3, <1>4, MarkStill
<1> QED  BY <1>2, <1>5, MarkStep

LEMMA RetryMarks == ASSUME MarkInv, NEW t \in Threads, NEW less, Retry(t, less), FlagsSame, l[t].pc \in {"peek", "hop", "try"}
                    PROVE Marks(t)'
<1>1. TypeOK /\ Sound(l[t]) /\ l[t] \in Locals  BY MarkBasics
<1>2. CASE l[t].again
  <2>1. Goto(t, "crash", l[t]) /\ "crash" \in PCs \ {"idle"}  BY <1>2 DEF Retry, PCs
  <2> QED  BY <1>1, <2>1, GoTyped, MarkCrash
<1>3. CASE ~l[t].again
  <2>1. ClearFrom(t, l[t].layer + 1, Begin(t), less)  BY <1>3 DEF Retry
  <2>2. l[t].layer + 1 \in Nat /\ Begin(t) \in PCs  BY <1>1 DEF Locals, Layers, Begin, PCs
  <2>3. Zone(l[t]) = {j \in Layers : l[t].layer + 1 <= j /\ j <= l[t].top}  BY <1>3 DEF Zone, From, Again
  <2>4. l[t].pc \in Search \cup Change  BY DEF Search
  <2> QED  BY <2>1, <2>2, <2>3, <2>4, BeginAt, ClearFromMarks
<1> QED  BY <1>2, <1>3

LEMMA TakeMarks == ASSUME MarkInv, TypeInv', NEW t \in Threads, NEW n, NEW less, NEW r \in Locals, Take(t, n, less, r),
                          n \in Links \cup {None}, UNCHANGED nodes, l[t].pc \in {"peek", "hop"},
                          r.op = l[t].op, r.node = l[t].node, r.top = l[t].top, r.layer = l[t].layer,
                          r.again = l[t].again, r.prevs = l[t].prevs
                   PROVE MarkInv'
<1>1. TypeOK /\ Sound(l[t]) /\ l[t] \in Locals  BY MarkBasics
<1>2. CASE n = None
  <2>1. Goto(t, "crash", l[t]) /\ "crash" \in PCs \ {"idle"}  BY <1>2 DEF Take, PCs
  <2>2. l'[t].pc = "crash" /\ \A u \in Threads : u # t => l'[u] = l[u]  BY <1>1, <2>1, GoTyped
  <2> QED  BY <2>2, MarkCrash, MarkStep, SameNodes
<1>3. CASE n # None
  <2> DEFINE s == [r EXCEPT !.next = n]
  <2>1. Goto(t, "look", s) /\ "look" \in PCs \ {"idle", "removed", "mark", "crash"}  BY <1>3 DEF Take, PCs
  <2>2. s \in Locals  BY <1>3, SetNext
  <2>3. /\ s.op = l[t].op /\ s.node = l[t].node /\ s.top = l[t].top /\ s.layer = l[t].layer
        /\ s.again = l[t].again /\ s.prevs = l[t].prevs
    BY DEF Locals
  <2> HIDE DEF s
  <2>4. l'[t].pc = "look" /\ l'[t].layer = l[t].layer /\ l'[t].again = l[t].again
    BY <1>1, <2>1, <2>2, <2>3, GotoFields
  <2>5. From(l'[t]) = From(l[t])  BY <2>4 DEF From, Again
  <2> QED  BY <2>1, <2>2, <2>3, <2>5, GoMarks, SameNodes
<1> QED  BY <1>2, <1>3

LEMMA RemovedMarks == ASSUME MarkInv, TypeInv', NEW t \in Threads, Removed(t) PROVE MarkInv'
<1>1. TypeOK /\ l[t].pc = "removed" /\ UNCHANGED nodes  BY MarkBasics DEF Removed, At, Shared, Fixed
<1>2. PICK p \in {"idle", "mark"} : Goto(t, p, l[t])  BY DEF Removed
<1>3. p \in PCs  BY DEF PCs
<1>4. l'[t].pc = p
  <2>1. CASE p = "idle"  BY <1>1, <1>2, <2>1, GotoIdle DEF Idle
  <2>2. CASE p # "idle"  BY <1>1, <1>2, <1>3, <2>2, GoTyped
  <2> QED  BY <2>1, <2>2
<1>5. Zone(l[t]) = {} /\ ~Own(l[t]) /\ Zone(l'[t]) = {} /\ ~Own(l'[t])
  BY <1>1, <1>4, NoZone DEF From, Again, Change, Own
<1> QED  BY <1>1, <1>2, <1>3, <1>5, GoTyped, NoMarks, SameNodes

LEMMA CallMarks == ASSUME MarkInv, TypeInv', Fresh, NEW t \in Threads, Call(t) PROVE MarkInv'
<1> DEFINE first == todo[t][1]
<1>1. TypeOK /\ l[t].pc = "idle" /\ todo[t] # <<>>  BY MarkBasics DEF Call, At
<1>2. first \in Calls  BY <1>1 DEF TypeOK
<1>3. "start" \in PCs \ {"idle"} /\ "removed" \in PCs \ {"idle"}  BY DEF PCs
<1>4. Zone(l[t]) = {} /\ ~Own(l[t])  BY <1>1, NoZone DEF From, Again, Change, Own
<1>5. CASE first.op = "insert" /\ \E i \in first.tops : CallInsert(t, first.node, i)
  <2> DEFINE n == first.node
  <2>1. PICK i \in Layers : CallInsert(t, n, i)  BY <1>2, <1>5 DEF Calls
  <2> DEFINE r == [Idle EXCEPT !.op = "insert", !.node = n, !.key = Key[n], !.top = i]
  <2>2. n \in Nodes /\ nodes[n].flag = None  BY <1>1, <1>2, <1>5 DEF Calls, Fresh, At
  <2>3. r \in Locals /\ Goto(t, "start", r)  BY <2>1, <2>2, SetInsert DEF CallInsert
  <2>4. r.op = "insert"  BY DEF Idle
  <2> HIDE DEF r
  <2>5. l'[t].pc = "start" /\ l'[t].op = "insert"  BY <1>1, <1>3, <2>3, <2>4, GotoFields
  <2>6. \A u \in Threads : u # t => l'[u] = l[u]  BY <1>1, <2>3, GotoOthers
  <2>7. FlagsSame
    <3>1. nodes' = [nodes EXCEPT ![n] = [next |-> [j \in Layers |-> None], full |-> FALSE, flag |-> None,
                                         removed |-> FALSE, top |-> i, holder |-> t]]
      BY <2>1 DEF CallInsert
    <3> QED  BY <1>1, <2>2, <3>1 DEF FlagsSame, TypeOK
  <2>8. Zone(l'[t]) = {} /\ ~Own(l'[t])  BY <2>5, NoZone DEF From, Again, Change, Own
  <2> QED  BY <1>1, <1>4, <2>6, <2>7, <2>8, NoMarks
<1>6. CASE CallErase(t, first.node)
  <2> DEFINE n == first.node
             r == [Idle EXCEPT !.op = "erase", !.node = n, !.key = Key[n], !.top = nodes[n].top]
  <2>1. n \in Nodes /\ nodes[n].top \in Layers  BY <1>1, <1>2 DEF Calls, TypeOK, NodeRec, Links
  <2>2. r \in Locals /\ Goto(t, "removed", r) /\ UNCHANGED nodes  BY <1>6, <2>1, SetErase DEF CallErase
  <2> HIDE DEF r
  <2>3. l'[t].pc = "removed"  BY <1>1, <1>3, <2>2, GotoFields
  <2>4. \A u \in Threads : u # t => l'[u] = l[u]  BY <1>1, <2>2, GotoOthers
  <2>5. Zone(l'[t]) = {} /\ ~Own(l'[t])  BY <2>3, NoZone DEF From, Again, Change, Own
  <2> QED  BY <1>1, <1>4, <2>2, <2>4, <2>5, SameNodes, NoMarks
<1>7. CASE CallFind(t, Key[first.node])
  <2> DEFINE k == Key[first.node]
             r == [Idle EXCEPT !.op = "find", !.key = k]
  <2>1. k \in Int  BY <1>2, ListAssumption DEF Calls
  <2>2. r \in Locals /\ Goto(t, "start", r) /\ UNCHANGED nodes  BY <1>7, <2>1, SetFind DEF CallFind
  <2>3. r.op = "find"  BY DEF Idle
  <2> HIDE DEF r
  <2>4. l'[t].pc = "start" /\ l'[t].op = "find"  BY <1>1, <1>3, <2>2, <2>3, GotoFields
  <2>5. \A u \in Threads : u # t => l'[u] = l[u]  BY <1>1, <2>2, GotoOthers
  <2>6. Zone(l'[t]) = {} /\ ~Own(l'[t])  BY <2>4, NoZone DEF From, Again, Change, Own
  <2> QED  BY <1>1, <1>4, <2>2, <2>5, <2>6, SameNodes, NoMarks
<1> QED  BY <1>5, <1>6, <1>7 DEF Call

LEMMA RetireMarks == ASSUME MarkInv, TypeInv', NEW t \in Threads, Retire(t) PROVE MarkInv'
<1>1. TypeOK /\ l[t] \in Locals /\ l[t].pc = "retire"  BY MarkBasics DEF Retire, At
<1>2. Put(l[t].node, "removed", TRUE) /\ Goto(t, "linked", l[t]) /\ "linked" \in PCs \ {"idle", "removed", "mark", "crash"}
  BY DEF Retire, PCs
<1>3. From(l'[t]) = From(l[t])  BY <1>1, <1>2, GoTyped DEF From, Again, Change
<1> QED  BY <1>1, <1>2, <1>3, GoMarks, SamePut

LEMMA LinkedMarks == ASSUME MarkInv, TypeInv', NEW t \in Threads, Linked(t) PROVE MarkInv'
<1>1. TypeOK /\ l[t] \in Locals /\ l[t].pc = "linked" /\ UNCHANGED nodes  BY MarkBasics DEF Linked, At, Shared, Fixed
<1>2. PICK p \in {"start", "restore"} : Goto(t, p, l[t])  BY DEF Linked
<1>3. p \in PCs \ {"idle", "removed", "mark", "crash"}  BY DEF PCs
<1>4. From(l'[t]) = From(l[t])  BY <1>1, <1>2, <1>3, GoTyped DEF From, Again, Change
<1> QED  BY <1>1, <1>2, <1>3, <1>4, GoMarks, SameNodes

LEMMA RestoreMarks == ASSUME MarkInv, TypeInv', NEW t \in Threads, Restore(t) PROVE MarkInv'
<1>1. TypeOK /\ l[t] \in Locals /\ l[t].pc = "restore"  BY MarkBasics DEF Restore, At
<1>2. Put(l[t].node, "removed", FALSE) /\ Goto(t, "unmark", l[t]) /\ "unmark" \in PCs \ {"idle", "removed", "mark", "crash"}
  BY DEF Restore, PCs
<1>3. From(l'[t]) = From(l[t])  BY <1>1, <1>2, GoTyped DEF From, Again, Change
<1> QED  BY <1>1, <1>2, <1>3, GoMarks, SamePut

LEMMA ReturnMarks == ASSUME MarkInv, TypeInv', NEW t \in Threads, Return(t) PROVE MarkInv'
<1>1. TypeOK /\ Sound(l[t]) /\ l[t] \in Locals /\ l[t].pc = "answer" /\ UNCHANGED nodes  BY MarkBasics DEF Return, At
<1>2. Goto(t, "idle", l[t])  BY DEF Return
<1>3. l'[t] = Idle /\ \A u \in Threads : u # t => l'[u] = l[u]  BY <1>1, <1>2, GotoIdle, GotoOthers
<1>4. Zone(l[t]) = {} /\ ~Own(l[t])  BY <1>1, NoZone DEF From, Again, Change, Own, Sound
<1>5. Zone(l'[t]) = {} /\ ~Own(l'[t])  BY <1>3, NoZone DEF From, Again, Change, Own, Idle
<1> QED  BY <1>1, <1>3, <1>4, <1>5, NoMarks, SameNodes

LEMMA StartMarks == ASSUME MarkInv, TypeInv', Topped, NEW t \in Threads, Start(t) PROVE MarkInv'
<1> DEFINE i == IF l[t].op = "insert" /\ l[t].top > listTop THEN l[t].top ELSE listTop
           r == [l[t] EXCEPT !.cur = head, !.layer = i, !.again = FALSE]
<1>1. TypeOK /\ Sound(l[t]) /\ l[t] \in Locals /\ l[t].pc = "start" /\ UNCHANGED nodes
  BY MarkBasics DEF Start, At, Fixed
<1>2. i \in Layers /\ l[t].top <= i
  <2>1. l[t].op = "erase" => l[t].top <= listTop  BY <1>1 DEF Topped, At
  <2>2. l[t].op \in {"none", "find"} => l[t].top = -1  BY <1>1 DEF Sound
  <2>3. l[t].op \in {"none", "insert", "erase", "find"} /\ l[t].top \in Layers \cup {-1} /\ listTop \in Layers
    BY <1>1 DEF TypeOK, Locals
  <2> QED  BY <2>1, <2>2, <2>3, ListAssumption DEF Layers
<1> HIDE DEF i
<1>3. Goto(t, "peek", r) /\ r \in Locals /\ "peek" \in PCs \ {"idle"}  BY <1>1, <1>2, SetStart DEF Start, PCs, i
<1>4. r.op = l[t].op /\ r.node = l[t].node /\ r.top = l[t].top /\ r.layer = i /\ r.again = FALSE
  BY <1>1 DEF Locals
<1> HIDE DEF r
<1>5. /\ l'[t].pc = "peek" /\ l'[t].op = l[t].op /\ l'[t].node = l[t].node /\ l'[t].top = l[t].top
      /\ l'[t].layer = i /\ l'[t].again = FALSE /\ \A u \in Threads : u # t => l'[u] = l[u]
  BY <1>1, <1>3, <1>4, GotoFields, GotoOthers
<1>6. Zone(l[t]) = {}  BY <1>1, NoZone DEF From, Again, Change
<1>7. Zone(l'[t]) = {}
  <2>1. From(l'[t]) = i + 1  BY <1>5 DEF From, Again
  <2>2. l[t].top \in Int /\ i \in Int  BY <1>1, <1>2 DEF Locals, Layers
  <2> QED  BY <1>2, <1>5, <2>1, <2>2 DEF Zone, Layers
<1>8. Own(l'[t]) <=> Own(l[t])  BY <1>1, <1>5 DEF Own
<1>9. Marks(t)'  BY <1>1, <1>5, <1>6, <1>7, <1>8, MarkStill, SameNodes
<1> QED  BY <1>1, <1>5, <1>9, MarkStep, SameNodes

LEMMA PeekMarks == ASSUME MarkInv, TypeInv', NEW t \in Threads, Peek(t) PROVE MarkInv'
<1>1. TypeInv /\ TypeOK /\ Sound(l[t]) /\ l[t] \in Locals /\ l[t].pc = "peek" /\ UNCHANGED nodes
  BY MarkBasics DEF Peek, At, Fixed
<1>2. l[t].cur \in Links  BY <1>1 DEF Sound, Search
<1>3. CASE Retry(t, {})
  <2>1. Marks(t)'  BY <1>1, <1>3, RetryMarks, SameNodes
  <2> QED  BY <1>1, <1>2, <1>3, <2>1, RetryTyped, MarkStep, SameNodes
<1>4. CASE Take(t, nodes[l[t].cur].next[l[t].layer], {}, [l[t] EXCEPT !.found = FALSE])
  <2> DEFINE n == nodes[l[t].cur].next[l[t].layer]
             r == [l[t] EXCEPT !.found = FALSE]
  <2>1. n \in Links \cup {None}  BY <1>1, <1>2 DEF TypeOK, NodeRec, Locals
  <2>2. r \in Locals  BY <1>1, SetFound
  <2>3. /\ r.op = l[t].op /\ r.node = l[t].node /\ r.top = l[t].top /\ r.layer = l[t].layer
        /\ r.again = l[t].again /\ r.prevs = l[t].prevs
    BY <1>1 DEF Locals
  <2>4. Take(t, n, {}, r)  BY <1>4
  <2> HIDE DEF n, r
  <2> QED  BY <1>1, <2>1, <2>2, <2>3, <2>4, TakeMarks
<1> QED  BY <1>3, <1>4 DEF Peek

LEMMA HopMarks == ASSUME MarkInv, TypeInv', NEW t \in Threads, Hop(t) PROVE MarkInv'
<1> DEFINE r == [l[t] EXCEPT !.found = @ \/ l[t].next = Target(t)]
<1>1. TypeOK /\ l[t] \in Locals /\ l[t].pc = "look" /\ UNCHANGED nodes  BY MarkBasics DEF Hop, At, Shared, Fixed
<1>2. Goto(t, "hop", r) /\ "hop" \in PCs \ {"idle", "removed", "mark", "crash"}  BY DEF Hop, PCs
<1>3. r \in Locals
  <2>1. (l[t].found \/ l[t].next = Target(t)) \in BOOLEAN  OBVIOUS
  <2> QED  BY <1>1, <2>1, SetFound
<1>4. /\ r.op = l[t].op /\ r.node = l[t].node /\ r.top = l[t].top /\ r.layer = l[t].layer /\ r.again = l[t].again
      /\ r.prevs = l[t].prevs
  BY <1>1 DEF Locals
<1> HIDE DEF r
<1>5. l'[t].pc = "hop" /\ l'[t].layer = l[t].layer /\ l'[t].again = l[t].again
  BY <1>1, <1>2, <1>3, <1>4, GotoFields
<1>6. From(l'[t]) = From(l[t])  BY <1>1, <1>5 DEF From, Again
<1> QED  BY <1>1, <1>2, <1>3, <1>4, <1>6, GoMarks, SameNodes

LEMMA HoppedMarks == ASSUME MarkInv, TypeInv', NEW t \in Threads, Hopped(t) PROVE MarkInv'
<1>1. TypeInv /\ TypeOK /\ Sound(l[t]) /\ l[t] \in Locals /\ l[t].pc = "hop" /\ UNCHANGED nodes
  BY MarkBasics DEF Hopped, At, Fixed
<1>2. l[t].cur \in Links /\ l[t].next \in Links  BY <1>1 DEF Sound, Search
<1>3. CASE Retry(t, {l[t].next})
  <2>1. Marks(t)'  BY <1>1, <1>3, RetryMarks, SameNodes
  <2> QED  BY <1>1, <1>2, <1>3, <2>1, RetryTyped, MarkStep, SameNodes
<1>4. CASE Take(t, nodes[l[t].next].next[l[t].layer], {l[t].next}, l[t])
  <2>1. nodes[l[t].next].next[l[t].layer] \in Links \cup {None}  BY <1>1, <1>2 DEF TypeOK, NodeRec, Locals
  <2> QED  BY <1>1, <1>4, <2>1, TakeMarks
<1> QED  BY <1>3, <1>4 DEF Hopped

LEMMA PassMarks == ASSUME MarkInv, TypeInv', NEW t \in Threads, Pass(t) PROVE MarkInv'
<1> DEFINE r == [l[t] EXCEPT !.cur = l[t].next]
<1>1. TypeOK /\ Sound(l[t]) /\ l[t] \in Locals /\ l[t].pc = "look" /\ UNCHANGED nodes
  BY MarkBasics DEF Pass, First, Answers, At, Fixed
<1>2. Goto(t, "peek", r) /\ "peek" \in PCs \ {"idle", "removed", "mark", "crash"}  BY DEF Pass, PCs
<1>3. r \in Locals  BY <1>1, SetCur DEF Sound
<1>4. /\ r.op = l[t].op /\ r.node = l[t].node /\ r.top = l[t].top /\ r.layer = l[t].layer /\ r.again = l[t].again
      /\ r.prevs = l[t].prevs
  BY <1>1 DEF Locals
<1> HIDE DEF r
<1>5. l'[t].pc = "peek" /\ l'[t].layer = l[t].layer /\ l'[t].again = l[t].again
  BY <1>1, <1>2, <1>3, <1>4, GotoFields
<1>6. From(l'[t]) = From(l[t])  BY <1>1, <1>5 DEF From, Again
<1> QED  BY <1>1, <1>2, <1>3, <1>4, <1>6, GoMarks, SameNodes

LEMMA DescendMarks == ASSUME MarkInv, TypeInv', NEW t \in Threads, Descend(t) PROVE MarkInv'
<1> DEFINE r == [l[t] EXCEPT !.layer = @ - 1]
<1>1. TypeOK /\ l[t] \in Locals /\ l[t].pc = "look" /\ ~l[t].again /\ UNCHANGED nodes
  BY MarkBasics DEF Descend, First, Answers, At, Fixed
<1>2. Goto(t, "peek", r) /\ "peek" \in PCs \ {"idle"}  BY DEF Descend, PCs
<1>3. l[t].layer - 1 \in Layers /\ l[t].layer > l[t].top /\ l[t].layer \in Int /\ l[t].top \in Int
  BY <1>1, ListAssumption DEF Descend, Locals, Layers
<1>4. r \in Locals  BY <1>1, <1>3, SetLayer
<1>5. /\ r.op = l[t].op /\ r.node = l[t].node /\ r.top = l[t].top /\ r.layer = l[t].layer - 1 /\ r.again = l[t].again
  BY <1>1 DEF Locals
<1> HIDE DEF r
<1>6. /\ l'[t].pc = "peek" /\ l'[t].op = l[t].op /\ l'[t].node = l[t].node /\ l'[t].top = l[t].top
      /\ l'[t].layer = l[t].layer - 1 /\ l'[t].again = FALSE /\ \A u \in Threads : u # t => l'[u] = l[u]
  BY <1>1, <1>2, <1>4, <1>5, GotoFields, GotoOthers
<1>7. From(l[t]) = l[t].layer + 1 /\ From(l'[t]) = l[t].layer
  <2>1. From(l[t]) = l[t].layer + 1  BY <1>1 DEF From, Again
  <2>2. From(l'[t]) = (l[t].layer - 1) + 1  BY <1>6 DEF From, Again
  <2> QED  BY <1>3, <2>1, <2>2
<1>8. Zone(l[t]) = {} /\ Zone(l'[t]) = {}  BY <1>3, <1>6, <1>7 DEF Zone, Layers
<1>9. Own(l'[t]) <=> Own(l[t])  BY <1>1, <1>6 DEF Own
<1>10. Marks(t)'  BY <1>1, <1>6, <1>8, <1>9, MarkStill, SameNodes
<1> QED  BY <1>1, <1>6, <1>10, MarkStep, SameNodes

LEMMA AnswerMarks == ASSUME MarkInv, TypeInv', NEW t \in Threads, Answer(t) PROVE MarkInv'
<1> DEFINE n == IF l[t].cur = head THEN None ELSE l[t].cur
           r == [l[t] EXCEPT !.answer = n]
<1>1. TypeOK /\ Sound(l[t]) /\ l[t] \in Locals /\ l[t].op = "find" /\ l[t].pc = "look" /\ UNCHANGED nodes
  BY MarkBasics DEF Answer, First, Answers, At, Fixed
<1>2. Goto(t, "answer", r) /\ "answer" \in PCs \ {"idle"}  BY DEF Answer, PCs
<1>3. n \in Links \cup {None}  BY <1>1 DEF Locals
<1> HIDE DEF n
<1>4. r \in Locals  BY <1>1, <1>3, SetAnswer
<1>5. r.op = l[t].op  BY <1>1 DEF Locals
<1> HIDE DEF r
<1>6. l'[t].pc = "answer" /\ l'[t].op = "find" /\ \A u \in Threads : u # t => l'[u] = l[u]
  BY <1>1, <1>2, <1>4, <1>5, GotoFields, GotoOthers
<1>7. Zone(l[t]) = {}
  <2>1. l[t].top = -1  BY <1>1 DEF Sound
  <2> QED  BY <2>1, ListAssumption DEF Zone, Layers
<1>8. ~Own(l[t])  BY <1>1 DEF Own
<1>9. Zone(l'[t]) = {} /\ ~Own(l'[t])  BY <1>6, NoZone DEF From, Again, Change, Own
<1> QED  BY <1>1, <1>6, <1>7, <1>8, <1>9, NoMarks, SameNodes

LEMMA PlaceMarks == ASSUME MarkInv, TypeInv', NEW t \in Threads, Place(t) PROVE MarkInv'
<1> DEFINE i == l[t].layer
           r == [l[t] EXCEPT !.prevs[i] = l[t].cur, !.nexts[i] = l[t].next]
<1>1. TypeOK /\ Sound(l[t]) /\ l[t] \in Locals /\ l[t].pc = "look" /\ ~l[t].again /\ UNCHANGED nodes
  BY MarkBasics DEF Place, First, Answers, At, Fixed
<1>2. Goto(t, "try", r) /\ "try" \in PCs \ {"idle", "removed", "mark", "crash"}  BY DEF Place, PCs
<1>3. l[t].cur \in Links /\ l[t].next \in Links /\ i \in Layers  BY <1>1 DEF Sound, Search, Locals
<1>4. r \in Locals  BY <1>1, <1>3, SetPlace
<1>5. /\ r.op = l[t].op /\ r.node = l[t].node /\ r.top = l[t].top /\ r.layer = i /\ r.again = l[t].again
      /\ \A j \in Layers : j # i => r.prevs[j] = l[t].prevs[j]
  BY <1>1, <1>3 DEF Locals
<1> HIDE DEF r
<1>6. l'[t].pc = "try" /\ l'[t].layer = i  BY <1>1, <1>2, <1>4, <1>5, GotoFields
<1>7. From(l'[t]) = From(l[t]) /\ From(l[t]) = i + 1  BY <1>1, <1>6 DEF From, Again
<1>8. \A j \in Zone(l[t]) : j \in Layers /\ j # i  BY <1>3, <1>7 DEF Zone, Layers
<1> QED  BY <1>1, <1>2, <1>4, <1>5, <1>7, <1>8, GoMarks, SameNodes

LEMMA PrevMarks == ASSUME MarkInv, TypeInv', NEW t \in Threads, Prev(t) PROVE MarkInv'
<1>1. TypeInv /\ TypeOK /\ Sound(l[t]) /\ l[t] \in Locals /\ l[t].pc = "prev" /\ UNCHANGED nodes
  BY MarkBasics DEF Prev, At, Fixed
<1>2. CASE Goto(t, "next", l[t])
  <2>1. "next" \in PCs \ {"idle", "removed", "mark", "crash"}  BY DEF PCs
  <2>2. l'[t].pc = "next" /\ l'[t].layer = l[t].layer  BY <1>1, <1>2, <2>1, GoTyped
  <2>3. From(l'[t]) = From(l[t])  BY <1>1, <2>2 DEF From
  <2> QED  BY <1>1, <1>2, <2>1, <2>3, GoMarks, SameNodes
<1>3. CASE ClearFrom(t, l[t].layer, Begin(t), {})
  <2>1. l[t].layer \in Nat /\ l[t].cur \in Links /\ l[t].pc \in Search \cup Change
    BY <1>1 DEF Locals, Layers, Sound, Search
  <2>2. Begin(t) \in PCs  BY DEF Begin, PCs
  <2>3. Zone(l[t]) = {j \in Layers : l[t].layer <= j /\ j <= l[t].top}  BY <1>1 DEF Zone, From
  <2>4. Marks(t)'  BY <1>1, <1>3, <2>1, <2>2, <2>3, BeginAt, ClearFromMarks, SameNodes
  <2> QED  BY <1>1, <1>3, <2>1, <2>2, <2>4, BeginAt, ClearFromTyped, MarkStep, SameNodes
<1> QED  BY <1>2, <1>3 DEF Prev

LEMMA NextValidMarks == ASSUME MarkInv, TypeInv', NEW t \in Threads, NextValid(t) PROVE MarkInv'
<1>1. TypeInv /\ TypeOK /\ Sound(l[t]) /\ l[t] \in Locals /\ l[t].pc = "next"
  BY MarkBasics DEF NextValid, At
<1>2. FlagsSame
  <2>1. UNCHANGED nodes \/ nodes' = [nodes EXCEPT ![l[t].node].next[l[t].layer] = l[t].next]
    BY DEF NextValid
  <2> QED  BY <1>1, <2>1, SameNodes, SameNext
<1>3. CASE IsLinked(l[t].next)
  <2> DEFINE r == [l[t] EXCEPT !.again = TRUE]
  <2>1. Goto(t, "peek", r) /\ "peek" \in PCs \ {"idle", "removed", "mark", "crash"}  BY <1>3 DEF NextValid, PCs
  <2>2. r \in Locals  BY <1>1, SetAgain
  <2>3. /\ r.op = l[t].op /\ r.node = l[t].node /\ r.top = l[t].top /\ r.layer = l[t].layer /\ r.again = TRUE
        /\ r.prevs = l[t].prevs
    BY <1>1 DEF Locals
  <2> HIDE DEF r
  <2>4. l'[t].pc = "peek" /\ l'[t].layer = l[t].layer /\ l'[t].again = TRUE  BY <1>1, <2>1, <2>2, <2>3, GotoFields
  <2>5. From(l'[t]) = From(l[t])  BY <1>1, <2>4 DEF From, Again
  <2> QED  BY <1>1, <1>2, <2>1, <2>2, <2>3, <2>5, GoMarks
<1>4. CASE ~IsLinked(l[t].next)
  <2>1. l[t].layer \in Nat /\ l[t].cur \in Links /\ l[t].pc \in Search \cup Change
    BY <1>1 DEF Locals, Layers, Sound, Search
  <2>2. Begin(t) \in PCs  BY DEF Begin, PCs
  <2>3. Zone(l[t]) = {j \in Layers : l[t].layer <= j /\ j <= l[t].top}  BY <1>1 DEF Zone, From
  <2>4. ClearFrom(t, l[t].layer, Begin(t), {})  BY <1>4 DEF NextValid
  <2>5. Marks(t)'  BY <1>1, <1>2, <2>1, <2>2, <2>3, <2>4, BeginAt, ClearFromMarks
  <2> QED  BY <1>1, <1>2, <2>1, <2>2, <2>4, <2>5, BeginAt, ClearFromTyped, MarkStep
<1> QED  BY <1>3, <1>4

LEMMA PlacedMarks == ASSUME MarkInv, TypeInv', NEW t \in Threads, Placed(t) PROVE MarkInv'
<1>1. TypeInv /\ TypeOK /\ Sound(l[t]) /\ l[t] \in Locals /\ l[t].pc = "look" /\ l[t].again /\ UNCHANGED nodes
  BY MarkBasics DEF Placed, Answers, At, Fixed
<1>2. From(l[t]) = l[t].layer  BY <1>1 DEF From, Again
<1>3. l[t].layer \in Nat /\ l[t].layer \in Layers  BY <1>1 DEF Locals, Layers
<1>4. CASE ClearFrom(t, l[t].layer, Begin(t), {l[t].next})
  <2>1. l[t].cur \in Links /\ l[t].pc \in Search \cup Change  BY <1>1 DEF Sound, Search
  <2>2. Begin(t) \in PCs  BY DEF Begin, PCs
  <2>3. Zone(l[t]) = {j \in Layers : l[t].layer <= j /\ j <= l[t].top}  BY <1>2 DEF Zone
  <2>4. Marks(t)'  BY <1>1, <1>3, <1>4, <2>1, <2>2, <2>3, BeginAt, ClearFromMarks, SameNodes
  <2> QED  BY <1>1, <1>3, <1>4, <2>1, <2>2, <2>4, BeginAt, ClearFromTyped, MarkStep, SameNodes
<1>5. CASE l[t].layer > 0 /\ Goto(t, "peek", [l[t] EXCEPT !.layer = @ - 1, !.again = FALSE])
  <2> DEFINE r == [l[t] EXCEPT !.layer = @ - 1, !.again = FALSE]
  <2>1. l[t].layer - 1 \in Layers  BY <1>3, <1>5, ListAssumption DEF Layers
  <2>2. r \in Locals  BY <1>1, <2>1, SetDown
  <2>3. /\ r.op = l[t].op /\ r.node = l[t].node /\ r.top = l[t].top /\ r.layer = l[t].layer - 1 /\ r.again = FALSE
        /\ r.prevs = l[t].prevs
    BY <1>1 DEF Locals
  <2>4. Goto(t, "peek", r) /\ "peek" \in PCs \ {"idle", "removed", "mark", "crash"}  BY <1>5 DEF PCs
  <2> HIDE DEF r
  <2>5. l'[t].pc = "peek" /\ l'[t].layer = l[t].layer - 1 /\ l'[t].again = FALSE
    BY <1>1, <2>2, <2>3, <2>4, GotoFields
  <2>6. From(l'[t]) = (l[t].layer - 1) + 1  BY <2>5 DEF From, Again
  <2>7. From(l'[t]) = From(l[t])  BY <1>2, <1>3, <2>6
  <2> QED  BY <1>1, <2>2, <2>3, <2>4, <2>7, GoMarks, SameNodes
<1>6. CASE l[t].layer = 0 /\ Goto(t, IF l[t].op = "insert" THEN "store" ELSE "unlink", l[t])
  <2>1. PICK p \in {"store", "unlink"} : Goto(t, p, l[t])  BY <1>6
  <2>2. p \in PCs \ {"idle", "removed", "mark", "crash"}  BY DEF PCs
  <2>3. l'[t].pc = p  BY <1>1, <2>1, <2>2, GoTyped
  <2>4. From(l'[t]) = From(l[t])  BY <1>2, <1>6, <2>3 DEF From, Again, Change
  <2> QED  BY <1>1, <2>1, <2>2, <2>4, GoMarks, SameNodes
<1> QED  BY <1>4, <1>5, <1>6 DEF Placed

LEMMA UnlinkMarks == ASSUME MarkInv, TypeInv', NEW t \in Threads, Unlink(t) PROVE MarkInv'
<1>1. TypeOK /\ l[t] \in Locals /\ l[t].pc = "unlink"  BY MarkBasics DEF Unlink, At
<1>2. Put(l[t].node, "full", FALSE) /\ Goto(t, "store", l[t]) /\ "store" \in PCs \ {"idle", "removed", "mark", "crash"}
  BY DEF Unlink, PCs
<1>3. From(l'[t]) = From(l[t])  BY <1>1, <1>2, GoTyped DEF From, Again, Change
<1> QED  BY <1>1, <1>2, <1>3, GoMarks, SamePut

LEMMA StoreMarks == ASSUME MarkInv, TypeInv', NEW t \in Threads, Store(t) PROVE MarkInv'
<1> DEFINE i == l[t].layer
           p == l[t].prevs[i]
<1>1. TypeOK /\ l[t] \in Locals /\ l[t].pc = "store" /\ i \in Layers  BY MarkBasics DEF Store, At, Locals
<1>2. FlagsSame
  <2>1. UNCHANGED nodes \/ nodes' = [nodes EXCEPT ![p].next[i] = Desired(t)]  BY DEF Store
  <2> QED  BY <1>1, <2>1, SameNodes, SameNext
<1>3. CASE i < l[t].top
  <2> DEFINE r == [l[t] EXCEPT !.layer = @ + 1]
  <2>1. Goto(t, "store", r) /\ "store" \in PCs \ {"idle", "removed", "mark", "crash"}  BY <1>3 DEF Store, PCs
  <2>2. i + 1 \in Layers  BY <1>1, <1>3, ListAssumption DEF Locals, Layers
  <2>3. r \in Locals  BY <1>1, <2>2, SetLayer
  <2>4. r.op = l[t].op /\ r.node = l[t].node /\ r.top = l[t].top /\ r.prevs = l[t].prevs  BY <1>1 DEF Locals
  <2> HIDE DEF r
  <2>5. l'[t].pc = "store"  BY <1>1, <2>1, <2>3, GotoFields
  <2>6. From(l'[t]) = From(l[t])  BY <1>1, <2>5 DEF From, Again, Change
  <2> QED  BY <1>1, <1>2, <2>1, <2>3, <2>4, <2>6, GoMarks
<1>4. CASE ~(i < l[t].top)
  <2>1. PICK q \in {"publish", "count"} : Goto(t, q, l[t])  BY <1>4 DEF Store
  <2>2. q \in PCs \ {"idle", "removed", "mark", "crash"}  BY DEF PCs
  <2>3. From(l'[t]) = From(l[t])  BY <1>1, <2>1, <2>2, GoTyped DEF From, Again, Change
  <2> QED  BY <1>1, <1>2, <2>1, <2>2, <2>3, GoMarks
<1> QED  BY <1>3, <1>4

LEMMA PublishMarks == ASSUME MarkInv, TypeInv', NEW t \in Threads, Publish(t) PROVE MarkInv'
<1>1. TypeOK /\ l[t] \in Locals /\ l[t].pc = "publish"  BY MarkBasics DEF Publish, At
<1>2. Put(l[t].node, "full", TRUE) /\ Goto(t, "release", l[t]) /\ "release" \in PCs \ {"idle", "removed", "mark", "crash"}
  BY DEF Publish, PCs
<1>3. From(l'[t]) = From(l[t])  BY <1>1, <1>2, GoTyped DEF From, Again, Change
<1> QED  BY <1>1, <1>2, <1>3, GoMarks, SamePut

LEMMA ReleaseMarks == ASSUME MarkInv, TypeInv', NEW t \in Threads, Release(t) PROVE MarkInv'
<1>1. TypeOK /\ l[t] \in Locals /\ l[t].pc = "release"  BY MarkBasics DEF Release, At
<1>2. Put(l[t].node, "holder", None) /\ Goto(t, "count", l[t]) /\ "count" \in PCs \ {"idle", "removed", "mark", "crash"}
  BY DEF Release, PCs
<1>3. From(l'[t]) = From(l[t])  BY <1>1, <1>2, GoTyped DEF From, Again, Change
<1> QED  BY <1>1, <1>2, <1>3, GoMarks, SamePut

LEMMA CountMarks == ASSUME MarkInv, TypeInv', NEW t \in Threads, Count(t) PROVE MarkInv'
<1> DEFINE r == [l[t] EXCEPT !.layer = MaxLayer - 1]
<1>1. TypeOK /\ l[t] \in Locals /\ l[t].pc = "count" /\ UNCHANGED nodes  BY MarkBasics DEF Count, At
<1>2. Goto(t, "scan", r) /\ "scan" \in PCs \ {"idle", "removed", "mark", "crash"}  BY DEF Count, PCs
<1>3. r \in Locals
  <2>1. MaxLayer - 1 \in Layers  BY ListAssumption DEF Layers
  <2> QED  BY <1>1, <2>1, SetLayer
<1>4. r.op = l[t].op /\ r.node = l[t].node /\ r.top = l[t].top /\ r.prevs = l[t].prevs  BY <1>1 DEF Locals
<1> HIDE DEF r
<1>5. l'[t].pc = "scan"  BY <1>1, <1>2, <1>3, GotoFields
<1>6. From(l'[t]) = From(l[t])  BY <1>1, <1>5 DEF From, Again, Change
<1> QED  BY <1>1, <1>2, <1>3, <1>4, <1>6, GoMarks, SameNodes

LEMMA FinishMarks == ASSUME MarkInv, TypeInv', NEW t \in Threads, Finish(t), UNCHANGED nodes, l[t].pc \in {"scan", "top"}
                     PROVE MarkInv'
<1>1. TypeInv /\ Sound(l[t]) /\ l[t] \in Locals  BY MarkBasics
<1>2. l[t].op \in {"insert", "erase"} /\ l[t].cur \in Links /\ l[t].pc \in Search \cup Change  BY <1>1 DEF Sound, Change
<1>3. "idle" \in PCs /\ "unmark" \in PCs /\ 0 \in Nat  BY DEF PCs
<1>4. Zone(l[t]) = {j \in Layers : 0 <= j /\ j <= l[t].top}  BY DEF Zone, From, Again, Change
<1>5. Marks(t)'  BY <1>2, <1>3, <1>4, ClearFromMarks, SameNodes DEF Finish
<1> QED  BY <1>1, <1>2, <1>5, FinishTyped, MarkStep, SameNodes

LEMMA ScanMarks == ASSUME MarkInv, TypeInv', NEW t \in Threads, Scan(t) PROVE MarkInv'
<1>1. TypeOK /\ l[t] \in Locals /\ l[t].pc = "scan" /\ UNCHANGED nodes  BY MarkBasics DEF Scan, At, Fixed
<1>2. CASE Goto(t, "top", l[t])
  <2>1. "top" \in PCs \ {"idle", "removed", "mark", "crash"}  BY DEF PCs
  <2>2. From(l'[t]) = From(l[t])  BY <1>1, <1>2, <2>1, GoTyped DEF From, Again, Change
  <2> QED  BY <1>1, <1>2, <2>1, <2>2, GoMarks, SameNodes
<1>3. CASE l[t].layer > 0 /\ Goto(t, "scan", [l[t] EXCEPT !.layer = @ - 1])
  <2> DEFINE r == [l[t] EXCEPT !.layer = @ - 1]
  <2>1. Goto(t, "scan", r) /\ "scan" \in PCs \ {"idle", "removed", "mark", "crash"}  BY <1>3 DEF PCs
  <2>2. l[t].layer - 1 \in Layers  BY <1>1, <1>3, ListAssumption DEF Locals, Layers
  <2>3. r \in Locals  BY <1>1, <2>2, SetLayer
  <2>4. r.op = l[t].op /\ r.node = l[t].node /\ r.top = l[t].top /\ r.prevs = l[t].prevs  BY <1>1 DEF Locals
  <2> HIDE DEF r
  <2>5. l'[t].pc = "scan"  BY <1>1, <2>1, <2>3, GotoFields
  <2>6. From(l'[t]) = From(l[t])  BY <1>1, <2>5 DEF From, Again, Change
  <2> QED  BY <1>1, <2>1, <2>3, <2>4, <2>6, GoMarks, SameNodes
<1>4. CASE Finish(t)  BY <1>1, <1>4, FinishMarks
<1> QED  BY <1>2, <1>3, <1>4 DEF Scan

LEMMA SetTopMarks == ASSUME MarkInv, TypeInv', NEW t \in Threads, SetTop(t) PROVE MarkInv'
BY FinishMarks DEF SetTop, At

-----------------------------------------------------------------------------
\* Steps that set a mark or take one away.
LEMMA PutFlags == ASSUME TypeOK, NEW n \in Links, NEW v, Put(n, "flag", v)
                  PROVE nodes'[n].flag = v /\ \A m \in Links : m # n => nodes'[m].flag = nodes[m].flag
BY DEF TypeOK, NodeRec, Put

LEMMA MarkMarks == ASSUME MarkInv, TypeInv', NEW t \in Threads, Mark(t) PROVE MarkInv'
<1> DEFINE n == l[t].node
<1>1. TypeOK /\ Sound(l[t]) /\ l[t] \in Locals /\ l[t].pc = "mark" /\ Marks(t)  BY MarkBasics DEF Mark, At
<1>2. l[t].op = "erase" /\ n \in Nodes /\ n \in Links  BY <1>1 DEF Sound, Links
<1>3. Zone(l[t]) = {} /\ ~Own(l[t])  BY <1>1, NoZone DEF From, Again, Change, Own
<1>4. CASE nodes[n].flag # None
  <2> DEFINE r == [l[t] EXCEPT !.top = nodes[n].top]
  <2>1. nodes[n].top \in Layers  BY <1>1, <1>2 DEF TypeOK, NodeRec
  <2>2. r \in Locals  BY <1>1, <2>1, SetTopLayer
  <2>3. Goto(t, "removed", r) /\ UNCHANGED nodes /\ "removed" \in PCs \ {"idle"}  BY <1>4 DEF Mark, PCs
  <2> HIDE DEF r
  <2>4. l'[t].pc = "removed" /\ \A u \in Threads : u # t => l'[u] = l[u]  BY <1>1, <2>2, <2>3, GotoFields, GotoOthers
  <2>5. Zone(l'[t]) = {} /\ ~Own(l'[t])  BY <2>4, NoZone DEF From, Again, Change, Own
  <2> QED  BY <1>1, <1>3, <2>3, <2>4, <2>5, NoMarks, SameNodes
<1>5. CASE nodes[n].flag = None
  <2>1. Goto(t, "retire", l[t]) /\ Put(n, "flag", t) /\ "retire" \in PCs \ {"idle"}  BY <1>5 DEF Mark, PCs
  <2>2. /\ l'[t].pc = "retire" /\ l'[t].op = "erase" /\ l'[t].node = n
        /\ \A u \in Threads : u # t => l'[u] = l[u]
    BY <1>1, <1>2, <2>1, GoTyped
  <2>3. nodes'[n].flag = t /\ \A m \in Links : m # n => nodes'[m].flag = nodes[m].flag  BY <1>1, <1>2, <2>1, PutFlags
  <2>4. Zone(l'[t]) = {} /\ Own(l'[t])  BY <2>2, NoZone DEF From, Again, Change, Own
  <2>5. \A m \in Links : nodes[m].flag # t  BY <1>1, <1>3 DEF Marks, Only
  <2>6. Marks(t)'  BY <2>2, <2>3, <2>4, <2>5 DEF Marks, Has, Stacked, Owns, Only
  <2> QED  BY <1>5, <2>2, <2>3, <2>6, MarkInvStep
<1> QED  BY <1>4, <1>5

LEMMA UnmarkMarks == ASSUME MarkInv, TypeInv', NEW t \in Threads, Unmark(t) PROVE MarkInv'
<1> DEFINE n == l[t].node
<1>1. TypeOK /\ Sound(l[t]) /\ l[t].pc = "unmark" /\ Marks(t)  BY MarkBasics DEF Unmark, At
<1>2. l[t].op = "erase" /\ n \in Links  BY <1>1 DEF Sound, Links
<1>3. Zone(l[t]) = {} /\ Own(l[t])  BY <1>1, <1>2, NoZone DEF From, Again, Change, Own
<1>4. Goto(t, "idle", l[t]) /\ Put(n, "flag", None)  BY DEF Unmark
<1>5. l'[t] = Idle /\ \A u \in Threads : u # t => l'[u] = l[u]  BY <1>1, <1>4, GotoIdle, GotoOthers
<1>6. nodes'[n].flag = None /\ \A m \in Links : m # n => nodes'[m].flag = nodes[m].flag
  BY <1>1, <1>2, <1>4, PutFlags
<1>7. Zone(l'[t]) = {} /\ ~Own(l'[t])  BY <1>5, NoZone DEF From, Again, Change, Own, Idle
<1>8. nodes[n].flag = t /\ \A m \in Links : nodes[m].flag = t => m = n  BY <1>1, <1>3 DEF Marks, Owns, Only
<1>9. \A m \in Links : nodes'[m].flag # t  BY <1>6, <1>8, ListAssumption
<1>10. Marks(t)'  BY <1>7, <1>9 DEF Marks, Has, Stacked, Owns, Only
<1> QED  BY <1>5, <1>6, <1>8, <1>10, MarkInvStep

LEMMA TryMarks == ASSUME MarkInv, TypeInv', NEW t \in Threads, Try(t) PROVE MarkInv'
<1> DEFINE i == l[t].layer
           n == l[t].cur
           Z == Zone(l[t])
<1>1. TypeInv /\ TypeOK /\ Sound(l[t]) /\ l[t] \in Locals /\ l[t].pc = "try" /\ Marks(t)  BY MarkBasics DEF Try, At
<1>2. /\ n \in Links /\ i <= l[t].top /\ l[t].prevs[i] = n /\ ~l[t].again /\ i \in Layers
      /\ l[t].top \in Layers
  BY <1>1 DEF Sound, Search, Locals, Layers
<1>3. CASE Retry(t, {}) /\ UNCHANGED nodes
  <2>1. Marks(t)'  BY <1>1, <1>3, RetryMarks, SameNodes
  <2> QED  BY <1>1, <1>2, <1>3, <2>1, RetryTyped, MarkStep, SameNodes
<1>4. ASSUME Goto(t, "prev", l[t])
      PROVE /\ l'[t].pc = "prev" /\ l'[t].node = l[t].node /\ l'[t].prevs = l[t].prevs
            /\ \A u \in Threads : u # t => l'[u] = l[u]
            /\ Zone(l'[t]) = Z \cup {i} /\ (Own(l'[t]) <=> Own(l[t]))
            /\ \A j \in Z : j \in Layers /\ i < j
  <2>1. "prev" \in PCs \ {"idle"}  BY DEF PCs
  <2>2. /\ l'[t].pc = "prev" /\ l'[t].op = l[t].op /\ l'[t].node = l[t].node /\ l'[t].top = l[t].top
        /\ l'[t].layer = i /\ l'[t].prevs = l[t].prevs /\ \A u \in Threads : u # t => l'[u] = l[u]
    BY <1>1, <1>4, <2>1, GoTyped
  <2>3. From(l[t]) = i + 1 /\ From(l'[t]) = i  BY <1>1, <2>2 DEF From, Again
  <2>4. Zone(l'[t]) = Z \cup {i} /\ \A j \in Z : j \in Layers /\ i < j  BY <1>2, <2>2, <2>3 DEF Zone, Layers
  <2>5. Own(l'[t]) <=> Own(l[t])  BY <1>1, <2>2 DEF Own
  <2> QED  BY <2>2, <2>4, <2>5
<1>5. CASE Marked(t) /\ Goto(t, "prev", l[t]) /\ UNCHANGED nodes
  <2>1. n = l[t].prevs[i + 1] /\ i + 1 \in Z
    BY <1>1, <1>2, <1>5, ListAssumption DEF Marked, Zone, From, Again, Layers
  <2>2. nodes[n].flag = t /\ (Own(l[t]) => n # l[t].node)  BY <1>1, <2>1 DEF Marks, Has, Owns
  <2> HIDE DEF i, n, Z
  <2>3. Has(t)'  BY <1>1, <1>2, <1>4, <1>5, <2>2 DEF Marks, Has, Z
  <2>4. Stacked(t)'
    <3>1. Stacked(t)  BY <1>1 DEF Marks
    <3>2. l[t].prevs[i] = l[t].prevs[i + 1]  BY <1>2, <2>1
    <3>3. ASSUME NEW j \in Z \cup {i}, NEW k \in Z \cup {i}, j < k, l[t].prevs[j] = l[t].prevs[k]
          PROVE l[t].prevs[j] = l[t].prevs[j + 1]
      <4>1. CASE j = i  BY <3>2, <4>1
      <4>2. CASE j \in Z
        <5>1. k \in Z  BY <1>2, <1>4, <1>5, <3>3, <4>2 DEF Layers
        <5> QED  BY <3>1, <3>3, <4>2, <5>1 DEF Stacked, Z
      <4> QED  BY <4>1, <4>2
    <3> QED  BY <1>4, <1>5, <3>3 DEF Stacked
  <2>5. Owns(t)'  BY <1>1, <1>2, <1>4, <1>5, <2>2 DEF Marks, Owns, Z
  <2>6. Only(t)'  BY <1>1, <1>4, <1>5 DEF Marks, Only, Z
  <2>7. Marks(t)'  BY <2>3, <2>4, <2>5, <2>6 DEF Marks
  <2> QED  BY <1>4, <1>5, <2>7, MarkStep, SameNodes
<1>6. CASE nodes[n].flag = None /\ Put(n, "flag", t) /\ Goto(t, "prev", l[t])
  <2>1. nodes'[n].flag = t /\ \A m \in Links : m # n => nodes'[m].flag = nodes[m].flag  BY <1>1, <1>2, <1>6, PutFlags
  <2>2. nodes[n].flag # t  BY <1>6, ListAssumption
  <2>3. \A j \in Z : l[t].prevs[j] # n  BY <1>1, <2>2 DEF Marks, Has
  <2> HIDE DEF i, n, Z
  <2>4. Has(t)'  BY <1>1, <1>2, <1>4, <1>6, <2>1 DEF Marks, Has, Z
  <2>5. Stacked(t)'
    <3>1. \A j, k \in Z \cup {i} : j < k /\ l[t].prevs[j] = l[t].prevs[k] => j \in Z /\ k \in Z
      BY <1>2, <1>4, <1>6, <2>3 DEF Layers
    <3> QED  BY <1>1, <1>4, <1>6, <3>1 DEF Marks, Stacked, Z
  <2>6. Owns(t)'
    <3>1. Own(l[t]) => l[t].node \in Links /\ l[t].node # n  BY <1>1, <2>2 DEF Marks, Owns, Own, Sound, Links
    <3> QED  BY <1>1, <1>2, <1>4, <1>6, <2>1, <3>1 DEF Marks, Owns, Z
  <2>7. Only(t)'  BY <1>1, <1>2, <1>4, <1>6, <2>1 DEF Marks, Only, Z
  <2>8. Marks(t)'  BY <2>4, <2>5, <2>6, <2>7 DEF Marks
  <2> QED  BY <1>4, <1>6, <2>1, <2>8, MarkInvStep
<1> QED  BY <1>3, <1>5, <1>6 DEF Try, Free

LEMMA ClearMarks == ASSUME MarkInv, TypeInv', NEW t \in Threads, Clear(t) PROVE MarkInv'
<1> DEFINE i == l[t].layer
           n == l[t].prevs[i]
           Z == Zone(l[t])
<1>1. TypeOK /\ Sound(l[t]) /\ l[t] \in Locals /\ l[t].pc = "clear" /\ Marks(t)  BY MarkBasics DEF Clear, At
<1>2. i \in Layers /\ i <= l[t].top /\ l[t].top \in Layers  BY <1>1 DEF Sound, Locals, Layers
<1>3. Z = {j \in Layers : i <= j /\ j <= l[t].top} /\ i \in Z  BY <1>1, <1>2 DEF Zone, From, Layers
<1>4. n \in Links /\ nodes[n].flag = t  BY <1>1, <1>3 DEF Marks, Has
<1>5. /\ \A u \in Threads : u # t => l'[u] = l[u]
      /\ Zone(l'[t]) = Z \ {i} /\ (Own(l'[t]) <=> Own(l[t]))
      /\ Z \ {i} # {} => l'[t].prevs = l[t].prevs
      /\ Own(l[t]) => l'[t].node = l[t].node
      /\ l'[t].pc # "crash"
  <2>1. CASE i < l[t].top
    <3> DEFINE r == [l[t] EXCEPT !.layer = @ + 1]
    <3>1. Goto(t, "clear", r) /\ "clear" \in PCs \ {"idle"}  BY <2>1 DEF Clear, PCs
    <3>2. i + 1 \in Layers  BY <1>2, <2>1, ListAssumption DEF Layers
    <3>3. r \in Locals  BY <1>1, <3>2, SetLayer
    <3>4. /\ r.op = l[t].op /\ r.node = l[t].node /\ r.top = l[t].top /\ r.layer = i + 1 /\ r.prevs = l[t].prevs
      BY <1>1 DEF Locals
    <3> HIDE DEF r
    <3>5. /\ l'[t].pc = "clear" /\ l'[t].op = l[t].op /\ l'[t].node = l[t].node /\ l'[t].top = l[t].top
          /\ l'[t].layer = i + 1 /\ l'[t].prevs = l[t].prevs
      BY <1>1, <3>1, <3>3, <3>4, GotoFields
    <3>6. Zone(l'[t]) = {j \in Layers : i + 1 <= j /\ j <= l[t].top}  BY <3>5 DEF Zone, From
    <3>7. Zone(l'[t]) = Z \ {i}  BY <1>2, <1>3, <3>6 DEF Layers
    <3>8. Own(l'[t]) <=> Own(l[t])  BY <1>1, <3>5 DEF Own
    <3> QED  BY <1>1, <3>1, <3>3, <3>5, <3>7, <3>8, GotoOthers
  <2>2. CASE ~(i < l[t].top)
    <3> DEFINE p == l[t].then
    <3>1. Goto(t, p, l[t])  BY <2>2 DEF Clear
    <3>2. p \in PCs /\ (p = "start" \/ (p = "idle" /\ l[t].op = "insert") \/ p \in {"linked", "unmark"})
      BY <1>1 DEF Locals, Sound
    <3>3. Z \ {i} = {}  BY <1>2, <1>3, <2>2 DEF Layers
    <3>4. CASE p = "idle"
      <4>1. l'[t] = Idle /\ \A u \in Threads : u # t => l'[u] = l[u]  BY <1>1, <3>1, <3>4, GotoIdle, GotoOthers
      <4>2. Zone(l'[t]) = {} /\ ~Own(l'[t]) /\ l'[t].pc # "crash"  BY <4>1, NoZone DEF From, Again, Change, Own, Idle
      <4>3. ~Own(l[t])  BY <3>2, <3>4 DEF Own
      <4> QED  BY <3>3, <4>1, <4>2, <4>3
    <3>5. CASE p # "idle"
      <4>1. /\ l'[t].pc = p /\ l'[t].op = l[t].op /\ l'[t].node = l[t].node
            /\ \A u \in Threads : u # t => l'[u] = l[u]
        BY <1>1, <3>1, <3>2, <3>5, GoTyped
      <4>2. Zone(l'[t]) = {} /\ l'[t].pc # "crash"  BY <3>2, <3>5, <4>1, NoZone DEF From, Again, Change
      <4>3. Own(l'[t]) <=> Own(l[t])  BY <1>1, <3>2, <3>5, <4>1 DEF Own
      <4> QED  BY <3>3, <4>1, <4>2, <4>3
    <3> QED  BY <3>4, <3>5
  <2> QED  BY <2>1, <2>2
<1>6. CASE Doubled(t, i)
  <2>1. UNCHANGED nodes  BY <1>6 DEF Clear
  <2>2. i + 1 \in Z \ {i} /\ l[t].prevs[i + 1] = n  BY <1>2, <1>3, <1>6, ListAssumption DEF Doubled, Layers
  <2> HIDE DEF i, n, Z
  <2>3. Has(t)'  BY <1>1, <1>5, <2>1 DEF Marks, Has, Z
  <2>4. Stacked(t)'  BY <1>1, <1>5, <2>1 DEF Marks, Stacked, Z
  <2>5. Owns(t)'  BY <1>1, <1>5, <2>1 DEF Marks, Owns, Z
  <2>6. Only(t)'
    <3>1. \A m : (\E j \in Z : m = l[t].prevs[j]) => \E j \in Z \ {i} : m = l[t].prevs[j]  BY <2>2 DEF n
    <3> QED  BY <1>1, <1>5, <2>1, <2>2, <3>1 DEF Marks, Only, Z
  <2>7. Marks(t)'  BY <2>3, <2>4, <2>5, <2>6 DEF Marks
  <2> QED  BY <1>5, <2>1, <2>7, MarkStep, SameNodes
<1>7. CASE ~Doubled(t, i)
  <2>1. Put(n, "flag", None)  BY <1>7 DEF Clear
  <2>2. nodes'[n].flag = None /\ \A m \in Links : m # n => nodes'[m].flag = nodes[m].flag  BY <1>1, <1>4, <2>1, PutFlags
  <2>3. \A j \in Z \ {i} : l[t].prevs[j] # n
    <3>1. \A j \in Z \ {i} : i < j /\ i < l[t].top  BY <1>2, <1>3 DEF Layers
    <3>2. i < l[t].top => l[t].prevs[i] # l[t].prevs[i + 1]  BY <1>7 DEF Doubled
    <3> QED  BY <1>1, <1>3, <3>1, <3>2 DEF Marks, Stacked
  <2>4. None # t  BY ListAssumption
  <2>5. Own(l[t]) => l[t].node \in Links /\ l[t].node # n  BY <1>1, <1>3 DEF Marks, Owns, Own, Sound, Links
  <2> HIDE DEF i, n, Z
  <2>6. Has(t)'  BY <1>1, <1>5, <2>2, <2>3 DEF Marks, Has, Z
  <2>7. Stacked(t)'  BY <1>1, <1>5 DEF Marks, Stacked, Z
  <2>8. Owns(t)'  BY <1>1, <1>5, <2>2, <2>5 DEF Marks, Owns, Z
  <2>9. Only(t)'
    <3>1. ASSUME NEW m \in Links, nodes'[m].flag = t
          PROVE (Own(l[t]) /\ m = l[t].node) \/ \E j \in Z \ {i} : m = l[t].prevs[j]
      <4>1. m # n /\ nodes[m].flag = t  BY <2>2, <2>4, <3>1
      <4>2. (Own(l[t]) /\ m = l[t].node) \/ \E j \in Z : m = l[t].prevs[j]  BY <1>1, <4>1 DEF Marks, Only, Z
      <4> QED  BY <4>1, <4>2 DEF n
    <3> QED  BY <1>5, <3>1 DEF Only
  <2>10. Marks(t)'  BY <2>6, <2>7, <2>8, <2>9 DEF Marks
  <2> QED  BY <1>4, <1>5, <2>2, <2>10, MarkInvStep
<1> QED  BY <1>6, <1>7

-----------------------------------------------------------------------------
LEMMA InitMarks == Init => MarkInv
<1> SUFFICES ASSUME Init PROVE MarkInv  OBVIOUS
<1>1. \A n \in Links : nodes[n].flag = None
  <2>1. \A n, i : Node(n, i).flag = None /\ [Node(n, i) EXCEPT !.full = n = tail].flag = None  BY DEF Node
  <2> QED  BY <2>1 DEF Init
<1>2. \A t \in Threads : l[t] = Idle  BY DEF Init
<1>3. Zone(Idle) = {} /\ ~Own(Idle)  BY NoZone DEF From, Again, Change, Own, Idle
<1>4. \A t \in Threads : Marks(t)  BY <1>1, <1>2, <1>3, ListAssumption DEF Marks, Has, Stacked, Owns, Only
<1> QED  BY <1>4, InitTyped DEF MarkInv

LEMMA StutterMarks == MarkInv /\ TypeInv' /\ UNCHANGED vars => MarkInv'
<1> SUFFICES ASSUME MarkInv, TypeInv', UNCHANGED vars PROVE MarkInv'  OBVIOUS
<1>1. nodes' = nodes /\ l' = l  BY DEF vars
<1> QED  BY <1>1 DEF MarkInv, Marks, Has, Stacked, Owns, Only

LEMMA NextMarks == MarkInv /\ Fresh /\ Topped /\ [Next]_vars => MarkInv'
<1> SUFFICES ASSUME MarkInv, Fresh, Topped, [Next]_vars PROVE MarkInv'  OBVIOUS
<1>0. TypeInv'  BY NextTyped DEF MarkInv
<1>1. CASE UNCHANGED vars  BY <1>0, <1>1, StutterMarks
<1>2. CASE Done  BY <1>0, <1>2, StutterMarks DEF Done
<1>3. ASSUME NEW t \in Threads, Step(t) PROVE MarkInv'
  <2>1. CASE Call(t) \/ Removed(t) \/ Mark(t) \/ Retire(t) \/ Linked(t) \/ Restore(t) \/ Unmark(t) \/ Return(t)
    BY <1>0, <2>1, CallMarks, RemovedMarks, MarkMarks, RetireMarks, LinkedMarks, RestoreMarks, UnmarkMarks, ReturnMarks
  <2>2. CASE Start(t) \/ Peek(t) \/ Hop(t) \/ Hopped(t) \/ Pass(t) \/ Descend(t) \/ Answer(t)
    BY <1>0, <2>2, StartMarks, PeekMarks, HopMarks, HoppedMarks, PassMarks, DescendMarks, AnswerMarks
  <2>3. CASE Place(t) \/ Try(t) \/ Prev(t) \/ NextValid(t) \/ Placed(t)
    BY <1>0, <2>3, PlaceMarks, TryMarks, PrevMarks, NextValidMarks, PlacedMarks
  <2>4. CASE \/ Unlink(t) \/ Store(t) \/ Publish(t) \/ Release(t) \/ Count(t) \/ Scan(t) \/ SetTop(t) \/ Clear(t)
    BY <1>0, <2>4, UnlinkMarks, StoreMarks, PublishMarks, ReleaseMarks, CountMarks, ScanMarks, SetTopMarks, ClearMarks
  <2> QED  BY <1>3, <2>1, <2>2, <2>3, <2>4 DEF Step
<1> QED  BY <1>1, <1>2, <1>3 DEF Next

LEMMA MarksReturn == MarkInv => MarksReturned
<1> SUFFICES ASSUME MarkInv, NEW t \in Threads
             PROVE /\ At(t, "clear") /\ ~Doubled(t, l[t].layer) => nodes[l[t].prevs[l[t].layer]].flag = t
                   /\ At(t, "unmark") => nodes[l[t].node].flag = t
                   /\ At(t, "idle") => \A n \in Links : nodes[n].flag # t
  BY DEF MarksReturned
<1>1. Sound(l[t]) /\ l[t] \in Locals /\ Marks(t)  BY MarkBasics
<1>2. CASE At(t, "clear")
  <2>1. l[t].layer \in Zone(l[t])
    BY <1>1, <1>2 DEF At, Zone, From, Sound, Locals, Layers
  <2> QED  BY <1>1, <1>2, <2>1 DEF Marks, Has, At
<1>3. CASE At(t, "unmark")
  <2>1. Own(l[t])  BY <1>1, <1>3 DEF At, Own, Sound
  <2> QED  BY <1>1, <1>3, <2>1 DEF Marks, Owns, At
<1>4. CASE At(t, "idle")
  <2>1. Zone(l[t]) = {} /\ ~Own(l[t])  BY <1>4, NoZone DEF At, From, Again, Change, Own
  <2> QED  BY <1>1, <1>4, <2>1 DEF Marks, Only, At
<1> QED  BY <1>2, <1>3, <1>4

\* As long as inserts are of nodes that nobody has marked and erases start high enough (Fresh
\* and Topped), a mark is taken away by the thread that set it, once, on every path out of a call.
THEOREM MarksCorrect == Spec /\ []Fresh /\ []Topped => []MarksReturned
<1> QED  BY InitMarks, NextMarks, MarksReturn, PTL DEF Spec
=============================================================================
