----------------------------- MODULE SkipIndex -----------------------------
(***************************************************************************)
(* The concurrent skip list behind the index (skiplist.cc): insert, erase  *)
(* and find, layer by layer.  A thread that changes a node's next pointers *)
(* holds its being_modified mark; one that stores them also holds its      *)
(* write lock.  A section under the read or write lock of a node is one    *)
(* step, as AccessingNext excludes, but for the one that holds a new node  *)
(* from its initialisation to its publication; every other access is a     *)
(* step of its own.                                                        *)
(***************************************************************************)
EXTENDS Integers, Sequences, FiniteSets

CONSTANTS Threads,
          Nodes,       \* index nodes, Node::snode
          head, tail,  \* the ends of the list
          None,        \* NULL, no thread, and what an uninitialised local holds
          Key,         \* the key of each node
          MaxLayer,    \* max_layer
          Warm,        \* the nodes linked at first, and the top layer of each
          Programs     \* per thread, the sequence of calls it may make

Layers == 0..MaxLayer - 1
Links == Nodes \cup {head, tail}

ASSUME ListAssumption == /\ MaxLayer \in Nat \ {0}
                         /\ head \notin Nodes /\ tail \notin Nodes /\ head # tail
                         /\ None \notin Links \cup Threads
                         /\ Key \in [Nodes -> Int]
                         /\ IsFiniteSet(DOMAIN Warm) /\ DOMAIN Warm \subseteq Nodes
                         /\ \A n \in DOMAIN Warm : Warm[n] \in Layers
                         /\ \A m, n \in DOMAIN Warm : Key[m] = Key[n] => m = n

\* A call of the library; a new node's top layer is drawn by _sl_decide_top_layer.
Calls == [op : {"insert", "erase", "find"}, node : Nodes, tops : SUBSET Layers]

ASSUME ProgramAssumption == Programs \subseteq [Threads -> Seq(Calls)]

\* A node is inserted once: TSkipList makes a new one for every insert.
ASSUME OnceAssumption ==
  \A p \in Programs, t, u \in Threads : \A i \in DOMAIN p[t], j \in DOMAIN p[u] :
    p[t][i].op = "insert" =>
      /\ p[t][i].node \notin DOMAIN Warm
      /\ p[u][j].op = "insert" /\ p[u][j].node = p[t][i].node => u = t /\ j = i

VARIABLES nodes,    \* skiplist_node: next per layer, is_fully_linked, being_modified
           \* (by whom; the code keeps a bool), removed, top_layer, holder of the write lock
          refs,     \* ref_count of each node
          entries,  \* layer_entries: linked nodes by top layer
          listTop,  \* top_layer of the list
          todo,     \* per thread: the calls it will make
          l,        \* per thread: its locals
          seen      \* history, per thread: nodes met and kept since its find was called
vars == <<nodes, refs, entries, listTop, todo, l, seen>>

\* Does a search for key k go past node n?
Past(k, n) == n = head \/ (n \in Nodes /\ k > Key[n])

Idle == [pc |-> "idle", op |-> "none", node |-> None, key |-> 0, top |-> -1, layer |-> 0, cur |-> None,
         next |-> None, found |-> FALSE, again |-> FALSE, then |-> "idle", answer |-> None,
         prevs |-> [i \in Layers |-> None], nexts |-> [i \in Layers |-> None]]

-----------------------------------------------------------------------------
At(t, p) == l[t].pc = p
Held(n) == nodes[n].holder # None

\* Thread t goes to p; its locals are r.
Goto(t, p, r) == l' = [l EXCEPT ![t] = IF p = "idle" THEN Idle ELSE [r EXCEPT !.pc = p]]
Put(n, f, v) == nodes' = [nodes EXCEPT ![n][f] = v]
Fixed == <<nodes, entries, listTop, seen>>
Shared == <<Fixed, refs>>

\* References to the nodes of more are counted, and those to the nodes of less given back.
RefBase == 65536
Counted(more, less) ==
  LET One(S, n) == IF n \in S THEN 1 ELSE 0
  IN refs' = [n \in Links |-> (refs[n] + One(more, n) - One(less, n)) % RefBase]

\* _sl_valid_node
IsLinked(n) == nodes[n].full

\* Where a call begins its search again.
Begin(t) == IF l[t].op = "erase" THEN "linked" ELSE "start"

\* The references of less are given back; then _sl_clr_flags from a layer up, the reference
\* to cur, and on to p.
ClearFrom(t, i, p, less) ==
  IF i > l[t].top THEN Goto(t, p, l[t]) /\ Counted({}, less \cup {l[t].cur})
  ELSE Goto(t, "clear", [l[t] EXCEPT !.layer = i, !.then = p]) /\ Counted({}, less)

-----------------------------------------------------------------------------
Full == {n \in Nodes : nodes[n].full}

\* The call of thread t has taken effect.
Effected(t) == \/ l[t].pc \in {"release", "count", "scan", "top", "unmark", "restore", "answer"}
               \/ l[t].op = "erase" /\ At(t, "store")
               \/ At(t, "clear") /\ l[t].then # Begin(t)

\* The calls that are open.
Told == [t \in Threads |-> [op |-> l[t].op, node |-> l[t].node, key |-> l[t].key, answer |-> l[t].answer,
                            met |-> seen[t].met, kept |-> seen[t].kept, done |-> Effected(t)]]

Promise == INSTANCE IndexSet WITH linked <- Full, call <- Told

\* History: thread t calls find; the list changes under the finds that are open; find returns.
Unseen == [met |-> {}, kept |-> {}]
Sees(t) == seen' = [seen EXCEPT ![t] = [met |-> Full, kept |-> Full]]
Observe == seen' = [t \in Threads |-> IF l[t].op = "find"
                                      THEN [met |-> seen[t].met \cup Full', kept |-> seen[t].kept \cap Full'] ELSE seen[t]]
Forget(t) == seen' = [seen EXCEPT ![t] = Unseen]

-----------------------------------------------------------------------------
\* _sl_node_init, and the write lock that the new node keeps until it is linked.
CallInsert(t, n, i) ==
  /\ ~Held(n)
  /\ nodes' = [nodes EXCEPT ![n] = [next |-> [j \in Layers |-> None], full |-> FALSE, flag |-> None,
                                    removed |-> FALSE, top |-> i, holder |-> t]]
  /\ Goto(t, "start", [Idle EXCEPT !.op = "insert", !.node = n, !.key = Key[n], !.top = i])
  /\ UNCHANGED seen

CallErase(t, n) ==
  /\ Goto(t, "removed", [Idle EXCEPT !.op = "erase", !.node = n, !.key = Key[n], !.top = nodes[n].top])
  /\ UNCHANGED <<nodes, seen>>

CallFind(t, k) ==
  /\ Goto(t, "start", [Idle EXCEPT !.op = "find", !.key = k])
  /\ Sees(t) /\ UNCHANGED nodes

Call(t) ==
  /\ At(t, "idle") /\ todo[t] # <<>>
  /\ LET first == todo[t][1]
     IN \/ first.op = "insert" /\ \E i \in first.tops : CallInsert(t, first.node, i)
        \/ first.op = "erase" /\ CallErase(t, first.node)
        \/ first.op = "find" /\ CallFind(t, Key[first.node])
  /\ todo' = [todo EXCEPT ![t] = SubSeq(@, 2, Len(@))]
  /\ UNCHANGED <<refs, entries, listTop>>

\* skiplist_erase_node_passive up to the search: the removed flag, the mark, the flag again.
Removed(t) ==
  /\ At(t, "removed")
  /\ Goto(t, IF nodes[l[t].node].removed THEN "idle" ELSE "mark", l[t])
  /\ UNCHANGED <<Shared, todo>>

Mark(t) ==
  /\ At(t, "mark")
  /\ IF nodes[l[t].node].flag # None
     THEN Goto(t, "removed", [l[t] EXCEPT !.top = nodes[l[t].node].top]) /\ UNCHANGED nodes
     ELSE Goto(t, "retire", l[t]) /\ Put(l[t].node, "flag", t)
  /\ UNCHANGED <<refs, entries, listTop, todo, seen>>

Retire(t) ==
  /\ At(t, "retire") /\ Put(l[t].node, "removed", TRUE) /\ Goto(t, "linked", l[t])
  /\ UNCHANGED <<refs, entries, listTop, todo, seen>>

Linked(t) ==
  /\ At(t, "linked")
  /\ Goto(t, IF IsLinked(l[t].node) THEN "start" ELSE "restore", l[t])
  /\ UNCHANGED <<Shared, todo>>

Restore(t) ==
  /\ At(t, "restore") /\ Put(l[t].node, "removed", FALSE) /\ Goto(t, "unmark", l[t])
  /\ UNCHANGED <<refs, entries, listTop, todo, seen>>

\* Mutant: an eraser keeps the mark on the node it has erased.
UnmarkNever(t) ==
  /\ At(t, "unmark") /\ Goto(t, "idle", l[t])
  /\ UNCHANGED <<Shared, todo>>

Unmark(t) ==
  /\ At(t, "unmark") /\ Put(l[t].node, "flag", None) /\ Goto(t, "idle", l[t])
  /\ UNCHANGED <<refs, entries, listTop, todo, seen>>

-----------------------------------------------------------------------------
\* The descent starts at the head, on the list's top layer or a new node's own.
Start(t) ==
  /\ At(t, "start")
  /\ LET i == IF l[t].op = "insert" /\ l[t].top > listTop THEN l[t].top ELSE listTop
     IN Goto(t, "peek", [l[t] EXCEPT !.cur = head, !.layer = i, !.again = FALSE])
  /\ Counted({head}, {})
  /\ UNCHANGED <<Fixed, todo>>

\* _sl_next returns NULL: the marks of the layers above go.  The second look at a
\* marked node takes no NULL: it would count a reference in it.
Retry(t, less) == IF l[t].again THEN Goto(t, "crash", l[t]) /\ UNCHANGED refs
                  ELSE ClearFrom(t, l[t].layer + 1, Begin(t), less)

\* A next pointer is read and its node counted, which takes no NULL either.
Take(t, n, less, r) == IF n = None THEN Goto(t, "crash", l[t]) /\ UNCHANGED refs
                       ELSE Goto(t, "look", [r EXCEPT !.next = n]) /\ Counted({n}, less)

\* _sl_next: the next pointer of cur, under its read lock.
Peek(t) ==
  /\ At(t, "peek") /\ l[t].cur # tail /\ ~Held(l[t].cur)
  /\ IF IsLinked(l[t].cur)
     THEN Take(t, nodes[l[t].cur].next[l[t].layer], {}, [l[t] EXCEPT !.found = FALSE])
     ELSE Retry(t, {})
  /\ UNCHANGED <<Fixed, todo>>

\* An eraser looks for what comes after its node.
Target(t) == IF l[t].op = "erase" THEN l[t].node ELSE None
Answers(t) == At(t, "look") /\ IsLinked(l[t].next) /\ l[t].next # Target(t)

\* The next node is not fully linked, or is the one to erase: on to the one after it.  (The
\* code gives back the references to the nodes it hops over when it is past all of them.)
Hop(t) ==
  /\ At(t, "look") /\ ~Answers(t)
  /\ Goto(t, "hop", [l[t] EXCEPT !.found = @ \/ l[t].next = Target(t)])
  /\ UNCHANGED <<Shared, todo>>

Hopped(t) ==
  /\ At(t, "hop") /\ ~Held(l[t].next)
  /\ IF IsLinked(l[t].next)
     THEN Take(t, nodes[l[t].next].next[l[t].layer], {l[t].next}, l[t])
     ELSE Retry(t, {l[t].next})
  /\ UNCHANGED <<Fixed, todo>>

-----------------------------------------------------------------------------
\* Mutant: the search for a smaller node goes on to an equal one.
OnwardOrAt(t) == \/ l[t].next \in Nodes /\ l[t].key >= Key[l[t].next]
                 \/ l[t].op = "erase" /\ l[t].layer <= l[t].top /\ ~l[t].found

\* _sl_next has answered: does the search go on in this layer?
Onward(t) == \/ Past(l[t].key, l[t].next)
             \/ l[t].op = "erase" /\ l[t].layer <= l[t].top /\ ~l[t].found

First(t) == Answers(t) /\ ~l[t].again

\* Mutant: the reference is given back after cur has moved on.
PassLate(t) ==
  /\ First(t) /\ Onward(t)
  /\ Goto(t, "peek", [l[t] EXCEPT !.cur = l[t].next]) /\ Counted({}, {l[t].next})
  /\ UNCHANGED <<Fixed, todo>>

Pass(t) ==
  /\ First(t) /\ Onward(t)
  /\ Goto(t, "peek", [l[t] EXCEPT !.cur = l[t].next]) /\ Counted({}, {l[t].cur})
  /\ UNCHANGED <<Fixed, todo>>

\* A layer above the node's own, or above the bottom for a find.
Descend(t) ==
  /\ First(t) /\ ~Onward(t) /\ l[t].layer > l[t].top /\ l[t].layer > 0
  /\ Goto(t, "peek", [l[t] EXCEPT !.layer = @ - 1]) /\ Counted({}, {l[t].next})
  /\ UNCHANGED <<Fixed, todo>>

\* The node that a find returns stays counted: getPrev does not give it back.
Answer(t) ==
  /\ First(t) /\ ~Onward(t) /\ l[t].op = "find" /\ l[t].layer = 0
  /\ Goto(t, "answer", [l[t] EXCEPT !.answer = IF l[t].cur = head THEN None ELSE l[t].cur])
  /\ Counted({}, {l[t].next} \cup ({l[t].cur} \cap {head}))
  /\ UNCHANGED <<Fixed, todo>>

Return(t) ==
  /\ At(t, "answer") /\ Goto(t, "idle", l[t]) /\ Forget(t)
  /\ UNCHANGED <<nodes, refs, entries, listTop, todo>>

\* The place in this layer: between cur and next.
Place(t) ==
  /\ First(t) /\ ~Onward(t) /\ l[t].layer <= l[t].top
  /\ Goto(t, "try", [l[t] EXCEPT !.prevs[l[t].layer] = l[t].cur, !.nexts[l[t].layer] = l[t].next])
  /\ Counted({}, {l[t].next})
  /\ UNCHANGED <<Fixed, todo>>

\* The layer above has marked the same node.
Marked(t) == l[t].layer < l[t].top /\ l[t].cur = l[t].prevs[l[t].layer + 1]

\* Mutant: the mark is set whether somebody has it or not.
FreeOrNot(t) == TRUE

Free(t) == nodes[l[t].cur].flag = None

Try(t) ==
  /\ At(t, "try")
  /\ \/ Marked(t) /\ Goto(t, "prev", l[t]) /\ UNCHANGED <<nodes, refs>>
     \/ ~Marked(t) /\ ~Free(t) /\ Retry(t, {}) /\ UNCHANGED nodes
     \/ ~Marked(t) /\ Free(t) /\ Put(l[t].cur, "flag", t) /\ Goto(t, "prev", l[t]) /\ UNCHANGED refs
  /\ UNCHANGED <<entries, listTop, todo, seen>>

\* _sl_valid_prev_next, and the new node's next pointer of this layer.
Prev(t) ==
  /\ At(t, "prev")
  /\ IF IsLinked(l[t].cur) THEN Goto(t, "next", l[t]) /\ UNCHANGED refs
     ELSE ClearFrom(t, l[t].layer, Begin(t), {})
  /\ UNCHANGED <<Fixed, todo>>

NextValid(t) ==
  /\ At(t, "next")
  /\ IF IsLinked(l[t].next)
     THEN /\ nodes' = IF l[t].op = "insert" THEN [nodes EXCEPT ![l[t].node].next[l[t].layer] = l[t].next] ELSE nodes
          /\ Goto(t, "peek", [l[t] EXCEPT !.again = TRUE]) /\ UNCHANGED refs
     ELSE ClearFrom(t, l[t].layer, Begin(t), {}) /\ UNCHANGED nodes
  /\ UNCHANGED <<entries, listTop, todo, seen>>

\* Mutant: nobody looks again.
SameOrNot(t) == TRUE

\* What cur points to is still next; or it is not.
Same(t) == l[t].next = l[t].nexts[l[t].layer]

Placed(t) ==
  /\ Answers(t) /\ l[t].again
  /\ \/ ~Same(t) /\ ClearFrom(t, l[t].layer, Begin(t), {l[t].next})
     \/ /\ Same(t) /\ l[t].layer > 0 /\ Counted({}, {l[t].next})
        /\ Goto(t, "peek", [l[t] EXCEPT !.layer = @ - 1, !.again = FALSE])
     \/ /\ Same(t) /\ l[t].layer = 0 /\ Counted({}, {l[t].next})
        /\ Goto(t, IF l[t].op = "insert" THEN "store" ELSE "unlink", l[t])
  /\ UNCHANGED <<Fixed, todo>>

\* skiplist_erase_node_passive: the node is no longer fully linked.
Unlink(t) ==
  /\ At(t, "unlink") /\ ~Held(l[t].node) /\ Put(l[t].node, "full", FALSE) /\ Goto(t, "store", l[t]) /\ Observe
  /\ UNCHANGED <<refs, entries, listTop, todo>>

-----------------------------------------------------------------------------
\* What prevs[layer] should point to, and will.
Expected(t) == IF l[t].op = "insert" THEN l[t].nexts[l[t].layer] ELSE l[t].node
Desired(t) == IF l[t].op = "insert" THEN l[t].node ELSE l[t].nexts[l[t].layer]

Store(t) ==
  LET i == l[t].layer
      p == l[t].prevs[i]
  IN /\ At(t, "store") /\ p # None /\ ~Held(p)
     /\ nodes' = IF nodes[p].next[i] = Expected(t) THEN [nodes EXCEPT ![p].next[i] = Desired(t)] ELSE nodes
     /\ IF i < l[t].top THEN Goto(t, "store", [l[t] EXCEPT !.layer = @ + 1])
        ELSE Goto(t, IF l[t].op = "insert" THEN "publish" ELSE "count", l[t])
     /\ UNCHANGED <<refs, entries, listTop, todo, seen>>

Publish(t) ==
  /\ At(t, "publish") /\ Put(l[t].node, "full", TRUE) /\ Goto(t, "release", l[t]) /\ Observe
  /\ UNCHANGED <<refs, entries, listTop, todo>>

Release(t) ==
  /\ At(t, "release") /\ Put(l[t].node, "holder", None) /\ Goto(t, "count", l[t])
  /\ UNCHANGED <<refs, entries, listTop, todo, seen>>

\* Mutant: the scan for the top layer begins one layer too high.
CountAbove(t) ==
  /\ At(t, "count")
  /\ entries' = [entries EXCEPT ![nodes[l[t].node].top] = IF l[t].op = "insert" THEN @ + 1 ELSE @ - 1]
  /\ Goto(t, "scan", [l[t] EXCEPT !.layer = MaxLayer])
  /\ UNCHANGED <<nodes, refs, listTop, todo, seen>>

\* Mutant: the scan for the top layer looks at the bottom layer only.
CountBottom(t) ==
  /\ At(t, "count")
  /\ entries' = [entries EXCEPT ![nodes[l[t].node].top] = IF l[t].op = "insert" THEN @ + 1 ELSE @ - 1]
  /\ Goto(t, "scan", [l[t] EXCEPT !.layer = 0])
  /\ UNCHANGED <<nodes, refs, listTop, todo, seen>>

Count(t) ==
  /\ At(t, "count")
  /\ entries' = [entries EXCEPT ![nodes[l[t].node].top] = IF l[t].op = "insert" THEN @ + 1 ELSE @ - 1]
  /\ Goto(t, "scan", [l[t] EXCEPT !.layer = MaxLayer - 1])
  /\ UNCHANGED <<nodes, refs, listTop, todo, seen>>

\* Mutant: a call that has succeeded keeps its marks.
FinishKeeping(t) == Goto(t, IF l[t].op = "insert" THEN "idle" ELSE "unmark", l[t]) /\ Counted({}, {l[t].cur})

\* After the changes the marks go, and an erased node's own is the last one.
Finish(t) == ClearFrom(t, 0, IF l[t].op = "insert" THEN "idle" ELSE "unmark", {})

\* The highest layer that has a node, as the loop over layer_entries finds it.
Scan(t) ==
  /\ At(t, "scan")
  /\ \/ entries[l[t].layer] # 0 /\ Goto(t, "top", l[t]) /\ UNCHANGED refs
     \/ entries[l[t].layer] = 0 /\ l[t].layer > 0 /\ Goto(t, "scan", [l[t] EXCEPT !.layer = @ - 1]) /\ UNCHANGED refs
     \/ entries[l[t].layer] = 0 /\ l[t].layer = 0 /\ Finish(t)
  /\ UNCHANGED <<Fixed, todo>>

SetTop(t) ==
  /\ At(t, "top") /\ listTop' = l[t].layer /\ Finish(t)
  /\ UNCHANGED <<nodes, entries, todo, seen>>

\* Mutant: a node that two layers have in common is cleared in each.
DoubledNever(t, i) == FALSE

\* One layer of _sl_clr_flags.
Doubled(t, i) == i < l[t].top /\ l[t].prevs[i] = l[t].prevs[i + 1]

Clear(t) ==
  LET i == l[t].layer
  IN /\ At(t, "clear")
     /\ IF Doubled(t, i) THEN UNCHANGED nodes ELSE Put(l[t].prevs[i], "flag", None)
     /\ IF i < l[t].top THEN Goto(t, "clear", [l[t] EXCEPT !.layer = @ + 1]) /\ UNCHANGED refs
        ELSE Goto(t, l[t].then, l[t]) /\ Counted({}, {l[t].cur})
     /\ UNCHANGED <<entries, listTop, todo, seen>>

-----------------------------------------------------------------------------
\* The warm node that follows n in layer i.
WarmNext(n, i) ==
  LET After == {m \in DOMAIN Warm : Warm[m] >= i /\ Past(Key[m], n)}
      Nearest == {m \in After : \A k \in After : Key[m] <= Key[k]}
  IN IF Nearest = {} THEN tail ELSE CHOOSE m \in Nearest : TRUE

\* A node at the beginning: linked in the layers up to i, or in none for i = -1.
Node(n, i) == [next |-> [j \in Layers |-> IF j <= i THEN WarmNext(n, j) ELSE None], full |-> i >= 0,
               flag |-> None, removed |-> FALSE, top |-> IF i < 0 THEN 0 ELSE i, holder |-> None]

Init ==
  /\ nodes = [n \in Links |-> IF n \in DOMAIN Warm THEN Node(n, Warm[n])
                              ELSE IF n = head THEN Node(n, MaxLayer - 1)
                              ELSE [Node(n, -1) EXCEPT !.full = n = tail]]
  /\ refs = [n \in Links |-> 0]
  /\ entries = [i \in Layers |-> Cardinality({n \in DOMAIN Warm : Warm[n] = i})]
  /\ listTop \in {i \in Layers : /\ \A n \in DOMAIN Warm : Warm[n] <= i
                                 /\ i = 0 \/ \E n \in DOMAIN Warm : Warm[n] = i}
  /\ todo \in Programs
  /\ l = [t \in Threads |-> Idle]
  /\ seen = [t \in Threads |-> Unseen]

Step(t) ==
  \/ Call(t) \/ Removed(t) \/ Mark(t) \/ Retire(t) \/ Linked(t) \/ Restore(t) \/ Unmark(t)
  \/ Start(t) \/ Peek(t) \/ Hop(t) \/ Hopped(t) \/ Pass(t) \/ Descend(t) \/ Answer(t) \/ Return(t)
  \/ Place(t) \/ Try(t) \/ Prev(t) \/ NextValid(t) \/ Placed(t) \/ Unlink(t)
  \/ Store(t) \/ Publish(t) \/ Release(t) \/ Count(t) \/ Scan(t) \/ SetTop(t) \/ Clear(t)

\* The threads are through.
Done == /\ \A t \in Threads : At(t, "idle") /\ todo[t] = <<>>
        /\ UNCHANGED vars

Next == (\E t \in Threads : Step(t)) \/ Done

Spec == Init /\ [][Next]_vars

\* Threads are scheduled by the operating system.
FairSpec == Spec /\ \A t \in Threads : WF_vars(Step(t))

-----------------------------------------------------------------------------
PCs == {"idle", "removed", "mark", "retire", "linked", "restore", "unmark", "start", "peek", "look", "hop", "answer",
        "try", "prev", "next", "unlink", "store", "publish", "release", "count", "scan", "top", "clear", "crash"}
NodeRec == [next : [Layers -> Links \cup {None}], full : BOOLEAN, flag : Threads \cup {None},
            removed : BOOLEAN, top : Layers, holder : Threads \cup {None}]
Locals == [pc : PCs, op : {"none", "insert", "erase", "find"}, node : Nodes \cup {None}, key : Int,
           top : Layers \cup {-1}, layer : Layers, cur : Links \cup {None}, next : Links \cup {None},
           found : BOOLEAN, again : BOOLEAN, then : PCs, answer : Links \cup {None},
           prevs : [Layers -> Links \cup {None}], nexts : [Layers -> Links \cup {None}]]
Sights == [met : SUBSET Nodes, kept : SUBSET Nodes]

\* Every variable keeps its type: nodes point to nodes, locals to nodes and layers.
TypeOK ==
  /\ nodes \in [Links -> NodeRec] /\ refs \in [Links -> 0..RefBase - 1]
  /\ entries \in [Layers -> Int] /\ listTop \in Layers
  /\ todo \in [Threads -> Seq(Calls)] /\ l \in [Threads -> Locals]
  /\ seen \in [Threads -> Sights]

\* The calls that thread t makes in program p.
CallsOf(p, t) == {p[t][i] : i \in DOMAIN p[t]}

\* What the callers owe: no thread erases a node that another one is inserting, or still has
\* to insert.  (TSkipList erases what a transaction has found in the index.)
InTurn == \A t, u \in Threads : t # u /\ l[t].op = "erase" =>
            /\ ~(l[u].op = "insert" /\ l[u].node = l[t].node)
            /\ \A i \in DOMAIN todo[u] : ~(todo[u][i].op = "insert" /\ todo[u][i].node = l[t].node)

\* Programs that see to that: what a thread inserts is erased by that thread only.
Owners == \A p \in Programs, t, u \in Threads : \A c \in CallsOf(p, t), d \in CallsOf(p, u) :
            c.op = "insert" /\ d.op = "erase" /\ c.node = d.node => t = u

\* Programs, and draws of heights, in which a node that is inserted and erased again is no
\* higher than one that is in the list from the beginning and stays there.
Spared(p, m) == \A t \in Threads : \A c \in CallsOf(p, t) : c.op = "erase" => c.node # m
Level(p) == \A t, u \in Threads : \A c \in CallsOf(p, t), d \in CallsOf(p, u) :
              c.op = "insert" /\ d.op = "erase" /\ c.node = d.node =>
                \A i \in c.tops : i = 0 \/ \E m \in DOMAIN Warm : i <= Warm[m] /\ Spared(p, m)
Steady == \A p \in Programs : Level(p)

\* A node whose insert is about to begin is not linked and has nobody's mark, as the
\* assertions in _sl_node_init say, which otherwise takes the mark away.
Fresh == \A t \in Threads : At(t, "idle") /\ todo[t] # <<>> /\ todo[t][1].op = "insert" =>
           LET n == nodes[todo[t][1].node] IN n.flag = None /\ ~n.full

\* An erase starts its descent at or above its node's top layer, so that it finds a
\* predecessor in each layer that it unlinks the node from.
Topped == \A t \in Threads : At(t, "start") /\ l[t].op = "erase" => l[t].top <= listTop

\* An erase that begins its descent knows the top layer of its node, which it has read
\* before it had the mark: no insert of the node has begun in between.
Known == \A t \in Threads : At(t, "start") /\ l[t].op = "erase" => l[t].top = nodes[l[t].node].top

\* The nodes that can be reached from the head in layer i: the least set that has, with a
\* node, the one that it points to.
InLayer(i) ==
  LET Closed == {S \in SUBSET Nodes : \A n \in S \cup {head} : nodes[n].next[i] \in S \cup {tail, None}}
  IN {n \in Nodes : \A S \in Closed : n \in S}

\* Thread t has node n in hand: it links or unlinks it.
Moving(t, n) == l[t].node = n /\ l[t].pc \in {"store", "publish"}

\* Every store of a next pointer finds the pointer that it is to replace, as the
\* assertions behind the two CASes say, and replaces it by a node that is in the list.
StoresSucceed ==
  \A t \in Threads : At(t, "store") =>
    LET p == l[t].prevs[l[t].layer]
    IN /\ p # None
       /\ nodes[p].next[l[t].layer] = Expected(t)
       /\ l[t].nexts[l[t].layer] # l[t].node /\ nodes[l[t].nexts[l[t].layer]].full

\* A thread that has marked a node gets no NULL for its successor, and no search leaves
\* the list at its end.
NoNull == \A t \in Threads : ~At(t, "crash") /\ l[t].cur # tail

\* A mark is taken away by the thread that set it, once, on every path out of a call.
MarksReturned ==
  \A t \in Threads :
    /\ At(t, "clear") /\ ~Doubled(t, l[t].layer) => nodes[l[t].prevs[l[t].layer]].flag = t
    /\ At(t, "unmark") => nodes[l[t].node].flag = t
    /\ At(t, "idle") => \A n \in Links : nodes[n].flag # t

\* A node that is fully linked is in every layer of its tower, and a node that is in
\* some layer but not fully linked is in the hands of a thread.
Towers ==
  \A i \in Layers :
    LET reached == InLayer(i)
    IN \A n \in Nodes : /\ nodes[n].full /\ i <= nodes[n].top => n \in reached
                        /\ n \in reached => nodes[n].full \/ \E t \in Threads : Moving(t, n)

\* The references to node n that threads have counted and not given back.
Hands(n) ==
  LET Search == {"peek", "look", "hop", "try", "prev", "next", "clear"}
      Change == {"unlink", "store", "publish", "release", "count", "scan", "top"}
  IN Cardinality({t \in Threads : l[t].cur = n /\ (l[t].pc \in Search \cup Change \/ (At(t, "answer") /\ n # head))})
     + Cardinality({t \in Threads : l[t].next = n /\ l[t].pc \in {"look", "hop"}})

\* On every path out of a call the references it has counted are given back, but for one:
\* the caller's, to the node that a find returns.
RefsBalanced ==
  [][\A n \in Links : refs'[n] - Hands(n)' = refs[n] - Hands(n)
       + (IF \E t \in Threads : At(t, "answer") /\ l'[t].pc = "idle" /\ l[t].answer = n THEN 1 ELSE 0)]_vars

\* An insert and an erase take effect at one moment each; a find answers with a node below
\* its key that was in the list during the call, and there is none between the two that was
\* there throughout: the library is a set with a weak find.
Atomic == Promise!Spec

\* Every call of insert, erase and find returns, though each of them starts again
\* whenever another thread is at work on a node that it needs.
Returns == \A t \in Threads : []<>At(t, "idle")
=============================================================================
