------------------------ MODULE SkipIndexListProofs -------------------------
(***************************************************************************)
(* Proofs about the lists of the concurrent skip list library, one per     *)
(* layer: they are sorted, they are what the nodes that are linked say, and *)
(* what a search has marked stays where it was found; so no store fails and *)
(* no pointer is NULL (StoresSucceed, NoNull), and towers stand whole      *)
(* (Towers), for any threads, nodes, keys, layers and programs.  Fresh,    *)
(* Topped and Known are the hypotheses; SkipIndexAtomicProofs derives them *)
(* from what the callers owe.                                              *)
(***************************************************************************)
EXTENDS SkipIndexProofs

-----------------------------------------------------------------------------
\* A thread on its way through a layer.
Walk == {"peek", "look", "hop", "try", "prev", "next"}

\* Node x comes before node y: by key, and by g, the nodes of the same key that are older.
Bef(g, x, y) == /\ x # y /\ x # tail /\ y # head
                /\ x = head \/ y = tail \/ (x \in Nodes /\ y \in Nodes /\ (Key[x] < Key[y] \/ y \in g[x]))

\* g orders the nodes of B.
Ordered(B, g) ==
  /\ B \subseteq Nodes
  /\ \A x \in B : g[x] \subseteq B /\ x \notin g[x]
  /\ \A x, y \in B : y \in g[x] => Key[y] = Key[x]
  /\ \A x, y \in B : Key[x] = Key[y] => x = y \/ x \in g[y] \/ y \in g[x]
  /\ \A x, y, z \in B : y \in g[x] /\ z \in g[y] => z \in g[x]
\* The nodes of B and the two ends.
Ground(B) == B \cup {head, tail}

\* The thread with locals r has linked its node in layer i, or has it still to be unlinked there.
Inserted(r, i) == r.op = "insert" /\ i <= r.top /\ (r.pc = "publish" \/ (r.pc = "store" /\ i < r.layer))
Cutting(r, i) == r.op = "erase" /\ r.layer <= i /\ i <= r.top /\ r.pc = "store"
Half(r, i) == Inserted(r, i) \/ Cutting(r, i)

\* The members of layer i: its ends, the nodes that are linked, and those that a thread is linking or unlinking.
Member(i, n) == \/ n \in {head, tail}
                \/ n \in Nodes /\ nodes[n].full /\ i <= nodes[n].top
                \/ \E t \in Threads : l[t].node = n /\ Half(l[t], i)
In(i) == {n \in Links : Member(i, n)}

\* In layer i, x points to the member that comes next.
Chained(g, i, x) ==
  /\ nodes[x].next[i] \in In(i) /\ Bef(g, x, nodes[x].next[i])
  /\ \A z \in In(i) : Bef(g, x, z) => z = nodes[x].next[i] \/ Bef(g, nodes[x].next[i], z)
\* Every layer is a list of its members, in order, from the head to the tail.
Lists(B, g) == \A i \in Layers : In(i) \subseteq Ground(B) /\ \A x \in In(i) \ {tail} : Chained(g, i, x)
\* The two ends are linked from the beginning.
Ends == nodes[head].full /\ nodes[tail].full

\* The thread with locals r makes a node that is not linked yet; or has unlinked one.
Unborn(r) == /\ r.op = "insert" /\ r.pc \in Walk \cup {"start", "store", "publish", "clear"}
             /\ ~(r.pc = "clear" /\ r.then = "idle")
\* The thread with locals r has taken its node out of the set: it is unlinking it, or has.
Cut(r) == \/ r.op = "erase" /\ r.pc \in {"store", "count", "scan", "top"}
          \/ r.op = "erase" /\ r.pc = "clear" /\ r.then = "unmark"

\* Nobody has met a node that is still to be inserted.
Pending(B) ==
  \A t \in Threads : \A i \in DOMAIN todo[t] : todo[t][i].op = "insert" =>
    /\ todo[t][i].node \notin B
    /\ \A u \in Threads : Unborn(l[u]) => l[u].node # todo[t][i].node
    /\ \A u \in Threads : \A j \in DOMAIN todo[u] :
         todo[u][j].op = "insert" /\ todo[u][j].node = todo[t][i].node => u = t /\ j = i
\* No thread makes a node that another one has unlinked.
Alone == \A t, u \in Threads : Unborn(l[t]) /\ Cut(l[u]) => l[t].node # l[u].node

\* Node n may be met in layer i.
Fit(B, i, n) == n \in Nodes => n \in B /\ i <= nodes[n].top

\* What the operation of a thread tells of where it is.
Named(t) == /\ l[t].pc # "crash"
            /\ l[t].pc = "idle" => l[t] = Idle
            /\ l[t].op = "none" => l[t].pc = "idle"
            /\ l[t].op \in {"insert", "erase"} => l[t].key = Key[l[t].node]
            /\ l[t].pc \in {"publish", "release"} => l[t].op = "insert"
            /\ l[t].pc = "unlink" => l[t].op = "erase" /\ l[t].layer = 0
            /\ l[t].pc = "store" => l[t].layer <= l[t].top
            /\ l[t].pc = "clear" /\ l[t].then = "start" => l[t].op = "insert"

\* The node that an insert makes is its own.
Making(B, t) ==
  /\ l[t].pc = "release" => nodes[l[t].node].holder = t
  /\ Unborn(l[t]) =>
       /\ nodes[l[t].node].holder = t /\ ~nodes[l[t].node].full /\ nodes[l[t].node].top = l[t].top
       /\ IF l[t].pc = "publish" \/ (l[t].pc = "store" /\ l[t].layer > 0)
          THEN l[t].node \in B ELSE l[t].node \notin B

\* A search stands before the place that it looks for.
Standing(B, g, t) ==
  l[t].pc \in Walk => /\ l[t].cur # tail /\ Fit(B, l[t].layer, l[t].cur)
                      /\ l[t].op \in {"insert", "find"} => Past(l[t].key, l[t].cur)
                      /\ l[t].op = "erase" => Bef(g, l[t].cur, l[t].node)
\* What it has read there may be a node of that layer.
Looking(B, t) ==
  /\ l[t].pc \in Walk \ {"peek"} => l[t].next # head /\ Fit(B, l[t].layer, l[t].next)
  /\ l[t].pc = "hop" => l[t].next # tail

\* The node of an erase is linked until the erase unlinks it, and its tower is known.
Erasing(B, t) ==
  l[t].op = "erase" => /\ l[t].pc \in Walk \cup {"start", "unlink"} => l[t].node \in B /\ nodes[l[t].node].full
                       /\ l[t].pc \in Walk \cup {"unlink", "store"} => l[t].node \in B /\ nodes[l[t].node].top = l[t].top
                       /\ l[t].pc = "store" => ~nodes[l[t].node].full
\* An erase is before its node in the layers that the node is in, until it has found it.
Seeking(g, t) ==
  l[t].op = "erase" /\ l[t].pc \in {"look", "hop"} =>
    /\ ~l[t].found /\ l[t].layer <= l[t].top => l[t].next = l[t].node \/ Bef(g, l[t].next, l[t].node)
    /\ l[t].found => /\ l[t].layer <= l[t].top
                     /\ l[t].pc = "hop" => l[t].next = l[t].node
                     /\ l[t].pc = "look" => l[t].next = nodes[l[t].node].next[l[t].layer]
    /\ l[t].pc = "hop" /\ l[t].next = l[t].node => l[t].found

\* What is to come after a node in layer j.
Candidate(B, t, j) ==
  /\ l[t].nexts[j] \in Links \ {head} /\ Fit(B, j, l[t].nexts[j])
  /\ l[t].op = "insert" => ~Past(l[t].key, l[t].nexts[j])
  /\ l[t].op = "erase" => l[t].nexts[j] = nodes[l[t].node].next[j]
\* The place that a search is about to mark, or looks at again.
Placing(B, t) ==
  /\ l[t].pc \in {"try", "prev", "next"} \/ Again(l[t]) =>
       l[t].layer <= l[t].top /\ l[t].prevs[l[t].layer] = l[t].cur /\ Candidate(B, t, l[t].layer)
  /\ l[t].pc \in {"try", "prev", "next"} => l[t].nexts[l[t].layer] = l[t].next
  /\ l[t].pc = "next" \/ Again(l[t]) => nodes[l[t].cur].full
  /\ Again(l[t]) /\ l[t].op = "insert" => nodes[l[t].node].next[l[t].layer] = l[t].nexts[l[t].layer]

\* The second look at a marked node.
Seconding(t) ==
  Again(l[t]) /\ l[t].pc # "peek" =>
    /\ l[t].op = "insert" => l[t].pc = "look" /\ l[t].next = nodes[l[t].cur].next[l[t].layer]
    /\ l[t].op = "erase" /\ l[t].found => nodes[l[t].cur].next[l[t].layer] = l[t].node
    /\ l[t].op = "erase" /\ ~l[t].found => l[t].pc = "look" /\ l[t].next = nodes[l[t].cur].next[l[t].layer]

\* The layers where the place is settled: found, marked, and looked at again.
Settled(r) == {j \in Layers : j <= r.top /\ \/ r.pc \in Walk /\ r.layer < j
                                            \/ r.pc = "store"
                                            \/ r.pc = "unlink" /\ r.op = "erase"
                                            \/ r.pc = "publish" /\ r.op = "insert"}
\* In layer j the previous node is linked, marked and points to where the thread found it to.
Pinned(B, g, t, j) ==
  /\ l[t].prevs[j] \in Links \ {tail} /\ Fit(B, j, l[t].prevs[j]) /\ nodes[l[t].prevs[j]].full /\ Candidate(B, t, j)
  /\ l[t].op = "insert" =>
       /\ Past(l[t].key, l[t].prevs[j]) /\ nodes[l[t].node].next[j] = l[t].nexts[j]
       /\ nodes[l[t].prevs[j]].next[j] = IF Inserted(l[t], j) THEN l[t].node ELSE l[t].nexts[j]
       /\ l[t].pc = "publish" \/ (l[t].pc = "store" /\ l[t].layer > 0) => Bef(g, l[t].node, l[t].nexts[j])
  /\ l[t].op = "erase" /\ (l[t].pc = "store" => l[t].layer <= j) => nodes[l[t].prevs[j]].next[j] = l[t].node
Settles(B, g, t) == \A j \in Settled(l[t]) : Pinned(B, g, t, j)

\* All that thread t relies on.
Good(B, g, t) == /\ Named(t) /\ Making(B, t) /\ Standing(B, g, t) /\ Looking(B, t) /\ Erasing(B, t) /\ Seeking(g, t)
                 /\ Placing(B, t) /\ Seconding(t) /\ Settles(B, g, t)

\* The nodes that have been met so far are B, and g orders those of equal keys, newest first.
Order(B, g) == Ordered(B, g) /\ g \in [Nodes -> SUBSET Nodes] /\ IsFiniteSet(B)
\* The inductive invariant of the lists.
ListInv(B, g) == MarkInv /\ Order(B, g) /\ Lists(B, g) /\ Ends /\ Pending(B) /\ Alone /\ \A t \in Threads : Good(B, g, t)

-----------------------------------------------------------------------------
\* The ends are no nodes of the caller.
LEMMA Strangers == head \notin Nodes /\ tail \notin Nodes /\ head # tail /\ Key \in [Nodes -> Int]
BY ListAssumption

\* Bef is a strict and total order.
LEMMA BefNot == ASSUME NEW g, NEW x PROVE ~Bef(g, x, x)
BY DEF Bef

LEMMA BefTrans == ASSUME NEW B, NEW g, Order(B, g), NEW x \in Ground(B), NEW y \in Ground(B), NEW z \in Ground(B), Bef(g,
                         x, y), Bef(g, y, z)
                  PROVE Bef(g, x, z)
<1>0. Ordered(B, g)  BY DEF Order
<1>1. CASE x = head
  <2>1. z # head  BY DEF Bef
  <2> QED  BY <1>1, <2>1, Strangers DEF Bef
<1>2. CASE x # head /\ z = tail
  BY <1>2, Strangers DEF Bef
<1>3. CASE x # head /\ z # tail
  <2>1. x \in B /\ y \in B /\ z \in B  BY <1>3 DEF Bef, Ground
  <2>2. x \in Nodes /\ y \in Nodes /\ z \in Nodes  BY <1>0, <2>1 DEF Ordered
  <2>3. (Key[x] < Key[y] \/ y \in g[x]) /\ (Key[y] < Key[z] \/ z \in g[y])  BY <2>2, Strangers DEF Bef
  <2>4. Key[x] \in Int /\ Key[y] \in Int /\ Key[z] \in Int  BY <2>2, Strangers
  <2>5. y \in g[x] => Key[y] = Key[x]  BY <1>0, <2>1 DEF Ordered
  <2>6. z \in g[y] => Key[z] = Key[y]  BY <1>0, <2>1 DEF Ordered
  <2>7. y \in g[x] /\ z \in g[y] => z \in g[x]  BY <1>0, <2>1 DEF Ordered
  <2>8. x \notin g[x]  BY <1>0, <2>1 DEF Ordered
  <2>9. Key[x] < Key[z] \/ z \in g[x]  BY <2>3, <2>4, <2>5, <2>6, <2>7
  <2>10. x # z  BY <2>4, <2>8, <2>9
  <2> QED  BY <2>2, <2>9, <2>10, Strangers DEF Bef
<1> QED  BY <1>1, <1>2, <1>3

LEMMA BefTotal == ASSUME NEW B, NEW g, Order(B, g), NEW x \in Ground(B), NEW y \in Ground(B)
                  PROVE x = y \/ Bef(g, x, y) \/ Bef(g, y, x)
<1>0. Ordered(B, g)  BY DEF Order
<1>1. CASE x \in B /\ y \in B
  <2>1. x \in Nodes /\ y \in Nodes  BY <1>0, <1>1 DEF Ordered
  <2>2. Key[x] \in Int /\ Key[y] \in Int  BY <2>1, Strangers
  <2>3. Key[x] = Key[y] => x = y \/ x \in g[y] \/ y \in g[x]  BY <1>0, <1>1 DEF Ordered
  <2> QED  BY <2>1, <2>2, <2>3, Strangers DEF Bef
<1>2. CASE ~(x \in B /\ y \in B)
  BY <1>2, Strangers DEF Bef, Ground
<1> QED  BY <1>1, <1>2

\* Bef goes by the keys.
LEMMA BefKey == ASSUME NEW B, NEW g, Order(B, g), NEW x \in B, NEW y \in B
                PROVE /\ Bef(g, x, y) => Key[x] <= Key[y]
                      /\ Key[x] < Key[y] => Bef(g, x, y)
<1>1. x \in Nodes /\ y \in Nodes  BY DEF Order, Ordered
<1>2. Key[x] \in Int /\ Key[y] \in Int  BY <1>1, Strangers
<1>3. y \in g[x] => Key[y] = Key[x]  BY DEF Order, Ordered
<1> QED  BY <1>1, <1>2, <1>3, Strangers DEF Bef

\* A search for the key of y that has got past x stands before y.
LEMMA PastBef == ASSUME NEW B, NEW g, Order(B, g), NEW x \in Ground(B), NEW y \in B, Past(Key[y], x)
                 PROVE Bef(g, x, y)
<1>1. y \in Nodes  BY DEF Order, Ordered
<1>2. CASE x = head  BY <1>1, <1>2, Strangers DEF Bef
<1>3. CASE x # head
  <2>1. x \in Nodes /\ Key[y] > Key[x] /\ Key[x] \in Int /\ Key[y] \in Int  BY <1>1, <1>3, Strangers DEF Past
  <2>2. x # y  BY <2>1
  <2> QED  BY <1>1, <2>1, <2>2, Strangers DEF Bef
<1> QED  BY <1>2, <1>3
-----------------------------------------------------------------------------
\* What the invariant contains.
LEMMA Basics == ASSUME NEW B, NEW g, ListInv(B, g)
                PROVE /\ MarkInv /\ TypeInv /\ TypeOK /\ Order(B, g) /\ B \subseteq Nodes /\ Lists(B, g) /\ Ends /\
                         Pending(B) /\ Alone
                      /\ \A t \in Threads : Good(B, g, t) /\ Sound(l[t]) /\ l[t] \in Locals /\ Marks(t)
BY DEF ListInv, MarkInv, TypeInv, TypeOK, Order, Ordered

LEMMA LayerNat == 0 \in Layers /\ (\A i \in Layers : i \in Int /\ i >= 0)
BY ListAssumption DEF Layers

\* In a layer two members do not come before the same one.
LEMMA OneBefore == ASSUME NEW B, NEW g, Order(B, g), Lists(B, g), NEW i \in Layers, NEW x \in In(i), NEW y \in In(i),
                          x # tail, y # tail, nodes[x].next[i] = nodes[y].next[i]
                   PROVE x = y
<1> DEFINE w == nodes[x].next[i]
<1>1. Chained(g, i, x) /\ Chained(g, i, y) /\ x \in Ground(B) /\ y \in Ground(B)  BY DEF Lists
<1>2. w \in In(i) /\ w = nodes[y].next[i] /\ Bef(g, x, w) /\ Bef(g, y, w)  BY <1>1 DEF Chained
<1>3. w \in Ground(B)  BY <1>2 DEF Lists
<1>4. Bef(g, x, y) => y = w \/ Bef(g, w, y)  BY <1>1 DEF Chained
<1>5. Bef(g, y, x) => x = w \/ Bef(g, w, x)  BY <1>1, <1>2 DEF Chained
<1> HIDE DEF w
<1>6. ~Bef(g, x, y)
  <2> SUFFICES ASSUME Bef(g, x, y) PROVE FALSE  BY SMTT(40)
  <2>1. CASE y = w  BY Zenon, <1>2, <2>1, BefNot
  <2>2. CASE Bef(g, w, y)  BY <1>1, <1>2, <1>3, <2>2, BefTrans, BefNot
  <2> QED  BY <1>4, <2>1, <2>2
<1>7. ~Bef(g, y, x)
  <2> SUFFICES ASSUME Bef(g, y, x) PROVE FALSE  OBVIOUS
  <2>1. CASE x = w  BY <1>2, <2>1, BefNot
  <2>2. CASE Bef(g, w, x)  BY <1>1, <1>2, <1>3, <2>2, BefTrans, BefNot
  <2> QED  BY <1>5, <2>1, <2>2
<1> QED  BY <1>1, <1>6, <1>7, BefTotal

\* Whoever has a node half linked knows its tower.
LEMMA HalfKnown == ASSUME NEW B, NEW g, ListInv(B, g), NEW t \in Threads, NEW i \in Layers, Half(l[t], i)
                   PROVE l[t].node \in Nodes /\ i <= nodes[l[t].node].top /\ i \in Settled(l[t]) /\ Pinned(B, g, t, i)
<1>1. Good(B, g, t) /\ Sound(l[t])  BY Basics
<1>2. l[t].node \in Nodes  BY <1>1 DEF Half, Inserted, Cutting, Sound
<1>3. i \in Settled(l[t])  BY DEF Half, Inserted, Cutting, Settled
<1>4. CASE Inserted(l[t], i)
  <2>1. Unborn(l[t]) /\ i <= l[t].top  BY <1>4 DEF Unborn, Inserted
  <2> QED  BY <1>1, <1>2, <1>3, <2>1 DEF Good, Making, Settles
<1>5. CASE Cutting(l[t], i)  BY <1>1, <1>2, <1>3, <1>5 DEF Good, Cutting, Erasing, Settles
<1> QED  BY <1>4, <1>5 DEF Half

\* A member of a layer is a node that may be met there; a linked node that may be is one.
LEMMA MemberFits == ASSUME NEW B, NEW g, ListInv(B, g), NEW i \in Layers, NEW n \in In(i)
                    PROVE n \in Ground(B) /\ Fit(B, i, n)
<1>1. n \in Ground(B)  BY Basics DEF Lists
<1>2. n \in Nodes => n \in B  BY <1>1, Strangers DEF Ground
<1>3. n \in Nodes => i <= nodes[n].top  BY HalfKnown, Strangers DEF In, Member
<1> QED  BY <1>1, <1>2, <1>3 DEF Fit

LEMMA FullIn == ASSUME NEW B, NEW i \in Layers, NEW n \in Links, nodes[n].full, Fit(B, i, n)
                PROVE n \in In(i)
BY DEF In, Member, Fit, Links

LEMMA FullBorn == ASSUME NEW B, NEW g, ListInv(B, g), NEW n \in Nodes, nodes[n].full PROVE n \in B
<1>1. nodes[n].top \in Layers  BY Basics DEF TypeOK, NodeRec, Links
<1>2. n \in In(0)  BY <1>1, LayerNat DEF In, Member, Links
<1> QED  BY <1>2, LayerNat, MemberFits, Strangers DEF Ground

\* What a member points to.
LEMMA NextMember == ASSUME NEW B, NEW g, ListInv(B, g), NEW i \in Layers, NEW x \in In(i), x # tail
                    PROVE /\ nodes[x].next[i] \in In(i) /\ nodes[x].next[i] \in Links /\ nodes[x].next[i] \in Ground(B)
                          /\ nodes[x].next[i] # None /\ nodes[x].next[i] # head /\ Fit(B, i, nodes[x].next[i])
                          /\ Bef(g, x, nodes[x].next[i])
                          /\ \A z \in In(i) : Bef(g, x, z) => z = nodes[x].next[i] \/ Bef(g, nodes[x].next[i], z)
<1>1. Chained(g, i, x)  BY Basics DEF Lists
<1>2. nodes[x].next[i] \in In(i) /\ Bef(g, x, nodes[x].next[i])  BY <1>1 DEF Chained
<1>3. nodes[x].next[i] # head  BY <1>2 DEF Bef
<1>4. nodes[x].next[i] \in Links /\ nodes[x].next[i] # None  BY <1>2, ListAssumption DEF In
<1>5. nodes[x].next[i] \in Ground(B) /\ Fit(B, i, nodes[x].next[i])  BY <1>2, MemberFits
<1> QED  BY <1>1, <1>2, <1>3, <1>4, <1>5 DEF Chained

\* What a marked member points to is linked, or in the hands of the thread that has the mark.
LEMMA Protected == ASSUME NEW B, NEW g, ListInv(B, g), NEW t \in Threads, NEW i \in Layers, NEW x \in In(i), x # tail,
                          nodes[x].flag = t
                   PROVE nodes[nodes[x].next[i]].full \/ (nodes[x].next[i] = l[t].node /\ Half(l[t], i))
<1> DEFINE y == nodes[x].next[i]
<1>0. y \in In(i)  BY NextMember
<1> HIDE DEF y
<1> SUFFICES ASSUME ~nodes[y].full PROVE y = l[t].node /\ Half(l[t], i)  BY DEF y
<1>1. y # head /\ y # tail  BY Basics DEF Ends
<1>2. PICK u \in Threads : l[u].node = y /\ Half(l[u], i)  BY <1>0, <1>1 DEF In, Member
<1>3. Pinned(B, g, u, i) /\ i \in Settled(l[u])  BY <1>2, HalfKnown
<1>4. nodes[l[u].prevs[i]].next[i] = y /\ nodes[l[u].prevs[i]].full /\ l[u].prevs[i] \in Links /\ l[u].prevs[i] # tail
      /\ Fit(B, i, l[u].prevs[i])
  BY <1>2, <1>3 DEF Pinned, Half, Inserted, Cutting
<1>5. l[u].prevs[i] \in In(i)  BY <1>4, FullIn
<1>6. l[u].prevs[i] = x  BY <1>4, <1>5, Basics, OneBefore DEF y
<1>7. i \in Zone(l[u])
  <2>1. l[u].pc \in {"store", "publish"} /\ i <= l[u].top  BY <1>2 DEF Half, Inserted, Cutting
  <2>2. From(l[u]) = 0  BY <2>1 DEF From, Change, Again
  <2> QED  BY <2>1, <2>2, LayerNat DEF Zone
<1>8. nodes[x].flag = u  BY <1>6, <1>7, Basics DEF Marks, Has
<1> QED  BY <1>2, <1>8

-----------------------------------------------------------------------------
\* What a step of another thread leaves alone for thread t.
TopsKept(B) == \A n \in B : nodes'[n].top = nodes[n].top
MarkedKept(t) == \A x \in Links : nodes[x].flag = t /\ nodes[x].full => nodes'[x].full /\ nodes'[x].next = nodes[x].next
MadeKept(B, A, t) ==
  /\ l[t].pc = "release" => nodes'[l[t].node].holder = nodes[l[t].node].holder
  /\ Unborn(l[t]) => LET n == l[t].node
                     IN /\ nodes'[n].holder = nodes[n].holder /\ nodes'[n].full = nodes[n].full
                        /\ nodes'[n].top = nodes[n].top /\ nodes'[n].next = nodes[n].next
                        /\ n \in A => n \in B
CutKept(t) == l[t].op = "erase" /\ l[t].pc = "store" =>
                nodes'[l[t].node].next = nodes[l[t].node].next /\ nodes'[l[t].node].full = nodes[l[t].node].full
OrderKept(B, g, A, h) == B \subseteq A /\ \A x, y \in Ground(B) : Bef(g, x, y) => Bef(h, x, y)
Kept(B, g, A, h, t) == TopsKept(B) /\ MarkedKept(t) /\ MadeKept(B, A, t) /\ CutKept(t) /\ OrderKept(B, g, A, h)

\* What fits a layer still does.
LEMMA FitKept == ASSUME NEW B, NEW A, TopsKept(B), B \subseteq A, NEW i, NEW n, Fit(B, i, n)
  PROVE  n \in Nodes => n \in A /\ i <= nodes'[n].top
BY DEF Fit, TopsKept

\* Where a place is settled, the thread has the mark of the previous node.
LEMMA SettledZone == ASSUME MarkInv, NEW t \in Threads, NEW j \in Settled(l[t])
  PROVE  j \in Zone(l[t]) /\ nodes[l[t].prevs[j]].flag = t /\ j \in Layers
<1>1. l[t].layer \in Int /\ Has(t)  BY MarkBasics DEF Locals, Layers, Marks
<1>2. j \in Layers /\ j <= l[t].top  BY DEF Settled
<1>3. CASE l[t].pc \in Walk /\ l[t].layer < j
  <2>1. From(l[t]) \in {l[t].layer, l[t].layer + 1}  BY <1>3 DEF From, Walk, Again
  <2>2. From(l[t]) <= j  BY <1>1, <1>2, <1>3, <2>1, LayerNat
  <2>3. j \in Zone(l[t])  BY <1>2, <2>2 DEF Zone
  <2> QED  BY <1>1, <1>2, <2>3 DEF Has
<1>4. CASE l[t].pc \in {"unlink", "store", "publish"}
  <2>1. From(l[t]) = 0  BY <1>4 DEF From, Change, Again
  <2>2. j \in Zone(l[t])  BY <1>2, <2>1, LayerNat DEF Zone
  <2> QED  BY <1>1, <1>2, <2>2 DEF Has
<1> QED  BY <1>3, <1>4 DEF Settled

LEMMA AgainZone == ASSUME NEW B, NEW g, ListInv(B, g), NEW t \in Threads, l[t].pc = "next" \/ Again(l[t])
                   PROVE l[t].layer \in Zone(l[t]) /\ nodes[l[t].cur].flag = t /\ nodes[l[t].cur].full /\ l[t].cur \in Links
<1>1. Has(t) /\ Good(B, g, t) /\ l[t] \in Locals /\ Sound(l[t])  BY Basics DEF Marks
<1>2. l[t].layer <= l[t].top /\ l[t].prevs[l[t].layer] = l[t].cur /\ nodes[l[t].cur].full  BY <1>1 DEF Good, Placing
<1>3. l[t].layer \in Layers /\ From(l[t]) = l[t].layer  BY <1>1 DEF Locals, From
<1>4. l[t].layer \in Zone(l[t])  BY <1>2, <1>3, LayerNat DEF Zone
<1>5. l[t].cur \in Links  BY <1>1 DEF Sound, Search, Again
<1> QED  BY <1>1, <1>2, <1>4, <1>5 DEF Has

\* An erase that searches has the mark of its node.
LEMMA EraserOwns == ASSUME NEW B, NEW g, ListInv(B, g), NEW t \in Threads, l[t].op = "erase",
                           l[t].pc \in Walk \cup {"linked", "start", "unlink", "store", "clear", "count", "scan", "top",
                           "restore", "unmark", "retire"}
                    PROVE nodes[l[t].node].flag = t /\ l[t].node \in Nodes /\ l[t].node \in Links /\
                          \A i \in Zone(l[t]) : l[t].prevs[i] # l[t].node
<1>1. Owns(t) /\ Sound(l[t])  BY Basics DEF Marks
<1>2. Own(l[t])  BY DEF Own, Walk
<1> QED  BY <1>1, <1>2 DEF Owns, Sound, Links
-----------------------------------------------------------------------------
\* What a thread relies on stays, step of another thread by step of another thread.
LEMMA FitGround == ASSUME NEW B, NEW i, NEW n \in Links, Fit(B, i, n) PROVE n \in Ground(B)
BY DEF Fit, Ground, Links

LEMMA EraserKept == ASSUME NEW B, NEW g, ListInv(B, g), NEW t \in Threads, MarkedKept(t), CutKept(t), l[t].op = "erase",
                           l[t].pc \in Walk \cup {"start", "unlink", "store"}
                    PROVE nodes'[l[t].node].next = nodes[l[t].node].next /\ (l[t].pc # "store" => nodes'[l[t].node].full)
<1>1. nodes[l[t].node].flag = t /\ l[t].node \in Links  BY EraserOwns
<1>2. Erasing(B, t)  BY Basics DEF Good
<1>3. CASE l[t].pc = "store"  BY <1>3 DEF CutKept
<1>4. CASE l[t].pc # "store"
  <2>1. nodes[l[t].node].full  BY <1>2, <1>4 DEF Erasing
  <2> QED  BY <1>1, <1>4, <2>1 DEF MarkedKept
<1> QED  BY <1>3, <1>4

LEMMA CandidateKept == ASSUME NEW B, NEW g, ListInv(B, g), NEW A, NEW h, NEW t \in Threads, l'[t] = l[t], Kept(B, g, A, h, t),
                              NEW j \in Layers, Candidate(B, t, j), l[t].op = "erase" => l[t].pc \in Walk \cup {"unlink",
                              "store"}
                       PROVE Candidate(A, t, j)'
<1>1. TopsKept(B) /\ B \subseteq A /\ MarkedKept(t) /\ CutKept(t)  BY DEF Kept, OrderKept
<1>2. Fit(A, j, l[t].nexts[j])'
  <2>1. Fit(B, j, l[t].nexts[j])  BY DEF Candidate
  <2> QED  BY <1>1, <2>1, FitKept DEF Fit
<1>3. l[t].op = "erase" => nodes'[l[t].node].next = nodes[l[t].node].next  BY <1>1, EraserKept
<1> QED  BY <1>2, <1>3 DEF Candidate

LEMMA MakingKept == ASSUME NEW B, NEW g, ListInv(B, g), NEW A, NEW h, NEW t \in Threads, l'[t] = l[t], Kept(B, g, A, h, t)
                    PROVE Named(t)' /\ Making(A, t)'
<1>1. Named(t) /\ Making(B, t) /\ MadeKept(B, A, t) /\ B \subseteq A  BY Basics DEF Good, Kept, OrderKept
<1>2. Named(t)'  BY <1>1 DEF Named
<1>3. Making(A, t)'  BY <1>1 DEF Making, MadeKept
<1> QED  BY <1>2, <1>3

LEMMA StandingKept == ASSUME NEW B, NEW g, ListInv(B, g), NEW A, NEW h, NEW t \in Threads, l'[t] = l[t], Kept(B, g, A, h, t)
                      PROVE Standing(A, h, t)' /\ Looking(A, t)' /\ Erasing(A, t)'
<1>1. Standing(B, g, t) /\ Looking(B, t) /\ Erasing(B, t) /\ Sound(l[t])  BY Basics DEF Good
<1>2. TopsKept(B) /\ B \subseteq A /\ MarkedKept(t) /\ CutKept(t) /\ OrderKept(B, g, A, h)  BY DEF Kept, OrderKept
<1>3. Standing(A, h, t)'
  <2> SUFFICES ASSUME l[t].pc \in Walk
               PROVE /\ l[t].cur # tail /\ Fit(A, l[t].layer, l[t].cur)'
                     /\ l[t].op \in {"insert", "find"} => Past(l[t].key, l[t].cur)
                     /\ l[t].op = "erase" => Bef(h, l[t].cur, l[t].node)
    BY DEF Standing
  <2>1. l[t].cur \in Links  BY <1>1 DEF Sound, Walk, Search
  <2>2. Fit(B, l[t].layer, l[t].cur)  BY <1>1 DEF Standing
  <2>3. Fit(A, l[t].layer, l[t].cur)'  BY <1>2, <2>2, FitKept DEF Fit
  <2>4. l[t].op = "erase" => Bef(h, l[t].cur, l[t].node)
    <3> HAVE l[t].op = "erase"
    <3>1. l[t].cur \in Ground(B)  BY <2>1, <2>2, FitGround
    <3>2. l[t].node \in Ground(B)  BY <1>1 DEF Erasing, Ground
    <3> QED  BY <1>1, <1>2, <3>1, <3>2 DEF OrderKept, Standing
  <2> QED  BY <1>1, <2>3, <2>4 DEF Standing
<1>4. Looking(A, t)'
  <2>1. l[t].pc \in Walk \ {"peek"} => Fit(A, l[t].layer, l[t].next)'  BY <1>1, <1>2, FitKept DEF Fit, Looking
  <2> QED  BY <1>1, <2>1 DEF Looking
<1>5. Erasing(A, t)'
  <2>1. l[t].op = "erase" /\ l[t].pc \in Walk \cup {"start", "unlink"} => nodes'[l[t].node].full  BY <1>2, EraserKept DEF Walk
  <2>2. l[t].op = "erase" /\ l[t].pc = "store" => ~nodes'[l[t].node].full  BY <1>1, <1>2 DEF Erasing, CutKept
  <2> QED  BY <1>1, <1>2, <2>1, <2>2 DEF Erasing, TopsKept
<1> QED  BY <1>3, <1>4, <1>5

LEMMA SeekingKept == ASSUME NEW B, NEW g, ListInv(B, g), NEW A, NEW h, NEW t \in Threads, l'[t] = l[t], Kept(B, g, A, h, t)
                     PROVE Seeking(h, t)'
<1>1. Seeking(g, t) /\ Looking(B, t) /\ Erasing(B, t) /\ Sound(l[t])  BY Basics DEF Good
<1>2. MarkedKept(t) /\ CutKept(t) /\ OrderKept(B, g, A, h)  BY DEF Kept
<1> SUFFICES ASSUME l[t].op = "erase", l[t].pc \in {"look", "hop"}
             PROVE Seeking(h, t)'
  BY DEF Seeking
<1>3. nodes'[l[t].node].next = nodes[l[t].node].next  BY <1>2, EraserKept DEF Walk
<1>4. l[t].next \in Ground(B)  BY <1>1, FitGround DEF Looking, Sound, Walk
<1>5. l[t].node \in Ground(B)  BY <1>1 DEF Erasing, Ground, Walk
<1>6. Bef(g, l[t].next, l[t].node) => Bef(h, l[t].next, l[t].node)  BY <1>2, <1>4, <1>5 DEF OrderKept
<1> QED  BY <1>1, <1>3, <1>6 DEF Seeking

LEMMA PlacingKept == ASSUME NEW B, NEW g, ListInv(B, g), NEW A, NEW h, NEW t \in Threads, l'[t] = l[t], Kept(B, g, A, h, t)
                     PROVE Placing(A, t)' /\ Seconding(t)'
<1>1. Placing(B, t) /\ Seconding(t) /\ l[t] \in Locals  BY Basics DEF Good
<1>2. MarkedKept(t) /\ MadeKept(B, A, t)  BY DEF Kept
<1>3. l[t].pc = "next" \/ Again(l[t]) => nodes'[l[t].cur].full /\ nodes'[l[t].cur].next = nodes[l[t].cur].next
  BY <1>2, AgainZone DEF MarkedKept
<1>4. l[t].pc \in {"try", "prev", "next"} \/ Again(l[t]) => Candidate(A, t, l[t].layer)'
  <2> HAVE l[t].pc \in {"try", "prev", "next"} \/ Again(l[t])
  <2>1. l[t].pc \in Walk  BY DEF Walk, Again
  <2>2. Candidate(B, t, l[t].layer)  BY <1>1 DEF Placing
  <2>3. \A j \in Layers : Candidate(B, t, j) => Candidate(A, t, j)'  BY <2>1, CandidateKept
  <2> QED  BY <1>1, <2>2, <2>3 DEF Locals
<1>5. Again(l[t]) /\ l[t].op = "insert" => nodes'[l[t].node].next = nodes[l[t].node].next
  BY <1>2 DEF MadeKept, Unborn, Again, Walk
<1>6. Placing(A, t)'  BY <1>1, <1>3, <1>4, <1>5 DEF Placing
<1>7. Seconding(t)'  BY <1>1, <1>3 DEF Seconding
<1> QED  BY <1>6, <1>7

LEMMA SettlesKept == ASSUME NEW B, NEW g, ListInv(B, g), NEW A, NEW h, NEW t \in Threads, l'[t] = l[t], Kept(B, g, A, h, t)
                     PROVE Settles(A, h, t)'
<1>1. Settles(B, g, t) /\ Making(B, t) /\ Erasing(B, t)  BY Basics DEF Good
<1>2. TopsKept(B) /\ B \subseteq A /\ MarkedKept(t) /\ CutKept(t) /\ OrderKept(B, g, A, h) /\ MadeKept(B, A, t)
  BY DEF Kept, OrderKept
<1> SUFFICES ASSUME NEW j \in Settled(l[t]) PROVE Pinned(A, h, t, j)'
  BY DEF Settles
<1>3. j \in Layers /\ nodes[l[t].prevs[j]].flag = t  BY Basics, SettledZone
<1>4. Pinned(B, g, t, j)  BY <1>1 DEF Settles
<1>5. nodes'[l[t].prevs[j]].full /\ nodes'[l[t].prevs[j]].next = nodes[l[t].prevs[j]].next
  BY <1>2, <1>3, <1>4 DEF MarkedKept, Pinned
<1>6. l[t].pc \in Walk \cup {"unlink", "store", "publish"}  BY DEF Settled
<1>7. Fit(A, j, l[t].prevs[j])'
  <2>1. Fit(B, j, l[t].prevs[j])  BY <1>4 DEF Pinned
  <2> QED  BY SMTT(40), <1>2, <2>1, FitKept DEF Fit
<1>8. Candidate(A, t, j)'
  <2>1. l[t].op = "erase" => l[t].pc \in Walk \cup {"unlink", "store"}  BY DEF Settled
  <2> QED  BY <1>3, <1>4, <2>1, CandidateKept DEF Pinned
<1>9. CASE l[t].op = "insert"
  <2>1. Unborn(l[t])  BY <1>9 DEF Unborn, Walk, Settled
  <2>2. nodes'[l[t].node].next = nodes[l[t].node].next  BY <1>2, <2>1 DEF MadeKept
  <2>3. l[t].pc = "publish" \/ (l[t].pc = "store" /\ l[t].layer > 0) => Bef(h, l[t].node, l[t].nexts[j])
    <3> HAVE l[t].pc = "publish" \/ (l[t].pc = "store" /\ l[t].layer > 0)
    <3>1. l[t].node \in B  BY <1>1, <2>1 DEF Making
    <3>2. Bef(g, l[t].node, l[t].nexts[j])  BY <1>4, <1>9 DEF Pinned
    <3>3. l[t].node \in Ground(B) /\ l[t].nexts[j] \in Ground(B)  BY <1>4, <3>1, FitGround DEF Pinned, Candidate, Ground
    <3> QED  BY <1>2, <3>2, <3>3 DEF OrderKept
  <2>4. Pinned(A, h, t, j)' <=> /\ l[t].prevs[j] \in Links \ {tail} /\ Fit(A, j, l[t].prevs[j])' /\ nodes'[l[t].prevs[j]].full /\ Candidate(A, t, j)'
                                /\ Past(l[t].key, l[t].prevs[j]) /\ nodes'[l[t].node].next[j] = l[t].nexts[j]
                                /\ nodes'[l[t].prevs[j]].next[j] = IF Inserted(l[t], j) THEN l[t].node ELSE l[t].nexts[j]
                                /\ l[t].pc = "publish" \/ (l[t].pc = "store" /\ l[t].layer > 0) => Bef(h, l[t].node, l[t].nexts[j])
    BY <1>9 DEF Pinned
  <2> QED  BY <1>4, <1>5, <1>7, <1>8, <1>9, <2>2, <2>3, <2>4 DEF Pinned
<1>10. CASE l[t].op # "insert"
  BY <1>4, <1>5, <1>7, <1>8, <1>10 DEF Pinned
<1> QED  BY <1>9, <1>10

LEMMA GoodFrame == ASSUME NEW B, NEW g, ListInv(B, g), NEW A, NEW h, NEW t \in Threads, l'[t] = l[t], Kept(B, g, A, h, t)
                   PROVE Good(A, h, t)'
BY MakingKept, StandingKept, SeekingKept, PlacingKept, SettlesKept DEF Good
-----------------------------------------------------------------------------
\* A step that changes no list and puts no node into a list or out of one.
Still == \A n \in Links : /\ nodes'[n].next = nodes[n].next /\ nodes'[n].full = nodes[n].full
                          /\ nodes'[n].top = nodes[n].top /\ nodes'[n].holder = nodes[n].holder
\* The other threads stay as they are.
Others(t) == \A u \in Threads : u # t => l'[u] = l[u]
\* Thread t has a node neither half linked nor after the step.
Whole(t) == \A i \in Layers : ~Half(l[t], i) /\ ~Half(l'[t], i)
\* Thread t makes no other node than before.
NoBirth(t) == Unborn(l'[t]) => Unborn(l[t]) /\ l'[t].node = l[t].node
NoneNew(t) == /\ NoBirth(t)
              /\ Cut(l'[t]) => Cut(l[t]) /\ l'[t].node = l[t].node

\* The same nodes are linked, with the same towers.
SameFull == \A n \in Links : nodes'[n].full = nodes[n].full /\ nodes'[n].top = nodes[n].top

\* Then the layers have the same members.
LEMMA InSame == ASSUME SameFull, NEW t \in Threads, Others(t), Whole(t), NEW i \in Layers PROVE In(i)' = In(i)
<1>1. \A u \in Threads : \/ l'[u].node = l[u].node /\ (Half(l'[u], i) <=> Half(l[u], i))
                         \/ ~Half(l'[u], i) /\ ~Half(l[u], i)
  BY DEF Others, Whole
<1>2. \A n \in Links : Member(i, n)' <=> Member(i, n)
  <2> SUFFICES ASSUME NEW n \in Links PROVE Member(i, n)' <=> Member(i, n)  OBVIOUS
  <2>1. nodes'[n].full = nodes[n].full /\ nodes'[n].top = nodes[n].top  BY DEF SameFull
  <2>2. (\E u \in Threads : l'[u].node = n /\ Half(l'[u], i)) <=> (\E u \in Threads : l[u].node = n /\ Half(l[u], i))  BY <1>1
  <2> QED  BY <2>1, <2>2 DEF Member
<1> QED  BY <1>2 DEF In

\* The lists are the same when they have the same members and next pointers.
LEMMA ListsKept == ASSUME NEW B, NEW g, Lists(B, g), \A i \in Layers : In(i)' = In(i),
                          \A x \in Ground(B) \cap Links : nodes'[x].next = nodes[x].next
                   PROVE Lists(B, g)'
<1> SUFFICES ASSUME NEW i \in Layers PROVE In(i)' \subseteq Ground(B) /\ \A x \in In(i)' \ {tail} : Chained(g, i, x)'
  BY DEF Lists
<1>1. In(i)' = In(i)  OBVIOUS
<1>2. In(i) \subseteq Ground(B)  BY DEF Lists
<1>3. ASSUME NEW x \in In(i) \ {tail} PROVE Chained(g, i, x)'
  <2>1. Chained(g, i, x) /\ x \in Links  BY <1>3 DEF Lists, In
  <2>2. nodes'[x].next = nodes[x].next  BY <1>2, <2>1
  <2> QED  BY <1>1, <2>1, <2>2 DEF Chained
<1> QED  BY <1>1, <1>2, <1>3

\* A still step keeps what the others rely on.
LEMMA StillKept == ASSUME NEW B, NEW g, ListInv(B, g), Still, NEW u \in Threads PROVE Kept(B, g, B, g, u)
<1>1. Sound(l[u]) /\ B \subseteq Nodes /\ Good(B, g, u)  BY Basics
<1>2. TopsKept(B) /\ MarkedKept(u)  BY <1>1 DEF TopsKept, MarkedKept, Still, Links
<1>3. l[u].op \in {"insert", "erase"} => l[u].node \in Links  BY <1>1 DEF Sound, Links
<1>4. MadeKept(B, B, u)  BY <1>1, <1>3 DEF MadeKept, Still, Unborn, Good, Named
<1>5. CutKept(u)  BY <1>3 DEF CutKept, Still
<1>6. OrderKept(B, g, B, g)  BY DEF OrderKept
<1> QED  BY <1>2, <1>4, <1>5, <1>6 DEF Kept

LEMMA AloneSame == ASSUME Alone, NEW t \in Threads, Others(t), NoneNew(t) PROVE Alone'
<1>1. \A u \in Threads : /\ Unborn(l'[u]) => Unborn(l[u]) /\ l'[u].node = l[u].node
                         /\ Cut(l'[u]) => Cut(l[u]) /\ l'[u].node = l[u].node
  BY DEF Others, NoneNew, NoBirth
<1> QED  BY <1>1 DEF Alone

LEMMA PendingSame == ASSUME NEW B, Pending(B), UNCHANGED todo, NEW t \in Threads, Others(t), NoBirth(t)
  PROVE  Pending(B)'
<1>1. \A u \in Threads : Unborn(l'[u]) => Unborn(l[u]) /\ l'[u].node = l[u].node
  BY DEF Others, NoBirth
<1> QED  BY <1>1 DEF Pending

LEMMA EndsSame == ASSUME Ends, Still PROVE Ends'
BY DEF Ends, Still, Links

\* A step of thread t keeps the invariant when it keeps what the others rely on and does its own part.
LEMMA ListStep == ASSUME NEW B, NEW g, ListInv(B, g), MarkInv', NEW t \in Threads, Others(t), NEW A, NEW h,
                         Order(A, h), Lists(A, h)', Ends', Pending(A)', Alone',
                         \A u \in Threads : u # t => Kept(B, g, A, h, u), Good(A, h, t)'
                  PROVE ListInv(A, h)'
<1>1. \A u \in Threads : u # t => Good(A, h, u)'  BY GoodFrame DEF Others
<1> QED  BY <1>1 DEF ListInv

\* A still step of thread t does, if the thread still has what it relies on.
LEMMA QuietStep == ASSUME NEW B, NEW g, ListInv(B, g), MarkInv', NEW t \in Threads, Others(t), Still, Whole(t),
                          NoneNew(t), UNCHANGED todo,
                          Good(B, g, t)'
                   PROVE ListInv(B, g)'
<1>1. Lists(B, g) /\ Alone /\ Pending(B) /\ Ends /\ Order(B, g)  BY Basics
<1>2. \A u \in Threads : u # t => Kept(B, g, B, g, u)  BY StillKept
<1>3. SameFull /\ \A x \in Ground(B) \cap Links : nodes'[x].next = nodes[x].next  BY DEF Still, SameFull
<1>4. Lists(B, g)'  BY <1>1, <1>3, InSame, ListsKept
<1>5. Alone' /\ Pending(B)' /\ Ends'  BY <1>1, AloneSame, PendingSame, EndsSame DEF NoneNew
<1> QED  BY <1>1, <1>2, <1>4, <1>5, ListStep
-----------------------------------------------------------------------------
\* The thread is at p, and its other locals are those of r.
Stands(t, p, r) ==
  /\ l'[t].pc = p /\ l'[t].op = r.op /\ l'[t].node = r.node /\ l'[t].key = r.key /\ l'[t].top = r.top
  /\ l'[t].layer = r.layer /\ l'[t].cur = r.cur /\ l'[t].next = r.next /\ l'[t].found = r.found
  /\ l'[t].again = r.again /\ l'[t].then = r.then /\ l'[t].answer = r.answer
  /\ l'[t].prevs = r.prevs /\ l'[t].nexts = r.nexts

\* What Goto does to the thread.
LEMMA Moves == ASSUME TypeOK, NEW t \in Threads, NEW p \in PCs \ {"idle"}, NEW r \in Locals, Goto(t, p, r)
               PROVE Stands(t, p, r) /\ Others(t)
BY DEF Goto, TypeOK, Locals, Stands, Others

LEMMA MovesIdle == ASSUME TypeOK, NEW t \in Threads, NEW r, Goto(t, "idle", r) PROVE l'[t] = Idle /\ Others(t)
BY DEF Goto, TypeOK, Others

\* The flags and the removed bits are no part of the lists.
LEMMA PutStill == ASSUME TypeOK, NEW n, NEW v, Put(n, "flag", v) \/ Put(n, "removed", v) PROVE Still
<1>1. CASE Put(n, "flag", v)  BY <1>1 DEF Still, TypeOK, NodeRec, Put
<1>2. CASE Put(n, "removed", v)  BY <1>2 DEF Still, TypeOK, NodeRec, Put
<1> QED  BY <1>1, <1>2

LEMMA SameStill == ASSUME UNCHANGED nodes PROVE Still
BY DEF Still

-----------------------------------------------------------------------------
\* Where a thread relies on nothing in the lists.
Resting == {"idle", "removed", "mark", "retire", "linked", "restore", "unmark", "start", "answer", "count", "scan", "top", "clear"}
SameCall(t) == l'[t].op = l[t].op /\ l'[t].node = l[t].node /\ l'[t].key = l[t].key

\* A thread that rests needs little, ...
LEMMA RestGood == ASSUME NEW B, NEW g, NEW t \in Threads, l'[t].pc \in Resting \cup {"release"}, Named(t)', Making(B, t)',
                         l'[t].op = "erase" /\ l'[t].pc = "start" => l'[t].node \in B /\ nodes'[l'[t].node].full
                  PROVE Good(B, g, t)'
<1>1. l'[t].pc \notin Walk /\ l'[t].pc \notin {"unlink", "store", "publish"}  BY DEF Resting, Walk
<1>2. ~Again(l'[t]) /\ Settled(l'[t]) = {}  BY <1>1 DEF Again, Settled, Walk
<1>3. Standing(B, g, t)' /\ Looking(B, t)' /\ Erasing(B, t)'  BY <1>1 DEF Standing, Looking, Erasing, Walk
<1>4. Seeking(g, t)' /\ Placing(B, t)' /\ Seconding(t)' /\ Settles(B, g, t)'
  BY <1>1, <1>2 DEF Seeking, Placing, Seconding, Settles, Walk
<1> QED  BY <1>3, <1>4 DEF Good

LEMMA WholeRest == ASSUME NEW t \in Threads, l[t].pc \notin {"store", "publish"}, l'[t].pc \notin {"store", "publish"}
  PROVE  Whole(t)
BY DEF Whole, Half, Inserted, Cutting

\* ... and one that goes from rest to rest keeps the invariant.
LEMMA QuietRest ==
  ASSUME NEW B, NEW g, ListInv(B, g), MarkInv', NEW t \in Threads, Others(t), Still, UNCHANGED todo,
         l[t].pc \notin {"store", "publish"}, l'[t].pc \in Resting,
         Unborn(l'[t]) => Unborn(l[t]) /\ l'[t].top = l[t].top, Cut(l'[t]) => Cut(l[t]),
         l'[t] = Idle \/ (l'[t].pc # "idle" /\ l[t].pc # "idle" /\ SameCall(t)),
         l'[t].pc = "clear" /\ l'[t].then = "start" => l'[t].op = "insert",
         l'[t].op = "erase" /\ l'[t].pc = "start" => nodes[l[t].node].full
  PROVE ListInv(B, g)'
<1>1. Sound(l[t]) /\ Named(t) /\ Making(B, t)  BY Basics DEF Good
<1>2. Whole(t)  BY WholeRest DEF Resting
<1>3. ~Unborn(Idle) /\ ~Cut(Idle) /\ Idle.pc = "idle" /\ Idle.op = "none"  BY DEF Idle, Unborn, Cut
<1>4. NoneNew(t)  BY <1>3 DEF NoneNew, NoBirth, SameCall
<1>5. Named(t)'  BY <1>1, <1>3 DEF Named, SameCall, Resting
<1>6. Making(B, t)'
  <2> SUFFICES ASSUME Unborn(l'[t]) PROVE Making(B, t)'  BY DEF Making, Resting
  <2>1. Unborn(l[t]) /\ SameCall(t)  BY <1>3
  <2>2. l[t].node \in Links  BY <1>1, <2>1 DEF Sound, Unborn, Links
  <2> QED  BY <1>1, <2>1, <2>2 DEF Making, SameCall, Still, Resting
<1>7. l'[t].op = "erase" /\ l'[t].pc = "start" => l'[t].node \in B /\ nodes'[l'[t].node].full
  <2> HAVE l'[t].op = "erase" /\ l'[t].pc = "start"
  <2>1. SameCall(t) /\ l[t].node \in Nodes  BY <1>1, <1>3 DEF SameCall, Sound
  <2> QED  BY <2>1, FullBorn DEF SameCall, Still, Links
<1> QED  BY <1>2, <1>4, <1>5, <1>6, <1>7, RestGood, QuietStep

-----------------------------------------------------------------------------
\* The steps of an erase before its search.
LEMMA RemovedList == ASSUME NEW B, NEW g, ListInv(B, g), MarkInv', NEW t \in Threads, Removed(t) PROVE ListInv(B, g)'
<1>1. TypeOK /\ Sound(l[t]) /\ l[t] \in Locals /\ At(t, "removed")  BY Basics DEF Removed
<1>2. PICK p \in {"idle", "mark"} : Goto(t, p, l[t])  BY DEF Removed
<1>3. Others(t) /\ (l'[t] = Idle \/ Stands(t, "mark", l[t]))  BY <1>1, <1>2, Moves, MovesIdle DEF PCs
<1>4. Still /\ UNCHANGED todo  BY SameStill DEF Removed, Shared, Fixed
<1>5. ~Unborn(l'[t]) /\ ~Cut(l'[t]) /\ l'[t].pc \in {"idle", "mark"}  BY <1>3 DEF Unborn, Cut, Stands, Walk, Idle
<1> QED  BY <1>1, <1>3, <1>4, <1>5, QuietRest DEF Stands, SameCall, At, Resting

LEMMA MarkList == ASSUME NEW B, NEW g, ListInv(B, g), MarkInv', NEW t \in Threads, Mark(t) PROVE ListInv(B, g)'
<1>1. TypeOK /\ Sound(l[t]) /\ l[t] \in Locals /\ At(t, "mark")  BY Basics DEF Mark
<1>2. l[t].op = "erase" /\ l[t].node \in Nodes  BY <1>1 DEF Sound, At
<1>3. UNCHANGED todo  BY DEF Mark
<1>4. CASE nodes[l[t].node].flag # None
  <2> DEFINE r == [l[t] EXCEPT !.top = nodes[l[t].node].top]
  <2>1. Goto(t, "removed", r) /\ UNCHANGED nodes  BY <1>4 DEF Mark
  <2>2. r \in Locals  BY <1>1, <1>2, SetTopLayer DEF TypeOK, NodeRec, Links
  <2>3. r.op = l[t].op /\ r.node = l[t].node /\ r.key = l[t].key  BY <1>1 DEF Locals
  <2> HIDE DEF r
  <2>4. Stands(t, "removed", r) /\ Others(t)  BY <1>1, <2>1, <2>2, Moves DEF PCs
  <2>5. SameCall(t) /\ l'[t].pc = "removed"  BY <2>3, <2>4 DEF Stands, SameCall
  <2>6. ~Unborn(l'[t]) /\ ~Cut(l'[t])  BY <2>5 DEF Unborn, Cut, Walk
  <2> QED  BY <1>1, <1>3, <2>1, <2>4, <2>5, <2>6, SameStill, QuietRest DEF At, Resting
<1>5. CASE nodes[l[t].node].flag = None
  <2>1. Goto(t, "retire", l[t]) /\ Put(l[t].node, "flag", t)  BY <1>5 DEF Mark
  <2>2. Stands(t, "retire", l[t]) /\ Others(t) /\ Still  BY <1>1, <2>1, Moves, PutStill DEF PCs
  <2>3. SameCall(t) /\ l'[t].pc = "retire"  BY <2>2 DEF Stands, SameCall
  <2>4. ~Unborn(l'[t]) /\ ~Cut(l'[t])  BY <2>3 DEF Unborn, Cut, Walk
  <2> QED  BY <1>1, <1>3, <2>2, <2>3, <2>4, QuietRest DEF At, Resting
<1> QED  BY <1>4, <1>5

LEMMA RetireList == ASSUME NEW B, NEW g, ListInv(B, g), MarkInv', NEW t \in Threads, Retire(t) PROVE ListInv(B, g)'
<1>1. TypeOK /\ l[t] \in Locals /\ At(t, "retire")  BY Basics DEF Retire
<1>2. Goto(t, "linked", l[t]) /\ Put(l[t].node, "removed", TRUE) /\ UNCHANGED todo  BY DEF Retire
<1>3. Stands(t, "linked", l[t]) /\ Others(t) /\ Still  BY <1>1, <1>2, Moves, PutStill DEF PCs
<1>4. SameCall(t) /\ l'[t].pc = "linked"  BY <1>3 DEF Stands, SameCall
<1>5. ~Unborn(l'[t]) /\ ~Cut(l'[t])  BY <1>4 DEF Unborn, Cut, Walk
<1> QED  BY <1>1, <1>2, <1>3, <1>4, <1>5, QuietRest DEF At, Resting

LEMMA LinkedList == ASSUME NEW B, NEW g, ListInv(B, g), MarkInv', NEW t \in Threads, Linked(t) PROVE ListInv(B, g)'
<1>1. TypeOK /\ Sound(l[t]) /\ l[t] \in Locals /\ At(t, "linked")  BY Basics DEF Linked
<1>2. PICK p \in {"start", "restore"} : Goto(t, p, l[t]) /\ (p = "start" => IsLinked(l[t].node))  BY DEF Linked
<1>3. Stands(t, p, l[t]) /\ Others(t)  BY <1>1, <1>2, Moves DEF PCs
<1>4. Still /\ UNCHANGED todo  BY SameStill DEF Linked, Shared, Fixed
<1>5. l[t].op = "erase"  BY <1>1 DEF Sound, At
<1>6. SameCall(t) /\ l'[t].pc = p  BY <1>3 DEF Stands, SameCall
<1>7. ~Unborn(l'[t]) /\ ~Cut(l'[t])  BY <1>2, <1>5, <1>6 DEF Unborn, Cut, SameCall
<1> QED  BY <1>1, <1>2, <1>3, <1>4, <1>6, <1>7, QuietRest DEF At, Resting, IsLinked

LEMMA RestoreList == ASSUME NEW B, NEW g, ListInv(B, g), MarkInv', NEW t \in Threads, Restore(t) PROVE ListInv(B, g)'
<1>1. TypeOK /\ l[t] \in Locals /\ At(t, "restore")  BY Basics DEF Restore
<1>2. Goto(t, "unmark", l[t]) /\ Put(l[t].node, "removed", FALSE) /\ UNCHANGED todo  BY DEF Restore
<1>3. Stands(t, "unmark", l[t]) /\ Others(t) /\ Still  BY <1>1, <1>2, Moves, PutStill DEF PCs
<1>4. SameCall(t) /\ l'[t].pc = "unmark"  BY <1>3 DEF Stands, SameCall
<1>5. ~Unborn(l'[t]) /\ ~Cut(l'[t])  BY <1>4 DEF Unborn, Cut, Walk
<1> QED  BY <1>1, <1>2, <1>3, <1>4, <1>5, QuietRest DEF At, Resting

LEMMA IdleRests == Idle.pc = "idle" /\ Idle.op = "none" /\ ~Unborn(Idle) /\ ~Cut(Idle) /\ "idle" \in Resting
BY DEF Idle, Unborn, Cut, Resting

LEMMA UnmarkList == ASSUME NEW B, NEW g, ListInv(B, g), MarkInv', NEW t \in Threads, Unmark(t) PROVE ListInv(B, g)'
<1>1. TypeOK /\ At(t, "unmark")  BY Basics DEF Unmark
<1>2. Goto(t, "idle", l[t]) /\ Put(l[t].node, "flag", None) /\ UNCHANGED todo  BY DEF Unmark
<1>3. l'[t] = Idle /\ Others(t) /\ Still  BY <1>1, <1>2, MovesIdle, PutStill
<1> QED  BY <1>1, <1>2, <1>3, IdleRests, QuietRest DEF At

LEMMA ReturnList == ASSUME NEW B, NEW g, ListInv(B, g), MarkInv', NEW t \in Threads, Return(t) PROVE ListInv(B, g)'
<1>1. TypeOK /\ At(t, "answer")  BY Basics DEF Return
<1>2. Goto(t, "idle", l[t]) /\ UNCHANGED nodes /\ UNCHANGED todo  BY DEF Return
<1>3. l'[t] = Idle /\ Others(t) /\ Still  BY <1>1, <1>2, MovesIdle, SameStill
<1> QED  BY <1>1, <1>2, <1>3, IdleRests, QuietRest DEF At

\* An answer, and the count of the layers in use.
LEMMA AnswerList == ASSUME NEW B, NEW g, ListInv(B, g), MarkInv', NEW t \in Threads, Answer(t) PROVE ListInv(B, g)'
<1> DEFINE m == IF l[t].cur = head THEN None ELSE l[t].cur
           r == [l[t] EXCEPT !.answer = m]
<1>1. TypeOK /\ Sound(l[t]) /\ l[t] \in Locals /\ At(t, "look")  BY Basics DEF Answer, First, Answers
<1>2. Goto(t, "answer", r) /\ UNCHANGED <<nodes, todo>> /\ l[t].op = "find"  BY DEF Answer, Fixed
<1>3. r \in Locals  BY <1>1, SetAnswer DEF Sound, Search, At
<1>4. r.op = l[t].op /\ r.node = l[t].node /\ r.key = l[t].key  BY <1>1 DEF Locals
<1> HIDE DEF r, m
<1>5. Stands(t, "answer", r) /\ Others(t) /\ Still  BY <1>1, <1>2, <1>3, Moves, SameStill DEF PCs
<1>6. SameCall(t) /\ l'[t].pc = "answer"  BY <1>4, <1>5 DEF Stands, SameCall
<1>7. ~Unborn(l'[t]) /\ ~Cut(l'[t])  BY <1>2, <1>6 DEF Unborn, Cut, SameCall
<1> QED  BY <1>1, <1>2, <1>5, <1>6, <1>7, QuietRest DEF At, Resting

LEMMA CountList == ASSUME NEW B, NEW g, ListInv(B, g), MarkInv', NEW t \in Threads, Count(t) PROVE ListInv(B, g)'
<1> DEFINE r == [l[t] EXCEPT !.layer = MaxLayer - 1]
<1>1. TypeOK /\ l[t] \in Locals /\ At(t, "count")  BY Basics DEF Count
<1>2. Goto(t, "scan", r) /\ UNCHANGED <<nodes, todo>>  BY DEF Count
<1>3. r \in Locals  BY <1>1, SetLayer, ListAssumption DEF Layers
<1>4. r.op = l[t].op /\ r.node = l[t].node /\ r.key = l[t].key  BY <1>1 DEF Locals
<1> HIDE DEF r
<1>5. Stands(t, "scan", r) /\ Others(t) /\ Still  BY <1>1, <1>2, <1>3, Moves, SameStill DEF PCs
<1>6. SameCall(t) /\ l'[t].pc = "scan"  BY <1>4, <1>5 DEF Stands, SameCall
<1>7. ~Unborn(l'[t]) /\ (Cut(l'[t]) => Cut(l[t]))  BY <1>1, <1>6 DEF Unborn, Cut, SameCall, Walk, At
<1> QED  BY <1>1, <1>2, <1>5, <1>6, <1>7, QuietRest DEF At, Resting

-----------------------------------------------------------------------------
\* The ways out of a call: the marks go, one by one.
LEMMA ClearFromList ==
  ASSUME NEW B, NEW g, ListInv(B, g), MarkInv', NEW t \in Threads, NEW i \in Nat, NEW p \in PCs, NEW less, ClearFrom(t,
         i, p, less),
         Still, UNCHANGED todo, l[t].pc \notin {"store", "publish", "idle"},
         \/ p = "start" /\ l[t].op = "find"
         \/ p = "start" /\ l[t].op = "insert" /\ Unborn(l[t])
         \/ p = "linked" /\ l[t].op = "erase"
         \/ p = "idle" /\ l[t].op = "insert"
         \/ p = "unmark" /\ l[t].op = "erase" /\ Cut(l[t])
  PROVE ListInv(B, g)'
<1>1. TypeOK /\ Sound(l[t]) /\ l[t] \in Locals  BY Basics
<1>2. CASE i > l[t].top /\ p = "idle"
  <2>1. l'[t] = Idle /\ Others(t)  BY <1>1, <1>2, MovesIdle DEF ClearFrom
  <2> QED  BY <2>1, IdleRests, QuietRest
<1>3. CASE i > l[t].top /\ p # "idle"
  <2>1. Stands(t, p, l[t]) /\ Others(t)  BY <1>1, <1>3, Moves DEF ClearFrom
  <2>2. SameCall(t) /\ l'[t].pc = p /\ l'[t].top = l[t].top /\ p \in {"start", "linked", "unmark"}
    BY <1>3, <2>1 DEF Stands, SameCall
  <2>3. (Unborn(l'[t]) => Unborn(l[t])) /\ (Cut(l'[t]) => Cut(l[t]))  BY <2>2 DEF Unborn, Cut, SameCall, Walk
  <2> QED  BY <2>1, <2>2, <2>3, QuietRest DEF Resting, SameCall
<1>4. CASE ~(i > l[t].top)
  <2> DEFINE r == [l[t] EXCEPT !.layer = i, !.then = p]
  <2>1. Goto(t, "clear", r)  BY <1>4 DEF ClearFrom
  <2>2. l[t].top \in Layers /\ i \in Layers /\ l[t].op \in {"insert", "erase"}
    BY <1>1, <1>4, ListAssumption DEF Locals, Layers, Sound
  <2>3. r \in Locals  BY <1>1, <2>2, SetClear
  <2>4. r.op = l[t].op /\ r.node = l[t].node /\ r.top = l[t].top /\ r.key = l[t].key /\ r.then = p  BY <1>1 DEF Locals
  <2> HIDE DEF r
  <2>5. Stands(t, "clear", r) /\ Others(t)  BY <1>1, <2>1, <2>3, Moves DEF PCs
  <2>6. SameCall(t) /\ l'[t].pc = "clear" /\ l'[t].then = p /\ l'[t].top = l[t].top  BY <2>4, <2>5 DEF Stands, SameCall
  <2>7. (Unborn(l'[t]) => Unborn(l[t])) /\ (Cut(l'[t]) => Cut(l[t]))  BY <2>2, <2>6 DEF Unborn, Cut, SameCall, Walk
  <2> QED  BY <2>2, <2>5, <2>6, <2>7, QuietRest DEF Resting, SameCall
<1> QED  BY <1>2, <1>3, <1>4

\* The end of a call.
LEMMA FinishList == ASSUME NEW B, NEW g, ListInv(B, g), MarkInv', NEW t \in Threads, Finish(t), UNCHANGED <<nodes,
                           todo>>, l[t].pc \in {"scan", "top"}
                    PROVE ListInv(B, g)'
<1>1. Sound(l[t])  BY Basics
<1>2. l[t].op \in {"insert", "erase"}  BY <1>1 DEF Sound, Change
<1>3. CASE l[t].op = "insert"
  <2>1. ClearFrom(t, 0, "idle", {}) /\ "idle" \in PCs  BY <1>3 DEF Finish, PCs
  <2> QED  BY <1>3, <2>1, SameStill, ClearFromList
<1>4. CASE l[t].op = "erase"
  <2>1. ClearFrom(t, 0, "unmark", {}) /\ "unmark" \in PCs  BY <1>4 DEF Finish, PCs
  <2>2. Cut(l[t])  BY <1>4 DEF Cut
  <2> QED  BY <1>4, <2>1, <2>2, SameStill, ClearFromList
<1> QED  BY <1>2, <1>3, <1>4

LEMMA ScanList == ASSUME NEW B, NEW g, ListInv(B, g), MarkInv', NEW t \in Threads, Scan(t) PROVE ListInv(B, g)'
<1>1. TypeOK /\ l[t] \in Locals /\ l[t].pc = "scan" /\ UNCHANGED <<nodes, todo>>  BY Basics DEF Scan, At, Fixed
<1>2. CASE Finish(t)  BY <1>1, <1>2, FinishList
<1>3. CASE ~Finish(t)
  <2>1. PICK r \in Locals, p \in {"top", "scan"} : Goto(t, p, r) /\ r.op = l[t].op /\ r.node = l[t].node /\ r.key = l[t].key
    <3>1. CASE Goto(t, "top", l[t])  BY <1>1, <3>1
    <3>2. CASE l[t].layer > 0 /\ Goto(t, "scan", [l[t] EXCEPT !.layer = @ - 1])
      <4>1. l[t].layer - 1 \in Layers  BY <1>1, <3>2, ListAssumption DEF Locals, Layers
      <4>2. [l[t] EXCEPT !.layer = @ - 1] \in Locals  BY <1>1, <4>1, SetLayer
      <4> QED  BY <1>1, <3>2, <4>2 DEF Locals
    <3> QED  BY <1>3, <3>1, <3>2 DEF Scan
  <2>2. Stands(t, p, r) /\ Others(t)  BY <1>1, <2>1, Moves DEF PCs
  <2>3. SameCall(t) /\ l'[t].pc = p  BY <2>1, <2>2 DEF Stands, SameCall
  <2>4. ~Unborn(l'[t]) /\ (Cut(l'[t]) => Cut(l[t]))  BY <1>1, <2>1, <2>3 DEF Unborn, Cut, SameCall, Walk
  <2> QED  BY <1>1, <2>1, <2>2, <2>3, <2>4, SameStill, QuietRest DEF Resting
<1> QED  BY <1>2, <1>3

LEMMA SetTopList == ASSUME NEW B, NEW g, ListInv(B, g), MarkInv', NEW t \in Threads, SetTop(t) PROVE ListInv(B, g)'
BY FinishList DEF SetTop, At

LEMMA ClearList == ASSUME NEW B, NEW g, ListInv(B, g), MarkInv', NEW t \in Threads, Clear(t) PROVE ListInv(B, g)'
<1> DEFINE i == l[t].layer
           r == [l[t] EXCEPT !.layer = @ + 1]
<1>1. TypeOK /\ l[t] \in Locals /\ Sound(l[t]) /\ Named(t) /\ l[t].pc = "clear" /\ UNCHANGED todo  BY Basics DEF Clear, At, Good
<1>2. Still  BY <1>1, SameStill, PutStill DEF Clear
<1>3. CASE i < l[t].top
  <2>1. Goto(t, "clear", r)  BY <1>3 DEF Clear
  <2>2. r \in Locals
    <3>1. l[t].layer + 1 \in Layers  BY <1>1, <1>3, ListAssumption DEF Locals, Layers
    <3> QED  BY <1>1, <3>1, SetLayer
  <2>3. r.op = l[t].op /\ r.node = l[t].node /\ r.key = l[t].key /\ r.top = l[t].top /\ r.then = l[t].then  BY <1>1 DEF Locals
  <2> HIDE DEF r, i
  <2>4. Stands(t, "clear", r) /\ Others(t)  BY <1>1, <2>1, <2>2, Moves DEF PCs
  <2>5. SameCall(t) /\ l'[t].pc = "clear" /\ l'[t].top = l[t].top /\ l'[t].then = l[t].then  BY <2>3, <2>4 DEF Stands, SameCall
  <2>6. (Unborn(l'[t]) => Unborn(l[t])) /\ (Cut(l'[t]) => Cut(l[t]))  BY <1>1, <2>5 DEF Unborn, Cut, SameCall
  <2> QED  BY <1>1, <1>2, <2>4, <2>5, <2>6, QuietRest DEF Resting, Named, SameCall
<1>4. CASE ~(i < l[t].top)
  <2>1. Goto(t, l[t].then, l[t])  BY <1>4 DEF Clear
  <2> HIDE DEF i
  <2>2. CASE l[t].then = "idle"
    <3>1. l'[t] = Idle /\ Others(t)  BY <1>1, <2>1, <2>2, MovesIdle
    <3> QED  BY <1>1, <1>2, <3>1, IdleRests, QuietRest
  <2>3. CASE l[t].then # "idle"
    <3>1. l[t].then \in {"start", "linked", "unmark"}  BY <1>1, <2>3 DEF Sound
    <3>2. Stands(t, l[t].then, l[t]) /\ Others(t)  BY <1>1, <2>1, <3>1, Moves DEF PCs
    <3>3. SameCall(t) /\ l'[t].pc = l[t].then /\ l'[t].top = l[t].top  BY <3>2 DEF Stands, SameCall
    <3>4. l[t].then = "start" => l[t].op = "insert"  BY <1>1 DEF Named
    <3>5. (Unborn(l'[t]) => Unborn(l[t])) /\ ~Cut(l'[t])  BY <1>1, <2>3, <3>1, <3>3 DEF Unborn, Cut, SameCall
    <3> QED  BY <1>1, <1>2, <3>1, <3>2, <3>3, <3>4, <3>5, QuietRest DEF Resting, SameCall
  <2> QED  BY <2>2, <2>3
<1> QED  BY <1>3, <1>4
-----------------------------------------------------------------------------
\* The descent.
LEMMA WalkBasics == ASSUME NEW B, NEW g, ListInv(B, g), NEW t \in Threads, l[t].pc \in Walk
                    PROVE /\ TypeOK /\ l[t] \in Locals /\ Sound(l[t]) /\ Good(B, g, t) /\
                             l[t].op \in {"insert", "erase", "find"}
                          /\ l[t].cur \in Links /\ l[t].layer \in Layers /\ Fit(B, l[t].layer, l[t].cur) /\ l[t].cur # tail
                          /\ nodes[l[t].cur].full => l[t].cur \in In(l[t].layer)
                          /\ l[t].op = "erase" => /\ l[t].node \in B /\ l[t].node \in Nodes /\ l[t].key = Key[l[t].node]
                                                  /\ nodes[l[t].node].full /\ nodes[l[t].node].flag = t
                                                  /\ nodes[l[t].node].top = l[t].top
                                                  /\ l[t].layer <= l[t].top => l[t].node \in In(l[t].layer)
<1>1. TypeOK /\ l[t] \in Locals /\ Sound(l[t]) /\ Good(B, g, t)  BY Basics
<1>2. l[t].op \in {"insert", "erase", "find"}  BY <1>1 DEF Good, Named, Locals, Walk
<1>3. l[t].cur \in Links /\ l[t].layer \in Layers  BY <1>1 DEF Locals, Sound, Walk, Search
<1>4. Fit(B, l[t].layer, l[t].cur) /\ l[t].cur # tail  BY <1>1 DEF Good, Standing
<1>5. nodes[l[t].cur].full => l[t].cur \in In(l[t].layer)  BY <1>3, <1>4, FullIn
<1>6. l[t].op = "erase" => /\ l[t].node \in B /\ l[t].node \in Nodes /\ l[t].key = Key[l[t].node] /\
                              nodes[l[t].node].full /\ nodes[l[t].node].flag = t
                           /\ nodes[l[t].node].top = l[t].top
  BY <1>1, EraserOwns DEF Good, Erasing, Sound, Named
<1>7. l[t].op = "erase" /\ l[t].layer <= l[t].top => l[t].node \in In(l[t].layer)  BY <1>3, <1>6 DEF In, Member, Links
<1> QED  BY <1>1, <1>2, <1>3, <1>4, <1>5, <1>6, <1>7

LEMMA NextBasics == ASSUME NEW B, NEW g, ListInv(B, g), NEW t \in Threads, l[t].pc \in {"look", "hop"}
                    PROVE /\ l[t].next \in Links /\ l[t].next # head /\ l[t].next \in Ground(B) /\ Fit(B, l[t].layer, l[t].next)
                          /\ nodes[l[t].next].full => l[t].next \in In(l[t].layer)
<1>1. Sound(l[t]) /\ Looking(B, t)  BY Basics DEF Good
<1>2. l[t].next \in Links /\ l[t].next # head /\ Fit(B, l[t].layer, l[t].next)  BY <1>1 DEF Sound, Looking, Walk
<1>3. l[t].layer \in Layers  BY Basics DEF Locals
<1> QED  BY <1>2, <1>3, FitGround, FullIn

\* A still step from one point of a search to another one.
LEMMA QuietWalk ==
  ASSUME NEW B, NEW g, ListInv(B, g), MarkInv', NEW t \in Threads, Others(t), Still, UNCHANGED todo,
         l[t].pc \in Walk \cup {"start"}, l'[t].pc \in Walk, SameCall(t), l'[t].top = l[t].top,
         l[t].op = "erase" /\ l[t].pc = "start" => nodes[l[t].node].top = l[t].top,
         Standing(B, g, t)', Looking(B, t)', Seeking(g, t)', Placing(B, t)', Seconding(t)', Settles(B, g, t)'
  PROVE ListInv(B, g)'
<1>1. Sound(l[t]) /\ Named(t) /\ Making(B, t) /\ Erasing(B, t)  BY Basics DEF Good
<1>2. l[t].pc \notin {"idle", "store", "publish", "clear", "release", "unlink", "crash"} /\
      l'[t].pc \notin {"idle", "store", "publish", "clear", "release", "unlink", "crash"}
  BY DEF Walk
<1>3. Whole(t)  BY <1>2, WholeRest
<1>4. NoneNew(t)  BY <1>2 DEF NoneNew, NoBirth, SameCall, Unborn, Cut, Walk
<1>5. Named(t)'  BY <1>1, <1>2 DEF Named, SameCall
<1>6. Making(B, t)'
  <2> SUFFICES ASSUME Unborn(l'[t]) PROVE Making(B, t)'  BY <1>2 DEF Making
  <2>1. Unborn(l[t]) /\ SameCall(t)  BY <1>4 DEF NoneNew, NoBirth
  <2>2. l[t].node \in Links  BY <1>1, <2>1 DEF Sound, Unborn, Links
  <2> QED  BY <1>1, <1>2, <2>1, <2>2 DEF Making, SameCall, Still
<1>7. Erasing(B, t)'
  <2>1. l[t].op = "erase" => l[t].node \in Links  BY <1>1 DEF Sound, Links
  <2> QED  BY <1>1, <1>2, <2>1 DEF Erasing, SameCall, Still
<1> QED  BY <1>3, <1>4, <1>5, <1>6, <1>7, QuietStep DEF Good

\* What stays when the thread stays where it stands.
LEMMA StandingSame == ASSUME NEW B, NEW g, ListInv(B, g), NEW t \in Threads, Still, SameCall(t), l[t].pc \in Walk,
                             l'[t].layer = l[t].layer, l'[t].cur = l[t].cur
                      PROVE Standing(B, g, t)'
<1>1. Standing(B, g, t) /\ l[t].cur \in Links  BY WalkBasics DEF Good
<1>2. Fit(B, l[t].layer, l[t].cur)'  BY <1>1 DEF Standing, Fit, Still
<1> QED  BY <1>1, <1>2 DEF Standing, SameCall

\* The layers above are settled as before.
LEMMA SettlesSame == ASSUME NEW B, NEW g, ListInv(B, g), NEW t \in Threads, Still, SameCall(t), l[t].pc \in Walk,
                            l'[t].pc \in Walk,
                            \A j \in Settled(l'[t]) : j \in Settled(l[t]) /\ l'[t].prevs[j] = l[t].prevs[j] /\ l'[t].nexts[j] = l[t].nexts[j]
                     PROVE Settles(B, g, t)'
<1>1. Settles(B, g, t) /\ Sound(l[t])  BY Basics DEF Good
<1> SUFFICES ASSUME NEW j \in Settled(l'[t]) PROVE Pinned(B, g, t, j)'
  BY DEF Settles
<1>2. Pinned(B, g, t, j) /\ l'[t].prevs[j] = l[t].prevs[j] /\ l'[t].nexts[j] = l[t].nexts[j]  BY <1>1 DEF Settles
<1>3. l[t].prevs[j] \in Links /\ l[t].nexts[j] \in Links  BY <1>2 DEF Pinned, Candidate
<1>4. l[t].op \in {"insert", "erase"} => l[t].node \in Links  BY <1>1 DEF Sound, Links
<1>5. Fit(B, j, l[t].prevs[j])'
  <2>1. Fit(B, j, l[t].prevs[j])  BY <1>2 DEF Pinned
  <2> QED  BY <1>2, <1>3, <2>1 DEF Fit, Still
<1>6. Candidate(B, t, j)'
  <2>1. Fit(B, j, l[t].nexts[j]) /\ Candidate(B, t, j)  BY <1>2 DEF Pinned, Candidate
  <2>2. Fit(B, j, l[t].nexts[j])'  BY <1>2, <1>3, <2>1 DEF Fit, Still
  <2> QED  BY <1>2, <1>4, <2>1, <2>2 DEF Candidate, SameCall, Still
<1>7. nodes'[l[t].prevs[j]].full = nodes[l[t].prevs[j]].full /\ nodes'[l[t].prevs[j]].next = nodes[l[t].prevs[j]].next
  BY <1>3 DEF Still
<1>8. l[t].op = "insert" => nodes'[l[t].node].next = nodes[l[t].node].next  BY <1>4 DEF Still
<1>9. l[t].pc # "publish" /\ l[t].pc # "store" /\ l'[t].pc # "publish" /\ l'[t].pc # "store" /\ ~Inserted(l[t], j) /\
      ~Inserted(l'[t], j)
  BY DEF Walk, Inserted
<1> QED  BY <1>2, <1>5, <1>6, <1>7, <1>8, <1>9 DEF Pinned, SameCall

\* The second look and the marked place, as long as the place is the same.
PlaceStands(t) == l'[t].layer = l[t].layer /\ l'[t].cur = l[t].cur /\ l'[t].top = l[t].top /\ l'[t].prevs = l[t].prevs /\
                  l'[t].nexts = l[t].nexts

LEMMA PlacingSame == ASSUME NEW B, NEW g, ListInv(B, g), NEW t \in Threads, Still, SameCall(t), PlaceStands(t),
                            l[t].pc \in Walk, l'[t].pc \in Walk,
                            l'[t].pc \in {"try", "prev", "next"} => l[t].pc \in {"try", "prev",
                            "next"} /\ l'[t].next = l[t].next,
                            l'[t].pc = "next" => nodes[l[t].cur].full,
                            Again(l'[t]) => Again(l[t])
                     PROVE Placing(B, t)'
<1>1. Placing(B, t) /\ Sound(l[t]) /\ l[t].cur \in Links /\ l[t] \in Locals  BY WalkBasics DEF Good
<1> SUFFICES ASSUME l'[t].pc \in {"try", "prev", "next"} \/ Again(l'[t]) PROVE Placing(B, t)'
  BY DEF Placing
<1>2. l[t].op \in {"insert", "erase"} /\ l[t].node \in Links  BY <1>1 DEF Sound, Links
<1>3. l[t].layer <= l[t].top /\ l[t].prevs[l[t].layer] = l[t].cur /\ Candidate(B, t, l[t].layer)  BY <1>1 DEF Placing
<1> DEFINE j == l[t].layer
<1>4. Fit(B, j, l[t].nexts[j])'
  <2>1. Fit(B, j, l[t].nexts[j]) /\ l[t].nexts[j] \in Links  BY <1>3 DEF Candidate
  <2> QED  BY <2>1 DEF Fit, Still, PlaceStands
<1>5. Candidate(B, t, j)'  BY <1>2, <1>3, <1>4 DEF Candidate, Still, SameCall, PlaceStands
<1>6. l'[t].pc = "next" \/ Again(l'[t]) => nodes'[l[t].cur].full  BY <1>1 DEF Placing, Still
<1>7. Again(l'[t]) /\ l[t].op = "insert" => nodes'[l[t].node].next[j] = l[t].nexts[j]  BY <1>1, <1>2 DEF Placing, Still
<1> QED  BY <1>1, <1>3, <1>5, <1>6, <1>7 DEF Placing, PlaceStands, SameCall
-----------------------------------------------------------------------------
\* A search begins.
LEMMA StartList == ASSUME NEW B, NEW g, ListInv(B, g), Topped, Known, MarkInv', NEW t \in Threads, Start(t)
  PROVE  ListInv(B, g)'
<1> DEFINE i == IF l[t].op = "insert" /\ l[t].top > listTop THEN l[t].top ELSE listTop
           r == [l[t] EXCEPT !.cur = head, !.layer = i, !.again = FALSE]
<1>1. TypeOK /\ l[t] \in Locals /\ Sound(l[t]) /\ l[t].pc = "start" /\ Erasing(B, t)  BY Basics DEF Start, At, Good
<1>2. Goto(t, "peek", r) /\ UNCHANGED <<nodes, todo>>  BY DEF Start, Fixed
<1>3. i \in Layers /\ l[t].top \in Layers \cup {-1} /\ listTop \in Layers
  BY SMTT(40), <1>1, ListAssumption DEF TypeOK, Locals, Layers
<1>4. r \in Locals  BY <1>1, <1>3, SetStart
<1>5. /\ r.op = l[t].op /\ r.node = l[t].node /\ r.key = l[t].key /\ r.top = l[t].top /\ r.layer = i /\ r.cur = head
      /\ r.again = FALSE
  BY <1>1 DEF Locals
<1>6. l[t].top <= i
  <2>1. l[t].op = "erase" => l[t].top <= listTop  BY <1>1 DEF Topped, At
  <2>2. l[t].op = "none" \/ l[t].op = "find" => l[t].top = -1  BY <1>1 DEF Sound
  <2>3. l[t].op \in {"none", "insert", "erase", "find"}  BY <1>1 DEF Locals
  <2> QED  BY <1>3, <2>1, <2>2, <2>3, LayerNat
<1> HIDE DEF r, i
<1>7. Stands(t, "peek", r) /\ Others(t) /\ Still  BY <1>1, <1>2, <1>4, Moves, SameStill DEF PCs
<1>8. /\ SameCall(t) /\ l'[t].top = l[t].top /\ l'[t].pc = "peek" /\ l'[t].cur = head /\ ~l'[t].again
      /\ l'[t].layer = i
  BY <1>5, <1>7 DEF Stands, SameCall
<1>9. l[t].op = "erase" => nodes[l[t].node].top = l[t].top  BY <1>1 DEF Known, At
<1>10. Standing(B, g, t)'
  <2>1. l[t].op = "erase" => l[t].node \in Nodes  BY <1>1 DEF Sound
  <2> QED  BY <1>8, <2>1, Strangers DEF Standing, Fit, Past, Bef, SameCall
<1>11. Looking(B, t)' /\ Seeking(g, t)' /\ Placing(B, t)' /\ Seconding(t)'
  BY <1>8 DEF Looking, Seeking, Placing, Seconding, Again
<1>12. Settled(l'[t]) = {}
  <2>1. \A j \in Layers : ~(i < j /\ j <= l[t].top)  BY <1>3, <1>6, LayerNat
  <2> QED  BY <1>8, <2>1 DEF Settled
<1>13. Settles(B, g, t)'  BY <1>12 DEF Settles
<1> QED  BY <1>1, <1>2, <1>7, <1>8, <1>9, <1>10, <1>11, <1>13, QuietWalk DEF Walk

\* _sl_next has found no next node, and the thread is not in the middle of a layer.
LEMMA RetryList == ASSUME NEW B, NEW g, ListInv(B, g), MarkInv', NEW t \in Threads, NEW less, Retry(t, less), Still,
                          UNCHANGED todo, l[t].pc \in Walk, ~l[t].again
                   PROVE ListInv(B, g)'
<1>1. l[t].op \in {"insert", "erase", "find"} /\ l[t].layer \in Layers  BY WalkBasics
<1>2. ClearFrom(t, l[t].layer + 1, Begin(t), less) /\ l[t].layer + 1 \in Nat  BY <1>1, LayerNat DEF Retry
<1>3. Begin(t) = IF l[t].op = "erase" THEN "linked" ELSE "start"  BY DEF Begin
<1>4. Begin(t) \in PCs  BY <1>3 DEF PCs
<1>5. l[t].op = "insert" => Unborn(l[t])  BY DEF Unborn, Walk
<1>6. l[t].pc \notin {"store", "publish", "idle"}  BY DEF Walk
<1> HIDE DEF Begin
<1> QED  BY <1>1, <1>2, <1>3, <1>4, <1>5, <1>6, ClearFromList

\* The thread goes back from the middle of a layer.
LEMMA BackList == ASSUME NEW B, NEW g, ListInv(B, g), MarkInv', NEW t \in Threads, NEW less, ClearFrom(t, l[t].layer,
                         Begin(t), less), UNCHANGED <<nodes, todo>>,
                         l[t].pc \in Walk
                   PROVE ListInv(B, g)'
<1>1. l[t].op \in {"insert", "erase", "find"} /\ l[t].layer \in Layers  BY WalkBasics
<1>2. l[t].layer \in Nat /\ Still  BY <1>1, LayerNat, SameStill
<1>3. Begin(t) = IF l[t].op = "erase" THEN "linked" ELSE "start"  BY DEF Begin
<1>4. Begin(t) \in PCs  BY <1>3 DEF PCs
<1>5. l[t].op = "insert" => Unborn(l[t])  BY DEF Unborn, Walk
<1>6. l[t].pc \notin {"store", "publish", "idle"}  BY DEF Walk
<1> HIDE DEF Begin
<1> QED  BY <1>1, <1>2, <1>3, <1>4, <1>5, <1>6, ClearFromList

\* A next pointer has been read, of a node of the list.
LEMMA TakeList ==
  ASSUME NEW B, NEW g, ListInv(B, g), MarkInv', NEW t \in Threads, NEW n, NEW less, NEW r \in Locals, Take(t, n, less,
         r), UNCHANGED <<nodes, todo>>,
         l[t].pc \in {"peek", "hop"}, n \in Links, n # head, Fit(B, l[t].layer, n),
         r.op = l[t].op, r.node = l[t].node, r.key = l[t].key, r.top = l[t].top, r.layer = l[t].layer, r.cur = l[t].cur,
         r.again = l[t].again, r.prevs = l[t].prevs, r.nexts = l[t].nexts,
         l[t].op = "erase" /\ ~r.found /\ l[t].layer <= l[t].top => n = l[t].node \/ Bef(g, n, l[t].node),
         l[t].op = "erase" /\ r.found => l[t].layer <= l[t].top /\ n = nodes[l[t].node].next[l[t].layer],
         l[t].again /\ l[t].op = "insert" => n = nodes[l[t].cur].next[l[t].layer],
         l[t].again /\ l[t].op = "erase" /\ ~r.found => n = nodes[l[t].cur].next[l[t].layer],
         l[t].again /\ l[t].op = "erase" /\ r.found => nodes[l[t].cur].next[l[t].layer] = l[t].node
  PROVE ListInv(B, g)'
<1> DEFINE s == [r EXCEPT !.next = n]
<1>0. l[t].pc \in Walk  BY DEF Walk
<1>1. TypeOK /\ l[t] \in Locals  BY Basics
<1>2. n # None  BY ListAssumption
<1>3. Goto(t, "look", s) /\ s \in Locals  BY <1>2, SetNext DEF Take
<1>4. /\ s.op = r.op /\ s.node = r.node /\ s.key = r.key /\ s.top = r.top /\ s.layer = r.layer /\ s.cur = r.cur
      /\ s.again = r.again /\ s.prevs = r.prevs /\ s.nexts = r.nexts /\ s.found = r.found /\ s.next = n
  BY DEF Locals
<1> HIDE DEF s
<1>5. Stands(t, "look", s) /\ Others(t) /\ Still  BY <1>1, <1>3, Moves, SameStill DEF PCs
<1>6. /\ SameCall(t) /\ PlaceStands(t) /\ l'[t].top = l[t].top /\ l'[t].pc = "look" /\ l'[t].again = l[t].again /\
         l'[t].found = r.found
      /\ l'[t].next = n /\ l'[t].layer = l[t].layer /\ l'[t].cur = l[t].cur
  BY <1>4, <1>5 DEF Stands, SameCall, PlaceStands
<1>7. Standing(B, g, t)'  BY <1>0, <1>5, <1>6, StandingSame
<1>8. Looking(B, t)'  BY <1>6, <1>2 DEF Looking, Fit, Still
<1>9. Seeking(g, t)'  BY <1>6 DEF Seeking, SameCall
<1>10. Placing(B, t)'
  <2>1. Again(l'[t]) => Again(l[t])  BY <1>6 DEF Again
  <2> QED  BY <1>0, <1>5, <1>6, <2>1, PlacingSame DEF Walk
<1>11. Seconding(t)'  BY <1>6 DEF Seconding, Again, SameCall
<1>12. Settles(B, g, t)'
  <2>1. Settled(l'[t]) = Settled(l[t])  BY <1>0, <1>6 DEF Settled, Walk
  <2> QED  BY <1>0, <1>5, <1>6, <2>1, SettlesSame DEF Walk, PlaceStands
<1> QED  BY <1>0, <1>5, <1>6, <1>7, <1>8, <1>9, <1>10, <1>11, <1>12, QuietWalk DEF Walk

\* The first look, and the step over a node that is not linked.
LEMMA PeekList == ASSUME NEW B, NEW g, ListInv(B, g), MarkInv', NEW t \in Threads, Peek(t) PROVE ListInv(B, g)'
<1> DEFINE r == [l[t] EXCEPT !.found = FALSE]
           n == nodes[l[t].cur].next[l[t].layer]
<1>1. l[t].pc = "peek" /\ l[t].pc \in Walk /\ UNCHANGED <<nodes, todo>>  BY SMTT(40) DEF Peek, At, Fixed, Walk
<1>2. /\ l[t] \in Locals /\ Good(B, g, t) /\ l[t].layer \in Layers /\ l[t].cur # tail
      /\ (nodes[l[t].cur].full => l[t].cur \in In(l[t].layer)) /\ l[t].op \in {"insert", "erase", "find"}
      /\ (l[t].op = "erase" /\ l[t].layer <= l[t].top => l[t].node \in In(l[t].layer))
  BY SMTT(40), <1>1, WalkBasics
<1>3. CASE nodes[l[t].cur].full
  <2>1. Take(t, n, {}, r)  BY <1>3 DEF Peek, IsLinked
  <2>2. r \in Locals  BY <1>2, SetFound
  <2>3. /\ r.op = l[t].op /\ r.node = l[t].node /\ r.key = l[t].key /\ r.top = l[t].top /\ r.layer = l[t].layer /\
           r.cur = l[t].cur
        /\ r.again = l[t].again /\ r.prevs = l[t].prevs /\ r.nexts = l[t].nexts /\ r.found = FALSE
    BY <1>2 DEF Locals
  <2>4. /\ n \in Links /\ n # head /\ Fit(B, l[t].layer, n)
        /\ \A z \in In(l[t].layer) : Bef(g, l[t].cur, z) => z = n \/ Bef(g, n, z)
    BY SMTT(40), <1>2, <1>3, NextMember
  <2>5. l[t].op = "erase" /\ l[t].layer <= l[t].top => n = l[t].node \/ Bef(g, n, l[t].node)
    BY Zenon, <1>1, <1>2, <2>4 DEF Good, Standing
  <2>6. n = nodes[l[t].cur].next[l[t].layer]  OBVIOUS
  <2> HIDE DEF r, n
  <2> QED  BY ZenonT(40), <1>1, <2>1, <2>2, <2>3, <2>4, <2>5, <2>6, TakeList
<1>4. CASE ~nodes[l[t].cur].full
  <2>1. Retry(t, {})  BY <1>4 DEF Peek, IsLinked
  <2>2. ~l[t].again  BY <1>1, <1>2, <1>4 DEF Good, Placing, Again
  <2> QED  BY <1>1, <2>1, <2>2, RetryList, SameStill
<1> QED  BY <1>3, <1>4

\* At the second look, the next node is one that answers, unless it is the one to erase.
LEMMA SecondLook == ASSUME NEW B, NEW g, ListInv(B, g), NEW t \in Threads, l[t].pc \in {"look", "hop"},
                           \/ Again(l[t]) /\ l[t].next = nodes[l[t].cur].next[l[t].layer]
                           \/ l[t].op = "erase" /\ l[t].layer <= l[t].top /\ l[t].next = nodes[l[t].node].next[l[t].layer]
                    PROVE nodes[l[t].next].full
<1>0. l[t].pc \in Walk  BY DEF Walk
<1>1. l[t].layer \in Layers /\ l[t].cur # tail /\ ~Half(l[t], l[t].layer)  BY <1>0, WalkBasics DEF Half, Inserted, Cutting
<1>2. CASE Again(l[t]) /\ l[t].next = nodes[l[t].cur].next[l[t].layer]
  <2>1. nodes[l[t].cur].flag = t /\ nodes[l[t].cur].full  BY SMTT(40), <1>2, AgainZone
  <2>2. l[t].cur \in In(l[t].layer)  BY SMTT(40), <1>0, <2>1, WalkBasics
  <2> QED  BY <1>1, <1>2, <2>1, <2>2, Protected
<1>3. CASE l[t].op = "erase" /\ l[t].layer <= l[t].top /\ l[t].next = nodes[l[t].node].next[l[t].layer]
  <2>1. nodes[l[t].node].flag = t /\ l[t].node \in In(l[t].layer) /\ l[t].node # tail  BY <1>0, <1>3, WalkBasics, Strangers
  <2> QED  BY SMTT(40), <1>1, <1>3, <2>1, Protected
<1> QED  BY SMTT(40), <1>2, <1>3

LEMMA HopList == ASSUME NEW B, NEW g, ListInv(B, g), MarkInv', NEW t \in Threads, Hop(t) PROVE ListInv(B, g)'
<1> DEFINE r == [l[t] EXCEPT !.found = @ \/ l[t].next = Target(t)]
<1>1. l[t].pc = "look" /\ l[t].pc \in Walk /\ UNCHANGED <<nodes, todo>> /\ Goto(t, "hop", r)
  BY DEF Hop, At, Fixed, Shared, Walk
<1>2. TypeOK /\ l[t] \in Locals /\ Good(B, g, t) /\ l[t].op \in {"insert", "erase", "find"}  BY <1>1, WalkBasics
<1>3. l[t].next \in Links /\ l[t].next # head /\ Fit(B, l[t].layer, l[t].next) /\ l[t].next # None
  BY <1>1, NextBasics, ListAssumption
<1>4. ~nodes[l[t].next].full \/ (l[t].op = "erase" /\ l[t].next = l[t].node)
  BY <1>1, <1>3 DEF Hop, Answers, IsLinked, At, Target
<1>5. r \in Locals
  <2>1. (l[t].found \/ l[t].next = Target(t)) \in BOOLEAN  BY <1>2 DEF Locals
  <2> QED  BY <1>2, <2>1, SetFound
<1>6. /\ r.op = l[t].op /\ r.node = l[t].node /\ r.key = l[t].key /\ r.top = l[t].top /\ r.layer = l[t].layer /\
         r.cur = l[t].cur
      /\ r.next = l[t].next /\ r.again = l[t].again /\ r.prevs = l[t].prevs /\ r.nexts = l[t].nexts
  BY <1>2 DEF Locals
<1>7. r.found <=> (l[t].found \/ (l[t].op = "erase" /\ l[t].next = l[t].node))  BY <1>2, <1>3 DEF Locals, Target
<1> HIDE DEF r
<1>8. Stands(t, "hop", r) /\ Others(t) /\ Still  BY <1>1, <1>2, <1>5, Moves, SameStill DEF PCs
<1>9. /\ SameCall(t) /\ PlaceStands(t) /\ l'[t].top = l[t].top /\ l'[t].pc = "hop" /\ l'[t].again = l[t].again /\
         l'[t].found = r.found
      /\ l'[t].next = l[t].next /\ l'[t].layer = l[t].layer /\ l'[t].cur = l[t].cur
  BY <1>6, <1>8 DEF Stands, SameCall, PlaceStands
<1>10. l[t].op = "erase" => /\ l[t].node \in Nodes /\ nodes[l[t].node].top = l[t].top /\ nodes[l[t].node].full
  BY <1>1, WalkBasics
<1>11. l[t].next # tail  BY <1>4, <1>10, Basics, Strangers DEF Ends
<1>12. l[t].op = "erase" /\ l[t].found => FALSE
  <2> SUFFICES ASSUME l[t].op = "erase", l[t].found PROVE FALSE  OBVIOUS
  <2>1. l[t].layer <= l[t].top /\ l[t].next = nodes[l[t].node].next[l[t].layer]  BY <1>1, <1>2 DEF Good, Seeking
  <2>2. nodes[l[t].next].full  BY <1>1, <2>1, SecondLook
  <2>3. l[t].next = l[t].node  BY <1>4, <2>2
  <2>4. l[t].node \in In(l[t].layer) /\ l[t].node # tail /\ l[t].layer \in Layers  BY <1>1, <1>10, <2>1, WalkBasics, Strangers
  <2>5. Bef(g, l[t].node, nodes[l[t].node].next[l[t].layer])  BY <2>4, NextMember
  <2> QED  BY <2>1, <2>3, <2>5, BefNot
<1>13. Again(l[t]) => l[t].op = "erase" /\ l[t].next = l[t].node /\ nodes[l[t].cur].next[l[t].layer] = l[t].node
  <2> HAVE Again(l[t])
  <2>1. l[t].op \in {"insert", "erase"}
    <3>1. Sound(l[t])  BY Basics
    <3> QED  BY <3>1 DEF Sound
  <2>2. l[t].next = nodes[l[t].cur].next[l[t].layer]  BY <1>1, <1>2, <1>12, <2>1 DEF Good, Seconding
  <2>3. nodes[l[t].next].full  BY <1>1, <2>2, SecondLook
  <2> QED  BY <1>4, <2>2, <2>3
<1>14. Standing(B, g, t)'  BY <1>1, <1>8, <1>9, StandingSame
<1>15. Looking(B, t)'  BY <1>3, <1>8, <1>9, <1>11 DEF Looking, Fit, Still
<1>16. Seeking(g, t)'
  <2>1. l[t].op = "erase" /\ l[t].next = l[t].node => l[t].layer <= l[t].top
    BY <1>3, <1>10 DEF Fit
  <2> QED  BY <1>1, <1>2, <1>7, <1>9, <1>12, <2>1 DEF Good, Seeking, SameCall
<1>17. Placing(B, t)'
  <2>1. Again(l'[t]) => Again(l[t])  BY <1>1, <1>9 DEF Again
  <2> QED  BY <1>1, <1>8, <1>9, <2>1, PlacingSame DEF Walk
<1>18. Seconding(t)'
  <2> SUFFICES ASSUME Again(l'[t]) PROVE Seconding(t)'  BY DEF Seconding
  <2>1. Again(l[t])  BY <1>1, <1>9 DEF Again
  <2>2. l'[t].op = "erase" /\ l'[t].found  BY <1>7, <1>9, <1>13, <2>1 DEF SameCall
  <2>3. nodes'[l'[t].cur].next[l'[t].layer] = l'[t].node  BY <1>1, <1>9, <1>13, <2>1 DEF SameCall
  <2> QED  BY <2>2, <2>3 DEF Seconding
<1>19. Settles(B, g, t)'
  <2>1. Settled(l'[t]) = Settled(l[t])  BY <1>1, <1>9 DEF Settled, Walk
  <2> QED  BY <1>1, <1>8, <1>9, <2>1, SettlesSame DEF Walk, PlaceStands
<1> QED  BY <1>1, <1>8, <1>9, <1>14, <1>15, <1>16, <1>17, <1>18, <1>19, QuietWalk DEF Walk

\* A thread may stand where what it relies on holds.
LEMMA StandingAt == ASSUME NEW B, NEW g, NEW t \in Threads, Still, SameCall(t), NEW i, NEW n \in Links, l'[t].cur = n,
                           l'[t].layer = i,
                           n # tail, Fit(B, i, n), l[t].op \in {"insert", "find"} => Past(l[t].key, n),
                           l[t].op = "erase" => Bef(g, n, l[t].node)
                    PROVE Standing(B, g, t)'
<1>1. Fit(B, i, n)'  BY DEF Fit, Still
<1> QED  BY <1>1 DEF Standing, SameCall

\* The search goes on in the layer, ...
LEMMA HoppedList == ASSUME NEW B, NEW g, ListInv(B, g), MarkInv', NEW t \in Threads, Hopped(t) PROVE ListInv(B, g)'
<1> DEFINE n == nodes[l[t].next].next[l[t].layer]
<1>1. l[t].pc = "hop" /\ l[t].pc \in Walk /\ UNCHANGED <<nodes, todo>>  BY DEF Hopped, At, Fixed, Walk
<1>2. /\ l[t] \in Locals /\ Good(B, g, t) /\ l[t].layer \in Layers /\ l[t].op \in {"insert", "erase", "find"}
      /\ (l[t].op = "erase" /\ l[t].layer <= l[t].top => l[t].node \in In(l[t].layer))
      /\ (l[t].op = "erase" => nodes[l[t].node].full)
  BY <1>1, WalkBasics
<1>3. /\ l[t].next # tail /\ (nodes[l[t].next].full => l[t].next \in In(l[t].layer))
  BY <1>1, <1>2, NextBasics DEF Good, Looking
<1>4. Again(l[t]) <=> l[t].again  BY <1>1, <1>2 DEF Again, Locals
<1>5. l[t].again => l[t].op = "erase" /\ l[t].found /\ nodes[l[t].cur].next[l[t].layer] = l[t].node
  <2> HAVE l[t].again
  <2>1. Sound(l[t]) /\ Again(l[t])  BY <1>4, Basics
  <2>2. l[t].op \in {"insert", "erase"}  BY <2>1 DEF Sound
  <2>3. Seconding(t)  BY <1>2 DEF Good
  <2> QED  BY <1>1, <2>1, <2>2, <2>3 DEF Seconding
<1>6. CASE nodes[l[t].next].full
  <2>1. Take(t, n, {l[t].next}, l[t])  BY <1>6 DEF Hopped, IsLinked
  <2>2. /\ n \in Links /\ n # head /\ Fit(B, l[t].layer, n)
        /\ \A z \in In(l[t].layer) : Bef(g, l[t].next, z) => z = n \/ Bef(g, n, z)
    BY SMTT(40), <1>2, <1>3, <1>6, NextMember
  <2>3. l[t].op = "erase" /\ ~l[t].found /\ l[t].layer <= l[t].top => n = l[t].node \/ Bef(g, n, l[t].node)
    BY <1>1, <1>2, <2>2 DEF Good, Seeking
  <2>4. l[t].op = "erase" /\ l[t].found => l[t].layer <= l[t].top /\ n = nodes[l[t].node].next[l[t].layer]
    BY <1>1, <1>2 DEF Good, Seeking
  <2> HIDE DEF n
  <2> QED  BY <1>1, <1>2, <1>5, <2>1, <2>2, <2>3, <2>4, TakeList
<1>7. CASE ~nodes[l[t].next].full
  <2>1. Retry(t, {l[t].next})  BY <1>7 DEF Hopped, IsLinked
  <2>2. ~l[t].again
    <3> SUFFICES ASSUME l[t].again PROVE FALSE  OBVIOUS
    <3>1. l[t].next = l[t].node  BY <1>1, <1>2, <1>5 DEF Good, Seeking
    <3> QED  BY <1>2, <1>5, <1>7, <3>1
  <2> QED  BY <1>1, <2>1, <2>2, RetryList, SameStill
<1> QED  BY <1>6, <1>7

\* What a first look tells.
LEMMA FirstBasics == ASSUME NEW B, NEW g, ListInv(B, g), NEW t \in Threads, First(t)
                     PROVE /\ l[t].pc = "look" /\ l[t].pc \in Walk /\ ~l[t].again /\ nodes[l[t].next].full /\ l[t].next # None
                           /\ l[t].op = "erase" => l[t].next # l[t].node
<1>1. l[t].pc = "look" /\ ~l[t].again /\ nodes[l[t].next].full /\ l[t].next # Target(t)  BY DEF First, Answers, At, IsLinked
<1>2. l[t].next # None  BY <1>1, NextBasics, ListAssumption
<1> QED  BY <1>1, <1>2 DEF Target, Walk

LEMMA PassList == ASSUME NEW B, NEW g, ListInv(B, g), MarkInv', NEW t \in Threads, Pass(t) PROVE ListInv(B, g)'
<1> DEFINE r == [l[t] EXCEPT !.cur = l[t].next]
<1>1. /\ l[t].pc = "look" /\ l[t].pc \in Walk /\ ~l[t].again /\ (l[t].op = "erase" => l[t].next # l[t].node)
      /\ UNCHANGED <<nodes, todo>> /\ Goto(t, "peek", r) /\ Onward(t)
  BY FirstBasics DEF Pass, Fixed
<1>2. TypeOK /\ l[t] \in Locals /\ Good(B, g, t) /\ l[t].op \in {"insert", "erase", "find"} /\ Order(B, g)
  BY <1>1, WalkBasics, Basics
<1>3. l[t].next \in Links /\ l[t].next \in Ground(B) /\ Fit(B, l[t].layer, l[t].next)  BY <1>1, NextBasics
<1>4. r \in Locals  BY <1>2, <1>3, SetCur
<1>5. /\ r.op = l[t].op /\ r.node = l[t].node /\ r.key = l[t].key /\ r.top = l[t].top /\ r.layer = l[t].layer
      /\ r.cur = l[t].next /\ r.again = l[t].again /\ r.prevs = l[t].prevs /\ r.nexts = l[t].nexts
  BY <1>2 DEF Locals
<1> HIDE DEF r
<1>6. Stands(t, "peek", r) /\ Others(t) /\ Still  BY <1>1, <1>2, <1>4, Moves, SameStill DEF PCs
<1>7. /\ SameCall(t) /\ l'[t].top = l[t].top /\ l'[t].pc = "peek" /\ ~l'[t].again /\ l'[t].cur = l[t].next
      /\ l'[t].layer = l[t].layer /\ l'[t].prevs = l[t].prevs /\ l'[t].nexts = l[t].nexts
  BY <1>1, <1>5, <1>6 DEF Stands, SameCall
<1>8. Standing(B, g, t)'
  <2>1. CASE Past(l[t].key, l[t].next)
    <3>1. l[t].next # tail  BY <2>1, Strangers DEF Past
    <3>2. l[t].op = "erase" => Bef(g, l[t].next, l[t].node)
      <4> HAVE l[t].op = "erase"
      <4>1. l[t].node \in B /\ l[t].key = Key[l[t].node]  BY <1>1, WalkBasics
      <4> QED  BY <1>2, <1>3, <2>1, <4>1, PastBef
    <3> QED  BY <1>3, <1>6, <1>7, <2>1, <3>1, <3>2, StandingAt
  <2>2. CASE l[t].op = "erase" /\ l[t].layer <= l[t].top /\ ~l[t].found
    <3>1. Bef(g, l[t].next, l[t].node)  BY <1>1, <1>2, <2>2 DEF Good, Seeking
    <3>2. l[t].next # tail  BY <3>1 DEF Bef
    <3> QED  BY <1>3, <1>6, <1>7, <2>2, <3>1, <3>2, StandingAt
  <2> QED  BY <1>1, <2>1, <2>2 DEF Onward
<1>9. Looking(B, t)' /\ Seeking(g, t)' /\ Placing(B, t)' /\ Seconding(t)'
  BY <1>7 DEF Looking, Seeking, Placing, Seconding, Again
<1>10. Settles(B, g, t)'
  <2>1. Settled(l'[t]) = Settled(l[t])  BY <1>1, <1>7 DEF Settled, Walk
  <2> QED  BY <1>1, <1>6, <1>7, <2>1, SettlesSame DEF Walk
<1> QED  BY <1>1, <1>6, <1>7, <1>8, <1>9, <1>10, QuietWalk DEF Walk

\* ... goes down, ...
LEMMA DescendList == ASSUME NEW B, NEW g, ListInv(B, g), MarkInv', NEW t \in Threads, Descend(t) PROVE ListInv(B, g)'
<1> DEFINE r == [l[t] EXCEPT !.layer = @ - 1]
<1>1. /\ l[t].pc = "look" /\ l[t].pc \in Walk /\ ~l[t].again /\ l[t].layer > l[t].top /\ l[t].layer > 0
      /\ UNCHANGED <<nodes, todo>> /\ Goto(t, "peek", r)
  BY FirstBasics DEF Descend, Fixed
<1>2. TypeOK /\ l[t] \in Locals /\ Good(B, g, t) /\ l[t].layer \in Layers /\ l[t].cur \in Links /\ l[t].cur # tail
  BY <1>1, WalkBasics
<1>3. l[t].layer - 1 \in Layers  BY <1>1, <1>2, ListAssumption DEF Layers
<1>4. r \in Locals  BY <1>2, <1>3, SetLayer
<1>5. /\ r.op = l[t].op /\ r.node = l[t].node /\ r.key = l[t].key /\ r.top = l[t].top /\ r.layer = l[t].layer - 1
      /\ r.cur = l[t].cur /\ r.again = l[t].again
  BY <1>2 DEF Locals
<1> HIDE DEF r
<1>6. Stands(t, "peek", r) /\ Others(t) /\ Still  BY <1>1, <1>2, <1>4, Moves, SameStill DEF PCs
<1>7. /\ SameCall(t) /\ l'[t].top = l[t].top /\ l'[t].pc = "peek" /\ ~l'[t].again /\ l'[t].cur = l[t].cur
      /\ l'[t].layer = l[t].layer - 1
  BY <1>1, <1>5, <1>6 DEF Stands, SameCall
<1>8. Standing(B, g, t)'
  <2>1. Standing(B, g, t)  BY <1>2 DEF Good
  <2>2. Fit(B, l[t].layer - 1, l[t].cur)
    <3>1. l[t].cur \in Nodes => nodes[l[t].cur].top \in Int  BY <1>2, LayerNat DEF TypeOK, NodeRec
    <3>2. l[t].cur \in Nodes => l[t].cur \in B /\ l[t].layer <= nodes[l[t].cur].top  BY <1>1, <2>1 DEF Standing, Fit
    <3>3. l[t].cur \in Nodes => l[t].layer - 1 <= nodes[l[t].cur].top  BY <1>2, <3>1, <3>2, LayerNat
    <3> QED  BY <1>1, <3>2, <3>3 DEF Fit
  <2> QED  BY <1>1, <1>2, <1>6, <1>7, <2>1, <2>2, StandingAt DEF Standing
<1>9. Looking(B, t)' /\ Seeking(g, t)' /\ Placing(B, t)' /\ Seconding(t)'
  BY <1>7 DEF Looking, Seeking, Placing, Seconding, Again
<1>10. Settled(l'[t]) = {}
  <2>1. l[t].top \in Int  BY <1>2, LayerNat DEF Locals
  <2>2. \A j \in Layers : ~(l[t].layer - 1 < j /\ j <= l[t].top)  BY <1>1, <1>2, <2>1, LayerNat
  <2> QED  BY <1>7, <2>2 DEF Settled
<1>11. Settles(B, g, t)'  BY <1>10 DEF Settles
<1> QED  BY <1>1, <1>6, <1>7, <1>8, <1>9, <1>11, QuietWalk DEF Walk

\* ... or has its place, ...
LEMMA PlaceList == ASSUME NEW B, NEW g, ListInv(B, g), MarkInv', NEW t \in Threads, Place(t) PROVE ListInv(B, g)'
<1> DEFINE r == [l[t] EXCEPT !.prevs[l[t].layer] = l[t].cur, !.nexts[l[t].layer] = l[t].next]
<1>1. /\ l[t].pc = "look" /\ l[t].pc \in Walk /\ ~l[t].again /\ l[t].layer <= l[t].top
      /\ UNCHANGED <<nodes, todo>> /\ Goto(t, "try", r) /\ ~Onward(t)
  BY FirstBasics DEF Place, Fixed
<1>2. TypeOK /\ l[t] \in Locals /\ Good(B, g, t) /\ l[t].op \in {"insert", "erase", "find"} /\ l[t].layer \in Layers /\
      l[t].cur \in Links
  BY <1>1, WalkBasics
<1>3. l[t].next \in Links /\ l[t].next # head /\ Fit(B, l[t].layer, l[t].next)  BY <1>1, NextBasics
<1>4. r \in Locals  BY <1>2, <1>3, SetPlace
<1>5. /\ r.op = l[t].op /\ r.node = l[t].node /\ r.key = l[t].key /\ r.top = l[t].top /\ r.layer = l[t].layer
      /\ r.cur = l[t].cur /\ r.again = l[t].again /\ r.next = l[t].next
      /\ \A j \in Layers : /\ r.prevs[j] = IF j = l[t].layer THEN l[t].cur ELSE l[t].prevs[j]
                           /\ r.nexts[j] = IF j = l[t].layer THEN l[t].next ELSE l[t].nexts[j]
  BY <1>2 DEF Locals
<1> HIDE DEF r
<1>6. Stands(t, "try", r) /\ Others(t) /\ Still  BY <1>1, <1>2, <1>4, Moves, SameStill DEF PCs
<1>7. /\ SameCall(t) /\ l'[t].top = l[t].top /\ l'[t].pc = "try" /\ ~l'[t].again /\ l'[t].cur = l[t].cur
      /\ l'[t].layer = l[t].layer /\ l'[t].next = l[t].next
      /\ \A j \in Layers : /\ l'[t].prevs[j] = IF j = l[t].layer THEN l[t].cur ELSE l[t].prevs[j]
                           /\ l'[t].nexts[j] = IF j = l[t].layer THEN l[t].next ELSE l[t].nexts[j]
  BY <1>1, <1>5, <1>6 DEF Stands, SameCall
<1>8. Standing(B, g, t)'  BY <1>1, <1>6, <1>7, StandingSame
<1>9. Looking(B, t)'  BY <1>1, <1>3, <1>6, <1>7 DEF Looking, Fit, Still
<1>10. Seeking(g, t)' /\ Seconding(t)'  BY <1>7 DEF Seeking, Seconding, Again
<1>11. l[t].op = "insert" => ~Past(l[t].key, l[t].next)  BY <1>1 DEF Onward
<1>12. l[t].op = "erase" => l[t].next = nodes[l[t].node].next[l[t].layer]
  BY <1>1, <1>2 DEF Onward, Good, Seeking
<1>13. Candidate(B, t, l[t].layer)'
  <2>1. l'[t].nexts[l'[t].layer] = l[t].next  BY <1>2, <1>7
  <2>2. Fit(B, l[t].layer, l[t].next)'  BY <1>1, <1>3, <1>7 DEF Fit
  <2> QED  BY <1>1, <1>3, <1>7, <1>11, <1>12, <2>1, <2>2 DEF Candidate, SameCall
<1>14. Placing(B, t)'
  <2>1. l'[t].prevs[l'[t].layer] = l'[t].cur /\ l'[t].nexts[l'[t].layer] = l'[t].next  BY <1>2, <1>7
  <2> QED  BY <1>1, <1>7, <1>13, <2>1 DEF Placing, Again
<1>15. Settles(B, g, t)'
  <2>1. \A j \in Settled(l'[t]) : j \in Settled(l[t]) /\ j \in Layers /\ j # l[t].layer
    BY <1>1, <1>2, <1>7, LayerNat DEF Settled, Walk
  <2> QED  BY <1>1, <1>6, <1>7, <2>1, SettlesSame DEF Walk
<1> QED  BY <1>1, <1>6, <1>7, <1>8, <1>9, <1>10, <1>14, <1>15, QuietWalk DEF Walk

\* ... which it marks, and looks at again.
LEMMA WalkOn == ASSUME NEW B, NEW g, ListInv(B, g), MarkInv', NEW t \in Threads, NEW p \in {"prev", "next"}, Goto(t, p,
                       l[t]), Still, UNCHANGED todo,
                       l[t].pc \in {"try", "prev"}, p = "next" => nodes[l[t].cur].full
                PROVE ListInv(B, g)'
<1>1. TypeOK /\ l[t] \in Locals /\ l[t].pc \in Walk /\ p \in PCs /\ Good(B, g, t)  BY Basics DEF Walk, PCs
<1>2. Stands(t, p, l[t]) /\ Others(t)  BY <1>1, Moves
<1>3. /\ SameCall(t) /\ PlaceStands(t) /\ l'[t].pc = p /\ l'[t].cur = l[t].cur /\ l'[t].layer = l[t].layer /\
         l'[t].next = l[t].next
      /\ l'[t].top = l[t].top /\ l'[t].pc \in Walk
  BY <1>2 DEF Stands, SameCall, PlaceStands, Walk
<1>4. Standing(B, g, t)'  BY <1>1, <1>3, StandingSame
<1>5. Looking(B, t)'
  <2>1. Sound(l[t]) /\ l[t].next # head /\ Fit(B, l[t].layer, l[t].next)  BY <1>1, Basics DEF Good, Looking
  <2>2. l[t].next \in Nodes => l[t].next \in Links  BY DEF Links
  <2> QED  BY <1>3, <2>1, <2>2 DEF Looking, Fit, Still
<1>6. Seeking(g, t)' /\ Seconding(t)' /\ ~Again(l'[t])  BY <1>3 DEF Seeking, Seconding, Again
<1>7. Placing(B, t)'  BY <1>1, <1>3, <1>6, PlacingSame
<1>8. Settles(B, g, t)'
  <2>1. Settled(l'[t]) = Settled(l[t])  BY <1>1, <1>3 DEF Settled, Walk
  <2> QED  BY <1>1, <1>3, <2>1, SettlesSame DEF PlaceStands
<1> QED  BY <1>1, <1>2, <1>3, <1>4, <1>5, <1>6, <1>7, <1>8, QuietWalk

LEMMA TryList == ASSUME NEW B, NEW g, ListInv(B, g), MarkInv', NEW t \in Threads, Try(t) PROVE ListInv(B, g)'
<1>1. TypeOK /\ Sound(l[t]) /\ l[t].pc = "try" /\ l[t].pc \in Walk /\ UNCHANGED todo  BY Basics DEF Try, At, Walk
<1>2. CASE Retry(t, {}) /\ UNCHANGED nodes
  <2>1. ~l[t].again  BY <1>1 DEF Sound
  <2> QED  BY <1>1, <1>2, <2>1, RetryList, SameStill
<1>3. CASE Goto(t, "prev", l[t]) /\ (UNCHANGED nodes \/ Put(l[t].cur, "flag", t))
  <2>1. Still  BY <1>1, <1>3, SameStill, PutStill
  <2> QED  BY <1>1, <1>3, <2>1, WalkOn
<1> QED  BY <1>2, <1>3 DEF Try

LEMMA PrevList == ASSUME NEW B, NEW g, ListInv(B, g), MarkInv', NEW t \in Threads, Prev(t) PROVE ListInv(B, g)'
<1>1. l[t].pc = "prev" /\ l[t].pc \in Walk /\ UNCHANGED <<nodes, todo>>  BY DEF Prev, At, Fixed, Walk
<1>2. CASE nodes[l[t].cur].full
  <2>1. Goto(t, "next", l[t])  BY <1>2 DEF Prev, IsLinked
  <2> QED  BY <1>1, <1>2, <2>1, WalkOn, SameStill
<1>3. CASE ~nodes[l[t].cur].full
  <2>1. ClearFrom(t, l[t].layer, Begin(t), {})  BY <1>3 DEF Prev, IsLinked
  <2> QED  BY <1>1, <2>1, BackList
<1> QED  BY <1>2, <1>3
-----------------------------------------------------------------------------
\* Two threads do not make the same node.
LEMMA Makers == ASSUME NEW B, NEW g, ListInv(B, g), NEW t \in Threads, NEW u \in Threads, u # t, Unborn(l[t])
                PROVE /\ Unborn(l[u]) => l[u].node # l[t].node
                      /\ l[u].pc = "release" => l[u].node # l[t].node
<1>1. Making(B, t) /\ Making(B, u)  BY Basics DEF Good
<1> QED  BY <1>1 DEF Making

\* A thread writes a next pointer of the node that it makes, which is in no list yet.
Shape == \A n \in Links : nodes'[n].full = nodes[n].full /\ nodes'[n].top = nodes[n].top /\ nodes'[n].holder = nodes[n].holder
NextOnly(N) == \A n \in Links : n # N => nodes'[n].next = nodes[n].next

LEMMA OwnNextStep ==
  ASSUME NEW B, NEW g, ListInv(B, g), MarkInv', NEW t \in Threads, Others(t), Shape, NextOnly(l[t].node), Whole(t),
         NoneNew(t), UNCHANGED todo,
         Unborn(l[t]), l[t].node \notin B, Good(B, g, t)'
  PROVE ListInv(B, g)'
<1> DEFINE N == l[t].node
<1>1. Lists(B, g) /\ Alone /\ Pending(B) /\ Ends /\ Order(B, g) /\ B \subseteq Nodes /\ Sound(l[t]) /\ Making(B, t)
  BY Basics DEF Good
<1>2. N \in Nodes /\ N \notin Ground(B) /\ ~nodes[N].full  BY <1>1, Strangers DEF Sound, Unborn, Making, Ground
<1>3. Lists(B, g)'
  <2>1. SameFull /\ \A x \in Ground(B) \cap Links : nodes'[x].next = nodes[x].next  BY <1>2 DEF Shape, SameFull, NextOnly
  <2> QED  BY <1>1, <2>1, InSame, ListsKept
<1>4. ASSUME NEW u \in Threads, u # t PROVE Kept(B, g, B, g, u)
  <2>1. Sound(l[u]) /\ Good(B, g, u)  BY Basics
  <2>2. TopsKept(B)  BY <1>1 DEF TopsKept, Shape, Links
  <2>3. MarkedKept(u)  BY <1>2 DEF MarkedKept, Shape, NextOnly
  <2>4. l[u].op \in {"insert", "erase"} => l[u].node \in Links  BY <2>1 DEF Sound, Links
  <2>5. MadeKept(B, B, u)
    <3>1. Unborn(l[u]) => l[u].node # N  BY <1>4, Makers
    <3> QED  BY <2>1, <2>4, <3>1 DEF MadeKept, Shape, NextOnly, Unborn, Good, Named
  <2>6. CutKept(u)
    <3>1. l[u].op = "erase" /\ l[u].pc = "store" => l[u].node \in B  BY <2>1 DEF Good, Erasing
    <3> QED  BY <2>4, <3>1 DEF CutKept, NextOnly, Shape
  <2>7. OrderKept(B, g, B, g)  BY DEF OrderKept
  <2> QED  BY <2>2, <2>3, <2>5, <2>6, <2>7 DEF Kept
<1>5. Ends'  BY <1>1 DEF Ends, Shape, Links
<1>6. Alone' /\ Pending(B)'  BY <1>1, AloneSame, PendingSame DEF NoneNew
<1> QED  BY <1>1, <1>3, <1>4, <1>5, <1>6, ListStep

LEMMA NextValidList == ASSUME NEW B, NEW g, ListInv(B, g), MarkInv', NEW t \in Threads, NextValid(t)
  PROVE  ListInv(B, g)'
<1> DEFINE r == [l[t] EXCEPT !.again = TRUE]
           N == l[t].node
           j == l[t].layer
<1>1. l[t].pc = "next" /\ l[t].pc \in Walk /\ UNCHANGED todo  BY DEF NextValid, At, Walk
<1>2. /\ TypeOK /\ l[t] \in Locals /\ Good(B, g, t) /\ j \in Layers /\ l[t].cur \in Links /\ Sound(l[t])
      /\ l[t].op \in {"insert", "erase"}
  BY <1>1, WalkBasics DEF Sound
<1>3. CASE ~nodes[l[t].next].full
  <2>1. ClearFrom(t, l[t].layer, Begin(t), {}) /\ UNCHANGED nodes  BY <1>3 DEF NextValid, IsLinked
  <2> QED  BY <1>1, <2>1, BackList
<1>4. CASE nodes[l[t].next].full
  <2>1. /\ nodes' = IF l[t].op = "insert" THEN [nodes EXCEPT ![N].next[j] = l[t].next] ELSE nodes
        /\ Goto(t, "peek", r)
    BY <1>4 DEF NextValid, IsLinked
  <2>2. r \in Locals  BY <1>2, SetAgain
  <2>3. /\ r.op = l[t].op /\ r.node = l[t].node /\ r.key = l[t].key /\ r.top = l[t].top /\ r.layer = l[t].layer
        /\ r.cur = l[t].cur /\ r.again = TRUE /\ r.prevs = l[t].prevs /\ r.nexts = l[t].nexts
    BY <1>2 DEF Locals
  <2> HIDE DEF r
  <2>4. Stands(t, "peek", r) /\ Others(t)  BY <1>2, <2>1, <2>2, Moves DEF PCs
  <2>5. /\ SameCall(t) /\ PlaceStands(t) /\ l'[t].top = l[t].top /\ l'[t].pc = "peek" /\ l'[t].again /\ l'[t].cur = l[t].cur
        /\ l'[t].layer = j /\ l'[t].prevs = l[t].prevs /\ l'[t].nexts = l[t].nexts /\ Again(l'[t])
    BY <2>3, <2>4 DEF Stands, SameCall, PlaceStands, Again
  <2>6. Settled(l'[t]) = Settled(l[t])  BY <1>1, <2>5 DEF Settled, Walk
  <2>7. /\ j <= l[t].top /\ l[t].prevs[j] = l[t].cur /\ Candidate(B, t, j) /\ l[t].nexts[j] = l[t].next /\ nodes[l[t].cur].full
    BY <1>1, <1>2 DEF Good, Placing
  <2>8. l[t].nexts[j] \in Links /\ N \in Links  BY <1>2, <2>7 DEF Candidate, Sound, Links
  <2>9. Looking(B, t)' /\ Seeking(g, t)' /\ Seconding(t)'  BY <2>5 DEF Looking, Seeking, Seconding
  <2>10. CASE l[t].op = "erase"
    <3>1. UNCHANGED nodes /\ Still  BY <2>1, <2>10, SameStill
    <3>2. Standing(B, g, t)'  BY <1>1, <2>5, <3>1, StandingSame
    <3>3. Settles(B, g, t)'  BY <1>1, <2>5, <2>6, <3>1, SettlesSame DEF Walk
    <3>4. Candidate(B, t, j)'  BY <2>5, <2>7, <3>1 DEF Candidate, Fit, SameCall
    <3>5. Placing(B, t)'  BY <2>5, <2>7, <2>10, <3>1, <3>4 DEF Placing, SameCall
    <3> QED  BY <1>1, <2>4, <2>5, <2>9, <3>1, <3>2, <3>3, <3>5, QuietWalk DEF Walk
  <2>11. CASE l[t].op = "insert"
    <3>1. nodes' = [nodes EXCEPT ![N].next[j] = l[t].next]  BY <2>1, <2>11
    <3>2. Shape /\ NextOnly(N)  BY <1>2, <3>1 DEF Shape, NextOnly, TypeOK, NodeRec
    <3>3. /\ nodes'[N].next[j] = l[t].next
          /\ \A k \in Layers : k # j => nodes'[N].next[k] = nodes[N].next[k]
      BY <1>2, <2>8, <3>1 DEF TypeOK, NodeRec
    <3>4. Unborn(l[t]) /\ Unborn(l'[t])  BY <1>1, <2>5, <2>11 DEF Unborn, SameCall, Walk
    <3>5. N \notin B /\ ~nodes[N].full /\ nodes[N].holder = t /\ nodes[N].top = l[t].top  BY <1>1, <1>2, <3>4 DEF Good, Making
    <3>6. Standing(B, g, t)'
      <4>1. Fit(B, j, l[t].cur)'
        <5>1. Standing(B, g, t)  BY <1>2 DEF Good
        <5> QED  BY <1>1, <1>2, <2>5, <3>2, <5>1 DEF Standing, Fit, Shape
      <4> QED  BY <1>1, <1>2, <2>5, <2>11, <4>1 DEF Good, Standing, SameCall
    <3>7. Candidate(B, t, j)'
      <4>1. Fit(B, j, l[t].nexts[j])'  BY <2>5, <2>7, <2>8, <3>2 DEF Candidate, Fit, Shape
      <4> QED  BY <2>5, <2>7, <2>11, <4>1 DEF Candidate, SameCall
    <3>8. Placing(B, t)'
      <4>1. nodes'[l[t].cur].full  BY <1>2, <2>7, <3>2 DEF Shape
      <4> QED  BY <2>5, <2>7, <3>3, <3>7, <4>1 DEF Placing, SameCall
    <3>9. Settles(B, g, t)'
      <4> SUFFICES ASSUME NEW k \in Settled(l[t]) PROVE Pinned(B, g, t, k)'  BY <2>6 DEF Settles
      <4>1. Pinned(B, g, t, k)  BY <1>2 DEF Good, Settles
      <4>2. k \in Layers /\ k # j  BY <1>1, <1>2, LayerNat DEF Settled, Walk
      <4>3. l[t].prevs[k] \in Links /\ l[t].prevs[k] # tail /\ nodes[l[t].prevs[k]].full /\ l[t].nexts[k] \in Links \ {head}
            /\ Fit(B, k, l[t].prevs[k]) /\ Fit(B, k, l[t].nexts[k]) /\ ~Past(l[t].key, l[t].nexts[k]) /\ Past(l[t].key, l[t].prevs[k])
            /\ nodes[N].next[k] = l[t].nexts[k]
        BY <2>11, <4>1 DEF Pinned, Candidate
      <4>4. nodes'[l[t].prevs[k]].full /\ nodes'[l[t].prevs[k]].next = nodes[l[t].prevs[k]].next
        BY <3>2, <3>5, <4>3 DEF Shape, NextOnly
      <4>5. Fit(B, k, l[t].prevs[k])' /\ Fit(B, k, l[t].nexts[k])'  BY <2>5, <3>2, <4>3 DEF Fit, Shape
      <4>6. Candidate(B, t, k)'  BY <2>5, <2>11, <4>3, <4>5 DEF Candidate, SameCall
      <4>7. nodes'[N].next[k] = l[t].nexts[k]  BY <3>3, <4>2, <4>3
      <4>8. ~Inserted(l'[t], k) /\ ~Inserted(l[t], k)  BY <1>1, <2>5 DEF Inserted
      <4>9. nodes[l[t].prevs[k]].next[k] = l[t].nexts[k]  BY <2>11, <4>1, <4>8 DEF Pinned
      <4>10. l'[t].op = "insert" /\ l'[t].pc # "publish" /\ l'[t].pc # "store"  BY <2>5, <2>11 DEF SameCall
      <4> QED  BY <2>5, <4>3, <4>4, <4>5, <4>6, <4>7, <4>8, <4>9, <4>10 DEF Pinned, SameCall
    <3>10. Named(t)' /\ Making(B, t)' /\ Erasing(B, t)'
      <4>1. Named(t)'  BY <1>2, <2>5, <2>11 DEF Good, Named, SameCall
      <4>2. Making(B, t)'  BY <2>5, <2>8, <3>2, <3>5 DEF Making, Shape, SameCall
      <4> QED  BY <2>5, <2>11, <4>1, <4>2 DEF Erasing, SameCall
    <3>11. Good(B, g, t)'  BY <2>9, <3>6, <3>8, <3>9, <3>10 DEF Good
    <3>12. Whole(t) /\ NoneNew(t)
      <4>1. Whole(t)  BY <1>1, <2>5, WholeRest
      <4>2. ~Cut(l'[t])  BY <2>5, <2>11 DEF Cut, SameCall
      <4> QED  BY <2>5, <3>4, <4>1, <4>2 DEF NoneNew, NoBirth, SameCall
    <3> QED  BY <1>1, <2>4, <3>2, <3>4, <3>5, <3>11, <3>12, OwnNextStep
  <2> QED  BY <1>2, <2>10, <2>11
<1> QED  BY <1>3, <1>4

\* The second look has found what the first one did.
LEMMA PlacedHere == ASSUME NEW B, NEW g, ListInv(B, g), NEW t \in Threads, Answers(t), l[t].again, Same(t)
                    PROVE /\ l[t].layer <= l[t].top /\ l[t].op \in {"insert", "erase"}
                          /\ Pinned(B, g, t, l[t].layer)
<1> DEFINE j == l[t].layer
<1>1. l[t].pc = "look" /\ l[t].pc \in Walk /\ Again(l[t]) /\ l[t].next # Target(t)  BY DEF Answers, At, Again, Walk
<1>2. /\ Good(B, g, t) /\ Sound(l[t]) /\ j \in Layers /\ l[t].cur \in Links /\ l[t].cur # tail /\ Fit(B, j, l[t].cur) /\
         Order(B, g) /\ Lists(B, g)
  BY <1>1, WalkBasics, Basics
<1>3. l[t].op \in {"insert", "erase"}  BY <1>1, <1>2 DEF Sound
<1>4. j <= l[t].top /\ l[t].prevs[j] = l[t].cur /\ Candidate(B, t, j) /\ nodes[l[t].cur].full
      /\ (l[t].op = "insert" => nodes[l[t].node].next[j] = l[t].nexts[j])
  BY <1>1, <1>2 DEF Good, Placing
<1>5. l[t].next = l[t].nexts[j]  BY DEF Same
<1>6. ~Inserted(l[t], j) /\ l[t].pc # "store" /\ l[t].pc # "publish"  BY <1>1 DEF Inserted
<1>7. CASE l[t].op = "insert"
  <2>1. nodes[l[t].cur].next[j] = l[t].nexts[j]  BY <1>1, <1>2, <1>5, <1>7 DEF Good, Seconding
  <2>2. Past(l[t].key, l[t].cur)  BY <1>1, <1>2, <1>7 DEF Good, Standing
  <2> QED  BY <1>2, <1>3, <1>4, <1>6, <1>7, <2>1, <2>2 DEF Pinned
<1>8. CASE l[t].op = "erase"
  <2>1. nodes[l[t].cur].next[j] = l[t].node
    <3>1. CASE l[t].found  BY <1>1, <1>2, <1>8, <3>1 DEF Good, Seconding
    <3>2. CASE ~l[t].found
      <4>1. nodes[l[t].cur].next[j] = nodes[l[t].node].next[j]
        BY <1>1, <1>2, <1>4, <1>5, <1>8, <3>2 DEF Good, Seconding, Candidate
      <4>2. l[t].cur \in In(j) /\ l[t].node \in In(j) /\ l[t].node \in Nodes  BY <1>1, <1>4, <1>8, WalkBasics
      <4>3. l[t].cur = l[t].node  BY <1>2, <4>1, <4>2, OneBefore, Strangers
      <4>4. Bef(g, l[t].cur, l[t].node)  BY <1>1, <1>2, <1>8 DEF Good, Standing
      <4> QED  BY <4>3, <4>4, BefNot
    <3> QED  BY <3>1, <3>2
  <2> QED  BY <1>2, <1>3, <1>4, <1>6, <1>8, <2>1 DEF Pinned
<1> QED  BY <1>3, <1>4, <1>7, <1>8

\* A settled place stays settled.
LEMMA PinnedSame == ASSUME NEW B, NEW g, NEW t \in Threads, Still, SameCall(t), NEW j \in Layers, Pinned(B, g, t, j),
                           l[t].pc \in Walk, Sound(l[t]),
                           l[t].op \in {"insert", "erase"},
                           l'[t].pc \in Walk \cup {"unlink"} \/ (l'[t].pc = "store" /\ l[t].op = "insert" /\ l'[t].layer = 0),
                           l'[t].prevs[j] = l[t].prevs[j], l'[t].nexts[j] = l[t].nexts[j]
                    PROVE Pinned(B, g, t, j)'
<1>1. /\ l[t].prevs[j] \in Links \ {tail} /\ l[t].nexts[j] \in Links \ {head} /\ l[t].node \in Links
      /\ Fit(B, j, l[t].prevs[j]) /\ Fit(B, j, l[t].nexts[j]) /\ nodes[l[t].prevs[j]].full /\ Candidate(B, t, j)
  BY DEF Pinned, Candidate, Sound, Links
<1>2. Fit(B, j, l[t].prevs[j])' /\ Fit(B, j, l[t].nexts[j])'  BY <1>1 DEF Fit, Still
<1>3. Candidate(B, t, j)'  BY <1>1, <1>2 DEF Candidate, SameCall, Still
<1>4. nodes'[l[t].prevs[j]].full /\ nodes'[l[t].prevs[j]].next = nodes[l[t].prevs[j]].next /\
      nodes'[l[t].node].next = nodes[l[t].node].next
  BY <1>1 DEF Still
<1>5. ~Inserted(l[t], j) /\ ~Inserted(l'[t], j)  BY LayerNat DEF Inserted, Walk
<1>6. l[t].pc # "publish" /\ l'[t].pc # "publish" /\ ~(l'[t].pc = "store" /\ l'[t].layer > 0) /\ l[t].pc # "store"
  BY DEF Walk
<1>7. CASE l[t].op = "insert"
  <2>1. /\ Past(l[t].key, l[t].prevs[j]) /\ nodes[l[t].node].next[j] = l[t].nexts[j] /\
           nodes[l[t].prevs[j]].next[j] = l[t].nexts[j]
    BY <1>5, <1>7 DEF Pinned
  <2> QED  BY <1>1, <1>2, <1>3, <1>4, <1>5, <1>6, <1>7, <2>1 DEF Pinned, SameCall
<1>8. CASE l[t].op = "erase"
  <2>1. nodes[l[t].prevs[j]].next[j] = l[t].node  BY <1>6, <1>8 DEF Pinned
  <2> QED  BY <1>1, <1>2, <1>3, <1>4, <1>8, <2>1 DEF Pinned, SameCall
<1> QED  BY <1>7, <1>8

\* The place is settled, and the search goes down, or ends.
LEMMA PlacedList == ASSUME NEW B, NEW g, ListInv(B, g), MarkInv', NEW t \in Threads, Placed(t) PROVE ListInv(B, g)'
<1> DEFINE j == l[t].layer
           r == [l[t] EXCEPT !.layer = @ - 1, !.again = FALSE]
<1>1. l[t].pc = "look" /\ l[t].pc \in Walk /\ l[t].again /\ Answers(t) /\ UNCHANGED <<nodes, todo>> /\ Still
  BY SameStill DEF Placed, Answers, At, Fixed, Walk
<1>2. /\ TypeOK /\ l[t] \in Locals /\ Good(B, g, t) /\ j \in Layers /\ l[t].cur \in Links /\ Sound(l[t]) /\ l[t].cur # tail
  BY <1>1, WalkBasics
<1>3. CASE ~Same(t)
  <2>1. ClearFrom(t, l[t].layer, Begin(t), {l[t].next})  BY <1>3 DEF Placed
  <2> QED  BY <1>1, <2>1, BackList
<1>4. CASE Same(t) /\ j > 0
  <2>1. Goto(t, "peek", r)  BY <1>4 DEF Placed
  <2>2. j - 1 \in Layers  BY <1>2, <1>4, ListAssumption DEF Layers
  <2>3. r \in Locals  BY <1>2, <2>2, SetDown
  <2>4. /\ r.op = l[t].op /\ r.node = l[t].node /\ r.key = l[t].key /\ r.top = l[t].top /\ r.layer = j - 1
        /\ r.cur = l[t].cur /\ r.again = FALSE /\ r.prevs = l[t].prevs /\ r.nexts = l[t].nexts
    BY <1>2 DEF Locals
  <2> HIDE DEF r
  <2>5. Stands(t, "peek", r) /\ Others(t)  BY <1>2, <2>1, <2>3, Moves DEF PCs
  <2>6. /\ SameCall(t) /\ l'[t].top = l[t].top /\ l'[t].pc = "peek" /\ ~l'[t].again /\ l'[t].cur = l[t].cur
        /\ l'[t].layer = j - 1 /\ l'[t].prevs = l[t].prevs /\ l'[t].nexts = l[t].nexts
    BY <2>4, <2>5 DEF Stands, SameCall
  <2>7. Pinned(B, g, t, j) /\ l[t].op \in {"insert", "erase"}  BY <1>1, <1>4, PlacedHere
  <2>8. Standing(B, g, t)'
    <3>1. Standing(B, g, t)  BY <1>2 DEF Good
    <3>2. Fit(B, j - 1, l[t].cur)
      <4>1. l[t].cur \in Nodes => nodes[l[t].cur].top \in Int  BY <1>2, LayerNat DEF TypeOK, NodeRec
      <4>2. l[t].cur \in Nodes => l[t].cur \in B /\ j <= nodes[l[t].cur].top  BY <1>1, <3>1 DEF Standing, Fit
      <4>3. l[t].cur \in Nodes => j - 1 <= nodes[l[t].cur].top  BY <1>2, <4>1, <4>2, LayerNat
      <4> QED  BY <4>2, <4>3 DEF Fit
    <3> QED  BY <1>1, <1>2, <2>6, <3>1, <3>2, StandingAt DEF Standing
  <2>9. Looking(B, t)' /\ Seeking(g, t)' /\ Placing(B, t)' /\ Seconding(t)'
    BY <2>6 DEF Looking, Seeking, Placing, Seconding, Again
  <2>10. Settles(B, g, t)'
    <3> SUFFICES ASSUME NEW k \in Settled(l'[t]) PROVE Pinned(B, g, t, k)'  BY DEF Settles
    <3>1. k \in Layers /\ j - 1 < k /\ k <= l[t].top  BY <2>6 DEF Settled
    <3>2. k = j \/ k \in Settled(l[t])
      <4>1. k = j \/ j < k  BY <1>2, <3>1, LayerNat
      <4> QED  BY <1>1, <3>1, <4>1 DEF Settled
    <3>3. Pinned(B, g, t, k)  BY <1>2, <2>7, <3>2 DEF Good, Settles
    <3> QED  BY <1>1, <1>2, <2>6, <2>7, <3>1, <3>3, PinnedSame DEF Walk
  <2> QED  BY <1>1, <2>5, <2>6, <2>8, <2>9, <2>10, QuietWalk DEF Walk
<1>5. CASE Same(t) /\ j = 0
  <2>1. Goto(t, IF l[t].op = "insert" THEN "store" ELSE "unlink", l[t])  BY <1>5 DEF Placed
  <2>2. Pinned(B, g, t, j) /\ l[t].op \in {"insert", "erase"} /\ j <= l[t].top  BY <1>1, <1>5, PlacedHere
  <2>3. PICK p \in {"store", "unlink"} : Goto(t, p, l[t]) /\ p = (IF l[t].op = "insert" THEN "store" ELSE "unlink")  BY <2>1
  <2>4. Stands(t, p, l[t]) /\ Others(t)  BY <1>2, <2>3, Moves DEF PCs
  <2>5. /\ SameCall(t) /\ l'[t].pc = p /\ l'[t].top = l[t].top /\ l'[t].layer = 0 /\ l'[t].prevs = l[t].prevs /\
           l'[t].nexts = l[t].nexts
    BY <1>5, <2>4 DEF Stands, SameCall
  <2>6. Settles(B, g, t)'
    <3> SUFFICES ASSUME NEW k \in Settled(l'[t]) PROVE Pinned(B, g, t, k)'  BY DEF Settles
    <3>1. k \in Layers /\ k <= l[t].top  BY <2>5 DEF Settled
    <3>2. k = j \/ k \in Settled(l[t])
      <4>1. k = j \/ j < k  BY <1>5, <3>1, LayerNat
      <4> QED  BY <1>1, <3>1, <4>1 DEF Settled
    <3>3. Pinned(B, g, t, k)  BY <1>2, <2>2, <3>2 DEF Good, Settles
    <3> QED  BY <1>1, <1>2, <2>2, <2>3, <2>5, <3>1, <3>3, PinnedSame
  <2>7. l[t].node \in Links  BY <1>2, <2>2 DEF Sound, Links
  <2>8. l'[t].pc \notin Walk /\ ~Again(l'[t]) /\ l'[t].pc \in {"store", "unlink"}  BY <2>3, <2>5 DEF Walk, Again
  <2>9. Standing(B, g, t)' /\ Looking(B, t)' /\ Seeking(g, t)' /\ Placing(B, t)' /\ Seconding(t)'
    BY <2>8 DEF Standing, Looking, Seeking, Placing, Seconding, Walk
  <2>10. Unborn(l'[t]) <=> Unborn(l[t])  BY <1>1, <2>2, <2>3, <2>5 DEF Unborn, SameCall
  <2>11. Named(t)'
    <3>1. l'[t].layer <= l'[t].top  BY <1>5, <2>2, <2>5
    <3> QED  BY <1>2, <2>2, <2>3, <2>5, <3>1 DEF Good, Named, SameCall
  <2>12. Making(B, t)'
    <3>1. Making(B, t)  BY <1>2 DEF Good
    <3> QED  BY <1>1, <2>3, <2>5, <2>7, <2>8, <2>10, <3>1 DEF Making, SameCall
  <2>13. Erasing(B, t)'
    <3>1. Erasing(B, t)  BY <1>2 DEF Good
    <3> QED  BY <1>1, <2>3, <2>5, <2>7, <2>8, <3>1 DEF Erasing, SameCall
  <2>14. Whole(t)
    <3> SUFFICES ASSUME NEW i \in Layers PROVE ~Half(l[t], i) /\ ~Half(l'[t], i)  BY DEF Whole
    <3>1. ~(i < 0)  BY LayerNat
    <3> QED  BY <1>1, <2>2, <2>3, <2>5, <3>1 DEF Half, Inserted, Cutting, SameCall
  <2>15. NoneNew(t)  BY <2>3, <2>5, <2>10 DEF NoneNew, NoBirth, SameCall, Cut
  <2>16. Good(B, g, t)'  BY <2>6, <2>9, <2>11, <2>12, <2>13 DEF Good
  <2> QED  BY <1>1, <2>4, <2>14, <2>15, <2>16, QuietStep
<1> QED  BY <1>2, <1>3, <1>4, <1>5, LayerNat
-----------------------------------------------------------------------------
\* The order stays when it is the same.
LEMMA OrderSame == ASSUME NEW B, NEW g PROVE OrderKept(B, g, B, g)
BY DEF OrderKept

LEMMA ReleaseList == ASSUME NEW B, NEW g, ListInv(B, g), MarkInv', NEW t \in Threads, Release(t) PROVE ListInv(B, g)'
<1> DEFINE N == l[t].node
<1>1. TypeOK /\ l[t] \in Locals /\ Sound(l[t]) /\ l[t].pc = "release" /\ Good(B, g, t) /\ B \subseteq Nodes
  BY Basics DEF Release, At
<1>2. Goto(t, "count", l[t]) /\ Put(N, "holder", None) /\ UNCHANGED todo  BY DEF Release
<1>3. l[t].op = "insert" /\ N \in Links /\ nodes[N].holder = t  BY <1>1 DEF Good, Named, Making, Sound, Links
<1>4. Stands(t, "count", l[t]) /\ Others(t)  BY <1>1, <1>2, Moves DEF PCs
<1>5. SameCall(t) /\ l'[t].pc = "count"  BY <1>4 DEF Stands, SameCall
<1>6. \A n \in Links : /\ nodes'[n].full = nodes[n].full /\ nodes'[n].top = nodes[n].top /\ nodes'[n].next = nodes[n].next
                       /\ n # N => nodes'[n].holder = nodes[n].holder
  BY <1>1, <1>2 DEF Put, TypeOK, NodeRec
<1>7. ~Unborn(l'[t]) /\ ~Cut(l'[t])  BY <1>3, <1>5 DEF Unborn, Cut, Walk, SameCall
<1>8. Whole(t) /\ NoneNew(t) /\ NoBirth(t)  BY <1>1, <1>5, <1>7, WholeRest DEF NoneNew, NoBirth
<1>9. Lists(B, g)'  BY <1>4, <1>6, <1>8, Basics, InSame, ListsKept DEF SameFull
<1>10. Ends' /\ Alone' /\ Pending(B)'
  <2>1. Ends'  BY <1>6, Basics DEF Ends, Links
  <2> QED  BY <1>2, <1>4, <1>8, <2>1, Basics, AloneSame, PendingSame
<1>11. ASSUME NEW u \in Threads, u # t PROVE Kept(B, g, B, g, u)
  <2>1. Sound(l[u]) /\ Good(B, g, u)  BY Basics
  <2>2. TopsKept(B) /\ MarkedKept(u)  BY <1>1, <1>6 DEF TopsKept, MarkedKept, Links
  <2>3. l[u].op \in {"insert", "erase"} => l[u].node \in Links  BY <2>1 DEF Sound, Links
  <2>4. Unborn(l[u]) \/ l[u].pc = "release" => l[u].node # N  BY <1>3, <1>11, <2>1 DEF Good, Making
  <2>5. MadeKept(B, B, u)  BY <1>6, <2>1, <2>3, <2>4 DEF MadeKept, Unborn, Good, Named
  <2>6. CutKept(u)  BY <1>6, <2>3 DEF CutKept
  <2> QED  BY <2>2, <2>5, <2>6, OrderSame DEF Kept
<1>12. Good(B, g, t)'
  <2>1. Named(t)'  BY <1>1, <1>3, <1>5 DEF Good, Named, SameCall
  <2>2. Making(B, t)'  BY <1>5, <1>7 DEF Making
  <2> QED  BY <1>3, <1>5, <2>1, <2>2, RestGood DEF Resting, SameCall
<1> QED  BY <1>4, <1>9, <1>10, <1>11, <1>12, Basics, ListStep

\* A node is in the set from here, ...
LEMMA PublishList == ASSUME NEW B, NEW g, ListInv(B, g), MarkInv', NEW t \in Threads, Publish(t) PROVE ListInv(B, g)'
<1> DEFINE N == l[t].node
<1>1. TypeOK /\ l[t] \in Locals /\ Sound(l[t]) /\ l[t].pc = "publish" /\ Good(B, g, t) /\ B \subseteq Nodes
  BY Basics DEF Publish, At
<1>2. Goto(t, "release", l[t]) /\ Put(N, "full", TRUE) /\ UNCHANGED todo  BY DEF Publish
<1>3. l[t].op = "insert" /\ N \in Links /\ N \in Nodes  BY <1>1 DEF Good, Named, Sound, Links
<1>4. Stands(t, "release", l[t]) /\ Others(t)  BY <1>1, <1>2, Moves DEF PCs
<1>5. SameCall(t) /\ l'[t].pc = "release"  BY <1>4 DEF Stands, SameCall
<1>6. \A n \in Links : /\ nodes'[n].holder = nodes[n].holder /\ nodes'[n].top = nodes[n].top /\ nodes'[n].next = nodes[n].next
                       /\ nodes'[n].full = IF n = N THEN TRUE ELSE nodes[n].full
  BY ZenonT(40), <1>1, <1>2 DEF Put, TypeOK, NodeRec
<1>7. ~Unborn(l'[t]) /\ ~Cut(l'[t]) /\ Unborn(l[t])  BY <1>1, <1>3, <1>5 DEF Unborn, Cut, Walk, SameCall
<1>8. NoneNew(t) /\ NoBirth(t)  BY <1>7 DEF NoneNew, NoBirth
<1>9. nodes[N].holder = t /\ nodes[N].top = l[t].top /\ ~nodes[N].full  BY <1>1, <1>7 DEF Good, Making
<1>10. ASSUME NEW i \in Layers PROVE In(i)' = In(i)
  <2>1. (Half(l[t], i) <=> i <= nodes[N].top) /\ ~Half(l'[t], i)  BY <1>1, <1>3, <1>5, <1>9 DEF Half, Inserted, Cutting
  <2>2. ASSUME NEW n \in Links PROVE Member(i, n)' <=> Member(i, n)
    <3>1. (\E u \in Threads : l'[u].node = n /\ Half(l'[u], i)) <=> (\E u \in Threads \ {t} : l[u].node = n /\ Half(l[u], i))
      BY <1>4, <2>1 DEF Others
    <3>2. (\E u \in Threads : l[u].node = n /\ Half(l[u], i)) <=> \/ n = N /\ i <= nodes[N].top
                                                                  \/ \E u \in Threads \ {t} : l[u].node = n /\ Half(l[u], i)
      BY <2>1
    <3>3. nodes'[n].top = nodes[n].top /\ nodes'[n].full = (n = N \/ nodes[n].full)
      <4>1. nodes[n].full \in BOOLEAN  BY <1>1 DEF TypeOK, NodeRec
      <4> QED  BY <1>6, <4>1
    <3>4. CASE n = N  BY <1>3, <3>1, <3>2, <3>3, <3>4 DEF Member
    <3>5. CASE n # N  BY <3>1, <3>2, <3>3, <3>5 DEF Member
    <3> QED  BY <3>4, <3>5
  <2> QED  BY <2>2 DEF In
<1>11. Lists(B, g)'  BY <1>6, <1>10, Basics, ListsKept
<1>12. Ends' /\ Alone' /\ Pending(B)'
  <2>1. Ends'  BY <1>6, Basics DEF Ends, Links
  <2> QED  BY <1>2, <1>4, <1>8, <2>1, Basics, AloneSame, PendingSame
<1>13. ASSUME NEW u \in Threads, u # t PROVE Kept(B, g, B, g, u)
  <2>1. Sound(l[u]) /\ Good(B, g, u)  BY Basics
  <2>2. TopsKept(B) /\ MarkedKept(u)  BY <1>1, <1>6 DEF TopsKept, MarkedKept, Links
  <2>3. l[u].op \in {"insert", "erase"} => l[u].node \in Links  BY <2>1 DEF Sound, Links
  <2>4. Unborn(l[u]) => l[u].node # N  BY <1>7, <1>13, Makers
  <2>5. MadeKept(B, B, u)  BY <1>6, <2>1, <2>3, <2>4 DEF MadeKept, Unborn, Good, Named
  <2>6. CutKept(u)
    <3>1. l[u].op = "erase" /\ l[u].pc = "store" => Cut(l[u])  BY DEF Cut
    <3>2. Cut(l[u]) => l[u].node # N  BY <1>7, Basics DEF Alone
    <3> QED  BY <1>6, <2>3, <3>1, <3>2 DEF CutKept
  <2> QED  BY <2>2, <2>5, <2>6, OrderSame DEF Kept
<1>14. Good(B, g, t)'
  <2>1. Named(t)'  BY <1>1, <1>3, <1>5 DEF Good, Named, SameCall
  <2>2. Making(B, t)'  BY <1>3, <1>5, <1>6, <1>7, <1>9 DEF Making, SameCall
  <2> QED  BY <1>3, <1>5, <2>1, <2>2, RestGood DEF SameCall
<1> QED  BY <1>4, <1>11, <1>12, <1>13, <1>14, Basics, ListStep

\* ... and is not from here.
LEMMA UnlinkList == ASSUME NEW B, NEW g, ListInv(B, g), MarkInv', NEW t \in Threads, Unlink(t) PROVE ListInv(B, g)'
<1> DEFINE N == l[t].node
<1>1. TypeOK /\ l[t] \in Locals /\ Sound(l[t]) /\ l[t].pc = "unlink" /\ Good(B, g, t) /\ B \subseteq Nodes /\ MarkInv
  BY Basics DEF Unlink, At
<1>2. Goto(t, "store", l[t]) /\ Put(N, "full", FALSE) /\ UNCHANGED todo  BY DEF Unlink
<1>3. /\ l[t].op = "erase" /\ N \in Links /\ N \in Nodes /\ N \in B /\ nodes[N].full /\ nodes[N].top = l[t].top /\
         l[t].layer = 0
      /\ nodes[N].flag = t
  BY <1>1, EraserOwns DEF Good, Named, Erasing
<1>4. Stands(t, "store", l[t]) /\ Others(t)  BY <1>1, <1>2, Moves DEF PCs
<1>5. SameCall(t) /\ l'[t].pc = "store" /\ l'[t].layer = 0 /\ l'[t].top = l[t].top /\ l'[t].prevs = l[t].prevs /\
      l'[t].nexts = l[t].nexts
  BY <1>3, <1>4 DEF Stands, SameCall
<1>6. \A n \in Links : /\ nodes'[n].holder = nodes[n].holder /\ nodes'[n].top = nodes[n].top /\ nodes'[n].next = nodes[n].next
                       /\ nodes'[n].full = IF n = N THEN FALSE ELSE nodes[n].full
  BY ZenonT(40), <1>1, <1>2 DEF Put, TypeOK, NodeRec
<1>7. ~Unborn(l'[t])  BY <1>3, <1>5 DEF Unborn, SameCall
<1>8. NoBirth(t)  BY <1>7 DEF NoBirth
<1>9. \A u \in Threads : Unborn(l[u]) => l[u].node # N
  <2>1. \A u \in Threads : Making(B, u)  BY Basics DEF Good
  <2> QED  BY <1>3, <2>1 DEF Making
<1>10. ASSUME NEW i \in Layers PROVE In(i)' = In(i)
  <2>1. ~Half(l[t], i) /\ (Half(l'[t], i) <=> i <= nodes[N].top)
    <3>1. 0 <= i  BY LayerNat
    <3> QED  BY <1>1, <1>3, <1>5, <3>1 DEF Half, Inserted, Cutting, SameCall
  <2>2. ASSUME NEW n \in Links PROVE Member(i, n)' <=> Member(i, n)
    <3>1. (\E u \in Threads : l[u].node = n /\ Half(l[u], i)) <=> (\E u \in Threads \ {t} : l[u].node = n /\ Half(l[u], i))
      BY <2>1
    <3>2. (\E u \in Threads : l'[u].node = n /\ Half(l'[u], i)) <=> \/ n = N /\ i <= nodes[N].top
                                                                    \/ \E u \in Threads \ {t} : l[u].node = n /\ Half(l[u], i)
      BY <1>4, <1>5, <2>1 DEF Others, SameCall
    <3>3. nodes'[n].top = nodes[n].top /\ nodes'[n].full = IF n = N THEN FALSE ELSE nodes[n].full  BY <1>6
    <3>4. CASE n = N  BY <1>3, <3>1, <3>2, <3>3, <3>4 DEF Member
    <3>5. CASE n # N  BY <3>1, <3>2, <3>3, <3>5 DEF Member
    <3> QED  BY <3>4, <3>5
  <2> QED  BY <2>2 DEF In
<1>11. Lists(B, g)'  BY <1>6, <1>10, Basics, ListsKept
<1>12. Ends' /\ Alone' /\ Pending(B)'
  <2>1. Ends'  BY <1>3, <1>6, Basics, Strangers DEF Ends, Links
  <2>2. \A u \in Threads : u # t => l'[u] = l[u]  BY <1>4 DEF Others
  <2>3. \A u \in Threads : Unborn(l'[u]) => Unborn(l[u]) /\ l'[u].node = l[u].node /\ l[u].node # N  BY <1>7, <1>9, <2>2
  <2>4. \A v \in Threads : Cut(l'[v]) => l'[v].node = N \/ (Cut(l[v]) /\ l'[v].node = l[v].node)
    BY <1>5, <2>2 DEF SameCall
  <2>5. Alone  BY Basics
  <2>6. Alone'  BY <2>3, <2>4, <2>5 DEF Alone
  <2> QED  BY <1>2, <1>4, <1>8, <2>1, <2>6, Basics, PendingSame
<1>13. ASSUME NEW u \in Threads, u # t PROVE Kept(B, g, B, g, u)
  <2>1. Sound(l[u]) /\ Good(B, g, u)  BY Basics
  <2>2. TopsKept(B) /\ MarkedKept(u)  BY <1>1, <1>3, <1>6, <1>13 DEF TopsKept, MarkedKept, Links
  <2>3. l[u].op \in {"insert", "erase"} => l[u].node \in Links  BY <2>1 DEF Sound, Links
  <2>4. MadeKept(B, B, u)  BY <1>6, <1>9, <2>1, <2>3 DEF MadeKept, Unborn, Good, Named
  <2>5. CutKept(u)
    <3>1. l[u].op = "erase" /\ l[u].pc = "store" => nodes[l[u].node].flag = u  BY EraserOwns
    <3>2. l[u].op = "erase" /\ l[u].pc = "store" => l[u].node # N  BY <1>3, <1>13, <3>1
    <3> QED  BY <1>6, <2>3, <3>2 DEF CutKept
  <2> QED  BY <2>2, <2>4, <2>5, OrderSame DEF Kept
<1>14. Settles(B, g, t)'
  <2> SUFFICES ASSUME NEW j \in Settled(l'[t]) PROVE Pinned(B, g, t, j)'  BY DEF Settles
  <2>1. j \in Settled(l[t]) /\ j \in Layers  BY <1>1, <1>3, <1>5 DEF Settled
  <2>2. Pinned(B, g, t, j)  BY <1>1, <2>1 DEF Good, Settles
  <2>3. j \in Zone(l[t])  BY <1>1, <2>1, SettledZone
  <2>4. l[t].prevs[j] # N  BY <1>1, <1>3, <2>3, EraserOwns
  <2>5. /\ l[t].prevs[j] \in Links \ {tail} /\ l[t].nexts[j] \in Links \ {head} /\ Fit(B, j, l[t].prevs[j]) /\
           Fit(B, j, l[t].nexts[j])
        /\ nodes[l[t].prevs[j]].full /\ nodes[l[t].prevs[j]].next[j] = N /\ l[t].nexts[j] = nodes[N].next[j]
    BY <1>1, <1>3, <2>2 DEF Pinned, Candidate
  <2>6. Fit(B, j, l[t].prevs[j])' /\ Fit(B, j, l[t].nexts[j])'
    <3>1. nodes'[l[t].prevs[j]].top = nodes[l[t].prevs[j]].top /\ nodes'[l[t].nexts[j]].top = nodes[l[t].nexts[j]].top
      BY <1>6, <2>5
    <3> QED  BY <1>5, <2>5, <3>1 DEF Fit
  <2>7. nodes'[l[t].prevs[j]].full /\ nodes'[l[t].prevs[j]].next[j] = N /\ l[t].nexts[j] = nodes'[N].next[j]
    BY <1>3, <1>6, <2>4, <2>5
  <2>8. l'[t].op = "erase"  BY <1>3, <1>5 DEF SameCall
  <2> QED  BY <1>5, <2>5, <2>6, <2>7, <2>8 DEF Pinned, Candidate, SameCall
<1>15. Good(B, g, t)'
  <2>1. l'[t].pc \notin Walk /\ ~Again(l'[t])  BY <1>5 DEF Walk, Again
  <2>2. Standing(B, g, t)' /\ Looking(B, t)' /\ Seeking(g, t)' /\ Placing(B, t)' /\ Seconding(t)'
    BY <1>5, <2>1 DEF Standing, Looking, Seeking, Placing, Seconding, Walk
  <2>3. Named(t)'
    <3>1. l[t].top \in Layers  BY <1>1, <1>3 DEF TypeOK, NodeRec
    <3>2. 0 <= l[t].top  BY <3>1, LayerNat
    <3> QED  BY <1>1, <1>3, <1>5, <3>2 DEF Good, Named, SameCall
  <2>4. Making(B, t)'  BY <1>5, <1>7 DEF Making
  <2>5. Erasing(B, t)'
    <3>1. nodes'[N].top = l[t].top /\ ~nodes'[N].full  BY <1>3, <1>6
    <3> QED  BY <1>3, <1>5, <2>1, <3>1 DEF Erasing, SameCall
  <2> QED  BY <1>14, <2>2, <2>3, <2>4, <2>5 DEF Good
<1> QED  BY <1>4, <1>11, <1>12, <1>13, <1>15, Basics, ListStep
-----------------------------------------------------------------------------
\* The calls that are still to be made: one less.
LEMMA PendingLess ==
  ASSUME NEW B, Pending(B), todo \in [Threads -> Seq(Calls)], NEW t \in Threads, Others(t), todo[t] # <<>>,
         todo' = [todo EXCEPT ![t] = SubSeq(@, 2, Len(@))],
         Unborn(l'[t]) => todo[t][1].op = "insert" /\ l'[t].node = todo[t][1].node
  PROVE Pending(B)'
<1> DEFINE s == todo[t]
           To(u, i) == IF u = t THEN i + 1 ELSE i
<1>1. s \in Seq(Calls) /\ s # <<>> /\ 1 \in DOMAIN s  OBVIOUS
<1>2. \A i \in DOMAIN SubSeq(s, 2, Len(s)) : i \in Nat \ {0} /\ i + 1 \in DOMAIN s /\ SubSeq(s, 2, Len(s))[i] = s[i + 1]
  BY <1>1
<1>3. todo'[t] = SubSeq(s, 2, Len(s)) /\ \A u \in Threads : u # t => todo'[u] = todo[u]  OBVIOUS
<1>4. \A u \in Threads : \A i \in DOMAIN todo'[u] : /\ To(u, i) \in DOMAIN todo[u] /\ todo'[u][i] = todo[u][To(u, i)]
                                                    /\ u = t => To(u, i) # 1
  <2> SUFFICES ASSUME NEW u \in Threads, NEW i \in DOMAIN todo'[u]
               PROVE /\ To(u, i) \in DOMAIN todo[u] /\ todo'[u][i] = todo[u][To(u, i)]
                     /\ u = t => To(u, i) # 1
    OBVIOUS
  <2>1. CASE u = t
    <3>1. i \in Nat \ {0} /\ i + 1 \in DOMAIN s /\ SubSeq(s, 2, Len(s))[i] = s[i + 1]  BY <1>2, <1>3, <2>1
    <3>2. To(u, i) = i + 1 /\ i + 1 # 1  BY <2>1, <3>1
    <3> QED  BY <1>3, <2>1, <3>1, <3>2
  <2>2. CASE u # t  BY <1>3, <2>2
  <2> QED  BY <2>1, <2>2
<1>5. \A u \in Threads : \A i, j : To(u, i) = To(u, j) /\ i \in Nat /\ j \in Nat => i = j  OBVIOUS
<1>6. \A u \in Threads : \A i \in DOMAIN todo'[u] : i \in Nat
  <2>1. \A u \in Threads : u # t => \A i \in DOMAIN todo[u] : i \in Nat  OBVIOUS
  <2> QED  BY <1>2, <1>3, <2>1
<1> HIDE DEF To, s
<1> SUFFICES ASSUME NEW u \in Threads, NEW i \in DOMAIN todo'[u], todo'[u][i].op = "insert"
             PROVE /\ todo'[u][i].node \notin B
                   /\ \A v \in Threads : Unborn(l'[v]) => l'[v].node # todo'[u][i].node
                   /\ \A v \in Threads : \A j \in DOMAIN todo'[v] :
                        todo'[v][j].op = "insert" /\ todo'[v][j].node = todo'[u][i].node => v = u /\ j = i
  BY DEF Pending
<1>7. PICK k \in DOMAIN todo[u] : k = To(u, i) /\ todo'[u][i] = todo[u][k] /\ (u = t => k # 1)  BY <1>4
<1>8. /\ todo[u][k].op = "insert" /\ todo[u][k].node = todo'[u][i].node  BY <1>7
<1>9. /\ todo[u][k].node \notin B
      /\ \A v \in Threads : Unborn(l[v]) => l[v].node # todo[u][k].node
      /\ \A v \in Threads : \A j \in DOMAIN todo[v] :
           todo[v][j].op = "insert" /\ todo[v][j].node = todo[u][k].node => v = u /\ j = k
  BY <1>8 DEF Pending
<1>10. ASSUME NEW v \in Threads, Unborn(l'[v]) PROVE l'[v].node # todo[u][k].node
  <2>1. CASE v # t  BY <1>9, <1>10, <2>1 DEF Others
  <2>2. CASE v = t
    <3>1. todo[t][1].op = "insert" /\ l'[t].node = todo[t][1].node  BY <1>10, <2>2
    <3>2. 1 \in DOMAIN todo[t]  BY <1>1 DEF s
    <3>3. todo[t][1].node = todo[u][k].node => t = u /\ 1 = k  BY <1>9, <3>1, <3>2
    <3> QED  BY <1>7, <2>2, <3>1, <3>3
  <2> QED  BY <2>1, <2>2
<1>11. ASSUME NEW v \in Threads, NEW j \in DOMAIN todo'[v], todo'[v][j].op = "insert", todo'[v][j].node = todo[u][k].node
       PROVE v = u /\ j = i
  <2>1. PICK m \in DOMAIN todo[v] : m = To(v, j) /\ todo'[v][j] = todo[v][m]  BY <1>4
  <2>2. todo[v][m].op = "insert" /\ todo[v][m].node = todo[u][k].node  BY <1>11, <2>1
  <2>3. v = u /\ m = k  BY <1>9, <2>2
  <2>4. To(u, j) = To(u, i) /\ i \in Nat /\ j \in Nat  BY <1>6, <1>7, <2>1, <2>3
  <2> QED  BY <1>5, <2>3, <2>4
<1> QED  BY <1>8, <1>9, <1>10, <1>11

\* A thread begins an erase or a find.
LEMMA CallQuiet ==
  ASSUME NEW B, NEW g, ListInv(B, g), MarkInv', NEW t \in Threads, NEW p, NEW r \in Locals, Goto(t, p, r),
         UNCHANGED nodes, todo[t] # <<>>,
         todo' = [todo EXCEPT ![t] = SubSeq(@, 2, Len(@))], l[t].pc = "idle",
         (p = "removed" /\ r.op = "erase" /\ r.key = Key[r.node]) \/ (p = "start" /\ r.op = "find")
  PROVE ListInv(B, g)'
<1>1. TypeOK /\ p \in PCs \ {"idle"} /\ todo \in [Threads -> Seq(Calls)]  BY Basics DEF PCs, TypeOK
<1>2. Stands(t, p, r) /\ Others(t) /\ Still  BY <1>1, Moves, SameStill
<1>3. l'[t].pc = p /\ l'[t].op = r.op /\ l'[t].node = r.node /\ l'[t].key = r.key  BY <1>2 DEF Stands
<1>4. ~Unborn(l'[t]) /\ ~Cut(l'[t])  BY <1>3 DEF Unborn, Cut, Walk
<1>5. Whole(t) /\ NoneNew(t)  BY <1>3, <1>4, WholeRest DEF NoneNew, NoBirth
<1>6. Good(B, g, t)'
  <2>1. Named(t)'  BY <1>3 DEF Named
  <2>2. Making(B, t)'  BY <1>3, <1>4 DEF Making
  <2> QED  BY <1>3, <2>1, <2>2, RestGood DEF Resting
<1>7. Pending(B)'  BY <1>1, <1>2, <1>4, Basics, PendingLess
<1>8. \A u \in Threads : u # t => Kept(B, g, B, g, u)  BY <1>2, StillKept
<1>9. SameFull /\ \A x \in Ground(B) \cap Links : nodes'[x].next = nodes[x].next  BY <1>2 DEF Still, SameFull
<1>10. Lists(B, g)'  BY <1>2, <1>5, <1>9, Basics, InSame, ListsKept
<1>11. Alone' /\ Ends'  BY <1>2, <1>5, Basics, AloneSame, EndsSame
<1> QED  BY <1>2, <1>6, <1>7, <1>8, <1>10, <1>11, Basics, ListStep

\* A thread begins an insert.
LEMMA CallInsertList ==
  ASSUME NEW B, NEW g, ListInv(B, g), Fresh, MarkInv', NEW t \in Threads, NEW N \in Nodes, NEW i \in Layers,
         CallInsert(t, N, i),
         todo[t] # <<>>, todo[t][1].op = "insert", todo[t][1].node = N,
         todo' = [todo EXCEPT ![t] = SubSeq(@, 2, Len(@))], l[t].pc = "idle"
  PROVE ListInv(B, g)'
<1> DEFINE r == [Idle EXCEPT !.op = "insert", !.node = N, !.key = Key[N], !.top = i]
           new == [next |-> [j \in Layers |-> None], full |-> FALSE, flag |-> None,
                   removed |-> FALSE, top |-> i, holder |-> t]
<1>1. TypeOK /\ B \subseteq Nodes /\ todo \in [Threads -> Seq(Calls)] /\ todo[t] \in Seq(Calls) /\ Pending(B) /\ MarkInv
  BY Basics DEF TypeOK
<1>2. nodes' = [nodes EXCEPT ![N] = new] /\ Goto(t, "start", r) /\ nodes[N].holder = None  BY DEF CallInsert, Held
<1>3. r \in Locals /\ "start" \in PCs \ {"idle"}  BY SetInsert DEF PCs
<1>4. r.op = "insert" /\ r.node = N /\ r.key = Key[N] /\ r.top = i  BY DEF Idle
<1>5. nodes[N].flag = None /\ ~nodes[N].full  BY DEF Fresh, At
<1>6. 1 \in DOMAIN todo[t]  BY <1>1
<1>7. N \notin B /\ \A u \in Threads : Unborn(l[u]) => l[u].node # N  BY <1>1, <1>6 DEF Pending
<1>8. N \in Links /\ N \notin Ground(B)  BY <1>7, Strangers DEF Links, Ground
<1>9. /\ new.full = FALSE /\ new.top = i /\ new.holder = t  OBVIOUS
<1> HIDE DEF r, new
<1>10. Stands(t, "start", r) /\ Others(t)  BY <1>1, <1>2, <1>3, Moves
<1>11. l'[t].pc = "start" /\ l'[t].op = "insert" /\ l'[t].node = N /\ l'[t].key = Key[N] /\ l'[t].top = i
  BY <1>4, <1>10 DEF Stands
<1>12. nodes'[N] = new /\ \A n \in Links : n # N => nodes'[n] = nodes[n]  BY <1>1, <1>2, <1>8 DEF TypeOK
<1>13. Unborn(l'[t]) /\ ~Cut(l'[t])  BY <1>11 DEF Unborn, Cut
<1>14. Whole(t)  BY <1>11, WholeRest
<1>15. \A u \in Threads : Cut(l[u]) => l[u].node # N
  <2> SUFFICES ASSUME NEW u \in Threads, Cut(l[u]) PROVE l[u].node # N  OBVIOUS
  <2>1. l[u].op = "erase" /\ l[u].pc \in {"store", "clear", "count", "scan", "top"}  BY DEF Cut
  <2>2. nodes[l[u].node].flag = u  BY <2>1, EraserOwns
  <2> QED  BY <1>5, <2>2, ListAssumption
<1>16. ASSUME NEW j \in Layers PROVE In(j)' = In(j)
  <2>1. N \notin In(j)  BY <1>8, Basics DEF Lists
  <2>2. \A u \in Threads : Half(l'[u], j) <=> Half(l[u], j)
    BY <1>10, <1>14 DEF Others, Whole
  <2>3. \A u \in Threads : Half(l[u], j) => l'[u].node = l[u].node /\ l[u].node # N
    <3> SUFFICES ASSUME NEW u \in Threads, Half(l[u], j) PROVE l'[u].node = l[u].node /\ l[u].node # N  OBVIOUS
    <3>1. u # t  BY <1>14 DEF Whole
    <3>2. l[u].node = N => N \in In(j)  BY <1>8 DEF In, Member
    <3> QED  BY <1>10, <2>1, <3>1, <3>2 DEF Others
  <2>4. \A n \in Links : n # N => (Member(j, n)' <=> Member(j, n))  BY <1>12, <2>2, <2>3 DEF Member
  <2>5. ~Member(j, N)'
    <3>1. ~nodes'[N].full  BY <1>9, <1>12
    <3>2. N # head /\ N # tail  BY Strangers
    <3> QED  BY <2>2, <2>3, <3>1, <3>2 DEF Member
  <2>6. ~Member(j, N)  BY <1>8, <2>1 DEF In
  <2> QED  BY <2>4, <2>5, <2>6 DEF In
<1>17. Lists(B, g)'
  <2>1. \A x \in Ground(B) \cap Links : nodes'[x].next = nodes[x].next  BY <1>8, <1>12
  <2> QED  BY <1>16, <2>1, Basics, ListsKept
<1>18. Ends'
  <2>1. nodes'[head] = nodes[head] /\ nodes'[tail] = nodes[tail]  BY <1>12, Strangers DEF Links
  <2> QED  BY <2>1, Basics DEF Ends
<1>19. Alone'
  <2>1. \A u \in Threads : u # t => l'[u] = l[u]  BY <1>10 DEF Others
  <2>2. Alone  BY Basics
  <2> QED  BY <1>11, <1>13, <1>15, <2>1, <2>2 DEF Alone
<1>20. Pending(B)'  BY <1>1, <1>10, <1>11, PendingLess
<1>21. ASSUME NEW u \in Threads, u # t PROVE Kept(B, g, B, g, u)
  <2>1. Sound(l[u]) /\ Good(B, g, u)  BY Basics
  <2>2. TopsKept(B)  BY <1>1, <1>7, <1>12 DEF TopsKept, Links
  <2>3. MarkedKept(u)  BY <1>5, <1>12 DEF MarkedKept
  <2>4. l[u].op \in {"insert", "erase"} => l[u].node \in Links  BY <2>1 DEF Sound, Links
  <2>5. l[u].pc = "release" => l[u].node # N  BY <1>2, <2>1, ListAssumption DEF Good, Making
  <2>6. MadeKept(B, B, u)
    <3>1. Unborn(l[u]) \/ l[u].pc = "release" => nodes'[l[u].node] = nodes[l[u].node]
      BY <1>7, <1>12, <2>1, <2>4, <2>5 DEF Unborn, Good, Named
    <3> QED  BY <3>1 DEF MadeKept
  <2>7. CutKept(u)
    <3>1. l[u].op = "erase" /\ l[u].pc = "store" => nodes'[l[u].node] = nodes[l[u].node]
      BY <1>7, <1>12, <2>1, <2>4 DEF Good, Erasing
    <3> QED  BY <3>1 DEF CutKept
  <2> QED  BY <2>2, <2>3, <2>6, <2>7, OrderSame DEF Kept
<1>22. Good(B, g, t)'
  <2>1. Named(t)'  BY <1>11 DEF Named
  <2>2. Making(B, t)'
    <3>1. nodes'[N].holder = t /\ ~nodes'[N].full /\ nodes'[N].top = i  BY <1>9, <1>12
    <3> QED  BY <1>7, <1>11, <3>1 DEF Making
  <2> QED  BY <1>11, <2>1, <2>2, RestGood DEF Resting
<1> QED  BY <1>10, <1>17, <1>18, <1>19, <1>20, <1>21, <1>22, Basics, ListStep

LEMMA CallList == ASSUME NEW B, NEW g, ListInv(B, g), Fresh, MarkInv', NEW t \in Threads, Call(t) PROVE ListInv(B, g)'
<1> DEFINE first == todo[t][1]
<1>1. TypeOK /\ l[t].pc = "idle" /\ todo[t] # <<>> /\ todo[t] \in Seq(Calls) /\
      todo' = [todo EXCEPT ![t] = SubSeq(@, 2, Len(@))]
  BY Basics DEF Call, At, TypeOK
<1>2. first \in Calls  BY <1>1
<1>3. first.node \in Nodes /\ first.tops \subseteq Layers  BY <1>2 DEF Calls
<1>4. CASE first.op = "insert" /\ \E i \in first.tops : CallInsert(t, first.node, i)
  <2>1. PICK i \in Layers : CallInsert(t, first.node, i)  BY <1>3, <1>4
  <2> QED  BY <1>1, <1>3, <1>4, <2>1, CallInsertList
<1>5. CASE CallErase(t, first.node)
  <2> DEFINE n == first.node
             r == [Idle EXCEPT !.op = "erase", !.node = n, !.key = Key[n], !.top = nodes[n].top]
  <2>1. nodes[n].top \in Layers  BY <1>1, <1>3 DEF TypeOK, NodeRec, Links
  <2>2. r \in Locals  BY <1>3, <2>1, SetErase
  <2>3. r.op = "erase" /\ r.node = n /\ r.key = Key[n]  BY DEF Idle
  <2>4. Goto(t, "removed", r) /\ UNCHANGED nodes  BY <1>5 DEF CallErase
  <2> HIDE DEF r, n
  <2> QED  BY <1>1, <2>2, <2>3, <2>4, CallQuiet
<1>6. CASE CallFind(t, Key[first.node])
  <2> DEFINE k == Key[first.node]
             r == [Idle EXCEPT !.op = "find", !.key = k]
  <2>1. k \in Int  BY <1>3, ListAssumption
  <2>2. r \in Locals  BY ZenonT(40), <2>1, SetFind
  <2>3. r.op = "find"  BY SMTT(40) DEF Idle
  <2>4. Goto(t, "start", r) /\ UNCHANGED nodes  BY SMTT(40), <1>6 DEF CallFind
  <2> HIDE DEF r, k
  <2> QED  BY <1>1, <2>2, <2>3, <2>4, CallQuiet
<1> QED  BY <1>4, <1>5, <1>6 DEF Call
-----------------------------------------------------------------------------
\* The thread that is about to store a next pointer finds the one that it is to replace.
LEMMA StoreBasics ==
  ASSUME NEW B, NEW g, ListInv(B, g), NEW t \in Threads, l[t].pc = "store"
  PROVE LET i == l[t].layer
            p == l[t].prevs[i]
            w == l[t].nexts[i]
            N == l[t].node
        IN /\ i \in Layers /\ i <= l[t].top /\ l[t].op \in {"insert", "erase"} /\ N \in Nodes /\ N \in Links /\ ~nodes[N].full
           /\ p \in In(i) /\ p \in Links /\ p # tail /\ nodes[p].full /\ nodes[p].flag = t /\ p # N /\ p # None
           /\ nodes[p].next[i] = Expected(t)
           /\ w \in In(i) /\ w \in Links /\ nodes[w].full /\ w # N /\ w # head
           /\ i \in Settled(l[t])
<1> DEFINE i == l[t].layer
           p == l[t].prevs[i]
           w == l[t].nexts[i]
           N == l[t].node
<1>1. l[t] \in Locals /\ Sound(l[t]) /\ Good(B, g, t) /\ MarkInv /\ Lists(B, g) /\ Order(B, g)  BY Basics
<1>2. i \in Layers /\ i <= l[t].top /\ l[t].op \in {"insert", "erase"} /\ N \in Nodes /\ N \in Links
  BY <1>1 DEF Locals, Sound, Change, Good, Named, Links
<1>3. i \in Settled(l[t])  BY <1>2 DEF Settled
<1>4. Pinned(B, g, t, i)  BY <1>1, <1>3 DEF Good, Settles
<1>5. nodes[p].flag = t /\ i \in Zone(l[t])  BY SMTT(40), <1>1, <1>3, SettledZone
<1>6. p \in Links /\ p # tail /\ p # None /\ nodes[p].full /\ Fit(B, i, p) /\ w \in Links /\ w # head
  BY <1>4, ListAssumption DEF Pinned, Candidate
<1>7. p \in In(i)  BY <1>2, <1>6, FullIn
<1>8. ~nodes[N].full
  <2>1. l[t].op = "insert" => Unborn(l[t])  BY DEF Unborn
  <2> QED  BY <1>1, <1>2, <2>1 DEF Good, Making, Erasing
<1>9. p # N  BY <1>6, <1>8
<1>10. CASE l[t].op = "insert"
  <2>1. ~Inserted(l[t], i) /\ ~Half(l[t], i)
    <3>1. ~(i < i)  BY <1>2, LayerNat
    <3> QED  BY <1>10, <3>1 DEF Half, Inserted, Cutting
  <2>2. nodes[p].next[i] = w  BY SMTT(40), <1>4, <1>10, <2>1 DEF Pinned
  <2>3. w \in In(i) /\ nodes[w].full
    <3>1. w \in In(i)  BY SMTT(40), <1>2, <1>6, <1>7, <2>2, NextMember
    <3>2. nodes[w].full  BY SMTT(40), <1>2, <1>5, <1>6, <1>7, <2>1, <2>2, Protected
    <3> QED  BY <3>1, <3>2
  <2>4. w # N  BY <1>8, <2>3
  <2> QED  BY <1>2, <1>3, <1>5, <1>6, <1>7, <1>8, <1>9, <1>10, <2>2, <2>3, <2>4 DEF Expected
<1>11. CASE l[t].op = "erase"
  <2>1. nodes[p].next[i] = N /\ nodes[N].next[i] = w
    <3>1. i <= i  BY <1>2, LayerNat
    <3> QED  BY <1>4, <1>11, <3>1 DEF Pinned, Candidate
  <2>2. N \in In(i) /\ N # tail /\ nodes[N].flag = t
    <3>1. nodes[N].flag = t  BY SMTT(40), <1>11, EraserOwns
    <3>2. N \in In(i)  BY <1>2, <1>6, <1>7, <2>1, NextMember
    <3> QED  BY SMTT(40), <1>2, <3>1, <3>2, Strangers
  <2>3. w \in In(i) /\ Bef(g, N, w)  BY <1>2, <2>1, <2>2, NextMember
  <2>4. w # N  BY <2>3, BefNot
  <2>5. nodes[w].full  BY <1>2, <2>1, <2>2, <2>4, Protected
  <2> QED  BY <1>2, <1>3, <1>5, <1>6, <1>7, <1>8, <1>9, <1>11, <2>1, <2>3, <2>4, <2>5 DEF Expected
<1> QED  BY <1>2, <1>10, <1>11

\* A new node takes its place before the nodes of its key.
Agree(B, g, h) == \A x, y \in Ground(B) : Bef(g, x, y) <=> Bef(h, x, y)
Newest(B, g, N) == [g EXCEPT ![N] = {y \in B : Key[y] = Key[N]}]

\* With a new node first among those of its key, the order is one.
LEMMA Grows == ASSUME NEW B, NEW g, Order(B, g), NEW N \in Nodes \ B
               PROVE LET h == Newest(B, g, N)
                     IN /\ Order(B \cup {N}, h) /\ Agree(B, g, h)
                        /\ \A y \in Ground(B) : y # head /\ ~Past(Key[N], y) => Bef(h, N, y)
<1> DEFINE h == Newest(B, g, N)
           A == B \cup {N}
<1>1. B \subseteq Nodes /\ g \in [Nodes -> SUBSET Nodes] /\ Ordered(B, g)  BY DEF Order, Ordered
<1>2. h \in [Nodes -> SUBSET Nodes] /\ h[N] = {y \in B : Key[y] = Key[N]} /\ \A x \in B : h[x] = g[x]
  BY <1>1 DEF Newest
<1>3. N \notin Ground(B) /\ N # head /\ N # tail  BY Strangers DEF Ground
<1> HIDE DEF h
<1>4. Agree(B, g, h)
  <2> SUFFICES ASSUME NEW x \in Ground(B), NEW y \in Ground(B) PROVE Bef(g, x, y) <=> Bef(h, x, y)  BY DEF Agree
  <2>1. x \in B \/ x = head \/ x = tail  BY DEF Ground
  <2> QED  BY <1>2, <2>1, Strangers DEF Bef
<1>5. Ordered(A, h)
  <2>1. A \subseteq Nodes  BY <1>1
  <2>2. ASSUME NEW x \in A PROVE h[x] \subseteq A /\ x \notin h[x]  BY <1>1, <1>2 DEF Ordered
  <2>3. ASSUME NEW x \in A, NEW y \in A, y \in h[x] PROVE Key[y] = Key[x]
    <3>1. CASE x = N  BY <1>2, <2>3, <3>1
    <3>2. CASE x # N
      <4>1. x \in B /\ y \in g[x] /\ y \in B  BY <1>1, <1>2, <2>3, <3>2 DEF Ordered
      <4> QED  BY <1>1, <4>1 DEF Ordered
    <3> QED  BY <3>1, <3>2
  <2>4. ASSUME NEW x \in A, NEW y \in A, Key[x] = Key[y] PROVE x = y \/ x \in h[y] \/ y \in h[x]
    <3>1. CASE x = N  BY <1>2, <2>4, <3>1
    <3>2. CASE y = N  BY <1>2, <2>4, <3>2
    <3>3. CASE x \in B /\ y \in B  BY <1>1, <1>2, <2>4, <3>3 DEF Ordered
    <3> QED  BY <3>1, <3>2, <3>3
  <2>5. ASSUME NEW x \in A, NEW y \in A, NEW z \in A, y \in h[x], z \in h[y] PROVE z \in h[x]
    <3>1. y \in B
      <4>1. CASE x = N  BY <1>2, <2>5, <4>1
      <4>2. CASE x # N  BY <1>1, <1>2, <2>5, <4>2 DEF Ordered
      <4> QED  BY <4>1, <4>2
    <3>2. z \in B /\ z \in g[y]  BY <1>1, <1>2, <2>5, <3>1 DEF Ordered
    <3>3. CASE x = N
      <4>1. Key[y] = Key[N] /\ Key[z] = Key[y]  BY <1>2, <2>3, <2>5, <3>3
      <4> QED  BY <1>2, <3>2, <3>3, <4>1
    <3>4. CASE x # N
      <4>1. x \in B /\ y \in g[x]  BY <1>2, <2>5, <3>4
      <4> QED  BY <1>1, <1>2, <3>1, <3>2, <4>1 DEF Ordered
    <3> QED  BY <3>3, <3>4
  <2> QED  BY <2>1, <2>2, <2>3, <2>4, <2>5 DEF Ordered
<1>6. ASSUME NEW y \in Ground(B), y # head, ~Past(Key[N], y) PROVE Bef(h, N, y)
  <2>1. CASE y = tail  BY <1>3, <2>1, Strangers DEF Bef
  <2>2. CASE y # tail
    <3>1. y \in B /\ y \in Nodes  BY <1>1, <1>6, <2>2 DEF Ground
    <3>2. ~(Key[N] > Key[y]) /\ Key[N] \in Int /\ Key[y] \in Int  BY <1>6, <3>1, Strangers DEF Past
    <3>3. Key[N] < Key[y] \/ Key[y] = Key[N]  BY <3>2
    <3>4. Key[N] < Key[y] \/ y \in h[N]  BY <1>2, <3>1, <3>3
    <3> QED  BY <1>3, <1>6, <3>1, <3>4 DEF Bef
  <2> QED  BY <2>1, <2>2
<1>7. IsFiniteSet(A)  BY FS_AddElement DEF Order
<1>8. Order(A, h)  BY <1>2, <1>5, <1>7 DEF Order
<1> QED  BY <1>4, <1>6, <1>8 DEF h

\* What a store does.
Stored(t) ==
  LET i == l[t].layer
      p == l[t].prevs[i]
  IN \A x \in Links : /\ nodes'[x].full = nodes[x].full /\ nodes'[x].top = nodes[x].top /\ nodes'[x].holder = nodes[x].holder
                      /\ x # p => nodes'[x].next = nodes[x].next
                      /\ x = p => \A j \in Layers : nodes'[x].next[j] = IF j = i THEN Desired(t) ELSE nodes[x].next[j]
GoesOn(t) == /\ SameCall(t) /\ l'[t].top = l[t].top /\ l'[t].prevs = l[t].prevs /\ l'[t].nexts = l[t].nexts
             /\ \/ l[t].layer < l[t].top /\ l'[t].pc = "store" /\ l'[t].layer = l[t].layer + 1
                \/ l[t].layer = l[t].top /\ l'[t].layer = l[t].layer /\ l'[t].pc = IF l[t].op = "insert" THEN "publish" ELSE "count"

\* The store succeeds.
LEMMA StoreDoes == ASSUME NEW B, NEW g, ListInv(B, g), NEW t \in Threads, Store(t)
                   PROVE l[t].pc = "store" /\ Stored(t) /\ GoesOn(t) /\ Others(t) /\ UNCHANGED todo
<1> DEFINE i == l[t].layer
           p == l[t].prevs[i]
           r == [l[t] EXCEPT !.layer = @ + 1]
<1>1. TypeOK /\ l[t] \in Locals /\ l[t].pc = "store" /\ UNCHANGED todo  BY Basics DEF Store, At
<1>2. i \in Layers /\ i <= l[t].top /\ l[t].op \in {"insert", "erase"} /\ p \in Links /\ nodes[p].next[i] = Expected(t)
  BY SMTT(40), <1>1, StoreBasics
<1>3. nodes' = [nodes EXCEPT ![p].next[i] = Desired(t)]  BY SMTT(40), <1>2 DEF Store
<1>4. Stored(t)
  <2>1. nodes \in [Links -> NodeRec]  BY <1>1 DEF TypeOK
  <2> HIDE DEF p, i
  <2>2. ASSUME NEW x \in Links, x # p PROVE nodes'[x] = nodes[x]  BY <1>3, <2>1, <2>2
  <2>3. nodes[p] \in NodeRec /\ nodes'[p] = [nodes[p] EXCEPT !.next[i] = Desired(t)]  BY <1>2, <1>3, <2>1
  <2>4. /\ nodes'[p].full = nodes[p].full /\ nodes'[p].top = nodes[p].top /\ nodes'[p].holder = nodes[p].holder
        /\ \A j \in Layers : nodes'[p].next[j] = IF j = i THEN Desired(t) ELSE nodes[p].next[j]
    BY <2>3 DEF NodeRec
  <2> QED  BY Zenon, <2>2, <2>4 DEF Stored, p, i
<1>5. GoesOn(t) /\ Others(t)
  <2>1. CASE i < l[t].top
    <3>1. Goto(t, "store", r)  BY <2>1 DEF Store
    <3>2. i + 1 \in Layers  BY <1>1, <1>2, <2>1, ListAssumption DEF Locals, Layers
    <3>3. r \in Locals  BY <1>1, <3>2, SetLayer
    <3>4. /\ r.op = l[t].op /\ r.node = l[t].node /\ r.key = l[t].key /\ r.top = l[t].top /\ r.layer = i + 1
          /\ r.prevs = l[t].prevs /\ r.nexts = l[t].nexts
      BY <1>1 DEF Locals
    <3> HIDE DEF r
    <3>5. Stands(t, "store", r) /\ Others(t)  BY <1>1, <3>1, <3>3, Moves DEF PCs
    <3> QED  BY SMTT(40), <2>1, <3>4, <3>5 DEF Stands, GoesOn, SameCall
  <2>2. CASE ~(i < l[t].top)
    <3>1. i = l[t].top
      <4>1. l[t].top \in Int /\ i \in Int  BY SMTT(40), <1>1, <1>2, LayerNat DEF Locals
      <4> QED  BY <1>2, <2>2, <4>1
    <3>2. PICK q \in {"publish", "count"} : Goto(t, q, l[t]) /\ q = IF l[t].op = "insert" THEN "publish" ELSE "count"
      BY <2>2 DEF Store
    <3>3. Stands(t, q, l[t]) /\ Others(t)  BY <1>1, <3>2, Moves DEF PCs
    <3> QED  BY <3>1, <3>2, <3>3 DEF Stands, GoesOn, SameCall
  <2> QED  BY SMTT(40), <2>1, <2>2
<1> QED  BY <1>1, <1>4, <1>5

\* The other threads rely on nothing that a store changes.
LEMMA StoreKept ==
  ASSUME NEW B, NEW g, ListInv(B, g), NEW t \in Threads, Store(t), NEW A, NEW h, B \subseteq A, Agree(B, g, h),
         \A n \in A : n \in B \/ (n = l[t].node /\ Unborn(l[t])), NEW u \in Threads, u # t
  PROVE Kept(B, g, A, h, u)
<1> DEFINE p == l[t].prevs[l[t].layer]
<1>1. Stored(t) /\ l[t].pc = "store"  BY StoreDoes
<1>2. p \in Links /\ nodes[p].full /\ nodes[p].flag = t  BY <1>1, StoreBasics
<1>3. \A x \in Links : /\ nodes'[x].full = nodes[x].full /\ nodes'[x].top = nodes[x].top /\ nodes'[x].holder = nodes[x].holder
                       /\ x # p => nodes'[x].next = nodes[x].next
  BY <1>1 DEF Stored
<1> HIDE DEF p
<1>4. Sound(l[u]) /\ Good(B, g, u) /\ B \subseteq Nodes  BY Basics
<1>5. TopsKept(B)  BY <1>3, <1>4 DEF TopsKept, Links
<1>6. MarkedKept(u)  BY <1>2, <1>3 DEF MarkedKept
<1>7. l[u].op \in {"insert", "erase"} => l[u].node \in Links  BY <1>4 DEF Sound, Links
<1>8. MadeKept(B, A, u)
  <2>1. Unborn(l[u]) => l[u].node # p  BY <1>2, <1>4 DEF Good, Making
  <2>2. Unborn(l[u]) /\ Unborn(l[t]) => l[u].node # l[t].node  BY Makers
  <2>3. Unborn(l[u]) /\ l[u].node \in A => l[u].node \in B  BY <2>2
  <2>4. Unborn(l[u]) \/ l[u].pc = "release" => l[u].node \in Links  BY <1>4, <1>7 DEF Unborn, Good, Named
  <2> QED  BY <1>3, <2>1, <2>3, <2>4 DEF MadeKept
<1>9. CutKept(u)
  <2>1. l[u].op = "erase" /\ l[u].pc = "store" => nodes[l[u].node].flag = u  BY EraserOwns
  <2> QED  BY <1>2, <1>3, <1>7, <2>1 DEF CutKept
<1>10. OrderKept(B, g, A, h)  BY DEF Agree, OrderKept
<1> QED  BY <1>5, <1>6, <1>8, <1>9, <1>10 DEF Kept

\* The members of a layer after a store.
LEMMA StoreMembers ==
  ASSUME NEW B, NEW g, ListInv(B, g), NEW t \in Threads, Store(t), NEW j \in Layers
  PROVE In(j)' = IF j # l[t].layer THEN In(j) ELSE IF l[t].op = "insert" THEN In(j) \cup {l[t].node} ELSE In(j) \ {l[t].node}
<1> DEFINE i == l[t].layer
           N == l[t].node
<1>1. Stored(t) /\ GoesOn(t) /\ Others(t) /\ l[t].pc = "store"  BY StoreDoes
<1>2. i \in Layers /\ i <= l[t].top /\ l[t].op \in {"insert", "erase"} /\ N \in Nodes /\ N \in Links /\ ~nodes[N].full
  BY <1>1, StoreBasics
<1>3. i \in Int /\ j \in Int /\ l[t].top \in Int
  <2>1. l[t] \in Locals  BY Basics
  <2> QED  BY <1>2, <2>1, LayerNat DEF Locals
<1>4. Half(l'[t], j) <=> IF l[t].op = "insert" THEN Half(l[t], j) \/ j = i ELSE Half(l[t], j) /\ j # i
  <2>1. CASE l[t].op = "insert"
    <3>1. Half(l[t], j) <=> j <= l[t].top /\ j < i  BY <1>1, <2>1 DEF Half, Inserted, Cutting
    <3>2. CASE i < l[t].top /\ l'[t].pc = "store" /\ l'[t].layer = i + 1
      <4>1. Half(l'[t], j) <=> j <= l[t].top /\ j < i + 1  BY <1>1, <2>1, <3>2 DEF Half, Inserted, Cutting, GoesOn, SameCall
      <4> QED  BY <1>2, <1>3, <2>1, <3>1, <3>2, <4>1
    <3>3. CASE i = l[t].top /\ l'[t].pc = "publish"
      <4>1. Half(l'[t], j) <=> j <= l[t].top  BY <1>1, <2>1, <3>3 DEF Half, Inserted, Cutting, GoesOn, SameCall
      <4> QED  BY <1>2, <1>3, <2>1, <3>1, <3>3, <4>1
    <3> QED  BY <1>1, <2>1, <3>2, <3>3 DEF GoesOn
  <2>2. CASE l[t].op = "erase"
    <3>1. Half(l[t], j) <=> j <= l[t].top /\ i <= j  BY <1>1, <2>2 DEF Half, Inserted, Cutting
    <3>2. CASE i < l[t].top /\ l'[t].pc = "store" /\ l'[t].layer = i + 1
      <4>1. Half(l'[t], j) <=> j <= l[t].top /\ i + 1 <= j  BY <1>1, <2>2, <3>2 DEF Half, Inserted, Cutting, GoesOn, SameCall
      <4> QED  BY <1>2, <1>3, <2>2, <3>1, <3>2, <4>1
    <3>3. CASE i = l[t].top /\ l'[t].pc = "count"
      <4>1. ~Half(l'[t], j)  BY <3>3 DEF Half, Inserted, Cutting
      <4> QED  BY <1>2, <1>3, <2>2, <3>1, <3>3, <4>1
    <3> QED  BY <1>1, <2>2, <3>2, <3>3 DEF GoesOn
  <2> QED  BY <1>2, <2>1, <2>2
<1>5. l'[t].node = N  BY <1>1 DEF GoesOn, SameCall
<1>6. \A u \in Threads : u # t => l'[u] = l[u]  BY <1>1 DEF Others
<1>7. l[t].op = "erase" => \A u \in Threads : u # t /\ Half(l[u], j) => l[u].node # N
  <2> SUFFICES ASSUME l[t].op = "erase", NEW u \in Threads, u # t, Half(l[u], j) PROVE l[u].node # N  OBVIOUS
  <2>1. nodes[N].flag = t  BY <1>1, EraserOwns
  <2>2. CASE l[u].op = "insert"
    <3>1. Unborn(l[u])  BY <2>2 DEF Half, Inserted, Cutting, Unborn
    <3>2. Cut(l[t])  BY <1>1 DEF Cut
    <3> QED  BY <3>1, <3>2, Basics DEF Alone
  <2>3. CASE l[u].op = "erase"
    <3>1. l[u].pc = "store"  BY <2>3 DEF Half, Inserted, Cutting
    <3>2. nodes[l[u].node].flag = u  BY <2>3, <3>1, EraserOwns
    <3> QED  BY <2>1, <3>2
  <2> QED  BY <2>2, <2>3 DEF Half, Inserted, Cutting
<1>8. ASSUME NEW n \in Links PROVE Member(j, n)' <=> IF j # i \/ n # N THEN Member(j, n) ELSE l[t].op = "insert"
  <2>1. nodes'[n].full = nodes[n].full /\ nodes'[n].top = nodes[n].top  BY <1>1 DEF Stored
  <2>2. (\E u \in Threads : l'[u].node = n /\ Half(l'[u], j)) <=> \/ n = N /\ Half(l'[t], j)
                                                                  \/ \E u \in Threads \ {t} : l[u].node = n /\ Half(l[u], j)
    BY <1>5, <1>6
  <2>3. (\E u \in Threads : l[u].node = n /\ Half(l[u], j)) <=> \/ n = N /\ Half(l[t], j)
                                                                \/ \E u \in Threads \ {t} : l[u].node = n /\ Half(l[u], j)
    OBVIOUS
  <2>4. Member(j, n) <=> \/ n \in {head, tail}
                         \/ n \in Nodes /\ nodes[n].full /\ j <= nodes[n].top
                         \/ n = N /\ Half(l[t], j)
                         \/ \E u \in Threads \ {t} : l[u].node = n /\ Half(l[u], j)
    BY <2>3 DEF Member
  <2>5. Member(j, n)' <=> \/ n \in {head, tail}
                          \/ n \in Nodes /\ nodes[n].full /\ j <= nodes[n].top
                          \/ n = N /\ Half(l'[t], j)
                          \/ \E u \in Threads \ {t} : l[u].node = n /\ Half(l[u], j)
    BY <2>1, <2>2 DEF Member
  <2>6. CASE j # i \/ n # N  BY <1>2, <1>4, <2>4, <2>5, <2>6
  <2>7. CASE j = i /\ n = N /\ l[t].op = "insert"  BY <1>4, <2>5, <2>7
  <2>8. CASE j = i /\ n = N /\ l[t].op = "erase"
    <3>1. ~Half(l'[t], j) /\ ~nodes[n].full /\ n \notin {head, tail}  BY <1>2, <1>4, <2>8, Strangers
    <3>2. ~\E u \in Threads \ {t} : l[u].node = n /\ Half(l[u], j)  BY <1>7, <2>8
    <3> QED  BY <2>5, <2>8, <3>1, <3>2
  <2> QED  BY <1>2, <2>6, <2>7, <2>8
<1> QED  BY <1>2, <1>8 DEF In
-----------------------------------------------------------------------------
LEMMA AgreeMore == ASSUME NEW B, NEW g, NEW h, Agree(B, g, h), NEW x \in Ground(B), NEW y \in Ground(B)
                   PROVE Bef(g, x, y) <=> Bef(h, x, y)
BY DEF Agree

\* A layer that the store leaves alone.
LEMMA StoreElsewhere ==
  ASSUME NEW B, NEW g, ListInv(B, g), NEW t \in Threads, Store(t), NEW A, NEW h, B \subseteq A, Agree(B, g, h),
         NEW j \in Layers, j # l[t].layer
  PROVE In(j)' \subseteq Ground(A) /\ \A x \in In(j)' \ {tail} : Chained(h, j, x)'
<1>1. In(j)' = In(j)  BY StoreMembers
<1>2. Stored(t) /\ l[t].pc = "store"  BY StoreDoes
<1>3. \A x \in Links : nodes'[x].next[j] = nodes[x].next[j]  BY <1>2 DEF Stored
<1>4. ASSUME NEW x \in In(j) \ {tail} PROVE Chained(h, j, x)'
  <2> DEFINE y == nodes[x].next[j]
  <2>1. y \in In(j) /\ Bef(g, x, y) /\ (\A z \in In(j) : Bef(g, x, z) => z = y \/ Bef(g, y, z))  BY <1>4, NextMember
  <2>2. nodes'[x].next[j] = y  BY <1>3, <1>4 DEF In
  <2> HIDE DEF y
  <2>3. \A z \in In(j) : z \in Ground(B)  BY MemberFits
  <2>4. Bef(h, x, y)  BY <1>4, <2>1, <2>3, AgreeMore
  <2>5. ASSUME NEW z \in In(j), Bef(h, x, z) PROVE z = y \/ Bef(h, y, z)  BY <1>4, <2>1, <2>3, <2>5, AgreeMore
  <2> QED  BY <1>1, <2>1, <2>2, <2>4, <2>5 DEF Chained
<1>5. In(j) \subseteq Ground(A)
  <2>1. Ground(B) \subseteq Ground(A)  BY DEF Ground
  <2> QED  BY <2>1, MemberFits
<1> QED  BY <1>1, <1>4, <1>5

\* Thread t stores the next pointer of p in layer i; its node is N, and w comes after its place.
Stores(t, i, p, w, N) == i = l[t].layer /\ p = l[t].prevs[i] /\ w = l[t].nexts[i] /\ N = l[t].node

LEMMA StoreHere ==
  ASSUME NEW B, NEW g, ListInv(B, g), NEW t \in Threads, NEW i, NEW p, NEW w, NEW N, l[t].pc = "store", Stores(t, i, p, w, N)
  PROVE /\ i \in Layers /\ N \in Nodes /\ N \in Links /\ N # tail /\ p \in In(i) /\ p \in Links /\ p # tail /\ p # N
        /\ nodes[p].full /\ nodes[p].flag = t /\ ~nodes[N].full
        /\ w \in In(i) /\ w \in Links /\ w # N /\ nodes[p].next[i] = Expected(t)
        /\ Expected(t) = IF l[t].op = "insert" THEN w ELSE N
        /\ Desired(t) = IF l[t].op = "insert" THEN N ELSE w
<1>1. Expected(t) = (IF l[t].op = "insert" THEN w ELSE N) /\ Desired(t) = IF l[t].op = "insert" THEN N ELSE w
  BY DEF Stores, Expected, Desired
<1>2. /\ i \in Layers /\ N \in Nodes /\ N \in Links /\ p \in In(i) /\ p \in Links /\ p # tail /\ p # N
      /\ nodes[p].full /\ nodes[p].flag = t /\ ~nodes[N].full
      /\ w \in In(i) /\ w \in Links /\ w # N /\ nodes[p].next[i] = Expected(t)
  BY StoreBasics DEF Stores
<1> QED  BY <1>1, <1>2, Strangers

\* The layer where a new node is linked.
LEMMA StoreLinks ==
  ASSUME NEW B, NEW g, ListInv(B, g), NEW t \in Threads, NEW i, NEW p, NEW w, NEW N, Store(t), l[t].op = "insert",
         Stores(t, i, p, w, N), NEW A, NEW h, A = B \cup {N},
         Order(A, h), Agree(B, g, h), Bef(h, N, w), nodes[N].next[i] = w, Past(Key[N], p)
  PROVE In(i)' \subseteq Ground(A) /\ \A x \in In(i)' \ {tail} : Chained(h, i, x)'
<1>1. Stored(t) /\ l[t].pc = "store"  BY StoreDoes
<1>2. /\ i \in Layers /\ N \in Nodes /\ N \in Links /\ p \in In(i) /\ p \in Links /\ p # tail /\ p # N
      /\ nodes[p].next[i] = w /\ w \in In(i) /\ Desired(t) = N /\ N # tail
  BY <1>1, StoreHere
<1>3. In(i)' = In(i) \cup {N}  BY SMTT(40), <1>2, StoreMembers DEF Stores
<1>4. \A x \in Links : nodes'[x].next[i] = IF x = p THEN N ELSE nodes[x].next[i]  BY <1>1, <1>2 DEF Stored, Stores
<1>5. nodes[N].next[i] = w /\ Bef(h, N, w) /\ Past(Key[N], p)  OBVIOUS
<1>7. \A z \in In(i) : z \in Ground(B) /\ z \in Ground(A) /\ z \in Links
  <2>1. Ground(B) \subseteq Ground(A)  BY DEF Ground
  <2> QED  BY <1>2, <2>1, MemberFits DEF In
<1>8. N \in A /\ N \in Ground(A) /\ In(i)' \subseteq Ground(A)  BY <1>3, <1>7 DEF Ground
<1>9. Bef(h, p, N)  BY <1>2, <1>5, <1>7, <1>8, PastBef
<1>10. \A z \in In(i) : Bef(h, p, z) => z = w \/ Bef(h, w, z)
  <2> SUFFICES ASSUME NEW z \in In(i), Bef(h, p, z) PROVE z = w \/ Bef(h, w, z)  OBVIOUS
  <2>1. Bef(g, p, z)  BY <1>2, <1>7, AgreeMore
  <2>2. z = w \/ Bef(g, w, z)  BY <1>2, <2>1, NextMember
  <2> QED  BY <1>2, <1>7, <2>2, AgreeMore
<1>11. ASSUME NEW x \in In(i), x # tail, x # p PROVE Chained(h, i, x)'
  <2> DEFINE y == nodes[x].next[i]
  <2>1. y \in In(i) /\ Bef(g, x, y) /\ (\A z \in In(i) : Bef(g, x, z) => z = y \/ Bef(g, y, z))  BY <1>2, <1>11, NextMember
  <2>2. nodes'[x].next[i] = y  BY <1>4, <1>7, <1>11
  <2> HIDE DEF y
  <2>3. Bef(h, x, y)  BY <1>7, <1>11, <2>1, AgreeMore
  <2>4. ASSUME NEW z \in In(i), Bef(h, x, z) PROVE z = y \/ Bef(h, y, z)  BY <1>7, <1>11, <2>1, <2>4, AgreeMore
  <2>5. ASSUME Bef(h, x, N) PROVE Bef(h, y, N)
    <3>1. Bef(h, x, p) \/ Bef(h, p, x)  BY <1>2, <1>7, <1>11, BefTotal
    <3>2. CASE Bef(h, x, p)
      <4>1. p = y \/ Bef(h, y, p)  BY <1>2, <2>4, <3>2
      <4> QED  BY <1>2, <1>7, <1>8, <1>9, <2>1, <4>1, BefTrans
    <3>3. CASE Bef(h, p, x)
      <4>1. x = w \/ Bef(h, w, x)  BY <1>10, <1>11, <3>3
      <4>2. Bef(h, N, x)  BY <1>2, <1>5, <1>7, <1>8, <1>11, <4>1, BefTrans
      <4>3. Bef(h, N, N)  BY <1>7, <1>8, <1>11, <2>5, <4>2, BefTrans
      <4> QED  BY <4>3, BefNot
    <3> QED  BY <3>1, <3>2, <3>3
  <2> QED  BY <1>3, <2>1, <2>2, <2>3, <2>4, <2>5 DEF Chained
<1>12. Chained(h, i, p)'
  <2>1. nodes'[p].next[i] = N  BY <1>2, <1>4
  <2>2. ASSUME NEW z \in In(i), Bef(h, p, z) PROVE Bef(h, N, z)
    <3>1. z = w \/ Bef(h, w, z)  BY <1>10, <2>2
    <3> QED  BY <1>2, <1>5, <1>7, <1>8, <3>1, BefTrans
  <2> QED  BY <1>3, <1>9, <2>1, <2>2 DEF Chained
<1>13. Chained(h, i, N)'
  <2>1. nodes'[N].next[i] = w  BY <1>2, <1>4, <1>5
  <2>2. ASSUME NEW z \in In(i), Bef(h, N, z) PROVE z = w \/ Bef(h, w, z)
    <3>1. Bef(h, p, z)  BY <1>2, <1>7, <1>8, <1>9, <2>2, BefTrans
    <3> QED  BY <1>10, <3>1
  <2>3. ~Bef(h, N, N)  BY BefNot
  <2> QED  BY <1>2, <1>3, <1>5, <2>1, <2>2, <2>3 DEF Chained
<1>14. \A x \in In(i)' \ {tail} : Chained(h, i, x)'  BY <1>3, <1>11, <1>12, <1>13
<1> QED  BY <1>8, <1>14

\* The layer where a node is unlinked.
LEMMA StoreUnlinks ==
  ASSUME NEW B, NEW g, ListInv(B, g), NEW t \in Threads, NEW i, NEW p, NEW w, NEW N, Store(t), l[t].op = "erase",
         Stores(t, i, p, w, N), nodes[N].next[i] = w
  PROVE In(i)' \subseteq Ground(B) /\ \A x \in In(i)' \ {tail} : Chained(g, i, x)'
<1>0. Order(B, g) /\ Lists(B, g)  BY Basics
<1>1. Stored(t) /\ l[t].pc = "store"  BY StoreDoes
<1>2. /\ i \in Layers /\ N \in Nodes /\ p \in In(i) /\ p \in Links /\ p # tail /\ p # N
      /\ nodes[p].next[i] = N /\ w \in In(i) /\ Desired(t) = w /\ N # tail /\ w # N
  BY <1>1, StoreHere
<1>3. In(i)' = In(i) \ {N}  BY <1>2, StoreMembers DEF Stores
<1>4. \A x \in Links : nodes'[x].next[i] = IF x = p THEN w ELSE nodes[x].next[i]  BY <1>1, <1>2 DEF Stored, Stores
<1>5. nodes[N].next[i] = w  OBVIOUS
<1>6. \A z \in In(i) : z \in Ground(B) /\ z \in Links  BY <1>2, MemberFits DEF In
<1>7. N \in In(i) /\ Bef(g, p, N) /\ \A z \in In(i) : Bef(g, p, z) => z = N \/ Bef(g, N, z)  BY <1>2, NextMember
<1>8. Bef(g, N, w) /\ \A z \in In(i) : Bef(g, N, z) => z = w \/ Bef(g, w, z)  BY <1>2, <1>5, <1>7, NextMember
<1>9. ASSUME NEW x \in In(i), x # tail, x # p, x # N PROVE Chained(g, i, x)'
  <2> DEFINE y == nodes[x].next[i]
  <2>1. y \in In(i) /\ Bef(g, x, y) /\ (\A z \in In(i) : Bef(g, x, z) => z = y \/ Bef(g, y, z))  BY <1>2, <1>9, NextMember
  <2>2. nodes'[x].next[i] = y  BY <1>4, <1>6, <1>9
  <2>3. y # N  BY <1>0, <1>2, <1>9, OneBefore
  <2> HIDE DEF y
  <2> QED  BY <1>3, <2>1, <2>2, <2>3 DEF Chained
<1>10. Chained(g, i, p)'
  <2>1. nodes'[p].next[i] = w  BY <1>2, <1>4
  <2>2. Bef(g, p, w)  BY <1>0, <1>2, <1>6, <1>7, <1>8, BefTrans
  <2>3. \A z \in In(i) \ {N} : Bef(g, p, z) => z = w \/ Bef(g, w, z)  BY <1>7, <1>8
  <2> QED  BY <1>2, <1>3, <2>1, <2>2, <2>3 DEF Chained
<1>11. \A x \in In(i)' \ {tail} : Chained(g, i, x)'  BY <1>3, <1>9, <1>10
<1> QED  BY <1>3, <1>6, <1>11

\* What has been placed stays so.
LEMMA StorePlace ==
  ASSUME NEW B, NEW g, ListInv(B, g), NEW t \in Threads, Store(t), NEW A, NEW h, B \subseteq A, NEW j \in Settled(l[t]),
         l[t].op = "insert" => Bef(h, l[t].node, l[t].nexts[j]),
         l'[t].pc \in {"store", "publish"}
  PROVE Pinned(A, h, t, j)'
<1> DEFINE i == l[t].layer
           N == l[t].node
           q == l[t].prevs[j]
           v == l[t].nexts[j]
<1>1. Stored(t) /\ GoesOn(t) /\ l[t].pc = "store"  BY StoreDoes
<1>2. /\ i \in Layers /\ i <= l[t].top /\ N \in Links /\ l[t].prevs[i] # N /\ l[t].op \in {"insert", "erase"}
  BY <1>1, StoreBasics
<1>3. j \in Layers /\ j <= l[t].top  BY DEF Settled
<1>4. /\ q \in Links \ {tail} /\ Fit(B, j, q) /\ nodes[q].full /\ v \in Links \ {head} /\ Fit(B, j, v)
      /\ l[t].op = "insert" => /\ ~Past(l[t].key, v) /\ Past(l[t].key, q) /\ nodes[N].next[j] = v
                               /\ nodes[q].next[j] = IF Inserted(l[t], j) THEN N ELSE v
      /\ l[t].op = "erase" => v = nodes[N].next[j]
      /\ l[t].op = "erase" /\ i <= j => nodes[q].next[j] = N
  <2>1. Pinned(B, g, t, j)  BY Basics DEF Good, Settles
  <2> QED  BY <1>1, <2>1 DEF Pinned, Candidate
<1>5. i \in Int /\ j \in Int /\ l[t].top \in Int
  <2>1. l[t] \in Locals  BY Basics
  <2> QED  BY <1>2, <1>3, <2>1, LayerNat DEF Locals
<1>6. \A x \in Links : /\ nodes'[x].full = nodes[x].full /\ nodes'[x].top = nodes[x].top
                       /\ x # l[t].prevs[i] => nodes'[x].next[j] = nodes[x].next[j]
                       /\ x = l[t].prevs[i] => nodes'[x].next[j] = IF j = i THEN Desired(t) ELSE nodes[x].next[j]
  BY <1>1, <1>3 DEF Stored
<1>7. SameCall(t) /\ l'[t].top = l[t].top /\ l'[t].prevs = l[t].prevs /\ l'[t].nexts = l[t].nexts  BY <1>1 DEF GoesOn
<1>8. Fit(A, j, q)' /\ Fit(A, j, v)'
  <2>1. nodes'[q].top = nodes[q].top /\ nodes'[v].top = nodes[v].top  BY <1>4, <1>6
  <2> QED  BY <1>4, <1>7, <2>1 DEF Fit
<1>9. nodes'[N].next[j] = nodes[N].next[j] /\ nodes'[q].full  BY <1>2, <1>4, <1>6
<1>10. CASE l[t].op = "insert"
  <2>1. Inserted(l'[t], j) <=> Inserted(l[t], j) \/ j = i
    <3>1. Inserted(l[t], j) <=> j < i  BY <1>1, <1>3, <1>10 DEF Inserted
    <3>2. Inserted(l'[t], j) <=> l'[t].pc = "publish" \/ (l'[t].pc = "store" /\ j < l'[t].layer)
      BY <1>3, <1>7, <1>10 DEF Inserted, SameCall
    <3>3. (l'[t].pc = "store" /\ l'[t].layer = i + 1) \/ (l'[t].pc = "publish" /\ i = l[t].top)  BY <1>1, <1>10 DEF GoesOn
    <3>4. (l'[t].pc = "publish" \/ (l'[t].pc = "store" /\ j < l'[t].layer)) <=> j < i \/ j = i  BY <1>3, <1>5, <3>3
    <3> QED  BY <3>1, <3>2, <3>4
  <2>2. nodes'[q].next[j] = IF j = i THEN N ELSE nodes[q].next[j]
    <3>1. Desired(t) = N  BY <1>10 DEF Desired
    <3>2. j = i => q = l[t].prevs[i]  OBVIOUS
    <3> HIDE DEF q, i
    <3> QED  BY <1>4, <1>6, <3>1, <3>2
  <2>3. nodes'[q].next[j] = IF Inserted(l'[t], j) THEN N ELSE v
    <3>1. CASE j = i  BY <2>1, <2>2, <3>1
    <3>2. CASE j # i  BY <1>4, <1>10, <2>1, <2>2, <3>2
    <3> QED  BY <3>1, <3>2
  <2>4. Candidate(A, t, j)'  BY <1>4, <1>7, <1>8, <1>10 DEF Candidate, SameCall
  <2>5. l'[t].op = "insert"  BY <1>7, <1>10 DEF SameCall
  <2>6. nodes'[N].next[j] = v /\ Bef(h, N, v)  BY <1>4, <1>9, <1>10
  <2> HIDE DEF i
  <2> QED  BY <1>4, <1>7, <1>8, <1>9, <1>10, <2>3, <2>4, <2>5, <2>6 DEF Pinned, SameCall
<1>11. CASE l[t].op = "erase"
  <2>1. Candidate(A, t, j)'  BY <1>4, <1>7, <1>8, <1>9, <1>11 DEF Candidate, SameCall
  <2>2. l'[t].pc = "store" /\ l'[t].layer = i + 1  BY <1>1, <1>11 DEF GoesOn
  <2>3. i + 1 <= j => nodes'[q].next[j] = N
    <3> HAVE i + 1 <= j
    <3>1. i <= j /\ i # j  BY <1>5
    <3> QED  BY <1>4, <1>6, <1>11, <3>1
  <2>4. l'[t].op = "erase"  BY <1>7, <1>11 DEF SameCall
  <2> HIDE DEF i
  <2> QED  BY <1>4, <1>7, <1>8, <1>9, <2>1, <2>2, <2>3, <2>4 DEF Pinned, SameCall
<1> QED  BY <1>2, <1>10, <1>11

\* A store by an insert, and by an erase.
LEMMA StoreInsertList ==
  ASSUME NEW B, NEW g, ListInv(B, g), MarkInv', NEW t \in Threads, Store(t), l[t].op = "insert", NEW A, NEW h,
         A = B \cup {l[t].node},
         Order(A, h), Agree(B, g, h), \A j \in Settled(l[t]) : Bef(h, l[t].node, l[t].nexts[j])
  PROVE ListInv(A, h)'
<1>0. PICK i, p, w, N : Stores(t, i, p, w, N)  BY DEF Stores
<1>1. Stored(t) /\ GoesOn(t) /\ Others(t) /\ l[t].pc = "store" /\ UNCHANGED todo  BY StoreDoes
<1>2. /\ i \in Layers /\ i \in Settled(l[t]) /\ N \in Nodes /\ N = l[t].node /\ i = l[t].layer /\ p = l[t].prevs[i] /\
         w = l[t].nexts[i]
      /\ A = B \cup {N} /\ l[t] \in Locals
  BY <1>0, <1>1, StoreBasics, Basics DEF Stores
<1>3. /\ SameCall(t) /\ l'[t].top = l[t].top /\ l'[t].prevs = l[t].prevs /\ l'[t].nexts = l[t].nexts
      /\ (l'[t].pc = "store" /\ l'[t].layer = i + 1 /\ i < l[t].top) \/ (l'[t].pc = "publish" /\ i = l[t].top)
  BY <1>1, <1>2 DEF GoesOn
<1>4. Unborn(l[t]) /\ Unborn(l'[t]) /\ ~Cut(l'[t])
  <2>1. Unborn(l[t])  BY <1>1 DEF Unborn
  <2>2. l'[t].op = "insert" /\ l'[t].pc \in {"store", "publish"}  BY <1>3 DEF SameCall
  <2> QED  BY <2>1, <2>2 DEF Unborn, Cut
<1>5. Good(B, g, t) /\ Sound(l[t]) /\ Lists(B, g)  BY SMTT(40), Basics
<1>6. nodes[N].next[i] = w /\ Past(Key[N], p) /\ Bef(h, N, w)
  <2>1. Pinned(B, g, t, i)  BY <1>2, <1>5 DEF Good, Settles
  <2>2. l[t].key = Key[N]  BY <1>2, <1>5 DEF Good, Named
  <2> QED  BY <1>2, <2>1, <2>2 DEF Pinned
<1>7. Lists(A, h)'
  <2> SUFFICES ASSUME NEW j \in Layers PROVE In(j)' \subseteq Ground(A) /\ \A x \in In(j)' \ {tail} : Chained(h, j, x)'
    BY DEF Lists
  <2>1. CASE j # i  BY <1>2, <2>1, StoreElsewhere
  <2>2. CASE j = i
    <3>1. In(i)' \subseteq Ground(A) /\ \A x \in In(i)' \ {tail} : Chained(h, i, x)'  BY <1>0, <1>2, <1>6, StoreLinks
    <3> QED  BY <2>2, <3>1
  <2> QED  BY <2>1, <2>2
<1>8. Ends'  BY <1>1, Basics DEF Ends, Stored, Links
<1>9. Alone'
  <2>1. NoneNew(t)  BY <1>3, <1>4 DEF NoneNew, NoBirth, SameCall
  <2> QED  BY <1>1, <2>1, Basics, AloneSame
<1>10. Pending(A)'
  <2>1. NoBirth(t)  BY <1>3, <1>4 DEF NoBirth, SameCall
  <2>2. Pending(B)'  BY <1>1, <2>1, Basics, PendingSame
  <2>3. l'[t].node = N  BY <1>2, <1>3 DEF SameCall
  <2>4. \A u \in Threads : \A k \in DOMAIN todo'[u] : todo'[u][k].op = "insert" => todo'[u][k].node \notin A
    BY <1>2, <1>4, <2>2, <2>3 DEF Pending
  <2> QED  BY <2>2, <2>4 DEF Pending
<1>11. \A u \in Threads : u # t => Kept(B, g, A, h, u)  BY <1>2, <1>4, StoreKept
<1>12. Good(A, h, t)'
  <2>1. l'[t].op = "insert" /\ l'[t].pc \in {"store", "publish"}  BY <1>3 DEF SameCall
  <2>2. l'[t].pc \notin Walk /\ ~Again(l'[t])  BY <2>1 DEF Walk, Again
  <2>3. Standing(A, h, t)' /\ Looking(A, t)' /\ Erasing(A, t)' /\ Seeking(h, t)' /\ Placing(A, t)' /\ Seconding(t)'
    BY <2>1, <2>2 DEF Standing, Looking, Erasing, Seeking, Placing, Seconding, Walk
  <2>4. Named(t)'
    <3>1. l'[t].pc = "store" => l'[t].layer <= l'[t].top
      <4>1. i \in Int /\ l[t].top \in Int  BY <1>2, LayerNat DEF Locals
      <4> QED  BY <1>3, <4>1
    <3> QED  BY <1>3, <1>5, <2>1, <3>1 DEF Good, Named, SameCall
  <2>5. Making(A, t)'
    <3>1. nodes[N].holder = t /\ ~nodes[N].full /\ nodes[N].top = l[t].top  BY <1>2, <1>4, <1>5 DEF Good, Making
    <3>2. nodes'[N].holder = t /\ ~nodes'[N].full /\ nodes'[N].top = l[t].top  BY <1>1, <1>2, <3>1 DEF Stored, Links
    <3>3. i + 1 > 0  BY <1>2, LayerNat
    <3> QED  BY <1>2, <1>3, <2>1, <3>2, <3>3 DEF Making, SameCall
  <2>6. Settles(A, h, t)'
    <3> SUFFICES ASSUME NEW j \in Settled(l'[t]) PROVE Pinned(A, h, t, j)'  BY DEF Settles
    <3>1. j \in Settled(l[t])  BY <1>1, <1>3 DEF Settled
    <3> QED  BY <1>2, <2>1, <3>1, StorePlace
  <2> QED  BY <2>3, <2>4, <2>5, <2>6 DEF Good
<1> QED  BY <1>1, <1>7, <1>8, <1>9, <1>10, <1>11, <1>12, ListStep

LEMMA StoreEraseList ==
  ASSUME NEW B, NEW g, ListInv(B, g), MarkInv', NEW t \in Threads, Store(t), l[t].op = "erase"
  PROVE ListInv(B, g)'
<1>0. PICK i, p, w, N : Stores(t, i, p, w, N)  BY DEF Stores
<1>1. Stored(t) /\ GoesOn(t) /\ Others(t) /\ l[t].pc = "store" /\ UNCHANGED todo  BY StoreDoes
<1>2. /\ i \in Layers /\ i \in Settled(l[t]) /\ N \in Nodes /\ N = l[t].node /\ i = l[t].layer /\ p = l[t].prevs[i] /\
         w = l[t].nexts[i]
      /\ l[t] \in Locals
  BY <1>0, <1>1, StoreBasics, Basics DEF Stores
<1>3. /\ SameCall(t) /\ l'[t].top = l[t].top /\ l'[t].prevs = l[t].prevs /\ l'[t].nexts = l[t].nexts
      /\ (l'[t].pc = "store" /\ l'[t].layer = i + 1 /\ i < l[t].top) \/ (l'[t].pc = "count" /\ i = l[t].top)
  BY <1>1, <1>2 DEF GoesOn
<1>4. l'[t].op = "erase" /\ ~Unborn(l'[t]) /\ Cut(l[t])
  <2>1. l'[t].op = "erase"  BY <1>3 DEF SameCall
  <2> QED  BY <1>1, <2>1 DEF Unborn, Cut
<1>5. Good(B, g, t) /\ Sound(l[t]) /\ Lists(B, g) /\ Order(B, g) /\ MarkInv  BY Basics
<1>6. nodes[N].next[i] = w
  <2>1. Pinned(B, g, t, i)  BY <1>2, <1>5 DEF Good, Settles
  <2> QED  BY <1>2, <2>1 DEF Pinned, Candidate
<1>7. Agree(B, g, g)  BY DEF Agree
<1>8. Lists(B, g)'
  <2> SUFFICES ASSUME NEW j \in Layers PROVE In(j)' \subseteq Ground(B) /\ \A x \in In(j)' \ {tail} : Chained(g, j, x)'
    BY DEF Lists
  <2>1. CASE j # i  BY <1>2, <1>7, <2>1, StoreElsewhere
  <2>2. CASE j = i
    <3>1. In(i)' \subseteq Ground(B) /\ \A x \in In(i)' \ {tail} : Chained(g, i, x)'  BY <1>0, <1>6, StoreUnlinks
    <3> QED  BY <2>2, <3>1
  <2> QED  BY <2>1, <2>2
<1>9. Ends'  BY <1>1, Basics DEF Ends, Stored, Links
<1>10. Alone' /\ Pending(B)'
  <2>1. NoneNew(t) /\ NoBirth(t)  BY <1>3, <1>4 DEF NoneNew, NoBirth, SameCall
  <2> QED  BY <1>1, <2>1, Basics, AloneSame, PendingSame
<1>11. \A u \in Threads : u # t => Kept(B, g, B, g, u)  BY <1>7, StoreKept
<1>12. Named(t)'
  <2>1. l'[t].pc = "store" => l'[t].layer <= l'[t].top
    <3>1. i \in Int /\ l[t].top \in Int  BY <1>2, LayerNat DEF Locals
    <3> QED  BY <1>3, <3>1
  <2> QED  BY <1>3, <1>4, <1>5, <2>1 DEF Good, Named, SameCall
<1>13. Making(B, t)'  BY <1>3, <1>4 DEF Making
<1>14. CASE l'[t].pc = "count"
  <2>1. Good(B, g, t)'  BY <1>12, <1>13, <1>14, RestGood DEF Resting
  <2> QED  BY <1>1, <1>5, <1>8, <1>9, <1>10, <1>11, <2>1, ListStep
<1>15. CASE l'[t].pc = "store"
  <2>2. l'[t].pc \notin Walk /\ ~Again(l'[t])  BY <1>15 DEF Walk, Again
  <2>3. Standing(B, g, t)' /\ Looking(B, t)' /\ Seeking(g, t)' /\ Placing(B, t)' /\ Seconding(t)'
    BY <1>15, <2>2 DEF Standing, Looking, Seeking, Placing, Seconding, Walk
  <2>4. Erasing(B, t)'
    <3>1. N \in B /\ nodes[N].top = l[t].top /\ ~nodes[N].full  BY <1>1, <1>2, <1>5 DEF Good, Erasing
    <3>2. nodes'[N].top = l[t].top /\ ~nodes'[N].full  BY <1>1, <1>2, <3>1 DEF Stored, Links
    <3> QED  BY <1>2, <1>3, <1>15, <2>2, <3>1, <3>2 DEF Erasing, SameCall
  <2>5. Settles(B, g, t)'
    <3> SUFFICES ASSUME NEW j \in Settled(l'[t]) PROVE Pinned(B, g, t, j)'  BY DEF Settles
    <3>1. j \in Settled(l[t])  BY <1>1, <1>3, <1>15 DEF Settled
    <3> QED  BY <1>15, <3>1, StorePlace
  <2>6. Good(B, g, t)'  BY SMTT(40), <1>12, <1>13, <2>3, <2>4, <2>5 DEF Good
  <2> QED  BY <1>1, <1>5, <1>8, <1>9, <1>10, <1>11, <2>6, ListStep
<1> QED  BY <1>3, <1>14, <1>15

LEMMA StoreList == ASSUME NEW B, NEW g, ListInv(B, g), MarkInv', NEW t \in Threads, Store(t)
                   PROVE \E A, h : ListInv(A, h)' /\ OrderKept(B, g, A, h)
<1> DEFINE N == l[t].node
<1>1. l[t].pc = "store" /\ Order(B, g) /\ Good(B, g, t) /\ l[t] \in Locals  BY Basics DEF Store, At
<1>2. N \in Nodes /\ l[t].op \in {"insert", "erase"} /\ l[t].layer \in Layers  BY <1>1, StoreBasics
<1>3. CASE l[t].op = "erase"  BY <1>3, StoreEraseList, OrderSame
<1>4. CASE l[t].op = "insert"
  <2>1. Unborn(l[t])  BY <1>1, <1>4 DEF Unborn
  <2>2. ASSUME NEW j \in Settled(l[t]) PROVE /\ Pinned(B, g, t, j) /\ l[t].nexts[j] \in Ground(B) /\ l[t].nexts[j] # head
                                             /\ ~Past(Key[N], l[t].nexts[j])
    <3>1. Pinned(B, g, t, j)  BY <1>1 DEF Good, Settles
    <3>2. l[t].nexts[j] \in Links \ {head} /\ Fit(B, j, l[t].nexts[j]) /\ ~Past(l[t].key, l[t].nexts[j])
      BY <1>4, <3>1 DEF Pinned, Candidate
    <3>3. l[t].key = Key[N]  BY <1>1, <1>4 DEF Good, Named
    <3> QED  BY <3>1, <3>2, <3>3, FitGround
  <2>3. CASE l[t].layer = 0
    <3>1. N \notin B
      <4>1. ~(0 > 0)  OBVIOUS
      <4> QED  BY <1>1, <2>1, <2>3, <4>1 DEF Good, Making
    <3>2. PICK h : Order(B \cup {N}, h) /\ Agree(B, g, h) /\ \A y \in Ground(B) : y # head /\ ~Past(Key[N], y) => Bef(h, N, y)
      BY <1>1, <1>2, <3>1, Grows
    <3>3. \A j \in Settled(l[t]) : Bef(h, N, l[t].nexts[j])  BY <2>2, <3>2
    <3>4. OrderKept(B, g, B \cup {N}, h)  BY <3>2 DEF OrderKept, Agree
    <3> QED  BY <1>4, <3>2, <3>3, <3>4, StoreInsertList
  <2>4. CASE l[t].layer > 0
    <3>1. N \in B  BY <1>1, <2>1, <2>4 DEF Good, Making
    <3>2. B = B \cup {N} /\ Agree(B, g, g)  BY <3>1 DEF Agree
    <3>3. \A j \in Settled(l[t]) : Bef(g, N, l[t].nexts[j])  BY <1>1, <1>4, <2>2, <2>4 DEF Pinned
    <3> QED  BY <1>1, <1>4, <3>2, <3>3, StoreInsertList, OrderSame
  <2>5. l[t].layer = 0 \/ l[t].layer > 0  BY <1>2, LayerNat
  <2> QED  BY <2>3, <2>4, <2>5
<1> QED  BY SMTT(40), <1>2, <1>3, <1>4
-----------------------------------------------------------------------------
\* Of finitely many nodes one has the smallest key.
LEMMA LowestKey == ASSUME NEW S, IsFiniteSet(S), S \subseteq Nodes, S # {}
                   PROVE \E m \in S : \A k \in S : Key[m] <= Key[k]
<1> DEFINE D(m) == {k \in S : Key[k] < Key[m]}
           T == {D(m) : m \in S}
<1>0. \A m \in S : Key[m] \in Int  BY Strangers
<1>1. IsWellFoundedOn(StrictSubsetOrdering(S), SUBSET S)
  BY FS_StrictSubsetOrderingWellFounded, FS_FiniteSubsetsOfFinite
<1>2. T \subseteq SUBSET S /\ T # {}  OBVIOUS
<1>3. PICK d \in T : \A e \in T : ~(<<e, d>> \in StrictSubsetOrdering(S))
  <2> HIDE DEF T
  <2> QED  BY <1>1, <1>2, WFMin
<1>4. PICK m \in S : d = D(m)  OBVIOUS
<1>5. ASSUME NEW k \in S, Key[k] < Key[m] PROVE FALSE
  <2>1. D(k) \subseteq D(m)
    <3> SUFFICES ASSUME NEW n \in S, Key[n] < Key[k] PROVE Key[n] < Key[m]  OBVIOUS
    <3> QED  BY <1>0, <1>5
  <2>2. k \in D(m) /\ k \notin D(k)  BY <1>0, <1>5
  <2>3. D(k) \in T /\ D(k) \in SUBSET S /\ D(m) \in SUBSET S  OBVIOUS
  <2> HIDE DEF D, T
  <2>4. <<D(k), D(m)>> \in StrictSubsetOrdering(S)  BY <2>1, <2>2, <2>3 DEF StrictSubsetOrdering
  <2> QED  BY <1>3, <1>4, <2>3, <2>4
<1> QED  BY <1>0, <1>4, <1>5

\* What comes after a node at the beginning.
LEMMA WarmNearest ==
  ASSUME NEW x, NEW i
  PROVE LET y == WarmNext(x, i)
        IN \/ y = tail /\ \A m \in DOMAIN Warm : Warm[m] >= i => ~Past(Key[m], x)
           \/ /\ y \in DOMAIN Warm /\ Warm[y] >= i /\ Past(Key[y], x)
              /\ \A m \in DOMAIN Warm : Warm[m] >= i /\ Past(Key[m], x) => Key[y] <= Key[m]
<1> DEFINE After == {m \in DOMAIN Warm : Warm[m] >= i /\ Past(Key[m], x)}
           Nearest == {m \in After : \A k \in After : Key[m] <= Key[k]}
<1>1. WarmNext(x, i) = IF Nearest = {} THEN tail ELSE CHOOSE m \in Nearest : TRUE  BY DEF WarmNext
<1>2. After \subseteq Nodes /\ IsFiniteSet(After)  BY ListAssumption, FS_Subset
<1>3. Nearest = {} => After = {}
  <2> HIDE DEF After
  <2> QED  BY <1>2, LowestKey
<1>4. Nearest # {} => (CHOOSE m \in Nearest : TRUE) \in Nearest
  <2> HIDE DEF Nearest
  <2> QED  OBVIOUS
<1>5. CASE Nearest = {}
  <2>1. After = {} /\ WarmNext(x, i) = tail  BY <1>1, <1>3, <1>5
  <2> QED  BY <2>1
<1>6. CASE Nearest # {}
  <2>1. WarmNext(x, i) \in Nearest
    <3> HIDE DEF Nearest
    <3> QED  BY <1>1, <1>4, <1>6
  <2> QED  BY <2>1
<1> QED  BY <1>5, <1>6

\* The towers at the beginning.
LEMMA NodeFields == ASSUME NEW n, NEW i \in Int
                    PROVE /\ Node(n, i).full = (i >= 0) /\ (i >= 0 => Node(n, i).top = i)
                          /\ \A j \in Layers : j <= i => Node(n, i).next[j] = WarmNext(n, j)
<1> DEFINE f == [j \in Layers |-> IF j <= i THEN WarmNext(n, j) ELSE None]
<1>1. \A j \in Layers : j <= i => f[j] = WarmNext(n, j)
  <2> DEFINE W(j) == WarmNext(n, j)
  <2>1. f = [j \in Layers |-> IF j <= i THEN W(j) ELSE None]  OBVIOUS
  <2> HIDE DEF W, f
  <2>2. \A j \in Layers : j <= i => f[j] = W(j)  BY <2>1
  <2> QED  BY <2>2 DEF W
<1>2. Node(n, i).next = f /\ Node(n, i).full = (i >= 0) /\ Node(n, i).top = IF i < 0 THEN 0 ELSE i
  <2>1. Node(n, i) = [next |-> f, full |-> i >= 0, flag |-> None, removed |-> FALSE, top |-> IF i < 0 THEN 0 ELSE i, holder |-> None]
    BY DEF Node
  <2> HIDE DEF f
  <2> QED  BY <2>1
<1> HIDE DEF f
<1> QED  BY <1>1, <1>2

\* The invariant at the beginning.
LEMMA InitList == Init => ListInv(DOMAIN Warm, [n \in Nodes |-> {}])
<1> SUFFICES ASSUME Init PROVE ListInv(DOMAIN Warm, [n \in Nodes |-> {}])  OBVIOUS
<1> DEFINE B == DOMAIN Warm
           g == [n \in Nodes |-> {}]
<1>1. B \subseteq Nodes /\ (\A n \in B : Warm[n] \in Layers) /\ (\A m, n \in B : Key[m] = Key[n] => m = n)  BY ListAssumption
<1>2. \A n \in Nodes : g[n] = {}  OBVIOUS
<1>3. g \in [Nodes -> SUBSET Nodes]  OBVIOUS
<1> HIDE DEF g
<1>4. Ordered(B, g)  BY <1>1, <1>2 DEF Ordered
<1>4a. Order(B, g)  BY <1>3, <1>4, ListAssumption DEF Order
<1>5. \A t \in Threads : l[t] = Idle  BY DEF Init
<1>6. Idle.pc = "idle" /\ Idle.op = "none"  BY DEF Idle
<1>7. \A t \in Threads : \A i \in Layers : ~Half(l[t], i) /\ ~Unborn(l[t]) /\ ~Cut(l[t])
  BY <1>5, <1>6 DEF Half, Inserted, Cutting, Unborn, Cut
<1>8. \A n \in B : nodes[n] = Node(n, Warm[n])  BY <1>1 DEF Init, Links
<1>9. nodes[head] = Node(head, MaxLayer - 1)  BY <1>1, Strangers DEF Init, Links
<1>10. \A n \in Links \ (B \cup {head}) : nodes[n] = [Node(n, -1) EXCEPT !.full = n = tail]  BY DEF Init
<1>11. \A n \in B : nodes[n].full /\ nodes[n].top = Warm[n] /\
      \A j \in Layers : j <= Warm[n] => nodes[n].next[j] = WarmNext(n, j)
  <2> SUFFICES ASSUME NEW n \in B PROVE nodes[n].full /\ nodes[n].top = Warm[n] /\
        \A j \in Layers : j <= Warm[n] => nodes[n].next[j] = WarmNext(n, j)
    OBVIOUS
  <2>1. PICK w : w = Warm[n]  OBVIOUS
  <2>2. w \in Int /\ w >= 0 /\ nodes[n] = Node(n, w)  BY <1>1, <1>8, <2>1, LayerNat
  <2>3. Node(n, w).full = (w >= 0) /\ Node(n, w).top = w /\ \A j \in Layers : j <= w => Node(n, w).next[j] = WarmNext(n, j)
    BY <2>2, NodeFields
  <2> HIDE DEF B
  <2> QED  BY <2>1, <2>2, <2>3
<1>12. nodes[head].full /\ \A j \in Layers : nodes[head].next[j] = WarmNext(head, j)
  <2>1. MaxLayer - 1 \in Int /\ MaxLayer - 1 >= 0 /\ \A j \in Layers : j <= MaxLayer - 1  BY ListAssumption DEF Layers
  <2>2. (MaxLayer - 1 >= 0) = TRUE  BY <2>1
  <2> QED  BY <1>9, <2>1, <2>2, NodeFields
<1>13. \A n \in Links \ (B \cup {head}) : nodes[n].full = (n = tail)  BY <1>10 DEF Node
<1>14. Ends  BY <1>1, <1>12, <1>13, Strangers DEF Ends, Links
<1>15. \A i \in Layers : In(i) = {head, tail} \cup {n \in B : i <= Warm[n]}
  <2> SUFFICES ASSUME NEW i \in Layers PROVE In(i) = {head, tail} \cup {n \in B : i <= Warm[n]}  OBVIOUS
  <2>1. \A n \in Links : Member(i, n) <=> n \in {head, tail} \/ (n \in B /\ i <= Warm[n])
    <3> SUFFICES ASSUME NEW n \in Links PROVE Member(i, n) <=> n \in {head, tail} \/ (n \in B /\ i <= Warm[n])  OBVIOUS
    <3>1. ~\E t \in Threads : l[t].node = n /\ Half(l[t], i)  BY <1>7
    <3>2. CASE n \in B  BY <1>1, <1>11, <3>1, <3>2 DEF Member
    <3>3. CASE n \notin B /\ n # head /\ n # tail
      <4>1. ~nodes[n].full  BY <1>13, <3>3
      <4> QED  BY <3>1, <3>3, <4>1 DEF Member
    <3>4. CASE n = head \/ n = tail  BY <3>4 DEF Member
    <3> QED  BY <3>2, <3>3, <3>4
  <2>2. B \subseteq Links /\ head \in Links /\ tail \in Links  BY <1>1 DEF Links
  <2> QED  BY <2>1, <2>2 DEF In
<1>16. \A x \in B \cup {head} : \A m \in B : Bef(g, x, m) <=> Past(Key[m], x)
  <2> SUFFICES ASSUME NEW x \in B \cup {head}, NEW m \in B PROVE Bef(g, x, m) <=> Past(Key[m], x)  OBVIOUS
  <2>1. m \in Nodes /\ m # head /\ m # tail /\ Key[m] \in Int  BY <1>1, Strangers
  <2>2. CASE x = head  BY <2>1, <2>2, Strangers DEF Bef, Past
  <2>3. CASE x \in B
    <3>1. x \in Nodes /\ x # head /\ x # tail /\ Key[x] \in Int /\ g[x] = {}  BY <1>1, <1>2, <2>3, Strangers
    <3>2. Bef(g, x, m) <=> Key[x] < Key[m]  BY <2>1, <3>1 DEF Bef
    <3>3. Past(Key[m], x) <=> Key[m] > Key[x]  BY <3>1 DEF Past
    <3> QED  BY <2>1, <3>1, <3>2, <3>3
  <2> QED  BY <2>2, <2>3
<1>17. Lists(B, g)
  <2> SUFFICES ASSUME NEW i \in Layers PROVE In(i) \subseteq Ground(B) /\ \A x \in In(i) \ {tail} : Chained(g, i, x)
    BY DEF Lists
  <2>1. In(i) \subseteq Ground(B)  BY <1>15 DEF Ground
  <2>2. ASSUME NEW x \in In(i), x # tail PROVE Chained(g, i, x)
    <3> DEFINE y == nodes[x].next[i]
    <3>1. x \in B \cup {head} /\ y = WarmNext(x, i)
      <4>1. CASE x = head  BY <1>12, <4>1
      <4>2. CASE x # head
        <5>1. x \in B /\ i <= Warm[x]  BY <1>15, <2>2, <4>2
        <5> QED  BY <1>11, <5>1
      <4> QED  BY <4>1, <4>2
    <3> HIDE DEF y
    <3>2. \A m \in B : Warm[m] >= i <=> i <= Warm[m]  BY <1>1, LayerNat
    <3>3. CASE y = tail /\ \A m \in B : Warm[m] >= i => ~Past(Key[m], x)
      <4>1. Bef(g, x, tail)  BY <2>2, Strangers DEF Bef
      <4>2. \A z \in In(i) : Bef(g, x, z) => z = tail
        <5> SUFFICES ASSUME NEW z \in In(i), Bef(g, x, z), z # tail PROVE FALSE  OBVIOUS
        <5>1. z # head  BY DEF Bef
        <5>2. z \in B /\ i <= Warm[z]  BY <1>15, <5>1
        <5> QED  BY <1>16, <3>1, <3>2, <3>3, <5>2
      <4>3. tail \in In(i)  BY <1>15
      <4> QED  BY <3>3, <4>1, <4>2, <4>3 DEF Chained, y
    <3>4. CASE /\ y \in B /\ Warm[y] >= i /\ Past(Key[y], x)
               /\ \A m \in B : Warm[m] >= i /\ Past(Key[m], x) => Key[y] <= Key[m]
      <4>1. y \in In(i) /\ Bef(g, x, y)  BY <1>15, <1>16, <3>1, <3>2, <3>4
      <4>2. \A z \in In(i) : Bef(g, x, z) => z = y \/ Bef(g, y, z)
        <5> SUFFICES ASSUME NEW z \in In(i), Bef(g, x, z), z # y PROVE Bef(g, y, z)  OBVIOUS
        <5>1. z # head  BY DEF Bef
        <5>2. y \in Nodes /\ y # head /\ y # tail  BY <1>1, <3>4, Strangers
        <5>3. CASE z = tail  BY <5>2, <5>3, Strangers DEF Bef
        <5>4. CASE z # tail
          <6>1. z \in B /\ i <= Warm[z]  BY <1>15, <5>1, <5>4
          <6>2. Key[y] <= Key[z]  BY <1>16, <3>1, <3>2, <3>4, <6>1
          <6>3. Key[y] # Key[z]  BY <1>1, <3>4, <6>1
          <6>4. Key[y] \in Int /\ Key[z] \in Int  BY <1>1, <3>4, <6>1, Strangers
          <6>5. Past(Key[z], y)  BY <5>2, <6>2, <6>3, <6>4 DEF Past
          <6> QED  BY <1>16, <3>4, <6>1, <6>5
        <5> QED  BY <5>3, <5>4
      <4> QED  BY <4>1, <4>2 DEF Chained, y
    <3> QED  BY <3>1, <3>3, <3>4, WarmNearest
  <2> QED  BY <2>1, <2>2
<1>18. Alone  BY <1>7, LayerNat DEF Alone
<1>19. Pending(B)
  <2>1. todo \in Programs  BY DEF Init
  <2>2. \A u \in Threads : ~Unborn(l[u])  BY <1>7, LayerNat
  <2> QED  BY <2>1, <2>2, OnceAssumption DEF Pending
<1>20. \A t \in Threads : Good(B, g, t)
  <2> SUFFICES ASSUME NEW t \in Threads PROVE Good(B, g, t)  OBVIOUS
  <2>1. l[t].pc = "idle" /\ l[t].op = "none" /\ l[t] = Idle  BY <1>5, <1>6
  <2>2. ~Unborn(l[t]) /\ ~Again(l[t]) /\ Settled(l[t]) = {}  BY <2>1 DEF Unborn, Again, Settled, Walk
  <2>3. Named(t) /\ Making(B, t)  BY <2>1, <2>2 DEF Named, Making
  <2>4. Standing(B, g, t) /\ Looking(B, t) /\ Erasing(B, t) /\ Seeking(g, t) /\ Placing(B, t) /\ Seconding(t) /\
        Settles(B, g, t)
    BY <2>1, <2>2 DEF Standing, Looking, Erasing, Seeking, Placing, Seconding, Settles, Walk
  <2> QED  BY <2>3, <2>4 DEF Good
<1>21. MarkInv  BY InitMarks
<1> QED  BY <1>4a, <1>14, <1>17, <1>18, <1>19, <1>20, <1>21 DEF ListInv, g
-----------------------------------------------------------------------------
\* Only the start of a search and its way on change cur.
Stays(t) == Others(t) /\ l'[t].cur \in {None, l[t].cur}
Peeks(t) == Others(t) /\ l'[t].pc = "peek"

LEMMA GoStays == ASSUME TypeOK, NEW t \in Threads, NEW p, NEW r, Goto(t, p, r), [r EXCEPT !.pc = p].cur = l[t].cur
  PROVE  Stays(t)
<1>1. l'[t] = IF p = "idle" THEN Idle ELSE [r EXCEPT !.pc = p]  BY DEF Goto, TypeOK
<1>2. Idle.cur = None  BY DEF Idle
<1>3. Others(t)  BY DEF Goto, TypeOK, Others
<1> QED  BY <1>1, <1>2, <1>3 DEF Stays

LEMMA GoPeeks == ASSUME TypeOK, NEW t \in Threads, NEW r, Goto(t, "peek", r), [r EXCEPT !.pc = "peek"].pc = "peek"
  PROVE  Peeks(t)
<1>1. l'[t] = [r EXCEPT !.pc = "peek"]  BY DEF Goto, TypeOK
<1>2. Others(t)  BY DEF Goto, TypeOK, Others
<1> QED  BY <1>1, <1>2 DEF Peeks

LEMMA GoHere == ASSUME TypeOK, NEW t \in Threads, NEW p, Goto(t, p, l[t]) PROVE Stays(t)
<1>1. [l[t] EXCEPT !.pc = p].cur = l[t].cur  BY DEF TypeOK, Locals
<1> QED  BY <1>1, GoStays

LEMMA ClearStays == ASSUME TypeOK, NEW t \in Threads, NEW i, NEW p, NEW less, ClearFrom(t, i, p, less) PROVE Stays(t)
<1> DEFINE r == [l[t] EXCEPT !.layer = i, !.then = p]
<1>1. [r EXCEPT !.pc = "clear"].cur = l[t].cur  BY DEF TypeOK, Locals
<1>2. Goto(t, p, l[t]) \/ Goto(t, "clear", r)  BY DEF ClearFrom
<1> HIDE DEF r
<1> QED  BY <1>1, <1>2, GoStays, GoHere

LEMMA RetryStays == ASSUME TypeOK, NEW t \in Threads, NEW less, Retry(t, less) PROVE Stays(t)
BY GoHere, ClearStays DEF Retry

LEMMA TakeStays == ASSUME TypeOK, NEW t \in Threads, NEW n, NEW less, NEW r \in Locals, r.cur = l[t].cur, Take(t, n, less, r)
  PROVE  Stays(t)
<1>1. [[r EXCEPT !.next = n] EXCEPT !.pc = "look"].cur = l[t].cur  BY DEF Locals
<1>2. Goto(t, "crash", l[t]) \/ Goto(t, "look", [r EXCEPT !.next = n])  BY DEF Take
<1> QED  BY <1>1, <1>2, GoStays, GoHere

LEMMA CallStays == ASSUME TypeOK, NEW t \in Threads, Call(t) PROVE Stays(t)
<1>1. Idle.cur = None  BY DEF Idle
<1>2. ASSUME NEW p, NEW r, Goto(t, p, r), [r EXCEPT !.pc = p].cur = None PROVE Stays(t)
  <2>1. l'[t] = IF p = "idle" THEN Idle ELSE [r EXCEPT !.pc = p]  BY <1>2 DEF Goto, TypeOK
  <2>2. Others(t)  BY <1>2 DEF Goto, TypeOK, Others
  <2> QED  BY <1>1, <1>2, <2>1, <2>2 DEF Stays
<1>3. CASE \E n, i : CallInsert(t, n, i)
  <2>1. PICK n, i : CallInsert(t, n, i)  BY <1>3
  <2> DEFINE r == [Idle EXCEPT !.op = "insert", !.node = n, !.key = Key[n], !.top = i]
  <2>2. [r EXCEPT !.pc = "start"].cur = None  BY DEF Idle
  <2>3. Goto(t, "start", r)  BY <2>1 DEF CallInsert
  <2> QED  BY <1>2, <2>2, <2>3
<1>4. CASE \E n : CallErase(t, n)
  <2>1. PICK n : CallErase(t, n)  BY <1>4
  <2> DEFINE r == [Idle EXCEPT !.op = "erase", !.node = n, !.key = Key[n], !.top = nodes[n].top]
  <2>2. [r EXCEPT !.pc = "removed"].cur = None  BY DEF Idle
  <2>3. Goto(t, "removed", r)  BY <2>1 DEF CallErase
  <2> QED  BY <1>2, <2>2, <2>3
<1>5. CASE \E k : CallFind(t, k)
  <2>1. PICK k : CallFind(t, k)  BY <1>5
  <2> DEFINE r == [Idle EXCEPT !.op = "find", !.key = k]
  <2>2. [r EXCEPT !.pc = "start"].cur = None  BY DEF Idle
  <2>3. Goto(t, "start", r)  BY <2>1 DEF CallFind
  <2> QED  BY <1>2, <2>2, <2>3
<1> QED  BY <1>3, <1>4, <1>5 DEF Call

\* Whichever step: cur changes only where a search starts or goes on.
LEMMA StepStays == ASSUME TypeOK, NEW t \in Threads, Step(t) PROVE Stays(t) \/ Peeks(t)
<1>1. l[t] \in Locals  BY DEF TypeOK
<1>2. CASE Call(t)  BY <1>2, CallStays
<1>3. CASE Removed(t) \/ Retire(t) \/ Linked(t) \/ Restore(t) \/ Unmark(t) \/ Return(t) \/ Unlink(t) \/ Publish(t) \/ Release(t)
  BY <1>3, GoHere DEF Removed, Retire, Linked, Restore, Unmark, Return, Unlink, Publish, Release
<1>4. CASE Mark(t)
  <2>1. PICK i : Goto(t, "retire", l[t]) \/ Goto(t, "removed", [l[t] EXCEPT !.top = i])  BY <1>4 DEF Mark
  <2>2. [[l[t] EXCEPT !.top = i] EXCEPT !.pc = "removed"].cur = l[t].cur  BY <1>1 DEF Locals
  <2> QED  BY <2>1, <2>2, GoHere, GoStays
<1>5. CASE Start(t) \/ Pass(t) \/ Descend(t) \/ NextValid(t)
  <2>1. CASE Start(t)
    <3>1. PICK i : Goto(t, "peek", [l[t] EXCEPT !.cur = head, !.layer = i, !.again = FALSE])  BY <2>1 DEF Start
    <3>2. [[l[t] EXCEPT !.cur = head, !.layer = i, !.again = FALSE] EXCEPT !.pc = "peek"].pc = "peek"  BY <1>1 DEF Locals
    <3> QED  BY <3>1, <3>2, GoPeeks
  <2>2. CASE Pass(t)
    <3>1. PICK c : Goto(t, "peek", [l[t] EXCEPT !.cur = c])  BY <2>2 DEF Pass
    <3>2. [[l[t] EXCEPT !.cur = c] EXCEPT !.pc = "peek"].pc = "peek"  BY <1>1 DEF Locals
    <3> QED  BY <3>1, <3>2, GoPeeks
  <2>3. CASE Descend(t)
    <3>1. PICK i : Goto(t, "peek", [l[t] EXCEPT !.layer = i])  BY <2>3 DEF Descend
    <3>2. [[l[t] EXCEPT !.layer = i] EXCEPT !.pc = "peek"].pc = "peek"  BY <1>1 DEF Locals
    <3> QED  BY <3>1, <3>2, GoPeeks
  <2>4. CASE NextValid(t)
    <3>1. ClearFrom(t, l[t].layer, Begin(t), {}) \/ Goto(t, "peek", [l[t] EXCEPT !.again = TRUE])  BY <2>4 DEF NextValid
    <3>2. [[l[t] EXCEPT !.again = TRUE] EXCEPT !.pc = "peek"].pc = "peek"  BY <1>1 DEF Locals
    <3> QED  BY <3>1, <3>2, GoPeeks, ClearStays
  <2> QED  BY <1>5, <2>1, <2>2, <2>3, <2>4
<1>6. CASE Peek(t) \/ Hopped(t)
  <2>1. [l[t] EXCEPT !.found = FALSE] \in Locals /\ [l[t] EXCEPT !.found = FALSE].cur = l[t].cur
    BY ZenonT(40), <1>1, SetFound DEF Locals
  <2>2. CASE Peek(t)
    <3>1. CASE IsLinked(l[t].cur)
      <4>1. PICK n : Take(t, n, {}, [l[t] EXCEPT !.found = FALSE])  BY <2>2, <3>1 DEF Peek
      <4> QED  BY <2>1, <4>1, TakeStays
    <3>2. CASE ~IsLinked(l[t].cur)
      <4>1. Retry(t, {})  BY <2>2, <3>2 DEF Peek
      <4> QED  BY <4>1, RetryStays
    <3> QED  BY <3>1, <3>2
  <2>3. CASE Hopped(t)
    <3>1. PICK n, less : Take(t, n, less, l[t]) \/ Retry(t, less)  BY <2>3 DEF Hopped
    <3> QED  BY <1>1, <3>1, TakeStays, RetryStays
  <2> QED  BY <1>6, <2>2, <2>3
<1>7. CASE Hop(t)
  <2>1. PICK b : Goto(t, "hop", [l[t] EXCEPT !.found = b])  BY <1>7 DEF Hop
  <2>2. [[l[t] EXCEPT !.found = b] EXCEPT !.pc = "hop"].cur = l[t].cur  BY <1>1 DEF Locals
  <2> QED  BY <2>1, <2>2, GoStays
<1>8. CASE Answer(t)
  <2>1. PICK a : Goto(t, "answer", [l[t] EXCEPT !.answer = a])  BY <1>8 DEF Answer
  <2>2. [[l[t] EXCEPT !.answer = a] EXCEPT !.pc = "answer"].cur = l[t].cur  BY <1>1 DEF Locals
  <2> QED  BY <2>1, <2>2, GoStays
<1>9. CASE Place(t)
  <2>1. PICK i, c, n : Goto(t, "try", [l[t] EXCEPT !.prevs[i] = c, !.nexts[i] = n])  BY <1>9 DEF Place
  <2>2. [[l[t] EXCEPT !.prevs[i] = c, !.nexts[i] = n] EXCEPT !.pc = "try"].cur = l[t].cur  BY <1>1 DEF Locals
  <2> QED  BY <2>1, <2>2, GoStays
<1>10. CASE Try(t) \/ Prev(t)
  <2>1. CASE Try(t)  BY <2>1, GoHere, RetryStays DEF Try
  <2>2. CASE Prev(t)  BY <2>2, GoHere, ClearStays DEF Prev
  <2> QED  BY <1>10, <2>1, <2>2
<1>11. CASE Placed(t)
  <2>1. \/ \E p : Goto(t, p, l[t])
        \/ \E i, less : ClearFrom(t, i, Begin(t), less)
        \/ \E i : Goto(t, "peek", [l[t] EXCEPT !.layer = i, !.again = FALSE])
    BY <1>11 DEF Placed
  <2>2. \A i : [[l[t] EXCEPT !.layer = i, !.again = FALSE] EXCEPT !.pc = "peek"].cur = l[t].cur  BY <1>1 DEF Locals
  <2> QED  BY <2>1, <2>2, GoHere, GoStays, ClearStays
<1>12. CASE Store(t) \/ Count(t) \/ Scan(t) \/ SetTop(t) \/ Clear(t)
  <2>1. \/ \E p : Goto(t, p, l[t])
        \/ \E i, p, less : ClearFrom(t, i, p, less)
        \/ \E p, i : Goto(t, p, [l[t] EXCEPT !.layer = i])
    <3>1. CASE Store(t)  BY <3>1 DEF Store
    <3>2. CASE Count(t)  BY <3>2 DEF Count
    <3>3. CASE Scan(t) \/ SetTop(t)  BY <3>3 DEF Scan, SetTop, Finish
    <3>4. CASE Clear(t)  BY <3>4 DEF Clear
    <3> QED  BY <1>12, <3>1, <3>2, <3>3, <3>4
  <2>2. \A p, i : [[l[t] EXCEPT !.layer = i] EXCEPT !.pc = p].cur = l[t].cur  BY <1>1 DEF Locals
  <2> QED  BY ZenonT(40), <2>1, <2>2, GoHere, GoStays, ClearStays
<1> QED  BY <1>2, <1>3, <1>4, <1>5, <1>6, <1>7, <1>8, <1>9, <1>10, <1>11, <1>12 DEF Step

-----------------------------------------------------------------------------
\* The inductive invariant that StoresSucceed, NoNull and Towers follow from.
LinkInv == (\E B, g : ListInv(B, g)) /\ \A t \in Threads : l[t].cur # tail

\* A stutter.
LEMMA StutterList == ASSUME NEW B, NEW g, ListInv(B, g), MarkInv', UNCHANGED vars PROVE ListInv(B, g)'
<1>1. nodes' = nodes /\ l' = l /\ todo' = todo  BY DEF vars
<1>2. Order(B, g) /\ Lists(B, g) /\ Ends /\ Pending(B) /\ Alone /\ \A t \in Threads : Good(B, g, t)  BY DEF ListInv
<1>3. \A i \in Layers : In(i)' = In(i)  BY <1>1 DEF In, Member
<1>4. Lists(B, g)'  BY <1>1, <1>2, <1>3, ListsKept
<1>5. Ends' /\ Pending(B)' /\ Alone'  BY <1>1, <1>2 DEF Ends, Pending, Alone
<1>6. ASSUME NEW t \in Threads PROVE Good(B, g, t)'
  <2>1. Kept(B, g, B, g, t)  BY <1>1, StillKept DEF Still
  <2> QED  BY <1>1, <2>1, GoodFrame
<1> QED  BY <1>2, <1>4, <1>5, <1>6 DEF ListInv

\* One lemma for every step.
LEMMA StepSameList == ASSUME NEW B, NEW g, ListInv(B, g), Fresh, Topped, Known, MarkInv', NEW t \in Threads, Step(t), ~Store(t)
  PROVE  ListInv(B, g)'
<1>1. CASE Call(t) \/ Removed(t) \/ Mark(t) \/ Retire(t) \/ Linked(t) \/ Restore(t) \/ Unmark(t) \/ Return(t)
  BY <1>1, CallList, RemovedList, MarkList, RetireList, LinkedList, RestoreList, UnmarkList, ReturnList
<1>2. CASE Start(t) \/ Peek(t) \/ Hop(t) \/ Hopped(t) \/ Pass(t) \/ Descend(t) \/ Answer(t)
  BY <1>2, StartList, PeekList, HopList, HoppedList, PassList, DescendList, AnswerList
<1>3. CASE Place(t) \/ Try(t) \/ Prev(t) \/ NextValid(t) \/ Placed(t)
  BY <1>3, PlaceList, TryList, PrevList, NextValidList, PlacedList
<1>4. CASE Unlink(t) \/ Publish(t) \/ Release(t) \/ Count(t) \/ Scan(t) \/ SetTop(t) \/ Clear(t)
  BY <1>4, UnlinkList, PublishList, ReleaseList, CountList, ScanList, SetTopList, ClearList
<1> QED  BY <1>1, <1>2, <1>3, <1>4 DEF Step

LEMMA StepList == ASSUME NEW B, NEW g, ListInv(B, g), Fresh, Topped, Known, MarkInv', NEW t \in Threads, Step(t)
                  PROVE \E A, h : ListInv(A, h)'
<1>1. CASE Store(t)  BY <1>1, StoreList
<1>2. CASE ~Store(t)  BY <1>2, StepSameList
<1> QED  BY <1>1, <1>2

\* LinkInv holds initially, every step keeps it, and the properties follow from it.
LEMMA InitLinks == Init => LinkInv
<1> SUFFICES ASSUME Init PROVE LinkInv  OBVIOUS
<1>1. \E B, g : ListInv(B, g)  BY InitList
<1>2. \A t \in Threads : l[t].cur = None  BY DEF Init, Idle
<1> QED  BY <1>1, <1>2, ListAssumption DEF LinkInv, Links

LEMMA NextLinks == LinkInv /\ Fresh /\ Topped /\ Known /\ [Next]_vars => LinkInv'
<1> SUFFICES ASSUME LinkInv, Fresh, Topped, Known, [Next]_vars PROVE LinkInv'  OBVIOUS
<1>1. PICK B, g : ListInv(B, g)  BY DEF LinkInv
<1>2. MarkInv /\ TypeOK  BY <1>1, Basics
<1>3. MarkInv'  BY <1>2, NextMarks
<1>4. CASE UNCHANGED vars
  <2>1. ListInv(B, g)'  BY <1>1, <1>3, <1>4, StutterList
  <2> QED  BY <1>4, <2>1 DEF LinkInv, vars
<1>5. ASSUME NEW t \in Threads, Step(t) PROVE LinkInv'
  <2>1. PICK A, h : ListInv(A, h)'  BY <1>1, <1>3, <1>5, StepList
  <2>2. Others(t) /\ (l'[t].cur \in {None, l[t].cur} \/ l'[t].pc = "peek")  BY <1>2, <1>5, StepStays DEF Stays, Peeks
  <2>3. ASSUME NEW u \in Threads PROVE l'[u].cur # tail
    <3>1. CASE u # t  BY <2>2, <3>1 DEF Others, LinkInv
    <3>2. CASE u = t
      <4>1. CASE l'[t].cur \in {None, l[t].cur}  BY <3>2, <4>1, ListAssumption DEF LinkInv, Links
      <4>2. CASE l'[t].pc = "peek"
        <5>1. Standing(A, h, t)'  BY <2>1 DEF ListInv, Good
        <5> QED  BY <3>2, <4>2, <5>1 DEF Standing, Walk
      <4> QED  BY <2>2, <4>1, <4>2
    <3> QED  BY <3>1, <3>2
  <2> QED  BY <2>1, <2>3 DEF LinkInv
<1> QED  BY <1>4, <1>5 DEF Next, Done

LEMMA LinkStores == LinkInv => StoresSucceed
<1> SUFFICES ASSUME LinkInv, NEW t \in Threads, l[t].pc = "store"
             PROVE LET p == l[t].prevs[l[t].layer]
                   IN /\ p # None /\ nodes[p].next[l[t].layer] = Expected(t)
                      /\ l[t].nexts[l[t].layer] # l[t].node /\ nodes[l[t].nexts[l[t].layer]].full
  BY DEF StoresSucceed, At
<1>1. PICK B, g : ListInv(B, g)  BY DEF LinkInv
<1> QED  BY <1>1, StoreBasics

LEMMA LinkNoNull == LinkInv => NoNull
<1> SUFFICES ASSUME LinkInv, NEW t \in Threads PROVE l[t].pc # "crash" /\ l[t].cur # tail  BY DEF NoNull, At
<1>1. PICK B, g : ListInv(B, g)  BY DEF LinkInv
<1> QED  BY <1>1, Basics DEF LinkInv, Good, Named

\* Every compare-and-swap of a next pointer that an insert or an erase makes, with the
\* marks of _sl_link and _sl_unlink in hand, finds the pointer that it is to replace: the
\* assertions behind it in skiplist_insert and skiplist_erase never fail.
THEOREM StoresCorrect == Spec /\ []Fresh /\ []Topped /\ []Known => []StoresSucceed
<1> QED  BY InitLinks, NextLinks, LinkStores, PTL DEF Spec

\* A search never follows a NULL pointer: in every layer where it looks, the node it stands
\* at has a next node, and it never stands at the tail (_sl_next, and the loops around it).
THEOREM NullNever == Spec /\ []Fresh /\ []Topped /\ []Known => []NoNull
<1> QED  BY InitLinks, NextLinks, LinkNoNull, PTL DEF Spec
-----------------------------------------------------------------------------
\* Of finitely many members of a list one comes last.
LEMMA LastOne == ASSUME NEW B, NEW g, Order(B, g), NEW S, IsFiniteSet(S), S \subseteq Ground(B), S # {}
                 PROVE \E m \in S : \A k \in S : ~Bef(g, m, k)
<1> DEFINE D(m) == {k \in S : Bef(g, m, k)}
           T == {D(m) : m \in S}
<1>1. IsWellFoundedOn(StrictSubsetOrdering(S), SUBSET S)
  BY FS_StrictSubsetOrderingWellFounded, FS_FiniteSubsetsOfFinite
<1>2. T \subseteq SUBSET S /\ T # {}  OBVIOUS
<1>3. PICK d \in T : \A e \in T : ~(<<e, d>> \in StrictSubsetOrdering(S))
  <2> HIDE DEF T
  <2> QED  BY <1>1, <1>2, WFMin
<1>4. PICK m \in S : d = D(m)  OBVIOUS
<1>5. ASSUME NEW k \in S, Bef(g, m, k) PROVE FALSE
  <2>1. D(k) \subseteq D(m)
    <3> SUFFICES ASSUME NEW n \in S, Bef(g, k, n) PROVE Bef(g, m, n)  OBVIOUS
    <3>1. m \in Ground(B) /\ k \in Ground(B) /\ n \in Ground(B)  OBVIOUS
    <3> QED  BY <1>5, <3>1, BefTrans
  <2>2. k \in D(m) /\ k \notin D(k)  BY <1>5, BefNot
  <2>3. D(k) \in T /\ D(k) \in SUBSET S /\ D(m) \in SUBSET S  OBVIOUS
  <2> HIDE DEF D, T
  <2>4. <<D(k), D(m)>> \in StrictSubsetOrdering(S)  BY <2>1, <2>2, <2>3 DEF StrictSubsetOrdering
  <2> QED  BY <1>3, <1>4, <2>3, <2>4
<1> QED  BY <1>4, <1>5

\* The members of a layer, and no others, can be reached in it.
LEMMA MembersReached == ASSUME NEW B, NEW g, ListInv(B, g), NEW i \in Layers, NEW n \in In(i), n \in Nodes
  PROVE  n \in InLayer(i)
<1> SUFFICES ASSUME NEW S \in SUBSET Nodes, \A x \in S \cup {head} : nodes[x].next[i] \in S \cup {tail, None}, n \notin S
             PROVE FALSE
  BY DEF InLayer
<1> DEFINE Q == {x \in In(i) : x \in S \cup {head} /\ Bef(g, x, n)}
<1>1. Order(B, g) /\ IsFiniteSet(B) /\ In(i) \subseteq Ground(B)  BY Basics DEF Order, Lists
<1>2. IsFiniteSet(Ground(B))
  <2>1. IsFiniteSet({head}) /\ {head, tail} = {head} \cup {tail}  BY FS_Singleton
  <2>2. IsFiniteSet({head, tail})  BY <2>1, FS_AddElement
  <2> QED  BY <1>1, <2>2, FS_Union DEF Ground
<1>3. IsFiniteSet(Q) /\ Q \subseteq Ground(B)  BY <1>1, <1>2, FS_Subset
<1>4. head \in Q  BY Strangers DEF In, Member, Links, Bef
<1>5. PICK m \in Q : \A k \in Q : ~Bef(g, m, k)  BY <1>1, <1>3, <1>4, LastOne
<1>6. m \in In(i) /\ m \in S \cup {head} /\ Bef(g, m, n) /\ m # tail  BY Strangers DEF Bef
<1>7. PICK y : y = nodes[m].next[i]  OBVIOUS
<1>8. y \in In(i) /\ y # None /\ Bef(g, m, y) /\ (n = y \/ Bef(g, y, n))  BY <1>6, <1>7, NextMember
<1>9. y \in S \cup {tail}  BY <1>6, <1>7, <1>8
<1>10. n # y  BY <1>9, Strangers
<1>11. Bef(g, y, n) /\ y # tail  BY <1>8, <1>10 DEF Bef
<1>12. y \in Q  BY <1>8, <1>9, <1>11
<1> QED  BY <1>5, <1>8, <1>12

LEMMA ReachedMembers == ASSUME NEW B, NEW g, ListInv(B, g), NEW i \in Layers, NEW n \in InLayer(i) PROVE n \in In(i)
<1> DEFINE S == In(i) \cap Nodes
<1>1. ASSUME NEW x \in S \cup {head} PROVE nodes[x].next[i] \in S \cup {tail}
  <2>1. x \in In(i) /\ x # tail  BY <1>1, Strangers DEF In, Member, Links
  <2>2. nodes[x].next[i] \in In(i) /\ nodes[x].next[i] # head /\ nodes[x].next[i] \in Links  BY <2>1, NextMember
  <2> QED  BY <2>2 DEF Links
<1>2. S \in SUBSET Nodes /\ \A x \in S \cup {head} : nodes[x].next[i] \in S \cup {tail, None}  BY <1>1
<1> HIDE DEF S
<1>3. n \in S  BY <1>2 DEF InLayer
<1> QED  BY <1>3 DEF S

\* LinkInv has every tower stand.
LEMMA LinkTowers == LinkInv => Towers
<1> SUFFICES ASSUME LinkInv, NEW i \in Layers, NEW n \in Nodes
             PROVE /\ nodes[n].full /\ i <= nodes[n].top => n \in InLayer(i)
                   /\ n \in InLayer(i) => nodes[n].full \/ \E t \in Threads : Moving(t, n)
  BY DEF Towers
<1>1. PICK B, g : ListInv(B, g)  BY DEF LinkInv
<1>2. ASSUME nodes[n].full, i <= nodes[n].top PROVE n \in InLayer(i)
  <2>1. n \in In(i)  BY <1>2 DEF In, Member, Links
  <2> QED  BY <1>1, <2>1, MembersReached
<1>3. ASSUME n \in InLayer(i) PROVE nodes[n].full \/ \E t \in Threads : Moving(t, n)
  <2>1. n \in In(i)  BY <1>1, <1>3, ReachedMembers
  <2>2. nodes[n].full \/ \E t \in Threads : l[t].node = n /\ Half(l[t], i)  BY <2>1, Strangers DEF In, Member
  <2> QED  BY <2>2 DEF Moving, Half, Inserted, Cutting
<1> QED  BY <1>2, <1>3

\* When no call is open, a node is in the lists of all layers up to its top or in none: the
\* inserts and erases that ran at the same time have linked and unlinked whole towers.
THEOREM TowersStand == Spec /\ []Fresh /\ []Topped /\ []Known => []Towers
<1> QED  BY InitLinks, NextLinks, LinkTowers, PTL DEF Spec
=============================================================================
