----------------------- MODULE SkipIndexAtomicProofs ------------------------
(***************************************************************************)
(* Proofs that the concurrent skip list library implements IndexSet, a set *)
(* with a weak find (Atomic): what every step tells of the open calls, what *)
(* a find has seen where it stands, and that a node which is retired has an *)
(* eraser or is gone for good.  Then that Fresh, Known and Topped, on which *)
(* this and the theorems on the lists rest, follow from what callers owe.  *)
(***************************************************************************)
EXTENDS SkipIndexListProofs

-----------------------------------------------------------------------------
\* What a step of thread t tells of its call.
SameTold(t) == /\ l'[t].op = l[t].op /\ l'[t].node = l[t].node /\ l'[t].key = l[t].key /\ l'[t].answer = l[t].answer
OthersSeen(t) == \A u \in Threads : u # t => seen'[u] = seen[u]

\* A step that tells nothing is a stutter of the promise.
LEMMA TellQuiet == ASSUME NEW t \in Threads, Others(t), Full' = Full, seen' = seen, SameTold(t), Effected(t)' <=> Effected(t)
                   PROVE UNCHANGED Promise!vars
<1>1. ASSUME NEW u \in Threads PROVE Effected(u)' = Effected(u)
  <2>1. Effected(u)' <=> Effected(u)  BY DEF Effected, Others, At, Begin
  <2> QED  BY <2>1 DEF Effected
<1>2. \A u \in Threads : l'[u].op = l[u].op /\ l'[u].node = l[u].node /\ l'[u].key = l[u].key /\ l'[u].answer = l[u].answer
  BY DEF SameTold, Others
<1>3. Told' = Told  BY <1>1, <1>2 DEF Told
<1> QED  BY <1>3 DEF Promise!vars

\* The record of a thread that is idle.
LEMMA IdleTells == Promise!Idle = [op |-> Idle.op, node |-> Idle.node, key |-> Idle.key, answer |-> Idle.answer,
                                   met |-> Unseen.met, kept |-> Unseen.kept, done |-> FALSE]
BY DEF Promise!Idle, Idle, Unseen

\* The records of the other threads.
LEMMA TellOthers == ASSUME NEW t \in Threads, Others(t), OthersSeen(t)
  PROVE  \A u \in Threads : u # t => Told'[u] = Told[u]
<1> SUFFICES ASSUME NEW u \in Threads, u # t PROVE Told'[u] = Told[u]  OBVIOUS
<1>1. l'[u] = l[u] /\ seen'[u] = seen[u]  BY DEF Others, OthersSeen
<1>2. Effected(u)' = Effected(u)
  <2>1. Effected(u)' <=> Effected(u)  BY <1>1 DEF Effected, At, Begin
  <2> QED  BY <2>1 DEF Effected
<1> QED  BY <1>1, <1>2 DEF Told

LEMMA ToldIs == /\ Told = [t \in Threads |-> Told[t]] /\ Told' = [t \in Threads |-> Told'[t]]
                /\ \A t \in Threads : Told[t] = [op |-> l[t].op, node |-> l[t].node, key |-> l[t].key, answer |-> l[t].answer,
                                                 met |-> seen[t].met, kept |-> seen[t].kept, done |-> Effected(t)]
                /\ \A t \in Threads : Told'[t] = [op |-> l'[t].op, node |-> l'[t].node, key |-> l'[t].key, answer |-> l'[t].answer,
                                                 met |-> seen'[t].met, kept |-> seen'[t].kept, done |-> Effected(t)']
BY DEF Told

\* The record r of a call.
Says(r, o, n, k, a, m, e, d) == r = [op |-> o, node |-> n, key |-> k, answer |-> a, met |-> m, kept |-> e, done |-> d]

\* Such a record with fields changed.
LEMMA WithDone == ASSUME NEW o, NEW n, NEW k, NEW a, NEW m, NEW e, NEW d, NEW b, NEW r, Says(r, o, n, k, a, m, e, d)
                 PROVE Says([r EXCEPT !.done = b], o, n, k, a, m, e, b)
<1> DEFINE T == {o, n, k, a, m, e, d, b}
           R == [op : T, node : T, key : T, answer : T, met : T, kept : T, done : T]
<1>1. PICK s : s = [op |-> o, node |-> n, key |-> k, answer |-> a, met |-> m, kept |-> e, done |-> b]  OBVIOUS
<1>2. s \in R /\ r \in R  BY <1>1 DEF Says
<1>3. s.op = o /\ s.node = n /\ s.key = k /\ s.answer = a /\ s.met = m /\ s.kept = e /\ s.done = b  BY <1>1
<1>4. r.op = o /\ r.node = n /\ r.key = k /\ r.answer = a /\ r.met = m /\ r.kept = e /\ r.done = d  BY DEF Says
<1>5. [r EXCEPT !.done = b] = s  BY <1>2, <1>3, <1>4
<1> QED  BY <1>1, <1>5 DEF Says

LEMMA WithAnswer == ASSUME NEW o, NEW n, NEW k, NEW a, NEW m, NEW e, NEW d, NEW b, NEW x, NEW r, Says(r, o, n, k, a, m, e, d)
                 PROVE Says([r EXCEPT !.done = b, !.answer = x], o, n, k, x, m, e, b)
<1> DEFINE T == {o, n, k, a, m, e, d, b, x}
           R == [op : T, node : T, key : T, answer : T, met : T, kept : T, done : T]
<1>1. PICK s : s = [op |-> o, node |-> n, key |-> k, answer |-> x, met |-> m, kept |-> e, done |-> b]  OBVIOUS
<1>2. s \in R /\ r \in R  BY <1>1 DEF Says
<1>3. s.op = o /\ s.node = n /\ s.key = k /\ s.answer = x /\ s.met = m /\ s.kept = e /\ s.done = b  BY <1>1
<1>4. r.op = o /\ r.node = n /\ r.key = k /\ r.answer = a /\ r.met = m /\ r.kept = e /\ r.done = d  BY DEF Says
<1>5. [r EXCEPT !.done = b, !.answer = x] = s  BY <1>2, <1>3, <1>4
<1> QED  BY <1>1, <1>5 DEF Says

LEMMA WithSeen == ASSUME NEW o, NEW n, NEW k, NEW a, NEW m, NEW e, NEW d, NEW x, NEW y, NEW r, Says(r, o, n, k, a, m, e, d)
                 PROVE Says([r EXCEPT !.met = x, !.kept = y], o, n, k, a, x, y, d)
<1> DEFINE T == {o, n, k, a, m, e, d, x, y}
           R == [op : T, node : T, key : T, answer : T, met : T, kept : T, done : T]
<1>1. PICK s : s = [op |-> o, node |-> n, key |-> k, answer |-> a, met |-> x, kept |-> y, done |-> d]  OBVIOUS
<1>2. s \in R /\ r \in R  BY <1>1 DEF Says
<1>3. s.op = o /\ s.node = n /\ s.key = k /\ s.answer = a /\ s.met = x /\ s.kept = y /\ s.done = d  BY <1>1
<1>4. r.op = o /\ r.node = n /\ r.key = k /\ r.answer = a /\ r.met = m /\ r.kept = e /\ r.done = d  BY DEF Says
<1>5. [r EXCEPT !.met = x, !.kept = y] = s  BY <1>2, <1>3, <1>4
<1> QED  BY <1>1, <1>5 DEF Says

\* A thread becomes idle.
LEMMA TellIdle == ASSUME NEW t \in Threads, Others(t), OthersSeen(t), l'[t] = Idle, seen'[t] = Unseen
                  PROVE Told' = [Told EXCEPT ![t] = Promise!Idle]
<1>1. Effected(t)' = FALSE  BY DEF Effected, At, Idle
<1>2. Told'[t] = Promise!Idle  BY <1>1, ToldIs, IdleTells
<1>3. \A u \in Threads : u # t => Told'[u] = Told[u]  BY TellOthers
<1> QED  BY <1>2, <1>3, ToldIs

\* The call returns, is refused, or finds its answer.
LEMMA TellReturn == ASSUME NEW t \in Threads, Others(t), OthersSeen(t), Full' = Full, l'[t] = Idle, seen'[t] = Unseen,
                           Effected(t)
                    PROVE Promise!Next
<1>1. Told[t].done  BY ToldIs
<1>2. Told' = [Told EXCEPT ![t] = Promise!Idle]  BY TellIdle
<1>3. Promise!Return(t)  BY <1>1, <1>2 DEF Promise!Return
<1> QED  BY <1>3 DEF Promise!Next

LEMMA TellRefuse == ASSUME NEW t \in Threads, Others(t), OthersSeen(t), Full' = Full, l'[t] = Idle, seen'[t] = Unseen,
                           ~Effected(t),
                           l[t].op = "erase",
                           l[t].node \notin Full \/ \E u \in Threads \ {t} : l[u].op = "erase" /\ l[u].node = l[t].node
                    PROVE Promise!Next
<1>1. ~Told[t].done /\ \A u \in Threads : Told[u].op = l[u].op /\ Told[u].node = l[u].node  BY ToldIs
<1>2. Told' = [Told EXCEPT ![t] = Promise!Idle]  BY TellIdle
<1>3. Promise!Refuse(t)  BY <1>1, <1>2 DEF Promise!Refuse
<1> QED  BY <1>3 DEF Promise!Next

LEMMA TellAnswer == ASSUME NEW t \in Threads, Others(t), seen' = seen, Full' = Full, l[t].op = "find", ~Effected(t),
                           l'[t].op = l[t].op, l'[t].node = l[t].node, l'[t].key = l[t].key, l'[t].pc = "answer",
                           NEW n \in Nodes \cup {None}, l'[t].answer = n,
                           Promise!MayAnswer(n, l[t].key, seen[t].met, seen[t].kept)
                    PROVE Promise!Next
<1>1. /\ Told[t].op = "find" /\ ~Told[t].done /\ Told[t].key = l[t].key
      /\ Told[t].met = seen[t].met /\ Told[t].kept = seen[t].kept
  BY ToldIs
<1>2. Effected(t)' = TRUE  BY DEF Effected
<1>3. Told'[t] = [Told[t] EXCEPT !.done = TRUE, !.answer = n]
  <2>1. Effected(t) = FALSE  BY DEF Effected
  <2>2. Told[t] = [op |-> l[t].op, node |-> l[t].node, key |-> l[t].key, answer |-> l[t].answer,
                   met |-> seen[t].met, kept |-> seen[t].kept, done |-> FALSE]
    BY <2>1, ToldIs
  <2>3. Told'[t] = [op |-> l[t].op, node |-> l[t].node, key |-> l[t].key, answer |-> n,
                    met |-> seen[t].met, kept |-> seen[t].kept, done |-> TRUE]
    BY <1>2, ToldIs
  <2> PICK r, o, i, k, a, m, e, b : r = Told[t] /\ o = l[t].op /\ i = l[t].node /\ k = l[t].key /\ a = l[t].answer
                                    /\ m = seen[t].met /\ e = seen[t].kept /\ b = TRUE
    OBVIOUS
  <2>4. PICK d : Says(r, o, i, k, a, m, e, d)  BY <2>2 DEF Says
  <2>5. Says([r EXCEPT !.done = b, !.answer = n], o, i, k, n, m, e, b)  BY <2>4, WithAnswer
  <2> QED  BY <2>3, <2>5 DEF Says
<1>4. \A u \in Threads : u # t => Told'[u] = Told[u]  BY TellOthers DEF OthersSeen
<1>5. Told' = [Told EXCEPT ![t].done = TRUE, ![t].answer = n]  BY <1>3, <1>4, ToldIs
<1>6. Promise!Answer(t)  BY <1>1, <1>5 DEF Promise!Answer
<1> QED  BY <1>6 DEF Promise!Next

\* An update of the set takes effect, and every find that is open sees it.
LEMMA TellEffect == ASSUME NEW t \in Threads, Others(t), SameTold(t), ~Effected(t), Effected(t)', NEW op, l[t].op = op,
                           op # "find", TypeOK,
                           NEW S, S = Full', seen'[t] = seen[t],
                           \A u \in Threads : u # t => /\ l[u].op = "find" => seen'[u] = [met |-> seen[u].met \cup S, kept |-> seen[u].kept \cap S]
                                                       /\ l[u].op # "find" => seen'[u] = seen[u]
                    PROVE Promise!Effect(t, op, S)
<1>1. Told[t].op = op /\ ~Told[t].done  BY ToldIs
<1> DEFINE c == [Told EXCEPT ![t].done = TRUE]
<1>2. c = [u \in Threads |-> c[u]] /\ c[t] = [Told[t] EXCEPT !.done = TRUE] /\ \A u \in Threads : u # t => c[u] = Told[u]
  BY ToldIs
<1>3. c[t].op # "find" /\ Told'[t] = c[t]
  <2>1. Effected(t)' = TRUE  BY DEF Effected
  <2>2. Told'[t] = [op |-> l[t].op, node |-> l[t].node, key |-> l[t].key, answer |-> l[t].answer,
                                                 met |-> seen[t].met, kept |-> seen[t].kept, done |-> TRUE]
    BY <2>1, ToldIs DEF SameTold
  <2>3. c[t] = [op |-> l[t].op, node |-> l[t].node, key |-> l[t].key, answer |-> l[t].answer,
                                                 met |-> seen[t].met, kept |-> seen[t].kept, done |-> TRUE]
    <3>1. Effected(t) = FALSE  BY DEF Effected
    <3>2. Told[t] = [op |-> l[t].op, node |-> l[t].node, key |-> l[t].key, answer |-> l[t].answer,
                     met |-> seen[t].met, kept |-> seen[t].kept, done |-> FALSE]
      BY <3>1, ToldIs
    <3> PICK r, o, i, k, a, m, e, b : r = Told[t] /\ o = l[t].op /\ i = l[t].node /\ k = l[t].key /\ a = l[t].answer
                                      /\ m = seen[t].met /\ e = seen[t].kept /\ b = TRUE
      OBVIOUS
    <3>3. PICK d : Says(r, o, i, k, a, m, e, d)  BY <3>2 DEF Says
    <3>4. Says([r EXCEPT !.done = b], o, i, k, a, m, e, b)  BY <3>3, WithDone
    <3> QED  BY <1>2, <3>4 DEF Says
  <2>4. c[t].op # "find"  BY <2>3
  <2> QED  BY <2>2, <2>3, <2>4
<1>4. ASSUME NEW u \in Threads, u # t
      PROVE Told'[u] = IF c[u].op = "find" THEN [c[u] EXCEPT !.met = @ \cup S, !.kept = @ \cap S] ELSE c[u]
  <2>1. l'[u] = l[u] /\ c[u] = Told[u] /\ Told[u].op = l[u].op  BY <1>2, <1>4, ToldIs DEF Others
  <2>2. Effected(u)' = Effected(u)
    <3>1. Effected(u)' <=> Effected(u)  BY <2>1 DEF Effected, At, Begin
    <3> QED  BY <3>1 DEF Effected
  <2>3. CASE l[u].op = "find"
    <3>1. seen'[u] = [met |-> seen[u].met \cup S, kept |-> seen[u].kept \cap S]  BY <1>4, <2>3
    <3> PICK F, d : F = S /\ d = Effected(u)  OBVIOUS
    <3>2. seen'[u].met = seen[u].met \cup F /\ seen'[u].kept = seen[u].kept \cap F  BY <3>1
    <3>3. Told'[u] = [op |-> l[u].op, node |-> l[u].node, key |-> l[u].key, answer |-> l[u].answer,
                      met |-> seen[u].met \cup F, kept |-> seen[u].kept \cap F, done |-> d]
      BY <2>1, <2>2, <3>2, ToldIs
    <3>4. Told[u] = [op |-> l[u].op, node |-> l[u].node, key |-> l[u].key, answer |-> l[u].answer,
                     met |-> seen[u].met, kept |-> seen[u].kept, done |-> d]
      BY ToldIs
    <3>5. Told'[u] = [Told[u] EXCEPT !.met = @ \cup F, !.kept = @ \cap F]
      <4>1. Told[u].met = seen[u].met /\ Told[u].kept = seen[u].kept  BY <3>4
      <4> PICK r, o, i, k, a, m, e : r = Told[u] /\ o = l[u].op /\ i = l[u].node /\ k = l[u].key /\ a = l[u].answer
                                     /\ m = seen[u].met /\ e = seen[u].kept
        OBVIOUS
      <4> PICK x, y : x = m \cup F /\ y = e \cap F  OBVIOUS
      <4>2. Says(r, o, i, k, a, m, e, d)  BY <3>4 DEF Says
      <4>3. Says([r EXCEPT !.met = x, !.kept = y], o, i, k, a, x, y, d)  BY <4>2, WithSeen
      <4> QED  BY <3>3, <4>1, <4>3 DEF Says
    <3> QED  BY <2>1, <2>3, <3>5
  <2>4. CASE l[u].op # "find"
    <3>1. seen'[u] = seen[u]  BY <1>4, <2>4
    <3>2. Told'[u] = Told[u]  BY <2>1, <2>2, <3>1, ToldIs
    <3> QED  BY <2>1, <2>4, <3>2
  <2> QED  BY <2>3, <2>4
<1> HIDE DEF c
<1>5. Told' = [u \in Threads |-> IF c[u].op = "find" THEN [c[u] EXCEPT !.met = @ \cup S, !.kept = @ \cap S] ELSE c[u]]
  BY <1>3, <1>4, ToldIs
<1> QED  BY <1>1, <1>5 DEF Promise!Effect, Promise!Becomes, c
-----------------------------------------------------------------------------
\* Steps that tell nothing: the call goes on, and the list keeps its nodes.
Mute(t) == Full' = Full /\ seen' = seen
\* Locals r that tell of the call what the thread tells.
As(t, r) == r \in Locals /\ r.op = l[t].op /\ r.node = l[t].node /\ r.key = l[t].key /\ r.answer = l[t].answer
\* The call has taken effect, by where the thread is.
Taken(p, o, h) == \/ p \in {"release", "count", "scan", "top", "unmark", "restore", "answer"}
                  \/ o = "erase" /\ p = "store"
                  \/ p = "clear" /\ h # (IF o = "erase" THEN "linked" ELSE "start")
\* Where it has not.
Early == Walk \cup {"removed", "mark", "retire", "linked", "start", "unlink", "crash"}

\* The set is the same when the bits that make it are.
LEMMA FullIs == ASSUME \A n \in Nodes : nodes'[n].full = nodes[n].full PROVE Full' = Full
BY DEF Full
LEMMA FullStill == ASSUME Still PROVE Full' = Full
BY FullIs DEF Still, Links
LEMMA FullHolder == ASSUME TypeOK, NEW n, NEW v, Put(n, "holder", v) PROVE Full' = Full
<1>1. \A m \in Nodes : nodes'[m].full = nodes[m].full  BY DEF TypeOK, NodeRec, Put, Links
<1> QED  BY <1>1, FullIs
LEMMA FullNext == ASSUME TypeOK, NEW n, NEW i, NEW v, nodes' = [nodes EXCEPT ![n].next[i] = v] PROVE Full' = Full
<1>1. \A m \in Nodes : nodes'[m].full = nodes[m].full  BY DEF TypeOK, NodeRec, Links
<1> QED  BY <1>1, FullIs

\* Taken is Effected.
LEMMA EffectedIs == ASSUME NEW t \in Threads PROVE Effected(t) <=> Taken(l[t].pc, l[t].op, l[t].then)
BY DEF Effected, Taken, At, Begin
LEMMA EffectedNext == ASSUME NEW t \in Threads PROVE Effected(t)' <=> Taken(l'[t].pc, l'[t].op, l'[t].then)
BY DEF Effected, Taken, At, Begin

\* A step of the thread that tells nothing.
LEMMA GoQuiet == ASSUME TypeOK, NEW t \in Threads, NEW p \in PCs \ {"idle"}, NEW r, As(t, r), Goto(t, p, r), Mute(t),
                        Taken(p, r.op, r.then) <=> Taken(l[t].pc, l[t].op, l[t].then)
                 PROVE UNCHANGED Promise!vars
<1>1. Stands(t, p, r) /\ Others(t)  BY Moves DEF As
<1>2. SameTold(t)  BY <1>1 DEF Stands, As, SameTold
<1>3. Effected(t)' <=> Effected(t)  BY <1>1, EffectedIs, EffectedNext DEF Stands
<1> QED  BY <1>1, <1>2, <1>3, TellQuiet DEF Mute

LEMMA AsHere == ASSUME TypeOK, NEW t \in Threads PROVE As(t, l[t])
BY DEF As, TypeOK

\* Before the call takes effect.
LEMMA EarlyQuiet == ASSUME TypeOK, NEW t \in Threads, NEW p \in Early, NEW r, As(t, r), Goto(t, p, r), Mute(t),
                           l[t].pc \in Early
                    PROVE UNCHANGED Promise!vars
<1>1. ~Taken(p, r.op, r.then) /\ ~Taken(l[t].pc, l[t].op, l[t].then)  BY DEF Taken, Early, Walk
<1>2. p \in PCs \ {"idle"}  BY DEF Early, Walk, PCs
<1> QED  BY <1>1, <1>2, GoQuiet

LEMMA BeginIn == ASSUME NEW t \in Threads
  PROVE  Begin(t) \in Early \cap PCs /\ Begin(t) = (IF l[t].op = "erase" THEN "linked" ELSE "start")
BY DEF Begin, Early, PCs

\* The call begins again, or ends.
LEMMA ClearFromQuiet ==
  ASSUME TypeOK, NEW t \in Threads, NEW i \in Nat, NEW p \in PCs \ {"idle"}, NEW less, ClearFrom(t, i, p, less), Mute(t),
         Taken(p, l[t].op, l[t].then) <=> Taken(l[t].pc, l[t].op, l[t].then),
         Taken("clear", l[t].op, p) <=> Taken(l[t].pc, l[t].op, l[t].then)
  PROVE UNCHANGED Promise!vars
<1>1. CASE i > l[t].top
  <2>1. Goto(t, p, l[t])  BY <1>1 DEF ClearFrom
  <2> QED  BY <2>1, AsHere, GoQuiet
<1>2. CASE ~(i > l[t].top)
  <2> DEFINE r == [l[t] EXCEPT !.layer = i, !.then = p]
  <2>0. l[t] \in Locals  BY DEF TypeOK
  <2>1. Goto(t, "clear", r)  BY <1>2 DEF ClearFrom
  <2>2. i \in Layers  BY <1>2, <2>0, ListAssumption DEF Locals, Layers
  <2>3. r \in Locals  BY <2>0, <2>2, SetClear
  <2>4. r.op = l[t].op /\ r.node = l[t].node /\ r.key = l[t].key /\ r.then = p /\ r.answer = l[t].answer  BY <2>0 DEF Locals
  <2> HIDE DEF r
  <2>5. As(t, r) /\ "clear" \in PCs \ {"idle"}  BY <2>3, <2>4 DEF As, PCs
  <2> QED  BY <2>1, <2>4, <2>5, GoQuiet
<1> QED  BY <1>1, <1>2

LEMMA BackQuiet == ASSUME TypeOK, NEW t \in Threads, NEW i \in Nat, NEW less, ClearFrom(t, i, Begin(t), less), Mute(t),
                          l[t].pc \in Early
                   PROVE UNCHANGED Promise!vars
<1>1. PICK p : p = Begin(t)  OBVIOUS
<1>2. p \in Early /\ p \in PCs \ {"idle"} /\ p = (IF l[t].op = "erase" THEN "linked" ELSE "start")
  BY <1>1, BeginIn DEF Early, Walk
<1>3. ~Taken(p, l[t].op, l[t].then) /\ ~Taken(l[t].pc, l[t].op, l[t].then) /\ ~Taken("clear", l[t].op, p)
  BY <1>2 DEF Taken, Early, Walk
<1>4. ClearFrom(t, i, p, less)  BY <1>1
<1> QED  BY <1>2, <1>3, <1>4, ClearFromQuiet

LEMMA RetryQuiet == ASSUME TypeOK, NEW t \in Threads, NEW less, Retry(t, less), Mute(t), l[t].pc \in Early
  PROVE  UNCHANGED Promise!vars
<1>1. CASE Goto(t, "crash", l[t])  BY <1>1, AsHere, EarlyQuiet DEF Early
<1>2. CASE ClearFrom(t, l[t].layer + 1, Begin(t), less)
  <2>1. l[t].layer + 1 \in Nat  BY ListAssumption DEF TypeOK, Locals, Layers
  <2> QED  BY <1>2, <2>1, BackQuiet
<1> QED  BY <1>1, <1>2 DEF Retry

LEMMA TakeQuiet == ASSUME TypeOK, NEW t \in Threads, NEW n, NEW less, NEW r, As(t, r), Take(t, n, less, r),
                          n \in Links \cup {None}, Mute(t),
                          l[t].pc \in Early
                   PROVE UNCHANGED Promise!vars
<1>1. CASE Goto(t, "crash", l[t])  BY <1>1, AsHere, EarlyQuiet DEF Early
<1>2. CASE n # None /\ Goto(t, "look", [r EXCEPT !.next = n])
  <2>1. [r EXCEPT !.next = n] \in Locals  BY <1>2, SetNext DEF As
  <2>2. As(t, [r EXCEPT !.next = n])  BY <2>1 DEF As, Locals
  <2> QED  BY <1>2, <2>2, EarlyQuiet DEF Early, Walk
<1> QED  BY <1>1, <1>2 DEF Take
-----------------------------------------------------------------------------
\* Steps that leave the set alone.
LEMMA MuteFixed == ASSUME NEW t \in Threads, UNCHANGED Fixed PROVE Mute(t)
BY SameStill, FullStill DEF Fixed, Mute
LEMMA MutePut == ASSUME TypeOK, NEW t \in Threads, NEW n, NEW v, seen' = seen, Put(n, "flag", v) \/ Put(n, "removed",
                        v) \/ Put(n, "holder", v)
                 PROVE Mute(t)
BY PutStill, FullStill, FullHolder DEF Mute

\* The steps of an erase before its search.
LEMMA EraseQuiet == ASSUME TypeInv, NEW t \in Threads,
                           \/ Removed(t) /\ ~nodes[l[t].node].removed
                           \/ Mark(t) \/ Retire(t)
                           \/ Linked(t) /\ nodes[l[t].node].full
                    PROVE UNCHANGED Promise!vars
<1>0. TypeOK /\ As(t, l[t])  BY AsHere DEF TypeInv
<1>1. CASE Removed(t) /\ ~nodes[l[t].node].removed
  <2>1. Goto(t, "mark", l[t]) /\ l[t].pc = "removed" /\ UNCHANGED Fixed  BY <1>1 DEF Removed, At, Shared
  <2> QED  BY <1>0, <2>1, MuteFixed, EarlyQuiet DEF Early
<1>2. CASE Mark(t)
  <2>1. l[t].pc = "mark" /\ seen' = seen  BY <1>2 DEF Mark, At
  <2>2. CASE nodes[l[t].node].flag # None
    <3> DEFINE r == [l[t] EXCEPT !.top = nodes[l[t].node].top]
    <3>1. Goto(t, "removed", r) /\ nodes' = nodes  BY <1>2, <2>2 DEF Mark
    <3>2. l[t].node \in Links /\ l[t] \in Locals
      BY ZenonT(40), <1>2 DEF Mark, At, TypeInv, Sound, TypeOK, Links
    <3>3. nodes[l[t].node].top \in Layers  BY <1>0, <3>2 DEF TypeOK, NodeRec
    <3>4. r \in Locals  BY SMTT(40), <3>2, <3>3, SetTopLayer
    <3>5. As(t, r)  BY <3>2, <3>4 DEF As, Locals
    <3>6. Mute(t)  BY <2>1, <3>1, SameStill, FullStill DEF Mute
    <3> HIDE DEF r
    <3> QED  BY <1>0, <2>1, <3>1, <3>5, <3>6, EarlyQuiet DEF Early
  <2>3. CASE nodes[l[t].node].flag = None
    <3>1. Goto(t, "retire", l[t]) /\ Put(l[t].node, "flag", t)  BY <1>2, <2>3 DEF Mark
    <3> QED  BY <1>0, <2>1, <3>1, MutePut, EarlyQuiet DEF Early
  <2> QED  BY <2>2, <2>3
<1>3. CASE Retire(t)
  <2>1. l[t].pc = "retire" /\ seen' = seen /\ Goto(t, "linked", l[t]) /\ Put(l[t].node, "removed", TRUE)  BY <1>3 DEF Retire, At
  <2> QED  BY <1>0, <2>1, MutePut, EarlyQuiet DEF Early
<1>4. CASE Linked(t) /\ nodes[l[t].node].full
  <2>1. Goto(t, "start", l[t]) /\ l[t].pc = "linked" /\ UNCHANGED Fixed  BY <1>4 DEF Linked, At, Shared, IsLinked
  <2> QED  BY <1>0, <2>1, MuteFixed, EarlyQuiet DEF Early
<1> QED  BY <1>1, <1>2, <1>3, <1>4

\* A search.
LEMMA SearchQuiet == ASSUME TypeInv, NEW t \in Threads,
                            Start(t) \/ Peek(t) \/ Hop(t) \/ Hopped(t) \/ Pass(t) \/ Descend(t) \/ Place(t)
                     PROVE UNCHANGED Promise!vars
<1>0. TypeOK /\ As(t, l[t]) /\ l[t] \in Locals /\ Sound(l[t])  BY AsHere DEF TypeInv, TypeOK
<1>1. l[t].pc \in Walk \cup {"start"} /\ UNCHANGED Fixed
  BY DEF Start, Peek, Hop, Hopped, Pass, Descend, Place, First, Answers, At, Walk, Shared
<1>2. Mute(t) /\ l[t].pc \in Early  BY <1>1, MuteFixed DEF Early
<1>3. CASE Start(t)
  <2>1. PICK i \in Layers : Goto(t, "peek", [l[t] EXCEPT !.cur = head, !.layer = i, !.again = FALSE])
    <3>1. l[t].top \in Layers \cup {-1} /\ listTop \in Layers  BY <1>0 DEF TypeOK, Locals
    <3>2. l[t].top > listTop => l[t].top \in Layers  BY <3>1, ListAssumption DEF Layers
    <3> QED  BY <1>3, <3>1, <3>2 DEF Start
  <2> DEFINE r == [l[t] EXCEPT !.cur = head, !.layer = i, !.again = FALSE]
  <2>2. r \in Locals  BY <1>0, SetStart
  <2>3. As(t, r)  BY <1>0, <2>2 DEF As, Locals
  <2> HIDE DEF r
  <2>4. Goto(t, "peek", r)  BY <2>1 DEF r
  <2> QED  BY <1>0, <1>2, <2>3, <2>4, EarlyQuiet DEF Early, Walk
<1>4. CASE Peek(t)
  <2>1. l[t].cur \in Links /\ l[t].layer \in Layers  BY <1>0, <1>4 DEF Peek, At, Sound, Search, Locals
  <2>2. nodes[l[t].cur].next[l[t].layer] \in Links \cup {None}  BY <1>0, <2>1 DEF TypeOK, NodeRec
  <2>3. CASE IsLinked(l[t].cur)
    <3> DEFINE r == [l[t] EXCEPT !.found = FALSE]
    <3>1. r \in Locals  BY <1>0, SetFound
    <3>2. As(t, r)  BY <1>0, <3>1 DEF As, Locals
    <3>3. Take(t, nodes[l[t].cur].next[l[t].layer], {}, r)  BY <1>4, <2>3 DEF Peek
    <3> HIDE DEF r
    <3> QED  BY <1>0, <1>2, <2>2, <3>2, <3>3, TakeQuiet
  <2>4. CASE ~IsLinked(l[t].cur)
    <3>1. Retry(t, {})  BY <1>4, <2>4 DEF Peek
    <3> QED  BY <1>0, <1>2, <3>1, RetryQuiet
  <2> QED  BY <2>3, <2>4
<1>5. CASE Hop(t)
  <2>1. PICK b : b = (l[t].found \/ l[t].next = Target(t))  OBVIOUS
  <2>2. b \in BOOLEAN  BY <1>0, <2>1 DEF Locals
  <2> DEFINE r == [l[t] EXCEPT !.found = b]
  <2>3. r \in Locals  BY <1>0, <2>2, SetFound
  <2>4. As(t, r)  BY <1>0, <2>3 DEF As, Locals
  <2>5. Goto(t, "hop", r)  BY <1>5, <2>1 DEF Hop
  <2> HIDE DEF r
  <2> QED  BY <1>0, <1>2, <2>4, <2>5, EarlyQuiet DEF Early, Walk
<1>6. CASE Hopped(t)
  <2>1. l[t].next \in Links /\ l[t].layer \in Layers  BY <1>0, <1>6 DEF Hopped, At, Sound, Locals
  <2>2. nodes[l[t].next].next[l[t].layer] \in Links \cup {None}  BY <1>0, <2>1 DEF TypeOK, NodeRec
  <2>3. CASE IsLinked(l[t].next)
    <3>1. Take(t, nodes[l[t].next].next[l[t].layer], {l[t].next}, l[t])  BY <1>6, <2>3 DEF Hopped
    <3> QED  BY <1>0, <1>2, <2>2, <3>1, TakeQuiet
  <2>4. CASE ~IsLinked(l[t].next)
    <3>1. Retry(t, {l[t].next})  BY <1>6, <2>4 DEF Hopped
    <3> QED  BY <1>0, <1>2, <3>1, RetryQuiet
  <2> QED  BY <2>3, <2>4
<1>7. CASE Pass(t)
  <2>1. l[t].next \in Links  BY <1>0, <1>7 DEF Pass, First, Answers, At, Sound
  <2> DEFINE r == [l[t] EXCEPT !.cur = l[t].next]
  <2>2. r \in Locals  BY <1>0, <2>1, SetCur
  <2>3. As(t, r)  BY <1>0, <2>2 DEF As, Locals
  <2>4. Goto(t, "peek", r)  BY <1>7 DEF Pass
  <2> HIDE DEF r
  <2> QED  BY <1>0, <1>2, <2>3, <2>4, EarlyQuiet DEF Early, Walk
<1>8. CASE Descend(t)
  <2> DEFINE r == [l[t] EXCEPT !.layer = @ - 1]
  <2>1. l[t].layer - 1 \in Layers  BY <1>0, <1>8, ListAssumption DEF Descend, Locals, Layers
  <2>2. r \in Locals  BY <1>0, <2>1, SetLayer
  <2>3. As(t, r)  BY <1>0, <2>2 DEF As, Locals
  <2>4. Goto(t, "peek", r)  BY <1>8 DEF Descend
  <2> HIDE DEF r
  <2> QED  BY <1>0, <1>2, <2>3, <2>4, EarlyQuiet DEF Early, Walk
<1>9. CASE Place(t)
  <2> DEFINE r == [l[t] EXCEPT !.prevs[l[t].layer] = l[t].cur, !.nexts[l[t].layer] = l[t].next]
  <2>1. l[t].cur \in Links /\ l[t].next \in Links /\ l[t].layer \in Layers
    BY <1>0, <1>9 DEF Place, First, Answers, At, Sound, Search, Locals
  <2>2. r \in Locals  BY <1>0, <2>1, SetPlace
  <2>3. As(t, r)  BY <1>0, <2>2 DEF As, Locals
  <2>4. Goto(t, "try", r)  BY <1>9 DEF Place
  <2> HIDE DEF r
  <2> QED  BY <1>0, <1>2, <2>3, <2>4, EarlyQuiet DEF Early, Walk
<1> QED  BY <1>3, <1>4, <1>5, <1>6, <1>7, <1>8, <1>9

\* The mark, the two looks, and down.
LEMMA MarkedQuiet == ASSUME TypeInv, NEW t \in Threads, Try(t) \/ Prev(t) \/ NextValid(t) \/ Placed(t)
                     PROVE UNCHANGED Promise!vars
<1>0. TypeOK /\ As(t, l[t]) /\ l[t] \in Locals /\ Sound(l[t]) /\ l[t].layer \in Nat
  BY SMTT(40), AsHere, ListAssumption DEF TypeInv, TypeOK, Locals, Layers
<1>1. l[t].pc \in Early  BY DEF Try, Prev, NextValid, Placed, Answers, At, Early, Walk
<1>2. CASE Try(t)
  <2>1. seen' = seen  BY <1>2 DEF Try
  <2>2. CASE Goto(t, "prev", l[t])
    <3>1. nodes' = nodes \/ Put(l[t].cur, "flag", t)  BY <1>2 DEF Try
    <3>2. Mute(t)  BY <1>0, <2>1, <3>1, MutePut, SameStill, FullStill DEF Mute
    <3> QED  BY <1>0, <1>1, <2>2, <3>2, EarlyQuiet DEF Early, Walk
  <2>3. CASE Retry(t, {}) /\ nodes' = nodes
    <3>1. Mute(t)  BY <2>1, <2>3, SameStill, FullStill DEF Mute
    <3> QED  BY <1>0, <1>1, <2>3, <3>1, RetryQuiet
  <2> QED  BY <1>2, <2>2, <2>3 DEF Try
<1>3. CASE Prev(t)
  <2>1. Mute(t)  BY <1>3, MuteFixed DEF Prev
  <2>2. CASE Goto(t, "next", l[t])  BY <1>0, <1>1, <2>1, <2>2, EarlyQuiet DEF Early, Walk
  <2>3. CASE ClearFrom(t, l[t].layer, Begin(t), {})  BY <1>0, <1>1, <2>1, <2>3, BackQuiet
  <2> QED  BY <1>3, <2>2, <2>3 DEF Prev
<1>4. CASE NextValid(t)
  <2>1. seen' = seen  BY <1>4 DEF NextValid
  <2>2. CASE IsLinked(l[t].next)
    <3>1. nodes' = nodes \/ nodes' = [nodes EXCEPT ![l[t].node].next[l[t].layer] = l[t].next]  BY <1>4, <2>2 DEF NextValid
    <3>2. Mute(t)  BY <1>0, <2>1, <3>1, FullNext, SameStill, FullStill DEF Mute
    <3> DEFINE r == [l[t] EXCEPT !.again = TRUE]
    <3>3. r \in Locals  BY <1>0, SetAgain
    <3>4. As(t, r)  BY <1>0, <3>3 DEF As, Locals
    <3>5. Goto(t, "peek", r)  BY <1>4, <2>2 DEF NextValid
    <3> HIDE DEF r
    <3> QED  BY <1>0, <1>1, <3>2, <3>4, <3>5, EarlyQuiet DEF Early, Walk
  <2>3. CASE ~IsLinked(l[t].next)
    <3>1. ClearFrom(t, l[t].layer, Begin(t), {}) /\ nodes' = nodes  BY <1>4, <2>3 DEF NextValid
    <3>2. Mute(t)  BY <2>1, <3>1, SameStill, FullStill DEF Mute
    <3> QED  BY <1>0, <1>1, <3>1, <3>2, BackQuiet
  <2> QED  BY <2>2, <2>3
<1>5. CASE Placed(t)
  <2>1. Mute(t)  BY <1>5, MuteFixed DEF Placed
  <2>2. CASE ~Same(t) /\ ClearFrom(t, l[t].layer, Begin(t), {l[t].next})  BY <1>0, <1>1, <2>1, <2>2, BackQuiet
  <2>3. CASE l[t].layer > 0 /\ Goto(t, "peek", [l[t] EXCEPT !.layer = @ - 1, !.again = FALSE])
    <3> DEFINE r == [l[t] EXCEPT !.layer = @ - 1, !.again = FALSE]
    <3>1. l[t].layer - 1 \in Layers  BY <1>0, <2>3, ListAssumption DEF Locals, Layers
    <3>2. r \in Locals  BY <1>0, <3>1, SetDown
    <3>3. As(t, r)  BY <1>0, <3>2 DEF As, Locals
    <3>4. Goto(t, "peek", r)  BY <2>3
    <3> HIDE DEF r
    <3> QED  BY <1>0, <1>1, <2>1, <3>3, <3>4, EarlyQuiet DEF Early, Walk
  <2>4. CASE l[t].op # "insert" /\ Goto(t, "unlink", l[t])  BY <1>0, <1>1, <2>1, <2>4, EarlyQuiet DEF Early
  <2>5. CASE l[t].op = "insert" /\ Goto(t, "store", l[t])
    <3>1. ~Taken("store", l[t].op, l[t].then) /\ ~Taken(l[t].pc, l[t].op, l[t].then)  BY <1>1, <2>5 DEF Taken, Early, Walk
    <3> QED  BY <1>0, <2>1, <2>5, <3>1, GoQuiet DEF PCs
  <2> QED  BY <1>5, <2>2, <2>3, <2>4, <2>5 DEF Placed
<1> QED  BY <1>2, <1>3, <1>4, <1>5
-----------------------------------------------------------------------------
\* A step is none of the promise, or the last one of a call.
Tells(t) == UNCHANGED Promise!vars \/ (Promise!Next /\ l'[t] = Idle)
\* Only a find has seen something.
Blind(t) == l[t].op # "find" => seen[t] = Unseen

\* What the others have seen stays.
LEMMA SeenOthers == ASSUME NEW t \in Threads, seen' = seen PROVE OthersSeen(t)
BY DEF OthersSeen

\* A call that has taken effect returns.
LEMMA GoReturn == ASSUME TypeOK, NEW t \in Threads, NEW r, Goto(t, "idle", r), Mute(t), Blind(t), l[t].op # "find",
                         Taken(l[t].pc, l[t].op, l[t].then)
                  PROVE Tells(t)
<1>1. l'[t] = Idle /\ Others(t)  BY MovesIdle
<1>2. seen'[t] = Unseen /\ OthersSeen(t) /\ Full' = Full  BY SeenOthers DEF Mute, Blind
<1> QED  BY <1>1, <1>2, EffectedIs, TellReturn DEF Tells

\* A store tells nothing.
LEMMA StoreQuiet == ASSUME TypeInv, NEW t \in Threads, Store(t) PROVE UNCHANGED Promise!vars
<1>0. TypeOK /\ As(t, l[t]) /\ l[t] \in Locals /\ Sound(l[t]) /\ l[t].pc = "store" /\ seen' = seen
  BY SMTT(40), AsHere DEF TypeInv, TypeOK, Store, At
<1>1. l[t].op \in {"insert", "erase"}  BY SMTT(40), <1>0 DEF Sound, Change
<1>2. PICK p, i, d : nodes' = nodes \/ nodes' = [nodes EXCEPT ![p].next[i] = d]  BY Zenon DEF Store
<1>3. Mute(t)  BY <1>0, <1>2, FullNext, SameStill, FullStill DEF Mute
<1>4. CASE l[t].layer < l[t].top
  <2> DEFINE r == [l[t] EXCEPT !.layer = @ + 1]
  <2>1. l[t].layer + 1 \in Layers  BY <1>0, <1>4, ListAssumption DEF Locals, Layers
  <2>2. r \in Locals  BY <1>0, <2>1, SetLayer
  <2>3. As(t, r) /\ r.then = l[t].then  BY SMTT(40), <1>0, <2>2 DEF As, Locals
  <2>4. Goto(t, "store", r)  BY <1>4 DEF Store
  <2> HIDE DEF r
  <2>5. Taken("store", r.op, r.then) <=> Taken(l[t].pc, l[t].op, l[t].then)  BY <1>0, <2>3 DEF As
  <2>6. "store" \in PCs \ {"idle"}  BY DEF PCs
  <2> QED  BY <1>0, <1>3, <2>3, <2>4, <2>5, <2>6, GoQuiet
<1>5. CASE ~(l[t].layer < l[t].top)
  <2>1. PICK q : q = (IF l[t].op = "insert" THEN "publish" ELSE "count")  BY SMTT(40)
  <2>2. Goto(t, q, l[t]) /\ q \in PCs \ {"idle"}  BY <1>5, <2>1 DEF Store, PCs
  <2>3. Taken(q, l[t].op, l[t].then) <=> Taken(l[t].pc, l[t].op, l[t].then)  BY <1>0, <1>1, <2>1 DEF Taken
  <2> QED  BY <1>0, <1>3, <2>2, <2>3, GoQuiet
<1> QED  BY <1>4, <1>5

\* The ways on from the effect.
LEMMA LateQuiet == ASSUME TypeInv, NEW t \in Threads, Release(t) \/ Count(t) \/ Restore(t)
  PROVE  UNCHANGED Promise!vars
<1>0. TypeOK /\ As(t, l[t]) /\ l[t] \in Locals  BY AsHere DEF TypeInv, TypeOK
<1>1. l[t].pc \in {"release", "count", "restore"} /\ seen' = seen  BY DEF Release, Count, Restore, At
<1>2. Taken(l[t].pc, l[t].op, l[t].then)  BY <1>1 DEF Taken
<1>3. CASE Release(t)
  <2>1. Mute(t) /\ Goto(t, "count", l[t])  BY <1>0, <1>1, <1>3, MutePut DEF Release
  <2>2. Taken("count", l[t].op, l[t].then) /\ "count" \in PCs \ {"idle"}  BY DEF Taken, PCs
  <2> QED  BY <1>0, <1>2, <2>1, <2>2, GoQuiet
<1>4. CASE Count(t)
  <2> DEFINE r == [l[t] EXCEPT !.layer = MaxLayer - 1]
  <2>1. r \in Locals  BY <1>0, SetLayer, ListAssumption DEF Layers
  <2>2. As(t, r)  BY <1>0, <2>1 DEF As, Locals
  <2>3. Goto(t, "scan", r) /\ Mute(t)  BY <1>1, <1>4, SameStill, FullStill DEF Count, Mute
  <2> HIDE DEF r
  <2>4. Taken("scan", r.op, r.then) /\ "scan" \in PCs \ {"idle"}  BY DEF Taken, PCs
  <2> QED  BY <1>0, <1>2, <2>2, <2>3, <2>4, GoQuiet
<1>5. CASE Restore(t)
  <2>1. Mute(t) /\ Goto(t, "unmark", l[t])  BY <1>0, <1>1, <1>5, MutePut DEF Restore
  <2>2. Taken("unmark", l[t].op, l[t].then) /\ "unmark" \in PCs \ {"idle"}  BY DEF Taken, PCs
  <2> QED  BY <1>0, <1>2, <2>1, <2>2, GoQuiet
<1> QED  BY <1>3, <1>4, <1>5

\* The end of an insert or an erase.
LEMMA FinishTells == ASSUME TypeInv, NEW t \in Threads, Finish(t), Mute(t), Blind(t), l[t].pc \in {"scan", "top"}
  PROVE  Tells(t)
<1>0. TypeOK /\ As(t, l[t]) /\ l[t] \in Locals /\ Sound(l[t])  BY AsHere DEF TypeInv, TypeOK
<1>1. l[t].op \in {"insert", "erase"} /\ Taken(l[t].pc, l[t].op, l[t].then)  BY <1>0 DEF Sound, Change, Taken
<1>2. CASE l[t].op = "insert" /\ 0 > l[t].top
  <2>1. Goto(t, "idle", l[t])  BY <1>2 DEF Finish, ClearFrom
  <2> QED  BY <1>0, <1>1, <1>2, <2>1, GoReturn
<1>3. CASE l[t].op = "insert" /\ ~(0 > l[t].top)
  <2> DEFINE r == [l[t] EXCEPT !.layer = 0, !.then = "idle"]
  <2>1. Goto(t, "clear", r)  BY <1>3 DEF Finish, ClearFrom
  <2>2. r \in Locals  BY Zenon, <1>0, LayerNat, SetClear DEF PCs
  <2>3. As(t, r) /\ r.then = "idle"  BY <1>0, <2>2 DEF As, Locals
  <2> HIDE DEF r
  <2>4. Taken("clear", r.op, r.then) /\ "clear" \in PCs \ {"idle"}  BY <1>3, <2>3 DEF Taken, PCs, As
  <2> QED  BY <1>0, <1>1, <2>1, <2>3, <2>4, GoQuiet DEF Tells
<1>4. CASE l[t].op = "erase"
  <2>1. ClearFrom(t, 0, "unmark", {}) /\ "unmark" \in PCs \ {"idle"} /\ 0 \in Nat  BY <1>4 DEF Finish, PCs
  <2>2. Taken("unmark", l[t].op, l[t].then) /\ Taken("clear", l[t].op, "unmark")  BY <1>4 DEF Taken
  <2> QED  BY <1>0, <1>1, <2>1, <2>2, ClearFromQuiet DEF Tells
<1> QED  BY <1>1, <1>2, <1>3, <1>4

LEMMA EndTells == ASSUME TypeInv, NEW t \in Threads, Scan(t) \/ SetTop(t), Blind(t) PROVE Tells(t)
<1>0. TypeOK /\ As(t, l[t]) /\ l[t] \in Locals  BY AsHere DEF TypeInv, TypeOK
<1>1. l[t].pc \in {"scan", "top"} /\ nodes' = nodes /\ seen' = seen  BY DEF Scan, SetTop, At, Fixed
<1>2. Mute(t) /\ Taken(l[t].pc, l[t].op, l[t].then)  BY <1>1, SameStill, FullStill DEF Mute, Taken
<1>3. CASE Finish(t)  BY <1>1, <1>2, <1>3, FinishTells
<1>4. CASE Goto(t, "top", l[t])
  <2>1. Taken("top", l[t].op, l[t].then) /\ "top" \in PCs \ {"idle"}  BY DEF Taken, PCs
  <2> QED  BY <1>0, <1>2, <1>4, <2>1, GoQuiet DEF Tells
<1>5. CASE l[t].layer > 0 /\ Goto(t, "scan", [l[t] EXCEPT !.layer = @ - 1])
  <2> DEFINE r == [l[t] EXCEPT !.layer = @ - 1]
  <2>1. l[t].layer - 1 \in Layers  BY <1>0, <1>5, ListAssumption DEF Locals, Layers
  <2>2. r \in Locals  BY <1>0, <2>1, SetLayer
  <2>3. As(t, r)  BY <1>0, <2>2 DEF As, Locals
  <2>4. Goto(t, "scan", r)  BY <1>5
  <2> HIDE DEF r
  <2>5. Taken("scan", r.op, r.then) /\ "scan" \in PCs \ {"idle"}  BY DEF Taken, PCs
  <2> QED  BY <1>0, <1>2, <2>3, <2>4, <2>5, GoQuiet DEF Tells
<1> QED  BY <1>3, <1>4, <1>5 DEF Scan, SetTop

LEMMA ClearTells == ASSUME TypeInv, NEW t \in Threads, Named(t), Clear(t), Blind(t) PROVE Tells(t)
<1>0. TypeOK /\ As(t, l[t]) /\ l[t] \in Locals /\ Sound(l[t]) /\ l[t].pc = "clear" /\ seen' = seen
  BY AsHere DEF TypeInv, TypeOK, Clear, At
<1>1. l[t].op \in {"insert", "erase"}  BY <1>0 DEF Sound
<1>2. nodes' = nodes \/ Put(l[t].prevs[l[t].layer], "flag", None)  BY DEF Clear
<1>3. Mute(t)  BY <1>0, <1>2, MutePut, SameStill, FullStill DEF Mute
<1>4. CASE l[t].layer < l[t].top
  <2> DEFINE r == [l[t] EXCEPT !.layer = @ + 1]
  <2>1. l[t].layer + 1 \in Layers  BY <1>0, <1>4, ListAssumption DEF Locals, Layers
  <2>2. r \in Locals  BY <1>0, <2>1, SetLayer
  <2>3. As(t, r) /\ r.then = l[t].then  BY <1>0, <2>2 DEF As, Locals
  <2>4. Goto(t, "clear", r)  BY <1>4 DEF Clear
  <2> HIDE DEF r
  <2>5. Taken("clear", r.op, r.then) <=> Taken(l[t].pc, l[t].op, l[t].then)  BY <1>0, <2>3 DEF As
  <2>6. "clear" \in PCs \ {"idle"}  BY DEF PCs
  <2> QED  BY <1>0, <1>3, <2>3, <2>4, <2>5, <2>6, GoQuiet DEF Tells
<1>5. CASE ~(l[t].layer < l[t].top)
  <2>1. Goto(t, l[t].then, l[t])  BY <1>5 DEF Clear
  <2>2. \/ l[t].then = "start" /\ l[t].op = "insert"
        \/ l[t].then = "idle" /\ l[t].op = "insert"
        \/ l[t].then = "linked" /\ l[t].op = "erase"
        \/ l[t].then = "unmark" /\ l[t].op = "erase"
    BY <1>0, <1>1 DEF Sound, Named
  <2>3. CASE l[t].then = "idle"
    <3>1. Taken(l[t].pc, l[t].op, l[t].then)  BY <1>0, <2>2, <2>3 DEF Taken
    <3> QED  BY <1>0, <1>1, <1>3, <2>1, <2>3, <3>1, GoReturn
  <2>4. CASE l[t].then # "idle"
    <3>1. l[t].then \in PCs \ {"idle"}  BY <2>2, <2>4 DEF PCs
    <3>2. Taken(l[t].then, l[t].op, l[t].then) <=> Taken(l[t].pc, l[t].op, l[t].then)  BY <1>0, <2>2, <2>4 DEF Taken
    <3> QED  BY <1>0, <1>3, <2>1, <3>1, <3>2, GoQuiet DEF Tells
  <2> QED  BY <2>3, <2>4
<1> QED  BY <1>4, <1>5

LEMMA ReturnTells == ASSUME TypeInv, NEW t \in Threads, Unmark(t) \/ Return(t), Blind(t) PROVE Tells(t)
<1>0. TypeOK /\ As(t, l[t]) /\ Sound(l[t])  BY AsHere DEF TypeInv
<1>1. Taken(l[t].pc, l[t].op, l[t].then) /\ Goto(t, "idle", l[t])  BY DEF Unmark, Return, At, Taken
<1>2. CASE Unmark(t)
  <2>1. l[t].op = "erase" /\ Mute(t)  BY <1>0, <1>2, MutePut DEF Unmark, At, Sound
  <2> QED  BY <1>0, <1>1, <2>1, GoReturn
<1>3. CASE Return(t)
  <2>1. Full' = Full /\ seen' = [seen EXCEPT ![t] = Unseen]  BY <1>3, SameStill, FullStill DEF Return, Forget
  <2>2. seen'[t] = Unseen /\ OthersSeen(t)  BY <1>0, <2>1 DEF OthersSeen, TypeOK
  <2>3. l'[t] = Idle /\ Others(t)  BY <1>0, <1>1, MovesIdle
  <2> QED  BY <1>1, <2>1, <2>2, <2>3, EffectedIs, TellReturn DEF Tells
<1> QED  BY <1>2, <1>3
-----------------------------------------------------------------------------
\* What a find has seen: every node that is in the list now, and of those it keeps none is gone.
Aware(t) == l[t].op = "find" => Full \subseteq seen[t].met /\ seen[t].kept \subseteq Full
\* It stands at a node that it has met.
Stood(t) == l[t].op = "find" /\ l[t].pc \in Walk /\ l[t].cur # head => l[t].cur \in seen[t].met
\* No node that it keeps lies between cur and next, and none that it keeps is hopped over.
Between(g, t) == l[t].op = "find" /\ l[t].pc \in {"look", "hop"} /\ l[t].layer = 0 =>
                   \A m \in seen[t].kept : Bef(g, l[t].cur, m) => m = l[t].next \/ Bef(g, l[t].next, m)
Missed(t) == l[t].op = "find" /\ l[t].pc = "hop" => l[t].next \notin seen[t].kept
\* What a find has seen, and where it is in the list.
Watch(g, t) == Blind(t) /\ Aware(t) /\ Stood(t) /\ Between(g, t) /\ Missed(t)

\* The order of the nodes that were there stays.
LEMMA BefBack == ASSUME NEW B, NEW g, NEW A, NEW h, Order(B, g), Order(A, h), OrderKept(B, g, A, h), NEW x \in Ground(B),
                        NEW y \in Ground(B),
                        Bef(h, x, y)
                 PROVE Bef(g, x, y)
<1>1. x \in Ground(A) /\ y \in Ground(A)  BY DEF OrderKept, Ground
<1>2. x # y  BY BefNot
<1>3. ~Bef(g, y, x)
  <2> SUFFICES ASSUME Bef(g, y, x) PROVE FALSE  OBVIOUS
  <2>1. Bef(h, y, x)  BY DEF OrderKept
  <2> QED  BY <1>1, <2>1, BefTrans, BefNot
<1> QED  BY <1>2, <1>3, BefTotal

\* The nodes of the set are members of the lists.
LEMMA FullGround == ASSUME NEW B, NEW g, ListInv(B, g), NEW n \in Full
  PROVE  n \in Ground(B) /\ n \in Nodes /\ nodes[n].full
BY FullBorn DEF Full, Ground

\* Another thread's step.
LEMMA WatchFrame ==
  ASSUME NEW B, NEW g, ListInv(B, g), NEW A, NEW h, Order(A, h), OrderKept(B, g, A, h), NEW u \in Threads, Watch(g, u),
         l'[u] = l[u],
         l[u].op # "find" => seen'[u] = seen[u],
         NEW F, F = Full',
         l[u].op = "find" => seen'[u].met = seen[u].met \cup F /\ seen'[u].kept = seen[u].kept \cap F
  PROVE Watch(h, u)'
<1>1. Blind(u)'  BY DEF Watch, Blind
<1>2. Aware(u)'  BY DEF Aware
<1>3. Stood(u)'  BY DEF Watch, Stood
<1>4. Missed(u)'  BY DEF Watch, Missed
<1>5. Between(h, u)'
  <2> SUFFICES ASSUME l[u].op = "find", l[u].pc \in {"look", "hop"}, l[u].layer = 0, NEW m \in seen'[u].kept, Bef(h, l[u].cur, m)
               PROVE m = l[u].next \/ Bef(h, l[u].next, m)
    BY DEF Between
  <2>1. m \in seen[u].kept /\ m \in Full  BY DEF Watch, Aware
  <2>2. l[u].cur \in Ground(B) /\ l[u].next \in Ground(B)
    <3>1. l[u].cur \in Links /\ Fit(B, l[u].layer, l[u].cur)  BY WalkBasics DEF Walk
    <3> QED  BY <3>1, FitGround, NextBasics
  <2>3. m \in Ground(B)  BY <2>1, FullGround
  <2>4. Bef(g, l[u].cur, m)  BY <2>2, <2>3, BefBack, Basics
  <2>5. m = l[u].next \/ Bef(g, l[u].next, m)  BY <2>1, <2>4 DEF Watch, Between
  <2> QED  BY <2>2, <2>3, <2>5 DEF OrderKept
<1> QED  BY <1>1, <1>2, <1>3, <1>4, <1>5 DEF Watch

\* A step that leaves the set alone, and one that all open finds observe.
LEMMA WatchMute ==
  ASSUME NEW B, NEW g, ListInv(B, g), NEW A, NEW h, Order(A, h), OrderKept(B, g, A, h), NEW u \in Threads, Watch(g, u),
         l'[u] = l[u],
         Full' = Full, seen'[u] = seen[u]
  PROVE Watch(h, u)'
<1> PICK F : F = Full'  OBVIOUS
<1>1. l[u].op = "find" => seen'[u].met = seen[u].met \cup F /\ seen'[u].kept = seen[u].kept \cap F  BY DEF Watch, Aware
<1> QED  BY <1>1, WatchFrame

LEMMA WatchObserve ==
  ASSUME NEW B, NEW g, ListInv(B, g), NEW A, NEW h, Order(A, h), OrderKept(B, g, A, h), NEW u \in Threads, Watch(g, u),
         l'[u] = l[u],
         Observe
  PROVE Watch(h, u)'
<1> PICK F : F = Full'  OBVIOUS
<1>1. seen' = [t \in Threads |-> IF l[t].op = "find" THEN [met |-> seen[t].met \cup F, kept |-> seen[t].kept \cap F] ELSE seen[t]]
  BY DEF Observe
<1>2. seen'[u] = IF l[u].op = "find" THEN [met |-> seen[u].met \cup F, kept |-> seen[u].kept \cap F] ELSE seen[u]  BY <1>1
<1>3. l[u].op = "find" => seen'[u].met = seen[u].met \cup F /\ seen'[u].kept = seen[u].kept \cap F  BY <1>2
<1> QED  BY <1>2, <1>3, WatchFrame

-----------------------------------------------------------------------------
\* The thread's own step: it is not in a find after it; or it goes on with a find.
LEMMA WatchRest == ASSUME NEW g, NEW t \in Threads, l'[t].op # "find", seen'[t] = Unseen PROVE Watch(g, t)'
BY DEF Watch, Blind, Aware, Stood, Between, Missed

LEMMA WatchGoes ==
  ASSUME NEW g, NEW t \in Threads, Watch(g, t), Mute(t), l[t].op = "find", l'[t].op = "find",
         l'[t].pc \in Walk /\ l'[t].cur # head => l'[t].cur \in seen[t].met,
         l'[t].pc \in {"look", "hop"} /\ l'[t].layer = 0 => \A m \in seen[t].kept : Bef(g, l'[t].cur,
         m) => m = l'[t].next \/ Bef(g, l'[t].next, m),
         l'[t].pc = "hop" => l'[t].next \notin seen[t].kept
  PROVE Watch(g, t)'
<1>1. Blind(t)'  BY DEF Blind
<1>2. Aware(t)'  BY DEF Watch, Aware, Mute
<1>3. Stood(t)'  BY DEF Stood, Mute
<1>4. Between(g, t)'  BY DEF Between, Mute
<1>5. Missed(t)'  BY DEF Missed, Mute
<1> QED  BY <1>1, <1>2, <1>3, <1>4, <1>5 DEF Watch

\* The steps of a find.
LEMMA FindOnly == ASSUME NEW B, NEW g, ListInv(B, g), NEW t \in Threads, l[t].op = "find", Step(t)
                  PROVE Start(t) \/ Peek(t) \/ Hop(t) \/ Hopped(t) \/ Pass(t) \/ Descend(t) \/ Answer(t) \/ Return(t)
<1>1. Sound(l[t]) /\ Good(B, g, t) /\ l[t].layer \in Layers /\ l[t].top = -1  BY Basics DEF Locals, Sound
<1>2. l[t].pc \notin {"try", "prev", "next", "clear"} \cup Change /\ ~Again(l[t])
      /\ l[t].pc \notin {"removed", "mark", "retire", "linked", "restore", "unmark"}
  BY <1>1 DEF Sound
<1>3. l[t].pc # "idle"  BY <1>1 DEF Good, Named, Idle
<1>4. ~Call(t)  BY <1>3 DEF Call, At
<1>5. ~Place(t)
  <2>1. ~(l[t].layer <= -1)  BY <1>1, LayerNat
  <2> QED  BY <1>1, <2>1 DEF Place
<1>6. ~Placed(t)  BY SMTT(40), <1>2 DEF Placed, Answers, At, Again
<1>7. ~(Removed(t) \/ Mark(t) \/ Retire(t) \/ Linked(t) \/ Restore(t) \/ Unmark(t))
  BY <1>2 DEF Removed, Mark, Retire, Linked, Restore, Unmark, At
<1>8. ~(Try(t) \/ Prev(t) \/ NextValid(t) \/ Unlink(t) \/ Store(t) \/ Publish(t) \/ Release(t) \/ Count(t) \/ Scan(t) \/
      SetTop(t) \/ Clear(t))
  BY <1>2 DEF Try, Prev, NextValid, Unlink, Store, Publish, Release, Count, Scan, SetTop, Clear, At, Change
<1> QED  BY <1>4, <1>5, <1>6, <1>7, <1>8 DEF Step

\* A find that starts again, and one that reads a next pointer.
LEMMA RetryFind == ASSUME NEW B, NEW g, ListInv(B, g), NEW t \in Threads, l[t].op = "find", l[t].pc \in {"peek", "hop"},
                          NEW less, Retry(t, less)
                   PROVE l'[t].pc = "start" /\ l'[t].op = "find"
<1>1. Sound(l[t]) /\ TypeOK /\ l[t] \in Locals /\ l[t].layer \in Layers /\ l[t].top = -1  BY Basics DEF Locals, Sound
<1>2. ~l[t].again  BY <1>1 DEF Sound, Again
<1>3. l[t].layer + 1 > l[t].top  BY <1>1, LayerNat
<1>4. Begin(t) = "start"  BY DEF Begin
<1>5. Goto(t, "start", l[t])  BY <1>2, <1>3, <1>4 DEF Retry, ClearFrom
<1>6. Stands(t, "start", l[t])  BY <1>1, <1>5, Moves DEF PCs
<1> QED  BY <1>6 DEF Stands

LEMMA TakeFind == ASSUME NEW B, NEW g, ListInv(B, g), NEW t \in Threads, NEW n \in Links, NEW less, NEW r \in Locals,
                         Take(t, n, less, r)
                  PROVE l'[t].pc = "look" /\ l'[t].op = r.op /\ l'[t].cur = r.cur /\ l'[t].layer = r.layer /\ l'[t].next = n
<1> DEFINE s == [r EXCEPT !.next = n]
<1>1. s \in Locals /\ TypeOK  BY SetNext, Basics
<1>2. s.op = r.op /\ s.cur = r.cur /\ s.layer = r.layer /\ s.next = n  BY DEF Locals
<1>3. Goto(t, "look", s)  BY ListAssumption DEF Take
<1> HIDE DEF s
<1>4. Stands(t, "look", s)  BY <1>1, <1>3, Moves DEF PCs
<1> QED  BY <1>2, <1>4 DEF Stands

\* One lemma for every step of a find.
LEMMA PeekWatch == ASSUME NEW B, NEW g, ListInv(B, g), NEW t \in Threads, l[t].op = "find", Watch(g, t), Peek(t)
  PROVE  Watch(g, t)'
<1>1. l[t].pc = "peek" /\ l[t].pc \in Walk /\ Mute(t)  BY MuteFixed DEF Peek, At, Walk
<1>2. l[t] \in Locals /\ l[t].cur # tail /\ l[t].layer \in Layers /\ (nodes[l[t].cur].full => l[t].cur \in In(l[t].layer))
  BY <1>1, WalkBasics
<1>3. CASE IsLinked(l[t].cur)
  <2> DEFINE r == [l[t] EXCEPT !.found = FALSE]
             n == nodes[l[t].cur].next[l[t].layer]
  <2>1. Take(t, n, {}, r)  BY <1>3 DEF Peek
  <2>2. r \in Locals /\ r.op = l[t].op /\ r.cur = l[t].cur /\ r.layer = l[t].layer
    BY ZenonT(40), <1>2, SetFound DEF Locals
  <2>3. n \in Links /\ \A z \in In(l[t].layer) : Bef(g, l[t].cur, z) => z = n \/ Bef(g, n, z)
    BY <1>2, <1>3, NextMember DEF IsLinked
  <2> HIDE DEF r, n
  <2>4. l'[t].pc = "look" /\ l'[t].op = "find" /\ l'[t].cur = l[t].cur /\ l'[t].layer = l[t].layer /\ l'[t].next = n
    BY <2>1, <2>2, <2>3, TakeFind
  <2>5. l[t].layer = 0 => \A m \in seen[t].kept : m \in In(l[t].layer)
    <3> SUFFICES ASSUME l[t].layer = 0, NEW m \in seen[t].kept PROVE m \in In(0)  OBVIOUS
    <3>1. m \in Nodes /\ nodes[m].full  BY DEF Watch, Aware, Full
    <3>2. nodes[m].top \in Layers  BY <3>1, Basics DEF TypeOK, NodeRec, Links
    <3> QED  BY <3>1, <3>2, LayerNat DEF In, Member, Links
  <2>6. l[t].cur # head => l[t].cur \in seen[t].met  BY <1>1 DEF Watch, Stood
  <2> QED  BY <1>1, <2>3, <2>4, <2>5, <2>6, WatchGoes
<1>4. CASE ~IsLinked(l[t].cur)
  <2>1. Retry(t, {})  BY <1>4 DEF Peek
  <2>2. l'[t].pc = "start" /\ l'[t].op = "find"  BY <1>1, <2>1, RetryFind
  <2> QED  BY <1>1, <2>2, WatchGoes DEF Walk
<1> QED  BY <1>3, <1>4

LEMMA HopWatch == ASSUME NEW B, NEW g, ListInv(B, g), NEW t \in Threads, l[t].op = "find", Watch(g, t), Hop(t)
  PROVE  Watch(g, t)'
<1>1. l[t].pc = "look" /\ l[t].pc \in Walk /\ Mute(t) /\ TypeOK /\ l[t] \in Locals /\ ~Answers(t)
  BY MuteFixed, Basics DEF Hop, At, Walk, Shared
<1>2. PICK b : b = (l[t].found \/ l[t].next = Target(t))  OBVIOUS
<1>3. b \in BOOLEAN  BY <1>1, <1>2 DEF Locals
<1> DEFINE r == [l[t] EXCEPT !.found = b]
<1>4. r \in Locals /\ r.op = l[t].op /\ r.cur = l[t].cur /\ r.layer = l[t].layer /\ r.next = l[t].next
  BY <1>1, <1>3, SetFound DEF Locals
<1>5. Goto(t, "hop", r)  BY <1>2 DEF Hop
<1> HIDE DEF r
<1>6. Stands(t, "hop", r)  BY <1>1, <1>4, <1>5, Moves DEF PCs
<1>7. l'[t].pc = "hop" /\ l'[t].op = "find" /\ l'[t].cur = l[t].cur /\ l'[t].layer = l[t].layer /\ l'[t].next = l[t].next
  BY <1>4, <1>6 DEF Stands
<1>8. l[t].next \notin seen[t].kept
  <2>1. l[t].next \in Links  BY <1>1, NextBasics
  <2>2. ~nodes[l[t].next].full  BY <1>1, <2>1, ListAssumption DEF Answers, At, IsLinked, Target
  <2> QED  BY <2>2 DEF Watch, Aware, Full
<1>9. l[t].cur # head => l[t].cur \in seen[t].met  BY <1>1 DEF Watch, Stood
<1>10. l[t].layer = 0 => \A m \in seen[t].kept : Bef(g, l[t].cur, m) => m = l[t].next \/ Bef(g, l[t].next, m)
  BY <1>1 DEF Watch, Between
<1> QED  BY <1>1, <1>7, <1>8, <1>9, <1>10, WatchGoes

LEMMA HoppedWatch == ASSUME NEW B, NEW g, ListInv(B, g), NEW t \in Threads, l[t].op = "find", Watch(g, t), Hopped(t)
  PROVE  Watch(g, t)'
<1>1. l[t].pc = "hop" /\ l[t].pc \in Walk /\ Mute(t)  BY MuteFixed DEF Hopped, At, Walk
<1>2. l[t] \in Locals /\ l[t].layer \in Layers /\ l[t].next \in Links /\ (nodes[l[t].next].full => l[t].next \in In(l[t].layer))
      /\ l[t].next # tail
  BY <1>1, WalkBasics, NextBasics DEF Good, Looking
<1>3. CASE IsLinked(l[t].next)
  <2> DEFINE n == nodes[l[t].next].next[l[t].layer]
  <2>1. Take(t, n, {l[t].next}, l[t])  BY <1>3 DEF Hopped
  <2>3. n \in Links /\ \A z \in In(l[t].layer) : Bef(g, l[t].next, z) => z = n \/ Bef(g, n, z)
    BY <1>2, <1>3, NextMember DEF IsLinked
  <2> HIDE DEF n
  <2>4. l'[t].pc = "look" /\ l'[t].op = "find" /\ l'[t].cur = l[t].cur /\ l'[t].layer = l[t].layer /\ l'[t].next = n
    BY <1>2, <2>1, <2>3, TakeFind
  <2>5. l[t].layer = 0 => \A m \in seen[t].kept : Bef(g, l[t].cur, m) => m = n \/ Bef(g, n, m)
    <3> SUFFICES ASSUME l[t].layer = 0, NEW m \in seen[t].kept, Bef(g, l[t].cur, m) PROVE m = n \/ Bef(g, n, m)  OBVIOUS
    <3>1. m \in Nodes /\ nodes[m].full  BY DEF Watch, Aware, Full
    <3>2. nodes[m].top \in Layers  BY <3>1, Basics DEF TypeOK, NodeRec, Links
    <3>3. m \in In(l[t].layer)  BY <3>1, <3>2, LayerNat DEF In, Member, Links
    <3>4. m # l[t].next  BY <1>1 DEF Watch, Missed
    <3>5. Bef(g, l[t].next, m)  BY <1>1, <3>4 DEF Watch, Between
    <3> QED  BY <2>3, <3>3, <3>5
  <2>6. l[t].cur # head => l[t].cur \in seen[t].met  BY <1>1 DEF Watch, Stood
  <2> QED  BY <1>1, <2>4, <2>5, <2>6, WatchGoes
<1>4. CASE ~IsLinked(l[t].next)
  <2>1. Retry(t, {l[t].next})  BY <1>4 DEF Hopped
  <2>2. l'[t].pc = "start" /\ l'[t].op = "find"  BY <1>1, <2>1, RetryFind
  <2> QED  BY <1>1, <2>2, WatchGoes DEF Walk
<1> QED  BY <1>3, <1>4

LEMMA PassWatch == ASSUME NEW B, NEW g, ListInv(B, g), NEW t \in Threads, l[t].op = "find", Watch(g, t), Pass(t)
  PROVE  Watch(g, t)'
<1>1. l[t].pc = "look" /\ nodes[l[t].next].full /\ Mute(t) /\ TypeOK /\ l[t] \in Locals
  BY FirstBasics, MuteFixed, Basics DEF Pass
<1>2. l[t].next \in Links  BY <1>1, NextBasics
<1> DEFINE r == [l[t] EXCEPT !.cur = l[t].next]
<1>3. r \in Locals /\ r.op = l[t].op /\ r.cur = l[t].next  BY <1>1, <1>2, SetCur DEF Locals
<1>4. Goto(t, "peek", r)  BY DEF Pass
<1> HIDE DEF r
<1>5. Stands(t, "peek", r)  BY <1>1, <1>3, <1>4, Moves DEF PCs
<1>6. l'[t].pc = "peek" /\ l'[t].op = "find" /\ l'[t].cur = l[t].next  BY <1>3, <1>5 DEF Stands
<1>7. l[t].next \in Nodes
  <2>1. Past(l[t].key, l[t].next) \/ l[t].op = "erase"  BY DEF Pass, Onward
  <2>2. l[t].next # head  BY <1>1, NextBasics
  <2> QED  BY <2>1, <2>2 DEF Past
<1>8. l[t].next \in seen[t].met  BY <1>1, <1>7 DEF Watch, Aware, Full
<1> QED  BY <1>1, <1>6, <1>8, WatchGoes

LEMMA EasyWatch == ASSUME NEW B, NEW g, ListInv(B, g), NEW t \in Threads, l[t].op = "find", Watch(g, t),
                          Start(t) \/ Descend(t) \/ Answer(t)
  PROVE  Watch(g, t)'
<1>1. TypeOK /\ l[t] \in Locals /\ Mute(t)  BY Basics, MuteFixed DEF Start, Descend, Answer
<1>2. CASE Start(t)
  <2>1. PICK i : Goto(t, "peek", [l[t] EXCEPT !.cur = head, !.layer = i, !.again = FALSE])  BY <1>2 DEF Start
  <2>2. l'[t].pc = "peek" /\ l'[t].op = "find" /\ l'[t].cur = head  BY <1>1, <2>1 DEF Goto, TypeOK, Locals
  <2> QED  BY <1>1, <2>2, WatchGoes
<1>3. CASE Descend(t)
  <2>1. PICK i : Goto(t, "peek", [l[t] EXCEPT !.layer = i])  BY <1>3 DEF Descend
  <2>2. l'[t].pc = "peek" /\ l'[t].op = "find" /\ l'[t].cur = l[t].cur  BY <1>1, <2>1 DEF Goto, TypeOK, Locals
  <2>3. l[t].pc \in Walk  BY <1>3, FirstBasics DEF Descend
  <2> QED  BY <1>1, <2>2, <2>3, WatchGoes DEF Watch, Stood
<1>4. CASE Answer(t)
  <2>1. PICK a : Goto(t, "answer", [l[t] EXCEPT !.answer = a])  BY <1>4 DEF Answer
  <2>2. l'[t].pc = "answer" /\ l'[t].op = "find"  BY <1>1, <2>1 DEF Goto, TypeOK, Locals
  <2> QED  BY <1>1, <2>2, WatchGoes DEF Walk
<1> QED  BY <1>2, <1>3, <1>4
-----------------------------------------------------------------------------
\* A call keeps its operation and its node until it returns, and an erase that has the mark keeps it.
Before == {"removed", "mark", "retire"}
SameOp(t) == Others(t) /\ (l'[t] = Idle \/ (l'[t].op = l[t].op /\ l'[t].node = l[t].node))
Onto(t) == SameOp(t) /\ l'[t].pc \notin Before

\* What Goto leaves of the call.
LEMMA GoSame == ASSUME TypeOK, NEW t \in Threads, NEW p, NEW r, Goto(t, p, r),
                       [r EXCEPT !.pc = p].op = l[t].op, [r EXCEPT !.pc = p].node = l[t].node, [r EXCEPT !.pc = p].pc = p
                PROVE SameOp(t) /\ l'[t].pc = p
<1>1. l'[t] = IF p = "idle" THEN Idle ELSE [r EXCEPT !.pc = p]  BY DEF Goto, TypeOK
<1>2. Idle.pc = "idle"  BY DEF Idle
<1>3. Others(t)  BY DEF Goto, TypeOK, Others
<1> QED  BY <1>1, <1>2, <1>3 DEF SameOp

LEMMA GoAt == ASSUME TypeOK, NEW t \in Threads, NEW p, Goto(t, p, l[t]) PROVE SameOp(t) /\ l'[t].pc = p
<1>1. [l[t] EXCEPT !.pc = p].op = l[t].op /\ [l[t] EXCEPT !.pc = p].node = l[t].node /\ [l[t] EXCEPT !.pc = p].pc = p
  BY SMTT(40) DEF TypeOK, Locals
<1> QED  BY SMTT(40), <1>1, GoSame

\* The same with one field changed, or two.
LEMMA GoWith ==
  ASSUME TypeOK, NEW t \in Threads, NEW p, NEW i,
         \/ Goto(t, p, [l[t] EXCEPT !.top = i])
         \/ Goto(t, p, [l[t] EXCEPT !.layer = i])
         \/ Goto(t, p, [l[t] EXCEPT !.cur = i])
         \/ Goto(t, p, [l[t] EXCEPT !.next = i])
         \/ Goto(t, p, [l[t] EXCEPT !.found = i])
         \/ Goto(t, p, [l[t] EXCEPT !.again = i])
         \/ Goto(t, p, [l[t] EXCEPT !.answer = i])
         \/ Goto(t, p, [l[t] EXCEPT !.layer = i, !.again = FALSE])
         \/ Goto(t, p, [l[t] EXCEPT !.cur = head, !.layer = i, !.again = FALSE])
         \/ \E h : Goto(t, p, [l[t] EXCEPT !.layer = i, !.then = h])
         \/ \E m, n : Goto(t, p, [l[t] EXCEPT !.prevs[i] = m, !.nexts[i] = n])
  PROVE SameOp(t) /\ l'[t].pc = p
<1>1. l[t] \in Locals  BY DEF TypeOK
<1> DEFINE Like(r) == [r EXCEPT !.pc = p].op = l[t].op /\ [r EXCEPT !.pc = p].node = l[t].node /\ [r EXCEPT !.pc = p].pc = p
<1>2. /\ Like([l[t] EXCEPT !.top = i]) /\ Like([l[t] EXCEPT !.layer = i]) /\ Like([l[t] EXCEPT !.cur = i])
      /\ Like([l[t] EXCEPT !.next = i]) /\ Like([l[t] EXCEPT !.found = i]) /\ Like([l[t] EXCEPT !.again = i])
      /\ Like([l[t] EXCEPT !.answer = i])
  BY ZenonT(40), <1>1 DEF Locals
<1>3. /\ Like([l[t] EXCEPT !.layer = i, !.again = FALSE]) /\ Like([l[t] EXCEPT !.cur = head, !.layer = i, !.again = FALSE])
      /\ \A h : Like([l[t] EXCEPT !.layer = i, !.then = h])
      /\ \A m, n : Like([l[t] EXCEPT !.prevs[i] = m, !.nexts[i] = n])
  BY <1>1 DEF Locals
<1>4. ASSUME NEW r, Goto(t, p, r), Like(r) PROVE SameOp(t) /\ l'[t].pc = p  BY ZenonT(40), <1>4, GoSame
<1> HIDE DEF Like
<1> QED  BY ZenonT(40), <1>2, <1>3, <1>4

\* The ways back and out.
LEMMA ClearSame == ASSUME TypeOK, NEW t \in Threads, NEW i, NEW p, p \notin Before, NEW less, ClearFrom(t, i, p, less)
  PROVE  Onto(t)
<1>1. Goto(t, p, l[t]) \/ Goto(t, "clear", [l[t] EXCEPT !.layer = i, !.then = p])  BY SMTT(40) DEF ClearFrom
<1>2. SameOp(t) /\ l'[t].pc \in {p, "clear"}  BY Zenon, <1>1, GoAt, GoWith
<1> QED  BY SMTT(40), <1>2 DEF Onto, Before

LEMMA BackSame == ASSUME TypeOK, NEW t \in Threads, NEW i, NEW less, ClearFrom(t, i, Begin(t), less) PROVE Onto(t)
<1>1. Begin(t) \notin Before  BY DEF Begin, Before
<1> QED  BY <1>1, ClearSame

LEMMA RetrySame == ASSUME TypeOK, NEW t \in Threads, NEW less, Retry(t, less) PROVE Onto(t)
BY GoAt, BackSame DEF Retry, Onto, Before

\* Every step but the call itself, and those before the mark is had.
LEMMA StepOnto == ASSUME TypeInv, NEW t \in Threads, Step(t), ~Call(t), ~Removed(t), ~Mark(t) PROVE Onto(t)
<1>1. TypeOK /\ l[t] \in Locals /\ Sound(l[t])  BY DEF TypeInv, TypeOK
<1>2. ASSUME NEW p, p \notin Before, SameOp(t), l'[t].pc = p PROVE Onto(t)  BY <1>2 DEF Onto
<1>3. ASSUME NEW p, p \notin Before, Goto(t, p, l[t]) PROVE Onto(t)  BY <1>1, <1>2, <1>3, GoAt
<1>4. CASE Retire(t) \/ Linked(t) \/ Restore(t) \/ Unmark(t) \/ Return(t) \/ Unlink(t) \/ Publish(t) \/ Release(t)
  <2>1. \E p \in {"linked", "start", "restore", "unmark", "idle", "store", "release", "count"} : Goto(t, p, l[t])
    BY ZenonT(40), <1>4 DEF Retire, Linked, Restore, Unmark, Return, Unlink, Publish, Release
  <2> QED  BY <1>3, <2>1 DEF Before
<1>5. CASE Start(t)
  <2>1. PICK i : Goto(t, "peek", [l[t] EXCEPT !.cur = head, !.layer = i, !.again = FALSE])
    BY ZenonT(40), <1>5 DEF Start
  <2>2. SameOp(t) /\ l'[t].pc = "peek"  BY Zenon, <1>1, <2>1, GoWith
  <2> QED  BY <1>2, <2>2 DEF Before
<1>6. CASE Peek(t) \/ Hopped(t)
  <2>1. CASE \E less : Retry(t, less)  BY <1>1, <2>1, RetrySame
  <2>2. CASE Goto(t, "crash", l[t])  BY <1>3, <2>2 DEF Before
  <2>3. CASE \E n : Goto(t, "look", [[l[t] EXCEPT !.found = FALSE] EXCEPT !.next = n])
    <3>1. PICK n : Goto(t, "look", [[l[t] EXCEPT !.found = FALSE] EXCEPT !.next = n])  BY <2>3
    <3> DEFINE r == [[l[t] EXCEPT !.found = FALSE] EXCEPT !.next = n]
    <3>2. [r EXCEPT !.pc = "look"].op = l[t].op /\ [r EXCEPT !.pc = "look"].node = l[t].node /\
          [r EXCEPT !.pc = "look"].pc = "look"
      BY <1>1 DEF Locals
    <3> HIDE DEF r
    <3>3. SameOp(t) /\ l'[t].pc = "look"  BY ZenonT(40), <1>1, <3>1, <3>2, GoSame DEF r
    <3> QED  BY <1>2, <3>3 DEF Before
  <2>4. CASE \E n : Goto(t, "look", [l[t] EXCEPT !.next = n])
    <3>1. PICK n : Goto(t, "look", [l[t] EXCEPT !.next = n])  BY SMTT(40), <2>4
    <3>2. SameOp(t) /\ l'[t].pc = "look"  BY Zenon, <1>1, <3>1, GoWith
    <3> QED  BY <1>2, <3>2 DEF Before
  <2>5. CASE Peek(t)
    <3>1. CASE IsLinked(l[t].cur)
      <4>1. PICK n : Take(t, n, {}, [l[t] EXCEPT !.found = FALSE])  BY <2>5, <3>1 DEF Peek
      <4> QED  BY <2>2, <2>3, <4>1 DEF Take
    <3>2. CASE ~IsLinked(l[t].cur)  BY <2>1, <2>5, <3>2 DEF Peek
    <3> QED  BY <3>1, <3>2
  <2>6. CASE Hopped(t)
    <3>1. PICK n, less : Take(t, n, less, l[t]) \/ Retry(t, less)  BY <2>6 DEF Hopped
    <3> QED  BY <2>1, <2>2, <2>4, <3>1 DEF Take
  <2> QED  BY <1>6, <2>5, <2>6
<1>7. CASE Hop(t) \/ Pass(t) \/ Descend(t) \/ Answer(t) \/ Place(t)
  <2>1. CASE Hop(t)
    <3>1. PICK b : Goto(t, "hop", [l[t] EXCEPT !.found = b])  BY ZenonT(40), <2>1 DEF Hop
    <3>2. SameOp(t) /\ l'[t].pc = "hop"  BY ZenonT(40), <1>1, <3>1, GoWith
    <3> QED  BY SMTT(40), <1>2, <3>2 DEF Before
  <2>2. CASE Pass(t)
    <3>1. PICK c : Goto(t, "peek", [l[t] EXCEPT !.cur = c])  BY ZenonT(40), <2>2 DEF Pass
    <3>2. SameOp(t) /\ l'[t].pc = "peek"  BY ZenonT(40), <1>1, <3>1, GoWith
    <3> QED  BY <1>2, <3>2 DEF Before
  <2>3. CASE Descend(t)
    <3>1. PICK i : Goto(t, "peek", [l[t] EXCEPT !.layer = i])  BY <2>3 DEF Descend
    <3>2. SameOp(t) /\ l'[t].pc = "peek"  BY Zenon, <1>1, <3>1, GoWith
    <3> QED  BY <1>2, <3>2 DEF Before
  <2>4. CASE Answer(t)
    <3>1. PICK a : Goto(t, "answer", [l[t] EXCEPT !.answer = a])  BY ZenonT(40), <2>4 DEF Answer
    <3>2. SameOp(t) /\ l'[t].pc = "answer"  BY Zenon, <1>1, <3>1, GoWith
    <3> QED  BY SMTT(40), <1>2, <3>2 DEF Before
  <2>5. CASE Place(t)
    <3>1. PICK i, c, n : Goto(t, "try", [l[t] EXCEPT !.prevs[i] = c, !.nexts[i] = n])
      BY ZenonT(40), <2>5 DEF Place
    <3>2. SameOp(t) /\ l'[t].pc = "try"  BY Zenon, <1>1, <3>1, GoWith
    <3> QED  BY <1>2, <3>2 DEF Before
  <2> QED  BY <1>7, <2>1, <2>2, <2>3, <2>4, <2>5
<1>8. CASE Try(t) \/ Prev(t) \/ NextValid(t)
  <2>1. CASE Try(t)
    <3>1. Goto(t, "prev", l[t]) \/ Retry(t, {})  BY <2>1 DEF Try
    <3> QED  BY <1>1, <1>3, <3>1, RetrySame DEF Before
  <2>2. CASE Prev(t)
    <3>1. Goto(t, "next", l[t]) \/ ClearFrom(t, l[t].layer, Begin(t), {})  BY <2>2 DEF Prev
    <3> QED  BY <1>1, <1>3, <3>1, BackSame DEF Before
  <2>3. CASE NextValid(t)
    <3>1. ClearFrom(t, l[t].layer, Begin(t), {}) \/ Goto(t, "peek", [l[t] EXCEPT !.again = TRUE])
      BY SMTT(40), <2>3 DEF NextValid
    <3>2. CASE Goto(t, "peek", [l[t] EXCEPT !.again = TRUE])
      <4>1. SameOp(t) /\ l'[t].pc = "peek"  BY ZenonT(40), <1>1, <3>2, GoWith
      <4> QED  BY <1>2, <4>1 DEF Before
    <3> QED  BY <1>1, <3>1, <3>2, BackSame
  <2> QED  BY <1>8, <2>1, <2>2, <2>3
<1>9. CASE Placed(t)
  <2>1. \/ \E p \in {"store", "unlink"} : Goto(t, p, l[t])
        \/ \E i, less : ClearFrom(t, i, Begin(t), less)
        \/ \E i : Goto(t, "peek", [l[t] EXCEPT !.layer = i, !.again = FALSE])
    BY ZenonT(40), <1>9 DEF Placed
  <2>2. CASE \E i : Goto(t, "peek", [l[t] EXCEPT !.layer = i, !.again = FALSE])
    <3>1. SameOp(t) /\ l'[t].pc = "peek"  BY Zenon, <1>1, <2>2, GoWith
    <3> QED  BY <1>2, <3>1 DEF Before
  <2> QED  BY ZenonT(40), <1>1, <1>3, <2>1, <2>2, BackSame DEF Before
<1>10. CASE Store(t) \/ Count(t) \/ Scan(t) \/ SetTop(t) \/ Clear(t)
  <2>1. \/ \E p : p \notin Before /\ Goto(t, p, l[t])
        \/ \E i, p, less : p \notin Before /\ ClearFrom(t, i, p, less)
        \/ \E p, i : p \notin Before /\ Goto(t, p, [l[t] EXCEPT !.layer = i])
    <3>1. CASE Store(t)  BY <3>1 DEF Store, Before
    <3>2. CASE Count(t)  BY <3>2 DEF Count, Before
    <3>3. CASE Scan(t) \/ SetTop(t)  BY <3>3 DEF Scan, SetTop, Finish, Before
    <3>4. CASE Clear(t)
      <4>1. l[t].then \notin Before  BY <1>1, <3>4 DEF Clear, At, Sound, Before
      <4> QED  BY <3>4, <4>1 DEF Clear, Before
    <3> QED  BY <1>10, <3>1, <3>2, <3>3, <3>4
  <2>2. CASE \E p, i : p \notin Before /\ Goto(t, p, [l[t] EXCEPT !.layer = i])
    <3>1. PICK p, i : p \notin Before /\ Goto(t, p, [l[t] EXCEPT !.layer = i])  BY Zenon, <2>2
    <3>2. SameOp(t) /\ l'[t].pc = p  BY Zenon, <1>1, <3>1, GoWith
    <3> QED  BY <1>2, <3>1, <3>2
  <2> QED  BY ZenonT(40), <1>1, <1>3, <2>1, <2>2, ClearSame
<1> QED  BY <1>4, <1>5, <1>6, <1>7, <1>8, <1>9, <1>10 DEF Step

LEMMA StepSame == ASSUME TypeInv, NEW t \in Threads, Step(t), ~Call(t) PROVE SameOp(t)
<1>1. TypeOK  BY SMTT(40) DEF TypeInv
<1>2. CASE Removed(t)  BY SMTT(40), <1>1, <1>2, GoAt DEF Removed
<1>3. CASE Mark(t)
  <2>1. PICK i : Goto(t, "retire", l[t]) \/ Goto(t, "removed", [l[t] EXCEPT !.top = i])  BY <1>3 DEF Mark
  <2> QED  BY Zenon, <1>1, <2>1, GoAt, GoWith
<1> QED  BY <1>2, <1>3, StepOnto DEF Onto

-----------------------------------------------------------------------------
\* A node whose insert begins is not in the list.
LEMMA CallFull == ASSUME TypeOK, Fresh, NEW t \in Threads, Call(t) PROVE Full' = Full
<1> DEFINE first == todo[t][1]
<1>1. l[t].pc = "idle" /\ todo[t] # <<>> /\ todo[t] \in Seq(Calls)  BY DEF Call, At, TypeOK
<1>2. first \in Calls  BY <1>1
<1>3. CASE first.op = "insert" /\ \E i \in first.tops : CallInsert(t, first.node, i)
  <2>1. PICK i : CallInsert(t, first.node, i)  BY <1>3
  <2>2. ~nodes[first.node].full /\ first.node \in Links  BY <1>1, <1>2, <1>3 DEF Fresh, At, Calls, Links
  <2> DEFINE new == [next |-> [j \in Layers |-> None], full |-> FALSE, flag |-> None, removed |-> FALSE, top |-> i, holder |-> t]
  <2>3. nodes' = [nodes EXCEPT ![first.node] = new] /\ new.full = FALSE  BY <2>1 DEF CallInsert
  <2> HIDE DEF new
  <2>4. \A m \in Links : nodes'[m] = IF m = first.node THEN new ELSE nodes[m]  BY <2>3 DEF TypeOK
  <2>5. \A m \in Nodes : nodes'[m].full <=> nodes[m].full  BY <2>2, <2>3, <2>4 DEF Links
  <2> QED  BY <2>5 DEF Full
<1>4. CASE nodes' = nodes  BY <1>4 DEF Full
<1> QED  BY <1>3, <1>4 DEF Call, CallErase, CallFind

\* Only Publish and Unlink change the set of linked nodes, and only they, calls and returns of finds change what is seen.
LEMMA StepFull == ASSUME TypeOK, Fresh, NEW t \in Threads, Step(t), ~Publish(t), ~Unlink(t) PROVE Full' = Full
<1>1. CASE Call(t)  BY <1>1, CallFull
<1>2. CASE \/ Removed(t) \/ Linked(t) \/ Start(t) \/ Peek(t) \/ Hop(t) \/ Hopped(t) \/ Pass(t) \/ Descend(t) \/ Answer(t)
           \/ Place(t) \/ Prev(t) \/ Placed(t) \/ Scan(t)
  <2>1. nodes' = nodes
    BY <1>2 DEF Removed, Linked, Start, Peek, Hop, Hopped, Pass, Descend, Answer, Place, Prev, Placed, Scan, Fixed, Shared
  <2> QED  BY <2>1, SameStill, FullStill
<1>3. CASE Return(t) \/ Count(t) \/ SetTop(t)  BY <1>3, SameStill, FullStill DEF Return, Count, SetTop
<1>4. CASE Mark(t) \/ Retire(t) \/ Restore(t) \/ Unmark(t) \/ Try(t) \/ Clear(t)
  <2>1. nodes' = nodes \/ \E n, v : Put(n, "flag", v) \/ Put(n, "removed", v)
    BY ZenonT(40), <1>4 DEF Mark, Retire, Restore, Unmark, Try, Clear
  <2> QED  BY <2>1, SameStill, PutStill, FullStill
<1>5. CASE Release(t)  BY <1>5, FullHolder DEF Release
<1>6. CASE NextValid(t) \/ Store(t)
  <2>1. nodes' = nodes \/ \E n, i, v : nodes' = [nodes EXCEPT ![n].next[i] = v]
    BY ZenonT(40), <1>6 DEF NextValid, Store
  <2> QED  BY Zenon, <2>1, FullNext, SameStill, FullStill
<1> QED  BY <1>1, <1>2, <1>3, <1>4, <1>5, <1>6 DEF Step

LEMMA StepSeen == ASSUME TypeOK, NEW t \in Threads, Step(t), ~Publish(t), ~Unlink(t)
                  PROVE /\ OthersSeen(t)
                        /\ ~Call(t) /\ ~Return(t) => seen' = seen
<1>1. CASE Call(t)
  <2>1. seen' = seen \/ seen' = [seen EXCEPT ![t] = [met |-> Full, kept |-> Full]]
    BY <1>1 DEF Call, CallInsert, CallErase, CallFind, Sees
  <2> QED  BY <1>1, <2>1 DEF OthersSeen, TypeOK
<1>2. CASE Return(t)  BY <1>2 DEF Return, Forget, OthersSeen, TypeOK
<1>3. CASE ~Call(t) /\ ~Return(t)
  <2>1. seen' = seen
    BY Zenon, <1>3 DEF Step, Removed, Mark, Retire, Linked, Restore, Unmark, Start, Peek, Hop, Hopped,
       Pass, Descend, Answer,
         Place, Try, Prev,
                NextValid, Placed, Store, Release, Count, Scan, SetTop, Clear, Fixed, Shared
  <2> QED  BY <1>3, <2>1, SeenOthers
<1> QED  BY <1>1, <1>2, <1>3
-----------------------------------------------------------------------------
\* What is no find observes nothing.
LEMMA ObserveOwn == ASSUME NEW t \in Threads, Observe, l[t].op # "find" PROVE seen'[t] = seen[t]
<1> PICK F : F = Full'  OBVIOUS
<1>1. seen' = [u \in Threads |-> IF l[u].op = "find" THEN [met |-> seen[u].met \cup F, kept |-> seen[u].kept \cap F] ELSE seen[u]]
  BY DEF Observe
<1> QED  BY <1>1

\* What a call does to its thread.
LEMMA CallDoes == ASSUME NEW B, NEW g, ListInv(B, g), NEW t \in Threads, Call(t)
                  PROVE /\ l[t] = Idle /\ l[t].op = "none" /\ l[t].pc = "idle" /\ l[t].answer = None /\ Others(t)
                        /\ \/ /\ seen' = seen /\ l'[t].op \in {"insert", "erase"} /\ l'[t].node \in Nodes /\ l'[t].key = Key[l'[t].node]
                              /\ l'[t].answer = None /\ l'[t].pc \in {"start", "removed"}
                           \/ /\ seen' = [seen EXCEPT ![t] = [met |-> Full, kept |-> Full]] /\ l'[t].op = "find" /\ l'[t].node = None
                              /\ (\E n \in Nodes : l'[t].key = Key[n]) /\ l'[t].answer = None /\ l'[t].pc = "start"
<1> DEFINE first == todo[t][1]
<1>1. l[t].pc = "idle" /\ todo[t] # <<>> /\ todo[t] \in Seq(Calls) /\ TypeOK /\ Good(B, g, t)  BY Basics DEF Call, At, TypeOK
<1>2. first \in Calls  BY <1>1
<1>3. first.node \in Nodes /\ first.tops \subseteq Layers  BY <1>2 DEF Calls
<1>4. l[t] = Idle /\ Idle.op = "none" /\ Idle.answer = None /\ Idle.node = None  BY <1>1 DEF Good, Named, Idle
<1>5. CASE \E i \in first.tops : CallInsert(t, first.node, i)
  <2>1. PICK i \in Layers : CallInsert(t, first.node, i)  BY <1>3, <1>5
  <2> DEFINE r == [Idle EXCEPT !.op = "insert", !.node = first.node, !.key = Key[first.node], !.top = i]
  <2>2. r.op = "insert" /\ r.node = first.node /\ r.key = Key[first.node] /\ r.answer = None  BY DEF Idle
  <2>3. Goto(t, "start", r) /\ seen' = seen /\ r \in Locals  BY <1>3, <2>1, SetInsert DEF CallInsert
  <2> HIDE DEF r
  <2>4. Stands(t, "start", r) /\ Others(t)  BY <1>1, <2>3, Moves DEF PCs
  <2> QED  BY <1>1, <1>3, <1>4, <2>2, <2>3, <2>4 DEF Stands
<1>6. CASE CallErase(t, first.node)
  <2> DEFINE r == [Idle EXCEPT !.op = "erase", !.node = first.node, !.key = Key[first.node], !.top = nodes[first.node].top]
  <2>1. nodes[first.node].top \in Layers  BY <1>1, <1>3 DEF TypeOK, NodeRec, Links
  <2>2. r.op = "erase" /\ r.node = first.node /\ r.key = Key[first.node] /\ r.answer = None  BY DEF Idle
  <2>3. Goto(t, "removed", r) /\ seen' = seen /\ r \in Locals  BY <1>3, <1>6, <2>1, SetErase DEF CallErase
  <2> HIDE DEF r
  <2>4. Stands(t, "removed", r) /\ Others(t)  BY <1>1, <2>3, Moves DEF PCs
  <2> QED  BY <1>1, <1>3, <1>4, <2>2, <2>3, <2>4 DEF Stands
<1>7. CASE CallFind(t, Key[first.node])
  <2> DEFINE r == [Idle EXCEPT !.op = "find", !.key = Key[first.node]]
  <2>1. Key[first.node] \in Int  BY <1>3, ListAssumption
  <2>2. r.op = "find" /\ r.node = None /\ r.key = Key[first.node] /\ r.answer = None  BY DEF Idle
  <2>3. Goto(t, "start", r) /\ seen' = [seen EXCEPT ![t] = [met |-> Full, kept |-> Full]] /\ r \in Locals
    BY <1>7, <2>1, SetFind DEF CallFind, Sees
  <2> HIDE DEF r
  <2>4. Stands(t, "start", r) /\ Others(t)  BY <1>1, <2>3, Moves DEF PCs
  <2> QED  BY <1>1, <1>3, <1>4, <2>2, <2>3, <2>4 DEF Stands
<1> QED  BY <1>5, <1>6, <1>7 DEF Call

\* The thread's own step, when it keeps the order.
LEMMA OwnWatch == ASSUME NEW B, NEW g, ListInv(B, g), NEW t \in Threads, Watch(g, t), Step(t), Fresh
                 PROVE Watch(g, t)' \/ (l'[t].op # "find" /\ seen'[t] = Unseen)
<1>1. TypeInv /\ TypeOK /\ Sound(l[t]) /\ seen \in [Threads -> Sights]  BY Basics DEF TypeOK
<1>2. CASE l[t].op = "find"
  <2>1. CASE Return(t)
    <3>1. l'[t] = Idle /\ seen'[t] = Unseen  BY <1>1, <2>1, MovesIdle DEF Return, Forget
    <3> QED  BY <3>1 DEF Idle
  <2>2. CASE ~Return(t)  BY <1>2, <2>2, FindOnly, PeekWatch, HopWatch, HoppedWatch, PassWatch, EasyWatch
  <2> QED  BY <2>1, <2>2
<1>3. CASE l[t].op # "find" /\ ~Call(t)
  <2>1. seen[t] = Unseen  BY <1>3 DEF Watch, Blind
  <2>2. l'[t].op # "find"  BY <1>1, <1>3, StepSame DEF SameOp, Idle
  <2>3. seen'[t] = seen[t]
    <3>1. CASE Publish(t) \/ Unlink(t)  BY <1>3, <3>1, ObserveOwn DEF Publish, Unlink
    <3>2. CASE ~Publish(t) /\ ~Unlink(t)
      <4>1. ~Return(t)  BY <1>1, <1>3 DEF Return, At, Sound
      <4> QED  BY <1>1, <1>3, <3>2, <4>1, StepSeen
    <3> QED  BY <3>1, <3>2
  <2> QED  BY <2>1, <2>2, <2>3
<1>4. CASE Call(t)
  <2>1. CASE seen' = seen /\ l'[t].op \in {"insert", "erase"}
    <3>1. l[t].op # "find"  BY <1>4, CallDoes
    <3> QED  BY <2>1, <3>1 DEF Watch, Blind
  <2>2. CASE seen' = [seen EXCEPT ![t] = [met |-> Full, kept |-> Full]] /\ l'[t].op = "find" /\ l'[t].pc = "start"
    <3>1. Full' = Full  BY <1>1, <1>4, CallFull
    <3>2. seen'[t].met = Full /\ seen'[t].kept = Full  BY <1>1, <2>2
    <3>3. Aware(t)'
      <4> PICK F : F = Full'  OBVIOUS
      <4> QED  BY <3>1, <3>2 DEF Aware
    <3>4. Blind(t)' /\ Stood(t)' /\ Between(g, t)' /\ Missed(t)'  BY <2>2 DEF Blind, Stood, Between, Missed, Walk
    <3> QED  BY <3>3, <3>4 DEF Watch
  <2> QED  BY <1>4, <2>1, <2>2, CallDoes
<1> QED  BY <1>2, <1>3, <1>4

\* Every step keeps Watch, for some order.
LEMMA StepWatch == ASSUME NEW B, NEW g, ListInv(B, g), \A u \in Threads : Watch(g, u), Fresh, Topped, Known, MarkInv',
                          NEW t \in Threads, Step(t)
                   PROVE \E A, h : ListInv(A, h)' /\ \A u \in Threads : Watch(h, u)'
<1>1. TypeInv /\ TypeOK /\ Order(B, g) /\ Sound(l[t])  BY Basics
<1>2. Watch(g, t)' \/ (l'[t].op # "find" /\ seen'[t] = Unseen)  BY OwnWatch
<1>3. Others(t)  BY <1>1, StepStays DEF Stays, Peeks
<1>4. ASSUME NEW A, NEW h, Order(A, h), OrderKept(B, g, A, h), NEW u \in Threads, u # t PROVE Watch(h, u)'
  <2>1. l'[u] = l[u]  BY <1>3, <1>4 DEF Others
  <2>2. CASE Publish(t) \/ Unlink(t)  BY <1>4, <2>1, <2>2, WatchObserve DEF Publish, Unlink
  <2>3. CASE ~Publish(t) /\ ~Unlink(t)
    <3>1. Full' = Full /\ seen'[u] = seen[u]  BY <1>1, <1>4, <2>3, StepFull, StepSeen DEF OthersSeen
    <3> QED  BY <1>4, <2>1, <3>1, WatchMute
  <2> QED  BY <2>2, <2>3
<1>5. CASE Store(t)
  <2>1. PICK A, h : ListInv(A, h)' /\ OrderKept(B, g, A, h)  BY <1>5, StoreList
  <2>2. Order(A, h)  BY SMTT(40), <2>1 DEF ListInv
  <2>3. l[t].op # "find"  BY <1>1, <1>5 DEF Store, At, Sound, Change
  <2>4. l'[t].op # "find"
    <3>1. ~Call(t)  BY SMTT(40), <1>5 DEF Store, Call, At
    <3> QED  BY <1>1, <1>5, <2>3, <3>1, StepSame DEF SameOp, Idle
  <2>5. seen'[t] = Unseen  BY <1>5, <2>3 DEF Store, Watch, Blind
  <2>6. Watch(h, t)'  BY <2>4, <2>5, WatchRest
  <2> QED  BY <1>4, <2>1, <2>2, <2>6
<1>6. CASE ~Store(t)
  <2>1. ListInv(B, g)'  BY <1>6, StepSameList
  <2>2. Watch(g, t)'  BY <1>2, WatchRest
  <2>3. \A u \in Threads : u # t => Watch(g, u)'  BY <1>1, <1>4, OrderSame
  <2> QED  BY <2>1, <2>2, <2>3
<1> QED  BY <1>5, <1>6
-----------------------------------------------------------------------------
\* The thread with locals r is going to erase its node, which it has retired, or to restore it.
Erases(r) == /\ r.op = "erase"
             /\ \/ r.pc \in Walk \cup {"linked", "start", "unlink", "restore"}
                \/ r.pc = "clear" /\ r.then = "linked"
\* A node that is retired has an eraser, or is gone for good.
Gone == \A n \in Nodes : nodes[n].removed => \/ \E u \in Threads : Erases(l[u]) /\ l[u].node = n
                                             \/ ~nodes[n].full /\ \A v \in Threads : Unborn(l[v]) => l[v].node # n
\* A step retires no node; puts none into the set, either; and leaves the thread to erase what it was to.
Retired(n) == nodes'[n].removed => nodes[n].removed
NodeKept(n) == Retired(n) /\ (nodes'[n].full => nodes[n].full)
KeepsErasing(t) == Erases(l[t]) => Erases(l'[t]) /\ l'[t].node = l[t].node

\* What a step must not do, for one node.
LEMMA GoneOne == ASSUME Gone, NEW t \in Threads, Others(t), NEW n \in Nodes, NodeKept(n),
                        l[t].node = n => KeepsErasing(t), NoBirth(t), nodes'[n].removed
                 PROVE \/ \E u \in Threads : Erases(l'[u]) /\ l'[u].node = n
                       \/ ~nodes'[n].full /\ \A v \in Threads : Unborn(l'[v]) => l'[v].node # n
<1>1. nodes[n].removed /\ (nodes'[n].full => nodes[n].full)  BY DEF NodeKept, Retired
<1>2. CASE \E u \in Threads : Erases(l[u]) /\ l[u].node = n
  <2>1. PICK u \in Threads : Erases(l[u]) /\ l[u].node = n  BY <1>2
  <2>2. Erases(l'[u]) /\ l'[u].node = n  BY <2>1 DEF Others, KeepsErasing
  <2> QED  BY <2>2
<1>3. CASE ~nodes[n].full /\ \A v \in Threads : Unborn(l[v]) => l[v].node # n
  <2>1. ASSUME NEW v \in Threads, Unborn(l'[v]) PROVE l'[v].node # n  BY <1>3, <2>1 DEF Others, NoBirth
  <2> QED  BY <1>1, <1>3, <2>1
<1> QED  BY <1>1, <1>2, <1>3 DEF Gone

\* Such a step keeps Gone.
LEMMA GoneFrame == ASSUME Gone, NEW t \in Threads, Others(t), \A n \in Nodes : NodeKept(n), KeepsErasing(t), NoBirth(t)
                   PROVE Gone'
BY GoneOne DEF Gone

\* Only calls, Retire and Restore change who is retired.
LEMMA StepRemoved == ASSUME TypeOK, NEW t \in Threads, Step(t), ~Call(t), ~Retire(t), ~Restore(t), NEW n \in Nodes
                     PROVE nodes'[n].removed = nodes[n].removed
<1>1. ASSUME NEW m, NEW f \in {"full", "flag", "holder"}, NEW v, Put(m, f, v) PROVE nodes'[n].removed = nodes[n].removed
  BY <1>1 DEF TypeOK, NodeRec, Put, Links
<1>2. ASSUME NEW m, NEW i, NEW v, nodes' = [nodes EXCEPT ![m].next[i] = v] PROVE nodes'[n].removed = nodes[n].removed
  BY <1>2 DEF TypeOK, NodeRec, Links
<1>3. CASE \/ Removed(t) \/ Linked(t) \/ Start(t) \/ Peek(t) \/ Hop(t) \/ Hopped(t) \/ Pass(t) \/ Descend(t) \/ Answer(t)
           \/ Place(t) \/ Prev(t) \/ Placed(t) \/ Scan(t) \/ Return(t) \/ Count(t) \/ SetTop(t)
  <2>1. nodes' = nodes
    BY <1>3 DEF Removed, Linked, Start, Peek, Hop, Hopped, Pass, Descend, Answer, Place, Prev, Placed, Scan, Return,
         Count, SetTop, Fixed, Shared
  <2> QED  BY SMTT(40), <2>1
<1>4. CASE Mark(t) \/ Unmark(t) \/ Try(t) \/ Clear(t) \/ Unlink(t) \/ Publish(t) \/ Release(t)
  <2>1. nodes' = nodes \/ \E m, v : Put(m, "full", v) \/ Put(m, "flag", v) \/ Put(m, "holder", v)
    BY Zenon, <1>4 DEF Mark, Unmark, Try, Clear, Unlink, Publish, Release
  <2> QED  BY <1>1, <2>1
<1>5. CASE NextValid(t) \/ Store(t)
  <2>1. nodes' = nodes \/ \E m, i, v : nodes' = [nodes EXCEPT ![m].next[i] = v]
    BY ZenonT(40), <1>5 DEF NextValid, Store
  <2> QED  BY SMTT(40), <1>2, <2>1
<1> QED  BY <1>3, <1>4, <1>5 DEF Step

\* Inserts and erases by what they have done.
LEMMA UnbornIs == ASSUME NEW r, NEW t \in Threads, r.op = "insert", Sound(r), r.pc \in PCs, r.pc \notin {"crash", "idle"}
                  PROVE Unborn(r) <=> ~Taken(r.pc, r.op, r.then) /\ r.pc # "unlink"
BY DEF Unborn, Taken, Sound, Walk, PCs, Search, Change

LEMMA ErasesIs == ASSUME NEW r, NEW t \in Threads, r.op = "erase", Sound(r), r.pc \in PCs, r.pc \notin {"crash", "idle",
                         "publish"} \cup Before
                  PROVE Erases(r) <=> ~Taken(r.pc, r.op, r.then) \/ r.pc = "restore"
BY DEF Erases, Taken, Sound, Walk, PCs, Before

\* A quiet step.
LEMMA QuietKeeps == ASSUME MarkInv, MarkInv', NEW t \in Threads, Named(t), Named(t)', SameOp(t), UNCHANGED Promise!vars
                    PROVE NoBirth(t)
<1>1. /\ Sound(l[t]) /\ Sound(l'[t]) /\ l[t].pc \in PCs /\ l'[t].pc \in PCs
      /\ l[t].pc # "crash" /\ l'[t].pc # "crash"
  BY DEF MarkInv, TypeInv, TypeOK, Locals, Named
<1>2. l'[t].op = l[t].op /\ (Effected(t)' <=> Effected(t))
  <2>1. Told'[t] = Told[t]  BY DEF Promise!vars
  <2> PICK b, d, o, p : b = Effected(t) /\ d = Effected(t)' /\ o = l[t].op /\ p = l'[t].op  OBVIOUS
  <2>2. Told[t].op = o /\ Told'[t].op = p /\ Told[t].done = b /\ Told'[t].done = d  BY ToldIs
  <2> QED  BY <2>1, <2>2
<1>3. Taken(l'[t].pc, l'[t].op, l'[t].then) <=> Taken(l[t].pc, l[t].op, l[t].then)  BY <1>2, EffectedIs, EffectedNext
<1> SUFFICES ASSUME Unborn(l'[t]) PROVE Unborn(l[t]) /\ l'[t].node = l[t].node  BY DEF NoBirth
<1>4. l'[t].op = "insert" /\ l[t].op = "insert" /\ l'[t].pc \notin {"idle", "unlink"}  BY <1>2 DEF Unborn, Walk
<1>5. l[t].pc # "idle" /\ l[t].pc # "unlink"  BY <1>4 DEF Named, Idle
<1>6. l'[t].node = l[t].node  BY <1>4 DEF SameOp, Idle
<1> QED  BY <1>1, <1>3, <1>4, <1>5, <1>6, UnbornIs

\* And its erase goes on.
LEMMA QuietErases == ASSUME MarkInv, MarkInv', NEW t \in Threads, Named(t), Named(t)', Onto(t), UNCHANGED Promise!vars,
                            l[t].pc # "restore"
                     PROVE KeepsErasing(t)
<1>1. /\ Sound(l[t]) /\ Sound(l'[t]) /\ l[t].pc \in PCs /\ l'[t].pc \in PCs
      /\ l[t].pc # "crash" /\ l'[t].pc # "crash"
  BY DEF MarkInv, TypeInv, TypeOK, Locals, Named
<1>2. l'[t].op = l[t].op /\ (Effected(t)' <=> Effected(t))
  <2>1. Told'[t] = Told[t]  BY DEF Promise!vars
  <2> PICK b, d, o, p : b = Effected(t) /\ d = Effected(t)' /\ o = l[t].op /\ p = l'[t].op  OBVIOUS
  <2>2. Told[t].op = o /\ Told'[t].op = p /\ Told[t].done = b /\ Told'[t].done = d  BY ToldIs
  <2> QED  BY <2>1, <2>2
<1>3. Taken(l'[t].pc, l'[t].op, l'[t].then) <=> Taken(l[t].pc, l[t].op, l[t].then)  BY <1>2, EffectedIs, EffectedNext
<1> SUFFICES ASSUME Erases(l[t]) PROVE Erases(l'[t]) /\ l'[t].node = l[t].node  BY DEF KeepsErasing
<1>4. l'[t].op = "erase" /\ l[t].op = "erase"  BY <1>2 DEF Erases
<1>5. l[t].pc \notin {"crash", "idle", "publish"} \cup Before  BY DEF Erases, Walk, Before
<1>6. l'[t].pc \notin {"crash", "idle", "publish"} \cup Before
  <2>1. l'[t].pc # "idle"  BY <1>4 DEF Named, Idle
  <2>2. l'[t].pc # "publish"  BY <1>4 DEF Named
  <2> QED  BY <1>1, <2>1, <2>2 DEF Onto
<1>7. l'[t].node = l[t].node  BY <1>4 DEF Onto, SameOp, Idle
<1>8. ~Taken(l[t].pc, l[t].op, l[t].then)  BY <1>1, <1>4, <1>5, ErasesIs
<1> QED  BY <1>1, <1>3, <1>4, <1>6, <1>7, <1>8, ErasesIs
-----------------------------------------------------------------------------
\* The steps that keep every node, and the others.
Calm(t) == \/ Removed(t) \/ Mark(t) \/ Linked(t) \/ Start(t) \/ Peek(t) \/ Hop(t) \/ Hopped(t) \/ Pass(t) \/
              Descend(t) \/ Answer(t) \/ Return(t)
           \/ Place(t) \/ Try(t) \/ Prev(t) \/ NextValid(t) \/ Placed(t) \/ Store(t) \/ Release(t) \/ Count(t) \/ Scan(t) \/ SetTop(t)
           \/ Clear(t) \/ Unmark(t)
NotCalm(t) == Call(t) \/ Retire(t) \/ Restore(t) \/ Unlink(t) \/ Publish(t)

\* The steps that do keep it.
LEMMA StepKeeps == ASSUME TypeOK, Fresh, NEW t \in Threads, Step(t), ~NotCalm(t), NEW n \in Nodes PROVE NodeKept(n)
<1>1. nodes'[n].removed = nodes[n].removed  BY StepRemoved DEF NotCalm
<1>2. PICK F : F = Full'  OBVIOUS
<1>3. F = Full  BY <1>2, StepFull DEF NotCalm
<1>4. nodes'[n].full <=> n \in F  BY <1>2 DEF Full
<1> QED  BY <1>1, <1>3, <1>4 DEF NodeKept, Retired, Full

\* A call begins.
LEMMA CallGone == ASSUME NEW B, NEW g, ListInv(B, g), Gone, NEW t \in Threads, Call(t) PROVE Gone'
<1> DEFINE first == todo[t][1]
<1>1. l[t].pc = "idle" /\ todo[t] # <<>> /\ todo[t] \in Seq(Calls) /\ TypeOK  BY Basics DEF Call, At, TypeOK
<1>2. first \in Calls  BY <1>1
<1>3. first.node \in Nodes  BY <1>2 DEF Calls
<1>4. l[t].op = "none" /\ Others(t)  BY CallDoes
<1>5. KeepsErasing(t)  BY <1>4 DEF KeepsErasing, Erases
<1>6. CASE \E i \in first.tops : CallInsert(t, first.node, i)
  <2>1. PICK i : CallInsert(t, first.node, i)  BY <1>6
  <2> PICK n \in Nodes : n = first.node  BY <1>3
  <2> DEFINE new == [next |-> [j \in Layers |-> None], full |-> FALSE, flag |-> None, removed |-> FALSE, top |-> i, holder |-> t]
             r == [Idle EXCEPT !.op = "insert", !.node = n, !.key = Key[n], !.top = i]
  <2>2. nodes' = [nodes EXCEPT ![n] = new] /\ Goto(t, "start", r)  BY <2>1 DEF CallInsert
  <2>3. new.removed = FALSE /\ [r EXCEPT !.pc = "start"].node = n  BY DEF Idle
  <2> HIDE DEF new, r
  <2>4. nodes'[n].removed = FALSE /\ \A m \in Nodes : m # n => nodes'[m] = nodes[m]  BY <1>1, <2>2, <2>3 DEF TypeOK, Links
  <2>5. l'[t].node = n  BY <1>1, <2>2, <2>3 DEF Goto, TypeOK
  <2>6. ASSUME NEW m \in Nodes, nodes'[m].removed
        PROVE \/ \E u \in Threads : Erases(l'[u]) /\ l'[u].node = m
              \/ ~nodes'[m].full /\ \A v \in Threads : Unborn(l'[v]) => l'[v].node # m
    <3>1. m # n /\ nodes'[m] = nodes[m]  BY <2>4, <2>6
    <3>2. CASE \E u \in Threads : Erases(l[u]) /\ l[u].node = m
      <4>1. PICK u \in Threads : Erases(l[u]) /\ l[u].node = m  BY <3>2
      <4>2. u # t  BY <1>4, <4>1 DEF Erases
      <4>3. Erases(l'[u]) /\ l'[u].node = m  BY <1>4, <4>1, <4>2 DEF Others
      <4> QED  BY <4>3
    <3>3. CASE ~nodes[m].full /\ \A v \in Threads : Unborn(l[v]) => l[v].node # m
      <4>1. ASSUME NEW v \in Threads, Unborn(l'[v]) PROVE l'[v].node # m  BY <1>4, <2>5, <3>1, <3>3, <4>1 DEF Others
      <4> QED  BY <3>1, <3>3, <4>1
    <3> QED  BY <2>6, <3>1, <3>2, <3>3 DEF Gone
  <2> QED  BY <2>6 DEF Gone
<1>7. CASE CallErase(t, first.node) \/ CallFind(t, Key[first.node])
  <2>1. nodes' = nodes  BY <1>7 DEF CallErase, CallFind
  <2>2. PICK n, k, i : \/ Goto(t, "removed", [Idle EXCEPT !.op = "erase", !.node = n, !.key = k, !.top = i])
                       \/ Goto(t, "start", [Idle EXCEPT !.op = "find", !.key = k])
    BY <1>7 DEF CallErase, CallFind
  <2>3. /\ [[Idle EXCEPT !.op = "erase", !.node = n, !.key = k, !.top = i] EXCEPT !.pc = "removed"].op = "erase"
        /\ [[Idle EXCEPT !.op = "find", !.key = k] EXCEPT !.pc = "start"].op = "find"
    BY DEF Idle
  <2>4. l'[t].op \in {"erase", "find"}
    <3>1. \A p \in {"removed", "start"} : \A r : Goto(t, p, r) => l'[t] = [r EXCEPT !.pc = p]
      BY <1>1 DEF Goto, TypeOK
    <3> QED  BY <2>2, <2>3, <3>1
  <2> QED  BY <1>4, <1>5, <2>1, <2>4, GoneFrame DEF NodeKept, Retired, NoBirth, Unborn
<1> QED  BY <1>6, <1>7 DEF Call

\* The steps that change the flag or the node's being linked.
LEMMA RetireGone == ASSUME NEW B, NEW g, ListInv(B, g), Gone, NEW t \in Threads, Retire(t) \/ Restore(t) PROVE Gone'
<1>1. TypeOK /\ l[t].op = "erase" /\ l[t].pc \in {"retire", "restore"} /\ l[t] \in Locals /\ l[t].node \in Nodes
  BY Basics DEF Retire, Restore, At, Sound
<1> PICK n \in Nodes : n = l[t].node  BY <1>1
<1>2. PICK v \in BOOLEAN : /\ Put(n, "removed", v)
                           /\ v => Goto(t, "linked", l[t])
                           /\ ~v => Goto(t, "unmark", l[t])
  BY DEF Retire, Restore
<1>3. (nodes'[n].removed <=> v) /\ \A m \in Nodes : nodes'[m].full = nodes[m].full /\
      (m # n => nodes'[m].removed = nodes[m].removed)
  BY <1>1, <1>2 DEF Put, TypeOK, NodeRec, Links
<1>4. SameOp(t) /\ l'[t].pc \in {"linked", "unmark"} /\ (v => l'[t].pc = "linked")  BY <1>1, <1>2, GoAt
<1>5. l'[t].op = "erase" /\ l'[t].node = n /\ Others(t)
  <2>1. Idle.pc = "idle"  BY DEF Idle
  <2> QED  BY <1>1, <1>4, <2>1 DEF SameOp
<1>6. NoBirth(t)  BY <1>5 DEF NoBirth, Unborn
<1>7. ASSUME NEW m \in Nodes, nodes'[m].removed
      PROVE \/ \E u \in Threads : Erases(l'[u]) /\ l'[u].node = m
            \/ ~nodes'[m].full /\ \A u \in Threads : Unborn(l'[u]) => l'[u].node # m
  <2>1. CASE m = n
    <3>1. Erases(l'[t])  BY <1>3, <1>4, <1>5, <1>7, <2>1 DEF Erases
    <3> QED  BY <1>5, <2>1, <3>1
  <2>2. CASE m # n
    <3>1. NodeKept(m)  BY <1>3, <2>2 DEF NodeKept, Retired
    <3> QED  BY <1>5, <1>6, <1>7, <2>2, <3>1, GoneOne
  <2> QED  BY <2>1, <2>2
<1> QED  BY <1>7 DEF Gone

LEMMA UnlinkGone == ASSUME NEW B, NEW g, ListInv(B, g), Gone, NEW t \in Threads, Unlink(t) PROVE Gone'
<1>1. /\ TypeOK /\ l[t].op = "erase" /\ l[t].pc = "unlink" /\ l[t].node \in Nodes /\ nodes[l[t].node].full
      /\ \A v \in Threads : Unborn(l[v]) => ~nodes[l[v].node].full
  BY Basics DEF Unlink, At, Sound, Good, Named, Erasing, Making
<1> PICK n \in Nodes : n = l[t].node  BY <1>1
<1>2. Put(n, "full", FALSE) /\ Goto(t, "store", l[t])  BY DEF Unlink
<1>3. ~nodes'[n].full /\ \A m \in Nodes : nodes'[m].removed = nodes[m].removed /\ (m # n => nodes'[m].full = nodes[m].full)
  BY <1>1, <1>2 DEF Put, TypeOK, NodeRec, Links
<1>4. SameOp(t) /\ l'[t].pc = "store"  BY <1>1, <1>2, GoAt
<1>5. l'[t].op = "erase" /\ l'[t].node = n /\ Others(t)
  <2>1. Idle.pc = "idle"  BY DEF Idle
  <2> QED  BY <1>1, <1>4, <2>1 DEF SameOp
<1>6. NoBirth(t)  BY <1>5 DEF NoBirth, Unborn
<1>7. ASSUME NEW m \in Nodes, nodes'[m].removed
      PROVE \/ \E u \in Threads : Erases(l'[u]) /\ l'[u].node = m
            \/ ~nodes'[m].full /\ \A u \in Threads : Unborn(l'[u]) => l'[u].node # m
  <2>1. CASE m = n
    <3>1. ASSUME NEW u \in Threads, Unborn(l'[u]) PROVE l'[u].node # m  BY <1>1, <1>5, <1>6, <2>1, <3>1 DEF Others, NoBirth
    <3> QED  BY <1>3, <2>1, <3>1
  <2>2. CASE m # n
    <3>1. NodeKept(m)  BY <1>3, <2>2 DEF NodeKept, Retired
    <3> QED  BY <1>5, <1>6, <1>7, <2>2, <3>1, GoneOne
  <2> QED  BY <2>1, <2>2
<1> QED  BY <1>7 DEF Gone

LEMMA PublishGone == ASSUME NEW B, NEW g, ListInv(B, g), Gone, NEW t \in Threads, Publish(t) PROVE Gone'
<1>1. TypeOK /\ l[t].op = "insert" /\ l[t].pc = "publish" /\ l[t].node \in Nodes  BY Basics DEF Publish, At, Sound, Good, Named
<1> PICK n \in Nodes : n = l[t].node  BY <1>1
<1>2. Put(n, "full", TRUE) /\ Goto(t, "release", l[t])  BY DEF Publish
<1>3. \A m \in Nodes : nodes'[m].removed = nodes[m].removed /\ (m # n => nodes'[m].full = nodes[m].full)
  BY ZenonT(40), <1>1, <1>2 DEF Put, TypeOK, NodeRec, Links
<1>4. Others(t) /\ l'[t].pc = "release"  BY <1>1, <1>2, GoAt DEF SameOp
<1>5. NoBirth(t) /\ KeepsErasing(t)  BY <1>1, <1>4 DEF NoBirth, Unborn, KeepsErasing, Erases, Walk
<1>6. ASSUME NEW m \in Nodes, nodes'[m].removed
      PROVE \/ \E u \in Threads : Erases(l'[u]) /\ l'[u].node = m
            \/ ~nodes'[m].full /\ \A u \in Threads : Unborn(l'[u]) => l'[u].node # m
  <2>1. CASE m = n
    <3>1. Unborn(l[t])  BY <1>1 DEF Unborn
    <3>2. PICK u \in Threads : Erases(l[u]) /\ l[u].node = m  BY <1>3, <1>6, <2>1, <3>1 DEF Gone
    <3>3. u # t  BY <1>1, <3>2 DEF Erases
    <3> QED  BY <1>4, <3>2, <3>3 DEF Others
  <2>2. CASE m # n
    <3>1. NodeKept(m)  BY <1>3, <2>2 DEF NodeKept, Retired
    <3> QED  BY <1>4, <1>5, <1>6, <3>1, GoneOne
  <2> QED  BY <2>1, <2>2
<1> QED  BY <1>6 DEF Gone

\* An erase before its search, and a find that answers.
LEMMA BeforeGone == ASSUME NEW B, NEW g, ListInv(B, g), Gone, Fresh, NEW t \in Threads,
                           Removed(t) \/ Mark(t) \/ Linked(t) \/ Answer(t)
  PROVE  Gone'
<1>1. TypeOK /\ TypeInv /\ Sound(l[t]) /\ l[t].op # "insert"
  BY Basics DEF Removed, Mark, Linked, Answer, At, Sound
<1>2. Step(t) /\ ~NotCalm(t)
  <2>1. Step(t)  BY DEF Step
  <2>2. l[t].pc \in {"removed", "mark", "linked", "look"}  BY DEF Removed, Mark, Linked, Answer, First, Answers, At
  <2> QED  BY <2>1, <2>2 DEF NotCalm, Call, Retire, Restore, Unlink, Publish, At
<1>3. SameOp(t)
  <2>1. ~Call(t)  BY <1>2 DEF NotCalm
  <2> QED  BY <1>1, <1>2, <2>1, StepSame
<1>4. NoBirth(t)  BY <1>1, <1>3 DEF SameOp, NoBirth, Unborn, Idle
<1>5. KeepsErasing(t)
  <2>1. CASE Removed(t) \/ Mark(t) \/ Answer(t)
    <3>1. l[t].pc \in Before \/ l[t].op = "find"  BY <2>1 DEF Removed, Mark, Answer, At, Before
    <3> QED  BY <3>1 DEF KeepsErasing, Erases, Before, Walk
  <2>2. CASE Linked(t)
    <3>1. l'[t].pc \in {"start", "restore"}  BY <1>1, <2>2, GoAt DEF Linked
    <3>2. l[t].op = "erase" /\ Idle.pc = "idle"  BY <1>1, <2>2 DEF Linked, At, Sound, Idle
    <3> QED  BY <1>3, <3>1, <3>2 DEF SameOp, KeepsErasing, Erases
  <2> QED  BY <2>1, <2>2
<1> QED  BY <1>1, <1>2, <1>3, <1>4, <1>5, StepKeeps, GoneFrame DEF SameOp
-----------------------------------------------------------------------------
\* Steps that tell nothing, and steps that may end a call.
Searching(t) == \/ Start(t) \/ Peek(t) \/ Hop(t) \/ Hopped(t) \/ Pass(t) \/ Descend(t) \/ Place(t) \/ Try(t) \/
                   Prev(t) \/ NextValid(t) \/ Placed(t)
                \/ Store(t) \/ Release(t) \/ Count(t)
Ending(t) == Scan(t) \/ SetTop(t) \/ Clear(t) \/ Unmark(t) \/ Return(t)

\* They are among the calm ones.
LEMMA SearchingCalm == ASSUME NEW t \in Threads, Searching(t) \/ Ending(t)
                       PROVE /\ Step(t) /\ ~NotCalm(t) /\ ~Call(t) /\ ~Removed(t) /\ ~Mark(t)
                             /\ l[t].pc \notin {"restore", "idle"}
<1>1. Step(t)  BY SMTT(40) DEF Step, Searching, Ending
<1>2. l[t].pc \in Walk \cup {"start", "store", "release", "count", "scan", "top", "clear", "unmark", "answer"}
  BY Zenon DEF Searching, Ending, Start, Peek, Hop, Hopped, Pass, Descend, Place, Try, Prev, NextValid,
     Placed, Store, Release, Count,
         Scan, SetTop, Clear, Unmark, Return, First, Answers, At, Walk
<1> QED  BY Zenon, <1>1, <1>2 DEF NotCalm, Call, Retire, Restore, Unlink, Publish, Removed, Mark, At, Walk

\* They tell nothing.
LEMMA SearchingQuiet == ASSUME TypeInv, NEW t \in Threads, Searching(t) PROVE UNCHANGED Promise!vars
BY SearchQuiet, MarkedQuiet, StoreQuiet, LateQuiet DEF Searching

\* They keep Gone.
LEMMA CalmGone == ASSUME NEW B, NEW g, ListInv(B, g), Gone, Fresh, NEW A, NEW h, ListInv(A, h)', NEW t \in Threads,
                         Searching(t) \/ Ending(t),
                         UNCHANGED Promise!vars
                  PROVE Gone'
<1>1. TypeInv /\ TypeOK /\ MarkInv /\ MarkInv' /\ Named(t) /\ Named(t)'  BY DEF ListInv, Good, MarkInv, TypeInv
<1>2. Onto(t)  BY <1>1, SearchingCalm, StepOnto
<1>3. KeepsErasing(t)  BY <1>1, <1>2, SearchingCalm, QuietErases
<1>4. NoBirth(t)  BY <1>1, <1>2, QuietKeeps DEF Onto
<1>5. \A n \in Nodes : NodeKept(n)  BY <1>1, SearchingCalm, StepKeeps
<1> QED  BY <1>2, <1>3, <1>4, <1>5, GoneFrame DEF Onto, SameOp

\* So does the end of a call.
LEMMA IdleGone == ASSUME NEW B, NEW g, ListInv(B, g), Gone, Fresh, NEW t \in Threads, Ending(t), l'[t] = Idle
  PROVE  Gone'
<1>1. TypeOK /\ TypeInv /\ l[t] \in Locals  BY Basics
<1>2. ~Erases(l[t])
  <2>1. CASE Clear(t)
    <3>1. Goto(t, "clear", [l[t] EXCEPT !.layer = @ + 1]) \/ Goto(t, l[t].then, l[t])  BY <2>1 DEF Clear
    <3>2. [l[t] EXCEPT !.pc = "linked"].pc = "linked" /\
          [[l[t] EXCEPT !.layer = @ + 1] EXCEPT !.pc = "clear"].pc = "clear" /\ Idle.pc = "idle"
      BY <1>1 DEF Locals, Idle
    <3>3. l[t].then # "linked"  BY <1>1, <3>1, <3>2 DEF Goto, TypeOK
    <3> QED  BY <2>1, <3>3 DEF Erases, Clear, At, Walk
  <2>2. CASE Scan(t) \/ SetTop(t) \/ Unmark(t) \/ Return(t)
    <3>1. l[t].pc \in {"scan", "top", "unmark", "answer"}  BY <2>2 DEF Scan, SetTop, Unmark, Return, At
    <3> QED  BY <3>1 DEF Erases, Walk
  <2> QED  BY <2>1, <2>2 DEF Ending
<1>3. KeepsErasing(t) /\ NoBirth(t)  BY <1>2 DEF KeepsErasing, NoBirth, Unborn, Idle
<1>4. \A n \in Nodes : NodeKept(n)  BY <1>1, SearchingCalm, StepKeeps
<1>5. SameOp(t)  BY <1>1, SearchingCalm, StepSame
<1> QED  BY <1>3, <1>4, <1>5, GoneFrame DEF SameOp

\* The end of a call is one of the promise.
LEMMA EndingTells == ASSUME NEW B, NEW g, ListInv(B, g), NEW t \in Threads, Blind(t), Ending(t) PROVE Tells(t)
<1>1. TypeInv /\ Named(t)  BY Basics DEF Good
<1> QED  BY <1>1, EndTells, ClearTells, ReturnTells DEF Ending

\* Every step keeps Gone.
LEMMA StepGone == ASSUME NEW B, NEW g, ListInv(B, g), Gone, Fresh, NEW A, NEW h, ListInv(A, h)', NEW t \in Threads,
                         Blind(t), Step(t)
                  PROVE Gone'
<1>1. CASE Call(t) \/ Retire(t) \/ Restore(t) \/ Unlink(t) \/ Publish(t)  BY <1>1, CallGone, RetireGone, UnlinkGone, PublishGone
<1>2. CASE Removed(t) \/ Mark(t) \/ Linked(t) \/ Answer(t)  BY <1>2, BeforeGone
<1>3. CASE Searching(t)
  <2>1. UNCHANGED Promise!vars  BY <1>3, Basics, SearchingQuiet
  <2> QED  BY <1>3, <2>1, CalmGone
<1>4. CASE Ending(t)
  <2>1. UNCHANGED Promise!vars \/ l'[t] = Idle  BY <1>4, EndingTells DEF Tells
  <2> QED  BY <1>4, <2>1, CalmGone, IdleGone
<1> QED  BY <1>1, <1>2, <1>3, <1>4 DEF Step, Searching, Ending

LEMMA StutterGone == ASSUME Gone, UNCHANGED vars PROVE Gone'
<1>1. nodes' = nodes /\ l' = l  BY DEF vars
<1> QED  BY <1>1 DEF Gone
-----------------------------------------------------------------------------
\* An erase or insert at its moment.
LEMMA FromEffect == ASSUME NEW t \in Threads, NEW S, NEW op \in {"insert", "erase"}, Promise!Effect(t, op, S),
                           op = "insert" => S = Full \cup {l[t].node}, op = "erase" => S = Full \ {l[t].node}
                    PROVE Promise!Next
<1>1. Told[t].node = l[t].node  BY ToldIs
<1>2. CASE op = "insert"
  <2>1. Promise!Insert(t)  BY <1>1, <1>2 DEF Promise!Insert
  <2> QED  BY <2>1 DEF Promise!Next
<1>3. CASE op = "erase"
  <2>1. Promise!Erase(t)  BY <1>1, <1>3 DEF Promise!Erase
  <2> QED  BY <2>1 DEF Promise!Next
<1> QED  BY <1>2, <1>3

\* The step of the promise.
LEMMA EffectTells ==
  ASSUME TypeOK, NEW t \in Threads, NEW p \in PCs \ {"idle"}, Goto(t, p, l[t]), NEW op \in {"insert", "erase"}, l[t].op = op,
         ~Taken(l[t].pc, l[t].op, l[t].then), Taken(p, l[t].op, l[t].then), NEW S, S = Full', seen'[t] = seen[t],
         \A u \in Threads : u # t => /\ l[u].op = "find" => seen'[u] = [met |-> seen[u].met \cup S, kept |-> seen[u].kept \cap S]
                                     /\ l[u].op # "find" => seen'[u] = seen[u],
         op = "insert" => S = Full \cup {l[t].node}, op = "erase" => S = Full \ {l[t].node}
  PROVE Promise!Next
<1>1. As(t, l[t]) /\ l[t] \in Locals  BY AsHere DEF TypeOK
<1>2. Stands(t, p, l[t]) /\ Others(t)  BY <1>1, Moves
<1>3. SameTold(t)  BY <1>1, <1>2 DEF Stands, As, SameTold
<1>4. ~Effected(t) /\ Effected(t)'  BY <1>2, EffectedIs, EffectedNext DEF Stands
<1>5. Promise!Effect(t, op, S)  BY <1>2, <1>3, <1>4, TellEffect
<1> QED  BY <1>5, FromEffect

\* Observe shows every open find the set.
LEMMA ObserveIs == ASSUME Observe, NEW S, S = Full'
  PROVE \A u \in Threads : /\ l[u].op = "find" => seen'[u] = [met |-> seen[u].met \cup S, kept |-> seen[u].kept \cap S]
                           /\ l[u].op # "find" => seen'[u] = seen[u]
<1>1. seen' = [u \in Threads |-> IF l[u].op = "find" THEN [met |-> seen[u].met \cup S, kept |-> seen[u].kept \cap S] ELSE seen[u]]
  BY DEF Observe
<1> QED  BY <1>1

\* An erase takes effect in Unlink, an insert in Publish.
LEMMA UnlinkTells == ASSUME NEW B, NEW g, ListInv(B, g), NEW t \in Threads, Unlink(t) PROVE Promise!Next
<1>1. TypeOK /\ l[t].op = "erase" /\ l[t].pc = "unlink" /\ l[t].node \in Nodes
  BY Basics DEF Unlink, At, Sound, Good, Named
<1>2. Put(l[t].node, "full", FALSE) /\ Goto(t, "store", l[t]) /\ Observe  BY DEF Unlink
<1>3. \A m \in Nodes : nodes'[m].full <=> (m # l[t].node /\ nodes[m].full)  BY <1>1, <1>2 DEF Put, TypeOK, NodeRec, Links
<1> PICK S : S = Full'  OBVIOUS
<1>4. S = Full \ {l[t].node}
  <2>1. S = {m \in Nodes : nodes'[m].full}  BY DEF Full
  <2> QED  BY <1>3, <2>1 DEF Full
<1>5. ~Taken(l[t].pc, l[t].op, l[t].then) /\ Taken("store", l[t].op, l[t].then) /\ "store" \in PCs \ {"idle"}
  BY <1>1 DEF Taken, PCs
<1>6. seen'[t] = seen[t]  BY <1>1, <1>2, ObserveOwn
<1>7. \A u \in Threads : /\ l[u].op = "find" => seen'[u] = [met |-> seen[u].met \cup S, kept |-> seen[u].kept \cap S]
                         /\ l[u].op # "find" => seen'[u] = seen[u]
  BY <1>2, ObserveIs
<1> QED  BY <1>1, <1>2, <1>4, <1>5, <1>6, <1>7, EffectTells

LEMMA PublishTells == ASSUME NEW B, NEW g, ListInv(B, g), NEW t \in Threads, Publish(t) PROVE Promise!Next
<1>1. TypeOK /\ l[t].op = "insert" /\ l[t].pc = "publish" /\ l[t].node \in Nodes
  BY Basics DEF Publish, At, Sound, Good, Named
<1>2. Put(l[t].node, "full", TRUE) /\ Goto(t, "release", l[t]) /\ Observe  BY DEF Publish
<1>3. \A m \in Nodes : nodes'[m].full <=> (m = l[t].node \/ nodes[m].full)  BY <1>1, <1>2 DEF Put, TypeOK, NodeRec, Links
<1> PICK S : S = Full'  OBVIOUS
<1>4. S = Full \cup {l[t].node}
  <2>1. S = {m \in Nodes : nodes'[m].full}  BY DEF Full
  <2> QED  BY <1>1, <1>3, <2>1 DEF Full
<1>5. ~Taken(l[t].pc, l[t].op, l[t].then) /\ Taken("release", l[t].op, l[t].then) /\ "release" \in PCs \ {"idle"}
  BY <1>1 DEF Taken, PCs
<1>6. seen'[t] = seen[t]  BY <1>1, <1>2, ObserveOwn
<1>7. \A u \in Threads : /\ l[u].op = "find" => seen'[u] = [met |-> seen[u].met \cup S, kept |-> seen[u].kept \cap S]
                         /\ l[u].op # "find" => seen'[u] = seen[u]
  BY <1>2, ObserveIs
<1> QED  BY <1>1, <1>2, <1>4, <1>5, <1>6, <1>7, EffectTells

\* An erase that finds its node not linked has nothing to take away.
LEMMA LinkedTells == ASSUME TypeInv, NEW t \in Threads, \A u \in Threads : Aware(u), Linked(t), ~nodes[l[t].node].full
  PROVE  Promise!Next
<1>1. TypeOK /\ l[t].op = "erase" /\ l[t].pc = "linked" /\ Goto(t, "restore", l[t])
  BY DEF TypeInv, Linked, At, Sound, IsLinked
<1>2. seen' = seen /\ nodes' = nodes  BY DEF Linked, Shared, Fixed
<1> PICK S : S = Full'  OBVIOUS
<1>3. S = Full /\ S = Full \ {l[t].node}  BY <1>2 DEF Full
<1>4. ~Taken(l[t].pc, l[t].op, l[t].then) /\ Taken("restore", l[t].op, l[t].then) /\ "restore" \in PCs \ {"idle"}
  BY <1>1 DEF Taken, PCs
<1>5. ASSUME NEW u \in Threads, l[u].op = "find" PROVE seen'[u] = [met |-> seen[u].met \cup S, kept |-> seen[u].kept \cap S]
  <2>1. seen[u].met \cup S = seen[u].met /\ seen[u].kept \cap S = seen[u].kept  BY <1>3, <1>5 DEF Aware
  <2>2. seen[u] \in Sights  BY <1>1 DEF TypeOK
  <2>3. seen[u] = [met |-> seen[u].met, kept |-> seen[u].kept]  BY <2>2 DEF Sights
  <2> QED  BY <1>2, <2>1, <2>3
<1> QED  BY SMTT(40), <1>1, <1>2, <1>3, <1>4, <1>5, EffectTells

\* An erase that finds its node removed leaves it to the other one.
LEMMA RefuseTells == ASSUME TypeInv, Gone, NEW t \in Threads, Blind(t), Removed(t), nodes[l[t].node].removed
  PROVE  Promise!Next
<1>1. TypeOK /\ l[t].op = "erase" /\ l[t].pc = "removed" /\ l[t].node \in Nodes /\ Goto(t, "idle", l[t])
  BY DEF TypeInv, Removed, At, Sound
<1>2. seen' = seen /\ Full' = Full  BY SameStill, FullStill DEF Removed, Shared, Fixed
<1>3. l'[t] = Idle /\ Others(t)  BY <1>1, MovesIdle
<1>4. seen'[t] = Unseen /\ OthersSeen(t)  BY <1>1, <1>2, SeenOthers DEF Blind
<1>5. ~Effected(t)  BY <1>1, EffectedIs DEF Taken
<1>6. l[t].node \notin Full \/ \E u \in Threads \ {t} : l[u].op = "erase" /\ l[u].node = l[t].node
  <2>1. CASE \E u \in Threads : Erases(l[u]) /\ l[u].node = l[t].node
    <3>1. PICK u \in Threads : Erases(l[u]) /\ l[u].node = l[t].node  BY <2>1
    <3>2. u # t  BY <1>1, <3>1 DEF Erases, Walk
    <3> QED  BY <3>1, <3>2 DEF Erases
  <2>2. CASE ~nodes[l[t].node].full  BY <2>2 DEF Full
  <2> QED  BY <1>1, <2>1, <2>2 DEF Gone
<1> QED  BY <1>1, <1>2, <1>3, <1>4, <1>5, <1>6, TellRefuse
-----------------------------------------------------------------------------
\* What a find may answer, when it has got to the place of its key.
LEMMA AnswerMay == ASSUME NEW B, NEW g, ListInv(B, g), NEW t \in Threads, Watch(g, t), Answer(t),
                          NEW n, n = IF l[t].cur = head THEN None ELSE l[t].cur
                   PROVE n \in Nodes \cup {None} /\ Promise!MayAnswer(n, l[t].key, seen[t].met, seen[t].kept)
<1>1. First(t) /\ ~Onward(t) /\ l[t].op = "find" /\ l[t].layer = 0  BY DEF Answer
<1>2. l[t].pc = "look" /\ l[t].pc \in Walk  BY <1>1, FirstBasics
<1>3. /\ Order(B, g) /\ B \subseteq Nodes /\ l[t].cur \in Links /\ l[t].cur # tail /\ Fit(B, l[t].layer, l[t].cur) /\
         l[t].key \in Int
      /\ Past(l[t].key, l[t].cur)
  BY <1>1, <1>2, WalkBasics, Basics DEF Good, Standing, Locals
<1>4. l[t].next \in Links /\ l[t].next # head /\ Fit(B, l[t].layer, l[t].next) /\ ~Past(l[t].key, l[t].next)
  BY <1>1, <1>2, NextBasics DEF Onward
<1> PICK c, d, k : c = l[t].cur /\ d = l[t].next /\ k = l[t].key  OBVIOUS
<1>5. c # head => c \in Nodes /\ c \in B /\ Key[c] \in Int /\ Key[c] < k /\ c \in seen[t].met /\ n = c
  <2> SUFFICES ASSUME c # head PROVE c \in Nodes /\ c \in B /\ Key[c] \in Int /\ Key[c] < k /\ c \in seen[t].met /\
        n = c  OBVIOUS
  <2>1. c \in Nodes /\ c \in B  BY <1>3 DEF Links, Fit
  <2>2. Key[c] \in Int  BY <2>1, Strangers
  <2>3. c \in seen[t].met  BY <1>1, <1>2 DEF Watch, Stood
  <2> QED  BY <1>3, <2>1, <2>2, <2>3 DEF Past
<1>6. c = head => n = None  OBVIOUS
<1>7. None \notin Nodes  BY ListAssumption DEF Links
<1>8. ASSUME NEW m \in seen[t].kept, Key[m] < k PROVE n # None /\ Key[m] <= Key[n]
  <2>1. m \in B /\ m \in Nodes /\ m \in Ground(B) /\ Key[m] \in Int
    <3>1. m \in Full  BY <1>1 DEF Watch, Aware
    <3> QED  BY <3>1, FullGround, FullBorn, Strangers
  <2>2. c \in Ground(B)  BY <1>3, FitGround
  <2>3. CASE m = c  BY <1>5, <1>7, <2>1, <2>3, Strangers
  <2>4. CASE Bef(g, m, c)
    <3>1. c # head  BY <2>4 DEF Bef
    <3> QED  BY <1>3, <1>5, <1>7, <2>1, <2>4, <3>1, BefKey
  <2>5. CASE Bef(g, c, m)
    <3>1. m = d \/ Bef(g, d, m)  BY <1>1, <1>2, <2>5 DEF Watch, Between
    <3>2. d \in B /\ d \in Nodes /\ ~(k > Key[d]) /\ Key[d] \in Int
      <4>1. d # tail  BY <2>1, <3>1, Strangers DEF Bef
      <4>2. d \in Nodes  BY <1>4, <4>1 DEF Links
      <4> QED  BY <1>4, <4>2, Strangers DEF Fit, Past
    <3>3. Key[d] <= Key[m]  BY <1>3, <2>1, <3>1, <3>2, BefKey
    <3> QED  BY <1>3, <1>8, <2>1, <3>2, <3>3
  <2> QED  BY <1>3, <2>1, <2>2, <2>3, <2>4, <2>5, BefTotal
<1>9. n # None => n \in seen[t].met /\ Key[n] < k  BY <1>5, <1>6
<1> QED  BY <1>5, <1>6, <1>8, <1>9 DEF Promise!MayAnswer

\* A find answers with a node that the promise allows.
LEMMA AnswerTells == ASSUME NEW B, NEW g, ListInv(B, g), NEW t \in Threads, Watch(g, t), Answer(t) PROVE Promise!Next
<1>1. TypeOK /\ l[t] \in Locals /\ l[t].op = "find" /\ l[t].pc = "look"  BY Basics, FirstBasics DEF Answer
<1> PICK n : n = IF l[t].cur = head THEN None ELSE l[t].cur  OBVIOUS
<1>2. n \in Nodes \cup {None} /\ Promise!MayAnswer(n, l[t].key, seen[t].met, seen[t].kept)  BY AnswerMay
<1> DEFINE r == [l[t] EXCEPT !.answer = n]
<1>3. r \in Locals /\ r.op = l[t].op /\ r.node = l[t].node /\ r.key = l[t].key /\ r.answer = n
  BY <1>1, <1>2, SetAnswer DEF Locals, Links
<1>4. Goto(t, "answer", r) /\ UNCHANGED Fixed  BY DEF Answer
<1> HIDE DEF r
<1>5. Stands(t, "answer", r) /\ Others(t)  BY <1>1, <1>3, <1>4, Moves DEF PCs
<1>6. l'[t].op = l[t].op /\ l'[t].node = l[t].node /\ l'[t].key = l[t].key /\ l'[t].pc = "answer" /\ l'[t].answer = n
  BY <1>3, <1>5 DEF Stands
<1>7. seen' = seen /\ Full' = Full  BY <1>4, MuteFixed DEF Mute
<1>8. ~Effected(t)  BY <1>1, EffectedIs DEF Taken
<1> QED  BY <1>1, <1>2, <1>5, <1>6, <1>7, <1>8, TellAnswer

-----------------------------------------------------------------------------
\* The record of a call that begins.
LEMMA WithCall == ASSUME NEW o, NEW n, NEW k, NEW o0, NEW n0, NEW k0, NEW a, NEW m, NEW e, NEW d, NEW r, Says(r, o0, n0,
                         k0, a, m, e, d)
                  PROVE Says([r EXCEPT !.op = o, !.node = n, !.key = k], o, n, k, a, m, e, d)
<1> DEFINE T == {o, n, k, o0, n0, k0, a, m, e, d}
           R == [op : T, node : T, key : T, answer : T, met : T, kept : T, done : T]
<1>1. PICK s : s = [op |-> o, node |-> n, key |-> k, answer |-> a, met |-> m, kept |-> e, done |-> d]  OBVIOUS
<1>2. s \in R /\ r \in R  BY <1>1 DEF Says
<1>3. s.op = o /\ s.node = n /\ s.key = k /\ s.answer = a /\ s.met = m /\ s.kept = e /\ s.done = d  BY <1>1
<1>4. r.op = o0 /\ r.node = n0 /\ r.key = k0 /\ r.answer = a /\ r.met = m /\ r.kept = e /\ r.done = d  BY DEF Says
<1>5. [r EXCEPT !.op = o, !.node = n, !.key = k] = s  BY <1>2, <1>3, <1>4
<1> QED  BY <1>1, <1>5 DEF Says

LEMMA WithFind == ASSUME NEW o, NEW n, NEW k, NEW x, NEW y, NEW o0, NEW k0, NEW a, NEW m, NEW e, NEW d, NEW r, Says(r,
                         o0, n, k0, a, m, e, d)
                  PROVE Says([r EXCEPT !.op = o, !.key = k, !.met = x, !.kept = y], o, n, k, a, x, y, d)
<1> DEFINE T == {o, n, k, o0, k0, a, m, e, d, x, y}
           R == [op : T, node : T, key : T, answer : T, met : T, kept : T, done : T]
<1>1. PICK s : s = [op |-> o, node |-> n, key |-> k, answer |-> a, met |-> x, kept |-> y, done |-> d]  OBVIOUS
<1>2. s \in R /\ r \in R  BY <1>1 DEF Says
<1>3. s.op = o /\ s.node = n /\ s.key = k /\ s.answer = a /\ s.met = x /\ s.kept = y /\ s.done = d  BY <1>1
<1>4. r.op = o0 /\ r.node = n /\ r.key = k0 /\ r.answer = a /\ r.met = m /\ r.kept = e /\ r.done = d  BY DEF Says
<1>5. [r EXCEPT !.op = o, !.key = k, !.met = x, !.kept = y] = s  BY ZenonT(40), <1>2, <1>3, <1>4
<1> QED  BY <1>1, <1>5 DEF Says

\* A call begins.
LEMMA CallTells == ASSUME NEW B, NEW g, ListInv(B, g), Fresh, NEW t \in Threads, Call(t), Blind(t) PROVE Promise!Next
<1>1. TypeOK /\ l[t] = Idle /\ l[t].op = "none" /\ l[t].pc = "idle" /\ Others(t)  BY Basics, CallDoes
<1>2. Full' = Full /\ OthersSeen(t)
  <2>1. Step(t) /\ ~Publish(t) /\ ~Unlink(t)  BY <1>1 DEF Step, Publish, Unlink, At
  <2> QED  BY <1>1, <2>1, CallFull, StepSeen
<1>3. Told[t].op = "none" /\ \A u \in Threads : u # t => Told'[u] = Told[u]  BY <1>1, <1>2, TellOthers, ToldIs
<1>4. PICK b : b = FALSE  OBVIOUS
<1> PICK i : i = Promise!Idle  OBVIOUS
<1>5. Says(i, "none", None, 0, None, {}, {}, b)  BY <1>4 DEF Says, Promise!Idle
<1>6. CASE /\ seen' = seen /\ l'[t].op \in {"insert", "erase"} /\ l'[t].node \in Nodes /\ l'[t].key = Key[l'[t].node]
           /\ l'[t].answer = None /\ l'[t].pc \in {"start", "removed"}
  <2>1. PICK o, n, k : o = l'[t].op /\ n = l'[t].node /\ k = Key[n]  OBVIOUS
  <2>2. Effected(t)' = FALSE  BY <1>6 DEF Effected, At
  <2>3. seen'[t].met = {} /\ seen'[t].kept = {}  BY <1>1, <1>6 DEF Blind, Unseen
  <2>4. Says(Told'[t], o, n, k, None, {}, {}, b)  BY <1>4, <1>6, <2>1, <2>2, <2>3, ToldIs DEF Says
  <2>5. Says([i EXCEPT !.op = o, !.node = n, !.key = k], o, n, k, None, {}, {}, b)  BY <1>5, WithCall
  <2>6. Told'[t] = [i EXCEPT !.op = o, !.node = n, !.key = k]  BY <2>4, <2>5 DEF Says
  <2>7. Told' = [Told EXCEPT ![t] = [i EXCEPT !.op = o, !.node = n, !.key = k]]  BY <1>3, <2>6, ToldIs
  <2>8. n \in Nodes /\ o \in {"insert", "erase"}  BY <1>6, <2>1
  <2>9. Promise!Call(t)  BY <1>2, <1>3, <2>1, <2>7, <2>8 DEF Promise!Call
  <2> QED  BY <2>9 DEF Promise!Next
<1>7. CASE /\ seen' = [seen EXCEPT ![t] = [met |-> Full, kept |-> Full]] /\ l'[t].op = "find" /\ l'[t].node = None
           /\ (\E n \in Nodes : l'[t].key = Key[n]) /\ l'[t].answer = None /\ l'[t].pc = "start"
  <2>1. PICK k : k = l'[t].key  OBVIOUS
  <2>2. Effected(t)' = FALSE  BY <1>7 DEF Effected, At
  <2>3. seen'[t].met = Full /\ seen'[t].kept = Full  BY <1>1, <1>7 DEF TypeOK
  <2>4. Says(Told'[t], "find", None, k, None, Full, Full, b)  BY <1>4, <1>7, <2>1, <2>2, <2>3, ToldIs DEF Says
  <2>5. Says([i EXCEPT !.op = "find", !.key = k, !.met = Full, !.kept = Full], "find", None, k, None, Full, Full, b)
    BY <1>5, WithFind
  <2>6. Told'[t] = [i EXCEPT !.op = "find", !.key = k, !.met = Full, !.kept = Full]  BY <2>4, <2>5 DEF Says
  <2>7. Told' = [Told EXCEPT ![t] = [i EXCEPT !.op = "find", !.key = k, !.met = Full, !.kept = Full]]  BY <1>3, <2>6, ToldIs
  <2>8. k \in {Key[n] : n \in Nodes}  BY <1>7, <2>1
  <2>9. Promise!Call(t)  BY <1>2, <1>3, <2>7, <2>8 DEF Promise!Call
  <2> QED  BY <2>9 DEF Promise!Next
<1> QED  BY <1>6, <1>7, CallDoes

-----------------------------------------------------------------------------
\* Every step of a thread is a step of the promise, or none.
LEMMA StepTells == ASSUME NEW B, NEW g, ListInv(B, g), \A u \in Threads : Watch(g, u), Gone, Fresh, NEW t \in Threads, Step(t)
                   PROVE Promise!Next \/ UNCHANGED Promise!vars
<1>1. TypeInv /\ Blind(t) /\ \A u \in Threads : Aware(u)  BY Basics DEF Watch
<1>2. CASE Call(t) \/ Unlink(t) \/ Publish(t) \/ Answer(t)  BY <1>1, <1>2, CallTells, UnlinkTells, PublishTells, AnswerTells
<1>3. CASE Removed(t) \/ Mark(t) \/ Retire(t) \/ Linked(t) \/ Restore(t)
  <2>1. CASE Removed(t) /\ nodes[l[t].node].removed  BY <1>1, <2>1, RefuseTells
  <2>2. CASE Linked(t) /\ ~nodes[l[t].node].full  BY <1>1, <2>2, LinkedTells
  <2> QED  BY <1>1, <1>3, <2>1, <2>2, EraseQuiet, LateQuiet
<1>4. CASE Searching(t)  BY <1>1, <1>4, SearchingQuiet
<1>5. CASE Ending(t)  BY <1>1, <1>5, EndingTells DEF Tells
<1> QED  BY <1>2, <1>3, <1>4, <1>5 DEF Step, Searching, Ending

\* The inductive invariant that Atomic follows from.
AtomInv == (\E B, g : ListInv(B, g) /\ \A t \in Threads : Watch(g, t)) /\ Gone

\* AtomInv holds initially, every step keeps it, and every step is one of the promise or none.
LEMMA InitAtom == Init => AtomInv /\ Promise!Init
<1> SUFFICES ASSUME Init PROVE AtomInv /\ Promise!Init  OBVIOUS
<1>1. PICK g : ListInv(DOMAIN Warm, g)  BY InitList
<1>2. \A t \in Threads : l[t] = Idle /\ seen[t] = Unseen  BY DEF Init
<1>3. \A t \in Threads : Watch(g, t)  BY <1>2 DEF Watch, Blind, Aware, Stood, Between, Missed, Idle
<1>4. Gone
  <2>1. ASSUME NEW n \in Nodes PROVE nodes[n].removed = FALSE  BY DEF Init, Node, Links
  <2> QED  BY <2>1 DEF Gone
<1>5. Told = [t \in Threads |-> Promise!Idle]
  <2>1. \A t \in Threads : Effected(t) = FALSE  BY <1>2 DEF Effected, At, Idle
  <2>2. \A t \in Threads : Told[t] = Promise!Idle  BY <1>2, <2>1, ToldIs, IdleTells
  <2> QED  BY <2>2, ToldIs
<1>6. Promise!Init  BY <1>5 DEF Promise!Init, Full
<1> QED  BY <1>1, <1>3, <1>4, <1>6 DEF AtomInv

LEMMA NextAtom == AtomInv /\ Fresh /\ Topped /\ Known /\ [Next]_vars => AtomInv' /\ (Promise!Next \/ UNCHANGED Promise!vars)
<1> SUFFICES ASSUME AtomInv, Fresh, Topped, Known, [Next]_vars PROVE AtomInv' /\
      (Promise!Next \/ UNCHANGED Promise!vars)  OBVIOUS
<1>1. PICK B, g : ListInv(B, g) /\ \A t \in Threads : Watch(g, t)  BY DEF AtomInv
<1>2. Gone /\ MarkInv  BY <1>1, Basics DEF AtomInv
<1>3. MarkInv'  BY <1>2, NextMarks
<1>4. CASE UNCHANGED vars
  <2>1. ListInv(B, g)' /\ Gone'  BY <1>1, <1>2, <1>3, <1>4, StutterList, StutterGone
  <2>2. \A t \in Threads : Watch(g, t)'
    <3>1. nodes' = nodes /\ l' = l /\ seen' = seen  BY <1>4 DEF vars
    <3>2. Full' = Full  BY <3>1 DEF Full
    <3> QED  BY <1>1, <3>1, <3>2, OrderSame, WatchMute, Basics
  <2>3. UNCHANGED Promise!vars
    <3>1. nodes' = nodes /\ l' = l /\ seen' = seen  BY <1>4 DEF vars
    <3>2. Full' = Full  BY <3>1 DEF Full
    <3>3. Told' = Told  BY <3>1 DEF Told, Effected, At, Begin
    <3> QED  BY <3>2, <3>3 DEF Promise!vars
  <2> QED  BY <2>1, <2>2, <2>3 DEF AtomInv
<1>5. ASSUME NEW t \in Threads, Step(t) PROVE AtomInv' /\ (Promise!Next \/ UNCHANGED Promise!vars)
  <2>1. PICK A, h : ListInv(A, h)' /\ \A u \in Threads : Watch(h, u)'  BY <1>1, <1>3, <1>5, StepWatch
  <2>2. Gone'
    <3>1. Blind(t)  BY <1>1 DEF Watch
    <3> QED  BY <1>1, <1>2, <1>5, <2>1, <3>1, StepGone
  <2>3. Promise!Next \/ UNCHANGED Promise!vars  BY <1>1, <1>2, <1>5, StepTells
  <2> QED  BY <2>1, <2>2, <2>3 DEF AtomInv
<1> QED  BY <1>4, <1>5 DEF Next, Done

\* The library is a set with a weak find: an insert takes effect when the node is marked
\* full, an erase when that mark goes, and a find answers with a node below its key that was
\* in the list during the call, and passes over none that was there throughout.
THEOREM AtomicCorrect == Spec /\ []Fresh /\ []Topped /\ []Known => Atomic
<1>1. AtomInv /\ Fresh /\ Topped /\ Known /\ [Next]_vars => [Promise!Next]_Promise!vars  BY NextAtom
<1> QED  BY <1>1, InitAtom, NextAtom, PTL DEF Spec, Atomic, Promise!Spec
-----------------------------------------------------------------------------
(* That Fresh, Known and Topped hold follows from what the callers owe,    *)
(* InTurn, and for Topped from Steady.  First where a step goes.           *)

\* The thread goes to p; its call stays the same, and what it knows of its node's height.
Going(t, p) == /\ Others(t) /\ l'[t].pc = p
               /\ \/ l'[t] = Idle
                  \/ l'[t].op = l[t].op /\ l'[t].node = l[t].node /\ l'[t].top = l[t].top

LEMMA GoGoing == ASSUME TypeOK, NEW t \in Threads, NEW p, NEW r, Goto(t, p, r),
                        [r EXCEPT !.pc = p].op = l[t].op, [r EXCEPT !.pc = p].node = l[t].node,
                        [r EXCEPT !.pc = p].top = l[t].top, [r EXCEPT !.pc = p].pc = p
                 PROVE Going(t, p)
<1>1. l'[t] = IF p = "idle" THEN Idle ELSE [r EXCEPT !.pc = p]  BY DEF Goto, TypeOK
<1>2. Idle.pc = "idle"  BY DEF Idle
<1>3. Others(t)  BY DEF Goto, TypeOK, Others
<1> QED  BY <1>1, <1>2, <1>3 DEF Going

\* A step that goes on elsewhere keeps what is known of the call.
LEMMA GoingAt == ASSUME TypeOK, NEW t \in Threads, NEW p, Goto(t, p, l[t]) PROVE Going(t, p)
<1>1. /\ [l[t] EXCEPT !.pc = p].op = l[t].op /\ [l[t] EXCEPT !.pc = p].node = l[t].node
      /\ [l[t] EXCEPT !.pc = p].top = l[t].top /\ [l[t] EXCEPT !.pc = p].pc = p
  BY SMTT(40) DEF TypeOK, Locals
<1> QED  BY SMTT(40), <1>1, GoGoing

LEMMA GoingWith ==
  ASSUME TypeOK, NEW t \in Threads, NEW p, NEW i,
         \/ Goto(t, p, [l[t] EXCEPT !.layer = i])
         \/ Goto(t, p, [l[t] EXCEPT !.cur = i])
         \/ Goto(t, p, [l[t] EXCEPT !.next = i])
         \/ Goto(t, p, [l[t] EXCEPT !.found = i])
         \/ Goto(t, p, [l[t] EXCEPT !.again = i])
         \/ Goto(t, p, [l[t] EXCEPT !.answer = i])
         \/ Goto(t, p, [l[t] EXCEPT !.layer = i, !.again = FALSE])
         \/ Goto(t, p, [l[t] EXCEPT !.cur = head, !.layer = i, !.again = FALSE])
         \/ Goto(t, p, [[l[t] EXCEPT !.found = FALSE] EXCEPT !.next = i])
         \/ \E h : Goto(t, p, [l[t] EXCEPT !.layer = i, !.then = h])
         \/ \E m, n : Goto(t, p, [l[t] EXCEPT !.prevs[i] = m, !.nexts[i] = n])
  PROVE Going(t, p)
<1>1. l[t] \in Locals  BY DEF TypeOK
<1> DEFINE Like(r) == /\ [r EXCEPT !.pc = p].op = l[t].op /\ [r EXCEPT !.pc = p].node = l[t].node
                      /\ [r EXCEPT !.pc = p].top = l[t].top /\ [r EXCEPT !.pc = p].pc = p
<1>2. /\ Like([l[t] EXCEPT !.layer = i]) /\ Like([l[t] EXCEPT !.cur = i])
      /\ Like([l[t] EXCEPT !.next = i]) /\ Like([l[t] EXCEPT !.found = i]) /\ Like([l[t] EXCEPT !.again = i])
      /\ Like([l[t] EXCEPT !.answer = i])
  BY ZenonT(60), <1>1 DEF Locals
<1>3. /\ Like([l[t] EXCEPT !.layer = i, !.again = FALSE]) /\ Like([l[t] EXCEPT !.cur = head, !.layer = i, !.again = FALSE])
      /\ Like([[l[t] EXCEPT !.found = FALSE] EXCEPT !.next = i])
  BY ZenonT(60), <1>1 DEF Locals
<1>4. \A h : Like([l[t] EXCEPT !.layer = i, !.then = h])
  BY ZenonT(60), <1>1 DEF Locals
<1>6. \A m, n : Like([l[t] EXCEPT !.prevs[i] = m, !.nexts[i] = n])
  BY <1>1 DEF Locals
<1>5. ASSUME NEW r, Goto(t, p, r), Like(r) PROVE Going(t, p)  BY ZenonT(40), <1>5, GoGoing
<1> HIDE DEF Like
<1> QED  BY ZenonT(40), <1>2, <1>3, <1>4, <1>5, <1>6

\* Where a call counts its node, and where it goes from there.
Tallying == {"release", "count", "scan", "top"}
\* A step that does not lead there; nor does it to the unlinking of a node.
Away(t) == \E p : Going(t, p) /\ p \notin Tallying /\ (p = "store" => l[t].op = "insert")

LEMMA AwayAt == ASSUME TypeOK, NEW t \in Threads, NEW p, Goto(t, p, l[t]), p \notin Tallying \cup {"store"}
                PROVE Away(t)
BY GoingAt DEF Away

LEMMA ClearAway == ASSUME TypeOK, NEW t \in Threads, NEW i, NEW p, p \notin Tallying \cup {"store"}, NEW less,
                          ClearFrom(t, i, p, less)
                   PROVE Away(t)
<1>1. Goto(t, p, l[t]) \/ Goto(t, "clear", [l[t] EXCEPT !.layer = i, !.then = p])  BY SMTT(40) DEF ClearFrom
<1>2. Going(t, p) \/ Going(t, "clear")  BY Zenon, <1>1, GoingAt, GoingWith
<1> QED  BY <1>2 DEF Away, Tallying

LEMMA BackAway == ASSUME TypeOK, NEW t \in Threads, NEW i, NEW less, ClearFrom(t, i, Begin(t), less) PROVE Away(t)
<1>1. Begin(t) \notin Tallying \cup {"store"}  BY DEF Begin, Tallying
<1> QED  BY <1>1, ClearAway

LEMMA RetryAway == ASSUME TypeOK, NEW t \in Threads, NEW less, Retry(t, less) PROVE Away(t)
BY AwayAt, BackAway DEF Retry, Tallying

LEMMA TakeAway == ASSUME TypeOK, NEW t \in Threads, NEW n, NEW less,
                         Take(t, n, less, l[t]) \/ Take(t, n, less, [l[t] EXCEPT !.found = FALSE])
                  PROVE Away(t)
<1>1. \/ Goto(t, "crash", l[t]) \/ Goto(t, "look", [l[t] EXCEPT !.next = n])
      \/ Goto(t, "look", [[l[t] EXCEPT !.found = FALSE] EXCEPT !.next = n])
  BY DEF Take
<1>2. Going(t, "crash") \/ Going(t, "look")  BY Zenon, <1>1, GoingAt, GoingWith
<1> QED  BY <1>2 DEF Away, Tallying

\* The steps that begin a call, mark a node, or come before and after a count.
Counting(t) == Call(t) \/ Mark(t) \/ Unlink(t) \/ Store(t) \/ Publish(t) \/ Release(t) \/ Count(t) \/ Scan(t)
\* Every other step goes elsewhere, and its call stays as it was.
LEMMA StepAway == ASSUME TypeInv, NEW t \in Threads, Step(t), ~Counting(t) PROVE Away(t)
<1>1. TypeOK /\ l[t] \in Locals /\ Sound(l[t])  BY DEF TypeInv, TypeOK
<1>2. ASSUME NEW p, p \notin Tallying \cup {"store"}, Going(t, p) PROVE Away(t)  BY <1>2 DEF Away
<1>3. CASE Removed(t) \/ Retire(t) \/ Linked(t) \/ Restore(t) \/ Unmark(t) \/ Return(t)
  <2>1. \E p \in {"idle", "mark", "linked", "start", "restore", "unmark"} : Goto(t, p, l[t])
    BY ZenonT(40), <1>3 DEF Removed, Retire, Linked, Restore, Unmark, Return
  <2> QED  BY <1>1, <2>1, AwayAt DEF Tallying
<1>4. CASE Start(t)
  <2>1. PICK i : Goto(t, "peek", [l[t] EXCEPT !.cur = head, !.layer = i, !.again = FALSE])
    BY ZenonT(40), <1>4 DEF Start
  <2>2. Going(t, "peek")  BY ZenonT(40), <1>1, <2>1, GoingWith
  <2> QED  BY <1>2, <2>2 DEF Tallying
<1>5. CASE Peek(t)
  <2>1. CASE IsLinked(l[t].cur)
    <3>1. PICK n : Take(t, n, {}, [l[t] EXCEPT !.found = FALSE])  BY <1>5, <2>1 DEF Peek
    <3> QED  BY <1>1, <3>1, TakeAway
  <2>2. CASE ~IsLinked(l[t].cur)  BY <1>1, <1>5, <2>2, RetryAway DEF Peek
  <2> QED  BY <2>1, <2>2
<1>6. CASE Hopped(t)
  <2>1. PICK n, less : Take(t, n, less, l[t]) \/ Retry(t, less)  BY <1>6 DEF Hopped
  <2> QED  BY <1>1, <2>1, TakeAway, RetryAway
<1>7. CASE Hop(t) \/ Pass(t) \/ Descend(t) \/ Answer(t) \/ Place(t)
  <2>1. CASE Hop(t)
    <3>1. PICK b : Goto(t, "hop", [l[t] EXCEPT !.found = b])  BY ZenonT(40), <2>1 DEF Hop
    <3>2. Going(t, "hop")  BY ZenonT(40), <1>1, <3>1, GoingWith
    <3> QED  BY <1>2, <3>2 DEF Tallying
  <2>2. CASE Pass(t)
    <3>1. PICK c : Goto(t, "peek", [l[t] EXCEPT !.cur = c])  BY ZenonT(40), <2>2 DEF Pass
    <3>2. Going(t, "peek")  BY ZenonT(40), <1>1, <3>1, GoingWith
    <3> QED  BY <1>2, <3>2 DEF Tallying
  <2>3. CASE Descend(t)
    <3>1. PICK i : Goto(t, "peek", [l[t] EXCEPT !.layer = i])  BY <2>3 DEF Descend
    <3>2. Going(t, "peek")  BY ZenonT(40), <1>1, <3>1, GoingWith
    <3> QED  BY <1>2, <3>2 DEF Tallying
  <2>4. CASE Answer(t)
    <3>1. PICK a : Goto(t, "answer", [l[t] EXCEPT !.answer = a])  BY ZenonT(40), <2>4 DEF Answer
    <3>2. Going(t, "answer")  BY ZenonT(40), <1>1, <3>1, GoingWith
    <3> QED  BY <1>2, <3>2 DEF Tallying
  <2>5. CASE Place(t)
    <3>1. PICK i, c, n : Goto(t, "try", [l[t] EXCEPT !.prevs[i] = c, !.nexts[i] = n])
      BY ZenonT(40), <2>5 DEF Place
    <3>2. Going(t, "try")  BY ZenonT(40), <1>1, <3>1, GoingWith
    <3> QED  BY <1>2, <3>2 DEF Tallying
  <2> QED  BY <1>7, <2>1, <2>2, <2>3, <2>4, <2>5
<1>8. CASE Try(t) \/ Prev(t) \/ NextValid(t)
  <2>1. CASE Try(t)
    <3>1. Goto(t, "prev", l[t]) \/ Retry(t, {})  BY <2>1 DEF Try
    <3> QED  BY <1>1, <3>1, AwayAt, RetryAway DEF Tallying
  <2>2. CASE Prev(t)
    <3>1. Goto(t, "next", l[t]) \/ ClearFrom(t, l[t].layer, Begin(t), {})  BY <2>2 DEF Prev
    <3> QED  BY <1>1, <3>1, AwayAt, BackAway DEF Tallying
  <2>3. CASE NextValid(t)
    <3>1. ClearFrom(t, l[t].layer, Begin(t), {}) \/ Goto(t, "peek", [l[t] EXCEPT !.again = TRUE])
      BY SMTT(40), <2>3 DEF NextValid
    <3>2. CASE Goto(t, "peek", [l[t] EXCEPT !.again = TRUE])
      <4>1. Going(t, "peek")  BY ZenonT(40), <1>1, <3>2, GoingWith
      <4> QED  BY <1>2, <4>1 DEF Tallying
    <3> QED  BY <1>1, <3>1, <3>2, BackAway
  <2> QED  BY <1>8, <2>1, <2>2, <2>3
<1>9. CASE Placed(t)
  <2>1. \/ \E p \in {"store", "unlink"} : Goto(t, p, l[t]) /\ (p = "store" => l[t].op = "insert")
        \/ \E i, less : ClearFrom(t, i, Begin(t), less)
        \/ \E i : Goto(t, "peek", [l[t] EXCEPT !.layer = i, !.again = FALSE])
    BY ZenonT(40), <1>9 DEF Placed
  <2>2. CASE \E i : Goto(t, "peek", [l[t] EXCEPT !.layer = i, !.again = FALSE])
    <3>1. Going(t, "peek")  BY ZenonT(40), <1>1, <2>2, GoingWith
    <3> QED  BY <1>2, <3>1 DEF Tallying
  <2>3. CASE \E p \in {"store", "unlink"} : Goto(t, p, l[t]) /\ (p = "store" => l[t].op = "insert")
    <3>1. PICK p \in {"store", "unlink"} : Goto(t, p, l[t]) /\ (p = "store" => l[t].op = "insert")  BY <2>3
    <3>2. Going(t, p)  BY <1>1, <3>1, GoingAt
    <3> QED  BY <3>1, <3>2 DEF Away, Tallying
  <2> QED  BY ZenonT(40), <1>1, <2>1, <2>2, <2>3, BackAway
<1>10. CASE SetTop(t)
  <2>1. PICK p \in {"idle", "unmark"} : ClearFrom(t, 0, p, {})  BY <1>10 DEF SetTop, Finish
  <2> QED  BY <1>1, <2>1, ClearAway DEF Tallying
<1>11. CASE Clear(t)
  <2>1. l[t].then \notin Tallying \cup {"store"}  BY <1>1, <1>11 DEF Clear, At, Sound, Tallying
  <2>2. Goto(t, l[t].then, l[t]) \/ \E i : Goto(t, "clear", [l[t] EXCEPT !.layer = i])  BY ZenonT(40), <1>11 DEF Clear
  <2>3. CASE \E i : Goto(t, "clear", [l[t] EXCEPT !.layer = i])
    <3>1. Going(t, "clear")  BY ZenonT(40), <1>1, <2>3, GoingWith
    <3> QED  BY <1>2, <3>1 DEF Tallying
  <2> QED  BY <1>1, <2>1, <2>2, <2>3, AwayAt
<1> QED  BY <1>3, <1>4, <1>5, <1>6, <1>7, <1>8, <1>9, <1>10, <1>11 DEF Step, Counting

\* What the others do.
LEMMA CountingGoes ==
  ASSUME TypeInv, NEW t \in Threads
  PROVE /\ Unlink(t) => Going(t, "store") /\ l[t].pc = "unlink"
        /\ Store(t) => l[t].pc = "store" /\ \/ Going(t, "store")
                                            \/ Going(t, IF l[t].op = "insert" THEN "publish" ELSE "count")
        /\ Publish(t) => Going(t, "release") /\ l[t].pc = "publish"
        /\ Release(t) => Going(t, "count") /\ l[t].pc = "release"
        /\ Count(t) => Going(t, "scan") /\ l[t].pc = "count"
        /\ Scan(t) => l[t].pc = "scan" /\ (Going(t, "top") \/ Going(t, "scan") \/ Away(t))
<1>1. TypeOK  BY DEF TypeInv
<1>2. Unlink(t) => Going(t, "store") /\ l[t].pc = "unlink"  BY <1>1, GoingAt DEF Unlink, At
<1>3. Publish(t) => Going(t, "release") /\ l[t].pc = "publish"  BY <1>1, GoingAt DEF Publish, At
<1>4. Release(t) => Going(t, "count") /\ l[t].pc = "release"  BY <1>1, GoingAt DEF Release, At
<1>5. ASSUME NEW p, \E i : Goto(t, p, [l[t] EXCEPT !.layer = i]) PROVE Going(t, p)
  BY ZenonT(40), <1>1, <1>5, GoingWith
<1>6. Store(t) => l[t].pc = "store" /\ \/ Going(t, "store")
                                       \/ Going(t, IF l[t].op = "insert" THEN "publish" ELSE "count")
  <2> DEFINE last == IF l[t].op = "insert" THEN "publish" ELSE "count"
  <2>1. ASSUME Store(t) PROVE l[t].pc = "store" /\ (\/ \E i : Goto(t, "store", [l[t] EXCEPT !.layer = i])
                                                 \/ Goto(t, last, l[t]))
    BY ZenonT(40), <2>1 DEF Store, At
  <2> HIDE DEF last
  <2>2. ASSUME Store(t) PROVE l[t].pc = "store" /\ (Going(t, "store") \/ Going(t, last))
    BY <1>1, <1>5, <2>1, <2>2, GoingAt
  <2> QED  BY ZenonT(40), <2>2 DEF last
<1>7. Count(t) => Going(t, "scan") /\ l[t].pc = "count"
  <2> SUFFICES ASSUME Count(t) PROVE Going(t, "scan") /\ l[t].pc = "count"  OBVIOUS
  <2>1. l[t].pc = "count" /\ \E i : Goto(t, "scan", [l[t] EXCEPT !.layer = i])  BY ZenonT(40) DEF Count, At
  <2> QED  BY <1>5, <2>1
<1>8. Scan(t) => l[t].pc = "scan" /\ (Going(t, "top") \/ Going(t, "scan") \/ Away(t))
  <2> SUFFICES ASSUME Scan(t) PROVE l[t].pc = "scan" /\ (Going(t, "top") \/ Going(t, "scan") \/ Away(t))  OBVIOUS
  <2>1. l[t].pc = "scan" /\ \/ Goto(t, "top", l[t]) \/ Finish(t)
                            \/ \E i : Goto(t, "scan", [l[t] EXCEPT !.layer = i])
    BY ZenonT(40) DEF Scan, At
  <2>2. ASSUME Finish(t) PROVE Away(t)
    <3>1. PICK p \in {"idle", "unmark"} : ClearFrom(t, 0, p, {})  BY <2>2 DEF Finish
    <3> QED  BY <1>1, <3>1, ClearAway DEF Tallying
  <2> QED  BY <1>1, <1>5, <2>1, <2>2, GoingAt
<1> QED  BY <1>2, <1>3, <1>4, <1>6, <1>7, <1>8

\* Only calls change the calls that are still to be made, and what a node is linked in.
LEMMA StepTodo == ASSUME NEW t \in Threads, Step(t), ~Call(t) PROVE todo' = todo
BY ZenonT(60) DEF Step, Removed, Mark, Retire, Linked, Restore, Unmark, Start, Peek, Hop, Hopped, Pass, Descend, Answer, Return,
     Place, Try, Prev, NextValid, Placed, Unlink, Store, Publish, Release, Count, Scan, SetTop, Clear

\* Only a call gives a node another height.
LEMMA StepTop == ASSUME TypeOK, NEW t \in Threads, Step(t), ~Call(t), NEW n \in Links
                 PROVE nodes'[n].top = nodes[n].top
<1>1. ASSUME NEW m, NEW f \in {"full", "flag", "removed", "holder"}, NEW v, Put(m, f, v) PROVE nodes'[n].top = nodes[n].top
  BY <1>1 DEF TypeOK, NodeRec, Put
<1>2. ASSUME NEW m, NEW i, NEW v, nodes' = [nodes EXCEPT ![m].next[i] = v] PROVE nodes'[n].top = nodes[n].top
  BY <1>2 DEF TypeOK, NodeRec
<1>3. CASE \/ Removed(t) \/ Linked(t) \/ Start(t) \/ Peek(t) \/ Hop(t) \/ Hopped(t) \/ Pass(t) \/ Descend(t) \/ Answer(t)
           \/ Place(t) \/ Prev(t) \/ Placed(t) \/ Scan(t) \/ Return(t) \/ Count(t) \/ SetTop(t)
  <2>1. nodes' = nodes
    BY <1>3 DEF Removed, Linked, Start, Peek, Hop, Hopped, Pass, Descend, Answer, Place, Prev, Placed, Scan, Return,
         Count, SetTop, Fixed, Shared
  <2> QED  BY SMTT(40), <2>1
<1>4. CASE Mark(t) \/ Unmark(t) \/ Try(t) \/ Clear(t) \/ Unlink(t) \/ Publish(t) \/ Release(t) \/ Retire(t) \/ Restore(t)
  <2>1. nodes' = nodes \/ \E m, v : Put(m, "full", v) \/ Put(m, "flag", v) \/ Put(m, "removed", v) \/ Put(m, "holder", v)
    BY ZenonT(40), <1>4 DEF Mark, Unmark, Try, Clear, Unlink, Publish, Release, Retire, Restore
  <2> QED  BY <1>1, <2>1
<1>5. CASE NextValid(t) \/ Store(t)
  <2>1. nodes' = nodes \/ \E m, i, v : nodes' = [nodes EXCEPT ![m].next[i] = v]
    BY ZenonT(40), <1>5 DEF NextValid, Store
  <2> QED  BY SMTT(40), <1>2, <2>1
<1> QED  BY <1>3, <1>4, <1>5 DEF Step

\* A step marks only a node that has been met, or the one that its thread erases.
LEMMA StepFlag == ASSUME NEW B, NEW g, ListInv(B, g), NEW t \in Threads, Step(t), ~Call(t), NEW n \in Nodes
                  PROVE \/ nodes'[n].flag \in {nodes[n].flag, None}
                        \/ nodes'[n].flag = t /\ (n \in B \/ (l[t].op = "erase" /\ l[t].node = n))
<1>0. TypeOK /\ Sound(l[t]) /\ Good(B, g, t) /\ n \in Links  BY Basics DEF Links
<1>1. ASSUME NEW m, NEW f \in {"full", "removed", "holder"}, NEW v, Put(m, f, v) PROVE nodes'[n].flag = nodes[n].flag
  BY <1>0, <1>1 DEF TypeOK, NodeRec, Put
<1>2. ASSUME NEW m, NEW i, NEW v, nodes' = [nodes EXCEPT ![m].next[i] = v] PROVE nodes'[n].flag = nodes[n].flag
  BY <1>0, <1>2 DEF TypeOK, NodeRec
<1>3. ASSUME NEW m, NEW v, Put(m, "flag", v) PROVE nodes'[n].flag = IF m = n THEN v ELSE nodes[n].flag
  BY <1>0, <1>3 DEF TypeOK, NodeRec, Put
<1>4. CASE \/ Removed(t) \/ Linked(t) \/ Start(t) \/ Peek(t) \/ Hop(t) \/ Hopped(t) \/ Pass(t) \/ Descend(t) \/ Answer(t)
           \/ Place(t) \/ Prev(t) \/ Placed(t) \/ Scan(t) \/ Return(t) \/ Count(t) \/ SetTop(t)
  <2>1. nodes' = nodes
    BY <1>4 DEF Removed, Linked, Start, Peek, Hop, Hopped, Pass, Descend, Answer, Place, Prev, Placed, Scan, Return,
         Count, SetTop, Fixed, Shared
  <2> QED  BY SMTT(40), <2>1
<1>5. CASE Unmark(t) \/ Clear(t)
  <2>1. nodes' = nodes \/ \E m : Put(m, "flag", None)  BY ZenonT(40), <1>5 DEF Unmark, Clear
  <2> QED  BY <1>3, <2>1
<1>6. CASE Mark(t)
  <2>1. nodes' = nodes \/ Put(l[t].node, "flag", t)  BY ZenonT(40), <1>6 DEF Mark
  <2>2. l[t].op = "erase"  BY <1>0, <1>6 DEF Mark, At, Sound
  <2> QED  BY <1>3, <2>1, <2>2
<1>7. CASE Try(t)
  <2>1. nodes' = nodes \/ Put(l[t].cur, "flag", t)  BY ZenonT(40), <1>7 DEF Try
  <2>2. l[t].cur \in Nodes => l[t].cur \in B
    <3>1. l[t].pc \in Walk  BY <1>7 DEF Try, At, Walk
    <3> QED  BY <1>0, <3>1 DEF Good, Standing, Fit
  <2> QED  BY <1>3, <2>1, <2>2
<1>8. CASE Unlink(t) \/ Publish(t) \/ Release(t) \/ Retire(t) \/ Restore(t)
  <2>1. \E m, v : Put(m, "full", v) \/ Put(m, "removed", v) \/ Put(m, "holder", v)
    BY ZenonT(40), <1>8 DEF Unlink, Publish, Release, Retire, Restore
  <2> QED  BY <1>1, <2>1
<1>9. CASE NextValid(t) \/ Store(t)
  <2>1. nodes' = nodes \/ \E m, i, v : nodes' = [nodes EXCEPT ![m].next[i] = v]
    BY ZenonT(40), <1>9 DEF NextValid, Store
  <2> QED  BY SMTT(40), <1>2, <2>1
<1> QED  BY <1>4, <1>5, <1>6, <1>7, <1>8, <1>9 DEF Step

\* What a call does: c is the call that is made.
NodeMade(c, n) == /\ c.op = "insert" /\ n = c.node
                  /\ nodes'[n].flag = None /\ nodes'[n].top \in c.tops /\ nodes'[n].full = FALSE
Calling(t, c) ==
  /\ c \in Calls /\ 1 \in DOMAIN todo[t] /\ todo[t][1] = c
  /\ \A u \in Threads : \A i \in DOMAIN todo'[u] : \E j \in DOMAIN todo[u] : todo'[u][i] = todo[u][j] /\ (u = t => j # 1)
  /\ Others(t) /\ l[t].pc = "idle" /\ l'[t].pc \in {"start", "removed"} /\ l'[t].op = c.op
  /\ c.op \in {"insert", "erase"} => l'[t].node = c.node
  /\ c.op = "erase" => l'[t].top = nodes[c.node].top
  /\ \A n \in Links : nodes'[n] = nodes[n] \/ NodeMade(c, n)

LEMMA LessTodo == ASSUME TypeOK, NEW t \in Threads, todo[t] # <<>>, todo' = [todo EXCEPT ![t] = SubSeq(@, 2, Len(@))]
                  PROVE \A u \in Threads : \A i \in DOMAIN todo'[u] : \E j \in DOMAIN todo[u] :
                          todo'[u][i] = todo[u][j] /\ (u = t => j # 1)
<1> PICK s : s = todo[t]  OBVIOUS
<1>1. s \in Seq(Calls) /\ s # <<>>  BY DEF TypeOK
<1>2. \A i \in DOMAIN SubSeq(s, 2, Len(s)) : i \in Nat \ {0} /\ i + 1 \in DOMAIN s /\ SubSeq(s, 2, Len(s))[i] = s[i + 1]
  BY <1>1
<1>3. todo'[t] = SubSeq(s, 2, Len(s)) /\ \A u \in Threads : u # t => todo'[u] = todo[u]  BY DEF TypeOK
<1> SUFFICES ASSUME NEW u \in Threads, NEW i \in DOMAIN todo'[u]
             PROVE \E j \in DOMAIN todo[u] : todo'[u][i] = todo[u][j] /\ (u = t => j # 1)
  OBVIOUS
<1>4. CASE u = t
  <2>1. i \in Nat \ {0} /\ i + 1 \in DOMAIN s /\ SubSeq(s, 2, Len(s))[i] = s[i + 1]  BY <1>2, <1>3, <1>4
  <2>2. i + 1 # 1  BY <2>1
  <2> QED  BY <1>3, <1>4, <2>1, <2>2
<1>5. CASE u # t  BY <1>3, <1>5
<1> QED  BY <1>4, <1>5

\* What a call takes from the program.
LEMMA CallIs == ASSUME TypeOK, NEW t \in Threads, Call(t) PROVE \E c \in Calls : Calling(t, c)
<1> PICK c : c = todo[t][1]  OBVIOUS
<1>1. l[t].pc = "idle" /\ todo[t] # <<>> /\ todo[t] \in Seq(Calls) /\ todo' = [todo EXCEPT ![t] = SubSeq(@, 2, Len(@))]
  BY DEF Call, At, TypeOK
<1>2. c \in Calls /\ 1 \in DOMAIN todo[t]  BY <1>1
<1>3. c.node \in Nodes /\ c.tops \subseteq Layers  BY <1>2 DEF Calls
<1>4. \A u \in Threads : \A i \in DOMAIN todo'[u] : \E j \in DOMAIN todo[u] : todo'[u][i] = todo[u][j] /\ (u = t => j # 1)
  BY <1>1, LessTodo
<1> DEFINE Rest == /\ Others(t) /\ l'[t].pc \in {"start", "removed"} /\ l'[t].op = c.op
                   /\ c.op \in {"insert", "erase"} => l'[t].node = c.node
                   /\ c.op = "erase" => l'[t].top = nodes[c.node].top
                   /\ \A n \in Links : nodes'[n] = nodes[n] \/ NodeMade(c, n)
<1>5. ASSUME c.op = "insert" /\ \E i \in c.tops : CallInsert(t, c.node, i) PROVE Rest
  <2>1. PICK i \in c.tops : CallInsert(t, c.node, i)  BY <1>5
  <2> DEFINE r == [Idle EXCEPT !.op = "insert", !.node = c.node, !.key = Key[c.node], !.top = i]
             new == [next |-> [j \in Layers |-> None], full |-> FALSE, flag |-> None, removed |-> FALSE, top |-> i, holder |-> t]
  <2>2. r.op = "insert" /\ r.node = c.node  BY DEF Idle
  <2>3. Goto(t, "start", r) /\ r \in Locals /\ nodes' = [nodes EXCEPT ![c.node] = new]
    BY <1>3, <2>1, SetInsert DEF CallInsert
  <2>4. new.flag = None /\ new.top = i /\ new.full = FALSE  OBVIOUS
  <2> HIDE DEF r, new
  <2>5. Stands(t, "start", r) /\ Others(t)  BY <2>3, Moves DEF PCs
  <2>6. \A n \in Links : nodes'[n] = IF n = c.node THEN new ELSE nodes[n]  BY <2>3 DEF TypeOK
  <2>7. \A n \in Links : nodes'[n] = nodes[n] \/ NodeMade(c, n)  BY <1>5, <2>1, <2>4, <2>6 DEF NodeMade
  <2> QED  BY <1>5, <2>2, <2>5, <2>7 DEF Stands
<1>6. ASSUME c.op = "erase" /\ CallErase(t, c.node) PROVE Rest
  <2> DEFINE r == [Idle EXCEPT !.op = "erase", !.node = c.node, !.key = Key[c.node], !.top = nodes[c.node].top]
  <2>1. nodes[c.node].top \in Layers  BY <1>1, <1>3 DEF TypeOK, NodeRec, Links
  <2>2. r.op = "erase" /\ r.node = c.node /\ r.top = nodes[c.node].top  BY DEF Idle
  <2>3. Goto(t, "removed", r) /\ r \in Locals /\ nodes' = nodes  BY <1>3, <1>6, <2>1, SetErase DEF CallErase
  <2> HIDE DEF r
  <2>4. Stands(t, "removed", r) /\ Others(t)  BY <1>1, <2>3, Moves DEF PCs
  <2> QED  BY <1>6, <2>2, <2>3, <2>4 DEF Stands
<1>7. ASSUME c.op = "find" /\ CallFind(t, Key[c.node]) PROVE Rest
  <2> DEFINE r == [Idle EXCEPT !.op = "find", !.key = Key[c.node]]
  <2>1. Key[c.node] \in Int  BY <1>3, ListAssumption
  <2>2. r.op = "find"  BY DEF Idle
  <2>3. Goto(t, "start", r) /\ r \in Locals /\ nodes' = nodes  BY <1>7, <2>1, SetFind DEF CallFind
  <2> HIDE DEF r
  <2>4. Stands(t, "start", r) /\ Others(t)  BY <1>1, <2>3, Moves DEF PCs
  <2> QED  BY <1>7, <2>2, <2>3, <2>4 DEF Stands
<1>8. Rest
  <2>1. \/ c.op = "insert" /\ \E i \in c.tops : CallInsert(t, c.node, i)
        \/ c.op = "erase" /\ CallErase(t, c.node)
        \/ c.op = "find" /\ CallFind(t, Key[c.node])
    BY DEF Call
  <2> QED  BY <1>5, <1>6, <1>7, <2>1
<1> QED  BY <1>1, <1>2, <1>4, <1>8 DEF Calling

-----------------------------------------------------------------------------
\* An erase knows the height of its node.
Knows == \A t \in Threads : l[t].op = "erase" => l[t].top = nodes[l[t].node].top
\* Nobody else has marked a node that a thread has still to insert.
Unmarked == \A t \in Threads : \A i \in DOMAIN todo[t] :
              todo[t][i].op = "insert" => nodes[todo[t][i].node].flag \in {None, t}

LEMMA MarkGoes == ASSUME TypeOK, NEW t \in Threads, Mark(t)
                  PROVE /\ Others(t) /\ l'[t].pc \in {"removed", "retire"} /\ l'[t].op = l[t].op /\ l'[t].node = l[t].node
                        /\ l'[t].top \in {l[t].top, nodes[l[t].node].top}
<1>1. l[t] \in Locals  BY DEF TypeOK
<1>2. CASE Goto(t, "retire", l[t])
  <2>1. l'[t] = [l[t] EXCEPT !.pc = "retire"] /\ Others(t)  BY <1>2 DEF Goto, TypeOK, Others
  <2> QED  BY <1>1, <2>1 DEF Locals
<1>3. CASE Goto(t, "removed", [l[t] EXCEPT !.top = nodes[l[t].node].top])
  <2>1. l'[t] = [[l[t] EXCEPT !.top = nodes[l[t].node].top] EXCEPT !.pc = "removed"] /\ Others(t)  BY <1>3 DEF Goto, TypeOK, Others
  <2> QED  BY <1>1, <2>1 DEF Locals
<1> QED  BY <1>2, <1>3 DEF Mark

LEMMA StepGoing == ASSUME TypeInv, NEW t \in Threads, Step(t), ~Call(t), ~Mark(t) PROVE \E p : Going(t, p)
BY ZenonT(40), StepAway, CountingGoes DEF Away, Counting

\* Who keeps its turn keeps the height that it has read.
LEMMA StepKnows == ASSUME TypeInv, InTurn, Knows, NEW u \in Threads, Step(u) PROVE Knows'
<1> SUFFICES ASSUME NEW t \in Threads, l'[t].op = "erase" PROVE l'[t].top = nodes'[l'[t].node].top  BY DEF Knows
<1>1. TypeOK /\ (l[t].op = "erase" => l[t].node \in Links)  BY DEF TypeInv, Sound, Links
<1>2. CASE Call(u)
  <2>1. PICK c \in Calls : Calling(u, c)  BY <1>1, <1>2, CallIs
  <2>2. CASE u = t
    <3>1. c.op = "erase" /\ l'[t].node = c.node /\ l'[t].top = nodes[c.node].top  BY <2>1, <2>2 DEF Calling
    <3>2. nodes'[c.node] = nodes[c.node]  BY <2>1, <3>1 DEF Calling, NodeMade, Calls, Links
    <3> QED  BY <3>1, <3>2
  <2>3. CASE u # t
    <3>1. l'[t] = l[t]  BY <2>1, <2>3 DEF Calling, Others
    <3>2. ~(c.op = "insert" /\ c.node = l[t].node)  BY <2>1, <2>3, <3>1 DEF InTurn, Calling
    <3>3. nodes'[l[t].node] = nodes[l[t].node]  BY <1>1, <2>1, <3>1, <3>2 DEF Calling, NodeMade
    <3> QED  BY <3>1, <3>3 DEF Knows
  <2> QED  BY <2>2, <2>3
<1>3. CASE ~Call(u)
  <2>1. l'[t].node = l[t].node /\ l[t].op = "erase" /\ l'[t].top \in {l[t].top, nodes[l[t].node].top}
    <3>1. CASE Mark(u)  BY <1>1, <3>1, MarkGoes DEF Others
    <3>2. CASE ~Mark(u)
      <4>1. PICK p : Going(u, p)  BY <1>3, <3>2, StepGoing
      <4>2. Idle.op = "none"  BY DEF Idle
      <4> QED  BY <4>1, <4>2 DEF Going, Others
    <3> QED  BY <3>1, <3>2
  <2>2. nodes'[l[t].node].top = nodes[l[t].node].top  BY <1>1, <1>3, <2>1, StepTop
  <2> QED  BY <2>1, <2>2 DEF Knows
<1> QED  BY <1>2, <1>3

\* Nobody marks a node that another thread has still to insert.
LEMMA StepUnmarked == ASSUME LinkInv, InTurn, Unmarked, NEW u \in Threads, Step(u) PROVE Unmarked'
<1> SUFFICES ASSUME NEW t \in Threads, NEW i \in DOMAIN todo'[t], todo'[t][i].op = "insert"
             PROVE nodes'[todo'[t][i].node].flag \in {None, t}
  BY DEF Unmarked
<1>1. PICK B, g : ListInv(B, g)  BY DEF LinkInv
<1>2. TypeOK /\ Pending(B)  BY <1>1, Basics
<1>3. CASE Call(u)
  <2>1. PICK c \in Calls : Calling(u, c)  BY <1>2, <1>3, CallIs
  <2>2. PICK j \in DOMAIN todo[t] : todo'[t][i] = todo[t][j]  BY <2>1 DEF Calling
  <2>3. todo[t][j] \in Calls  BY <1>2 DEF TypeOK
  <2>4. todo[t][j].op = "insert" /\ todo[t][j].node \in Links  BY <2>2, <2>3 DEF Calls, Links
  <2>5. nodes[todo[t][j].node].flag \in {None, t}  BY <2>4 DEF Unmarked
  <2> QED  BY <2>1, <2>2, <2>4, <2>5 DEF Calling, NodeMade
<1>4. CASE ~Call(u)
  <2> PICK n : n = todo[t][i].node  OBVIOUS
  <2>1. todo' = todo /\ i \in DOMAIN todo[t] /\ todo[t][i].op = "insert"  BY <1>4, StepTodo
  <2>2. n \in Nodes
    <3>1. todo[t] \in Seq(Calls)  BY <1>2 DEF TypeOK
    <3>2. todo[t][i] \in Calls  BY <2>1, <3>1
    <3> QED  BY <3>2 DEF Calls
  <2>3. n \notin B  BY <1>2, <2>1 DEF Pending
  <2>4. nodes[n].flag \in {None, t}  BY <2>1 DEF Unmarked
  <2>5. u # t => ~(l[u].op = "erase" /\ l[u].node = n)  BY <2>1 DEF InTurn
  <2>6. \/ nodes'[n].flag \in {nodes[n].flag, None}
        \/ nodes'[n].flag = u /\ (n \in B \/ (l[u].op = "erase" /\ l[u].node = n))
    BY <1>1, <1>4, <2>2, StepFlag
  <2> QED  BY <2>1, <2>3, <2>4, <2>5, <2>6
<1> QED  BY <1>3, <1>4

\* The inductive invariant that Fresh and Known follow from.
TurnInv == LinkInv /\ Knows /\ Unmarked

\* The invariant holds in the beginning,
LEMMA InitTurn == Init => TurnInv
<1> SUFFICES ASSUME Init PROVE Knows /\ Unmarked  BY InitLinks DEF TurnInv
<1>1. \A t \in Threads : l[t].op = "none"  BY DEF Init, Idle
<1>2. ASSUME NEW n \in Links PROVE nodes[n].flag = None
  <2>1. \A m, i : Node(m, i).flag = None  BY DEF Node
  <2>2. nodes[n].flag = None
    <3>1. CASE n \in DOMAIN Warm  BY <2>1, <3>1 DEF Init
    <3>2. CASE n \notin DOMAIN Warm /\ n = head  BY <2>1, <3>2 DEF Init
    <3>3. CASE n \notin DOMAIN Warm /\ n # head
      <4>1. nodes[n] = [Node(n, -1) EXCEPT !.full = n = tail]  BY <3>3 DEF Init
      <4>2. [Node(n, -1) EXCEPT !.full = n = tail].flag = None  BY DEF Node
      <4> QED  BY <4>1, <4>2
    <3> QED  BY <3>1, <3>2, <3>3
  <2> QED  BY <2>2
<1>3. TypeOK  BY InitTyped DEF TypeInv
<1>4. ASSUME NEW t \in Threads, NEW i \in DOMAIN todo[t] PROVE todo[t][i].node \in Links
  <2>1. todo[t][i] \in Calls  BY <1>3, <1>4 DEF TypeOK
  <2> QED  BY <2>1 DEF Calls, Links
<1> QED  BY <1>1, <1>2, <1>4 DEF Knows, Unmarked

LEMMA TurnFresh == TurnInv => Fresh
<1> SUFFICES ASSUME TurnInv, NEW t \in Threads, l[t].pc = "idle", todo[t] # <<>>, todo[t][1].op = "insert"
             PROVE nodes[todo[t][1].node].flag = None /\ ~nodes[todo[t][1].node].full
  BY DEF Fresh, At
<1> PICK n : n = todo[t][1].node  OBVIOUS
<1>1. PICK B, g : ListInv(B, g)  BY DEF TurnInv, LinkInv
<1>2. TypeOK /\ Pending(B) /\ Only(t)  BY <1>1, Basics DEF Marks
<1>3. 1 \in DOMAIN todo[t] /\ todo[t][1] \in Calls  BY <1>2 DEF TypeOK
<1>4. n \in Nodes /\ n \in Links  BY <1>3 DEF Calls, Links
<1>5. n \notin B  BY <1>2, <1>3 DEF Pending
<1>6. ~nodes[n].full  BY <1>1, <1>4, <1>5, FullBorn
<1>7. Zone(l[t]) = {} /\ ~Own(l[t])  BY NoZone DEF From, Again, Change, Own
<1>8. nodes[n].flag # t  BY <1>2, <1>4, <1>7 DEF Only
<1>9. nodes[n].flag \in {None, t}  BY <1>3 DEF TurnInv, Unmarked
<1> QED  BY <1>6, <1>8, <1>9

LEMMA TurnKnown == TurnInv => Known
BY DEF TurnInv, Knows, Known

\* and every step keeps it, as long as the turns are kept and erases start high enough.
LEMMA NextTurn == TurnInv /\ InTurn /\ Topped /\ [Next]_vars => TurnInv'
<1> SUFFICES ASSUME TurnInv, InTurn, Topped, [Next]_vars PROVE TurnInv'  OBVIOUS
<1>1. LinkInv'  BY TurnFresh, TurnKnown, NextLinks DEF TurnInv
<1>2. TypeInv
  <2>1. PICK B, g : ListInv(B, g)  BY DEF TurnInv, LinkInv
  <2> QED  BY <2>1, Basics
<1>3. CASE UNCHANGED vars  BY <1>1, <1>3 DEF TurnInv, Knows, Unmarked, vars
<1>4. ASSUME NEW t \in Threads, Step(t) PROVE Knows' /\ Unmarked'  BY <1>2, <1>4, StepKnows, StepUnmarked DEF TurnInv
<1> QED  BY <1>1, <1>3, <1>4 DEF Next, Done, TurnInv

\* When the callers keep their turns, a node whose insert begins is neither linked nor
\* marked by anybody, whatever else goes on (the assertions of _sl_node_init).
THEOREM FreshCorrect == Spec /\ []InTurn /\ []Topped => []Fresh
<1> QED  BY InitTurn, NextTurn, TurnFresh, PTL DEF Spec

\* And an erase knows the height of its node, although it has read it before it had the mark.
THEOREM KnownCorrect == Spec /\ []InTurn /\ []Topped => []Known
<1> QED  BY InitTurn, NextTurn, TurnKnown, PTL DEF Spec

-----------------------------------------------------------------------------
\* The threads make the calls of p.
Follows(p) ==
  \A t \in Threads :
    /\ \A j \in DOMAIN todo[t] : todo[t][j] \in CallsOf(p, t)
    /\ l[t].op \in {"insert", "erase"} => \E c \in CallsOf(p, t) : c.op = l[t].op /\ c.node = l[t].node
\* Where the height of a node comes from.
Heights(p) ==
  \A n \in Nodes : IF n \in DOMAIN Warm THEN nodes[n].top = Warm[n]
                   ELSE nodes[n].top = 0 \/ \E t \in Threads : \E c \in CallsOf(p, t) :
                                              c.op = "insert" /\ c.node = n /\ nodes[n].top \in c.tops
\* What p never erases stays in the list.
Lasts(p) == \A m \in DOMAIN Warm : Spared(p, m) => nodes[m].full

\* An insert that is published but not counted yet, and an erase that is unlinked but still counted.
Entering(r) == r.op = "insert" /\ r.pc \in {"release", "count"}
Leaving(r) == r.op = "erase" /\ r.pc \in {"store", "count"}
EnterAt(n) == \E u \in Threads : Entering(l[u]) /\ l[u].node = n
LeaveAt(n) == \E u \in Threads : Leaving(l[u]) /\ l[u].node = n
Shown == \A t \in Threads : /\ Entering(l[t]) => nodes[l[t].node].full
                            /\ Leaving(l[t]) => ~nodes[l[t].node].full
\* The nodes that are counted, by height.
Tallied == {n \in Nodes : (nodes[n].full /\ ~EnterAt(n)) \/ LeaveAt(n)}
AtHeight(i) == {n \in Tallied : nodes[n].top = i}
Tally == IsFiniteSet(Tallied) /\ \A i \in Layers : entries[i] = Cardinality(AtHeight(i))
\* The list is as high as every warm node that is counted; a scan does not go below it.
Lasting == \A n \in DOMAIN Warm \cap Tallied :
             /\ Warm[n] <= listTop
             /\ \A t \in Threads : l[t].pc \in {"scan", "top"} => Warm[n] <= l[t].layer

\* A node that is inserted was not in the list before, and one thread inserts it.
LEMMA InsertOnce ==
  ASSUME NEW p \in Programs, NEW t \in Threads, NEW c \in CallsOf(p, t), c.op = "insert"
  PROVE /\ c.node \notin DOMAIN Warm
        /\ \A u \in Threads : \A d \in CallsOf(p, u) : d.op = "insert" /\ d.node = c.node => u = t
<1>1. PICK i \in DOMAIN p[t] : c = p[t][i]  BY DEF CallsOf
<1>2. c.node \notin DOMAIN Warm  BY <1>1, OnceAssumption
<1>3. ASSUME NEW u \in Threads, NEW d \in CallsOf(p, u), d.op = "insert", d.node = c.node PROVE u = t
  <2>1. PICK j \in DOMAIN p[u] : d = p[u][j]  BY <1>3 DEF CallsOf
  <2> QED  BY <1>1, <1>3, <2>1, OnceAssumption
<1> QED  BY <1>2, <1>3

\* Every step leaves the calls within the program.
LEMMA StepFollows == ASSUME TypeInv, NEW p \in Programs, Follows(p), NEW u \in Threads, Step(u) PROVE Follows(p)'
<1> SUFFICES ASSUME NEW t \in Threads
             PROVE /\ \A j \in DOMAIN todo'[t] : todo'[t][j] \in CallsOf(p, t)
                   /\ l'[t].op \in {"insert", "erase"} => \E c \in CallsOf(p, t) : c.op = l'[t].op /\ c.node = l'[t].node
  BY DEF Follows, CallsOf
<1>0. TypeOK  BY DEF TypeInv
<1>1. CASE Call(u)
  <2>1. PICK c \in Calls : Calling(u, c)  BY <1>0, <1>1, CallIs
  <2>2. \A j \in DOMAIN todo'[t] : todo'[t][j] \in CallsOf(p, t)  BY <2>1 DEF Calling, Follows
  <2>3. CASE u = t
    <3>1. c \in CallsOf(p, t) /\ l'[t].op = c.op /\ (c.op \in {"insert", "erase"} => l'[t].node = c.node)
      BY <2>1, <2>3 DEF Calling, Follows
    <3> QED  BY <2>2, <3>1
  <2>4. CASE u # t  BY <2>1, <2>2, <2>4 DEF Calling, Others, Follows
  <2> QED  BY <2>3, <2>4
<1>2. CASE ~Call(u)
  <2>1. SameOp(u) /\ todo' = todo /\ Idle.op = "none"  BY <1>2, StepSame, StepTodo DEF Idle
  <2> QED  BY <2>1 DEF SameOp, Others, Follows
<1> QED  BY <1>1, <1>2

\* A node has the height that one of its inserts has drawn.
LEMMA StepHeights == ASSUME TypeInv, NEW p \in Programs, Follows(p), Heights(p), NEW u \in Threads, Step(u)
                     PROVE Heights(p)'
<1>0. TypeOK  BY DEF TypeInv
<1> SUFFICES ASSUME NEW n \in Nodes
             PROVE IF n \in DOMAIN Warm THEN nodes'[n].top = Warm[n]
                   ELSE nodes'[n].top = 0 \/ \E t \in Threads : \E c \in CallsOf(p, t) :
                                               c.op = "insert" /\ c.node = n /\ nodes'[n].top \in c.tops
  BY DEF Heights, CallsOf
<1>1. CASE nodes'[n].top = nodes[n].top  BY <1>1 DEF Heights
<1>2. CASE nodes'[n].top # nodes[n].top
  <2>1. Call(u)  BY <1>0, <1>2, StepTop DEF Links
  <2>2. PICK c \in Calls : Calling(u, c)  BY <1>0, <2>1, CallIs
  <2>3. c \in CallsOf(p, u)  BY <2>2 DEF Calling, Follows
  <2>4. c.op = "insert" /\ c.node = n /\ nodes'[n].top \in c.tops  BY <1>2, <2>2 DEF Calling, NodeMade, Links
  <2>5. n \notin DOMAIN Warm  BY <2>3, <2>4, InsertOnce
  <2> QED  BY <2>3, <2>4, <2>5
<1> QED  BY <1>1, <1>2

\* Only Publish and Unlink change who is linked, each its own node.
LEMMA FullOne == ASSUME TypeInv, Fresh, \A v \in Threads : Named(v), NEW u \in Threads, Step(u), NEW n \in Nodes
                 PROVE \/ nodes'[n].full <=> nodes[n].full
                       \/ Publish(u) /\ n = l[u].node /\ l[u].op = "insert" /\ nodes'[n].full
                       \/ Unlink(u) /\ n = l[u].node /\ l[u].op = "erase" /\ ~nodes'[n].full
<1>0. TypeOK /\ n \in Links /\ Named(u)  BY DEF TypeInv, Links
<1>1. ASSUME NEW m, NEW b, Put(m, "full", b) PROVE nodes'[n].full = IF n = m THEN b ELSE nodes[n].full
  BY <1>0, <1>1 DEF Put, TypeOK, NodeRec
<1>2. CASE Publish(u)
  <2>1. Put(l[u].node, "full", TRUE) /\ l[u].op = "insert"  BY <1>0, <1>2 DEF Publish, At, Named
  <2> QED  BY <1>1, <1>2, <2>1
<1>3. CASE Unlink(u)
  <2>1. Put(l[u].node, "full", FALSE) /\ l[u].op = "erase"  BY <1>0, <1>3 DEF Unlink, At, Named
  <2> QED  BY <1>1, <1>3, <2>1
<1>4. CASE ~Publish(u) /\ ~Unlink(u)
  <2>1. Full' = Full  BY <1>0, <1>4, StepFull
  <2>2. (n \in Full <=> nodes[n].full) /\ (n \in Full' <=> nodes'[n].full)  BY DEF Full
  <2> QED  BY <2>1, <2>2
<1> QED  BY <1>2, <1>3, <1>4

\* A thread that is about to store, to release or to count does that.
LEMMA StepAt == ASSUME NEW t \in Threads, Step(t)
                PROVE /\ l[t].pc = "store" => Store(t)
                      /\ l[t].pc = "release" => Release(t)
                      /\ l[t].pc = "count" => Count(t)
<1>1. CASE \/ Call(t) \/ Removed(t) \/ Mark(t) \/ Retire(t) \/ Linked(t) \/ Restore(t) \/ Unmark(t)
           \/ Start(t) \/ Peek(t) \/ Hop(t) \/ Hopped(t) \/ Pass(t) \/ Descend(t) \/ Answer(t) \/ Return(t)
           \/ Place(t) \/ Try(t) \/ Prev(t) \/ NextValid(t) \/ Placed(t)
  <2>1. l[t].pc \notin {"store", "release", "count"}
    BY Zenon, <1>1 DEF Call, Removed, Mark, Retire, Linked, Restore, Unmark, Start, Peek, Hop, Hopped,
       Pass, Descend, Answer, Return,
         Place, Try, Prev, NextValid, Placed, First, Answers, At
  <2> QED  BY SMTT(40), <2>1
<1>2. CASE Unlink(t) \/ Store(t) \/ Publish(t) \/ Release(t) \/ Count(t) \/ Scan(t) \/ SetTop(t) \/ Clear(t)
  BY ZenonT(40), <1>2 DEF Unlink, Store, Publish, Release, Count, Scan, SetTop, Clear, At
<1> QED  BY SMTT(40), <1>1, <1>2 DEF Step

\* How a thread comes to be entering or leaving, and how it ceases to be.
LEMMA OwnTally ==
  ASSUME TypeInv, NEW t \in Threads, Named(t), Step(t)
  PROVE /\ Entering(l'[t]) => l'[t].node = l[t].node /\ (Publish(t) \/ (Release(t) /\ Entering(l[t])))
        /\ Leaving(l'[t]) => l'[t].node = l[t].node /\ (Unlink(t) \/ (Store(t) /\ Leaving(l[t])))
        /\ Entering(l[t]) => (l'[t].node = l[t].node /\ Entering(l'[t])) \/ Count(t)
        /\ Leaving(l[t]) => (l'[t].node = l[t].node /\ Leaving(l'[t])) \/ Count(t)
        /\ Publish(t) => l'[t].node = l[t].node /\ Entering(l'[t])
        /\ Unlink(t) => l'[t].node = l[t].node /\ Leaving(l'[t])
<1>0. TypeOK /\ Idle.pc = "idle"  BY DEF TypeInv, Idle
<1>1. CASE ~Counting(t)
  <2>1. PICK p : Going(t, p) /\ p \notin Tallying /\ (p = "store" => l[t].op = "insert")  BY <1>1, StepAway DEF Away
  <2>2. ~Entering(l'[t]) /\ ~Leaving(l'[t])  BY <1>0, <2>1 DEF Going, Tallying, Entering, Leaving
  <2>3. l[t].pc \notin {"store", "release", "count"}  BY <1>1, StepAt DEF Counting
  <2> QED  BY <1>1, <2>2, <2>3 DEF Entering, Leaving, Counting
<1>2. CASE Call(t)
  <2>1. PICK c \in Calls : Calling(t, c)  BY <1>0, <1>2, CallIs
  <2>2. ~Entering(l'[t]) /\ ~Leaving(l'[t])  BY <2>1 DEF Calling, Entering, Leaving
  <2>3. l[t].pc = "idle"  BY <2>1 DEF Calling
  <2> QED  BY <2>2, <2>3 DEF Entering, Leaving, Publish, Unlink, At
<1>3. CASE Mark(t)
  <2>1. ~Entering(l'[t]) /\ ~Leaving(l'[t])  BY <1>0, <1>3, MarkGoes DEF Entering, Leaving
  <2> QED  BY <1>3, <2>1 DEF Entering, Leaving, Publish, Unlink, Mark, At
<1>4. CASE Unlink(t)
  <2>1. l'[t].pc = "store" /\ l'[t].op = l[t].op /\ l'[t].node = l[t].node /\ l[t].op = "erase" /\ l[t].pc = "unlink"
    BY <1>0, <1>4, CountingGoes DEF Going, Named
  <2> QED  BY <1>4, <2>1 DEF Entering, Leaving, Publish, At
<1>5. CASE Publish(t)
  <2>1. l'[t].pc = "release" /\ l'[t].op = l[t].op /\ l'[t].node = l[t].node /\ l[t].op = "insert" /\ l[t].pc = "publish"
    BY <1>0, <1>5, CountingGoes DEF Going, Named
  <2> QED  BY <1>5, <2>1 DEF Entering, Leaving, Unlink, At
<1>6. CASE Release(t)
  <2>1. l'[t].pc = "count" /\ l'[t].op = l[t].op /\ l'[t].node = l[t].node /\ l[t].op = "insert" /\ l[t].pc = "release"
    BY <1>0, <1>6, CountingGoes DEF Going, Named
  <2> QED  BY <1>6, <2>1 DEF Entering, Leaving, Unlink, Publish, At
<1>7. CASE Store(t)
  <2>1. /\ l[t].pc = "store" /\ l'[t].op = l[t].op /\ l'[t].node = l[t].node
        /\ l'[t].pc = "store" \/ (l[t].op = "insert" /\ l'[t].pc = "publish") \/ (l[t].op # "insert" /\ l'[t].pc = "count")
    <3>1. CASE l[t].op = "insert"  BY <1>0, <1>7, <3>1, CountingGoes DEF Going
    <3>2. CASE l[t].op # "insert"  BY <1>0, <1>7, <3>2, CountingGoes DEF Going
    <3> QED  BY <3>1, <3>2
  <2> QED  BY <1>7, <2>1 DEF Entering, Leaving, Unlink, Publish, At
<1>8. CASE Count(t)
  <2>1. l'[t].pc = "scan" /\ l[t].pc = "count"  BY <1>0, <1>8, CountingGoes DEF Going
  <2> QED  BY <1>8, <2>1 DEF Entering, Leaving, Unlink, Publish, At
<1>9. CASE Scan(t)
  <2>1. l[t].pc = "scan" /\ ~Entering(l'[t]) /\ ~Leaving(l'[t])
    <3>1. l[t].pc = "scan" /\ (Going(t, "top") \/ Going(t, "scan") \/ Away(t))  BY <1>9, CountingGoes
    <3>2. CASE Going(t, "top") \/ Going(t, "scan")  BY <1>0, <3>1, <3>2 DEF Going, Entering, Leaving
    <3>3. CASE Away(t)
      <4>1. PICK p : Going(t, p) /\ p \notin Tallying /\ (p = "store" => l[t].op = "insert")  BY <3>3 DEF Away
      <4> QED  BY <1>0, <3>1, <4>1 DEF Going, Tallying, Entering, Leaving
    <3> QED  BY <3>1, <3>2, <3>3
  <2> QED  BY <2>1 DEF Entering, Leaving, Unlink, Publish, At
<1> QED  BY <1>1, <1>2, <1>3, <1>4, <1>5, <1>6, <1>7, <1>8, <1>9 DEF Counting

\* The inductive invariant that Topped follows from.
LevelInv(p) == TurnInv /\ Follows(p) /\ Heights(p) /\ Lasts(p) /\ Shown /\ Tally /\ Lasting

LEMMA TurnBasics == ASSUME TurnInv
                    PROVE /\ TypeInv /\ TypeOK /\ MarkInv /\ Fresh
                          /\ \A t \in Threads : /\ Named(t) /\ Owns(t) /\ Sound(l[t])
                                                /\ l[t].op \in {"insert", "erase"} => l[t].node \in Nodes
                                                /\ l[t].pc = "publish" => l[t].op = "insert" /\ ~nodes[l[t].node].full
                                                /\ l[t].pc = "unlink" => l[t].op = "erase" /\ nodes[l[t].node].full
                                                /\ l[t].op = "erase" /\ l[t].pc = "start" => nodes[l[t].node].full
<1>1. PICK B, g : ListInv(B, g)  BY DEF TurnInv, LinkInv
<1>2. TypeInv /\ TypeOK /\ MarkInv /\ Fresh  BY <1>1, Basics, TurnFresh
<1>3. ASSUME NEW t \in Threads
      PROVE /\ Named(t) /\ Owns(t) /\ Sound(l[t])
            /\ l[t].op \in {"insert", "erase"} => l[t].node \in Nodes
            /\ l[t].pc = "publish" => l[t].op = "insert" /\ ~nodes[l[t].node].full
            /\ l[t].pc = "unlink" => l[t].op = "erase" /\ nodes[l[t].node].full
            /\ l[t].op = "erase" /\ l[t].pc = "start" => nodes[l[t].node].full
  <2>1. Named(t) /\ Owns(t) /\ Sound(l[t]) /\ Making(B, t) /\ Erasing(B, t)  BY <1>1, Basics DEF Good, Marks
  <2>2. l[t].pc = "publish" => l[t].op = "insert" /\ ~nodes[l[t].node].full  BY <2>1 DEF Named, Making, Unborn
  <2>3. l[t].pc = "unlink" => l[t].op = "erase" /\ nodes[l[t].node].full  BY <2>1 DEF Named, Erasing
  <2>4. l[t].op = "erase" /\ l[t].pc = "start" => nodes[l[t].node].full  BY <2>1 DEF Erasing
  <2> QED  BY <2>1, <2>2, <2>3, <2>4 DEF Sound
<1> QED  BY <1>2, <1>3

\* Nobody unlinks a node that the program never erases.
LEMMA StepLasts == ASSUME TurnInv, NEW p \in Programs, Follows(p), Lasts(p), NEW u \in Threads, Step(u) PROVE Lasts(p)'
<1> SUFFICES ASSUME NEW m \in DOMAIN Warm, Spared(p, m) PROVE nodes'[m].full  BY DEF Lasts, Spared, CallsOf
<1>1. nodes[m].full /\ m \in Nodes  BY ListAssumption DEF Lasts
<1>2. ~(m = l[u].node /\ l[u].op = "erase")  BY DEF Follows, Spared
<1> QED  BY <1>1, <1>2, TurnBasics, FullOne

\* Two threads that work at the same node: no erase meets an insert.
LEMMA NoMeet == ASSUME InTurn, NEW t \in Threads, NEW u \in Threads, l[t].op = "erase", l[u].op = "insert"
                PROVE l[t].node # l[u].node
BY DEF InTurn

LEMMA StepShown == ASSUME TurnInv, InTurn, Shown, NEW u \in Threads, Step(u) PROVE Shown'
<1> SUFFICES ASSUME NEW t \in Threads
             PROVE /\ Entering(l'[t]) => nodes'[l'[t].node].full
                   /\ Leaving(l'[t]) => ~nodes'[l'[t].node].full
  BY DEF Shown, Entering, Leaving
<1> PICK n : n = l[t].node  OBVIOUS
<1>1. TypeInv /\ TypeOK /\ Fresh /\ Others(u) /\ \A v \in Threads : Named(v)
  <2>1. CASE Call(u)  BY <2>1, TurnBasics, CallIs DEF Calling
  <2>2. CASE ~Call(u)  BY <2>2, TurnBasics, StepSame DEF SameOp
  <2> QED  BY <2>1, <2>2, TurnBasics
<1>2. l[t].op \in {"insert", "erase"} => n \in Nodes  BY TurnBasics
<1>3. n \in Nodes => \/ nodes'[n].full <=> nodes[n].full
                     \/ Publish(u) /\ n = l[u].node /\ l[u].op = "insert" /\ nodes'[n].full
                     \/ Unlink(u) /\ n = l[u].node /\ l[u].op = "erase" /\ ~nodes'[n].full
  BY <1>1, FullOne
<1>4. CASE u = t
  <2>1. /\ Entering(l'[t]) => l'[t].node = n /\ (Publish(t) \/ (Release(t) /\ Entering(l[t])))
        /\ Leaving(l'[t]) => l'[t].node = n /\ (Unlink(t) \/ (Store(t) /\ Leaving(l[t])))
    BY <1>1, <1>4, OwnTally
  <2>2. /\ Publish(t) => l[t].pc = "publish" /\ l[t].op = "insert" /\ nodes'[n].full
        /\ Unlink(t) => l[t].pc = "unlink" /\ l[t].op = "erase" /\ ~nodes'[n].full
    <3>1. /\ Publish(t) => l[t].pc = "publish" /\ Put(n, "full", TRUE)
          /\ Unlink(t) => l[t].pc = "unlink" /\ Put(n, "full", FALSE)
      BY DEF Publish, Unlink, At
    <3>2. ASSUME NEW b, Put(n, "full", b), n \in Nodes PROVE nodes'[n].full = b
      BY <1>1, <3>2 DEF Put, TypeOK, NodeRec, Links
    <3> QED  BY ZenonT(40), <1>1, <1>2, <3>1, <3>2 DEF Named
  <2>3. /\ Release(t) => l[t].pc = "release"
        /\ Store(t) => l[t].pc = "store"
    BY DEF Release, Store, At
  <2>4. Entering(l'[t]) => nodes'[n].full
    <3>1. CASE Release(t) /\ Entering(l[t])
      <4>1. nodes[n].full /\ n \in Nodes /\ ~Publish(u) /\ ~Unlink(u)
        BY <1>2, <1>4, <2>2, <2>3, <3>1 DEF Shown, Entering
      <4> QED  BY <1>3, <4>1
    <3> QED  BY <2>1, <2>2, <3>1
  <2>5. Leaving(l'[t]) => ~nodes'[n].full
    <3>1. CASE Store(t) /\ Leaving(l[t])
      <4>1. ~nodes[n].full /\ n \in Nodes /\ ~Publish(u) /\ ~Unlink(u)
        BY <1>2, <1>4, <2>2, <2>3, <3>1 DEF Shown, Leaving
      <4> QED  BY <1>3, <4>1
    <3> QED  BY <2>1, <2>2, <3>1
  <2> QED  BY <2>1, <2>4, <2>5
<1>5. CASE u # t
  <2>1. l'[t] = l[t]  BY <1>1, <1>5 DEF Others
  <2>2. Entering(l[t]) => ~(l[u].op = "erase" /\ n = l[u].node) /\ n \in Nodes /\ nodes[n].full
    BY <1>2, NoMeet DEF Entering, Shown
  <2>3. Leaving(l[t]) => ~(l[u].op = "insert" /\ n = l[u].node) /\ n \in Nodes /\ ~nodes[n].full
    BY <1>2, NoMeet DEF Leaving, Shown
  <2> QED  BY <1>3, <2>1, <2>2, <2>3
<1> QED  BY <1>4, <1>5

\* A step that neither publishes, unlinks nor counts the node leaves it as it was counted.
LEMMA SameTallied ==
  ASSUME TurnInv, NEW u \in Threads, Step(u), NEW n \in Nodes,
         n = l[u].node => ~Publish(u) /\ ~Unlink(u) /\ ~Count(u)
  PROVE n \in Tallied' <=> n \in Tallied
<1>1. TypeInv /\ TypeOK /\ Fresh /\ Others(u) /\ \A v \in Threads : Named(v)
  <2>1. CASE Call(u)  BY <2>1, TurnBasics, CallIs DEF Calling
  <2>2. CASE ~Call(u)  BY <2>2, TurnBasics, StepSame DEF SameOp
  <2> QED  BY <2>1, <2>2, TurnBasics
<1>2. nodes'[n].full <=> nodes[n].full  BY <1>1, FullOne
<1>3. /\ Entering(l'[u]) => l'[u].node = l[u].node /\ (Publish(u) \/ (Release(u) /\ Entering(l[u])))
      /\ Leaving(l'[u]) => l'[u].node = l[u].node /\ (Unlink(u) \/ (Store(u) /\ Leaving(l[u])))
      /\ Entering(l[u]) => (l'[u].node = l[u].node /\ Entering(l'[u])) \/ Count(u)
      /\ Leaving(l[u]) => (l'[u].node = l[u].node /\ Leaving(l'[u])) \/ Count(u)
  BY <1>1, OwnTally
<1>4. ASSUME NEW v \in Threads
      PROVE /\ Entering(l'[v]) /\ l'[v].node = n <=> Entering(l[v]) /\ l[v].node = n
            /\ Leaving(l'[v]) /\ l'[v].node = n <=> Leaving(l[v]) /\ l[v].node = n
  <2>1. CASE v = u  BY <1>3, <2>1
  <2>2. CASE v # u  BY <1>1, <2>2 DEF Others
  <2> QED  BY <2>1, <2>2
<1>5. (EnterAt(n)' <=> EnterAt(n)) /\ (LeaveAt(n)' <=> LeaveAt(n))  BY <1>4 DEF EnterAt, LeaveAt, Entering, Leaving
<1> QED  BY <1>2, <1>5 DEF Tallied

\* Only a count changes which nodes are counted,
LEMMA QuietTallied == ASSUME TurnInv, InTurn, NEW u \in Threads, Step(u), ~Count(u) PROVE Tallied' = Tallied
<1>1. ASSUME NEW n \in Nodes PROVE n \in Tallied' <=> n \in Tallied
  <2>1. CASE ~(n = l[u].node /\ (Publish(u) \/ Unlink(u)))  BY <2>1, SameTallied
  <2>2. CASE n = l[u].node /\ (Publish(u) \/ Unlink(u))
    <3>1. TypeInv /\ TypeOK /\ Fresh /\ Others(u) /\ Named(u) /\ (l'[u].node = n)
      <4>1. ~Call(u)  BY <2>2, TurnBasics DEF Publish, Unlink, Call, At
      <4>2. l'[u].node = n  BY <2>2, TurnBasics, OwnTally
      <4> QED  BY <4>1, <4>2, TurnBasics, StepSame DEF SameOp
    <3>2. CASE Publish(u)
      <4>1. l[u].pc = "publish" /\ l[u].op = "insert" /\ ~nodes[n].full  BY <2>2, <3>2, TurnBasics DEF Publish, At
      <4>2. ~LeaveAt(n)  BY <2>2, <4>1, NoMeet DEF LeaveAt, Leaving
      <4>3. Entering(l'[u])  BY <3>1, <3>2, OwnTally
      <4>4. EnterAt(n)'  BY <3>1, <4>3 DEF EnterAt, Entering
      <4>5. ~LeaveAt(n)'
        <5>1. ~Leaving(l'[u])  BY <4>3 DEF Entering, Leaving
        <5>2. ASSUME NEW v \in Threads, Leaving(l'[v]), l'[v].node = n PROVE FALSE
          <6>1. v # u /\ l'[v] = l[v]  BY <3>1, <5>1, <5>2 DEF Others
          <6> QED  BY <4>2, <5>2, <6>1 DEF LeaveAt
        <5> QED  BY <5>2 DEF LeaveAt, Leaving
      <4> QED  BY <4>1, <4>2, <4>4, <4>5 DEF Tallied
    <3>3. CASE Unlink(u)
      <4>1. l[u].pc = "unlink" /\ l[u].op = "erase" /\ nodes[n].full  BY <2>2, <3>3, TurnBasics DEF Unlink, At
      <4>2. ~EnterAt(n)  BY <2>2, <4>1, NoMeet DEF EnterAt, Entering
      <4>3. Leaving(l'[u])  BY <3>1, <3>3, OwnTally
      <4>4. LeaveAt(n)'  BY <3>1, <4>3 DEF LeaveAt, Leaving
      <4> QED  BY <4>1, <4>2, <4>4 DEF Tallied
    <3> QED  BY <2>2, <3>2, <3>3
  <2> QED  BY <2>1, <2>2
<1> QED  BY <1>1 DEF Tallied

\* and it changes its own node.
LEMMA CountTallied ==
  ASSUME TurnInv, InTurn, NEW p \in Programs, Follows(p), Shown, NEW u \in Threads, Step(u), Count(u)
  PROVE /\ l[u].node \in Nodes /\ l[u].op \in {"insert", "erase"}
        /\ l[u].op = "insert" => l[u].node \notin Tallied /\ Tallied' = Tallied \cup {l[u].node}
        /\ l[u].op = "erase" => l[u].node \in Tallied /\ Tallied' = Tallied \ {l[u].node}
<1> PICK n : n = l[u].node  OBVIOUS
<1>1. TypeInv /\ TypeOK /\ Fresh /\ Others(u) /\ Named(u) /\ Sound(l[u]) /\ MarkInv /\ \A v \in Threads : Owns(v)
  <2>1. ~Call(u)  BY SMTT(40), TurnBasics DEF Count, Call, At
  <2> QED  BY <2>1, TurnBasics, StepSame DEF SameOp
<1>2. l[u].pc = "count" /\ l'[u].pc = "scan" /\ nodes' = nodes /\ ~Publish(u) /\ ~Unlink(u)
  BY <1>1, CountingGoes DEF Count, At, Going, Publish, Unlink, Idle
<1>3. l[u].op \in {"insert", "erase"} /\ n \in Nodes  BY <1>1, <1>2 DEF Sound, Change
<1>4. \A m \in Nodes \ {n} : m \in Tallied' <=> m \in Tallied  BY SameTallied
<1>5. ~Entering(l'[u]) /\ ~Leaving(l'[u])  BY <1>2 DEF Entering, Leaving
<1>6. ASSUME l[u].op = "insert" PROVE n \notin Tallied /\ n \in Tallied'
  <2>1. Entering(l[u]) /\ nodes[n].full /\ EnterAt(n)  BY <1>2, <1>6 DEF Entering, Shown, EnterAt
  <2>2. ~LeaveAt(n)  BY <1>6, NoMeet DEF LeaveAt, Leaving
  <2>3. ASSUME NEW v \in Threads, Entering(l'[v]), l'[v].node = n PROVE FALSE
    <3>1. v # u /\ l[v].op = "insert" /\ l[v].node = n  BY <1>1, <1>5, <2>3 DEF Others, Entering
    <3>2. PICK c \in CallsOf(p, u) : c.op = "insert" /\ c.node = n  BY <1>6 DEF Follows
    <3>3. PICK d \in CallsOf(p, v) : d.op = "insert" /\ d.node = n  BY <3>1 DEF Follows
    <3> QED  BY <3>1, <3>2, <3>3, InsertOnce
  <2>4. ~EnterAt(n)'  BY <2>3 DEF EnterAt, Entering
  <2> QED  BY <1>2, <1>3, <2>1, <2>2, <2>4 DEF Tallied
<1>7. ASSUME l[u].op = "erase" PROVE n \in Tallied /\ n \notin Tallied'
  <2>1. Leaving(l[u]) /\ ~nodes[n].full /\ LeaveAt(n)  BY <1>2, <1>7 DEF Leaving, Shown, LeaveAt
  <2>2. ASSUME NEW v \in Threads, Leaving(l'[v]), l'[v].node = n PROVE FALSE
    <3>1. v # u /\ Leaving(l[v]) /\ l[v].node = n  BY <1>1, <1>5, <2>2 DEF Others
    <3>2. nodes[n].flag = v /\ nodes[n].flag = u  BY <1>1, <2>1, <3>1 DEF Owns, Own, Leaving
    <3> QED  BY <3>1, <3>2
  <2>3. ~LeaveAt(n)'  BY <2>2 DEF LeaveAt, Leaving
  <2> QED  BY <1>2, <1>3, <2>1, <2>3 DEF Tallied
<1>8. Tallied \subseteq Nodes /\ Tallied' \subseteq Nodes  BY DEF Tallied
<1> QED  BY <1>3, <1>4, <1>6, <1>7, <1>8

LEMMA StepEntries == ASSUME NEW t \in Threads, Step(t), ~Count(t) PROVE entries' = entries
BY ZenonT(60) DEF Step, Call, Removed, Mark, Retire, Linked, Restore, Unmark, Start, Peek, Hop, Hopped, Pass, Descend, Answer,
     Return, Place, Try, Prev, NextValid, Placed, Unlink, Store, Publish, Release, Scan, SetTop, Clear, Fixed, Shared

LEMMA StepListTop == ASSUME NEW t \in Threads, Step(t), ~SetTop(t) PROVE listTop' = listTop
BY ZenonT(60) DEF Step, Call, Removed, Mark, Retire, Linked, Restore, Unmark, Start, Peek, Hop, Hopped, Pass, Descend, Answer,
     Return, Place, Try, Prev, NextValid, Placed, Unlink, Store, Publish, Release, Count, Scan, Clear, Fixed, Shared

\* A node that is counted keeps its height.
LEMMA TalliedTop == ASSUME TurnInv, InTurn, NEW u \in Threads, Step(u), NEW n \in Tallied PROVE nodes'[n].top = nodes[n].top
<1>1. n \in Nodes /\ n \in Links /\ TypeOK  BY TurnBasics DEF Tallied, Links
<1>2. CASE ~Call(u)  BY <1>1, <1>2, StepTop
<1>3. CASE Call(u)
  <2>1. PICK c \in Calls : Calling(u, c)  BY <1>1, <1>3, CallIs
  <2>2. CASE nodes'[n] = nodes[n]  BY <2>2
  <2>3. CASE NodeMade(c, n)
    <3>1. todo[u] # <<>> /\ todo[u][1] = c /\ c.op = "insert" /\ n = c.node /\ l[u].pc = "idle" /\ 1 \in DOMAIN todo[u]
      BY <1>3, <2>1, <2>3 DEF Call, Calling, NodeMade
    <3>2. ~nodes[n].full  BY <3>1, TurnFresh DEF Fresh, At
    <3>3. PICK v \in Threads : Leaving(l[v]) /\ l[v].node = n  BY <3>2 DEF Tallied, LeaveAt
    <3>4. l[v].op = "erase" /\ v # u  BY <3>1, <3>3 DEF Leaving
    <3> QED  BY <3>1, <3>3, <3>4 DEF InTurn
  <2> QED  BY <1>1, <2>1, <2>2, <2>3 DEF Calling
<1> QED  BY <1>2, <1>3

\* The counters of the layers are exact, apart from inserts and erases on their way to them.
LEMMA StepTally ==
  ASSUME TurnInv, InTurn, NEW p \in Programs, Follows(p), Shown, Tally, NEW u \in Threads, Step(u)
  PROVE Tally'
<1>1. IsFiniteSet(Tallied) /\ (\A i \in Layers : entries[i] = Cardinality(AtHeight(i))) /\ TypeOK
  BY TurnBasics DEF Tally
<1>2. CASE ~Count(u)
  <2>1. Tallied' = Tallied /\ entries' = entries  BY <1>2, QuietTallied, StepEntries
  <2>2. ASSUME NEW i \in Layers PROVE AtHeight(i)' = AtHeight(i)  BY <2>1, TalliedTop DEF AtHeight
  <2> QED  BY <1>1, <2>1, <2>2 DEF Tally
<1>3. CASE Count(u)
  <2> PICK n, h : n = l[u].node /\ h = nodes[n].top  OBVIOUS
  <2>1. /\ n \in Nodes /\ l[u].op \in {"insert", "erase"}
        /\ l[u].op = "insert" => n \notin Tallied /\ Tallied' = Tallied \cup {n}
        /\ l[u].op = "erase" => n \in Tallied /\ Tallied' = Tallied \ {n}
    BY <1>3, CountTallied
  <2>2. /\ nodes' = nodes
        /\ entries' = [entries EXCEPT ![h] = IF l[u].op = "insert" THEN @ + 1 ELSE @ - 1]
    BY <1>3 DEF Count
  <2>3. h \in Layers  BY <1>1, <2>1 DEF TypeOK, NodeRec, Links
  <2>4. IsFiniteSet(Tallied')  BY <1>1, <2>1, FS_AddElement, FS_RemoveElement
  <2>5. ASSUME NEW i \in Layers PROVE entries'[i] = Cardinality(AtHeight(i)')
    <3>1. IsFiniteSet(AtHeight(i))
      <4>1. AtHeight(i) \subseteq Tallied  BY DEF AtHeight
      <4> QED  BY <1>1, <4>1, FS_Subset
    <3>2. CASE i # h
      <4>1. AtHeight(i)' = AtHeight(i)  BY <2>1, <2>2, <3>2 DEF AtHeight
      <4>2. entries'[i] = entries[i]  BY <1>1, <2>2, <2>3, <3>2 DEF TypeOK
      <4> QED  BY <1>1, <4>1, <4>2
    <3>3. CASE i = h /\ l[u].op = "insert"
      <4>1. AtHeight(i)' = AtHeight(i) \cup {n} /\ n \notin AtHeight(i)  BY <2>1, <2>2, <3>3 DEF AtHeight
      <4>2. entries'[i] = entries[i] + 1  BY <1>1, <2>2, <2>3, <3>3 DEF TypeOK
      <4> QED  BY ZenonT(40), <1>1, <3>1, <4>1, <4>2, FS_AddElement
    <3>4. CASE i = h /\ l[u].op = "erase"
      <4>1. AtHeight(i)' = AtHeight(i) \ {n} /\ n \in AtHeight(i)  BY <2>1, <2>2, <3>4 DEF AtHeight
      <4>2. entries'[i] = entries[i] - 1  BY <1>1, <2>2, <2>3, <3>4 DEF TypeOK
      <4>3. Cardinality(AtHeight(i) \ {n}) = Cardinality(AtHeight(i)) - 1  BY <3>1, <4>1, FS_RemoveElement
      <4>4. entries[i] = Cardinality(AtHeight(i))  BY <1>1
      <4> QED  BY <4>1, <4>2, <4>3, <4>4
    <3> QED  BY <2>1, <3>2, <3>3, <3>4
  <2> QED  BY <2>4, <2>5 DEF Tally
<1> QED  BY <1>2, <1>3

\* What a thread in a scan does next.
LEMMA ScanGoes ==
  ASSUME TypeInv, NEW t \in Threads, Step(t), l'[t].pc \in {"scan", "top"}
  PROVE \/ Count(t) /\ l'[t].layer = MaxLayer - 1
        \/ Scan(t) /\ l[t].pc = "scan" /\ l'[t].layer = l[t].layer
        \/ Scan(t) /\ l[t].pc = "scan" /\ entries[l[t].layer] = 0 /\ l[t].layer > 0 /\ l'[t].layer = l[t].layer - 1
<1>1. TypeOK /\ l[t] \in Locals /\ Idle.pc = "idle"  BY DEF TypeInv, TypeOK, Idle
<1>2. ASSUME NEW p, p \notin Tallying, Going(t, p) PROVE FALSE  BY <1>1, <1>2 DEF Going, Tallying
<1>3. ~Away(t)  BY <1>2 DEF Away
<1>4. CASE Count(t)
  <2>1. Goto(t, "scan", [l[t] EXCEPT !.layer = MaxLayer - 1])  BY <1>4 DEF Count
  <2>2. l'[t] = [[l[t] EXCEPT !.layer = MaxLayer - 1] EXCEPT !.pc = "scan"]  BY <1>1, <2>1 DEF Goto, TypeOK
  <2>3. l'[t].layer = MaxLayer - 1  BY ZenonT(40), <1>1, <2>2 DEF Locals
  <2> QED  BY <1>4, <2>3
<1>5. CASE Scan(t)
  <2>1. l[t].pc = "scan"  BY <1>5 DEF Scan, At
  <2>2. CASE Goto(t, "top", l[t])
    <3>1. l'[t] = [l[t] EXCEPT !.pc = "top"]  BY <1>1, <2>2 DEF Goto, TypeOK
    <3>2. l'[t].layer = l[t].layer  BY ZenonT(40), <1>1, <3>1 DEF Locals
    <3> QED  BY <1>5, <2>1, <3>2
  <2>3. CASE Goto(t, "scan", [l[t] EXCEPT !.layer = @ - 1]) /\ entries[l[t].layer] = 0 /\ l[t].layer > 0
    <3>1. l'[t] = [[l[t] EXCEPT !.layer = @ - 1] EXCEPT !.pc = "scan"]  BY <1>1, <2>3 DEF Goto, TypeOK
    <3>2. l'[t].layer = l[t].layer - 1  BY ZenonT(40), <1>1, <3>1 DEF Locals
    <3> QED  BY <1>5, <2>1, <2>3, <3>2
  <2>4. CASE Finish(t)
    <3>1. PICK p \in {"idle", "unmark"} : ClearFrom(t, 0, p, {})  BY <2>4 DEF Finish
    <3>2. Away(t)  BY <1>1, <3>1, ClearAway DEF Tallying
    <3> QED  BY <1>3, <3>2
  <2> QED  BY <1>5, <2>2, <2>3, <2>4 DEF Scan
<1>6. ~Call(t)
  <2>1. ASSUME NEW c, Calling(t, c) PROVE FALSE  BY <2>1 DEF Calling
  <2> QED  BY <1>1, <2>1, CallIs
<1>7. ~Mark(t)  BY <1>1, MarkGoes
<1>8. ~Unlink(t) /\ ~Publish(t)  BY <1>1, CountingGoes DEF Going
<1>9. ~Release(t) /\ ~Store(t)
  <2>1. ~Release(t)  BY <1>1, CountingGoes DEF Going
  <2>2. ~Store(t)
    <3>1. ASSUME Store(t) PROVE Going(t, "store") \/ Going(t, "publish") \/ Going(t, "count")
      <4>1. CASE l[t].op = "insert"  BY <3>1, <4>1, CountingGoes
      <4>2. CASE l[t].op # "insert"  BY <3>1, <4>2, CountingGoes
      <4> QED  BY <4>1, <4>2
    <3> QED  BY <1>1, <3>1 DEF Going
  <2> QED  BY <2>1, <2>2
<1> QED  BY <1>3, <1>4, <1>5, <1>6, <1>7, <1>8, <1>9, StepAway DEF Counting

\* The list's height stays at or above the warm nodes that are counted, though it is written from a scan
\* that others have overtaken: a scan reads a positive counter where such a node stands.
LEMMA StepLasting ==
  ASSUME TurnInv, InTurn, NEW p \in Programs, Follows(p), Heights(p), Shown, Tally, Lasting, NEW u \in Threads, Step(u)
  PROVE Lasting'
<1>1. TypeInv /\ TypeOK  BY TurnBasics
<1> SUFFICES ASSUME NEW n \in DOMAIN Warm, n \in Tallied'
             PROVE /\ Warm[n] <= listTop'
                   /\ \A t \in Threads : l'[t].pc \in {"scan", "top"} => Warm[n] <= l'[t].layer
  BY DEF Lasting
<1>2. n \in Nodes /\ Warm[n] \in Layers /\ Warm[n] \in Int /\ MaxLayer \in Int /\ Warm[n] <= MaxLayer - 1
  BY ListAssumption DEF Layers
<1>3. n \in Tallied
  <2>1. CASE ~Count(u)  BY <2>1, QuietTallied
  <2>2. CASE Count(u)
    <3>1. l[u].op = "insert" => n # l[u].node
      <4>1. ASSUME l[u].op = "insert" PROVE l[u].node \notin DOMAIN Warm
        <5>1. PICK c \in CallsOf(p, u) : c.op = "insert" /\ c.node = l[u].node  BY <4>1 DEF Follows
        <5> QED  BY <5>1, InsertOnce
      <4> QED  BY <4>1
    <3> QED  BY <2>2, <3>1, CountTallied
  <2> QED  BY <2>1, <2>2
<1>4. Warm[n] <= listTop /\ \A t \in Threads : l[t].pc \in {"scan", "top"} => Warm[n] <= l[t].layer  BY <1>3 DEF Lasting
<1>5. Warm[n] <= listTop'
  <2>1. CASE ~SetTop(u)  BY <1>4, <2>1, StepListTop
  <2>2. CASE SetTop(u)  BY <1>4, <2>2 DEF SetTop, At
  <2> QED  BY <2>1, <2>2
<1>6. ASSUME NEW t \in Threads, l'[t].pc \in {"scan", "top"} PROVE Warm[n] <= l'[t].layer
  <2>1. CASE t # u
    <3>1. l'[t] = l[t]
      <4>1. CASE Call(u)  BY <1>1, <2>1, <4>1, CallIs DEF Calling, Others
      <4>2. CASE ~Call(u)  BY <1>1, <2>1, <4>2, StepSame DEF SameOp, Others
      <4> QED  BY <4>1, <4>2
    <3> QED  BY <1>4, <1>6, <3>1
  <2>2. CASE t = u
    <3>1. CASE l'[t].layer = MaxLayer - 1  BY <1>2, <3>1
    <3>2. CASE l[t].pc = "scan" /\ l'[t].layer = l[t].layer  BY <1>4, <3>2
    <3>3. CASE l[t].pc = "scan" /\ entries[l[t].layer] = 0 /\ l'[t].layer = l[t].layer - 1
      <4> PICK i : i = l[t].layer  OBVIOUS
      <4>1. i \in Layers /\ i \in Int  BY <1>1 DEF TypeOK, Locals, Layers
      <4>2. Cardinality(AtHeight(i)) = 0 /\ IsFiniteSet(AtHeight(i))
        <5>1. AtHeight(i) \subseteq Tallied  BY DEF AtHeight
        <5> QED  BY <3>3, <4>1, <5>1, FS_Subset DEF Tally
      <4>3. AtHeight(i) = {}  BY <4>2, FS_EmptySet
      <4>4. nodes[n].top = Warm[n]  BY <1>2 DEF Heights
      <4>5. Warm[n] # i  BY <1>3, <4>3, <4>4 DEF AtHeight
      <4>6. Warm[n] <= i  BY <1>4, <3>3
      <4> QED  BY <1>2, <3>3, <4>1, <4>5, <4>6
    <3> QED  BY <1>1, <1>6, <2>2, <3>1, <3>2, <3>3, ScanGoes
  <2> QED  BY <2>1, <2>2
<1> QED  BY <1>5, <1>6

LEMMA InitNodes == ASSUME Init, NEW n \in Nodes
                   PROVE /\ n \in DOMAIN Warm => nodes[n].top = Warm[n] /\ nodes[n].full
                         /\ n \notin DOMAIN Warm => nodes[n].top = 0 /\ ~nodes[n].full
<1>1. n \in Links /\ n # head /\ n # tail  BY ListAssumption DEF Links
<1>2. CASE n \in DOMAIN Warm
  <2>1. nodes[n] = Node(n, Warm[n])  BY <1>1, <1>2 DEF Init
  <2>2. Warm[n] \in Int /\ Warm[n] >= 0  BY <1>2, ListAssumption DEF Layers
  <2>3. Node(n, Warm[n]).top = Warm[n] /\ Node(n, Warm[n]).full = TRUE  BY <2>2, NodeFields
  <2> QED  BY <1>2, <2>1, <2>3
<1>3. CASE n \notin DOMAIN Warm
  <2>1. nodes[n] = [Node(n, -1) EXCEPT !.full = FALSE]  BY <1>1, <1>3 DEF Init
  <2>2. [Node(n, -1) EXCEPT !.full = FALSE].top = 0 /\ [Node(n, -1) EXCEPT !.full = FALSE].full = FALSE  BY DEF Node
  <2> QED  BY <1>3, <2>1, <2>2
<1> QED  BY <1>2, <1>3

LEMMA InitLevel == Init => \E p \in Programs : LevelInv(p)
<1> SUFFICES ASSUME Init PROVE \E p \in Programs : LevelInv(p)  OBVIOUS
<1> PICK p : p = todo  OBVIOUS
<1>1. p \in Programs /\ TurnInv  BY InitTurn DEF Init
<1>2. \A t \in Threads : l[t] = Idle /\ l[t].op = "none" /\ l[t].pc = "idle"  BY DEF Init, Idle
<1>3. Follows(p)  BY <1>2 DEF Follows, CallsOf
<1>4. Heights(p)  BY InitNodes DEF Heights
<1>5. Lasts(p)  BY InitNodes, ListAssumption DEF Lasts
<1>6. \A t \in Threads : ~Entering(l[t]) /\ ~Leaving(l[t])  BY <1>2 DEF Entering, Leaving
<1>7. Tallied = DOMAIN Warm
  <2>1. \A n \in Nodes : n \in Tallied <=> n \in DOMAIN Warm  BY <1>6, InitNodes DEF Tallied, EnterAt, LeaveAt
  <2> QED  BY <2>1, ListAssumption DEF Tallied
<1>8. Tally
  <2>1. ASSUME NEW i \in Layers PROVE entries[i] = Cardinality(AtHeight(i))
    <3>1. AtHeight(i) = {n \in DOMAIN Warm : Warm[n] = i}
      <4>1. \A n \in DOMAIN Warm : nodes[n].top = Warm[n]  BY InitNodes, ListAssumption
      <4> QED  BY <1>7, <4>1 DEF AtHeight
    <3> QED  BY <3>1 DEF Init
  <2> QED  BY <1>7, <2>1, ListAssumption DEF Tally
<1>9. Lasting  BY <1>2 DEF Lasting, Init
<1> QED  BY <1>1, <1>3, <1>4, <1>5, <1>6, <1>8, <1>9 DEF LevelInv, Shown

\* An erase begins its descent high enough.
LEMMA LevelTopped == ASSUME NEW p \in Programs, Level(p), LevelInv(p), InTurn PROVE Topped
<1> SUFFICES ASSUME NEW t \in Threads, l[t].pc = "start", l[t].op = "erase" PROVE l[t].top <= listTop  BY DEF Topped, At
<1> PICK n : n = l[t].node  OBVIOUS
<1>1. TurnInv /\ Follows(p) /\ Heights(p) /\ Lasts(p) /\ Lasting  BY DEF LevelInv
<1>2. n \in Nodes /\ nodes[n].full /\ TypeOK  BY <1>1, TurnBasics
<1>3. l[t].top = nodes[n].top  BY <1>1 DEF TurnInv, Knows
<1>4. listTop \in Int /\ listTop >= 0  BY <1>2 DEF TypeOK, Layers
<1>5. CASE n \in DOMAIN Warm
  <2>1. ~EnterAt(n)  BY NoMeet DEF EnterAt, Entering
  <2>2. n \in Tallied  BY <1>2, <2>1 DEF Tallied
  <2>3. Warm[n] <= listTop  BY <1>1, <1>5, <2>2 DEF Lasting
  <2> QED  BY <1>1, <1>2, <1>3, <1>5, <2>3 DEF Heights
<1>6. CASE n \notin DOMAIN Warm /\ nodes[n].top = 0  BY <1>3, <1>4, <1>6
<1>7. CASE n \notin DOMAIN Warm /\ nodes[n].top # 0
  <2>1. PICK u \in Threads : \E c \in CallsOf(p, u) : c.op = "insert" /\ c.node = n /\ nodes[n].top \in c.tops
    BY <1>1, <1>2, <1>7 DEF Heights
  <2>2. PICK c \in CallsOf(p, u) : c.op = "insert" /\ c.node = n /\ nodes[n].top \in c.tops  BY <2>1
  <2>3. PICK d \in CallsOf(p, t) : d.op = "erase" /\ d.node = n  BY <1>1 DEF Follows
  <2>4. PICK m \in DOMAIN Warm : nodes[n].top <= Warm[m] /\ Spared(p, m)  BY <1>7, <2>2, <2>3 DEF Level
  <2>5. nodes[m].full /\ m \in Nodes  BY <1>1, <2>4, ListAssumption DEF Lasts
  <2>6. ~EnterAt(m)
    <3>1. ASSUME NEW v \in Threads, l[v].op = "insert", l[v].node = m PROVE FALSE
      <4>1. PICK b \in CallsOf(p, v) : b.op = "insert" /\ b.node = m  BY <1>1, <3>1 DEF Follows
      <4> QED  BY <4>1, InsertOnce
    <3> QED  BY <3>1 DEF EnterAt, Entering
  <2>7. Warm[m] <= listTop
    <3>1. m \in Tallied  BY <2>5, <2>6 DEF Tallied
    <3> QED  BY <1>1, <3>1 DEF Lasting
  <2>8. Warm[m] \in Int /\ nodes[n].top \in Int
    <3>1. n \in Links  BY <1>2 DEF Links
    <3> QED  BY <1>2, <3>1, ListAssumption DEF TypeOK, NodeRec, Layers
  <2> QED  BY <1>3, <1>4, <2>4, <2>7, <2>8
<1> QED  BY <1>5, <1>6, <1>7

\* Every step keeps the invariant, as long as the turns are kept.
LEMMA NextLevel == ASSUME NEW p \in Programs, Level(p), LevelInv(p), InTurn, [Next]_vars PROVE LevelInv(p)'
<1>1. Topped /\ TurnInv /\ Follows(p) /\ Heights(p) /\ Lasts(p) /\ Shown /\ Tally /\ Lasting /\ TypeInv
  BY LevelTopped, TurnBasics DEF LevelInv
<1>2. TurnInv'  BY <1>1, NextTurn
<1>3. CASE UNCHANGED vars
  <2>1. nodes' = nodes /\ l' = l /\ todo' = todo /\ entries' = entries /\ listTop' = listTop  BY <1>3 DEF vars
  <2>2. Follows(p)' /\ Heights(p)' /\ Lasts(p)' /\ Shown'
    BY <1>1, <2>1 DEF Follows, Heights, Lasts, Shown, CallsOf, Spared, Entering, Leaving
  <2>3. Tallied' = Tallied  BY <2>1 DEF Tallied, EnterAt, LeaveAt, Entering, Leaving
  <2>4. \A i \in Layers : AtHeight(i)' = AtHeight(i)  BY <2>1, <2>3 DEF AtHeight
  <2>5. Tally' /\ Lasting'  BY <1>1, <2>1, <2>3, <2>4 DEF Tally, Lasting
  <2> QED  BY <1>2, <2>2, <2>5 DEF LevelInv
<1>4. ASSUME NEW u \in Threads, Step(u) PROVE LevelInv(p)'
  <2>1. Follows(p)' /\ Heights(p)' /\ Lasts(p)' /\ Shown'
    BY <1>1, <1>4, StepFollows, StepHeights, StepLasts, StepShown
  <2>2. Tally' /\ Lasting'  BY <1>1, <1>4, StepTally, StepLasting
  <2> QED  BY <1>2, <2>1, <2>2 DEF LevelInv
<1> QED  BY <1>3, <1>4 DEF Next, Done

\* The invariant, for the program that runs.
SomeLevel == \E p \in Programs : LevelInv(p)

\* In programs where what is erased is no higher than what stays, the list is as high as
\* every node that an erase begins to look for: the descent starts at or above its top layer.
THEOREM ToppedCorrect == Steady => (Spec /\ []InTurn => []Topped)
<1>1. Steady /\ SomeLevel /\ InTurn => Topped  BY LevelTopped DEF Steady, SomeLevel
<1>2. Steady /\ SomeLevel /\ InTurn /\ [Next]_vars => SomeLevel'
  <2> SUFFICES ASSUME Steady, SomeLevel, InTurn, [Next]_vars PROVE SomeLevel'  OBVIOUS
  <2>1. PICK p \in Programs : LevelInv(p)  BY DEF SomeLevel
  <2>2. LevelInv(p)'  BY <2>1, NextLevel DEF Steady
  <2> QED  BY <2>2 DEF SomeLevel
<1>3. Init => SomeLevel  BY InitLevel DEF SomeLevel
<1>4. Steady => []Steady
  <2>1. Steady => Steady'  BY DEF Steady
  <2> QED  BY <2>1, PTL
<1> QED  BY <1>1, <1>2, <1>3, <1>4, PTL DEF Spec

-----------------------------------------------------------------------------
\* The calls under way, and those to come, are those of a program.
SomeFollowed == \E p \in Programs : Follows(p)

LEMMA InitFollows == Init => SomeFollowed
<1> SUFFICES ASSUME Init PROVE SomeFollowed  OBVIOUS
<1>1. todo \in Programs /\ \A t \in Threads : l[t] = Idle  BY DEF Init
<1>2. Idle.op = "none"  BY DEF Idle
<1>3. Follows(todo)  BY <1>1, <1>2 DEF Follows, CallsOf
<1> QED  BY <1>1, <1>3 DEF SomeFollowed

LEMMA NextFollows == TypeInv /\ SomeFollowed /\ [Next]_vars => SomeFollowed'
<1> SUFFICES ASSUME TypeInv, SomeFollowed, [Next]_vars PROVE SomeFollowed'  OBVIOUS
<1>1. PICK p \in Programs : Follows(p)  BY DEF SomeFollowed
<1>2. CASE UNCHANGED vars  BY ZenonT(40), <1>1, <1>2 DEF vars, Follows, CallsOf, SomeFollowed
<1>3. ASSUME NEW u \in Threads, Step(u) PROVE Follows(p)'  BY <1>1, <1>3, StepFollows
<1> QED  BY <1>1, <1>2, <1>3 DEF Next, Done, SomeFollowed

LEMMA OwnersInTurn == Owners /\ SomeFollowed => InTurn
<1> SUFFICES ASSUME Owners, SomeFollowed, NEW t \in Threads, NEW u \in Threads, t # u, l[t].op = "erase"
             PROVE /\ ~(l[u].op = "insert" /\ l[u].node = l[t].node)
                   /\ \A i \in DOMAIN todo[u] : ~(todo[u][i].op = "insert" /\ todo[u][i].node = l[t].node)
  BY DEF InTurn
<1>1. PICK p \in Programs : Follows(p)  BY DEF SomeFollowed
<1>2. PICK d \in CallsOf(p, t) : d.op = "erase" /\ d.node = l[t].node  BY <1>1 DEF Follows
<1>3. \A c \in CallsOf(p, u) : ~(c.op = "insert" /\ c.node = l[t].node)  BY <1>2 DEF Owners
<1> QED  BY <1>1, <1>3 DEF Follows

\* Where a node is erased by the thread that inserts it, if by anybody, the turns are kept.
LEMMA OwnersTakeTurns == Owners => (Spec => []InTurn)
<1>1. Owners => []Owners
  <2>1. Owners => Owners'  BY DEF Owners, CallsOf
  <2> QED  BY <2>1, PTL
<1> QED  BY <1>1, InitFollows, NextFollows, OwnersInTurn, IndexInvariant, PTL DEF Spec

\* What the callers owe is enough: where they keep their turns, and erase nothing that is
\* higher than what stays, the library is a set with a weak find, no store or read of a
\* pointer goes wrong, towers stay whole, and every mark is taken away again.
THEOREM IndexCorrect == Steady => (Spec /\ []InTurn => /\ Atomic
                                                       /\ []StoresSucceed /\ []NoNull
                                                       /\ []Towers /\ []MarksReturned)
<1> QED  BY ToppedCorrect, FreshCorrect, KnownCorrect, AtomicCorrect, StoresCorrect, NullNever, TowersStand, MarksCorrect, PTL
=============================================================================
