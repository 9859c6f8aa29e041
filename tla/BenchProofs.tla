---------------------------- MODULE BenchProofs ----------------------------
(***************************************************************************)
(* The benchmark, for any number of workers, keys, turns and operations:   *)
(* descriptors that are in use do not overlap, and the totals are right.   *)
(***************************************************************************)
EXTENDS Bench, FiniteSetTheorems, TLAPS

\* A block, and the arena of a thread.
Slot == SizeOf(TranSize)
Share == numNodes * Slot

Body == {"begin", "ops", "committed", "aborted"}
Lobby == {"unborn", "init", "reset", "barrier", "wait"}
Arrived(t) == w[t].pc \in {"wait", "join", "done"} \/ (t \in Workers /\ w[t].pc \in Body \cup {"loop"})
Seated(t) == w[t].pc \notin {"unborn", "init"}
ArrivedSet == {t \in Threads : Arrived(t)}
SeatedSet == {t \in Threads : Seated(t)}

\* The turns that workers have counted.
Turned == {x \in Workers \X (1..TestSize) : x[2] <= w[x[1]].i}

\* The list's answers are of their type, so that the locals of a thread are.
TypeInv == TypeOK /\ trace \in [Threads -> Seq(List!Answers)]

\* The counters of the barrier and the allocator count threads.
Tickets == m_arrived = Cardinality(ArrivedSet) /\ m_ticket = Cardinality(SeatedSet)

\* No worker starts before the prefill is over, or runs before all have arrived.
Control ==
  /\ \A u \in Workers :
       /\ w[u].pc # "join"
       /\ w[u].pc \in Lobby => w[u].i = 0
       /\ w[u].pc = "done" => w[u].i = TestSize
       /\ w[u].pc \notin Lobby => \A t \in Threads : Arrived(t)
       /\ w[u].pc # "unborn" => w[main].pc \in {"loop", "barrier", "wait", "join", "done"} /\ w[main].i = KeyRange
  /\ w[main].pc # "unborn"
  /\ w[main].pc \in {"init", "reset"} => w[main].i = 0
  /\ w[main].pc = "done" => \A u \in Workers : w[u].pc = "done"
  /\ \A t \in Threads : w[t].pc \in Body => w[t].i < Turns(t)

\* Where the arenas are, how much of them is used, and where the descriptors are.
Based == \A t \in Threads : Seated(t) => \E k \in 0 .. m_ticket - 1 : m_base[t] = k * Share
Unshared == \A t, u \in Threads : t # u /\ Seated(t) /\ Seated(u) => m_base[t] # m_base[u]
Used == \A t \in Threads : Seated(t) =>
          m_freeIndex[t] = (IF w[t].pc \in Body THEN w[t].i + 1 ELSE w[t].i) * Slot
Filled == \A t \in Threads : Live(t) => w[t].desc = m_base[t] + w[t].i * Slot /\ Len(w[t].ops) <= TranSize
Places == Based /\ Unshared /\ Used /\ Filled

\* Once a worker has set the counters back they count the workers' turns.
Counts == (\E u \in Workers : w[u].pc \notin {"unborn", "init", "reset"}) =>
            g_count.commit + g_count.abort = Cardinality(Turned)

\* A transaction starts at its first operation.
Unmoved == \A t \in Threads : w[t].pc \notin Body => w[t].opid = 0

IInv == TypeInv /\ Tickets /\ Control /\ Places /\ Counts /\ Unmoved

-----------------------------------------------------------------------------
\* Multiplication, for provers that do not multiply unknowns.
LEMMA Quotient == ASSUME NEW a \in Nat, NEW n \in Nat \ {0} PROVE (a * n) \div n = a
  BY SMT

LEMMA Regroup == ASSUME NEW k \in Nat, NEW a \in Nat, NEW n \in Nat, NEW s \in Nat
                 PROVE k * (a * n * s) = (k * (a * s)) * n
  BY SMT

LEMMA Ordered == ASSUME NEW j \in Nat, NEW k \in Nat, NEW s \in Nat, j < k
                 PROVE j * s + s <= k * s
  BY SMT

LEMMA Distinct == ASSUME NEW j \in Nat, NEW k \in Nat, NEW s \in Nat \ {0}, j # k
                  PROVE j * s # k * s
  BY SMT

LEMMA Successor == ASSUME NEW j \in Nat, NEW s \in Nat PROVE (j + 1) * s = j * s + s /\ 0 * s = 0 /\ j * s \in Nat
  BY SMT

-----------------------------------------------------------------------------
\* The constants.
LEMMA Sizes == /\ Slot = 2 + 8 * TranSize /\ Slot \in Nat \ {0}
               /\ numNodes \in Nat \ {0} /\ Share \in Nat \ {0}
               /\ IsFiniteSet(Threads) /\ Cardinality(Threads) = threadCount
               /\ threadCount \in Nat \ {0} /\ BarrierSize = Cardinality(Threads)
<1>1. Slot = 2 + 8 * TranSize /\ Slot \in Nat \ {0}
  BY BenchAssumption DEF Slot, SizeOf
<1>2. numNodes \in Nat \ {0}
  BY BenchAssumption DEF numNodes
<1>3. Share \in Nat \ {0}
  BY <1>1, <1>2, SMT DEF Share
<1>4. Cardinality(Workers) \in Nat
  BY BenchAssumption, FS_CardinalityType
<1>5. IsFiniteSet(Threads) /\ Cardinality(Threads) = Cardinality(Workers) + 1
  BY BenchAssumption, FS_AddElement DEF Threads
<1> QED BY <1>1, <1>2, <1>3, <1>4, <1>5 DEF threadCount, BarrierSize

\* The arena of ticket k.
LEMMA Arena == ASSUME NEW k \in Nat PROVE Pool!Base(k) = k * Share
<1>1. Pool!Base(k) = (k * (numNodes * threadCount * Slot)) \div threadCount
  BY DEF Pool!Base, Slot
<1>2. k * (numNodes * threadCount * Slot) = (k * Share) * threadCount
  BY Sizes, Regroup DEF Share
<1>3. k * Share \in Nat
  BY Sizes, Successor
<1> QED BY <1>1, <1>2, <1>3, Quotient, Sizes

-----------------------------------------------------------------------------
Locals == [pc : PCs, i : Nat, desc : Nat, ops : Seq(List!Calls), opid : Nat, ret : BOOLEAN]

\* One thread moves, and its new locals are well typed.
LEMMA Moves == ASSUME NEW t \in Threads, NEW r \in Locals, TypeInv, w' = [w EXCEPT ![t] = r]
               PROVE /\ w' \in [Threads -> Locals] /\ w'[t] = r
                     /\ \A u \in Threads : u # t => w'[u] = w[u]
  BY DEF TypeInv, TypeOK, Locals

\* How a move changes who has arrived and who has an arena.
LEMMA SetsMove ==
  ASSUME NEW t \in Threads, NEW r \in Locals, TypeInv, w' = [w EXCEPT ![t] = r]
  PROVE /\ (Arrived(t) <=> Arrived(t)') => ArrivedSet' = ArrivedSet
        /\ (Seated(t) <=> Seated(t)') => SeatedSet' = SeatedSet
        /\ ~Arrived(t) /\ Arrived(t)' => Cardinality(ArrivedSet') = Cardinality(ArrivedSet) + 1
        /\ ~Seated(t) /\ Seated(t)' => Cardinality(SeatedSet') = Cardinality(SeatedSet) + 1
<1>1. \A u \in Threads : u # t => (Arrived(u) <=> Arrived(u)') /\ (Seated(u) <=> Seated(u)')
  BY Moves DEF Arrived, Seated
<1>2. IsFiniteSet(ArrivedSet) /\ IsFiniteSet(SeatedSet)
  BY Sizes, FS_Subset DEF ArrivedSet, SeatedSet
<1>3. (Arrived(t) <=> Arrived(t)') => ArrivedSet' = ArrivedSet
  BY <1>1 DEF ArrivedSet
<1>4. (Seated(t) <=> Seated(t)') => SeatedSet' = SeatedSet
  BY <1>1 DEF SeatedSet
<1>5. ASSUME ~Arrived(t), Arrived(t)' PROVE Cardinality(ArrivedSet') = Cardinality(ArrivedSet) + 1
  <2>1. ArrivedSet' = ArrivedSet \cup {t} /\ t \notin ArrivedSet
    BY <1>1, <1>5 DEF ArrivedSet
  <2> QED BY <1>2, <2>1, FS_AddElement
<1>6. ASSUME ~Seated(t), Seated(t)' PROVE Cardinality(SeatedSet') = Cardinality(SeatedSet) + 1
  <2>1. SeatedSet' = SeatedSet \cup {t} /\ t \notin SeatedSet
    BY <1>1, <1>6 DEF SeatedSet
  <2> QED BY <1>2, <2>1, FS_AddElement
<1> QED BY <1>3, <1>4, <1>5, <1>6

\* Who has arrived is among the threads; all have when the barrier is open.
LEMMA AllArrived == ASSUME TypeInv, Tickets
                    PROVE /\ Cardinality(ArrivedSet) \in 0..Cardinality(Threads)
                          /\ Cardinality(SeatedSet) \in 0..Cardinality(Threads)
                          /\ Barrier!Open => \A t \in Threads : Arrived(t)
                          /\ m_ticket = Cardinality(Threads) => \A t \in Threads : Seated(t)
<1>1. ArrivedSet \subseteq Threads /\ SeatedSet \subseteq Threads
  BY DEF ArrivedSet, SeatedSet
<1>2. /\ IsFiniteSet(ArrivedSet) /\ Cardinality(ArrivedSet) <= Cardinality(Threads)
      /\ Cardinality(Threads) = Cardinality(ArrivedSet) => Threads = ArrivedSet
      /\ IsFiniteSet(SeatedSet) /\ Cardinality(SeatedSet) <= Cardinality(Threads)
      /\ Cardinality(Threads) = Cardinality(SeatedSet) => Threads = SeatedSet
  BY <1>1, Sizes, FS_Subset
<1>3. Cardinality(ArrivedSet) \in Nat /\ Cardinality(SeatedSet) \in Nat
  BY <1>2, FS_CardinalityType
<1>4. Barrier!Open => Cardinality(Threads) = Cardinality(ArrivedSet)
  BY <1>2, <1>3, Sizes DEF Barrier!Open, Tickets
<1> QED BY <1>2, <1>3, <1>4, Sizes DEF ArrivedSet, SeatedSet, Tickets

\* The same bounds after a step.
LEMMA Bounded == /\ Cardinality(ArrivedSet') \in 0..Cardinality(Threads)
                 /\ Cardinality(SeatedSet') \in 0..Cardinality(Threads)
<1>1. ArrivedSet' \subseteq Threads /\ SeatedSet' \subseteq Threads
  BY DEF ArrivedSet, SeatedSet
<1>2. /\ IsFiniteSet(ArrivedSet') /\ Cardinality(ArrivedSet') <= Cardinality(Threads)
      /\ IsFiniteSet(SeatedSet') /\ Cardinality(SeatedSet') <= Cardinality(Threads)
  BY <1>1, Sizes, FS_Subset
<1>3. Cardinality(ArrivedSet') \in Nat /\ Cardinality(SeatedSet') \in Nat
  BY <1>2, FS_CardinalityType
<1> QED BY <1>2, <1>3, Sizes

-----------------------------------------------------------------------------
\* Init.
LEMMA InitIInv == Init => IInv
<1> SUFFICES ASSUME Init PROVE IInv
  OBVIOUS
<1> USE DEF Init, Barrier!Init, Pool!Create, List!Init
<1>1. \A t \in Threads : w[t] = Fresh(IF t = main THEN "init" ELSE "unborn", 0)
  OBVIOUS
<1>2. ArrivedSet = {} /\ SeatedSet = {}
  BY <1>1, BenchAssumption DEF ArrivedSet, SeatedSet, Arrived, Seated, Fresh, Threads, Body
<1>3. Tickets
  BY <1>2, FS_EmptySet DEF Tickets
<1>4. TypeInv
  <2>1. w \in [Threads -> Locals]
    BY DEF Locals, Fresh, PCs
  <2>2. \A t \in Threads : w[t].i <= Turns(t) /\ w[t].opid <= Len(w[t].ops)
    BY <1>1, BenchAssumption DEF Fresh, Turns
  <2>3. trace \in [Threads -> Seq(List!Answers)]
    OBVIOUS
  <2> QED BY <2>1, <2>2, <2>3, Sizes DEF TypeInv, TypeOK, Locals
<1>5. Control
  BY <1>1, BenchAssumption DEF Control, Fresh, Threads, Lobby, Body
<1>6. Places
  BY <1>1, BenchAssumption DEF Places, Based, Unshared, Used, Filled, Seated, Live, Fresh, Threads
<1>7. Counts
  BY <1>1, BenchAssumption DEF Counts, Fresh, Threads
<1>8. Unmoved
  BY <1>1 DEF Unmoved, Fresh
<1> QED BY <1>3, <1>4, <1>5, <1>6, <1>7, <1>8 DEF IInv

-----------------------------------------------------------------------------
\* Thread t moves, within one turn: its locals are r afterwards.
Goes(t, r) == /\ r \in Locals /\ r.opid <= Len(r.ops)
              /\ r.i = w[t].i /\ r.desc = w[t].desc /\ r.ops = w[t].ops
              /\ w' = [w EXCEPT ![t] = r]

\* It only changes its place in the program.
Turning(t, p) == [w[t] EXCEPT !.pc = p]

LEMMA PcMove == ASSUME NEW t \in Threads, NEW p \in PCs, TypeInv, Goto(t, p, w[t])
                PROVE Goes(t, Turning(t, p)) /\ Turning(t, p).pc = p /\ Turning(t, p).opid = w[t].opid
  BY DEF TypeInv, TypeOK, Locals, Goes, Goto, Turning

LEMMA Moved ==
  ASSUME NEW t \in Threads, NEW r, TypeInv, Goes(t, r)
  PROVE /\ w' \in [Threads -> Locals] /\ w'[t].pc = r.pc /\ r.pc \in PCs
        /\ \A u \in Threads : u # t => w'[u] = w[u]
        /\ \A u \in Threads : w'[u].i = w[u].i /\ w'[u].desc = w[u].desc /\ w'[u].ops = w[u].ops
        /\ \A u \in Threads : w'[u].i <= Turns(u) /\ w'[u].opid <= Len(w'[u].ops)
<1>1. /\ w' \in [Threads -> Locals] /\ w'[t] = r
      /\ \A u \in Threads : u # t => w'[u] = w[u]
  BY Moves DEF Goes
<1>2. \A u \in Threads : w'[u].i = w[u].i /\ w'[u].desc = w[u].desc /\ w'[u].ops = w[u].ops
  BY <1>1 DEF Goes
<1>3. \A u \in Threads : w'[u].i <= Turns(u) /\ w'[u].opid <= Len(w'[u].ops)
  BY <1>1, <1>2 DEF Goes, TypeInv, TypeOK
<1>4. r.pc \in PCs
  BY DEF Goes, Locals
<1> QED BY <1>1, <1>2, <1>3, <1>4

\* A move that leaves the pool alone and neither begins nor ends a turn.
LEMMA PlacesKept ==
  ASSUME NEW t \in Threads, NEW r, TypeInv, Places, Goes(t, r), UNCHANGED pool,
         Seated(t) <=> r.pc \notin {"unborn", "init"}, w[t].pc \in Body <=> r.pc \in Body,
         r.pc \in {"begin", "ops"} => Live(t)
  PROVE Places'
<1>1. \A u \in Threads : /\ Seated(u)' <=> Seated(u)
                         /\ Live(u)' => Live(u)
                         /\ w'[u].pc \in Body <=> w[u].pc \in Body
  BY Moved DEF Seated, Live
<1>2. UNCHANGED <<m_ticket, m_base, m_freeIndex>>
  BY DEF pool
<1>3. \A u \in Threads : w'[u].i = w[u].i /\ w'[u].desc = w[u].desc /\ w'[u].ops = w[u].ops
  BY Moved
<1>4. Based'
  BY <1>1, <1>2 DEF Places, Based
<1>5. Unshared'
  BY <1>1, <1>2 DEF Places, Unshared
<1>6. Used'
  BY <1>1, <1>2, <1>3 DEF Places, Used
<1>7. Filled'
  BY <1>1, <1>2, <1>3 DEF Places, Filled
<1> QED BY <1>4, <1>5, <1>6, <1>7 DEF Places

\* A move that leaves the counters alone, and is not the first to have set them back.
LEMMA CountsKept ==
  ASSUME NEW t \in Threads, NEW r, TypeInv, Counts, Goes(t, r), UNCHANGED g_count,
         t \in Workers /\ r.pc \notin {"unborn", "init", "reset"} => w[t].pc \notin {"unborn", "init", "reset"}
  PROVE Counts'
<1>1. Turned' = Turned
  BY Moved DEF Turned, Threads
<1>2. (\E u \in Workers : w'[u].pc \notin {"unborn", "init", "reset"}) =>
         \E u \in Workers : w[u].pc \notin {"unborn", "init", "reset"}
  BY Moved DEF Threads
<1> QED BY <1>1, <1>2 DEF Counts

\* A move after which the types are right, with what is left alone.
LEMMA TypeKept ==
  ASSUME NEW t \in Threads, NEW r, TypeInv, Goes(t, r), Tickets',
         m_base' \in [Threads -> Nat], m_freeIndex' \in [Threads -> Nat],
         g_count' \in [commit : Nat, abort : Nat], trace' \in [Threads -> Seq(List!Answers)]
  PROVE TypeInv'
<1>1. m_arrived' \in 0..Cardinality(Threads) /\ m_ticket' \in 0..Cardinality(Threads)
  BY Bounded DEF Tickets
<1> QED BY <1>1, Moved DEF TypeInv, TypeOK, Locals

\* A move that leaves the counters of barrier and allocator right.
LEMMA TicketsKept ==
  ASSUME NEW t \in Threads, NEW r, TypeInv, Tickets, Goes(t, r), UNCHANGED <<m_arrived, m_ticket>>,
         Arrived(t) <=> Arrived(t)', Seated(t) <=> Seated(t)'
  PROVE Tickets'
<1>1. ArrivedSet' = ArrivedSet /\ SeatedSet' = SeatedSet
  BY SetsMove DEF Goes
<1> QED BY <1>1 DEF Tickets

\* A transaction that is open goes on, or ends.
LEMMA Inside ==
  ASSUME NEW t \in Threads, NEW r, IInv, Goes(t, r), w[t].pc \in {"begin", "ops"}, r.pc \in Body \ {"begin"},
         UNCHANGED <<m_arrived, pool, g_count>>, trace' \in [Threads -> Seq(List!Answers)]
  PROVE IInv'
<1> USE DEF IInv
<1>1. Arrived(t) <=> Arrived(t)'
  BY Moved DEF Arrived, Body
<1>2. /\ Seated(t) /\ Seated(t)' /\ Live(t)
      /\ w[t].pc \in Body /\ w[t].pc \notin Lobby /\ r.pc \notin Lobby
  BY Moved DEF Seated, Body, Live, Lobby
<1>3. Tickets'
  BY <1>1, <1>2, TicketsKept DEF pool
<1>4. TypeInv'
  BY <1>3, TypeKept DEF TypeInv, TypeOK, pool
<1>5. Places'
  BY <1>2, PlacesKept DEF Lobby
<1>6. Counts'
  BY CountsKept DEF Body
<1>7. Control'
  <2>1. \A u \in Threads : Arrived(u) => Arrived(u)'
    BY <1>1, Moved DEF Arrived
  <2>2. \A u \in Threads : w'[u].i = w[u].i /\ (w'[u].pc = w[u].pc \/ (w[u].pc \in Body /\ w'[u].pc \in Body))
    BY <1>2, Moved
  <2> QED BY <2>1, <2>2 DEF Control, Body, Lobby, Threads
<1>8. Unmoved'
  <2>1. w'[t].pc \in Body
    BY Moved
  <2> QED BY <2>1, Moved DEF Unmoved
<1> QED BY <1>3, <1>4, <1>5, <1>6, <1>7, <1>8

LEMMA BeginStep == ASSUME NEW t \in Threads, IInv, Begin(t) PROVE IInv'
<1>1. Goes(t, Turning(t, "ops")) /\ Turning(t, "ops").pc = "ops"
  BY PcMove DEF Begin, IInv, PCs
<1>2. trace' \in [Threads -> Seq(List!Answers)]
  BY DEF Begin, List!Begin, IInv, TypeInv
<1> QED BY <1>1, <1>2, Inside DEF Body, Begin, At

LEMMA CommitStep == ASSUME NEW t \in Threads, IInv, TXCommit(t) PROVE IInv'
<1>1. Goes(t, Turning(t, "committed")) /\ Turning(t, "committed").pc = "committed"
  BY PcMove DEF TXCommit, IInv, PCs
<1>2. trace' \in [Threads -> Seq(List!Answers)]
  BY DEF TXCommit, List!Commit, List!Close, IInv, TypeInv
<1> QED BY <1>1, <1>2, Inside DEF Body, TXCommit, At

LEMMA ThrowStep == ASSUME NEW t \in Threads, IInv, Throw(t) PROVE IInv'
<1>1. Goes(t, Turning(t, "aborted")) /\ Turning(t, "aborted").pc = "aborted"
  BY PcMove DEF Throw, IInv, PCs
<1>2. trace' \in [Threads -> Seq(List!Answers)]
  BY DEF Throw, List!Abort, List!Close, IInv, TypeInv
<1> QED BY <1>1, <1>2, Inside DEF Body, Throw, At

\* The locals after an operation.
LEMMA Answered ==
  ASSUME NEW i \in Nat, NEW desc \in Nat, NEW ops \in Seq(List!Calls), NEW opid \in Nat, NEW ret \in BOOLEAN
  PROVE [pc |-> "ops", i |-> i, desc |-> desc, ops |-> ops, opid |-> opid, ret |-> ret] \in Locals
  BY DEF Locals, PCs

LEMMA Result ==
  ASSUME NEW x \in Locals, NEW b
  PROVE [[x EXCEPT !.opid = @ + 1, !.ret = b] EXCEPT !.pc = "ops"]
        = [pc |-> "ops", i |-> x.i, desc |-> x.desc, ops |-> x.ops, opid |-> x.opid + 1, ret |-> b]
<1> DEFINE y == [x EXCEPT !.opid = x.opid + 1]
           z == [y EXCEPT !.ret = b]
<1>1. x = [pc |-> x.pc, i |-> x.i, desc |-> x.desc, ops |-> x.ops, opid |-> x.opid, ret |-> x.ret]
  BY DEF Locals
<1>2. [x EXCEPT !.opid = @ + 1, !.ret = b] = z
  OBVIOUS
<1>3. y = [pc |-> x.pc, i |-> x.i, desc |-> x.desc, ops |-> x.ops, opid |-> x.opid + 1, ret |-> x.ret]
  BY <1>1
<1> HIDE DEF y
<1>4. z = [pc |-> x.pc, i |-> x.i, desc |-> x.desc, ops |-> x.ops, opid |-> x.opid + 1, ret |-> b]
  BY <1>3
<1> HIDE DEF z
<1>5. [z EXCEPT !.pc = "ops"]
      = [pc |-> "ops", i |-> x.i, desc |-> x.desc, ops |-> x.ops, opid |-> x.opid + 1, ret |-> b]
  BY <1>4
<1> QED BY <1>2, <1>5, Zenon

LEMMA OperateStep == ASSUME NEW t \in Threads, IInv, Operate(t) PROVE IInv'
<1> DEFINE call == w[t].ops[w[t].opid + 1]
           a == [op |-> call.op, key |-> call.key, ok |-> List!Answer(List!After(snap[t], trace[t]), call)]
<1>1. w[t] \in Locals /\ trace \in [Threads -> Seq(List!Answers)]
  BY DEF IInv, TypeInv, TypeOK, Locals
<1>2. w[t].opid < Len(w[t].ops) /\ w[t].pc = "ops"
  BY DEF Operate, More, At
<1>3. call \in List!Calls
  BY <1>1, <1>2 DEF Locals
<1>4. a \in List!Answers
  BY <1>3 DEF List!Calls, List!Answers, List!Answer
<1>5. trace' = [trace EXCEPT ![t] = Append(trace[t], a)]
  BY DEF Operate, List!Do
<1>6. trace' \in [Threads -> Seq(List!Answers)]
  BY <1>1, <1>4, <1>5
<1>7. trace'[t][Len(trace'[t])] = a
  BY <1>1, <1>4, <1>5
<1>8. a.ok \in BOOLEAN
  BY DEF List!Answer
<1>9. w' = [w EXCEPT ![t] = [[w[t] EXCEPT !.opid = @ + 1, !.ret = a.ok] EXCEPT !.pc = "ops"]]
  BY <1>7 DEF Operate, Goto
<1> DEFINE r == [pc |-> "ops", i |-> w[t].i, desc |-> w[t].desc, ops |-> w[t].ops, opid |-> w[t].opid + 1, ret |-> a.ok]
<1>10. w' = [w EXCEPT ![t] = r]
  <2> DEFINE before == w[t]
             answer == a.ok
  <2>1. before \in Locals
    BY <1>1
  <2> HIDE DEF a, before, answer
  <2>2. [[before EXCEPT !.opid = @ + 1, !.ret = answer] EXCEPT !.pc = "ops"]
        = [pc |-> "ops", i |-> before.i, desc |-> before.desc, ops |-> before.ops, opid |-> before.opid + 1, ret |-> answer]
    BY <2>1, Result
  <2> QED BY <1>9, <2>2, Zenon DEF before, answer
<1> HIDE DEF a
<1>11. Goes(t, r) /\ r.pc = "ops"
  <2>1. r \in Locals /\ r.pc = "ops" /\ r.opid = w[t].opid + 1
        /\ r.i = w[t].i /\ r.desc = w[t].desc /\ r.ops = w[t].ops
    <3>1. /\ w[t].i \in Nat /\ w[t].desc \in Nat /\ w[t].ops \in Seq(List!Calls)
          /\ w[t].opid \in Nat /\ w[t].opid + 1 \in Nat
      BY <1>1 DEF Locals
    <3>2. r \in Locals
      BY <1>8, <3>1, Answered
    <3> QED BY <3>2
  <2>2. Len(r.ops) \in Nat /\ w[t].opid \in Nat
    BY <1>1, <2>1 DEF Locals
  <2>3. r.opid <= Len(r.ops)
    BY <1>2, <2>1, <2>2
  <2> HIDE DEF r
  <2> QED BY <1>10, <2>1, <2>3 DEF Goes
<1> HIDE DEF r
<1> QED BY <1>2, <1>6, <1>11, Inside DEF Body, Operate

-----------------------------------------------------------------------------
\* A step between transactions leaves the pool and the list alone.
LEMMA Outside ==
  ASSUME NEW t \in Threads, NEW p \in PCs \ Body, IInv, w[t].pc \notin Body, Goto(t, p, w[t]),
         Seated(t) <=> p \notin {"unborn", "init"}, UNCHANGED <<pool, trace>>,
         g_count' \in [commit : Nat, abort : Nat], Tickets', Control', Counts'
  PROVE IInv'
<1> USE DEF IInv
<1> DEFINE r == Turning(t, p)
<1>1. Goes(t, r) /\ r.pc = p /\ r.opid = w[t].opid
  BY PcMove
<1> HIDE DEF r
<1>2. TypeInv'
  BY <1>1, TypeKept DEF TypeInv, TypeOK, pool
<1>3. Places'
  BY <1>1, PlacesKept DEF Body
<1>4. Unmoved'
  <2>1. w[t].opid = 0 /\ w'[t] = r
    BY <1>1 DEF Unmoved, TypeInv, TypeOK, Goes
  <2> QED BY <1>1, <2>1, Moved DEF Unmoved
<1> QED BY <1>2, <1>3, <1>4

\* What Control says of a thread that is no transaction's, before the barrier.
LEMMA Early == ASSUME NEW t \in Threads, IInv, ~Arrived(t)
               PROVE \A u \in Workers : w[u].pc \in Lobby /\ w[u].i = 0
  BY DEF IInv, Control

LEMMA NoTurns == ASSUME \A u \in Workers : w[u].i = 0 PROVE Turned = {} /\ Cardinality(Turned) = 0
<1>1. \A n \in 1..TestSize : ~(n <= 0)
  BY BenchAssumption
<1>2. Turned = {}
  BY <1>1 DEF Turned
<1> QED BY <1>2, FS_EmptySet

LEMMA ResetMetricsStep == ASSUME NEW t \in Threads, IInv, ResetMetrics(t) PROVE IInv'
<1> DEFINE p == IF t = main THEN "loop" ELSE "barrier"
           r == Turning(t, p)
<1> USE DEF IInv
<1>1. w[t].pc = "reset" /\ Goto(t, p, w[t]) /\ g_count' = [commit |-> 0, abort |-> 0]
  BY DEF ResetMetrics, At
<1>2. p \in PCs \ Body /\ p \in PCs /\ (t = main => p = "loop") /\ (t # main => p = "barrier")
  BY DEF PCs, Body
<1> HIDE DEF p
<1>3. Goes(t, r) /\ r.pc = p
  BY <1>1, <1>2, PcMove
<1> HIDE DEF r
<1>4. ~Arrived(t) /\ ~Arrived(t)' /\ Seated(t) /\ Seated(t)' /\ w[t].pc \notin Body
  BY <1>1, <1>2, <1>3, Moved, BenchAssumption DEF Arrived, Seated, Body
<1>5. Tickets'
  BY <1>3, <1>4, TicketsKept DEF ResetMetrics, pool
<1>6. Counts'
  <2>1. \A u \in Workers : w'[u].i = 0
    BY <1>3, <1>4, Early, Moved DEF Threads
  <2>2. Cardinality(Turned') = 0
    <3>1. \A n \in 1..TestSize : ~(n <= 0)
      BY BenchAssumption
    <3>2. Turned' = {}
      BY <2>1, <3>1 DEF Turned
    <3> QED BY <3>2, FS_EmptySet
  <2> QED BY <1>1, <2>2 DEF Counts
<1>7. Control'
  <2>1. \A u \in Workers : w[u].pc \in Lobby /\ w[u].i = 0
    BY <1>4, Early
  <2>2. \A u \in Workers : w'[u].pc \in Lobby /\ w'[u].i = 0 /\ (w'[u].pc = "unborn" <=> w[u].pc = "unborn")
    BY <1>1, <1>2, <1>3, <2>1, Moved, BenchAssumption DEF Threads, Lobby
  <2>3. /\ w'[main].pc = w[main].pc \/ (w[main].pc = "reset" /\ w'[main].pc = "loop")
        /\ w'[main].i = w[main].i
    BY <1>1, <1>2, <1>3, Moved DEF Threads
  <2>4. \A u \in Threads : w'[u].pc \in Body => w[u].pc \in Body
    BY <1>2, <1>3, Moved
  <2>5. \A u \in Threads : w'[u].pc \in Body => w'[u].i < Turns(u)
    BY <1>3, <2>4, Moved DEF Control
  <2>6. /\ w'[main].pc # "unborn"
        /\ w'[main].pc \in {"init", "reset"} => w'[main].i = 0
        /\ w'[main].pc # "done"
    BY <2>1, <2>3, BenchAssumption DEF Control, Lobby
  <2> QED BY <2>2, <2>3, <2>5, <2>6 DEF Control, Lobby
<1>8. UNCHANGED <<pool, trace>> /\ g_count' \in [commit : Nat, abort : Nat]
  BY <1>1 DEF ResetMetrics, list
<1>9. Seated(t) <=> p \notin {"unborn", "init"}
  BY <1>2, <1>4
<1> QED BY <1>1, <1>2, <1>4, <1>5, <1>6, <1>7, <1>8, <1>9, Outside

\* What a move outside transactions leaves of Control to show: that who has arrived stays
\* so, and what is said of the place that the thread comes to.
LEMMA ControlKept ==
  ASSUME NEW t \in Threads, NEW p \in PCs \ Body, IInv, Goto(t, p, w[t]),
         Arrived(t) => Arrived(t)', p # "unborn",
         t \in Workers => /\ p # "join" /\ (p \in Lobby => w[t].i = 0) /\ (p = "done" => w[t].i = TestSize)
                          /\ p \notin Lobby => \A u \in Threads : Arrived(u)
                          /\ w[main].pc \in {"loop", "barrier", "wait", "join", "done"} /\ w[main].i = KeyRange
                          /\ w[t].pc # "done",
         t = main => /\ w[main].pc \in {"loop", "barrier", "wait", "join", "done"} =>
                          p \in {"loop", "barrier", "wait", "join", "done"}
                     /\ p \in {"init", "reset"} => w[main].i = 0
                     /\ p = "done" => \A u \in Workers : w[u].pc = "done"
  PROVE Control'
<1> DEFINE r == Turning(t, p)
<1> USE DEF IInv
<1>1. Goes(t, r) /\ r.pc = p
  BY PcMove
<1> HIDE DEF r
<1>2. \A u \in Threads : w'[u].i = w[u].i /\ (u # t => w'[u] = w[u])
  BY <1>1, Moved
<1>3. w'[t].pc = p
  BY <1>1, Moved
<1>4. \A u \in Threads : Arrived(u) => Arrived(u)'
  BY <1>2 DEF Arrived
<1>5. main \in Threads /\ (\A u \in Workers : u \in Threads /\ u # main) /\ (t \in Workers \/ t = main)
  BY BenchAssumption DEF Threads
<1>6. w'[main].i = w[main].i /\ (t # main => w'[main].pc = w[main].pc)
  BY <1>2, <1>5
<1>7. ASSUME NEW u \in Workers
      PROVE /\ w'[u].pc # "join"
            /\ w'[u].pc \in Lobby => w'[u].i = 0
            /\ w'[u].pc = "done" => w'[u].i = TestSize
            /\ w'[u].pc \notin Lobby => \A v \in Threads : Arrived(v)'
            /\ w'[u].pc # "unborn" => w'[main].pc \in {"loop", "barrier", "wait", "join", "done"} /\ w'[main].i = KeyRange
  <2>1. CASE u = t
    BY <2>1, <1>2, <1>3, <1>4, <1>5, <1>6
  <2>2. CASE u # t
    <3>1. w'[u] = w[u]
      BY <2>2, <1>2, <1>5
    <3> QED BY <3>1, <1>3, <1>4, <1>5, <1>6 DEF Control
  <2> QED BY <2>1, <2>2
<1>8. w'[main].pc # "unborn" /\ (w'[main].pc \in {"init", "reset"} => w'[main].i = 0)
  BY <1>3, <1>5, <1>6 DEF Control
<1>9. w'[main].pc = "done" => \A u \in Workers : w'[u].pc = "done"
  BY <1>2, <1>3, <1>5, <1>6 DEF Control
<1>10. \A u \in Threads : w'[u].pc \in Body => w'[u].i < Turns(u)
  BY <1>2, <1>3 DEF Control
<1> QED BY <1>7, <1>8, <1>9, <1>10 DEF Control

LEMMA StartWorkerStep == ASSUME NEW t \in Threads, IInv, StartWorker(t) PROVE IInv'
<1> USE DEF IInv
<1>1. t = main /\ w[main].pc = "loop" /\ w[main].i = KeyRange /\ main \notin Workers /\ main \in Threads
  <2>1. t = main /\ w[main].pc = "loop" /\ ~(w[main].i < KeyRange)
    BY DEF StartWorker, At, Again, Turns
  <2>2. main \notin Workers /\ main \in Threads /\ KeyRange \in Nat
    BY BenchAssumption DEF Threads
  <2>3. w[main].i \in Nat /\ w[main].i <= KeyRange
    BY <2>2 DEF TypeInv, TypeOK, Turns
  <2> QED BY <2>1, <2>2, <2>3
<1>2. UNCHANGED <<m_arrived, m_ticket, pool, trace, g_count>> /\ g_count' \in [commit : Nat, abort : Nat]
  BY DEF StartWorker, list, pool, TypeInv, TypeOK
<1>3. ASSUME NEW u \in Workers, At(u, "unborn"), Goto(u, "init", w[u]) PROVE IInv'
  <2> DEFINE r == Turning(u, "init")
  <2>1. u \in Threads /\ w[u].pc = "unborn" /\ u # main /\ "init" \in PCs \ Body
    BY <1>3, BenchAssumption DEF Threads, At, PCs, Body
  <2>2. Goes(u, r) /\ r.pc = "init"
    BY <1>3, <2>1, PcMove
  <2> HIDE DEF r
  <2>3. ~Arrived(u) /\ ~Arrived(u)' /\ ~Seated(u) /\ ~Seated(u)' /\ w[u].pc \notin Body /\ w[u].i = 0
    BY <2>1, <2>2, Moved DEF Arrived, Seated, Body, Control, Lobby
  <2>4. Tickets'
    BY <1>2, <2>1, <2>2, <2>3, TicketsKept
  <2>5. Counts'
    BY <1>2, <2>1, <2>2, CountsKept
  <2>6. Control'
    BY <1>1, <1>3, <2>1, <2>3, ControlKept DEF Lobby
  <2> QED BY <1>2, <1>3, <2>1, <2>3, <2>4, <2>5, <2>6, Outside
<1>4. ASSUME Goto(t, "barrier", w[t]) PROVE IInv'
  <2> DEFINE r == Turning(t, "barrier")
  <2>1. "barrier" \in PCs \ Body
    BY DEF PCs, Body
  <2>2. Goes(t, r) /\ r.pc = "barrier"
    BY <1>4, <2>1, PcMove
  <2> HIDE DEF r
  <2>3. ~Arrived(t) /\ ~Arrived(t)' /\ Seated(t) /\ Seated(t)' /\ w[t].pc \notin Body
    BY <1>1, <2>2, Moved DEF Arrived, Seated, Body
  <2>4. Tickets'
    BY <1>2, <2>2, <2>3, TicketsKept
  <2>5. Counts'
    BY <1>1, <1>2, <2>2, CountsKept
  <2>6. Control'
    BY <1>1, <1>4, <2>1, <2>3, ControlKept DEF Lobby
  <2> QED BY <1>2, <1>4, <2>1, <2>3, <2>4, <2>5, <2>6, Outside
<1> QED BY <1>3, <1>4 DEF StartWorker

LEMMA ArriveStep == ASSUME NEW t \in Threads, IInv, Arrive(t) PROVE IInv'
<1> DEFINE r == Turning(t, "wait")
<1> USE DEF IInv
<1>1. /\ w[t].pc = "barrier" /\ Goto(t, "wait", w[t]) /\ m_arrived' = m_arrived + 1
      /\ UNCHANGED <<pool, trace, g_count, m_ticket>> /\ g_count' \in [commit : Nat, abort : Nat]
  BY DEF Arrive, At, Barrier!Arrive, list, pool, TypeInv, TypeOK
<1>2. "wait" \in PCs \ Body
  BY DEF PCs, Body
<1>3. Goes(t, r) /\ r.pc = "wait"
  BY <1>1, <1>2, PcMove
<1> HIDE DEF r
<1>4. ~Arrived(t) /\ Arrived(t)' /\ Seated(t) /\ Seated(t)' /\ w[t].pc \notin Body
  BY <1>1, <1>3, Moved DEF Arrived, Seated, Body
<1>5. Tickets'
  BY <1>1, <1>3, <1>4, SetsMove DEF Goes, Tickets
<1>6. Counts'
  BY <1>1, <1>3, CountsKept
<1>7. t \in Workers => w[t].i = 0 /\ w[main].pc \in {"loop", "barrier", "wait", "join", "done"} /\ w[main].i = KeyRange
  BY <1>1 DEF Control, Lobby
<1>8. Control'
  BY <1>1, <1>2, <1>4, <1>7, ControlKept DEF Lobby
<1> QED BY <1>1, <1>2, <1>4, <1>5, <1>6, <1>8, Outside

LEMMA PassStep == ASSUME NEW t \in Threads, IInv, Pass(t) PROVE IInv'
<1> DEFINE p == IF t = main THEN "join" ELSE "loop"
           r == Turning(t, p)
<1> USE DEF IInv
<1>1. /\ w[t].pc = "wait" /\ Goto(t, p, w[t])
      /\ UNCHANGED <<pool, trace, g_count, m_ticket, m_arrived>> /\ g_count' \in [commit : Nat, abort : Nat]
  BY DEF Pass, At, list, pool, TypeInv, TypeOK
<1>2. p \in PCs \ Body /\ p \in PCs /\ (t = main => p = "join") /\ (t # main => p = "loop")
  BY DEF PCs, Body
<1> HIDE DEF p
<1>3. Goes(t, r) /\ r.pc = p
  BY <1>1, <1>2, PcMove
<1> HIDE DEF r
<1>4. Arrived(t) /\ Arrived(t)' /\ Seated(t) /\ Seated(t)' /\ w[t].pc \notin Body
  BY <1>1, <1>2, <1>3, Moved, BenchAssumption DEF Arrived, Seated, Body, Threads
<1>5. Tickets'
  BY <1>1, <1>3, <1>4, TicketsKept
<1>6. Counts'
  BY <1>1, <1>3, CountsKept
<1>7. t \in Workers => w[main].pc \in {"loop", "barrier", "wait", "join", "done"} /\ w[main].i = KeyRange
  BY <1>1 DEF Control
<1>8. \A u \in Threads : Arrived(u)
  BY AllArrived DEF Pass
<1>9. Control'
  BY <1>1, <1>2, <1>4, <1>7, <1>8, ControlKept, BenchAssumption DEF Lobby
<1>10. Seated(t) <=> p \notin {"unborn", "init"}
  BY <1>2, <1>4
<1> QED BY <1>1, <1>2, <1>4, <1>5, <1>6, <1>9, <1>10, Outside

LEMMA LeaveStep == ASSUME NEW t \in Threads, IInv, Leave(t) PROVE IInv'
<1> DEFINE r == Turning(t, "done")
<1> USE DEF IInv
<1>1. /\ t \in Workers /\ w[t].pc = "loop" /\ Goto(t, "done", w[t])
      /\ UNCHANGED <<pool, trace, g_count, m_ticket, m_arrived>> /\ g_count' \in [commit : Nat, abort : Nat]
  BY DEF Leave, At, list, pool, TypeInv, TypeOK
<1>2. "done" \in PCs \ Body
  BY DEF PCs, Body
<1>3. Goes(t, r) /\ r.pc = "done"
  BY <1>1, <1>2, PcMove
<1> HIDE DEF r
<1>4. Arrived(t) /\ Arrived(t)' /\ Seated(t) /\ Seated(t)' /\ w[t].pc \notin Body /\ t # main
  BY <1>1, <1>3, Moved, BenchAssumption DEF Arrived, Seated, Body
<1>5. Tickets'
  BY <1>1, <1>3, <1>4, TicketsKept
<1>6. Counts'
  BY <1>1, <1>3, CountsKept
<1>7. /\ w[main].pc \in {"loop", "barrier", "wait", "join", "done"} /\ w[main].i = KeyRange
      /\ \A u \in Threads : Arrived(u)
  BY <1>1 DEF Control, Lobby
<1>8. w[t].i = TestSize
  <2>1. ~(w[t].i < TestSize) /\ TestSize \in Nat
    BY <1>4, BenchAssumption DEF Leave, Again, Turns
  <2>2. w[t].i \in Nat /\ w[t].i <= TestSize
    BY <1>4 DEF TypeInv, TypeOK, Turns
  <2> QED BY <2>1, <2>2
<1>9. Control'
  BY <1>1, <1>2, <1>4, <1>7, <1>8, ControlKept DEF Lobby
<1> QED BY <1>1, <1>2, <1>4, <1>5, <1>6, <1>9, Outside

LEMMA JoinStep == ASSUME NEW t \in Threads, IInv, Join(t) PROVE IInv'
<1> DEFINE r == Turning(t, "done")
<1> USE DEF IInv
<1>1. /\ w[t].pc = "join" /\ Goto(t, "done", w[t]) /\ \A u \in Workers : w[u].pc = "done"
      /\ UNCHANGED <<pool, trace, g_count, m_ticket, m_arrived>> /\ g_count' \in [commit : Nat, abort : Nat]
  BY DEF Join, At, list, pool, TypeInv, TypeOK
<1>2. "done" \in PCs \ Body
  BY DEF PCs, Body
<1>3. Goes(t, r) /\ r.pc = "done"
  BY <1>1, <1>2, PcMove
<1> HIDE DEF r
<1>4. Arrived(t) /\ Arrived(t)' /\ Seated(t) /\ Seated(t)' /\ w[t].pc \notin Body /\ t \notin Workers
  BY <1>1, <1>3, Moved DEF Arrived, Seated, Body
<1>5. Tickets'
  BY <1>1, <1>3, <1>4, TicketsKept
<1>6. Counts'
  BY <1>1, <1>3, <1>4, CountsKept
<1>7. Control'
  BY <1>1, <1>2, <1>4, ControlKept
<1> QED BY <1>1, <1>2, <1>4, <1>5, <1>6, <1>7, Outside

-----------------------------------------------------------------------------
\* A thread takes the next arena.
LEMMA TakeArenaStep == ASSUME NEW t \in Threads, IInv, TakeArena(t) PROVE IInv'
<1> DEFINE r == Turning(t, "reset")
<1> USE DEF IInv
<1>1. /\ w[t].pc = "init" /\ Goto(t, "reset", w[t]) /\ m_ticket' = m_ticket + 1
      /\ m_base' = [m_base EXCEPT ![t] = Pool!Base(m_ticket)] /\ m_freeIndex' = [m_freeIndex EXCEPT ![t] = 0]
      /\ UNCHANGED <<trace, g_count, m_arrived>>
  BY DEF TakeArena, At, Pool!Init, list
<1>2. /\ m_ticket \in Nat /\ m_base \in [Threads -> Nat] /\ m_freeIndex \in [Threads -> Nat]
      /\ g_count \in [commit : Nat, abort : Nat] /\ trace \in [Threads -> Seq(List!Answers)]
  BY Sizes, FS_CardinalityType DEF TypeInv, TypeOK
<1>3. "reset" \in PCs \ Body
  BY DEF PCs, Body
<1>4. Goes(t, r) /\ r.pc = "reset" /\ r.opid = w[t].opid
  BY <1>1, <1>3, PcMove
<1> HIDE DEF r
<1>5. ~Arrived(t) /\ ~Arrived(t)' /\ ~Seated(t) /\ Seated(t)' /\ w[t].pc \notin Body
  BY <1>1, <1>4, Moved DEF Arrived, Seated, Body
<1>6. Tickets'
  BY <1>1, <1>4, <1>5, SetsMove DEF Goes, Tickets
<1>7. Pool!Base(m_ticket) = m_ticket * Share /\ m_ticket * Share \in Nat
  BY <1>2, Arena, Successor, Sizes
<1>8. /\ m_base'[t] = m_ticket * Share /\ m_freeIndex'[t] = 0
      /\ \A u \in Threads : u # t => m_base'[u] = m_base[u] /\ m_freeIndex'[u] = m_freeIndex[u] /\ w'[u] = w[u]
      /\ m_base' \in [Threads -> Nat] /\ m_freeIndex' \in [Threads -> Nat]
  BY <1>1, <1>2, <1>4, <1>7, Moved
<1>9. TypeInv'
  BY <1>1, <1>2, <1>4, <1>6, <1>8, TypeKept
<1>10. w[t].i = 0
  BY <1>1, BenchAssumption DEF Control, Lobby, Threads
<1>11. w'[t].i = 0 /\ w'[t].pc = "reset" /\ w'[t].opid = 0
  <2>1. w'[t] = r /\ w[t].opid = 0
    BY <1>4, <1>5 DEF Goes, TypeInv, TypeOK, Unmoved
  <2> QED BY <2>1, <1>4, <1>10 DEF Goes
<1>12. \A u \in Threads : u # t => (Seated(u)' <=> Seated(u)) /\ (Live(u)' <=> Live(u))
  BY <1>8 DEF Seated, Live
<1>13. Based'
  <2> SUFFICES ASSUME NEW u \in Threads, Seated(u)' PROVE \E k \in 0 .. m_ticket' - 1 : m_base'[u] = k * Share
    BY DEF Based
  <2>1. CASE u = t
    <3>1. m_ticket \in 0 .. m_ticket' - 1
      BY <1>1, <1>2
    <3> QED BY <2>1, <3>1, <1>8
  <2>2. CASE u # t
    <3>1. PICK k \in 0 .. m_ticket - 1 : m_base[u] = k * Share
      BY <2>2, <1>12 DEF Places, Based
    <3>2. k \in 0 .. m_ticket' - 1
      BY <1>1, <1>2
    <3> QED BY <2>2, <3>1, <3>2, <1>8
  <2> QED BY <2>1, <2>2
<1>14. \A u \in Threads : u # t /\ Seated(u) => m_base[u] # m_ticket * Share
  <2> SUFFICES ASSUME NEW u \in Threads, Seated(u) PROVE m_base[u] # m_ticket * Share
    OBVIOUS
  <2>1. PICK k \in 0 .. m_ticket - 1 : m_base[u] = k * Share
    BY DEF Places, Based
  <2>2. k \in Nat /\ k # m_ticket
    BY <1>2
  <2> QED BY <1>2, <2>1, <2>2, Distinct, Sizes
<1>15. Unshared'
  BY <1>8, <1>12, <1>14 DEF Places, Unshared
<1>16. Used'
  <2>1. 0 = 0 * Slot
    BY Sizes, Successor
  <2>2. m_freeIndex'[t] = (IF w'[t].pc \in Body THEN w'[t].i + 1 ELSE w'[t].i) * Slot
    BY <1>8, <1>11, <2>1 DEF Body
  <2> QED BY <1>8, <1>12, <2>2 DEF Places, Used
<1>17. Filled'
  <2>1. ~Live(t)'
    BY <1>11 DEF Live
  <2> QED BY <1>8, <1>12, <2>1 DEF Places, Filled
<1>18. Counts'
  BY <1>1, <1>4, CountsKept
<1>19. Control'
  <2>1. t \in Workers => w[main].pc \in {"loop", "barrier", "wait", "join", "done"} /\ w[main].i = KeyRange
    BY <1>1 DEF Control
  <2> QED BY <1>1, <1>3, <1>5, <1>10, <2>1, ControlKept DEF Lobby
<1>20. Unmoved'
  BY <1>8, <1>11 DEF Unmoved
<1> QED BY <1>6, <1>9, <1>13, <1>15, <1>16, <1>17, <1>18, <1>19, <1>20 DEF Places

-----------------------------------------------------------------------------
\* A turn begins: the locals that get the descriptor.
LEMMA Filling ==
  ASSUME NEW x \in Locals, NEW d, NEW o
  PROVE [[x EXCEPT !.desc = d, !.ops = o] EXCEPT !.pc = "begin"]
        = [pc |-> "begin", i |-> x.i, desc |-> d, ops |-> o, opid |-> x.opid, ret |-> x.ret]
<1> DEFINE y == [x EXCEPT !.desc = d]
           z == [y EXCEPT !.ops = o]
<1>1. x = [pc |-> x.pc, i |-> x.i, desc |-> x.desc, ops |-> x.ops, opid |-> x.opid, ret |-> x.ret]
  BY DEF Locals
<1>2. [x EXCEPT !.desc = d, !.ops = o] = z
  OBVIOUS
<1>3. y = [pc |-> x.pc, i |-> x.i, desc |-> d, ops |-> x.ops, opid |-> x.opid, ret |-> x.ret]
  BY <1>1
<1> HIDE DEF y
<1>4. z = [pc |-> x.pc, i |-> x.i, desc |-> d, ops |-> o, opid |-> x.opid, ret |-> x.ret]
  BY <1>3
<1> HIDE DEF z
<1>5. [z EXCEPT !.pc = "begin"] = [pc |-> "begin", i |-> x.i, desc |-> d, ops |-> o, opid |-> x.opid, ret |-> x.ret]
  BY <1>4
<1> QED BY <1>2, <1>5, Zenon

LEMMA FilledLocals ==
  ASSUME NEW i \in Nat, NEW desc \in Nat, NEW ops \in Seq(List!Calls), NEW opid \in Nat, NEW ret \in BOOLEAN
  PROVE [pc |-> "begin", i |-> i, desc |-> desc, ops |-> ops, opid |-> opid, ret |-> ret] \in Locals
  BY DEF Locals, PCs

LEMMA DrawsTypes == ASSUME NEW t \in Threads, NEW ops \in Draws(t)
                    PROVE ops \in Seq(List!Calls) /\ Len(ops) \in 0..TranSize
<1>1. CASE t = main
  <2>1. PICK k \in 1..KeyRange : ops = <<[op |-> "insert", key |-> k]>>
    BY <1>1 DEF Draws
  <2>2. [op |-> "insert", key |-> k] \in List!Calls
    BY DEF List!Calls, List!OpTypes
  <2>3. ops \in Seq(List!Calls) /\ Len(ops) = 1
    BY <2>1, <2>2
  <2> QED BY <2>3, BenchAssumption
<1>2. CASE t # main
  <2>1. ops \in [1..TranSize -> List!Calls] /\ TranSize \in Nat
    BY <1>2, BatchAssumption, BenchAssumption DEF Draws
  <2> QED BY <2>1
<1> QED BY <1>1, <1>2

LEMMA ExecuteOpsStep == ASSUME NEW t \in Threads, IInv, ExecuteOps(t) PROVE IInv'
<1> USE DEF IInv
<1>1. PICK ops \in Draws(t) : Goto(t, "begin", [w[t] EXCEPT !.desc = Pool!Block(t), !.ops = ops])
  BY DEF ExecuteOps
<1>2. ops \in Seq(List!Calls) /\ Len(ops) \in 0..TranSize
  BY DrawsTypes
<1>3. /\ w[t].pc = "loop" /\ w[t].i < Turns(t)
      /\ m_freeIndex' = [m_freeIndex EXCEPT ![t] = @ + Slot]
      /\ UNCHANGED <<m_ticket, m_base, trace, g_count, m_arrived>>
  BY DEF ExecuteOps, At, Again, Pool!Alloc, list, Slot
<1>4. /\ m_base \in [Threads -> Nat] /\ m_freeIndex \in [Threads -> Nat]
      /\ g_count \in [commit : Nat, abort : Nat] /\ trace \in [Threads -> Seq(List!Answers)]
      /\ w \in [Threads -> Locals] /\ w[t] \in Locals
  BY DEF TypeInv, TypeOK, Locals
<1>5. /\ w[t].i \in Nat /\ w[t].opid = 0 /\ w[t].ret \in BOOLEAN
      /\ Seated(t) /\ m_freeIndex[t] = w[t].i * Slot
  BY <1>3, <1>4 DEF Locals, Unmoved, Body, Seated, Places, Used
<1> DEFINE b == Pool!Block(t)
           r == [pc |-> "begin", i |-> w[t].i, desc |-> b, ops |-> ops, opid |-> w[t].opid, ret |-> w[t].ret]
<1>6. b = m_base[t] + w[t].i * Slot /\ b \in Nat
  BY <1>4, <1>5 DEF Pool!Block
<1> HIDE DEF b
<1>7. w' = [w EXCEPT ![t] = r]
  <2> DEFINE x == w[t]
  <2>1. x \in Locals
    BY <1>4
  <2>2. w' = [w EXCEPT ![t] = [[x EXCEPT !.desc = b, !.ops = ops] EXCEPT !.pc = "begin"]]
    BY <1>1, Zenon DEF Goto, b
  <2> HIDE DEF x
  <2>3. [[x EXCEPT !.desc = b, !.ops = ops] EXCEPT !.pc = "begin"]
        = [pc |-> "begin", i |-> x.i, desc |-> b, ops |-> ops, opid |-> x.opid, ret |-> x.ret]
    BY <2>1, Filling
  <2> QED BY <2>2, <2>3, Zenon DEF x
<1>8. r \in Locals
  <2>1. w[t].opid \in Nat
    BY <1>5
  <2> QED BY <1>2, <1>5, <1>6, <2>1, FilledLocals, Zenon
<1>9. r.pc = "begin" /\ r.i = w[t].i /\ r.desc = b /\ r.ops = ops /\ r.opid = 0
  BY <1>5
<1> HIDE DEF r
<1>10. /\ w' \in [Threads -> Locals] /\ w'[t] = r
       /\ \A u \in Threads : u # t => w'[u] = w[u]
  BY <1>7, <1>8, Moves
<1>11. m_freeIndex' \in [Threads -> Nat] /\ m_freeIndex'[t] = m_freeIndex[t] + Slot
       /\ \A u \in Threads : u # t => m_freeIndex'[u] = m_freeIndex[u]
  BY <1>3, <1>4, Sizes
<1>12. (t \in Workers => t # main) /\ (t = main => t \notin Workers) /\ (t \in Workers \/ t = main)
  BY BenchAssumption DEF Threads
<1>13. (Arrived(t) <=> Arrived(t)') /\ (Arrived(t) <=> t \in Workers) /\ Seated(t)'
  BY <1>3, <1>9, <1>10 DEF Arrived, Seated, Body
<1>14. Tickets'
  BY <1>3, <1>5, <1>7, <1>8, <1>13, SetsMove DEF Tickets
<1>15. TypeInv'
  <2>1. \A u \in Threads : w'[u].i <= Turns(u)
    BY <1>9, <1>10 DEF TypeInv, TypeOK
  <2>2. \A u \in Threads : w'[u].opid <= Len(w'[u].ops)
    <3>1. 0 <= Len(ops)
      BY <1>2, BenchAssumption
    <3>2. w'[t].opid <= Len(w'[t].ops)
      BY <1>9, <1>10, <3>1
    <3> QED BY <1>10, <3>2 DEF TypeInv, TypeOK
  <2>3. m_arrived' \in 0..Cardinality(Threads) /\ m_ticket' \in 0..Cardinality(Threads)
    BY <1>14, Bounded DEF Tickets
  <2> QED BY <1>3, <1>4, <1>10, <1>11, <2>1, <2>2, <2>3 DEF TypeInv, TypeOK, Locals
<1>16. \A u \in Threads : u # t => (Seated(u)' <=> Seated(u)) /\ (Live(u)' <=> Live(u))
  BY <1>10 DEF Seated, Live
<1>17. Based'
  BY <1>3, <1>5, <1>16 DEF Places, Based
<1>18. Unshared'
  BY <1>3, <1>5, <1>16 DEF Places, Unshared
<1>19. Used'
  <2>1. m_freeIndex'[t] = (w[t].i + 1) * Slot
    BY <1>5, <1>11, Successor, Sizes
  <2>2. m_freeIndex'[t] = (IF w'[t].pc \in Body THEN w'[t].i + 1 ELSE w'[t].i) * Slot
    BY <1>9, <1>10, <2>1 DEF Body
  <2> QED BY <1>10, <1>11, <1>16, <2>2 DEF Places, Used
<1>20. Filled'
  <2>1. w'[t].desc = m_base'[t] + w'[t].i * Slot /\ Len(w'[t].ops) <= TranSize
    BY <1>2, <1>3, <1>6, <1>9, <1>10, BenchAssumption
  <2> QED BY <1>3, <1>10, <1>16, <2>1 DEF Places, Filled
<1>21. \A u \in Workers : u \in Threads /\ w'[u].i = w[u].i /\ (u # t => w'[u] = w[u])
  BY <1>9, <1>10 DEF Threads
<1>22. Counts'
  <2>1. Turned' = Turned
    BY <1>21 DEF Turned
  <2>2. \A u \in Workers : w'[u].pc \notin {"unborn", "init", "reset"} => w[u].pc \notin {"unborn", "init", "reset"}
    BY <1>3, <1>21
  <2> QED BY <1>3, <2>1, <2>2 DEF Counts
<1>23. Control'
  <2>1. \A u \in Threads : Arrived(u) => Arrived(u)'
    BY <1>10, <1>13 DEF Arrived
  <2>2. CASE t = main
    <3>1. w[main].i < KeyRange /\ w[main].i \in Nat
      BY <1>3, <1>5, <2>2 DEF Turns
    <3>2. \A u \in Workers : w'[u].pc = "unborn" /\ w[u].pc = "unborn" /\ w'[u].i = 0
      BY <3>1, <2>2, <1>12, <1>21, BenchAssumption DEF Control, Lobby
    <3>3. w'[main].pc = "begin"
      BY <2>2, <1>9, <1>10
    <3>4. \A u \in Threads : w'[u].pc \in Body => w'[u].i < Turns(u)
      BY <1>3, <1>9, <1>10 DEF Control
    <3> QED BY <3>2, <3>3, <3>4 DEF Control, Lobby
  <2>3. CASE t \in Workers
    <3>1. w'[main] = w[main] /\ w[main].pc # "done"
      BY <2>3, <1>3, <1>10, <1>12 DEF Control, Threads
    <3>2. /\ \A u \in Threads : Arrived(u)
          /\ w[main].pc \in {"loop", "barrier", "wait", "join", "done"} /\ w[main].i = KeyRange
      BY <2>3, <1>3 DEF Control, Lobby
    <3>3. \A u \in Threads : Arrived(u)'
      BY <2>1, <3>2
    <3>4. w'[t].pc = "begin"
      BY <1>9, <1>10
    <3>5. \A u \in Threads : w'[u].pc \in Body => w'[u].i < Turns(u)
      BY <1>3, <1>9, <1>10 DEF Control
    <3>6. ASSUME NEW u \in Workers
          PROVE /\ w'[u].pc # "join"
                /\ w'[u].pc \in Lobby => w'[u].i = 0
                /\ w'[u].pc = "done" => w'[u].i = TestSize
      BY <1>21, <3>4 DEF Control, Lobby
    <3> QED BY <3>1, <3>2, <3>3, <3>5, <3>6 DEF Control, Lobby
  <2> QED BY <1>12, <2>2, <2>3
<1>24. Unmoved'
  BY <1>9, <1>10 DEF Unmoved
<1> QED BY <1>14, <1>15, <1>17, <1>18, <1>19, <1>20, <1>22, <1>23, <1>24 DEF Places

-----------------------------------------------------------------------------
\* A turn ends: one more is counted, by a thread that is in one.
LEMMA TurnCounted ==
  ASSUME NEW t \in Workers, w[t].i \in Nat, w[t].i < TestSize, w'[t].i = w[t].i + 1,
         \A u \in Workers : u # t => w'[u].i = w[u].i
  PROVE Cardinality(Turned') = Cardinality(Turned) + 1 /\ Cardinality(Turned) \in Nat
<1> DEFINE x == <<t, w[t].i + 1>>
<1>1. TestSize \in Nat /\ w[t].i + 1 \in 1..TestSize
  BY BenchAssumption
<1>2. IsFiniteSet(Turned)
  <2>1. IsFiniteSet(1..TestSize)
    BY <1>1, FS_Interval
  <2>2. IsFiniteSet(Workers \X (1..TestSize))
    BY <2>1, BenchAssumption, FS_Product
  <2> QED BY <2>2, FS_Subset DEF Turned
<1>3. x \notin Turned
  BY DEF Turned
<1>4. \A n \in 1..TestSize : n <= w[t].i + 1 <=> (n <= w[t].i \/ n = w[t].i + 1)
  BY <1>1
<1>5. \A u \in Workers, n \in 1..TestSize : n <= w'[u].i <=> (n <= w[u].i \/ <<u, n>> = x)
  BY <1>4
<1>6. Turned' = Turned \cup {x}
  BY <1>1, <1>5 DEF Turned
<1> QED BY <1>2, <1>3, <1>6, FS_AddElement, FS_CardinalityType

LEMMA Tally ==
  ASSUME NEW g \in [commit : Nat, abort : Nat], NEW h,
         h = [g EXCEPT !.commit = g.commit + 1] \/ h = [g EXCEPT !.abort = g.abort + 1]
  PROVE h \in [commit : Nat, abort : Nat] /\ h.commit + h.abort = g.commit + g.abort + 1
<1>1. CASE h = [g EXCEPT !.commit = g.commit + 1]
  <2>1. h.commit = g.commit + 1 /\ h.abort = g.abort
    BY <1>1
  <2>2. h \in [commit : Nat, abort : Nat]
    BY <1>1
  <2> QED BY <2>1, <2>2
<1>2. CASE h = [g EXCEPT !.abort = g.abort + 1]
  <2>1. h.abort = g.abort + 1 /\ h.commit = g.commit
    BY <1>2
  <2>2. h \in [commit : Nat, abort : Nat]
    BY <1>2
  <2> QED BY <2>1, <2>2
<1> QED BY <1>1, <1>2

LEMMA CountStep == ASSUME NEW t \in Threads, IInv, Count(t) PROVE IInv'
<1> DEFINE r == Fresh("loop", w[t].i + 1)
<1> USE DEF IInv
<1>1. /\ w[t].pc \in Body /\ w[t].i < Turns(t) /\ w[t].i \in Nat
      /\ w' = [w EXCEPT ![t] = r]
      /\ UNCHANGED <<m_ticket, m_base, m_freeIndex, trace, m_arrived>>
      /\ m_base \in [Threads -> Nat] /\ m_freeIndex \in [Threads -> Nat]
      /\ g_count \in [commit : Nat, abort : Nat] /\ trace \in [Threads -> Seq(List!Answers)]
  BY DEF Count, At, Body, Control, pool, list, TypeInv, TypeOK
<1>2. r \in Locals /\ r.pc = "loop" /\ r.i = w[t].i + 1 /\ r.opid = 0 /\ r.ops = <<>>
  BY <1>1 DEF Fresh, Locals, PCs
<1> HIDE DEF r
<1>3. /\ w' \in [Threads -> Locals] /\ w'[t] = r
      /\ \A u \in Threads : u # t => w'[u] = w[u]
  BY <1>1, <1>2, Moves
<1>4. (t \in Workers => t # main) /\ (t = main => t \notin Workers) /\ (t \in Workers \/ t = main)
  BY BenchAssumption DEF Threads
<1>5. (Arrived(t) <=> t \in Workers) /\ (Arrived(t) <=> Arrived(t)') /\ Seated(t) /\ Seated(t)'
  BY <1>1, <1>2, <1>3 DEF Arrived, Seated, Body
<1>6. Tickets'
  BY <1>1, <1>2, <1>5, SetsMove DEF Tickets
<1>7. g_count' \in [commit : Nat, abort : Nat] /\ g_count'.commit + g_count'.abort = g_count.commit + g_count.abort + 1
  <2>1. g_count' = [g_count EXCEPT !.commit = g_count.commit + 1] \/ g_count' = [g_count EXCEPT !.abort = g_count.abort + 1]
    BY DEF Count
  <2>2. g_count \in [commit : Nat, abort : Nat]
    BY <1>1
  <2> QED BY <2>1, <2>2, Tally
<1>8. TypeInv'
  <2>1. \A u \in Threads : w'[u].i <= Turns(u)
    <3>1. Turns(t) \in Nat
      BY BenchAssumption DEF Turns
    <3>2. w'[t].i <= Turns(t)
      BY <1>1, <1>2, <1>3, <3>1
    <3> QED BY <1>3, <3>2 DEF TypeInv, TypeOK
  <2>2. \A u \in Threads : w'[u].opid <= Len(w'[u].ops)
    <3>1. w'[t].opid <= Len(w'[t].ops)
      BY <1>2, <1>3
    <3> QED BY <1>3, <3>1 DEF TypeInv, TypeOK
  <2>3. m_arrived' \in 0..Cardinality(Threads) /\ m_ticket' \in 0..Cardinality(Threads)
    BY <1>6, Bounded DEF Tickets
  <2> QED BY <1>1, <1>3, <1>7, <2>1, <2>2, <2>3 DEF TypeInv, TypeOK, Locals
<1>9. \A u \in Threads : u # t => (Seated(u)' <=> Seated(u)) /\ (Live(u)' <=> Live(u))
  BY <1>3 DEF Seated, Live
<1>10. Based'
  BY <1>1, <1>5, <1>9 DEF Places, Based
<1>11. Unshared'
  BY <1>1, <1>5, <1>9 DEF Places, Unshared
<1>12. Used'
  <2>1. m_freeIndex'[t] = (IF w'[t].pc \in Body THEN w'[t].i + 1 ELSE w'[t].i) * Slot
    BY <1>1, <1>2, <1>3, <1>5 DEF Places, Used, Body
  <2> QED BY <1>1, <1>3, <1>9, <2>1 DEF Places, Used
<1>13. Filled'
  <2>1. ~Live(t)'
    BY <1>2, <1>3 DEF Live
  <2> QED BY <1>1, <1>3, <1>9, <2>1 DEF Places, Filled
<1>14. \A u \in Workers : u \in Threads /\ (u # t => w'[u] = w[u])
  BY <1>3 DEF Threads
<1>15. t = main => \A u \in Workers : w[u].pc = "unborn"
  BY <1>1 DEF Control, Body
<1>16. Counts'
  <2>1. CASE t = main
    BY <2>1, <1>4, <1>14, <1>15 DEF Counts
  <2>2. CASE t \in Workers
    <3>1. Cardinality(Turned') = Cardinality(Turned) + 1 /\ Cardinality(Turned) \in Nat
      BY <1>1, <1>2, <1>3, <1>4, <1>14, <2>2, TurnCounted DEF Turns
    <3>2. g_count.commit + g_count.abort = Cardinality(Turned)
      BY <1>1, <2>2 DEF Counts, Body
    <3> QED BY <1>7, <3>1, <3>2 DEF Counts
  <2> QED BY <1>4, <2>1, <2>2
<1>17. Control'
  <2>1. \A u \in Threads : Arrived(u) => Arrived(u)'
    BY <1>3, <1>5 DEF Arrived
  <2>2. \A u \in Threads : w'[u].pc \in Body => w'[u].i < Turns(u)
    BY <1>2, <1>3 DEF Control, Body
  <2>3. CASE t = main
    <3>1. \A u \in Workers : w'[u].pc = "unborn" /\ w'[u].i = 0
      BY <2>3, <1>4, <1>14, <1>15 DEF Control, Lobby
    <3>2. w'[main].pc = "loop"
      BY <2>3, <1>2, <1>3
    <3> QED BY <2>2, <3>1, <3>2 DEF Control, Lobby
  <2>4. CASE t \in Workers
    <3>1. w'[main] = w[main] /\ w[main].pc # "done"
      BY <2>4, <1>1, <1>3, <1>4 DEF Control, Threads, Body
    <3>2. /\ \A u \in Threads : Arrived(u)
          /\ w[main].pc \in {"loop", "barrier", "wait", "join", "done"} /\ w[main].i = KeyRange
      BY <2>4, <1>1 DEF Control, Lobby, Body
    <3>3. \A u \in Threads : Arrived(u)'
      BY <2>1, <3>2
    <3>4. w'[t].pc = "loop"
      BY <1>2, <1>3
    <3>5. ASSUME NEW u \in Workers
          PROVE /\ w'[u].pc # "join"
                /\ w'[u].pc \in Lobby => w'[u].i = 0
                /\ w'[u].pc = "done" => w'[u].i = TestSize
      BY <1>14, <3>4 DEF Control, Lobby
    <3> QED BY <3>1, <3>2, <2>2, <3>3, <3>5 DEF Control, Lobby
  <2> QED BY <1>4, <2>3, <2>4
<1>18. Unmoved'
  BY <1>2, <1>3 DEF Unmoved
<1> QED BY <1>6, <1>8, <1>10, <1>11, <1>12, <1>13, <1>16, <1>17, <1>18 DEF Places

-----------------------------------------------------------------------------
LEMMA Stutter == ASSUME IInv, UNCHANGED vars PROVE IInv'
<1> USE DEF IInv
<1>1. UNCHANGED <<m_arrived, m_ticket, m_base, m_freeIndex, g_count, w, trace>>
  BY DEF vars, pool, list
<1>2. TypeInv'
  BY <1>1 DEF TypeInv, TypeOK
<1>3. Tickets'
  <2>1. ArrivedSet' = ArrivedSet /\ SeatedSet' = SeatedSet
    BY <1>1 DEF ArrivedSet, SeatedSet, Arrived, Seated
  <2> QED BY <1>1, <2>1 DEF Tickets
<1>4. Control'
  BY <1>1 DEF Control, Arrived
<1>5. Based' /\ Unshared' /\ Used' /\ Filled'
  BY <1>1 DEF Places, Based, Unshared, Used, Filled, Seated, Live
<1>6. Counts'
  <2>1. Turned' = Turned
    BY <1>1 DEF Turned
  <2> QED BY <1>1, <2>1 DEF Counts
<1>7. Unmoved'
  BY <1>1 DEF Unmoved
<1> QED BY <1>2, <1>3, <1>4, <1>5, <1>6, <1>7 DEF Places

LEMMA NextIInv == ASSUME IInv, [Next]_vars PROVE IInv'
<1>1. ASSUME NEW t \in Threads, Step(t) PROVE IInv'
  BY <1>1, TakeArenaStep, ResetMetricsStep, ExecuteOpsStep, BeginStep, OperateStep, CommitStep, ThrowStep,
     CountStep, StartWorkerStep, ArriveStep, PassStep, LeaveStep, JoinStep DEF Step
<1> QED BY <1>1, Stutter DEF Next, Spin, Exit

\* The inductive invariant.
THEOREM BenchInvariant == Spec => []IInv
  BY InitIInv, NextIInv, PTL DEF Spec

\* Every variable keeps its type.
THEOREM BenchTypes == Spec => []TypeOK
<1>1. IInv => TypeOK
  BY DEF IInv, TypeInv
<1> QED BY <1>1, BenchInvariant, PTL

-----------------------------------------------------------------------------
\* The numbers printed at the end are those of the workers' transactions.
THEOREM TotalsCorrect == Spec => []Totals
<1>1. ASSUME IInv PROVE Totals
  <2> SUFFICES ASSUME w[main].pc = "done"
               PROVE g_count.commit + g_count.abort = Cardinality(Workers) * TestSize
    BY DEF Totals, At
  <2> USE <1>1 DEF IInv
  <2>1. \A u \in Workers : w[u].pc = "done" /\ w[u].i = TestSize
    BY DEF Control
  <2>2. TestSize \in Nat /\ \A n \in 1..TestSize : n <= TestSize
    BY BenchAssumption
  <2>3. Turned = Workers \X (1..TestSize)
    BY <2>1, <2>2 DEF Turned
  <2>4. IsFiniteSet(1..TestSize) /\ Cardinality(1..TestSize) = TestSize
    BY <2>2, FS_Interval
  <2>5. Cardinality(Turned) = Cardinality(Workers) * TestSize
    BY <2>3, <2>4, BenchAssumption, FS_Product
  <2>6. \E u \in Workers : w[u].pc \notin {"unborn", "init", "reset"}
    BY <2>1, BenchAssumption
  <2> QED BY <2>5, <2>6 DEF Counts
<1> QED BY <1>1, BenchInvariant, PTL

\* A descriptor lies in its thread's arena, and arenas in the pool.
LEMMA Within ==
  ASSUME IInv, NEW t \in Threads, Live(t)
  PROVE \E k \in 0 .. threadCount - 1 :
          /\ m_base[t] = k * Share /\ Seated(t)
          /\ Extent(t) \subseteq k * Share .. k * Share + Share - 1
<1> USE DEF IInv
<1>1. Seated(t) /\ w[t].pc \in Body
  BY DEF Seated, Live, Body
<1>2. PICK k \in 0 .. m_ticket - 1 : m_base[t] = k * Share
  BY <1>1 DEF Places, Based
<1>3. m_ticket \in 0 .. threadCount
  BY Sizes DEF TypeInv, TypeOK
<1>4. k \in Nat /\ k \in 0 .. threadCount - 1 /\ k * Share \in Nat
  BY <1>2, <1>3, Sizes, Successor
<1>5. w[t].i \in Nat /\ w[t].ops \in Seq(List!Calls) /\ w[t].i < Turns(t)
  BY <1>1 DEF TypeInv, TypeOK, Control
<1>6. w[t].i + 2 <= numNodes
  BY <1>5, BenchAssumption DEF Turns, numNodes
<1>7. Len(w[t].ops) \in Nat /\ Len(w[t].ops) <= TranSize /\ w[t].desc = k * Share + w[t].i * Slot
  BY <1>2, <1>5 DEF Places, Filled
<1>8. Bytes(Len(w[t].ops)) <= Slot + Slot /\ Bytes(Len(w[t].ops)) \in Nat
  BY <1>7, Sizes, BenchAssumption DEF Bytes
<1>9. /\ (w[t].i + 1) * Slot = w[t].i * Slot + Slot /\ w[t].i * Slot \in Nat
      /\ (w[t].i + 2) * Slot = (w[t].i + 1) * Slot + Slot
  BY <1>5, Sizes, SMT
<1>10. (w[t].i + 2) * Slot <= Share
  <2>1. CASE w[t].i + 2 = numNodes
    BY <2>1, Sizes, <1>5, SMT DEF Share
  <2>2. CASE w[t].i + 2 < numNodes
    <3>1. (w[t].i + 2) * Slot + Slot <= numNodes * Slot
      <4>1. w[t].i + 2 \in Nat /\ numNodes \in Nat /\ Slot \in Nat
        BY <1>5, Sizes
      <4> QED BY <2>2, <4>1, Ordered
    <3>2. (w[t].i + 2) * Slot \in Nat /\ numNodes * Slot \in Nat
      BY <1>5, Sizes, Successor
    <3> QED BY <3>1, <3>2, Sizes DEF Share
  <2> QED BY <2>1, <2>2, <1>5, <1>6, Sizes
<1> DEFINE P == k * Share
           Q == w[t].i * Slot
           B == Bytes(Len(w[t].ops))
<1>11. P \in Nat /\ Q \in Nat /\ B \in Nat /\ Slot \in Nat /\ Share \in Nat /\ B <= Slot + Slot /\ Q + Slot + Slot <= Share
       /\ Extent(t) = P + Q .. P + Q + B - 1
  BY <1>4, <1>7, <1>8, <1>9, <1>10, Sizes DEF Extent
<1> HIDE DEF P, Q, B
<1>12. Extent(t) \subseteq P .. P + Share - 1
  BY <1>11
<1> QED BY <1>1, <1>2, <1>4, <1>12 DEF P

\* Descriptors in use lie in the pool and do not overlap.
THEOREM DescriptorsApartCorrect == Spec => []DescriptorsApart
<1>1. ASSUME IInv PROVE DescriptorsApart
  <2> USE <1>1
  <2> DEFINE L(k) == k * Share
             N == threadCount
  <2>1. \A j, k \in Nat : j < k => L(j) + Share <= L(k)
    BY Ordered, Sizes
  <2>2. \A k \in Nat : L(k) \in Nat
    BY Successor, Sizes
  <2>3. numNodes * threadCount * SizeOf(TranSize) = L(N)
    BY Sizes, SMT DEF Share, Slot
  <2>4. Share \in Nat \ {0} /\ N \in Nat \ {0}
    BY Sizes
  <2>5. ASSUME NEW t \in Threads, Live(t)
        PROVE \E k \in 0 .. N - 1 :
                /\ m_base[t] = L(k) /\ Seated(t)
                /\ Extent(t) \subseteq L(k) .. L(k) + Share - 1
    BY <2>5, Within
  <2> HIDE DEF L, N
  <2> SUFFICES ASSUME NEW t \in Threads, Live(t)
               PROVE /\ Extent(t) \subseteq 0 .. L(N) - 1
                     /\ \A u \in Threads \ {t} : Live(u) => Extent(t) \cap Extent(u) = {}
    BY <2>3 DEF DescriptorsApart
  <2>6. PICK k \in 0 .. N - 1 : m_base[t] = L(k) /\ Seated(t) /\ Extent(t) \subseteq L(k) .. L(k) + Share - 1
    BY <2>5
  <2>7. k \in Nat /\ L(k) \in Nat /\ L(N) \in Nat /\ L(k) + Share <= L(N)
    BY <2>1, <2>2, <2>4, <2>6
  <2>8. Extent(t) \subseteq 0 .. L(N) - 1
    BY <2>4, <2>6, <2>7
  <2>9. ASSUME NEW u \in Threads \ {t}, Live(u) PROVE Extent(t) \cap Extent(u) = {}
    <3>1. PICK j \in 0 .. N - 1 : m_base[u] = L(j) /\ Seated(u) /\ Extent(u) \subseteq L(j) .. L(j) + Share - 1
      BY <2>5, <2>9
    <3>2. j # k
      <4>1. t \in Threads /\ u \in Threads /\ u # t /\ Seated(t) /\ Seated(u)
        BY <2>6, <2>9, <3>1
      <4>2. m_base[t] # m_base[u]
        BY <4>1 DEF IInv, Places, Unshared
      <4> QED BY <2>6, <3>1, <4>2
    <3>3. j \in Nat /\ L(j) \in Nat /\ (L(j) + Share <= L(k) \/ L(k) + Share <= L(j))
      BY <2>1, <2>2, <2>4, <2>7, <3>1, <3>2
    <3>4. ASSUME NEW x \in L(j) .. L(j) + Share - 1, x \in L(k) .. L(k) + Share - 1 PROVE FALSE
      BY <3>3, <3>4, <2>4, <2>7
    <3> QED BY <2>6, <3>1, <3>4
  <2> QED BY <2>8, <2>9
<1> QED BY <1>1, BenchInvariant, PTL
=============================================================================
