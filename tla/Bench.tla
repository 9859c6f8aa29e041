------------------------------- MODULE Bench -------------------------------
(***************************************************************************)
(* The benchmark (bench/): a main thread fills the list, starts workers    *)
(* that wait for each other at a barrier and then run transactions, and    *)
(* joins them; the numbers of commits and aborts are printed at the end.   *)
(* A transaction is a descriptor, allocated in the thread's arena, whose   *)
(* operations help_ops runs until one of them fails.  The list is the one  *)
(* that TxSet promises.                                                    *)
(***************************************************************************)
EXTENDS Integers, Sequences, FiniteSets

CONSTANTS Workers,   \* the threads that run WorkThread
          main,      \* the thread that runs Tester
          KeyRange, TestSize, TranSize,
          Batches    \* the operations that a worker may draw for a transaction

Threads == Workers \cup {main}

ASSUME BenchAssumption == /\ IsFiniteSet(Workers) /\ Workers # {} /\ main \notin Workers
                          /\ KeyRange \in Nat \ {0} /\ TestSize \in Nat \ {0}
                          /\ TranSize \in 1..255

VARIABLES m_arrived,                     \* ThreadBarrier
          m_ticket, m_base, m_freeIndex, \* Allocator<Desc>
          g_count,                       \* g_count_commit, g_count_abort
          w,                             \* per thread: its locals
          set, active, snap, trace       \* the list
pool == <<m_ticket, m_base, m_freeIndex>>
list == <<set, active, snap, trace>>
vars == <<m_arrived, pool, g_count, w, list>>

-----------------------------------------------------------------------------
\* The bytes that Desc::SizeOf counts for n operations, its parameter being eight bits wide,
\* and those that a descriptor has: two bytes of padding come before its operations.
SizeOf(n) == 2 + 8 * (n % 256)
Bytes(n) == 4 + 8 * n

\* Mutant: room for the blocks of the test alone.
numNodesTight == TestSize

numNodes == KeyRange + TestSize
threadCount == Cardinality(Workers) + 1

\* Mutant: the barrier does not count the main thread.
BarrierSizeWorkers == Cardinality(Workers)

\* Mutant: the barrier waits for a thread that does not exist.
BarrierSizeMore == Cardinality(Workers) + 2

BarrierSize == Cardinality(Workers) + 1

Barrier == INSTANCE ThreadBarrier WITH m_numThread <- BarrierSize
Pool == INSTANCE Allocator WITH m_totalBytes <- numNodes * threadCount * SizeOf(TranSize),
                                m_threadCount <- threadCount, m_typeSize <- SizeOf(TranSize)
List == INSTANCE TxSet WITH Clients <- Threads, Keys <- 1..KeyRange, Start <- {}
Seqs == INSTANCE SequencesExt

ASSUME BatchAssumption == Batches \subseteq [1..TranSize -> List!Calls]

-----------------------------------------------------------------------------
\* The locals of a thread before its turn i, at p.
Fresh(p, i) == [pc |-> p, i |-> i, desc |-> 0, ops |-> <<>>, opid |-> 0, ret |-> TRUE]

At(t, p) == w[t].pc = p
Goto(t, p, r) == w' = [w EXCEPT ![t] = [r EXCEPT !.pc = p]]

\* The turns of the loop around ExecuteOps, and the operations of one turn.
Turns(t) == IF t = main THEN KeyRange ELSE TestSize
Draws(t) == IF t = main THEN {<<[op |-> "insert", key |-> k]>> : k \in 1..KeyRange} ELSE Batches

\* SetAdaptor::Init: an arena, and the counters back to 0.
TakeArena(t) ==
  /\ At(t, "init") /\ Pool!Init(t) /\ Goto(t, "reset", w[t])
  /\ UNCHANGED <<m_arrived, g_count, list>>

ResetMetrics(t) ==
  /\ At(t, "reset") /\ g_count' = [commit |-> 0, abort |-> 0]
  /\ Goto(t, IF t = main THEN "loop" ELSE "barrier", w[t])
  /\ UNCHANGED <<m_arrived, pool, list>>

\* Mutant: one turn too many.
AgainOnce(t) == w[t].i <= Turns(t)

Again(t) == w[t].i < Turns(t)

\* ExecuteOps: a descriptor in the next block, with the operations drawn.
ExecuteOps(t) ==
  /\ At(t, "loop") /\ Again(t)
  /\ \E ops \in Draws(t) :
       Goto(t, "begin", [w[t] EXCEPT !.desc = Pool!Block(t), !.ops = ops])
  /\ Pool!Alloc(t)
  /\ UNCHANGED <<m_arrived, g_count, list>>

-----------------------------------------------------------------------------
\* help_ops.  Nobody helps: helpStack is empty when execute_ops calls it, and the status
\* of a descriptor stays LIVE, so that neither test of them ever stops a transaction.
Begin(t) ==
  /\ At(t, "begin") /\ List!Begin(t) /\ Goto(t, "ops", w[t])
  /\ UNCHANGED <<m_arrived, pool, g_count>>

\* Mutant: a failed operation does not end the transaction.
MoreAlways(t) == w[t].opid < Len(w[t].ops)

More(t) == w[t].ret /\ w[t].opid < Len(w[t].ops)

Operate(t) ==
  /\ At(t, "ops") /\ More(t)
  /\ List!Do(t, w[t].ops[w[t].opid + 1])
  /\ Goto(t, "ops", [w[t] EXCEPT !.opid = @ + 1, !.ret = trace'[t][Len(trace'[t])].ok])
  /\ UNCHANGED <<m_arrived, pool, g_count>>

TXCommit(t) ==
  /\ At(t, "ops") /\ ~More(t) /\ List!Commit(t) /\ Goto(t, "committed", w[t])
  /\ UNCHANGED <<m_arrived, pool, g_count>>

\* AbortTransactionException, from an operation or from TXCommit.
Throw(t) ==
  /\ At(t, "ops") /\ List!Abort(t) /\ Goto(t, "aborted", w[t])
  /\ UNCHANGED <<m_arrived, pool, g_count>>

\* The counter, and the end of a turn.
Count(t) ==
  /\ \/ At(t, "committed") /\ g_count' = [g_count EXCEPT !.commit = @ + 1]
     \/ At(t, "aborted") /\ g_count' = [g_count EXCEPT !.abort = @ + 1]
  /\ w' = [w EXCEPT ![t] = Fresh("loop", w[t].i + 1)]
  /\ UNCHANGED <<m_arrived, pool, list>>

-----------------------------------------------------------------------------
\* Tester, after the prefill: it starts the workers one by one.
StartWorker(t) ==
  /\ t = main /\ At(t, "loop") /\ ~Again(t)
  /\ \/ \E u \in Workers : At(u, "unborn") /\ Goto(u, "init", w[u])
     \/ (\A u \in Workers : ~At(u, "unborn")) /\ Goto(t, "barrier", w[t])
  /\ UNCHANGED <<m_arrived, pool, g_count, list>>

Arrive(t) ==
  /\ At(t, "barrier") /\ Barrier!Arrive /\ Goto(t, "wait", w[t])
  /\ UNCHANGED <<pool, g_count, list>>

Pass(t) ==
  /\ At(t, "wait") /\ Barrier!Open /\ Goto(t, IF t = main THEN "join" ELSE "loop", w[t])
  /\ UNCHANGED <<m_arrived, pool, g_count, list>>

Leave(t) ==
  /\ t \in Workers /\ At(t, "loop") /\ ~Again(t) /\ Goto(t, "done", w[t])
  /\ UNCHANGED <<m_arrived, pool, g_count, list>>

Join(t) ==
  /\ At(t, "join") /\ (\A u \in Workers : At(u, "done")) /\ Goto(t, "done", w[t])
  /\ UNCHANGED <<m_arrived, pool, g_count, list>>

\* The loop of Wait turns.
Spin(t) == At(t, "wait") /\ ~Barrier!Open /\ UNCHANGED vars

-----------------------------------------------------------------------------
Init ==
  /\ Barrier!Init /\ Pool!Create /\ List!Init
  /\ g_count = [commit |-> 0, abort |-> 0]
  /\ w = [t \in Threads |-> Fresh(IF t = main THEN "init" ELSE "unborn", 0)]

Step(t) == \/ TakeArena(t) \/ ResetMetrics(t) \/ ExecuteOps(t) \/ Begin(t) \/ Operate(t) \/ TXCommit(t)
           \/ Throw(t) \/ Count(t) \/ StartWorker(t) \/ Arrive(t) \/ Pass(t) \/ Leave(t) \/ Join(t)

\* The process is over.
Exit == At(main, "done") /\ UNCHANGED vars

Next == (\E t \in Threads : Step(t) \/ Spin(t)) \/ Exit

Spec == Init /\ [][Next]_vars

\* Threads are scheduled by the operating system.
FairSpec == Spec /\ \A t \in Threads : WF_vars(Step(t))

-----------------------------------------------------------------------------
PCs == {"unborn", "init", "reset", "loop", "begin", "ops", "committed", "aborted", "barrier", "wait", "join", "done"}

\* Every variable keeps its type, a thread its place in a loop, and no more threads than
\* there are take an arena or arrive at the barrier.
TypeOK ==
  /\ m_arrived \in 0..Cardinality(Threads)
  /\ m_ticket \in 0..Cardinality(Threads)
  /\ m_base \in [Threads -> Nat] /\ m_freeIndex \in [Threads -> Nat]
  /\ g_count \in [commit : Nat, abort : Nat]
  /\ w \in [Threads -> [pc : PCs, i : Nat, desc : Nat, ops : Seq(List!Calls), opid : Nat, ret : BOOLEAN]]
  /\ \A t \in Threads : w[t].i <= Turns(t) /\ w[t].opid <= Len(w[t].ops)

\* Descriptors that threads fill or run at the same time lie in the pool and have no byte
\* in common, although each of them is two bytes longer than its block.
Live(t) == w[t].pc \in {"begin", "ops"}
Extent(t) == w[t].desc .. w[t].desc + Bytes(Len(w[t].ops)) - 1
DescriptorsApart ==
  \A t \in {u \in Threads : Live(u)} :
    /\ Extent(t) \subseteq 0 .. numNodes * threadCount * SizeOf(TranSize) - 1
    /\ \A u \in Threads \ {t} : Live(u) => Extent(t) \cap Extent(u) = {}

\* The numbers printed at the end count every transaction of every worker once, and
\* none of the prefill, although each thread sets them back to 0 when it starts.
Totals == At(main, "done") => g_count.commit + g_count.abort = Cardinality(Workers) * TestSize

\* A committed descriptor has done what its operations would do if they ran alone at the
\* moment of commit, one after the other up to the first that fails.
Alone(S, ops) ==
  LET Run(s, c) == IF ~s.ok THEN s
                   ELSE LET a == [op |-> c.op, key |-> c.key, ok |-> List!Answer(s.keys, c)]
                        IN [keys |-> List!After(s.keys, <<a>>), ok |-> a.ok]
  IN Seqs!FoldLeft(Run, [keys |-> S, ok |-> TRUE], ops).keys
DescriptorsSerial ==
  [][\A t \in Threads : At(t, "ops") /\ w'[t].pc = "committed" => set' = Alone(set, w[t].ops)]_vars

\* The benchmark ends: nobody waits at the barrier, or for a thread, forever.
Ends == <>At(main, "done")
=============================================================================
