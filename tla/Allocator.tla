----------------------------- MODULE Allocator -----------------------------
(***************************************************************************)
(* The allocator of the benchmark (allocator.h): one pool of memory, cut   *)
(* into an arena per thread.  A thread takes its arena with Init, and Alloc *)
(* moves on in it.  The two ASSERTs, on the number of threads and on the   *)
(* capacity, are compiled to nothing in this build.  An address is an      *)
(* offset in the pool.                                                     *)
(***************************************************************************)
EXTENDS Integers

CONSTANTS Threads,
          m_totalBytes, m_threadCount, m_typeSize

VARIABLES m_ticket,
          m_base,      \* per thread (static __thread)
          m_freeIndex  \* per thread (static __thread)

\* The first byte of the arena that a ticket stands for.
Base(ticket) == (ticket * m_totalBytes) \div m_threadCount

\* The constructor; the variables of a thread are 0 until it calls Init.
Create == /\ m_ticket = 0
          /\ m_base = [t \in Threads |-> 0]
          /\ m_freeIndex = [t \in Threads |-> 0]

Init(t) == /\ m_ticket' = m_ticket + 1
           /\ m_base' = [m_base EXCEPT ![t] = Base(m_ticket)]
           /\ m_freeIndex' = [m_freeIndex EXCEPT ![t] = 0]

\* What Alloc returns, and what it leaves.
Block(t) == m_base[t] + m_freeIndex[t]
Alloc(t) == /\ m_freeIndex' = [m_freeIndex EXCEPT ![t] = @ + m_typeSize]
            /\ UNCHANGED <<m_ticket, m_base>>
=============================================================================
