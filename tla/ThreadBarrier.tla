--------------------------- MODULE ThreadBarrier ---------------------------
(***************************************************************************)
(* The barrier of the benchmark (threadbarrier.h): whoever waits adds one  *)
(* to a counter and spins until the counter has reached the number of      *)
(* threads.  It is used once and never reset.                              *)
(***************************************************************************)
EXTENDS Integers

CONSTANT m_numThread  \* the threads that the barrier waits for

VARIABLE m_arrived

Init == m_arrived = 0

\* Wait, up to its loop: m_arrived++.
Arrive == m_arrived' = m_arrived + 1

\* The loop of Wait ends.
Open == m_arrived >= m_numThread
=============================================================================
