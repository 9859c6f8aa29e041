-------------------------- MODULE MCAccessingNext --------------------------
(***************************************************************************)
(* A small instance of the read-write spin lock for TLC.                   *)
(***************************************************************************)
EXTENDS AccessingNext

CONSTANTS t1, t2, t3

ThreeThreads == {t1, t2, t3}
=============================================================================
