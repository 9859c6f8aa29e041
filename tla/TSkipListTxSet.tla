--------------------------- MODULE TSkipListTxSet ---------------------------
(***************************************************************************)
(* The transactional skip list implements the transactional set of TxSet:  *)
(* a transaction takes effect at addAndFetch, while its write-back is      *)
(* still to come, and aborts where AbortTransactionException is thrown.    *)
(***************************************************************************)
EXTENDS TSkipList

Open == {t \in Threads : pc[t] \notin {"idle", "publish", "abort"}}

Abstract == INSTANCE TxSet WITH Clients <- Threads, Start <- Elems(Warm),
                                set <- Committed, active <- Open

\* Opacity and serializability: every call, also of a transaction that goes on to
\* abort, is answered from the keys committed when the transaction began and its
\* own updates, and a transaction commits only if all its answers still hold.
Opaque == Abstract!Spec
=============================================================================
