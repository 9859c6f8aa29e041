--------------------------- MODULE AccessingNext ---------------------------
(***************************************************************************)
(* The read-write spin lock of an index node (skiplist.cc): one 32-bit     *)
(* word, accessing_next, counts readers in its low 20 bits and writers in  *)
(* its high 12 bits.  A thread adds itself to the word, looks whether it   *)
(* may stay, and takes itself out again if not.  Every atomic access to    *)
(* the word is a step.                                                     *)
(***************************************************************************)
EXTENDS Integers, FiniteSets

CONSTANTS Threads,     \* the threads that use the index
          ReaderBase,  \* 2^20: the counter of readers is modulo this
          WriterBase   \* 2^12: the counter of writers is modulo this

\* Each thread is in the word at most once, so that neither counter overflows.
ASSUME WidthAssumption == /\ IsFiniteSet(Threads)
                          /\ ReaderBase \in Nat /\ Cardinality(Threads) < ReaderBase
                          /\ WriterBase \in Nat /\ Cardinality(Threads) < WriterBase

VARIABLES word,  \* accessing_next
          pc     \* per thread: where it is
vars == <<word, pc>>

Words == [writers : 0..WriterBase - 1, readers : 0..ReaderBase - 1]
ReadPCs == {"waitR", "addR", "checkR", "undoR", "read"}
WritePCs == {"waitW", "addW", "checkW", "undoW", "drain", "write"}
PCs == {"idle"} \cup ReadPCs \cup WritePCs

-----------------------------------------------------------------------------
\* fetch_add and fetch_sub on the word; the readers' counter carries into the writers'.
AddWriter(w) == [w EXCEPT !.writers = (@ + 1) % WriterBase]
SubWriter(w) == [w EXCEPT !.writers = (@ - 1) % WriterBase]
AddReader(w) == IF w.readers + 1 < ReaderBase THEN [w EXCEPT !.readers = @ + 1]
                ELSE AddWriter([w EXCEPT !.readers = 0])
SubReader(w) == IF w.readers > 0 THEN [w EXCEPT !.readers = @ - 1]
                ELSE SubWriter([w EXCEPT !.readers = ReaderBase - 1])

\* Mutant: a reader that finds a writer in waits where it is.
SubReaderNever(w) == w

\* What a reader that steps back makes of the word.
BackOff(w) == SubReader(w)

\* Thread t, at a, goes to b and makes w of the word.
Go(t, a, b, w) == /\ pc[t] = a
                  /\ pc' = [pc EXCEPT ![t] = b]
                  /\ word' = w

Start(t) == Go(t, "idle", "waitR", word) \/ Go(t, "idle", "waitW", word)

\* Mutant: nobody waits before the add, and a loser tries again at once.
ReleasedOrNot == TRUE

Released == word.writers = 0

\* The loop that waits for the active writer to release the lock.
Wait(t) == /\ Released
           /\ Go(t, "waitR", "addR", word) \/ Go(t, "waitW", "addW", word)

AddR(t) == Go(t, "addR", "checkR", AddReader(word))

\* Mutant: a reader that has added itself stays, whoever else came.
NoWriterOrAny == TRUE

NoWriter == word.writers = 0

CheckR(t) == Go(t, "checkR", IF NoWriter THEN "read" ELSE "undoR", word)
UndoR(t) == Go(t, "undoR", "waitR", BackOff(word))
UnlockR(t) == Go(t, "read", "idle", SubReader(word))

AddW(t) == Go(t, "addW", "checkW", AddWriter(word))
CheckW(t) == Go(t, "checkW", IF word.writers # 1 THEN "undoW"
                             ELSE IF word.readers = 0 THEN "write" ELSE "drain", word)
UndoW(t) == Go(t, "undoW", "waitW", SubWriter(word))

\* The one writer waits until there are no more readers.
Drain(t) == word.readers = 0 /\ Go(t, "drain", "write", word)
UnlockW(t) == Go(t, "write", "idle", SubWriter(word))

Init == word = [writers |-> 0, readers |-> 0] /\ pc = [t \in Threads |-> "idle"]

\* The steps of a thread that has called lock, until it has called unlock.
Locking(t) == \/ Wait(t) \/ AddR(t) \/ CheckR(t) \/ UndoR(t) \/ UnlockR(t)
              \/ AddW(t) \/ CheckW(t) \/ UndoW(t) \/ Drain(t) \/ UnlockW(t)

Next == \E t \in Threads : Start(t) \/ Locking(t)

Spec == Init /\ [][Next]_vars

\* The sections under the lock are a few loads and stores, and end.
FairSpec == Spec /\ \A t \in Threads : WF_vars(Locking(t))

-----------------------------------------------------------------------------
\* The threads that are in a counter of the word.
Readers == {t \in Threads : pc[t] \in {"checkR", "undoR", "read"}}
Writers == {t \in Threads : pc[t] \in {"checkW", "undoW", "drain", "write"}}

TypeOK == word \in Words /\ pc \in [Threads -> PCs]

\* The word counts the threads that are in it, those that are about to step back
\* included: no add is lost, none is undone twice, and nothing is left behind.
Counted == word.readers = Cardinality(Readers) /\ word.writers = Cardinality(Writers)

\* A writer is alone: no reader walks a next pointer, nor a second writer stores
\* one, while it stores, though none of them tests and adds in one step.
Exclusion == \A t, u \in Threads : t # u /\ pc[t] = "write" => pc[u] \notin {"read", "write"}

\* Once a writer has found itself the only one, readers that keep coming do not keep
\* it out.
Drained == \A t \in Threads : pc[t] = "drain" ~> pc[t] = "write"
=============================================================================
