------------------------ MODULE AccessingNextProofs ------------------------
(***************************************************************************)
(* The read-write spin lock of an index node excludes, for any number of   *)
(* threads that its counters can hold.                                     *)
(***************************************************************************)
EXTENDS AccessingNext, FiniteSetTheorems, TLAPS

\* A thread past checkW was the only writer in the word, and the word still counts it:
\* this is what Exclusion needs to be inductive.
Alone == /\ \A t, u \in Threads : t # u /\ pc[t] \in {"drain", "write"} => pc[u] \notin {"drain", "write"}
         /\ \A t, u \in Threads : pc[t] = "write" => pc[u] # "read"

Inv == TypeOK /\ Counted /\ Alone

-----------------------------------------------------------------------------
\* The counters do not wrap while they stay in range.
LEMMA InRange == ASSUME NEW n \in Nat, NEW b \in Nat, n < b PROVE n % b = n
  BY SMT

\* One thread moves from a to b.
LEMMA Moves == ASSUME NEW t \in Threads, NEW a, NEW b, NEW w, TypeOK, Go(t, a, b, w)
               PROVE /\ pc[t] = a /\ pc'[t] = b /\ word' = w
                     /\ \A u \in Threads : u # t => pc'[u] = pc[u]
  BY DEF TypeOK, Go

\* Both sets of threads are finite, and no larger than the counters allow.
LEMMA Sizes == /\ IsFiniteSet(Readers) /\ Cardinality(Readers) \in Nat /\ Cardinality(Readers) < ReaderBase
               /\ IsFiniteSet(Writers) /\ Cardinality(Writers) \in Nat /\ Cardinality(Writers) < WriterBase
<1>1. Readers \subseteq Threads /\ Writers \subseteq Threads
  BY DEF Readers, Writers
<1>2. /\ IsFiniteSet(Readers) /\ Cardinality(Readers) <= Cardinality(Threads)
      /\ IsFiniteSet(Writers) /\ Cardinality(Writers) <= Cardinality(Threads)
  BY <1>1, FS_Subset, WidthAssumption
<1> QED BY <1>2, FS_CardinalityType, WidthAssumption

\* The same holds after a step.
LEMMA SizesNext == /\ Cardinality(Readers') \in Nat /\ Cardinality(Readers') < ReaderBase
                   /\ Cardinality(Writers') \in Nat /\ Cardinality(Writers') < WriterBase
<1>1. Readers' \subseteq Threads /\ Writers' \subseteq Threads
  BY DEF Readers, Writers
<1>2. /\ IsFiniteSet(Readers') /\ Cardinality(Readers') <= Cardinality(Threads)
      /\ IsFiniteSet(Writers') /\ Cardinality(Writers') <= Cardinality(Threads)
  BY <1>1, FS_Subset, WidthAssumption
<1> QED BY <1>2, FS_CardinalityType, WidthAssumption

InR == {"checkR", "undoR", "read"}
InW == {"checkW", "undoW", "drain", "write"}

\* How a move changes who is in the word as a reader.
LEMMA ReadersMove ==
  ASSUME NEW t \in Threads, NEW a, NEW b, NEW w, TypeOK, Go(t, a, b, w)
  PROVE /\ (a \in InR <=> b \in InR) => Readers' = Readers
        /\ a \notin InR /\ b \in InR => Cardinality(Readers') = Cardinality(Readers) + 1
        /\ a \in InR /\ b \notin InR => Cardinality(Readers') = Cardinality(Readers) - 1
<1>1. /\ pc[t] = a /\ pc'[t] = b
      /\ \A u \in Threads : u # t => pc'[u] = pc[u]
  BY Moves
<1>2. ASSUME a \in InR <=> b \in InR PROVE Readers' = Readers
  BY <1>1, <1>2 DEF Readers, InR
<1>3. ASSUME a \notin InR, b \in InR PROVE Cardinality(Readers') = Cardinality(Readers) + 1
  <2>1. Readers' = Readers \cup {t} /\ t \notin Readers
    BY <1>1, <1>3 DEF Readers, InR
  <2> QED BY <2>1, Sizes, FS_AddElement
<1>4. ASSUME a \in InR, b \notin InR PROVE Cardinality(Readers') = Cardinality(Readers) - 1
  <2>1. Readers' = Readers \ {t} /\ t \in Readers
    BY <1>1, <1>4 DEF Readers, InR
  <2> QED BY <2>1, Sizes, FS_RemoveElement
<1> QED BY <1>2, <1>3, <1>4

\* How it changes who is in the word as a writer.
LEMMA WritersMove ==
  ASSUME NEW t \in Threads, NEW a, NEW b, NEW w, TypeOK, Go(t, a, b, w)
  PROVE /\ (a \in InW <=> b \in InW) => Writers' = Writers
        /\ a \notin InW /\ b \in InW => Cardinality(Writers') = Cardinality(Writers) + 1
        /\ a \in InW /\ b \notin InW => Cardinality(Writers') = Cardinality(Writers) - 1
<1>1. /\ pc[t] = a /\ pc'[t] = b
      /\ \A u \in Threads : u # t => pc'[u] = pc[u]
  BY Moves
<1>2. ASSUME a \in InW <=> b \in InW PROVE Writers' = Writers
  BY <1>1, <1>2 DEF Writers, InW
<1>3. ASSUME a \notin InW, b \in InW PROVE Cardinality(Writers') = Cardinality(Writers) + 1
  <2>1. Writers' = Writers \cup {t} /\ t \notin Writers
    BY <1>1, <1>3 DEF Writers, InW
  <2> QED BY <2>1, Sizes, FS_AddElement
<1>4. ASSUME a \in InW, b \notin InW PROVE Cardinality(Writers') = Cardinality(Writers) - 1
  <2>1. Writers' = Writers \ {t} /\ t \in Writers
    BY <1>1, <1>4 DEF Writers, InW
  <2> QED BY <2>1, Sizes, FS_RemoveElement
<1> QED BY <1>2, <1>3, <1>4

-----------------------------------------------------------------------------
\* While the counters have room, an add adds one and a sub takes one away.
LEMMA Adds == ASSUME TypeOK
              PROVE /\ word.readers + 1 < ReaderBase => AddReader(word) = [word EXCEPT !.readers = @ + 1]
                    /\ word.writers + 1 < WriterBase => AddWriter(word) = [word EXCEPT !.writers = @ + 1]
<1>1. word.readers + 1 < ReaderBase => AddReader(word) = [word EXCEPT !.readers = @ + 1]
  BY DEF AddReader
<1>2. ASSUME word.writers + 1 < WriterBase PROVE AddWriter(word) = [word EXCEPT !.writers = @ + 1]
  <2>1. word.writers + 1 \in Nat
    BY WidthAssumption DEF TypeOK, Words
  <2>2. (word.writers + 1) % WriterBase = word.writers + 1
    BY <1>2, <2>1, InRange, WidthAssumption
  <2> QED BY <2>2 DEF AddWriter
<1> QED BY <1>1, <1>2

LEMMA Subs == ASSUME TypeOK
              PROVE /\ word.readers > 0 => SubReader(word) = [word EXCEPT !.readers = @ - 1]
                    /\ word.writers > 0 => SubWriter(word) = [word EXCEPT !.writers = @ - 1]
<1>1. word.readers > 0 => SubReader(word) = [word EXCEPT !.readers = @ - 1]
  BY DEF SubReader
<1>2. ASSUME word.writers > 0 PROVE SubWriter(word) = [word EXCEPT !.writers = @ - 1]
  <2>1. word.writers - 1 \in Nat /\ word.writers - 1 < WriterBase
    BY <1>2, WidthAssumption DEF TypeOK, Words
  <2>2. (word.writers - 1) % WriterBase = word.writers - 1
    BY <2>1, InRange, WidthAssumption
  <2> QED BY <2>2 DEF SubWriter
<1> QED BY <1>1, <1>2

\* A move that leaves both counters right keeps the types.
LEMMA TypeStep ==
  ASSUME NEW t \in Threads, NEW a, NEW b \in PCs, NEW w, Inv, Go(t, a, b, w), Counted',
         DOMAIN w = {"writers", "readers"}, w = [writers |-> w.writers, readers |-> w.readers]
  PROVE TypeOK'
<1>1. word' = w /\ pc' \in [Threads -> PCs]
  BY DEF Inv, TypeOK, Go
<1>2. word'.writers \in 0..WriterBase - 1 /\ word'.readers \in 0..ReaderBase - 1
  BY SizesNext, WidthAssumption DEF Counted
<1> QED BY <1>1, <1>2 DEF TypeOK, Words

\* A move that leaves the word as it is and nobody in it but who was there.
LEMMA Quiet ==
  ASSUME NEW t \in Threads, NEW a, NEW b \in PCs, Inv, Go(t, a, b, word),
         a \in InR <=> b \in InR, a \in InW <=> b \in InW
  PROVE TypeOK' /\ Counted'
<1>1. Counted'
  BY ReadersMove, WritersMove DEF Inv, Counted, Go
<1>2. word = [writers |-> word.writers, readers |-> word.readers] /\ DOMAIN word = {"writers", "readers"}
  BY DEF Inv, TypeOK, Words
<1> QED BY <1>1, <1>2, TypeStep

\* A thread comes into the word as a reader, or as a writer.
LEMMA Enters ==
  ASSUME NEW t \in Threads, NEW a, NEW b \in PCs, NEW w, Inv, Go(t, a, b, w),
         a \notin InR \cup InW,
         (b \in InR \ InW /\ w = AddReader(word)) \/ (b \in InW \ InR /\ w = AddWriter(word))
  PROVE TypeOK' /\ Counted'
<1>1. Counted' /\ DOMAIN w = {"writers", "readers"} /\ w = [writers |-> w.writers, readers |-> w.readers]
  <2>1. word.readers \in Nat /\ word.writers \in Nat /\ word' = w
        /\ word = [writers |-> word.writers, readers |-> word.readers]
    BY WidthAssumption DEF Inv, TypeOK, Words, Go
  <2>2. CASE b \in InR \ InW /\ w = AddReader(word)
    <3>1. Cardinality(Readers') = Cardinality(Readers) + 1 /\ Writers' = Writers
      BY <2>2, ReadersMove, WritersMove DEF Inv
    <3>2. w = [word EXCEPT !.readers = @ + 1]
      BY <2>2, <3>1, SizesNext, Adds DEF Inv, Counted
    <3> QED BY <2>1, <3>1, <3>2 DEF Inv, Counted
  <2>3. CASE b \in InW \ InR /\ w = AddWriter(word)
    <3>1. Cardinality(Writers') = Cardinality(Writers) + 1 /\ Readers' = Readers
      BY <2>3, ReadersMove, WritersMove DEF Inv
    <3>2. w = [word EXCEPT !.writers = @ + 1]
      BY <2>3, <3>1, SizesNext, Adds DEF Inv, Counted
    <3> QED BY <2>1, <3>1, <3>2 DEF Inv, Counted
  <2> QED BY <2>2, <2>3
<1> QED BY <1>1, TypeStep

\* A thread takes itself out of the word.
LEMMA Leaves ==
  ASSUME NEW t \in Threads, NEW a, NEW b \in PCs, NEW w, Inv, Go(t, a, b, w),
         b \notin InR \cup InW,
         (a \in InR \ InW /\ w = SubReader(word)) \/ (a \in InW \ InR /\ w = SubWriter(word))
  PROVE TypeOK' /\ Counted'
<1>1. Counted' /\ DOMAIN w = {"writers", "readers"} /\ w = [writers |-> w.writers, readers |-> w.readers]
  <2>1. word.readers \in Nat /\ word.writers \in Nat /\ word' = w
        /\ word = [writers |-> word.writers, readers |-> word.readers]
    BY WidthAssumption DEF Inv, TypeOK, Words, Go
  <2>2. CASE a \in InR \ InW /\ w = SubReader(word)
    <3>1. Cardinality(Readers') = Cardinality(Readers) - 1 /\ Writers' = Writers
      BY <2>2, ReadersMove, WritersMove DEF Inv
    <3>2. w = [word EXCEPT !.readers = @ - 1]
      BY <2>1, <2>2, <3>1, Sizes, SizesNext, Subs DEF Inv, Counted
    <3> QED BY <2>1, <3>1, <3>2 DEF Inv, Counted
  <2>3. CASE a \in InW \ InR /\ w = SubWriter(word)
    <3>1. Cardinality(Writers') = Cardinality(Writers) - 1 /\ Readers' = Readers
      BY <2>3, ReadersMove, WritersMove DEF Inv
    <3>2. w = [word EXCEPT !.writers = @ - 1]
      BY <2>1, <2>3, <3>1, Sizes, SizesNext, Subs DEF Inv, Counted
    <3> QED BY <2>1, <3>1, <3>2 DEF Inv, Counted
  <2> QED BY <2>2, <2>3
<1> QED BY <1>1, TypeStep

-----------------------------------------------------------------------------
\* Every action of a thread comes into the word, leaves it, or stays where it was.
LEMMA CountedStep == ASSUME Inv, NEW t \in Threads, Start(t) \/ Locking(t)
                     PROVE TypeOK' /\ Counted'
<1> USE DEF PCs, ReadPCs, WritePCs, InR, InW
<1>1. CASE Start(t)
  BY <1>1, Quiet DEF Start
<1>2. CASE Wait(t)
  BY <1>2, Quiet DEF Wait
<1>3. CASE AddR(t)
  BY <1>3, Enters DEF AddR
<1>4. CASE CheckR(t)
  BY <1>4, Quiet DEF CheckR
<1>5. CASE UndoR(t)
  BY <1>5, Leaves DEF UndoR, BackOff
<1>6. CASE UnlockR(t)
  BY <1>6, Leaves DEF UnlockR
<1>7. CASE AddW(t)
  BY <1>7, Enters DEF AddW
<1>8. CASE CheckW(t)
  BY <1>8, Quiet DEF CheckW
<1>9. CASE UndoW(t)
  BY <1>9, Leaves DEF UndoW
<1>10. CASE Drain(t)
  BY <1>10, Quiet DEF Drain
<1>11. CASE UnlockW(t)
  BY <1>11, Leaves DEF UnlockW
<1> QED BY <1>1, <1>2, <1>3, <1>4, <1>5, <1>6, <1>7, <1>8, <1>9, <1>10, <1>11 DEF Locking

\* A counter at zero says that nobody is in; at one, that a writer is in alone.
LEMMA Nobody == ASSUME Inv
                PROVE /\ word.readers = 0 => Readers = {}
                      /\ word.writers = 0 => Writers = {}
                      /\ word.writers = 1 => \A t, u \in Writers : t = u
<1>1. word.readers = 0 => Readers = {}
  BY Sizes, FS_EmptySet DEF Inv, Counted
<1>2. word.writers = 0 => Writers = {}
  BY Sizes, FS_EmptySet DEF Inv, Counted
<1>3. ASSUME word.writers = 1, NEW t \in Writers, NEW u \in Writers PROVE t = u
  <2>1. Cardinality(Writers) = 1
    BY <1>3 DEF Inv, Counted
  <2>2. PICK x : Writers = {x}
    BY <2>1, Sizes, FS_Singleton
  <2> QED BY <2>2
<1> QED BY <1>1, <1>2, <1>3

\* No move but these three brings a thread where it needs to be alone.
LEMMA Elsewhere ==
  ASSUME NEW t \in Threads, NEW a, NEW b, NEW w, Inv, Go(t, a, b, w),
         b \notin {"read", "write", "drain"} \/ (a = "drain" /\ b = "write" /\ Readers = {})
  PROVE Alone'
<1>1. pc[t] = a /\ pc'[t] = b /\ \A u \in Threads : u # t => pc'[u] = pc[u]
  BY Moves DEF Inv
<1>2. CASE b \notin {"read", "write", "drain"}
  BY <1>1, <1>2 DEF Inv, Alone
<1>3. CASE a = "drain" /\ b = "write" /\ Readers = {}
  <2>1. \A u \in Threads : pc[u] # "read"
    BY <1>3 DEF Readers
  <2> QED BY <1>1, <1>3, <2>1 DEF Inv, Alone
<1> QED BY <1>2, <1>3

\* A writer that goes on has found itself the only one, and a reader has found none.
LEMMA AloneStep == ASSUME Inv, NEW t \in Threads, Start(t) \/ Locking(t)
                   PROVE Alone'
<1>1. CASE CheckR(t)
  <2> DEFINE b == IF NoWriter THEN "read" ELSE "undoR"
  <2>1. Go(t, "checkR", b, word)
    BY <1>1 DEF CheckR
  <2>2. CASE NoWriter
    <3>1. \A u \in Threads : pc[u] # "write"
      BY <2>2, Nobody DEF NoWriter, Writers
    <3>2. pc'[t] = "read" /\ \A u \in Threads : u # t => pc'[u] = pc[u]
      BY <2>1, <2>2, Moves DEF Inv
    <3> QED BY <3>1, <3>2 DEF Inv, Alone
  <2>3. CASE ~NoWriter
    BY <2>1, <2>3, Elsewhere
  <2> QED BY <2>2, <2>3
<1>2. CASE CheckW(t)
  <2> DEFINE b == IF word.writers # 1 THEN "undoW" ELSE IF word.readers = 0 THEN "write" ELSE "drain"
  <2>1. Go(t, "checkW", b, word)
    BY <1>2 DEF CheckW
  <2>2. CASE word.writers = 1
    <3>1. pc[t] = "checkW" /\ pc'[t] = b /\ \A u \in Threads : u # t => pc'[u] = pc[u]
      BY <2>1, Moves DEF Inv
    <3>2. \A u \in Threads : u # t => pc[u] \notin {"drain", "write"}
      BY <2>2, <3>1, Nobody DEF Writers
    <3>3. b = "write" => \A u \in Threads : pc[u] # "read"
      BY <2>2, Nobody DEF Readers
    <3>4. b \in {"write", "drain"}
      BY <2>2
    <3> QED BY <3>1, <3>2, <3>3, <3>4 DEF Inv, Alone
  <2>3. CASE word.writers # 1
    BY <2>1, <2>3, Elsewhere
  <2> QED BY <2>2, <2>3
<1>3. CASE Drain(t)
  BY <1>3, Nobody, Elsewhere DEF Drain
<1>4. CASE Start(t) \/ Wait(t) \/ AddR(t) \/ UndoR(t) \/ UnlockR(t) \/ AddW(t) \/ UndoW(t) \/ UnlockW(t)
  BY <1>4, Elsewhere DEF Start, Wait, AddR, UndoR, UnlockR, AddW, UndoW, UnlockW
<1> QED BY <1>1, <1>2, <1>3, <1>4 DEF Locking

LEMMA InvInit == ASSUME Init PROVE Inv
<1>1. Readers = {} /\ Writers = {}
  BY DEF Init, Readers, Writers
<1>2. Counted
  BY <1>1, FS_EmptySet DEF Init, Counted
<1>3. TypeOK
  BY WidthAssumption, FS_CardinalityType DEF Init, TypeOK, Words, PCs
<1>4. Alone
  BY DEF Init, Alone
<1> QED BY <1>2, <1>3, <1>4 DEF Inv

LEMMA InvNext == ASSUME Inv, [Next]_vars PROVE Inv'
<1>1. CASE Next
  BY <1>1, CountedStep, AloneStep DEF Next, Inv
<1>2. CASE UNCHANGED vars
  BY <1>2 DEF vars, Inv, TypeOK, Counted, Readers, Writers, Alone
<1> QED BY <1>1, <1>2

-----------------------------------------------------------------------------
\* The word of a node always counts exactly the threads that _sl_read_lock_an and
\* _sl_write_lock_an have added and not yet taken out: neither counter ever carries.
THEOREM CountedCorrect == Spec => []Counted
<1>1. Inv => Counted
  BY DEF Inv
<1> QED BY InvInit, InvNext, <1>1, PTL DEF Spec

\* However many threads share the lock, between _sl_write_lock_an and
\* _sl_write_unlock_an a thread is alone: no other one reads or writes.
THEOREM ExclusionCorrect == Spec => []Exclusion
<1>1. Inv => Exclusion
  BY DEF Inv, Alone, Exclusion
<1> QED BY InvInit, InvNext, <1>1, PTL DEF Spec
=============================================================================
