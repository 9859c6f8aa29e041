---------------------------- MODULE MCTSkipList ----------------------------
(***************************************************************************)
(* Small instances of the transactional skip list for TLC.                 *)
(***************************************************************************)
EXTENDS TSkipListTxSet, TLC

CONSTANTS t1, t2

OneThread == {t1}
TwoThreads == {t1, t2}
Symmetric == Permutations(Threads)

Lowest == 0

Call(ops, keys) == [op : ops, key : keys]

\* Ones are the programs of a single call, Twos those of two.
Ones(keys) == {<<c>> : c \in Call(OpTypes, keys)}
Twos(keys) == {<<c, d>> : c \in Call(OpTypes, keys), d \in Call(OpTypes, keys)}

\* Inner keys: 9 is warm and stands for the larger keys that the list already
\* holds, so that no call reaches the end of the chain.
InnerKeys == {2, 3, 9}
InnerWarm == <<2, 9>>
InnerOnes == Ones({2, 3})
InnerPrograms == InnerOnes \cup Twos({2, 3})

\* End keys: the calls reach the last key of the list and what lies beyond it.
EndKeys == {1, 2, 3}
EndWarm == <<2, 3>>
ShortWarm == <<1, 2>>
EndOnes == Ones(EndKeys)

\* As chooseOps of experiments.cpp has it, an update-only pair inserts, then removes.
EndUpdates == {<<[op |-> "insert", key |-> 1], [op |-> "remove", key |-> k]>> : k \in {1, 2}}
EndTwos == Twos(EndKeys)
EndPrograms == EndOnes \cup EndUpdates
=============================================================================
