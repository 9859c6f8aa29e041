------------------------------- MODULE TxSet -------------------------------
(***************************************************************************)
(* What the transactional skip list promises: a set of keys on which       *)
(* transactions run insert, remove and contains, each transaction seeing   *)
(* the set as it was when it began plus its own updates (opacity), and     *)
(* taking effect at once when it commits, which it may do only if every    *)
(* answer it was given still holds then (serializability).                 *)
(***************************************************************************)
EXTENDS Integers, Sequences

CONSTANTS Clients,  \* transactions that may be open at the same time
          Keys,     \* ItemType
          Start     \* the keys in the set at first

VARIABLES set,      \* the committed keys
          active,   \* the clients with a transaction open
          snap,     \* the committed keys when the transaction began
          trace     \* the calls of the transaction, each with its answer

vars == <<set, active, snap, trace>>

OpTypes == {"insert", "remove", "contains"}
Calls == [op : OpTypes, key : Keys]
Answers == [op : OpTypes, key : Keys, ok : BOOLEAN]

\* The answer a call gets on the set S.
Answer(S, c) == (c.key \in S) = (c.op # "insert")

\* The calls of tr that change whether k is in the set.
Updates(tr, k) == {i \in DOMAIN tr : tr[i].ok /\ tr[i].key = k /\ tr[i].op # "contains"}

\* The set that the calls of tr make of S: the last update of a key decides.
After(S, tr) ==
    {k \in Keys : IF Updates(tr, k) = {} THEN k \in S
                  ELSE \E i \in Updates(tr, k) : /\ tr[i].op = "insert"
                                                /\ \A j \in Updates(tr, k) : j <= i}

\* On S, the calls of tr get the answers that tr records.
Explains(S, tr) ==
    \A i \in DOMAIN tr : tr[i].ok = Answer(After(S, SubSeq(tr, 1, i - 1)), tr[i])

TypeOK == /\ set \subseteq Keys
          /\ active \subseteq Clients
          /\ snap \in [Clients -> SUBSET Keys]
          /\ trace \in [Clients -> Seq(Answers)]

-----------------------------------------------------------------------------
Init == /\ set = Start
        /\ active = {}
        /\ snap = [t \in Clients |-> {}]
        /\ trace = [t \in Clients |-> <<>>]

Begin(t) == /\ t \notin active
            /\ active' = active \cup {t}
            /\ snap' = [snap EXCEPT ![t] = set]
            /\ UNCHANGED <<set, trace>>

Do(t, c) == /\ t \in active
            /\ \E ok \in BOOLEAN :
                 /\ trace' = [trace EXCEPT ![t] = Append(@, [op |-> c.op, key |-> c.key, ok |-> ok])]
                 /\ ok = Answer(After(snap[t], trace[t]), c)
            /\ UNCHANGED <<set, active, snap>>

\* Closing a transaction forgets its snapshot and its calls.
Close(t) == /\ t \in active
            /\ active' = active \ {t}
            /\ snap' = [snap EXCEPT ![t] = {}]
            /\ trace' = [trace EXCEPT ![t] = <<>>]

Commit(t) == /\ Close(t)
             /\ Explains(set, trace[t])
             /\ set' = After(set, trace[t])

Abort(t) == Close(t) /\ UNCHANGED set

Next == \E t \in Clients : \/ Begin(t)
                           \/ \E c \in Calls : Do(t, c)
                           \/ Commit(t)
                           \/ Abort(t)

Spec == Init /\ [][Next]_vars
=============================================================================
