------------------------------ MODULE IndexSet ------------------------------
(***************************************************************************)
(* What the index library promises its callers: a set of linked nodes.  An *)
(* insert or an erase takes effect at one moment between its call and its  *)
(* return.  A find is not of one moment: it answers with a node that was   *)
(* there during the call, and passes over none that was there throughout.  *)
(***************************************************************************)
EXTENDS Integers

CONSTANTS Threads,
          Nodes,  \* index nodes, Node::snode
          Key,    \* their keys
          None    \* no node

VARIABLES linked,  \* the set of nodes
          call     \* per thread: its open call, whether it has taken effect, its answer; of a find
                   \* also the nodes that it has met, at some moment, and those kept throughout
vars == <<linked, call>>

Idle == [op |-> "none", node |-> None, key |-> 0, done |-> FALSE, met |-> {}, kept |-> {}, answer |-> None]

\* A find for key k may answer with n, or with no node.
MayAnswer(n, k, met, kept) ==
  /\ n # None => n \in met /\ Key[n] < k
  /\ \A m \in kept : Key[m] < k => n # None /\ Key[m] <= Key[n]

\* S is the set now: every open find sees it.
Becomes(S, c) ==
  /\ linked' = S
  /\ call' = [t \in Threads |-> IF c[t].op = "find" THEN [c[t] EXCEPT !.met = @ \cup S, !.kept = @ \cap S] ELSE c[t]]

Call(t) == /\ call[t].op = "none"
           /\ \/ \E n \in Nodes, op \in {"insert", "erase"} :
                    call' = [call EXCEPT ![t] = [Idle EXCEPT !.op = op, !.node = n, !.key = Key[n]]]
              \/ \E k \in {Key[n] : n \in Nodes} :
                    call' = [call EXCEPT ![t] = [Idle EXCEPT !.op = "find", !.key = k, !.met = linked, !.kept = linked]]
           /\ UNCHANGED linked

Effect(t, op, S) == /\ call[t].op = op /\ ~call[t].done
                    /\ Becomes(S, [call EXCEPT ![t].done = TRUE])

Insert(t) == Effect(t, "insert", linked \cup {call[t].node})
Erase(t) == Effect(t, "erase", linked \ {call[t].node})
Answer(t) == \E n \in Nodes \cup {None} : /\ call[t].op = "find" /\ ~call[t].done
                                         /\ MayAnswer(n, call[t].key, call[t].met, call[t].kept)
                                         /\ call' = [call EXCEPT ![t].done = TRUE, ![t].answer = n]
                                         /\ UNCHANGED linked

\* Two erases of one node: the second one leaves it to the first.
Refuse(t) == /\ call[t].op = "erase" /\ ~call[t].done
             /\ \/ call[t].node \notin linked
                \/ \E u \in Threads \ {t} : call[u].op = "erase" /\ call[u].node = call[t].node
             /\ call' = [call EXCEPT ![t] = Idle]
             /\ UNCHANGED linked

Return(t) == call[t].done /\ call' = [call EXCEPT ![t] = Idle] /\ UNCHANGED linked

Init == linked \in SUBSET Nodes /\ call = [t \in Threads |-> Idle]
Next == \E t \in Threads : Call(t) \/ Insert(t) \/ Erase(t) \/ Answer(t) \/ Refuse(t) \/ Return(t)
Spec == Init /\ [][Next]_vars
=============================================================================
