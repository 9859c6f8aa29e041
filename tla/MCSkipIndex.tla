---------------------------- MODULE MCSkipIndex ----------------------------
(***************************************************************************)
(* Small instances of the index library for TLC.                           *)
(***************************************************************************)
EXTENDS SkipIndex, TLC

CONSTANTS t1, t2, t3, a, b, c, d, e

TwoThreads == {t1, t2}
ThreeThreads == {t1, t2, t3}
FourNodes == {a, b, c, d}
FiveNodes == {a, b, c, d, e}

\* c and d, which are equal, come between a and b; e, behind them all, is only looked for.
Ties == (a :> 1) @@ (c :> 2) @@ (d :> 2) @@ (b :> 3) @@ (e :> 4)
Rising == (a :> 1) @@ (b :> 2) @@ (c :> 3) @@ (d :> 3)
Ins(n, i) == [op |-> "insert", node |-> n, tops |-> i]
Del(n) == [op |-> "erase", node |-> n, tops |-> {}]
Get(n) == [op |-> "find", node |-> n, tops |-> {}]

\* a and b are tall: nothing that comes or goes is taller.
Tall == (a :> 1) @@ (b :> 1)

\* One thread inserts or erases around the place where a second one does and a third one looks.
Around == {(t1 :> <<x>>) @@ (t2 :> <<y>>) @@ (t3 :> <<z>>) :
            x \in {Ins(c, {1}), Del(a)}, y \in {Ins(d, {0, 1}), Del(b)}, z \in {Get(b), Get(e)}}

\* A node is erased before it is inserted, or after.
Turns == {(t1 :> p) @@ (t2 :> <<z>>) @@ (t3 :> <<>>) :
            p \in {<<Del(c), Ins(c, {1})>>, <<Ins(c, {0}), Del(c)>>}, z \in {Del(b), Ins(d, {0}), Get(d)}}
Mixed == Around \cup Turns

\* The list grows from one layer to two, by a node that is erased again, while another
\* thread inserts elsewhere.
Grow == {(t1 :> <<Ins(c, {1}), Del(c)>>) @@ (t2 :> <<Ins(d, {0})>>)}
Low == (a :> 0) @@ (b :> 0)
Apart == (a :> 1) @@ (d :> 2) @@ (b :> 3) @@ (c :> 4)

\* The bottom layer only.
Flat == {(t1 :> <<x>>) @@ (t2 :> <<y>>) @@ (t3 :> <<z>>) :
           x \in {Ins(c, {0}), Del(b)}, y \in {Ins(d, {0}), Del(a)}, z \in {Get(c), Del(b)}}

\* One thread erases a node that another one is inserting.  TSkipList::TXCommit lets go of
\* the nodes before it calls index.update, so one commit may erase a node from the index
\* while another one is still inserting it there.
Meet == {(t1 :> <<Ins(c, {1})>>) @@ (t2 :> <<Del(c)>>)}

\* The threads of every instance but Meet keep their turns, and nothing that comes and goes is
\* taller than what stays, but in Grow.
ASSUME CallersAssumption == (Owners \/ Programs = Meet) /\ (Steady \/ Programs = Grow)
=============================================================================
