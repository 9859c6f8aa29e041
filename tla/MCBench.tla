------------------------------ MODULE MCBench ------------------------------
(***************************************************************************)
(* A small benchmark for TLC.                                              *)
(***************************************************************************)
EXTENDS Bench

CONSTANTS w1, w2

TwoWorkers == {w1, w2}
Op(o, k) == [op |-> o, key |-> k]

\* Transactions whose first operation may fail, or whose second one may, and that conflict.
Pairs == {<<Op("insert", 1), Op("remove", 2)>>, <<Op("remove", 1), Op("insert", 2)>>,
          <<Op("contains", 2), Op("insert", 1)>>}
=============================================================================
