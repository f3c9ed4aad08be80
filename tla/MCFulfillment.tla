---------------------------- MODULE MCFulfillment ----------------------------
(***************************************************************************)
(* A small instance of Fulfillment: every item was ordered at one table.   *)
(* A bulk delivery that names the other table is refused as mixed.         *)
(***************************************************************************)
EXTENDS Fulfillment, TLC

CONSTANTS t1, t2

AllAtOneTable == [i \in Items |-> t1]

Interchangeable == Permutations(Requests) \cup Permutations(Keys)
=============================================================================
