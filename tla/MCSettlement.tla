---------------------------- MODULE MCSettlement ----------------------------
(***************************************************************************)
(* Settlement on a small venue: two cashier requests in flight, so that    *)
(* every pair of record, void and close requests can interleave.           *)
(***************************************************************************)
EXTENDS Settlement, TLC

\* Requests, payments, keys and reasons are only ever compared, and every
\* property treats the members of each set alike.
Interchangeable ==
    Permutations(Requests) \cup Permutations(Payments)
        \cup Permutations(Keys) \cup Permutations(Reasons)
=============================================================================
