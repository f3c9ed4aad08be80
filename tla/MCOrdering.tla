----------------------------- MODULE MCOrdering -----------------------------
(***************************************************************************)
(* Ordering on a small venue: two customer requests in flight, of one      *)
(* customer or of two.                                                     *)
(***************************************************************************)
EXTENDS Ordering, TLC

\* Identities are only ever compared, and every property treats the members
\* of each set alike.
Interchangeable ==
    Permutations(Tables) \cup Permutations(Customers) \cup Permutations(Carts) \cup Permutations(Keys)
        \cup Permutations(Orders) \cup Permutations(Sessions) \cup Permutations(Requests)
=============================================================================
