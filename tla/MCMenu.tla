------------------------------- MODULE MCMenu -------------------------------
(***************************************************************************)
(* A menu of one product, changed by two administrators, who are at work   *)
(* on the stations, too, while a guest orders.                             *)
(***************************************************************************)
EXTENDS Menu, TLC

\* Identities are only ever compared, and every property treats the members
\* of each set alike.
Interchangeable ==
    Permutations(Stations) \cup Permutations(Products) \cup Permutations(Variants)
        \cup Permutations(Configs) \cup Permutations(Items)
        \cup Permutations(Requests) \cup Permutations(Guests)
=============================================================================
