--------------------------- MODULE MCTableService ---------------------------
(***************************************************************************)
(* TableService with one request in flight on each side, so that every     *)
(* customer request can meet every cashier request.                        *)
(***************************************************************************)
EXTENDS TableService, TLC

\* Identities are only ever compared, and every property treats the members
\* of each set alike.
Interchangeable ==
    Permutations(Tables) \cup Permutations(Customers) \cup Permutations(Carts)
        \cup Permutations(Keys) \cup Permutations(Orders) \cup Permutations(Sessions)
        \cup Permutations(Payments) \cup Permutations(PaymentKeys)
=============================================================================
