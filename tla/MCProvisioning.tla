--------------------------- MODULE MCProvisioning ---------------------------
(***************************************************************************)
(* Provisioning with two tenants that want the same or different names.    *)
(***************************************************************************)
EXTENDS Provisioning, TLC

\* Identities are only ever compared, and every property treats the members
\* of each set alike.
Interchangeable ==
    Permutations(Tenants) \cup Permutations(Keys) \cup Permutations(Subdomains)
        \cup Permutations(Numbers) \cup Permutations(Requests)
=============================================================================
