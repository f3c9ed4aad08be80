------------------------------ MODULE MCAccess ------------------------------
(***************************************************************************)
(* Two people, the first of them the founder of the tenant.                *)
(***************************************************************************)
EXTENDS Access, TLC

\* Identities are only ever compared, and every property treats the members
\* of each set alike, except for the founder and the two roles with a name.
Interchangeable ==
    Permutations(Users \ {Founder}) \cup Permutations(Challenges) \cup Permutations(Sessions)
        \cup Permutations(Administrators) \cup Permutations(Logins)
=============================================================================
