----------------------------- MODULE MCPresence -----------------------------
(***************************************************************************)
(* A small instance of Presence for TLC.                                   *)
(***************************************************************************)
EXTENDS Presence, TLC

CONSTANTS n1, n2, t1, t2

MCTenantOf == t1 :> n1 @@ t2 :> n2

Sym == Permutations(Tokens) \cup Permutations(Guests) \cup Permutations(Credentials)
          \cup Permutations(Requests)
=============================================================================
