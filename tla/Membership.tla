----------------------------- MODULE Membership -----------------------------
(***************************************************************************)
(* What access promises about the people of a tenant, free of passwords,   *)
(* codes and requests: nobody enters who has not chosen a password of      *)
(* their own, or in a role they do not hold, unless they are removed while *)
(* they enter; who is removed stays removed, and was removed by somebody   *)
(* else, an administrator unless removed in the meantime; and there is one *)
(* owner of the platform.                                                  *)
(* Access.tla is shown to implement this module.                           *)
(***************************************************************************)
CONSTANTS Users, Founder, Roles, ADMIN, OWNER, Sessions, NULL

VARIABLES
    member,   \* [Users -> NULL or [active, settled, roles]]
    entry     \* [Sessions -> NULL or [user, role]]

membershipVars == <<member, entry>>

Admitted(roles, settled) == [active |-> TRUE, settled |-> settled, roles |-> roles]

MembershipInit ==
    /\ member = [u \in Users |-> IF u = Founder THEN Admitted({ADMIN}, FALSE) ELSE NULL]
    /\ entry = [s \in Sessions |-> NULL]

Invite(u, roles) ==
    /\ member[u] = NULL
    /\ member' = [member EXCEPT ![u] = Admitted(roles, FALSE)]
    /\ UNCHANGED entry

Own(u) ==
    /\ member[u] = NULL
    /\ \A v \in Users : member[v] # NULL => OWNER \notin member[v].roles
    /\ member' = [member EXCEPT ![u] = Admitted({OWNER}, TRUE)]
    /\ UNCHANGED entry

Open(s, u, role) ==
    /\ entry[s] = NULL
    /\ entry' = [entry EXCEPT ![s] = [user |-> u, role |-> role]]
    /\ member[u] # NULL
    /\ member[u].active => role \in member[u].roles

Enter(s, u, role) ==
    /\ Open(s, u, role)
    /\ member[u].settled
    /\ UNCHANGED member

\* The password is chosen, and with it the member enters.
Settle(s, u, role) ==
    /\ Open(s, u, role)
    /\ member' = [member EXCEPT ![u].settled = TRUE]

Leave(s) ==
    /\ entry[s] # NULL
    /\ entry' = [entry EXCEPT ![s] = NULL]
    /\ UNCHANGED member

Remove(u) ==
    /\ member[u] # NULL
    /\ \E v \in Users \ {u} : member[v] # NULL /\ (member[v].active => ADMIN \in member[v].roles)
    /\ member' = [member EXCEPT ![u].active = FALSE, ![u].roles = {}]
    /\ UNCHANGED entry

MembershipNext ==
    \/ \E s \in Sessions : Leave(s)
    \/ \E s \in Sessions, u \in Users, role \in Roles \cup {OWNER} :
          Enter(s, u, role) \/ Settle(s, u, role)
    \/ \E u \in Users, roles \in SUBSET Roles : Invite(u, roles)
    \/ \E u \in Users : Own(u) \/ Remove(u)

MembershipSpec == MembershipInit /\ [][MembershipNext]_membershipVars
=============================================================================
