------------------------------- MODULE Access -------------------------------
(***************************************************************************)
(* Who may work for a tenant (modules/access/staff_access.py), how they    *)
(* choose their first password with a code sent to the tenant's number     *)
(* (modules/access/otp.py) and enter their app (modules/access/identity.py,*)
(* security/session.py), and the one owner of the platform.                *)
(*                                                                         *)
(* A request is a process, and a step is one of its statements as far as   *)
(* others can come between; what a request writes it commits in the same   *)
(* step, since it reads nothing after it has written. A password or a code *)
(* that is wrong, a setup token that has expired, a reason that is missing,*)
(* an assignment to a station or hall that is disabled, and a tenant that  *)
(* is not active are reasons to Fail; a request that fails is rolled back, *)
(* the attempt of a code it has counted included.                          *)
(***************************************************************************)
EXTENDS Naturals, FiniteSets

CONSTANTS
    Users,          \* identities for users rows, of a tenant and of the platform
    Founder,        \* the administrator a tenant is provisioned with
    Roles,          \* the roles of staff
    Coded,          \* those whose first password takes a code: FIRST_PASSWORD_OTP_PURPOSES
    ADMIN,          \* tenant_admin
    OWNER,          \* platform_owner, which is no role of staff
    Challenges,     \* identities for otp_challenges rows
    Sessions,       \* login sessions that can be open at once
    Administrators, \* requests under /tenant-setup/staff that can be in flight at once
    Logins,         \* requests under /auth that can be in flight at once
    MaxAttempts,    \* MAX_ATTEMPTS
    NULL

VARIABLES
    user,       \* users with credentials, staff_profiles and role assignments: NULL or the row
    setups,     \* the password.changed events of a user in the audit trail
    factor,     \* the users with a row in totp_factors
    token,      \* the setup tokens that were handed out
    challenge,  \* otp_challenges: NULL or the row
    attempts,   \* the number of otp_attempts of a challenge
    session,    \* login_sessions: NULL or the row, while neither revoked nor expired
    work        \* the requests in flight

accessRows == <<user, setups, factor, token, challenge, attempts, session>>
accessVars == <<user, setups, factor, token, challenge, attempts, session, work>>

-----------------------------------------------------------------------------
\* required is users.first_password_change_required, default is
\* credentials.bootstrap_credential; active is the status of user and profile.
UserRow == [active : BOOLEAN, roles : SUBSET (Roles \cup {OWNER}),
            required : BOOLEAN, default : BOOLEAN]
Token == [user : Users, role : Roles]
ChallengeRow == [user : Users, role : Roles, live : BOOLEAN, verified : BOOLEAN]
SessionRow == [user : Users, role : Roles \cup {OWNER}]

\* What others see of a user, see Membership.tla.
MemberRow == [active : BOOLEAN, settled : BOOLEAN, roles : SUBSET (Roles \cup {OWNER})]

ASSUME AccessAssumption ==
    /\ Founder \in Users
    /\ ADMIN \in Roles /\ OWNER \notin Roles /\ Coded \subseteq Roles
    /\ IsFiniteSet(Users) /\ IsFiniteSet(Logins)
    /\ Administrators \cap Logins = {}
    /\ MaxAttempts \in Nat \ {0}
    /\ NULL \notin Users \cup Roles \cup {OWNER} \cup Challenges \cup Nat
    /\ NULL \notin UserRow \cup ChallengeRow \cup SessionRow \cup MemberRow

NoWork == [pc |-> "idle", actor |-> NULL, user |-> NULL, role |-> NULL,
           required |-> FALSE, challenge |-> NULL, seen |-> NULL]

WorkRow == [pc : {"idle", "load_roles", "authorized", "count_admins", "disable",
                  "password", "find_challenge", "send", "read_challenge", "count_attempts",
                  "settle", "own", "enroll"},
            actor : Users \cup {NULL},
            user : Users \cup {NULL},
            role : Roles \cup {OWNER, NULL},
            required : BOOLEAN,
            challenge : Challenges \cup {NULL},
            seen : Nat \cup {NULL}]

\* create_staff, and the administrator of a new tenant.
Invited(roles) == [active |-> TRUE, roles |-> roles, required |-> TRUE, default |-> TRUE]

\* _load_tenant_user, _load_platform_user: whom an app lets try.
Holds(u, role) == user[u] # NULL /\ user[u].active /\ role \in user[u].roles

Admins == {u \in Users : Holds(u, ADMIN)}
Owners == {u \in Users : Holds(u, OWNER)}

\* _load_tenant_setup_user, and what both steps of the setup ask of the row.
Awaited(t) ==
    Holds(t.user, t.role) /\ user[t.user].required /\ user[t.user].default

Continue(r, row) == work' = [work EXCEPT ![r] = row]

\* The request goes on after a SELECT, or ends without having written anything.
Go(r, row) ==
    /\ Continue(r, row)
    /\ UNCHANGED accessRows

-----------------------------------------------------------------------------
Init ==
    /\ user = [u \in Users |-> IF u = Founder THEN Invited({ADMIN}) ELSE NULL]
    /\ setups = [u \in Users |-> 0]
    /\ factor = {}
    /\ token = {}
    /\ challenge = [c \in Challenges |-> NULL]
    /\ attempts = [c \in Challenges |-> 0]
    /\ session = [s \in Sessions |-> NULL]
    /\ work = [r \in Administrators \cup Logins |-> NoWork]

\* DatabaseSessionResolver.resolve: the session with its user,
Authorize(r, s) ==
    /\ work[r].pc = "idle"
    /\ session[s] # NULL /\ session[s].role = ADMIN
    /\ user[session[s].user].active
    /\ Go(r, [NoWork EXCEPT !.pc = "load_roles", !.actor = session[s].user])

\* then its roles, for require_tenant_admin.
LoadRoles(r) ==
    /\ work[r].pc = "load_roles"
    /\ ADMIN \in user[work[r].actor].roles
    /\ Go(r, [work[r] EXCEPT !.pc = "authorized"])

\* create_staff: all rows of a new user; the name decides, by its unique index.
CreateStaff(r, u, roles) ==
    /\ work[r].pc = "authorized"
    /\ user[u] = NULL
    /\ roles # {}
    /\ user' = [user EXCEPT ![u] = Invited(roles)]
    /\ Continue(r, NoWork)
    /\ UNCHANGED <<setups, factor, token, challenge, attempts, session>>

\* Mutant: one may disable oneself, and only others are counted.
LoadProfileOfSelf(r, u) ==
    /\ work[r].pc = "authorized"
    /\ user[u] # NULL /\ OWNER \notin user[u].roles
    /\ Go(r, [work[r] EXCEPT !.user = u,
                 !.pc = IF ADMIN \in user[u].roles /\ u # work[r].actor
                        THEN "count_admins" ELSE "disable"])

\* disable_staff: the profile of another member of staff with its roles,
LoadProfile(r, u) ==
    /\ work[r].pc = "authorized"
    /\ u # work[r].actor
    /\ user[u] # NULL /\ OWNER \notin user[u].roles
    /\ Go(r, [work[r] EXCEPT !.user = u,
                 !.pc = IF ADMIN \in user[u].roles THEN "count_admins" ELSE "disable"])

\* _active_tenant_admin_count: an administrator must not be the last one;
CountAdmins(r) ==
    /\ work[r].pc = "count_admins"
    /\ Cardinality(Admins) > 1
    /\ Go(r, [work[r] EXCEPT !.pc = "disable"])

\* and user, profile and assignments are written. Sessions are not: resolve
\* asks for the user's status.
Disable(r) ==
    /\ work[r].pc = "disable"
    /\ user' = [user EXCEPT ![work[r].user].active = FALSE, ![work[r].user].roles = {}]
    /\ Continue(r, NoWork)
    /\ UNCHANGED <<setups, factor, token, challenge, attempts, session>>

-----------------------------------------------------------------------------
\* authenticate: the user is read,
BeginLogin(l, u, role) ==
    /\ work[l].pc = "idle"
    /\ Holds(u, role)
    /\ Go(l, [NoWork EXCEPT !.pc = "password", !.user = u, !.role = role,
                 !.required = user[u].required])

\* Mutant: the session does not wait for a password of the user's own.
EnterAtOnce(l, s) ==
    /\ work[l].pc = "password"
    /\ session[s] = NULL
    /\ session' = [session EXCEPT ![s] = [user |-> work[l].user, role |-> work[l].role]]
    /\ Continue(l, NoWork)
    /\ UNCHANGED <<user, setups, factor, token, challenge, attempts>>

\* then the password, and either a session is inserted,
Enter(l, s) ==
    /\ work[l].pc = "password"
    /\ ~ work[l].required
    /\ session[s] = NULL
    /\ session' = [session EXCEPT ![s] = [user |-> work[l].user, role |-> work[l].role]]
    /\ Continue(l, NoWork)
    /\ UNCHANGED <<user, setups, factor, token, challenge, attempts>>

\* or a setup token handed out.
IssueToken(l) ==
    /\ work[l].pc = "password"
    /\ work[l].required
    /\ token' = token \cup {[user |-> work[l].user, role |-> work[l].role]}
    /\ Continue(l, NoWork)
    /\ UNCHANGED <<user, setups, factor, challenge, attempts, session>>

-----------------------------------------------------------------------------
\* begin_first_password_setup, which only answers for a role without a code:
\* the user is read,
BeginSetup(l, t) ==
    /\ work[l].pc = "idle"
    /\ t \in token /\ Awaited(t)
    /\ t.role \in Coded
    /\ Go(l, [NoWork EXCEPT !.pc = "find_challenge", !.user = t.user, !.role = t.role])

Usable(c, row) ==
    /\ challenge[c] # NULL
    /\ challenge[c].user = row.user /\ challenge[c].role = row.role
    /\ challenge[c].live /\ ~ challenge[c].verified

\* then a challenge that is still good, which answers;
FindChallenge(l) ==
    /\ work[l].pc = "find_challenge"
    /\ Go(l, IF \E c \in Challenges : Usable(c, work[l]) THEN NoWork
             ELSE [work[l] EXCEPT !.pc = "send"])

\* else one is inserted, with the delivery of its code.
SendChallenge(l, c) ==
    /\ work[l].pc = "send"
    /\ challenge[c] = NULL
    /\ challenge' = [challenge EXCEPT ![c] = [user |-> work[l].user, role |-> work[l].role,
                                              live |-> TRUE, verified |-> FALSE]]
    /\ Continue(l, NoWork)
    /\ UNCHANGED <<user, setups, factor, token, attempts, session>>

\* complete_first_password_setup: the user is read; a role with a code goes on
\* with a challenge that begin has answered with,
BeginComplete(l, t, c) ==
    /\ work[l].pc = "idle"
    /\ t \in token /\ Awaited(t)
    /\ t.role \in Coded
    /\ challenge[c] # NULL
    /\ Go(l, [NoWork EXCEPT !.pc = "read_challenge", !.user = t.user, !.role = t.role,
                 !.challenge = c])

\* another without.
BeginUncoded(l, t) ==
    /\ work[l].pc = "idle"
    /\ t \in token /\ Awaited(t)
    /\ t.role \notin Coded
    /\ Go(l, [NoWork EXCEPT !.pc = "settle", !.user = t.user, !.role = t.role])

\* OtpMessagingService.verify reads the challenge: one that is verified is
\* accepted once more,
ReadChallenge(l) ==
    LET c == work[l].challenge IN
    /\ work[l].pc = "read_challenge"
    /\ challenge[c].user = work[l].user /\ challenge[c].role = work[l].role
    /\ challenge[c].verified \/ challenge[c].live
    /\ Go(l, [work[l] EXCEPT !.pc = IF challenge[c].verified THEN "settle" ELSE "count_attempts"])

\* for another the attempts are counted.
CountAttempts(l) ==
    /\ work[l].pc = "count_attempts"
    /\ attempts[work[l].challenge] < MaxAttempts
    /\ Go(l, [work[l] EXCEPT !.pc = "settle", !.seen = attempts[work[l].challenge]])

\* The attempt is appended under its number, unless another request has taken
\* the number, and the challenge verified.
Verify(l) ==
    LET c == work[l].challenge IN
    IF work[l].seen = NULL THEN UNCHANGED <<challenge, attempts>>
    ELSE /\ attempts[c] = work[l].seen
         /\ attempts' = [attempts EXCEPT ![c] = @ + 1]
         /\ challenge' = [challenge EXCEPT ![c].verified = TRUE]

\* Mutant: the user is left as it was.
SettleNothing(l, s) ==
    /\ work[l].pc = "settle"
    /\ session[s] = NULL
    /\ Verify(l)
    /\ setups' = [setups EXCEPT ![work[l].user] = @ + 1]
    /\ session' = [session EXCEPT ![s] = [user |-> work[l].user, role |-> work[l].role]]
    /\ Continue(l, NoWork)
    /\ UNCHANGED <<user, factor, token>>

\* The password is replaced, whatever has become of the user since it was
\* read, and a session inserted.
Settle(l, s) ==
    /\ work[l].pc = "settle"
    /\ session[s] = NULL
    /\ Verify(l)
    /\ user' = [user EXCEPT ![work[l].user].required = FALSE, ![work[l].user].default = FALSE]
    /\ setups' = [setups EXCEPT ![work[l].user] = @ + 1]
    /\ session' = [session EXCEPT ![s] = [user |-> work[l].user, role |-> work[l].role]]
    /\ Continue(l, NoWork)
    /\ UNCHANGED <<factor, token>>

-----------------------------------------------------------------------------
\* create_platform_owner: it is looked for an owner,
BeginOwner(l) ==
    /\ work[l].pc = "idle"
    /\ Owners = {}
    /\ Go(l, [NoWork EXCEPT !.pc = "own"])

\* and one inserted, if the unique index of active owners has not got one.
CreateOwner(l, u) ==
    /\ work[l].pc = "own"
    /\ user[u] = NULL
    /\ Owners = {}
    /\ user' = [user EXCEPT ![u] = [active |-> TRUE, roles |-> {OWNER},
                                    required |-> FALSE, default |-> FALSE]]
    /\ Continue(l, NoWork)
    /\ UNCHANGED <<setups, factor, token, challenge, attempts, session>>

\* enroll_platform_totp: the owner has no factor yet,
BeginEnroll(l, u) ==
    /\ work[l].pc = "idle"
    /\ Holds(u, OWNER)
    /\ u \notin factor
    /\ Go(l, [NoWork EXCEPT !.pc = "enroll", !.user = u, !.role = OWNER])

\* and gets the one and a session.
Enroll(l, s) ==
    /\ work[l].pc = "enroll"
    /\ work[l].user \notin factor
    /\ session[s] = NULL
    /\ factor' = factor \cup {work[l].user}
    /\ session' = [session EXCEPT ![s] = [user |-> work[l].user, role |-> OWNER]]
    /\ Continue(l, NoWork)
    /\ UNCHANGED <<user, setups, token, challenge, attempts>>

-----------------------------------------------------------------------------
\* logout, and the end of SESSION_TTL.
Leave(s) ==
    /\ session[s] # NULL
    /\ session' = [session EXCEPT ![s] = NULL]
    /\ UNCHANGED <<user, setups, factor, token, challenge, attempts, work>>

\* The end of OTP_TTL.
ExpireChallenge(c) ==
    /\ challenge[c] # NULL /\ challenge[c].live
    /\ challenge' = [challenge EXCEPT ![c].live = FALSE]
    /\ UNCHANGED <<user, setups, factor, token, attempts, session, work>>

\* A request is refused, fails or is cut off: its transaction is rolled back.
Fail(r) ==
    /\ work[r].pc # "idle"
    /\ Go(r, NoWork)

StaffStep(r) ==
    \/ \E s \in Sessions : Authorize(r, s)
    \/ LoadRoles(r)
    \/ \E u \in Users, roles \in SUBSET Roles : CreateStaff(r, u, roles)
    \/ \E u \in Users : LoadProfile(r, u)
    \/ CountAdmins(r)
    \/ Disable(r)

LoginStep(l) ==
    \/ \E u \in Users, role \in Roles \cup {OWNER} : BeginLogin(l, u, role)
    \/ \E s \in Sessions : Enter(l, s)
    \/ IssueToken(l)

SetupStep(l) ==
    \/ \E t \in token : BeginSetup(l, t) \/ BeginUncoded(l, t)
    \/ FindChallenge(l)
    \/ \E c \in Challenges : SendChallenge(l, c)
    \/ \E t \in token, c \in Challenges : BeginComplete(l, t, c)
    \/ ReadChallenge(l)
    \/ CountAttempts(l)
    \/ \E s \in Sessions : Settle(l, s)

OwnerStep(l) ==
    \/ BeginOwner(l)
    \/ \E u \in Users : CreateOwner(l, u) \/ BeginEnroll(l, u)
    \/ \E s \in Sessions : Enroll(l, s)

Next ==
    \/ \E r \in Administrators : StaffStep(r)
    \/ \E l \in Logins : LoginStep(l) \/ SetupStep(l) \/ OwnerStep(l)
    \/ \E s \in Sessions : Leave(s)
    \/ \E c \in Challenges : ExpireChallenge(c)
    \/ \E r \in Administrators \cup Logins : Fail(r)

Spec == Init /\ [][Next]_accessVars

-----------------------------------------------------------------------------
(***************************************************************************)
(* Properties                                                              *)
(***************************************************************************)

(***************************************************************************)
(* The rows of a user agree, although four tables hold them: the flag of   *)
(* the first password falls with the default credential, and who is        *)
(* disabled has no active role left. Else each row is of its table.        *)
(***************************************************************************)
Agree(row) == row.required = row.default /\ (~ row.active => row.roles = {})

TypeOK ==
    /\ user \in [Users -> UserRow \cup {NULL}]
    /\ \A u \in Users : user[u] # NULL => Agree(user[u])
    /\ setups \in [Users -> Nat]
    /\ factor \subseteq Users
    /\ token \subseteq Token
    /\ challenge \in [Challenges -> ChallengeRow \cup {NULL}]
    /\ attempts \in [Challenges -> 0 .. MaxAttempts]
    /\ session \in [Sessions -> SessionRow \cup {NULL}]
    /\ work \in [Administrators \cup Logins -> WorkRow]

(***************************************************************************)
(* A tenant always has an administrator: disable_staff "cannot disable the *)
(* last active tenant admin"                                               *)
(* (docs/modules/access/staff-access-contracts.md:10). The code does not   *)
(* keep it: two administrators that disable each other at once both count  *)
(* two of them.                                                            *)
(***************************************************************************)
AdminRemains == Admins # {}

\* The requests to disable somebody that have been let through for u.
Acting(u) == {r \in Administrators :
                 work[r].actor = u /\ work[r].pc \in {"authorized", "count_admins", "disable"}}

(***************************************************************************)
(* It takes such a race to leave a tenant without an administrator: who is *)
(* none is let through with nothing new (tenant_setup.py:450), and the     *)
(* last one is only disabled by a request of somebody who was removed      *)
(* while it was under way. A lone administrator cannot lock the tenant out.*)
(***************************************************************************)
LastAdminFallsToARace ==
    [][ /\ \A u \in Users : ~ Holds(u, ADMIN) => Acting(u)' \subseteq Acting(u)
        /\ Admins # {} /\ Admins' = {} =>
              \E u \in Users \ Admins : Acting(u)' # Acting(u) ]_accessVars

(***************************************************************************)
(* A first password is chosen once, but for races: at most as often as     *)
(* requests were in flight at once, however many challenges a user has and *)
(* however often a verified one is accepted.                               *)
(***************************************************************************)
SetupsWithinRaces == \A u \in Users : setups[u] <= Cardinality(Logins)

(***************************************************************************)
(* What access promises, see Membership.tla. A member is settled when the  *)
(* flag of the first password has fallen.                                  *)
(***************************************************************************)
Member(u) ==
    IF user[u] = NULL THEN NULL
    ELSE [active |-> user[u].active, settled |-> ~ user[u].required, roles |-> user[u].roles]

Membership == INSTANCE Membership WITH member <- [u \in Users |-> Member(u)], entry <- session

ImplementsMembership == Membership!MembershipSpec

(***************************************************************************)
(* What the requests in flight rely on, and what makes the properties      *)
(* inductive: users and challenges stay, who holds a role loses it only    *)
(* by being disabled, and a flag that has fallen does not rise again.      *)
(***************************************************************************)
Completing == {"read_challenge", "count_attempts", "settle"}
Choosing == {"find_challenge", "send"} \cup Completing
Entering == {"password", "enroll"} \cup Choosing

Knows(row) ==
    /\ row.pc = "load_roles" => row.actor \in Users /\ user[row.actor] # NULL
    /\ row.pc \in {"count_admins", "disable"} => row.user \in Users /\ user[row.user] # NULL
    /\ row.pc \in Entering =>
          /\ row.user \in Users /\ user[row.user] # NULL
          /\ row.role # NULL
          /\ user[row.user].active => row.role \in user[row.user].roles
    /\ row.pc = "password" /\ ~ row.required => ~ user[row.user].required
    /\ row.pc = "password" /\ row.required => row.role # OWNER
    /\ row.pc = "enroll" => row.role = OWNER /\ ~ user[row.user].required
    /\ row.pc \in Choosing => row.role # OWNER
    /\ row.pc \in {"read_challenge", "count_attempts"} \/ (row.pc = "settle" /\ row.seen # NULL) =>
          row.challenge \in Challenges /\ challenge[row.challenge] # NULL
    /\ row.pc \in Completing /\ row.seen # NULL => row.seen < MaxAttempts

RequestsKnow ==
    /\ \A r \in Administrators \cup Logins : Knows(work[r])
    /\ \A u \in Users : user[u] # NULL /\ OWNER \in user[u].roles => ~ user[u].required
    /\ \A s \in Sessions : session[s] # NULL => user[session[s].user] # NULL

\* The requests that are about to replace the first password of a user.
Flying(u) == {l \in Logins : work[l].pc \in Completing /\ work[l].user = u}

RacesCounted ==
    \A u \in Users :
        /\ setups[u] # 0 => user[u] # NULL /\ ~ user[u].required
        /\ setups[u] + Cardinality(Flying(u)) <= Cardinality(Logins)

(***************************************************************************)
(* What the requests of administrators rely on: somebody let them through  *)
(* who is an administrator, or has been removed since, and is not the one  *)
(* that they disable.                                                      *)
(***************************************************************************)
KnowsAdmin(row) ==
    /\ row.pc \in {"authorized", "count_admins", "disable"} =>
          /\ row.actor \in Users /\ user[row.actor] # NULL
          /\ user[row.actor].active => ADMIN \in user[row.actor].roles
    /\ row.pc \in {"count_admins", "disable"} => row.user # row.actor

AdminsKnow == \A r \in Administrators : KnowsAdmin(work[r])
=============================================================================
