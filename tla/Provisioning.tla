---------------------------- MODULE Provisioning ----------------------------
(***************************************************************************)
(* How tenants come to be (modules/platform/provisioning.py) and how their *)
(* profile and status change afterwards.                                   *)
(*                                                                         *)
(* A request is a process. create_tenant reads its key, reserves it, and   *)
(* goes on in the same transaction to create everything a tenant has: the  *)
(* reservation is its request's and unseen until the COMMIT, and whoever   *)
(* inserts the same key waits for it. The other commands begin with a      *)
(* SELECT ... FOR UPDATE of the tenant, wait for its row, and hold it      *)
(* until they end. The tenant's records (administrator, settings, starter  *)
(* halls, menu and staff, audit) are inserted in one transaction with it   *)
(* and stand for it here; a key is the pair of actor and Idempotency-Key,  *)
(* and a body stands for its hash.                                         *)
(***************************************************************************)
EXTENDS Naturals, Sequences

CONSTANTS
    Tenants,    \* identities for tenants rows
    Keys,       \* pairs of a platform actor and an Idempotency-Key
    Subdomains,
    Numbers,    \* GSM numbers
    Requests,   \* requests of platform owners the server can have in flight at once
    MaxEvents,  \* bound: lifecycle events of a tenant
    NULL

VARIABLES
    tenant,     \* tenants: NULL or the row
    health,     \* tenant_health.lifecycle_state, NULL without a row
    trail,      \* tenant_lifecycle_events of a tenant, oldest first
    key,        \* tenant_provisioning_idempotency: NULL or the row
    work        \* the requests in flight

rows == <<tenant, health, trail, key>>
provisioningVars == <<tenant, health, trail, key, work>>

-----------------------------------------------------------------------------
Statuses == {"provisioning", "active", "suspended", "provisioning_failed"}

TenantRow == [subdomain : Subdomains, gsm : Numbers, status : Statuses]
Event == [from : Statuses \cup {NULL}, to : Statuses]
Body == [subdomain : Subdomains, gsm : Numbers]
KeyRow == [body : Body, tenant : Tenants]

ASSUME ProvisioningAssumption ==
    /\ MaxEvents \in Nat \ {0, 1}
    /\ NULL \notin Tenants \cup Keys \cup Numbers \cup Statuses
    /\ NULL \notin TenantRow \cup KeyRow \cup Body

NoWork == [pc |-> "idle", key |-> NULL, body |-> NULL, tenant |-> NULL,
           seen |-> NULL, next |-> NULL, gsm |-> NULL]

WorkRow == [pc : {"idle", "insert_key", "create", "status", "profile", "retry", "mark"},
            key : Keys \cup {NULL},
            body : Body \cup {NULL},
            tenant : Tenants \cup {NULL},
            seen : Statuses \cup {NULL},
            next : Statuses \cup {NULL},
            gsm : Numbers \cup {NULL}]

Known == {t \in Tenants : tenant[t] # NULL}

\* A key that a request has inserted without having committed.
Reserved(k) == \E q \in Requests : work[q].pc = "create" /\ work[q].key = k

\* Where a request holds the row of a tenant.
Locking == {"status", "profile", "retry", "mark"}

Locked(t) == \E q \in Requests : work[q].pc \in Locking /\ work[q].tenant = t

\* uq_tenants__subdomain_lower and uq_tenants__gsm_number.
Taken(body) ==
    \E t \in Known : tenant[t].subdomain = body.subdomain \/ tenant[t].gsm = body.gsm

\* The transitions change_status knows.
Allowed == {<<"active", "suspended">>, <<"suspended", "active">>,
            <<"provisioning_failed", "active">>}

\* What retry_failed and mark_recovery_needed are for.
Unfinished == {"provisioning", "provisioning_failed"}

Continue(r, row) == work' = [work EXCEPT ![r] = row]

\* The request goes on after a SELECT, or ends without having written anything.
Go(r, row) ==
    /\ Continue(r, row)
    /\ UNCHANGED rows

-----------------------------------------------------------------------------
Init ==
    /\ tenant = [t \in Tenants |-> NULL]
    /\ health = [t \in Tenants |-> NULL]
    /\ trail = [t \in Tenants |-> <<>>]
    /\ key = [k \in Keys |-> NULL]
    /\ work = [r \in Requests |-> NoWork]

(***************************************************************************)
(* create_tenant, once the code sent to the tenant's number is verified:   *)
(* the SELECT of the key. A key that is known answers: with its tenant to  *)
(* the same body, else idempotency_conflict.                               *)
(***************************************************************************)
ReadKey(r, k, body) ==
    /\ work[r].pc = "idle"
    /\ key[k] = NULL
    /\ Go(r, [NoWork EXCEPT !.pc = "insert_key", !.key = k, !.body = body])

\* Mutant: the key is not unique, and the last insert wins.
InsertKeyAlways(r) ==
    /\ work[r].pc = "insert_key"
    /\ Go(r, [work[r] EXCEPT !.pc = "create"])

\* The INSERT of the key waits for a rival, and fails with request_processing
\* if the rival has committed.
InsertKey(r) ==
    LET k == work[r].key IN
    /\ work[r].pc = "insert_key"
    /\ ~ Reserved(k)
    /\ Go(r, IF key[k] = NULL THEN [work[r] EXCEPT !.pc = "create"] ELSE NoWork)

\* The tenant as it is when its starter halls, menu and staff are inserted too.
Provisioned(body) == [subdomain |-> body.subdomain, gsm |-> body.gsm, status |-> "active"]

Birth == <<[from |-> NULL, to |-> "provisioning"], [from |-> "provisioning", to |-> "active"]>>

(***************************************************************************)
(* create_tenant, from its look at the names to its COMMIT. The constraint *)
(* of the INSERT answers what the look did not see: duplicate_subdomain or *)
(* duplicate_gsm (then Fail). The tenant ends active, with both events.    *)
(***************************************************************************)
CommitCreate(r, t) ==
    LET body == work[r].body IN
    /\ work[r].pc = "create"
    /\ tenant[t] = NULL
    /\ ~ Taken(body)
    /\ tenant' = [tenant EXCEPT ![t] = Provisioned(body)]
    /\ health' = [health EXCEPT ![t] = "active"]
    /\ trail' = [trail EXCEPT ![t] = Birth]
    /\ key' = [key EXCEPT ![work[r].key] = [body |-> body, tenant |-> t]]
    /\ Continue(r, NoWork)

-----------------------------------------------------------------------------
\* Mutant: SELECT without FOR UPDATE.
LockTenantNot(r, t, row) ==
    /\ work[r].pc = "idle"
    /\ t \in Known
    /\ Go(r, [row EXCEPT !.tenant = t, !.seen = tenant[t].status])

\* _lock_tenant and _load_provisioning_rows: waits for the row, reads it, keeps it.
LockTenant(r, t, row) ==
    /\ work[r].pc = "idle"
    /\ t \in Known
    /\ ~ Locked(t)
    /\ Go(r, [row EXCEPT !.tenant = t, !.seen = tenant[t].status])

BeginStatus(r, t, next) == LockTenant(r, t, [NoWork EXCEPT !.pc = "status", !.next = next])

\* change_status: an allowed transition is written to the tenant, to its health
\* and to its trail; the same status or another one leaves all as it was.
CommitStatus(r) ==
    LET t == work[r].tenant IN
    /\ work[r].pc = "status"
    /\ <<work[r].seen, work[r].next>> \in Allowed
    /\ Len(trail[t]) < MaxEvents
    /\ tenant' = [tenant EXCEPT ![t].status = work[r].next]
    /\ health' = [health EXCEPT ![t] = work[r].next]
    /\ trail' = [trail EXCEPT ![t] = Append(@, [from |-> work[r].seen, to |-> work[r].next])]
    /\ Continue(r, NoWork)
    /\ UNCHANGED key

BeginProfile(r, t, gsm) == LockTenant(r, t, [NoWork EXCEPT !.pc = "profile", !.gsm = gsm])

\* update_profile, the number: looked for, and unique when it is written. The
\* other fields are of no consequence.
CommitProfile(r) ==
    /\ work[r].pc = "profile"
    /\ \A t \in Known \ {work[r].tenant} : tenant[t].gsm # work[r].gsm
    /\ tenant' = [tenant EXCEPT ![work[r].tenant].gsm = work[r].gsm]
    /\ Continue(r, NoWork)
    /\ UNCHANGED <<health, trail, key>>

BeginRetry(r, t) == LockTenant(r, t, [NoWork EXCEPT !.pc = "retry"])

\* retry_failed: of a tenant that is not unfinished invalid_lifecycle_transition.
\* The state of its starter template is looked at behind the same guard.
CommitRetry(r) ==
    LET t == work[r].tenant IN
    /\ work[r].pc = "retry"
    /\ Continue(r, NoWork)
    /\ IF work[r].seen \in Unfinished
       THEN /\ tenant' = [tenant EXCEPT ![t].status = "active"]
            /\ health' = [health EXCEPT ![t] = "active"]
            /\ trail' = [trail EXCEPT ![t] = Append(@, [from |-> work[r].seen, to |-> "active"])]
            /\ UNCHANGED key
       ELSE UNCHANGED rows

BeginMark(r, t) == LockTenant(r, t, [NoWork EXCEPT !.pc = "mark"])

\* mark_recovery_needed: the same guard, and no event.
CommitMark(r) ==
    LET t == work[r].tenant IN
    /\ work[r].pc = "mark"
    /\ Continue(r, NoWork)
    /\ IF work[r].seen \in Unfinished
       THEN /\ tenant' = [tenant EXCEPT ![t].status = "provisioning_failed"]
            /\ health' = [health EXCEPT ![t] = "provisioning_failed"]
            /\ UNCHANGED <<trail, key>>
       ELSE UNCHANGED rows

\* A request is refused, fails or is cut off: its transaction is rolled back.
Fail(r) ==
    /\ work[r].pc # "idle"
    /\ Go(r, NoWork)

-----------------------------------------------------------------------------
CreateStep(r) ==
    \/ \E k \in Keys, body \in Body : ReadKey(r, k, body)
    \/ InsertKey(r)
    \/ \E t \in Tenants : CommitCreate(r, t)

LockStep(r, t) ==
    \/ \E next \in Statuses : BeginStatus(r, t, next)
    \/ \E gsm \in Numbers : BeginProfile(r, t, gsm)
    \/ BeginRetry(r, t)
    \/ BeginMark(r, t)

PlatformStep(r) ==
    \/ CreateStep(r)
    \/ \E t \in Tenants : LockStep(r, t)
    \/ CommitStatus(r)
    \/ CommitProfile(r)
    \/ CommitRetry(r)
    \/ CommitMark(r)
    \/ Fail(r)

Next == \E r \in Requests : PlatformStep(r)

Spec == Init /\ [][Next]_provisioningVars

-----------------------------------------------------------------------------
(***************************************************************************)
(* Properties                                                              *)
(***************************************************************************)

\* Every variable holds rows of its table, every request a known statement.
TypeOK ==
    /\ tenant \in [Tenants -> TenantRow \cup {NULL}]
    /\ health \in [Tenants -> Statuses \cup {NULL}]
    /\ trail \in [Tenants -> Seq(Event)]
    /\ key \in [Keys -> KeyRow \cup {NULL}]
    /\ work \in [Requests -> WorkRow]

(***************************************************************************)
(* However requests to create tenants repeat, race and fail, and however   *)
(* numbers change hands: every tenant was bought by exactly one key, by a  *)
(* request for its subdomain, no two tenants share a subdomain or a number,*)
(* and no tenant is ever seen half provisioned.                            *)
(***************************************************************************)
TenantsAreKeyed ==
    /\ \A t \in Known : \E k \in Keys : key[k] # NULL /\ key[k].tenant = t
    /\ \A k \in Keys : key[k] # NULL =>
          /\ key[k].tenant \in Known
          /\ tenant[key[k].tenant].subdomain = key[k].body.subdomain
    /\ \A j, k \in Keys :
          key[j] # NULL /\ key[k] # NULL /\ key[j].tenant = key[k].tenant => j = k
    /\ \A s, t \in Known : /\ tenant[s].subdomain = tenant[t].subdomain => s = t
                           /\ tenant[s].gsm = tenant[t].gsm => s = t
    /\ \A t \in Known : tenant[t].status \notin Unfinished

\* Events that lead on from nothing, each from where the one before ended.
Leads(events) ==
    /\ events # <<>>
    /\ events[1].from = NULL
    /\ \A i \in 1 .. Len(events) - 1 : events[i].to = events[i + 1].from
    /\ \A i \in 1 .. Len(events) : events[i].from # events[i].to

(***************************************************************************)
(* The lifecycle events of a tenant lead to the tenant's status, which its *)
(* health repeats: of two status changes at once neither is lost and       *)
(* neither is told from a status that had passed.                          *)
(***************************************************************************)
TrailLeadsToStatus ==
    \A t \in Known :
        /\ Leads(trail[t])
        /\ trail[t][Len(trail[t])].to = tenant[t].status
        /\ health[t] = tenant[t].status

(***************************************************************************)
(* What the requests in flight rely on: the key a creation has reserved is *)
(* new and nobody else's, the row a request has locked is the one it read, *)
(* and nobody else's.                                                      *)
(***************************************************************************)
RequestsKnow ==
    /\ \A q \in Requests :
        /\ work[q].pc \in {"insert_key", "create"} => work[q].key \in Keys /\ work[q].body \in Body
        /\ work[q].pc = "create" => key[work[q].key] = NULL
        /\ work[q].pc \in Locking => /\ work[q].tenant \in Known
                                     /\ work[q].seen = tenant[work[q].tenant].status
        /\ work[q].pc = "profile" => work[q].gsm \in Numbers
    /\ \A q, r \in Requests :
        /\ work[q].pc = "create" /\ work[r].pc = "create" /\ work[q].key = work[r].key => q = r
        /\ {work[q].pc, work[r].pc} \subseteq Locking /\ work[q].tenant = work[r].tenant => q = r
=============================================================================
