------------------------------ MODULE Presence ------------------------------
(***************************************************************************)
(* How a customer comes to sit at a table: the display at the table is     *)
(* given a credential (modules/tenant_setup/table_display_provisioning.py) *)
(* and shows codes for it, the customer's phone redeems a code             *)
(* (modules/ordering/table_presence.py).                                   *)
(*                                                                         *)
(* A request is a process: each SELECT it later acts on is a step, and a   *)
(* row it has updated stays locked, and its update unseen, until it        *)
(* commits. A request reads the clock once, when it begins, and goes on    *)
(* with that time however long it takes. Hashes are left out: a secret     *)
(* stands for its row. last_seen_at, which get_presence_state writes, and  *)
(* customer_ordering_sessions.table_session_id are read nowhere and are    *)
(* left out too. Tables are enabled, disabled and promoted elsewhere: a    *)
(* request that asks may find its table either way at any time.            *)
(***************************************************************************)
EXTENDS Naturals, FiniteSets

CONSTANTS
    Tenants,
    Tables,       \* ids of tables
    TenantOf,     \* the tenant each table belongs to
    Credentials,  \* identities for table_display_credentials rows
    Tokens,       \* identities for table_access_tokens rows
    Guests,       \* identities for customer_ordering_sessions rows
    Requests,     \* requests the server can have in flight at once
    TokenTTL,     \* TABLE_ACCESS_TOKEN_TTL
    FreshTTL,     \* FRESH_PRESENCE_TTL
    SessionTTL,   \* CUSTOMER_SESSION_TTL
    MaxClock,     \* bound of the clock
    NULL

VARIABLES
    clock,        \* the time, up to MaxClock
    credential,   \* table_display_credentials: NULL or the row
    token,        \* table_access_tokens: NULL or the row
    guest,        \* customer_ordering_sessions: NULL or the row
    work          \* the requests in flight

stored == <<credential, token, guest>>
presenceVars == <<clock, credential, token, guest, work>>

-----------------------------------------------------------------------------
Times == 0 .. MaxClock

CredentialRow == [table : Tables, status : {"active", "revoked"}]
\* The guests that a token has admitted are not a column: they are kept to state
\* properties.
TokenRow == [table : Tables, expires : Nat,
             consumed : Times \cup {NULL}, admitted : SUBSET Guests]
GuestRow == [table : Tables, presence : Nat, expires : Nat]

ASSUME PresenceAssumption ==
    /\ TenantOf \in [Tables -> Tenants]
    /\ MaxClock \in Nat
    /\ {TokenTTL, FreshTTL, SessionTTL} \subseteq Nat \ {0}
    /\ FreshTTL <= SessionTTL
    /\ NULL \notin Tables \cup Credentials \cup Tokens \cup Guests \cup Tenants
    /\ NULL \notin CredentialRow \cup TokenRow \cup GuestRow
    /\ NULL \notin Nat
    \* and none of the values of Admission.tla.
    /\ NULL \notin [table : Tables, guest : Guests \cup {NULL}]

NoWork == [pc |-> "idle", now |-> 0, table |-> NULL, tenant |-> NULL,
           token |-> NULL, cookie |-> NULL, guest |-> NULL, seen |-> {}]

WorkRow == [pc : {"idle", "show", "insert", "consume", "place", "cookie", "grant",
                  "snapshot", "revoke", "provision"},
            now : Times,
            table : Tables \cup {NULL},
            tenant : Tenants \cup {NULL},
            token : Tokens \cup {NULL},
            cookie : Guests \cup {NULL},
            guest : Guests \cup {NULL},
            seen : SUBSET Credentials]

\* The token that a request has consumed without having committed.
HoldsToken(q, k) == work[q].pc \in {"place", "cookie", "grant"} /\ work[q].token = k

\* A credential that a request has revoked without having committed.
HoldsCredential(q, d) == work[q].pc = "provision" /\ d \in work[q].seen

Active(t) == {d \in Credentials : credential[d] = [table |-> t, status |-> "active"]}

Continue(r, row) == work' = [work EXCEPT ![r] = row]

\* The request ends without having committed anything: refused, failed or cut off.
End(r) ==
    /\ Continue(r, NoWork)
    /\ UNCHANGED <<clock, stored>>

\* The request goes on after a SELECT.
Go(r, row) ==
    /\ Continue(r, row)
    /\ UNCHANGED <<clock, stored>>

-----------------------------------------------------------------------------
Init ==
    /\ clock = 0
    /\ credential = [d \in Credentials |-> NULL]
    /\ token = [k \in Tokens |-> NULL]
    /\ guest = [g \in Guests |-> NULL]
    /\ work = [r \in Requests |-> NoWork]

Tick ==
    /\ clock < MaxClock
    /\ clock' = clock + 1
    /\ UNCHANGED <<stored, work>>

-----------------------------------------------------------------------------
(***************************************************************************)
(* generate_firmware, for an enabled table with a display. The UPDATE that *)
(* revokes sees the credentials that are active when it starts, waits for  *)
(* a row another transaction has revoked, and looks at that row again.     *)
(***************************************************************************)
BeginFirmware(r, t) ==
    /\ work[r].pc = "idle"
    /\ Go(r, [NoWork EXCEPT !.pc = "snapshot", !.table = t])

SnapshotCredentials(r) ==
    /\ work[r].pc = "snapshot"
    /\ Go(r, [work[r] EXCEPT !.pc = "revoke", !.seen = Active(work[r].table)])

\* Mutant: the revocation is committed before the new credential is inserted.
RevokeCredentialsCommitting(r) ==
    LET row == work[r] IN
    /\ row.pc = "revoke"
    /\ credential' = [d \in Credentials |->
                         IF d \in row.seen THEN [credential[d] EXCEPT !.status = "revoked"]
                         ELSE credential[d]]
    /\ Continue(r, [row EXCEPT !.pc = "provision", !.seen = {}])
    /\ UNCHANGED <<clock, token, guest>>

RevokeCredentials(r) ==
    LET row == work[r] IN
    /\ row.pc = "revoke"
    /\ \A d \in row.seen, q \in Requests : ~ HoldsCredential(q, d)
    /\ Go(r, [row EXCEPT !.pc = "provision", !.seen = @ \cap Active(row.table)])

\* generate_firmware, the INSERTs and the COMMIT: one active credential per table.
Provision(r) ==
    LET row == work[r] IN
    /\ row.pc = "provision"
    /\ \/ /\ Active(row.table) \ row.seen # {}
          /\ End(r)
       \/ /\ Active(row.table) \ row.seen = {}
          /\ \E d \in Credentials :
                /\ credential[d] = NULL
                /\ credential' = [e \in Credentials |->
                                     CASE e = d -> [table |-> row.table, status |-> "active"]
                                       [] e \in row.seen ->
                                             [credential[e] EXCEPT !.status = "revoked"]
                                       [] OTHER -> credential[e]]
          /\ Continue(r, NoWork)
          /\ UNCHANGED <<clock, token, guest>>

-----------------------------------------------------------------------------
\* issue_current_qr_token, the credential the display presents.
BeginIssue(r, d) ==
    /\ work[r].pc = "idle"
    /\ credential[d] # NULL
    /\ credential[d].status = "active"
    /\ Go(r, [NoWork EXCEPT !.pc = "show", !.table = credential[d].table, !.now = clock])

\* Its table, which must be enabled and have a display.
ShowAtTable(r) ==
    /\ work[r].pc = "show"
    /\ End(r) \/ Go(r, [work[r] EXCEPT !.pc = "insert"])

\* issue_virtual_table_qr_preview, for an enabled table without a display.
BeginPreview(r, t) ==
    /\ work[r].pc = "idle"
    /\ Go(r, [NoWork EXCEPT !.pc = "insert", !.table = t, !.now = clock])

\* _issue_token_for_table and the COMMIT.
InsertToken(r) ==
    LET row == work[r] IN
    /\ row.pc = "insert"
    /\ \E k \in Tokens :
          /\ token[k] = NULL
          /\ token' = [token EXCEPT ![k] =
                          [table |-> row.table,
                           expires |-> row.now + TokenTTL, consumed |-> NULL,
                           admitted |-> {}]]
    /\ Continue(r, NoWork)
    /\ UNCHANGED <<clock, credential, guest>>

-----------------------------------------------------------------------------
(***************************************************************************)
(* redeem_token begins: the tenant is that of the host. An unknown code is *)
(* refused without an effect, an unknown cookie is as good as none.        *)
(***************************************************************************)
BeginRedeem(r, n, k, cookie) ==
    /\ work[r].pc = "idle"
    /\ token[k] # NULL
    /\ cookie # NULL => guest[cookie] # NULL
    /\ Go(r, [NoWork EXCEPT !.pc = "consume", !.tenant = n, !.token = k, !.cookie = cookie,
                            !.now = clock])

Consumable(row) ==
    LET k == row.token IN
    /\ TenantOf[token[k].table] = row.tenant
    /\ token[k].consumed = NULL
    /\ token[k].expires > row.now

\* Mutant: a SELECT looks at the token, and locks nothing.
ConsumeTokenUnlocked(r) ==
    LET row == work[r] IN
    /\ row.pc = "consume"
    /\ \/ /\ ~ Consumable(row)
          /\ End(r)
       \/ /\ Consumable(row)
          /\ Go(r, [row EXCEPT !.pc = "place", !.tenant = NULL,
                             !.table = token[row.token].table])

(***************************************************************************)
(* _consume_token: an UPDATE that asks for everything at once, waits for   *)
(* another transaction that has consumed the token, and when that one is   *)
(* rolled back consumes it, with the time the request began.               *)
(***************************************************************************)
ConsumeToken(r) ==
    LET row == work[r] IN
    /\ row.pc = "consume"
    /\ \A q \in Requests : ~ HoldsToken(q, row.token)
    /\ \/ /\ ~ Consumable(row)
          /\ End(r)
       \/ /\ Consumable(row)
          /\ Go(r, [row EXCEPT !.pc = "place", !.tenant = NULL,
                             !.table = token[row.token].table])

\* The table of the token must be enabled.
FindTable(r) ==
    /\ work[r].pc = "place"
    /\ End(r) \/ Go(r, [work[r] EXCEPT !.pc = "cookie"])

\* The row a cookie stands for while it has not expired.
Known(row) == row.cookie # NULL /\ guest[row.cookie].expires > row.now

\* Mutant: a guest of another table is taken along.
FindGuestAnywhere(r) ==
    LET row == work[r] IN
    /\ row.pc = "cookie"
    /\ Go(r, [row EXCEPT !.pc = "grant", !.guest = IF Known(row) THEN row.cookie ELSE NULL])

\* The customer session of the cookie, which must be one of this table.
FindGuest(r) ==
    LET row == work[r] IN
    /\ row.pc = "cookie"
    /\ \/ /\ ~ Known(row)
          /\ Go(r, [row EXCEPT !.pc = "grant", !.cookie = NULL])
       \/ /\ Known(row)
          /\ guest[row.cookie].table # row.table
          /\ End(r)
       \/ /\ Known(row)
          /\ guest[row.cookie].table = row.table
          /\ Go(r, [row EXCEPT !.pc = "grant", !.cookie = NULL, !.guest = row.cookie])

\* The session that is renewed, or the id of a new one.
Seated(row) == IF row.guest # NULL THEN {row.guest} ELSE {g \in Guests : guest[g] = NULL}

\* Mutant: presence is counted from the end of the request.
GrantFromCommit(r) ==
    LET row == work[r] IN
    /\ row.pc = "grant"
    /\ \E g \in Seated(row) :
          /\ guest' = [guest EXCEPT ![g] = [table |-> row.table,
                                            presence |-> clock + FreshTTL,
                                            expires |-> clock + SessionTTL]]
          /\ token' = [token EXCEPT ![row.token].consumed = row.now,
                                    ![row.token].admitted = @ \cup {g}]
    /\ Continue(r, NoWork)
    /\ UNCHANGED <<clock, credential>>

\* redeem_token, the row of the customer session and the COMMIT.
Grant(r) ==
    LET row == work[r] IN
    /\ row.pc = "grant"
    /\ \E g \in Seated(row) :
          /\ guest' = [guest EXCEPT ![g] = [table |-> row.table,
                                            presence |-> row.now + FreshTTL,
                                            expires |-> row.now + SessionTTL]]
          /\ token' = [token EXCEPT ![row.token].consumed = row.now,
                                    ![row.token].admitted = @ \cup {g}]
    /\ Continue(r, NoWork)
    /\ UNCHANGED <<clock, credential>>

\* The client disconnects or the server stops: the transaction is rolled back.
Vanish(r) ==
    /\ work[r].pc # "idle"
    /\ End(r)

-----------------------------------------------------------------------------
Step(r) ==
    \/ \E t \in Tables : BeginFirmware(r, t) \/ BeginPreview(r, t)
    \/ \E d \in Credentials : BeginIssue(r, d)
    \/ \E n \in Tenants, k \in Tokens, cookie \in Guests \cup {NULL} :
          BeginRedeem(r, n, k, cookie)
    \/ SnapshotCredentials(r)
    \/ RevokeCredentials(r)
    \/ Provision(r)
    \/ ShowAtTable(r)
    \/ InsertToken(r)
    \/ ConsumeToken(r)
    \/ FindTable(r)
    \/ FindGuest(r)
    \/ Grant(r)
    \/ Vanish(r)

Next ==
    \/ Tick
    \/ \E r \in Requests : Step(r)

Spec == Init /\ [][Next]_presenceVars

-----------------------------------------------------------------------------
(***************************************************************************)
(* Properties                                                              *)
(***************************************************************************)

\* Every variable holds rows of its table, every request a known statement.
TypeOK ==
    /\ clock \in Times
    /\ credential \in [Credentials -> CredentialRow \cup {NULL}]
    /\ token \in [Tokens -> TokenRow \cup {NULL}]
    /\ guest \in [Guests -> GuestRow \cup {NULL}]
    /\ work \in [Requests -> WorkRow]

(***************************************************************************)
(* "First valid redeem wins" (docs/database/transactions.md:131): a token  *)
(* admits one guest and is consumed then, before it expires; a token whose *)
(* redemption was refused or cut off is not consumed.                      *)
(***************************************************************************)
TokensAdmitOnce ==
    \A k \in Tokens : token[k] # NULL =>
        /\ \A g, h \in token[k].admitted : g = h
        /\ token[k].consumed # NULL <=> token[k].admitted # {}
        /\ token[k].consumed # NULL => token[k].consumed < token[k].expires

(***************************************************************************)
(* A guest's presence comes from a code: it ends FreshTTL after a redeem   *)
(* of a code of the guest's own table that admitted this guest, whatever   *)
(* order concurrent redeems with one cookie commit in.                     *)
(***************************************************************************)
PresenceIsScanned ==
    \A g \in Guests : guest[g] # NULL =>
        \E k \in Tokens :
            /\ token[k] # NULL
            /\ token[k].table = guest[g].table
            /\ g \in token[k].admitted
            /\ token[k].consumed + FreshTTL = guest[g].presence

(***************************************************************************)
(* "Concurrent generation attempts leave one active credential"            *)
(* (docs/database/transactions.md:90): a table that ever had a display has *)
(* exactly one credential that works, also after attempts that failed.     *)
(***************************************************************************)
DisplaysKeepOneCredential ==
    \A t \in Tables :
        /\ \A d, e \in Active(t) : d = e
        /\ (\E d \in Credentials : credential[d] # NULL /\ credential[d].table = t) =>
              Active(t) # {}

(***************************************************************************)
(* Presence implements Admission: through all races of displays and phones *)
(* a code admits one guest to its own table, where the guest remains.      *)
(***************************************************************************)
CodeOf(k) ==
    IF token[k] = NULL THEN NULL
    ELSE [table |-> token[k].table,
          guest |-> IF token[k].admitted = {} THEN NULL
                    ELSE CHOOSE g \in token[k].admitted : TRUE]

SeatOf(g) == IF guest[g] = NULL THEN NULL ELSE guest[g].table

TheAdmission == INSTANCE Admission WITH
    Codes <- Tokens,
    code <- [k \in Tokens |-> CodeOf(k)],
    seat <- [g \in Guests |-> SeatOf(g)]

ImplementsAdmission == TheAdmission!AdmissionSpec
=============================================================================
