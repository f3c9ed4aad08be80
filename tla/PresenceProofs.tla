--------------------------- MODULE PresenceProofs ---------------------------
(***************************************************************************)
(* Theorems about Presence.tla for every set of tables, credentials,       *)
(* tokens, guests and requests, any clock and any times to live.           *)
(*                                                                         *)
(* What the proofs rest on are the rows that a transaction has updated and *)
(* not yet committed: no two requests hold the same token or the same      *)
(* credential (Locks), and what a request has read of the rows it holds is *)
(* still so when it commits (Knows).                                       *)
(*                                                                         *)
(* The second part is about TableDisplay.tla, the display that asks for    *)
(* the tokens, the third about CashierScreen.tla, the other device whose   *)
(* own state is modelled.                                                  *)
(***************************************************************************)
EXTENDS Presence, TableDisplay, CashierScreen, FiniteSetTheorems, TLAPS

\* What a request in flight may rely on at its next statement.
Knows(row) ==
    /\ row.pc \in {"snapshot", "revoke", "provision", "show", "insert"} =>
          row.table \in Tables
    /\ row.pc = "provision" => row.seen \subseteq Active(row.table)
    /\ row.pc \in {"consume", "place", "cookie", "grant"} =>
          /\ row.token \in Tokens
          /\ token[row.token] # NULL
          /\ row.cookie # NULL => guest[row.cookie] # NULL
    /\ row.pc \in {"consume", "place", "cookie"} => row.guest = NULL
    /\ row.pc \in {"place", "cookie", "grant"} =>
          /\ token[row.token].table = row.table
          /\ token[row.token].consumed = NULL
          /\ token[row.token].expires > row.now
    /\ row.pc = "grant" /\ row.guest # NULL =>
          /\ guest[row.guest] # NULL
          /\ guest[row.guest].table = row.table

RequestsKnow == \A r \in Requests : Knows(work[r])

\* A row that has been updated stays locked until its transaction ends.
Locks ==
    /\ \A q, r \in Requests, k \in Tokens : HoldsToken(q, k) /\ HoldsToken(r, k) => q = r
    /\ \A q, r \in Requests, d \in Credentials :
          HoldsCredential(q, d) /\ HoldsCredential(r, d) => q = r

IInv ==
    /\ TypeOK
    /\ TokensAdmitOnce
    /\ PresenceIsScanned
    /\ DisplaysKeepOneCredential
    /\ RequestsKnow
    /\ Locks

-----------------------------------------------------------------------------
LEMMA NullIsFresh ==
    /\ NULL \notin Tables /\ NULL \notin Tokens /\ NULL \notin Guests /\ NULL \notin Tenants
    /\ NULL \notin Credentials
    /\ NULL \notin CredentialRow /\ NULL \notin TokenRow /\ NULL \notin GuestRow
    /\ NULL \notin Nat
BY PresenceAssumption DEF PresenceAssumption

LEMMA TimesAreNumbers ==
    /\ MaxClock \in Nat /\ TokenTTL \in Nat /\ TokenTTL > 0 /\ FreshTTL \in Nat /\ SessionTTL \in Nat
    /\ Times \subseteq Nat /\ 0 \in Times /\ NULL \notin Times
BY PresenceAssumption DEF PresenceAssumption, Times

LEMMA NoWorkIsARow == NoWork \in WorkRow /\ NoWork.pc = "idle"
BY TimesAreNumbers DEF NoWork, WorkRow

LEMMA NoWorkKnows == Knows(NoWork)
BY NoWorkIsARow DEF Knows

LEMMA RowsAreNotNull ==
    ASSUME TypeOK
    PROVE  /\ \A d \in Credentials : credential[d] # NULL => credential[d] \in CredentialRow
           /\ \A k \in Tokens : token[k] # NULL => token[k] \in TokenRow
           /\ \A g \in Guests : guest[g] # NULL => guest[g] \in GuestRow
BY DEF TypeOK

LEMMA InitIInv == Init => IInv
<1> SUFFICES ASSUME Init PROVE IInv
    OBVIOUS
<1>1. TypeOK
    BY NoWorkIsARow, TimesAreNumbers DEF Init, TypeOK
<1>2. TokensAdmitOnce /\ PresenceIsScanned
    BY DEF Init, TokensAdmitOnce, PresenceIsScanned
<1>3. DisplaysKeepOneCredential
  <2>1. \A t \in Tables : Active(t) = {}
    <3>1. \A t \in Tables : [table |-> t, status |-> "active"] # NULL
        BY NullIsFresh DEF CredentialRow
    <3> QED
        BY <3>1 DEF Init, Active
  <2> QED
      BY <2>1 DEF Init, DisplaysKeepOneCredential
<1>4. RequestsKnow
    BY NoWorkKnows DEF Init, RequestsKnow
<1>5. Locks
    BY NoWorkIsARow DEF Init, Locks, HoldsToken, HoldsCredential
<1> QED
    BY <1>1, <1>2, <1>3, <1>4, <1>5 DEF IInv

-----------------------------------------------------------------------------
(***************************************************************************)
(* Requests and the rows they hold                                         *)
(***************************************************************************)

\* A row of a request that has nobody else's locks.
Alone(r, row) ==
    /\ row.pc \in {"place", "cookie", "grant"} =>
          \A q \in Requests \ {r} : ~ HoldsToken(q, row.token)
    /\ row.pc = "provision" =>
          \A d \in row.seen, q \in Requests \ {r} : ~ HoldsCredential(q, d)

LEMMA NoWorkIsAlone == ASSUME NEW r PROVE Alone(r, NoWork)
BY NoWorkIsARow DEF Alone

\* As long as a request stays alone no lock is held twice.
LEMMA LocksStay ==
    ASSUME TypeOK, Locks, NEW r \in Requests, NEW row \in WorkRow, Alone(r, row),
           work' = [work EXCEPT ![r] = row]
    PROVE  Locks' /\ work' \in [Requests -> WorkRow]
<1>1. work'[r] = row /\ \A q \in Requests \ {r} : work'[q] = work[q]
    BY DEF TypeOK
<1>2. \A q \in Requests \ {r}, k \in Tokens : HoldsToken(q, k)' <=> HoldsToken(q, k)
    BY <1>1 DEF HoldsToken
<1>3. \A k \in Tokens : HoldsToken(r, k)' => \A q \in Requests \ {r} : ~ HoldsToken(q, k)
    BY <1>1 DEF HoldsToken, Alone
<1>4. \A q \in Requests \ {r}, d \in Credentials :
         HoldsCredential(q, d)' <=> HoldsCredential(q, d)
    BY <1>1 DEF HoldsCredential
<1>5. \A d \in Credentials : HoldsCredential(r, d)' =>
         \A q \in Requests \ {r} : ~ HoldsCredential(q, d)
    BY <1>1 DEF HoldsCredential, Alone
<1>6. work' \in [Requests -> WorkRow]
    BY DEF TypeOK
<1>7. \A p, q \in Requests, k \in Tokens : HoldsToken(p, k)' /\ HoldsToken(q, k)' => p = q
    BY <1>2, <1>3 DEF Locks
<1>8. \A p, q \in Requests, d \in Credentials :
         HoldsCredential(p, d)' /\ HoldsCredential(q, d)' => p = q
    BY <1>4, <1>5 DEF Locks
<1> QED
    BY <1>6, <1>7, <1>8 DEF Locks

\* A step of a request that changes no row of a table.
LEMMA GoStep ==
    ASSUME IInv, NEW r \in Requests, NEW row \in WorkRow, Knows(row), Alone(r, row),
           Go(r, row)
    PROVE  IInv'
<1> USE DEF IInv
<1>1. /\ work' = [work EXCEPT ![r] = row]
      /\ clock' = clock /\ credential' = credential /\ token' = token /\ guest' = guest
    BY DEF Go, Continue, stored
<1>2. Locks' /\ work' \in [Requests -> WorkRow]
    BY <1>1, LocksStay
<1>3. RequestsKnow'
  <2> SUFFICES ASSUME NEW q \in Requests PROVE Knows(work[q])'
      BY DEF RequestsKnow
  <2>1. CASE q = r
    <3>1. work'[q] = row
        BY <1>1, <2>1 DEF TypeOK
    <3> QED
        BY <1>1, <3>1 DEF Knows, Active
  <2>2. CASE q # r
    <3>1. work'[q] = work[q] /\ Knows(work[q])
        BY <1>1, <2>2 DEF TypeOK, RequestsKnow
    <3> QED
        BY <1>1, <3>1 DEF Knows, Active
  <2> QED
      BY <2>1, <2>2
<1>4. TypeOK'
    BY <1>1, <1>2 DEF TypeOK
<1>5. TokensAdmitOnce' /\ PresenceIsScanned' /\ DisplaysKeepOneCredential'
    BY <1>1 DEF TokensAdmitOnce, PresenceIsScanned, DisplaysKeepOneCredential, Active
<1> QED
    BY <1>2, <1>3, <1>4, <1>5

LEMMA EndStep ==
    ASSUME IInv, NEW r \in Requests, End(r)
    PROVE  IInv'
BY GoStep, NoWorkIsARow, NoWorkKnows, NoWorkIsAlone DEF End, Go

\* What a request knows and holds when its step begins.
LEMMA RequestHas ==
    ASSUME IInv, NEW r \in Requests
    PROVE  work[r] \in WorkRow /\ Knows(work[r]) /\ Alone(r, work[r])
<1>1. work[r] \in WorkRow /\ Knows(work[r])
    BY DEF IInv, TypeOK, RequestsKnow
<1>2. Alone(r, work[r])
    BY <1>1 DEF IInv, Locks, Alone, HoldsToken, HoldsCredential, WorkRow, Knows
<1> QED
    BY <1>1, <1>2

LEMMA TickStep ==
    ASSUME IInv, Tick
    PROVE  IInv'
<1> USE DEF IInv
<1>1. /\ clock' \in Times
      /\ credential' = credential /\ token' = token /\ guest' = guest /\ work' = work
    BY TimesAreNumbers DEF Tick, stored, TypeOK, Times
<1>2. TypeOK'
    BY <1>1 DEF TypeOK
<1>3. TokensAdmitOnce' /\ PresenceIsScanned' /\ DisplaysKeepOneCredential'
    BY <1>1 DEF TokensAdmitOnce, PresenceIsScanned, DisplaysKeepOneCredential, Active
<1>4. RequestsKnow'
    BY <1>1 DEF RequestsKnow, Knows, Active
<1>5. Locks'
    BY <1>1 DEF Locks, HoldsToken, HoldsCredential
<1> QED
    BY <1>2, <1>3, <1>4, <1>5

-----------------------------------------------------------------------------
(***************************************************************************)
(* Steps that change no row                                                *)
(***************************************************************************)

LEMMA BeginFirmwareStep ==
    ASSUME IInv, NEW r \in Requests, NEW t \in Tables, BeginFirmware(r, t)
    PROVE  IInv'
<1> DEFINE row == [NoWork EXCEPT !.pc = "snapshot", !.table = t]
<1>1. row \in WorkRow /\ Knows(row) /\ Alone(r, row)
    BY NoWorkIsARow DEF NoWork, WorkRow, Knows, Alone
<1> QED
    BY <1>1, GoStep DEF BeginFirmware

LEMMA BeginPreviewStep ==
    ASSUME IInv, NEW r \in Requests, NEW t \in Tables, BeginPreview(r, t)
    PROVE  IInv'
<1> DEFINE row == [NoWork EXCEPT !.pc = "insert", !.table = t, !.now = clock]
<1>1. row \in WorkRow /\ Knows(row) /\ Alone(r, row)
    BY NoWorkIsARow DEF NoWork, WorkRow, Knows, Alone, IInv, TypeOK
<1> QED
    BY <1>1, GoStep DEF BeginPreview

LEMMA BeginIssueStep ==
    ASSUME IInv, NEW r \in Requests, NEW d \in Credentials, BeginIssue(r, d)
    PROVE  IInv'
<1> DEFINE row == [NoWork EXCEPT !.pc = "show", !.table = credential[d].table, !.now = clock]
<1>1. credential[d].table \in Tables /\ clock \in Times
    BY RowsAreNotNull DEF BeginIssue, CredentialRow, IInv, TypeOK
<1>2. row \in WorkRow /\ Knows(row) /\ Alone(r, row)
    BY <1>1, NoWorkIsARow DEF NoWork, WorkRow, Knows, Alone
<1> QED
    BY <1>2, GoStep DEF BeginIssue

LEMMA BeginRedeemStep ==
    ASSUME IInv, NEW r \in Requests, NEW n \in Tenants, NEW k \in Tokens,
           NEW cookie \in Guests \cup {NULL}, BeginRedeem(r, n, k, cookie)
    PROVE  IInv'
<1> DEFINE row == [NoWork EXCEPT !.pc = "consume", !.tenant = n, !.token = k,
                                 !.cookie = cookie, !.now = clock]
<1>1. row \in WorkRow /\ Knows(row) /\ Alone(r, row)
    BY NoWorkIsARow DEF NoWork, WorkRow, Knows, Alone, IInv, TypeOK, BeginRedeem
<1> QED
    BY <1>1, GoStep DEF BeginRedeem

LEMMA SnapshotCredentialsStep ==
    ASSUME IInv, NEW r \in Requests, SnapshotCredentials(r)
    PROVE  IInv'
<1> DEFINE row == [work[r] EXCEPT !.pc = "revoke", !.seen = Active(work[r].table)]
<1>1. Active(work[r].table) \subseteq Credentials
    BY DEF Active
<1>2. row \in WorkRow /\ Knows(row) /\ Alone(r, row)
    BY <1>1, RequestHas DEF WorkRow, Knows, Alone, SnapshotCredentials
<1> QED
    BY <1>2, GoStep DEF SnapshotCredentials

\* The UPDATE waits for the rows that another transaction holds.
LEMMA RevokeCredentialsStep ==
    ASSUME IInv, NEW r \in Requests, RevokeCredentials(r)
    PROVE  IInv'
<1> DEFINE row == [work[r] EXCEPT !.pc = "provision", !.seen = @ \cap Active(work[r].table)]
<1>1. work[r] \in WorkRow /\ Knows(work[r]) /\ work[r].pc = "revoke"
    BY RequestHas DEF RevokeCredentials
<1>2. row \in WorkRow
    BY <1>1 DEF WorkRow
<1>3. row.seen \subseteq Active(row.table) /\ row.seen \subseteq work[r].seen
      /\ row.pc = "provision" /\ row.table \in Tables
    BY <1>1 DEF WorkRow, Knows
<1>4. Knows(row) /\ Alone(r, row)
    BY <1>3 DEF RevokeCredentials, Knows, Alone
<1> QED
    BY <1>2, <1>4, GoStep DEF RevokeCredentials

LEMMA ShowAtTableStep ==
    ASSUME IInv, NEW r \in Requests, ShowAtTable(r)
    PROVE  IInv'
<1> DEFINE row == [work[r] EXCEPT !.pc = "insert"]
<1>1. row \in WorkRow /\ Knows(row) /\ Alone(r, row)
    BY RequestHas DEF WorkRow, Knows, Alone, ShowAtTable
<1> QED
    BY <1>1, GoStep, EndStep DEF ShowAtTable

\* So does the UPDATE that consumes a token.
LEMMA ConsumeTokenStep ==
    ASSUME IInv, NEW r \in Requests, ConsumeToken(r)
    PROVE  IInv'
<1> DEFINE row == [work[r] EXCEPT !.pc = "place", !.tenant = NULL,
                                  !.table = token[work[r].token].table]
<1>1. work[r] \in WorkRow /\ Knows(work[r]) /\ work[r].pc = "consume"
    BY RequestHas DEF ConsumeToken
<1>2. token[work[r].token] \in TokenRow
    BY <1>1, RowsAreNotNull DEF Knows, IInv
<1>3. row \in WorkRow
    BY <1>1, <1>2 DEF WorkRow, TokenRow
<1>4. CASE Go(r, row) /\ Consumable(work[r])
  <2>1. Knows(row) /\ Alone(r, row)
      BY <1>1, <1>4 DEF ConsumeToken, Consumable, Knows, Alone, WorkRow
  <2> QED
      BY <1>3, <1>4, <2>1, GoStep
<1> QED
    BY <1>4, EndStep DEF ConsumeToken

LEMMA FindTableStep ==
    ASSUME IInv, NEW r \in Requests, FindTable(r)
    PROVE  IInv'
<1> DEFINE row == [work[r] EXCEPT !.pc = "cookie"]
<1>1. row \in WorkRow /\ Knows(row) /\ Alone(r, row)
    BY RequestHas DEF WorkRow, Knows, Alone, FindTable
<1> QED
    BY <1>1, GoStep, EndStep DEF FindTable

LEMMA FindGuestStep ==
    ASSUME IInv, NEW r \in Requests, FindGuest(r)
    PROVE  IInv'
<1>1. /\ work[r] \in WorkRow /\ Knows(work[r]) /\ Alone(r, work[r])
      /\ work[r].pc = "cookie"
    BY RequestHas DEF FindGuest
<1>2. CASE End(r)
    BY <1>2, EndStep
<1>3. CASE ~ Known(work[r]) /\ Go(r, [work[r] EXCEPT !.pc = "grant", !.cookie = NULL])
  <2> DEFINE row == [work[r] EXCEPT !.pc = "grant", !.cookie = NULL]
  <2>1. row \in WorkRow /\ Knows(row) /\ Alone(r, row)
      BY <1>1 DEF WorkRow, Knows, Alone
  <2> QED
      BY <1>3, <2>1, GoStep
<1>4. CASE /\ Known(work[r]) /\ guest[work[r].cookie].table = work[r].table
           /\ Go(r, [work[r] EXCEPT !.pc = "grant", !.cookie = NULL, !.guest = work[r].cookie])
  <2> DEFINE row == [work[r] EXCEPT !.pc = "grant", !.cookie = NULL, !.guest = work[r].cookie]
  <2>1. row \in WorkRow /\ Knows(row) /\ Alone(r, row)
      BY <1>1, <1>4 DEF WorkRow, Knows, Alone, Known
  <2> QED
      BY <1>4, <2>1, GoStep
<1> QED
    BY <1>2, <1>3, <1>4 DEF FindGuest

-----------------------------------------------------------------------------
(***************************************************************************)
(* Steps that commit                                                       *)
(***************************************************************************)

\* A commit ends its request; the others keep what they know and hold.
LEMMA CommitStep ==
    ASSUME TypeOK, RequestsKnow, Locks, NEW r \in Requests, Continue(r, NoWork),
           \A q \in Requests \ {r}, row \in WorkRow :
              row = work[q] => Knows(row)'
    PROVE  RequestsKnow' /\ Locks' /\ work' \in [Requests -> WorkRow]
<1>1. work' = [work EXCEPT ![r] = NoWork]
    BY DEF Continue
<1>2. Locks' /\ work' \in [Requests -> WorkRow]
    BY <1>1, LocksStay, NoWorkIsARow, NoWorkIsAlone
<1>3. ASSUME NEW q \in Requests PROVE Knows(work[q])'
  <2>1. CASE q = r
    <3>1. work'[q] = NoWork
        BY <1>1, <2>1 DEF TypeOK
    <3> QED
        BY <3>1, NoWorkIsARow DEF Knows
  <2>2. CASE q # r
    <3>1. PICK row \in WorkRow : row = work[q]
        BY DEF TypeOK
    <3>2. Knows(row)' /\ work'[q] = row
        BY <1>1, <2>2, <3>1 DEF TypeOK
    <3> QED
        BY <3>2 DEF Knows
  <2> QED
      BY <2>1, <2>2
<1> QED
    BY <1>2, <1>3 DEF RequestsKnow

\* The new credential of a table takes the place of the one that was active.
LEMMA ProvisionStep ==
    ASSUME IInv, NEW r \in Requests, Provision(r)
    PROVE  IInv'
<1> USE DEF IInv
<1>1. PICK row \in WorkRow : /\ row = work[r] /\ Knows(row) /\ Alone(r, row)
                             /\ row.pc = "provision" /\ row.table \in Tables
    BY RequestHas DEF Provision, Knows
<1>2. CASE End(r)
    BY <1>2, EndStep
<1>3. CASE ~ End(r)
  <2>1. PICK d \in Credentials :
            /\ credential[d] = NULL
            /\ credential' = [e \in Credentials |->
                                 CASE e = d -> [table |-> row.table, status |-> "active"]
                                   [] e \in row.seen ->
                                         [credential[e] EXCEPT !.status = "revoked"]
                                   [] OTHER -> credential[e]]
      BY <1>1, <1>3 DEF Provision
  <2>2. /\ Active(row.table) \subseteq row.seen
        /\ Continue(r, NoWork)
        /\ clock' = clock /\ token' = token /\ guest' = guest
      BY <1>1, <1>3 DEF Provision
  <2>3. \A e \in row.seen : /\ e \in Credentials /\ e # d
                            /\ credential[e] = [table |-> row.table, status |-> "active"]
      BY <1>1, <2>1, NullIsFresh DEF Knows, Active, CredentialRow
  <2>4. credential'[d] = [table |-> row.table, status |-> "active"]
      BY <2>1, <2>3
  <2>5. \A e \in row.seen : credential'[e] = [table |-> row.table, status |-> "revoked"]
      BY <2>1, <2>3
  <2>6. \A e \in Credentials : e # d /\ e \notin row.seen => credential'[e] = credential[e]
      BY <2>1
  <2>7. credential' \in [Credentials -> CredentialRow \cup {NULL}]
    <3>1. \A e \in Credentials : credential'[e] \in CredentialRow \cup {NULL}
        BY <1>1, <2>4, <2>5, <2>6 DEF TypeOK, CredentialRow
    <3> QED
        BY <2>1, <3>1
  <2>8. Active(row.table)' = {d}
    <3>1. \A e \in Credentials :
              credential'[e] = [table |-> row.table, status |-> "active"] <=> e = d
        BY <2>2, <2>4, <2>5, <2>6 DEF Active
    <3>2. {e \in Credentials : credential'[e] = [table |-> row.table, status |-> "active"]} = {d}
        BY <3>1
    <3>3. row'.table = row.table
        OBVIOUS
    <3> QED
        BY <3>2 DEF Active
  <2>9. ASSUME NEW t \in Tables, t # row.table PROVE Active(t)' = Active(t)
    <3>1. \A e \in Credentials : credential'[e] = [table |-> t, status |-> "active"]
                             <=> credential[e] = [table |-> t, status |-> "active"]
        BY <2>1, <2>3, <2>4, <2>5, <2>6, <2>9, NullIsFresh DEF CredentialRow
    <3> QED
        BY <3>1 DEF Active
  <2>10. ASSUME NEW q \in Requests \ {r}, NEW seen \in WorkRow, seen = work[q]
         PROVE  Knows(seen)'
    <3>1. work'[q] = seen /\ Knows(seen)
        BY <2>2, <2>10 DEF Continue, TypeOK, RequestsKnow
    <3>2. seen.pc = "provision" => \A e \in seen.seen : e # d /\ e \notin row.seen
      <4>1. \A e \in row.seen : ~ HoldsCredential(q, e)
          BY <1>1 DEF Alone
      <4>2. seen.pc = "provision" => \A e \in seen.seen : credential[e] # NULL
          BY <3>1, NullIsFresh DEF Knows, Active, CredentialRow
      <4> QED
          BY <2>1, <2>10, <4>1, <4>2 DEF HoldsCredential
    <3>3. seen.pc = "provision" => seen.seen \subseteq Active(seen.table)'
        BY <2>6, <3>1, <3>2 DEF Knows, Active
    <3> QED
        BY <2>2, <3>1, <3>3 DEF Knows
  <2>11. RequestsKnow' /\ Locks' /\ work' \in [Requests -> WorkRow]
      BY <2>2, <2>10, CommitStep
  <2>12. TypeOK'
      BY <2>2, <2>7, <2>11 DEF TypeOK
  <2>13. TokensAdmitOnce' /\ PresenceIsScanned'
      BY <2>2 DEF TokensAdmitOnce, PresenceIsScanned
  <2>14. DisplaysKeepOneCredential'
    <3> SUFFICES ASSUME NEW t \in Tables
                 PROVE  /\ \A e, f \in Active(t)' : e = f
                        /\ (\E e \in Credentials : credential'[e] # NULL /\ credential'[e].table = t)
                              => Active(t)' # {}
        BY DEF DisplaysKeepOneCredential
    <3>1. CASE t = row.table
        BY <2>8, <3>1
    <3>2. CASE t # row.table
      <4>1. \A e \in Credentials : credential'[e] # NULL /\ credential'[e].table = t =>
                credential[e] # NULL /\ credential[e].table = t
          BY <2>4, <2>5, <2>6, <3>2
      <4> QED
          BY <2>9, <3>2, <4>1 DEF DisplaysKeepOneCredential
    <3> QED
        BY <3>1, <3>2
  <2> QED
      BY <2>11, <2>12, <2>13, <2>14
<1> QED
    BY <1>2, <1>3

LEMMA InsertTokenStep ==
    ASSUME IInv, NEW r \in Requests, InsertToken(r)
    PROVE  IInv'
<1> USE DEF IInv
<1>1. PICK row \in WorkRow : row = work[r] /\ row.table \in Tables
    BY RequestHas DEF InsertToken, Knows
<1> DEFINE new == [table |-> row.table, expires |-> row.now + TokenTTL,
                   consumed |-> NULL, admitted |-> {}]
<1>2. PICK k \in Tokens : token[k] = NULL /\ token' = [token EXCEPT ![k] = new]
    BY <1>1 DEF InsertToken
<1>3. /\ Continue(r, NoWork)
      /\ clock' = clock /\ credential' = credential /\ guest' = guest
    BY DEF InsertToken
<1>4. new \in TokenRow /\ new # NULL /\ new.admitted = {} /\ new.consumed = NULL
  <2>1. row.now \in Times
      BY <1>1 DEF WorkRow
  <2>2. row.now \in Nat /\ TokenTTL \in Nat
      BY <2>1, TimesAreNumbers
  <2>3. row.now + TokenTTL \in Nat
      BY <2>2
  <2> QED
      BY <1>1, <2>3, NullIsFresh DEF TokenRow
<1> HIDE DEF new
<1>5. token'[k] = new /\ \A l \in Tokens \ {k} : token'[l] = token[l]
    BY <1>2 DEF TypeOK
<1>6. token' \in [Tokens -> TokenRow \cup {NULL}]
    BY <1>2, <1>4 DEF TypeOK
<1>7. ASSUME NEW q \in Requests \ {r}, NEW seen \in WorkRow, seen = work[q]
      PROVE  Knows(seen)'
  <2>1. work'[q] = seen /\ Knows(seen)
      BY <1>3, <1>7 DEF Continue, TypeOK, RequestsKnow
  <2>2. seen.pc \in {"consume", "place", "cookie", "grant"} =>
            token'[seen.token] = token[seen.token]
      BY <1>2, <1>5, <2>1 DEF Knows
  <2> QED
      BY <1>3, <2>1, <2>2 DEF Knows, Active
<1>8. RequestsKnow' /\ Locks' /\ work' \in [Requests -> WorkRow]
    BY <1>3, <1>7, CommitStep
<1>9. TypeOK'
    BY <1>3, <1>6, <1>8 DEF TypeOK
<1>10. TokensAdmitOnce'
    BY <1>4, <1>5 DEF TokensAdmitOnce
<1>11. PresenceIsScanned'
  <2> SUFFICES ASSUME NEW g \in Guests, guest[g] # NULL
               PROVE  \E l \in Tokens : /\ token'[l] # NULL
                                        /\ token'[l].table = guest[g].table
                                        /\ g \in token'[l].admitted
                                        /\ token'[l].consumed + FreshTTL = guest[g].presence
      BY <1>3 DEF PresenceIsScanned
  <2>1. PICK l \in Tokens : /\ token[l] # NULL
                            /\ token[l].table = guest[g].table
                            /\ g \in token[l].admitted
                            /\ token[l].consumed + FreshTTL = guest[g].presence
      BY DEF PresenceIsScanned
  <2>2. token'[l] = token[l]
      BY <1>2, <1>5, <2>1
  <2> QED
      BY <2>1, <2>2
<1>12. DisplaysKeepOneCredential'
    BY <1>3 DEF DisplaysKeepOneCredential, Active
<1> QED
    BY <1>8, <1>9, <1>10, <1>11, <1>12

\* What the commit of a redemption finds, and leaves: request r admits guest g
\* with token k.
Admits(r, row, g, k) ==
    /\ row = work[r] /\ k = row.token /\ row.table \in Tables /\ Alone(r, row)
    /\ row.pc = "grant"
    /\ token[k] # NULL /\ token[k].table = row.table
    /\ token[k].consumed = NULL /\ token[k].admitted = {}
    /\ token[k].expires > row.now
    /\ guest[g] # NULL => guest[g].table = row.table
    /\ guest' = [guest EXCEPT ![g] = [table |-> row.table,
                                      presence |-> row.now + FreshTTL,
                                      expires |-> row.now + SessionTTL]]
    /\ token'[k] = [token[k] EXCEPT !.consumed = row.now, !.admitted = {g}]
    /\ token'[k] \in TokenRow
    /\ \A l \in Tokens \ {k} : token'[l] = token[l]
    /\ token' = [token EXCEPT ![k] = token'[k]]
    /\ Continue(r, NoWork)
    /\ clock' = clock /\ credential' = credential

LEMMA GrantAdmits ==
    ASSUME IInv, NEW r \in Requests, Grant(r)
    PROVE  \E row \in WorkRow, g \in Guests, k \in Tokens : Admits(r, row, g, k)
<1> USE DEF IInv
<1>1. PICK row \in WorkRow : row = work[r] /\ Knows(row) /\ Alone(r, row) /\ row.pc = "grant"
    BY RequestHas DEF Grant
<1>2. PICK k \in Tokens : k = row.token /\ token[k] # NULL
    BY <1>1 DEF Knows
<1>3. /\ token[k] \in TokenRow /\ token[k].table = row.table /\ row.table \in Tables
      /\ token[k].consumed = NULL /\ token[k].admitted = {} /\ token[k].expires > row.now
  <2>1. token[k] \in TokenRow
      BY <1>2, RowsAreNotNull
  <2>2. token[k].table = row.table /\ token[k].consumed = NULL /\ token[k].expires > row.now
      BY <1>1, <1>2 DEF Knows
  <2>3. token[k].admitted = {}
      BY <1>2, <2>2 DEF TokensAdmitOnce
  <2> QED
      BY <2>1, <2>2, <2>3 DEF TokenRow
<1>4. PICK g \in Seated(row) :
          /\ guest' = [guest EXCEPT ![g] = [table |-> row.table,
                                            presence |-> row.now + FreshTTL,
                                            expires |-> row.now + SessionTTL]]
          /\ token' = [token EXCEPT ![k].consumed = row.now,
                                    ![k].admitted = @ \cup {g}]
    BY <1>1, <1>2 DEF Grant
<1>5. g \in Guests /\ (guest[g] # NULL => guest[g].table = row.table)
    BY <1>1, <1>4 DEF Seated, Knows, WorkRow
<1>6. token'[k] = [token[k] EXCEPT !.consumed = row.now, !.admitted = {g}]
  <2>1. token'[k] = [token[k] EXCEPT !.consumed = row.now, !.admitted = token[k].admitted \cup {g}]
      BY <1>3, <1>4 DEF TypeOK, TokenRow
  <2> QED
      BY <1>3, <2>1
<1>7. token'[k] \in TokenRow
  <2>1. row.now \in Times
      BY <1>1 DEF WorkRow
  <2> QED
      BY <1>3, <1>5, <1>6, <2>1 DEF TokenRow
<1>8. \A l \in Tokens \ {k} : token'[l] = token[l]
    BY <1>4 DEF TypeOK
<1>9. token' = [token EXCEPT ![k] = token'[k]]
    BY <1>4, <1>8 DEF TypeOK
<1>10. Continue(r, NoWork) /\ clock' = clock /\ credential' = credential
    BY DEF Grant
<1>11. Admits(r, row, g, k)
    BY <1>1, <1>2, <1>3, <1>4, <1>5, <1>6, <1>7, <1>8, <1>9, <1>10 DEF Admits
<1> QED
    BY <1>1, <1>2, <1>5, <1>11

LEMMA GrantStep ==
    ASSUME IInv, NEW r \in Requests, Grant(r)
    PROVE  IInv'
<1> USE DEF IInv
<1>1. PICK row \in WorkRow, g \in Guests, k \in Tokens : Admits(r, row, g, k)
    BY GrantAdmits
<1> USE <1>1 DEF Admits
<1> DEFINE new == [table |-> row.table, presence |-> row.now + FreshTTL,
                   expires |-> row.now + SessionTTL]
<1>2. row.now \in Nat /\ row.now \in Times /\ row.now # NULL
    BY TimesAreNumbers DEF WorkRow
<1>3. new \in GuestRow /\ new # NULL
  <2>1. new \in GuestRow
      BY <1>1, <1>2, TimesAreNumbers DEF GuestRow
  <2> QED
      BY <2>1, NullIsFresh
<1>4. guest'[g] = new /\ \A h \in Guests \ {g} : guest'[h] = guest[h]
    BY <1>1 DEF TypeOK
<1>5. guest' \in [Guests -> GuestRow \cup {NULL}]
    BY <1>1, <1>3 DEF TypeOK
<1>6. /\ token' \in [Tokens -> TokenRow \cup {NULL}]
      /\ token'[k] # NULL /\ token'[k].table = row.table
      /\ token'[k].consumed = row.now /\ token'[k].admitted = {g}
      /\ token'[k].expires = token[k].expires
  <2>1. token'[k] # NULL
      BY <1>1, NullIsFresh
  <2>2. token[k] \in TokenRow
      BY <1>1, RowsAreNotNull
  <2>3. token' \in [Tokens -> TokenRow \cup {NULL}]
      BY <1>1 DEF TypeOK
  <2> QED
      BY <1>1, <2>1, <2>2, <2>3 DEF TokenRow
<1>7. ASSUME NEW q \in Requests \ {r}, NEW seen \in WorkRow, seen = work[q]
      PROVE  Knows(seen)'
  <2>1. work'[q] = seen /\ Knows(seen)
      BY <1>1, <1>7 DEF Continue, TypeOK, RequestsKnow
  <2>2. seen.pc \in {"place", "cookie", "grant"} => seen.token # k
      BY <1>1, <1>7 DEF Alone, HoldsToken
  <2>3. \A h \in Guests : guest[h] # NULL =>
            guest'[h] # NULL /\ guest'[h].table = guest[h].table
      BY <1>1, <1>3, <1>4
  <2>4. \A l \in Tokens : token[l] # NULL => token'[l] # NULL
      BY <1>1, <1>6
  <2>5. Active(seen.table)' = Active(seen.table)
      BY <1>1 DEF Active
  <2> QED
      BY <1>1, <2>1, <2>2, <2>3, <2>4, <2>5 DEF Knows, WorkRow
<1>8. RequestsKnow' /\ Locks' /\ work' \in [Requests -> WorkRow]
    BY <1>1, <1>7, CommitStep
<1>9. TypeOK'
    BY <1>1, <1>5, <1>6, <1>8 DEF TypeOK
<1>10. TokensAdmitOnce'
  <2> SUFFICES ASSUME NEW l \in Tokens, token'[l] # NULL
               PROVE  /\ \A h, i \in token'[l].admitted : h = i
                      /\ token'[l].consumed # NULL <=> token'[l].admitted # {}
                      /\ token'[l].consumed # NULL => token'[l].consumed < token'[l].expires
      BY DEF TokensAdmitOnce
  <2>1. CASE l = k
    <3>1. token[k].expires \in Nat
        BY <1>1, RowsAreNotNull DEF TokenRow
    <3> QED
        BY <1>1, <1>2, <1>6, <2>1, <3>1
  <2>2. CASE l # k
      BY <1>1, <2>2 DEF TokensAdmitOnce
  <2> QED
      BY <2>1, <2>2
<1>11. PresenceIsScanned'
  <2> SUFFICES ASSUME NEW h \in Guests, guest'[h] # NULL
               PROVE  \E l \in Tokens : /\ token'[l] # NULL
                                        /\ token'[l].table = guest'[h].table
                                        /\ h \in token'[l].admitted
                                        /\ token'[l].consumed + FreshTTL = guest'[h].presence
      BY DEF PresenceIsScanned
  <2>1. CASE h = g
    <3>1. guest'[h].table = row.table /\ guest'[h].presence = row.now + FreshTTL
        BY <1>4, <2>1
    <3>2. h \in token'[k].admitted
        BY <1>6, <2>1
    <3>3. token'[k].consumed + FreshTTL = guest'[h].presence
        BY <1>6, <3>1
    <3>4. token'[k] # NULL /\ token'[k].table = guest'[h].table
        BY <1>6, <3>1
    <3> QED
        BY <3>2, <3>3, <3>4
  <2>2. CASE h # g
    <3>1. guest'[h] = guest[h]
        BY <1>4, <2>2
    <3>2. PICK l \in Tokens : /\ token[l] # NULL
                              /\ token[l].table = guest[h].table
                              /\ h \in token[l].admitted
                              /\ token[l].consumed + FreshTTL = guest[h].presence
        BY <3>1 DEF PresenceIsScanned
    <3>3. token'[l] = token[l]
        BY <1>1, <3>2
    <3> QED
        BY <3>1, <3>2, <3>3
  <2> QED
      BY <2>1, <2>2
<1>12. DisplaysKeepOneCredential'
    BY <1>1 DEF DisplaysKeepOneCredential, Active
<1> QED
    BY <1>8, <1>9, <1>10, <1>11, <1>12

-----------------------------------------------------------------------------
(***************************************************************************)
(* The theorems                                                            *)
(***************************************************************************)

LEMMA NextIInv == IInv /\ [Next]_presenceVars => IInv'
<1> SUFFICES ASSUME IInv, [Next]_presenceVars PROVE IInv'
    OBVIOUS
<1>1. CASE UNCHANGED presenceVars
  <2>1. /\ clock' = clock /\ credential' = credential /\ token' = token /\ guest' = guest
        /\ work' = work
      BY <1>1 DEF presenceVars
  <2>2. TypeOK' /\ TokensAdmitOnce' /\ PresenceIsScanned' /\ DisplaysKeepOneCredential'
      BY <2>1 DEF IInv, TypeOK, TokensAdmitOnce, PresenceIsScanned,
                  DisplaysKeepOneCredential, Active
  <2>3. RequestsKnow' /\ Locks'
      BY <2>1 DEF IInv, RequestsKnow, Knows, Active, Locks, HoldsToken, HoldsCredential
  <2> QED
      BY <2>2, <2>3 DEF IInv
<1>2. CASE Tick
    BY <1>2, TickStep
<1>3. CASE \E r \in Requests : Step(r)
  <2> SUFFICES ASSUME NEW r \in Requests, Step(r) PROVE IInv'
      BY <1>3
  <2>1. CASE \E t \in Tables : BeginFirmware(r, t) \/ BeginPreview(r, t)
      BY <2>1, BeginFirmwareStep, BeginPreviewStep
  <2>2. CASE \E d \in Credentials : BeginIssue(r, d)
      BY <2>2, BeginIssueStep
  <2>3. CASE \E n \in Tenants, k \in Tokens, cookie \in Guests \cup {NULL} :
                BeginRedeem(r, n, k, cookie)
      BY <2>3, BeginRedeemStep
  <2>4. CASE SnapshotCredentials(r) \/ RevokeCredentials(r) \/ Provision(r)
      BY <2>4, SnapshotCredentialsStep, RevokeCredentialsStep, ProvisionStep
  <2>5. CASE ShowAtTable(r) \/ InsertToken(r)
      BY <2>5, ShowAtTableStep, InsertTokenStep
  <2>6. CASE ConsumeToken(r) \/ FindTable(r) \/ FindGuest(r) \/ Grant(r)
      BY <2>6, ConsumeTokenStep, FindTableStep, FindGuestStep, GrantStep
  <2>7. CASE Vanish(r)
      BY <2>7, EndStep DEF Vanish
  <2> QED
      BY <2>1, <2>2, <2>3, <2>4, <2>5, <2>6, <2>7 DEF Step
<1> QED
    BY <1>1, <1>2, <1>3 DEF Next

THEOREM SpecIInv == Spec => []IInv
BY InitIInv, NextIInv, PTL DEF Spec

\* Every variable keeps its type (table_presence.py and
\* table_display_provisioning.py).
THEOREM TypeCorrect == Spec => []TypeOK
<1>1. IInv => TypeOK
    BY DEF IInv
<1> QED
    BY <1>1, SpecIInv, PTL

\* A token admits one guest, before it expires, whatever redemptions race for it.
THEOREM TokensAdmitOneGuest == Spec => []TokensAdmitOnce
<1>1. IInv => TokensAdmitOnce
    BY DEF IInv
<1> QED
    BY <1>1, SpecIInv, PTL

\* A guest's presence is that of a code of the guest's own table.
THEOREM PresenceComesFromACode == Spec => []PresenceIsScanned
<1>1. IInv => PresenceIsScanned
    BY DEF IInv
<1> QED
    BY <1>1, SpecIInv, PTL

\* A table that ever had a display has exactly one credential that works.
THEOREM OneCredentialPerDisplay == Spec => []DisplaysKeepOneCredential
<1>1. IInv => DisplaysKeepOneCredential
    BY DEF IInv
<1> QED
    BY <1>1, SpecIInv, PTL

-----------------------------------------------------------------------------
(***************************************************************************)
(* Presence implements Admission: the commit of a token shows a code, that *)
(* of a redemption admits a guest, and no other step is seen.              *)
(***************************************************************************)
codes == [k \in Tokens |-> CodeOf(k)]
seats == [g \in Guests |-> SeatOf(g)]

LEMMA CodesAreNotNull ==
    ASSUME NEW t \in Tables, NEW g \in Guests \cup {NULL}
    PROVE  [table |-> t, guest |-> g] # NULL
BY PresenceAssumption DEF PresenceAssumption

LEMMA AdmissionInits == Init => TheAdmission!AdmissionInit
BY DEF Init, TheAdmission!AdmissionInit, CodeOf, SeatOf

LEMMA AdmissionStutters ==
    ASSUME UNCHANGED <<token, guest>>
    PROVE  UNCHANGED TheAdmission!admissionVars
BY DEF TheAdmission!admissionVars, CodeOf, SeatOf

LEMMA InsertTokenShows ==
    ASSUME IInv, NEW r \in Requests, InsertToken(r)
    PROVE  TheAdmission!AdmissionNext
<1>1. PICK row \in WorkRow : row = work[r] /\ row.table \in Tables
    BY RequestHas DEF InsertToken, Knows
<1> DEFINE new == [table |-> row.table, expires |-> row.now + TokenTTL,
                   consumed |-> NULL, admitted |-> {}]
<1>2. PICK k \in Tokens : token[k] = NULL /\ token' = [token EXCEPT ![k] = new]
    BY <1>1 DEF InsertToken
<1>3. guest' = guest
    BY DEF InsertToken
<1>4. new # NULL
  <2>1. token'[k] \in TokenRow \cup {NULL} /\ token'[k] = new
      BY <1>2, InsertTokenStep DEF IInv, TypeOK
  <2>2. row.now \in Times
      BY <1>1 DEF WorkRow
  <2>3. row.now \in Nat /\ TokenTTL \in Nat
      BY <2>2, TimesAreNumbers
  <2>4. row.now + TokenTTL \in Nat
      BY <2>3
  <2>5. new \in TokenRow
      BY <1>1, <2>4 DEF TokenRow
  <2> QED
      BY <2>5, NullIsFresh
<1> HIDE DEF new
<1>5. /\ codes[k] = NULL
      /\ codes'[k] = [table |-> row.table, guest |-> NULL]
      /\ \A l \in Tokens \ {k} : codes'[l] = codes[l]
    BY <1>2, <1>4 DEF codes, CodeOf, IInv, TypeOK, new
<1>6. codes' = [codes EXCEPT ![k] = [table |-> row.table, guest |-> NULL]]
    BY <1>5 DEF codes
<1>7. seats' = seats
    BY <1>3 DEF seats, SeatOf
<1>8. TheAdmission!Show(k, row.table)
    BY <1>5, <1>6, <1>7 DEF TheAdmission!Show, codes, seats
<1> QED
    BY <1>1, <1>8 DEF TheAdmission!AdmissionNext

LEMMA GrantsAdmit ==
    ASSUME IInv, NEW r \in Requests, Grant(r)
    PROVE  TheAdmission!AdmissionNext
<1>1. PICK row \in WorkRow, g \in Guests, k \in Tokens : Admits(r, row, g, k)
    BY GrantAdmits
<1> USE <1>1 DEF Admits
<1>2. row.table \in Tables /\ token[k] \in TokenRow /\ token'[k] # NULL
    BY RowsAreNotNull, NullIsFresh DEF IInv
<1>3. token'[k].table = row.table /\ token'[k].admitted = {g}
    BY <1>2 DEF TokenRow
<1>4. /\ codes[k] = [table |-> row.table, guest |-> NULL]
      /\ codes'[k] = [table |-> row.table, guest |-> g]
      /\ \A l \in Tokens \ {k} : codes'[l] = codes[l]
    BY <1>2, <1>3 DEF codes, CodeOf
<1>5. codes[k] # NULL
    BY <1>2, <1>4, CodesAreNotNull
<1>6. codes' = [codes EXCEPT ![k].guest = g]
  <2>1. codes'[k] = [codes[k] EXCEPT !.guest = g]
      BY <1>4
  <2> QED
      BY <1>4, <2>1 DEF codes
<1>7. /\ seats[g] \in {NULL, row.table}
      /\ seats' = [seats EXCEPT ![g] = row.table]
  <2>1. guest'[g] # NULL /\ guest'[g].table = row.table
    <3>1. guest'[g].table = row.table
        BY DEF IInv, TypeOK
    <3>2. TypeOK'
        BY GrantStep DEF IInv
    <3>3. row.now \in Times
        BY <1>1 DEF WorkRow
    <3>4. row.now \in Nat /\ FreshTTL \in Nat /\ SessionTTL \in Nat
        BY <3>3, TimesAreNumbers
    <3>5. guest'[g] = [table |-> row.table, presence |-> row.now + FreshTTL,
                       expires |-> row.now + SessionTTL]
        BY DEF IInv, TypeOK
    <3>6. guest'[g] \in GuestRow
        BY <1>2, <3>4, <3>5 DEF GuestRow
    <3> QED
        BY <3>1, <3>6, NullIsFresh
  <2>2. \A h \in Guests \ {g} : guest'[h] = guest[h]
      BY DEF IInv, TypeOK
  <2>3. seats'[g] = row.table /\ \A h \in Guests \ {g} : seats'[h] = seats[h]
      BY <2>1, <2>2 DEF seats, SeatOf
  <2>4. seats[g] \in {NULL, row.table}
      BY DEF seats, SeatOf
  <2>5. seats' = [seats EXCEPT ![g] = row.table]
      BY <2>3 DEF seats
  <2> QED
      BY <2>4, <2>5
<1>8. codes[k].guest = NULL /\ codes[k].table = row.table
    BY <1>4
<1>9. TheAdmission!Admit(k, g)
    BY ONLY <1>5, <1>6, <1>7, <1>8 DEF TheAdmission!Admit, codes, seats
<1> QED
    BY <1>9 DEF TheAdmission!AdmissionNext

LEMMA AdmissionSteps ==
    IInv /\ [Next]_presenceVars => [TheAdmission!AdmissionNext]_(TheAdmission!admissionVars)
<1> SUFFICES ASSUME IInv, [Next]_presenceVars
             PROVE  [TheAdmission!AdmissionNext]_(TheAdmission!admissionVars)
    OBVIOUS
<1>1. CASE UNCHANGED presenceVars
    BY <1>1, AdmissionStutters DEF presenceVars
<1>2. CASE Tick
    BY <1>2, AdmissionStutters DEF Tick, stored
<1>3. CASE \E r \in Requests : Step(r)
  <2> SUFFICES ASSUME NEW r \in Requests, Step(r)
               PROVE  [TheAdmission!AdmissionNext]_(TheAdmission!admissionVars)
      BY <1>3
  <2>1. CASE InsertToken(r) \/ Grant(r)
      BY <2>1, InsertTokenShows, GrantsAdmit
  <2>2. CASE ~ (InsertToken(r) \/ Grant(r))
    <3>1. UNCHANGED <<token, guest>>
        BY <2>2 DEF Step, BeginFirmware, BeginPreview, BeginIssue, BeginRedeem,
                    SnapshotCredentials, RevokeCredentials, Provision, ShowAtTable,
                    ConsumeToken, FindTable, FindGuest, Vanish, Go, End, stored
    <3> QED
        BY <3>1, AdmissionStutters
  <2> QED
      BY <2>1, <2>2
<1> QED
    BY <1>1, <1>2, <1>3 DEF Next

\* Through all races of displays and phones a code admits one guest to its own
\* table, where the guest remains: every behaviour is one of Admission.tla.
THEOREM PresenceImplementsAdmission == Spec => ImplementsAdmission
<1>1. Init => TheAdmission!AdmissionInit
    BY AdmissionInits
<1>2. IInv /\ [Next]_presenceVars => [TheAdmission!AdmissionNext]_(TheAdmission!admissionVars)
    BY AdmissionSteps
<1> QED
    BY <1>1, <1>2, SpecIInv, PTL DEF Spec, ImplementsAdmission, TheAdmission!AdmissionSpec

-----------------------------------------------------------------------------
(***************************************************************************)
(* The display at the table (TableDisplay.tla), for a millis() of any      *)
(* width and any timing that satisfies DisplayAssumption, that of the      *)
(* sketch among them.                                                      *)
(***************************************************************************)

\* The constants are numbers, and Refresh, the sums of times and the bound of
\* the waiting fit into half the range.
LEMMA Numbers ==
    /\ Half \in Nat /\ Half > 0 /\ Wrap \in Nat /\ Wrap = Half + Half
    /\ Refresh \in Nat /\ Retry \in Nat /\ ConnectMax \in Nat /\ FetchMax \in Nat
    /\ Pause \in Nat /\ MaxQuiet \in Nat
    /\ FetchMax <= Refresh /\ FetchMax <= MaxQuiet
    /\ Refresh + Pause + FetchMax < Half
    /\ MaxQuiet + Retry + FetchMax < Half
    /\ ConnectMax < Wrap - 1
BY DisplayAssumption DEF DisplayAssumption, Refresh, Longer, Wrap

\* So do the bounds that are the longer of two.
LEMMA Bounds ==
    /\ KeptAtMost \in Nat /\ KeptAtMost >= MaxQuiet + Retry /\ KeptAtMost >= Refresh + Pause
    /\ KeptAtMost + FetchMax < Half
    /\ BlindAtMost \in Nat /\ BlindAtMost >= Refresh + Pause /\ BlindAtMost >= Retry
BY Numbers DEF KeptAtMost, BlindAtMost, Longer

-----------------------------------------------------------------------------
(***************************************************************************)
(* The arithmetic of millis().                                             *)
(***************************************************************************)

\* uint32_t sums and differences are instants again.
LEMMA PlusIsInstant ==
    ASSUME NEW a \in Instants, NEW b \in Nat, b < Wrap
    PROVE  Plus(a, b) \in Instants
BY Numbers DEF Plus, Instants

LEMMA MinusIsInstant ==
    ASSUME NEW a \in Instants, NEW b \in Instants
    PROVE  Minus(a, b) \in Instants /\ Minus(a, b) \in Nat /\ Minus(a, a) = 0
BY Numbers DEF Minus, Instants

\* Another tick is another tick of difference, wherever the clock starts again.
LEMMA TickMeasures ==
    ASSUME NEW a \in Instants, NEW b \in Instants, Minus(a, b) < Wrap - 1
    PROVE  Minus(Plus(a, 1), b) = Minus(a, b) + 1
BY Numbers DEF Plus, Minus, Instants

LEMMA TickKeepsDistance ==
    ASSUME NEW a \in Instants, NEW b \in Instants,
           NEW r \in Nat, NEW s \in Nat, r < Half, s < Half,
           Plus(a, r) = Plus(b, s)
    PROVE  Plus(Plus(a, 1), r) = Plus(b, s + 1)
BY Numbers DEF Plus, Instants

\* timeReached tells whether the time has come, if it came less than half the
\* range ago.
LEMMA TimeReachedIsRight ==
    ASSUME NEW a \in Instants, NEW b \in Instants,
           NEW r \in Nat, NEW s \in Nat, r < Half, s < Half,
           Plus(a, r) = Plus(b, s)
    PROVE  TimeReached(a, b) <=> s >= r
BY Numbers DEF TimeReached, Plus, Minus, Instants

\* What elapsed since the fetch began, and the time of the next one, counted
\* from its beginning.
LEMMA FetchIsDated ==
    ASSUME NEW a \in Instants, NEW b \in Instants, Minus(a, b) < Half
    PROVE  Plus(a, Refresh) = Plus(Plus(b, Refresh), Minus(a, b))
BY Numbers DEF Plus, Minus, Instants

-----------------------------------------------------------------------------
(***************************************************************************)
(* The inductive invariant, one lemma for each action.                     *)
(***************************************************************************)

\* What is waited for, and the time a fetch has taken, are times.
LEMMA DisplayTimesAreNumbers ==
    ASSUME DisplayTypeOK
    PROVE  Waiting \in Nat /\ Fetching \in Nat
BY Numbers, MinusIsInstant DEF DisplayTypeOK, Waiting, Fetching, Instants

\* A code that is kept has not been kept for half the range, and will not have
\* been when the wait is over and a fetch has taken its time.
LEMMA SinceIsShort ==
    ASSUME DisplayIInv, currentToken
    PROVE  /\ since + Waiting + FetchMax < Half + Fetching
           /\ since < Half
BY Numbers, Bounds, DisplayTimesAreNumbers DEF DisplayIInv, DisplayTypeOK, TokenIsDated, BlindIsDated

\* The code that is kept is due when it has been kept for Refresh.
LEMMA DueIsRight ==
    ASSUME DisplayIInv, currentToken
    PROVE  TimeReached(millis, next) <=> since >= Refresh
BY Numbers, SinceIsShort, TimeReachedIsRight DEF DisplayIInv, DisplayTypeOK, TokenIsDated

\* While the sketch waits, what is still to be waited for falls as the time grows.
LEMMA WaitingIsTime ==
    ASSUME NEW t \in Nat, NEW b \in Nat, NEW w \in Nat, NEW f \in Nat, NEW v \in Nat, NEW g \in Nat,
           t + w <= b + f,
           \/ v = w /\ g = f + 1
           \/ v = w - 1 /\ g = f
    PROVE  (t + 1) + v <= b + g /\ 0 + v <= b + g
OBVIOUS

LEMMA ElapseStep ==
    ASSUME DisplayIInv, Elapse
    PROVE  DisplayIInv'
<1>1. DisplayTypeOK'
  BY Numbers, PlusIsInstant DEF Elapse, DisplayIInv, DisplayTypeOK
<1>2. Waiting \in Nat /\ Fetching \in Nat /\ Waiting' \in Nat /\ Fetching' \in Nat
  BY <1>1, MinusIsInstant DEF DisplayIInv, DisplayTypeOK, Waiting, Fetching
<1>3. /\ Fetching' <= FetchMax
      /\ \/ pc = "fetch" /\ Waiting' = Waiting /\ Fetching' = Fetching + 1
         \/ pc = "delay" /\ Waiting' = Waiting - 1 /\ Fetching' = Fetching
         \/ pc \in {"setup", "connect"} /\ ~ wifi /\ Waiting' = 0 /\ Fetching' = 0
  <2>1. CASE pc = "fetch"
    BY <2>1, Numbers, TickMeasures, MinusIsInstant DEF Elapse, DisplayIInv, DisplayTypeOK, Fetching, Waiting
  <2>2. CASE pc # "fetch"
    BY <2>2, Numbers DEF Elapse, DisplayIInv, DisplayTypeOK, Fetching, Waiting
  <2> QED
    BY <2>1, <2>2
<1>4. currentToken' => Plus(millis', Refresh) = Plus(next', since')
  BY Numbers, SinceIsShort, TickKeepsDistance DEF Elapse, DisplayIInv, DisplayTypeOK, TokenIsDated
<1>5. TokenIsDated'
  <2> SUFFICES ASSUME currentToken' PROVE TokenIsDated'
    BY DEF TokenIsDated
  <2>1. currentToken /\ since \in Nat /\ since' = since + 1 /\ since + Waiting <= KeptAtMost + Fetching
    BY DEF Elapse, DisplayIInv, DisplayTypeOK, TokenIsDated
  <2>2. blind' <= since' /\ pc' # "setup"
    BY <2>1 DEF Elapse, DisplayIInv, DisplayTypeOK, TokenIsDated
  <2>3. ~ wifi' \/ pc' = "connect" => since' <= MaxQuiet
    BY <2>1, Numbers DEF Elapse, DisplayIInv, DisplayTypeOK
  <2>4. since' + Waiting' <= KeptAtMost + Fetching'
    <3>1. CASE pc \in {"setup", "connect"}
      BY <1>3, <2>1, <2>3, <3>1, Numbers, Bounds DEF Elapse
    <3>2. CASE pc \notin {"setup", "connect"}
      BY <1>2, <1>3, <2>1, <3>2, Bounds, WaitingIsTime
    <3> QED
      BY <3>1, <3>2
  <2> QED
    BY <1>4, <2>2, <2>3, <2>4 DEF TokenIsDated
<1>6. ShownIsDated'
  <2> SUFFICES ASSUME shown' PROVE ShownIsDated'
    BY DEF ShownIsDated
  <2>1. /\ currentToken' /\ since \in Nat /\ since' = since + 1 /\ age' <= since'
        /\ since + Waiting <= (Refresh + Pause) + Fetching
        /\ pc' = pc /\ pc \notin {"setup", "connect"}
    BY DEF Elapse, DisplayIInv, DisplayTypeOK, ShownIsDated
  <2>2. since' + Waiting' <= (Refresh + Pause) + Fetching'
    <3> Refresh + Pause \in Nat
      BY Numbers
    <3> QED
      BY <1>2, <1>3, <2>1, WaitingIsTime
  <2> QED
    BY <2>1, <2>2 DEF ShownIsDated
<1>7. BlindIsDated'
  <2>1. blind' \in Nat /\ blind \in Nat /\ (blind' = blind + 1 \/ blind' = 0)
    BY <1>1 DEF Elapse, DisplayIInv, DisplayTypeOK
  <2>2. blind + Waiting <= BlindAtMost + Fetching
    BY DEF DisplayIInv, BlindIsDated
  <2>3. blind' + Waiting' <= BlindAtMost + Fetching'
    <3>1. CASE pc \in {"setup", "connect"}
      BY <1>3, <3>1, Bounds DEF Elapse
    <3>2. CASE pc \notin {"setup", "connect"}
      <4>1. (blind + 1) + Waiting' <= BlindAtMost + Fetching' /\ 0 + Waiting' <= BlindAtMost + Fetching'
        BY <1>2, <1>3, <2>1, <2>2, <3>2, Bounds, WaitingIsTime
      <4> QED
        BY <2>1, <4>1
    <3> QED
      BY <3>1, <3>2
  <2>4. ~ wifi' \/ pc' \in {"setup", "connect"} => blind' = 0
    BY DEF Elapse
  <2> QED
    BY <1>3, <2>3, <2>4 DEF BlindIsDated
<1> QED
  BY <1>1, <1>5, <1>6, <1>7 DEF DisplayIInv

LEMMA DisconnectStep ==
    ASSUME DisplayIInv, Disconnect
    PROVE  DisplayIInv'
<1>1. DisplayTypeOK'
  BY Numbers, PlusIsInstant, MinusIsInstant DEF Disconnect, DisplayIInv, DisplayTypeOK
<1>2. Waiting \in Nat /\ Fetching \in Nat /\ Waiting' \in Nat /\ Fetching' \in Nat
  BY <1>1, MinusIsInstant DEF DisplayIInv, DisplayTypeOK, Waiting, Fetching
<1>3. Waiting' = Waiting /\ Fetching' = Fetching
  BY Numbers, MinusIsInstant DEF Disconnect, DisplayIInv, DisplayTypeOK, Waiting, Fetching
<1>4. TokenIsDated'
  BY Numbers, Bounds, <1>1, <1>2, <1>3 DEF Disconnect, DisplayIInv, DisplayTypeOK, TokenIsDated, BlindIsDated
<1>5. ShownIsDated'
  BY Numbers, <1>1, <1>2, <1>3 DEF Disconnect, DisplayIInv, DisplayTypeOK, ShownIsDated
<1>6. BlindIsDated'
  BY Numbers, Bounds, <1>1, <1>2, <1>3 DEF Disconnect, DisplayIInv, DisplayTypeOK, BlindIsDated
<1> QED
  BY <1>1, <1>4, <1>5, <1>6 DEF DisplayIInv

LEMMA ReconnectStep ==
    ASSUME DisplayIInv, Reconnect
    PROVE  DisplayIInv'
<1>1. DisplayTypeOK'
  BY Numbers, PlusIsInstant, MinusIsInstant DEF Reconnect, DisplayIInv, DisplayTypeOK
<1>2. Waiting \in Nat /\ Fetching \in Nat /\ Waiting' \in Nat /\ Fetching' \in Nat
  BY <1>1, MinusIsInstant DEF DisplayIInv, DisplayTypeOK, Waiting, Fetching
<1>3. Waiting' = Waiting /\ Fetching' = Fetching
  BY Numbers, MinusIsInstant DEF Reconnect, DisplayIInv, DisplayTypeOK, Waiting, Fetching
<1>4. TokenIsDated'
  BY Numbers, Bounds, <1>1, <1>2, <1>3 DEF Reconnect, DisplayIInv, DisplayTypeOK, TokenIsDated, BlindIsDated
<1>5. ShownIsDated'
  BY Numbers, <1>1, <1>2, <1>3 DEF Reconnect, DisplayIInv, DisplayTypeOK, ShownIsDated
<1>6. BlindIsDated'
  BY Numbers, Bounds, <1>1, <1>2, <1>3 DEF Reconnect, DisplayIInv, DisplayTypeOK, BlindIsDated
<1> QED
  BY <1>1, <1>4, <1>5, <1>6 DEF DisplayIInv

LEMMA LoopOfflineStep ==
    ASSUME DisplayIInv, LoopOffline
    PROVE  DisplayIInv'
<1>1. DisplayTypeOK'
  BY Numbers, PlusIsInstant, MinusIsInstant DEF LoopOffline, DisplayIInv, DisplayTypeOK
<1>2. Waiting \in Nat /\ Fetching \in Nat /\ Waiting' \in Nat /\ Fetching' \in Nat
  BY <1>1, MinusIsInstant DEF DisplayIInv, DisplayTypeOK, Waiting, Fetching
<1>3. Waiting = 0 /\ Fetching = 0 /\ Waiting' = 0 /\ Fetching' = 0
  BY Numbers, MinusIsInstant DEF LoopOffline, DisplayIInv, DisplayTypeOK, Waiting, Fetching
<1>4. TokenIsDated'
  BY Numbers, Bounds, <1>1, <1>2, <1>3 DEF LoopOffline, DisplayIInv, DisplayTypeOK, TokenIsDated, BlindIsDated
<1>5. ShownIsDated'
  BY Numbers, <1>1, <1>2, <1>3 DEF LoopOffline, DisplayIInv, DisplayTypeOK, ShownIsDated
<1>6. BlindIsDated'
  BY Numbers, Bounds, <1>1, <1>2, <1>3 DEF LoopOffline, DisplayIInv, DisplayTypeOK, BlindIsDated
<1> QED
  BY <1>1, <1>4, <1>5, <1>6 DEF DisplayIInv

LEMMA ConnectedStep ==
    ASSUME DisplayIInv, Connected
    PROVE  DisplayIInv'
<1>1. DisplayTypeOK'
  BY Numbers DEF Connected, DisplayIInv, DisplayTypeOK
<1>2. /\ Waiting = 0 /\ Fetching = 0 /\ Fetching' = 0
      /\ Waiting' = IF pc = "setup" THEN 0 ELSE Retry
  BY DEF Connected, Waiting, Fetching
<1>3. blind' = 0
  BY DEF Connected, DisplayIInv, BlindIsDated
<1>4. TokenIsDated'
  <2> SUFFICES ASSUME currentToken' PROVE TokenIsDated'
    BY DEF TokenIsDated
  <2>1. currentToken /\ pc = "connect" /\ since <= MaxQuiet /\ since \in Nat
    BY DEF Connected, DisplayIInv, DisplayTypeOK, TokenIsDated
  <2>2. since' + Waiting' <= KeptAtMost + Fetching'
    BY <1>2, <2>1, Numbers, Bounds DEF Connected
  <2> QED
    BY <1>3, <2>1, <2>2 DEF Connected, DisplayIInv, DisplayTypeOK, TokenIsDated
<1>5. ShownIsDated'
  BY DEF Connected, DisplayIInv, ShownIsDated
<1>6. BlindIsDated'
  BY <1>2, <1>3, Numbers, Bounds DEF BlindIsDated
<1> QED
  BY <1>1, <1>4, <1>5, <1>6 DEF DisplayIInv

LEMMA WakeStep ==
    ASSUME DisplayIInv, Wake
    PROVE  DisplayIInv'
<1>1. DisplayTypeOK'
  BY Numbers, PlusIsInstant, MinusIsInstant DEF Wake, DisplayIInv, DisplayTypeOK, clockVars
<1>2. Waiting \in Nat /\ Fetching \in Nat /\ Waiting' \in Nat /\ Fetching' \in Nat
  BY <1>1, MinusIsInstant DEF DisplayIInv, DisplayTypeOK, Waiting, Fetching
<1>3. Waiting = 0 /\ Fetching = 0 /\ Waiting' = 0 /\ Fetching' = 0
  BY Numbers, MinusIsInstant DEF Wake, DisplayIInv, DisplayTypeOK, Waiting, Fetching, clockVars
<1>4. TokenIsDated'
  BY Numbers, Bounds, <1>1, <1>2, <1>3 DEF Wake, DisplayIInv, DisplayTypeOK, TokenIsDated, BlindIsDated, clockVars
<1>5. ShownIsDated'
  BY Numbers, <1>1, <1>2, <1>3 DEF Wake, DisplayIInv, DisplayTypeOK, ShownIsDated, clockVars
<1>6. BlindIsDated'
  BY Numbers, Bounds, <1>1, <1>2, <1>3 DEF Wake, DisplayIInv, DisplayTypeOK, BlindIsDated, clockVars
<1> QED
  BY <1>1, <1>4, <1>5, <1>6 DEF DisplayIInv

LEMMA LoopIdleStep ==
    ASSUME DisplayIInv, LoopIdle
    PROVE  DisplayIInv'
<1>1. DisplayTypeOK'
  BY Numbers, PlusIsInstant, MinusIsInstant DEF LoopIdle, DisplayIInv, DisplayTypeOK
<1>2. Waiting \in Nat /\ Fetching \in Nat /\ Waiting' \in Nat /\ Fetching' \in Nat
  BY <1>1, MinusIsInstant DEF DisplayIInv, DisplayTypeOK, Waiting, Fetching
<1>3. Waiting = 0 /\ Fetching = 0 /\ Waiting' = Pause /\ Fetching' = 0
  BY Numbers, MinusIsInstant DEF LoopIdle, DisplayIInv, DisplayTypeOK, Waiting, Fetching
<1>4. TokenIsDated'
  BY Numbers, Bounds, <1>1, <1>2, <1>3, DueIsRight DEF LoopIdle, DisplayIInv, DisplayTypeOK, TokenIsDated, BlindIsDated
<1>5. ShownIsDated'
  BY Numbers, <1>1, <1>2, <1>3, DueIsRight DEF LoopIdle, DisplayIInv, DisplayTypeOK, ShownIsDated
<1>6. BlindIsDated'
  BY Numbers, Bounds, <1>1, <1>2, <1>3, DueIsRight DEF LoopIdle, DisplayIInv, DisplayTypeOK, TokenIsDated, BlindIsDated
<1> QED
  BY <1>1, <1>4, <1>5, <1>6 DEF DisplayIInv

LEMMA LoopDueStep ==
    ASSUME DisplayIInv, LoopDue
    PROVE  DisplayIInv'
<1>1. DisplayTypeOK'
  BY Numbers, PlusIsInstant, MinusIsInstant DEF LoopDue, DisplayIInv, DisplayTypeOK, clockVars
<1>2. Waiting \in Nat /\ Fetching \in Nat /\ Waiting' \in Nat /\ Fetching' \in Nat
  BY <1>1, MinusIsInstant DEF DisplayIInv, DisplayTypeOK, Waiting, Fetching
<1>3. Waiting = 0 /\ Fetching = 0 /\ Waiting' = 0 /\ Fetching' = 0
  BY Numbers, MinusIsInstant DEF LoopDue, DisplayIInv, DisplayTypeOK, Waiting, Fetching, clockVars
<1>4. TokenIsDated'
  BY Numbers, Bounds, <1>1, <1>2, <1>3 DEF LoopDue, DisplayIInv, DisplayTypeOK, TokenIsDated, BlindIsDated, clockVars
<1>5. ShownIsDated'
  BY Numbers, <1>1, <1>2, <1>3 DEF LoopDue, DisplayIInv, DisplayTypeOK, ShownIsDated, clockVars
<1>6. BlindIsDated'
  BY Numbers, Bounds, <1>1, <1>2, <1>3 DEF LoopDue, DisplayIInv, DisplayTypeOK, BlindIsDated, clockVars
<1> QED
  BY <1>1, <1>4, <1>5, <1>6 DEF DisplayIInv

LEMMA FetchOkStep ==
    ASSUME DisplayIInv, FetchOk
    PROVE  DisplayIInv'
<1>1. DisplayTypeOK'
  <2>1. next' \in Instants
    BY Numbers, PlusIsInstant DEF FetchOk, DisplayIInv, DisplayTypeOK
  <2>2. age' \in Nat /\ since' \in Nat
    BY MinusIsInstant DEF FetchOk, DisplayIInv, DisplayTypeOK
  <2> QED
    BY <2>1, <2>2, Numbers DEF FetchOk, DisplayIInv, DisplayTypeOK
<1>2. Waiting \in Nat /\ Fetching \in Nat /\ Waiting' \in Nat /\ Fetching' \in Nat
  BY <1>1, MinusIsInstant DEF DisplayIInv, DisplayTypeOK, Waiting, Fetching
<1>3. Waiting' = Pause /\ Fetching' = 0 /\ Fetching = Minus(millis, start)
         /\ Fetching <= FetchMax
  BY Numbers, MinusIsInstant DEF FetchOk, DisplayIInv, DisplayTypeOK, BlindIsDated, Waiting, Fetching
<1>4. TokenIsDated'
  BY Numbers, Bounds, <1>1, <1>2, <1>3, FetchIsDated DEF FetchOk, DisplayIInv, DisplayTypeOK, TokenIsDated, BlindIsDated
<1>5. ShownIsDated'
  BY Numbers, <1>1, <1>2, <1>3 DEF FetchOk, DisplayIInv, DisplayTypeOK, ShownIsDated
<1>6. BlindIsDated'
  BY Numbers, Bounds, <1>1, <1>2, <1>3 DEF FetchOk, DisplayIInv, DisplayTypeOK, BlindIsDated
<1> QED
  BY <1>1, <1>4, <1>5, <1>6 DEF DisplayIInv

LEMMA FetchFailsStep ==
    ASSUME DisplayIInv, FetchFails
    PROVE  DisplayIInv'
<1>1. DisplayTypeOK'
  <2>1. next' \in Instants
    BY Numbers, PlusIsInstant DEF FetchFails, DisplayIInv, DisplayTypeOK
  <2>2. age' \in Nat /\ since' \in Nat
    BY MinusIsInstant DEF FetchFails, DisplayIInv, DisplayTypeOK
  <2> QED
    BY <2>1, <2>2, Numbers DEF FetchFails, DisplayIInv, DisplayTypeOK
<1>2. Waiting \in Nat /\ Fetching \in Nat /\ Waiting' \in Nat /\ Fetching' \in Nat
  BY <1>1, MinusIsInstant DEF DisplayIInv, DisplayTypeOK, Waiting, Fetching
<1>3. Waiting' = Pause /\ Fetching' = 0 /\ Fetching = Minus(millis, start)
         /\ Fetching <= FetchMax
  BY Numbers, MinusIsInstant DEF FetchFails, DisplayIInv, DisplayTypeOK, BlindIsDated, Waiting, Fetching
<1>4. TokenIsDated'
  BY Numbers, Bounds, <1>1, <1>2, <1>3 DEF FetchFails, DisplayIInv, DisplayTypeOK, TokenIsDated, BlindIsDated
<1>5. ShownIsDated'
  BY Numbers, <1>1, <1>2, <1>3 DEF FetchFails, DisplayIInv, DisplayTypeOK, ShownIsDated
<1>6. BlindIsDated'
  BY Numbers, Bounds, <1>1, <1>2, <1>3 DEF FetchFails, DisplayIInv, DisplayTypeOK, BlindIsDated
<1> QED
  BY <1>1, <1>4, <1>5, <1>6 DEF DisplayIInv

LEMMA RedeemStep ==
    ASSUME DisplayIInv, Redeem
    PROVE  DisplayIInv'
<1>1. DisplayTypeOK'
  BY Numbers, PlusIsInstant, MinusIsInstant DEF Redeem, DisplayIInv, DisplayTypeOK, clockVars
<1>2. Waiting \in Nat /\ Fetching \in Nat /\ Waiting' \in Nat /\ Fetching' \in Nat
  BY <1>1, MinusIsInstant DEF DisplayIInv, DisplayTypeOK, Waiting, Fetching
<1>3. Waiting' = Waiting /\ Fetching' = Fetching
  BY Numbers, MinusIsInstant DEF Redeem, DisplayIInv, DisplayTypeOK, Waiting, Fetching, clockVars
<1>4. TokenIsDated'
  BY Numbers, Bounds, <1>1, <1>2, <1>3 DEF Redeem, DisplayIInv, DisplayTypeOK, TokenIsDated, BlindIsDated, clockVars
<1>5. ShownIsDated'
  BY Numbers, <1>1, <1>2, <1>3 DEF Redeem, DisplayIInv, DisplayTypeOK, ShownIsDated, clockVars
<1>6. BlindIsDated'
  BY Numbers, Bounds, <1>1, <1>2, <1>3 DEF Redeem, DisplayIInv, DisplayTypeOK, BlindIsDated, clockVars
<1> QED
  BY <1>1, <1>4, <1>5, <1>6 DEF DisplayIInv

LEMMA BootStep ==
    ASSUME DisplayIInv, Boot
    PROVE  DisplayIInv'
<1>1. DisplayTypeOK'
  <2>1. 0 \in Instants
    BY Numbers DEF Instants
  <2> QED
    BY <2>1 DEF Boot, DisplayIInv, DisplayTypeOK
<1>2. Waiting \in Nat /\ Fetching \in Nat /\ Waiting' \in Nat /\ Fetching' \in Nat
  BY <1>1, MinusIsInstant DEF DisplayIInv, DisplayTypeOK, Waiting, Fetching
<1>3. Waiting' = 0 /\ Fetching' = 0
  BY Numbers, MinusIsInstant DEF Boot, DisplayIInv, DisplayTypeOK, Waiting, Fetching
<1>4. TokenIsDated'
  BY Numbers, Bounds, <1>1, <1>2, <1>3 DEF Boot, DisplayIInv, DisplayTypeOK, TokenIsDated, BlindIsDated
<1>5. ShownIsDated'
  BY Numbers, <1>1, <1>2, <1>3 DEF Boot, DisplayIInv, DisplayTypeOK, ShownIsDated
<1>6. BlindIsDated'
  BY Numbers, Bounds, <1>1, <1>2, <1>3 DEF Boot, DisplayIInv, DisplayTypeOK, BlindIsDated
<1> QED
  BY <1>1, <1>4, <1>5, <1>6 DEF DisplayIInv

-----------------------------------------------------------------------------
\* The invariant holds from when the display is switched on.
THEOREM DisplaySpecIInv == DisplaySpec => []DisplayIInv
<1>1. DisplayInit => DisplayIInv
  <2> SUFFICES ASSUME DisplayInit PROVE DisplayIInv
    OBVIOUS
  <2>1. 0 \in Instants
    BY Numbers DEF Instants
  <2>2. DisplayTypeOK /\ Waiting = 0 /\ Fetching = 0
    BY <2>1 DEF DisplayInit, DisplayTypeOK, Waiting, Fetching
  <2> QED
    BY <2>2, Numbers, Bounds DEF DisplayInit, DisplayIInv, TokenIsDated, ShownIsDated, BlindIsDated
<1>2. DisplayIInv /\ [DisplayNext]_displayVars => DisplayIInv'
  <2> SUFFICES ASSUME DisplayIInv, [DisplayNext]_displayVars PROVE DisplayIInv'
    OBVIOUS
  <2>1. CASE Elapse
    BY <2>1, ElapseStep
  <2>2. CASE Disconnect
    BY <2>2, DisconnectStep
  <2>3. CASE Reconnect
    BY <2>3, ReconnectStep
  <2>4. CASE LoopOffline
    BY <2>4, LoopOfflineStep
  <2>5. CASE Connected
    BY <2>5, ConnectedStep
  <2>6. CASE Wake
    BY <2>6, WakeStep
  <2>7. CASE LoopIdle
    BY <2>7, LoopIdleStep
  <2>8. CASE LoopDue
    BY <2>8, LoopDueStep
  <2>9. CASE FetchOk
    BY <2>9, FetchOkStep
  <2>10. CASE FetchFails
    BY <2>10, FetchFailsStep
  <2>11. CASE Redeem
    BY <2>11, RedeemStep
  <2>12. CASE Boot
    BY <2>12, BootStep
  <2>13. CASE UNCHANGED displayVars
    BY <2>13 DEF displayVars, DisplayIInv, DisplayTypeOK, TokenIsDated, ShownIsDated, BlindIsDated, Waiting, Fetching
  <2> QED
    BY <2>1, <2>2, <2>3, <2>4, <2>5, <2>6, <2>7, <2>8, <2>9, <2>10, <2>11, <2>12, <2>13 DEF DisplayNext
<1> QED
  BY <1>1, <1>2, PTL DEF DisplaySpec

\* Type correctness.
THEOREM DisplayTypeCorrect == DisplaySpec => []DisplayTypeOK
BY DisplaySpecIInv, PTL DEF DisplayIInv

(***************************************************************************)
(* A code is off the screen, or replaced, in the time of a refresh and a   *)
(* fetch, also when millis() starts again from 0 meanwhile.                *)
(***************************************************************************)
THEOREM CodesStayReplaced == DisplaySpec => []CodesAreReplaced
<1>1. DisplayIInv => CodesAreReplaced
  BY Numbers, DisplayTimesAreNumbers DEF DisplayIInv, DisplayTypeOK, ShownIsDated, BlindIsDated, CodesAreReplaced
<1> QED
  BY <1>1, DisplaySpecIInv, PTL

(***************************************************************************)
(* A guest who waits for a code while the network and the server work is   *)
(* shown one by the next refresh.                                          *)
(***************************************************************************)
THEOREM BlindStaysBrief == DisplaySpec => []BlindIsBrief
<1>1. DisplayIInv => BlindIsBrief
  BY Numbers, Bounds, DisplayTimesAreNumbers DEF DisplayIInv, DisplayTypeOK, BlindIsDated, BlindIsBrief
<1> QED
  BY <1>1, DisplaySpecIInv, PTL

-----------------------------------------------------------------------------
(***************************************************************************)
(* The cashier's screen (CashierScreen.tla)                                *)
(*                                                                         *)
(* The calls that are out are counted in three ways: the payments that may *)
(* still be recorded, those that the screen waits for, and the other calls *)
(* that will free the buttons at their end. A failure is the only way to   *)
(* have more of the latter two than the one command that is under way, and *)
(* while a payment is open each of them may free its button once.          *)
(***************************************************************************)
ToRecord(calls) ==
    {c \in Calls : calls[c] # null /\ calls[c].op = "pay" /\ calls[c].at = "sent"}

Awaited(calls) ==
    {c \in Calls : calls[c] # null /\ calls[c].op = "pay" /\ calls[c].heard}

Freeing(calls) ==
    {c \in Calls : /\ calls[c] # null
                   /\ \/ calls[c].op \in {"void", "close"} /\ calls[c].heard
                      \/ calls[c].op = "board" /\ calls[c].after}

Submitting == IF action = "submitting" THEN 1 ELSE 0

CallsKnow ==
    \A c \in Calls : call[c] # null =>
        /\ call[c].op # "board" => call[c].table \in TableIds
        /\ call[c].op \in {"board", "detail"} => call[c].heard

PressesAreCounted ==
    /\ Cardinality(Awaited(call)) + Cardinality(Freeing(call)) <= failures + Submitting
    /\ recorded + Cardinality(ToRecord(call)) <= handed * (1 + failures)
    /\ "pay" \in modals =>
          /\ handed > 0
          /\ recorded + Cardinality(ToRecord(call)) + Cardinality(Freeing(call))
                + (1 - Submitting) <= handed * (1 + failures)

\* Unless a load is excused there is one detail at most, that of the selected table.
LoadsAreExcused ==
    ~ excused =>
        /\ \A c, d \in Calls : Out(c, "detail") /\ Out(d, "detail") => c = d
        /\ \A c \in Calls : Out(c, "detail") => call[c].table = selected \/ ~ Occupied

ScreenIInv ==
    /\ ScreenTypeOK
    /\ CallsKnow
    /\ PressesAreCounted
    /\ LoadsAreExcused
    /\ BillIsOfSelected

-----------------------------------------------------------------------------
LEMMA NullIsNoCall ==
    /\ null \notin TableIds /\ null \notin CallRow /\ null \notin [of : TableIds, figures : TableIds]
    /\ Calls # {} /\ TableIds # {} /\ IsFiniteSet(Calls)
BY ScreenAssumption DEF ScreenAssumption

\* What a call counts for.
RecordWeight(row) == IF row # null /\ row.op = "pay" /\ row.at = "sent" THEN 1 ELSE 0
AwaitWeight(row) == IF row # null /\ row.op = "pay" /\ row.heard THEN 1 ELSE 0
FreeWeight(row) ==
    IF row # null /\ (\/ row.op \in {"void", "close"} /\ row.heard
                      \/ row.op = "board" /\ row.after)
    THEN 1 ELSE 0

LEMMA WeightsAreNumbers ==
    ASSUME NEW row
    PROVE  RecordWeight(row) \in Nat /\ AwaitWeight(row) \in Nat /\ FreeWeight(row) \in Nat
BY DEF RecordWeight, AwaitWeight, FreeWeight

LEMMA NullWeighsNothing ==
    RecordWeight(null) = 0 /\ AwaitWeight(null) = 0 /\ FreeWeight(null) = 0
BY DEF RecordWeight, AwaitWeight, FreeWeight

\* Two finite sets that differ at most in one element.
LEMMA OneElementApart ==
    ASSUME NEW A, NEW B, NEW c, IsFiniteSet(A), A \ {c} = B \ {c}
    PROVE  /\ IsFiniteSet(B)
           /\ Cardinality(A) \in Nat /\ Cardinality(B) \in Nat
           /\ Cardinality(B) + (IF c \in A THEN 1 ELSE 0)
                 = Cardinality(A) + (IF c \in B THEN 1 ELSE 0)
<1> DEFINE R == A \ {c}
<1>1. IsFiniteSet(R)
    BY FS_Subset
<1>2. Cardinality(R) \in Nat
    BY <1>1, FS_CardinalityType
<1>3. IsFiniteSet(R \cup {c}) /\ Cardinality(R \cup {c}) = Cardinality(R) + 1
    BY <1>1, FS_AddElement
<1>4. A = IF c \in A THEN R \cup {c} ELSE R
    OBVIOUS
<1>5. B = IF c \in B THEN R \cup {c} ELSE R
    OBVIOUS
<1> HIDE DEF R
<1>6. IsFiniteSet(B)
    BY <1>1, <1>3, <1>5
<1>7. CASE c \in A
    BY <1>2, <1>3, <1>4, <1>5, <1>6, <1>7
<1>8. CASE c \notin A
    BY <1>2, <1>3, <1>4, <1>5, <1>6, <1>8
<1> QED
    BY <1>7, <1>8

\* The three counts when one call changes.
LEMMA OneCallChanges ==
    ASSUME NEW f, NEW g, NEW c \in Calls, \A d \in Calls \ {c} : f[d] = g[d]
    PROVE  /\ Cardinality(ToRecord(f)) \in Nat /\ Cardinality(ToRecord(g)) \in Nat
           /\ Cardinality(Awaited(f)) \in Nat /\ Cardinality(Awaited(g)) \in Nat
           /\ Cardinality(Freeing(f)) \in Nat /\ Cardinality(Freeing(g)) \in Nat
           /\ Cardinality(ToRecord(g)) + RecordWeight(f[c])
                 = Cardinality(ToRecord(f)) + RecordWeight(g[c])
           /\ Cardinality(Awaited(g)) + AwaitWeight(f[c])
                 = Cardinality(Awaited(f)) + AwaitWeight(g[c])
           /\ Cardinality(Freeing(g)) + FreeWeight(f[c])
                 = Cardinality(Freeing(f)) + FreeWeight(g[c])
<1>1. IsFiniteSet(ToRecord(f)) /\ IsFiniteSet(Awaited(f)) /\ IsFiniteSet(Freeing(f))
  <2>1. ToRecord(f) \subseteq Calls /\ Awaited(f) \subseteq Calls /\ Freeing(f) \subseteq Calls
      BY DEF ToRecord, Awaited, Freeing
  <2> QED
      BY <2>1, NullIsNoCall, FS_Subset
<1>2. /\ ToRecord(f) \ {c} = ToRecord(g) \ {c}
      /\ Awaited(f) \ {c} = Awaited(g) \ {c}
      /\ Freeing(f) \ {c} = Freeing(g) \ {c}
    BY DEF ToRecord, Awaited, Freeing
<1>3. /\ RecordWeight(f[c]) = IF c \in ToRecord(f) THEN 1 ELSE 0
      /\ RecordWeight(g[c]) = IF c \in ToRecord(g) THEN 1 ELSE 0
    BY DEF RecordWeight, ToRecord
<1>4. /\ AwaitWeight(f[c]) = IF c \in Awaited(f) THEN 1 ELSE 0
      /\ AwaitWeight(g[c]) = IF c \in Awaited(g) THEN 1 ELSE 0
    BY DEF AwaitWeight, Awaited
<1>5. /\ FreeWeight(f[c]) = IF c \in Freeing(f) THEN 1 ELSE 0
      /\ FreeWeight(g[c]) = IF c \in Freeing(g) THEN 1 ELSE 0
    BY DEF FreeWeight, Freeing
<1>6. /\ Cardinality(ToRecord(f)) \in Nat /\ Cardinality(ToRecord(g)) \in Nat
      /\ Cardinality(ToRecord(g)) + RecordWeight(f[c])
            = Cardinality(ToRecord(f)) + RecordWeight(g[c])
    BY <1>1, <1>2, <1>3, OneElementApart
<1>7. /\ Cardinality(Awaited(f)) \in Nat /\ Cardinality(Awaited(g)) \in Nat
      /\ Cardinality(Awaited(g)) + AwaitWeight(f[c])
            = Cardinality(Awaited(f)) + AwaitWeight(g[c])
    BY <1>1, <1>2, <1>4, OneElementApart
<1>8. /\ Cardinality(Freeing(f)) \in Nat /\ Cardinality(Freeing(g)) \in Nat
      /\ Cardinality(Freeing(g)) + FreeWeight(f[c])
            = Cardinality(Freeing(f)) + FreeWeight(g[c])
    BY <1>1, <1>2, <1>5, OneElementApart
<1> QED
    BY <1>6, <1>7, <1>8

\* A call that is added takes a slot that was free.
LEMMA WithTakesASlot ==
    ASSUME NEW calls \in [Calls -> CallRow \cup {null}], NEW row \in CallRow,
           Unused(calls) # {}
    PROVE  \E c \in Calls : /\ calls[c] = null
                            /\ With(calls, row) = [calls EXCEPT ![c] = row]
<1> DEFINE slot == CHOOSE c \in Unused(calls) : TRUE
<1>1. slot \in Unused(calls)
    OBVIOUS
<1>2. slot \in Calls /\ calls[slot] = null
    BY <1>1 DEF Unused
<1> QED
    BY <1>2 DEF With

LEMMA FetchIsACall ==
    ASSUME NEW op \in Commands \cup {"detail", "board"}, NEW t \in TableIds \cup {null}
    PROVE  /\ Fetch(op, t) \in CallRow /\ Fetch(op, t) # null
           /\ Fetch(op, t).op = op /\ Fetch(op, t).table = t /\ Fetch(op, t).heard
           /\ Fetch(op, t).at = "sent" /\ ~ Fetch(op, t).after
<1>1. Fetch(op, t) \in CallRow
    BY DEF Fetch, CallRow
<1>2. Fetch(op, t) # null
    BY <1>1, NullIsNoCall
<1> QED
    BY <1>1, <1>2 DEF Fetch

LEMMA CallIsRow ==
    ASSUME ScreenTypeOK, NEW c \in Calls, call[c] # null
    PROVE  call[c] \in CallRow
BY DEF ScreenTypeOK

\* A step in which one call changes.
LEMMA SlotChanges ==
    ASSUME ScreenTypeOK, NEW c \in Calls, NEW row \in CallRow \cup {null},
           call' = [call EXCEPT ![c] = row]
    PROVE  /\ call' \in [Calls -> CallRow \cup {null}]
           /\ call'[c] = row
           /\ \A d \in Calls \ {c} : call'[d] = call[d]
           /\ Cardinality(ToRecord(call)) \in Nat /\ Cardinality(ToRecord(call')) \in Nat
           /\ Cardinality(Awaited(call)) \in Nat /\ Cardinality(Awaited(call')) \in Nat
           /\ Cardinality(Freeing(call)) \in Nat /\ Cardinality(Freeing(call')) \in Nat
           /\ Cardinality(ToRecord(call')) + RecordWeight(call[c])
                 = Cardinality(ToRecord(call)) + RecordWeight(row)
           /\ Cardinality(Awaited(call')) + AwaitWeight(call[c])
                 = Cardinality(Awaited(call)) + AwaitWeight(row)
           /\ Cardinality(Freeing(call')) + FreeWeight(call[c])
                 = Cardinality(Freeing(call)) + FreeWeight(row)
<1>1. /\ call' \in [Calls -> CallRow \cup {null}]
      /\ call'[c] = row
      /\ \A d \in Calls \ {c} : call'[d] = call[d]
    BY DEF ScreenTypeOK
<1>2. PICK f : f = call
    OBVIOUS
<1>3. PICK g : g = call'
    OBVIOUS
<1>4. \A d \in Calls \ {c} : f[d] = g[d]
    BY <1>1, <1>2, <1>3
<1>5. /\ Cardinality(ToRecord(f)) \in Nat /\ Cardinality(ToRecord(g)) \in Nat
      /\ Cardinality(Awaited(f)) \in Nat /\ Cardinality(Awaited(g)) \in Nat
      /\ Cardinality(Freeing(f)) \in Nat /\ Cardinality(Freeing(g)) \in Nat
      /\ Cardinality(ToRecord(g)) + RecordWeight(f[c])
            = Cardinality(ToRecord(f)) + RecordWeight(g[c])
      /\ Cardinality(Awaited(g)) + AwaitWeight(f[c])
            = Cardinality(Awaited(f)) + AwaitWeight(g[c])
      /\ Cardinality(Freeing(g)) + FreeWeight(f[c])
            = Cardinality(Freeing(f)) + FreeWeight(g[c])
    BY ONLY <1>4, OneCallChanges, c \in Calls
<1> QED
    BY <1>1, <1>2, <1>3, <1>5

LEMMA CountsAreNumbers ==
    /\ Cardinality(ToRecord(call)) \in Nat
    /\ Cardinality(Awaited(call)) \in Nat
    /\ Cardinality(Freeing(call)) \in Nat
BY OneCallChanges, NullIsNoCall

(***************************************************************************)
(* A step keeps the count of presses if it loses no more than it gains: a  *)
(* failure adds to the bound as many payments as were handed over, and a   *)
(* payment handed over as many as there may be presses.                    *)
(***************************************************************************)
LEMMA CountStep ==
    ASSUME NEW r \in Nat, NEW h \in Nat, NEW b \in Nat, NEW t \in Nat, NEW f \in Nat,
           NEW gain \in Nat, NEW u \in {0, 1},
           NEW r1 \in Nat, NEW b1 \in Nat, NEW t1 \in Nat, NEW f1 \in Nat, NEW u1 \in {0, 1},
           NEW open \in BOOLEAN, NEW open1 \in BOOLEAN,
           r + t <= b,
           open => r + t + f + (1 - u) <= b,
           b1 = b + gain,
           \/ r1 + t1 <= r + t + gain
           \/ open /\ r1 + t1 <= r + t + (1 - u) + gain,
           open1 => open /\ r1 + t1 + f1 + (1 - u1) <= r + t + f + (1 - u) + gain
    PROVE  /\ r1 + t1 <= b1
           /\ open1 => r1 + t1 + f1 + (1 - u1) <= b1
OBVIOUS

\* A step that leaves the loads of the board and the details alone, or puts
\* the board's in the place of its call, or takes the bill away.
LEMMA LoadsStay ==
    ASSUME ScreenTypeOK, LoadsAreExcused, BillIsOfSelected,
           UNCHANGED <<board, selected, excused>>,
           \A c \in Calls : Out(c, "detail")' <=> Out(c, "detail"),
           \A c \in Calls : Out(c, "detail") => call'[c].table = call[c].table,
           \/ bill' = bill /\ \A c \in Calls : Out(c, "board") => \E d \in Calls : Out(d, "board")'
           \/ \E d \in Calls : Out(d, "board")'
           \/ bill' = null
    PROVE  LoadsAreExcused' /\ BillIsOfSelected'
<1>1. LoadsAreExcused'
    BY DEF LoadsAreExcused, Occupied
<1>2. BillIsOfSelected'
    BY DEF BillIsOfSelected, Drawn, Occupied
<1> QED
    BY <1>1, <1>2

-----------------------------------------------------------------------------
\* A step that touches no call and keeps the counts.
LEMMA ClickStep ==
    ASSUME ScreenIInv, ScreenTypeOK', call' = call,
           UNCHANGED <<recorded, board, selected, bill, action, handed, failures, excused>>,
           "pay" \in modals' => "pay" \in modals
    PROVE  ScreenIInv'
<1> USE DEF ScreenIInv
<1>1. CallsKnow'
    BY DEF CallsKnow
<1>2. PressesAreCounted'
    BY DEF PressesAreCounted, Submitting
<1>3. LoadsAreExcused' /\ BillIsOfSelected'
    BY DEF LoadsAreExcused, BillIsOfSelected, Out, Drawn, Occupied
<1> QED
    BY <1>1, <1>2, <1>3

LEMMA DialogSteps ==
    ASSUME ScreenIInv,
           OpenClose \/ OpenVoid \/ (\E m \in {"pay", "close"} : Cancel(m)) \/ CancelVoid
    PROVE  ScreenIInv'
<1>1. CASE OpenClose \/ OpenVoid
  <2>1. bill # null => bill.of \in TableIds
      BY DEF ScreenIInv, ScreenTypeOK
  <2>2. ScreenTypeOK'
      BY <1>1, <2>1 DEF OpenClose, OpenVoid, Drawn, ScreenIInv, ScreenTypeOK, serverVars,
                        boardVars, countVars
  <2> QED
      BY <1>1, <2>2, ClickStep DEF OpenClose, OpenVoid, serverVars, boardVars, countVars
<1>2. CASE \E m \in {"pay", "close"} : Cancel(m)
  <2>1. ScreenTypeOK'
      BY <1>2 DEF Cancel, ScreenIInv, ScreenTypeOK, serverVars, boardVars, countVars
  <2> QED
      BY <1>2, <2>1, ClickStep DEF Cancel, serverVars, boardVars, countVars
<1>3. CASE CancelVoid
  <2>1. ScreenTypeOK'
      BY <1>3 DEF CancelVoid, ScreenIInv, ScreenTypeOK, serverVars, boardVars, countVars
  <2> QED
      BY <1>3, <2>1, ClickStep DEF CancelVoid, serverVars, boardVars, countVars
<1> QED
    BY <1>1, <1>2, <1>3

\* A payment that is handed over may be pressed for by each call that frees its
\* button, of which there are no more than failures, and once without any.
LEMMA OpenPayStep ==
    ASSUME ScreenIInv, OpenPay
    PROVE  ScreenIInv'
<1> USE DEF ScreenIInv
<1>1. /\ handed' = handed + 1 /\ action # "submitting"
      /\ UNCHANGED <<recorded, seated, board, view, selected, bill, voiding, action, call,
                     failures, excused>>
      /\ modals' = modals \cup {"pay"}
    BY DEF OpenPay, serverVars, boardVars
<1>2. ScreenTypeOK'
    BY <1>1 DEF ScreenTypeOK
<1>3. PressesAreCounted'
  <2>1. recorded \in Nat /\ handed \in Nat /\ failures \in Nat
      BY DEF ScreenTypeOK
  <2>2. (handed + 1) * (1 + failures) = handed * (1 + failures) + (1 + failures)
      BY <2>1
  <2>3. handed * (1 + failures) \in Nat
      BY <2>1
  <2>4. Submitting = 0 /\ Submitting' = 0
      BY <1>1 DEF Submitting
  <2> QED
      BY <1>1, <2>1, <2>2, <2>3, <2>4, CountsAreNumbers DEF PressesAreCounted
<1>4. CallsKnow' /\ LoadsAreExcused' /\ BillIsOfSelected'
    BY <1>1 DEF CallsKnow, LoadsAreExcused, BillIsOfSelected, Out, Drawn, Occupied
<1> QED
    BY <1>2, <1>3, <1>4

-----------------------------------------------------------------------------
\* The three counts of two sets of calls are the same.
SameCounts(f, g) ==
    /\ Cardinality(ToRecord(f)) = Cardinality(ToRecord(g))
    /\ Cardinality(Awaited(f)) = Cardinality(Awaited(g))
    /\ Cardinality(Freeing(f)) = Cardinality(Freeing(g))

(***************************************************************************)
(* What a step has to keep of the weights, in which one call goes from one *)
(* row to another and k failures happen, for the count of presses to go on.*)
(***************************************************************************)
WeightsAllow(was, row, k) ==
    /\ AwaitWeight(row) + FreeWeight(row) + Submitting
          <= AwaitWeight(was) + FreeWeight(was) + k + Submitting'
    /\ \/ recorded' + RecordWeight(row) <= recorded + RecordWeight(was)
       \/ /\ "pay" \in modals
          /\ recorded' + RecordWeight(row) <= recorded + RecordWeight(was) + (1 - Submitting)
    /\ "pay" \in modals' =>
          /\ "pay" \in modals
          /\ recorded' + RecordWeight(row) + FreeWeight(row) + (1 - Submitting')
                <= recorded + RecordWeight(was) + FreeWeight(was) + (1 - Submitting) + k

\* Calls that do not count may be added to it.
LEMMA OneCallCounts ==
    ASSUME ScreenTypeOK, PressesAreCounted, NEW c \in Calls, NEW row \in CallRow \cup {null},
           NEW k \in {0, 1}, NEW was, was = call[c],
           NEW calls, calls = [call EXCEPT ![c] = row], SameCounts(calls, call'),
           handed' = handed, failures' = failures + k, recorded' \in Nat,
           WeightsAllow(was, row, k)
    PROVE  PressesAreCounted'
<1>1. /\ Cardinality(ToRecord(call)) \in Nat /\ Cardinality(ToRecord(calls)) \in Nat
      /\ Cardinality(Awaited(call)) \in Nat /\ Cardinality(Awaited(calls)) \in Nat
      /\ Cardinality(Freeing(call)) \in Nat /\ Cardinality(Freeing(calls)) \in Nat
      /\ Cardinality(ToRecord(calls)) + RecordWeight(was)
            = Cardinality(ToRecord(call)) + RecordWeight(row)
      /\ Cardinality(Awaited(calls)) + AwaitWeight(was)
            = Cardinality(Awaited(call)) + AwaitWeight(row)
      /\ Cardinality(Freeing(calls)) + FreeWeight(was)
            = Cardinality(Freeing(call)) + FreeWeight(row)
  <2>1. calls[c] = row /\ \A d \in Calls \ {c} : call[d] = calls[d]
      BY DEF ScreenTypeOK
  <2>2. /\ Cardinality(ToRecord(call)) \in Nat /\ Cardinality(ToRecord(calls)) \in Nat
        /\ Cardinality(Awaited(call)) \in Nat /\ Cardinality(Awaited(calls)) \in Nat
        /\ Cardinality(Freeing(call)) \in Nat /\ Cardinality(Freeing(calls)) \in Nat
        /\ Cardinality(ToRecord(calls)) + RecordWeight(call[c])
              = Cardinality(ToRecord(call)) + RecordWeight(calls[c])
        /\ Cardinality(Awaited(calls)) + AwaitWeight(call[c])
              = Cardinality(Awaited(call)) + AwaitWeight(calls[c])
        /\ Cardinality(Freeing(calls)) + FreeWeight(call[c])
              = Cardinality(Freeing(call)) + FreeWeight(calls[c])
      BY ONLY <2>1, OneCallChanges, c \in Calls
  <2> QED
      BY <2>1, <2>2
<1>2. recorded \in Nat /\ handed \in Nat /\ failures \in Nat
    BY DEF ScreenTypeOK
<1>3. handed * (1 + failures) \in Nat /\ k * handed \in Nat
    BY <1>2
<1>4. handed * (1 + (failures + k)) = handed * (1 + failures) + k * handed
    BY <1>2
<1>5. handed > 0 => k <= k * handed
    BY <1>2
<1>6. Submitting \in {0, 1} /\ Submitting' \in {0, 1}
    BY DEF Submitting
<1>7. /\ RecordWeight(row) \in Nat /\ AwaitWeight(row) \in Nat /\ FreeWeight(row) \in Nat
      /\ RecordWeight(was) \in Nat /\ AwaitWeight(was) \in Nat /\ FreeWeight(was) \in Nat
    BY WeightsAreNumbers
<1>8. /\ Cardinality(ToRecord(call')) = Cardinality(ToRecord(calls))
      /\ Cardinality(Awaited(call')) = Cardinality(Awaited(calls))
      /\ Cardinality(Freeing(call')) = Cardinality(Freeing(calls))
    BY DEF SameCounts
<1>9. Cardinality(Awaited(call')) + Cardinality(Freeing(call')) <= failures' + Submitting'
    BY <1>1, <1>2, <1>6, <1>7, <1>8 DEF PressesAreCounted, WeightsAllow
<1>10. handed' * (1 + failures') = handed * (1 + failures) + k * handed
    BY <1>4
<1>11. recorded' + Cardinality(ToRecord(call')) <= handed' * (1 + failures')
  <2>1. recorded + Cardinality(ToRecord(call)) <= handed * (1 + failures)
      BY DEF PressesAreCounted
  <2>2. "pay" \in modals =>
            recorded + Cardinality(ToRecord(call)) + (1 - Submitting) <= handed * (1 + failures)
      BY <1>1, <1>2, <1>3, <1>6 DEF PressesAreCounted
  <2> QED
      BY <1>1, <1>2, <1>3, <1>6, <1>7, <1>8, <1>10, <2>1, <2>2 DEF WeightsAllow
<1>12. ASSUME "pay" \in modals'
       PROVE  /\ handed' > 0
              /\ recorded' + Cardinality(ToRecord(call')) + Cardinality(Freeing(call'))
                    + (1 - Submitting') <= handed' * (1 + failures')
  <2>1. /\ handed > 0
        /\ recorded + Cardinality(ToRecord(call)) + Cardinality(Freeing(call))
              + (1 - Submitting) <= handed * (1 + failures)
      BY <1>12 DEF PressesAreCounted, WeightsAllow
  <2> QED
      BY <1>1, <1>2, <1>3, <1>5, <1>6, <1>7, <1>8, <1>10, <1>12, <2>1 DEF WeightsAllow
<1> QED
    BY <1>9, <1>11, <1>12 DEF PressesAreCounted

LEMMA SameCallsSameCounts ==
    ASSUME NEW f, NEW g, f = g
    PROVE  SameCounts(f, g)
BY DEF SameCounts

\* A step in which one call changes, and no other.
LEMMA CallStep ==
    ASSUME ScreenTypeOK, PressesAreCounted, NEW c \in Calls, NEW row \in CallRow \cup {null},
           NEW k \in {0, 1}, call' = [call EXCEPT ![c] = row],
           handed' = handed, failures' = failures + k, recorded' \in Nat,
           WeightsAllow(call[c], row, k)
    PROVE  /\ call' \in [Calls -> CallRow \cup {null}]
           /\ call'[c] = row /\ \A d \in Calls \ {c} : call'[d] = call[d]
           /\ PressesAreCounted'
<1>1. PICK calls : calls = [call EXCEPT ![c] = row]
    OBVIOUS
<1>2. PICK was : was = call[c]
    OBVIOUS
<1>3. SameCounts(calls, call')
    BY <1>1, SameCallsSameCounts
<1>4. WeightsAllow(was, row, k)
    BY <1>2 DEF WeightsAllow
<1>5. PressesAreCounted'
    BY <1>1, <1>2, <1>3, <1>4, OneCallCounts
<1> QED
    BY <1>5 DEF ScreenTypeOK

\* The effect adds a detail, which does not count, or none.
LEMMA DetailIsNotCounted ==
    ASSUME NEW calls \in [Calls -> CallRow \cup {null}], NEW t \in TableIds,
           Unused(calls) # {}
    PROVE  /\ \E c \in Calls : /\ calls[c] = null
                               /\ With(calls, Fetch("detail", t))
                                      = [calls EXCEPT ![c] = Fetch("detail", t)]
           /\ SameCounts(calls, With(calls, Fetch("detail", t)))
<1> DEFINE row == Fetch("detail", t)
<1>1. row \in CallRow /\ row # null /\ row.op = "detail"
    BY FetchIsACall DEF Commands
<1> HIDE DEF row
<1>2. PICK c \in Calls : calls[c] = null /\ With(calls, row) = [calls EXCEPT ![c] = row]
    BY <1>1, WithTakesASlot
<1>3. PICK more : more = With(calls, row)
    OBVIOUS
<1>4. more[c] = row /\ \A d \in Calls \ {c} : calls[d] = more[d]
    BY <1>2, <1>3
<1>5. /\ RecordWeight(row) = 0 /\ AwaitWeight(row) = 0 /\ FreeWeight(row) = 0
    BY <1>1 DEF RecordWeight, AwaitWeight, FreeWeight
<1>6. /\ Cardinality(ToRecord(calls)) \in Nat /\ Cardinality(ToRecord(more)) \in Nat
      /\ Cardinality(Awaited(calls)) \in Nat /\ Cardinality(Awaited(more)) \in Nat
      /\ Cardinality(Freeing(calls)) \in Nat /\ Cardinality(Freeing(more)) \in Nat
      /\ Cardinality(ToRecord(more)) + RecordWeight(calls[c])
            = Cardinality(ToRecord(calls)) + RecordWeight(more[c])
      /\ Cardinality(Awaited(more)) + AwaitWeight(calls[c])
            = Cardinality(Awaited(calls)) + AwaitWeight(more[c])
      /\ Cardinality(Freeing(more)) + FreeWeight(calls[c])
            = Cardinality(Freeing(calls)) + FreeWeight(more[c])
    BY ONLY <1>4, OneCallChanges, c \in Calls
<1>7. SameCounts(calls, more)
    BY <1>2, <1>4, <1>5, <1>6, NullWeighsNothing DEF SameCounts
<1> QED
    BY <1>2, <1>3, <1>7 DEF row

\* The effect keeps what is known of loads: a detail that sets out alone is that
\* of the table that is selected now.
LEMMA EffectShowsSelected ==
    ASSUME ScreenTypeOK, CallsKnow, LoadsAreExcused,
           NEW calls \in [Calls -> CallRow \cup {null}], NEW t \in TableIds, NEW rows,
           \A d \in Calls : calls[d] = null \/ calls[d] = call[d],
           \A d \in Calls : Out(d, "detail") => calls[d] = call[d],
           Unused(calls) # {},
           selected' = t, board' = rows,
           ShowDetail(t, rows, calls)
    PROVE  /\ call' \in [Calls -> CallRow \cup {null}]
           /\ bill' = bill \/ bill' = null
           /\ excused' \in BOOLEAN
           /\ SameCounts(calls, call')
           /\ CallsKnow' /\ LoadsAreExcused' /\ BillIsOfSelected'
<1>1. CASE t \in rows
  <2>1. /\ call' = With(calls, Fetch("detail", t))
        /\ excused' = (excused \/ \E c \in Calls : Out(c, "detail"))
        /\ bill' = bill
      BY <1>1 DEF ShowDetail
  <2>2. PICK c \in Calls : /\ calls[c] = null
                          /\ With(calls, Fetch("detail", t))
                                 = [calls EXCEPT ![c] = Fetch("detail", t)]
      BY DetailIsNotCounted
  <2>3. call' = [calls EXCEPT ![c] = Fetch("detail", t)]
      BY <2>1, <2>2
  <2>4. /\ Fetch("detail", t) \in CallRow /\ Fetch("detail", t) # null
        /\ Fetch("detail", t).op = "detail" /\ Fetch("detail", t).table = t
        /\ Fetch("detail", t).heard
      BY FetchIsACall DEF Commands
  <2>5. /\ call' \in [Calls -> CallRow \cup {null}]
        /\ call'[c] = Fetch("detail", t)
        /\ \A d \in Calls \ {c} : call'[d] = null \/ call'[d] = call[d]
      BY <2>3, <2>4
  <2>6. CallsKnow'
      BY <2>4, <2>5 DEF CallsKnow
  <2>7. excused' \in BOOLEAN
      BY <2>1 DEF ScreenTypeOK
  <2>8. LoadsAreExcused'
    <3>1. SUFFICES ASSUME ~ excused'
                   PROVE  /\ \A d, e \in Calls : /\ call'[d] # null /\ call'[d].op = "detail"
                                                /\ call'[e] # null /\ call'[e].op = "detail"
                                                => d = e
                          /\ \A d \in Calls : call'[d] # null /\ call'[d].op = "detail" =>
                                call'[d].table = selected'
        BY DEF LoadsAreExcused, Out, Occupied
    <3>2. \A d \in Calls \ {c} : ~ (call'[d] # null /\ call'[d].op = "detail")
        BY <2>1, <2>5, <3>1 DEF Out
    <3> QED
        BY <2>4, <2>5, <3>2
  <2>9. BillIsOfSelected'
      BY <2>4, <2>5 DEF BillIsOfSelected, Out
  <2>10. SameCounts(calls, call')
      BY <2>1, DetailIsNotCounted
  <2> QED
      BY <2>1, <2>5, <2>6, <2>7, <2>8, <2>9, <2>10
<1>2. CASE t \notin rows
  <2>1. bill' = null /\ call' = calls /\ excused' = excused
      BY <1>2 DEF ShowDetail
  <2>2. CallsKnow'
      BY <2>1 DEF CallsKnow
  <2>3. LoadsAreExcused'
      BY <1>2, <2>1 DEF LoadsAreExcused, Out, Occupied
  <2>4. BillIsOfSelected'
      BY <2>1 DEF BillIsOfSelected, Drawn
  <2>5. SameCounts(calls, call')
      BY <2>1, SameCallsSameCounts
  <2> QED
      BY <2>1, <2>2, <2>3, <2>4, <2>5 DEF ScreenTypeOK
<1> QED
    BY <1>1, <1>2

-----------------------------------------------------------------------------
\* A step of a call that is not a detail: a load of the board is kept or replaced,
\* unless the bill goes.
LEMMA OtherCallStep ==
    ASSUME ScreenIInv, NEW c \in Calls, NEW row \in CallRow \cup {null},
           NEW k \in {0, 1}, call' = [call EXCEPT ![c] = row],
           handed' = handed, failures' = failures + k, recorded' \in Nat,
           WeightsAllow(call[c], row, k),
           UNCHANGED <<board, selected, excused>>,
           call[c] = null \/ call[c].op # "detail",
           row = null \/ /\ row.op # "detail"
                         /\ row.op = "board" => row.heard
                         /\ row.op # "board" => row.table \in TableIds,
           \/ /\ bill' = bill
              /\ call[c] # null /\ call[c].op = "board" => row # null /\ row.op = "board"
           \/ row # null /\ row.op = "board"
           \/ bill' = null
    PROVE  /\ call' \in [Calls -> CallRow \cup {null}]
           /\ CallsKnow' /\ PressesAreCounted' /\ LoadsAreExcused' /\ BillIsOfSelected'
<1>1. ScreenTypeOK /\ CallsKnow /\ PressesAreCounted /\ LoadsAreExcused /\ BillIsOfSelected
    BY DEF ScreenIInv
<1>2. /\ call' \in [Calls -> CallRow \cup {null}]
      /\ call'[c] = row /\ \A d \in Calls \ {c} : call'[d] = call[d]
      /\ PressesAreCounted'
    BY <1>1, CallStep
<1>3. CallsKnow'
    BY <1>1, <1>2 DEF CallsKnow
<1>4. /\ \A d \in Calls : Out(d, "detail")' <=> Out(d, "detail")
      /\ \A d \in Calls : Out(d, "detail") => call'[d].table = call[d].table
    BY <1>2 DEF Out
<1>5. \/ bill' = bill /\ \A d \in Calls : Out(d, "board") => \E e \in Calls : Out(e, "board")'
      \/ \E e \in Calls : Out(e, "board")'
      \/ bill' = null
    BY <1>2 DEF Out
<1> QED
    BY <1>1, <1>2, <1>3, <1>4, <1>5, LoadsStay

LEMMA SelectStep ==
    ASSUME ScreenIInv, NEW t \in TableIds, Select(t)
    PROVE  ScreenIInv'
<1> USE DEF ScreenIInv
<1>1. /\ selected' = t /\ board' = board /\ ShowDetail(t, board, call) /\ Unused(call) # {}
      /\ UNCHANGED <<seated, recorded, view, modals, voiding, action, handed, failures>>
    BY DEF Select, serverVars, dialogVars, countVars
<1>2. call \in [Calls -> CallRow \cup {null}]
    BY DEF ScreenTypeOK
<1>3. /\ call' \in [Calls -> CallRow \cup {null}]
      /\ bill' = bill \/ bill' = null
      /\ excused' \in BOOLEAN
      /\ SameCounts(call, call')
      /\ CallsKnow' /\ LoadsAreExcused' /\ BillIsOfSelected'
    BY <1>1, <1>2, EffectShowsSelected
<1>4. ScreenTypeOK'
    BY <1>1, <1>3 DEF ScreenTypeOK
<1>5. PressesAreCounted'
    BY <1>1, <1>3 DEF PressesAreCounted, SameCounts, Submitting
<1> QED
    BY <1>3, <1>4, <1>5

LEMMA RefreshStep ==
    ASSUME ScreenIInv, RefreshBoard
    PROVE  ScreenIInv'
<1>1. /\ view' = "loading" /\ call' = With(call, LoadBoard) /\ Unused(call) # {}
      /\ UNCHANGED <<seated, recorded, board, selected, bill, modals, voiding, action, handed,
                     failures, excused>>
    BY DEF RefreshBoard, serverVars, dialogVars, countVars
<1>2. /\ LoadBoard \in CallRow /\ LoadBoard # null /\ LoadBoard.op = "board"
      /\ LoadBoard.heard /\ ~ LoadBoard.after
    BY FetchIsACall DEF LoadBoard, Commands
<1>3. PICK c \in Calls : call[c] = null /\ call' = [call EXCEPT ![c] = LoadBoard]
  <2>1. call \in [Calls -> CallRow \cup {null}]
      BY DEF ScreenIInv, ScreenTypeOK
  <2> QED
      BY <1>1, <1>2, <2>1, WithTakesASlot
<1>4. WeightsAllow(call[c], LoadBoard, 0)
  <2>1. RecordWeight(LoadBoard) = 0 /\ AwaitWeight(LoadBoard) = 0 /\ FreeWeight(LoadBoard) = 0
      BY <1>2 DEF RecordWeight, AwaitWeight, FreeWeight
  <2>2. recorded \in Nat /\ Submitting' = Submitting /\ Submitting \in {0, 1}
      BY <1>1 DEF ScreenIInv, ScreenTypeOK, Submitting
  <2> QED
      BY <1>1, <1>3, <2>1, <2>2, NullWeighsNothing DEF WeightsAllow
<1>5. recorded' \in Nat /\ failures' = failures + 0
    BY <1>1 DEF ScreenIInv, ScreenTypeOK
<1>6. /\ call' \in [Calls -> CallRow \cup {null}]
      /\ CallsKnow' /\ PressesAreCounted' /\ LoadsAreExcused' /\ BillIsOfSelected'
    BY <1>1, <1>2, <1>3, <1>4, <1>5, OtherCallStep
<1> QED
    BY <1>1, <1>6 DEF ScreenIInv, ScreenTypeOK

\* A press takes the one command that may be under way, and a press of payment
\* the one press that an open payment has left.
LEMMA PressStep ==
    ASSUME ScreenIInv, NEW op \in Commands, NEW t \in TableIds, Press(op, t),
           op = "pay" => "pay" \in modals
    PROVE  ScreenIInv'
<1>1. /\ action # "submitting" /\ action' = "submitting" /\ Unused(call) # {}
      /\ call' = With(call, Fetch(op, t))
      /\ UNCHANGED <<seated, recorded, board, view, selected, bill, modals, voiding, handed,
                     failures, excused>>
    BY DEF Press, serverVars, boardVars, dialogVars, countVars
<1>2. PICK row : row = Fetch(op, t)
    OBVIOUS
<1>3. /\ row \in CallRow /\ row # null /\ row.op = op /\ row.table = t
      /\ row.heard /\ row.at = "sent" /\ ~ row.after
    BY <1>2, FetchIsACall
<1>4. PICK c \in Calls : call[c] = null /\ call' = [call EXCEPT ![c] = row]
  <2>1. call \in [Calls -> CallRow \cup {null}]
      BY DEF ScreenIInv, ScreenTypeOK
  <2> QED
      BY <1>1, <1>2, <1>3, <2>1, WithTakesASlot
<1>5. WeightsAllow(call[c], row, 0)
  <2>1. /\ op = "pay" => RecordWeight(row) = 1 /\ AwaitWeight(row) = 1 /\ FreeWeight(row) = 0
        /\ op # "pay" => RecordWeight(row) = 0 /\ AwaitWeight(row) = 0 /\ FreeWeight(row) = 1
      BY <1>3 DEF RecordWeight, AwaitWeight, FreeWeight, Commands
  <2>2. recorded \in Nat /\ Submitting' = 1 /\ Submitting = 0
      BY <1>1 DEF ScreenIInv, ScreenTypeOK, Submitting
  <2> QED
      BY <1>1, <1>4, <2>1, <2>2, NullWeighsNothing DEF WeightsAllow
<1>6. recorded' \in Nat /\ failures' = failures + 0
    BY <1>1 DEF ScreenIInv, ScreenTypeOK
<1>7. row.op # "board" /\ row.op # "detail"
    BY <1>3 DEF Commands
<1>8. /\ call' \in [Calls -> CallRow \cup {null}]
      /\ CallsKnow' /\ PressesAreCounted' /\ LoadsAreExcused' /\ BillIsOfSelected'
    BY <1>1, <1>3, <1>4, <1>5, <1>6, <1>7, OtherCallStep
<1> QED
    BY <1>1, <1>8 DEF ScreenIInv, ScreenTypeOK

LEMMA ClickSteps ==
    ASSUME ScreenIInv, Click
    PROVE  ScreenIInv'
<1>1. CASE PressPay \/ PressClose
  <2>1. selected \in TableIds
      BY <1>1 DEF PressPay, PressClose, Drawn, Occupied, ScreenIInv, ScreenTypeOK
  <2> QED
      BY <1>1, <2>1, PressStep DEF PressPay, PressClose, Commands
<1>2. CASE PressVoid
  <2>1. voiding \in TableIds
      BY <1>2 DEF PressVoid, ScreenIInv, ScreenTypeOK
  <2> QED
      BY <1>2, <2>1, PressStep DEF PressVoid, Commands
<1> QED
    BY <1>1, <1>2, SelectStep, RefreshStep, OpenPayStep, DialogSteps DEF Click

-----------------------------------------------------------------------------
\* What each of the calls that come back counts for.
LEMMA CallWeights ==
    ASSUME NEW row, row # null
    PROVE  /\ row.op = "pay" /\ row.at = "sent" => RecordWeight(row) = 1
           /\ row.op # "pay" \/ row.at # "sent" => RecordWeight(row) = 0
           /\ row.op = "pay" /\ row.heard => AwaitWeight(row) = 1
           /\ row.op # "pay" \/ ~ row.heard => AwaitWeight(row) = 0
           /\ row.op \in {"void", "close"} /\ row.heard => FreeWeight(row) = 1
           /\ row.op = "board" /\ row.after => FreeWeight(row) = 1
           /\ row.op \in {"void", "close"} /\ ~ row.heard => FreeWeight(row) = 0
           /\ row.op = "board" /\ ~ row.after => FreeWeight(row) = 0
           /\ row.op \in {"pay", "detail"} => FreeWeight(row) = 0
BY DEF RecordWeight, AwaitWeight, FreeWeight

LEMMA ServeStep ==
    ASSUME ScreenIInv, NEW c \in Calls, Serve(c)
    PROVE  ScreenIInv'
<1>1. /\ call[c] # null /\ call[c].op \in Commands /\ call[c].at = "sent"
      /\ call' = IF call[c].heard THEN [call EXCEPT ![c].at = "ok"] ELSE [call EXCEPT ![c] = null]
      /\ seated' = IF call[c].op = "close" THEN seated \ {call[c].table} ELSE seated
      /\ recorded' = IF call[c].op = "pay" THEN recorded + 1 ELSE recorded
      /\ UNCHANGED <<board, view, selected, bill, modals, voiding, action, handed, failures,
                     excused>>
    BY DEF Serve, Carried, Without, boardVars, dialogVars, countVars
<1>2. PICK was : was = call[c]
    OBVIOUS
<1>3. was \in CallRow /\ was.table \in TableIds
    BY <1>1, <1>2, CallIsRow DEF ScreenIInv, CallsKnow, Commands
<1>4. PICK row : row = IF was.heard THEN [was EXCEPT !.at = "ok"] ELSE null
    OBVIOUS
<1>5. call' = [call EXCEPT ![c] = row]
    BY <1>1, <1>2, <1>4
<1>6. /\ row \in CallRow \cup {null}
      /\ row # null => /\ was.heard /\ row.op = was.op /\ row.table = was.table
                       /\ row.heard = was.heard /\ row.at = "ok"
      /\ row = null => ~ was.heard
    BY <1>3, <1>4, NullIsNoCall DEF CallRow
<1>7. recorded \in Nat /\ recorded' \in Nat /\ failures \in Nat
    BY <1>1 DEF ScreenIInv, ScreenTypeOK
<1>8. WeightsAllow(call[c], row, 0)
  <2>1. was # null /\ was.op \in {"pay", "void", "close"} /\ was.at = "sent"
      BY <1>1, <1>2 DEF Commands
  <2>2. Submitting' = Submitting /\ Submitting \in {0, 1}
      BY <1>1 DEF Submitting
  <2>3. /\ RecordWeight(was) = IF was.op = "pay" THEN 1 ELSE 0
        /\ RecordWeight(row) = 0
        /\ AwaitWeight(row) = AwaitWeight(was)
        /\ FreeWeight(row) = FreeWeight(was)
    <3>1. CASE row = null
        BY <1>6, <2>1, <3>1, CallWeights, NullWeighsNothing
    <3>2. CASE row # null
      <4>1. row.op = was.op /\ row.heard /\ was.heard /\ row.at = "ok"
          BY <1>6, <3>2
      <4> QED
          BY <2>1, <3>2, <4>1, CallWeights
    <3> QED
        BY <3>1, <3>2
  <2>4. AwaitWeight(was) \in Nat /\ FreeWeight(was) \in Nat
      BY WeightsAreNumbers
  <2>5. recorded' = recorded + RecordWeight(was)
      BY <1>1, <1>2, <1>7, <2>3
  <2> QED
      BY <1>1, <1>2, <1>7, <2>2, <2>3, <2>4, <2>5 DEF WeightsAllow
<1>9. failures' = failures + 0
    BY <1>1, <1>7
<1>10. /\ call' \in [Calls -> CallRow \cup {null}]
       /\ CallsKnow' /\ PressesAreCounted' /\ LoadsAreExcused' /\ BillIsOfSelected'
  <2>1. call[c].op # "detail" /\ call[c].op # "board"
      BY <1>1 DEF Commands
  <2>2. ASSUME row # null
        PROVE  row.op # "detail" /\ row.op # "board" /\ row.table \in TableIds
    <3>1. row.op = was.op /\ row.table = was.table
        BY <1>6, <2>2
    <3> QED
        BY <1>2, <1>3, <2>1, <3>1
  <2> QED
      BY <1>1, <1>5, <1>6, <1>7, <1>8, <1>9, <2>1, <2>2, OtherCallStep
<1> QED
    BY <1>1, <1>7, <1>10 DEF ScreenIInv, ScreenTypeOK

LEMMA ReadBoardStep ==
    ASSUME ScreenIInv, NEW c \in Calls, ReadBoard(c)
    PROVE  ScreenIInv'
<1>1. /\ call[c] # null /\ call[c].op = "board" /\ call[c].at = "sent"
      /\ call' = [call EXCEPT ![c].at = "ok", ![c].rows = seated]
      /\ UNCHANGED <<seated, recorded, board, view, selected, bill, modals, voiding, action,
                     handed, failures, excused>>
    BY DEF ReadBoard, Out, serverVars, boardVars, dialogVars, countVars
<1>2. PICK was : was = call[c]
    OBVIOUS
<1>3. was \in CallRow /\ was.heard
    BY <1>1, <1>2, CallIsRow DEF ScreenIInv, CallsKnow
<1>4. PICK row : row = [was EXCEPT !.at = "ok", !.rows = seated]
    OBVIOUS
<1>5. call' = [call EXCEPT ![c] = row]
    BY <1>1, <1>2, <1>4 DEF ScreenIInv, ScreenTypeOK
<1>6. /\ row \in CallRow /\ row # null /\ row.op = "board" /\ row.heard
      /\ row.after = was.after
  <2>1. seated \subseteq TableIds
      BY DEF ScreenIInv, ScreenTypeOK
  <2>2. row \in CallRow /\ row.op = was.op /\ row.heard = was.heard /\ row.after = was.after
      BY <1>3, <1>4, <2>1 DEF CallRow
  <2> QED
      BY <1>1, <1>2, <1>3, <2>2, NullIsNoCall
<1>7. recorded \in Nat /\ recorded' \in Nat /\ failures' = failures + 0
    BY <1>1 DEF ScreenIInv, ScreenTypeOK
<1>8. WeightsAllow(call[c], row, 0)
  <2>1. Submitting' = Submitting /\ Submitting \in {0, 1}
      BY <1>1 DEF Submitting
  <2>2. /\ RecordWeight(was) = 0 /\ RecordWeight(row) = 0
        /\ AwaitWeight(row) = 0 /\ AwaitWeight(was) = 0
        /\ FreeWeight(row) = FreeWeight(was)
      BY <1>1, <1>2, <1>6 DEF RecordWeight, AwaitWeight, FreeWeight
  <2>3. FreeWeight(was) \in Nat
      BY WeightsAreNumbers
  <2> QED
      BY <1>1, <1>2, <1>7, <2>1, <2>2, <2>3 DEF WeightsAllow
<1>9. /\ call' \in [Calls -> CallRow \cup {null}]
      /\ CallsKnow' /\ PressesAreCounted' /\ LoadsAreExcused' /\ BillIsOfSelected'
    BY <1>1, <1>5, <1>6, <1>7, <1>8, OtherCallStep
<1> QED
    BY <1>1, <1>9 DEF ScreenIInv, ScreenTypeOK

\* A command is answered: the call goes on as the load of the board at its end.
AnswerFrees(c) ==
    /\ call[c] # null /\ call[c].heard /\ call[c].at = "ok" /\ call[c].op \in Commands
    /\ call' = [call EXCEPT ![c] = [LoadBoard EXCEPT !.after = TRUE]]
    /\ modals' \subseteq modals
    /\ call[c].op = "pay" => "pay" \notin modals'
    /\ view' = "loading"
    /\ bill' \in [of : TableIds, figures : TableIds] \cup {null}
    /\ voiding' \in TableIds \cup {null}
    /\ UNCHANGED <<seated, recorded, board, selected, action, handed, failures, excused>>

LEMMA CommandAnswered ==
    ASSUME ScreenIInv, NEW c \in Calls, AnswerFrees(c)
    PROVE  ScreenIInv'
<1>1. PICK row : row = [LoadBoard EXCEPT !.after = TRUE]
    OBVIOUS
<1>2. /\ row \in CallRow /\ row # null /\ row.op = "board" /\ row.heard /\ row.after
  <2>1. row \in CallRow /\ row.op = "board" /\ row.heard /\ row.after
      BY <1>1 DEF LoadBoard, Fetch, CallRow
  <2> QED
      BY <2>1, NullIsNoCall
<1>3. call' = [call EXCEPT ![c] = row]
    BY <1>1 DEF AnswerFrees
<1>4. PICK was : was = call[c]
    OBVIOUS
<1>5. was # null /\ was.heard /\ was.at = "ok" /\ was.op \in {"pay", "void", "close"}
    BY <1>4 DEF AnswerFrees, Commands
<1>6. /\ modals' \subseteq modals /\ (was.op = "pay" => "pay" \notin modals')
      /\ UNCHANGED <<seated, recorded, board, selected, action, handed, failures, excused>>
    BY <1>4 DEF AnswerFrees
<1>7. recorded \in Nat /\ recorded' \in Nat /\ failures' = failures + 0
    BY <1>6 DEF ScreenIInv, ScreenTypeOK
<1>8. WeightsAllow(call[c], row, 0)
  <2>1. Submitting' = Submitting /\ Submitting \in {0, 1}
      BY <1>6 DEF Submitting
  <2>2. RecordWeight(row) = 0 /\ AwaitWeight(row) = 0 /\ FreeWeight(row) = 1
      BY <1>2, CallWeights
  <2>3. RecordWeight(was) = 0
      BY <1>5, CallWeights
  <2>4. \/ AwaitWeight(was) = 1 /\ FreeWeight(was) = 0 /\ "pay" \notin modals'
        \/ AwaitWeight(was) = 0 /\ FreeWeight(was) = 1
      BY <1>5, <1>6, CallWeights
  <2> QED
      BY <1>4, <1>6, <1>7, <2>1, <2>2, <2>3, <2>4 DEF WeightsAllow
<1>9. /\ call' \in [Calls -> CallRow \cup {null}]
      /\ CallsKnow' /\ PressesAreCounted' /\ LoadsAreExcused' /\ BillIsOfSelected'
  <2>1. call[c].op # "detail"
      BY <1>4, <1>5
  <2> QED
      BY <1>2, <1>3, <1>6, <1>7, <1>8, <2>1, OtherCallStep DEF AnswerFrees
<1>10. ScreenTypeOK'
    BY <1>9 DEF AnswerFrees, ScreenIInv, ScreenTypeOK
<1> QED
    BY <1>9, <1>10 DEF ScreenIInv

LEMMA AnsweredSteps ==
    ASSUME ScreenIInv, NEW c \in Calls, PayAnswered(c) \/ VoidAnswered(c) \/ CloseAnswered(c)
    PROVE  ScreenIInv'
<1>1. ASSUME NEW t \in TableIds
      PROVE  Counting(t) \in [of : TableIds, figures : TableIds] \cup {null}
    BY DEF Counting, ScreenIInv, ScreenTypeOK
<1>2. call[c] # null /\ call[c].op \in Commands /\ call[c].heard /\ call[c].at = "ok"
    BY DEF PayAnswered, VoidAnswered, CloseAnswered, Heard, Out, Commands
<1>3. call[c].table \in TableIds
    BY <1>2 DEF ScreenIInv, CallsKnow, Commands
<1>4. ScreenTypeOK
    BY DEF ScreenIInv
<1>5. CASE PayAnswered(c)
    BY <1>1, <1>2, <1>3, <1>4, <1>5, CommandAnswered
       DEF PayAnswered, AnswerFrees, Done, ScreenTypeOK, serverVars, countVars
<1>6. CASE VoidAnswered(c)
  <2>1. call[c].op = "void"
      BY <1>6 DEF VoidAnswered, Heard, Out
  <2> QED
      BY <1>1, <1>2, <1>3, <1>4, <1>6, <2>1, CommandAnswered
         DEF VoidAnswered, AnswerFrees, Done, ScreenTypeOK, serverVars, countVars
<1>7. CASE CloseAnswered(c)
  <2>1. call[c].op = "close"
      BY <1>7 DEF CloseAnswered, Heard, Out
  <2> QED
      BY <1>2, <1>4, <1>7, <2>1, CommandAnswered
         DEF CloseAnswered, AnswerFrees, Done, ScreenTypeOK, serverVars, countVars
<1> QED
    BY <1>5, <1>6, <1>7

LEMMA RefusedStep ==
    ASSUME ScreenIInv, NEW c \in Calls, Refused(c)
    PROVE  ScreenIInv'
<1>1. PICK was : was = call[c]
    OBVIOUS
<1>2. /\ was # null /\ was.op \in {"pay", "void", "close"} /\ was.at = "sent"
      /\ action' = IF was.heard THEN "error" ELSE action
      /\ call' = [call EXCEPT ![c] = null]
      /\ UNCHANGED <<seated, recorded, board, view, selected, bill, modals, voiding, handed,
                     failures, excused>>
    BY <1>1 DEF Refused, Without, Commands, serverVars, boardVars, dialogVars, countVars
<1>3. was.heard \in BOOLEAN
    BY <1>1, <1>2, CallIsRow DEF ScreenIInv, CallRow
<1>4. recorded \in Nat /\ recorded' \in Nat /\ failures' = failures + 0
    BY <1>2 DEF ScreenIInv, ScreenTypeOK
<1>5. WeightsAllow(call[c], null, 0)
  <2>1. Submitting \in {0, 1}
      BY DEF Submitting
  <2>2. RecordWeight(was) \in Nat /\ AwaitWeight(was) \in Nat /\ FreeWeight(was) \in Nat
      BY WeightsAreNumbers
  <2>3. CASE was.heard
    <3>1. Submitting' = 0
        BY <1>2, <2>3 DEF Submitting
    <3>2. \/ RecordWeight(was) = 1 /\ AwaitWeight(was) = 1 /\ FreeWeight(was) = 0
          \/ RecordWeight(was) = 0 /\ AwaitWeight(was) = 0 /\ FreeWeight(was) = 1
        BY <1>2, <2>3, CallWeights
    <3> QED
        BY <1>1, <1>2, <1>4, <2>1, <3>1, <3>2, NullWeighsNothing DEF WeightsAllow
  <2>4. CASE ~ was.heard
    <3>1. Submitting' = Submitting
        BY <1>2, <2>4 DEF Submitting
    <3>2. AwaitWeight(was) = 0 /\ FreeWeight(was) = 0
        BY <1>2, <2>4, CallWeights
    <3> QED
        BY <1>1, <1>2, <1>4, <2>1, <2>2, <3>1, <3>2, NullWeighsNothing DEF WeightsAllow
  <2> QED
      BY <2>3, <2>4
<1>6. /\ call' \in [Calls -> CallRow \cup {null}]
      /\ CallsKnow' /\ PressesAreCounted' /\ LoadsAreExcused' /\ BillIsOfSelected'
  <2>1. call[c].op # "detail" /\ call[c].op # "board"
      BY <1>1, <1>2
  <2> QED
      BY <1>2, <1>4, <1>5, <2>1, OtherCallStep
<1> QED
    BY <1>2, <1>3, <1>6 DEF ScreenIInv, ScreenTypeOK

\* A failure pays for the command that goes on unseen.
LEMMA LoseStep ==
    ASSUME ScreenIInv, NEW c \in Calls, Lose(c)
    PROVE  ScreenIInv'
<1>1. PICK was : was = call[c]
    OBVIOUS
<1>2. PICK row : row = IF was.at = "sent" THEN [was EXCEPT !.heard = FALSE] ELSE null
    OBVIOUS
<1>3. /\ was # null /\ was.op \in {"pay", "void", "close"} /\ was.heard
      /\ call' = [call EXCEPT ![c] = row]
      /\ action' = "error" /\ failures' = failures + 1
      /\ UNCHANGED <<seated, recorded, board, view, selected, bill, modals, voiding, handed,
                     excused>>
    BY <1>1, <1>2 DEF Lose, Without, Commands, serverVars, boardVars, dialogVars
<1>4. was \in CallRow /\ was.table \in TableIds
    BY <1>1, <1>3, CallIsRow DEF ScreenIInv, CallsKnow
<1>5. /\ row \in CallRow \cup {null}
      /\ row # null => /\ was.at = "sent" /\ row.at = "sent" /\ row.op = was.op
                       /\ row.table = was.table /\ ~ row.heard
      /\ row = null => was.at # "sent"
  <2>1. CASE was.at = "sent"
    <3>1. /\ row \in CallRow /\ row.at = was.at /\ row.op = was.op
          /\ row.table = was.table /\ ~ row.heard
        BY <1>2, <1>4, <2>1 DEF CallRow
    <3> QED
        BY <2>1, <3>1, NullIsNoCall
  <2>2. CASE was.at # "sent"
      BY <1>2, <2>2
  <2> QED
      BY <2>1, <2>2
<1>6. recorded \in Nat /\ recorded' \in Nat /\ failures' = failures + 1
    BY <1>3 DEF ScreenIInv, ScreenTypeOK
<1>7. WeightsAllow(call[c], row, 1)
  <2>1. Submitting \in {0, 1} /\ Submitting' = 0
      BY <1>3 DEF Submitting
  <2>2. /\ RecordWeight(row) = RecordWeight(was)
        /\ AwaitWeight(row) = 0 /\ FreeWeight(row) = 0
    <3>1. CASE row = null
        BY <1>3, <1>5, <3>1, CallWeights, NullWeighsNothing
    <3>2. CASE row # null
      <4>1. /\ was.at = "sent" /\ row.at = "sent" /\ row.op = was.op /\ ~ row.heard
          BY <1>5, <3>2
      <4> QED
          BY <1>3, <3>2, <4>1, CallWeights
    <3> QED
        BY <3>1, <3>2
  <2>3. \/ AwaitWeight(was) = 1 /\ FreeWeight(was) = 0
        \/ AwaitWeight(was) = 0 /\ FreeWeight(was) = 1
      BY <1>3, CallWeights
  <2>4. RecordWeight(was) \in Nat
      BY WeightsAreNumbers
  <2> QED
      BY <1>1, <1>3, <1>6, <2>1, <2>2, <2>3, <2>4 DEF WeightsAllow
<1>8. /\ call' \in [Calls -> CallRow \cup {null}]
      /\ CallsKnow' /\ PressesAreCounted' /\ LoadsAreExcused' /\ BillIsOfSelected'
  <2>1. call[c].op # "detail" /\ call[c].op # "board"
      BY <1>1, <1>3
  <2>2. ASSUME row # null
        PROVE  row.op # "detail" /\ row.op # "board" /\ row.table \in TableIds
    <3>1. row.op = was.op /\ row.table = was.table
        BY <1>5, <2>2
    <3> QED
        BY <1>3, <1>4, <3>1
  <2> QED
      BY <1>3, <1>5, <1>6, <1>7, <2>1, <2>2, OtherCallStep
<1> QED
    BY <1>3, <1>6, <1>8 DEF ScreenIInv, ScreenTypeOK

\* A board frees the buttons if it ends a command.
LEMMA BoardWeights ==
    ASSUME ScreenIInv, NEW c \in Calls, Out(c, "board"),
           action' = IF call[c].after THEN "idle" ELSE action,
           recorded' = recorded, modals' = modals
    PROVE  WeightsAllow(call[c], null, 0)
<1>1. PICK was : was = call[c]
    OBVIOUS
<1>2. was # null /\ was.op = "board" /\ was.after \in BOOLEAN
    BY <1>1, CallIsRow DEF Out, ScreenIInv, CallRow
<1>3. recorded \in Nat /\ Submitting \in {0, 1}
    BY DEF ScreenIInv, ScreenTypeOK, Submitting
<1>4. RecordWeight(was) = 0 /\ AwaitWeight(was) = 0
    BY <1>2, CallWeights
<1>5. CASE was.after
  <2>1. Submitting' = 0 /\ FreeWeight(was) = 1
      BY <1>1, <1>2, <1>5, CallWeights DEF Submitting
  <2> QED
      BY <1>1, <1>3, <1>4, <2>1, NullWeighsNothing DEF WeightsAllow
<1>6. CASE ~ was.after
  <2>1. Submitting' = Submitting /\ FreeWeight(was) = 0
      BY <1>1, <1>2, <1>6, CallWeights DEF Submitting
  <2> QED
      BY <1>1, <1>3, <1>4, <2>1, NullWeighsNothing DEF WeightsAllow
<1> QED
    BY <1>2, <1>5, <1>6

LEMMA BoardArrivesStep ==
    ASSUME ScreenIInv, NEW c \in Calls, BoardArrives(c)
    PROVE  ScreenIInv'
<1>1. PICK calls : calls = [call EXCEPT ![c] = null]
    OBVIOUS
<1>2. PICK t : t = IF selected = null THEN CHOOSE u \in TableIds : TRUE ELSE selected
    OBVIOUS
<1>3. PICK rows : rows = call[c].rows
    OBVIOUS
<1>4. /\ Out(c, "board")
      /\ board' = rows /\ view' = "ready" /\ selected' = t
      /\ ShowDetail(t, rows, calls)
      /\ action' = IF call[c].after THEN "idle" ELSE action
      /\ UNCHANGED <<seated, recorded, modals, voiding, handed, failures>>
    BY <1>1, <1>2, <1>3 DEF BoardArrives, Without, serverVars, dialogVars, countVars
<1>5. t \in TableIds /\ rows \subseteq TableIds
  <2>1. t \in TableIds
      BY <1>2, NullIsNoCall DEF ScreenIInv, ScreenTypeOK
  <2>2. call[c] \in CallRow
      BY <1>4, CallIsRow DEF Out, ScreenIInv
  <2> QED
      BY <1>3, <2>1, <2>2 DEF CallRow
<1>6. /\ calls \in [Calls -> CallRow \cup {null}]
      /\ calls[c] = null /\ \A d \in Calls \ {c} : calls[d] = call[d]
    BY <1>1 DEF ScreenIInv, ScreenTypeOK
<1>7. /\ call' \in [Calls -> CallRow \cup {null}]
      /\ bill' = bill \/ bill' = null
      /\ excused' \in BOOLEAN
      /\ SameCounts(calls, call')
      /\ CallsKnow' /\ LoadsAreExcused' /\ BillIsOfSelected'
  <2>1. Unused(calls) # {}
      BY <1>6 DEF Unused
  <2>2. \A d \in Calls : Out(d, "detail") => calls[d] = call[d]
      BY <1>4, <1>6 DEF Out
  <2> QED
      BY <1>4, <1>5, <1>6, <2>1, <2>2, EffectShowsSelected DEF ScreenIInv
<1>8. ScreenTypeOK'
    BY <1>4, <1>5, <1>7 DEF ScreenIInv, ScreenTypeOK
<1>9. PressesAreCounted'
  <2>1. PICK was : was = call[c]
      OBVIOUS
  <2>2. WeightsAllow(call[c], null, 0)
      BY <1>4, BoardWeights
  <2>3. WeightsAllow(was, null, 0)
      BY <2>1, <2>2 DEF WeightsAllow
  <2>4. recorded' \in Nat /\ failures' = failures + 0
      BY <1>4 DEF ScreenIInv, ScreenTypeOK
  <2>5. ScreenTypeOK /\ PressesAreCounted
      BY DEF ScreenIInv
  <2> QED
      BY <1>1, <1>4, <1>7, <2>1, <2>3, <2>4, <2>5, OneCallCounts
<1> QED
    BY <1>7, <1>8, <1>9 DEF ScreenIInv

LEMMA BoardFailsStep ==
    ASSUME ScreenIInv, NEW c \in Calls, BoardFails(c)
    PROVE  ScreenIInv'
<1>1. /\ Out(c, "board") /\ view' = "error" /\ excused'
      /\ action' = IF call[c].after THEN "idle" ELSE action
      /\ call' = [call EXCEPT ![c] = null]
      /\ UNCHANGED <<seated, recorded, board, selected, bill, modals, voiding, handed, failures>>
      /\ excused' \in BOOLEAN
    BY DEF BoardFails, Without, serverVars, dialogVars, countVars
<1>2. WeightsAllow(call[c], null, 0)
    BY <1>1, BoardWeights
<1>3. recorded' \in Nat /\ failures' = failures + 0
    BY <1>1 DEF ScreenIInv, ScreenTypeOK
<1>4. /\ call' \in [Calls -> CallRow \cup {null}]
      /\ call'[c] = null /\ \A d \in Calls \ {c} : call'[d] = call[d]
      /\ PressesAreCounted'
    BY <1>1, <1>2, <1>3, CallStep DEF ScreenIInv
<1>5. CallsKnow'
    BY <1>4 DEF ScreenIInv, CallsKnow
<1>6. LoadsAreExcused' /\ BillIsOfSelected'
    BY <1>1 DEF LoadsAreExcused, BillIsOfSelected
<1>7. ScreenTypeOK'
    BY <1>1, <1>4 DEF ScreenIInv, ScreenTypeOK
<1> QED
    BY <1>4, <1>5, <1>6, <1>7 DEF ScreenIInv

\* The last detail is that of the selected table, unless a load is excused.
LEMMA DetailArrivesStep ==
    ASSUME ScreenIInv, NEW c \in Calls, DetailArrives(c)
    PROVE  ScreenIInv'
<1>1. PICK was : was = call[c]
    OBVIOUS
<1>2. /\ was # null /\ was.op = "detail"
      /\ bill' = [of |-> was.table, figures |-> was.table]
      /\ call' = [call EXCEPT ![c] = null]
      /\ excused' = (excused /\ ~ (/\ was.table = selected
                                   /\ \A d \in Calls \ {c} : ~ Out(d, "detail")))
      /\ UNCHANGED <<seated, recorded, board, view, selected, modals, voiding, action, handed,
                     failures>>
    BY <1>1 DEF DetailArrives, Without, Out, serverVars, boardVars, dialogVars, countVars
<1>3. was.table \in TableIds
    BY <1>1, <1>2 DEF ScreenIInv, CallsKnow
<1>4. recorded \in Nat /\ recorded' \in Nat /\ failures' = failures + 0
    BY <1>2 DEF ScreenIInv, ScreenTypeOK
<1>5. WeightsAllow(call[c], null, 0)
  <2>1. Submitting' = Submitting /\ Submitting \in {0, 1}
      BY <1>2 DEF Submitting
  <2>2. RecordWeight(was) = 0 /\ AwaitWeight(was) = 0 /\ FreeWeight(was) = 0
      BY <1>2, CallWeights
  <2> QED
      BY <1>1, <1>2, <1>4, <2>1, <2>2, NullWeighsNothing DEF WeightsAllow
<1>6. /\ call' \in [Calls -> CallRow \cup {null}]
      /\ call'[c] = null /\ \A d \in Calls \ {c} : call'[d] = call[d]
      /\ PressesAreCounted'
    BY <1>2, <1>4, <1>5, CallStep DEF ScreenIInv
<1>7. CallsKnow'
    BY <1>6 DEF ScreenIInv, CallsKnow
<1>8. /\ ~ excused' => \A d \in Calls \ {c} : ~ Out(d, "detail")
      /\ ~ excused' => was.table = selected \/ selected \notin board
  <2>1. CASE excused
      BY <1>2, <2>1
  <2>2. CASE ~ excused
    <3>1. Out(c, "detail")
        BY <1>1, <1>2 DEF Out
    <3>2. /\ \A d \in Calls : Out(d, "detail") => c = d
          /\ was.table = selected \/ selected \notin board
        BY <1>1, <2>2, <3>1 DEF ScreenIInv, LoadsAreExcused, Occupied
    <3> QED
        BY <3>2
  <2> QED
      BY <2>1, <2>2
<1>9. ~ excused' => \A d \in Calls : ~ (call'[d] # null /\ call'[d].op = "detail")
    BY <1>6, <1>8 DEF Out
<1>10. LoadsAreExcused'
    BY <1>9 DEF LoadsAreExcused, Out
<1>11. BillIsOfSelected'
    BY <1>2, <1>8 DEF BillIsOfSelected, Drawn, Occupied
<1>12. ScreenTypeOK'
  <2>1. bill' \in [of : TableIds, figures : TableIds]
      BY <1>2, <1>3
  <2>2. excused' \in BOOLEAN
      BY <1>2 DEF ScreenIInv, ScreenTypeOK
  <2> QED
      BY <1>2, <1>6, <2>1, <2>2 DEF ScreenIInv, ScreenTypeOK
<1> QED
    BY <1>6, <1>7, <1>10, <1>11, <1>12 DEF ScreenIInv

\* A detail that fails frees the buttons, and is a failure if a command had them.
LEMMA DetailFailsStep ==
    ASSUME ScreenIInv, NEW c \in Calls, DetailFails(c)
    PROVE  ScreenIInv'
<1>1. PICK k : k = IF action = "submitting" THEN 1 ELSE 0
    OBVIOUS
<1>2. PICK was : was = call[c]
    OBVIOUS
<1>3. recorded \in Nat /\ failures \in Nat
    BY DEF ScreenIInv, ScreenTypeOK
<1>4. /\ was # null /\ was.op = "detail"
      /\ failures' = failures + k /\ k \in {0, 1}
      /\ action' = "error" /\ excused' /\ excused' \in BOOLEAN
      /\ call' = [call EXCEPT ![c] = null]
      /\ UNCHANGED <<seated, recorded, board, view, selected, bill, modals, voiding, handed>>
    BY <1>1, <1>2, <1>3 DEF DetailFails, Without, Out, serverVars, boardVars, dialogVars
<1>5. WeightsAllow(call[c], null, k)
  <2>1. Submitting' = 0 /\ Submitting = k
      BY <1>1, <1>4 DEF Submitting
  <2>2. RecordWeight(was) = 0 /\ AwaitWeight(was) = 0 /\ FreeWeight(was) = 0
      BY <1>4, CallWeights
  <2> QED
      BY <1>2, <1>3, <1>4, <2>1, <2>2, NullWeighsNothing DEF WeightsAllow
<1>6. /\ call' \in [Calls -> CallRow \cup {null}]
      /\ call'[c] = null /\ \A d \in Calls \ {c} : call'[d] = call[d]
      /\ PressesAreCounted'
    BY <1>3, <1>4, <1>5, CallStep DEF ScreenIInv
<1>7. CallsKnow'
    BY <1>6 DEF ScreenIInv, CallsKnow
<1>8. LoadsAreExcused' /\ BillIsOfSelected'
    BY <1>4 DEF LoadsAreExcused, BillIsOfSelected
<1>9. ScreenTypeOK'
    BY <1>3, <1>4, <1>6 DEF ScreenIInv, ScreenTypeOK
<1> QED
    BY <1>6, <1>7, <1>8, <1>9 DEF ScreenIInv

-----------------------------------------------------------------------------
LEMMA ScreenStarts ==
    ASSUME ScreenInit
    PROVE  ScreenIInv
<1>1. PICK none : none = [c \in Calls |-> null]
    OBVIOUS
<1>2. /\ LoadBoard \in CallRow /\ LoadBoard # null /\ LoadBoard.op = "board"
      /\ LoadBoard.heard /\ ~ LoadBoard.after
    BY FetchIsACall DEF LoadBoard, Commands
<1>3. PICK c \in Calls : call = [none EXCEPT ![c] = LoadBoard]
  <2>1. none \in [Calls -> CallRow \cup {null}] /\ Unused(none) # {}
      BY <1>1, NullIsNoCall DEF Unused
  <2> QED
      BY <1>1, <1>2, <2>1, WithTakesASlot DEF ScreenInit
<1>4. /\ call \in [Calls -> CallRow \cup {null}]
      /\ \A d \in Calls : call[d] = null \/ call[d] = LoadBoard
    BY <1>1, <1>2, <1>3
<1>5. ToRecord(call) = {} /\ Awaited(call) = {} /\ Freeing(call) = {}
    BY <1>2, <1>4 DEF ToRecord, Awaited, Freeing
<1>6. PressesAreCounted
  <2>1. Submitting = 0 /\ recorded = 0 /\ handed = 0 /\ failures = 0 /\ modals = {}
      BY DEF ScreenInit, Submitting
  <2>2. Cardinality(ToRecord(call)) = 0 /\ Cardinality(Awaited(call)) = 0
        /\ Cardinality(Freeing(call)) = 0
      BY <1>5, FS_EmptySet
  <2> QED
      BY <2>1, <2>2 DEF PressesAreCounted
<1>7. CallsKnow /\ LoadsAreExcused /\ BillIsOfSelected
    BY <1>2, <1>4 DEF CallsKnow, LoadsAreExcused, BillIsOfSelected, Drawn, Out, ScreenInit
<1>8. ScreenTypeOK
    BY <1>4 DEF ScreenTypeOK, ScreenInit
<1> QED
    BY <1>6, <1>7, <1>8 DEF ScreenIInv

LEMMA ScreenSteps ==
    ASSUME ScreenIInv, ScreenNext
    PROVE  ScreenIInv'
BY ClickSteps, ServeStep, ReadBoardStep, AnsweredSteps, RefusedStep, LoseStep, BoardArrivesStep,
   BoardFailsStep, DetailArrivesStep, DetailFailsStep
   DEF ScreenNext, AtServer, Returns, Fails

\* A step in which nothing happens.
LEMMA ScreenStutters ==
    ASSUME ScreenIInv, UNCHANGED screenVars
    PROVE  ScreenIInv'
BY DEF screenVars, ScreenIInv, ScreenTypeOK, CallsKnow, PressesAreCounted, Submitting,
       LoadsAreExcused, BillIsOfSelected, Out, Drawn, Occupied

\* The inductive invariant of the cashier's screen.
THEOREM ScreenSpecIInv == ScreenSpec => []ScreenIInv
<1>1. ScreenInit => ScreenIInv
    BY ScreenStarts
<1>2. ScreenIInv /\ [ScreenNext]_screenVars => ScreenIInv'
    BY ScreenSteps, ScreenStutters
<1> QED
    BY <1>1, <1>2, PTL DEF ScreenSpec

\* Every state of CashierSignedInScreen holds what its useState was declared for.
THEOREM ScreenTypeCorrect == ScreenSpec => []ScreenTypeOK
<1>1. ScreenIInv => ScreenTypeOK
    BY DEF ScreenIInv
<1> QED
    BY <1>1, ScreenSpecIInv, PTL

\* However many calls are out, and whichever fail, recordPayment records each
\* payment that is handed over once, and once more for each failure at most.
THEOREM FailuresBoundPayments == ScreenSpec => []PaidWithinFailures
<1>1. ScreenIInv => PaidWithinFailures
  <2> SUFFICES ASSUME ScreenIInv
               PROVE  PaidWithinFailures
      OBVIOUS
  <2>1. recorded + Cardinality(ToRecord(call)) <= handed * (1 + failures)
      BY DEF ScreenIInv, PressesAreCounted
  <2>2. recorded \in Nat /\ handed \in Nat /\ failures \in Nat
      BY DEF ScreenIInv, ScreenTypeOK
  <2>3. handed * (1 + failures) \in Nat
      BY <2>2
  <2> QED
      BY <2>1, <2>2, <2>3, CountsAreNumbers DEF PaidWithinFailures
<1> QED
    BY <1>1, ScreenSpecIInv, PTL

\* However selections, refreshes and commands interleave with the loads, the bill
\* that stays is that of the selected table.
THEOREM SelectedBillStays == ScreenSpec => []BillIsOfSelected
<1>1. ScreenIInv => BillIsOfSelected
    BY DEF ScreenIInv
<1> QED
    BY <1>1, ScreenSpecIInv, PTL

=============================================================================
