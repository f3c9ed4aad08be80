---------------------------- MODULE AccessProofs ----------------------------
(***************************************************************************)
(* Proofs about Access, for any number of people, roles, challenges,       *)
(* sessions and requests. No statement locks a row, so what a request has  *)
(* read may be old when it writes; the proofs rest on what cannot change   *)
(* meanwhile (Lasts), and for the administrators on what a removal leaves  *)
(* of them: a row that is not active.                                      *)
(***************************************************************************)
EXTENDS Access, FiniteSetTheorems, TLAPS

IInv == TypeOK /\ RequestsKnow /\ RacesCounted

Workers == Administrators \cup Logins

-----------------------------------------------------------------------------
\* A request that has not begun relies on nothing.
LEMMA NoWorkKnows ==
    /\ NoWork \in WorkRow /\ Knows(NoWork) /\ KnowsAdmin(NoWork)
    /\ NoWork.pc = "idle"
BY DEF NoWork, WorkRow, Knows, KnowsAdmin, Entering, Choosing, Completing

\* Rows are not NULL.
LEMMA RowsAreNotNull ==
    /\ \A row \in UserRow : row # NULL
    /\ \A row \in ChallengeRow : row # NULL
    /\ \A row \in SessionRow : row # NULL
BY AccessAssumption

LEMMA InitIInv == Init => IInv
<1> SUFFICES ASSUME Init PROVE IInv
    OBVIOUS
<1> DEFINE founder == Invited({ADMIN})
<1>1. /\ founder \in UserRow /\ Agree(founder) /\ founder # NULL
      /\ founder.roles = {ADMIN}
  <2>1. founder \in UserRow /\ Agree(founder)
      BY AccessAssumption DEF Invited, UserRow, Agree
  <2> QED
      BY <2>1, RowsAreNotNull DEF Invited
<1>2. \A u \in Users : user[u] = IF u = Founder THEN founder ELSE NULL
    BY DEF Init
<1> HIDE DEF founder
<1>3. user \in [Users -> UserRow \cup {NULL}]
    BY <1>1, <1>2 DEF Init
<1>4. TypeOK
  <2>1. challenge \in [Challenges -> ChallengeRow \cup {NULL}] /\ session \in [Sessions -> SessionRow \cup {NULL}]
      BY DEF Init
  <2>2. /\ attempts \in [Challenges -> 0 .. MaxAttempts] /\ setups \in [Users -> Nat]
        /\ factor \subseteq Users /\ token \subseteq Token
      BY AccessAssumption DEF Init
  <2>3. work \in [Administrators \cup Logins -> WorkRow]
      BY NoWorkKnows DEF Init
  <2>4. \A u \in Users : user[u] # NULL => Agree(user[u])
      BY <1>1, <1>2
  <2> QED
      BY <1>3, <2>1, <2>2, <2>3, <2>4 DEF TypeOK
<1>5. RequestsKnow
    BY <1>1, <1>2, NoWorkKnows, AccessAssumption DEF Init, RequestsKnow
<1>6. RacesCounted
  <2> SUFFICES ASSUME NEW u \in Users PROVE setups[u] + Cardinality(Flying(u)) <= Cardinality(Logins)
      BY DEF RacesCounted, Init
  <2>1. Flying(u) = {}
      BY NoWorkKnows DEF Init, Flying, Completing
  <2>2. Cardinality(Flying(u)) = 0 /\ Cardinality(Logins) \in Nat
      BY <2>1, FS_EmptySet, FS_CardinalityType, AccessAssumption
  <2> QED
      BY <2>2 DEF Init
<1> QED
    BY <1>4, <1>5, <1>6 DEF IInv

-----------------------------------------------------------------------------
(***************************************************************************)
(* What every step keeps: users and challenges stay, who is active keeps   *)
(* the same roles, and a flag that has fallen stays down.                  *)
(***************************************************************************)
Lasts ==
    /\ \A u \in Users : user[u] # NULL =>
          /\ user'[u] # NULL
          /\ user'[u].active => user[u].active /\ user'[u].roles = user[u].roles
          /\ ~ user[u].required => ~ user'[u].required
    /\ \A c \in Challenges : challenge[c] # NULL => challenge'[c] # NULL

\* What a request knows outlasts the steps of others.
LEMMA KnowledgeLasts ==
    ASSUME Lasts, NEW row, Knows(row)
    PROVE  Knows(row)'
<1>1. row.pc \in Entering =>
          /\ row.user \in Users /\ user'[row.user] # NULL
          /\ row.role # NULL
          /\ user'[row.user].active => row.role \in user'[row.user].roles
    BY DEF Lasts, Knows
<1>2. /\ row.pc = "password" /\ ~ row.required => ~ user'[row.user].required
      /\ row.pc = "enroll" => ~ user'[row.user].required
  <2>1. row.pc \in {"password", "enroll"} => row.user \in Users /\ user[row.user] # NULL
      BY DEF Knows, Entering
  <2> QED
      BY <2>1 DEF Lasts, Knows
<1> QED
    BY <1>1, <1>2 DEF Lasts, Knows

\* A step that neither begins a completion nor ends one that has been counted
\* leaves the count of the races as it is.
LEMMA RacesStay ==
    ASSUME IInv, Lasts, setups' = setups,
           \A l \in Logins : work'[l].pc \in Completing =>
               work[l].pc \in Completing /\ work'[l].user = work[l].user
    PROVE  RacesCounted'
<1> SUFFICES ASSUME NEW u \in Users
             PROVE  /\ setups[u] # 0 => user'[u] # NULL /\ ~ user'[u].required
                    /\ setups[u] + Cardinality(Flying(u)') <= Cardinality(Logins)
    BY DEF RacesCounted
<1>1. Flying(u)' \subseteq Flying(u) /\ Flying(u) \subseteq Logins
    BY DEF Flying
<1>2. /\ IsFiniteSet(Flying(u)) /\ IsFiniteSet(Flying(u)')
      /\ Cardinality(Flying(u)') <= Cardinality(Flying(u))
    BY <1>1, FS_Subset, AccessAssumption
<1>3. Cardinality(Flying(u)) \in Nat /\ Cardinality(Flying(u)') \in Nat /\ Cardinality(Logins) \in Nat
    BY <1>2, FS_CardinalityType, AccessAssumption
<1>4. setups[u] \in Nat /\ setups[u] + Cardinality(Flying(u)) <= Cardinality(Logins)
    BY DEF IInv, TypeOK, RacesCounted
<1>5. setups[u] # 0 => user'[u] # NULL /\ ~ user'[u].required
    BY DEF IInv, RacesCounted, Lasts
<1>6. setups[u] + Cardinality(Flying(u)') <= Cardinality(Logins)
    BY <1>2, <1>3, <1>4
<1> QED
    BY <1>5, <1>6

\* A step that ends a request, or touches none.
LEMMA RequestsStay ==
    ASSUME RequestsKnow, Lasts,
           \A q \in Workers : work'[q] \in {work[q], NoWork},
           \A u \in Users : user'[u] # NULL /\ OWNER \in user'[u].roles => ~ user'[u].required,
           \A s \in Sessions : session'[s] # NULL => user'[session'[s].user] # NULL
    PROVE  RequestsKnow'
<1>1. ASSUME NEW q \in Workers, NEW row, row = work[q], work'[q] = row PROVE Knows(row)'
    BY <1>1, KnowledgeLasts DEF RequestsKnow, Workers
<1>2. Knows(NoWork)'
    BY NoWorkKnows DEF Knows, Entering, Choosing, Completing
<1>3. ASSUME NEW q \in Workers PROVE Knows(work[q])'
  <2>1. work'[q] = work[q] \/ work'[q] = NoWork
      OBVIOUS
  <2> QED
      BY <1>1, <1>2, <2>1
<1> QED
    BY <1>3 DEF RequestsKnow, Workers

LEMMA WriteIInv ==
    ASSUME IInv, TypeOK', Lasts, setups' = setups,
           \A q \in Workers : work'[q] \in {work[q], NoWork},
           \A u \in Users : user'[u] # NULL /\ OWNER \in user'[u].roles => ~ user'[u].required,
           \A s \in Sessions : session'[s] # NULL => user'[session'[s].user] # NULL
    PROVE  IInv'
<1>1. RequestsKnow'
    BY RequestsStay DEF IInv
<1>2. \A l \in Logins : work'[l].pc \in Completing =>
          work[l].pc \in Completing /\ work'[l].user = work[l].user
    BY NoWorkKnows DEF Workers, Completing
<1> QED
    BY <1>1, <1>2, RacesStay DEF IInv

-----------------------------------------------------------------------------
\* A request goes on after a SELECT, and relies on what it has read.
LEMMA GoKnows ==
    ASSUME IInv, NEW r \in Workers, NEW row \in WorkRow, Knows(row), Go(r, row)
    PROVE  TypeOK' /\ RequestsKnow' /\ Lasts
<1>1. /\ work' = [work EXCEPT ![r] = row]
      /\ user' = user /\ setups' = setups /\ factor' = factor /\ token' = token
      /\ challenge' = challenge /\ attempts' = attempts /\ session' = session
    BY DEF Go, Continue, accessRows
<1>2. work \in [Workers -> WorkRow]
    BY DEF IInv, TypeOK, Workers
<1>3. TypeOK'
    BY <1>1, <1>2 DEF IInv, TypeOK, Workers
<1>4. ASSUME NEW q \in Workers PROVE Knows(work'[q])
    BY <1>1, <1>2 DEF IInv, RequestsKnow, Workers
<1>5. RequestsKnow'
    BY <1>1, <1>4 DEF IInv, RequestsKnow, Knows, Workers
<1> QED
    BY <1>1, <1>3, <1>5 DEF Lasts

LEMMA GoIInv ==
    ASSUME IInv, NEW r \in Workers, NEW row \in WorkRow, Knows(row), Go(r, row),
           row.pc \in Completing => work[r].pc \in Completing /\ row.user = work[r].user
    PROVE  IInv'
<1>1. TypeOK' /\ RequestsKnow' /\ Lasts
    BY GoKnows
<1>2. work' = [work EXCEPT ![r] = row] /\ setups' = setups /\ work \in [Workers -> WorkRow]
    BY DEF Go, Continue, accessRows, IInv, TypeOK, Workers
<1>3. \A l \in Logins : work'[l].pc \in Completing =>
          work[l].pc \in Completing /\ work'[l].user = work[l].user
    BY <1>2 DEF Workers
<1> QED
    BY <1>1, <1>2, <1>3, RacesStay DEF IInv

-----------------------------------------------------------------------------
\* The steps that only read, but for the one that begins a completion.
LEMMA ReadIInv ==
    ASSUME IInv, NEW r \in Workers,
           \/ \E s \in Sessions : Authorize(r, s)
           \/ LoadRoles(r)
           \/ \E u \in Users : LoadProfile(r, u)
           \/ CountAdmins(r)
           \/ \E u \in Users, role \in Roles \cup {OWNER} : BeginLogin(r, u, role)
           \/ \E t \in token : BeginSetup(r, t)
           \/ FindChallenge(r) \/ ReadChallenge(r) \/ CountAttempts(r)
           \/ BeginOwner(r)
           \/ \E u \in Users : BeginEnroll(r, u)
           \/ Fail(r)
    PROVE  IInv'
<1> DEFINE old == work[r]
<1>1. old \in WorkRow /\ Knows(old)
    BY DEF IInv, TypeOK, RequestsKnow, Workers
<1>2. \A row \in WorkRow :
          /\ Knows(row) /\ Go(r, row)
          /\ row.pc \in Completing => old.pc \in Completing /\ row.user = old.user
          => IInv'
    BY GoIInv
<1> DEFINE Begun(row) == row \in WorkRow /\ row.pc \notin Completing /\ Knows(row) /\ Go(r, row)
<1>3. (\E row : Begun(row)) => IInv'
    BY <1>2
<1>4. ASSUME NEW s \in Sessions, Authorize(r, s) PROVE IInv'
  <2> DEFINE row == [NoWork EXCEPT !.pc = "load_roles", !.actor = session[s].user]
  <2>1. session[s].user \in Users /\ user[session[s].user] # NULL /\ Go(r, row)
      BY <1>4 DEF Authorize, IInv, TypeOK, SessionRow, RequestsKnow
  <2>2. row \in WorkRow /\ row.pc = "load_roles" /\ row.actor = session[s].user
      BY <2>1 DEF NoWork, WorkRow
  <2> HIDE DEF row, Begun
  <2>3. Begun(row)
      BY <2>1, <2>2 DEF Begun, Knows, Entering, Choosing, Completing
  <2> QED
      BY <1>3, <2>3
<1>5. ASSUME LoadRoles(r) PROVE IInv'
  <2> DEFINE row == [work[r] EXCEPT !.pc = "authorized"]
  <2>1. row \in WorkRow /\ row.pc = "authorized" /\ Go(r, row)
      BY <1>1, <1>5 DEF LoadRoles, WorkRow
  <2> HIDE DEF row, Begun
  <2>2. Begun(row)
      BY <2>1 DEF Begun, Knows, Entering, Choosing, Completing
  <2> QED
      BY <1>3, <2>2
<1>6. ASSUME NEW u \in Users, LoadProfile(r, u) PROVE IInv'
  <2> DEFINE row == [work[r] EXCEPT !.user = u,
                        !.pc = IF ADMIN \in user[u].roles THEN "count_admins" ELSE "disable"]
  <2>1. /\ row \in WorkRow /\ row.pc \in {"count_admins", "disable"} /\ row.user = u
        /\ user[u] # NULL /\ Go(r, row)
      BY <1>1, <1>6 DEF LoadProfile, WorkRow
  <2> HIDE DEF row, Begun
  <2>2. Begun(row)
      BY <2>1 DEF Begun, Knows, Entering, Choosing, Completing
  <2> QED
      BY <1>3, <2>2
<1>7. ASSUME CountAdmins(r) PROVE IInv'
  <2> DEFINE row == [work[r] EXCEPT !.pc = "disable"]
  <2>1. /\ row \in WorkRow /\ row.pc = "disable" /\ row.user = work[r].user /\ Go(r, row)
        /\ work[r].pc = "count_admins"
      BY <1>1, <1>7 DEF CountAdmins, WorkRow
  <2>2. work[r].user \in Users /\ user[work[r].user] # NULL
      BY <1>1, <2>1 DEF Knows
  <2> HIDE DEF row, Begun
  <2>3. Begun(row)
      BY <2>1, <2>2 DEF Begun, Knows, Entering, Choosing, Completing
  <2> QED
      BY <1>3, <2>3
<1>8. ASSUME NEW u \in Users, NEW role \in Roles \cup {OWNER}, BeginLogin(r, u, role) PROVE IInv'
  <2> DEFINE row == [NoWork EXCEPT !.pc = "password", !.user = u, !.role = role,
                        !.required = user[u].required]
  <2>1. user[u] # NULL /\ user[u] \in UserRow /\ role \in user[u].roles /\ Go(r, row)
      BY <1>8 DEF BeginLogin, Holds, IInv, TypeOK
  <2>2. user[u].required => role # OWNER
      BY <2>1 DEF IInv, RequestsKnow
  <2>3. /\ row \in WorkRow /\ row.pc = "password" /\ row.user = u /\ row.role = role
        /\ row.required = user[u].required /\ role # NULL
      BY <2>1, AccessAssumption DEF NoWork, WorkRow, UserRow
  <2> HIDE DEF row, Begun
  <2>4. Begun(row)
      BY <2>1, <2>2, <2>3 DEF Begun, Knows, Entering, Choosing, Completing
  <2> QED
      BY <1>3, <2>4
<1>9. ASSUME NEW t \in token, BeginSetup(r, t) PROVE IInv'
  <2> DEFINE row == [NoWork EXCEPT !.pc = "find_challenge", !.user = t.user, !.role = t.role]
  <2>1. /\ t.user \in Users /\ t.role \in Roles /\ t.role # NULL /\ t.role # OWNER
        /\ user[t.user] # NULL /\ t.role \in user[t.user].roles /\ Go(r, row)
      BY <1>9, AccessAssumption DEF BeginSetup, Awaited, Holds, IInv, TypeOK, Token
  <2>2. row \in WorkRow /\ row.pc = "find_challenge" /\ row.user = t.user /\ row.role = t.role
      BY <2>1 DEF NoWork, WorkRow
  <2> HIDE DEF row, Begun
  <2>3. Begun(row)
      BY <2>1, <2>2 DEF Begun, Knows, Entering, Choosing, Completing
  <2> QED
      BY <1>3, <2>3
<1>10. ASSUME FindChallenge(r) PROVE IInv'
  <2> DEFINE row == [work[r] EXCEPT !.pc = "send"]
  <2>1. /\ row \in WorkRow /\ row.pc = "send"
        /\ row.user = work[r].user /\ row.role = work[r].role
        /\ work[r].pc = "find_challenge" /\ (Go(r, NoWork) \/ Go(r, row))
      BY <1>1, <1>10 DEF FindChallenge, WorkRow
  <2> HIDE DEF row
  <2>2. Knows(row)
      BY <1>1, <2>1 DEF Knows, Entering, Choosing, Completing
  <2>3. row.pc \notin Completing /\ NoWork.pc \notin Completing
      BY <2>1, NoWorkKnows DEF Completing
  <2> QED
      BY <1>2, <2>1, <2>2, <2>3, NoWorkKnows
<1>11. ASSUME ReadChallenge(r) PROVE IInv'
  <2> DEFINE row == [work[r] EXCEPT !.pc = IF challenge[work[r].challenge].verified
                                           THEN "settle" ELSE "count_attempts"]
  <2>1. /\ row \in WorkRow /\ row.pc \in {"settle", "count_attempts"}
        /\ row.user = work[r].user /\ row.role = work[r].role
        /\ row.challenge = work[r].challenge /\ row.seen = work[r].seen
        /\ work[r].pc = "read_challenge" /\ Go(r, row)
      BY <1>1, <1>11 DEF ReadChallenge, WorkRow
  <2>2. work[r].seen # NULL => work[r].seen < MaxAttempts
      BY <1>1, <2>1 DEF Knows, Completing
  <2> HIDE DEF row
  <2>3. Knows(row)
      BY <1>1, <2>1, <2>2 DEF Knows, Entering, Choosing, Completing
  <2> QED
      BY <1>2, <2>1, <2>3 DEF Completing
<1>12. ASSUME CountAttempts(r) PROVE IInv'
  <2> DEFINE row == [work[r] EXCEPT !.pc = "settle", !.seen = attempts[work[r].challenge]]
  <2>1. /\ work[r].pc = "count_attempts" /\ Go(r, row)
        /\ work[r].challenge \in Challenges
        /\ attempts[work[r].challenge] < MaxAttempts
      BY <1>1, <1>12 DEF CountAttempts, Knows, Completing
  <2>2. attempts[work[r].challenge] \in Nat
      BY <2>1, AccessAssumption DEF IInv, TypeOK
  <2>3. /\ row \in WorkRow /\ row.pc = "settle" /\ row.seen = attempts[work[r].challenge]
        /\ row.user = work[r].user /\ row.role = work[r].role
        /\ row.challenge = work[r].challenge
      BY <1>1, <2>2 DEF WorkRow
  <2> HIDE DEF row
  <2>4. Knows(row)
      BY <1>1, <2>1, <2>3 DEF Knows, Entering, Choosing, Completing
  <2> QED
      BY <1>2, <2>1, <2>3, <2>4 DEF Completing
<1>13. ASSUME BeginOwner(r) PROVE IInv'
  <2> DEFINE row == [NoWork EXCEPT !.pc = "own"]
  <2>1. row \in WorkRow /\ row.pc = "own" /\ Go(r, row)
      BY <1>13 DEF BeginOwner, NoWork, WorkRow
  <2> HIDE DEF row, Begun
  <2>2. Begun(row)
      BY <2>1 DEF Begun, Knows, Entering, Choosing, Completing
  <2> QED
      BY <1>3, <2>2
<1>14. ASSUME NEW u \in Users, BeginEnroll(r, u) PROVE IInv'
  <2> DEFINE row == [NoWork EXCEPT !.pc = "enroll", !.user = u, !.role = OWNER]
  <2>1. /\ user[u] # NULL /\ OWNER \in user[u].roles /\ OWNER # NULL /\ ~ user[u].required
        /\ Go(r, row)
      BY <1>14, AccessAssumption DEF BeginEnroll, Holds, IInv, RequestsKnow
  <2>2. row \in WorkRow /\ row.pc = "enroll" /\ row.user = u /\ row.role = OWNER
      BY DEF NoWork, WorkRow
  <2> HIDE DEF row, Begun
  <2>3. Begun(row)
      BY <2>1, <2>2 DEF Begun, Knows, Entering, Choosing, Completing
  <2> QED
      BY <1>3, <2>3
<1>15. ASSUME Fail(r) PROVE IInv'
    BY <1>15, <1>2, NoWorkKnows DEF Fail, Completing
<1> QED
    BY <1>4, <1>5, <1>6, <1>7, <1>8, <1>9, <1>10, <1>11, <1>12, <1>13, <1>14, <1>15

\* A completion begins only for a user whose flag has not fallen, so who has
\* no password of their own yet: the races for it are the requests at most.
LEMMA BeginRaceIInv ==
    ASSUME IInv, NEW l \in Logins, NEW row \in WorkRow, Knows(row), Go(l, row),
           NEW w \in Users, row.user = w, user[w] # NULL, user[w].required
    PROVE  IInv'
<1>4. TypeOK' /\ RequestsKnow' /\ Lasts
    BY GoKnows DEF Workers
<1>5. /\ work' = [work EXCEPT ![l] = row] /\ setups' = setups /\ user' = user
      /\ work \in [Workers -> WorkRow]
    BY DEF Go, Continue, accessRows, IInv, TypeOK, Workers
<1>6. RacesCounted'
  <2> SUFFICES ASSUME NEW u \in Users
               PROVE  setups[u] + Cardinality(Flying(u)') <= Cardinality(Logins)
      BY <1>5 DEF IInv, RacesCounted
  <2>1. IsFiniteSet(Logins) /\ Cardinality(Logins) \in Nat
      BY AccessAssumption, FS_CardinalityType
  <2>2. CASE u = w
    <3>1. setups[u] = 0
        BY <2>2 DEF IInv, RacesCounted
    <3>2. Flying(u)' \subseteq Logins
        BY DEF Flying
    <3>3. Cardinality(Flying(u)') <= Cardinality(Logins) /\ Cardinality(Flying(u)') \in Nat
        BY <2>1, <3>2, FS_Subset, FS_CardinalityType
    <3> QED
        BY <2>1, <3>1, <3>3
  <2>3. CASE u # w
    <3>1. Flying(u)' \subseteq Flying(u) /\ Flying(u) \subseteq Logins
        BY <1>5, <2>3 DEF Flying, Workers
    <3>2. IsFiniteSet(Flying(u)) /\ Cardinality(Flying(u)) \in Nat
        BY <2>1, <3>1, FS_Subset, FS_CardinalityType
    <3>3. Cardinality(Flying(u)') <= Cardinality(Flying(u)) /\ Cardinality(Flying(u)') \in Nat
        BY <3>1, <3>2, FS_Subset, FS_CardinalityType
    <3>4. setups[u] \in Nat /\ setups[u] + Cardinality(Flying(u)) <= Cardinality(Logins)
        BY DEF IInv, TypeOK, RacesCounted
    <3> QED
        BY <2>1, <3>2, <3>3, <3>4
  <2> QED
      BY <2>2, <2>3
<1> QED
    BY <1>4, <1>6 DEF IInv

LEMMA BeginCompleteIInv ==
    ASSUME IInv, NEW l \in Logins, NEW t \in token,
           BeginUncoded(l, t) \/ \E c \in Challenges : BeginComplete(l, t, c)
    PROVE  IInv'
<1>1. /\ t.user \in Users /\ t.role \in Roles /\ t.role # NULL /\ t.role # OWNER
      /\ user[t.user] # NULL /\ t.role \in user[t.user].roles /\ user[t.user].required
    BY AccessAssumption DEF BeginUncoded, BeginComplete, Awaited, Holds, IInv, TypeOK, Token
<1>2. CASE BeginUncoded(l, t)
  <2> DEFINE row == [NoWork EXCEPT !.pc = "settle", !.user = t.user, !.role = t.role]
  <2>1. /\ row \in WorkRow /\ row.pc = "settle" /\ row.user = t.user /\ row.role = t.role
        /\ row.seen = NULL /\ Go(l, row)
      BY <1>1, <1>2 DEF BeginUncoded, NoWork, WorkRow
  <2> HIDE DEF row
  <2>2. Knows(row)
      BY <1>1, <2>1 DEF Knows, Entering, Choosing, Completing
  <2> QED
      BY <1>1, <2>1, <2>2, BeginRaceIInv
<1>3. ASSUME NEW c \in Challenges, BeginComplete(l, t, c) PROVE IInv'
  <2> DEFINE row == [NoWork EXCEPT !.pc = "read_challenge", !.user = t.user, !.role = t.role,
                        !.challenge = c]
  <2>1. /\ row \in WorkRow /\ row.pc = "read_challenge" /\ row.user = t.user /\ row.role = t.role
        /\ row.challenge = c /\ row.seen = NULL /\ challenge[c] # NULL /\ Go(l, row)
      BY <1>1, <1>3 DEF BeginComplete, NoWork, WorkRow
  <2> HIDE DEF row
  <2>2. Knows(row)
      BY <1>1, <2>1 DEF Knows, Entering, Choosing, Completing
  <2> QED
      BY <1>1, <2>1, <2>2, BeginRaceIInv
<1> QED
    BY <1>2, <1>3

-----------------------------------------------------------------------------
LEMMA CreateStaffIInv ==
    ASSUME IInv, NEW r \in Administrators, NEW u \in Users, NEW roles \in SUBSET Roles,
           CreateStaff(r, u, roles)
    PROVE  IInv' /\ Lasts
<1>1. /\ user[u] = NULL /\ user' = [user EXCEPT ![u] = Invited(roles)]
      /\ work' = [work EXCEPT ![r] = NoWork] /\ setups' = setups /\ factor' = factor
      /\ token' = token /\ challenge' = challenge /\ attempts' = attempts /\ session' = session
    BY DEF CreateStaff, Continue
<1>2. /\ Invited(roles) \in UserRow /\ Agree(Invited(roles)) /\ Invited(roles) # NULL
      /\ OWNER \notin Invited(roles).roles
  <2>1. Invited(roles) \in UserRow
      BY DEF Invited, UserRow
  <2> QED
      BY <2>1, RowsAreNotNull, AccessAssumption DEF Invited, Agree
<1>3. user'[u] = Invited(roles) /\ \A v \in Users \ {u} : user'[v] = user[v]
    BY <1>1 DEF IInv, TypeOK
<1>4. TypeOK'
    BY <1>1, <1>2, <1>3, NoWorkKnows DEF IInv, TypeOK
<1>5. Lasts
    BY <1>1, <1>3 DEF Lasts
<1>6. \A v \in Users : user'[v] # NULL /\ OWNER \in user'[v].roles => ~ user'[v].required
    BY <1>2, <1>3 DEF IInv, RequestsKnow
<1>7. \A s \in Sessions : session'[s] # NULL => user'[session'[s].user] # NULL
    BY <1>1, <1>2, <1>3 DEF IInv, RequestsKnow, TypeOK, SessionRow
<1>8. \A q \in Workers : work'[q] \in {work[q], NoWork}
    BY <1>1 DEF IInv, TypeOK, Workers
<1> QED
    BY <1>1, <1>4, <1>5, <1>6, <1>7, <1>8, WriteIInv

LEMMA DisabledRow ==
    ASSUME NEW old \in UserRow
    PROVE  /\ [old EXCEPT !.active = FALSE, !.roles = {}] \in UserRow
           /\ ~ [old EXCEPT !.active = FALSE, !.roles = {}].active
           /\ [old EXCEPT !.active = FALSE, !.roles = {}].roles = {}
           /\ [old EXCEPT !.active = FALSE, !.roles = {}].required = old.required
           /\ [old EXCEPT !.active = FALSE, !.roles = {}].default = old.default
BY DEF UserRow

LEMMA DisableIInv ==
    ASSUME IInv, NEW r \in Administrators, Disable(r)
    PROVE  /\ IInv' /\ Lasts
           /\ work[r].user \in Users /\ user[work[r].user] # NULL
<1> DEFINE u == work[r].user
           row == user'[u]
<1>1. /\ u \in Users /\ user[u] # NULL /\ user[u] \in UserRow
      /\ user' = [user EXCEPT ![u].active = FALSE, ![u].roles = {}]
      /\ work' = [work EXCEPT ![r] = NoWork] /\ setups' = setups /\ factor' = factor
      /\ token' = token /\ challenge' = challenge /\ attempts' = attempts /\ session' = session
      /\ Agree(user[u])
    BY DEF Disable, Continue, IInv, RequestsKnow, Knows, TypeOK
<1>2. /\ row = [user[u] EXCEPT !.active = FALSE, !.roles = {}]
      /\ \A v \in Users \ {u} : user'[v] = user[v]
    BY <1>1 DEF IInv, TypeOK
<1>3. /\ row \in UserRow /\ ~ row.active /\ row.roles = {}
      /\ row.required = user[u].required /\ row.default = user[u].default
    BY <1>1, <1>2, DisabledRow
<1> HIDE DEF u, row
<1>4. row # NULL /\ Agree(row)
    BY <1>1, <1>3, RowsAreNotNull DEF Agree
<1>5. row = user'[u]
    BY DEF row
<1>6. TypeOK'
  <2>1. user' \in [Users -> UserRow \cup {NULL}]
      BY <1>1, <1>2, <1>3, <1>5 DEF IInv, TypeOK
  <2>2. \A v \in Users : user'[v] # NULL => Agree(user'[v])
      BY <1>2, <1>4, <1>5 DEF IInv, TypeOK
  <2> QED
      BY <1>1, <2>1, <2>2, NoWorkKnows DEF IInv, TypeOK
<1>7. Lasts
    BY <1>1, <1>2, <1>3, <1>4, <1>5 DEF Lasts
<1>8. \A v \in Users : user'[v] # NULL /\ OWNER \in user'[v].roles => ~ user'[v].required
    BY <1>2, <1>3, <1>5 DEF IInv, RequestsKnow
<1>9. \A s \in Sessions : session'[s] # NULL => user'[session'[s].user] # NULL
    BY <1>1, <1>2, <1>4, <1>5 DEF IInv, RequestsKnow, TypeOK, SessionRow
<1>10. \A q \in Workers : work'[q] \in {work[q], NoWork}
    BY <1>1 DEF IInv, TypeOK, Workers
<1>11. IInv' /\ Lasts
    BY <1>1, <1>6, <1>7, <1>8, <1>9, <1>10, WriteIInv
<1> QED
    BY <1>1, <1>11 DEF u

\* A login inserts a session for the user that it has read.
LEMMA EnterIInv ==
    ASSUME IInv, NEW l \in Logins, NEW s \in Sessions, Enter(l, s) \/ Enroll(l, s)
    PROVE  IInv' /\ Lasts
<1> DEFINE new == [user |-> work[l].user, role |-> work[l].role]
<1>1. /\ work[l].pc \in {"password", "enroll"} /\ session[s] = NULL
      /\ work' = [work EXCEPT ![l] = NoWork] /\ setups' = setups /\ user' = user
      /\ token' = token /\ challenge' = challenge /\ attempts' = attempts
      /\ factor' = factor \/ factor' = factor \cup {work[l].user}
    BY DEF Enter, Enroll, Continue
<1>2. /\ Knows(work[l]) /\ work[l] \in WorkRow
    BY DEF IInv, RequestsKnow, TypeOK
<1>3. /\ work[l].user \in Users /\ user[work[l].user] # NULL /\ work[l].role # NULL
    BY <1>1, <1>2 DEF Knows, Entering
<1>4. \E role \in Roles \cup {OWNER} :
          session' = [session EXCEPT ![s] = [user |-> work[l].user, role |-> role]]
  <2>1. work[l].role \in Roles \cup {OWNER}
      BY <1>2, <1>3 DEF WorkRow
  <2> QED
      BY <2>1 DEF Enter, Enroll
<1>5. TypeOK'
  <2>1. session' \in [Sessions -> SessionRow \cup {NULL}]
      BY <1>3, <1>4 DEF IInv, TypeOK, SessionRow
  <2>2. factor' \subseteq Users
      BY <1>1, <1>3 DEF IInv, TypeOK
  <2> QED
      BY <1>1, <2>1, <2>2, NoWorkKnows DEF IInv, TypeOK
<1>6. Lasts
    BY <1>1 DEF Lasts
<1>7. \A t \in Sessions : session'[t] # NULL => user'[session'[t].user] # NULL
    BY <1>1, <1>3, <1>4 DEF IInv, RequestsKnow, TypeOK
<1>8. \A q \in Workers : work'[q] \in {work[q], NoWork}
    BY <1>1 DEF IInv, TypeOK, Workers
<1>9. \A u \in Users : user'[u] # NULL /\ OWNER \in user'[u].roles => ~ user'[u].required
    BY <1>1 DEF IInv, RequestsKnow
<1> QED
    BY <1>1, <1>5, <1>6, <1>7, <1>8, <1>9, WriteIInv

LEMMA IssueTokenIInv ==
    ASSUME IInv, NEW l \in Logins, IssueToken(l)
    PROVE  IInv' /\ Lasts
<1>1. /\ work[l].pc = "password" /\ work[l].required
      /\ token' = token \cup {[user |-> work[l].user, role |-> work[l].role]}
      /\ work' = [work EXCEPT ![l] = NoWork] /\ setups' = setups /\ user' = user
      /\ factor' = factor /\ challenge' = challenge /\ attempts' = attempts /\ session' = session
    BY DEF IssueToken, Continue
<1>2. work[l].user \in Users /\ work[l].role \in Roles
    BY <1>1 DEF IInv, RequestsKnow, TypeOK, Knows, Entering, WorkRow
<1>3. TypeOK'
    BY <1>1, <1>2, NoWorkKnows DEF IInv, TypeOK, Token
<1>4. Lasts
    BY <1>1 DEF Lasts
<1>5. \A q \in Workers : work'[q] \in {work[q], NoWork}
    BY <1>1 DEF IInv, TypeOK, Workers
<1>6. /\ \A u \in Users : user'[u] # NULL /\ OWNER \in user'[u].roles => ~ user'[u].required
      /\ \A s \in Sessions : session'[s] # NULL => user'[session'[s].user] # NULL
    BY <1>1 DEF IInv, RequestsKnow
<1> QED
    BY <1>1, <1>3, <1>4, <1>5, <1>6, WriteIInv

LEMMA ChallengeIInv ==
    ASSUME IInv, NEW c \in Challenges,
           (\E l \in Logins : SendChallenge(l, c)) \/ ExpireChallenge(c)
    PROVE  IInv' /\ Lasts
<1>1. /\ setups' = setups /\ user' = user /\ factor' = factor /\ token' = token
      /\ attempts' = attempts /\ session' = session
      /\ work' = work \/ \E l \in Logins : work' = [work EXCEPT ![l] = NoWork]
    BY DEF SendChallenge, ExpireChallenge, Continue
<1>2. \E row \in ChallengeRow : challenge' = [challenge EXCEPT ![c] = row]
  <2>1. ASSUME NEW l \in Logins, SendChallenge(l, c)
        PROVE  \E row \in ChallengeRow : challenge' = [challenge EXCEPT ![c] = row]
    <3>1. work[l].user \in Users /\ work[l].role \in Roles
        BY <2>1 DEF SendChallenge, IInv, RequestsKnow, TypeOK, Knows, Entering, Choosing, WorkRow
    <3>2. [user |-> work[l].user, role |-> work[l].role, live |-> TRUE, verified |-> FALSE]
              \in ChallengeRow
        BY <3>1 DEF ChallengeRow
    <3> QED
        BY <2>1, <3>2 DEF SendChallenge
  <2>2. ASSUME ExpireChallenge(c)
        PROVE  \E row \in ChallengeRow : challenge' = [challenge EXCEPT ![c] = row]
    <3>1. challenge[c] \in ChallengeRow
        BY <2>2 DEF ExpireChallenge, IInv, TypeOK
    <3>2. [challenge[c] EXCEPT !.live = FALSE] \in ChallengeRow
        BY <3>1 DEF ChallengeRow
    <3>3. challenge' = [challenge EXCEPT ![c] = [challenge[c] EXCEPT !.live = FALSE]]
        BY <2>2 DEF ExpireChallenge
    <3> QED
        BY <3>2, <3>3
  <2> QED
      BY <2>1, <2>2
<1>3. TypeOK'
    BY <1>1, <1>2, NoWorkKnows DEF IInv, TypeOK
<1>4. Lasts
    BY <1>1, <1>2, RowsAreNotNull DEF Lasts, IInv, TypeOK
<1>5. \A q \in Workers : work'[q] \in {work[q], NoWork}
    BY <1>1 DEF IInv, TypeOK, Workers
<1>6. /\ \A u \in Users : user'[u] # NULL /\ OWNER \in user'[u].roles => ~ user'[u].required
      /\ \A s \in Sessions : session'[s] # NULL => user'[session'[s].user] # NULL
    BY <1>1 DEF IInv, RequestsKnow
<1> QED
    BY <1>1, <1>3, <1>4, <1>5, <1>6, WriteIInv

LEMMA CreateOwnerIInv ==
    ASSUME IInv, NEW l \in Logins, NEW u \in Users, CreateOwner(l, u)
    PROVE  IInv' /\ Lasts
<1> DEFINE row == [active |-> TRUE, roles |-> {OWNER}, required |-> FALSE, default |-> FALSE]
<1>1. /\ user[u] = NULL /\ user' = [user EXCEPT ![u] = row]
      /\ work' = [work EXCEPT ![l] = NoWork] /\ setups' = setups /\ factor' = factor
      /\ token' = token /\ challenge' = challenge /\ attempts' = attempts /\ session' = session
    BY DEF CreateOwner, Continue
<1>2. row \in UserRow /\ ~ row.required /\ Agree(row)
    BY DEF UserRow, Agree
<1> HIDE DEF row
<1>3. row # NULL /\ user'[u] = row /\ \A v \in Users \ {u} : user'[v] = user[v]
    BY <1>1, <1>2, RowsAreNotNull DEF IInv, TypeOK
<1>4. TypeOK'
    BY <1>1, <1>2, <1>3, NoWorkKnows DEF IInv, TypeOK
<1>5. Lasts
    BY <1>1, <1>3 DEF Lasts
<1>6. \A v \in Users : user'[v] # NULL /\ OWNER \in user'[v].roles => ~ user'[v].required
    BY <1>2, <1>3 DEF IInv, RequestsKnow
<1>7. \A s \in Sessions : session'[s] # NULL => user'[session'[s].user] # NULL
    BY <1>1, <1>3 DEF IInv, RequestsKnow, TypeOK, SessionRow
<1>8. \A q \in Workers : work'[q] \in {work[q], NoWork}
    BY <1>1 DEF IInv, TypeOK, Workers
<1> QED
    BY <1>1, <1>4, <1>5, <1>6, <1>7, <1>8, WriteIInv

LEMMA LeaveIInv ==
    ASSUME IInv, NEW s \in Sessions, Leave(s)
    PROVE  IInv' /\ Lasts
<1>1. /\ session' = [session EXCEPT ![s] = NULL] /\ work' = work /\ setups' = setups
      /\ user' = user /\ factor' = factor /\ token' = token
      /\ challenge' = challenge /\ attempts' = attempts
    BY DEF Leave
<1>2. TypeOK' /\ Lasts
    BY <1>1 DEF IInv, TypeOK, Lasts
<1>3. /\ \A u \in Users : user'[u] # NULL /\ OWNER \in user'[u].roles => ~ user'[u].required
      /\ \A t \in Sessions : session'[t] # NULL => user'[session'[t].user] # NULL
    BY <1>1 DEF IInv, RequestsKnow, TypeOK
<1> QED
    BY <1>1, <1>2, <1>3, WriteIInv

\* The row of the user that has chosen a password.
LEMMA SettledRow ==
    ASSUME NEW old \in UserRow
    PROVE  /\ [old EXCEPT !.required = FALSE, !.default = FALSE] \in UserRow
           /\ [old EXCEPT !.required = FALSE, !.default = FALSE].required = FALSE
           /\ [old EXCEPT !.required = FALSE, !.default = FALSE].default = FALSE
           /\ [old EXCEPT !.required = FALSE, !.default = FALSE].active = old.active
           /\ [old EXCEPT !.required = FALSE, !.default = FALSE].roles = old.roles
BY DEF UserRow

\* A completion leaves the requests in flight for the user as it counts itself.
LEMMA SettleIInv ==
    ASSUME IInv, NEW l \in Logins, NEW s \in Sessions, Settle(l, s)
    PROVE  IInv' /\ Lasts
<1> DEFINE u == work[l].user
           c == work[l].challenge
           row == [user[u] EXCEPT !.required = FALSE, !.default = FALSE]
<1>1. /\ Knows(work[l]) /\ work[l] \in WorkRow /\ work[l].pc = "settle"
      /\ session[s] = NULL /\ Verify(l)
      /\ user' = [user EXCEPT ![u].required = FALSE, ![u].default = FALSE]
      /\ setups' = [setups EXCEPT ![u] = @ + 1]
      /\ session' = [session EXCEPT ![s] = [user |-> work[l].user, role |-> work[l].role]]
      /\ work' = [work EXCEPT ![l] = NoWork]
      /\ factor' = factor /\ token' = token
    BY DEF Settle, Continue, IInv, RequestsKnow, TypeOK
<1>2. /\ u \in Users /\ user[u] # NULL /\ user[u] \in UserRow
      /\ work[l].role \in Roles \cup {OWNER}
      /\ work[l].seen # NULL =>
            /\ c \in Challenges /\ challenge[c] # NULL /\ challenge[c] \in ChallengeRow
            /\ work[l].seen < MaxAttempts
    BY <1>1 DEF Knows, Entering, Choosing, Completing, WorkRow, IInv, TypeOK
<1>3. /\ user'[u] = row /\ \A v \in Users \ {u} : user'[v] = user[v]
      /\ row \in UserRow /\ row.required = FALSE /\ row.default = FALSE
      /\ row.active = user[u].active /\ row.roles = user[u].roles
  <2>1. user'[u] = row /\ \A v \in Users \ {u} : user'[v] = user[v]
      BY <1>1, <1>2 DEF IInv, TypeOK
  <2> QED
      BY <1>2, <2>1, SettledRow
<1>4. /\ attempts' \in [Challenges -> 0 .. MaxAttempts]
      /\ challenge' \in [Challenges -> ChallengeRow \cup {NULL}]
      /\ \A d \in Challenges : challenge[d] # NULL => challenge'[d] # NULL
  <2>1. CASE work[l].seen = NULL
      BY <1>1, <2>1 DEF Verify, IInv, TypeOK
  <2>2. CASE work[l].seen # NULL
    <3>1. /\ attempts[c] < MaxAttempts /\ attempts' = [attempts EXCEPT ![c] = @ + 1]
          /\ challenge' = [challenge EXCEPT ![c] = [challenge[c] EXCEPT !.verified = TRUE]]
        BY <1>1, <1>2, <2>2 DEF Verify
    <3>2. [challenge[c] EXCEPT !.verified = TRUE] \in ChallengeRow
        BY <1>2, <2>2 DEF ChallengeRow
    <3>3. attempts' \in [Challenges -> 0 .. MaxAttempts]
        BY <1>2, <2>2, <3>1, AccessAssumption DEF IInv, TypeOK
    <3> QED
        BY <1>2, <2>2, <3>1, <3>2, <3>3, RowsAreNotNull DEF IInv, TypeOK
  <2> QED
      BY <2>1, <2>2
<1> HIDE DEF row, u, c
<1>5. row # NULL /\ Agree(row)
    BY <1>2, <1>3, RowsAreNotNull DEF Agree, IInv, TypeOK
<1>6. session'[s].user = u /\ session'[s] \in SessionRow
  <2>1. session'[s] = [user |-> u, role |-> work[l].role]
      BY <1>1 DEF IInv, TypeOK, u
  <2> QED
      BY <1>2, <2>1 DEF SessionRow
<1>7. TypeOK'
  <2>1. user' \in [Users -> UserRow \cup {NULL}]
      BY <1>1, <1>2, <1>3 DEF IInv, TypeOK
  <2>2. \A v \in Users : user'[v] # NULL => Agree(user'[v])
      BY <1>3, <1>5 DEF IInv, TypeOK
  <2>3. session' \in [Sessions -> SessionRow \cup {NULL}]
      BY <1>1, <1>6 DEF IInv, TypeOK
  <2>4. setups' \in [Users -> Nat]
      BY <1>1, <1>2 DEF IInv, TypeOK
  <2> QED
      BY <1>1, <1>4, <2>1, <2>2, <2>3, <2>4, NoWorkKnows DEF IInv, TypeOK
<1>8. Lasts
    BY <1>3, <1>4, <1>5 DEF Lasts
<1>9. \A v \in Users : user'[v] # NULL /\ OWNER \in user'[v].roles => ~ user'[v].required
    BY <1>3 DEF IInv, RequestsKnow
<1>10. \A t \in Sessions : session'[t] # NULL => user'[session'[t].user] # NULL
  <2>1. \A t \in Sessions \ {s} : session'[t] = session[t]
      BY <1>1 DEF IInv, TypeOK
  <2>2. \A t \in Sessions : session[t] # NULL =>
            session[t].user \in Users /\ user[session[t].user] # NULL
      BY DEF IInv, RequestsKnow, TypeOK, SessionRow
  <2>3. user'[u] # NULL
      BY <1>3, <1>5
  <2> QED
      BY <1>6, <1>8, <2>1, <2>2, <2>3 DEF Lasts
<1>11. \A q \in Workers : work'[q] \in {work[q], NoWork}
    BY <1>1 DEF IInv, TypeOK, Workers
<1>12. RequestsKnow'
    BY <1>8, <1>9, <1>10, <1>11, RequestsStay DEF IInv
<1>13. RacesCounted'
  <2> SUFFICES ASSUME NEW v \in Users
               PROVE  /\ setups'[v] # 0 => user'[v] # NULL /\ ~ user'[v].required
                      /\ setups'[v] + Cardinality(Flying(v)') <= Cardinality(Logins)
      BY DEF RacesCounted
  <2>1. IsFiniteSet(Logins) /\ Cardinality(Logins) \in Nat
      BY AccessAssumption, FS_CardinalityType
  <2>2. /\ setups[v] # 0 => user[v] # NULL /\ ~ user[v].required
        /\ setups[v] \in Nat /\ setups[v] + Cardinality(Flying(v)) <= Cardinality(Logins)
      BY DEF IInv, TypeOK, RacesCounted
  <2>3. Flying(v) \subseteq Logins
      BY DEF Flying
  <2>4. IsFiniteSet(Flying(v)) /\ Cardinality(Flying(v)) \in Nat
      BY <2>1, <2>3, FS_Subset, FS_CardinalityType
  <2>5. work[l].pc \in Completing /\ NoWork.pc \notin Completing
      BY <1>1, NoWorkKnows DEF Completing
  <2>6. /\ work'[l] = NoWork /\ \A k \in Logins \ {l} : work'[k] = work[k]
      BY <1>1 DEF IInv, TypeOK
  <2>7. CASE v = u
    <3>1. Flying(v)' = Flying(v) \ {l} /\ l \in Flying(v)
        BY <2>5, <2>6, <2>7 DEF Flying, u
    <3>2. Cardinality(Flying(v) \ {l}) = Cardinality(Flying(v)) - 1
        BY <2>4, <3>1, FS_RemoveElement
    <3>3. setups'[v] = setups[v] + 1
        BY <1>1, <2>7 DEF IInv, TypeOK
    <3>4. user'[v] # NULL /\ ~ user'[v].required
        BY <1>3, <1>5, <2>7
    <3>5. Cardinality(Flying(v)') = Cardinality(Flying(v)) - 1
        BY <3>1, <3>2
    <3>6. setups'[v] + Cardinality(Flying(v)') <= Cardinality(Logins)
        BY <2>1, <2>2, <2>4, <3>3, <3>5
    <3> QED
        BY <3>4, <3>6
  <2>8. CASE v # u
    <3>1. Flying(v)' = Flying(v)
        BY <2>5, <2>6, <2>8 DEF Flying, u
    <3>2. setups'[v] = setups[v] /\ user'[v] = user[v]
        BY <1>1, <1>3, <2>8 DEF IInv, TypeOK
    <3> QED
        BY <2>2, <3>1, <3>2
  <2> QED
      BY <2>7, <2>8
<1> QED
    BY <1>7, <1>8, <1>12, <1>13 DEF IInv

-----------------------------------------------------------------------------
LEMMA NextIInv == IInv /\ [Next]_accessVars => IInv'
<1> SUFFICES ASSUME IInv, [Next]_accessVars PROVE IInv'
    OBVIOUS
<1>1. ASSUME NEW r \in Administrators, StaffStep(r) PROVE IInv'
  <2>1. r \in Workers
      BY DEF Workers
  <2>2. CASE \/ \E s \in Sessions : Authorize(r, s)
             \/ LoadRoles(r)
             \/ \E u \in Users : LoadProfile(r, u)
             \/ CountAdmins(r)
      BY <2>1, <2>2, ReadIInv
  <2>3. CASE \E u \in Users, roles \in SUBSET Roles : CreateStaff(r, u, roles)
      BY <2>3, CreateStaffIInv
  <2>4. CASE Disable(r)
      BY <2>4, DisableIInv
  <2> QED
      BY <1>1, <2>2, <2>3, <2>4 DEF StaffStep
<1>2. ASSUME NEW l \in Logins, LoginStep(l) \/ SetupStep(l) \/ OwnerStep(l) PROVE IInv'
  <2>1. l \in Workers
      BY DEF Workers
  <2>2. CASE \/ \E u \in Users, role \in Roles \cup {OWNER} : BeginLogin(l, u, role)
             \/ \E t \in token : BeginSetup(l, t)
             \/ FindChallenge(l) \/ ReadChallenge(l) \/ CountAttempts(l)
             \/ BeginOwner(l)
             \/ \E u \in Users : BeginEnroll(l, u)
      BY <2>1, <2>2, ReadIInv
  <2>3. CASE \E s \in Sessions : Enter(l, s) \/ Enroll(l, s)
      BY <2>3, EnterIInv
  <2>4. CASE IssueToken(l)
      BY <2>4, IssueTokenIInv
  <2>5. CASE \E c \in Challenges : SendChallenge(l, c)
      BY <2>5, ChallengeIInv
  <2>6. CASE \E t \in token : BeginUncoded(l, t) \/ \E c \in Challenges : BeginComplete(l, t, c)
      BY <2>6, BeginCompleteIInv
  <2>7. CASE \E s \in Sessions : Settle(l, s)
      BY <2>7, SettleIInv
  <2>8. CASE \E u \in Users : CreateOwner(l, u)
      BY <2>8, CreateOwnerIInv
  <2> QED
      BY <1>2, <2>2, <2>3, <2>4, <2>5, <2>6, <2>7, <2>8 DEF LoginStep, SetupStep, OwnerStep
<1>3. CASE \E s \in Sessions : Leave(s)
    BY <1>3, LeaveIInv
<1>4. CASE \E c \in Challenges : ExpireChallenge(c)
    BY <1>4, ChallengeIInv
<1>5. CASE \E r \in Administrators \cup Logins : Fail(r)
    BY <1>5, ReadIInv DEF Workers
<1>6. CASE UNCHANGED accessVars
    BY <1>6 DEF accessVars, IInv, TypeOK, RequestsKnow, RacesCounted, Knows, Flying
<1> QED
    BY <1>1, <1>2, <1>3, <1>4, <1>5, <1>6 DEF Next

THEOREM SpecIInv == Spec => []IInv
BY InitIInv, NextIInv, PTL DEF Spec

(***************************************************************************)
(* Every row is of its table at all times, and the flag of the first       *)
(* password agrees with the credential although no request locks either.   *)
(***************************************************************************)
THEOREM TypeCorrect == Spec => []TypeOK
<1>1. IInv => TypeOK
    BY DEF IInv
<1> QED
    BY <1>1, SpecIInv, PTL

(***************************************************************************)
(* A user chooses a first password at most as often as requests are in     *)
(* flight: who completes after another has, began before.                  *)
(***************************************************************************)
THEOREM SetupsStayWithinRaces == Spec => []SetupsWithinRaces
<1>1. ASSUME IInv, NEW u \in Users PROVE setups[u] <= Cardinality(Logins)
  <2>1. Flying(u) \subseteq Logins
      BY DEF Flying
  <2>2. Cardinality(Flying(u)) \in Nat /\ Cardinality(Logins) \in Nat
      BY <2>1, AccessAssumption, FS_Subset, FS_CardinalityType
  <2>3. setups[u] \in Nat /\ setups[u] + Cardinality(Flying(u)) <= Cardinality(Logins)
      BY <1>1 DEF IInv, TypeOK, RacesCounted
  <2> QED
      BY <2>2, <2>3
<1>2. IInv => SetupsWithinRaces
    BY <1>1 DEF SetupsWithinRaces
<1> QED
    BY <1>2, SpecIInv, PTL

-----------------------------------------------------------------------------
(***************************************************************************)
(* Nothing holds up the requests of administrators, so who let one through *)
(* may be removed before it writes. What it can rely on is that an active  *)
(* administrator stays one, since a role is only lost by being disabled;   *)
(* and only Disable takes it from anybody.                                 *)
(***************************************************************************)
LetThrough == {"authorized", "count_admins", "disable"}

\* A step of LastAdminFallsToARace.
RaceStep ==
    /\ \A u \in Users : ~ Holds(u, ADMIN) => Acting(u)' \subseteq Acting(u)
    /\ Admins # {} /\ Admins' = {} => \E u \in Users \ Admins : Acting(u)' # Acting(u)

Keeps ==
    \A u \in Users : user[u] # NULL =>
        user'[u] # NULL /\ user'[u].active = user[u].active /\ user'[u].roles = user[u].roles

LEMMA AdminsLast ==
    ASSUME Keeps \/ Lasts, AdminsKnow, \A q \in Administrators : work'[q] \in {work[q], NoWork}
    PROVE  AdminsKnow'
<1>1. ASSUME NEW row, KnowsAdmin(row) PROVE KnowsAdmin(row)'
    BY <1>1 DEF KnowsAdmin, Keeps, Lasts
<1>2. KnowsAdmin(NoWork)'
    BY NoWorkKnows DEF KnowsAdmin
<1>3. ASSUME NEW q \in Administrators PROVE KnowsAdmin(work[q])'
  <2>1. KnowsAdmin(work[q])
      BY DEF AdminsKnow
  <2>2. PICK row : row = work'[q] /\ (row = work[q] \/ row = NoWork)
      OBVIOUS
  <2>3. KnowsAdmin(row)'
      BY <1>1, <1>2, <2>1, <2>2
  <2> QED
      BY <2>2, <2>3 DEF KnowsAdmin
<1> QED
    BY <1>3 DEF AdminsKnow

\* Requests that end without being replaced let nobody new through.
LEMMA ActingShrinks ==
    ASSUME NEW u \in Users, \A q \in Administrators : work'[q] \in {work[q], NoWork}
    PROVE  Acting(u)' \subseteq Acting(u)
<1>1. NoWork.pc \notin LetThrough
    BY NoWorkKnows DEF LetThrough
<1> QED
    BY <1>1 DEF Acting, LetThrough

LEMMA KeepsAdmins ==
    ASSUME Keeps, AdminsKnow, \A q \in Administrators : work'[q] \in {work[q], NoWork}
    PROVE  AdminsKnow' /\ RaceStep
<1>1. \A u \in Users : Holds(u, ADMIN) => Holds(u, ADMIN)'
    BY DEF Keeps, Holds
<1>2. Admins # {} => Admins' # {}
    BY <1>1 DEF Admins
<1> QED
    BY <1>2, AdminsLast, ActingShrinks DEF RaceStep

LEMMA GoAdmins ==
    ASSUME IInv, AdminsKnow, NEW r \in Administrators, NEW row \in WorkRow,
           KnowsAdmin(row), Go(r, row),
           row.pc \in LetThrough => \/ work[r].pc \in LetThrough /\ row.actor = work[r].actor
                                    \/ Holds(row.actor, ADMIN)
    PROVE  AdminsKnow' /\ RaceStep
<1>1. work' = [work EXCEPT ![r] = row] /\ user' = user /\ work \in [Workers -> WorkRow]
    BY DEF Go, Continue, accessRows, IInv, TypeOK, Workers
<1>2. ASSUME NEW q \in Administrators PROVE KnowsAdmin(work'[q])
    BY <1>1 DEF AdminsKnow, Workers
<1>3. AdminsKnow'
    BY <1>1, <1>2 DEF AdminsKnow, KnowsAdmin
<1>4. Admins' = Admins
    BY <1>1 DEF Admins, Holds
<1>5. ASSUME NEW u \in Users, ~ Holds(u, ADMIN) PROVE Acting(u)' \subseteq Acting(u)
  <2>1. \A q \in Administrators : work'[q] = IF q = r THEN row ELSE work[q]
      BY <1>1 DEF Workers
  <2> QED
      BY <1>5, <2>1 DEF Acting, LetThrough
<1> QED
    BY <1>3, <1>4, <1>5 DEF RaceStep

\* Nobody loses a role by a step that is not under /tenant-setup/staff.
LEMMA OthersKeep ==
    ASSUME IInv,
           \/ \E l \in Logins : LoginStep(l) \/ SetupStep(l) \/ OwnerStep(l) \/ Fail(l)
           \/ \E s \in Sessions : Leave(s)
           \/ \E c \in Challenges : ExpireChallenge(c)
    PROVE  Keeps /\ \A q \in Administrators : work'[q] = work[q]
<1>1. user \in [Users -> UserRow \cup {NULL}] /\ work \in [Workers -> WorkRow]
    BY DEF IInv, TypeOK, Workers
<1>2. ASSUME NEW l \in Logins, NEW row, work' = [work EXCEPT ![l] = row]
      PROVE  \A q \in Administrators : work'[q] = work[q]
  <2>1. \A q \in Administrators : q # l /\ q \in Workers
      BY AccessAssumption DEF Workers
  <2> QED
      BY <1>1, <1>2, <2>1
<1>3. ASSUME user' = user PROVE Keeps
    BY <1>3 DEF Keeps
<1>4. ASSUME NEW l \in Logins, NEW row, Go(l, row)
      PROVE  Keeps /\ \A q \in Administrators : work'[q] = work[q]
    BY <1>2, <1>3, <1>4 DEF Go, Continue, accessRows
<1>5. ASSUME NEW l \in Logins, LoginStep(l)
      PROVE  Keeps /\ \A q \in Administrators : work'[q] = work[q]
  <2>1. CASE \E row : Go(l, row)
      BY <1>4, <2>1
  <2>2. CASE user' = user /\ work' = [work EXCEPT ![l] = NoWork]
      BY <1>2, <1>3, <2>2
  <2> QED
      BY <1>5, <2>1, <2>2 DEF LoginStep, BeginLogin, Enter, IssueToken, Continue
<1>6. ASSUME NEW l \in Logins, SetupStep(l)
      PROVE  Keeps /\ \A q \in Administrators : work'[q] = work[q]
  <2>1. CASE \E row : Go(l, row)
      BY <1>4, <2>1
  <2>2. CASE user' = user /\ work' = [work EXCEPT ![l] = NoWork]
      BY <1>2, <1>3, <2>2
  <2>3. CASE \E s \in Sessions : Settle(l, s)
    <3>1. /\ user' = [user EXCEPT ![work[l].user].required = FALSE, ![work[l].user].default = FALSE]
          /\ work' = [work EXCEPT ![l] = NoWork]
        BY <2>3 DEF Settle, Continue
    <3>2. \A u \in Users : user[u] # NULL => user[u] \in UserRow
        BY <1>1
    <3>3. \A u \in Users : user'[u] = user[u] \/ user'[u] = [user[u] EXCEPT !.required = FALSE, !.default = FALSE]
        BY <1>1, <3>1
    <3>4. Keeps
        BY <3>2, <3>3, SettledRow, RowsAreNotNull DEF Keeps
    <3> QED
        BY <1>2, <3>1, <3>4
  <2>4. CASE \E t \in token : BeginSetup(l, t)
      BY <2>1, <2>4 DEF BeginSetup
  <2>5. CASE \E t \in token : BeginUncoded(l, t) \/ \E c \in Challenges : BeginComplete(l, t, c)
      BY <2>1, <2>5 DEF BeginUncoded, BeginComplete
  <2>6. CASE FindChallenge(l) \/ ReadChallenge(l) \/ CountAttempts(l)
      BY <2>1, <2>6 DEF FindChallenge, ReadChallenge, CountAttempts
  <2>7. CASE \E c \in Challenges : SendChallenge(l, c)
      BY <2>2, <2>7 DEF SendChallenge, Continue
  <2> QED
      BY <1>6, <2>3, <2>4, <2>5, <2>6, <2>7 DEF SetupStep
<1>7. ASSUME NEW l \in Logins, OwnerStep(l)
      PROVE  Keeps /\ \A q \in Administrators : work'[q] = work[q]
  <2>1. CASE BeginOwner(l) \/ \E u \in Users : BeginEnroll(l, u)
      BY <1>4, <2>1 DEF BeginOwner, BeginEnroll
  <2>2. ASSUME NEW u \in Users, CreateOwner(l, u)
        PROVE  Keeps /\ \A q \in Administrators : work'[q] = work[q]
    <3>1. user[u] = NULL /\ \A v \in Users \ {u} : user'[v] = user[v]
        BY <1>1, <2>2 DEF CreateOwner
    <3>2. work' = [work EXCEPT ![l] = NoWork]
        BY <2>2 DEF CreateOwner, Continue
    <3> QED
        BY <1>2, <3>1, <3>2 DEF Keeps
  <2>3. CASE \E s \in Sessions : Enroll(l, s)
    <3>1. user' = user /\ work' = [work EXCEPT ![l] = NoWork]
        BY <2>3 DEF Enroll, Continue
    <3> QED
        BY <1>2, <1>3, <3>1
  <2> QED
      BY <1>7, <2>1, <2>2, <2>3 DEF OwnerStep
<1>8. ASSUME NEW l \in Logins, Fail(l)
      PROVE  Keeps /\ \A q \in Administrators : work'[q] = work[q]
    BY <1>4, <1>8 DEF Fail
<1>9. CASE (\E s \in Sessions : Leave(s)) \/ \E c \in Challenges : ExpireChallenge(c)
    BY <1>3, <1>9 DEF Leave, ExpireChallenge
<1> QED
    BY <1>5, <1>6, <1>7, <1>8, <1>9

\* What a request of an administrator does.
LEMMA StaffKeepsAdmins ==
    ASSUME IInv, AdminsKnow, NEW r \in Administrators, StaffStep(r) \/ Fail(r)
    PROVE  AdminsKnow' /\ RaceStep
<1>1. /\ work[r] \in WorkRow /\ Knows(work[r]) /\ KnowsAdmin(work[r])
      /\ user \in [Users -> UserRow \cup {NULL}] /\ work \in [Workers -> WorkRow]
    BY DEF IInv, TypeOK, RequestsKnow, AdminsKnow, Workers
<1>2. CASE \E s \in Sessions : Authorize(r, s)
  <2>1. PICK s \in Sessions : Authorize(r, s)
      BY <1>2
  <2> DEFINE row == [NoWork EXCEPT !.pc = "load_roles", !.actor = session[s].user]
  <2>2. session[s].user \in Users /\ Go(r, row)
      BY <2>1 DEF Authorize, IInv, TypeOK, SessionRow
  <2>3. row \in WorkRow /\ row.pc = "load_roles"
      BY <2>2 DEF NoWork, WorkRow
  <2> HIDE DEF row
  <2>4. KnowsAdmin(row)
      BY <2>3 DEF KnowsAdmin
  <2> QED
      BY <2>2, <2>3, <2>4, GoAdmins DEF LetThrough
<1>3. CASE LoadRoles(r)
  <2> DEFINE row == [work[r] EXCEPT !.pc = "authorized"]
  <2>1. /\ row \in WorkRow /\ row.pc = "authorized" /\ row.actor = work[r].actor /\ Go(r, row)
        /\ work[r].pc = "load_roles" /\ ADMIN \in user[work[r].actor].roles
      BY <1>1, <1>3 DEF LoadRoles, WorkRow
  <2>2. work[r].actor \in Users /\ user[work[r].actor] # NULL
      BY <1>1, <2>1 DEF Knows
  <2>3. Holds(work[r].actor, ADMIN)
    <3>1. Agree(user[work[r].actor])
        BY <2>2 DEF IInv, TypeOK
    <3> QED
        BY <2>1, <2>2, <3>1 DEF Agree, Holds
  <2> HIDE DEF row
  <2>4. KnowsAdmin(row)
      BY <2>1, <2>2, <2>3 DEF KnowsAdmin, Holds
  <2> QED
      BY <2>1, <2>3, <2>4, GoAdmins
<1>4. CASE \E u \in Users : LoadProfile(r, u)
  <2>1. PICK u \in Users : LoadProfile(r, u)
      BY <1>4
  <2> DEFINE row == [work[r] EXCEPT !.user = u,
                        !.pc = IF ADMIN \in user[u].roles THEN "count_admins" ELSE "disable"]
  <2>2. /\ row \in WorkRow /\ row.user = u /\ row.actor = work[r].actor /\ Go(r, row)
        /\ work[r].pc = "authorized" /\ u # work[r].actor
      BY <1>1, <2>1 DEF LoadProfile, WorkRow
  <2> HIDE DEF row
  <2>3. KnowsAdmin(row)
      BY <1>1, <2>2 DEF KnowsAdmin
  <2> QED
      BY <2>2, <2>3, GoAdmins DEF LetThrough
<1>5. CASE CountAdmins(r)
  <2> DEFINE row == [work[r] EXCEPT !.pc = "disable"]
  <2>1. /\ row \in WorkRow /\ row.user = work[r].user /\ row.actor = work[r].actor /\ Go(r, row)
        /\ work[r].pc = "count_admins"
      BY <1>1, <1>5 DEF CountAdmins, WorkRow
  <2> HIDE DEF row
  <2>2. KnowsAdmin(row)
      BY <1>1, <2>1 DEF KnowsAdmin
  <2> QED
      BY <2>1, <2>2, GoAdmins DEF LetThrough
<1>6. CASE \E u \in Users, roles \in SUBSET Roles : CreateStaff(r, u, roles)
  <2>1. PICK u \in Users, roles \in SUBSET Roles : CreateStaff(r, u, roles)
      BY <1>6
  <2>2. user[u] = NULL /\ \A v \in Users \ {u} : user'[v] = user[v]
      BY <1>1, <2>1 DEF CreateStaff
  <2>3. work' = [work EXCEPT ![r] = NoWork]
      BY <2>1 DEF CreateStaff, Continue
  <2>4. Keeps
      BY <2>2 DEF Keeps
  <2> QED
      BY <1>1, <2>3, <2>4, KeepsAdmins DEF Workers
<1>7. CASE Disable(r)
  <2>1. /\ work[r].pc = "disable" /\ work' = [work EXCEPT ![r] = NoWork]
        /\ \A v \in Users : v # work[r].user => user'[v] = user[v]
      BY <1>1, <1>7 DEF Disable, Continue
  <2>2. \A q \in Administrators : work'[q] \in {work[q], NoWork}
      BY <1>1, <2>1 DEF Workers
  <2>3. PICK a \in Users : a = work[r].actor /\ a # work[r].user
      BY <1>1, <2>1 DEF KnowsAdmin
  <2>4. ASSUME Admins' = {} PROVE a \in Users \ Admins /\ Acting(a)' # Acting(a)
    <3>1. ~ Holds(a, ADMIN)
        BY <2>1, <2>3, <2>4 DEF Admins, Holds
    <3>2. r \in Acting(a)
        BY <2>1, <2>3 DEF Acting
    <3>3. r \notin Acting(a)'
        BY <1>1, <2>1, NoWorkKnows DEF Acting, Workers
    <3> QED
        BY <3>1, <3>2, <3>3 DEF Admins
  <2>5. AdminsKnow'
      BY <1>7, <2>2, DisableIInv, AdminsLast
  <2> QED
      BY <2>2, <2>4, <2>5, ActingShrinks DEF RaceStep
<1>8. CASE Fail(r)
    BY <1>8, NoWorkKnows, GoAdmins DEF Fail, LetThrough
<1> QED
    BY <1>2, <1>3, <1>4, <1>5, <1>6, <1>7, <1>8 DEF StaffStep

LEMMA NextAdmins == IInv /\ AdminsKnow /\ [Next]_accessVars => AdminsKnow' /\ [RaceStep]_accessVars
<1> SUFFICES ASSUME IInv, AdminsKnow, [Next]_accessVars
             PROVE  AdminsKnow' /\ [RaceStep]_accessVars
    OBVIOUS
<1>1. CASE \E r \in Administrators : StaffStep(r) \/ Fail(r)
    BY <1>1, StaffKeepsAdmins
<1>2. CASE \/ \E l \in Logins : LoginStep(l) \/ SetupStep(l) \/ OwnerStep(l) \/ Fail(l)
           \/ \E s \in Sessions : Leave(s)
           \/ \E c \in Challenges : ExpireChallenge(c)
  <2>1. Keeps /\ \A q \in Administrators : work'[q] = work[q]
      BY <1>2, OthersKeep
  <2> QED
      BY <2>1, KeepsAdmins
<1>3. CASE UNCHANGED accessVars
  <2>1. Keeps /\ \A q \in Administrators : work'[q] = work[q]
      BY <1>3 DEF accessVars, Keeps
  <2> QED
      BY <2>1, KeepsAdmins
<1> QED
    BY <1>1, <1>2, <1>3 DEF Next

LEMMA InitAdmins == Init => AdminsKnow
BY NoWorkKnows DEF Init, AdminsKnow

(***************************************************************************)
(* Only a race leaves a tenant without an administrator: the last one is   *)
(* disabled by a request of somebody who was removed while it was under    *)
(* way, and who is removed is let through with nothing new. However many   *)
(* requests of administrators there are at once, see AdminRemains.         *)
(***************************************************************************)
THEOREM LastAdminFalls == Spec => LastAdminFallsToARace
<1>1. Init => AdminsKnow
    BY InitAdmins
<1>2. IInv /\ AdminsKnow /\ [Next]_accessVars => AdminsKnow' /\ [RaceStep]_accessVars
    BY NextAdmins
<1> QED
    BY <1>1, <1>2, SpecIInv, PTL DEF Spec, LastAdminFallsToARace, RaceStep

-----------------------------------------------------------------------------
\* What Membership sees of the users.
members == [u \in Users |-> Member(u)]

LEMMA MembersAre ==
    ASSUME TypeOK, NEW u \in Users
    PROVE  /\ members[u] = NULL <=> user[u] = NULL
           /\ user[u] # NULL =>
                 /\ members[u] = [active |-> user[u].active, settled |-> ~ user[u].required,
                                  roles |-> user[u].roles]
                 /\ members[u].active = user[u].active
                 /\ members[u].settled = ~ user[u].required
                 /\ members[u].roles = user[u].roles
<1>1. members[u] = Member(u)
    BY DEF members
<1>2. CASE user[u] = NULL
    BY <1>1, <1>2 DEF Member
<1>3. CASE user[u] # NULL
  <2> DEFINE m == [active |-> user[u].active, settled |-> ~ user[u].required, roles |-> user[u].roles]
  <2>1. user[u] \in UserRow
      BY <1>3 DEF TypeOK
  <2>2. m \in MemberRow
      BY <2>1 DEF UserRow, MemberRow
  <2>3. m # NULL
      BY <2>2, AccessAssumption
  <2> QED
      BY <1>1, <1>3, <2>3 DEF Member
<1> QED
    BY <1>2, <1>3

LEMMA MembersStay == ASSUME user' = user PROVE members' = members
BY DEF members, Member

LEMMA OneMemberChanges ==
    ASSUME NEW u \in Users, \A v \in Users \ {u} : user'[v] = user[v]
    PROVE  members' = [members EXCEPT ![u] = Member(u)']
BY DEF members, Member

-----------------------------------------------------------------------------
LEMMA CreateStaffInvites ==
    ASSUME IInv, NEW r \in Administrators, NEW u \in Users, NEW roles \in SUBSET Roles,
           CreateStaff(r, u, roles)
    PROVE  Membership!MembershipNext
<1>1. /\ user[u] = NULL /\ session' = session
      /\ user'[u] = Invited(roles) /\ \A v \in Users \ {u} : user'[v] = user[v]
    BY DEF CreateStaff, IInv, TypeOK
<1>2. /\ Invited(roles) # NULL /\ Invited(roles).active = TRUE
      /\ Invited(roles).required = TRUE /\ Invited(roles).roles = roles
  <2>1. Invited(roles) \in UserRow
      BY DEF Invited, UserRow
  <2> QED
      BY <2>1, RowsAreNotNull DEF Invited
<1>3. Member(u)' = [active |-> TRUE, settled |-> FALSE, roles |-> roles]
    BY <1>1, <1>2 DEF Member
<1>4. members' = [members EXCEPT ![u] = [active |-> TRUE, settled |-> FALSE, roles |-> roles]]
    BY <1>1, <1>3, OneMemberChanges
<1>5. Membership!Invite(u, roles)
    BY <1>1, <1>4, MembersAre DEF IInv, Membership!Invite, Membership!Admitted, members
<1> QED
    BY <1>5 DEF Membership!MembershipNext

LEMMA CreateOwnerOwns ==
    ASSUME IInv, NEW l \in Logins, NEW u \in Users, CreateOwner(l, u)
    PROVE  Membership!MembershipNext
<1> DEFINE row == [active |-> TRUE, roles |-> {OWNER}, required |-> FALSE, default |-> FALSE]
<1>1. /\ user[u] = NULL /\ session' = session /\ Owners = {}
      /\ user'[u] = row /\ \A v \in Users \ {u} : user'[v] = user[v]
    BY DEF CreateOwner, IInv, TypeOK
<1>2. row # NULL /\ row.active = TRUE /\ row.required = FALSE /\ row.roles = {OWNER}
  <2>1. row \in UserRow
      BY DEF UserRow
  <2> QED
      BY <2>1, RowsAreNotNull
<1> HIDE DEF row
<1>3. Member(u)' = [active |-> TRUE, settled |-> TRUE, roles |-> {OWNER}]
    BY <1>1, <1>2 DEF Member
<1>4. members' = [members EXCEPT ![u] = [active |-> TRUE, settled |-> TRUE, roles |-> {OWNER}]]
    BY <1>1, <1>3, OneMemberChanges
<1>5. ASSUME NEW v \in Users, members[v] # NULL PROVE OWNER \notin members[v].roles
  <2>1. user[v] # NULL /\ members[v].roles = user[v].roles /\ Agree(user[v])
      BY <1>5, MembersAre DEF IInv, TypeOK
  <2>2. ~ Holds(v, OWNER)
      BY <1>1 DEF Owners
  <2> QED
      BY <2>1, <2>2 DEF Holds, Agree
<1>6. members[u] = NULL
    BY <1>1, MembersAre DEF IInv
<1>7. Membership!Own(u)
    BY <1>1, <1>4, <1>5, <1>6 DEF Membership!Own, Membership!Admitted, members
<1> QED
    BY <1>7 DEF Membership!MembershipNext

\* What a session is inserted for.
LEMMA SessionOpens ==
    ASSUME IInv, NEW l \in Logins, NEW s \in Sessions, work[l].pc \in Entering,
           NEW role \in Roles \cup {OWNER}, role = work[l].role, session[s] = NULL,
           session' = [session EXCEPT ![s] = [user |-> work[l].user, role |-> role]]
    PROVE  work[l].user \in Users /\ Membership!Open(s, work[l].user, role)
<1>1. /\ work[l].user \in Users /\ user[work[l].user] # NULL
      /\ user[work[l].user].active => role \in user[work[l].user].roles
    BY DEF IInv, RequestsKnow, Knows
<1>2. /\ members[work[l].user] # NULL
      /\ members[work[l].user].active => role \in members[work[l].user].roles
    BY <1>1, MembersAre DEF IInv
<1> QED
    BY <1>1, <1>2 DEF Membership!Open, members

LEMMA EnterEnters ==
    ASSUME IInv, NEW l \in Logins, NEW s \in Sessions, Enter(l, s) \/ Enroll(l, s)
    PROVE  Membership!MembershipNext
<1>1. /\ work[l].pc \in Entering /\ session[s] = NULL /\ user' = user
      /\ work[l].pc = "enroll" \/ (work[l].pc = "password" /\ ~ work[l].required)
    BY DEF Enter, Enroll, Entering
<1>2. /\ Knows(work[l]) /\ work[l] \in WorkRow
    BY DEF IInv, RequestsKnow, TypeOK
<1>3. /\ work[l].user \in Users /\ user[work[l].user] # NULL /\ ~ user[work[l].user].required
      /\ work[l].role \in Roles \cup {OWNER}
    BY <1>1, <1>2 DEF Knows, WorkRow
<1>4. \E role \in Roles \cup {OWNER} :
          /\ role = work[l].role
          /\ session' = [session EXCEPT ![s] = [user |-> work[l].user, role |-> role]]
  <2>1. CASE Enter(l, s)
      BY <1>3, <2>1 DEF Enter
  <2>2. CASE Enroll(l, s)
    <3>1. work[l].role = OWNER
        BY <1>2, <2>2 DEF Enroll, Knows
    <3> QED
        BY <2>2, <3>1 DEF Enroll
  <2> QED
      BY <2>1, <2>2
<1>5. PICK role \in Roles \cup {OWNER} : Membership!Open(s, work[l].user, role)
    BY <1>1, <1>4, SessionOpens
<1>6. members[work[l].user].settled /\ members' = members
    BY <1>1, <1>3, MembersAre, MembersStay DEF IInv
<1>7. Membership!Enter(s, work[l].user, role)
    BY <1>5, <1>6 DEF Membership!Enter, members
<1> QED
    BY <1>3, <1>7 DEF Membership!MembershipNext

LEMMA SettleSettles ==
    ASSUME IInv, NEW l \in Logins, NEW s \in Sessions, Settle(l, s)
    PROVE  Membership!MembershipNext
<1>1. /\ work[l].pc = "settle" /\ work[l].pc \in Entering /\ session[s] = NULL
      /\ user' = [user EXCEPT ![work[l].user].required = FALSE, ![work[l].user].default = FALSE]
      /\ session' = [session EXCEPT ![s] = [user |-> work[l].user, role |-> work[l].role]]
    BY DEF Settle, Entering, Choosing, Completing
<1>2. /\ work[l].user \in Users /\ user[work[l].user] # NULL
      /\ work[l].role \in Roles \cup {OWNER}
    BY <1>1 DEF IInv, RequestsKnow, TypeOK, Knows, WorkRow
<1>3. Membership!Open(s, work[l].user, work[l].role)
    BY <1>1, <1>2, SessionOpens
<1>4. PICK u \in Users : u = work[l].user
    BY <1>2
<1>5. /\ user'[u] = [user[u] EXCEPT !.required = FALSE, !.default = FALSE]
      /\ user[u] \in UserRow /\ \A v \in Users \ {u} : user'[v] = user[v]
    BY <1>1, <1>2, <1>4 DEF IInv, TypeOK
<1>6. /\ user'[u] \in UserRow /\ user'[u].required = FALSE
      /\ user'[u].active = user[u].active /\ user'[u].roles = user[u].roles
    BY <1>5, SettledRow
<1>7. user'[u] # NULL
    BY <1>6, RowsAreNotNull
<1>8. Member(u)' = [active |-> user[u].active, settled |-> TRUE, roles |-> user[u].roles]
    BY <1>6, <1>7 DEF Member
<1>9. members[u] = [active |-> user[u].active, settled |-> ~ user[u].required, roles |-> user[u].roles]
    BY <1>2, <1>4, MembersAre DEF IInv
<1>10. members' = [members EXCEPT ![u].settled = TRUE]
    BY <1>5, <1>8, <1>9, OneMemberChanges
<1>11. Membership!Settle(s, u, work[l].role)
    BY <1>3, <1>4, <1>10 DEF Membership!Settle, members
<1> QED
    BY <1>2, <1>11 DEF Membership!MembershipNext

LEMMA MembersAgree ==
    ASSUME NEW x \in MemberRow, NEW y \in MemberRow,
           x.active = y.active, x.settled = y.settled, x.roles = y.roles
    PROVE  x = y
BY DEF MemberRow

LEMMA RemovedMember ==
    ASSUME NEW old \in MemberRow
    PROVE  [old EXCEPT !.active = FALSE, !.roles = {}]
               = [active |-> FALSE, settled |-> old.settled, roles |-> {}]
<1> DEFINE x == [old EXCEPT !.active = FALSE, !.roles = {}]
           y == [active |-> FALSE, settled |-> old.settled, roles |-> {}]
<1>1. x \in MemberRow /\ x.active = FALSE /\ x.settled = old.settled /\ x.roles = {}
    BY DEF MemberRow
<1>2. y \in MemberRow
    BY DEF MemberRow
<1>3. y.active = FALSE /\ y.settled = old.settled /\ y.roles = {}
    OBVIOUS
<1> HIDE DEF x, y
<1>4. x = y
    BY <1>1, <1>2, <1>3, MembersAgree
<1> QED
    BY <1>4 DEF x, y

LEMMA DisableRemoves ==
    ASSUME IInv, AdminsKnow, NEW r \in Administrators, Disable(r)
    PROVE  Membership!MembershipNext
<1>1. PICK u \in Users : u = work[r].user /\ user[u] # NULL
    BY DisableIInv
<1>2. /\ user'[u] = [user[u] EXCEPT !.active = FALSE, !.roles = {}]
      /\ user[u] \in UserRow /\ \A v \in Users \ {u} : user'[v] = user[v]
      /\ session' = session /\ work[r].pc = "disable"
    BY <1>1 DEF Disable, IInv, TypeOK
<1>3. /\ user'[u] \in UserRow /\ user'[u].active = FALSE /\ user'[u].roles = {}
      /\ user'[u].required = user[u].required
    BY <1>2, DisabledRow DEF UserRow
<1>4. user'[u] # NULL
    BY <1>3, RowsAreNotNull
<1>5. Member(u)' = [active |-> FALSE, settled |-> ~ user[u].required, roles |-> {}]
    BY <1>3, <1>4 DEF Member
<1>6. members[u] = [active |-> user[u].active, settled |-> ~ user[u].required, roles |-> user[u].roles]
    BY <1>1, MembersAre DEF IInv
<1>7. members' = [members EXCEPT ![u].active = FALSE, ![u].roles = {}]
  <2>1. [members[u] EXCEPT !.active = FALSE, !.roles = {}] = Member(u)'
    <3>1. members[u] \in MemberRow /\ members[u].settled = ~ user[u].required
        BY <1>2, <1>6 DEF UserRow, MemberRow
    <3> QED
        BY <1>5, <3>1, RemovedMember
  <2>2. members' = [members EXCEPT ![u] = [members[u] EXCEPT !.active = FALSE, !.roles = {}]]
      BY <1>2, <2>1, OneMemberChanges
  <2>3. u \in DOMAIN members
      BY DEF members
  <2> QED
      BY <2>2, <2>3
<1>8. \E v \in Users \ {u} : members[v] # NULL /\ (members[v].active => ADMIN \in members[v].roles)
  <2>1. PICK a \in Users : /\ a = work[r].actor /\ a # u /\ user[a] # NULL
                           /\ user[a].active => ADMIN \in user[a].roles
      BY <1>1, <1>2 DEF AdminsKnow, KnowsAdmin
  <2> QED
      BY <2>1, MembersAre DEF IInv
<1>9. members[u] # NULL
    BY <1>1, MembersAre DEF IInv
<1>10. Membership!Remove(u)
    BY <1>2, <1>7, <1>8, <1>9 DEF Membership!Remove, members
<1> QED
    BY <1>10 DEF Membership!MembershipNext

LEMMA LeaveLeaves ==
    ASSUME NEW s \in Sessions, Leave(s)
    PROVE  Membership!MembershipNext
<1>1. Membership!Leave(s)
    BY MembersStay DEF Leave, Membership!Leave, members
<1> QED
    BY <1>1 DEF Membership!MembershipNext

LEMMA StepsAreMemberships ==
    ASSUME IInv, AdminsKnow, [Next]_accessVars
    PROVE  [Membership!MembershipNext]_Membership!membershipVars
<1>1. ASSUME user' = user, session' = session PROVE UNCHANGED Membership!membershipVars
    BY <1>1, MembersStay DEF Membership!membershipVars, members
<1>2. ASSUME NEW r \in Workers, NEW row, Go(r, row) PROVE UNCHANGED Membership!membershipVars
    BY <1>1, <1>2 DEF Go, accessRows
<1>3. ASSUME NEW r \in Administrators, StaffStep(r)
      PROVE  [Membership!MembershipNext]_Membership!membershipVars
  <2>1. CASE \E row : Go(r, row)
      BY <1>2, <2>1 DEF Workers
  <2>2. CASE \E u \in Users, roles \in SUBSET Roles : CreateStaff(r, u, roles)
      BY <2>2, CreateStaffInvites
  <2>3. CASE Disable(r)
      BY <2>3, DisableRemoves
  <2>4. CASE (\E s \in Sessions : Authorize(r, s)) \/ LoadRoles(r)
      BY <2>1, <2>4 DEF Authorize, LoadRoles
  <2>5. CASE (\E u \in Users : LoadProfile(r, u)) \/ CountAdmins(r)
      BY <2>1, <2>5 DEF LoadProfile, CountAdmins
  <2> QED
      BY <1>3, <2>2, <2>3, <2>4, <2>5 DEF StaffStep
<1>4. ASSUME NEW l \in Logins, LoginStep(l) \/ SetupStep(l) \/ OwnerStep(l)
      PROVE  [Membership!MembershipNext]_Membership!membershipVars
  <2>1. CASE \E row : Go(l, row)
      BY <1>2, <2>1 DEF Workers
  <2>2. CASE \E s \in Sessions : Enter(l, s) \/ Enroll(l, s)
      BY <2>2, EnterEnters
  <2>3. CASE \E s \in Sessions : Settle(l, s)
      BY <2>3, SettleSettles
  <2>4. CASE \E u \in Users : CreateOwner(l, u)
      BY <2>4, CreateOwnerOwns
  <2>5. CASE IssueToken(l) \/ \E c \in Challenges : SendChallenge(l, c)
      BY <1>1, <2>5 DEF IssueToken, SendChallenge
  <2>6. CASE \/ \E u \in Users, role \in Roles \cup {OWNER} : BeginLogin(l, u, role)
             \/ \E u \in Users : BeginEnroll(l, u)
             \/ BeginOwner(l)
      BY <2>1, <2>6 DEF BeginLogin, BeginEnroll, BeginOwner
  <2>7. CASE (\E t \in token : BeginSetup(l, t)) \/ FindChallenge(l)
      BY <2>1, <2>7 DEF BeginSetup, FindChallenge
  <2>8. CASE \/ \E t \in token : BeginUncoded(l, t) \/ \E c \in Challenges : BeginComplete(l, t, c)
             \/ ReadChallenge(l) \/ CountAttempts(l)
      BY <2>1, <2>8 DEF BeginUncoded, BeginComplete, ReadChallenge, CountAttempts
  <2> QED
      BY <1>4, <2>2, <2>3, <2>4, <2>5, <2>6, <2>7, <2>8 DEF LoginStep, SetupStep, OwnerStep
<1>5. CASE \E s \in Sessions : Leave(s)
    BY <1>5, LeaveLeaves
<1>6. CASE \E c \in Challenges : ExpireChallenge(c)
    BY <1>1, <1>6 DEF ExpireChallenge
<1>7. CASE \E r \in Administrators \cup Logins : Fail(r)
    BY <1>2, <1>7 DEF Fail, Workers
<1>8. CASE UNCHANGED accessVars
    BY <1>1, <1>8 DEF accessVars
<1> QED
    BY <1>3, <1>4, <1>5, <1>6, <1>7, <1>8 DEF Next

LEMMA InitIsMembership == Init => Membership!MembershipInit
<1> SUFFICES ASSUME Init PROVE Membership!MembershipInit
    OBVIOUS
<1>1. Invited({ADMIN}) # NULL
  <2>1. Invited({ADMIN}) \in UserRow
      BY AccessAssumption DEF Invited, UserRow
  <2> QED
      BY <2>1, RowsAreNotNull
<1>2. \A u \in Users : Member(u) = IF u = Founder
                                   THEN [active |-> TRUE, settled |-> FALSE, roles |-> {ADMIN}]
                                   ELSE NULL
    BY <1>1 DEF Init, Member, Invited
<1> QED
    BY <1>2 DEF Init, Membership!MembershipInit, Membership!Admitted

(***************************************************************************)
(* Access promises what Membership says, whatever requests of              *)
(* administrators, logins, setups and bootstraps of the owner interleave.  *)
(***************************************************************************)
THEOREM AccessImplementsMembership == Spec => ImplementsMembership
<1>1. Init => AdminsKnow
    BY InitAdmins
<1>2. IInv /\ AdminsKnow /\ [Next]_accessVars => AdminsKnow'
    BY NextAdmins
<1>3. Init => Membership!MembershipInit
    BY InitIsMembership
<1>4. IInv /\ AdminsKnow /\ [Next]_accessVars => [Membership!MembershipNext]_Membership!membershipVars
    BY StepsAreMemberships
<1> QED
    BY <1>1, <1>2, <1>3, <1>4, SpecIInv, PTL
    DEF Spec, ImplementsMembership, Membership!MembershipSpec
=============================================================================
