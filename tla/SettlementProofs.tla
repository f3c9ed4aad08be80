-------------------------- MODULE SettlementProofs --------------------------
(***************************************************************************)
(* Theorems about Settlement.tla for every set of sessions, payments, keys *)
(* and requests.                                                           *)
(*                                                                         *)
(* None of the invariants is inductive alone: a commit acts on what its    *)
(* request read earlier, so IInv adds what a request in flight knows       *)
(* (Knows). With it, a step that only moves a request on preserves IInv    *)
(* when the row it leaves behind knows enough (RequestStep); what is left  *)
(* are the four steps that write the database.                             *)
(*                                                                         *)
(* The bound on overpayment needs sums: what is shown of them first holds  *)
(* for any set of payments, and RacesIInv adds to IInv what the requests   *)
(* have read, decided and left room for.                                   *)
(***************************************************************************)
EXTENDS Settlement, FiniteSetTheorems, TLAPS

(***************************************************************************)
(* What a request in flight may rely on at its next statement: the session *)
(* and check it names exist for ever, a record and a void carry a key and  *)
(* a body, and the payment of a void is a payment of the session.          *)
(***************************************************************************)
Knows(q) ==
    \/ q.pc = "idle"
    \/ /\ q.session \in Sessions
       /\ checkStatus[q.session] # "none"
       /\ \/ /\ q.op = "record"
             /\ q.pc \in {"key", "total", "paid", "commit"}
             /\ q.key \in Keys
             /\ q.amount \in Amounts
          \/ /\ q.op = "void"
             /\ q.pc \in {"check", "voidkey", "void"}
             /\ q.key \in Keys
             /\ q.payment \in Payments
             /\ q.reason \in Reasons
             /\ payment[q.payment] # NULL
          \/ /\ q.op = "close"
             /\ q.pc \in {"total", "paid", "commit"}

RequestsKnow == \A r \in Requests : Knows(req[r])

\* Only a bill that was opened is charged.
ChargedBillsExist ==
    \A p \in Payments : payment[p] # NULL => checkStatus[payment[p].session] # "none"

\* The first two parts of VoidsWithinRaces.
VoidsAreAccounted ==
    \A p \in Payments :
        /\ corrections[p] = Cardinality({k \in Keys : voidKeyRow[p][k] # NULL})
        /\ corrections[p] > 0 <=> payment[p] # NULL /\ payment[p].status = "voided"

IInv ==
    /\ TypeOK
    /\ CloseIsWhole
    /\ PaymentsAreKeyed
    /\ VoidsAreAccounted
    /\ ChargedBillsExist
    /\ RequestsKnow

-----------------------------------------------------------------------------
\* NULL is none of the values it stands in for.
LEMMA NullIsFresh ==
    /\ NULL \notin Sessions
    /\ NULL \notin Payments
    /\ NULL \notin Keys
    /\ NULL \notin Amounts
    /\ NULL \notin Reasons
    /\ NULL \notin Requests
    /\ NULL \notin PaymentRow
    /\ NULL \notin KeyRow
BY SettlementAssumption DEF SettlementAssumption

\* The empty request is a request row.
LEMMA NoRequestIsARow == NoRequest \in RequestRow /\ NoRequest.pc = "idle"
BY DEF NoRequest, RequestRow

\* A record is never the NULL that stands for a missing row.
LEMMA RowsAreNotNull ==
    ASSUME TypeOK
    PROVE  /\ \A p \in Payments : payment[p] # NULL => payment[p] \in PaymentRow
           /\ \A s \in Sessions, k \in Keys : keyRow[s][k] # NULL => keyRow[s][k] \in KeyRow
BY DEF TypeOK

THEOREM InitIInv == Init => IInv
<1> SUFFICES ASSUME Init PROVE IInv
    OBVIOUS
<1>1. TypeOK
    BY NoRequestIsARow DEF Init, TypeOK, Status, Absent
<1>2. CloseIsWhole
    BY DEF Init, CloseIsWhole
<1>3. PaymentsAreKeyed
    BY DEF Init, PaymentsAreKeyed, Absent
<1>4. VoidsAreAccounted
  <2>1. \A p \in Payments : {k \in Keys : voidKeyRow[p][k] # NULL} = {}
      BY DEF Init
  <2>2. Cardinality({}) = 0
      BY FS_EmptySet
  <2> SUFFICES ASSUME NEW p \in Payments
               PROVE  /\ corrections[p] = Cardinality({k \in Keys : voidKeyRow[p][k] # NULL})
                      /\ corrections[p] > 0 <=> payment[p] # NULL /\ payment[p].status = "voided"
      BY DEF VoidsAreAccounted
  <2>3. corrections[p] = 0 /\ payment[p] = NULL
      BY DEF Init, Absent
  <2> QED
      BY <2>1, <2>2, <2>3
<1>5. ChargedBillsExist /\ RequestsKnow
    BY NoRequestIsARow DEF Init, ChargedBillsExist, RequestsKnow, Knows, Absent
<1> QED
    BY <1>1, <1>2, <1>3, <1>4, <1>5 DEF IInv

-----------------------------------------------------------------------------
(***************************************************************************)
(* Steps that write no table                                               *)
(***************************************************************************)

\* A request that moves on, or ends, without touching a table preserves IInv
\* when the row it leaves behind knows enough.
LEMMA RequestStep ==
    ASSUME IInv,
           NEW r \in Requests, NEW row \in RequestRow, Knows(row),
           req' = [req EXCEPT ![r] = row],
           reply' \in ReplyRow \cup {NULL},
           UNCHANGED <<tables, money>>
    PROVE  IInv'
<1>1. TypeOK'
    BY DEF IInv, TypeOK, tables, money
<1>2. CloseIsWhole' /\ PaymentsAreKeyed' /\ VoidsAreAccounted' /\ ChargedBillsExist'
    BY DEF IInv, CloseIsWhole, PaymentsAreKeyed, VoidsAreAccounted, ChargedBillsExist,
           tables, money
<1>3. RequestsKnow'
  <2> SUFFICES ASSUME NEW x \in Requests PROVE Knows(req[x])'
      BY DEF RequestsKnow
  <2>1. checkStatus' = checkStatus /\ payment' = payment
      BY DEF tables, money
  <2>2. CASE x = r
    <3>1. req'[x] = row
        BY <2>2 DEF IInv, TypeOK
    <3> QED
        BY <2>1, <3>1 DEF Knows
  <2>3. CASE x # r
    <3>1. req'[x] = req[x] /\ Knows(req[x])
        BY <2>3 DEF IInv, TypeOK, RequestsKnow
    <3> QED
        BY <2>1, <3>1 DEF Knows
  <2> QED
      BY <2>2, <2>3
<1> QED
    BY <1>1, <1>2, <1>3 DEF IInv

\* The three ways in which a request leaves the tables alone.
LEMMA ContinueStep ==
    ASSUME IInv, NEW r \in Requests, NEW row \in RequestRow, Knows(row),
           Continue(r, row), UNCHANGED <<tables, money>>
    PROVE  IInv'
BY RequestStep DEF Continue

LEMMA AnswerStep ==
    ASSUME IInv, NEW r \in Requests, NEW code \in Codes, NEW p \in Payments \cup {NULL},
           Answer(r, code, p), UNCHANGED <<tables, money>>
    PROVE  IInv'
<1>1. Knows(NoRequest)
    BY NoRequestIsARow DEF Knows
<1>2. reply' \in ReplyRow
    BY DEF Answer, ReplyRow
<1> QED
    BY <1>1, <1>2, NoRequestIsARow, RequestStep DEF Answer

LEMMA RefuseStep ==
    ASSUME IInv, NEW r \in Requests, NEW code \in Codes, Refuse(r, code)
    PROVE  IInv'
BY AnswerStep DEF Refuse

LEMMA BeginRecordStep ==
    ASSUME IInv, NEW r \in Requests, NEW s \in Sessions, NEW k \in Keys, NEW a \in Amounts,
           BeginRecord(r, s, k, a)
    PROVE  IInv'
<1>1. CASE Refuse(r, "not_found_or_hidden") \/ Refuse(r, "check_closed")
    BY <1>1, RefuseStep DEF Codes
<1>2. CASE ~ (Refuse(r, "not_found_or_hidden") \/ Refuse(r, "check_closed"))
  <2> DEFINE row == [NoRequest EXCEPT !.pc = "key", !.op = "record",
                                      !.session = s, !.key = k, !.amount = a]
  <2>1. row \in RequestRow
      BY DEF NoRequest, RequestRow
  <2>2. checkStatus[s] = "open" /\ Continue(r, row) /\ UNCHANGED <<tables, money>>
      BY <1>2 DEF BeginRecord
  <2>3. Knows(row)
      BY <2>2 DEF Knows, NoRequest
  <2> QED
      BY <2>1, <2>2, <2>3, ContinueStep
<1> QED
    BY <1>1, <1>2

LEMMA ReadKeyStep ==
    ASSUME IInv, NEW r \in Requests, ReadKey(r)
    PROVE  IInv'
<1> DEFINE row == keyRow[req[r].session][req[r].key]
<1>1. req[r] \in RequestRow /\ Knows(req[r]) /\ req[r].pc = "key"
    BY DEF IInv, TypeOK, RequestsKnow, ReadKey
<1>2. CASE Refuse(r, "idempotency_conflict")
    BY <1>2, RefuseStep DEF Codes
<1>3. CASE /\ row # NULL
           /\ Answer(r, "duplicate", row.payment)
           /\ UNCHANGED <<tables, money>>
  <2>1. row.payment \in Payments
      BY <1>1, <1>3 DEF IInv, TypeOK, KeyRow, Knows
  <2> QED
      BY <1>3, <2>1, AnswerStep DEF Codes
<1>4. CASE /\ Continue(r, [req[r] EXCEPT !.pc = "total"])
           /\ UNCHANGED <<tables, money>>
  <2>1. [req[r] EXCEPT !.pc = "total"] \in RequestRow /\ Knows([req[r] EXCEPT !.pc = "total"])
      BY <1>1 DEF RequestRow, Knows
  <2> QED
      BY <1>4, <2>1, ContinueStep
<1> QED
    BY <1>2, <1>3, <1>4 DEF ReadKey

LEMMA ReadTotalStep ==
    ASSUME IInv, NEW r \in Requests, ReadTotal(r)
    PROVE  IInv'
<1> DEFINE row == [req[r] EXCEPT !.pc = "paid", !.total = total[req[r].session]]
<1>1. req[r] \in RequestRow /\ Knows(req[r]) /\ req[r].pc = "total"
    BY DEF IInv, TypeOK, RequestsKnow, ReadTotal
<1>2. total[req[r].session] \in Nat
    BY <1>1 DEF IInv, TypeOK, Knows
<1>3. row \in RequestRow /\ Knows(row)
    BY <1>1, <1>2 DEF RequestRow, Knows
<1> QED
    BY <1>3, ContinueStep DEF ReadTotal

LEMMA ReadPaidStep ==
    ASSUME IInv, NEW r \in Requests, ReadPaid(r)
    PROVE  IInv'
<1> DEFINE row == [req[r] EXCEPT !.pc = "commit", !.total = 0]
<1>1. req[r] \in RequestRow /\ Knows(req[r]) /\ req[r].pc = "paid"
    BY DEF IInv, TypeOK, RequestsKnow, ReadPaid
<1>2. row \in RequestRow /\ Knows(row)
    BY <1>1 DEF RequestRow, Knows
<1>3. CASE Refuse(r, "overpayment_not_allowed") \/ Refuse(r, "remaining_balance_not_zero")
    BY <1>3, RefuseStep DEF Codes
<1>4. CASE Continue(r, row) /\ UNCHANGED <<tables, money>>
    BY <1>2, <1>4, ContinueStep
<1> QED
    BY <1>3, <1>4 DEF ReadPaid

LEMMA BeginVoidStep ==
    ASSUME IInv, NEW r \in Requests, NEW p \in Payments, NEW k \in Keys, NEW why \in Reasons,
           BeginVoid(r, p, k, why)
    PROVE  IInv'
<1>1. CASE Refuse(r, "not_found_or_hidden")
    BY <1>1, RefuseStep DEF Codes
<1>2. CASE ~ Refuse(r, "not_found_or_hidden")
  <2> DEFINE row == [NoRequest EXCEPT !.pc = "check", !.op = "void",
                            !.session = payment[p].session, !.key = k,
                            !.payment = p, !.reason = why, !.seen = payment[p].status]
  <2>1. payment[p] # NULL /\ Continue(r, row) /\ UNCHANGED <<tables, money>>
      BY <1>2 DEF BeginVoid
  <2>2. payment[p] \in PaymentRow
      BY <2>1 DEF IInv, TypeOK
  <2>3. row \in RequestRow
      BY <2>2 DEF NoRequest, RequestRow, PaymentRow
  <2>4. checkStatus[payment[p].session] # "none"
      BY <2>1, <2>2 DEF IInv, ChargedBillsExist
  <2>5. Knows(row)
      BY <2>1, <2>2, <2>4 DEF Knows, NoRequest, PaymentRow
  <2> QED
      BY <2>1, <2>3, <2>5, ContinueStep
<1> QED
    BY <1>1, <1>2

LEMMA ReadCheckForVoidStep ==
    ASSUME IInv, NEW r \in Requests, ReadCheckForVoid(r)
    PROVE  IInv'
<1> DEFINE row == [req[r] EXCEPT !.pc = "voidkey"]
<1>1. req[r] \in RequestRow /\ Knows(req[r]) /\ req[r].pc = "check"
    BY DEF IInv, TypeOK, RequestsKnow, ReadCheckForVoid
<1>2. row \in RequestRow /\ Knows(row)
    BY <1>1 DEF RequestRow, Knows
<1>3. CASE Refuse(r, "check_closed")
    BY <1>3, RefuseStep DEF Codes
<1>4. CASE Continue(r, row) /\ UNCHANGED <<tables, money>>
    BY <1>2, <1>4, ContinueStep
<1> QED
    BY <1>3, <1>4 DEF ReadCheckForVoid

LEMMA ReadVoidKeyStep ==
    ASSUME IInv, NEW r \in Requests, ReadVoidKey(r)
    PROVE  IInv'
<1> DEFINE row == [req[r] EXCEPT !.pc = "void"]
<1>1. req[r] \in RequestRow /\ Knows(req[r]) /\ req[r].pc = "voidkey"
    BY DEF IInv, TypeOK, RequestsKnow, ReadVoidKey
<1>2. row \in RequestRow /\ Knows(row)
    BY <1>1 DEF RequestRow, Knows
<1>3. CASE Refuse(r, "idempotency_conflict") \/ Refuse(r, "payment_void_not_allowed")
    BY <1>3, RefuseStep DEF Codes
<1>4. CASE Answer(r, "duplicate", req[r].payment) /\ UNCHANGED <<tables, money>>
  <2>1. req[r].payment \in Payments
      BY <1>1 DEF Knows
  <2> QED
      BY <1>4, <2>1, AnswerStep DEF Codes
<1>5. CASE Continue(r, row) /\ UNCHANGED <<tables, money>>
    BY <1>2, <1>5, ContinueStep
<1> QED
    BY <1>3, <1>4, <1>5 DEF ReadVoidKey

LEMMA BeginCloseStep ==
    ASSUME IInv, NEW r \in Requests, NEW s \in Sessions, BeginClose(r, s)
    PROVE  IInv'
<1> DEFINE row == [NoRequest EXCEPT !.pc = "total", !.op = "close", !.session = s]
<1>1. CASE Refuse(r, "not_found_or_hidden") \/ Refuse(r, AlreadyClosed(s))
    BY <1>1, RefuseStep DEF Codes, AlreadyClosed
<1>2. CASE /\ checkStatus[s] = "open"
           /\ Continue(r, row)
           /\ UNCHANGED <<tables, money>>
  <2>1. row \in RequestRow /\ Knows(row)
      BY <1>2 DEF RequestRow, Knows, NoRequest
  <2> QED
      BY <1>2, <2>1, ContinueStep
<1> QED
    BY <1>1, <1>2 DEF BeginClose

LEMMA VanishStep ==
    ASSUME IInv, NEW r \in Requests, Vanish(r)
    PROVE  IInv'
<1>1. Knows(NoRequest)
    BY NoRequestIsARow DEF Knows
<1> QED
    BY <1>1, NoRequestIsARow, ContinueStep DEF Vanish

-----------------------------------------------------------------------------
(***************************************************************************)
(* Steps that write tables                                                 *)
(***************************************************************************)

\* What requests know outlives every commit: checks and payments never go away.
LEMMA KnowledgeSurvives ==
    ASSUME RequestsKnow,
           \A x \in Requests : req'[x] \in {req[x], NoRequest},
           \A s \in Sessions : checkStatus[s] # "none" => checkStatus'[s] # "none",
           \A p \in Payments : payment[p] # NULL => payment'[p] # NULL
    PROVE  RequestsKnow'
<1> SUFFICES ASSUME NEW x \in Requests PROVE Knows(req[x])'
    BY DEF RequestsKnow
<1>1. CASE req'[x] = NoRequest
    BY <1>1, NoRequestIsARow DEF Knows
<1>2. CASE req'[x] = req[x]
  <2>1. Knows(req[x])
      BY DEF RequestsKnow
  <2> QED
      BY <1>2, <2>1 DEF Knows
<1> QED
    BY <1>1, <1>2

\* An answered request leaves a well-typed request table and reply.
LEMMA AnswerTypes ==
    ASSUME TypeOK, NEW r \in Requests, NEW code \in Codes, NEW p \in Payments \cup {NULL},
           Answer(r, code, p)
    PROVE  /\ req' \in [Requests -> RequestRow]
           /\ reply' \in ReplyRow \cup {NULL}
           /\ \A x \in Requests : req'[x] \in {req[x], NoRequest}
BY NoRequestIsARow DEF Answer, TypeOK, ReplyRow

LEMMA PlaceOrderStep ==
    ASSUME IInv, NEW s \in Sessions, NEW t \in Totals, PlaceOrder(s, t)
    PROVE  IInv'
<1> USE DEF IInv, PlaceOrder, money
<1>1. t \in Nat
    BY SettlementAssumption DEF SettlementAssumption
<1>2. TypeOK'
    BY <1>1 DEF TypeOK, Status
<1>3. CloseIsWhole'
  <2> SUFFICES ASSUME NEW u \in Sessions
               PROVE  /\ sessionStatus'[u] = checkStatus'[u]
                      /\ closures'[u] = IF checkStatus'[u] = "closed" THEN 1 ELSE 0
      BY DEF CloseIsWhole
  <2>1. /\ sessionStatus[u] = checkStatus[u]
        /\ closures[u] = IF checkStatus[u] = "closed" THEN 1 ELSE 0
      BY DEF CloseIsWhole
  <2>2. /\ sessionStatus'[u] \in {sessionStatus[u], "open"}
        /\ checkStatus'[u] \in {checkStatus[u], "open"}
        /\ sessionStatus'[u] = sessionStatus[u] <=> checkStatus'[u] = checkStatus[u]
        /\ checkStatus[u] = "closed" => checkStatus'[u] = "closed"
      BY <2>1 DEF TypeOK
  <2>3. closures'[u] = closures[u]
      OBVIOUS
  <2> QED
      BY <2>1, <2>2, <2>3
<1>4. PaymentsAreKeyed' /\ VoidsAreAccounted'
  <2>1. /\ PaymentsAreKeyed /\ VoidsAreAccounted
        /\ UNCHANGED <<payment, keyRow, voidKeyRow, corrections>>
      OBVIOUS
  <2> QED
      BY ONLY <2>1 DEF PaymentsAreKeyed, VoidsAreAccounted
<1>5. \A u \in Sessions : checkStatus[u] # "none" => checkStatus'[u] # "none"
    BY DEF TypeOK
<1>6. ChargedBillsExist'
    BY <1>5, RowsAreNotNull DEF ChargedBillsExist, PaymentRow
<1>7. RequestsKnow'
    BY <1>5, KnowledgeSurvives
<1> QED
    BY <1>2, <1>3, <1>4, <1>6, <1>7

(***************************************************************************)
(* The commit of a payment. The unique constraint on (check, key) is what  *)
(* keeps two payments from being named by one key: a payment that exists   *)
(* already is named by a row, and the row written now was empty.           *)
(***************************************************************************)
LEMMA CommitRecordStep ==
    ASSUME IInv, NEW r \in Requests, CommitRecord(r)
    PROVE  IInv'
<1> DEFINE s == req[r].session
           k == req[r].key
           a == req[r].amount
<1>1. s \in Sessions /\ k \in Keys /\ a \in Amounts /\ checkStatus[s] # "none"
    BY DEF IInv, RequestsKnow, Knows, CommitRecord
<1>2. CASE Refuse(r, "integrity_error")
    BY <1>2, RefuseStep DEF Codes
<1>3. CASE ~ Refuse(r, "integrity_error")
  <2> HIDE DEF s, k, a
  <2>1. PICK p \in Payments :
           /\ keyRow[s][k] = NULL
           /\ payment[p] = NULL
           /\ payment' = [payment EXCEPT ![p] =
                            [session |-> s, amount |-> a, status |-> "recorded"]]
           /\ keyRow' = [keyRow EXCEPT ![s][k] = [amount |-> a, payment |-> p]]
           /\ Answer(r, "recorded", p)
           /\ UNCHANGED <<tables, voidKeyRow, corrections, closures>>
      BY <1>3 DEF CommitRecord, s, k, a
  <2> DEFINE row == [session |-> s, amount |-> a, status |-> "recorded"]
             kr == [amount |-> a, payment |-> p]
  <2>2. row \in PaymentRow /\ kr \in KeyRow
      BY <1>1 DEF PaymentRow, KeyRow
  <2>3. TypeOK'
      BY <1>1, <2>1, <2>2, AnswerTypes DEF IInv, TypeOK, tables, Codes
  <2>4. payment'[p] = row /\ \A q \in Payments : q # p => payment'[q] = payment[q]
      BY <2>1 DEF IInv, TypeOK
  <2>5. /\ keyRow'[s][k] = kr
        /\ \A t \in Sessions, l \in Keys : <<t, l>> # <<s, k>> => keyRow'[t][l] = keyRow[t][l]
      BY <1>1, <2>1 DEF IInv, TypeOK
  <2>6. payment'[p] # NULL /\ keyRow'[s][k] # NULL
      BY <2>2, <2>4, <2>5, NullIsFresh
  <2>7. CloseIsWhole'
      BY <2>1 DEF IInv, CloseIsWhole, tables
  <2>8. \A q \in Payments : payment[q] # NULL => payment'[q] = payment[q]
      BY <2>1, <2>4
  <2>9. PaymentsAreKeyed'
    <3>1. ASSUME NEW q \in Payments, payment'[q] # NULL
          PROVE  \E l \in Keys : /\ keyRow'[payment'[q].session][l] # NULL
                                 /\ keyRow'[payment'[q].session][l].payment = q
      <4>1. CASE q = p
          BY <1>1, <2>4, <2>5, <2>6, <4>1
      <4>2. CASE q # p
        <5>1. payment'[q] = payment[q] /\ payment[q].session \in Sessions
            BY <2>4, <3>1, <4>2 DEF IInv, TypeOK, PaymentRow
        <5>2. PICK l \in Keys : /\ keyRow[payment[q].session][l] # NULL
                                /\ keyRow[payment[q].session][l].payment = q
            BY <3>1, <5>1 DEF IInv, PaymentsAreKeyed
        <5>3. keyRow'[payment[q].session][l] = keyRow[payment[q].session][l]
            BY <2>1, <2>5, <5>1, <5>2
        <5> QED
            BY <5>1, <5>2, <5>3
      <4> QED
          BY <4>1, <4>2
    <3>2. ASSUME NEW t \in Sessions, NEW l \in Keys, keyRow'[t][l] # NULL
          PROVE  LET q == keyRow'[t][l].payment IN
                 /\ payment'[q] # NULL
                 /\ payment'[q].session = t
                 /\ payment'[q].amount = keyRow'[t][l].amount
                 /\ \A u \in Sessions, m \in Keys :
                       keyRow'[u][m] # NULL /\ keyRow'[u][m].payment = q => <<u, m>> = <<t, l>>
      <4> DEFINE q == keyRow'[t][l].payment
      <4>1. \A u \in Sessions, m \in Keys : keyRow[u][m] # NULL => keyRow[u][m].payment # p
          BY <2>1 DEF IInv, PaymentsAreKeyed
      <4>2. CASE <<t, l>> = <<s, k>>
        <5>1. q = p
            BY <2>5, <4>2
        <5>2. /\ payment'[q] # NULL
              /\ payment'[q].session = t
              /\ payment'[q].amount = keyRow'[t][l].amount
            BY <2>4, <2>5, <2>6, <4>2, <5>1
        <5>3. \A u \in Sessions, m \in Keys :
                  keyRow'[u][m] # NULL /\ keyRow'[u][m].payment = q => <<u, m>> = <<t, l>>
            BY <2>5, <4>1, <4>2, <5>1
        <5> QED
            BY <5>2, <5>3
      <4>3. CASE <<t, l>> # <<s, k>>
        <5>1. keyRow'[t][l] = keyRow[t][l]
            BY <2>5, <4>3
        <5>2. q \in Payments /\ q # p
            BY <3>2, <4>1, <5>1 DEF IInv, TypeOK, KeyRow
        <5>3. payment'[q] = payment[q]
            BY <2>4, <5>2
        <5>4. /\ payment[q] # NULL
              /\ payment[q].session = t
              /\ payment[q].amount = keyRow[t][l].amount
            BY <3>2, <5>1 DEF IInv, PaymentsAreKeyed
        <5>5. \A u \in Sessions, m \in Keys :
                  keyRow[u][m] # NULL /\ keyRow[u][m].payment = q => <<u, m>> = <<t, l>>
            BY <3>2, <5>1 DEF IInv, PaymentsAreKeyed
        <5>6. \A u \in Sessions, m \in Keys :
                  keyRow'[u][m] # NULL /\ keyRow'[u][m].payment = q => <<u, m>> = <<t, l>>
            BY <2>5, <5>2, <5>5
        <5> QED
            BY <5>1, <5>3, <5>4, <5>6
      <4> QED
          BY <4>2, <4>3
    <3> QED
        BY <3>1, <3>2 DEF PaymentsAreKeyed
  <2>10. VoidsAreAccounted'
    <3>1. corrections' = corrections /\ voidKeyRow' = voidKeyRow
        BY <2>1
    <3>2. \A q \in Payments :
             corrections[q] > 0 <=> payment[q] # NULL /\ payment[q].status = "voided"
        BY DEF IInv, VoidsAreAccounted
    <3>3. \A q \in Payments :
             corrections[q] > 0 <=> payment'[q] # NULL /\ payment'[q].status = "voided"
        BY <2>1, <2>4, <3>2
    <3> QED
        BY <3>1, <3>3 DEF IInv, VoidsAreAccounted
  <2>11. ChargedBillsExist'
      BY <1>1, <2>1, <2>4 DEF IInv, ChargedBillsExist, tables
  <2>12. RequestsKnow'
      BY <2>1, <2>8, AnswerTypes, KnowledgeSurvives DEF IInv, Codes, tables
  <2> QED
      BY <2>3, <2>7, <2>9, <2>10, <2>11, <2>12 DEF IInv
<1> QED
    BY <1>2, <1>3

(***************************************************************************)
(* The commit of a void: the new key row adds one to the set of keys that  *)
(* voided the payment, as the correction adds one to their number, whether *)
(* or not the payment was voided before.                                   *)
(***************************************************************************)
LEMMA CommitVoidStep ==
    ASSUME IInv, NEW r \in Requests, CommitVoid(r)
    PROVE  IInv'
<1> DEFINE p == req[r].payment
           k == req[r].key
           why == req[r].reason
<1>1. /\ p \in Payments /\ k \in Keys /\ why \in Reasons
      /\ payment[p] # NULL
    BY DEF IInv, RequestsKnow, Knows, CommitVoid
<1>2. CASE Refuse(r, "integrity_error")
    BY <1>2, RefuseStep DEF Codes
<1>3. CASE ~ Refuse(r, "integrity_error")
  <2> HIDE DEF p, k, why
  <2>1. /\ voidKeyRow[p][k] = NULL
        /\ voidKeyRow' = [voidKeyRow EXCEPT ![p][k] = why]
        /\ payment' = [payment EXCEPT ![p].status = "voided"]
        /\ corrections' = [corrections EXCEPT ![p] = @ + 1]
        /\ Answer(r, "voided", p)
        /\ UNCHANGED <<tables, keyRow, closures>>
      BY <1>3 DEF CommitVoid, p, k, why
  <2>2. payment[p] \in PaymentRow
      BY <1>1, RowsAreNotNull DEF IInv
  <2>3. /\ payment'[p] \in PaymentRow
        /\ payment'[p].session = payment[p].session
        /\ payment'[p].amount = payment[p].amount
        /\ payment'[p].status = "voided"
      BY <1>1, <2>1, <2>2 DEF IInv, TypeOK, PaymentRow
  <2>4. \A q \in Payments : q # p => payment'[q] = payment[q]
      BY <2>1 DEF IInv, TypeOK
  <2>5. TypeOK'
    <3>1. payment' \in [Payments -> PaymentRow \cup {NULL}]
        BY <2>1, <2>3, <2>4 DEF IInv, TypeOK
    <3> QED
        BY <1>1, <2>1, <3>1, AnswerTypes DEF IInv, TypeOK, tables, Codes
  <2>6. CloseIsWhole'
      BY <2>1 DEF IInv, CloseIsWhole, tables
  <2>7. \A q \in Payments :
           /\ payment[q] # NULL <=> payment'[q] # NULL
           /\ payment[q] # NULL => /\ payment'[q].session = payment[q].session
                                   /\ payment'[q].amount = payment[q].amount
      BY <1>1, <2>3, <2>4, NullIsFresh
  <2>8. PaymentsAreKeyed'
    <3>1. keyRow' = keyRow
        BY <2>1
    <3>2. \A t \in Sessions, l \in Keys : keyRow[t][l] # NULL => keyRow[t][l].payment \in Payments
        BY DEF IInv, TypeOK, KeyRow
    <3>3. \A q \in Payments : payment'[q] # NULL =>
             \E l \in Keys : /\ keyRow'[payment'[q].session][l] # NULL
                             /\ keyRow'[payment'[q].session][l].payment = q
        BY <2>7, <3>1 DEF IInv, PaymentsAreKeyed
    <3>4. ASSUME NEW t \in Sessions, NEW l \in Keys, keyRow'[t][l] # NULL
          PROVE  LET q == keyRow'[t][l].payment IN
                 /\ payment'[q] # NULL
                 /\ payment'[q].session = t
                 /\ payment'[q].amount = keyRow'[t][l].amount
                 /\ \A u \in Sessions, m \in Keys :
                       keyRow'[u][m] # NULL /\ keyRow'[u][m].payment = q => <<u, m>> = <<t, l>>
        BY <2>7, <3>1, <3>2, <3>4 DEF IInv, PaymentsAreKeyed
    <3> QED
        BY <3>3, <3>4 DEF PaymentsAreKeyed
  <2>9. VoidsAreAccounted'
    <3> SUFFICES ASSUME NEW q \in Payments
                 PROVE  /\ corrections'[q] = Cardinality({l \in Keys : voidKeyRow'[q][l] # NULL})
                        /\ corrections'[q] > 0 <=> payment'[q] # NULL /\ payment'[q].status = "voided"
        BY DEF VoidsAreAccounted
    <3> DEFINE before == {l \in Keys : voidKeyRow[q][l] # NULL}
               after == {l \in Keys : voidKeyRow'[q][l] # NULL}
    <3>1. corrections[q] = Cardinality(before)
        BY DEF IInv, VoidsAreAccounted
    <3>2. corrections[q] > 0 <=> payment[q] # NULL /\ payment[q].status = "voided"
        BY DEF IInv, VoidsAreAccounted
    <3>3. CASE q = p
      <4>1. after = before \cup {k} /\ k \notin before
          BY <1>1, <2>1, <3>3, NullIsFresh DEF IInv, TypeOK
      <4>2. IsFiniteSet(before)
          BY FS_Subset, SettlementAssumption DEF SettlementAssumption
      <4>3. Cardinality(after) = Cardinality(before) + 1
        <5> HIDE DEF before, after
        <5> QED
            BY <4>1, <4>2, FS_AddElement
      <4>4. corrections'[q] = corrections[q] + 1 /\ corrections[q] \in Nat
          BY <2>1, <3>3 DEF IInv, TypeOK
      <4>5. payment'[q] # NULL /\ payment'[q].status = "voided"
          BY <1>1, <2>3, <2>7, <3>3
      <4>6. corrections'[q] > 0
          BY <4>4
      <4>7. corrections'[q] = Cardinality(after)
          BY <3>1, <4>3, <4>4
      <4> QED
          BY <4>5, <4>6, <4>7
    <3>4. CASE q # p
      <4>1. /\ corrections'[q] = corrections[q]
            /\ voidKeyRow'[q] = voidKeyRow[q]
            /\ payment'[q] = payment[q]
          BY <2>1, <2>4, <3>4 DEF IInv, TypeOK
      <4> QED
          BY <3>1, <3>2, <4>1
    <3> QED
        BY <3>3, <3>4
  <2>10. ChargedBillsExist'
      BY <2>1, <2>7 DEF IInv, ChargedBillsExist, tables
  <2>11. RequestsKnow'
    <3>1. \A x \in Requests : req'[x] \in {req[x], NoRequest}
        BY <1>1, <2>1, AnswerTypes DEF IInv, Codes
    <3> QED
        BY <2>1, <2>7, <3>1, KnowledgeSurvives DEF IInv, tables
  <2> QED
      BY <2>5, <2>6, <2>8, <2>9, <2>10, <2>11 DEF IInv
<1> QED
    BY <1>2, <1>3

(***************************************************************************)
(* The commit of a close. It does not look at the statuses again: only the *)
(* unique closure row keeps a second close from committing.                *)
(***************************************************************************)
LEMMA CommitCloseStep ==
    ASSUME IInv, NEW r \in Requests, CommitClose(r)
    PROVE  IInv'
<1> DEFINE s == req[r].session
<1>1. s \in Sessions /\ checkStatus[s] # "none"
    BY DEF IInv, RequestsKnow, Knows, CommitClose
<1>2. CASE Refuse(r, "integrity_error")
    BY <1>2, RefuseStep DEF Codes
<1>3. CASE ~ Refuse(r, "integrity_error")
  <2> HIDE DEF s
  <2>1. /\ closures[s] = 0
        /\ checkStatus' = [checkStatus EXCEPT ![s] = "closed"]
        /\ sessionStatus' = [sessionStatus EXCEPT ![s] = "closed"]
        /\ closures' = [closures EXCEPT ![s] = @ + 1]
        /\ Answer(r, "closed", NULL)
        /\ UNCHANGED <<total, payment, keyRow, voidKeyRow, corrections>>
      BY <1>3 DEF CommitClose, s
  <2>2. TypeOK'
      BY <1>1, <2>1, AnswerTypes DEF IInv, TypeOK, Codes, Status
  <2>3. CloseIsWhole'
    <3> SUFFICES ASSUME NEW t \in Sessions
                 PROVE  /\ sessionStatus'[t] = checkStatus'[t]
                        /\ closures'[t] = IF checkStatus'[t] = "closed" THEN 1 ELSE 0
        BY DEF CloseIsWhole
    <3>1. CASE t = s
        BY <2>1, <3>1 DEF IInv, TypeOK
    <3>2. CASE t # s
      <4>1. /\ sessionStatus'[t] = sessionStatus[t]
            /\ checkStatus'[t] = checkStatus[t]
            /\ closures'[t] = closures[t]
          BY <2>1, <3>2 DEF IInv, TypeOK
      <4> QED
          BY <4>1 DEF IInv, CloseIsWhole
    <3> QED
        BY <3>1, <3>2
  <2>4. PaymentsAreKeyed' /\ VoidsAreAccounted'
      BY <2>1 DEF IInv, PaymentsAreKeyed, VoidsAreAccounted
  <2>5. \A t \in Sessions : checkStatus[t] # "none" => checkStatus'[t] # "none"
      BY <2>1 DEF IInv, TypeOK
  <2>6. ChargedBillsExist'
      BY <2>1, <2>5, RowsAreNotNull DEF IInv, ChargedBillsExist, PaymentRow
  <2>7. RequestsKnow'
    <3>1. \A x \in Requests : req'[x] \in {req[x], NoRequest}
        BY <2>1, AnswerTypes DEF IInv, Codes
    <3> QED
        BY <2>1, <2>5, <3>1, KnowledgeSurvives DEF IInv
  <2> QED
      BY <2>2, <2>3, <2>4, <2>6, <2>7 DEF IInv
<1> QED
    BY <1>2, <1>3

-----------------------------------------------------------------------------
\* Every step, and every stutter, preserves the inductive invariant.
THEOREM NextIInv == IInv /\ [Next]_vars => IInv'
<1> SUFFICES ASSUME IInv, [Next]_vars PROVE IInv'
    OBVIOUS
<1>1. CASE UNCHANGED vars
    BY <1>1 DEF vars, IInv, TypeOK, CloseIsWhole, PaymentsAreKeyed, VoidsAreAccounted,
                ChargedBillsExist, RequestsKnow, Knows
<1>2. CASE \E s \in Sessions, t \in Totals : PlaceOrder(s, t)
    BY <1>2, PlaceOrderStep
<1>3. CASE \E r \in Requests : CashierStep(r)
  <2> SUFFICES ASSUME NEW r \in Requests, CashierStep(r) PROVE IInv'
      BY <1>3
  <2>1. CASE \E s \in Sessions, k \in Keys, a \in Amounts : BeginRecord(r, s, k, a)
      BY <2>1, BeginRecordStep
  <2>2. CASE \E p \in Payments, k \in Keys, why \in Reasons : BeginVoid(r, p, k, why)
      BY <2>2, BeginVoidStep
  <2>3. CASE \E s \in Sessions : BeginClose(r, s)
      BY <2>3, BeginCloseStep
  <2>4. CASE ReadKey(r) \/ ReadTotal(r) \/ ReadPaid(r)
      BY <2>4, ReadKeyStep, ReadTotalStep, ReadPaidStep
  <2>5. CASE ReadCheckForVoid(r) \/ ReadVoidKey(r) \/ Vanish(r)
      BY <2>5, ReadCheckForVoidStep, ReadVoidKeyStep, VanishStep
  <2>6. CASE CommitRecord(r) \/ CommitVoid(r) \/ CommitClose(r)
      BY <2>6, CommitRecordStep, CommitVoidStep, CommitCloseStep
  <2> QED
      BY <2>1, <2>2, <2>3, <2>4, <2>5, <2>6 DEF CashierStep
<1> QED
    BY <1>1, <1>2, <1>3 DEF Next

THEOREM SpecIInv == Spec => []IInv
BY InitIInv, NextIInv, PTL DEF Spec

\* Every variable holds rows of its table in every reachable state.
THEOREM TypeCorrect == Spec => []TypeOK
BY SpecIInv, PTL DEF IInv

\* However many cashiers close at once, a close is all or nothing and leaves
\* exactly one closure row.
THEOREM ClosingIsWhole == Spec => []CloseIsWhole
BY SpecIInv, PTL DEF IInv

\* However requests are repeated or race, one Idempotency-Key buys one payment
\* and no payment exists without its key.
THEOREM KeysBuyOnce == Spec => []PaymentsAreKeyed
BY SpecIInv, PTL DEF IInv

-----------------------------------------------------------------------------
(***************************************************************************)
(* Settlement implements the ledger. Only the commits are visible there:   *)
(* the first order of a session opens its bill, CommitRecord enters a      *)
(* payment under a key never used on this bill, CommitVoid strikes it the  *)
(* first time and is invisible the second, CommitClose closes an open bill *)
(* because a closed one has its closure row.                               *)
(***************************************************************************)
\* The refinement mapping at the initial state.
LEMMA LedgerInits == Init => TheLedger!LedgerInit
BY DEF Init, TheLedger!LedgerInit, BookEntry, Bought, Absent

\* A step that leaves checks, payments and their keys alone is invisible.
LEMMA LedgerStutters ==
    ASSUME UNCHANGED <<checkStatus, payment, keyRow>>
    PROVE  UNCHANGED TheLedger!ledgerVars
BY DEF TheLedger!ledgerVars, BookEntry, Bought

LEMMA PlaceOrderOpens ==
    ASSUME IInv, NEW s \in Sessions, NEW t \in Totals, PlaceOrder(s, t)
    PROVE  [TheLedger!LedgerNext]_(TheLedger!ledgerVars)
<1>1. UNCHANGED <<payment, keyRow>>
    BY DEF PlaceOrder, money
<1>2. CASE checkStatus[s] # "none"
  <2>1. checkStatus' = checkStatus
      BY <1>2 DEF PlaceOrder, IInv, TypeOK
  <2> QED
      BY <1>1, <2>1, LedgerStutters
<1>3. CASE checkStatus[s] = "none"
  <2>1. checkStatus' = [checkStatus EXCEPT ![s] = "open"]
      BY <1>3 DEF PlaceOrder, IInv, TypeOK
  <2>2. TheLedger!OpenBill(s)
      BY <1>1, <1>3, <2>1 DEF TheLedger!OpenBill, BookEntry, Bought
  <2> QED
      BY <2>2 DEF TheLedger!LedgerNext
<1> QED
    BY <1>2, <1>3

LEMMA CommitRecordEnters ==
    ASSUME IInv, NEW r \in Requests, CommitRecord(r)
    PROVE  [TheLedger!LedgerNext]_(TheLedger!ledgerVars)
<1> DEFINE s == req[r].session
           k == req[r].key
           a == req[r].amount
<1>1. s \in Sessions /\ k \in Keys /\ a \in Amounts /\ checkStatus[s] # "none"
    BY DEF IInv, RequestsKnow, Knows, CommitRecord
<1>2. CASE Refuse(r, "integrity_error")
    BY <1>2, LedgerStutters DEF Refuse, tables, money
<1>3. CASE ~ Refuse(r, "integrity_error")
  <2> HIDE DEF s, k, a
  <2>1. PICK p \in Payments :
           /\ keyRow[s][k] = NULL
           /\ payment[p] = NULL
           /\ payment' = [payment EXCEPT ![p] =
                            [session |-> s, amount |-> a, status |-> "recorded"]]
           /\ keyRow' = [keyRow EXCEPT ![s][k] = [amount |-> a, payment |-> p]]
           /\ UNCHANGED <<tables, voidKeyRow, corrections, closures>>
      BY <1>3 DEF CommitRecord, s, k, a
  <2> DEFINE row == [session |-> s, amount |-> a, status |-> "recorded"]
             kr == [amount |-> a, payment |-> p]
             entry == [session |-> s, amount |-> a, standing |-> "entered"]
             book == [q \in Payments |-> BookEntry(q)]
             spent == [t \in Sessions |-> [l \in Keys |-> Bought(t, l)]]
  <2>2. row \in PaymentRow /\ kr \in KeyRow /\ row # NULL /\ kr # NULL
      BY <1>1, NullIsFresh DEF PaymentRow, KeyRow
  <2>3. book' = [book EXCEPT ![p] = entry]
    <3>1. \A q \in Payments : book'[q] = IF q = p THEN entry ELSE book[q]
        BY <2>1, <2>2 DEF BookEntry, IInv, TypeOK
    <3> QED
        BY <3>1
  <2>4. spent' = [spent EXCEPT ![s][k] = p]
    <3>1. \A t \in Sessions, l \in Keys :
             keyRow'[t][l] = IF <<t, l>> = <<s, k>> THEN kr ELSE keyRow[t][l]
        BY <1>1, <2>1 DEF IInv, TypeOK
    <3>2. \A t \in Sessions, l \in Keys :
             Bought(t, l)' = IF <<t, l>> = <<s, k>> THEN p ELSE Bought(t, l)
        BY <2>2, <3>1 DEF Bought
    <3> QED
        BY <1>1, <3>2
  <2>5. TheLedger!Enter(s, k, p, a)
    <3>1. book[p] = NULL /\ spent[s][k] = NULL
        BY <1>1, <2>1 DEF BookEntry, Bought
    <3> QED
        BY <1>1, <2>1, <2>3, <2>4, <3>1 DEF TheLedger!Enter, tables
  <2> QED
      BY <1>1, <2>5 DEF TheLedger!LedgerNext
<1> QED
    BY <1>2, <1>3

LEMMA CommitVoidStrikes ==
    ASSUME IInv, NEW r \in Requests, CommitVoid(r)
    PROVE  [TheLedger!LedgerNext]_(TheLedger!ledgerVars)
<1>1. PICK p \in Payments :
         p = req[r].payment /\ payment[p] # NULL /\ payment[p] \in PaymentRow
    BY DEF IInv, TypeOK, RequestsKnow, Knows, CommitVoid
<1> DEFINE book == [q \in Payments |-> BookEntry(q)]
<1>2. CASE Refuse(r, "integrity_error")
    BY <1>2, LedgerStutters DEF Refuse, tables, money
<1>3. CASE ~ Refuse(r, "integrity_error")
  <2>1. /\ payment' = [payment EXCEPT ![p].status = "voided"]
        /\ UNCHANGED <<tables, keyRow, closures>>
      BY <1>1, <1>3 DEF CommitVoid
  <2>2. CASE payment[p].status = "voided"
    <3>1. payment'[p] = payment[p]
        BY <1>1, <2>1, <2>2 DEF IInv, TypeOK, PaymentRow
    <3>2. payment' = payment
        BY <2>1, <3>1 DEF IInv, TypeOK
    <3> QED
        BY <2>1, <3>2, LedgerStutters DEF tables
  <2>3. CASE payment[p].status = "recorded"
    <3>1. /\ payment'[p].session = payment[p].session
          /\ payment'[p].amount = payment[p].amount
          /\ payment'[p].status = "voided"
          /\ payment'[p] \in PaymentRow
        BY <1>1, <2>1 DEF IInv, TypeOK, PaymentRow
    <3>2. book[p] = [session |-> payment[p].session, amount |-> payment[p].amount,
                     standing |-> "entered"]
        BY <1>1, <2>3 DEF BookEntry
    <3>3. book[p] # NULL
      <4>1. book[p] \in [session : Sessions, amount : Amounts, standing : {"entered", "struck"}]
          BY <1>1, <3>2 DEF PaymentRow
      <4> QED
          BY ONLY <4>1, SettlementAssumption DEF SettlementAssumption
    <3>4. book'[p] = [book[p] EXCEPT !.standing = "struck"]
      <4>1. book'[p] = BookEntry(p)'
          BY <1>1
      <4>2. payment'[p] # NULL
          BY <3>1, NullIsFresh
      <4>3. BookEntry(p)' = [session |-> payment[p].session, amount |-> payment[p].amount,
                             standing |-> "struck"]
          BY <3>1, <4>2 DEF BookEntry
      <4> QED
          BY <3>2, <4>1, <4>3
    <3>5. \A q \in Payments : q # p => book'[q] = book[q]
        BY <2>1 DEF BookEntry, IInv, TypeOK
    <3>6. book' = [book EXCEPT ![p].standing = "struck"]
        BY <1>1, <3>4, <3>5
    <3>7. TheLedger!Strike(p)
        BY <1>1, <2>1, <3>2, <3>3, <3>6 DEF TheLedger!Strike, tables, Bought
    <3> QED
        BY <1>1, <3>7 DEF TheLedger!LedgerNext
  <2> QED
      BY <1>1, <2>2, <2>3 DEF PaymentRow
<1> QED
    BY <1>2, <1>3

LEMMA CommitCloseCloses ==
    ASSUME IInv, NEW r \in Requests, CommitClose(r)
    PROVE  [TheLedger!LedgerNext]_(TheLedger!ledgerVars)
<1> DEFINE s == req[r].session
<1>1. s \in Sessions /\ checkStatus[s] # "none"
    BY DEF IInv, RequestsKnow, Knows, CommitClose
<1>2. CASE Refuse(r, "integrity_error")
    BY <1>2, LedgerStutters DEF Refuse, tables, money
<1>3. CASE ~ Refuse(r, "integrity_error")
  <2> HIDE DEF s
  <2>1. /\ closures[s] = 0
        /\ checkStatus' = [checkStatus EXCEPT ![s] = "closed"]
        /\ UNCHANGED <<payment, keyRow>>
      BY <1>3 DEF CommitClose, s
  <2>2. checkStatus[s] = "open"
      BY <1>1, <2>1 DEF IInv, TypeOK, CloseIsWhole, Status
  <2>3. TheLedger!CloseBill(s)
      BY <2>1, <2>2 DEF TheLedger!CloseBill, BookEntry, Bought
  <2> QED
      BY <1>1, <2>3 DEF TheLedger!LedgerNext
<1> QED
    BY <1>2, <1>3

LEMMA LedgerSteps == IInv /\ [Next]_vars => [TheLedger!LedgerNext]_(TheLedger!ledgerVars)
<1> SUFFICES ASSUME IInv, [Next]_vars PROVE [TheLedger!LedgerNext]_(TheLedger!ledgerVars)
    OBVIOUS
<1>1. CASE UNCHANGED vars
    BY <1>1, LedgerStutters DEF vars
<1>2. CASE \E s \in Sessions, t \in Totals : PlaceOrder(s, t)
    BY <1>2, PlaceOrderOpens
<1>3. CASE \E r \in Requests : CashierStep(r)
  <2> SUFFICES ASSUME NEW r \in Requests, CashierStep(r)
               PROVE  [TheLedger!LedgerNext]_(TheLedger!ledgerVars)
      BY <1>3
  <2>1. CASE CommitRecord(r) \/ CommitVoid(r) \/ CommitClose(r)
      BY <2>1, CommitRecordEnters, CommitVoidStrikes, CommitCloseCloses
  <2>2. CASE ~ (CommitRecord(r) \/ CommitVoid(r) \/ CommitClose(r))
    <3>1. UNCHANGED <<tables, money>>
        BY <2>2 DEF CashierStep, BeginRecord, BeginVoid, BeginClose, ReadKey, ReadTotal, ReadPaid,
                    ReadCheckForVoid, ReadVoidKey, Vanish, Refuse
    <3> QED
        BY <3>1, LedgerStutters DEF tables, money
  <2> QED
      BY <2>1, <2>2
<1> QED
    BY <1>1, <1>2, <1>3 DEF Next

\* Every behaviour of settlement is, seen through the mapping, one of the ledger.
THEOREM SettlementImplementsLedger == Spec => ImplementsLedger
<1>1. Init => TheLedger!LedgerInit
    BY LedgerInits
<1>2. IInv /\ [Next]_vars => [TheLedger!LedgerNext]_(TheLedger!ledgerVars)
    BY LedgerSteps
<1> QED
    BY <1>1, <1>2, SpecIInv, PTL DEF Spec, ImplementsLedger, TheLedger!LedgerSpec

-----------------------------------------------------------------------------
(***************************************************************************)
(* Sums of payments                                                        *)
(*                                                                         *)
(* Paid folds over a set in whatever order CHOOSE picks its members. That  *)
(* the order does not matter is shown by the smallest set for which it     *)
(* would.                                                                  *)
(***************************************************************************)

\* The sum of the amounts that pay gives to the members of S.
SumOf(pay, S) == MapThenSumSet(LAMBDA p : pay[p].amount, S)

Pick(S) == CHOOSE p \in S : TRUE

Rest(S) == S \ {Pick(S)}

\* g gives every part of S its sum.
IsSum(pay, S, g) ==
    g = [T \in SUBSET S |-> IF T = {} THEN 0 ELSE pay[Pick(T)].amount + g[Rest(T)]]

\* Paid is such a sum, in this state and in the next.
LEMMA PaidIsASum ==
    ASSUME NEW s
    PROVE  /\ Paid(s) = SumOf(payment, Counted(s))
           /\ Paid(s)' = SumOf(payment', Counted(s)')
BY DEF Paid, SumOf, MapThenSumSet, MapThenFoldSet

LEMMA SumIsChosen ==
    ASSUME NEW pay, NEW S
    PROVE  SumOf(pay, S) = (CHOOSE g : IsSum(pay, S, g))[S]
BY DEF SumOf, MapThenSumSet, MapThenFoldSet, IsSum, Pick, Rest

LEMMA PickIsAMember ==
    ASSUME NEW S, S # {}
    PROVE  Pick(S) \in S /\ Rest(S) \subseteq S /\ Rest(S) # S
BY DEF Pick, Rest

\* Of the parts of a finite set that are bad, one has no smaller bad part.
LEMMA SmallestPart ==
    ASSUME NEW S, IsFiniteSet(S), NEW Bad, Bad \subseteq SUBSET S, Bad # {}
    PROVE  \E T \in Bad : \A U \in Bad : ~ (U \subseteq T /\ U # T)
<1>1. IsWellFoundedOn(StrictSubsetOrdering(S), SUBSET S)
    BY FS_StrictSubsetOrderingWellFounded, FS_FiniteSubsetsOfFinite
<1>2. PICK T \in Bad : \A U \in Bad : <<U, T>> \notin StrictSubsetOrdering(S)
    BY <1>1, WFMin
<1> QED
    BY <1>2 DEF StrictSubsetOrdering

\* Two functions that give every part its sum agree on the parts they share.
LEMMA SumsAgree ==
    ASSUME NEW pay, NEW S, NEW T, IsFiniteSet(S), NEW g, NEW h,
           IsSum(pay, S, g), IsSum(pay, T, h)
    PROVE  \A U \in SUBSET S : U \subseteq T => g[U] = h[U]
<1> DEFINE Bad == {U \in SUBSET S : U \subseteq T /\ g[U] # h[U]}
<1>1. SUFFICES ASSUME Bad # {} PROVE FALSE
    OBVIOUS
<1>2. PICK U \in Bad : \A V \in Bad : ~ (V \subseteq U /\ V # U)
  <2>1. Bad \subseteq SUBSET S
      OBVIOUS
  <2> HIDE DEF Bad
  <2> QED
      BY <1>1, <2>1, SmallestPart
<1>3. U \in SUBSET S /\ U \in SUBSET T /\ g[U] # h[U]
    BY <1>2
<1>4. /\ g[U] = IF U = {} THEN 0 ELSE pay[Pick(U)].amount + g[Rest(U)]
      /\ h[U] = IF U = {} THEN 0 ELSE pay[Pick(U)].amount + h[Rest(U)]
    BY <1>3 DEF IsSum
<1>5. U # {}
    BY <1>3, <1>4
<1>6. g[Rest(U)] = h[Rest(U)]
    BY <1>2, <1>3, <1>5, PickIsAMember
<1> QED
    BY <1>3, <1>4, <1>5, <1>6

LEMMA SumExists ==
    ASSUME NEW pay, NEW S, IsFiniteSet(S)
    PROVE  \E g : IsSum(pay, S, g)
<1> DEFINE Bad == {T \in SUBSET S : ~ \E g : IsSum(pay, T, g)}
<1>1. SUFFICES ASSUME Bad # {} PROVE FALSE
    OBVIOUS
<1>2. PICK T \in Bad : \A V \in Bad : ~ (V \subseteq T /\ V # T)
  <2>1. Bad \subseteq SUBSET S
      OBVIOUS
  <2> HIDE DEF Bad
  <2> QED
      BY <1>1, <2>1, SmallestPart
<1> DEFINE Sums(V) == CHOOSE g : IsSum(pay, V, g)
           G == [V \in SUBSET T |->
                    IF V = {} THEN 0 ELSE pay[Pick(V)].amount + Sums(Rest(V))[Rest(V)]]
<1>3. \A V : V \subseteq T /\ V # T => IsSum(pay, V, Sums(V)) /\ IsFiniteSet(V)
  <2> SUFFICES ASSUME NEW V, V \subseteq T, V # T
               PROVE  IsSum(pay, V, Sums(V)) /\ IsFiniteSet(V)
      OBVIOUS
  <2>1. \E g : IsSum(pay, V, g)
    <3>1. V \in SUBSET S /\ V \notin Bad
        BY <1>2
    <3> QED
        BY <3>1
  <2>2. IsFiniteSet(V)
      BY <1>2, FS_Subset
  <2> QED
      BY <2>1, <2>2
<1>4. \A V \in SUBSET T : V # {} => G[Rest(V)] = Sums(Rest(V))[Rest(V)]
  <2> SUFFICES ASSUME NEW V \in SUBSET T, V # {}
               PROVE  G[Rest(V)] = Sums(Rest(V))[Rest(V)]
      OBVIOUS
  <2> DEFINE W == Rest(V)
  <2>1. W \subseteq T /\ W # T /\ IsSum(pay, W, Sums(W)) /\ IsFiniteSet(W)
    <3>1. W \subseteq V /\ W # V
        BY PickIsAMember
    <3>2. W \subseteq T /\ W # T
        BY <3>1
    <3> HIDE DEF W, Sums
    <3> QED
        BY <1>3, <3>2
  <2>2. Sums(W)[W] = IF W = {} THEN 0 ELSE pay[Pick(W)].amount + Sums(W)[Rest(W)]
    <3> HIDE DEF Sums, W
    <3> QED
        BY <2>1 DEF IsSum
  <2>3. G[W] = IF W = {} THEN 0 ELSE pay[Pick(W)].amount + Sums(Rest(W))[Rest(W)]
      BY <2>1
  <2>4. CASE W = {}
      BY <2>2, <2>3, <2>4
  <2>5. CASE W # {}
    <3>1. Rest(W) \subseteq W /\ Rest(W) # W
        BY <2>5, PickIsAMember
    <3>2. Rest(W) \subseteq T /\ Rest(W) # T
        BY <2>1, <3>1
    <3>3. IsSum(pay, Rest(W), Sums(Rest(W)))
        BY <1>3, <3>2
    <3>4. Sums(W)[Rest(W)] = Sums(Rest(W))[Rest(W)]
      <4> HIDE DEF Sums, W
      <4> QED
          BY <2>1, <3>1, <3>3, SumsAgree
    <3> QED
        BY <2>2, <2>3, <2>5, <3>4
  <2> QED
      BY <2>4, <2>5
<1>5. IsSum(pay, T, G)
  <2>1. \A V \in SUBSET T :
            G[V] = IF V = {} THEN 0 ELSE pay[Pick(V)].amount + G[Rest(V)]
    <3> TAKE V \in SUBSET T
    <3>1. G[V] = IF V = {} THEN 0 ELSE pay[Pick(V)].amount + Sums(Rest(V))[Rest(V)]
        OBVIOUS
    <3>2. CASE V = {}
        BY <3>1, <3>2
    <3>3. CASE V # {}
      <4>1. G[Rest(V)] = Sums(Rest(V))[Rest(V)]
          BY <1>4, <3>3
      <4> HIDE DEF G, Sums
      <4> QED
          BY <3>1, <3>3, <4>1
    <3> QED
        BY <3>2, <3>3
  <2>2. G = [V \in SUBSET T |-> G[V]]
      OBVIOUS
  <2> HIDE DEF G
  <2>3. G = [V \in SUBSET T |-> IF V = {} THEN 0 ELSE pay[Pick(V)].amount + G[Rest(V)]]
      BY <2>1, <2>2
  <2> QED
      BY <2>3 DEF IsSum
<1> QED
    BY <1>2, <1>5

\* The sum of a set is what is picked first and the sum of the rest.
LEMMA SumOfRest ==
    ASSUME NEW pay, NEW S, IsFiniteSet(S)
    PROVE  SumOf(pay, S) = IF S = {} THEN 0
                           ELSE pay[Pick(S)].amount + SumOf(pay, Rest(S))
<1> DEFINE g == CHOOSE f : IsSum(pay, S, f)
           h == CHOOSE f : IsSum(pay, Rest(S), f)
<1>1. IsSum(pay, S, g)
    BY SumExists
<1>2. IsFiniteSet(Rest(S)) /\ Rest(S) \subseteq S
    BY FS_Subset DEF Rest
<1>3. IsSum(pay, Rest(S), h)
    BY <1>2, SumExists
<1>4. SumOf(pay, S) = g[S] /\ SumOf(pay, Rest(S)) = h[Rest(S)]
    BY SumIsChosen
<1> HIDE DEF g, h
<1>5. g[S] = IF S = {} THEN 0 ELSE pay[Pick(S)].amount + g[Rest(S)]
    BY <1>1 DEF IsSum
<1>6. g[Rest(S)] = h[Rest(S)]
    BY <1>1, <1>2, <1>3, SumsAgree
<1> QED
    BY <1>4, <1>5, <1>6

\* A sum of natural numbers is one.
LEMMA SumIsNatural ==
    ASSUME NEW pay, NEW S, IsFiniteSet(S), \A p \in S : pay[p].amount \in Nat
    PROVE  SumOf(pay, S) \in Nat
<1> DEFINE Bad == {T \in SUBSET S : SumOf(pay, T) \notin Nat}
<1>1. SUFFICES ASSUME Bad # {} PROVE FALSE
    OBVIOUS
<1>2. PICK T \in Bad : \A V \in Bad : ~ (V \subseteq T /\ V # T)
  <2>1. Bad \subseteq SUBSET S
      OBVIOUS
  <2> HIDE DEF Bad
  <2> QED
      BY <1>1, <2>1, SmallestPart
<1>3. IsFiniteSet(T) /\ SumOf(pay, T) \notin Nat /\ T \subseteq S
    BY <1>2, FS_Subset
<1>4. SumOf(pay, T) = IF T = {} THEN 0 ELSE pay[Pick(T)].amount + SumOf(pay, Rest(T))
    BY <1>3, SumOfRest
<1>5. T # {}
    BY <1>3, <1>4
<1>6. Pick(T) \in S /\ SumOf(pay, Rest(T)) \in Nat
    BY <1>2, <1>3, <1>5, PickIsAMember
<1> QED
    BY <1>3, <1>4, <1>5, <1>6

\* Whatever the order, any member may be counted first.
LEMMA SumWithout ==
    ASSUME NEW pay, NEW S, IsFiniteSet(S), \A p \in S : pay[p].amount \in Nat,
           NEW q \in S
    PROVE  SumOf(pay, S) = pay[q].amount + SumOf(pay, S \ {q})
<1> DEFINE Bad == {T \in SUBSET S :
                      \E p \in T : SumOf(pay, T) # pay[p].amount + SumOf(pay, T \ {p})}
<1>1. SUFFICES ASSUME Bad # {} PROVE FALSE
    OBVIOUS
<1>2. PICK T \in Bad : \A V \in Bad : ~ (V \subseteq T /\ V # T)
  <2>1. Bad \subseteq SUBSET S
      OBVIOUS
  <2> HIDE DEF Bad
  <2> QED
      BY <1>1, <2>1, SmallestPart
<1>3. T \subseteq S /\ IsFiniteSet(T)
    BY <1>2, FS_Subset
<1>4. PICK y \in T : SumOf(pay, T) # pay[y].amount + SumOf(pay, T \ {y})
    BY <1>2
<1> DEFINE x == Pick(T)
           R == T \ {x, y}
<1>5. x \in T /\ Rest(T) = T \ {x}
    BY <1>4, PickIsAMember DEF Rest
<1>6. SumOf(pay, T) = pay[x].amount + SumOf(pay, T \ {x})
    BY <1>3, <1>4, <1>5, SumOfRest
<1>7. x # y
    BY <1>4, <1>6
<1>8. SumOf(pay, T \ {x}) = pay[y].amount + SumOf(pay, R)
  <2>1. T \ {x} \notin Bad /\ T \ {x} \in SUBSET S /\ y \in T \ {x}
      BY <1>2, <1>3, <1>5, <1>7
  <2>2. (T \ {x}) \ {y} = R
      OBVIOUS
  <2> QED
      BY <2>1, <2>2
<1>9. SumOf(pay, T \ {y}) = pay[x].amount + SumOf(pay, R)
  <2>1. T \ {y} \notin Bad /\ T \ {y} \in SUBSET S /\ x \in T \ {y}
      BY <1>2, <1>3, <1>5, <1>7
  <2>2. (T \ {y}) \ {x} = R
      OBVIOUS
  <2> QED
      BY <2>1, <2>2
<1>10. pay[x].amount \in Nat /\ pay[y].amount \in Nat /\ SumOf(pay, R) \in Nat
  <2>1. IsFiniteSet(R) /\ R \subseteq S
      BY <1>3, FS_Subset
  <2> QED
      BY <1>3, <1>5, <2>1, SumIsNatural
<1> HIDE DEF x, R
<1> QED
    BY <1>4, <1>6, <1>8, <1>9, <1>10

\* Only the amounts of the members matter.
LEMMA SameAmountsSameSum ==
    ASSUME NEW pay, NEW pay2, NEW S, IsFiniteSet(S),
           \A p \in S : pay[p].amount = pay2[p].amount
    PROVE  SumOf(pay, S) = SumOf(pay2, S)
<1> DEFINE Bad == {T \in SUBSET S : SumOf(pay, T) # SumOf(pay2, T)}
<1>1. SUFFICES ASSUME Bad # {} PROVE FALSE
    OBVIOUS
<1>2. PICK T \in Bad : \A V \in Bad : ~ (V \subseteq T /\ V # T)
  <2>1. Bad \subseteq SUBSET S
      OBVIOUS
  <2> HIDE DEF Bad
  <2> QED
      BY <1>1, <2>1, SmallestPart
<1>3. IsFiniteSet(T) /\ SumOf(pay, T) # SumOf(pay2, T) /\ T \subseteq S
    BY <1>2, FS_Subset
<1>4. /\ SumOf(pay, T) = IF T = {} THEN 0 ELSE pay[Pick(T)].amount + SumOf(pay, Rest(T))
      /\ SumOf(pay2, T) = IF T = {} THEN 0 ELSE pay2[Pick(T)].amount + SumOf(pay2, Rest(T))
    BY <1>3, SumOfRest
<1>5. T # {}
    BY <1>3, <1>4
<1>6. Pick(T) \in S /\ SumOf(pay, Rest(T)) = SumOf(pay2, Rest(T))
    BY <1>2, <1>3, <1>5, PickIsAMember
<1> QED
    BY <1>3, <1>4, <1>5, <1>6

\* A new member adds its amount.
LEMMA SumWithOneMore ==
    ASSUME NEW pay, NEW next, NEW S, IsFiniteSet(S), NEW q, q \notin S,
           \A p \in S : pay[p].amount \in Nat /\ next[p].amount = pay[p].amount,
           next[q].amount \in Nat
    PROVE  SumOf(next, S \cup {q}) = SumOf(pay, S) + next[q].amount
<1> DEFINE R == S \cup {q}
<1>1. IsFiniteSet(R) /\ q \in R /\ R \ {q} = S
    BY FS_AddElement
<1>2. \A p \in R : next[p].amount \in Nat
    OBVIOUS
<1> HIDE DEF R
<1>3. SumOf(next, R) = next[q].amount + SumOf(next, R \ {q})
    BY <1>1, <1>2, SumWithout
<1>4. SumOf(next, R \ {q}) = SumOf(pay, S) /\ SumOf(pay, S) \in Nat
    BY <1>1, SameAmountsSameSum, SumIsNatural
<1>5. SumOf(next, R) = SumOf(pay, S) + next[q].amount
    BY <1>3, <1>4
<1> QED
    BY <1>5 DEF R

\* Without one of its members a sum is no greater.
LEMMA SumWithOneLess ==
    ASSUME NEW pay, NEW next, NEW S, IsFiniteSet(S), NEW q,
           \A p \in S : pay[p].amount \in Nat /\ next[p].amount = pay[p].amount
    PROVE  /\ SumOf(next, S \ {q}) \in Nat
           /\ SumOf(next, S \ {q}) <= SumOf(pay, S)
<1> DEFINE R == S \ {q}
<1>1. IsFiniteSet(R) /\ R \subseteq S
    BY FS_RemoveElement
<1>2. SumOf(next, R) = SumOf(pay, R) /\ SumOf(pay, R) \in Nat
    BY <1>1, SameAmountsSameSum, SumIsNatural
<1>3. CASE q \in S
  <2>1. SumOf(pay, S) = pay[q].amount + SumOf(pay, R) /\ pay[q].amount \in Nat
      BY <1>3, SumWithout
  <2> HIDE DEF R
  <2>2. SumOf(next, R) \in Nat /\ SumOf(next, R) <= SumOf(pay, S)
      BY <1>2, <2>1
  <2> QED
      BY <2>2 DEF R
<1>4. CASE q \notin S
  <2>1. R = S
      BY <1>4
  <2> HIDE DEF R
  <2>2. SumOf(next, R) \in Nat /\ SumOf(next, R) <= SumOf(pay, S)
      BY <1>2, <2>1
  <2> QED
      BY <2>2 DEF R
<1> QED
    BY <1>3, <1>4

-----------------------------------------------------------------------------
(***************************************************************************)
(* How far a check can be overpaid                                         *)
(*                                                                         *)
(* PaidWithinRaces is not inductive: nothing in it keeps two requests from *)
(* having decided on their payments already. RacesIInv counts the requests *)
(* that have not: each of them can bring in one more total at most, since  *)
(* it decides on what it read (ReadsAreWithinBills), and of those that     *)
(* have decided one at least left room for its own amount (RoomIsLeft).    *)
(***************************************************************************)

\* The requests that will charge session s with their next statement.
Pending(s) == {r \in Requests : /\ req[r].pc = "commit"
                                /\ req[r].op = "record"
                                /\ req[r].session = s}

Free(s) == Requests \ Pending(s)

\* No request has read, or decided on, more than the bill as it stands.
ReadsAreWithinBills ==
    \A r \in Requests :
        /\ req[r].pc = "paid" => req[r].total <= total[req[r].session]
        /\ req[r].pc = "commit" /\ req[r].op = "record"
              => req[r].amount <= total[req[r].session]

RoomIsLeft ==
    \A s \in Sessions :
        \/ Paid(s) <= Cardinality(Free(s)) * total[s]
        \/ \E r \in Pending(s) :
              Paid(s) + req[r].amount <= (Cardinality(Free(s)) + 1) * total[s]

PaymentsAreFinite == IsFiniteSet({p \in Payments : payment[p] # NULL})

RacesIInv ==
    /\ IInv
    /\ PaymentsAreFinite
    /\ ReadsAreWithinBills
    /\ RoomIsLeft

-----------------------------------------------------------------------------
LEMMA Products ==
    ASSUME NEW n \in Nat, NEW t \in Nat
    PROVE  n * t \in Nat /\ (n + 1) * t = n * t + t
OBVIOUS

\* A product grows with either factor.
LEMMA ProductsGrow ==
    ASSUME NEW n \in Nat, NEW m \in Nat, n <= m, NEW t \in Nat, NEW u \in Nat, t <= u
    PROVE  n * t <= m * u
OBVIOUS

LEMMA FreeIsFinite ==
    ASSUME NEW s
    PROVE  /\ IsFiniteSet(Free(s))
           /\ Cardinality(Free(s)) \in Nat
           /\ Cardinality(Free(s)) <= Cardinality(Requests)
           /\ Cardinality(Requests) \in Nat
BY SettlementAssumption, FS_Subset, FS_CardinalityType DEF SettlementAssumption, Free

LEMMA CountedIsFinite ==
    ASSUME TypeOK, PaymentsAreFinite, NEW s
    PROVE  /\ IsFiniteSet(Counted(s))
           /\ \A p \in Counted(s) : payment[p].amount \in Nat
           /\ Paid(s) \in Nat
<1>1. Counted(s) \subseteq {p \in Payments : payment[p] # NULL}
    BY DEF Counted
<1>2. IsFiniteSet(Counted(s))
    BY <1>1, FS_Subset DEF PaymentsAreFinite
<1>3. \A p \in Counted(s) : payment[p].amount \in Nat
    BY SettlementAssumption, RowsAreNotNull DEF SettlementAssumption, Counted, PaymentRow
<1> QED
    BY <1>2, <1>3, SumIsNatural, PaidIsASum

\* A step that writes no payment leaves what was paid.
LEMMA NothingIsPaid ==
    ASSUME payment' = payment, NEW s
    PROVE  Paid(s)' = Paid(s)
<1>1. Counted(s)' = Counted(s)
    BY DEF Counted
<1> QED
    BY <1>1, PaidIsASum

\* A void takes from what was paid, or leaves it.
LEMMA VoidLowersPaid ==
    ASSUME TypeOK, PaymentsAreFinite, NEW p \in Payments, payment[p] # NULL,
           payment' = [payment EXCEPT ![p].status = "voided"], NEW s
    PROVE  Paid(s)' \in Nat /\ Paid(s)' <= Paid(s)
<1>1. \A q \in Payments : payment[q] # NULL => payment'[q].amount = payment[q].amount
    BY RowsAreNotNull DEF TypeOK, PaymentRow
<1>2. Counted(s)' = Counted(s) \ {p}
  <2>1. payment'[p].status = "voided"
      BY RowsAreNotNull DEF TypeOK, PaymentRow
  <2>2. \A q \in Payments : q # p => payment'[q] = payment[q]
      BY DEF TypeOK
  <2> QED
      BY <2>1, <2>2 DEF Counted
<1>3. /\ IsFiniteSet(Counted(s))
      /\ \A q \in Counted(s) : payment[q].amount \in Nat /\ payment'[q].amount = payment[q].amount
  <2>1. \A q \in Counted(s) : q \in Payments /\ payment[q] # NULL
      BY DEF Counted
  <2> QED
      BY <1>1, <2>1, CountedIsFinite
<1>4. /\ SumOf(payment', Counted(s) \ {p}) \in Nat
      /\ SumOf(payment', Counted(s) \ {p}) <= SumOf(payment, Counted(s))
    BY <1>3, SumWithOneLess
<1> QED
    BY <1>2, <1>4, PaidIsASum

\* A payment adds its amount to its own session, and to no other.
LEMMA PaymentRaisesPaid ==
    ASSUME TypeOK, PaymentsAreFinite, NEW p \in Payments, payment[p] = NULL,
           NEW t \in Sessions, NEW a \in Amounts,
           payment' = [payment EXCEPT ![p] =
                          [session |-> t, amount |-> a, status |-> "recorded"]],
           NEW s \in Sessions
    PROVE  Paid(s)' = IF s = t THEN Paid(s) + a ELSE Paid(s)
<1> DEFINE row == [session |-> t, amount |-> a, status |-> "recorded"]
<1>1. payment'[p] = row /\ \A q \in Payments : q # p => payment'[q] = payment[q]
    BY DEF TypeOK
<1>2. row # NULL /\ a \in Nat
  <2>1. row \in PaymentRow
      BY DEF PaymentRow
  <2> QED
      BY <2>1, NullIsFresh, SettlementAssumption DEF SettlementAssumption
<1>3. p \notin Counted(s)
    BY DEF Counted
<1>4. /\ IsFiniteSet(Counted(s))
      /\ \A q \in Counted(s) : payment[q].amount \in Nat /\ payment'[q].amount = payment[q].amount
  <2>1. \A q \in Counted(s) : payment'[q] = payment[q]
      BY <1>1, <1>3 DEF Counted
  <2> QED
      BY <2>1, CountedIsFinite
<1>5. CASE s = t
  <2>1. Counted(s)' = Counted(s) \cup {p}
      BY <1>1, <1>2, <1>5 DEF Counted
  <2>2. payment'[p].amount = a
      BY <1>1
  <2>3. SumOf(payment', Counted(s) \cup {p}) = SumOf(payment, Counted(s)) + payment'[p].amount
    <3>1. payment'[p].amount \in Nat
        BY <1>2, <2>2
    <3> QED
        BY ONLY <1>3, <1>4, <3>1, SumWithOneMore
  <2> QED
      BY <1>5, <2>1, <2>2, <2>3, PaidIsASum
<1>6. CASE s # t
  <2>1. Counted(s)' = Counted(s)
      BY <1>1, <1>2, <1>3, <1>6 DEF Counted
  <2>2. SumOf(payment, Counted(s)) = SumOf(payment', Counted(s))
      BY ONLY <1>4, SameAmountsSameSum
  <2> QED
      BY <1>6, <2>1, <2>2, PaidIsASum
<1> QED
    BY <1>5, <1>6

-----------------------------------------------------------------------------
\* What the conjuncts of IInv say of a request that is about to decide or charge.
LEMMA RequestRowsKnow ==
    ASSUME IInv, NEW r \in Requests
    PROVE  /\ req[r] \in RequestRow
           /\ req[r].total \in Nat
           /\ req[r].pc \in {"total", "paid", "commit"} => req[r].session \in Sessions
           /\ req[r].pc \in {"paid", "commit"} /\ req[r].op = "record" => req[r].amount \in Nat
<1>1. req[r] \in RequestRow /\ Knows(req[r])
    BY DEF IInv, TypeOK, RequestsKnow
<1> QED
    BY <1>1, SettlementAssumption DEF SettlementAssumption, RequestRow, Knows

LEMMA TotalsAreNatural ==
    ASSUME IInv, NEW s \in Sessions
    PROVE  total[s] \in Nat
BY DEF IInv, TypeOK

\* While bills only grow, what was read of them stays within them.
LEMMA ReadsStayWithinBills ==
    ASSUME IInv, ReadsAreWithinBills, NEW r \in Requests, NEW row,
           req' = [req EXCEPT ![r] = row],
           total' = total,
           row.pc = "paid" => row.total <= total[row.session],
           row.pc = "commit" /\ row.op = "record" => row.amount <= total[row.session]
    PROVE  ReadsAreWithinBills'
<1> SUFFICES ASSUME NEW x \in Requests
             PROVE  /\ req'[x].pc = "paid" => req'[x].total <= total[req'[x].session]
                    /\ req'[x].pc = "commit" /\ req'[x].op = "record"
                          => req'[x].amount <= total[req'[x].session]
    BY DEF ReadsAreWithinBills
<1>1. CASE x = r
  <2>1. req'[x] = row
      BY <1>1 DEF IInv, TypeOK
  <2> QED
      BY <2>1
<1>2. CASE x # r
  <2>1. req'[x] = req[x]
      BY <1>2 DEF IInv, TypeOK
  <2> QED
      BY <2>1 DEF ReadsAreWithinBills
<1> QED
    BY <1>1, <1>2

(***************************************************************************)
(* A step that puts no request before its commit. If the request was about *)
(* to charge the session, it is free from now on and the bound rises by a  *)
(* total, of which the step has used at most the request's amount. If it   *)
(* was the one that had left room for itself, the room becomes the others'.*)
(***************************************************************************)
LEMMA RoomAfterStep ==
    ASSUME RacesIInv, NEW r \in Requests, NEW row,
           req' = [req EXCEPT ![r] = row],
           ~ (row.pc = "commit" /\ row.op = "record"),
           total' = total,
           \A s \in Sessions :
              /\ Paid(s)' \in Nat
              /\ Paid(s)' <= IF r \in Pending(s) THEN Paid(s) + req[r].amount ELSE Paid(s)
    PROVE  RoomIsLeft'
<1> SUFFICES ASSUME NEW s \in Sessions
             PROVE  \/ Paid(s)' <= Cardinality(Free(s)') * total[s]
                    \/ \E x \in Pending(s)' :
                          Paid(s)' + req'[x].amount <= (Cardinality(Free(s)') + 1) * total[s]
    BY DEF RoomIsLeft
<1>1. /\ req'[r] = row
      /\ \A x \in Requests : x # r => req'[x] = req[x]
    BY DEF RacesIInv, IInv, TypeOK
<1>2. Pending(s)' = Pending(s) \ {r}
    BY <1>1 DEF Pending
<1>3. /\ Paid(s) \in Nat
      /\ total[s] \in Nat
      /\ \A x \in Pending(s) : /\ x \in Requests
                              /\ req[x].amount \in Nat
                              /\ req[x].amount <= total[s]
    BY CountedIsFinite, TotalsAreNatural, RequestRowsKnow
       DEF RacesIInv, IInv, Pending, ReadsAreWithinBills
<1> DEFINE n == Cardinality(Free(s))
           t == total[s]
           paid == Paid(s)
           paid2 == Paid(s)'
<1>4. n \in Nat /\ IsFiniteSet(Free(s))
    BY FreeIsFinite
<1>5. \/ paid <= n * t
      \/ \E x \in Pending(s) : paid + req[x].amount <= (n + 1) * t
    BY DEF RacesIInv, RoomIsLeft
<1>6. /\ n * t \in Nat
      /\ (n + 1) * t = n * t + t
      /\ ((n + 1) + 1) * t = n * t + t + t
    BY <1>3, <1>4, Products
<1>7. CASE r \in Pending(s)
  <2>1. Free(s)' = Free(s) \cup {r} /\ r \notin Free(s)
      BY <1>2, <1>7 DEF Free
  <2>2. Cardinality(Free(s)') = n + 1
      BY <1>4, <2>1, FS_AddElement
  <2>3. /\ paid2 \in Nat /\ paid2 <= paid + req[r].amount
        /\ req[r].amount \in Nat /\ req[r].amount <= t
      BY <1>3, <1>7
  <2>4. CASE paid <= n * t
    <3> HIDE DEF n, t, paid, paid2
    <3>1. paid2 <= (n + 1) * t
        BY <1>3, <1>6, <2>3, <2>4 DEF paid, t
    <3> QED
        BY <2>2, <3>1 DEF paid2, t
  <2>5. CASE \E x \in Pending(s) : paid + req[x].amount <= (n + 1) * t
    <3>1. PICK x \in Pending(s) : paid + req[x].amount <= (n + 1) * t
        BY <2>5
    <3>2. CASE x = r
      <4> HIDE DEF n, t, paid, paid2
      <4>1. paid2 <= (n + 1) * t
          BY <1>3, <1>6, <2>3, <3>1, <3>2 DEF paid, t
      <4> QED
          BY <2>2, <4>1 DEF paid2, t
    <3>3. CASE x # r
      <4>1. x \in Pending(s)' /\ req'[x] = req[x]
          BY <1>1, <1>2, <1>3, <3>3
      <4>2. req[x].amount \in Nat
          BY <1>3
      <4> HIDE DEF n, t, paid, paid2
      <4>3. paid2 + req[x].amount <= ((n + 1) + 1) * t
          BY <1>3, <1>6, <2>3, <3>1, <4>2 DEF paid, t
      <4> QED
          BY <2>2, <4>1, <4>3 DEF paid2, t
    <3> QED
        BY <3>2, <3>3
  <2> QED
      BY <1>5, <2>4, <2>5
<1>8. CASE r \notin Pending(s)
  <2>1. Pending(s)' = Pending(s) /\ Free(s)' = Free(s)
      BY <1>2, <1>8 DEF Free
  <2>2. paid2 \in Nat /\ paid2 <= paid
      BY <1>8
  <2>3. CASE paid <= n * t
    <3>1. paid2 <= n * t
        BY <1>3, <1>6, <2>2, <2>3
    <3> QED
        BY <2>1, <3>1
  <2>4. CASE \E x \in Pending(s) : paid + req[x].amount <= (n + 1) * t
    <3>1. PICK x \in Pending(s) : paid + req[x].amount <= (n + 1) * t
        BY <2>4
    <3>2. x \in Pending(s)' /\ req'[x] = req[x] /\ req[x].amount \in Nat
        BY <1>1, <1>3, <1>8, <2>1
    <3>3. paid2 + req[x].amount <= (n + 1) * t
        BY <1>3, <1>6, <2>2, <3>1, <3>2
    <3> QED
        BY <2>1, <3>2, <3>3
  <2> QED
      BY <1>5, <2>3, <2>4
<1> QED
    BY <1>7, <1>8

\* Most steps write neither payments nor totals, and bring no request to its commit.
LEMMA QuietStep ==
    ASSUME RacesIInv, NEW r \in Requests, NEW row,
           req' = [req EXCEPT ![r] = row],
           payment' = payment, total' = total,
           ~ (row.pc = "commit" /\ row.op = "record"),
           row.pc = "paid" => row.total <= total[row.session]
    PROVE  PaymentsAreFinite' /\ ReadsAreWithinBills' /\ RoomIsLeft'
<1>1. PaymentsAreFinite'
    BY DEF RacesIInv, PaymentsAreFinite
<1>2. ReadsAreWithinBills'
    BY ReadsStayWithinBills DEF RacesIInv
<1>3. \A s \in Sessions :
         /\ Paid(s)' \in Nat
         /\ Paid(s)' <= IF r \in Pending(s) THEN Paid(s) + req[r].amount ELSE Paid(s)
  <2> SUFFICES ASSUME NEW s \in Sessions
               PROVE  /\ Paid(s)' \in Nat
                      /\ Paid(s)' <= IF r \in Pending(s) THEN Paid(s) + req[r].amount ELSE Paid(s)
      OBVIOUS
  <2>1. Paid(s)' = Paid(s) /\ Paid(s) \in Nat
      BY NothingIsPaid, CountedIsFinite DEF RacesIInv, IInv
  <2>2. r \in Pending(s) => req[r].amount \in Nat
      BY RequestRowsKnow DEF RacesIInv, Pending
  <2> QED
      BY <2>1, <2>2
<1> QED
    BY <1>1, <1>2, <1>3, RoomAfterStep

\* A request that ends without writing a payment.
LEMMA QuietEnd ==
    ASSUME RacesIInv, NEW r \in Requests, req' = [req EXCEPT ![r] = NoRequest],
           payment' = payment, total' = total
    PROVE  PaymentsAreFinite' /\ ReadsAreWithinBills' /\ RoomIsLeft'
BY NoRequestIsARow, QuietStep

(***************************************************************************)
(* The decision. What is left leaves room for the amount within one total, *)
(* and the request is not counted as free any more.                        *)
(***************************************************************************)
LEMMA DecisionLeavesRoom ==
    ASSUME RacesIInv, NEW r \in Requests, req[r].pc = "paid", req[r].op = "record",
           req[r].amount <= Remaining(req[r].total, Paid(req[r].session)),
           Continue(r, [req[r] EXCEPT !.pc = "commit", !.total = 0]),
           UNCHANGED <<tables, money>>
    PROVE  PaymentsAreFinite' /\ ReadsAreWithinBills' /\ RoomIsLeft'
<1> DEFINE row == [req[r] EXCEPT !.pc = "commit", !.total = 0]
           s == req[r].session
           a == req[r].amount
<1>1. /\ req[r] \in RequestRow /\ req[r].total \in Nat /\ s \in Sessions
      /\ a \in Amounts /\ a \in Nat /\ a > 0
  <2>1. Knows(req[r])
      BY DEF RacesIInv, IInv, RequestsKnow
  <2>2. a \in Amounts /\ a \in Nat /\ a > 0
      BY <2>1, SettlementAssumption DEF SettlementAssumption, Knows
  <2> QED
      BY <2>2, RequestRowsKnow DEF RacesIInv
<1>2. payment' = payment /\ total' = total /\ req' = [req EXCEPT ![r] = row]
    BY DEF Continue, tables, money
<1>3. row.pc = "commit" /\ row.op = "record" /\ row.session = s /\ row.amount = a
    BY <1>1 DEF RequestRow
<1>4. Paid(s) \in Nat /\ total[s] \in Nat /\ req[r].total <= total[s]
    BY <1>1, CountedIsFinite, TotalsAreNatural DEF RacesIInv, IInv, ReadsAreWithinBills
<1>5. Paid(s) + a <= total[s]
    BY <1>1, <1>4 DEF Remaining
<1>6. PaymentsAreFinite'
    BY <1>2 DEF RacesIInv, PaymentsAreFinite
<1>7. ReadsAreWithinBills'
  <2>1. a <= total[s]
      BY <1>1, <1>4, <1>5
  <2> HIDE DEF row
  <2> QED
      BY <1>2, <1>3, <2>1, ReadsStayWithinBills DEF RacesIInv
<1>8. RoomIsLeft'
  <2> SUFFICES ASSUME NEW x \in Sessions
               PROVE  \/ Paid(x)' <= Cardinality(Free(x)') * total[x]
                      \/ \E q \in Pending(x)' :
                            Paid(x)' + req'[q].amount <= (Cardinality(Free(x)') + 1) * total[x]
      BY <1>2 DEF RoomIsLeft
  <2>1. Paid(x)' = Paid(x)
      BY <1>2, NothingIsPaid
  <2>2. req'[r] = row /\ \A q \in Requests : q # r => req'[q] = req[q]
      BY <1>2 DEF RacesIInv, IInv, TypeOK
  <2>3. CASE x = s
    <3>1. r \in Pending(x)' /\ req'[r].amount = a
        BY <1>3, <2>2, <2>3 DEF Pending
    <3>2. IsFiniteSet(Free(x)') /\ Cardinality(Free(x)') \in Nat
      <4>1. Free(x)' \subseteq Requests
          BY DEF Free
      <4> QED
          BY <4>1, SettlementAssumption, FS_Subset, FS_CardinalityType DEF SettlementAssumption
    <3> DEFINE n == Cardinality(Free(x)')
               t == total[s]
               p == Paid(s)
    <3>3. p + a <= (n + 1) * t
      <4>1. n \in Nat /\ t \in Nat /\ p + a <= t /\ p \in Nat
          BY <1>4, <1>5, <3>2
      <4> HIDE DEF n, t, p
      <4>2. n * t \in Nat /\ (n + 1) * t = n * t + t
          BY <4>1, Products
      <4> QED
          BY <1>1, <4>1, <4>2
    <3> QED
        BY <2>1, <2>3, <3>1, <3>3
  <2>4. CASE x # s
    <3>1. r \notin Pending(x)' /\ r \notin Pending(x)
        BY <1>3, <2>2, <2>4 DEF Pending
    <3>2. Pending(x)' = Pending(x) /\ Free(x)' = Free(x)
        BY <2>2, <3>1 DEF Pending, Free
    <3>3. \A q \in Pending(x) : req'[q] = req[q]
        BY <2>2, <3>1 DEF Pending
    <3>4. \/ Paid(x) <= Cardinality(Free(x)) * total[x]
          \/ \E q \in Pending(x) :
                Paid(x) + req[q].amount <= (Cardinality(Free(x)) + 1) * total[x]
        BY DEF RacesIInv, RoomIsLeft
    <3> QED
        BY <2>1, <3>2, <3>3, <3>4
  <2> QED
      BY <2>3, <2>4
<1> QED
    BY <1>6, <1>7, <1>8

\* The charge: the session's sum grows by what the request decided on.
LEMMA ChargeUsesRoom ==
    ASSUME RacesIInv, NEW r \in Requests, CommitRecord(r), ~ Refuse(r, "integrity_error")
    PROVE  PaymentsAreFinite' /\ ReadsAreWithinBills' /\ RoomIsLeft'
<1> DEFINE s == req[r].session
           a == req[r].amount
<1>1. s \in Sessions /\ a \in Amounts
    BY DEF RacesIInv, IInv, RequestsKnow, Knows, CommitRecord
<1>2. PICK p \in Payments :
         /\ payment[p] = NULL
         /\ payment' = [payment EXCEPT ![p] = [session |-> s, amount |-> a, status |-> "recorded"]]
         /\ req' = [req EXCEPT ![r] = NoRequest]
         /\ total' = total
    BY DEF CommitRecord, Answer, tables
<1>3. r \in Pending(s) /\ \A x \in Sessions : x # s => r \notin Pending(x)
    BY DEF CommitRecord, Pending
<1>4. a \in Nat
    BY <1>1, SettlementAssumption DEF SettlementAssumption
<1> HIDE DEF a, s
<1>5. \A x \in Sessions : Paid(x)' = (IF x = s THEN Paid(x) + a ELSE Paid(x)) /\ Paid(x) \in Nat
    BY <1>1, <1>2, PaymentRaisesPaid, CountedIsFinite DEF RacesIInv, IInv
<1>6. \A x \in Sessions :
         /\ Paid(x)' \in Nat
         /\ Paid(x)' <= IF r \in Pending(x) THEN Paid(x) + req[r].amount ELSE Paid(x)
    BY <1>3, <1>4, <1>5 DEF a
<1>7. PaymentsAreFinite'
  <2> DEFINE before == {q \in Payments : payment[q] # NULL}
             after == {q \in Payments : payment'[q] # NULL}
  <2>1. after \subseteq before \cup {p}
      BY <1>2 DEF RacesIInv, IInv, TypeOK
  <2>2. IsFiniteSet(before)
      BY DEF RacesIInv, PaymentsAreFinite
  <2>3. IsFiniteSet(after)
    <3> HIDE DEF before, after
    <3>1. IsFiniteSet(before \cup {p})
        BY <2>2, FS_AddElement
    <3> QED
        BY <2>1, <3>1, FS_Subset
  <2> QED
      BY <2>3 DEF PaymentsAreFinite
<1>8. ReadsAreWithinBills'
    BY <1>2, NoRequestIsARow, ReadsStayWithinBills DEF RacesIInv
<1>9. RoomIsLeft'
    BY <1>2, <1>6, NoRequestIsARow, RoomAfterStep
<1> QED
    BY <1>7, <1>8, <1>9

\* A void gives room back.
LEMMA VoidLeavesRoom ==
    ASSUME RacesIInv, NEW r \in Requests, CommitVoid(r), ~ Refuse(r, "integrity_error")
    PROVE  PaymentsAreFinite' /\ ReadsAreWithinBills' /\ RoomIsLeft'
<1> DEFINE p == req[r].payment
<1>1. p \in Payments /\ payment[p] # NULL /\ req[r].op # "record"
    BY DEF RacesIInv, IInv, RequestsKnow, Knows, CommitVoid
<1>2. /\ payment' = [payment EXCEPT ![p].status = "voided"]
      /\ req' = [req EXCEPT ![r] = NoRequest]
      /\ total' = total
    BY DEF CommitVoid, Answer, tables
<1> HIDE DEF p
<1>3. \A x \in Sessions : Paid(x)' \in Nat /\ Paid(x)' <= Paid(x)
    BY <1>1, <1>2, VoidLowersPaid DEF RacesIInv, IInv
<1>4. \A x \in Sessions : r \notin Pending(x)
    BY <1>1 DEF Pending
<1>5. PaymentsAreFinite'
  <2>1. {q \in Payments : payment'[q] # NULL} \subseteq {q \in Payments : payment[q] # NULL}
      BY <1>1, <1>2 DEF RacesIInv, IInv, TypeOK
  <2> QED
      BY <2>1, FS_Subset DEF RacesIInv, PaymentsAreFinite
<1>6. ReadsAreWithinBills'
    BY <1>2, NoRequestIsARow, ReadsStayWithinBills DEF RacesIInv
<1>7. RoomIsLeft'
    BY <1>2, <1>3, <1>4, NoRequestIsARow, RoomAfterStep
<1> QED
    BY <1>5, <1>6, <1>7

\* An order raises the total, and with it every bound.
LEMMA OrderLeavesRoom ==
    ASSUME RacesIInv, NEW s \in Sessions, NEW t \in Totals, PlaceOrder(s, t)
    PROVE  PaymentsAreFinite' /\ ReadsAreWithinBills' /\ RoomIsLeft'
<1>1. payment' = payment /\ req' = req
    BY DEF PlaceOrder, money
<1>2. \A u \in Sessions : total[u] \in Nat /\ total'[u] \in Nat /\ total[u] <= total'[u]
  <2>1. t \in Nat
      BY SettlementAssumption DEF SettlementAssumption
  <2> QED
      BY <2>1 DEF PlaceOrder, RacesIInv, IInv, TypeOK
<1>3. PaymentsAreFinite'
    BY <1>1 DEF RacesIInv, PaymentsAreFinite
<1>4. ReadsAreWithinBills'
  <2> SUFFICES ASSUME NEW r \in Requests
               PROVE  /\ req[r].pc = "paid" => req[r].total <= total'[req[r].session]
                      /\ req[r].pc = "commit" /\ req[r].op = "record"
                            => req[r].amount <= total'[req[r].session]
      BY <1>1 DEF ReadsAreWithinBills
  <2>1. /\ req[r].pc = "paid" => req[r].total <= total[req[r].session]
        /\ req[r].pc = "commit" /\ req[r].op = "record"
              => req[r].amount <= total[req[r].session]
      BY DEF RacesIInv, ReadsAreWithinBills
  <2>2. /\ req[r].total \in Nat
        /\ req[r].pc \in {"paid", "commit"} => req[r].session \in Sessions
        /\ req[r].pc = "commit" /\ req[r].op = "record" => req[r].amount \in Nat
      BY RequestRowsKnow DEF RacesIInv
  <2> QED
      BY <1>2, <2>1, <2>2
<1>5. RoomIsLeft'
  <2> SUFFICES ASSUME NEW u \in Sessions
               PROVE  \/ Paid(u)' <= Cardinality(Free(u)') * total'[u]
                      \/ \E r \in Pending(u)' :
                            Paid(u)' + req'[r].amount <= (Cardinality(Free(u)') + 1) * total'[u]
      BY DEF RoomIsLeft
  <2>1. Paid(u)' = Paid(u) /\ Pending(u)' = Pending(u) /\ Free(u)' = Free(u) /\ Paid(u) \in Nat
      BY <1>1, NothingIsPaid, CountedIsFinite DEF Pending, Free, RacesIInv, IInv
  <2> DEFINE n == Cardinality(Free(u))
  <2>2. n \in Nat
      BY FreeIsFinite
  <2>3. /\ n * total[u] \in Nat /\ n * total'[u] \in Nat
        /\ (n + 1) * total[u] \in Nat /\ (n + 1) * total'[u] \in Nat
        /\ n * total[u] <= n * total'[u]
        /\ (n + 1) * total[u] <= (n + 1) * total'[u]
      BY <1>2, <2>2, ProductsGrow, Products
  <2>4. \A r \in Pending(u) : req[r].amount \in Nat
      BY RequestRowsKnow DEF RacesIInv, Pending
  <2>5. \/ Paid(u) <= n * total[u]
        \/ \E r \in Pending(u) : Paid(u) + req[r].amount <= (n + 1) * total[u]
      BY DEF RacesIInv, RoomIsLeft
  <2> HIDE DEF n
  <2>6. \/ Paid(u) <= n * total'[u]
        \/ \E r \in Pending(u) : Paid(u) + req[r].amount <= (n + 1) * total'[u]
      BY <2>1, <2>3, <2>4, <2>5
  <2> QED
      BY <1>1, <2>1, <2>6 DEF n
<1> QED
    BY <1>3, <1>4, <1>5

THEOREM InitRacesIInv == Init => RacesIInv
<1> SUFFICES ASSUME Init PROVE RacesIInv
    OBVIOUS
<1>1. IInv
    BY InitIInv
<1>2. {p \in Payments : payment[p] # NULL} = {}
    BY DEF Init, Absent
<1>3. PaymentsAreFinite
    BY <1>2, FS_EmptySet DEF PaymentsAreFinite
<1>4. ReadsAreWithinBills
    BY NoRequestIsARow DEF Init, ReadsAreWithinBills
<1>5. RoomIsLeft
  <2> SUFFICES ASSUME NEW s \in Sessions
               PROVE  Paid(s) <= Cardinality(Free(s)) * total[s]
      BY DEF RoomIsLeft
  <2>1. Counted(s) = {}
      BY <1>2 DEF Counted
  <2>2. Paid(s) = 0
      BY <2>1, PaidIsASum, SumOfRest, FS_EmptySet
  <2>3. Cardinality(Free(s)) * total[s] \in Nat
      BY <1>1, FreeIsFinite, TotalsAreNatural, Products
  <2> QED
      BY <2>2, <2>3
<1> QED
    BY <1>1, <1>3, <1>4, <1>5 DEF RacesIInv

\* The request ends without a word to the tables, or with an answer only.
LEMMA RefusalsAreQuiet ==
    ASSUME RacesIInv, NEW r \in Requests, NEW code, NEW p,
           Refuse(r, code) \/ (Answer(r, code, p) /\ UNCHANGED <<tables, money>>)
    PROVE  PaymentsAreFinite' /\ ReadsAreWithinBills' /\ RoomIsLeft'
BY QuietEnd DEF Refuse, Answer, tables, money

\* The request goes on to a statement before its sums are read.
LEMMA EarlyStatementsAreQuiet ==
    ASSUME RacesIInv, NEW r \in Requests, NEW row, row.pc \notin {"paid", "commit"},
           Continue(r, row), UNCHANGED <<tables, money>>
    PROVE  PaymentsAreFinite' /\ ReadsAreWithinBills' /\ RoomIsLeft'
BY QuietStep DEF Continue, tables, money

LEMMA BeginningsAreQuiet ==
    ASSUME RacesIInv, NEW r \in Requests,
           \/ \E s \in Sessions, k \in Keys, a \in Amounts : BeginRecord(r, s, k, a)
           \/ \E p \in Payments, k \in Keys, why \in Reasons : BeginVoid(r, p, k, why)
           \/ \E s \in Sessions : BeginClose(r, s)
    PROVE  PaymentsAreFinite' /\ ReadsAreWithinBills' /\ RoomIsLeft'
<1>1. CASE \E s \in Sessions, k \in Keys, a \in Amounts : BeginRecord(r, s, k, a)
  <2>1. PICK s \in Sessions, k \in Keys, a \in Amounts : BeginRecord(r, s, k, a)
      BY <1>1
  <2> DEFINE row == [NoRequest EXCEPT !.pc = "key", !.op = "record",
                                      !.session = s, !.key = k, !.amount = a]
  <2>2. row.pc = "key"
      BY DEF NoRequest
  <2> HIDE DEF row
  <2>3. CASE Continue(r, row) /\ UNCHANGED <<tables, money>>
      BY <2>2, <2>3, EarlyStatementsAreQuiet
  <2> QED
      BY <2>1, <2>3, RefusalsAreQuiet DEF BeginRecord, row
<1>2. CASE \E p \in Payments, k \in Keys, why \in Reasons : BeginVoid(r, p, k, why)
  <2>1. PICK p \in Payments, k \in Keys, why \in Reasons : BeginVoid(r, p, k, why)
      BY <1>2
  <2> DEFINE row == [NoRequest EXCEPT !.pc = "check", !.op = "void",
                            !.session = payment[p].session, !.key = k,
                            !.payment = p, !.reason = why, !.seen = payment[p].status]
  <2>2. row.pc = "check"
      BY DEF NoRequest
  <2> HIDE DEF row
  <2>3. CASE Continue(r, row) /\ UNCHANGED <<tables, money>>
      BY <2>2, <2>3, EarlyStatementsAreQuiet
  <2> QED
      BY <2>1, <2>3, RefusalsAreQuiet DEF BeginVoid, row
<1>3. CASE \E s \in Sessions : BeginClose(r, s)
  <2>1. PICK s \in Sessions : BeginClose(r, s)
      BY <1>3
  <2> DEFINE row == [NoRequest EXCEPT !.pc = "total", !.op = "close", !.session = s]
  <2>2. row.pc = "total"
      BY DEF NoRequest
  <2> HIDE DEF row
  <2>3. CASE Continue(r, row) /\ UNCHANGED <<tables, money>>
      BY <2>2, <2>3, EarlyStatementsAreQuiet
  <2> QED
      BY <2>1, <2>3, RefusalsAreQuiet DEF BeginClose, row
<1> QED
    BY <1>1, <1>2, <1>3

\* The lookups, the read of the total included: it is dated, but not above the bill.
LEMMA LookupsAreQuiet ==
    ASSUME RacesIInv, NEW r \in Requests,
           ReadKey(r) \/ ReadTotal(r) \/ ReadCheckForVoid(r) \/ ReadVoidKey(r) \/ Vanish(r)
    PROVE  PaymentsAreFinite' /\ ReadsAreWithinBills' /\ RoomIsLeft'
<1>1. req[r] \in RequestRow
    BY RequestRowsKnow DEF RacesIInv
<1>2. \A c \in {"total", "voidkey", "void"} : [req[r] EXCEPT !.pc = c].pc = c
    BY <1>1 DEF RequestRow
<1>3. CASE ReadKey(r)
  <2>1. CASE Continue(r, [req[r] EXCEPT !.pc = "total"]) /\ UNCHANGED <<tables, money>>
      BY <1>2, <2>1, EarlyStatementsAreQuiet
  <2> QED
      BY <1>3, <2>1, RefusalsAreQuiet DEF ReadKey
<1>4. CASE ReadTotal(r)
  <2> DEFINE row == [req[r] EXCEPT !.pc = "paid", !.total = total[req[r].session]]
  <2>1. row.pc = "paid" /\ row.session = req[r].session /\ row.total = total[req[r].session]
      BY <1>1 DEF RequestRow
  <2>2. total[row.session] \in Nat
      BY <1>4, <2>1, RequestRowsKnow, TotalsAreNatural DEF RacesIInv, ReadTotal
  <2>3. req' = [req EXCEPT ![r] = row] /\ payment' = payment /\ total' = total
      BY <1>4 DEF ReadTotal, Continue, tables, money
  <2> HIDE DEF row
  <2>4. row.total <= total[row.session] /\ row.pc # "commit"
      BY <2>1, <2>2
  <2> QED
      BY <2>3, <2>4, QuietStep
<1>5. CASE ReadCheckForVoid(r)
  <2>1. CASE Continue(r, [req[r] EXCEPT !.pc = "voidkey"]) /\ UNCHANGED <<tables, money>>
      BY <1>2, <2>1, EarlyStatementsAreQuiet
  <2> QED
      BY <1>5, <2>1, RefusalsAreQuiet DEF ReadCheckForVoid
<1>6. CASE ReadVoidKey(r)
  <2>1. CASE Continue(r, [req[r] EXCEPT !.pc = "void"]) /\ UNCHANGED <<tables, money>>
      BY <1>2, <2>1, EarlyStatementsAreQuiet
  <2> QED
      BY <1>6, <2>1, RefusalsAreQuiet DEF ReadVoidKey
<1>7. CASE Vanish(r)
    BY <1>7, QuietEnd DEF Vanish, Continue, tables, money
<1> QED
    BY <1>3, <1>4, <1>5, <1>6, <1>7

LEMMA ReadPaidLeavesRoom ==
    ASSUME RacesIInv, NEW r \in Requests, ReadPaid(r)
    PROVE  PaymentsAreFinite' /\ ReadsAreWithinBills' /\ RoomIsLeft'
<1> DEFINE row == [req[r] EXCEPT !.pc = "commit", !.total = 0]
<1>1. Knows(req[r]) /\ req[r] \in RequestRow /\ req[r].pc = "paid"
    BY RequestRowsKnow DEF ReadPaid, RacesIInv, IInv, RequestsKnow
<1>2. CASE \/ Refuse(r, "overpayment_not_allowed")
           \/ Refuse(r, "remaining_balance_not_zero")
    BY <1>2, RefusalsAreQuiet
<1>3. CASE /\ Continue(r, row) /\ UNCHANGED <<tables, money>>
           /\ req[r].op = "record"
           /\ req[r].amount <= Remaining(req[r].total, Paid(req[r].session))
    BY <1>1, <1>3, DecisionLeavesRoom
<1>4. CASE /\ Continue(r, row) /\ UNCHANGED <<tables, money>>
           /\ req[r].op # "record"
  <2>1. row.pc = "commit" /\ row.op # "record"
      BY <1>1, <1>4 DEF RequestRow
  <2>2. req' = [req EXCEPT ![r] = row] /\ payment' = payment /\ total' = total
      BY <1>4 DEF Continue, tables, money
  <2> HIDE DEF row
  <2> QED
      BY <2>1, <2>2, QuietStep
<1> QED
    BY <1>2, <1>3, <1>4 DEF ReadPaid

LEMMA CommitsKeepTheBound ==
    ASSUME RacesIInv, NEW r \in Requests,
           CommitRecord(r) \/ CommitVoid(r) \/ CommitClose(r)
    PROVE  PaymentsAreFinite' /\ ReadsAreWithinBills' /\ RoomIsLeft'
<1>1. CASE Refuse(r, "integrity_error")
    BY <1>1, RefusalsAreQuiet
<1>2. CASE ~ Refuse(r, "integrity_error") /\ (CommitRecord(r) \/ CommitVoid(r))
    BY <1>2, ChargeUsesRoom, VoidLeavesRoom
<1>3. CASE ~ Refuse(r, "integrity_error") /\ CommitClose(r)
  <2>1. req' = [req EXCEPT ![r] = NoRequest] /\ payment' = payment /\ total' = total
      BY <1>3 DEF CommitClose, Answer
  <2> QED
      BY <2>1, QuietEnd
<1> QED
    BY <1>1, <1>2, <1>3

THEOREM NextRacesIInv == RacesIInv /\ [Next]_vars => RacesIInv'
<1> SUFFICES ASSUME RacesIInv, [Next]_vars PROVE RacesIInv'
    OBVIOUS
<1>1. IInv'
    BY NextIInv DEF RacesIInv
<1>2. PaymentsAreFinite' /\ ReadsAreWithinBills' /\ RoomIsLeft'
  <2>1. CASE UNCHANGED vars
    <3>1. \A s \in Sessions : Paid(s)' = Paid(s) /\ Pending(s)' = Pending(s) /\ Free(s)' = Free(s)
        BY <2>1, NothingIsPaid DEF vars, Pending, Free
    <3>2. payment' = payment /\ req' = req /\ total' = total
        BY <2>1 DEF vars
    <3>3. PaymentsAreFinite' /\ ReadsAreWithinBills'
        BY <3>2 DEF RacesIInv, PaymentsAreFinite, ReadsAreWithinBills
    <3>4. RoomIsLeft'
        BY <3>1, <3>2 DEF RacesIInv, RoomIsLeft
    <3> QED
        BY <3>3, <3>4
  <2>2. CASE \E s \in Sessions, t \in Totals : PlaceOrder(s, t)
      BY <2>2, OrderLeavesRoom
  <2>3. CASE \E r \in Requests : CashierStep(r)
    <3> SUFFICES ASSUME NEW r \in Requests, CashierStep(r)
                 PROVE  PaymentsAreFinite' /\ ReadsAreWithinBills' /\ RoomIsLeft'
        BY <2>3
    <3> QED
        BY BeginningsAreQuiet, LookupsAreQuiet, ReadPaidLeavesRoom, CommitsKeepTheBound
           DEF CashierStep
  <2> QED
      BY <2>1, <2>2, <2>3 DEF Next
<1> QED
    BY <1>1, <1>2 DEF RacesIInv

THEOREM SpecRacesIInv == Spec => []RacesIInv
BY InitRacesIInv, NextRacesIInv, PTL DEF Spec

\* The room that is left at any time is within what all requests could use.
LEMMA RoomIsWithinRaces == RacesIInv => PaidWithinRaces
<1> SUFFICES ASSUME RacesIInv, NEW s \in Sessions
             PROVE  Paid(s) <= Cardinality(Requests) * total[s]
    BY DEF PaidWithinRaces
<1> DEFINE n == Cardinality(Free(s))
           m == Cardinality(Requests)
           t == total[s]
<1>1. n \in Nat /\ m \in Nat /\ n <= m /\ t \in Nat /\ Paid(s) \in Nat
    BY FreeIsFinite, TotalsAreNatural, CountedIsFinite DEF RacesIInv, IInv
<1>2. CASE Paid(s) <= n * t
  <2>1. n * t \in Nat /\ m * t \in Nat /\ n * t <= m * t
      BY <1>1, Products, ProductsGrow
  <2> HIDE DEF n, m, t
  <2>2. Paid(s) <= m * t
      BY <1>1, <1>2, <2>1
  <2> QED
      BY <2>2 DEF m, t
<1>3. CASE \E r \in Pending(s) : Paid(s) + req[r].amount <= (n + 1) * t
  <2>1. PICK r \in Pending(s) : Paid(s) + req[r].amount <= (n + 1) * t
      BY <1>3
  <2>2. r \in Requests /\ r \notin Free(s) /\ req[r].amount \in Nat
      BY RequestRowsKnow DEF RacesIInv, Pending, Free
  <2>3. n + 1 <= m
    <3>1. Free(s) \cup {r} \subseteq Requests
        BY <2>2 DEF Free
    <3>2. Cardinality(Free(s) \cup {r}) = n + 1
        BY <2>2, FreeIsFinite, FS_AddElement
    <3> QED
        BY <3>1, <3>2, FS_Subset, SettlementAssumption DEF SettlementAssumption
  <2>4. (n + 1) * t \in Nat /\ m * t \in Nat /\ (n + 1) * t <= m * t
    <3>1. n + 1 \in Nat
        BY <1>1
    <3> QED
        BY <1>1, <2>3, <3>1, Products, ProductsGrow
  <2> HIDE DEF n, m, t
  <2>5. Paid(s) <= m * t
      BY <1>1, <2>1, <2>2, <2>4
  <2> QED
      BY <2>5 DEF m, t
<1> QED
    BY <1>2, <1>3 DEF RacesIInv, RoomIsLeft

\* However requests race, what a check is charged stays within as many totals
\* as there are requests: with one request at a time nothing is overpaid.
THEOREM RacesBoundOverpayment == Spec => []PaidWithinRaces
BY SpecRacesIInv, RoomIsWithinRaces, PTL

-----------------------------------------------------------------------------
(***************************************************************************)
(* Voids and closed checks                                                 *)
(*                                                                         *)
(* How a step moves the request that takes it: it ends, goes on with the   *)
(* rows it has read, or begins at what is committed at that moment. A void *)
(* reaches its check's key only while the check is open, and its writes    *)
(* only when it saw the payment recorded.                                  *)
(***************************************************************************)
GoesOn(q, row) ==
    /\ q.pc # "idle"
    /\ <<row.op, row.session, row.payment, row.seen>> = <<q.op, q.session, q.payment, q.seen>>
    /\ row.pc = "voidkey" => checkStatus[q.session] = "open"
    /\ row.pc = "void" => q.pc = "voidkey" /\ q.seen = "recorded"

Begins(row) ==
    \/ row.op = "record" /\ row.pc = "key" /\ checkStatus[row.session] = "open"
    \/ /\ row.op = "void"
       /\ row.pc = "check"
       /\ row.session = payment[row.payment].session
       /\ row.seen = payment[row.payment].status
    \/ row.op = "close" /\ row.pc = "total"

Moves(r, row) ==
    /\ req' = [req EXCEPT ![r] = row]
    /\ \/ row = NoRequest
       \/ UNCHANGED <<tables, money>> /\ (GoesOn(req[r], row) \/ Begins(row))

LEMMA BeginningsMove ==
    ASSUME IInv, NEW r \in Requests,
           \/ \E s \in Sessions, k \in Keys, a \in Amounts : BeginRecord(r, s, k, a)
           \/ \E p \in Payments, k \in Keys, why \in Reasons : BeginVoid(r, p, k, why)
           \/ \E s \in Sessions : BeginClose(r, s)
    PROVE  \E row : Moves(r, row)
<1>1. CASE req' = [req EXCEPT ![r] = NoRequest]
    BY <1>1 DEF Moves
<1>2. ASSUME NEW s \in Sessions, NEW k \in Keys, NEW a \in Amounts, BeginRecord(r, s, k, a)
      PROVE  \E row : Moves(r, row)
  <2> DEFINE row == [NoRequest EXCEPT !.pc = "key", !.op = "record",
                                      !.session = s, !.key = k, !.amount = a]
  <2>1. checkStatus[s] = "open" => Begins(row)
      BY DEF Begins, NoRequest
  <2> HIDE DEF row
  <2>2. CASE Continue(r, row) /\ checkStatus[s] = "open" /\ UNCHANGED <<tables, money>>
      BY <2>1, <2>2 DEF Moves, Continue
  <2> QED
      BY <1>1, <1>2, <2>2 DEF BeginRecord, Refuse, Answer, row
<1>3. ASSUME NEW p \in Payments, NEW k \in Keys, NEW why \in Reasons, BeginVoid(r, p, k, why)
      PROVE  \E row : Moves(r, row)
  <2> DEFINE row == [NoRequest EXCEPT !.pc = "check", !.op = "void",
                            !.session = payment[p].session, !.key = k,
                            !.payment = p, !.reason = why, !.seen = payment[p].status]
  <2>1. Begins(row)
      BY DEF Begins, NoRequest
  <2> HIDE DEF row
  <2>2. CASE Continue(r, row) /\ UNCHANGED <<tables, money>>
      BY <2>1, <2>2 DEF Moves, Continue
  <2> QED
      BY <1>1, <1>3, <2>2 DEF BeginVoid, Refuse, Answer, row
<1>4. ASSUME NEW s \in Sessions, BeginClose(r, s)
      PROVE  \E row : Moves(r, row)
  <2> DEFINE row == [NoRequest EXCEPT !.pc = "total", !.op = "close", !.session = s]
  <2>1. Begins(row)
      BY DEF Begins, NoRequest
  <2> HIDE DEF row
  <2>2. CASE Continue(r, row) /\ UNCHANGED <<tables, money>>
      BY <2>1, <2>2 DEF Moves, Continue
  <2> QED
      BY <1>1, <1>4, <2>2 DEF BeginClose, Refuse, Answer, row
<1> QED
    BY <1>2, <1>3, <1>4

LEMMA StatementsMove ==
    ASSUME IInv, NEW r \in Requests,
           \/ ReadKey(r) \/ ReadTotal(r) \/ ReadPaid(r)
           \/ ReadCheckForVoid(r) \/ ReadVoidKey(r)
    PROVE  \E row : Moves(r, row)
<1>1. req[r] \in RequestRow
    BY DEF IInv, TypeOK
<1>2. CASE req' = [req EXCEPT ![r] = NoRequest]
    BY <1>2 DEF Moves
<1>3. CASE ReadKey(r)
  <2>1. req[r].pc = "key" => GoesOn(req[r], [req[r] EXCEPT !.pc = "total"])
      BY <1>1 DEF GoesOn, RequestRow
  <2>2. CASE /\ Continue(r, [req[r] EXCEPT !.pc = "total"])
             /\ UNCHANGED <<tables, money>>
      BY <1>3, <2>1, <2>2 DEF Moves, Continue, ReadKey
  <2> QED
      BY <1>2, <1>3, <2>2 DEF ReadKey, Refuse, Answer
<1>4. CASE ReadTotal(r)
  <2> DEFINE row == [req[r] EXCEPT !.pc = "paid", !.total = total[req[r].session]]
  <2>1. req[r].pc = "total" => GoesOn(req[r], row)
      BY <1>1 DEF GoesOn, RequestRow
  <2>2. /\ req[r].pc = "total"
        /\ req' = [req EXCEPT ![r] = row]
        /\ UNCHANGED <<tables, money>>
      BY <1>4 DEF ReadTotal, Continue
  <2> HIDE DEF row
  <2> QED
      BY <2>1, <2>2 DEF Moves
<1>5. CASE ReadPaid(r)
  <2> DEFINE row == [req[r] EXCEPT !.pc = "commit", !.total = 0]
  <2>1. req[r].pc = "paid" => GoesOn(req[r], row)
      BY <1>1 DEF GoesOn, RequestRow
  <2>2. req[r].pc = "paid"
      BY <1>5 DEF ReadPaid
  <2> HIDE DEF row
  <2>3. CASE Continue(r, row) /\ UNCHANGED <<tables, money>>
      BY <2>1, <2>2, <2>3 DEF Moves, Continue
  <2> QED
      BY <1>2, <1>5, <2>3 DEF ReadPaid, Refuse, Answer, row
<1>6. CASE ReadCheckForVoid(r)
  <2> DEFINE row == [req[r] EXCEPT !.pc = "voidkey"]
  <2>1. req[r].pc = "check" /\ checkStatus[req[r].session] = "open" => GoesOn(req[r], row)
      BY <1>1 DEF GoesOn, RequestRow
  <2> HIDE DEF row
  <2>2. CASE Continue(r, row) /\ UNCHANGED <<tables, money>>
             /\ checkStatus[req[r].session] = "open"
      BY <1>6, <2>1, <2>2 DEF Moves, Continue, ReadCheckForVoid
  <2> QED
      BY <1>2, <1>6, <2>2 DEF ReadCheckForVoid, Refuse, Answer, row
<1>7. CASE ReadVoidKey(r)
  <2> DEFINE row == [req[r] EXCEPT !.pc = "void"]
  <2>1. req[r].pc = "voidkey" /\ req[r].seen = "recorded" => GoesOn(req[r], row)
      BY <1>1 DEF GoesOn, RequestRow
  <2> HIDE DEF row
  <2>2. CASE Continue(r, row) /\ UNCHANGED <<tables, money>> /\ req[r].seen = "recorded"
      BY <1>7, <2>1, <2>2 DEF Moves, Continue, ReadVoidKey
  <2> QED
      BY <1>2, <1>7, <2>2 DEF ReadVoidKey, Refuse, Answer, row
<1> QED
    BY <1>3, <1>4, <1>5, <1>6, <1>7

LEMMA StepsMove ==
    ASSUME IInv, NEW r \in Requests, CashierStep(r)
    PROVE  \E row : Moves(r, row)
<1>1. CASE CommitRecord(r) \/ CommitVoid(r) \/ CommitClose(r) \/ Vanish(r)
    BY <1>1 DEF CommitRecord, CommitVoid, CommitClose, Vanish, Refuse, Answer, Continue, Moves
<1> QED
    BY <1>1, BeginningsMove, StatementsMove DEF CashierStep

LEMMA MovedRows ==
    ASSUME IInv, NEW r \in Requests, NEW row, Moves(r, row), NEW q \in Requests
    PROVE  req'[q] = IF q = r THEN row ELSE req[q]
BY DEF Moves, IInv, TypeOK

\* A payment never changes its session.
LEMMA PaymentsKeepTheirSession ==
    ASSUME IInv, [Next]_vars, NEW p \in Payments, payment[p] # NULL
    PROVE  payment'[p] # NULL /\ payment'[p].session = payment[p].session
<1>1. CASE payment' = payment
    BY <1>1
<1>2. ASSUME NEW r \in Requests, CommitRecord(r), payment' # payment
      PROVE  payment'[p] = payment[p]
  <2>1. PICK n \in Payments :
           /\ payment[n] = NULL
           /\ payment' = [payment EXCEPT ![n] = [session |-> req[r].session,
                             amount |-> req[r].amount, status |-> "recorded"]]
      BY <1>2 DEF CommitRecord, Refuse, money
  <2> QED
      BY <2>1 DEF IInv, TypeOK
<1>3. ASSUME NEW r \in Requests, CommitVoid(r), payment' # payment
      PROVE  payment'[p] # NULL /\ payment'[p].session = payment[p].session
  <2>1. payment' = [payment EXCEPT ![req[r].payment].status = "voided"]
      BY <1>3 DEF CommitVoid, Refuse, money
  <2>2. payment[p] \in PaymentRow
      BY RowsAreNotNull DEF IInv
  <2>3. payment'[p] = IF p = req[r].payment THEN [payment[p] EXCEPT !.status = "voided"]
                      ELSE payment[p]
      BY <2>1 DEF IInv, TypeOK
  <2>4. payment'[p] \in PaymentRow /\ payment'[p].session = payment[p].session
      BY <2>2, <2>3 DEF PaymentRow
  <2> QED
      BY <2>4, NullIsFresh
<1>4. ASSUME NEW r \in Requests, CashierStep(r), ~ CommitRecord(r), ~ CommitVoid(r)
      PROVE  payment' = payment
  BY <1>4 DEF CashierStep, BeginRecord, BeginVoid, BeginClose, ReadKey, ReadTotal, ReadPaid,
              ReadCheckForVoid, ReadVoidKey, CommitClose, Vanish, Refuse, money
<1> QED
    BY <1>1, <1>2, <1>3, <1>4 DEF Next, vars, PlaceOrder, money

(***************************************************************************)
(* What the two results add to IInv: a void names a payment of the session *)
(* whose check it looks at, and who is about to void saw it recorded; the  *)
(* voids that still believe a payment recorded, with the corrections there *)
(* are, stay within the requests.                                          *)
(***************************************************************************)
VoidKnows(q) ==
    /\ q.pc # "idle" /\ q.op = "void" => payment[q.payment].session = q.session
    /\ q.pc = "void" => q.seen = "recorded"

VoidsKnow == \A r \in Requests : VoidKnows(req[r])

Believers(p) == {r \in Requests : /\ req[r].pc # "idle"
                                 /\ req[r].op = "void"
                                 /\ req[r].payment = p
                                 /\ req[r].seen = "recorded"}

VoidsHaveRoom ==
    \A p \in Payments : corrections[p] + Cardinality(Believers(p)) <= Cardinality(Requests)

VoidIInv == IInv /\ VoidsKnow /\ VoidsHaveRoom

LEMMA VoidsKnowNext ==
    ASSUME IInv, VoidsKnow, [Next]_vars
    PROVE  VoidsKnow'
<1> SUFFICES ASSUME NEW q \in Requests PROVE VoidKnows(req[q])'
    BY DEF VoidsKnow
<1>1. VoidKnows(req[q]) /\ Knows(req[q])
    BY DEF VoidsKnow, IInv, RequestsKnow
<1>2. CASE req'[q] = req[q]
  <2>1. CASE req[q].pc # "idle" /\ req[q].op = "void"
    <3>1. req[q].payment \in Payments /\ payment[req[q].payment] # NULL
        BY <1>1, <2>1 DEF Knows
    <3>2. payment'[req[q].payment].session = payment[req[q].payment].session
        BY <3>1, PaymentsKeepTheirSession
    <3> QED
        BY <1>1, <1>2, <3>2 DEF VoidKnows
  <2> QED
      BY <1>1, <1>2, <2>1 DEF VoidKnows
<1>3. ASSUME NEW row, Moves(q, row) PROVE VoidKnows(req[q])'
  <2>1. req'[q] = row
      BY <1>3, MovedRows
  <2>2. CASE row = NoRequest
      BY <2>1, <2>2 DEF VoidKnows, NoRequest
  <2>3. CASE UNCHANGED <<tables, money>> /\ GoesOn(req[q], row)
      BY <1>1, <2>1, <2>3 DEF VoidKnows, GoesOn, money
  <2>4. CASE UNCHANGED <<tables, money>> /\ Begins(row)
      BY <2>1, <2>4 DEF VoidKnows, Begins, money
  <2> QED
      BY <1>3, <2>2, <2>3, <2>4 DEF Moves
<1>4. ASSUME NEW r \in Requests, CashierStep(r) PROVE VoidKnows(req[q])'
  <2>1. PICK row : Moves(r, row)
      BY <1>4, StepsMove
  <2>2. r # q => req'[q] = req[q]
      BY <2>1, MovedRows
  <2> QED
      BY <1>2, <1>3, <2>1, <2>2
<1> QED
    BY <1>2, <1>4 DEF Next, vars, PlaceOrder

LEMMA BelieversAreFinite ==
    ASSUME NEW p
    PROVE  /\ IsFiniteSet(Believers(p))
           /\ IsFiniteSet(Believers(p)')
           /\ Cardinality(Believers(p)) \in Nat
           /\ Cardinality(Believers(p)') \in Nat
           /\ Cardinality(Believers(p)') <= Cardinality(Requests)
           /\ Cardinality(Requests) \in Nat
<1>1. Believers(p) \subseteq Requests /\ Believers(p)' \subseteq Requests
    BY DEF Believers
<1> HIDE DEF Believers
<1>2. IsFiniteSet(Requests)
    BY SettlementAssumption DEF SettlementAssumption
<1> QED
    BY <1>1, <1>2, FS_Subset, FS_CardinalityType

\* A step that corrects nothing: nobody starts to believe in a voided payment.
LEMMA BeliefIsNotNew ==
    ASSUME VoidIInv, NEW r \in Requests, NEW row, Moves(r, row), corrections' = corrections
    PROVE  VoidsHaveRoom'
<1> SUFFICES ASSUME NEW p \in Payments
             PROVE  corrections'[p] + Cardinality(Believers(p)') <= Cardinality(Requests)
    BY DEF VoidsHaveRoom
<1>1. corrections[p] \in Nat /\ corrections'[p] = corrections[p]
    BY DEF VoidIInv, IInv, TypeOK
<1>2. corrections[p] + Cardinality(Believers(p)) <= Cardinality(Requests)
    BY DEF VoidIInv, VoidsHaveRoom
<1>3. \A q \in Requests : req'[q] = IF q = r THEN row ELSE req[q]
    BY MovedRows DEF VoidIInv
<1>4. CASE Believers(p)' \subseteq Believers(p)
  <2>1. Cardinality(Believers(p)') <= Cardinality(Believers(p))
      BY <1>4, BelieversAreFinite, FS_Subset
  <2> QED
      BY <1>1, <1>2, <2>1, BelieversAreFinite
<1>5. CASE corrections[p] = 0
    BY <1>1, <1>5, BelieversAreFinite
<1>6. CASE row = NoRequest \/ GoesOn(req[r], row)
    BY <1>3, <1>4, <1>6 DEF Believers, GoesOn, NoRequest
<1>7. CASE UNCHANGED <<tables, money>> /\ Begins(row)
  <2>1. CASE row.op = "void" /\ row.payment = p /\ row.seen = "recorded"
    <3>1. payment[p].status = "recorded"
        BY <1>7, <2>1 DEF Begins
    <3>2. ~ (corrections[p] > 0)
        BY <3>1 DEF VoidIInv, IInv, VoidsAreAccounted
    <3> QED
        BY <1>1, <1>5, <3>2
  <2>2. CASE ~ (row.op = "void" /\ row.payment = p /\ row.seen = "recorded")
      BY <1>3, <1>4, <2>2 DEF Believers
  <2> QED
      BY <2>1, <2>2
<1> QED
    BY <1>6, <1>7 DEF Moves

\* A void that commits is a believer no more.
LEMMA VoidTakesItsRoom ==
    ASSUME VoidIInv, NEW r \in Requests, CommitVoid(r), corrections' # corrections
    PROVE  VoidsHaveRoom'
<1> SUFFICES ASSUME NEW p \in Payments
             PROVE  corrections'[p] + Cardinality(Believers(p)') <= Cardinality(Requests)
    BY DEF VoidsHaveRoom
<1>1. /\ req[r].pc = "void"
      /\ corrections' = [corrections EXCEPT ![req[r].payment] = @ + 1]
      /\ req' = [req EXCEPT ![r] = NoRequest]
    BY DEF CommitVoid, Refuse, money, Answer
<1>2. req[r].op = "void" /\ req[r].seen = "recorded"
    BY <1>1 DEF VoidIInv, VoidsKnow, VoidKnows, IInv, RequestsKnow, Knows
<1>3. corrections[p] \in Nat /\ corrections[p] + Cardinality(Believers(p)) <= Cardinality(Requests)
    BY DEF VoidIInv, VoidsHaveRoom, IInv, TypeOK
<1>4. \A q \in Requests : req'[q] = IF q = r THEN NoRequest ELSE req[q]
    BY <1>1 DEF VoidIInv, IInv, TypeOK
<1>5. Believers(p)' = Believers(p) \ {r}
    BY <1>4 DEF Believers, NoRequest
<1>6. CASE p = req[r].payment
  <2>1. r \in Believers(p)
      BY <1>1, <1>2, <1>6 DEF Believers
  <2>2. Cardinality(Believers(p)') = Cardinality(Believers(p)) - 1
      BY <1>5, <2>1, BelieversAreFinite, FS_RemoveElement
  <2>3. corrections'[p] = corrections[p] + 1
      BY <1>1, <1>6 DEF VoidIInv, IInv, TypeOK
  <2> QED
      BY <1>3, <2>2, <2>3, BelieversAreFinite
<1>7. CASE p # req[r].payment
  <2>1. corrections'[p] = corrections[p]
      BY <1>1, <1>7 DEF VoidIInv, IInv, TypeOK
  <2>2. Cardinality(Believers(p)') <= Cardinality(Believers(p))
      BY <1>5, BelieversAreFinite, FS_Subset
  <2> QED
      BY <1>3, <2>1, <2>2, BelieversAreFinite
<1> QED
    BY <1>6, <1>7

LEMMA VoidIInvNext == VoidIInv /\ [Next]_vars => VoidIInv'
<1> SUFFICES ASSUME VoidIInv, [Next]_vars PROVE VoidIInv'
    OBVIOUS
<1>1. IInv' /\ VoidsKnow'
    BY NextIInv, VoidsKnowNext DEF VoidIInv
<1>2. corrections' = corrections /\ req' = req => VoidsHaveRoom'
    BY DEF VoidIInv, VoidsHaveRoom, Believers
<1>3. ASSUME NEW r \in Requests, CashierStep(r) PROVE VoidsHaveRoom'
  <2>1. CASE corrections' = corrections
      BY <1>3, <2>1, StepsMove, BeliefIsNotNew DEF VoidIInv
  <2>2. CASE corrections' # corrections
    <3>1. CommitVoid(r)
        BY <1>3, <2>2
           DEF CashierStep, BeginRecord, BeginVoid, BeginClose, ReadKey, ReadTotal, ReadPaid,
               ReadCheckForVoid, ReadVoidKey, CommitRecord, CommitClose, Vanish, Refuse, money
    <3> QED
        BY <2>2, <3>1, VoidTakesItsRoom
  <2> QED
      BY <2>1, <2>2
<1>4. VoidsHaveRoom'
    BY <1>2, <1>3 DEF Next, vars, PlaceOrder, money
<1> QED
    BY <1>1, <1>4 DEF VoidIInv

LEMMA VoidIInvInit == Init => VoidIInv
<1> SUFFICES ASSUME Init PROVE VoidIInv
    OBVIOUS
<1>1. VoidsKnow
    BY DEF Init, VoidsKnow, VoidKnows, NoRequest
<1>2. \A p \in Payments : Believers(p) = {}
    BY DEF Init, Believers, NoRequest
<1>3. VoidsHaveRoom
    BY <1>2, FS_EmptySet, BelieversAreFinite DEF VoidsHaveRoom, Init
<1> QED
    BY <1>1, <1>3, InitIInv DEF VoidIInv

LEMMA SpecVoidIInv == Spec => []VoidIInv
BY VoidIInvInit, VoidIInvNext, PTL DEF Spec

LEMMA BelieversBoundVoids == VoidIInv => VoidsWithinRaces
<1> SUFFICES ASSUME VoidIInv, NEW p \in Payments
             PROVE  corrections[p] + Cardinality(Voiders(p)) <= Cardinality(Requests)
    BY DEF VoidIInv, IInv, VoidsAreAccounted, VoidsWithinRaces
<1>1. Voiders(p) \subseteq Believers(p)
    BY DEF Voiders, Believers, VoidIInv, VoidsKnow, VoidKnows, IInv, RequestsKnow, Knows
<1>2. /\ Cardinality(Voiders(p)) \in Nat
      /\ Cardinality(Voiders(p)) <= Cardinality(Believers(p))
    BY <1>1, BelieversAreFinite, FS_Subset, FS_CardinalityType
<1>3. corrections[p] + Cardinality(Believers(p)) <= Cardinality(Requests)
    BY DEF VoidIInv, VoidsHaveRoom
<1>4. corrections[p] \in Nat
    BY DEF VoidIInv, IInv, TypeOK
<1> QED
    BY <1>2, <1>3, <1>4, BelieversAreFinite

\* A payment is voided exactly when it was corrected, once per accepted command,
\* and however voids race, their corrections stay within the requests in flight.
THEOREM VoidsStayWithinRaces == Spec => []VoidsWithinRaces
BY SpecVoidIInv, BelieversBoundVoids, PTL

-----------------------------------------------------------------------------
\* No request is let in to a check that is closed.
LEMMA NobodyIsAdmitted ==
    ASSUME IInv, [Next]_vars, NEW s \in Sessions, checkStatus[s] = "closed"
    PROVE  Admitted(s)' \subseteq Admitted(s)
<1>1. CASE req' = req
    BY <1>1 DEF Admitted
<1>2. ASSUME NEW r \in Requests, NEW row, Moves(r, row)
      PROVE  Admitted(s)' \subseteq Admitted(s)
  <2>1. \A q \in Requests : req'[q] = IF q = r THEN row ELSE req[q]
      BY <1>2, MovedRows
  <2>2. CASE row = NoRequest
      BY <2>1, <2>2, NullIsFresh DEF Admitted, NoRequest
  <2>3. CASE GoesOn(req[r], row)
      BY <2>1, <2>3 DEF Admitted, GoesOn
  <2>4. CASE Begins(row)
      BY <2>1, <2>4 DEF Admitted, Begins
  <2> QED
      BY <1>2, <2>2, <2>3, <2>4 DEF Moves
<1> QED
    BY <1>1, <1>2, StepsMove DEF Next, vars, PlaceOrder

\* The request of a write was admitted, and has ended with it.
LEMMA WritersLeave ==
    ASSUME IInv, NEW r \in Requests, NEW s \in Sessions, r \in Admitted(s),
           req' = [req EXCEPT ![r] = NoRequest]
    PROVE  Admitted(s)' # Admitted(s)
<1>1. req'[r] = NoRequest
    BY DEF IInv, TypeOK
<1>2. r \notin Admitted(s)'
    BY <1>1, NullIsFresh DEF Admitted, NoRequest
<1> QED
    BY <1>2

LEMMA ChangesEndARequest ==
    ASSUME IInv, VoidsKnow, [Next]_vars, NEW s \in Sessions, Counted(s)' # Counted(s)
    PROVE  Admitted(s)' # Admitted(s)
<1>0. payment' # payment
    BY DEF Counted
<1>1. ASSUME NEW r \in Requests, CommitRecord(r) PROVE Admitted(s)' # Admitted(s)
  <2>1. PICK p \in Payments :
           /\ payment[p] = NULL
           /\ payment' = [payment EXCEPT ![p] = [session |-> req[r].session,
                             amount |-> req[r].amount, status |-> "recorded"]]
           /\ req' = [req EXCEPT ![r] = NoRequest]
      BY <1>0, <1>1 DEF CommitRecord, Refuse, Answer, money
  <2>2. /\ payment'[p].session = req[r].session
        /\ \A q \in Payments : q # p => payment'[q] = payment[q]
      BY <2>1 DEF IInv, TypeOK
  <2>3. req[r].session = s
      BY <2>1, <2>2 DEF Counted
  <2>4. r \in Admitted(s)
      BY <1>1, <2>3 DEF Admitted, CommitRecord
  <2> QED
      BY <2>1, <2>4, WritersLeave
<1>2. ASSUME NEW r \in Requests, CommitVoid(r) PROVE Admitted(s)' # Admitted(s)
  <2> DEFINE p == req[r].payment
  <2>1. /\ payment' = [payment EXCEPT ![p].status = "voided"]
        /\ req' = [req EXCEPT ![r] = NoRequest]
        /\ req[r].pc = "void"
      BY <1>0, <1>2 DEF CommitVoid, Refuse, Answer, money
  <2>2. /\ p \in Payments
        /\ payment[p] # NULL
        /\ payment[p].session = req[r].session
      BY <2>1 DEF VoidsKnow, VoidKnows, IInv, RequestsKnow, Knows
  <2> HIDE DEF p
  <2>3. payment[p] \in PaymentRow
      BY <2>2, RowsAreNotNull DEF IInv
  <2>4. /\ payment'[p].session = payment[p].session
        /\ \A q \in Payments : q # p => payment'[q] = payment[q]
      BY <2>1, <2>2, <2>3 DEF IInv, TypeOK, PaymentRow
  <2>5. req[r].session = s
      BY <2>2, <2>4 DEF Counted
  <2>6. r \in Admitted(s)
      BY <2>1, <2>5 DEF Admitted
  <2> QED
      BY <2>1, <2>6, WritersLeave
<1>3. ASSUME NEW r \in Requests, CashierStep(r) PROVE CommitRecord(r) \/ CommitVoid(r)
    BY <1>0, <1>3
       DEF CashierStep, BeginRecord, BeginVoid, BeginClose, ReadKey, ReadTotal, ReadPaid,
           ReadCheckForVoid, ReadVoidKey, CommitClose, Vanish, Refuse, money
<1> QED
    BY <1>0, <1>1, <1>2, <1>3 DEF Next, vars, PlaceOrder, money

\* However payments, voids and closes race, a closed check only drains.
THEOREM ChecksDrain == Spec => ClosedChecksDrain
<1>1. VoidIInv /\ [Next]_vars
         => [\A s \in Sessions : checkStatus[s] = "closed" =>
                /\ Admitted(s)' \subseteq Admitted(s)
                /\ Counted(s)' # Counted(s) => Admitted(s)' # Admitted(s)]_vars
    BY NobodyIsAdmitted, ChangesEndARequest DEF VoidIInv
<1> QED
    BY <1>1, SpecVoidIInv, PTL DEF Spec, ClosedChecksDrain
=============================================================================
