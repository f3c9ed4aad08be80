----------------------------- MODULE Settlement -----------------------------
(***************************************************************************)
(* The cashier's side of a table session: payments.record_payment,         *)
(* payments.void_payment and table_session_billing.close_session.          *)
(*                                                                         *)
(* Every HTTP request is one database transaction at READ COMMITTED (the   *)
(* engine of database/session.py sets no isolation level, and no settlement*)
(* statement takes a row lock). A request is therefore a process: each     *)
(* SELECT on which it later acts is a step that sees what is committed at  *)
(* that moment, and its writes with the COMMIT are one last step, in which *)
(* the unique constraints decide (a loser waits for the winner's commit    *)
(* and then fails with IntegrityError). A request may vanish between two   *)
(* steps: its database session is closed without commit.                   *)
(***************************************************************************)
EXTENDS Naturals, FiniteSets, FiniteSetsExt

CONSTANTS
    Sessions,    \* table sessions of a tenant; a session and its check are 1:1
    Payments,    \* identities for payment rows
    Keys,        \* Idempotency-Key values
    Amounts,     \* amount_minor values; stands for the hashed request body
    Reasons,     \* void reasons; stands for the hashed request body of a void
    Requests,    \* cashier requests the server can have in flight at once
    Totals,      \* what can be ordered in one session; all numbers in TableService.tla
    NULL

VARIABLES
    sessionStatus,  \* table_sessions.status, "none" before the row exists
    checkStatus,    \* checks.status of the session's check
    total,          \* sum over the session's non-voided order items
    payment,        \* payments: NULL or the row
    keyRow,         \* payment_idempotency, unique per (check, key)
    voidKeyRow,     \* payment_void_idempotency, unique per (payment, key)
    corrections,    \* number of payment_void rows in cashier_corrections
    closures,       \* number of session_closures rows of a session
    req,            \* the requests in flight
    reply           \* the response of the last cashier's step, NULL if it sent none

tables == <<sessionStatus, checkStatus, total>>
money == <<payment, keyRow, voidKeyRow, corrections, closures>>
vars == <<sessionStatus, checkStatus, total, payment, keyRow, voidKeyRow,
          corrections, closures, req, reply>>

-----------------------------------------------------------------------------
Status == {"none", "open", "closed"}

PaymentRow == [session : Sessions, amount : Amounts, status : {"recorded", "voided"}]
KeyRow == [amount : Amounts, payment : Payments]

ASSUME SettlementAssumption ==
    /\ Amounts \subseteq Nat \ {0}
    /\ Totals \subseteq Nat
    /\ IsFiniteSet(Keys)
    /\ IsFiniteSet(Requests)
    /\ NULL \notin Sessions \cup Payments \cup Keys \cup Amounts \cup Reasons \cup Requests
    /\ NULL \notin PaymentRow \cup KeyRow
    /\ NULL \notin [session : Sessions, amount : Amounts, standing : {"entered", "struck"}]

Absent == [p \in Payments |-> NULL]

NoRequest == [pc |-> "idle", op |-> NULL, session |-> NULL, key |-> NULL,
              amount |-> NULL, payment |-> NULL, reason |-> NULL, seen |-> NULL,
              total |-> 0]

RequestRow == [pc : {"idle", "key", "total", "paid", "commit", "check", "voidkey", "void"},
               op : {"record", "void", "close", NULL},
               session : Sessions \cup {NULL},
               key : Keys \cup {NULL},
               amount : Amounts \cup {NULL},
               payment : Payments \cup {NULL},
               reason : Reasons \cup {NULL},
               seen : {"recorded", "voided", NULL},
               total : Nat]

Codes == {"recorded", "voided", "closed", "duplicate", "not_found_or_hidden", "check_closed",
          "idempotency_conflict", "overpayment_not_allowed", "payment_void_not_allowed",
          "remaining_balance_not_zero", "invalid_state", "integrity_error"}

ReplyRow == [request : Requests, code : Codes, payment : Payments \cup {NULL}]

\* The set of payments that count towards the check of session s.
Counted(s) == {p \in Payments : /\ payment[p] # NULL
                                /\ payment[p].session = s
                                /\ payment[p].status = "recorded"}

\* paid_minor: the sum of the recorded payments of the check.
Paid(s) == MapThenSumSet(LAMBDA p : payment[p].amount, Counted(s))

\* max(total_minor - paid_minor, 0)
Remaining(t, paid) == IF t > paid THEN t - paid ELSE 0

\* The request continues at its next statement; nothing is committed or sent.
Continue(r, row) ==
    /\ req' = [req EXCEPT ![r] = row]
    /\ reply' = NULL

\* The request ends, with a response that may name a payment.
Answer(r, code, p) ==
    /\ req' = [req EXCEPT ![r] = NoRequest]
    /\ reply' = [request |-> r, code |-> code, payment |-> p]

\* The request ends without having committed anything.
Refuse(r, code) ==
    /\ Answer(r, code, NULL)
    /\ UNCHANGED <<tables, money>>

-----------------------------------------------------------------------------
Init ==
    /\ sessionStatus = [s \in Sessions |-> "none"]
    /\ checkStatus = [s \in Sessions |-> "none"]
    /\ total = [s \in Sessions |-> 0]
    /\ payment = Absent
    /\ keyRow = [s \in Sessions |-> [k \in Keys |-> NULL]]
    /\ voidKeyRow = [p \in Payments |-> [k \in Keys |-> NULL]]
    /\ corrections = [p \in Payments |-> 0]
    /\ closures = [s \in Sessions |-> 0]
    /\ req = [r \in Requests |-> NoRequest]
    /\ reply = NULL

(***************************************************************************)
(* The customers' side as settlement sees it: a submitted order opens the  *)
(* session and its check when there is none, and may add to the bill; its  *)
(* items may be free. It may come late, to a session that was closed after *)
(* it had been found open, and leaves that closed. TableService.tla puts   *)
(* the real submit transaction in the place of this step.                  *)
(***************************************************************************)
PlaceOrder(s, t) ==
    /\ total[s] <= t
    /\ sessionStatus' = [sessionStatus EXCEPT ![s] = IF @ = "none" THEN "open" ELSE @]
    /\ checkStatus' = [checkStatus EXCEPT ![s] = IF @ = "none" THEN "open" ELSE @]
    /\ total' = [total EXCEPT ![s] = t]
    /\ UNCHANGED <<money, req, reply>>

\* Mutant: any check that exists may be paid.
BeginRecordOnAnyCheck(r, s, k, a) ==
    /\ req[r].pc = "idle"
    /\ checkStatus[s] # "none"
    /\ Continue(r, [NoRequest EXCEPT !.pc = "key", !.op = "record",
                                     !.session = s, !.key = k, !.amount = a])
    /\ UNCHANGED <<tables, money>>

\* record_payment, first statement: the check row.
BeginRecord(r, s, k, a) ==
    /\ req[r].pc = "idle"
    /\ \/ /\ checkStatus[s] = "none"
          /\ Refuse(r, "not_found_or_hidden")
       \/ /\ checkStatus[s] = "closed"
          /\ Refuse(r, "check_closed")
       \/ /\ checkStatus[s] = "open"
          /\ Continue(r, [NoRequest EXCEPT !.pc = "key", !.op = "record",
                                           !.session = s, !.key = k, !.amount = a])
          /\ UNCHANGED <<tables, money>>

(***************************************************************************)
(* record_payment, the idempotency row. A row is committed only with its   *)
(* payment and in status "completed", so the "processing" branch of the    *)
(* code is never taken.                                                    *)
(***************************************************************************)
ReadKey(r) ==
    /\ req[r].pc = "key"
    /\ LET row == keyRow[req[r].session][req[r].key] IN
       \/ /\ row = NULL
          /\ Continue(r, [req[r] EXCEPT !.pc = "total"])
          /\ UNCHANGED <<tables, money>>
       \/ /\ row # NULL
          /\ row.amount # req[r].amount
          /\ Refuse(r, "idempotency_conflict")
       \/ /\ row # NULL
          /\ row.amount = req[r].amount
          /\ Answer(r, "duplicate", row.payment)
          /\ UNCHANGED <<tables, money>>

\* bill_summary_for_check, first statement: the total of the session's orders.
ReadTotal(r) ==
    /\ req[r].pc = "total"
    /\ Continue(r, [req[r] EXCEPT !.pc = "paid", !.total = total[req[r].session]])
    /\ UNCHANGED <<tables, money>>

\* Mutant: any amount is accepted while something is left to pay.
ReadPaidTestsForRestOnly(r) ==
    /\ req[r].pc = "paid"
    /\ LET left == Remaining(req[r].total, Paid(req[r].session)) IN
       IF (req[r].op = "record") = (left = 0)
       THEN Refuse(r, "overpayment_not_allowed")
       ELSE /\ Continue(r, [req[r] EXCEPT !.pc = "commit", !.total = 0])
            /\ UNCHANGED <<tables, money>>

\* bill_summary_for_check, second statement, and the caller's test of the result.
ReadPaid(r) ==
    /\ req[r].pc = "paid"
    /\ LET left == Remaining(req[r].total, Paid(req[r].session)) IN
       \/ /\ req[r].op = "record"
          /\ req[r].amount > left
          /\ Refuse(r, "overpayment_not_allowed")
       \/ /\ req[r].op = "close"
          /\ left # 0
          /\ Refuse(r, "remaining_balance_not_zero")
       \/ /\ req[r].op = "record" => req[r].amount <= left
          /\ req[r].op = "close" => left = 0
          /\ Continue(r, [req[r] EXCEPT !.pc = "commit", !.total = 0])
          /\ UNCHANGED <<tables, money>>

\* Mutant: payment_idempotency has no unique constraint.
CommitRecordWithoutUniqueKey(r) ==
    /\ req[r].pc = "commit"
    /\ req[r].op = "record"
    /\ \E p \in Payments :
          /\ payment[p] = NULL
          /\ payment' = [payment EXCEPT ![p] = [session |-> req[r].session,
                            amount |-> req[r].amount, status |-> "recorded"]]
          /\ keyRow' = [keyRow EXCEPT ![req[r].session][req[r].key] =
                            [amount |-> req[r].amount, payment |-> p]]
          /\ Answer(r, "recorded", p)
    /\ UNCHANGED <<tables, voidKeyRow, corrections, closures>>

\* Mutant: the loser of a key conflict updates the winner's payment.
CommitRecordAsUpsert(r) ==
    /\ req[r].pc = "commit"
    /\ req[r].op = "record"
    /\ LET s == req[r].session
           k == req[r].key
       IN \E p \in Payments :
             /\ p = IF keyRow[s][k] # NULL THEN keyRow[s][k].payment
                    ELSE CHOOSE q \in Payments : payment[q] = NULL
             /\ payment' = [payment EXCEPT ![p] = [session |-> s,
                               amount |-> req[r].amount, status |-> "recorded"]]
             /\ keyRow' = [keyRow EXCEPT ![s][k] = [amount |-> req[r].amount, payment |-> p]]
             /\ Answer(r, "recorded", p)
    /\ UNCHANGED <<tables, voidKeyRow, corrections, closures>>

\* record_payment, its writes: idempotency row, payment, completion, commit.
CommitRecord(r) ==
    /\ req[r].pc = "commit"
    /\ req[r].op = "record"
    /\ LET s == req[r].session
           k == req[r].key
           a == req[r].amount
       IN \/ /\ keyRow[s][k] # NULL
             /\ Refuse(r, "integrity_error")
          \/ /\ keyRow[s][k] = NULL
             /\ \E p \in Payments :
                   /\ payment[p] = NULL
                   /\ payment' = [payment EXCEPT ![p] =
                                    [session |-> s, amount |-> a, status |-> "recorded"]]
                   /\ keyRow' = [keyRow EXCEPT ![s][k] = [amount |-> a, payment |-> p]]
                   /\ Answer(r, "recorded", p)
             /\ UNCHANGED <<tables, voidKeyRow, corrections, closures>>

-----------------------------------------------------------------------------
\* void_payment, first statement: the payment row, whose status is kept.
BeginVoid(r, p, k, why) ==
    /\ req[r].pc = "idle"
    /\ \/ /\ payment[p] = NULL
          /\ Refuse(r, "not_found_or_hidden")
       \/ /\ payment[p] # NULL
          /\ Continue(r, [NoRequest EXCEPT !.pc = "check", !.op = "void",
                            !.session = payment[p].session, !.key = k,
                            !.payment = p, !.reason = why, !.seen = payment[p].status])
          /\ UNCHANGED <<tables, money>>

\* void_payment, second statement: the check row.
ReadCheckForVoid(r) ==
    /\ req[r].pc = "check"
    /\ \/ /\ checkStatus[req[r].session] # "open"
          /\ Refuse(r, "check_closed")
       \/ /\ checkStatus[req[r].session] = "open"
          /\ Continue(r, [req[r] EXCEPT !.pc = "voidkey"])
          /\ UNCHANGED <<tables, money>>

\* Mutant: a payment that was seen voided is voided again.
ReadVoidKeyWithoutStatus(r) ==
    /\ req[r].pc = "voidkey"
    /\ voidKeyRow[req[r].payment][req[r].key] = NULL
    /\ Continue(r, [req[r] EXCEPT !.pc = "void"])
    /\ UNCHANGED <<tables, money>>

\* void_payment, the idempotency row, then the test of the status read first.
ReadVoidKey(r) ==
    /\ req[r].pc = "voidkey"
    /\ LET row == voidKeyRow[req[r].payment][req[r].key] IN
       \/ /\ row \notin {NULL, req[r].reason}
          /\ Refuse(r, "idempotency_conflict")
       \/ /\ row = req[r].reason
          /\ Answer(r, "duplicate", req[r].payment)
          /\ UNCHANGED <<tables, money>>
       \/ /\ row = NULL
          /\ req[r].seen # "recorded"
          /\ Refuse(r, "payment_void_not_allowed")
       \/ /\ row = NULL
          /\ req[r].seen = "recorded"
          /\ Continue(r, [req[r] EXCEPT !.pc = "void"])
          /\ UNCHANGED <<tables, money>>

(***************************************************************************)
(* void_payment, its writes. The UPDATE names status = 'recorded', so it   *)
(* matches no row when another void came first; its row count is not       *)
(* looked at, and the correction is inserted either way.                   *)
(***************************************************************************)
CommitVoid(r) ==
    /\ req[r].pc = "void"
    /\ LET p == req[r].payment
           k == req[r].key
       IN \/ /\ voidKeyRow[p][k] # NULL
             /\ Refuse(r, "integrity_error")
          \/ /\ voidKeyRow[p][k] = NULL
             /\ voidKeyRow' = [voidKeyRow EXCEPT ![p][k] = req[r].reason]
             /\ payment' = [payment EXCEPT ![p].status = "voided"]
             /\ corrections' = [corrections EXCEPT ![p] = @ + 1]
             /\ Answer(r, "voided", p)
             /\ UNCHANGED <<tables, keyRow, closures>>

-----------------------------------------------------------------------------
\* What close_session answers when the session or its check is not open.
AlreadyClosed(s) ==
    IF checkStatus[s] = "closed" /\ sessionStatus[s] = "closed"
    THEN IF closures[s] > 0 THEN "closed" ELSE "invalid_state"
    ELSE "check_closed"

\* close_session, first statements: both statuses, and the closure when both are closed.
BeginClose(r, s) ==
    /\ req[r].pc = "idle"
    /\ \/ /\ checkStatus[s] = "none"
          /\ Refuse(r, "not_found_or_hidden")
       \/ /\ "closed" \in {checkStatus[s], sessionStatus[s]}
          /\ Refuse(r, AlreadyClosed(s))
       \/ /\ checkStatus[s] = "open"
          /\ sessionStatus[s] = "open"
          /\ Continue(r, [NoRequest EXCEPT !.pc = "total", !.op = "close", !.session = s])
          /\ UNCHANGED <<tables, money>>

\* Mutant: session_closures has no unique constraint.
CommitCloseWithoutUniqueClosure(r) ==
    /\ req[r].pc = "commit"
    /\ req[r].op = "close"
    /\ LET s == req[r].session IN
       /\ checkStatus' = [checkStatus EXCEPT ![s] = "closed"]
       /\ sessionStatus' = [sessionStatus EXCEPT ![s] = "closed"]
       /\ closures' = [closures EXCEPT ![s] = @ + 1]
    /\ Answer(r, "closed", NULL)
    /\ UNCHANGED <<total, payment, keyRow, voidKeyRow, corrections>>

\* close_session, its writes: check, session, the unique closure row, commit.
CommitClose(r) ==
    /\ req[r].pc = "commit"
    /\ req[r].op = "close"
    /\ LET s == req[r].session IN
       \/ /\ closures[s] > 0
          /\ Refuse(r, "integrity_error")
       \/ /\ closures[s] = 0
          /\ checkStatus' = [checkStatus EXCEPT ![s] = "closed"]
          /\ sessionStatus' = [sessionStatus EXCEPT ![s] = "closed"]
          /\ closures' = [closures EXCEPT ![s] = @ + 1]
          /\ Answer(r, "closed", NULL)
          /\ UNCHANGED <<total, payment, keyRow, voidKeyRow, corrections>>

\* The client disconnects or the server stops: the transaction is rolled back.
Vanish(r) ==
    /\ req[r].pc # "idle"
    /\ Continue(r, NoRequest)
    /\ UNCHANGED <<tables, money>>

-----------------------------------------------------------------------------
CashierStep(r) ==
    \/ \E s \in Sessions, k \in Keys, a \in Amounts : BeginRecord(r, s, k, a)
    \/ \E p \in Payments, k \in Keys, why \in Reasons : BeginVoid(r, p, k, why)
    \/ \E s \in Sessions : BeginClose(r, s)
    \/ ReadKey(r)
    \/ ReadTotal(r)
    \/ ReadPaid(r)
    \/ CommitRecord(r)
    \/ ReadCheckForVoid(r)
    \/ ReadVoidKey(r)
    \/ CommitVoid(r)
    \/ CommitClose(r)
    \/ Vanish(r)

Next ==
    \/ \E s \in Sessions, t \in Totals : PlaceOrder(s, t)
    \/ \E r \in Requests : CashierStep(r)

Spec == Init /\ [][Next]_vars

-----------------------------------------------------------------------------
(***************************************************************************)
(* Properties                                                              *)
(***************************************************************************)

\* Every variable holds rows of its table, every request a known statement.
TypeOK ==
    /\ sessionStatus \in [Sessions -> Status]
    /\ checkStatus \in [Sessions -> Status]
    /\ total \in [Sessions -> Nat]
    /\ payment \in [Payments -> PaymentRow \cup {NULL}]
    /\ keyRow \in [Sessions -> [Keys -> KeyRow \cup {NULL}]]
    /\ voidKeyRow \in [Payments -> [Keys -> Reasons \cup {NULL}]]
    /\ corrections \in [Payments -> Nat]
    /\ closures \in [Sessions -> Nat]
    /\ req \in [Requests -> RequestRow]
    /\ reply \in ReplyRow \cup {NULL}

(***************************************************************************)
(* A close is all or nothing, however many cashiers close at once: session *)
(* and check change together, and a closed pair has exactly one closure    *)
(* row. So the two answers close_session keeps for a half-closed session   *)
(* (check_closed, invalid_state) are never sent for a missing closure.     *)
(***************************************************************************)
CloseIsWhole ==
    \A s \in Sessions :
        /\ sessionStatus[s] = checkStatus[s]
        /\ closures[s] = IF checkStatus[s] = "closed" THEN 1 ELSE 0

(***************************************************************************)
(* One key buys one payment: whatever requests were repeated or raced with *)
(* the same Idempotency-Key, every payment row is named by exactly one     *)
(* payment_idempotency row, that of its own check, which carries the       *)
(* amount that was charged; and every such row names a payment.            *)
(***************************************************************************)
PaymentsAreKeyed ==
    /\ \A p \in Payments : payment[p] # NULL =>
          \E k \in Keys : /\ keyRow[payment[p].session][k] # NULL
                         /\ keyRow[payment[p].session][k].payment = p
    /\ \A s \in Sessions, k \in Keys : keyRow[s][k] # NULL =>
          LET p == keyRow[s][k].payment IN
          /\ payment[p] # NULL
          /\ payment[p].session = s
          /\ payment[p].amount = keyRow[s][k].amount
          /\ \A t \in Sessions, l \in Keys :
                keyRow[t][l] # NULL /\ keyRow[t][l].payment = p => <<t, l>> = <<s, k>>

(***************************************************************************)
(* The trail of a void matches the money: a payment is voided exactly when *)
(* a correction for it exists, and there are as many corrections as void   *)
(* commands that were accepted under different keys. One would be right    *)
(* (VoidedOnce); the others come from races alone: who begins after the    *)
(* first has committed sees the payment voided, so that the corrections    *)
(* and the voids about to commit are no more than requests in flight.      *)
(***************************************************************************)
Voiders(p) == {r \in Requests : req[r].pc = "void" /\ req[r].payment = p}

VoidsWithinRaces ==
    \A p \in Payments :
        /\ corrections[p] = Cardinality({k \in Keys : voidKeyRow[p][k] # NULL})
        /\ corrections[p] > 0 <=> payment[p] # NULL /\ payment[p].status = "voided"
        /\ corrections[p] + Cardinality(Voiders(p)) <= Cardinality(Requests)

(***************************************************************************)
(* What can be charged beyond the bill comes from races alone: a request   *)
(* commits at most what was left when it looked, so n requests in flight   *)
(* can bring a check to at most n times its total. With one request at a   *)
(* time this says that nothing is ever overpaid.                           *)
(***************************************************************************)
PaidWithinRaces ==
    \A s \in Sessions : Paid(s) <= Cardinality(Requests) * total[s]

(***************************************************************************)
(* A closed check drains: the requests that found it open and have still   *)
(* to write only become fewer, and every later change of its payments ends *)
(* one of them. A payment or void that begins after the close never gets   *)
(* to its writes, so a close is followed by at most as many changes as     *)
(* requests were under way when it committed, and by none after them.      *)
(***************************************************************************)
Admitted(s) ==
    {r \in Requests : /\ req[r].session = s
                      /\ req[r].op = "record" \/ req[r].pc \in {"voidkey", "void"}}

ClosedChecksDrain ==
    [][\A s \in Sessions : checkStatus[s] = "closed" =>
          /\ Admitted(s)' \subseteq Admitted(s)
          /\ Counted(s)' # Counted(s) => Admitted(s)' # Admitted(s)]_vars

(***************************************************************************)
(* What docs/database/transactions.md says of the same races, and the code *)
(* does not do. First: the payments of a closed check are final, since a   *)
(* "concurrent payment waits on Check and is evaluated after close state"  *)
(* (line 271), and a "closed Check cannot be voided" (line 325).           *)
(***************************************************************************)
ClosedChecksAreFrozen ==
    [][\A s \in Sessions : checkStatus[s] = "closed" => Counted(s)' = Counted(s)]_vars

\* A payment is voided by one command only: "Already voided payment returns
\* current compatible result only through idempotency" (line 243).
VoidedOnce == \A p \in Payments : corrections[p] <= 1

\* A check is never paid beyond its bill: "Concurrent payments serialize on Check;
\* overpay after recomputation returns `overpayment_not_allowed`" (line 229).
PaymentsFitBill == \A s \in Sessions : Paid(s) <= total[s]

(***************************************************************************)
(* Settlement implements the ledger: through all interleavings of requests *)
(* bills only open and close, each key buys once, payments keep their bill *)
(* and amount and are struck at most once.                                 *)
(***************************************************************************)
BookEntry(p) ==
    IF payment[p] = NULL THEN NULL
    ELSE [session |-> payment[p].session, amount |-> payment[p].amount,
          standing |-> IF payment[p].status = "voided" THEN "struck" ELSE "entered"]

Bought(s, k) == IF keyRow[s][k] = NULL THEN NULL ELSE keyRow[s][k].payment

TheLedger == INSTANCE Ledger WITH
    bill <- checkStatus,
    book <- [p \in Payments |-> BookEntry(p)],
    spent <- [s \in Sessions |-> [k \in Keys |-> Bought(s, k)]]

ImplementsLedger == TheLedger!LedgerSpec
=============================================================================
