------------------------------- MODULE Ledger -------------------------------
(***************************************************************************)
(* What settlement promises about the bills of a venue, free of requests,  *)
(* rows and transactions: a bill is opened once and closed once, a keyed   *)
(* payment command takes effect at most once, and a payment, once in the   *)
(* book, keeps its bill and its amount and can only be voided.             *)
(* Settlement.tla is shown to implement this module.                       *)
(***************************************************************************)
CONSTANTS
    Sessions,    \* table sessions; a session and its single check are one bill
    Payments,    \* identities a payment may be given
    Keys,        \* idempotency keys chosen by cashier clients
    Amounts,     \* amounts of money, in minor units
    NULL         \* "no row"

VARIABLES
    bill,        \* [Sessions -> {"none", "open", "closed"}]
    book,        \* [Payments -> NULL or [session, amount, standing]]
    spent        \* [Sessions -> [Keys -> NULL or the payment the key bought]]

ledgerVars == <<bill, book, spent>>

LedgerInit ==
    /\ bill = [s \in Sessions |-> "none"]
    /\ book = [p \in Payments |-> NULL]
    /\ spent = [s \in Sessions |-> [k \in Keys |-> NULL]]

OpenBill(s) ==
    /\ bill[s] = "none"
    /\ bill' = [bill EXCEPT ![s] = "open"]
    /\ UNCHANGED <<book, spent>>

\* A payment enters the book together with the key that bought it.
Enter(s, k, p, a) ==
    /\ bill[s] # "none"
    /\ spent[s][k] = NULL
    /\ book[p] = NULL
    /\ book' = [book EXCEPT ![p] = [session |-> s, amount |-> a, standing |-> "entered"]]
    /\ spent' = [spent EXCEPT ![s][k] = p]
    /\ UNCHANGED bill

Strike(p) ==
    /\ book[p] # NULL
    /\ book[p].standing = "entered"
    /\ book' = [book EXCEPT ![p].standing = "struck"]
    /\ UNCHANGED <<bill, spent>>

CloseBill(s) ==
    /\ bill[s] = "open"
    /\ bill' = [bill EXCEPT ![s] = "closed"]
    /\ UNCHANGED <<book, spent>>

LedgerNext ==
    \/ \E s \in Sessions : OpenBill(s) \/ CloseBill(s)
    \/ \E s \in Sessions, k \in Keys, p \in Payments, a \in Amounts : Enter(s, k, p, a)
    \/ \E p \in Payments : Strike(p)

LedgerSpec == LedgerInit /\ [][LedgerNext]_ledgerVars
=============================================================================
