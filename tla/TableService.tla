---------------------------- MODULE TableService ----------------------------
(***************************************************************************)
(* Customers and cashiers at the same tables: Ordering and Settlement over *)
(* one database. They share table_sessions and checks: submit_order opens  *)
(* them, close_session closes them, and each reads what the other wrote at *)
(* any of its statements. What a session owes (_total_minor) is the sum of *)
(* its order items, so the bill grows with the submit transaction, and     *)
(* Settlement's PlaceOrder and Ordering's CloseTable have no step here.    *)
(* Keys and Requests are those of the customers.                           *)
(***************************************************************************)
EXTENDS Ordering, FiniteSetsExt

CONSTANTS
    Payments,        \* the constants of Settlement.tla
    PaymentKeys,
    Amounts,
    Reasons,
    CashierRequests

VARIABLES payment, keyRow, voidKeyRow, corrections, closures, req, reply

orderingOnly == <<sessionTable, customer, cart, order, submitKey, work, answer>>
settlementOnly == <<payment, keyRow, voidKeyRow, corrections, closures, req, reply>>
serviceVars == <<sessionStatus, checkStatus, sessionTable, customer, cart, order, submitKey,
                 work, answer, payment, keyRow, voidKeyRow, corrections, closures, req, reply>>

\* The units of an order; a unit costs 1.
Units(lines) == MapThenSumSet(LAMBDA i : lines[i], Items)

\* _total_minor: the price of all order items of the session.
Total(s) == MapThenSumSet(LAMBDA o : Units(order[o].lines), OrdersOf(s))

Till == INSTANCE Settlement WITH
    Keys <- PaymentKeys,
    Requests <- CashierRequests,
    Totals <- Nat,
    total <- [s \in Sessions |-> Total(s)]

ASSUME ServiceAssumption ==
    /\ IsFiniteSet(Items)
    \* and what Settlement.tla assumes.
    /\ Amounts \subseteq Nat \ {0}
    /\ IsFiniteSet(PaymentKeys)
    /\ IsFiniteSet(CashierRequests)
    /\ NULL \notin Payments \cup PaymentKeys \cup Amounts \cup Reasons \cup CashierRequests
    /\ NULL \notin Till!PaymentRow \cup Till!KeyRow
    /\ NULL \notin [session : Sessions, amount : Amounts, standing : {"entered", "struck"}]

-----------------------------------------------------------------------------
ServiceInit ==
    /\ Init
    /\ Till!Init

ShopStep ==
    /\ \/ Environment
       \/ \E r \in Requests : CustomerStep(r)
    /\ UNCHANGED settlementOnly

TillStep ==
    /\ UNCHANGED orderingOnly
    /\ \E r \in CashierRequests : Till!CashierStep(r)

ServiceNext == ShopStep \/ TillStep

ServiceSpec == ServiceInit /\ [][ServiceNext]_serviceVars

-----------------------------------------------------------------------------
(***************************************************************************)
(* Properties                                                              *)
(***************************************************************************)

(***************************************************************************)
(* However orders come in between, n cashier requests at a time bring a    *)
(* check to at most n times what was ordered; with one at a time nothing   *)
(* is ever paid beyond the bill.                                           *)
(***************************************************************************)
NothingIsOverpaid == Till!PaidWithinRaces

(***************************************************************************)
(* A close settles whole orders: the bill is read in two statements while  *)
(* customers go on ordering, and yet, with one cashier request at a time,  *)
(* what a closed session was paid is the price of some of its orders. The  *)
(* rest came after the cashier had looked, and nothing of it is paid: no   *)
(* order is settled in part, and none is paid twice.                       *)
(***************************************************************************)
ClosesSettleWholeOrders ==
    \A s \in Sessions : sessionStatus[s] = "closed" =>
        \E settled \in SUBSET OrdersOf(s) :
            Till!Paid(s) = MapThenSumSet(LAMBDA o : Units(order[o].lines), settled)

(***************************************************************************)
(* No order goes to a session that is closed, where nobody would ever ask  *)
(* for its money: "Order must not attach to a closed session"              *)
(* (docs/database/transactions.md:321).                                    *)
(***************************************************************************)
OrdersGoToOpenSessions ==
    [][\A o \in Orders :
         order[o] = NULL /\ order'[o] # NULL
         => sessionStatus[order'[o].session] # "closed"]_serviceVars
=============================================================================
