------------------------------ MODULE Ordering ------------------------------
(***************************************************************************)
(* The customers' side of a table: carts and order submission              *)
(* (modules/ordering/customer_ordering.py).                                *)
(*                                                                         *)
(* As in Settlement.tla a request is a process: each SELECT it later acts  *)
(* on is a step of its own, and the writes up to a COMMIT are one step in  *)
(* which the unique constraints decide. No statement takes a row lock, so  *)
(* a request goes on with the cart, the items and the session it saw.      *)
(* Creating a missing cart is a transaction of its own in the code and a   *)
(* step of its own here.                                                   *)
(*                                                                         *)
(* The customer session row is written by table_presence.redeem_token;     *)
(* here its presence is a value that the environment renews and lets       *)
(* lapse. Its column table_session_id is written and nowhere read, and is  *)
(* left out. Prices are left out: every unit costs the same.               *)
(***************************************************************************)
EXTENDS Naturals, FiniteSets

CONSTANTS
    Tables,      \* enabled tables of a tenant
    Customers,   \* identities for customer_ordering_sessions rows
    Carts,       \* identities for customer_carts rows
    Items,       \* clientCartItemId values
    Quantities,  \* quantities; stands for the whole content of a cart item
    Selections,  \* cartItemIds of a submit: a set of items, {} for the whole cart
    Keys,        \* Idempotency-Key values
    Orders,      \* identities for orders rows
    Sessions,    \* identities for table_sessions rows
    Requests,    \* customer requests the server can have in flight at once
    NULL

VARIABLES
    sessionStatus,  \* table_sessions.status, "none" before the row exists
    checkStatus,    \* checks.status of the session's check
    sessionTable,   \* table_sessions.table_id
    customer,       \* customer_ordering_sessions: the row of each customer who came
    cart,           \* customer_carts with their customer_cart_items: NULL or the row
    order,          \* orders with their order_items: NULL or the row
    submitKey,      \* order_submit_idempotency, unique per (customer session, key)
    work,           \* the requests in flight
    answer          \* the code of the response of the last customer's step, NULL if it sent none

floor == <<sessionStatus, checkStatus, sessionTable>>
shop == <<customer, cart, order, submitKey>>
orderingVars == <<sessionStatus, checkStatus, sessionTable, customer, cart, order,
                  submitKey, work, answer>>

-----------------------------------------------------------------------------
\* The quantity of each item, 0 where there is no row.
Lines == [Items -> Quantities \cup {0}]
NoLines == [i \in Items |-> 0]

CustomerRow == [table : Tables, presence : {"fresh", "stale", "expired"}]
CartRow == [owner : Customers, status : {"active", "submitted"}, lines : Lines]
\* The cart is not a column of orders: it is kept here to state properties.
OrderRow == [customer : Customers, session : Sessions, cart : Carts, lines : Lines]
\* Selection and lines are what hash_submit_request hashes.
SubmitRow == [selection : Selections, lines : Lines, order : Orders]

ASSUME OrderingAssumption ==
    /\ Quantities \subseteq Nat \ {0}
    /\ Selections \subseteq SUBSET Items
    /\ NULL \notin Tables \cup Customers \cup Carts \cup Items \cup Keys \cup Orders
                     \cup Sessions \cup Requests
    /\ NULL \notin CartRow
    /\ NULL \notin OrderRow \cup SubmitRow
    \* and it is none of the values of Seating.tla.
    /\ NULL \notin [table : Tables, status : {"open", "closed"}]
    /\ NULL \notin [session : Sessions, lines : Lines]

NoWork == [pc |-> "idle", op |-> NULL, customer |-> NULL, item |-> NULL, quantity |-> 0,
           key |-> NULL, selection |-> {}, cart |-> NULL, lines |-> NoLines,
           session |-> NULL]

WorkRow == [pc : {"idle", "create", "write", "items", "key", "session", "commit"},
            op : {"view", "put", "submit", NULL},
            customer : Customers \cup {NULL},
            item : Items \cup {NULL},
            quantity : Quantities \cup {0},
            key : Keys \cup {NULL},
            selection : Selections \cup {{}},
            cart : Carts \cup {NULL},
            lines : Lines,
            session : Sessions \cup {NULL}]

Codes == {"cart", "submitted", "duplicate", "session_expired", "fresh_presence_required",
          "empty_cart", "idempotency_conflict", "closed_table_session", "item_not_orderable",
          "integrity_error"}

Live(c) == customer[c].presence # "expired"

ActiveCarts(c) == {b \in Carts : /\ cart[b] # NULL
                                 /\ cart[b].owner = c
                                 /\ cart[b].status = "active"}

OpenSessions(t) == {s \in Sessions : sessionStatus[s] = "open" /\ sessionTable[s] = t}

\* The items a submit is about: the selected ones, or all when none is named.
Selected(lines, selection) ==
    IF selection = {} THEN lines
    ELSE [i \in Items |-> IF i \in selection THEN lines[i] ELSE 0]

\* The request continues at its next statement.
Continue(r, row) ==
    /\ work' = [work EXCEPT ![r] = row]
    /\ answer' = NULL

\* The request ends with a response.
Respond(r, code) ==
    /\ work' = [work EXCEPT ![r] = NoWork]
    /\ answer' = code

\* The request ends without having committed anything.
Refuse(r, code) ==
    /\ Respond(r, code)
    /\ UNCHANGED <<floor, shop>>

-----------------------------------------------------------------------------
Init ==
    /\ sessionStatus = [s \in Sessions |-> "none"]
    /\ checkStatus = [s \in Sessions |-> "none"]
    /\ sessionTable = [s \in Sessions |-> NULL]
    /\ customer \in [Customers -> [table : Tables, presence : {"fresh"}]]
    /\ cart = [b \in Carts |-> NULL]
    /\ order = [o \in Orders |-> NULL]
    /\ submitKey = [c \in Customers |-> [k \in Keys |-> NULL]]
    /\ work = [r \in Requests |-> NoWork]
    /\ answer = NULL

(***************************************************************************)
(* The environment. The two minutes of fresh presence lapse and the        *)
(* customer scans the table's QR code again, or the thirty minutes of the  *)
(* customer session run out. A session never changes its table: redeeming  *)
(* the code of another table with it is refused.                           *)
(***************************************************************************)
Presence(c, from, to) ==
    /\ customer[c].presence = from
    /\ customer' = [customer EXCEPT ![c].presence = to]
    /\ answer' = NULL
    /\ UNCHANGED <<floor, cart, order, submitKey, work>>

ScanAgain(c) == Presence(c, "stale", "fresh")
Lapse(c) == Presence(c, "fresh", "stale")
Expire(c) == Presence(c, "stale", "expired")

\* The cashier closes the session and its check; TableService.tla puts
\* Settlement's close request in the place of this step.
CloseTable(s) ==
    /\ sessionStatus[s] = "open"
    /\ sessionStatus' = [sessionStatus EXCEPT ![s] = "closed"]
    /\ checkStatus' = [checkStatus EXCEPT ![s] = "closed"]
    /\ UNCHANGED <<sessionTable, shop, work, answer>>

-----------------------------------------------------------------------------
\* Mutant: the cart is looked for without its status.
BeginCartInAnyCart(r, c, op, i, q) ==
    LET row == [NoWork EXCEPT !.op = op, !.customer = c, !.item = i, !.quantity = q]
        mine == {b \in Carts : cart[b] # NULL /\ cart[b].owner = c}
    IN
    /\ work[r].pc = "idle"
    /\ Live(c)
    /\ IF mine = {} THEN Continue(r, [row EXCEPT !.pc = "create"])
       ELSE \E b \in mine : IF op = "view" THEN Respond(r, "cart")
                            ELSE Continue(r, [row EXCEPT !.pc = "write", !.cart = b])
    /\ UNCHANGED <<floor, shop>>

(***************************************************************************)
(* get_cart (view), add_or_update_cart_item (put with a quantity) and      *)
(* remove_cart_item (put of 0), their first statements: the customer       *)
(* session, which must not have expired, and its active cart.              *)
(***************************************************************************)
BeginCart(r, c, op, i, q) ==
    LET row == [NoWork EXCEPT !.op = op, !.customer = c, !.item = i, !.quantity = q] IN
    /\ work[r].pc = "idle"
    /\ \/ /\ ~ Live(c)
          /\ Refuse(r, "session_expired")
       \/ /\ Live(c)
          /\ ActiveCarts(c) = {}
          /\ Continue(r, [row EXCEPT !.pc = "create"])
          /\ UNCHANGED <<floor, shop>>
       \/ /\ Live(c)
          /\ \E b \in ActiveCarts(c) :
                IF op = "view" THEN Respond(r, "cart")
                ELSE Continue(r, [row EXCEPT !.pc = "write", !.cart = b])
          /\ UNCHANGED <<floor, shop>>

\* Mutant: customer_carts has no unique index on the active cart of a customer.
CreateCartWithoutUniqueIndex(r) ==
    LET row == work[r] IN
    /\ row.pc = "create"
    /\ \E b \in Carts :
          /\ cart[b] = NULL
          /\ cart' = [cart EXCEPT ![b] =
                         [owner |-> row.customer, status |-> "active", lines |-> NoLines]]
          /\ IF row.op = "view" THEN Respond(r, "cart")
             ELSE Continue(r, [row EXCEPT !.pc = "write", !.cart = b])
          /\ UNCHANGED <<floor, customer, order, submitKey>>

\* _get_or_create_active_cart when no active cart was seen: insert and commit.
CreateCart(r) ==
    LET row == work[r] IN
    /\ row.pc = "create"
    /\ \/ /\ ActiveCarts(row.customer) # {}
          /\ Refuse(r, "integrity_error")
       \/ /\ ActiveCarts(row.customer) = {}
          /\ \E b \in Carts :
                /\ cart[b] = NULL
                /\ cart' = [cart EXCEPT ![b] =
                               [owner |-> row.customer, status |-> "active", lines |-> NoLines]]
                /\ IF row.op = "view" THEN Respond(r, "cart")
                   ELSE Continue(r, [row EXCEPT !.pc = "write", !.cart = b])
          /\ UNCHANGED <<floor, customer, order, submitKey>>

(***************************************************************************)
(* The write of a put: the menu may refuse the product, otherwise the item *)
(* is upserted in, or deleted from, the cart that was read, whatever has   *)
(* become of that cart since.                                              *)
(***************************************************************************)
WriteCart(r) ==
    LET row == work[r] IN
    /\ row.pc = "write"
    /\ \/ /\ row.quantity # 0
          /\ Refuse(r, "item_not_orderable")
       \/ /\ cart' = [cart EXCEPT ![row.cart].lines[row.item] = row.quantity]
          /\ Respond(r, "cart")
          /\ UNCHANGED <<floor, customer, order, submitKey>>

-----------------------------------------------------------------------------
\* submit_order, first statements: the customer session with its presence, the cart.
BeginSubmit(r, c, k, selection) ==
    LET row == [NoWork EXCEPT !.op = "submit", !.customer = c, !.key = k,
                              !.selection = selection]
    IN
    /\ work[r].pc = "idle"
    /\ \/ /\ ~ Live(c)
          /\ Refuse(r, "session_expired")
       \/ /\ customer[c].presence = "stale"
          /\ Refuse(r, "fresh_presence_required")
       \/ /\ customer[c].presence = "fresh"
          /\ ActiveCarts(c) = {}
          /\ Refuse(r, "empty_cart")
       \/ /\ customer[c].presence = "fresh"
          /\ \E b \in ActiveCarts(c) : Continue(r, [row EXCEPT !.pc = "items", !.cart = b])
          /\ UNCHANGED <<floor, shop>>

\* submit_order, the items of the cart that was read.
ReadItems(r) ==
    LET row == work[r]
        lines == Selected(cart[row.cart].lines, row.selection)
    IN
    /\ row.pc = "items"
    /\ \/ /\ lines = NoLines
          /\ Refuse(r, "empty_cart")
       \/ /\ lines # NoLines
          /\ Continue(r, [row EXCEPT !.pc = "key", !.lines = lines])
          /\ UNCHANGED <<floor, shop>>

(***************************************************************************)
(* submit_order, the idempotency row. A row is committed only with its     *)
(* order and in status "completed", so the code's way past a row that is   *)
(* still "processing" is never taken.                                      *)
(***************************************************************************)
ReadSubmitKey(r) ==
    LET row == work[r]
        found == submitKey[row.customer][row.key]
    IN
    /\ row.pc = "key"
    /\ \/ /\ found = NULL
          /\ Continue(r, [row EXCEPT !.pc = "session"])
          /\ UNCHANGED <<floor, shop>>
       \/ /\ found # NULL
          /\ <<found.selection, found.lines>> # <<row.selection, row.lines>>
          /\ Refuse(r, "idempotency_conflict")
       \/ /\ found # NULL
          /\ <<found.selection, found.lines>> = <<row.selection, row.lines>>
          /\ Respond(r, "duplicate")
          /\ UNCHANGED <<floor, shop>>

\* Mutant: a session of the table is looked for without its status.
ReadAnySession(r) ==
    /\ work[r].pc = "session"
    /\ LET t == customer[work[r].customer].table
           seated == {s \in Sessions : sessionTable[s] = t}
       IN \E s \in IF seated = {} THEN {NULL} ELSE seated :
             Continue(r, [work[r] EXCEPT !.pc = "commit", !.session = s])
    /\ UNCHANGED <<floor, shop>>

\* _open_table_session_and_check, its first statement: the open session of the table.
ReadOpenSession(r) ==
    LET row == work[r]
        open == OpenSessions(customer[row.customer].table)
    IN
    /\ row.pc = "session"
    /\ \E s \in IF open = {} THEN {NULL} ELSE open :
          Continue(r, [row EXCEPT !.pc = "commit", !.session = s])
    /\ UNCHANGED <<floor, shop>>

\* The rows a submit inserts or updates, in session s, as order o.
WriteOrder(r, s, o) ==
    LET row == work[r] IN
    /\ sessionStatus' = [sessionStatus EXCEPT ![s] = IF row.session = NULL THEN "open" ELSE @]
    /\ checkStatus' = [checkStatus EXCEPT ![s] = IF row.session = NULL THEN "open" ELSE @]
    /\ sessionTable' = [sessionTable EXCEPT ![s] = customer[row.customer].table]
    /\ order' = [order EXCEPT ![o] = [customer |-> row.customer, session |-> s,
                                      cart |-> row.cart, lines |-> row.lines]]
    /\ cart' = [cart EXCEPT ![row.cart].status = "submitted"]
    /\ submitKey' = [submitKey EXCEPT ![row.customer][row.key] =
                        [selection |-> row.selection, lines |-> row.lines, order |-> o]]
    /\ Respond(r, "submitted")
    /\ UNCHANGED customer

\* The session an order goes to: the one that was seen, or a new one.
Targets(row) ==
    IF row.session # NULL THEN {row.session}
    ELSE {s \in Sessions : sessionStatus[s] = "none"}

NewOrders == {o \in Orders : order[o] = NULL}

\* Mutant: table_sessions has no unique index on the open session of a table.
CommitSubmitWithoutUniqueOpen(r) ==
    /\ work[r].pc = "commit"
    /\ submitKey[work[r].customer][work[r].key] = NULL
    /\ \E s \in Targets(work[r]), o \in NewOrders : WriteOrder(r, s, o)

\* Mutant: order_submit_idempotency has no unique constraint.
CommitSubmitWithoutUniqueKey(r) ==
    /\ work[r].pc = "commit"
    /\ work[r].session # NULL \/ OpenSessions(customer[work[r].customer].table) = {}
    /\ \E s \in Targets(work[r]), o \in NewOrders : WriteOrder(r, s, o)

\* Mutant: the order of a key that is already there is written again.
CommitSubmitReplacing(r) ==
    LET found == submitKey[work[r].customer][work[r].key] IN
    /\ work[r].pc = "commit"
    /\ work[r].session # NULL \/ OpenSessions(customer[work[r].customer].table) = {}
    /\ \E s \in Targets(work[r]), o \in Orders :
          /\ IF found # NULL THEN o = found.order ELSE o \in NewOrders
          /\ WriteOrder(r, s, o)

(***************************************************************************)
(* submit_order, its writes. The idempotency row is inserted first and is  *)
(* unique. A session is inserted when none was seen, and is unique among   *)
(* the open ones of the table: the loser answers closed_table_session. The *)
(* menu may refuse an item. The session that was seen is used as it is,    *)
(* and the cart is marked whatever its status.                             *)
(***************************************************************************)
CommitSubmit(r) ==
    LET row == work[r]
        taken == submitKey[row.customer][row.key] # NULL
        late == row.session = NULL /\ OpenSessions(customer[row.customer].table) # {}
    IN
    /\ row.pc = "commit"
    /\ \/ /\ taken
          /\ Refuse(r, "integrity_error")
       \/ /\ ~ taken
          /\ late
          /\ Refuse(r, "closed_table_session")
       \/ /\ ~ taken
          /\ ~ late
          /\ Refuse(r, "item_not_orderable")
       \/ /\ ~ taken
          /\ ~ late
          /\ \E s \in Targets(row), o \in NewOrders : WriteOrder(r, s, o)

\* The client disconnects or the server stops: the transaction is rolled back.
Vanish(r) ==
    /\ work[r].pc # "idle"
    /\ Continue(r, NoWork)
    /\ UNCHANGED <<floor, shop>>

-----------------------------------------------------------------------------
Environment == \E c \in Customers : ScanAgain(c) \/ Lapse(c) \/ Expire(c)

CustomerStep(r) ==
    \/ \E c \in Customers : BeginCart(r, c, "view", NULL, 0)
    \/ \E c \in Customers, i \in Items, q \in Quantities \cup {0} : BeginCart(r, c, "put", i, q)
    \/ CreateCart(r)
    \/ WriteCart(r)
    \/ \E c \in Customers, k \in Keys, selection \in Selections :
          BeginSubmit(r, c, k, selection)
    \/ ReadItems(r)
    \/ ReadSubmitKey(r)
    \/ ReadOpenSession(r)
    \/ CommitSubmit(r)
    \/ Vanish(r)

Next ==
    \/ Environment
    \/ \E s \in Sessions : CloseTable(s)
    \/ \E r \in Requests : CustomerStep(r)

Spec == Init /\ [][Next]_orderingVars

-----------------------------------------------------------------------------
(***************************************************************************)
(* Properties                                                              *)
(***************************************************************************)

\* Every variable holds rows of its table, every request a known statement.
TypeOK ==
    /\ sessionStatus \in [Sessions -> {"none", "open", "closed"}]
    /\ checkStatus \in [Sessions -> {"none", "open", "closed"}]
    /\ sessionTable \in [Sessions -> Tables \cup {NULL}]
    /\ customer \in [Customers -> CustomerRow]
    /\ cart \in [Carts -> CartRow \cup {NULL}]
    /\ order \in [Orders -> OrderRow \cup {NULL}]
    /\ submitKey \in [Customers -> [Keys -> SubmitRow \cup {NULL}]]
    /\ work \in [Requests -> WorkRow]
    /\ answer \in Codes \cup {NULL}

(***************************************************************************)
(* However first orders, later orders and closes interleave at a table: at *)
(* most one of its sessions is open, a session and its check share their   *)
(* status, and a session exists exactly when an order was placed in it, so *)
(* that a refused or vanished submit leaves no empty session behind.       *)
(***************************************************************************)
TablesAreWhole ==
    /\ \A s, u \in Sessions :
          /\ sessionStatus[s] = "open"
          /\ sessionStatus[u] = "open"
          /\ sessionTable[s] = sessionTable[u]
          => s = u
    /\ \A s \in Sessions :
          /\ sessionStatus[s] = checkStatus[s]
          /\ sessionStatus[s] # "none" <=> \E o \in Orders : order[o] # NULL /\ order[o].session = s

(***************************************************************************)
(* A customer session never has two active carts, whatever requests create *)
(* a missing one at once, and nothing that is active has been ordered:     *)
(* otherwise a submit could miss accepted items, and a cart be ordered     *)
(* again by a request that came later. Two that race may both order it.    *)
(***************************************************************************)
OneActiveCart ==
    \A c \in Customers :
        /\ \A a, b \in ActiveCarts(c) : a = b
        /\ \A o \in Orders : order[o] # NULL => order[o].cart \notin ActiveCarts(c)

(***************************************************************************)
(* One key buys one order: every order is named by exactly one row of its  *)
(* customer's order_submit_idempotency, which hashes the lines that were   *)
(* ordered; and every such row names an order.                             *)
(***************************************************************************)
OrdersAreKeyed ==
    /\ \A o \in Orders : order[o] # NULL =>
          \E k \in Keys : /\ submitKey[order[o].customer][k] # NULL
                         /\ submitKey[order[o].customer][k].order = o
    /\ \A c \in Customers, k \in Keys : submitKey[c][k] # NULL =>
          LET o == submitKey[c][k].order IN
          /\ order[o] # NULL
          /\ order[o].customer = c
          /\ order[o].lines = submitKey[c][k].lines
          /\ \A d \in Customers, l \in Keys :
                submitKey[d][l] # NULL /\ submitKey[d][l].order = o => <<d, l>> = <<c, k>>

(***************************************************************************)
(* A submitted cart drains: the requests that hold it, having found it     *)
(* active, only become fewer, and a late write to it or a second order of  *)
(* it ends one of them. So what goes wrong with a submitted cart, an       *)
(* accepted item that nobody orders or the same items ordered twice, is    *)
(* the work of requests that were under way when it was submitted, happens *)
(* at most once for each of them, and never to a request that comes later. *)
(***************************************************************************)
Holders(b) == {r \in Requests : work[r].cart = b}
OrdersFrom(b) == {o \in Orders : order[o] # NULL /\ order[o].cart = b}

SubmittedCartsDrain ==
    [][\A b \in Carts : cart[b] # NULL /\ cart[b].status = "submitted" =>
          /\ Holders(b)' \subseteq Holders(b)
          /\ cart'[b] # cart[b] \/ OrdersFrom(b)' # OrdersFrom(b)
                => Holders(b)' # Holders(b)]_orderingVars

(***************************************************************************)
(* A closed session drains in the same way: an order that reaches it was   *)
(* on its way before the close, and orders at the table that look for its  *)
(* session later go to another one.                                        *)
(***************************************************************************)
Carriers(s) == {r \in Requests : work[r].session = s}
OrdersOf(s) == {o \in Orders : order[o] # NULL /\ order[o].session = s}

ClosedSessionsDrain ==
    [][\A s \in Sessions : sessionStatus[s] = "closed" =>
          /\ Carriers(s)' \subseteq Carriers(s)
          /\ OrdersOf(s)' # OrdersOf(s) => Carriers(s)' # Carriers(s)]_orderingVars

(***************************************************************************)
(* What docs/database/transactions.md says of the same races, and the code *)
(* does not do. First: "latest accepted write returns active cart/version" *)
(* (line 145), so that an accepted put lands in the active cart.           *)
(***************************************************************************)
AcceptedPutIsInActiveCart ==
    [][\A r \in Requests :
         WriteCart(r) /\ answer' = "cart" => cart'[work[r].cart].status = "active"]_orderingVars

\* No cart is ordered twice: "Reserve `order_submit_idempotency`; lock
\* CustomerOrderingSession/cart" (line 156), so that a second submit of a cart
\* finds it submitted.
CartsAreOrderedOnce == \A b \in Carts : \A o, p \in OrdersFrom(b) : o = p

(***************************************************************************)
(* Ordering implements Seating: through all interleavings of requests      *)
(* orders are placed once and never change, and tables are seated one      *)
(* party after the other.                                                  *)
(***************************************************************************)
SeatOf(s) ==
    IF sessionStatus[s] = "none" THEN NULL
    ELSE [table |-> sessionTable[s], status |-> sessionStatus[s]]

PlacedAs(o) ==
    IF order[o] = NULL THEN NULL
    ELSE [session |-> order[o].session, lines |-> order[o].lines]

TheSeating == INSTANCE Seating WITH
    seat <- [s \in Sessions |-> SeatOf(s)],
    placed <- [o \in Orders |-> PlacedAs(o)]

ImplementsSeating == TheSeating!SeatingSpec
=============================================================================
