--------------------------- MODULE OrderingProofs ---------------------------
(***************************************************************************)
(* Theorems about Ordering.tla for every set of tables, customers, carts,  *)
(* keys, sessions and requests.                                            *)
(*                                                                         *)
(* No statement of a request takes a lock, so what the proofs rest on is   *)
(* what a request in flight knows however long it waits (Knows): the cart  *)
(* it read still exists, whatever its status, and the session it read is a *)
(* session of its customer's table, whether or not it is still open. The   *)
(* unique constraints do the rest at the COMMIT.                           *)
(***************************************************************************)
EXTENDS TableService, FiniteSetTheorems, TLAPS

\* What a request in flight may rely on at its next statement.
Knows(row) ==
    \/ row.pc = "idle"
    \/ /\ row.pc = "create"
       /\ row.customer \in Customers
       /\ row.op \in {"view", "put"}
       /\ row.op = "put" => row.item \in Items
    \/ /\ row.pc = "write"
       /\ row.customer \in Customers
       /\ row.item \in Items
       /\ row.cart \in Carts
       /\ cart[row.cart] # NULL
    \/ /\ row.pc \in {"items", "key", "session", "commit"}
       /\ row.customer \in Customers
       /\ row.key \in Keys
       /\ row.selection \in Selections
       /\ row.cart \in Carts
       /\ cart[row.cart] # NULL
       /\ row.pc = "commit" /\ row.session # NULL =>
             /\ sessionStatus[row.session] # "none"
             /\ sessionTable[row.session] = customer[row.customer].table

RequestsKnow == \A r \in Requests : Knows(work[r])

\* A session that exists is one of a table, and the cart of an order exists
\* and is submitted.
RowsRefer ==
    /\ \A s \in Sessions : sessionStatus[s] # "none" => sessionTable[s] \in Tables
    /\ \A o \in Orders : order[o] # NULL =>
          /\ cart[order[o].cart] # NULL
          /\ cart[order[o].cart].status = "submitted"

IInv ==
    /\ TypeOK
    /\ TablesAreWhole
    /\ OneActiveCart
    /\ OrdersAreKeyed
    /\ RowsRefer
    /\ RequestsKnow

-----------------------------------------------------------------------------
\* NULL is none of the rows and identities it stands in for.
LEMMA NullIsFresh ==
    /\ NULL \notin Tables /\ NULL \notin Carts /\ NULL \notin Orders /\ NULL \notin Sessions
    /\ NULL \notin CartRow /\ NULL \notin OrderRow /\ NULL \notin SubmitRow
BY OrderingAssumption DEF OrderingAssumption

LEMMA NoLinesAreLines == NoLines \in Lines
BY DEF NoLines, Lines

LEMMA NoWorkIsARow == NoWork \in WorkRow /\ NoWork.pc = "idle"
BY NoLinesAreLines DEF NoWork, WorkRow

\* What is selected of the lines of a cart is again lines.
LEMMA SelectedAreLines ==
    ASSUME NEW lines \in Lines, NEW selection
    PROVE  Selected(lines, selection) \in Lines
BY DEF Lines, Selected

LEMMA RowsAreNotNull ==
    ASSUME TypeOK
    PROVE  /\ \A b \in Carts : cart[b] # NULL => cart[b] \in CartRow
           /\ \A o \in Orders : order[o] # NULL => order[o] \in OrderRow
           /\ \A c \in Customers, k \in Keys : submitKey[c][k] # NULL =>
                 submitKey[c][k] \in SubmitRow
BY DEF TypeOK

LEMMA InitIInv == Init => IInv
<1> SUFFICES ASSUME Init PROVE IInv
    OBVIOUS
<1>1. TypeOK
    BY NoWorkIsARow DEF Init, TypeOK, CustomerRow
<1>2. TablesAreWhole
    BY DEF Init, TablesAreWhole
<1>3. OneActiveCart
    BY DEF Init, OneActiveCart, ActiveCarts
<1>4. OrdersAreKeyed
    BY DEF Init, OrdersAreKeyed
<1>5. RowsRefer /\ RequestsKnow
    BY NoWorkIsARow DEF Init, RowsRefer, RequestsKnow, Knows
<1> QED
    BY <1>1, <1>2, <1>3, <1>4, <1>5 DEF IInv

-----------------------------------------------------------------------------
(***************************************************************************)
(* What a request knows                                                    *)
(***************************************************************************)

\* Rows are never taken away: a cart and a session stay, a session stays where
\* it is, and so does a customer.
RowsStay ==
    /\ \A b \in Carts : cart[b] # NULL => cart'[b] # NULL
    /\ \A s \in Sessions : sessionStatus[s] # "none" =>
          sessionStatus'[s] # "none" /\ sessionTable'[s] = sessionTable[s]
    /\ \A c \in Customers : customer'[c].table = customer[c].table

\* So what a request knows stays true.
LEMMA KnowledgeStays ==
    ASSUME RowsStay, NEW row \in WorkRow, Knows(row),
           NEW new, new = row
    PROVE  Knows(new)'
BY DEF RowsStay, Knows, WorkRow

\* A step that lets at most one request go on, with a row that knows enough,
\* keeps the knowledge of all.
LEMMA RequestsStayInformed ==
    ASSUME TypeOK, RequestsKnow, RowsStay,
           NEW r \in Requests, NEW row \in WorkRow,
           Knows(row)', work' = [work EXCEPT ![r] = row]
    PROVE  RequestsKnow' /\ work' \in [Requests -> WorkRow]
<1>1. work' \in [Requests -> WorkRow]
    BY DEF TypeOK
<1>2. ASSUME NEW q \in Requests
      PROVE  Knows(work[q])'
  <2>1. CASE q = r
      BY <2>1 DEF TypeOK, Knows
  <2>2. CASE q # r
    <3>1. work'[q] = work[q] /\ work[q] \in WorkRow /\ Knows(work[q])
        BY <2>2 DEF TypeOK, RequestsKnow
    <3> QED
        BY <3>1 DEF Knows, RowsStay, WorkRow
  <2> QED
      BY <2>1, <2>2
<1> QED
    BY <1>1, <1>2 DEF RequestsKnow

\* A request that moves on, or ends, without touching a table preserves IInv
\* when the row it leaves behind knows enough.
LEMMA RequestStep ==
    ASSUME IInv, NEW r \in Requests, NEW row \in WorkRow, Knows(row),
           work' = [work EXCEPT ![r] = row],
           answer' \in Codes \cup {NULL},
           UNCHANGED <<floor, shop>>
    PROVE  IInv'
<1> USE DEF IInv
<1>1. /\ sessionStatus' = sessionStatus /\ checkStatus' = checkStatus
      /\ sessionTable' = sessionTable /\ customer' = customer
      /\ cart' = cart /\ order' = order /\ submitKey' = submitKey
    BY DEF floor, shop
<1>2. RowsStay /\ Knows(row)'
    BY <1>1 DEF RowsStay, Knows
<1>3. RequestsKnow' /\ work' \in [Requests -> WorkRow]
    BY <1>2, RequestsStayInformed
<1>4. TypeOK'
    BY <1>1, <1>3 DEF TypeOK
<1>5. TablesAreWhole' /\ OneActiveCart' /\ OrdersAreKeyed' /\ RowsRefer'
    BY <1>1 DEF TablesAreWhole, OneActiveCart, ActiveCarts, OrdersAreKeyed, RowsRefer
<1> QED
    BY <1>3, <1>4, <1>5

\* The three ways in which a request leaves the tables alone.
LEMMA ContinueStep ==
    ASSUME IInv, NEW r \in Requests, NEW row \in WorkRow, Knows(row),
           Continue(r, row), UNCHANGED <<floor, shop>>
    PROVE  IInv'
BY RequestStep DEF Continue

LEMMA RespondStep ==
    ASSUME IInv, NEW r \in Requests, NEW code \in Codes,
           Respond(r, code), UNCHANGED <<floor, shop>>
    PROVE  IInv'
<1>1. NoWork \in WorkRow /\ Knows(NoWork)
    BY NoWorkIsARow DEF Knows
<1> QED
    BY <1>1, RequestStep DEF Respond

LEMMA RefuseStep ==
    ASSUME IInv, NEW r \in Requests, NEW code \in Codes, Refuse(r, code)
    PROVE  IInv'
BY RespondStep DEF Refuse

LEMMA BeginCartStep ==
    ASSUME IInv, NEW r \in Requests, NEW c \in Customers,
           NEW op \in {"view", "put"}, NEW i \in Items \cup {NULL},
           NEW q \in Quantities \cup {0}, op = "put" => i \in Items,
           BeginCart(r, c, op, i, q)
    PROVE  IInv'
<1> DEFINE row == [NoWork EXCEPT !.op = op, !.customer = c, !.item = i, !.quantity = q]
<1>1. CASE Refuse(r, "session_expired")
    BY <1>1, RefuseStep DEF Codes
<1>2. CASE Continue(r, [row EXCEPT !.pc = "create"]) /\ UNCHANGED <<floor, shop>>
  <2>1. [row EXCEPT !.pc = "create"] \in WorkRow /\ Knows([row EXCEPT !.pc = "create"])
      BY NoWorkIsARow DEF WorkRow, Knows, NoWork
  <2> QED
      BY <1>2, <2>1, ContinueStep
<1>3. ASSUME NEW b \in ActiveCarts(c), op # "view",
             Continue(r, [row EXCEPT !.pc = "write", !.cart = b]), UNCHANGED <<floor, shop>>
      PROVE  IInv'
  <2>1. b \in Carts /\ cart[b] # NULL
      BY DEF ActiveCarts
  <2>2. /\ [row EXCEPT !.pc = "write", !.cart = b] \in WorkRow
        /\ Knows([row EXCEPT !.pc = "write", !.cart = b])
      BY <2>1, <1>3, NoWorkIsARow DEF WorkRow, Knows, NoWork
  <2> QED
      BY <1>3, <2>2, ContinueStep
<1>4. CASE Respond(r, "cart") /\ UNCHANGED <<floor, shop>>
    BY <1>4, RespondStep DEF Codes
<1> QED
    BY <1>1, <1>2, <1>3, <1>4 DEF BeginCart

LEMMA BeginSubmitStep ==
    ASSUME IInv, NEW r \in Requests, NEW c \in Customers, NEW k \in Keys,
           NEW selection \in Selections, BeginSubmit(r, c, k, selection)
    PROVE  IInv'
<1> DEFINE row == [NoWork EXCEPT !.op = "submit", !.customer = c, !.key = k,
                                 !.selection = selection]
<1>1. CASE \E code \in Codes : Refuse(r, code)
    BY <1>1, RefuseStep
<1>2. ASSUME NEW b \in ActiveCarts(c),
             Continue(r, [row EXCEPT !.pc = "items", !.cart = b]), UNCHANGED <<floor, shop>>
      PROVE  IInv'
  <2>1. b \in Carts /\ cart[b] # NULL
      BY DEF ActiveCarts
  <2>2. /\ [row EXCEPT !.pc = "items", !.cart = b] \in WorkRow
        /\ Knows([row EXCEPT !.pc = "items", !.cart = b])
      BY <2>1, NoWorkIsARow DEF WorkRow, Knows, NoWork
  <2> QED
      BY <1>2, <2>2, ContinueStep
<1> QED
    BY <1>1, <1>2 DEF BeginSubmit, Codes

LEMMA ReadItemsStep ==
    ASSUME IInv, NEW r \in Requests, ReadItems(r)
    PROVE  IInv'
<1> DEFINE lines == Selected(cart[work[r].cart].lines, work[r].selection)
           row == [work[r] EXCEPT !.pc = "key", !.lines = lines]
<1>1. work[r] \in WorkRow /\ Knows(work[r]) /\ work[r].pc = "items"
    BY DEF IInv, TypeOK, RequestsKnow, ReadItems
<1>2. cart[work[r].cart] \in CartRow
    BY <1>1, RowsAreNotNull DEF IInv, Knows
<1>3. lines \in Lines
    BY <1>2, SelectedAreLines DEF CartRow
<1> HIDE DEF lines
<1>4. row \in WorkRow /\ Knows(row)
    BY <1>1, <1>3 DEF WorkRow, Knows
<1>5. CASE Refuse(r, "empty_cart")
    BY <1>5, RefuseStep DEF Codes
<1>6. CASE Continue(r, row) /\ UNCHANGED <<floor, shop>>
    BY <1>4, <1>6, ContinueStep
<1> QED
    BY <1>5, <1>6 DEF ReadItems, lines

LEMMA ReadSubmitKeyStep ==
    ASSUME IInv, NEW r \in Requests, ReadSubmitKey(r)
    PROVE  IInv'
<1> DEFINE row == [work[r] EXCEPT !.pc = "session"]
<1>1. work[r] \in WorkRow /\ Knows(work[r]) /\ work[r].pc = "key"
    BY DEF IInv, TypeOK, RequestsKnow, ReadSubmitKey
<1>2. row \in WorkRow /\ Knows(row)
    BY <1>1 DEF WorkRow, Knows
<1>3. CASE Refuse(r, "idempotency_conflict")
    BY <1>3, RefuseStep DEF Codes
<1>4. CASE Continue(r, row) /\ UNCHANGED <<floor, shop>>
    BY <1>2, <1>4, ContinueStep
<1>5. CASE Respond(r, "duplicate") /\ UNCHANGED <<floor, shop>>
    BY <1>5, RespondStep DEF Codes
<1> QED
    BY <1>3, <1>4, <1>5 DEF ReadSubmitKey

LEMMA ReadOpenSessionStep ==
    ASSUME IInv, NEW r \in Requests, ReadOpenSession(r)
    PROVE  IInv'
<1> DEFINE row(s) == [work[r] EXCEPT !.pc = "commit", !.session = s]
           open == OpenSessions(customer[work[r].customer].table)
<1>1. work[r] \in WorkRow /\ Knows(work[r]) /\ work[r].pc = "session"
    BY DEF IInv, TypeOK, RequestsKnow, ReadOpenSession
<1>2. PICK s \in IF open = {} THEN {NULL} ELSE open :
          Continue(r, row(s)) /\ UNCHANGED <<floor, shop>>
    BY DEF ReadOpenSession
<1>3. /\ s \in Sessions \cup {NULL}
      /\ s # NULL => /\ sessionStatus[s] # "none"
                     /\ sessionTable[s] = customer[work[r].customer].table
    BY DEF OpenSessions
<1>4. row(s) \in WorkRow /\ Knows(row(s))
    BY <1>1, <1>3 DEF WorkRow, Knows
<1> QED
    BY <1>2, <1>4, ContinueStep

LEMMA VanishStep ==
    ASSUME IInv, NEW r \in Requests, Vanish(r)
    PROVE  IInv'
<1>1. NoWork \in WorkRow /\ Knows(NoWork)
    BY NoWorkIsARow DEF Knows
<1> QED
    BY <1>1, ContinueStep DEF Vanish

-----------------------------------------------------------------------------
(***************************************************************************)
(* Steps that write a table                                                *)
(***************************************************************************)

LEMMA RequestsStayAsTheyAre ==
    ASSUME TypeOK, RequestsKnow, RowsStay, work' = work
    PROVE  RequestsKnow'
<1> SUFFICES ASSUME NEW q \in Requests PROVE Knows(work[q])'
    BY DEF RequestsKnow
<1>1. work'[q] = work[q] /\ work[q] \in WorkRow /\ Knows(work[q])
    BY DEF TypeOK, RequestsKnow
<1> QED
    BY <1>1 DEF Knows, RowsStay, WorkRow

LEMMA PresenceStep ==
    ASSUME IInv, NEW c \in Customers,
           NEW from \in {"fresh", "stale"}, NEW to \in {"fresh", "stale", "expired"},
           Presence(c, from, to)
    PROVE  IInv'
<1> USE DEF IInv
<1>1. /\ customer' = [customer EXCEPT ![c].presence = to]
      /\ UNCHANGED <<sessionStatus, checkStatus, sessionTable, cart, order, submitKey, work>>
      /\ answer' = NULL
    BY DEF Presence, floor
<1>2. customer' \in [Customers -> CustomerRow]
    BY <1>1 DEF TypeOK, CustomerRow
<1>3. RowsStay
    BY <1>1 DEF RowsStay, TypeOK, CustomerRow
<1>4. TypeOK' /\ RequestsKnow'
    BY <1>1, <1>2, <1>3, RequestsStayAsTheyAre DEF TypeOK
<1>5. TablesAreWhole' /\ OneActiveCart' /\ OrdersAreKeyed' /\ RowsRefer'
    BY <1>1 DEF TablesAreWhole, OneActiveCart, ActiveCarts, OrdersAreKeyed, RowsRefer
<1> QED
    BY <1>4, <1>5

LEMMA CloseTableStep ==
    ASSUME IInv, NEW s \in Sessions, CloseTable(s)
    PROVE  IInv'
<1> USE DEF IInv
<1>1. /\ sessionStatus[s] = "open"
      /\ sessionStatus' = [sessionStatus EXCEPT ![s] = "closed"]
      /\ checkStatus' = [checkStatus EXCEPT ![s] = "closed"]
      /\ UNCHANGED <<sessionTable, customer, cart, order, submitKey, work, answer>>
    BY DEF CloseTable, shop
<1>2. RowsStay
    BY <1>1 DEF RowsStay, TypeOK
<1>3. TypeOK' /\ RequestsKnow'
    BY <1>1, <1>2, RequestsStayAsTheyAre DEF TypeOK
<1>4. TablesAreWhole' /\ RowsRefer'
    BY <1>1 DEF TypeOK, TablesAreWhole, RowsRefer
<1>5. OneActiveCart' /\ OrdersAreKeyed'
    BY <1>1 DEF OneActiveCart, ActiveCarts, OrdersAreKeyed
<1> QED
    BY <1>3, <1>4, <1>5

\* The unique index decides which of two requests creates the missing cart.
LEMMA CreateCartStep ==
    ASSUME IInv, NEW r \in Requests, CreateCart(r)
    PROVE  IInv'
<1> USE DEF IInv
<1>1. PICK seen \in WorkRow : seen = work[r] /\ Knows(seen) /\ seen.pc = "create"
    BY DEF TypeOK, RequestsKnow, CreateCart
<1>2. PICK c \in Customers : c = seen.customer
    BY <1>1 DEF Knows
<1> DEFINE new == [owner |-> c, status |-> "active", lines |-> NoLines]
<1>3. CASE Refuse(r, "integrity_error")
    BY <1>3, RefuseStep DEF Codes
<1>4. CASE ~ Refuse(r, "integrity_error")
  <2>1. PICK b \in Carts :
            /\ cart[b] = NULL
            /\ cart' = [cart EXCEPT ![b] = new]
            /\ \/ Respond(r, "cart")
               \/ seen.op # "view" /\ Continue(r, [seen EXCEPT !.pc = "write", !.cart = b])
      BY <1>1, <1>2, <1>4 DEF CreateCart
  <2>2. /\ ActiveCarts(c) = {}
        /\ UNCHANGED <<sessionStatus, checkStatus, sessionTable, customer, order, submitKey>>
      BY <1>1, <1>2, <1>4 DEF CreateCart, floor
  <2>3. new \in CartRow /\ new # NULL /\ new.owner = c /\ new.status = "active"
      BY <1>2, NoLinesAreLines, NullIsFresh DEF CartRow
  <2> HIDE DEF new
  <2>4. /\ cart' \in [Carts -> CartRow \cup {NULL}]
        /\ cart'[b] = new
        /\ \A a \in Carts \ {b} : cart'[a] = cart[a]
      BY <2>1, <2>3 DEF TypeOK
  <2>5. RowsStay
      BY <2>1, <2>2, <2>3, <2>4 DEF RowsStay
  <2>6. PICK row \in WorkRow :
            /\ work' = [work EXCEPT ![r] = row]
            /\ Knows(row)'
    <3>1. CASE Respond(r, "cart")
        BY <3>1, NoWorkIsARow DEF Respond, Knows
    <3>2. CASE seen.op # "view" /\ Continue(r, [seen EXCEPT !.pc = "write", !.cart = b])
      <4>1. seen.op = "put"
          BY <1>1, <3>2 DEF Knows
      <4>2. [seen EXCEPT !.pc = "write", !.cart = b] \in WorkRow
          BY <1>1 DEF WorkRow
      <4>3. Knows([seen EXCEPT !.pc = "write", !.cart = b])'
          BY <1>1, <2>3, <2>4, <4>1 DEF Knows, WorkRow
      <4> QED
          BY <3>2, <4>2, <4>3 DEF Continue
    <3> QED
        BY <2>1, <3>1, <3>2
  <2>7. answer' \in Codes \cup {NULL}
      BY <2>1 DEF Respond, Continue, Codes
  <2>8. RequestsKnow' /\ TypeOK'
      BY <2>2, <2>4, <2>5, <2>6, <2>7, RequestsStayInformed DEF TypeOK
  <2>9. TablesAreWhole' /\ OrdersAreKeyed'
      BY <2>2 DEF TablesAreWhole, OrdersAreKeyed
  <2>10. OneActiveCart'
    <3>1. ActiveCarts(c)' = {b}
        BY <2>2, <2>3, <2>4 DEF ActiveCarts
    <3>2. ASSUME NEW d \in Customers, d # c PROVE ActiveCarts(d)' = ActiveCarts(d)
        BY <2>1, <2>3, <2>4, <3>2 DEF ActiveCarts
    <3>3. \A o \in Orders : order[o] # NULL => order[o].cart # b
        BY <2>1 DEF RowsRefer
    <3> QED
        BY <2>2, <3>1, <3>2, <3>3 DEF OneActiveCart
  <2>11. RowsRefer'
    <3>1. \A o \in Orders : order[o] # NULL => order[o].cart \in Carts \ {b}
        BY <2>1, RowsAreNotNull DEF RowsRefer, OrderRow
    <3> QED
        BY <2>2, <2>4, <3>1 DEF RowsRefer
  <2> QED
      BY <2>8, <2>9, <2>10, <2>11
<1> QED
    BY <1>3, <1>4

\* A put changes the lines of its cart and nothing that another row refers to.
LEMMA WriteCartStep ==
    ASSUME IInv, NEW r \in Requests, WriteCart(r)
    PROVE  IInv'
<1> USE DEF IInv
<1> DEFINE b == work[r].cart
<1>1. work[r] \in WorkRow /\ Knows(work[r]) /\ work[r].pc = "write"
    BY DEF TypeOK, RequestsKnow, WriteCart
<1>2. b \in Carts /\ cart[b] \in CartRow /\ cart[b] # NULL /\ work[r].item \in Items
    BY <1>1, RowsAreNotNull DEF Knows
<1>3. CASE Refuse(r, "item_not_orderable")
    BY <1>3, RefuseStep DEF Codes
<1>4. CASE ~ Refuse(r, "item_not_orderable")
  <2>1. /\ cart' = [cart EXCEPT ![b].lines[work[r].item] = work[r].quantity]
        /\ work' = [work EXCEPT ![r] = NoWork]
        /\ answer' = "cart"
        /\ UNCHANGED <<sessionStatus, checkStatus, sessionTable, customer, order, submitKey>>
      BY <1>4 DEF WriteCart, Respond, floor
  <2>2. /\ cart'[b] \in CartRow
        /\ cart'[b].owner = cart[b].owner
        /\ cart'[b].status = cart[b].status
      BY <1>1, <1>2, <2>1 DEF TypeOK, CartRow, Lines, WorkRow
  <2>3. \A a \in Carts \ {b} : cart'[a] = cart[a]
      BY <2>1 DEF TypeOK
  <2>4. cart' \in [Carts -> CartRow \cup {NULL}]
      BY <2>1, <2>2, <2>3 DEF TypeOK
  <2>5. \A a \in Carts : cart[a] # NULL <=> cart'[a] # NULL
      BY <1>2, <2>2, <2>3, NullIsFresh
  <2>6. \A a \in Carts : cart[a] # NULL =>
            cart'[a].owner = cart[a].owner /\ cart'[a].status = cart[a].status
      BY <2>2, <2>3
  <2>7. RowsStay
      BY <2>1, <2>5 DEF RowsStay
  <2>8. Knows(NoWork)'
      BY NoWorkIsARow DEF Knows
  <2>9. RequestsKnow' /\ TypeOK'
      BY <2>1, <2>4, <2>7, <2>8, NoWorkIsARow, RequestsStayInformed DEF TypeOK, Codes
  <2>10. TablesAreWhole' /\ OrdersAreKeyed'
      BY <2>1 DEF TablesAreWhole, OrdersAreKeyed
  <2>11. \A d \in Customers : ActiveCarts(d)' = ActiveCarts(d)
      BY <2>5, <2>6 DEF ActiveCarts
  <2>12. OneActiveCart'
      BY <2>1, <2>11 DEF OneActiveCart
  <2>13. RowsRefer'
    <3>1. \A o \in Orders : order[o] # NULL => order[o].cart \in Carts
        BY RowsAreNotNull DEF OrderRow
    <3> QED
        BY <2>1, <2>5, <2>6, <3>1 DEF RowsRefer
  <2> QED
      BY <2>9, <2>10, <2>12, <2>13
<1> QED
    BY <1>3, <1>4

-----------------------------------------------------------------------------
(***************************************************************************)
(* The commit of a submit                                                  *)
(***************************************************************************)

\* Request r, which has seen the row it works with, places order o in session
\* s: the unique constraints have let it pass.
Places(r, seen, s, o) ==
    /\ seen \in WorkRow /\ Knows(seen) /\ seen.pc = "commit" /\ seen = work[r]
    /\ submitKey[seen.customer][seen.key] = NULL
    /\ order[o] = NULL
    /\ IF seen.session = NULL
       THEN sessionStatus[s] = "none" /\ OpenSessions(customer[seen.customer].table) = {}
       ELSE s = seen.session
    /\ WriteOrder(r, s, o)

LEMMA CommitPlaces ==
    ASSUME IInv, NEW r \in Requests, CommitSubmit(r)
    PROVE  \/ \E code \in Codes : Refuse(r, code)
           \/ \E seen \in WorkRow, s \in Sessions, o \in Orders : Places(r, seen, s, o)
<1>1. work[r] \in WorkRow /\ Knows(work[r]) /\ work[r].pc = "commit"
    BY DEF IInv, TypeOK, RequestsKnow, CommitSubmit
<1>2. CASE \E code \in Codes : Refuse(r, code)
    BY <1>2
<1>3. CASE ~ \E code \in Codes : Refuse(r, code)
  <2>1. /\ submitKey[work[r].customer][work[r].key] = NULL
        /\ work[r].session # NULL \/ OpenSessions(customer[work[r].customer].table) = {}
        /\ \E s \in Targets(work[r]), o \in NewOrders : WriteOrder(r, s, o)
      BY <1>3 DEF CommitSubmit, Codes
  <2>2. PICK s \in Targets(work[r]), o \in NewOrders : WriteOrder(r, s, o)
      BY <2>1
  <2>3. s \in Sessions /\ o \in Orders /\ order[o] = NULL
      BY <1>1, <2>2 DEF Targets, NewOrders, WorkRow
  <2>4. Places(r, work[r], s, o)
      BY <1>1, <2>1, <2>2, <2>3 DEF Places, Targets
  <2> QED
      BY <1>1, <2>3, <2>4
<1> QED
    BY <1>2, <1>3

\* What a placed order changes, row by row.
LEMMA PlacedRows ==
    ASSUME IInv, NEW r \in Requests, NEW seen \in WorkRow, NEW s \in Sessions,
           NEW o \in Orders, Places(r, seen, s, o)
    PROVE  /\ seen.customer \in Customers /\ seen.key \in Keys /\ seen.cart \in Carts
           /\ customer[seen.customer].table \in Tables
           /\ sessionStatus' \in [Sessions -> {"none", "open", "closed"}]
           /\ checkStatus' \in [Sessions -> {"none", "open", "closed"}]
           /\ sessionTable' = [sessionTable EXCEPT ![s] = customer[seen.customer].table]
           /\ sessionStatus'[s] # "none" /\ checkStatus'[s] = sessionStatus'[s]
           /\ \A u \in Sessions \ {s} :
                 sessionStatus'[u] = sessionStatus[u] /\ checkStatus'[u] = checkStatus[u]
           /\ sessionStatus[s] # "none" =>
                 sessionStatus' = sessionStatus /\ sessionTable' = sessionTable
           /\ sessionStatus[s] = "none" =>
                 OpenSessions(customer[seen.customer].table) = {}
           /\ order' \in [Orders -> OrderRow \cup {NULL}]
           /\ order' = [order EXCEPT ![o] = [customer |-> seen.customer, session |-> s,
                                             cart |-> seen.cart, lines |-> seen.lines]]
           /\ order'[o] # NULL
           /\ cart' \in [Carts -> CartRow \cup {NULL}]
           /\ cart'[seen.cart] # NULL /\ cart'[seen.cart].status = "submitted"
           /\ cart[seen.cart] # NULL
           /\ \A b \in Carts \ {seen.cart} : cart'[b] = cart[b]
           /\ submitKey' \in [Customers -> [Keys -> SubmitRow \cup {NULL}]]
           /\ submitKey[seen.customer][seen.key] = NULL
           /\ submitKey'[seen.customer][seen.key] # NULL
           /\ submitKey'[seen.customer][seen.key].order = o
           /\ submitKey'[seen.customer][seen.key].lines = seen.lines
           /\ \A c \in Customers, k \in Keys : <<c, k>> # <<seen.customer, seen.key>> =>
                 submitKey'[c][k] = submitKey[c][k]
           /\ order[o] = NULL
           /\ customer' = customer
           /\ work' = [work EXCEPT ![r] = NoWork] /\ answer' = "submitted"
<1> USE DEF IInv
<1> DEFINE new == [customer |-> seen.customer, session |-> s,
                   cart |-> seen.cart, lines |-> seen.lines]
           keyed == [selection |-> seen.selection, lines |-> seen.lines, order |-> o]
<1>1. /\ seen.customer \in Customers /\ seen.key \in Keys /\ seen.cart \in Carts
      /\ seen.selection \in Selections /\ seen.lines \in Lines
      /\ cart[seen.cart] \in CartRow /\ cart[seen.cart] # NULL
      /\ customer[seen.customer].table \in Tables
    BY RowsAreNotNull DEF Places, Knows, WorkRow, TypeOK, CustomerRow
<1>2. /\ sessionStatus' = [sessionStatus EXCEPT ![s] = IF seen.session = NULL THEN "open" ELSE @]
      /\ checkStatus' = [checkStatus EXCEPT ![s] = IF seen.session = NULL THEN "open" ELSE @]
      /\ sessionTable' = [sessionTable EXCEPT ![s] = customer[seen.customer].table]
      /\ order' = [order EXCEPT ![o] = new]
      /\ cart' = [cart EXCEPT ![seen.cart].status = "submitted"]
      /\ submitKey' = [submitKey EXCEPT ![seen.customer][seen.key] = keyed]
      /\ work' = [work EXCEPT ![r] = NoWork] /\ answer' = "submitted"
      /\ customer' = customer
    BY DEF Places, WriteOrder, Respond
<1>3. /\ sessionStatus' \in [Sessions -> {"none", "open", "closed"}]
      /\ checkStatus' \in [Sessions -> {"none", "open", "closed"}]
      /\ sessionStatus'[s] # "none" /\ checkStatus'[s] = sessionStatus'[s]
      /\ \A u \in Sessions \ {s} :
            sessionStatus'[u] = sessionStatus[u] /\ checkStatus'[u] = checkStatus[u]
      /\ sessionStatus[s] # "none" =>
            sessionStatus' = sessionStatus /\ sessionTable' = sessionTable
      /\ sessionStatus[s] = "none" => OpenSessions(customer[seen.customer].table) = {}
  <2>1. CASE seen.session = NULL
    <3>1. sessionStatus[s] = "none" /\ OpenSessions(customer[seen.customer].table) = {}
        BY <2>1 DEF Places
    <3>2. /\ sessionStatus' = [sessionStatus EXCEPT ![s] = "open"]
          /\ checkStatus' = [checkStatus EXCEPT ![s] = "open"]
        BY <1>2, <2>1
    <3> QED
        BY <3>1, <3>2 DEF TypeOK
  <2>2. CASE seen.session # NULL
    <3>1. /\ s = seen.session /\ sessionStatus[s] # "none"
          /\ sessionTable[s] = customer[seen.customer].table
        BY <2>2 DEF Places, Knows
    <3>2. sessionStatus' = sessionStatus /\ checkStatus' = checkStatus
        BY <1>2, <2>2 DEF TypeOK
    <3>3. sessionTable' = sessionTable
        BY <1>2, <3>1 DEF TypeOK
    <3> QED
        BY <3>1, <3>2, <3>3 DEF TypeOK, TablesAreWhole
  <2> QED
      BY <2>1, <2>2
<1>4. new \in OrderRow /\ keyed \in SubmitRow
    BY <1>1 DEF OrderRow, SubmitRow
<1>5. order' \in [Orders -> OrderRow \cup {NULL}] /\ order'[o] # NULL /\ order[o] = NULL
    BY <1>2, <1>4, NullIsFresh DEF TypeOK, Places
<1>6. /\ cart'[seen.cart] \in CartRow
      /\ cart'[seen.cart].status = "submitted"
      /\ \A b \in Carts \ {seen.cart} : cart'[b] = cart[b]
      /\ cart' \in [Carts -> CartRow \cup {NULL}]
  <2>1. [cart[seen.cart] EXCEPT !.status = "submitted"] \in CartRow
      BY <1>1 DEF CartRow
  <2> QED
      BY <1>1, <1>2, <2>1 DEF TypeOK
<1>7. /\ submitKey' \in [Customers -> [Keys -> SubmitRow \cup {NULL}]]
      /\ submitKey'[seen.customer][seen.key] = keyed
      /\ \A c \in Customers, k \in Keys : <<c, k>> # <<seen.customer, seen.key>> =>
            submitKey'[c][k] = submitKey[c][k]
    BY <1>1, <1>2, <1>4 DEF TypeOK
<1>8. submitKey[seen.customer][seen.key] = NULL
    BY DEF Places
<1>9. keyed # NULL /\ cart'[seen.cart] # NULL
    BY <1>4, <1>6, NullIsFresh
<1> QED
    BY <1>1, <1>2, <1>3, <1>5, <1>6, <1>7, <1>8, <1>9

LEMMA PlacedStep ==
    ASSUME IInv, NEW r \in Requests, NEW seen \in WorkRow, NEW s \in Sessions,
           NEW o \in Orders, Places(r, seen, s, o)
    PROVE  IInv'
<1> USE DEF IInv
<1> DEFINE c == seen.customer
           k == seen.key
           b == seen.cart
           t == customer[seen.customer].table
<1>1. c \in Customers /\ k \in Keys /\ b \in Carts /\ t \in Tables
    BY PlacedRows
<1>2. /\ order[o] = NULL /\ order'[o] # NULL
      /\ order'[o].customer = c /\ order'[o].session = s
      /\ order'[o].cart = b /\ order'[o].lines = seen.lines
      /\ \A p \in Orders \ {o} : order'[p] = order[p]
  <2>1. order' = [order EXCEPT ![o] = [customer |-> c, session |-> s,
                                       cart |-> b, lines |-> seen.lines]]
      BY PlacedRows
  <2> QED
      BY <2>1, PlacedRows DEF TypeOK
<1>3. /\ sessionTable'[s] = t
      /\ \A u \in Sessions \ {s} : sessionTable'[u] = sessionTable[u]
      /\ sessionTable' \in [Sessions -> Tables \cup {NULL}]
  <2>1. sessionTable' = [sessionTable EXCEPT ![s] = t]
      BY PlacedRows
  <2> QED
      BY <1>1, <2>1 DEF TypeOK
<1>4. TypeOK' /\ RequestsKnow'
  <2>1. RowsStay
    <3>1. \A a \in Carts : cart[a] # NULL => cart'[a] # NULL
        BY PlacedRows
    <3>2. \A u \in Sessions : sessionStatus[u] # "none" =>
              sessionStatus'[u] # "none" /\ sessionTable'[u] = sessionTable[u]
        BY <1>3, PlacedRows
    <3> QED
        BY <3>1, <3>2, PlacedRows DEF RowsStay
  <2>2. Knows(NoWork)'
      BY NoWorkIsARow DEF Knows
  <2>3. work' = [work EXCEPT ![r] = NoWork]
      BY PlacedRows
  <2>4. RequestsKnow' /\ work' \in [Requests -> WorkRow]
      BY <2>1, <2>2, <2>3, NoWorkIsARow, RequestsStayInformed
  <2> QED
      BY <1>3, <2>4, PlacedRows DEF TypeOK, Codes
<1>5. TablesAreWhole'
  <2>1. ASSUME NEW u \in Sessions, NEW v \in Sessions,
               sessionStatus'[u] = "open", sessionStatus'[v] = "open",
               sessionTable'[u] = sessionTable'[v]
        PROVE  u = v
    <3>1. CASE sessionStatus[s] # "none"
      <4>1. sessionStatus' = sessionStatus /\ sessionTable' = sessionTable
          BY <3>1, PlacedRows
      <4> QED
          BY <2>1, <4>1 DEF TablesAreWhole
    <3>2. CASE sessionStatus[s] = "none"
      <4>1. \A w \in Sessions : ~ (sessionStatus[w] = "open" /\ sessionTable[w] = t)
          BY <3>2, PlacedRows DEF OpenSessions
      <4>2. \A w \in Sessions \ {s} : sessionStatus'[w] = sessionStatus[w]
          BY PlacedRows
      <4>3. CASE u = s \/ v = s
          BY <1>3, <2>1, <4>1, <4>2, <4>3
      <4>4. CASE u # s /\ v # s
          BY <1>3, <2>1, <4>2, <4>4 DEF TablesAreWhole
      <4> QED
          BY <4>3, <4>4
    <3> QED
        BY <3>1, <3>2
  <2>2. ASSUME NEW u \in Sessions
        PROVE  /\ sessionStatus'[u] = checkStatus'[u]
               /\ sessionStatus'[u] # "none" <=>
                     \E p \in Orders : order'[p] # NULL /\ order'[p].session = u
    <3>1. CASE u = s
        BY <1>2, <3>1, PlacedRows
    <3>2. CASE u # s
      <4>1. sessionStatus'[u] = sessionStatus[u] /\ checkStatus'[u] = checkStatus[u]
          BY <3>2, PlacedRows
      <4>2. (\E p \in Orders : order'[p] # NULL /\ order'[p].session = u)
            <=> (\E p \in Orders : order[p] # NULL /\ order[p].session = u)
          BY <1>2, <3>2
      <4> QED
          BY <4>1, <4>2 DEF TablesAreWhole
    <3> QED
        BY <3>1, <3>2
  <2> QED
      BY <2>1, <2>2 DEF TablesAreWhole
<1>6. OneActiveCart'
  <2>1. ASSUME NEW d \in Customers PROVE ActiveCarts(d)' = ActiveCarts(d) \ {b}
    <3>1. \A a \in Carts \ {b} : cart'[a] = cart[a]
        BY PlacedRows
    <3>2. cart'[b].status # "active"
        BY PlacedRows
    <3> QED
        BY <3>1, <3>2 DEF ActiveCarts
  <2>2. ASSUME NEW d \in Customers, NEW p \in Orders, order'[p] # NULL
        PROVE  order'[p].cart \notin ActiveCarts(d) \ {b}
      BY <1>2, <2>2 DEF OneActiveCart
  <2> QED
      BY <2>1, <2>2 DEF OneActiveCart
<1>7. OrdersAreKeyed'
  <2>1. /\ submitKey'[c][k] # NULL
        /\ submitKey'[c][k].order = o
        /\ submitKey'[c][k].lines = seen.lines
        /\ submitKey[c][k] = NULL
        /\ \A d \in Customers, l \in Keys : <<d, l>> # <<c, k>> =>
              submitKey'[d][l] = submitKey[d][l]
      BY PlacedRows
  <2> HIDE DEF c, k
  <2>2. \A d \in Customers, l \in Keys : submitKey[d][l] # NULL => submitKey[d][l].order # o
      BY <1>2 DEF OrdersAreKeyed
  <2>3. \A d \in Customers, l \in Keys : submitKey[d][l] # NULL =>
            submitKey[d][l].order \in Orders
      BY RowsAreNotNull DEF SubmitRow
  <2>4. ASSUME NEW p \in Orders, order'[p] # NULL
        PROVE  \E l \in Keys : /\ submitKey'[order'[p].customer][l] # NULL
                               /\ submitKey'[order'[p].customer][l].order = p
    <3>1. CASE p = o
        BY <1>1, <1>2, <2>1, <3>1
    <3>2. CASE p # o
      <4>1. order'[p] = order[p] /\ order[p].customer \in Customers
          BY <1>2, <2>4, <3>2, RowsAreNotNull DEF OrderRow
      <4>2. PICK l \in Keys : /\ submitKey[order[p].customer][l] # NULL
                              /\ submitKey[order[p].customer][l].order = p
          BY <2>4, <4>1 DEF OrdersAreKeyed
      <4>3. submitKey'[order[p].customer][l] = submitKey[order[p].customer][l]
          BY <2>1, <4>1, <4>2
      <4> QED
          BY <4>1, <4>2, <4>3
    <3> QED
        BY <3>1, <3>2
  <2>5. ASSUME NEW d \in Customers, NEW l \in Keys, submitKey'[d][l] # NULL
        PROVE  LET p == submitKey'[d][l].order IN
               /\ order'[p] # NULL
               /\ order'[p].customer = d
               /\ order'[p].lines = submitKey'[d][l].lines
               /\ \A e \in Customers, m \in Keys :
                     submitKey'[e][m] # NULL /\ submitKey'[e][m].order = p => <<e, m>> = <<d, l>>
    <3>1. CASE <<d, l>> = <<c, k>>
        BY <1>1, <1>2, <2>1, <2>2, <3>1
    <3>2. CASE <<d, l>> # <<c, k>>
      <4>1. submitKey'[d][l] = submitKey[d][l] /\ submitKey[d][l] # NULL
          BY <2>1, <2>5, <3>2
      <4>2. PICK p \in Orders : p = submitKey[d][l].order
          BY <2>3, <4>1
      <4>3. /\ order[p] # NULL /\ order[p].customer = d
            /\ order[p].lines = submitKey[d][l].lines
            /\ \A e \in Customers, m \in Keys :
                  submitKey[e][m] # NULL /\ submitKey[e][m].order = p => <<e, m>> = <<d, l>>
          BY <4>1, <4>2 DEF OrdersAreKeyed
      <4>4. p # o /\ order'[p] = order[p]
          BY <1>2, <4>3
      <4>5. ASSUME NEW e \in Customers, NEW m \in Keys,
                   submitKey'[e][m] # NULL, submitKey'[e][m].order = p
            PROVE  <<e, m>> = <<d, l>>
          BY <2>1, <4>3, <4>4, <4>5
      <4> QED
          BY <4>1, <4>2, <4>3, <4>4, <4>5
    <3> QED
        BY <3>1, <3>2
  <2> QED
      BY <2>4, <2>5 DEF OrdersAreKeyed
<1>8. RowsRefer'
  <2>1. ASSUME NEW u \in Sessions, sessionStatus'[u] # "none"
        PROVE  sessionTable'[u] \in Tables
    <3>1. CASE u = s
        BY <1>1, <1>3, <3>1
    <3>2. CASE u # s
      <4>1. sessionStatus'[u] = sessionStatus[u]
          BY <3>2, PlacedRows
      <4> QED
          BY <1>3, <2>1, <3>2, <4>1 DEF RowsRefer
    <3> QED
        BY <3>1, <3>2
  <2>2. ASSUME NEW p \in Orders, order'[p] # NULL
        PROVE  cart'[order'[p].cart] # NULL /\ cart'[order'[p].cart].status = "submitted"
    <3>1. CASE order'[p].cart = b
        BY <3>1, PlacedRows
    <3>2. CASE order'[p].cart # b
      <4>1. order'[p] = order[p] /\ order[p] # NULL
          BY <1>2, <2>2, <3>2
      <4>2. order[p].cart \in Carts \ {b}
          BY <3>2, <4>1, RowsAreNotNull DEF OrderRow
      <4>3. cart'[order[p].cart] = cart[order[p].cart]
          BY <4>2, PlacedRows
      <4> QED
          BY <4>1, <4>3 DEF RowsRefer
    <3> QED
        BY <3>1, <3>2
  <2> QED
      BY <2>1, <2>2 DEF RowsRefer
<1> QED
    BY <1>4, <1>5, <1>6, <1>7, <1>8

LEMMA CommitSubmitStep ==
    ASSUME IInv, NEW r \in Requests, CommitSubmit(r)
    PROVE  IInv'
BY CommitPlaces, RefuseStep, PlacedStep

-----------------------------------------------------------------------------
(***************************************************************************)
(* The theorems                                                            *)
(***************************************************************************)

LEMMA NextIInv == IInv /\ [Next]_orderingVars => IInv'
<1> SUFFICES ASSUME IInv, [Next]_orderingVars PROVE IInv'
    OBVIOUS
<1>1. CASE UNCHANGED orderingVars
  <2>1. /\ TypeOK' /\ TablesAreWhole' /\ OneActiveCart' /\ OrdersAreKeyed' /\ RowsRefer'
      BY <1>1 DEF IInv, orderingVars, TypeOK, TablesAreWhole, OneActiveCart, ActiveCarts,
                  OrdersAreKeyed, RowsRefer
  <2>2. RequestsKnow'
      BY <1>1, RequestsStayAsTheyAre DEF IInv, orderingVars, RowsStay
  <2> QED
      BY <2>1, <2>2 DEF IInv
<1>2. CASE Environment
    BY <1>2, PresenceStep DEF Environment, ScanAgain, Lapse, Expire
<1>3. CASE \E s \in Sessions : CloseTable(s)
    BY <1>3, CloseTableStep
<1>4. CASE \E r \in Requests : CustomerStep(r)
  <2> SUFFICES ASSUME NEW r \in Requests, CustomerStep(r) PROVE IInv'
      BY <1>4
  <2>1. CASE \E c \in Customers : BeginCart(r, c, "view", NULL, 0)
      BY <2>1, BeginCartStep
  <2>2. CASE \E c \in Customers, i \in Items, q \in Quantities \cup {0} :
                BeginCart(r, c, "put", i, q)
      BY <2>2, BeginCartStep
  <2>3. CASE \E c \in Customers, k \in Keys, selection \in Selections :
                BeginSubmit(r, c, k, selection)
      BY <2>3, BeginSubmitStep
  <2>4. CASE CreateCart(r) \/ WriteCart(r) \/ CommitSubmit(r)
      BY <2>4, CreateCartStep, WriteCartStep, CommitSubmitStep
  <2>5. CASE ReadItems(r) \/ ReadSubmitKey(r) \/ ReadOpenSession(r) \/ Vanish(r)
      BY <2>5, ReadItemsStep, ReadSubmitKeyStep, ReadOpenSessionStep, VanishStep
  <2> QED
      BY <2>1, <2>2, <2>3, <2>4, <2>5 DEF CustomerStep
<1> QED
    BY <1>1, <1>2, <1>3, <1>4 DEF Next

THEOREM SpecIInv == Spec => []IInv
BY InitIInv, NextIInv, PTL DEF Spec

\* Every variable keeps its type (customer_ordering.py as a whole).
THEOREM TypeCorrect == Spec => []TypeOK
<1>1. IInv => TypeOK
    BY DEF IInv
<1> QED
    BY <1>1, SpecIInv, PTL

\* One open session per table, each with its check and with an order, however
\* the commits of submits and closes interleave.
THEOREM TablesStayWhole == Spec => []TablesAreWhole
<1>1. IInv => TablesAreWhole
    BY DEF IInv
<1> QED
    BY <1>1, SpecIInv, PTL

\* One active cart per customer session, and nothing active is ordered.
THEOREM CartsStaySingle == Spec => []OneActiveCart
<1>1. IInv => OneActiveCart
    BY DEF IInv
<1> QED
    BY <1>1, SpecIInv, PTL

\* One order per idempotency key, and one key per order.
THEOREM KeysBuyOneOrder == Spec => []OrdersAreKeyed
<1>1. IInv => OrdersAreKeyed
    BY DEF IInv
<1> QED
    BY <1>1, SpecIInv, PTL

-----------------------------------------------------------------------------
(***************************************************************************)
(* Ordering implements Seating: a first submit seats its table, a later    *)
(* one finds a seating, the cashier's close ends it, and no other step is  *)
(* seen.                                                                   *)
(***************************************************************************)
seats == [s \in Sessions |-> SeatOf(s)]
orders == [o \in Orders |-> PlacedAs(o)]

LEMMA SeatsAreNotNull ==
    ASSUME NEW t \in Tables, NEW status \in {"open", "closed"}
    PROVE  [table |-> t, status |-> status] # NULL
BY OrderingAssumption DEF OrderingAssumption

LEMMA SeatingInits == Init => TheSeating!SeatingInit
BY DEF Init, TheSeating!SeatingInit, SeatOf, PlacedAs

LEMMA SeatingStutters ==
    ASSUME UNCHANGED <<sessionStatus, sessionTable, order>>
    PROVE  UNCHANGED TheSeating!seatingVars
BY DEF TheSeating!seatingVars, SeatOf, PlacedAs

LEMMA CloseTableLeaves ==
    ASSUME IInv, NEW s \in Sessions, CloseTable(s)
    PROVE  TheSeating!SeatingNext
<1>1. /\ sessionStatus[s] = "open"
      /\ sessionStatus' = [sessionStatus EXCEPT ![s] = "closed"]
      /\ UNCHANGED <<sessionTable, order>>
    BY DEF CloseTable, shop
<1>2. sessionTable[s] \in Tables
    BY <1>1 DEF IInv, RowsRefer
<1>3. /\ seats[s] = [table |-> sessionTable[s], status |-> "open"]
      /\ seats'[s] = [table |-> sessionTable[s], status |-> "closed"]
      /\ \A u \in Sessions \ {s} : seats'[u] = seats[u]
    BY <1>1 DEF seats, SeatOf, IInv, TypeOK
<1>4. seats[s] # NULL /\ seats[s].status = "open"
    BY <1>2, <1>3, SeatsAreNotNull
<1>5. seats' = [seats EXCEPT ![s].status = "closed"]
  <2>1. seats'[s] = [seats[s] EXCEPT !.status = "closed"]
      BY <1>3
  <2> QED
      BY <1>3, <2>1 DEF seats
<1>6. orders' = orders
    BY <1>1 DEF orders, PlacedAs
<1> QED
    BY <1>4, <1>5, <1>6 DEF TheSeating!SeatingNext, TheSeating!Leave, seats, orders

LEMMA PlacedSeats ==
    ASSUME IInv, NEW r \in Requests, NEW seen \in WorkRow, NEW s \in Sessions,
           NEW o \in Orders, Places(r, seen, s, o)
    PROVE  TheSeating!SeatingNext
<1> DEFINE t == customer[seen.customer].table
           new == [session |-> s, lines |-> seen.lines]
<1>1. t \in Tables /\ seen.lines \in Lines
    BY PlacedRows DEF WorkRow
<1>2. orders[o] = NULL /\ orders' = [orders EXCEPT ![o] = new]
  <2>1. order' = [order EXCEPT ![o] = [customer |-> seen.customer, session |-> s,
                                       cart |-> seen.cart, lines |-> seen.lines]]
      BY PlacedRows
  <2>2. order[o] = NULL /\ order'[o] # NULL
      BY PlacedRows
  <2>3. orders[o] = NULL /\ orders'[o] = new
      BY <2>1, <2>2 DEF orders, PlacedAs, IInv, TypeOK
  <2>4. \A p \in Orders \ {o} : orders'[p] = orders[p]
      BY <2>1 DEF orders, PlacedAs, IInv, TypeOK
  <2> QED
      BY <2>3, <2>4 DEF orders
<1>3. TheSeating!Place(o, s, seen.lines)
    BY <1>2 DEF TheSeating!Place, orders, seats
<1>4. CASE sessionStatus[s] = "none"
  <2>1. sessionTable' = [sessionTable EXCEPT ![s] = t]
      BY PlacedRows
  <2>2. sessionStatus'[s] = "open"
      BY <1>4 DEF Places, WriteOrder, IInv, TypeOK, Knows
  <2>3. \A u \in Sessions \ {s} : sessionStatus'[u] = sessionStatus[u]
      BY PlacedRows
  <2>4. OpenSessions(t) = {}
      BY <1>4 DEF Places, Knows
  <2>5. /\ seats[s] = NULL
        /\ seats'[s] = [table |-> t, status |-> "open"]
        /\ \A u \in Sessions \ {s} : seats'[u] = seats[u]
      BY <1>4, <2>1, <2>2, <2>3 DEF seats, SeatOf, IInv, TypeOK
  <2>6. seats' = [seats EXCEPT ![s] = [table |-> t, status |-> "open"]]
      BY <2>5 DEF seats
  <2>7. ASSUME NEW u \in Sessions PROVE seats[u] # [table |-> t, status |-> "open"]
    <3>1. CASE sessionStatus[u] = "none"
        BY <1>1, <3>1, SeatsAreNotNull DEF seats, SeatOf
    <3>2. CASE sessionStatus[u] # "none"
        BY <2>4, <3>2 DEF seats, SeatOf, OpenSessions
    <3> QED
        BY <3>1, <3>2
  <2>8. TheSeating!Seat(s)
      BY <1>1, <2>5, <2>6, <2>7 DEF TheSeating!Seat, seats
  <2> QED
      BY <1>1, <1>3, <2>8 DEF TheSeating!SeatingNext
<1>5. CASE sessionStatus[s] # "none"
  <2>1. sessionStatus' = sessionStatus /\ sessionTable' = sessionTable
      BY <1>5, PlacedRows
  <2>2. sessionTable[s] \in Tables /\ sessionStatus[s] \in {"open", "closed"}
      BY <1>5 DEF IInv, RowsRefer, TypeOK
  <2>3. seats[s] # NULL /\ seats' = seats
      BY <1>5, <2>1, <2>2, SeatsAreNotNull DEF seats, SeatOf
  <2>4. TheSeating!Seated(s)
      BY <2>3 DEF TheSeating!Seated, seats
  <2> QED
      BY <1>1, <1>3, <2>4 DEF TheSeating!SeatingNext
<1> QED
    BY <1>4, <1>5

LEMMA SeatingSteps ==
    IInv /\ [Next]_orderingVars => [TheSeating!SeatingNext]_(TheSeating!seatingVars)
<1> SUFFICES ASSUME IInv, [Next]_orderingVars
             PROVE  [TheSeating!SeatingNext]_(TheSeating!seatingVars)
    OBVIOUS
<1>1. CASE UNCHANGED orderingVars
    BY <1>1, SeatingStutters DEF orderingVars
<1>2. CASE Environment
    BY <1>2, SeatingStutters DEF Environment, ScanAgain, Lapse, Expire, Presence, floor
<1>3. CASE \E s \in Sessions : CloseTable(s)
    BY <1>3, CloseTableLeaves
<1>4. CASE \E r \in Requests : CustomerStep(r)
  <2> SUFFICES ASSUME NEW r \in Requests, CustomerStep(r)
               PROVE  [TheSeating!SeatingNext]_(TheSeating!seatingVars)
      BY <1>4
  <2>1. CASE CommitSubmit(r)
    <3>1. CASE \E code \in Codes : Refuse(r, code)
        BY <3>1, SeatingStutters DEF Refuse, floor, shop
    <3> QED
        BY <2>1, <3>1, CommitPlaces, PlacedSeats
  <2>2. CASE ~ CommitSubmit(r)
    <3>1. UNCHANGED <<sessionStatus, sessionTable, order>>
        BY <2>2 DEF CustomerStep, BeginCart, CreateCart, WriteCart, BeginSubmit, ReadItems,
                    ReadSubmitKey, ReadOpenSession, Vanish, Refuse, floor, shop
    <3> QED
        BY <3>1, SeatingStutters
  <2> QED
      BY <2>1, <2>2
<1> QED
    BY <1>1, <1>2, <1>3, <1>4 DEF Next

\* Through all interleavings of requests, orders are placed once and tables are
\* seated one party after the other: every behaviour is one of Seating.tla.
THEOREM OrderingImplementsSeating == Spec => ImplementsSeating
<1>1. Init => TheSeating!SeatingInit
    BY SeatingInits
<1>2. IInv /\ [Next]_orderingVars => [TheSeating!SeatingNext]_(TheSeating!seatingVars)
    BY SeatingSteps
<1> QED
    BY <1>1, <1>2, SpecIInv, PTL DEF Spec, ImplementsSeating, TheSeating!SeatingSpec

-----------------------------------------------------------------------------
(***************************************************************************)
(* Submitted carts and closed sessions                                     *)
(*                                                                         *)
(* A request takes up a cart while that is new or active, and a session    *)
(* while that is open, and keeps both until it ends.                       *)
(***************************************************************************)
Takes(r, row) ==
    /\ work' = [work EXCEPT ![r] = row]
    /\ row.cart \in Carts =>
          \/ row.cart = work[r].cart
          \/ cart[row.cart] = NULL
          \/ cart[row.cart].status = "active"
    /\ row.session \in Sessions =>
          \/ row.session = work[r].session
          \/ sessionStatus[row.session] = "open"

LEMMA EndsTakeNothing ==
    ASSUME NEW r \in Requests, work' = [work EXCEPT ![r] = NoWork]
    PROVE  \E row : Takes(r, row)
<1>1. Takes(r, NoWork)
    BY NullIsFresh DEF Takes, NoWork
<1> QED
    BY <1>1

LEMMA BeginningsTake ==
    ASSUME NEW r \in Requests, NEW c \in Customers,
           \/ \E op, i, q : BeginCart(r, c, op, i, q)
           \/ \E k \in Keys, selection \in Selections : BeginSubmit(r, c, k, selection)
    PROVE  \E row : Takes(r, row)
<1>1. CASE work' = [work EXCEPT ![r] = NoWork]
    BY <1>1, EndsTakeNothing
<1>2. ASSUME NEW op, NEW i, NEW q, BeginCart(r, c, op, i, q)
      PROVE  \E row : Takes(r, row)
  <2> DEFINE create == [NoWork EXCEPT !.op = op, !.customer = c, !.item = i, !.quantity = q,
                                      !.pc = "create"]
             write(b) == [NoWork EXCEPT !.op = op, !.customer = c, !.item = i, !.quantity = q,
                                        !.pc = "write", !.cart = b]
  <2>1. create.cart = NULL /\ create.session = NULL
      BY DEF NoWork
  <2>2. \A b : write(b).cart = b /\ write(b).session = NULL
      BY DEF NoWork
  <2>3. \/ work' = [work EXCEPT ![r] = NoWork]
        \/ work' = [work EXCEPT ![r] = create]
        \/ \E b \in ActiveCarts(c) : work' = [work EXCEPT ![r] = write(b)]
      BY <1>2 DEF BeginCart, Refuse, Respond, Continue
  <2> HIDE DEF create, write
  <2>4. CASE work' = [work EXCEPT ![r] = create]
      BY <2>1, <2>4, NullIsFresh DEF Takes
  <2>5. ASSUME NEW b \in ActiveCarts(c), work' = [work EXCEPT ![r] = write(b)]
        PROVE  Takes(r, write(b))
      BY <2>2, <2>5, NullIsFresh DEF Takes, ActiveCarts
  <2> QED
      BY <1>1, <2>3, <2>4, <2>5
<1>3. ASSUME NEW k \in Keys, NEW selection \in Selections, BeginSubmit(r, c, k, selection)
      PROVE  \E row : Takes(r, row)
  <2> DEFINE row(b) == [NoWork EXCEPT !.op = "submit", !.customer = c, !.key = k,
                                      !.selection = selection, !.pc = "items", !.cart = b]
  <2>1. \A b : row(b).cart = b /\ row(b).session = NULL
      BY DEF NoWork
  <2>2. \/ work' = [work EXCEPT ![r] = NoWork]
        \/ \E b \in ActiveCarts(c) : work' = [work EXCEPT ![r] = row(b)]
      BY <1>3 DEF BeginSubmit, Refuse, Respond, Continue
  <2> HIDE DEF row
  <2>3. ASSUME NEW b \in ActiveCarts(c), work' = [work EXCEPT ![r] = row(b)]
        PROVE  Takes(r, row(b))
      BY <2>1, <2>3, NullIsFresh DEF Takes, ActiveCarts
  <2> QED
      BY <1>1, <2>2, <2>3
<1> QED
    BY <1>2, <1>3

LEMMA StatementsTake ==
    ASSUME IInv, NEW r \in Requests,
           CreateCart(r) \/ ReadItems(r) \/ ReadSubmitKey(r) \/ ReadOpenSession(r)
    PROVE  \E row : Takes(r, row)
<1>1. work[r] \in WorkRow
    BY DEF IInv, TypeOK
<1>2. CASE work' = [work EXCEPT ![r] = NoWork]
    BY <1>2, EndsTakeNothing
<1>3. CASE CreateCart(r)
  <2> DEFINE row(b) == [work[r] EXCEPT !.pc = "write", !.cart = b]
  <2>1. \A b : row(b).cart = b /\ row(b).session = work[r].session
      BY <1>1 DEF WorkRow
  <2>2. \/ work' = [work EXCEPT ![r] = NoWork]
        \/ \E b \in Carts : cart[b] = NULL /\ work' = [work EXCEPT ![r] = row(b)]
      BY <1>3 DEF CreateCart, Refuse, Respond, Continue
  <2> HIDE DEF row
  <2>3. ASSUME NEW b \in Carts, cart[b] = NULL, work' = [work EXCEPT ![r] = row(b)]
        PROVE  Takes(r, row(b))
      BY <2>1, <2>3 DEF Takes
  <2> QED
      BY <1>2, <2>2, <2>3
<1>4. CASE ReadItems(r) \/ ReadSubmitKey(r)
  <2>1. ASSUME NEW row, work' = [work EXCEPT ![r] = row],
               row.cart = work[r].cart, row.session = work[r].session
        PROVE  Takes(r, row)
      BY <2>1 DEF Takes
  <2> DEFINE lines == Selected(cart[work[r].cart].lines, work[r].selection)
             key == [work[r] EXCEPT !.pc = "key", !.lines = lines]
             session == [work[r] EXCEPT !.pc = "session"]
  <2>2. /\ key.cart = work[r].cart /\ key.session = work[r].session
        /\ session.cart = work[r].cart /\ session.session = work[r].session
      BY <1>1 DEF WorkRow
  <2>3. \/ work' = [work EXCEPT ![r] = NoWork]
        \/ work' = [work EXCEPT ![r] = key]
        \/ work' = [work EXCEPT ![r] = session]
      BY <1>4 DEF ReadItems, ReadSubmitKey, Refuse, Respond, Continue
  <2> HIDE DEF key, session
  <2> QED
      BY <1>2, <2>1, <2>2, <2>3
<1>5. CASE ReadOpenSession(r)
  <2> DEFINE row(s) == [work[r] EXCEPT !.pc = "commit", !.session = s]
             open == OpenSessions(customer[work[r].customer].table)
  <2>1. \A s : row(s).cart = work[r].cart /\ row(s).session = s
      BY <1>1 DEF WorkRow
  <2>2. \E s \in open \cup {NULL} : work' = [work EXCEPT ![r] = row(s)]
      BY <1>5 DEF ReadOpenSession, Continue
  <2>3. \A s \in open : sessionStatus[s] = "open"
      BY DEF OpenSessions
  <2> HIDE DEF row, open
  <2>4. PICK s \in open \cup {NULL} : work' = [work EXCEPT ![r] = row(s)]
      BY <2>2
  <2>5. Takes(r, row(s))
      BY <2>1, <2>3, <2>4, NullIsFresh DEF Takes
  <2> QED
      BY <2>5
<1> QED
    BY <1>3, <1>4, <1>5

LEMMA StepsTake ==
    ASSUME IInv, NEW r \in Requests, CustomerStep(r)
    PROVE  \E row : Takes(r, row)
<1>1. CASE WriteCart(r) \/ CommitSubmit(r) \/ Vanish(r)
    BY <1>1, EndsTakeNothing
       DEF WriteCart, CommitSubmit, WriteOrder, Vanish, Refuse, Respond, Continue
<1> QED
    BY <1>1, BeginningsTake, StatementsTake DEF CustomerStep

\* Nobody takes up a cart that is submitted, or a session that is closed.
LEMMA NobodyTakesUp ==
    ASSUME IInv, [Next]_orderingVars
    PROVE  /\ \A b \in Carts : cart[b] # NULL /\ cart[b].status = "submitted" =>
                 Holders(b)' \subseteq Holders(b)
           /\ \A s \in Sessions : sessionStatus[s] = "closed" =>
                 Carriers(s)' \subseteq Carriers(s)
<1>1. CASE work' = work
    BY <1>1 DEF Holders, Carriers
<1>2. ASSUME NEW r \in Requests, CustomerStep(r)
      PROVE  /\ \A b \in Carts : cart[b] # NULL /\ cart[b].status = "submitted" =>
                   Holders(b)' \subseteq Holders(b)
             /\ \A s \in Sessions : sessionStatus[s] = "closed" =>
                   Carriers(s)' \subseteq Carriers(s)
  <2>1. PICK row : Takes(r, row)
      BY <1>2, StepsTake
  <2>2. \A q \in Requests : work'[q] = IF q = r THEN row ELSE work[q]
      BY <2>1 DEF Takes, IInv, TypeOK
  <2> QED
      BY <2>1, <2>2 DEF Takes, Holders, Carriers
<1> QED
    BY <1>1, <1>2 DEF Next, orderingVars, Environment, ScanAgain, Lapse, Expire, Presence,
                      CloseTable

\* A request that ends lets go of its cart and its session.
LEMMA EndsLetGo ==
    ASSUME IInv, NEW r \in Requests, work' = [work EXCEPT ![r] = NoWork]
    PROVE  /\ \A b \in Carts : work[r].cart = b => Holders(b)' # Holders(b)
           /\ \A s \in Sessions : work[r].session = s => Carriers(s)' # Carriers(s)
<1>1. work'[r].cart = NULL /\ work'[r].session = NULL
    BY DEF IInv, TypeOK, NoWork
<1>2. ASSUME NEW b \in Carts, work[r].cart = b PROVE Holders(b)' # Holders(b)
    BY <1>1, <1>2, NullIsFresh DEF Holders
<1>3. ASSUME NEW s \in Sessions, work[r].session = s PROVE Carriers(s)' # Carriers(s)
    BY <1>1, <1>3, NullIsFresh DEF Carriers
<1> QED
    BY <1>2, <1>3

\* What a step writes is the cart, the order and the session of its request.
LEMMA LateWritesEndARequest ==
    ASSUME IInv, NEW r \in Requests, CustomerStep(r)
    PROVE  /\ \A b \in Carts :
                 /\ cart[b] # NULL
                 /\ cart'[b] # cart[b] \/ OrdersFrom(b)' # OrdersFrom(b)
                 => Holders(b)' # Holders(b)
           /\ \A s \in Sessions :
                 sessionStatus[s] = "closed" /\ OrdersOf(s)' # OrdersOf(s)
                 => Carriers(s)' # Carriers(s)
<1> DEFINE Goal ==
           /\ \A b \in Carts :
                 /\ cart[b] # NULL
                 /\ cart'[b] # cart[b] \/ OrdersFrom(b)' # OrdersFrom(b)
                 => Holders(b)' # Holders(b)
           /\ \A s \in Sessions :
                 sessionStatus[s] = "closed" /\ OrdersOf(s)' # OrdersOf(s)
                 => Carriers(s)' # Carriers(s)
<1> SUFFICES Goal
    OBVIOUS
<1> HIDE DEF Goal
<1>1. CASE cart' = cart /\ order' = order
    BY <1>1 DEF OrdersFrom, OrdersOf, Goal
<1>2. CASE CreateCart(r) /\ cart' # cart
  <2>1. PICK n \in Carts :
           /\ cart[n] = NULL
           /\ cart' = [cart EXCEPT ![n] =
                 [owner |-> work[r].customer, status |-> "active", lines |-> NoLines]]
           /\ order' = order
      BY <1>2 DEF CreateCart, Refuse, shop
  <2> QED
      BY <2>1 DEF OrdersFrom, OrdersOf, IInv, TypeOK, Goal
<1>3. CASE WriteCart(r) /\ cart' # cart
  <2>1. /\ cart' = [cart EXCEPT ![work[r].cart].lines[work[r].item] = work[r].quantity]
        /\ work' = [work EXCEPT ![r] = NoWork]
        /\ order' = order
      BY <1>3 DEF WriteCart, Refuse, Respond, shop
  <2>2. \A b \in Carts : b # work[r].cart => cart'[b] = cart[b]
      BY <2>1 DEF IInv, TypeOK
  <2> QED
      BY <2>1, <2>2, EndsLetGo DEF OrdersFrom, OrdersOf, Goal
<1>4. CASE CommitSubmit(r) /\ (cart' # cart \/ order' # order)
  <2>1. PICK t \in Targets(work[r]), o \in NewOrders : WriteOrder(r, t, o)
      BY <1>4 DEF CommitSubmit, Refuse, shop
  <2>2. /\ cart' = [cart EXCEPT ![work[r].cart].status = "submitted"]
        /\ order' = [order EXCEPT ![o] = [customer |-> work[r].customer, session |-> t,
                                          cart |-> work[r].cart, lines |-> work[r].lines]]
        /\ work' = [work EXCEPT ![r] = NoWork]
      BY <2>1 DEF WriteOrder, Respond
  <2>3. \A b \in Carts : b # work[r].cart => cart'[b] = cart[b]
      BY <2>2 DEF IInv, TypeOK
  <2>4. /\ o \in Orders
        /\ order[o] = NULL
        /\ order'[o].cart = work[r].cart
        /\ order'[o].session = t
        /\ \A p \in Orders : p # o => order'[p] = order[p]
      BY <2>1, <2>2 DEF IInv, TypeOK, NewOrders
  <2>5. \A b \in Carts : b # work[r].cart => OrdersFrom(b)' = OrdersFrom(b)
      BY <2>4 DEF OrdersFrom
  <2>6. \A s \in Sessions : s # t => OrdersOf(s)' = OrdersOf(s)
      BY <2>4 DEF OrdersOf
  <2>7. sessionStatus[t] = "closed" => t = work[r].session
      BY <2>1 DEF Targets
  <2> QED
      BY <2>2, <2>3, <2>5, <2>6, <2>7, EndsLetGo DEF Goal
<1>5. CASE CreateCart(r) \/ WriteCart(r)
  <2>1. order' = order
      BY <1>5 DEF CreateCart, WriteCart, Refuse, shop
  <2> QED
      BY <1>1, <1>2, <1>3, <1>5, <2>1
<1>6. ASSUME ~ CreateCart(r), ~ WriteCart(r), ~ CommitSubmit(r)
      PROVE  cart' = cart /\ order' = order
    BY <1>6 DEF CustomerStep, BeginCart, BeginSubmit, ReadItems, ReadSubmitKey,
                ReadOpenSession, Vanish, Refuse, shop
<1> QED
    BY <1>1, <1>4, <1>5, <1>6

LEMMA DrainStep ==
    ASSUME IInv, [Next]_orderingVars
    PROVE  /\ \A b \in Carts : cart[b] # NULL /\ cart[b].status = "submitted" =>
                 /\ Holders(b)' \subseteq Holders(b)
                 /\ cart'[b] # cart[b] \/ OrdersFrom(b)' # OrdersFrom(b)
                       => Holders(b)' # Holders(b)
           /\ \A s \in Sessions : sessionStatus[s] = "closed" =>
                 /\ Carriers(s)' \subseteq Carriers(s)
                 /\ OrdersOf(s)' # OrdersOf(s) => Carriers(s)' # Carriers(s)
<1>1. CASE cart' = cart /\ order' = order
    BY <1>1, NobodyTakesUp DEF OrdersFrom, OrdersOf
<1>2. ASSUME ~ (cart' = cart /\ order' = order)
      PROVE  \E r \in Requests : CustomerStep(r)
    BY <1>2 DEF Next, orderingVars, Environment, ScanAgain, Lapse, Expire, Presence,
                CloseTable, shop
<1> QED
    BY <1>1, <1>2, NobodyTakesUp, LateWritesEndARequest

\* However puts and submits race, a submitted cart only drains.
THEOREM CartsDrain == Spec => SubmittedCartsDrain
<1>1. IInv /\ [Next]_orderingVars =>
         [\A b \in Carts : cart[b] # NULL /\ cart[b].status = "submitted" =>
             /\ Holders(b)' \subseteq Holders(b)
             /\ cart'[b] # cart[b] \/ OrdersFrom(b)' # OrdersFrom(b)
                   => Holders(b)' # Holders(b)]_orderingVars
    BY DrainStep
<1> QED
    BY <1>1, SpecIInv, PTL DEF Spec, SubmittedCartsDrain

\* However orders and closes race, a closed session only drains.
THEOREM SessionsDrain == Spec => ClosedSessionsDrain
<1>1. IInv /\ [Next]_orderingVars =>
         [\A s \in Sessions : sessionStatus[s] = "closed" =>
             /\ Carriers(s)' \subseteq Carriers(s)
             /\ OrdersOf(s)' # OrdersOf(s) => Carriers(s)' # Carriers(s)]_orderingVars
    BY DrainStep
<1> QED
    BY <1>1, SpecIInv, PTL DEF Spec, ClosedSessionsDrain

-----------------------------------------------------------------------------
(***************************************************************************)
(* Customers and cashiers at the same tables (TableService.tla)            *)
(*                                                                         *)
(* Every step of the service is a step of Ordering and a step of           *)
(* Settlement, or leaves their variables alone: a cashier's close is the   *)
(* CloseTable that Ordering expects, and a submit is the PlaceOrder that   *)
(* Settlement expects, since a bill, which is a sum over the orders of its *)
(* session, only grows. Each half needs what the other one preserves.      *)
(***************************************************************************)
Books == INSTANCE SettlementProofs WITH
    Keys <- PaymentKeys,
    Requests <- CashierRequests,
    Totals <- Nat,
    total <- [s \in Sessions |-> Total(s)]

\* An instance has its own names for what its module extends.
LEMMA SameSizes ==
    ASSUME NEW S
    PROVE  /\ Books!IsFiniteSet(S) <=> IsFiniteSet(S)
           /\ Till!Cardinality(S) = Books!Cardinality(S)
BY DEF IsFiniteSet, Books!IsFiniteSet, Books!Cardinality, Till!Cardinality

\* What Settlement assumes of its constants, the bills being any numbers.
LEMMA BooksAssumption ==
    /\ Amounts \subseteq Nat \ {0}
    /\ Nat \subseteq Nat
    /\ Books!IsFiniteSet(PaymentKeys)
    /\ Books!IsFiniteSet(CashierRequests)
    /\ NULL \notin Sessions \cup Payments \cup PaymentKeys \cup Amounts \cup Reasons
                     \cup CashierRequests
    /\ NULL \notin Books!PaymentRow \cup Books!KeyRow
    /\ NULL \notin [session : Sessions, amount : Amounts, standing : {"entered", "struck"}]
BY ServiceAssumption, OrderingAssumption, SameSizes
   DEF ServiceAssumption, OrderingAssumption, Books!PaymentRow, Books!KeyRow,
       Till!PaymentRow, Till!KeyRow

\* What TableService calls Till is what the theorems of Settlement are about.
LEMMA SameStart == Till!Init <=> Books!Init
BY DEF Till!Init, Books!Init, Till!Absent, Books!Absent, Till!NoRequest, Books!NoRequest

LEMMA SameRecords ==
    ASSUME NEW r \in CashierRequests
    PROVE  /\ \A s \in Sessions, k \in PaymentKeys, a \in Amounts :
                 Till!BeginRecord(r, s, k, a) <=> Books!BeginRecord(r, s, k, a)
           /\ Till!ReadKey(r) <=> Books!ReadKey(r)
           /\ Till!ReadTotal(r) <=> Books!ReadTotal(r)
           /\ Till!ReadPaid(r) <=> Books!ReadPaid(r)
           /\ Till!CommitRecord(r) <=> Books!CommitRecord(r)
<1>1. \A s \in Sessions, k \in PaymentKeys, a \in Amounts :
          Till!BeginRecord(r, s, k, a) <=> Books!BeginRecord(r, s, k, a)
    BY DEF Till!BeginRecord, Books!BeginRecord, Till!Refuse, Books!Refuse, Till!Answer,
           Books!Answer, Till!Continue, Books!Continue, Till!NoRequest, Books!NoRequest,
           Till!tables, Books!tables, Till!money, Books!money
<1>2. Till!ReadKey(r) <=> Books!ReadKey(r)
    BY DEF Till!ReadKey, Books!ReadKey, Till!Refuse, Books!Refuse, Till!Answer,
           Books!Answer, Till!Continue, Books!Continue, Till!NoRequest, Books!NoRequest,
           Till!tables, Books!tables, Till!money, Books!money
<1>3. Till!ReadTotal(r) <=> Books!ReadTotal(r)
    BY DEF Till!ReadTotal, Books!ReadTotal, Till!Continue, Books!Continue,
           Till!tables, Books!tables, Till!money, Books!money
<1>4. Till!ReadPaid(r) <=> Books!ReadPaid(r)
    BY DEF Till!ReadPaid, Books!ReadPaid, Till!Refuse, Books!Refuse, Till!Answer,
           Books!Answer, Till!Continue, Books!Continue, Till!NoRequest, Books!NoRequest,
           Till!tables, Books!tables, Till!money, Books!money, Till!Remaining,
           Books!Remaining, Till!Paid, Books!Paid, Till!Counted, Books!Counted,
           Till!MapThenSumSet, Books!MapThenSumSet, Till!MapThenFoldSet, Books!MapThenFoldSet
<1>5. Till!CommitRecord(r) <=> Books!CommitRecord(r)
    BY DEF Till!CommitRecord, Books!CommitRecord, Till!Refuse, Books!Refuse, Till!Answer,
           Books!Answer, Till!NoRequest, Books!NoRequest,
           Till!tables, Books!tables, Till!money, Books!money
<1> QED
    BY <1>1, <1>2, <1>3, <1>4, <1>5

LEMMA SameVoidsAndCloses ==
    ASSUME NEW r \in CashierRequests
    PROVE  /\ \A p \in Payments, k \in PaymentKeys, why \in Reasons :
                 Till!BeginVoid(r, p, k, why) <=> Books!BeginVoid(r, p, k, why)
           /\ \A s \in Sessions : Till!BeginClose(r, s) <=> Books!BeginClose(r, s)
           /\ Till!ReadCheckForVoid(r) <=> Books!ReadCheckForVoid(r)
           /\ Till!ReadVoidKey(r) <=> Books!ReadVoidKey(r)
           /\ Till!CommitVoid(r) <=> Books!CommitVoid(r)
           /\ Till!CommitClose(r) <=> Books!CommitClose(r)
           /\ Till!Vanish(r) <=> Books!Vanish(r)
<1> USE DEF Till!Refuse, Books!Refuse, Till!Answer, Books!Answer, Till!Continue,
            Books!Continue, Till!NoRequest, Books!NoRequest, Till!tables, Books!tables,
            Till!money, Books!money
<1>1. \A p \in Payments, k \in PaymentKeys, why \in Reasons :
          Till!BeginVoid(r, p, k, why) <=> Books!BeginVoid(r, p, k, why)
    BY DEF Till!BeginVoid, Books!BeginVoid
<1>2. \A s \in Sessions : Till!BeginClose(r, s) <=> Books!BeginClose(r, s)
    BY DEF Till!BeginClose, Books!BeginClose, Till!AlreadyClosed, Books!AlreadyClosed
<1>3. Till!ReadCheckForVoid(r) <=> Books!ReadCheckForVoid(r)
    BY DEF Till!ReadCheckForVoid, Books!ReadCheckForVoid
<1>4. Till!ReadVoidKey(r) <=> Books!ReadVoidKey(r)
    BY DEF Till!ReadVoidKey, Books!ReadVoidKey
<1>5. Till!CommitVoid(r) <=> Books!CommitVoid(r)
    BY DEF Till!CommitVoid, Books!CommitVoid
<1>6. Till!CommitClose(r) <=> Books!CommitClose(r)
    BY DEF Till!CommitClose, Books!CommitClose
<1>7. Till!Vanish(r) <=> Books!Vanish(r)
    BY DEF Till!Vanish, Books!Vanish
<1> QED
    BY <1>1, <1>2, <1>3, <1>4, <1>5, <1>6, <1>7

LEMMA SameSteps == \A r \in CashierRequests : Till!CashierStep(r) <=> Books!CashierStep(r)
BY SameRecords, SameVoidsAndCloses DEF Till!CashierStep, Books!CashierStep

LEMMA SameBound == Till!PaidWithinRaces <=> Books!PaidWithinRaces
BY SameSizes
   DEF Till!PaidWithinRaces, Books!PaidWithinRaces, Till!Paid, Books!Paid, Till!Counted,
       Books!Counted, Till!MapThenSumSet, Books!MapThenSumSet, Till!MapThenFoldSet,
       Books!MapThenFoldSet

-----------------------------------------------------------------------------
(***************************************************************************)
(* Bills                                                                   *)
(***************************************************************************)

\* The sums of Settlement's theorems are over functions to rows with an amount.
LinesAsRows(lines) == [i \in Items |-> [amount |-> lines[i]]]
OrdersAsRows(orderRows) == [o \in Orders |-> [amount |-> Units(orderRows[o].lines)]]

LEMMA UnitsAreASum ==
    ASSUME NEW lines
    PROVE  Units(lines) = Books!SumOf(LinesAsRows(lines), Items)
<1> DEFINE Plain(g) == g = [T \in SUBSET Items |->
                              IF T = {} THEN 0
                              ELSE lines[Books!Pick(T)] + g[Books!Rest(T)]]
<1>1. Units(lines) = (CHOOSE g : Plain(g))[Items]
    BY DEF Units, MapThenSumSet, MapThenFoldSet, Books!Pick, Books!Rest
<1>2. \A g : Books!IsSum(LinesAsRows(lines), Items, g) <=> Plain(g)
  <2> TAKE g
  <2>1. \A T \in SUBSET Items : T # {} => Books!Pick(T) \in Items
      BY DEF Books!Pick
  <2> QED
      BY <2>1 DEF Books!IsSum, LinesAsRows
<1> HIDE DEF Plain
<1>3. (CHOOSE g : Books!IsSum(LinesAsRows(lines), Items, g)) = (CHOOSE g : Plain(g))
    BY <1>2, Zenon
<1> QED
    BY <1>1, <1>3, BooksAssumption, Books!SumIsChosen

\* The bill of a set of orders, whatever the rows of the orders are.
BillOf(orderRows, S) == MapThenSumSet(LAMBDA o : Units(orderRows[o].lines), S)

LEMMA TotalIsABill ==
    ASSUME NEW s
    PROVE  /\ Total(s) = BillOf(order, OrdersOf(s))
           /\ Total(s)' = BillOf(order', OrdersOf(s)')
BY DEF Total, BillOf, MapThenSumSet, MapThenFoldSet

LEMMA BillIsASum ==
    ASSUME NEW orderRows, NEW S, S \subseteq Orders
    PROVE  BillOf(orderRows, S) = Books!SumOf(OrdersAsRows(orderRows), S)
<1> DEFINE Plain(g) == g = [T \in SUBSET S |->
                              IF T = {} THEN 0
                              ELSE Units(orderRows[Books!Pick(T)].lines) + g[Books!Rest(T)]]
<1>1. BillOf(orderRows, S) = (CHOOSE g : Plain(g))[S]
    BY DEF BillOf, MapThenSumSet, MapThenFoldSet, Books!Pick, Books!Rest
<1>2. \A g : Books!IsSum(OrdersAsRows(orderRows), S, g) <=> Plain(g)
  <2> TAKE g
  <2>1. \A T \in SUBSET S : T # {} => Books!Pick(T) \in Orders
      BY DEF Books!Pick
  <2> QED
      BY <2>1 DEF Books!IsSum, OrdersAsRows
<1> HIDE DEF Plain
<1>3. (CHOOSE g : Books!IsSum(OrdersAsRows(orderRows), S, g)) = (CHOOSE g : Plain(g))
    BY <1>2, Zenon
<1> QED
    BY <1>1, <1>3, BooksAssumption, Books!SumIsChosen

LEMMA UnitsAreNatural ==
    ASSUME NEW lines \in Lines
    PROVE  Units(lines) \in Nat
<1>1. \A i \in Items : LinesAsRows(lines)[i].amount \in Nat
    BY OrderingAssumption DEF OrderingAssumption, Lines, LinesAsRows
<1>2. IsFiniteSet(Items) /\ Books!IsFiniteSet(Items)
    BY ServiceAssumption, SameSizes DEF ServiceAssumption
<1> QED
    BY <1>1, <1>2, UnitsAreASum, BooksAssumption, Books!SumIsNatural

\* Orders are placed one by one.
OrdersAreFinite == IsFiniteSet({o \in Orders : order[o] # NULL})

LEMMA BillsAreNatural ==
    ASSUME IInv, OrdersAreFinite, NEW s
    PROVE  Total(s) \in Nat
<1>1. \A o \in OrdersOf(s) : OrdersAsRows(order)[o].amount \in Nat
    BY RowsAreNotNull, UnitsAreNatural DEF IInv, OrdersOf, OrderRow, OrdersAsRows
<1>2. IsFiniteSet(OrdersOf(s)) /\ OrdersOf(s) \subseteq Orders
    BY FS_Subset DEF OrdersAreFinite, OrdersOf
<1> QED
    BY <1>1, <1>2, TotalIsABill, BillIsASum, BooksAssumption, SameSizes, Books!SumIsNatural

LEMMA SameOrdersSameBills ==
    ASSUME order' = order, NEW s
    PROVE  Total(s)' = Total(s)
<1>1. OrdersOf(s)' = OrdersOf(s)
    BY DEF OrdersOf
<1> QED
    BY <1>1, TotalIsABill

\* An order raises the bill of its session and leaves the others alone.
LEMMA PlacedBill ==
    ASSUME IInv, OrdersAreFinite, NEW r \in Requests, NEW seen \in WorkRow,
           NEW s \in Sessions, NEW o \in Orders, Places(r, seen, s, o)
    PROVE  /\ OrdersAreFinite'
           /\ Total(s)' \in Nat /\ Total(s) <= Total(s)'
           /\ \A u \in Sessions \ {s} : Total(u)' = Total(u)
<1> DEFINE new == [customer |-> seen.customer, session |-> s,
                   cart |-> seen.cart, lines |-> seen.lines]
           was == OrdersAsRows(order)
           is == OrdersAsRows(order')
<1>1. /\ order[o] = NULL /\ order'[o] = new /\ order'[o] # NULL
      /\ \A p \in Orders \ {o} : order'[p] = order[p]
  <2>1. order' = [order EXCEPT ![o] = new]
      BY PlacedRows
  <2> QED
      BY <2>1, PlacedRows DEF IInv, TypeOK
<1>2. new.session = s /\ new.lines \in Lines
    BY DEF WorkRow
<1> HIDE DEF new
<1>3. OrdersAreFinite'
  <2>1. {p \in Orders : order'[p] # NULL} = {p \in Orders : order[p] # NULL} \cup {o}
      BY <1>1
  <2> QED
      BY <2>1, FS_AddElement DEF OrdersAreFinite
<1>4. \A p \in Orders \ {o} : is[p].amount = was[p].amount
    BY <1>1 DEF OrdersAsRows
<1>5. is[o].amount \in Nat
    BY <1>1, <1>2, UnitsAreNatural DEF OrdersAsRows
<1>6. \A u \in Sessions :
        /\ \A p \in OrdersOf(u) : was[p].amount \in Nat
        /\ Books!IsFiniteSet(OrdersOf(u)) /\ OrdersOf(u) \subseteq Orders \ {o}
  <2> TAKE u \in Sessions
  <2>1. \A p \in OrdersOf(u) : was[p].amount \in Nat
      BY RowsAreNotNull, UnitsAreNatural DEF IInv, OrdersOf, OrderRow, OrdersAsRows
  <2>2. IsFiniteSet(OrdersOf(u))
      BY FS_Subset DEF OrdersAreFinite, OrdersOf
  <2> QED
      BY <1>1, <2>1, <2>2, SameSizes DEF OrdersOf
<1>7. OrdersOf(s)' = OrdersOf(s) \cup {o}
    BY <1>1, <1>2 DEF OrdersOf
<1>8. \A u \in Sessions \ {s} : OrdersOf(u)' = OrdersOf(u)
    BY <1>1, <1>2 DEF OrdersOf
<1>9. Total(s)' \in Nat /\ Total(s) <= Total(s)'
  <2>1. Total(s)' = Books!SumOf(is, OrdersOf(s) \cup {o})
      BY <1>6, <1>7, TotalIsABill, BillIsASum
  <2>2. Total(s) = Books!SumOf(was, OrdersOf(s))
      BY <1>6, TotalIsABill, BillIsASum
  <2>3. \A p \in OrdersOf(s) : was[p].amount \in Nat /\ is[p].amount = was[p].amount
      BY <1>4, <1>6
  <2>4. o \notin OrdersOf(s) /\ Books!IsFiniteSet(OrdersOf(s))
      BY <1>6
  <2> HIDE DEF was, is
  <2>5. Total(s)' = Total(s) + is[o].amount
      BY <1>5, <2>1, <2>2, <2>3, <2>4, BooksAssumption, Books!SumWithOneMore
  <2> QED
      BY <1>5, <2>5, BillsAreNatural
<1>10. ASSUME NEW u \in Sessions \ {s} PROVE Total(u)' = Total(u)
  <2>1. Total(u)' = Books!SumOf(is, OrdersOf(u)) /\ Total(u) = Books!SumOf(was, OrdersOf(u))
      BY <1>6, <1>8, TotalIsABill, BillIsASum
  <2>2. \A p \in OrdersOf(u) : is[p].amount = was[p].amount
      BY <1>4, <1>6
  <2> HIDE DEF was, is
  <2> QED
      BY <1>6, <2>1, <2>2, BooksAssumption, Books!SameAmountsSameSum
<1> QED
    BY <1>3, <1>9, <1>10

-----------------------------------------------------------------------------
(***************************************************************************)
(* The steps of the one as the other sees them                             *)
(***************************************************************************)
ServiceIInv ==
    /\ IInv
    /\ OrdersAreFinite
    /\ Books!IInv

\* A submit that is committed is an order that comes to the cashier's bill.
LEMMA PlacedIsOrdered ==
    ASSUME ServiceIInv, NEW r \in Requests, NEW seen \in WorkRow,
           NEW s \in Sessions, NEW o \in Orders, Places(r, seen, s, o),
           UNCHANGED settlementOnly
    PROVE  \E t \in Nat : Books!PlaceOrder(s, t)
<1>1. IInv /\ OrdersAreFinite
    BY DEF ServiceIInv
<1>2. /\ sessionStatus' = [sessionStatus EXCEPT ![s] = IF seen.session = NULL THEN "open" ELSE @]
      /\ checkStatus' = [checkStatus EXCEPT ![s] = IF seen.session = NULL THEN "open" ELSE @]
    BY DEF Places, WriteOrder
<1>3. seen.session = NULL <=> sessionStatus[s] = "none"
    BY <1>1 DEF Places, Knows
<1>4. sessionStatus[s] = checkStatus[s]
    BY <1>1 DEF IInv, TablesAreWhole
<1>5. /\ sessionStatus' = [sessionStatus EXCEPT ![s] = IF @ = "none" THEN "open" ELSE @]
      /\ checkStatus' = [checkStatus EXCEPT ![s] = IF @ = "none" THEN "open" ELSE @]
    BY <1>2, <1>3, <1>4
<1>6. Total(s)' \in Nat /\ Total(s) <= Total(s)'
    BY <1>1, PlacedBill
<1>7. [u \in Sessions |-> Total(u)]' = [[u \in Sessions |-> Total(u)] EXCEPT ![s] = Total(s)']
  <2>1. \A u \in Sessions \ {s} : Total(u)' = Total(u)
      BY <1>1, PlacedBill
  <2> QED
      BY <2>1
<1>8. Books!PlaceOrder(s, Total(s)')
    BY <1>5, <1>6, <1>7 DEF Books!PlaceOrder, Books!money, settlementOnly
<1> QED
    BY <1>6, <1>8

LEMMA ShopStepIsSettlement ==
    ASSUME ServiceIInv, ShopStep
    PROVE  [Books!Next]_(Books!vars) /\ OrdersAreFinite'
<1>1. UNCHANGED settlementOnly /\ IInv /\ OrdersAreFinite
    BY DEF ShopStep, ServiceIInv
<1>2. ASSUME sessionStatus' = sessionStatus, checkStatus' = checkStatus, order' = order
      PROVE  [Books!Next]_(Books!vars) /\ OrdersAreFinite'
  <2>1. [s \in Sessions |-> Total(s)]' = [s \in Sessions |-> Total(s)]
      BY <1>2, SameOrdersSameBills
  <2>2. UNCHANGED Books!vars
      BY <1>1, <1>2, <2>1 DEF Books!vars, settlementOnly
  <2> QED
      BY <1>1, <1>2, <2>2 DEF OrdersAreFinite
<1>3. CASE Environment
    BY <1>2, <1>3 DEF Environment, ScanAgain, Lapse, Expire, Presence, floor
<1>4. ASSUME NEW r \in Requests, CustomerStep(r)
      PROVE  [Books!Next]_(Books!vars) /\ OrdersAreFinite'
  <2>1. CASE CommitSubmit(r)
    <3>1. CASE \E code \in Codes : Refuse(r, code)
        BY <1>2, <3>1 DEF Refuse, floor, shop
    <3>2. ASSUME NEW seen \in WorkRow, NEW s \in Sessions, NEW o \in Orders,
                 Places(r, seen, s, o)
          PROVE  [Books!Next]_(Books!vars) /\ OrdersAreFinite'
      <4>1. \E t \in Nat : Books!PlaceOrder(s, t)
          BY <1>1, <3>2, PlacedIsOrdered
      <4>2. OrdersAreFinite'
          BY <1>1, <3>2, PlacedBill
      <4> QED
          BY <4>1, <4>2 DEF Books!Next
    <3> QED
        BY <1>1, <2>1, <3>1, <3>2, CommitPlaces
  <2>2. CASE ~ CommitSubmit(r)
    <3>1. UNCHANGED <<sessionStatus, checkStatus, order>>
        BY <1>4, <2>2 DEF CustomerStep, BeginCart, CreateCart, WriteCart, BeginSubmit,
              ReadItems, ReadSubmitKey, ReadOpenSession, Vanish, Refuse, floor, shop
    <3> QED
        BY <1>2, <3>1
  <2> QED
      BY <2>1, <2>2
<1> QED
    BY <1>3, <1>4 DEF ShopStep

\* Of the cashier's steps only the commit of a close is seen by the customers.
LEMMA TillStepIsOrdering ==
    ASSUME ServiceIInv, TillStep
    PROVE  [Next]_orderingVars /\ [Books!Next]_(Books!vars) /\ OrdersAreFinite'
<1>1. PICK r \in CashierRequests : Books!CashierStep(r)
    BY SameSteps DEF TillStep
<1>2. UNCHANGED orderingOnly
    BY DEF TillStep
<1>3. [Books!Next]_(Books!vars) /\ OrdersAreFinite'
    BY <1>1, <1>2 DEF Books!Next, OrdersAreFinite, orderingOnly, ServiceIInv
<1>4. CASE sessionStatus' = sessionStatus /\ checkStatus' = checkStatus
    BY <1>2, <1>3, <1>4 DEF orderingVars, orderingOnly
<1>5. CASE Books!CommitClose(r) /\ ~ (sessionStatus' = sessionStatus /\ checkStatus' = checkStatus)
  <2> DEFINE s == req[r].session
  <2>1. s \in Sessions /\ checkStatus[s] # "none"
      BY <1>5 DEF ServiceIInv, Books!IInv, Books!RequestsKnow, Books!Knows, Books!CommitClose
  <2>2. /\ closures[s] = 0
        /\ sessionStatus' = [sessionStatus EXCEPT ![s] = "closed"]
        /\ checkStatus' = [checkStatus EXCEPT ![s] = "closed"]
      BY <1>5 DEF Books!CommitClose, Books!Refuse, Books!tables
  <2> HIDE DEF s
  <2>3. sessionStatus[s] = "open"
    <3>1. sessionStatus[s] = checkStatus[s] /\ checkStatus[s] # "closed"
        BY <2>1, <2>2 DEF ServiceIInv, Books!IInv, Books!CloseIsWhole
    <3> QED
        BY <2>1, <3>1 DEF ServiceIInv, IInv, TypeOK
  <2>4. CloseTable(s)
      BY <1>2, <2>2, <2>3 DEF CloseTable, orderingOnly, shop
  <2> QED
      BY <1>3, <2>1, <2>4 DEF Next
<1>6. CASE ~ Books!CommitClose(r)
  <2>1. sessionStatus' = sessionStatus /\ checkStatus' = checkStatus
      BY <1>1, <1>6 DEF Books!CashierStep, Books!BeginRecord, Books!BeginVoid, Books!BeginClose,
            Books!ReadKey, Books!ReadTotal, Books!ReadPaid, Books!CommitRecord,
            Books!ReadCheckForVoid, Books!ReadVoidKey, Books!CommitVoid, Books!Vanish,
            Books!Refuse, Books!tables
  <2> QED
      BY <1>3, <1>4, <2>1
<1> QED
    BY <1>3, <1>4, <1>5, <1>6

LEMMA SameNext ==
    /\ Till!vars = Books!vars
    /\ Till!Next <=> Books!Next
    /\ [Books!Next]_(Books!vars) => [Till!Next]_(Till!vars)
<1>1. Till!vars = Books!vars /\ (UNCHANGED Till!vars <=> UNCHANGED Books!vars)
    BY DEF Till!vars, Books!vars
<1>2. \A s \in Sessions, t \in Nat : Till!PlaceOrder(s, t) <=> Books!PlaceOrder(s, t)
    BY DEF Till!PlaceOrder, Books!PlaceOrder, Till!money, Books!money
<1>3. Till!Next <=> Books!Next
    BY <1>2, SameSteps DEF Till!Next, Books!Next
<1> QED
    BY <1>1, <1>3

LEMMA InitServiceIInv == ServiceInit => ServiceIInv
<1> SUFFICES ASSUME ServiceInit PROVE ServiceIInv
    OBVIOUS
<1>1. IInv
    BY InitIInv DEF ServiceInit
<1>2. Books!IInv
    BY SameStart, BooksAssumption, Books!InitIInv DEF ServiceInit
<1>3. {o \in Orders : order[o] # NULL} = {}
    BY DEF ServiceInit, Init
<1> QED
    BY <1>1, <1>2, <1>3, FS_EmptySet DEF ServiceIInv, OrdersAreFinite

LEMMA ServiceSteps ==
    ServiceIInv /\ [ServiceNext]_serviceVars =>
        [Next]_orderingVars /\ [Books!Next]_(Books!vars) /\ OrdersAreFinite'
<1> SUFFICES ASSUME ServiceIInv, [ServiceNext]_serviceVars
             PROVE  [Next]_orderingVars /\ [Books!Next]_(Books!vars) /\ OrdersAreFinite'
    OBVIOUS
<1>1. CASE UNCHANGED serviceVars
  <2>1. [s \in Sessions |-> Total(s)]' = [s \in Sessions |-> Total(s)]
      BY <1>1, SameOrdersSameBills DEF serviceVars
  <2> QED
      BY <1>1, <2>1 DEF serviceVars, orderingVars, Books!vars, OrdersAreFinite, ServiceIInv
<1>2. CASE ShopStep
    BY <1>2, ShopStepIsSettlement DEF ShopStep, Next
<1>3. CASE TillStep
    BY <1>3, TillStepIsOrdering
<1> QED
    BY <1>1, <1>2, <1>3 DEF ServiceNext

LEMMA NextServiceIInv == ServiceIInv /\ [ServiceNext]_serviceVars => ServiceIInv'
BY ServiceSteps, NextIInv, BooksAssumption, Books!NextIInv DEF ServiceIInv

\* Both inductive invariants hold when the two halves share the database.
THEOREM SpecServiceIInv == ServiceSpec => []ServiceIInv
BY InitServiceIInv, NextServiceIInv, PTL DEF ServiceSpec

LEMMA ServiceIsBooks == ServiceSpec => Books!Spec
<1>1. ServiceInit => Books!Init
    BY SameStart DEF ServiceInit
<1>2. ServiceIInv /\ [ServiceNext]_serviceVars => [Books!Next]_(Books!vars)
    BY ServiceSteps
<1> QED
    BY <1>1, <1>2, SpecServiceIInv, PTL DEF ServiceSpec, Books!Spec

(***************************************************************************)
(* The service implements both halves: what Ordering says of a customer's  *)
(* steps with a cashier who closes tables, and what Settlement says of a   *)
(* cashier's steps with customers who order, is true of the two together.  *)
(***************************************************************************)
THEOREM ServiceImplementsBoth == ServiceSpec => Spec /\ Till!Spec
<1>1. ServiceInit => Init /\ Till!Init
    BY DEF ServiceInit
<1>2. ServiceIInv /\ [ServiceNext]_serviceVars =>
          [Next]_orderingVars /\ [Till!Next]_(Till!vars)
    BY ServiceSteps, SameNext
<1> QED
    BY <1>1, <1>2, SpecServiceIInv, PTL DEF ServiceSpec, Spec, Till!Spec

\* However orders come in between, cashiers who race bring a check to at most
\* as many times its bill as requests are in flight.
THEOREM ServiceBoundsOverpayment == ServiceSpec => []NothingIsOverpaid
<1>1. Books!Spec => []Books!PaidWithinRaces
    BY BooksAssumption, Books!RacesBoundOverpayment
<1>2. Books!PaidWithinRaces => NothingIsOverpaid
    BY SameBound DEF NothingIsOverpaid
<1> QED
    BY <1>1, <1>2, ServiceIsBooks, PTL
=============================================================================
