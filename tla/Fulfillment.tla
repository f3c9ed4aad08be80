----------------------------- MODULE Fulfillment -----------------------------
(***************************************************************************)
(* The staff's side of an order item: its preparation at a station         *)
(* (modules/fulfillment/preparation.py) and its delivery to the table,     *)
(* alone or with others (modules/fulfillment/service_delivery.py).         *)
(*                                                                         *)
(* A request is a process: each SELECT it later acts on is a step. A       *)
(* transaction with one write is one step with its COMMIT. A bulk delivery *)
(* goes on reading after its first write, so its writes stay uncommitted   *)
(* in work[r].done: nobody reads them, and whoever writes one of these     *)
(* rows, or reserves the same key, waits until the transaction has ended.  *)
(*                                                                         *)
(* The rows are those of one tenant. An item starts as a submitted order   *)
(* leaves it: pending, without a delivery_states row. Roles, hall          *)
(* assignments and the tracking setting change elsewhere: whatever they    *)
(* are, a request may be refused for them. No code sets voided_at.         *)
(***************************************************************************)
EXTENDS Integers, FiniteSets, Sequences

CONSTANTS
    Items,     \* ids of order items: ids are ordered, and so are these numbers
    Tables,    \* ids of tables
    TableOf,   \* the table each item was ordered at
    Staff,     \* users with the role of service staff
    Keys,      \* Idempotency-Key values
    Requests,  \* staff requests the server can have in flight at once
    NULL

VARIABLES
    prep,           \* preparation_items.status
    prepTrail,      \* preparation_transitions of each item, as <<from, to>>
    delivery,       \* delivery_states.status, NULL before the row exists
    deliveryTrail,  \* delivery_transitions of each item, as <<from, to>>
    bulkKey,        \* delivery_bulk_idempotency, unique per (actor, key)
    work            \* the requests in flight

kitchen == <<prep, prepTrail>>
floor == <<delivery, deliveryTrail, bulkKey>>
fulfillmentVars == <<prep, prepTrail, delivery, deliveryTrail, bulkKey, work>>

-----------------------------------------------------------------------------
PrepStatus == {"pending", "preparing", "ready", "cannot_prepare"}
DeliveryStatus == {"picked_up", "delivered"}

\* What bulk_delivery_request_hash hashes: the table and the items.
BulkRow == [table : Tables, items : SUBSET Items]

ASSUME FulfillmentAssumption ==
    /\ Items \subseteq Int
    /\ TableOf \in [Items -> Tables]
    /\ NULL \notin PrepStatus \cup DeliveryStatus
    /\ NULL \notin Items \cup Tables \cup Staff \cup Keys \cup Requests
    /\ NULL \notin BulkRow
    /\ IsFiniteSet(Requests)

NoWork == [pc |-> "idle", item |-> NULL, to |-> NULL, seen |-> NULL, actor |-> NULL,
           key |-> NULL, table |-> NULL, items |-> {}, todo |-> {}, done |-> {}]

WorkRow == [pc : {"idle", "prepare", "look", "write", "reserve", "load", "next", "deliver",
                  "complete"},
            item : Items \cup {NULL},
            to : PrepStatus \cup DeliveryStatus \cup {NULL},
            seen : PrepStatus \cup DeliveryStatus \cup {NULL},
            actor : Staff \cup {NULL},
            key : Keys \cup {NULL},
            table : Tables \cup {NULL},
            items : SUBSET Items,
            todo : SUBSET Items,
            done : SUBSET [item : Items, from : DeliveryStatus \cup {NULL}]]

Codes == {"done", "duplicate", "not_authorized", "invalid_preparation_transition",
          "not_ready_for_delivery", "outside_hall_scope", "invalid_delivery_transition",
          "idempotency_conflict", "bulk_item_invalid", "bulk_mixed_table", "integrity_error"}

\* The rows the uncommitted writes of a request lock.
Locked(q) == {w.item : w \in work[q].done}

\* The request whose transaction has reserved a key and not ended.
Reserved(q, a, k) ==
    /\ work[q].pc \in {"load", "next", "deliver", "complete"}
    /\ <<work[q].actor, work[q].key>> = <<a, k>>

\* The request continues at its next statement.
Continue(r, row) == work' = [work EXCEPT ![r] = row]

\* The request ends with a response. No property is about its code.
Respond(r, code) ==
    /\ code \in Codes
    /\ work' = [work EXCEPT ![r] = NoWork]

\* The request ends without having committed anything.
Refuse(r, code) ==
    /\ Respond(r, code)
    /\ UNCHANGED <<kitchen, floor>>

Init ==
    /\ prep = [i \in Items |-> "pending"]
    /\ prepTrail = [i \in Items |-> << <<NULL, "pending">> >>]
    /\ delivery = [i \in Items |-> NULL]
    /\ deliveryTrail = [i \in Items |-> <<>>]
    /\ bulkKey = [a \in Staff |-> [k \in Keys |-> NULL]]
    /\ work = [r \in Requests |-> NoWork]

-----------------------------------------------------------------------------
\* Mutant: an item that is ready can still turn out impossible to prepare.
AllowedFromReadyToo(to) ==
    CASE to = "preparing" -> {"pending"}
      [] to = "ready" -> {"preparing"}
      [] to = "cannot_prepare" -> {"pending", "preparing", "ready"}

\* allowed_from of start_preparing, mark_ready and report_cannot_prepare.
AllowedFrom(to) ==
    CASE to = "preparing" -> {"pending"}
      [] to = "ready" -> {"preparing"}
      [] to = "cannot_prepare" -> {"pending", "preparing"}

\* PreparationMutationService._transition, up to the check of the status it read.
BeginPreparation(r, i, to) ==
    /\ work[r].pc = "idle"
    /\ \/ Refuse(r, "not_authorized")
       \/ /\ prep[i] \notin AllowedFrom(to)
          /\ Refuse(r, "invalid_preparation_transition")
       \/ /\ prep[i] \in AllowedFrom(to)
          /\ Continue(r, [NoWork EXCEPT !.pc = "prepare", !.item = i, !.to = to,
                                        !.seen = prep[i]])
          /\ UNCHANGED <<kitchen, floor>>

\* Mutant: the UPDATE does not ask for the status that was read.
CommitPreparationBlindly(r) ==
    LET row == work[r] IN
    /\ row.pc = "prepare"
    /\ prep' = [prep EXCEPT ![row.item] = row.to]
    /\ prepTrail' = [prepTrail EXCEPT ![row.item] = Append(@, <<row.seen, row.to>>)]
    /\ Respond(r, "done")
    /\ UNCHANGED floor

\* _transition, the UPDATE of the status that was read, the trail and the COMMIT.
CommitPreparation(r) ==
    LET row == work[r] IN
    /\ row.pc = "prepare"
    /\ \/ /\ prep[row.item] # row.seen
          /\ Refuse(r, "invalid_preparation_transition")
       \/ /\ prep[row.item] = row.seen
          /\ prep' = [prep EXCEPT ![row.item] = row.to]
          /\ prepTrail' = [prepTrail EXCEPT ![row.item] = Append(@, <<row.seen, row.to>>)]
          /\ Respond(r, "done")
          /\ UNCHANGED floor

-----------------------------------------------------------------------------
\* mark_picked_up and mark_delivered: the role, then the item, which must be ready.
BeginMark(r, i, to) ==
    /\ work[r].pc = "idle"
    /\ \/ Refuse(r, "not_authorized")
       \/ /\ prep[i] # "ready"
          /\ Refuse(r, "not_ready_for_delivery")
       \/ /\ prep[i] = "ready"
          /\ \/ Refuse(r, "outside_hall_scope")
             \/ /\ Continue(r, [NoWork EXCEPT !.pc = "look", !.item = i, !.to = to])
                /\ UNCHANGED <<kitchen, floor>>

\* ServiceDeliveryMutationService._transition, the delivery state: a mark that
\* is there already is answered as if it were new.
ReadMark(r) ==
    LET row == work[r] IN
    /\ row.pc = "look"
    /\ \/ /\ delivery[row.item] = row.to
          /\ Respond(r, "done")
          /\ UNCHANGED <<kitchen, floor>>
       \/ /\ delivery[row.item] = "delivered"
          /\ row.to = "picked_up"
          /\ Refuse(r, "invalid_delivery_transition")
       \/ /\ delivery[row.item] \notin {row.to, "delivered"}
          /\ Continue(r, [row EXCEPT !.pc = "write", !.seen = delivery[row.item]])
          /\ UNCHANGED <<kitchen, floor>>

\* The row of item i is not locked by a transaction other than r's.
Free(r, i) == \A q \in Requests \ {r} : i \notin Locked(q)

\* The write to a row that was not seen is an INSERT, which is unique per item;
\* to one that was seen an UPDATE, which asks for the status seen.
Outrun(row) == delivery[row.item] # row.seen
OutrunCode(row) == IF row.seen = NULL THEN "integrity_error" ELSE "invalid_delivery_transition"

\* Mutant: the UPDATE does not ask for the status that was read.
WriteMarkBlindly(r) ==
    LET row == work[r] IN
    /\ row.pc = "write"
    /\ Free(r, row.item)
    /\ delivery' = [delivery EXCEPT ![row.item] = row.to]
    /\ deliveryTrail' = [deliveryTrail EXCEPT ![row.item] = Append(@, <<row.seen, row.to>>)]
    /\ Respond(r, "done")
    /\ UNCHANGED <<kitchen, bulkKey>>

\* _apply_delivery_transition of a single mark, with its COMMIT.
WriteMark(r) ==
    LET row == work[r] IN
    /\ row.pc = "write"
    /\ Free(r, row.item)
    /\ \/ /\ Outrun(row)
          /\ Refuse(r, OutrunCode(row))
       \/ /\ ~ Outrun(row)
          /\ delivery' = [delivery EXCEPT ![row.item] = row.to]
          /\ deliveryTrail' = [deliveryTrail EXCEPT ![row.item] = Append(@, <<row.seen, row.to>>)]
          /\ Respond(r, "done")
          /\ UNCHANGED <<kitchen, bulkKey>>

-----------------------------------------------------------------------------
(***************************************************************************)
(* bulk_mark_delivered, the idempotency row. A row is committed only with  *)
(* its deliveries and in status "completed", so the code's way past a row  *)
(* that is still "processing" is never taken.                              *)
(***************************************************************************)
BeginBulk(r, a, k, t, chosen) ==
    LET found == bulkKey[a][k] IN
    /\ work[r].pc = "idle"
    /\ \/ Refuse(r, "not_authorized")
       \/ /\ found = NULL
          /\ Continue(r, [NoWork EXCEPT !.pc = "reserve", !.actor = a, !.key = k,
                                        !.table = t, !.items = chosen])
          /\ UNCHANGED <<kitchen, floor>>
       \/ /\ found # NULL
          /\ found # [table |-> t, items |-> chosen]
          /\ Refuse(r, "idempotency_conflict")
       \/ /\ found = [table |-> t, items |-> chosen]
          /\ Respond(r, "duplicate")
          /\ UNCHANGED <<kitchen, floor>>

\* The INSERT of the idempotency row, which waits for another one of the same key.
ReserveKey(r) ==
    LET row == work[r] IN
    /\ row.pc = "reserve"
    /\ \A q \in Requests : ~ Reserved(q, row.actor, row.key)
    /\ \/ /\ bulkKey[row.actor][row.key] # NULL
          /\ Refuse(r, "integrity_error")
       \/ /\ bulkKey[row.actor][row.key] = NULL
          /\ Continue(r, [row EXCEPT !.pc = "load"])
          /\ UNCHANGED <<kitchen, floor>>

\* _load_bulk_ready_items and the checks on what it returns.
LoadItems(r) ==
    LET row == work[r] IN
    /\ row.pc = "load"
    /\ \/ /\ \E i \in row.items : prep[i] # "ready"
          /\ Refuse(r, "bulk_item_invalid")
       \/ /\ \A i \in row.items : prep[i] = "ready"
          /\ \E i \in row.items : TableOf[i] # row.table
          /\ Refuse(r, "bulk_mixed_table")
       \/ /\ \A i \in row.items : prep[i] = "ready" /\ TableOf[i] = row.table
          /\ \/ Refuse(r, "outside_hall_scope")
             \/ /\ Continue(r, [row EXCEPT !.pc = "next", !.todo = row.items])
                /\ UNCHANGED <<kitchen, floor>>

\* Mutant: the items are not sorted by their ids.
ReadNextInAnyOrder(r) ==
    LET row == work[r] IN
    /\ row.pc = "next"
    /\ \E i \in row.todo :
          \/ /\ delivery[i] = "delivered"
             /\ Refuse(r, "bulk_item_invalid")
          \/ /\ delivery[i] # "delivered"
             /\ Continue(r, [row EXCEPT !.pc = "deliver", !.item = i, !.seen = delivery[i]])
             /\ UNCHANGED <<kitchen, floor>>

\* The loop over the items in the order of their ids: the delivery state of the next.
ReadNext(r) ==
    LET row == work[r] IN
    /\ row.pc = "next"
    /\ \E i \in row.todo :
          /\ \A j \in row.todo : i <= j
          /\ \/ /\ delivery[i] = "delivered"
                /\ Refuse(r, "bulk_item_invalid")
             \/ /\ delivery[i] # "delivered"
                /\ Continue(r, [row EXCEPT !.pc = "deliver", !.item = i, !.seen = delivery[i]])
                /\ UNCHANGED <<kitchen, floor>>

\* The request after its uncommitted write of the item it read.
Written(row) ==
    LET left == row.todo \ {row.item} IN
    [row EXCEPT !.pc = IF left = {} THEN "complete" ELSE "next",
                !.todo = left,
                !.item = NULL, !.seen = NULL,
                !.done = @ \cup {[item |-> row.item, from |-> row.seen]}]

\* Mutant: the UPDATE does not ask for the status that was read.
WriteNextBlindly(r) ==
    LET row == work[r] IN
    /\ row.pc = "deliver"
    /\ Free(r, row.item)
    /\ Continue(r, Written(row))
    /\ UNCHANGED <<kitchen, floor>>

\* Mutant: each item of a bulk delivery is committed by itself.
WriteNextCommitting(r) ==
    LET row == work[r] IN
    /\ row.pc = "deliver"
    /\ Free(r, row.item)
    /\ \/ /\ Outrun(row)
          /\ Refuse(r, OutrunCode(row))
       \/ /\ ~ Outrun(row)
          /\ delivery' = [delivery EXCEPT ![row.item] = "delivered"]
          /\ deliveryTrail' = [deliveryTrail EXCEPT ![row.item] =
                                  Append(@, <<row.seen, "delivered">>)]
          /\ Continue(r, [Written(row) EXCEPT !.done = {}])
          /\ UNCHANGED <<kitchen, bulkKey>>

\* _apply_delivery_transition of one item of a bulk delivery.
WriteNext(r) ==
    LET row == work[r] IN
    /\ row.pc = "deliver"
    /\ Free(r, row.item)
    /\ \/ /\ Outrun(row)
          /\ Refuse(r, OutrunCode(row))
       \/ /\ ~ Outrun(row)
          /\ Continue(r, Written(row))
          /\ UNCHANGED <<kitchen, floor>>

\* The completion of the idempotency row and the COMMIT of everything.
CommitBulk(r) ==
    LET row == work[r]
        After(trail, i) ==
            IF i \in Locked(r)
            THEN Append(trail, <<(CHOOSE w \in row.done : w.item = i).from, "delivered">>)
            ELSE trail
    IN
    /\ row.pc = "complete"
    /\ delivery' = [i \in Items |-> IF i \in Locked(r) THEN "delivered" ELSE delivery[i]]
    /\ deliveryTrail' = [i \in Items |-> After(deliveryTrail[i], i)]
    /\ bulkKey' = [bulkKey EXCEPT ![row.actor][row.key] =
                      [table |-> row.table, items |-> row.items]]
    /\ Respond(r, "done")
    /\ UNCHANGED kitchen

\* The client disconnects or the server stops: the transaction is rolled back.
Vanish(r) ==
    /\ work[r].pc # "idle"
    /\ Continue(r, NoWork)
    /\ UNCHANGED <<kitchen, floor>>

-----------------------------------------------------------------------------
Begin(r) ==
    \/ \E i \in Items, to \in {"preparing", "ready", "cannot_prepare"} : BeginPreparation(r, i, to)
    \/ \E i \in Items, to \in DeliveryStatus : BeginMark(r, i, to)
    \/ \E a \in Staff, k \in Keys, t \in Tables, chosen \in (SUBSET Items) \ {{}} :
          BeginBulk(r, a, k, t, chosen)

\* A statement that may have to wait for another transaction.
Wait(r) == WriteMark(r) \/ ReserveKey(r) \/ WriteNext(r)

Proceed(r) ==
    \/ CommitPreparation(r)
    \/ ReadMark(r)
    \/ LoadItems(r)
    \/ ReadNext(r)
    \/ CommitBulk(r)

Next == \E r \in Requests : Begin(r) \/ Wait(r) \/ Proceed(r) \/ Vanish(r)

Spec == Init /\ [][Next]_fulfillmentVars

(***************************************************************************)
(* The event loop resumes a request whose statement has returned, and      *)
(* PostgreSQL queues the transactions that wait for a row and grants it to *)
(* them in turn, so that a statement which can go on again and again does. *)
(***************************************************************************)
FairSpec ==
    /\ Spec
    /\ \A r \in Requests : WF_fulfillmentVars(Proceed(r)) /\ SF_fulfillmentVars(Wait(r))

-----------------------------------------------------------------------------
(***************************************************************************)
(* Properties                                                              *)
(***************************************************************************)

\* Every variable holds rows of its table, every request a known statement.
TypeOK ==
    /\ prep \in [Items -> PrepStatus]
    /\ prepTrail \in [Items -> Seq((PrepStatus \cup {NULL}) \X PrepStatus)]
    /\ delivery \in [Items -> DeliveryStatus \cup {NULL}]
    /\ deliveryTrail \in [Items -> Seq((DeliveryStatus \cup {NULL}) \X DeliveryStatus)]
    /\ bulkKey \in [Staff -> [Keys -> BulkRow \cup {NULL}]]
    /\ work \in [Requests -> WorkRow]

\* The trail leads from the first status to the last, each row where the one before ended.
LeadsFromTo(trail, first, last) ==
    /\ trail = <<>> => last = first
    /\ trail # <<>> => trail[1][1] = first /\ trail[Len(trail)][2] = last
    /\ \A n \in 1 .. Len(trail) - 1 : trail[n][2] = trail[n + 1][1]

(***************************************************************************)
(* The transition rows of an item tell how it came to its status: of two   *)
(* competing transitions one is taken and recorded, the other leaves       *)
(* nothing, in the kitchen as on the floor.                                *)
(***************************************************************************)
TrailsAreTrue ==
    \A i \in Items :
        /\ LeadsFromTo(prepTrail[i], NULL, prep[i])
        /\ LeadsFromTo(deliveryTrail[i], NULL, delivery[i])

(***************************************************************************)
(* What is picked up or delivered is ready, and no station takes that back *)
(* while a delivery that has seen it is under way: every request that has  *)
(* passed the check works on items which still pass it.                    *)
(***************************************************************************)
DeliveriesAreReady ==
    /\ \A i \in Items : delivery[i] # NULL => prep[i] = "ready"
    /\ \A r \in Requests :
          /\ work[r].pc \in {"look", "write"} => prep[work[r].item] = "ready"
          /\ work[r].pc \in {"next", "deliver", "complete"} =>
                \A i \in work[r].items : prep[i] = "ready"

(***************************************************************************)
(* An item that a completed bulk delivery lists is delivered, it was at    *)
(* the table of that delivery, and no other bulk delivery lists it: of two *)
(* bulk deliveries of an item, with one key or with two, one counts.       *)
(***************************************************************************)
BulksAreWhole ==
    \A a, b \in Staff, k, l \in Keys :
        bulkKey[a][k] # NULL =>
            /\ \A i \in bulkKey[a][k].items :
                  delivery[i] = "delivered" /\ TableOf[i] = bulkKey[a][k].table
            /\ bulkKey[b][l] # NULL /\ <<a, k>> # <<b, l>> =>
                  bulkKey[a][k].items \cap bulkKey[b][l].items = {}

(***************************************************************************)
(* No step of a bulk delivery delivers some of its items and not others:   *)
(* it delivers all of them and completes its key, or it delivers nothing.  *)
(***************************************************************************)
NoPartialDelivery ==
    [][\A r \in Requests :
          work[r].items # {} /\ work'[r] # work[r] =>
             \/ UNCHANGED floor
             \/ /\ \A i \in work[r].items : delivery[i] # "delivered" /\ delivery'[i] = "delivered"
                /\ bulkKey'[work[r].actor][work[r].key] # bulkKey[work[r].actor][work[r].key]
      ]_fulfillmentVars

\* Request r can go on only when the transaction of q has ended.
WaitsFor(r, q) ==
    /\ q # r
    /\ \/ work[r].pc \in {"write", "deliver"} /\ work[r].item \in Locked(q)
       \/ work[r].pc = "reserve" /\ Reserved(q, work[r].actor, work[r].key)

(***************************************************************************)
(* Transactions never wait for each other in a circle, so that PostgreSQL  *)
(* need not break one: "deterministic item order prevent[s] partial or     *)
(* conflicting transitions" (docs/database/transactions.md:326).           *)
(***************************************************************************)
SomeoneIsFree ==
    \A circle \in (SUBSET Requests) \ {{}} :
        \E r \in circle : \A q \in circle : ~ WaitsFor(r, q)

\* Whatever it has to wait for, every request ends.
RequestsEnd == \A r \in Requests : work[r].pc # "idle" ~> work[r].pc = "idle"

(***************************************************************************)
(* Fulfillment implements Service: an item goes through its stages one by  *)
(* one, and several go through the last one only together and at one       *)
(* table.                                                                  *)
(***************************************************************************)
StageOf(i) == IF delivery[i] = NULL THEN prep[i] ELSE delivery[i]

TheService == INSTANCE Service WITH stage <- [i \in Items |-> StageOf(i)]

ImplementsService == TheService!ServiceSpec
=============================================================================
