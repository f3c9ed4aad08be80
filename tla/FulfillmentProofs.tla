-------------------------- MODULE FulfillmentProofs --------------------------
(***************************************************************************)
(* Theorems about Fulfillment.tla for every set of items, tables, staff,   *)
(* keys and requests.                                                      *)
(*                                                                         *)
(* The invariant adds to the properties what a request knows at its next   *)
(* statement (Knows) and that no two transactions hold the same row or key *)
(* (LocksExclude). A step of one request then leaves what the others know  *)
(* alone: a station moves only items that no delivery has seen ready, and  *)
(* a delivery writes only items that no other transaction has written.     *)
(***************************************************************************)
EXTENDS Fulfillment, FiniteSetTheorems, TLAPS

\* The statements of a bulk delivery once its key is reserved, and once its items are loaded.
Keyed == {"load", "next", "deliver", "complete"}
Loaded == {"next", "deliver", "complete"}

(***************************************************************************)
(* What a request in flight may rely on at its next statement.             *)
(***************************************************************************)
Knows(q) ==
    /\ q.pc \notin Loaded => q.done = {}
    /\ q.pc \notin Keyed \cup {"reserve"} => q.items = {}
    /\ q.pc = "prepare" =>
          /\ q.item \in Items
          /\ q.to \in {"preparing", "ready", "cannot_prepare"}
          /\ q.seen \in AllowedFrom(q.to)
    /\ q.pc \in {"look", "write"} =>
          /\ q.item \in Items
          /\ q.to \in DeliveryStatus
          /\ prep[q.item] = "ready"
    /\ q.pc = "write" => q.seen \notin {q.to, "delivered"} /\ q.seen \in {NULL, "picked_up"}
    /\ q.pc \in Keyed \cup {"reserve"} =>
          /\ q.actor \in Staff
          /\ q.key \in Keys
          /\ q.table \in Tables
          /\ q.items # {}
    /\ q.pc \in Keyed => bulkKey[q.actor][q.key] = NULL
    /\ q.pc \in Loaded =>
          /\ \A i \in q.items : TableOf[i] = q.table /\ prep[i] = "ready"
          /\ q.items = q.todo \cup {w.item : w \in q.done}
          /\ \A i \in q.todo, w \in q.done : w.item < i
          /\ \A w \in q.done : delivery[w.item] = w.from /\ w.from # "delivered"
    /\ q.pc = "deliver" =>
          /\ q.item \in q.todo
          /\ \A i \in q.todo : q.item <= i
          /\ q.seen \in {NULL, "picked_up"}
    /\ q.pc = "complete" => q.todo = {}

RequestsKnow == \A r \in Requests : Knows(work[r])

\* No two transactions hold the same delivery state or the same key.
LocksExclude ==
    \A r, q \in Requests : r # q =>
        /\ Locked(r) \cap Locked(q) = {}
        /\ work[r].pc \in Keyed /\ work[q].pc \in Keyed =>
              <<work[r].actor, work[r].key>> # <<work[q].actor, work[q].key>>

\* What is picked up or delivered is ready: the part of DeliveriesAreReady about the rows.
ServedIsReady == \A i \in Items : delivery[i] # NULL => prep[i] = "ready"

IInv ==
    /\ TypeOK
    /\ TrailsAreTrue
    /\ ServedIsReady
    /\ BulksAreWhole
    /\ RequestsKnow
    /\ LocksExclude

-----------------------------------------------------------------------------
\* NULL is none of the values it stands in for.
LEMMA NullIsFresh ==
    /\ NULL \notin PrepStatus
    /\ NULL \notin DeliveryStatus
    /\ NULL \notin Items
    /\ NULL \notin BulkRow
BY FulfillmentAssumption DEF FulfillmentAssumption

\* The empty request is a request row that knows nothing.
LEMMA NoWorkIsARow ==
    /\ NoWork \in WorkRow
    /\ NoWork.pc = "idle"
    /\ NoWork.items = {}
    /\ NoWork.done = {}
BY DEF NoWork, WorkRow

LEMMA NoWorkKnows == Knows(NoWork)
BY NoWorkIsARow DEF Knows, Keyed, Loaded

\* A trail that is continued where it ended leads on.
LEMMA TrailGrows ==
    ASSUME NEW Rows, NEW trail \in Seq(Rows), NEW first, NEW last, NEW next,
           <<last, next>> \in Rows,
           LeadsFromTo(trail, first, last)
    PROVE  /\ Append(trail, <<last, next>>) \in Seq(Rows)
           /\ LeadsFromTo(Append(trail, <<last, next>>), first, next)
<1> DEFINE longer == Append(trail, <<last, next>>)
<1>1. /\ longer \in Seq(Rows)
      /\ Len(longer) = Len(trail) + 1
      /\ longer[Len(trail) + 1] = <<last, next>>
      /\ \A n \in 1 .. Len(trail) : longer[n] = trail[n]
    OBVIOUS
<1>2. longer[Len(longer)][2] = next
    BY <1>1
<1>3. CASE trail = <<>>
  <2>1. Len(trail) = 0 /\ last = first
      BY <1>3 DEF LeadsFromTo
  <2>2. longer # <<>> /\ longer[1][1] = first /\ 1 .. Len(longer) - 1 = {}
      BY <1>1, <2>1
  <2> QED
      BY <1>1, <1>2, <2>2 DEF LeadsFromTo
<1>4. CASE trail # <<>>
  <2>1. /\ Len(trail) \in Nat \ {0}
        /\ trail[1][1] = first
        /\ trail[Len(trail)][2] = last
        /\ \A n \in 1 .. Len(trail) - 1 : trail[n][2] = trail[n + 1][1]
      BY <1>4 DEF LeadsFromTo
  <2>2. longer # <<>> /\ longer[1][1] = first
      BY <1>1, <2>1
  <2>3. ASSUME NEW n \in 1 .. Len(longer) - 1
        PROVE  longer[n][2] = longer[n + 1][1]
    <3>1. CASE n = Len(trail)
        BY <1>1, <2>1, <3>1
    <3>2. CASE n # Len(trail)
      <4>1. n \in 1 .. Len(trail) - 1 /\ n + 1 \in 1 .. Len(trail)
          BY <1>1, <2>1, <2>3, <3>2
      <4> QED
          BY <1>1, <2>1, <4>1
    <3> QED
        BY <3>1, <3>2
  <2> QED
      BY <1>1, <1>2, <2>2, <2>3 DEF LeadsFromTo
<1> QED
    BY <1>3, <1>4

THEOREM InitIInv == Init => IInv
<1> SUFFICES ASSUME Init PROVE IInv
    OBVIOUS
<1> USE DEF Init
<1>1. TypeOK
  <2>1. << <<NULL, "pending">> >> \in Seq((PrepStatus \cup {NULL}) \X PrepStatus)
      BY DEF PrepStatus
  <2> QED
      BY <2>1, NoWorkIsARow DEF TypeOK, PrepStatus
<1>2. TrailsAreTrue
    BY DEF TrailsAreTrue, LeadsFromTo
<1>3. ServedIsReady /\ BulksAreWhole
    BY DEF ServedIsReady, BulksAreWhole
<1>4. RequestsKnow /\ LocksExclude
    BY NoWorkKnows, NoWorkIsARow DEF RequestsKnow, LocksExclude, Locked, Keyed
<1> QED
    BY <1>1, <1>2, <1>3, <1>4 DEF IInv

-----------------------------------------------------------------------------
(***************************************************************************)
(* Steps that commit nothing                                               *)
(***************************************************************************)

\* What the new row of a request may not take from the others.
Takes(r, row) ==
    \A q \in Requests \ {r} :
        /\ {w.item : w \in row.done} \cap Locked(q) = {}
        /\ row.pc \in Keyed /\ work[q].pc \in Keyed =>
              <<row.actor, row.key>> # <<work[q].actor, work[q].key>>

\* A request that moves on, or ends, without a commit preserves IInv when the
\* row it leaves behind knows enough and takes nothing from the others.
LEMMA ContinueStep ==
    ASSUME IInv,
           NEW r \in Requests, NEW row \in WorkRow, Knows(row), Takes(r, row),
           Continue(r, row), UNCHANGED <<kitchen, floor>>
    PROVE  IInv'
<1>1. /\ work' = [work EXCEPT ![r] = row]
      /\ UNCHANGED <<prep, prepTrail, delivery, deliveryTrail, bulkKey>>
    BY DEF Continue, kitchen, floor
<1>2. work'[r] = row /\ \A q \in Requests : q # r => work'[q] = work[q]
    BY <1>1 DEF IInv, TypeOK
<1>3. TypeOK'
    BY <1>1 DEF IInv, TypeOK
<1>4. TrailsAreTrue' /\ ServedIsReady' /\ BulksAreWhole'
    BY <1>1 DEF IInv, TrailsAreTrue, ServedIsReady, BulksAreWhole
<1>5. RequestsKnow'
  <2> SUFFICES ASSUME NEW x \in Requests PROVE Knows(work[x])'
      BY DEF RequestsKnow
  <2>1. CASE x = r
      BY <1>1, <1>2, <2>1 DEF Knows
  <2>2. CASE x # r
    <3>1. Knows(work[x])
        BY DEF IInv, RequestsKnow
    <3> QED
        BY <1>1, <1>2, <2>2, <3>1 DEF Knows
  <2> QED
      BY <2>1, <2>2
<1>6. LocksExclude'
  <2> SUFFICES ASSUME NEW x \in Requests, NEW y \in Requests, x # y
               PROVE  /\ {w.item : w \in work'[x].done} \cap {w.item : w \in work'[y].done} = {}
                      /\ work'[x].pc \in Keyed /\ work'[y].pc \in Keyed =>
                            <<work'[x].actor, work'[x].key>> # <<work'[y].actor, work'[y].key>>
      BY DEF LocksExclude, Locked
  <2>1. CASE x = r
      BY <1>2, <2>1 DEF Takes, Locked
  <2>2. CASE y = r
      BY <1>2, <2>2 DEF Takes, Locked
  <2>3. CASE x # r /\ y # r
      BY <1>2, <2>3 DEF IInv, LocksExclude, Locked
  <2> QED
      BY <2>1, <2>2, <2>3
<1> QED
    BY <1>3, <1>4, <1>5, <1>6 DEF IInv

\* A row without locks and keys takes nothing.
LEMMA TakesNothing ==
    ASSUME NEW r \in Requests, NEW row, row.done = {}, row.pc \notin Keyed
    PROVE  Takes(r, row)
BY DEF Takes

\* A request that holds what it held, and no more, takes nothing.
LEMMA TakesNoMore ==
    ASSUME IInv, NEW r \in Requests, NEW row, row.done = work[r].done,
           row.pc \in Keyed => /\ work[r].pc \in Keyed
                               /\ row.actor = work[r].actor
                               /\ row.key = work[r].key
    PROVE  Takes(r, row)
BY DEF Takes, IInv, LocksExclude, Locked

LEMMA RespondStep ==
    ASSUME IInv, NEW r \in Requests, NEW code, Respond(r, code), UNCHANGED <<kitchen, floor>>
    PROVE  IInv'
<1>1. Continue(r, NoWork)
    BY DEF Respond, Continue
<1>2. Takes(r, NoWork)
    BY TakesNothing, NoWorkIsARow DEF Keyed
<1> QED
    BY <1>1, <1>2, NoWorkIsARow, NoWorkKnows, ContinueStep

LEMMA RefuseStep ==
    ASSUME IInv, NEW r \in Requests, NEW code, Refuse(r, code)
    PROVE  IInv'
BY RespondStep DEF Refuse

LEMMA VanishStep ==
    ASSUME IInv, NEW r \in Requests, Vanish(r)
    PROVE  IInv'
<1>1. Takes(r, NoWork)
    BY TakesNothing, NoWorkIsARow DEF Keyed
<1> QED
    BY <1>1, NoWorkIsARow, NoWorkKnows, ContinueStep DEF Vanish

LEMMA BeginPreparationStep ==
    ASSUME IInv, NEW r \in Requests, NEW i \in Items,
           NEW to \in {"preparing", "ready", "cannot_prepare"}, BeginPreparation(r, i, to)
    PROVE  IInv'
<1> DEFINE row == [NoWork EXCEPT !.pc = "prepare", !.item = i, !.to = to, !.seen = prep[i]]
<1>1. CASE Refuse(r, "not_authorized") \/ Refuse(r, "invalid_preparation_transition")
    BY <1>1, RefuseStep
<1>2. CASE /\ prep[i] \in AllowedFrom(to)
           /\ Continue(r, row)
           /\ UNCHANGED <<kitchen, floor>>
  <2>1. row \in WorkRow
      BY DEF IInv, TypeOK, NoWork, WorkRow, PrepStatus
  <2>2. Knows(row)
      BY <1>2 DEF Knows, Keyed, Loaded, NoWork
  <2>3. row.done = {} /\ row.pc \notin Keyed
      BY DEF Keyed, NoWork
  <2>4. Takes(r, row)
      BY <2>3, TakesNothing
  <2> QED
      BY <1>2, <2>1, <2>2, <2>4, ContinueStep
<1> QED
    BY <1>1, <1>2 DEF BeginPreparation

LEMMA BeginMarkStep ==
    ASSUME IInv, NEW r \in Requests, NEW i \in Items, NEW to \in DeliveryStatus,
           BeginMark(r, i, to)
    PROVE  IInv'
<1> DEFINE row == [NoWork EXCEPT !.pc = "look", !.item = i, !.to = to]
<1>1. CASE \/ Refuse(r, "not_authorized")
           \/ Refuse(r, "not_ready_for_delivery")
           \/ Refuse(r, "outside_hall_scope")
    BY <1>1, RefuseStep
<1>2. CASE /\ prep[i] = "ready"
           /\ Continue(r, row)
           /\ UNCHANGED <<kitchen, floor>>
  <2>1. row \in WorkRow
      BY DEF NoWork, WorkRow
  <2>2. Knows(row)
      BY <1>2 DEF Knows, Keyed, Loaded, NoWork
  <2>3. row.done = {} /\ row.pc \notin Keyed
      BY DEF Keyed, NoWork
  <2>4. Takes(r, row)
      BY <2>3, TakesNothing
  <2> QED
      BY <1>2, <2>1, <2>2, <2>4, ContinueStep
<1> QED
    BY <1>1, <1>2 DEF BeginMark

LEMMA ReadMarkStep ==
    ASSUME IInv, NEW r \in Requests, ReadMark(r)
    PROVE  IInv'
<1> DEFINE row == [work[r] EXCEPT !.pc = "write", !.seen = delivery[work[r].item]]
<1>1. work[r] \in WorkRow /\ Knows(work[r]) /\ work[r].pc = "look"
    BY DEF IInv, TypeOK, RequestsKnow, ReadMark
<1>2. CASE \/ Respond(r, "done") /\ UNCHANGED <<kitchen, floor>>
           \/ Refuse(r, "invalid_delivery_transition")
    BY <1>2, RespondStep, RefuseStep
<1>3. CASE /\ delivery[work[r].item] \notin {work[r].to, "delivered"}
           /\ Continue(r, row)
           /\ UNCHANGED <<kitchen, floor>>
  <2>1. work[r].item \in Items /\ delivery[work[r].item] \in {NULL, "picked_up"}
      BY <1>1, <1>3 DEF Knows, IInv, TypeOK, DeliveryStatus
  <2>2. row \in WorkRow
      BY <1>1, <2>1 DEF WorkRow, DeliveryStatus
  <2>3. Knows(row)
      BY <1>1, <1>3, <2>1 DEF Knows, Keyed, Loaded, WorkRow
  <2>4. row.done = {} /\ row.pc \notin Keyed
      BY <1>1 DEF Knows, Keyed, Loaded, WorkRow
  <2>5. Takes(r, row)
      BY <2>4, TakesNothing
  <2> QED
      BY <1>3, <2>2, <2>3, <2>5, ContinueStep
<1> QED
    BY <1>2, <1>3 DEF ReadMark

LEMMA BeginBulkStep ==
    ASSUME IInv, NEW r \in Requests, NEW a \in Staff, NEW k \in Keys, NEW t \in Tables,
           NEW chosen \in (SUBSET Items) \ {{}}, BeginBulk(r, a, k, t, chosen)
    PROVE  IInv'
<1> DEFINE row == [NoWork EXCEPT !.pc = "reserve", !.actor = a, !.key = k,
                                 !.table = t, !.items = chosen]
<1>1. CASE \/ Refuse(r, "not_authorized")
           \/ Refuse(r, "idempotency_conflict")
           \/ Respond(r, "duplicate") /\ UNCHANGED <<kitchen, floor>>
    BY <1>1, RefuseStep, RespondStep
<1>2. CASE Continue(r, row) /\ UNCHANGED <<kitchen, floor>>
  <2>1. row \in WorkRow
      BY DEF NoWork, WorkRow
  <2>2. Knows(row)
      BY DEF Knows, Keyed, Loaded, NoWork
  <2>3. row.done = {} /\ row.pc \notin Keyed
      BY DEF Keyed, NoWork
  <2>4. Takes(r, row)
      BY <2>3, TakesNothing
  <2> QED
      BY <1>2, <2>1, <2>2, <2>4, ContinueStep
<1> QED
    BY <1>1, <1>2 DEF BeginBulk

LEMMA ReserveKeyStep ==
    ASSUME IInv, NEW r \in Requests, ReserveKey(r)
    PROVE  IInv'
<1> DEFINE row == [work[r] EXCEPT !.pc = "load"]
<1>1. work[r] \in WorkRow /\ Knows(work[r]) /\ work[r].pc = "reserve"
    BY DEF IInv, TypeOK, RequestsKnow, ReserveKey
<1>2. CASE Refuse(r, "integrity_error")
    BY <1>2, RefuseStep
<1>3. CASE /\ bulkKey[work[r].actor][work[r].key] = NULL
           /\ Continue(r, row)
           /\ UNCHANGED <<kitchen, floor>>
  <2>1. row \in WorkRow
      BY <1>1 DEF WorkRow
  <2>2. Knows(row)
      BY <1>1, <1>3 DEF Knows, Keyed, Loaded, WorkRow
  <2>3. Takes(r, row)
    <3>1. row.done = {}
        BY <1>1 DEF Knows, Loaded, WorkRow
    <3>2. \A q \in Requests : work[q].pc \in Keyed =>
             <<work[q].actor, work[q].key>> # <<row.actor, row.key>>
        BY <1>1 DEF ReserveKey, Reserved, Keyed, WorkRow
    <3> QED
        BY <3>1, <3>2 DEF Takes
  <2> QED
      BY <1>3, <2>1, <2>2, <2>3, ContinueStep
<1> QED
    BY <1>2, <1>3 DEF ReserveKey

LEMMA LoadItemsStep ==
    ASSUME IInv, NEW r \in Requests, LoadItems(r)
    PROVE  IInv'
<1> DEFINE row == [work[r] EXCEPT !.pc = "next", !.todo = work[r].items]
<1>1. work[r] \in WorkRow /\ Knows(work[r]) /\ work[r].pc = "load"
    BY DEF IInv, TypeOK, RequestsKnow, LoadItems
<1>2. CASE \/ Refuse(r, "bulk_item_invalid")
           \/ Refuse(r, "bulk_mixed_table")
           \/ Refuse(r, "outside_hall_scope")
    BY <1>2, RefuseStep
<1>3. CASE /\ \A i \in work[r].items : prep[i] = "ready" /\ TableOf[i] = work[r].table
           /\ Continue(r, row)
           /\ UNCHANGED <<kitchen, floor>>
  <2>1. row \in WorkRow
      BY <1>1 DEF WorkRow
  <2>2. Knows(row)
      BY <1>1, <1>3 DEF Knows, Keyed, Loaded, WorkRow
  <2>3. /\ row.done = work[r].done
        /\ work[r].pc \in Keyed
        /\ row.actor = work[r].actor /\ row.key = work[r].key
      BY <1>1 DEF Keyed, WorkRow
  <2>4. Takes(r, row)
      BY <2>3, TakesNoMore
  <2> QED
      BY <1>3, <2>1, <2>2, <2>4, ContinueStep
<1> QED
    BY <1>2, <1>3 DEF LoadItems

LEMMA ReadNextStep ==
    ASSUME IInv, NEW r \in Requests, ReadNext(r)
    PROVE  IInv'
<1>1. work[r] \in WorkRow /\ Knows(work[r]) /\ work[r].pc = "next"
    BY DEF IInv, TypeOK, RequestsKnow, ReadNext
<1>2. PICK i \in work[r].todo :
         /\ \A j \in work[r].todo : i <= j
         /\ \/ Refuse(r, "bulk_item_invalid")
            \/ /\ delivery[i] # "delivered"
               /\ Continue(r, [work[r] EXCEPT !.pc = "deliver", !.item = i, !.seen = delivery[i]])
               /\ UNCHANGED <<kitchen, floor>>
    BY DEF ReadNext
<1> DEFINE row == [work[r] EXCEPT !.pc = "deliver", !.item = i, !.seen = delivery[i]]
<1>3. CASE Refuse(r, "bulk_item_invalid")
    BY <1>3, RefuseStep
<1>4. CASE /\ delivery[i] # "delivered"
           /\ Continue(r, row)
           /\ UNCHANGED <<kitchen, floor>>
  <2>1. i \in Items /\ delivery[i] \in {NULL, "picked_up"}
      BY <1>1, <1>2, <1>4 DEF IInv, TypeOK, WorkRow, DeliveryStatus
  <2>2. row \in WorkRow
      BY <1>1, <2>1 DEF WorkRow, DeliveryStatus
  <2>3. Knows(row)
      BY <1>1, <1>2, <2>1 DEF Knows, Keyed, Loaded, WorkRow
  <2>4. /\ row.done = work[r].done
        /\ work[r].pc \in Keyed
        /\ row.actor = work[r].actor /\ row.key = work[r].key
      BY <1>1 DEF Keyed, WorkRow
  <2>5. Takes(r, row)
      BY <2>4, TakesNoMore
  <2> QED
      BY <1>4, <2>2, <2>3, <2>5, ContinueStep
<1> QED
    BY <1>2, <1>3, <1>4

(***************************************************************************)
(* The write of one item of a bulk delivery: the request has seen its      *)
(* status, nobody has changed it since, and nobody else holds it.          *)
(***************************************************************************)
LEMMA WriteNextStep ==
    ASSUME IInv, NEW r \in Requests, WriteNext(r)
    PROVE  IInv'
<1> DEFINE i == work[r].item
           new == [item |-> i, from |-> work[r].seen]
           row == Written(work[r])
<1>1. work[r] \in WorkRow /\ Knows(work[r]) /\ work[r].pc = "deliver"
    BY DEF IInv, TypeOK, RequestsKnow, WriteNext
<1>2. CASE Refuse(r, OutrunCode(work[r]))
    BY <1>2, RefuseStep
<1>3. CASE /\ Free(r, i)
           /\ ~ Outrun(work[r])
           /\ Continue(r, row)
           /\ UNCHANGED <<kitchen, floor>>
  <2>1. /\ i \in work[r].todo /\ i \in Items
        /\ \A j \in work[r].todo : i <= j
        /\ delivery[i] = work[r].seen
        /\ work[r].seen \in {NULL, "picked_up"}
      BY <1>1, <1>3 DEF Knows, WorkRow, Outrun
  <2>2. /\ row.pc \in {"next", "complete"}
        /\ row.pc = "complete" => row.todo = {}
        /\ row.todo = work[r].todo \ {i}
        /\ row.done = work[r].done \cup {new}
        /\ row.actor = work[r].actor /\ row.key = work[r].key
        /\ row.table = work[r].table /\ row.items = work[r].items
      BY <1>1 DEF Written, WorkRow
  <2>3. row \in WorkRow
    <3>1. new \in [item : Items, from : DeliveryStatus \cup {NULL}]
        BY <2>1 DEF DeliveryStatus
    <3>2. work[r].done \cup {new} \in SUBSET [item : Items, from : DeliveryStatus \cup {NULL}]
        BY <1>1, <3>1 DEF WorkRow
    <3>3. work[r].todo \ {i} \in SUBSET Items
        BY <1>1 DEF WorkRow
    <3>4. PICK pc \in {"next", "complete"}, todo \in SUBSET Items,
               done \in SUBSET [item : Items, from : DeliveryStatus \cup {NULL}] :
             row = [work[r] EXCEPT !.pc = pc, !.todo = todo, !.item = NULL, !.seen = NULL,
                                   !.done = done]
        BY <3>2, <3>3 DEF Written
    <3> HIDE DEF row, new
    <3> QED
        BY <1>1, <3>4 DEF WorkRow
  <2>4. Knows(row)
    <3>1. row.items = row.todo \cup {w.item : w \in row.done}
      <4>1. {w.item : w \in row.done} = {w.item : w \in work[r].done} \cup {i}
        <5>1. row.done = work[r].done \cup {new} /\ new.item = i
            BY <2>2
        <5> HIDE DEF new, row, i
        <5> QED
            BY <5>1
      <4>2. work[r].items = work[r].todo \cup {w.item : w \in work[r].done}
          BY <1>1 DEF Knows, Loaded
      <4> QED
          BY <2>1, <2>2, <4>1, <4>2
    <3>2. \A j \in row.todo, w \in row.done : w.item < j
      <4> SUFFICES ASSUME NEW j \in row.todo, NEW w \in row.done PROVE w.item < j
          OBVIOUS
      <4>1. j \in work[r].todo /\ j # i /\ i <= j /\ i \in Int /\ j \in Int
          BY <1>1, <2>1, <2>2, FulfillmentAssumption DEF FulfillmentAssumption, WorkRow
      <4>2. CASE w \in work[r].done
          BY <1>1, <4>1, <4>2 DEF Knows, Loaded
      <4>3. CASE w = new
          BY <4>1, <4>3
      <4> QED
          BY <2>2, <4>2, <4>3
    <3>3. \A w \in row.done : delivery[w.item] = w.from /\ w.from # "delivered"
        BY <1>1, <2>1, <2>2, NullIsFresh DEF Knows, Loaded, DeliveryStatus
    <3> QED
        BY <1>1, <2>2, <3>1, <3>2, <3>3 DEF Knows, Keyed, Loaded
  <2>5. Takes(r, row)
      BY <1>1, <1>3, <2>2 DEF Takes, Free, IInv, LocksExclude, Locked, Keyed
  <2> QED
      BY <1>3, <2>3, <2>4, <2>5, ContinueStep
<1> QED
    BY <1>2, <1>3 DEF WriteNext

-----------------------------------------------------------------------------
(***************************************************************************)
(* Steps that commit                                                       *)
(***************************************************************************)

\* A request that has been answered holds nothing, and the others hold what they held.
LEMMA RespondFrees ==
    ASSUME IInv, NEW r \in Requests, NEW code, Respond(r, code)
    PROVE  /\ work' \in [Requests -> WorkRow]
           /\ work'[r] = NoWork
           /\ \A q \in Requests : q # r => work'[q] = work[q]
           /\ LocksExclude'
<1>1. work' \in [Requests -> WorkRow]
    BY NoWorkIsARow DEF IInv, TypeOK, Respond
<1>2. work'[r] = NoWork /\ \A q \in Requests : q # r => work'[q] = work[q]
    BY DEF IInv, TypeOK, Respond
<1>3. LocksExclude'
  <2> SUFFICES ASSUME NEW x \in Requests, NEW y \in Requests, x # y
               PROVE  /\ {w.item : w \in work'[x].done} \cap {w.item : w \in work'[y].done} = {}
                      /\ work'[x].pc \in Keyed /\ work'[y].pc \in Keyed =>
                            <<work'[x].actor, work'[x].key>> # <<work'[y].actor, work'[y].key>>
      BY DEF LocksExclude, Locked
  <2>1. CASE x = r \/ y = r
      BY <1>2, <2>1, NoWorkIsARow DEF Keyed
  <2>2. CASE x # r /\ y # r
      BY <1>2, <2>2 DEF IInv, LocksExclude, Locked
  <2> QED
      BY <2>1, <2>2
<1> QED
    BY <1>1, <1>2, <1>3

(***************************************************************************)
(* The commit of a preparation. The item was not ready, so no request on   *)
(* the floor has seen it ready, and its delivery has not begun.            *)
(***************************************************************************)
LEMMA CommitPreparationStep ==
    ASSUME IInv, NEW r \in Requests, CommitPreparation(r)
    PROVE  IInv'
<1> DEFINE i == work[r].item
           to == work[r].to
           seen == work[r].seen
<1>1. CASE Refuse(r, "invalid_preparation_transition")
    BY <1>1, RefuseStep
<1>2. CASE ~ Refuse(r, "invalid_preparation_transition")
  <2>1. /\ work[r].pc = "prepare"
        /\ prep[i] = seen
        /\ prep' = [prep EXCEPT ![i] = to]
        /\ prepTrail' = [prepTrail EXCEPT ![i] = Append(@, <<seen, to>>)]
        /\ Respond(r, "done")
        /\ UNCHANGED <<delivery, deliveryTrail, bulkKey>>
      BY <1>2 DEF CommitPreparation, floor
  <2>2. /\ i \in Items
        /\ to \in PrepStatus
        /\ seen \in {"pending", "preparing"}
      BY <2>1 DEF IInv, RequestsKnow, Knows, AllowedFrom, PrepStatus
  <2> HIDE DEF i, to, seen
  <2>3. prep'[i] = to /\ \A j \in Items : j # i => prep'[j] = prep[j]
      BY <2>1, <2>2 DEF IInv, TypeOK
  <2>4. \A j \in Items : prep[j] = "ready" => prep'[j] = "ready"
      BY <2>1, <2>2, <2>3
  <2>5. /\ prepTrail'[i] \in Seq((PrepStatus \cup {NULL}) \X PrepStatus)
        /\ LeadsFromTo(prepTrail'[i], NULL, to)
    <3>1. /\ prepTrail[i] \in Seq((PrepStatus \cup {NULL}) \X PrepStatus)
          /\ LeadsFromTo(prepTrail[i], NULL, seen)
        BY <2>1, <2>2 DEF IInv, TypeOK, TrailsAreTrue
    <3>2. <<seen, to>> \in (PrepStatus \cup {NULL}) \X PrepStatus
        BY <2>2 DEF PrepStatus
    <3>3. prepTrail'[i] = Append(prepTrail[i], <<seen, to>>)
        BY <2>1, <2>2 DEF IInv, TypeOK
    <3> QED
        BY <3>1, <3>2, <3>3, TrailGrows
  <2>6. \A j \in Items : j # i => prepTrail'[j] = prepTrail[j]
      BY <2>1, <2>2 DEF IInv, TypeOK
  <2>7. TypeOK'
    <3>1. prep' \in [Items -> PrepStatus]
        BY <2>1, <2>2 DEF IInv, TypeOK
    <3>2. prepTrail' \in [Items -> Seq((PrepStatus \cup {NULL}) \X PrepStatus)]
        BY <2>1, <2>2, <2>5, <2>6 DEF IInv, TypeOK
    <3> QED
        BY <2>1, <3>1, <3>2, RespondFrees DEF IInv, TypeOK
  <2>8. TrailsAreTrue'
    <3> SUFFICES ASSUME NEW j \in Items
                 PROVE  /\ LeadsFromTo(prepTrail'[j], NULL, prep'[j])
                        /\ LeadsFromTo(deliveryTrail'[j], NULL, delivery'[j])
        BY DEF TrailsAreTrue
    <3>1. LeadsFromTo(deliveryTrail'[j], NULL, delivery'[j])
        BY <2>1 DEF IInv, TrailsAreTrue
    <3>2. LeadsFromTo(prepTrail'[j], NULL, prep'[j])
        BY <2>3, <2>5, <2>6 DEF IInv, TrailsAreTrue
    <3> QED
        BY <3>1, <3>2
  <2>9. ServedIsReady' /\ BulksAreWhole'
      BY <2>1, <2>4 DEF IInv, ServedIsReady, BulksAreWhole
  <2>10. RequestsKnow'
    <3> SUFFICES ASSUME NEW x \in Requests PROVE Knows(work[x])'
        BY DEF RequestsKnow
    <3>1. CASE x = r
        BY <2>1, <3>1, RespondFrees, NoWorkIsARow DEF Knows, Keyed, Loaded
    <3>2. CASE x # r
      <4>1. work'[x] = work[x] /\ Knows(work[x]) /\ work[x] \in WorkRow
          BY <2>1, <3>2, RespondFrees DEF IInv, TypeOK, RequestsKnow
      <4>2. \A j \in work[x].items : j \in Items
          BY <4>1 DEF WorkRow
      <4> QED
          BY <2>1, <2>4, <4>1, <4>2 DEF Knows
    <3> QED
        BY <3>1, <3>2
  <2> QED
      BY <2>1, <2>7, <2>8, <2>9, <2>10, RespondFrees DEF IInv
<1> QED
    BY <1>1, <1>2

(***************************************************************************)
(* The commit of a single mark. No other transaction has written the item, *)
(* and no completed bulk delivery lists it, since it was not delivered.    *)
(***************************************************************************)
LEMMA WriteMarkStep ==
    ASSUME IInv, NEW r \in Requests, WriteMark(r)
    PROVE  IInv'
<1> DEFINE i == work[r].item
           to == work[r].to
           seen == work[r].seen
<1>1. CASE Refuse(r, OutrunCode(work[r]))
    BY <1>1, RefuseStep
<1>2. CASE ~ Refuse(r, OutrunCode(work[r]))
  <2>1. /\ work[r].pc = "write"
        /\ Free(r, i)
        /\ delivery[i] = seen
        /\ delivery' = [delivery EXCEPT ![i] = to]
        /\ deliveryTrail' = [deliveryTrail EXCEPT ![i] = Append(@, <<seen, to>>)]
        /\ Respond(r, "done")
        /\ UNCHANGED <<prep, prepTrail, bulkKey>>
      BY <1>2 DEF WriteMark, Outrun, kitchen
  <2>2. /\ i \in Items
        /\ prep[i] = "ready"
        /\ to \in DeliveryStatus
        /\ seen \in {NULL, "picked_up"}
      BY <2>1 DEF IInv, RequestsKnow, Knows
  <2> HIDE DEF i, to, seen
  <2>3. delivery'[i] = to /\ \A j \in Items : j # i => delivery'[j] = delivery[j]
      BY <2>1, <2>2 DEF IInv, TypeOK
  <2>4. /\ deliveryTrail'[i] \in Seq((DeliveryStatus \cup {NULL}) \X DeliveryStatus)
        /\ LeadsFromTo(deliveryTrail'[i], NULL, to)
    <3>1. /\ deliveryTrail[i] \in Seq((DeliveryStatus \cup {NULL}) \X DeliveryStatus)
          /\ LeadsFromTo(deliveryTrail[i], NULL, seen)
        BY <2>1, <2>2 DEF IInv, TypeOK, TrailsAreTrue
    <3>2. <<seen, to>> \in (DeliveryStatus \cup {NULL}) \X DeliveryStatus
        BY <2>2 DEF DeliveryStatus
    <3>3. deliveryTrail'[i] = Append(deliveryTrail[i], <<seen, to>>)
        BY <2>1, <2>2 DEF IInv, TypeOK
    <3> QED
        BY <3>1, <3>2, <3>3, TrailGrows
  <2>5. \A j \in Items : j # i => deliveryTrail'[j] = deliveryTrail[j]
      BY <2>1, <2>2 DEF IInv, TypeOK
  <2>6. TypeOK'
    <3>1. delivery' \in [Items -> DeliveryStatus \cup {NULL}]
        BY <2>1, <2>2 DEF IInv, TypeOK
    <3>2. deliveryTrail' \in [Items -> Seq((DeliveryStatus \cup {NULL}) \X DeliveryStatus)]
        BY <2>1, <2>2, <2>4, <2>5 DEF IInv, TypeOK
    <3> QED
        BY <2>1, <3>1, <3>2, RespondFrees DEF IInv, TypeOK
  <2>7. TrailsAreTrue'
    <3> SUFFICES ASSUME NEW j \in Items
                 PROVE  /\ LeadsFromTo(prepTrail'[j], NULL, prep'[j])
                        /\ LeadsFromTo(deliveryTrail'[j], NULL, delivery'[j])
        BY DEF TrailsAreTrue
    <3>1. LeadsFromTo(prepTrail'[j], NULL, prep'[j])
        BY <2>1 DEF IInv, TrailsAreTrue
    <3>2. LeadsFromTo(deliveryTrail'[j], NULL, delivery'[j])
        BY <2>3, <2>4, <2>5 DEF IInv, TrailsAreTrue
    <3> QED
        BY <3>1, <3>2
  <2>8. ServedIsReady'
      BY <2>1, <2>2, <2>3 DEF IInv, ServedIsReady
  <2>9. BulksAreWhole'
    <3>1. \A a \in Staff, k \in Keys : bulkKey[a][k] # NULL =>
             \A j \in bulkKey[a][k].items : j \in Items /\ j # i
        BY <2>1, <2>2, NullIsFresh DEF IInv, TypeOK, BulkRow, BulksAreWhole, DeliveryStatus
    <3> QED
        BY <2>1, <2>3, <3>1 DEF IInv, BulksAreWhole
  <2>10. RequestsKnow'
    <3> SUFFICES ASSUME NEW x \in Requests PROVE Knows(work[x])'
        BY DEF RequestsKnow
    <3>1. CASE x = r
        BY <2>1, <3>1, RespondFrees, NoWorkIsARow DEF Knows, Keyed, Loaded
    <3>2. CASE x # r
      <4>1. work'[x] = work[x] /\ Knows(work[x]) /\ work[x] \in WorkRow
          BY <2>1, <3>2, RespondFrees DEF IInv, TypeOK, RequestsKnow
      <4>2. \A w \in work[x].done : w.item \in Items /\ w.item # i
          BY <2>1, <3>2, <4>1 DEF Free, Locked, WorkRow
      <4>3. \A w \in work[x].done : delivery'[w.item] = delivery[w.item]
          BY <2>3, <4>2
      <4> QED
          BY <2>1, <4>1, <4>3 DEF Knows
    <3> QED
        BY <3>1, <3>2
  <2> QED
      BY <2>1, <2>6, <2>7, <2>8, <2>9, <2>10, RespondFrees DEF IInv
<1> QED
    BY <1>1, <1>2

(***************************************************************************)
(* The commit of a bulk delivery. Its items are the rows it holds, none of *)
(* them delivered before, so no earlier bulk delivery lists one of them;   *)
(* and the other transactions hold other rows and another key.             *)
(***************************************************************************)
LEMMA CommitBulkStep ==
    ASSUME IInv, NEW r \in Requests, CommitBulk(r)
    PROVE  IInv'
<1> DEFINE row == work[r]
           mine == Locked(r)
           new == [table |-> row.table, items |-> row.items]
           From(i) == (CHOOSE w \in row.done : w.item = i).from
<1>1. /\ row \in WorkRow /\ Knows(row) /\ row.pc = "complete"
      /\ row.pc \in Keyed /\ row.pc \in Loaded
    BY DEF IInv, TypeOK, RequestsKnow, CommitBulk, Keyed, Loaded
<1>2. /\ delivery' = [i \in Items |-> IF i \in mine THEN "delivered" ELSE delivery[i]]
      /\ deliveryTrail' = [i \in Items |->
              IF i \in mine THEN Append(deliveryTrail[i], <<From(i), "delivered">>)
              ELSE deliveryTrail[i]]
      /\ bulkKey' = [bulkKey EXCEPT ![row.actor][row.key] = new]
      /\ Respond(r, "done")
      /\ UNCHANGED <<prep, prepTrail>>
    BY DEF CommitBulk, kitchen
<1>3. /\ row.items = mine /\ mine # {} /\ mine \subseteq Items
      /\ row.actor \in Staff /\ row.key \in Keys
      /\ new \in BulkRow
      /\ bulkKey[row.actor][row.key] = NULL
      /\ \A i \in mine : TableOf[i] = row.table /\ prep[i] = "ready"
  <2>1. row.todo = {} /\ row.items = row.todo \cup mine
      BY <1>1 DEF Knows, Locked
  <2> QED
      BY <1>1, <2>1 DEF Knows, WorkRow, BulkRow
<1>4. ASSUME NEW i \in mine
      PROVE  From(i) = delivery[i] /\ delivery[i] \in {NULL, "picked_up"}
  <2>1. \A w \in row.done : delivery[w.item] = w.from /\ w.from # "delivered"
      BY <1>1 DEF Knows
  <2>2. \E w \in row.done : w.item = i
      BY DEF Locked
  <2>3. From(i) = delivery[i] /\ delivery[i] # "delivered"
      BY <2>1, <2>2
  <2> QED
      BY <1>3, <2>3 DEF IInv, TypeOK, DeliveryStatus
<1> HIDE DEF mine, new, From, row
<1>5. \A i \in Items : delivery'[i] = IF i \in mine THEN "delivered" ELSE delivery[i]
    BY <1>2
<1>6. ASSUME NEW i \in Items
      PROVE  /\ deliveryTrail'[i] \in Seq((DeliveryStatus \cup {NULL}) \X DeliveryStatus)
             /\ LeadsFromTo(deliveryTrail'[i], NULL, delivery'[i])
  <2>1. /\ deliveryTrail[i] \in Seq((DeliveryStatus \cup {NULL}) \X DeliveryStatus)
        /\ LeadsFromTo(deliveryTrail[i], NULL, delivery[i])
      BY DEF IInv, TypeOK, TrailsAreTrue
  <2>2. CASE i \in mine
    <3>1. deliveryTrail'[i] = Append(deliveryTrail[i], <<delivery[i], "delivered">>)
        BY <1>2, <1>4, <2>2
    <3>2. <<delivery[i], "delivered">> \in (DeliveryStatus \cup {NULL}) \X DeliveryStatus
        BY <1>4, <2>2 DEF DeliveryStatus
    <3>3. delivery'[i] = "delivered"
        BY <1>5, <2>2
    <3> QED
        BY <2>1, <3>1, <3>2, <3>3, TrailGrows
  <2>3. CASE i \notin mine
      BY <1>2, <1>5, <2>1, <2>3
  <2> QED
      BY <2>2, <2>3
<1>7. /\ bulkKey'[row.actor][row.key] = new
      /\ \A a \in Staff, k \in Keys :
            <<a, k>> # <<row.actor, row.key>> => bulkKey'[a][k] = bulkKey[a][k]
    BY <1>2, <1>3 DEF IInv, TypeOK
<1>8. TypeOK'
  <2>1. delivery' \in [Items -> DeliveryStatus \cup {NULL}]
      BY <1>2 DEF IInv, TypeOK, DeliveryStatus
  <2>2. deliveryTrail' \in [Items -> Seq((DeliveryStatus \cup {NULL}) \X DeliveryStatus)]
      BY <1>2, <1>6
  <2>3. bulkKey' \in [Staff -> [Keys -> BulkRow \cup {NULL}]]
      BY <1>2, <1>3 DEF IInv, TypeOK
  <2> QED
      BY <1>2, <2>1, <2>2, <2>3, RespondFrees DEF IInv, TypeOK
<1>9. TrailsAreTrue'
    BY <1>2, <1>6 DEF IInv, TrailsAreTrue
<1>10. ServedIsReady'
    BY <1>2, <1>3, <1>5 DEF IInv, ServedIsReady
<1>11. BulksAreWhole'
  <2>1. \A a \in Staff, k \in Keys : bulkKey[a][k] # NULL =>
           /\ <<a, k>> # <<row.actor, row.key>>
           /\ bulkKey[a][k].items \subseteq Items
           /\ \A i \in bulkKey[a][k].items :
                 delivery[i] = "delivered" /\ TableOf[i] = bulkKey[a][k].table
      BY <1>3 DEF IInv, TypeOK, BulkRow, BulksAreWhole
  <2>2. \A a \in Staff, k \in Keys : bulkKey[a][k] # NULL => bulkKey[a][k].items \cap mine = {}
      BY <1>4, <2>1, NullIsFresh DEF DeliveryStatus
  <2>3. new.items = mine /\ new.table = row.table
      BY <1>3 DEF new
  <2> SUFFICES ASSUME NEW a \in Staff, NEW b \in Staff, NEW k \in Keys, NEW l \in Keys,
                      bulkKey'[a][k] # NULL
               PROVE  /\ \A i \in bulkKey'[a][k].items :
                            delivery'[i] = "delivered" /\ TableOf[i] = bulkKey'[a][k].table
                      /\ bulkKey'[b][l] # NULL /\ <<a, k>> # <<b, l>> =>
                            bulkKey'[a][k].items \cap bulkKey'[b][l].items = {}
      BY DEF BulksAreWhole
  <2>4. CASE <<a, k>> = <<row.actor, row.key>>
    <3>1. bulkKey'[a][k].items = mine /\ bulkKey'[a][k].table = row.table
        BY <1>7, <2>3, <2>4
    <3>2. \A i \in mine : delivery'[i] = "delivered" /\ TableOf[i] = row.table
        BY <1>3, <1>5
    <3>3. ASSUME bulkKey'[b][l] # NULL, <<a, k>> # <<b, l>>
          PROVE  mine \cap bulkKey'[b][l].items = {}
        BY <1>7, <2>2, <2>4, <3>3
    <3> QED
        BY <3>1, <3>2, <3>3
  <2>5. CASE <<a, k>> # <<row.actor, row.key>>
    <3>1. bulkKey'[a][k] = bulkKey[a][k] /\ bulkKey[a][k] # NULL
        BY <1>7, <2>5
    <3>2. \A i \in bulkKey[a][k].items : delivery'[i] = "delivered" /\ TableOf[i] = bulkKey[a][k].table
        BY <1>5, <2>1, <3>1
    <3>3. ASSUME bulkKey'[b][l] # NULL, <<a, k>> # <<b, l>>
          PROVE  bulkKey[a][k].items \cap bulkKey'[b][l].items = {}
      <4>1. CASE <<b, l>> = <<row.actor, row.key>>
          BY <1>7, <2>2, <2>3, <3>1, <4>1
      <4>2. CASE <<b, l>> # <<row.actor, row.key>>
          BY <1>7, <3>1, <3>3, <4>2 DEF IInv, BulksAreWhole
      <4> QED
          BY <4>1, <4>2
    <3> QED
        BY <3>1, <3>2, <3>3
  <2> QED
      BY <2>4, <2>5
<1>12. RequestsKnow'
  <2> SUFFICES ASSUME NEW x \in Requests PROVE Knows(work[x])'
      BY DEF RequestsKnow
  <2>1. CASE x = r
      BY <1>2, <2>1, RespondFrees, NoWorkIsARow DEF Knows, Keyed, Loaded
  <2>2. CASE x # r
    <3>1. work'[x] = work[x] /\ Knows(work[x]) /\ work[x] \in WorkRow
        BY <1>2, <2>2, RespondFrees DEF IInv, TypeOK, RequestsKnow
    <3>2. \A w \in work[x].done : w.item \in Items /\ w.item \notin mine
        BY <2>2, <3>1 DEF IInv, LocksExclude, Locked, WorkRow, mine
    <3>3. \A w \in work[x].done : delivery'[w.item] = delivery[w.item]
        BY <1>5, <3>2
    <3>4. work[x].pc \in Keyed => <<work[x].actor, work[x].key>> # <<row.actor, row.key>>
        BY <1>1, <2>2 DEF IInv, LocksExclude, row
    <3>5. work[x].pc \in Keyed => bulkKey'[work[x].actor][work[x].key] = NULL
        BY <1>7, <3>1, <3>4 DEF Knows
    <3> QED
        BY <1>2, <3>1, <3>3, <3>5 DEF Knows
  <2> QED
      BY <2>1, <2>2
<1> QED
    BY <1>2, <1>8, <1>9, <1>10, <1>11, <1>12, RespondFrees DEF IInv

-----------------------------------------------------------------------------
\* Every step, and every stutter, preserves the inductive invariant.
THEOREM NextIInv == IInv /\ [Next]_fulfillmentVars => IInv'
<1> SUFFICES ASSUME IInv, [Next]_fulfillmentVars PROVE IInv'
    OBVIOUS
<1>1. CASE UNCHANGED fulfillmentVars
  <2>1. UNCHANGED <<prep, prepTrail, delivery, deliveryTrail, bulkKey, work>>
      BY <1>1 DEF fulfillmentVars
  <2>2. TypeOK' /\ ServedIsReady' /\ BulksAreWhole'
      BY <2>1 DEF IInv, TypeOK, ServedIsReady, BulksAreWhole
  <2>3. TrailsAreTrue'
      BY <2>1 DEF IInv, TrailsAreTrue, LeadsFromTo
  <2>4. RequestsKnow'
      BY <2>1 DEF IInv, RequestsKnow, Knows
  <2>5. LocksExclude'
      BY <2>1 DEF IInv, LocksExclude, Locked
  <2> QED
      BY <2>2, <2>3, <2>4, <2>5 DEF IInv
<1>2. CASE Next
  <2>1. PICK r \in Requests : Begin(r) \/ Wait(r) \/ Proceed(r) \/ Vanish(r)
      BY <1>2 DEF Next
  <2>2. CASE Begin(r)
      BY <2>2, BeginPreparationStep, BeginMarkStep, BeginBulkStep DEF Begin
  <2>3. CASE Wait(r)
      BY <2>3, WriteMarkStep, ReserveKeyStep, WriteNextStep DEF Wait
  <2>4. CASE Proceed(r)
      BY <2>4, CommitPreparationStep, ReadMarkStep, LoadItemsStep, ReadNextStep, CommitBulkStep
         DEF Proceed
  <2>5. CASE Vanish(r)
      BY <2>5, VanishStep
  <2> QED
      BY <2>1, <2>2, <2>3, <2>4, <2>5
<1> QED
    BY <1>1, <1>2

THEOREM SpecIInv == Spec => []IInv
<1>1. Init => IInv
    BY InitIInv
<1>2. IInv /\ [Next]_fulfillmentVars => IInv'
    BY NextIInv
<1> QED
    BY <1>1, <1>2, PTL DEF Spec

-----------------------------------------------------------------------------
(***************************************************************************)
(* What follows from the invariant                                         *)
(***************************************************************************)

(***************************************************************************)
(* Every behaviour keeps the rows in their tables and the requests at      *)
(* known statements.                                                       *)
(***************************************************************************)
THEOREM TypeCorrect == Spec => []TypeOK
<1>1. IInv => TypeOK
    BY DEF IInv
<1> QED
    BY <1>1, SpecIInv, PTL

(***************************************************************************)
(* The transition rows of every item, of its preparation and its delivery, *)
(* lead without a gap from nothing to its status.                          *)
(***************************************************************************)
THEOREM TrailsStayTrue == Spec => []TrailsAreTrue
<1>1. IInv => TrailsAreTrue
    BY DEF IInv
<1> QED
    BY <1>1, SpecIInv, PTL

(***************************************************************************)
(* Whatever the stations do, what is picked up or delivered is ready, and  *)
(* so is every item a delivery under way has found ready.                  *)
(***************************************************************************)
THEOREM DeliveriesStayReady == Spec => []DeliveriesAreReady
<1>1. IInv => DeliveriesAreReady
  <2> SUFFICES ASSUME IInv PROVE DeliveriesAreReady
      OBVIOUS
  <2>1. \A r \in Requests : Knows(work[r])
      BY DEF IInv, RequestsKnow
  <2> QED
      BY <2>1 DEF IInv, ServedIsReady, DeliveriesAreReady, Knows, Loaded
<1> QED
    BY <1>1, SpecIInv, PTL

(***************************************************************************)
(* A completed bulk delivery has delivered every item it lists, at its     *)
(* table, and shares none with another one.                                *)
(***************************************************************************)
THEOREM BulksStayWhole == Spec => []BulksAreWhole
<1>1. IInv => BulksAreWhole
    BY DEF IInv
<1> QED
    BY <1>1, SpecIInv, PTL

(***************************************************************************)
(* No circle of transactions wait for each other. A transaction that is    *)
(* waited for and waits itself is a bulk delivery at an item it has yet to *)
(* write, which comes after the items it has written. Along the circle     *)
(* these items would grow for ever, and there are finitely many requests.  *)
(***************************************************************************)
THEOREM NobodyDeadlocks == Spec => []SomeoneIsFree
<1>1. ASSUME IInv, NEW r \in Requests, NEW q \in Requests, NEW p \in Requests,
             WaitsFor(r, q), WaitsFor(q, p)
      PROVE  work[q].pc = "deliver"
  <2>1. Knows(work[q])
      BY <1>1 DEF IInv, RequestsKnow
  <2>2. work[q].done # {} \/ work[q].pc \in Keyed
      BY <1>1 DEF WaitsFor, Locked, Reserved, Keyed
  <2>3. work[q].pc \in {"write", "deliver", "reserve"}
      BY <1>1 DEF WaitsFor
  <2> QED
      BY <2>1, <2>2, <2>3 DEF Knows, Keyed, Loaded
<1>2. ASSUME IInv, NEW r \in Requests, NEW q \in Requests, WaitsFor(r, q),
             work[r].pc = "deliver", work[q].pc = "deliver"
      PROVE  /\ work[r].item \in Int
             /\ work[q].item \in Int
             /\ work[r].item < work[q].item
  <2>1. Knows(work[r]) /\ Knows(work[q]) /\ work[r] \in WorkRow /\ work[q] \in WorkRow
      BY <1>2 DEF IInv, TypeOK, RequestsKnow
  <2>2. work[r].item \in Locked(q)
      BY <1>2 DEF WaitsFor
  <2>3. work[r].item \in work[r].todo /\ work[q].item \in work[q].todo
      BY <1>2, <2>1 DEF Knows
  <2>4. work[r].item \in Items /\ work[q].item \in Items
      BY <2>1, <2>3 DEF WorkRow
  <2>5. \A w \in work[q].done : w.item < work[q].item
      BY <1>2, <2>1, <2>3 DEF Knows, Loaded
  <2> QED
      BY <2>2, <2>4, <2>5, FulfillmentAssumption DEF FulfillmentAssumption, Locked
<1>3. IInv => SomeoneIsFree
  <2> SUFFICES ASSUME IInv,
                      NEW circle \in (SUBSET Requests) \ {{}},
                      \A r \in circle : \E q \in circle : WaitsFor(r, q)
               PROVE  FALSE
      BY DEF SomeoneIsFree
  <2> DEFINE turning == {q \in circle : work[q].pc = "deliver"}
             Beyond(r) == {q \in turning : work[r].item < work[q].item}
             All == {Beyond(r) : r \in turning}
  <2>1. \A r \in circle : \E q \in turning : WaitsFor(r, q)
    <3> SUFFICES ASSUME NEW r \in circle PROVE \E q \in turning : WaitsFor(r, q)
        OBVIOUS
    <3>1. PICK q \in circle : WaitsFor(r, q)
        OBVIOUS
    <3>2. PICK p \in circle : WaitsFor(q, p)
        OBVIOUS
    <3>3. work[q].pc = "deliver"
        BY <1>1, <3>1, <3>2
    <3> QED
        BY <3>1, <3>3
  <2>2. \A r \in turning : \E q \in turning : Beyond(q) \subseteq Beyond(r) /\ Beyond(q) # Beyond(r)
    <3> SUFFICES ASSUME NEW r \in turning
                 PROVE  \E q \in turning : Beyond(q) \subseteq Beyond(r) /\ Beyond(q) # Beyond(r)
        OBVIOUS
    <3>1. PICK q \in turning : WaitsFor(r, q)
        BY <2>1
    <3>2. work[r].item \in Int /\ work[q].item \in Int /\ work[r].item < work[q].item
        BY <1>2, <3>1
    <3>3. \A p \in turning : work[p].item \in Int
      <4> SUFFICES ASSUME NEW p \in turning PROVE work[p].item \in Int
          OBVIOUS
      <4>1. PICK o \in turning : WaitsFor(p, o)
          BY <2>1
      <4> QED
          BY <1>2, <4>1
    <3>4. q \in Beyond(r) /\ q \notin Beyond(q)
        BY <3>2
    <3>5. Beyond(q) \subseteq Beyond(r)
        BY <3>2, <3>3
    <3> QED
        BY <3>4, <3>5
  <2>3. turning # {}
      BY <2>1
  <2>4. \A r \in turning : Beyond(r) \in FiniteSubsetsOf(Requests)
    <3>1. \A r \in turning : Beyond(r) \subseteq Requests
        OBVIOUS
    <3>2. \A r \in turning : IsFiniteSet(Beyond(r))
        BY <3>1, FS_Subset, FulfillmentAssumption DEF FulfillmentAssumption
    <3> HIDE DEF Beyond, turning
    <3> QED
        BY <3>1, <3>2 DEF FiniteSubsetsOf
  <2> HIDE DEF Beyond, turning
  <2>5. \A x \in All : \E y \in All : <<y, x>> \in StrictSubsetOrdering(Requests)
    <3> SUFFICES ASSUME NEW r \in turning
                 PROVE  \E y \in All : <<y, Beyond(r)>> \in StrictSubsetOrdering(Requests)
        OBVIOUS
    <3>1. PICK q \in turning : Beyond(q) \subseteq Beyond(r) /\ Beyond(q) # Beyond(r)
        BY <2>2
    <3>2. Beyond(q) \in All /\ Beyond(r) \in All
        OBVIOUS
    <3>3. Beyond(q) \in SUBSET Requests /\ Beyond(r) \in SUBSET Requests
        BY <2>4 DEF FiniteSubsetsOf
    <3>4. <<Beyond(q), Beyond(r)>> \in StrictSubsetOrdering(Requests)
        BY <3>1, <3>3 DEF StrictSubsetOrdering
    <3> QED
        BY <3>2, <3>4
  <2>6. All # {} /\ All \subseteq FiniteSubsetsOf(Requests)
      BY <2>3, <2>4
  <2> HIDE DEF All
  <2>7. IsWellFoundedOn(StrictSubsetOrdering(Requests), FiniteSubsetsOf(Requests))
      BY FS_StrictSubsetOrderingWellFounded
  <2>8. \E x \in All : \A y \in All : ~ (<<y, x>> \in StrictSubsetOrdering(Requests))
      BY <2>6, <2>7, WFMin
  <2> QED
      BY <2>5, <2>8
<1> QED
    BY <1>3, SpecIInv, PTL

-----------------------------------------------------------------------------
(***************************************************************************)
(* Steps                                                                   *)
(***************************************************************************)

\* The three steps that commit, and the others, which change no row.
Commits(r) == CommitPreparation(r) \/ WriteMark(r) \/ CommitBulk(r)

LEMMA OthersAreQuiet ==
    ASSUME NEW r \in Requests, Begin(r) \/ Wait(r) \/ Proceed(r) \/ Vanish(r), ~ Commits(r)
    PROVE  UNCHANGED <<kitchen, floor>>
<1>1. CASE Begin(r)
  <2>1. ASSUME NEW i \in Items, NEW to, BeginPreparation(r, i, to) PROVE UNCHANGED <<kitchen, floor>>
      BY <2>1 DEF BeginPreparation, Refuse
  <2>2. ASSUME NEW i \in Items, NEW to, BeginMark(r, i, to) PROVE UNCHANGED <<kitchen, floor>>
      BY <2>2 DEF BeginMark, Refuse
  <2>3. ASSUME NEW a \in Staff, NEW k \in Keys, NEW t \in Tables, NEW chosen,
               BeginBulk(r, a, k, t, chosen)
        PROVE  UNCHANGED <<kitchen, floor>>
      BY <2>3 DEF BeginBulk, Refuse
  <2> QED
      BY <1>1, <2>1, <2>2, <2>3 DEF Begin
<1>2. CASE ReserveKey(r)
    BY <1>2 DEF ReserveKey, Refuse
<1>3. CASE WriteNext(r)
    BY <1>3 DEF WriteNext, Refuse
<1>4. CASE ReadMark(r)
    BY <1>4 DEF ReadMark, Refuse
<1>5. CASE LoadItems(r)
    BY <1>5 DEF LoadItems, Refuse
<1>6. CASE ReadNext(r)
    BY <1>6 DEF ReadNext, Refuse
<1>7. CASE Vanish(r)
    BY <1>7 DEF Vanish
<1> QED
    BY <1>1, <1>2, <1>3, <1>4, <1>5, <1>6, <1>7 DEF Wait, Proceed, Commits

\* What the commit of a bulk delivery does to the rows of the floor.
LEMMA CommitBulkWrites ==
    ASSUME IInv, NEW r \in Requests, CommitBulk(r)
    PROVE  /\ work[r].items \in (SUBSET Items) \ {{}}
           /\ work[r].table \in Tables
           /\ \A i \in work[r].items : /\ TableOf[i] = work[r].table
                                      /\ prep[i] = "ready"
                                      /\ delivery[i] \in {NULL, "picked_up"}
           /\ delivery' = [i \in Items |-> IF i \in work[r].items THEN "delivered" ELSE delivery[i]]
           /\ bulkKey[work[r].actor][work[r].key] = NULL
           /\ bulkKey'[work[r].actor][work[r].key] # NULL
           /\ prep' = prep
<1> DEFINE row == work[r]
           new == [table |-> row.table, items |-> row.items]
<1>1. /\ row \in WorkRow /\ Knows(row) /\ row.pc = "complete"
      /\ row.pc \in Keyed /\ row.pc \in Loaded
    BY DEF IInv, TypeOK, RequestsKnow, CommitBulk, Keyed, Loaded
<1>2. row.items = Locked(r)
  <2>1. row.todo = {} /\ row.items = row.todo \cup {w.item : w \in row.done}
      BY <1>1 DEF Knows
  <2> QED
      BY <2>1 DEF Locked
<1>3. /\ row.items \in (SUBSET Items) \ {{}}
      /\ row.table \in Tables /\ row.actor \in Staff /\ row.key \in Keys
      /\ \A i \in row.items : TableOf[i] = row.table /\ prep[i] = "ready"
      /\ bulkKey[row.actor][row.key] = NULL
      /\ new \in BulkRow
    BY <1>1 DEF Knows, WorkRow, BulkRow
<1>4. \A i \in row.items : delivery[i] \in {NULL, "picked_up"}
  <2>1. \A w \in row.done : delivery[w.item] # "delivered"
      BY <1>1 DEF Knows
  <2>2. \A i \in Locked(r) : delivery[i] # "delivered"
      BY <2>1 DEF Locked
  <2> QED
      BY <1>2, <1>3, <2>2 DEF IInv, TypeOK, DeliveryStatus
<1>5. /\ delivery' = [i \in Items |-> IF i \in Locked(r) THEN "delivered" ELSE delivery[i]]
      /\ bulkKey' = [bulkKey EXCEPT ![row.actor][row.key] = new]
      /\ prep' = prep
    BY DEF CommitBulk, kitchen
<1>6. bulkKey'[row.actor][row.key] = new
    BY <1>3, <1>5 DEF IInv, TypeOK
<1> QED
    BY <1>2, <1>3, <1>4, <1>5, <1>6, NullIsFresh

(***************************************************************************)
(* No step delivers a part of what a bulk delivery has to deliver.         *)
(***************************************************************************)
THEOREM NothingIsDeliveredInPart == Spec => NoPartialDelivery
<1> DEFINE Whole(q) ==
        work[q].items # {} /\ work'[q] # work[q] =>
           \/ UNCHANGED floor
           \/ /\ \A i \in work[q].items : delivery[i] # "delivered" /\ delivery'[i] = "delivered"
              /\ bulkKey'[work[q].actor][work[q].key] # bulkKey[work[q].actor][work[q].key]
<1>1. ASSUME IInv, Next, NEW q \in Requests PROVE Whole(q)
  <2>1. PICK r \in Requests : Begin(r) \/ Wait(r) \/ Proceed(r) \/ Vanish(r)
      BY <1>1 DEF Next
  <2>2. CASE ~ Commits(r)
      BY <2>1, <2>2, OthersAreQuiet
  <2>3. CASE CommitPreparation(r)
      BY <2>3 DEF CommitPreparation, Refuse
  <2>4. CASE WriteMark(r)
    <3>1. work[r].items = {}
        BY <1>1, <2>4 DEF WriteMark, IInv, RequestsKnow, Knows, Keyed
    <3>2. q # r => work'[q] = work[q]
        BY <1>1, <2>4 DEF WriteMark, Respond, Refuse, IInv, TypeOK
    <3> QED
        BY <3>1, <3>2
  <2>5. CASE CommitBulk(r)
    <3>1. q # r => work'[q] = work[q]
        BY <1>1, <2>5 DEF CommitBulk, Respond, IInv, TypeOK
    <3>2. ASSUME NEW i \in work[r].items
          PROVE  delivery[i] # "delivered" /\ delivery'[i] = "delivered"
        BY <1>1, <2>5, CommitBulkWrites, NullIsFresh DEF DeliveryStatus
    <3>3. bulkKey'[work[r].actor][work[r].key] # bulkKey[work[r].actor][work[r].key]
        BY <1>1, <2>5, CommitBulkWrites
    <3> QED
        BY <3>1, <3>2, <3>3
  <2> QED
      BY <2>2, <2>3, <2>4, <2>5 DEF Commits
<1>2. IInv /\ [Next]_fulfillmentVars =>
         [\A r \in Requests :
             work[r].items # {} /\ work'[r] # work[r] =>
                \/ UNCHANGED floor
                \/ /\ \A i \in work[r].items : delivery[i] # "delivered" /\ delivery'[i] = "delivered"
                   /\ bulkKey'[work[r].actor][work[r].key] # bulkKey[work[r].actor][work[r].key]
         ]_fulfillmentVars
    BY <1>1
<1> QED
    BY <1>2, SpecIInv, PTL DEF Spec, NoPartialDelivery

-----------------------------------------------------------------------------
(***************************************************************************)
(* Fulfillment implements Service. Only a commit is a step of the service: *)
(* of one item when a station or a single mark commits, of the items of a  *)
(* bulk delivery when that one does.                                       *)
(***************************************************************************)
Mapped == [i \in Items |-> StageOf(i)]

LEMMA ServiceInits == Init => TheService!ServiceInit
BY DEF Init, TheService!ServiceInit, StageOf

LEMMA PreparationAdvances ==
    ASSUME IInv, NEW r \in Requests, CommitPreparation(r)
    PROVE  [TheService!ServiceNext]_Mapped
<1> DEFINE i == work[r].item
           to == work[r].to
           seen == work[r].seen
<1>1. CASE Refuse(r, "invalid_preparation_transition")
    BY <1>1 DEF Refuse, kitchen, floor, Mapped, StageOf
<1>2. CASE ~ Refuse(r, "invalid_preparation_transition")
  <2>1. /\ work[r].pc = "prepare"
        /\ prep[i] = seen
        /\ prep' = [prep EXCEPT ![i] = to]
        /\ delivery' = delivery
      BY <1>2 DEF CommitPreparation, floor
  <2>2. /\ i \in Items
        /\ to \in {"preparing", "ready", "cannot_prepare"}
        /\ seen \in AllowedFrom(to)
      BY <2>1 DEF IInv, RequestsKnow, Knows
  <2> HIDE DEF i, to, seen
  <2>3. seen \in {"pending", "preparing"} /\ to \in TheService!After(seen)
      BY <2>2 DEF AllowedFrom, TheService!After
  <2>4. delivery[i] = NULL
      BY <2>1, <2>2, <2>3 DEF IInv, ServedIsReady
  <2>5. Mapped[i] = seen
      BY <2>1, <2>2, <2>4 DEF Mapped, StageOf
  <2>6. Mapped' = [Mapped EXCEPT ![i] = to]
    <3>1. \A j \in Items : Mapped'[j] = IF j = i THEN to ELSE Mapped[j]
        BY <2>1, <2>2, <2>4 DEF Mapped, StageOf, IInv, TypeOK
    <3> QED
        BY <3>1 DEF Mapped
  <2>7. TheService!Advance(i)
      BY <2>3, <2>5, <2>6 DEF TheService!Advance, Mapped
  <2> QED
      BY <2>2, <2>7 DEF TheService!ServiceNext
<1> QED
    BY <1>1, <1>2

LEMMA MarkAdvances ==
    ASSUME IInv, NEW r \in Requests, WriteMark(r)
    PROVE  [TheService!ServiceNext]_Mapped
<1> DEFINE i == work[r].item
           to == work[r].to
           seen == work[r].seen
<1>1. CASE Refuse(r, OutrunCode(work[r]))
    BY <1>1 DEF Refuse, kitchen, floor, Mapped, StageOf
<1>2. CASE ~ Refuse(r, OutrunCode(work[r]))
  <2>1. /\ work[r].pc = "write"
        /\ delivery[i] = seen
        /\ delivery' = [delivery EXCEPT ![i] = to]
        /\ prep' = prep
      BY <1>2 DEF WriteMark, Outrun, kitchen
  <2>2. /\ i \in Items /\ prep[i] = "ready"
        /\ to \in DeliveryStatus /\ seen # to /\ seen \in {NULL, "picked_up"}
      BY <2>1 DEF IInv, RequestsKnow, Knows
  <2> HIDE DEF i, to, seen
  <2>3. to # NULL
      BY <2>2, NullIsFresh
  <2>4. Mapped[i] = IF seen = NULL THEN "ready" ELSE "picked_up"
      BY <2>1, <2>2 DEF Mapped, StageOf
  <2>5. to \in TheService!After(Mapped[i])
      BY <2>2, <2>4 DEF TheService!After, DeliveryStatus
  <2>6. Mapped' = [Mapped EXCEPT ![i] = to]
    <3>1. \A j \in Items : Mapped'[j] = IF j = i THEN to ELSE Mapped[j]
        BY <2>1, <2>2, <2>3 DEF Mapped, StageOf, IInv, TypeOK
    <3> QED
        BY <3>1 DEF Mapped
  <2>7. TheService!Advance(i)
      BY <2>5, <2>6 DEF TheService!Advance, Mapped
  <2> QED
      BY <2>2, <2>7 DEF TheService!ServiceNext
<1> QED
    BY <1>1, <1>2

LEMMA BulkDeliversTogether ==
    ASSUME IInv, NEW r \in Requests, CommitBulk(r)
    PROVE  [TheService!ServiceNext]_Mapped
<1> DEFINE some == work[r].items
           t == work[r].table
<1>1. /\ some \in (SUBSET Items) \ {{}}
      /\ t \in Tables
      /\ \A i \in some : /\ TableOf[i] = t
                         /\ prep[i] = "ready"
                         /\ delivery[i] \in {NULL, "picked_up"}
      /\ delivery' = [i \in Items |-> IF i \in some THEN "delivered" ELSE delivery[i]]
      /\ prep' = prep
    BY CommitBulkWrites
<1> HIDE DEF some, t
<1>2. ASSUME NEW i \in some PROVE TableOf[i] = t /\ "delivered" \in TheService!After(Mapped[i])
  <2>1. Mapped[i] \in {"ready", "picked_up"}
      BY <1>1 DEF Mapped, StageOf
  <2> QED
      BY <1>1, <2>1 DEF TheService!After
<1>3. Mapped' = [i \in Items |-> IF i \in some THEN "delivered" ELSE Mapped[i]]
  <2>1. "delivered" # NULL
      BY NullIsFresh DEF DeliveryStatus
  <2> QED
      BY <1>1, <2>1 DEF Mapped, StageOf
<1>4. TheService!DeliverTogether(t, some)
    BY <1>2, <1>3 DEF TheService!DeliverTogether, Mapped
<1> QED
    BY <1>1, <1>4 DEF TheService!ServiceNext

LEMMA ServiceSteps == IInv /\ [Next]_fulfillmentVars => [TheService!ServiceNext]_Mapped
<1> SUFFICES ASSUME IInv, [Next]_fulfillmentVars PROVE [TheService!ServiceNext]_Mapped
    OBVIOUS
<1>1. CASE UNCHANGED fulfillmentVars
    BY <1>1 DEF fulfillmentVars, Mapped, StageOf
<1>2. CASE Next
  <2>1. PICK r \in Requests : Begin(r) \/ Wait(r) \/ Proceed(r) \/ Vanish(r)
      BY <1>2 DEF Next
  <2>2. CASE ~ Commits(r)
    <3>1. UNCHANGED <<prep, delivery>>
        BY <2>1, <2>2, OthersAreQuiet DEF kitchen, floor
    <3> QED
        BY <3>1 DEF Mapped, StageOf
  <2>3. CASE Commits(r)
      BY <2>3, PreparationAdvances, MarkAdvances, BulkDeliversTogether DEF Commits
  <2> QED
      BY <2>2, <2>3
<1> QED
    BY <1>1, <1>2

\* Every behaviour of fulfillment is, seen through the mapping, one of the service.
THEOREM FulfillmentImplementsService == Spec => ImplementsService
<1>1. Init => TheService!ServiceInit
    BY ServiceInits
<1>2. IInv /\ [Next]_fulfillmentVars => [TheService!ServiceNext]_Mapped
    BY ServiceSteps
<1> QED
    BY <1>1, <1>2, SpecIInv, PTL DEF Spec, ImplementsService, TheService!ServiceSpec, Mapped
=============================================================================
