# A TLA+ verification of IoTables

IoTables is a QR ordering system for cafés: a FastAPI application over PostgreSQL
(SQLAlchemy, READ COMMITTED, one `AsyncSession` per request), multi-tenant, with a
browser client and an ESP32 display at each table. This project models the server's
commands, the firmware of the display and the cashier's screen as TLA+ modules, checks
them with TLC on small instances and proves theorems about them with TLAPS for every
instance. Paths below are relative to the
repository; `…/modules` stands for `src/iotables/modules`.

Why models, and not only tests: the repository's tests call the services one request at
a time, against fakes. Nothing in the runtime commands takes an explicit row lock
(`with_for_update` occurs only in `platform/provisioning.py`), so what these commands
promise rests on the order of SELECTs, on the WHERE clauses of UPDATEs and on unique
constraints, in interleavings no test runs.

## 1. The system

| Component | State it keeps | Operations that change it | Hard behaviour | What makes it correct |
| --- | --- | --- | --- | --- |
| Customer ordering (`…/modules/ordering/customer_ordering.py`) | carts and their items, orders, order items, submit keys; opens table sessions and checks | get_cart (may create one), add_or_update_cart_item, remove_cart_item, submit_order | first orders racing at a table; submit racing with submit, with a put and with the close of the table; repeated submits | one open session per table, no empty sessions, one active cart, one order per key; only requests that held a cart before its submit change it afterwards |
| Table presence (`…/ordering/table_presence.py`) | QR tokens, customer sessions with a presence and an expiry | issue_current_qr_token, issue_virtual_table_qr_preview, redeem_token | two phones with one code; a redeem refused after it consumed the code; time passing during a request | a code admits one guest once; presence comes from a code |
| Table display provisioning (`…/tenant_setup/table_display_provisioning.py`) | display credentials, firmware packages | generate_firmware | two generations at once, one failing half way | exactly one working credential per display |
| Payments (`…/settlement/payments.py`) | payments, corrections, payment and void keys | record_payment, void_payment | balance read without a lock; repeated commands; two voids | a key buys one payment; voids leave a trail; overpayments and second corrections come from races alone |
| Table session billing (`…/settlement/table_session_billing.py`) | session, check, closure | close_session | two closes; close racing with orders and payments | a close is whole and happens once; only requests under way at the close change a closed bill |
| Preparation (`…/fulfillment/preparation.py`) | status and trail of preparation items | start_preparing, mark_ready, report_cannot_prepare | two people moving one item | the trail tells how the status came about |
| Service delivery (`…/fulfillment/service_delivery.py`) | delivery states and trail, bulk keys | mark_picked_up, mark_delivered, bulk_mark_delivered | bulk deliveries sharing items, with row locks held across statements; repeats | deliver once, only what is ready; bulk is all or nothing; no deadlock |
| Identity and sessions, one-time passwords, staff access (`…/access/*.py`, `security/session.py`) | users, credentials, staff profiles and roles, setup tokens, OTP challenges and attempts, login sessions | login, first password (two steps), create_platform_owner, TOTP enrolment, logout; create_staff, disable_staff | nothing is locked: a user is disabled, or completes the setup a second time, after a request has read the row; attempts counted under a snapshot | nobody enters without a password of their own or in a role they do not hold; who is removed stays removed; only a race takes the last administrator from a tenant |
| Venue layout (`…/tenant_setup/venue_layout.py`) | halls, tables | create, update and disable of halls and tables | rows written back after others changed them; halls reordered; disabling while a session opens | a hall has a whole block of numbers to itself; boundary slots stay virtual; disabled tables are empty |
| Stations (`…/tenant_setup/station_setup.py`) | stations | create_station, update_station, disable_station | disabling while a product is routed there or an order arrives | enabled products are routed to enabled stations |
| Menu catalog (`…/tenant_setup/menu_catalog.py`) | categories, products, variants, modifiers, availability | create, update and disable of products and categories, manage_variant, manage_modifiers, set_availability | changes of several variants of one product at once; a write that is judged after it was made | a product has one default variant, which is enabled |
| Platform provisioning, templates (`…/platform/*.py`) | tenants, their numbers and status, health, lifecycle events, creation keys | start_tenant, update_profile, change_status, retry_failed, mark_recovery_needed | repeated and racing creations; numbers changing hands; status changes racing | a key buys one whole tenant; names and numbers are not shared; the events lead to the status |
| Governance audit (`…/governance/audit.py`) | (reads audit rows that the commands write) | none | – | – |
| HTTP API, middleware, security (`src/iotables/api`, `security`) | none | handlers parse, hash the body, call one service | – | – |
| Table display firmware (`firmware/table-display/masa000.ino`) | the code on the screen, the instant of the next refresh, WiFi | setup, loop with connectWifi and fetchQrPayload | `millis()` starts again from 0; outages, slow or failing fetches, power cuts | a code leaves the screen in time; no guest waits longer than to the next refresh |
| Frontend (`frontend/src/App.tsx`): the cashier's screen | board, selected table, bill, dialogs, state of the command under way | loads of board and detail, recordPayment, voidPayment, closeSession | answers in any order, lost answers, presses while something is under way | a payment is recorded once; the bill shown is the selected table's; the buttons come back |
| Frontend: login and the other apps | browser state | issue requests | repeats | – |

How they interact. All communication is through rows. `table_sessions` and `checks` are
opened by submit_order and closed by close_session; payments and the bill read both, and
the bill is the sum of order items. A submit needs a customer session that redeem_token
has made fresh. A submitted order leaves one preparation item per order item; delivery
reads its status. The display polls for codes with the credential its firmware was generated
with; the cashier's screen calls the board, the bill, payments and the close. There are no callbacks, queues or background workers: the outbox and
external effect tables exist in the schema, and no code in `src/iotables` writes them.
A request that is cut off rolls back, since `get_database_session`
(`database/session.py`) closes the session without committing.

## 2. The modules

| Module | Role |
| --- | --- |
| `Settlement` | payments and close of a bill, statement by statement |
| `Ledger` | abstract: what settlement promises; implemented by `Settlement` |
| `SettlementProofs` | theorems about `Settlement`, and about sums of payments |
| `Ordering` | carts and submits, statement by statement |
| `Seating` | abstract: what ordering promises of tables; implemented by `Ordering` and by `TableService` |
| `TableService` | extends `Ordering` with an instance of `Settlement` (`Till`) over the same sessions and checks; the bill is the sum of the orders |
| `OrderingProofs` | theorems about `Ordering` and `TableService` |
| `Fulfillment` | preparation and delivery, with row locks |
| `Service` | abstract: the stages of an item; implemented by `Fulfillment` |
| `FulfillmentProofs` | theorems about `Fulfillment` |
| `Presence` | display credentials, codes, redeeming, with a clock and row locks |
| `Admission` | abstract: codes and guests; implemented by `Presence` |
| `VenueLayout` | halls and tables, with requests that write what they read before |
| `Allocation` | abstract: blocks of table numbers and their halls; implemented by `VenueLayout` |
| `VenueLayoutProofs` | theorems about `VenueLayout` |
| `Provisioning` | creation keys, tenants and their lifecycle, with the row locks the code takes |
| `ProvisioningProofs` | theorems about `Provisioning` |
| `Menu` | stations, products, variants, modifiers, and the orders that reach a station |
| `MenuProofs` | theorems about `Menu` |
| `Access` | staff, first passwords with their codes, login sessions, the owner of the platform |
| `Membership` | abstract: who belongs to a tenant and who has entered; implemented by `Access` |
| `AccessProofs` | theorems about `Access` |
| `TableDisplay` | the loop of the display's firmware on a clock that wraps around |
| `CashierScreen` | the cashier's screen with its calls, above a server that commits in one step |
| `PresenceProofs` | theorems about `Presence`, `TableDisplay` and `CashierScreen` |
| `MC…` and `*.cfg` | instances for TLC |

**How a request is modelled.** READ COMMITTED gives each statement a view of what is
committed when it starts. A request is therefore a process (`req` in `Settlement`, `work`
elsewhere): each SELECT whose result the request acts on later is a step, `pc` names the
next statement, and the row keeps what was read. `Continue` moves a request on, `Refuse`
and `Respond` end it. A transaction whose first write is directly followed by its other
writes and the COMMIT is one step from that write on: nobody sees the writes before the
commit, and a rival that would block on one of them ends up as if it had come after. Its
guards are the WHERE clauses and unique constraints; the losing disjunct is the code's
error path. Where a transaction goes on reading after a write (a bulk delivery, redeem,
generate_firmware) the write is kept in the request's row, uncommitted, and whoever
writes the same row or key waits (`Free`, `Reserved`, `HoldsToken`, `HoldsCredential`).
`generate_firmware`'s UPDATE is two steps, because it looks for active credentials in
the snapshot it starts with and looks at each row again when it gets its lock. `Vanish`
is a client that disconnects or a server that stops, at any statement.

`TableService` interleaves the customers' steps of `Ordering` with the cashiers' of `Till`. Its
state has no total: what a session owes is computed from the orders, as `_total_minor` does. Two
actions of the parts stand for what the other part does and have no step of their own here,
`CloseTable` of `Ordering` (a cashier's commit of a close) and `PlaceOrder` of `Settlement` (a
customer's commit of a submit, also into a session that was closed meanwhile, which stays closed).
`Settlement` takes the totals a bill may have as the set `Totals`: a few for TLC, `Nat` in
`TableService`.

In `VenueLayout` only update_table, disable_table and disable_hall are two steps: the
other handlers decide on rows that are never deleted and columns that never change. A
table number is the pair of its hundred and its slot, and a session opens or closes at
any moment, because submit_order does not look at the table.

`Provisioning` has the only explicit locks: a command that begins with
`SELECT ... FOR UPDATE` waits for the tenant's row and holds it until it ends (`Locked`),
and the key of a creation is inserted first and stays its own until the commit
(`Reserved`). The dozens of rows that a creation inserts after its key are one step with
its commit, since nobody sees a part of them. In `Menu` manage_variant is the one command
that reads after it has written: its UPDATE works on the variants of its snapshot (`seen`),
the rows it has written are `Held` until it commits, and it judges the product by `View`,
what others have committed overlaid with its own writes. The other commands of `Menu` write
and commit in one step what they decided on rows read earlier.

In `Access` no request reads anything after its first write, so each is a chain of reads
with one step that writes and commits. `Coded` are the roles whose first password takes a
code (`FIRST_PASSWORD_OTP_PURPOSES`). A code's attempt is inserted under the number the
request has counted (`seen`), and its unique index decides between two (`Verify`); an
attempt of a wrong code is rolled back with the request that made it, so `Fail` leaves no
trace.

`TableDisplay` counts time in ticks, which pass only where the sketch waits: in `delay()`, in
`connectWifi` and in a fetch. `millis()` has `2 * Half` values and all arithmetic is done in
that word (`Plus`, `Minus`, `TimeReached` is the signed comparison of `timeReached`); `age`,
`since` and `blind` are true times kept to state the properties. `FetchMax` stands for
`HTTP_TIMEOUT_MS` and the time of its reads, `MaxQuiet` bounds an outage during which a code is
kept: the sketch keeps it however long, and after 24 days its comparison would turn round.
The 250 ms poll inside connectWifi, the pause of 500 ms after it, and the countdown are left
out. With `Half` = 2^31, `Ttl` 60000, `Margin` 1000, `MinRefresh` and `Retry` 5000, `ConnectMax`
20000, `Pause` 100 and a `FetchMax` of 10000 ms or more the sketch's own values satisfy
`DisplayAssumption`, so the theorems speak of it; TLC's instance has a word of 28 ticks, which
every kind of waiting gets across.

In `CashierScreen` a handler is a `call` from its `fetch` to its last statement: `sent`, then
`ok` when the server has carried it out, and refused or heard in a later step; a command
ends with a load of the board, in whose place its call goes on (`Done`, `after`). `ShowDetail`
is the React effect, which runs for every new selection or board before the next event.
A dialog covers the page (`Covered`). `handed`, `failures` and `excused` are kept to state
the properties: what guests handed over, the failures after which a command can be pressed
again, and whether the last detail load failed or met another. The server is `Ledger`'s
one-step view, which `Settlement` implements. The tables are seated before the screen
is opened, and only this cashier closes them.

**What stands for what.** Ids are model values, secrets stand for their hashes, an amount
is a small number, an item's quantity stands for its whole content, body hashes are the
values hashed. In `Ordering` the product checks are a refusal that may happen whatever
the menu is; in `Fulfillment` the same holds for roles and hall assignments, in `Presence`
for whether a table is enabled and has a display. Rows that no code reads (`last_seen_at`,
`customer_ordering_sessions.table_session_id`, audit rows) are left out. Fields kept only
to state properties are named in the modules (`OrderRow.cart`,
`TokenRow.admitted`, `answer`).

**Unreachable code.** The idempotency rows for submits, payments and bulk deliveries are
inserted as `processing` and completed in the same transaction, so the code's branch for a
committed `processing` row is never taken, and is not modelled. No code sets `voided_at`
on order items or inserts `price_adjustments`.

## 3. The runs

All passing runs explore their whole state space. Deadlock is checked except in `menu`,
`presence`, `provisioning` and `venue`, whose instances run out of identities, events or clock:
there the system may really stop.

| Run | Question | Bounds |
| --- | --- | --- |
| `settlement` | Do payments, voids and closes keep their trail, and how much can races overpay, correct twice or change after the close? | 1 bill of at most 2, amounts 1 and 2, 2 payments, 2 keys, 2 reasons, 2 requests in flight |
| `ordering` | Are tables seated once with whole sessions, does a customer keep one cart and a key one order, and which requests still change a cart that was submitted or reach a session that was closed? | 2 tables, 2 customers, 2 carts, 2 keys, 2 sessions, 2 orders, 2 requests of one customer or of two |
| `table_service` | With customers ordering between the statements that read a bill, is it not overpaid, and are orders settled whole? | 1 customer, 1 request on each side, 2 orders, 2 payments |
| `fulfillment` | Are kitchen and floor transitions decided once, bulk deliveries whole, and does everybody finish? | 2 items of one table, a second table, 2 keys, 2 requests |
| `presence` | Does a code admit one guest once, and a display keep one credential? | 2 tables of 2 tenants, 2 codes, 2 guests, 2 credentials, clock to 2, 2 requests |
| `venue` | Does a hall keep a whole block of numbers to itself, and do boundary slots stay virtual? | 2 halls, 2 blocks of 3 slots, 1 open session and 1 disabled table at once, 2 requests |
| `provisioning` | Does a key buy one whole tenant, and do the events lead to the status, whatever owners do at once? | 2 tenants, 3 keys, 2 subdomains, 3 numbers, 4 events a tenant, 2 requests |
| `menu` | Does a product keep one enabled default variant and the modifiers of few commands while two administrators change it, and which requests still bring it to a disabled station, or disable its station? | 1 product, 2 variants, 3 configurations, 2 stations, 1 item, 2 requests, 1 guest |
| `access` | Do people enter only with a password of their own and the role they hold, does a removed one stay out, and what does it take to leave a tenant without an administrator? | 2 users, 2 roles, 1 code with 1 attempt, 1 session at a time, 2 requests of administrators, 2 of people who log in |
| `display` | Are codes replaced in time and guests served, wherever the clock wraps and whatever the network does? | a word of 28 ticks, codes of 6, fetches up to 2, outages up to 8 |
| `cashier` | What can a cashier's screen record twice, whose bill does it show, and do its buttons come back? | 2 tables, 2 calls out at once, 1 payment handed over, 1 failure |
| `late_order` | violated: an order may enter a session closed meanwhile | as `table_service` |

Why the bounds suffice. Every hazard listed in `PROJECT.json` is a race of two requests
over one row or key, so two requests with two values for each id they might confuse reach
every conflicting pair of statements; the second table or tenant exists so that a
row of the wrong one can be picked up. Properties proved in section 5 do not depend
on these bounds: two owners who take over the platform at once would need a third user in
`access`, and a person with two codes a second code, and both are covered by the proof. Clock bounds in `presence`: a code lives 1, presence lasts 1 and a session
2 units, so that within 3 instants a code expires while a request that saw it live is
still running, and a cookie expires. What is bounded by races is bounded so in the
property itself: `PaidWithinRaces`, `VoidsWithinRaces`, `ModifiersWithinRaces` and
`SetupsWithinRaces` say that the excess grows with the number of requests in flight,
`PaidWithinFailures` that it grows with the failures; `ClosedChecksDrain`,
`SubmittedCartsDrain`, `ClosedSessionsDrain`, `ProductsStrayByRaces` and
`LastAdminFallsToARace` say which requests can still do harm: those that had looked before the
other one committed, and each of them once. All of these runs have two requests of the racing
kind, so the race happens in them (see the disagreements below). In `table_service` the cashier's requests come one at a time, because
there the race is between the cashier and the customers: two cashiers are in `settlement`, and
for any number of them `NothingIsOverpaid` is proved. A block of 3 slots has two boundary slots and one between them,
which is what the code tells apart of its 100; `MaxOpen` and `MaxDisabled` bound rows that
no property relates to each other. In `provisioning` the third key and number let a
number pass from one tenant to another while a creation that asks for it runs, and four
events are a creation and two changes. In `menu` two variants are the default
and one that takes its place or is inserted meanwhile, and three configurations are the one
there was and one for each of two commands. In `cashier` two calls are enough for a payment
pressed again while one is out, for a detail that fails beside it, and for the details of
both tables to pass each other; one failure lets one payment be recorded twice. With two payments
and two failures its invariants were checked once, without the liveness property; the theorem holds
for any number. Symmetry is used over identities only,
in runs without liveness.

Each property of a passing run has a mutant: a definition of the model changed as a
plausible bug would change the code (an UPDATE without its status condition, a missing
unique index, a commit in the middle). TLC finds the property violated by it.

**Disagreements with the documentation.** `docs/database/transactions.md` describes row locks
that the code does not take. The violated run shows one consequence, that an order may go to a
session closed meanwhile (`OrdersGoToOpenSessions`). The others are stated as definitions beside
the properties that say what is left; put into the configuration of their module's run, TLC finds
each of them violated:

| What a document says | Violated by | What holds |
| --- | --- | --- |
| `ClosedChecksAreFrozen` | a payment, or a void, that reaches a check closed meanwhile | `ClosedChecksDrain` |
| `PaymentsFitBill` | payments that overlap and exceed the bill | `PaidWithinRaces` |
| `VoidedOnce` | two voids of one payment under two keys: nobody looks how many rows the second UPDATE has matched, and its key and correction are committed | `VoidsWithinRaces` |
| `CartsAreOrderedOnce` | two submits of one cart under two keys | `SubmittedCartsDrain` |
| `AcceptedPutIsInActiveCart` | an item accepted while the same customer's submit commits, which is in no order | `SubmittedCartsDrain` |
| `AdminRemains` | two administrators who disable each other at once | `LastAdminFallsToARace` |
| `MenuIsRouted` | a station disabled while a product is routed to it | `ProductsStrayByRaces` |

`PROJECT.json` lists these and further disagreements with the lines they quote, and names the
action that shows them where there is one:

* a submit repeated after it succeeded is answered `empty_cart`, because the active cart is
  looked for before the key (`BeginSubmit`); the loser of two first orders answers
  `closed_table_session` instead of loading the winner's session;
* the attempt of a wrong code is rolled back with its request (`Fail`), so wrong codes never
  reach the limit of attempts, and two completions of one first password both succeed;
* two polls of a display leave two live codes;
* a table may be disabled under an open session, and ordered at after it is disabled;
* an order reaches a station that is disabled, or a product whose category is;
* a product with an optional group of modifiers that asks for one option and has none available
  is on the menu and cannot be ordered;
* the display does not wait between failed fetches although it computes an instant for it, and
  after an outage shows a message where its code should be until the next refresh;
* the browser takes a new key for every attempt: a payment whose answer is lost is recorded
  again when the cashier presses again, and so is one beside which a detail failed to load
  (`DetailFails` enables the button), or one that is followed by the end of an earlier command,
  whose load of the board enables the buttons again; details that pass each other leave another table's bill
  on the screen; after a lost answer to an order the phone repeats a submit that can only be
  refused;
* a creation that fails leaves no tenant to retry, and its two events share one timestamp,
  by which alone they are ordered.

**Fairness.** `fulfillment` and `cashier` check liveness. For `RequestsEnd`: weak fairness of the
statements that never wait, since the event loop resumes a request whose statement has
returned, and strong fairness of those that wait for a row or key, since PostgreSQL
queues the waiters of a lock and grants it in turn. No fairness is assumed of beginning a
request or of disconnects. For `ButtonsComeBack`: weak fairness of the server's answer to a
call that has reached it, and of the browser's side of each call, which hands the answer on or
rejects the `fetch` (the page sets no timeout, the connection has one); none of any click.
All other properties are safety.

## 4. Properties

* `Settlement`: `CloseIsWhole` (session, check and closure change together, once),
  `PaymentsAreKeyed` (a key buys exactly one payment), `VoidsWithinRaces` (a voided payment has
  a correction per accepted void key, no more of them than requests in flight),
  `PaidWithinRaces`, `ClosedChecksDrain` (the requests that found a check open only become fewer
  once it is closed, and every later change ends one), `ImplementsLedger`.
* `Ordering`: `TablesAreWhole` (one open session per table, check and session agree, no
  session without an order), `OneActiveCart`, `OrdersAreKeyed`, `SubmittedCartsDrain` (a late write
  to a submitted cart, or a second order of it, ends a request that held it before),
  `ClosedSessionsDrain` (so does an order into a closed session), `ImplementsSeating`.
* `TableService`: `NothingIsOverpaid`, `ClosesSettleWholeOrders` (what a closed session was paid is
  the price of some of its orders, however orders came between the reads of the bill).
* `Fulfillment`: `TrailsAreTrue`, `DeliveriesAreReady` (also of deliveries under way),
  `BulksAreWhole`, `NoPartialDelivery` (an action property), `SomeoneIsFree` (no circle of
  waiting transactions), `RequestsEnd`, `ImplementsService`.
* `Presence`: `TokensAdmitOnce`, `PresenceIsScanned`, `DisplaysKeepOneCredential`,
  `ImplementsAdmission`.
* `VenueLayout`: `HallsAreWhole` (a hall has its block to itself and exactly its tables, a
  boundary slot is virtual), `ImplementsAllocation` (a number never changes its hall, a
  retired hall does not come back).
* `Provisioning`: `TenantsAreKeyed` (a tenant is bought by exactly one key, subdomains and
  numbers are not shared, no tenant is seen half provisioned), `TrailLeadsToStatus`.
* `Menu`: `DefaultIsEnabled` (one default variant, enabled), `ModifiersWithinRaces`,
  `ProductsStrayByRaces` (a product comes to a disabled station, or a station with products is
  disabled, only by a request that had looked before the other committed).
* `Access`: `LastAdminFallsToARace`, `SetupsWithinRaces` (a first password is chosen at most as often as
  requests were in flight at once), `ImplementsMembership` (who enters, who stays removed, and
  that the platform has one owner).
* `TableDisplay`: `CodesAreReplaced` (with its code on the screen the display is never later than
  a refresh, a pause and a fetch: the old code stays while a slow fetch runs, which may be past
  its expiry), `BlindIsBrief` (while the network and the server work, a guest without a code to
  redeem waits at most for the next refresh).
* `CashierScreen`: `PaidWithinFailures`, `BillIsOfSelected` (what is shown when nothing is being
  loaded, after any order of selections, commands and answers), `ButtonsComeBack`.

Every module has a type invariant, and all of them are proved; they can be added to the
configurations.

## 5. What is proved

Every safety property of a passing run but one (`ClosesSettleWholeOrders`) is a theorem, for all
values of the constants that satisfy the modules' assumptions, and every abstract module is shown
to be implemented. The theorems of
`Settlement`, `Fulfillment`, `VenueLayout`, `Provisioning`, `Menu` and `Access` are in the module
`…Proofs` of that name; `OrderingProofs` has those of `Ordering` and `TableService`, and
`PresenceProofs` those of `Presence`, `TableDisplay` and `CashierScreen`.

| Module | Theorems |
| --- | --- |
| `Settlement` | `TypeCorrect`, `ClosingIsWhole`, `KeysBuyOnce`, `VoidsStayWithinRaces`, `RacesBoundOverpayment` (`PaidWithinRaces`), `ChecksDrain`, `SettlementImplementsLedger` |
| `Ordering` | `TypeCorrect`, `TablesStayWhole`, `CartsStaySingle`, `KeysBuyOneOrder`, `CartsDrain`, `SessionsDrain`, `OrderingImplementsSeating` |
| `TableService` | `ServiceImplementsBoth`, `ServiceBoundsOverpayment` (`NothingIsOverpaid`) |
| `Fulfillment` | `TypeCorrect`, `TrailsStayTrue`, `DeliveriesStayReady`, `BulksStayWhole`, `NothingIsDeliveredInPart`, `NobodyDeadlocks`, `FulfillmentImplementsService` |
| `Presence` | `TypeCorrect`, `TokensAdmitOneGuest`, `PresenceComesFromACode`, `OneCredentialPerDisplay`, `PresenceImplementsAdmission` |
| `VenueLayout` | `TypeCorrect`, `HallsStayWhole`, `LayoutImplementsAllocation` |
| `Provisioning` | `TypeCorrect`, `TenantsStayKeyed`, `TrailsStayTrue` |
| `Menu` | `TypeCorrect`, `DefaultStaysEnabled`, `ProductsStray`, `ModifiersStayWithinRaces` |
| `Access` | `TypeCorrect`, `SetupsStayWithinRaces`, `LastAdminFalls`, `AccessImplementsMembership` |
| `TableDisplay` | `DisplayTypeCorrect`, `CodesStayReplaced`, `BlindStaysBrief` |
| `CashierScreen` | `ScreenTypeCorrect`, `FailuresBoundPayments`, `SelectedBillStays` |

**Assumptions on the constants.** Everywhere `NULL` is none of the values and rows. Beyond that:

* `SettlementAssumption`: positive amounts, totals that are natural numbers, finitely many keys and
  requests; `ServiceAssumption`: the same, and finitely many items on the menu.
* `OrderingAssumption`: positive quantities, selections of items.
* `FulfillmentAssumption`: item ids are integers, each item has a table, finitely many requests.
* `PresenceAssumption`: a table has a tenant, codes and presence live for some time, a presence no
  longer than its session.
* `VenueAssumption`: blocks are positive, a block has at least one slot.
* `ProvisioningAssumption`: a tenant may have two events or more.
* `MenuAssumption`: finitely many requests.
* `AccessAssumption`: finitely many users and requests, the founder is a user, a code has an attempt.
* `DisplayAssumption`: the intervals fit half the range of `millis()`, and a fetch is shorter than a
  refresh.
* `ScreenAssumption`: finitely many calls, one at least, and a table.

No theorem assumes more than these: all hold for any number of requests of every kind.

The argument has the same shape in most modules. No property is inductive alone, because a commit
acts on what its request read statements ago. The inductive invariant `IInv` adds
`RequestsKnow`: for every value of `pc`, what the request may rely on at that statement
(`Knows`). A step that only moves a request on preserves `IInv` if the row it leaves
behind knows enough, which one lemma states once for all of them (`RequestStep`,
`ContinueStep`); the committing steps have a lemma each.

In `Ordering` no statement takes a lock, so a request knows only what nobody takes back: the cart
it has read exists, whatever became of it, and the session it has read is one of its customer's
table, open or not (`RowsStay`, `RowsRefer`). The unique constraints do the rest at the COMMIT:
`TablesAreWhole` is kept because the index on open sessions is looked at in the step that inserts
one. In the refinement a first submit seats its table, a later one finds a seating, a close ends it.

`PaidWithinRaces` says that n requests bring a check to n totals at most. `RacesIInv` counts those
that have not decided on their payment yet (`Free`): each can bring in one more total, since the
amount it decides on is within the bill that it read, which only grows (`ReadsAreWithinBills`), and
among those that have decided one at least left room for its own amount (`RoomIsLeft`). Sums
are folds over a set in the order `CHOOSE` picks. That they do not depend on that order is shown
without an induction theorem, by the smallest set for which they would (`SmallestPart`).

`VoidsStayWithinRaces` counts in the same way: the requests that still believe a payment to be
recorded, or have just found it so, are part of `Requests`, a correction is paid for by one of them
leaving, and after the first correction no new one joins (`VoidIInv`). The drains of `Settlement`
and `Ordering` rest on two facts each: whoever joins the requests that may still write has, in that
step, read the check, cart or session as open, so nobody joins after the close or the submit
(`NobodyTakesUp` in `OrderingProofs`), and a request that writes ends with its write
(`LateWritesEndARequest`). `ProductsStray` has the same two parts for stations and products
(`RequestStrays`).

In `TableService` each half preserves its own invariant because of what the other guarantees:
`ShopStep` is a step of `Till!Next` that places an order or a stutter, and `TillStep` is
`CloseTable` or a stutter. That the bill, a sum over the orders of the session, only grows
(`PlacedBill`) is all that Settlement asks of it. So `ServiceImplementsBoth` carries each theorem
of `Ordering` and `Settlement`, the drains among them, over to the two together, through an instance of `SettlementProofs` (`Books`).

In `Presence` the invariant adds `Locks`, that no two requests have updated the same token or
credential without having committed, and `Knows`: a redeem that has consumed a token still finds it
unconsumed and live in what is committed, and a guest never changes table.

In `CashierScreen` the calls that are out are counted in three ways: payments that may still be
recorded (`ToRecord`), payments that the screen waits for (`Awaited`), and other calls that free the
buttons at their end (`Freeing`). The latter two are bounded by the command under way and the
failures, and while a payment is open each of `Freeing` may enable its button once more
(`PressesAreCounted`). For the bill, `LoadsAreExcused` says
that a load that has neither failed nor met another is the only one, and that of the selected table.

In `Fulfillment` `IInv` also says that no two transactions hold the same row or key
(`LocksExclude`). `Knows` says of a bulk delivery that the items it has written and has
yet to write are the items it was asked for, that those written are smaller than those
to come, and that the state it saw of a written item is still the committed one. From
the order of the ids follows `SomeoneIsFree`: who is waited for and waits himself is a
bulk delivery, and its next item is greater than all it has written, so along a circle
the items would grow for ever. That readiness is not taken back holds because a station
can move an item only from `pending` or `preparing`.

In `VenueLayout` the strengthening is `RequestsFit`: what a request in flight will write
was checked against a row that may be stale, and fits all the same, because the number of
a table and the block of a hall never change and no row is deleted. It also follows that
create_table never inserts: every number of the hall has its row since create_hall
(`CreateTableAddsNothing`).

In `Provisioning` the strengthening is `RequestsKnow`: the key a creation has reserved is
still new and no other request's, and the status a request saw under its lock is still the
tenant's, because no other request holds that row. So an event starts where the last one
ended (`AppendLeads`), and since a tenant is committed `active`, only the transitions
between `active` and `suspended` are ever taken.

In `Menu` manage_variant takes the default from the variants it saw, writes its own, looks
for an enabled default and commits. `RequestsKnow` says of a request between the write and
the commit that the committed default of its product is among the rows it holds, if it is
to become the default itself (`HoldsDefault`), and that it does not hold that default
otherwise (`KeepsDefault`); no two requests hold the same row (`Apart`). So nobody gives a
default away that another has found, and two never become the default together. For the modifiers, `GroupsAreOwned` gives each group
of a product to one request: a replacement deletes before it inserts, so it leaves none of its own
earlier groups behind, and there are no more commands' groups than requests.

In `Access` `RequestsKnow` says what stays true of a user whom a request has read although
nobody locks the row: roles are only taken away together with the membership, and a flag of
the first password that has fallen does not rise again. `RacesCounted` bounds
the setups: those that have been completed and those in flight that still found the flag up are
together no more than there are requests. For the administrators it says of a request to disable
somebody that who was let through is an administrator or has been removed since, because roles
are lost in no other way; `disable_staff` refuses to disable its own actor, so if none is left
after a step, the actor of that step was removed before it (`LastAdminFalls`). The refinement maps a user to whether
the password is their own, and hides codes and requests.

The second part of `PresenceProofs`, on the display, argues about a word that wraps around. Its
lemmas say that a tick adds one to a distance (`TickMeasures`), that equal distances stay equal
(`TickKeepsDistance`), and that `timeReached` tells the truth of an instant that lies, or came,
less than half the range away (`TimeReachedIsRight`). `IInv` says that the code that is kept is
exactly as old as the distance of `millis()` to `nextRefreshAtMs` tells (`TokenIsDated`), that the
one on the screen is no older (`ShownIsDated`), and how long a guest can have waited by where the
loop is (`BlindIsDated`).

**Only model-checked.** The liveness properties `RequestsEnd` and `ButtonsComeBack`, which rest on
fairness and so on ENABLED, are out of this prover's reach; of deadlocks among bulk deliveries,
`NobodyDeadlocks` proves the safety half. `ClosesSettleWholeOrders` holds with one cashier request
at a time, as its run has it; with two, `PaidWithinRaces` is what there is. What documents say and TLC refutes is in the
table of section 3.

## 6. Not modelled

A creation of a tenant starts with its verified code, and the other requests with their actor.
Of the menu, categories and availability overrides are only reasons to refuse, and renaming a
station is left out. Starter templates are a constant table. Audit queries, list and board
endpoints only read; the audit rows themselves are read by no command. The API handlers,
security helpers and the rendering of firmware are pure functions or I/O. Of the frontend the
cashier's screen is modelled; the customer's phone and the screens of staff, of administrators
and of the owner appear as the requests they may send at any time, with any repetition. Of the
schema, the unique constraints that a command relies on are guards of its commit.

## 7. Plan

The core came first: the life of an order from the scan to the bill, then the layout it
happens in, the tenant it belongs to and the menu it is taken from; then the people who work
there, the display on the table and the screen at the till. Next:

1. In `Menu`, categories and availability overrides with the customer's menu, and an abstract
   module for what a guest may rely on from the menu to the order.
2. A property for tables and halls that are disabled while a first order opens a session
   (`venue_layout.py:422`): how many sessions can be open at disabled tables, by the races that
   let them in, and a theorem that bounds them.
3. The customer's phone beside `CashierScreen`: what a repeated submit can order.

## 8. Running it

    tlc -workers 2 -config MCFulfillment.cfg MCFulfillment
    tlapm FulfillmentProofs.tla

`PROJECT.json` lists the runs with their modules and configurations, the mutants, the map
from definitions to source lines, the findings, the hazards and the theorems.
