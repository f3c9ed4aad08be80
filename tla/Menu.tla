-------------------------------- MODULE Menu --------------------------------
(***************************************************************************)
(* What a tenant offers: stations (modules/tenant_setup/station_setup.py), *)
(* the products routed to them with their variants and modifiers           *)
(* (modules/tenant_setup/menu_catalog.py), and the work that the orders of *)
(* guests leave at the stations.                                           *)
(*                                                                         *)
(* A request of an administrator is a process. Only manage_variant reads   *)
(* after it has written: what it wrote is in its row until it commits, and *)
(* whoever writes one of the same rows waits. All others write and commit  *)
(* in one step, on what they read before. Names, prices and categories are *)
(* left out; a name that is taken, an availability override and a modifier *)
(* that does not fit are among the reasons to Fail.                        *)
(***************************************************************************)
EXTENDS Naturals, FiniteSets

CONSTANTS
    Stations,
    Products,
    Variants,
    Configs,    \* modifier configurations: the groups one command inserts
    Items,      \* preparation items
    Requests,   \* requests of administrators that can be in flight at once
    Guests,     \* submits that can be in flight at once
    NULL

VARIABLES
    station,    \* stations: NULL or whether it is enabled
    product,    \* product_services: NULL or the row
    variant,    \* product_variants: NULL or the row
    config,     \* the configurations whose groups a product has
    queue,      \* the station where a preparation item waits, else NULL
    work        \* the requests and submits in flight

menuRows == <<station, product, variant, config, queue>>
menuVars == <<station, product, variant, config, queue, work>>

-----------------------------------------------------------------------------
ProductRow == [station : Stations, enabled : BOOLEAN]
Choice == [default : BOOLEAN, enabled : BOOLEAN]
VariantRow == [product : Products, default : BOOLEAN, enabled : BOOLEAN]

ASSUME MenuAssumption ==
    /\ IsFiniteSet(Requests)
    /\ NULL \notin Stations \cup Products \cup Variants \cup Configs \cup Items \cup BOOLEAN
    /\ NULL \notin ProductRow \cup VariantRow

NoWork == [pc |-> "idle", station |-> NULL, product |-> NULL, row |-> NULL,
           variant |-> NULL, seen |-> {}]

WorkRow == [pc : {"idle", "count_queue", "disable_station", "create_product", "check_station",
                  "write_product", "write_variant", "check_default", "commit_variant",
                  "replace_modifiers", "order"},
            station : Stations \cup {NULL},
            product : Products \cup {NULL},
            row : ProductRow \cup VariantRow \cup {NULL},
            variant : Variants \cup {NULL},
            seen : SUBSET (Variants \cup Configs)]

Enabled(s) == station[s] # NULL /\ station[s]

VariantsOf(p) == {v \in Variants : variant[v] # NULL /\ variant[v].product = p}

\* An id for a new variant, which is no other request's.
New(v) == variant[v] = NULL /\ \A q \in Requests : work[q].variant # v

\* The rows whose UPDATE or INSERT a request has not committed yet.
Held(row) ==
    IF row.pc \in {"check_default", "commit_variant"} THEN row.seen \cup {row.variant} ELSE {}

\* product_variants as a request sees it that has written to it.
View(r) ==
    [v \in Variants |->
        IF v = work[r].variant THEN work[r].row
        ELSE IF v \in work[r].seen THEN [variant[v] EXCEPT !.default = FALSE]
        ELSE variant[v]]

Continue(r, row) == work' = [work EXCEPT ![r] = row]

\* The request goes on after a SELECT, or ends without having written anything.
Go(r, row) ==
    /\ Continue(r, row)
    /\ UNCHANGED menuRows

-----------------------------------------------------------------------------
Init ==
    /\ station = [s \in Stations |-> NULL]
    /\ product = [p \in Products |-> NULL]
    /\ variant = [v \in Variants |-> NULL]
    /\ config = [p \in Products |-> {}]
    /\ queue = [i \in Items |-> NULL]
    /\ work = [r \in Requests \cup Guests |-> NoWork]

\* create_station.
CreateStation(s) ==
    /\ station[s] = NULL
    /\ station' = [station EXCEPT ![s] = TRUE]
    /\ UNCHANGED <<product, variant, config, queue, work>>

\* disable_station: no enabled product may be routed to the station,
BeginDisableStation(r, s) ==
    /\ work[r].pc = "idle"
    /\ station[s] # NULL
    /\ \A p \in Products : product[p] # NULL /\ product[p].station = s => ~ product[p].enabled
    /\ Go(r, [NoWork EXCEPT !.pc = "count_queue", !.station = s])

\* and no item may wait at it;
CountQueue(r) ==
    /\ work[r].pc = "count_queue"
    /\ \A i \in Items : queue[i] # work[r].station
    /\ Go(r, [work[r] EXCEPT !.pc = "disable_station"])

\* then it is disabled.
DisableStation(r) ==
    /\ work[r].pc = "disable_station"
    /\ station' = [station EXCEPT ![work[r].station] = FALSE]
    /\ Continue(r, NoWork)
    /\ UNCHANGED <<product, variant, config, queue>>

-----------------------------------------------------------------------------
\* create_product_service: the station is looked at,
BeginCreateProduct(r, s) ==
    /\ work[r].pc = "idle"
    /\ Enabled(s)
    /\ Go(r, [NoWork EXCEPT !.pc = "create_product", !.station = s])

\* and the product inserted with its variants, at least one of them an enabled
\* default; a second default is one too many for the unique index.
CreateProduct(r, p, choice) ==
    /\ work[r].pc = "create_product"
    /\ product[p] = NULL
    /\ \A v \in DOMAIN choice : New(v)
    /\ \E v \in DOMAIN choice : choice[v].default /\ choice[v].enabled
    /\ \A u, v \in DOMAIN choice : choice[u].default /\ choice[v].default => u = v
    /\ product' = [product EXCEPT ![p] = [station |-> work[r].station, enabled |-> TRUE]]
    /\ variant' = [v \in Variants |->
                      IF v \in DOMAIN choice
                      THEN [product |-> p, default |-> choice[v].default, enabled |-> choice[v].enabled]
                      ELSE variant[v]]
    /\ Continue(r, NoWork)
    /\ UNCHANGED <<station, config, queue>>

\* update_product_service: the row is read, and what is not given taken from it;
BeginUpdateProduct(r, p, s, enabled) ==
    /\ work[r].pc = "idle"
    /\ product[p] # NULL
    /\ Go(r, [NoWork EXCEPT !.pc = "check_station", !.product = p,
                 !.row = [station |-> IF s = NULL THEN product[p].station ELSE s,
                          enabled |-> IF enabled = NULL THEN product[p].enabled ELSE enabled]])

\* Mutant: the station is looked at only if the product was disabled before.
CheckStationToEnable(r) ==
    /\ work[r].pc = "check_station"
    /\ \/ ~ work[r].row.enabled
       \/ product[work[r].product].enabled
       \/ Enabled(work[r].row.station)
    /\ Go(r, [work[r] EXCEPT !.pc = "write_product"])

\* the station is looked at if the product is to be enabled;
CheckStation(r) ==
    /\ work[r].pc = "check_station"
    /\ ~ work[r].row.enabled \/ Enabled(work[r].row.station)
    /\ Go(r, [work[r] EXCEPT !.pc = "write_product"])

\* and all columns are written.
WriteProduct(r) ==
    /\ work[r].pc = "write_product"
    /\ product' = [product EXCEPT ![work[r].product] = work[r].row]
    /\ Continue(r, NoWork)
    /\ UNCHANGED <<station, variant, config, queue>>

\* disable_product_service.
DisableProduct(p) ==
    /\ product[p] # NULL
    /\ product' = [product EXCEPT ![p].enabled = FALSE]
    /\ UNCHANGED <<station, variant, config, queue, work>>

-----------------------------------------------------------------------------
(***************************************************************************)
(* manage_variant. The UPDATE that takes the default from the product's    *)
(* variants works on those it sees when it starts, and waits for their     *)
(* rows; without a default only the variant itself is written.             *)
(***************************************************************************)
BeginVariant(r, p, v, choice) ==
    /\ work[r].pc = "idle"
    /\ product[p] # NULL
    /\ v \in VariantsOf(p) \/ New(v)
    /\ Go(r, [NoWork EXCEPT !.pc = "write_variant", !.product = p, !.variant = v,
                 !.row = [product |-> p, default |-> choice.default, enabled |-> choice.enabled],
                 !.seen = IF choice.default THEN VariantsOf(p) ELSE {}])

\* Mutant: the index of the defaults is not unique.
WriteVariantWithoutUniqueDefault(r) ==
    /\ work[r].pc = "write_variant"
    /\ \A q \in Requests \ {r} : (work[r].seen \cup {work[r].variant}) \cap Held(work[q]) = {}
    /\ Go(r, [work[r] EXCEPT !.pc = "check_default"])

\* The rows are locked and written, unless a default that was not seen stands
\* in the way of the unique index.
WriteVariant(r) ==
    /\ work[r].pc = "write_variant"
    /\ \A q \in Requests \ {r} : (work[r].seen \cup {work[r].variant}) \cap Held(work[q]) = {}
    /\ work[r].row.default =>
          \A v \in VariantsOf(work[r].product) \ (work[r].seen \cup {work[r].variant}) :
              ~ variant[v].default
    /\ Go(r, [work[r] EXCEPT !.pc = "check_default"])

\* _has_enabled_default_variant, of what others have committed and of its own.
CheckDefault(r) ==
    /\ work[r].pc = "check_default"
    /\ \E v \in Variants : /\ View(r)[v] # NULL
                           /\ View(r)[v].product = work[r].product
                           /\ View(r)[v].default /\ View(r)[v].enabled
    /\ Go(r, [work[r] EXCEPT !.pc = "commit_variant"])

CommitVariant(r) ==
    /\ work[r].pc = "commit_variant"
    /\ variant' = View(r)
    /\ Continue(r, NoWork)
    /\ UNCHANGED <<station, product, config, queue>>

-----------------------------------------------------------------------------
\* manage_modifiers: the groups of the product are looked up,
BeginModifiers(r, p) ==
    /\ work[r].pc = "idle"
    /\ product[p] # NULL
    /\ Go(r, [NoWork EXCEPT !.pc = "replace_modifiers", !.product = p, !.seen = config[p]])

\* Mutant: the groups are not deleted.
AddModifiers(r, c) ==
    /\ work[r].pc = "replace_modifiers"
    /\ \A p \in Products : c \notin config[p]
    /\ config' = [config EXCEPT ![work[r].product] = @ \cup {c}]
    /\ Continue(r, NoWork)
    /\ UNCHANGED <<station, product, variant, queue>>

\* those found are deleted and new ones inserted.
ReplaceModifiers(r, c) ==
    /\ work[r].pc = "replace_modifiers"
    /\ \A p \in Products : c \notin config[p]
    /\ config' = [config EXCEPT ![work[r].product] = (@ \ work[r].seen) \cup {c}]
    /\ Continue(r, NoWork)
    /\ UNCHANGED <<station, product, variant, queue>>

-----------------------------------------------------------------------------
\* submit_order, for one item: the product is read with its variants, and must
\* be enabled and have an enabled default;
BeginOrder(g, p) ==
    /\ work[g].pc = "idle"
    /\ product[p] # NULL /\ product[p].enabled
    /\ \E v \in VariantsOf(p) : variant[v].default /\ variant[v].enabled
    /\ Go(g, [NoWork EXCEPT !.pc = "order", !.station = product[p].station])

\* then the item is inserted at the product's station.
CommitOrder(g, i) ==
    /\ work[g].pc = "order"
    /\ queue[i] = NULL
    /\ queue' = [queue EXCEPT ![i] = work[g].station]
    /\ Continue(g, NoWork)
    /\ UNCHANGED <<station, product, variant, config>>

\* mark_ready and report_cannot_prepare: an item has waited. The staff of a
\* station may do so whether it is enabled or not.
Prepare(i) ==
    /\ queue[i] # NULL
    /\ queue' = [queue EXCEPT ![i] = NULL]
    /\ UNCHANGED <<station, product, variant, config, work>>

\* A request is refused, fails or is cut off: its transaction is rolled back.
Fail(r) ==
    /\ work[r].pc # "idle"
    /\ Go(r, NoWork)

-----------------------------------------------------------------------------
StationStep(r) ==
    \/ \E s \in Stations : BeginDisableStation(r, s)
    \/ CountQueue(r)
    \/ DisableStation(r)

ProductStep(r) ==
    \/ \E s \in Stations : BeginCreateProduct(r, s)
    \/ \E p \in Products, new \in SUBSET Variants : \E choice \in [new -> Choice] :
          CreateProduct(r, p, choice)
    \/ \E p \in Products, s \in Stations \cup {NULL}, enabled \in BOOLEAN \cup {NULL} :
          BeginUpdateProduct(r, p, s, enabled)
    \/ CheckStation(r)
    \/ WriteProduct(r)

VariantStep(r) ==
    \/ \E p \in Products, v \in Variants, choice \in Choice : BeginVariant(r, p, v, choice)
    \/ WriteVariant(r)
    \/ CheckDefault(r)
    \/ CommitVariant(r)

ModifierStep(r) ==
    \/ \E p \in Products : BeginModifiers(r, p)
    \/ \E c \in Configs : ReplaceModifiers(r, c)

OrderStep(g) ==
    \/ \E p \in Products : BeginOrder(g, p)
    \/ \E i \in Items : CommitOrder(g, i)

Next ==
    \/ \E s \in Stations : CreateStation(s)
    \/ \E p \in Products : DisableProduct(p)
    \/ \E i \in Items : Prepare(i)
    \/ \E r \in Requests : StationStep(r) \/ ProductStep(r) \/ VariantStep(r) \/ ModifierStep(r)
    \/ \E g \in Guests : OrderStep(g)
    \/ \E r \in Requests \cup Guests : Fail(r)

Spec == Init /\ [][Next]_menuVars

-----------------------------------------------------------------------------
(***************************************************************************)
(* Properties                                                              *)
(***************************************************************************)

\* Every variable holds rows of its table, every request a known statement.
TypeOK ==
    /\ station \in [Stations -> BOOLEAN \cup {NULL}]
    /\ product \in [Products -> ProductRow \cup {NULL}]
    /\ variant \in [Variants -> VariantRow \cup {NULL}]
    /\ config \in [Products -> SUBSET Configs]
    /\ queue \in [Items -> Stations \cup {NULL}]
    /\ work \in [Requests \cup Guests -> WorkRow]

(***************************************************************************)
(* However the changes of its variants race, a product that there is has   *)
(* exactly one default variant, and it is enabled: without one a product   *)
(* that is enabled could not be ordered.                                   *)
(***************************************************************************)
DefaultIsEnabled ==
    \A p \in Products : product[p] # NULL =>
        \E v \in VariantsOf(p) :
            /\ variant[v].default /\ variant[v].enabled
            /\ \A u \in VariantsOf(p) \ {v} : ~ variant[u].default

(***************************************************************************)
(* Modifiers are replaced as a whole, but for races: a product has the     *)
(* groups of at most as many commands as were in flight at once.           *)
(***************************************************************************)
ModifiersWithinRaces ==
    \A p \in Products : Cardinality(config[p]) <= Cardinality(Requests)

\* The products a station would have to serve; the requests that have found it
\* enabled and write a product there; those that have found it without one.
Served(s) == {p \in Products : product[p] # NULL /\ product[p].station = s /\ product[p].enabled}

Routing(s) ==
    {r \in Requests : \/ work[r].pc = "create_product" /\ work[r].station = s
                     \/ /\ work[r].pc = "write_product"
                        /\ work[r].row.enabled /\ work[r].row.station = s}

Closing(s) == {r \in Requests : work[r].pc \in {"count_queue", "disable_station"} /\ work[r].station = s}

(***************************************************************************)
(* A product strays to a disabled station by a race alone. Once a station  *)
(* is disabled, the requests that route there only become fewer, and every *)
(* product that comes to be served there ends one of them; once it has a   *)
(* product to serve, those that disable it only become fewer, and          *)
(* disabling it ends one of them. So whoever begins after the other has    *)
(* committed never does harm, whatever sequence of creating, rerouting,    *)
(* disabling and enabling came before.                                     *)
(***************************************************************************)
ProductsStrayByRaces ==
    [][\A s \in Stations :
          /\ ~ Enabled(s) =>
                /\ Routing(s)' \subseteq Routing(s)
                /\ ~ (Served(s)' \subseteq Served(s)) => Routing(s)' # Routing(s)
          /\ Served(s) # {} =>
                /\ Closing(s)' \subseteq Closing(s)
                /\ Enabled(s) /\ ~ Enabled(s)' => Closing(s)' # Closing(s)]_menuVars

\* What docs/modules/tenant-setup/station-setup-contracts.md:11 says of the same,
\* "enabled products must be disabled/rerouted first", and the code does not keep.
MenuIsRouted ==
    \A p \in Products : product[p] # NULL /\ product[p].enabled => Enabled(product[p].station)

Defaults(p) == {v \in VariantsOf(p) : variant[v].default}

(***************************************************************************)
(* What the requests in flight rely on. For manage_variant: its variant is *)
(* its product's or new; from the write on, a committed default of the     *)
(* product is among the rows that a request for the default holds; and who *)
(* has found another default does not hold it. No two hold the same row,   *)
(* and a new variant is nobody else's. A variant belongs to a product.     *)
(***************************************************************************)
Manages(row) ==
    /\ row.product \in Products /\ product[row.product] # NULL
    /\ row.variant \in Variants
    /\ row.row \in VariantRow /\ row.row.product = row.product
    /\ row.seen \subseteq VariantsOf(row.product)
    /\ variant[row.variant] # NULL => row.variant \in VariantsOf(row.product)
    /\ ~ row.row.default => row.seen = {}

HoldsDefault(row) ==
    row.row.default => Defaults(row.product) \subseteq row.seen \cup {row.variant}

KeepsDefault(row) ==
    IF row.row.default THEN row.row.enabled ELSE row.variant \notin Defaults(row.product)

KnowsVariant(row) ==
    /\ row.pc \in {"write_variant", "check_default", "commit_variant"} => Manages(row)
    /\ row.pc \in {"check_default", "commit_variant"} => HoldsDefault(row)
    /\ row.pc = "commit_variant" => KeepsDefault(row)

KnowsPlace(row) ==
    /\ row.pc \in {"create_product", "order"} => row.station \in Stations
    /\ row.pc \in {"check_station", "write_product"} =>
          row.product \in Products /\ product[row.product] # NULL /\ row.row \in ProductRow

Apart(one, other) ==
    /\ Held(one) \cap Held(other) = {}
    /\ one.variant = other.variant /\ one.variant # NULL => variant[one.variant] # NULL

RequestsKnow ==
    /\ \A r \in Requests \cup Guests : KnowsPlace(work[r])
    /\ \A r \in Requests : KnowsVariant(work[r])
    /\ \A q, r \in Requests : q # r => Apart(work[q], work[r])
    /\ \A v \in Variants : variant[v] # NULL => product[variant[v].product] # NULL
=============================================================================
