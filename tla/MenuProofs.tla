----------------------------- MODULE MenuProofs -----------------------------
(***************************************************************************)
(* Proofs about Menu, for any number of stations, products, variants and   *)
(* requests. DefaultIsEnabled is not inductive: a manage_variant commits   *)
(* long after it has found an enabled default, and it is RequestsKnow that *)
(* says that nobody has taken it since. Nor is ModifiersWithinRaces: the   *)
(* groups have to be assigned to the requests that inserted them.          *)
(***************************************************************************)
EXTENDS Menu, FiniteSetTheorems, TLAPS

IInv == TypeOK /\ DefaultIsEnabled /\ RequestsKnow

Workers == Requests \cup Guests

LEMMA NoWorkKnows ==
    /\ NoWork \in WorkRow
    /\ KnowsPlace(NoWork) /\ KnowsVariant(NoWork)
    /\ Held(NoWork) = {} /\ NoWork.variant = NULL
<1>1. NoWork \in WorkRow
    BY DEF NoWork, WorkRow
<1>2. NoWork.pc = "idle" /\ NoWork.variant = NULL
    BY DEF NoWork
<1> QED
    BY <1>1, <1>2 DEF KnowsPlace, KnowsVariant, Held

\* In every initial state the three parts hold.
LEMMA InitIInv == Init => IInv
<1> SUFFICES ASSUME Init PROVE IInv
    OBVIOUS
<1>1. TypeOK
    BY NoWorkKnows DEF Init, TypeOK
<1>2. DefaultIsEnabled
    BY DEF Init, DefaultIsEnabled
<1>3. RequestsKnow
    BY NoWorkKnows DEF Init, RequestsKnow, Apart
<1> QED
    BY <1>1, <1>2, <1>3 DEF IInv

-----------------------------------------------------------------------------
(***************************************************************************)
(* A request that goes on, or ends without a write, knows what it says if  *)
(* its new row does, and leaves what the others know as it was.            *)
(***************************************************************************)
LEMMA RequestGoesOn ==
    ASSUME IInv, NEW r \in Workers, NEW row \in WorkRow, Go(r, row),
           KnowsPlace(row), r \in Requests => KnowsVariant(row),
           \A q \in Requests \ {r} :
               r \in Requests => Apart(work[q], row) /\ Apart(row, work[q])
    PROVE  IInv'
<1>1. station' = station /\ product' = product /\ variant' = variant /\ config' = config /\ queue' = queue
    BY DEF Go, menuRows
<1>2. work'[r] = row /\ \A q \in Workers \ {r} : work'[q] = work[q]
    BY DEF IInv, TypeOK, Go, Continue, Workers
<1>3. TypeOK'
    BY <1>1 DEF IInv, TypeOK, Go, Continue, Workers
<1>4. DefaultIsEnabled'
    BY <1>1 DEF IInv, DefaultIsEnabled, VariantsOf
<1>5. ASSUME NEW q \in Workers PROVE KnowsPlace(work'[q])
    BY <1>2 DEF IInv, RequestsKnow, Workers
<1>6. ASSUME NEW q \in Requests PROVE KnowsVariant(work'[q])
    BY <1>2 DEF IInv, RequestsKnow, Workers
<1>7. ASSUME NEW p \in Requests, NEW q \in Requests, p # q PROVE Apart(work'[p], work'[q])
  <2>1. CASE p = r
      BY <1>2, <1>7, <2>1 DEF Workers
  <2>2. CASE q = r
      BY <1>2, <1>7, <2>2 DEF Workers
  <2>3. CASE p # r /\ q # r
      BY <1>2, <1>7, <2>3 DEF IInv, RequestsKnow, Workers
  <2> QED
      BY <2>1, <2>2, <2>3
<1>8. RequestsKnow'
    BY <1>1, <1>5, <1>6, <1>7
    DEF IInv, RequestsKnow, Workers, KnowsPlace, KnowsVariant, Apart, Manages, HoldsDefault,
        KeepsDefault, Defaults, VariantsOf, Held
<1> QED
    BY <1>3, <1>4, <1>8 DEF IInv

\* A request that ends with nothing written.
LEMMA NothingWritten ==
    ASSUME IInv, NEW r \in Workers, Go(r, NoWork)
    PROVE  IInv'
<1>1. \A q \in Requests : Apart(work[q], NoWork) /\ Apart(NoWork, work[q])
    BY NoWorkKnows DEF Apart
<1> QED
    BY <1>1, NoWorkKnows, RequestGoesOn

\* A request that holds no variant goes on.
LEMMA GoesOnElsewhere ==
    ASSUME IInv, NEW r \in Workers, NEW row \in WorkRow, Go(r, row), KnowsPlace(row),
           row.pc \notin {"write_variant", "check_default", "commit_variant"},
           row.variant = NULL
    PROVE  IInv'
<1>1. KnowsVariant(row) /\ Held(row) = {}
    BY DEF KnowsVariant, Held
<1>2. \A q \in Requests : Apart(work[q], row) /\ Apart(row, work[q])
    BY <1>1 DEF Apart
<1> QED
    BY <1>1, <1>2, RequestGoesOn

-----------------------------------------------------------------------------
(***************************************************************************)
(* A step that writes rows leaves what the others know as it was, if it    *)
(* neither takes products or variants away nor touches the new variants    *)
(* and the defaults that the others rely on.                               *)
(***************************************************************************)
LEMMA OthersKnow ==
    ASSUME TypeOK, RequestsKnow,
           \A q \in Workers : work'[q] \in {work[q], NoWork},
           \A p \in Products : product[p] # NULL => product'[p] # NULL,
           \A v \in Variants : variant[v] # NULL =>
               variant'[v] # NULL /\ variant'[v].product = variant[v].product,
           \A v \in Variants : variant'[v] # NULL => product'[variant'[v].product] # NULL,
           \A q \in Requests :
               /\ work'[q] = work[q]
               /\ work[q].pc \in {"write_variant", "check_default", "commit_variant"}
               => /\ variant[work[q].variant] = NULL => variant'[work[q].variant] = NULL
                  /\ \A v \in Variants :
                        /\ variant'[v] # NULL
                        /\ variant'[v].product = work[q].product
                        /\ variant'[v].default
                        /\ work[q].pc # "write_variant"
                        => /\ work[q].row.default => v \in work[q].seen \cup {work[q].variant}
                           /\ work[q].pc = "commit_variant" /\ ~ work[q].row.default =>
                                 v # work[q].variant
    PROVE  RequestsKnow'
<1>1. ASSUME NEW q \in Workers PROVE KnowsPlace(work[q])'
  <2>1. work'[q] = work[q] \/ work'[q] = NoWork
      OBVIOUS
  <2>2. CASE work'[q] = work[q]
      BY <2>2 DEF RequestsKnow, Workers, KnowsPlace
  <2>3. CASE work'[q] = NoWork
      BY <2>3 DEF KnowsPlace, NoWork
  <2> QED
      BY <2>1, <2>2, <2>3
<1>2. ASSUME NEW q \in Requests, NEW row, row = work[q], work'[q] = row PROVE KnowsVariant(row)'
  <2>1. KnowsVariant(row)
      BY <1>2 DEF RequestsKnow
  <2>2. CASE row.pc \in {"write_variant", "check_default", "commit_variant"}
    <3>1. Manages(row)
        BY <2>1, <2>2 DEF KnowsVariant
    <3>2. Manages(row)'
        BY <1>2, <2>2, <3>1 DEF Manages, VariantsOf
    <3>3. row.pc \in {"check_default", "commit_variant"} => HoldsDefault(row)'
        BY <1>2, <2>2 DEF HoldsDefault, Defaults, VariantsOf
    <3>4. row.pc = "commit_variant" => KeepsDefault(row)'
        BY <1>2, <2>1, <2>2 DEF KnowsVariant, KeepsDefault, Defaults, VariantsOf
    <3> QED
        BY <3>2, <3>3, <3>4 DEF KnowsVariant
  <2>3. CASE row.pc \notin {"write_variant", "check_default", "commit_variant"}
      BY <2>3 DEF KnowsVariant
  <2> QED
      BY <2>2, <2>3
<1>3. KnowsVariant(NoWork)'
    BY NoWorkKnows DEF KnowsVariant, NoWork
<1>4. ASSUME NEW q \in Requests PROVE KnowsVariant(work[q])'
  <2>1. work'[q] = work[q] \/ work'[q] = NoWork
      BY DEF Workers
  <2> QED
      BY <1>2, <1>3, <2>1
<1>5. ASSUME NEW p \in Requests, NEW q \in Requests, p # q PROVE Apart(work[p], work[q])'
  <2>1. /\ work'[p] = work[p] \/ work'[p] = NoWork
        /\ work'[q] = work[q] \/ work'[q] = NoWork
      BY DEF Workers
  <2>2. CASE work'[p] = NoWork \/ work'[q] = NoWork
      BY <2>2, NoWorkKnows DEF Apart, Held
  <2>3. CASE work'[p] = work[p] /\ work'[q] = work[q]
    <3>1. Apart(work[p], work[q]) /\ work[p].variant \in Variants \cup {NULL}
        BY <1>5 DEF RequestsKnow, TypeOK, WorkRow
    <3> QED
        BY <2>3, <3>1 DEF Apart, Held
  <2> QED
      BY <2>1, <2>2, <2>3
<1> QED
    BY <1>1, <1>4, <1>5 DEF RequestsKnow, Workers, KnowsPlace
-----------------------------------------------------------------------------
\* What a step does to the properties of the products whose variants it leaves alone.
LEMMA DefaultsStay ==
    ASSUME DefaultIsEnabled, NEW p \in Products, product[p] # NULL,
           \A v \in Variants :
               /\ variant[v] # NULL /\ variant[v].product = p => variant'[v] = variant[v]
               /\ variant'[v] # NULL /\ variant'[v].product = p => variant'[v] = variant[v]
    PROVE  \E v \in VariantsOf(p)' :
               /\ variant'[v].default /\ variant'[v].enabled
               /\ \A u \in VariantsOf(p)' \ {v} : ~ variant'[u].default
<1>1. PICK v \in VariantsOf(p) :
          /\ variant[v].default /\ variant[v].enabled
          /\ \A u \in VariantsOf(p) \ {v} : ~ variant[u].default
    BY DEF DefaultIsEnabled
<1>2. v \in VariantsOf(p)' /\ variant'[v] = variant[v]
    BY <1>1 DEF VariantsOf
<1>3. \A u \in VariantsOf(p)' : u \in VariantsOf(p) /\ variant'[u] = variant[u]
    BY DEF VariantsOf
<1> QED
    BY <1>1, <1>2, <1>3

\* A step that ends a request, or touches none, and writes no variants.
LEMMA NoVariantWritten ==
    ASSUME IInv, variant' = variant, TypeOK',
           \A q \in Workers : work'[q] \in {work[q], NoWork},
           \A p \in Products : product[p] # NULL <=> product'[p] # NULL
    PROVE  IInv'
<1>1. \A v \in Variants : variant'[v] # NULL => product'[variant'[v].product] # NULL
    BY DEF IInv, TypeOK, RequestsKnow, VariantRow
<1>2. RequestsKnow'
  <2>1. ASSUME NEW q \in Requests, work'[q] = work[q],
               work[q].pc \in {"check_default", "commit_variant"},
               NEW v \in Variants, variant[v] # NULL,
               variant[v].product = work[q].product, variant[v].default
        PROVE  /\ work[q].row.default => v \in work[q].seen \cup {work[q].variant}
               /\ work[q].pc = "commit_variant" /\ ~ work[q].row.default => v # work[q].variant
      BY <2>1 DEF IInv, RequestsKnow, KnowsVariant, HoldsDefault, KeepsDefault, Defaults, VariantsOf
  <2> QED
      BY <1>1, <2>1, OthersKnow DEF IInv
<1>3. DefaultIsEnabled'
    BY DEF IInv, DefaultIsEnabled, VariantsOf
<1> QED
    BY <1>2, <1>3 DEF IInv
-----------------------------------------------------------------------------
\* A new product has one enabled default among the new variants that it brings.
LEMMA CreateProductIInv ==
    ASSUME IInv, NEW r \in Requests, NEW p \in Products, NEW new \in SUBSET Variants,
           NEW choice \in [new -> Choice], CreateProduct(r, p, choice)
    PROVE  IInv'
<1> USE DEF IInv
<1>1. /\ work[r].pc = "create_product" /\ product[p] = NULL
      /\ \A v \in new : New(v)
      /\ \E v \in new : choice[v].default /\ choice[v].enabled
      /\ \A u, v \in new : choice[u].default /\ choice[v].default => u = v
      /\ product' = [product EXCEPT ![p] = [station |-> work[r].station, enabled |-> TRUE]]
      /\ variant' = [v \in Variants |->
                        IF v \in new
                        THEN [product |-> p, default |-> choice[v].default,
                              enabled |-> choice[v].enabled]
                        ELSE variant[v]]
      /\ work' = [work EXCEPT ![r] = NoWork]
      /\ station' = station /\ config' = config /\ queue' = queue
    BY DEF CreateProduct, Continue
<1>2. work[r].station \in Stations
    BY <1>1 DEF RequestsKnow, KnowsPlace
<1>3. product'[p] \in ProductRow /\ product'[p] # NULL
  <2>1. product'[p] = [station |-> work[r].station, enabled |-> TRUE]
      BY <1>1 DEF TypeOK
  <2>2. product'[p] \in ProductRow
      BY <1>2, <2>1 DEF ProductRow
  <2> QED
      BY <2>2, MenuAssumption
<1>4. \A v \in new : /\ variant[v] = NULL
                     /\ variant'[v] \in VariantRow /\ variant'[v] # NULL
                     /\ variant'[v].product = p
                     /\ variant'[v].default = choice[v].default
                     /\ variant'[v].enabled = choice[v].enabled
    BY <1>1, MenuAssumption DEF New, Choice, VariantRow
<1>5. \A v \in Variants \ new : variant'[v] = variant[v]
    BY <1>1
<1>6. TypeOK'
  <2>1. product' \in [Products -> ProductRow \cup {NULL}]
      BY <1>1, <1>3 DEF TypeOK
  <2>2. variant' \in [Variants -> VariantRow \cup {NULL}]
      BY <1>1, <1>4, <1>5 DEF TypeOK
  <2>3. work' \in [Requests \cup Guests -> WorkRow]
      BY <1>1, NoWorkKnows DEF TypeOK
  <2> QED
      BY <1>1, <2>1, <2>2, <2>3 DEF TypeOK
<1>7. \A v \in Variants : variant[v] # NULL => variant[v].product # p
    BY <1>1 DEF RequestsKnow
<1>8. \A q \in Products \ {p} : product'[q] = product[q]
    BY <1>1 DEF TypeOK
<1>9. DefaultIsEnabled'
  <2> SUFFICES ASSUME NEW q \in Products, product'[q] # NULL
               PROVE  \E v \in VariantsOf(q)' :
                         /\ variant'[v].default /\ variant'[v].enabled
                         /\ \A u \in VariantsOf(q)' \ {v} : ~ variant'[u].default
      BY DEF DefaultIsEnabled
  <2>1. CASE q = p
    <3>1. VariantsOf(q)' = new
        BY <1>4, <1>5, <1>7, <2>1 DEF VariantsOf
    <3>2. PICK v \in new : choice[v].default /\ choice[v].enabled
        BY <1>1
    <3>3. variant'[v].default /\ variant'[v].enabled
        BY <1>4, <3>2
    <3>4. ASSUME NEW u \in new \ {v} PROVE ~ variant'[u].default
      <4>1. ~ choice[u].default
          BY <1>1, <3>2
      <4> QED
          BY <1>4, <4>1
    <3> QED
        BY <3>1, <3>2, <3>3, <3>4
  <2>2. CASE q # p
      BY <1>4, <1>5, <1>8, <2>2, DefaultsStay
  <2> QED
      BY <2>1, <2>2
<1>10. RequestsKnow'
  <2>1. \A v \in Variants : variant'[v] # NULL => product'[variant'[v].product] # NULL
    <3>1. ASSUME NEW v \in Variants \ new, variant[v] # NULL
          PROVE  product'[variant[v].product] # NULL
        BY <1>7, <1>8, <3>1 DEF RequestsKnow, TypeOK, VariantRow
    <3> QED
        BY <1>3, <1>4, <1>5, <3>1
  <2>2. \A q \in Workers : work'[q] \in {work[q], NoWork}
      BY <1>1 DEF TypeOK, Workers
  <2>3. ASSUME NEW q \in Requests, work'[q] = work[q],
               work[q].pc \in {"write_variant", "check_default", "commit_variant"}
        PROVE  /\ work[q].variant \in Variants \ new
               /\ product[work[q].product] # NULL
               /\ work[q].product # p
      BY <1>1, <2>3 DEF New, RequestsKnow, KnowsVariant, Manages
  <2>4. ASSUME NEW q \in Requests, work'[q] = work[q],
               work[q].pc \in {"check_default", "commit_variant"},
               NEW v \in Variants, variant'[v] # NULL,
               variant'[v].product = work[q].product, variant'[v].default
        PROVE  /\ work[q].row.default => v \in work[q].seen \cup {work[q].variant}
               /\ work[q].pc = "commit_variant" /\ ~ work[q].row.default => v # work[q].variant
    <3>1. variant'[v] = variant[v]
        BY <1>4, <1>5, <2>3, <2>4
    <3> QED
        BY <2>4, <3>1 DEF RequestsKnow, KnowsVariant, HoldsDefault, KeepsDefault, Defaults, VariantsOf
  <2>5. \A v \in Variants : variant[v] # NULL =>
            variant'[v] # NULL /\ variant'[v].product = variant[v].product
      BY <1>4, <1>5
  <2>6. \A q \in Products : product[q] # NULL => product'[q] # NULL
      BY <1>3, <1>8
  <2> QED
      BY <1>5, <2>1, <2>2, <2>3, <2>4, <2>5, <2>6, OthersKnow
<1> QED
    BY <1>6, <1>9, <1>10
\* The commit of manage_variant: no other request has the default in its hands
\* when this one gives it away, nor was it given away since this one found it.
LEMMA CommitVariantIInv ==
    ASSUME IInv, NEW r \in Requests, CommitVariant(r)
    PROVE  IInv'
<1> USE DEF IInv
<1> DEFINE row == work[r]
           p == row.product
           v == row.variant
<1>1. /\ row.pc = "commit_variant" /\ variant' = View(r)
      /\ work' = [work EXCEPT ![r] = NoWork]
      /\ station' = station /\ product' = product /\ config' = config /\ queue' = queue
    BY DEF CommitVariant, Continue
<1>2. /\ p \in Products /\ product[p] # NULL /\ v \in Variants
      /\ row.row \in VariantRow /\ row.row.product = p
      /\ row.seen \subseteq VariantsOf(p)
      /\ variant[v] # NULL => v \in VariantsOf(p)
      /\ ~ row.row.default => row.seen = {}
      /\ Held(row) = row.seen \cup {v}
    BY <1>1 DEF RequestsKnow, KnowsVariant, Manages, Held
<1>3. /\ row.row.default => Defaults(p) \subseteq row.seen \cup {v}
      /\ row.row.default => row.row.enabled
      /\ ~ row.row.default => v \notin Defaults(p)
    BY <1>1 DEF RequestsKnow, KnowsVariant, HoldsDefault, KeepsDefault
<1>4. variant'[v] = row.row /\ row.row # NULL
    BY <1>1, <1>2, MenuAssumption DEF View
<1>5. ASSUME NEW u \in row.seen \ {v}
      PROVE  /\ u \in Variants /\ variant[u] # NULL /\ variant[u].product = p
             /\ variant'[u] \in VariantRow /\ variant'[u] # NULL
             /\ variant'[u].product = p /\ variant'[u].default = FALSE
  <2>1. u \in Variants /\ variant[u] # NULL /\ variant[u].product = p
      BY <1>2 DEF VariantsOf
  <2>2. variant'[u] = [variant[u] EXCEPT !.default = FALSE]
      BY <1>1, <2>1 DEF View
  <2>3. variant[u] \in VariantRow
      BY <2>1 DEF TypeOK
  <2>4. variant'[u] \in VariantRow /\ variant'[u].product = p /\ variant'[u].default = FALSE
      BY <2>1, <2>2, <2>3 DEF VariantRow
  <2> QED
      BY <2>1, <2>4, MenuAssumption
<1>6. \A u \in Variants \ (row.seen \cup {v}) : variant'[u] = variant[u]
    BY <1>1 DEF View
<1>7. TypeOK'
  <2>1. variant' \in [Variants -> VariantRow \cup {NULL}]
    <3>1. ASSUME NEW u \in Variants PROVE variant'[u] \in VariantRow \cup {NULL}
      <4>1. variant[u] \in VariantRow \cup {NULL}
          BY DEF TypeOK
      <4> QED
          BY <1>2, <1>4, <1>5, <1>6, <4>1
    <3>2. variant' = [u \in Variants |-> variant'[u]]
        BY <1>1 DEF View
    <3> QED
        BY <3>1, <3>2
  <2>2. work' \in [Requests \cup Guests -> WorkRow]
      BY <1>1, NoWorkKnows DEF TypeOK
  <2> QED
      BY <1>1, <2>1, <2>2 DEF TypeOK
<1> HIDE DEF row, p, v
<1>8. PICK d \in VariantsOf(p) :
          /\ variant[d].default /\ variant[d].enabled
          /\ \A u \in VariantsOf(p) \ {d} : ~ variant[u].default
    BY <1>2 DEF DefaultIsEnabled
<1>9. d \in Defaults(p) /\ d \in Variants /\ variant[d] # NULL /\ variant[d].product = p
    BY <1>8 DEF Defaults, VariantsOf
<1>10. ASSUME NEW u \in Variants, variant'[u] # NULL, variant'[u].product = p, u # v
       PROVE  u \in VariantsOf(p)
    BY <1>5, <1>6, <1>10 DEF VariantsOf
<1>11. DefaultIsEnabled'
  <2> SUFFICES ASSUME NEW q \in Products, product[q] # NULL
               PROVE  \E w \in VariantsOf(q)' :
                         /\ variant'[w].default /\ variant'[w].enabled
                         /\ \A u \in VariantsOf(q)' \ {w} : ~ variant'[u].default
      BY <1>1 DEF DefaultIsEnabled
  <2>1. CASE q = p /\ row.row.default
    <3>1. v \in VariantsOf(q)' /\ variant'[v].default /\ variant'[v].enabled
        BY <1>2, <1>3, <1>4, <2>1 DEF VariantsOf
    <3>2. ASSUME NEW u \in VariantsOf(q)' \ {v} PROVE ~ variant'[u].default
      <4>1. CASE u \in row.seen
          BY <1>5, <3>2, <4>1
      <4>2. CASE u \notin row.seen
        <5>1. u \in Variants /\ variant'[u] = variant[u] /\ u \in VariantsOf(p)
            BY <1>6, <1>10, <2>1, <3>2, <4>2 DEF VariantsOf
        <5>2. u \notin Defaults(p)
            BY <1>3, <2>1, <3>2, <4>2
        <5> QED
            BY <5>1, <5>2 DEF Defaults
      <4> QED
          BY <4>1, <4>2
    <3> QED
        BY <3>1, <3>2
  <2>2. CASE q = p /\ ~ row.row.default
    <3>1. row.seen = {} /\ d # v
        BY <1>2, <1>3, <1>9, <2>2
    <3>2. d \in VariantsOf(q)' /\ variant'[d] = variant[d]
        BY <1>6, <1>9, <2>2, <3>1 DEF VariantsOf
    <3>3. ASSUME NEW u \in VariantsOf(q)' \ {d} PROVE ~ variant'[u].default
      <4>1. CASE u = v
          BY <1>4, <2>2, <4>1
      <4>2. CASE u # v
        <5>1. u \in Variants /\ variant'[u] = variant[u] /\ u \in VariantsOf(p)
            BY <1>6, <1>10, <2>2, <3>1, <3>3, <4>2 DEF VariantsOf
        <5> QED
            BY <1>8, <3>3, <5>1
      <4> QED
          BY <4>1, <4>2
    <3> QED
        BY <1>8, <3>2, <3>3
  <2>3. CASE q # p
    <3>1. ASSUME NEW u \in Variants,
                 \/ variant[u] # NULL /\ variant[u].product = q
                 \/ variant'[u] # NULL /\ variant'[u].product = q
          PROVE  variant'[u] = variant[u]
      <4>1. u \notin row.seen \ {v}
          BY <1>5, <2>3, <3>1
      <4>2. u # v
          BY <1>2, <1>4, <2>3, <3>1 DEF VariantsOf
      <4> QED
          BY <1>6, <4>1, <4>2
    <3> QED
        BY <2>3, <3>1, DefaultsStay
  <2> QED
      BY <2>1, <2>2, <2>3
<1>12. \A u \in Variants : variant'[u] # NULL => product'[variant'[u].product] # NULL
  <2> SUFFICES ASSUME NEW u \in Variants, variant'[u] # NULL
               PROVE  product[variant'[u].product] # NULL
      BY <1>1
  <2> QED
      BY <1>2, <1>4, <1>5, <1>6 DEF RequestsKnow
<1>13. \A u \in Variants : variant[u] # NULL =>
           variant'[u] # NULL /\ variant'[u].product = variant[u].product
  <2> SUFFICES ASSUME NEW u \in Variants, variant[u] # NULL
               PROVE  variant'[u] # NULL /\ variant'[u].product = variant[u].product
      OBVIOUS
  <2>1. CASE u = v
      BY <1>2, <1>4, <2>1 DEF VariantsOf
  <2>2. CASE u # v
      BY <1>5, <1>6, <2>2
  <2> QED
      BY <2>1, <2>2
<1>14. work'[r] = NoWork /\ \A q \in Workers \ {r} : work'[q] = work[q]
    BY <1>1 DEF TypeOK, Workers
<1>15. NoWork.pc \notin {"write_variant", "check_default", "commit_variant"}
    BY DEF NoWork
<1>16. ASSUME NEW q \in Requests, work'[q] = work[q],
              work[q].pc \in {"write_variant", "check_default", "commit_variant"}
       PROVE  q # r /\ Apart(row, work[q]) /\ Manages(work[q])
  <2>1. q # r
      BY <1>14, <1>15, <1>16
  <2> QED
      BY <1>16, <2>1 DEF RequestsKnow, KnowsVariant, row
<1>17. ASSUME NEW q \in Requests, work'[q] = work[q],
              work[q].pc \in {"write_variant", "check_default", "commit_variant"},
              variant[work[q].variant] = NULL
       PROVE  variant'[work[q].variant] = NULL
  <2>1. work[q].variant \in Variants /\ work[q].variant # NULL
      BY <1>16, <1>17, MenuAssumption DEF Manages
  <2>2. work[q].variant # v
      BY <1>16, <1>17, <2>1 DEF Apart, v
  <2>3. work[q].variant \notin row.seen
      BY <1>2, <1>17 DEF VariantsOf
  <2> QED
      BY <1>6, <1>17, <2>1, <2>2, <2>3
<1>18. ASSUME NEW q \in Requests, work'[q] = work[q],
              work[q].pc \in {"check_default", "commit_variant"},
              NEW w \in Variants, variant'[w] # NULL,
              variant'[w].product = work[q].product, variant'[w].default
       PROVE  /\ work[q].row.default => w \in work[q].seen \cup {work[q].variant}
              /\ work[q].pc = "commit_variant" /\ ~ work[q].row.default => w # work[q].variant
  <2>1. Held(work[q]) = work[q].seen \cup {work[q].variant} /\ Held(work[q]) \cap Held(row) = {}
      BY <1>16, <1>18 DEF Held, Apart
  <2>2. work[q].row.default => Defaults(work[q].product) \subseteq work[q].seen \cup {work[q].variant}
      BY <1>18 DEF RequestsKnow, KnowsVariant, HoldsDefault
  <2>3. CASE w = v
    <3>1. row.row.default /\ work[q].product = p
        BY <1>2, <1>4, <1>18, <2>3
    <3>2. ~ work[q].row.default
        BY <1>2, <1>3, <1>9, <2>1, <2>2, <3>1
    <3>3. w # work[q].variant
        BY <1>2, <2>1, <2>3
    <3> QED
        BY <3>2, <3>3
  <2>4. CASE w \in row.seen \ {v}
    <3>1. variant'[w].default = FALSE
        BY <1>5, <2>4
    <3> QED
        BY <1>18, <3>1
  <2>5. CASE w \notin row.seen \cup {v}
    <3>1. variant'[w] = variant[w]
        BY <1>6, <2>5
    <3>2. w \in Defaults(work[q].product)
        BY <1>18, <3>1 DEF Defaults, VariantsOf
    <3> QED
        BY <1>18, <2>2, <3>2 DEF RequestsKnow, KnowsVariant, KeepsDefault
  <2> QED
      BY <2>3, <2>4, <2>5
<1>19. RequestsKnow'
  <2>1. \A q \in Workers : work'[q] \in {work[q], NoWork}
      BY <1>14
  <2>2. \A q \in Products : product[q] # NULL => product'[q] # NULL
      BY <1>1
  <2> QED
      BY <1>12, <1>13, <1>17, <1>18, <2>1, <2>2, OthersKnow
<1> QED
    BY <1>7, <1>11, <1>19
-----------------------------------------------------------------------------
\* manage_variant before its commit: the variant it names is its product's or
\* nobody's, and the rows it writes are free when it takes them.
LEMMA VariantStepIInv ==
    ASSUME IInv, NEW r \in Requests, VariantStep(r)
    PROVE  IInv'
<1> USE DEF IInv
<1>1. ASSUME NEW p \in Products, NEW v \in Variants, NEW choice \in Choice,
             BeginVariant(r, p, v, choice)
      PROVE  IInv'
  <2> DEFINE seen == IF choice.default THEN VariantsOf(p) ELSE {}
             row == [NoWork EXCEPT !.pc = "write_variant", !.product = p, !.variant = v,
                        !.row = [product |-> p, default |-> choice.default,
                                 enabled |-> choice.enabled],
                        !.seen = seen]
  <2>1. product[p] # NULL /\ (v \in VariantsOf(p) \/ New(v)) /\ Go(r, row)
      BY <1>1 DEF BeginVariant
  <2>2. [product |-> p, default |-> choice.default, enabled |-> choice.enabled] \in VariantRow
      BY DEF Choice, VariantRow
  <2>3. seen \subseteq VariantsOf(p) /\ seen \subseteq Variants /\ (~ choice.default => seen = {})
      BY DEF VariantsOf
  <2> HIDE DEF seen
  <2>4. row \in WorkRow
      BY <2>2, <2>3 DEF WorkRow, NoWork
  <2>5. /\ row.pc = "write_variant" /\ row.product = p /\ row.variant = v /\ row.seen = seen
        /\ row.row = [product |-> p, default |-> choice.default, enabled |-> choice.enabled]
      BY DEF NoWork
  <2>6. row.row \in VariantRow /\ row.row.product = p /\ row.row.default = choice.default
      BY <2>2, <2>5
  <2> HIDE DEF row
  <2>7. variant[v] # NULL => v \in VariantsOf(p)
      BY <2>1 DEF New
  <2>8. KnowsVariant(row) /\ KnowsPlace(row)
      BY <2>1, <2>3, <2>5, <2>6, <2>7 DEF KnowsVariant, KnowsPlace, Manages
  <2>9. ASSUME NEW q \in Requests \ {r} PROVE Apart(work[q], row) /\ Apart(row, work[q])
    <3>1. Held(row) = {}
        BY <2>5 DEF Held
    <3>2. work[q].variant = v => variant[v] # NULL
        BY <2>1 DEF New, VariantsOf
    <3> QED
        BY <2>5, <3>1, <3>2 DEF Apart
  <2> QED
      BY <2>1, <2>4, <2>8, <2>9, RequestGoesOn DEF Workers
<1>2. ASSUME NEW pc \in {"check_default", "commit_variant"},
             work[r].pc \in {"write_variant", "check_default"},
             Go(r, [work[r] EXCEPT !.pc = pc]), Manages(work[r]) => HoldsDefault(work[r]),
             pc = "commit_variant" => KeepsDefault(work[r]),
             \A q \in Requests \ {r} :
                 (work[r].seen \cup {work[r].variant}) \cap Held(work[q]) = {}
      PROVE  IInv'
  <2> DEFINE row == [work[r] EXCEPT !.pc = pc]
  <2>1. row \in WorkRow
      BY <1>2 DEF TypeOK, WorkRow
  <2>2. /\ row.pc = pc /\ row.product = work[r].product /\ row.variant = work[r].variant
        /\ row.row = work[r].row /\ row.seen = work[r].seen
      BY DEF TypeOK, WorkRow
  <2>3. Go(r, row)
      BY <1>2
  <2> HIDE DEF row
  <2>4. Manages(work[r])
      BY <1>2 DEF RequestsKnow, KnowsVariant
  <2>5. KnowsVariant(row) /\ KnowsPlace(row)
      BY <1>2, <2>2, <2>4
      DEF KnowsVariant, KnowsPlace, Manages, HoldsDefault, KeepsDefault
  <2>6. ASSUME NEW q \in Requests \ {r} PROVE Apart(work[q], row) /\ Apart(row, work[q])
    <3>1. Held(row) = work[r].seen \cup {work[r].variant}
        BY <1>2, <2>2 DEF Held
    <3>2. Apart(work[q], work[r]) /\ Apart(work[r], work[q])
        BY DEF RequestsKnow
    <3>3. Held(row) \cap Held(work[q]) = {}
        BY <1>2, <3>1
    <3> QED
        BY <2>2, <3>2, <3>3 DEF Apart
  <2> QED
      BY <2>1, <2>3, <2>5, <2>6, RequestGoesOn DEF Workers
<1>3. CASE WriteVariant(r)
  <2>1. /\ work[r].pc = "write_variant"
        /\ \A q \in Requests \ {r} :
               (work[r].seen \cup {work[r].variant}) \cap Held(work[q]) = {}
        /\ work[r].row.default =>
               \A v \in VariantsOf(work[r].product) \ (work[r].seen \cup {work[r].variant}) :
                   ~ variant[v].default
        /\ Go(r, [work[r] EXCEPT !.pc = "check_default"])
      BY <1>3 DEF WriteVariant
  <2>2. HoldsDefault(work[r])
      BY <2>1 DEF HoldsDefault, Defaults
  <2> QED
      BY <1>2, <2>1, <2>2
<1>4. CASE CheckDefault(r)
  <2>1. PICK x \in Variants : /\ View(r)[x] # NULL
                              /\ View(r)[x].product = work[r].product
                              /\ View(r)[x].default /\ View(r)[x].enabled
      BY <1>4 DEF CheckDefault
  <2>2. work[r].pc = "check_default" /\ Go(r, [work[r] EXCEPT !.pc = "commit_variant"])
      BY <1>4 DEF CheckDefault
  <2>3. Manages(work[r]) /\ HoldsDefault(work[r]) /\ Held(work[r]) = work[r].seen \cup {work[r].variant}
      BY <2>2 DEF RequestsKnow, KnowsVariant, Held
  <2>4. ASSUME NEW q \in Requests \ {r}
        PROVE  (work[r].seen \cup {work[r].variant}) \cap Held(work[q]) = {}
      BY <2>3 DEF RequestsKnow, Apart
  <2>5. x # work[r].variant => x \notin work[r].seen
    <3> SUFFICES ASSUME x # work[r].variant, x \in work[r].seen PROVE FALSE
        OBVIOUS
    <3>1. View(r)[x] = [variant[x] EXCEPT !.default = FALSE]
        BY DEF View
    <3>2. variant[x] \in VariantRow
        BY <2>3 DEF Manages, VariantsOf, TypeOK
    <3>3. View(r)[x].default = FALSE
        BY <3>1, <3>2 DEF VariantRow
    <3> QED
        BY <2>1, <3>3
  <2>6. x # work[r].variant => x \in Defaults(work[r].product)
    <3> SUFFICES ASSUME x # work[r].variant PROVE x \in Defaults(work[r].product)
        OBVIOUS
    <3>1. View(r)[x] = variant[x]
        BY <2>5 DEF View
    <3> QED
        BY <2>1, <3>1 DEF Defaults, VariantsOf
  <2>7. x = work[r].variant => work[r].row.default /\ work[r].row.enabled
    <3> SUFFICES ASSUME x = work[r].variant PROVE work[r].row.default /\ work[r].row.enabled
        OBVIOUS
    <3>1. View(r)[x] = work[r].row
        BY DEF View
    <3> QED
        BY <2>1, <3>1
  <2>8. KeepsDefault(work[r])
    <3>1. CASE work[r].row.default
      <4>1. x = work[r].variant
          BY <2>3, <2>5, <2>6, <3>1 DEF HoldsDefault
      <4> QED
          BY <2>7, <3>1, <4>1 DEF KeepsDefault
    <3>2. CASE ~ work[r].row.default
      <4>1. x # work[r].variant /\ x \in Defaults(work[r].product)
          BY <2>6, <2>7, <3>2
      <4>2. work[r].product \in Products /\ product[work[r].product] # NULL
          BY <2>3 DEF Manages
      <4>3. \A u \in Defaults(work[r].product) : u = x
          BY <4>1, <4>2 DEF DefaultIsEnabled, Defaults
      <4> QED
          BY <3>2, <4>1, <4>3 DEF KeepsDefault
    <3> QED
        BY <3>1, <3>2
  <2> QED
      BY <1>2, <2>2, <2>3, <2>4, <2>8
<1> QED
    BY <1>1, <1>3, <1>4, CommitVariantIInv DEF VariantStep
-----------------------------------------------------------------------------
\* Stations and the queue say nothing about what a request relies on.
LEMMA StationStepIInv ==
    ASSUME IInv, NEW r \in Requests, StationStep(r)
    PROVE  IInv'
<1> USE DEF IInv
<1>1. ASSUME NEW s \in Stations, BeginDisableStation(r, s)
      PROVE  IInv'
  <2> DEFINE row == [NoWork EXCEPT !.pc = "count_queue", !.station = s]
  <2>1. row \in WorkRow /\ row.pc = "count_queue" /\ row.variant = NULL
      BY DEF NoWork, WorkRow
  <2>2. Go(r, row)
      BY <1>1 DEF BeginDisableStation
  <2> HIDE DEF row
  <2> QED
      BY <2>1, <2>2, GoesOnElsewhere DEF KnowsPlace, Workers
<1>2. CASE CountQueue(r)
  <2> DEFINE row == [work[r] EXCEPT !.pc = "disable_station"]
  <2>1. work[r].pc = "count_queue" /\ Go(r, row)
      BY <1>2 DEF CountQueue
  <2>2. row \in WorkRow /\ row.pc = "disable_station" /\ row.variant = work[r].variant
      BY DEF TypeOK, WorkRow
  <2> HIDE DEF row
  <2>3. KnowsVariant(row) /\ KnowsPlace(row) /\ Held(row) = {}
      BY <2>2 DEF KnowsVariant, KnowsPlace, Held
  <2>4. ASSUME NEW q \in Requests \ {r} PROVE Apart(work[q], row) /\ Apart(row, work[q])
      BY <2>2, <2>3 DEF RequestsKnow, Apart
  <2> QED
      BY <2>1, <2>2, <2>3, <2>4, RequestGoesOn DEF Workers
<1>3. CASE DisableStation(r)
  <2>1. /\ station' = [station EXCEPT ![work[r].station] = FALSE]
        /\ work' = [work EXCEPT ![r] = NoWork]
        /\ product' = product /\ variant' = variant /\ config' = config /\ queue' = queue
      BY <1>3 DEF DisableStation, Continue
  <2>2. TypeOK'
    <3>1. station' \in [Stations -> BOOLEAN \cup {NULL}]
        BY <2>1 DEF TypeOK
    <3>2. work' \in [Requests \cup Guests -> WorkRow]
        BY <2>1, NoWorkKnows DEF TypeOK
    <3> QED
        BY <2>1, <3>1, <3>2 DEF TypeOK
  <2>3. \A q \in Workers : work'[q] \in {work[q], NoWork}
      BY <2>1 DEF TypeOK, Workers
  <2> QED
      BY <2>1, <2>2, <2>3, NoVariantWritten
<1> QED
    BY <1>1, <1>2, <1>3 DEF StationStep

\* Products change their route and whether they are enabled, and stay.
LEMMA ProductStepIInv ==
    ASSUME IInv, NEW r \in Requests, ProductStep(r)
    PROVE  IInv'
<1> USE DEF IInv
<1>1. ASSUME NEW s \in Stations, BeginCreateProduct(r, s)
      PROVE  IInv'
  <2> DEFINE row == [NoWork EXCEPT !.pc = "create_product", !.station = s]
  <2>1. row \in WorkRow /\ row.pc = "create_product" /\ row.variant = NULL /\ row.station = s
      BY DEF NoWork, WorkRow
  <2>2. Go(r, row)
      BY <1>1 DEF BeginCreateProduct
  <2> HIDE DEF row
  <2> QED
      BY <2>1, <2>2, GoesOnElsewhere DEF KnowsPlace, Workers
<1>2. ASSUME NEW p \in Products, NEW s \in Stations \cup {NULL},
             NEW enabled \in BOOLEAN \cup {NULL}, BeginUpdateProduct(r, p, s, enabled)
      PROVE  IInv'
  <2> DEFINE to == [station |-> IF s = NULL THEN product[p].station ELSE s,
                    enabled |-> IF enabled = NULL THEN product[p].enabled ELSE enabled]
             row == [NoWork EXCEPT !.pc = "check_station", !.product = p, !.row = to]
  <2>1. product[p] \in ProductRow
      BY <1>2 DEF BeginUpdateProduct, TypeOK
  <2>2. to \in ProductRow
      BY <2>1 DEF ProductRow
  <2>3. Go(r, row)
      BY <1>2 DEF BeginUpdateProduct
  <2> HIDE DEF to
  <2>4. /\ row \in WorkRow /\ row.pc = "check_station" /\ row.variant = NULL
        /\ row.product = p /\ row.row = to
      BY <2>2 DEF NoWork, WorkRow
  <2> HIDE DEF row
  <2>5. KnowsPlace(row)
      BY <1>2, <2>2, <2>4 DEF KnowsPlace, BeginUpdateProduct
  <2> QED
      BY <2>3, <2>4, <2>5, GoesOnElsewhere DEF Workers
<1>3. CASE CheckStation(r)
  <2> DEFINE row == [work[r] EXCEPT !.pc = "write_product"]
  <2>1. work[r].pc = "check_station" /\ Go(r, row)
      BY <1>3 DEF CheckStation
  <2>2. /\ row \in WorkRow /\ row.pc = "write_product" /\ row.variant = work[r].variant
        /\ row.product = work[r].product /\ row.row = work[r].row
      BY DEF TypeOK, WorkRow
  <2> HIDE DEF row
  <2>3. KnowsVariant(row) /\ Held(row) = {}
      BY <2>2 DEF KnowsVariant, Held
  <2>4. KnowsPlace(row)
      BY <2>1, <2>2 DEF RequestsKnow, KnowsPlace
  <2>5. ASSUME NEW q \in Requests \ {r} PROVE Apart(work[q], row) /\ Apart(row, work[q])
      BY <2>2, <2>3 DEF RequestsKnow, Apart
  <2> QED
      BY <2>1, <2>2, <2>3, <2>4, <2>5, RequestGoesOn DEF Workers
<1>4. CASE WriteProduct(r)
  <2>1. /\ work[r].pc = "write_product"
        /\ product' = [product EXCEPT ![work[r].product] = work[r].row]
        /\ work' = [work EXCEPT ![r] = NoWork]
        /\ station' = station /\ variant' = variant /\ config' = config /\ queue' = queue
      BY <1>4 DEF WriteProduct, Continue
  <2>2. /\ work[r].product \in Products /\ product[work[r].product] # NULL
        /\ work[r].row \in ProductRow /\ work[r].row # NULL
      BY <2>1, MenuAssumption DEF RequestsKnow, KnowsPlace
  <2>3. TypeOK'
    <3>1. product' \in [Products -> ProductRow \cup {NULL}]
        BY <2>1, <2>2 DEF TypeOK
    <3>2. work' \in [Requests \cup Guests -> WorkRow]
        BY <2>1, NoWorkKnows DEF TypeOK
    <3> QED
        BY <2>1, <3>1, <3>2 DEF TypeOK
  <2>4. \A q \in Workers : work'[q] \in {work[q], NoWork}
      BY <2>1 DEF TypeOK, Workers
  <2>5. \A q \in Products : product[q] # NULL <=> product'[q] # NULL
      BY <2>1, <2>2 DEF TypeOK
  <2> QED
      BY <2>1, <2>3, <2>4, <2>5, NoVariantWritten
<1> QED
    BY <1>1, <1>2, <1>3, <1>4, CreateProductIInv DEF ProductStep

\* The modifiers of a product.
LEMMA ModifierStepIInv ==
    ASSUME IInv, NEW r \in Requests, ModifierStep(r)
    PROVE  IInv'
<1> USE DEF IInv
<1>1. ASSUME NEW p \in Products, BeginModifiers(r, p)
      PROVE  IInv'
  <2> DEFINE row == [NoWork EXCEPT !.pc = "replace_modifiers", !.product = p, !.seen = config[p]]
  <2>1. row \in WorkRow /\ row.pc = "replace_modifiers" /\ row.variant = NULL
      BY DEF NoWork, WorkRow, TypeOK
  <2>2. Go(r, row)
      BY <1>1 DEF BeginModifiers
  <2> HIDE DEF row
  <2> QED
      BY <2>1, <2>2, GoesOnElsewhere DEF KnowsPlace, Workers
<1>2. ASSUME NEW c \in Configs, ReplaceModifiers(r, c)
      PROVE  IInv'
  <2>1. /\ config' = [config EXCEPT ![work[r].product] = (@ \ work[r].seen) \cup {c}]
        /\ work' = [work EXCEPT ![r] = NoWork]
        /\ station' = station /\ product' = product /\ variant' = variant /\ queue' = queue
      BY <1>2 DEF ReplaceModifiers, Continue
  <2>2. TypeOK'
    <3>1. config' \in [Products -> SUBSET Configs]
        BY <2>1 DEF TypeOK
    <3>2. work' \in [Requests \cup Guests -> WorkRow]
        BY <2>1, NoWorkKnows DEF TypeOK
    <3> QED
        BY <2>1, <3>1, <3>2 DEF TypeOK
  <2>3. \A q \in Workers : work'[q] \in {work[q], NoWork}
      BY <2>1 DEF TypeOK, Workers
  <2> QED
      BY <2>1, <2>2, <2>3, NoVariantWritten
<1> QED
    BY <1>1, <1>2 DEF ModifierStep

\* A guest's order goes to the station that the product was routed to.
LEMMA OrderStepIInv ==
    ASSUME IInv, NEW g \in Guests, OrderStep(g)
    PROVE  IInv'
<1> USE DEF IInv
<1>1. ASSUME NEW p \in Products, BeginOrder(g, p)
      PROVE  IInv'
  <2> DEFINE row == [NoWork EXCEPT !.pc = "order", !.station = product[p].station]
  <2>1. product[p].station \in Stations
      BY <1>1 DEF BeginOrder, TypeOK, ProductRow
  <2>2. /\ row \in WorkRow /\ row.pc = "order" /\ row.variant = NULL
        /\ row.station = product[p].station
      BY <2>1 DEF NoWork, WorkRow
  <2>3. Go(g, row)
      BY <1>1 DEF BeginOrder
  <2> HIDE DEF row
  <2>4. KnowsPlace(row)
      BY <2>1, <2>2 DEF KnowsPlace
  <2> QED
      BY <2>2, <2>3, <2>4, GoesOnElsewhere DEF Workers
<1>2. ASSUME NEW i \in Items, CommitOrder(g, i)
      PROVE  IInv'
  <2>1. /\ work[g].pc = "order"
        /\ queue' = [queue EXCEPT ![i] = work[g].station]
        /\ work' = [work EXCEPT ![g] = NoWork]
        /\ station' = station /\ product' = product /\ variant' = variant /\ config' = config
      BY <1>2 DEF CommitOrder, Continue
  <2>2. TypeOK'
    <3>1. work[g].station \in Stations
        BY <2>1 DEF RequestsKnow, KnowsPlace
    <3>2. queue' \in [Items -> Stations \cup {NULL}]
        BY <2>1, <3>1 DEF TypeOK
    <3>3. work' \in [Requests \cup Guests -> WorkRow]
        BY <2>1, NoWorkKnows DEF TypeOK
    <3> QED
        BY <2>1, <3>2, <3>3 DEF TypeOK
  <2>3. \A q \in Workers : work'[q] \in {work[q], NoWork}
      BY <2>1 DEF TypeOK, Workers
  <2> QED
      BY <2>1, <2>2, <2>3, NoVariantWritten
<1> QED
    BY <1>1, <1>2 DEF OrderStep

\* What is done in one transaction: a new station, a product disabled, an item prepared.
LEMMA SingleStepIInv ==
    ASSUME IInv,
           \/ \E s \in Stations : CreateStation(s)
           \/ \E p \in Products : DisableProduct(p)
           \/ \E i \in Items : Prepare(i)
    PROVE  IInv'
<1> USE DEF IInv
<1>1. ASSUME NEW s \in Stations, CreateStation(s)
      PROVE  IInv'
  <2>1. TypeOK'
      BY <1>1 DEF CreateStation, TypeOK
  <2> QED
      BY <1>1, <2>1, NoVariantWritten DEF CreateStation
<1>2. ASSUME NEW p \in Products, DisableProduct(p)
      PROVE  IInv'
  <2>1. /\ product[p] # NULL /\ product' = [product EXCEPT ![p].enabled = FALSE]
        /\ station' = station /\ variant' = variant /\ config' = config
        /\ queue' = queue /\ work' = work
      BY <1>2 DEF DisableProduct
  <2>2. product[p] \in ProductRow
      BY <2>1 DEF TypeOK
  <2>3. product'[p] = [product[p] EXCEPT !.enabled = FALSE]
      BY <2>1 DEF TypeOK
  <2>4. product'[p] \in ProductRow
      BY <2>2, <2>3 DEF ProductRow
  <2>5. product'[p] # NULL
      BY <2>4, MenuAssumption
  <2>6. \A q \in Products \ {p} : product'[q] = product[q]
      BY <2>1 DEF TypeOK
  <2>7. product' \in [Products -> ProductRow \cup {NULL}]
      BY <2>1, <2>4, <2>6 DEF TypeOK
  <2>8. TypeOK'
      BY <2>1, <2>7 DEF TypeOK
  <2> QED
      BY <2>1, <2>5, <2>6, <2>8, NoVariantWritten
<1>3. ASSUME NEW i \in Items, Prepare(i)
      PROVE  IInv'
  <2>1. TypeOK'
      BY <1>3 DEF Prepare, TypeOK
  <2> QED
      BY <1>3, <2>1, NoVariantWritten DEF Prepare
<1> QED
    BY <1>1, <1>2, <1>3

LEMMA NextIInv == IInv /\ [Next]_menuVars => IInv'
<1> SUFFICES ASSUME IInv, [Next]_menuVars PROVE IInv'
    OBVIOUS
<1>1. ASSUME NEW r \in Requests \cup Guests, Fail(r)
      PROVE  IInv'
    BY <1>1, NothingWritten DEF Fail, Workers
<1>2. CASE UNCHANGED menuVars
  <2>1. /\ station' = station /\ product' = product /\ variant' = variant
        /\ config' = config /\ queue' = queue /\ work' = work
      BY <1>2 DEF menuVars
  <2>2. TypeOK'
      BY <2>1 DEF IInv, TypeOK
  <2> QED
      BY <2>1, <2>2, NoVariantWritten
<1> QED
    BY <1>1, <1>2, SingleStepIInv, StationStepIInv, ProductStepIInv, VariantStepIInv,
       ModifierStepIInv, OrderStepIInv, MenuAssumption DEF Next

-----------------------------------------------------------------------------
\* Whatever is in flight, the committed rows are well-formed, every product has
\* one enabled default, and the requests know what they rely on.
THEOREM SpecIInv == Spec => []IInv
<1> QED
    BY InitIInv, NextIInv, PTL DEF Spec

\* Every variable of the catalogue keeps its type.
THEOREM TypeCorrect == Spec => []TypeOK
<1>1. IInv => TypeOK
    BY DEF IInv
<1> QED
    BY <1>1, SpecIInv, PTL

(***************************************************************************)
(* manage_variant and create_product_service never leave a product without *)
(* its one enabled default variant, for any number of administrators.      *)
(***************************************************************************)
THEOREM DefaultStaysEnabled == Spec => []DefaultIsEnabled
<1>1. IInv => DefaultIsEnabled
    BY DEF IInv
<1> QED
    BY <1>1, SpecIInv, PTL

-----------------------------------------------------------------------------
(***************************************************************************)
(* The routes: what a request's row says it will do to a station, and one  *)
(* station's part of the property.                                         *)
(***************************************************************************)
Routes(row, s) ==
    \/ row.pc = "create_product" /\ row.station = s
    \/ row.pc = "write_product" /\ row.row.enabled /\ row.row.station = s

Closes(row, s) == row.pc \in {"count_queue", "disable_station"} /\ row.station = s

StraysByRace(s) ==
    /\ ~ Enabled(s) =>
          /\ Routing(s)' \subseteq Routing(s)
          /\ ~ (Served(s)' \subseteq Served(s)) => Routing(s)' # Routing(s)
    /\ Served(s) # {} =>
          /\ Closing(s)' \subseteq Closing(s)
          /\ Enabled(s) /\ ~ Enabled(s)' => Closing(s)' # Closing(s)

\* A step of one request: it comes to route to an enabled station only and to
\* close one without products only, and a product or a disabling is its last step.
LEMMA RequestStrays ==
    ASSUME IInv, NEW s \in Stations, NEW r \in Requests \cup Guests, NEW row, Continue(r, row),
           r \in Requests /\ Routes(row, s) => Enabled(s) \/ Routes(work[r], s),
           r \in Requests /\ Closes(row, s) => Served(s) = {} \/ Closes(work[r], s),
           \/ Served(s)' \subseteq Served(s)
           \/ r \in Requests /\ Routes(work[r], s) /\ ~ Routes(row, s),
           \/ Enabled(s) => Enabled(s)'
           \/ r \in Requests /\ Closes(work[r], s) /\ ~ Closes(row, s)
    PROVE  StraysByRace(s)
<1>1. work'[r] = row /\ \A q \in Requests \ {r} : work'[q] = work[q]
    BY MenuAssumption DEF Continue, IInv, TypeOK
<1>2. Routing(s) = {q \in Requests : Routes(work[q], s)}
    BY DEF Routing, Routes
<1>3. Routing(s)' = {q \in Requests : Routes(work'[q], s)}
    BY DEF Routing, Routes
<1>4. Closing(s) = {q \in Requests : Closes(work[q], s)}
    BY DEF Closing, Closes
<1>5. Closing(s)' = {q \in Requests : Closes(work'[q], s)}
    BY DEF Closing, Closes
<1>6. ASSUME ~ Enabled(s)
      PROVE  /\ Routing(s)' \subseteq Routing(s)
             /\ ~ (Served(s)' \subseteq Served(s)) => Routing(s)' # Routing(s)
    BY <1>1, <1>2, <1>3, <1>6
<1>7. ASSUME Served(s) # {}
      PROVE  /\ Closing(s)' \subseteq Closing(s)
             /\ Enabled(s) /\ ~ Enabled(s)' => Closing(s)' # Closing(s)
    BY <1>1, <1>4, <1>5, <1>7
<1> QED
    BY <1>6, <1>7 DEF StraysByRace

\* A request that neither writes a station or a product nor comes to rely on one.
LEMMA ReadStrays ==
    ASSUME IInv, NEW s \in Stations, NEW r \in Requests \cup Guests, NEW row, Continue(r, row),
           UNCHANGED <<station, product>>,
           r \in Requests /\ Routes(row, s) => Enabled(s) \/ Routes(work[r], s),
           r \in Requests /\ Closes(row, s) => Served(s) = {} \/ Closes(work[r], s)
    PROVE  StraysByRace(s)
<1>1. Served(s)' = Served(s) /\ (Enabled(s) => Enabled(s)')
    BY DEF Served, Enabled
<1> QED
    BY <1>1, RequestStrays

LEMMA NoWorkStrays == \A s : ~ Routes(NoWork, s) /\ ~ Closes(NoWork, s)
<1> QED
    BY DEF Routes, Closes, NoWork

LEMMA ElsewhereStrays ==
    ASSUME IInv, NEW s \in Stations, NEW r \in Requests \cup Guests, NEW row, Continue(r, row),
           UNCHANGED <<station, product>>,
           row.pc \notin {"count_queue", "disable_station", "create_product", "write_product"}
    PROVE  StraysByRace(s)
<1>1. ~ Routes(row, s) /\ ~ Closes(row, s)
    BY DEF Routes, Closes
<1> QED
    BY <1>1, ReadStrays

LEMMA EndStrays ==
    ASSUME IInv, NEW s \in Stations, NEW r \in Requests \cup Guests, Continue(r, NoWork),
           UNCHANGED <<station, product>>
    PROVE  StraysByRace(s)
<1> QED
    BY NoWorkStrays, ReadStrays

\* The requests stay as they are, no product comes to a station and none is disabled.
LEMMA StationStrays ==
    ASSUME NEW s \in Stations, work' = work, Served(s)' \subseteq Served(s),
           Enabled(s) => Enabled(s)'
    PROVE  StraysByRace(s)
<1>1. Routing(s)' = Routing(s) /\ Closing(s)' = Closing(s)
    BY DEF Routing, Closing
<1> QED
    BY <1>1 DEF StraysByRace

LEMMA StationStepStrays ==
    ASSUME IInv, NEW s \in Stations, NEW r \in Requests, StationStep(r)
    PROVE  StraysByRace(s)
<1> USE MenuAssumption
<1>1. ASSUME NEW t \in Stations, BeginDisableStation(r, t) PROVE StraysByRace(s)
  <2> DEFINE row == [NoWork EXCEPT !.pc = "count_queue", !.station = t]
  <2>1. row.pc = "count_queue" /\ row.station = t
      BY DEF NoWork
  <2>2. Continue(r, row) /\ UNCHANGED <<station, product>>
      BY <1>1 DEF BeginDisableStation, Go, menuRows
  <2>3. Served(t) = {}
      BY <1>1 DEF BeginDisableStation, Served
  <2>4. ~ Routes(row, s) /\ (Closes(row, s) => Served(s) = {})
      BY <2>1, <2>3 DEF Routes, Closes
  <2> HIDE DEF row
  <2> QED
      BY <2>2, <2>4, ReadStrays
<1>2. CASE CountQueue(r)
  <2> DEFINE row == [work[r] EXCEPT !.pc = "disable_station"]
  <2>1. /\ row.pc = "disable_station" /\ row.station = work[r].station
        /\ work[r].pc = "count_queue"
      BY <1>2 DEF CountQueue, IInv, TypeOK, WorkRow
  <2>2. Continue(r, row) /\ UNCHANGED <<station, product>>
      BY <1>2 DEF CountQueue, Go, menuRows
  <2>3. ~ Routes(row, s) /\ (Closes(row, s) => Closes(work[r], s))
      BY <2>1 DEF Routes, Closes
  <2> HIDE DEF row
  <2> QED
      BY <2>2, <2>3, ReadStrays
<1>3. CASE DisableStation(r)
  <2>1. /\ work[r].pc = "disable_station" /\ Continue(r, NoWork) /\ product' = product
        /\ \A t \in Stations \ {work[r].station} : station'[t] = station[t]
      BY <1>3 DEF DisableStation, IInv, TypeOK
  <2>2. Served(s)' = Served(s)
      BY <2>1 DEF Served
  <2>3. (Enabled(s) => Enabled(s)') \/ Closes(work[r], s)
      BY <2>1 DEF Enabled, Closes
  <2> QED
      BY <2>1, <2>2, <2>3, NoWorkStrays, RequestStrays
<1> QED
    BY <1>1, <1>2, <1>3 DEF StationStep

LEMMA ProductStepStrays ==
    ASSUME IInv, NEW s \in Stations, NEW r \in Requests, ProductStep(r)
    PROVE  StraysByRace(s)
<1> USE MenuAssumption
<1>1. ASSUME NEW t \in Stations, BeginCreateProduct(r, t) PROVE StraysByRace(s)
  <2> DEFINE row == [NoWork EXCEPT !.pc = "create_product", !.station = t]
  <2>1. row.pc = "create_product" /\ row.station = t
      BY DEF NoWork
  <2>2. Continue(r, row) /\ UNCHANGED <<station, product>> /\ Enabled(t)
      BY <1>1 DEF BeginCreateProduct, Go, menuRows
  <2>3. ~ Closes(row, s) /\ (Routes(row, s) => Enabled(s))
      BY <2>1, <2>2 DEF Routes, Closes
  <2> HIDE DEF row
  <2> QED
      BY <2>2, <2>3, ReadStrays
<1>2. ASSUME NEW p \in Products, NEW new \in SUBSET Variants, NEW choice \in [new -> Choice],
             CreateProduct(r, p, choice)
      PROVE  StraysByRace(s)
  <2>1. /\ work[r].pc = "create_product" /\ Continue(r, NoWork) /\ station' = station
        /\ product'[p].station = work[r].station
        /\ \A q \in Products \ {p} : product'[q] = product[q]
      BY <1>2 DEF CreateProduct, IInv, TypeOK
  <2>2. Enabled(s) => Enabled(s)'
      BY <2>1 DEF Enabled
  <2>3. Served(s)' \subseteq Served(s) \/ Routes(work[r], s)
      BY <2>1 DEF Served, Routes
  <2> QED
      BY <2>1, <2>2, <2>3, NoWorkStrays, RequestStrays
<1>3. ASSUME NEW p \in Products, NEW t \in Stations \cup {NULL},
             NEW enabled \in BOOLEAN \cup {NULL}, BeginUpdateProduct(r, p, t, enabled)
      PROVE  StraysByRace(s)
  <2> DEFINE to == [station |-> IF t = NULL THEN product[p].station ELSE t,
                    enabled |-> IF enabled = NULL THEN product[p].enabled ELSE enabled]
             row == [NoWork EXCEPT !.pc = "check_station", !.product = p, !.row = to]
  <2>1. Continue(r, row) /\ UNCHANGED <<station, product>>
      BY <1>3 DEF BeginUpdateProduct, Go, menuRows
  <2> HIDE DEF to
  <2>2. row.pc = "check_station"
      BY DEF NoWork
  <2> HIDE DEF row
  <2> QED
      BY <2>1, <2>2, ElsewhereStrays
<1>4. CASE CheckStation(r)
  <2> DEFINE row == [work[r] EXCEPT !.pc = "write_product"]
  <2>1. row.pc = "write_product" /\ row.row = work[r].row
      BY DEF IInv, TypeOK, WorkRow
  <2>2. /\ Continue(r, row) /\ UNCHANGED <<station, product>>
        /\ ~ work[r].row.enabled \/ Enabled(work[r].row.station)
      BY <1>4 DEF CheckStation, Go, menuRows
  <2>3. ~ Closes(row, s) /\ (Routes(row, s) => Enabled(s))
      BY <2>1, <2>2 DEF Routes, Closes
  <2> HIDE DEF row
  <2> QED
      BY <2>2, <2>3, ReadStrays
<1>5. CASE WriteProduct(r)
  <2>1. /\ work[r].pc = "write_product" /\ Continue(r, NoWork) /\ station' = station
        /\ \A q \in Products : product'[q] \in {product[q], work[r].row}
      BY <1>5 DEF WriteProduct, IInv, TypeOK
  <2>2. Enabled(s) => Enabled(s)'
      BY <2>1 DEF Enabled
  <2>3. Served(s)' \subseteq Served(s) \/ Routes(work[r], s)
      BY <2>1 DEF Served, Routes
  <2> QED
      BY <2>1, <2>2, <2>3, NoWorkStrays, RequestStrays
<1> QED
    BY <1>1, <1>2, <1>3, <1>4, <1>5 DEF ProductStep

\* Variants, modifiers and orders touch no station and no product.
LEMMA OtherStepStrays ==
    ASSUME IInv, NEW s \in Stations, NEW r \in Requests \cup Guests,
           \/ r \in Requests /\ (VariantStep(r) \/ ModifierStep(r))
           \/ OrderStep(r)
           \/ Fail(r)
    PROVE  StraysByRace(s)
<1> USE DEF Go, menuRows
<1>0. \A pc : [work[r] EXCEPT !.pc = pc].pc = pc
    BY DEF IInv, TypeOK, WorkRow
<1>1. ASSUME NEW p \in Products, NEW v \in Variants, NEW choice \in Choice,
             BeginVariant(r, p, v, choice)
      PROVE  StraysByRace(s)
  <2> DEFINE to == [product |-> p, default |-> choice.default, enabled |-> choice.enabled]
             mine == IF choice.default THEN VariantsOf(p) ELSE {}
             row == [NoWork EXCEPT !.pc = "write_variant", !.product = p, !.variant = v,
                        !.row = to, !.seen = mine]
  <2>1. Continue(r, row) /\ UNCHANGED <<station, product>>
      BY <1>1 DEF BeginVariant
  <2> HIDE DEF to, mine
  <2>2. row.pc = "write_variant"
      BY DEF NoWork
  <2> HIDE DEF row
  <2> QED
      BY <2>1, <2>2, ElsewhereStrays
<1>2. CASE WriteVariant(r)
    BY <1>0, <1>2, ElsewhereStrays DEF WriteVariant
<1>3. CASE CheckDefault(r)
    BY <1>0, <1>3, ElsewhereStrays DEF CheckDefault
<1>4. CASE CommitVariant(r)
    BY <1>4, EndStrays DEF CommitVariant
<1>5. ASSUME NEW p \in Products, BeginModifiers(r, p) PROVE StraysByRace(s)
  <2> DEFINE row == [NoWork EXCEPT !.pc = "replace_modifiers", !.product = p, !.seen = config[p]]
  <2>1. Continue(r, row) /\ UNCHANGED <<station, product>>
      BY <1>5 DEF BeginModifiers
  <2>2. row.pc = "replace_modifiers"
      BY DEF NoWork
  <2> HIDE DEF row
  <2> QED
      BY <2>1, <2>2, ElsewhereStrays
<1>6. ASSUME NEW c \in Configs, ReplaceModifiers(r, c) PROVE StraysByRace(s)
    BY <1>6, EndStrays DEF ReplaceModifiers
<1>7. ASSUME NEW p \in Products, BeginOrder(r, p) PROVE StraysByRace(s)
  <2> DEFINE row == [NoWork EXCEPT !.pc = "order", !.station = product[p].station]
  <2>1. Continue(r, row) /\ UNCHANGED <<station, product>>
      BY <1>7 DEF BeginOrder
  <2>2. row.pc = "order"
      BY DEF NoWork
  <2> HIDE DEF row
  <2> QED
      BY <2>1, <2>2, ElsewhereStrays
<1>8. ASSUME NEW i \in Items, CommitOrder(r, i) PROVE StraysByRace(s)
    BY <1>8, EndStrays DEF CommitOrder
<1>9. CASE Fail(r)
    BY <1>9, EndStrays DEF Fail
<1> QED
    BY <1>1, <1>2, <1>3, <1>4, <1>5, <1>6, <1>7, <1>8, <1>9
       DEF VariantStep, ModifierStep, OrderStep

LEMMA NextStrays ==
    ASSUME IInv, [Next]_menuVars, NEW s \in Stations
    PROVE  StraysByRace(s)
<1>1. ASSUME NEW t \in Stations, CreateStation(t) PROVE StraysByRace(s)
  <2>1. /\ product' = product /\ work' = work
        /\ station[t] = NULL /\ \A u \in Stations \ {t} : station'[u] = station[u]
      BY <1>1 DEF CreateStation, IInv, TypeOK
  <2>2. Served(s)' = Served(s) /\ (Enabled(s) => Enabled(s)')
      BY <2>1 DEF Served, Enabled
  <2> QED
      BY <2>1, <2>2, StationStrays
<1>2. ASSUME NEW p \in Products, DisableProduct(p) PROVE StraysByRace(s)
  <2>1. /\ station' = station /\ work' = work
        /\ \A q \in Products \ {p} : product'[q] = product[q]
        /\ product'[p] = [product[p] EXCEPT !.enabled = FALSE]
        /\ product[p] \in ProductRow
      BY <1>2 DEF DisableProduct, IInv, TypeOK
  <2>2. ~ product'[p].enabled
      BY <2>1 DEF ProductRow
  <2>3. Served(s)' \subseteq Served(s) /\ (Enabled(s) => Enabled(s)')
      BY <2>1, <2>2 DEF Served, Enabled
  <2> QED
      BY <2>1, <2>3, StationStrays
<1>3. ASSUME NEW i \in Items, Prepare(i) PROVE StraysByRace(s)
    BY <1>3, StationStrays DEF Prepare, Served, Enabled
<1>4. CASE UNCHANGED menuVars
    BY <1>4, StationStrays DEF menuVars, Served, Enabled
<1> QED
    BY <1>1, <1>2, <1>3, <1>4, StationStepStrays, ProductStepStrays, OtherStepStrays DEF Next

(***************************************************************************)
(* However many administrators route and disable at once, a product strays *)
(* to a disabled station by a race alone: nobody who begins after the      *)
(* other has committed sends a product to a disabled station, or disables  *)
(* one that has a product to serve.                                        *)
(***************************************************************************)
THEOREM ProductsStray == Spec => ProductsStrayByRaces
<1>1. IInv /\ [Next]_menuVars => \A s \in Stations : StraysByRace(s)
    BY NextStrays
<1>2. (\A s \in Stations : StraysByRace(s)) =>
         \A s \in Stations :
            /\ ~ Enabled(s) =>
                  /\ Routing(s)' \subseteq Routing(s)
                  /\ ~ (Served(s)' \subseteq Served(s)) => Routing(s)' # Routing(s)
            /\ Served(s) # {} =>
                  /\ Closing(s)' \subseteq Closing(s)
                  /\ Enabled(s) /\ ~ Enabled(s)' => Closing(s)' # Closing(s)
    BY DEF StraysByRace
<1> QED
    BY <1>1, <1>2, SpecIInv, PTL DEF Spec, ProductsStrayByRaces

-----------------------------------------------------------------------------
(***************************************************************************)
(* The groups of a product can be told apart by the request that inserted  *)
(* them: one request inserts one configuration at a time, and before the   *)
(* next it looks up, and then deletes, what it has left. So there are no   *)
(* more of them than requests.                                             *)
(***************************************************************************)
Owns(owner) ==
    /\ \A p \in Products : \A c \in config[p] : owner[c] \in Requests
    /\ \A p \in Products : \A c, d \in config[p] : owner[c] = owner[d] => c = d
    /\ \A r \in Requests, p \in Products :
          work[r].pc = "replace_modifiers" /\ work[r].product = p =>
              \A c \in config[p] : owner[c] = r => c \in work[r].seen

GroupsAreOwned == \E owner \in [Configs -> Requests \cup {NULL}] : Owns(owner)

\* A step that neither touches the groups nor begins to replace them.
LEMMA OwnersStay ==
    ASSUME GroupsAreOwned, config' = config,
           \A r \in Requests : work'[r] = work[r] \/ work'[r].pc # "replace_modifiers"
    PROVE  GroupsAreOwned'
<1>1. PICK owner \in [Configs -> Requests \cup {NULL}] : Owns(owner)
    BY DEF GroupsAreOwned
<1>2. Owns(owner)'
    BY <1>1 DEF Owns
<1> QED
    BY <1>2 DEF GroupsAreOwned

LEMMA OwnersStayElsewhere ==
    ASSUME GroupsAreOwned, TypeOK, NEW r, NEW row, config' = config,
           work' = [work EXCEPT ![r] = row], row.pc # "replace_modifiers"
    PROVE  GroupsAreOwned'
<1>1. \A q \in Requests : work'[q] = work[q] \/ work'[q].pc # "replace_modifiers"
    BY DEF TypeOK
<1> QED
    BY <1>1, OwnersStay

\* A request that begins has seen all the groups of its product, its own among them.
LEMMA BeginModifiersOwned ==
    ASSUME GroupsAreOwned, TypeOK, NEW r \in Requests, NEW p \in Products,
           BeginModifiers(r, p)
    PROVE  GroupsAreOwned'
<1> DEFINE row == [NoWork EXCEPT !.pc = "replace_modifiers", !.product = p, !.seen = config[p]]
<1>1. row.product = p /\ row.seen = config[p]
    BY DEF NoWork
<1>2. config' = config /\ work' = [work EXCEPT ![r] = row]
    BY DEF BeginModifiers, Go, Continue, menuRows
<1> HIDE DEF row
<1>3. work'[r] = row /\ \A q \in Requests \ {r} : work'[q] = work[q]
    BY <1>2 DEF TypeOK
<1>4. PICK owner \in [Configs -> Requests \cup {NULL}] : Owns(owner)
    BY DEF GroupsAreOwned
<1>5. Owns(owner)'
    BY <1>1, <1>2, <1>3, <1>4 DEF Owns
<1> QED
    BY <1>5 DEF GroupsAreOwned

\* When it commits, what it had inserted before is among what it deletes.
LEMMA ReplaceModifiersOwned ==
    ASSUME GroupsAreOwned, TypeOK, NEW r \in Requests, NEW c \in Configs,
           ReplaceModifiers(r, c)
    PROVE  GroupsAreOwned'
<1>1. PICK was : was = work[r]
    OBVIOUS
<1>2. /\ was.pc = "replace_modifiers"
      /\ \A p \in Products : c \notin config[p]
      /\ config' = [config EXCEPT ![was.product] = (@ \ was.seen) \cup {c}]
      /\ work' = [work EXCEPT ![r] = NoWork]
    BY <1>1 DEF ReplaceModifiers, Continue
<1>3. /\ \A q \in Requests \ {r} : work'[q] = work[q]
      /\ work'[r].pc # "replace_modifiers"
    BY <1>2 DEF TypeOK, NoWork
<1>4. /\ \A p \in Products : was.product # p => config'[p] = config[p]
      /\ \A p \in Products : was.product = p => config'[p] = (config[p] \ was.seen) \cup {c}
      /\ \A p \in Products : config[p] \subseteq Configs
    BY <1>2 DEF TypeOK
<1>5. PICK owner \in [Configs -> Requests \cup {NULL}] : Owns(owner)
    BY DEF GroupsAreOwned
<1>6. PICK next : next = [owner EXCEPT ![c] = r]
    OBVIOUS
<1>7. /\ next \in [Configs -> Requests \cup {NULL}]
      /\ next[c] = r /\ \A d \in Configs \ {c} : next[d] = owner[d]
    BY <1>6
<1>8. ASSUME NEW p \in Products
      PROVE  /\ \A d \in config'[p] : d = c \/ (d \in config[p] /\ d # c /\ next[d] = owner[d])
             /\ \A d \in config'[p] : d # c /\ c \in config'[p] => owner[d] # r
  <2>1. CASE was.product = p
    <3>1. config'[p] = (config[p] \ was.seen) \cup {c} /\ c \notin config[p]
        BY <1>2, <1>4, <2>1
    <3>2. \A d \in config[p] : owner[d] = r => d \in was.seen
        BY <1>1, <1>2, <1>5, <2>1 DEF Owns
    <3> QED
        BY <1>4, <1>7, <3>1, <3>2
  <2>2. CASE was.product # p
    <3>1. config'[p] = config[p] /\ c \notin config[p]
        BY <1>2, <1>4, <2>2
    <3> QED
        BY <1>4, <1>7, <3>1
  <2> QED
      BY <2>1, <2>2
<1>9. Owns(next)'
  <2>1. ASSUME NEW p \in Products, NEW d \in config'[p]
        PROVE  next[d] \in Requests
      BY <1>5, <1>7, <1>8, <2>1 DEF Owns
  <2>2. ASSUME NEW p \in Products, NEW d \in config'[p], NEW e \in config'[p], next[d] = next[e]
        PROVE  d = e
      BY <1>5, <1>7, <1>8, <2>2 DEF Owns
  <2>3. ASSUME NEW q \in Requests, NEW p \in Products, work'[q].pc = "replace_modifiers",
               work'[q].product = p, NEW d \in config'[p], next[d] = q
        PROVE  d \in work'[q].seen
    <3>1. q # r /\ work'[q] = work[q]
        BY <1>3, <2>3
    <3>2. d # c /\ d \in config[p] /\ owner[d] = q
        BY <1>7, <1>8, <2>3, <3>1
    <3> QED
        BY <1>5, <2>3, <3>1, <3>2 DEF Owns
  <2> QED
      BY <2>1, <2>2, <2>3 DEF Owns
<1> QED
    BY <1>7, <1>9 DEF GroupsAreOwned

\* A request that goes on or ends without replacing groups.
LEMMA GoOwned ==
    ASSUME GroupsAreOwned, TypeOK, NEW r, NEW row, Go(r, row), row.pc # "replace_modifiers"
    PROVE  GroupsAreOwned'
BY OwnersStayElsewhere DEF Go, Continue, menuRows

LEMMA EndOwned ==
    ASSUME GroupsAreOwned, TypeOK, NEW r, Continue(r, NoWork), config' = config
    PROVE  GroupsAreOwned'
<1>1. NoWork.pc # "replace_modifiers"
    BY DEF NoWork
<1> QED
    BY <1>1, OwnersStayElsewhere DEF Continue

LEMMA OwnedNext ==
    ASSUME GroupsAreOwned, TypeOK, [Next]_menuVars
    PROVE  GroupsAreOwned'
<1>1. ASSUME NEW s \in Stations, CreateStation(s)
      PROVE  GroupsAreOwned'
    BY <1>1, OwnersStay DEF CreateStation
<1>2. ASSUME NEW p \in Products, DisableProduct(p)
      PROVE  GroupsAreOwned'
    BY <1>2, OwnersStay DEF DisableProduct
<1>3. ASSUME NEW i \in Items, Prepare(i)
      PROVE  GroupsAreOwned'
    BY <1>3, OwnersStay DEF Prepare
<1>4. ASSUME NEW r \in Requests, StationStep(r)
      PROVE  GroupsAreOwned'
  <2>1. ASSUME NEW s \in Stations, BeginDisableStation(r, s)
        PROVE  GroupsAreOwned'
    <3> DEFINE row == [NoWork EXCEPT !.pc = "count_queue", !.station = s]
    <3>1. row.pc # "replace_modifiers"
        BY DEF NoWork
    <3>2. Go(r, row)
        BY <2>1 DEF BeginDisableStation
    <3> HIDE DEF row
    <3> QED
        BY <3>1, <3>2, GoOwned
  <2>2. CASE CountQueue(r)
    <3> DEFINE row == [work[r] EXCEPT !.pc = "disable_station"]
    <3>1. row.pc # "replace_modifiers"
        BY <1>4, <2>2, MenuAssumption DEF TypeOK, WorkRow
    <3>2. Go(r, row)
        BY <2>2 DEF CountQueue
    <3> HIDE DEF row
    <3> QED
        BY <3>1, <3>2, GoOwned
  <2> QED
      BY <1>4, <2>1, <2>2, EndOwned DEF StationStep, DisableStation
<1>5. ASSUME NEW r \in Requests, ProductStep(r)
      PROVE  GroupsAreOwned'
  <2>1. ASSUME NEW s \in Stations, BeginCreateProduct(r, s)
        PROVE  GroupsAreOwned'
    <3> DEFINE row == [NoWork EXCEPT !.pc = "create_product", !.station = s]
    <3>1. row.pc # "replace_modifiers"
        BY DEF NoWork
    <3>2. Go(r, row)
        BY <2>1 DEF BeginCreateProduct
    <3> HIDE DEF row
    <3> QED
        BY <3>1, <3>2, GoOwned
  <2>2. ASSUME NEW p \in Products, NEW s, NEW enabled, BeginUpdateProduct(r, p, s, enabled)
        PROVE  GroupsAreOwned'
    <3>1. PICK new : Go(r, [NoWork EXCEPT !.pc = "check_station", !.product = p, !.row = new])
        BY <2>2 DEF BeginUpdateProduct
    <3> DEFINE row == [NoWork EXCEPT !.pc = "check_station", !.product = p, !.row = new]
    <3>2. row.pc # "replace_modifiers"
        BY DEF NoWork
    <3>3. Go(r, row)
        BY <3>1
    <3> HIDE DEF row
    <3> QED
        BY <3>2, <3>3, GoOwned
  <2>3. CASE CheckStation(r)
    <3> DEFINE row == [work[r] EXCEPT !.pc = "write_product"]
    <3>1. row.pc # "replace_modifiers"
        BY <1>5, <2>3, MenuAssumption DEF TypeOK, WorkRow
    <3>2. Go(r, row)
        BY <2>3 DEF CheckStation
    <3> HIDE DEF row
    <3> QED
        BY <3>1, <3>2, GoOwned
  <2>4. ASSUME NEW p, NEW choice, CreateProduct(r, p, choice)
        PROVE  GroupsAreOwned'
      BY <2>4, EndOwned DEF CreateProduct
  <2> QED
      BY <1>5, <2>1, <2>2, <2>3, <2>4, EndOwned DEF ProductStep, WriteProduct
<1>6. ASSUME NEW r \in Requests, VariantStep(r)
      PROVE  GroupsAreOwned'
  <2>1. ASSUME NEW p \in Products, NEW v \in Variants, NEW choice, BeginVariant(r, p, v, choice)
        PROVE  GroupsAreOwned'
    <3>1. PICK new, seen : Go(r, [NoWork EXCEPT !.pc = "write_variant", !.product = p,
                                     !.variant = v, !.row = new, !.seen = seen])
        BY <2>1 DEF BeginVariant
    <3> DEFINE row == [NoWork EXCEPT !.pc = "write_variant", !.product = p, !.variant = v,
                          !.row = new, !.seen = seen]
    <3>2. row.pc # "replace_modifiers"
        BY DEF NoWork
    <3>3. Go(r, row)
        BY <3>1
    <3> HIDE DEF row
    <3> QED
        BY <3>2, <3>3, GoOwned
  <2>2. CASE WriteVariant(r) \/ CheckDefault(r)
    <3>1. PICK pc \in {"check_default", "commit_variant"} : Go(r, [work[r] EXCEPT !.pc = pc])
        BY <2>2 DEF WriteVariant, CheckDefault
    <3> DEFINE row == [work[r] EXCEPT !.pc = pc]
    <3>2. row.pc # "replace_modifiers"
        BY DEF TypeOK, WorkRow
    <3>3. Go(r, row)
        BY <3>1
    <3> HIDE DEF row
    <3> QED
        BY <3>2, <3>3, GoOwned
  <2> QED
      BY <1>6, <2>1, <2>2, EndOwned DEF VariantStep, CommitVariant
<1>7. ASSUME NEW r \in Requests, ModifierStep(r)
      PROVE  GroupsAreOwned'
    BY <1>7, BeginModifiersOwned, ReplaceModifiersOwned DEF ModifierStep
<1>8. ASSUME NEW g \in Guests, OrderStep(g)
      PROVE  GroupsAreOwned'
  <2>1. ASSUME NEW p \in Products, BeginOrder(g, p)
        PROVE  GroupsAreOwned'
    <3> DEFINE row == [NoWork EXCEPT !.pc = "order", !.station = product[p].station]
    <3>1. row.pc # "replace_modifiers"
        BY DEF NoWork
    <3>2. Go(g, row)
        BY <2>1 DEF BeginOrder
    <3> HIDE DEF row
    <3> QED
        BY <3>1, <3>2, GoOwned
  <2> QED
      BY <1>8, <2>1, EndOwned DEF OrderStep, CommitOrder
<1>9. ASSUME NEW r \in Requests \cup Guests, Fail(r)
      PROVE  GroupsAreOwned'
    BY <1>9, EndOwned DEF Fail, Go, menuRows
<1>10. CASE UNCHANGED menuVars
    BY <1>10, OwnersStay DEF menuVars
<1> QED
    BY <1>1, <1>2, <1>3, <1>4, <1>5, <1>6, <1>7, <1>8, <1>9, <1>10 DEF Next

\* The groups are told apart by requests, so there are no more of them.
LEMMA OwnedWithinRaces ==
    ASSUME GroupsAreOwned
    PROVE  ModifiersWithinRaces
<1>1. PICK owner \in [Configs -> Requests \cup {NULL}] : Owns(owner)
    BY DEF GroupsAreOwned
<1>2. ASSUME NEW p \in Products
      PROVE  Cardinality(config[p]) <= Cardinality(Requests)
  <2> DEFINE own == [c \in config[p] |-> owner[c]]
  <2>1. own \in [config[p] -> Requests]
      BY <1>1 DEF Owns
  <2>2. own \in Injection(config[p], Requests)
      BY <1>1, <2>1 DEF Owns, Injection, IsInjective
  <2> QED
      BY <2>2, FS_Injection, MenuAssumption
<1> QED
    BY <1>2 DEF ModifiersWithinRaces

(***************************************************************************)
(* However many replacements of a product's modifiers race, the product    *)
(* has the groups of at most as many commands as there are requests in     *)
(* flight at once.                                                         *)
(***************************************************************************)
THEOREM ModifiersStayWithinRaces == Spec => []ModifiersWithinRaces
<1>1. Init => GroupsAreOwned
  <2> SUFFICES ASSUME Init PROVE GroupsAreOwned
      OBVIOUS
  <2> DEFINE none == [c \in Configs |-> NULL]
  <2>1. none \in [Configs -> Requests \cup {NULL}]
      OBVIOUS
  <2>2. /\ \A p \in Products : config[p] = {}
        /\ \A r \in Requests : work[r].pc = "idle"
      BY DEF Init, NoWork
  <2>3. Owns(none)
      BY <2>2 DEF Owns
  <2> QED
      BY <2>1, <2>3 DEF GroupsAreOwned
<1>2. GroupsAreOwned /\ IInv /\ [Next]_menuVars => GroupsAreOwned'
    BY OwnedNext DEF IInv
<1>3. GroupsAreOwned => ModifiersWithinRaces
    BY OwnedWithinRaces
<1> QED
    BY <1>1, <1>2, <1>3, SpecIInv, PTL DEF Spec
=============================================================================
