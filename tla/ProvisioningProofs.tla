------------------------- MODULE ProvisioningProofs -------------------------
(***************************************************************************)
(* Proofs about Provisioning, for any number of tenants, keys, names and   *)
(* requests. Neither TenantsAreKeyed nor TrailLeadsToStatus is inductive:  *)
(* a commit acts on what its request reserved or read before, and it is    *)
(* RequestsKnow that says that this is still so.                           *)
(***************************************************************************)
EXTENDS Provisioning, TLAPS

IInv == TypeOK /\ TenantsAreKeyed /\ TrailLeadsToStatus /\ RequestsKnow

\* In every initial state the four parts hold.
LEMMA InitIInv == Init => IInv
<1> SUFFICES ASSUME Init PROVE IInv
    OBVIOUS
<1> USE DEF Init
<1>1. TypeOK
    BY DEF TypeOK, WorkRow, NoWork
<1>2. Known = {}
    BY DEF Known
<1>3. TenantsAreKeyed /\ TrailLeadsToStatus
    BY <1>2 DEF TenantsAreKeyed, TrailLeadsToStatus
<1>4. RequestsKnow
    BY DEF RequestsKnow, NoWork, Locking
<1> QED
    BY <1>1, <1>3, <1>4 DEF IInv

LEMMA NoWorkIsRow == NoWork \in WorkRow /\ NoWork.pc = "idle"
BY DEF NoWork, WorkRow

\* A known tenant has a row, and it is no NULL.
LEMMA KnownIsRow ==
    ASSUME TypeOK, NEW t \in Known
    PROVE  t \in Tenants /\ tenant[t] \in TenantRow
BY DEF TypeOK, Known

\* An event that starts where the last one ended leads on.
LEMMA AppendLeads ==
    ASSUME NEW s \in Seq(Event), Leads(s), NEW e \in Event,
           s[Len(s)].to = e.from, e.from # e.to
    PROVE  /\ Append(s, e) \in Seq(Event)
           /\ Leads(Append(s, e))
           /\ Append(s, e)[Len(Append(s, e))].to = e.to
<1> DEFINE n == Len(s)
           u == Append(s, e)
<1>1. n \in Nat \ {0} /\ u \in Seq(Event) /\ Len(u) = n + 1
    BY DEF Leads
<1>2. u[n + 1] = e /\ \A i \in 1 .. n : u[i] = s[i]
    OBVIOUS
<1> HIDE DEF n, u
<1>3. s[n].to = e.from /\ s[1].from = NULL
    BY DEF n, Leads
<1>4. \A i \in 1 .. n - 1 : s[i].to = s[i + 1].from
    BY DEF n, Leads
<1>5. \A i \in 1 .. n : s[i].from # s[i].to
    BY DEF n, Leads
<1>6. ASSUME NEW i \in 1 .. Len(u) - 1 PROVE u[i].to = u[i + 1].from
  <2>1. CASE i = n
      BY <1>1, <1>2, <1>3, <2>1
  <2>2. CASE i # n
    <3>1. i \in 1 .. n - 1 /\ i \in 1 .. n /\ i + 1 \in 1 .. n
        BY <1>1, <1>6, <2>2
    <3> QED
        BY <1>2, <1>4, <3>1
  <2> QED
      BY <2>1, <2>2
<1>7. ASSUME NEW i \in 1 .. Len(u) PROVE u[i].from # u[i].to
    BY <1>1, <1>2, <1>5, <1>7
<1>8. u # <<>> /\ u[1].from = NULL
    BY <1>1, <1>2, <1>3
<1>9. Leads(u) /\ u[Len(u)].to = e.to
    BY <1>1, <1>2, <1>6, <1>7, <1>8 DEF Leads
<1> QED
    BY <1>1, <1>9 DEF u

-----------------------------------------------------------------------------
(***************************************************************************)
(* A request that ends leaves what the others know as it was, if it writes *)
(* neither the tenants they have locked nor the keys they have reserved.   *)
(***************************************************************************)
LEMMA RequestEnds ==
    ASSUME TypeOK, RequestsKnow, NEW r \in Requests, Continue(r, NoWork),
           \A q \in Requests \ {r} :
               /\ work[q].pc \in Locking =>
                     /\ work[q].tenant \in Known'
                     /\ tenant'[work[q].tenant].status = tenant[work[q].tenant].status
               /\ work[q].pc = "create" => key'[work[q].key] = key[work[q].key]
    PROVE  RequestsKnow' /\ work' \in [Requests -> WorkRow]
<1>1. work'[r] = NoWork /\ \A q \in Requests \ {r} : work'[q] = work[q]
    BY DEF TypeOK, Continue
<1>2. NoWork.pc \notin Locking \cup {"insert_key", "create", "profile"}
    BY NoWorkIsRow DEF Locking
<1>3. work' \in [Requests -> WorkRow]
    BY NoWorkIsRow DEF TypeOK, Continue
<1>4. ASSUME NEW q \in Requests
      PROVE  /\ work'[q].pc \in {"insert_key", "create"} => work'[q].key \in Keys /\ work'[q].body \in Body
             /\ work'[q].pc = "create" => key'[work'[q].key] = NULL
             /\ work'[q].pc \in Locking => /\ work'[q].tenant \in Known'
                                          /\ work'[q].seen = tenant'[work'[q].tenant].status
             /\ work'[q].pc = "profile" => work'[q].gsm \in Numbers
  <2>1. CASE q = r
      BY <1>1, <1>2, <2>1
  <2>2. CASE q # r
      BY <1>1, <2>2 DEF RequestsKnow
  <2> QED
      BY <2>1, <2>2
<1>5. ASSUME NEW p \in Requests, NEW q \in Requests
      PROVE  /\ work'[p].pc = "create" /\ work'[q].pc = "create" /\ work'[p].key = work'[q].key => p = q
             /\ {work'[p].pc, work'[q].pc} \subseteq Locking /\ work'[p].tenant = work'[q].tenant => p = q
  <2>1. CASE p = r \/ q = r
    <3>1. \/ work'[p].pc \notin Locking \cup {"create"}
          \/ work'[q].pc \notin Locking \cup {"create"}
        BY <1>1, <1>2, <2>1
    <3> QED
        BY <3>1
  <2>2. CASE p # r /\ q # r
      BY <1>1, <2>2 DEF RequestsKnow
  <2> QED
      BY <2>1, <2>2
<1> QED
    BY <1>3, <1>4, <1>5 DEF RequestsKnow

\* A request that goes on knows what it says, if its row does.
LEMMA RequestGoesOn ==
    ASSUME IInv, NEW r \in Requests, NEW row \in WorkRow, Go(r, row),
           row.pc \in {"insert_key", "create"} => row.key \in Keys /\ row.body \in Body,
           row.pc = "create" => /\ key[row.key] = NULL
                                /\ \A q \in Requests \ {r} :
                                      work[q].pc = "create" => work[q].key # row.key,
           row.pc \in Locking => /\ row.tenant \in Known
                                 /\ row.seen = tenant[row.tenant].status
                                 /\ \A q \in Requests \ {r} :
                                       work[q].pc \in Locking => work[q].tenant # row.tenant,
           row.pc = "profile" => row.gsm \in Numbers
    PROVE  IInv'
<1>1. tenant' = tenant /\ health' = health /\ trail' = trail /\ key' = key
    BY DEF Go, rows
<1>2. work'[r] = row /\ \A q \in Requests \ {r} : work'[q] = work[q]
    BY DEF IInv, TypeOK, Go, Continue
<1>3. TypeOK'
    BY <1>1 DEF IInv, TypeOK, Go, Continue
<1>4. Known' = Known
    BY <1>1 DEF Known
<1>5. TenantsAreKeyed' /\ TrailLeadsToStatus'
    BY <1>1, <1>4 DEF IInv, TenantsAreKeyed, TrailLeadsToStatus
<1>6. ASSUME NEW q \in Requests
      PROVE  /\ work'[q].pc \in {"insert_key", "create"} => work'[q].key \in Keys /\ work'[q].body \in Body
             /\ work'[q].pc = "create" => key[work'[q].key] = NULL
             /\ work'[q].pc \in Locking => /\ work'[q].tenant \in Known
                                          /\ work'[q].seen = tenant[work'[q].tenant].status
             /\ work'[q].pc = "profile" => work'[q].gsm \in Numbers
  <2>1. CASE q = r
      BY <1>2, <2>1
  <2>2. CASE q # r
      BY <1>2, <2>2 DEF IInv, RequestsKnow
  <2> QED
      BY <2>1, <2>2
<1>7. ASSUME NEW p \in Requests, NEW q \in Requests, p # q
      PROVE  /\ ~ (work'[p].pc = "create" /\ work'[q].pc = "create" /\ work'[p].key = work'[q].key)
             /\ ~ ({work'[p].pc, work'[q].pc} \subseteq Locking /\ work'[p].tenant = work'[q].tenant)
  <2>1. CASE p = r
      BY <1>2, <1>7, <2>1
  <2>2. CASE q = r
      BY <1>2, <1>7, <2>2
  <2>3. CASE p # r /\ q # r
      BY <1>2, <1>7, <2>3 DEF IInv, RequestsKnow
  <2> QED
      BY <2>1, <2>2, <2>3
<1>8. RequestsKnow'
    BY <1>1, <1>4, <1>6, <1>7 DEF RequestsKnow
<1> QED
    BY <1>3, <1>5, <1>8 DEF IInv

\* A request that ends with nothing written.
LEMMA NothingWritten ==
    ASSUME IInv, NEW r \in Requests, Go(r, NoWork)
    PROVE  IInv'
<1>1. NoWork.pc \notin Locking \cup {"insert_key", "create", "profile"}
    BY NoWorkIsRow DEF Locking
<1> QED
    BY <1>1, NoWorkIsRow, RequestGoesOn

-----------------------------------------------------------------------------
\* A new tenant comes with the key of its request, and with names nobody has.
LEMMA CommitCreateIInv ==
    ASSUME IInv, NEW r \in Requests, NEW t \in Tenants, CommitCreate(r, t)
    PROVE  IInv'
<1> USE DEF IInv
<1> DEFINE k == work[r].key
           body == work[r].body
           new == [subdomain |-> body.subdomain, gsm |-> body.gsm, status |-> "active"]
           first == [from |-> NULL, to |-> "provisioning"]
           second == [from |-> "provisioning", to |-> "active"]
           bought == [body |-> body, tenant |-> t]
<1>1. work[r].pc = "create" /\ tenant[t] = NULL /\ ~ Taken(body)
    BY DEF CommitCreate
<1>2. k \in Keys /\ body \in Body /\ key[k] = NULL
    BY <1>1 DEF RequestsKnow
<1>3. /\ new \in TenantRow /\ new # NULL
      /\ new.subdomain = body.subdomain /\ new.gsm = body.gsm /\ new.status = "active"
  <2>1. new \in TenantRow
      BY <1>2 DEF Body, TenantRow, Statuses
  <2> QED
      BY <2>1, ProvisioningAssumption
<1>4. bought \in KeyRow /\ bought # NULL /\ bought.body = body /\ bought.tenant = t
  <2>1. bought \in KeyRow
      BY <1>2 DEF KeyRow
  <2> QED
      BY <2>1, ProvisioningAssumption
<1>5. /\ <<first, second>> \in Seq(Event)
      /\ Leads(<<first, second>>)
      /\ <<first, second>>[Len(<<first, second>>)].to = "active"
  <2>1. first \in Event /\ second \in Event
      BY DEF Event, Statuses
  <2>2. NULL # "provisioning"
      BY ProvisioningAssumption DEF Statuses
  <2> QED
      BY <2>1, <2>2 DEF Leads
<1>6. /\ tenant' = [tenant EXCEPT ![t] = new]
      /\ health' = [health EXCEPT ![t] = "active"]
      /\ trail' = [trail EXCEPT ![t] = <<first, second>>]
      /\ key' = [key EXCEPT ![k] = bought]
      /\ Continue(r, NoWork)
    BY DEF CommitCreate, Provisioned, Birth
<1> DEFINE events == <<first, second>>
<1>7. /\ events \in Seq(Event) /\ Leads(events) /\ events[Len(events)].to = "active"
      /\ trail' = [trail EXCEPT ![t] = events]
    BY <1>5, <1>6
<1> HIDE DEF k, body, new, first, second, bought, events
<1>8. /\ tenant'[t] = new /\ \A s \in Tenants \ {t} : tenant'[s] = tenant[s]
      /\ health'[t] = "active" /\ \A s \in Tenants \ {t} : health'[s] = health[s]
      /\ trail'[t] = events /\ \A s \in Tenants \ {t} : trail'[s] = trail[s]
    BY <1>6, <1>7 DEF TypeOK
<1>9. key'[k] = bought /\ \A j \in Keys \ {k} : key'[j] = key[j]
    BY <1>2, <1>6 DEF TypeOK
<1>10. Known' = Known \cup {t} /\ t \notin Known
    BY <1>1, <1>3, <1>8 DEF Known
<1>11. RequestsKnow' /\ work' \in [Requests -> WorkRow]
  <2>1. ASSUME NEW q \in Requests \ {r}, work[q].pc \in Locking
        PROVE  /\ work[q].tenant \in Known'
               /\ tenant'[work[q].tenant].status = tenant[work[q].tenant].status
    <3>1. work[q].tenant \in Known
        BY <2>1 DEF RequestsKnow
    <3> QED
        BY <1>8, <1>10, <3>1 DEF Known
  <2>2. ASSUME NEW q \in Requests \ {r}, work[q].pc = "create"
        PROVE  key'[work[q].key] = key[work[q].key]
    <3>1. work[q].key \in Keys /\ work[q].key # k
        BY <1>1, <2>2 DEF RequestsKnow, k
    <3> QED
        BY <1>9, <3>1
  <2> QED
      BY <1>6, <2>1, <2>2, RequestEnds
<1>12. TypeOK'
  <2>1. tenant' \in [Tenants -> TenantRow \cup {NULL}]
      BY <1>3, <1>6 DEF TypeOK
  <2>2. health' \in [Tenants -> Statuses \cup {NULL}]
      BY <1>6 DEF TypeOK, Statuses
  <2>3. trail' \in [Tenants -> Seq(Event)]
      BY <1>7 DEF TypeOK
  <2>4. key' \in [Keys -> KeyRow \cup {NULL}]
      BY <1>4, <1>6 DEF TypeOK
  <2> QED
      BY <1>11, <2>1, <2>2, <2>3, <2>4 DEF TypeOK
<1>13. TrailLeadsToStatus'
  <2>1. ASSUME NEW s \in Known'
        PROVE  /\ Leads(trail'[s])
               /\ trail'[s][Len(trail'[s])].to = tenant'[s].status
               /\ health'[s] = tenant'[s].status
    <3>1. CASE s = t
        BY <1>3, <1>7, <1>8, <3>1
    <3>2. CASE s # t
        BY <1>8, <1>10, <3>2 DEF TrailLeadsToStatus, Known
    <3> QED
        BY <3>1, <3>2
  <2> QED
      BY <2>1 DEF TrailLeadsToStatus
<1>14. TenantsAreKeyed'
  <2>1. \A j \in Keys : key[j] # NULL => key[j].tenant \in Known /\ key[j].tenant # t
      BY <1>10 DEF TenantsAreKeyed
  <2>2. ASSUME NEW s \in Known' PROVE \E j \in Keys : key'[j] # NULL /\ key'[j].tenant = s
    <3>1. CASE s = t
        BY <1>2, <1>4, <1>9, <3>1
    <3>2. CASE s # t
      <4>1. PICK j \in Keys : key[j] # NULL /\ key[j].tenant = s
          BY <1>10, <3>2 DEF TenantsAreKeyed
      <4> QED
          BY <1>2, <1>9, <4>1
    <3> QED
        BY <3>1, <3>2
  <2>3. ASSUME NEW j \in Keys, key'[j] # NULL
        PROVE  /\ key'[j].tenant \in Known'
               /\ tenant'[key'[j].tenant].subdomain = key'[j].body.subdomain
    <3>1. CASE j = k
        BY <1>3, <1>4, <1>8, <1>9, <1>10, <3>1
    <3>2. CASE j # k
      <4>1. key'[j] = key[j] /\ key[j].tenant \in Tenants \ {t}
          BY <1>9, <2>1, <2>3, <3>2 DEF Known
      <4> QED
          BY <1>8, <1>10, <2>3, <4>1 DEF TenantsAreKeyed
    <3> QED
        BY <3>1, <3>2
  <2>4. ASSUME NEW i \in Keys, NEW j \in Keys, key'[i] # NULL, key'[j] # NULL,
               key'[i].tenant = key'[j].tenant
        PROVE  i = j
    <3>1. CASE i = k \/ j = k
        BY <1>4, <1>9, <2>1, <2>4, <3>1
    <3>2. CASE i # k /\ j # k
        BY <1>9, <2>4, <3>2 DEF TenantsAreKeyed
    <3> QED
        BY <3>1, <3>2
  <2>5. \A s \in Known : tenant[s].subdomain # new.subdomain /\ tenant[s].gsm # new.gsm
      BY <1>1, <1>3 DEF Taken
  <2>6. \A s \in Known : s \in Tenants \ {t} /\ tenant'[s] = tenant[s]
      BY <1>8, <1>10 DEF Known
  <2>7. ASSUME NEW s \in Known', NEW u \in Known'
        PROVE  /\ tenant'[s].subdomain = tenant'[u].subdomain => s = u
               /\ tenant'[s].gsm = tenant'[u].gsm => s = u
    <3>1. CASE s = t \/ u = t
        BY <1>8, <1>10, <2>5, <2>6, <3>1
    <3>2. CASE s # t /\ u # t
        BY <1>10, <2>6, <3>2 DEF TenantsAreKeyed
    <3> QED
        BY <3>1, <3>2
  <2>8. \A s \in Known' : tenant'[s].status \notin Unfinished
      BY <1>3, <1>8, <1>10, <2>6 DEF TenantsAreKeyed, Unfinished
  <2> QED
      BY <2>2, <2>3, <2>4, <2>7, <2>8 DEF TenantsAreKeyed
<1> QED
    BY <1>11, <1>12, <1>13, <1>14

\* A request that writes the row it has locked leaves the others theirs.
LEMMA OthersKeepTheirs ==
    ASSUME IInv, NEW r \in Requests, work[r].pc \in Locking, Continue(r, NoWork),
           NEW row \in TenantRow, tenant' = [tenant EXCEPT ![work[r].tenant] = row], key' = key
    PROVE  /\ RequestsKnow' /\ work' \in [Requests -> WorkRow]
           /\ tenant' \in [Tenants -> TenantRow \cup {NULL}]
           /\ Known' = Known
           /\ tenant'[work[r].tenant] = row
           /\ \A s \in Tenants \ {work[r].tenant} : tenant'[s] = tenant[s]
<1> USE DEF IInv
<1> DEFINE t == work[r].tenant
<1>1. t \in Known /\ t \in Tenants
    BY DEF RequestsKnow, Known
<1>2. row # NULL
    BY ProvisioningAssumption
<1>3. tenant' \in [Tenants -> TenantRow \cup {NULL}]
    BY DEF TypeOK
<1>4. tenant'[t] = row /\ \A s \in Tenants \ {t} : tenant'[s] = tenant[s]
    BY <1>1 DEF TypeOK
<1>5. Known' = Known
    BY <1>1, <1>2, <1>4 DEF Known
<1>6. ASSUME NEW q \in Requests \ {r}, work[q].pc \in Locking
      PROVE  /\ work[q].tenant \in Known'
             /\ tenant'[work[q].tenant].status = tenant[work[q].tenant].status
  <2>1. work[q].tenant \in Known /\ work[q].tenant # t
      BY <1>6 DEF RequestsKnow
  <2> QED
      BY <1>4, <1>5, <2>1 DEF Known
<1>7. RequestsKnow' /\ work' \in [Requests -> WorkRow]
    BY <1>6, RequestEnds
<1> QED
    BY <1>3, <1>4, <1>5, <1>7

\* A change of status goes to the tenant, its health and its trail.
LEMMA CommitStatusIInv ==
    ASSUME IInv, NEW r \in Requests, CommitStatus(r)
    PROVE  IInv'
<1> USE DEF IInv
<1> DEFINE t == work[r].tenant
           next == work[r].next
           row == [tenant[t] EXCEPT !.status = next]
           event == [from |-> work[r].seen, to |-> next]
<1>1. t \in Known /\ t \in Tenants /\ tenant[t] \in TenantRow /\ work[r].seen = tenant[t].status
    BY KnownIsRow DEF CommitStatus, RequestsKnow, Locking
<1>2. next \in {"active", "suspended"} /\ work[r].seen \in Statuses /\ work[r].seen # next
    BY DEF CommitStatus, Allowed, Statuses
<1>3. /\ row \in TenantRow /\ row.status = next
      /\ row.subdomain = tenant[t].subdomain /\ row.gsm = tenant[t].gsm
    BY <1>1, <1>2 DEF TenantRow, Statuses
<1>4. event \in Event /\ event.from = tenant[t].status /\ event.to = next /\ event.from # event.to
    BY <1>1, <1>2 DEF Event, Statuses
<1>5. /\ tenant' = [tenant EXCEPT ![t] = row]
      /\ health' = [health EXCEPT ![t] = next]
      /\ trail' = [trail EXCEPT ![t] = Append(trail[t], event)]
      /\ key' = key
      /\ Continue(r, NoWork)
    BY DEF CommitStatus
<1>6. work[r].pc \in Locking
    BY DEF CommitStatus, Locking
<1> HIDE DEF next, row, event
<1>7. /\ RequestsKnow' /\ work' \in [Requests -> WorkRow]
      /\ tenant' \in [Tenants -> TenantRow \cup {NULL}]
      /\ Known' = Known
      /\ tenant'[t] = row /\ \A s \in Tenants \ {t} : tenant'[s] = tenant[s]
    BY <1>3, <1>5, <1>6, OthersKeepTheirs
<1> HIDE DEF t
<1>8. trail[t] \in Seq(Event) /\ Leads(trail[t]) /\ trail[t][Len(trail[t])].to = event.from
    BY <1>1, <1>4 DEF TypeOK, TrailLeadsToStatus
<1>9. /\ Append(trail[t], event) \in Seq(Event)
      /\ Leads(Append(trail[t], event))
      /\ Append(trail[t], event)[Len(Append(trail[t], event))].to = next
    BY <1>4, <1>8, AppendLeads
<1>10. /\ health'[t] = next /\ \A s \in Tenants \ {t} : health'[s] = health[s]
       /\ trail'[t] = Append(trail[t], event) /\ \A s \in Tenants \ {t} : trail'[s] = trail[s]
    BY <1>1, <1>5 DEF TypeOK
<1>11. TypeOK'
  <2>1. health' \in [Tenants -> Statuses \cup {NULL}]
      BY <1>2, <1>5 DEF TypeOK, Statuses
  <2>2. trail' \in [Tenants -> Seq(Event)]
      BY <1>5, <1>9 DEF TypeOK
  <2> QED
      BY <1>5, <1>7, <2>1, <2>2 DEF TypeOK
<1>12. ASSUME NEW s \in Known'
       PROVE  /\ Leads(trail'[s])
              /\ trail'[s][Len(trail'[s])].to = tenant'[s].status
              /\ health'[s] = tenant'[s].status
  <2>1. CASE s = t
      BY <1>3, <1>7, <1>9, <1>10, <2>1
  <2>2. CASE s # t
      BY <1>7, <1>10, <2>2 DEF TrailLeadsToStatus, Known
  <2> QED
      BY <2>1, <2>2
<1>13. TenantsAreKeyed'
  <2>1. \A s \in Known : /\ tenant'[s].subdomain = tenant[s].subdomain
                         /\ tenant'[s].gsm = tenant[s].gsm
                         /\ tenant'[s].status \notin Unfinished
      BY <1>2, <1>3, <1>7 DEF TenantsAreKeyed, Known, Unfinished
  <2> QED
      BY <1>5, <1>7, <2>1 DEF TenantsAreKeyed
<1> QED
    BY <1>7, <1>11, <1>12, <1>13 DEF TrailLeadsToStatus

\* A number changes hands only if nobody else has it.
LEMMA CommitProfileIInv ==
    ASSUME IInv, NEW r \in Requests, CommitProfile(r)
    PROVE  IInv'
<1> USE DEF IInv
<1> DEFINE t == work[r].tenant
           row == [tenant[t] EXCEPT !.gsm = work[r].gsm]
<1>1. t \in Known /\ t \in Tenants /\ tenant[t] \in TenantRow /\ work[r].gsm \in Numbers
    BY KnownIsRow DEF CommitProfile, RequestsKnow, Locking
<1>2. /\ row \in TenantRow /\ row.status = tenant[t].status
      /\ row.subdomain = tenant[t].subdomain /\ row.gsm = work[r].gsm
    BY <1>1 DEF TenantRow
<1>3. /\ tenant' = [tenant EXCEPT ![t] = row]
      /\ health' = health /\ trail' = trail /\ key' = key
      /\ Continue(r, NoWork)
    BY DEF CommitProfile
<1>4. work[r].pc \in Locking /\ \A s \in Known \ {t} : tenant[s].gsm # work[r].gsm
    BY DEF CommitProfile, Locking
<1> HIDE DEF row
<1>5. /\ RequestsKnow' /\ work' \in [Requests -> WorkRow]
      /\ tenant' \in [Tenants -> TenantRow \cup {NULL}]
      /\ Known' = Known
      /\ tenant'[t] = row /\ \A s \in Tenants \ {t} : tenant'[s] = tenant[s]
    BY <1>2, <1>3, <1>4, OthersKeepTheirs
<1> HIDE DEF t
<1>6. TypeOK'
    BY <1>3, <1>5 DEF TypeOK
<1>7. \A s \in Known : /\ tenant'[s].subdomain = tenant[s].subdomain
                       /\ tenant'[s].status = tenant[s].status
    BY <1>2, <1>5 DEF Known
<1>8. TrailLeadsToStatus'
    BY <1>3, <1>5, <1>7 DEF TrailLeadsToStatus
<1>9. \A s \in Known : tenant'[s].gsm = IF s = t THEN work[r].gsm ELSE tenant[s].gsm
    BY <1>2, <1>5 DEF Known
<1>10. \A s, u \in Known : tenant'[s].gsm = tenant'[u].gsm => s = u
    BY <1>1, <1>4, <1>9 DEF TenantsAreKeyed
<1>11. TenantsAreKeyed'
    BY <1>3, <1>5, <1>7, <1>10 DEF TenantsAreKeyed
<1> QED
    BY <1>5, <1>6, <1>8, <1>11

\* The row a request asks for is locked only when nobody else has it.
LEMMA LockTenantIInv ==
    ASSUME IInv, NEW r \in Requests, NEW t \in Tenants, NEW row \in WorkRow,
           row.pc \in Locking, row.pc = "profile" => row.gsm \in Numbers,
           LockTenant(r, t, row)
    PROVE  IInv'
<1> DEFINE next == [row EXCEPT !.tenant = t, !.seen = tenant[t].status]
<1>1. t \in Known /\ ~ Locked(t) /\ Go(r, next)
    BY DEF LockTenant
<1>2. tenant[t].status \in Statuses
    BY <1>1, KnownIsRow DEF IInv, TenantRow
<1>3. next \in WorkRow
    BY <1>2 DEF WorkRow
<1>4. /\ next.pc = row.pc /\ next.gsm = row.gsm
      /\ next.tenant = t /\ next.seen = tenant[t].status
    BY DEF WorkRow
<1>5. next.pc \notin {"insert_key", "create"}
    BY <1>4 DEF Locking
<1> HIDE DEF next
<1> QED
    BY <1>1, <1>3, <1>4, <1>5, RequestGoesOn DEF Locked

\* Every step keeps the four parts.
LEMMA NextIInv == IInv /\ [Next]_provisioningVars => IInv'
<1> SUFFICES ASSUME IInv, [Next]_provisioningVars PROVE IInv'
    OBVIOUS
<1>1. CASE UNCHANGED provisioningVars
    BY <1>1 DEF IInv, provisioningVars, TypeOK, TenantsAreKeyed, TrailLeadsToStatus,
                RequestsKnow, Known
<1>2. ASSUME NEW r \in Requests, NEW k \in Keys, NEW body \in Body, ReadKey(r, k, body)
      PROVE  IInv'
  <2> DEFINE row == [NoWork EXCEPT !.pc = "insert_key", !.key = k, !.body = body]
  <2>1. row \in WorkRow /\ row.pc = "insert_key" /\ row.key = k /\ row.body = body
      BY DEF NoWork, WorkRow
  <2>2. Go(r, row)
      BY <1>2 DEF ReadKey
  <2> HIDE DEF row
  <2> QED
      BY <2>1, <2>2, RequestGoesOn DEF Locking
<1>3. ASSUME NEW r \in Requests, InsertKey(r)
      PROVE  IInv'
  <2> DEFINE row == [work[r] EXCEPT !.pc = "create"]
  <2>1. work[r].pc = "insert_key" /\ ~ Reserved(work[r].key)
      BY <1>3 DEF InsertKey
  <2>2. work[r] \in WorkRow /\ work[r].key \in Keys /\ work[r].body \in Body
      BY <2>1 DEF IInv, TypeOK, RequestsKnow
  <2>3. row \in WorkRow /\ row.pc = "create" /\ row.key = work[r].key /\ row.body = work[r].body
      BY <2>2 DEF WorkRow
  <2>4. CASE key[work[r].key] = NULL
    <3>1. Go(r, row)
        BY <1>3, <2>4 DEF InsertKey
    <3> HIDE DEF row
    <3> QED
        BY <2>1, <2>2, <2>3, <2>4, <3>1, RequestGoesOn DEF Locking, Reserved
  <2>5. CASE key[work[r].key] # NULL
      BY <1>3, <2>5, NothingWritten DEF InsertKey
  <2> QED
      BY <2>4, <2>5
<1>4. ASSUME NEW r \in Requests, NEW t \in Tenants, LockStep(r, t)
      PROVE  IInv'
  <2>1. ASSUME NEW next \in Statuses, BeginStatus(r, t, next) PROVE IInv'
    <3> DEFINE row == [NoWork EXCEPT !.pc = "status", !.next = next]
    <3>1. row \in WorkRow /\ row.pc = "status"
        BY DEF NoWork, WorkRow
    <3>2. LockTenant(r, t, row)
        BY <2>1 DEF BeginStatus
    <3> HIDE DEF row
    <3> QED
        BY <3>1, <3>2, LockTenantIInv DEF Locking
  <2>2. ASSUME NEW gsm \in Numbers, BeginProfile(r, t, gsm) PROVE IInv'
    <3> DEFINE row == [NoWork EXCEPT !.pc = "profile", !.gsm = gsm]
    <3>1. row \in WorkRow /\ row.pc = "profile" /\ row.gsm = gsm
        BY DEF NoWork, WorkRow
    <3>2. LockTenant(r, t, row)
        BY <2>2 DEF BeginProfile
    <3> HIDE DEF row
    <3> QED
        BY <3>1, <3>2, LockTenantIInv DEF Locking
  <2>3. ASSUME NEW pc \in {"retry", "mark"}, LockTenant(r, t, [NoWork EXCEPT !.pc = pc])
        PROVE  IInv'
    <3> DEFINE row == [NoWork EXCEPT !.pc = pc]
    <3>1. row \in WorkRow /\ row.pc = pc
        BY DEF NoWork, WorkRow
    <3> HIDE DEF row
    <3> QED
        BY <2>3, <3>1, LockTenantIInv DEF Locking, row
  <2> QED
      BY <1>4, <2>1, <2>2, <2>3 DEF LockStep, BeginRetry, BeginMark
<1>5. ASSUME NEW r \in Requests, CommitRetry(r) \/ CommitMark(r)
      PROVE  IInv'
  <2>1. work[r].seen \notin Unfinished
    <3>1. work[r].tenant \in Known /\ work[r].seen = tenant[work[r].tenant].status
        BY <1>5 DEF IInv, RequestsKnow, CommitRetry, CommitMark, Locking
    <3> QED
        BY <3>1 DEF IInv, TenantsAreKeyed
  <2>2. Go(r, NoWork)
      BY <1>5, <2>1 DEF CommitRetry, CommitMark, Go
  <2> QED
      BY <2>2, NothingWritten
<1>6. ASSUME NEW r \in Requests, Fail(r)
      PROVE  IInv'
    BY <1>6, NothingWritten DEF Fail
<1>7. ASSUME NEW r \in Requests, PlatformStep(r)
      PROVE  IInv'
  <2>1. CASE CreateStep(r)
      BY <1>2, <1>3, <2>1, CommitCreateIInv DEF CreateStep
  <2> QED
      BY <1>4, <1>5, <1>6, <1>7, <2>1, CommitStatusIInv, CommitProfileIInv DEF PlatformStep
<1> QED
    BY <1>1, <1>7 DEF Next

-----------------------------------------------------------------------------
(***************************************************************************)
(* In every reachable state: types, keyed tenants, true trails, and what   *)
(* the requests in flight rely on.                                         *)
(***************************************************************************)
THEOREM SpecIInv == Spec => []IInv
BY InitIInv, NextIInv, PTL DEF Spec

\* Every variable keeps its type.
THEOREM TypeCorrect == Spec => []TypeOK
<1>1. IInv => TypeOK
    BY DEF IInv
<1> QED
    BY <1>1, SpecIInv, PTL

\* However many creations, number changes and status changes race, tenants are
\* bought by one key each, names are unique, and none is half provisioned.
THEOREM TenantsStayKeyed == Spec => []TenantsAreKeyed
<1>1. IInv => TenantsAreKeyed
    BY DEF IInv
<1> QED
    BY <1>1, SpecIInv, PTL

\* Lifecycle events always lead without a gap to the status, which health repeats.
THEOREM TrailsStayTrue == Spec => []TrailLeadsToStatus
<1>1. IInv => TrailLeadsToStatus
    BY DEF IInv
<1> QED
    BY <1>1, SpecIInv, PTL
=============================================================================
