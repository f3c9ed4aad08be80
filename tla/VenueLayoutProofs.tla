------------------------- MODULE VenueLayoutProofs -------------------------
(***************************************************************************)
(* Proofs about VenueLayout, for any number of halls, blocks, slots and    *)
(* requests. What a request read and checked stays true until it writes,   *)
(* because blocks, table numbers and rows are never taken away: this       *)
(* (RequestsFit) is what makes TypeOK and HallsAreWhole inductive.         *)
(***************************************************************************)
EXTENDS VenueLayout, TLAPS

IInv == TypeOK /\ HallsAreWhole /\ RequestsFit

\* In every initial state the three parts hold.
LEMMA InitIInv == Init => IInv
<1> SUFFICES ASSUME Init PROVE IInv
    OBVIOUS
<1> USE DEF Init
<1>1. TypeOK
    BY DEF TypeOK, WorkRow, NoWork, Tables
<1>2. HallsAreWhole
    BY DEF HallsAreWhole, Tables
<1>3. RequestsFit
    BY DEF RequestsFit, NoWork
<1> QED
    BY <1>1, <1>2, <1>3 DEF IInv

\* A table is a number whose row is not NULL, and then it is a TableRow.
LEMMA TableIsRow ==
    ASSUME TypeOK, NEW n \in Tables
    PROVE  n \in Numbers /\ table[n] \in TableRow /\ table[n].hall \in Halls
BY DEF TypeOK, Tables, TableRow

LEMMA NoWorkIsRow == NoWork \in WorkRow /\ NoWork.pc = "idle"
BY DEF NoWork, WorkRow

(***************************************************************************)
(* Rows are only ever added, and the block of a hall never changes: every  *)
(* step is one of these, and it cannot spoil what a request has checked.   *)
(***************************************************************************)
Grows ==
    /\ Tables \subseteq Tables'
    /\ \A h \in Halls : hall[h] # NULL => hall'[h] # NULL /\ hall'[h].block = hall[h].block

LEMMA RequestsStayFit ==
    ASSUME TypeOK, RequestsFit, Grows,
           \A q \in Requests : work'[q] = work[q] \/ work'[q] = NoWork
    PROVE  RequestsFit'
<1> DEFINE Fits(q) ==
        /\ work[q].pc = "disable_hall" => work[q].hall \in Halls /\ hall[work[q].hall] # NULL
        /\ work[q].pc \in {"write_table", "disable_table"} => work[q].number \in Tables
        /\ work[q].pc = "write_table" =>
              /\ work[q].row \in TableRow
              /\ hall[work[q].row.hall] # NULL
              /\ InRange(work[q].number, work[q].row.hall)
              /\ ModeAllowed(work[q].number, work[q].row.mode)
<1> SUFFICES ASSUME NEW q \in Requests PROVE Fits(q)'
    BY DEF RequestsFit
<1>1. CASE work'[q] = NoWork
    BY <1>1, NoWorkIsRow
<1>2. CASE work'[q] = work[q]
  <2>1. work[q].pc = "write_table" => work[q].row.hall \in Halls
      BY DEF RequestsFit, TableRow
  <2>2. Fits(q)
      BY DEF RequestsFit
  <2> QED
      BY <1>2, <2>1, <2>2 DEF Grows, InRange, ModeAllowed, Boundary
<1> QED
    BY <1>1, <1>2

-----------------------------------------------------------------------------
\* A new hall takes a block that no hall and no table has.
LEMMA CreateHallIInv ==
    ASSUME IInv, NEW h \in Halls, NEW o \in Blocks, CreateHall(h, o)
    PROVE  IInv' /\ Grows
<1> USE DEF IInv
<1> DEFINE new == [order |-> o, block |-> o, enabled |-> TRUE]
           slot == [hall |-> h, mode |-> "virtual_test", enabled |-> TRUE]
<1>1. new \in HallRow /\ slot \in TableRow /\ new # NULL /\ slot # NULL
  <2>1. new \in HallRow /\ slot \in TableRow
      BY DEF HallRow, TableRow, Modes
  <2> QED
      BY <2>1, VenueAssumption
<1>2. new.block = o /\ slot.hall = h /\ slot.mode = "virtual_test"
    OBVIOUS
<1>3. /\ hall[h] = NULL
      /\ hall' = [hall EXCEPT ![h] = new]
      /\ table' = [n \in Numbers |-> IF n[1] = o THEN slot ELSE table[n]]
      /\ open' = open
      /\ work' = work
    BY DEF CreateHall
<1>4. \A g \in Halls : hall[g] # NULL => hall[g].block # o
    BY DEF CreateHall, Taken
<1> HIDE DEF new, slot
<1>5. Tables' = Tables \cup {n \in Numbers : n[1] = o}
    BY <1>1, <1>3 DEF Tables
<1>6. hall'[h] = new /\ \A g \in Halls \ {h} : hall'[g] = hall[g]
    BY <1>3 DEF TypeOK
<1>7. Grows
    BY <1>3, <1>5, <1>6 DEF Grows
<1>8. TypeOK'
  <2>1. hall' \in [Halls -> HallRow \cup {NULL}]
      BY <1>1, <1>3 DEF TypeOK
  <2>2. table' \in [Numbers -> TableRow \cup {NULL}]
      BY <1>1, <1>3 DEF TypeOK
  <2> QED
      BY <2>1, <2>2, <1>3, <1>5 DEF TypeOK
<1>9. HallsAreWhole'
  <2>1. ASSUME NEW n \in Tables'
        PROVE  /\ hall'[table'[n].hall] # NULL
               /\ InRange(n, table[n].hall)'
               /\ ModeAllowed(n, table[n].mode)'
    <3>1. CASE n[1] = o
      <4>1. n \in Numbers /\ table'[n] = slot
          BY <1>3, <1>5, <2>1, <3>1 DEF Tables
      <4> QED
          BY <1>1, <1>2, <1>6, <3>1, <4>1 DEF InRange, ModeAllowed
    <3>2. CASE n[1] # o
      <4>1. n \in Tables /\ table'[n] = table[n]
          BY <1>3, <1>5, <2>1, <3>2 DEF Tables
      <4>2. table[n].hall \in Halls /\ table[n].hall # h
          BY <1>3, <4>1, TableIsRow DEF HallsAreWhole
      <4> QED
          BY <1>6, <4>1, <4>2 DEF HallsAreWhole, InRange, ModeAllowed, Boundary
    <3> QED
        BY <3>1, <3>2
  <2>2. ASSUME NEW g \in Halls, NEW n \in Numbers, hall'[g] # NULL, InRange(n, g)'
        PROVE  n \in Tables'
    <3>1. CASE g = h
        BY <1>2, <1>5, <1>6, <2>2, <3>1 DEF InRange
    <3>2. CASE g # h
        BY <1>5, <1>6, <2>2, <3>2 DEF InRange, HallsAreWhole
    <3> QED
        BY <3>1, <3>2
  <2>3. ASSUME NEW f \in Halls, NEW g \in Halls, hall'[f] # NULL, hall'[g] # NULL,
               hall'[f].block = hall'[g].block
        PROVE  f = g
      BY <1>2, <1>4, <1>6, <2>3 DEF HallsAreWhole
  <2> QED
      BY <2>1, <2>2, <2>3 DEF HallsAreWhole
<1> QED
    BY <1>3, <1>7, <1>8, <1>9, RequestsStayFit

(***************************************************************************)
(* Steps that write a hall but neither its block nor a table.              *)
(***************************************************************************)
LEMMA HallWriteIInv ==
    ASSUME IInv, NEW h \in Halls, hall[h] # NULL, NEW new \in HallRow,
           new.block = hall[h].block,
           hall' = [hall EXCEPT ![h] = new],
           table' = table, open' = open,
           work' \in [Requests -> WorkRow],
           \A q \in Requests : work'[q] = work[q] \/ work'[q] = NoWork
    PROVE  IInv' /\ Grows
<1> USE DEF IInv
<1>1. /\ new # NULL
      /\ Tables' = Tables
      /\ \A g \in Halls : hall'[g] = IF g = h THEN new ELSE hall[g]
    BY VenueAssumption DEF Tables, TypeOK
<1>2. \A g \in Halls : /\ hall'[g] # NULL <=> hall[g] # NULL
                       /\ hall'[g].block = hall[g].block
    BY <1>1
<1>3. Grows
    BY <1>1, <1>2 DEF Grows
<1>4. TypeOK'
    BY <1>1 DEF TypeOK
<1>5. HallsAreWhole'
  <2>1. \A n \in Tables : table[n].hall \in Halls
      BY TableIsRow
  <2> QED
      BY <1>1, <1>2, <2>1 DEF HallsAreWhole, InRange, ModeAllowed, Boundary
<1> QED
    BY <1>3, <1>4, <1>5, RequestsStayFit

LEMMA UpdateHallIInv ==
    ASSUME IInv, NEW h \in Halls, NEW o \in Blocks, UpdateHall(h, o)
    PROVE  IInv' /\ Grows
<1> DEFINE new == [hall[h] EXCEPT !.order = o]
<1>1. hall[h] # NULL /\ hall[h] \in HallRow
    BY DEF IInv, TypeOK, UpdateHall
<1>2. new \in HallRow /\ new.block = hall[h].block
    BY <1>1 DEF HallRow
<1>3. /\ hall' = [hall EXCEPT ![h] = new]
      /\ table' = table /\ open' = open /\ work' = work
    BY DEF UpdateHall
<1>4. work' \in [Requests -> WorkRow]
    BY <1>3 DEF IInv, TypeOK
<1> HIDE DEF new
<1> QED
    BY <1>1, <1>2, <1>3, <1>4, HallWriteIInv

LEMMA DisableHallIInv ==
    ASSUME IInv, NEW r \in Requests, DisableHall(r)
    PROVE  IInv' /\ Grows
<1> DEFINE h == work[r].hall
           new == [hall[h] EXCEPT !.enabled = FALSE]
<1>1. h \in Halls /\ hall[h] # NULL
    BY DEF IInv, RequestsFit, DisableHall
<1>2. hall[h] \in HallRow
    BY <1>1 DEF IInv, TypeOK
<1>3. new \in HallRow /\ new.block = hall[h].block
    BY <1>2 DEF HallRow
<1>4. /\ hall' = [hall EXCEPT ![h] = new]
      /\ table' = table /\ open' = open
      /\ work' = [work EXCEPT ![r] = NoWork]
    BY DEF DisableHall, Continue
<1>5. /\ work' \in [Requests -> WorkRow]
      /\ \A q \in Requests : work'[q] = work[q] \/ work'[q] = NoWork
    BY <1>4, NoWorkIsRow DEF IInv, TypeOK
<1> HIDE DEF new, h
<1> QED
    BY <1>1, <1>3, <1>4, <1>5, HallWriteIInv

-----------------------------------------------------------------------------
(***************************************************************************)
(* Steps that write one table: its hall has it in its range and its mode   *)
(* is allowed. A number in the range of a hall has a row already.          *)
(***************************************************************************)
LEMMA TableWriteIInv ==
    ASSUME IInv, NEW n \in Tables, NEW new \in TableRow,
           hall[new.hall] # NULL, InRange(n, new.hall), ModeAllowed(n, new.mode),
           table' = [table EXCEPT ![n] = new],
           hall' = hall, open' = open,
           work' \in [Requests -> WorkRow],
           \A q \in Requests : work'[q] = work[q] \/ work'[q] = NoWork
    PROVE  IInv' /\ Grows
<1> USE DEF IInv
<1>1. n \in Numbers /\ table \in [Numbers -> TableRow \cup {NULL}]
    BY TableIsRow DEF TypeOK
<1>2. \A m \in Numbers : table'[m] = IF m = n THEN new ELSE table[m]
    BY <1>1
<1>3. new # NULL /\ Tables' = Tables
    BY <1>1, <1>2, VenueAssumption DEF Tables
<1>4. Grows
    BY <1>3 DEF Grows
<1>5. TypeOK'
    BY <1>1, <1>3 DEF TypeOK
<1>6. HallsAreWhole'
  <2>1. ASSUME NEW m \in Tables'
        PROVE  /\ hall'[table'[m].hall] # NULL
               /\ InRange(m, table[m].hall)'
               /\ ModeAllowed(m, table[m].mode)'
    <3>1. m \in Tables /\ m \in Numbers
        BY <1>3, <2>1 DEF Tables
    <3>2. CASE m = n
        BY <1>2, <3>1, <3>2 DEF InRange, ModeAllowed, Boundary
    <3>3. CASE m # n
        BY <1>2, <3>1, <3>3 DEF HallsAreWhole, InRange, ModeAllowed, Boundary
    <3> QED
        BY <3>2, <3>3
  <2> QED
      BY <2>1, <1>3 DEF HallsAreWhole, InRange
<1> QED
    BY <1>4, <1>5, <1>6, RequestsStayFit

LEMMA WriteTableIInv ==
    ASSUME IInv, NEW r \in Requests, WriteTable(r)
    PROVE  IInv' /\ Grows
<1> DEFINE n == work[r].number
           new == work[r].row
<1>1. /\ n \in Tables
      /\ new \in TableRow
      /\ hall[new.hall] # NULL /\ InRange(n, new.hall) /\ ModeAllowed(n, new.mode)
    BY DEF IInv, RequestsFit, WriteTable
<1>2. /\ table' = [table EXCEPT ![n] = new]
      /\ hall' = hall /\ open' = open
      /\ work' = [work EXCEPT ![r] = NoWork]
    BY DEF WriteTable, Continue
<1>3. /\ work' \in [Requests -> WorkRow]
      /\ \A q \in Requests : work'[q] = work[q] \/ work'[q] = NoWork
    BY <1>2, NoWorkIsRow DEF IInv, TypeOK
<1> HIDE DEF new, n
<1> QED
    BY <1>1, <1>2, <1>3, TableWriteIInv

LEMMA DisableTableIInv ==
    ASSUME IInv, NEW r \in Requests, DisableTable(r)
    PROVE  IInv' /\ Grows
<1> DEFINE n == work[r].number
           new == [table[n] EXCEPT !.enabled = FALSE]
<1>1. n \in Tables
    BY DEF IInv, RequestsFit, DisableTable
<1>2. table[n] \in TableRow
    BY <1>1, TableIsRow DEF IInv
<1>3. new \in TableRow /\ new.hall = table[n].hall /\ new.mode = table[n].mode
    BY <1>2 DEF TableRow
<1>4. /\ hall[table[n].hall] # NULL
      /\ InRange(n, table[n].hall)
      /\ ModeAllowed(n, table[n].mode)
    BY <1>1 DEF IInv, HallsAreWhole
<1>5. /\ table' = [table EXCEPT ![n] = new]
      /\ hall' = hall /\ open' = open
      /\ work' = [work EXCEPT ![r] = NoWork]
    BY DEF DisableTable, Continue
<1>6. /\ work' \in [Requests -> WorkRow]
      /\ \A q \in Requests : work'[q] = work[q] \/ work'[q] = NoWork
    BY <1>5, NoWorkIsRow DEF IInv, TypeOK
<1> HIDE DEF new, n
<1> QED
    BY <1>1, <1>3, <1>4, <1>5, <1>6, TableWriteIInv

\* create_table inserts nothing: a hall has all the tables of its range.
LEMMA CreateTableAddsNothing ==
    ASSUME IInv, NEW h \in Halls, NEW i \in 1 .. SlotCount + 1, NEW mode \in Modes,
           CreateTable(h, i, mode)
    PROVE  UNCHANGED venueVars
<1> DEFINE n == <<hall[h].block, i - 1>>
<1>1. hall[h] # NULL /\ hall[h].block \in Blocks
    BY DEF CreateTable, IInv, TypeOK, HallRow
<1>2. n \in Numbers /\ InRange(n, h)
    BY <1>1 DEF CreateTable, Numbers, InRange
<1>3. n \in Tables
    BY <1>1, <1>2 DEF IInv, HallsAreWhole
<1> QED
    BY <1>3 DEF CreateTable, venueVars

-----------------------------------------------------------------------------
(***************************************************************************)
(* Steps that leave halls and tables alone.                                *)
(***************************************************************************)
LEMMA LayoutUnchanged ==
    ASSUME IInv, hall' = hall, table' = table, open' \subseteq Tables,
           work' \in [Requests -> WorkRow], RequestsFit'
    PROVE  IInv' /\ Grows
<1> USE DEF IInv
<1>1. Tables' = Tables
    BY DEF Tables
<1>2. Grows
    BY <1>1 DEF Grows
<1>3. TypeOK'
    BY <1>1 DEF TypeOK
<1>4. HallsAreWhole'
    BY <1>1 DEF HallsAreWhole, InRange, ModeAllowed, Boundary
<1> QED
    BY <1>2, <1>3, <1>4

\* Steps that leave everything but the open sessions alone, or end a request.
LEMMA QuietIInv ==
    ASSUME IInv, hall' = hall, table' = table, open' \subseteq Tables,
           work' \in [Requests -> WorkRow],
           \A q \in Requests : work'[q] = work[q] \/ work'[q] = NoWork
    PROVE  IInv' /\ Grows
<1>1. Tables' = Tables
    BY DEF Tables
<1>2. Grows
    BY <1>1 DEF Grows
<1>3. RequestsFit'
    BY <1>2, RequestsStayFit DEF IInv
<1> QED
    BY <1>3, LayoutUnchanged

\* A request that begins with what it has just read.
LEMMA BeginIInv ==
    ASSUME IInv, NEW r \in Requests, NEW row \in WorkRow,
           UNCHANGED <<hall, table, open>>,
           Continue(r, row),
           row.pc = "disable_hall" => row.hall \in Halls /\ hall[row.hall] # NULL,
           row.pc \in {"write_table", "disable_table"} => row.number \in Tables,
           row.pc = "write_table" =>
              /\ row.row \in TableRow
              /\ hall[row.row.hall] # NULL
              /\ InRange(row.number, row.row.hall)
              /\ ModeAllowed(row.number, row.row.mode)
    PROVE  IInv' /\ Grows
<1>1. /\ work' \in [Requests -> WorkRow]
      /\ \A q \in Requests : work'[q] = IF q = r THEN row ELSE work[q]
    BY DEF IInv, TypeOK, Continue
<1>2. Tables' = Tables
    BY DEF Tables
<1>3. RequestsFit'
    BY <1>1, <1>2 DEF IInv, RequestsFit, InRange, ModeAllowed, Boundary
<1>4. open' \subseteq Tables
    BY DEF IInv, TypeOK
<1> QED
    BY <1>1, <1>3, <1>4, LayoutUnchanged

LEMMA BeginUpdateTableIInv ==
    ASSUME IInv, NEW r \in Requests, NEW n \in Numbers, NEW h \in Halls \cup {NULL},
           NEW mode \in Modes \cup {NULL}, NEW enabled \in BOOLEAN \cup {NULL},
           BeginUpdateTable(r, n, h, mode, enabled)
    PROVE  IInv' /\ Grows
<1> DEFINE old == table[n]
           new == [hall |-> IF h = NULL THEN old.hall ELSE h,
                   mode |-> IF mode = NULL THEN old.mode ELSE mode,
                   enabled |-> IF enabled = NULL THEN old.enabled ELSE enabled]
           row == [NoWork EXCEPT !.pc = "write_table", !.number = n, !.row = new]
<1>1. n \in Tables
    BY DEF BeginUpdateTable
<1>2. old \in TableRow
    BY <1>1, TableIsRow DEF IInv
<1>3. new \in TableRow
    BY <1>2 DEF TableRow
<1>4. /\ hall[new.hall] # NULL
      /\ InRange(n, new.hall)
      /\ ModeAllowed(n, new.mode)
      /\ Continue(r, row)
      /\ UNCHANGED <<hall, table, open>>
    BY DEF BeginUpdateTable
<1> HIDE DEF new
<1>5. /\ row \in WorkRow
      /\ row.pc = "write_table" /\ row.number = n /\ row.row = new
    BY <1>3 DEF NoWork, WorkRow
<1> HIDE DEF row
<1> QED
    BY <1>1, <1>3, <1>4, <1>5, BeginIInv

LEMMA BeginDisableIInv ==
    ASSUME IInv, NEW r \in Requests
    PROVE  /\ \A h \in Halls : BeginDisableHall(r, h) => IInv' /\ Grows
           /\ \A n \in Numbers : BeginDisableTable(r, n) => IInv' /\ Grows
<1>1. ASSUME NEW h \in Halls, BeginDisableHall(r, h) PROVE IInv' /\ Grows
  <2> DEFINE row == [NoWork EXCEPT !.pc = "disable_hall", !.hall = h]
  <2>1. row \in WorkRow /\ row.pc = "disable_hall" /\ row.hall = h
      BY DEF NoWork, WorkRow
  <2>2. hall[h] # NULL /\ Continue(r, row) /\ UNCHANGED <<hall, table, open>>
      BY <1>1 DEF BeginDisableHall
  <2> HIDE DEF row
  <2> QED
      BY <2>1, <2>2, BeginIInv
<1>2. ASSUME NEW n \in Numbers, BeginDisableTable(r, n) PROVE IInv' /\ Grows
  <2> DEFINE row == [NoWork EXCEPT !.pc = "disable_table", !.number = n]
  <2>1. row \in WorkRow /\ row.pc = "disable_table" /\ row.number = n
      BY DEF NoWork, WorkRow
  <2>2. n \in Tables /\ Continue(r, row) /\ UNCHANGED <<hall, table, open>>
      BY <1>2 DEF BeginDisableTable
  <2> HIDE DEF row
  <2> QED
      BY <2>1, <2>2, BeginIInv
<1> QED
    BY <1>1, <1>2

-----------------------------------------------------------------------------
\* Every step keeps the invariant, and takes no row away and no block.
LEMMA StepIInv == IInv /\ [Next]_venueVars => IInv' /\ Grows
<1> SUFFICES ASSUME IInv, [Next]_venueVars PROVE IInv' /\ Grows
    OBVIOUS
<1>1. work \in [Requests -> WorkRow] /\ open \subseteq Tables
    BY DEF IInv, TypeOK
<1>2. CASE UNCHANGED venueVars
    BY <1>1, <1>2, QuietIInv DEF venueVars
<1>3. ASSUME NEW h \in Halls, NEW o \in Blocks, CreateHall(h, o) \/ UpdateHall(h, o)
      PROVE  IInv' /\ Grows
    BY <1>3, CreateHallIInv, UpdateHallIInv
<1>4. ASSUME NEW h \in Halls, NEW i \in 1 .. SlotCount + 1, NEW mode \in Modes,
             CreateTable(h, i, mode)
      PROVE  IInv' /\ Grows
  <2>1. UNCHANGED venueVars
      BY <1>4, CreateTableAddsNothing
  <2> QED
      BY <1>1, <2>1, QuietIInv DEF venueVars
<1>5. ASSUME NEW r \in Requests, RequestStep(r) PROVE IInv' /\ Grows
  <2>1. CASE Fail(r)
    <3>1. work' = [work EXCEPT ![r] = NoWork] /\ UNCHANGED <<hall, table, open>>
        BY <2>1 DEF Fail, Continue
    <3>2. /\ work' \in [Requests -> WorkRow]
          /\ \A q \in Requests : work'[q] = work[q] \/ work'[q] = NoWork
        BY <1>1, <3>1, NoWorkIsRow
    <3> QED
        BY <1>1, <3>1, <3>2, QuietIInv
  <2>2. CASE DisableHall(r) \/ WriteTable(r) \/ DisableTable(r)
      BY <2>2, DisableHallIInv, WriteTableIInv, DisableTableIInv
  <2>3. CASE \/ \E h \in Halls : BeginDisableHall(r, h)
             \/ \E n \in Numbers : BeginDisableTable(r, n)
      BY <2>3, BeginDisableIInv
  <2>4. ASSUME NEW n \in Numbers, NEW h \in Halls \cup {NULL},
               NEW mode \in Modes \cup {NULL}, NEW enabled \in BOOLEAN \cup {NULL},
               BeginUpdateTable(r, n, h, mode, enabled)
        PROVE  IInv' /\ Grows
      BY <2>4, BeginUpdateTableIInv
  <2> QED
      BY <1>5, <2>1, <2>2, <2>3, <2>4 DEF RequestStep
<1>6. ASSUME NEW n \in Numbers, Seat(n) \/ Leave(n) PROVE IInv' /\ Grows
  <2>1. open' \subseteq Tables /\ UNCHANGED <<hall, table, work>>
      BY <1>1, <1>6 DEF Seat, Leave
  <2> QED
      BY <1>1, <2>1, QuietIInv
<1> QED
    BY <1>2, <1>3, <1>4, <1>5, <1>6 DEF Next, HallStep

LEMMA SpecIInv == Spec => []IInv
<1>1. IInv /\ [Next]_venueVars => IInv'
    BY StepIInv
<1> QED
    BY InitIInv, <1>1, PTL DEF Spec

(***************************************************************************)
(* The rows of halls, tables and requests are always of their types, and a *)
(* session is open only at a table that exists.                            *)
(***************************************************************************)
THEOREM TypeCorrect == Spec => []TypeOK
<1>1. IInv => TypeOK
    BY DEF IInv
<1> QED
    BY SpecIInv, <1>1, PTL

(***************************************************************************)
(* However many admins create, reorder, move, promote and disable at once, *)
(* every hall has its block to itself with all and only its tables, and    *)
(* boundary slots stay virtual.                                            *)
(***************************************************************************)
THEOREM HallsStayWhole == Spec => []HallsAreWhole
<1>1. IInv => HallsAreWhole
    BY DEF IInv
<1> QED
    BY SpecIInv, <1>1, PTL
-----------------------------------------------------------------------------
life == [h \in Halls |-> LifeOf(h)]
owner == [n \in Numbers |-> OwnerOf(n)]

\* A step that keeps which halls there are, which of them are enabled, and the
\* hall of every table is invisible in the allocation.
LEMMA Invisible ==
    ASSUME \A h \in Halls : LifeOf(h)' = LifeOf(h),
           \A n \in Numbers : OwnerOf(n)' = OwnerOf(n)
    PROVE  life' = life /\ owner' = owner
BY DEF life, owner

LEMMA CreateHallClaims ==
    ASSUME IInv, NEW h \in Halls, NEW o \in Blocks, CreateHall(h, o)
    PROVE  TheAllocation!Claim(h, o)
<1> DEFINE new == [order |-> o, block |-> o, enabled |-> TRUE]
           slot == [hall |-> h, mode |-> "virtual_test", enabled |-> TRUE]
<1>1. new \in HallRow /\ slot \in TableRow
    BY DEF HallRow, TableRow, Modes
<1>2. new # NULL /\ slot # NULL
    BY <1>1, VenueAssumption
<1>3. /\ hall[h] = NULL
      /\ hall' = [hall EXCEPT ![h] = new]
      /\ table' = [n \in Numbers |-> IF n[1] = o THEN slot ELSE table[n]]
      /\ \A g \in Halls : hall[g] # NULL => hall[g].block # o
    BY DEF CreateHall, Taken
<1>4. new.enabled /\ slot.hall = h
    OBVIOUS
<1> HIDE DEF new, slot
<1>5. hall'[h] = new /\ \A g \in Halls \ {h} : hall'[g] = hall[g]
    BY <1>3 DEF IInv, TypeOK
<1>6. \A n \in Numbers : n[1] = o => table[n] = NULL
  <2> SUFFICES ASSUME NEW n \in Numbers, n[1] = o, table[n] # NULL PROVE FALSE
      OBVIOUS
  <2>1. n \in Tables
      BY DEF Tables
  <2>2. table[n].hall \in Halls /\ hall[table[n].hall] # NULL /\ n[1] = hall[table[n].hall].block
      BY <2>1, TableIsRow DEF IInv, HallsAreWhole, InRange
  <2> QED
      BY <1>3, <2>2
<1>7. LifeOf(h) = "none" /\ life' = [life EXCEPT ![h] = "enabled"]
    BY <1>2, <1>3, <1>4, <1>5 DEF life, LifeOf
<1>8. owner' = [n \in Numbers |-> IF n[1] = o THEN h ELSE owner[n]]
    BY <1>2, <1>3, <1>4 DEF owner, OwnerOf
<1>9. \A i \in Slots : owner[<<o, i>>] = NULL
    BY <1>6 DEF owner, OwnerOf, Numbers
<1> QED
    BY <1>7, <1>8, <1>9 DEF TheAllocation!Claim, life, owner, Numbers

LEMMA DisableHallRetires ==
    ASSUME IInv, NEW h \in Halls, hall[h] # NULL,
           hall' = [hall EXCEPT ![h].enabled = FALSE], table' = table
    PROVE  TheAllocation!Retire(h) \/ (life' = life /\ owner' = owner)
<1> DEFINE new == [hall[h] EXCEPT !.enabled = FALSE]
<1>1. h \in Halls /\ hall[h] # NULL
    OBVIOUS
<1>2. hall[h] \in HallRow
    BY <1>1 DEF IInv, TypeOK
<1>3. new \in HallRow /\ new.enabled = FALSE
    BY <1>2 DEF HallRow
<1>4. hall' = [hall EXCEPT ![h] = new] /\ table' = table
    OBVIOUS
<1> HIDE DEF new
<1>5. new # NULL
    BY <1>3, VenueAssumption
<1>6. hall'[h] = new /\ \A g \in Halls \ {h} : hall'[g] = hall[g]
    BY <1>1, <1>4 DEF IInv, TypeOK
<1>7. \A n \in Numbers : OwnerOf(n)' = OwnerOf(n)
    BY <1>4 DEF OwnerOf
<1>8. owner' = owner
    BY <1>7 DEF owner
<1>9. LifeOf(h)' = "disabled" /\ \A g \in Halls \ {h} : LifeOf(g)' = LifeOf(g)
    BY <1>3, <1>5, <1>6 DEF LifeOf
<1>10. CASE hall[h].enabled
  <2>1. LifeOf(h) = "enabled"
      BY <1>1, <1>10 DEF LifeOf
  <2>2. life' = [life EXCEPT ![h] = "disabled"]
      BY <1>1, <1>9 DEF life
  <2> QED
      BY <1>1, <1>8, <2>1, <2>2 DEF TheAllocation!Retire, life, owner
<1>11. CASE ~ hall[h].enabled
  <2>1. LifeOf(h) = "disabled"
      BY <1>1, <1>11 DEF LifeOf
  <2> QED
      BY <1>1, <1>7, <1>9, <2>1, Invisible
<1> QED
    BY <1>10, <1>11

\* A table stays with its hall when its row is written: the new hall has it in
\* its range, and so has the old one.
LEMMA TableWriteInvisible ==
    ASSUME IInv, NEW n \in Tables, NEW new \in TableRow,
           hall[new.hall] # NULL, InRange(n, new.hall),
           table' = [table EXCEPT ![n] = new], hall' = hall
    PROVE  life' = life /\ owner' = owner
<1>1. new # NULL /\ new.hall \in Halls
    BY VenueAssumption DEF TableRow
<1>2. table[n].hall \in Halls /\ hall[table[n].hall] # NULL /\ InRange(n, table[n].hall)
    BY TableIsRow DEF IInv, HallsAreWhole
<1>3. new.hall = table[n].hall
    BY <1>1, <1>2 DEF IInv, HallsAreWhole, InRange
<1>4. \A m \in Numbers : table'[m] = IF m = n THEN new ELSE table[m]
    BY DEF IInv, TypeOK
<1>5. \A m \in Numbers : OwnerOf(m)' = OwnerOf(m)
    BY <1>1, <1>3, <1>4 DEF OwnerOf, Tables
<1>6. \A h \in Halls : LifeOf(h)' = LifeOf(h)
    BY DEF LifeOf
<1> QED
    BY <1>5, <1>6, Invisible

LEMMA QuietInvisible ==
    ASSUME hall' = hall, table' = table
    PROVE  life' = life /\ owner' = owner
BY DEF life, owner, LifeOf, OwnerOf

LEMMA UpdateHallInvisible ==
    ASSUME IInv, NEW h \in Halls, NEW o \in Blocks, UpdateHall(h, o)
    PROVE  life' = life /\ owner' = owner
<1> DEFINE new == [hall[h] EXCEPT !.order = o]
<1>1. hall[h] # NULL /\ hall[h] \in HallRow
    BY DEF IInv, TypeOK, UpdateHall
<1>2. new \in HallRow /\ new.enabled = hall[h].enabled
    BY <1>1 DEF HallRow
<1>3. hall' = [hall EXCEPT ![h] = new] /\ table' = table
    BY DEF UpdateHall
<1> HIDE DEF new
<1>4. new # NULL
    BY <1>2, VenueAssumption
<1>5. \A g \in Halls : hall'[g] = IF g = h THEN new ELSE hall[g]
    BY <1>3 DEF IInv, TypeOK
<1>6. \A g \in Halls : LifeOf(g)' = LifeOf(g)
    BY <1>1, <1>2, <1>4, <1>5 DEF LifeOf
<1>7. \A n \in Numbers : OwnerOf(n)' = OwnerOf(n)
    BY <1>3 DEF OwnerOf
<1> QED
    BY <1>6, <1>7, Invisible

\* Every step claims a block, retires a hall or is invisible.
LEMMA StepAllocates ==
    ASSUME IInv, [Next]_venueVars
    PROVE  [TheAllocation!AllocationNext]_(TheAllocation!allocationVars)
<1> DEFINE Allocates == [TheAllocation!AllocationNext]_(TheAllocation!allocationVars)
<1>1. (life' = life /\ owner' = owner) => Allocates
    BY DEF TheAllocation!allocationVars, life, owner
<1>2. \A h \in Halls : TheAllocation!Retire(h) => Allocates
    BY DEF TheAllocation!AllocationNext
<1>3. \A h \in Halls, o \in Blocks : TheAllocation!Claim(h, o) => Allocates
    BY DEF TheAllocation!AllocationNext
<1> HIDE DEF Allocates
<1> SUFFICES Allocates
    BY DEF Allocates
<1>4. CASE UNCHANGED venueVars
    BY <1>1, <1>4, QuietInvisible DEF venueVars
<1>5. ASSUME NEW h \in Halls, NEW o \in Blocks, CreateHall(h, o) \/ UpdateHall(h, o)
      PROVE  Allocates
    BY <1>1, <1>3, <1>5, CreateHallClaims, UpdateHallInvisible
<1>6. ASSUME NEW h \in Halls, NEW i \in 1 .. SlotCount + 1, NEW mode \in Modes,
             CreateTable(h, i, mode)
      PROVE  Allocates
  <2>1. UNCHANGED venueVars
      BY <1>6, CreateTableAddsNothing
  <2> QED
      BY <1>1, <2>1, QuietInvisible DEF venueVars
<1>7. ASSUME NEW r \in Requests, RequestStep(r) PROVE Allocates
  <2>1. CASE hall' = hall /\ table' = table
      BY <1>1, <2>1, QuietInvisible
  <2>2. CASE DisableHall(r)
    <3> DEFINE h == work[r].hall
    <3>1. h \in Halls /\ hall[h] # NULL
        BY <2>2 DEF IInv, RequestsFit, DisableHall
    <3>2. hall' = [hall EXCEPT ![h].enabled = FALSE] /\ table' = table
        BY <2>2 DEF DisableHall
    <3> HIDE DEF h
    <3> QED
        BY <1>1, <1>2, <3>1, <3>2, DisableHallRetires
  <2>3. CASE WriteTable(r)
    <3> DEFINE n == work[r].number
               new == work[r].row
    <3>1. /\ n \in Tables /\ new \in TableRow
          /\ hall[new.hall] # NULL /\ InRange(n, new.hall)
        BY <2>3 DEF IInv, RequestsFit, WriteTable
    <3>2. table' = [table EXCEPT ![n] = new] /\ hall' = hall
        BY <2>3 DEF WriteTable
    <3> HIDE DEF n, new
    <3> QED
        BY <1>1, <3>1, <3>2, TableWriteInvisible
  <2>4. CASE DisableTable(r)
    <3> DEFINE n == work[r].number
               new == [table[n] EXCEPT !.enabled = FALSE]
    <3>1. n \in Tables
        BY <2>4 DEF IInv, RequestsFit, DisableTable
    <3>2. table[n] \in TableRow /\ hall[table[n].hall] # NULL /\ InRange(n, table[n].hall)
        BY <3>1, TableIsRow DEF IInv, HallsAreWhole
    <3>3. new \in TableRow /\ new.hall = table[n].hall
        BY <3>2 DEF TableRow
    <3>4. table' = [table EXCEPT ![n] = new] /\ hall' = hall
        BY <2>4 DEF DisableTable
    <3> HIDE DEF n, new
    <3> QED
        BY <1>1, <3>1, <3>2, <3>3, <3>4, TableWriteInvisible
  <2>5. CASE Fail(r)
      BY <2>1, <2>5 DEF Fail
  <2>6. CASE \/ \E h \in Halls : BeginDisableHall(r, h)
             \/ \E n \in Numbers : BeginDisableTable(r, n)
      BY <2>1, <2>6 DEF BeginDisableHall, BeginDisableTable
  <2>7. CASE \E n \in Numbers, h \in Halls \cup {NULL}, mode \in Modes \cup {NULL},
                enabled \in BOOLEAN \cup {NULL} : BeginUpdateTable(r, n, h, mode, enabled)
    <3>1. hall' = hall /\ table' = table
        BY <2>7 DEF BeginUpdateTable
    <3> QED
        BY <2>1, <3>1
  <2> QED
      BY <1>7, <2>2, <2>3, <2>4, <2>5, <2>6, <2>7 DEF RequestStep
<1>8. ASSUME NEW n \in Numbers, Seat(n) \/ Leave(n) PROVE Allocates
    BY <1>1, <1>8, QuietInvisible DEF Seat, Leave
<1> QED
    BY <1>4, <1>5, <1>6, <1>7, <1>8 DEF Next, HallStep

(***************************************************************************)
(* The layout implements Allocation: whole blocks to one hall each, no     *)
(* number ever passed on, and no retired hall back.                        *)
(***************************************************************************)
THEOREM LayoutImplementsAllocation == Spec => ImplementsAllocation
<1>1. Init => TheAllocation!AllocationInit
    BY DEF Init, TheAllocation!AllocationInit, LifeOf, OwnerOf, Numbers
<1>2. IInv /\ [Next]_venueVars
      => [TheAllocation!AllocationNext]_(TheAllocation!allocationVars)
    BY StepAllocates
<1> QED
    BY <1>1, <1>2, SpecIInv, PTL DEF Spec, ImplementsAllocation, TheAllocation!AllocationSpec
=============================================================================
