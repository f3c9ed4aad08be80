---------------------------- MODULE VenueLayout ----------------------------
(***************************************************************************)
(* The halls and tables of a tenant (modules/tenant_setup/venue_layout.py).*)
(*                                                                         *)
(* A hall owns the table numbers from its base on, and the base is a       *)
(* multiple of TABLES_PER_HALL: a number is written here as the pair of    *)
(* its block, base \div TABLES_PER_HALL, and its slot within the block. A  *)
(* venue_tables row is known by its number, which is unique and never      *)
(* updated.                                                                *)
(*                                                                         *)
(* update_table, disable_table and disable_hall look at unlocked rows and  *)
(* write later, whatever happened since: two steps. The other handlers     *)
(* look only at rows that are never deleted and at columns that never      *)
(* change, so that they are one step. Names and the display order of       *)
(* tables are left out, and the unique constraints on them may refuse any  *)
(* write. Table sessions come and go at any moment: submit_order does not  *)
(* look at the table, so an order needs only a guest who scanned before.   *)
(***************************************************************************)
EXTENDS Naturals, FiniteSets

CONSTANTS
    Halls,       \* identities for halls rows
    Blocks,      \* display orders of halls, and so hundreds of table numbers
    SlotCount,   \* TABLES_PER_HALL
    Requests,    \* requests of tenant admins the server can have in flight at once
    MaxOpen,     \* bound: table sessions open at once
    MaxDisabled, \* bound: tables that are disabled at once
    NULL

VARIABLES
    hall,        \* halls: NULL or the row
    table,       \* venue_tables: NULL or the row
    open,        \* the tables that have an open table session
    work         \* the requests in flight

venueVars == <<hall, table, open, work>>

-----------------------------------------------------------------------------
Slots == 0 .. SlotCount - 1
Numbers == Blocks \X Slots
Modes == {"virtual_test", "physical"}

HallRow == [order : Blocks, block : Blocks, enabled : BOOLEAN]
TableRow == [hall : Halls, mode : Modes, enabled : BOOLEAN]

ASSUME VenueAssumption ==
    /\ Blocks \subseteq Nat \ {0}
    /\ SlotCount \in Nat \ {0}
    /\ {MaxOpen, MaxDisabled} \subseteq Nat
    /\ NULL \notin Halls \cup Numbers \cup Modes \cup BOOLEAN
    /\ NULL \notin HallRow \cup TableRow

NoWork == [pc |-> "idle", hall |-> NULL, number |-> NULL, row |-> NULL]

WorkRow == [pc : {"idle", "disable_hall", "write_table", "disable_table"},
            hall : Halls \cup {NULL},
            number : Numbers \cup {NULL},
            row : TableRow \cup {NULL}]

\* is_system_boundary_slot: the first and the last number of a block.
Boundary(n) == n[2] \in {0, SlotCount - 1}

\* validate_table_mode, which the check constraint boundary_slots_virtual repeats.
ModeAllowed(n, mode) == mode = "physical" => ~ Boundary(n)

\* table_number_in_hall_range, for the base of hall h.
InRange(n, h) == n[1] = hall[h].block

Tables == {n \in Numbers : table[n] # NULL}
TablesIn(h) == {n \in Tables : table[n].hall = h}
Disabled == {n \in Tables : ~ table[n].enabled}

\* A display order and a block are used once.
Taken(o) == \E g \in Halls : hall[g] # NULL /\ o \in {hall[g].order, hall[g].block}

-----------------------------------------------------------------------------
Init ==
    /\ hall = [h \in Halls |-> NULL]
    /\ table = [n \in Numbers |-> NULL]
    /\ open = {}
    /\ work = [r \in Requests |-> NoWork]

\* Mutant: range(1, TABLES_PER_HALL) leaves the first slot out.
CreateHallWithoutFirstSlot(h, o) ==
    /\ hall[h] = NULL
    /\ ~ Taken(o)
    /\ hall' = [hall EXCEPT ![h] = [order |-> o, block |-> o, enabled |-> TRUE]]
    /\ table' = [n \in Numbers |->
                    IF n[1] = o /\ n[2] # 0
                    THEN [hall |-> h, mode |-> "virtual_test", enabled |-> TRUE]
                    ELSE table[n]]
    /\ UNCHANGED <<open, work>>

(***************************************************************************)
(* create_hall: the hall and all its tables in one transaction. The        *)
(* display order must be free as an order, and as a block that a hall      *)
(* since reordered may still hold; otherwise the answer is duplicate_hall. *)
(***************************************************************************)
CreateHall(h, o) ==
    /\ hall[h] = NULL
    /\ ~ Taken(o)
    /\ hall' = [hall EXCEPT ![h] = [order |-> o, block |-> o, enabled |-> TRUE]]
    /\ table' = [n \in Numbers |->
                    IF n[1] = o
                    THEN [hall |-> h, mode |-> "virtual_test", enabled |-> TRUE]
                    ELSE table[n]]
    /\ UNCHANGED <<open, work>>

\* Mutant: a hall that is reordered is renumbered with it.
UpdateHallRenumbering(h, o) ==
    /\ hall[h] # NULL
    /\ \A g \in Halls \ {h} : hall[g] # NULL => hall[g].order # o
    /\ hall' = [hall EXCEPT ![h].order = o, ![h].block = o]
    /\ UNCHANGED <<table, open, work>>

\* update_hall: the display order changes, the block and enabled stay.
UpdateHall(h, o) ==
    /\ hall[h] # NULL
    /\ \A g \in Halls \ {h} : hall[g] # NULL => hall[g].order # o
    /\ hall' = [hall EXCEPT ![h].order = o]
    /\ UNCHANGED <<table, open, work>>

Continue(r, row) == work' = [work EXCEPT ![r] = row]

\* disable_hall, its reads: an open session at one of its tables refuses it.
BeginDisableHall(r, h) ==
    /\ work[r].pc = "idle"
    /\ hall[h] # NULL
    /\ open \cap TablesIn(h) = {}
    /\ Continue(r, [NoWork EXCEPT !.pc = "disable_hall", !.hall = h])
    /\ UNCHANGED <<hall, table, open>>

DisableHall(r) ==
    /\ work[r].pc = "disable_hall"
    /\ hall' = [hall EXCEPT ![work[r].hall].enabled = FALSE]
    /\ Continue(r, NoWork)
    /\ UNCHANGED <<table, open>>

-----------------------------------------------------------------------------
(***************************************************************************)
(* create_table, for the i-th place of hall h, within its range: the row   *)
(* is inserted if its number is free, else the answer is duplicate_table.  *)
(***************************************************************************)
CreateTable(h, i, mode) ==
    LET n == <<hall[h].block, i - 1>> IN
    /\ hall[h] # NULL
    /\ i - 1 \in Slots
    /\ ModeAllowed(n, mode)
    /\ table' = IF n \in Tables THEN table
                ELSE [table EXCEPT ![n] = [hall |-> h, mode |-> mode, enabled |-> TRUE]]
    /\ UNCHANGED <<hall, open, work>>

(***************************************************************************)
(* update_table, its reads: the row to write is the row that was read with *)
(* the given fields replaced; the hall must be one whose range holds the   *)
(* number, the mode one that its slot allows. No session is looked for.    *)
(***************************************************************************)
BeginUpdateTable(r, n, h, mode, enabled) ==
    LET old == table[n]
        new == [hall |-> IF h = NULL THEN old.hall ELSE h,
                mode |-> IF mode = NULL THEN old.mode ELSE mode,
                enabled |-> IF enabled = NULL THEN old.enabled ELSE enabled]
    IN
    /\ work[r].pc = "idle"
    /\ n \in Tables
    /\ hall[new.hall] # NULL
    /\ InRange(n, new.hall)
    /\ ModeAllowed(n, new.mode)
    /\ Continue(r, [NoWork EXCEPT !.pc = "write_table", !.number = n, !.row = new])
    /\ UNCHANGED <<hall, table, open>>

\* The bound on disabled tables, for a step that writes n.
WithinDisabled(n) == Cardinality(Disabled \ {n}) < MaxDisabled

\* update_table, its write: every column, also those that were not given.
WriteTable(r) ==
    LET n == work[r].number IN
    /\ work[r].pc = "write_table"
    /\ work[r].row.enabled \/ WithinDisabled(n)
    /\ table' = [table EXCEPT ![n] = work[r].row]
    /\ Continue(r, NoWork)
    /\ UNCHANGED <<hall, open>>

\* disable_table, its reads: an open session at the table refuses it.
BeginDisableTable(r, n) ==
    /\ work[r].pc = "idle"
    /\ n \in Tables \ open
    /\ Continue(r, [NoWork EXCEPT !.pc = "disable_table", !.number = n])
    /\ UNCHANGED <<hall, table, open>>

DisableTable(r) ==
    LET n == work[r].number IN
    /\ work[r].pc = "disable_table"
    /\ WithinDisabled(n)
    /\ table' = [table EXCEPT ![n].enabled = FALSE]
    /\ Continue(r, NoWork)
    /\ UNCHANGED <<hall, open>>

\* A request fails, loses against a unique constraint or is cut off.
Fail(r) ==
    /\ work[r].pc # "idle"
    /\ Continue(r, NoWork)
    /\ UNCHANGED <<hall, table, open>>

-----------------------------------------------------------------------------
\* The first order of a party opens the session of its table, submit_order.
Seat(n) ==
    /\ n \in Tables \ open
    /\ Cardinality(open) < MaxOpen
    /\ open' = open \cup {n}
    /\ UNCHANGED <<hall, table, work>>

\* The cashier closes it, close_session.
Leave(n) ==
    /\ n \in open
    /\ open' = open \ {n}
    /\ UNCHANGED <<hall, table, work>>

HallStep ==
    \E h \in Halls :
        \/ \E o \in Blocks : CreateHall(h, o) \/ UpdateHall(h, o)
        \/ \E i \in 1 .. SlotCount + 1, mode \in Modes : CreateTable(h, i, mode)

RequestStep(r) ==
    \/ \E h \in Halls : BeginDisableHall(r, h)
    \/ DisableHall(r)
    \/ \E n \in Numbers, h \in Halls \cup {NULL}, mode \in Modes \cup {NULL},
          enabled \in BOOLEAN \cup {NULL} : BeginUpdateTable(r, n, h, mode, enabled)
    \/ WriteTable(r)
    \/ \E n \in Numbers : BeginDisableTable(r, n)
    \/ DisableTable(r)
    \/ Fail(r)

Next ==
    \/ HallStep
    \/ \E r \in Requests : RequestStep(r)
    \/ \E n \in Numbers : Seat(n) \/ Leave(n)

Spec == Init /\ [][Next]_venueVars

-----------------------------------------------------------------------------
(***************************************************************************)
(* Properties                                                              *)
(***************************************************************************)

\* Every variable holds rows of its table, every request a known statement.
TypeOK ==
    /\ hall \in [Halls -> HallRow \cup {NULL}]
    /\ table \in [Numbers -> TableRow \cup {NULL}]
    /\ open \subseteq Tables
    /\ work \in [Requests -> WorkRow]

(***************************************************************************)
(* However halls are created, reordered and retired while tables are moved *)
(* and promoted by requests that know only an old row: every hall has its  *)
(* block to itself and exactly the tables of that block, so that a table   *)
(* number names one hall, and a boundary slot never becomes physical.      *)
(***************************************************************************)
HallsAreWhole ==
    /\ \A n \in Tables : /\ hall[table[n].hall] # NULL
                         /\ InRange(n, table[n].hall)
                         /\ ModeAllowed(n, table[n].mode)
    /\ \A h \in Halls, n \in Numbers : hall[h] # NULL /\ InRange(n, h) => n \in Tables
    /\ \A g, h \in Halls :
          hall[g] # NULL /\ hall[h] # NULL /\ hall[g].block = hall[h].block => g = h

\* What a request in flight will write fits the layout: the rows it names stay,
\* and what it checked of them does not change.
RequestsFit ==
    \A r \in Requests :
        /\ work[r].pc = "disable_hall" => work[r].hall \in Halls /\ hall[work[r].hall] # NULL
        /\ work[r].pc \in {"write_table", "disable_table"} => work[r].number \in Tables
        /\ work[r].pc = "write_table" =>
              /\ work[r].row \in TableRow
              /\ hall[work[r].row.hall] # NULL
              /\ InRange(work[r].number, work[r].row.hall)
              /\ ModeAllowed(work[r].number, work[r].row.mode)

\* The life of a hall, and the hall of a table number.
LifeOf(h) == IF hall[h] = NULL THEN "none"
             ELSE IF hall[h].enabled THEN "enabled" ELSE "disabled"

OwnerOf(n) == IF table[n] = NULL THEN NULL ELSE table[n].hall

(***************************************************************************)
(* The layout gives out table numbers as Allocation describes it: create   *)
(* and update of halls and tables in any order, with requests that write   *)
(* what they read before, never split a block and never pass a number on,  *)
(* and no update brings a disabled hall back.                              *)
(***************************************************************************)
TheAllocation == INSTANCE Allocation WITH
    life <- [h \in Halls |-> LifeOf(h)],
    owner <- [n \in Numbers |-> OwnerOf(n)]

ImplementsAllocation == TheAllocation!AllocationSpec
=============================================================================
