------------------------------ MODULE Seating ------------------------------
(***************************************************************************)
(* What ordering promises about the tables of a venue, free of carts and   *)
(* requests: a table is seated at most once at a time, always by an order, *)
(* a seating that was closed stays closed, and an order stays what and     *)
(* where it was when it was placed. That orders go to open seatings only   *)
(* is not promised here: the code does not keep it.                        *)
(* Ordering.tla is shown to implement this module.                         *)
(***************************************************************************)
CONSTANTS
    Tables,
    Sessions,
    Orders,
    Lines,       \* what an order may consist of
    NULL

VARIABLES
    seat,        \* [Sessions -> NULL or [table, status]]
    placed       \* [Orders -> NULL or [session, lines]]

seatingVars == <<seat, placed>>

SeatingInit ==
    /\ seat = [s \in Sessions |-> NULL]
    /\ placed = [o \in Orders |-> NULL]

Place(o, s, lines) ==
    /\ placed[o] = NULL
    /\ placed' = [placed EXCEPT ![o] = [session |-> s, lines |-> lines]]

\* The first order of a party seats it, if nobody sits at the table.
Seat(s) ==
    /\ seat[s] = NULL
    /\ \E t \in Tables :
          /\ \A u \in Sessions : seat[u] # [table |-> t, status |-> "open"]
          /\ seat' = [seat EXCEPT ![s] = [table |-> t, status |-> "open"]]

\* Later ones go to a seating there is.
Seated(s) ==
    /\ seat[s] # NULL
    /\ UNCHANGED seat

Leave(s) ==
    /\ seat[s] # NULL
    /\ seat[s].status = "open"
    /\ seat' = [seat EXCEPT ![s].status = "closed"]
    /\ UNCHANGED placed

SeatingNext ==
    \/ \E o \in Orders, s \in Sessions, lines \in Lines :
          Place(o, s, lines) /\ (Seat(s) \/ Seated(s))
    \/ \E s \in Sessions : Leave(s)

SeatingSpec == SeatingInit /\ [][SeatingNext]_seatingVars
=============================================================================
