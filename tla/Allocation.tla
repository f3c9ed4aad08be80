----------------------------- MODULE Allocation -----------------------------
(***************************************************************************)
(* What the venue layout promises about table numbers: they are given out  *)
(* in blocks, a hall takes one whole block when it opens and keeps it, no  *)
(* table number ever passes to another hall, and a hall that was retired   *)
(* does not come back. VenueLayout.tla is shown to implement this module.  *)
(***************************************************************************)
CONSTANTS
    Halls,
    Blocks,
    Slots,     \* the places of a block
    NULL

VARIABLES
    life,      \* [Halls -> {"none", "enabled", "disabled"}]
    owner      \* [Blocks \X Slots -> NULL or the hall of the table number]

allocationVars == <<life, owner>>

AllocationInit ==
    /\ life = [h \in Halls |-> "none"]
    /\ owner = [n \in Blocks \X Slots |-> NULL]

Claim(h, b) ==
    /\ life[h] = "none"
    /\ \A i \in Slots : owner[<<b, i>>] = NULL
    /\ life' = [life EXCEPT ![h] = "enabled"]
    /\ owner' = [n \in Blocks \X Slots |-> IF n[1] = b THEN h ELSE owner[n]]

Retire(h) ==
    /\ life[h] = "enabled"
    /\ life' = [life EXCEPT ![h] = "disabled"]
    /\ UNCHANGED owner

AllocationNext == \E h \in Halls : Retire(h) \/ \E b \in Blocks : Claim(h, b)

AllocationSpec == AllocationInit /\ [][AllocationNext]_allocationVars
=============================================================================
