------------------------------- MODULE Service -------------------------------
(***************************************************************************)
(* What fulfillment promises of the items of an order, without requests,   *)
(* locks and keys: each item is prepared and brought to its table, stage   *)
(* after stage, and never goes back or leaves its last stage.              *)
(***************************************************************************)
CONSTANTS Items, Tables, TableOf

VARIABLE stage  \* how far each item has come

Stages == {"pending", "preparing", "ready", "cannot_prepare", "picked_up", "delivered"}

ServiceInit == stage = [i \in Items |-> "pending"]

\* The stages that may follow a stage.
After(now) ==
    CASE now = "pending" -> {"preparing", "cannot_prepare"}
      [] now = "preparing" -> {"ready", "cannot_prepare"}
      [] now = "ready" -> {"picked_up", "delivered"}
      [] now = "picked_up" -> {"delivered"}
      [] OTHER -> {}

\* One item goes one stage on.
Advance(i) ==
    \E next \in After(stage[i]) : stage' = [stage EXCEPT ![i] = next]

\* Items of one table are delivered together.
DeliverTogether(t, some) ==
    /\ \A i \in some : TableOf[i] = t /\ "delivered" \in After(stage[i])
    /\ stage' = [i \in Items |-> IF i \in some THEN "delivered" ELSE stage[i]]

ServiceNext ==
    \/ \E i \in Items : Advance(i)
    \/ \E t \in Tables, some \in (SUBSET Items) \ {{}} : DeliverTogether(t, some)

ServiceSpec == ServiceInit /\ [][ServiceNext]_stage
=============================================================================
