------------------------------ MODULE Admission ------------------------------
(***************************************************************************)
(* What the codes of the tables promise, without clocks, locks and         *)
(* cookies: a code admits one guest, once, to the table it was shown at,   *)
(* and a guest who has sat down stays at that table.                       *)
(***************************************************************************)
CONSTANTS Tables, Codes, Guests, NULL

VARIABLES
    code,   \* [Codes -> NULL or [table, guest]]: the guest it admitted, NULL at first
    seat    \* [Guests -> NULL or the table of the guest]

admissionVars == <<code, seat>>

AdmissionInit ==
    /\ code = [k \in Codes |-> NULL]
    /\ seat = [g \in Guests |-> NULL]

Show(k, t) ==
    /\ code[k] = NULL
    /\ code' = [code EXCEPT ![k] = [table |-> t, guest |-> NULL]]
    /\ UNCHANGED seat

Admit(k, g) ==
    /\ code[k] # NULL
    /\ code[k].guest = NULL
    /\ seat[g] \in {NULL, code[k].table}
    /\ code' = [code EXCEPT ![k].guest = g]
    /\ seat' = [seat EXCEPT ![g] = code[k].table]

AdmissionNext ==
    \E k \in Codes :
        \/ \E t \in Tables : Show(k, t)
        \/ \E g \in Guests : Admit(k, g)

AdmissionSpec == AdmissionInit /\ [][AdmissionNext]_admissionVars
=============================================================================
