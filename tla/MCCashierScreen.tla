-------------------------- MODULE MCCashierScreen --------------------------
(***************************************************************************)
(* Two tables, and two calls out at once: that is enough for a payment to  *)
(* be pressed again while one is out, for a detail to fail beside it, and  *)
(* for the details of both tables to pass each other.                      *)
(***************************************************************************)
EXTENDS CashierScreen
=============================================================================
