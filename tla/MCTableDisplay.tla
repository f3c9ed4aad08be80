--------------------------- MODULE MCTableDisplay ---------------------------
(***************************************************************************)
(* A display whose millis() starts again from 0 after 28 ticks.            *)
(***************************************************************************)
EXTENDS TableDisplay
=============================================================================
