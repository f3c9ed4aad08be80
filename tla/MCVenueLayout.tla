--------------------------- MODULE MCVenueLayout ---------------------------
(***************************************************************************)
(* VenueLayout with halls of three tables: two boundary slots and one that *)
(* may become physical.                                                    *)
(***************************************************************************)
EXTENDS VenueLayout, TLC

\* Identities are only ever compared, and every property treats the members
\* of each set alike.
Interchangeable == Permutations(Halls) \cup Permutations(Requests)
=============================================================================
