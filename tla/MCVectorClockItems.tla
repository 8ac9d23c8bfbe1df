------------------------- MODULE MCVectorClockItems -------------------------
(***************************************************************************)
(* Instances of VectorClockItems for TLC.                                  *)
(***************************************************************************)
EXTENDS VectorClockItems

FourUids == 1..4
=============================================================================
