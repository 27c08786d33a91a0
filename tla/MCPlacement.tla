---------------------------- MODULE MCPlacement ----------------------------
(***************************************************************************)
(* Small instances of Placement for TLC.                                   *)
(***************************************************************************)
EXTENDS Placement
=============================================================================
