---------------------------- MODULE MCTemplates ----------------------------
(***************************************************************************)
(* Small instances of Templates for TLC.                                   *)
(***************************************************************************)
EXTENDS Templates, TLC

Symmetry == Permutations(Request) \cup Permutations(Vm)
=============================================================================
