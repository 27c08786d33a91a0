----------------------- MODULE MCInstanceLifecycle -----------------------
(***************************************************************************)
(* Small instances of InstanceLifecycle for TLC.                           *)
(***************************************************************************)
EXTENDS InstanceLifecycle, TLC

(* Requests, instances and subjects are interchangeable. *)
Symmetry == Permutations(Request) \cup Permutations(Vm) \cup Permutations(Subject)
=============================================================================
