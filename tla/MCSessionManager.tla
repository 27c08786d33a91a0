------------------------- MODULE MCSessionManager -------------------------
(***************************************************************************)
(* Small instances of SessionManager for TLC.                              *)
(***************************************************************************)
EXTENDS SessionManager, TLC

(* Requests are interchangeable, and so are instances. *)
Symmetry == Permutations(Request) \cup Permutations(Instance)
=============================================================================
