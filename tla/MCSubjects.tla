----------------------------- MODULE MCSubjects -----------------------------
(***************************************************************************)
(* Small instances of Subjects for TLC.                                    *)
(***************************************************************************)
EXTENDS Subjects, TLC
=============================================================================
