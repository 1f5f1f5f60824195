----------------------------- MODULE MCVideoRing -----------------------------
(***************************************************************************)
(* Instances of VideoRing for TLC: the disciplines crashes are checked     *)
(* under.                                                                  *)
(***************************************************************************)
EXTENDS VideoRing

BothDisciplines == Disciplines
=============================================================================
