----------------------------- MODULE MCDpcQueue -----------------------------
(***************************************************************************)
(* DpcQueue for TLC, with the source's processors and targets.             *)
(***************************************************************************)
EXTENDS DpcQueue

MCTargets == <<1, 2, 3, 1, 2, 3>>
=============================================================================
