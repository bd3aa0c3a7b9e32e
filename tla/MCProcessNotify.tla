--------------------------- MODULE MCProcessNotify ---------------------------
(***************************************************************************)
(* ProcessNotify for TLC: up to three callbacks at once.                   *)
(***************************************************************************)
EXTENDS ProcessNotify, TLC

CONSTANTS p1, p2, p3

Interchangeable == Permutations(Processes)
=============================================================================
