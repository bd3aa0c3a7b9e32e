---------------------------- MODULE MCKmdfDriver ----------------------------
(***************************************************************************)
(* KmdfDriver for TLC: two devices share two interchangeable requests.     *)
(***************************************************************************)
EXTENDS KmdfDriver, TLC

CONSTANTS d1, d2, r1, r2

Interchangeable == Permutations(Requests) \cup Permutations(Devices)
=============================================================================
