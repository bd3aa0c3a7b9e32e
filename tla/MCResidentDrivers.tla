-------------------------- MODULE MCResidentDrivers --------------------------
(***************************************************************************)
(* ResidentDrivers for TLC: three process notifications at once; three     *)
(* events of ports, one of them while the callback is being registered;    *)
(* three processors.                                                       *)
(***************************************************************************)
EXTENDS ResidentDrivers

CONSTANTS p1, p2, p3, e1, e2, e3
=============================================================================
