--------------------------- MODULE MCOneShotDrivers ---------------------------
(***************************************************************************)
(* OneShotDrivers for TLC: a buffer of six rows, enough for prints and     *)
(* transfers to overlap in every order; three time stamps, so that polling *)
(* goes on with the buffer full; up to four records of 0, 1 or 2 groups.   *)
(***************************************************************************)
EXTENDS OneShotDrivers
=============================================================================
