---------------------------- MODULE MCMultiTimer ----------------------------
(***************************************************************************)
(* MultiTimer for TLC: two or three timers whose log takes a few lines of  *)
(* two different lengths, so that a timer can end by its stop flag, by a   *)
(* long line that does not fit, or by a full log.                          *)
(***************************************************************************)
EXTENDS MultiTimer
=============================================================================
