---------------------------- MODULE MCHiResTimer ----------------------------
(***************************************************************************)
(* HiResTimer for TLC.  The ratios are the source's (test 2 sleeps ten     *)
(* times as long as test 1 and its timer is four times as slow); LOG_SIZE  *)
(* is the smallest capacity that satisfies Budget, which TLC evaluates.    *)
(***************************************************************************)
EXTENDS HiResTimer

ASSUME BudgetMet == Budget
=============================================================================
