--------------------------- MODULE TimerFleet_proofs ---------------------------
(***************************************************************************)
(* What the contract TimerFleet is worth: whoever implements it, as        *)
(* MultiTimer does, has the properties proved of it here.                  *)
(***************************************************************************)
EXTENDS TimerFleet, TLAPS

-----------------------------------------------------------------------------
(* The timers are started in the order of their numbers, and the fleet is  *)
(* done only when each has been started and has stopped.                   *)
FleetInv ==
  /\ phase \in {"working", "stopping", "done"}
  /\ fleet \in [Timers -> {"idle", "live", "stopped"}]
  /\ \A t, u \in Timers : u < t /\ fleet[t] # "idle" => fleet[u] # "idle"
  /\ phase = "done" => \A t \in Timers : fleet[t] = "stopped"

(* A stopped timer is not started again, and once the fleet is done no log *)
(* changes: what the owner hands out is final.                             *)
StoppedForGood ==
  [][/\ \A t \in Timers : fleet[t] = "stopped" => fleet'[t] = "stopped"
     /\ (phase = "done") => UNCHANGED <<phase, fleet, log>>]_vars

(* The first, idle fleet.                                                  *)
LEMMA InitFleetInv == Init => FleetInv
  BY DEF Init, FleetInv

(* Each action of the contract keeps the order.                            *)
LEMMA NextFleetInv == FleetInv /\ [Next]_vars => FleetInv'
<1> SUFFICES ASSUME FleetInv, [Next]_vars
             PROVE  FleetInv'
  OBVIOUS
<1> USE DEF FleetInv
<1>1. ASSUME NEW t \in Timers, Start(t)
      PROVE  FleetInv'
  BY <1>1 DEF Start, Timers
<1>2. ASSUME NEW t \in Timers, Record(t)
      PROVE  FleetInv'
  BY <1>2 DEF Record
<1>3. ASSUME NEW t \in Timers, Stop(t)
      PROVE  FleetInv'
  BY <1>3 DEF Stop, Timers
<1>4. CASE Close \/ Finish \/ UNCHANGED vars
  BY <1>4 DEF Close, Finish, vars
<1>5. QED
  BY <1>1, <1>2, <1>3, <1>4 DEF Next

(* The contract holds its order throughout.                                *)
THEOREM FleetInOrder == Spec => []FleetInv
  BY InitFleetInv, NextFleetInv, PTL DEF Spec

(* What the contract calls done is done.                                   *)
THEOREM FleetIsFinal == Spec => StoppedForGood
<1>1. FleetInv /\ [Next]_vars =>
        [/\ \A t \in Timers : fleet[t] = "stopped" => fleet'[t] = "stopped"
         /\ (phase = "done") => UNCHANGED <<phase, fleet, log>>]_vars
  <2> SUFFICES ASSUME FleetInv, Next
               PROVE  /\ \A t \in Timers : fleet[t] = "stopped" => fleet'[t] = "stopped"
                      /\ (phase = "done") => UNCHANGED <<phase, fleet, log>>
    BY Zenon
  <2>1. ASSUME NEW t \in Timers, Start(t) \/ Record(t) \/ Stop(t)
        PROVE  /\ phase # "done"
               /\ \A u \in Timers : fleet[u] = "stopped" => fleet'[u] = "stopped"
    BY <2>1 DEF FleetInv, Start, Record, Stop
  <2>2. CASE Close \/ Finish
    BY <2>2 DEF Close, Finish
  <2>3. QED
    BY <2>1, <2>2 DEF Next
<1>2. QED
  BY <1>1, FleetInOrder, PTL DEF Spec, StoppedForGood
=============================================================================
