----------------------------- MODULE TimerFleet -----------------------------
(***************************************************************************)
(* What MultiTimerTest promises its caller, with no word of DPCs, queues   *)
(* or counters.  A fleet of periodic timers is started one by one in index *)
(* order; each live timer keeps a log; then the owner asks for a stop,     *)
(* waits for the fleet to be quiet and hands out the logs.  From "done" on *)
(* nothing is live and no log may change: the memory behind the timers is  *)
(* about to go away.                                                       *)
(***************************************************************************)
EXTENDS Naturals

CONSTANT TIMER_COUNT

Timers == 0 .. TIMER_COUNT - 1

VARIABLES
  phase,    \* "working", "stopping" or "done"
  fleet,    \* each timer: "idle", "live" or "stopped", in this order
  log       \* bytes each timer has logged

vars == <<phase, fleet, log>>

Init ==
  /\ phase = "working"
  /\ fleet = [t \in Timers |-> "idle"]
  /\ log = [t \in Timers |-> 0]

Start(t) ==
  /\ phase = "working"
  /\ fleet[t] = "idle"
  /\ \A u \in Timers : u < t => fleet[u] # "idle"
  /\ fleet' = [fleet EXCEPT ![t] = "live"]
  /\ UNCHANGED <<phase, log>>

Record(t) ==
  /\ phase # "done"
  /\ fleet[t] = "live"
  /\ log'[t] > log[t]
  /\ log' = [log EXCEPT ![t] = log'[t]]
  /\ UNCHANGED <<phase, fleet>>

Stop(t) ==
  /\ fleet[t] = "live"
  /\ fleet' = [fleet EXCEPT ![t] = "stopped"]
  /\ UNCHANGED <<phase, log>>

Close ==
  /\ phase = "working"
  /\ phase' = "stopping"
  /\ UNCHANGED <<fleet, log>>

Finish ==
  /\ phase = "stopping"
  /\ \A t \in Timers : fleet[t] = "stopped"
  /\ phase' = "done"
  /\ UNCHANGED <<fleet, log>>

Next ==
  \/ \E t \in Timers : Start(t) \/ Record(t) \/ Stop(t)
  \/ Close
  \/ Finish

Spec == Init /\ [][Next]_vars
=============================================================================
