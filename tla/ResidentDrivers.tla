--------------------------- MODULE ResidentDrivers ---------------------------
(***************************************************************************)
(* The drivers that stay loaded and have a DriverUnload that must leave    *)
(* nothing behind.  One of them is loaded.                                 *)
(***************************************************************************)
EXTENDS Integers, FiniteSets

CONSTANTS Processes, Ports, Existing, CpuCount

ASSUME ConstantsOK ==
  /\ IsFiniteSet(Processes) /\ IsFiniteSet(Ports) /\ Existing \subseteq Ports
  /\ CpuCount \in Nat \ {0}

VARIABLES
  loaded,   \* the driver
  driver, callback, succeeded, name, held,           \* ProcessNotify
  pnp, hNotifyEvent, notification, opened, refs,     \* PnpNotify
  stage, cpu, pool, initialized, resolution          \* TimerCost

Process == INSTANCE ProcessNotify
Pnp     == INSTANCE PnpNotify
Timer   == INSTANCE TimerCost

processVars == <<driver, callback, succeeded, name, held>>
pnpVars     == <<pnp, hNotifyEvent, notification, opened, refs>>
timerVars   == <<stage, cpu, pool, initialized, resolution>>
vars == <<loaded, processVars, pnpVars, timerVars>>

TypeOK ==
  /\ loaded \in {"Process", "Pnp", "Timer"}
  /\ Process!TypeOK /\ Pnp!TypeOK /\ Timer!TypeOK

Init ==
  /\ loaded \in {"Process", "Pnp", "Timer"}
  /\ Process!Init /\ Pnp!Init /\ Timer!Init

ProcessNext == loaded = "Process" /\ Process!Next /\ UNCHANGED <<loaded, pnpVars, timerVars>>
PnpNext     == loaded = "Pnp" /\ Pnp!Next /\ UNCHANGED <<loaded, processVars, timerVars>>
TimerNext   == loaded = "Timer" /\ Timer!Next /\ UNCHANGED <<loaded, processVars, pnpVars>>

Next == ProcessNext \/ PnpNext \/ TimerNext

(* Callbacks under way and a waiting unload go on.  Nobody has to create a *)
(* process or plug in a port, nor to stop the driver.                      *)
Spec ==
  /\ Init /\ [][Next]_vars
  /\ WF_processVars(loaded = "Process" /\ Process!Unregistered)
  /\ \A p \in Processes : WF_processVars(loaded = "Process" /\ Process!ProcessNotifyCB(p))
  /\ WF_pnpVars(loaded = "Pnp" /\ Pnp!ImageGoes)
  /\ \A e \in Ports : WF_pnpVars(loaded = "Pnp" /\ Pnp!NotifyCallback(e))

-----------------------------------------------------------------------------
(* What each module's comment states: whatever failed, a callback or a     *)
(* driver that is over has given back what it took, and nothing of it runs *)
(* outside its image.                                                      *)
NothingLeaked          == Process!NothingLeaked
NoCallbackOutsideImage == Process!NoCallbackOutsideImage
ReferencesBalanced     == Pnp!ReferencesBalanced
UnloadUndoesLoad       == Timer!UnloadUndoesLoad

(* WDMDigitalSignCheckTest's DriverUnload returns, also when processes     *)
(* keep being created.                                                     *)
UnloadReturns == driver = "Unregister" ~> driver = "unloaded"

(* Both drivers with a callback keep the promises of CallbackRegistration, *)
(* its liveness included: nothing begins once the driver is leaving, every *)
(* callback ends, and then the driver is gone.                             *)
ProcessImplementsRegistration == Process!Registration!Spec
PnpImplementsRegistration     == Pnp!Registration!Spec
=============================================================================
