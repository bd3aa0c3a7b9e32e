--------------------------- MODULE KmdfDriver_proofs ---------------------------
(***************************************************************************)
(* Proofs about the framework drivers, for any devices and any requests:   *)
(* every safety property that the run on KmdfDriver expects to pass.       *)
(***************************************************************************)
EXTENDS KmdfDriver, TLAPS

-----------------------------------------------------------------------------
(* The inductive invariant, in named parts.                                *)

(* Where DriverEntry is tells which keys are open, whichever calls failed. *)
KeysHeld ==
  keys = CASE entryPc \in {"QueryTest2", "OpenDevice", "CloseBase"} -> {"Parameters"}
           [] entryPc = "QueryTest1" -> {"Parameters", "Device"}
           [] OTHER -> {}

(* From WdfDriverCreate on, tracing runs exactly as long as the driver     *)
(* object exists.                                                          *)
Tracing ==
  /\ entryPc = "Trace" => wpp = 0 /\ ~ driverObject
  /\ entryPc = "Create" => wpp = 1 /\ ~ driverObject
  /\ entryPc \notin {"Trace", "Create"} => wpp = IF driverObject THEN 1 ELSE 0

(* DriverEntry is over before the framework takes the driver down, and the *)
(* driver is unloaded only after its object has gone.                      *)
Loading ==
  /\ driver = "loading" <=> entryPc # "Returned"
  /\ driver = "unloaded" => ~ driverObject

(* A request is completed when its handler has returned, once, and has no  *)
(* handler before it is sent to a device.                                  *)
Answered ==
  \A r \in Requests :
    /\ completions[r] = IF handler[r] = "returned" THEN 1 ELSE 0
    /\ target[r] = NoDevice => handler[r] = "none"

IInv == TypeOK /\ KeysHeld /\ Tracing /\ Loading /\ Answered

-----------------------------------------------------------------------------
(* At first nothing is open, nothing runs and nothing is sent.             *)
LEMMA InitIInv == Init => IInv
<1> SUFFICES ASSUME Init
             PROVE  IInv
  OBVIOUS
<1>1. status \in BOOLEAN /\ failed \in BOOLEAN /\ driverObject \in BOOLEAN
  BY Zenon DEF Init
<1>2. TypeOK
  BY <1>1 DEF Init, TypeOK, DeviceStates
<1>3. KeysHeld /\ Tracing /\ Loading /\ Answered
  BY DEF Init, KeysHeld, Tracing, Loading, Answered
<1>4. QED
  BY <1>2, <1>3 DEF IInv

(* What does not change keeps its type, and the requests their account.    *)
LEMMA Untouched ==
  ASSUME IInv, UNCHANGED ioVars
  PROVE  /\ device' \in [Devices -> DeviceStates]
         /\ target' \in [Requests -> Devices \cup {NoDevice}]
         /\ handler' \in [Requests -> {"none", "running", "returned"}]
         /\ stopSeen' \subseteq Requests
         /\ completions' \in [Requests -> Nat]
         /\ Answered'
  BY DEF IInv, TypeOK, ioVars, requestVars, Answered

(* A call of DriverEntry leaves its outcome in status, and nothing but its *)
(* outcome decides where DriverEntry goes on.                              *)
LEMMA CallOutcome ==
  ASSUME IInv, NEW from, NEW onSuccess, NEW onFailure, Call(from, onSuccess, onFailure)
  PROVE  /\ entryPc = from
         /\ status' \in BOOLEAN /\ failed' \in BOOLEAN
         /\ entryPc' = IF status' THEN onSuccess ELSE onFailure
         /\ name' = name /\ UNCHANGED ioVars
<1>1. PICK ok \in BOOLEAN :
        /\ status' = ok /\ failed' = (failed \/ ~ ok)
        /\ entryPc' = IF ok THEN onSuccess ELSE onFailure
  BY DEF Call
<1>2. failed' \in BOOLEAN
  BY <1>1, Zenon
<1>3. entryPc' = IF status' THEN onSuccess ELSE onFailure
  BY <1>1, Zenon
<1>4. QED
  BY <1>1, <1>2, <1>3 DEF Call

(* DriverEntry keeps the invariant, wherever it fails.                     *)
LEMMA EntryStep ==
  ASSUME IInv, DriverEntry
  PROVE  IInv'
<1> USE DEF IInv, TypeOK, KeysHeld, Tracing, Loading
<1>1. CASE WppInitTracing
  BY <1>1, Untouched DEF WppInitTracing
<1>2. CASE WdfDriverCreate
  <2>1. /\ entryPc = "Create" /\ status' \in BOOLEAN /\ failed' \in BOOLEAN
        /\ entryPc' \in {"OpenParameters", "Return"}
        /\ name' = name /\ UNCHANGED ioVars
    BY <1>2, CallOutcome DEF WdfDriverCreate
  <2>2. /\ driverObject' = status' /\ wpp' = WppCleanup(status')
        /\ UNCHANGED <<keys, driver>>
    BY <1>2 DEF WdfDriverCreate
  <2>3. CASE status' = TRUE
    BY <2>1, <2>2, <2>3, Untouched DEF WppCleanup
  <2>4. CASE status' = FALSE
    BY <2>1, <2>2, <2>4, Untouched DEF WppCleanup
  <2>5. QED
    BY <2>1, <2>3, <2>4
<1>3. CASE OpenParametersKey
  <2>1. /\ entryPc = "OpenParameters" /\ status' \in BOOLEAN /\ failed' \in BOOLEAN
        /\ entryPc' = IF status' THEN "QueryTest2" ELSE "Return"
        /\ name' = name /\ UNCHANGED ioVars
    BY <1>3, CallOutcome DEF OpenParametersKey
  <2>2. /\ keys' = IF status' THEN keys \cup {"Parameters"} ELSE keys
        /\ UNCHANGED <<wpp, driver, driverObject>>
    BY <1>3 DEF OpenParametersKey
  <2>3. QED
    BY <2>1, <2>2, Untouched
<1>4. CASE QueryTest2
  <2>1. /\ entryPc = "QueryTest2" /\ status' \in BOOLEAN /\ failed' \in BOOLEAN
        /\ entryPc' = "OpenDevice"
        /\ name' = name /\ UNCHANGED ioVars
    BY <1>4, CallOutcome DEF QueryTest2
  <2>2. UNCHANGED <<keys, wpp, driver, driverObject>>
    BY <1>4 DEF QueryTest2
  <2>3. QED
    BY <2>1, <2>2, Untouched
<1>5. CASE OpenDeviceKey
  <2>1. /\ entryPc = "OpenDevice" /\ status' \in BOOLEAN /\ failed' \in BOOLEAN
        /\ entryPc' = IF status' THEN "QueryTest1" ELSE "CloseBase"
        /\ name' = name /\ UNCHANGED ioVars
    BY <1>5, CallOutcome DEF OpenDeviceKey
  <2>2. /\ keys' = IF status' THEN keys \cup {"Device"} ELSE keys
        /\ UNCHANGED <<wpp, driver, driverObject>>
    BY <1>5 DEF OpenDeviceKey
  <2>3. QED
    BY <2>1, <2>2, Untouched
<1>6. CASE QueryTest1
  <2>1. /\ entryPc = "QueryTest1" /\ status' \in BOOLEAN /\ failed' \in BOOLEAN
        /\ entryPc' = "CloseBase"
        /\ name' = name /\ UNCHANGED ioVars
    BY <1>6, CallOutcome DEF QueryTest1
  <2>2. /\ keys' = keys \ {"Device"}
        /\ UNCHANGED <<wpp, driver, driverObject>>
    BY <1>6 DEF QueryTest1, Close
  <2>3. QED
    BY <2>1, <2>2, Untouched
<1>7. CASE CloseBaseKey
  BY <1>7, Untouched DEF CloseBaseKey
<1>8. CASE ReturnStatus
  BY <1>8, Untouched DEF ReturnStatus
<1>9. CASE ReturnTestEventLog3
  BY <1>9, Untouched DEF ReturnTestEventLog3
<1>10. QED
  BY <1>1, <1>2, <1>3, <1>4, <1>5, <1>6, <1>7, <1>8, <1>9 DEF DriverEntry

(* Taking the driver down keeps it: tracing stops with the driver object.  *)
LEMMA TeardownStep ==
  ASSUME IInv, EvtDriverContextCleanup \/ Unload \/ StopDriver
  PROVE  IInv'
<1> USE DEF IInv, TypeOK, KeysHeld, Tracing, Loading, entryVars
<1>1. CASE EvtDriverContextCleanup
  <2>1. /\ driver = "cleanup" /\ driver' = driver /\ wpp' = wpp - 1
        /\ ~ driverObject' /\ driverObject' \in BOOLEAN
        /\ UNCHANGED <<entryVars, ioVars>>
    BY <1>1, Zenon DEF EvtDriverContextCleanup
  <2>2. entryPc = "Returned" /\ wpp = 1
    BY <1>1, <2>1 DEF EvtDriverContextCleanup
  <2>3. QED
    BY <2>1, <2>2, Untouched
<1>2. CASE Unload
  BY <1>2, Untouched DEF Unload
<1>3. CASE StopDriver
  BY <1>3, Untouched DEF StopDriver
<1>4. QED
  BY <1>1, <1>2, <1>3

(* So does every change of a device's state.                               *)
LEMMA DeviceStep ==
  ASSUME IInv, NEW d \in Devices,
         EvtDeviceAdd(d) \/ StopDevice(d) \/ DeviceStopped(d) \/ PowerUp(d) \/ RemoveDevice(d)
  PROVE  IInv'
<1>1. PICK from \in DeviceStates, to \in DeviceStates : SetDevice(d, from, to)
  BY Zenon DEF EvtDeviceAdd, WdfDeviceCreate, WdfDeviceCreateDeviceInterface,
     QueueInitialize, StopDevice, DeviceStopped, PowerUp, RemoveDevice, DeviceStates
<1>2. QED
  BY <1>1 DEF SetDevice, IInv, TypeOK, KeysHeld, Tracing, Loading, Answered, entryVars,
     requestVars

(* And every step of a request: it is delivered once and answered once,    *)
(* and EvtIoStop does not answer.                                          *)
LEMMA RequestStep ==
  ASSUME IInv, NEW r \in Requests,
         \/ \E d \in Devices : Deliver(r, d)
         \/ EvtIoDeviceControl(r) \/ EvtIoStop(r)
  PROVE  IInv'
<1>1. UNCHANGED <<entryVars, wpp, driver, driverObject, device>>
  BY DEF Deliver, EvtIoDeviceControl, EvtIoStop
<1>2. KeysHeld' /\ Tracing' /\ Loading'
  BY <1>1 DEF IInv, KeysHeld, Tracing, Loading, entryVars
<1> USE DEF IInv, TypeOK, Answered, entryVars
<1>3. ASSUME NEW d \in Devices, Deliver(r, d)
      PROVE  TypeOK' /\ Answered'
  <2>1. d # NoDevice
    BY ConstantsOK
  <2>2. QED
    BY <1>1, <1>3, <2>1 DEF Deliver
<1>4. CASE EvtIoDeviceControl(r)
  <2>1. /\ handler[r] = "running" /\ handler' = [handler EXCEPT ![r] = "returned"]
        /\ completions' = [completions EXCEPT ![r] = @ + 1]
        /\ UNCHANGED <<target, stopSeen>>
    BY <1>4 DEF EvtIoDeviceControl, Answer, WdfRequestComplete
  <2>2. TypeOK'
    BY <1>1, <2>1
  <2>3. Answered'
    BY <2>1
  <2>4. QED
    BY <1>2, <2>2, <2>3
<1>5. CASE EvtIoStop(r)
  <2>1. /\ stopSeen' = stopSeen \cup {r}
        /\ UNCHANGED <<target, handler, completions>>
    BY <1>5 DEF EvtIoStop, MustStop, StopAnswer, Leave
  <2>2. QED
    BY <1>1, <1>2, <2>1
<1>6. QED
  BY <1>2, <1>3, <1>4, <1>5

(* IInv is inductive.                                                      *)
LEMMA NextIInv == IInv /\ [Next]_vars => IInv'
<1> SUFFICES ASSUME IInv, [Next]_vars
             PROVE  IInv'
  OBVIOUS
<1>1. CASE UNCHANGED vars
  BY <1>1, Untouched DEF vars, entryVars, IInv, TypeOK, KeysHeld, Tracing, Loading
<1>2. CASE Next
  BY <1>2, EntryStep, TeardownStep, DeviceStep, RequestStep DEF Next, Framework, PnP
<1>3. QED
  BY <1>1, <1>2

(* IInv holds throughout, fairness or not.                                 *)
LEMMA Invariance == Spec => []IInv
  BY InitIInv, NextIInv, PTL DEF Spec

-----------------------------------------------------------------------------
(* Every variable keeps its type.                                          *)
THEOREM TypeCorrect == Spec => []TypeOK
<1>1. IInv => TypeOK
  BY DEF IInv
<1>2. QED
  BY <1>1, Invariance, PTL

(* Tracing is started once and stopped once, on every way the driver can   *)
(* come to its end.                                                        *)
THEOREM TracingStopped == Spec => []TracingBalanced
<1>1. IInv => TracingBalanced
  BY DEF IInv, TypeOK, Tracing, Loading, TracingBalanced
<1>2. QED
  BY <1>1, Invariance, PTL

(* DriverEntry closes the keys it has opened, whichever call fails, and    *)
(* the key below before the one above it.                                  *)
THEOREM KeysAreClosed == Spec => []KeysClosed
<1>1. IInv => KeysClosed
  BY DEF IInv, TypeOK, KeysHeld, KeysClosed
<1>2. QED
  BY <1>1, Invariance, PTL

(* No request is completed twice, whatever the devices do meanwhile.       *)
THEOREM CompletedAtMostOnce == Spec => []CompletedOnce
<1>1. IInv => CompletedOnce
  BY DEF IInv, Answered, CompletedOnce
<1>2. QED
  BY <1>1, Invariance, PTL

-----------------------------------------------------------------------------
(* What remains true of the outcome, where EntryReportsOutcome fails.      *)

(* What status and the history of failures are at each call.               *)
Outcome ==
  /\ entryPc \in {"Trace", "Create"} => ~ failed
  /\ entryPc \in {"OpenParameters", "QueryTest2", "QueryTest1"} => status
  /\ entryPc \notin {"Trace", "Create"} /\ ~ status => failed \/ name = "EventLogTest"

(* Devices come only after loading, and for EventLogTest never.            *)
NotLoaded ==
  /\ driver = "loading" => \A d \in Devices : device[d] = "absent"
  /\ name = "EventLogTest" =>
       /\ entryPc \in {"Trace", "Create", "Return", "Returned"}
       /\ driver # "running" /\ \A d \in Devices : device[d] = "absent"

(* WdfReadRegistryTest does not report a failure that there was not.       *)
FailureIsReal ==
  entryPc = "Returned" /\ name = "WdfReadRegistryTest" /\ ~ status => failed

(* A failure, once there is one, is lost in one place at most.             *)
LostOnlyAtOpenDevice == [][(failed /\ ~ status /\ status') => entryPc = "OpenDevice"]_vars

(* EventLogTest never stays loaded, and no device of it is ever created.   *)
EventLogTestNeverRuns ==
  name = "EventLogTest" => driver # "running" /\ \A d \in Devices : device[d] = "absent"

(* Both are there from the start.                                          *)
LEMMA InitOutcome == Init => Outcome /\ NotLoaded
<1> SUFFICES ASSUME Init
             PROVE  Outcome /\ NotLoaded
  OBVIOUS
<1>1. ~ failed
  BY Zenon DEF Init
<1>2. QED
  BY <1>1 DEF Init, Outcome, NotLoaded

(* A call keeps Outcome if it leads to where a success is wanted only by   *)
(* success, and never back to the beginning.                               *)
LEMMA CallKeepsOutcome ==
  ASSUME IInv, Outcome, NEW from, NEW onSuccess, NEW onFailure,
         Call(from, onSuccess, onFailure),
         {onSuccess, onFailure} \cap {"Trace", "Create"} = {},
         onFailure \notin {"OpenParameters", "QueryTest2", "QueryTest1"}
  PROVE  Outcome'
<1>1. PICK ok \in BOOLEAN :
        /\ status' = ok /\ failed' = (failed \/ ~ ok)
        /\ entryPc' = IF ok THEN onSuccess ELSE onFailure
  BY DEF Call
<1>2. CASE ok = TRUE
  <2>1. status' /\ entryPc' = onSuccess
    BY <1>1, <1>2
  <2>2. QED
    BY <2>1 DEF Outcome
<1>3. CASE ok = FALSE
  <2>1. failed' /\ entryPc' = onFailure
    BY <1>1, <1>3
  <2>2. QED
    BY <2>1 DEF Outcome
<1>4. QED
  BY <1>1, <1>2, <1>3

(* Both are inductive, given IInv.                                         *)
LEMMA NextOutcome ==
  ASSUME IInv, Outcome, NotLoaded, [Next]_vars
  PROVE  Outcome' /\ NotLoaded'
<1>1. CASE UNCHANGED <<entryVars, driver, device>>
  BY <1>1 DEF Outcome, NotLoaded, entryVars
<1>2. CASE DriverEntry
  <2>1. entryPc # "Returned" /\ driver = "loading" /\ device' = device
    BY <1>2 DEF DriverEntry, IInv, Loading, Call, ioVars, WppInitTracing, WdfDriverCreate,
       OpenParametersKey, QueryTest2, OpenDeviceKey, QueryTest1, CloseBaseKey,
       ReturnStatus, ReturnTestEventLog3
  <2>2. CASE WdfDriverCreate \/ OpenParametersKey \/ QueryTest2 \/ OpenDeviceKey \/ QueryTest1
    <3>1. Outcome'
      BY <2>2, CallKeepsOutcome
      DEF WdfDriverCreate, OpenParametersKey, QueryTest2, OpenDeviceKey, QueryTest1
    <3>2. driver' = "loading" /\ name' = name
      BY <2>1, <2>2
      DEF WdfDriverCreate, OpenParametersKey, QueryTest2, OpenDeviceKey, QueryTest1, Call
    <3>3. name = "EventLogTest" => entryPc = "Create" /\ entryPc' = "Return"
      BY <2>2
      DEF WdfDriverCreate, OpenParametersKey, QueryTest2, OpenDeviceKey, QueryTest1, Call,
          NotLoaded
    <3>4. QED
      BY <2>1, <3>1, <3>2, <3>3 DEF NotLoaded
  <2>3. CASE WppInitTracing \/ CloseBaseKey
    BY <2>1, <2>3 DEF WppInitTracing, CloseBaseKey, Outcome, NotLoaded
  <2>4. CASE ReturnStatus
    BY <2>1, <2>4 DEF ReturnStatus, Outcome, NotLoaded
  <2>5. CASE ReturnTestEventLog3
    BY <2>1, <2>5 DEF ReturnTestEventLog3, Outcome, NotLoaded
  <2>6. QED
    BY <1>2, <2>2, <2>3, <2>4, <2>5 DEF DriverEntry
<1>3. CASE EvtDriverContextCleanup \/ Unload \/ StopDriver
  <2>1. /\ driver # "loading" /\ driver' \in {"cleanup", "unloaded"}
        /\ UNCHANGED <<entryVars, device>>
    BY <1>3 DEF EvtDriverContextCleanup, Unload, StopDriver, ioVars
  <2>2. QED
    BY <2>1 DEF Outcome, NotLoaded, entryVars
<1>4. ASSUME NEW d \in Devices,
             EvtDeviceAdd(d) \/ StopDevice(d) \/ DeviceStopped(d) \/ PowerUp(d) \/ RemoveDevice(d)
      PROVE  Outcome' /\ NotLoaded'
  <2>1. UNCHANGED <<entryVars, driver>>
    BY <1>4 DEF EvtDeviceAdd, WdfDeviceCreate, WdfDeviceCreateDeviceInterface,
       QueueInitialize, StopDevice, DeviceStopped, PowerUp, RemoveDevice, SetDevice
  <2>2. device[d] # "absent" \/ driver = "running"
    BY <1>4 DEF EvtDeviceAdd, WdfDeviceCreate, WdfDeviceCreateDeviceInterface,
       QueueInitialize, StopDevice, DeviceStopped, PowerUp, RemoveDevice, SetDevice
  <2>3. driver # "loading" /\ name # "EventLogTest"
    BY <2>2 DEF NotLoaded
  <2>4. QED
    BY <2>1, <2>3 DEF Outcome, NotLoaded, entryVars
<1>5. ASSUME NEW r \in Requests,
             \/ \E d \in Devices : Deliver(r, d)
             \/ EvtIoDeviceControl(r) \/ EvtIoStop(r)
      PROVE  UNCHANGED <<entryVars, driver, device>>
  BY <1>5 DEF Deliver, EvtIoDeviceControl, EvtIoStop
<1>6. CASE UNCHANGED vars
  BY <1>1, <1>6 DEF vars, ioVars
<1>7. QED
  BY <1>1, <1>2, <1>3, <1>4, <1>5, <1>6 DEF Next, Framework, PnP

(* They hold throughout.                                                   *)
LEMMA OutcomeInvariance == Spec => [](IInv /\ Outcome /\ NotLoaded)
  BY InitIInv, InitOutcome, NextIInv, NextOutcome, PTL DEF Spec

(* When WdfReadRegistryTest's DriverEntry reports a failure, a call of its *)
(* has failed.                                                             *)
THEOREM ReportsRealFailures == Spec => []FailureIsReal
<1>1. Outcome => FailureIsReal
  BY DEF Outcome, FailureIsReal
<1>2. QED
  BY <1>1, OutcomeInvariance, PTL

(* The other way, the only status lost is the one that opening the Device  *)
(* key overwrites: that of the query of TEST2 just before it.              *)
THEOREM OneStatusLost == Spec => LostOnlyAtOpenDevice
<1>1. IInv /\ Outcome /\ [Next]_vars =>
        [(failed /\ ~ status /\ status') => entryPc = "OpenDevice"]_vars
  <2> SUFFICES ASSUME IInv, Outcome, Next, failed, ~ status, status'
               PROVE  entryPc = "OpenDevice"
    BY Zenon
  <2>1. entryPc \notin {"Create", "OpenParameters", "QueryTest2", "QueryTest1"}
    BY DEF Outcome
  <2>2. ASSUME UNCHANGED entryVars
        PROVE  FALSE
    BY <2>2 DEF entryVars
  <2>3. CASE DriverEntry
    BY <2>1, <2>3
    DEF DriverEntry, Call, WppInitTracing, WdfDriverCreate, OpenParametersKey, QueryTest2,
        OpenDeviceKey, QueryTest1, CloseBaseKey, ReturnStatus, ReturnTestEventLog3
  <2>4. CASE Framework \/ PnP \/ \E r \in Requests : EvtIoDeviceControl(r) \/ EvtIoStop(r)
    BY <2>2, <2>4
    DEF Framework, PnP, EvtDriverContextCleanup, Unload, StopDriver, EvtDeviceAdd,
        WdfDeviceCreate, WdfDeviceCreateDeviceInterface, QueueInitialize, StopDevice,
        DeviceStopped, PowerUp, RemoveDevice, SetDevice, Deliver, EvtIoDeviceControl, EvtIoStop
  <2>5. QED
    BY <2>3, <2>4 DEF Next
<1>2. QED
  BY <1>1, OutcomeInvariance, PTL DEF Spec, LostOnlyAtOpenDevice

(* EventLogTest's DriverEntry returns its last test's failure: the driver  *)
(* never runs, and PnP never gives it a device.                            *)
THEOREM NeverStaysLoaded == Spec => []EventLogTestNeverRuns
<1>1. NotLoaded => EventLogTestNeverRuns
  BY DEF NotLoaded, EventLogTestNeverRuns
<1>2. QED
  BY <1>1, OutcomeInvariance, PTL
=============================================================================
