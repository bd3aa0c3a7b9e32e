----------------------------- MODULE KmdfDriver -----------------------------
(***************************************************************************)
(* WdfReadRegistryTest and EventLogTest, made from one template: a         *)
(* framework driver from DriverEntry to unload.  DriverEntry starts        *)
(* tracing, creates the driver object and reads two values below the       *)
(* Parameters key (EventLogTest: calls its test); EvtDeviceAdd creates a   *)
(* device with an interface and a parallel default queue;                  *)
(* EvtIoDeviceControl completes each request at once; EvtIoStop does       *)
(* nothing; the driver object's cleanup stops tracing.  The framework      *)
(* calls all of them.                                                      *)
(***************************************************************************)
EXTENDS Integers, FiniteSets

CONSTANTS
  Drivers,    \* which of the two drivers are looked at
  Devices,    \* device instances PnP may announce
  Requests    \* device control requests

NoDevice == "none"

ASSUME ConstantsOK ==
  /\ Drivers \subseteq {"WdfReadRegistryTest", "EventLogTest"}
  /\ IsFiniteSet(Devices) /\ IsFiniteSet(Requests)
  /\ NoDevice \notin Devices

VARIABLES
  name,          \* the driver
  entryPc,       \* where DriverEntry is
  status,        \* its variable status: did the last call succeed?
  failed,        \* history: has any of its calls failed?
  keys,          \* open registry keys
  wpp,           \* WPP_INIT_TRACING less WPP_CLEANUP
  driver,        \* the driver: "loading", "running", "cleanup" or "unloaded"
  driverObject,  \* does the WDFDRIVER exist?
  device,        \* per device instance
  target,        \* per request: the device it was sent to
  handler,       \* per request: EvtIoDeviceControl, "none", "running", "returned"
  stopSeen,      \* the requests EvtIoStop was called for
  completions    \* per request: calls of WdfRequestComplete

entryVars == <<name, entryPc, status, failed, keys>>
requestVars == <<target, handler, stopSeen, completions>>
ioVars    == <<device, requestVars>>
vars      == <<entryVars, wpp, driver, driverObject, ioVars>>

DeviceStates == {"absent", "created", "interfaced", "failed", "started", "stopping", "stopped", "removed"}

TypeOK ==
  /\ name \in Drivers
  /\ entryPc \in {"Trace", "Create", "OpenParameters", "QueryTest2", "OpenDevice",
                  "QueryTest1", "CloseBase", "Return", "Returned"}
  /\ status \in BOOLEAN /\ failed \in BOOLEAN
  /\ keys \subseteq {"Parameters", "Device"}
  /\ wpp \in {0, 1}
  /\ driver \in {"loading", "running", "cleanup", "unloaded"}
  /\ driverObject \in BOOLEAN
  /\ device \in [Devices -> DeviceStates]
  /\ target \in [Requests -> Devices \cup {NoDevice}]
  /\ handler \in [Requests -> {"none", "running", "returned"}]
  /\ stopSeen \subseteq Requests
  /\ completions \in [Requests -> Nat]

Init ==
  /\ name \in Drivers
  /\ entryPc = "Trace" /\ status = FALSE /\ failed = FALSE /\ keys = {}
  /\ wpp = 0 /\ driver = "loading" /\ driverObject = FALSE
  /\ device = [d \in Devices |-> "absent"]
  /\ target = [r \in Requests |-> NoDevice]
  /\ handler = [r \in Requests |-> "none"] /\ stopSeen = {}
  /\ completions = [r \in Requests |-> 0]

-----------------------------------------------------------------------------
(* DriverEntry.                                                            *)

(* A call of DriverEntry, whose outcome goes to status.                    *)
Call(from, onSuccess, onFailure) ==
  /\ entryPc = from
  /\ \E ok \in BOOLEAN :
       /\ status' = ok
       /\ failed' = (failed \/ ~ ok)
       /\ entryPc' = IF ok THEN onSuccess ELSE onFailure
  /\ UNCHANGED <<name, ioVars>>

WppInitTracing ==
  /\ entryPc = "Trace" /\ entryPc' = "Create"
  /\ wpp' = wpp + 1
  /\ UNCHANGED <<name, status, failed, keys, driver, driverObject, ioVars>>

CleanupTwice(created) == wpp - 1                             \* Slip
NoCleanup(created)    == wpp                                 \* Slip
WppCleanup(created)   == IF created THEN wpp ELSE wpp - 1

(* Without a driver object the cleanup callback will not be called, so     *)
(* tracing is stopped here.  EventLogTest goes on to its test.             *)
WdfDriverCreate ==
  /\ Call("Create", IF name = "EventLogTest" THEN "Return" ELSE "OpenParameters",
          "Return")
  /\ driverObject' = status'
  /\ wpp' = WppCleanup(status')
  /\ UNCHANGED <<keys, driver>>

OpenParametersKey ==
  /\ Call("OpenParameters", "QueryTest2", "Return")
  /\ keys' = IF status' THEN keys \cup {"Parameters"} ELSE keys
  /\ UNCHANGED <<wpp, driver, driverObject>>

QueryTest2 ==
  /\ Call("QueryTest2", "OpenDevice", "OpenDevice")
  /\ UNCHANGED <<keys, wpp, driver, driverObject>>

OpenDeviceKey ==
  /\ Call("OpenDevice", "QueryTest1", "CloseBase")
  /\ keys' = IF status' THEN keys \cup {"Device"} ELSE keys
  /\ UNCHANGED <<wpp, driver, driverObject>>

CloseOnSuccess(ok) == IF ok THEN keys \ {"Device"} ELSE keys   \* Slip
Close(ok)          == keys \ {"Device"}

(* The query and WdfRegistryClose(subkey).                                 *)
QueryTest1 ==
  /\ Call("QueryTest1", "CloseBase", "CloseBase")
  /\ keys' = Close(status')
  /\ UNCHANGED <<wpp, driver, driverObject>>

CloseBaseKey ==
  /\ entryPc = "CloseBase" /\ entryPc' = "Return"
  /\ keys' = keys \ {"Parameters"}
  /\ UNCHANGED <<name, status, failed, wpp, driver, driverObject, ioVars>>

(* return status.  After a failure the framework deletes the driver object,*)
(* if there is one.                                                        *)
ReturnStatus ==
  /\ entryPc = "Return" /\ name = "WdfReadRegistryTest"
  /\ entryPc' = "Returned"
  /\ driver' = IF status THEN "running" ELSE "cleanup"
  /\ UNCHANGED <<name, status, failed, keys, wpp, driverObject, ioVars>>

(* return TestEventLog3(), which is STATUS_INTERRUPTED, a failure; after a *)
(* failed WdfDriverCreate, its status.                                     *)
ReturnTestEventLog3 ==
  /\ entryPc = "Return" /\ name = "EventLogTest"
  /\ entryPc' = "Returned"
  /\ status' = FALSE
  /\ driver' = "cleanup"
  /\ UNCHANGED <<name, failed, keys, wpp, driverObject, ioVars>>

(* EvtDriverContextCleanup, called by the framework while it deletes the   *)
(* driver object.                                                          *)
EvtDriverContextCleanup ==
  /\ driver = "cleanup" /\ driverObject
  /\ driverObject' = FALSE
  /\ wpp' = wpp - 1
  /\ UNCHANGED <<entryVars, driver, ioVars>>

(* The image goes away once the driver object has gone.                    *)
Unload ==
  /\ driver = "cleanup" /\ ~ driverObject
  /\ driver' = "unloaded"
  /\ UNCHANGED <<entryVars, wpp, driverObject, ioVars>>

-----------------------------------------------------------------------------
(* Devices.                                                                *)

SetDevice(d, from, to) ==
  /\ device[d] = from
  /\ device' = [device EXCEPT ![d] = to]
  /\ UNCHANGED <<entryVars, wpp, driver, driverObject, requestVars>>

(* EvtDeviceAdd calls CreateDevice, which creates the device, then its     *)
(* interface and, in QueueInitialize, its queue.  When any of them fails   *)
(* its status is returned and the framework deletes the device.            *)
WdfDeviceCreate(d) ==
  /\ driver = "running"
  /\ \E to \in {"created", "failed"} : SetDevice(d, "absent", to)

WdfDeviceCreateDeviceInterface(d) ==
  \E to \in {"interfaced", "failed"} : SetDevice(d, "created", to)

QueueInitialize(d) ==
  \E to \in {"started", "failed"} : SetDevice(d, "interfaced", to)

EvtDeviceAdd(d) ==
  \/ WdfDeviceCreate(d) \/ WdfDeviceCreateDeviceInterface(d)
  \/ QueueInitialize(d)

(* The device is to leave D0, for sleep or removal.                        *)
StopDevice(d) == SetDevice(d, "started", "stopping")

Owned(r) == target[r] # NoDevice /\ completions[r] = 0

(* "the framework waits until the specified request is complete" (191)     *)
DeviceStopped(d) ==
  /\ \A r \in Requests : Owned(r) => target[r] # d
  /\ SetDevice(d, "stopping", "stopped")

PowerUp(d) == SetDevice(d, "stopped", "started")

RemoveDevice(d) == SetDevice(d, "stopped", "removed")

(* With no device left the driver is unloaded.                             *)
StopDriver ==
  /\ driver = "running"
  /\ \A d \in Devices : device[d] \in {"failed", "removed"}
  /\ driver' = "cleanup"
  /\ UNCHANGED <<entryVars, wpp, driverObject, ioVars>>

-----------------------------------------------------------------------------
(* Requests.                                                               *)

(* A parallel queue hands out every request as it comes.                   *)
Deliver(r, d) ==
  /\ target[r] = NoDevice
  /\ device[d] = "started"
  /\ target' = [target EXCEPT ![r] = d]
  /\ handler' = [handler EXCEPT ![r] = "running"]
  /\ UNCHANGED <<entryVars, wpp, driver, driverObject, device, stopSeen, completions>>

WdfRequestComplete(r) == completions' = [completions EXCEPT ![r] = @ + 1]
Leave(r)              == UNCHANGED completions
Answer(r)             == WdfRequestComplete(r)   \* EvtIoDeviceControl's

EvtIoDeviceControl(r) ==
  /\ handler[r] = "running"
  /\ handler' = [handler EXCEPT ![r] = "returned"]
  /\ Answer(r)
  /\ UNCHANGED <<entryVars, wpp, driver, driverObject, device, target, stopSeen>>

(* The framework tells the driver of each request it still owns.           *)
MustStop(r) ==
  /\ Owned(r) /\ device[target[r]] = "stopping"
  /\ r \notin stopSeen
  /\ stopSeen' = stopSeen \cup {r}

(* Nothing; "it calls WdfRequestComplete" (168) without "exclusive access  *)
(* to the request" (172) would be the slip here.                           *)
StopAnswer(r) == Leave(r)

EvtIoStop(r) ==
  /\ MustStop(r)
  /\ StopAnswer(r)
  /\ UNCHANGED <<entryVars, wpp, driver, driverObject, device, target, handler>>

-----------------------------------------------------------------------------
DriverEntry ==
  \/ WppInitTracing \/ WdfDriverCreate \/ OpenParametersKey \/ QueryTest2
  \/ OpenDeviceKey \/ QueryTest1 \/ CloseBaseKey \/ ReturnStatus
  \/ ReturnTestEventLog3

Framework ==
  \/ EvtDriverContextCleanup \/ Unload \/ StopDriver
  \/ \E d \in Devices : DeviceStopped(d)

PnP ==
  \E d \in Devices :
    \/ EvtDeviceAdd(d) \/ StopDevice(d) \/ PowerUp(d) \/ RemoveDevice(d)
    \/ \E r \in Requests : Deliver(r, d)

Next ==
  \/ DriverEntry \/ Framework \/ PnP
  \/ \E r \in Requests : EvtIoDeviceControl(r) \/ EvtIoStop(r)

Spec == Init /\ [][Next]_vars

(* The framework's and the driver's own threads run; PnP need not do       *)
(* anything.                                                               *)
FairSpec ==
  /\ Spec
  /\ WF_vars(DriverEntry) /\ WF_vars(EvtDriverContextCleanup) /\ WF_vars(Unload)
  /\ \A d \in Devices : WF_vars(DeviceStopped(d))
  /\ \A r \in Requests : WF_vars(EvtIoDeviceControl(r))

-----------------------------------------------------------------------------
(* Tracing is started once and, on every way the driver can go away, with  *)
(* or without a driver object, stopped exactly once.                       *)
TracingBalanced ==
  /\ wpp \in {0, 1}
  /\ driver = "unloaded" => wpp = 0
  /\ driverObject => wpp = 1

(* DriverEntry leaves no registry key open, whichever call fails.          *)
KeysClosed ==
  /\ entryPc \in {"Return", "Returned"} => keys = {}
  /\ "Device" \in keys => "Parameters" \in keys

(* A request is completed at most once, although EvtIoStop is called for   *)
(* requests that EvtIoDeviceControl is working on.                         *)
CompletedOnce == \A r \in Requests : completions[r] <= 1

(* A device that is to leave D0 does: doing nothing in EvtIoStop is safe   *)
(* because the handler of every request it owns completes it.              *)
StopEnds ==
  \A d \in Devices : device[d] = "stopping" ~> device[d] # "stopping"

(* "STATUS_SUCCESS if successful, STATUS_UNSUCCESSFUL otherwise" (the      *)
(* header of both DriverEntry functions).                                  *)
EntryReportsOutcome == entryPc = "Returned" => (status <=> ~ failed)
=============================================================================
