------------------------------ MODULE PnpNotify ------------------------------
(***************************************************************************)
(* PnpEventNotificationTest/DriverEntry.c: a callback for the arrival and  *)
(* the removal of storage ports.  It is called for the ports that exist    *)
(* already while DriverEntry is still registering it, and later for each   *)
(* event, until DriverUnload takes it back.                                *)
(***************************************************************************)
EXTENDS Integers

CONSTANTS
  Ports,     \* events of a port's interface; Existing: reported at registration
  Existing

VARIABLES
  pnp,            \* DriverEntry and DriverUnload
  hNotifyEvent,   \* is the handle there?
  notification,   \* per event: where NotifyCallback is
  opened,         \* per event: NT_SUCCESS(status) of IoGetDeviceObjectPointer
  refs            \* per event: references held on file objects

vars == <<pnp, hNotifyEvent, notification, opened, refs>>

TypeOK ==
  /\ pnp \in {"Register", "Registering", "registered", "Leaving", "unloaded", "failed"}
  /\ hNotifyEvent \in BOOLEAN
  /\ notification \in [Ports -> {"none", "Open", "Dereference", "Return", "done"}]
  /\ opened \in [Ports -> BOOLEAN]
  /\ refs \in [Ports -> Int]

Init ==
  /\ pnp = "Register" /\ hNotifyEvent = FALSE
  /\ notification = [e \in Ports |-> "none"]
  /\ opened = [e \in Ports |-> FALSE] /\ refs = [e \in Ports |-> 0]

Goto(from, to) == pnp = from /\ pnp' = to /\ UNCHANGED <<notification, opened, refs>>
Busy(e) == notification[e] \notin {"none", "done"}

-----------------------------------------------------------------------------
(* IoRegisterPlugPlayNotification fails, or registers, reports what exists *)
(* and returns with the handle.                                            *)
Register ==
  /\ Goto("Register", "Registering") \/ Goto("Register", "failed")
  /\ UNCHANGED hNotifyEvent

Registered ==
  /\ \A e \in Existing : notification[e] = "done"
  /\ Goto("Registering", "registered")
  /\ hNotifyEvent' = TRUE

(* Slip: no IoUnregisterPlugPlayNotification.  The reference the PnP       *)
(* manager has on the driver object is not given back.                     *)
UnloadOnly == Goto("registered", "unloaded") /\ UNCHANGED hNotifyEvent

(* DriverUnload unregisters if there is a handle.                          *)
DriverUnload ==
  /\ Goto("registered", IF hNotifyEvent THEN "Leaving" ELSE "unloaded")
  /\ hNotifyEvent' = FALSE

(* The PnP manager's reference on the driver object goes when the last     *)
(* callback under way is over, and with it the image.                      *)
ImageGoes ==
  /\ \A e \in Ports : ~ Busy(e)
  /\ Goto("Leaving", "unloaded")
  /\ UNCHANGED hNotifyEvent

-----------------------------------------------------------------------------
Notification(e, from, to) ==
  /\ notification[e] = from
  /\ notification' = [notification EXCEPT ![e] = to]
  /\ UNCHANGED <<pnp, hNotifyEvent>>

(* A port may also arrive while the existing ones are being reported.      *)
Notify(e) ==
  /\ pnp \in {"Registering", "registered"}
  /\ Notification(e, "none", "Open")
  /\ UNCHANGED <<opened, refs>>

(* The device may be there or gone again; success references its file.     *)
IoGetDeviceObjectPointer(e) ==
  /\ Notification(e, "Open", "Dereference")
  /\ \E ok \in BOOLEAN :
       /\ opened' = [opened EXCEPT ![e] = ok]
       /\ refs' = IF ok THEN [refs EXCEPT ![e] = @ + 1] ELSE refs

AnyStatus(e) == TRUE        \* Slip: the status is not looked at
Success(e)   == opened[e]

ObDereferenceObject(e) ==
  /\ Notification(e, "Dereference", "Return")
  /\ refs' = IF Success(e) THEN [refs EXCEPT ![e] = @ - 1] ELSE refs
  /\ UNCHANGED opened

Return(e) == Notification(e, "Return", "done") /\ UNCHANGED <<opened, refs>>

NotifyCallback(e) == IoGetDeviceObjectPointer(e) \/ ObDereferenceObject(e) \/ Return(e)

Next ==
  \/ Register \/ Registered \/ DriverUnload \/ ImageGoes
  \/ \E e \in Ports : Notify(e) \/ NotifyCallback(e)

Spec == Init /\ [][Next]_vars

-----------------------------------------------------------------------------
(* Every execution of the callback leaves the file objects as it found     *)
(* them, whether or not the device could be opened: none is referenced for *)
(* ever, which would keep its device, nor given back once too often.       *)
ReferencesBalanced == \A e \in Ports : ~ Busy(e) => refs[e] = 0

(* The driver as CallbackRegistration sees it: open as soon as existing    *)
(* ports are reported, before DriverEntry has the handle.                  *)
Phase ==
  CASE pnp = "Register" -> "loading"
    [] pnp \in {"Registering", "registered"} -> "open"
    [] pnp = "Leaving" -> "leaving"
    [] OTHER -> "gone"

RunningCallbacks == {e \in Ports : Busy(e)}

Registration == INSTANCE CallbackRegistration WITH
  Events <- Ports, phase <- Phase, running <- RunningCallbacks
=============================================================================
