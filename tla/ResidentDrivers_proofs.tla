------------------------ MODULE ResidentDrivers_proofs ------------------------
(***************************************************************************)
(* Proofs about the drivers that stay loaded, for any set of processes and *)
(* of ports and any number of processors: every safety property that the   *)
(* run on ResidentDrivers checks, and the safety part of both refinements  *)
(* of CallbackRegistration.  The drivers share nothing, so each has an     *)
(* invariant of its own, which its own steps keep and the others' do not   *)
(* touch.                                                                  *)
(***************************************************************************)
EXTENDS ResidentDrivers, TLAPS

-----------------------------------------------------------------------------
(* WDMDigitalSignCheckTest: the inductive invariant, in named parts.       *)

(* Where a callback is tells what it holds, whichever of its calls failed. *)
Holds(p) ==
  /\ held[p]["buffer"] = IF callback[p] \in {"none", "Allocate", "done"} THEN 0 ELSE 1
  /\ held[p]["handle"] = IF callback[p] \in {"Query", "Close"} THEN 1 ELSE 0
  /\ held[p]["signer_policy"] = 1 => callback[p] = "FreeSigner"
  /\ held[p]["time_auth_policy"] = 1 => callback[p] \in {"FreeSigner", "FreeTimeAuth"}

Balanced == \A p \in Processes : Holds(p)

(* No callback runs before the registration or after it is taken back.     *)
Unregistering ==
  driver \notin {"registered", "Unregister"} => \A p \in Processes : ~ Process!Running(p)

ProcessInv == Process!TypeOK /\ Balanced /\ Unregistering

-----------------------------------------------------------------------------
(* At first no process is being created and nothing is held.               *)
LEMMA InitProcessInv == Process!Init => ProcessInv
  BY DEF Process!Init, ProcessInv, Process!TypeOK, Balanced, Holds, Unregistering,
     Process!Running, Process!Things

(* DriverEntry and DriverUnload leave the callbacks alone, and the routine *)
(* is taken back only when none is under way.                              *)
LEMMA DriverStep ==
  ASSUME ProcessInv,
         \/ Process!LoadUndocumentedApi \/ Process!Register
         \/ Process!DriverUnload \/ Process!Unregistered
  PROVE  ProcessInv'
<1> USE DEF ProcessInv, Process!TypeOK, Balanced, Holds, Unregistering, Process!Running
<1>1. CASE Process!LoadUndocumentedApi
  BY <1>1 DEF Process!LoadUndocumentedApi
<1>2. CASE Process!Register
  BY <1>2 DEF Process!Register
<1>3. CASE Process!DriverUnload
  BY <1>3 DEF Process!DriverUnload, Process!TakeBack
<1>4. CASE Process!Unregistered
  BY <1>4 DEF Process!Unregistered
<1>5. QED
  BY <1>1, <1>2, <1>3, <1>4

(* A callback begins only while the routine is registered.                 *)
LEMMA CreatedStep ==
  ASSUME ProcessInv, NEW p \in Processes, Process!ProcessCreated(p)
  PROVE  ProcessInv'
  BY DEF Process!ProcessCreated, ProcessInv, Process!TypeOK, Balanced, Holds,
     Unregistering, Process!Running

(* Every step of the callback keeps its accounts, and no other's change.   *)
LEMMA CallbackStep ==
  ASSUME ProcessInv, NEW p \in Processes, Process!ProcessNotifyCB(p)
  PROVE  ProcessInv'
<1> USE DEF ProcessInv, Process!TypeOK, Balanced, Holds, Unregistering, Process!Running,
Process!Goto, Process!Things
<1>1. CASE Process!AllocateBuffer(p)
  <2>1. /\ driver' = driver /\ succeeded' = succeeded /\ name' = [name EXCEPT ![p] = FALSE]
        /\ callback[p] = "Allocate"
    BY <1>1 DEF Process!AllocateBuffer
  <2>2. CASE callback' = [callback EXCEPT ![p] = "Open"] /\ Process!Acquire(p, "buffer")
    BY <2>1, <2>2 DEF Process!Acquire
  <2>3. CASE callback' = [callback EXCEPT ![p] = "done"] /\ held' = held
    BY <2>1, <2>3
  <2>4. QED
    BY <1>1, <2>2, <2>3 DEF Process!AllocateBuffer
<1>2. CASE Process!OpenProcess(p)
  <2>1. driver' = driver /\ name' = name /\ callback[p] = "Open"
    BY <1>2 DEF Process!OpenProcess
  <2>2. succeeded' \in [Processes -> BOOLEAN]
    BY <1>2 DEF Process!OpenProcess
  <2>3. CASE callback' = [callback EXCEPT ![p] = "Query"] /\ Process!Acquire(p, "handle")
    BY <2>1, <2>2, <2>3 DEF Process!Acquire
  <2>4. CASE callback' = [callback EXCEPT ![p] = Process!NotOpened] /\ held' = held
    BY <2>1, <2>2, <2>4 DEF Process!NotOpened
  <2>5. QED
    BY <1>2, <2>3, <2>4 DEF Process!OpenProcess
<1>3. CASE Process!QueryName(p)
  BY <1>3 DEF Process!QueryName, Process!AfterQuery
<1>4. CASE Process!CloseProcess(p)
  BY <1>4 DEF Process!CloseProcess, Process!Release, Process!AfterClose
<1>5. CASE Process!CheckStatus(p)
  BY <1>5 DEF Process!CheckStatus
<1>6. CASE Process!ValidateFileObject(p)
  <2>1. PICK signer \in {0, 1}, time_auth \in {0, 1} :
          held' = [held EXCEPT ![p]["signer_policy"] = signer,
                                ![p]["time_auth_policy"] = time_auth]
    BY <1>6 DEF Process!ValidateFileObject, Process!AcquirePolicies
  <2>2. /\ held' \in [Processes -> [Process!Things -> {0, 1}]]
        /\ \A q \in Processes : q # p => held'[q] = held[q]
        /\ held'[p]["buffer"] = held[p]["buffer"]
        /\ held'[p]["handle"] = held[p]["handle"]
    BY <2>1
  <2>3. QED
    BY <1>6, <2>2 DEF Process!ValidateFileObject
<1>7. CASE Process!FreeSignerPolicy(p)
  BY <1>7 DEF Process!FreeSignerPolicy, Process!CiFree
<1>8. CASE Process!FreeTimeAuthPolicy(p)
  BY <1>8 DEF Process!FreeTimeAuthPolicy, Process!CiFree
<1>9. CASE Process!FreeBuffer(p)
  BY <1>9 DEF Process!FreeBuffer, Process!Release
<1>10. QED
  BY <1>1, <1>2, <1>3, <1>4, <1>5, <1>6, <1>7, <1>8, <1>9 DEF Process!ProcessNotifyCB

(* ProcessInv is inductive, as the other drivers do not touch its state.   *)
LEMMA NextProcessInv == ProcessInv /\ [Process!Next]_(Process!vars) => ProcessInv'
<1> SUFFICES ASSUME ProcessInv, [Process!Next]_(Process!vars)
             PROVE  ProcessInv'
  OBVIOUS
<1>1. CASE UNCHANGED Process!vars
  BY <1>1 DEF Process!vars, ProcessInv, Process!TypeOK, Balanced, Holds, Unregistering,
     Process!Running
<1>2. CASE Process!Next
  BY <1>2, DriverStep, CreatedStep, CallbackStep DEF Process!Next
<1>3. QED
  BY <1>1, <1>2

(* Steps of DriverEntry and DriverUnload are the phases' changes.          *)
LEMMA DriverImplements ==
  ASSUME ProcessInv,
         \/ Process!LoadUndocumentedApi \/ Process!Register
         \/ Process!DriverUnload \/ Process!Unregistered
  PROVE  [Process!Registration!Next]_(Process!Registration!vars)
<1>1. Process!RunningCallbacks' = Process!RunningCallbacks
  BY DEF Process!LoadUndocumentedApi, Process!Register, Process!DriverUnload,
     Process!Unregistered, Process!RunningCallbacks, Process!Running
<1>2. CASE Process!LoadUndocumentedApi
  BY <1>1, <1>2 DEF Process!LoadUndocumentedApi, ProcessInv, Unregistering,
     Process!RunningCallbacks, Process!Phase,
     Process!Registration!Next, Process!Registration!vars, Process!Registration!Fail,
     Process!Registration!Goto
<1>3. CASE Process!Register
  BY <1>1, <1>3 DEF Process!Register, Process!Phase, Process!Registration!Next,
     Process!Registration!Register,
     Process!Registration!Fail, Process!Registration!Goto
<1>4. CASE Process!DriverUnload
  BY <1>1, <1>4 DEF Process!DriverUnload, Process!TakeBack, Process!Phase,
     Process!Registration!Next,
     Process!Registration!Unregister, Process!Registration!Goto
<1>5. CASE Process!Unregistered
  <2>1. Process!RunningCallbacks = {}
    BY <1>5 DEF Process!Unregistered, Process!RunningCallbacks
  <2>2. QED
    BY <1>1, <1>5, <2>1 DEF Process!Unregistered, Process!Phase, Process!Registration!Next,
       Process!Registration!Leave, Process!Registration!Goto
<1>6. QED
  BY <1>2, <1>3, <1>4, <1>5

(* A process being created begins an event.                                *)
LEMMA CreatedImplements ==
  ASSUME ProcessInv, NEW p \in Processes, Process!ProcessCreated(p)
  PROVE  Process!Registration!Next
<1>1. Process!Phase = "open" /\ Process!Phase' = Process!Phase
  BY DEF Process!ProcessCreated, Process!Phase
<1>2. /\ p \notin Process!RunningCallbacks
      /\ Process!RunningCallbacks' = Process!RunningCallbacks \cup {p}
  BY DEF Process!ProcessCreated, ProcessInv, Process!TypeOK, Process!RunningCallbacks,
     Process!Running
<1>3. Process!Registration!Begin(p)
  BY <1>1, <1>2 DEF Process!Registration!Begin
<1>4. QED
  BY <1>3 DEF Process!Registration!Next

(* A step of the callback ends it or leaves it running.                    *)
LEMMA CallbackImplements ==
  ASSUME ProcessInv, NEW p \in Processes, Process!ProcessNotifyCB(p)
  PROVE  [Process!Registration!Next]_(Process!Registration!vars)
<1>1. Process!Phase' = Process!Phase
  BY DEF Process!ProcessNotifyCB, Process!AllocateBuffer, Process!OpenProcess,
     Process!QueryName, Process!CloseProcess, Process!CheckStatus,
     Process!ValidateFileObject, Process!FreeSignerPolicy, Process!FreeTimeAuthPolicy,
     Process!FreeBuffer, Process!Phase
<1>2. /\ callback[p] \notin {"none", "done"}
      /\ \E to \in {"Open", "Query", "Close", "Check", "Validate", "FreeSigner",
                    "FreeTimeAuth", "FreeBuffer", "done"} :
           callback' = [callback EXCEPT ![p] = to]
  BY DEF Process!ProcessNotifyCB, Process!AllocateBuffer, Process!OpenProcess,
     Process!QueryName, Process!CloseProcess, Process!CheckStatus,
     Process!ValidateFileObject, Process!FreeSignerPolicy, Process!FreeTimeAuthPolicy,
     Process!FreeBuffer, Process!Goto,
     Process!NotOpened, Process!AfterQuery, Process!AfterClose
<1>3. CASE callback'[p] = "done"
  <2>1. /\ p \in Process!RunningCallbacks
        /\ Process!RunningCallbacks' = Process!RunningCallbacks \ {p}
    BY <1>2, <1>3 DEF ProcessInv, Process!TypeOK, Process!RunningCallbacks, Process!Running
  <2>2. Process!Registration!End(p)
    BY <1>1, <2>1 DEF Process!Registration!End
  <2>3. QED
    BY <2>2 DEF Process!Registration!Next
<1>4. CASE callback'[p] # "done"
  <2>1. Process!RunningCallbacks' = Process!RunningCallbacks
    BY <1>2, <1>4 DEF ProcessInv, Process!TypeOK, Process!RunningCallbacks, Process!Running
  <2>2. QED
    BY <1>1, <2>1 DEF Process!Registration!vars
<1>5. QED
  BY <1>3, <1>4

(* Every step is a step of CallbackRegistration or none.                   *)
LEMMA ProcessStepImplements ==
  ProcessInv /\ [Process!Next]_(Process!vars) =>
    [Process!Registration!Next]_(Process!Registration!vars)
<1> SUFFICES ASSUME ProcessInv, [Process!Next]_(Process!vars)
             PROVE  [Process!Registration!Next]_(Process!Registration!vars)
  OBVIOUS
<1>1. CASE UNCHANGED Process!vars
  BY <1>1 DEF Process!vars, Process!Registration!vars, Process!Phase,
     Process!RunningCallbacks, Process!Running
<1>2. CASE Process!Next
  BY <1>2, DriverImplements, CreatedImplements, CallbackImplements DEF Process!Next
<1>3. QED
  BY <1>1, <1>2

-----------------------------------------------------------------------------
(* PnpEventNotificationTest: the inductive invariant, in named parts.      *)

(* A reference is held between a successful open and its dereference.      *)
References == \A e \in Ports :
  refs[e] = IF notification[e] = "Dereference" /\ opened[e] THEN 1 ELSE 0

(* Callbacks run from the registration until the image goes, and           *)
(* DriverUnload finds a handle.                                            *)
Registering ==
  /\ pnp \notin {"Registering", "registered", "Leaving"} => \A e \in Ports : ~ Pnp!Busy(e)
  /\ pnp = "registered" => hNotifyEvent

PnpInv == Pnp!TypeOK /\ References /\ Registering

(* At first nothing is registered and nothing is referenced.               *)
LEMMA InitPnpInv == Pnp!Init => PnpInv
<1> SUFFICES ASSUME Pnp!Init
             PROVE  PnpInv
  OBVIOUS
<1>1. Pnp!TypeOK
  <2>1. opened \in [Ports -> BOOLEAN]
    BY Zenon DEF Pnp!Init
  <2>2. refs \in [Ports -> Int]
    BY DEF Pnp!Init
  <2>3. notification \in [Ports -> {"none", "Open", "Dereference", "Return", "done"}]
    BY DEF Pnp!Init
  <2>4. QED
    BY <2>1, <2>2, <2>3 DEF Pnp!Init, Pnp!TypeOK
<1>2. \A e \in Ports : refs[e] = 0 /\ notification[e] = "none"
  BY DEF Pnp!Init
<1>3. References /\ Registering
  BY <1>2 DEF Pnp!Init, References, Registering, Pnp!Busy
<1>4. QED
  BY <1>1, <1>3 DEF PnpInv

(* Registering and unregistering leave the callbacks alone.                *)
LEMMA PnpDriverStep ==
  ASSUME PnpInv, Pnp!Register \/ Pnp!Registered \/ Pnp!DriverUnload \/ Pnp!ImageGoes
  PROVE  PnpInv'
<1> USE DEF PnpInv, Pnp!TypeOK, References, Registering, Pnp!Busy, Pnp!Goto
<1>1. CASE Pnp!Register
  BY <1>1 DEF Pnp!Register
<1>2. CASE Pnp!Registered
  BY <1>2 DEF Pnp!Registered
<1>3. CASE Pnp!DriverUnload
  BY <1>3 DEF Pnp!DriverUnload
<1>4. CASE Pnp!ImageGoes
  BY <1>4 DEF Pnp!ImageGoes
<1>5. QED
  BY <1>1, <1>2, <1>3, <1>4

(* A notification begins while the driver is registered, and each of its   *)
(* steps keeps its own account.                                            *)
LEMMA NotificationStep ==
  ASSUME PnpInv, NEW e \in Ports, Pnp!Notify(e) \/ Pnp!NotifyCallback(e)
  PROVE  PnpInv'
<1> USE DEF PnpInv, Pnp!TypeOK, References, Registering, Pnp!Busy, Pnp!Notification
<1>1. CASE Pnp!Notify(e)
  BY <1>1 DEF Pnp!Notify
<1>2. CASE Pnp!IoGetDeviceObjectPointer(e)
  <2>1. PICK ok \in BOOLEAN :
          /\ opened' = [opened EXCEPT ![e] = ok]
          /\ refs' = IF ok THEN [refs EXCEPT ![e] = @ + 1] ELSE refs
    BY <1>2 DEF Pnp!IoGetDeviceObjectPointer
  <2>2. QED
    BY <1>2, <2>1 DEF Pnp!IoGetDeviceObjectPointer
<1>3. CASE Pnp!ObDereferenceObject(e)
  BY <1>3 DEF Pnp!ObDereferenceObject, Pnp!Success
<1>4. CASE Pnp!Return(e)
  BY <1>4 DEF Pnp!Return
<1>5. QED
  BY <1>1, <1>2, <1>3, <1>4 DEF Pnp!NotifyCallback

(* PnpInv is inductive.                                                    *)
LEMMA NextPnpInv == PnpInv /\ [Pnp!Next]_(Pnp!vars) => PnpInv'
<1> SUFFICES ASSUME PnpInv, [Pnp!Next]_(Pnp!vars)
             PROVE  PnpInv'
  OBVIOUS
<1>1. CASE UNCHANGED Pnp!vars
  BY <1>1 DEF Pnp!vars, PnpInv, Pnp!TypeOK, References, Registering, Pnp!Busy
<1>2. CASE Pnp!Next
  BY <1>2, PnpDriverStep, NotificationStep DEF Pnp!Next
<1>3. QED
  BY <1>1, <1>2

(* Steps of DriverEntry, DriverUnload and the PnP manager are the phases'  *)
(* changes.  The return of the registration, which writes the handle, is   *)
(* none.                                                                   *)
LEMMA PnpDriverImplements ==
  ASSUME PnpInv, Pnp!Register \/ Pnp!Registered \/ Pnp!DriverUnload \/ Pnp!ImageGoes
  PROVE  [Pnp!Registration!Next]_(Pnp!Registration!vars)
<1>1. Pnp!RunningCallbacks' = Pnp!RunningCallbacks
  BY DEF Pnp!Register, Pnp!Registered, Pnp!DriverUnload, Pnp!ImageGoes, Pnp!Goto,
     Pnp!RunningCallbacks, Pnp!Busy
<1>2. CASE Pnp!Register
  BY <1>1, <1>2 DEF Pnp!Register, Pnp!Goto, Pnp!Phase, Pnp!Registration!Next,
     Pnp!Registration!Register, Pnp!Registration!Fail, Pnp!Registration!Goto
<1>3. CASE Pnp!Registered
  BY <1>1, <1>3 DEF Pnp!Registered, Pnp!Goto, Pnp!Phase, Pnp!Registration!vars
<1>4. CASE Pnp!DriverUnload
  BY <1>1, <1>4 DEF Pnp!DriverUnload, Pnp!Goto, PnpInv, Registering, Pnp!Phase,
     Pnp!Registration!Next, Pnp!Registration!Unregister, Pnp!Registration!Goto
<1>5. CASE Pnp!ImageGoes
  <2>1. Pnp!RunningCallbacks = {}
    BY <1>5 DEF Pnp!ImageGoes, Pnp!RunningCallbacks
  <2>2. QED
    BY <1>1, <1>5, <2>1 DEF Pnp!ImageGoes, Pnp!Goto, Pnp!Phase, Pnp!Registration!Next,
       Pnp!Registration!Leave, Pnp!Registration!Goto
<1>6. QED
  BY <1>2, <1>3, <1>4, <1>5

(* A notification begins an event; a step of the callback ends it or       *)
(* leaves it running.                                                      *)
LEMMA NotificationImplements ==
  ASSUME PnpInv, NEW e \in Ports, Pnp!Notify(e) \/ Pnp!NotifyCallback(e)
  PROVE  [Pnp!Registration!Next]_(Pnp!Registration!vars)
<1> USE DEF PnpInv, Pnp!TypeOK, Pnp!RunningCallbacks, Pnp!Busy, Pnp!Notification
<1>1. Pnp!Phase' = Pnp!Phase
  BY DEF Pnp!Notify, Pnp!NotifyCallback, Pnp!IoGetDeviceObjectPointer,
     Pnp!ObDereferenceObject, Pnp!Return, Pnp!Phase
<1>2. CASE Pnp!Notify(e)
  <2>1. Pnp!Phase = "open"
    BY <1>2 DEF Pnp!Notify, Pnp!Phase
  <2>2. /\ e \notin Pnp!RunningCallbacks
        /\ Pnp!RunningCallbacks' = Pnp!RunningCallbacks \cup {e}
    BY <1>2 DEF Pnp!Notify
  <2>3. Pnp!Registration!Begin(e)
    BY <1>1, <2>1, <2>2 DEF Pnp!Registration!Begin
  <2>4. QED
    BY <2>3 DEF Pnp!Registration!Next
<1>3. CASE Pnp!IoGetDeviceObjectPointer(e) \/ Pnp!ObDereferenceObject(e)
  <2>1. Pnp!RunningCallbacks' = Pnp!RunningCallbacks
    BY <1>3 DEF Pnp!IoGetDeviceObjectPointer, Pnp!ObDereferenceObject
  <2>2. QED
    BY <1>1, <2>1 DEF Pnp!Registration!vars
<1>4. CASE Pnp!Return(e)
  <2>1. /\ e \in Pnp!RunningCallbacks
        /\ Pnp!RunningCallbacks' = Pnp!RunningCallbacks \ {e}
    BY <1>4 DEF Pnp!Return
  <2>2. Pnp!Registration!End(e)
    BY <1>1, <2>1 DEF Pnp!Registration!End
  <2>3. QED
    BY <2>2 DEF Pnp!Registration!Next
<1>5. QED
  BY <1>2, <1>3, <1>4 DEF Pnp!NotifyCallback

(* Every step is a step of CallbackRegistration or none.                   *)
LEMMA PnpStepImplements ==
  PnpInv /\ [Pnp!Next]_(Pnp!vars) => [Pnp!Registration!Next]_(Pnp!Registration!vars)
<1> SUFFICES ASSUME PnpInv, [Pnp!Next]_(Pnp!vars)
             PROVE  [Pnp!Registration!Next]_(Pnp!Registration!vars)
  OBVIOUS
<1>1. CASE UNCHANGED Pnp!vars
  BY <1>1 DEF Pnp!vars, Pnp!Registration!vars, Pnp!Phase, Pnp!RunningCallbacks, Pnp!Busy
<1>2. CASE Pnp!Next
  BY <1>2, PnpDriverImplements, NotificationImplements DEF Pnp!Next
<1>3. QED
  BY <1>1, <1>2

-----------------------------------------------------------------------------
(* TimerCostTest: the inductive invariant, in named parts.                 *)

(* The loop of DriverEntry has initialised the DPCs it has passed, the     *)
(* driver that is loaded has all of them and one request for a resolution, *)
(* and DriverUnload still has them while it removes them.                  *)
Loading ==
  /\ stage \in {"Allocate", "Initialize", "SetResolution"} => resolution = 0
  /\ stage = "Allocate" => cpu = 0 /\ initialized = {}
  /\ stage = "Initialize" => initialized = 0 .. cpu - 1
  /\ stage \in {"Initialize", "SetResolution"} => pool = "allocated"
  /\ stage = "SetResolution" => initialized = 0 .. CpuCount - 1

Unloading ==
  /\ stage \in {"loaded", "Restore"} => resolution = 1
  /\ stage \in {"loaded", "Restore", "Remove"} =>
       initialized = 0 .. CpuCount - 1 /\ pool = "allocated"
  /\ stage = "Restore" => cpu = 0
  /\ stage = "Remove" => cpu < CpuCount
  /\ stage \in {"Remove", "Free", "unloaded", "failed"} => resolution = 0

TimerInv == Timer!TypeOK /\ Loading /\ Unloading

(* At first there is nothing.                                              *)
LEMMA InitTimerInv == Timer!Init => TimerInv
  BY ConstantsOK DEF Timer!Init, TimerInv, Timer!TypeOK, Loading, Unloading

(* TimerInv is inductive.                                                  *)
LEMMA NextTimerInv == TimerInv /\ [Timer!Next]_(Timer!vars) => TimerInv'
<1> SUFFICES ASSUME TimerInv, [Timer!Next]_(Timer!vars)
             PROVE  TimerInv'
  OBVIOUS
<1> USE ConstantsOK DEF TimerInv, Timer!TypeOK, Loading, Unloading, Timer!Goto
<1>1. CASE UNCHANGED Timer!vars
  BY <1>1 DEF Timer!vars
<1>2. CASE Timer!AllocateDPCs
  <2>1. /\ stage = "Allocate" /\ UNCHANGED <<cpu, initialized, resolution>>
        /\ cpu = 0 /\ initialized = {}
    BY <1>2 DEF Timer!AllocateDPCs
  <2>2. 0 .. cpu - 1 = {}
    BY <2>1
  <2>3. CASE stage' = "Initialize" /\ pool' = "allocated"
    BY <2>1, <2>2, <2>3
  <2>4. CASE stage' = "failed" /\ UNCHANGED pool
    BY <2>1, <2>4
  <2>5. QED
    BY <1>2, <2>3, <2>4 DEF Timer!AllocateDPCs
<1>3. CASE Timer!InitializeDpc
  <2>1. stage = "Initialize" /\ UNCHANGED <<pool, resolution>>
    BY <1>3 DEF Timer!InitializeDpc
  <2>2. CASE /\ cpu < CpuCount /\ stage' = "Initialize"
             /\ cpu' = cpu + 1 /\ initialized' = initialized \cup {cpu}
    <3>1. initialized' = 0 .. cpu' - 1
      BY <2>1, <2>2
    <3>2. cpu' \in 0 .. CpuCount /\ initialized' \subseteq 0 .. CpuCount - 1
      BY <2>2, <3>1
    <3>3. QED
      BY <2>1, <2>2, <3>1, <3>2
  <2>3. CASE /\ cpu < CpuCount /\ stage' = "failed"
             /\ cpu' = cpu + 1 /\ UNCHANGED initialized
    BY <2>1, <2>3
  <2>4. CASE cpu = CpuCount /\ stage' = "SetResolution" /\ UNCHANGED <<cpu, initialized>>
    BY <2>1, <2>4
  <2>5. QED
    BY <1>3, <2>2, <2>3, <2>4 DEF Timer!InitializeDpc, Timer!OnFailure
<1>4. CASE Timer!SetResolution
  BY <1>4 DEF Timer!SetResolution
<1>5. CASE Timer!DriverUnload
  BY <1>5 DEF Timer!DriverUnload
<1>6. CASE Timer!RestoreResolution
  BY <1>6 DEF Timer!RestoreResolution
<1>7. CASE Timer!RemoveQueueDpc
  BY <1>7 DEF Timer!RemoveQueueDpc
<1>8. CASE Timer!FreeDPCs
  BY <1>8 DEF Timer!FreeDPCs
<1>9. QED
  BY <1>1, <1>2, <1>3, <1>4, <1>5, <1>6, <1>7, <1>8 DEF Timer!Next

-----------------------------------------------------------------------------
(* The composition.                                                        *)

IInv == loaded \in {"Process", "Pnp", "Timer"} /\ ProcessInv /\ PnpInv /\ TimerInv

(* Each driver starts in its own initial state.                            *)
LEMMA InitIInv == Init => IInv
  BY InitProcessInv, InitPnpInv, InitTimerInv DEF Init, IInv

(* A step is one of one driver, or none of any.                            *)
LEMMA StepOfOne ==
  ASSUME [Next]_vars
  PROVE  /\ [Process!Next]_(Process!vars)
         /\ [Pnp!Next]_(Pnp!vars)
         /\ [Timer!Next]_(Timer!vars)
         /\ UNCHANGED loaded
  BY DEF Next, ProcessNext, PnpNext, TimerNext, vars, processVars, pnpVars, timerVars,
     Process!vars, Pnp!vars, Timer!vars

(* IInv is inductive.                                                      *)
LEMMA NextIInv == IInv /\ [Next]_vars => IInv'
<1> SUFFICES ASSUME IInv, [Next]_vars
             PROVE  IInv'
  OBVIOUS
<1>1. loaded' \in {"Process", "Pnp", "Timer"}
  BY StepOfOne DEF IInv
<1>2. ProcessInv' /\ PnpInv' /\ TimerInv'
  BY StepOfOne, NextProcessInv, NextPnpInv, NextTimerInv DEF IInv
<1>3. QED
  BY <1>1, <1>2 DEF IInv

(* IInv holds throughout, fairness or not.                                 *)
LEMMA Invariance == Spec => []IInv
  BY InitIInv, NextIInv, PTL DEF Spec

-----------------------------------------------------------------------------
(* Every variable keeps its type.  For ProcessNotify this says that no     *)
(* count of things held leaves {0, 1}: nothing is released that was not    *)
(* acquired, nor acquired twice.                                           *)
THEOREM TypeCorrect == Spec => []TypeOK
<1>1. IInv => TypeOK
  BY DEF IInv, ProcessInv, PnpInv, TimerInv, TypeOK
<1>2. QED
  BY <1>1, Invariance, PTL

(* Whichever calls fail, a process callback that is over has given back    *)
(* its buffer, its handle and both policies.                               *)
THEOREM GivesBack == Spec => []NothingLeaked
<1>1. IInv => NothingLeaked
  BY DEF IInv, ProcessInv, Process!TypeOK, Balanced, Holds, NothingLeaked,
     Process!NothingLeaked, Process!Running, Process!Things
<1>2. QED
  BY <1>1, Invariance, PTL

(* However many processes are being created when the driver is unloaded,   *)
(* no callback is executing when the image goes.                           *)
THEOREM InsideImage == Spec => []NoCallbackOutsideImage
<1>1. IInv => NoCallbackOutsideImage
  BY DEF IInv, ProcessInv, Unregistering, NoCallbackOutsideImage,
     Process!NoCallbackOutsideImage
<1>2. QED
  BY <1>1, Invariance, PTL

(* Whether or not the device could be opened, a PnP callback that is over  *)
(* leaves no file object referenced, and none with one reference too few.  *)
THEOREM ReferencesGivenBack == Spec => []ReferencesBalanced
<1>1. IInv => ReferencesBalanced
  BY DEF IInv, PnpInv, References, ReferencesBalanced, Pnp!ReferencesBalanced, Pnp!Busy
<1>2. QED
  BY <1>1, Invariance, PTL

(* TimerCostTest's DriverUnload removes only DPCs that were initialised,   *)
(* and no request for a timer resolution outlives the driver, loaded or    *)
(* not.                                                                    *)
THEOREM UnloadExact == Spec => []UnloadUndoesLoad
<1>1. IInv => UnloadUndoesLoad
  BY ConstantsOK DEF IInv, TimerInv, Timer!TypeOK, Loading, Unloading, UnloadUndoesLoad,
     Timer!UnloadUndoesLoad
<1>2. QED
  BY <1>1, Invariance, PTL

(* WDMDigitalSignCheckTest never does what CallbackRegistration does not   *)
(* allow: nothing begins before the registration or once it is leaving,    *)
(* and it is gone only when nothing runs.                                  *)
THEOREM ProcessImplementsSafety ==
  Spec => Process!Registration!Init
          /\ [][Process!Registration!Next]_(Process!Registration!vars)
<1>1. Init => Process!Registration!Init
  BY DEF Init, Process!Init, Process!Registration!Init, Process!Phase,
     Process!RunningCallbacks, Process!Running
<1>2. IInv /\ [Next]_vars => [Process!Registration!Next]_(Process!Registration!vars)
  BY StepOfOne, ProcessStepImplements DEF IInv
<1>3. QED
  BY <1>1, <1>2, Invariance, PTL DEF Spec

(* PnpEventNotificationTest does not either, although its callbacks begin  *)
(* before the registration has returned.                                   *)
THEOREM PnpImplementsSafety ==
  Spec => Pnp!Registration!Init /\ [][Pnp!Registration!Next]_(Pnp!Registration!vars)
<1>1. Init => Pnp!Registration!Init
  BY DEF Init, Pnp!Init, Pnp!Registration!Init, Pnp!Phase, Pnp!RunningCallbacks, Pnp!Busy
<1>2. IInv /\ [Next]_vars => [Pnp!Registration!Next]_(Pnp!Registration!vars)
  BY StepOfOne, PnpStepImplements DEF IInv
<1>3. QED
  BY <1>1, <1>2, Invariance, PTL DEF Spec
=============================================================================
