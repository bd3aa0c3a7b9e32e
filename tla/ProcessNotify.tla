---------------------------- MODULE ProcessNotify ----------------------------
(***************************************************************************)
(* WDMDigitalSignCheckTest: a process-creation callback that asks for the  *)
(* name of the new process, has Code Integrity validate its image file and *)
(* prints what it finds.  Processes are created concurrently, so several   *)
(* executions of the callback run at the same time, also while the driver  *)
(* is being unloaded.  Exit notifications return at once and change        *)
(* nothing.                                                                *)
(***************************************************************************)
EXTENDS Integers

CONSTANT Processes

VARIABLES
  driver,     \* DriverEntry and DriverUnload
  callback,   \* per process: where ProcessNotifyCB is
  succeeded,  \* per process: NT_SUCCESS(status) in GetProcessName
  name,       \* per process: does the buffer hold the image path?
  held        \* per process and thing: acquired less released

vars == <<driver, callback, succeeded, name, held>>

Things == {"buffer", "handle", "signer_policy", "time_auth_policy"}

TypeOK ==
  /\ driver \in {"LoadApi", "Register", "registered", "Unregister", "unloaded", "failed"}
  /\ callback \in [Processes -> {"none", "Allocate", "Open", "Query", "Close", "Check",
                                 "Validate", "FreeSigner", "FreeTimeAuth",
                                 "FreeBuffer", "done"}]
  /\ succeeded \in [Processes -> BOOLEAN]
  /\ name \in [Processes -> BOOLEAN]
  /\ held \in [Processes -> [Things -> {0, 1}]]

Init ==
  /\ driver = "LoadApi"
  /\ callback = [p \in Processes |-> "none"]
  /\ succeeded = [p \in Processes |-> FALSE]
  /\ name = [p \in Processes |-> FALSE]
  /\ held = [p \in Processes |-> [x \in Things |-> 0]]

-----------------------------------------------------------------------------
(* DriverEntry and DriverUnload.                                           *)

(* ZwQueryInformationProcess may be missing.                               *)
LoadUndocumentedApi ==
  /\ driver = "LoadApi"
  /\ driver' \in {"Register", "failed"}
  /\ UNCHANGED <<callback, succeeded, name, held>>

Register ==
  /\ driver = "Register"
  /\ driver' \in {"registered", "failed"}
  /\ UNCHANGED <<callback, succeeded, name, held>>

KeepRegistered == "unloaded"     \* Slip: the routine stays registered
TakeBack       == "Unregister"

DriverUnload ==
  /\ driver = "registered"
  /\ driver' = TakeBack
  /\ UNCHANGED <<callback, succeeded, name, held>>

Running(p) == callback[p] \notin {"none", "done"}

(* PsSetCreateProcessNotifyRoutineEx(..., TRUE): no callback begins any    *)
(* more, and it returns when those under way have.                         *)
Unregistered ==
  /\ driver = "Unregister"
  /\ \A p \in Processes : ~ Running(p)
  /\ driver' = "unloaded"
  /\ UNCHANGED <<callback, succeeded, name, held>>

ProcessCreated(p) ==
  /\ driver = "registered"
  /\ callback[p] = "none"
  /\ callback' = [callback EXCEPT ![p] = "Allocate"]
  /\ UNCHANGED <<driver, succeeded, name, held>>

-----------------------------------------------------------------------------
Goto(p, from, to) == callback[p] = from /\ callback' = [callback EXCEPT ![p] = to]
Acquire(p, x) == held' = [held EXCEPT ![p][x] = @ + 1]
Release(p, x) == held' = [held EXCEPT ![p][x] = @ - 1]
CiFree(p, x)  == held' = [held EXCEPT ![p][x] = 0]   \* an empty policy will do

(* ProcessNotifyCB: without a buffer there is nothing to do.               *)
AllocateBuffer(p) ==
  /\ \/ Goto(p, "Allocate", "Open") /\ Acquire(p, "buffer")
     \/ Goto(p, "Allocate", "done") /\ UNCHANGED held
  /\ name' = [name EXCEPT ![p] = FALSE]
  /\ UNCHANGED <<driver, succeeded>>

CloseAnyway == "Close"   \* Slip: ZwClose whatever RefObjectByPtr returned
NotOpened   == "Check"

(* GetProcessName, with its three calls.                                   *)
OpenProcess(p) ==
  /\ \/ /\ Goto(p, "Open", "Query") /\ Acquire(p, "handle")
        /\ succeeded' = [succeeded EXCEPT ![p] = TRUE]
     \/ /\ Goto(p, "Open", NotOpened) /\ UNCHANGED held
        /\ succeeded' = [succeeded EXCEPT ![p] = FALSE]
  /\ UNCHANGED <<driver, name>>

ReturnOnFailure(ok) == IF ok THEN "Close" ELSE "Check"   \* Slip
AfterQuery(ok)      == "Close"

QueryName(p) ==
  /\ \E ok \in BOOLEAN :
       /\ Goto(p, "Query", AfterQuery(ok))
       /\ succeeded' = [succeeded EXCEPT ![p] = ok]
       /\ name' = [name EXCEPT ![p] = ok]
  /\ UNCHANGED <<driver, held>>

TryAgain(ok)   == IF ok THEN "Check" ELSE "Open"   \* Slip
AfterClose(ok) == "Check"

(* The status of ZwClose, which succeeds on a handle just opened, takes    *)
(* the place of the query's.                                               *)
CloseProcess(p) ==
  /\ Goto(p, "Close", AfterClose(succeeded[p]))
  /\ Release(p, "handle")
  /\ succeeded' = [succeeded EXCEPT ![p] = TRUE]
  /\ UNCHANGED <<driver, name>>

(* Back in ProcessNotifyCB: print the name, or give up.                    *)
CheckStatus(p) ==
  /\ Goto(p, "Check", IF succeeded[p] THEN "Validate" ELSE "FreeBuffer")
  /\ UNCHANGED <<driver, succeeded, name, held>>

AcquirePolicies(p) ==
  \E signer, time_auth \in {0, 1} :
    held' = [held EXCEPT ![p]["signer_policy"] = signer, ![p]["time_auth_policy"] = time_auth]

(* PrintCertInfo: CiValidateFileObject, whether it succeeds or not, may    *)
(* have allocated what the two policies point to.                          *)
ValidateFileObject(p) ==
  /\ Goto(p, "Validate", "FreeSigner")
  /\ AcquirePolicies(p)
  /\ UNCHANGED <<driver, succeeded, name>>

FreeSignerPolicy(p) ==
  /\ Goto(p, "FreeSigner", "FreeTimeAuth")
  /\ CiFree(p, "signer_policy")
  /\ UNCHANGED <<driver, succeeded, name>>

FreeTimeAuthPolicy(p) ==
  /\ Goto(p, "FreeTimeAuth", "FreeBuffer")
  /\ CiFree(p, "time_auth_policy")
  /\ UNCHANGED <<driver, succeeded, name>>

FreeBuffer(p) ==
  /\ Goto(p, "FreeBuffer", "done")
  /\ Release(p, "buffer")
  /\ UNCHANGED <<driver, succeeded, name>>

-----------------------------------------------------------------------------
ProcessNotifyCB(p) ==
  \/ AllocateBuffer(p) \/ OpenProcess(p) \/ QueryName(p) \/ CloseProcess(p)
  \/ CheckStatus(p) \/ ValidateFileObject(p) \/ FreeSignerPolicy(p)
  \/ FreeTimeAuthPolicy(p) \/ FreeBuffer(p)

Next ==
  \/ LoadUndocumentedApi \/ Register \/ DriverUnload \/ Unregistered
  \/ \E p \in Processes : ProcessCreated(p) \/ ProcessNotifyCB(p)

Spec == Init /\ [][Next]_vars

-----------------------------------------------------------------------------
(* Each execution of the callback gives back all it acquired, on every     *)
(* combination of failures (TypeOK: and nothing it did not acquire).       *)
NothingLeaked ==
  \A p \in Processes : ~ Running(p) => \A x \in Things : held[p][x] = 0

(* The callback's code is never executed after DriverUnload, nor by a      *)
(* driver that failed to load.                                             *)
NoCallbackOutsideImage ==
  driver \in {"LoadApi", "failed", "unloaded"} => \A p \in Processes : ~ Running(p)

(* The driver as CallbackRegistration sees it.                             *)
Phase ==
  CASE driver \in {"LoadApi", "Register"} -> "loading"
    [] driver = "registered" -> "open"
    [] driver = "Unregister" -> "leaving"
    [] OTHER -> "gone"

RunningCallbacks == {p \in Processes : Running(p)}

Registration == INSTANCE CallbackRegistration WITH
  Events <- Processes, phase <- Phase, running <- RunningCallbacks

(* 'string in buffer will be "full kernel path of image file"'             *)
(* (ProcessFunctions.cpp:42): the name that is printed is there.           *)
PrintedNameIsThere ==
  \A p \in Processes : callback[p] = "Check" /\ succeeded[p] => name[p]
=============================================================================
