----------------------------- MODULE HarddiskRead -----------------------------
(***************************************************************************)
(* HarddiskDeviceTest/DriverEntry.c: DoTest builds an IRP and an MDL by    *)
(* hand, sends a read to the disk's driver, waits (or means to) if the     *)
(* call is pending, prints the buffer, frees it, and DriverEntry fails,    *)
(* upon which the image is unmapped.  The completion routine frees the MDL *)
(* and the IRP and signals the event.  Allocations are taken to succeed:   *)
(* the code dereferences every result unchecked.                           *)
(***************************************************************************)
EXTENDS Integers

CONSTANT ROWS   \* 16-byte rows of the buffer: size / 16, at least one

VARIABLES
  pc,          \* DriverEntry and DoTest
  i,           \* PrintBufferContent: rows printed
  status,      \* DoTest's: of the last call it made
  event,       \* IoEvent
  live,        \* what has been taken and not given back
  transferred, \* rows the device has stored into the buffer
  io           \* the request: with the device, in the completion routine, ...

vars == <<pc, i, status, event, live, transferred, io>>

TypeOK ==
  /\ pc \in {"Open", "Build", "Call", "InCall", "Wait", "Print", "Free",
             "Return", "Returned"}
  /\ i \in 0 .. ROWS
  /\ status \in {"none", "success", "failed", "pending", "final", "timeout"}
  /\ event \in BOOLEAN
  /\ live \subseteq {"file", "irp", "mdl", "buffer"}
  /\ transferred \in 0 .. ROWS
  /\ io \in {"none", "device", "FreeMdl", "FreeIrp", "SetEvent", "Return", "over"}

Init ==
  /\ pc = "Open" /\ i = 0 /\ status = "none" /\ event = FALSE /\ live = {}
  /\ transferred = 0 /\ io = "none"

Goto(from, to) == pc = from /\ pc' = to
IoGoto(from, to) == io = from /\ io' = to

-----------------------------------------------------------------------------
(* The disk's driver and the I/O manager.                                  *)

Transfer ==
  /\ io = "device" /\ transferred < ROWS
  /\ transferred' = transferred + 1
  /\ UNCHANGED <<pc, i, status, event, live, io>>

(* IoCompleteRequest, for a full transfer or a failure: the completion     *)
(* routine was set for success, error and cancel alike.                    *)
IoCompleteRequest ==
  /\ IoGoto("device", "FreeMdl")
  /\ UNCHANGED <<pc, i, status, event, live, transferred>>

-----------------------------------------------------------------------------
(* MyIoCompletion.                                                         *)

(* Slip: the waiter is released before the request's memory is.            *)
FreeMdlAndSetEvent ==
  /\ IoGoto("FreeMdl", "FreeIrp")
  /\ live' = live \ {"mdl"}
  /\ event' = TRUE
  /\ UNCHANGED <<pc, i, status, transferred>>

FreeMdl ==
  /\ IoGoto("FreeMdl", "FreeIrp")
  /\ live' = live \ {"mdl"}
  /\ UNCHANGED <<pc, i, status, event, transferred>>

FreeIrp ==
  /\ IoGoto("FreeIrp", "SetEvent")
  /\ live' = live \ {"irp"}
  /\ UNCHANGED <<pc, i, status, event, transferred>>

SetEvent ==
  /\ IoGoto("SetEvent", "Return")
  /\ event' = TRUE
  /\ UNCHANGED <<pc, i, status, live, transferred>>

(* STATUS_MORE_PROCESSING_REQUIRED: the I/O manager leaves the IRP alone.  *)
MyIoCompletionReturns ==
  /\ IoGoto("Return", "over")
  /\ UNCHANGED <<pc, i, status, event, live, transferred>>

-----------------------------------------------------------------------------
(* DoTest and DriverEntry.                                                 *)

(* IoGetDeviceObjectPointer references the file object; nothing ever       *)
(* dereferences it.                                                        *)
Open ==
  /\ \/ Goto("Open", "Build") /\ status' = "success" /\ live' = live \cup {"file"}
     \/ Goto("Open", "Return") /\ status' = "failed" /\ UNCHANGED live
  /\ event' = FALSE
  /\ UNCHANGED <<i, transferred, io>>

Build ==
  /\ Goto("Build", "Call")
  /\ live' = live \cup {"irp", "buffer", "mdl"}
  /\ UNCHANGED <<i, status, event, transferred, io>>

IoCallDriver ==
  /\ Goto("Call", "InCall")
  /\ IoGoto("none", "device")
  /\ UNCHANGED <<i, status, event, live, transferred>>

SkipWait     == "Print"   \* Slip: a pending call taken for a finished one
AfterPending == "Wait"    \* status == STATUS_PENDING

(* The driver returns STATUS_PENDING, however far the request has come, or *)
(* the final status of a request it has completed.                         *)
CallReturns ==
  /\ \/ Goto("InCall", AfterPending) /\ status' = "pending"
     \/ io = "over" /\ Goto("InCall", "Print") /\ status' = "final"
  /\ UNCHANGED <<i, event, live, transferred, io>>

NoTimeout == FALSE   \* Slip: NULL in place of &wait
Expired   == TRUE    \* 150000000: positive, an absolute time long past

(* KeWaitForSingleObject tells the two outcomes apart; DoTest does not     *)
(* look at what it tells.                                                  *)
Wait ==
  /\ event \/ Expired
  /\ Goto("Wait", "Print")
  /\ status' = IF event THEN "success" ELSE "timeout"
  /\ UNCHANGED <<i, event, live, transferred, io>>

(* One row of the buffer per step.                                         *)
PrintBufferContent ==
  /\ Goto("Print", IF i + 1 < ROWS THEN "Print" ELSE "Free")
  /\ i' = i + 1
  /\ UNCHANGED <<status, event, live, transferred, io>>

FreeBuffer ==
  /\ Goto("Free", "Return")
  /\ live' = live \ {"buffer"}
  /\ UNCHANGED <<i, status, event, transferred, io>>

DriverEntryFails ==
  /\ Goto("Return", "Returned")
  /\ UNCHANGED <<i, status, event, live, transferred, io>>

-----------------------------------------------------------------------------
DriverEntry ==
  \/ Open \/ Build \/ IoCallDriver \/ CallReturns \/ Wait
  \/ PrintBufferContent \/ FreeBuffer \/ DriverEntryFails

MyIoCompletion == FreeMdl \/ FreeIrp \/ SetEvent \/ MyIoCompletionReturns

Next == DriverEntry \/ Transfer \/ IoCompleteRequest \/ MyIoCompletion

Spec == Init /\ [][Next]_vars

-----------------------------------------------------------------------------
(* Whoever sees the event can rely on the request being gone, and the MDL  *)
(* is released while the IRP that points to it still exists.               *)
ReleasedBeforeEvent ==
  /\ event => {"irp", "mdl"} \cap live = {}
  /\ "mdl" \in live => "irp" \in live

(* The device stores into a buffer that is being printed (a torn print) or *)
(* has been freed only if the wait came back with STATUS_TIMEOUT, which    *)
(* line 92 assigns and nobody looks at: a read completed within the call,  *)
(* or before the wait, is safe.                                            *)
BufferStable ==
  [][((pc \in {"Print", "Free", "Return", "Returned"}) /\ status # "timeout") =>
       UNCHANGED transferred]_vars

(* Unless the wait timed out, the completion routine has nothing left to   *)
(* do but return when DriverEntry returns and the image goes, and all that *)
(* is left over is the file object's reference, if there ever was one.     *)
OnlyFileLeftOver ==
  pc = "Returned" /\ status # "timeout" =>
    /\ live = IF status = "failed" THEN {} ELSE {"file"}
    /\ io \in {"none", "Return", "over"}
=============================================================================
