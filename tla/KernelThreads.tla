----------------------------- MODULE KernelThreads -----------------------------
(***************************************************************************)
(* KernelThreadTest/DriverEntry.c: two system threads, the first of which  *)
(* takes time stamps until it is notified, and DriverEntry, which waits    *)
(* for both of them without a timeout.  Nothing in the code notifies: the  *)
(* call is commented out, and the event is left to a person at the         *)
(* debugger.  Either thread may fail to be created, which is not noticed.  *)
(***************************************************************************)
EXTENDS Naturals

CONSTANT MAX_SIZE   \* max_size

VARIABLES
  main,      \* DriverEntry
  thread1, thread2,
  notify,    \* EventNotify1
  signalled, \* which of EventDone[0], EventDone[1] are set
  counter,   \* the time stamps: "none", "allocated" or "freed"
  count      \* ThreadFunction1: i

vars == <<main, thread1, thread2, notify, signalled, counter, count>>

TypeOK ==
  /\ main \in {"Create1", "Create2", "Wait", "Returned"}
  /\ thread1 \in {"none", "Allocate", "Poll", "Store", "Free", "SetEvent", "done"}
  /\ thread2 \in {"none", "SetEvent", "done"}
  /\ notify \in BOOLEAN /\ signalled \subseteq {0, 1}
  /\ counter \in {"none", "allocated", "freed"}
  /\ count \in 0 .. MAX_SIZE

Init ==
  /\ main = "Create1" /\ thread1 = "none" /\ thread2 = "none"
  /\ notify = FALSE /\ signalled = {} /\ counter = "none" /\ count = 0

(* The person at the debugger, in place of the KeSetEvent.                 *)
SetEventNotify1 ==
  /\ main = "Wait"
  /\ notify' = TRUE
  /\ UNCHANGED <<main, thread1, thread2, signalled, counter, count>>

-----------------------------------------------------------------------------
Main(from, to) ==
  /\ main = from /\ main' = to
  /\ UNCHANGED <<notify, signalled, counter, count>>

CreateThread1 ==
  /\ Main("Create1", "Create2")
  /\ thread1' \in {"Allocate", "none"}
  /\ UNCHANGED thread2

CreateThread2 ==
  /\ Main("Create2", "Wait")
  /\ thread2' \in {"SetEvent", "none"}
  /\ UNCHANGED thread1

AnySignalled == signalled # {}       \* Slip: WaitAny
AllSignalled == signalled = {0, 1}   \* WaitAll

WaitForBoth ==
  /\ AllSignalled
  /\ Main("Wait", "Returned")
  /\ UNCHANGED <<thread1, thread2>>

DriverEntry == CreateThread1 \/ CreateThread2 \/ WaitForBoth

-----------------------------------------------------------------------------
Thread1(from, to) ==
  /\ thread1 = from /\ thread1' = to
  /\ UNCHANGED <<main, thread2, notify>>

AllocateCounter ==
  /\ Thread1("Allocate", "Poll")
  /\ counter' = "allocated"
  /\ UNCHANGED <<signalled, count>>

(* A wait with a timeout of 0.                                             *)
Poll ==
  /\ Thread1("Poll", IF notify THEN "Free" ELSE "Store")
  /\ UNCHANGED <<signalled, counter, count>>

AlwaysRoom == TRUE              \* Slip: no test of i
Room       == count < MAX_SIZE  \* i < max_size

Store ==
  /\ Thread1("Store", "Poll")
  /\ count' = IF Room THEN count + 1 ELSE count
  /\ UNCHANGED <<signalled, counter>>

FreeCounter ==
  /\ Thread1("Free", "SetEvent")
  /\ counter' = "freed"
  /\ UNCHANGED <<signalled, count>>

(* KeSetEvent(EventDone[0]), after which only the return is left.          *)
Thread1Done ==
  /\ Thread1("SetEvent", "done")
  /\ signalled' = signalled \cup {0}
  /\ UNCHANGED <<counter, count>>

ThreadFunction1 == AllocateCounter \/ Poll \/ Store \/ FreeCounter \/ Thread1Done

(* Slip: EventDone[0] in both threads.                                     *)
SetFirstEvent ==
  /\ thread2 = "SetEvent" /\ thread2' = "done"
  /\ signalled' = signalled \cup {0}
  /\ UNCHANGED <<main, thread1, notify, counter, count>>

ThreadFunction2 ==
  /\ thread2 = "SetEvent" /\ thread2' = "done"
  /\ signalled' = signalled \cup {1}
  /\ UNCHANGED <<main, thread1, notify, counter, count>>

-----------------------------------------------------------------------------
Next == DriverEntry \/ SetEventNotify1 \/ ThreadFunction1 \/ ThreadFunction2

Spec == Init /\ [][Next]_vars

(* DriverEntry does not return, and have its image unmapped, before both   *)
(* threads are through with their work and the time stamps are freed: not  *)
(* before someone notifies, and not at all if a thread was not created.    *)
ThreadsEndFirst ==
  main = "Returned" =>
    notify /\ thread1 = "done" /\ thread2 = "done" /\ counter = "freed"

=============================================================================
