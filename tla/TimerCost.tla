------------------------------ MODULE TimerCost ------------------------------
(***************************************************************************)
(* TimerCostTest/DriverEntry.c: DriverEntry prepares a DPC per processor   *)
(* and raises the timer resolution, DriverUnload takes all of it back.     *)
(* The call that would start the timer is commented out, so neither DPC    *)
(* routine ever runs.                                                      *)
(***************************************************************************)
EXTENDS Integers, FiniteSets

CONSTANT CpuCount

VARIABLES
  stage,       \* where DriverEntry or DriverUnload is
  cpu,         \* i of their loops
  pool,        \* DummyDPCs: "none", "allocated" or "freed"
  initialized, \* the DPCs KeInitializeDpc was called for
  resolution   \* requests for a timer resolution less their withdrawals

vars == <<stage, cpu, pool, initialized, resolution>>

TypeOK ==
  /\ stage \in {"Allocate", "Initialize", "SetResolution", "loaded", "Restore",
                "Remove", "Free", "unloaded", "failed"}
  /\ cpu \in 0 .. CpuCount
  /\ pool \in {"none", "allocated", "freed"}
  /\ initialized \subseteq 0 .. CpuCount - 1
  /\ resolution \in Int

Init ==
  /\ stage = "Allocate" /\ cpu = 0 /\ pool = "none"
  /\ initialized = {} /\ resolution = 0

Goto(from, to) == stage = from /\ stage' = to

-----------------------------------------------------------------------------
AllocateDPCs ==
  /\ \/ Goto("Allocate", "Initialize") /\ pool' = "allocated"
     \/ Goto("Allocate", "failed") /\ UNCHANGED pool
  /\ UNCHANGED <<cpu, initialized, resolution>>

OnFailureContinue == "Initialize"   \* Slip: continue
OnFailure         == "failed"       \* return status: DummyDPCs is not freed

(* The loop over the processors; KeGetProcessorNumberFromIndex may fail.   *)
InitializeDpc ==
  /\ \/ cpu < CpuCount /\ Goto("Initialize", "Initialize")
          /\ cpu' = cpu + 1 /\ initialized' = initialized \cup {cpu}
     \/ cpu < CpuCount /\ Goto("Initialize", OnFailure)
          /\ cpu' = cpu + 1 /\ UNCHANGED initialized
     \/ cpu = CpuCount /\ Goto("Initialize", "SetResolution") /\ UNCHANGED <<cpu, initialized>>
  /\ UNCHANGED <<pool, resolution>>

SetResolution ==
  /\ Goto("SetResolution", "loaded")
  /\ resolution' = resolution + 1
  /\ UNCHANGED <<cpu, pool, initialized>>

(* The timer was never set: cancelling it and removing its DPC do nothing. *)
DriverUnload ==
  /\ Goto("loaded", "Restore")
  /\ cpu' = 0
  /\ UNCHANGED <<pool, initialized, resolution>>

RestoreResolution ==
  /\ Goto("Restore", IF pool = "none" THEN "unloaded" ELSE "Remove")
  /\ resolution' = resolution - 1
  /\ UNCHANGED <<cpu, pool, initialized>>

RemoveQueueDpc ==
  /\ Goto("Remove", IF cpu + 1 < CpuCount THEN "Remove" ELSE "Free")
  /\ cpu' = cpu + 1
  /\ UNCHANGED <<pool, initialized, resolution>>

(* After a second's sleep.                                                 *)
FreeDPCs ==
  /\ Goto("Free", "unloaded")
  /\ pool' = "freed"
  /\ UNCHANGED <<cpu, initialized, resolution>>

Next ==
  \/ AllocateDPCs \/ InitializeDpc \/ SetResolution \/ DriverUnload
  \/ RestoreResolution \/ RemoveQueueDpc \/ FreeDPCs

Spec == Init /\ [][Next]_vars

-----------------------------------------------------------------------------
(* DriverUnload removes only DPCs that DriverEntry initialised (on zeroed  *)
(* memory KeRemoveQueueDpc means nothing), before their memory goes, and   *)
(* whether DriverEntry failed or DriverUnload has run, no request for a    *)
(* timer resolution outlives the driver.                                   *)
UnloadUndoesLoad ==
  /\ stage = "Remove" => cpu \in initialized /\ pool = "allocated"
  /\ stage \in {"unloaded", "failed"} => resolution = 0
=============================================================================
