---------------------------- MODULE OneShotDrivers ----------------------------
(***************************************************************************)
(* The drivers that do all their work in DriverEntry and then fail, so     *)
(* that the image goes when DriverEntry returns, whatever they have left   *)
(* running.  One of them is loaded.                                        *)
(***************************************************************************)
EXTENDS Naturals

CONSTANTS ROWS, MAX_SIZE, MAX_NODES, MAX_GROUPS, ULONG

(* The size of the largest answer has to fit the ULONG that reports it.    *)
ASSUME ConstantsOK ==
  /\ ROWS \in Nat \ {0} /\ MAX_SIZE \in Nat /\ MAX_GROUPS \in Nat \ {0}
  /\ MAX_NODES \in Nat /\ ULONG \in Nat
  /\ ULONG > MAX_NODES * (2 + MAX_GROUPS)

VARIABLES
  loaded,   \* the driver
  pc, i, status, event, live, transferred, io,                      \* HarddiskRead
  entry, worker, memory, have, done, inTime,                        \* PtovThread
  main, thread1, thread2, notify, signalled, counter, count,        \* KernelThreads
  step, groups, offset, size, j, printed                            \* NumaWalk

Harddisk == INSTANCE HarddiskRead
Ptov     == INSTANCE PtovThread
Threads  == INSTANCE KernelThreads
Numa     == INSTANCE NumaWalk

harddiskVars == <<pc, i, status, event, live, transferred, io>>
ptovVars     == <<entry, worker, memory, have, done, inTime>>
threadsVars  == <<main, thread1, thread2, notify, signalled, counter, count>>
numaVars     == <<step, groups, offset, size, j, printed>>
vars == <<loaded, harddiskVars, ptovVars, threadsVars, numaVars>>

TypeOK ==
  /\ loaded \in {"Harddisk", "Ptov", "Threads", "Numa"}
  /\ Harddisk!TypeOK /\ Ptov!TypeOK /\ Threads!TypeOK /\ Numa!TypeOK

(* The kernel answers Numa's query; a driver that is not there gets none.  *)
Init ==
  /\ loaded \in {"Harddisk", "Ptov", "Threads", "Numa"}
  /\ Harddisk!Init /\ Ptov!Init /\ Threads!Init /\ Numa!Init
  /\ loaded # "Numa" => groups = <<0>>

-----------------------------------------------------------------------------
HarddiskNext ==
  /\ loaded = "Harddisk" /\ Harddisk!Next
  /\ UNCHANGED <<loaded, ptovVars, threadsVars, numaVars>>

PtovNext ==
  /\ loaded = "Ptov" /\ Ptov!Next
  /\ UNCHANGED <<loaded, harddiskVars, threadsVars, numaVars>>

ThreadsNext ==
  /\ loaded = "Threads" /\ Threads!Next
  /\ UNCHANGED <<loaded, harddiskVars, ptovVars, numaVars>>

NumaNext ==
  /\ loaded = "Numa" /\ Numa!Next
  /\ UNCHANGED <<loaded, harddiskVars, ptovVars, threadsVars>>

Next == HarddiskNext \/ PtovNext \/ ThreadsNext \/ NumaNext

(* The drivers' own threads run, and whoever is at the debugger lets them  *)
(* go on from a breakpoint.  Nothing forces the disk to complete a read,   *)
(* anyone to notify, or Ptov's worker to get to its end.                   *)
Spec ==
  /\ Init /\ [][Next]_vars
  /\ WF_harddiskVars(loaded = "Harddisk" /\ Harddisk!DriverEntry)
  /\ WF_ptovVars(loaded = "Ptov" /\ Ptov!DriverEntry)
  /\ WF_threadsVars(loaded = "Threads" /\ Threads!DriverEntry)
  /\ WF_threadsVars(loaded = "Threads" /\ Threads!ThreadFunction1)
  /\ WF_threadsVars(loaded = "Threads" /\ Threads!ThreadFunction2)
  /\ WF_numaVars(loaded = "Numa" /\ Numa!Next)

-----------------------------------------------------------------------------
(* What each module's comment states; together they say when a driver      *)
(* whose code goes with DriverEntry's return leaves nobody behind who      *)
(* would use its memory.                                                   *)
ReleasedBeforeEvent  == Harddisk!ReleasedBeforeEvent
BufferStable         == Harddisk!BufferStable
OnlyFileLeftOver     == Harddisk!OnlyFileLeftOver
MemoryOutlivesThread == Ptov!MemoryOutlivesThread
MappingBacked        == Ptov!MappingBacked
ThreadsEndFirst      == Threads!ThreadsEndFirst
PrintsEveryMask      == Numa!PrintsEveryMask

(* HarddiskDeviceTest's DriverEntry returns even if the device never       *)
(* completes the read.                                                     *)
ReadReturns == loaded = "Harddisk" ~> pc = "Returned"

(* PtovTest's DriverEntry returns even if its thread never gets to the end.*)
PtovReturns == loaded = "Ptov" /\ ~ inTime ~> entry = "Returned"

(* KernelThreadTest's DriverEntry, with both threads created, needs        *)
(* nothing but the notification to return, wherever it finds the first.    *)
NotifiedReturns ==
  notify /\ thread1 # "none" /\ thread2 # "none" ~> main = "Returned"

(* The walk over the records comes to an end: size reaches 0 exactly.      *)
WalkEnds == step = "Record" ~> step = "Returned"
=============================================================================
