------------------------------ MODULE DpcQueue ------------------------------
(***************************************************************************)
(* DpcQueueTest/DriverEntry.cpp: one KDPC object whose routine spins until *)
(* FlagStop, inserted again and again.  Test 1 inserts it from processor 0 *)
(* for one target processor after the other; a pulse of FlagStop is meant  *)
(* to end what it left; Test 2 initialises the object anew, queued or not, *)
(* and lets two threads, bound to processors 1 and 2, insert it at the     *)
(* same time.                                                              *)
(***************************************************************************)
EXTENDS Integers, Sequences, FiniteSets

CONSTANTS
  CPUs,          \* processors; the driver thread is bound to 0
  Targets        \* the targets of Test 1: <<1, 2, 3, 1, 2, 3>> in the source

Threads == {1, 2}   \* TestThread's argument: the processor it binds to
Current == -1       \* target of an initialised DPC: the inserting processor

ASSUME ConstantsOK ==
  /\ CPUs \subseteq Nat /\ {0} \cup Threads \subseteq CPUs
  /\ Targets \in Seq(CPUs \ {0}) /\ Targets # << >>

VARIABLES
  mainPc, k,     \* DriverEntry; its next insertion in Test 1
  FlagStop,
  threadPc,      \* per thread
  target,        \* KDPC.Number
  DpcData,       \* KDPC.DpcData # NULL: the object takes itself for queued
  linked,        \* the processors whose DPC queue holds the object
  spinning,      \* the processors executing TestFunction
  stale          \* history: line 114 found the object in a queue

threadVars == <<mainPc, k, FlagStop, threadPc, stale>>
dpcVars    == <<target, DpcData, linked, spinning>>
vars       == <<threadVars, dpcVars>>

TypeOK ==
  /\ mainPc \in {"Init", "SetTarget", "Insert", "RaiseFlag", "LowerFlag",
                 "InitTest2", "Create1", "Create2", "Delay", "Poll", "LastDelay", "Returned"}
  /\ k \in 1 .. Len(Targets)
  /\ FlagStop \in BOOLEAN
  /\ threadPc \in [Threads -> {"none", "Insert", "Poll", "Ended"}]
  /\ target \in CPUs \cup {Current}
  /\ DpcData \in BOOLEAN
  /\ linked \subseteq CPUs
  /\ spinning \subseteq CPUs
  /\ stale \in BOOLEAN

Init ==
  /\ mainPc = "Init" /\ k = 1 /\ FlagStop = FALSE /\ stale = FALSE
  /\ threadPc = [t \in Threads |-> "none"]
  /\ target = Current /\ DpcData = FALSE /\ linked = {} /\ spinning = {}

-----------------------------------------------------------------------------
(* The kernel.                                                             *)

(* An object that is still linked into a queue stays there, and does not   *)
(* know it any more.                                                       *)
KeInitializeDpc ==
  /\ DpcData' = FALSE
  /\ target' = Current
  /\ UNCHANGED <<linked, spinning>>

(* Refused, with FALSE, when the object takes itself for queued.           *)
KeInsertQueueDpc(cpu) ==
  /\ DpcData' = TRUE
  /\ linked' = IF DpcData THEN linked
               ELSE linked \cup {IF target = Current THEN cpu ELSE target}
  /\ UNCHANGED <<target, spinning>>

(* A processor takes the object off its queue before it runs the routine.  *)
DispatchDpc(cpu) ==
  /\ cpu \in linked /\ cpu \notin spinning
  /\ linked' = linked \ {cpu}
  /\ DpcData' = FALSE
  /\ spinning' = spinning \cup {cpu}
  /\ UNCHANGED <<threadVars, target>>

-----------------------------------------------------------------------------
(* TestFunction looks at FlagStop every 500 us.                            *)
Lowered == ~ FlagStop   \* Slip: while (FlagStop)
Raised  == FlagStop

TestFunction(cpu) ==
  /\ cpu \in spinning /\ Raised
  /\ spinning' = spinning \ {cpu}
  /\ UNCHANGED <<threadVars, target, DpcData, linked>>

(* TestThread runs on its processor, which a spinning DPC keeps from it.   *)
ThreadInserts(t) ==
  /\ threadPc[t] = "Insert" /\ t \notin spinning
  /\ threadPc' = [threadPc EXCEPT ![t] = "Poll"]
  /\ KeInsertQueueDpc(t)
  /\ UNCHANGED <<mainPc, k, FlagStop, stale>>

ThreadEnds(t) ==
  /\ threadPc[t] = "Poll" /\ t \notin spinning
  /\ FlagStop
  /\ threadPc' = [threadPc EXCEPT ![t] = "Ended"]
  /\ UNCHANGED <<mainPc, k, FlagStop, stale, dpcVars>>

-----------------------------------------------------------------------------
(* DriverEntry.                                                            *)

Goto(from, to) == mainPc = from /\ mainPc' = to

InitTest1 ==
  /\ Goto("Init", "SetTarget")
  /\ KeInitializeDpc
  /\ UNCHANGED <<k, FlagStop, threadPc, stale>>

(* Slip: since a queued object does not take the new target (line 69),     *)
(* initialise it before each change of target.                             *)
InitAndSetTarget ==
  /\ Goto("SetTarget", "Insert")
  /\ target' = Targets[k] /\ DpcData' = FALSE
  /\ UNCHANGED <<k, FlagStop, threadPc, stale, linked, spinning>>

KeSetTargetProcessorDpcEx ==
  /\ Goto("SetTarget", "Insert")
  /\ target' = Targets[k]
  /\ UNCHANGED <<k, FlagStop, threadPc, stale, DpcData, linked, spinning>>

OnceMore == k <= Len(Targets)   \* Slip: one more round
More     == k < Len(Targets)

Insert ==
  /\ IF More
     THEN Goto("Insert", "SetTarget") /\ k' = k + 1
     ELSE Goto("Insert", "RaiseFlag") /\ UNCHANGED k
  /\ KeInsertQueueDpc(0)
  /\ UNCHANGED <<FlagStop, threadPc, stale>>

RaiseFlag ==
  /\ Goto("RaiseFlag", "LowerFlag")
  /\ FlagStop' = TRUE
  /\ UNCHANGED <<k, threadPc, stale, dpcVars>>

(* After 500 us, as long as the routine's own stall: nothing makes a DPC   *)
(* notice, nor one that is queued be dispatched.                           *)
LowerFlag ==
  /\ Goto("LowerFlag", "InitTest2")
  /\ FlagStop' = FALSE
  /\ UNCHANGED <<k, threadPc, stale, dpcVars>>

(* Initialising the object does not take it out of the queue it may be in. *)
InitTest2 ==
  /\ Goto("InitTest2", "Create1")
  /\ KeInitializeDpc
  /\ stale' = (linked # {})
  /\ UNCHANGED <<k, FlagStop, threadPc>>

(* PsCreateSystemThread, whose result is not looked at.                    *)
CreateThread(t) ==
  /\ IF t = 1 THEN Goto("Create1", "Create2") ELSE Goto("Create2", "Delay")
  /\ \/ threadPc' = [threadPc EXCEPT ![t] = "Insert"]
     \/ UNCHANGED threadPc
  /\ UNCHANGED <<k, FlagStop, stale, dpcVars>>

(* One second: time for a thread that can run to insert, and for a         *)
(* processor that can to take a DPC from its queue.                        *)
DelayEnds ==
  /\ Goto("Delay", "Poll")
  /\ \A t \in Threads : threadPc[t] = "Insert" => t \in spinning
  /\ linked \subseteq spinning
  /\ UNCHANGED <<k, FlagStop, threadPc, stale, dpcVars>>

(* Only someone at the debugger, stopped at line 127 or later, sets it.    *)
DebuggerSetsFlagStop ==
  /\ mainPc = "Poll" /\ ~ FlagStop
  /\ FlagStop' = TRUE
  /\ UNCHANGED <<mainPc, k, threadPc, stale, dpcVars>>

Poll ==
  /\ FlagStop
  /\ Goto("Poll", "LastDelay")
  /\ UNCHANGED <<k, FlagStop, threadPc, stale, dpcVars>>

(* One more second, and failure: neither thread is joined.                 *)
DriverEntryFails ==
  /\ Goto("LastDelay", "Returned")
  /\ UNCHANGED <<k, FlagStop, threadPc, stale, dpcVars>>

-----------------------------------------------------------------------------
DriverEntry ==
  \/ InitTest1 \/ KeSetTargetProcessorDpcEx \/ Insert \/ RaiseFlag \/ LowerFlag
  \/ InitTest2
  \/ \E t \in Threads : CreateThread(t)
  \/ DelayEnds \/ Poll \/ DriverEntryFails

TestThread(t) == ThreadInserts(t) \/ ThreadEnds(t)

Cpu(c) == DispatchDpc(c) \/ TestFunction(c)

Next ==
  \/ DriverEntry
  \/ \E t \in Threads : TestThread(t)
  \/ \E c \in CPUs : Cpu(c)
  \/ DebuggerSetsFlagStop

Spec == Init /\ [][Next]_vars

(* Ready threads run, processors drain their queues and notice FlagStop,   *)
(* and somebody at the debugger ends the test.                             *)
FairSpec ==
  /\ Spec
  /\ WF_vars(DriverEntry)
  /\ \A t \in Threads : WF_vars(TestThread(t))
  /\ \A c \in CPUs : WF_vars(Cpu(c))
  /\ WF_vars(DebuggerSetsFlagStop)

-----------------------------------------------------------------------------
(* The object is linked into at most one queue and knows whether it is,    *)
(* unless line 114 has initialised it while it was queued: a LIST_ENTRY    *)
(* linked twice corrupts the queues of two processors.  Nothing else is to *)
(* blame: not the changes of target and refused insertions of Test 1, a    *)
(* DPC that missed the pulse, or the concurrent insertions of Test 2.      *)
LinkedOnce ==
  ~ stale =>
    /\ Cardinality(linked) <= 1
    /\ DpcData <=> linked # {}

(* "2 DPC both running after InsertQueueDpc" (DriverEntry.cpp:112): when   *)
(* both threads exist, the DPC runs on both processors after the delay,    *)
(* even if line 114 has found the queues as it should.                     *)
BothRunning ==
  mainPc = "Poll" /\ ~ FlagStop /\ ~ stale /\ (\A t \in Threads : threadPc[t] # "none") =>
    Threads \subseteq spinning

(* Once FlagStop is set for good, every DPC, thread and DriverEntry end,   *)
(* although DPCs that missed the pulse before Test 2 keep their processor, *)
(* and the thread bound to it, to themselves until then.  (What a kernel   *)
(* with an object linked twice does is not to be told.)                    *)
EverythingStops ==
  <>[](\/ stale
       \/ /\ mainPc = "Returned"
          /\ linked = {} /\ spinning = {}
          /\ \A t \in Threads : threadPc[t] \in {"none", "Ended"})
=============================================================================
