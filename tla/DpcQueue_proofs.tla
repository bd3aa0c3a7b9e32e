---------------------------- MODULE DpcQueue_proofs ----------------------------
(***************************************************************************)
(* Proofs about the DPC inserted again and again, for any processors and   *)
(* any sequence of targets.  Nothing is assumed of time: the pulse may be  *)
(* missed, and line 114 may find the object queued.                        *)
(***************************************************************************)
EXTENDS DpcQueue, FiniteSetTheorems, TLAPS

-----------------------------------------------------------------------------
(* The inductive invariant, in named parts.                                *)

(* The object is in no queue or in one, and knows which of the two, if it  *)
(* has not been initialised while queued.                                  *)
InOneQueue ==
  ~ stale =>
    /\ linked = {} \/ \E c \in CPUs : linked = {c}
    /\ DpcData <=> linked # {}

(* Nothing is inserted before the first KeInitializeDpc, by the threads    *)
(* nothing before the second, and only that one can come at a bad time.    *)
NotYet ==
  /\ mainPc = "Init" => linked = {}
  /\ mainPc \in {"Init", "SetTarget", "Insert", "RaiseFlag", "LowerFlag", "InitTest2"} =>
       ~ stale
  /\ mainPc \in {"Init", "SetTarget", "Insert", "RaiseFlag", "LowerFlag", "InitTest2",
                  "Create1"} =>
       \A t \in Threads : threadPc[t] = "none"

IInv == TypeOK /\ InOneQueue /\ NotYet

-----------------------------------------------------------------------------
(* At first the object is in no queue and there are no threads.            *)
LEMMA InitIInv == Init => IInv
<1> SUFFICES ASSUME Init
             PROVE  IInv
  OBVIOUS
<1>1. FlagStop \in BOOLEAN /\ DpcData \in BOOLEAN /\ stale \in BOOLEAN
  BY Zenon DEF Init
<1>2. TypeOK
  BY <1>1, ConstantsOK DEF Init, TypeOK
<1>3. InOneQueue /\ NotYet
  BY DEF Init, InOneQueue, NotYet
<1>4. QED
  BY <1>2, <1>3 DEF IInv

(* Initialising the object is right if no queue holds it, and keeps the    *)
(* types in any case.                                                      *)
LEMMA Initialising ==
  ASSUME IInv, KeInitializeDpc
  PROVE  /\ target' \in CPUs \cup {Current} /\ DpcData' \in BOOLEAN
         /\ linked' = linked /\ linked' \subseteq CPUs /\ spinning' \subseteq CPUs
         /\ linked = {} => InOneQueue'
  BY DEF KeInitializeDpc, IInv, TypeOK, InOneQueue

(* Inserting it puts it into a queue only if it is in none.                *)
LEMMA Inserting ==
  ASSUME IInv, NEW cpu \in CPUs, KeInsertQueueDpc(cpu), stale' = stale
  PROVE  /\ target' \in CPUs \cup {Current} /\ DpcData' \in BOOLEAN
         /\ linked' \subseteq CPUs /\ spinning' \subseteq CPUs
         /\ InOneQueue'
<1>1. /\ target' \in CPUs \cup {Current} /\ DpcData' \in BOOLEAN
      /\ linked' \subseteq CPUs /\ spinning' \subseteq CPUs
  BY DEF KeInsertQueueDpc, IInv, TypeOK
<1>2. CASE stale
  BY <1>1, <1>2 DEF InOneQueue
<1>3. CASE ~ stale /\ DpcData
  BY <1>1, <1>3 DEF KeInsertQueueDpc, IInv, InOneQueue
<1>4. CASE ~ stale /\ ~ DpcData
  <2>1. PICK c \in CPUs : linked' = {c}
    BY <1>4 DEF KeInsertQueueDpc, IInv, TypeOK, InOneQueue
  <2>2. QED
    BY <1>1, <2>1 DEF KeInsertQueueDpc, InOneQueue
<1>5. QED
  BY <1>1, <1>2, <1>3, <1>4

-----------------------------------------------------------------------------
(* A step of DriverEntry keeps the invariant: it initialises the object    *)
(* with nothing queued yet, and again with the object queued only if that  *)
(* is remembered.                                                          *)
LEMMA EntryStep ==
  ASSUME IInv, DriverEntry
  PROVE  IInv'
<1> USE DEF IInv, TypeOK, NotYet, Goto
<1>1. CASE InitTest1
  BY <1>1, Initialising DEF InitTest1
<1>2. CASE KeSetTargetProcessorDpcEx
  <2>1. Targets[k] \in CPUs
    BY ConstantsOK
  <2>2. QED
    BY <1>2, <2>1 DEF KeSetTargetProcessorDpcEx, InOneQueue
<1>3. CASE Insert
  <2>1. Len(Targets) \in Nat /\ 0 \in CPUs
    BY ConstantsOK
  <2>2. k' \in 1 .. Len(Targets)
    BY <1>3, <2>1 DEF Insert, More
  <2>3. QED
    BY <1>3, <2>1, <2>2, Inserting DEF Insert
<1>4. CASE RaiseFlag
  BY <1>4 DEF RaiseFlag, dpcVars, InOneQueue
<1>5. CASE LowerFlag \/ InitTest2
  <2>1. CASE LowerFlag
    BY <2>1 DEF LowerFlag, dpcVars, InOneQueue
  <2>2. CASE InitTest2 /\ linked = {}
    BY <2>2, Initialising DEF InitTest2
  <2>3. CASE InitTest2 /\ linked # {}
    BY <2>3, Initialising DEF InitTest2, InOneQueue
  <2>4. QED
    BY <1>5, <2>1, <2>2, <2>3
<1>6. ASSUME NEW t \in Threads, CreateThread(t)
      PROVE  IInv'
  BY <1>6 DEF CreateThread, dpcVars, Threads, InOneQueue
<1>7. CASE DelayEnds \/ Poll \/ DriverEntryFails
  BY <1>7 DEF DelayEnds, Poll, DriverEntryFails, dpcVars, InOneQueue
<1>8. QED
  BY <1>1, <1>2, <1>3, <1>4, <1>5, <1>6, <1>7 DEF DriverEntry

(* So does a step of a thread, which inserts for its own processor.        *)
LEMMA ThreadStep ==
  ASSUME IInv, NEW t \in Threads, TestThread(t)
  PROVE  IInv'
<1> USE DEF IInv, TypeOK, NotYet
<1>1. CASE ThreadInserts(t)
  <2>1. t \in CPUs
    BY ConstantsOK
  <2>2. QED
    BY <1>1, <2>1, Inserting DEF ThreadInserts
<1>2. CASE ThreadEnds(t)
  BY <1>2 DEF ThreadEnds, dpcVars, InOneQueue
<1>3. QED
  BY <1>1, <1>2 DEF TestThread

(* And one of a processor, which takes the object out of the one queue, if *)
(* there is one only.                                                      *)
LEMMA CpuStep ==
  ASSUME IInv, NEW c \in CPUs, Cpu(c)
  PROVE  IInv'
<1> USE DEF IInv, TypeOK, NotYet, InOneQueue
<1>1. CASE DispatchDpc(c)
  <2>1. ~ stale => linked = {c}
    BY <1>1 DEF DispatchDpc
  <2>2. ~ stale => linked' = {}
    BY <1>1, <2>1 DEF DispatchDpc
  <2>3. QED
    BY <1>1, <2>2 DEF DispatchDpc, threadVars
<1>2. CASE TestFunction(c)
  BY <1>2 DEF TestFunction, threadVars
<1>3. QED
  BY <1>1, <1>2 DEF Cpu

(* IInv is inductive.                                                      *)
LEMMA NextIInv == IInv /\ [Next]_vars => IInv'
<1> SUFFICES ASSUME IInv, [Next]_vars
             PROVE  IInv'
  OBVIOUS
<1>1. CASE UNCHANGED vars
  BY <1>1 DEF vars, threadVars, dpcVars, IInv, TypeOK, InOneQueue, NotYet
<1>2. CASE DebuggerSetsFlagStop
  BY <1>2 DEF DebuggerSetsFlagStop, dpcVars, IInv, TypeOK, InOneQueue, NotYet
<1>3. QED
  BY <1>1, <1>2, EntryStep, ThreadStep, CpuStep DEF Next

(* IInv holds throughout, fairness or not.                                 *)
LEMMA Invariance == Spec => []IInv
  BY InitIInv, NextIInv, PTL DEF Spec

-----------------------------------------------------------------------------
(* Every variable keeps its type; in particular the target is always a     *)
(* processor, or the inserting one.                                        *)
THEOREM TypeCorrect == Spec => []TypeOK
<1>1. IInv => TypeOK
  BY DEF IInv
<1>2. QED
  BY <1>1, Invariance, PTL

(* No two queues ever hold the object, and it takes itself for queued      *)
(* exactly when one does, if line 114 has not initialised it while queued. *)
THEOREM OnlyInitLinksTwice == Spec => []LinkedOnce
<1>1. ASSUME IInv
      PROVE  LinkedOnce
  <2>1. ~ stale => Cardinality(linked) \in {0, 1}
    BY <1>1, FS_EmptySet, FS_Singleton DEF IInv, InOneQueue
  <2>2. QED
    BY <1>1, <2>1 DEF IInv, InOneQueue, LinkedOnce
<1>2. QED
  BY <1>1, Invariance, PTL

-----------------------------------------------------------------------------
(* What remains true where BothRunning fails: one of the two insertions    *)
(* may be refused, but not both.                                           *)

(* Test 2, until somebody ends it: the object is inserted by the threads   *)
(* alone, each for its own processor, and by one of them once a thread has *)
(* come to its insertion.  After the delay nothing is left to happen.      *)
SecondTest ==
  /\ mainPc \in {"LowerFlag", "InitTest2", "Create1", "Create2", "Delay"} =>
       (FlagStop <=> mainPc = "LowerFlag")
  /\ mainPc \in {"Create1", "Create2", "Delay", "Poll"} /\ ~ FlagStop /\ ~ stale =>
       /\ target = Current /\ linked \subseteq Threads
       /\ \A t \in Threads : threadPc[t] # "Ended"
       /\ \A t \in Threads : threadPc[t] = "Poll" =>
            \E u \in Threads : u \in linked \cup spinning
       /\ mainPc = "Poll" =>
            /\ \A t \in Threads : threadPc[t] = "Insert" => t \in spinning
            /\ linked \subseteq spinning

(* After the delay, if a thread was created at all, the DPC is running on  *)
(* one of the two processors at least.                                     *)
OneRunning ==
  mainPc = "Poll" /\ ~ FlagStop /\ ~ stale /\ (\E t \in Threads : threadPc[t] # "none") =>
    \E t \in Threads : t \in spinning

(* SecondTest is about what comes after the pulse.                         *)
LEMMA InitSecondTest == Init => SecondTest
  BY DEF Init, SecondTest

(* A thread's insertion is accepted unless the object is already queued,   *)
(* by the other thread.                                                    *)
LEMMA ThreadKeepsSecondTest ==
  ASSUME IInv, SecondTest, NEW t \in Threads, TestThread(t)
  PROVE  SecondTest'
<1> USE DEF SecondTest, IInv, TypeOK
<1>1. CASE ThreadInserts(t)
  <2>1. /\ threadPc[t] = "Insert" /\ t \notin spinning
        /\ threadPc' = [threadPc EXCEPT ![t] = "Poll"]
        /\ UNCHANGED <<mainPc, FlagStop, stale, target, spinning>>
    BY <1>1 DEF ThreadInserts, KeInsertQueueDpc
  <2>2. ASSUME ~ stale, target = Current, linked \subseteq Threads
        PROVE  linked' \subseteq Threads /\ \E u \in Threads : u \in linked'
    BY <1>1, <2>2 DEF ThreadInserts, KeInsertQueueDpc, InOneQueue
  <2>3. CASE FlagStop \/ stale
    BY <2>1, <2>3
  <2>4. CASE ~ FlagStop /\ ~ stale
    BY <2>1, <2>2, <2>4
  <2>5. QED
    BY <2>3, <2>4
<1>2. CASE ThreadEnds(t)
  BY <1>2 DEF ThreadEnds
<1>3. QED
  BY <1>1, <1>2 DEF TestThread

(* SecondTest is inductive, given IInv: what a processor takes off its     *)
(* queue it spins on, until FlagStop.                                      *)
LEMMA NextSecondTest ==
  ASSUME IInv, SecondTest, [Next]_vars
  PROVE  SecondTest'
<1>1. CASE UNCHANGED vars
  BY <1>1 DEF vars, threadVars, dpcVars, SecondTest
<1>2. CASE \E t \in Threads : TestThread(t)
  BY <1>2, ThreadKeepsSecondTest
<1>3. ASSUME NEW c \in CPUs, Cpu(c)
      PROVE  SecondTest'
  <2>1. CASE DispatchDpc(c)
    BY <2>1 DEF DispatchDpc, threadVars, SecondTest
  <2>2. CASE TestFunction(c)
    BY <2>2 DEF TestFunction, Raised, threadVars, SecondTest
  <2>3. QED
    BY <1>3, <2>1, <2>2 DEF Cpu
<1>4. CASE DebuggerSetsFlagStop
  BY <1>4 DEF DebuggerSetsFlagStop, dpcVars, SecondTest
<1>5. CASE DriverEntry
  <2> USE DEF Goto, SecondTest
  <2>1. CASE InitTest1 \/ KeSetTargetProcessorDpcEx \/ Insert
    BY <2>1 DEF InitTest1, KeSetTargetProcessorDpcEx, Insert
  <2>2. CASE RaiseFlag
    BY <2>2 DEF RaiseFlag
  <2>3. CASE LowerFlag
    BY <2>3 DEF LowerFlag
  <2>4. CASE \E t \in Threads : CreateThread(t)
    BY <2>4 DEF CreateThread, dpcVars, IInv, TypeOK
  <2>5. CASE DelayEnds
    BY <2>5 DEF DelayEnds, dpcVars
  <2>6. CASE Poll \/ DriverEntryFails
    BY <2>6 DEF Poll, DriverEntryFails, dpcVars
  <2>7. CASE InitTest2
    <3>1. \A t \in Threads : threadPc'[t] = "none"
      BY <2>7 DEF InitTest2, IInv, NotYet
    <3>2. ~ stale' => target' = Current /\ linked' = {}
      BY <2>7 DEF InitTest2, KeInitializeDpc
    <3>3. ~ FlagStop' /\ mainPc' = "Create1"
      BY <2>7 DEF InitTest2
    <3>4. QED
      BY <3>1, <3>2, <3>3
  <2>8. QED
    BY <1>5, <2>1, <2>2, <2>3, <2>4, <2>5, <2>6, <2>7 DEF DriverEntry
<1>6. QED
  BY <1>1, <1>2, <1>3, <1>4, <1>5 DEF Next

(* Of two insertions at the same time one is accepted: the test meets the  *)
(* DPC on one processor at least, whichever threads could be created.      *)
THEOREM OneIsRunning == Spec => []OneRunning
<1>1. Spec => [](IInv /\ SecondTest)
  BY InitIInv, NextIInv, InitSecondTest, NextSecondTest, PTL DEF Spec
<1>2. IInv /\ SecondTest => OneRunning
  BY DEF IInv, TypeOK, SecondTest, OneRunning
<1>3. QED
  BY <1>1, <1>2, PTL
=============================================================================
