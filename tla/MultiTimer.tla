----------------------------- MODULE MultiTimer -----------------------------
(***************************************************************************)
(* MultiTimerTest/DriverEntry.c: one DPC registers TIMER_COUNT periodic    *)
(* kernel timers, every timer's DPC logs a timestamp and re-arms its own   *)
(* timer, and the driver thread raises the stop flags, polls IsRunning     *)
(* until everything looks quiet, prints the logs and returns a failure     *)
(* status, upon which the I/O manager unmaps the image.                    *)
(*                                                                         *)
(* Three actors interleave: the driver thread, processor 0 (the target of  *)
(* every DPC here, so at most one DPC executes at a time) and the kernel's *)
(* timer table.  A step ends at each access to memory another actor reads. *)
(***************************************************************************)
EXTENDS Integers

CONSTANTS
  TIMER_COUNT,              \* number of timers
  LOG_SIZE,                 \* capacity of a timer's log buffer, in bytes
  LineSizes,                \* lengths a formatted log line can have
  DelayCoversRegistration   \* does the 20 s sleep outlast the registration?

ASSUME ConstantsOK ==
  /\ TIMER_COUNT \in Nat \ {0}
  /\ LOG_SIZE \in Nat \ {0}
  /\ LineSizes \subseteq Nat \ {0}
  /\ DelayCoversRegistration \in BOOLEAN

Timers == 0 .. TIMER_COUNT - 1
DpcReg == TIMER_COUNT       \* the registering DPC; timer DPCs are 0, 1, ...
Dpcs   == 0 .. TIMER_COUNT
NoDpc  == -1

VARIABLES
  \* the driver thread: DriverEntry, InitDPC, DeInitDPC
  mainPc, i, running,
  \* DPC_REG_CTX
  RegedDPC, RegIsRunning, RegStopFlag,
  \* TIMER_DPC_CTX of each timer
  IsRunning, StopFlag, LogSize,
  \* the kernel: timer table, DPC queue, what processor 0 executes and where
  armed, queued, cpu0, dpcPc

threadVars == <<mainPc, i, running>>
regVars    == <<RegedDPC, RegIsRunning, RegStopFlag>>
timerVars  == <<IsRunning, StopFlag, LogSize>>
kernelVars == <<armed, queued, cpu0, dpcPc>>
vars       == <<threadVars, regVars, timerVars, kernelVars>>

(* The thread is past its polling loop: it prints, cancels and returns.    *)
AfterWait == {"Dump", "Cancel", "Returned"}
Stopping  == {"StopReg", "StopTimers", "LoopTest", "Scan"}

ThreadLabels == {"InitDPC", "Delay"} \cup Stopping \cup AfterWait
DpcLabels    == {"Entry", "DoLog", "Rearm", "Cancel", "Decrement",
                 "SetTimer", "Advance", "Return"}

TypeOK ==
  /\ mainPc \in ThreadLabels
  /\ i \in 0 .. TIMER_COUNT
  /\ running \in 0 .. TIMER_COUNT
  /\ RegedDPC \in 0 .. TIMER_COUNT
  /\ RegIsRunning \in {0, 1}
  /\ RegStopFlag \in {0, 1}
  /\ IsRunning \in [Timers -> {0, 1}]
  /\ StopFlag \in [Timers -> {0, 1}]
  /\ LogSize \in [Timers -> 0 .. LOG_SIZE]
  /\ armed \subseteq Timers
  /\ queued \subseteq Dpcs
  /\ cpu0 \in Dpcs \cup {NoDpc}
  /\ dpcPc \in DpcLabels

Init ==
  /\ mainPc = "InitDPC" /\ i = 0 /\ running = TIMER_COUNT
  /\ RegedDPC = 0 /\ RegIsRunning = 0 /\ RegStopFlag = 0
  /\ IsRunning = [t \in Timers |-> 0]
  /\ StopFlag = [t \in Timers |-> 0]
  /\ LogSize = [t \in Timers |-> 0]
  /\ armed = {} /\ queued = {} /\ cpu0 = NoDpc /\ dpcPc = "Entry"

-----------------------------------------------------------------------------
(* The kernel.                                                             *)

(* KeInsertQueueDpc: a DPC object is in the queue at most once.            *)
KeInsertQueueDpc(d) == queued' = queued \cup {d}

KeSetTimer(t)    == armed' = armed \cup {t}
KeCancelTimer(t) == armed' = armed \ {t}   \* a DPC already queued stays

(* A timer's due time has passed: the kernel queues its DPC.               *)
TimerExpires(t) ==
  /\ t \in armed
  /\ armed' = armed \ {t}
  /\ KeInsertQueueDpc(t)
  /\ UNCHANGED <<threadVars, regVars, timerVars, cpu0, dpcPc>>

(* Processor 0 is free and takes a DPC, in any order.                      *)
DispatchDpc(d) ==
  /\ cpu0 = NoDpc
  /\ d \in queued
  /\ queued' = queued \ {d}
  /\ cpu0' = d
  /\ dpcPc' = "Entry"
  /\ UNCHANGED <<threadVars, regVars, timerVars, armed>>

(* The routine executes its last instruction, inside the driver's image.   *)
DpcReturns ==
  /\ cpu0 # NoDpc
  /\ dpcPc = "Return"
  /\ cpu0' = NoDpc
  /\ UNCHANGED <<threadVars, regVars, timerVars, armed, queued, dpcPc>>

InDpc(d, label) == cpu0 = d /\ dpcPc = label
DpcGoto(label)  == dpcPc' = label /\ UNCHANGED cpu0

-----------------------------------------------------------------------------
(* TimerFunction, the DPC of timer t.                                      *)

TimerFunction(t) ==
  /\ InDpc(t, "Entry")
  /\ DpcGoto(IF StopFlag[t] = 0 THEN "DoLog" ELSE "Cancel")
  /\ UNCHANGED <<threadVars, regVars, timerVars, armed, queued>>

(* A line that does not fit is dropped and ends the timer.                 *)
DoLog(t) ==
  /\ InDpc(t, "DoLog")
  /\ \E size \in LineSizes :
       IF LogSize[t] + size < LOG_SIZE - 1
       THEN /\ LogSize' = [LogSize EXCEPT ![t] = @ + size]
            /\ DpcGoto("Rearm")
       ELSE /\ UNCHANGED LogSize
            /\ DpcGoto("Cancel")
  /\ UNCHANGED <<threadVars, regVars, IsRunning, StopFlag, armed, queued>>

TimerRearm(t) ==
  /\ InDpc(t, "Rearm")
  /\ KeSetTimer(t)
  /\ DpcGoto("Return")
  /\ UNCHANGED <<threadVars, regVars, timerVars, queued>>

AfterCancelReturn == "Return"      \* Slip: no decrement on the stopping path
AfterCancel       == "Decrement"

TimerCancel(t) ==
  /\ InDpc(t, "Cancel")
  /\ KeCancelTimer(t)
  /\ DpcGoto(AfterCancel)
  /\ UNCHANGED <<threadVars, regVars, timerVars, queued>>

(* The last access of a stopping timer to the driver's data.               *)
TimerDecrement(t) ==
  /\ InDpc(t, "Decrement")
  /\ IsRunning' = [IsRunning EXCEPT ![t] = @ - 1]
  /\ DpcGoto("Return")
  /\ UNCHANGED <<threadVars, regVars, StopFlag, LogSize, armed, queued>>

-----------------------------------------------------------------------------
(* Slip: the registering DPC is counted before it is done with the timers. *)
RegFunctionEndsEarly ==
  /\ InDpc(DpcReg, "Entry")
  /\ IsRunning' = [IsRunning EXCEPT ![RegedDPC] = @ + 1]
  /\ RegIsRunning' = 0
  /\ DpcGoto("SetTimer")
  /\ UNCHANGED <<threadVars, RegedDPC, RegStopFlag, StopFlag, LogSize,
                 armed, queued>>

(* RegFunction, which registers one timer per execution.  It never looks   *)
(* at its own StopFlag.                                                    *)

RegFunction ==
  /\ InDpc(DpcReg, "Entry")
  /\ IF RegedDPC >= TIMER_COUNT
     THEN /\ RegIsRunning' = 0
          /\ DpcGoto("Return")
          /\ UNCHANGED IsRunning
     ELSE /\ IsRunning' = [IsRunning EXCEPT ![RegedDPC] = @ + 1]
          /\ DpcGoto("SetTimer")
          /\ UNCHANGED RegIsRunning
  /\ UNCHANGED <<threadVars, RegedDPC, RegStopFlag, StopFlag, LogSize,
                 armed, queued>>

RegSetTimer ==
  /\ InDpc(DpcReg, "SetTimer")
  /\ KeSetTimer(RegedDPC)
  /\ DpcGoto("Advance")
  /\ UNCHANGED <<threadVars, regVars, timerVars, queued>>

(* Queue itself for the next timer, or report that the work is over.       *)
RegAdvance ==
  /\ InDpc(DpcReg, "Advance")
  /\ RegedDPC' = RegedDPC + 1
  /\ IF RegedDPC' < TIMER_COUNT
     THEN KeInsertQueueDpc(DpcReg) /\ UNCHANGED RegIsRunning
     ELSE RegIsRunning' = 0 /\ UNCHANGED queued
  /\ DpcGoto("Return")
  /\ UNCHANGED <<threadVars, RegStopFlag, timerVars, armed>>

-----------------------------------------------------------------------------
(* The driver thread.                                                      *)

Goto(from, to) == mainPc = from /\ mainPc' = to

(* Nothing runs before the insertion, so InitDPC is one step.              *)
InitDPC ==
  /\ Goto("InitDPC", "Delay")
  /\ RegIsRunning' = 1
  /\ KeInsertQueueDpc(DpcReg)
  /\ UNCHANGED <<i, running, RegedDPC, RegStopFlag, timerVars,
                 armed, cpu0, dpcPc>>

(* DriverEntry sleeps 20 s; registering takes well under a second unless   *)
(* processor 0 is held back.                                               *)
DelayEnds ==
  /\ Goto("Delay", "StopReg")
  /\ DelayCoversRegistration => RegIsRunning = 0
  /\ UNCHANGED <<i, running, regVars, timerVars, kernelVars>>

StopReg ==
  /\ Goto("StopReg", "StopTimers")
  /\ RegStopFlag' = RegStopFlag + 1
  /\ i' = 0
  /\ UNCHANGED <<running, RegedDPC, RegIsRunning, timerVars, kernelVars>>

StopTimers ==
  /\ Goto("StopTimers", IF i + 1 < TIMER_COUNT THEN "StopTimers"
                                               ELSE "LoopTest")
  /\ StopFlag' = [StopFlag EXCEPT ![i] = @ + 1]
  /\ i' = i + 1
  /\ running' = TIMER_COUNT
  /\ UNCHANGED <<regVars, IsRunning, LogSize, kernelVars>>

StillRunningAnd  == running > 0 /\ RegIsRunning > 0   \* Slip: && for ||
StillRunningStop == running > 0 \/ RegStopFlag > 0    \* Slip: never lowered
StillRunning     == running > 0 \/ RegIsRunning > 0

NoReset == running       \* Slip: running keeps its value
Reset   == TIMER_COUNT

LoopTest ==
  /\ IF StillRunning
     THEN Goto("LoopTest", "Scan") /\ running' = Reset
     ELSE Goto("LoopTest", "Dump") /\ UNCHANGED running
  /\ i' = 0
  /\ UNCHANGED <<regVars, timerVars, kernelVars>>

AnyTimer == TRUE               \* Slip: every timer is counted as stopped
Stopped  == IsRunning[i] = 0

(* One IsRunning per step.  The pause at the end of a round is given a     *)
(* positive, hence absolute and long past, time: it does not wait.         *)
Scan ==
  /\ Goto("Scan", IF i + 1 < TIMER_COUNT THEN "Scan" ELSE "LoopTest")
  /\ running' = IF Stopped THEN running - 1 ELSE running
  /\ i' = i + 1
  /\ UNCHANGED <<regVars, timerVars, kernelVars>>

Dump ==
  /\ Goto("Dump", "Cancel")
  /\ i' = 0
  /\ UNCHANGED <<running, regVars, timerVars, kernelVars>>

(* Cancel every timer; after the last one DriverEntry fails and the image  *)
(* is unmapped.                                                            *)
CancelTimers ==
  /\ Goto("Cancel", IF i + 1 < TIMER_COUNT THEN "Cancel" ELSE "Returned")
  /\ KeCancelTimer(i)
  /\ i' = i + 1
  /\ UNCHANGED <<running, regVars, timerVars, queued, cpu0, dpcPc>>

-----------------------------------------------------------------------------
Thread ==
  \/ InitDPC \/ DelayEnds \/ StopReg \/ StopTimers
  \/ LoopTest \/ Scan \/ Dump \/ CancelTimers

TimerDpc(t) ==
  \/ TimerFunction(t) \/ DoLog(t) \/ TimerRearm(t)
  \/ TimerCancel(t) \/ TimerDecrement(t)

RegDpc == RegFunction \/ RegSetTimer \/ RegAdvance

Processor0 ==
  \/ \E d \in Dpcs : DispatchDpc(d)
  \/ \E t \in Timers : TimerDpc(t)
  \/ RegDpc
  \/ DpcReturns

Next ==
  \/ Thread
  \/ Processor0
  \/ \E t \in Timers : TimerExpires(t)

Spec == Init /\ [][Next]_vars

(* The scheduler runs a ready thread, processor 0 drains its DPC queue,    *)
(* and an armed timer expires.                                             *)
FairSpec ==
  /\ Spec
  /\ WF_vars(Thread)
  /\ WF_vars(Processor0)
  /\ \A t \in Timers : WF_vars(TimerExpires(t))

-----------------------------------------------------------------------------
(* Timer t may still execute driver code that touches the driver's data:   *)
(* it is in the timer table, in the DPC queue, in the middle of its DPC,   *)
(* or about to be set by RegFunction.                                      *)
Alive(t) ==
  \/ t \in armed
  \/ t \in queued
  \/ cpu0 = t /\ dpcPc # "Return"
  \/ InDpc(DpcReg, "SetTimer") /\ t = RegedDPC

RegAlive ==
  \/ DpcReg \in queued
  \/ cpu0 = DpcReg /\ dpcPc # "Return"

(* The counters DeInitDPC polls tell the truth until its last loop cancels *)
(* timers without touching them: IsRunning is 1 exactly while the timer is *)
(* alive, through TimerFunction's re-arm, its two ways to end and          *)
(* RegFunction's increment-then-set alike, and RegCtx.IsRunning is 1       *)
(* exactly while RegFunction has work left.                                *)
Accounting ==
  /\ \A t \in Timers :
       /\ Alive(t) => IsRunning[t] = 1
       /\ IsRunning[t] = 1 => Alive(t) \/ mainPc \in {"Cancel", "Returned"}
  /\ RegIsRunning = 1 <=> RegAlive

(* The purpose of the polling loop, "wait all timer stopped to prevent     *)
(* BSoD" (DriverEntry.c:216): behind it no timer is alive.                 *)
StoppedAfterWait ==
  mainPc \in AfterWait => \A t \in Timers : ~ Alive(t)

(* "to prevent BSoD", taken to the end: once DriverEntry has returned and  *)
(* the image is unmapped, processor 0 executes none of its instructions.   *)
NoCodeAfterUnload ==
  mainPc = "Returned" => cpu0 = NoDpc /\ queued = {}

(* DeInitDPC prints each log buffer once, after its wait: no DPC writes a  *)
(* log from the end of the wait on.                                        *)
LogsFrozenAfterWait ==
  [][(mainPc \in AfterWait) => UNCHANGED LogSize]_vars

(* DriverEntry returns: every timer notices its StopFlag or fills its log, *)
(* decrements, and the polling loop sees a round of zeros.                 *)
DriverEntryReturns == <>(mainPc = "Returned")

-----------------------------------------------------------------------------
(* The contract this design is meant to keep.                              *)
Fleet == INSTANCE TimerFleet WITH
  phase <- IF mainPc \in AfterWait THEN "done"
           ELSE IF mainPc \in Stopping THEN "stopping" ELSE "working",
  fleet <- [t \in Timers |-> IF IsRunning[t] = 1 THEN "live"
                             ELSE IF t < RegedDPC THEN "stopped" ELSE "idle"],
  log <- LogSize

ImplementsFleet == Fleet!Spec
=============================================================================
