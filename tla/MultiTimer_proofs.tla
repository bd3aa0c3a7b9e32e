------------------------- MODULE MultiTimer_proofs -------------------------
(***************************************************************************)
(* Proofs about MultiTimer, for any number of timers, any log capacity and *)
(* any line lengths: the types, the truth of the polled counters, and,     *)
(* when the registration is over before the stop begins, the quiescence    *)
(* after the polling loop and the TimerFleet contract; and what remains of *)
(* both when it is not, and when DriverEntry has returned.                 *)
(***************************************************************************)
EXTENDS MultiTimer, TLAPS

-----------------------------------------------------------------------------
(* The inductive invariant, in named parts.                                *)

(* Which labels belong to which routine.                                   *)
Labels ==
  /\ cpu0 \in Timers => dpcPc \notin {"SetTimer", "Advance"}
  /\ cpu0 = DpcReg => dpcPc \in {"Entry", "SetTimer", "Advance", "Return"}

(* Nothing exists before InitDPC.                                          *)
Untouched ==
  mainPc = "InitDPC" =>
    RegedDPC = 0 /\ RegIsRunning = 0 /\ armed = {} /\ queued = {} /\ cpu0 = NoDpc

(* Loop variables, and the stop flags not raised yet.                      *)
Loops ==
  /\ mainPc \in {"StopTimers", "Scan", "Cancel"} => i < TIMER_COUNT
  /\ mainPc \in {"InitDPC", "Delay", "StopReg"} =>
       RegStopFlag = 0 /\ \A t \in Timers : StopFlag[t] = 0
  /\ mainPc = "StopTimers" => \A t \in Timers : t >= i => StopFlag[t] = 0
  /\ mainPc = "Scan" => running >= TIMER_COUNT - i

(* RegFunction has begun with timer RegedDPC and not moved on yet.         *)
Registering == cpu0 = DpcReg /\ dpcPc \in {"SetTimer", "Advance"}

Fresh(t) == t > RegedDPC \/ (t = RegedDPC /\ ~ Registering)

(* Timers RegFunction has not come to are untouched.                       *)
FreshTimers ==
  \A t \in Timers : Fresh(t) =>
    IsRunning[t] = 0 /\ t \notin armed /\ t \notin queued /\ cpu0 # t

(* A timer is in one place only, until its DPC is about to return.         *)
OnePlace ==
  /\ armed \cap queued = {}
  /\ cpu0 # NoDpc /\ dpcPc # "Return" => cpu0 \notin armed \cup queued
  /\ InDpc(DpcReg, "SetTimer") => RegedDPC \notin armed \cup queued

(* The registration's progress, its counter and its DPC agree.             *)
Registration ==
  /\ Registering => RegedDPC < TIMER_COUNT /\ IsRunning[RegedDPC] = 1
  /\ RegIsRunning = 0 /\ mainPc # "InitDPC" => RegedDPC = TIMER_COUNT

IInv ==
  /\ TypeOK /\ Labels /\ Untouched /\ Loops
  /\ FreshTimers /\ OnePlace /\ Registration /\ Accounting

(* Unconditionally: which stop flags are raised, and that the polling loop *)
(* does not end before the registration.                                   *)
Told ==
  /\ mainPc = "StopTimers" => \A t \in Timers : t < i => StopFlag[t] = 1
  /\ mainPc \in {"LoopTest", "Scan"} \cup AfterWait =>
       \A t \in Timers : StopFlag[t] = 1
  /\ mainPc \in AfterWait => RegIsRunning = 0

(* What the polling loop knows, when no registration can disturb it.       *)
Settled ==
  /\ mainPc \notin {"InitDPC", "Delay"} => RegIsRunning = 0
  /\ mainPc = "Scan" /\ running = TIMER_COUNT - i =>
       \A t \in Timers : t < i => IsRunning[t] = 0
  /\ mainPc = "LoopTest" /\ running = 0 => \A t \in Timers : IsRunning[t] = 0
  /\ mainPc \in AfterWait => \A t \in Timers : IsRunning[t] = 0

-----------------------------------------------------------------------------
(* The driver as it is loaded: no timer registered, no flag raised.        *)
LEMMA InitIInv == Init => IInv
  BY ConstantsOK
  DEF Init, IInv, TypeOK, Labels, Untouched, Loops, FreshTimers, Fresh,
      OnePlace, Registration, Registering, Accounting, Alive, RegAlive, InDpc,
      Timers, Dpcs, DpcReg, NoDpc, ThreadLabels, Stopping, AfterWait, DpcLabels

(* RegFunction's last step moves RegedDPC, on which most parts depend.     *)
LEMMA RegAdvanceIInv ==
  ASSUME IInv, RegAdvance
  PROVE  IInv'
<1> USE ConstantsOK DEF IInv
<1> DEFINE More == /\ RegedDPC' < TIMER_COUNT
                   /\ queued' = queued \cup {DpcReg}
                   /\ RegIsRunning' = RegIsRunning
           Over == /\ RegedDPC' = TIMER_COUNT
                   /\ queued' = queued
                   /\ RegIsRunning' = 0
<1>1. /\ cpu0 = DpcReg /\ dpcPc = "Advance"
      /\ cpu0' = cpu0 /\ dpcPc' = "Return"
      /\ RegedDPC' = RegedDPC + 1
      /\ armed' = armed /\ RegStopFlag' = RegStopFlag
      /\ mainPc' = mainPc /\ i' = i /\ running' = running
      /\ IsRunning' = IsRunning /\ StopFlag' = StopFlag /\ LogSize' = LogSize
  BY DEF RegAdvance, InDpc, DpcGoto, threadVars, timerVars
<1>2. /\ TIMER_COUNT \in Nat \ {0}
      /\ RegedDPC \in 0 .. TIMER_COUNT - 1 /\ IsRunning[RegedDPC] = 1
      /\ RegIsRunning \in {0, 1}
  BY <1>1 DEF Registration, Registering, TypeOK
<1>3. RegedDPC' \in 1 .. TIMER_COUNT
  BY <1>1, <1>2
<1>4. More \/ Over
  BY <1>3, <1>2 DEF RegAdvance, KeInsertQueueDpc
<1>5. DpcReg \notin Timers /\ NoDpc \notin Dpcs /\ DpcReg \in Dpcs
  BY <1>2 DEF DpcReg, Timers, NoDpc, Dpcs
<1>6. mainPc # "InitDPC"
  BY <1>1, <1>5 DEF Untouched
<1> HIDE DEF More, Over
<1>7. TypeOK'
  <2>1. queued' \subseteq Dpcs /\ RegIsRunning' \in {0, 1}
    BY <1>4, <1>5 DEF TypeOK, More, Over
  <2>2. dpcPc' \in DpcLabels
    BY <1>1 DEF DpcLabels
  <2>3. RegedDPC' \in 0 .. TIMER_COUNT
    BY <1>3
  <2>4. QED
    BY <1>1, <2>1, <2>2, <2>3 DEF TypeOK
<1>8. (Labels /\ Untouched /\ Loops)'
  BY <1>1, <1>5, <1>6 DEF Labels, Untouched, Loops
<1>9. FreshTimers'
  <2> SUFFICES ASSUME NEW t \in Timers, Fresh(t)'
               PROVE  /\ IsRunning[t] = 0 /\ t \notin armed
                      /\ t \notin queued' /\ cpu0' # t
    BY <1>1 DEF FreshTimers
  <2>1. Fresh(t)
    BY <1>1, <1>2 DEF Fresh, Registering, Timers
  <2>2. QED
    BY <2>1, <1>1, <1>4, <1>5 DEF FreshTimers, More, Over
<1>10. OnePlace'
  BY <1>1, <1>4, <1>5 DEF OnePlace, More, Over, TypeOK, InDpc
<1>11. Registration'
  BY <1>1, <1>4, <1>6, <1>2, <1>3 DEF Registration, Registering, More, Over
<1>12. Accounting'
  <2>1. \A t \in Timers : Alive(t)' <=> Alive(t)
    BY <1>1, <1>4, <1>5 DEF Alive, InDpc, More, Over
  <2>2. (RegIsRunning = 1 <=> RegAlive)'
    <3>1. RegIsRunning = 1
      BY <1>1 DEF Accounting, RegAlive
    <3>2. DpcReg \notin queued
      BY <1>1, <1>5 DEF OnePlace, NoDpc, Dpcs
    <3>3. QED
      BY <1>1, <1>4, <3>1, <3>2 DEF RegAlive, More, Over
  <2>3. QED
    BY <1>1, <2>1, <2>2 DEF Accounting
<1>13. QED
  BY <1>7, <1>8, <1>9, <1>10, <1>11, <1>12

(* No step of thread, DPCs or timer table breaks the invariant.            *)
LEMMA NextIInv == IInv /\ [Next]_vars => IInv'
<1> SUFFICES ASSUME IInv, [Next]_vars
             PROVE  IInv'
  OBVIOUS
<1> USE ConstantsOK
    DEF IInv, TypeOK, Labels, Untouched, Loops, FreshTimers, Fresh, OnePlace,
        Registration, Registering, Accounting, Alive, RegAlive, InDpc,
        Timers, Dpcs, DpcReg, NoDpc, ThreadLabels, Stopping, AfterWait,
        DpcLabels, threadVars, regVars, timerVars, kernelVars,
        KeInsertQueueDpc, KeSetTimer, KeCancelTimer, DpcGoto, Goto
<1>1. CASE InitDPC
  BY <1>1 DEF InitDPC
<1>2. CASE DelayEnds
  BY <1>2 DEF DelayEnds
<1>3. CASE StopReg
  BY <1>3 DEF StopReg
<1>4. CASE StopTimers
  BY <1>4 DEF StopTimers
<1>5. CASE LoopTest
  BY <1>5 DEF LoopTest, StillRunning, Reset
<1>6. CASE Scan
  BY <1>6 DEF Scan, Stopped
<1>7. CASE Dump
  BY <1>7 DEF Dump
<1>8. CASE CancelTimers
  BY <1>8 DEF CancelTimers
<1>9. ASSUME NEW d \in Dpcs, DispatchDpc(d)
       PROVE  IInv'
  BY <1>9 DEF DispatchDpc
<1>10. CASE DpcReturns
  BY <1>10 DEF DpcReturns
<1>11. ASSUME NEW t \in Timers, TimerFunction(t)
       PROVE  IInv'
  BY <1>11 DEF TimerFunction
<1>12. ASSUME NEW t \in Timers, DoLog(t)
       PROVE  IInv'
  <2>1. PICK size \in LineSizes :
          \/ /\ LogSize[t] + size < LOG_SIZE - 1
             /\ LogSize' = [LogSize EXCEPT ![t] = @ + size]
             /\ dpcPc' = "Rearm"
          \/ LogSize' = LogSize /\ dpcPc' = "Cancel"
    BY <1>12 DEF DoLog
  <2>2. LogSize' \in [Timers -> 0 .. LOG_SIZE]
    <3>1. size \in Nat /\ LogSize[t] \in 0 .. LOG_SIZE
      OBVIOUS
    <3>2. LogSize[t] + size < LOG_SIZE - 1 => LogSize[t] + size \in 0 .. LOG_SIZE
      BY <3>1
    <3>3. QED
      BY <2>1, <3>2
  <2>3. QED
    BY <1>12, <2>1, <2>2 DEF DoLog
<1>13. ASSUME NEW t \in Timers, TimerRearm(t)
       PROVE  IInv'
  BY <1>13 DEF TimerRearm
<1>14. ASSUME NEW t \in Timers, TimerCancel(t)
       PROVE  IInv'
  BY <1>14 DEF TimerCancel, AfterCancel
<1>15. ASSUME NEW t \in Timers, TimerDecrement(t)
       PROVE  IInv'
  BY <1>15 DEF TimerDecrement
<1>16. ASSUME NEW t \in Timers, TimerExpires(t)
       PROVE  IInv'
  BY <1>16 DEF TimerExpires
<1>17. CASE RegFunction
  BY <1>17 DEF RegFunction
<1>18. CASE RegSetTimer
  BY <1>18 DEF RegSetTimer
<1>19. CASE RegAdvance
  BY <1>19, RegAdvanceIInv
<1>20. CASE UNCHANGED vars
  BY <1>20 DEF vars
<1>21. QED
  BY <1>1, <1>2, <1>3, <1>4, <1>5, <1>6, <1>7, <1>8, <1>9, <1>10, <1>11, <1>12, <1>13, <1>14, <1>15, <1>16, <1>17, <1>18, <1>19, <1>20
  DEF Next, Thread, Processor0, TimerDpc, RegDpc
-----------------------------------------------------------------------------
(* Once the thread is past its sleep and the registration is over, no step *)
(* raises IsRunning or RegIsRunning, nor does RegFunction touch a timer.   *)
LEMMA NoMoreRegistration ==
  ASSUME IInv, RegIsRunning = 0, mainPc # "InitDPC", [Next]_vars
  PROVE  /\ RegIsRunning' = 0
         /\ RegedDPC' = RegedDPC
         /\ \A t \in Timers : IsRunning[t] = 0 => IsRunning'[t] = 0
<1>1. ~ (cpu0 = DpcReg /\ dpcPc # "Return")
  BY DEF IInv, Accounting, RegAlive
<1>2. ~ RegFunction /\ ~ RegSetTimer /\ ~ RegAdvance /\ ~ InitDPC
  BY <1>1 DEF RegFunction, RegSetTimer, RegAdvance, InitDPC, InDpc, Goto
<1>3. ASSUME NEW t \in Timers, TimerDecrement(t)
      PROVE  \A u \in Timers : IsRunning[u] = 0 => IsRunning'[u] = 0
  <2>1. Alive(t) /\ IsRunning[t] = 1
    BY <1>3 DEF TimerDecrement, InDpc, Alive, IInv, Accounting
  <2>2. QED
    BY <1>3, <2>1 DEF TimerDecrement, IInv, TypeOK
<1>4. \/ /\ RegIsRunning' = RegIsRunning /\ RegedDPC' = RegedDPC
         /\ IsRunning' = IsRunning
      \/ /\ RegIsRunning' = RegIsRunning /\ RegedDPC' = RegedDPC
         /\ \E t \in Timers : TimerDecrement(t)
  BY <1>2
  DEF Next, Thread, Processor0, TimerDpc, RegDpc, DelayEnds, StopReg,
      StopTimers, LoopTest, StillRunning, Reset, Scan, Stopped, Dump, CancelTimers, DispatchDpc, DpcReturns,
      TimerFunction, DoLog, TimerRearm, TimerCancel, AfterCancel, TimerDecrement,
      TimerExpires, vars, threadVars, regVars, timerVars, kernelVars
<1>5. QED
  BY <1>3, <1>4

(* Settled says nothing about the driver as it is loaded.                  *)
LEMMA InitSettled == Init => Settled
  BY DEF Init, Settled, AfterWait

(* Without registration a round of zeros stays a round of zeros: a stopped *)
(* timer does not come back, so what the scan has seen remains true.       *)
LEMMA NextSettled ==
  ASSUME IInv, Settled, DelayCoversRegistration, [Next]_vars
  PROVE  Settled'
<1> USE ConstantsOK DEF Settled
<1>0. CASE mainPc' = mainPc /\ i' = i /\ running' = running
  BY <1>0, NoMoreRegistration DEF AfterWait
<1>1. CASE InitDPC
  BY <1>1 DEF InitDPC, Goto, AfterWait
<1>2. CASE DelayEnds
  BY <1>2 DEF DelayEnds, Goto, AfterWait, regVars
<1>3. CASE StopReg
  BY <1>3 DEF StopReg, Goto, AfterWait
<1>4. CASE StopTimers
  <2>1. running' = TIMER_COUNT /\ RegIsRunning' = RegIsRunning
        /\ mainPc = "StopTimers" /\ mainPc' \in {"StopTimers", "LoopTest"}
    BY <1>4 DEF StopTimers, Goto, regVars
  <2>2. QED
    BY <2>1 DEF AfterWait
<1>5. CASE LoopTest
  <2>1. /\ RegIsRunning = 0 /\ RegIsRunning' = 0 /\ IsRunning' = IsRunning
        /\ mainPc = "LoopTest" /\ i' = 0 /\ running \in Nat
    BY <1>5 DEF LoopTest, StillRunning, Reset, Goto, IInv, TypeOK, regVars, timerVars
  <2>2. \/ mainPc' = "Scan"
        \/ mainPc' = "Dump" /\ running = 0
    BY <1>5, <2>1 DEF LoopTest, StillRunning, Reset, Goto
  <2>3. QED
    BY <2>1, <2>2 DEF AfterWait, Timers
<1>6. CASE Scan
  <2>1. /\ RegIsRunning' = 0 /\ IsRunning' = IsRunning /\ mainPc = "Scan"
        /\ i \in Timers /\ i' = i + 1 /\ running \in Nat
        /\ running >= TIMER_COUNT - i
    BY <1>6 DEF Scan, Stopped, Goto, IInv, TypeOK, Loops, regVars, timerVars, Timers
  <2>2. running' = IF IsRunning[i] = 0 THEN running - 1 ELSE running
    BY <1>6 DEF Scan, Stopped
  <2>3. running' = TIMER_COUNT - i' =>
          \A t \in Timers : t < i' => IsRunning'[t] = 0
    <3> SUFFICES ASSUME running' = TIMER_COUNT - i', NEW t \in Timers, t < i'
                 PROVE  IsRunning[t] = 0
      BY <2>1
    <3>1. running = TIMER_COUNT - i /\ IsRunning[i] = 0
      BY <2>1, <2>2 DEF Timers
    <3>2. t < i \/ t = i
      BY <2>1 DEF Timers
    <3>3. QED
      BY <3>1, <3>2, <2>1
  <2>4. CASE i + 1 < TIMER_COUNT
    BY <1>6, <2>1, <2>3, <2>4 DEF Scan, Stopped, Goto, AfterWait
  <2>5. CASE ~ (i + 1 < TIMER_COUNT)
    <3>1. i' = TIMER_COUNT /\ mainPc' = "LoopTest"
      BY <1>6, <2>1, <2>5 DEF Scan, Stopped, Goto, Timers
    <3>2. running' = 0 => \A t \in Timers : IsRunning'[t] = 0
      BY <2>3, <3>1 DEF Timers
    <3>3. QED
      BY <3>1, <3>2, <2>1 DEF AfterWait
  <2>6. QED
    BY <2>4, <2>5
<1>7. CASE Dump
  BY <1>7 DEF Dump, Goto, AfterWait, regVars, timerVars
<1>8. CASE CancelTimers
  BY <1>8 DEF CancelTimers, Goto, AfterWait, regVars, timerVars
<1>9. QED
  BY <1>0, <1>1, <1>2, <1>3, <1>4, <1>5, <1>6, <1>7, <1>8
  DEF Next, Thread, Processor0, TimerDpc, RegDpc, DispatchDpc, DpcReturns,
      TimerFunction, DoLog, TimerRearm, TimerCancel, AfterCancel, TimerDecrement,
      TimerExpires, RegFunction, RegSetTimer, RegAdvance, vars, threadVars

-----------------------------------------------------------------------------
(* The invariant holds throughout, whenever the stop comes.                *)
THEOREM Inductive == Spec => []IInv
  BY InitIInv, NextIInv, PTL DEF Spec

(* Types: in particular IsRunning and the two stop flags are 0 or 1 and    *)
(* running never leaves 0 .. TIMER_COUNT, however the DPCs interleave with *)
(* the polling.                                                            *)
THEOREM TypeCorrect == Spec => []TypeOK
  BY Inductive, PTL DEF IInv

(* The counters that DeInitDPC polls are exact: IsRunning[t] is 1 when and *)
(* only when timer t can still run (up to the final cancelling).           *)
THEOREM CountersExact == Spec => []Accounting
  BY Inductive, PTL DEF IInv

(* If the 20 s sleep outlasts the registration, no timer is alive behind   *)
(* the polling loop, as the comment at DriverEntry.c:216 wants.            *)
THEOREM Quiescent ==
  ASSUME DelayCoversRegistration
  PROVE  Spec => []StoppedAfterWait
<1>1. Spec => [](IInv /\ Settled)
  <2>1. Init => IInv /\ Settled
    BY InitIInv, InitSettled
  <2>2. IInv /\ Settled /\ [Next]_vars => (IInv /\ Settled)'
    BY NextIInv, NextSettled
  <2>3. QED
    BY <2>1, <2>2, PTL DEF Spec
<1>2. IInv /\ Settled => StoppedAfterWait
  BY DEF IInv, Settled, Accounting, StoppedAfterWait
<1>3. QED
  BY <1>1, <1>2, PTL

(* Under the same assumption the logs are frozen from the end of the wait  *)
(* on: what DeInitDPC prints is complete and not being written.            *)
THEOREM LogsFrozen ==
  ASSUME DelayCoversRegistration
  PROVE  Spec => LogsFrozenAfterWait
<1>1. StoppedAfterWait /\ [Next]_vars => [(mainPc \in AfterWait) => UNCHANGED LogSize]_vars
  <2> SUFFICES ASSUME StoppedAfterWait, [Next]_vars, mainPc \in AfterWait
               PROVE  LogSize' = LogSize
    BY Zenon
  <2>1. ASSUME NEW t \in Timers
        PROVE  ~ DoLog(t)
    BY DEF StoppedAfterWait, Alive, DoLog, InDpc
  <2>2. QED
    BY <2>1
    DEF Next, Thread, Processor0, TimerDpc, RegDpc, DispatchDpc, DpcReturns,
        TimerFunction, TimerRearm, TimerCancel, AfterCancel, TimerDecrement, InitDPC,
        DelayEnds, StopReg, StopTimers, LoopTest, StillRunning, Reset, Scan, Stopped, Dump, CancelTimers,
        TimerExpires, RegFunction, RegSetTimer, RegAdvance,
        vars, threadVars, regVars, timerVars, kernelVars
<1>2. QED
  BY <1>1, Quiescent, PTL DEF Spec, LogsFrozenAfterWait
-----------------------------------------------------------------------------
(* What remains true when the stop comes in the middle of the registration *)
(* (where StoppedAfterWait fails), and when DriverEntry has returned       *)
(* (where NoCodeAfterUnload does).                                         *)

(* Behind the loop every timer is registered and has been told to stop.    *)
ToldToStop ==
  mainPc \in AfterWait =>
    /\ RegedDPC = TIMER_COUNT /\ ~ RegAlive
    /\ \A t \in Timers : StopFlag[t] = 1

(* Behind the loop no timer comes to life, and none begins a line: at most *)
(* one that was being written is finished.                                 *)
OnlyEnds(t) ==
  /\ Alive(t)' => Alive(t)
  /\ LogSize'[t] # LogSize[t] => InDpc(t, "DoLog")
  /\ InDpc(t, "DoLog")' => InDpc(t, "DoLog")

OnlyEnding == [][(mainPc \in AfterWait) => \A t \in Timers : OnlyEnds(t)]_vars

(* When DriverEntry has returned, a routine may still be on its last       *)
(* instruction, and that is all.                                           *)
OnlyTheReturn ==
  mainPc = "Returned" => queued = {} /\ armed = {} /\ (cpu0 # NoDpc => dpcPc = "Return")

(* Raised flags stay raised, one more each step of StopTimers; and the     *)
(* loop ends only on RegIsRunning = 0, which is for good.                  *)
LEMMA NextTold ==
  ASSUME IInv, Told, [Next]_vars
  PROVE  Told'
<1> USE ConstantsOK DEF Told
<1>1. CASE mainPc' = mainPc /\ i' = i /\ StopFlag' = StopFlag
  <2>1. mainPc \in AfterWait => RegIsRunning' = 0
    BY NoMoreRegistration DEF AfterWait
  <2>2. QED
    BY <1>1, <2>1
<1>2. CASE StopTimers
  <2>1. /\ mainPc = "StopTimers" /\ i \in Timers /\ i' = i + 1
        /\ mainPc' = IF i + 1 < TIMER_COUNT THEN "StopTimers" ELSE "LoopTest"
        /\ StopFlag' = [StopFlag EXCEPT ![i] = @ + 1]
        /\ StopFlag[i] = 0 /\ StopFlag \in [Timers -> {0, 1}]
    BY <1>2 DEF StopTimers, Goto, IInv, TypeOK, Loops, Timers
  <2>2. \A t \in Timers : t < i' => StopFlag'[t] = 1
    BY <2>1 DEF Timers
  <2>3. QED
    BY <2>1, <2>2 DEF AfterWait, Timers
<1>3. CASE LoopTest
  BY <1>3 DEF LoopTest, StillRunning, Goto, IInv, TypeOK, regVars, timerVars, AfterWait
<1>4. CASE InitDPC \/ DelayEnds \/ StopReg
  BY <1>4 DEF InitDPC, DelayEnds, StopReg, Goto, Timers, AfterWait
<1>5. CASE Scan \/ Dump \/ CancelTimers
  BY <1>5 DEF Scan, Dump, CancelTimers, Goto, regVars, timerVars, AfterWait
<1>6. QED
  BY <1>1, <1>2, <1>3, <1>4, <1>5
  DEF Next, Thread, Processor0, TimerDpc, RegDpc, DispatchDpc, DpcReturns,
      TimerFunction, DoLog, TimerRearm, TimerCancel, AfterCancel, TimerDecrement,
      TimerExpires, RegFunction, RegSetTimer, RegAdvance, vars, threadVars, timerVars

(* Told holds throughout, whenever the stop comes.                         *)
LEMMA AlwaysTold == Spec => [](IInv /\ Told)
<1>1. Init => Told
  BY DEF Init, Told, AfterWait
<1>2. Told /\ IInv /\ [Next]_vars => Told'
  BY NextTold
<1>3. QED
  BY <1>1, <1>2, Inductive, PTL DEF Spec

(* However early the stop comes, whatever is alive behind the loop has     *)
(* been told to stop, and the registration is over.                        *)
THEOREM SurvivorsAreTold == Spec => []ToldToStop
<1>1. IInv /\ Told => ToldToStop
  BY DEF IInv, Told, ToldToStop, Accounting, Registration, AfterWait
<1>2. QED
  BY <1>1, AlwaysTold, PTL

(* So the race costs a timer's last line and its last execution: nothing   *)
(* behind the loop comes to life or begins to log.                         *)
THEOREM SurvivorsEnd == Spec => OnlyEnding
<1>1. IInv /\ Told /\ [Next]_vars =>
        [(mainPc \in AfterWait) => \A t \in Timers : OnlyEnds(t)]_vars
  <2> SUFFICES ASSUME IInv, Told, Next, mainPc \in AfterWait, NEW t \in Timers
               PROVE  OnlyEnds(t)
    BY Zenon
  <2> USE DEF OnlyEnds, Alive, InDpc, DpcGoto
  <2>1. /\ DpcReg \notin queued /\ ~ (cpu0 = DpcReg /\ dpcPc # "Return")
        /\ mainPc # "InitDPC" /\ StopFlag[t] = 1 /\ t # DpcReg /\ t # NoDpc
    BY DEF IInv, Told, Accounting, RegAlive, AfterWait, DpcReg, NoDpc, Timers
  <2>2. CASE Thread
    BY <2>1, <2>2
    DEF Thread, InitDPC, DelayEnds, StopReg, StopTimers, LoopTest, Scan, Dump,
        CancelTimers, KeCancelTimer, Goto, regVars, timerVars, kernelVars, AfterWait
  <2>3. CASE \E u \in Timers : TimerExpires(u)
    BY <2>1, <2>3 DEF TimerExpires, KeInsertQueueDpc, timerVars, regVars
  <2>4. CASE \E d \in Dpcs : DispatchDpc(d)
    BY <2>1, <2>4 DEF DispatchDpc, timerVars, regVars
  <2>5. CASE DpcReturns
    BY <2>1, <2>5 DEF DpcReturns, timerVars, regVars
  <2>6. CASE \E u \in Timers : TimerDpc(u)
    <3>1. PICK u \in Timers : TimerDpc(u)
      BY <2>6
    <3>2. LogSize'[t] # LogSize[t] => u = t /\ dpcPc = "DoLog"
      BY <3>1
      DEF TimerDpc, TimerFunction, DoLog, TimerRearm, TimerCancel, TimerDecrement,
          timerVars, IInv, TypeOK
    <3>3. cpu0 = u /\ cpu0' = u /\ dpcPc # "Return" /\ mainPc' = mainPc /\ queued' = queued
      BY <3>1
      DEF TimerDpc, TimerFunction, DoLog, TimerRearm, TimerCancel, TimerDecrement, threadVars
    <3>4. armed' \subseteq armed \cup {u}
      BY <3>1
      DEF TimerDpc, TimerFunction, DoLog, TimerRearm, TimerCancel, TimerDecrement,
          KeSetTimer, KeCancelTimer
    <3>5. dpcPc' = "DoLog" => StopFlag[u] = 0
      BY <3>1
      DEF TimerDpc, TimerFunction, DoLog, TimerRearm, TimerCancel, AfterCancel,
          TimerDecrement
    <3>6. u # DpcReg
      BY ConstantsOK DEF DpcReg, Timers
    <3>7. Alive(t)' => Alive(t)
      BY <3>3, <3>4, <3>6
    <3>8. InDpc(t, "DoLog")' => u = t /\ dpcPc' = "DoLog"
      BY <3>3
    <3>9. ~ InDpc(t, "DoLog")'
      BY <2>1, <3>5, <3>8
    <3>10. QED
      BY <3>2, <3>3, <3>7, <3>9
  <2>7. CASE RegDpc
    BY <2>1, <2>7 DEF RegDpc, RegFunction, RegSetTimer, RegAdvance
  <2>8. QED
    BY <2>2, <2>3, <2>4, <2>5, <2>6, <2>7 DEF Next, Processor0
<1>2. QED
  BY <1>1, AlwaysTold, PTL DEF Spec, OnlyEnding

(* The counter of a timer whose registration is behind it never leaves 0   *)
(* again: the one increment is RegFunction's, at RegedDPC, and the one     *)
(* decrement is made by a timer that is alive.  So a scan can be misled    *)
(* only by a timer that was not registered when it was read.               *)
CountedOut == [][\A t \in Timers : t < RegedDPC /\ IsRunning[t] = 0 => IsRunning'[t] = 0]_vars

(* A timer that has stopped stays stopped, whenever the stop comes and     *)
(* however long the registration takes.                                    *)
THEOREM StaysStopped == Spec => CountedOut
<1>1. IInv /\ [Next]_vars =>
        [\A t \in Timers : t < RegedDPC /\ IsRunning[t] = 0 => IsRunning'[t] = 0]_vars
  <2> SUFFICES ASSUME IInv, Next, NEW t \in Timers, t < RegedDPC, IsRunning[t] = 0
               PROVE  IsRunning'[t] = 0
    BY Zenon
  <2>0. IsRunning \in [Timers -> {0, 1}] /\ ~ Alive(t)
    BY DEF IInv, TypeOK, Accounting
  <2>1. CASE IsRunning' = IsRunning
    BY <2>1
  <2>2. CASE RegFunction
    <3>1. t # RegedDPC
      BY DEF IInv, TypeOK, Timers
    <3>2. QED
      BY <2>0, <2>2, <3>1 DEF RegFunction
  <2>3. ASSUME NEW u \in Timers, TimerDecrement(u)
        PROVE  IsRunning'[t] = 0
    <3>1. u # t
      BY <2>0, <2>3 DEF TimerDecrement, Alive, InDpc
    <3>2. QED
      BY <2>0, <2>3, <3>1 DEF TimerDecrement
  <2>4. QED
    BY <2>1, <2>2, <2>3
    DEF Next, Thread, InitDPC, DelayEnds, StopReg, StopTimers, LoopTest, Reset, Scan,
        Dump, CancelTimers, Processor0, DispatchDpc, DpcReturns, TimerDpc,
        TimerFunction, DoLog, TimerRearm, TimerCancel, AfterCancel, RegDpc,
        RegSetTimer, RegAdvance, TimerExpires, timerVars
<1>2. QED
  BY <1>1, Inductive, PTL DEF Spec, CountedOut

(* When the sleep outlasts the registration, what DriverEntry leaves       *)
(* behind is at most the last instruction of a routine: nothing armed,     *)
(* nothing queued, no access to the driver's data.                         *)
THEOREM OnlyTheReturnIsLeft ==
  ASSUME DelayCoversRegistration
  PROVE  Spec => []OnlyTheReturn
<1>1. IInv /\ Told /\ StoppedAfterWait => OnlyTheReturn
  <2> SUFFICES ASSUME IInv, Told, StoppedAfterWait, mainPc = "Returned"
               PROVE  queued = {} /\ armed = {} /\ (cpu0 # NoDpc => dpcPc = "Return")
    BY DEF OnlyTheReturn
  <2>1. ~ RegAlive /\ \A t \in Timers : ~ Alive(t)
    BY DEF IInv, Told, Accounting, StoppedAfterWait, AfterWait
  <2>2. armed \subseteq Timers /\ queued \subseteq Dpcs /\ cpu0 \in Dpcs \cup {NoDpc}
    BY DEF IInv, TypeOK
  <2>3. Dpcs = Timers \cup {DpcReg}
    BY ConstantsOK DEF Dpcs, Timers, DpcReg
  <2>4. QED
    BY <2>1, <2>2, <2>3 DEF RegAlive, Alive
<1>2. QED
  BY <1>1, AlwaysTold, Quiescent, PTL

-----------------------------------------------------------------------------
(* The refinement mapping of Fleet, under names.                           *)
Phase == IF mainPc \in AfterWait THEN "done"
         ELSE IF mainPc \in Stopping THEN "stopping" ELSE "working"

FleetOf == [t \in Timers |-> IF IsRunning[t] = 1 THEN "live"
                             ELSE IF t < RegedDPC THEN "stopped" ELSE "idle"]

(* A function that differs from f at x only is f with x updated.           *)
LEMMA PointUpdate ==
  ASSUME NEW S, NEW f, NEW g, NEW x \in S, NEW v,
         f = [u \in S |-> f[u]], g = [u \in S |-> g[u]],
         \A u \in S : g[u] = IF u = x THEN v ELSE f[u]
  PROVE  g = [f EXCEPT ![x] = v]
  OBVIOUS

(* The refinement mapping's function, in the form PointUpdate asks for.    *)
LEMMA FleetOfIsFunction ==
  /\ FleetOf = [u \in Timers |-> FleetOf[u]]
  /\ FleetOf' = [u \in Timers |-> FleetOf'[u]]
  BY DEF FleetOf

(* Every step of the drivers and DPCs is one step of TimerFleet or none.   *)
LEMMA StepImplements ==
  ASSUME DelayCoversRegistration, IInv, Settled, [Next]_vars
  PROVE  [Fleet!Next]_(Fleet!vars)
<1> USE ConstantsOK
<1>0. Fleet!Timers = Timers
  BY DEF Fleet!Timers, Timers
<1>1. CASE UNCHANGED <<Phase, FleetOf, LogSize>>
  BY <1>1 DEF Fleet!vars, Phase, FleetOf
<1>2. ASSUME mainPc' = mainPc, RegedDPC' = RegedDPC, IsRunning' = IsRunning,
             LogSize' = LogSize
      PROVE  UNCHANGED <<Phase, FleetOf, LogSize>>
  BY <1>2 DEF Phase, FleetOf
<1>3. ASSUME RegedDPC' = RegedDPC, IsRunning' = IsRunning, LogSize' = LogSize
      PROVE  FleetOf' = FleetOf
  BY <1>3 DEF FleetOf
<1>4. CASE InitDPC \/ StopReg \/ StopTimers \/ Scan \/ Dump \/ CancelTimers
  <2>1. Phase' = Phase
    BY <1>4 DEF InitDPC, StopReg, StopTimers, Scan, Stopped, Dump, CancelTimers, Goto,
                Phase, AfterWait, Stopping
  <2>2. FleetOf' = FleetOf /\ LogSize' = LogSize
    BY <1>4, <1>3 DEF InitDPC, StopReg, StopTimers, Scan, Stopped, Dump, CancelTimers,
                      regVars, timerVars
  <2>3. QED
    BY <2>1, <2>2, <1>1
<1>5. CASE DelayEnds
  <2>1. Phase = "working" /\ Phase' = "stopping"
    BY <1>5 DEF DelayEnds, Goto, Phase, AfterWait, Stopping
  <2>2. FleetOf' = FleetOf /\ LogSize' = LogSize
    BY <1>5, <1>3 DEF DelayEnds, regVars, timerVars
  <2>3. Fleet!Close
    BY <2>1, <2>2 DEF Fleet!Close, Phase, FleetOf
  <2>4. QED
    BY <2>3 DEF Fleet!Next
<1>6. CASE LoopTest
  <2>1. mainPc = "LoopTest" /\ FleetOf' = FleetOf /\ LogSize' = LogSize
    BY <1>6, <1>3 DEF LoopTest, StillRunning, Reset, Goto, regVars, timerVars
  <2>2. CASE mainPc' = "Scan"
    BY <2>1, <2>2, <1>1 DEF Phase, AfterWait, Stopping
  <2>3. CASE mainPc' = "Dump"
    <3>1. running = 0 /\ RegIsRunning = 0
      BY <1>6, <2>3 DEF LoopTest, StillRunning, Reset, Goto, IInv, TypeOK
    <3>2. RegedDPC = TIMER_COUNT /\ \A t \in Timers : IsRunning[t] = 0
      BY <2>1, <3>1 DEF Settled, IInv, Registration
    <3>3. \A t \in Timers : FleetOf[t] = "stopped"
      BY <3>2 DEF FleetOf, Timers
    <3>4. Phase = "stopping" /\ Phase' = "done"
      BY <2>1, <2>3 DEF Phase, AfterWait, Stopping
    <3>5. Fleet!Finish
      BY <3>3, <3>4, <2>1, <1>0 DEF Fleet!Finish, Phase, FleetOf
    <3>6. QED
      BY <3>5 DEF Fleet!Next
  <2>4. QED
    BY <1>6, <2>2, <2>3 DEF LoopTest, StillRunning, Reset, Goto
<1>7. ASSUME NEW t \in Timers, DoLog(t)
      PROVE  [Fleet!Next]_(Fleet!vars)
  <2>1. /\ mainPc' = mainPc /\ RegedDPC' = RegedDPC /\ IsRunning' = IsRunning
        /\ cpu0 = t /\ dpcPc = "DoLog"
    BY <1>7 DEF DoLog, InDpc, threadVars, regVars
  <2>2. Phase' = Phase /\ FleetOf' = FleetOf
    BY <2>1 DEF Phase, FleetOf
  <2>3. PICK size \in LineSizes :
          \/ LogSize' = [LogSize EXCEPT ![t] = @ + size]
          \/ LogSize' = LogSize
    BY <1>7 DEF DoLog
  <2>4. CASE LogSize' = LogSize
    BY <2>2, <2>4, <1>1
  <2>5. CASE LogSize' = [LogSize EXCEPT ![t] = @ + size]
    <3>1. IsRunning[t] = 1
      BY <2>1 DEF IInv, Accounting, Alive
    <3>2. FleetOf[t] = "live" /\ Phase # "done"
      BY <3>1, <2>1 DEF FleetOf, Phase, Settled
    <3>3. LogSize'[t] > LogSize[t] /\ LogSize' = [LogSize EXCEPT ![t] = LogSize'[t]]
      <4>1. size \in Nat \ {0} /\ LogSize[t] \in Nat
        BY DEF IInv, TypeOK
      <4>2. LogSize'[t] = LogSize[t] + size
        BY <2>5 DEF IInv, TypeOK
      <4>3. QED
        BY <4>1, <4>2, <2>5
    <3>4. Fleet!Record(t)
      BY <3>2, <3>3, <2>2 DEF Fleet!Record, Phase, FleetOf
    <3>5. QED
      BY <3>4, <1>0 DEF Fleet!Next
  <2>6. QED
    BY <2>3, <2>4, <2>5
<1>8. ASSUME NEW t \in Timers, TimerDecrement(t)
      PROVE  [Fleet!Next]_(Fleet!vars)
  <2>1. /\ mainPc' = mainPc /\ RegedDPC' = RegedDPC /\ LogSize' = LogSize
        /\ cpu0 = t /\ dpcPc = "Decrement"
        /\ IsRunning' = [IsRunning EXCEPT ![t] = IsRunning[t] - 1]
    BY <1>8 DEF TimerDecrement, InDpc, threadVars, regVars
  <2>2. IsRunning[t] = 1
    BY <2>1 DEF IInv, Accounting, Alive
  <2>3. t < RegedDPC
    <3>1. ~ Fresh(t)
      BY <2>1 DEF IInv, FreshTimers
    <3>2. ~ Registering
      BY <2>1 DEF Registering
    <3>3. QED
      BY <3>1, <3>2 DEF Fresh, IInv, TypeOK, Timers
  <2>4. FleetOf[t] = "live" /\ FleetOf' = [FleetOf EXCEPT ![t] = "stopped"]
    <3>1. IsRunning' = [IsRunning EXCEPT ![t] = 0]
      BY <2>1, <2>2
    <3>2. \A u \in Timers : IsRunning'[u] = IF u = t THEN 0 ELSE IsRunning[u]
      BY <3>1 DEF IInv, TypeOK
    <3>3. \A u \in Timers : FleetOf'[u] = IF u = t THEN "stopped" ELSE FleetOf[u]
      BY <3>2, <2>1, <2>3 DEF FleetOf
    <3>4. FleetOf[t] = "live"
      BY <2>2 DEF FleetOf
    <3>5. QED
      BY <3>3, <3>4, FleetOfIsFunction, PointUpdate
  <2>5. Phase' = Phase
    BY <2>1 DEF Phase
  <2>6. Fleet!Stop(t)
    BY <2>1, <2>4, <2>5 DEF Fleet!Stop, Phase, FleetOf
  <2>7. QED
    BY <2>6, <1>0 DEF Fleet!Next
<1>9. CASE RegFunction
  <2>1. /\ cpu0 = DpcReg /\ dpcPc = "Entry"
        /\ mainPc' = mainPc /\ RegedDPC' = RegedDPC /\ LogSize' = LogSize
        /\ \/ RegedDPC >= TIMER_COUNT /\ IsRunning' = IsRunning
           \/ /\ ~ (RegedDPC >= TIMER_COUNT)
              /\ IsRunning' = [IsRunning EXCEPT ![RegedDPC] = IsRunning[RegedDPC] + 1]
    BY <1>9 DEF RegFunction, InDpc, threadVars
  <2>2. CASE RegedDPC >= TIMER_COUNT
    BY <2>1, <2>2, <1>1, <1>2 DEF IInv, TypeOK
  <2>3. CASE ~ (RegedDPC >= TIMER_COUNT)
    <3>1. RegedDPC \in Timers /\ IsRunning[RegedDPC] = 0
      BY <2>1, <2>3 DEF IInv, TypeOK, FreshTimers, Fresh, Registering, Timers
    <3> PICK t \in Timers : t = RegedDPC
      BY <3>1
    <3>2. \A u \in Timers : IsRunning'[u] = IF u = t THEN 1 ELSE IsRunning[u]
      BY <2>1, <2>3, <3>1 DEF IInv, TypeOK
    <3>3. \A u \in Timers : FleetOf'[u] = IF u = t THEN "live" ELSE FleetOf[u]
      BY <3>2, <2>1 DEF FleetOf
    <3>4. FleetOf' = [FleetOf EXCEPT ![t] = "live"]
      BY <3>3, FleetOfIsFunction, PointUpdate
    <3>5. FleetOf[t] = "idle" /\ \A u \in Timers : u < t => FleetOf[u] # "idle"
      <4>1. IsRunning[t] = 0 /\ ~ (t < RegedDPC)
        BY <3>1 DEF Timers
      <4>2. QED
        BY <4>1 DEF FleetOf
    <3>6. Phase = "working" /\ Phase' = Phase
      <4>1. RegIsRunning = 1
        BY <2>1 DEF IInv, Accounting, RegAlive
      <4>2. mainPc \in {"InitDPC", "Delay"}
        BY <4>1 DEF Settled
      <4>3. QED
        BY <4>2, <2>1 DEF Phase, AfterWait, Stopping
    <3>7. Fleet!Start(t)
      BY <3>4, <3>5, <3>6, <2>1, <1>0 DEF Fleet!Start, Phase, FleetOf
    <3>8. QED
      BY <3>7, <1>0 DEF Fleet!Next
  <2>4. QED
    BY <2>2, <2>3
<1>10. CASE RegAdvance
  <2>1. /\ Registering /\ mainPc' = mainPc /\ LogSize' = LogSize
        /\ IsRunning' = IsRunning /\ RegedDPC' = RegedDPC + 1
    BY <1>10 DEF RegAdvance, InDpc, Registering, threadVars, timerVars
  <2>2. IsRunning[RegedDPC] = 1 /\ RegedDPC \in Nat
    BY <2>1 DEF IInv, Registration, TypeOK
  <2>3. FleetOf' = FleetOf
    <3> SUFFICES ASSUME NEW t \in Timers
                 PROVE  FleetOf'[t] = FleetOf[t]
      BY DEF FleetOf
    <3>1. t = RegedDPC \/ (t < RegedDPC + 1 <=> t < RegedDPC)
      BY <2>2 DEF Timers
    <3>2. QED
      BY <2>1, <2>2, <3>1 DEF FleetOf
  <2>4. QED
    BY <2>1, <2>3, <1>1 DEF Phase
<1>11. QED
  BY <1>1, <1>2, <1>4, <1>5, <1>6, <1>7, <1>8, <1>9, <1>10
  DEF Next, Thread, Processor0, TimerDpc, RegDpc, DispatchDpc, DpcReturns,
      TimerFunction, TimerRearm, TimerCancel, AfterCancel, TimerExpires, RegSetTimer,
      vars, threadVars, regVars, timerVars

(* With the registration over in time, MultiTimer implements TimerFleet:   *)
(* timers start in index order while the driver works, only live timers    *)
(* log, logs only grow, and "done" comes after every timer has stopped.    *)
THEOREM Implements ==
  ASSUME DelayCoversRegistration
  PROVE  Spec => ImplementsFleet
<1>1. Init => Fleet!Init
  BY ConstantsOK DEF Init, Fleet!Init, Fleet!Timers, Timers, AfterWait, Stopping
<1>2. Init => IInv /\ Settled
  BY InitIInv, InitSettled
<1>3. IInv /\ Settled /\ [Next]_vars => (IInv /\ Settled)'
  BY NextIInv, NextSettled
<1>4. IInv /\ Settled /\ [Next]_vars => [Fleet!Next]_(Fleet!vars)
  BY StepImplements
<1>5. QED
  BY <1>1, <1>2, <1>3, <1>4, PTL DEF Spec, ImplementsFleet, Fleet!Spec
=============================================================================
