-------------------------- MODULE HiResTimer_proofs --------------------------
(***************************************************************************)
(* Proofs about HiResTimer for any intervals, line lengths, capacity and   *)
(* lateness: an ended test is quiet, and, if the sleeps are within Budget, *)
(* the unchecked appends stay inside the log buffers.                      *)
(***************************************************************************)
EXTENDS HiResTimer, TLAPS

-----------------------------------------------------------------------------
(* The inductive invariant, in named parts.                                *)

(* Tests yet to come have no timer, hence no callback and no log.          *)
Before(k) == k > test \/ (k = test /\ mainPc = "Allocate")

NoTimer == \A k \in Tests :
  /\ Before(k) => timer[k] = "null"
  /\ timer[k] = "null" => due[k] = NotSet /\ callback[k] = Idle /\ log[k] = 0

(* A callback that has not set its timer yet finds it not set, and a timer *)
(* that ExDeleteTimer has disabled is never set again.                     *)
Setting == \A k \in Tests :
  /\ callback[k] \in {"Log", "Set"} => due[k] = NotSet
  /\ timer[k] = "deleted" => due[k] = NotSet
  /\ timer[k] = "live" => k = test /\ mainPc = "Sleep"

(* The sleeping thread resumes in time.                                    *)
InTime ==
  mainPc \in {"Sleep", "DeleteWait"} => clock <= Runtime(test) + OVERSLEEP

(* The pace of a log: between two settings at least Interval(k) ticks pass *)
(* and at most MaxLine bytes are appended.                                 *)
PaceOf(k) ==
  /\ log[k] * Interval(k) <= MaxLine * (Runtime(k) + OVERSLEEP)
  /\ due[k] # NotSet =>
       /\ due[k] >= Interval(k)
       /\ log[k] * Interval(k) <= MaxLine * (due[k] - Interval(k))
  /\ callback[k] = "Log" =>
       log[k] * Interval(k) + MaxLine * Interval(k) <= MaxLine * clock
  /\ callback[k] = "Set" => log[k] * Interval(k) <= MaxLine * clock

Pace == \A k \in Tests : PaceOf(k)

Quiet == TypeOK /\ NoTimer /\ Setting /\ InTime /\ QuietAfterTest

IInv == Quiet /\ Pace

-----------------------------------------------------------------------------
(* Arithmetic.                                                             *)

(* Both tests have a positive interval and sleep at most RUNTIME.          *)
LEMMA IntervalType ==
  \A k \in Tests : Interval(k) \in Nat \ {0} /\ Runtime(k) \in 0 .. RUNTIME
  BY ConstantsOK DEF Interval, Runtime, Tests

(* Multiplication by a natural number is monotonic.                        *)
LEMMA Scale ==
  ASSUME NEW m \in Nat, NEW a \in Int, NEW b \in Int, a <= b
  PROVE  m * a <= m * b
  OBVIOUS

(* One more line, of at most m bytes, costs at most m times n.             *)
LEMMA AddLine ==
  ASSUME NEW l \in Nat, NEW s \in Nat, NEW n \in Nat, NEW m \in Nat, s <= m
  PROVE  (l + s) * n <= l * n + m * n
<1>1. (l + s) * n = l * n + s * n
  OBVIOUS
<1>2. n * s <= n * m
  BY Scale
<1>3. s * n = n * s /\ m * n = n * m
  OBVIOUS
<1>4. QED
  BY <1>1, <1>2, <1>3

-----------------------------------------------------------------------------
(* Before TestHighResTimer there is no timer and both logs are empty.      *)
LEMMA InitIInv == Init => IInv
<1> SUFFICES ASSUME Init
             PROVE  IInv
  OBVIOUS
<1>1. Quiet
  BY ConstantsOK
  DEF Init, Quiet, TypeOK, NoTimer, Before, Setting, InTime, QuietAfterTest,
      Ended, Tests, Idle, NotSet
<1>2. ASSUME NEW k \in Tests
      PROVE  0 * Interval(k) <= MaxLine * (Runtime(k) + OVERSLEEP)
  <2>1. MaxLine * 0 <= MaxLine * (Runtime(k) + OVERSLEEP)
    BY IntervalType, ConstantsOK, Scale
  <2>2. QED
    BY <2>1, IntervalType, ConstantsOK
<1>3. Pace
  BY <1>2 DEF Init, Pace, PaceOf, Idle, NotSet
<1>4. QED
  BY <1>1, <1>3 DEF IInv

(* The part that does not need arithmetic.                                 *)
LEMMA NextQuiet == Quiet /\ [Next]_vars => Quiet'
<1> SUFFICES ASSUME Quiet, [Next]_vars
             PROVE  Quiet'
  OBVIOUS
<1> USE ConstantsOK, IntervalType
    DEF Quiet, TypeOK, NoTimer, Before, Setting, InTime, QuietAfterTest, Ended,
        Tests, Idle, NotSet, mainVars, timerVars
<1>1. CASE Tick
  BY <1>1 DEF Tick
<1>2. CASE AllocateTimer
  BY <1>2 DEF AllocateTimer, ExSetTimer
<1>3. CASE SleepWithoutTimer
  BY <1>3 DEF SleepWithoutTimer, EndTest
<1>4. CASE ExDeleteTimer
  BY <1>4 DEF ExDeleteTimer, Disabled, Waiting
<1>5. CASE DeleteReturns
  BY <1>5 DEF DeleteReturns, EndTest
<1>6. CASE PrintHighResTimerLog
  BY <1>6 DEF PrintHighResTimerLog
<1>7. CASE PrintNoWakeTimerLog
  BY <1>7 DEF PrintNoWakeTimerLog
<1>8. ASSUME NEW k \in Tests, TimerExpires(k)
      PROVE  Quiet'
  BY <1>8 DEF TimerExpires
<1>9. ASSUME NEW k \in Tests, CallbackLog(k)
      PROVE  Quiet'
  BY <1>9 DEF CallbackLog
<1>10. ASSUME NEW k \in Tests, CallbackSet(k)
       PROVE  Quiet'
  BY <1>10 DEF CallbackSet, ExSetTimer
<1>11. ASSUME NEW k \in Tests, CallbackReturns(k)
       PROVE  Quiet'
  BY <1>11 DEF CallbackReturns
<1>12. CASE UNCHANGED vars
  BY <1>12 DEF vars
<1>13. QED
  BY <1>1, <1>2, <1>3, <1>4, <1>5, <1>6, <1>7, <1>8, <1>9, <1>10, <1>11, <1>12
  DEF Next, DriverEntry, Callback
(* The pace is kept: one lemma per step that moves a log, a due time or    *)
(* the clock.                                                              *)

(* Nothing about test k moves, and the clock does not go back while its    *)
(* callback is under way.                                                  *)
LEMMA PaceStays ==
  ASSUME TypeOK, NEW k \in Tests, PaceOf(k),
         log'[k] = log[k],
         due'[k] = due[k] \/ due'[k] = NotSet,
         callback'[k] = callback[k] \/ callback'[k] \in {Idle, "Return"},
         clock' \in Nat,
         callback[k] = Idle \/ clock' >= clock
  PROVE  PaceOf(k)'
<1> USE DEF TypeOK
<1>0. /\ clock \in Nat /\ clock' \in Nat /\ MaxLine \in Nat /\ log[k] \in Nat
      /\ Interval(k) \in Nat
  BY ConstantsOK, IntervalType
<1>1. CASE clock' >= clock
  <2>1. MaxLine * clock <= MaxLine * clock'
    BY <1>0, <1>1, Scale
  <2>2. MaxLine * clock \in Int /\ MaxLine * clock' \in Int
        /\ log[k] * Interval(k) \in Int /\ MaxLine * Interval(k) \in Int
    BY <1>0
  <2>3. QED
    BY <2>1, <2>2 DEF PaceOf, Idle
<1>2. CASE callback[k] = Idle
  BY <1>2 DEF PaceOf, Idle
<1>3. QED
  BY <1>1, <1>2

(* When the timer expires, an interval has passed since it was set: the    *)
(* line that the callback is about to append has been paid for.            *)
LEMMA PaceExpires ==
  ASSUME Quiet, NEW k \in Tests, PaceOf(k), TimerExpires(k)
  PROVE  PaceOf(k)'
<1> USE ConstantsOK, IntervalType DEF Quiet, TypeOK
<1>1. /\ log'[k] = log[k] /\ clock' = clock /\ due'[k] = NotSet
      /\ callback'[k] = "Log"
      /\ due[k] \in Nat /\ due[k] # NotSet /\ clock >= due[k]
  BY DEF TimerExpires, NotSet
<1>2. log[k] * Interval(k) <= MaxLine * (due[k] - Interval(k))
  BY <1>1 DEF PaceOf
<1>3. MaxLine * (due[k] - Interval(k)) + MaxLine * Interval(k) = MaxLine * due[k]
  BY <1>1
<1>4. MaxLine * due[k] <= MaxLine * clock
  BY <1>1, Scale
<1>5. log[k] * Interval(k) + MaxLine * Interval(k) <= MaxLine * clock
  <2> DEFINE A == log[k] * Interval(k)
             B == MaxLine * (due[k] - Interval(k))
             C == MaxLine * Interval(k)
             D == MaxLine * due[k]
             E == MaxLine * clock
  <2>1. A \in Int /\ B \in Int /\ C \in Int /\ D \in Int /\ E \in Int
    BY <1>1
  <2>2. A <= B /\ B + C = D /\ D <= E
    BY <1>2, <1>3, <1>4
  <2> HIDE DEF A, B, C, D, E
  <2>3. A + C <= E
    BY <2>1, <2>2
  <2>4. QED
    BY <2>3 DEF A, C, E
<1>6. QED
  BY <1>1, <1>5 DEF PaceOf

(* The callback appends its line.                                          *)
LEMMA PaceLogs ==
  ASSUME Quiet, NEW k \in Tests, PaceOf(k), CallbackLog(k)
  PROVE  PaceOf(k)'
<1> USE ConstantsOK, IntervalType DEF Quiet, TypeOK
<1>1. PICK written \in LineSizes : log' = [log EXCEPT ![k] = @ + written]
  BY DEF CallbackLog
<1>2. /\ log'[k] = log[k] + written /\ written \in Nat /\ written <= MaxLine
      /\ callback[k] = "Log" /\ callback'[k] = "Set" /\ clock' = clock
      /\ due'[k] = NotSet /\ log'[k] \in Nat
  BY <1>1 DEF CallbackLog, timerVars, Setting
<1>3. (log[k] + written) * Interval(k) <= log[k] * Interval(k) + MaxLine * Interval(k)
  BY <1>2, AddLine
<1>4. log[k] * Interval(k) + MaxLine * Interval(k) <= MaxLine * clock
  BY <1>2 DEF PaceOf
<1>5. MaxLine * clock <= MaxLine * (Runtime(k) + OVERSLEEP)
  <2>1. clock <= Runtime(k) + OVERSLEEP
    <3>1. timer[k] \in {"live", "deleted"} /\ k = test
          /\ mainPc \in {"Sleep", "DeleteWait"}
      BY <1>2 DEF NoTimer, Before, QuietAfterTest, Ended, Idle, Tests
    <3>2. QED
      BY <3>1 DEF InTime
  <2>2. QED
    BY <2>1, Scale
<1>6. /\ log'[k] * Interval(k) <= MaxLine * clock
      /\ log'[k] * Interval(k) <= MaxLine * (Runtime(k) + OVERSLEEP)
  <2> DEFINE A == (log[k] + written) * Interval(k)
             B == log[k] * Interval(k) + MaxLine * Interval(k)
             C == MaxLine * clock
             D == MaxLine * (Runtime(k) + OVERSLEEP)
  <2>1. A \in Int /\ B \in Int /\ C \in Int /\ D \in Int
    BY <1>2
  <2>2. A <= B /\ B <= C /\ C <= D
    BY <1>3, <1>4, <1>5
  <2> HIDE DEF A, B, C, D
  <2>3. A <= C /\ A <= D
    BY <2>1, <2>2
  <2>4. QED
    BY <2>3, <1>2 DEF A, C, D
<1>7. QED
  BY <1>2, <1>6 DEF PaceOf

(* The callback sets the timer again, an interval from now.                *)
LEMMA PaceSets ==
  ASSUME Quiet, NEW k \in Tests, PaceOf(k), CallbackSet(k)
  PROVE  PaceOf(k)'
<1> USE ConstantsOK, IntervalType DEF Quiet, TypeOK
<1>1. /\ log'[k] = log[k] /\ clock' = clock
      /\ callback[k] = "Set" /\ callback'[k] = "Return"
      /\ due'[k] = due[k] \/ due'[k] = clock + Interval(k)
  BY DEF CallbackSet, ExSetTimer
<1>2. log[k] * Interval(k) <= MaxLine * clock
  BY <1>1 DEF PaceOf
<1>3. (clock + Interval(k)) - Interval(k) = clock /\ clock + Interval(k) >= Interval(k)
  OBVIOUS
<1>4. QED
  BY <1>1, <1>2, <1>3 DEF PaceOf

(* No step of thread, callbacks or timers breaks the invariant.            *)
LEMMA NextIInv == IInv /\ [Next]_vars => IInv'
<1> SUFFICES ASSUME IInv, [Next]_vars
             PROVE  IInv'
  OBVIOUS
<1>1. Quiet /\ TypeOK /\ Quiet' /\ clock' \in Nat
  BY NextQuiet, ConstantsOK DEF IInv, Quiet, TypeOK
<1>2. ASSUME NEW k \in Tests
      PROVE  PaceOf(k)'
  <2>1. PaceOf(k)
    BY DEF IInv, Pace
  <2>2. CASE TimerExpires(k)
    BY <1>1, <2>1, <2>2, PaceExpires
  <2>3. CASE CallbackLog(k)
    BY <1>1, <2>1, <2>3, PaceLogs
  <2>4. CASE CallbackSet(k)
    BY <1>1, <2>1, <2>4, PaceSets
  <2>5. CASE AllocateTimer
    <3>1. CASE k # test
      <4>1. log'[k] = log[k] /\ due'[k] = due[k] /\ callback'[k] = callback[k]
            /\ callback[k] = Idle
        BY <2>5, <3>1, <1>1
        DEF AllocateTimer, ExSetTimer, timerVars, Quiet, QuietAfterTest, Ended,
            NoTimer, Before, Tests, TypeOK
      <4>2. QED
        BY <4>1, <1>1, <2>1, PaceStays
    <3>2. CASE k = test
      <4>1. /\ log'[k] = 0 /\ callback'[k] = Idle
            /\ due'[k] = NotSet \/ due'[k] = 0 + Interval(k)
        BY <2>5, <3>2, <1>1
        DEF AllocateTimer, ExSetTimer, timerVars, Quiet, NoTimer, Before, TypeOK
      <4>2. 0 * Interval(k) = 0 /\ MaxLine * (Runtime(k) + OVERSLEEP) >= 0
            /\ MaxLine * (0 + Interval(k) - Interval(k)) = 0
        BY IntervalType, ConstantsOK
      <4>3. QED
        BY <4>1, <4>2, IntervalType DEF PaceOf, Idle
    <3>3. QED
      BY <3>1, <3>2
  <2>6. CASE Tick
    <3>1. log'[k] = log[k] /\ due'[k] = due[k] /\ callback'[k] = callback[k]
          /\ clock' >= clock
      BY <2>6, <1>1 DEF Tick, timerVars, TypeOK
    <3>2. QED
      BY <3>1, <1>1, <2>1, PaceStays
  <2>7. CASE \/ SleepWithoutTimer \/ ExDeleteTimer \/ DeleteReturns
            \/ PrintHighResTimerLog \/ PrintNoWakeTimerLog \/ UNCHANGED vars
    <3>1. log'[k] = log[k] /\ callback'[k] = callback[k] /\ clock' = clock
          /\ (due'[k] = due[k] \/ due'[k] = NotSet)
      BY <2>7, <1>1
      DEF SleepWithoutTimer, ExDeleteTimer, Disabled, Waiting, DeleteReturns, PrintHighResTimerLog,
          PrintNoWakeTimerLog, vars, timerVars, Quiet, TypeOK
    <3>2. QED
      BY <3>1, <1>1, <2>1, PaceStays DEF TypeOK
  <2>8. CASE CallbackReturns(k)
    <3>1. log'[k] = log[k] /\ callback'[k] = Idle /\ clock' = clock
          /\ due'[k] = due[k]
      BY <2>8, <1>1 DEF CallbackReturns, timerVars, Quiet, TypeOK
    <3>2. QED
      BY <3>1, <1>1, <2>1, PaceStays DEF TypeOK
  <2>9. ASSUME NEW j \in Tests, j # k, TimerExpires(j) \/ Callback(j)
        PROVE  PaceOf(k)'
    <3>1. log'[k] = log[k] /\ callback'[k] = callback[k] /\ clock' = clock
          /\ due'[k] = due[k]
      BY <2>9, <1>1
      DEF TimerExpires, Callback, CallbackLog, CallbackSet, CallbackReturns,
          ExSetTimer, timerVars, Quiet, TypeOK
    <3>2. QED
      BY <3>1, <1>1, <2>1, PaceStays DEF TypeOK
  <2>10. QED
    BY <2>2, <2>3, <2>4, <2>5, <2>6, <2>7, <2>8, <2>9
    DEF Next, DriverEntry, Callback
<1>3. QED
  BY <1>1, <1>2 DEF IInv, Pace

-----------------------------------------------------------------------------
(* The invariant, pace included, holds throughout; it needs no budget:     *)
(* it bounds a log by the time that has passed.                            *)
THEOREM Inductive == Spec => []IInv
  BY InitIInv, NextIInv, PTL DEF Spec

(* Every variable keeps its type, for any intervals, sleeps and lines.     *)
THEOREM TypeCorrect == Spec => []TypeOK
  BY Inductive, PTL DEF IInv, Quiet

(* An ended test leaves no timer set and no callback under way, whatever   *)
(* ExDeleteTimer and the self-setting callback interleave to.              *)
THEOREM TestsEndQuiet == Spec => []QuietAfterTest
  BY Inductive, PTL DEF IInv, Quiet

(* Within Budget, no append passes the end of a log buffer, the one of the *)
(* callback that ExDeleteTimer waits for included.                         *)
THEOREM AppendsFit ==
  ASSUME Budget
  PROVE  Spec => []LogFits
<1>1. IInv => LogFits
  <2> SUFFICES ASSUME IInv, NEW k \in Tests
               PROVE  log[k] < LOG_SIZE
    BY DEF LogFits
  <2>1. /\ log[k] \in Nat
        /\ log[k] * Interval(k) <= MaxLine * (Runtime(k) + OVERSLEEP)
    BY DEF IInv, Quiet, TypeOK, Pace, PaceOf
  <2>2. MaxLine * (Runtime(k) + OVERSLEEP) < Interval(k) * LOG_SIZE
    BY DEF Budget
  <2>3. ASSUME log[k] >= LOG_SIZE
        PROVE  FALSE
    <3>1. Interval(k) * LOG_SIZE <= Interval(k) * log[k]
      BY <2>1, <2>3, Scale, IntervalType, ConstantsOK
    <3>2. Interval(k) * log[k] = log[k] * Interval(k)
      BY <2>1, IntervalType
    <3> DEFINE A == Interval(k) * LOG_SIZE
               B == Interval(k) * log[k]
               C == MaxLine * (Runtime(k) + OVERSLEEP)
    <3>3. A \in Int /\ B \in Int /\ C \in Int
      BY <2>1, IntervalType, ConstantsOK
    <3>4. A <= B /\ B <= C /\ C < A
      BY <3>1, <3>2, <2>1, <2>2
    <3> HIDE DEF A, B, C
    <3>5. QED
      BY <3>3, <3>4
  <2>4. QED
    BY <2>1, <2>3, ConstantsOK
<1>2. QED
  BY <1>1, Inductive, PTL

(* What the two Print functions print is complete.                         *)
THEOREM LogsFinal == Spec => PrintedLogsFinal
<1>1. IInv /\ [Next]_vars => [\A k \in Tests : Ended(k) => log'[k] = log[k]]_vars
  <2> SUFFICES ASSUME IInv, [Next]_vars, NEW k \in Tests, Ended(k)
               PROVE  log'[k] = log[k]
    BY Zenon
  <2>1. ~ CallbackLog(k)
    BY DEF IInv, Quiet, QuietAfterTest, CallbackLog, Idle
  <2>2. ASSUME NEW j \in Tests, j # k, CallbackLog(j)
        PROVE  log'[k] = log[k]
    BY <2>2 DEF CallbackLog, IInv, Quiet, TypeOK
  <2>3. QED
    BY <2>1, <2>2
    DEF Next, DriverEntry, Callback, Tick, AllocateTimer, SleepWithoutTimer,
        ExDeleteTimer, Disabled, Waiting, DeleteReturns, PrintHighResTimerLog, PrintNoWakeTimerLog,
        TimerExpires, CallbackSet, CallbackReturns, vars
<1>2. QED
  BY <1>1, Inductive, PTL DEF Spec, PrintedLogsFinal
=============================================================================
