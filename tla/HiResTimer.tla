----------------------------- MODULE HiResTimer -----------------------------
(***************************************************************************)
(* HiResTimerTest/DriverEntry.cpp: two tests, one after the other.  Each   *)
(* allocates an EX_TIMER whose callback appends a timestamp line to a log  *)
(* buffer and sets the timer again, sleeps while that goes on, and deletes *)
(* the timer.  Both logs are printed at the end and DriverEntry fails, so  *)
(* that the image is unmapped.                                             *)
(*                                                                         *)
(* The callbacks append without looking at the capacity: only the length   *)
(* of the sleep keeps the log within its buffer, so time is modelled.  One *)
(* tick is 500 us in the source; clock counts the ticks of the current     *)
(* sleep.                                                                  *)
(***************************************************************************)
EXTENDS Integers

CONSTANTS
  RUNTIME,     \* RUNTIME_IN_EACH_TEST, in ticks
  HIGHRES,     \* HIGHRES_TIMER_INTERVAL, in ticks
  NOWAKE,      \* NOWAKE_TIMER_INTERVAL, in ticks
  LOG_SIZE,    \* capacity of a log buffer, in bytes
  LineSizes,   \* lengths a formatted line can have
  MaxLine,     \* the longest of them
  OVERSLEEP    \* how late the sleeping thread can resume, in ticks

ASSUME ConstantsOK ==
  /\ RUNTIME \in Nat
  /\ HIGHRES \in Nat \ {0}
  /\ NOWAKE \in Nat \ {0}
  /\ LOG_SIZE \in Nat
  /\ MaxLine \in Nat
  /\ LineSizes \subseteq 1 .. MaxLine
  /\ OVERSLEEP \in Nat

Tests   == {1, 2}
Idle    == "idle"
NotSet  == -1

Runtime(k)  == IF k = 1 THEN RUNTIME \div 10 ELSE RUNTIME
Interval(k) == IF k = 1 THEN HIGHRES ELSE NOWAKE

VARIABLES
  mainPc,     \* DriverEntry, TestHighResTimer (k = 1), TestNoWakeTimer (k = 2)
  test,       \* the test being run
  clock,      \* ticks since its timer was first set
  timer,      \* per test: "null", "live" or, once ExDeleteTimer began, "deleted"
  due,        \* per test: the clock at which the timer expires, or NotSet
  callback,   \* per test: where its callback is, or Idle
  log         \* per test: LogCursor - LogData

mainVars  == <<mainPc, test>>
timerVars == <<timer, due>>
vars      == <<mainVars, clock, timerVars, callback, log>>

TypeOK ==
  /\ mainPc \in {"Allocate", "Sleep", "DeleteWait", "Print1", "Print2", "Returned"}
  /\ test \in Tests
  /\ clock \in 0 .. RUNTIME + OVERSLEEP
  /\ timer \in [Tests -> {"null", "live", "deleted"}]
  /\ due \in [Tests -> Nat \cup {NotSet}]
  /\ callback \in [Tests -> {Idle, "Log", "Set", "Return"}]
  /\ log \in [Tests -> Nat]

Init ==
  /\ mainPc = "Allocate" /\ test = 1 /\ clock = 0
  /\ timer = [k \in Tests |-> "null"]
  /\ due = [k \in Tests |-> NotSet]
  /\ callback = [k \in Tests |-> Idle]
  /\ log = [k \in Tests |-> 0]

-----------------------------------------------------------------------------
(* The kernel.                                                             *)

(* Time passes while the thread sleeps, up to the latest moment it resumes.*)
Tick ==
  /\ mainPc = "Sleep"
  /\ clock < Runtime(test) + OVERSLEEP
  /\ clock' = clock + 1
  /\ UNCHANGED <<mainVars, timerVars, callback, log>>

(* A timer expires at its due time or later, however late its tolerance    *)
(* allows; the callback of one timer does not overlap itself.              *)
TimerExpires(k) ==
  /\ due[k] # NotSet /\ clock >= due[k]
  /\ callback[k] = Idle
  /\ due' = [due EXCEPT ![k] = NotSet]
  /\ callback' = [callback EXCEPT ![k] = "Log"]
  /\ UNCHANGED <<mainVars, clock, timer, log>>

(* Slip: the due time with the wrong sign, that is in the past.            *)
ExSetTimerBackwards(k, at) ==
  due' = IF timer[k] = "deleted" THEN due ELSE [due EXCEPT ![k] = at - Interval(k)]

(* ExSetTimer has no effect on a timer that is being deleted.              *)
ExSetTimer(k, at) ==
  due' = IF timer[k] = "deleted" THEN due ELSE [due EXCEPT ![k] = at + Interval(k)]

-----------------------------------------------------------------------------
(* ExTimerCallback1 and ExTimerCallback2.                                  *)

CallbackLog(k) ==
  /\ callback[k] = "Log"
  /\ \E written \in LineSizes : log' = [log EXCEPT ![k] = @ + written]
  /\ callback' = [callback EXCEPT ![k] = "Set"]
  /\ UNCHANGED <<mainVars, clock, timerVars>>

CallbackSet(k) ==
  /\ callback[k] = "Set"
  /\ ExSetTimer(k, clock)
  /\ callback' = [callback EXCEPT ![k] = "Return"]
  /\ UNCHANGED <<mainVars, clock, timer, log>>

(* The last instruction of the callback, in the driver's image.            *)
CallbackReturns(k) ==
  /\ callback[k] = "Return"
  /\ callback' = [callback EXCEPT ![k] = Idle]
  /\ UNCHANGED <<mainVars, clock, timerVars, log>>

-----------------------------------------------------------------------------
(* The driver thread.                                                      *)

(* ExAllocateTimer may fail; the test then only sleeps.                    *)
AllocateTimer ==
  /\ mainPc = "Allocate"
  /\ mainPc' = "Sleep"
  /\ clock' = 0
  /\ \/ /\ timer' = [timer EXCEPT ![test] = "live"]
        /\ ExSetTimer(test, 0)
     \/ UNCHANGED timerVars
  /\ UNCHANGED <<test, callback, log>>

EndTest ==
  IF test = 1 THEN mainPc' = "Allocate" /\ test' = 2
              ELSE mainPc' = "Print1" /\ UNCHANGED test

(* Slip: no test of the pointer.  ExDeleteTimer(NULL) stops the machine.   *)
SleepThenDeleteNull ==
  /\ mainPc = "Sleep" /\ clock >= Runtime(test)
  /\ timer[test] = "null"
  /\ UNCHANGED vars

SleepWithoutTimer ==
  /\ mainPc = "Sleep" /\ clock >= Runtime(test)
  /\ timer[test] = "null"
  /\ EndTest
  /\ UNCHANGED <<clock, timerVars, callback, log>>

Cancelled == timer                                   \* Slip: ExCancelTimer
Disabled  == [timer EXCEPT ![test] = "deleted"]
Waiting   == mainPc' = "DeleteWait" /\ UNCHANGED test

(* ExDeleteTimer(Timer, TRUE, TRUE, ...) disables and cancels ...          *)
ExDeleteTimer ==
  /\ mainPc = "Sleep" /\ clock >= Runtime(test)
  /\ timer[test] # "null"
  /\ timer' = Disabled
  /\ due' = [due EXCEPT ![test] = NotSet]
  /\ Waiting
  /\ UNCHANGED <<clock, callback, log>>

(* ... and waits for a callback that is under way.                         *)
DeleteReturns ==
  /\ mainPc = "DeleteWait"
  /\ callback[test] = Idle
  /\ EndTest
  /\ UNCHANGED <<clock, timerVars, callback, log>>

PrintHighResTimerLog ==
  /\ mainPc = "Print1"
  /\ mainPc' = "Print2"
  /\ UNCHANGED <<test, clock, timerVars, callback, log>>

(* The second log, and DriverEntry's failure.                              *)
PrintNoWakeTimerLog ==
  /\ mainPc = "Print2"
  /\ mainPc' = "Returned"
  /\ UNCHANGED <<test, clock, timerVars, callback, log>>

-----------------------------------------------------------------------------
DriverEntry ==
  \/ AllocateTimer \/ SleepWithoutTimer \/ ExDeleteTimer \/ DeleteReturns
  \/ PrintHighResTimerLog \/ PrintNoWakeTimerLog

Callback(k) == CallbackLog(k) \/ CallbackSet(k) \/ CallbackReturns(k)

Next ==
  \/ Tick
  \/ DriverEntry
  \/ \E k \in Tests : TimerExpires(k) \/ Callback(k)

Spec == Init /\ [][Next]_vars

(* Time passes, a ready thread runs and a callback once begun goes on.  No *)
(* timer is bound to expire.                                               *)
FairSpec ==
  /\ Spec
  /\ WF_vars(Tick)
  /\ WF_vars(DriverEntry)
  /\ \A k \in Tests : WF_vars(Callback(k))

-----------------------------------------------------------------------------
(* The sleeps are short enough for the buffers ("shorten the time, or the  *)
(* log will be huge...", DriverEntry.cpp:52).                              *)
Budget == \A k \in Tests : MaxLine * (Runtime(k) + OVERSLEEP) < Interval(k) * LOG_SIZE

(* The unchecked appends of the callbacks, sprintf's terminating zero      *)
(* included, stay in the buffer, although a callback under way when the    *)
(* timer is deleted still appends its line.                                *)
LogFits == \A k \in Tests : log[k] < LOG_SIZE

Ended(k) == k < test \/ mainPc \in {"Print1", "Print2", "Returned"}

(* Once a test has ended, its timer is not set and its callback not under  *)
(* way, although the callback sets the timer again each time: the next     *)
(* test, the prints and the unmapping of the image meet no callback.       *)
QuietAfterTest == \A k \in Tests : Ended(k) => due[k] = NotSet /\ callback[k] = Idle

(* A printed log is complete: nothing is appended to it afterwards.        *)
PrintedLogsFinal ==
  [][\A k \in Tests : Ended(k) => log'[k] = log[k]]_vars

(* DriverEntry returns whether or not the timers were allocated and        *)
(* however the last callback meets ExDeleteTimer.                          *)
DriverEntryReturns == <>(mainPc = "Returned")
=============================================================================
