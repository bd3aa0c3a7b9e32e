------------------------- MODULE CallbackRegistration -------------------------
(***************************************************************************)
(* What a driver promises that has the kernel call it back: its routine    *)
(* runs, any number of times at once, only from the registration until the *)
(* image goes; nothing begins once it is leaving, and it is gone only when *)
(* nothing runs.  ProcessNotify and PnpNotify implement this.              *)
(***************************************************************************)

CONSTANT Events   \* what the driver can be notified of, each once

VARIABLES
  phase,     \* "loading", "open", "leaving" or "gone"
  running    \* events whose callback is being executed

vars == <<phase, running>>

Init == phase = "loading" /\ running = {}

Goto(from, to) == phase = from /\ phase' = to /\ UNCHANGED running

Register   == Goto("loading", "open")
Fail       == Goto("loading", "gone")
Unregister == Goto("open", "leaving")
Leave      == running = {} /\ Goto("leaving", "gone")

Begin(e) == phase = "open" /\ e \notin running /\ running' = running \cup {e} /\ UNCHANGED phase
End(e)   == e \in running /\ running' = running \ {e} /\ UNCHANGED phase

Next ==
  \/ Register \/ Fail \/ Unregister \/ Leave
  \/ \E e \in Events : Begin(e) \/ End(e)

(* What has begun ends, and a driver that is leaving is gone some day.     *)
Spec ==
  /\ Init /\ [][Next]_vars
  /\ WF_vars(Leave)
  /\ \A e \in Events : WF_vars(End(e))
=============================================================================
