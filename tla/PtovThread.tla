------------------------------ MODULE PtovThread ------------------------------
(***************************************************************************)
(* PtovTest/DriverEntry.c: DriverEntry gives a buffer and a context to a   *)
(* system thread, waits 10 s for its event and frees both, whatever became *)
(* of the wait.  The thread takes the page number of the buffer from one   *)
(* MDL and maps it through another one it builds itself.  Allocations      *)
(* succeed: no result is looked at.  A step ends where one thread touches  *)
(* what the other one frees or waits for.                                  *)
(***************************************************************************)

VARIABLES
  entry,     \* DriverEntry
  worker,    \* ThreadFunction
  memory,    \* allocated: "ctx", "buffer"
  have,      \* the worker's: "lock" on the page, "mdl", "range", "mapping"
  done,      \* EventDone1
  inTime     \* is the worker done within the 10 s?

vars == <<entry, worker, memory, have, done, inTime>>

TypeOK ==
  /\ entry \in {"Allocate", "Create", "Wait", "FreeContext", "FreeBuffer", "Returned"}
  /\ worker \in {"none", "GetPfn", "CreateMdl", "Reserve", "Map", "Unmap",
                 "FreeAddress", "FreeMdl", "SetEvent", "Return", "ended"}
  /\ memory \subseteq {"ctx", "buffer"}
  /\ have \subseteq {"lock", "mdl", "range", "mapping"}
  /\ {done, inTime} \subseteq BOOLEAN

Init ==
  /\ entry = "Allocate" /\ worker = "none" /\ memory = {} /\ have = {}
  /\ done = FALSE /\ inTime \in BOOLEAN

Entry(from, to)  == entry = from /\ entry' = to /\ UNCHANGED <<have, inTime>>
Worker(from, to) == worker = from /\ worker' = to /\ UNCHANGED <<entry, memory, inTime>>

-----------------------------------------------------------------------------
(* DriverEntry.                                                            *)

(* The buffer, the events and CreateContext.                               *)
Allocate ==
  /\ Entry("Allocate", "Create")
  /\ memory' = {"ctx", "buffer"} /\ done' = FALSE
  /\ UNCHANGED worker

(* PsCreateSystemThread.  EventNotify, set next, is never looked at.       *)
CreateThread ==
  /\ \/ Entry("Create", "Wait") /\ worker' = "GetPfn"
     \/ Entry("Create", "FreeContext") /\ UNCHANGED worker
  /\ UNCHANGED <<memory, done>>

WaitWithoutTimeout  == done              \* Slip: NULL for &delay
WaitInAbsoluteTime  == TRUE              \* Slip: a positive delay
WaitOver            == inTime => done    \* 10 s, relative; status not looked at

Wait ==
  /\ WaitOver
  /\ Entry("Wait", "FreeContext")
  /\ UNCHANGED <<worker, memory, done>>

Free(from, what, to) ==
  /\ Entry(from, to)
  /\ memory' = memory \ {what}
  /\ UNCHANGED <<worker, done>>

FreeAll == Free("FreeContext", "ctx", "FreeBuffer") \/ Free("FreeBuffer", "buffer", "Returned")

DriverEntry == Allocate \/ CreateThread \/ Wait \/ FreeAll

-----------------------------------------------------------------------------
(* ThreadFunction.                                                         *)

Step(from, to, take, give) ==
  /\ Worker(from, to)
  /\ have' = (have \ give) \cup take
  /\ UNCHANGED done

(* Slip: MmUnlockPages before IoFreeMdl.                                   *)
GetFirstPfnAndUnlock == Step("GetPfn", "CreateMdl", {}, {"lock"})

(* The first MDL is freed here; the lock it took on the page is not.       *)
GetFirstPfnFromVirtAddr == Step("GetPfn", "CreateMdl", {"lock"}, {})

CreateMdlByPfn == Step("CreateMdl", "Reserve", {"mdl"}, {})

MapPage ==
  \/ Step("Reserve", "Map", {"range"}, {})
  \/ Step("Map", "Unmap", {"mapping"}, {})

UnmapPage ==
  \/ Step("Unmap", "FreeAddress", {}, {"mapping"})
  \/ Step("FreeAddress", "FreeMdl", {}, {"range"})
  \/ Step("FreeMdl", "SetEvent", {}, {"mdl"})

(* KeSetEvent(ctx->EventDone): ctx is read before the event is set.        *)
SetEventDone == Worker("SetEvent", "Return") /\ done' = TRUE /\ UNCHANGED have

ThreadEnds == Worker("Return", "ended") /\ UNCHANGED <<have, done>>

ThreadFunction ==
  \/ GetFirstPfnFromVirtAddr \/ CreateMdlByPfn \/ MapPage \/ UnmapPage
  \/ SetEventDone \/ ThreadEnds

-----------------------------------------------------------------------------
Next == DriverEntry \/ ThreadFunction

Spec == Init /\ [][Next]_vars

(* What the worker's next step reads.                                      *)
Uses ==
  CASE worker = "GetPfn" -> {"ctx", "buffer"}
    [] worker \in {"CreateMdl", "Reserve", "SetEvent"} -> {"ctx"}
    [] worker \in {"Map", "Unmap"} -> {"buffer"}
    [] OTHER -> {}

(* The worker never uses the context, the buffer or a mapping of it after  *)
(* DriverEntry has freed them, provided it is done within the 10 s that    *)
(* DriverEntry waits.                                                      *)
MemoryOutlivesThread == inTime => Uses \subseteq memory

(* "content of PFN array is only valid when page is locked"                *)
(* (DriverEntry.c:47): what is mapped is a locked page, through an MDL and *)
(* at an address range that still exist; and whoever sees the event can    *)
(* rely on all three being gone.                                           *)
MappingBacked ==
  /\ "mapping" \in have => {"lock", "mdl", "range"} \subseteq have
  /\ done => have \subseteq {"lock"}
=============================================================================
