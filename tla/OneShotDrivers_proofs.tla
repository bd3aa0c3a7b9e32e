------------------------- MODULE OneShotDrivers_proofs -------------------------
(***************************************************************************)
(* Proofs about the drivers that do their work in DriverEntry, for buffers *)
(* of any size, any number of time stamps and any records of NUMA nodes:   *)
(* every safety property the run on OneShotDrivers checks.  One driver is  *)
(* loaded and the drivers share nothing, so each has an invariant of its   *)
(* own.                                                                    *)
(***************************************************************************)
EXTENDS OneShotDrivers, RunningSums, Sequences, TLAPS

(* What the assumption says of each constant on its own.                   *)
LEMMA Bounds ==
  /\ ROWS \in Nat \ {0} /\ MAX_SIZE \in Nat
  /\ MAX_NODES \in Nat /\ MAX_GROUPS \in Nat \ {0} /\ ULONG \in Nat
  BY ConstantsOK

-----------------------------------------------------------------------------
(* HarddiskDeviceTest: the inductive invariant, in named parts.            *)

(* Where the request is tells what is left of it and whether the event is  *)
(* set.                                                                    *)
Request ==
  /\ io \in {"device", "FreeMdl"} => {"irp", "mdl"} \subseteq live
  /\ io = "FreeIrp" => "irp" \in live /\ "mdl" \notin live
  /\ io \in {"SetEvent", "Return", "over"} => "irp" \notin live /\ "mdl" \notin live
  /\ event <=> io \in {"Return", "over"}

(* How far DoTest has come tells what exists that is not the request's.    *)
Sending ==
  /\ pc = "Open" => live = {}
  /\ pc = "Build" => live = {"file"}
  /\ pc = "Call" => live = {"file", "irp", "mdl", "buffer"}
  /\ pc \in {"InCall", "Wait", "Print", "Free"} => {"file", "buffer"} \subseteq live
  /\ pc \in {"Open", "Build", "Call"} <=> io = "none" /\ status # "failed"
  /\ io = "none" => ("mdl" \in live <=> "irp" \in live)
  /\ pc \in {"Open", "Build", "Call", "InCall", "Wait"} => i = 0
  /\ pc = "Print" => i < ROWS

(* Past the wait, a request is over unless the wait timed out, or there    *)
(* was none because the disk could not be opened.                          *)
OverUnlessTimeout ==
  /\ status = "failed" => pc \in {"Return", "Returned"} /\ io = "none" /\ live = {}
  /\ pc \in {"Return", "Returned"} /\ status # "failed" =>
       "buffer" \notin live /\ "file" \in live
  /\ pc \in {"Print", "Free", "Return", "Returned"} /\ status \notin {"failed", "timeout"} =>
       io \in {"Return", "over"}

HarddiskInv == Harddisk!TypeOK /\ Request /\ Sending /\ OverUnlessTimeout

-----------------------------------------------------------------------------
(* At first nothing is allocated and nothing sent.                         *)
LEMMA InitHarddiskInv == Harddisk!Init => HarddiskInv
<1> SUFFICES ASSUME Harddisk!Init
             PROVE  HarddiskInv
  OBVIOUS
<1>1. Harddisk!TypeOK
  <2>1. event \in BOOLEAN
    BY Zenon DEF Harddisk!Init
  <2>2. i \in 0 .. ROWS /\ transferred \in 0 .. ROWS
    BY Bounds DEF Harddisk!Init
  <2>3. QED
    BY <2>1, <2>2 DEF Harddisk!Init, Harddisk!TypeOK
<1>2. Request
  <2>1. ~ event /\ io = "none"
    BY DEF Harddisk!Init
  <2>2. QED
    BY <2>1 DEF Request
<1>3. Sending /\ OverUnlessTimeout
  BY DEF Harddisk!Init, Sending, OverUnlessTimeout
<1>4. QED
  BY <1>1, <1>2, <1>3 DEF HarddiskInv

(* A step of DoTest or of DriverEntry keeps the invariant.                 *)
LEMMA DoTestStep ==
  ASSUME HarddiskInv, Harddisk!DriverEntry
  PROVE  HarddiskInv'
<1> USE Bounds DEF HarddiskInv, Harddisk!TypeOK, Request, Sending, OverUnlessTimeout,
Harddisk!Goto
<1>1. CASE Harddisk!Open
  BY <1>1 DEF Harddisk!Open
<1>2. CASE Harddisk!Build
  BY <1>2 DEF Harddisk!Build
<1>3. CASE Harddisk!IoCallDriver
  BY <1>3 DEF Harddisk!IoCallDriver, Harddisk!IoGoto
<1>4. CASE Harddisk!CallReturns
  BY <1>4 DEF Harddisk!CallReturns, Harddisk!AfterPending
<1>5. CASE Harddisk!Wait
  BY <1>5 DEF Harddisk!Wait
<1>6. CASE Harddisk!PrintBufferContent
  BY <1>6 DEF Harddisk!PrintBufferContent
<1>7. CASE Harddisk!FreeBuffer
  BY <1>7 DEF Harddisk!FreeBuffer
<1>8. CASE Harddisk!DriverEntryFails
  BY <1>8 DEF Harddisk!DriverEntryFails
<1>9. QED
  BY <1>1, <1>2, <1>3, <1>4, <1>5, <1>6, <1>7, <1>8 DEF Harddisk!DriverEntry

(* So does one of the disk's driver or of the completion routine.          *)
LEMMA CompletionStep ==
  ASSUME HarddiskInv,
         Harddisk!Transfer \/ Harddisk!IoCompleteRequest \/ Harddisk!MyIoCompletion
  PROVE  HarddiskInv'
<1> USE Bounds DEF HarddiskInv, Harddisk!TypeOK, Request, Sending, OverUnlessTimeout,
Harddisk!IoGoto
<1>1. CASE Harddisk!Transfer
  BY <1>1 DEF Harddisk!Transfer
<1>2. CASE Harddisk!IoCompleteRequest
  BY <1>2 DEF Harddisk!IoCompleteRequest
<1>3. CASE Harddisk!FreeMdl
  BY <1>3 DEF Harddisk!FreeMdl
<1>4. CASE Harddisk!FreeIrp
  BY <1>4 DEF Harddisk!FreeIrp
<1>5. CASE Harddisk!SetEvent
  BY <1>5 DEF Harddisk!SetEvent
<1>6. CASE Harddisk!MyIoCompletionReturns
  BY <1>6 DEF Harddisk!MyIoCompletionReturns
<1>7. QED
  BY <1>1, <1>2, <1>3, <1>4, <1>5, <1>6 DEF Harddisk!MyIoCompletion

(* HarddiskInv is inductive.                                               *)
LEMMA NextHarddiskInv == HarddiskInv /\ [Harddisk!Next]_(Harddisk!vars) => HarddiskInv'
<1> SUFFICES ASSUME HarddiskInv, [Harddisk!Next]_(Harddisk!vars)
             PROVE  HarddiskInv'
  OBVIOUS
<1>1. CASE UNCHANGED Harddisk!vars
  BY <1>1 DEF Harddisk!vars, HarddiskInv, Harddisk!TypeOK, Request, Sending,
     OverUnlessTimeout
<1>2. CASE Harddisk!Next
  BY <1>2, DoTestStep, CompletionStep DEF Harddisk!Next
<1>3. QED
  BY <1>1, <1>2

-----------------------------------------------------------------------------
(* PtovTest: the inductive invariant, in named parts.                      *)

(* Where the worker is tells what it holds: the lock on the page from the  *)
(* first call on, and the rest from its taking to its giving back.         *)
Holding ==
  have = CASE worker \in {"none", "GetPfn"}       -> {}
           [] worker = "Reserve"                  -> {"lock", "mdl"}
           [] worker = "Map"                      -> {"lock", "mdl", "range"}
           [] worker = "Unmap"                    -> {"lock", "mdl", "range", "mapping"}
           [] worker = "FreeAddress"              -> {"lock", "mdl", "range"}
           [] worker = "FreeMdl"                  -> {"lock", "mdl"}
           [] OTHER                               -> {"lock"}

DoneAtLast == done <=> worker \in {"Return", "ended"}

(* The worker exists only with its buffer and context, which stay until    *)
(* DriverEntry has waited; then a worker that is done in time is done.     *)
Handed ==
  /\ entry \in {"Allocate", "Create"} => worker = "none"
  /\ entry \in {"Create", "Wait"} => memory = {"ctx", "buffer"}
  /\ inTime /\ entry \in {"FreeContext", "FreeBuffer", "Returned"} =>
       worker \in {"none", "Return", "ended"}

PtovInv == Ptov!TypeOK /\ Holding /\ DoneAtLast /\ Handed

(* At first there is neither memory nor a worker.                          *)
LEMMA InitPtovInv == Ptov!Init => PtovInv
  BY DEF Ptov!Init, PtovInv, Ptov!TypeOK, Holding, DoneAtLast, Handed

(* A step of DriverEntry keeps the invariant.                              *)
LEMMA PtovEntryStep ==
  ASSUME PtovInv, Ptov!DriverEntry
  PROVE  PtovInv'
<1> USE DEF PtovInv, Ptov!TypeOK, Holding, DoneAtLast, Handed, Ptov!Entry
<1>1. CASE Ptov!Allocate
  BY <1>1 DEF Ptov!Allocate
<1>2. CASE Ptov!CreateThread
  BY <1>2 DEF Ptov!CreateThread
<1>3. CASE Ptov!Wait
  BY <1>3 DEF Ptov!Wait, Ptov!WaitOver
<1>4. CASE Ptov!FreeAll
  BY <1>4 DEF Ptov!FreeAll, Ptov!Free
<1>5. QED
  BY <1>1, <1>2, <1>3, <1>4 DEF Ptov!DriverEntry

(* So does a step of the worker.                                           *)
LEMMA PtovWorkerStep ==
  ASSUME PtovInv, Ptov!ThreadFunction
  PROVE  PtovInv'
<1> USE DEF PtovInv, Ptov!TypeOK, Holding, DoneAtLast, Handed, Ptov!Worker, Ptov!Step
<1>1. CASE Ptov!GetFirstPfnFromVirtAddr \/ Ptov!CreateMdlByPfn
  BY <1>1 DEF Ptov!GetFirstPfnFromVirtAddr, Ptov!CreateMdlByPfn
<1>2. CASE Ptov!MapPage
  BY <1>2 DEF Ptov!MapPage
<1>3. CASE Ptov!UnmapPage
  BY <1>3 DEF Ptov!UnmapPage
<1>4. CASE Ptov!SetEventDone
  BY <1>4 DEF Ptov!SetEventDone
<1>5. CASE Ptov!ThreadEnds
  BY <1>5 DEF Ptov!ThreadEnds
<1>6. QED
  BY <1>1, <1>2, <1>3, <1>4, <1>5 DEF Ptov!ThreadFunction

(* PtovInv is inductive.                                                   *)
LEMMA NextPtovInv == PtovInv /\ [Ptov!Next]_(Ptov!vars) => PtovInv'
<1> SUFFICES ASSUME PtovInv, [Ptov!Next]_(Ptov!vars)
             PROVE  PtovInv'
  OBVIOUS
<1>1. CASE UNCHANGED Ptov!vars
  BY <1>1 DEF Ptov!vars, PtovInv, Ptov!TypeOK, Holding, DoneAtLast, Handed
<1>2. CASE Ptov!Next
  BY <1>2, PtovEntryStep, PtovWorkerStep DEF Ptov!Next
<1>3. QED
  BY <1>1, <1>2

-----------------------------------------------------------------------------
(* KernelThreadTest: the inductive invariant.                              *)

(* A thread's event is set exactly when the thread is done, the first one  *)
(* is on its way out only after the notification, having freed the time    *)
(* stamps, and DriverEntry returns only with both events set.              *)
Joining ==
  /\ main = "Create1" => thread1 = "none"
  /\ main \in {"Create1", "Create2"} => thread2 = "none"
  /\ 0 \in signalled <=> thread1 = "done"
  /\ 1 \in signalled <=> thread2 = "done"
  /\ thread1 \in {"Free", "SetEvent", "done"} => notify
  /\ thread1 \in {"SetEvent", "done"} => counter = "freed"
  /\ main = "Returned" => signalled = {0, 1}

ThreadsInv == Threads!TypeOK /\ Joining

(* At first there are no threads.                                          *)
LEMMA InitThreadsInv == Threads!Init => ThreadsInv
<1> SUFFICES ASSUME Threads!Init
             PROVE  ThreadsInv
  OBVIOUS
<1>1. Threads!TypeOK
  <2>1. notify \in BOOLEAN
    BY Zenon DEF Threads!Init
  <2>2. count \in 0 .. MAX_SIZE
    BY Bounds DEF Threads!Init
  <2>3. QED
    BY <2>1, <2>2 DEF Threads!Init, Threads!TypeOK
<1>2. Joining
  <2>1. /\ main = "Create1" /\ thread1 = "none" /\ thread2 = "none"
        /\ signalled = {}
    BY DEF Threads!Init
  <2>2. QED
    BY <2>1 DEF Joining
<1>3. QED
  BY <1>1, <1>2 DEF ThreadsInv

(* ThreadsInv is inductive.                                                *)
LEMMA NextThreadsInv == ThreadsInv /\ [Threads!Next]_(Threads!vars) => ThreadsInv'
<1> SUFFICES ASSUME ThreadsInv, [Threads!Next]_(Threads!vars)
             PROVE  ThreadsInv'
  OBVIOUS
<1> USE Bounds DEF ThreadsInv, Threads!TypeOK, Joining
<1>1. CASE UNCHANGED Threads!vars
  BY <1>1 DEF Threads!vars
<1>2. CASE Threads!DriverEntry
  BY <1>2 DEF Threads!DriverEntry, Threads!CreateThread1, Threads!CreateThread2,
     Threads!WaitForBoth, Threads!AllSignalled, Threads!Main
<1>3. CASE Threads!SetEventNotify1
  BY <1>3 DEF Threads!SetEventNotify1
<1>4. CASE Threads!AllocateCounter \/ Threads!Poll \/ Threads!FreeCounter
  BY <1>4 DEF Threads!AllocateCounter, Threads!Poll, Threads!FreeCounter, Threads!Thread1
<1>5. CASE Threads!Store
  BY <1>5 DEF Threads!Store, Threads!Room, Threads!Thread1
<1>6. CASE Threads!Thread1Done
  BY <1>6 DEF Threads!Thread1Done, Threads!Thread1
<1>7. CASE Threads!ThreadFunction2
  BY <1>7 DEF Threads!ThreadFunction2
<1>8. QED
  BY <1>1, <1>2, <1>3, <1>4, <1>5, <1>6, <1>7 DEF Threads!Next, Threads!ThreadFunction1

-----------------------------------------------------------------------------
(* BigNumaNodeTest: the inductive invariant, in named parts.               *)

(* The groups reported are a sequence of small numbers, as the kernel      *)
(* leaves them.                                                            *)
Records ==
  /\ Len(groups) \in 0 .. MAX_NODES
  /\ groups \in [1 .. Len(groups) -> 0 .. MAX_GROUPS]

RecordSizes == [r \in 1 .. Len(groups) |-> Numa!RecordSize(r)]

(* Where the masks of a record are, and those of all records before it.    *)
RecordMasks(r) ==
  {Numa!Start[r] + Numa!HEADER + m : m \in 0 .. Numa!MasksOf(groups[r]) - 1}
MasksBefore(r) == UNION {RecordMasks(q) : q \in 1 .. r - 1}

(* The walk is at record r, or past the last one: offset is where it       *)
(* starts, size what is left from there on, and the masks of the records   *)
(* before it and the first j of its own are printed.                       *)
At(r) ==
  /\ offset = Numa!Start[r] /\ size = Numa!Total - Numa!Start[r]
  /\ step = "Record" => printed = MasksBefore(r)
  /\ step = "Masks" =>
       /\ r <= Len(groups) /\ j <= Numa!MasksOf(groups[r])
       /\ printed = MasksBefore(r) \cup {offset + Numa!HEADER + m : m \in 0 .. j - 1}

Walking ==
  /\ step = "Query" => offset = 0 /\ size = 0 /\ printed = {}
  /\ step \in {"Record", "Masks"} => \E r \in 1 .. Len(groups) + 1 : At(r)
  /\ printed \subseteq Numa!Masks

NumaInv == Numa!TypeOK /\ Walking

-----------------------------------------------------------------------------
(* BigNumaNodeTest: where the records are.                                 *)

(* What the type says of the groups.                                       *)
LEMMA RecordsAre ==
  ASSUME groups \in Numa!SeqOf(0 .. MAX_GROUPS, MAX_NODES)
  PROVE  Records
<1>1. PICK m \in 0 .. MAX_NODES : groups \in [1 .. m -> 0 .. MAX_GROUPS]
  BY DEF Numa!SeqOf
<1>2. groups \in Seq(0 .. MAX_GROUPS) /\ Len(groups) = m
  BY <1>1, Bounds
<1>3. QED
  BY <1>1, <1>2 DEF Records

(* A record has its header and at least one mask.                          *)
LEMMA SizesAre ==
  ASSUME Records
  PROVE  RecordSizes \in [1 .. Len(groups) -> 3 .. 2 + MAX_GROUPS]
  BY Bounds DEF Records, RecordSizes, Numa!RecordSize, Numa!MasksOf, Numa!HEADER

(* The recursive definition of Start does define a function, the running   *)
(* sum of the records' sizes: there is one (SumsExist), so CHOOSE takes    *)
(* one.                                                                    *)
LEMMA StartSums ==
  ASSUME Records
  PROVE  SumsOf(Numa!Start, RecordSizes, Len(groups))
<1>1. Len(groups) \in Nat /\ RecordSizes \in [1 .. Len(groups) -> Nat]
  BY Bounds, SizesAre DEF Records
<1>2. \A f : RunningSum(f, RecordSizes, Len(groups)) <=>
              f = [r \in 1 .. Len(groups) + 1 |->
                     IF r = 1 THEN 0 ELSE f[r - 1] + Numa!RecordSize(r - 1)]
  <2> TAKE f
  <2>1. \A r \in 1 .. Len(groups) + 1 :
          r # 1 => RecordSizes[r - 1] = Numa!RecordSize(r - 1)
    BY <1>1 DEF RecordSizes
  <2>2. [r \in 1 .. Len(groups) + 1 |-> IF r = 1 THEN 0 ELSE f[r - 1] + RecordSizes[r - 1]]
          = [r \in 1 .. Len(groups) + 1 |->
               IF r = 1 THEN 0 ELSE f[r - 1] + Numa!RecordSize(r - 1)]
    BY <2>1
  <2>3. QED
    BY <2>2 DEF RunningSum
<1>3. \E f : f = [r \in 1 .. Len(groups) + 1 |->
                    IF r = 1 THEN 0 ELSE f[r - 1] + Numa!RecordSize(r - 1)]
  BY <1>1, <1>2, SumsExist
<1>4. Numa!Start = [r \in 1 .. Len(groups) + 1 |->
                      IF r = 1 THEN 0 ELSE Numa!Start[r - 1] + Numa!RecordSize(r - 1)]
  BY <1>3, Zenon DEF Numa!Start
<1>5. RunningSum(Numa!Start, RecordSizes, Len(groups))
  BY <1>2, <1>4
<1>6. QED
  BY <1>1, <1>5, SumsAre

(* Start depends on nothing but groups.                                    *)
LEMMA StartStays ==
  ASSUME groups' = groups
  PROVE  Numa!Start' = Numa!Start
  BY Zenon DEF Numa!Start, Numa!RecordSize, Numa!MasksOf, Numa!HEADER

(* Start, value by value: each record starts where the one before it ends, *)
(* and no two at the same place.                                           *)
LEMMA StartType ==
  ASSUME Records
  PROVE  /\ Numa!Start \in [1 .. Len(groups) + 1 -> Nat]
         /\ Numa!Start[1] = 0
         /\ \A r \in 1 .. Len(groups) :
              /\ Numa!RecordSize(r) \in 3 .. 2 + MAX_GROUPS
              /\ Numa!Start[r + 1] = Numa!Start[r] + Numa!RecordSize(r)
         /\ \A q, r \in 1 .. Len(groups) + 1 : q < r => Numa!Start[q] < Numa!Start[r]
         /\ Len(groups) \in Nat
<1>1. Len(groups) \in Nat /\ DOMAIN groups = 1 .. Len(groups)
  BY Bounds DEF Records
<1>2. \A r \in 1 .. Len(groups) : Numa!RecordSize(r) \in 3 .. 2 + MAX_GROUPS
  BY SizesAre DEF RecordSizes
<1>3. SumsOf(Numa!Start, RecordSizes, Len(groups))
  BY StartSums
<1>4. \A r \in 1 .. Len(groups) : Numa!Start[r + 1] = Numa!Start[r] + Numa!RecordSize(r)
  BY <1>3 DEF SumsOf, RecordSizes
<1>5. \A q, r \in 1 .. Len(groups) + 1 : q < r => Numa!Start[q] < Numa!Start[r]
  <2>1. RecordSizes \in [1 .. Len(groups) -> Nat \ {0}]
    BY <1>2, Bounds DEF RecordSizes
  <2>2. QED
    BY <1>1, <1>3, <2>1, SumsGrow, Zenon
<1>6. QED
  BY <1>1, <1>2, <1>3, <1>4, <1>5 DEF SumsOf

(* The size of all records fits the ULONG that reports it.                 *)
LEMMA TotalFits ==
  ASSUME Records
  PROVE  Numa!Total \in 0 .. ULONG - 1
<1>1. Len(groups) \in Nat /\ 2 + MAX_GROUPS \in Nat
  BY Bounds DEF Records
<1>2. RecordSizes \in [1 .. Len(groups) -> 0 .. 2 + MAX_GROUPS]
  BY SizesAre, Bounds
<1>3. SumsOf(Numa!Start, RecordSizes, Len(groups))
  BY StartSums
<1>4. Numa!Total <= Len(groups) * (2 + MAX_GROUPS)
  BY <1>1, <1>2, <1>3, SumsBounded DEF Numa!Total
<1>5. Len(groups) * (2 + MAX_GROUPS) <= MAX_NODES * (2 + MAX_GROUPS)
  <2>1. \A a, b, c \in Nat : a <= b => a * c <= b * c
    OBVIOUS
  <2>2. QED
    BY <1>1, <2>1, Bounds DEF Records
<1>6. Numa!Total \in Nat
  BY <1>1, StartType DEF Numa!Total
<1>7. MAX_NODES * (2 + MAX_GROUPS) \in Nat /\ Len(groups) * (2 + MAX_GROUPS) \in Nat
  BY <1>1, Bounds
<1>8. QED
  BY <1>4, <1>5, <1>6, <1>7, ConstantsOK

(* At the start of a record, what the code reads through info is that      *)
(* record's.                                                               *)
LEMMA RecordFound ==
  ASSUME Records, NEW r \in 1 .. Len(groups), offset = Numa!Start[r]
  PROVE  Numa!GroupCount = groups[r] /\ Numa!Size = Numa!RecordSize(r)
<1>1. \A q \in 1 .. Len(groups) : Numa!Start[q] = Numa!Start[r] => q = r
  <2> SUFFICES ASSUME NEW q \in 1 .. Len(groups), Numa!Start[q] = Numa!Start[r], q # r
               PROVE  FALSE
    OBVIOUS
  <2>1. q < r \/ r < q
    BY StartType
  <2>2. Numa!Start[q] \in Nat /\ q \in 1 .. Len(groups) + 1 /\ r \in 1 .. Len(groups) + 1
    BY StartType
  <2>3. QED
    BY <2>1, <2>2, StartType
<1>2. Numa!RecordsAt = {r}
  BY <1>1 DEF Numa!RecordsAt
<1>3. (CHOOSE q \in Numa!RecordsAt : TRUE) = r
  BY <1>2
<1>4. QED
  BY <1>2, <1>3 DEF Numa!GroupCount, Numa!Size

(* The masks before a record, one record at a time.                        *)
LEMMA MasksSplit ==
  ASSUME Records
  PROVE  /\ MasksBefore(1) = {}
         /\ MasksBefore(Len(groups) + 1) = Numa!Masks
         /\ \A r \in 1 .. Len(groups) :
              MasksBefore(r + 1) = MasksBefore(r) \cup RecordMasks(r)
         /\ \A r \in 1 .. Len(groups) : RecordMasks(r) \subseteq Numa!Masks
         /\ \A r \in 1 .. Len(groups) + 1 : MasksBefore(r) \subseteq Numa!Masks
<1>1. Len(groups) \in Nat /\ DOMAIN groups = 1 .. Len(groups)
  BY Bounds DEF Records
<1>2. Numa!Masks = UNION {RecordMasks(q) : q \in 1 .. Len(groups)}
  BY <1>1 DEF Numa!Masks, RecordMasks
<1>3. MasksBefore(1) = {}
  BY DEF MasksBefore
<1>4. MasksBefore(Len(groups) + 1) = Numa!Masks
  <2>1. (Len(groups) + 1) - 1 = Len(groups)
    BY <1>1
  <2>2. QED
    BY <1>2, <2>1 DEF MasksBefore
<1>5. ASSUME NEW r \in 1 .. Len(groups)
      PROVE  MasksBefore(r + 1) = MasksBefore(r) \cup RecordMasks(r)
  <2>1. 1 .. (r + 1) - 1 = (1 .. r - 1) \cup {r}
    BY <1>1
  <2>2. QED
    BY <2>1, Zenon DEF MasksBefore
<1>6. \A r \in 1 .. Len(groups) : RecordMasks(r) \subseteq Numa!Masks
  BY <1>2, Zenon
<1>7. \A r \in 1 .. Len(groups) + 1 : MasksBefore(r) \subseteq Numa!Masks
  <2> TAKE r \in 1 .. Len(groups) + 1
  <2>1. 1 .. r - 1 \subseteq 1 .. Len(groups)
    BY <1>1
  <2>2. QED
    BY <1>6, <2>1, Zenon DEF MasksBefore
<1>8. QED
  BY <1>3, <1>4, <1>5, <1>6, <1>7

-----------------------------------------------------------------------------
(* At first the query is to be made.                                       *)
LEMMA InitNumaInv == Numa!Init => NumaInv
<1> SUFFICES ASSUME Numa!Init
             PROVE  NumaInv
  OBVIOUS
<1>1. groups \in Numa!SeqOf(0 .. MAX_GROUPS, MAX_NODES)
  BY DEF Numa!Init
<1>2. Numa!Total \in 0 .. ULONG - 1
  BY <1>1, RecordsAre, TotalFits
<1>3. QED
  BY <1>1, <1>2, Bounds DEF Numa!Init, NumaInv, Numa!TypeOK, Walking

(* NumaInv is inductive: PrintMask prints the next mask of the record the  *)
(* walk is at, Advance takes it to the next record, and neither remainder  *)
(* modulo ULONG changes anything.                                          *)
LEMMA NextNumaInv == NumaInv /\ [Numa!Next]_(Numa!vars) => NumaInv'
<1> SUFFICES ASSUME NumaInv, [Numa!Next]_(Numa!vars)
             PROVE  NumaInv'
  OBVIOUS
<1>1. groups' = groups
  BY DEF Numa!Next, Numa!Query, Numa!NextRecord, Numa!PrintMask, Numa!Advance,
     Numa!FreeBuffer, Numa!Goto, Numa!vars
<1>2. Records
  BY RecordsAre DEF NumaInv, Numa!TypeOK
<1>3. /\ Numa!Start' = Numa!Start /\ Numa!Total' = Numa!Total
      /\ \A r : (Numa!MasksOf(groups[r]))' = Numa!MasksOf(groups[r])
  BY <1>1, StartStays DEF Numa!Total
<1>4. /\ Numa!Masks' = Numa!Masks
      /\ \A r : MasksBefore(r)' = MasksBefore(r)
  <2>1. \A r : RecordMasks(r)' = RecordMasks(r)
    BY <1>1, <1>3, Zenon DEF RecordMasks
  <2>2. \A r : MasksBefore(r)' = MasksBefore(r)
    BY <2>1, Zenon DEF MasksBefore
  <2>3. Numa!Masks' = Numa!Masks
    <3>1. Numa!Masks = UNION {RecordMasks(r) : r \in DOMAIN groups}
      BY DEF Numa!Masks, RecordMasks
    <3>2. Numa!Masks' = UNION {RecordMasks(r)' : r \in DOMAIN groups'}
      BY DEF Numa!Masks, RecordMasks
    <3>3. QED
      BY <1>1, <2>1, <3>1, <3>2, Zenon
  <2>4. QED
    BY <2>2, <2>3
<1>5. /\ ULONG \in Nat /\ MAX_GROUPS \in Nat \ {0} /\ Len(groups) \in Nat
      /\ Numa!Total \in 0 .. ULONG - 1
  BY <1>2, Bounds, TotalFits, StartType
<1>6. \A r \in 1 .. Len(groups) + 1 : Numa!Start[r] \in 0 .. Numa!Total
  BY <1>2, <1>5, StartType DEF Numa!Total
<1>7. groups \in Numa!SeqOf(0 .. MAX_GROUPS, MAX_NODES)
  BY DEF NumaInv, Numa!TypeOK
<1> USE <1>1, <1>3, <1>4 DEF NumaInv, Walking
<1>8. CASE UNCHANGED Numa!vars
  <2>1. Numa!TypeOK'
    BY <1>8 DEF Numa!vars, Numa!TypeOK
  <2>2. ASSUME NEW r \in 1 .. Len(groups) + 1, At(r)
        PROVE  At(r)'
    BY <1>8, <2>2 DEF Numa!vars, At
  <2>3. Walking'
    BY <1>8, <2>2 DEF Numa!vars
  <2>4. QED
    BY <2>1, <2>3
<1>9. CASE Numa!Query
  <2>1. CASE Numa!Goto("Query", "Record") /\ size' = Numa!Total
    <3>1. At(1)'
      <4>1. Numa!Start[1] = 0 /\ MasksBefore(1)' = {} /\ Numa!Total - 0 = Numa!Total
        BY <1>2, <1>4, <1>5, StartType, MasksSplit
      <4>2. /\ step' = "Record" /\ offset' = 0 /\ size' = Numa!Total
            /\ printed' = {}
        BY <1>9, <2>1 DEF Numa!Query, Numa!Goto
      <4>3. QED
        BY <1>3, <4>1, <4>2 DEF At
    <3>2. 1 \in 1 .. Len(groups) + 1
      BY <1>5
    <3>3. Numa!TypeOK'
      BY <1>5, <1>7, <1>9, <2>1 DEF Numa!Query, Numa!Goto, Numa!TypeOK
    <3>4. Walking'
      BY <1>9, <2>1, <3>1, <3>2 DEF Numa!Query, Numa!Goto
    <3>5. QED
      BY <3>3, <3>4
  <2>2. CASE Numa!Goto("Query", "Free") /\ size' = size
    BY <1>7, <1>9, <2>2 DEF Numa!Query, Numa!Goto, Numa!TypeOK
  <2>3. QED
    BY <1>9, <2>1, <2>2 DEF Numa!Query
<1>10. CASE Numa!NextRecord
  <2>1. PICK r \in 1 .. Len(groups) + 1 : At(r)
    BY <1>10 DEF Numa!NextRecord, Numa!Goto
  <2>2. CASE Numa!Remaining
    <3>1. r # Len(groups) + 1
      BY <1>5, <2>1, <2>2, <1>6 DEF Numa!Remaining, At, Numa!Total
    <3>2. Numa!MasksOf(groups[r]) \in Nat
      BY <1>2, <1>5, <3>1 DEF Records, Numa!MasksOf
    <3>3. At(r)'
      BY <1>5, <1>10, <2>1, <2>2, <3>1, <3>2 DEF Numa!NextRecord, Numa!Goto, At
    <3>4. QED
      BY <1>5, <1>7, <1>10, <2>2, <3>3 DEF Numa!NextRecord, Numa!Goto, Numa!TypeOK
  <2>3. CASE ~ Numa!Remaining
    BY <1>5, <1>7, <1>10, <2>3 DEF Numa!NextRecord, Numa!Goto, Numa!TypeOK
  <2>4. QED
    BY <2>2, <2>3
<1>11. CASE Numa!PrintMask
  <2>1. PICK r \in 1 .. Len(groups) + 1 : At(r)
    BY <1>11 DEF Numa!PrintMask, Numa!Goto
  <2>2. r \in 1 .. Len(groups) /\ offset = Numa!Start[r]
    BY <1>5, <1>11, <2>1 DEF Numa!PrintMask, Numa!Goto, At
  <2>3. /\ j < Numa!MasksOf(groups[r]) /\ j \in Nat
        /\ Numa!MasksOf(groups[r]) \in 1 .. MAX_GROUPS
    BY <1>2, <1>5, <1>11, <2>2, RecordFound
    DEF Numa!PrintMask, Numa!MoreMasks, Numa!TypeOK, Records, Numa!MasksOf
  <2>4. offset + Numa!HEADER + j \in RecordMasks(r) /\ offset + Numa!HEADER + j \in Nat
    BY <1>5, <2>2, <2>3, <1>6 DEF RecordMasks, Numa!HEADER
  <2>5. 0 .. (j + 1) - 1 = (0 .. j - 1) \cup {j}
    BY <2>3
  <2>6. At(r)'
    BY <1>11, <2>1, <2>2, <2>3, <2>5 DEF Numa!PrintMask, Numa!Goto, At
  <2>7. printed' \subseteq Numa!Masks
    BY <1>2, <1>11, <2>2, <2>4, MasksSplit DEF Numa!PrintMask
  <2>8. Numa!TypeOK'
    <3>1. printed' \subseteq Nat
      BY <1>11, <2>4, Zenon DEF Numa!PrintMask, Numa!TypeOK
    <3>2. j' = j + 1 /\ j + 1 \in 0 .. MAX_GROUPS
      BY <1>5, <1>11, <2>3 DEF Numa!PrintMask
    <3>3. QED
      BY <1>7, <1>11, <3>1, <3>2 DEF Numa!PrintMask, Numa!Goto, Numa!TypeOK
  <2>9. Walking'
    BY <1>11, <2>6, <2>7 DEF Numa!PrintMask, Numa!Goto
  <2>10. QED
    BY <2>8, <2>9
<1>12. CASE Numa!Advance
  <2>1. PICK r \in 1 .. Len(groups) + 1 : At(r)
    BY <1>12 DEF Numa!Advance, Numa!Goto
  <2>2. r \in 1 .. Len(groups) /\ offset = Numa!Start[r]
    BY <1>5, <1>12, <2>1 DEF Numa!Advance, Numa!Goto, At
  <2>3. /\ j = Numa!MasksOf(groups[r])
    BY <1>2, <1>5, <1>12, <2>1, <2>2, RecordFound
    DEF Numa!Advance, Numa!Goto, Numa!MoreMasks, Numa!TypeOK, Records, Numa!MasksOf, At
  <2>4. printed = MasksBefore(r + 1)
    BY <1>2, <1>12, <2>1, <2>2, <2>3, MasksSplit
    DEF Numa!Advance, Numa!Goto, At, RecordMasks
  <2>5. /\ Numa!Size \in Nat
        /\ Numa!Start[r + 1] = offset + Numa!Size
        /\ Numa!Start[r + 1] \in 0 .. Numa!Total /\ offset \in Nat
    BY <1>2, <1>5, <1>6, <2>2, RecordFound, StartType
  <2>6. offset' = Numa!Start[r + 1] /\ size' = Numa!Total - Numa!Start[r + 1]
    <3>1. /\ \A x \in 0 .. ULONG - 1 : x % ULONG = x
          /\ \A x \in 0 .. ULONG - 1 : (x + ULONG) % ULONG = x
      BY <1>5
    <3>2. size + ULONG - Numa!Size = (Numa!Total - Numa!Start[r + 1]) + ULONG
      BY <1>5, <2>1, <2>5 DEF At
    <3>3. /\ Numa!Start[r + 1] \in 0 .. ULONG - 1
          /\ Numa!Total - Numa!Start[r + 1] \in 0 .. ULONG - 1
      BY <1>5, <2>5
    <3>4. QED
      BY <1>12, <2>5, <3>1, <3>2, <3>3, Zenon DEF Numa!Advance
  <2>7. r + 1 \in 1 .. Len(groups) + 1 /\ At(r + 1)'
    BY <1>12, <2>2, <2>4, <2>6 DEF Numa!Advance, Numa!Goto, At
  <2>8. Numa!TypeOK'
    BY <1>5, <1>7, <1>12, <2>5, <2>6 DEF Numa!Advance, Numa!Goto, Numa!TypeOK
  <2>9. Walking'
    BY <1>12, <2>7 DEF Numa!Advance, Numa!Goto
  <2>10. QED
    BY <2>8, <2>9
<1>13. CASE Numa!FreeBuffer
  BY <1>7, <1>13 DEF Numa!FreeBuffer, Numa!Goto, Numa!TypeOK
<1>14. QED
  BY <1>8, <1>9, <1>10, <1>11, <1>12, <1>13 DEF Numa!Next

(* When size is 0 at a record, the walk is past the last one: the sums of  *)
(* the sizes before the others are smaller than the total.                 *)
LEMMA PrintsAll == NumaInv => Numa!PrintsEveryMask
<1> SUFFICES ASSUME NumaInv, step = "Record", size = 0
             PROVE  printed = Numa!Masks
  BY DEF NumaInv, Walking, Numa!PrintsEveryMask
<1>1. Records
  BY RecordsAre DEF NumaInv, Numa!TypeOK
<1>2. PICK r \in 1 .. Len(groups) + 1 : At(r)
  BY DEF NumaInv, Walking
<1>3. r = Len(groups) + 1
  <2>1. Numa!Start[Len(groups) + 1] - Numa!Start[r] = 0
    BY <1>2 DEF At, Numa!Total
  <2>2. /\ Len(groups) + 1 \in 1 .. Len(groups) + 1
        /\ Numa!Start[r] \in Nat /\ Numa!Start[Len(groups) + 1] \in Nat
    BY <1>1, StartType
  <2>3. r < Len(groups) + 1 => Numa!Start[r] < Numa!Start[Len(groups) + 1]
    BY <1>1, <2>2, StartType
  <2>4. QED
    BY <1>1, <2>1, <2>2, <2>3, StartType
<1>4. QED
  BY <1>1, <1>2, <1>3, MasksSplit DEF At

-----------------------------------------------------------------------------
(* The composition.                                                        *)

IInv ==
  /\ loaded \in {"Harddisk", "Ptov", "Threads", "Numa"}
  /\ HarddiskInv /\ PtovInv /\ ThreadsInv /\ NumaInv

(* Each driver starts in its own initial state.                            *)
LEMMA InitIInv == Init => IInv
  BY InitHarddiskInv, InitPtovInv, InitThreadsInv, InitNumaInv DEF Init, IInv

(* A step is one of one driver, or none of any.                            *)
LEMMA StepOfOne ==
  ASSUME [Next]_vars
  PROVE  /\ [Harddisk!Next]_(Harddisk!vars)
         /\ [Ptov!Next]_(Ptov!vars)
         /\ [Threads!Next]_(Threads!vars)
         /\ [Numa!Next]_(Numa!vars)
         /\ UNCHANGED loaded
<1> USE DEF vars, harddiskVars, ptovVars, threadsVars, numaVars, Harddisk!vars, Ptov!vars,
Threads!vars, Numa!vars
<1>1. CASE UNCHANGED vars
  BY <1>1
<1>2. CASE HarddiskNext
  BY <1>2 DEF HarddiskNext
<1>3. CASE PtovNext
  BY <1>3 DEF PtovNext
<1>4. CASE ThreadsNext
  BY <1>4 DEF ThreadsNext
<1>5. CASE NumaNext
  BY <1>5 DEF NumaNext
<1>6. QED
  BY <1>1, <1>2, <1>3, <1>4, <1>5 DEF Next

(* IInv is inductive.                                                      *)
LEMMA NextIInv == IInv /\ [Next]_vars => IInv'
<1> SUFFICES ASSUME IInv, [Next]_vars
             PROVE  IInv'
  OBVIOUS
<1>1. loaded' \in {"Harddisk", "Ptov", "Threads", "Numa"}
  BY StepOfOne DEF IInv
<1>2. HarddiskInv' /\ PtovInv' /\ ThreadsInv' /\ NumaInv'
  BY StepOfOne, NextHarddiskInv, NextPtovInv, NextThreadsInv, NextNumaInv DEF IInv
<1>3. QED
  BY <1>1, <1>2 DEF IInv

(* IInv holds throughout, fairness or not.                                 *)
LEMMA Invariance == Spec => []IInv
  BY InitIInv, NextIInv, PTL DEF Spec

-----------------------------------------------------------------------------
(* Every variable keeps its type.  For NumaWalk this says that the ULONG   *)
(* size never wraps below 0, and offset never leaves its range.            *)
THEOREM TypeCorrect == Spec => []TypeOK
<1>1. IInv => TypeOK
  BY DEF IInv, HarddiskInv, PtovInv, ThreadsInv, NumaInv, TypeOK
<1>2. QED
  BY <1>1, Invariance, PTL

(* HarddiskDeviceTest: the event says that the IRP and the MDL are gone,   *)
(* in this order.                                                          *)
THEOREM EventMeansReleased == Spec => []ReleasedBeforeEvent
<1>1. IInv => ReleasedBeforeEvent
  BY DEF IInv, HarddiskInv, Harddisk!TypeOK, Request, Sending, ReleasedBeforeEvent,
     Harddisk!ReleasedBeforeEvent
<1>2. QED
  BY <1>1, Invariance, PTL

(* Whichever way DriverEntry came to its return, nothing but the file      *)
(* object's reference is left over then, unless the wait timed out.        *)
THEOREM OnlyFileLeft == Spec => []OnlyFileLeftOver
<1>1. IInv => OnlyFileLeftOver
  BY DEF IInv, HarddiskInv, Harddisk!TypeOK, Request, OverUnlessTimeout, OnlyFileLeftOver,
     Harddisk!OnlyFileLeftOver
<1>2. QED
  BY <1>1, Invariance, PTL

(* However many rows there are, the device stores into a buffer that is    *)
(* being printed or has been freed only behind a wait that timed out.      *)
THEOREM OnlyTimeoutTears == Spec => BufferStable
<1>1. IInv /\ [Next]_vars =>
        [((pc \in {"Print", "Free", "Return", "Returned"}) /\ status # "timeout") =>
           UNCHANGED transferred]_(Harddisk!vars)
  <2> SUFFICES ASSUME IInv, [Next]_vars, status # "timeout",
                      pc \in {"Print", "Free", "Return", "Returned"}
               PROVE  UNCHANGED transferred
    OBVIOUS
  <2>1. io # "device"
    BY DEF IInv, HarddiskInv, OverUnlessTimeout
  <2>2. [Harddisk!Next]_(Harddisk!vars)
    BY StepOfOne
  <2>3. QED
    BY <2>1, <2>2 DEF Harddisk!vars, Harddisk!Next, Harddisk!DriverEntry, Harddisk!Open,
       Harddisk!Build, Harddisk!IoCallDriver, Harddisk!CallReturns, Harddisk!Wait,
       Harddisk!PrintBufferContent, Harddisk!FreeBuffer, Harddisk!DriverEntryFails,
       Harddisk!Transfer, Harddisk!IoCompleteRequest, Harddisk!MyIoCompletion,
       Harddisk!FreeMdl, Harddisk!FreeIrp, Harddisk!SetEvent,
       Harddisk!MyIoCompletionReturns, Harddisk!IoGoto
<1>2. QED
  BY <1>1, Invariance, PTL DEF Spec, BufferStable, Harddisk!BufferStable

(* PtovTest: a worker done within the 10 s never uses freed memory.        *)
THEOREM MemoryOutlives == Spec => []MemoryOutlivesThread
<1>1. IInv => MemoryOutlivesThread
  BY DEF IInv, PtovInv, Ptov!TypeOK, Handed, MemoryOutlivesThread,
     Ptov!MemoryOutlivesThread, Ptov!Uses
<1>2. QED
  BY <1>1, Invariance, PTL

(* What the worker maps is a locked page described by an MDL, and its      *)
(* event says that mapping, range and MDL are gone.                        *)
THEOREM MappingIsBacked == Spec => []MappingBacked
<1>1. IInv => MappingBacked
  BY DEF IInv, PtovInv, Ptov!TypeOK, Holding, DoneAtLast, MappingBacked,
     Ptov!MappingBacked
<1>2. QED
  BY <1>1, Invariance, PTL

(* KernelThreadTest: DriverEntry returns only after both threads, however  *)
(* many time stamps there is room for.                                     *)
THEOREM ThreadsJoined == Spec => []ThreadsEndFirst
<1>1. IInv => ThreadsEndFirst
  BY DEF IInv, ThreadsInv, Joining, ThreadsEndFirst, Threads!ThreadsEndFirst
<1>2. QED
  BY <1>1, Invariance, PTL

(* BigNumaNodeTest: the walk prints every mask of every record and reads   *)
(* nothing else, for any sequence of records the ULONG can count.          *)
THEOREM WalkIsExact == Spec => []PrintsEveryMask
<1>1. IInv => PrintsEveryMask
  BY PrintsAll DEF IInv, PrintsEveryMask
<1>2. QED
  BY <1>1, Invariance, PTL
=============================================================================
