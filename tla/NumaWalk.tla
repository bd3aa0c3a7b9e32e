------------------------------- MODULE NumaWalk -------------------------------
(***************************************************************************)
(* BigNumaNodeTest/DriverEntry.cpp: DetectBigNumaNode asks for the NUMA    *)
(* nodes and walks the records it gets, whose lengths differ, printing the *)
(* group masks of each.  Offsets and sizes are in units of 16 bytes: the   *)
(* fields before the masks take two, a mask takes one.  The loop over node *)
(* numbers before it only prints and is left out.                          *)
(***************************************************************************)
EXTENDS Naturals, SequencesExt

CONSTANTS
  MAX_NODES, MAX_GROUPS,  \* of the machines looked at
  ULONG                   \* the size's range, as many units as it can count

HEADER == 2

VARIABLES
  step,      \* "Query", "Record", "Masks", "Free" or "Returned"
  groups,    \* what the kernel returns: the GroupCount of each record
  offset, size,
  j,         \* masks of this record printed
  printed    \* history: the addresses of the masks printed

vars == <<step, groups, offset, size, j, printed>>

(* A record has room for one mask even if its GroupCount is 0, as older    *)
(* versions leave it.                                                      *)
MasksOf(count) == IF count = 0 THEN 1 ELSE count
RecordSize(r)  == HEADER + MasksOf(groups[r])
Start[r \in 1 .. Len(groups) + 1] ==
  IF r = 1 THEN 0 ELSE Start[r - 1] + RecordSize(r - 1)
Total == Start[Len(groups) + 1]

(* The record at offset; zeros where there is none.                        *)
RecordsAt == {r \in 1 .. Len(groups) : Start[r] = offset}
GroupCount == IF RecordsAt = {} THEN 0 ELSE groups[CHOOSE r \in RecordsAt : TRUE]
Size       == IF RecordsAt = {} THEN 0 ELSE RecordSize(CHOOSE r \in RecordsAt : TRUE)

TypeOK ==
  /\ step \in {"Query", "Record", "Masks", "Free", "Returned"}
  /\ groups \in SeqOf(0 .. MAX_GROUPS, MAX_NODES)
  /\ {offset, size} \subseteq 0 .. ULONG - 1
  /\ j \in 0 .. MAX_GROUPS
  /\ printed \subseteq Nat

Init ==
  /\ step = "Query" /\ groups \in SeqOf(0 .. MAX_GROUPS, MAX_NODES) \ {<<>>}
  /\ offset = 0 /\ size = 0 /\ j = 0 /\ printed = {}

Goto(from, to) == step = from /\ step' = to /\ UNCHANGED groups

-----------------------------------------------------------------------------
(* KeQueryLogicalProcessorRelationship, which sets size on success.        *)
Query ==
  /\ \/ Goto("Query", "Record") /\ size' = Total
     \/ Goto("Query", "Free") /\ UNCHANGED size
  /\ UNCHANGED <<offset, j, printed>>

Always    == size >= 0   \* Slip: true of every unsigned number
Remaining == size > 0

NextRecord ==
  /\ Goto("Record", IF Remaining THEN "Masks" ELSE "Free")
  /\ j' = 0
  /\ UNCHANGED <<offset, size, printed>>

OneMaskTooMany == j <= GroupCount           \* Slip: j <= GroupCount
MoreMasks      == j < MasksOf(GroupCount)   \* GroupMask or each of GroupMasks

PrintMask ==
  /\ MoreMasks
  /\ Goto("Masks", "Masks")
  /\ printed' = printed \cup {offset + HEADER + j}
  /\ j' = j + 1
  /\ UNCHANGED <<offset, size>>

(* offset += info->Size; size -= info->Size, which wraps below 0.          *)
Advance ==
  /\ ~ MoreMasks
  /\ Goto("Masks", "Record")
  /\ offset' = (offset + Size) % ULONG
  /\ size' = (size + ULONG - Size) % ULONG
  /\ UNCHANGED <<j, printed>>

FreeBuffer == Goto("Free", "Returned") /\ UNCHANGED <<offset, size, j, printed>>

Next == Query \/ NextRecord \/ PrintMask \/ Advance \/ FreeBuffer

Spec == Init /\ [][Next]_vars

-----------------------------------------------------------------------------
(* Reference: where the masks of all records are.                          *)
Masks ==
  UNION {{Start[r] + HEADER + m : m \in 0 .. MasksOf(groups[r]) - 1} : r \in DOMAIN groups}

(* Walking by info->Size reads only masks that are there (a longer count,  *)
(* a wrong advance or a size that wraps would read what no record holds),  *)
(* and none is passed over.                                                *)
PrintsEveryMask ==
  /\ printed \subseteq Masks
  /\ step = "Record" /\ size = 0 => printed = Masks

=============================================================================
