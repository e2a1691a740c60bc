------------------------------- MODULE WearLevel -------------------------------
(***************************************************************************)
(* ESP32S3.Block_Dev.WL, the wear-levelling filter of the storage stack,   *)
(* over ESP32S3.Block_Dev.W25Q_Source.  D data blocks hold L = D - 1       *)
(* logical blocks and one hole; two configuration blocks after them hold   *)
(* ping-pong copies of the move counter.  Every UpdateRate writes the      *)
(* block after the hole is copied into it and the counter advances.        *)
(*                                                                         *)
(* The volume runs in one task, so the only interleavings are with power   *)
(* cuts and device errors, which may strike between any two commands to    *)
(* the chip.  pc says where in Do_Write, Do_Move, Persist or Format the    *)
(* task is.                                                                *)
(***************************************************************************)
EXTENDS W25QSource

CONSTANTS
  UpdateRate,  \* logical writes between moves
  Values,      \* contents a client writes
  Blank,       \* the all-zero sector Format writes over a configuration
  FaultPhases, \* where the chip may time out: "data", "move", "config"
  MaxMoves,    \* bound: no write is taken that would start move MaxMoves + 1
  MaxAccess    \* bound: ... or while moves fail, that would count past it

VARIABLES
  moveSteps,   \* V.Move_Steps
  accessCount, \* V.Access_Count
  sequence,    \* V.Sequence
  mounted,     \* V.Mounted
  pc,          \* the step of the operation in progress
  off,         \* Do_Move's loop variable
  req,         \* the logical write in progress
  formatted    \* history: a Format completed and none was begun since

flashvars == <<flash, job>>
volvars == <<moveSteps, accessCount, sequence, mounted>>
vars == <<flash, job, moveSteps, accessCount, sequence, mounted,
          pc, off, req, formatted>>

(* Attach: the two top blocks hold the configuration, one of the others is *)
(* the hole.                                                               *)
D == NBlocks - 2
L == D - 1
CfgBlock(slot) == D + slot

(* The persisted fields that vary; magic, version, geometry and CRC make a *)
(* record recognisable (Parse) and are the same in all of them.            *)
Records == [move : Nat, access : Nat, seq : Nat]
Contents == Values \cup {Blank} \cup Records

ASSUME WearLevelAssumption ==
  /\ D >= 2                       \* Attach refuses fewer than four blocks
  /\ UpdateRate \in Nat \ {0}
  /\ MaxMoves \in Nat /\ MaxAccess \in Nat
  /\ FaultPhases \subseteq {"data", "move", "config"}
  /\ {Erased, Torn, Blank} \cap Records = {}
  /\ Values \cap Records = {}

---------------------------------------------------------------------------
(* Geometry                                                                *)

(* Mutant: the hole is not stepped over.                                   *)
PhysBlockNoHole(t, lb) == (t + lb) % D
(* Mutant: the wrap at the end of the region is forgotten.                 *)
HoleNoWrap(t) == t + D - 1

PhysBlock(t, lb) == ((t % D) + ((lb + L - (t % L)) % L)) % D
Hole(t) == (t + D - 1) % D
MoveSource(t) == t % D

---------------------------------------------------------------------------
(* Configuration                                                           *)

ConfigCell(slot) == flash[CfgBlock(slot)][0]
Parse(slot) == ConfigCell(slot) \in Records
ValidSlots == {slot \in {0, 1} : Parse(slot)}

(* Mount: a later slot wins only with a strictly higher sequence.          *)
BestSlot ==
  IF 1 \in ValidSlots /\ (0 \in ValidSlots => ConfigCell(1).seq > ConfigCell(0).seq)
  THEN 1 ELSE 0

(* Mutant: both copies of the configuration in one slot.                   *)
PersistRecordOneSlot(m, a, s) ==
  DoWrite(CfgBlock(0), 0, [move |-> m, access |-> a, seq |-> s])

(* Persist: the next sequence number chooses the slot.                     *)
PersistRecord(m, a, s) ==
  DoWrite(CfgBlock(s % 2), 0, [move |-> m, access |-> a, seq |-> s])

(* The parameters of Do_Write while it runs.                               *)
NoReq == [blk |-> 0, off |-> 0, val |-> Erased]

Formatting == pc \in {"blank0", "blank1", "record"}

TypeOK ==
  /\ FlashTypeOK(Contents)
  /\ moveSteps \in Nat /\ accessCount \in Nat /\ sequence \in Nat
  /\ mounted \in BOOLEAN /\ formatted \in BOOLEAN
  /\ pc \in {"off", "idle", "data", "move", "persist",
             "blank0", "blank1", "record"}
  /\ off \in 0 .. SPB
  /\ req \in [blk : 0 .. L - 1, off : Offsets, val : Values \cup {Erased}]

Init ==
  /\ flash = [b \in Blocks |-> AllErased] /\ job = NoJob
  /\ moveSteps = 0 /\ accessCount = 0 /\ sequence = 0 /\ mounted = FALSE
  /\ pc = "off" /\ off = 0 /\ req = NoReq /\ formatted = FALSE

---------------------------------------------------------------------------
(* Power-up: Attach zeroes the state, Mount loads the best valid record.   *)
Boot ==
  /\ pc = "off"
  /\ pc' = "idle"
  /\ mounted' = (ValidSlots # {})
  /\ moveSteps' = IF mounted' THEN ConfigCell(BestSlot).move ELSE 0
  /\ accessCount' = IF mounted' THEN ConfigCell(BestSlot).access ELSE 0
  /\ sequence' = IF mounted' THEN ConfigCell(BestSlot).seq ELSE 0
  /\ UNCHANGED <<flashvars, off, req, formatted>>

---------------------------------------------------------------------------
(* Format: zero the counters, blank both slots, persist the first record.  *)

(* Mutant: slot 0 is left as it was.                                       *)
FormatBeginKeepSlot ==
  /\ pc = "idle"
  /\ moveSteps' = 0 /\ accessCount' = 0 /\ sequence' = 0
  /\ pc' = "blank0"
  /\ formatted' = FALSE
  /\ UNCHANGED <<flashvars, mounted, off, req>>

FormatBegin ==
  /\ pc = "idle"
  /\ moveSteps' = 0 /\ accessCount' = 0 /\ sequence' = 0
  /\ DoWrite(CfgBlock(0), 0, Blank)
  /\ pc' = "blank0"
  /\ formatted' = FALSE
  /\ UNCHANGED <<mounted, off, req>>

FormatBlankOther ==
  /\ pc = "blank0"
  /\ DoWrite(CfgBlock(1), 0, Blank)
  /\ pc' = "blank1"
  /\ UNCHANGED <<volvars, off, req, formatted>>

FormatPersist ==
  /\ pc = "blank1"
  /\ sequence' = sequence + 1
  /\ PersistRecord(moveSteps, accessCount, sequence')
  /\ pc' = "record"
  /\ UNCHANGED <<moveSteps, accessCount, mounted, off, req, formatted>>

FormatEnd ==
  /\ pc = "record" /\ FlashIdle
  /\ mounted' = TRUE
  /\ formatted' = TRUE
  /\ pc' = "idle"
  /\ UNCHANGED <<flashvars, moveSteps, accessCount, sequence, off, req>>

---------------------------------------------------------------------------
(* Do_Write of a logical sector.  Callers write to mounted volumes only.   *)

MoveDue == accessCount + 1 >= UpdateRate

WriteBegin(lb, o, v) ==
  /\ pc = "idle" /\ mounted
  /\ MoveDue => moveSteps < MaxMoves /\ accessCount < MaxAccess
  /\ DoWrite(PhysBlock(moveSteps, lb), o, v)
  /\ req' = [blk |-> lb, off |-> o, val |-> v]
  /\ pc' = "data"
  /\ UNCHANGED <<volvars, off, formatted>>

WriteEnd ==
  /\ pc = "data" /\ FlashIdle
  /\ ~MoveDue
  /\ accessCount' = accessCount + 1
  /\ req' = NoReq
  /\ pc' = "idle"
  /\ UNCHANGED <<flashvars, moveSteps, sequence, mounted, off, formatted>>

(* ... and every UpdateRate writes Do_Move: erase the hole,                *)
MoveBegin ==
  /\ pc = "data"
  /\ MoveDue
  /\ DoErase(Hole(moveSteps))
  /\ accessCount' = accessCount + 1
  /\ req' = NoReq
  /\ pc' = "move" /\ off' = 0
  /\ UNCHANGED <<moveSteps, sequence, mounted, formatted>>

(* copy the source into it, sector by sector,                              *)
MoveCopy ==
  /\ pc = "move" /\ off < SPB
  /\ DoWrite(Hole(moveSteps), off, flash[MoveSource(moveSteps)][off])
  /\ off' = off + 1
  /\ UNCHANGED <<volvars, pc, req, formatted>>

(* Mutant: the counter is committed before the copy is complete.           *)
MoveCommitEarly ==
  /\ pc = "move"
  /\ moveSteps' = moveSteps + 1
  /\ accessCount' = 0
  /\ sequence' = sequence + 1
  /\ PersistRecord(moveSteps', accessCount', sequence')
  /\ pc' = "persist" /\ off' = 0
  /\ UNCHANGED <<mounted, req, formatted>>

(* advance the counter and persist it.                                     *)
MoveCommit ==
  /\ pc = "move" /\ off = SPB
  /\ moveSteps' = moveSteps + 1
  /\ accessCount' = 0
  /\ sequence' = sequence + 1
  /\ PersistRecord(moveSteps', accessCount', sequence')
  /\ pc' = "persist" /\ off' = 0
  /\ UNCHANGED <<mounted, req, formatted>>

MoveEnd ==
  /\ pc = "persist" /\ FlashIdle
  /\ pc' = "idle"
  /\ UNCHANGED <<flashvars, volvars, off, req, formatted>>

---------------------------------------------------------------------------
(* A step of the command sequence DoWrite or DoErase began.                *)
FlashStep ==
  /\ FlashCommand
  /\ UNCHANGED <<volvars, pc, off, req, formatted>>

Phase ==
  CASE pc = "data" -> "data"
    [] pc = "move" -> "move"
    [] OTHER -> "config"

(* The chip stays BUSY: Device_Error unwinds the whole call, and V keeps   *)
(* whatever had been assigned to it.                                       *)
DeviceError ==
  /\ ~FlashIdle
  /\ Phase \in FaultPhases
  /\ Interrupt
  /\ pc' = "idle" /\ off' = 0 /\ req' = NoReq
  /\ UNCHANGED <<volvars, formatted>>

PowerCut ==
  /\ pc # "off"
  /\ Interrupt
  /\ pc' = "off" /\ off' = 0 /\ req' = NoReq
  /\ moveSteps' = 0 /\ accessCount' = 0 /\ sequence' = 0 /\ mounted' = FALSE
  /\ UNCHANGED formatted

Next ==
  \/ Boot
  \/ FormatBegin \/ FormatBlankOther \/ FormatPersist \/ FormatEnd
  \/ \E lb \in 0 .. L - 1, o \in Offsets, v \in Values : WriteBegin(lb, o, v)
  \/ WriteEnd \/ MoveBegin \/ MoveCopy \/ MoveCommit \/ MoveEnd
  \/ FlashStep \/ DeviceError \/ PowerCut

Spec == Init /\ [][Next]_vars

---------------------------------------------------------------------------
(* Properties                                                              *)

(* Once a Format has completed, a power cut at any step leaves at least    *)
(* one configuration slot that Parse accepts: the volume always mounts.    *)
AlwaysMountable == formatted => ValidSlots # {}

(* The sequence Mount would choose never goes back, and it advances by one *)
(* record at a time: Persist overwrites only the older of the two slots.   *)
DurableSequence == ConfigCell(BestSlot).seq
DurableAdvances ==
  [][formatted /\ formatted' =>
       /\ ValidSlots' # {}
       /\ DurableSequence' \in {DurableSequence, DurableSequence + 1}]_vars

(* The copy of a move programs into the block just erased: it never needs  *)
(* a read-modify-write, so a move costs one erase.                         *)
MoveErasesOnce == pc = "move" => job.kind \notin {"erase", "reprogram"}

(* The record Mount would choose, and the mapping it stands for.           *)
DurableMoves == ConfigCell(BestSlot).move

(* The contents a reader finds in logical block lb under move count t.     *)
Contents_At(t, lb) == Effective(PhysBlock(t, lb))

(* A cut or an error forgets no acknowledged write and un-does no move:    *)
(* the mapping in memory and the one on the medium give every logical      *)
(* block the same contents, whichever of them a reader comes to use.       *)
MemoryMatchesMedium ==
  formatted /\ mounted =>
    \A lb \in 0 .. L - 1 : Contents_At(moveSteps, lb) = Contents_At(DurableMoves, lb)

---------------------------------------------------------------------------
(* The invariant behind AlwaysMountable, inductive when the chip does not  *)
(* fail while a configuration is written.                                  *)

(* The record of sequence number s is whole in the slot it belongs to.     *)
HasRecord(s) == Parse(s % 2) /\ ConfigCell(s % 2).seq = s

(* Records lie in, and are on their way to, the slot of their parity.      *)
SlotParity ==
  \A slot \in {0, 1} :
    /\ Parse(slot) => ConfigCell(slot).seq % 2 = slot
    /\ job.blk = CfgBlock(slot) /\ job.image[0] \in Records =>
         job.image[0].seq % 2 = slot

(* Where the commands of each operation go.                                *)
JobTarget ==
  /\ pc \in {"off", "idle"} => FlashIdle
  /\ pc \in {"data", "move"} /\ ~FlashIdle => job.blk < D
  /\ pc \in {"blank0", "blank1"} /\ ~FlashIdle => job.blk >= D
  /\ pc \in {"persist", "record"} /\ ~FlashIdle =>
       /\ job.blk = CfgBlock(sequence % 2)
       /\ job.kind \in {"program", "erase", "reprogram"}
       /\ job.image[0] \in Records /\ job.image[0].seq = sequence
       /\ job.kind = "program" => job.off = 0
       /\ job.kind = "reprogram" /\ job.off > 0 => flash[job.blk][0] = job.image[0]

(* Which record is sure to be whole at each step.                          *)
SafeRecord ==
  /\ pc \in {"persist", "record"} /\ FlashIdle => HasRecord(sequence)
  /\ formatted =>
       /\ ~Formatting
       /\ pc # "off" => mounted
       /\ pc \in {"idle", "data", "move"} => HasRecord(sequence)
       /\ pc = "persist" => sequence >= 1 /\ HasRecord(sequence - 1)
       /\ pc = "off" => ValidSlots # {}

ConfigInv == SlotParity /\ JobTarget /\ SafeRecord

(* The invariant behind MoveErasesOnce: while a move copies, what is left  *)
(* of the hole is erased.                                                  *)
HoleBlank ==
  pc = "move" =>
    /\ job.kind \in {"none", "program", "wipe"}
    /\ job.kind # "none" => job.blk = Hole(moveSteps)
    /\ job.kind = "wipe" => off = 0
    /\ job.kind = "program" => job.off < off
    /\ job.kind # "wipe" =>
         \A o \in Offsets : o >= off => flash[Hole(moveSteps)][o] = Erased

---------------------------------------------------------------------------
(* The array of sectors the volume presents.  While the power is off it    *)
(* is what the next Mount will find.                                       *)

Visible(lb) ==
  IF ~formatted THEN AllErased
  ELSE Contents_At(IF pc = "off" THEN DurableMoves ELSE moveSteps, lb)

Presented == [lb \in 0 .. L - 1 |-> Visible(lb)]

(* What the volume is serving.                                             *)
Serving ==
  CASE ~formatted -> [op |-> "format"]
    [] formatted /\ pc = "data" ->
         [op |-> "write", blk |-> req.blk, off |-> req.off, val |-> req.val,
          stored |-> job.kind \in {"none", "reprogram"}]
    [] OTHER -> [op |-> "none"]

Disk == INSTANCE LogicalDisk WITH
  LBlocks <- 0 .. L - 1,
  Offs <- Offsets,
  disk <- Presented,
  req <- Serving

ImplementsDisk == Disk!Spec
===============================================================================
