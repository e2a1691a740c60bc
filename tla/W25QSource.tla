------------------------------ MODULE W25QSource ------------------------------
(***************************************************************************)
(* A W25Q SPI NOR flash behind the erase-aware, write-through adapter      *)
(* ESP32S3.Block_Dev.W25Q_Source: 512-byte sectors over 4 KB erase blocks. *)
(* Programming only clears bits, so a write that must set a bit back reads *)
(* the whole block into RAM, erases it and programs it again.  Each        *)
(* command to the chip is one step here, so that a power cut or a BUSY     *)
(* time-out (Device_Error) can fall between any two of them.               *)
(*                                                                         *)
(* This module has the state and the operations; the module that owns the  *)
(* device (WearLevel) conjoins them with its own steps.                    *)
(***************************************************************************)
EXTENDS Integers

CONSTANTS
  NBlocks,      \* erase blocks on the medium
  SPB,          \* Sectors_Per_Erase: sectors in an erase block
  Clears(_, _), \* Clears(old, new): new only clears bits of old
  Erased,       \* a sector of all ones
  Torn          \* a sector an interrupted command left in no defined state

ASSUME FlashAssumption ==
  /\ NBlocks \in Nat \ {0}
  /\ SPB \in Nat \ {0}
  /\ Erased # Torn

VARIABLES
  flash,    \* the medium: block -> sector -> cell
  job       \* the command sequence in progress, and Src.Buf

Blocks == 0 .. NBlocks - 1
Offsets == 0 .. SPB - 1
Cells(contents) == contents \cup {Erased, Torn}
Images(contents) == [Offsets -> Cells(contents)]

AllErased == [o \in Offsets |-> Erased]

(* "program": one sector in place.  "erase" then "reprogram": the          *)
(* read-modify-write.  "wipe": an erase the caller asked for (Do_Erase).   *)
Jobs(contents) ==
  [kind : {"none", "program", "erase", "reprogram", "wipe"},
   blk : Blocks, off : Offsets, image : Images(contents)]

NoJob == [kind |-> "none", blk |-> 0, off |-> 0, image |-> AllErased]

(* contents: what a whole programmed sector may hold.                      *)
FlashTypeOK(contents) ==
  /\ flash \in [Blocks -> Images(contents)]
  /\ job \in Jobs(contents)

FlashIdle == job.kind = "none"

(* Clear_Only: every one bit of the new data is already one in the old.    *)
ClearOnly(old, new) == old = Erased \/ Clears(old, new)

---------------------------------------------------------------------------
(* Do_Write: read the old sector; identical data needs nothing, data that  *)
(* only clears bits is programmed in place, anything else goes through the *)
(* block buffer.                                                           *)
DoWrite(b, o, new) ==
  LET old == flash[b][o] IN
  /\ FlashIdle
  /\ job' = IF old = new THEN NoJob
            ELSE [kind |-> IF ClearOnly(old, new) THEN "program" ELSE "erase",
                  blk |-> b, off |-> o,
                  image |-> [flash[b] EXCEPT ![o] = new]]
  /\ UNCHANGED flash

(* Mutant: the erase capability is missing.                                *)
NoErase(b) == FlashIdle /\ UNCHANGED <<flash, job>>

(* Do_Erase of one whole erase block.                                      *)
DoErase(b) ==
  /\ FlashIdle
  /\ job' = [NoJob EXCEPT !.kind = "wipe", !.blk = b]
  /\ UNCHANGED flash

(* What a block holds when the command in progress has completed.          *)
CommandResult ==
  CASE job.kind \in {"erase", "wipe"} -> AllErased
    [] job.kind \in {"program", "reprogram"} ->
         [flash[job.blk] EXCEPT ![job.off] = job.image[job.off]]
    [] OTHER -> flash[job.blk]

ProgramPages ==
  /\ job.kind = "program"
  /\ flash' = [flash EXCEPT ![job.blk] = CommandResult]
  /\ job' = NoJob

EraseSector ==
  /\ job.kind = "erase"
  /\ flash' = [flash EXCEPT ![job.blk] = CommandResult]
  /\ job' = [job EXCEPT !.kind = "reprogram", !.off = 0]

ReprogramPages ==
  /\ job.kind = "reprogram"
  /\ flash' = [flash EXCEPT ![job.blk] = CommandResult]
  /\ job' = IF job.off = SPB - 1 THEN NoJob ELSE [job EXCEPT !.off = @ + 1]

WipeSector ==
  /\ job.kind = "wipe"
  /\ flash' = [flash EXCEPT ![job.blk] = CommandResult]
  /\ job' = NoJob

FlashCommand == ProgramPages \/ EraseSector \/ ReprogramPages \/ WipeSector

(* What the block may hold after an interrupted command: the command had   *)
(* not begun, had finished, or left the cells it was changing undefined.   *)
InterruptedImages ==
  LET before == flash[job.blk]
      smear == [o \in Offsets |->
                  IF CommandResult[o] = before[o] THEN before[o] ELSE Torn]
  IN {before, CommandResult, smear}

(* The command ends in a power cut or in Wait_Until_Ready timing out; the  *)
(* rest of the sequence, and the block buffer with it, is given up.        *)
Interrupt ==
  /\ \E image \in InterruptedImages : flash' = [flash EXCEPT ![job.blk] = image]
  /\ job' = NoJob

(* The block as the adapter is about to leave it: between the erase and    *)
(* the last page the data lives in the RAM buffer.                         *)
Effective(b) ==
  IF job.kind = "reprogram" /\ job.blk = b THEN job.image ELSE flash[b]
===============================================================================
