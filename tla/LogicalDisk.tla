------------------------------ MODULE LogicalDisk ------------------------------
(***************************************************************************)
(* What Block_Dev.WL promises the file system above it: a plain array of   *)
(* sectors.  A write changes its own sector and no other; where the blocks *)
(* lie, when they move and what the configuration holds cannot be seen.  A *)
(* power cut or a device error during a write may spoil the sectors of the *)
(* one logical block being written, never another; at any other moment it  *)
(* changes nothing at all.  Only Format gives up the contents.             *)
(***************************************************************************)
EXTENDS Naturals

CONSTANTS LBlocks, Offs   \* logical blocks, sectors in a block

VARIABLES
  disk,   \* LBlocks -> Offs -> contents
  req     \* what is being served: a write, a format, or nothing

vars == <<disk, req>>

None == [op |-> "none"]
Formatting == [op |-> "format"]
Writing(b, o, v, stored) ==
  [op |-> "write", blk |-> b, off |-> o, val |-> v, stored |-> stored]

(* Every logical block but b is as it was.                                 *)
OthersKept(b) == \A c \in LBlocks \ {b} : disk'[c] = disk[c]

Init == req = Formatting

(* Data the sector holds already needs no step of its own.                 *)
BeginWrite ==
  /\ req = None /\ req'.op = "write"
  /\ \E b \in LBlocks, o \in Offs, v \in {req'.val}, stored \in BOOLEAN :
       /\ req' = Writing(b, o, v, stored)
       /\ stored => disk[b][o] = v
  /\ UNCHANGED disk

(* The one step at which the new data is there, whole.                     *)
Store ==
  /\ req.op = "write" /\ ~req.stored
  /\ req' = [req EXCEPT !.stored = TRUE]
  /\ disk' = [disk EXCEPT ![req.blk][req.off] = req.val]

EndWrite ==
  /\ req.op = "write" /\ req.stored
  /\ req' = None
  /\ UNCHANGED disk

(* A power cut or a device error while the write was in progress.          *)
FailWrite ==
  /\ req.op = "write"
  /\ req' = None
  /\ OthersKept(req.blk)

BeginFormat == req = None /\ req' = Formatting
InFormat == req = Formatting /\ req' \in {Formatting, None}

Next == BeginWrite \/ Store \/ EndWrite \/ FailWrite \/ BeginFormat \/ InFormat

Spec == Init /\ [][Next]_vars
===============================================================================
