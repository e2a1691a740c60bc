------------------------------ MODULE FileBlocks -------------------------------
(***************************************************************************)
(* The blocks of regular files in the ext4 writer: the block bitmap and    *)
(* its free count, the inodes' block maps with direct, single and double   *)
(* indirect blocks, and what Create_File, Write_File, Append, Truncate and *)
(* Unlink do to them.  Each operation runs whole, under FS_Mutex.          *)
(*                                                                         *)
(* A block holds PPB words, pointers or file data; a file's length is      *)
(* counted in words.  The data written to file f is the word -f.           *)
(***************************************************************************)
EXTENDS Integers, Sequences, FiniteSets

CONSTANTS
  NDirect,     \* direct pointers of an inode; 12
  PPB,         \* pointers, and words, per block
  NBlocks,     \* data blocks of the volume
  NFiles,      \* inodes of the volume
  Sizes,       \* bound: the lengths that each file is given
  MaxFull      \* bound: how often a write meets a full volume

ASSUME BlocksAssumption == {NDirect, PPB, NBlocks, NFiles} \subseteq Nat \ {0}
ASSUME FullAssumption == MaxFull \in Nat

VARIABLES
  vol,         \* the volume: bitmap, free count, blocks, Phantom_Frees
  inode,       \* the inode table
  full,        \* history: how often No_Space was raised in the middle of a write
  sparse       \* history: files that Truncate has extended

vars == <<vol, inode, full, sparse>>

Blocks == 1..NBlocks
Files == 1..NFiles
Slots == 0..(PPB - 1)
Data(f) == -f
Junk == -(NFiles + 1)             \* whatever a free block holds
Words == -(NFiles + 1)..NBlocks

Reach == NDirect + PPB + PPB * PPB
BlocksFor(words) == (words + PPB - 1) \div PPB
Lower(a, b) == IF a < b THEN a ELSE b
Above(a, b) == IF a > b THEN a - b ELSE 0

(* Truncate sets any length, also beyond what the block map reaches; there *)
(* Free_Double fails.  The model stays within reach.                       *)
ASSUME ReachAssumption ==
  \A f \in Files : \A n \in Sizes[f] : n \in Nat /\ BlocksFor(n) <= Reach

NoMap == [direct |-> [k \in 0..(NDirect - 1) |-> 0], ind |-> 0, dbl |-> 0]
Deleted == [live |-> FALSE, size |-> 0, iblocks |-> 0, map |-> NoMap]

TypeOK ==
  /\ vol \in [bitmap : SUBSET Blocks, free : 0..NBlocks, phantom : Nat,
              disk : [Blocks -> [Slots -> Words]]]
  /\ inode \in [Files -> [live : BOOLEAN, size : 0..(Reach * PPB), iblocks : Nat,
                          map : [direct : [0..(NDirect - 1) -> 0..NBlocks],
                                 ind : 0..NBlocks, dbl : 0..NBlocks]]]
  /\ full \in 0..MaxFull
  /\ sparse \subseteq Files

Init ==
  /\ vol = [bitmap |-> {}, free |-> NBlocks, phantom |-> 0,
            disk |-> [b \in Blocks |-> [k \in Slots |-> Junk]]]
  /\ inode = [f \in Files |-> Deleted]
  /\ full = 0
  /\ sparse = {}
-------------------------------------------------------------------------------
(* Bitmap.  Alloc_Block takes the lowest clear bit if the count is above 0.*)
HasSpace(v) == v.free > 0 /\ v.bitmap # Blocks
Lowest(v) == CHOOSE b \in Blocks \ v.bitmap : \A c \in Blocks \ v.bitmap : b <= c
(* Mutant: the count stays.                                                *)
AllocBlockUncounted(v) == [v EXCEPT !.bitmap = @ \cup {Lowest(v)}]

AllocBlock(v) == [v EXCEPT !.bitmap = @ \cup {Lowest(v)}, !.free = @ - 1]

(* Free_Block of each block of a set; a clear bit only counts as phantom.  *)
FreeBlocks(v, bs) ==
  [v EXCEPT !.bitmap = @ \ bs,
            !.free = @ + Cardinality(bs \cap v.bitmap),
            !.phantom = @ + Cardinality(bs \ v.bitmap),
            !.disk = [b \in Blocks |-> IF b \in bs THEN [k \in Slots |-> Junk] ELSE @[b]]]

Write(v, b, words) == [v EXCEPT !.disk[b] = words]
WriteAt(v, b, k, w) == [v EXCEPT !.disk[b][k] = w]
ZeroBlock(v, b) == Write(v, b, [k \in Slots |-> 0])
NewPointers(v) == ZeroBlock(AllocBlock(v), Lowest(v))
-------------------------------------------------------------------------------
(* Block_Map.Logical_To_Physical; a missing block is a hole.               *)
PtrAt(v, b, k) == IF b = 0 THEN 0 ELSE v.disk[b][k]

LogicalToPhysical(v, m, l) ==
  LET rel == l - NDirect - PPB IN
  IF l < NDirect THEN m.direct[l]
  ELSE IF rel < 0 THEN PtrAt(v, m.ind, l - NDirect)
  ELSE PtrAt(v, PtrAt(v, m.dbl, rel \div PPB), rel % PPB)

(* The same for every block of a region of the map, without the holes.     *)
SingleData(v, sng, from, to) == {PtrAt(v, sng, k) : k \in from..(to - 1)} \ {0}
-------------------------------------------------------------------------------
(* The blocks that Free_Single and Free_Double free.                       *)
SingleAll(v, sng, count) ==
  IF sng = 0 THEN {} ELSE {sng} \cup SingleData(v, sng, 0, count)

(* Mutant: the block of pointers to pointers is forgotten.                 *)
DoubleAllButTop(v, dbl, count) ==
  IF dbl = 0 THEN {}
  ELSE UNION {SingleAll(v, PtrAt(v, dbl, c), Lower(PPB, count - c * PPB)) :
                c \in 0..((count - 1) \div PPB)}

DoubleAll(v, dbl, count) ==
  IF dbl = 0 THEN {}
  ELSE {dbl} \cup UNION {SingleAll(v, PtrAt(v, dbl, c), Lower(PPB, count - c * PPB)) :
                           c \in 0..((count - 1) \div PPB)}

(* Free_Inode_Blocks: the blocks of a file of nb blocks with map m.        *)
InodeBlocks(v, m, nb) ==
  (({m.direct[k] : k \in 0..(Lower(nb, NDirect) - 1)} \ {0})
   \cup (IF nb > NDirect THEN SingleAll(v, m.ind, Lower(nb - NDirect, PPB)) ELSE {})
   \cup (IF nb > NDirect + PPB THEN DoubleAll(v, m.dbl, nb - NDirect - PPB) ELSE {}))

(* Mutant: the children of the double indirect block are not counted.      *)
IBlocksChildless(nb) ==
  nb + (IF nb > NDirect THEN 1 ELSE 0) + (IF nb > NDirect + PPB THEN 1 ELSE 0)

(* i_blocks of a file without holes, in blocks.                            *)
IBlocks(nb) ==
  nb + (IF nb > NDirect THEN 1 ELSE 0)
     + (IF nb > NDirect + PPB THEN 1 + (nb - NDirect - PPB + PPB - 1) \div PPB ELSE 0)
-------------------------------------------------------------------------------
(* Truncate of an inode that shrinks from old to new blocks, region by     *)
(* region: the blocks to free, the pointers to clear and the new map.      *)
DirectCut(m, new) ==
  [m EXCEPT !.direct = [k \in DOMAIN @ |-> IF k >= new THEN 0 ELSE @[k]]]

CutSingle(v, m, new, old) ==
  LET keep == Above(new, NDirect)
      count == Lower(Above(old, NDirect), PPB)
      kept == [k \in Slots |-> IF k \in keep..(count - 1) THEN 0 ELSE PtrAt(v, m.ind, k)]
  IN IF keep >= count \/ m.ind = 0 THEN [v |-> v, m |-> m]
     ELSE IF keep = 0 THEN [v |-> FreeBlocks(v, SingleAll(v, m.ind, count)),
                            m |-> [m EXCEPT !.ind = 0]]
     ELSE [v |-> FreeBlocks(Write(v, m.ind, kept), SingleData(v, m.ind, keep, count)),
           m |-> m]

(* Mutant: the pointers stay in the child that is kept.                    *)
CutChildKeepsPointers(v, dbl, c, keep, old) ==
  LET sng == PtrAt(v, dbl, c)
      from == IF c = keep \div PPB THEN keep % PPB ELSE 0
      to == Lower(PPB, old - c * PPB)
  IN IF from = 0 THEN WriteAt(FreeBlocks(v, SingleAll(v, sng, to)), dbl, c, 0)
     ELSE FreeBlocks(v, SingleData(v, sng, from, to))

(* Free_Double_Tail, for one of the blocks of pointers in m.dbl.           *)
CutChild(v, dbl, c, keep, old) ==
  LET sng == PtrAt(v, dbl, c)
      from == IF c = keep \div PPB THEN keep % PPB ELSE 0
      to == Lower(PPB, old - c * PPB)
      kept == [k \in Slots |-> IF k \in from..(to - 1) THEN 0 ELSE PtrAt(v, sng, k)]
  IN IF from = 0 THEN WriteAt(FreeBlocks(v, SingleAll(v, sng, to)), dbl, c, 0)
     ELSE IF sng = 0 THEN v
     ELSE FreeBlocks(Write(v, sng, kept), SingleData(v, sng, from, to))

CutDouble(v, m, new, old) ==
  LET keep == Above(new, NDirect + PPB)
      count == Above(old, NDirect + PPB)
      first == keep \div PPB
      turns == (count - 1) \div PPB - first + 1
      after[k \in 0..turns] == IF k = 0 THEN v
                               ELSE CutChild(after[k - 1], m.dbl, first + k - 1, keep, count)
  IN IF keep >= count \/ m.dbl = 0 THEN [v |-> v, m |-> m]
     ELSE IF keep = 0 THEN [v |-> FreeBlocks(v, DoubleAll(v, m.dbl, count)),
                            m |-> [m EXCEPT !.dbl = 0]]
     ELSE [v |-> after[turns], m |-> m]

CutDirect(v, m, new, old) ==
  [v |-> FreeBlocks(v, {m.direct[k] : k \in new..(Lower(old, NDirect) - 1)} \ {0}),
   m |-> DirectCut(m, new)]

Shrunk(v, i, new, old) ==
  LET a == CutDirect(v, i.map, new, old)
      b == CutSingle(a.v, a.m, new, old)
  IN CutDouble(b.v, b.m, new, old)

(* Mutant: a last block of the single indirect range keeps its words.      *)
ZeroTailDirect(v, m, size) ==
  LET b == LogicalToPhysical(v, m, BlocksFor(size) - 1)
  IN IF size % PPB = 0 \/ b = 0 \/ BlocksFor(size) > NDirect THEN v
     ELSE Write(v, b, [k \in Slots |-> IF k >= size % PPB THEN 0 ELSE v.disk[b][k]])

(* The words after the new end of the last block become 0.                 *)
ZeroTail(v, m, size) ==
  LET b == LogicalToPhysical(v, m, BlocksFor(size) - 1)
  IN IF size % PPB = 0 \/ b = 0 THEN v
     ELSE Write(v, b, [k \in Slots |-> IF k >= size % PPB THEN 0 ELSE v.disk[b][k]])

(* Truncate: a volume and an inode, and what they become.                  *)
Truncated(v, i, size) ==
  LET new == BlocksFor(size)
      old == BlocksFor(i.size)
      s == IF new < old THEN Shrunk(v, i, new, old) ELSE [v |-> v, m |-> i.map]
  IN [v |-> IF size < i.size THEN ZeroTail(s.v, s.m, size) ELSE s.v,
      i |-> [i EXCEPT !.size = size, !.map = s.m,
                      !.iblocks = IF new < old THEN IBlocks(new) ELSE @]]
-------------------------------------------------------------------------------
(* Append.  A step works on s: the volume v, the map m, whether there was  *)
(* room so far, ok, the position pos and the words left.  A pointer that   *)
(* was set before an allocation fails stays set.                           *)
Fails(s) == [s EXCEPT !.ok = FALSE]

EnsureDirect(s, l) ==
  IF s.m.direct[l] # 0 THEN s
  ELSE IF ~HasSpace(s.v) THEN Fails(s)
  ELSE [s EXCEPT !.v = AllocBlock(s.v),
                 !.m = [s.m EXCEPT !.direct[l] = Lowest(s.v)]]

(* Inode_Indirect, at m.ind and at m.dbl.                                  *)
EnsureInd(s) ==
  IF s.m.ind # 0 THEN s
  ELSE IF ~HasSpace(s.v) THEN Fails(s)
  ELSE [s EXCEPT !.v = NewPointers(s.v), !.m = [s.m EXCEPT !.ind = Lowest(s.v)]]

EnsureDbl(s) ==
  IF s.m.dbl # 0 THEN s
  ELSE IF ~HasSpace(s.v) THEN Fails(s)
  ELSE [s EXCEPT !.v = NewPointers(s.v), !.m = [s.m EXCEPT !.dbl = Lowest(s.v)]]

(* Child_Indirect.                                                         *)
EnsureChild(s, parent, k) ==
  IF ~s.ok \/ PtrAt(s.v, parent, k) # 0 THEN s
  ELSE IF ~HasSpace(s.v) THEN Fails(s)
  ELSE [s EXCEPT !.v = WriteAt(NewPointers(s.v), parent, k, Lowest(s.v))]

(* Slot_Block.                                                             *)
EnsureSlot(s, parent, k) ==
  IF ~s.ok \/ PtrAt(s.v, parent, k) # 0 THEN s
  ELSE IF ~HasSpace(s.v) THEN Fails(s)
  ELSE [s EXCEPT !.v = WriteAt(AllocBlock(s.v), parent, k, Lowest(s.v))]

MapOrAlloc(s, l) ==
  LET rel == l - NDirect - PPB
      ind == EnsureInd(s)
      dbl == EnsureDbl(s)
      sng == EnsureChild(dbl, dbl.m.dbl, rel \div PPB)
  IN IF l < NDirect THEN EnsureDirect(s, l)
     ELSE IF rel < 0 THEN EnsureSlot(ind, ind.m.ind, l - NDirect)
     ELSE EnsureSlot(sng, PtrAt(sng.v, sng.m.dbl, rel \div PPB), rel % PPB)

(* One turn of the loop: the words that go into the block at pos.          *)
AppendChunk(f, s) ==
  LET l == s.pos \div PPB
      off == s.pos % PPB
      chunk == Lower(PPB - off, s.left)
      fresh == LogicalToPhysical(s.v, s.m, l) = 0
      t == MapOrAlloc(s, l)
      b == LogicalToPhysical(t.v, t.m, l)
      old == IF fresh THEN [k \in Slots |-> 0] ELSE t.v.disk[b]
      words == [k \in Slots |-> IF k \in off..(off + chunk - 1) THEN Data(f) ELSE old[k]]
  IN IF ~t.ok THEN t
     ELSE [t EXCEPT !.v = Write(t.v, b, words), !.pos = @ + chunk, !.left = @ - chunk]

Appended(f, n) ==
  LET turn[k \in 0..n] ==
        IF k = 0 THEN [v |-> vol, m |-> inode[f].map, ok |-> TRUE,
                       pos |-> inode[f].size, left |-> n]
        ELSE LET s == turn[k - 1]
             IN IF s.ok /\ s.left > 0 THEN AppendChunk(f, s) ELSE s
  IN turn[n]
-------------------------------------------------------------------------------
(* Write_Small: the data block first, then the indirect block at its first *)
(* use, both after a Truncate to 0.                                        *)
WriteBlock(f, n, s, l) ==
  LET b == Lowest(s.v)
      words == [k \in Slots |-> IF l * PPB + k < n THEN Data(f) ELSE 0]
      d == [s EXCEPT !.v = Write(AllocBlock(s.v), b, words)]
      i == IF s.ind # 0 THEN d
           ELSE [d EXCEPT !.v = NewPointers(d.v), !.ind = Lowest(d.v),
                          !.m = [d.m EXCEPT !.ind = Lowest(d.v)]]
  IN IF ~HasSpace(s.v) THEN Fails(s)
     ELSE IF l < NDirect THEN [d EXCEPT !.m = [d.m EXCEPT !.direct[l] = b]]
     ELSE IF s.ind = 0 /\ ~HasSpace(d.v) THEN Fails(d)
     ELSE [i EXCEPT !.v = WriteAt(i.v, i.ind, l - NDirect, b)]

WrittenSmall(f, n, t) ==
  LET turn[l \in 0..BlocksFor(n)] ==
        IF l = 0 THEN [v |-> t.v, m |-> t.i.map, ind |-> 0, ok |-> TRUE]
        ELSE LET s == turn[l - 1] IN IF s.ok THEN WriteBlock(f, n, s, l - 1) ELSE s
  IN turn[BlocksFor(n)]
-------------------------------------------------------------------------------
(* The operations of ESP32S3.Ext4.FS on an inode in use.                   *)
Live == {f \in Files : inode[f].live}

Full(ok) == full' = (IF ok THEN full ELSE full + 1) /\ full' <= MaxFull

CreateFile(f) ==
  /\ f \notin Live /\ \A g \in Files \ Live : f <= g
  /\ inode' = [inode EXCEPT ![f] = [Deleted EXCEPT !.live = TRUE]]
  /\ UNCHANGED <<vol, full, sparse>>

WriteFile(f, n) ==
  LET t == Truncated(vol, inode[f], 0)
      w == WrittenSmall(f, n, t)
  IN /\ f \in Live
     /\ BlocksFor(n) <= NDirect + PPB
     /\ vol' = w.v
     /\ inode' = [inode EXCEPT ![f] =
          IF w.ok THEN [t.i EXCEPT !.size = n, !.map = w.m, !.iblocks = IBlocks(BlocksFor(n))]
          ELSE t.i]
     /\ Full(w.ok)
     /\ sparse' = sparse \ {f}

AppendTo(f, n) ==
  LET s == Appended(f, n) IN
  /\ f \in Live
  /\ n > 0 /\ BlocksFor(inode[f].size + n) <= Reach
  /\ vol' = s.v
  /\ inode' = [inode EXCEPT ![f] =
       [@ EXCEPT !.map = s.m, !.size = s.pos, !.iblocks = IBlocks(BlocksFor(s.pos))]]
  /\ Full(s.ok)
  /\ UNCHANGED sparse

Truncate(f, n) ==
  LET t == Truncated(vol, inode[f], n) IN
  /\ f \in Live
  /\ vol' = t.v
  /\ inode' = [inode EXCEPT ![f] = t.i]
  /\ sparse' = IF n > inode[f].size THEN sparse \cup {f} ELSE sparse
  /\ UNCHANGED full

(* Unlink of a file's last name; Mark_Deleted clears the inode.            *)
Unlink(f) ==
  /\ f \in Live
  /\ vol' = FreeBlocks(vol, InodeBlocks(vol, inode[f].map, BlocksFor(inode[f].size)))
  /\ inode' = [inode EXCEPT ![f] = Deleted]
  /\ sparse' = sparse \ {f}
  /\ UNCHANGED full

Next ==
  \E f \in Files :
    \/ CreateFile(f) \/ Unlink(f)
    \/ \E n \in Sizes[f] :
         \/ WriteFile(f, n) \/ Truncate(f, n)
         \/ n > inode[f].size /\ AppendTo(f, n - inode[f].size)

Spec == Init /\ [][Next]_vars
-------------------------------------------------------------------------------
(* The places of f's map that hold a pointer, and the blocks they lead to, *)
(* also beyond the end of the file.                                        *)
PointerBlocks(f) ==
  LET m == inode[f].map
  IN ({m.ind, m.dbl} \cup SingleData(vol, m.dbl, 0, PPB)) \ {0}

Places(f) ==
  LET m == inode[f].map IN
  {<<0, k>> : k \in {j \in DOMAIN m.direct : m.direct[j] # 0}}
  \cup {<<-1, r>> : r \in {j \in 0..1 : (IF j = 0 THEN m.ind ELSE m.dbl) # 0}}
  \cup {p \in PointerBlocks(f) \X Slots : vol.disk[p[1]][p[2]] # 0}

Owned(f) ==
  PointerBlocks(f) \cup ({inode[f].map.direct[k] : k \in DOMAIN inode[f].map.direct} \ {0})
  \cup UNION {SingleData(vol, b, 0, PPB) : b \in PointerBlocks(f)}

(* No block is in two files or twice in one, and none that is in a file is *)
(* free for another, whatever was cut, extended or unlinked before         *)
(* (writer.adb:532-619, 774-853; the hazard named at writer.adb:131-136).  *)
OneOwner ==
  /\ \A f \in Files : Owned(f) \subseteq vol.bitmap
  /\ \A f \in Files : Cardinality(Places(f)) = Cardinality(Owned(f))
  /\ \A f, g \in Files : f # g => Owned(f) \cap Owned(g) = {}

(* The bitmap is exact: the free count is that of the bitmap, no free ever *)
(* meets a clear bit, which the tripwire Phantom_Frees counts              *)
(* (bitmap.adb:29-30), and as long as no write has met a full volume every *)
(* block in use is in a file, so that no path of Truncate or Unlink        *)
(* forgets one.                                                            *)
BitmapExact ==
  /\ vol.free = NBlocks - Cardinality(vol.bitmap)
  /\ vol.phantom = 0
  /\ full = 0 => vol.bitmap = UNION {Owned(f) : f \in Files}

(* i_blocks is the number of blocks the file has, pointer blocks included, *)
(* unless the file has been extended with holes (writer.adb:284-298).      *)
BlocksCounted ==
  full = 0 => \A f \in Live \ sparse : inode[f].iblocks = Cardinality(Owned(f))

(* What File.Read returns of the whole file.                               *)
Content(f) ==
  [p \in 1..inode[f].size |->
     LET b == LogicalToPhysical(vol, inode[f].map, (p - 1) \div PPB)
     IN PtrAt(vol, b, (p - 1) % PPB)]

Contents == [f \in Live |-> Content(f)]
Abstract == INSTANCE FileContents WITH content <- Contents

(* A file reads as what was written to it and nothing else: no stale word  *)
(* of a freed block, no word of another file, and zeros wherever Truncate  *)
(* extended it, also over a part that was cut off before.                  *)
ImplementsFileContents == Abstract!Spec
===============================================================================
