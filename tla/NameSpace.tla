------------------------------- MODULE NameSpace -------------------------------
(***************************************************************************)
(* Names in the ext4 writer: directories and their blocks, the inode       *)
(* table with its link counts, and both bitmaps with their counts, under   *)
(* Create_File, Mkdir, Make_Symlink, Link, Unlink, Rmdir and Rename.  Each *)
(* operation runs whole, under FS_Mutex; what a call refuses with          *)
(* Use_Error, Name_Error or Not_Empty changes nothing and is not a step.   *)
(*                                                                         *)
(* Names are of one length, so that a directory block has EPB slots, and a *)
(* new entry takes the first free one.  Files are empty: their blocks are  *)
(* FileBlocks' subject.                                                    *)
(***************************************************************************)
EXTENDS Integers, Sequences, FiniteSets

CONSTANTS
  Names,           \* the names in paths, without "." and ".."
  NInodes,         \* inodes of the volume; inode 1 is the root
  NBlocks,         \* data blocks of the volume; block 1 is the root's
  EPB,             \* entries in a directory block
  MaxDirBlocks,    \* blocks of a directory; 12
  MaxLinks,        \* the largest link count, a U16; 65,535
  MaxSteps         \* steps up that Rename takes; 4096

ASSUME NamesAssumption == Names \cap {".", "..", ""} = {}
ASSUME SizesAssumption == /\ {NInodes, NBlocks, MaxDirBlocks} \subseteq Nat \ {0}
                          /\ EPB \in Nat /\ EPB >= 2
(* Twelve blocks of at most 64 KiB hold 65,532 entries of twelve bytes.    *)
ASSUME LimitsAssumption == /\ MaxLinks \in Nat /\ MaxSteps \in Nat
                           /\ MaxDirBlocks * EPB <= MaxLinks

VARIABLES
  vol,             \* bitmaps of blocks and inodes, their free counts, Used_Dirs,
                   \*   Phantom_Frees
  inode            \* the inode table, with what is in a directory's blocks

vars == <<vol, inode>>

Root == 1
Inodes == 1..NInodes
Blocks == 1..NBlocks
Slots == 1..EPB
NoEntry == [name |-> "", ino |-> 0]
Entry(n, c) == [name |-> n, ino |-> c]

EmptyBlock == [k \in Slots |-> NoEntry]
Dots(self, parent) ==
  [EmptyBlock EXCEPT ![1] = Entry(".", self), ![2] = Entry("..", parent)]

Deleted == [kind |-> "free", links |-> 0, blocks |-> <<>>, dir |-> <<>>]
NewDir(self, parent, b) ==
  [kind |-> "dir", links |-> 2, blocks |-> <<b>>, dir |-> <<Dots(self, parent)>>]

TypeOK ==
  /\ vol \in [blocks : SUBSET Blocks, freeBlocks : 0..NBlocks,
              inodes : SUBSET Inodes, freeInodes : 0..NInodes,
              usedDirs : 0..NInodes, phantom : Nat]
  /\ \A i \in Inodes :
       /\ inode[i].kind \in {"free", "reg", "dir", "link"}
       /\ inode[i].links \in 0..MaxLinks
       /\ inode[i].blocks \in Seq(Blocks)
       /\ \A b \in DOMAIN inode[i].dir :
            inode[i].dir[b] \in [Slots -> [name : Names \cup {"", ".", ".."},
                                           ino : 0..NInodes]]

(* A new volume, from which the empty lost+found has been removed.         *)
Init ==
  /\ vol = [blocks |-> {1}, freeBlocks |-> NBlocks - 1,
            inodes |-> {Root}, freeInodes |-> NInodes - 1,
            usedDirs |-> 1, phantom |-> 0]
  /\ inode = [i \in Inodes |-> IF i = Root THEN NewDir(Root, Root, 1) ELSE Deleted]
-------------------------------------------------------------------------------
(* Link counts are a U16, counted up and down without a check.             *)
LinkUp(n) == (n + 1) % (MaxLinks + 1)
LinkDown(n) == (n - 1) % (MaxLinks + 1)

(* Bitmap: the lowest clear bit is taken.                                  *)
Lowest(S) == CHOOSE x \in S : \A y \in S : x <= y

BlockLeft(v) == v.freeBlocks > 0 /\ v.blocks # Blocks
NewBlock(v) == Lowest(Blocks \ v.blocks)
AllocBlock(v) ==
  [v EXCEPT !.blocks = @ \cup {NewBlock(v)}, !.freeBlocks = @ - 1]

FreeBlock(v, b) ==
  IF b \in v.blocks THEN [v EXCEPT !.blocks = @ \ {b}, !.freeBlocks = @ + 1]
  ELSE [v EXCEPT !.phantom = @ + 1]

InodeLeft(v) == v.freeInodes > 0 /\ v.inodes # Inodes
NewInode(v) == Lowest(Inodes \ v.inodes)
(* Mutant: the free count stays.                                           *)
AllocInodeUncounted(v, asDir) ==
  [v EXCEPT !.inodes = @ \cup {NewInode(v)}, !.usedDirs = IF asDir THEN @ + 1 ELSE @]

AllocInode(v, asDir) ==
  [v EXCEPT !.inodes = @ \cup {NewInode(v)}, !.freeInodes = @ - 1,
            !.usedDirs = IF asDir THEN @ + 1 ELSE @]

FreeInode(v, i, wasDir) ==
  IF i \in v.inodes
    THEN [v EXCEPT !.inodes = @ \ {i}, !.freeInodes = @ + 1,
                   !.usedDirs = IF wasDir /\ @ > 0 THEN @ - 1 ELSE @]
    ELSE [v EXCEPT !.phantom = @ + 1]

FreeAll(v, blocks) ==
  LET freed[k \in 0..Len(blocks)] ==
        IF k = 0 THEN v ELSE FreeBlock(freed[k - 1], blocks[k])
  IN freed[Len(blocks)]
-------------------------------------------------------------------------------
(* Directories.  A place is a block of the directory and a slot in it.     *)
Places(t, d) == (DOMAIN t[d].dir) \X Slots
At(t, d, p) == t[d].dir[p[1]][p[2]]
Before(p, q) == p[1] < q[1] \/ (p[1] = q[1] /\ p[2] < q[2])
First(S) == CHOOSE p \in S : \A q \in S \ {p} : Before(p, q)

Named(t, d, n) == {p \in Places(t, d) : At(t, d, p).name = n}
FreeSlots(t, d) == {p \in Places(t, d) : At(t, d, p).ino = 0}
Lookup(t, d, n) == IF Named(t, d, n) = {} THEN 0 ELSE At(t, d, First(Named(t, d, n))).ino

PutEntry(t, d, p, e) == [t EXCEPT ![d].dir[p[1]][p[2]] = e]
RemoveEntry(t, d, n) == PutEntry(t, d, First(Named(t, d, n)), NoEntry)
SetEntryInode(t, d, n, c) == PutEntry(t, d, First(Named(t, d, n)), Entry(n, c))
IsEmpty(t, d) == \A p \in Places(t, d) : At(t, d, p).name \in {"", ".", ".."}

(* Add_Entry, and whether it fails: it then has changed nothing.           *)
CanGrow(v, t, d) == Len(t[d].blocks) < MaxDirBlocks /\ BlockLeft(v)
CanAdd(v, t, d) == FreeSlots(t, d) # {} \/ CanGrow(v, t, d)

Grown(t, d, b) ==
  [t EXCEPT ![d].blocks = Append(@, b), ![d].dir = Append(@, EmptyBlock)]

AddedTable(v, t, d, n, c) ==
  IF FreeSlots(t, d) # {} THEN PutEntry(t, d, First(FreeSlots(t, d)), Entry(n, c))
  ELSE LET g == Grown(t, d, NewBlock(v))
       IN PutEntry(g, d, First(FreeSlots(g, d)), Entry(n, c))
AddedVolume(v, t, d) == IF FreeSlots(t, d) # {} THEN v ELSE AllocBlock(v)
-------------------------------------------------------------------------------
(* The directories that a path from the root leads to: Path.Resolve.       *)
IsDir(i) == inode[i].kind = "dir"
Children(d) == {At(inode, d, p).ino : p \in Places(inode, d)} \ {0}
Resolved ==
  LET step[k \in 0..NInodes] ==
        IF k = 0 THEN {Root}
        ELSE step[k - 1] \cup UNION {Children(d) : d \in {e \in step[k - 1] : IsDir(e)}}
  IN step[NInodes]
ResolvedDirs == {i \in Resolved : IsDir(i)}

Become(s) == vol' = s.v /\ inode' = s.t

(* The last part of each creation: inode i, which t describes, gets a name *)
(* in d, or it and its blocks are given back.                              *)
Attached(v, t, d, n, i) ==
  [v |-> AddedVolume(v, t, d), t |-> AddedTable(v, t, d, n, i)]
(* Mutant: the blocks are not given back.                                  *)
GivenBackInode(v, t, i) ==
  [v |-> FreeInode(v, i, t[i].kind = "dir"), t |-> [t EXCEPT ![i] = Deleted]]

GivenBack(v, t, i) ==
  [v |-> FreeInode(FreeAll(v, t[i].blocks), i, t[i].kind = "dir"),
   t |-> [t EXCEPT ![i] = Deleted]]
Attach(v, t, d, n, i) ==
  IF CanAdd(v, t, d) THEN Become(Attached(v, t, d, n, i)) ELSE Become(GivenBack(v, t, i))

MayCreate(d, n) == Lookup(inode, d, n) = 0 /\ InodeLeft(vol)

CreateFile(d, n) ==
  LET i == NewInode(vol)
      t == [inode EXCEPT ![i] = [Deleted EXCEPT !.kind = "reg", !.links = 1]]
  IN MayCreate(d, n) /\ Attach(AllocInode(vol, FALSE), t, d, n, i)

(* A long target needs a block.                                            *)
MakeSymlink(d, n, slow) ==
  LET i == NewInode(vol)
      v == AllocInode(vol, FALSE)
      w == IF slow THEN AllocBlock(v) ELSE v
      b == IF slow THEN <<NewBlock(v)>> ELSE <<>>
      link == [Deleted EXCEPT !.kind = "link", !.links = 1, !.blocks = b]
  IN /\ MayCreate(d, n)
     /\ IF slow /\ ~BlockLeft(v) THEN Become(GivenBack(v, inode, i))
        ELSE Attach(w, [inode EXCEPT ![i] = link], d, n, i)

Mkdir(d, n) ==
  LET i == NewInode(vol)
      v == AllocInode(vol, TRUE)
      new == [inode EXCEPT ![i] = [Deleted EXCEPT !.kind = "dir"]]
      w == AllocBlock(v)
      t == [inode EXCEPT ![i] = NewDir(i, d, NewBlock(v))]
      s == Attached(w, t, d, n, i)
  IN /\ MayCreate(d, n)
     /\ IF ~BlockLeft(v) THEN Become(GivenBack(v, new, i))
        ELSE IF ~CanAdd(w, t, d) THEN Become(GivenBack(w, t, i))
        ELSE Become([s EXCEPT !.t[d].links = LinkUp(@)])

Link(c, d, n) ==
  LET t == AddedTable(vol, inode, d, n, c) IN
  /\ ~IsDir(c) /\ Lookup(inode, d, n) = 0
  /\ CanAdd(vol, inode, d)
  /\ Become([v |-> AddedVolume(vol, inode, d), t |-> [t EXCEPT ![c].links = LinkUp(@)]])

(* Mutant: every name's removal counts as the last one.                    *)
UnlinkAlwaysFrees(d, n) ==
  LET c == Lookup(inode, d, n)
      s == GivenBack(vol, inode, c)
  IN /\ c # 0 /\ ~IsDir(c)
     /\ Become([s EXCEPT !.t = RemoveEntry(@, d, n)])

Unlink(d, n) ==
  LET c == Lookup(inode, d, n)
      freed == GivenBack(vol, inode, c)
      kept == [v |-> vol, t |-> [inode EXCEPT ![c].links = LinkDown(@)]]
      s == IF inode[c].links <= 1 THEN freed ELSE kept
  IN /\ c # 0 /\ ~IsDir(c)
     /\ Become([s EXCEPT !.t = RemoveEntry(@, d, n)])

Rmdir(d, n) ==
  LET c == Lookup(inode, d, n)
      s == GivenBack(vol, inode, c)
      t == RemoveEntry(s.t, d, n)
  IN /\ c # 0 /\ IsDir(c)
     /\ IsEmpty(inode, c)
     /\ Become([v |-> s.v, t |-> [t EXCEPT ![d].links = LinkDown(@)]])

(* Mutant: only the new parent itself is compared.                         *)
WalkUpNot(e) == {e}

(* Rename walks from the new parent up to the root by its ".." entries,    *)
(* and goes on with the move if it has not come there after MaxSteps.      *)
WalkUp(e) ==
  LET up[k \in 0..MaxSteps] ==
        IF k = 0 THEN e ELSE Lookup(inode, up[k - 1], "..")
  IN {up[k] : k \in 0..MaxSteps}

(* Mutant: the new parent's link count is written with the inode as it was *)
(* read before its directory grew.                                         *)
RenameStale(d, n, e, m) ==
  LET c == Lookup(inode, d, n)
      moved == IsDir(c) /\ d # e
      t == RemoveEntry(AddedTable(vol, inode, e, m, c), d, n)
      u == SetEntryInode(t, c, "..", e)
      stale == [u EXCEPT ![d].links = LinkDown(@),
                         ![e] = [@ EXCEPT !.links = LinkUp(@), !.blocks = inode[e].blocks,
                                          !.dir = SubSeq(@, 1, Len(inode[e].dir))]]
  IN /\ c # 0 /\ Lookup(inode, e, m) = 0
     /\ moved => c \notin WalkUp(e)
     /\ CanAdd(vol, inode, e)
     /\ vol' = AddedVolume(vol, inode, e)
     /\ inode' = IF moved THEN stale ELSE t

Rename(d, n, e, m) ==
  LET c == Lookup(inode, d, n)
      moved == IsDir(c) /\ d # e
      t == RemoveEntry(AddedTable(vol, inode, e, m, c), d, n)
      u == SetEntryInode(t, c, "..", e)
  IN /\ c # 0 /\ Lookup(inode, e, m) = 0
     /\ moved => c \notin WalkUp(e)
     /\ CanAdd(vol, inode, e)
     /\ vol' = AddedVolume(vol, inode, e)
     /\ inode' = IF moved THEN [u EXCEPT ![d].links = LinkDown(@), ![e].links = LinkUp(@)] ELSE t

(* Every operation is given directories, and Link a file, by their paths.  *)
Next ==
  \E d \in ResolvedDirs, n \in Names :
    \/ CreateFile(d, n) \/ Mkdir(d, n)
    \/ \E slow \in BOOLEAN : MakeSymlink(d, n, slow)
    \/ \E c \in Resolved : Link(c, d, n)
    \/ Unlink(d, n) \/ Rmdir(d, n)
    \/ \E e \in ResolvedDirs, m \in Names : Rename(d, n, e, m)

Spec == Init /\ [][Next]_vars

(* What the callers must keep to, for the code does not check it: no file  *)
(* is given one name more than its count can hold, and no directory is     *)
(* moved to a place that is more than MaxSteps below the root.             *)
LinkOverflows ==
  \E d \in ResolvedDirs, n \in Names, c \in Resolved :
    Link(c, d, n) /\ inode[c].links = MaxLinks
RenameTooDeep ==
  \E d, e \in ResolvedDirs, n, m \in Names :
    /\ Rename(d, n, e, m)
    /\ d # e /\ IsDir(Lookup(inode, d, n)) /\ Root \notin WalkUp(e)
KeptToLimits == [][~LinkOverflows /\ ~RenameTooDeep]_vars
-------------------------------------------------------------------------------
InUse == {i \in Inodes : inode[i].kind # "free"}
DirsInUse == {i \in InUse : IsDir(i)}

(* The entries with a name, not a dot, that lead to inode i.               *)
EntriesOf(i) ==
  UNION {{<<d, p>> : p \in {q \in Places(inode, d) :
                              At(inode, d, q).ino = i /\ At(inode, d, q).name \in Names}} :
           d \in DirsInUse}
SubDirs(d) == {i \in Children(d) \ {d} : IsDir(i) /\ \E p \in Places(inode, d) :
                 At(inode, d, p) \in {Entry(n, i) : n \in Names}}

(* The link count of a file is the number of its names, and a directory's  *)
(* counts its name, its "." and the ".." of each directory in it, after    *)
(* any sequence of operations, with failures (writer.adb:435, 660, 737-750)*)
LinksAgree ==
  \A i \in InUse : inode[i].links =
    IF IsDir(i) THEN 2 + Cardinality(SubDirs(i)) ELSE Cardinality(EntriesOf(i))

(* Every directory has one name, in the directory that its ".." leads to,  *)
(* and a path from the root leads to it: Rename never ties a loop          *)
(* (writer.adb:697-725).                                                   *)
TreeShaped ==
  /\ InUse \subseteq Resolved
  /\ \A i \in DirsInUse \ {Root} :
       \E e \in EntriesOf(i) : EntriesOf(i) = {e} /\ Lookup(inode, i, "..") = e[1]

(* No failure and no removal leaves a stray inode or block, a count that   *)
(* differs from its bitmap, or a block in two places (writer.adb:382-389). *)
BlocksOf(i) == {inode[i].blocks[k] : k \in DOMAIN inode[i].blocks}
NothingStray ==
  /\ vol.inodes = InUse /\ vol.freeInodes = NInodes - Cardinality(vol.inodes)
  /\ vol.usedDirs = Cardinality(DirsInUse)
  /\ vol.blocks = UNION {BlocksOf(i) : i \in InUse}
  /\ vol.freeBlocks = NBlocks - Cardinality(vol.blocks)
  /\ \A i, j \in InUse : i # j => BlocksOf(i) \cap BlocksOf(j) = {}
  /\ vol.phantom = 0

(* To the callers of the file system, directories are the tree of names of *)
(* NameTree: an operation that fails leaves all names as they were, and    *)
(* one that succeeds changes those it was given.                           *)
NamesOf(d) ==
  [n \in {n \in Names : Lookup(inode, d, n) # 0} |-> Lookup(inode, d, n)]
NamedTree ==
  [i \in InUse |-> [kind |-> inode[i].kind, names |-> NamesOf(i)]]
Abstract == INSTANCE NameTree WITH Nodes <- Inodes, tree <- NamedTree
ImplementsNameTree == Abstract!Spec
===============================================================================
