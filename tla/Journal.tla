-------------------------------- MODULE Journal --------------------------------
(***************************************************************************)
(* The journaled commit of the ext4 driver: ESP32S3.Ext4.Journal with the  *)
(* Open, Commit and Close of ESP32S3.Ext4.FS and the Sync of Superblock,   *)
(* over the block cache.  The file operations edit cached blocks only;     *)
(* Transaction_Commit logs the dirty ones and the superblock straight to   *)
(* the device, raises the RECOVER flag (the barrier), writes them home     *)
(* through the cache, lowers the flag and empties the log.                 *)
(*                                                                         *)
(* All entry points but Open hold FS_Mutex, and a volume is opened once,   *)
(* so the interleavings are with power cuts and with writes that the       *)
(* device fails during a commit.  Each write to the device is a step.      *)
(***************************************************************************)
EXTENDS BlockCache, SequencesExt

CONSTANTS
  NFs,         \* file-system blocks: block 1 holds the journal's inode,
               \* block NFs the allocation bitmap
  LogLens,     \* lengths the log region may have, Maxlen - First
  DescCap,     \* tags one descriptor block holds
  MaxWS,       \* Max_WS: the write-set, superblock included
  Values,      \* contents of a file-system block
  Counts,      \* values of the superblock's free counts
  MaxSeq,      \* bound: no commit is begun with a later sequence number
  MaxCuts,     \* bound: power cuts and device errors
  ErrorPhases, \* where Transaction_Commit may meet a device error: "log",
               \* "point", "barrier", "checkpoint", "reset"
  CutsRecovery \* may power fail while Open writes the replayed blocks home?

VARIABLES
  pc,       \* the step of Open, Transaction_Commit or Close
  sb,       \* V.SB: the superblock in memory
  targets,  \* Targets (1 .. N)
  k,        \* the loop variable over them
  plan,     \* the block accesses Replay has still to make
  cuts      \* power cuts and device errors so far

vars == <<disk, cache, recent, pc, sb, targets, k, plan, cuts>>

---------------------------------------------------------------------------
(* The volume                                                              *)

SB == 0
FsBlocks == 1 .. NFs
JournalInode == 1
Jsb == NFs + 1
Log(p) == NFs + 2 + p

ASSUME JournalAssumption ==
  /\ NFs \in Nat \ {0} /\ LogLens \subseteq Nat \ {0} /\ MaxWS \in Nat \ {0, 1}
  /\ DescCap \in Nat /\ MaxSeq \in Nat \ {0} /\ MaxCuts \in Nat
  /\ Counts \subseteq Nat /\ CutsRecovery \in BOOLEAN
  /\ ErrorPhases \subseteq {"log", "point", "barrier", "checkpoint", "reset"}
  /\ \E len \in LogLens :
       Blocks = 0 .. NFs + 1 + len /\ \A l \in LogLens : l <= len

(* Contents by what they are to the journal; a data block that begins with *)
(* the journal's magic is escaped in the log, which nothing here can see.  *)
Data(v) == [type |-> "data", val |-> v]
Torn == [type |-> "torn"]
SuperBlock(recover, free) == [type |-> "sb", recover |-> recover, free |-> free]
JournalHeader(start, seq, len) ==
  [type |-> "jsb", start |-> start, seq |-> seq, len |-> len]
Descriptor(seq, tags) == [type |-> "desc", seq |-> seq, tags |-> tags]
CommitBlock(seq) == [type |-> "commit", seq |-> seq]

LogLen == disk[Jsb].len
JournalSuper(start, seq) == JournalHeader(start, seq, LogLen)

Put(write) ==
  disk' = [disk EXCEPT ![write.blk] = write.val] /\ UNCHANGED <<cache, recent>>

---------------------------------------------------------------------------
(* Replay                                                                  *)

Wrap(p) == IF p >= LogLen THEN p - LogLen ELSE p

HeaderAt(p, type, seq) == disk[Log(p)].type = type /\ disk[Log(p)].seq = seq

(* Of the transaction at p: its tags, its data blocks, its commit block.   *)
TagsAt(p) == disk[Log(p)].tags

(* Mutant: the data is taken to start at the descriptor.                   *)
DataOfShifted(p, i) == Log(Wrap(p + i - 1))
DataOf(p, i) == Log(Wrap(p + i))
EndOf(p) == Wrap(p + 1 + Len(TagsAt(p)))

CommittedAt(p, seq) ==
  HeaderAt(p, "desc", seq) /\ HeaderAt(EndOf(p), "commit", seq)

(* Where the n-th transaction of the log starts, if those before it were   *)
(* committed; the sequence numbers count up from the journal superblock's. *)
TxnStart[n \in 0 .. LogLen] ==
  IF n = 0 THEN 0 ELSE LET p == TxnStart[n - 1] IN Wrap(EndOf(p) + 1)

CommittedTxn(n) == CommittedAt(TxnStart[n], disk[Jsb].seq + n)

(* Pass 1: how many transactions the log holds, up to End_Seq.             *)
CommittedCount ==
  IF ~disk[Jsb].start THEN 0
  ELSE CHOOSE n \in 0 .. LogLen :
         ~CommittedTxn(n) /\ \A m \in 0 .. n - 1 : CommittedTxn(m)

ReadOf(b) == [op |-> "read", blk |-> b]
WriteOf(b, c) == [op |-> "write", blk |-> b, val |-> c]

(* The headers pass 1 reads, those it stops at included.                   *)
ScanReads ==
  FlattenSeq([j \in 1 .. CommittedCount + 1 |->
    LET p == TxnStart[j - 1] IN
    <<ReadOf(Log(p))>> \o
    (IF HeaderAt(p, "desc", disk[Jsb].seq + j - 1) THEN <<ReadOf(Log(EndOf(p)))>>
     ELSE <<>>)])

(* Mutant: the last tag of a descriptor is missed.                         *)
ReplayDescriptorShort(p) ==
  [i \in 1 .. 2 * Len(TagsAt(p)) - 2 |->
     LET n == (i + 1) \div 2 IN
     IF i % 2 = 1 THEN ReadOf(DataOf(p, n))
     ELSE WriteOf(TagsAt(p)[n], disk[DataOf(p, n)])]

(* Replay_Descriptor: each logged block is read and written to its target. *)
ReplayDescriptor(p) ==
  [i \in 1 .. 2 * Len(TagsAt(p)) |->
     LET n == (i + 1) \div 2 IN
     IF i % 2 = 1 THEN ReadOf(DataOf(p, n))
     ELSE WriteOf(TagsAt(p)[n], disk[DataOf(p, n)])]

(* Pass 2.                                                                 *)
ReplayTxns ==
  FlattenSeq([j \in 1 .. CommittedCount |->
    LET p == TxnStart[j - 1] IN
    <<ReadOf(Log(p))>> \o ReplayDescriptor(p) \o <<ReadOf(Log(EndOf(p)))>>])

(* The accesses to the cache Replay makes, in their order: the two passes, *)
(* then the reset of the journal superblock.                               *)
ReplayPlan ==
  <<ReadOf(JournalInode), ReadOf(Jsb)>>
  \o (IF disk[Jsb].start THEN ScanReads \o ReplayTxns ELSE <<>>)
  \o <<WriteOf(Jsb, JournalSuper(FALSE, disk[Jsb].seq + CommittedCount))>>

---------------------------------------------------------------------------
(* Open                                                                    *)

Init ==
  /\ \E v \in Values, n \in Counts, len \in LogLens :
       disk = [b \in Blocks |->
                 CASE b = SB -> SuperBlock(FALSE, n)
                   [] b \in FsBlocks -> Data(v)
                   [] b = Jsb -> JournalHeader(FALSE, 1, len)
                   [] OTHER -> Torn]
  /\ cache = CacheEmpty /\ recent = <<>>
  /\ pc = "off" /\ sb = disk[SB] /\ targets = <<>> /\ k = 0 /\ plan = <<>>
  /\ cuts = 0

(* A writable mount; Replay is for a superblock that asks for it.          *)
Open ==
  /\ pc = "off"
  /\ sb' = disk[SB]
  /\ IF sb'.recover
       THEN pc' = "replay" /\ plan' = ReplayPlan
       ELSE pc' = "idle" /\ UNCHANGED plan
  /\ UNCHANGED <<cachevars, targets, k, cuts>>

(* Replay's next access to the cache.                                      *)
Replay ==
  /\ pc = "replay"
  /\ IF Head(plan).op = "read" THEN Read(Head(plan).blk)
                               ELSE Write(Head(plan).blk, Head(plan).val)
  /\ plan' = Tail(plan)
  /\ pc' = IF plan' = <<>> THEN "rflush" ELSE "replay"
  /\ UNCHANGED <<sb, targets, k, cuts>>

(* Open's Flush, one block at a time.                                      *)
ReplayFlush ==
  /\ pc = "rflush"
  /\ FlushStep
  /\ UNCHANGED <<pc, sb, targets, k, plan, cuts>>

(* Open reads the superblock again: the flag Replay cleared in V.SB is     *)
(* back as the device has it.                                              *)
Reread ==
  /\ pc = "rflush" /\ AllClean
  /\ sb' = disk[SB]
  /\ pc' = "idle"
  /\ UNCHANGED <<cachevars, targets, k, plan, cuts>>

---------------------------------------------------------------------------
(* The file operations between two commits, by the blocks they read and    *)
(* edit in the cache.                                                      *)

(* An operation allocates or frees blocks only with an edit of the bitmap. *)
Edit(b, v, n) ==
  /\ pc = "idle"
  /\ n # sb.free => b = NFs
  /\ Write(b, Data(v))
  /\ sb' = [sb EXCEPT !.free = n]
  /\ UNCHANGED <<pc, targets, k, plan, cuts>>

(* A read can push an edited block out of the cache, and so home.          *)
Look(b) ==
  /\ pc = "idle"
  /\ Read(b)
  /\ UNCHANGED <<pc, sb, targets, k, plan, cuts>>

---------------------------------------------------------------------------
(* Transaction_Commit                                                      *)

N == Len(targets)

(* Dirty_Tags stops, and so does the write-set, at Max_WS - 1 blocks.      *)
Gathered ==
  IF Len(DirtyTags) < MaxWS THEN DirtyTags ELSE SubSeq(DirtyTags, 1, MaxWS - 1)

(* Gather the write-set, the superblock last.                              *)
CommitBegin ==
  /\ pc = "idle" /\ ~AllClean
  /\ disk[Jsb].seq < MaxSeq
  /\ targets' = Append(Gathered, SB)
  /\ pc' = "inode"
  /\ UNCHANGED <<cachevars, sb, k, plan, cuts>>

(* Mutant: no capacity gate.                                               *)
FitsAlways == TRUE

(* The capacity gate: descriptor, data blocks and commit block.            *)
Fits == N <= DescCap /\ N + 2 <= LogLen

(* Inode.Read of the journal's inode, the journal superblock, the gate.    *)
ReadJournal ==
  /\ pc = "inode"
  /\ Read(JournalInode)
  /\ IF Fits THEN pc' = "desc" /\ k' = 1 /\ UNCHANGED targets
             ELSE pc' = "idle" /\ k' = 0 /\ targets' = <<>>
  /\ UNCHANGED <<sb, plan, cuts>>

Next_k == k' = k + 1

(* Block_Cache.Read of the next target; the superblock is in SBblk.        *)
ReadTarget == IF targets[k] = SB THEN UNCHANGED cachevars ELSE Read(targets[k])

(* Every target is read for its tag ...                                    *)
Tag ==
  /\ pc = "desc" /\ k <= N
  /\ ReadTarget
  /\ Next_k
  /\ UNCHANGED <<pc, sb, targets, plan, cuts>>

Logged(b) == IF b = SB THEN SuperBlock(TRUE, sb.free) ELSE View(b)

(* The next write to the device, once the reads before it are done.        *)
NextWrite ==
  CASE pc = "desc" -> WriteOf(Log(0), Descriptor(disk[Jsb].seq, targets))
    [] pc = "copy" -> WriteOf(Log(k), Logged(targets[k]))
    [] pc = "data" -> WriteOf(Log(N + 1), CommitBlock(disk[Jsb].seq))
    [] pc = "point" -> WriteOf(Jsb, JournalSuper(TRUE, disk[Jsb].seq))
    [] pc = "barrier" -> WriteOf(SB, SuperBlock(TRUE, sb.free))
    [] pc = "checkpoint" /\ ~AllClean ->
         WriteOf(cache[FirstDirty].tag, cache[FirstDirty].val)
    [] pc = "checkpoint" /\ AllClean -> WriteOf(SB, SuperBlock(FALSE, sb.free))
    [] pc = "reset" -> WriteOf(Jsb, JournalSuper(FALSE, disk[Jsb].seq + 1))

WriteDescriptor ==
  /\ pc = "desc" /\ k > N
  /\ Put(NextWrite)
  /\ pc' = "data" /\ k' = 1
  /\ UNCHANGED <<sb, targets, plan, cuts>>

(* ... and again for its data.                                             *)
Fetch ==
  /\ pc = "data" /\ k <= N
  /\ ReadTarget
  /\ pc' = "copy"
  /\ UNCHANGED <<sb, targets, k, plan, cuts>>

WriteData ==
  /\ pc = "copy"
  /\ Put(NextWrite)
  /\ pc' = "data" /\ Next_k
  /\ UNCHANGED <<sb, targets, plan, cuts>>

WriteCommitBlock ==
  /\ pc = "data" /\ k > N
  /\ Put(NextWrite)
  /\ pc' = "point"
  /\ UNCHANGED <<sb, targets, k, plan, cuts>>

PointJournal ==
  /\ pc = "point"
  /\ Put(NextWrite)
  /\ pc' = "barrier"
  /\ UNCHANGED <<sb, targets, k, plan, cuts>>

(* Mutant: the flag is raised through the cache.                           *)
RaiseRecoverCached ==
  /\ pc = "barrier"
  /\ Write(SB, SuperBlock(TRUE, sb.free))
  /\ pc' = "checkpoint"
  /\ UNCHANGED <<sb, targets, k, plan, cuts>>

(* The barrier: Write_SB_Raw (Recover => True).                            *)
RaiseRecover ==
  /\ pc = "barrier"
  /\ Put(NextWrite)
  /\ pc' = "checkpoint"
  /\ UNCHANGED <<sb, targets, k, plan, cuts>>

Checkpoint ==
  /\ pc = "checkpoint"
  /\ FlushStep
  /\ UNCHANGED <<pc, sb, targets, k, plan, cuts>>

ClearRecover ==
  /\ pc = "checkpoint" /\ AllClean
  /\ Put(NextWrite)
  /\ pc' = "reset"
  /\ UNCHANGED <<sb, targets, k, plan, cuts>>

ResetJournal ==
  /\ pc = "reset"
  /\ Put(NextWrite)
  /\ pc' = "idle" /\ targets' = <<>> /\ k' = 0
  /\ UNCHANGED <<sb, plan, cuts>>

---------------------------------------------------------------------------
(* Close: Flush, Sync, and the cache is released.                          *)

Close ==
  /\ pc = "idle"
  /\ pc' = "closing"
  /\ UNCHANGED <<cachevars, sb, targets, k, plan, cuts>>

CloseFlush ==
  /\ pc = "closing"
  /\ FlushStep
  /\ UNCHANGED <<pc, sb, targets, k, plan, cuts>>

Sync ==
  /\ pc = "closing" /\ AllClean
  /\ disk' = [disk EXCEPT ![SB] = sb]
  /\ Drop
  /\ pc' = "off"
  /\ UNCHANGED <<sb, targets, k, plan, cuts>>

---------------------------------------------------------------------------
(* The blocks that may be asked of the cache next.                         *)
Accessed ==
  CASE pc = "replay" -> {Head(plan).blk}
    [] pc = "idle" -> FsBlocks
    [] pc = "inode" -> {JournalInode}
    [] pc \in {"desc", "data"} /\ k <= N -> {targets[k]} \ {SB}
    [] OTHER -> {}

(* The edited block that goes home to make room for one of them.           *)
Spilled ==
  IF (\E b \in Accessed : ~Resident(b)) /\ VictimDirty
    THEN {cache[Victim].tag} \ {SB, Jsb}
    ELSE {}

(* The block whose write is in progress.  The superblock and the journal's *)
(* keep all that matters here in one sector; the others may be torn.       *)
InFlight ==
  CASE pc \in {"rflush", "checkpoint", "closing"} /\ ~AllClean ->
         {cache[FirstDirty].tag} \ {SB, Jsb}
    [] pc = "desc" /\ k > N -> {Log(0)}
    [] pc = "copy" -> {Log(k)}
    [] pc = "data" /\ k > N -> {Log(N + 1)}
    [] OTHER -> Spilled

PowerCut ==
  /\ pc # "off"
  /\ pc = "rflush" => CutsRecovery
  /\ cuts < MaxCuts /\ cuts' = cuts + 1
  /\ disk' \in {disk} \cup {[disk EXCEPT ![b] = Torn] : b \in InFlight}
  /\ Drop
  /\ pc' = "off" /\ targets' = <<>> /\ k' = 0 /\ plan' = <<>>
  /\ sb' = disk[SB]

(* The loop of reads before the next write is through.                     *)
AtWrite == pc \in {"desc", "data"} => k > N
CommitPhase == IF pc \in {"desc", "data", "copy"} THEN "log" ELSE pc

(* The device fails a write of Transaction_Commit, which raises: the write *)
(* had no effect, or its whole effect, or left its block torn.  What is in *)
(* memory stays as it was, and the caller may edit on or commit again.     *)
DeviceError ==
  /\ AtWrite /\ CommitPhase \in ErrorPhases
  /\ cuts < MaxCuts /\ cuts' = cuts + 1
  /\ disk' \in {disk, [disk EXCEPT ![NextWrite.blk] = NextWrite.val]}
              \cup {[disk EXCEPT ![b] = Torn] : b \in InFlight}
  /\ pc' = "idle" /\ targets' = <<>> /\ k' = 0
  /\ UNCHANGED <<cache, recent, sb, plan>>

Next ==
  \/ Open \/ Replay \/ ReplayFlush \/ Reread
  \/ \E b \in FsBlocks, v \in Values, n \in Counts : Edit(b, v, n)
  \/ \E b \in FsBlocks : Look(b)
  \/ CommitBegin \/ ReadJournal \/ Tag \/ WriteDescriptor \/ Fetch
  \/ WriteData \/ WriteCommitBlock \/ PointJournal \/ RaiseRecover
  \/ Checkpoint \/ ClearRecover \/ ResetJournal
  \/ Close \/ CloseFlush \/ Sync
  \/ PowerCut \/ DeviceError

Spec == Init /\ [][Next]_vars

(* What atomic commits need of the cache: of the accesses between two      *)
(* commits, and of those a commit makes, none pushes an edited block home. *)
(* esp32s3-ext4-fs.ads:113 asks of the caller that the write-set fit the   *)
(* cache, which nothing enforces, and which is not enough, for blocks that *)
(* are only read push edited ones out too.  Clean blocks may be pushed out *)
(* at any time, and any block while a recovery goes on.                    *)
Accessing == pc \in {"idle", "inode"} \/ (pc \in {"desc", "data"} /\ k <= N)
WriteSetFits == [][Accessing => disk' = disk]_vars

---------------------------------------------------------------------------
(* Properties                                                              *)

FsContents == [type : {"data"}, val : Values] \cup {Torn}
SuperBlocks == [type : {"sb"}, recover : BOOLEAN, free : Counts]

TypeOK ==
  /\ DOMAIN disk = Blocks
  /\ \A b \in FsBlocks : disk[b] \in FsContents
  /\ disk[SB] \in SuperBlocks /\ sb \in SuperBlocks
  /\ disk[Jsb] \in [type : {"jsb"}, start : BOOLEAN, seq : 1 .. MaxSeq,
                   len : LogLens]
  /\ \A e \in DOMAIN cache : cache[e].tag \in Blocks
  /\ Len(cache) <= CacheBlocks
  /\ targets \in Seq(FsBlocks \cup {SB}) /\ k \in 0 .. N + 1
  /\ pc \in {"off", "replay", "rflush", "idle", "inode", "desc", "data", "copy",
             "point", "barrier", "checkpoint", "reset", "closing"}

Mounted == pc \notin {"off", "replay", "rflush"}

Count(n) == [type |-> "count", free |-> n]

(* The device after a plan's writes have gone home.                        *)
After(accesses) ==
  LET written[i \in 0 .. Len(accesses)] ==
        IF i = 0 THEN disk
        ELSE IF accesses[i].op = "write"
          THEN [written[i - 1] EXCEPT ![accesses[i].blk] = accesses[i].val]
        ELSE written[i - 1]
  IN written[Len(accesses)]

(* The device as Replay would leave it; TLC makes a bound plan only once.  *)
Recovered == CHOOSE d \in {After(accesses) : accesses \in {ReplayPlan}} : TRUE

(* The state of the file system that a mount, or the one in progress, ends *)
(* with.                                                                   *)
Durable ==
  LET recovered == IF disk[SB].recover THEN Recovered ELSE disk
      found(b) == IF pc = "rflush" THEN View(b) ELSE recovered[b]
  IN [b \in FsBlocks \cup {SB} |-> IF b = SB THEN Count(found(b).free) ELSE found(b)]

(* The state the callers of the mount see.                                 *)
Working ==
  IF ~Mounted THEN Durable
  ELSE [b \in FsBlocks \cup {SB} |-> IF b = SB THEN Count(sb.free) ELSE View(b)]

(* "A crash after the barrier recovers forward (Replay); a crash before it *)
(* has no effect" (journal.ads): while the volume is not being closed, the *)
(* state the next mount finds changes only where Transaction_Commit points *)
(* the journal at the transaction or raises the flag, and then to the      *)
(* whole of what the callers see.                                          *)
CommitIsAtomic ==
  [][Durable' # Durable /\ pc # "closing" =>
       pc \in {"point", "barrier"} /\ Durable' = Working]_vars

(* The journal and the superblock are written past the cache, which may    *)
(* still hold the copies Replay read: outside of recovery none of those    *)
(* copies is ever dirty, so no Flush puts an old one back.                 *)
DirectBlocksClean ==
  Mounted => \A e \in DirtyEntries : cache[e].tag \in FsBlocks

(* With the state a mount would find as the durable one and what its       *)
(* callers see as the working one, the journaled volume is an atomic       *)
(* store: edits, refused commits, the clearing of the flag and the reset   *)
(* of the log are no steps of it, recovery ends where the cut left it, and *)
(* only Close gives up more than one block at a time.                      *)
Store == INSTANCE AtomicStore WITH
  Blks <- FsBlocks \cup {SB},
  durable <- Durable,
  working <- Working,
  mode <- CASE ~Mounted -> "closed"
            [] pc = "closing" -> "closing"
            [] OTHER -> "open"

ImplementsAtomicStore == Store!Spec
===============================================================================
