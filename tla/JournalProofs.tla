----------------------------- MODULE JournalProofs -----------------------------
(***************************************************************************)
(* Proofs about Journal, for every number of file-system blocks, every log *)
(* length, every contents and every number of power cuts and of device     *)
(* errors while the log is written: the types, that no stale copy of a     *)
(* block written past the cache is dirty, that a commit is atomic, and     *)
(* that the journaled mount implements AtomicStore.  The first two hold    *)
(* for every cache, the others as long as no edited block is evicted       *)
(* before it is committed (WriteSetFits).                                  *)
(***************************************************************************)
EXTENDS Journal, FiniteSetTheorems, WellFoundedInduction, TLAPS

(* A set of natural numbers that is not empty has a least one.             *)
LEMMA LeastOne ==
  ASSUME NEW T \in SUBSET Nat, T # {}
  PROVE  \E p \in T : \A q \in T : p <= q
<1> DEFINE less == {ss \in Nat \X Nat : ss[1] < ss[2]}
<1>1. IsWellFoundedOn(less, Nat)
  BY NatLessThanWellFounded DEF OpToRel
<1>2. \E p \in T : \A q \in T : ~(<<q, p>> \in less)
  <2> HIDE DEF less
  <2> QED BY <1>1, WFMin
<1>3. PICK p \in T : \A q \in T : ~(<<q, p>> \in less)
  BY <1>2
<1>4. \A q \in T : <<q, p>> \in Nat \X Nat /\ q \in Nat /\ p \in Nat
  OBVIOUS
<1>5. \A q \in T : ~(q < p)
  BY <1>3, <1>4
<1> QED BY <1>4, <1>5

(* Induction up to n, over the set of the numbers that have the property.  *)
LEMMA UpTo ==
  ASSUME NEW n \in Nat, NEW T, 0 \in T, \A p \in 0 .. n - 1 : p \in T => p + 1 \in T
  PROVE  0 .. n \subseteq T
<1> DEFINE missing == (0 .. n) \ T
<1>1. SUFFICES ASSUME missing # {} PROVE FALSE
  OBVIOUS
<1>2. PICK p \in missing : \A q \in missing : p <= q
  <2>1. missing \in SUBSET Nat
    OBVIOUS
  <2> HIDE DEF missing
  <2> QED BY <1>1, <2>1, LeastOne
<1>3. p # 0 /\ p - 1 \in 0 .. n - 1 /\ p - 1 \notin missing
  BY <1>2
<1> QED BY <1>2, <1>3

(* The assumptions of the theorems, besides WriteSetFits: the device fails *)
(* no write of a commit but those of the log, ...                          *)
LogErrorsOnly == ErrorPhases \subseteq {"log"}
(* ... the write-set has room for every slot of the cache, ...             *)
SetHoldsAll == CacheBlocks < MaxWS
(* ... and power does not fail while a recovery is written home.           *)
RecoveryWhole == CutsRecovery = FALSE

-------------------------------------------------------------------------------
(* The state, with the cache seen as what its readers get and what is      *)
(* dirty.                                                                  *)

Homes == FsBlocks \cup {SB}
LogBlocks == {b \in Blocks : b > Jsb}
Headers == [type : {"jsb"}, start : BOOLEAN, seq : 1 .. MaxSeq, len : LogLens]
LogContents ==
  FsContents \cup SuperBlocks
    \cup [type : {"desc"}, seq : Nat, tags : Seq(Homes)]
    \cup [type : {"commit"}, seq : Nat]
Contents == LogContents \cup Headers

(* What a block holds by its place.                                        *)
KindOf(b) ==
  IF b \in FsBlocks THEN FsContents
  ELSE IF b = SB THEN SuperBlocks
  ELSE IF b = Jsb THEN Headers
  ELSE LogContents

Entries == [tag : Blocks, dirty : BOOLEAN, val : Contents]
Seen == [b \in Blocks |-> View(b)]
Dirty == {cache[e].tag : e \in DirtyEntries}

(* An access can push a block out.                                         *)
Evicts == Cardinality(Blocks) > CacheBlocks

(* The order of use lists the cached blocks, each once.                    *)
Listed ==
  /\ Len(recent) = Len(cache)
  /\ \A i \in DOMAIN recent : Resident(recent[i])
  /\ \A e \in DOMAIN cache : \E i \in DOMAIN recent : recent[i] = cache[e].tag
  /\ \A i, j \in DOMAIN recent : recent[i] = recent[j] => i = j

RecentOK == Evicts => Listed

CacheOK ==
  /\ cache \in Seq(Entries) /\ Len(cache) <= CacheBlocks
  /\ \A d, e \in DOMAIN cache : cache[d].tag = cache[e].tag => d = e
  /\ recent \in Seq(Blocks) /\ RecentOK

DiskTyped == disk \in [Blocks -> Contents] /\ \A b \in Blocks : disk[b] \in KindOf(b)
SeenTyped == \A b \in Blocks : Seen[b] \in KindOf(b)

Starts == disk[Jsb].start
Seqno == disk[Jsb].seq

(* The headers in the log are of this transaction or an earlier one.       *)
SeqsPast ==
  \A b \in LogBlocks : disk[b].type \in {"desc", "commit"} => disk[b].seq <= Seqno

(* The phases.                                                             *)
Recovering == pc \in {"off", "replay", "rflush"}
Closed == pc \in {"idle", "inode", "desc", "data", "copy", "point", "closing"}
Filling == pc \in {"desc", "data", "copy"}
Filled == pc \in {"point", "barrier", "checkpoint"}
Committing == pc = "inode" \/ Filling \/ Filled
Resting == Recovering \/ pc \in {"idle", "closing"}

(* The log is one whole transaction, of these targets.                     *)
LogIs(tags) ==
  /\ tags \in Seq(Homes)
  /\ Len(tags) + 2 <= LogLen
  /\ Seqno < MaxSeq
  /\ disk[Log(0)] = Descriptor(Seqno, tags)
  /\ disk[Log(Len(tags) + 1)] = CommitBlock(Seqno)
  /\ \A i \in 1 .. Len(tags) : disk[Log(i)] \in KindOf(tags[i])
  /\ \A i, j \in 1 .. Len(tags) : tags[i] = tags[j] => disk[Log(i)] = disk[Log(j)]
  /\ \A i \in 1 .. Len(tags) : tags[i] = SB => disk[Log(i)].recover

Tags == disk[Log(0)].tags
LogWhole == LogIs(Tags)

(* A mount replays the log.                                                *)
Believed == disk[SB].recover /\ Starts

(* What Replay writes to b, if anything.                                   *)
InLog(b) == Starts /\ \E i \in 1 .. Len(Tags) : Tags[i] = b
LoggedFor(b) == disk[Log(CHOOSE i \in 1 .. Len(Tags) : Tags[i] = b)]
Reset == JournalSuper(FALSE, Seqno + (IF Starts THEN 1 ELSE 0))
Replays(b) == b = Jsb \/ InLog(b)
NewOf(b) == IF b = Jsb THEN Reset ELSE LoggedFor(b)

(* What is still to be replayed is in the plan, the rest in the cache or   *)
(* already home; the journal's superblock comes last.                      *)
Accesses ==
  [op : {"read"}, blk : Blocks] \cup [op : {"write"}, blk : Blocks, val : Contents]
Replaying ==
  {a \in Accesses : a.op = "write" => Replays(a.blk) /\ a.val = NewOf(a.blk)}
Copying == {a \in Replaying : a.op = "write" => a.blk # Jsb}
ResetsLast(accesses) ==
  \A i \in DOMAIN accesses :
    accesses[i].op = "write" /\ accesses[i].blk = Jsb => i = Len(accesses)

PlanOK == plan # <<>> /\ plan \in Seq(Replaying) /\ ResetsLast(plan)

Pending(b) == \E i \in DOMAIN plan : plan[i].op = "write" /\ plan[i].blk = b

ReplayRight ==
  /\ disk[SB].recover
  /\ PlanOK
  /\ \A b \in Blocks : Replays(b) => Pending(b) \/ b \in Dirty \/ disk[b] = NewOf(b)
  /\ \A b \in Dirty : Replays(b) /\ Seen[b] = NewOf(b)
  /\ Jsb \notin Dirty

(* The reset of the journal's superblock is not lost.                      *)
FlushRight ==
  /\ Starts => Jsb \in Dirty
  /\ Jsb \in Dirty => ~Seen[Jsb].start /\ Seen[Jsb].seq >= Seqno

(* The image of a target in the log.                                       *)
Image(b) == IF b = SB THEN SuperBlock(TRUE, sb.free) ELSE Seen[b]

LogSoFar ==
  /\ k \in 1 .. N + 1
  /\ pc = "copy" => k <= N
  /\ pc # "desc" => disk[Log(0)] = Descriptor(Seqno, targets)
  /\ pc # "desc" => \A i \in 1 .. k - 1 : disk[Log(i)] = Image(targets[i])
  /\ Filled => k = N + 1 /\ disk[Log(N + 1)] = CommitBlock(Seqno)

(* Where the journal may not be believed.                                  *)
FlagsRight ==
  /\ pc = "off" => (Believed => LogWhole)
  /\ pc \in {"replay", "rflush"} => (Starts => LogWhole)
  /\ Closed => (Starts => ~disk[SB].recover /\ ~sb.recover)
  /\ pc \in {"barrier", "checkpoint"} => Starts
  /\ pc = "checkpoint" => disk[SB].recover
  /\ pc = "reset" => ~disk[SB].recover

(* The targets of a commit.                                                *)
TargetsRight ==
  /\ targets \in Seq(Homes) /\ k \in 0 .. N + 1
  /\ Resting => k = 0
  /\ Committing => \E i \in 1 .. N : targets[i] = SB
  /\ Committing \/ pc = "reset" => Seqno < MaxSeq
  /\ Committing /\ SetHoldsAll => \A b \in Dirty : \E i \in 1 .. N : targets[i] = b
  /\ Filling \/ Filled => N + 2 <= LogLen

CleanRight ==
  \A b \in Blocks \ Dirty : b \in FsBlocks \/ ~Mounted => Seen[b] = disk[b]

DirtyRight ==
  /\ Dirty \subseteq FsBlocks \cup (IF Mounted THEN {} ELSE {SB, Jsb})
  /\ pc = "off" => cache = <<>>

Basics ==
  /\ CacheOK /\ DiskTyped /\ SeenTyped /\ sb \in SuperBlocks /\ SeqsPast
  /\ CleanRight /\ DirtyRight

IInv ==
  /\ Basics
  /\ Recovering \/ Closed \/ pc \in {"barrier", "checkpoint", "reset"}
  /\ TargetsRight /\ FlagsRight
  /\ pc = "replay" => ReplayRight
  /\ pc = "rflush" => FlushRight
  /\ Filling \/ Filled => LogSoFar
-------------------------------------------------------------------------------
(* The volume's geometry.                                                  *)
LEMMA Geometry ==
  /\ NFs \in Nat /\ NFs > 0 /\ MaxWS \in Nat /\ MaxSeq \in Nat \ {0}
  /\ CacheBlocks \in Nat /\ IsFiniteSet(Blocks) /\ Blocks \subseteq Nat
  /\ FsBlocks \subseteq Blocks /\ JournalInode \in FsBlocks
  /\ SB \in Blocks /\ Jsb \in Blocks /\ SB \notin FsBlocks /\ Jsb \notin FsBlocks
  /\ SB # Jsb /\ LogLens \subseteq Nat \ {0}
<1>1. PICK len \in LogLens : Blocks = 0 .. NFs + 1 + len
  BY JournalAssumption
<1> QED BY <1>1, JournalAssumption, CacheAssumption
     DEF FsBlocks, SB, Jsb, JournalInode

LEMMA Regions ==
  ASSUME NEW b \in Blocks
  PROVE  /\ b \in FsBlocks \/ b = SB \/ b = Jsb \/ b \in LogBlocks
         /\ b \in LogBlocks => b \notin FsBlocks /\ b # SB /\ b # Jsb
BY Geometry DEF FsBlocks, SB, Jsb, LogBlocks

LEMMA LogAt ==
  ASSUME NEW len \in LogLens, NEW p \in 0 .. len - 1
  PROVE  Log(p) \in LogBlocks /\ Log(p) \in Blocks
<1>1. PICK max \in LogLens :
        Blocks = 0 .. NFs + 1 + max /\ \A l \in LogLens : l <= max
  BY JournalAssumption
<1> QED BY <1>1, JournalAssumption DEF Log, LogBlocks, Jsb

LEMMA LogApart ==
  ASSUME NEW p \in Nat, NEW q \in Nat, Log(p) = Log(q)
  PROVE  p = q
BY Geometry DEF Log
-------------------------------------------------------------------------------
(* The cache, as what its readers see and what is dirty.                   *)
LEMMA Room ==
  /\ CacheBlocks \in Nat /\ CacheBlocks > 0
  /\ IsFiniteSet(Blocks) /\ Cardinality(Blocks) \in Nat
BY CacheAssumption, FS_CardinalityType

LEMMA CacheIs ==
  ASSUME CacheOK
  PROVE  /\ Len(cache) \in Nat /\ DOMAIN cache = 1 .. Len(cache)
         /\ \A e \in DOMAIN cache : cache[e] \in Entries
         /\ Len(recent) \in Nat /\ DOMAIN recent = 1 .. Len(recent)
         /\ \A i \in DOMAIN recent : recent[i] \in Blocks
         /\ Len(cache) <= CacheBlocks
<1>1. cache \in Seq(Entries) /\ recent \in Seq(Blocks) /\ Len(cache) <= CacheBlocks
  BY DEF CacheOK
<1>2. Len(cache) \in Nat /\ DOMAIN cache = 1 .. Len(cache)
  BY <1>1
<1>3. \A e \in DOMAIN cache : cache[e] \in Entries
  BY <1>1
<1>4. Len(recent) \in Nat /\ DOMAIN recent = 1 .. Len(recent)
  BY <1>1
<1>5. \A i \in DOMAIN recent : recent[i] \in Blocks
  BY <1>1
<1> QED BY <1>1, <1>2, <1>3, <1>4, <1>5

LEMMA EntryOfIs ==
  ASSUME NEW b, Resident(b)
  PROVE  EntryOf(b) \in DOMAIN cache /\ cache[EntryOf(b)].tag = b
BY DEF Resident, EntryOf

LEMMA FullEvicts ==
  ASSUME CacheOK, Len(cache) = CacheBlocks,
         NEW b \in Blocks, ~Resident(b)
  PROVE  Evicts
<1> DEFINE S == 1 .. CacheBlocks
           B == Blocks \ {b}
           f == [e \in S |-> cache[e].tag]
<1>1. DOMAIN cache = S /\ \A e \in S : cache[e].tag \in Blocks
  BY CacheIs DEF Entries
<1>2. \A e \in S : cache[e].tag # b
  BY <1>1 DEF Resident
<1>3. f \in [S -> B]
  BY <1>1, <1>2
<1>4. \A d, e \in S : f[d] = f[e] => d = e
  BY <1>1 DEF CacheOK
<1>5. IsFiniteSet(B) /\ Cardinality(B) = Cardinality(Blocks) - 1
  BY Room, FS_RemoveElement
<1>6. IsFiniteSet(S) /\ Cardinality(S) = CacheBlocks
  BY Room, FS_Interval
<1>7. Cardinality(B) \in Nat /\ ~(Cardinality(B) < Cardinality(S))
  <2>1. Cardinality(B) \in Nat
    BY <1>5, FS_CardinalityType
  <2> HIDE DEF S, B, f
  <2> QED BY <2>1, <1>3, <1>4, <1>5, <1>6, FS_PigeonHole
<1> QED BY <1>5, <1>6, <1>7, Room DEF Evicts

LEMMA VictimIs ==
  ASSUME CacheOK, NEW b \in Blocks, ~Resident(b)
  PROVE  \/ /\ Len(cache) < CacheBlocks /\ Victim = Len(cache) + 1
            /\ Victim \notin DOMAIN cache
         \/ /\ Len(cache) = CacheBlocks /\ Evicts
            /\ Len(recent) = CacheBlocks
            /\ Victim \in DOMAIN cache /\ cache[Victim].tag = recent[1]
<1>1. CASE Len(cache) < CacheBlocks
  BY <1>1, CacheIs DEF Victim
<1>2. CASE ~(Len(cache) < CacheBlocks)
  <2>1. Len(cache) = CacheBlocks
    <3>1. Len(cache) \in Nat /\ Len(cache) <= CacheBlocks
      BY CacheIs
    <3> QED BY <1>2, <3>1, Room
  <2>2. Evicts /\ Listed
    BY <2>1, FullEvicts DEF RecentOK, CacheOK
  <2>3. Len(recent) = CacheBlocks /\ 1 \in DOMAIN recent
    BY <2>1, <2>2, CacheIs, Room DEF Listed
  <2>4. Head(recent) = recent[1]
    <3>1. recent \in Seq(Blocks) /\ Len(recent) > 0
      BY <2>3, Room DEF CacheOK
    <3>2. recent # <<>>
      BY <3>1
    <3> QED BY <3>1, <3>2
  <2>5. Victim = EntryOf(recent[1]) /\ Resident(recent[1])
    BY <1>2, <2>2, <2>3, <2>4 DEF Victim, Listed
  <2> QED BY <2>1, <2>2, <2>3, <2>5, EntryOfIs
<1> QED BY <1>1, <1>2

(* The slot the entry of an accessed block goes to.                        *)
Slot(b) == IF Resident(b) THEN EntryOf(b) ELSE Victim

LEMMA AccessSlot ==
  ASSUME CacheOK, NEW b \in Blocks,
         NEW entry \in Entries, Access(b, entry),
         NEW s, s = Slot(b)
  PROVE  /\ s \in 1 .. Len(cache) + 1 /\ s <= CacheBlocks
         /\ cache' \in Seq(Entries)
         /\ Len(cache') = (IF s \in DOMAIN cache THEN Len(cache) ELSE Len(cache) + 1)
         /\ cache'[s] = entry
         /\ \A e \in DOMAIN cache \ {s} : cache'[e] = cache[e]
<1>0. cache \in Seq(Entries)
  BY DEF CacheOK
<1>1. s \in 1 .. Len(cache) + 1 /\ s <= CacheBlocks
  <2>0. Len(cache) \in Nat /\ DOMAIN cache = 1 .. Len(cache) /\ Len(cache) <= CacheBlocks
    BY CacheIs
  <2>1. CASE Resident(b)
    <3>1. s \in DOMAIN cache
      BY <2>1, EntryOfIs DEF Slot
    <3> QED BY <2>0, <3>1, Room
  <2>2. CASE ~Resident(b)
    <3>1. s = Victim
      BY <2>2 DEF Slot
    <3> QED BY <2>0, <2>2, <3>1, VictimIs, Room
  <2> QED BY <2>1, <2>2
<1>2. cache' = IF s \in DOMAIN cache THEN [cache EXCEPT ![s] = entry] ELSE Append(cache, entry)
  <2>1. CASE Resident(b)
    BY <2>1, EntryOfIs DEF Slot, Access
  <2>2. CASE ~Resident(b)
    BY <2>2 DEF Slot, Access, InVictim
  <2> QED BY <2>1, <2>2
<1>3. CASE s \in DOMAIN cache
  <2>1. cache' = [cache EXCEPT ![s] = entry]
    BY <1>2, <1>3
  <2> QED BY <1>0, <1>1, <1>3, <2>1
<1>4. CASE s \notin DOMAIN cache
  <2>1. cache' = Append(cache, entry) /\ s = Len(cache) + 1
    BY <1>0, <1>1, <1>2, <1>4
  <2> QED BY <1>0, <1>1, <1>4, <2>1
<1> QED BY <1>3, <1>4

LEMMA AccessDisk ==
  ASSUME CacheOK, NEW b \in Blocks,
         NEW entry, Access(b, entry), NEW s, s = Slot(b)
  PROVE  disk' = IF ~Resident(b) /\ s \in DOMAIN cache /\ cache[s].dirty
                   THEN [disk EXCEPT ![cache[s].tag] = cache[s].val] ELSE disk
BY DEF Slot, Access, EvictedDisk, VictimDirty

(* After an access of b its entry is in one slot, the block's own, a free  *)
(* one or that of the block used longest ago, and the others are as they   *)
(* were.                                                                   *)
LEMMA AccessIs ==
  ASSUME CacheOK, NEW b \in Blocks, NEW entry \in Entries, entry.tag = b,
         Access(b, entry), NEW s, s = Slot(b)
  PROVE  /\ s \in DOMAIN cache' /\ cache'[s] = entry
         /\ DOMAIN cache \subseteq DOMAIN cache'
         /\ DOMAIN cache' \subseteq DOMAIN cache \cup {s}
         /\ \A e \in DOMAIN cache \ {s} : cache'[e] = cache[e] /\ cache[e].tag # b
         /\ Resident(b) => s \in DOMAIN cache /\ cache[s].tag = b
         /\ cache' \in Seq(Entries) /\ Len(cache') <= CacheBlocks
<1> DEFINE n == Len(cache)
           m == Len(cache')
<1>1. /\ s \in 1 .. n + 1 /\ s <= CacheBlocks
      /\ m = (IF s \in DOMAIN cache THEN n ELSE n + 1)
      /\ cache'[s] = entry /\ \A e \in DOMAIN cache \ {s} : cache'[e] = cache[e]
      /\ cache' \in Seq(Entries)
  BY AccessSlot
<1>2. n \in Nat /\ DOMAIN cache = 1 .. n /\ n <= CacheBlocks
  BY CacheIs
<1>3. DOMAIN cache' = 1 .. m
  BY <1>1
<1> HIDE DEF n, m
<1>4. DOMAIN cache' = (DOMAIN cache \ {s}) \cup {s}
  BY <1>1, <1>2, <1>3
<1>5. Resident(b) => s \in DOMAIN cache /\ cache[s].tag = b
  BY EntryOfIs DEF Slot
<1>6. ASSUME NEW e \in DOMAIN cache \ {s} PROVE cache[e].tag # b
  <2>1. CASE Resident(b)
    BY <2>1, <1>5, <1>6 DEF CacheOK
  <2>2. CASE ~Resident(b)
    BY <2>2, <1>6 DEF Resident
  <2> QED BY <2>1, <2>2
<1>7. m <= CacheBlocks
  BY <1>1, <1>2, Room
<1> QED BY <1>1, <1>4, <1>5, <1>6, <1>7 DEF m

LEMMA ResidentAfter ==
  ASSUME CacheOK, NEW b \in Blocks, NEW entry \in Entries, entry.tag = b,
         Access(b, entry), NEW s, s = Slot(b)
  PROVE  /\ \A d, e \in DOMAIN cache' : cache'[d].tag = cache'[e].tag => d = e
         /\ \A c : Resident(c)' <=> c = b \/ \E e \in DOMAIN cache \ {s} : cache[e].tag = c
<1>1. /\ s \in DOMAIN cache' /\ cache'[s] = entry
      /\ DOMAIN cache \subseteq DOMAIN cache' /\ DOMAIN cache' \subseteq DOMAIN cache \cup {s}
      /\ \A e \in DOMAIN cache \ {s} : cache'[e] = cache[e] /\ cache[e].tag # b
  BY AccessIs
<1>2. ASSUME NEW d \in DOMAIN cache', NEW e \in DOMAIN cache', cache'[d].tag = cache'[e].tag
      PROVE  d = e
  BY <1>1, <1>2 DEF CacheOK
<1>3. \A c : Resident(c)' <=> c = b \/ \E e \in DOMAIN cache \ {s} : cache[e].tag = c
  BY <1>1 DEF Resident
<1> QED BY <1>2, <1>3

(* w lists what recent lists, but t.                                       *)
Drops(w, t) ==
  /\ w \in Seq(Blocks) /\ Len(w) = Len(recent) - 1
  /\ \A i \in DOMAIN w : w[i] # t /\ \E j \in DOMAIN recent : w[i] = recent[j]
  /\ \A j \in DOMAIN recent : recent[j] # t => \E i \in DOMAIN w : w[i] = recent[j]
  /\ \A i, j \in DOMAIN w : w[i] = w[j] => i = j

LEMMA WithoutIs ==
  ASSUME CacheOK, Listed, NEW e \in DOMAIN cache
  PROVE  Drops(Without(cache[e].tag), cache[e].tag)
<1> DEFINE w == Without(cache[e].tag)
<1> DEFINE t == cache[e].tag
           at == CHOOSE i \in DOMAIN recent : recent[i] = t
           n == Len(recent)
<1>1. n \in Nat /\ DOMAIN recent = 1 .. n /\ \A i \in 1 .. n : recent[i] \in Blocks
  BY CacheIs
<1>2. at \in 1 .. n /\ recent[at] = t
  BY <1>1 DEF Listed
<1>3. w = [i \in 1 .. n - 1 |-> recent[IF i < at THEN i ELSE i + 1]]
  BY DEF Without
<1> HIDE DEF w
<1>4. \A i, j \in 1 .. n : recent[i] = recent[j] => i = j
  BY <1>1 DEF Listed
<1> HIDE DEF t, at, n
<1>5. n - 1 \in Nat
  BY <1>1, <1>2
<1>6. \A i \in 1 .. n - 1 : w[i] \in Blocks
  BY <1>1, <1>3
<1>7. w \in Seq(Blocks) /\ Len(w) = n - 1 /\ DOMAIN w = 1 .. n - 1
  BY <1>3, <1>5, <1>6
<1>8. \A i \in 1 .. n - 1 : w[i] # t /\ \E j \in 1 .. n : w[i] = recent[j]
  BY <1>1, <1>2, <1>3, <1>4
<1>9. ASSUME NEW j \in 1 .. n, recent[j] # t
      PROVE  \E i \in 1 .. n - 1 : w[i] = recent[j]
  <2>1. CASE j < at
    <3>1. j \in 1 .. n - 1 /\ w[j] = recent[j]
      BY <1>1, <1>2, <1>3, <2>1
    <3> QED BY <3>1
  <2>2. CASE j > at
    <3>1. j - 1 \in 1 .. n - 1 /\ w[j - 1] = recent[j]
      BY <1>1, <1>2, <1>3, <2>2
    <3> QED BY <3>1
  <2> QED BY <1>1, <1>2, <1>9, <2>1, <2>2
<1>10. \A i, j \in 1 .. n - 1 : w[i] = w[j] => i = j
  <2> DEFINE from(i) == IF i < at THEN i ELSE i + 1
  <2>1. \A i \in 1 .. n - 1 : from(i) \in 1 .. n /\ w[i] = recent[from(i)]
    BY <1>1, <1>2, <1>3
  <2>2. \A i, j \in 1 .. n - 1 : from(i) = from(j) => i = j
    BY <1>1, <1>2
  <2> HIDE DEF from
  <2> QED BY <1>4, <2>1, <2>2
<1>11. \A i \in DOMAIN w : w[i] # t /\ \E j \in DOMAIN recent : w[i] = recent[j]
  BY <1>1, <1>7, <1>8
<1>12. \A j \in DOMAIN recent : recent[j] # t => \E i \in DOMAIN w : w[i] = recent[j]
  BY <1>1, <1>7, <1>9
<1>13. \A i, j \in DOMAIN w : w[i] = w[j] => i = j
  BY <1>7, <1>10
<1>14. w \in Seq(Blocks) /\ Len(w) = Len(recent) - 1
  BY <1>7 DEF n
<1> QED BY <1>11, <1>12, <1>13, <1>14 DEF t, w, Drops

(* The order of use stays the list of what is cached.                      *)
LEMMA RecentAfter ==
  ASSUME CacheOK, NEW b \in Blocks,
         NEW entry \in Entries, entry.tag = b, Access(b, entry)
  PROVE  RecentOK' /\ recent' \in Seq(Blocks)
<1> DEFINE s == Slot(b)
           others == IF s \in DOMAIN cache THEN Without(cache[s].tag) ELSE recent
<1>1. CASE ~Evicts
  <2>1. Cardinality(Blocks) <= CacheBlocks
    BY <1>1, Room DEF Evicts
  <2>2. recent' = <<>>
    BY <2>1 DEF Access, UsedLast
  <2> QED BY <1>1, <2>2 DEF RecentOK, Evicts
<1>2. CASE Evicts
  <2>1. Listed
    BY <1>2 DEF RecentOK, CacheOK
  <2>2. recent' = Append(others, b)
    <3>1. ~(Cardinality(Blocks) <= CacheBlocks)
      BY <1>2, Room DEF Evicts
    <3>2. others = IF Resident(b) THEN Without(b)
                   ELSE IF Victim \in DOMAIN cache THEN Without(cache[Victim].tag) ELSE recent
      BY EntryOfIs DEF Slot
    <3> HIDE DEF others
    <3> QED BY <3>1, <3>2 DEF Access, UsedLast
  <2>3. /\ s \in 1 .. Len(cache) + 1
        /\ Len(cache') = (IF s \in DOMAIN cache THEN Len(cache) ELSE Len(cache) + 1)
        /\ cache'[s] = entry /\ \A e \in DOMAIN cache \ {s} : cache'[e] = cache[e]
        /\ cache' \in Seq(Entries)
    BY AccessSlot
  <2>4. /\ \A c : Resident(c)' <=> c = b \/ \E e \in DOMAIN cache \ {s} : cache[e].tag = c
        /\ \A e \in DOMAIN cache \ {s} : cache[e].tag # b
    BY AccessIs, ResidentAfter
  <2>5. /\ Len(cache) \in Nat /\ DOMAIN cache = 1 .. Len(cache)
        /\ recent \in Seq(Blocks) /\ Len(recent) = Len(cache)
    BY <2>1, CacheIs DEF CacheOK, Listed
  <2> HIDE DEF s
  <2>6. /\ others \in Seq(Blocks) /\ Len(others) = Len(cache') - 1
        /\ \A i \in DOMAIN others : \E e \in DOMAIN cache \ {s} : others[i] = cache[e].tag
        /\ \A e \in DOMAIN cache \ {s} : \E i \in DOMAIN others : others[i] = cache[e].tag
        /\ \A i, j \in DOMAIN others : others[i] = others[j] => i = j
    <3>1. CASE s \in DOMAIN cache
      <4>1. Drops(others, cache[s].tag)
        <5>1. others = Without(cache[s].tag)
          BY <3>1
        <5> QED BY <2>1, <3>1, <5>1, WithoutIs
      <4> HIDE DEF others
      <4>2. /\ others \in Seq(Blocks) /\ Len(others) = Len(recent) - 1
            /\ \A i \in DOMAIN others :
                 others[i] # cache[s].tag /\ \E j \in DOMAIN recent : others[i] = recent[j]
            /\ \A j \in DOMAIN recent :
                 recent[j] # cache[s].tag => \E i \in DOMAIN others : others[i] = recent[j]
            /\ \A i, j \in DOMAIN others : others[i] = others[j] => i = j
        BY <4>1 DEF Drops
      <4>3. ASSUME NEW i \in DOMAIN others
            PROVE  \E e \in DOMAIN cache \ {s} : others[i] = cache[e].tag
        <5>1. PICK j \in DOMAIN recent : others[i] = recent[j]
          BY <4>2
        <5>2. PICK e \in DOMAIN cache : cache[e].tag = recent[j]
          BY <2>1 DEF Listed, Resident
        <5> QED BY <4>2, <5>1, <5>2
      <4>4. ASSUME NEW e \in DOMAIN cache \ {s}
            PROVE  \E i \in DOMAIN others : others[i] = cache[e].tag
        <5>1. PICK j \in DOMAIN recent : recent[j] = cache[e].tag
          BY <2>1 DEF Listed
        <5>2. cache[e].tag # cache[s].tag
          BY <3>1 DEF CacheOK
        <5> QED BY <4>2, <5>1, <5>2
      <4>5. Len(others) = Len(cache') - 1
        BY <2>3, <2>5, <3>1, <4>2
      <4> QED BY <4>2, <4>3, <4>4, <4>5
    <3>2. CASE s \notin DOMAIN cache
      <4>1. others = recent
        BY <3>2
      <4> HIDE DEF others
      <4>2. Len(others) = Len(cache') - 1
        BY <2>3, <2>5, <3>2, <4>1
      <4>3. DOMAIN cache \ {s} = DOMAIN cache
        BY <3>2
      <4> QED BY <2>1, <2>5, <4>1, <4>2, <4>3 DEF Listed, Resident
    <3> QED BY <3>1, <3>2
  <2> HIDE DEF others
  <2> DEFINE n == Len(others)
  <2>7. /\ n \in Nat /\ DOMAIN others = 1 .. n
        /\ recent' \in Seq(Blocks) /\ Len(recent') = n + 1 /\ DOMAIN recent' = 1 .. n + 1
        /\ recent'[n + 1] = b /\ \A i \in 1 .. n : recent'[i] = others[i]
    BY <2>2, <2>6
  <2>8. Len(cache') = n + 1
    <3>1. Len(cache') \in Nat
      BY <2>3
    <3> QED BY <3>1, <2>6
  <2> HIDE DEF n
  <2>9. \A i \in 1 .. n : others[i] # b
    BY <2>4, <2>6, <2>7
  <2>10. ASSUME NEW i \in 1 .. n + 1
         PROVE  \E e \in DOMAIN cache' : cache'[e].tag = recent'[i]
    <3>1. \A c : c = b \/ (\E e \in DOMAIN cache \ {s} : cache[e].tag = c) =>
            \E e \in DOMAIN cache' : cache'[e].tag = c
      BY <2>4 DEF Resident
    <3>2. CASE i = n + 1
      BY <2>7, <3>1, <3>2
    <3>3. CASE i \in 1 .. n
      <4>1. PICK e \in DOMAIN cache \ {s} : others[i] = cache[e].tag
        BY <2>6, <2>7, <3>3
      <4>2. recent'[i] = cache[e].tag
        BY <2>7, <3>3, <4>1
      <4> QED BY <3>1, <4>1, <4>2
    <3> QED BY <2>7, <3>2, <3>3
  <2>11. ASSUME NEW e \in DOMAIN cache' PROVE \E i \in 1 .. n + 1 : recent'[i] = cache'[e].tag
    <3>1. CASE e = s
      BY <2>3, <2>7, <3>1
    <3>2. CASE e # s
      <4>1. DOMAIN cache' = 1 .. Len(cache')
        BY <2>3
      <4>2. e \in DOMAIN cache \ {s}
        BY <2>3, <2>5, <3>2, <4>1
      <4> QED BY <2>3, <2>6, <2>7, <4>2
    <3> QED BY <3>1, <3>2
  <2>12. ASSUME NEW i \in 1 .. n + 1, NEW j \in 1 .. n + 1, recent'[i] = recent'[j]
         PROVE  i = j
    <3>1. CASE i \in 1 .. n /\ j \in 1 .. n
      BY <2>6, <2>7, <2>12, <3>1
    <3>2. CASE i = n + 1 \/ j = n + 1
      BY <2>7, <2>9, <2>12, <3>2
    <3> QED BY <2>7, <3>1, <3>2
  <2>13. Listed'
    BY <2>7, <2>8, <2>10, <2>11, <2>12 DEF Listed, Resident
  <2> QED BY <1>2, <2>7, <2>13 DEF RecentOK, Evicts
<1> QED BY <1>1, <1>2

LEMMA CacheAfter ==
  ASSUME CacheOK, NEW b \in Blocks, NEW entry \in Entries, entry.tag = b, Access(b, entry)
  PROVE  CacheOK'
<1>1. cache' \in Seq(Entries) /\ Len(cache') <= CacheBlocks
  BY AccessIs
<1>2. \A d, e \in DOMAIN cache' : cache'[d].tag = cache'[e].tag => d = e
  BY ResidentAfter
<1>3. RecentOK' /\ recent' \in Seq(Blocks)
  BY RecentAfter
<1> QED BY <1>1, <1>2, <1>3 DEF CacheOK

(* A change of the entries that is none of their tags.                     *)
LEMMA OrderStays ==
  ASSUME CacheOK, recent' = recent, cache' \in Seq(Entries), DOMAIN cache' = DOMAIN cache,
         \A e \in DOMAIN cache : cache'[e].tag = cache[e].tag
  PROVE  CacheOK'
<1>1. Len(cache') = Len(cache)
  <2>1. DOMAIN cache = 1 .. Len(cache) /\ Len(cache) \in Nat
    BY CacheIs
  <2> QED BY <2>1
<1>2. \A c : Resident(c)' <=> Resident(c)
  BY DEF Resident
<1>3. RecentOK => RecentOK'
  <2>1. Evicts' = Evicts
    BY DEF Evicts
  <2>2. Listed => Listed'
    BY <1>1, <1>2 DEF Listed
  <2> QED BY <2>1, <2>2 DEF RecentOK
<1> QED BY <1>1, <1>3 DEF CacheOK

(* What a reader gets of a block from a cache and a device.                *)
ViewIn(entries, device, b) ==
  IF \E e \in DOMAIN entries : entries[e].tag = b
    THEN entries[CHOOSE e \in DOMAIN entries : entries[e].tag = b].val
    ELSE device[b]

LEMMA ViewCached ==
  ASSUME NEW entries, NEW device, NEW e \in DOMAIN entries, NEW b, entries[e].tag = b,
         \A c, d \in DOMAIN entries : entries[c].tag = entries[d].tag => c = d
  PROVE  ViewIn(entries, device, b) = entries[e].val
<1> DEFINE f == CHOOSE d \in DOMAIN entries : entries[d].tag = b
<1>1. f \in DOMAIN entries /\ entries[f].tag = b
  OBVIOUS
<1>2. f = e
  BY <1>1
<1> QED BY <1>2 DEF ViewIn

LEMMA ViewStored ==
  ASSUME NEW entries, NEW device, NEW b, \A e \in DOMAIN entries : entries[e].tag # b
  PROVE  ViewIn(entries, device, b) = device[b]
BY DEF ViewIn

LEMMA SeenIs ==
  /\ Seen = [b \in Blocks |-> ViewIn(cache, disk, b)]
  /\ Seen' = [b \in Blocks |-> ViewIn(cache', disk', b)]
BY DEF Seen, View, Resident, EntryOf, ViewIn

LEMMA DirtyIs ==
  /\ \A b : b \in Dirty <=> \E e \in DOMAIN cache : cache[e].dirty /\ cache[e].tag = b
  /\ \A b : b \in Dirty' <=> \E e \in DOMAIN cache' : cache'[e].dirty /\ cache'[e].tag = b
  /\ AllClean <=> Dirty = {}
  /\ AllClean' <=> Dirty' = {}
BY DEF Dirty, DirtyEntries, AllClean

(* Of a cached block: what is seen of it and whether it is dirty.          *)
LEMMA SeenEntry ==
  ASSUME CacheOK, NEW e \in DOMAIN cache
  PROVE  /\ Seen[cache[e].tag] = cache[e].val
         /\ cache[e].tag \in Dirty <=> cache[e].dirty
<1>1. cache[e].tag \in Blocks
  BY CacheIs DEF Entries
<1>2. \A c, d \in DOMAIN cache : cache[c].tag = cache[d].tag => c = d
  BY DEF CacheOK
<1>3. ViewIn(cache, disk, cache[e].tag) = cache[e].val
  BY <1>2, ViewCached
<1>4. Seen[cache[e].tag] = cache[e].val
  BY <1>1, <1>3, SeenIs
<1>5. cache[e].tag \in Dirty => cache[e].dirty
  BY <1>2, DirtyIs
<1>6. cache[e].dirty => cache[e].tag \in Dirty
  BY DirtyIs
<1> QED BY <1>4, <1>5, <1>6

(* An access of b at which the blocks of out, none or one that was dirty,  *)
(* go home to make room.  Of another block a reader gets what he got, or,  *)
(* if it was clean and was pushed out, what the device holds.              *)
Stored(out) == [c \in Blocks |-> IF c \in out THEN Seen[c] ELSE disk[c]]

CacheStep(b, out) ==
  /\ CacheOK' /\ out \subseteq Dirty \ {b}
  /\ disk' = Stored(out)
  /\ \A c \in Blocks \ {b} : Seen'[c] = Seen[c] \/ (c \notin Dirty /\ Seen'[c] = disk[c])
  /\ \A c : c # b => (c \in Dirty' <=> c \in Dirty \ out)

LEMMA AccessShows ==
  ASSUME CacheOK, disk \in [Blocks -> Contents], NEW b \in Blocks,
         NEW entry \in Entries, entry.tag = b, Access(b, entry)
  PROVE  /\ \E out : CacheStep(b, out)
         /\ Seen'[b] = entry.val
         /\ b \in Dirty' <=> entry.dirty
<1> DEFINE s == Slot(b)
           gone == s \in DOMAIN cache /\ cache[s].tag # b
           out == IF gone /\ cache[s].dirty THEN {cache[s].tag} ELSE {}
<1>1. CacheOK'
  BY CacheAfter
<1>2. /\ s \in DOMAIN cache' /\ cache'[s] = entry
      /\ DOMAIN cache \subseteq DOMAIN cache' /\ DOMAIN cache' \subseteq DOMAIN cache \cup {s}
      /\ \A e \in DOMAIN cache \ {s} : cache'[e] = cache[e] /\ cache[e].tag # b
      /\ Resident(b) => s \in DOMAIN cache /\ cache[s].tag = b
  BY AccessIs
<1>3. disk' = IF ~Resident(b) /\ s \in DOMAIN cache /\ cache[s].dirty
                THEN [disk EXCEPT ![cache[s].tag] = cache[s].val] ELSE disk
  BY AccessDisk
<1> HIDE DEF s
<1>4. gone <=> ~Resident(b) /\ s \in DOMAIN cache
  BY <1>2 DEF Resident
<1>5. s \in DOMAIN cache =>
        /\ cache[s].tag \in Blocks /\ Seen[cache[s].tag] = cache[s].val
        /\ cache[s].tag \in Dirty <=> cache[s].dirty
  BY SeenEntry, CacheIs DEF Entries
<1>6. disk' = Stored(out)
  <2>1. CASE gone /\ cache[s].dirty
    <3>1. disk' = [disk EXCEPT ![cache[s].tag] = Seen[cache[s].tag]] /\ out = {cache[s].tag}
      BY <1>3, <1>4, <1>5, <2>1
    <3> HIDE DEF out
    <3> QED BY <3>1 DEF Stored
  <2>2. CASE ~(gone /\ cache[s].dirty)
    <3>1. disk' = disk /\ out = {}
      BY <1>3, <1>4, <2>2
    <3> HIDE DEF out
    <3> QED BY <3>1 DEF Stored
  <2> QED BY <2>1, <2>2
<1>7. out \subseteq Dirty \ {b}
  BY <1>5
<1>8. \A c, d \in DOMAIN cache : cache[c].tag = cache[d].tag => c = d
  BY DEF CacheOK
<1>9. \A c, d \in DOMAIN cache' : cache'[c].tag = cache'[d].tag => c = d
  BY <1>1 DEF CacheOK
<1>10. ASSUME NEW e \in DOMAIN cache
       PROVE  ViewIn(cache, disk, cache[e].tag) = cache[e].val
  BY <1>8, ViewCached, ZenonT(40)
<1>11. ViewIn(cache', disk', b) = entry.val
  BY <1>2, <1>9, ViewCached
<1>12. \A c \in Blocks : (\E e \in DOMAIN cache \ {s} : cache[e].tag = c) \/ ~Resident(c)
                           \/ (s \in DOMAIN cache /\ cache[s].tag = c)
  BY DEF Resident
<1>13. ASSUME NEW c \in Blocks \ {b}
       PROVE  Seen'[c] = Seen[c] \/ (c \notin Dirty /\ Seen'[c] = disk[c])
  <2>1. Seen[c] = ViewIn(cache, disk, c) /\ Seen'[c] = ViewIn(cache', disk', c)
    BY SeenIs
  <2>2. CASE \E e \in DOMAIN cache \ {s} : cache[e].tag = c
    <3>1. PICK e \in DOMAIN cache \ {s} : cache[e].tag = c
      BY <2>2
    <3>2. ViewIn(cache, disk, c) = cache[e].val
      BY <1>10, <3>1
    <3>3. cache'[e] = cache[e] /\ e \in DOMAIN cache'
      BY <1>2, <3>1
    <3>4. ViewIn(cache', disk', c) = cache'[e].val
      BY <1>9, <3>1, <3>3, ViewCached
    <3> QED BY <2>1, <3>2, <3>3, <3>4
  <2>3. CASE \A e \in DOMAIN cache \ {s} : cache[e].tag # c
    <3>1. \A e \in DOMAIN cache' : cache'[e].tag # c
      BY <1>2, <1>13, <2>3
    <3>2. Seen'[c] = disk'[c]
      BY <2>1, <3>1, ViewStored
    <3>3. CASE s \in DOMAIN cache /\ cache[s].tag = c
      <4>1. gone
        BY <3>3, <1>13
      <4>2. disk'[c] = IF cache[s].dirty THEN Seen[c] ELSE disk[c]
        BY <1>6, <3>3, <4>1 DEF Stored
      <4> QED BY <1>5, <3>2, <3>3, <4>2
    <3>4. CASE ~(s \in DOMAIN cache /\ cache[s].tag = c)
      <4>1. ~Resident(c) /\ c \notin Dirty /\ c \notin out
        BY <2>3, <3>4, <1>5, <1>7, DirtyIs DEF Resident
      <4>2. Seen[c] = disk[c]
        BY <2>1, <4>1, ViewStored DEF Resident
      <4>3. disk'[c] = disk[c]
        BY <1>6, <4>1 DEF Stored
      <4> QED BY <3>2, <4>2, <4>3
    <3> QED BY <3>3, <3>4
  <2> QED BY <2>2, <2>3
<1>14. Seen'[b] = entry.val
  BY <1>11, SeenIs
<1>15. b \in Dirty' <=> entry.dirty
  BY <1>2, <1>9, DirtyIs
<1>16. ASSUME NEW c, c # b PROVE c \in Dirty' <=> c \in Dirty \ out
  <2>1. ASSUME c \in Dirty \ out PROVE c \in Dirty'
    <3>1. PICK e \in DOMAIN cache : cache[e].dirty /\ cache[e].tag = c
      BY <2>1, DirtyIs
    <3>2. e # s
      BY <1>16, <2>1, <3>1
    <3>3. cache'[e] = cache[e] /\ e \in DOMAIN cache'
      BY <1>2, <3>2
    <3> QED BY <3>1, <3>3, DirtyIs
  <2>2. ASSUME c \in Dirty' PROVE c \in Dirty \ out
    <3>1. PICK e \in DOMAIN cache' : cache'[e].dirty /\ cache'[e].tag = c
      BY <2>2, DirtyIs
    <3>2. e # s /\ cache'[e] = cache[e] /\ e \in DOMAIN cache
      BY <1>2, <1>16, <3>1
    <3>3. c \in Dirty
      BY <3>1, <3>2, DirtyIs
    <3>4. c \notin out
      BY <1>8, <3>1, <3>2
    <3> QED BY <3>3, <3>4
  <2> QED BY <2>1, <2>2
<1> HIDE DEF out
<1>17. CacheStep(b, out)
  BY <1>1, <1>6, <1>7, <1>13, <1>16 DEF CacheStep
<1> QED BY <1>14, <1>15, <1>17

(* Block_Cache.Read leaves its block as it is, Write sets it.              *)
LEMMA ReadShows ==
  ASSUME CacheOK, DiskTyped, NEW b \in Blocks, Read(b)
  PROVE  /\ \E out : CacheStep(b, out)
         /\ Seen'[b] = Seen[b] /\ (b \in Dirty' <=> b \in Dirty)
<1> DEFINE dirty == Resident(b) /\ cache[EntryOf(b)].dirty
           entry == Entry(b, dirty, View(b))
<1>1. Access(b, entry)
  BY DEF Read
<1>2. dirty \in BOOLEAN /\ (b \in Dirty <=> dirty)
  <2>1. CASE Resident(b)
    <3>1. EntryOf(b) \in DOMAIN cache /\ cache[EntryOf(b)].tag = b
      BY <2>1, EntryOfIs
    <3>2. cache[EntryOf(b)].dirty \in BOOLEAN
      BY <3>1, CacheIs DEF Entries
    <3> QED BY <2>1, <3>1, <3>2, SeenEntry
  <2>2. CASE ~Resident(b)
    BY <2>2, DirtyIs DEF Resident
  <2> QED BY <2>1, <2>2
<1>3. View(b) \in Contents /\ View(b) = Seen[b]
  <2>1. CASE Resident(b)
    BY <2>1, EntryOfIs, CacheIs DEF View, Entries, Seen
  <2>2. CASE ~Resident(b)
    BY <2>2 DEF View, DiskTyped, Seen
  <2> QED BY <2>1, <2>2
<1>4. entry \in Entries /\ entry.tag = b /\ (entry.dirty <=> dirty) /\ entry.val = Seen[b]
  <2> HIDE DEF dirty
  <2> QED BY <1>2, <1>3 DEF Entry, Entries
<1> HIDE DEF entry, dirty
<1>5. /\ \E out : CacheStep(b, out)
      /\ Seen'[b] = entry.val /\ (b \in Dirty' <=> entry.dirty)
  BY <1>1, <1>4, AccessShows DEF DiskTyped
<1> QED BY <1>2, <1>4, <1>5

LEMMA WriteShows ==
  ASSUME CacheOK, DiskTyped, NEW b \in Blocks, NEW v \in Contents, Write(b, v)
  PROVE  /\ \E out : CacheStep(b, out)
         /\ Seen'[b] = v /\ b \in Dirty'
<1> DEFINE entry == Entry(b, TRUE, v)
<1>1. Access(b, entry)
  BY DEF Write
<1>2. entry \in Entries /\ entry.tag = b /\ entry.dirty /\ entry.val = v
  BY DEF Entry, Entries
<1> HIDE DEF entry
<1>3. /\ \E out : CacheStep(b, out)
      /\ Seen'[b] = entry.val /\ (b \in Dirty' <=> entry.dirty)
  BY <1>1, <1>2, AccessShows DEF DiskTyped
<1> QED BY <1>2, <1>3

(* One block of Flush goes home and is clean.                              *)
LEMMA FlushShows ==
  ASSUME CacheOK, disk \in [Blocks -> Contents], FlushStep
  PROVE  /\ CacheOK' /\ Seen' = Seen
         /\ cache[FirstDirty].tag \in Dirty
         /\ cache[FirstDirty].val = Seen[cache[FirstDirty].tag]
         /\ disk' = [disk EXCEPT ![cache[FirstDirty].tag] = Seen[cache[FirstDirty].tag]]
         /\ Dirty' = Dirty \ {cache[FirstDirty].tag}
<1>1. FirstDirty \in DirtyEntries
  <2>1. DirtyEntries # {} /\ DirtyEntries \subseteq Nat
    BY CacheIs DEF FlushStep, AllClean, DirtyEntries
  <2>2. \E f \in DirtyEntries : \A d \in DirtyEntries : f <= d
    BY <2>1, LeastOne
  <2> QED BY <2>2 DEF FirstDirty
<1>2. PICK s : s = FirstDirty
  OBVIOUS
<1>3. s \in DOMAIN cache /\ cache[s].dirty
  BY <1>1, <1>2 DEF DirtyEntries
<1>4. cache' = [cache EXCEPT ![s].dirty = FALSE] /\ recent' = recent
  BY <1>2 DEF FlushStep
<1>5. cache \in Seq(Entries)
  BY DEF CacheOK
<1>6. cache[s] \in Entries /\ [cache[s] EXCEPT !.dirty = FALSE] \in Entries
  BY <1>3, CacheIs DEF Entries
<1>7. cache' \in Seq(Entries) /\ DOMAIN cache' = DOMAIN cache
  BY <1>3, <1>4, <1>5, <1>6
<1>8. /\ \A e \in DOMAIN cache : e # s => cache'[e] = cache[e]
      /\ cache'[s] = [cache[s] EXCEPT !.dirty = FALSE]
  BY <1>3, <1>4, <1>5
<1>9. cache'[s].tag = cache[s].tag /\ cache'[s].val = cache[s].val /\ ~cache'[s].dirty
  BY <1>6, <1>8 DEF Entries
<1>10. \A e \in DOMAIN cache : cache'[e].tag = cache[e].tag /\ cache'[e].val = cache[e].val
  BY <1>8, <1>9
<1>11. \A c, d \in DOMAIN cache : cache[c].tag = cache[d].tag => c = d
  BY DEF CacheOK
<1>12. \A c, d \in DOMAIN cache' : cache'[c].tag = cache'[d].tag => c = d
  BY <1>7, <1>10, <1>11
<1>13. CacheOK'
  BY <1>4, <1>7, <1>10, OrderStays
<1>14. cache[s].tag \in Dirty /\ cache[s].val = Seen[cache[s].tag] /\ cache[s].tag \in Blocks
  BY <1>3, <1>6, SeenEntry DEF Entries
<1>15. disk' = [disk EXCEPT ![cache[s].tag] = Seen[cache[s].tag]]
  BY <1>2, <1>14 DEF FlushStep
<1>16. Dirty' = Dirty \ {cache[s].tag}
  <2>1. ASSUME NEW c \in Dirty' PROVE c \in Dirty \ {cache[s].tag}
    <3>1. PICK e \in DOMAIN cache' : cache'[e].dirty /\ cache'[e].tag = c
      BY DirtyIs
    <3>2. e # s /\ cache'[e] = cache[e] /\ e \in DOMAIN cache
      BY <1>7, <1>8, <1>9, <3>1
    <3>3. c # cache[s].tag
      BY <1>3, <1>11, <3>1, <3>2
    <3> QED BY <3>1, <3>2, <3>3, DirtyIs
  <2>2. ASSUME NEW c \in Dirty \ {cache[s].tag} PROVE c \in Dirty'
    <3>1. PICK e \in DOMAIN cache : cache[e].dirty /\ cache[e].tag = c
      BY DirtyIs
    <3>2. e # s /\ cache'[e] = cache[e] /\ e \in DOMAIN cache'
      BY <1>7, <1>8, <2>2, <3>1
    <3> QED BY <3>1, <3>2, DirtyIs
  <2> QED BY <2>1, <2>2
<1>17. Seen' = Seen
  <2>1. ASSUME NEW c \in Blocks PROVE ViewIn(cache', disk', c) = ViewIn(cache, disk, c)
    <3>1. CASE \E e \in DOMAIN cache : cache[e].tag = c
      <4>1. PICK e \in DOMAIN cache : cache[e].tag = c
        BY <3>1
      <4>2. ViewIn(cache, disk, c) = cache[e].val
        BY <1>11, <4>1, ViewCached
      <4>3. e \in DOMAIN cache' /\ cache'[e].tag = c /\ cache'[e].val = cache[e].val
        BY <1>7, <1>10, <4>1
      <4>4. ViewIn(cache', disk', c) = cache'[e].val
        BY <1>12, <4>3, ViewCached
      <4> QED BY <4>2, <4>3, <4>4
    <3>2. CASE \A e \in DOMAIN cache : cache[e].tag # c
      <4>1. \A e \in DOMAIN cache' : cache'[e].tag # c
        BY <1>7, <1>10, <3>2
      <4>2. disk'[c] = disk[c]
        BY <1>3, <1>15, <3>2
      <4> QED BY <3>2, <4>1, <4>2, ViewStored
    <3> QED BY <3>1, <3>2
  <2> QED BY <2>1, SeenIs
<1> QED BY <1>2, <1>13, <1>14, <1>15, <1>16, <1>17

(* A write past the cache is seen at most at its own block.                *)
LEMMA PutShows ==
  ASSUME CacheOK, cache' = cache, recent' = recent,
         NEW b \in Blocks, \A c \in Blocks \ {b} : disk'[c] = disk[c]
  PROVE  /\ CacheOK' /\ Dirty' = Dirty
         /\ \A c \in Blocks \ {b} : Seen'[c] = Seen[c]
         /\ Seen'[b] \in {Seen[b], disk'[b]}
<1>1. CacheOK'
  BY OrderStays DEF CacheOK
<1>2. Dirty' = Dirty
  BY DEF Dirty, DirtyEntries
<1>3. \A c \in Blocks \ {b} : ViewIn(cache', disk', c) = ViewIn(cache, disk, c)
  BY DEF ViewIn
<1>4. ViewIn(cache', disk', b) \in {ViewIn(cache, disk, b), disk'[b]}
  BY DEF ViewIn
<1> QED BY <1>1, <1>2, <1>3, <1>4, SeenIs

(* An empty cache shows the device.                                        *)
LEMMA DropShows ==
  ASSUME Drop, disk' \in [Blocks -> Contents]
  PROVE  CacheOK' /\ Seen' = disk' /\ Dirty' = {}
<1>1. cache' = <<>> /\ recent' = <<>>
  BY DEF Drop, CacheEmpty
<1>2. CacheOK'
  BY <1>1, Room DEF CacheOK, RecentOK, Listed
<1>3. Dirty' = {}
  BY <1>1 DEF Dirty, DirtyEntries
<1>4. \A c \in Blocks : ViewIn(cache', disk', c) = disk'[c]
  BY <1>1, ViewStored
<1>5. Seen' = disk'
  BY <1>4, SeenIs
<1> QED BY <1>2, <1>3, <1>5

LEMMA EmptyShows ==
  ASSUME cache = <<>>, recent = <<>>, disk \in [Blocks -> Contents]
  PROVE  CacheOK /\ Seen = disk /\ Dirty = {}
<1>1. CacheOK
  BY Room DEF CacheOK, RecentOK, Listed
<1>2. Dirty = {}
  BY DEF Dirty, DirtyEntries
<1>3. \A c \in Blocks : ViewIn(cache, disk, c) = disk[c]
  BY ViewStored
<1>4. Seen = disk
  BY <1>3, SeenIs
<1> QED BY <1>1, <1>2, <1>4

LEMMA CacheStays ==
  ASSUME UNCHANGED cachevars
  PROVE  /\ CacheOK => CacheOK'
         /\ disk' = disk /\ Seen' = Seen /\ Dirty' = Dirty
<1>1. cache' = cache /\ recent' = recent /\ disk' = disk
  BY DEF cachevars
<1>2. CacheOK => CacheOK'
  BY <1>1, OrderStays DEF CacheOK
<1>3. Dirty' = Dirty
  BY <1>1 DEF Dirty, DirtyEntries
<1>4. Seen' = Seen
  BY <1>1, SeenIs
<1> QED BY <1>1, <1>2, <1>3, <1>4
-------------------------------------------------------------------------------
(* Replay's plan.                                                          *)
Lists(s, a) == \E i \in DOMAIN s : s[i] = a

LEMMA ListsJoined ==
  ASSUME NEW S, NEW s \in Seq(S), NEW t \in Seq(S), NEW a, Lists(s, a) \/ Lists(t, a)
  PROVE  Lists(s \o t, a)
<1>1. CASE Lists(s, a)
  <2>1. PICK i \in DOMAIN s : s[i] = a
    BY <1>1 DEF Lists
  <2>2. i \in DOMAIN (s \o t) /\ (s \o t)[i] = a
    BY <2>1
  <2> QED BY <2>2 DEF Lists
<1>2. CASE Lists(t, a)
  <2>1. PICK i \in DOMAIN t : t[i] = a
    BY <1>2 DEF Lists
  <2>2. Len(s) + i \in DOMAIN (s \o t) /\ (s \o t)[Len(s) + i] = a
    BY <2>1
  <2> QED BY <2>2 DEF Lists
<1> QED BY <1>1, <1>2

LEMMA Joined ==
  ASSUME NEW S, NEW s \in Seq(S), NEW t \in Seq(S)
  PROVE  /\ s \o t \in Seq(S) /\ Len(s \o t) = Len(s) + Len(t) /\ Len(s) \in Nat
         /\ DOMAIN (s \o t) = 1 .. Len(s) + Len(t)
         /\ \A i \in 1 .. Len(s) : (s \o t)[i] = s[i]
OBVIOUS

LEMMA FlattenOne ==
  ASSUME NEW a
  PROVE  FlattenSeq([j \in 1 .. 1 |-> a]) = a
<1> DEFINE q == [j \in 1 .. 1 |-> a]
           Eq(f) == f = [i \in 1 .. Len(q) |-> IF i = 1 THEN q[i] ELSE f[i - 1] \o q[i]]
           s == CHOOSE f : Eq(f)
<1>1. Len(q) = 1 /\ q[1] = a
  OBVIOUS
<1> HIDE DEF q
<1>2. Eq([i \in 1 .. 1 |-> a])
  BY <1>1
<1>3. Eq(s)
  <2> HIDE DEF Eq
  <2> QED BY <1>2
<1>4. FlattenSeq(q) = s[Len(q)]
  BY <1>1 DEF FlattenSeq
<1>5. s[1] = a
  <2> HIDE DEF s
  <2> QED BY <1>1, <1>3
<1> QED BY <1>1, <1>4, <1>5 DEF q

LEMMA FlattenTwo ==
  ASSUME NEW q, DOMAIN q = 1 .. 2, Len(q) = 2
  PROVE  FlattenSeq(q) = q[1] \o q[2]
<1> DEFINE Eq(f) == f = [i \in 1 .. Len(q) |-> IF i = 1 THEN q[i] ELSE f[i - 1] \o q[i]]
           s == CHOOSE f : Eq(f)
<1>1. \E f : Eq(f)
  <2> DEFINE g == [i \in 1 .. 2 |-> IF i = 1 THEN q[1] ELSE q[1] \o q[2]]
  <2>1. Eq(g)
    OBVIOUS
  <2> HIDE DEF g, Eq
  <2> QED BY <2>1
<1>2. Eq(s)
  <2> HIDE DEF Eq
  <2> QED BY <1>1
<1>3. FlattenSeq(q) = s[Len(q)]
  BY DEF FlattenSeq
<1> HIDE DEF s
<1>4. s[1] = q[1] /\ s[2] = s[1] \o q[2]
  BY <1>2
<1> QED BY <1>3, <1>4

LEMMA DiskIs ==
  ASSUME DiskTyped
  PROVE  /\ disk[Jsb] \in Headers /\ disk[SB] \in SuperBlocks
         /\ \A b \in FsBlocks : disk[b] \in FsContents
         /\ LogLen \in LogLens /\ LogLen \in Nat \ {0}
         /\ Seqno \in 1 .. MaxSeq /\ Starts \in BOOLEAN
<1>1. disk[Jsb] \in Headers /\ disk[SB] \in SuperBlocks
  BY Geometry DEF DiskTyped, KindOf
<1>2. \A b \in FsBlocks : disk[b] \in FsContents
  BY Geometry DEF DiskTyped, KindOf
<1>3. LogLen \in LogLens /\ Seqno \in 1 .. MaxSeq /\ Starts \in BOOLEAN
  BY <1>1 DEF Headers, LogLen, Seqno, Starts
<1> QED BY <1>1, <1>2, <1>3, Geometry

(* The first transaction of the log begins it; the second comes after it.  *)
LEMMA TxnStarts ==
  ASSUME LogLen \in Nat \ {0}
  PROVE  TxnStart[0] = 0 /\ TxnStart[1] = Wrap(EndOf(0) + 1)
<1> DEFINE Eq(m, g) ==
             g = [n \in 0 .. m |-> IF n = 0 THEN 0
                                   ELSE LET p == g[n - 1] IN Wrap(EndOf(p) + 1)]
           T == {m \in 0 .. LogLen : \E g : Eq(m, g)}
<1>1. 0 \in T
  <2>1. Eq(0, [n \in 0 .. 0 |-> 0])
    OBVIOUS
  <2> HIDE DEF Eq
  <2> QED BY <2>1
<1>2. ASSUME NEW m \in 0 .. LogLen - 1, m \in T PROVE m + 1 \in T
  <2>1. PICK g : Eq(m, g)
    BY <1>2
  <2> DEFINE h == [n \in 0 .. m + 1 |-> IF n = m + 1 THEN Wrap(EndOf(g[m]) + 1) ELSE g[n]]
  <2>2. Eq(m + 1, h)
    BY <2>1
  <2> HIDE DEF Eq, h
  <2> QED BY <2>2
<1>3. LogLen \in T
  <2> HIDE DEF T
  <2>1. 0 .. LogLen \subseteq T
    BY <1>1, <1>2, UpTo
  <2> QED BY <2>1
<1> DEFINE s == CHOOSE g : Eq(LogLen, g)
<1>4. Eq(LogLen, s)
  <2> HIDE DEF Eq
  <2> QED BY <1>3
<1>5. TxnStart = s
  BY Zenon DEF TxnStart
<1> HIDE DEF s
<1>6. s[0] = 0
  BY <1>4
<1>7. s[1] = Wrap(EndOf(s[0]) + 1)
  BY <1>4
<1> QED BY <1>5, <1>6, <1>7

(* A whole log as Replay reads it.                                         *)
LEMMA WholeLog ==
  ASSUME DiskTyped, SeqsPast, LogWhole
  PROVE  /\ Len(Tags) \in Nat /\ Tags \in Seq(Homes) /\ Len(Tags) + 2 <= LogLen
         /\ TagsAt(0) = Tags /\ EndOf(0) = Len(Tags) + 1
         /\ CommittedTxn(0) /\ ~CommittedTxn(1)
         /\ TxnStart[0] = 0 /\ TxnStart[1] \in 0 .. LogLen - 1
         /\ EndOf(0) \in 0 .. LogLen - 1
         /\ ~HeaderAt(TxnStart[1], "desc", Seqno + 1)
<1>1. /\ Tags \in Seq(Homes) /\ Len(Tags) + 2 <= LogLen
      /\ disk[Log(0)] = Descriptor(Seqno, Tags)
      /\ disk[Log(Len(Tags) + 1)] = CommitBlock(Seqno)
  BY DEF LogWhole, LogIs
<1>2. LogLen \in Nat \ {0} /\ LogLen \in LogLens /\ Seqno \in Nat
  BY DiskIs, Geometry
<1>3. Len(Tags) \in Nat
  BY <1>1
<1>4. TagsAt(0) = Tags
  BY DEF TagsAt, Tags
<1>5. EndOf(0) = Len(Tags) + 1
  <2> HIDE DEF Tags
  <2>1. EndOf(0) = Wrap(0 + 1 + Len(Tags))
    BY <1>4 DEF EndOf
  <2> QED BY <2>1, <1>1, <1>2, <1>3 DEF Wrap
<1>6. TxnStart[0] = 0 /\ TxnStart[1] = Wrap(EndOf(0) + 1)
  BY <1>2, TxnStarts
<1>7. TxnStart[1] \in 0 .. LogLen - 1
  <2> HIDE DEF Tags
  <2>1. EndOf(0) + 1 \in Nat /\ EndOf(0) + 1 <= LogLen
    BY <1>1, <1>2, <1>3, <1>5
  <2> QED BY <2>1, <1>2, <1>6 DEF Wrap
<1>8. CommittedTxn(0)
  <2>1. HeaderAt(0, "desc", Seqno)
    BY <1>1 DEF HeaderAt, Descriptor
  <2>2. HeaderAt(EndOf(0), "commit", Seqno)
    BY <1>1, <1>5 DEF HeaderAt, CommitBlock
  <2>3. CommittedAt(TxnStart[0], Seqno)
    BY <2>1, <2>2, <1>6 DEF CommittedAt
  <2>4. Seqno + 0 = Seqno
    BY <1>2
  <2> QED BY <2>3, <2>4 DEF CommittedTxn, Seqno
<1>9. ~HeaderAt(TxnStart[1], "desc", Seqno + 1)
  <2> DEFINE p == TxnStart[1]
  <2>1. Log(p) \in LogBlocks
    BY <1>2, <1>7, LogAt
  <2>2. disk[Log(p)].type = "desc" => disk[Log(p)].seq <= Seqno
    BY <2>1 DEF SeqsPast
  <2>3. HeaderAt(p, "desc", Seqno + 1) =>
          disk[Log(p)].type = "desc" /\ disk[Log(p)].seq = Seqno + 1
    BY DEF HeaderAt
  <2>4. ~HeaderAt(p, "desc", Seqno + 1)
    <3> HIDE DEF p
    <3> QED BY <2>2, <2>3, <1>2
  <2> QED BY <2>4
<1>10. ~CommittedTxn(1)
  BY <1>9 DEF CommittedTxn, CommittedAt, Seqno
<1>11. EndOf(0) \in 0 .. LogLen - 1
  <2> HIDE DEF Tags
  <2> QED BY <1>1, <1>2, <1>3, <1>5
<1> QED BY <1>1, <1>3, <1>4, <1>5, <1>6, <1>7, <1>8, <1>9, <1>10, <1>11

LEMMA CountIs ==
  ASSUME DiskTyped, SeqsPast, Starts => LogWhole
  PROVE  CommittedCount = IF Starts THEN 1 ELSE 0
<1>1. CASE ~Starts
  BY <1>1 DEF Starts, CommittedCount
<1>2. CASE Starts
  <2>1. CommittedTxn(0) /\ ~CommittedTxn(1) /\ LogLen \in Nat \ {0}
    BY <1>2, WholeLog, DiskIs
  <2> DEFINE Ends(n) == ~CommittedTxn(n) /\ \A m \in 0 .. n - 1 : CommittedTxn(m)
  <2>2. CommittedCount = CHOOSE n \in 0 .. LogLen : Ends(n)
    BY <1>2 DEF Starts, CommittedCount
  <2>3. 1 \in 0 .. LogLen
    BY <2>1
  <2>4. \A m \in 0 .. 1 - 1 : m = 0
    OBVIOUS
  <2>5. Ends(1)
    BY <2>1, <2>4
  <2>6. ASSUME NEW n \in 0 .. LogLen, Ends(n) PROVE n = 1
    <3>1. CASE n = 0
      BY <2>1, <2>6, <3>1
    <3>2. CASE n > 1
      <4>1. 1 \in 0 .. n - 1
        BY <2>1, <3>2
      <4> QED BY <2>1, <2>6, <4>1
    <3> QED BY <2>1, <3>1, <3>2
  <2> HIDE DEF Ends
  <2> QED BY <1>2, <2>2, <2>3, <2>5, <2>6
<1> QED BY <1>1, <1>2

LEMMA ReadIn ==
  ASSUME NEW b \in Blocks
  PROVE  ReadOf(b) \in Copying
BY DEF ReadOf, Copying, Replaying, Accesses

LEMMA HeaderRead ==
  ASSUME DiskTyped, NEW p \in 0 .. LogLen - 1
  PROVE  <<ReadOf(Log(p))>> \in Seq(Copying)
<1>1. LogLen \in LogLens
  BY DiskIs
<1>2. Log(p) \in Blocks
  BY <1>1, LogAt
<1>3. ReadOf(Log(p)) \in Copying
  BY <1>2, ReadIn
<1> QED BY <1>3

LEMMA ScanIs ==
  ASSUME DiskTyped, SeqsPast, LogWhole, Starts
  PROVE  ScanReads \in Seq(Copying)
<1> DEFINE scan(j) ==
      LET p == TxnStart[j - 1] IN
      <<ReadOf(Log(p))>> \o
      (IF HeaderAt(p, "desc", disk[Jsb].seq + j - 1) THEN <<ReadOf(Log(EndOf(p)))>>
       ELSE <<>>)
    q == [j \in 1 .. 2 |-> scan(j)]
<1>1. CommittedCount + 1 = 2
  BY CountIs
<1>2. ScanReads = FlattenSeq(q)
  BY <1>1 DEF ScanReads
<1>3. DOMAIN q = 1 .. 2 /\ Len(q) = 2 /\ q[1] = scan(1) /\ q[2] = scan(2)
  OBVIOUS
<1>4. scan(1) \in Seq(Copying)
  <2>1. TxnStart[1 - 1] = 0 /\ EndOf(0) \in 0 .. LogLen - 1 /\ LogLen \in Nat \ {0}
    BY WholeLog, DiskIs
  <2>2. <<ReadOf(Log(0))>> \in Seq(Copying) /\ <<ReadOf(Log(EndOf(0)))>> \in Seq(Copying)
    BY <2>1, HeaderRead
  <2> QED BY <2>1, <2>2
<1>5. scan(2) \in Seq(Copying)
  <2>1. TxnStart[2 - 1] = TxnStart[1]
    OBVIOUS
  <2>2. TxnStart[1] \in 0 .. LogLen - 1 /\ ~HeaderAt(TxnStart[1], "desc", Seqno + 1) /\ Seqno \in Nat
    BY WholeLog, DiskIs
  <2>3. disk[Jsb].seq + 2 - 1 = Seqno + 1
    BY <2>2 DEF Seqno
  <2>4. <<ReadOf(Log(TxnStart[1]))>> \in Seq(Copying)
    BY <2>2, HeaderRead
  <2> QED BY <2>1, <2>2, <2>3, <2>4
<1> HIDE DEF q, scan
<1>6. ScanReads = q[1] \o q[2]
  BY <1>2, <1>3, FlattenTwo
<1> QED BY <1>3, <1>4, <1>5, <1>6

LEMMA LoggedIs ==
  ASSUME DiskTyped, LogWhole, NEW i \in 1 .. Len(Tags)
  PROVE  LoggedFor(Tags[i]) = disk[Log(i)]
<1>1. \A j, l \in 1 .. Len(Tags) : Tags[j] = Tags[l] => disk[Log(j)] = disk[Log(l)]
  BY DEF LogWhole, LogIs
<1> DEFINE c == CHOOSE j \in 1 .. Len(Tags) : Tags[j] = Tags[i]
<1>2. c \in 1 .. Len(Tags) /\ Tags[c] = Tags[i]
  OBVIOUS
<1>3. LoggedFor(Tags[i]) = disk[Log(c)]
  BY DEF LoggedFor
<1> HIDE DEF c, Tags
<1> QED BY <1>1, <1>2, <1>3

LEMMA TagIsHome ==
  ASSUME DiskTyped, SeqsPast, LogWhole, NEW i \in 1 .. Len(Tags)
  PROVE  Tags[i] \in Homes /\ Tags[i] \in Blocks /\ Tags[i] # Jsb
<1>1. Tags \in Seq(Homes) /\ Len(Tags) \in Nat
  BY WholeLog
<1>2. Tags[i] \in Homes
  <2> HIDE DEF Tags
  <2> QED BY <1>1
<1> QED BY <1>2, Geometry DEF Homes

LEMMA WriteIn ==
  ASSUME DiskTyped, SeqsPast, Starts, LogWhole, NEW i \in 1 .. Len(Tags)
  PROVE  /\ WriteOf(Tags[i], disk[Log(i)]) \in Copying
         /\ NewOf(Tags[i]) = disk[Log(i)]
         /\ Log(i) \in Blocks /\ DataOf(0, i) = Log(i)
<1>0. /\ Len(Tags) \in Nat /\ Len(Tags) + 2 <= LogLen /\ LogLen \in Nat \ {0} /\ LogLen \in LogLens
  BY WholeLog, DiskIs
<1>1. Tags[i] \in Blocks /\ Tags[i] # Jsb
  BY TagIsHome
<1>2. Log(i) \in Blocks
  <2> HIDE DEF Tags
  <2>1. i \in 0 .. LogLen - 1
    BY <1>0
  <2> QED BY <1>0, <2>1, LogAt
<1>3. disk[Log(i)] \in Contents
  BY <1>2 DEF DiskTyped
<1>4. NewOf(Tags[i]) = disk[Log(i)]
  BY <1>1, LoggedIs DEF NewOf
<1>5. Replays(Tags[i])
  BY DEF Replays, InLog
<1>6. DataOf(0, i) = Log(i)
  <2> HIDE DEF Tags
  <2>1. Wrap(0 + i) = i
    BY <1>0 DEF Wrap
  <2> QED BY <2>1 DEF DataOf
<1>7. WriteOf(Tags[i], disk[Log(i)]) \in Copying
  <2> DEFINE t == Tags[i]
             v == disk[Log(i)]
             w == WriteOf(t, v)
  <2>0. t \in Blocks /\ v \in Contents /\ Replays(t) /\ v = NewOf(t) /\ t # Jsb
    BY <1>1, <1>3, <1>4, <1>5
  <2> HIDE DEF t, v
  <2>1. w \in Accesses /\ w.blk = t /\ w.val = v
    BY <2>0 DEF WriteOf, Accesses
  <2> HIDE DEF w
  <2>2. w \in Copying
    BY <2>0, <2>1 DEF Copying, Replaying
  <2> QED BY <2>2 DEF t, v, w
<1> QED BY <1>2, <1>4, <1>6, <1>7

LEMMA DescriptorIs ==
  ASSUME DiskTyped, SeqsPast, Starts, LogWhole
  PROVE  /\ ReplayDescriptor(0) \in Seq(Copying)
         /\ \A n \in 1 .. Len(Tags) :
              Lists(ReplayDescriptor(0), WriteOf(Tags[n], NewOf(Tags[n])))
<1> DEFINE len == Len(Tags)
           step(i) == LET n == (i + 1) \div 2 IN
                      IF i % 2 = 1 THEN ReadOf(DataOf(0, n))
                      ELSE WriteOf(Tags[n], disk[DataOf(0, n)])
<1>1. len \in Nat /\ TagsAt(0) = Tags
  BY WholeLog
<1>2. ReplayDescriptor(0) = [i \in 1 .. 2 * len |-> step(i)]
  BY <1>1 DEF ReplayDescriptor
<1>3. ASSUME NEW i \in 1 .. 2 * len PROVE step(i) \in Copying
  <2> DEFINE n == (i + 1) \div 2
  <2>1. n \in 1 .. len
    <3> HIDE DEF len
    <3> QED BY <1>1
  <2> HIDE DEF n
  <2>2. /\ WriteOf(Tags[n], disk[Log(n)]) \in Copying
        /\ Log(n) \in Blocks /\ DataOf(0, n) = Log(n)
    BY <2>1, WriteIn
  <2>3. ReadOf(Log(n)) \in Copying
    BY <2>2, ReadIn
  <2> QED BY <2>2, <2>3 DEF n
<1>4. ASSUME NEW n \in 1 .. len
      PROVE  2 * n \in 1 .. 2 * len /\ step(2 * n) = WriteOf(Tags[n], NewOf(Tags[n]))
  <2>1. (2 * n + 1) \div 2 = n /\ (2 * n) % 2 = 0 /\ 2 * n \in 1 .. 2 * len
    <3> HIDE DEF len
    <3> QED BY <1>1
  <2>2. DataOf(0, n) = Log(n) /\ NewOf(Tags[n]) = disk[Log(n)]
    BY WriteIn
  <2> QED BY <2>1, <2>2
<1> HIDE DEF step
<1>5. ReplayDescriptor(0) \in Seq(Copying)
  <2>1. 2 * len \in Nat
    <3> HIDE DEF len
    <3> QED BY <1>1
  <2> QED BY <1>2, <1>3, <2>1
<1>6. ASSUME NEW n \in 1 .. len PROVE Lists(ReplayDescriptor(0), WriteOf(Tags[n], NewOf(Tags[n])))
  <2>1. ReplayDescriptor(0)[2 * n] = WriteOf(Tags[n], NewOf(Tags[n])) /\ 2 * n \in DOMAIN ReplayDescriptor(0)
    BY <1>2, <1>4
  <2> QED BY <2>1 DEF Lists
<1> QED BY <1>5, <1>6

LEMMA TxnsAre ==
  ASSUME DiskTyped, SeqsPast, Starts, LogWhole
  PROVE  /\ ReplayTxns \in Seq(Copying)
         /\ \A n \in 1 .. Len(Tags) : Lists(ReplayTxns, WriteOf(Tags[n], NewOf(Tags[n])))
<1> DEFINE txn(j) ==
      LET p == TxnStart[j - 1] IN
      <<ReadOf(Log(p))>> \o ReplayDescriptor(p) \o <<ReadOf(Log(EndOf(p)))>>
    a == <<ReadOf(Log(0))>>
    d == ReplayDescriptor(0)
    z == <<ReadOf(Log(EndOf(0)))>>
<1>1. CommittedCount = 1 /\ TxnStart[0] = 0 /\ EndOf(0) \in 0 .. LogLen - 1 /\ LogLen \in Nat \ {0}
  BY CountIs, WholeLog, DiskIs
<1>2. txn(1) = a \o d \o z
  <2>1. TxnStart[1 - 1] = 0
    BY <1>1
  <2> QED BY <2>1
<1>3. ReplayTxns = a \o d \o z
  <2>1. ReplayTxns = FlattenSeq([j \in 1 .. 1 |-> txn(j)])
    BY <1>1 DEF ReplayTxns
  <2>2. [j \in 1 .. 1 |-> txn(j)] = [j \in 1 .. 1 |-> txn(1)]
    OBVIOUS
  <2>3. FlattenSeq([j \in 1 .. 1 |-> txn(1)]) = txn(1)
    <3> HIDE DEF txn
    <3> QED BY FlattenOne
  <2> HIDE DEF txn, a, d, z
  <2> QED BY <2>1, <2>2, <2>3, <1>2
<1>4. a \in Seq(Copying) /\ z \in Seq(Copying)
  BY <1>1, HeaderRead
<1>5. d \in Seq(Copying) /\ \A n \in 1 .. Len(Tags) : Lists(d, WriteOf(Tags[n], NewOf(Tags[n])))
  BY DescriptorIs
<1> HIDE DEF a, d, z
<1>6. a \o d \in Seq(Copying) /\ (a \o d) \o z \in Seq(Copying)
  BY <1>4, <1>5
<1>7. ASSUME NEW n \in 1 .. Len(Tags)
      PROVE  Lists(ReplayTxns, WriteOf(Tags[n], NewOf(Tags[n])))
  <2> DEFINE w == WriteOf(Tags[n], NewOf(Tags[n]))
  <2>1. Lists(d, w)
    BY <1>5
  <2> HIDE DEF w
  <2>2. Lists(a \o d, w)
    BY <2>1, <1>4, <1>5, ListsJoined
  <2>3. Lists((a \o d) \o z, w)
    BY <2>2, <1>4, <1>6, ListsJoined
  <2> QED BY <2>3, <1>3 DEF w
<1> QED BY <1>3, <1>6, <1>7

LEMMA ResetIs ==
  ASSUME DiskTyped, SeqsPast, Starts => LogWhole
  PROVE  /\ Reset = JournalSuper(FALSE, disk[Jsb].seq + CommittedCount)
         /\ Reset \in Headers /\ ~Reset.start /\ Reset.seq >= Seqno
         /\ WriteOf(Jsb, Reset) \in Replaying /\ Replays(Jsb) /\ NewOf(Jsb) = Reset
<1>1. CommittedCount = IF Starts THEN 1 ELSE 0
  BY CountIs
<1>2. Starts => Seqno < MaxSeq
  BY DEF LogWhole, LogIs
<1>3. Seqno \in 1 .. MaxSeq /\ MaxSeq \in Nat /\ LogLen \in LogLens
  BY DiskIs, Geometry
<1> DEFINE n == Seqno + (IF Starts THEN 1 ELSE 0)
<1>4. n \in 1 .. MaxSeq /\ n >= Seqno
  BY <1>2, <1>3
<1>5. Reset = [type |-> "jsb", start |-> FALSE, seq |-> n, len |-> LogLen]
  BY DEF Reset, JournalSuper, JournalHeader
<1>6. Reset = JournalSuper(FALSE, disk[Jsb].seq + CommittedCount)
  BY <1>1 DEF Reset, Seqno
<1> HIDE DEF n
<1>7. Reset \in Headers /\ ~Reset.start /\ Reset.seq = n
  BY <1>3, <1>4, <1>5 DEF Headers
<1>8. Reset \in Contents
  BY <1>7 DEF Contents
<1>9. Replays(Jsb) /\ NewOf(Jsb) = Reset
  BY DEF Replays, NewOf
<1>10. WriteOf(Jsb, Reset) \in Replaying
  <2> DEFINE w == WriteOf(Jsb, Reset)
  <2>1. w \in Accesses /\ w.blk = Jsb /\ w.val = Reset
    BY <1>8, Geometry DEF WriteOf, Accesses
  <2> HIDE DEF w
  <2>2. w \in Replaying
    BY <1>9, <2>1 DEF Replaying
  <2> QED BY <2>2 DEF w
<1> QED BY <1>4, <1>6, <1>7, <1>9, <1>10

(* The whole plan writes what the log holds and the reset of the journal.  *)
LEMMA PlanIs ==
  ASSUME DiskTyped, SeqsPast, Starts => LogWhole
  PROVE  /\ ReplayPlan \in Seq(Replaying) /\ ReplayPlan # <<>> /\ ResetsLast(ReplayPlan)
         /\ \A b : Replays(b) => Lists(ReplayPlan, WriteOf(b, NewOf(b)))
<1> DEFINE a == <<ReadOf(JournalInode), ReadOf(Jsb)>>
           m == IF disk[Jsb].start THEN ScanReads \o ReplayTxns ELSE <<>>
           z == <<WriteOf(Jsb, Reset)>>
<1>1. ReplayPlan = a \o m \o z
  BY ResetIs DEF ReplayPlan
<1>2. a \in Seq(Copying)
  <2>1. ReadOf(JournalInode) \in Copying /\ ReadOf(Jsb) \in Copying
    BY Geometry, ReadIn
  <2> QED BY <2>1
<1>3. m \in Seq(Copying)
  <2>1. CASE Starts
    <3>1. ScanReads \in Seq(Copying) /\ ReplayTxns \in Seq(Copying)
      BY <2>1, ScanIs, TxnsAre
    <3>2. m = ScanReads \o ReplayTxns
      BY <2>1 DEF Starts
    <3> HIDE DEF m
    <3> QED BY <3>1, <3>2
  <2>2. CASE ~Starts
    <3>1. m = <<>>
      BY <2>2 DEF Starts
    <3> HIDE DEF m
    <3> QED BY <3>1
  <2> QED BY <2>1, <2>2
<1>4. z \in Seq(Replaying) /\ Lists(z, WriteOf(Jsb, Reset)) /\ Len(z) = 1
  <2>1. WriteOf(Jsb, Reset) \in Replaying
    BY ResetIs
  <2>2. z[1] = WriteOf(Jsb, Reset) /\ 1 \in DOMAIN z
    OBVIOUS
  <2> QED BY <2>1, <2>2 DEF Lists
<1>5. ASSUME NEW b, InLog(b), b # Jsb PROVE Lists(m, WriteOf(b, NewOf(b)))
  <2>1. PICK n \in 1 .. Len(Tags) : Tags[n] = b
    BY <1>5 DEF InLog
  <2>2. Starts
    BY <1>5 DEF InLog
  <2> DEFINE w == WriteOf(b, NewOf(b))
  <2>3. Lists(ReplayTxns, w)
    BY <2>1, <2>2, TxnsAre
  <2> HIDE DEF w
  <2>4. ScanReads \in Seq(Copying) /\ ReplayTxns \in Seq(Copying)
    BY <2>2, ScanIs, TxnsAre
  <2>5. Lists(ScanReads \o ReplayTxns, w)
    BY <2>3, <2>4, ListsJoined
  <2>6. m = ScanReads \o ReplayTxns
    BY <2>2 DEF Starts
  <2> HIDE DEF m
  <2>7. Lists(m, w)
    BY <2>5, <2>6
  <2> QED BY <2>7 DEF w, m
<1> HIDE DEF a, m, z
<1>6. a \o m \in Seq(Copying) /\ a \o m \in Seq(Replaying)
  <2>1. a \o m \in Seq(Copying)
    BY <1>2, <1>3
  <2>2. Copying \subseteq Replaying
    BY DEF Copying
  <2> QED BY <2>1, <2>2
<1>7. (a \o m) \o z \in Seq(Replaying) /\ (a \o m) \o z # <<>>
  <2> DEFINE f == a \o m
  <2>1. f \in Seq(Replaying) /\ z \in Seq(Replaying) /\ Len(z) = 1
    BY <1>4, <1>6
  <2> HIDE DEF f
  <2>2. f \o z \in Seq(Replaying) /\ f \o z # <<>>
    BY <2>1
  <2> QED BY <2>2 DEF f
<1>9. ResetsLast((a \o m) \o z)
  <2> DEFINE f == a \o m
             q == f \o z
             n == Len(f)
  <2>1. n \in Nat /\ DOMAIN f = 1 .. n /\ Len(q) = n + 1 /\ DOMAIN q = 1 .. n + 1
        /\ \A i \in 1 .. n : q[i] = f[i] /\ f[i] \in Copying
    <3>1. f \in Seq(Copying) /\ f \in Seq(Replaying)
          /\ z \in Seq(Replaying) /\ Len(z) = 1
      BY <1>4, <1>6
    <3> HIDE DEF f
    <3>2. n \in Nat /\ DOMAIN f = 1 .. n /\ \A i \in 1 .. n : f[i] \in Copying
      BY <3>1
    <3>3. Len(q) = n + 1 /\ DOMAIN q = 1 .. n + 1 /\ \A i \in 1 .. n : q[i] = f[i]
      <4>1. f \in Seq(Replaying) /\ z \in Seq(Replaying) /\ Len(z) = 1
        BY <3>1
      <4>2. /\ Len(f \o z) = Len(f) + Len(z) /\ DOMAIN (f \o z) = 1 .. Len(f) + Len(z)
            /\ \A i \in 1 .. Len(f) : (f \o z)[i] = f[i]
        BY <4>1, Joined
      <4> QED BY <4>1, <4>2
    <3> QED BY <3>2, <3>3
  <2> HIDE DEF f, q, n
  <2>2. ASSUME NEW i \in DOMAIN q, q[i].op = "write", q[i].blk = Jsb PROVE i = Len(q)
    <3>1. i \notin 1 .. n
      BY <2>1, <2>2 DEF Copying
    <3> QED BY <2>1, <2>2, <3>1
  <2> QED BY <2>2 DEF ResetsLast, q, f
<1>8. ASSUME NEW b, Replays(b) PROVE Lists(ReplayPlan, WriteOf(b, NewOf(b)))
  <2> DEFINE w == WriteOf(b, NewOf(b))
  <2>1. CASE b = Jsb
    <3>1. Lists(z, w)
      BY <2>1, <1>4, ResetIs
    <3> HIDE DEF w
    <3>2. Lists((a \o m) \o z, w)
      BY <3>1, <1>4, <1>6, ListsJoined
    <3> QED BY <3>2, <1>1 DEF w
  <2>2. CASE b # Jsb
    <3>1. Lists(m, w)
      BY <1>5, <1>8, <2>2 DEF Replays
    <3> HIDE DEF w
    <3>2. Lists(a \o m, w)
      BY <3>1, <1>2, <1>3, ListsJoined
    <3>3. Lists((a \o m) \o z, w)
      BY <3>2, <1>4, <1>6, ListsJoined
    <3> QED BY <3>3, <1>1 DEF w
  <2> QED BY <2>1, <2>2
<1> QED BY <1>1, <1>7, <1>8, <1>9

(* What such a plan leaves on the device.                                  *)
LEMMA AfterIs ==
  ASSUME DiskTyped, NEW p \in Seq(Replaying)
  PROVE  \A b \in Blocks :
           After(p)[b] = IF \E i \in DOMAIN p : p[i].op = "write" /\ p[i].blk = b
                           THEN NewOf(b) ELSE disk[b]
<1> DEFINE n == Len(p)
           Do(f, i) == IF p[i].op = "write" THEN [f EXCEPT ![p[i].blk] = p[i].val] ELSE f
           Eq(m, g) ==
             g = [i \in 0 .. m |-> IF i = 0 THEN disk ELSE Do(g[i - 1], i)]
           Hit(m, b) == \E i \in 1 .. m : p[i].op = "write" /\ p[i].blk = b
           Right(m, g) ==
             /\ DOMAIN g[m] = Blocks
             /\ \A b \in Blocks : g[m][b] = IF Hit(m, b) THEN NewOf(b) ELSE disk[b]
           T == {m \in 0 .. n : \E g : Eq(m, g) /\ Right(m, g)}
           s == CHOOSE g : Eq(n, g)
<1>1. n \in Nat /\ DOMAIN p = 1 .. n /\ \A i \in 1 .. n : p[i] \in Replaying
  OBVIOUS
<1>2. \A i \in 1 .. n : /\ p[i].blk \in Blocks
                        /\ p[i].op = "write" => p[i].val = NewOf(p[i].blk)
  BY <1>1 DEF Replaying, Accesses
<1>3. DOMAIN disk = Blocks
  BY DEF DiskTyped
<1>4. 0 \in T
  <2> DEFINE g == [i \in 0 .. 0 |-> disk]
  <2>1. Eq(0, g) /\ g[0] = disk
    OBVIOUS
  <2>2. \A b : ~Hit(0, b)
    OBVIOUS
  <2>3. Right(0, g)
    BY <1>3, <2>1, <2>2
  <2>4. 0 \in 0 .. n
    BY <1>1
  <2> HIDE DEF Eq, Right, g, n
  <2> QED BY <2>1, <2>3, <2>4
<1>5. ASSUME NEW m \in 0 .. n - 1, m \in T PROVE m + 1 \in T
  <2>1. PICK g : Eq(m, g) /\ Right(m, g)
    BY <1>5
  <2>2. m \in Nat /\ m + 1 \in 1 .. n /\ m + 1 \in 0 .. n
    BY <1>1
  <2> DEFINE c == p[m + 1].blk
             d == Do(g[m], m + 1)
             h == [i \in 0 .. m + 1 |-> IF i = m + 1 THEN d ELSE g[i]]
  <2>3. Eq(m + 1, h)
    <3> HIDE DEF n, Do
    <3> QED BY <2>1, <2>2
  <2>4. h[m + 1] = d
    BY <2>2
  <2>5. c \in Blocks /\ (p[m + 1].op = "write" => p[m + 1].val = NewOf(c))
    BY <1>2, <2>2
  <2>6. \A b : Hit(m + 1, b) <=> Hit(m, b) \/ (p[m + 1].op = "write" /\ c = b)
    <3> HIDE DEF n
    <3>1. \A i : i \in 1 .. m + 1 <=> i \in 1 .. m \/ i = m + 1
      BY <2>2
    <3> QED BY <3>1
  <2>7. DOMAIN g[m] = Blocks /\ \A b \in Blocks : g[m][b] = IF Hit(m, b) THEN NewOf(b) ELSE disk[b]
    BY <2>1
  <2>8. DOMAIN d = Blocks
    BY <2>7
  <2>9. \A b \in Blocks : d[b] = IF Hit(m + 1, b) THEN NewOf(b) ELSE disk[b]
    <3>1. \A b \in Blocks : d[b] = IF p[m + 1].op = "write" /\ b = c THEN NewOf(c) ELSE g[m][b]
      BY <2>5, <2>7
    <3> HIDE DEF d, Hit, c
    <3> QED BY <3>1, <2>6, <2>7
  <2> HIDE DEF d
  <2>10. Right(m + 1, h)
    <3> HIDE DEF h, Hit
    <3> QED BY <2>4, <2>8, <2>9
  <2> HIDE DEF Eq, Right, h, n
  <2> QED BY <2>2, <2>3, <2>10
<1>6. n \in T
  <2>1. 0 .. n \subseteq T
    <3> HIDE DEF T, n
    <3> QED BY <1>1, <1>4, <1>5, UpTo
  <2> HIDE DEF T, n
  <2> QED BY <1>1, <2>1
<1>7. PICK g : Eq(n, g) /\ Right(n, g)
  BY <1>6
<1>8. Eq(n, s)
  <2> HIDE DEF Eq, n
  <2> QED BY <1>7
<1>9. After(p) = s[n]
  BY Zenon DEF After
<1>10. s[n] = g[n]
  <2> DEFINE U == {m \in 0 .. n : s[m] = g[m]}
  <2>1. 0 \in U
    <3> HIDE DEF s, n
    <3> QED BY <1>1, <1>7, <1>8
  <2>2. ASSUME NEW m \in 0 .. n - 1, m \in U PROVE m + 1 \in U
    <3> HIDE DEF s, n, Do
    <3>1. m + 1 \in 0 .. n /\ m + 1 # 0 /\ m + 1 - 1 = m /\ s[m] = g[m]
      BY <1>1, <2>2
    <3> DEFINE j == m + 1
    <3>5. j \in 0 .. n /\ j # 0 /\ s[j - 1] = g[j - 1]
      BY <3>1
    <3> HIDE DEF j
    <3>2. s[j] = Do(s[j - 1], j)
      BY <1>8, <3>5
    <3>3. g[j] = Do(g[j - 1], j)
      BY <1>7, <3>5
    <3>4. s[j] = g[j]
      BY <3>2, <3>3, <3>5
    <3> QED BY <3>4, <3>5 DEF j
  <2>3. 0 .. n \subseteq U
    <3> HIDE DEF U, n
    <3> QED BY <1>1, <2>1, <2>2, UpTo
  <2> HIDE DEF s, n
  <2> QED BY <1>1, <2>3
<1>11. \A b : Hit(n, b) <=> \E i \in DOMAIN p : p[i].op = "write" /\ p[i].blk = b
  BY <1>1
<1>12. \A b \in Blocks : After(p)[b] = IF Hit(n, b) THEN NewOf(b) ELSE disk[b]
  <2> HIDE DEF s, n, Hit, Eq
  <2> QED BY <1>7, <1>9, <1>10
<1> HIDE DEF Hit, n, s
<1> QED BY <1>11, <1>12

(* Block by block, what a mount ends with.                                 *)
Found(b) == IF Believed /\ InLog(b) THEN LoggedFor(b) ELSE disk[b]
Shown(f) == [b \in Homes |-> IF b = SB THEN Count(f[b].free) ELSE f[b]]

LEMMA RecoveredIs ==
  ASSUME DiskTyped, SeqsPast, Starts => LogWhole
  PROVE  \A b \in Homes : Recovered[b] = IF InLog(b) THEN LoggedFor(b) ELSE disk[b]
<1>1. Recovered = After(ReplayPlan)
  <2> DEFINE S == {After(accesses) : accesses \in {ReplayPlan}}
  <2>1. S = {After(ReplayPlan)}
    OBVIOUS
  <2>2. Recovered = CHOOSE d \in S : TRUE
    BY DEF Recovered
  <2> HIDE DEF S
  <2> QED BY <2>1, <2>2
<1>2. ReplayPlan \in Seq(Replaying)
  BY PlanIs
<1>3. ASSUME NEW b \in Homes PROVE Recovered[b] = IF InLog(b) THEN LoggedFor(b) ELSE disk[b]
  <2>0. b \in Blocks /\ b # Jsb
    BY Geometry DEF Homes
  <2> DEFINE hit == \E i \in DOMAIN ReplayPlan : ReplayPlan[i].op = "write" /\ ReplayPlan[i].blk = b
  <2>1. Recovered[b] = IF hit THEN NewOf(b) ELSE disk[b]
    BY <1>1, <1>2, <2>0, AfterIs
  <2>2. NewOf(b) = LoggedFor(b)
    BY <2>0 DEF NewOf
  <2>3. hit => InLog(b)
    <3>1. ASSUME NEW i \in DOMAIN ReplayPlan, ReplayPlan[i].op = "write", ReplayPlan[i].blk = b
          PROVE  Replays(b)
      <4>1. ReplayPlan[i] \in Replaying
        BY <1>2
      <4> QED BY <3>1, <4>1 DEF Replaying
    <3> QED BY <2>0, <3>1 DEF Replays
  <2>4. InLog(b) => hit
    <3>1. ASSUME InLog(b) PROVE hit
      <4>1. Lists(ReplayPlan, WriteOf(b, NewOf(b)))
        BY <3>1, PlanIs DEF Replays
      <4>2. WriteOf(b, NewOf(b)).op = "write" /\ WriteOf(b, NewOf(b)).blk = b
        BY DEF WriteOf
      <4>3. PICK i \in DOMAIN ReplayPlan : ReplayPlan[i] = WriteOf(b, NewOf(b))
        BY <4>1 DEF Lists
      <4>4. ReplayPlan[i].op = "write" /\ ReplayPlan[i].blk = b
        BY <4>2, <4>3
      <4> QED BY <4>4
    <3> QED BY <3>1
  <2> HIDE DEF hit
  <2> QED BY <2>1, <2>2, <2>3, <2>4
<1> QED BY <1>3

LEMMA DurableIs ==
  ASSUME DiskTyped, SeqsPast, Believed => LogWhole, pc # "rflush"
  PROVE  Durable = Shown([b \in Homes |-> Found(b)])
<1> DEFINE recovered == IF disk[SB].recover THEN Recovered ELSE disk
<1>1. ASSUME NEW b \in Homes PROVE recovered[b] = Found(b)
  <2>1. CASE disk[SB].recover
    <3>1. (Starts => LogWhole) /\ (Believed <=> Starts)
      BY <2>1 DEF Believed
    <3>2. Recovered[b] = IF InLog(b) THEN LoggedFor(b) ELSE disk[b]
      BY <3>1, RecoveredIs
    <3>3. InLog(b) => Starts
      BY DEF InLog
    <3> QED BY <2>1, <3>1, <3>2, <3>3 DEF Found
  <2>2. CASE ~disk[SB].recover
    BY <2>2 DEF Found, Believed
  <2> QED BY <2>1, <2>2
<1>2. Durable = [b \in Homes |-> IF b = SB THEN Count(recovered[b].free) ELSE recovered[b]]
  BY DEF Durable, Homes
<1> HIDE DEF recovered
<1>3. SB \in Homes
  BY DEF Homes
<1> QED BY <1>1, <1>2, <1>3 DEF Shown

(* While a recovery is written home it ends with what is seen.             *)
LEMMA DurableFlushing ==
  ASSUME pc = "rflush"
  PROVE  Durable = Shown(Seen)
<1>1. \A b \in Homes : Seen[b] = View(b)
  BY Geometry DEF Homes, Seen
<1>2. Durable = [b \in Homes |-> IF b = SB THEN Count(View(b).free) ELSE View(b)]
  BY DEF Durable, Homes
<1> QED BY <1>1, <1>2 DEF Shown

LEMMA WorkingIs ==
  ASSUME Mounted
  PROVE  Working = [b \in Homes |-> IF b = SB THEN Count(sb.free) ELSE Seen[b]]
<1>1. \A b \in Homes : Seen[b] = View(b)
  BY Geometry DEF Homes, Seen
<1>2. Working = [b \in Homes |-> IF b = SB THEN Count(sb.free) ELSE View(b)]
  BY DEF Working, Homes
<1> QED BY <1>1, <1>2
-------------------------------------------------------------------------------
(* What stays when the log and the journal's superblock do.                *)
LEMMA LogStays ==
  ASSUME DiskTyped, \A b \in LogBlocks : disk'[b] = disk[b], disk'[Jsb] = disk[Jsb]
  PROVE  /\ LogLen' = LogLen /\ Seqno' = Seqno /\ Starts' = Starts
         /\ Tags' = Tags
         /\ LogWhole => LogWhole'
         /\ LogWhole => \A b : LoggedFor(b)' = LoggedFor(b) \/ ~InLog(b)
         /\ \A b : InLog(b)' <=> InLog(b)
<1>1. LogLen' = LogLen /\ Seqno' = Seqno /\ Starts' = Starts
  BY DEF LogLen, Seqno, Starts
<1>2. LogLen \in LogLens /\ LogLen \in Nat \ {0}
  BY DiskIs
<1>3. \A p \in 0 .. LogLen - 1 : disk'[Log(p)] = disk[Log(p)]
  BY <1>2, LogAt
<1>4. 0 \in 0 .. LogLen - 1
  BY <1>2
<1>5. Tags' = Tags
  BY <1>3, <1>4 DEF Tags
<1>6. \A b : InLog(b)' <=> InLog(b)
  BY <1>1, <1>5 DEF InLog
<1>7. ASSUME LogWhole PROVE LogWhole' /\ \A b : LoggedFor(b)' = LoggedFor(b) \/ ~InLog(b)
  <2>0. PICK t : t = Tags
    OBVIOUS
  <2>1. /\ t \in Seq(Homes)
        /\ Len(t) + 2 <= LogLen
        /\ Seqno < MaxSeq
        /\ disk[Log(0)] = Descriptor(Seqno, t)
        /\ disk[Log(Len(t) + 1)] = CommitBlock(Seqno)
        /\ \A i \in 1 .. Len(t) : disk[Log(i)] \in KindOf(t[i])
        /\ \A i, j \in 1 .. Len(t) : t[i] = t[j] => disk[Log(i)] = disk[Log(j)]
        /\ \A i \in 1 .. Len(t) : t[i] = SB => disk[Log(i)].recover
    BY <1>7, <2>0 DEF LogWhole, LogIs
  <2>2. Tags' = t
    BY <1>5, <2>0
  <2>3. \A b : InLog(b) => \E i \in 1 .. Len(t) : t[i] = b
    BY <2>0 DEF InLog
  <2>4. \A b : LoggedFor(b) = disk[Log(CHOOSE i \in 1 .. Len(t) : t[i] = b)]
    BY <2>0 DEF LoggedFor
  <2>5. \A b : LoggedFor(b)' = disk'[Log(CHOOSE i \in 1 .. Len(t) : t[i] = b)]
    BY <2>2 DEF LoggedFor
  <2>6. Len(t) \in Nat /\ 0 \in 0 .. LogLen - 1 /\ Len(t) + 1 \in 0 .. LogLen - 1
    BY <2>1, <1>2
  <2>7. \A i \in 1 .. Len(t) : i \in 0 .. LogLen - 1
    BY <2>1, <2>6, <1>2
  <2>8. LogIs(t)'
    BY <1>1, <1>3, <2>1, <2>6, <2>7 DEF LogIs
  <2>9. LogWhole'
    BY <2>2, <2>8 DEF LogWhole
  <2>10. ASSUME NEW b, InLog(b) PROVE LoggedFor(b)' = LoggedFor(b)
    <3> DEFINE c == CHOOSE i \in 1 .. Len(t) : t[i] = b
    <3>1. c \in 1 .. Len(t)
      BY <2>3, <2>10
    <3>2. LoggedFor(b)' = disk'[Log(c)] /\ LoggedFor(b) = disk[Log(c)]
      BY <2>4, <2>5
    <3> HIDE DEF c
    <3> QED BY <1>3, <2>7, <3>1, <3>2
  <2> QED BY <2>9, <2>10
<1> QED BY <1>1, <1>5, <1>6, <1>7

LEMMA DiskSame ==
  ASSUME disk' = disk
  PROVE  /\ LogLen' = LogLen /\ Seqno' = Seqno /\ Starts' = Starts /\ Tags' = Tags
         /\ DiskTyped => DiskTyped'
         /\ SeqsPast => SeqsPast'
         /\ LogWhole => LogWhole'
         /\ Reset' = Reset
         /\ \A b : LoggedFor(b)' = LoggedFor(b) /\ NewOf(b)' = NewOf(b)
         /\ \A b : InLog(b)' <=> InLog(b)
         /\ \A b : Replays(b)' <=> Replays(b)
<1>1. LogLen' = LogLen /\ Seqno' = Seqno /\ Starts' = Starts /\ Tags' = Tags
  BY DEF LogLen, Seqno, Starts, Tags
<1>2. DiskTyped => DiskTyped'
  BY DEF DiskTyped
<1>3. SeqsPast => SeqsPast'
  BY <1>1 DEF SeqsPast
<1>4. LogWhole => LogWhole'
  BY <1>1 DEF LogWhole, LogIs
<1>5. Reset' = Reset
  BY <1>1 DEF Reset, JournalSuper
<1>6. \A b : LoggedFor(b)' = LoggedFor(b)
  BY <1>1 DEF LoggedFor
<1>7. \A b : NewOf(b)' = NewOf(b)
  BY <1>5, <1>6 DEF NewOf
<1>8. \A b : InLog(b)' <=> InLog(b)
  BY <1>1 DEF InLog
<1>9. \A b : Replays(b)' <=> Replays(b)
  BY <1>8 DEF Replays
<1> QED BY <1>1, <1>2, <1>3, <1>4, <1>5, <1>6, <1>7, <1>8, <1>9

(* One block written.                                                      *)
LEMMA DiskWrite ==
  ASSUME DiskTyped, NEW b \in Blocks, NEW v \in Contents, v \in KindOf(b),
         disk' = [disk EXCEPT ![b] = v]
  PROVE  /\ DiskTyped' /\ disk'[b] = v
         /\ \A c \in Blocks \ {b} : disk'[c] = disk[c]
<1>1. disk \in [Blocks -> Contents]
  BY DEF DiskTyped
<1>2. disk' \in [Blocks -> Contents] /\ disk'[b] = v
  BY <1>1
<1>3. \A c \in Blocks \ {b} : disk'[c] = disk[c]
  BY <1>1
<1>4. \A c \in Blocks : disk'[c] \in KindOf(c)
  BY <1>2, <1>3 DEF DiskTyped
<1> QED BY <1>2, <1>3, <1>4 DEF DiskTyped

LEMMA KindsAre ==
  ASSUME NEW b \in Blocks
  PROVE  /\ b \in FsBlocks => KindOf(b) = FsContents
         /\ b = SB => KindOf(b) = SuperBlocks
         /\ b = Jsb => KindOf(b) = Headers
         /\ b \in LogBlocks => KindOf(b) = LogContents
         /\ KindOf(b) \subseteq Contents
BY Geometry, Regions DEF KindOf, Contents, LogContents

(* A block of the log, or Torn there.                                      *)
-------------------------------------------------------------------------------
(* The invariant holds at first, ...                                       *)
LEMMA InitKeeps == Init => IInv
<1> SUFFICES ASSUME Init PROVE IInv
  OBVIOUS
<1>1. PICK v \in Values, n \in Counts, len \in LogLens :
        disk = [b \in Blocks |->
                 CASE b = SB -> SuperBlock(FALSE, n)
                   [] b \in FsBlocks -> Data(v)
                   [] b = Jsb -> JournalHeader(FALSE, 1, len)
                   [] OTHER -> Torn]
  BY DEF Init
<1>2. /\ cache = <<>> /\ recent = <<>> /\ pc = "off" /\ sb = disk[SB]
      /\ targets = <<>> /\ k = 0 /\ plan = <<>>
  BY DEF Init, CacheEmpty
<1>3. disk[SB] = SuperBlock(FALSE, n) /\ disk[Jsb] = JournalHeader(FALSE, 1, len)
  BY <1>1, Geometry
<1>4. \A b \in FsBlocks : disk[b] = Data(v)
  BY <1>1, Geometry
<1>5. \A b \in LogBlocks : disk[b] = Torn
  <2>1. LogBlocks \subseteq Blocks
    BY DEF LogBlocks
  <2> QED BY <1>1, <2>1, Regions
<1>6. disk[SB] \in SuperBlocks /\ disk[Jsb] \in Headers /\ \A b \in FsBlocks : disk[b] \in FsContents
  BY <1>3, <1>4, Geometry
     DEF SuperBlocks, SuperBlock, FsContents, Data, Headers, JournalHeader
<1>7. \A b \in LogBlocks : disk[b] \in LogContents /\ disk[b].type = "torn"
  BY <1>5 DEF LogContents, FsContents, Torn
<1>8. \A b \in Blocks : disk[b] \in KindOf(b)
  BY <1>6, <1>7, KindsAre, Regions
<1>9. DiskTyped
  <2>1. \A b \in Blocks : disk[b] \in Contents
    BY <1>8, KindsAre
  <2>2. disk = [b \in Blocks |-> disk[b]]
    BY <1>1
  <2> QED BY <1>8, <2>1, <2>2 DEF DiskTyped
<1>10. CacheOK /\ Seen = disk /\ Dirty = {}
  BY <1>2, <1>9, EmptyShows DEF DiskTyped
<1>11. SeenTyped
  BY <1>8, <1>10 DEF SeenTyped
<1>12. SeqsPast
  BY <1>7 DEF SeqsPast
<1>13. ~Starts
  BY <1>3 DEF Starts, JournalHeader
<1>14. TargetsRight
  BY <1>2 DEF TargetsRight, N, Committing, Filling, Filled, Resting, Recovering
<1>15. CleanRight
  BY <1>10 DEF CleanRight
<1>16. DirtyRight
  BY <1>2, <1>10 DEF DirtyRight
<1>17. FlagsRight
  BY <1>2, <1>13 DEF FlagsRight, Believed, Closed
<1> QED
  BY <1>2, <1>6, <1>9, <1>10, <1>11, <1>12, <1>14, <1>15, <1>16, <1>17
     DEF IInv, Basics, Recovering, Filling, Filled

(* ... and each step keeps it.  First, what a step that is not of a commit *)
(* does with the targets, and how a plan goes on.                          *)
LEMMA TargetsKept ==
  ASSUME TargetsRight, targets' = targets, k' = k, Resting, Resting'
  PROVE  TargetsRight'
<1>1. ~Committing' /\ pc' # "reset" /\ ~Filling' /\ ~Filled'
  BY DEF Resting, Recovering, Committing, Filling, Filled
<1> QED BY <1>1 DEF TargetsRight, N

LEMMA NewStays ==
  ASSUME DiskTyped, \A b \in LogBlocks : disk'[b] = disk[b], disk'[Jsb] = disk[Jsb],
         Starts => LogWhole
  PROVE  /\ \A b : Replays(b)' <=> Replays(b)
         /\ \A b : Replays(b) => NewOf(b)' = NewOf(b)
         /\ Replaying' = Replaying
<1>1. /\ LogLen' = LogLen /\ Seqno' = Seqno /\ Starts' = Starts
      /\ LogWhole => \A b : LoggedFor(b)' = LoggedFor(b) \/ ~InLog(b)
      /\ \A b : InLog(b)' <=> InLog(b)
  BY LogStays
<1>2. \A b : Replays(b)' <=> Replays(b)
  BY <1>1 DEF Replays
<1>3. Reset' = Reset
  BY <1>1 DEF Reset, JournalSuper
<1>4. ASSUME NEW b, Replays(b) PROVE NewOf(b)' = NewOf(b)
  <2>1. CASE b = Jsb
    BY <2>1, <1>3 DEF NewOf
  <2>2. CASE b # Jsb
    <3>1. InLog(b) /\ LogWhole
      BY <2>2, <1>4 DEF Replays, InLog
    <3>2. LoggedFor(b)' = LoggedFor(b)
      BY <3>1, <1>1
    <3> QED BY <2>2, <3>2 DEF NewOf
  <2> QED BY <2>1, <2>2
<1>5. Replaying' = {a \in Accesses : a.op = "write" => Replays(a.blk)' /\ a.val = NewOf(a.blk)'}
  BY DEF Replaying
<1>6. \A a \in Accesses : (a.op = "write" => Replays(a.blk)' /\ a.val = NewOf(a.blk)')
                         <=> (a.op = "write" => Replays(a.blk) /\ a.val = NewOf(a.blk))
  BY <1>2, <1>4
<1>7. Replaying' = Replaying
  BY <1>5, <1>6 DEF Replaying
<1> QED BY <1>2, <1>4, <1>7

LEMMA OpenKeeps ==
  ASSUME IInv, Open
  PROVE  IInv'
<1>1. /\ pc = "off" /\ sb' = disk[SB] /\ UNCHANGED cachevars /\ targets' = targets /\ k' = k
      /\ cache = <<>> /\ Dirty = {}
  <2>1. pc = "off" /\ sb' = disk[SB] /\ UNCHANGED cachevars /\ targets' = targets /\ k' = k
    BY DEF Open
  <2>2. cache = <<>>
    BY <2>1 DEF IInv, Basics, DirtyRight
  <2>3. Dirty = {}
    BY <2>2 DEF Dirty, DirtyEntries
  <2> QED BY <2>1, <2>2, <2>3
<1>2. /\ CacheOK /\ DiskTyped /\ SeenTyped /\ SeqsPast /\ TargetsRight /\ CleanRight /\ FlagsRight
  BY DEF IInv, Basics
<1>3. CacheOK' /\ disk' = disk /\ Seen' = Seen /\ Dirty' = Dirty
  BY <1>1, <1>2, CacheStays
<1>4. DiskTyped' /\ SeqsPast' /\ Starts' = Starts /\ (LogWhole => LogWhole')
  BY <1>2, <1>3, DiskSame
<1>5. SeenTyped' /\ CleanRight'
  BY <1>1, <1>2, <1>3 DEF SeenTyped, CleanRight, Mounted
<1>6. sb' \in SuperBlocks
  BY <1>1, <1>2, DiskIs
<1>7. Believed => LogWhole
  BY <1>1, <1>2 DEF FlagsRight
<1>8. CASE ~disk[SB].recover
  <2>1. pc' = "idle" /\ plan' = plan
    BY <1>1, <1>8 DEF Open
  <2>2. TargetsRight'
    BY <1>1, <1>2, <2>1, TargetsKept DEF Resting, Recovering
  <2>3. DirtyRight'
    BY <1>1, <1>3, <2>1 DEF DirtyRight
  <2>4. FlagsRight'
    BY <1>1, <1>3, <1>8, <2>1 DEF FlagsRight, Closed
  <2> QED BY <1>3, <1>4, <1>5, <1>6, <2>1, <2>2, <2>3, <2>4
          DEF IInv, Basics, Closed, Filling, Filled
<1>9. CASE disk[SB].recover
  <2>1. pc' = "replay" /\ plan' = ReplayPlan
    BY <1>1, <1>9 DEF Open
  <2>2. TargetsRight'
    BY <1>1, <1>2, <2>1, TargetsKept DEF Resting, Recovering
  <2>3. DirtyRight'
    BY <1>1, <1>3, <2>1 DEF DirtyRight
  <2>4. Starts => LogWhole
    BY <1>7, <1>9 DEF Believed
  <2>5. FlagsRight'
    BY <2>1, <2>4, <1>4 DEF FlagsRight, Closed
  <2>6. /\ ReplayPlan \in Seq(Replaying) /\ ReplayPlan # <<>> /\ ResetsLast(ReplayPlan)
        /\ \A b : Replays(b) => Lists(ReplayPlan, WriteOf(b, NewOf(b)))
    BY <1>2, <2>4, PlanIs
  <2>7. PlanOK'
    <3>1. Replaying' = Replaying
      BY <1>2, <1>3, <2>4, NewStays
    <3>2. plan' \in Seq(Replaying)' /\ plan' # <<>> /\ ResetsLast(plan')
      BY <2>1, <2>6, <3>1
    <3> QED BY <3>2 DEF PlanOK
  <2>8. ASSUME NEW b \in Blocks, Replays(b)' PROVE Pending(b)'
    <3>1. Replays(b)
      BY <1>3, <2>8, DiskSame
    <3>2. PICK i \in DOMAIN ReplayPlan : ReplayPlan[i] = WriteOf(b, NewOf(b))
      BY <2>6, <3>1 DEF Lists
    <3>3. ReplayPlan[i].op = "write" /\ ReplayPlan[i].blk = b
      BY <3>2 DEF WriteOf
    <3> QED BY <2>1, <3>3 DEF Pending
  <2>9. ReplayRight'
    BY <1>1, <1>3, <1>9, <2>7, <2>8 DEF ReplayRight
  <2> QED BY <1>3, <1>4, <1>5, <1>6, <2>1, <2>2, <2>3, <2>5, <2>9
          DEF IInv, Basics, Recovering, Filling, Filled
<1> QED BY <1>8, <1>9

LEMMA NewIsRight ==
  ASSUME DiskTyped, SeqsPast, Starts => LogWhole, NEW b \in Blocks, Replays(b)
  PROVE  NewOf(b) \in KindOf(b) /\ (b \in Homes \/ b = Jsb)
<1>1. CASE b = Jsb
  <2>1. NewOf(b) \in Headers
    BY <1>1, ResetIs
  <2> QED BY <1>1, <2>1, KindsAre
<1>2. CASE b # Jsb
  <2>1. Starts /\ \E i \in 1 .. Len(Tags) : Tags[i] = b
    BY <1>2 DEF Replays, InLog
  <2>2. PICK i \in 1 .. Len(Tags) : Tags[i] = b
    BY <2>1
  <2>3. NewOf(b) = disk[Log(i)] /\ Tags[i] \in Homes
    BY <2>1, <2>2, WriteIn, TagIsHome
  <2>4. disk[Log(i)] \in KindOf(Tags[i])
    BY <2>1 DEF LogWhole, LogIs
  <2> QED BY <2>2, <2>3, <2>4
<1> QED BY <1>1, <1>2

LEMMA NewSuper ==
  ASSUME DiskTyped, SeqsPast, Starts => LogWhole, Replays(SB)
  PROVE  NewOf(SB).recover
<1>1. Starts /\ \E i \in 1 .. Len(Tags) : Tags[i] = SB
  BY Geometry DEF Replays, InLog
<1>2. PICK i \in 1 .. Len(Tags) : Tags[i] = SB
  BY <1>1
<1>3. NewOf(SB) = disk[Log(i)]
  BY <1>1, <1>2, WriteIn
<1> QED BY <1>1, <1>2, <1>3 DEF LogWhole, LogIs

(* An access to the cache, at which dirty blocks may go home.              *)
LEMMA AccessKeeps ==
  ASSUME Basics, NEW b \in Blocks, NEW out, CacheStep(b, out), Jsb \notin out,
         Seen'[b] \in KindOf(b), sb' \in SuperBlocks, Mounted' <=> Mounted, pc' # "off",
         b \in Dirty' => b \in FsBlocks \/ (~Mounted /\ b \in {SB, Jsb}),
         b \notin Dirty' => b \notin Dirty /\ Seen'[b] = Seen[b]
  PROVE  /\ Basics' /\ \A c \in Blocks \ out : disk'[c] = disk[c]
         /\ \A c \in out : c \in Dirty /\ disk'[c] = Seen[c]
         /\ disk'[Jsb] = disk[Jsb] /\ \A c \in LogBlocks : disk'[c] = disk[c]
         /\ Mounted => disk'[SB] = disk[SB]
         /\ \A c \in Blocks \ {b} : c \in FsBlocks \/ ~Mounted => Seen'[c] = Seen[c]
         /\ Dirty' \subseteq Dirty \cup {b}
<1>0. CacheOK /\ DiskTyped /\ SeenTyped /\ SeqsPast /\ CleanRight /\ DirtyRight
  BY DEF Basics
<1>1. /\ CacheOK' /\ out \subseteq Dirty \ {b} /\ disk' = Stored(out)
      /\ \A c \in Blocks \ {b} : Seen'[c] = Seen[c] \/ (c \notin Dirty /\ Seen'[c] = disk[c])
      /\ \A c : c # b => (c \in Dirty' <=> c \in Dirty \ out)
  BY DEF CacheStep
<1>2. Dirty \subseteq FsBlocks \cup (IF Mounted THEN {} ELSE {SB, Jsb}) /\ Dirty \subseteq Blocks
  BY <1>0, Geometry DEF DirtyRight
<1>3. /\ \A c \in Blocks \ out : disk'[c] = disk[c]
      /\ \A c \in out : c \in Dirty /\ c \in Blocks /\ disk'[c] = Seen[c]
  BY <1>1, <1>2 DEF Stored
<1>4. \A c \in LogBlocks : c \notin out
  <2>1. LogBlocks \subseteq Blocks
    BY DEF LogBlocks
  <2> QED BY <2>1, <1>1, <1>2, Regions
<1>5. disk'[Jsb] = disk[Jsb] /\ \A c \in LogBlocks : disk'[c] = disk[c]
  <2>1. LogBlocks \subseteq Blocks
    BY DEF LogBlocks
  <2> QED BY <2>1, <1>3, <1>4, Geometry
<1>6. Mounted => disk'[SB] = disk[SB]
  BY <1>1, <1>2, <1>3, Geometry
<1>7. ASSUME NEW c \in Blocks \ {b}, c \in FsBlocks \/ ~Mounted PROVE Seen'[c] = Seen[c]
  <2>1. c \notin Dirty => Seen[c] = disk[c]
    BY <1>0, <1>7 DEF CleanRight
  <2> QED BY <1>1, <2>1
<1>8. DiskTyped'
  <2>1. \A c \in Blocks : disk'[c] \in KindOf(c)
    BY <1>0, <1>3 DEF DiskTyped, SeenTyped
  <2>2. disk' = [c \in Blocks |-> disk'[c]]
    BY <1>1 DEF Stored
  <2>3. \A c \in Blocks : disk'[c] \in Contents
    BY <2>1, KindsAre
  <2> QED BY <2>1, <2>2, <2>3 DEF DiskTyped
<1>9. SeenTyped'
  <2>1. ASSUME NEW c \in Blocks PROVE Seen'[c] \in KindOf(c)
    BY <1>0, <1>1 DEF SeenTyped, DiskTyped
  <2> QED BY <2>1 DEF SeenTyped
<1>10. SeqsPast'
  <2>1. Seqno' = Seqno
    BY <1>5 DEF Seqno
  <2> QED BY <1>0, <1>5, <2>1 DEF SeqsPast
<1>11. CleanRight'
  <2>1. ASSUME NEW c \in Blocks \ Dirty', c \in FsBlocks \/ ~Mounted PROVE Seen'[c] = disk'[c]
    <3>1. CASE c = b
      <4>1. Seen'[b] = Seen[b] /\ b \notin Dirty /\ b \notin out
        BY <2>1, <3>1, <1>1
      <4>2. disk'[b] = disk[b] /\ Seen[b] = disk[b]
        BY <4>1, <2>1, <3>1, <1>0, <1>3 DEF CleanRight
      <4> QED BY <3>1, <4>1, <4>2
    <3>2. CASE c # b
      <4>1. Seen'[c] = Seen[c]
        BY <2>1, <3>2, <1>7
      <4>2. CASE c \in out
        BY <4>1, <4>2, <1>3
      <4>3. CASE c \notin out
        <5>1. c \notin Dirty
          BY <1>1, <2>1, <3>2, <4>3
        <5>2. Seen[c] = disk[c] /\ disk'[c] = disk[c]
          BY <5>1, <2>1, <4>3, <1>0, <1>3 DEF CleanRight
        <5> QED BY <4>1, <5>2
      <4> QED BY <4>2, <4>3
    <3> QED BY <3>1, <3>2
  <2> QED BY <2>1 DEF CleanRight
<1>12. Dirty' \subseteq Dirty \cup {b}
  BY <1>1
<1>13. DirtyRight'
  <2>1. Dirty' \subseteq FsBlocks \cup (IF Mounted THEN {} ELSE {SB, Jsb})
    BY <1>2, <1>12
  <2> QED BY <2>1 DEF DirtyRight
<1>14. Basics'
  BY <1>1, <1>8, <1>9, <1>10, <1>11, <1>13 DEF Basics
<1> QED BY <1>3, <1>5, <1>6, <1>7, <1>12, <1>14

(* A block that replay edited may be home before the recovery's Flush: it  *)
(* then holds what the log has for it.                                     *)
LEMMA ReplayKeeps ==
  ASSUME IInv, Replay
  PROVE  /\ IInv' /\ disk'[SB].recover
         /\ disk'[Jsb] = disk[Jsb] /\ \A c \in LogBlocks : disk'[c] = disk[c]
         /\ \A c \in Blocks : disk'[c] = disk[c] \/ (Replays(c) /\ disk'[c] = NewOf(c))
         /\ \A c \in Dirty' : Replays(c) /\ Seen'[c] = NewOf(c)
         /\ plan' = <<>> =>
              \A c \in Blocks : Replays(c) => c \in Dirty' \/ disk'[c] = NewOf(c)
<1> DEFINE h == Head(plan)
           b == h.blk
<1>1. /\ pc = "replay" /\ targets' = targets /\ k' = k /\ sb' = sb /\ plan' = Tail(plan)
      /\ IF h.op = "read" THEN Read(b) ELSE Write(b, h.val)
      /\ pc' = IF plan' = <<>> THEN "rflush" ELSE "replay"
  BY DEF Replay
<1>2. /\ CacheOK /\ DiskTyped /\ SeenTyped /\ SeqsPast /\ TargetsRight /\ CleanRight
      /\ DirtyRight /\ FlagsRight /\ ReplayRight /\ sb \in SuperBlocks /\ Basics
  BY <1>1 DEF IInv, Basics
<1>3. plan \in Seq(Replaying) /\ plan # <<>> /\ ResetsLast(plan)
  BY <1>2 DEF ReplayRight, PlanOK
<1>4. /\ h \in Replaying /\ plan' \in Seq(Replaying) /\ ResetsLast(plan')
      /\ \A i \in DOMAIN plan : plan[i] = h \/ \E j \in DOMAIN plan' : plan'[j] = plan[i]
      /\ plan' # <<>> => ~(h.op = "write" /\ b = Jsb)
  <2>1. h = plan[1] /\ Len(plan) \in Nat /\ Len(plan) > 0 /\ h \in Replaying
    BY <1>3
  <2>2. plan' \in Seq(Replaying) /\ Len(plan') = Len(plan) - 1 /\ \A j \in 1 .. Len(plan') : plan'[j] = plan[j + 1]
    BY <1>1, <1>3
  <2>3. ASSUME NEW i \in DOMAIN plan, i # 1 PROVE \E j \in DOMAIN plan' : plan'[j] = plan[i]
    <3>1. i - 1 \in 1 .. Len(plan') /\ (i - 1) + 1 = i
      BY <1>3, <2>1, <2>2, <2>3
    <3> QED BY <2>2, <3>1
  <2>4. DOMAIN plan = 1 .. Len(plan) /\ DOMAIN plan' = 1 .. Len(plan')
    BY <1>3, <2>2
  <2>5. ASSUME NEW j \in DOMAIN plan', plan'[j].op = "write", plan'[j].blk = Jsb
        PROVE  j = Len(plan')
    <3>1. j + 1 \in DOMAIN plan /\ plan'[j] = plan[j + 1]
      BY <2>1, <2>2, <2>4
    <3>2. j + 1 = Len(plan)
      BY <3>1, <2>5, <1>3 DEF ResetsLast
    <3> QED BY <3>2, <2>1, <2>2, <2>4
  <2>6. ASSUME h.op = "write", b = Jsb PROVE plan' = <<>>
    <3>1. 1 \in DOMAIN plan
      BY <2>1, <2>4
    <3>2. 1 = Len(plan)
      BY <3>1, <2>1, <2>6, <1>3 DEF ResetsLast
    <3> QED BY <3>2, <2>2
  <2>7. ResetsLast(plan')
    BY <2>5 DEF ResetsLast
  <2> QED BY <2>1, <2>2, <2>3, <2>6, <2>7
<1>5. Starts => LogWhole
  BY <1>1, <1>2 DEF FlagsRight
<1>6. /\ b \in Blocks /\ h.op \in {"read", "write"}
      /\ h.op = "write" => Replays(b) /\ h.val = NewOf(b) /\ h.val \in Contents
  BY <1>4 DEF Replaying, Accesses
<1>7. h.op = "write" => NewOf(b) \in KindOf(b) /\ (b \in Homes \/ b = Jsb)
  BY <1>2, <1>5, <1>6, NewIsRight
<1> HIDE DEF h
<1>8. /\ \E out : CacheStep(b, out)
      /\ \/ h.op = "read" /\ Seen'[b] = Seen[b] /\ (b \in Dirty' <=> b \in Dirty)
         \/ h.op = "write" /\ Seen'[b] = NewOf(b) /\ b \in Dirty'
  <2>1. CASE h.op = "read"
    <3>1. Read(b)
      BY <1>1, <2>1
    <3> HIDE DEF b
    <3> QED BY <1>2, <1>6, <2>1, <3>1, ReadShows
  <2>2. CASE h.op = "write"
    <3>1. Write(b, h.val)
      BY <1>1, <2>2
    <3>2. (\E out : CacheStep(b, out)) /\ Seen'[b] = h.val /\ b \in Dirty'
      BY <1>2, <1>6, <2>2, <3>1, WriteShows
    <3> QED BY <1>6, <2>2, <3>2
  <2> QED BY <1>6, <2>1, <2>2
<1> HIDE DEF b
<1>9. PICK out : CacheStep(b, out)
  BY <1>8
<1>10. /\ out \subseteq Dirty \ {b} /\ Jsb \notin Dirty
       /\ \A c : c # b => (c \in Dirty' <=> c \in Dirty \ out)
       /\ \A c \in Dirty : Replays(c) /\ Seen[c] = NewOf(c)
  BY <1>2, <1>9 DEF CacheStep, ReplayRight
<1>11. ~Mounted /\ ~Mounted' /\ Resting /\ Resting' /\ pc' # "off"
  BY <1>1 DEF Mounted, Resting, Recovering
<1>12. Seen'[b] \in KindOf(b)
  BY <1>2, <1>6, <1>7, <1>8 DEF SeenTyped
<1>13. b \in Dirty' => b \in FsBlocks \/ b \in {SB, Jsb}
  <2>1. b \in Dirty => b \in FsBlocks \/ b \in {SB, Jsb}
    BY <1>2 DEF DirtyRight
  <2> QED BY <2>1, <1>7, <1>8 DEF Homes
<1>14. /\ Basics' /\ \A c \in Blocks \ out : disk'[c] = disk[c]
       /\ \A c \in out : c \in Dirty /\ disk'[c] = Seen[c]
       /\ disk'[Jsb] = disk[Jsb] /\ \A c \in LogBlocks : disk'[c] = disk[c]
       /\ \A c \in Blocks \ {b} : Seen'[c] = Seen[c]
       /\ Dirty' \subseteq Dirty \cup {b}
  <2>1. b \notin Dirty' => b \notin Dirty /\ Seen'[b] = Seen[b]
    BY <1>8
  <2>2. sb' \in SuperBlocks /\ (Mounted' <=> Mounted) /\ Jsb \notin out
    BY <1>1, <1>2, <1>10, <1>11
  <2> QED BY <1>2, <1>6, <1>9, <1>11, <1>12, <1>13, <2>1, <2>2, AccessKeeps
<1>15. TargetsRight'
  BY <1>1, <1>2, <1>11, TargetsKept
<1>16. Starts' = Starts /\ Seqno' = Seqno /\ (LogWhole => LogWhole')
  BY <1>2, <1>14, LogStays
<1>17. FlagsRight'
  BY <1>1, <1>5, <1>16 DEF FlagsRight, Closed
<1>18. /\ \A c : Replays(c)' <=> Replays(c)
       /\ \A c : Replays(c) => NewOf(c)' = NewOf(c)
       /\ Replaying' = Replaying
  BY <1>2, <1>5, <1>14, NewStays
<1>19. \A c \in Blocks : disk'[c] = disk[c] \/ (Replays(c) /\ disk'[c] = NewOf(c))
  BY <1>10, <1>14
<1>20. disk'[SB].recover
  <2>1. disk[SB].recover
    BY <1>2 DEF ReplayRight
  <2>2. Replays(SB) => NewOf(SB).recover
    BY <1>2, <1>5, NewSuper
  <2> QED BY <2>1, <2>2, <1>19, Geometry
<1>21. ASSUME NEW c \in Blocks, Replays(c)
       PROVE  Pending(c)' \/ c \in Dirty' \/ disk'[c] = NewOf(c)
  <2>1. CASE c \in Dirty
    <3>1. CASE c \in out
      BY <3>1, <1>10, <1>14
    <3>2. CASE c \notin out
      BY <2>1, <3>2, <1>8, <1>10
    <3> QED BY <3>1, <3>2
  <2>2. CASE Pending(c)
    <3>1. PICK i \in DOMAIN plan : plan[i].op = "write" /\ plan[i].blk = c
      BY <2>2 DEF Pending
    <3>2. CASE plan[i] = h
      BY <3>1, <3>2, <1>8 DEF b
    <3>3. CASE \E j \in DOMAIN plan' : plan'[j] = plan[i]
      BY <3>1, <3>3 DEF Pending
    <3> QED BY <1>4, <3>2, <3>3
  <2>3. CASE disk[c] = NewOf(c)
    BY <2>3, <1>19
  <2> QED BY <1>2, <1>21, <2>1, <2>2, <2>3 DEF ReplayRight
<1>22. ASSUME NEW c \in Dirty' PROVE Replays(c) /\ Seen'[c] = NewOf(c)
  <2>1. CASE c = b /\ h.op = "write"
    BY <2>1, <1>6, <1>8
  <2>2. CASE c = b /\ h.op = "read"
    BY <2>2, <1>8, <1>10
  <2>3. CASE c # b
    <3>1. c \in Dirty /\ c \in Blocks
      BY <2>3, <1>2, <1>10, Geometry DEF DirtyRight
    <3> QED BY <3>1, <2>3, <1>10, <1>14
  <2> QED BY <1>6, <2>1, <2>2, <2>3
<1>23. CASE plan' # <<>>
  <2>1. pc' = "replay"
    BY <1>1, <1>23
  <2>2. PlanOK'
    <3>1. plan' \in Seq(Replaying)'
      BY <1>4, <1>18
    <3> QED BY <1>4, <1>23, <3>1 DEF PlanOK
  <2>3. \A c \in Blocks : Replays(c)' => Pending(c)' \/ c \in Dirty' \/ disk'[c] = NewOf(c)'
    BY <1>18, <1>21
  <2>4. \A c \in Dirty' : Replays(c)' /\ Seen'[c] = NewOf(c)'
    BY <1>18, <1>22
  <2>5. Jsb \notin Dirty'
    BY <1>4, <1>6, <1>8, <1>10, <1>23
  <2>6. ReplayRight'
    BY <2>2, <2>3, <2>4, <2>5, <1>20 DEF ReplayRight
  <2>7. IInv'
    BY <2>1, <2>6, <1>14, <1>15, <1>17 DEF IInv, Recovering, Filling, Filled
  <2> QED BY <2>7, <1>14, <1>19, <1>20, <1>22, <1>23
<1>24. CASE plan' = <<>>
  <2>1. pc' = "rflush"
    BY <1>1, <1>24
  <2>2. \A c \in Blocks : Replays(c) => c \in Dirty' \/ disk'[c] = NewOf(c)
    BY <1>21, <1>24 DEF Pending
  <2>3. ~Reset.start /\ Reset.seq >= Seqno /\ Replays(Jsb) /\ NewOf(Jsb) = Reset
    BY <1>2, <1>5, ResetIs
  <2>4. Starts => Jsb \in Dirty'
    BY <2>2, <2>3, <1>14, Geometry DEF Starts
  <2>5. Jsb \in Dirty' => ~Seen'[Jsb].start /\ Seen'[Jsb].seq >= Seqno
    BY <2>3, <1>22
  <2>6. FlushRight'
    BY <2>4, <2>5, <1>16 DEF FlushRight
  <2>7. IInv'
    BY <2>1, <2>6, <1>14, <1>15, <1>17 DEF IInv, Recovering, Filling, Filled
  <2> QED BY <2>2, <2>7, <1>14, <1>19, <1>20, <1>22
<1> QED BY <1>23, <1>24
-------------------------------------------------------------------------------
(* The basics after a step of the mounted volume: after an access to the   *)
(* cache that shows nothing new, after a write past the cache, and after a *)
(* block went home.                                                        *)
LEMMA ShowsSame ==
  ASSUME Basics, CacheOK', disk' = disk, Seen' = Seen, Dirty' = Dirty, sb' = sb,
         Mounted, Mounted'
  PROVE  Basics'
<1>1. DiskTyped' /\ SeqsPast'
  BY DiskSame DEF Basics
<1>2. SeenTyped' /\ sb' \in SuperBlocks
  BY DEF Basics, SeenTyped
<1>3. CleanRight'
  BY DEF Basics, CleanRight
<1>4. DirtyRight'
  BY DEF Basics, DirtyRight, Mounted
<1> QED BY <1>1, <1>2, <1>3, <1>4 DEF Basics

LEMMA PutKeeps ==
  ASSUME Basics, Mounted, Mounted', cache' = cache, recent' = recent, sb' = sb,
         NEW b \in Blocks \ FsBlocks, NEW v \in KindOf(b),
         disk' = [disk EXCEPT ![b] = v],
         b = Jsb => v.seq >= Seqno,
         b \in LogBlocks => (v.type \in {"desc", "commit"} => v.seq <= Seqno)
  PROVE  /\ Basics' /\ Dirty' = Dirty /\ disk'[b] = v
         /\ \A c \in Blocks \ {b} : disk'[c] = disk[c] /\ Seen'[c] = Seen[c]
<1>0. CacheOK /\ DiskTyped /\ SeenTyped /\ SeqsPast /\ CleanRight /\ DirtyRight
  BY DEF Basics
<1>1. v \in Contents
  BY KindsAre
<1>2. DiskTyped' /\ disk'[b] = v /\ \A c \in Blocks \ {b} : disk'[c] = disk[c]
  BY <1>0, <1>1, DiskWrite
<1>3. /\ CacheOK' /\ Dirty' = Dirty
      /\ \A c \in Blocks \ {b} : Seen'[c] = Seen[c]
      /\ Seen'[b] \in {Seen[b], disk'[b]}
  BY <1>0, <1>2, PutShows
<1>4. SeenTyped'
  BY <1>0, <1>2, <1>3 DEF SeenTyped
<1>5. SeqsPast'
  <2>1. Seqno' >= Seqno /\ Seqno \in Nat /\ Seqno' \in Nat
    <3>1. Seqno \in Nat /\ Seqno' \in Nat
      BY <1>0, <1>2, Geometry DEF DiskTyped, KindOf, Headers, Seqno
    <3>2. CASE b = Jsb
      BY <3>1, <3>2, <1>2 DEF Seqno
    <3>3. CASE b # Jsb
      BY <3>1, <3>3, <1>2, Geometry DEF Seqno
    <3> QED BY <3>1, <3>2, <3>3
  <2>2. ASSUME NEW c \in LogBlocks, disk'[c].type \in {"desc", "commit"}
        PROVE  disk'[c].seq <= Seqno'
    <3>0. c \in Blocks /\ c # Jsb
      BY Regions DEF LogBlocks
    <3>1. CASE c = b
      <4>1. Seqno' = Seqno
        BY <3>0, <3>1, <1>2, Geometry DEF Seqno
      <4> QED BY <3>1, <4>1, <1>2, <2>2
    <3>2. CASE c # b
      <4>1. disk'[c] = disk[c]
        BY <3>0, <3>2, <1>2
      <4>2. disk[c].seq <= Seqno
        BY <4>1, <2>2, <1>0 DEF SeqsPast
      <4>3. disk[c].seq \in Nat
        <5>1. disk[c] \in LogContents
          BY <3>0, <1>0, KindsAre DEF DiskTyped
        <5> QED BY <5>1, <4>1, <2>2 DEF LogContents, FsContents, SuperBlocks, Torn
      <4> QED BY <4>1, <4>2, <4>3, <2>1
    <3> QED BY <3>1, <3>2
  <2> QED BY <2>2 DEF SeqsPast
<1>6. CleanRight'
  BY <1>0, <1>2, <1>3, Geometry DEF CleanRight
<1>7. DirtyRight'
  BY <1>0, <1>3 DEF DirtyRight, Mounted
<1> QED BY <1>2, <1>3, <1>4, <1>5, <1>6, <1>7 DEF Basics

(* A dirty block goes home.                                                *)
LEMMA HomeKeeps ==
  ASSUME Basics, FlushStep, sb' = sb, Mounted <=> Mounted',
         pc # "off", pc' # "off",
         Mounted \/ FlushRight
  PROVE  \E b \in Dirty :
           /\ Basics' /\ Seen' = Seen /\ Dirty' = Dirty \ {b}
           /\ disk' = [disk EXCEPT ![b] = Seen[b]]
           /\ b \in FsBlocks \/ (~Mounted /\ b \in {SB, Jsb})
           /\ disk'[b] = Seen[b] /\ \A c \in Blocks \ {b} : disk'[c] = disk[c]
           /\ b = cache[FirstDirty].tag
<1>0. CacheOK /\ DiskTyped /\ SeenTyped /\ SeqsPast /\ CleanRight /\ DirtyRight
  BY DEF Basics
<1>1. PICK b : b = cache[FirstDirty].tag
  OBVIOUS
<1>2. /\ CacheOK' /\ Seen' = Seen /\ b \in Dirty
      /\ disk' = [disk EXCEPT ![b] = Seen[b]] /\ Dirty' = Dirty \ {b}
  BY <1>0, <1>1, FlushShows DEF DiskTyped
<1>3. b \in FsBlocks \/ (~Mounted /\ b \in {SB, Jsb})
  BY <1>0, <1>2 DEF DirtyRight
<1>4. b \in Blocks /\ b \notin LogBlocks
  BY <1>3, Geometry, Regions
<1>5. Seen[b] \in KindOf(b) /\ Seen[b] \in Contents
  BY <1>0, <1>4, KindsAre DEF SeenTyped
<1>6. DiskTyped' /\ disk'[b] = Seen[b] /\ \A c \in Blocks \ {b} : disk'[c] = disk[c]
  BY <1>0, <1>2, <1>4, <1>5, DiskWrite
<1>7. SeenTyped'
  BY <1>0, <1>2 DEF SeenTyped
<1>8. SeqsPast'
  <2>1. Seqno' >= Seqno /\ Seqno \in Nat /\ Seqno' \in Nat
    <3>1. Seqno \in Nat /\ Seqno' \in Nat
      BY <1>0, <1>6, Geometry DEF DiskTyped, KindOf, Headers, Seqno
    <3>2. CASE b = Jsb
      <4>1. Seen[Jsb].seq >= Seqno
        BY <3>2, <1>2, <1>3, Geometry DEF FlushRight
      <4> QED BY <3>1, <3>2, <4>1, <1>6 DEF Seqno
    <3>3. CASE b # Jsb
      BY <3>1, <3>3, <1>6, Geometry DEF Seqno
    <3> QED BY <3>1, <3>2, <3>3
  <2>2. ASSUME NEW c \in LogBlocks, disk'[c].type \in {"desc", "commit"}
        PROVE  disk'[c].seq <= Seqno'
    <3>0. c \in Blocks /\ c # b
      BY <1>4 DEF LogBlocks
    <3>1. disk'[c] = disk[c]
      BY <3>0, <1>6
    <3>2. disk[c].seq <= Seqno
      BY <3>1, <2>2, <1>0 DEF SeqsPast
    <3>3. disk[c].seq \in Nat
      <4>1. disk[c] \in LogContents
        BY <3>0, <1>0, KindsAre DEF DiskTyped
      <4> QED BY <4>1, <3>1, <2>2 DEF LogContents, FsContents, SuperBlocks, Torn
    <3> QED BY <3>1, <3>2, <3>3, <2>1
  <2> QED BY <2>2 DEF SeqsPast
<1>9. CleanRight'
  <2>1. ASSUME NEW c \in Blocks \ Dirty', c \in FsBlocks \/ ~Mounted
        PROVE  Seen'[c] = disk'[c]
    <3>1. CASE c = b
      BY <3>1, <1>2, <1>6
    <3>2. CASE c # b
      BY <3>2, <2>1, <1>0, <1>2, <1>6 DEF CleanRight
    <3> QED BY <3>1, <3>2
  <2> QED BY <2>1 DEF CleanRight
<1>10. DirtyRight'
  BY <1>0, <1>2 DEF DirtyRight
<1>11. Basics'
  BY <1>2, <1>6, <1>7, <1>8, <1>9, <1>10 DEF Basics
<1> QED BY <1>1, <1>2, <1>3, <1>6, <1>11
-------------------------------------------------------------------------------
LEMMA ReplayFlushKeeps ==
  ASSUME IInv, ReplayFlush
  PROVE  IInv'
<1>1. /\ pc = "rflush" /\ pc' = "rflush" /\ FlushStep /\ sb' = sb
      /\ targets' = targets /\ k' = k /\ plan' = plan
  BY DEF ReplayFlush
<1>2. Basics /\ TargetsRight /\ FlagsRight /\ FlushRight
  BY <1>1 DEF IInv
<1>3. PICK b \in Dirty :
           /\ Basics' /\ Seen' = Seen /\ Dirty' = Dirty \ {b}
           /\ b \in FsBlocks \/ (~Mounted /\ b \in {SB, Jsb})
           /\ disk'[b] = Seen[b] /\ \A c \in Blocks \ {b} : disk'[c] = disk[c]
  BY <1>1, <1>2, HomeKeeps DEF Mounted
<1>4. TargetsRight'
  BY <1>1, <1>2, TargetsKept DEF Resting, Recovering
<1>5. CASE b = Jsb
  <2>1. ~Starts'
    BY <1>2, <1>3, <1>5 DEF FlushRight, Starts
  <2>2. FlagsRight' /\ FlushRight'
    BY <1>1, <1>3, <1>5, <2>1 DEF FlagsRight, FlushRight, Closed
  <2> QED BY <1>1, <1>3, <1>4, <2>2 DEF IInv, Recovering, Filling, Filled
<1>6. CASE b # Jsb
  <2>1. b \notin LogBlocks
    BY <1>3, <1>6, Geometry, Regions
  <2>2. disk'[Jsb] = disk[Jsb] /\ \A c \in LogBlocks : disk'[c] = disk[c]
    BY <1>3, <1>6, <2>1, Geometry DEF LogBlocks
  <2>3. Starts' = Starts /\ Seqno' = Seqno /\ (LogWhole => LogWhole')
    BY <1>2, <2>2, LogStays DEF Basics
  <2>4. FlagsRight'
    BY <1>1, <1>2, <2>3 DEF FlagsRight, Closed
  <2>5. FlushRight'
    BY <1>2, <1>3, <1>6, <2>3 DEF FlushRight
  <2> QED BY <1>1, <1>3, <1>4, <2>4, <2>5 DEF IInv, Recovering, Filling, Filled
<1> QED BY <1>5, <1>6

LEMMA RereadKeeps ==
  ASSUME IInv, Reread
  PROVE  IInv'
<1>1. /\ pc = "rflush" /\ pc' = "idle" /\ AllClean /\ sb' = disk[SB]
      /\ UNCHANGED cachevars /\ targets' = targets /\ k' = k
  BY DEF Reread
<1>2. Basics /\ TargetsRight /\ FlagsRight /\ FlushRight
  BY <1>1 DEF IInv
<1>3. Dirty = {} /\ CacheOK' /\ disk' = disk /\ Seen' = Seen /\ Dirty' = Dirty
  BY <1>1, <1>2, DirtyIs, CacheStays DEF Basics
<1>4. DiskTyped' /\ SeqsPast' /\ Starts' = Starts /\ SeenTyped'
  BY <1>2, <1>3, DiskSame DEF Basics, SeenTyped
<1>5. sb' \in SuperBlocks
  BY <1>1, <1>2, DiskIs DEF Basics
<1>6. CleanRight' /\ DirtyRight'
  BY <1>1, <1>2, <1>3 DEF Basics, CleanRight, DirtyRight, Mounted
<1>7. Basics'
  BY <1>3, <1>4, <1>5, <1>6 DEF Basics
<1>8. ~Starts
  BY <1>2, <1>3 DEF FlushRight
<1>9. FlagsRight'
  BY <1>1, <1>4, <1>8 DEF FlagsRight, Closed
<1>10. TargetsRight'
  BY <1>1, <1>2, TargetsKept DEF Resting, Recovering
<1> QED BY <1>1, <1>7, <1>9, <1>10 DEF IInv, Closed, Filling, Filled

(* A read of a file-system block by the mounted volume shows nothing new   *)
(* and at most cleans a block.                                             *)
ReadsOnly ==
  /\ Basics' /\ Dirty' \subseteq Dirty
  /\ disk'[SB] = disk[SB] /\ disk'[Jsb] = disk[Jsb]
  /\ \A c \in LogBlocks : disk'[c] = disk[c]
  /\ \A c \in FsBlocks : Seen'[c] = Seen[c]

LEMMA ReadKeeps ==
  ASSUME Basics, NEW b \in FsBlocks, Read(b), Mounted, Mounted', sb' = sb
  PROVE  ReadsOnly
<1>1. /\ CacheOK /\ DiskTyped /\ SeenTyped /\ DirtyRight /\ sb \in SuperBlocks /\ b \in Blocks
  BY Geometry DEF Basics
<1>2. PICK out : CacheStep(b, out)
  BY <1>1, ReadShows
<1>3. Seen'[b] = Seen[b] /\ (b \in Dirty' <=> b \in Dirty)
  BY <1>1, ReadShows
<1>4. Jsb \notin out
  BY <1>1, <1>2, Geometry DEF CacheStep, DirtyRight
<1>5. Seen'[b] \in KindOf(b) /\ pc' # "off"
  BY <1>1, <1>3 DEF SeenTyped, Mounted
<1>6. /\ Basics' /\ disk'[Jsb] = disk[Jsb] /\ \A c \in LogBlocks : disk'[c] = disk[c]
      /\ disk'[SB] = disk[SB]
      /\ \A c \in Blocks \ {b} : c \in FsBlocks \/ ~Mounted => Seen'[c] = Seen[c]
      /\ Dirty' \subseteq Dirty \cup {b}
  BY <1>1, <1>2, <1>3, <1>4, <1>5, AccessKeeps
<1>7. Dirty' \subseteq Dirty
  BY <1>3, <1>6
<1>8. \A c \in FsBlocks : Seen'[c] = Seen[c]
  BY <1>3, <1>6, Geometry
<1> QED BY <1>6, <1>7, <1>8 DEF ReadsOnly

LEMMA ReadsKeepMarks ==
  ASSUME ReadsOnly
  PROVE  Starts' = Starts /\ Seqno' = Seqno /\ LogLen' = LogLen
BY DEF ReadsOnly, Starts, Seqno, LogLen

LEMMA LookKeeps ==
  ASSUME IInv, NEW b \in FsBlocks, Look(b)
  PROVE  IInv'
<1>1. /\ pc = "idle" /\ pc' = "idle" /\ Read(b) /\ sb' = sb
      /\ targets' = targets /\ k' = k
  BY DEF Look
<1>2. Basics /\ TargetsRight /\ FlagsRight
  BY DEF IInv
<1>3. ReadsOnly
  BY <1>1, <1>2, ReadKeeps DEF Mounted
<1>4. FlagsRight'
  BY <1>1, <1>2, <1>3, ReadsKeepMarks DEF FlagsRight, Closed, ReadsOnly
<1>5. TargetsRight'
  BY <1>1, <1>2, TargetsKept DEF Resting, Recovering
<1> QED BY <1>1, <1>3, <1>4, <1>5 DEF IInv, Closed, Filling, Filled, ReadsOnly

LEMMA EditKeeps ==
  ASSUME IInv, NEW b \in FsBlocks, NEW v \in Values, NEW n \in Counts, Edit(b, v, n)
  PROVE  /\ IInv' /\ disk'[SB] = disk[SB] /\ disk'[Jsb] = disk[Jsb]
         /\ \A c \in LogBlocks : disk'[c] = disk[c]
         /\ \A c \in FsBlocks : Seen'[c] = IF c = b THEN Data(v) ELSE Seen[c]
<1>1. /\ pc = "idle" /\ pc' = "idle" /\ Write(b, Data(v)) /\ sb' = [sb EXCEPT !.free = n]
      /\ targets' = targets /\ k' = k
  BY DEF Edit
<1>2. /\ Basics /\ TargetsRight /\ FlagsRight /\ CacheOK /\ DiskTyped /\ DirtyRight
      /\ Mounted /\ Mounted' /\ pc' # "off" /\ b \in Blocks
  BY <1>1, Geometry DEF IInv, Basics, Mounted
<1>3. Data(v) \in FsContents /\ Data(v) \in Contents
  BY DEF Data, FsContents, Contents, LogContents
<1>4. PICK out : CacheStep(b, out)
  BY <1>1, <1>2, <1>3, WriteShows
<1>5. Seen'[b] = Data(v) /\ b \in Dirty'
  BY <1>1, <1>2, <1>3, WriteShows
<1>6. sb' \in SuperBlocks /\ sb'.recover = sb.recover
  BY <1>1, <1>2 DEF Basics, SuperBlocks
<1>7. Jsb \notin out
  BY <1>2, <1>4, Geometry DEF CacheStep, DirtyRight
<1>8. Seen'[b] \in KindOf(b)
  BY <1>2, <1>3, <1>5, KindsAre
<1>9. /\ Basics' /\ disk'[Jsb] = disk[Jsb] /\ \A c \in LogBlocks : disk'[c] = disk[c]
      /\ disk'[SB] = disk[SB]
      /\ \A c \in Blocks \ {b} : c \in FsBlocks \/ ~Mounted => Seen'[c] = Seen[c]
  BY <1>2, <1>4, <1>5, <1>6, <1>7, <1>8, AccessKeeps
<1>10. \A c \in FsBlocks : Seen'[c] = IF c = b THEN Data(v) ELSE Seen[c]
  BY <1>5, <1>9, Geometry
<1>11. FlagsRight'
  BY <1>1, <1>2, <1>6, <1>9 DEF FlagsRight, Closed, Starts
<1>12. TargetsRight'
  BY <1>1, <1>2, TargetsKept DEF Resting, Recovering
<1>13. IInv'
  BY <1>1, <1>9, <1>11, <1>12 DEF IInv, Closed, Filling, Filled
<1> QED BY <1>9, <1>10, <1>13

(* Dirty_Tags: every dirty block, and no more than there are slots.        *)
LEMMA DirtyTagsAre ==
  ASSUME CacheOK, Dirty \subseteq FsBlocks
  PROVE  /\ DirtyTags \in Seq(FsBlocks) /\ Len(DirtyTags) <= CacheBlocks
         /\ \A b \in Dirty : Lists(DirtyTags, b)
<1> DEFINE n == Len(cache)
           Do(f, e) == IF cache[e].dirty THEN Append(f, cache[e].tag) ELSE f
           Eq(m, g) == g = [e \in 0 .. m |-> IF e = 0 THEN <<>> ELSE Do(g[e - 1], e)]
           s == CHOOSE g : Eq(n, g)
           Right(m, f) ==
             /\ f \in Seq(FsBlocks) /\ Len(f) <= m
             /\ \A e \in 1 .. m : cache[e].dirty => \E i \in DOMAIN f : f[i] = cache[e].tag
<1>1. n \in Nat /\ DOMAIN cache = 1 .. n
  BY CacheIs
<1>2. Eq(n, s)
  <2> DEFINE T == {m \in 0 .. n : \E g : Eq(m, g)}
  <2>1. 0 \in T
    <3> DEFINE g == [e \in 0 .. 0 |-> <<>>]
    <3>1. Eq(0, g)
      OBVIOUS
    <3> HIDE DEF Eq, g, n
    <3> QED BY <3>1, <1>1
  <2>2. ASSUME NEW m \in 0 .. n - 1, m \in T PROVE m + 1 \in T
    <3>1. PICK g : Eq(m, g)
      BY <2>2
    <3> DEFINE h == [e \in 0 .. m + 1 |-> IF e = m + 1 THEN Do(g[m], m + 1) ELSE g[e]]
    <3>2. Eq(m + 1, h)
      <4> HIDE DEF n, Do
      <4> QED BY <3>1, <1>1
    <3> HIDE DEF Eq, h, n
    <3> QED BY <3>2, <1>1
  <2>3. n \in T
    <3> HIDE DEF T, n
    <3>1. 0 .. n \subseteq T
      BY <1>1, <2>1, <2>2, UpTo
    <3> QED BY <1>1, <3>1
  <2> HIDE DEF Eq, n
  <2> QED BY <2>3
<1>3. DirtyTags = s[n]
  BY Zenon DEF DirtyTags
<1>4. Right(n, s[n])
  <2> DEFINE T == {m \in 0 .. n : Right(m, s[m])}
  <2>1. 0 \in T
    <3>1. s[0] = <<>>
      <4> HIDE DEF s, n
      <4> QED BY <1>1, <1>2
    <3>2. Right(0, <<>>)
      OBVIOUS
    <3> HIDE DEF Right, s, n
    <3> QED BY <1>1, <3>1, <3>2
  <2>2. ASSUME NEW m \in 0 .. n - 1, m \in T PROVE m + 1 \in T
    <3> DEFINE e == m + 1
               f == s[m]
    <3>0. e \in 1 .. n /\ e \in 0 .. n /\ e # 0 /\ s[e - 1] = f
      <4> HIDE DEF s, n
      <4> QED BY <1>1
    <3>1. s[e] = Do(f, e)
      <4> HIDE DEF s, n, e, f, Do
      <4> QED BY <1>2, <3>0
    <3>2. Right(m, f)
      BY <2>2
    <3>7. \A d : d \in 1 .. e <=> d \in 1 .. m \/ d = e
      <4> HIDE DEF n
      <4> QED BY <1>1
    <3>8. m <= e /\ m \in Int /\ e = m + 1
      OBVIOUS
    <3> HIDE DEF s, f
    <3>3. Right(e, Do(f, e))
      <4>1. CASE ~cache[e].dirty
        <5>1. Do(f, e) = f
          BY <4>1
        <5>2. Right(e, f)
          <6> HIDE DEF e
          <6>1. Len(f) \in Int /\ Len(f) <= m
            BY <3>2
          <6>2. Len(f) <= e
            BY <3>8, <6>1
          <6> QED BY <3>2, <3>7, <4>1, <6>2
        <5> HIDE DEF Right
        <5> QED BY <5>1, <5>2
      <4>2. CASE cache[e].dirty
        <5> DEFINE t == cache[e].tag
                   h == Append(f, t)
        <5>1. e \in DOMAIN cache
          BY <1>1, <3>0
        <5>2. t \in FsBlocks
          BY <4>2, <5>1, DirtyIs
        <5> HIDE DEF t, e
        <5>4. f \in Seq(FsBlocks) /\ Len(f) <= m
          BY <3>2
        <5>5. /\ h \in Seq(FsBlocks) /\ Len(h) = Len(f) + 1 /\ h[Len(f) + 1] = t
              /\ DOMAIN h = DOMAIN f \cup {Len(f) + 1} /\ Len(f) \in Nat
              /\ DOMAIN f = 1 .. Len(f)
              /\ \A i \in DOMAIN f : h[i] = f[i]
          BY <5>2, <5>4
        <5> HIDE DEF h
        <5>6. Len(h) <= e
          BY <3>8, <5>4, <5>5
        <5>7. \A d \in 1 .. e : cache[d].dirty => \E i \in DOMAIN h : h[i] = cache[d].tag
          BY <3>2, <3>7, <5>5 DEF t
        <5>9. Right(e, h)
          BY <5>5, <5>6, <5>7
        <5>10. Do(f, e) = h
          BY <4>2 DEF h, t
        <5> HIDE DEF Right
        <5> QED BY <5>9, <5>10
      <4> QED BY <4>1, <4>2
    <3> HIDE DEF Right, n, Do
    <3> QED BY <3>0, <3>1, <3>3
  <2>3. 0 .. n \subseteq T
    <3> HIDE DEF T, n
    <3> QED BY <1>1, <2>1, <2>2, UpTo
  <2> HIDE DEF Right, n, s
  <2> QED BY <1>1, <2>3
<1> HIDE DEF s, n
<1>5. PICK f : f = DirtyTags
  OBVIOUS
<1>6. Right(n, f)
  BY <1>3, <1>4, <1>5
<1>7. \A b \in Dirty : Lists(f, b)
  BY <1>1, <1>6, DirtyIs DEF Lists
<1>8. Len(f) <= CacheBlocks
  <2>1. Len(f) \in Int /\ Len(f) <= n /\ n \in Int /\ n <= CacheBlocks /\ CacheBlocks \in Int
    BY <1>1, <1>6, CacheIs, Room
  <2> HIDE DEF n
  <2> QED BY <2>1
<1> QED BY <1>5, <1>6, <1>7, <1>8

(* The images in the log are of what is seen.                              *)
LEMMA ImageSame ==
  ASSUME sb' = sb, \A c \in FsBlocks : Seen'[c] = Seen[c]
  PROVE  \A c \in Homes : Image(c)' = Image(c)
BY DEF Image, Homes

LEMMA ImageTyped ==
  ASSUME Basics, NEW c \in Homes
  PROVE  /\ Image(c) \in KindOf(c) /\ Image(c) \in LogContents /\ c \in Blocks /\ c # Jsb
         /\ Image(c).type \notin {"desc", "commit"}
<1>1. CASE c = SB
  <2>1. Image(c) \in SuperBlocks
    BY <1>1 DEF Image, Basics, SuperBlock, SuperBlocks
  <2> QED BY <1>1, <2>1, Geometry, KindsAre DEF LogContents, SuperBlocks
<1>2. CASE c # SB
  <2>1. c \in FsBlocks /\ c \in Blocks
    BY <1>2, Geometry DEF Homes
  <2>2. Image(c) \in FsContents
    BY <1>2, <2>1, KindsAre DEF Image, Basics, SeenTyped
  <2> QED BY <2>1, <2>2, Geometry, KindsAre DEF LogContents, FsContents, Torn
<1> QED BY <1>1, <1>2

LEMMA CommitBeginKeeps ==
  ASSUME IInv, CommitBegin
  PROVE  IInv'
<1>1. /\ pc = "idle" /\ pc' = "inode" /\ disk[Jsb].seq < MaxSeq
      /\ targets' = Append(Gathered, SB) /\ UNCHANGED cachevars /\ sb' = sb /\ k' = k
  BY DEF CommitBegin
<1>2. Basics /\ TargetsRight /\ FlagsRight
  BY DEF IInv
<1>3. CacheOK' /\ disk' = disk /\ Seen' = Seen /\ Dirty' = Dirty
  BY <1>1, <1>2, CacheStays DEF Basics
<1>4. Basics'
  BY <1>1, <1>2, <1>3, ShowsSame DEF Mounted
<1>5. Starts' = Starts /\ Seqno' = Seqno
  BY <1>3, DiskSame
<1>6. FlagsRight'
  BY <1>1, <1>2, <1>3, <1>5 DEF FlagsRight, Closed
<1>7. /\ DirtyTags \in Seq(FsBlocks) /\ Len(DirtyTags) <= CacheBlocks
      /\ \A b \in Dirty : Lists(DirtyTags, b)
  <2>1. Dirty \subseteq FsBlocks
    BY <1>1, <1>2 DEF Basics, DirtyRight, Mounted
  <2> QED BY <1>2, <2>1, DirtyTagsAre DEF Basics
<1>8. PICK g : g = Gathered
  OBVIOUS
<1>9. g \in Seq(FsBlocks) /\ (SetHoldsAll => \A b \in Dirty : Lists(g, b))
  <2>1. MaxWS \in Nat /\ CacheBlocks \in Nat /\ Len(DirtyTags) \in Nat
    BY <1>7, Geometry, Room
  <2>2. CASE Len(DirtyTags) < MaxWS
    BY <1>7, <1>8, <2>2 DEF Gathered
  <2>3. CASE ~(Len(DirtyTags) < MaxWS)
    <3>1. g = SubSeq(DirtyTags, 1, MaxWS - 1)
      BY <1>8, <2>3 DEF Gathered
    <3>2. g \in Seq(FsBlocks)
      BY <1>7, <2>1, <2>3, <3>1
    <3> QED BY <1>7, <2>1, <2>3, <3>2 DEF SetHoldsAll
  <2> QED BY <2>2, <2>3
<1>10. PICK t : t = Append(g, SB)
  OBVIOUS
<1>11. /\ t \in Seq(Homes) /\ Len(t) = Len(g) + 1 /\ Len(g) \in Nat /\ t[Len(t)] = SB
       /\ \A i \in 1 .. Len(g) : t[i] = g[i]
  <2>1. g \in Seq(Homes) /\ SB \in Homes
    BY <1>9 DEF Homes
  <2> QED BY <1>10, <2>1
<1>12. targets' = t
  BY <1>1, <1>8, <1>10
<1>13. SetHoldsAll => \A b \in Dirty : \E i \in 1 .. Len(t) : t[i] = b
  <2>1. ASSUME NEW b \in Dirty, Lists(g, b) PROVE \E i \in 1 .. Len(t) : t[i] = b
    <3>1. PICK i \in 1 .. Len(g) : g[i] = b
      BY <2>1, <1>9 DEF Lists
    <3> QED BY <3>1, <1>11
  <2> QED BY <1>9, <2>1
<1>14. TargetsRight'
  <2>1. k = 0
    BY <1>1, <1>2 DEF TargetsRight, Resting
  <2>2. Seqno' < MaxSeq
    BY <1>1, <1>5 DEF Seqno
  <2>3. N' = Len(t)
    BY <1>12 DEF N
  <2>4. Len(t) \in 1 .. Len(t)
    BY <1>11
  <2> QED BY <1>1, <1>3, <1>11, <1>12, <1>13, <2>1, <2>2, <2>3, <2>4
          DEF TargetsRight, Committing, Filling, Filled, Resting, Recovering
<1> QED BY <1>1, <1>4, <1>6, <1>14 DEF IInv, Closed, Filling, Filled

LEMMA ReadJournalKeeps ==
  ASSUME IInv, ReadJournal
  PROVE  IInv'
<1>1. pc = "inode" /\ Read(JournalInode) /\ sb' = sb
  BY DEF ReadJournal
<1>2. Basics /\ TargetsRight /\ FlagsRight
  BY DEF IInv
<1>3. sb' = sb /\ Mounted /\ Mounted'
  BY <1>1 DEF ReadJournal, Mounted
<1>7. ReadsOnly
  BY <1>1, <1>2, <1>3, Geometry, ReadKeeps
<1>4. Starts' = Starts /\ Seqno' = Seqno /\ LogLen' = LogLen
  BY <1>7, ReadsKeepMarks
<1>8. Basics' /\ Dirty' \subseteq Dirty /\ disk'[SB] = disk[SB]
  BY <1>7 DEF ReadsOnly
<1>5. CASE Fits
  <2>1. pc' = "desc" /\ k' = 1 /\ targets' = targets
    BY <1>5 DEF ReadJournal
  <2>3. FlagsRight'
    BY <1>1, <1>2, <1>8, <1>4, <2>1 DEF FlagsRight, Closed
  <2>4. N' = N /\ N \in Nat
    BY <1>2, <2>1 DEF N, TargetsRight
  <2>5. N + 2 <= LogLen
    BY <1>5 DEF Fits
  <2>6. TargetsRight'
    BY <1>1, <1>2, <1>8, <1>4, <2>1, <2>4, <2>5
       DEF TargetsRight, Committing, Filling, Filled, Resting, Recovering
  <2>7. LogSoFar'
    BY <2>1, <2>4 DEF LogSoFar, Filled
  <2> QED BY <2>1, <1>8, <2>3, <2>6, <2>7 DEF IInv, Closed
<1>6. CASE ~Fits
  <2>1. pc' = "idle" /\ k' = 0 /\ targets' = <<>>
    BY <1>6 DEF ReadJournal
  <2>3. FlagsRight'
    BY <1>1, <1>2, <1>8, <1>4, <2>1 DEF FlagsRight, Closed
  <2>4. TargetsRight'
    BY <2>1 DEF TargetsRight, N, Committing, Filling, Filled, Resting, Recovering
  <2> QED BY <2>1, <1>8, <2>3, <2>4 DEF IInv, Closed, Filling, Filled
<1> QED BY <1>5, <1>6

(* The target that comes next.                                             *)
LEMMA TargetIs ==
  ASSUME TargetsRight, k \in 1 .. N
  PROVE  targets[k] \in Homes /\ targets[k] \in Blocks
<1>1. targets \in Seq(Homes) /\ N = Len(targets)
  BY DEF TargetsRight, N
<1>2. targets[k] \in Homes
  BY <1>1
<1> QED BY <1>2, Geometry DEF Homes

LEMMA ReadTargetKeeps ==
  ASSUME Basics, TargetsRight, k \in 1 .. N, ReadTarget, Mounted, Mounted', sb' = sb
  PROVE  ReadsOnly
<1>1. CASE targets[k] = SB
  <2>1. UNCHANGED cachevars
    BY <1>1 DEF ReadTarget
  <2>2. CacheOK' /\ disk' = disk /\ Seen' = Seen /\ Dirty' = Dirty
    BY <2>1, CacheStays DEF Basics
  <2>3. Basics'
    BY <2>2, ShowsSame
  <2> QED BY <2>2, <2>3 DEF ReadsOnly
<1>2. CASE targets[k] # SB
  <2>1. PICK t \in FsBlocks : t = targets[k]
    BY <1>2, TargetIs DEF Homes
  <2>2. Read(t)
    BY <1>2, <2>1 DEF ReadTarget
  <2> QED BY <2>2, ReadKeeps
<1> QED BY <1>1, <1>2

(* What stays of the invariant over a step of the loop over the targets.   *)
LEMMA FillGoesOn ==
  ASSUME IInv, Filling, Filling', ReadsOnly,
         sb' = sb, targets' = targets, k' \in k .. N + 1,
         pc' = "copy" => k' <= N,
         pc' = "desc" <=> pc = "desc",
         pc # "desc" => k' = k
  PROVE  IInv'
<1>1. Basics /\ TargetsRight /\ FlagsRight /\ LogSoFar
  BY DEF IInv
<1>2. Basics' /\ disk'[SB] = disk[SB] /\ Dirty' \subseteq Dirty
  BY DEF ReadsOnly
<1>3. Starts' = Starts /\ Seqno' = Seqno /\ LogLen' = LogLen
  BY ReadsKeepMarks
<1>4. FlagsRight'
  BY <1>1, <1>2, <1>3 DEF FlagsRight, Closed, Filling
<1>5. N' = N /\ N \in Nat /\ k \in 1 .. N + 1 /\ k' \in 1 .. N + 1
  BY <1>1 DEF N, TargetsRight, LogSoFar
<1>6. TargetsRight'
  <2>1. ~Resting'
    BY DEF Resting, Recovering, Filling
  <2>2. Committing /\ Committing'
    BY DEF Committing
  <2>3. k' \in 0 .. N' + 1
    BY <1>5
  <2> QED BY <1>1, <1>2, <1>3, <1>5, <2>1, <2>2, <2>3 DEF TargetsRight
<1>7. LogSoFar'
  <2>1. ~Filled /\ ~Filled'
    BY DEF Filling, Filled
  <2>2. CASE pc = "desc"
    BY <1>5, <2>1, <2>2 DEF LogSoFar
  <2>3. CASE pc # "desc"
    <3>1. pc' # "desc" /\ k' = k
      BY <2>3
    <3>2. \A i \in 1 .. k - 1 : targets[i] \in Homes
      BY <1>1, <1>5 DEF TargetsRight, N
    <3>3. \A c \in Homes : Image(c)' = Image(c)
      BY ImageSame DEF ReadsOnly
    <3>7. \A i \in 0 .. k - 1 : disk'[Log(i)] = disk[Log(i)]
      <4>1. N + 2 <= LogLen /\ LogLen \in LogLens /\ LogLen \in Nat
        BY <1>1, DiskIs DEF TargetsRight, Basics
      <4>2. \A i \in 0 .. k - 1 : i \in 0 .. LogLen - 1
        BY <1>5, <4>1
      <4> QED BY <4>1, <4>2, LogAt DEF ReadsOnly
    <3>8. \A i \in 1 .. k - 1 : i \in 0 .. k - 1
      BY <1>5
    <3>9. 0 \in 0 .. k - 1
      BY <1>5
    <3>4. \A i \in 1 .. k - 1 : disk'[Log(i)] = Image(targets[i])'
      BY <1>1, <2>3, <3>2, <3>3, <3>7, <3>8 DEF LogSoFar
    <3>5. disk'[Log(0)] = Descriptor(Seqno', targets')
      BY <1>1, <1>3, <2>3, <3>7, <3>9 DEF LogSoFar
    <3>6. \A i \in 1 .. k' - 1 : disk'[Log(i)] = Image(targets[i])'
      BY <3>1, <3>4
    <3> QED BY <1>5, <2>1, <3>1, <3>5, <3>6 DEF LogSoFar
  <2> QED BY <2>2, <2>3
<1> QED BY <1>2, <1>4, <1>6, <1>7 DEF IInv, Closed, Filling, Filled

LEMMA TagKeeps ==
  ASSUME IInv, Tag
  PROVE  IInv'
<1>1. /\ pc = "desc" /\ pc' = "desc" /\ k <= N /\ ReadTarget /\ k' = k + 1
      /\ sb' = sb /\ targets' = targets
  BY DEF Tag, Next_k
<1>2. Basics /\ TargetsRight /\ LogSoFar /\ Filling /\ Filling'
  BY <1>1 DEF IInv, Filling
<1>3. N \in Nat /\ k \in 1 .. N
  BY <1>1, <1>2 DEF LogSoFar, TargetsRight, N
<1>4. ReadsOnly
  BY <1>1, <1>2, <1>3, ReadTargetKeeps DEF Mounted
<1>5. k' \in k .. N + 1
  BY <1>1, <1>3
<1> QED BY <1>1, <1>2, <1>4, <1>5, FillGoesOn

LEMMA FetchKeeps ==
  ASSUME IInv, Fetch
  PROVE  IInv'
<1>1. /\ pc = "data" /\ pc' = "copy" /\ k <= N /\ ReadTarget /\ k' = k
      /\ sb' = sb /\ targets' = targets
  BY DEF Fetch
<1>2. Basics /\ TargetsRight /\ LogSoFar /\ Filling /\ Filling'
  BY <1>1 DEF IInv, Filling
<1>3. N \in Nat /\ k \in 1 .. N
  BY <1>1, <1>2 DEF LogSoFar, TargetsRight, N
<1>4. ReadsOnly
  BY <1>1, <1>2, <1>3, ReadTargetKeeps DEF Mounted
<1>5. k' \in k .. N + 1 /\ k' <= N
  BY <1>1, <1>3
<1> QED BY <1>1, <1>2, <1>4, <1>5, FillGoesOn
-------------------------------------------------------------------------------
(* The writes past the cache.                                              *)
LEMMA NextWriteIs ==
  /\ pc = "desc" => NextWrite.blk = Log(0) /\ NextWrite.val = Descriptor(Seqno, targets)
  /\ pc = "copy" => NextWrite.blk = Log(k) /\ NextWrite.val = Logged(targets[k])
  /\ pc = "data" => NextWrite.blk = Log(N + 1) /\ NextWrite.val = CommitBlock(Seqno)
<1>1. ASSUME pc = "desc"
      PROVE  NextWrite.blk = Log(0) /\ NextWrite.val = Descriptor(Seqno, targets)
  <2>1. NextWrite = WriteOf(Log(0), Descriptor(disk[Jsb].seq, targets))
    BY <1>1 DEF NextWrite
  <2> QED BY <2>1 DEF WriteOf, Seqno
<1>2. ASSUME pc = "copy"
      PROVE  NextWrite.blk = Log(k) /\ NextWrite.val = Logged(targets[k])
  <2>1. NextWrite = WriteOf(Log(k), Logged(targets[k]))
    BY <1>2 DEF NextWrite
  <2> QED BY <2>1 DEF WriteOf
<1>3. ASSUME pc = "data"
      PROVE  NextWrite.blk = Log(N + 1) /\ NextWrite.val = CommitBlock(Seqno)
  <2>1. NextWrite = WriteOf(Log(N + 1), CommitBlock(disk[Jsb].seq))
    BY <1>3 DEF NextWrite
  <2> QED BY <2>1 DEF WriteOf, Seqno
<1> QED BY <1>1, <1>2, <1>3

LEMMA LoggedIsImage ==
  ASSUME TargetsRight, k \in 1 .. N
  PROVE  Logged(targets[k]) = Image(targets[k])
<1>1. PICK t \in Blocks : t = targets[k]
  BY TargetIs
<1>2. Seen[t] = View(t)
  BY DEF Seen
<1> QED BY <1>1, <1>2 DEF Logged, Image

LEMMA MarkWrites ==
  /\ pc = "point" => NextWrite.blk = Jsb /\ NextWrite.val = JournalSuper(TRUE, Seqno)
  /\ pc = "barrier" => NextWrite.blk = SB /\ NextWrite.val = SuperBlock(TRUE, sb.free)
  /\ pc = "checkpoint" /\ AllClean =>
       NextWrite.blk = SB /\ NextWrite.val = SuperBlock(FALSE, sb.free)
  /\ pc = "reset" => NextWrite.blk = Jsb /\ NextWrite.val = JournalSuper(FALSE, Seqno + 1)
<1>1. ASSUME pc = "point"
      PROVE  NextWrite.blk = Jsb /\ NextWrite.val = JournalSuper(TRUE, Seqno)
  <2>1. NextWrite = WriteOf(Jsb, JournalSuper(TRUE, disk[Jsb].seq))
    BY <1>1 DEF NextWrite
  <2> QED BY <2>1 DEF WriteOf, Seqno
<1>2. ASSUME pc = "barrier"
      PROVE  NextWrite.blk = SB /\ NextWrite.val = SuperBlock(TRUE, sb.free)
  <2>1. NextWrite = WriteOf(SB, SuperBlock(TRUE, sb.free))
    BY <1>2 DEF NextWrite
  <2> QED BY <2>1 DEF WriteOf
<1>3. ASSUME pc = "checkpoint", AllClean
      PROVE  NextWrite.blk = SB /\ NextWrite.val = SuperBlock(FALSE, sb.free)
  <2>1. NextWrite = WriteOf(SB, SuperBlock(FALSE, sb.free))
    BY <1>3 DEF NextWrite
  <2> QED BY <2>1 DEF WriteOf
<1>4. ASSUME pc = "reset"
      PROVE  NextWrite.blk = Jsb /\ NextWrite.val = JournalSuper(FALSE, Seqno + 1)
  <2>1. NextWrite = WriteOf(Jsb, JournalSuper(FALSE, disk[Jsb].seq + 1))
    BY <1>4 DEF NextWrite
  <2> QED BY <2>1 DEF WriteOf, Seqno
<1> QED BY <1>1, <1>2, <1>3, <1>4

(* A write to the log, or what is left of it, while the log is filled.     *)
LEMMA LogPutKeeps ==
  ASSUME IInv, Filling, cache' = cache, recent' = recent, sb' = sb,
         NEW p \in 0 .. LogLen - 1, NEW v \in LogContents,
         v.type \in {"desc", "commit"} => v.seq <= Seqno,
         disk' = [disk EXCEPT ![Log(p)] = v],
         pc' \in {"data", "point", "idle"}
  PROVE  /\ Basics' /\ FlagsRight' /\ Dirty' = Dirty
         /\ Starts' = Starts /\ Seqno' = Seqno /\ LogLen' = LogLen
         /\ disk'[Log(p)] = v
         /\ \A q \in 0 .. LogLen - 1 : q # p => disk'[Log(q)] = disk[Log(q)]
         /\ \A c \in Homes \cup {Jsb} : disk'[c] = disk[c]
         /\ \A c \in Homes : Seen'[c] = Seen[c] /\ Image(c)' = Image(c)
<1>1. Basics /\ FlagsRight /\ DiskTyped
  BY DEF IInv, Basics
<1>2. LogLen \in LogLens /\ LogLen \in Nat \ {0}
  BY <1>1, DiskIs
<1>3. PICK b \in Blocks : b = Log(p) /\ b \in LogBlocks
  BY <1>2, LogAt
<1>4. b \notin FsBlocks /\ b # SB /\ b # Jsb /\ KindOf(b) = LogContents
  BY <1>3, Regions, KindsAre
<1>5. /\ Basics' /\ Dirty' = Dirty /\ disk'[b] = v
      /\ \A c \in Blocks \ {b} : disk'[c] = disk[c] /\ Seen'[c] = Seen[c]
  BY <1>1, <1>3, <1>4, PutKeeps DEF Mounted, Filling
<1>6. Homes \subseteq Blocks /\ b \notin Homes /\ Jsb \in Blocks
  BY <1>4, Geometry DEF Homes
<1>7. \A c \in Homes \cup {Jsb} : disk'[c] = disk[c]
  BY <1>4, <1>5, <1>6
<1>8. \A c \in Homes : Seen'[c] = Seen[c]
  BY <1>5, <1>6
<1>9. \A c \in Homes : Image(c)' = Image(c)
  BY <1>8, ImageSame DEF Homes
<1>10. Starts' = Starts /\ Seqno' = Seqno /\ LogLen' = LogLen
  BY <1>7 DEF Starts, Seqno, LogLen
<1>11. \A q \in 0 .. LogLen - 1 : q # p => disk'[Log(q)] = disk[Log(q)]
  <2>1. ASSUME NEW q \in 0 .. LogLen - 1, q # p PROVE disk'[Log(q)] = disk[Log(q)]
    <3>1. Log(q) \in Blocks
      BY <1>2, LogAt
    <3>2. Log(q) # Log(p)
      BY <2>1, LogApart
    <3> QED BY <1>3, <1>5, <3>1, <3>2
  <2> QED BY <2>1
<1>12. FlagsRight'
  <2>1. disk'[SB] = disk[SB]
    BY <1>7 DEF Homes
  <2> QED BY <1>1, <1>10, <2>1 DEF FlagsRight, Closed, Filling
<1> QED BY <1>3, <1>5, <1>7, <1>8, <1>9, <1>10, <1>11, <1>12

LEMMA FillTargets ==
  ASSUME IInv, Filling, Filling' \/ pc' = "point", targets' = targets, k' \in 0 .. N + 1,
         Dirty' = Dirty, Seqno' = Seqno, LogLen' = LogLen
  PROVE  TargetsRight'
<1>1. TargetsRight /\ Committing /\ Committing'
  BY DEF IInv, Committing, Filled
<1>2. ~Resting'
  BY DEF Resting, Recovering, Filling
<1>3. N' = N
  BY DEF N
<1> QED BY <1>1, <1>2, <1>3 DEF TargetsRight

LEMMA WriteDescriptorKeeps ==
  ASSUME IInv, WriteDescriptor
  PROVE  IInv'
<1>1. /\ pc = "desc" /\ pc' = "data" /\ k > N /\ k' = 1 /\ Put(NextWrite)
      /\ sb' = sb /\ targets' = targets
  BY DEF WriteDescriptor
<1>2. Basics /\ TargetsRight /\ LogSoFar /\ Filling /\ Filling' /\ DiskTyped
  BY <1>1 DEF IInv, Filling, Basics
<1>3. PICK v : v = Descriptor(Seqno, targets)
  OBVIOUS
<1>4. cache' = cache /\ recent' = recent /\ disk' = [disk EXCEPT ![Log(0)] = v]
  BY <1>1, <1>3, NextWriteIs DEF Put
<1>5. Seqno \in Nat /\ LogLen \in Nat \ {0}
  BY <1>2, DiskIs
<1>6. v \in LogContents /\ v.seq = Seqno
  BY <1>2, <1>3, <1>5 DEF LogContents, Descriptor, TargetsRight
<1>7. 0 \in 0 .. LogLen - 1 /\ v.seq <= Seqno
  BY <1>5, <1>6
<1>8. /\ Basics' /\ FlagsRight' /\ Dirty' = Dirty
      /\ Starts' = Starts /\ Seqno' = Seqno /\ LogLen' = LogLen
      /\ disk'[Log(0)] = v
  BY <1>1, <1>2, <1>4, <1>6, <1>7, LogPutKeeps
<1>9. N \in Nat /\ N' = N /\ k' \in 0 .. N + 1
  BY <1>1, <1>2 DEF N, TargetsRight
<1>10. TargetsRight'
  BY <1>1, <1>2, <1>8, <1>9, FillTargets
<1>11. disk'[Log(0)] = Descriptor(Seqno', targets')
  BY <1>1, <1>3, <1>8
<1>12. LogSoFar'
  <2>1. \A i \in 1 .. k' - 1 : FALSE
    BY <1>1
  <2> QED BY <1>1, <1>9, <1>11, <2>1 DEF LogSoFar, Filled
<1> QED BY <1>1, <1>8, <1>10, <1>12 DEF IInv, Closed

LEMMA WriteDataKeeps ==
  ASSUME IInv, WriteData
  PROVE  IInv'
<1>1. /\ pc = "copy" /\ pc' = "data" /\ k' = k + 1 /\ Put(NextWrite)
      /\ sb' = sb /\ targets' = targets
  BY DEF WriteData, Next_k
<1>2. Basics /\ TargetsRight /\ LogSoFar /\ Filling /\ Filling' /\ DiskTyped
  BY <1>1 DEF IInv, Filling, Basics
<1>3. N \in Nat /\ k \in 1 .. N /\ N' = N /\ N + 2 <= LogLen /\ LogLen \in Nat
  BY <1>1, <1>2, DiskIs DEF LogSoFar, TargetsRight, N
<1>4. PICK v : v = Image(targets[k])
  OBVIOUS
<1>5. cache' = cache /\ recent' = recent /\ disk' = [disk EXCEPT ![Log(k)] = v]
  BY <1>1, <1>2, <1>3, <1>4, NextWriteIs, LoggedIsImage DEF Put
<1>6. v \in LogContents /\ v.type \notin {"desc", "commit"}
  <2>1. PICK t \in Homes : t = targets[k]
    BY <1>2, <1>3, TargetIs
  <2> QED BY <1>2, <1>4, <2>1, ImageTyped
<1>7. k \in 0 .. LogLen - 1
  BY <1>3
<1>8. /\ Basics' /\ FlagsRight' /\ Dirty' = Dirty
      /\ Starts' = Starts /\ Seqno' = Seqno /\ LogLen' = LogLen
      /\ disk'[Log(k)] = v
      /\ \A q \in 0 .. LogLen - 1 : q # k => disk'[Log(q)] = disk[Log(q)]
      /\ \A c \in Homes : Image(c)' = Image(c)
  BY <1>1, <1>2, <1>5, <1>6, <1>7, LogPutKeeps
<1>9. k' \in 0 .. N + 1
  BY <1>1, <1>3
<1>10. TargetsRight'
  BY <1>1, <1>2, <1>8, <1>9, FillTargets
<1>11. disk'[Log(0)] = Descriptor(Seqno', targets')
  BY <1>1, <1>2, <1>3, <1>8 DEF LogSoFar
<1>12. \A i \in 1 .. k' - 1 : disk'[Log(i)] = Image(targets[i])'
  <2>1. ASSUME NEW i \in 1 .. k PROVE disk'[Log(i)] = Image(targets[i])'
    <3>1. targets[i] \in Homes
      BY <1>2, <1>3 DEF TargetsRight, N
    <3>2. PICK t \in Homes : t = targets[i] /\ t = targets'[i]
      BY <1>1, <3>1
    <3>3. Image(targets[i])' = Image(t)' /\ Image(t)' = Image(t)
      BY <1>8, <3>2
    <3>4. disk'[Log(i)] = Image(t)
      <4>1. CASE i = k
        BY <1>4, <1>8, <3>2, <4>1
      <4>2. CASE i # k
        <5>1. disk'[Log(i)] = disk[Log(i)]
          BY <1>3, <1>8, <4>2
        <5>2. i \in 1 .. k - 1
          BY <1>3, <4>2
        <5> QED BY <1>1, <1>2, <3>2, <5>1, <5>2 DEF LogSoFar
      <4> QED BY <4>1, <4>2
    <3> QED BY <3>3, <3>4
  <2>2. k' - 1 = k
    BY <1>1, <1>3
  <2> QED BY <2>1, <2>2
<1>13. LogSoFar'
  BY <1>1, <1>3, <1>9, <1>11, <1>12 DEF LogSoFar, Filled
<1> QED BY <1>1, <1>8, <1>10, <1>13 DEF IInv, Closed

LEMMA WriteCommitBlockKeeps ==
  ASSUME IInv, WriteCommitBlock
  PROVE  IInv'
<1>1. /\ pc = "data" /\ pc' = "point" /\ k > N /\ k' = k /\ Put(NextWrite)
      /\ sb' = sb /\ targets' = targets
  BY DEF WriteCommitBlock
<1>2. Basics /\ TargetsRight /\ LogSoFar /\ Filling /\ DiskTyped
  BY <1>1 DEF IInv, Filling, Basics
<1>3. N \in Nat /\ k = N + 1 /\ N' = N /\ N + 2 <= LogLen /\ LogLen \in Nat /\ Seqno \in Nat
  BY <1>1, <1>2, DiskIs DEF LogSoFar, TargetsRight, N
<1>4. PICK v : v = CommitBlock(Seqno)
  OBVIOUS
<1>5. cache' = cache /\ recent' = recent /\ disk' = [disk EXCEPT ![Log(N + 1)] = v]
  BY <1>1, <1>4, NextWriteIs DEF Put
<1>6. v \in LogContents /\ v.seq <= Seqno
  BY <1>3, <1>4 DEF LogContents, CommitBlock
<1>7. N + 1 \in 0 .. LogLen - 1
  BY <1>3
<1>8. /\ Basics' /\ FlagsRight' /\ Dirty' = Dirty
      /\ Starts' = Starts /\ Seqno' = Seqno /\ LogLen' = LogLen
      /\ disk'[Log(N + 1)] = v
      /\ \A q \in 0 .. LogLen - 1 : q # N + 1 => disk'[Log(q)] = disk[Log(q)]
      /\ \A c \in Homes : Image(c)' = Image(c)
  BY <1>1, <1>2, <1>5, <1>6, <1>7, LogPutKeeps
<1>9. k' \in 0 .. N + 1
  BY <1>1, <1>3
<1>10. TargetsRight'
  BY <1>1, <1>2, <1>8, <1>9, FillTargets
<1>11. disk'[Log(0)] = Descriptor(Seqno', targets')
  BY <1>1, <1>2, <1>3, <1>8 DEF LogSoFar
<1>12. \A i \in 1 .. N : disk'[Log(i)] = Image(targets[i])'
  <2>1. ASSUME NEW i \in 1 .. N PROVE disk'[Log(i)] = Image(targets[i])'
    <3>1. targets[i] \in Homes
      BY <1>2 DEF TargetsRight, N
    <3>2. PICK t \in Homes : t = targets[i] /\ t = targets'[i]
      BY <1>1, <3>1
    <3>3. Image(targets[i])' = Image(t)' /\ Image(t)' = Image(t)
      BY <1>8, <3>2
    <3>4. disk'[Log(i)] = disk[Log(i)] /\ i \in 1 .. k - 1
      BY <1>3, <1>8
    <3>5. disk[Log(i)] = Image(t)
      BY <1>1, <1>2, <3>2, <3>4 DEF LogSoFar
    <3> QED BY <3>3, <3>4, <3>5
  <2> QED BY <2>1
<1>13. k' - 1 = N /\ k' \in 1 .. N + 1
  BY <1>1, <1>3
<1>14. disk'[Log(N' + 1)] = CommitBlock(Seqno')
  BY <1>3, <1>4, <1>8
<1>15. LogSoFar'
  BY <1>1, <1>3, <1>11, <1>12, <1>13, <1>14 DEF LogSoFar
<1> QED BY <1>1, <1>8, <1>10, <1>15 DEF IInv, Closed
-------------------------------------------------------------------------------
(* The log is filled: it is one whole transaction, of the targets.         *)
LEMMA FilledLog ==
  ASSUME IInv, Filled
  PROVE  /\ LogWhole /\ Tags = targets
         /\ \A i \in 1 .. N : disk[Log(i)] = Image(targets[i])
         /\ \A c \in Dirty : SetHoldsAll => \E i \in 1 .. N : targets[i] = c
<1>1. Basics /\ TargetsRight /\ LogSoFar /\ DiskTyped
  BY DEF IInv, Basics
<1>2. pc # "desc" /\ Committing
  BY DEF Filled, Committing
<1>3. /\ targets \in Seq(Homes) /\ N \in Nat /\ k = N + 1 /\ N + 2 <= LogLen /\ N = Len(targets)
      /\ disk[Log(0)] = Descriptor(Seqno, targets)
      /\ disk[Log(N + 1)] = CommitBlock(Seqno) /\ Seqno < MaxSeq
  BY <1>1, <1>2 DEF TargetsRight, LogSoFar, N
<1>4. \A i \in 1 .. N : disk[Log(i)] = Image(targets[i])
  BY <1>1, <1>2, <1>3 DEF LogSoFar
<1>5. Tags = targets
  BY <1>3 DEF Tags, Descriptor
<1>6. \A i \in 1 .. N : disk[Log(i)] \in KindOf(targets[i])
  <2>1. ASSUME NEW i \in 1 .. N PROVE disk[Log(i)] \in KindOf(targets[i])
    <3>1. targets[i] \in Homes
      BY <1>3
    <3> QED BY <1>1, <1>4, <3>1, ImageTyped
  <2> QED BY <2>1
<1>10. \A i \in 1 .. N : targets[i] = SB => disk[Log(i)].recover
  BY <1>4 DEF Image, SuperBlock
<1>7. LogIs(targets)
  BY <1>3, <1>4, <1>6, <1>10 DEF LogIs
<1>8. LogWhole
  BY <1>5, <1>7 DEF LogWhole
<1>9. \A c \in Dirty : SetHoldsAll => \E i \in 1 .. N : targets[i] = c
  BY <1>1, <1>2 DEF TargetsRight
<1> QED BY <1>4, <1>5, <1>8, <1>9

LEMMA FilledGoesOn ==
  ASSUME IInv, Filled, Filled', targets' = targets, k' = k, Seqno' = Seqno, LogLen' = LogLen,
         \A q \in 0 .. LogLen - 1 : disk'[Log(q)] = disk[Log(q)],
         \A c \in Homes : Image(c)' = Image(c),
         Dirty' \subseteq Dirty
  PROVE  TargetsRight' /\ LogSoFar'
<1>1. Basics /\ TargetsRight /\ LogSoFar /\ DiskTyped
  BY DEF IInv, Basics
<1>2. pc # "desc" /\ pc' # "desc" /\ pc' # "copy" /\ Committing /\ Committing' /\ ~Resting'
  BY DEF Filled, Committing, Resting, Recovering
<1>3. /\ N' = N /\ N \in Nat /\ k = N + 1 /\ N + 2 <= LogLen /\ LogLen \in Nat
      /\ \A i \in 1 .. N : targets[i] \in Homes
  BY <1>1, <1>2, DiskIs DEF TargetsRight, LogSoFar, N
<1>4. TargetsRight'
  BY <1>1, <1>2, <1>3 DEF TargetsRight
<1>5. disk'[Log(0)] = Descriptor(Seqno', targets')
  BY <1>1, <1>2, <1>3 DEF LogSoFar
<1>6. disk'[Log(N' + 1)] = CommitBlock(Seqno')
  BY <1>1, <1>2, <1>3 DEF LogSoFar
<1>7. \A i \in 1 .. N : disk'[Log(i)] = Image(targets[i])'
  <2>1. ASSUME NEW i \in 1 .. N PROVE disk'[Log(i)] = Image(targets[i])'
    <3>1. PICK t \in Homes : t = targets[i] /\ t = targets'[i]
      BY <1>3
    <3>2. Image(targets[i])' = Image(t)' /\ Image(t)' = Image(t)
      BY <3>1
    <3>3. disk'[Log(i)] = disk[Log(i)] /\ disk[Log(i)] = Image(t)
      BY <1>3, <3>1, FilledLog
    <3> QED BY <3>2, <3>3
  <2> QED BY <2>1
<1>8. LogSoFar'
  BY <1>2, <1>3, <1>5, <1>6, <1>7 DEF LogSoFar
<1> QED BY <1>4, <1>8

(* A write to one of the two superblocks leaves the log and the file       *)
(* system's blocks.                                                        *)
LEMMA MarkKeeps ==
  ASSUME IInv, Mounted, Mounted', cache' = cache, recent' = recent, sb' = sb,
         NEW b \in {SB, Jsb}, NEW v \in KindOf(b), b = Jsb => v.seq >= Seqno,
         disk' = [disk EXCEPT ![b] = v]
  PROVE  /\ Basics' /\ Dirty' = Dirty /\ disk'[b] = v
         /\ b = SB => disk'[Jsb] = disk[Jsb]
         /\ b = Jsb => disk'[SB] = disk[SB]
         /\ \A q \in 0 .. LogLen - 1 : disk'[Log(q)] = disk[Log(q)]
         /\ \A c \in FsBlocks : disk'[c] = disk[c] /\ Seen'[c] = Seen[c]
         /\ \A c \in Homes : Image(c)' = Image(c)
<1>1. Basics /\ DiskTyped
  BY DEF IInv, Basics
<1>2. b \in Blocks \ FsBlocks /\ b \notin LogBlocks
  BY Geometry, Regions
<1>3. /\ Basics' /\ Dirty' = Dirty /\ disk'[b] = v
      /\ \A c \in Blocks \ {b} : disk'[c] = disk[c] /\ Seen'[c] = Seen[c]
  BY <1>1, <1>2, PutKeeps
<1>4. \A c \in FsBlocks : disk'[c] = disk[c] /\ Seen'[c] = Seen[c]
  BY <1>2, <1>3, Geometry
<1>5. \A c \in Homes : Image(c)' = Image(c)
  BY <1>4, ImageSame
<1>6. \A q \in 0 .. LogLen - 1 : disk'[Log(q)] = disk[Log(q)]
  <2>1. LogLen \in LogLens
    BY <1>1, DiskIs
  <2>2. \A q \in 0 .. LogLen - 1 : Log(q) \in Blocks \ {b}
    BY <1>2, <2>1, LogAt
  <2> QED BY <1>3, <2>2
<1> QED BY <1>3, <1>4, <1>5, <1>6, Geometry

LEMMA JournalMark ==
  ASSUME DiskTyped, NEW start \in BOOLEAN, NEW seq \in 1 .. MaxSeq
  PROVE  /\ JournalSuper(start, seq) \in KindOf(Jsb)
         /\ JournalSuper(start, seq).seq = seq /\ JournalSuper(start, seq).start = start
         /\ JournalSuper(start, seq).len = LogLen
<1>1. LogLen \in LogLens
  BY DiskIs
<1>2. JournalSuper(start, seq) \in Headers
  BY <1>1 DEF JournalSuper, JournalHeader, Headers
<1> QED BY <1>2, KindsAre, Geometry DEF JournalSuper, JournalHeader

LEMMA SuperMark ==
  ASSUME sb \in SuperBlocks, NEW recover \in BOOLEAN
  PROVE  /\ SuperBlock(recover, sb.free) \in KindOf(SB)
         /\ SuperBlock(recover, sb.free).recover = recover
<1>1. SuperBlock(recover, sb.free) \in SuperBlocks
  BY DEF SuperBlock, SuperBlocks
<1> QED BY <1>1, KindsAre, Geometry DEF SuperBlock

LEMMA PointJournalKeeps ==
  ASSUME IInv, PointJournal
  PROVE  /\ IInv' /\ Starts' /\ disk'[SB] = disk[SB]
         /\ \A q \in 0 .. LogLen - 1 : disk'[Log(q)] = disk[Log(q)]
         /\ \A c \in FsBlocks : disk'[c] = disk[c] /\ Seen'[c] = Seen[c]
<1>1. /\ pc = "point" /\ pc' = "barrier" /\ k' = k /\ Put(NextWrite)
      /\ sb' = sb /\ targets' = targets
  BY DEF PointJournal
<1>2. Basics /\ TargetsRight /\ LogSoFar /\ Filled /\ Filled' /\ DiskTyped /\ Mounted /\ Mounted'
  BY <1>1 DEF IInv, Filled, Basics, Mounted
<1>3. PICK v : v = JournalSuper(TRUE, Seqno)
  OBVIOUS
<1>4. cache' = cache /\ recent' = recent /\ disk' = [disk EXCEPT ![Jsb] = v]
  BY <1>1, <1>3, MarkWrites DEF Put
<1>5. Seqno \in 1 .. MaxSeq /\ LogLen \in LogLens
  BY <1>2, DiskIs
<1>6. v \in KindOf(Jsb) /\ v.seq = Seqno /\ v.start /\ v.len = LogLen
  BY <1>2, <1>3, <1>5, JournalMark
<1>7. v.seq >= Seqno
  BY <1>5, <1>6
<1>8. /\ Basics' /\ Dirty' = Dirty /\ disk'[Jsb] = v
      /\ disk'[SB] = disk[SB]
      /\ \A q \in 0 .. LogLen - 1 : disk'[Log(q)] = disk[Log(q)]
      /\ \A c \in FsBlocks : disk'[c] = disk[c] /\ Seen'[c] = Seen[c]
      /\ \A c \in Homes : Image(c)' = Image(c)
  BY <1>1, <1>2, <1>4, <1>6, <1>7, MarkKeeps
<1>9. Seqno' = Seqno /\ Starts' /\ LogLen' = LogLen
  BY <1>6, <1>8 DEF Seqno, Starts, LogLen
<1>10. TargetsRight' /\ LogSoFar'
  BY <1>1, <1>2, <1>8, <1>9, FilledGoesOn
<1>11. FlagsRight'
  BY <1>1, <1>9 DEF FlagsRight, Closed
<1> QED BY <1>1, <1>8, <1>9, <1>10, <1>11 DEF IInv, Closed

LEMMA RaiseRecoverKeeps ==
  ASSUME IInv, RaiseRecover
  PROVE  /\ IInv' /\ disk'[SB].recover /\ disk'[Jsb] = disk[Jsb]
         /\ \A q \in 0 .. LogLen - 1 : disk'[Log(q)] = disk[Log(q)]
         /\ \A c \in FsBlocks : disk'[c] = disk[c] /\ Seen'[c] = Seen[c]
<1>1. /\ pc = "barrier" /\ pc' = "checkpoint" /\ k' = k /\ Put(NextWrite)
      /\ sb' = sb /\ targets' = targets
  BY DEF RaiseRecover
<1>2. /\ Basics /\ TargetsRight /\ LogSoFar /\ Filled /\ Filled' /\ DiskTyped /\ Mounted /\ Mounted'
      /\ FlagsRight /\ sb \in SuperBlocks
  BY <1>1 DEF IInv, Filled, Basics, Mounted
<1>3. PICK v : v = SuperBlock(TRUE, sb.free)
  OBVIOUS
<1>4. cache' = cache /\ recent' = recent /\ disk' = [disk EXCEPT ![SB] = v]
  BY <1>1, <1>3, MarkWrites DEF Put
<1>5. v \in KindOf(SB) /\ v.recover
  BY <1>2, <1>3, SuperMark
<1>6. /\ Basics' /\ Dirty' = Dirty /\ disk'[SB] = v
      /\ disk'[Jsb] = disk[Jsb]
      /\ \A q \in 0 .. LogLen - 1 : disk'[Log(q)] = disk[Log(q)]
      /\ \A c \in FsBlocks : disk'[c] = disk[c] /\ Seen'[c] = Seen[c]
      /\ \A c \in Homes : Image(c)' = Image(c)
  BY <1>1, <1>2, <1>4, <1>5, MarkKeeps, Geometry
<1>7. Seqno' = Seqno /\ Starts' = Starts /\ LogLen' = LogLen
  BY <1>6 DEF Seqno, Starts, LogLen
<1>8. TargetsRight' /\ LogSoFar'
  BY <1>1, <1>2, <1>6, <1>7, FilledGoesOn
<1>9. FlagsRight'
  BY <1>1, <1>2, <1>5, <1>6, <1>7 DEF FlagsRight, Closed
<1> QED BY <1>1, <1>5, <1>6, <1>8, <1>9 DEF IInv, Closed

(* A flush of the mounted volume leaves all but one file-system block.     *)
LEMMA HomeStays ==
  ASSUME IInv, FlushStep, sb' = sb, Mounted, Mounted', pc # "off", pc' # "off"
  PROVE  \E b \in FsBlocks \cap Dirty :
           /\ Basics' /\ Seen' = Seen /\ Dirty' = Dirty \ {b}
           /\ disk' = [disk EXCEPT ![b] = Seen[b]]
           /\ disk'[b] = Seen[b] /\ \A c \in Homes \ {b} : disk'[c] = disk[c]
           /\ disk'[Jsb] = disk[Jsb]
           /\ \A c \in LogBlocks : disk'[c] = disk[c]
           /\ \A q \in 0 .. LogLen - 1 : disk'[Log(q)] = disk[Log(q)]
           /\ \A c \in Homes : Image(c)' = Image(c)
           /\ b = cache[FirstDirty].tag
<1>1. Basics /\ DiskTyped
  BY DEF IInv, Basics
<1>2. PICK b \in Dirty :
           /\ Basics' /\ Seen' = Seen /\ Dirty' = Dirty \ {b}
           /\ disk' = [disk EXCEPT ![b] = Seen[b]]
           /\ b \in FsBlocks \/ (~Mounted /\ b \in {SB, Jsb})
           /\ disk'[b] = Seen[b] /\ \A c \in Blocks \ {b} : disk'[c] = disk[c]
           /\ b = cache[FirstDirty].tag
  BY <1>1, HomeKeeps
<1>3. b \in FsBlocks \cap Dirty
  BY <1>2
<1>4. b \in Blocks /\ b # Jsb /\ b \notin LogBlocks
  BY <1>3, Geometry, Regions
<1>5. disk'[Jsb] = disk[Jsb] /\ \A c \in Homes \ {b} : disk'[c] = disk[c]
  BY <1>2, <1>4, Geometry DEF Homes
<1>6. \A c \in LogBlocks : disk'[c] = disk[c]
  BY <1>2, <1>4 DEF LogBlocks
<1>7. \A q \in 0 .. LogLen - 1 : disk'[Log(q)] = disk[Log(q)]
  <2>1. LogLen \in LogLens
    BY <1>1, DiskIs
  <2> QED BY <1>6, <2>1, LogAt
<1>8. \A c \in Homes : Image(c)' = Image(c)
  BY <1>2, ImageSame
<1> QED BY <1>2, <1>3, <1>5, <1>6, <1>7, <1>8

LEMMA CheckpointKeeps ==
  ASSUME IInv, Checkpoint
  PROVE  IInv'
<1>1. /\ pc = "checkpoint" /\ pc' = "checkpoint" /\ FlushStep /\ sb' = sb
      /\ targets' = targets /\ k' = k
  BY DEF Checkpoint
<1>2. /\ Filled /\ Filled' /\ Mounted /\ Mounted' /\ FlagsRight /\ DiskTyped
  BY <1>1 DEF IInv, Filled, Basics, Mounted
<1>3. PICK b \in FsBlocks \cap Dirty :
           /\ Basics' /\ Seen' = Seen /\ Dirty' = Dirty \ {b}
           /\ disk'[b] = Seen[b] /\ \A c \in Homes \ {b} : disk'[c] = disk[c]
           /\ disk'[Jsb] = disk[Jsb]
           /\ \A q \in 0 .. LogLen - 1 : disk'[Log(q)] = disk[Log(q)]
           /\ \A c \in Homes : Image(c)' = Image(c)
  BY <1>1, <1>2, HomeStays
<1>4. Seqno' = Seqno /\ Starts' = Starts /\ LogLen' = LogLen
  BY <1>3 DEF Seqno, Starts, LogLen
<1>5. TargetsRight' /\ LogSoFar'
  BY <1>1, <1>2, <1>3, <1>4, FilledGoesOn
<1>6. disk'[SB] = disk[SB]
  BY <1>3, Geometry DEF Homes
<1>7. FlagsRight'
  BY <1>1, <1>2, <1>4, <1>6 DEF FlagsRight, Closed
<1> QED BY <1>1, <1>3, <1>5, <1>7 DEF IInv

LEMMA ClearRecoverKeeps ==
  ASSUME IInv, ClearRecover
  PROVE  /\ IInv' /\ ~disk'[SB].recover /\ Dirty = {} /\ disk'[SB].free = sb.free
         /\ \A c \in FsBlocks : disk'[c] = disk[c] /\ Seen'[c] = Seen[c]
<1>1. /\ pc = "checkpoint" /\ pc' = "reset" /\ k' = k /\ Put(NextWrite) /\ AllClean
      /\ sb' = sb /\ targets' = targets
  BY DEF ClearRecover
<1>2. /\ Basics /\ TargetsRight /\ DiskTyped /\ Mounted /\ Mounted' /\ sb \in SuperBlocks
      /\ Committing /\ Dirty = {}
  BY <1>1, DirtyIs DEF IInv, Basics, Mounted, Committing, Filled
<1>3. PICK v : v = SuperBlock(FALSE, sb.free)
  OBVIOUS
<1>4. cache' = cache /\ recent' = recent /\ disk' = [disk EXCEPT ![SB] = v]
  BY <1>1, <1>3, MarkWrites DEF Put
<1>5. v \in KindOf(SB) /\ ~v.recover /\ v.free = sb.free
  BY <1>2, <1>3, SuperMark DEF SuperBlock
<1>6. /\ Basics' /\ Dirty' = Dirty /\ disk'[SB] = v
      /\ disk'[Jsb] = disk[Jsb]
      /\ \A c \in FsBlocks : disk'[c] = disk[c] /\ Seen'[c] = Seen[c]
  BY <1>1, <1>2, <1>4, <1>5, MarkKeeps, Geometry
<1>7. Seqno' = Seqno
  BY <1>6 DEF Seqno
<1>8. TargetsRight'
  <2>1. ~Resting' /\ ~Committing' /\ ~Filling' /\ ~Filled'
    BY <1>1 DEF Resting, Recovering, Committing, Filling, Filled
  <2> QED BY <1>1, <1>2, <1>7, <2>1 DEF TargetsRight, N
<1>9. FlagsRight'
  BY <1>1, <1>5, <1>6 DEF FlagsRight, Closed
<1> QED BY <1>1, <1>2, <1>5, <1>6, <1>8, <1>9 DEF IInv, Filling, Filled

LEMMA ResetJournalKeeps ==
  ASSUME IInv, ResetJournal
  PROVE  /\ IInv' /\ ~disk[SB].recover /\ disk'[SB] = disk[SB]
         /\ \A c \in FsBlocks : disk'[c] = disk[c] /\ Seen'[c] = Seen[c]
<1>1. /\ pc = "reset" /\ pc' = "idle" /\ k' = 0 /\ Put(NextWrite)
      /\ sb' = sb /\ targets' = <<>>
  BY DEF ResetJournal
<1>2. /\ Basics /\ TargetsRight /\ DiskTyped /\ Mounted /\ Mounted' /\ sb \in SuperBlocks
      /\ FlagsRight
  BY <1>1 DEF IInv, Basics, Mounted
<1>3. PICK v : v = JournalSuper(FALSE, Seqno + 1)
  OBVIOUS
<1>4. cache' = cache /\ recent' = recent /\ disk' = [disk EXCEPT ![Jsb] = v]
  BY <1>1, <1>3, MarkWrites DEF Put
<1>5. Seqno \in 1 .. MaxSeq /\ Seqno < MaxSeq /\ Seqno + 1 \in 1 .. MaxSeq /\ MaxSeq \in Nat
  BY <1>1, <1>2, DiskIs, Geometry DEF TargetsRight
<1>6. v \in KindOf(Jsb) /\ v.seq = Seqno + 1 /\ ~v.start
  BY <1>2, <1>3, <1>5, JournalMark
<1>7. v.seq >= Seqno
  BY <1>5, <1>6
<1>8. /\ Basics' /\ disk'[Jsb] = v
      /\ disk'[SB] = disk[SB]
      /\ \A c \in FsBlocks : disk'[c] = disk[c] /\ Seen'[c] = Seen[c]
  BY <1>1, <1>2, <1>4, <1>6, <1>7, MarkKeeps
<1>9. ~Starts'
  BY <1>6, <1>8 DEF Starts
<1>10. TargetsRight'
  BY <1>1 DEF TargetsRight, N, Committing, Filling, Filled, Resting, Recovering
<1>11. FlagsRight'
  BY <1>1, <1>9 DEF FlagsRight, Closed
<1>12. ~disk[SB].recover
  BY <1>1, <1>2 DEF FlagsRight
<1> QED BY <1>1, <1>8, <1>10, <1>11, <1>12 DEF IInv, Closed, Filling, Filled
-------------------------------------------------------------------------------
(* Close, the power cut and the failed write.                              *)
LEMMA CloseKeeps ==
  ASSUME IInv, Close
  PROVE  IInv'
<1>1. /\ pc = "idle" /\ pc' = "closing" /\ UNCHANGED cachevars /\ sb' = sb
      /\ targets' = targets /\ k' = k
  BY DEF Close
<1>2. Basics /\ TargetsRight /\ FlagsRight
  BY DEF IInv
<1>3. CacheOK' /\ disk' = disk /\ Seen' = Seen /\ Dirty' = Dirty
  BY <1>1, <1>2, CacheStays DEF Basics
<1>4. Basics'
  BY <1>1, <1>2, <1>3, ShowsSame DEF Mounted
<1>5. Starts' = Starts
  BY <1>3, DiskSame
<1>6. FlagsRight'
  BY <1>1, <1>2, <1>3, <1>5 DEF FlagsRight, Closed
<1>7. TargetsRight'
  BY <1>1, <1>2, TargetsKept DEF Resting, Recovering
<1> QED BY <1>1, <1>4, <1>6, <1>7 DEF IInv, Closed, Filling, Filled

LEMMA CloseFlushKeeps ==
  ASSUME IInv, CloseFlush
  PROVE  IInv'
<1>1. /\ pc = "closing" /\ pc' = "closing" /\ FlushStep /\ sb' = sb
      /\ targets' = targets /\ k' = k
  BY DEF CloseFlush
<1>2. Basics /\ TargetsRight /\ FlagsRight
  BY DEF IInv
<1>3. PICK b \in FsBlocks \cap Dirty :
           /\ Basics'
           /\ \A c \in Homes \ {b} : disk'[c] = disk[c]
           /\ disk'[Jsb] = disk[Jsb]
  BY <1>1, HomeStays DEF Mounted
<1>4. Starts' = Starts /\ disk'[SB] = disk[SB]
  BY <1>3, Geometry DEF Starts, Homes
<1>5. FlagsRight'
  BY <1>1, <1>2, <1>4 DEF FlagsRight, Closed
<1>6. TargetsRight'
  BY <1>1, <1>2, TargetsKept DEF Resting, Recovering
<1> QED BY <1>1, <1>3, <1>5, <1>6 DEF IInv, Closed, Filling, Filled

(* The volume is off, and what a mount would replay is a whole log.        *)
LEMMA OffKeeps ==
  ASSUME pc' = "off", Drop, DiskTyped', SeqsPast', sb' \in SuperBlocks,
         targets' \in Seq(Homes), k' = 0, Believed' => LogWhole'
  PROVE  IInv'
<1>1. CacheOK' /\ Seen' = disk' /\ Dirty' = {}
  BY DropShows DEF DiskTyped
<1>2. SeenTyped'
  BY <1>1 DEF SeenTyped, DiskTyped
<1>3. CleanRight' /\ DirtyRight'
  BY <1>1 DEF CleanRight, DirtyRight, Drop, CacheEmpty
<1>4. FlagsRight'
  BY DEF FlagsRight, Closed
<1>5. k' \in 0 .. N' + 1
  <2>1. PICK t \in Seq(Homes) : t = targets'
    OBVIOUS
  <2>2. N' = Len(t) /\ Len(t) \in Nat
    BY <2>1 DEF N
  <2>3. 0 \in 0 .. Len(t) + 1
    BY <2>2
  <2> QED BY <2>2, <2>3
<1>6. TargetsRight'
  <2>1. ~Committing' /\ ~Filling' /\ ~Filled' /\ pc' # "reset"
    BY DEF Committing, Filling, Filled
  <2> QED BY <1>5, <2>1 DEF TargetsRight
<1> QED BY <1>1, <1>2, <1>3, <1>4, <1>6 DEF IInv, Basics, Recovering, Filling, Filled

LEMMA SyncKeeps ==
  ASSUME IInv, Sync
  PROVE  /\ IInv' /\ Dirty = {} /\ ~Believed /\ ~Believed'
         /\ \A c \in FsBlocks : disk'[c] = disk[c]
<1>1. /\ pc = "closing" /\ pc' = "off" /\ AllClean /\ disk' = [disk EXCEPT ![SB] = sb]
      /\ Drop /\ sb' = sb /\ targets' = targets /\ k' = k
  BY DEF Sync
<1>2. Basics /\ TargetsRight /\ FlagsRight /\ DiskTyped /\ SeqsPast /\ sb \in SuperBlocks
  BY DEF IInv, Basics
<1>3. SB \in Blocks /\ sb \in Contents /\ sb \in KindOf(SB)
  BY <1>2, Geometry, KindsAre
<1>4. DiskTyped' /\ disk'[SB] = sb /\ \A c \in Blocks \ {SB} : disk'[c] = disk[c]
  BY <1>1, <1>2, <1>3, DiskWrite
<1>5. disk'[Jsb] = disk[Jsb] /\ (\A c \in FsBlocks : disk'[c] = disk[c])
  BY <1>4, Geometry
<1>6. \A c \in LogBlocks : disk'[c] = disk[c]
  BY <1>4, Regions DEF LogBlocks
<1>7. SeqsPast' /\ Starts' = Starts
  BY <1>2, <1>5, <1>6 DEF SeqsPast, Seqno, Starts
<1>8. ~Believed /\ ~Believed'
  BY <1>1, <1>2, <1>4, <1>7 DEF FlagsRight, Closed, Believed
<1>9. targets' \in Seq(Homes) /\ k' = 0
  BY <1>1, <1>2 DEF TargetsRight, Resting
<1>10. IInv'
  BY <1>1, <1>2, <1>4, <1>7, <1>8, <1>9, OffKeeps
<1>11. Dirty = {}
  BY <1>1, DirtyIs
<1> QED BY <1>5, <1>8, <1>10, <1>11

(* The block whose write is in progress, and what becomes of the disk when *)
(* it is torn.                                                             *)
LEMMA InFlightIs ==
  ASSUME IInv, NEW b \in InFlight
  PROVE  /\ b \in Blocks
         /\ b \in FsBlocks \/ b \in LogBlocks
         /\ b \in FsBlocks =>
              b \in Dirty /\ (Accessing \/ pc \in {"replay", "rflush", "checkpoint", "closing"})
         /\ b \in LogBlocks => Filling /\ (AtWrite => b = NextWrite.blk)
<1>1. Basics /\ TargetsRight /\ DiskTyped /\ CacheOK
  BY DEF IInv, Basics
<1>2. LogLen \in LogLens /\ LogLen \in Nat /\ N \in Nat /\ k \in Nat
  BY <1>1, DiskIs DEF TargetsRight, N
<1>3. CASE pc \in {"rflush", "checkpoint", "closing"} /\ ~AllClean
  <2>1. b = cache[FirstDirty].tag /\ b \notin {SB, Jsb}
    BY <1>3 DEF InFlight
  <2>2. FirstDirty \in DirtyEntries
    <3>1. DirtyEntries # {} /\ DirtyEntries \subseteq Nat
      BY <1>1, <1>3, CacheIs DEF AllClean, DirtyEntries
    <3>2. \E f \in DirtyEntries : \A d \in DirtyEntries : f <= d
      BY <3>1, LeastOne
    <3> QED BY <3>2 DEF FirstDirty
  <2>3. b \in Dirty
    BY <2>1, <2>2 DEF Dirty
  <2>4. b \in FsBlocks
    BY <1>1, <2>1, <2>3 DEF Basics, DirtyRight
  <2> QED BY <1>3, <2>3, <2>4, Geometry, Regions
<1>4. CASE pc = "desc" /\ k > N
  <2>1. b = Log(0)
    BY <1>4 DEF InFlight
  <2>2. Filling /\ 0 \in 0 .. LogLen - 1
    BY <1>1, <1>2, <1>4, DiskIs DEF Filling
  <2>3. b = NextWrite.blk
    BY <1>4, <2>1, NextWriteIs
  <2> QED BY <1>2, <2>1, <2>2, <2>3, LogAt, Regions
<1>5. CASE pc = "copy"
  <2>1. b = Log(k)
    BY <1>5 DEF InFlight
  <2>2. Filling /\ k \in 0 .. LogLen - 1
    <3>1. k <= N /\ N + 2 <= LogLen
      BY <1>1, <1>5 DEF IInv, LogSoFar, TargetsRight, Filling
    <3> QED BY <1>2, <1>5, <3>1 DEF Filling
  <2>3. b = NextWrite.blk
    BY <1>5, <2>1, NextWriteIs
  <2> QED BY <1>2, <2>1, <2>2, <2>3, LogAt, Regions
<1>6. CASE pc = "data" /\ k > N
  <2>1. b = Log(N + 1)
    BY <1>6 DEF InFlight
  <2>2. Filling /\ N + 1 \in 0 .. LogLen - 1
    <3>1. N + 2 <= LogLen
      BY <1>1, <1>6 DEF TargetsRight, Filling
    <3> QED BY <1>2, <1>6, <3>1 DEF Filling
  <2>3. b = NextWrite.blk
    BY <1>6, <2>1, NextWriteIs
  <2> QED BY <1>2, <2>1, <2>2, <2>3, LogAt, Regions
<1>7. CASE /\ ~(pc \in {"rflush", "checkpoint", "closing"} /\ ~AllClean)
           /\ ~(pc = "desc" /\ k > N) /\ pc # "copy" /\ ~(pc = "data" /\ k > N)
  <2>1. b \in Spilled
    BY <1>7 DEF InFlight
  <2>2. (\E c \in Accessed : ~Resident(c)) /\ VictimDirty /\ b = cache[Victim].tag /\ b \notin {SB, Jsb}
    BY <2>1 DEF Spilled
  <2>3. Accessing \/ pc = "replay"
    <3>1. Accessed # {}
      BY <2>2
    <3> QED BY <3>1 DEF Accessed, Accessing
  <2>4. b \in Dirty
    BY <2>2, DirtyIs DEF VictimDirty
  <2>5. b \in FsBlocks
    BY <1>1, <2>2, <2>4 DEF Basics, DirtyRight
  <2> QED BY <2>3, <2>4, <2>5, Geometry, Regions
<1> QED BY <1>3, <1>4, <1>5, <1>6, <1>7

LEMMA TornKeeps ==
  ASSUME IInv, disk' \in {disk} \cup {[disk EXCEPT ![b] = Torn] : b \in InFlight}
  PROVE  /\ DiskTyped' /\ SeqsPast' /\ disk'[SB] = disk[SB] /\ disk'[Jsb] = disk[Jsb]
         /\ ~Filling => \A c \in LogBlocks : disk'[c] = disk[c]
         /\ \E b \in Blocks :
              /\ \A c \in Blocks \ {b} : disk'[c] = disk[c]
              /\ disk' = disk \/ (b \in InFlight /\ b \in Blocks \ {SB, Jsb})
<1>1. Basics /\ DiskTyped /\ SeqsPast
  BY DEF IInv, Basics
<1>2. CASE disk' = disk
  BY <1>1, <1>2, DiskSame, Geometry
<1>3. CASE disk' # disk
  <2>1. PICK b \in InFlight : disk' = [disk EXCEPT ![b] = Torn]
    BY <1>3
  <2>2. /\ b \in Blocks /\ (b \in FsBlocks \/ b \in LogBlocks)
        /\ b \in LogBlocks => Filling
    BY InFlightIs
  <2>3. Torn \in FsContents /\ Torn \in LogContents /\ Torn \in Contents /\ Torn.type = "torn"
    BY DEF FsContents, LogContents, Contents, Torn
  <2>4. b \notin {SB, Jsb} /\ Torn \in KindOf(b) /\ b \in Blocks
    <3>1. b \in Blocks
      BY <2>2
    <3>2. CASE b \in FsBlocks
      BY <3>1, <3>2, <2>3, KindsAre, Geometry
    <3>3. CASE b \in LogBlocks
      BY <3>1, <3>3, <2>3, KindsAre, Regions
    <3> QED BY <2>2, <3>2, <3>3
  <2>5. DiskTyped' /\ disk'[b] = Torn /\ \A c \in Blocks \ {b} : disk'[c] = disk[c]
    BY <1>1, <2>1, <2>3, <2>4, DiskWrite
  <2>6. disk'[SB] = disk[SB] /\ disk'[Jsb] = disk[Jsb]
    BY <2>4, <2>5, Geometry
  <2>7. SeqsPast'
    <3>1. \A c \in LogBlocks : c \in Blocks
      BY DEF LogBlocks
    <3>2. Seqno' = Seqno
      BY <2>6 DEF Seqno
    <3> QED BY <1>1, <2>3, <2>5, <3>1, <3>2 DEF SeqsPast
  <2>8. ~Filling => \A c \in LogBlocks : disk'[c] = disk[c]
    BY <2>2, <2>5, Regions DEF LogBlocks
  <2> QED BY <2>4, <2>5, <2>6, <2>7, <2>8
<1> QED BY <1>2, <1>3

(* The journal is believed only where the log is whole.                    *)
LEMMA BelievedWhole ==
  ASSUME IInv
  PROVE  Believed => LogWhole /\ ~Filling
<1>1. Basics /\ FlagsRight
  BY DEF IInv
<1>2. ASSUME Believed PROVE LogWhole /\ ~Filling
  <2>1. ~Closed /\ pc # "reset"
    BY <1>1, <1>2 DEF FlagsRight, Believed
  <2>2. CASE Recovering
    BY <1>1, <1>2, <2>2 DEF Recovering, FlagsRight, Believed, Filling
  <2>3. CASE pc \in {"barrier", "checkpoint"}
    BY <2>3, FilledLog DEF Filled, Filling
  <2> QED BY <2>1, <2>2, <2>3 DEF IInv
<1> QED BY <1>2

LEMMA PowerCutKeeps ==
  ASSUME IInv, PowerCut
  PROVE  /\ IInv' /\ (Believed' <=> Believed) /\ (Believed => LogWhole')
         /\ \A b : InLog(b)' /\ Believed <=> InLog(b) /\ Believed
         /\ \A b : Believed /\ InLog(b) => LoggedFor(b)' = LoggedFor(b)
<1>1. /\ disk' \in {disk} \cup {[disk EXCEPT ![b] = Torn] : b \in InFlight}
      /\ Drop /\ pc' = "off" /\ targets' = <<>> /\ k' = 0 /\ sb' = disk[SB]
  BY DEF PowerCut
<1>2. Basics /\ DiskTyped
  BY DEF IInv, Basics
<1>3. /\ DiskTyped' /\ SeqsPast' /\ disk'[SB] = disk[SB] /\ disk'[Jsb] = disk[Jsb]
      /\ ~Filling => \A c \in LogBlocks : disk'[c] = disk[c]
  BY <1>1, TornKeeps
<1>4. Believed' <=> Believed
  BY <1>3 DEF Believed, Starts
<1>5. ASSUME Believed
      PROVE  /\ LogWhole'
             /\ \A b : InLog(b)' <=> InLog(b)
             /\ \A b : InLog(b) => LoggedFor(b)' = LoggedFor(b)
  <2>1. LogWhole /\ \A c \in LogBlocks : disk'[c] = disk[c]
    BY <1>3, <1>5, BelievedWhole
  <2> QED BY <1>2, <1>3, <2>1, LogStays
<1>6. sb' \in SuperBlocks
  BY <1>1, <1>2, DiskIs
<1>7. targets' \in Seq(Homes)
  BY <1>1
<1>8. IInv'
  BY <1>1, <1>3, <1>4, <1>5, <1>6, <1>7, OffKeeps
<1> QED BY <1>4, <1>5, <1>8

(* While the log is filled, the next write goes to it.                     *)
LEMMA NextWriteInLog ==
  ASSUME IInv, Filling
  PROVE  \E p \in 0 .. LogLen - 1 :
           /\ NextWrite.blk = Log(p) /\ NextWrite.val \in LogContents
           /\ NextWrite.val.type \in {"desc", "commit"} => NextWrite.val.seq <= Seqno
<1>1. Basics /\ TargetsRight /\ LogSoFar /\ DiskTyped
  BY DEF IInv, Basics
<1>2. /\ N \in Nat /\ k \in 1 .. N + 1 /\ N + 2 <= LogLen /\ LogLen \in LogLens /\ LogLen \in Nat \ {0}
      /\ Seqno \in Nat /\ (pc = "copy" => k <= N)
  BY <1>1, DiskIs DEF TargetsRight, LogSoFar, N
<1>3. CASE pc = "desc"
  <2>1. NextWrite.blk = Log(0) /\ NextWrite.val = Descriptor(Seqno, targets)
    BY <1>3, NextWriteIs
  <2>2. Descriptor(Seqno, targets) \in LogContents /\ Descriptor(Seqno, targets).seq = Seqno
    BY <1>1, <1>2 DEF Descriptor, LogContents, TargetsRight
  <2>3. 0 \in 0 .. LogLen - 1 /\ Seqno <= Seqno
    BY <1>2
  <2> QED BY <2>1, <2>2, <2>3
<1>4. CASE pc = "copy"
  <2>1. k \in 1 .. N /\ k \in 0 .. LogLen - 1
    BY <1>2, <1>4
  <2>2. NextWrite.blk = Log(k) /\ NextWrite.val = Image(targets[k])
    BY <1>1, <1>4, <2>1, NextWriteIs, LoggedIsImage
  <2>3. PICK t \in Homes : t = targets[k]
    BY <1>1, <2>1, TargetIs
  <2>4. Image(t) \in LogContents /\ Image(t).type \notin {"desc", "commit"}
    BY <1>1, ImageTyped
  <2> QED BY <2>1, <2>2, <2>3, <2>4
<1>5. CASE pc = "data"
  <2>1. NextWrite.blk = Log(N + 1) /\ NextWrite.val = CommitBlock(Seqno)
    BY <1>5, NextWriteIs
  <2>2. CommitBlock(Seqno) \in LogContents /\ CommitBlock(Seqno).seq = Seqno
    BY <1>2 DEF CommitBlock, LogContents
  <2>3. N + 1 \in 0 .. LogLen - 1 /\ Seqno <= Seqno
    BY <1>2
  <2> QED BY <2>1, <2>2, <2>3
<1> QED BY <1>3, <1>4, <1>5 DEF Filling

LEMMA DeviceErrorKeeps ==
  ASSUME IInv, LogErrorsOnly, DeviceError
  PROVE  /\ IInv' /\ Filling /\ pc' = "idle" /\ disk'[SB] = disk[SB] /\ disk'[Jsb] = disk[Jsb]
         /\ \A c \in Homes : disk'[c] = disk[c] /\ Seen'[c] = Seen[c]
<1>1. /\ AtWrite /\ CommitPhase \in ErrorPhases
      /\ pc' = "idle" /\ targets' = <<>> /\ k' = 0 /\ cache' = cache /\ recent' = recent /\ sb' = sb
      /\ disk' \in {disk, [disk EXCEPT ![NextWrite.blk] = NextWrite.val]}
              \cup {[disk EXCEPT ![b] = Torn] : b \in InFlight}
  BY DEF DeviceError
<1>2. Filling
  <2>1. CommitPhase = "log"
    BY <1>1 DEF LogErrorsOnly
  <2>2. pc \in {"desc", "data", "copy"} \/ pc = "log"
    BY <2>1 DEF CommitPhase
  <2> QED BY <2>2 DEF IInv, Filling, Recovering, Closed
<1>3. Basics /\ TargetsRight /\ FlagsRight /\ LogSoFar /\ DiskTyped
  BY <1>2 DEF IInv, Basics
<1>4. /\ N \in Nat /\ k \in 1 .. N + 1 /\ N + 2 <= LogLen /\ LogLen \in LogLens /\ LogLen \in Nat \ {0}
      /\ Seqno \in Nat /\ (pc = "copy" => k <= N)
  BY <1>2, <1>3, DiskIs DEF TargetsRight, LogSoFar, N
<1>5. TargetsRight'
  BY <1>1 DEF TargetsRight, N, Committing, Filling, Filled, Resting, Recovering
<1>6. CASE disk' = disk
  <2>1. CacheOK' /\ disk' = disk /\ Seen' = Seen /\ Dirty' = Dirty
    BY <1>1, <1>3, <1>6, CacheStays DEF cachevars, Basics
  <2>2. Basics'
    BY <1>1, <1>2, <1>3, <2>1, ShowsSame DEF Mounted, Filling
  <2>3. FlagsRight'
    BY <1>1, <1>2, <1>3, <1>6 DEF FlagsRight, Closed, Filling, Starts
  <2> QED BY <1>1, <1>2, <1>5, <1>6, <2>1, <2>2, <2>3 DEF IInv, Closed, Filling, Filled
<1>7. CASE disk' # disk
  <2>1. \E p \in 0 .. LogLen - 1, v \in LogContents :
           /\ disk' = [disk EXCEPT ![Log(p)] = v]
           /\ v.type \in {"desc", "commit"} => v.seq <= Seqno
    <3>1. \E p \in 0 .. LogLen - 1 :
            /\ NextWrite.blk = Log(p) /\ NextWrite.val \in LogContents
            /\ NextWrite.val.type \in {"desc", "commit"} => NextWrite.val.seq <= Seqno
      BY <1>2, NextWriteInLog
    <3>2. CASE disk' = [disk EXCEPT ![NextWrite.blk] = NextWrite.val]
      BY <3>1, <3>2
    <3>3. CASE \E b \in InFlight : disk' = [disk EXCEPT ![b] = Torn]
      <4>1. PICK b \in InFlight : disk' = [disk EXCEPT ![b] = Torn]
        BY <3>3
      <4>2. b \in FsBlocks \/ b = NextWrite.blk
        BY <1>1, InFlightIs
      <4>3. b \notin FsBlocks
        <5>1. ~Accessing /\ pc \notin {"replay", "rflush", "checkpoint", "closing"}
          BY <1>1, <1>2, <1>4 DEF Filling, AtWrite, Accessing
        <5> QED BY <5>1, InFlightIs
      <4>4. Torn \in LogContents /\ Torn.type = "torn"
        BY DEF FsContents, LogContents, Torn
      <4> QED BY <3>1, <4>1, <4>2, <4>3, <4>4
    <3> QED BY <1>1, <1>7, <3>2, <3>3
  <2>2. PICK p \in 0 .. LogLen - 1, v \in LogContents :
           /\ disk' = [disk EXCEPT ![Log(p)] = v]
           /\ v.type \in {"desc", "commit"} => v.seq <= Seqno
    BY <2>1
  <2>3. /\ Basics' /\ FlagsRight'
        /\ \A c \in Homes \cup {Jsb} : disk'[c] = disk[c]
        /\ \A c \in Homes : Seen'[c] = Seen[c]
    BY <1>1, <1>2, <2>2, LogPutKeeps
  <2> QED BY <1>1, <1>2, <1>5, <2>3 DEF IInv, Closed, Filling, Filled, Homes
<1> QED BY <1>6, <1>7

-------------------------------------------------------------------------------
LEMMA StutterKeeps ==
  ASSUME IInv, UNCHANGED vars
  PROVE  IInv'
<1>1. /\ UNCHANGED cachevars /\ pc' = pc /\ sb' = sb /\ targets' = targets /\ k' = k
      /\ plan' = plan
  BY DEF vars, cachevars
<1>2. Basics /\ TargetsRight /\ FlagsRight
  BY DEF IInv
<1>3. CacheOK' /\ disk' = disk /\ Seen' = Seen /\ Dirty' = Dirty
  BY <1>1, <1>2, CacheStays DEF Basics
<1>4. /\ DiskTyped' /\ SeqsPast' /\ Starts' = Starts /\ Seqno' = Seqno /\ LogLen' = LogLen
      /\ (LogWhole => LogWhole')
  BY <1>2, <1>3, DiskSame DEF Basics
<1>5. Mounted' <=> Mounted
  BY <1>1 DEF Mounted
<1>6. SeenTyped' /\ CleanRight' /\ DirtyRight'
  <2>1. cache' = cache
    BY <1>1 DEF cachevars
  <2> QED BY <1>1, <1>2, <1>3, <1>5, <2>1 DEF Basics, SeenTyped, CleanRight, DirtyRight
<1>7. Basics'
  BY <1>1, <1>2, <1>3, <1>4, <1>6 DEF Basics
<1>8. /\ Filling' <=> Filling
      /\ Filled' <=> Filled
      /\ Recovering' <=> Recovering
      /\ Closed' <=> Closed
  BY <1>1 DEF Filling, Filled, Recovering, Closed
<1>9. /\ Committing' <=> Committing
      /\ Resting' <=> Resting
  BY <1>1, <1>8 DEF Committing, Resting
<1>10. TargetsRight'
  <2>1. N' = N
    BY <1>1 DEF N
  <2> QED BY <1>1, <1>2, <1>3, <1>4, <1>8, <1>9, <2>1 DEF TargetsRight
<1>11. FlagsRight'
  <2>1. Believed' <=> Believed
    BY <1>3, <1>4 DEF Believed
  <2> QED BY <1>1, <1>2, <1>3, <1>4, <1>8, <2>1 DEF FlagsRight
<1>12. pc = "replay" => ReplayRight'
  <2>1. SUFFICES ASSUME pc = "replay" PROVE ReplayRight'
    OBVIOUS
  <2>2. ReplayRight
    BY <2>1 DEF IInv
  <2>3. PlanOK'
    <3>1. DiskTyped /\ (Starts => LogWhole)
      BY <1>2, <2>1 DEF Basics, FlagsRight
    <3>2. Replaying' = Replaying
      BY <1>3, <3>1, NewStays
    <3> QED BY <1>1, <2>2, <3>2 DEF PlanOK, ResetsLast, ReplayRight
  <2>4. \A b : /\ Pending(b)' <=> Pending(b)
               /\ Replays(b)' <=> Replays(b)
               /\ NewOf(b)' = NewOf(b)
    BY <1>1, <1>3, DiskSame DEF Pending
  <2> QED BY <1>3, <2>2, <2>3, <2>4 DEF ReplayRight
<1>13. pc = "rflush" => FlushRight'
  BY <1>3, <1>4 DEF IInv, FlushRight
<1>14. Filling \/ Filled => LogSoFar'
  <2>1. SUFFICES ASSUME Filling \/ Filled PROVE LogSoFar'
    OBVIOUS
  <2>2. LogSoFar
    BY <2>1 DEF IInv
  <2>3. N' = N /\ \A b \in Homes : Image(b)' = Image(b)
    BY <1>1, <1>3, ImageSame DEF N
  <2>4. \A i \in 1 .. k - 1 : targets[i] \in Homes
    BY <1>2, <2>2 DEF TargetsRight, N, LogSoFar
  <2>5. pc' # "desc" => \A i \in 1 .. k - 1 : disk'[Log(i)] = Image(targets[i])'
    <3>1. SUFFICES ASSUME pc # "desc", NEW i \in 1 .. k - 1 PROVE disk'[Log(i)] = Image(targets[i])'
      BY <1>1
    <3>2. PICK t \in Homes : t = targets[i] /\ t = targets'[i]
      BY <1>1, <2>4
    <3>3. Image(targets[i])' = Image(t)' /\ Image(t)' = Image(t)
      BY <2>3, <3>2
    <3>4. disk[Log(i)] = Image(t)
      BY <2>2, <3>1, <3>2 DEF LogSoFar
    <3> QED BY <1>3, <3>3, <3>4
  <2> QED BY <1>1, <1>3, <1>4, <1>8, <2>2, <2>3, <2>5 DEF LogSoFar
<1> QED BY <1>1, <1>7, <1>8, <1>10, <1>11, <1>12, <1>13, <1>14 DEF IInv

LEMMA StepKeeps ==
  ASSUME LogErrorsOnly, IInv, [Next]_vars
  PROVE  IInv'
<1>1. CASE Open
  BY <1>1, OpenKeeps
<1>2. CASE Replay
  BY <1>2, ReplayKeeps
<1>3. CASE ReplayFlush
  BY <1>3, ReplayFlushKeeps
<1>4. CASE Reread
  BY <1>4, RereadKeeps
<1>5. CASE \E b \in FsBlocks, v \in Values, n \in Counts : Edit(b, v, n)
  BY <1>5, EditKeeps
<1>24. CASE \E b \in FsBlocks : Look(b)
  BY <1>24, LookKeeps
<1>6. CASE CommitBegin
  BY <1>6, CommitBeginKeeps
<1>7. CASE ReadJournal
  BY <1>7, ReadJournalKeeps
<1>8. CASE Tag
  BY <1>8, TagKeeps
<1>9. CASE WriteDescriptor
  BY <1>9, WriteDescriptorKeeps
<1>10. CASE Fetch
  BY <1>10, FetchKeeps
<1>11. CASE WriteData
  BY <1>11, WriteDataKeeps
<1>12. CASE WriteCommitBlock
  BY <1>12, WriteCommitBlockKeeps
<1>13. CASE PointJournal
  BY <1>13, PointJournalKeeps
<1>14. CASE RaiseRecover
  BY <1>14, RaiseRecoverKeeps
<1>15. CASE Checkpoint
  BY <1>15, CheckpointKeeps
<1>16. CASE ClearRecover
  BY <1>16, ClearRecoverKeeps
<1>17. CASE ResetJournal
  BY <1>17, ResetJournalKeeps
<1>18. CASE Close
  BY <1>18, CloseKeeps
<1>19. CASE CloseFlush
  BY <1>19, CloseFlushKeeps
<1>20. CASE Sync
  BY <1>20, SyncKeeps
<1>21. CASE PowerCut
  BY <1>21, PowerCutKeeps
<1>22. CASE DeviceError
  BY <1>22, DeviceErrorKeeps
<1>23. CASE UNCHANGED vars
  BY <1>23, StutterKeeps
<1> QED
  BY <1>1, <1>2, <1>3, <1>4, <1>5, <1>6, <1>7, <1>8, <1>9, <1>10, <1>11, <1>12, <1>13,
     <1>14, <1>15, <1>16, <1>17, <1>18, <1>19, <1>20, <1>21, <1>22, <1>23, <1>24 DEF Next

LEMMA Inductive ==
  ASSUME LogErrorsOnly
  PROVE  Spec => []IInv
<1>1. Init => IInv
  BY InitKeeps
<1>2. IInv /\ [Next]_vars => IInv'
  BY StepKeeps
<1> QED BY <1>1, <1>2, PTL DEF Spec

LEMMA TypesHold ==
  ASSUME IInv
  PROVE  TypeOK
<1>1. Basics /\ TargetsRight /\ DiskTyped /\ CacheOK /\ sb \in SuperBlocks
  BY DEF IInv, Basics
<1>2. DOMAIN disk = Blocks
  BY <1>1 DEF DiskTyped
<1>3. /\ disk[SB] \in SuperBlocks /\ disk[Jsb] \in Headers
      /\ \A b \in FsBlocks : disk[b] \in FsContents
  BY <1>1, DiskIs
<1>4. \A e \in DOMAIN cache : cache[e].tag \in Blocks
  BY <1>1, CacheIs DEF Entries
<1>5. Len(cache) <= CacheBlocks
  BY <1>1 DEF CacheOK
<1>6. targets \in Seq(FsBlocks \cup {SB}) /\ k \in 0 .. N + 1
  BY <1>1 DEF TargetsRight, Homes
<1>7. pc \in {"off", "replay", "rflush", "idle", "inode", "desc", "data", "copy",
              "point", "barrier", "checkpoint", "reset", "closing"}
  BY DEF IInv, Recovering, Closed
<1> QED BY <1>1, <1>2, <1>3, <1>4, <1>5, <1>6, <1>7 DEF TypeOK, Headers

(* Whatever is committed, refused, torn or replayed, the device holds      *)
(* blocks of their kind, the cache never outgrows its slots, and the       *)
(* write-set is one of file-system blocks and the superblock               *)
(* (Transaction_Commit, Open and Close with Block_Cache.Acquire).          *)
THEOREM TypeCorrect ==
  ASSUME LogErrorsOnly
  PROVE  Spec => []TypeOK
<1>1. Spec => []IInv
  BY Inductive
<1>2. IInv => TypeOK
  BY TypesHold
<1> QED BY <1>1, <1>2, PTL

(* Outside of recovery no flush puts back an old superblock, journal       *)
(* superblock or log block over what Transaction_Commit wrote past the     *)
(* cache.                                                                  *)
THEOREM DirectBlocksStayClean ==
  ASSUME LogErrorsOnly
  PROVE  Spec => []DirectBlocksClean
<1>1. Spec => []IInv
  BY Inductive
<1>2. IInv => DirectBlocksClean
  <2>1. SUFFICES ASSUME IInv, Mounted, NEW e \in DirtyEntries PROVE cache[e].tag \in FsBlocks
    BY DEF DirectBlocksClean
  <2>2. cache[e].tag \in Dirty
    BY DEF Dirty
  <2> QED BY <2>1, <2>2 DEF IInv, Basics, DirtyRight
<1> QED BY <1>1, <1>2, PTL
-------------------------------------------------------------------------------
(* What a mount ends with, and what the callers see, block by block.       *)
Base == [b \in Homes |-> Found(b)]

LEMMA DurableAt == IInv /\ pc # "rflush" => Durable = Shown(Base)
<1> SUFFICES ASSUME IInv, pc # "rflush" PROVE Durable = Shown(Base)
  OBVIOUS
<1>1. DiskTyped /\ SeqsPast /\ (Believed => LogWhole)
  BY BelievedWhole DEF IInv, Basics
<1> QED BY <1>1, DurableIs DEF Base

LEMMA DurableNext == (IInv /\ pc # "rflush" => Durable = Shown(Base))'
BY DurableAt, PTL

LEMMA FlushingAt == pc = "rflush" => Durable = Shown(Seen)
BY DurableFlushing

LEMMA FlushingNext == (pc = "rflush" => Durable = Shown(Seen))'
BY FlushingAt, PTL

(* The state as callers of the mounted volume see it.                      *)
Callers == [b \in Homes |-> IF b = SB THEN Count(sb.free) ELSE Seen[b]]

LEMMA CallersAt == Mounted => Working = Callers
BY WorkingIs DEF Callers

LEMMA CallersNext == (Mounted => Working = Callers)'
BY CallersAt, PTL

LEMMA ClosedAt == ~Mounted => Working = Durable
BY DEF Working

LEMMA ClosedNext == (~Mounted => Working = Durable)'
BY ClosedAt, PTL

LEMMA CallersSame ==
  ASSUME sb' = sb, \A b \in FsBlocks : Seen'[b] = Seen[b]
  PROVE  Callers' = Callers
<1>1. \A b \in Homes : b # SB => Seen'[b] = Seen[b]
  BY DEF Homes
<1> QED BY <1>1 DEF Callers

LEMMA WorkingSame ==
  ASSUME Mounted, Mounted', sb' = sb, \A b \in FsBlocks : Seen'[b] = Seen[b]
  PROVE  Working' = Working
BY CallersSame, CallersAt, CallersNext

LEMMA ShownSame ==
  ASSUME NEW f, NEW g, \A b \in FsBlocks : f[b] = g[b], f[SB].free = g[SB].free
  PROVE  Shown(f) = Shown(g)
<1>1. \A b \in Homes : b # SB => f[b] = g[b]
  BY DEF Homes
<1> QED BY <1>1 DEF Shown

LEMMA BaseAt ==
  /\ \A b \in FsBlocks : Base[b] = Found(b) /\ Base'[b] = Found(b)'
  /\ Base[SB] = Found(SB) /\ Base'[SB] = Found(SB)'
BY DEF Base, Homes

(* What the next mount finds is the same as long as no block of it changes.*)
LEMMA DurableSame ==
  ASSUME IInv, IInv', pc # "rflush", pc' # "rflush",
         \A b \in FsBlocks : Found(b)' = Found(b),
         Found(SB)'.free = Found(SB).free
  PROVE  Durable' = Durable
<1>1. Durable = Shown(Base) /\ Durable' = Shown(Base')
  <2>1. Shown(Base)' = Shown(Base')
    BY DEF Shown
  <2> QED BY <2>1, DurableAt, DurableNext
<1>2. PICK f, g : f = Base /\ g = Base'
  OBVIOUS
<1>3. Shown(f) = Shown(g)
  <2>1. \A b \in FsBlocks : f[b] = g[b]
    BY <1>2, BaseAt
  <2>2. f[SB].free = g[SB].free
    BY <1>2, BaseAt
  <2> QED BY <2>1, <2>2, ShownSame
<1> QED BY <1>1, <1>2, <1>3

LEMMA DiskFound ==
  ASSUME disk' = disk
  PROVE  \A b : Found(b)' = Found(b)
<1>1. Believed' <=> Believed
  BY DEF Believed, Starts
<1>2. \A b : (InLog(b)' <=> InLog(b)) /\ LoggedFor(b)' = LoggedFor(b)
  BY DiskSame
<1> QED BY <1>1, <1>2 DEF Found

LEMMA DiskDurable ==
  ASSUME IInv, IInv', pc # "rflush", pc' # "rflush", disk' = disk
  PROVE  Durable' = Durable
BY DiskFound, DurableSame

LEMMA Unbelieved ==
  /\ ~Believed => \A b : Found(b) = disk[b]
  /\ ~Believed' => \A b : Found(b)' = disk'[b]
BY DEF Found

(* The state before and after a step that is not believed.                 *)
LEMMA UnbelievedDurable ==
  ASSUME IInv, IInv', pc # "rflush", pc' # "rflush", ~Believed, ~Believed',
         \A b \in FsBlocks : disk'[b] = disk[b], disk'[SB].free = disk[SB].free
  PROVE  Durable' = Durable
BY Unbelieved, DurableSame

LEMMA ClosedUnbelieved == IInv /\ (Closed \/ pc = "reset") => ~Believed
BY DEF IInv, FlagsRight, Believed

LEMMA ClosedUnbelievedNext == (IInv /\ (Closed \/ pc = "reset") => ~Believed)'
BY ClosedUnbelieved, PTL

(* The next mount finds what callers of this one see, where the            *)
(* transaction is committed, ...                                           *)
LEMMA Committed == IInv /\ SetHoldsAll /\ Filled /\ Believed => Durable = Working
<1> SUFFICES ASSUME IInv, SetHoldsAll, Filled, Believed PROVE Durable = Working
  OBVIOUS
<1>1. /\ LogWhole /\ Tags = targets
      /\ \A i \in 1 .. N : disk[Log(i)] = Image(targets[i])
      /\ \A c \in Dirty : \E i \in 1 .. N : targets[i] = c
  BY FilledLog
<1>2. Basics /\ TargetsRight /\ DiskTyped /\ CleanRight /\ Mounted /\ Committing /\ pc # "rflush"
  BY DEF IInv, Basics, Mounted, Filled, Committing
<1>3. N = Len(Tags) /\ targets \in Seq(Homes) /\ \E i \in 1 .. N : targets[i] = SB
  BY <1>1, <1>2 DEF N, TargetsRight
<1>4. Starts
  BY DEF Believed
<1>5. ASSUME NEW i \in 1 .. N PROVE Found(targets[i]) = Image(targets[i])
  <2>1. LoggedFor(Tags[i]) = disk[Log(i)]
    BY <1>1, <1>2, <1>3, LoggedIs
  <2>2. InLog(Tags[i])
    BY <1>3, <1>4 DEF InLog
  <2> QED BY <1>1, <2>1, <2>2 DEF Found
<1>6. Found(SB).free = sb.free
  <2>1. PICK i \in 1 .. N : targets[i] = SB
    BY <1>3
  <2>2. Found(SB) = Image(SB)
    BY <1>5, <2>1
  <2> QED BY <2>2 DEF Image, SuperBlock
<1>7. ASSUME NEW b \in FsBlocks PROVE Found(b) = Seen[b]
  <2>1. CASE \E i \in 1 .. N : targets[i] = b
    <3>1. Found(b) = Image(b)
      BY <1>5, <2>1
    <3> QED BY <3>1, Geometry DEF Image
  <2>2. CASE \A i \in 1 .. N : targets[i] # b
    <3>1. b \notin Dirty /\ b \in Blocks
      BY <1>1, <2>2, Geometry
    <3>2. Seen[b] = disk[b]
      BY <1>2, <3>1 DEF CleanRight
    <3>3. ~InLog(b)
      BY <1>1, <1>3, <2>2 DEF InLog
    <3> QED BY <3>2, <3>3 DEF Found
  <2> QED BY <2>1, <2>2
<1>8. Durable = Shown(Base) /\ Working = Callers
  BY <1>2, DurableAt, CallersAt
<1>9. Shown(Base) = Callers
  <2>1. \A b \in Homes : b # SB => Base[b] = Seen[b]
    BY <1>7, BaseAt DEF Homes
  <2>2. Base[SB].free = sb.free
    BY <1>6, BaseAt
  <2> QED BY <2>1, <2>2 DEF Shown, Callers
<1> QED BY <1>8, <1>9

LEMMA CommittedNext ==
  (IInv /\ SetHoldsAll /\ Filled /\ Believed => Durable = Working)'
BY Committed, PTL

(* ... and where the whole volume is clean and its superblock is home.     *)
LEMMA AllHome ==
  IInv /\ Mounted /\ ~Believed /\ Dirty = {} /\ disk[SB].free = sb.free => Durable = Working
<1> SUFFICES ASSUME IInv, Mounted, ~Believed, Dirty = {}, disk[SB].free = sb.free
             PROVE  Durable = Working
  OBVIOUS
<1>1. CleanRight /\ pc # "rflush"
  BY DEF IInv, Basics, Mounted
<1>2. \A b \in FsBlocks : Found(b) = Seen[b]
  BY <1>1, Unbelieved, Geometry DEF CleanRight
<1>3. Found(SB).free = sb.free
  BY Unbelieved
<1>4. Durable = Shown(Base) /\ Working = Callers
  BY <1>1, DurableAt, CallersAt
<1>5. Shown(Base) = Callers
  <2>1. \A b \in Homes : b # SB => Base[b] = Seen[b]
    BY <1>2, BaseAt DEF Homes
  <2>2. Base[SB].free = sb.free
    BY <1>3, BaseAt
  <2> QED BY <2>1, <2>2 DEF Shown, Callers
<1> QED BY <1>4, <1>5

LEMMA AllHomeNext ==
  (IInv /\ Mounted /\ ~Believed /\ Dirty = {} /\ disk[SB].free = sb.free => Durable = Working)'
BY AllHome, PTL
-------------------------------------------------------------------------------
(* What each step does to the two states.                                  *)
LEMMA OpenShows ==
  ASSUME IInv, IInv', Open
  PROVE  Durable' = Durable /\ Working' = Working /\ ~Mounted
<1>1. pc = "off" /\ sb' = disk[SB] /\ UNCHANGED cachevars
  BY DEF Open
<1>2. disk' = disk /\ Dirty' = Dirty /\ Dirty = {} /\ CacheOK
  <2>1. cache = <<>> /\ CacheOK
    BY <1>1 DEF IInv, Basics, DirtyRight
  <2>2. Dirty = {}
    BY <2>1 DEF Dirty, DirtyEntries
  <2> QED BY <1>1, <2>1, <2>2, CacheStays
<1>3. Working = Durable /\ ~Mounted
  BY <1>1, ClosedAt DEF Mounted
<1>4. pc' \in {"replay", "idle"} /\ (pc' = "idle" => ~disk[SB].recover)
  BY <1>1 DEF Open
<1>5. Durable' = Durable
  BY <1>1, <1>2, <1>4, DiskDurable
<1>6. CASE pc' = "replay"
  BY <1>3, <1>5, <1>6, ClosedNext DEF Mounted
<1>7. CASE pc' = "idle"
  <2>1. Mounted' /\ ~Believed' /\ Dirty' = {} /\ disk'[SB].free = sb'.free
    BY <1>1, <1>2, <1>4, <1>7 DEF Mounted, Believed
  <2>2. Durable' = Working'
    BY <2>1, AllHomeNext
  <2> QED BY <1>3, <1>5, <2>2
<1> QED BY <1>3, <1>4, <1>5, <1>6, <1>7

(* A step of recovery may write a block of the log home already.           *)
LEMMA ReplayFound ==
  ASSUME IInv, Replay
  PROVE  /\ \A c \in Homes : Found(c)' = Found(c)
         /\ \A c \in Homes : ~InLog(c) => disk'[c] = disk[c]
         /\ Believed <=> Starts
<1>1. /\ disk'[SB].recover /\ disk'[Jsb] = disk[Jsb]
      /\ \A c \in LogBlocks : disk'[c] = disk[c]
      /\ \A c \in Blocks : disk'[c] = disk[c] \/ (Replays(c) /\ disk'[c] = NewOf(c))
  BY ReplayKeeps
<1>2. pc = "replay"
  BY DEF Replay
<1>3. DiskTyped /\ disk[SB].recover /\ (Starts => LogWhole)
  BY <1>2 DEF IInv, Basics, ReplayRight, FlagsRight
<1>4. /\ Starts' = Starts
      /\ LogWhole => \A c : LoggedFor(c)' = LoggedFor(c) \/ ~InLog(c)
      /\ \A c : InLog(c)' <=> InLog(c)
  BY <1>1, <1>3, LogStays
<1>5. (Believed <=> Starts) /\ (Believed' <=> Starts)
  BY <1>1, <1>3, <1>4 DEF Believed
<1>6. ASSUME NEW c \in Homes, ~InLog(c) PROVE disk'[c] = disk[c]
  <2>1. c \in Blocks /\ c # Jsb
    BY Geometry DEF Homes
  <2> QED BY <1>1, <1>6, <2>1 DEF Replays
<1>7. ASSUME NEW c \in Homes PROVE Found(c)' = Found(c)
  <2>1. CASE InLog(c)
    <3>1. Starts
      BY <2>1 DEF InLog
    <3>2. LoggedFor(c)' = LoggedFor(c) /\ InLog(c)'
      BY <1>3, <1>4, <2>1, <3>1
    <3> QED BY <1>5, <2>1, <3>1, <3>2 DEF Found
  <2>2. CASE ~InLog(c)
    BY <1>4, <1>6, <2>2 DEF Found
  <2> QED BY <2>1, <2>2
<1> QED BY <1>5, <1>6, <1>7

LEMMA ReplayShows ==
  ASSUME IInv, IInv', Replay
  PROVE  Durable' = Durable /\ Working' = Working /\ ~Mounted /\ ~Mounted'
<1>1. pc = "replay" /\ pc' = IF plan' = <<>> THEN "rflush" ELSE "replay"
  BY DEF Replay
<1>2. /\ \A c \in Dirty' : Replays(c) /\ Seen'[c] = NewOf(c)
      /\ plan' = <<>> =>
           \A c \in Blocks : Replays(c) => c \in Dirty' \/ disk'[c] = NewOf(c)
  BY ReplayKeeps
<1>3. ~Mounted /\ ~Mounted' /\ Working = Durable /\ Working' = Durable'
  BY <1>1, ClosedAt, ClosedNext DEF Mounted
<1>4. CASE pc' # "rflush"
  <2>1. Durable' = Durable
    BY <1>1, <1>4, ReplayFound, DurableSame DEF Homes
  <2> QED BY <1>3, <2>1
<1>5. CASE pc' = "rflush"
  <2>1. Durable' = Shown(Seen') /\ Durable = Shown(Base)
    <3>1. Shown(Seen)' = Shown(Seen')
      BY DEF Shown
    <3> QED BY <1>1, <1>5, <3>1, FlushingNext, DurableAt
  <2>2. \A c \in Blocks : Replays(c) => c \in Dirty' \/ disk'[c] = NewOf(c)
    BY <1>1, <1>2, <1>5
  <2>3. \A c \in Blocks \ Dirty' : Seen'[c] = disk'[c]
    BY <1>3 DEF IInv, Basics, CleanRight
  <2>4. ASSUME NEW b \in Homes PROVE Seen'[b] = Found(b)
    <3>1. b \in Blocks /\ b # Jsb
      BY Geometry DEF Homes
    <3>2. CASE InLog(b)
      <4>1. Replays(b) /\ NewOf(b) = LoggedFor(b) /\ Starts
        BY <3>1, <3>2 DEF Replays, NewOf, InLog
      <4>2. Seen'[b] = NewOf(b)
        BY <1>2, <2>2, <2>3, <3>1, <4>1
      <4> QED BY <3>2, <4>1, <4>2, ReplayFound DEF Found
    <3>3. CASE ~InLog(b)
      <4>1. b \notin Dirty'
        BY <1>2, <3>1, <3>3 DEF Replays
      <4>2. Seen'[b] = disk[b]
        BY <2>3, <3>1, <3>3, <4>1, ReplayFound
      <4> QED BY <3>3, <4>2 DEF Found
    <3> QED BY <3>2, <3>3
  <2>5. PICK f, g : f = Base /\ g = Seen'
    OBVIOUS
  <2>6. \A b \in FsBlocks : f[b] = g[b]
    BY <2>4, <2>5, BaseAt DEF Homes
  <2>7. f[SB].free = g[SB].free
    BY <2>4, <2>5, BaseAt DEF Homes
  <2>8. Shown(f) = Shown(g)
    BY <2>6, <2>7, ShownSame
  <2> QED BY <1>3, <2>1, <2>5, <2>8
<1> QED BY <1>4, <1>5

LEMMA ReplayFlushShows ==
  ASSUME IInv, IInv', ReplayFlush
  PROVE  Durable' = Durable /\ Working' = Working /\ ~Mounted /\ ~Mounted'
<1>1. pc = "rflush" /\ pc' = "rflush" /\ FlushStep
  BY DEF ReplayFlush
<1>2. Seen' = Seen
  BY <1>1, FlushShows DEF IInv, Basics, DiskTyped
<1>3. Durable' = Shown(Seen') /\ Durable = Shown(Seen)
  <2>1. Shown(Seen)' = Shown(Seen')
    BY DEF Shown
  <2> QED BY <1>1, <2>1, FlushingNext, FlushingAt
<1>4. ~Mounted /\ ~Mounted' /\ Working = Durable /\ Working' = Durable'
  BY <1>1, ClosedAt, ClosedNext DEF Mounted
<1> QED BY <1>2, <1>3, <1>4

LEMMA RereadShows ==
  ASSUME IInv, IInv', Reread
  PROVE  Durable' = Durable /\ Working' = Working /\ ~Mounted
<1>1. pc = "rflush" /\ pc' = "idle" /\ AllClean /\ sb' = disk[SB] /\ UNCHANGED cachevars
  BY DEF Reread
<1>2. Basics /\ FlushRight /\ CleanRight /\ ~Mounted
  BY <1>1 DEF IInv, Basics, Mounted
<1>3. Dirty = {} /\ disk' = disk /\ Seen' = Seen /\ Dirty' = Dirty
  BY <1>1, <1>2, DirtyIs, CacheStays DEF Basics
<1>4. Mounted' /\ ~Believed' /\ disk'[SB].free = sb'.free
  BY <1>1, <1>2, <1>3 DEF Mounted, Believed, Starts, FlushRight
<1>5. Durable' = Working'
  BY <1>3, <1>4, AllHomeNext
<1>6. Durable = Shown(Seen)
  BY <1>1, FlushingAt
<1>7. Working' = Callers'
  BY <1>4, CallersNext
<1>8. Callers' = Shown(Seen)
  <2>1. Seen[SB] = disk[SB]
    BY <1>2, <1>3, Geometry DEF CleanRight
  <2> QED BY <1>1, <1>3, <2>1 DEF Callers, Shown
<1>9. Working = Durable
  BY <1>2, ClosedAt
<1> QED BY <1>2, <1>5, <1>6, <1>7, <1>8, <1>9

(* Edits, reads and those of a commit leave what a mount finds, as long as *)
(* they push no edited block home.                                         *)
LEMMA CacheOnlyShows ==
  ASSUME IInv, IInv', Accessing => disk' = disk,
         \/ \E b \in FsBlocks, v \in Values, n \in Counts : Edit(b, v, n)
         \/ \E b \in FsBlocks : Look(b)
         \/ CommitBegin \/ ReadJournal \/ Tag \/ Fetch \/ Close
  PROVE  /\ Durable' = Durable /\ Mounted /\ pc # "closing" /\ Mounted'
         /\ pc' = "closing" => Close /\ Working' = Working
         /\ Close => pc' = "closing"
<1>1. CASE ~Close
  <2>1. Accessing /\ pc' \in {"idle", "inode", "desc", "copy"}
    BY <1>1 DEF Accessing, Edit, Look, CommitBegin, ReadJournal, Tag, Fetch
  <2>2. /\ pc \notin {"off", "replay", "rflush", "closing"}
        /\ pc' \notin {"off", "replay", "rflush", "closing"}
    BY <2>1 DEF Accessing
  <2> QED BY <1>1, <2>1, <2>2, DiskDurable DEF Mounted
<1>2. CASE Close
  <2>1. pc = "idle" /\ pc' = "closing" /\ UNCHANGED cachevars /\ sb' = sb
    BY <1>2 DEF Close
  <2>2. disk' = disk /\ Seen' = Seen
    BY <2>1, CacheStays
  <2>3. Durable' = Durable
    BY <2>1, <2>2, DiskDurable
  <2>4. Mounted /\ Mounted'
    BY <2>1 DEF Mounted
  <2>5. Working' = Working
    BY <2>1, <2>2, <2>4, WorkingSame
  <2> QED BY <1>2, <2>1, <2>3, <2>4, <2>5
<1> QED BY <1>1, <1>2

(* So do the writes to the log and the failed ones.                        *)
LEMMA LogWriteShows ==
  ASSUME IInv, IInv', LogErrorsOnly,
         WriteDescriptor \/ WriteData \/ WriteCommitBlock \/ DeviceError
  PROVE  /\ Durable' = Durable /\ Mounted /\ pc # "closing"
         /\ Mounted' /\ pc' # "closing"
<1>1. Filling /\ pc' \in {"data", "point", "idle"} /\ \A c \in Homes \cup {Jsb} : disk'[c] = disk[c]
  <2>1. CASE DeviceError
    BY <2>1, DeviceErrorKeeps
  <2>2. CASE WriteDescriptor \/ WriteData \/ WriteCommitBlock
    <3>1. Filling /\ pc' \in {"data", "point"} /\ Put(NextWrite)
      BY <2>2 DEF WriteDescriptor, WriteData, WriteCommitBlock, Filling
    <3>2. PICK p \in 0 .. LogLen - 1 : NextWrite.blk = Log(p)
      BY <3>1, NextWriteInLog
    <3>3. LogLen \in LogLens /\ disk \in [Blocks -> Contents]
      BY DiskIs DEF IInv, Basics, DiskTyped
    <3>4. Log(p) \in LogBlocks /\ Log(p) \in Blocks
      BY <3>3, LogAt
    <3>5. Log(p) \notin Homes /\ Log(p) # Jsb /\ Homes \subseteq Blocks /\ Jsb \in Blocks
      BY <3>4, Regions, Geometry DEF Homes
    <3>6. disk' = [disk EXCEPT ![Log(p)] = NextWrite.val]
      BY <3>1, <3>2 DEF Put
    <3> QED BY <3>1, <3>3, <3>5, <3>6
  <2> QED BY <2>1, <2>2
<1>2. ~Believed
  BY <1>1, BelievedWhole
<1>3. ~Believed'
  BY <1>1, <1>2 DEF Believed, Starts, Homes
<1>4. pc # "rflush" /\ pc' # "rflush"
  BY <1>1 DEF Filling
<1>5. Durable' = Durable
  BY <1>1, <1>2, <1>3, <1>4, UnbelievedDurable DEF Homes
<1> QED BY <1>1, <1>5 DEF Filling, Mounted

(* The two commit points.                                                  *)
LEMMA CommitPointShows ==
  ASSUME IInv, IInv', SetHoldsAll, PointJournal \/ RaiseRecover
  PROVE  /\ Durable' = Durable \/ Durable' = Working
         /\ Working' = Working /\ pc \in {"point", "barrier"} /\ pc' \in {"barrier", "checkpoint"}
<1>1. /\ pc \in {"point", "barrier"} /\ pc' \in {"barrier", "checkpoint"} /\ sb' = sb
      /\ RaiseRecover => pc = "barrier"
      /\ PointJournal => pc = "point"
  BY DEF PointJournal, RaiseRecover
<1>2. /\ \A c \in FsBlocks : disk'[c] = disk[c] /\ Seen'[c] = Seen[c]
      /\ PointJournal => disk'[SB] = disk[SB]
      /\ RaiseRecover => disk'[SB].recover /\ disk'[Jsb] = disk[Jsb]
  BY PointJournalKeeps, RaiseRecoverKeeps
<1>3. Mounted /\ Mounted' /\ Filled'
  BY <1>1 DEF Mounted, Filled
<1>4. Working' = Working
  BY <1>1, <1>2, <1>3, WorkingSame
<1>5. CASE Believed'
  <2>1. Durable' = Working'
    BY <1>3, <1>5, CommittedNext
  <2> QED BY <1>1, <1>4, <2>1
<1>6. CASE ~Believed'
  <2>1. PointJournal
    <3>1. RaiseRecover => Starts
      BY <1>1 DEF IInv, FlagsRight
    <3> QED BY <1>2, <1>6, <3>1 DEF Believed, Starts
  <2>2. ~Believed
    BY <1>1, <2>1, ClosedUnbelieved DEF Closed
  <2>3. Durable' = Durable
    BY <1>1, <1>2, <1>6, <2>1, <2>2, UnbelievedDurable
  <2> QED BY <1>1, <1>4, <2>3
<1> QED BY <1>5, <1>6

(* What follows them brings the blocks home, which was already found.      *)
LEMMA CheckpointShows ==
  ASSUME IInv, IInv', SetHoldsAll, Checkpoint \/ ClearRecover
  PROVE  /\ Durable' = Durable /\ Mounted /\ pc # "closing" /\ Mounted' /\ pc' # "closing"
<1>1. /\ pc = "checkpoint" /\ pc' \in {"checkpoint", "reset"} /\ sb' = sb
      /\ Checkpoint => FlushStep /\ pc' = "checkpoint"
      /\ ClearRecover => pc' = "reset"
  BY DEF Checkpoint, ClearRecover
<1>2. Mounted /\ Mounted' /\ Filled
  BY <1>1 DEF Mounted, Filled
<1>3. Believed
  BY <1>1 DEF IInv, FlagsRight, Believed
<1>4. Durable = Working
  BY <1>2, <1>3, Committed
<1>5. CASE Checkpoint
  <2>1. Seen' = Seen
    BY <1>1, <1>2, <1>5, HomeStays
  <2>2. Working' = Working
    BY <1>1, <1>2, <2>1, WorkingSame
  <2>3. Filled' /\ Believed'
    BY <1>1, <1>5 DEF IInv, FlagsRight, Believed, Filled
  <2>4. Durable' = Working'
    BY <2>3, CommittedNext
  <2> QED BY <1>1, <1>2, <1>4, <2>2, <2>4
<1>6. CASE ClearRecover
  <2>1. /\ ~disk'[SB].recover /\ Dirty = {} /\ disk'[SB].free = sb.free
        /\ \A c \in FsBlocks : Seen'[c] = Seen[c]
    BY <1>6, ClearRecoverKeeps
  <2>2. ~Believed'
    BY <2>1 DEF Believed
  <2>3. Working' = Working
    BY <1>1, <1>2, <2>1, WorkingSame
  <2>4. Dirty' = {}
    <3>1. cache' = cache
      BY <1>6 DEF ClearRecover, Put
    <3> QED BY <2>1, <3>1 DEF Dirty, DirtyEntries
  <2>5. Durable' = Working'
    BY <1>1, <1>2, <2>1, <2>2, <2>4, AllHomeNext
  <2> QED BY <1>1, <1>2, <1>4, <2>3, <2>5
<1> QED BY <1>5, <1>6

LEMMA ResetJournalShows ==
  ASSUME IInv, IInv', ResetJournal
  PROVE  /\ Durable' = Durable /\ Mounted /\ pc # "closing" /\ Mounted' /\ pc' # "closing"
<1>1. pc = "reset" /\ pc' = "idle"
  BY DEF ResetJournal
<1>2. /\ ~disk[SB].recover /\ disk'[SB] = disk[SB]
      /\ \A c \in FsBlocks : disk'[c] = disk[c]
  BY ResetJournalKeeps
<1>3. ~Believed /\ ~Believed'
  BY <1>2 DEF Believed
<1>4. Durable' = Durable
  BY <1>1, <1>2, <1>3, UnbelievedDurable
<1> QED BY <1>1, <1>4 DEF Mounted

(* Close writes home what was never committed, block by block.             *)
LEMMA CloseFlushShows ==
  ASSUME IInv, IInv', CloseFlush
  PROVE  /\ pc = "closing" /\ pc' = "closing" /\ Working' = Working
         /\ \E b \in Homes : Durable' = [Durable EXCEPT ![b] = Working[b]]
<1>1. pc = "closing" /\ pc' = "closing" /\ FlushStep /\ sb' = sb
  BY DEF CloseFlush
<1>2. Mounted /\ Mounted'
  BY <1>1 DEF Mounted
<1>3. PICK b \in FsBlocks \cap Dirty :
           /\ Seen' = Seen /\ disk'[b] = Seen[b] /\ \A c \in Homes \ {b} : disk'[c] = disk[c]
  BY <1>1, <1>2, HomeStays
<1>4. ~Believed /\ ~Believed'
  BY <1>1, ClosedUnbelieved, ClosedUnbelievedNext DEF Closed
<1>5. Working = Callers /\ Working' = Callers' /\ Callers' = Callers
  BY <1>1, <1>2, <1>3, CallersAt, CallersNext, CallersSame
<1>6. Durable = Shown(Base) /\ Durable' = Shown(Base')
  <2>1. Shown(Base)' = Shown(Base')
    BY DEF Shown
  <2> QED BY <1>1, <2>1, DurableAt, DurableNext
<1>7. b \in Homes /\ b # SB
  BY Geometry DEF Homes
<1>8. PICK f, g : f = Base /\ g = Base'
  OBVIOUS
<1>9. g[b] = Seen[b] /\ \A c \in Homes \ {b} : g[c] = f[c]
  BY <1>3, <1>4, <1>7, <1>8, Unbelieved DEF Base
<1>10. Shown(g) = [Shown(f) EXCEPT ![b] = Callers[b]]
  <2>1. Callers[b] = g[b]
    BY <1>7, <1>9 DEF Callers
  <2> QED BY <1>7, <1>9, <2>1 DEF Shown
<1> QED BY <1>1, <1>5, <1>6, <1>7, <1>8, <1>10

(* The end of a close, by its last write or by a power cut.                *)
AllButOne == \E b \in Homes : \A c \in Homes \ {b} : Durable'[c] = Durable[c]

LEMMA DurableBlocks ==
  /\ IInv /\ pc # "rflush" =>
       \A c \in Homes : Durable[c] = IF c = SB THEN Count(Found(c).free) ELSE Found(c)
  /\ IInv' /\ pc' # "rflush" =>
       \A c \in Homes : Durable'[c] = IF c = SB THEN Count(Found(c)'.free) ELSE Found(c)'
<1>1. ASSUME IInv, pc # "rflush", NEW c \in Homes
      PROVE  Durable[c] = IF c = SB THEN Count(Found(c).free) ELSE Found(c)
  <2>1. Durable = Shown(Base)
    BY <1>1, DurableAt
  <2> QED BY <2>1 DEF Shown, Base
<1>2. ASSUME IInv', pc' # "rflush", NEW c \in Homes
      PROVE  Durable'[c] = IF c = SB THEN Count(Found(c)'.free) ELSE Found(c)'
  <2>1. Durable' = Shown(Base)'
    BY <1>2, DurableNext
  <2> QED BY <2>1 DEF Shown, Base
<1> QED BY <1>1, <1>2

LEMMA OneBlock ==
  ASSUME IInv, IInv', pc # "rflush", pc' # "rflush", ~Believed, ~Believed',
         NEW b \in Homes, \A c \in Homes \ {b} : disk'[c] = disk[c]
  PROVE  AllButOne
<1>1. \A c \in Homes \ {b} : Found(c)' = Found(c)
  BY Unbelieved
<1>2. \A c \in Homes \ {b} : Durable'[c] = Durable[c]
  BY <1>1, DurableBlocks
<1> QED BY <1>2 DEF AllButOne

LEMMA SyncShows ==
  ASSUME IInv, IInv', Sync
  PROVE  pc = "closing" /\ pc' = "off" /\ AllButOne /\ Working' = Durable'
<1>1. pc = "closing" /\ pc' = "off"
  BY DEF Sync
<1>2. ~Believed /\ ~Believed' /\ \A c \in FsBlocks : disk'[c] = disk[c]
  BY SyncKeeps
<1>3. \A c \in Homes \ {SB} : disk'[c] = disk[c]
  BY <1>2 DEF Homes
<1>4. AllButOne
  BY <1>1, <1>2, <1>3, OneBlock DEF Homes
<1> QED BY <1>1, <1>4, ClosedNext DEF Mounted

(* A power cut brings back what a mount would have found anyway.           *)
LEMMA PowerCutShows ==
  ASSUME IInv, IInv', SetHoldsAll, RecoveryWhole, Accessing => disk' = disk, PowerCut
  PROVE  /\ pc' = "off" /\ Working' = Durable'
         /\ pc # "closing" => Durable' = Durable
         /\ pc = "closing" => AllButOne
<1>1. /\ pc # "rflush" /\ pc' = "off" /\ pc # "off"
      /\ disk' \in {disk} \cup {[disk EXCEPT ![b] = Torn] : b \in InFlight}
  BY DEF PowerCut, RecoveryWhole
<1>2. Working' = Durable'
  BY <1>1, ClosedNext DEF Mounted
<1>3. PICK b \in Blocks :
              /\ \A c \in Blocks \ {b} : disk'[c] = disk[c]
              /\ disk' = disk \/ (b \in InFlight /\ b \in Blocks \ {SB, Jsb})
  BY <1>1, TornKeeps
<1>4. /\ (Believed' <=> Believed) /\ (Believed => LogWhole')
      /\ \A c : InLog(c)' /\ Believed <=> InLog(c) /\ Believed
      /\ \A c : Believed /\ InLog(c) => LoggedFor(c)' = LoggedFor(c)
  BY PowerCutKeeps
<1>5. Homes \subseteq Blocks /\ FsBlocks \subseteq Homes /\ SB \in Homes
  BY Geometry DEF Homes
<1>6. ASSUME NEW c \in Homes, c # b \/ disk' = disk PROVE Found(c)' = Found(c)
  <2>1. disk'[c] = disk[c]
    BY <1>3, <1>5, <1>6
  <2> QED BY <1>4, <2>1 DEF Found
<1>7. CASE disk' = disk
  <2>1. Durable' = Durable
    BY <1>1, <1>7, DiskDurable
  <2>2. AllButOne
    BY <1>5, <2>1 DEF AllButOne
  <2> QED BY <1>1, <1>2, <2>1, <2>2
<1>8. CASE disk' # disk
  <2>1. b \in InFlight /\ b # SB
    BY <1>3, <1>8
  <2>2. /\ b \in FsBlocks \/ b \in LogBlocks
        /\ b \in FsBlocks => b \in Dirty /\ pc \in {"replay", "checkpoint", "closing"}
        /\ b \in LogBlocks => Filling
    BY <1>1, <1>8, <2>1, InFlightIs
  <2>3. CASE b \in LogBlocks
    <3>1. \A c \in Homes : c # b
      BY <2>3, Regions, <1>5 DEF Homes
    <3>2. \A c \in Homes : Found(c)' = Found(c)
      BY <1>6, <3>1
    <3>3. Durable' = Durable
      BY <1>1, <1>5, <3>2, DurableSame
    <3>4. pc # "closing"
      BY <2>2, <2>3 DEF Filling
    <3> QED BY <1>1, <1>2, <3>3, <3>4
  <2>4. CASE b \in FsBlocks /\ pc \in {"replay", "checkpoint"}
    <3>1. Believed /\ InLog(b)
      <4>1. CASE pc = "checkpoint"
        <5>1. Filled /\ Believed
          BY <4>1 DEF IInv, FlagsRight, Believed, Filled
        <5>2. Tags = targets /\ \E i \in 1 .. N : targets[i] = b
          BY <2>2, <2>4, <5>1, FilledLog
        <5>3. Starts /\ N = Len(Tags)
          BY <5>1, <5>2 DEF Believed, N
        <5> QED BY <5>1, <5>2, <5>3 DEF InLog
      <4>2. CASE pc = "replay"
        <5>1. disk[SB].recover /\ Replays(b) /\ b # Jsb
          BY <2>2, <2>4, <4>2, Geometry DEF IInv, ReplayRight
        <5> QED BY <5>1 DEF Replays, InLog, Believed
      <4> QED BY <2>4, <4>1, <4>2
    <3>2. Found(b)' = Found(b)
      BY <1>4, <3>1 DEF Found
    <3>3. \A c \in Homes : Found(c)' = Found(c)
      BY <1>6, <3>2
    <3>4. Durable' = Durable
      BY <1>1, <1>5, <3>3, DurableSame
    <3> QED BY <1>1, <1>2, <2>4, <3>4
  <2>5. CASE b \in FsBlocks /\ pc = "closing"
    <3>1. ~Believed /\ ~Believed'
      BY <1>4, <2>5, ClosedUnbelieved DEF Closed
    <3>2. \A c \in Homes \ {b} : disk'[c] = disk[c]
      BY <1>3, <1>5
    <3>3. AllButOne
      BY <1>1, <1>5, <2>5, <3>1, <3>2, OneBlock
    <3> QED BY <1>1, <1>2, <2>5, <3>3
  <2> QED BY <1>1, <2>2, <2>3, <2>4, <2>5
<1> QED BY <1>7, <1>8

LEMMA StutterShows ==
  ASSUME IInv, IInv', UNCHANGED vars
  PROVE  Durable' = Durable /\ Working' = Working /\ (Mounted' <=> Mounted) /\ pc' = pc
<1>1. UNCHANGED cachevars /\ pc' = pc /\ sb' = sb
  BY DEF vars, cachevars
<1>2. disk' = disk /\ Seen' = Seen /\ (Mounted' <=> Mounted)
  BY <1>1, CacheStays DEF Mounted
<1>3. Durable' = Durable
  <2>1. CASE pc # "rflush"
    BY <1>1, <1>2, <2>1, DiskDurable
  <2>2. CASE pc = "rflush"
    <3>1. Shown(Seen)' = Shown(Seen)
      BY <1>2 DEF Shown
    <3> QED BY <1>1, <2>2, <3>1, FlushingAt, FlushingNext
  <2> QED BY <2>1, <2>2
<1>4. Working' = Working
  BY <1>1, <1>2, <1>3, WorkingSame, ClosedAt, ClosedNext
<1> QED BY <1>1, <1>2, <1>3, <1>4
-------------------------------------------------------------------------------
(* Every step is one of the abstract store, or none.                       *)
Mode == CASE ~Mounted -> "closed"
          [] pc = "closing" -> "closing"
          [] OTHER -> "open"

LEMMA ModeAt ==
  /\ ~Mounted => Mode = "closed"
  /\ Mounted /\ pc = "closing" => Mode = "closing"
  /\ Mounted /\ pc # "closing" => Mode = "open"
<1>1. ASSUME ~Mounted PROVE Mode = "closed"
  BY <1>1 DEF Mode, Mounted
<1>2. ASSUME Mounted, pc = "closing" PROVE Mode = "closing"
  BY <1>2 DEF Mode
<1>3. ASSUME Mounted, pc # "closing" PROVE Mode = "open"
  BY <1>3 DEF Mode
<1> QED BY <1>1, <1>2, <1>3

LEMMA ModeNext ==
  (/\ ~Mounted => Mode = "closed"
   /\ Mounted /\ pc = "closing" => Mode = "closing"
   /\ Mounted /\ pc # "closing" => Mode = "open")'
BY ModeAt, PTL

(* The step of the store that each step of the mount shows.                 *)
Frozen == Durable' = Durable /\ Working' = Working /\ Mode' = Mode

LEMMA OpenMaps ==
  ASSUME IInv, IInv', Open \/ Replay \/ ReplayFlush \/ Reread
  PROVE  Frozen \/ Store!Open
<1>1. Durable' = Durable /\ Working' = Working /\ ~Mounted
  BY OpenShows, ReplayShows, ReplayFlushShows, RereadShows
<1>2. Mounted' => pc' # "closing"
  BY DEF Open, Replay, ReplayFlush, Reread, FlushStep, Mounted
<1>3. Mode = "closed" /\ Mode' \in {"closed", "open"}
  BY <1>1, <1>2, ModeAt, ModeNext
<1> QED BY <1>1, <1>3 DEF Frozen, Mode, Store!Open

LEMMA OpenStays ==
  ASSUME Durable' = Durable, Mounted, pc # "closing", Mounted', pc' # "closing"
  PROVE  Store!Edit
<1>1. Mode = "open" /\ Mode' = "open"
  BY ModeAt, ModeNext
<1> QED BY <1>1 DEF Mode, Store!Edit

LEMMA CacheOnlyMaps ==
  ASSUME IInv, IInv', Accessing => disk' = disk,
         \/ \E b \in FsBlocks, v \in Values, n \in Counts : Edit(b, v, n)
         \/ \E b \in FsBlocks : Look(b)
         \/ CommitBegin \/ ReadJournal \/ Tag \/ Fetch \/ Close
  PROVE  Store!Edit \/ Store!BeginClose
<1>1. /\ Durable' = Durable /\ Mounted /\ pc # "closing" /\ Mounted'
      /\ pc' = "closing" => Working' = Working
  BY CacheOnlyShows
<1>2. CASE pc' = "closing"
  <2>1. Mode = "open" /\ Mode' = "closing"
    BY <1>1, <1>2, ModeAt, ModeNext
  <2> QED BY <1>1, <1>2, <2>1 DEF Store!BeginClose
<1>3. CASE pc' # "closing"
  BY <1>1, <1>3, OpenStays
<1> QED BY <1>2, <1>3

LEMMA CommitMaps ==
  ASSUME IInv, IInv', SetHoldsAll, PointJournal \/ RaiseRecover
  PROVE  Store!Edit \/ Store!Commit
<1>1. /\ Durable' = Durable \/ Durable' = Working
      /\ Working' = Working /\ pc \in {"point", "barrier"} /\ pc' \in {"barrier", "checkpoint"}
  BY CommitPointShows
<1>2. /\ Mounted /\ Mounted' /\ pc # "closing" /\ pc' # "closing"
  BY <1>1 DEF Mounted
<1>3. Mode = "open" /\ Mode' = "open"
  BY <1>2, ModeAt, ModeNext
<1> QED BY <1>1, <1>3 DEF Mode, Store!Edit, Store!Commit

LEMMA CloseMaps ==
  ASSUME IInv, IInv', CloseFlush \/ Sync
  PROVE  Store!WriteHome \/ Store!EndClose
<1>1. CASE CloseFlush
  <2>1. /\ pc = "closing" /\ pc' = "closing" /\ Working' = Working
        /\ \E b \in Homes : Durable' = [Durable EXCEPT ![b] = Working[b]]
    BY <1>1, CloseFlushShows
  <2>2. Mounted /\ Mounted'
    BY <2>1 DEF Mounted
  <2>3. Mode = "closing" /\ Mode' = "closing"
    BY <2>1, <2>2, ModeAt, ModeNext
  <2> QED BY <2>1, <2>3 DEF Mode, Store!WriteHome, Homes
<1>2. CASE Sync
  <2>1. pc = "closing" /\ pc' = "off" /\ AllButOne /\ Working' = Durable'
    BY <1>2, SyncShows
  <2>2. Mounted /\ ~Mounted'
    BY <2>1 DEF Mounted
  <2>3. Mode = "closing" /\ Mode' = "closed"
    BY <2>1, <2>2, ModeAt, ModeNext
  <2> QED BY <2>1, <2>3 DEF Mode, Store!EndClose, Store!AllButOneKept, AllButOne, Homes
<1> QED BY <1>1, <1>2

LEMMA PowerCutMaps ==
  ASSUME IInv, IInv', SetHoldsAll, RecoveryWhole, Accessing => disk' = disk, PowerCut
  PROVE  Frozen \/ Store!PowerCut \/ Store!EndClose
<1>1. /\ pc' = "off" /\ Working' = Durable'
      /\ pc # "closing" => Durable' = Durable
      /\ pc = "closing" => AllButOne
  BY PowerCutShows
<1>2. Mode' = "closed"
  BY <1>1, ModeNext DEF Mounted
<1>3. CASE ~Mounted
  <2>1. pc # "closing" /\ Mode = "closed" /\ Working = Durable
    BY <1>3, ModeAt, ClosedAt DEF Mounted
  <2> QED BY <1>1, <1>2, <2>1 DEF Frozen
<1>4. CASE Mounted /\ pc # "closing"
  <2>1. Mode = "open"
    BY <1>4, ModeAt
  <2> QED BY <1>1, <1>2, <1>4, <2>1 DEF Mode, Store!PowerCut
<1>5. CASE Mounted /\ pc = "closing"
  <2>1. Mode = "closing"
    BY <1>5, ModeAt
  <2> QED BY <1>1, <1>2, <1>5, <2>1 DEF Mode, Store!EndClose, Store!AllButOneKept, AllButOne, Homes
<1> QED BY <1>3, <1>4, <1>5

LEMMA StepMaps ==
  ASSUME IInv, IInv', LogErrorsOnly, SetHoldsAll, RecoveryWhole,
         Accessing => disk' = disk, [Next]_vars
  PROVE  Frozen \/ Store!Next
<1>1. CASE Open \/ Replay \/ ReplayFlush \/ Reread
  BY <1>1, OpenMaps DEF Store!Next
<1>2. CASE \/ \E b \in FsBlocks, v \in Values, n \in Counts : Edit(b, v, n)
           \/ \E b \in FsBlocks : Look(b)
           \/ CommitBegin \/ ReadJournal \/ Tag \/ Fetch \/ Close
  BY <1>2, CacheOnlyMaps DEF Store!Next
<1>3. CASE WriteDescriptor \/ WriteData \/ WriteCommitBlock \/ DeviceError
  BY <1>3, LogWriteShows, OpenStays DEF Store!Next
<1>4. CASE PointJournal \/ RaiseRecover
  BY <1>4, CommitMaps DEF Store!Next
<1>5. CASE Checkpoint \/ ClearRecover
  BY <1>5, CheckpointShows, OpenStays DEF Store!Next
<1>6. CASE ResetJournal
  BY <1>6, ResetJournalShows, OpenStays DEF Store!Next
<1>7. CASE CloseFlush \/ Sync
  BY <1>7, CloseMaps DEF Store!Next
<1>8. CASE PowerCut
  BY <1>8, PowerCutMaps DEF Store!Next
<1>9. CASE UNCHANGED vars
  <2>1. Durable' = Durable /\ Working' = Working /\ (Mounted' <=> Mounted) /\ pc' = pc
    BY <1>9, StutterShows
  <2>2. Mode' = Mode
    BY <2>1, ModeAt, ModeNext
  <2> QED BY <2>1, <2>2 DEF Frozen
<1> QED BY <1>1, <1>2, <1>3, <1>4, <1>5, <1>6, <1>7, <1>8, <1>9 DEF Next

(* While the mount is open nothing but a commit changes what the next      *)
(* mount would find.                                                       *)
LEMMA StepAtomic ==
  ASSUME IInv, IInv', LogErrorsOnly, SetHoldsAll, RecoveryWhole,
         Accessing => disk' = disk, [Next]_vars, Durable' # Durable, pc # "closing"
  PROVE  pc \in {"point", "barrier"} /\ Durable' = Working
<1>1. ~(Open \/ Replay \/ ReplayFlush \/ Reread)
  BY OpenShows, ReplayShows, ReplayFlushShows, RereadShows
<1>2. ~ \/ \E b \in FsBlocks, v \in Values, n \in Counts : Edit(b, v, n)
        \/ \E b \in FsBlocks : Look(b)
        \/ CommitBegin \/ ReadJournal \/ Tag \/ Fetch \/ Close
  BY CacheOnlyShows
<1>3. ~(WriteDescriptor \/ WriteData \/ WriteCommitBlock \/ DeviceError)
  BY LogWriteShows
<1>4. ~(Checkpoint \/ ClearRecover) /\ ~ResetJournal
  BY CheckpointShows, ResetJournalShows
<1>5. ~CloseFlush /\ ~Sync
  BY CloseFlushShows, SyncShows
<1>6. ~PowerCut /\ ~UNCHANGED vars
  BY PowerCutShows, StutterShows
<1>7. PointJournal \/ RaiseRecover
  BY <1>1, <1>2, <1>3, <1>4, <1>5, <1>6 DEF Next
<1> QED BY <1>7, CommitPointShows

(* Commits are atomic: the one step of Commit that changes what the next   *)
(* mount finds is the write that makes the journal believed, and it brings *)
(* the whole of what the callers see.  This is so for every number of      *)
(* blocks, log length and cache size, in every run in which no access      *)
(* pushes an edited block home before it is committed (the caller's duty,  *)
(* fs.ads:113); clean blocks, and any block while Replay runs, are evicted *)
(* freely.  It also rests on device errors only while the log is   *)
(* written, on a write-set with room for every slot of the cache, and on   *)
(* recovery not being cut short.                                           *)
THEOREM CommitsAreAtomic ==
  ASSUME LogErrorsOnly, SetHoldsAll, RecoveryWhole
  PROVE  Spec /\ WriteSetFits => CommitIsAtomic
<1>1. IInv /\ IInv' /\ [Next]_vars /\ [Accessing => disk' = disk]_vars
      => [Durable' # Durable /\ pc # "closing"
           => pc \in {"point", "barrier"} /\ Durable' = Working]_vars
  BY StepAtomic
<1> QED BY <1>1, Inductive, PTL DEF Spec, WriteSetFits, CommitIsAtomic

(* The mount implements the abstract store, in the same runs and under the *)
(* same assumptions: edits become durable all together in the step that    *)
(* commits them, or, after a power cut, not at all, except that Close      *)
(* writes what was not committed home block by block.                      *)
THEOREM ImplementsStore ==
  ASSUME LogErrorsOnly, SetHoldsAll, RecoveryWhole
  PROVE  Spec /\ WriteSetFits => ImplementsAtomicStore
<1>1. Init => Store!Init
  <2> SUFFICES ASSUME Init PROVE Store!Init
    OBVIOUS
  <2>1. ~Mounted
    BY DEF Init, Mounted
  <2>2. Mode = "closed" /\ Working = Durable
    BY <2>1, ModeAt, ClosedAt
  <2> QED BY <2>2 DEF Mode, Store!Init
<1>2. IInv /\ IInv' /\ [Next]_vars /\ [Accessing => disk' = disk]_vars
      => [Store!Next]_Store!vars
  <2> SUFFICES ASSUME IInv, IInv', [Next]_vars, [Accessing => disk' = disk]_vars, ~Store!Next
               PROVE  UNCHANGED Store!vars
    OBVIOUS
  <2>1. Accessing => disk' = disk
    BY DEF vars
  <2>2. Frozen
    BY <2>1, StepMaps
  <2> QED BY <2>2 DEF Frozen, Mode, Store!vars
<1> QED BY <1>1, <1>2, Inductive, PTL DEF Spec, WriteSetFits, ImplementsAtomicStore, Store!Spec
===============================================================================
