------------------------------ MODULE BlockCache ------------------------------
(***************************************************************************)
(* ESP32S3.Ext4.Block_Cache: a write-back cache of file-system blocks over *)
(* a block device, least recently used out first.  The entries are kept in *)
(* the order of their slots in the pool, because Flush and Dirty_Tags walk *)
(* them in that order.                                                     *)
(*                                                                         *)
(* This module has the state and the operations; CachedDevice drives them  *)
(* alone, and Journal as the file system does.                             *)
(***************************************************************************)
EXTENDS Naturals, Sequences, FiniteSets

CONSTANTS
  Blocks,      \* the blocks of the device
  CacheBlocks  \* C.Count: entries in the cache

ASSUME CacheAssumption == CacheBlocks \in Nat \ {0} /\ IsFiniteSet(Blocks)

VARIABLES
  disk,    \* the device: block -> contents
  cache,   \* C.Meta and C.Pool: the entries filled so far, slot by slot
  recent   \* their tags, least recently used first (Meta.Used)

cachevars == <<disk, cache, recent>>

Entry(tag, dirty, val) == [tag |-> tag, dirty |-> dirty, val |-> val]

(* Mutant: the walk over the slots misses the last one.                    *)
ResidentShort(b) == \E e \in DOMAIN cache : e < CacheBlocks /\ cache[e].tag = b

Resident(b) == \E e \in DOMAIN cache : cache[e].tag = b
EntryOf(b) == CHOOSE e \in DOMAIN cache : cache[e].tag = b

(* What a reader of block b gets.                                          *)
View(b) == IF Resident(b) THEN cache[EntryOf(b)].val ELSE disk[b]

CacheEmpty == <<>>

---------------------------------------------------------------------------
(* Acquire                                                                 *)

(* Mutant: the entry used last goes first.                                 *)
VictimNewest ==
  IF Len(cache) < CacheBlocks THEN Len(cache) + 1
  ELSE EntryOf(recent[Len(recent)])

(* A free slot, else the entry unused for longest.                         *)
Victim ==
  IF Len(cache) < CacheBlocks THEN Len(cache) + 1 ELSE EntryOf(Head(recent))

VictimDirty == Victim \in DOMAIN cache /\ cache[Victim].dirty

(* Mutant: a dirty victim is forgotten.                                    *)
EvictedDiskLossy == disk

(* Store of a dirty victim.                                                *)
EvictedDisk ==
  IF VictimDirty THEN [disk EXCEPT ![cache[Victim].tag] = cache[Victim].val]
  ELSE disk

(* Mutant: a full cache grows.                                             *)
InVictimAppend(entry) == Append(cache, entry)

InVictim(entry) ==
  IF Victim \in DOMAIN cache THEN [cache EXCEPT ![Victim] = entry]
  ELSE Append(cache, entry)

(* recent without t, which is in it.                                       *)
Without(t) ==
  LET at == CHOOSE i \in DOMAIN recent : recent[i] = t
  IN [i \in 1 .. Len(recent) - 1 |-> recent[IF i < at THEN i ELSE i + 1]]

(* The order after b was used; kept only where something can be evicted.   *)
UsedLast(b) ==
  LET others == IF Resident(b) THEN Without(b)
                ELSE IF Victim \in DOMAIN cache THEN Without(cache[Victim].tag)
                ELSE recent
  IN IF Cardinality(Blocks) <= CacheBlocks THEN <<>> ELSE Append(others, b)

(* Bring b in if it is not there, and leave entry in its slot.             *)
Access(b, entry) ==
  /\ recent' = UsedLast(b)
  /\ IF Resident(b)
       THEN cache' = [cache EXCEPT ![EntryOf(b)] = entry] /\ UNCHANGED disk
       ELSE cache' = InVictim(entry) /\ disk' = EvictedDisk

---------------------------------------------------------------------------
(* Operations                                                              *)

Read(b) ==
  Access(b, Entry(b, Resident(b) /\ cache[EntryOf(b)].dirty, View(b)))

Write(b, new) == Access(b, Entry(b, TRUE, new))

DirtyEntries == {e \in DOMAIN cache : cache[e].dirty}
AllClean == DirtyEntries = {}
FirstDirty == CHOOSE e \in DirtyEntries : \A d \in DirtyEntries : e <= d

(* Dirty_Tags, in the order of the slots.                                  *)
DirtyTags ==
  LET gathered[e \in 0 .. Len(cache)] ==
        IF e = 0 THEN <<>>
        ELSE IF cache[e].dirty THEN Append(gathered[e - 1], cache[e].tag)
        ELSE gathered[e - 1]
  IN gathered[Len(cache)]

(* Mutant: the entry is marked clean, the block is not written.            *)
FlushStepLossy ==
  /\ ~AllClean
  /\ cache' = [cache EXCEPT ![FirstDirty].dirty = FALSE]
  /\ UNCHANGED <<disk, recent>>

(* Flush, one block at a time.                                             *)
FlushStep ==
  /\ ~AllClean
  /\ disk' = [disk EXCEPT ![cache[FirstDirty].tag] = cache[FirstDirty].val]
  /\ cache' = [cache EXCEPT ![FirstDirty].dirty = FALSE]
  /\ UNCHANGED recent

Drop == cache' = CacheEmpty /\ recent' = <<>>

(* The device fails a Store: the entry stays dirty, the block it was for   *)
(* may be half-written.                                                    *)
StoreFails(e, torn) ==
  /\ disk' \in {disk, [disk EXCEPT ![cache[e].tag] = torn]}
  /\ UNCHANGED <<cache, recent>>

(* The device fails a Load: Acquire has already given the slot its new     *)
(* tag, and what the pool held is still, wholly or in part, under it.      *)
LoadFails(b, leftover) ==
  /\ ~Resident(b)
  /\ Access(b, Entry(b, FALSE, leftover))
===============================================================================
