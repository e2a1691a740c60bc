----------------------------- MODULE CachedDevice -----------------------------
(***************************************************************************)
(* The block cache alone, under any order of reads, writes and flushes, on *)
(* a device that may fail a command.  A Flush is a run of FlushSteps; one  *)
(* that a device error cuts short leaves the rest dirty.  All callers hold *)
(* the file system's lock, so operations do not overlap.                   *)
(***************************************************************************)
EXTENDS BlockCache

CONSTANTS
  Values,     \* block contents
  Torn        \* a block half-written or half-read

VARIABLES
  last,       \* history: what the callers last wrote to each block
  spoiled     \* history: blocks a failed Load left in the cache unread

vars == <<disk, cache, recent, last, spoiled>>

ASSUME TornAssumption == Torn \notin Values

Contents == Values \cup {Torn}

TypeOK ==
  /\ disk \in [Blocks -> Contents]
  /\ cache \in Seq([tag : Blocks, dirty : BOOLEAN, val : Contents])
  /\ Len(cache) <= CacheBlocks
  /\ recent \in Seq(Blocks)
  /\ last \in [Blocks -> Values]
  /\ spoiled \subseteq Blocks

Init ==
  /\ \E v \in Values : disk = [b \in Blocks |-> v]
  /\ cache = CacheEmpty /\ recent = <<>>
  /\ last = disk
  /\ spoiled = {}

ReadBlock(b) == Read(b) /\ UNCHANGED <<last, spoiled>>

(* Write replaces the whole block, Write_At a part of it.                  *)
WriteBlock(b, v) ==
  /\ Write(b, v)
  /\ last' = [last EXCEPT ![b] = v]
  /\ spoiled' = spoiled \ {b}

PatchBlock(b, v) ==
  /\ Write(b, IF b \in spoiled THEN Torn ELSE v)
  /\ last' = [last EXCEPT ![b] = v]
  /\ UNCHANGED spoiled

FlushOne == FlushStep /\ UNCHANGED <<last, spoiled>>

(* Done: flush, then release.                                              *)
Release ==
  /\ AllClean /\ cache # CacheEmpty
  /\ Drop
  /\ UNCHANGED <<disk, last, spoiled>>

StoreError ==
  /\ \E e \in DOMAIN cache : cache[e].dirty /\ StoreFails(e, Torn)
  /\ UNCHANGED <<last, spoiled>>

(* Acquire: the slot still holds the block evicted from it, or, if it was  *)
(* free, whatever the heap held.                                           *)
LoadError(b) ==
  /\ LoadFails(b, IF Victim \in DOMAIN cache THEN cache[Victim].val ELSE Torn)
  /\ spoiled' = spoiled \cup {b}
  /\ UNCHANGED last

Next ==
  \/ \E b \in Blocks : ReadBlock(b) \/ LoadError(b)
  \/ \E b \in Blocks, v \in Values : WriteBlock(b, v) \/ PatchBlock(b, v)
  \/ FlushOne \/ Release \/ StoreError

Spec == Init /\ [][Next]_vars

---------------------------------------------------------------------------
(* Properties                                                              *)

(* A block reads back as it was last written, through every eviction,      *)
(* failed write and flush: "write-back" never loses or resurrects data.    *)
(* Only the block whose own Load failed is spoiled, and no other.          *)
ReadsLastWrite == \A b \in Blocks \ spoiled : View(b) = last[b]

(* A block is in one slot at most, so no stale second copy can be flushed  *)
(* over it (Acquire looks before it chooses a victim).                     *)
OneSlotPerBlock ==
  \A d, e \in DOMAIN cache : cache[d].tag = cache[e].tag => d = e

(* What is not marked dirty is on the device as it is in the cache: after  *)
(* a whole Flush a power cut costs nothing.                                *)
CleanIsStored ==
  \A b \in Blocks \ spoiled :
    (Resident(b) => ~cache[EntryOf(b)].dirty) => disk[b] = last[b]

(* The CacheBlocks - 1 blocks used last survive the next access, so an     *)
(* operation that works on a few blocks never pushes out its own.          *)
RecentStay ==
  [][\A b \in Blocks :
       /\ cache' # CacheEmpty
       /\ \E i \in DOMAIN recent : recent[i] = b /\ Len(recent) - i < CacheBlocks - 1
       => Resident(b)']_vars
===============================================================================
