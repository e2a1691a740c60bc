--------------------------- MODULE CachedDeviceProofs ---------------------------
(***************************************************************************)
(* Proofs about CachedDevice, for every set of blocks, every cache size    *)
(* and every contents: the type invariant, that a block has one slot, that *)
(* a block reads back as it was last written, that what is clean is on the *)
(* device, and that the blocks used last are not evicted.                  *)
(***************************************************************************)
EXTENDS CachedDevice, FiniteSetTheorems, SequenceTheorems,
        WellFoundedInduction, TLAPS

(* A set of natural numbers that is not empty has a least one.             *)
LEMMA LeastOne ==
  ASSUME NEW T \in SUBSET Nat, T # {}
  PROVE  \E k \in T : \A j \in T : k <= j
<1> DEFINE less == {ss \in Nat \X Nat : ss[1] < ss[2]}
<1>1. IsWellFoundedOn(less, Nat)
  BY NatLessThanWellFounded DEF OpToRel
<1>2. \E k \in T : \A j \in T : ~(<<j, k>> \in less)
  <2> HIDE DEF less
  <2> QED BY <1>1, WFMin
<1>3. PICK k \in T : \A j \in T : ~(<<j, k>> \in less)
  BY <1>2
<1>4. \A j \in T : <<j, k>> \in Nat \X Nat /\ j \in Nat /\ k \in Nat
  OBVIOUS
<1>5. \A j \in T : ~(j < k)
  BY <1>3, <1>4
<1> QED BY <1>4, <1>5

Entries == [tag : Blocks, dirty : BOOLEAN, val : Contents]

(* An access can push a block out.                                         *)
Evicts == Cardinality(Blocks) > CacheBlocks

(* The order of use lists the cached blocks, each once.                    *)
Listed ==
  /\ Len(recent) = Len(cache)
  /\ \A i \in DOMAIN recent : Resident(recent[i])
  /\ \A e \in DOMAIN cache : \E i \in DOMAIN recent : recent[i] = cache[e].tag
  /\ \A i, j \in DOMAIN recent : recent[i] = recent[j] => i = j

RecentOK == IF Evicts THEN Listed ELSE recent = <<>>

(* Slot by slot and block by block, what the properties say of a reader's  *)
(* view.                                                                   *)
EntriesRight ==
  \A e \in DOMAIN cache : cache[e].tag \notin spoiled =>
    /\ cache[e].val = last[cache[e].tag]
    /\ ~cache[e].dirty => disk[cache[e].tag] = last[cache[e].tag]

AwayRight == \A b \in Blocks \ spoiled : ~Resident(b) => disk[b] = last[b]

IInv == TypeOK /\ OneSlotPerBlock /\ RecentOK /\ EntriesRight /\ AwayRight
-------------------------------------------------------------------------------
LEMMA Sizes ==
  /\ CacheBlocks \in Nat /\ CacheBlocks > 0
  /\ IsFiniteSet(Blocks) /\ Cardinality(Blocks) \in Nat
BY CacheAssumption, FS_CardinalityType

LEMMA CacheIs ==
  ASSUME TypeOK
  PROVE  /\ Len(cache) \in Nat /\ DOMAIN cache = 1 .. Len(cache)
         /\ \A e \in DOMAIN cache : cache[e] \in Entries
         /\ Len(recent) \in Nat /\ DOMAIN recent = 1 .. Len(recent)
         /\ \A i \in DOMAIN recent : recent[i] \in Blocks
         /\ Len(cache) <= CacheBlocks
<1>1. cache \in Seq(Entries) /\ recent \in Seq(Blocks) /\ Len(cache) <= CacheBlocks
  BY DEF TypeOK, Entries
<1>2. Len(cache) \in Nat /\ DOMAIN cache = 1 .. Len(cache)
  BY <1>1
<1>3. \A e \in DOMAIN cache : cache[e] \in Entries
  BY <1>1
<1>4. Len(recent) \in Nat /\ DOMAIN recent = 1 .. Len(recent)
  BY <1>1
<1>5. \A i \in DOMAIN recent : recent[i] \in Blocks
  BY <1>1
<1> QED BY <1>1, <1>2, <1>3, <1>4, <1>5

LEMMA EntryOfIs ==
  ASSUME NEW b, Resident(b)
  PROVE  EntryOf(b) \in DOMAIN cache /\ cache[EntryOf(b)].tag = b
BY DEF Resident, EntryOf

LEMMA EntryOfOwn ==
  ASSUME OneSlotPerBlock, NEW e \in DOMAIN cache
  PROVE  EntryOf(cache[e].tag) = e
<1>1. Resident(cache[e].tag)
  BY DEF Resident
<1>2. EntryOf(cache[e].tag) \in DOMAIN cache /\ cache[EntryOf(cache[e].tag)].tag = cache[e].tag
  BY <1>1, EntryOfIs
<1> QED BY <1>2 DEF OneSlotPerBlock

(* A cache that is full and lacks a block is smaller than the device.      *)
LEMMA FullEvicts ==
  ASSUME TypeOK, OneSlotPerBlock, Len(cache) = CacheBlocks,
         NEW b \in Blocks, ~Resident(b)
  PROVE  Evicts
<1> DEFINE S == 1 .. CacheBlocks
           B == Blocks \ {b}
           f == [e \in S |-> cache[e].tag]
<1>1. DOMAIN cache = S /\ \A e \in S : cache[e].tag \in Blocks
  BY CacheIs DEF Entries
<1>2. \A e \in S : cache[e].tag # b
  BY <1>1 DEF Resident
<1>3. f \in [S -> B]
  BY <1>1, <1>2
<1>4. \A d, e \in S : f[d] = f[e] => d = e
  BY <1>1 DEF OneSlotPerBlock
<1>5. IsFiniteSet(B) /\ Cardinality(B) = Cardinality(Blocks) - 1
  BY Sizes, FS_RemoveElement
<1>6. IsFiniteSet(S) /\ Cardinality(S) = CacheBlocks
  BY Sizes, FS_Interval
<1>7. Cardinality(B) \in Nat /\ ~(Cardinality(B) < Cardinality(S))
  <2>1. Cardinality(B) \in Nat
    BY <1>5, FS_CardinalityType
  <2> HIDE DEF S, B, f
  <2> QED BY <2>1, <1>3, <1>4, <1>5, <1>6, FS_PigeonHole
<1> QED BY <1>5, <1>6, <1>7, Sizes DEF Evicts

(* Where Acquire puts a block that is not there.                           *)
LEMMA VictimIs ==
  ASSUME TypeOK, OneSlotPerBlock, RecentOK, NEW b \in Blocks, ~Resident(b)
  PROVE  \/ /\ Len(cache) < CacheBlocks /\ Victim = Len(cache) + 1
            /\ Victim \notin DOMAIN cache
         \/ /\ Len(cache) = CacheBlocks /\ Evicts
            /\ Len(recent) = CacheBlocks
            /\ Victim \in DOMAIN cache /\ cache[Victim].tag = recent[1]
<1>1. CASE Len(cache) < CacheBlocks
  BY <1>1, CacheIs DEF Victim
<1>2. CASE ~(Len(cache) < CacheBlocks)
  <2>1. Len(cache) = CacheBlocks
    <3>1. Len(cache) \in Nat /\ Len(cache) <= CacheBlocks
      BY CacheIs
    <3> QED BY <1>2, <3>1, Sizes
  <2>2. Evicts /\ Listed
    BY <2>1, FullEvicts DEF RecentOK
  <2>3. Len(recent) = CacheBlocks /\ 1 \in DOMAIN recent
    BY <2>1, <2>2, CacheIs, Sizes DEF Listed
  <2>4. Head(recent) = recent[1]
    <3>1. recent \in Seq(Blocks) /\ Len(recent) > 0
      BY <2>3, Sizes DEF TypeOK
    <3>2. recent # <<>>
      BY <3>1
    <3> QED BY <3>1, <3>2
  <2>5. Victim = EntryOf(recent[1]) /\ Resident(recent[1])
    BY <1>2, <2>2, <2>3, <2>4 DEF Victim, Listed
  <2> QED BY <2>1, <2>2, <2>3, <2>5, EntryOfIs
<1> QED BY <1>1, <1>2
-------------------------------------------------------------------------------
(* An access: one slot k gets the entry, which was the block's own, a free *)
(* one or that of the block used longest ago.                              *)
Slot(b) == IF Resident(b) THEN EntryOf(b) ELSE Victim

LEMMA AccessSlot ==
  ASSUME TypeOK, OneSlotPerBlock, RecentOK, NEW b \in Blocks,
         NEW entry \in Entries, Access(b, entry),
         NEW k, k = Slot(b)
  PROVE  /\ k \in 1 .. Len(cache) + 1 /\ k <= CacheBlocks
         /\ cache' \in Seq(Entries)
         /\ Len(cache') = (IF k \in DOMAIN cache THEN Len(cache) ELSE Len(cache) + 1)
         /\ cache'[k] = entry
         /\ \A e \in DOMAIN cache \ {k} : cache'[e] = cache[e]
<1>0. cache \in Seq(Entries)
  BY DEF TypeOK, Entries
<1>1. k \in 1 .. Len(cache) + 1 /\ k <= CacheBlocks
  <2>0. Len(cache) \in Nat /\ DOMAIN cache = 1 .. Len(cache) /\ Len(cache) <= CacheBlocks
    BY CacheIs
  <2>1. CASE Resident(b)
    <3>1. k \in DOMAIN cache
      BY <2>1, EntryOfIs DEF Slot
    <3> QED BY <2>0, <3>1, Sizes
  <2>2. CASE ~Resident(b)
    <3>1. k = Victim
      BY <2>2 DEF Slot
    <3> QED BY <2>0, <2>2, <3>1, VictimIs, Sizes
  <2> QED BY <2>1, <2>2
<1>2. cache' = IF k \in DOMAIN cache THEN [cache EXCEPT ![k] = entry] ELSE Append(cache, entry)
  <2>1. CASE Resident(b)
    BY <2>1, EntryOfIs DEF Slot, Access
  <2>2. CASE ~Resident(b)
    BY <2>2 DEF Slot, Access, InVictim
  <2> QED BY <2>1, <2>2
<1>3. CASE k \in DOMAIN cache
  <2>1. cache' = [cache EXCEPT ![k] = entry]
    BY <1>2, <1>3
  <2> QED BY <1>0, <1>1, <1>3, <2>1
<1>4. CASE k \notin DOMAIN cache
  <2>1. cache' = Append(cache, entry) /\ k = Len(cache) + 1
    BY <1>0, <1>1, <1>2, <1>4
  <2> QED BY <1>0, <1>1, <1>4, <2>1
<1> QED BY <1>3, <1>4

(* What reaches the device: the victim, if it is dirty.                    *)
LEMMA AccessDisk ==
  ASSUME TypeOK, OneSlotPerBlock, RecentOK, NEW b \in Blocks,
         NEW entry, Access(b, entry), NEW k, k = Slot(b)
  PROVE  disk' = IF ~Resident(b) /\ k \in DOMAIN cache /\ cache[k].dirty
                   THEN [disk EXCEPT ![cache[k].tag] = cache[k].val] ELSE disk
BY DEF Slot, Access, EvictedDisk, VictimDirty

(* w lists what recent lists, but t.                                       *)
Drops(w, t) ==
  /\ w \in Seq(Blocks) /\ Len(w) = Len(recent) - 1
  /\ \A i \in DOMAIN w : w[i] # t /\ \E j \in DOMAIN recent : w[i] = recent[j]
  /\ \A j \in DOMAIN recent : recent[j] # t => \E i \in DOMAIN w : w[i] = recent[j]
  /\ \A i, j \in DOMAIN w : w[i] = w[j] => i = j

LEMMA WithoutIs ==
  ASSUME TypeOK, Listed, NEW e \in DOMAIN cache
  PROVE  Drops(Without(cache[e].tag), cache[e].tag)
<1> DEFINE w == Without(cache[e].tag)
<1> DEFINE t == cache[e].tag
           at == CHOOSE i \in DOMAIN recent : recent[i] = t
           n == Len(recent)
<1>1. n \in Nat /\ DOMAIN recent = 1 .. n /\ \A i \in 1 .. n : recent[i] \in Blocks
  BY CacheIs
<1>2. at \in 1 .. n /\ recent[at] = t
  BY <1>1 DEF Listed
<1>3. w = [i \in 1 .. n - 1 |-> recent[IF i < at THEN i ELSE i + 1]]
  BY DEF Without
<1> HIDE DEF w
<1>4. \A i, j \in 1 .. n : recent[i] = recent[j] => i = j
  BY <1>1 DEF Listed
<1> HIDE DEF t, at, n
<1>5. n - 1 \in Nat
  BY <1>1, <1>2
<1>6. \A i \in 1 .. n - 1 : w[i] \in Blocks
  BY <1>1, <1>3
<1>7. w \in Seq(Blocks) /\ Len(w) = n - 1 /\ DOMAIN w = 1 .. n - 1
  BY <1>3, <1>5, <1>6
<1>8. \A i \in 1 .. n - 1 : w[i] # t /\ \E j \in 1 .. n : w[i] = recent[j]
  BY <1>1, <1>2, <1>3, <1>4
<1>9. ASSUME NEW j \in 1 .. n, recent[j] # t
      PROVE  \E i \in 1 .. n - 1 : w[i] = recent[j]
  <2>1. CASE j < at
    <3>1. j \in 1 .. n - 1 /\ w[j] = recent[j]
      BY <1>1, <1>2, <1>3, <2>1
    <3> QED BY <3>1
  <2>2. CASE j > at
    <3>1. j - 1 \in 1 .. n - 1 /\ w[j - 1] = recent[j]
      BY <1>1, <1>2, <1>3, <2>2
    <3> QED BY <3>1
  <2> QED BY <1>1, <1>2, <1>9, <2>1, <2>2
<1>10. \A i, j \in 1 .. n - 1 : w[i] = w[j] => i = j
  <2> DEFINE from(i) == IF i < at THEN i ELSE i + 1
  <2>1. \A i \in 1 .. n - 1 : from(i) \in 1 .. n /\ w[i] = recent[from(i)]
    BY <1>1, <1>2, <1>3
  <2>2. \A i, j \in 1 .. n - 1 : from(i) = from(j) => i = j
    BY <1>1, <1>2
  <2> HIDE DEF from
  <2> QED BY <1>4, <2>1, <2>2
<1>11. \A i \in DOMAIN w : w[i] # t /\ \E j \in DOMAIN recent : w[i] = recent[j]
  BY <1>1, <1>7, <1>8
<1>12. \A j \in DOMAIN recent : recent[j] # t => \E i \in DOMAIN w : w[i] = recent[j]
  BY <1>1, <1>7, <1>9
<1>13. \A i, j \in DOMAIN w : w[i] = w[j] => i = j
  BY <1>7, <1>10
<1>14. w \in Seq(Blocks) /\ Len(w) = Len(recent) - 1
  BY <1>7 DEF n
<1> QED BY <1>11, <1>12, <1>13, <1>14 DEF t, w, Drops

(* After an access of b the cached blocks are b and those that were cached *)
(* and are not in the slot b got.                                          *)
LEMMA ResidentAfter ==
  ASSUME TypeOK, OneSlotPerBlock, RecentOK, NEW b \in Blocks,
         NEW entry \in Entries, entry.tag = b, Access(b, entry),
         NEW k, k = Slot(b)
  PROVE  /\ OneSlotPerBlock'
         /\ \A c : Resident(c)' <=> c = b \/ \E e \in DOMAIN cache \ {k} : cache[e].tag = c
         /\ \A e \in DOMAIN cache \ {k} : cache[e].tag # b
         /\ Len(cache') <= CacheBlocks
<1> DEFINE n == Len(cache)
           m == Len(cache')
<1>1. /\ k \in 1 .. n + 1 /\ k <= CacheBlocks
      /\ m = (IF k \in DOMAIN cache THEN n ELSE n + 1)
      /\ cache'[k] = entry /\ \A e \in DOMAIN cache \ {k} : cache'[e] = cache[e]
      /\ cache' \in Seq(Entries)
  BY AccessSlot
<1>2. n \in Nat /\ DOMAIN cache = 1 .. n /\ n <= CacheBlocks
  BY CacheIs
<1>3. DOMAIN cache' = 1 .. m
  BY <1>1
<1> HIDE DEF n, m
<1>4. DOMAIN cache' = (DOMAIN cache \ {k}) \cup {k}
  BY <1>1, <1>2, <1>3
<1>5. ASSUME NEW e \in DOMAIN cache \ {k} PROVE cache[e].tag # b
  <2>1. CASE Resident(b)
    BY <2>1, <1>5, EntryOfIs DEF Slot, OneSlotPerBlock
  <2>2. CASE ~Resident(b)
    BY <2>2, <1>5 DEF Resident
  <2> QED BY <2>1, <2>2
<1>6. ASSUME NEW d \in DOMAIN cache', NEW e \in DOMAIN cache', cache'[d].tag = cache'[e].tag
      PROVE  d = e
  BY <1>1, <1>4, <1>5, <1>6 DEF OneSlotPerBlock
<1>7. OneSlotPerBlock'
  BY <1>6 DEF OneSlotPerBlock
<1>8. \A c : Resident(c)' <=> c = b \/ \E e \in DOMAIN cache \ {k} : cache[e].tag = c
  BY <1>1, <1>4 DEF Resident
<1>9. m <= CacheBlocks
  BY <1>1, <1>2, Sizes
<1> QED BY <1>5, <1>7, <1>8, <1>9 DEF m

(* The data of the other blocks come through an access.                    *)
LEMMA DataAfter ==
  ASSUME IInv, NEW b \in Blocks,
         NEW entry \in Entries, entry.tag = b, Access(b, entry),
         \A c \in Blocks \ {b} : last'[c] = last[c] /\ (c \in spoiled' <=> c \in spoiled),
         b \notin spoiled' => entry.val = last'[b] /\ (~entry.dirty => disk'[b] = last'[b])
  PROVE  EntriesRight' /\ AwayRight'
<1> DEFINE k == Slot(b)
<1>1. /\ TypeOK /\ OneSlotPerBlock /\ RecentOK /\ EntriesRight /\ AwayRight
  BY DEF IInv
<1>2. /\ DOMAIN cache' \subseteq DOMAIN cache \cup {k}
      /\ cache'[k] = entry /\ \A e \in DOMAIN cache \ {k} : cache'[e] = cache[e]
  <2>1. /\ k \in 1 .. Len(cache) + 1 /\ cache' \in Seq(Entries)
        /\ Len(cache') = (IF k \in DOMAIN cache THEN Len(cache) ELSE Len(cache) + 1)
        /\ cache'[k] = entry /\ \A e \in DOMAIN cache \ {k} : cache'[e] = cache[e]
    BY <1>1, AccessSlot
  <2>2. Len(cache) \in Nat /\ DOMAIN cache = 1 .. Len(cache)
    BY <1>1, CacheIs
  <2>3. DOMAIN cache' = 1 .. Len(cache')
    BY <2>1
  <2> HIDE DEF k
  <2> QED BY <2>1, <2>2, <2>3
<1>3. /\ \A c : Resident(c)' <=> c = b \/ \E e \in DOMAIN cache \ {k} : cache[e].tag = c
      /\ \A e \in DOMAIN cache \ {k} : cache[e].tag # b
  BY <1>1, ResidentAfter
<1>4. disk' = IF ~Resident(b) /\ k \in DOMAIN cache /\ cache[k].dirty
                THEN [disk EXCEPT ![cache[k].tag] = cache[k].val] ELSE disk
  BY <1>1, AccessDisk
<1>5. \A e \in DOMAIN cache : cache[e].tag \in Blocks
  BY <1>1, CacheIs DEF Entries
<1>6. Resident(b) => k \in DOMAIN cache /\ cache[k].tag = b
  BY EntryOfIs DEF Slot
<1> HIDE DEF k
<1>7. DOMAIN disk = Blocks
  BY <1>1 DEF TypeOK
<1>8. \A c \in Blocks : k \notin DOMAIN cache \/ c # cache[k].tag => disk'[c] = disk[c]
  BY <1>4, <1>7
<1>9. ASSUME NEW e \in DOMAIN cache', cache'[e].tag \notin spoiled'
      PROVE  /\ cache'[e].val = last'[cache'[e].tag]
             /\ ~cache'[e].dirty => disk'[cache'[e].tag] = last'[cache'[e].tag]
  <2>1. CASE e = k
    <3>1. cache'[e] = entry /\ b \notin spoiled'
      BY <1>2, <1>9, <2>1
    <3>2. entry.val = last'[b] /\ (~entry.dirty => disk'[b] = last'[b])
      BY <3>1
    <3> QED BY <3>1, <3>2
  <2>2. CASE e # k
    <3> DEFINE c == cache[e].tag
    <3>1. e \in DOMAIN cache \ {k} /\ cache'[e] = cache[e]
      BY <1>2, <2>2
    <3>2. c \in Blocks \ {b} /\ c \notin spoiled /\ last'[c] = last[c]
      BY <1>3, <1>5, <1>9, <3>1
    <3>3. cache[e].val = last[c] /\ (~cache[e].dirty => disk[c] = last[c])
      BY <1>1, <3>1, <3>2 DEF EntriesRight
    <3>4. k \in DOMAIN cache => c # cache[k].tag
      BY <1>1, <3>1 DEF OneSlotPerBlock
    <3>5. disk'[c] = disk[c]
      BY <1>8, <3>2, <3>4
    <3> QED BY <3>1, <3>2, <3>3, <3>5
  <2> QED BY <2>1, <2>2
<1>10. ASSUME NEW c \in Blocks \ spoiled', ~Resident(c)'
       PROVE  disk'[c] = last'[c]
  <2>1. c # b /\ c \notin spoiled /\ last'[c] = last[c]
    BY <1>3, <1>10
  <2>2. CASE Resident(c)
    <3>1. k \in DOMAIN cache /\ cache[k].tag = c
      BY <1>3, <1>10, <2>2 DEF Resident
    <3>2. ~Resident(b)
      BY <1>6, <2>1, <3>1
    <3>3. cache[k].val = last[c] /\ (~cache[k].dirty => disk[c] = last[c])
      BY <1>1, <2>1, <3>1 DEF EntriesRight
    <3> QED BY <1>4, <1>7, <2>1, <3>1, <3>2, <3>3
  <2>3. CASE ~Resident(c)
    <3>1. disk[c] = last[c]
      BY <1>1, <2>1, <2>3 DEF AwayRight
    <3>2. k \in DOMAIN cache => c # cache[k].tag
      BY <2>3 DEF Resident
    <3> QED BY <1>8, <2>1, <3>1, <3>2
  <2> QED BY <2>2, <2>3
<1>11. EntriesRight'
  BY <1>9 DEF EntriesRight
<1>12. AwayRight'
  BY <1>10 DEF AwayRight
<1> QED BY <1>11, <1>12

(* The order of use stays the list of what is cached.                      *)
LEMMA RecentAfter ==
  ASSUME TypeOK, OneSlotPerBlock, RecentOK, NEW b \in Blocks,
         NEW entry \in Entries, entry.tag = b, Access(b, entry)
  PROVE  RecentOK' /\ recent' \in Seq(Blocks)
<1> DEFINE k == Slot(b)
           others == IF k \in DOMAIN cache THEN Without(cache[k].tag) ELSE recent
<1>1. CASE ~Evicts
  <2>1. Cardinality(Blocks) <= CacheBlocks
    BY <1>1, Sizes DEF Evicts
  <2>2. recent' = <<>>
    BY <2>1 DEF Access, UsedLast
  <2> QED BY <1>1, <2>2 DEF RecentOK, Evicts
<1>2. CASE Evicts
  <2>1. Listed
    BY <1>2 DEF RecentOK
  <2>2. recent' = Append(others, b)
    <3>1. ~(Cardinality(Blocks) <= CacheBlocks)
      BY <1>2, Sizes DEF Evicts
    <3>2. others = IF Resident(b) THEN Without(b)
                   ELSE IF Victim \in DOMAIN cache THEN Without(cache[Victim].tag) ELSE recent
      BY EntryOfIs DEF Slot
    <3> HIDE DEF others
    <3> QED BY <3>1, <3>2 DEF Access, UsedLast
  <2>3. /\ k \in 1 .. Len(cache) + 1
        /\ Len(cache') = (IF k \in DOMAIN cache THEN Len(cache) ELSE Len(cache) + 1)
        /\ cache'[k] = entry /\ \A e \in DOMAIN cache \ {k} : cache'[e] = cache[e]
        /\ cache' \in Seq(Entries)
    BY AccessSlot
  <2>4. /\ \A c : Resident(c)' <=> c = b \/ \E e \in DOMAIN cache \ {k} : cache[e].tag = c
        /\ \A e \in DOMAIN cache \ {k} : cache[e].tag # b
    BY ResidentAfter
  <2>5. /\ Len(cache) \in Nat /\ DOMAIN cache = 1 .. Len(cache)
        /\ recent \in Seq(Blocks) /\ Len(recent) = Len(cache)
    BY <2>1, CacheIs DEF TypeOK, Listed
  <2> HIDE DEF k
  <2>6. /\ others \in Seq(Blocks) /\ Len(others) = Len(cache') - 1
        /\ \A i \in DOMAIN others : \E e \in DOMAIN cache \ {k} : others[i] = cache[e].tag
        /\ \A e \in DOMAIN cache \ {k} : \E i \in DOMAIN others : others[i] = cache[e].tag
        /\ \A i, j \in DOMAIN others : others[i] = others[j] => i = j
    <3>1. CASE k \in DOMAIN cache
      <4>1. Drops(others, cache[k].tag)
        <5>1. others = Without(cache[k].tag)
          BY <3>1
        <5> QED BY <2>1, <3>1, <5>1, WithoutIs
      <4> HIDE DEF others
      <4>2. /\ others \in Seq(Blocks) /\ Len(others) = Len(recent) - 1
            /\ \A i \in DOMAIN others :
                 others[i] # cache[k].tag /\ \E j \in DOMAIN recent : others[i] = recent[j]
            /\ \A j \in DOMAIN recent :
                 recent[j] # cache[k].tag => \E i \in DOMAIN others : others[i] = recent[j]
            /\ \A i, j \in DOMAIN others : others[i] = others[j] => i = j
        BY <4>1 DEF Drops
      <4>3. ASSUME NEW i \in DOMAIN others
            PROVE  \E e \in DOMAIN cache \ {k} : others[i] = cache[e].tag
        <5>1. PICK j \in DOMAIN recent : others[i] = recent[j]
          BY <4>2
        <5>2. PICK e \in DOMAIN cache : cache[e].tag = recent[j]
          BY <2>1 DEF Listed, Resident
        <5> QED BY <4>2, <5>1, <5>2
      <4>4. ASSUME NEW e \in DOMAIN cache \ {k}
            PROVE  \E i \in DOMAIN others : others[i] = cache[e].tag
        <5>1. PICK j \in DOMAIN recent : recent[j] = cache[e].tag
          BY <2>1 DEF Listed
        <5>2. cache[e].tag # cache[k].tag
          BY <3>1 DEF OneSlotPerBlock
        <5> QED BY <4>2, <5>1, <5>2
      <4>5. Len(others) = Len(cache') - 1
        BY <2>3, <2>5, <3>1, <4>2
      <4> QED BY <4>2, <4>3, <4>4, <4>5
    <3>2. CASE k \notin DOMAIN cache
      <4>1. others = recent
        BY <3>2
      <4> HIDE DEF others
      <4>2. Len(others) = Len(cache') - 1
        BY <2>3, <2>5, <3>2, <4>1
      <4>3. DOMAIN cache \ {k} = DOMAIN cache
        BY <3>2
      <4> QED BY <2>1, <2>5, <4>1, <4>2, <4>3 DEF Listed, Resident
    <3> QED BY <3>1, <3>2
  <2> HIDE DEF others
  <2> DEFINE n == Len(others)
  <2>7. /\ n \in Nat /\ DOMAIN others = 1 .. n
        /\ recent' \in Seq(Blocks) /\ Len(recent') = n + 1 /\ DOMAIN recent' = 1 .. n + 1
        /\ recent'[n + 1] = b /\ \A i \in 1 .. n : recent'[i] = others[i]
    BY <2>2, <2>6
  <2>8. Len(cache') = n + 1
    <3>1. Len(cache') \in Nat
      BY <2>3
    <3> QED BY <3>1, <2>6
  <2> HIDE DEF n
  <2>9. \A i \in 1 .. n : others[i] # b
    BY <2>4, <2>6, <2>7
  <2>10. ASSUME NEW i \in 1 .. n + 1
         PROVE  \E e \in DOMAIN cache' : cache'[e].tag = recent'[i]
    <3>1. \A c : c = b \/ (\E e \in DOMAIN cache \ {k} : cache[e].tag = c) =>
            \E e \in DOMAIN cache' : cache'[e].tag = c
      BY <2>4 DEF Resident
    <3>2. CASE i = n + 1
      BY <2>7, <3>1, <3>2
    <3>3. CASE i \in 1 .. n
      <4>1. PICK e \in DOMAIN cache \ {k} : others[i] = cache[e].tag
        BY <2>6, <2>7, <3>3
      <4>2. recent'[i] = cache[e].tag
        BY <2>7, <3>3, <4>1
      <4> QED BY <3>1, <4>1, <4>2
    <3> QED BY <2>7, <3>2, <3>3
  <2>11. ASSUME NEW e \in DOMAIN cache' PROVE \E i \in 1 .. n + 1 : recent'[i] = cache'[e].tag
    <3>1. CASE e = k
      BY <2>3, <2>7, <3>1
    <3>2. CASE e # k
      <4>1. DOMAIN cache' = 1 .. Len(cache')
        BY <2>3
      <4>2. e \in DOMAIN cache \ {k}
        BY <2>3, <2>5, <3>2, <4>1
      <4> QED BY <2>3, <2>6, <2>7, <4>2
    <3> QED BY <3>1, <3>2
  <2>12. ASSUME NEW i \in 1 .. n + 1, NEW j \in 1 .. n + 1, recent'[i] = recent'[j]
         PROVE  i = j
    <3>1. CASE i \in 1 .. n /\ j \in 1 .. n
      BY <2>6, <2>7, <2>12, <3>1
    <3>2. CASE i = n + 1 \/ j = n + 1
      BY <2>7, <2>9, <2>12, <3>2
    <3> QED BY <2>7, <3>1, <3>2
  <2>13. Listed'
    BY <2>7, <2>8, <2>10, <2>11, <2>12 DEF Listed, Resident
  <2> QED BY <1>2, <2>7, <2>13 DEF RecentOK, Evicts
<1> QED BY <1>1, <1>2
-------------------------------------------------------------------------------
LEMMA AccessKeeps ==
  ASSUME IInv, NEW b \in Blocks,
         NEW entry \in Entries, entry.tag = b, Access(b, entry),
         \A c \in Blocks \ {b} : last'[c] = last[c] /\ (c \in spoiled' <=> c \in spoiled),
         b \notin spoiled' => entry.val = last'[b] /\ (~entry.dirty => disk'[b] = last'[b]),
         last' \in [Blocks -> Values], spoiled' \subseteq Blocks
  PROVE  IInv'
<1>1. TypeOK /\ OneSlotPerBlock /\ RecentOK
  BY DEF IInv
<1>2. EntriesRight' /\ AwayRight'
  BY DataAfter
<1>3. RecentOK' /\ recent' \in Seq(Blocks)
  BY <1>1, RecentAfter
<1>4. OneSlotPerBlock' /\ Len(cache') <= CacheBlocks
  BY <1>1, ResidentAfter
<1>5. cache' \in Seq(Entries)
  BY <1>1, AccessSlot
<1>6. disk' \in [Blocks -> Contents]
  <2> DEFINE k == Slot(b)
  <2>1. disk' = IF ~Resident(b) /\ k \in DOMAIN cache /\ cache[k].dirty
                  THEN [disk EXCEPT ![cache[k].tag] = cache[k].val] ELSE disk
    BY <1>1, AccessDisk
  <2>2. k \in DOMAIN cache => cache[k].tag \in Blocks /\ cache[k].val \in Contents
    BY <1>1, CacheIs DEF Entries
  <2> HIDE DEF k
  <2> QED BY <1>1, <2>1, <2>2 DEF TypeOK
<1>7. TypeOK'
  BY <1>3, <1>4, <1>5, <1>6 DEF TypeOK, Entries
<1> QED BY <1>2, <1>3, <1>4, <1>7 DEF IInv

LEMMA CacheInit == Init => IInv
<1> SUFFICES ASSUME Init PROVE IInv
  OBVIOUS
<1>1. PICK v \in Values : disk = [b \in Blocks |-> v]
  BY DEF Init
<1>2. cache = <<>> /\ recent = <<>> /\ last = disk /\ spoiled = {}
  BY DEF Init, CacheEmpty
<1>3. Len(cache) = 0 /\ DOMAIN cache = {} /\ DOMAIN recent = {} /\ Len(recent) = 0
  BY <1>2
<1>4. cache \in Seq(Entries) /\ recent \in Seq(Blocks)
  BY <1>2
<1>5. TypeOK
  BY <1>1, <1>2, <1>3, <1>4, Sizes DEF TypeOK, Contents, Entries
<1>6. RecentOK
  BY <1>2, <1>3 DEF RecentOK, Listed
<1> QED BY <1>2, <1>3, <1>5, <1>6 DEF IInv, OneSlotPerBlock, EntriesRight, AwayRight

(* A block that is read keeps its contents and its mark.                   *)
LEMMA ReadStep ==
  ASSUME IInv, NEW b \in Blocks, ReadBlock(b)
  PROVE  IInv'
<1> DEFINE entry == Entry(b, Resident(b) /\ cache[EntryOf(b)].dirty, View(b))
<1>0. TypeOK /\ OneSlotPerBlock /\ RecentOK /\ EntriesRight /\ AwayRight
  BY DEF IInv
<1>1. Access(b, entry) /\ UNCHANGED <<last, spoiled>>
  BY DEF ReadBlock, Read
<1>2. /\ View(b) \in Contents
      /\ Resident(b) => cache[EntryOf(b)].dirty \in BOOLEAN
  <2>1. Resident(b) => cache[EntryOf(b)] \in Entries
    BY <1>0, CacheIs, EntryOfIs
  <2> QED BY <1>0, <2>1 DEF View, TypeOK, Entries
<1>3. entry \in Entries /\ entry.tag = b
  BY <1>2 DEF Entry, Entries
<1>4. entry.val = View(b) /\ (entry.dirty <=> Resident(b) /\ cache[EntryOf(b)].dirty)
  BY DEF Entry
<1> HIDE DEF entry
<1>5. disk'[b] = disk[b]
  <2>1. disk' = IF ~Resident(b) /\ Slot(b) \in DOMAIN cache /\ cache[Slot(b)].dirty
                  THEN [disk EXCEPT ![cache[Slot(b)].tag] = cache[Slot(b)].val] ELSE disk
    BY <1>0, <1>1, AccessDisk
  <2>2. ~Resident(b) /\ Slot(b) \in DOMAIN cache => cache[Slot(b)].tag # b
    BY DEF Resident
  <2> QED BY <1>0, <2>1, <2>2 DEF TypeOK
<1>6. b \notin spoiled' => entry.val = last'[b] /\ (~entry.dirty => disk'[b] = last'[b])
  <2> SUFFICES ASSUME b \notin spoiled
               PROVE  entry.val = last[b] /\ (~entry.dirty => disk[b] = last[b])
    BY <1>1, <1>5
  <2>1. CASE Resident(b)
    BY <1>0, <1>4, <2>1, EntryOfIs DEF EntriesRight, View
  <2>2. CASE ~Resident(b)
    BY <1>0, <1>4, <2>2 DEF AwayRight, View
  <2> QED BY <2>1, <2>2
<1> QED BY <1>0, <1>1, <1>3, <1>6, AccessKeeps DEF TypeOK

LEMMA WriteStep ==
  ASSUME IInv, NEW b \in Blocks, NEW v \in Values, WriteBlock(b, v) \/ PatchBlock(b, v)
  PROVE  IInv'
<1>1. PICK new \in Contents :
        /\ Access(b, Entry(b, TRUE, new))
        /\ last' = [last EXCEPT ![b] = v]
        /\ b \notin spoiled' => new = v
        /\ spoiled' \in {spoiled, spoiled \ {b}}
  BY DEF WriteBlock, PatchBlock, Write, Contents
<1> DEFINE entry == Entry(b, TRUE, new)
<1>2. entry \in Entries /\ entry.tag = b /\ entry.val = new /\ entry.dirty
  BY DEF Entry, Entries
<1>3. Access(b, entry)
  BY <1>1
<1> HIDE DEF entry
<1>4. last \in [Blocks -> Values] /\ spoiled \subseteq Blocks
  BY DEF IInv, TypeOK
<1>5. last' \in [Blocks -> Values] /\ spoiled' \subseteq Blocks /\ last'[b] = v
  BY <1>1, <1>4
<1>6. \A c \in Blocks \ {b} : last'[c] = last[c] /\ (c \in spoiled' <=> c \in spoiled)
  BY <1>1, <1>4
<1> QED BY <1>1, <1>2, <1>3, <1>5, <1>6, AccessKeeps

(* A block that could not be read is spoiled, and no other.                *)
LEMMA LoadErrorStep ==
  ASSUME IInv, NEW b \in Blocks, LoadError(b)
  PROVE  IInv'
<1> DEFINE leftover == IF Victim \in DOMAIN cache THEN cache[Victim].val ELSE Torn
           entry == Entry(b, FALSE, leftover)
<1>1. Access(b, entry) /\ spoiled' = spoiled \cup {b} /\ last' = last
  BY DEF LoadError, LoadFails
<1>2. leftover \in Contents
  BY CacheIs DEF IInv, Contents, Entries
<1>3. entry \in Entries /\ entry.tag = b
  BY <1>2 DEF Entry, Entries
<1> HIDE DEF entry
<1>4. last \in [Blocks -> Values] /\ spoiled \subseteq Blocks
  BY DEF IInv, TypeOK
<1> QED BY <1>1, <1>3, <1>4, AccessKeeps

(* The device and the marks of one dirty entry change: a block flushed, or *)
(* one that could not be written and stays dirty.                          *)
LEMMA StoreStep ==
  ASSUME IInv, FlushOne \/ StoreError
  PROVE  IInv'
<1>0. TypeOK /\ OneSlotPerBlock /\ RecentOK /\ EntriesRight /\ AwayRight
  BY DEF IInv
<1>1. PICK e \in DOMAIN cache, new \in Contents :
        /\ disk' \in {disk, [disk EXCEPT ![cache[e].tag] = new]}
        /\ \/ cache' = cache
           \/ /\ new = cache[e].val
              /\ disk' = [disk EXCEPT ![cache[e].tag] = new]
              /\ cache' = [cache EXCEPT ![e].dirty = FALSE]
        /\ cache[e].dirty
  <2>1. CASE StoreError
    <3>1. PICK e \in DOMAIN cache : cache[e].dirty /\ StoreFails(e, Torn)
      BY <2>1 DEF StoreError
    <3>2. Torn \in Contents
      BY DEF Contents
    <3>3. disk' \in {disk, [disk EXCEPT ![cache[e].tag] = Torn]} /\ cache' = cache
      BY <3>1 DEF StoreFails
    <3> QED BY <3>1, <3>2, <3>3
  <2>2. CASE FlushOne
    <3>1. FirstDirty \in DirtyEntries
      <4>1. DirtyEntries # {} /\ DirtyEntries \in SUBSET Nat
        BY <1>0, <2>2, CacheIs DEF FlushOne, FlushStep, AllClean, DirtyEntries
      <4>2. \E e \in DirtyEntries : \A d \in DirtyEntries : e <= d
        BY <4>1, LeastOne
      <4> QED BY <4>2 DEF FirstDirty
    <3>2. FirstDirty \in DOMAIN cache /\ cache[FirstDirty].dirty
      BY <3>1 DEF DirtyEntries
    <3>3. cache[FirstDirty].val \in Contents
      BY <1>0, <3>2, CacheIs DEF Entries
    <3> QED BY <2>2, <3>2, <3>3 DEF FlushOne, FlushStep
  <2> QED BY <2>1, <2>2
<1>2. UNCHANGED <<recent, last, spoiled>>
  BY DEF FlushOne, FlushStep, StoreError, StoreFails
<1>3. cache \in Seq(Entries) /\ cache[e] \in Entries
  BY <1>0, CacheIs DEF TypeOK, Entries
<1>4. /\ cache' \in Seq(Entries) /\ DOMAIN cache' = DOMAIN cache /\ Len(cache') = Len(cache)
      /\ \A d \in DOMAIN cache : cache'[d].tag = cache[d].tag /\ cache'[d].val = cache[d].val
      /\ \A d \in DOMAIN cache : d # e => cache'[d].dirty = cache[d].dirty
  <2>1. CASE cache' = cache
    BY <1>3, <2>1
  <2>2. CASE cache' = [cache EXCEPT ![e].dirty = FALSE]
    <3> DEFINE clean == [cache[e] EXCEPT !.dirty = FALSE]
    <3>1. clean \in Entries /\ clean.tag = cache[e].tag /\ clean.val = cache[e].val
      BY <1>3 DEF Entries
    <3>2. cache' = [cache EXCEPT ![e] = clean]
      BY <2>2
    <3> HIDE DEF clean
    <3> QED BY <1>3, <3>1, <3>2
  <2> QED BY <1>1, <2>1, <2>2
<1>5. /\ disk \in [Blocks -> Contents] /\ disk' \in [Blocks -> Contents]
      /\ \A c \in Blocks : c # cache[e].tag => disk'[c] = disk[c]
  BY <1>0, <1>1, <1>3 DEF TypeOK, Entries
<1>6. \A c : Resident(c)' <=> Resident(c)
  BY <1>4 DEF Resident
<1>7. OneSlotPerBlock'
  BY <1>0, <1>4 DEF OneSlotPerBlock
<1>8. TypeOK'
  BY <1>0, <1>2, <1>4, <1>5 DEF TypeOK, Entries
<1>9. RecentOK'
  <2>1. CASE Evicts
    <3>1. Listed
      BY <1>0, <2>1 DEF RecentOK
    <3>2. \A i \in DOMAIN recent : \E d \in DOMAIN cache' : cache'[d].tag = recent[i]
      BY <1>4, <3>1 DEF Listed, Resident
    <3>3. \A d \in DOMAIN cache' : \E i \in DOMAIN recent : recent[i] = cache'[d].tag
      BY <1>4, <3>1 DEF Listed
    <3>4. Listed'
      BY <1>2, <1>4, <3>1, <3>2, <3>3 DEF Listed, Resident
    <3> QED BY <2>1, <3>4 DEF RecentOK, Evicts
  <2>2. CASE ~Evicts
    BY <1>0, <1>2, <2>2 DEF RecentOK, Evicts
  <2> QED BY <2>1, <2>2
<1>10. EntriesRight'
  <2> SUFFICES ASSUME NEW d \in DOMAIN cache, cache[d].tag \notin spoiled
               PROVE  /\ cache'[d].val = last[cache[d].tag]
                      /\ ~cache'[d].dirty => disk'[cache[d].tag] = last[cache[d].tag]
    BY <1>2, <1>4 DEF EntriesRight
  <2>1. /\ cache[d].val = last[cache[d].tag]
        /\ ~cache[d].dirty => disk[cache[d].tag] = last[cache[d].tag]
        /\ cache[d].tag \in Blocks
    BY <1>0, CacheIs DEF EntriesRight, Entries
  <2>2. CASE d = e
    <3>1. ~cache'[e].dirty => disk'[cache[e].tag] = cache[e].val
      BY <1>0, <1>1, <2>1, <2>2 DEF TypeOK
    <3> QED BY <1>4, <2>1, <2>2, <3>1
  <2>3. CASE d # e
    <3>1. cache[d].tag # cache[e].tag
      BY <1>0, <2>3 DEF OneSlotPerBlock
    <3> QED BY <1>4, <1>5, <2>1, <2>3, <3>1
  <2> QED BY <2>2, <2>3
<1>11. AwayRight'
  <2> SUFFICES ASSUME NEW c \in Blocks \ spoiled, ~Resident(c)
               PROVE  disk'[c] = last[c]
    BY <1>2, <1>6 DEF AwayRight
  <2>1. c # cache[e].tag
    BY DEF Resident
  <2> QED BY <1>0, <1>5, <2>1 DEF AwayRight
<1> QED BY <1>7, <1>8, <1>9, <1>10, <1>11 DEF IInv

LEMMA ReleaseStep ==
  ASSUME IInv, Release
  PROVE  IInv'
<1>1. cache' = <<>> /\ recent' = <<>> /\ UNCHANGED <<disk, last, spoiled>>
  BY DEF Release, Drop, CacheEmpty
<1>2. /\ Len(cache') = 0 /\ DOMAIN cache' = {} /\ DOMAIN recent' = {} /\ Len(recent') = 0
      /\ cache' \in Seq(Entries) /\ recent' \in Seq(Blocks)
  BY <1>1
<1>3. TypeOK'
  BY <1>1, <1>2, Sizes DEF IInv, TypeOK, Entries
<1>4. RecentOK'
  BY <1>1, <1>2 DEF RecentOK, Evicts, Listed
<1>5. ASSUME NEW b \in Blocks \ spoiled
      PROVE  disk[b] = last[b]
  <2>1. CASE Resident(b)
    <3>1. PICK e \in DOMAIN cache : cache[e].tag = b
      BY <2>1 DEF Resident
    <3>2. ~cache[e].dirty
      BY DEF Release, AllClean, DirtyEntries
    <3> QED BY <1>5, <3>1, <3>2 DEF IInv, EntriesRight
  <2>2. CASE ~Resident(b)
    BY <2>2 DEF IInv, AwayRight
  <2> QED BY <2>1, <2>2
<1>6. AwayRight'
  BY <1>1, <1>5 DEF AwayRight
<1> QED BY <1>2, <1>3, <1>4, <1>6 DEF IInv, OneSlotPerBlock, EntriesRight

LEMMA CacheStep ==
  ASSUME IInv, [Next]_vars
  PROVE  IInv'
<1>1. CASE Next
  BY <1>1, ReadStep, WriteStep, LoadErrorStep, StoreStep, ReleaseStep DEF Next
<1>2. CASE UNCHANGED vars
  BY <1>2 DEF vars, IInv, TypeOK, OneSlotPerBlock, RecentOK, Evicts, Listed, Resident,
              EntriesRight, AwayRight
<1> QED BY <1>1, <1>2
-------------------------------------------------------------------------------
(* The block evicted is the one at the end of the list, when the cache is  *)
(* full: CacheBlocks - 1 others were used after it.                        *)
LEMMA RecentStayStep ==
  ASSUME IInv, [Next]_vars, cache' # CacheEmpty,
         NEW b \in Blocks, NEW i \in DOMAIN recent, recent[i] = b,
         Len(recent) - i < CacheBlocks - 1
  PROVE  Resident(b)'
<1>0. TypeOK /\ OneSlotPerBlock /\ RecentOK
  BY DEF IInv
<1>1. Evicts /\ Listed
  BY DEF IInv, RecentOK
<1>2. Resident(b)
  BY <1>1 DEF Listed
<1>3. ASSUME NEW c \in Blocks, NEW entry \in Entries, entry.tag = c, Access(c, entry)
      PROVE  Resident(b)'
  <2> DEFINE k == Slot(c)
  <2>1. \A d : Resident(d)' <=> d = c \/ \E e \in DOMAIN cache \ {k} : cache[e].tag = d
    BY <1>0, <1>3, ResidentAfter
  <2>2. CASE Resident(c)
    BY <1>2, <2>1, <2>2, EntryOfIs DEF Slot, Resident
  <2>3. CASE ~Resident(c)
    <3>1. k = Victim
      BY <2>3 DEF Slot
    <3>2. CASE Victim \notin DOMAIN cache
      BY <1>2, <2>1, <3>1, <3>2 DEF Resident
    <3>3. CASE Victim \in DOMAIN cache
      <4>1. Len(recent) = CacheBlocks /\ cache[Victim].tag = recent[1]
        BY <1>0, <2>3, <3>3, VictimIs
      <4>2. i # 1 /\ 1 \in DOMAIN recent
        <5>1. i \in 1 .. Len(recent) /\ DOMAIN recent = 1 .. Len(recent)
          BY <1>0, CacheIs
        <5> QED BY <4>1, <5>1, Sizes
      <4>3. b # cache[Victim].tag
        BY <1>1, <4>1, <4>2 DEF Listed
      <4> HIDE DEF k
      <4> QED BY <1>2, <2>1, <3>1, <4>3 DEF Resident
    <3> QED BY <3>2, <3>3
  <2> QED BY <2>2, <2>3
<1>4. CASE \E c \in Blocks : ReadBlock(c)
  <2>1. PICK c \in Blocks : ReadBlock(c)
    BY <1>4
  <2> DEFINE entry == Entry(c, Resident(c) /\ cache[EntryOf(c)].dirty, View(c))
  <2>2. entry \in Entries /\ entry.tag = c
    <3>1. Resident(c) => cache[EntryOf(c)] \in Entries
      BY <1>0, CacheIs, EntryOfIs
    <3> QED BY <1>0, <3>1 DEF View, TypeOK, Entries, Entry
  <2> QED BY <1>3, <2>1, <2>2 DEF ReadBlock, Read
<1>5. CASE \E c \in Blocks, v \in Values : WriteBlock(c, v) \/ PatchBlock(c, v)
  <2>1. PICK c \in Blocks, new \in Contents : Access(c, Entry(c, TRUE, new))
    BY <1>5 DEF WriteBlock, PatchBlock, Write, Contents
  <2>2. Entry(c, TRUE, new) \in Entries /\ Entry(c, TRUE, new).tag = c
    BY DEF Entry, Entries
  <2> QED BY <1>3, <2>1, <2>2
<1>6. CASE \E c \in Blocks : LoadError(c)
  <2>1. PICK c \in Blocks : LoadError(c)
    BY <1>6
  <2> DEFINE leftover == IF Victim \in DOMAIN cache THEN cache[Victim].val ELSE Torn
  <2>2. Access(c, Entry(c, FALSE, leftover))
    BY <2>1 DEF LoadError, LoadFails
  <2>3. leftover \in Contents
    BY <1>0, CacheIs DEF Contents, Entries
  <2>4. Entry(c, FALSE, leftover) \in Entries /\ Entry(c, FALSE, leftover).tag = c
    BY <2>3 DEF Entry, Entries
  <2> HIDE DEF leftover
  <2> QED BY <1>3, <2>2, <2>4
<1>7. CASE FlushOne \/ StoreError \/ UNCHANGED vars
  <2>1. DOMAIN cache' = DOMAIN cache /\ \A d \in DOMAIN cache : cache'[d].tag = cache[d].tag
    <3>1. cache' = cache \/ cache' = [cache EXCEPT ![FirstDirty].dirty = FALSE]
      BY <1>7 DEF FlushOne, FlushStep, StoreError, StoreFails, vars
    <3>2. cache \in Seq(Entries) /\ \A d \in DOMAIN cache : cache[d] \in Entries
      BY <1>0, CacheIs DEF TypeOK, Entries
    <3> QED BY <3>1, <3>2 DEF Entries
  <2> QED BY <1>2, <2>1 DEF Resident
<1>8. CASE Release
  BY <1>8 DEF Release, Drop
<1> QED BY <1>4, <1>5, <1>6, <1>7, <1>8 DEF Next

LEMMA CacheAlways == Spec => []IInv
BY CacheInit, CacheStep, PTL DEF Spec

(* What a reader of a block gets, from the invariant.                      *)
LEMMA ViewRight ==
  ASSUME IInv, NEW b \in Blocks \ spoiled
  PROVE  /\ View(b) = last[b]
         /\ (Resident(b) => ~cache[EntryOf(b)].dirty) => disk[b] = last[b]
BY EntryOfIs DEF IInv, EntriesRight, AwayRight, View

(* Every variable keeps its type: no slot beyond the pool is used.         *)
THEOREM CacheTypeCorrect == Spec => []TypeOK
<1>1. IInv => TypeOK
  BY DEF IInv
<1> QED BY <1>1, CacheAlways, PTL

(* A block is in one slot at most (Acquire, block_cache.adb:164-196).      *)
THEOREM OneSlotPerBlockThm == Spec => []OneSlotPerBlock
<1>1. IInv => OneSlotPerBlock
  BY DEF IInv
<1> QED BY <1>1, CacheAlways, PTL

(* A block reads back as it was last written, whatever was evicted, flushed*)
(* or failed in between, for a cache of any size.                          *)
THEOREM ReadsLastWriteThm == Spec => []ReadsLastWrite
<1>1. IInv => ReadsLastWrite
  BY ViewRight DEF ReadsLastWrite
<1> QED BY <1>1, CacheAlways, PTL

(* What is clean in the cache, or not in it, is on the device.             *)
THEOREM CleanIsStoredThm == Spec => []CleanIsStored
<1>1. IInv => CleanIsStored
  BY ViewRight DEF CleanIsStored
<1> QED BY <1>1, CacheAlways, PTL

(* The CacheBlocks - 1 blocks used last are not evicted by the next access.*)
THEOREM RecentStayThm == Spec => RecentStay
<1> DEFINE Stay == \A b \in Blocks :
                     /\ cache' # CacheEmpty
                     /\ \E i \in DOMAIN recent :
                          recent[i] = b /\ Len(recent) - i < CacheBlocks - 1
                     => Resident(b)'
<1>1. IInv /\ [Next]_vars => [Stay]_vars
  BY RecentStayStep
<1>2. RecentStay <=> [][Stay]_vars
  BY DEF RecentStay
<1> HIDE DEF Stay
<1> QED BY <1>1, <1>2, CacheAlways, PTL DEF Spec
===============================================================================
