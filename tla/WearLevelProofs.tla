---------------------------- MODULE WearLevelProofs ----------------------------
(***************************************************************************)
(* Proofs about WearLevel, for every geometry and every update rate.       *)
(* First the arithmetic of the mapping, then the state machine.            *)
(***************************************************************************)
EXTENDS WearLevel, TLAPS

(* Quotient and remainder take a number apart.                             *)
LEMMA DivMod ==
  ASSUME NEW d \in Nat, d > 0, NEW n \in Nat
  PROVE  /\ n \div d \in Nat
         /\ n % d \in 0 .. (d - 1)
         /\ n = d * (n \div d) + (n % d)
OBVIOUS

(* A number written as a multiple of d and a rest below d has that rest.   *)
LEMMA ModUnique ==
  ASSUME NEW d \in Nat, d > 0, NEW q \in Nat, NEW r \in Nat, r < d
  PROVE  (d * q + r) % d = r
<1> DEFINE n == d * q + r
           p == n \div d
           s == n % d
<1>1. n \in Nat
  OBVIOUS
<1>2. p \in Nat /\ s \in Nat /\ s < d /\ d * q + r = d * p + s
  BY <1>1, DivMod
<1> HIDE DEF p, s, n
<1>3. p = q
  <2>1. CASE p > q
    <3>1. d * p >= d * (q + 1)
      BY <2>1, <1>2
    <3>2. d * (q + 1) = d * q + d
      OBVIOUS
    <3> QED BY <3>1, <3>2, <1>2
  <2>2. CASE p < q
    <3>1. d * q >= d * (p + 1)
      BY <2>2, <1>2
    <3>2. d * (p + 1) = d * p + d
      BY <1>2
    <3> QED BY <3>1, <3>2, <1>2
  <2> QED BY <2>1, <2>2, <1>2
<1> QED BY <1>2, <1>3 DEF s, n

(* One more moves the remainder on by one, or back to zero.                *)
LEMMA ModStep ==
  ASSUME NEW d \in Nat, d > 0, NEW n \in Nat
  PROVE  (n + 1) % d = IF n % d = d - 1 THEN 0 ELSE (n % d) + 1
<1> DEFINE q == n \div d
           r == n % d
<1>1. q \in Nat /\ r \in 0 .. (d - 1) /\ n = d * q + r
  BY DivMod
<1> HIDE DEF q, r
<1>2. CASE r = d - 1
  <2>1. d * (q + 1) = d * q + d
    BY <1>1
  <2>2. n + 1 = d * (q + 1) + 0
    BY <1>1, <1>2, <2>1
  <2>3. (d * (q + 1) + 0) % d = 0
    BY <1>1, ModUnique
  <2> QED BY <1>2, <2>2, <2>3 DEF r
<1>3. CASE r # d - 1
  <2>1. n + 1 = d * q + (r + 1) /\ r + 1 \in Nat /\ r + 1 < d
    BY <1>1, <1>3
  <2>2. (d * q + (r + 1)) % d = r + 1
    BY <2>1, <1>1, ModUnique
  <2> QED BY <1>3, <2>1, <2>2 DEF r
<1> QED BY <1>2, <1>3

(* Below twice the divisor the remainder needs one comparison.             *)
LEMMA ModOnce ==
  ASSUME NEW d \in Nat, d > 0, NEW n \in Nat, n < 2 * d
  PROVE  n % d = IF n < d THEN n ELSE n - d
OBVIOUS

LEMMA Geometry ==
  /\ D \in Nat /\ D >= 2 /\ D > 0
  /\ L \in Nat /\ L >= 1 /\ L > 0 /\ D = L + 1
  /\ NBlocks = D + 2
  /\ SPB \in Nat /\ SPB >= 1
BY FlashAssumption, WearLevelAssumption DEF D, L

---------------------------------------------------------------------------
(* The mapping                                                             *)

(* Phys_Block without its outer remainders.                                *)
LEMMA PhysBlockValue ==
  ASSUME NEW t \in Nat, NEW lb \in 0 .. L - 1,
         NEW k, k = IF lb >= t % L THEN lb - (t % L) ELSE lb + L - (t % L)
  PROVE  /\ t % L \in 0 .. L - 1 /\ t % D \in 0 .. D - 1 /\ k \in 0 .. L - 1
         /\ PhysBlock(t, lb) = IF (t % D) + k < D THEN (t % D) + k ELSE (t % D) + k - D
<1> DEFINE a == t % L
           b == t % D
<1>1. a \in 0 .. L - 1 /\ b \in 0 .. D - 1
  BY Geometry, DivMod
<1> HIDE DEF a, b
<1>2. k = (IF lb >= a THEN lb - a ELSE lb + L - a) /\ k \in 0 .. L - 1
  BY <1>1, Geometry DEF a
<1>3. (lb + L - a) % L = k
  <2> DEFINE n == lb + L - a
  <2>1. n \in Nat /\ n < 2 * L /\ L \in Nat /\ L > 0
    BY <1>1, Geometry
  <2>2. n % L = IF n < L THEN n ELSE n - L
    <3> HIDE DEF n
    <3> QED BY <2>1, ModOnce
  <2> QED BY <2>2, <1>1, <1>2, Geometry
<1>4. (b + k) % D = IF b + k < D THEN b + k ELSE b + k - D
  <2> DEFINE n == b + k
  <2>1. n \in Nat /\ n < 2 * D /\ D \in Nat /\ D > 0
    BY <1>1, <1>2, Geometry
  <2>2. n % D = IF n < D THEN n ELSE n - D
    <3> HIDE DEF n
    <3> QED BY <2>1, ModOnce
  <2> QED BY <2>1, <2>2, <1>1, <1>2, Geometry
<1> QED BY <1>1, <1>2, <1>3, <1>4 DEF PhysBlock, a, b

LEMMA HoleValue ==
  ASSUME NEW t \in Nat
  PROVE  /\ Hole(t) \in 0 .. D - 1
         /\ Hole(t) = IF t % D = 0 THEN D - 1 ELSE (t % D) - 1
<1>1. t + D - 1 \in Nat /\ t + D - 1 = t + (D - 1)
  BY Geometry
<1>2. Hole(t) \in 0 .. D - 1
  BY <1>1, Geometry, DivMod DEF Hole
<1>3. (t + D - 1) + 1 = D + t
  BY Geometry
<1>4. (D + t) % D = t % D
  <2>1. t \div D \in Nat /\ t % D \in 0 .. D - 1 /\ t = D * (t \div D) + (t % D)
    BY Geometry, DivMod
  <2> DEFINE q == t \div D
             r == t % D
  <2> HIDE DEF q, r
  <2>2. q \in Nat /\ r \in 0 .. D - 1 /\ t = D * q + r
    BY <2>1 DEF q, r
  <2>3. D * (q + 1) = D * q + D
    BY <2>2, Geometry
  <2>4. D + t = D * (q + 1) + r
    BY <2>2, <2>3, Geometry
  <2>5. (D * (q + 1) + r) % D = r
    BY <2>2, Geometry, ModUnique
  <2> QED BY <2>4, <2>5 DEF r
<1>5. (t + D - 1 + 1) % D = IF Hole(t) = D - 1 THEN 0 ELSE Hole(t) + 1
  BY <1>1, Geometry, ModStep DEF Hole
<1>6. t % D = IF Hole(t) = D - 1 THEN 0 ELSE Hole(t) + 1
  BY <1>3, <1>4, <1>5
<1> QED BY <1>2, <1>6, Geometry

(* Every logical block has a place among the data blocks, and it is never  *)
(* the hole (Phys_Block: "Never returns the hole").                        *)
THEOREM HoleNeverMapped ==
  \A t \in Nat, lb \in 0 .. L - 1 :
    PhysBlock(t, lb) \in (0 .. D - 1) \ {Hole(t)}
<1> SUFFICES ASSUME NEW t \in Nat, NEW lb \in 0 .. L - 1
             PROVE  PhysBlock(t, lb) \in (0 .. D - 1) \ {Hole(t)}
  OBVIOUS
<1> DEFINE k == IF lb >= t % L THEN lb - (t % L) ELSE lb + L - (t % L)
<1>1. /\ t % L \in 0 .. L - 1 /\ t % D \in 0 .. D - 1 /\ k \in 0 .. L - 1
      /\ PhysBlock(t, lb) = IF (t % D) + k < D THEN (t % D) + k ELSE (t % D) + k - D
  BY PhysBlockValue
<1> QED BY <1>1, HoleValue, Geometry

(* Two logical blocks never share a place.                                 *)
THEOREM MappingInjective ==
  \A t \in Nat, lb1, lb2 \in 0 .. L - 1 :
    lb1 # lb2 => PhysBlock(t, lb1) # PhysBlock(t, lb2)
BY PhysBlockValue, Geometry

(* One step of the counter re-maps one logical block, from the source      *)
(* Do_Move copies to the hole it copies into, and leaves every other       *)
(* logical block where it was.                                             *)
THEOREM StepMovesOneBlock ==
  \A t \in Nat, lb \in 0 .. L - 1 :
    /\ lb = t % L => PhysBlock(t, lb) = MoveSource(t) /\ PhysBlock(t + 1, lb) = Hole(t)
    /\ lb # t % L => PhysBlock(t + 1, lb) = PhysBlock(t, lb)
<1> SUFFICES ASSUME NEW t \in Nat, NEW lb \in 0 .. L - 1
             PROVE  /\ lb = t % L => /\ PhysBlock(t, lb) = MoveSource(t)
                                     /\ PhysBlock(t + 1, lb) = Hole(t)
                    /\ lb # t % L => PhysBlock(t + 1, lb) = PhysBlock(t, lb)
  OBVIOUS
<1> DEFINE a == t % L
           b == t % D
           a1 == (t + 1) % L
           b1 == (t + 1) % D
           k == IF lb >= a THEN lb - a ELSE lb + L - a
           k1 == IF lb >= a1 THEN lb - a1 ELSE lb + L - a1
<1>1. /\ a1 = IF a = L - 1 THEN 0 ELSE a + 1
      /\ b1 = IF b = D - 1 THEN 0 ELSE b + 1
  BY Geometry, ModStep
<1>2. /\ a \in 0 .. L - 1 /\ b \in 0 .. D - 1 /\ k \in 0 .. L - 1
      /\ PhysBlock(t, lb) = IF b + k < D THEN b + k ELSE b + k - D
  BY PhysBlockValue
<1>3. PhysBlock(t + 1, lb) = IF b1 + k1 < D THEN b1 + k1 ELSE b1 + k1 - D
  BY PhysBlockValue, t + 1 \in Nat
<1>4. Hole(t) = IF b = 0 THEN D - 1 ELSE b - 1
  BY HoleValue
<1>5. MoveSource(t) = b
  BY DEF MoveSource
<1> HIDE DEF a, b, a1, b1
<1>6. CASE lb = a
  <2>1. k = 0 /\ PhysBlock(t, lb) = b
    BY <1>2, <1>6, Geometry
  <2>2. PhysBlock(t + 1, lb) = Hole(t)
    <3>1. CASE a = L - 1
      <4>1. k1 = L - 1
        BY <3>1, <1>1, <1>6, Geometry
      <4> QED BY <4>1, <1>1, <1>2, <1>3, <1>4, Geometry
    <3>2. CASE a # L - 1
      <4>1. k1 = L - 1
        BY <3>2, <1>1, <1>2, <1>6, Geometry
      <4> QED BY <4>1, <1>1, <1>2, <1>3, <1>4, Geometry
    <3> QED BY <3>1, <3>2
  <2> QED BY <2>1, <2>2, <1>5, <1>6 DEF a
<1>7. CASE lb # a
  <2>1. k1 = k - 1 /\ k >= 1
    BY <1>1, <1>2, <1>7, Geometry
  <2>2. PhysBlock(t + 1, lb) = PhysBlock(t, lb)
    BY <2>1, <1>1, <1>2, <1>3, Geometry
  <2> QED BY <2>2, <1>7 DEF a
<1> QED BY <1>6, <1>7

(* "Over time, every logical 4 KB block visits every physical 4 KB block": *)
(* the counter t that brings lb to p is named outright.                    *)
THEOREM EveryBlockVisitsEveryPlace ==
  \A lb \in 0 .. L - 1, p \in 0 .. D - 1 :
    \E t \in Nat : PhysBlock(t, lb) = p
<1> SUFFICES ASSUME NEW lb \in 0 .. L - 1, NEW p \in 0 .. D - 1
             PROVE  \E t \in Nat : PhysBlock(t, lb) = p
  OBVIOUS
<1> DEFINE t == L * (lb + p * L) + lb
<1>1. lb + p * L \in Nat
  BY Geometry
<1>2. t \in Nat /\ t % L = lb
  BY <1>1, Geometry, ModUnique
<1>3. t % D = p
  <2>1. lb + p * (L - 1) \in Nat
    BY Geometry
  <2>2. t = D * (lb + p * (L - 1)) + p
    <3>1. D * (lb + p * (L - 1)) = (L + 1) * (lb + p * (L - 1))
      BY Geometry
    <3>2. (L + 1) * (lb + p * (L - 1)) + p = L * (lb + p * L) + lb
      BY Geometry
    <3> QED BY <3>1, <3>2
  <2> DEFINE q == lb + p * (L - 1)
  <2>3. (D * q + p) % D = p
    <3>1. q \in Nat /\ p \in Nat /\ p < D /\ D \in Nat /\ D > 0
      BY <2>1, Geometry
    <3> HIDE DEF q
    <3> QED BY <3>1, ModUnique
  <2> QED BY <2>2, <2>3
<1> HIDE DEF t
<1>4. PhysBlock(t, lb) = p
  <2>1. PhysBlock(t, lb) = IF (t % D) + 0 < D THEN (t % D) + 0 ELSE (t % D) + 0 - D
    <3>1. 0 = IF lb >= t % L THEN lb - (t % L) ELSE lb + L - (t % L)
      BY <1>2, Geometry
    <3> QED BY <3>1, <1>2, PhysBlockValue
  <2> QED BY <2>1, <1>3, Geometry
<1> QED BY <1>2, <1>4

---------------------------------------------------------------------------
(* The medium                                                              *)

LEMMA BlockRanges ==
  /\ \A t \in Nat : Hole(t) \in Blocks /\ Hole(t) < D /\ MoveSource(t) \in Blocks
  /\ \A t \in Nat, lb \in 0 .. L - 1 :
       PhysBlock(t, lb) \in Blocks /\ PhysBlock(t, lb) < D
  /\ \A s \in Nat : s % 2 \in {0, 1}
  /\ \A slot \in {0, 1} : CfgBlock(slot) \in Blocks /\ CfgBlock(slot) >= D
  /\ 0 \in Offsets /\ 0 \in Blocks
<1>1. \A t \in Nat : MoveSource(t) \in 0 .. D - 1
  BY Geometry, DivMod DEF MoveSource
<1>2. \A t \in Nat : Hole(t) \in 0 .. D - 1
  BY HoleValue
<1>3. \A t \in Nat, lb \in 0 .. L - 1 : PhysBlock(t, lb) \in 0 .. D - 1
  BY HoleNeverMapped
<1>4. \A s \in Nat : s % 2 \in {0, 1}
  OBVIOUS
<1> QED BY <1>1, <1>2, <1>3, <1>4, Geometry DEF Blocks, Offsets, CfgBlock

LEMMA ErasedImage ==
  ASSUME NEW C PROVE AllErased \in Images(C) /\ NoJob \in Jobs(C)
BY BlockRanges DEF AllErased, Images, Cells, NoJob, Jobs

LEMMA DoWriteType ==
  ASSUME NEW C, FlashTypeOK(C),
         NEW b \in Blocks, NEW o \in Offsets, NEW new \in Cells(C), DoWrite(b, o, new)
  PROVE  FlashTypeOK(C)'
<1>1. flash[b] \in Images(C)
  BY DEF FlashTypeOK
<1>2. [flash[b] EXCEPT ![o] = new] \in Images(C)
  BY <1>1 DEF Images
<1>3. job' \in Jobs(C)
  BY <1>2, ErasedImage DEF DoWrite, Jobs
<1> QED BY <1>3 DEF DoWrite, FlashTypeOK

LEMMA DoEraseType ==
  ASSUME NEW C, FlashTypeOK(C), NEW b \in Blocks, DoErase(b)
  PROVE  FlashTypeOK(C)'
<1>1. job' \in Jobs(C)
  BY ErasedImage DEF DoErase, Jobs, NoJob
<1> QED BY <1>1 DEF DoErase, FlashTypeOK

LEMMA ResultType ==
  ASSUME NEW C, FlashTypeOK(C)
  PROVE  CommandResult \in Images(C) /\ flash[job.blk] \in Images(C)
<1>1. /\ job.blk \in Blocks /\ job.off \in Offsets
      /\ flash[job.blk] \in Images(C) /\ job.image[job.off] \in Cells(C)
  BY DEF FlashTypeOK, Jobs, Images
<1>2. [flash[job.blk] EXCEPT ![job.off] = job.image[job.off]] \in Images(C)
  BY <1>1 DEF Images
<1> QED BY <1>1, <1>2, ErasedImage DEF CommandResult

LEMMA CommandType ==
  ASSUME NEW C, FlashTypeOK(C), FlashCommand
  PROVE  FlashTypeOK(C)'
<1>1. CommandResult \in Images(C) /\ job.blk \in Blocks /\ job \in Jobs(C)
  BY ResultType DEF FlashTypeOK, Jobs
<1>2. flash' = [flash EXCEPT ![job.blk] = CommandResult]
  BY DEF FlashCommand, ProgramPages, EraseSector, ReprogramPages, WipeSector
<1>3. flash' \in [Blocks -> Images(C)]
  BY <1>1, <1>2 DEF FlashTypeOK
<1>4. job' \in Jobs(C)
  <2>1. CASE ProgramPages \/ WipeSector
    BY <2>1, ErasedImage DEF ProgramPages, WipeSector
  <2>2. CASE EraseSector
    BY <2>2, <1>1, BlockRanges DEF EraseSector, Jobs
  <2>3. CASE ReprogramPages
    <3>1. job.off \in Offsets /\ (job.off # SPB - 1 => job.off + 1 \in Offsets)
      BY <1>1, Geometry DEF Jobs, Offsets
    <3> QED BY <2>3, <3>1, <1>1, ErasedImage DEF ReprogramPages, Jobs
  <2> QED BY <2>1, <2>2, <2>3 DEF FlashCommand
<1> QED BY <1>3, <1>4 DEF FlashTypeOK

LEMMA InterruptType ==
  ASSUME NEW C, FlashTypeOK(C), Interrupt
  PROVE  FlashTypeOK(C)'
<1>1. /\ CommandResult \in Images(C) /\ flash[job.blk] \in Images(C)
      /\ job.blk \in Blocks
  BY ResultType DEF FlashTypeOK, Jobs
<1>2. \A image \in InterruptedImages : image \in Images(C)
  BY <1>1 DEF InterruptedImages, Images, Cells
<1>3. flash' \in [Blocks -> Images(C)]
  BY <1>1, <1>2 DEF Interrupt, FlashTypeOK
<1> QED BY <1>3, ErasedImage DEF Interrupt, FlashTypeOK

---------------------------------------------------------------------------
(* Type correctness                                                        *)

LEMMA TypeInit == Init => TypeOK
<1> SUFFICES ASSUME Init PROVE TypeOK
  OBVIOUS
<1>1. FlashTypeOK(Contents)
  BY ErasedImage DEF Init, FlashTypeOK
<1>2. NoReq \in [blk : 0 .. L - 1, off : Offsets, val : Values \cup {Erased}]
  BY Geometry, BlockRanges DEF NoReq
<1>3. off \in 0 .. SPB
  BY Geometry DEF Init
<1> QED BY <1>1, <1>2, <1>3 DEF Init, TypeOK

(* Every action keeps the type; the actions that start a command differ    *)
(* only in where they send it.                                             *)
LEMMA TypeStep == TypeOK /\ [Next]_vars => TypeOK'
<1> SUFFICES ASSUME TypeOK, [Next]_vars
             PROVE  TypeOK'
  OBVIOUS
<1> USE DEF TypeOK
<1>a. NoReq \in [blk : 0 .. L - 1, off : Offsets, val : Values \cup {Erased}]
  BY Geometry, BlockRanges DEF NoReq
<1>b. 0 \in 0 .. SPB
  BY Geometry
<1>1. CASE Boot
  <2>1. \A slot \in ValidSlots : ConfigCell(slot) \in Records
    BY DEF ValidSlots, Parse
  <2>2. ValidSlots # {} => BestSlot \in ValidSlots
    BY DEF ValidSlots, BestSlot
  <2>3. mounted' => ConfigCell(BestSlot) \in Records
    BY <1>1, <2>1, <2>2 DEF Boot
  <2>4. moveSteps' \in Nat /\ accessCount' \in Nat /\ sequence' \in Nat /\ mounted' \in BOOLEAN
    BY <1>1, <2>3 DEF Boot, Records
  <2> QED BY <1>1, <2>4 DEF Boot, flashvars, FlashTypeOK
<1>2. CASE FormatBegin
  <2>1. FlashTypeOK(Contents)'
    BY <1>2, DoWriteType, BlockRanges DEF FormatBegin, Cells, Contents
  <2> QED BY <1>2, <2>1 DEF FormatBegin
<1>3. CASE FormatBlankOther
  <2>1. FlashTypeOK(Contents)'
    BY <1>3, DoWriteType, BlockRanges DEF FormatBlankOther, Cells, Contents
  <2> QED BY <1>3, <2>1 DEF FormatBlankOther, volvars
<1>4. ASSUME NEW m \in Nat, NEW a \in Nat, NEW s \in Nat, PersistRecord(m, a, s)
      PROVE  FlashTypeOK(Contents)'
  <2>1. CfgBlock(s % 2) \in Blocks
    BY BlockRanges
  <2>2. [move |-> m, access |-> a, seq |-> s] \in Cells(Contents)
    BY DEF Cells, Contents, Records
  <2> QED BY <1>4, <2>1, <2>2, DoWriteType, BlockRanges DEF PersistRecord
<1>5. CASE FormatPersist
  BY <1>4, <1>5 DEF FormatPersist
<1>6. CASE FormatEnd
  BY <1>6 DEF FormatEnd, flashvars, FlashTypeOK
<1>7. ASSUME NEW lb \in 0 .. L - 1, NEW o \in Offsets, NEW v \in Values,
             WriteBegin(lb, o, v)
      PROVE  TypeOK'
  <2>1. FlashTypeOK(Contents)'
    BY <1>7, DoWriteType, BlockRanges DEF WriteBegin, Cells, Contents
  <2> QED BY <1>7, <2>1 DEF WriteBegin, volvars
<1>8. CASE WriteEnd
  BY <1>8, <1>a DEF WriteEnd, flashvars, FlashTypeOK
<1>9. CASE MoveBegin
  <2>1. FlashTypeOK(Contents)'
    BY <1>9, DoEraseType, BlockRanges DEF MoveBegin
  <2> QED BY <1>9, <2>1, <1>a, <1>b DEF MoveBegin
<1>10. CASE MoveCopy
  <2>1. off \in Offsets /\ off + 1 \in 0 .. SPB
    BY <1>10, Geometry DEF MoveCopy, Offsets
  <2>2. flash[MoveSource(moveSteps)][off] \in Cells(Contents)
    BY <2>1, BlockRanges DEF FlashTypeOK, Images
  <2>3. FlashTypeOK(Contents)'
    BY <1>10, <2>1, <2>2, DoWriteType, BlockRanges DEF MoveCopy
  <2> QED BY <1>10, <2>1, <2>3 DEF MoveCopy, volvars
<1>11. CASE MoveCommit
  BY <1>4, <1>11, <1>b DEF MoveCommit
<1>12. CASE MoveEnd
  BY <1>12 DEF MoveEnd, flashvars, volvars, FlashTypeOK
<1>13. CASE FlashStep
  BY <1>13, CommandType DEF FlashStep, volvars
<1>14. CASE DeviceError
  BY <1>14, InterruptType, <1>a, <1>b DEF DeviceError, volvars
<1>15. CASE PowerCut
  BY <1>15, InterruptType, <1>a, <1>b DEF PowerCut
<1>16. CASE UNCHANGED vars
  BY <1>16 DEF vars, FlashTypeOK
<1> QED BY <1>1, <1>2, <1>3, <1>5, <1>6, <1>7, <1>8, <1>9, <1>10, <1>11,
           <1>12, <1>13, <1>14, <1>15, <1>16 DEF Next

(* The variables keep their types: in particular no command ever goes to a *)
(* block outside the medium.                                               *)
THEOREM TypeCorrect == Spec => []TypeOK
BY TypeInit, TypeStep, PTL DEF Spec

---------------------------------------------------------------------------
(* The configuration survives every cut                                    *)

(* A command, finished or interrupted, touches only the block it is for.   *)
LEMMA OtherBlocksKept ==
  ASSUME TypeOK, FlashCommand \/ Interrupt, NEW b \in Blocks, b # job.blk
  PROVE  flash'[b] = flash[b]
BY DEF TypeOK, FlashTypeOK, FlashCommand, Interrupt,
       ProgramPages, EraseSector, ReprogramPages, WipeSector

(* What the first sector of that block can hold afterwards.                *)
LEMMA JobCell ==
  ASSUME TypeOK, FlashCommand \/ Interrupt
  PROVE  flash'[job.blk][0] \in {flash[job.blk][0], job.image[0], Erased, Torn}
<1>1. /\ flash \in [Blocks -> Images(Contents)]
      /\ job.blk \in Blocks /\ job.off \in Offsets /\ 0 \in Offsets
      /\ flash[job.blk] \in Images(Contents)
  BY BlockRanges DEF TypeOK, FlashTypeOK, Jobs
<1>2. CommandResult[0] \in {flash[job.blk][0], job.image[0], Erased}
  BY <1>1 DEF CommandResult, AllErased, Images
<1>3. CASE FlashCommand
  BY <1>1, <1>2, <1>3
     DEF FlashCommand, ProgramPages, EraseSector, ReprogramPages, WipeSector
<1>4. CASE Interrupt
  <2>1. \A image \in InterruptedImages :
          image[0] \in {flash[job.blk][0], CommandResult[0], Torn}
    BY <1>1 DEF InterruptedImages
  <2> QED BY <1>1, <1>2, <1>4, <2>1 DEF Interrupt
<1> QED BY <1>3, <1>4

LEMMA CfgSlots ==
  /\ CfgBlock(0) # CfgBlock(1)
  /\ \A slot \in {0, 1} : CfgBlock(slot) \in Blocks /\ CfgBlock(slot) # 0
  /\ \A s \in Nat : s % 2 \in {0, 1} /\ (s + 1) % 2 \in {0, 1} /\ (s + 1) % 2 # s % 2
  /\ Erased \notin Records /\ Torn \notin Records /\ Blank \notin Records
BY Geometry, WearLevelAssumption DEF CfgBlock, Blocks

(* The parity of the slots is kept by the commands ...                     *)
LEMMA ParityCommand ==
  ASSUME TypeOK, SlotParity, FlashCommand \/ Interrupt
  PROVE  SlotParity'
<1> SUFFICES ASSUME NEW slot \in {0, 1}
             PROVE  /\ Parse(slot)' => ConfigCell(slot).seq' % 2 = slot
                    /\ (job.blk = CfgBlock(slot) /\ job.image[0] \in Records)' =>
                         (job.image[0].seq)' % 2 = slot
  BY DEF SlotParity
<1>1. Parse(slot)' => ConfigCell(slot).seq' % 2 = slot
  <2>1. CASE CfgBlock(slot) = job.blk
    BY <2>1, JobCell, CfgSlots DEF SlotParity, Parse, ConfigCell, CfgBlock
  <2>2. CASE CfgBlock(slot) # job.blk
    BY <2>2, OtherBlocksKept, CfgSlots DEF SlotParity, Parse, ConfigCell, CfgBlock
  <2> QED BY <2>1, <2>2
<1>2. job' = NoJob \/ (job'.blk = job.blk /\ job'.image = job.image)
  BY DEF TypeOK, FlashTypeOK, Jobs, FlashCommand, Interrupt,
         ProgramPages, EraseSector, ReprogramPages, WipeSector
<1>3. (job.blk = CfgBlock(slot) /\ job.image[0] \in Records)' => (job.image[0].seq)' % 2 = slot
  BY <1>2, CfgSlots DEF SlotParity, NoJob, CfgBlock
<1> QED BY <1>1, <1>3

(* ... and by a write that is not for a slot, or carries no record, or     *)
(* carries one of the right parity.                                        *)
LEMMA ParityWrite ==
  ASSUME TypeOK, SlotParity, NEW b \in Blocks, NEW o \in Offsets, NEW new,
         DoWrite(b, o, new),
         \A slot \in {0, 1} : b = CfgBlock(slot) =>
            o = 0 /\ (new \in Records => new.seq % 2 = slot)
  PROVE  SlotParity'
<1>1. flash[b] \in Images(Contents) /\ 0 \in Offsets
  BY BlockRanges DEF TypeOK, FlashTypeOK
<1>2. \/ job' = NoJob
      \/ job'.blk = b /\ job'.image = [flash[b] EXCEPT ![o] = new]
  BY DEF DoWrite
<1>3. flash' = flash
  BY DEF DoWrite
<1>4. ASSUME NEW slot \in {0, 1}, job'.blk = CfgBlock(slot), job'.image[0] \in Records
      PROVE  job'.image[0].seq % 2 = slot
  <2>1. job' # NoJob
    BY <1>4, CfgSlots DEF NoJob
  <2>2. b = CfgBlock(slot) /\ o = 0 /\ job'.image[0] = new
    BY <1>1, <1>2, <1>4, <2>1 DEF Images
  <2> QED BY <1>4, <2>2
<1> QED BY <1>3, <1>4 DEF SlotParity, Parse, ConfigCell, CfgBlock

LEMMA ParityPersist ==
  ASSUME TypeOK, SlotParity, NEW m \in Nat, NEW a \in Nat, NEW s \in Nat,
         PersistRecord(m, a, s)
  PROVE  SlotParity'
<1> DEFINE new == [move |-> m, access |-> a, seq |-> s]
<1>1. DoWrite(CfgBlock(s % 2), 0, new) /\ new.seq = s
  BY DEF PersistRecord
<1>2. CfgBlock(s % 2) \in Blocks /\ 0 \in Offsets
  BY BlockRanges
<1>3. \A slot \in {0, 1} : CfgBlock(s % 2) = CfgBlock(slot) => s % 2 = slot
  BY CfgSlots, Geometry DEF CfgBlock
<1> HIDE DEF new
<1> QED BY <1>1, <1>2, <1>3, ParityWrite

LEMMA ParityStep == TypeOK /\ SlotParity /\ [Next]_vars => SlotParity'
<1> SUFFICES ASSUME TypeOK, SlotParity, [Next]_vars
             PROVE  SlotParity'
  OBVIOUS
<1>a. ASSUME UNCHANGED flashvars PROVE SlotParity'
  BY <1>a DEF flashvars, SlotParity, Parse, ConfigCell, CfgBlock
<1>b. moveSteps \in Nat /\ accessCount \in Nat /\ sequence \in Nat
  BY DEF TypeOK
<1>c. \A b \in Blocks : b < D => \A slot \in {0, 1} : b # CfgBlock(slot)
  BY Geometry DEF CfgBlock
<1>1. CASE Boot
  BY <1>1, <1>a DEF Boot
<1>2. CASE FormatBegin
  BY <1>2, ParityWrite, CfgSlots, BlockRanges DEF FormatBegin
<1>3. CASE FormatBlankOther
  BY <1>3, ParityWrite, CfgSlots, BlockRanges DEF FormatBlankOther
<1>4. CASE FormatPersist
  BY <1>4, <1>b, ParityPersist DEF FormatPersist
<1>5. CASE FormatEnd \/ WriteEnd \/ MoveEnd
  BY <1>5, <1>a DEF FormatEnd, WriteEnd, MoveEnd
<1>6. ASSUME NEW lb \in 0 .. L - 1, NEW o \in Offsets, NEW v \in Values,
             WriteBegin(lb, o, v)
      PROVE  SlotParity'
  <2>1. PhysBlock(moveSteps, lb) \in Blocks /\ PhysBlock(moveSteps, lb) < D
    BY <1>b, BlockRanges
  <2> QED BY <1>6, <1>c, <2>1, ParityWrite DEF WriteBegin
<1>7. CASE MoveBegin
  <2>1. Hole(moveSteps) \in Blocks /\ Hole(moveSteps) < D
    BY <1>b, BlockRanges
  <2>2. flash' = flash /\ job'.blk = Hole(moveSteps)
    BY <1>7 DEF MoveBegin, DoErase, NoJob
  <2> QED BY <1>c, <2>1, <2>2 DEF SlotParity, Parse, ConfigCell, CfgBlock
<1>8. CASE MoveCopy
  <2>1. Hole(moveSteps) \in Blocks /\ Hole(moveSteps) < D /\ off \in Offsets
    BY <1>8, <1>b, BlockRanges, Geometry DEF MoveCopy, TypeOK, Offsets
  <2> QED BY <1>8, <1>c, <2>1, ParityWrite DEF MoveCopy
<1>9. CASE MoveCommit
  BY <1>9, <1>b, ParityPersist DEF MoveCommit
<1>10. CASE FlashStep \/ DeviceError \/ PowerCut
  BY <1>10, ParityCommand DEF FlashStep, DeviceError, PowerCut
<1>11. CASE UNCHANGED vars
  BY <1>11, <1>a DEF vars, flashvars
<1> QED BY <1>1, <1>2, <1>3, <1>4, <1>5, <1>6, <1>7, <1>8, <1>9, <1>10, <1>11
        DEF Next

(* Starting a command leaves the medium alone, and the command, if one is  *)
(* needed, is for the block named.                                         *)
LEMMA WriteStarts ==
  ASSUME TypeOK, NEW b \in Blocks, NEW o \in Offsets, NEW new, DoWrite(b, o, new)
  PROVE  /\ flash' = flash
         /\ \/ job' = NoJob /\ flash[b][o] = new
            \/ /\ job'.blk = b /\ job'.off = o /\ job'.kind \in {"program", "erase"}
               /\ job'.image[o] = new
BY DEF DoWrite, TypeOK, FlashTypeOK, Images

LEMMA PersistStarts ==
  ASSUME TypeOK, NEW m \in Nat, NEW a \in Nat, NEW s \in Nat, PersistRecord(m, a, s)
  PROVE  /\ flash' = flash
         /\ \/ job' = NoJob /\ HasRecord(s)
            \/ /\ job'.blk = CfgBlock(s % 2) /\ job'.off = 0
               /\ job'.kind \in {"program", "erase"}
               /\ job'.image[0] \in Records /\ job'.image[0].seq = s
<1> DEFINE new == [move |-> m, access |-> a, seq |-> s]
<1>1. DoWrite(CfgBlock(s % 2), 0, new) /\ new.seq = s /\ new \in Records
  BY DEF PersistRecord, Records
<1> HIDE DEF new
<1> QED BY <1>1, WriteStarts, BlockRanges DEF HasRecord, Parse, ConfigCell

(* A completed command of a configuration write: the record is whole as    *)
(* soon as its first page is programmed.                                   *)
LEMMA PersistContinues ==
  ASSUME TypeOK, JobTarget, pc \in {"persist", "record"}, FlashCommand
  PROVE  \/ job' = NoJob /\ flash'[CfgBlock(sequence % 2)][0] \in Records
                         /\ flash'[CfgBlock(sequence % 2)][0].seq = sequence
         \/ /\ job'.blk = CfgBlock(sequence % 2)
            /\ job'.kind = "reprogram"
            /\ job'.image[0] \in Records /\ job'.image[0].seq = sequence
            /\ job'.off > 0 => flash'[job'.blk][0] = job'.image[0]
<1>1. ~FlashIdle
  BY DEF FlashCommand, ProgramPages, EraseSector, ReprogramPages, WipeSector, FlashIdle
<1>2. /\ job.blk = CfgBlock(sequence % 2)
      /\ job.kind \in {"program", "erase", "reprogram"}
      /\ job.image[0] \in Records /\ job.image[0].seq = sequence
      /\ job.kind = "program" => job.off = 0
      /\ job.kind = "reprogram" /\ job.off > 0 => flash[job.blk][0] = job.image[0]
  BY <1>1 DEF JobTarget
<1>3. /\ flash \in [Blocks -> Images(Contents)] /\ job \in Jobs(Contents)
      /\ job.blk \in Blocks /\ job.off \in Offsets /\ 0 \in Offsets
      /\ flash[job.blk] \in Images(Contents)
  BY BlockRanges DEF TypeOK, FlashTypeOK, Jobs
<1>4. CASE ProgramPages
  BY <1>2, <1>3, <1>4 DEF ProgramPages, CommandResult, Images
<1>5. CASE EraseSector
  BY <1>2, <1>3, <1>5 DEF EraseSector, Jobs
<1>6. CASE ReprogramPages
  <2>1. flash'[job.blk][0] = job.image[0]
    <3>1. CASE job.off = 0
      BY <1>2, <1>3, <1>6, <3>1 DEF ReprogramPages, CommandResult, Images
    <3>2. CASE job.off # 0
      <4>1. job.off > 0
        BY <1>3, <3>2 DEF Offsets
      <4> QED BY <1>2, <1>3, <1>6, <3>2, <4>1 DEF ReprogramPages, CommandResult, Images
    <3> QED BY <3>1, <3>2
  <2>2. CASE job.off = SPB - 1
    BY <1>2, <1>6, <2>1, <2>2 DEF ReprogramPages
  <2>3. CASE job.off # SPB - 1
    BY <1>2, <1>3, <1>6, <2>1, <2>3 DEF ReprogramPages, Jobs
  <2> QED BY <2>2, <2>3
<1>7. CASE WipeSector
  BY <1>2, <1>7 DEF WipeSector
<1> QED BY <1>4, <1>5, <1>6, <1>7 DEF FlashCommand

(* A command either ends or goes on in the same block.                     *)
LEMMA CommandBlock ==
  ASSUME TypeOK, FlashCommand
  PROVE  job' = NoJob \/ job'.blk = job.blk
BY DEF TypeOK, FlashTypeOK, Jobs, FlashCommand,
       ProgramPages, EraseSector, ReprogramPages, WipeSector

LEMMA IdleInterrupt ==
  ASSUME TypeOK, Interrupt, FlashIdle
  PROVE  flash' = flash
<1>1. CommandResult = flash[job.blk]
  BY DEF FlashIdle, CommandResult
<1>2. flash \in [Blocks -> Images(Contents)] /\ job.blk \in Blocks
  BY DEF TypeOK, FlashTypeOK, Jobs
<1>3. \A image \in InterruptedImages : image = flash[job.blk]
  BY <1>1, <1>2 DEF InterruptedImages, Images
<1> QED BY <1>2, <1>3 DEF Interrupt

LEMMA TargetStep == TypeOK /\ JobTarget /\ [Next]_vars => JobTarget'
<1> SUFFICES ASSUME TypeOK, JobTarget, [Next]_vars
             PROVE  JobTarget'
  OBVIOUS
<1>a. moveSteps \in Nat /\ accessCount \in Nat /\ sequence \in Nat
  BY DEF TypeOK
<1>b. FlashIdle' <=> job'.kind = "none"
  BY DEF FlashIdle
<1>c. NoJob.kind = "none"
  BY DEF NoJob
<1>1. CASE Boot
  BY <1>1 DEF Boot, JobTarget, flashvars, FlashIdle
<1>2. CASE FormatBegin
  BY <1>2, <1>b, <1>c, WriteStarts, BlockRanges DEF FormatBegin, JobTarget
<1>3. CASE FormatBlankOther
  BY <1>3, <1>b, <1>c, WriteStarts, BlockRanges DEF FormatBlankOther, JobTarget
<1>4. CASE FormatPersist
  BY <1>4, <1>a, <1>b, <1>c, PersistStarts DEF FormatPersist, JobTarget
<1>5. CASE FormatEnd \/ WriteEnd \/ MoveEnd
  BY <1>5 DEF FormatEnd, WriteEnd, MoveEnd, JobTarget, flashvars, FlashIdle
<1>6. ASSUME NEW lb \in 0 .. L - 1, NEW o \in Offsets, NEW v \in Values,
             WriteBegin(lb, o, v)
      PROVE  JobTarget'
  BY <1>6, <1>a, <1>b, <1>c, WriteStarts, BlockRanges DEF WriteBegin, JobTarget
<1>7. CASE MoveBegin
  <2>1. job'.blk = Hole(moveSteps) /\ pc' = "move"
    BY <1>7 DEF MoveBegin, DoErase, NoJob
  <2> QED BY <2>1, <1>a, BlockRanges DEF JobTarget
<1>8. CASE MoveCopy
  <2>1. off \in Offsets
    BY <1>8, Geometry DEF MoveCopy, TypeOK, Offsets
  <2> QED BY <1>8, <2>1, <1>a, <1>b, <1>c, WriteStarts, BlockRanges
          DEF MoveCopy, JobTarget
<1>9. CASE MoveCommit
  BY <1>9, <1>a, <1>b, <1>c, PersistStarts DEF MoveCommit, JobTarget
<1>10. CASE FlashStep
  <2>1. ~FlashIdle
    BY <1>10 DEF FlashStep, FlashCommand, FlashIdle,
                 ProgramPages, EraseSector, ReprogramPages, WipeSector
  <2>2. pc' = pc /\ sequence' = sequence
    BY <1>10 DEF FlashStep, volvars
  <2>3. CASE pc \in {"persist", "record"}
    BY <1>10, <1>b, <1>c, <2>2, <2>3, PersistContinues DEF FlashStep, JobTarget
  <2>4. CASE pc \notin {"persist", "record"}
    BY <1>10, <1>b, <1>c, <2>1, <2>2, <2>4, CommandBlock DEF FlashStep, JobTarget
  <2> QED BY <2>3, <2>4
<1>11. CASE DeviceError \/ PowerCut
  BY <1>11, <1>b, <1>c DEF DeviceError, PowerCut, Interrupt, JobTarget
<1>12. CASE UNCHANGED vars
  BY <1>12 DEF vars, JobTarget, FlashIdle
<1> QED BY <1>1, <1>2, <1>3, <1>4, <1>5, <1>6, <1>7, <1>8, <1>9, <1>10, <1>11, <1>12
        DEF Next

(* A record survives whatever does not touch its slot.                     *)
LEMMA RecordKept ==
  ASSUME NEW s \in Nat, HasRecord(s),
         flash'[CfgBlock(s % 2)] = flash[CfgBlock(s % 2)]
  PROVE  flash'[CfgBlock(s % 2)][0] \in Records /\ flash'[CfgBlock(s % 2)][0].seq = s
BY DEF HasRecord, Parse, ConfigCell

LEMMA RecordMounts ==
  ASSUME NEW s \in Nat, flash'[CfgBlock(s % 2)][0] \in Records
  PROVE  ValidSlots' # {}
BY CfgSlots DEF ValidSlots, Parse, ConfigCell, CfgBlock

(* Mount picks a valid slot if there is one; its record is in the slot of  *)
(* its own parity.                                                         *)
LEMMA MountPicks ==
  ASSUME TypeOK, SlotParity, ValidSlots # {}
  PROVE  ConfigCell(BestSlot) \in Records /\ HasRecord(ConfigCell(BestSlot).seq)
<1>1. BestSlot \in {0, 1} /\ Parse(BestSlot)
  BY DEF ValidSlots, BestSlot
<1>2. ConfigCell(BestSlot).seq % 2 = BestSlot
  BY <1>1 DEF SlotParity
<1> QED BY <1>1, <1>2 DEF HasRecord, Parse

(* The step that matters is the cut: in the idle, data and move phases the *)
(* slots are not being written, and while the new record is written the    *)
(* other slot still holds the one before it.                               *)
LEMMA SafeStep ==
  ASSUME "config" \notin FaultPhases
  PROVE  TypeOK /\ ConfigInv /\ [Next]_vars => SafeRecord'
<1> SUFFICES ASSUME TypeOK, SlotParity, JobTarget, SafeRecord, [Next]_vars
             PROVE  SafeRecord'
  BY DEF ConfigInv
<1>a. moveSteps \in Nat /\ accessCount \in Nat /\ sequence \in Nat
  BY DEF TypeOK
<1>b. ASSUME flash' = flash, NEW s \in Nat, HasRecord(s), sequence' = s
      PROVE  HasRecord(sequence)'
  BY <1>b DEF HasRecord, Parse, ConfigCell, CfgBlock
<1>1. CASE Boot
  <2>1. pc = "off" /\ pc' = "idle" /\ flash' = flash /\ formatted' = formatted
    BY <1>1 DEF Boot, flashvars
  <2>2. ASSUME formatted PROVE mounted' /\ HasRecord(sequence)'
    <3>1. ValidSlots # {} /\ mounted'
      BY <1>1, <2>1, <2>2 DEF SafeRecord, Boot
    <3>2. sequence' = ConfigCell(BestSlot).seq /\ sequence' \in Nat
      BY <1>1, <3>1, MountPicks DEF Boot, Records
    <3> QED BY <2>1, <3>1, <3>2, <1>b, MountPicks
  <2> QED BY <2>1, <2>2 DEF SafeRecord, Formatting
<1>2. CASE FormatBegin
  BY <1>2 DEF FormatBegin, SafeRecord
<1>3. CASE FormatBlankOther
  BY <1>3 DEF FormatBlankOther, SafeRecord, Formatting
<1>4. CASE FormatPersist
  <2>1. pc' = "record" /\ ~formatted'
    BY <1>4 DEF FormatPersist, SafeRecord, Formatting
  <2>2. flash' = flash /\ (FlashIdle' => HasRecord(sequence + 1))
    BY <1>4, <1>a, PersistStarts DEF FormatPersist, FlashIdle
  <2>3. FlashIdle' => HasRecord(sequence)'
    BY <1>4, <1>a, <1>b, <2>2 DEF FormatPersist
  <2> QED BY <2>1, <2>3 DEF SafeRecord
<1>5. CASE FormatEnd
  <2>1. HasRecord(sequence) /\ mounted' /\ pc' = "idle"
    BY <1>5 DEF FormatEnd, SafeRecord
  <2>2. HasRecord(sequence)'
    BY <1>5, <1>a, <1>b, <2>1 DEF FormatEnd, flashvars
  <2> QED BY <2>1, <2>2 DEF SafeRecord, Formatting
<1>6. ASSUME formatted, pc \in {"idle", "data", "move"}, flash' = flash,
             sequence' = sequence, mounted' = mounted,
             pc' \in {"idle", "data", "move"}
      PROVE  SafeRecord'
  <2>1. HasRecord(sequence)' /\ mounted'
    BY <1>6, <1>a, <1>b DEF SafeRecord
  <2> QED BY <1>6, <2>1 DEF SafeRecord, Formatting
<1>7. ASSUME ~formatted', pc' \notin {"persist", "record"}
      PROVE  SafeRecord'
  BY <1>7 DEF SafeRecord
<1>8. ASSUME NEW lb \in 0 .. L - 1, NEW o \in Offsets, NEW v \in Values,
             WriteBegin(lb, o, v)
      PROVE  SafeRecord'
  <2>1. flash' = flash
    BY <1>8 DEF WriteBegin, DoWrite
  <2> QED BY <1>6, <1>7, <1>8, <2>1 DEF WriteBegin, volvars, TypeOK
<1>9. CASE WriteEnd
  BY <1>6, <1>7, <1>9 DEF WriteEnd, flashvars, TypeOK
<1>10. CASE MoveBegin
  <2>1. flash' = flash
    BY <1>10 DEF MoveBegin, DoErase
  <2> QED BY <1>6, <1>7, <1>10, <2>1 DEF MoveBegin, TypeOK
<1>11. CASE MoveCopy
  <2>1. flash' = flash
    BY <1>11 DEF MoveCopy, DoWrite
  <2> QED BY <1>6, <1>7, <1>11, <2>1 DEF MoveCopy, volvars, TypeOK
<1>12. CASE MoveCommit
  <2>1. flash' = flash /\ (FlashIdle' => HasRecord(sequence + 1))
    BY <1>12, <1>a, PersistStarts DEF MoveCommit, FlashIdle
  <2>2. sequence' = sequence + 1 /\ pc' = "persist"
    BY <1>12 DEF MoveCommit
  <2>3. FlashIdle' => HasRecord(sequence)'
    BY <1>a, <1>b, <2>1, <2>2
  <2>4. formatted' => mounted' /\ sequence' >= 1 /\ HasRecord(sequence)
    BY <1>12, <1>a, <2>2 DEF MoveCommit, SafeRecord
  <2>5. sequence' - 1 = sequence
    BY <1>a, <2>2
  <2>6. formatted' => HasRecord(sequence - 1)'
    BY <2>1, <2>4, <2>5 DEF HasRecord, Parse, ConfigCell, CfgBlock
  <2> QED BY <2>2, <2>3, <2>4, <2>6 DEF SafeRecord, Formatting
<1>13. CASE MoveEnd
  <2>1. HasRecord(sequence) /\ pc' = "idle"
    BY <1>13 DEF MoveEnd, SafeRecord
  <2>2. HasRecord(sequence)'
    BY <1>13, <1>a, <1>b, <2>1 DEF MoveEnd, flashvars, volvars
  <2> QED BY <1>13, <2>1, <2>2 DEF MoveEnd, volvars, SafeRecord, Formatting
<1>14. ASSUME NEW s \in Nat, HasRecord(s), FlashCommand \/ Interrupt,
              job.blk # CfgBlock(s % 2)
       PROVE  flash'[CfgBlock(s % 2)][0] \in Records /\ flash'[CfgBlock(s % 2)][0].seq = s
  BY <1>14, CfgSlots, OtherBlocksKept, RecordKept
<1>15. ASSUME pc \in {"data", "move"}, formatted, ~FlashIdle
       PROVE  HasRecord(sequence) /\ job.blk # CfgBlock(sequence % 2)
  <2>1. HasRecord(sequence) /\ job.blk < D /\ job.blk \in Blocks
    BY <1>15 DEF SafeRecord, JobTarget, TypeOK, FlashTypeOK, Jobs
  <2>2. CfgBlock(sequence % 2) >= D /\ CfgBlock(sequence % 2) \in Blocks
    BY <1>a, BlockRanges
  <2> HIDE DEF CfgBlock
  <2> QED BY <2>1, <2>2, Geometry DEF Blocks
<1>16. ASSUME pc = "persist", formatted, ~FlashIdle
       PROVE  /\ sequence - 1 \in Nat /\ HasRecord(sequence - 1)
              /\ job.blk # CfgBlock((sequence - 1) % 2)
  <2>1. sequence - 1 \in Nat /\ HasRecord(sequence - 1)
    BY <1>16, <1>a DEF SafeRecord
  <2>2. job.blk = CfgBlock(sequence % 2)
    BY <1>16 DEF JobTarget
  <2>3. (sequence - 1) % 2 # sequence % 2
    BY <1>a
  <2>4. (sequence - 1) % 2 \in {0, 1} /\ sequence % 2 \in {0, 1}
    BY <1>a, <2>1
  <2> QED BY <2>1, <2>2, <2>3, <2>4, Geometry DEF CfgBlock
<1>17. CASE FlashStep
  <2>1. ~FlashIdle /\ FlashCommand
    BY <1>17 DEF FlashStep, FlashCommand, FlashIdle,
                 ProgramPages, EraseSector, ReprogramPages, WipeSector
  <2>2. /\ pc' = pc /\ sequence' = sequence /\ mounted' = mounted
        /\ formatted' = formatted
    BY <1>17 DEF FlashStep, volvars
  <2>3. CASE pc \in {"data", "move"}
    <3>1. formatted => HasRecord(sequence)'
      BY <1>14, <1>15, <1>a, <2>1, <2>2, <2>3 DEF HasRecord, Parse, ConfigCell, CfgBlock
    <3> QED BY <2>2, <2>3, <3>1 DEF SafeRecord, Formatting
  <2>4. CASE pc \in {"persist", "record"}
    <3>1. FlashIdle' => HasRecord(sequence)'
      BY <2>1, <2>2, <2>4, PersistContinues
         DEF FlashIdle, HasRecord, Parse, ConfigCell, CfgBlock
    <3>2. pc = "persist" /\ formatted => sequence >= 1 /\ HasRecord(sequence - 1)'
      BY <1>14, <1>16, <1>a, <2>1, <2>2 DEF HasRecord, Parse, ConfigCell, CfgBlock
    <3> QED BY <2>2, <2>4, <3>1, <3>2 DEF SafeRecord, Formatting
  <2>5. CASE pc \notin {"data", "move", "persist", "record"}
    <3>1. ~formatted
      BY <2>1, <2>5 DEF JobTarget, SafeRecord, Formatting, TypeOK
    <3> QED BY <2>2, <2>5, <3>1 DEF SafeRecord
  <2> QED BY <2>3, <2>4, <2>5
<1>18. CASE DeviceError
  <2>1. pc \in {"data", "move"} /\ ~FlashIdle /\ Interrupt
    BY <1>18 DEF DeviceError, Phase
  <2>2. /\ pc' = "idle" /\ sequence' = sequence /\ mounted' = mounted
        /\ formatted' = formatted
    BY <1>18 DEF DeviceError, volvars
  <2>3. formatted => HasRecord(sequence)' /\ mounted'
    BY <1>14, <1>15, <1>a, <2>1, <2>2
       DEF SafeRecord, HasRecord, Parse, ConfigCell, CfgBlock
  <2> QED BY <2>2, <2>3 DEF SafeRecord, Formatting
<1>19. CASE PowerCut
  <2>1. Interrupt /\ pc # "off" /\ pc' = "off" /\ formatted' = formatted
    BY <1>19 DEF PowerCut
  <2>2. ASSUME formatted PROVE ValidSlots' # {}
    <3>1. CASE FlashIdle
      <4>1. pc = "persist" \/ HasRecord(sequence)
        BY <2>1, <2>2 DEF SafeRecord, Formatting, TypeOK
      <4>2. HasRecord(sequence)
        BY <3>1, <4>1 DEF SafeRecord
      <4>3. flash'[CfgBlock(sequence % 2)][0] \in Records
        BY <2>1, <3>1, <4>2, IdleInterrupt DEF HasRecord, Parse, ConfigCell
      <4> QED BY <1>a, <4>3, RecordMounts
    <3>2. CASE ~FlashIdle /\ pc = "persist"
      BY <1>14, <1>16, <2>1, <2>2, <3>2, RecordMounts
    <3>3. CASE ~FlashIdle /\ pc # "persist"
      <4>1. pc \in {"data", "move"}
        BY <2>1, <2>2, <3>3 DEF SafeRecord, Formatting, JobTarget, TypeOK
      <4> QED BY <1>14, <1>15, <1>a, <2>1, <2>2, <3>3, <4>1, RecordMounts
    <3> QED BY <3>1, <3>2, <3>3
  <2> QED BY <2>1, <2>2 DEF SafeRecord, Formatting
<1>20. CASE UNCHANGED vars
  BY <1>20 DEF vars, SafeRecord, Formatting, FlashIdle, HasRecord, Parse,
               ConfigCell, CfgBlock, ValidSlots
<1> QED BY <1>1, <1>2, <1>3, <1>4, <1>5, <1>8, <1>9, <1>10, <1>11, <1>12,
           <1>13, <1>17, <1>18, <1>19, <1>20 DEF Next

LEMMA ConfigInit == Init => ConfigInv
<1> SUFFICES ASSUME Init PROVE ConfigInv
  OBVIOUS
<1>1. \A slot \in {0, 1} : ~Parse(slot)
  BY CfgSlots, BlockRanges DEF Init, Parse, ConfigCell, AllErased
<1>2. \A slot \in {0, 1} : job.blk # CfgBlock(slot)
  BY CfgSlots DEF Init, NoJob
<1>3. FlashIdle
  BY DEF Init, FlashIdle, NoJob
<1> QED BY <1>1, <1>2, <1>3 DEF Init, ConfigInv, SlotParity, JobTarget, SafeRecord

LEMMA ConfigImpliesMountable == TypeOK /\ ConfigInv => AlwaysMountable
<1> SUFFICES ASSUME TypeOK, ConfigInv, formatted PROVE ValidSlots # {}
  BY DEF AlwaysMountable
<1>1. sequence \in Nat /\ (\A s \in Nat : HasRecord(s) => ValidSlots # {})
  BY CfgSlots DEF TypeOK, HasRecord, ValidSlots
<1>2. CASE pc \in {"idle", "data", "move"}
  BY <1>1, <1>2 DEF ConfigInv, SafeRecord
<1>3. CASE pc = "persist"
  <2>1. sequence - 1 \in Nat /\ HasRecord(sequence - 1)
    BY <1>1, <1>3 DEF ConfigInv, SafeRecord
  <2> QED BY <1>1, <2>1
<1> QED BY <1>2, <1>3 DEF ConfigInv, SafeRecord, Formatting, TypeOK

(* When the chip does not fail while a configuration is being written, a   *)
(* power cut may fall anywhere, in Do_Move and between any two commands of *)
(* Persist's erase and re-program included, and a formatted volume still   *)
(* finds a configuration to mount (Persist's ping-pong slots).             *)
THEOREM AlwaysMountableThm ==
  ASSUME "config" \notin FaultPhases
  PROVE  Spec => []AlwaysMountable
<1>1. Init => TypeOK /\ ConfigInv
  BY TypeInit, ConfigInit
<1>2. TypeOK /\ ConfigInv /\ [Next]_vars => (TypeOK /\ ConfigInv)'
  BY TypeStep, ParityStep, TargetStep, SafeStep DEF ConfigInv
<1>3. TypeOK /\ ConfigInv => AlwaysMountable
  BY ConfigImpliesMountable
<1> QED BY <1>1, <1>2, <1>3, PTL DEF Spec

---------------------------------------------------------------------------
(* A move costs one erase                                                  *)

LEMMA HoleBlankStep == TypeOK /\ HoleBlank /\ [Next]_vars => HoleBlank'
<1> SUFFICES ASSUME TypeOK, HoleBlank, [Next]_vars, pc' = "move"
             PROVE  HoleBlank'
  BY DEF HoleBlank
<1>1. CASE MoveBegin
  BY <1>1 DEF MoveBegin, DoErase, HoleBlank, Hole, NoJob
<1>2. CASE MoveCopy
  <2>1. off \in Offsets /\ Hole(moveSteps) \in Blocks /\ moveSteps' = moveSteps
    BY <1>2, BlockRanges, Geometry DEF MoveCopy, volvars, TypeOK, Offsets
  <2>2. flash' = flash /\ off' = off + 1 /\ FlashIdle /\ pc = "move"
    BY <1>2 DEF MoveCopy, DoWrite
  <2>3. \A o \in Offsets : o >= off => flash[Hole(moveSteps)][o] = Erased
    BY <2>2 DEF HoleBlank, FlashIdle
  <2>4. flash[Hole(moveSteps)][off] = Erased
    BY <2>1, <2>3 DEF Offsets
  <2>5. \/ job' = NoJob
        \/ job'.kind = "program" /\ job'.blk = Hole(moveSteps) /\ job'.off = off
    BY <1>2, <2>4 DEF MoveCopy, DoWrite, ClearOnly
  <2>6. \A o \in Offsets : o >= off' => flash'[Hole(moveSteps)][o] = Erased
    BY <2>1, <2>2, <2>3 DEF Offsets
  <2>7. off < off'
    BY <2>1, <2>2 DEF Offsets
  <2> QED BY <2>1, <2>5, <2>6, <2>7 DEF HoleBlank, Hole, NoJob
<1>3. CASE FlashStep
  <2>1. /\ pc = "move" /\ moveSteps' = moveSteps /\ off' = off /\ FlashCommand
    BY <1>3 DEF FlashStep, volvars
  <2>2. /\ flash \in [Blocks -> Images(Contents)] /\ job.blk \in Blocks
        /\ job.off \in Offsets /\ off \in 0 .. SPB
        /\ flash[job.blk] \in Images(Contents)
    BY DEF TypeOK, FlashTypeOK, Jobs
  <2>3. CASE ProgramPages
    <3>1. /\ job.blk = Hole(moveSteps) /\ job.off < off
          /\ \A o \in Offsets : o >= off => flash[Hole(moveSteps)][o] = Erased
      BY <2>1, <2>3 DEF ProgramPages, HoleBlank
    <3>2. flash'[job.blk] = [flash[job.blk] EXCEPT ![job.off] = job.image[job.off]]
      BY <2>2, <2>3 DEF ProgramPages, CommandResult
    <3>3. \A o \in Offsets : o >= off => flash'[job.blk][o] = Erased
      BY <2>2, <3>1, <3>2 DEF Images, Offsets
    <3>4. Hole(moveSteps)' = Hole(moveSteps) /\ job' = NoJob
      BY <2>1, <2>3 DEF Hole, ProgramPages
    <3> QED BY <2>1, <3>1, <3>3, <3>4 DEF HoleBlank, NoJob
  <2>4. CASE WipeSector
    <3>1. job.blk = Hole(moveSteps) /\ flash'[job.blk] = AllErased /\ job' = NoJob
      BY <2>1, <2>2, <2>4 DEF WipeSector, CommandResult, HoleBlank
    <3> QED BY <2>1, <3>1 DEF HoleBlank, Hole, AllErased, NoJob
  <2>5. ~EraseSector /\ ~ReprogramPages
    BY <2>1 DEF EraseSector, ReprogramPages, HoleBlank
  <2> QED BY <2>1, <2>3, <2>4, <2>5 DEF FlashCommand
<1>4. CASE UNCHANGED vars
  BY <1>4 DEF vars, HoleBlank, Hole
<1>5. CASE Boot \/ FormatBegin \/ FormatBlankOther \/ FormatPersist \/ FormatEnd
  BY <1>5 DEF Boot, FormatBegin, FormatBlankOther, FormatPersist, FormatEnd
<1>6. ASSUME NEW lb \in 0 .. L - 1, NEW o \in Offsets, NEW v \in Values,
             WriteBegin(lb, o, v)
      PROVE  FALSE
  BY <1>6 DEF WriteBegin
<1>7. CASE WriteEnd \/ MoveCommit \/ MoveEnd \/ DeviceError \/ PowerCut
  BY <1>7 DEF WriteEnd, MoveCommit, MoveEnd, DeviceError, PowerCut
<1> QED BY <1>1, <1>2, <1>3, <1>4, <1>5, <1>6, <1>7 DEF Next

(* The copies of a move are programmed in place: whatever was in the hole, *)
(* and wherever an earlier move was interrupted, no copy needs a second    *)
(* erase (Do_Move's erase-first).                                          *)
THEOREM MoveErasesOnceThm == Spec => []MoveErasesOnce
<1>1. Init => TypeOK /\ HoleBlank
  BY TypeInit DEF Init, HoleBlank
<1>2. TypeOK /\ HoleBlank /\ [Next]_vars => (TypeOK /\ HoleBlank)'
  BY TypeStep, HoleBlankStep
<1>3. TypeOK /\ HoleBlank => MoveErasesOnce
  BY DEF HoleBlank, MoveErasesOnce
<1> QED BY <1>1, <1>2, <1>3, PTL DEF Spec
-------------------------------------------------------------------------------
(***************************************************************************)
(* WearLevel implements LogicalDisk, as long as the chip does not fail     *)
(* while a configuration is written.  DiskInv is the invariant.            *)
(***************************************************************************)

(* Whether the sector of a configuration write is on the medium.           *)
Landed == FlashIdle \/ (job.kind = "reprogram" /\ job.off > 0)

(* The adapter writes x as first sector of a slot.                         *)
Writing(slot, x) ==
  /\ Landed => ConfigCell(slot) = x
  /\ ~FlashIdle =>
       /\ job.blk = CfgBlock(slot) /\ job.image[0] = x
       /\ job.kind \in {"program", "erase", "reprogram"}
       /\ job.kind = "program" => job.off = 0

NewRecord == [move |-> moveSteps, access |-> accessCount, seq |-> sequence]
ConfigWrites ==
  /\ pc = "blank0" => Writing(0, Blank)
  /\ pc \in {"persist", "record"} => Writing(sequence % 2, NewRecord)

(* Format leaves slot 0 without a record, and gives slot 1 the number 1.   *)
FormatSteps ==
  /\ pc \in {"blank0", "blank1"} => sequence = 0
  /\ pc = "record" => sequence = 1
  /\ pc = "blank1" /\ ~FlashIdle => job.blk = CfgBlock(1)
  /\ pc \in {"blank1", "record"} => ~Parse(0)

(* The records of a formatted volume: that of sequence holds the mapping   *)
(* in memory, and the other one is older; while a move is persisted, the   *)
(* record before it holds the mapping before it.                           *)
Older(slot, n) == Parse(slot) => ConfigCell(slot).seq < n

MapsAgree ==
  formatted =>
    /\ pc \in {"idle", "data", "move"} =>
         /\ ConfigCell(sequence % 2).move = moveSteps
         /\ Older((sequence + 1) % 2, sequence)
    /\ pc = "persist" =>
         /\ ConfigCell((sequence - 1) % 2).move = moveSteps - 1
         /\ ~Landed => Older(sequence % 2, sequence - 1)

(* What a move has copied so far, the sector that is being programmed      *)
(* included; when it is counted, the copy is complete.                     *)
Copied(o) ==
  IF job.kind = "program" /\ job.off = o
    THEN job.image[o] = flash[MoveSource(moveSteps)][o]
    ELSE flash[Hole(moveSteps)][o] = flash[MoveSource(moveSteps)][o]

CopyRight ==
  /\ pc = "move" => \A o \in Offsets : o < off => Copied(o)
  /\ pc = "persist" =>
       /\ moveSteps >= 1
       /\ flash[Hole(moveSteps - 1)] = flash[MoveSource(moveSteps - 1)]

(* The adapter writes the sector that was asked for: before the erase the  *)
(* buffer has one new sector, after it the block has what was programmed.  *)
WriteRight ==
  pc = "data" /\ ~FlashIdle =>
    /\ job.blk = PhysBlock(moveSteps, req.blk)
    /\ job.kind \in {"program", "erase", "reprogram"}
    /\ job.kind # "reprogram" => job.image = [flash[job.blk] EXCEPT ![req.off] = req.val]
    /\ job.kind = "program" => job.off = req.off
    /\ job.kind = "reprogram" =>
         \A o \in Offsets : o < job.off => flash[job.blk][o] = job.image[o]

OffUnmounted == pc = "off" => ~mounted

DiskInv ==
  ConfigWrites /\ FormatSteps /\ MapsAgree /\ CopyRight /\ WriteRight /\ OffUnmounted
-------------------------------------------------------------------------------
(* Commands                                                                *)

LEMMA CommandRuns == FlashCommand => ~FlashIdle
BY DEF FlashCommand, ProgramPages, EraseSector, ReprogramPages, WipeSector, FlashIdle

LEMMA JobTyped ==
  TypeOK => /\ job.blk \in Blocks /\ job.off \in Offsets
            /\ job.image \in [Offsets -> Cells(Contents)]
            /\ \A b \in Blocks : flash[b] \in [Offsets -> Cells(Contents)]
            /\ DOMAIN flash = Blocks /\ 0 \in Offsets
BY BlockRanges DEF TypeOK, FlashTypeOK, Jobs, Images

(* A command, finished or interrupted, in a data block leaves the slots as *)
(* they are, and one in a slot the data.                                   *)
LEMMA ConfigUntouched ==
  ASSUME TypeOK, FlashCommand \/ Interrupt, FlashIdle \/ job.blk < D, NEW slot \in {0, 1}
  PROVE  flash'[CfgBlock(slot)] = flash[CfgBlock(slot)]
<1>1. CfgBlock(slot) \in Blocks /\ CfgBlock(slot) >= D
  BY BlockRanges
<1>2. CASE FlashIdle
  BY <1>2, CommandRuns, IdleInterrupt
<1>3. CASE job.blk < D
  <2>1. job.blk # CfgBlock(slot)
    BY <1>1, <1>3, JobTyped, Geometry DEF Blocks
  <2> QED BY <1>1, <2>1, OtherBlocksKept
<1> QED BY <1>2, <1>3

LEMMA DataUntouched ==
  ASSUME TypeOK, FlashCommand \/ Interrupt, FlashIdle \/ job.blk >= D,
         NEW b \in Blocks, b < D
  PROVE  flash'[b] = flash[b]
<1>1. CASE FlashIdle
  BY <1>1, CommandRuns, IdleInterrupt
<1>2. CASE job.blk >= D
  <2>1. job.blk # b
    BY <1>2, JobTyped, Geometry DEF Blocks
  <2> QED BY <2>1, OtherBlocksKept
<1> QED BY <1>1, <1>2

(* A configuration write goes on until its sector has landed, and once it  *)
(* has, it stays.                                                          *)
LEMMA WritingGoesOn ==
  ASSUME TypeOK, NEW slot \in {0, 1}, NEW x, Writing(slot, x), FlashCommand
  PROVE  /\ job' = NoJob => flash'[CfgBlock(slot)][0] = x
         /\ job' # NoJob => /\ job'.blk = CfgBlock(slot) /\ job'.image[0] = x
                            /\ job'.kind = "reprogram"
                            /\ job'.off > 0 => flash'[CfgBlock(slot)][0] = x
                            /\ Landed => job'.off > 0
<1>1. /\ job.blk = CfgBlock(slot) /\ job.image[0] = x
      /\ job.kind \in {"program", "erase", "reprogram"}
      /\ job.kind = "program" => job.off = 0
      /\ Landed => flash[CfgBlock(slot)][0] = x
  BY CommandRuns DEF Writing, ConfigCell
<1>2. /\ job.blk \in Blocks /\ job.off \in Offsets /\ 0 \in Offsets
      /\ flash[job.blk] \in [Offsets -> Cells(Contents)] /\ DOMAIN flash = Blocks
      /\ flash \in [Blocks -> Images(Contents)] /\ job \in Jobs(Contents)
  BY JobTyped DEF TypeOK, FlashTypeOK
<1>3. CASE ProgramPages
  BY <1>1, <1>2, <1>3 DEF ProgramPages, CommandResult
<1>4. CASE EraseSector
  <2>1. /\ job'.kind = "reprogram" /\ job'.off = 0
        /\ job'.blk = job.blk /\ job'.image = job.image
    BY <1>2, <1>4 DEF EraseSector, Jobs
  <2>2. job' # NoJob /\ ~Landed
    BY <1>4, <2>1 DEF EraseSector, NoJob, Landed, FlashIdle
  <2> QED BY <1>1, <2>1, <2>2
<1>5. CASE ReprogramPages
  <2>1. flash'[job.blk][0] = x
    <3>1. CASE job.off = 0
      BY <1>1, <1>2, <1>5, <3>1 DEF ReprogramPages, CommandResult
    <3>2. CASE job.off # 0
      <4>1. Landed
        BY <1>2, <1>5, <3>2 DEF Offsets, Landed, ReprogramPages
      <4> QED BY <1>1, <1>2, <1>5, <3>2, <4>1 DEF ReprogramPages, CommandResult
    <3> QED BY <3>1, <3>2
  <2>2. CASE job.off = SPB - 1
    BY <1>1, <1>5, <2>1, <2>2 DEF ReprogramPages
  <2>3. CASE job.off # SPB - 1
    <3>1. job' = [job EXCEPT !.off = job.off + 1] /\ job.off + 1 > 0
      BY <1>2, <1>5, <2>3 DEF ReprogramPages, Offsets
    <3> QED BY <1>1, <1>2, <1>5, <2>1, <3>1 DEF ReprogramPages, Jobs, NoJob
  <2> QED BY <2>2, <2>3
<1>6. CASE WipeSector
  BY <1>1, <1>6 DEF WipeSector
<1> QED BY <1>3, <1>4, <1>5, <1>6 DEF FlashCommand

LEMMA WritingBegins ==
  ASSUME TypeOK, NEW slot \in {0, 1}, NEW x, DoWrite(CfgBlock(slot), 0, x)
  PROVE  /\ flash' = flash
         /\ job'.kind = "none" => flash[CfgBlock(slot)][0] = x
         /\ job'.kind # "none" => /\ job'.blk = CfgBlock(slot) /\ job'.image[0] = x
                                 /\ job'.kind \in {"program", "erase"} /\ job'.off = 0
<1>1. CfgBlock(slot) \in Blocks /\ 0 \in Offsets
  BY BlockRanges
<1>2. NoJob.kind = "none"
  BY DEF NoJob
<1> QED BY <1>1, <1>2, WriteStarts
-------------------------------------------------------------------------------
(* Configuration writes                                                    *)

LEMMA SlotsStep ==
  TypeOK /\ ConfigWrites /\ FormatSteps /\ [Next]_vars => (ConfigWrites /\ FormatSteps)'
<1> SUFFICES ASSUME TypeOK, ConfigWrites, FormatSteps, [Next]_vars
             PROVE  (ConfigWrites /\ FormatSteps)'
  OBVIOUS
<1>a. moveSteps \in Nat /\ accessCount \in Nat /\ sequence \in Nat
  BY DEF TypeOK
<1>b. ASSUME pc' \notin {"blank0", "blank1", "record", "persist"}
      PROVE  (ConfigWrites /\ FormatSteps)'
  BY <1>b DEF ConfigWrites, FormatSteps
<1>1. CASE FormatBegin
  <2>1. Writing(0, Blank)'
    BY <1>1, WritingBegins DEF FormatBegin, Writing, Landed, FlashIdle, ConfigCell, CfgBlock
  <2> QED BY <1>1, <2>1 DEF FormatBegin, ConfigWrites, FormatSteps
<1>2. CASE FormatBlankOther
  <2>1. ConfigCell(0) = Blank /\ flash' = flash /\ sequence' = sequence /\ pc' = "blank1"
    BY <1>2, WritingBegins
       DEF FormatBlankOther, volvars, ConfigWrites, Writing, Landed, DoWrite
  <2>2. ~FlashIdle' => job'.blk = CfgBlock(1)
    BY <1>2, WritingBegins DEF FormatBlankOther, FlashIdle
  <2>3. ~Parse(0)' /\ sequence' = 0
    BY <1>2, <2>1, CfgSlots DEF FormatBlankOther, FormatSteps, Parse, ConfigCell, CfgBlock
  <2> QED BY <2>1, <2>2, <2>3 DEF ConfigWrites, FormatSteps, CfgBlock
<1>3. ASSUME NEW m \in Nat, NEW a \in Nat, NEW s \in Nat, PersistRecord(m, a, s),
             moveSteps' = m, accessCount' = a, sequence' = s
      PROVE  Writing(sequence % 2, NewRecord)' /\ flash' = flash
  <2> DEFINE new == [move |-> m, access |-> a, seq |-> s]
  <2>1. DoWrite(CfgBlock(s % 2), 0, new) /\ s % 2 \in {0, 1} /\ NewRecord' = new
    BY <1>3, CfgSlots DEF PersistRecord, NewRecord
  <2> HIDE DEF new
  <2>2. /\ flash' = flash
        /\ job'.kind = "none" => flash[CfgBlock(s % 2)][0] = new
        /\ job'.kind # "none" => /\ job'.blk = CfgBlock(s % 2) /\ job'.image[0] = new
                                /\ job'.kind \in {"program", "erase"} /\ job'.off = 0
    BY <2>1, WritingBegins
  <2> QED BY <1>3, <2>1, <2>2 DEF Writing, Landed, FlashIdle, ConfigCell, CfgBlock
<1>4. CASE FormatPersist
  <2>1. /\ PersistRecord(moveSteps, accessCount, sequence + 1)
        /\ moveSteps' = moveSteps /\ accessCount' = accessCount
        /\ sequence' = sequence + 1 /\ sequence = 0 /\ ~Parse(0) /\ pc' = "record"
    BY <1>4 DEF FormatPersist, FormatSteps
  <2>2. Writing(sequence % 2, NewRecord)' /\ flash' = flash
    BY <1>3, <1>a, <2>1
  <2>3. ~Parse(0)'
    BY <2>1, <2>2 DEF Parse, ConfigCell, CfgBlock
  <2> QED BY <2>1, <2>2, <2>3 DEF ConfigWrites, FormatSteps
<1>5. CASE MoveCommit
  <2>1. Writing(sequence % 2, NewRecord)' /\ pc' = "persist"
    <3>1. /\ PersistRecord(moveSteps + 1, 0, sequence + 1) /\ pc' = "persist"
          /\ moveSteps' = moveSteps + 1 /\ accessCount' = 0 /\ sequence' = sequence + 1
      BY <1>5 DEF MoveCommit
    <3> QED BY <1>3, <1>a, <3>1
  <2> QED BY <2>1 DEF ConfigWrites, FormatSteps
<1>6. CASE FlashStep
  <2>1. /\ FlashCommand /\ pc' = pc /\ sequence' = sequence
        /\ NewRecord' = NewRecord /\ ~FlashIdle
    BY <1>6, CommandRuns DEF FlashStep, volvars, NewRecord
  <2>2. ASSUME NEW slot \in {0, 1}, NEW x, Writing(slot, x)
        PROVE  /\ Landed' => flash'[CfgBlock(slot)][0] = x
               /\ ~FlashIdle' => /\ job'.blk = CfgBlock(slot) /\ job'.image[0] = x
                                /\ job'.kind = "reprogram"
    BY <2>1, <2>2, WritingGoesOn DEF Landed, FlashIdle, NoJob
  <2>3. CASE pc = "blank0"
    <3>1. Writing(0, Blank)'
      BY <2>2, <2>3 DEF ConfigWrites, Writing, ConfigCell, CfgBlock
    <3> QED BY <2>1, <2>3, <3>1 DEF ConfigWrites, FormatSteps
  <2>4. ASSUME pc \in {"blank1", "record"}, job.blk = CfgBlock(1) PROVE ~Parse(0)'
    BY <2>1, <2>4, OtherBlocksKept, CfgSlots DEF FormatSteps, Parse, ConfigCell, CfgBlock
  <2>5. CASE pc = "blank1"
    <3>1. job.blk = CfgBlock(1) /\ (job' = NoJob \/ job'.blk = job.blk)
      BY <2>1, <2>5, CommandBlock DEF FormatSteps
    <3>2. ~FlashIdle' => job'.blk = CfgBlock(1)
      BY <3>1 DEF FlashIdle, NoJob
    <3> QED BY <2>1, <2>4, <2>5, <3>1, <3>2 DEF ConfigWrites, FormatSteps, CfgBlock
  <2>6. CASE pc \in {"persist", "record"}
    <3>1. Writing(sequence % 2, NewRecord) /\ sequence % 2 \in {0, 1}
      BY <1>a, <2>6, CfgSlots DEF ConfigWrites
    <3>2. Writing(sequence % 2, NewRecord)'
      BY <2>1, <2>2, <3>1 DEF Writing, ConfigCell, CfgBlock
    <3>3. pc = "record" => job.blk = CfgBlock(1)
      BY <2>1, <3>1 DEF FormatSteps, Writing
    <3> QED BY <2>1, <2>4, <2>6, <3>2, <3>3 DEF ConfigWrites, FormatSteps
  <2> QED BY <1>b, <2>1, <2>3, <2>5, <2>6
<1>7. CASE UNCHANGED vars
  BY <1>7 DEF vars, ConfigWrites, FormatSteps, Writing, Landed, FlashIdle, NewRecord,
              ConfigCell, CfgBlock, Parse
<1>8. ASSUME NEW lb \in 0 .. L - 1, NEW o \in Offsets, NEW v \in Values,
             WriteBegin(lb, o, v)
      PROVE  (ConfigWrites /\ FormatSteps)'
  BY <1>b, <1>8 DEF WriteBegin
<1>9. CASE Boot \/ FormatEnd \/ WriteEnd \/ MoveBegin \/ MoveCopy \/ MoveEnd
           \/ DeviceError \/ PowerCut
  BY <1>b, <1>9 DEF Boot, FormatEnd, WriteEnd, MoveBegin, MoveCopy, MoveEnd,
                    DeviceError, PowerCut
<1> QED BY <1>1, <1>2, <1>4, <1>5, <1>6, <1>7, <1>8, <1>9 DEF Next
-------------------------------------------------------------------------------
(* Moves                                                                   *)

LEMMA SourceIsNotHole ==
  ASSUME NEW t \in Nat
  PROVE  /\ Hole(t) # MoveSource(t)
         /\ Hole(t) \in Blocks /\ Hole(t) < D
         /\ MoveSource(t) \in Blocks /\ MoveSource(t) < D
<1>1. MoveSource(t) \in 0 .. D - 1 /\ MoveSource(t) = t % D
  BY Geometry, DivMod DEF MoveSource
<1>2. Hole(t) # MoveSource(t)
  BY <1>1, HoleValue, Geometry
<1> QED BY <1>1, <1>2, HoleValue, Geometry DEF Blocks

LEMMA CopyStep ==
  TypeOK /\ HoleBlank /\ ConfigWrites /\ CopyRight /\ [Next]_vars => CopyRight'
<1> SUFFICES ASSUME TypeOK, HoleBlank, ConfigWrites, CopyRight, [Next]_vars
             PROVE  CopyRight'
  OBVIOUS
<1>a. moveSteps \in Nat /\ off \in 0 .. SPB /\ sequence \in Nat
  BY DEF TypeOK
<1>b. ASSUME pc' \notin {"move", "persist"} PROVE CopyRight'
  BY <1>b DEF CopyRight
<1> DEFINE H == Hole(moveSteps)
           S == MoveSource(moveSteps)
<1>c. H # S /\ H \in Blocks /\ H < D /\ S \in Blocks /\ S < D
  BY <1>a, SourceIsNotHole
<1>d. moveSteps' = moveSteps => Hole(moveSteps)' = H /\ MoveSource(moveSteps)' = S
  BY DEF Hole, MoveSource
<1>1. CASE MoveBegin
  BY <1>1, <1>a DEF MoveBegin, CopyRight, Offsets
<1>2. CASE MoveCopy
  <2>1. /\ flash' = flash /\ moveSteps' = moveSteps /\ off' = off + 1 /\ pc' = "move"
        /\ FlashIdle /\ DoWrite(H, off, flash[S][off]) /\ off \in Offsets
    BY <1>2, <1>a, Geometry DEF MoveCopy, DoWrite, volvars, Offsets
  <2>2. \A o \in Offsets : o < off => flash[H][o] = flash[S][o]
    BY <1>2, <2>1 DEF MoveCopy, CopyRight, Copied, FlashIdle
  <2>3. \/ job'.kind # "program" /\ flash[H][off] = flash[S][off]
        \/ job'.kind = "program" /\ job'.off = off /\ job'.image[off] = flash[S][off]
    <3>1. \/ job' = NoJob /\ flash[H][off] = flash[S][off]
          \/ job'.off = off /\ job'.kind \in {"program", "erase"}
             /\ job'.image[off] = flash[S][off]
      BY <1>c, <2>1, WriteStarts
    <3>2. flash[H][off] = Erased
      BY <1>2, <2>1, <1>a DEF MoveCopy, HoleBlank, FlashIdle, Offsets
    <3>3. job'.kind # "erase"
      BY <2>1, <3>2 DEF DoWrite, ClearOnly, NoJob
    <3> QED BY <3>1, <3>3 DEF NoJob
  <2>4. \A o \in Offsets : o < off' => o < off \/ o = off
    BY <1>a, <2>1 DEF Offsets
  <2>5. \A o \in Offsets : o < off' => Copied(o)'
    BY <1>a, <1>d, <2>1, <2>2, <2>3, <2>4 DEF Copied, Offsets
  <2> QED BY <2>1, <2>5 DEF CopyRight
<1>3. CASE MoveCommit
  <2>1. /\ flash' = flash /\ moveSteps' = moveSteps + 1 /\ pc' = "persist"
        /\ FlashIdle /\ off = SPB /\ pc = "move"
    BY <1>3 DEF MoveCommit, PersistRecord, DoWrite
  <2>2. \A o \in Offsets : flash[H][o] = flash[S][o]
    BY <2>1, Geometry DEF CopyRight, Copied, FlashIdle, Offsets
  <2>3. flash[H] = flash[S]
    BY <1>c, <2>2, JobTyped
  <2>4. moveSteps' - 1 = moveSteps /\ moveSteps' >= 1
    BY <1>a, <2>1
  <2> QED BY <2>1, <2>3, <2>4 DEF CopyRight
<1>4. CASE FlashStep
  <2>1. /\ FlashCommand /\ pc' = pc /\ moveSteps' = moveSteps /\ off' = off
    BY <1>4 DEF FlashStep, volvars
  <2>2. CASE pc = "move"
    <3>1. job.blk = H /\ job.kind \in {"program", "wipe"}
      BY <2>1, <2>2, CommandRuns DEF HoleBlank, FlashIdle
    <3>2. flash'[S] = flash[S]
      BY <1>c, <2>1, <3>1, OtherBlocksKept
    <3>3. CASE job.kind = "wipe"
      <4>1. off = 0
        BY <2>2, <3>3 DEF HoleBlank
      <4> QED BY <2>1, <2>2, <4>1, <1>a DEF CopyRight, Offsets
    <3>4. CASE job.kind = "program"
      <4>1. ProgramPages
        BY <2>1, <3>4 DEF FlashCommand, EraseSector, ReprogramPages, WipeSector
      <4>2. flash'[H] = [flash[H] EXCEPT ![job.off] = job.image[job.off]] /\ job' = NoJob
        BY <3>1, <3>4, <4>1, JobTyped DEF ProgramPages, CommandResult
      <4>3. \A o \in Offsets : o < off => flash'[H][o] = flash[S][o]
        <5> SUFFICES ASSUME NEW o \in Offsets, o < off PROVE flash'[H][o] = flash[S][o]
          OBVIOUS
        <5>1. Copied(o)
          BY <2>2 DEF CopyRight
        <5> QED BY <1>c, <3>4, <4>2, <5>1, JobTyped DEF Copied
      <4> QED BY <1>d, <2>1, <2>2, <3>2, <4>2, <4>3 DEF CopyRight, Copied, NoJob
    <3> QED BY <3>1, <3>3, <3>4
  <2>3. CASE pc = "persist"
    <3>1. moveSteps >= 1 /\ moveSteps - 1 \in Nat
          /\ flash[Hole(moveSteps - 1)] = flash[MoveSource(moveSteps - 1)]
      BY <1>a, <2>3 DEF CopyRight
    <3>2. job.blk >= D
      BY <1>a, <2>1, <2>3, CommandRuns, BlockRanges DEF ConfigWrites, Writing
    <3>3. /\ flash'[Hole(moveSteps - 1)] = flash[Hole(moveSteps - 1)]
          /\ flash'[MoveSource(moveSteps - 1)] = flash[MoveSource(moveSteps - 1)]
      BY <2>1, <3>1, <3>2, DataUntouched, SourceIsNotHole
    <3> QED BY <2>1, <2>3, <3>1, <3>3 DEF CopyRight
  <2> QED BY <1>b, <2>1, <2>2, <2>3
<1>5. CASE UNCHANGED vars
  BY <1>5, <1>d DEF vars, CopyRight, Copied
<1>6. ASSUME NEW lb \in 0 .. L - 1, NEW o \in Offsets, NEW v \in Values,
             WriteBegin(lb, o, v)
      PROVE  CopyRight'
  BY <1>b, <1>6 DEF WriteBegin
<1>7. CASE Boot \/ FormatBegin \/ FormatBlankOther \/ FormatPersist \/ FormatEnd
           \/ WriteEnd \/ MoveEnd \/ DeviceError \/ PowerCut
  BY <1>b, <1>7 DEF Boot, FormatBegin, FormatBlankOther, FormatPersist, FormatEnd,
                    WriteEnd, MoveEnd, DeviceError, PowerCut
<1> QED BY <1>1, <1>2, <1>3, <1>4, <1>5, <1>6, <1>7 DEF Next
-------------------------------------------------------------------------------
(* Writes                                                                  *)

(* The block as it is to be, while and after the adapter writes it.        *)
LEMMA WriteGoesOn ==
  ASSUME TypeOK, WriteRight, pc = "data", FlashCommand
  PROVE  LET b == job.blk
             new == [flash[b] EXCEPT ![req.off] = req.val]
         IN /\ b = PhysBlock(moveSteps, req.blk)
            /\ job.kind # "reprogram" =>
                 \/ job.kind = "program" /\ job' = NoJob /\ flash'[b] = new
                 \/ /\ job.kind = "erase" /\ job'.kind = "reprogram" /\ job'.blk = b
                    /\ job'.off = 0 /\ job'.image = new
            /\ job.kind = "reprogram" =>
                 \/ job' = NoJob /\ flash'[b] = job.image
                 \/ /\ job'.kind = "reprogram" /\ job'.blk = b /\ job'.image = job.image
                    /\ \A o \in Offsets : o < job'.off => flash'[b][o] = job.image[o]
<1> DEFINE b == job.blk
           new == [flash[b] EXCEPT ![req.off] = req.val]
<1>1. /\ b = PhysBlock(moveSteps, req.blk) /\ job.kind \in {"program", "erase", "reprogram"}
      /\ job.kind # "reprogram" => job.image = new
      /\ job.kind = "program" => job.off = req.off
      /\ job.kind = "reprogram" => \A o \in Offsets : o < job.off => flash[b][o] = job.image[o]
  BY CommandRuns DEF WriteRight
<1>2. /\ b \in Blocks /\ job.off \in Offsets /\ req.off \in Offsets
      /\ flash[b] \in [Offsets -> Cells(Contents)] /\ DOMAIN flash = Blocks
      /\ job.image \in [Offsets -> Cells(Contents)]
  BY JobTyped DEF TypeOK
<1>3. job \in Jobs(Contents) /\ flash \in [Blocks -> Images(Contents)]
  BY DEF TypeOK, FlashTypeOK
<1>4. CASE ProgramPages
  <2>1. job.image[req.off] = req.val
    BY <1>1, <1>2, <1>4 DEF ProgramPages
  <2>2. flash'[b] = new
    BY <1>1, <1>2, <1>3, <1>4, <2>1 DEF ProgramPages, CommandResult
  <2> QED BY <1>1, <1>4, <2>2 DEF ProgramPages
<1>5. CASE EraseSector
  BY <1>1, <1>2, <1>3, <1>5 DEF EraseSector, Jobs
<1>6. CASE ReprogramPages
  <2>1. flash'[b] = [flash[b] EXCEPT ![job.off] = job.image[job.off]] /\ job.kind = "reprogram"
    BY <1>2, <1>3, <1>6 DEF ReprogramPages, CommandResult
  <2>2. \A o \in Offsets : o <= job.off => flash'[b][o] = job.image[o]
    <3> SUFFICES ASSUME NEW o \in Offsets, o <= job.off PROVE flash'[b][o] = job.image[o]
      OBVIOUS
    <3>1. o = job.off \/ o < job.off
      BY <1>2 DEF Offsets
    <3> QED BY <1>1, <1>2, <2>1, <3>1
  <2>3. CASE job.off = SPB - 1
    <3>1. \A o \in Offsets : flash'[b][o] = job.image[o]
      BY <2>2, <2>3, Geometry DEF Offsets
    <3>2. flash'[b] = job.image
      BY <1>2, <2>1, <3>1
    <3> QED BY <1>1, <1>6, <2>1, <2>3, <3>2 DEF ReprogramPages
  <2>4. CASE job.off # SPB - 1
    <3>1. /\ job'.kind = "reprogram" /\ job'.blk = b /\ job'.image = job.image
          /\ job'.off = job.off + 1
      BY <1>3, <1>6, <2>4 DEF ReprogramPages, Jobs
    <3>2. \A o \in Offsets : o < job'.off => o <= job.off
      BY <1>2, <3>1 DEF Offsets
    <3> QED BY <1>1, <2>1, <2>2, <3>1, <3>2
  <2> QED BY <2>3, <2>4
<1>7. CASE WipeSector
  BY <1>1, <1>7 DEF WipeSector
<1> QED BY <1>4, <1>5, <1>6, <1>7 DEF FlashCommand

LEMMA WriteStep == TypeOK /\ WriteRight /\ [Next]_vars => WriteRight'
<1> SUFFICES ASSUME TypeOK, WriteRight, [Next]_vars, pc' = "data", ~FlashIdle'
             PROVE  WriteRight'
  BY DEF WriteRight
<1>1. ASSUME NEW lb \in 0 .. L - 1, NEW o \in Offsets, NEW v \in Values,
             WriteBegin(lb, o, v)
      PROVE  WriteRight'
  <2> DEFINE b == PhysBlock(moveSteps, lb)
  <2>1. b \in Blocks /\ moveSteps \in Nat
    BY BlockRanges DEF TypeOK
  <2>2. /\ DoWrite(b, o, v) /\ req' = [blk |-> lb, off |-> o, val |-> v]
        /\ moveSteps' = moveSteps /\ flash' = flash
    BY <1>1 DEF WriteBegin, DoWrite, volvars
  <2>3. /\ job'.kind \in {"program", "erase"} /\ job'.blk = b /\ job'.off = o
        /\ job'.image = [flash[b] EXCEPT ![o] = v]
    BY <2>2 DEF DoWrite, FlashIdle, NoJob
  <2>4. PhysBlock(moveSteps, req.blk)' = b
    BY <2>2 DEF PhysBlock
  <2> QED BY <2>2, <2>3, <2>4 DEF WriteRight
<1>2. CASE FlashStep
  <2>1. /\ FlashCommand /\ pc = "data" /\ moveSteps' = moveSteps /\ req' = req
        /\ PhysBlock(moveSteps, req.blk)' = PhysBlock(moveSteps, req.blk)
    BY <1>2 DEF FlashStep, volvars, PhysBlock
  <2>2. job' # NoJob
    BY DEF FlashIdle, NoJob
  <2>3. /\ job.blk = PhysBlock(moveSteps, req.blk)
        /\ job'.kind = "reprogram" /\ job'.blk = job.blk
        /\ \A o \in Offsets : o < job'.off => flash'[job.blk][o] = job'.image[o]
    BY <2>1, <2>2, WriteGoesOn DEF Offsets
  <2> QED BY <2>1, <2>3 DEF WriteRight
<1>3. CASE UNCHANGED vars
  BY <1>3 DEF vars, WriteRight, PhysBlock, FlashIdle
<1>4. CASE Boot \/ FormatBegin \/ FormatBlankOther \/ FormatPersist \/ FormatEnd
  BY <1>4 DEF Boot, FormatBegin, FormatBlankOther, FormatPersist, FormatEnd
<1>5. CASE WriteEnd \/ MoveBegin \/ MoveCopy \/ MoveCommit \/ MoveEnd
           \/ DeviceError \/ PowerCut
  BY <1>5 DEF WriteEnd, MoveBegin, MoveCopy, MoveCommit, MoveEnd, DeviceError, PowerCut
<1> QED BY <1>1, <1>2, <1>3, <1>4, <1>5 DEF Next
-------------------------------------------------------------------------------
(* The records and the mapping                                             *)

(* Mount's choice, for any medium f: the valid slot that is not older.     *)
BestIn(f) ==
  IF /\ f[CfgBlock(1)][0] \in Records
     /\ f[CfgBlock(0)][0] \in Records => f[CfgBlock(1)][0].seq > f[CfgBlock(0)][0].seq
  THEN 1 ELSE 0

LEMMA BestSlotIn == BestSlot = BestIn(flash) /\ BestSlot' = BestIn(flash')
BY DEF BestSlot, BestIn, ValidSlots, Parse, ConfigCell, CfgBlock

LEMMA BestIs ==
  ASSUME NEW f, NEW slot \in {0, 1}, f[CfgBlock(slot)][0] \in Records,
         f[CfgBlock(1 - slot)][0] \in Records =>
           f[CfgBlock(1 - slot)][0].seq < f[CfgBlock(slot)][0].seq
  PROVE  BestIn(f) = slot
<1>1. \A r \in Records : r.seq \in Nat
  BY DEF Records
<1>2. CASE slot = 1
  BY <1>1, <1>2 DEF BestIn
<1>3. CASE slot = 0
  BY <1>1, <1>3 DEF BestIn
<1> QED BY <1>2, <1>3

LEMMA Parities ==
  \A s \in Nat : /\ s % 2 \in {0, 1} /\ (s + 1) % 2 = 1 - (s % 2)
                 /\ s >= 1 => (s - 1) % 2 = 1 - (s % 2) /\ s - 1 \in Nat
OBVIOUS

LEMMA MapsStep ==
  ASSUME "config" \notin FaultPhases
  PROVE  TypeOK /\ ConfigInv /\ ConfigWrites /\ FormatSteps /\ MapsAgree /\ [Next]_vars
           => MapsAgree'
<1> SUFFICES ASSUME TypeOK, SlotParity, JobTarget, SafeRecord, ConfigWrites, FormatSteps,
                    MapsAgree, [Next]_vars, formatted'
             PROVE  MapsAgree'
  BY DEF ConfigInv, MapsAgree
<1>a. moveSteps \in Nat /\ accessCount \in Nat /\ sequence \in Nat
  BY DEF TypeOK
<1>b. ASSUME pc' \notin {"idle", "data", "move", "persist"} PROVE MapsAgree'
  BY <1>b DEF MapsAgree
<1>c. ASSUME formatted, pc \in {"idle", "data", "move"}, pc' \in {"idle", "data", "move"},
             \A slot \in {0, 1} : flash'[CfgBlock(slot)] = flash[CfgBlock(slot)],
             moveSteps' = moveSteps, sequence' = sequence
      PROVE  MapsAgree'
  BY <1>a, <1>c, Parities DEF MapsAgree, Older, Parse, ConfigCell, CfgBlock
<1>1. CASE Boot
  <2>1. /\ ValidSlots # {} /\ formatted /\ flash' = flash /\ pc' = "idle"
        /\ moveSteps' = ConfigCell(BestSlot).move /\ sequence' = ConfigCell(BestSlot).seq
    BY <1>1 DEF Boot, flashvars, SafeRecord
  <2>2. /\ BestSlot \in {0, 1} /\ Parse(BestSlot)
        /\ Parse(1 - BestSlot) => ConfigCell(1 - BestSlot).seq <= ConfigCell(BestSlot).seq
    <3>1. \A slot \in {0, 1} : Parse(slot) => ConfigCell(slot).seq \in Nat
      BY DEF Parse, Records
    <3> QED BY <2>1, <3>1 DEF BestSlot, ValidSlots
  <2>3. \A slot \in {0, 1} : Parse(slot) =>
           ConfigCell(slot).seq \in Nat /\ ConfigCell(slot).seq % 2 = slot
    BY DEF SlotParity, Parse, Records
  <2>4. Parse(1 - BestSlot) => ConfigCell(1 - BestSlot).seq < ConfigCell(BestSlot).seq
    <3>1. 1 - BestSlot \in {0, 1} /\ 1 - BestSlot # BestSlot
      BY <2>2
    <3> QED BY <2>2, <2>3, <3>1
  <2>5. sequence' % 2 = BestSlot /\ (sequence' + 1) % 2 = 1 - BestSlot
    BY <2>1, <2>2, <2>3, Parities
  <2> HIDE DEF BestSlot
  <2> QED BY <2>1, <2>4, <2>5 DEF MapsAgree, Older, Parse, ConfigCell, CfgBlock
<1>2. CASE FormatEnd
  <2>1. /\ pc = "record" /\ FlashIdle /\ pc' = "idle" /\ flash' = flash
        /\ sequence' = sequence /\ moveSteps' = moveSteps
    BY <1>2 DEF FormatEnd, flashvars
  <2>2. sequence = 1 /\ ~Parse(0) /\ ConfigCell(1) = NewRecord
    BY <2>1 DEF FormatSteps, ConfigWrites, Writing, Landed
  <2>3. ConfigCell(1).move = moveSteps
    BY <2>2 DEF NewRecord
  <2> QED BY <2>1, <2>2, <2>3 DEF MapsAgree, Older, Parse, ConfigCell, CfgBlock
<1>3. ASSUME NEW lb \in 0 .. L - 1, NEW o \in Offsets, NEW v \in Values,
             WriteBegin(lb, o, v)
      PROVE  MapsAgree'
  BY <1>c, <1>3 DEF WriteBegin, DoWrite, volvars
<1>4. CASE WriteEnd
  BY <1>c, <1>4 DEF WriteEnd, flashvars
<1>5. CASE MoveBegin
  BY <1>c, <1>5 DEF MoveBegin, DoErase
<1>6. CASE MoveCopy
  BY <1>c, <1>6 DEF MoveCopy, DoWrite, volvars
<1>7. CASE MoveCommit
  <2>1. /\ pc = "move" /\ pc' = "persist" /\ flash' = flash /\ formatted
        /\ moveSteps' = moveSteps + 1 /\ sequence' = sequence + 1
    BY <1>7 DEF MoveCommit, PersistRecord, DoWrite
  <2>2. /\ ConfigCell(sequence % 2).move = moveSteps /\ Older((sequence + 1) % 2, sequence)
        /\ moveSteps' - 1 = moveSteps /\ sequence' - 1 = sequence
    BY <1>a, <2>1 DEF MapsAgree
  <2> QED BY <2>1, <2>2 DEF MapsAgree, Older, Parse, ConfigCell, CfgBlock
<1>8. CASE MoveEnd
  <2>1. /\ pc = "persist" /\ FlashIdle /\ pc' = "idle" /\ flash' = flash /\ formatted
        /\ moveSteps' = moveSteps /\ sequence' = sequence
    BY <1>8 DEF MoveEnd, flashvars, volvars
  <2>2. ConfigCell(sequence % 2).move = moveSteps
    BY <2>1 DEF ConfigWrites, Writing, Landed, NewRecord
  <2>3. sequence >= 1 /\ HasRecord(sequence - 1)
    BY <2>1 DEF SafeRecord
  <2>4. Older((sequence + 1) % 2, sequence)
    <3>1. (sequence + 1) % 2 = (sequence - 1) % 2
      BY <1>a, <2>3, Parities
    <3> QED BY <1>a, <2>3, <3>1 DEF Older, HasRecord
  <2> QED BY <2>1, <2>2, <2>4 DEF MapsAgree, Older, Parse, ConfigCell, CfgBlock
<1>9. ASSUME pc \in {"data", "move"}, FlashCommand \/ Interrupt, ~FlashIdle,
             NEW slot \in {0, 1}
      PROVE  flash'[CfgBlock(slot)] = flash[CfgBlock(slot)]
  BY <1>9, ConfigUntouched DEF JobTarget
<1>10. CASE FlashStep
  <2>1. /\ FlashCommand /\ pc' = pc /\ sequence' = sequence /\ moveSteps' = moveSteps
        /\ formatted /\ ~FlashIdle
    BY <1>10, CommandRuns DEF FlashStep, volvars
  <2>2. CASE pc \in {"data", "move"}
    BY <1>9, <1>c, <2>1, <2>2
  <2>3. CASE pc = "persist"
    <3> DEFINE s == sequence % 2
    <3>1. s \in {0, 1} /\ (sequence - 1) % 2 \in {0, 1} /\ (sequence - 1) % 2 # s
      BY <1>a, <2>1, <2>3, Parities DEF SafeRecord
    <3>2. Writing(s, NewRecord) /\ job.blk = CfgBlock(s)
      BY <2>1, <2>3 DEF ConfigWrites, Writing
    <3>3. flash'[CfgBlock((sequence - 1) % 2)] = flash[CfgBlock((sequence - 1) % 2)]
      BY <2>1, <3>1, <3>2, OtherBlocksKept, CfgSlots
    <3>4. ASSUME ~Landed' PROVE flash'[CfgBlock(s)][0] = Erased
      <4>1. job' # NoJob /\ ~(job'.off > 0)
        BY <2>1, <3>1, <3>2, <3>4, WritingGoesOn DEF Landed, FlashIdle, NoJob
      <4>2. ~ReprogramPages /\ ~ProgramPages
        BY <4>1, JobTyped DEF ReprogramPages, ProgramPages, Offsets, TypeOK, FlashTypeOK, Jobs
      <4>3. EraseSector
        BY <2>1, <3>2, <4>2, CommandRuns DEF FlashCommand, WipeSector, Writing
      <4>4. flash'[job.blk] = AllErased
        BY <4>3, JobTyped DEF EraseSector, CommandResult
      <4> QED BY <3>2, <4>4, JobTyped DEF AllErased
    <3>5. ~Landed' => ~Parse(s)'
      BY <2>1, <3>4, CfgSlots DEF Parse, ConfigCell, CfgBlock
    <3> QED BY <2>1, <2>3, <3>3, <3>5 DEF MapsAgree, Older, Parse, ConfigCell, CfgBlock
  <2>4. pc \in {"data", "move", "persist"}
    BY <2>1 DEF SafeRecord, Formatting, JobTarget, TypeOK
  <2> QED BY <2>2, <2>3, <2>4
<1>11. CASE DeviceError
  <2>1. pc \in {"data", "move"} /\ ~FlashIdle /\ Interrupt
    BY <1>11 DEF DeviceError, Phase
  <2>2. /\ pc' = "idle" /\ sequence' = sequence /\ moveSteps' = moveSteps /\ formatted
    BY <1>11 DEF DeviceError, volvars
  <2> QED BY <1>9, <1>c, <2>1, <2>2
<1>12. CASE UNCHANGED vars
  BY <1>12 DEF vars, MapsAgree, Older, Parse, ConfigCell, CfgBlock, Landed, FlashIdle
<1>13. CASE FormatBegin \/ FormatBlankOther \/ FormatPersist \/ PowerCut
  BY <1>b, <1>13 DEF FormatBegin, FormatBlankOther, FormatPersist, PowerCut
<1> QED BY <1>1, <1>2, <1>3, <1>4, <1>5, <1>6, <1>7, <1>8, <1>10, <1>11, <1>12, <1>13
        DEF Next
-------------------------------------------------------------------------------
(* Re-programming a later sector, or failing to, leaves the first alone.   *)
LEMMA FirstKept ==
  ASSUME TypeOK, FlashCommand \/ Interrupt, job.kind = "reprogram", job.off > 0
  PROVE  flash'[job.blk][0] = flash[job.blk][0]
<1>1. /\ job.blk \in Blocks /\ job.off \in Offsets /\ 0 \in Offsets /\ job.off # 0
      /\ flash[job.blk] \in [Offsets -> Cells(Contents)] /\ DOMAIN flash = Blocks
      /\ flash \in [Blocks -> Images(Contents)]
  BY JobTyped DEF TypeOK, FlashTypeOK
<1>2. CommandResult[0] = flash[job.blk][0]
  BY <1>1 DEF CommandResult
<1>3. CASE FlashCommand
  BY <1>1, <1>2, <1>3
     DEF FlashCommand, ProgramPages, EraseSector, ReprogramPages, WipeSector
<1>4. CASE Interrupt
  <2>1. \A image \in InterruptedImages : image[0] = flash[job.blk][0]
    BY <1>1, <1>2 DEF InterruptedImages
  <2> QED BY <1>1, <1>4, <2>1 DEF Interrupt
<1> QED BY <1>3, <1>4

(* The invariant                                                           *)

FullInv == TypeOK /\ ConfigInv /\ HoleBlank /\ DiskInv

LEMMA FullInit == Init => FullInv
BY TypeInit, ConfigInit
   DEF Init, FullInv, HoleBlank, DiskInv, ConfigWrites, FormatSteps, MapsAgree, CopyRight,
       WriteRight, OffUnmounted

LEMMA OffStep == OffUnmounted /\ [Next]_vars => OffUnmounted'
BY DEF OffUnmounted, Next, vars, Boot, FormatBegin, FormatBlankOther, FormatPersist,
       FormatEnd, WriteBegin, WriteEnd, MoveBegin, MoveCopy, MoveCommit, MoveEnd,
       FlashStep, volvars, DeviceError, PowerCut

LEMMA FullStep ==
  ASSUME "config" \notin FaultPhases
  PROVE  FullInv /\ [Next]_vars => FullInv'
<1> SUFFICES ASSUME FullInv, [Next]_vars PROVE FullInv'
  OBVIOUS
<1>1. TypeOK' /\ ConfigInv' /\ HoleBlank'
  BY TypeStep, ParityStep, TargetStep, SafeStep, HoleBlankStep DEF FullInv, ConfigInv
<1>2. /\ ConfigWrites' /\ FormatSteps' /\ MapsAgree' /\ CopyRight' /\ WriteRight'
      /\ OffUnmounted'
  BY SlotsStep, MapsStep, CopyStep, WriteStep, OffStep DEF FullInv, DiskInv
<1> QED BY <1>1, <1>2 DEF FullInv, DiskInv

LEMMA FullAlways ==
  ASSUME "config" \notin FaultPhases
  PROVE  Spec => []FullInv
BY FullInit, FullStep, PTL DEF Spec
-------------------------------------------------------------------------------
(* What Mount would find                                                   *)

DurableIn(f) == f[CfgBlock(BestIn(f))][0]

LEMMA DurableIsIn ==
  /\ DurableMoves = DurableIn(flash).move /\ DurableMoves' = DurableIn(flash').move
  /\ DurableSequence = DurableIn(flash).seq /\ DurableSequence' = DurableIn(flash').seq
BY BestSlotIn DEF DurableMoves, DurableSequence, DurableIn, ConfigCell, CfgBlock

LEMMA DurableKept ==
  ASSUME \A slot \in {0, 1} : flash'[CfgBlock(slot)] = flash[CfgBlock(slot)]
  PROVE  DurableIn(flash') = DurableIn(flash)
BY DEF DurableIn, BestIn

(* While it is on, a formatted volume has the record of sequence, or that  *)
(* before it as long as the new one has not landed.                        *)
Current(r) == r.seq = sequence /\ r.move = moveSteps
Previous(r) == r.seq = sequence - 1 /\ r.move = moveSteps - 1

LEMMA DurableNow ==
  ASSUME FullInv, formatted, pc # "off"
  PROVE  /\ pc \in {"idle", "data", "move", "persist"}
         /\ pc # "persist" \/ Landed => Current(DurableIn(flash))
         /\ pc = "persist" /\ ~Landed => Previous(DurableIn(flash))
<1> DEFINE s == sequence % 2
<1>1. pc \in {"idle", "data", "move", "persist"} /\ sequence \in Nat
  BY DEF FullInv, TypeOK, ConfigInv, SafeRecord, Formatting
<1>2. s \in {0, 1} /\ (sequence + 1) % 2 = 1 - s
  BY <1>1, Parities
<1>3. CASE pc # "persist"
  <2>1. /\ flash[CfgBlock(s)][0] \in Records /\ flash[CfgBlock(s)][0].seq = sequence
        /\ flash[CfgBlock(s)][0].move = moveSteps
        /\ flash[CfgBlock(1 - s)][0] \in Records => flash[CfgBlock(1 - s)][0].seq < sequence
    BY <1>1, <1>2, <1>3
       DEF FullInv, ConfigInv, SafeRecord, HasRecord, DiskInv, MapsAgree, Older, Parse, ConfigCell
  <2>2. BestIn(flash) = s
    BY <1>2, <2>1, BestIs
  <2> QED BY <1>1, <1>3, <2>1, <2>2 DEF DurableIn, Current
<1>4. CASE pc = "persist"
  <2>1. /\ sequence >= 1 /\ (sequence - 1) % 2 = 1 - s /\ 1 - s \in {0, 1} /\ 1 - (1 - s) = s
        /\ flash[CfgBlock(1 - s)][0] \in Records
        /\ flash[CfgBlock(1 - s)][0].seq = sequence - 1
        /\ flash[CfgBlock(1 - s)][0].move = moveSteps - 1
    <3>1. sequence >= 1 /\ HasRecord(sequence - 1)
          /\ ConfigCell((sequence - 1) % 2).move = moveSteps - 1
      BY <1>4 DEF FullInv, ConfigInv, SafeRecord, DiskInv, MapsAgree
    <3>2. (sequence - 1) % 2 = 1 - s
      BY <1>1, <3>1, Parities
    <3> QED BY <1>2, <3>1, <3>2 DEF HasRecord, Parse, ConfigCell
  <2>2. CASE Landed
    <3>1. flash[CfgBlock(s)][0] = NewRecord
      BY <1>4, <2>2 DEF FullInv, DiskInv, ConfigWrites, Writing, ConfigCell
    <3>2. NewRecord \in Records /\ NewRecord.seq = sequence /\ NewRecord.move = moveSteps
      BY DEF FullInv, TypeOK, NewRecord, Records
    <3>3. BestIn(flash) = s
      BY <1>1, <1>2, <2>1, <3>1, <3>2, BestIs
    <3> QED BY <1>1, <1>4, <2>2, <3>1, <3>2, <3>3 DEF DurableIn, Current
  <2>3. CASE ~Landed
    <3>1. flash[CfgBlock(s)][0] \in Records => flash[CfgBlock(s)][0].seq < sequence - 1
      BY <1>4, <2>3 DEF FullInv, DiskInv, MapsAgree, Older, Parse, ConfigCell
    <3>2. BestIn(flash) = 1 - s
      BY <2>1, <3>1, BestIs
    <3> QED BY <1>1, <1>4, <2>1, <2>3, <3>2 DEF DurableIn, Previous
  <2> QED BY <2>2, <2>3
<1> QED BY <1>1, <1>3, <1>4

(* A command that is cut short leaves one of these two records as well.    *)
LEMMA DurableAfter ==
  ASSUME FullInv, formatted, pc # "off", FlashCommand \/ Interrupt
  PROVE  /\ pc # "persist" \/ Landed => Current(DurableIn(flash'))
         /\ Current(DurableIn(flash')) \/ Previous(DurableIn(flash'))
<1> DEFINE s == sequence % 2
<1>1. pc \in {"idle", "data", "move", "persist"} /\ sequence \in Nat /\ TypeOK
  BY DurableNow DEF FullInv, TypeOK
<1>2. CASE pc # "persist" \/ FlashIdle
  <2>1. FlashIdle \/ job.blk < D
    BY <1>1, <1>2 DEF FullInv, ConfigInv, JobTarget
  <2>2. DurableIn(flash') = DurableIn(flash)
    BY <1>1, <2>1, ConfigUntouched, DurableKept
  <2> QED BY <1>2, <2>2, DurableNow DEF Landed
<1>3. CASE pc = "persist" /\ ~FlashIdle
  <2>1. /\ sequence >= 1 /\ HasRecord(sequence - 1)
        /\ ConfigCell((sequence - 1) % 2).move = moveSteps - 1
    BY <1>3 DEF FullInv, ConfigInv, SafeRecord, DiskInv, MapsAgree
  <2>2. s \in {0, 1} /\ (sequence - 1) % 2 = 1 - s /\ 1 - s \in {0, 1} /\ 1 - (1 - s) = s
    BY <1>1, <2>1, Parities
  <2>3. Writing(s, NewRecord) /\ job.blk = CfgBlock(s)
    BY <1>3 DEF FullInv, DiskInv, ConfigWrites, Writing
  <2>4. flash'[CfgBlock(1 - s)] = flash[CfgBlock(1 - s)]
    <3>1. CfgBlock(1 - s) # CfgBlock(s) /\ CfgBlock(1 - s) \in Blocks
      BY <2>2, CfgSlots
    <3> QED BY <1>1, <2>3, <3>1, OtherBlocksKept
  <2>5. /\ flash'[CfgBlock(1 - s)][0] \in Records
        /\ flash'[CfgBlock(1 - s)][0].seq = sequence - 1
        /\ flash'[CfgBlock(1 - s)][0].move = moveSteps - 1
    BY <2>1, <2>2, <2>4 DEF HasRecord, Parse, ConfigCell
  <2>6. NewRecord \in Records /\ NewRecord.seq = sequence /\ NewRecord.move = moveSteps
    BY DEF FullInv, TypeOK, NewRecord, Records
  <2>7. ASSUME flash'[CfgBlock(s)][0] = NewRecord PROVE Current(DurableIn(flash'))
    <3>1. BestIn(flash') = s
      BY <1>1, <2>2, <2>5, <2>6, <2>7, BestIs
    <3> QED BY <2>6, <2>7, <3>1 DEF DurableIn, Current
  <2>8. ASSUME flash'[CfgBlock(s)][0] \in Records
                 => flash'[CfgBlock(s)][0].seq < sequence - 1
        PROVE  Previous(DurableIn(flash'))
    <3>1. BestIn(flash') = 1 - s
      BY <2>2, <2>5, <2>8, BestIs
    <3> QED BY <2>5, <3>1 DEF DurableIn, Previous
  <2>9. CASE ~Landed
    <3>1. flash[CfgBlock(s)][0] \in Records => flash[CfgBlock(s)][0].seq < sequence - 1
      BY <1>3, <2>9 DEF FullInv, DiskInv, MapsAgree, Older, Parse, ConfigCell
    <3>2. flash'[CfgBlock(s)][0] \in {flash[CfgBlock(s)][0], NewRecord, Erased, Torn}
      BY <1>1, <1>3, <2>3, JobCell DEF Writing
    <3> QED BY <1>3, <2>7, <2>8, <2>9, <3>1, <3>2, CfgSlots
  <2>10. CASE Landed
    <3>1. flash[CfgBlock(s)][0] = NewRecord /\ job.kind = "reprogram" /\ job.off > 0
      BY <1>3, <2>3, <2>10 DEF Writing, Landed, ConfigCell
    <3>2. flash'[job.blk][0] = flash[job.blk][0]
      BY <1>1, <3>1, FirstKept
    <3> QED BY <2>3, <2>7, <3>1, <3>2
  <2> QED BY <2>9, <2>10
<1> QED BY <1>2, <1>3

LEMMA FullMountable ==
  /\ FullInv => AlwaysMountable
  /\ FullInv' => AlwaysMountable'
<1>1. FullInv => AlwaysMountable
  BY ConfigImpliesMountable DEF FullInv
<1>2. FullInv' => AlwaysMountable'
  BY <1>1, PTL
<1> QED BY <1>1, <1>2
-------------------------------------------------------------------------------
(* Memory and medium                                                       *)

(* While a move is persisted, both counts show the same contents.          *)
LEMMA BothCountsAgree ==
  ASSUME FullInv, pc = "persist", NEW lb \in 0 .. L - 1
  PROVE  /\ moveSteps - 1 \in Nat
         /\ PhysBlock(moveSteps, lb) \in Blocks /\ PhysBlock(moveSteps, lb) < D
         /\ PhysBlock(moveSteps - 1, lb) \in Blocks /\ PhysBlock(moveSteps - 1, lb) < D
         /\ flash[PhysBlock(moveSteps, lb)] = flash[PhysBlock(moveSteps - 1, lb)]
<1> DEFINE t == moveSteps - 1
<1>1. moveSteps \in Nat /\ t \in Nat /\ t + 1 = moveSteps
      /\ flash[Hole(t)] = flash[MoveSource(t)]
  BY DEF FullInv, TypeOK, DiskInv, CopyRight
<1>2. \/ PhysBlock(t, lb) = MoveSource(t) /\ PhysBlock(t + 1, lb) = Hole(t)
      \/ PhysBlock(t + 1, lb) = PhysBlock(t, lb)
  <2> HIDE DEF t
  <2> QED BY <1>1, StepMovesOneBlock
<1>3. /\ PhysBlock(moveSteps, lb) \in Blocks /\ PhysBlock(moveSteps, lb) < D
      /\ PhysBlock(t, lb) \in Blocks /\ PhysBlock(t, lb) < D
  <2> HIDE DEF t
  <2> QED BY <1>1, BlockRanges
<1> QED BY <1>1, <1>2, <1>3

LEMMA SlotJobEffective ==
  ASSUME FullInv, pc = "persist", NEW b \in Blocks, b < D
  PROVE  Effective(b) = flash[b]
<1>1. CASE FlashIdle
  BY <1>1 DEF Effective, FlashIdle
<1>2. CASE ~FlashIdle
  <2>1. job.blk \in {CfgBlock(0), CfgBlock(1)}
    BY <1>2, CfgSlots DEF FullInv, TypeOK, ConfigInv, JobTarget
  <2>2. job.blk # b
    BY <2>1, Geometry DEF CfgBlock, Blocks
  <2> QED BY <2>2 DEF Effective
<1> QED BY <1>1, <1>2

LEMMA MemoryFromInv == FullInv => MemoryMatchesMedium
<1> SUFFICES ASSUME FullInv, formatted, mounted, NEW lb \in 0 .. L - 1
             PROVE  Contents_At(moveSteps, lb) = Contents_At(DurableMoves, lb)
  BY DEF MemoryMatchesMedium
<1>1. pc # "off"
  <2>1. pc = "off" => ~mounted
    BY DEF FullInv, DiskInv, OffUnmounted
  <2> QED BY <2>1
<1>2. CASE DurableMoves = moveSteps
  BY <1>2
<1>3. CASE DurableMoves # moveSteps
  <2>1. pc = "persist" /\ DurableMoves = moveSteps - 1
    BY <1>1, <1>3, DurableNow, DurableIsIn DEF Current, Previous
  <2> QED BY <2>1, BothCountsAgree, SlotJobEffective DEF Contents_At
<1> QED BY <1>2, <1>3

(* Whatever cuts and errors there were, a reader finds the same contents   *)
(* by the mapping in memory and by the one that Mount would load, in every *)
(* logical block, also between the two configuration writes of a move.     *)
THEOREM MemoryMatchesMediumThm ==
  ASSUME "config" \notin FaultPhases
  PROVE  Spec => []MemoryMatchesMedium
BY MemoryFromInv, FullAlways, PTL

LEMMA DurableStep ==
  ASSUME "config" \notin FaultPhases, FullInv, FullInv', [Next]_vars, formatted, formatted'
  PROVE  /\ ValidSlots' # {}
         /\ DurableSequence' \in {DurableSequence, DurableSequence + 1}
<1>1. ValidSlots' # {}
  <2>1. AlwaysMountable'
    BY FullMountable
  <2> QED BY <2>1 DEF AlwaysMountable
<1>2. /\ DurableSequence = DurableIn(flash).seq /\ DurableSequence' = DurableIn(flash').seq
  BY DurableIsIn
<1>3. ASSUME flash' = flash PROVE DurableSequence' = DurableSequence
  BY <1>2, <1>3
<1>4. ASSUME FlashCommand \/ Interrupt, pc # "off"
      PROVE  DurableSequence' \in {DurableSequence, DurableSequence + 1}
  <2>1. CASE pc # "persist" \/ Landed
    BY <1>2, <1>4, <2>1, DurableNow, DurableAfter DEF Current
  <2>2. CASE pc = "persist" /\ ~Landed
    <3>1. DurableSequence = sequence - 1 /\ sequence \in Nat
      BY <1>2, <1>4, <2>2, DurableNow DEF Previous, FullInv, TypeOK
    <3>2. DurableSequence' = sequence \/ DurableSequence' = sequence - 1
      BY <1>2, <1>4, DurableAfter DEF Current, Previous
    <3> QED BY <3>1, <3>2
  <2> QED BY <2>1, <2>2
<1>5. CASE FlashStep \/ DeviceError \/ PowerCut
  <2>1. FlashCommand \/ Interrupt
    BY <1>5 DEF FlashStep, DeviceError, PowerCut
  <2>2. pc # "off"
    BY <1>5, CommandRuns
       DEF FlashStep, DeviceError, PowerCut, FullInv, ConfigInv, JobTarget
  <2> QED BY <1>1, <1>4, <2>1, <2>2
<1>6. CASE FormatBegin \/ FormatBlankOther \/ FormatPersist \/ MoveBegin \/ MoveCopy
           \/ MoveCommit
  <2>1. flash' = flash
    BY <1>6 DEF FormatBegin, FormatBlankOther, FormatPersist, MoveBegin, MoveCopy,
                MoveCommit, PersistRecord, DoWrite, DoErase
  <2> QED BY <1>1, <1>3, <2>1
<1>7. CASE Boot \/ FormatEnd \/ WriteEnd \/ MoveEnd \/ UNCHANGED vars
  <2>1. flash' = flash
    BY <1>7 DEF Boot, FormatEnd, WriteEnd, MoveEnd, vars, flashvars
  <2> QED BY <1>1, <1>3, <2>1
<1>8. ASSUME NEW lb \in 0 .. L - 1, NEW o \in Offsets, NEW v \in Values,
             WriteBegin(lb, o, v)
      PROVE  flash' = flash
  BY <1>8 DEF WriteBegin, DoWrite
<1> QED BY <1>1, <1>3, <1>5, <1>6, <1>7, <1>8 DEF Next

(* The record that Mount would load never goes back, and goes forward by   *)
(* one at most: no cut forgets a move that had been persisted.             *)
THEOREM DurableAdvancesThm ==
  ASSUME "config" \notin FaultPhases
  PROVE  Spec => DurableAdvances
<1>1. FullInv /\ FullInv' /\ [Next]_vars =>
        [formatted /\ formatted' =>
           /\ ValidSlots' # {}
           /\ DurableSequence' \in {DurableSequence, DurableSequence + 1}]_vars
  BY DurableStep
<1> QED BY <1>1, FullAlways, PTL DEF Spec, DurableAdvances
-------------------------------------------------------------------------------
(* The volume is a plain array of sectors                                  *)

LBlocks == 0 .. L - 1
Writes(stored) ==
  [op |-> "write", blk |-> req.blk, off |-> req.off, val |-> req.val, stored |-> stored]

LEMMA ServingIs ==
  /\ ~formatted => Serving = [op |-> "format"]
  /\ formatted /\ pc # "data" => Serving = [op |-> "none"]
  /\ formatted /\ pc = "data" => Serving = Writes(job.kind \in {"none", "reprogram"})
BY DEF Serving, Writes

LEMMA ServingIsNext ==
  /\ ~formatted' => Serving' = [op |-> "format"]
  /\ formatted' /\ pc' # "data" => Serving' = [op |-> "none"]
  /\ formatted' /\ pc' = "data" => Serving' = Writes(job.kind \in {"none", "reprogram"})'
BY DEF Serving, Writes

(* What logical block lb holds by move count t, on medium f with command j.*)
Shows(f, j, t, lb) ==
  IF j.kind = "reprogram" /\ j.blk = PhysBlock(t, lb) THEN j.image ELSE f[PhysBlock(t, lb)]

LEMMA PresentedIs ==
  /\ Presented = [lb \in LBlocks |->
       IF ~formatted THEN AllErased
       ELSE Shows(flash, job, IF pc = "off" THEN DurableIn(flash).move ELSE moveSteps, lb)]
  /\ Presented' = [lb \in LBlocks |->
       IF ~formatted' THEN AllErased
       ELSE Shows(flash', job', IF pc' = "off" THEN DurableIn(flash').move ELSE moveSteps', lb)]
<1>1. \A lb \in LBlocks : Visible(lb) =
        IF ~formatted THEN AllErased
        ELSE Shows(flash, job, IF pc = "off" THEN DurableIn(flash).move ELSE moveSteps, lb)
  BY DurableIsIn DEF Visible, Contents_At, Effective, Shows
<1>2. \A lb \in LBlocks : Visible(lb)' =
        IF ~formatted' THEN AllErased
        ELSE Shows(flash', job', IF pc' = "off" THEN DurableIn(flash').move ELSE moveSteps', lb)
  BY DurableIsIn DEF Visible, Contents_At, Effective, Shows, PhysBlock
<1> QED BY <1>1, <1>2 DEF Presented, LBlocks

(* No command of a formatted volume is for a block that a reader sees, but *)
(* those of a write, for the block that is written.                        *)
LEMMA JobElsewhere ==
  ASSUME FullInv, formatted, ~FlashIdle, NEW lb \in LBlocks,
         ~(pc = "data" /\ lb = req.blk)
  PROVE  job.blk # PhysBlock(moveSteps, lb) /\ PhysBlock(moveSteps, lb) \in Blocks
<1>1. moveSteps \in Nat /\ lb \in 0 .. L - 1 /\ req.blk \in 0 .. L - 1
  BY DEF FullInv, TypeOK, LBlocks
<1>2. PhysBlock(moveSteps, lb) \in Blocks /\ PhysBlock(moveSteps, lb) < D
  BY <1>1, BlockRanges
<1>3. pc \in {"data", "move", "persist"}
  BY DEF FullInv, TypeOK, ConfigInv, SafeRecord, Formatting, JobTarget
<1>4. CASE pc = "data"
  <2>1. job.blk = PhysBlock(moveSteps, req.blk) /\ lb # req.blk
    BY <1>4 DEF FullInv, DiskInv, WriteRight
  <2> QED BY <1>1, <1>2, <2>1, MappingInjective
<1>5. CASE pc = "move"
  <2>1. job.blk = Hole(moveSteps)
    BY <1>5 DEF FullInv, HoleBlank, FlashIdle
  <2> QED BY <1>1, <1>2, <2>1, HoleNeverMapped
<1>6. CASE pc = "persist"
  <2>1. job.blk \in {CfgBlock(0), CfgBlock(1)}
    BY <1>6, CfgSlots DEF FullInv, TypeOK, ConfigInv, JobTarget
  <2> QED BY <1>2, <2>1, Geometry DEF CfgBlock, Blocks
<1> QED BY <1>3, <1>4, <1>5, <1>6

(* So a command changes no other block, finished or interrupted.           *)
LEMMA OthersShow ==
  ASSUME FullInv, formatted, FlashCommand \/ Interrupt, NEW lb \in LBlocks,
         ~(pc = "data" /\ lb = req.blk)
  PROVE  Shows(flash', job', moveSteps, lb) = Shows(flash, job, moveSteps, lb)
<1>1. TypeOK /\ NoJob.kind = "none"
  BY DEF FullInv, NoJob
<1>2. CASE FlashIdle
  <2>1. Interrupt /\ flash' = flash /\ job' = NoJob
    BY <1>1, <1>2, CommandRuns, IdleInterrupt DEF Interrupt
  <2> QED BY <1>1, <1>2, <2>1 DEF Shows, FlashIdle
<1>3. CASE ~FlashIdle
  <2>1. job.blk # PhysBlock(moveSteps, lb)
        /\ flash'[PhysBlock(moveSteps, lb)] = flash[PhysBlock(moveSteps, lb)]
    BY <1>1, <1>3, JobElsewhere, OtherBlocksKept
  <2>2. job' = NoJob \/ job'.blk = job.blk
    BY <1>1, CommandBlock DEF Interrupt
  <2> QED BY <1>1, <2>1, <2>2 DEF Shows
<1> QED BY <1>2, <1>3

(* A step that shows every block as before, and serves the same, stutters. *)
LEMMA SamePresented ==
  ASSUME formatted, formatted',
         \A lb \in LBlocks :
           Shows(flash', job', IF pc' = "off" THEN DurableIn(flash').move ELSE moveSteps', lb)
           = Shows(flash, job, IF pc = "off" THEN DurableIn(flash).move ELSE moveSteps, lb)
  PROVE  Presented' = Presented
BY PresentedIs

Stutters == UNCHANGED <<Presented, Serving>>

LEMMA QuietStutters ==
  ASSUME formatted, formatted', pc # "data", pc' # "data", Presented' = Presented
  PROVE  Stutters
BY ServingIs, ServingIsNext DEF Stutters

LEMMA BootStutters == FullInv /\ formatted /\ Boot => Stutters
<1> SUFFICES ASSUME FullInv, formatted, Boot PROVE Stutters
  OBVIOUS
<1>1. /\ pc = "off" /\ pc' = "idle" /\ flash' = flash /\ job' = job /\ formatted'
      /\ moveSteps' = DurableIn(flash).move
  BY DurableIsIn DEF Boot, flashvars, FullInv, ConfigInv, SafeRecord, DurableMoves
<1>2. Presented' = Presented
  BY <1>1, SamePresented
<1> QED BY <1>1, <1>2, QuietStutters

LEMMA WriteBeginIs ==
  ASSUME FullInv, formatted, NEW lb \in LBlocks, NEW o \in Offsets, NEW v \in Values,
         WriteBegin(lb, o, v)
  PROVE  Disk!BeginWrite
<1> DEFINE b == PhysBlock(moveSteps, lb)
           s == job'.kind \in {"none", "reprogram"}
<1>1. /\ pc = "idle" /\ pc' = "data" /\ formatted' /\ flash' = flash /\ FlashIdle
      /\ DoWrite(b, o, v) /\ moveSteps' = moveSteps
      /\ req' = [blk |-> lb, off |-> o, val |-> v]
  BY DEF WriteBegin, volvars, DoWrite
<1>2. b \in Blocks /\ TypeOK
  BY BlockRanges DEF FullInv, TypeOK, LBlocks
<1>3. \/ job' = NoJob /\ flash[b][o] = v
      \/ job'.kind \in {"program", "erase"}
  BY <1>1, <1>2, WriteStarts
<1>4. Serving = [op |-> "none"]
      /\ Serving' = [op |-> "write", blk |-> lb, off |-> o, val |-> v, stored |-> s]
  BY <1>1, ServingIs, ServingIsNext DEF Writes
<1>5. /\ job.kind # "reprogram" /\ job'.kind # "reprogram"
      /\ s => flash[b][o] = v
  BY <1>1, <1>3 DEF FlashIdle, NoJob
<1>6. Presented' = Presented
  BY <1>1, <1>5, SamePresented DEF Shows
<1>7. s => Presented[lb][o] = v
  BY <1>1, <1>5, PresentedIs DEF Shows
<1>8. s \in BOOLEAN /\ Serving'.op = "write" /\ v \in {Serving'.val}
  BY <1>4
<1> HIDE DEF s
<1> QED BY <1>4, <1>6, <1>7, <1>8 DEF Disk!BeginWrite, Disk!None, Disk!Writing, LBlocks

LEMMA EndIs == FullInv /\ formatted /\ (WriteEnd \/ MoveBegin) => Disk!EndWrite
<1> SUFFICES ASSUME FullInv, formatted, WriteEnd \/ MoveBegin PROVE Disk!EndWrite
  OBVIOUS
<1>1. /\ pc = "data" /\ FlashIdle /\ pc' \in {"idle", "move"} /\ formatted'
      /\ flash' = flash /\ moveSteps' = moveSteps /\ job'.kind \in {"none", "wipe"}
  BY DEF WriteEnd, MoveBegin, DoErase, flashvars, FlashIdle, NoJob
<1>2. Presented' = Presented
  BY <1>1, SamePresented DEF Shows, FlashIdle
<1>3. Serving = Writes(TRUE) /\ Serving' = [op |-> "none"]
  BY <1>1, ServingIs, ServingIsNext DEF FlashIdle
<1> QED BY <1>2, <1>3 DEF Disk!EndWrite, Disk!None, Writes

LEMMA MoveStutters ==
  FullInv /\ FullInv' /\ formatted /\ (MoveCopy \/ MoveCommit \/ MoveEnd) => Stutters
<1> SUFFICES ASSUME FullInv, FullInv', formatted, MoveCopy \/ MoveCommit \/ MoveEnd
             PROVE  Stutters
  OBVIOUS
<1>1. CASE MoveCopy
  <2>1. /\ pc = "move" /\ pc' = "move" /\ formatted' /\ FlashIdle /\ flash' = flash
        /\ moveSteps' = moveSteps /\ job'.kind # "reprogram"
    BY <1>1 DEF MoveCopy, DoWrite, volvars, NoJob
  <2>2. Presented' = Presented
    BY <2>1, SamePresented DEF Shows, FlashIdle
  <2> QED BY <2>1, <2>2, QuietStutters
<1>2. CASE MoveCommit
  <2>1. /\ pc = "move" /\ pc' = "persist" /\ formatted' /\ FlashIdle /\ flash' = flash
        /\ moveSteps' = moveSteps + 1 /\ job'.kind # "reprogram"
    BY <1>2 DEF MoveCommit, PersistRecord, DoWrite, NoJob
  <2>2. moveSteps \in Nat /\ flash[Hole(moveSteps)] = flash[MoveSource(moveSteps)]
    <3>1. flash'[Hole(moveSteps' - 1)] = flash'[MoveSource(moveSteps' - 1)]
      BY <2>1 DEF FullInv, DiskInv, CopyRight, Hole, MoveSource
    <3>2. moveSteps \in Nat /\ moveSteps' - 1 = moveSteps
      BY <2>1 DEF FullInv, TypeOK
    <3> QED BY <2>1, <3>1, <3>2
  <2>3. \A lb \in LBlocks :
          flash[PhysBlock(moveSteps + 1, lb)] = flash[PhysBlock(moveSteps, lb)]
    BY <2>2, StepMovesOneBlock DEF LBlocks
  <2>4. Presented' = Presented
    BY <2>1, <2>3, SamePresented DEF Shows, FlashIdle
  <2> QED BY <2>1, <2>4, QuietStutters
<1>3. CASE MoveEnd
  <2>1. /\ pc = "persist" /\ pc' = "idle" /\ formatted' /\ flash' = flash /\ job' = job
        /\ moveSteps' = moveSteps
    BY <1>3 DEF MoveEnd, flashvars, volvars
  <2>2. Presented' = Presented
    BY <2>1, SamePresented
  <2> QED BY <2>1, <2>2, QuietStutters
<1> QED BY <1>1, <1>2, <1>3

LEMMA WritesFields ==
  /\ \A s \in BOOLEAN :
       /\ Writes(s).op = "write" /\ Writes(s).blk = req.blk
       /\ Writes(s).off = req.off /\ Writes(s).val = req.val
  /\ ~Writes(FALSE).stored /\ [Writes(FALSE) EXCEPT !.stored = TRUE] = Writes(TRUE)
<1>1. \A s \in BOOLEAN :
        /\ Writes(s).op = "write" /\ Writes(s).blk = req.blk
        /\ Writes(s).off = req.off /\ Writes(s).val = req.val
  BY DEF Writes
<1>2. ~Writes(FALSE).stored
  BY Zenon DEF Writes
<1>3. [Writes(FALSE) EXCEPT !.stored = TRUE] = Writes(TRUE)
  <2> DEFINE w(s) == [op |-> "write", blk |-> req.blk, off |-> req.off,
                      val |-> req.val, stored |-> s]
  <2>1. \A s, t : [w(s) EXCEPT !.stored = t] = w(t)
    OBVIOUS
  <2> HIDE DEF w
  <2>2. [w(FALSE) EXCEPT !.stored = TRUE] = w(TRUE)
    BY <2>1, Zenon
  <2> QED BY <2>2, Zenon DEF w, Writes
<1> QED BY <1>1, <1>2, <1>3

(* The commands of a write: one of them makes the new sector visible.      *)
LEMMA WriteCommandIs ==
  FullInv /\ formatted /\ FlashStep /\ pc = "data" => Disk!Store \/ Stutters
<1> SUFFICES ASSUME FullInv, formatted, FlashStep, pc = "data"
             PROVE  Disk!Store \/ Stutters
  OBVIOUS
<1> DEFINE r == req.blk
           b == job.blk
           new == [flash[b] EXCEPT ![req.off] = req.val]
<1>1. /\ FlashCommand /\ pc' = "data" /\ formatted' /\ moveSteps' = moveSteps /\ req' = req
      /\ TypeOK /\ WriteRight
  BY DEF FlashStep, volvars, FullInv, DiskInv
<1>2. /\ b = PhysBlock(moveSteps, r)
      /\ job.kind # "reprogram" =>
           \/ job.kind = "program" /\ job' = NoJob /\ flash'[b] = new
           \/ /\ job.kind = "erase" /\ job'.kind = "reprogram" /\ job'.blk = b
              /\ job'.off = 0 /\ job'.image = new
      /\ job.kind = "reprogram" =>
           \/ job' = NoJob /\ flash'[b] = job.image
           \/ job'.kind = "reprogram" /\ job'.blk = b /\ job'.image = job.image
  BY <1>1, WriteGoesOn
<1>3. r \in LBlocks /\ NoJob.kind = "none"
  BY <1>1 DEF TypeOK, LBlocks, NoJob
<1>4. \A lb \in LBlocks :
        lb # r => Shows(flash', job', moveSteps, lb) = Shows(flash, job, moveSteps, lb)
  BY <1>1, OthersShow
<1>5. /\ Presented = [lb \in LBlocks |-> Shows(flash, job, moveSteps, lb)]
      /\ Presented' = [lb \in LBlocks |-> Shows(flash', job', moveSteps, lb)]
  BY <1>1, PresentedIs
<1>6. /\ Serving = Writes(job.kind \in {"none", "reprogram"})
      /\ Serving' = Writes(job'.kind \in {"none", "reprogram"})
  BY <1>1, ServingIs, ServingIsNext DEF Writes
<1>7. CASE job.kind = "reprogram"
  <2>1. Shows(flash', job', moveSteps, r) = Shows(flash, job, moveSteps, r)
    BY <1>2, <1>3, <1>7 DEF Shows
  <2>2. job'.kind \in {"none", "reprogram"}
    BY <1>2, <1>3, <1>7
  <2>3. Presented' = Presented
    BY <1>4, <1>5, <2>1
  <2> QED BY <1>6, <1>7, <2>2, <2>3 DEF Stutters
<1>8. CASE job.kind # "reprogram"
  <2>1. /\ Shows(flash, job, moveSteps, r) = flash[b]
        /\ Shows(flash', job', moveSteps, r) = new
    BY <1>2, <1>3, <1>8 DEF Shows
  <2>2. job.kind # "none" /\ job'.kind \in {"none", "reprogram"}
    BY <1>2, <1>3, <1>8
  <2>3. Serving = Writes(FALSE) /\ Serving' = Writes(TRUE)
    <3>1. (job.kind \in {"none", "reprogram"}) = FALSE
      BY <1>8, <2>2
    <3>2. (job'.kind \in {"none", "reprogram"}) = TRUE
      BY <2>2
    <3> QED BY <1>6, <3>1, <3>2, Zenon
  <2>4. Presented' = [Presented EXCEPT ![r] = new] /\ Presented[r] = flash[b]
    <3> DEFINE p == [Presented EXCEPT ![r] = new]
    <3>1. /\ DOMAIN p = LBlocks /\ p[r] = new
          /\ \A lb \in LBlocks : lb # r => p[lb] = Presented[lb]
      BY <1>3, <1>5
    <3>2. \A lb \in LBlocks : Presented'[lb] = p[lb]
      BY <1>4, <1>5, <2>1, <3>1
    <3>3. p = [lb \in LBlocks |-> p[lb]] /\ Presented' = [lb \in LBlocks |-> Presented'[lb]]
      BY <1>5, <3>1
    <3> HIDE DEF p
    <3>4. Presented' = p
      BY <3>2, <3>3
    <3> QED BY <1>3, <1>5, <2>1, <3>4 DEF p
  <2>5. Presented' = [Presented EXCEPT ![r] = [Presented[r] EXCEPT ![req.off] = req.val]]
    BY <2>4
  <2>6. /\ Serving.op = "write" /\ ~Serving.stored /\ Serving.blk = r
        /\ Serving.off = req.off /\ Serving.val = req.val
        /\ Serving' = [Serving EXCEPT !.stored = TRUE]
    BY <2>3, WritesFields
  <2>7. Disk!Store
    BY <2>5, <2>6 DEF Disk!Store
  <2> QED BY <2>7
<1> QED BY <1>7, <1>8

LEMMA QuietCommand ==
  FullInv /\ formatted /\ FlashStep /\ pc # "data" => Stutters
<1> SUFFICES ASSUME FullInv, formatted, FlashStep, pc # "data" PROVE Stutters
  OBVIOUS
<1>1. /\ FlashCommand /\ pc' = pc /\ formatted' /\ moveSteps' = moveSteps
      /\ pc # "off"
  BY CommandRuns DEF FlashStep, volvars, FullInv, ConfigInv, JobTarget
<1>2. \A lb \in LBlocks :
        Shows(flash', job', moveSteps, lb) = Shows(flash, job, moveSteps, lb)
  BY <1>1, OthersShow
<1>3. Presented' = Presented
  BY <1>1, <1>2, SamePresented
<1> QED BY <1>1, <1>3, QuietStutters

(* A cut or an error gives up the write in progress: no other block shows  *)
(* anything else than before.                                              *)
LEMMA GivesUpIs ==
  ASSUME FullInv, formatted, formatted', pc # "off", pc' # "data",
         NEW t, t = IF pc' = "off" THEN DurableIn(flash').move ELSE moveSteps',
         \A lb \in LBlocks : ~(pc = "data" /\ lb = req.blk) =>
           Shows(flash', job', t, lb) = Shows(flash, job, moveSteps, lb)
  PROVE  Disk!FailWrite \/ Stutters
<1>1. /\ Presented = [lb \in LBlocks |-> Shows(flash, job, moveSteps, lb)]
      /\ Presented' = [lb \in LBlocks |-> Shows(flash', job', t, lb)]
  BY PresentedIs
<1>2. CASE pc = "data"
  <2> DEFINE s == job.kind \in {"none", "reprogram"}
  <2>1. /\ Serving = Writes(s) /\ s \in BOOLEAN /\ Serving' = [op |-> "none"]
    BY <1>2, ServingIs, ServingIsNext
  <2>2. Serving.op = "write" /\ Serving.blk = req.blk
    <3> HIDE DEF s
    <3> QED BY <2>1, WritesFields
  <2>3. \A lb \in LBlocks \ {Serving.blk} : Presented'[lb] = Presented[lb]
    BY <1>1, <2>2
  <2> QED BY <2>1, <2>2, <2>3 DEF Disk!FailWrite, Disk!OthersKept, Disk!None, LBlocks
<1>3. CASE pc # "data"
  BY <1>1, <1>3, QuietStutters
<1> QED BY <1>2, <1>3

LEMMA ErrorIs ==
  ASSUME "config" \notin FaultPhases, FullInv, formatted, DeviceError
  PROVE  Disk!FailWrite \/ Stutters
<1>1. /\ Interrupt /\ pc' = "idle" /\ formatted' /\ moveSteps' = moveSteps
      /\ pc # "off"
  BY DEF DeviceError, volvars, FullInv, ConfigInv, JobTarget
<1>2. \A lb \in LBlocks : ~(pc = "data" /\ lb = req.blk) =>
        Shows(flash', job', moveSteps, lb) = Shows(flash, job, moveSteps, lb)
  BY <1>1, OthersShow
<1> QED BY <1>1, <1>2, GivesUpIs

LEMMA CutIs == FullInv /\ formatted /\ PowerCut => Disk!FailWrite \/ Stutters
<1> SUFFICES ASSUME FullInv, formatted, PowerCut PROVE Disk!FailWrite \/ Stutters
  OBVIOUS
<1> DEFINE t == DurableIn(flash').move
<1>1. /\ Interrupt /\ pc # "off" /\ pc' = "off" /\ formatted' /\ job' = NoJob
      /\ NoJob.kind = "none" /\ TypeOK
  BY DEF PowerCut, Interrupt, NoJob, FullInv
<1>2. ASSUME NEW lb \in LBlocks, ~(pc = "data" /\ lb = req.blk)
      PROVE  Shows(flash', job', t, lb) = Shows(flash, job, moveSteps, lb)
  <2>1. CASE t = moveSteps
    BY <1>1, <1>2, <2>1, OthersShow
  <2>2. CASE t # moveSteps
    <3> DEFINE b == PhysBlock(moveSteps, lb)
               c == PhysBlock(moveSteps - 1, lb)
    <3>1. pc = "persist" /\ t = moveSteps - 1
      BY <1>1, <2>2, DurableAfter DEF Current, Previous
    <3>2. /\ b \in Blocks /\ b < D /\ c \in Blocks /\ c < D /\ flash[b] = flash[c]
      BY <1>2, <3>1, BothCountsAgree DEF LBlocks
    <3>3. FlashIdle \/ job.blk >= D
      BY <1>1, <3>1, BlockRanges DEF FullInv, TypeOK, ConfigInv, JobTarget
    <3>4. flash'[c] = flash[c]
      BY <1>1, <3>2, <3>3, DataUntouched
    <3>5. Shows(flash, job, moveSteps, lb) = flash[b]
      BY <3>1, <3>2, SlotJobEffective DEF Shows, Effective
    <3>6. Shows(flash', job', t, lb) = flash'[c]
      BY <1>1, <3>1 DEF Shows
    <3> QED BY <3>2, <3>4, <3>5, <3>6
  <2> QED BY <2>1, <2>2
<1> HIDE DEF t
<1>3. t = IF pc' = "off" THEN DurableIn(flash').move ELSE moveSteps'
  BY <1>1 DEF t
<1> QED BY <1>1, <1>2, <1>3, GivesUpIs

(* Before a format completes nothing is promised but that it may complete. *)
LEMMA UnformattedIs == ~formatted /\ [Next]_vars => Disk!InFormat
<1> SUFFICES ASSUME ~formatted, [Next]_vars PROVE Disk!InFormat
  OBVIOUS
<1>1. formatted' => pc' = "idle"
  BY DEF Next, vars, Boot, FormatBegin, FormatBlankOther, FormatPersist, FormatEnd,
         WriteBegin, WriteEnd, MoveBegin, MoveCopy, MoveCommit, MoveEnd, FlashStep,
         DeviceError, PowerCut
<1>2. Serving = [op |-> "format"]
  BY ServingIs
<1>3. Serving' \in {[op |-> "format"], [op |-> "none"]}
  BY <1>1, ServingIsNext
<1> QED BY <1>2, <1>3 DEF Disk!InFormat, Disk!Formatting, Disk!None

LEMMA FormatBeginIs == formatted /\ FormatBegin => Disk!BeginFormat
<1> SUFFICES ASSUME formatted, FormatBegin PROVE Disk!BeginFormat
  OBVIOUS
<1>1. pc = "idle" /\ ~formatted'
  BY DEF FormatBegin
<1> QED BY <1>1, ServingIs, ServingIsNext
        DEF Disk!BeginFormat, Disk!Formatting, Disk!None

LEMMA DiskInit == Init => Disk!Init
BY ServingIs DEF Init, Disk!Init, Disk!Formatting

LEMMA DiskStep ==
  ASSUME "config" \notin FaultPhases, FullInv, FullInv', [Next]_vars
  PROVE  [Disk!Next]_<<Presented, Serving>>
<1>1. CASE ~formatted
  BY <1>1, UnformattedIs DEF Disk!Next
<1>2. CASE formatted /\ Boot
  BY <1>2, BootStutters DEF Stutters
<1>3. CASE formatted /\ FormatBegin
  BY <1>3, FormatBeginIs DEF Disk!Next
<1>4. CASE formatted /\ (FormatBlankOther \/ FormatPersist \/ FormatEnd)
  BY <1>4 DEF FormatBlankOther, FormatPersist, FormatEnd, FullInv, ConfigInv, SafeRecord,
              Formatting
<1>5. ASSUME formatted, NEW lb \in 0 .. L - 1, NEW o \in Offsets, NEW v \in Values,
             WriteBegin(lb, o, v)
      PROVE  Disk!Next
  BY <1>5, WriteBeginIs DEF Disk!Next, LBlocks
<1>6. CASE formatted /\ (WriteEnd \/ MoveBegin)
  BY <1>6, EndIs DEF Disk!Next
<1>7. CASE formatted /\ (MoveCopy \/ MoveCommit \/ MoveEnd)
  BY <1>7, MoveStutters DEF Stutters
<1>8. CASE formatted /\ FlashStep
  BY <1>8, WriteCommandIs, QuietCommand DEF Disk!Next, Stutters
<1>9. CASE formatted /\ (DeviceError \/ PowerCut)
  BY <1>9, ErrorIs, CutIs DEF Disk!Next, Stutters
<1>10. CASE formatted /\ UNCHANGED vars
  <2>1. /\ formatted' /\ flash' = flash /\ job' = job /\ pc' = pc /\ req' = req
        /\ moveSteps' = moveSteps
    BY <1>10 DEF vars
  <2>2. Presented' = Presented
    BY <1>10, <2>1, SamePresented
  <2>3. Serving' = Serving
    <3>1. (job.kind \in {"none", "reprogram"})' = (job.kind \in {"none", "reprogram"})
      BY <2>1
    <3>2. CASE pc = "data"
      BY <1>10, <2>1, <3>1, <3>2, ServingIs, ServingIsNext, Zenon DEF Writes
    <3>3. CASE pc # "data"
      BY <1>10, <2>1, <3>3, ServingIs, ServingIsNext
    <3> QED BY <3>2, <3>3
  <2> QED BY <2>2, <2>3
<1> QED BY <1>1, <1>2, <1>3, <1>4, <1>5, <1>6, <1>7, <1>8, <1>9, <1>10 DEF Next

(* The volume is a plain array of sectors: a write changes its own sector  *)
(* and no other, in one step; where the blocks lie and when they move      *)
(* cannot be seen, whatever cuts the power and, but for the configuration, *)
(* whatever the chip fails at.                                             *)
THEOREM VolumeImplementsDisk ==
  ASSUME "config" \notin FaultPhases
  PROVE  Spec => ImplementsDisk
<1>1. Init => Disk!Init
  BY DiskInit
<1>2. FullInv /\ FullInv' /\ [Next]_vars => [Disk!Next]_<<Presented, Serving>>
  BY DiskStep
<1> QED BY <1>1, <1>2, FullAlways, PTL DEF Spec, ImplementsDisk, Disk!Spec, Disk!vars
===============================================================================
