---------------------------- MODULE FileBlocksProofs ---------------------------
(***************************************************************************)
(* Proofs about FileBlocks, for every number of direct pointers, every     *)
(* block size, every volume, every number of files and every set of        *)
(* lengths within reach: the types, that no block has two owners, that the *)
(* bitmap and i_blocks are exact, and that the writer implements           *)
(* FileContents.                                                           *)
(*                                                                         *)
(* An operation works on one file.  It is proved to leave that file in     *)
(* order and to keep away from every block that the file's map does not    *)
(* lead to; the invariant says that no other file's block is among these.  *)
(***************************************************************************)
EXTENDS FileBlocks, FiniteSetTheorems, SequenceTheorems, WellFoundedInduction, TLAPS

(* Quotient and remainder take a number apart.                             *)
LEMMA DivMod ==
  ASSUME NEW d \in Nat, d > 0, NEW n \in Nat
  PROVE  /\ n \div d \in Nat
         /\ n % d \in 0 .. (d - 1)
         /\ n = d * (n \div d) + (n % d)
OBVIOUS

(* A number written as a multiple of d and a rest below d has that rest.   *)
LEMMA ModUnique ==
  ASSUME NEW d \in Nat, d > 0, NEW q \in Nat, NEW r \in Nat, r < d
  PROVE  (d * q + r) % d = r
<1> DEFINE n == d * q + r
           p == n \div d
           s == n % d
<1>1. n \in Nat
  OBVIOUS
<1>2. p \in Nat /\ s \in Nat /\ s < d /\ d * q + r = d * p + s
  BY <1>1, DivMod
<1> HIDE DEF p, s, n
<1>3. p = q
  <2>1. CASE p > q
    <3>1. d * p >= d * (q + 1)
      BY <2>1, <1>2
    <3>2. d * (q + 1) = d * q + d
      OBVIOUS
    <3> QED BY <3>1, <3>2, <1>2
  <2>2. CASE p < q
    <3>1. d * q >= d * (p + 1)
      BY <2>2, <1>2
    <3>2. d * (p + 1) = d * p + d
      BY <1>2
    <3> QED BY <3>1, <3>2, <1>2
  <2> QED BY <2>1, <2>2, <1>2
<1> QED BY <1>2, <1>3 DEF s, n

(* A set of natural numbers that is not empty has a least one.             *)
LEMMA LeastOne ==
  ASSUME NEW T \in SUBSET Nat, T # {}
  PROVE  \E k \in T : \A j \in T : k <= j
<1> DEFINE less == {ss \in Nat \X Nat : ss[1] < ss[2]}
<1>1. IsWellFoundedOn(less, Nat)
  BY NatLessThanWellFounded DEF OpToRel
<1>2. \E k \in T : \A j \in T : ~(<<j, k>> \in less)
  <2> HIDE DEF less
  <2> QED BY <1>1, WFMin
<1>3. PICK k \in T : \A j \in T : ~(<<j, k>> \in less)
  BY <1>2
<1>4. \A j \in T : <<j, k>> \in Nat \X Nat /\ j \in Nat /\ k \in Nat
  OBVIOUS
<1>5. \A j \in T : ~(j < k)
  BY <1>3, <1>4
<1> QED BY <1>4, <1>5

(* Induction up to n, over the set of the numbers that have the property.  *)
LEMMA UpTo ==
  ASSUME NEW n \in Nat, NEW T, 0 \in T, \A k \in 0 .. n - 1 : k \in T => k + 1 \in T
  PROVE  0 .. n \subseteq T
<1> DEFINE missing == (0 .. n) \ T
<1>1. SUFFICES ASSUME missing # {} PROVE FALSE
  OBVIOUS
<1>2. PICK k \in missing : \A j \in missing : k <= j
  <2>1. missing \in SUBSET Nat
    OBVIOUS
  <2> HIDE DEF missing
  <2> QED BY <1>1, <2>1, LeastOne
<1>3. k # 0 /\ k - 1 \in 0 .. n - 1 /\ k - 1 \notin missing
  BY <1>2
<1> QED BY <1>2, <1>3

(* There is a function that applies F[1], F[2], ... F[n] to a, one after   *)
(* the other.                                                              *)
Steps(n, S) == [1 .. n -> [S -> S]]
LEMMA Iterates ==
  ASSUME NEW S, NEW a \in S, NEW n \in Nat, NEW F, F \in Steps(n, S)
  PROVE  \E f \in [0 .. n -> S] :
           f[0] = a /\ \A k \in 1 .. n : f[k] = F[k][f[k - 1]]
<1> DEFINE Good(m, g) == g[0] = a /\ \A k \in 1 .. m : g[k] = F[k][g[k - 1]]
           T == {m \in 0 .. n : \E g \in [0 .. m -> S] : Good(m, g)}
<1>0. F \in [1 .. n -> [S -> S]]
  BY DEF Steps
<1>1. 0 \in T
  <2> DEFINE g == [k \in 0 .. 0 |-> a]
  <2>1. g \in [0 .. 0 -> S] /\ Good(0, g)
    OBVIOUS
  <2> HIDE DEF g, Good
  <2> QED BY <2>1
<1>2. ASSUME NEW m \in 0 .. n - 1, m \in T PROVE m + 1 \in T
  <2>1. PICK g \in [0 .. m -> S] : Good(m, g)
    BY <1>2
  <2> DEFINE h == [k \in 0 .. m + 1 |-> IF k = m + 1 THEN F[k][g[m]] ELSE g[k]]
  <2>2. F[m + 1][g[m]] \in S
    BY <2>1, <1>0
  <2>3. h \in [0 .. m + 1 -> S]
    BY <2>1, <2>2
  <2>4. h[0] = a
    BY <2>1
  <2>5. ASSUME NEW k \in 1 .. m + 1 PROVE h[k] = F[k][h[k - 1]]
    BY <2>1
  <2>6. Good(m + 1, h)
    BY <2>4, <2>5
  <2> HIDE DEF h, Good
  <2> QED BY <2>3, <2>6
<1>3. n \in T
  <2> HIDE DEF T
  <2>1. 0 .. n \subseteq T
    BY <1>1, <1>2, UpTo
  <2> QED BY <2>1
<1> QED BY <1>3

-------------------------------------------------------------------------------
(* Spots: where the blocks of a file are in its map.                       *)

(* A spot is a number that stands for a place in a file's tree of blocks:  *)
(* a data block has its number in the file, the single and the double      *)
(* indirect block are -1 and -2, and the children of the double indirect   *)
(* block are -3, -4 and so on.                                             *)
Single(k) == NDirect + k
Child(c) == -3 - c
Deep(c, k) == NDirect + PPB + c * PPB + k
Spots == -(PPB + 2)..(Reach - 1)

(* The block that map m leads to at spot p, 0 for none.                    *)
At(v, m, p) ==
  IF p >= 0 THEN LogicalToPhysical(v, m, p)
  ELSE IF p = -1 THEN m.ind
  ELSE IF p = -2 THEN m.dbl
  ELSE PtrAt(v, m.dbl, -3 - p)

(* The number of the first data block that spot p is needed for.           *)
First(p) ==
  IF p >= 0 THEN p
  ELSE IF p = -1 THEN NDirect
  ELSE IF p = -2 THEN NDirect + PPB
  ELSE NDirect + PPB + (-3 - p) * PPB

LEMMA Constants ==
  /\ NDirect \in Nat /\ NDirect > 0
  /\ PPB \in Nat /\ PPB > 0
  /\ NBlocks \in Nat /\ NBlocks > 0
  /\ NFiles \in Nat /\ NFiles > 0
  /\ MaxFull \in Nat
BY BlocksAssumption, FullAssumption

(* The product that bounds the deep spots.                                 *)
LEMMA Products ==
  /\ PPB * PPB \in Nat /\ PPB * PPB >= PPB
  /\ Reach \in Nat /\ Reach = NDirect + PPB + PPB * PPB
  /\ \A c \in Slots : c * PPB \in Nat /\ c * PPB + PPB <= PPB * PPB
  /\ \A c, d \in Slots : c < d => c * PPB + PPB <= d * PPB
<1>1. PPB * PPB \in Nat /\ PPB * PPB >= PPB
  BY Constants
<1>2. ASSUME NEW c \in Slots PROVE c * PPB \in Nat /\ c * PPB + PPB <= PPB * PPB
  <2>1. c \in Nat /\ c + 1 <= PPB
    BY Constants DEF Slots
  <2>2. (c + 1) * PPB <= PPB * PPB
    BY <2>1, Constants
  <2>3. (c + 1) * PPB = c * PPB + PPB
    BY <2>1, Constants
  <2> QED BY <2>1, <2>2, <2>3, Constants
<1>3. ASSUME NEW c \in Slots, NEW d \in Slots, c < d PROVE c * PPB + PPB <= d * PPB
  <2>1. c \in Nat /\ d \in Nat /\ c + 1 <= d
    BY <1>3, Constants DEF Slots
  <2>2. (c + 1) * PPB <= d * PPB
    BY <2>1, Constants
  <2>3. (c + 1) * PPB = c * PPB + PPB
    BY <2>1, Constants
  <2> QED BY <2>1, <2>2, <2>3, Constants
<1> QED BY <1>1, <1>2, <1>3, Constants DEF Reach

(* The digits of a deep spot.                                              *)
LEMMA Digits ==
  ASSUME NEW c \in Slots, NEW k \in Slots
  PROVE  /\ (c * PPB + k) \div PPB = c
         /\ (c * PPB + k) % PPB = k
<1>1. c \in Nat /\ k \in Nat /\ k < PPB /\ c * PPB + k \in Nat
  BY Constants, Products DEF Slots
<1>2. PPB * c + k = c * PPB + k
  BY <1>1, Constants
<1>3. (c * PPB + k) % PPB = k
  BY <1>1, <1>2, Constants, ModUnique
<1> DEFINE q == (c * PPB + k) \div PPB
<1>4. q \in Nat /\ c * PPB + k = PPB * q + k
  BY <1>1, <1>3, Constants, DivMod
<1> HIDE DEF q
<1>5. PPB * c = PPB * q
  BY <1>1, <1>2, <1>4, Constants
<1>6. c = q
  BY <1>1, <1>4, <1>5, Constants
<1> QED BY <1>3, <1>6 DEF q

(* The spots behind the double indirect block, from their digits and back. *)
LEMMA DeepSpot ==
  ASSUME NEW c \in Slots, NEW k \in Slots
  PROVE  /\ Deep(c, k) \in (NDirect + PPB)..(Reach - 1)
         /\ Deep(c, k) \in Spots
         /\ (Deep(c, k) - NDirect - PPB) \div PPB = c
         /\ (Deep(c, k) - NDirect - PPB) % PPB = k
<1>1. c \in Nat /\ k \in Nat /\ k < PPB /\ c * PPB \in Nat /\ c * PPB + PPB <= PPB * PPB
  BY Constants, Products DEF Slots
<1>2. Deep(c, k) - NDirect - PPB = c * PPB + k
  BY <1>1, Constants DEF Deep
<1> QED BY <1>1, <1>2, Constants, Products, Digits DEF Deep, Spots

LEMMA SomeDeep ==
  ASSUME NEW p \in (NDirect + PPB)..(Reach - 1)
  PROVE  \E c, k \in Slots : /\ p = Deep(c, k)
                             /\ c = (p - NDirect - PPB) \div PPB
                             /\ k = (p - NDirect - PPB) % PPB
<1> DEFINE r == p - NDirect - PPB
           c == r \div PPB
           k == r % PPB
<1>1. r \in Nat /\ r < PPB * PPB
  BY Constants, Products
<1>2. c \in Nat /\ k \in 0..(PPB - 1) /\ r = PPB * c + k
  BY <1>1, Constants, DivMod
<1>3. p = r + NDirect + PPB
  BY Constants, Products
<1> HIDE DEF r, c, k
<1>4. c < PPB
  <2>1. SUFFICES ASSUME c >= PPB PROVE FALSE
    BY <1>2, Constants
  <2>2. PPB * c >= PPB * PPB
    BY <2>1, <1>2, Constants
  <2> QED BY <2>2, <1>1, <1>2, Constants
<1>5. PPB * c = c * PPB
  BY <1>2, Constants
<1>6. c \in Slots /\ k \in Slots
  BY <1>2, <1>4, Constants DEF Slots
<1>7. p = Deep(c, k)
  BY <1>2, <1>3, <1>5, Constants DEF Deep
<1> QED BY <1>6, <1>7 DEF r, c, k

LEMMA DeepInjective ==
  ASSUME NEW c \in Slots, NEW k \in Slots, NEW d \in Slots, NEW j \in Slots,
         Deep(c, k) = Deep(d, j)
  PROVE  c = d /\ k = j
BY DeepSpot

(* Every spot is of one of six kinds.                                      *)
LEMMA Kinds ==
  ASSUME NEW p \in Spots
  PROVE  \/ p \in 0..(NDirect - 1)
         \/ p = -1
         \/ p = -2
         \/ \E k \in Slots : p = Single(k)
         \/ \E c \in Slots : p = Child(c)
         \/ \E c, k \in Slots : p = Deep(c, k)
<1>1. p \in Int /\ p >= -(PPB + 2) /\ p < Reach
  BY Constants, Products DEF Spots
<1>2. CASE p \in NDirect..(NDirect + PPB - 1)
  <2>1. p - NDirect \in Slots /\ p = Single(p - NDirect)
    BY <1>2, Constants DEF Slots, Single
  <2> QED BY <2>1
<1>3. CASE p \in -(PPB + 2)..-3
  <2>1. -3 - p \in Slots /\ p = Child(-3 - p)
    BY <1>3, Constants DEF Slots, Child
  <2> QED BY <2>1
<1>4. CASE p \in (NDirect + PPB)..(Reach - 1)
  BY <1>4, SomeDeep
<1> QED BY <1>1, <1>2, <1>3, <1>4, Constants, Products

(* Where each kind of spot lies, and what it is needed for first.          *)
LEMMA DirectIs ==
  ASSUME NEW p \in 0..(NDirect - 1)
  PROVE  p \in Spots /\ First(p) = p
BY Constants, Products DEF Spots, First

LEMMA RootsAre ==
  /\ -1 \in Spots /\ First(-1) = NDirect
  /\ -2 \in Spots /\ First(-2) = NDirect + PPB
BY Constants, Products DEF Spots, First

LEMMA SingleIs ==
  ASSUME NEW k \in Slots
  PROVE  /\ Single(k) \in Spots /\ Single(k) \in NDirect..(NDirect + PPB - 1)
         /\ First(Single(k)) = Single(k)
BY Constants, Products DEF Spots, Slots, Single, First

LEMMA ChildIs ==
  ASSUME NEW c \in Slots
  PROVE  /\ Child(c) \in Spots /\ Child(c) < -2 /\ Child(c) \in Int
         /\ First(Child(c)) = NDirect + PPB + c * PPB
<1>1. /\ Child(c) \in Int /\ Child(c) < -2 /\ Child(c) >= -(PPB + 2)
      /\ -3 - Child(c) = c
  BY Constants DEF Slots, Child
<1>2. First(Child(c)) = NDirect + PPB + c * PPB
  BY <1>1 DEF First
<1> QED BY <1>1, <1>2, Constants, Products DEF Spots

LEMMA DeepIs ==
  ASSUME NEW c \in Slots, NEW k \in Slots
  PROVE  /\ Deep(c, k) \in Spots /\ Deep(c, k) \in (NDirect + PPB)..(Reach - 1)
         /\ First(Deep(c, k)) = Deep(c, k)
BY DeepSpot, Constants, Products DEF First

LEMMA ChildInjective ==
  ASSUME NEW c \in Slots, NEW d \in Slots, Child(c) = Child(d)
  PROVE  c = d
BY Constants DEF Child, Slots

(* What the map leads to at each kind of spot.                             *)
LEMMA AtDirect ==
  ASSUME NEW v, NEW m, NEW p \in 0..(NDirect - 1)
  PROVE  At(v, m, p) = m.direct[p]
BY Constants DEF At, LogicalToPhysical

LEMMA AtInd ==
  ASSUME NEW v, NEW m
  PROVE  At(v, m, -1) = m.ind
BY DEF At

LEMMA AtDbl ==
  ASSUME NEW v, NEW m
  PROVE  At(v, m, -2) = m.dbl
BY DEF At

LEMMA AtSingle ==
  ASSUME NEW v, NEW m, NEW k \in Slots
  PROVE  At(v, m, Single(k)) = PtrAt(v, m.ind, k)
<1> DEFINE p == Single(k)
<1>1. p >= 0 /\ ~(p < NDirect) /\ p - NDirect - PPB < 0 /\ p - NDirect = k
  BY Constants DEF Slots, Single
<1> HIDE DEF p
<1>2. At(v, m, p) = PtrAt(v, m.ind, k)
  BY <1>1 DEF At, LogicalToPhysical
<1> QED BY <1>2 DEF p

LEMMA AtChild ==
  ASSUME NEW v, NEW m, NEW c \in Slots
  PROVE  At(v, m, Child(c)) = PtrAt(v, m.dbl, c)
<1> DEFINE p == Child(c)
<1>1. ~(p >= 0) /\ p # -1 /\ p # -2 /\ -3 - p = c
  BY Constants DEF Slots, Child
<1> HIDE DEF p
<1>2. At(v, m, p) = PtrAt(v, m.dbl, c)
  BY <1>1 DEF At
<1> QED BY <1>2 DEF p

LEMMA AtDeep ==
  ASSUME NEW v, NEW m, NEW c \in Slots, NEW k \in Slots
  PROVE  At(v, m, Deep(c, k)) = PtrAt(v, PtrAt(v, m.dbl, c), k)
<1> DEFINE p == Deep(c, k)
<1>1. /\ p >= 0 /\ ~(p < NDirect) /\ ~(p - NDirect - PPB < 0)
      /\ (p - NDirect - PPB) \div PPB = c /\ (p - NDirect - PPB) % PPB = k
  BY Constants, Products, DeepSpot
<1> HIDE DEF p
<1>2. At(v, m, p) = PtrAt(v, PtrAt(v, m.dbl, c), k)
  BY <1>1 DEF At, LogicalToPhysical
<1> QED BY <1>2 DEF p

-------------------------------------------------------------------------------
(* Volumes, maps and the primitive steps on them.                          *)

(* A volume whose free count is that of its bitmap, and a map that is a    *)
(* tree in it: what it leads to is in use, and no block twice.             *)
Volumes == [bitmap : SUBSET Blocks, free : Int, phantom : {0},
            disk : [Blocks -> [Slots -> Words]]]
Maps == [direct : [0..(NDirect - 1) -> 0..NBlocks], ind : 0..NBlocks, dbl : 0..NBlocks]

VolOK(v) == v \in Volumes /\ v.free = NBlocks - Cardinality(v.bitmap)

Tree(v, m) ==
  /\ \A p \in Spots : At(v, m, p) # 0 => At(v, m, p) \in v.bitmap
  /\ \A p, q \in Spots : At(v, m, p) = At(v, m, q) /\ At(v, m, p) # 0 => p = q

Own(v, m) == {At(v, m, p) : p \in Spots} \ {0}
Others(v, m) == v.bitmap \ Own(v, m)

(* The spots behind the single and behind the double indirect block.       *)
SingleSpots == {-1} \cup NDirect..(NDirect + PPB - 1)
DoubleSpots == -(PPB + 2)..-2 \cup (NDirect + PPB)..(Reach - 1)

(* The bitmap: counts, Alloc_Block and Free_Block.                         *)
LEMMA BlocksFinite ==
  ASSUME NEW S \in SUBSET Blocks
  PROVE  /\ IsFiniteSet(S)
         /\ Cardinality(S) \in 0..NBlocks
         /\ S # Blocks => Cardinality(S) < NBlocks
<1>1. IsFiniteSet(Blocks) /\ Cardinality(Blocks) = NBlocks
  BY Constants, FS_Interval DEF Blocks
<1>2. IsFiniteSet(S) /\ Cardinality(S) <= NBlocks /\ (NBlocks = Cardinality(S) => Blocks = S)
  BY <1>1, FS_Subset
<1>3. Cardinality(S) \in Nat
  BY <1>2, FS_CardinalityType
<1>4. S # Blocks => Cardinality(S) < NBlocks
  BY <1>2, <1>3, Constants
<1> QED BY <1>2, <1>3, <1>4, Constants

(* Alloc_Block finds the lowest clear bit.                                 *)
LEMMA LowestFree ==
  ASSUME NEW v, VolOK(v), HasSpace(v)
  PROVE  Lowest(v) \in Blocks /\ Lowest(v) \notin v.bitmap /\ Lowest(v) # 0
<1>0. v.bitmap \in SUBSET Blocks /\ v.bitmap # Blocks
  BY DEF VolOK, Volumes, HasSpace
<1>1. Blocks \ v.bitmap \in SUBSET Nat /\ Blocks \ v.bitmap # {}
  <2>1. Blocks \subseteq Nat
    BY Constants DEF Blocks
  <2> QED BY <1>0, <2>1
<1>2. \E b \in Blocks \ v.bitmap : \A c \in Blocks \ v.bitmap : b <= c
  BY <1>1, LeastOne
<1>3. Lowest(v) \in Blocks \ v.bitmap
  BY <1>2 DEF Lowest
<1> QED BY <1>3 DEF Blocks

LEMMA Allocated ==
  ASSUME NEW v, VolOK(v), HasSpace(v)
  PROVE  /\ VolOK(AllocBlock(v))
         /\ AllocBlock(v).bitmap = v.bitmap \cup {Lowest(v)}
         /\ AllocBlock(v).disk = v.disk
<1>1. v \in Volumes /\ v.bitmap \in SUBSET Blocks
  BY DEF VolOK, Volumes
<1>2. IsFiniteSet(v.bitmap) /\ Cardinality(v.bitmap) \in 0..NBlocks
  BY <1>1, BlocksFinite
<1>3. Cardinality(v.bitmap \cup {Lowest(v)}) = Cardinality(v.bitmap) + 1
  BY <1>2, LowestFree, FS_AddElement
<1> DEFINE B == v.bitmap \cup {Lowest(v)}
           F == v.free - 1
<1>4. B \in SUBSET Blocks /\ F \in Int
  BY <1>1, LowestFree DEF Volumes
<1>5. AllocBlock(v) = [v EXCEPT !.bitmap = B, !.free = F]
  BY DEF AllocBlock
<1>6. F = NBlocks - Cardinality(B)
  BY <1>2, <1>3, Constants DEF VolOK
<1> HIDE DEF B, F
<1>7. AllocBlock(v) \in Volumes
  BY <1>1, <1>4, <1>5 DEF Volumes
<1>8. AllocBlock(v).bitmap = B /\ AllocBlock(v).free = F /\ AllocBlock(v).disk = v.disk
  BY <1>1, <1>5 DEF Volumes
<1> QED BY <1>6, <1>7, <1>8 DEF VolOK, B

LEMMA WordsAre ==
  /\ Junk \in Words /\ 0..NBlocks \subseteq Words
  /\ \A f \in Files : Data(f) \in Words /\ Data(f) # 0
BY Constants DEF Words, Junk, Files, Data

(* Free_Block of blocks in use keeps the count exact and no phantom.       *)
LEMMA Freed ==
  ASSUME NEW v, VolOK(v), NEW S \in SUBSET v.bitmap
  PROVE  /\ VolOK(FreeBlocks(v, S))
         /\ FreeBlocks(v, S).bitmap = v.bitmap \ S
         /\ \A b \in Blocks \ S : FreeBlocks(v, S).disk[b] = v.disk[b]
<1>1. v \in Volumes /\ v.bitmap \in SUBSET Blocks
  BY DEF VolOK, Volumes
<1>2. IsFiniteSet(v.bitmap) /\ Cardinality(v.bitmap) \in 0..NBlocks
  BY <1>1, BlocksFinite
<1>3. S \cap v.bitmap = S /\ S \ v.bitmap = {}
  OBVIOUS
<1>4. /\ Cardinality(v.bitmap \ S) = Cardinality(v.bitmap) - Cardinality(S)
      /\ Cardinality(S) \in Nat
  <2>1. IsFiniteSet(S) /\ Cardinality(S) \in Nat
    BY <1>1, BlocksFinite, Constants
  <2>2. Cardinality(v.bitmap \ S) = Cardinality(v.bitmap) - Cardinality(v.bitmap \cap S)
    BY <1>2, <2>1, FS_Difference
  <2>3. v.bitmap \cap S = S
    OBVIOUS
  <2> QED BY <2>1, <2>2, <2>3
<1>5. Cardinality({}) = 0
  BY FS_EmptySet
<1> DEFINE d == [b \in Blocks |-> IF b \in S THEN [k \in Slots |-> Junk] ELSE v.disk[b]]
           B == v.bitmap \ S
           F == v.free + Cardinality(S \cap v.bitmap)
           P == v.phantom + Cardinality(S \ v.bitmap)
<1>6. d \in [Blocks -> [Slots -> Words]]
  BY <1>1, WordsAre DEF Volumes
<1>7. B \in SUBSET Blocks /\ v.free \in Int /\ v.phantom = 0
  BY <1>1 DEF Volumes
<1>8. F = v.free + Cardinality(S) /\ P = 0
  <2>1. Cardinality(S \cap v.bitmap) = Cardinality(S) /\ Cardinality(S \ v.bitmap) = 0
    BY <1>3, <1>5
  <2> QED BY <2>1, <1>7
<1>9. F \in Int /\ F = NBlocks - Cardinality(B)
  BY <1>2, <1>4, <1>7, <1>8, Constants DEF VolOK
<1>10. FreeBlocks(v, S) = [v EXCEPT !.bitmap = B, !.free = F, !.phantom = P, !.disk = d]
  BY DEF FreeBlocks
<1>11. \A b \in Blocks \ S : d[b] = v.disk[b]
  OBVIOUS
<1> HIDE DEF B, F, P, d
<1>12. FreeBlocks(v, S) \in Volumes
  BY <1>1, <1>6, <1>7, <1>8, <1>9, <1>10 DEF Volumes
<1>13. /\ FreeBlocks(v, S).bitmap = B /\ FreeBlocks(v, S).free = F
       /\ FreeBlocks(v, S).disk = d
  BY <1>1, <1>10 DEF Volumes
<1> QED BY <1>9, <1>11, <1>12, <1>13 DEF VolOK, B

(* A write changes one block.                                              *)
LEMMA WrittenTo ==
  ASSUME NEW v, VolOK(v), NEW b \in Blocks, NEW words \in [Slots -> Words]
  PROVE  /\ VolOK(Write(v, b, words))
         /\ Write(v, b, words).bitmap = v.bitmap
         /\ Write(v, b, words).disk[b] = words
         /\ \A x \in Blocks \ {b} : Write(v, b, words).disk[x] = v.disk[x]
BY DEF VolOK, Volumes, Write

LEMMA WrittenAt ==
  ASSUME NEW v, VolOK(v), NEW b \in Blocks, NEW k \in Slots, NEW w \in Words
  PROVE  /\ VolOK(WriteAt(v, b, k, w))
         /\ WriteAt(v, b, k, w).bitmap = v.bitmap
         /\ WriteAt(v, b, k, w).disk[b][k] = w
         /\ \A j \in Slots \ {k} : WriteAt(v, b, k, w).disk[b][j] = v.disk[b][j]
         /\ \A x \in Blocks \ {b} : WriteAt(v, b, k, w).disk[x] = v.disk[x]
BY DEF VolOK, Volumes, WriteAt

(* A new block of pointers is zero.                                        *)
LEMMA PointersNew ==
  ASSUME NEW v, VolOK(v), HasSpace(v)
  PROVE  /\ VolOK(NewPointers(v))
         /\ NewPointers(v).bitmap = v.bitmap \cup {Lowest(v)}
         /\ \A k \in Slots : NewPointers(v).disk[Lowest(v)][k] = 0
         /\ \A x \in Blocks \ {Lowest(v)} : NewPointers(v).disk[x] = v.disk[x]
<1> DEFINE z == [k \in Slots |-> 0]
<1>1. z \in [Slots -> Words]
  BY WordsAre, Constants
<1>2. NewPointers(v) = Write(AllocBlock(v), Lowest(v), z)
  BY DEF NewPointers, ZeroBlock
<1>3. \A k \in Slots : z[k] = 0
  OBVIOUS
<1> HIDE DEF z
<1> QED BY <1>1, <1>2, <1>3, Allocated, LowestFree, WrittenTo

LEMMA Regions ==
  /\ \A p \in Spots : p \in 0..(NDirect - 1) \/ p \in SingleSpots \/ p \in DoubleSpots
  /\ \A p \in SingleSpots : p = -1 \/ \E k \in Slots : p = Single(k)
  /\ \A p \in DoubleSpots : \/ p = -2
                            \/ \E c \in Slots : p = Child(c)
                            \/ \E c, k \in Slots : p = Deep(c, k)
<1>1. \A p \in Spots : p \in 0..(NDirect - 1) \/ p \in SingleSpots \/ p \in DoubleSpots
  BY Constants, Products DEF Spots, SingleSpots, DoubleSpots
<1>2. ASSUME NEW p \in SingleSpots PROVE p = -1 \/ \E k \in Slots : p = Single(k)
  <2>1. CASE p # -1
    <3>1. p - NDirect \in Slots /\ p = Single(p - NDirect)
      BY <2>1, Constants DEF SingleSpots, Slots, Single
    <3> QED BY <3>1
  <2> QED BY <2>1
<1>3. ASSUME NEW p \in DoubleSpots
      PROVE  p = -2 \/ (\E c \in Slots : p = Child(c)) \/ (\E c, k \in Slots : p = Deep(c, k))
  <2>1. CASE p \in -(PPB + 2)..-3
    <3>1. -3 - p \in Slots /\ p = Child(-3 - p)
      BY <2>1, Constants DEF Slots, Child
    <3> QED BY <3>1
  <2>2. CASE p \in (NDirect + PPB)..(Reach - 1)
    BY <2>2, SomeDeep
  <2>3. CASE p = -2
    BY <2>3
  <2> QED BY <2>1, <2>2, <2>3, Constants, Products DEF DoubleSpots
<1> QED BY <1>1, <1>2, <1>3

(* A region of the map reads the same while its pointer blocks do.         *)
LEMMA DirectSame ==
  ASSUME NEW v, NEW m, NEW w, NEW n, n.direct = m.direct
  PROVE  \A p \in 0..(NDirect - 1) : At(w, n, p) = At(v, m, p)
BY AtDirect

LEMMA SingleSame ==
  ASSUME NEW v, NEW m, NEW w, NEW n, n.ind = m.ind,
         m.ind # 0 => w.disk[m.ind] = v.disk[m.ind]
  PROVE  \A p \in SingleSpots : At(w, n, p) = At(v, m, p)
<1>1. \A k \in Slots : PtrAt(w, n.ind, k) = PtrAt(v, m.ind, k)
  BY DEF PtrAt
<1>2. \A k \in Slots : At(w, n, Single(k)) = At(v, m, Single(k))
  BY <1>1, AtSingle
<1>3. At(w, n, -1) = At(v, m, -1)
  BY AtInd
<1> QED BY <1>2, <1>3, Regions

LEMMA DoubleSame ==
  ASSUME NEW v, NEW m, NEW w, NEW n, n.dbl = m.dbl,
         m.dbl # 0 => w.disk[m.dbl] = v.disk[m.dbl],
         \A c \in Slots : PtrAt(v, m.dbl, c) # 0 =>
           w.disk[PtrAt(v, m.dbl, c)] = v.disk[PtrAt(v, m.dbl, c)]
  PROVE  \A p \in DoubleSpots : At(w, n, p) = At(v, m, p)
<1>1. \A c \in Slots : PtrAt(w, n.dbl, c) = PtrAt(v, m.dbl, c)
  BY DEF PtrAt
<1>2. \A c, k \in Slots : PtrAt(w, PtrAt(w, n.dbl, c), k) = PtrAt(v, PtrAt(v, m.dbl, c), k)
  BY <1>1 DEF PtrAt
<1>3. \A c \in Slots : At(w, n, Child(c)) = At(v, m, Child(c))
  BY <1>1, AtChild
<1>4. \A c, k \in Slots : At(w, n, Deep(c, k)) = At(v, m, Deep(c, k))
  BY <1>2, AtDeep
<1>5. At(w, n, -2) = At(v, m, -2)
  BY AtDbl
<1> QED BY <1>3, <1>4, <1>5, Regions

(* A volume whose pointer blocks stay reads the same through the map.      *)
LEMMA MapSame ==
  ASSUME NEW v, NEW m, NEW w,
         \A p \in Spots : p < 0 /\ At(v, m, p) # 0 => w.disk[At(v, m, p)] = v.disk[At(v, m, p)]
  PROVE  \A p \in Spots : At(w, m, p) = At(v, m, p)
<1>1. m.ind # 0 => w.disk[m.ind] = v.disk[m.ind]
  <2>1. At(v, m, -1) = m.ind /\ -1 \in Spots
    BY AtInd, RootsAre
  <2> QED BY <2>1
<1>2. m.dbl # 0 => w.disk[m.dbl] = v.disk[m.dbl]
  <2>1. At(v, m, -2) = m.dbl /\ -2 \in Spots
    BY AtDbl, RootsAre
  <2> QED BY <2>1
<1>3. ASSUME NEW c \in Slots, PtrAt(v, m.dbl, c) # 0
      PROVE  w.disk[PtrAt(v, m.dbl, c)] = v.disk[PtrAt(v, m.dbl, c)]
  <2>1. At(v, m, Child(c)) = PtrAt(v, m.dbl, c) /\ Child(c) \in Spots /\ Child(c) < 0
    BY AtChild, ChildIs
  <2> QED BY <2>1, <1>3
<1>4. \A p \in 0..(NDirect - 1) : At(w, m, p) = At(v, m, p)
  BY DirectSame
<1>5. \A p \in SingleSpots : At(w, m, p) = At(v, m, p)
  BY <1>1, SingleSame
<1>6. \A p \in DoubleSpots : At(w, m, p) = At(v, m, p)
  BY <1>2, <1>3, DoubleSame
<1> QED BY <1>4, <1>5, <1>6, Regions

-------------------------------------------------------------------------------
(* What a cut of a map removes and leaves.                                 *)

(* No data block from n on, and nothing at all that is needed only from n  *)
(* on.                                                                     *)
Ends(v, m, n) == \A p \in Spots : p >= n /\ p >= 0 => At(v, m, p) = 0
Trim(v, m, n) == \A p \in Spots : First(p) >= n => At(v, m, p) = 0

(* The blocks that the spots D lead to.                                    *)
Led(v, m, D) == {At(v, m, p) : p \in D} \ {0}

(* What an operation on one file, from v and m to w and n, owes to the     *)
(* others: the blocks that m does not lead to stay in use, stay outside    *)
(* the map and keep their words.                                           *)
Kept(v, m, w, n) ==
  /\ VolOK(w) /\ n \in Maps /\ Tree(w, n)
  /\ Others(v, m) \subseteq Others(w, n)
  /\ \A x \in Others(v, m) : w.disk[x] = v.disk[x]

(* Nothing is in the new map that was not there before, and the data       *)
(* blocks that stay keep their words.                                      *)
Thinned(v, m, w, n) ==
  \A p \in Spots : At(w, n, p) # 0 =>
    /\ At(w, n, p) = At(v, m, p)
    /\ p >= 0 => w.disk[At(v, m, p)] = v.disk[At(v, m, p)]

(* A cut from old to new blocks clears the spots of region R that are      *)
(* needed only from new on.                                                *)
InCut(p, new, old) == new <= First(p) /\ First(p) < old

CutsTo(v, m, w, n, R, new, old) ==
  /\ Kept(v, m, w, n)
  /\ Thinned(v, m, w, n)
  /\ Trim(v, m, old) => Others(w, n) = Others(v, m)
  /\ \A p \in Spots : p \notin R \/ First(p) < new => At(w, n, p) = At(v, m, p)
  /\ \A p \in R : InCut(p, new, old) => At(w, n, p) = 0

(* Spots are integers; those of data blocks are needed for themselves.     *)
LEMMA SpotsAreInt ==
  \A p \in Spots : p \in Int /\ First(p) \in Nat /\ (p >= 0 => First(p) = p)
<1>1. ASSUME NEW p \in Spots PROVE First(p) \in Nat /\ p \in Int /\ (p >= 0 => First(p) = p)
  <2>1. p \in Int
    BY Constants, Products DEF Spots
  <2>2. p >= 0 => First(p) = p
    BY DEF First
  <2>3. CASE p \in {-1, -2}
    BY <2>3, RootsAre, Constants
  <2>4. CASE p \notin {-1, -2} /\ ~(p >= 0)
    <3>1. PICK c \in Slots : p = Child(c)
      BY <2>1, <2>4, Kinds, SingleIs, DeepIs, Constants
    <3> QED BY <3>1, <2>1, <2>2, <2>4, ChildIs, Constants, Products
  <2> QED BY <2>1, <2>2, <2>3, <2>4
<1> QED BY <1>1

LEMMA BitmapBlocks ==
  ASSUME NEW v, VolOK(v)
  PROVE  v.bitmap \subseteq Blocks /\ 0 \notin v.bitmap /\ v.bitmap \in SUBSET Blocks
<1>1. v.bitmap \in SUBSET Blocks
  BY DEF VolOK, Volumes
<1>2. 0 \notin Blocks
  BY Constants DEF Blocks
<1> QED BY <1>1, <1>2

(* The map loses the spots D and gains none; their blocks are free, and    *)
(* no block changes but those and the pointer blocks.                      *)
Loses(v, m, w, n, D) ==
  /\ w.bitmap = v.bitmap \ Led(v, m, D)
  /\ \A p \in Spots : At(w, n, p) # 0 => At(w, n, p) = At(v, m, p) /\ p \notin D
  /\ \A b \in Blocks \ Led(v, m, D) :
       (\A p \in Spots : p < 0 => At(v, m, p) # b) => w.disk[b] = v.disk[b]

(* What is left is a tree, and nobody else's block is touched.             *)
LEMMA Removed ==
  ASSUME NEW v, NEW m, NEW w, NEW n, NEW D \in SUBSET Spots,
         VolOK(v), Tree(v, m), VolOK(w), n \in Maps, Loses(v, m, w, n, D)
  PROVE  /\ Kept(v, m, w, n)
         /\ Thinned(v, m, w, n)
         /\ (\A p \in Spots \ D : At(w, n, p) = At(v, m, p)) => Others(w, n) = Others(v, m)
<1> DEFINE F == Led(v, m, D)
<1>0. F = {At(v, m, p) : p \in D} \ {0}
  BY DEF Led
<1>a. /\ w.bitmap = v.bitmap \ F
      /\ \A p \in Spots : At(w, n, p) # 0 => At(w, n, p) = At(v, m, p) /\ p \notin D
      /\ \A b \in Blocks \ F :
           (\A p \in Spots : p < 0 => At(v, m, p) # b) => w.disk[b] = v.disk[b]
  BY DEF Loses
<1> HIDE DEF F
<1>1. ASSUME NEW p \in Spots, At(w, n, p) # 0
      PROVE  At(v, m, p) \in w.bitmap /\ At(v, m, p) \notin F
  <2>1. At(w, n, p) = At(v, m, p) /\ p \notin D /\ At(v, m, p) # 0
    BY <1>1, <1>a
  <2>2. At(v, m, p) \in v.bitmap
    BY <2>1 DEF Tree
  <2>3. \A q \in D : At(v, m, q) # At(v, m, p)
    BY <2>1 DEF Tree
  <2> QED BY <1>0, <1>a, <2>2, <2>3
<1>2. Tree(w, n)
  <2>1. \A p \in Spots : At(w, n, p) # 0 => At(w, n, p) \in w.bitmap
    BY <1>1, <1>a
  <2>2. \A p, q \in Spots : At(w, n, p) = At(w, n, q) /\ At(w, n, p) # 0 => p = q
    BY <1>a DEF Tree
  <2> QED BY <2>1, <2>2 DEF Tree
<1>3. Others(v, m) \subseteq Others(w, n)
  BY <1>0, <1>a DEF Others, Own
<1>4. ASSUME NEW x \in Others(v, m) PROVE w.disk[x] = v.disk[x]
  <2>1. x \in Blocks \ F /\ x # 0
    BY <1>0, BitmapBlocks DEF Others, Own
  <2>2. \A p \in Spots : At(v, m, p) # x
    BY <2>1 DEF Others, Own
  <2> QED BY <2>1, <2>2, <1>a
<1>5. Kept(v, m, w, n)
  BY <1>2, <1>3, <1>4 DEF Kept
<1>6. ASSUME NEW p \in Spots, At(w, n, p) # 0, p >= 0
      PROVE  w.disk[At(v, m, p)] = v.disk[At(v, m, p)]
  <2>1. At(v, m, p) \in Blocks \ F
    BY <1>1, <1>6, BitmapBlocks
  <2>2. \A q \in Spots : q < 0 => At(v, m, q) # At(v, m, p)
    BY <1>6, <1>a, SpotsAreInt DEF Tree
  <2> QED BY <2>1, <2>2, <1>a
<1>7. Thinned(v, m, w, n)
  BY <1>6, <1>a DEF Thinned
<1>8. ASSUME \A p \in Spots \ D : At(w, n, p) = At(v, m, p)
      PROVE  Others(w, n) \subseteq Others(v, m)
  <2>1. ASSUME NEW x \in Others(w, n), NEW p \in Spots, x = At(v, m, p) PROVE FALSE
    <3>1. x \in v.bitmap /\ x \notin F /\ x # 0
      BY <1>a, <2>1, BitmapBlocks DEF Others
    <3>2. p \notin D
      BY <1>0, <2>1, <3>1
    <3>3. At(w, n, p) = x
      BY <1>8, <2>1, <3>2
    <3> QED BY <2>1, <3>1, <3>3 DEF Others, Own
  <2>2. ASSUME NEW x \in Others(w, n) PROVE x \in Others(v, m)
    <3>1. x \in v.bitmap
      BY <1>a DEF Others
    <3> QED BY <2>1, <3>1 DEF Others, Own
  <2> QED BY <2>2
<1> QED BY <1>3, <1>5, <1>7, <1>8

(* Cuts compose.                                                           *)
LEMMA ThinnedKeeps ==
  ASSUME NEW v, NEW m, NEW w, NEW n, NEW old, Thinned(v, m, w, n)
  PROVE  /\ Ends(v, m, old) => Ends(w, n, old)
         /\ Trim(v, m, old) => Trim(w, n, old)
BY DEF Thinned, Ends, Trim

LEMMA KeptTwice ==
  ASSUME NEW v, NEW m, NEW w, NEW n, NEW u, NEW a, Kept(v, m, w, n), Kept(w, n, u, a)
  PROVE  Kept(v, m, u, a)
<1>1. \A x \in Others(v, m) : u.disk[x] = v.disk[x]
  BY DEF Kept
<1> QED BY <1>1 DEF Kept

LEMMA ThinnedTwice ==
  ASSUME NEW v, NEW m, NEW w, NEW n, NEW u, NEW a, Thinned(v, m, w, n), Thinned(w, n, u, a)
  PROVE  Thinned(v, m, u, a)
<1>1. ASSUME NEW p \in Spots, At(u, a, p) # 0
      PROVE  /\ At(u, a, p) = At(v, m, p)
             /\ p >= 0 => u.disk[At(v, m, p)] = v.disk[At(v, m, p)]
  <2>1. /\ At(u, a, p) = At(w, n, p)
        /\ p >= 0 => u.disk[At(w, n, p)] = w.disk[At(w, n, p)]
    BY <1>1 DEF Thinned
  <2>2. /\ At(w, n, p) = At(v, m, p)
        /\ p >= 0 => w.disk[At(v, m, p)] = v.disk[At(v, m, p)]
    BY <1>1, <2>1 DEF Thinned
  <2> QED BY <2>1, <2>2
<1> QED BY <1>1 DEF Thinned

(* Two cuts, one after the other.                                          *)
LEMMA CutsTwice ==
  ASSUME NEW v, NEW m, NEW w, NEW n, NEW u, NEW a, NEW Q \in SUBSET Spots,
         NEW R \in SUBSET Spots, NEW new \in Nat, NEW old \in Nat,
         CutsTo(v, m, w, n, Q, new, old), CutsTo(w, n, u, a, R, new, old)
  PROVE  CutsTo(v, m, u, a, Q \cup R, new, old)
<1>1. Kept(v, m, u, a)
  BY KeptTwice DEF CutsTo
<1>2. Thinned(v, m, u, a)
  BY ThinnedTwice DEF CutsTo
<1>3. Trim(v, m, old) => Others(u, a) = Others(v, m)
  BY ThinnedKeeps DEF CutsTo
<1>4. \A p \in Spots : p \notin Q \cup R \/ First(p) < new => At(u, a, p) = At(v, m, p)
  BY DEF CutsTo
<1>5. ASSUME NEW p \in Q \cup R, InCut(p, new, old) PROVE At(u, a, p) = 0
  <2>1. CASE p \in R
    BY <1>5, <2>1 DEF CutsTo
  <2>2. CASE p \in Q /\ p \notin R
    <3>1. At(w, n, p) = 0
      BY <1>5, <2>2 DEF CutsTo
    <3>2. At(u, a, p) = At(w, n, p)
      BY <2>2 DEF CutsTo
    <3> QED BY <3>1, <3>2
  <2> QED BY <2>1, <2>2
<1> QED BY <1>1, <1>2, <1>3, <1>4, <1>5 DEF CutsTo

(* Where there is nothing to cut.                                          *)
LEMMA CutsNothing ==
  ASSUME NEW v, NEW m, NEW R \in SUBSET Spots, NEW new, NEW old,
         VolOK(v), m \in Maps, Tree(v, m),
         \A p \in R : InCut(p, new, old) => At(v, m, p) = 0
  PROVE  CutsTo(v, m, v, m, R, new, old)
BY DEF CutsTo, Kept, Thinned

(* A cut of one region in which exactly the spots of the cut are cleared.  *)
LEMMA CutsExactly ==
  ASSUME NEW v, NEW m, NEW w, NEW n, NEW R \in SUBSET Spots, NEW D \in SUBSET R,
         NEW new \in Nat, NEW old \in Nat,
         VolOK(v), Tree(v, m), VolOK(w), n \in Maps, Loses(v, m, w, n, D),
         \A p \in D : InCut(p, new, old) /\ At(w, n, p) = 0,
         \A p \in Spots \ D : At(w, n, p) = At(v, m, p),
         \A p \in R \ D : InCut(p, new, old) => At(v, m, p) = 0
  PROVE  CutsTo(v, m, w, n, R, new, old)
<1>1. D \in SUBSET Spots
  OBVIOUS
<1>2. Kept(v, m, w, n) /\ Thinned(v, m, w, n) /\ Others(w, n) = Others(v, m)
  BY <1>1, Removed
<1>3. \A p \in Spots : p \notin R \/ First(p) < new => At(w, n, p) = At(v, m, p)
  BY SpotsAreInt DEF InCut
<1>4. \A p \in R : InCut(p, new, old) => At(w, n, p) = 0
  OBVIOUS
<1> QED BY <1>2, <1>3, <1>4 DEF CutsTo

-------------------------------------------------------------------------------
(* Truncate, region by region.                                             *)

(* The spots of the direct pointers, and of one child of the double        *)
(* indirect block.                                                         *)
DirectSpots == 0..(NDirect - 1)
ChildSpots(c) == {Child(c)} \cup {Deep(c, k) : k \in Slots}

LEMMA RegionsAre ==
  /\ DirectSpots \in SUBSET Spots /\ SingleSpots \in SUBSET Spots /\ DoubleSpots \in SUBSET Spots
  /\ \A p \in DirectSpots : p >= 0 /\ p \notin SingleSpots /\ p \notin DoubleSpots
  /\ \A p \in SingleSpots : p \notin DirectSpots /\ p \notin DoubleSpots
  /\ \A p \in DoubleSpots : p \notin DirectSpots /\ p \notin SingleSpots
BY Constants, Products DEF DirectSpots, SingleSpots, DoubleSpots, Spots

LEMMA LowerIs ==
  ASSUME NEW a \in Int, NEW b \in Int
  PROVE  /\ Lower(a, b) \in Int /\ Lower(a, b) <= a /\ Lower(a, b) <= b
         /\ Lower(a, b) = a \/ Lower(a, b) = b
         /\ (a <= b => Lower(a, b) = a) /\ (b <= a => Lower(a, b) = b)
BY DEF Lower

LEMMA AboveIs ==
  ASSUME NEW a \in Nat, NEW b \in Nat
  PROVE  /\ Above(a, b) \in Nat
         /\ a <= b => Above(a, b) = 0
         /\ a > b => Above(a, b) = a - b
BY DEF Above

(* CutDirect clears the direct pointers of the cut (writer.adb:774-853).   *)
LEMMA CutDirectDone ==
  ASSUME NEW v, NEW m \in Maps, NEW new \in Nat, NEW old \in Nat, new < old,
         VolOK(v), Tree(v, m), Ends(v, m, old)
  PROVE  CutsTo(v, m, CutDirect(v, m, new, old).v, CutDirect(v, m, new, old).m,
                DirectSpots, new, old)
<1> DEFINE D == new..(Lower(old, NDirect) - 1)
           F == {m.direct[k] : k \in D} \ {0}
           w == FreeBlocks(v, F)
           n == DirectCut(m, new)
<1>0. CutDirect(v, m, new, old).v = w /\ CutDirect(v, m, new, old).m = n
  BY DEF CutDirect
<1>1. D \in SUBSET DirectSpots /\ \A p \in DirectSpots : p \in D <=> new <= p /\ p < old
  <2>1. Lower(old, NDirect) \in Int /\ \A p \in Int : p < Lower(old, NDirect) <=> p < old /\ p < NDirect
    BY Constants DEF Lower
  <2> QED BY <2>1, Constants DEF DirectSpots
<1>2. F = Led(v, m, D)
  <2>1. \A p \in D : At(v, m, p) = m.direct[p]
    BY <1>1, AtDirect DEF DirectSpots
  <2> QED BY <2>1 DEF Led
<1>3. F \in SUBSET v.bitmap
  BY <1>1, <1>2, RegionsAre DEF Tree, Led
<1>4. /\ n \in Maps /\ n.ind = m.ind /\ n.dbl = m.dbl
      /\ \A p \in DirectSpots : n.direct[p] = IF p >= new THEN 0 ELSE m.direct[p]
  <2> DEFINE d == [k \in 0..(NDirect - 1) |-> IF k >= new THEN 0 ELSE m.direct[k]]
  <2>1. d \in [0..(NDirect - 1) -> 0..NBlocks]
    BY Constants DEF Maps
  <2>2. DOMAIN m.direct = 0..(NDirect - 1)
    BY DEF Maps
  <2>3. n = [m EXCEPT !.direct = d]
    BY <2>2 DEF DirectCut
  <2>4. \A p \in DirectSpots : d[p] = IF p >= new THEN 0 ELSE m.direct[p]
    BY DEF DirectSpots
  <2> HIDE DEF d, n
  <2> QED BY <2>1, <2>3, <2>4 DEF Maps
<1>5. VolOK(w) /\ w.bitmap = v.bitmap \ F /\ \A b \in Blocks \ F : w.disk[b] = v.disk[b]
  BY <1>3, Freed
<1> HIDE DEF D, F, w, n
<1>6. ASSUME NEW p \in Spots, p < 0, At(v, m, p) # 0
      PROVE  w.disk[At(v, m, p)] = v.disk[At(v, m, p)]
  <2>1. \A q \in D : q # p /\ q \in Spots
    BY <1>1, <1>6, RegionsAre, SpotsAreInt DEF DirectSpots
  <2>2. At(v, m, p) \notin F
    BY <1>2, <1>6, <2>1 DEF Tree, Led
  <2>3. At(v, m, p) \in Blocks
    BY <1>6, BitmapBlocks DEF Tree
  <2> QED BY <1>5, <2>2, <2>3
<1>7. \A p \in Spots : At(w, m, p) = At(v, m, p)
  BY <1>6, MapSame
<1>8. /\ \A p \in SingleSpots : At(w, n, p) = At(w, m, p)
      /\ \A p \in DoubleSpots : At(w, n, p) = At(w, m, p)
  BY <1>4, SingleSame, DoubleSame
<1>9. ASSUME NEW p \in DirectSpots PROVE At(w, n, p) = IF p >= new THEN 0 ELSE At(v, m, p)
  BY <1>4, AtDirect DEF DirectSpots
<1>10. \A p \in DirectSpots : p >= old => At(v, m, p) = 0
  BY RegionsAre DEF Ends
<1>11. \A p \in D : InCut(p, new, old) /\ At(w, n, p) = 0
  <2>1. \A p \in D : p \in DirectSpots /\ First(p) = p
    BY <1>1, DirectIs DEF DirectSpots
  <2> QED BY <1>1, <1>9, <2>1 DEF InCut
<1>12. \A p \in Spots \ D : At(w, n, p) = At(v, m, p)
  <2>1. ASSUME NEW p \in DirectSpots, p \notin D PROVE At(w, n, p) = At(v, m, p)
    <3>1. p < new \/ p >= old
      BY <1>1, <2>1 DEF DirectSpots
    <3>2. p \in Int
      BY DEF DirectSpots
    <3> QED BY <1>9, <1>10, <3>1, <3>2
  <2> QED BY <1>7, <1>8, <2>1, Regions DEF DirectSpots
<1>13. \A p \in DirectSpots \ D : InCut(p, new, old) => At(v, m, p) = 0
  <2>1. \A p \in DirectSpots : First(p) = p
    BY DirectIs DEF DirectSpots
  <2>2. ASSUME NEW p \in DirectSpots, p \notin D, InCut(p, new, old) PROVE FALSE
    <3>1. First(p) = p
      BY <2>1
    <3>2. new <= p /\ p < old
      BY <2>2, <3>1 DEF InCut
    <3> QED BY <1>1, <2>2, <3>2
  <2> QED BY <2>2
<1>14. Loses(v, m, w, n, D)
  <2>1. \A p \in Spots : At(w, n, p) # 0 => At(w, n, p) = At(v, m, p) /\ p \notin D
    BY <1>11, <1>12
  <2> QED BY <1>2, <1>5, <2>1 DEF Loses
<1>15. D \in SUBSET DirectSpots
  BY <1>1
<1>16. CutsTo(v, m, w, n, DirectSpots, new, old)
  BY <1>4, <1>5, <1>11, <1>12, <1>13, <1>14, <1>15, RegionsAre, CutsExactly
<1> QED BY <1>0, <1>16

(* What a tree leads to is a block in use.                                 *)
LEMMA InBlocks ==
  ASSUME NEW v, NEW m, NEW p \in Spots, VolOK(v), Tree(v, m), At(v, m, p) # 0
  PROVE  At(v, m, p) \in v.bitmap /\ At(v, m, p) \in Blocks
BY BitmapBlocks DEF Tree

LEMMA NotLed ==
  ASSUME NEW v, NEW m, NEW p \in Spots, NEW D \in SUBSET Spots, Tree(v, m),
         At(v, m, p) # 0, p \notin D
  PROVE  At(v, m, p) \notin Led(v, m, D)
BY DEF Led, Tree

LEMMA LedInUse ==
  ASSUME NEW v, NEW m, NEW D \in SUBSET Spots, Tree(v, m)
  PROVE  Led(v, m, D) \in SUBSET v.bitmap
BY DEF Led, Tree

LEMMA DiskWords ==
  ASSUME NEW v, VolOK(v), NEW b \in Blocks
  PROVE  v.disk[b] \in [Slots -> Words] /\ \A k \in Slots : PtrAt(v, b, k) \in Words
BY Constants DEF VolOK, Volumes, PtrAt, Blocks

(* CutSingle clears the spots of the cut behind the single indirect block. *)
LEMMA CutSingleDone ==
  ASSUME NEW v, NEW m \in Maps, NEW new \in Nat, NEW old \in Nat, new < old,
         VolOK(v), Tree(v, m), Ends(v, m, old)
  PROVE  CutsTo(v, m, CutSingle(v, m, new, old).v, CutSingle(v, m, new, old).m,
                SingleSpots, new, old)
<1> DEFINE keep == Above(new, NDirect)
           count == Lower(Above(old, NDirect), PPB)
           kept == [k \in Slots |-> IF k \in keep..(count - 1) THEN 0 ELSE PtrAt(v, m.ind, k)]
           r == CutSingle(v, m, new, old)
<1>1. r = IF keep >= count \/ m.ind = 0 THEN [v |-> v, m |-> m]
          ELSE IF keep = 0 THEN [v |-> FreeBlocks(v, SingleAll(v, m.ind, count)),
                                 m |-> [m EXCEPT !.ind = 0]]
          ELSE [v |-> FreeBlocks(Write(v, m.ind, kept), SingleData(v, m.ind, keep, count)),
                m |-> m]
  BY Zenon DEF CutSingle
<1>2. /\ keep \in Nat /\ count \in Nat /\ count <= PPB
      /\ \A k \in Nat : new <= NDirect + k <=> keep <= k
      /\ \A k \in Nat : k < PPB => (NDirect + k < old <=> k < count)
  BY Constants DEF Above, Lower
<1>3. \A k \in Slots : InCut(Single(k), new, old) <=> keep <= k /\ k < count
  <2>1. \A k \in Slots : k \in Nat /\ k < PPB /\ First(Single(k)) = NDirect + k
    BY Constants, SingleIs DEF Slots, Single
  <2> QED BY <1>2, <2>1 DEF InCut
<1>4. InCut(-1, new, old) <=> keep = 0 /\ count > 0
  <2>1. First(-1) = NDirect + 0 /\ 0 \in Nat /\ 0 < PPB
    BY RootsAre, Constants
  <2> QED BY <1>2, <2>1 DEF InCut
<1>5. \A k \in Slots : k \in Nat /\ k >= count => At(v, m, Single(k)) = 0
  <2>1. ASSUME NEW k \in Slots, k >= count PROVE At(v, m, Single(k)) = 0
    <3>1. k \in Nat /\ k < PPB /\ Single(k) = NDirect + k
      BY Constants DEF Slots, Single
    <3>2. Single(k) >= old /\ Single(k) >= 0
      BY <1>2, <2>1, <3>1, Constants
    <3> QED BY <3>2, SingleIs DEF Ends
  <2> QED BY <2>1
<1> HIDE DEF keep, count, kept, r
<1>6. CASE keep >= count \/ m.ind = 0
  <2>1. r.v = v /\ r.m = m
    BY <1>1, <1>6
  <2>2. ASSUME NEW p \in SingleSpots, InCut(p, new, old) PROVE At(v, m, p) = 0
    <3>1. CASE p = -1
      BY <1>2, <1>4, <1>6, <2>2, <3>1, AtInd
    <3>2. CASE \E k \in Slots : p = Single(k)
      <4>1. PICK k \in Slots : p = Single(k)
        BY <3>2
      <4>2. keep <= k /\ k < count
        BY <1>3, <2>2, <4>1
      <4>3. m.ind = 0
        BY <1>2, <1>6, <4>2 DEF Slots
      <4> QED BY <4>1, <4>3, AtSingle DEF PtrAt
    <3> QED BY <3>1, <3>2, Regions
  <2> QED BY <2>1, <2>2, RegionsAre, CutsNothing DEF r
<1>7. CASE ~(keep >= count \/ m.ind = 0) /\ keep = 0
  <2> DEFINE D == {-1} \cup {Single(k) : k \in 0..(count - 1)}
             F == SingleAll(v, m.ind, count)
             n == [m EXCEPT !.ind = 0]
             w == FreeBlocks(v, F)
  <2>1. r.v = w /\ r.m = n
    BY <1>1, <1>7
  <2>2. 0..(count - 1) \subseteq Slots
    BY <1>2, Constants DEF Slots
  <2>3. D \in SUBSET SingleSpots
    BY <2>2, SingleIs DEF SingleSpots
  <2>4. F = Led(v, m, D)
    <3>1. F = ({m.ind} \cup {PtrAt(v, m.ind, k) : k \in 0..(count - 1)}) \ {0}
      BY <1>7 DEF SingleAll, SingleData
    <3>2. \A k \in 0..(count - 1) : PtrAt(v, m.ind, k) = At(v, m, Single(k))
      BY <2>2, AtSingle
    <3>3. m.ind = At(v, m, -1)
      BY AtInd
    <3> QED BY <3>1, <3>2, <3>3 DEF Led
  <2>5. D \in SUBSET Spots
    BY <2>3, RegionsAre
  <2>6. /\ VolOK(w) /\ w.bitmap = v.bitmap \ Led(v, m, D)
        /\ \A b \in Blocks \ Led(v, m, D) : w.disk[b] = v.disk[b]
    BY <2>4, <2>5, LedInUse, Freed
  <2>7. n \in Maps /\ n.ind = 0 /\ n.direct = m.direct /\ n.dbl = m.dbl
    <3>1. 0 \in 0..NBlocks
      BY Constants
    <3> QED BY <3>1 DEF Maps
  <2>8. \A p \in D : p = -1 \/ \E k \in Slots : p = Single(k) /\ k < count
    BY <2>2, <1>2
  <2> HIDE DEF D, F, n, w
  <2>9. \A p \in SingleSpots : At(w, n, p) = 0
    <3>1. At(w, n, -1) = 0
      BY <2>7, AtInd
    <3>2. \A k \in Slots : At(w, n, Single(k)) = 0
      BY <2>7, AtSingle DEF PtrAt
    <3> QED BY <3>1, <3>2, Regions
  <2>10. ASSUME NEW p \in Spots, p \notin D, p < 0, At(v, m, p) # 0
         PROVE  w.disk[At(v, m, p)] = v.disk[At(v, m, p)]
    BY <2>5, <2>6, <2>10, NotLed, InBlocks
  <2>11. \A p \in DirectSpots : At(w, n, p) = At(v, m, p)
    BY <2>7, DirectSame DEF DirectSpots
  <2>12. \A p \in DoubleSpots : At(w, n, p) = At(v, m, p)
    <3>1. m.dbl # 0 => w.disk[m.dbl] = v.disk[m.dbl]
      <4>1. At(v, m, -2) = m.dbl /\ -2 \in Spots /\ -2 \notin D
        BY AtDbl, RootsAre, <2>3, Constants DEF SingleSpots
      <4> QED BY <2>10, <4>1
    <3>2. ASSUME NEW c \in Slots, PtrAt(v, m.dbl, c) # 0
          PROVE  w.disk[PtrAt(v, m.dbl, c)] = v.disk[PtrAt(v, m.dbl, c)]
      <4>1. /\ At(v, m, Child(c)) = PtrAt(v, m.dbl, c) /\ Child(c) \in Spots
            /\ Child(c) < 0 /\ Child(c) \notin D
        BY AtChild, ChildIs, <2>3, Constants DEF SingleSpots
      <4> QED BY <2>10, <3>2, <4>1
    <3> QED BY <2>7, <3>1, <3>2, DoubleSame
  <2>13. \A p \in D : InCut(p, new, old) /\ At(w, n, p) = 0
    <3>1. ASSUME NEW p \in D PROVE InCut(p, new, old)
      <4>1. CASE p = -1
        BY <1>2, <1>4, <1>7, <4>1
      <4>2. CASE \E k \in Slots : p = Single(k) /\ k < count
        BY <1>3, <1>7, <4>2, Constants DEF Slots
      <4> QED BY <2>8, <4>1, <4>2
    <3> QED BY <3>1, <2>3, <2>9
  <2>14. ASSUME NEW p \in SingleSpots, p \notin D PROVE At(v, m, p) = 0
    <3>1. PICK k \in Slots : p = Single(k)
      BY <2>14, Regions DEF D
    <3>2. k \in Nat /\ ~(k < count)
      <4>1. k \in Nat
        BY Constants DEF Slots
      <4>2. k < count => k \in 0..(count - 1)
        BY <1>2, <4>1
      <4> QED BY <2>14, <3>1, <4>1, <4>2 DEF D
    <3> QED BY <1>2, <1>5, <3>1, <3>2
  <2>15. \A p \in Spots \ D : At(w, n, p) = At(v, m, p)
    BY <2>9, <2>11, <2>12, <2>14, Regions DEF DirectSpots
  <2>16. Loses(v, m, w, n, D)
    <3>1. \A p \in Spots : At(w, n, p) # 0 => At(w, n, p) = At(v, m, p) /\ p \notin D
      BY <2>13, <2>15
    <3> QED BY <2>6, <3>1 DEF Loses
  <2>17. CutsTo(v, m, w, n, SingleSpots, new, old)
    BY <2>3, <2>6, <2>7, <2>13, <2>14, <2>15, <2>16, RegionsAre, CutsExactly
  <2> QED BY <2>1, <2>17 DEF r
<1>8. CASE ~(keep >= count \/ m.ind = 0) /\ keep # 0
  <2> DEFINE D == {Single(k) : k \in keep..(count - 1)}
             F == SingleData(v, m.ind, keep, count)
             u == Write(v, m.ind, kept)
             w == FreeBlocks(u, F)
  <2>1. r.v = w /\ r.m = m
    BY <1>1, <1>8
  <2>2. keep..(count - 1) \subseteq Slots
    BY <1>2, Constants DEF Slots
  <2>3. D \in SUBSET SingleSpots /\ \A p \in D : p >= 0
    BY <2>2, SingleIs, Constants DEF SingleSpots
  <2>4. F = Led(v, m, D)
    <3>1. F = {PtrAt(v, m.ind, k) : k \in keep..(count - 1)} \ {0}
      BY DEF SingleData
    <3>2. \A k \in keep..(count - 1) : PtrAt(v, m.ind, k) = At(v, m, Single(k))
      BY <2>2, AtSingle
    <3> QED BY <3>1, <3>2 DEF Led
  <2>5. D \in SUBSET Spots
    BY <2>3, RegionsAre
  <2>6. m.ind \in Blocks /\ m.ind = At(v, m, -1) /\ -1 \in Spots /\ -1 \notin D
    BY <1>8, <2>3, AtInd, RootsAre, InBlocks
  <2>7. m.ind \notin F
    BY <1>8, <2>4, <2>5, <2>6, NotLed
  <2>8. /\ kept \in [Slots -> Words]
        /\ \A k \in Slots : kept[k] = IF k \in keep..(count - 1) THEN 0 ELSE PtrAt(v, m.ind, k)
    BY <2>6, DiskWords, WordsAre, Constants DEF kept
  <2>9. /\ VolOK(u) /\ u.bitmap = v.bitmap /\ u.disk[m.ind] = kept
        /\ \A b \in Blocks \ {m.ind} : u.disk[b] = v.disk[b]
    BY <2>6, <2>8, WrittenTo
  <2>10. /\ VolOK(w) /\ w.bitmap = v.bitmap \ Led(v, m, D)
         /\ \A b \in Blocks \ F : w.disk[b] = u.disk[b]
    <3>1. F \in SUBSET u.bitmap
      BY <2>4, <2>5, <2>9, LedInUse
    <3> HIDE DEF F, u
    <3>2. /\ VolOK(FreeBlocks(u, F)) /\ FreeBlocks(u, F).bitmap = u.bitmap \ F
          /\ \A b \in Blocks \ F : FreeBlocks(u, F).disk[b] = u.disk[b]
      BY <2>9, <3>1, Freed
    <3> QED BY <2>4, <2>9, <3>2
  <2> HIDE DEF F, u, w, D
  <2>11. ASSUME NEW p \in Spots, p \notin D, p # -1, At(v, m, p) # 0
         PROVE  w.disk[At(v, m, p)] = v.disk[At(v, m, p)]
    <3>1. At(v, m, p) \in Blocks /\ At(v, m, p) \notin F
      BY <2>4, <2>5, <2>11, NotLed, InBlocks
    <3>2. At(v, m, p) # m.ind
      BY <2>6, <2>11 DEF Tree
    <3> QED BY <2>9, <2>10, <3>1, <3>2
  <2>12. \A k \in Slots : At(w, m, Single(k)) =
           IF k \in keep..(count - 1) THEN 0 ELSE At(v, m, Single(k))
    <3>1. w.disk[m.ind] = kept
      BY <2>6, <2>7, <2>9, <2>10
    <3>2. \A k \in Slots : PtrAt(w, m.ind, k) =
            IF k \in keep..(count - 1) THEN 0 ELSE PtrAt(v, m.ind, k)
      BY <1>8, <2>8, <3>1 DEF PtrAt
    <3> QED BY <3>2, AtSingle
  <2>13. \A p \in DirectSpots : At(w, m, p) = At(v, m, p)
    BY DirectSame DEF DirectSpots
  <2>14. \A p \in DoubleSpots : At(w, m, p) = At(v, m, p)
    <3>1. m.dbl # 0 => w.disk[m.dbl] = v.disk[m.dbl]
      <4>1. At(v, m, -2) = m.dbl /\ -2 \in Spots /\ -2 \notin D /\ -2 # -1
        BY AtDbl, RootsAre, <2>3
      <4> QED BY <2>11, <4>1
    <3>2. ASSUME NEW c \in Slots, PtrAt(v, m.dbl, c) # 0
          PROVE  w.disk[PtrAt(v, m.dbl, c)] = v.disk[PtrAt(v, m.dbl, c)]
      <4>1. /\ At(v, m, Child(c)) = PtrAt(v, m.dbl, c) /\ Child(c) \in Spots
            /\ Child(c) # -1 /\ Child(c) \notin D
        BY AtChild, ChildIs, <2>3
      <4> QED BY <2>11, <3>2, <4>1
    <3> QED BY <3>1, <3>2, DoubleSame
  <2>15. At(w, m, -1) = At(v, m, -1)
    BY AtInd
  <2>16. ASSUME NEW k \in Slots PROVE Single(k) \in D <=> k \in keep..(count - 1)
    <3>1. \A j \in Slots : Single(j) = Single(k) => j = k
      BY Constants DEF Single, Slots
    <3> QED BY <2>2, <3>1 DEF D
  <2>17. \A p \in D : InCut(p, new, old) /\ At(w, m, p) = 0
    <3>1. ASSUME NEW k \in keep..(count - 1)
          PROVE  InCut(Single(k), new, old) /\ At(w, m, Single(k)) = 0
      <4>1. k \in Slots /\ keep <= k /\ k < count
        BY <1>2, <2>2
      <4> QED BY <1>3, <2>12, <4>1
    <3> QED BY <3>1 DEF D
  <2>18. \A p \in Spots \ D : At(w, m, p) = At(v, m, p)
    <3>1. \A k \in Slots : Single(k) \notin D => At(w, m, Single(k)) = At(v, m, Single(k))
      BY <2>12, <2>16
    <3> QED BY <3>1, <2>13, <2>14, <2>15, Regions DEF DirectSpots
  <2>19. ASSUME NEW p \in SingleSpots, p \notin D, InCut(p, new, old) PROVE FALSE
    <3>1. CASE p = -1
      BY <1>4, <1>8, <2>19, <3>1
    <3>2. CASE \E k \in Slots : p = Single(k)
      <4>1. PICK k \in Slots : p = Single(k)
        BY <3>2
      <4>2. keep <= k /\ k < count /\ k \in Nat
        BY <1>3, <2>19, <4>1, Constants DEF Slots
      <4>3. k \in keep..(count - 1)
        BY <1>2, <4>2
      <4> QED BY <2>16, <2>19, <4>1, <4>3
    <3> QED BY <3>1, <3>2, Regions
  <2>20. Loses(v, m, w, m, D)
    <3>1. \A p \in Spots : At(w, m, p) # 0 => At(w, m, p) = At(v, m, p) /\ p \notin D
      BY <2>17, <2>18
    <3>2. ASSUME NEW b \in Blocks \ Led(v, m, D), \A p \in Spots : p < 0 => At(v, m, p) # b
          PROVE  w.disk[b] = v.disk[b]
      <4>1. b # m.ind
        BY <2>6, <3>2
      <4> QED BY <2>4, <2>9, <2>10, <4>1
    <3> QED BY <2>10, <3>1, <3>2 DEF Loses
  <2>21. CutsTo(v, m, w, m, SingleSpots, new, old)
    BY <2>3, <2>10, <2>17, <2>18, <2>19, <2>20, RegionsAre, CutsExactly
  <2> QED BY <2>1, <2>21 DEF r
<1> QED BY <1>6, <1>7, <1>8

(* The spots of a child lie behind the double indirect block, apart from   *)
(* those of other children.                                                *)
LEMMA ChildSpotsAre ==
  ASSUME NEW c \in Slots
  PROVE  /\ ChildSpots(c) \in SUBSET DoubleSpots /\ ChildSpots(c) \in SUBSET Spots
         /\ Child(c) \in ChildSpots(c) /\ -2 \notin ChildSpots(c) /\ -1 \notin ChildSpots(c)
         /\ \A k \in Slots : Deep(c, k) \in ChildSpots(c)
         /\ \A p \in ChildSpots(c) : p = Child(c) \/ \E k \in Slots : p = Deep(c, k)
<1>1. Child(c) \in Spots /\ Child(c) < -2 /\ Child(c) \in Int
  BY ChildIs
<1>2. Child(c) \in DoubleSpots
  BY <1>1, Constants, Products DEF Spots, DoubleSpots
<1>3. \A k \in Slots : /\ Deep(c, k) \in Spots /\ Deep(c, k) \in (NDirect + PPB)..(Reach - 1)
                       /\ Deep(c, k) >= 0
  BY DeepIs, Constants
<1>4. \A k \in Slots : Deep(c, k) \in DoubleSpots
  BY <1>3 DEF DoubleSpots
<1>5. \A p \in ChildSpots(c) : p = Child(c) \/ \E k \in Slots : p = Deep(c, k)
  BY DEF ChildSpots
<1>6. -2 \notin ChildSpots(c) /\ -1 \notin ChildSpots(c)
  BY <1>1, <1>3, <1>5
<1> QED BY <1>1, <1>2, <1>3, <1>4, <1>5, <1>6 DEF ChildSpots

LEMMA ChildSpotsApart ==
  ASSUME NEW c \in Slots, NEW d \in Slots, c # d
  PROVE  Child(d) \notin ChildSpots(c) /\ \A k \in Slots : Deep(d, k) \notin ChildSpots(c)
<1>1. Child(c) # Child(d)
  BY ChildInjective
<1>2. \A k, j \in Slots : Deep(d, k) # Deep(c, j)
  BY DeepInjective
<1>3. /\ Child(c) < -2 /\ Child(d) < -2 /\ Child(c) \in Int /\ Child(d) \in Int
      /\ \A k \in Slots : Deep(c, k) >= 0 /\ Deep(d, k) >= 0
  BY ChildIs, DeepIs, Constants
<1> QED BY <1>1, <1>2, <1>3 DEF ChildSpots

(* Of the double indirect blocks only child c and its pointer change.      *)
OthersStay(v, m, w, c, D) ==
  /\ \A b \in Blocks \ Led(v, m, D) :
       b # m.dbl /\ b # PtrAt(v, m.dbl, c) => w.disk[b] = v.disk[b]
  /\ \A d \in Slots \ {c} : w.disk[m.dbl][d] = v.disk[m.dbl][d]

(* Outside of the child that is cut, the map stays.                        *)
LEMMA OtherChildren ==
  ASSUME NEW v, NEW m, NEW w, NEW c \in Slots, NEW D \in SUBSET ChildSpots(c),
         VolOK(v), Tree(v, m), m.dbl # 0, OthersStay(v, m, w, c, D)
  PROVE  \A p \in Spots \ ChildSpots(c) : At(w, m, p) = At(v, m, p)
<1>0. /\ \A b \in Blocks \ Led(v, m, D) :
           b # m.dbl /\ b # PtrAt(v, m.dbl, c) => w.disk[b] = v.disk[b]
      /\ \A d \in Slots \ {c} : w.disk[m.dbl][d] = v.disk[m.dbl][d]
  BY DEF OthersStay
<1>1. At(v, m, -2) = m.dbl /\ -2 \in Spots
  BY AtDbl, RootsAre
<1>2. At(v, m, Child(c)) = PtrAt(v, m.dbl, c) /\ Child(c) \in Spots
  BY AtChild, ChildIs
<1>3. D \in SUBSET Spots
  BY ChildSpotsAre
<1>4. ASSUME NEW p \in Spots, p \notin ChildSpots(c), p # -2, At(v, m, p) # 0
      PROVE  w.disk[At(v, m, p)] = v.disk[At(v, m, p)]
  <2>1. At(v, m, p) \in Blocks /\ At(v, m, p) \notin Led(v, m, D)
    BY <1>3, <1>4, InBlocks, NotLed
  <2>2. At(v, m, p) # m.dbl
    BY <1>1, <1>4 DEF Tree
  <2>3. At(v, m, p) # PtrAt(v, m.dbl, c)
    BY <1>2, <1>4, ChildSpotsAre DEF Tree
  <2> QED BY <1>0, <2>1, <2>2, <2>3
<1>5. \A p \in 0..(NDirect - 1) : At(w, m, p) = At(v, m, p)
  BY DirectSame
<1>6. \A p \in SingleSpots : At(w, m, p) = At(v, m, p)
  <2>1. At(v, m, -1) = m.ind /\ -1 \in Spots /\ -1 \notin ChildSpots(c)
    BY AtInd, RootsAre, ChildSpotsAre
  <2>2. m.ind # 0 => w.disk[m.ind] = v.disk[m.ind]
    BY <1>4, <2>1
  <2> QED BY <2>2, SingleSame
<1>7. ASSUME NEW d \in Slots, d # c
      PROVE  /\ At(w, m, Child(d)) = At(v, m, Child(d))
             /\ \A k \in Slots : At(w, m, Deep(d, k)) = At(v, m, Deep(d, k))
  <2>1. PtrAt(w, m.dbl, d) = PtrAt(v, m.dbl, d)
    BY <1>0, <1>7 DEF PtrAt
  <2>2. At(v, m, Child(d)) = PtrAt(v, m.dbl, d) /\ Child(d) \in Spots /\ Child(d) # -2
    BY AtChild, ChildIs
  <2>3. Child(d) \notin ChildSpots(c)
    BY <1>7, ChildSpotsApart
  <2>4. PtrAt(v, m.dbl, d) # 0 => w.disk[PtrAt(v, m.dbl, d)] = v.disk[PtrAt(v, m.dbl, d)]
    BY <1>4, <2>2, <2>3
  <2>5. \A k \in Slots : PtrAt(w, PtrAt(w, m.dbl, d), k) = PtrAt(v, PtrAt(v, m.dbl, d), k)
    <3>1. ASSUME NEW k \in Slots
          PROVE  PtrAt(w, PtrAt(v, m.dbl, d), k) = PtrAt(v, PtrAt(v, m.dbl, d), k)
      <4> DEFINE x == PtrAt(v, m.dbl, d)
      <4>1. x # 0 => w.disk[x] = v.disk[x]
        BY <2>4
      <4> HIDE DEF x
      <4>2. PtrAt(w, x, k) = PtrAt(v, x, k)
        BY <4>1 DEF PtrAt
      <4> QED BY <4>2 DEF x
    <3> QED BY <2>1, <3>1
  <2> QED BY <2>1, <2>5, AtChild, AtDeep
<1>8. ASSUME NEW p \in DoubleSpots, p \notin ChildSpots(c) PROVE At(w, m, p) = At(v, m, p)
  <2>1. CASE p = -2
    BY <2>1, AtDbl
  <2>2. CASE \E d \in Slots : p = Child(d)
    BY <1>7, <1>8, <2>2, ChildSpotsAre
  <2>3. CASE \E d, k \in Slots : p = Deep(d, k)
    BY <1>7, <1>8, <2>3, ChildSpotsAre
  <2> QED BY <2>1, <2>2, <2>3, Regions
<1> QED BY <1>5, <1>6, <1>8, Regions

(* Which spots of a child the turn of Free_Double_Tail for it cuts.        *)
From(c, keep) == IF c = keep \div PPB THEN keep % PPB ELSE 0

(* The spots of the cut in child c.                                        *)
LEMMA ChildCut ==
  ASSUME NEW new \in Nat, NEW old \in Nat, NEW c \in Slots,
         NEW keep \in Nat, keep = Above(new, NDirect + PPB), keep > 0,
         NEW count \in Nat, count = Above(old, NDirect + PPB), keep < count,
         c >= keep \div PPB, c <= (count - 1) \div PPB
  PROVE  LET from == From(c, keep)
             to == Lower(PPB, count - c * PPB)
         IN /\ from \in Slots /\ to \in 1..PPB
            /\ InCut(Child(c), new, old) <=> from = 0
            /\ \A k \in Slots : InCut(Deep(c, k), new, old) <=> from <= k /\ k < to
            /\ \A k \in Slots : k >= to => Deep(c, k) >= old
<1> DEFINE from == From(c, keep)
           to == Lower(PPB, count - c * PPB)
           X == NDirect + PPB
           P == c * PPB
           q == keep \div PPB
           r == keep % PPB
           h == (count - 1) \div PPB
<1>1. P \in Nat /\ c \in Nat /\ c < PPB /\ PPB * c = P /\ X \in Nat
  BY Constants, Products DEF Slots
<1>2. new = X + keep /\ old = X + count
  BY <1>1 DEF Above
<1>3. q \in Nat /\ r \in 0..(PPB - 1) /\ keep = PPB * q + r
  BY Constants, DivMod
<1>4. h \in Nat /\ count - 1 >= PPB * h
  BY Constants, DivMod
<1>5. count > P
  <2>1. PPB * h >= PPB * c
    <3>1. c <= h
      OBVIOUS
    <3> HIDE DEF h
    <3> QED BY <1>1, <1>4, <3>1, Constants
  <2>2. PPB * h \in Int
    BY <1>4, Constants
  <2> HIDE DEF h, P
  <2> QED BY <1>1, <1>4, <2>1, <2>2
<1>6. /\ c = q => keep = P + r
      /\ c # q => keep < P
  <2>1. c = q => PPB * q = P
    BY <1>1
  <2>2. c # q => PPB * q + PPB <= P
    <3>1. c # q => q + 1 <= c
      BY <1>1, <1>3
    <3>2. q + 1 <= c => PPB * (q + 1) <= PPB * c
      <4> HIDE DEF q
      <4> QED BY <1>1, <1>3, Constants
    <3>3. PPB * (q + 1) = PPB * q + PPB
      BY <1>3, Constants
    <3> HIDE DEF q, P
    <3> QED BY <1>1, <3>1, <3>2, <3>3
  <2>3. PPB * q \in Int
    BY <1>3, Constants
  <2> HIDE DEF q, P, r
  <2> QED BY <1>1, <1>3, <2>1, <2>2, <2>3, Constants
<1>7. from = IF c = q THEN r ELSE 0
  BY DEF From
<1>8. to = IF PPB < count - P THEN PPB ELSE count - P
  BY DEF Lower
<1>9. /\ \A k \in Slots : k \in Nat /\ k < PPB /\ First(Deep(c, k)) = X + P + k
      /\ \A k \in Slots : Deep(c, k) = X + P + k
      /\ First(Child(c)) = X + P
  <2>1. \A k \in Slots : k \in Nat /\ k < PPB
    BY Constants DEF Slots
  <2>2. \A k \in Slots : Deep(c, k) = X + P + k
    BY DEF Deep
  <2>3. \A k \in Slots : First(Deep(c, k)) = Deep(c, k)
    BY DeepIs
  <2>4. First(Child(c)) = X + P
    BY ChildIs
  <2> QED BY <2>1, <2>2, <2>3, <2>4
<1> HIDE DEF from, to, X, P, q, r, h
<1>10. from \in Slots /\ to \in 1..PPB
  BY <1>1, <1>3, <1>5, <1>7, <1>8, Constants DEF Slots
<1>11. InCut(Child(c), new, old) <=> from = 0
  <2>1. InCut(Child(c), new, old) <=> keep <= P
    BY <1>1, <1>2, <1>5, <1>9 DEF InCut
  <2> QED BY <2>1, <1>1, <1>3, <1>6, <1>7
<1>12. ASSUME NEW k \in Slots PROVE InCut(Deep(c, k), new, old) <=> from <= k /\ k < to
  <2>1. k \in Nat /\ k < PPB /\ First(Deep(c, k)) = X + P + k
    BY <1>9
  <2>2. InCut(Deep(c, k), new, old) <=> keep <= P + k /\ P + k < count
    BY <1>1, <1>2, <2>1 DEF InCut
  <2>3. keep <= P + k <=> from <= k
    BY <1>1, <1>3, <1>6, <1>7, <2>1
  <2>4. P + k < count <=> k < to
    BY <1>1, <1>8, <2>1, Constants
  <2> QED BY <2>2, <2>3, <2>4
<1>13. ASSUME NEW k \in Slots, k >= to PROVE Deep(c, k) >= old
  <2>1. k \in Nat /\ k < PPB /\ Deep(c, k) = X + P + k
    BY <1>9
  <2>2. k >= count - P
    BY <1>1, <1>8, <1>13, <2>1, Constants
  <2>3. X + P + k >= X + count
    BY <1>1, <2>1, <2>2
  <2>4. Deep(c, k) >= X + count
    BY <2>1, <2>3
  <2> QED BY <1>2, <2>4
<1> QED BY <1>10, <1>11, <1>12, <1>13 DEF from, to

(* CutChild, for the first child that is cut or one that is cut whole.     *)
LEMMA CutChildDone ==
  ASSUME NEW v, NEW m \in Maps, NEW new \in Nat, NEW old \in Nat, NEW c \in Slots,
         NEW keep \in Nat, keep = Above(new, NDirect + PPB), keep > 0,
         NEW count \in Nat, count = Above(old, NDirect + PPB), keep < count,
         c >= keep \div PPB, c <= (count - 1) \div PPB,
         VolOK(v), Tree(v, m), Ends(v, m, old), m.dbl # 0
  PROVE  CutsTo(v, m, CutChild(v, m.dbl, c, keep, count), m, ChildSpots(c), new, old)
<1> DEFINE from == From(c, keep)
           to == Lower(PPB, count - c * PPB)
           sng == PtrAt(v, m.dbl, c)
           kept == [k \in Slots |-> IF k \in from..(to - 1) THEN 0 ELSE PtrAt(v, sng, k)]
           w == CutChild(v, m.dbl, c, keep, count)
<1>1. w = IF from = 0 THEN WriteAt(FreeBlocks(v, SingleAll(v, sng, to)), m.dbl, c, 0)
          ELSE IF sng = 0 THEN v
          ELSE FreeBlocks(Write(v, sng, kept), SingleData(v, sng, from, to))
  BY Zenon DEF CutChild, From
<1>2. /\ from \in Slots /\ to \in 1..PPB
      /\ InCut(Child(c), new, old) <=> from = 0
      /\ \A k \in Slots : InCut(Deep(c, k), new, old) <=> from <= k /\ k < to
      /\ \A k \in Slots : k >= to => Deep(c, k) >= old
  BY ChildCut
<1> HIDE DEF from, to
<1>3. \A k \in Slots : k >= to => At(v, m, Deep(c, k)) = 0
  BY <1>2, DeepIs, Constants DEF Ends
<1>4. At(v, m, Child(c)) = sng /\ \A k \in Slots : At(v, m, Deep(c, k)) = PtrAt(v, sng, k)
  BY AtChild, AtDeep
<1>5. /\ m.dbl \in Blocks /\ m.dbl \in v.bitmap
      /\ m.dbl = At(v, m, -2) /\ -2 \in Spots /\ -2 \notin ChildSpots(c)
  <2>1. m.dbl = At(v, m, -2) /\ -2 \in Spots /\ -2 \notin ChildSpots(c)
    BY AtDbl, RootsAre, ChildSpotsAre
  <2>2. At(v, m, -2) # 0
    BY <2>1
  <2>3. At(v, m, -2) \in Blocks /\ At(v, m, -2) \in v.bitmap
    BY <2>1, <2>2, InBlocks
  <2> QED BY <2>1, <2>3
<1>6. /\ ChildSpots(c) \in SUBSET Spots /\ Child(c) \in ChildSpots(c)
      /\ \A k \in Slots : Deep(c, k) \in ChildSpots(c) /\ Deep(c, k) # Child(c)
      /\ \A p \in ChildSpots(c) : p = Child(c) \/ \E k \in Slots : p = Deep(c, k)
  BY ChildSpotsAre, ChildIs, DeepIs, Constants
<1>7. sng \in Words
  BY <1>5, DiskWords
<1> HIDE DEF kept, sng, w
<1>8. CASE from = 0
  <2> DEFINE D == {Child(c)} \cup {Deep(c, k) : k \in 0..(to - 1)}
             F == SingleAll(v, sng, to)
             u == FreeBlocks(v, F)
  <2>1. w = WriteAt(u, m.dbl, c, 0)
    BY <1>1, <1>8
  <2>2. 0..(to - 1) \subseteq Slots
    BY <1>2, Constants DEF Slots
  <2>3. D \in SUBSET ChildSpots(c) /\ D \in SUBSET Spots /\ -2 \notin D
    BY <1>5, <1>6, <2>2
  <2>4. F = Led(v, m, D)
    <3>1. sng # 0 => F = ({sng} \cup {PtrAt(v, sng, k) : k \in 0..(to - 1)}) \ {0}
      BY DEF SingleAll, SingleData
    <3>2. sng = 0 => F = ({sng} \cup {PtrAt(v, sng, k) : k \in 0..(to - 1)}) \ {0}
      BY DEF SingleAll, PtrAt
    <3>3. \A k \in 0..(to - 1) : PtrAt(v, sng, k) = At(v, m, Deep(c, k))
      BY <1>4, <2>2
    <3> HIDE DEF F
    <3>4. {At(v, m, p) : p \in D} = {sng} \cup {PtrAt(v, sng, k) : k \in 0..(to - 1)}
      BY <1>4, <3>3
    <3> QED BY <3>1, <3>2, <3>4 DEF Led
  <2>5. m.dbl \notin F
    BY <1>5, <2>3, <2>4, NotLed
  <2>6. /\ VolOK(u) /\ u.bitmap = v.bitmap \ Led(v, m, D)
        /\ \A b \in Blocks \ Led(v, m, D) : u.disk[b] = v.disk[b]
    BY <2>3, <2>4, LedInUse, Freed
  <2> HIDE DEF F, u, D
  <2>7. /\ VolOK(w) /\ w.bitmap = v.bitmap \ Led(v, m, D) /\ w.disk[m.dbl][c] = 0
        /\ \A d \in Slots \ {c} : w.disk[m.dbl][d] = v.disk[m.dbl][d]
        /\ \A b \in Blocks \ Led(v, m, D) : b # m.dbl => w.disk[b] = v.disk[b]
    <3>1. 0 \in Words
      BY WordsAre, Constants
    <3>2. /\ VolOK(w) /\ w.bitmap = u.bitmap /\ w.disk[m.dbl][c] = 0
          /\ \A d \in Slots \ {c} : w.disk[m.dbl][d] = u.disk[m.dbl][d]
          /\ \A b \in Blocks \ {m.dbl} : w.disk[b] = u.disk[b]
      BY <1>5, <2>1, <2>6, <3>1, WrittenAt
    <3>3. u.disk[m.dbl] = v.disk[m.dbl]
      BY <1>5, <2>4, <2>5, <2>6
    <3> QED BY <2>6, <3>2, <3>3
  <2>8. \A p \in Spots \ ChildSpots(c) : At(w, m, p) = At(v, m, p)
    <3>1. OthersStay(v, m, w, c, D)
      BY <2>7 DEF OthersStay
    <3> QED BY <2>3, <3>1, OtherChildren
  <2>9. \A p \in ChildSpots(c) : At(w, m, p) = 0
    <3>1. PtrAt(w, m.dbl, c) = 0
      BY <2>7 DEF PtrAt
    <3>2. At(w, m, Child(c)) = 0 /\ \A k \in Slots : At(w, m, Deep(c, k)) = 0
      BY <3>1, AtChild, AtDeep DEF PtrAt
    <3> QED BY <1>6, <3>2
  <2>10. ASSUME NEW p \in D PROVE InCut(p, new, old) /\ At(w, m, p) = 0
    <3>1. ASSUME NEW k \in 0..(to - 1) PROVE InCut(Deep(c, k), new, old)
      <4>1. k \in Slots /\ from <= k /\ k < to
        BY <1>2, <1>8, <2>2
      <4> QED BY <1>2, <4>1
    <3>2. InCut(Child(c), new, old)
      BY <1>2, <1>8
    <3>3. \A q \in D : InCut(q, new, old)
      BY <3>1, <3>2 DEF D
    <3> QED BY <3>3, <2>3, <2>9
  <2>11. ASSUME NEW p \in ChildSpots(c), p \notin D PROVE At(v, m, p) = 0
    <3>1. PICK k \in Slots : p = Deep(c, k)
      BY <1>6, <2>11 DEF D
    <3>2. k \in Nat /\ ~(k < to)
      <4>1. k \in Nat
        BY Constants DEF Slots
      <4>2. k < to => k \in 0..(to - 1)
        BY <1>2, <4>1
      <4> QED BY <2>11, <3>1, <4>1, <4>2 DEF D
    <3>3. k >= to
      BY <1>2, <3>2
    <3> QED BY <1>3, <3>1, <3>3
  <2>12. \A p \in Spots \ D : At(w, m, p) = At(v, m, p)
    BY <2>8, <2>9, <2>11
  <2>13. Loses(v, m, w, m, D)
    <3>1. \A p \in Spots : At(w, m, p) # 0 => At(w, m, p) = At(v, m, p) /\ p \notin D
      BY <2>10, <2>12
    <3>2. ASSUME NEW b \in Blocks \ Led(v, m, D), \A p \in Spots : p < 0 => At(v, m, p) # b
          PROVE  w.disk[b] = v.disk[b]
      BY <1>5, <2>7, <3>2
    <3> QED BY <2>7, <3>1, <3>2 DEF Loses
  <2>14. CutsTo(v, m, w, m, ChildSpots(c), new, old)
    BY <1>6, <2>3, <2>7, <2>10, <2>11, <2>12, <2>13, CutsExactly
  <2> QED BY <2>14 DEF w
<1>9. CASE from # 0 /\ sng = 0
  <2>1. w = v
    BY <1>1, <1>9
  <2>2. ASSUME NEW p \in ChildSpots(c), InCut(p, new, old) PROVE At(v, m, p) = 0
    <3>1. PICK k \in Slots : p = Deep(c, k)
      BY <1>2, <1>6, <1>9, <2>2
    <3> QED BY <1>4, <1>9, <3>1 DEF PtrAt
  <2>3. CutsTo(v, m, v, m, ChildSpots(c), new, old)
    BY <1>6, <2>2, CutsNothing
  <2> QED BY <2>1, <2>3 DEF w
<1>10. CASE from # 0 /\ sng # 0
  <2> DEFINE D == {Deep(c, k) : k \in from..(to - 1)}
             F == SingleData(v, sng, from, to)
             u == Write(v, sng, kept)
  <2>1. w = FreeBlocks(u, F)
    BY <1>1, <1>10
  <2>2. from..(to - 1) \subseteq Slots
    BY <1>2, Constants DEF Slots
  <2>3. D \in SUBSET ChildSpots(c) /\ D \in SUBSET Spots /\ -2 \notin D /\ Child(c) \notin D
    BY <1>5, <1>6, <2>2
  <2>4. F = Led(v, m, D)
    <3>1. F = {PtrAt(v, sng, k) : k \in from..(to - 1)} \ {0}
      BY DEF SingleData
    <3>2. \A k \in from..(to - 1) : PtrAt(v, sng, k) = At(v, m, Deep(c, k))
      BY <1>4, <2>2
    <3> QED BY <3>1, <3>2 DEF Led
  <2>5. sng \in Blocks /\ Child(c) \in Spots
    BY <1>4, <1>10, ChildIs, InBlocks
  <2>6. sng \notin F /\ m.dbl \notin F
    BY <1>4, <1>5, <1>10, <2>3, <2>4, <2>5, NotLed
  <2>7. sng # m.dbl
    BY <1>4, <1>5, <1>6, <2>5 DEF Tree
  <2>8. /\ kept \in [Slots -> Words]
        /\ \A k \in Slots : kept[k] = IF k \in from..(to - 1) THEN 0 ELSE PtrAt(v, sng, k)
    BY <2>5, DiskWords, WordsAre, Constants DEF kept
  <2>9. /\ VolOK(u) /\ u.bitmap = v.bitmap /\ u.disk[sng] = kept
        /\ \A b \in Blocks \ {sng} : u.disk[b] = v.disk[b]
    BY <2>5, <2>8, WrittenTo
  <2>10. /\ VolOK(w) /\ w.bitmap = v.bitmap \ Led(v, m, D)
         /\ \A b \in Blocks \ F : w.disk[b] = u.disk[b]
    <3>1. F \in SUBSET u.bitmap
      BY <2>3, <2>4, <2>9, LedInUse
    <3> HIDE DEF F, u
    <3>2. /\ VolOK(FreeBlocks(u, F)) /\ FreeBlocks(u, F).bitmap = u.bitmap \ F
          /\ \A b \in Blocks \ F : FreeBlocks(u, F).disk[b] = u.disk[b]
      BY <2>9, <3>1, Freed
    <3> QED BY <2>1, <2>4, <2>9, <3>2
  <2> HIDE DEF F, u, D
  <2>11. /\ w.disk[sng] = kept /\ w.disk[m.dbl] = v.disk[m.dbl]
         /\ \A b \in Blocks \ Led(v, m, D) : b # sng => w.disk[b] = v.disk[b]
    BY <1>5, <2>4, <2>5, <2>6, <2>7, <2>9, <2>10
  <2>12. \A p \in Spots \ ChildSpots(c) : At(w, m, p) = At(v, m, p)
    <3>1. OthersStay(v, m, w, c, D)
      BY <2>11 DEF OthersStay, sng
    <3> QED BY <2>3, <3>1, OtherChildren
  <2>13. At(w, m, Child(c)) = At(v, m, Child(c))
    BY <2>11, AtChild DEF PtrAt
  <2>14. \A k \in Slots : At(w, m, Deep(c, k)) =
           IF k \in from..(to - 1) THEN 0 ELSE At(v, m, Deep(c, k))
    <3>1. \A k \in Slots : PtrAt(w, sng, k) =
            IF k \in from..(to - 1) THEN 0 ELSE PtrAt(v, sng, k)
      BY <1>10, <2>8, <2>11 DEF PtrAt
    <3>2. PtrAt(w, m.dbl, c) = sng
      BY <2>13, <1>4, AtChild
    <3>3. \A k \in Slots : At(w, m, Deep(c, k)) = PtrAt(w, sng, k)
      BY <3>2, AtDeep
    <3> QED BY <1>4, <3>1, <3>3
  <2>15. ASSUME NEW k \in Slots PROVE Deep(c, k) \in D <=> k \in from..(to - 1)
    <3>1. \A j \in Slots : Deep(c, j) = Deep(c, k) => j = k
      BY DeepInjective
    <3> QED BY <2>2, <3>1 DEF D
  <2>16. \A p \in D : InCut(p, new, old) /\ At(w, m, p) = 0
    <3>1. ASSUME NEW k \in from..(to - 1)
          PROVE  InCut(Deep(c, k), new, old) /\ At(w, m, Deep(c, k)) = 0
      <4>1. k \in Slots /\ from <= k /\ k < to
        BY <1>2, <2>2, Constants DEF Slots
      <4> QED BY <1>2, <2>14, <4>1
    <3> QED BY <3>1 DEF D
  <2>17. \A p \in Spots \ D : At(w, m, p) = At(v, m, p)
    <3>1. \A k \in Slots : Deep(c, k) \notin D => At(w, m, Deep(c, k)) = At(v, m, Deep(c, k))
      BY <2>14, <2>15
    <3> QED BY <1>6, <2>12, <2>13, <3>1
  <2>18. ASSUME NEW p \in ChildSpots(c), p \notin D, InCut(p, new, old) PROVE FALSE
    <3>1. PICK k \in Slots : p = Deep(c, k)
      BY <1>2, <1>6, <1>10, <2>18
    <3>2. from <= k /\ k < to /\ k \in Nat
      BY <1>2, <2>18, <3>1, Constants DEF Slots
    <3>3. k \in from..(to - 1)
      BY <1>2, <3>2, Constants DEF Slots
    <3> QED BY <2>15, <2>18, <3>1, <3>3
  <2>19. Loses(v, m, w, m, D)
    <3>1. \A p \in Spots : At(w, m, p) # 0 => At(w, m, p) = At(v, m, p) /\ p \notin D
      BY <2>16, <2>17
    <3>2. ASSUME NEW b \in Blocks \ Led(v, m, D), \A p \in Spots : p < 0 => At(v, m, p) # b
          PROVE  w.disk[b] = v.disk[b]
      <4>1. Child(c) < 0
        BY ChildIs
      <4>2. b # sng
        BY <1>4, <2>5, <3>2, <4>1
      <4> QED BY <2>11, <4>2
    <3> QED BY <2>10, <3>1, <3>2 DEF Loses
  <2>20. CutsTo(v, m, w, m, ChildSpots(c), new, old)
    BY <1>6, <2>3, <2>10, <2>16, <2>17, <2>18, <2>19, CutsExactly
  <2> QED BY <2>20 DEF w
<1> QED BY <1>8, <1>9, <1>10

-------------------------------------------------------------------------------
(* The children of the double indirect block, one after the other.         *)

(* A loop: turn k applies F[k].                                            *)
Runs(f, F, a, n) == f[0] = a /\ \A k \in 1..n : f[k] = F[k][f[k - 1]]

(* The steps of a run stay in the sets G.                                  *)
Leads(F, G, n) == \A k \in 1..n : \A x \in G[k - 1] : F[k][x] \in G[k]

(* There is a function that a recursive definition over 0..n stands for.   *)
LEMMA SomeRun ==
  ASSUME NEW V, NEW a, NEW n \in Nat, NEW F, NEW G, a \in G[0], Leads(F, G, n),
         \A k \in 0..n : G[k] \subseteq V
  PROVE  \E f : Runs(f, F, a, n) /\ f \in [0..n -> V]
<1> DEFINE E == [k \in 1..n |-> [x \in V |-> IF F[k][x] \in V THEN F[k][x] ELSE x]]
<1>1. a \in V
  OBVIOUS
<1>2. E \in Steps(n, V)
  <2>1. E \in [1..n -> [V -> V]]
    OBVIOUS
  <2> QED BY <2>1 DEF Steps
<1>3. \A k \in 1..n : \A x \in V : F[k][x] \in V => E[k][x] = F[k][x]
  OBVIOUS
<1> HIDE DEF E
<1>4. PICK f \in [0..n -> V] : f[0] = a /\ \A k \in 1..n : f[k] = E[k][f[k - 1]]
  BY <1>1, <1>2, Iterates
<1> DEFINE T == {k \in 0..n : f[k] \in G[k] /\ (k # 0 => f[k] = F[k][f[k - 1]])}
<1>5. 0 \in T
  BY <1>4
<1>6. ASSUME NEW k \in 0..n - 1, k \in T PROVE k + 1 \in T
  <2>1. k + 1 \in 1..n /\ k + 1 \in 0..n /\ (k + 1) - 1 = k
    OBVIOUS
  <2>2. f[k] \in G[k] /\ f[k] \in V
    BY <1>4, <1>6
  <2>3. F[k + 1][f[k]] \in G[k + 1]
    BY <2>1, <2>2 DEF Leads
  <2>4. F[k + 1][f[k]] \in V
    BY <2>1, <2>3
  <2>5. f[k + 1] = F[k + 1][f[k]]
    BY <1>3, <1>4, <2>1, <2>2, <2>4
  <2> QED BY <2>1, <2>3, <2>5
<1> HIDE DEF T
<1>7. 0..n \subseteq T
  BY <1>5, <1>6, UpTo
<1>8. \A k \in 1..n : f[k] = F[k][f[k - 1]]
  <2>1. \A k \in 1..n : k \in T /\ k # 0
    BY <1>7
  <2> QED BY <2>1 DEF T
<1> QED BY <1>4, <1>8 DEF Runs

(* What each step preserves holds at the end.                              *)
LEMMA RunEnds ==
  ASSUME NEW a, NEW n \in Nat, NEW F, NEW G, NEW f, a \in G[0], Leads(F, G, n),
         Runs(f, F, a, n)
  PROVE  f[n] \in G[n]
<1> DEFINE T == {k \in 0..n : f[k] \in G[k]}
<1>1. 0 \in T
  BY DEF Runs
<1>2. ASSUME NEW k \in 0..n - 1, k \in T PROVE k + 1 \in T
  <2>1. k + 1 \in 1..n /\ k + 1 \in 0..n /\ (k + 1) - 1 = k
    OBVIOUS
  <2>2. f[k + 1] = F[k + 1][f[k]]
    BY <2>1 DEF Runs
  <2>3. f[k] \in G[k]
    BY <1>2
  <2> QED BY <2>1, <2>2, <2>3 DEF Leads
<1> HIDE DEF T
<1>3. 0..n \subseteq T
  BY <1>1, <1>2, UpTo
<1> QED BY <1>3 DEF T

(* A quotient is the last multiple that fits.                              *)
LEMMA DivLeast ==
  ASSUME NEW x \in Nat, NEW c \in Nat
  PROVE  /\ x \div PPB \in Nat
         /\ c <= x \div PPB <=> c * PPB <= x
         /\ c * PPB \in Nat
<1> DEFINE q == x \div PPB
           r == x % PPB
<1>1. q \in Nat /\ r \in 0..(PPB - 1) /\ x = PPB * q + r
  BY Constants, DivMod
<1> HIDE DEF q, r
<1>2. PPB * c = c * PPB /\ PPB * c \in Nat /\ PPB * q \in Nat
  BY <1>1, Constants
<1>3. ASSUME c <= q PROVE c * PPB <= x
  <2>1. PPB * c <= PPB * q
    BY <1>1, <1>3, Constants
  <2> QED BY <2>1, <1>1, <1>2, Constants
<1>4. ASSUME c > q PROVE c * PPB > x
  <2>1. q + 1 <= c
    BY <1>1, <1>4
  <2>2. PPB * (q + 1) <= PPB * c
    BY <2>1, <1>1, Constants
  <2>3. PPB * (q + 1) = PPB * q + PPB
    BY <1>1, Constants
  <2> QED BY <2>2, <2>3, <1>1, <1>2, Constants
<1> QED BY <1>1, <1>2, <1>3, <1>4 DEF q

(* What is behind the double indirect block is needed after the rest.      *)
LEMMA DoubleFirst ==
  ASSUME NEW p \in DoubleSpots
  PROVE  p \in Spots /\ First(p) \in Nat /\ First(p) >= NDirect + PPB
<1>1. p \in Spots
  BY RegionsAre
<1>2. CASE p = -2
  BY <1>2, <1>1, RootsAre, Constants
<1>3. CASE \E c \in Slots : p = Child(c)
  BY <1>3, <1>1, ChildIs, Constants, Products
<1>4. CASE \E c, k \in Slots : p = Deep(c, k)
  BY <1>4, <1>1, DeepIs, Constants, Products
<1> QED BY <1>2, <1>3, <1>4, Regions

(* The children that a file of old blocks has.                             *)
LEMMA ChildEnd ==
  ASSUME NEW old \in Nat, NEW count \in Nat, count = Above(old, NDirect + PPB), count > 0,
         NEW c \in Slots
  PROVE  /\ First(Child(c)) < old <=> c <= (count - 1) \div PPB
         /\ c <= (count - 1) \div PPB =>
              /\ Lower(PPB, count - c * PPB) \in 1..PPB
              /\ \A k \in Slots : First(Deep(c, k)) < old <=> k < Lower(PPB, count - c * PPB)
         /\ ~(c <= (count - 1) \div PPB) => \A k \in Slots : ~(First(Deep(c, k)) < old)
<1> DEFINE P == c * PPB
           X == NDirect + PPB
           to == Lower(PPB, count - P)
<1>1. P \in Nat /\ c \in Nat /\ X \in Nat /\ count - 1 \in Nat
  BY Constants, Products DEF Slots
<1>2. c <= (count - 1) \div PPB <=> P <= count - 1
  BY <1>1, DivLeast
<1>3. old = X + count
  BY <1>1 DEF Above
<1>4. First(Child(c)) = X + P
  BY ChildIs
<1>5. \A k \in Slots : k \in Nat /\ k < PPB
  BY Constants DEF Slots
<1>6. \A k \in Slots : First(Deep(c, k)) = X + P + k
  BY DeepIs DEF Deep
<1>7. to = IF PPB < count - P THEN PPB ELSE count - P
  BY DEF Lower
<1> HIDE DEF P, X, to
<1>8. First(Child(c)) < old <=> c <= (count - 1) \div PPB
  BY <1>1, <1>2, <1>3, <1>4
<1>9. c <= (count - 1) \div PPB => to \in 1..PPB
  BY <1>1, <1>2, <1>7, Constants
<1>10. ASSUME NEW k \in Slots, P <= count - 1 PROVE First(Deep(c, k)) < old <=> k < to
  <2>1. k \in Nat /\ k < PPB
    BY <1>5
  <2>2. First(Deep(c, k)) < old <=> P + k < count
    BY <1>1, <1>3, <1>6, <2>1
  <2>3. P + k < count <=> k < to
    BY <1>1, <1>7, <2>1, Constants
  <2> QED BY <2>2, <2>3
<1>11. ASSUME NEW k \in Slots, ~(P <= count - 1) PROVE ~(First(Deep(c, k)) < old)
  <2>1. First(Deep(c, k)) = X + P + k /\ k \in Nat
    BY <1>5, <1>6
  <2> QED BY <1>1, <1>3, <1>11, <2>1
<1> QED BY <1>2, <1>8, <1>9, <1>10, <1>11 DEF to, P

(* Free_Double frees what lies in the double region, up to the end.        *)
InUse(old) == {p \in DoubleSpots : First(p) < old}

(* Free_Double frees the blocks behind the double indirect block.          *)
LEMMA DoubleAllIs ==
  ASSUME NEW v, NEW m, NEW old \in Nat, old <= Reach,
         NEW count \in Nat, count = Above(old, NDirect + PPB), count > 0, m.dbl # 0
  PROVE  DoubleAll(v, m.dbl, count) = Led(v, m, InUse(old))
<1> DEFINE h == (count - 1) \div PPB
           to(c) == Lower(PPB, count - c * PPB)
           Sgl(c) == SingleAll(v, PtrAt(v, m.dbl, c), to(c))
<1>1. DoubleAll(v, m.dbl, count) = {m.dbl} \cup UNION {Sgl(c) : c \in 0..h}
  BY DEF DoubleAll
<1>2. 0..h \subseteq Slots
  <2>1. count <= PPB * PPB
    BY Constants, Products DEF Above
  <2>2. ~(PPB <= h)
    BY <2>1, DivLeast, Constants, Products
  <2>3. h \in Nat
    BY DivLeast
  <2> HIDE DEF h
  <2> QED BY <2>2, <2>3, Constants DEF Slots
<1>3. \A c \in Slots : c \in 0..h <=> c <= h
  <2>1. h \in Nat
    BY DivLeast
  <2> HIDE DEF h
  <2> QED BY <2>1, Constants DEF Slots
<1>4. ASSUME NEW c \in Slots
      PROVE  /\ First(Child(c)) < old <=> c <= h
             /\ c <= h => to(c) \in 1..PPB
             /\ c <= h => \A k \in Slots : First(Deep(c, k)) < old <=> k < to(c)
             /\ ~(c <= h) => \A k \in Slots : ~(First(Deep(c, k)) < old)
  BY ChildEnd
<1>5. \A c \in Slots : At(v, m, Child(c)) = PtrAt(v, m.dbl, c)
  BY AtChild
<1>6. \A c, k \in Slots : At(v, m, Deep(c, k)) = PtrAt(v, PtrAt(v, m.dbl, c), k)
  BY AtDeep
<1> HIDE DEF h, to
<1>7. ASSUME NEW c \in Slots, c <= h
      PROVE  \A b : b \in Sgl(c) <=>
               b # 0 /\ (b = At(v, m, Child(c)) \/
                         \E k \in Slots : First(Deep(c, k)) < old /\ b = At(v, m, Deep(c, k)))
  <2> DEFINE s == PtrAt(v, m.dbl, c)
  <2>1. \A k \in Slots : First(Deep(c, k)) < old <=> k \in 0..(to(c) - 1)
    BY <1>4, <1>7, Constants DEF Slots
  <2>2. 0..(to(c) - 1) \subseteq Slots
    BY <1>4, <1>7, Constants DEF Slots
  <2>3. s = At(v, m, Child(c)) /\ \A k \in Slots : At(v, m, Deep(c, k)) = PtrAt(v, s, k)
    BY <1>5, <1>6
  <2> HIDE DEF s
  <2>4. Sgl(c) = IF s = 0 THEN {} ELSE {s} \cup ({PtrAt(v, s, k) : k \in 0..(to(c) - 1)} \ {0})
    BY DEF SingleAll, SingleData, s
  <2>5. s = 0 => \A k \in Slots : PtrAt(v, s, k) = 0
    BY DEF PtrAt
  <2> HIDE DEF Sgl
  <2> QED BY <2>1, <2>2, <2>3, <2>4, <2>5
<1> HIDE DEF Sgl
<1>8. First(-2) < old
  <2>1. old > NDirect + PPB
    BY Constants DEF Above
  <2> QED BY <2>1, RootsAre, Constants
<1>9. -2 \in InUse(old) /\ At(v, m, -2) = m.dbl
  <2>1. -2 \in DoubleSpots
    BY Constants DEF DoubleSpots
  <2> QED BY <1>8, <2>1, AtDbl DEF InUse
<1>10. ASSUME NEW b \in DoubleAll(v, m.dbl, count) PROVE b \in Led(v, m, InUse(old))
  <2>1. CASE b = m.dbl
    BY <1>9, <2>1 DEF Led
  <2>2. CASE b # m.dbl
    <3>1. PICK c \in 0..h : b \in Sgl(c)
      BY <1>1, <1>10, <2>2
    <3>2. c \in Slots /\ c <= h
      BY <1>2, <1>3
    <3>3. Child(c) \in DoubleSpots /\ \A k \in Slots : Deep(c, k) \in DoubleSpots
      BY <3>2, ChildSpotsAre
    <3>4. Child(c) \in InUse(old)
      BY <1>4, <3>2, <3>3 DEF InUse
    <3>5. \A k \in Slots : First(Deep(c, k)) < old => Deep(c, k) \in InUse(old)
      BY <3>3 DEF InUse
    <3> QED BY <1>7, <3>1, <3>2, <3>4, <3>5 DEF Led
  <2> QED BY <2>1, <2>2
<1>11. ASSUME NEW b \in Led(v, m, InUse(old)) PROVE b \in DoubleAll(v, m.dbl, count)
  <2>1. PICK p \in InUse(old) : b = At(v, m, p) /\ b # 0
    BY DEF Led
  <2>2. p \in DoubleSpots /\ First(p) < old
    BY DEF InUse
  <2>3. CASE p = -2
    BY <1>1, <1>9, <2>1, <2>3
  <2>4. CASE \E c \in Slots : p = Child(c)
    <3>1. PICK c \in Slots : p = Child(c)
      BY <2>4
    <3>2. c <= h
      BY <1>4, <2>2, <3>1
    <3>3. b \in Sgl(c)
      BY <1>7, <2>1, <3>1, <3>2
    <3> QED BY <1>1, <1>3, <3>2, <3>3
  <2>5. CASE \E c, k \in Slots : p = Deep(c, k)
    <3>1. PICK c \in Slots, k \in Slots : p = Deep(c, k)
      BY <2>5
    <3>2. c <= h
      BY <1>4, <2>2, <3>1
    <3>3. b \in Sgl(c)
      BY <1>7, <2>1, <2>2, <3>1, <3>2
    <3> QED BY <1>1, <1>3, <3>2, <3>3
  <2> QED BY <2>2, <2>3, <2>4, <2>5, Regions
<1> QED BY <1>10, <1>11

(* The whole double region is cut.                                         *)
LEMMA CutDoubleWhole ==
  ASSUME NEW v, NEW m \in Maps, NEW new \in Nat, NEW old \in Nat, old <= Reach,
         NEW count \in Nat, count = Above(old, NDirect + PPB), count > 0,
         new <= NDirect + PPB, VolOK(v), Tree(v, m), m.dbl # 0
  PROVE  CutsTo(v, m, FreeBlocks(v, DoubleAll(v, m.dbl, count)), [m EXCEPT !.dbl = 0],
                DoubleSpots, new, old)
<1> DEFINE D == InUse(old)
           F == DoubleAll(v, m.dbl, count)
           w == FreeBlocks(v, F)
           n == [m EXCEPT !.dbl = 0]
<1>1. F = Led(v, m, D)
  BY DoubleAllIs
<1>2. D \in SUBSET DoubleSpots /\ D \in SUBSET Spots
  BY RegionsAre DEF InUse
<1>3. F \in SUBSET v.bitmap
  BY <1>1, <1>2, LedInUse
<1> HIDE DEF F, D
<1>4. VolOK(w) /\ w.bitmap = v.bitmap \ F /\ \A b \in Blocks \ F : w.disk[b] = v.disk[b]
  BY <1>3, Freed
<1>5. n \in Maps /\ n.dbl = 0 /\ n.direct = m.direct /\ n.ind = m.ind
  <2>1. 0 \in 0..NBlocks
    BY Constants
  <2> QED BY <2>1 DEF Maps
<1> HIDE DEF w, n
<1>6. \A p \in DoubleSpots : At(w, n, p) = 0
  <2>1. At(w, n, -2) = 0
    BY <1>5, AtDbl
  <2>2. \A c \in Slots : PtrAt(w, n.dbl, c) = 0
    BY <1>5 DEF PtrAt
  <2>3. \A c \in Slots : At(w, n, Child(c)) = 0
    BY <2>2, AtChild
  <2>4. \A c, k \in Slots : At(w, n, Deep(c, k)) = 0
    <3>1. ASSUME NEW c \in Slots, NEW k \in Slots PROVE At(w, n, Deep(c, k)) = 0
      <4>1. At(w, n, Deep(c, k)) = PtrAt(w, PtrAt(w, n.dbl, c), k)
        BY AtDeep
      <4>2. PtrAt(w, n.dbl, c) = 0
        BY <2>2
      <4>3. PtrAt(w, 0, k) = 0
        BY DEF PtrAt
      <4> QED BY <4>1, <4>2, <4>3
    <3> QED BY <3>1
  <2> QED BY <2>1, <2>3, <2>4, Regions
<1>7. \A p \in 0..(NDirect - 1) : At(w, n, p) = At(v, m, p)
  BY <1>5, DirectSame
<1>8. \A p \in SingleSpots : At(w, n, p) = At(v, m, p)
  <2>1. At(v, m, -1) = m.ind /\ -1 \in Spots
    BY AtInd, RootsAre
  <2>2. -1 \notin D
    BY <1>2, Constants DEF DoubleSpots
  <2>3. m.ind # 0 => m.ind \in Blocks /\ m.ind \notin F
    BY <1>1, <1>2, <2>1, <2>2, InBlocks, NotLed
  <2>4. m.ind # 0 => w.disk[m.ind] = v.disk[m.ind]
    BY <1>4, <2>3
  <2> QED BY <1>5, <2>4, SingleSame
<1>9. Loses(v, m, w, n, D)
  <2>1. ASSUME NEW p \in Spots, At(w, n, p) # 0 PROVE At(w, n, p) = At(v, m, p) /\ p \notin D
    <3>1. p \notin DoubleSpots
      BY <1>6, <2>1
    <3> QED BY <1>2, <1>7, <1>8, <3>1, Regions
  <2> QED BY <1>1, <1>4, <2>1 DEF Loses
<1>10. /\ Kept(v, m, w, n) /\ Thinned(v, m, w, n)
       /\ (\A p \in Spots \ D : At(w, n, p) = At(v, m, p)) => Others(w, n) = Others(v, m)
  BY <1>2, <1>4, <1>5, <1>9, Removed
<1>11. ASSUME Trim(v, m, old) PROVE Others(w, n) = Others(v, m)
  <2>1. ASSUME NEW p \in Spots, p \notin D PROVE At(w, n, p) = At(v, m, p)
    <3>1. CASE p \in DoubleSpots
      <4>1. First(p) >= old
        BY <2>1, <3>1, DoubleFirst DEF D, InUse
      <4>2. At(v, m, p) = 0
        BY <1>11, <4>1 DEF Trim
      <4> QED BY <1>6, <3>1, <4>2
    <3> QED BY <1>7, <1>8, <3>1, Regions
  <2> QED BY <1>10, <2>1
<1>12. ASSUME NEW p \in Spots, p \notin DoubleSpots \/ First(p) < new
       PROVE  At(w, n, p) = At(v, m, p)
  <2>1. p \notin DoubleSpots
    <3>1. p \in DoubleSpots => ~(First(p) < new)
      BY DoubleFirst, Constants
    <3> QED BY <3>1, <1>12
  <2> QED BY <1>7, <1>8, <2>1, Regions
<1>13. CutsTo(v, m, w, n, DoubleSpots, new, old)
  BY <1>6, <1>10, <1>11, <1>12 DEF CutsTo
<1> QED BY <1>13 DEF w, n, F

(* The spots of the first k children that are cut.                         *)
ChildRegion(first, k) == UNION {ChildSpots(first + j - 1) : j \in 1..k}

LEMMA ChildRegionIs ==
  ASSUME NEW first \in Nat, NEW k \in Nat, first + k <= PPB
  PROVE  /\ ChildRegion(first, k) \in SUBSET Spots
         /\ ChildRegion(first, k) \in SUBSET DoubleSpots
         /\ \A c \in Slots : first <= c /\ c < first + k => ChildSpots(c) \subseteq ChildRegion(first, k)
<1>1. ASSUME NEW j \in 1..k PROVE first + j - 1 \in Slots
  BY Constants DEF Slots
<1>2. \A j \in 1..k : ChildSpots(first + j - 1) \in SUBSET Spots
  BY <1>1, ChildSpotsAre
<1>3. \A j \in 1..k : ChildSpots(first + j - 1) \in SUBSET DoubleSpots
  BY <1>1, ChildSpotsAre
<1>4. ASSUME NEW c \in Slots, first <= c, c < first + k
      PROVE  ChildSpots(c) \subseteq ChildRegion(first, k)
  <2>1. c \in Nat
    BY Constants DEF Slots
  <2>2. c - first + 1 \in 1..k /\ first + (c - first + 1) - 1 = c
    BY <1>4, <2>1
  <2> QED BY <2>2 DEF ChildRegion
<1> QED BY <1>2, <1>3, <1>4 DEF ChildRegion

LEMMA ChildRegionGrows ==
  ASSUME NEW first \in Nat, NEW k \in Nat \ {0}
  PROVE  ChildRegion(first, k) = ChildRegion(first, k - 1) \cup ChildSpots(first + k - 1)
<1>1. 1..k = 1..(k - 1) \cup {k}
  OBVIOUS
<1> QED BY <1>1 DEF ChildRegion

(* The children that a cut of the double region meets.                     *)
LEMMA CutChildren ==
  ASSUME NEW new \in Nat, NEW old \in Nat, old <= Reach,
         NEW keep \in Nat, keep = Above(new, NDirect + PPB), keep > 0,
         NEW count \in Nat, count = Above(old, NDirect + PPB), keep < count
  PROVE  LET first == keep \div PPB
             last == (count - 1) \div PPB
         IN /\ first \in Nat /\ last \in Nat /\ first <= last /\ last < PPB
            /\ ~InCut(-2, new, old)
            /\ \A c \in Slots : InCut(Child(c), new, old) => first <= c /\ c <= last
            /\ \A c, k \in Slots : InCut(Deep(c, k), new, old) => first <= c /\ c <= last
<1> DEFINE first == keep \div PPB
           last == (count - 1) \div PPB
           X == NDirect + PPB
<1>1. X \in Nat /\ new = X + keep /\ old = X + count /\ count <= PPB * PPB
  BY Constants, Products DEF Above
<1>2. /\ first \in Nat /\ last \in Nat
      /\ first * PPB <= keep /\ ~((first + 1) * PPB <= keep)
      /\ first * PPB \in Nat /\ (first + 1) * PPB \in Nat
  BY DivLeast
<1>3. /\ first <= last <=> first * PPB <= count - 1
      /\ PPB <= last <=> PPB * PPB <= count - 1
      /\ \A c \in Nat : c <= last <=> c * PPB <= count - 1
      /\ \A c \in Nat : c <= first <=> c * PPB <= keep
  BY <1>2, DivLeast, Constants
<1> HIDE DEF first, last
<1>4. first <= last /\ last < PPB
  BY <1>1, <1>2, <1>3, Constants, Products
<1>5. ~InCut(-2, new, old)
  <2>1. First(-2) = X
    BY RootsAre
  <2> QED BY <1>1, <2>1 DEF InCut
<1>6. ASSUME NEW c \in Slots, NEW k \in 0..(PPB - 1), keep <= c * PPB + k, c * PPB + k < count
      PROVE  first <= c /\ c <= last
  <2>1. c \in Nat /\ c * PPB \in Nat /\ c + 1 \in Nat /\ (c + 1) * PPB = c * PPB + PPB
    BY Constants, Products DEF Slots
  <2>2. c <= last
    <3>1. c * PPB <= count - 1
      BY <1>6, <2>1, Constants
    <3> QED BY <1>3, <2>1, <3>1
  <2>3. ~(c + 1 <= first)
    <3>1. ~((c + 1) * PPB <= keep)
      BY <1>6, <2>1, Constants
    <3> QED BY <1>3, <2>1, <3>1
  <2> QED BY <1>2, <2>1, <2>2, <2>3
<1>7. ASSUME NEW c \in Slots, InCut(Child(c), new, old) PROVE first <= c /\ c <= last
  <2>1. First(Child(c)) = X + c * PPB /\ c * PPB \in Nat
    BY ChildIs, Products
  <2>2. keep <= c * PPB + 0 /\ c * PPB + 0 < count
    BY <1>1, <1>7, <2>1 DEF InCut
  <2>3. 0 \in 0..(PPB - 1)
    BY Constants
  <2> QED BY <1>6, <2>2, <2>3
<1>8. ASSUME NEW c \in Slots, NEW k \in Slots, InCut(Deep(c, k), new, old)
      PROVE  first <= c /\ c <= last
  <2>1. First(Deep(c, k)) = X + c * PPB + k /\ c * PPB \in Nat /\ k \in 0..(PPB - 1)
    BY DeepIs, Products DEF Deep, Slots
  <2>2. keep <= c * PPB + k /\ c * PPB + k < count
    <3>1. k \in Nat
      BY <2>1, Constants
    <3> QED BY <1>1, <1>8, <2>1, <3>1 DEF InCut
  <2> QED BY <1>6, <2>1, <2>2
<1> QED BY <1>2, <1>4, <1>5, <1>7, <1>8 DEF first, last

(* CutDouble clears the spots of the cut behind the double indirect block. *)
LEMMA CutDoubleDone ==
  ASSUME NEW v, NEW m \in Maps, NEW new \in Nat, NEW old \in Nat, new < old, old <= Reach,
         VolOK(v), Tree(v, m), Ends(v, m, old)
  PROVE  CutsTo(v, m, CutDouble(v, m, new, old).v, CutDouble(v, m, new, old).m,
                DoubleSpots, new, old)
<1> DEFINE keep == Above(new, NDirect + PPB)
           count == Above(old, NDirect + PPB)
           first == keep \div PPB
           turns == (count - 1) \div PPB - first + 1
           Eq(g) == g = [k \in 0..turns |->
                           IF k = 0 THEN v
                           ELSE CutChild(g[k - 1], m.dbl, first + k - 1, keep, count)]
           after == CHOOSE g : Eq(g)
           r == CutDouble(v, m, new, old)
<1>1. r = IF keep >= count \/ m.dbl = 0 THEN [v |-> v, m |-> m]
          ELSE IF keep = 0 THEN [v |-> FreeBlocks(v, DoubleAll(v, m.dbl, count)),
                                 m |-> [m EXCEPT !.dbl = 0]]
          ELSE [v |-> after[turns], m |-> m]
  BY Zenon DEF CutDouble
<1>2. keep \in Nat /\ count \in Nat
  BY Constants DEF Above
<1>3. DoubleSpots \in SUBSET Spots
  BY RegionsAre
<1>4. CASE keep >= count \/ m.dbl = 0
  <2>1. r.v = v /\ r.m = m
    <3> HIDE DEF keep, count, turns, after, r
    <3> QED BY <1>1, <1>4
  <2>2. ASSUME NEW p \in DoubleSpots, InCut(p, new, old) PROVE At(v, m, p) = 0
    <3>1. First(p) \in Nat /\ First(p) >= NDirect + PPB /\ new <= First(p) /\ First(p) < old
      BY <2>2, DoubleFirst DEF InCut
    <3>2. keep < count
      BY <3>1, Constants DEF Above
    <3>3. m.dbl = 0
      <4> HIDE DEF keep, count
      <4> QED BY <1>2, <1>4, <3>2
    <3>4. \A c \in Slots : PtrAt(v, m.dbl, c) = 0
      BY <3>3 DEF PtrAt
    <3>5. \A c \in Slots : At(v, m, Child(c)) = 0
      BY <3>4, AtChild
    <3>6. ASSUME NEW c \in Slots, NEW k \in Slots PROVE At(v, m, Deep(c, k)) = 0
      <4>1. At(v, m, Deep(c, k)) = PtrAt(v, PtrAt(v, m.dbl, c), k)
        BY AtDeep
      <4>2. PtrAt(v, m.dbl, c) = 0
        BY <3>4
      <4>3. PtrAt(v, 0, k) = 0
        BY DEF PtrAt
      <4> QED BY <4>1, <4>2, <4>3
    <3>7. At(v, m, -2) = 0
      BY <3>3, AtDbl
    <3> QED BY <3>5, <3>6, <3>7, Regions
  <2>3. CutsTo(v, m, v, m, DoubleSpots, new, old)
    BY <1>3, <2>2, CutsNothing
  <2> HIDE DEF r
  <2>4. CutsTo(v, m, r.v, r.m, DoubleSpots, new, old)
    BY <2>1, <2>3
  <2> QED BY <2>4 DEF r
<1>5. CASE ~(keep >= count \/ m.dbl = 0) /\ keep = 0
  <2>1. r.v = FreeBlocks(v, DoubleAll(v, m.dbl, count)) /\ r.m = [m EXCEPT !.dbl = 0]
    <3> HIDE DEF keep, count, turns, after, r
    <3> QED BY <1>1, <1>5
  <2>2. count > 0 /\ m.dbl # 0
    <3> HIDE DEF keep, count
    <3> QED BY <1>2, <1>5
  <2>3. new <= NDirect + PPB
    BY <1>5, Constants DEF Above
  <2>4. CutsTo(v, m, FreeBlocks(v, DoubleAll(v, m.dbl, count)), [m EXCEPT !.dbl = 0],
               DoubleSpots, new, old)
    BY <1>2, <2>2, <2>3, CutDoubleWhole
  <2> HIDE DEF r, count
  <2>5. CutsTo(v, m, r.v, r.m, DoubleSpots, new, old)
    BY <2>1, <2>4
  <2> QED BY <2>5 DEF r
<1>6. CASE ~(keep >= count \/ m.dbl = 0) /\ keep # 0
  <2> DEFINE last == (count - 1) \div PPB
             F == [k \in 1..turns |-> [x \in Volumes |->
                     CutChild(x, m.dbl, first + k - 1, keep, count)]]
             G == [k \in 0..turns |-> {x \in Volumes :
                     CutsTo(v, m, x, m, ChildRegion(first, k), new, old)}]
  <2>0. r.v = after[turns] /\ r.m = m
    <3> HIDE DEF keep, count, turns, after, r
    <3> QED BY <1>1, <1>6
  <2>1. keep > 0 /\ keep < count /\ m.dbl # 0
    <3> HIDE DEF keep, count
    <3> QED BY <1>2, <1>6
  <2>2. /\ first \in Nat /\ last \in Nat /\ first <= last /\ last < PPB
        /\ ~InCut(-2, new, old)
        /\ \A c \in Slots : InCut(Child(c), new, old) => first <= c /\ c <= last
        /\ \A c, k \in Slots : InCut(Deep(c, k), new, old) => first <= c /\ c <= last
    BY <1>2, <2>1, CutChildren
  <2>3. turns \in Nat /\ turns = last - first + 1 /\ first + turns <= PPB
    <3>1. turns = last - first + 1
      OBVIOUS
    <3> HIDE DEF turns, last, first
    <3> QED BY <2>2, <3>1, Constants
  <2>4. \A k \in 0..turns : ChildRegion(first, k) \in SUBSET Spots
    <3> HIDE DEF turns, first
    <3> QED BY <2>2, <2>3, ChildRegionIs, Constants
  <2>5. v \in G[0]
    <3>1. ChildRegion(first, 0) = {}
      BY DEF ChildRegion
    <3>2. CutsTo(v, m, v, m, {}, new, old)
      BY CutsNothing
    <3>3. v \in Volumes
      BY DEF VolOK
    <3>4. 0 \in 0..turns
      <4> HIDE DEF turns
      <4> QED BY <2>3
    <3> HIDE DEF turns, first
    <3> QED BY <3>1, <3>2, <3>3, <3>4
  <2>6. ASSUME NEW k \in 1..turns, NEW x \in G[k - 1] PROVE F[k][x] \in G[k]
    <3> DEFINE c == first + k - 1
               y == CutChild(x, m.dbl, c, keep, count)
    <3>1. k - 1 \in 0..turns /\ k \in 0..turns /\ c \in Slots /\ first <= c /\ c <= last
      <4> HIDE DEF turns, first, last
      <4> QED BY <2>2, <2>3, Constants DEF Slots
    <3>2. x \in Volumes /\ CutsTo(v, m, x, m, ChildRegion(first, k - 1), new, old)
      <4> HIDE DEF turns
      <4> QED BY <2>6, <3>1
    <3>3. VolOK(x) /\ Tree(x, m) /\ Ends(x, m, old)
      BY <3>2, ThinnedKeeps DEF CutsTo, Kept
    <3> HIDE DEF c
    <3>4. CutsTo(x, m, y, m, ChildSpots(c), new, old)
      BY <1>2, <2>1, <3>1, <3>3, CutChildDone
    <3>5. F[k][x] = y
      <4> HIDE DEF turns, first, keep, count
      <4> QED BY <3>2 DEF c
    <3> HIDE DEF y, F
    <3>6. CutsTo(v, m, y, m, ChildRegion(first, k - 1) \cup ChildSpots(c), new, old)
      <4>1. ChildRegion(first, k - 1) \in SUBSET Spots /\ ChildSpots(c) \in SUBSET Spots
        BY <2>4, <3>1, ChildSpotsAre
      <4> HIDE DEF turns, first
      <4> QED BY <3>2, <3>4, <4>1, CutsTwice
    <3>7. ChildRegion(first, k) = ChildRegion(first, k - 1) \cup ChildSpots(c)
      <4>1. k \in Nat \ {0}
        <5> HIDE DEF turns
        <5> QED BY <2>3
      <4> QED BY <2>2, <4>1, ChildRegionGrows DEF c
    <3>8. y \in Volumes
      BY <3>4 DEF CutsTo, Kept, VolOK
    <3>9. CutsTo(v, m, y, m, ChildRegion(first, k), new, old)
      BY <3>6, <3>7
    <3> HIDE DEF turns, first
    <3> QED BY <3>1, <3>5, <3>8, <3>9
  <2>7. \A k \in 0..turns : G[k] \subseteq Volumes
    <3> HIDE DEF turns, first
    <3> QED OBVIOUS
  <2>8. Leads(F, G, turns)
    <3> HIDE DEF F, G, turns
    <3> QED BY <2>6 DEF Leads
  <2>9. \A k \in 1..turns : \A x \in Volumes :
          F[k][x] = CutChild(x, m.dbl, first + k - 1, keep, count)
    <3> HIDE DEF turns, first, keep, count
    <3> QED OBVIOUS
  <2>10. \A x \in G[turns] : CutsTo(v, m, x, m, ChildRegion(first, turns), new, old)
    <3> HIDE DEF turns, first
    <3> QED BY <2>3
  <2>11. turns \in Nat
    BY <2>3
  <2> HIDE DEF F, G, turns, keep, count, first, last, after, r
  <2>12. \E g : Eq(g)
    <3> HIDE DEF Eq
    <3>1. PICK g : Runs(g, F, v, turns) /\ g \in [0..turns -> Volumes]
      BY <2>5, <2>7, <2>8, <2>11, SomeRun
    <3>2. ASSUME NEW k \in 0..turns
          PROVE  g[k] = IF k = 0 THEN v
                        ELSE CutChild(g[k - 1], m.dbl, first + k - 1, keep, count)
      <4>1. CASE k = 0
        BY <3>1, <4>1 DEF Runs
      <4>2. CASE k # 0
        <5>1. k \in 1..turns /\ k - 1 \in 0..turns
          BY <2>11, <4>2
        <5>2. g[k] = F[k][g[k - 1]] /\ g[k - 1] \in Volumes
          BY <3>1, <5>1 DEF Runs
        <5> QED BY <2>9, <4>2, <5>1, <5>2
      <4> QED BY <4>1, <4>2
    <3>3. g = [k \in 0..turns |-> g[k]]
      BY <3>1
    <3>4. g = [k \in 0..turns |->
                 IF k = 0 THEN v ELSE CutChild(g[k - 1], m.dbl, first + k - 1, keep, count)]
      BY <3>2, <3>3
    <3>5. Eq(g)
      BY <3>4 DEF Eq
    <3> QED BY <3>5
  <2>13. Eq(after)
    <3> HIDE DEF Eq
    <3> QED BY Zenon, <2>12 DEF after
  <2> DEFINE T == {k \in 0..turns : after[k] \in G[k]}
  <2>14. after[0] = v
    BY <2>11, <2>13
  <2>15. ASSUME NEW k \in 0..turns - 1, k \in T PROVE k + 1 \in T
    <3>1. k + 1 \in 1..turns /\ k + 1 \in 0..turns /\ (k + 1) - 1 = k /\ k \in 0..turns
      BY <2>11
    <3>2. after[k] \in G[k] /\ after[k] \in Volumes
      BY <2>7, <2>15, <3>1
    <3>3. after[k + 1] = CutChild(after[k], m.dbl, first + (k + 1) - 1, keep, count)
      BY <2>11, <2>13, <3>1
    <3>4. F[k + 1][after[k]] = after[k + 1]
      BY <2>9, <3>1, <3>2, <3>3
    <3>5. F[k + 1][after[k]] \in G[k + 1]
      BY <2>8, <3>1, <3>2 DEF Leads
    <3> QED BY <3>1, <3>4, <3>5
  <2>16. 0 \in T
    BY <2>5, <2>11, <2>14
  <2> HIDE DEF T
  <2>17. 0..turns \subseteq T
    BY <2>11, <2>15, <2>16, UpTo
  <2>18. after[turns] \in G[turns]
    BY <2>11, <2>17 DEF T
  <2>19. CutsTo(v, m, after[turns], m, ChildRegion(first, turns), new, old)
    BY <2>10, <2>18
  <2>20. /\ ChildRegion(first, turns) \in SUBSET DoubleSpots
         /\ \A c \in Slots : first <= c /\ c < first + turns =>
              ChildSpots(c) \subseteq ChildRegion(first, turns)
    BY <2>2, <2>3, ChildRegionIs
  <2>21. ASSUME NEW p \in DoubleSpots, InCut(p, new, old) PROVE p \in ChildRegion(first, turns)
    <3>1. ASSUME NEW c \in Slots, first <= c, c <= last
          PROVE  ChildSpots(c) \subseteq ChildRegion(first, turns)
      <4>1. c < first + turns
        BY <2>2, <2>3, <3>1, Constants DEF Slots
      <4> QED BY <2>20, <3>1, <4>1
    <3>2. CASE p = -2
      BY <2>2, <2>21, <3>2
    <3>3. CASE \E c \in Slots : p = Child(c)
      BY <2>2, <2>21, <3>1, <3>3, ChildSpotsAre
    <3>4. CASE \E c, k \in Slots : p = Deep(c, k)
      BY <2>2, <2>21, <3>1, <3>4, ChildSpotsAre
    <3> QED BY <3>2, <3>3, <3>4, Regions
  <2>22. CutsTo(v, m, after[turns], m, DoubleSpots, new, old)
    <3> DEFINE x == after[turns]
               R == ChildRegion(first, turns)
    <3> HIDE DEF x, R
    <3>1. CutsTo(v, m, x, m, R, new, old)
      BY <2>19 DEF x, R
    <3>2. \A p \in Spots : p \notin DoubleSpots \/ First(p) < new => At(x, m, p) = At(v, m, p)
      <4>1. \A p \in Spots : p \notin R \/ First(p) < new => At(x, m, p) = At(v, m, p)
        BY <3>1 DEF CutsTo
      <4>2. R \in SUBSET DoubleSpots
        BY <2>20 DEF R
      <4> QED BY <4>1, <4>2
    <3>3. \A p \in DoubleSpots : InCut(p, new, old) => At(x, m, p) = 0
      <4>1. \A p \in R : InCut(p, new, old) => At(x, m, p) = 0
        BY <3>1 DEF CutsTo
      <4>2. \A p \in DoubleSpots : InCut(p, new, old) => p \in R
        BY <2>21 DEF R
      <4> QED BY <4>1, <4>2
    <3>4. CutsTo(v, m, x, m, DoubleSpots, new, old)
      BY <3>1, <3>2, <3>3 DEF CutsTo
    <3> QED BY <3>4 DEF x
  <2>23. CutsTo(v, m, r.v, r.m, DoubleSpots, new, old)
    BY <2>0, <2>22
  <2> QED BY <2>23 DEF r
<1> QED BY <1>4, <1>5, <1>6

-------------------------------------------------------------------------------
(* Words and blocks.                                                       *)

(* BlocksFor rounds up.                                                    *)
LEMMA BlockBound ==
  ASSUME NEW w \in Nat, NEW c \in Nat
  PROVE  /\ BlocksFor(w) \in Nat
         /\ c < BlocksFor(w) <=> c * PPB < w
         /\ c * PPB \in Nat
<1>1. w + PPB - 1 \in Nat
  BY Constants
<1>2. BlocksFor(w) = (w + PPB - 1) \div PPB
  BY DEF BlocksFor
<1>3. BlocksFor(w) \in Nat /\ c * PPB \in Nat
  BY <1>1, <1>2, DivLeast
<1>4. c + 1 <= BlocksFor(w) <=> (c + 1) * PPB <= w + PPB - 1
  BY <1>1, <1>2, DivLeast
<1>5. (c + 1) * PPB = c * PPB + PPB
  BY Constants
<1>6. c < BlocksFor(w) <=> c * PPB < w
  BY <1>3, <1>4, <1>5, Constants
<1> QED BY <1>3, <1>6

(* The block of a file that a word lies in, and its place there.           *)
Blk(x) == x \div PPB
Off(x) == x % PPB

LEMMA Digit ==
  ASSUME NEW x \in Nat
  PROVE  /\ Blk(x) \in Nat /\ Off(x) \in Slots
         /\ Off(x) \in Nat /\ Off(x) < PPB
         /\ x = Blk(x) * PPB + Off(x)
         /\ Blk(x) * PPB \in Nat
<1> DEFINE q == x \div PPB
           r == x % PPB
<1>1. q \in Nat /\ r \in 0..(PPB - 1) /\ x = PPB * q + r
  BY Constants, DivMod
<1>2. Blk(x) = q /\ Off(x) = r
  BY DEF Blk, Off
<1> HIDE DEF q, r
<1>3. PPB * q = q * PPB /\ q * PPB \in Nat
  BY <1>1, Constants
<1>4. q \in Nat /\ r \in Slots /\ r \in Nat /\ r < PPB /\ x = q * PPB + r /\ q * PPB \in Nat
  BY <1>1, <1>3, Constants DEF Slots
<1> QED BY <1>2, <1>4

(* Multiples of the block size keep their order.                           *)
LEMMA Multiples ==
  ASSUME NEW a \in Nat, NEW b \in Nat, a < b
  PROVE  /\ a * PPB + PPB <= b * PPB
         /\ a * PPB \in Nat /\ b * PPB \in Nat
<1>1. (a + 1) * PPB <= b * PPB
  <2>1. a + 1 <= b /\ a + 1 \in Nat
    OBVIOUS
  <2> DEFINE d == a + 1
  <2> HIDE DEF d
  <2>2. d \in Nat /\ d <= b => d * PPB <= b * PPB
    BY Constants
  <2> QED BY <2>1, <2>2 DEF d
<1>2. (a + 1) * PPB = a * PPB + PPB
  BY Constants
<1> QED BY <1>1, <1>2, Constants

(* Where the words of a file lie.                                          *)
Positions == 0..(Reach * PPB - 1)

(* A position within reach lies in a block within reach.                   *)
LEMMA PositionIs ==
  ASSUME NEW x \in Positions
  PROVE  /\ x \in Nat /\ Blk(x) \in 0..(Reach - 1) /\ Blk(x) \in Spots
         /\ Blk(x) \in Nat /\ Off(x) \in Slots
<1>1. x \in Nat /\ x < Reach * PPB /\ Reach * PPB \in Nat
  BY Constants, Products DEF Positions
<1>2. Blk(x) \in Nat /\ Off(x) \in Slots
  BY <1>1, Digit
<1>3. ~(Reach <= Blk(x))
  BY <1>1, DivLeast, Products DEF Blk
<1>4. Blk(x) \in 0..(Reach - 1) /\ Blk(x) \in Spots
  BY <1>2, <1>3, Constants, Products DEF Spots
<1> QED BY <1>1, <1>2, <1>4

(* A longer file has no fewer blocks.                                      *)
LEMMA BlocksGrow ==
  ASSUME NEW a \in Nat, NEW b \in Nat, a <= b
  PROVE  BlocksFor(a) <= BlocksFor(b)
<1>1. BlocksFor(a) \in Nat /\ BlocksFor(b) \in Nat
  BY BlockBound
<1>2. SUFFICES ASSUME BlocksFor(b) < BlocksFor(a) PROVE FALSE
  BY <1>1
<1>3. BlocksFor(b) * PPB < a /\ ~(BlocksFor(b) * PPB < b) /\ BlocksFor(b) * PPB \in Nat
  BY <1>1, <1>2, BlockBound
<1> QED BY <1>3

(* The last block of a file and its words.                                 *)
LEMMA LastBlock ==
  ASSUME NEW size \in Nat
  PROVE  /\ Off(size) = 0 => BlocksFor(size) = Blk(size)
         /\ Off(size) # 0 => BlocksFor(size) = Blk(size) + 1
<1> DEFINE q == Blk(size)
           r == Off(size)
           n == BlocksFor(size)
<1>1. q \in Nat /\ r \in 0..(PPB - 1) /\ size = q * PPB + r /\ q * PPB \in Nat
  BY Digit, Constants
<1>2. n \in Nat
  BY BlockBound
<1>3. /\ q < n <=> q * PPB < size
      /\ q + 1 < n <=> (q + 1) * PPB < size
      /\ q > 0 => (q - 1 < n <=> (q - 1) * PPB < size)
  <2> HIDE DEF q
  <2>1. q + 1 \in Nat /\ (q > 0 => q - 1 \in Nat)
    BY <1>1
  <2> QED BY <1>1, <2>1, BlockBound
<1> HIDE DEF q, r, n
<1>4. (q + 1) * PPB = q * PPB + PPB
  BY <1>1, Constants
<1>5. q > 0 => (q - 1) * PPB = q * PPB - PPB
  BY <1>1, Constants
<1>6. r = 0 => n = q
  <2>1. r = 0 => ~(q < n)
    BY <1>1, <1>3
  <2>2. r = 0 /\ q > 0 => q - 1 < n
    BY <1>1, <1>3, <1>5, Constants
  <2> QED BY <1>1, <1>2, <2>1, <2>2
<1>7. r # 0 => n = q + 1
  BY <1>1, <1>2, <1>3, <1>4, Constants
<1> QED BY <1>6, <1>7 DEF q, r, n

(* The words from a length on, in its last block and after it.             *)
LEMMA WordPlaces ==
  ASSUME NEW size \in Nat, NEW x \in Nat
  PROVE  /\ x < size => Blk(x) < BlocksFor(size)
         /\ x >= size /\ Off(size) = 0 => Blk(x) >= BlocksFor(size)
         /\ x >= size => Blk(x) >= BlocksFor(size) - 1
         /\ x >= size /\ Off(size) # 0 /\ Blk(x) = BlocksFor(size) - 1 =>
              Off(x) >= Off(size)
         /\ x < size /\ Off(size) # 0 /\ Blk(x) = BlocksFor(size) - 1 =>
              Off(x) < Off(size)
<1> DEFINE q == Blk(size)
           r == Off(size)
           n == BlocksFor(size)
           c == Blk(x)
           k == Off(x)
<1>1. q \in Nat /\ r \in 0..(PPB - 1) /\ size = q * PPB + r /\ q * PPB \in Nat
  BY Digit, Constants
<1>2. c \in Nat /\ k \in 0..(PPB - 1) /\ x = c * PPB + k /\ c * PPB \in Nat
  BY Digit, Constants
<1>3. n \in Nat /\ (c < n <=> c * PPB < size)
  BY <1>2, BlockBound
<1>4. (r = 0 => n = q) /\ (r # 0 => n = q + 1)
  BY LastBlock
<1>5. /\ c < q => c * PPB + PPB <= q * PPB
      /\ q < c => q * PPB + PPB <= c * PPB
      /\ c = q => c * PPB = q * PPB
  <2> HIDE DEF c, q
  <2> QED BY <1>1, <1>2, Multiples
<1> HIDE DEF q, r, n, c, k
<1> DEFINE P == c * PPB
           Q == q * PPB
<1> HIDE DEF P, Q
<1>6. /\ P \in Nat /\ Q \in Nat /\ size = Q + r /\ x = P + k
      /\ c < q => P + PPB <= Q
      /\ q < c => Q + PPB <= P
      /\ c = q => P = Q
      /\ c < n <=> P < size
  BY <1>1, <1>2, <1>3, <1>5 DEF P, Q
<1>7. x < size => c < n
  BY <1>1, <1>2, <1>3, <1>6, Constants
<1>8. x >= size => c >= q
  BY <1>1, <1>2, <1>6, Constants
<1>9. c = q => (x >= size <=> k >= r)
  BY <1>1, <1>2, <1>6, Constants
<1>10. /\ x >= size /\ r = 0 => c >= n
       /\ x >= size => c >= n - 1
       /\ x >= size /\ r # 0 /\ c = n - 1 => k >= r
       /\ x < size /\ r # 0 /\ c = n - 1 => k < r
  BY <1>1, <1>2, <1>3, <1>4, <1>8, <1>9, Constants
<1> QED BY <1>7, <1>10 DEF q, r, n, c, k

(* Shrunk, the three cuts one after the other, clears exactly what is      *)
(* needed only from the new end on.                                        *)
LEMMA ShrunkDone ==
  ASSUME NEW v, NEW i, i.map \in Maps, NEW new \in Nat, NEW old \in Nat, new < old, old <= Reach,
         VolOK(v), Tree(v, i.map), Ends(v, i.map, old)
  PROVE  CutsTo(v, i.map, Shrunk(v, i, new, old).v, Shrunk(v, i, new, old).m, Spots, new, old)
<1> DEFINE a == CutDirect(v, i.map, new, old)
           b == CutSingle(a.v, a.m, new, old)
           d == CutDouble(b.v, b.m, new, old)
<1>1. Shrunk(v, i, new, old) = d
  BY Zenon DEF Shrunk
<1>2. CutsTo(v, i.map, a.v, a.m, DirectSpots, new, old)
  BY CutDirectDone
<1> HIDE DEF a
<1>3. a.m \in Maps /\ VolOK(a.v) /\ Tree(a.v, a.m) /\ Ends(a.v, a.m, old)
  BY <1>2, ThinnedKeeps DEF CutsTo, Kept
<1>4. CutsTo(a.v, a.m, b.v, b.m, SingleSpots, new, old)
  BY <1>3, CutSingleDone
<1> HIDE DEF b
<1>5. b.m \in Maps /\ VolOK(b.v) /\ Tree(b.v, b.m) /\ Ends(b.v, b.m, old)
  BY <1>3, <1>4, ThinnedKeeps DEF CutsTo, Kept
<1>6. CutsTo(b.v, b.m, d.v, d.m, DoubleSpots, new, old)
  BY <1>5, CutDoubleDone
<1> HIDE DEF d
<1>7. DirectSpots \in SUBSET Spots /\ SingleSpots \in SUBSET Spots /\ DoubleSpots \in SUBSET Spots
  BY RegionsAre
<1>8. CutsTo(v, i.map, b.v, b.m, DirectSpots \cup SingleSpots, new, old)
  BY <1>2, <1>4, <1>7, CutsTwice
<1>9. CutsTo(v, i.map, d.v, d.m, (DirectSpots \cup SingleSpots) \cup DoubleSpots, new, old)
  <2>1. DirectSpots \cup SingleSpots \in SUBSET Spots
    BY <1>7
  <2> QED BY <1>6, <1>7, <1>8, <2>1, CutsTwice
<1>10. (DirectSpots \cup SingleSpots) \cup DoubleSpots = Spots
  BY <1>7, Regions DEF DirectSpots
<1> QED BY <1>1, <1>9, <1>10

(* The word that is read at position x, which of them a cut to size keeps, *)
(* that all are zero from size on, and that a file of n blocks has no      *)
(* hole.                                                                   *)
Word(v, m, x) == PtrAt(v, At(v, m, Blk(x)), Off(x))
Holds(v, m, w, n, size) ==
  \A x \in Positions : Word(w, n, x) = IF x < size THEN Word(v, m, x) ELSE 0
ZeroBeyond(v, m, size) == \A x \in Positions : x >= size => Word(v, m, x) = 0
Whole(v, m, n) == \A p \in Spots : First(p) < n => At(v, m, p) # 0

(* After a cut nothing is beyond the new end, and what is before it reads  *)
(* as it did.                                                              *)
LEMMA CutLeaves ==
  ASSUME NEW v, NEW m, NEW w, NEW n, NEW new \in Nat, NEW old \in Nat, new < old,
         CutsTo(v, m, w, n, Spots, new, old), Ends(v, m, old)
  PROVE  /\ Ends(w, n, new)
         /\ Trim(v, m, old) => Trim(w, n, new)
         /\ Whole(v, m, old) => Whole(w, n, new)
         /\ \A x \in Positions : Word(w, n, x) = IF Blk(x) < new THEN Word(v, m, x) ELSE 0
<1>1. /\ \A p \in Spots : First(p) < new => At(w, n, p) = At(v, m, p)
      /\ \A p \in Spots : InCut(p, new, old) => At(w, n, p) = 0
      /\ Thinned(v, m, w, n)
  BY DEF CutsTo
<1>2. \A p \in Spots : p \in Int /\ First(p) \in Nat /\ (p >= 0 => First(p) = p)
  BY SpotsAreInt
<1>3. Ends(w, n, new)
  <2>1. ASSUME NEW p \in Spots, p >= new, p >= 0 PROVE At(w, n, p) = 0
    <3>1. First(p) = p /\ p \in Int
      BY <1>2, <2>1
    <3>2. CASE p < old
      <4>1. InCut(p, new, old)
        BY <2>1, <3>1, <3>2 DEF InCut
      <4> QED BY <1>1, <4>1
    <3>3. CASE p >= old
      <4>1. At(v, m, p) = 0
        BY <2>1, <3>3 DEF Ends
      <4> QED BY <1>1, <4>1 DEF Thinned
    <3> QED BY <3>1, <3>2, <3>3
  <2> QED BY <2>1 DEF Ends
<1>4. ASSUME Trim(v, m, old) PROVE Trim(w, n, new)
  <2>1. ASSUME NEW p \in Spots, First(p) >= new PROVE At(w, n, p) = 0
    <3>1. First(p) \in Nat
      BY <1>2
    <3>2. CASE First(p) < old
      BY <1>1, <2>1, <3>2 DEF InCut
    <3>3. CASE First(p) >= old
      <4>1. At(v, m, p) = 0
        BY <1>4, <3>3 DEF Trim
      <4> QED BY <1>1, <4>1 DEF Thinned
    <3> QED BY <3>1, <3>2, <3>3
  <2> QED BY <2>1 DEF Trim
<1>5. ASSUME Whole(v, m, old) PROVE Whole(w, n, new)
  <2>1. ASSUME NEW p \in Spots, First(p) < new PROVE At(w, n, p) # 0
    <3>1. First(p) < old
      BY <1>2, <2>1
    <3> QED BY <1>1, <1>5, <2>1, <3>1 DEF Whole
  <2> QED BY <2>1 DEF Whole
<1>6. ASSUME NEW x \in Positions
      PROVE  Word(w, n, x) = IF Blk(x) < new THEN Word(v, m, x) ELSE 0
  <2> DEFINE l == Blk(x)
             k == Off(x)
  <2>1. l \in Spots /\ l \in Nat
    BY PositionIs
  <2>2. Word(w, n, x) = PtrAt(w, At(w, n, l), k) /\ Word(v, m, x) = PtrAt(v, At(v, m, l), k)
    BY DEF Word
  <2> HIDE DEF l, k
  <2>3. CASE l < new
    <3>1. At(w, n, l) = At(v, m, l)
      BY <1>1, <1>2, <2>1, <2>3
    <3>2. At(w, n, l) # 0 => w.disk[At(v, m, l)] = v.disk[At(v, m, l)]
      BY <1>1, <2>1 DEF Thinned
    <3>3. PtrAt(w, At(w, n, l), k) = PtrAt(v, At(v, m, l), k)
      BY <3>1, <3>2 DEF PtrAt
    <3> QED BY <2>2, <2>3, <3>3 DEF l
  <2>4. CASE ~(l < new)
    <3>1. At(w, n, l) = 0
      BY <1>3, <2>1, <2>4 DEF Ends
    <3>2. PtrAt(w, At(w, n, l), k) = 0
      BY <3>1 DEF PtrAt
    <3> QED BY <2>2, <2>4, <3>2 DEF l
  <2> QED BY <2>3, <2>4
<1> QED BY <1>3, <1>4, <1>5, <1>6

(* Writing a data block of a file touches nothing else.                    *)
LEMMA DataWritten ==
  ASSUME NEW v, NEW m, NEW l \in Spots, l >= 0, VolOK(v), m \in Maps, Tree(v, m),
         At(v, m, l) # 0, NEW words \in [Slots -> Words]
  PROVE  /\ Kept(v, m, Write(v, At(v, m, l), words), m)
         /\ \A p \in Spots : At(Write(v, At(v, m, l), words), m, p) = At(v, m, p)
         /\ Write(v, At(v, m, l), words).bitmap = v.bitmap
         /\ Write(v, At(v, m, l), words).disk[At(v, m, l)] = words
         /\ \A x \in Blocks \ {At(v, m, l)} : Write(v, At(v, m, l), words).disk[x] = v.disk[x]
         /\ Others(Write(v, At(v, m, l), words), m) = Others(v, m)
<1> DEFINE b == At(v, m, l)
           w == Write(v, b, words)
<1>1. b \in Blocks /\ b \in v.bitmap
  BY InBlocks
<1> HIDE DEF b
<1>2. /\ VolOK(w) /\ w.bitmap = v.bitmap /\ w.disk[b] = words
      /\ \A x \in Blocks \ {b} : w.disk[x] = v.disk[x]
  BY <1>1, WrittenTo
<1> HIDE DEF w
<1>3. ASSUME NEW p \in Spots, p < 0, At(v, m, p) # 0
      PROVE  w.disk[At(v, m, p)] = v.disk[At(v, m, p)]
  <2>1. At(v, m, p) \in Blocks
    BY <1>3, InBlocks
  <2>2. At(v, m, p) # b
    BY <1>3, SpotsAreInt DEF Tree, b
  <2> QED BY <1>2, <2>1, <2>2
<1>4. \A p \in Spots : At(w, m, p) = At(v, m, p)
  BY <1>3, MapSame
<1>5. Tree(w, m)
  BY <1>2, <1>4 DEF Tree
<1>6. Own(w, m) = Own(v, m)
  BY <1>4 DEF Own
<1>7. Others(w, m) = Others(v, m)
  BY <1>2, <1>6 DEF Others
<1>8. \A x \in Others(v, m) : x # b /\ x \in Blocks
  <2>1. b \in Own(v, m)
    BY DEF Own, b
  <2> QED BY <2>1, BitmapBlocks DEF Others
<1>9. Kept(v, m, w, m)
  BY <1>2, <1>5, <1>7, <1>8 DEF Kept
<1> QED BY <1>2, <1>4, <1>7, <1>9 DEF w, b

(* Nothing is owed when nothing changes.                                   *)
LEMMA KeptNothing ==
  ASSUME NEW v, NEW m, VolOK(v), m \in Maps, Tree(v, m)
  PROVE  Kept(v, m, v, m)
BY DEF Kept

(* What the map leads to, and everybody else's blocks, are as before.      *)
SameMap(v, m, w, n) ==
  /\ Kept(v, m, w, n)
  /\ \A p \in Spots : At(w, n, p) = At(v, m, p)
  /\ Others(w, n) = Others(v, m)

(* ZeroTail makes the words after the new end in the last block zero.      *)
LEMMA ZeroTailDone ==
  ASSUME NEW v, NEW m, NEW size \in Nat, BlocksFor(size) <= Reach,
         VolOK(v), m \in Maps, Tree(v, m), Ends(v, m, BlocksFor(size))
  PROVE  SameMap(v, m, ZeroTail(v, m, size), m) /\ Holds(v, m, ZeroTail(v, m, size), m, size)
<1> DEFINE l == BlocksFor(size) - 1
           b == LogicalToPhysical(v, m, l)
           words == [k \in Slots |-> IF k >= Off(size) THEN 0 ELSE v.disk[b][k]]
           w == ZeroTail(v, m, size)
<1>1. w = IF Off(size) = 0 \/ b = 0 THEN v ELSE Write(v, b, words)
  BY Zenon DEF ZeroTail, Off
<1>2. BlocksFor(size) \in Nat /\ Off(size) \in Nat
  BY BlockBound, Digit
<1>3. ASSUME NEW x \in Positions
      PROVE  /\ x \in Nat /\ Blk(x) \in Nat /\ Blk(x) \in Spots /\ Off(x) \in Slots
             /\ x < size => Blk(x) < BlocksFor(size)
             /\ x >= size /\ Off(size) = 0 => Blk(x) >= BlocksFor(size)
             /\ x >= size => Blk(x) >= BlocksFor(size) - 1
             /\ x >= size /\ Off(size) # 0 /\ Blk(x) = BlocksFor(size) - 1 => Off(x) >= Off(size)
             /\ x < size /\ Off(size) # 0 /\ Blk(x) = BlocksFor(size) - 1 => Off(x) < Off(size)
  BY <1>3, PositionIs, WordPlaces
<1>4. ASSUME NEW x \in Positions, Blk(x) >= BlocksFor(size) PROVE At(v, m, Blk(x)) = 0
  BY <1>3, <1>4 DEF Ends
<1>5. CASE Off(size) = 0
  <2>1. w = v
    BY <1>1, <1>5
  <2>2. ASSUME NEW x \in Positions, x >= size PROVE Word(v, m, x) = 0
    <3>1. At(v, m, Blk(x)) = 0
      BY <1>3, <1>4, <1>5, <2>2
    <3> QED BY <3>1 DEF Word, PtrAt
  <2>3. Holds(v, m, v, m, size)
    BY <1>3, <2>2 DEF Holds
  <2>4. SameMap(v, m, v, m)
    BY KeptNothing DEF SameMap
  <2> HIDE DEF w
  <2>5. SameMap(v, m, w, m) /\ Holds(v, m, w, m, size)
    BY <2>1, <2>3, <2>4
  <2> QED BY <2>5 DEF w
<1>6. CASE Off(size) # 0
  <2>1. l \in Nat /\ l \in Spots /\ b = At(v, m, l)
    <3>1. BlocksFor(size) = Blk(size) + 1 /\ Blk(size) \in Nat
      BY <1>6, LastBlock, Digit
    <3>2. l \in Nat /\ l \in Spots
      BY <3>1, Constants, Products DEF Spots
    <3> HIDE DEF l
    <3> QED BY <3>2 DEF At
  <2>2. l = BlocksFor(size) - 1
    OBVIOUS
  <2> HIDE DEF l
  <2>3. CASE b = 0
    <3>1. w = v
      BY <1>1, <2>3
    <3>2. ASSUME NEW x \in Positions, x >= size PROVE Word(v, m, x) = 0
      <4>1. At(v, m, Blk(x)) = 0
        <5>1. Blk(x) = l \/ Blk(x) >= BlocksFor(size)
          BY <1>2, <1>3, <2>2, <3>2
        <5> QED BY <1>4, <2>1, <2>3, <5>1
      <4> QED BY <4>1 DEF Word, PtrAt
    <3>3. Holds(v, m, v, m, size)
      BY <1>3, <3>2 DEF Holds
    <3>4. SameMap(v, m, v, m)
      BY KeptNothing DEF SameMap
    <3> HIDE DEF w
    <3>5. SameMap(v, m, w, m) /\ Holds(v, m, w, m, size)
      BY <3>1, <3>3, <3>4
    <3> QED BY <3>5 DEF w
  <2>4. CASE b # 0
    <3>1. w = Write(v, At(v, m, l), words)
      BY <1>1, <1>6, <2>1, <2>4
    <3>2. b \in Blocks
      BY <2>1, <2>4, InBlocks
    <3>3. v.disk[b] \in [Slots -> Words] /\ 0 \in Words
      BY <3>2, DiskWords, WordsAre, Constants
    <3> HIDE DEF b
    <3>4. words \in [Slots -> Words]
      BY <3>3
    <3>5. \A k \in Slots : words[k] = IF k >= Off(size) THEN 0 ELSE v.disk[b][k]
      OBVIOUS
    <3> HIDE DEF words, w
    <3>6. At(v, m, l) # 0 /\ l >= 0
      BY <2>1, <2>4
    <3>7. /\ Kept(v, m, w, m) /\ \A p \in Spots : At(w, m, p) = At(v, m, p)
          /\ Others(w, m) = Others(v, m) /\ w.disk[b] = words
          /\ \A x \in Blocks \ {b} : w.disk[x] = v.disk[x]
      BY <2>1, <3>1, <3>4, <3>6, DataWritten
    <3>8. ASSUME NEW x \in Positions
          PROVE  Word(w, m, x) = IF x < size THEN Word(v, m, x) ELSE 0
      <4>1. At(w, m, Blk(x)) = At(v, m, Blk(x))
        BY <1>3, <3>7
      <4>2. Word(w, m, x) = PtrAt(w, At(v, m, Blk(x)), Off(x))
        BY <4>1 DEF Word
      <4>3. CASE Blk(x) = l
        <5>1. Word(w, m, x) = words[Off(x)]
          BY <2>1, <2>4, <3>7, <4>2, <4>3 DEF PtrAt
        <5>2. Word(v, m, x) = v.disk[b][Off(x)]
          BY <2>1, <2>4, <4>3 DEF PtrAt, Word
        <5>3. x < size <=> ~(Off(x) >= Off(size))
          <6>1. Off(x) \in Int
            BY <1>3, Constants DEF Slots
          <6> QED BY <1>2, <1>3, <1>6, <2>2, <4>3, <6>1
        <5> QED BY <1>3, <3>5, <5>1, <5>2, <5>3
      <4>4. CASE Blk(x) # l
        <5>1. At(v, m, Blk(x)) # 0 => w.disk[At(v, m, Blk(x))] = v.disk[At(v, m, Blk(x))]
          <6>1. ASSUME At(v, m, Blk(x)) # 0
                PROVE  At(v, m, Blk(x)) \in Blocks /\ At(v, m, Blk(x)) # b
            BY <1>3, <2>1, <4>4, <6>1, InBlocks DEF Tree
          <6> QED BY <3>7, <6>1
        <5>2. Word(w, m, x) = Word(v, m, x)
          BY <4>2, <5>1 DEF Word, PtrAt
        <5>3. x >= size => Word(v, m, x) = 0
          <6>1. x >= size => Blk(x) >= BlocksFor(size)
            BY <1>2, <1>3, <2>2, <4>4
          <6>2. x >= size => At(v, m, Blk(x)) = 0
            BY <1>4, <6>1
          <6> QED BY <6>2 DEF Word, PtrAt
        <5> QED BY <1>3, <5>2, <5>3
      <4> QED BY <4>3, <4>4
    <3>9. SameMap(v, m, w, m) /\ Holds(v, m, w, m, size)
      BY <3>7, <3>8 DEF SameMap, Holds
    <3> QED BY <3>9 DEF w
  <2> QED BY <2>3, <2>4
<1> QED BY <1>5, <1>6

-------------------------------------------------------------------------------
(* Truncate as a whole.                                                    *)

(* The inodes.                                                             *)
Nodes == [live : BOOLEAN, size : Nat, iblocks : Nat, map : Maps]

(* i_blocks is a natural number.                                           *)
LEMMA IBlocksNat ==
  ASSUME NEW nb \in Nat
  PROVE  IBlocks(nb) \in Nat
<1> DEFINE a == IF nb > NDirect THEN 1 ELSE 0
           q == (nb - NDirect - PPB + PPB - 1) \div PPB
           d == IF nb > NDirect + PPB THEN 1 + q ELSE 0
<1>1. a \in Nat
  BY Constants
<1>2. d \in Nat
  <2>1. nb > NDirect + PPB => nb - NDirect - PPB + PPB - 1 \in Nat
    BY Constants
  <2>2. nb > NDirect + PPB => q \in Nat
    BY <2>1, DivLeast
  <2> HIDE DEF q
  <2> QED BY <2>2
<1>3. IBlocks(nb) = nb + a + d
  BY DEF IBlocks
<1> HIDE DEF a, d
<1> QED BY <1>1, <1>2, <1>3

(* A file is in order: its map, its words and its end.                     *)
InOrder(v, i) ==
  /\ i \in Nodes /\ BlocksFor(i.size) <= Reach
  /\ Tree(v, i.map) /\ Ends(v, i.map, BlocksFor(i.size)) /\ ZeroBeyond(v, i.map, i.size)

(* A file without holes, whose i_blocks counts its blocks.                 *)
NoHoles(v, i) ==
  Whole(v, i.map, BlocksFor(i.size)) /\ i.iblocks = IBlocks(BlocksFor(i.size))

(* What Truncate leaves: the words before the new end, zeros after it.     *)
Resized(v, i, w, j, size) ==
  /\ Kept(v, i.map, w, j.map)
  /\ InOrder(w, j) /\ j.size = size /\ j.live = i.live
  /\ Holds(v, i.map, w, j.map, size)
  /\ Trim(v, i.map, BlocksFor(i.size)) =>
       Others(w, j.map) = Others(v, i.map) /\ Trim(w, j.map, BlocksFor(size))
  /\ size <= i.size /\ NoHoles(v, i) => NoHoles(w, j)

(* The same map in the same volume reads the same.                         *)
LEMMA SameMapReads ==
  ASSUME NEW v, NEW m, NEW w, NEW n, NEW k, SameMap(v, m, w, n)
  PROVE  /\ Ends(v, m, k) => Ends(w, n, k)
         /\ Trim(v, m, k) => Trim(w, n, k)
         /\ Whole(v, m, k) => Whole(w, n, k)
BY DEF SameMap, Ends, Trim, Whole

LEMMA HoldsEnds ==
  ASSUME NEW v, NEW m, NEW w, NEW n, NEW size \in Nat, Holds(v, m, w, n, size)
  PROVE  ZeroBeyond(w, n, size)
BY DEF Holds, ZeroBeyond, Positions

(* What ends early ends later too.                                         *)
LEMMA EndsLater ==
  ASSUME NEW v, NEW m, NEW a \in Nat, NEW b \in Nat, a <= b
  PROVE  /\ Ends(v, m, a) => Ends(v, m, b)
         /\ Trim(v, m, a) => Trim(v, m, b)
<1>1. \A p \in Spots : p \in Int /\ First(p) \in Nat
  BY SpotsAreInt
<1>2. \A p \in Spots : (p >= b => p >= a) /\ (First(p) >= b => First(p) >= a)
  BY <1>1
<1> QED BY <1>2 DEF Ends, Trim

(* Truncate does what Resized says, shorter or longer                      *)
(* (writer.adb:774-853).                                                   *)
LEMMA TruncatedDone ==
  ASSUME NEW v, NEW i, VolOK(v), InOrder(v, i), NEW size \in Nat, BlocksFor(size) <= Reach
  PROVE  Resized(v, i, Truncated(v, i, size).v, Truncated(v, i, size).i, size)
<1> DEFINE new == BlocksFor(size)
           old == BlocksFor(i.size)
           s == IF new < old THEN Shrunk(v, i, new, old) ELSE [v |-> v, m |-> i.map]
           ib == IF new < old THEN IBlocks(new) ELSE i.iblocks
           t == Truncated(v, i, size)
           m == i.map
<1>1. /\ t.v = IF size < i.size THEN ZeroTail(s.v, s.m, size) ELSE s.v
      /\ t.i = [i EXCEPT !.size = size, !.map = s.m, !.iblocks = ib]
  BY Zenon DEF Truncated
<1>2. /\ i \in Nodes /\ m \in Maps /\ i.size \in Nat /\ old <= Reach /\ i.iblocks \in Nat
      /\ Tree(v, m) /\ Ends(v, m, old) /\ ZeroBeyond(v, m, i.size)
  BY DEF InOrder, Nodes
<1>3. new \in Nat /\ old \in Nat /\ ib \in Nat
  BY <1>2, BlockBound, IBlocksNat
<1>4. size >= i.size => new >= old
  BY <1>2, BlocksGrow
<1>5. size <= i.size => new <= old
  BY <1>2, BlocksGrow
<1>6. /\ Kept(v, m, s.v, s.m) /\ Ends(s.v, s.m, new)
      /\ Trim(v, m, old) => Others(s.v, s.m) = Others(v, m) /\ Trim(s.v, s.m, new)
      /\ size <= i.size /\ Whole(v, m, old) => Whole(s.v, s.m, new)
      /\ \A x \in Positions :
           Word(s.v, s.m, x) = IF Blk(x) < new \/ new >= old THEN Word(v, m, x) ELSE 0
  <2>1. CASE new < old
    <3>1. s = Shrunk(v, i, new, old)
      BY <2>1
    <3> HIDE DEF new, old
    <3>2. CutsTo(v, m, Shrunk(v, i, new, old).v, Shrunk(v, i, new, old).m, Spots, new, old)
      BY <1>2, <1>3, <2>1, ShrunkDone
    <3> HIDE DEF s, m
    <3>3. CutsTo(v, m, s.v, s.m, Spots, new, old)
      BY <3>1, <3>2
    <3>4. /\ Ends(s.v, s.m, new)
          /\ Trim(v, m, old) => Trim(s.v, s.m, new)
          /\ Whole(v, m, old) => Whole(s.v, s.m, new)
          /\ \A x \in Positions : Word(s.v, s.m, x) = IF Blk(x) < new THEN Word(v, m, x) ELSE 0
      BY <1>2, <1>3, <2>1, <3>3, CutLeaves
    <3> QED BY <1>3, <2>1, <3>3, <3>4 DEF CutsTo
  <2>2. CASE ~(new < old)
    <3>1. s.v = v /\ s.m = m
      BY <2>2
    <3> HIDE DEF new, old, s, m
    <3>2. Kept(v, m, v, m)
      BY <1>2, KeptNothing
    <3>3. new >= old
      BY <1>3, <2>2
    <3>4. Ends(v, m, new) /\ (Trim(v, m, old) => Trim(v, m, new))
      BY <1>2, <1>3, <3>3, EndsLater
    <3>5. size <= i.size /\ Whole(v, m, old) => Whole(v, m, new)
      <4>1. size <= i.size => new = old
        BY <1>3, <1>5, <3>3
      <4> QED BY <4>1
    <3> QED BY <3>1, <3>2, <3>3, <3>4, <3>5
  <2> QED BY <2>1, <2>2
<1>7. s.m \in Maps /\ VolOK(s.v) /\ Tree(s.v, s.m)
  BY <1>6 DEF Kept
<1>8. t.i \in Nodes /\ t.i.size = size /\ t.i.map = s.m /\ t.i.iblocks = ib /\ t.i.live = i.live
  <2> HIDE DEF s, ib, t, new, old, m
  <2> DEFINE k == s.m
  <2>1. t.i = [i EXCEPT !.size = size, !.map = k, !.iblocks = ib] /\ k \in Maps
    BY <1>1, <1>7
  <2> HIDE DEF k
  <2>2. t.i \in Nodes /\ t.i.size = size /\ t.i.map = k /\ t.i.iblocks = ib /\ t.i.live = i.live
    BY <1>2, <1>3, <2>1 DEF Nodes
  <2> QED BY <2>2 DEF k
<1> DEFINE w == t.v
<1>9. SameMap(s.v, s.m, w, s.m) /\ Holds(v, m, w, s.m, size)
  <2>1. CASE size < i.size
    <3>1. w = ZeroTail(s.v, s.m, size)
      BY <1>1, <2>1
    <3> HIDE DEF s, w, m, new, old
    <3>2. SameMap(s.v, s.m, w, s.m) /\ Holds(s.v, s.m, w, s.m, size)
      BY <1>6, <1>7, <3>1, ZeroTailDone DEF new
    <3>3. ASSUME NEW x \in Positions
          PROVE  Word(w, s.m, x) = IF x < size THEN Word(v, m, x) ELSE 0
      <4>1. Word(w, s.m, x) = IF x < size THEN Word(s.v, s.m, x) ELSE 0
        BY <3>2 DEF Holds
      <4>2. x < size => Blk(x) < new
        BY PositionIs, WordPlaces DEF new
      <4>3. x < size => Word(s.v, s.m, x) = Word(v, m, x)
        BY <1>6, <4>2
      <4> QED BY <4>1, <4>3
    <3> QED BY <3>2, <3>3 DEF Holds
  <2>2. CASE ~(size < i.size)
    <3>1. w = s.v
      BY <1>1, <2>2
    <3> HIDE DEF s, w, m, new, old
    <3>2. SameMap(s.v, s.m, w, s.m)
      BY <1>7, <3>1, KeptNothing DEF SameMap
    <3>3. new >= old
      BY <1>2, <1>4, <2>2
    <3>4. ASSUME NEW x \in Positions
          PROVE  Word(w, s.m, x) = IF x < size THEN Word(v, m, x) ELSE 0
      <4>1. Word(w, s.m, x) = Word(v, m, x)
        BY <1>6, <3>1, <3>3
      <4>2. x >= size => x >= i.size
        BY <1>2, <2>2, PositionIs
      <4>3. x >= size => Word(v, m, x) = 0
        BY <1>2, <4>2 DEF ZeroBeyond
      <4>4. x \in Nat
        BY PositionIs
      <4> QED BY <4>1, <4>3, <4>4
    <3> QED BY <3>2, <3>4 DEF Holds
  <2> QED BY <2>1, <2>2
<1> HIDE DEF s, w, m, new, old, ib
<1>10. /\ Ends(w, s.m, new) /\ Kept(v, m, w, s.m)
       /\ Trim(v, m, old) => Others(w, s.m) = Others(v, m) /\ Trim(w, s.m, new)
       /\ size <= i.size /\ Whole(v, m, old) => Whole(w, s.m, new)
  <2>1. Kept(v, m, w, s.m)
    BY <1>6, <1>9, KeptTwice DEF SameMap
  <2>2. Others(w, s.m) = Others(s.v, s.m)
    BY <1>9 DEF SameMap
  <2>3. Ends(w, s.m, new)
    BY <1>6, <1>9, SameMapReads
  <2>4. Trim(s.v, s.m, new) => Trim(w, s.m, new)
    BY <1>9, SameMapReads
  <2>5. Whole(s.v, s.m, new) => Whole(w, s.m, new)
    BY <1>9, SameMapReads
  <2> QED BY <1>6, <2>1, <2>2, <2>3, <2>4, <2>5
<1>11. ZeroBeyond(w, s.m, size)
  BY <1>9, HoldsEnds
<1>12. size <= i.size /\ i.iblocks = IBlocks(old) => ib = IBlocks(new)
  BY <1>3, <1>5 DEF ib
<1> HIDE DEF t
<1>13. InOrder(w, t.i)
  <2>1. Tree(w, s.m)
    BY <1>10 DEF Kept
  <2> QED BY <1>8, <1>10, <1>11, <2>1 DEF InOrder, new
<1>14. size <= i.size /\ NoHoles(v, i) => NoHoles(w, t.i)
  BY <1>8, <1>10, <1>12 DEF NoHoles, m, old, new
<1>15. Resized(v, i, w, t.i, size)
  BY <1>8, <1>9, <1>10, <1>13, <1>14 DEF Resized, m, old, new
<1> QED BY <1>15 DEF w, t

-------------------------------------------------------------------------------
(* Append: a block is planted where the map has none.                      *)

(* A file that gets blocks on the way to block l loses nothing.            *)
Stays(v, m, w, n) ==
  \A p \in Spots : At(v, m, p) # 0 =>
    /\ At(w, n, p) = At(v, m, p)
    /\ p >= 0 => w.disk[At(v, m, p)] = v.disk[At(v, m, p)]

(* One more data block, at l, and the pointer blocks it needs.             *)
Grown(v, m, w, n, l) ==
  /\ Kept(v, m, w, n) /\ Others(w, n) = Others(v, m)
  /\ Stays(v, m, w, n)
  /\ \A p \in Spots : At(w, n, p) # At(v, m, p) => First(p) <= l /\ (p >= 0 => p = l)

(* Growing composes, and may add nothing.                                  *)
LEMMA GrownTwice ==
  ASSUME NEW v, NEW m, NEW w, NEW n, NEW u, NEW a, NEW l,
         Grown(v, m, w, n, l), Grown(w, n, u, a, l)
  PROVE  Grown(v, m, u, a, l)
<1>1. Kept(v, m, u, a) /\ Others(u, a) = Others(v, m)
  BY KeptTwice DEF Grown
<1>2. Stays(v, m, u, a)
  BY DEF Grown, Stays
<1>3. \A p \in Spots : At(u, a, p) # At(v, m, p) => First(p) <= l /\ (p >= 0 => p = l)
  BY DEF Grown
<1> QED BY <1>1, <1>2, <1>3 DEF Grown

LEMMA GrownNothing ==
  ASSUME NEW v, NEW m, NEW l, VolOK(v), m \in Maps, Tree(v, m)
  PROVE  Grown(v, m, v, m, l)
BY DEF Grown, Stays, Kept

(* One block more, at a spot that was empty.                               *)
Planted(v, m, w, n, q, b) ==
  /\ q \in Spots /\ At(v, m, q) = 0
  /\ b \in Blocks /\ b \notin v.bitmap /\ b # 0 /\ w.bitmap = v.bitmap \cup {b}
  /\ At(w, n, q) = b /\ \A p \in Spots \ {q} : At(w, n, p) = At(v, m, p)
  /\ \A x \in Blocks \ {b} :
       (\A p \in Spots : p < 0 => At(v, m, p) # x) => w.disk[x] = v.disk[x]

(* A new block planted at a free spot leaves the rest of the tree as it    *)
(* was.                                                                    *)
LEMMA PlantedGrows ==
  ASSUME NEW v, NEW m, NEW w, NEW n, NEW q, NEW b, NEW l, VolOK(v), Tree(v, m), VolOK(w),
         n \in Maps, Planted(v, m, w, n, q, b), First(q) <= l, q >= 0 => q = l
  PROVE  Grown(v, m, w, n, l)
<1>1. /\ q \in Spots /\ At(v, m, q) = 0
      /\ b \in Blocks /\ b \notin v.bitmap /\ b # 0 /\ w.bitmap = v.bitmap \cup {b}
      /\ At(w, n, q) = b /\ \A p \in Spots : p # q => At(w, n, p) = At(v, m, p)
      /\ \A x \in Blocks : x # b /\ (\A p \in Spots : p < 0 => At(v, m, p) # x) =>
           w.disk[x] = v.disk[x]
  BY DEF Planted
<1>2. \A p \in Spots : At(v, m, p) # b
  BY <1>1 DEF Tree
<1>3. Tree(w, n)
  <2>1. \A p \in Spots : At(w, n, p) # 0 => At(w, n, p) \in w.bitmap
    BY <1>1 DEF Tree
  <2>2. \A p, r \in Spots : At(w, n, p) = At(w, n, r) /\ At(w, n, p) # 0 => p = r
    BY <1>1, <1>2 DEF Tree
  <2> QED BY <2>1, <2>2 DEF Tree
<1>4. Others(w, n) = Others(v, m)
  <2>1. Own(w, n) = Own(v, m) \cup {b}
    BY <1>1 DEF Own
  <2> QED BY <1>1, <2>1 DEF Others
<1>5. ASSUME NEW x \in Others(v, m) PROVE w.disk[x] = v.disk[x]
  <2>1. x \in v.bitmap /\ x \in Blocks /\ x # 0 /\ x # b
    BY <1>1, BitmapBlocks DEF Others
  <2>2. \A p \in Spots : At(v, m, p) # x
    BY <2>1 DEF Others, Own
  <2> QED BY <1>1, <2>1, <2>2
<1>6. Kept(v, m, w, n)
  BY <1>3, <1>4, <1>5 DEF Kept
<1>7. ASSUME NEW p \in Spots, At(v, m, p) # 0
      PROVE  /\ At(w, n, p) = At(v, m, p)
             /\ p >= 0 => w.disk[At(v, m, p)] = v.disk[At(v, m, p)]
  <2>1. p # q
    BY <1>1, <1>7
  <2>2. At(v, m, p) \in Blocks /\ At(v, m, p) # b
    BY <1>2, <1>7, InBlocks
  <2>3. p >= 0 => \A r \in Spots : r < 0 => At(v, m, r) # At(v, m, p)
    <3>1. ASSUME p >= 0, NEW r \in Spots, r < 0 PROVE At(v, m, r) # At(v, m, p)
      <4>1. r # p
        BY <3>1, SpotsAreInt
      <4> QED BY <1>7, <4>1 DEF Tree
    <3> QED BY <3>1
  <2> QED BY <1>1, <2>1, <2>2, <2>3
<1>8. Stays(v, m, w, n)
  BY <1>7 DEF Stays
<1>9. \A p \in Spots : At(w, n, p) # At(v, m, p) => First(p) <= l /\ (p >= 0 => p = l)
  BY <1>1
<1> QED BY <1>4, <1>6, <1>8, <1>9 DEF Grown

(* The steps of Append, and what each does to its state.                   *)
States == [v : Volumes, m : Maps, ok : BOOLEAN, pos : Nat, left : Nat]

StateOK(s) == s \in States /\ VolOK(s.v) /\ Tree(s.v, s.m)

(* What each of the steps of Append does to a state, towards block l.      *)
Goes(s, t, l) ==
  /\ StateOK(t) /\ t.pos = s.pos /\ t.left = s.left
  /\ Grown(s.v, s.m, t.v, t.m, l)
  /\ ~t.ok => At(t.v, t.m, l) = At(s.v, s.m, l)

(* A step that finds its block, or finds no room, changes nothing.         *)
LEMMA GoesNowhere ==
  ASSUME NEW s, NEW l, StateOK(s)
  PROVE  Goes(s, s, l)
<1>1. s.m \in Maps
  BY DEF StateOK, States
<1> QED BY <1>1, GrownNothing DEF Goes, StateOK

LEMMA FailsIs ==
  ASSUME NEW s, NEW l, StateOK(s)
  PROVE  Goes(s, Fails(s), l) /\ ~Fails(s).ok
<1> DEFINE t == Fails(s)
<1>1. t \in States /\ t.v = s.v /\ t.m = s.m /\ t.pos = s.pos /\ t.left = s.left /\ t.ok = FALSE
  BY DEF StateOK, States, Fails
<1> HIDE DEF t
<1>2. s.m \in Maps
  BY DEF StateOK, States
<1>3. VolOK(s.v) /\ Tree(s.v, s.m)
  BY DEF StateOK
<1>4. Grown(s.v, s.m, s.v, s.m, l)
  BY <1>2, <1>3, GrownNothing
<1>5. StateOK(t)
  BY <1>1, <1>3 DEF StateOK
<1>6. Goes(s, t, l)
  BY <1>1, <1>4, <1>5 DEF Goes
<1> QED BY <1>1, <1>6 DEF t

(* A step that sets the volume or the map alone.                           *)
LEMMA SetVolume ==
  ASSUME NEW s \in States, NEW w \in Volumes
  PROVE  LET t == [s EXCEPT !.v = w]
         IN t \in States /\ t.v = w /\ t.m = s.m /\ t.ok = s.ok /\ t.pos = s.pos /\ t.left = s.left
BY DEF States

LEMMA SetMap ==
  ASSUME NEW s \in States, NEW w \in Volumes, NEW n \in Maps
  PROVE  LET t == [s EXCEPT !.v = w, !.m = n]
         IN t \in States /\ t.v = w /\ t.m = n /\ t.ok = s.ok /\ t.pos = s.pos /\ t.left = s.left
BY DEF States

(* A block is taken for a spot: what is common to the five cases.          *)
LEMMA NewBlock ==
  ASSUME NEW v, NEW m, VolOK(v), Tree(v, m), HasSpace(v)
  PROVE  /\ Lowest(v) \in Blocks /\ Lowest(v) \notin v.bitmap /\ Lowest(v) # 0
         /\ Lowest(v) \in 0..NBlocks /\ Lowest(v) \in Words
         /\ \A p \in Spots : At(v, m, p) # Lowest(v)
<1>1. Lowest(v) \in Blocks /\ Lowest(v) \notin v.bitmap /\ Lowest(v) # 0
  BY LowestFree
<1>2. Lowest(v) \in 0..NBlocks
  BY <1>1, Constants DEF Blocks
<1>3. Lowest(v) \in Words
  BY <1>2, WordsAre
<1>4. \A p \in Spots : At(v, m, p) # Lowest(v)
  BY <1>1 DEF Tree
<1> QED BY <1>1, <1>2, <1>3, <1>4

(* Planting at each kind of spot.                                          *)
LEMMA PlantedDirect ==
  ASSUME NEW v, NEW m \in Maps, NEW l \in 0..(NDirect - 1), VolOK(v), Tree(v, m), HasSpace(v),
         m.direct[l] = 0
  PROVE  LET n == [m EXCEPT !.direct[l] = Lowest(v)]
         IN /\ Planted(v, m, AllocBlock(v), n, l, Lowest(v)) /\ n \in Maps
            /\ VolOK(AllocBlock(v))
<1> DEFINE b == Lowest(v)
           w == AllocBlock(v)
           n == [m EXCEPT !.direct[l] = b]
<1>1. b \in Blocks /\ b \notin v.bitmap /\ b # 0 /\ b \in 0..NBlocks
  BY NewBlock
<1>2. VolOK(w) /\ w.bitmap = v.bitmap \cup {b} /\ w.disk = v.disk
  BY Allocated
<1> HIDE DEF b, w
<1>3. /\ n \in Maps /\ n.ind = m.ind /\ n.dbl = m.dbl /\ n.direct[l] = b
      /\ \A p \in 0..(NDirect - 1) : p # l => n.direct[p] = m.direct[p]
  BY <1>1 DEF Maps
<1> HIDE DEF n
<1>4. At(v, m, l) = 0 /\ l \in Spots /\ At(w, n, l) = b
  BY <1>3, AtDirect, DirectIs
<1>5. \A p \in 0..(NDirect - 1) : p # l => At(w, n, p) = At(v, m, p)
  BY <1>3, AtDirect
<1>6. \A p \in SingleSpots : At(w, n, p) = At(v, m, p)
  <2>1. m.ind # 0 => w.disk[m.ind] = v.disk[m.ind]
    BY <1>2
  <2>2. n.ind = m.ind
    BY <1>3
  <2> QED BY <2>1, <2>2, SingleSame, SMTT(20)
<1>7. \A p \in DoubleSpots : At(w, n, p) = At(v, m, p)
  <2>1. m.dbl # 0 => w.disk[m.dbl] = v.disk[m.dbl]
    BY <1>2
  <2>2. \A c \in Slots : PtrAt(v, m.dbl, c) # 0 =>
          w.disk[PtrAt(v, m.dbl, c)] = v.disk[PtrAt(v, m.dbl, c)]
    BY <1>2
  <2> QED BY <1>3, <2>1, <2>2, DoubleSame
<1>8. \A p \in Spots \ {l} : At(w, n, p) = At(v, m, p)
  BY <1>5, <1>6, <1>7, Regions
<1>9. Planted(v, m, w, n, l, b)
  BY <1>1, <1>2, <1>4, <1>8 DEF Planted
<1> QED BY <1>2, <1>3, <1>9 DEF n, b, w

LEMMA PlantedInd ==
  ASSUME NEW v, NEW m \in Maps, VolOK(v), Tree(v, m), HasSpace(v), m.ind = 0
  PROVE  LET n == [m EXCEPT !.ind = Lowest(v)]
         IN /\ Planted(v, m, NewPointers(v), n, -1, Lowest(v)) /\ n \in Maps
            /\ VolOK(NewPointers(v))
<1> DEFINE b == Lowest(v)
           w == NewPointers(v)
           n == [m EXCEPT !.ind = b]
<1>1. b \in Blocks /\ b \notin v.bitmap /\ b # 0 /\ b \in 0..NBlocks /\ \A p \in Spots : At(v, m, p) # b
  BY NewBlock
<1>2. /\ VolOK(w) /\ w.bitmap = v.bitmap \cup {b}
      /\ \A k \in Slots : w.disk[b][k] = 0
      /\ \A x \in Blocks \ {b} : w.disk[x] = v.disk[x]
  BY PointersNew
<1> HIDE DEF b, w
<1>3. n \in Maps /\ n.ind = b /\ n.dbl = m.dbl /\ n.direct = m.direct
  BY <1>1 DEF Maps
<1> HIDE DEF n
<1>4. At(v, m, -1) = 0 /\ -1 \in Spots /\ At(w, n, -1) = b
  BY <1>3, AtInd, RootsAre
<1>5. \A p \in 0..(NDirect - 1) : At(w, n, p) = At(v, m, p)
  BY <1>3, DirectSame
<1>6. ASSUME NEW k \in Slots PROVE At(w, n, Single(k)) = At(v, m, Single(k))
  <2>1. At(v, m, Single(k)) = 0
    BY AtSingle DEF PtrAt
  <2>2. At(w, n, Single(k)) = 0
    BY <1>1, <1>2, <1>3, AtSingle DEF PtrAt
  <2> QED BY <2>1, <2>2
<1>7. ASSUME NEW p \in Spots, At(v, m, p) # 0 PROVE w.disk[At(v, m, p)] = v.disk[At(v, m, p)]
  BY <1>1, <1>2, <1>7, InBlocks
<1>8. \A p \in DoubleSpots : At(w, n, p) = At(v, m, p)
  <2>1. m.dbl # 0 => w.disk[m.dbl] = v.disk[m.dbl]
    BY <1>7, AtDbl, RootsAre
  <2>2. ASSUME NEW c \in Slots, PtrAt(v, m.dbl, c) # 0
        PROVE  w.disk[PtrAt(v, m.dbl, c)] = v.disk[PtrAt(v, m.dbl, c)]
    BY <1>7, <2>2, AtChild, ChildIs
  <2> QED BY <1>3, <2>1, <2>2, DoubleSame
<1>9. \A p \in Spots \ {-1} : At(w, n, p) = At(v, m, p)
  BY <1>5, <1>6, <1>8, Regions
<1>10. Planted(v, m, w, n, -1, b)
  BY <1>1, <1>2, <1>4, <1>9 DEF Planted
<1> QED BY <1>2, <1>3, <1>10 DEF n, b, w

LEMMA PlantedDbl ==
  ASSUME NEW v, NEW m \in Maps, VolOK(v), Tree(v, m), HasSpace(v), m.dbl = 0
  PROVE  LET n == [m EXCEPT !.dbl = Lowest(v)]
         IN /\ Planted(v, m, NewPointers(v), n, -2, Lowest(v)) /\ n \in Maps
            /\ VolOK(NewPointers(v))
<1> DEFINE b == Lowest(v)
           w == NewPointers(v)
           n == [m EXCEPT !.dbl = b]
<1>1. b \in Blocks /\ b \notin v.bitmap /\ b # 0 /\ b \in 0..NBlocks /\ \A p \in Spots : At(v, m, p) # b
  BY NewBlock
<1>2. /\ VolOK(w) /\ w.bitmap = v.bitmap \cup {b}
      /\ \A k \in Slots : w.disk[b][k] = 0
      /\ \A x \in Blocks \ {b} : w.disk[x] = v.disk[x]
  BY PointersNew
<1> HIDE DEF b, w
<1>3. n \in Maps /\ n.dbl = b /\ n.ind = m.ind /\ n.direct = m.direct
  BY <1>1 DEF Maps
<1> HIDE DEF n
<1>4. At(v, m, -2) = 0 /\ -2 \in Spots /\ At(w, n, -2) = b
  BY <1>3, AtDbl, RootsAre
<1>5. \A p \in 0..(NDirect - 1) : At(w, n, p) = At(v, m, p)
  BY <1>3, DirectSame
<1>6. \A p \in SingleSpots : At(w, n, p) = At(v, m, p)
  <2>1. m.ind # 0 => m.ind \in Blocks /\ m.ind # b
    BY <1>1, AtInd, RootsAre, InBlocks
  <2>2. m.ind # 0 => w.disk[m.ind] = v.disk[m.ind]
    BY <1>2, <2>1
  <2> QED BY <1>3, <2>2, SingleSame
<1>7. \A c \in Slots : PtrAt(v, m.dbl, c) = 0 /\ PtrAt(w, n.dbl, c) = 0
  BY <1>1, <1>2, <1>3 DEF PtrAt
<1>8. \A c \in Slots : At(w, n, Child(c)) = At(v, m, Child(c))
  BY <1>7, AtChild
<1>9. ASSUME NEW c \in Slots, NEW k \in Slots PROVE At(w, n, Deep(c, k)) = At(v, m, Deep(c, k))
  <2>1. PtrAt(v, m.dbl, c) = 0 /\ PtrAt(w, n.dbl, c) = 0
    BY <1>7
  <2>2. PtrAt(v, 0, k) = 0 /\ PtrAt(w, 0, k) = 0
    BY DEF PtrAt
  <2> QED BY <2>1, <2>2, AtDeep
<1>10. \A p \in Spots \ {-2} : At(w, n, p) = At(v, m, p)
  BY <1>5, <1>6, <1>8, <1>9, Regions
<1>11. Planted(v, m, w, n, -2, b)
  BY <1>1, <1>2, <1>4, <1>10 DEF Planted
<1> QED BY <1>2, <1>3, <1>11 DEF n, b, w

(* Planting a child, and a data block behind the pointers.                 *)
LEMMA PlantedChild ==
  ASSUME NEW v, NEW m \in Maps, NEW c \in Slots, VolOK(v), Tree(v, m), HasSpace(v), m.dbl # 0,
         PtrAt(v, m.dbl, c) = 0
  PROVE  LET w == WriteAt(NewPointers(v), m.dbl, c, Lowest(v))
         IN Planted(v, m, w, m, Child(c), Lowest(v)) /\ VolOK(w)
<1> DEFINE b == Lowest(v)
           u == NewPointers(v)
           w == WriteAt(u, m.dbl, c, b)
<1>1. /\ b \in Blocks /\ b \notin v.bitmap /\ b # 0 /\ b \in Words
      /\ \A p \in Spots : At(v, m, p) # b
  BY NewBlock
<1>2. /\ VolOK(u) /\ u.bitmap = v.bitmap \cup {b}
      /\ \A k \in Slots : u.disk[b][k] = 0
      /\ \A x \in Blocks \ {b} : u.disk[x] = v.disk[x]
  BY PointersNew
<1> HIDE DEF b, u
<1>3. m.dbl \in Blocks /\ m.dbl # b /\ At(v, m, -2) = m.dbl /\ -2 \in Spots
  <2>1. At(v, m, -2) = m.dbl /\ -2 \in Spots
    BY AtDbl, RootsAre
  <2>2. At(v, m, -2) # 0
    BY <2>1
  <2> QED BY <1>1, <2>1, <2>2, InBlocks
<1>4. /\ VolOK(w) /\ w.bitmap = v.bitmap \cup {b} /\ w.disk[m.dbl][c] = b
      /\ \A d \in Slots : d # c => w.disk[m.dbl][d] = v.disk[m.dbl][d]
      /\ \A k \in Slots : w.disk[b][k] = 0
      /\ \A x \in Blocks : x # b /\ x # m.dbl => w.disk[x] = v.disk[x]
  <2>1. /\ VolOK(w) /\ w.bitmap = u.bitmap /\ w.disk[m.dbl][c] = b
        /\ \A d \in Slots \ {c} : w.disk[m.dbl][d] = u.disk[m.dbl][d]
        /\ \A x \in Blocks \ {m.dbl} : w.disk[x] = u.disk[x]
    BY <1>1, <1>2, <1>3, WrittenAt
  <2>2. u.disk[m.dbl] = v.disk[m.dbl]
    BY <1>2, <1>3
  <2>3. w.disk[b] = u.disk[b]
    BY <1>1, <1>3, <2>1
  <2> QED BY <1>2, <2>1, <2>2, <2>3
<1> HIDE DEF w
<1>5. ASSUME NEW p \in Spots, p # -2, At(v, m, p) # 0
      PROVE  w.disk[At(v, m, p)] = v.disk[At(v, m, p)]
  <2>1. At(v, m, p) \in Blocks /\ At(v, m, p) # b
    BY <1>1, <1>5, InBlocks
  <2>2. At(v, m, p) # m.dbl
    BY <1>3, <1>5 DEF Tree
  <2> QED BY <1>4, <2>1, <2>2
<1>6. \A p \in 0..(NDirect - 1) : At(w, m, p) = At(v, m, p)
  BY DirectSame
<1>7. \A p \in SingleSpots : At(w, m, p) = At(v, m, p)
  <2>1. At(v, m, -1) = m.ind /\ -1 \in Spots /\ -1 # -2
    BY AtInd, RootsAre
  <2>2. m.ind # 0 => w.disk[m.ind] = v.disk[m.ind]
    BY <1>5, <2>1
  <2> QED BY <2>2, SingleSame
<1>8. \A d \in Slots : d # c => PtrAt(w, m.dbl, d) = PtrAt(v, m.dbl, d)
  BY <1>4 DEF PtrAt
<1>9. PtrAt(w, m.dbl, c) = b
  BY <1>4 DEF PtrAt
<1>10. \A d \in Slots : d # c => At(w, m, Child(d)) = At(v, m, Child(d))
  BY <1>8, AtChild
<1>11. ASSUME NEW d \in Slots, NEW k \in Slots PROVE At(w, m, Deep(d, k)) = At(v, m, Deep(d, k))
  <2>1. /\ At(w, m, Deep(d, k)) = PtrAt(w, PtrAt(w, m.dbl, d), k)
        /\ At(v, m, Deep(d, k)) = PtrAt(v, PtrAt(v, m.dbl, d), k)
    BY AtDeep
  <2>2. CASE d = c
    <3>1. PtrAt(w, b, k) = 0
      BY <1>1, <1>4 DEF PtrAt
    <3>2. PtrAt(v, 0, k) = 0
      BY DEF PtrAt
    <3> QED BY <1>9, <2>1, <2>2, <3>1, <3>2
  <2>3. CASE d # c
    <3> DEFINE x == PtrAt(v, m.dbl, d)
    <3>1. At(v, m, Child(d)) = x /\ Child(d) \in Spots /\ Child(d) # -2
      BY AtChild, ChildIs
    <3>2. PtrAt(w, m.dbl, d) = x
      BY <1>8, <2>3
    <3> HIDE DEF x
    <3>3. x # 0 => w.disk[x] = v.disk[x]
      BY <1>5, <3>1
    <3>4. PtrAt(w, x, k) = PtrAt(v, x, k)
      BY <3>3 DEF PtrAt
    <3> QED BY <2>1, <3>2, <3>4 DEF x
  <2> QED BY <2>2, <2>3
<1>12. ASSUME NEW p \in DoubleSpots, p # Child(c) PROVE At(w, m, p) = At(v, m, p)
  <2>1. CASE p = -2
    BY <2>1, AtDbl
  <2>2. CASE \E d \in Slots : p = Child(d)
    BY <1>10, <1>12, <2>2
  <2>3. CASE \E d, k \in Slots : p = Deep(d, k)
    BY <1>11, <2>3
  <2> QED BY <2>1, <2>2, <2>3, Regions
<1>13. \A p \in Spots \ {Child(c)} : At(w, m, p) = At(v, m, p)
  BY <1>6, <1>7, <1>12, Regions
<1>14. At(v, m, Child(c)) = 0 /\ At(w, m, Child(c)) = b /\ Child(c) \in Spots
  BY <1>9, AtChild, ChildIs
<1>15. Planted(v, m, w, m, Child(c), b)
  <2>1. \A x \in Blocks \ {b} : (\A p \in Spots : p < 0 => At(v, m, p) # x) => w.disk[x] = v.disk[x]
    BY <1>3, <1>4
  <2> QED BY <1>1, <1>4, <1>13, <1>14, <2>1 DEF Planted
<1> QED BY <1>4, <1>15 DEF b, u, w

LEMMA PlantedSingle ==
  ASSUME NEW v, NEW m \in Maps, NEW k \in Slots, VolOK(v), Tree(v, m), HasSpace(v), m.ind # 0,
         PtrAt(v, m.ind, k) = 0
  PROVE  LET w == WriteAt(AllocBlock(v), m.ind, k, Lowest(v))
         IN Planted(v, m, w, m, Single(k), Lowest(v)) /\ VolOK(w)
<1> DEFINE b == Lowest(v)
           u == AllocBlock(v)
           w == WriteAt(u, m.ind, k, b)
<1>1. /\ b \in Blocks /\ b \notin v.bitmap /\ b # 0 /\ b \in Words
      /\ \A p \in Spots : At(v, m, p) # b
  BY NewBlock
<1>2. VolOK(u) /\ u.bitmap = v.bitmap \cup {b} /\ u.disk = v.disk
  BY Allocated
<1> HIDE DEF b, u
<1>3. m.ind \in Blocks /\ At(v, m, -1) = m.ind /\ -1 \in Spots
  <2>1. At(v, m, -1) = m.ind /\ -1 \in Spots
    BY AtInd, RootsAre
  <2>2. At(v, m, -1) # 0
    BY <2>1
  <2> QED BY <2>1, <2>2, InBlocks
<1>4. /\ VolOK(w) /\ w.bitmap = v.bitmap \cup {b} /\ w.disk[m.ind][k] = b
      /\ \A j \in Slots : j # k => w.disk[m.ind][j] = v.disk[m.ind][j]
      /\ \A x \in Blocks : x # m.ind => w.disk[x] = v.disk[x]
  <2>1. VolOK(u) /\ b \in Words /\ m.ind \in Blocks
    BY <1>1, <1>2, <1>3
  <2>2. /\ VolOK(w) /\ w.bitmap = u.bitmap /\ w.disk[m.ind][k] = b
        /\ \A j \in Slots \ {k} : w.disk[m.ind][j] = u.disk[m.ind][j]
        /\ \A x \in Blocks \ {m.ind} : w.disk[x] = u.disk[x]
    BY <2>1, WrittenAt, SMTT(20)
  <2> QED BY <1>2, <2>2
<1> HIDE DEF w
<1>5. ASSUME NEW p \in Spots, p # -1, At(v, m, p) # 0
      PROVE  w.disk[At(v, m, p)] = v.disk[At(v, m, p)]
  <2>1. At(v, m, p) \in Blocks
    BY <1>5, InBlocks
  <2>2. At(v, m, p) # m.ind
    BY <1>3, <1>5 DEF Tree
  <2> QED BY <1>4, <2>1, <2>2
<1>6. \A p \in 0..(NDirect - 1) : At(w, m, p) = At(v, m, p)
  BY DirectSame
<1>7. \A p \in DoubleSpots : At(w, m, p) = At(v, m, p)
  <2>1. At(v, m, -2) = m.dbl /\ -2 \in Spots /\ -2 # -1
    BY AtDbl, RootsAre
  <2>2. m.dbl # 0 => w.disk[m.dbl] = v.disk[m.dbl]
    BY <1>5, <2>1
  <2>3. ASSUME NEW c \in Slots, PtrAt(v, m.dbl, c) # 0
        PROVE  w.disk[PtrAt(v, m.dbl, c)] = v.disk[PtrAt(v, m.dbl, c)]
    <3>1. At(v, m, Child(c)) = PtrAt(v, m.dbl, c) /\ Child(c) \in Spots /\ Child(c) # -1
      BY AtChild, ChildIs
    <3> QED BY <1>5, <2>3, <3>1
  <2> QED BY <2>2, <2>3, DoubleSame
<1>8. \A j \in Slots : PtrAt(w, m.ind, j) = IF j = k THEN b ELSE PtrAt(v, m.ind, j)
  BY <1>4 DEF PtrAt
<1>9. \A j \in Slots : At(w, m, Single(j)) = IF j = k THEN b ELSE At(v, m, Single(j))
  BY <1>8, AtSingle
<1>10. At(w, m, -1) = At(v, m, -1)
  BY AtInd
<1>11. \A p \in Spots \ {Single(k)} : At(w, m, p) = At(v, m, p)
  BY <1>6, <1>7, <1>9, <1>10, Regions
<1>12. At(v, m, Single(k)) = 0 /\ At(w, m, Single(k)) = b /\ Single(k) \in Spots
  BY <1>9, AtSingle, SingleIs
<1>13. Planted(v, m, w, m, Single(k), b)
  <2>1. \A x \in Blocks \ {b} : (\A p \in Spots : p < 0 => At(v, m, p) # x) => w.disk[x] = v.disk[x]
    BY <1>3, <1>4
  <2> QED BY <1>1, <1>4, <1>11, <1>12, <2>1 DEF Planted
<1> QED BY <1>4, <1>13 DEF b, u, w

LEMMA PlantedDeep ==
  ASSUME NEW v, NEW m \in Maps, NEW c \in Slots, NEW k \in Slots, VolOK(v), Tree(v, m), HasSpace(v),
         PtrAt(v, m.dbl, c) # 0, PtrAt(v, PtrAt(v, m.dbl, c), k) = 0
  PROVE  LET w == WriteAt(AllocBlock(v), PtrAt(v, m.dbl, c), k, Lowest(v))
         IN Planted(v, m, w, m, Deep(c, k), Lowest(v)) /\ VolOK(w)
<1> DEFINE b == Lowest(v)
           u == AllocBlock(v)
           s == PtrAt(v, m.dbl, c)
           w == WriteAt(u, s, k, b)
<1>1. /\ b \in Blocks /\ b \notin v.bitmap /\ b # 0 /\ b \in Words
      /\ \A p \in Spots : At(v, m, p) # b
  BY NewBlock
<1>2. VolOK(u) /\ u.bitmap = v.bitmap \cup {b} /\ u.disk = v.disk
  BY Allocated
<1> HIDE DEF b, u
<1>3. s \in Blocks /\ At(v, m, Child(c)) = s /\ Child(c) \in Spots /\ Child(c) < 0
  <2>1. At(v, m, Child(c)) = s /\ Child(c) \in Spots /\ Child(c) < 0
    BY AtChild, ChildIs
  <2>2. At(v, m, Child(c)) # 0
    BY <2>1
  <2> QED BY <2>1, <2>2, InBlocks
<1>4. /\ VolOK(w) /\ w.bitmap = v.bitmap \cup {b} /\ w.disk[s][k] = b
      /\ \A j \in Slots : j # k => w.disk[s][j] = v.disk[s][j]
      /\ \A x \in Blocks : x # s => w.disk[x] = v.disk[x]
  <2> HIDE DEF s
  <2>1. VolOK(u) /\ b \in Words /\ s \in Blocks
    BY <1>1, <1>2, <1>3
  <2>2. /\ VolOK(w) /\ w.bitmap = u.bitmap /\ w.disk[s][k] = b
        /\ \A j \in Slots \ {k} : w.disk[s][j] = u.disk[s][j]
        /\ \A x \in Blocks \ {s} : w.disk[x] = u.disk[x]
    BY <2>1, WrittenAt, SMTT(20)
  <2> QED BY <1>2, <2>2
<1>5. s # 0
  OBVIOUS
<1>6. \A d \in Slots : At(v, m, Child(d)) = PtrAt(v, m.dbl, d)
  BY AtChild
<1>7. PtrAt(v, s, k) = 0
  OBVIOUS
<1>8. \A j \in Slots : At(v, m, Deep(c, j)) = PtrAt(v, s, j)
  BY AtDeep
<1> HIDE DEF w, s
<1>9. ASSUME NEW p \in Spots, p # Child(c), At(v, m, p) # 0
      PROVE  w.disk[At(v, m, p)] = v.disk[At(v, m, p)]
  <2>1. At(v, m, p) \in Blocks
    BY <1>9, InBlocks
  <2>2. At(v, m, p) # s
    BY <1>3, <1>9 DEF Tree
  <2> QED BY <1>4, <2>1, <2>2
<1>10. \A p \in 0..(NDirect - 1) : At(w, m, p) = At(v, m, p)
  BY DirectSame
<1>11. \A p \in SingleSpots : At(w, m, p) = At(v, m, p)
  <2>1. At(v, m, -1) = m.ind /\ -1 \in Spots /\ Child(c) # -1
    BY AtInd, RootsAre, ChildIs
  <2>2. m.ind # 0 => w.disk[m.ind] = v.disk[m.ind]
    BY <1>9, <2>1
  <2> QED BY <2>2, SingleSame
<1>12. \A d \in Slots : PtrAt(w, m.dbl, d) = PtrAt(v, m.dbl, d)
  <2>1. At(v, m, -2) = m.dbl /\ -2 \in Spots /\ Child(c) # -2
    BY AtDbl, RootsAre, ChildIs
  <2>2. m.dbl # 0 => w.disk[m.dbl] = v.disk[m.dbl]
    BY <1>9, <2>1
  <2> QED BY <2>2 DEF PtrAt
<1>13. \A d \in Slots : At(w, m, Child(d)) = At(v, m, Child(d))
  BY <1>12, AtChild
<1>14. \A j \in Slots : PtrAt(w, s, j) = IF j = k THEN b ELSE PtrAt(v, s, j)
  BY <1>4, <1>5 DEF PtrAt
<1>15. PtrAt(w, m.dbl, c) = s
  BY <1>12 DEF s
<1>16. \A j \in Slots : At(w, m, Deep(c, j)) = IF j = k THEN b ELSE At(v, m, Deep(c, j))
  <2>1. \A j \in Slots : At(w, m, Deep(c, j)) = PtrAt(w, s, j)
    BY <1>15, AtDeep
  <2> QED BY <1>8, <1>14, <2>1
<1>17. ASSUME NEW d \in Slots, NEW j \in Slots, d # c
       PROVE  At(w, m, Deep(d, j)) = At(v, m, Deep(d, j))
  <2> DEFINE x == PtrAt(v, m.dbl, d)
  <2>1. At(w, m, Deep(d, j)) = PtrAt(w, PtrAt(w, m.dbl, d), j) /\ At(v, m, Deep(d, j)) = PtrAt(v, x, j)
    BY AtDeep
  <2>2. PtrAt(w, m.dbl, d) = x /\ At(v, m, Child(d)) = x
    BY <1>6, <1>12
  <2>3. Child(d) # Child(c) /\ Child(d) \in Spots
    BY <1>17, ChildInjective, ChildIs
  <2> HIDE DEF x
  <2>4. x # 0 => w.disk[x] = v.disk[x]
    BY <1>9, <2>2, <2>3
  <2>5. PtrAt(w, x, j) = PtrAt(v, x, j)
    BY <2>4 DEF PtrAt
  <2> QED BY <2>1, <2>2, <2>5
<1>18. ASSUME NEW p \in DoubleSpots, p # Deep(c, k) PROVE At(w, m, p) = At(v, m, p)
  <2>1. CASE p = -2
    BY <2>1, AtDbl
  <2>2. CASE \E d \in Slots : p = Child(d)
    BY <1>13, <2>2
  <2>3. CASE \E d, j \in Slots : p = Deep(d, j)
    BY <1>16, <1>17, <1>18, <2>3
  <2> QED BY <2>1, <2>2, <2>3, Regions
<1>19. \A p \in Spots \ {Deep(c, k)} : At(w, m, p) = At(v, m, p)
  BY <1>10, <1>11, <1>18, Regions
<1>20. At(v, m, Deep(c, k)) = 0 /\ At(w, m, Deep(c, k)) = b /\ Deep(c, k) \in Spots
  BY <1>7, <1>8, <1>16, DeepIs
<1>21. Planted(v, m, w, m, Deep(c, k), b)
  <2>1. \A x \in Blocks \ {b} : (\A p \in Spots : p < 0 => At(v, m, p) # x) => w.disk[x] = v.disk[x]
    BY <1>3, <1>4
  <2> QED BY <1>1, <1>4, <1>19, <1>20, <2>1 DEF Planted
<1> QED BY <1>4, <1>21 DEF b, u, w, s

(* The step of a planted block, as a step of a state.                      *)
LEMMA PlantedGoes ==
  ASSUME NEW s, NEW t, NEW q, NEW b, NEW l, StateOK(s), t \in States, VolOK(t.v),
         t.pos = s.pos, t.left = s.left, t.ok = s.ok, s.ok,
         Planted(s.v, s.m, t.v, t.m, q, b), First(q) <= l, q >= 0 => q = l
  PROVE  Goes(s, t, l)
<1>1. t.m \in Maps
  BY DEF States
<1>2. VolOK(s.v) /\ Tree(s.v, s.m)
  BY DEF StateOK
<1>3. Grown(s.v, s.m, t.v, t.m, l)
  BY <1>1, <1>2, PlantedGrows
<1>4. StateOK(t)
  BY <1>3 DEF Grown, Kept, StateOK
<1> QED BY <1>3, <1>4 DEF Goes

(* Steps compose.                                                          *)
LEMMA GoesTwice ==
  ASSUME NEW s, NEW t, NEW u, NEW l, Goes(s, t, l), Goes(t, u, l),
         At(t.v, t.m, l) = At(s.v, s.m, l)
  PROVE  Goes(s, u, l)
<1>1. Grown(s.v, s.m, u.v, u.m, l)
  BY GrownTwice DEF Goes
<1> QED BY <1>1 DEF Goes

(* Each Ensure of Map_Or_Alloc, and the whole of it (writer.adb:532-619).  *)
LEMMA EnsureDirectDone ==
  ASSUME NEW s, NEW l \in 0..(NDirect - 1), StateOK(s), s.ok
  PROVE  /\ Goes(s, EnsureDirect(s, l), l)
         /\ EnsureDirect(s, l).ok => At(EnsureDirect(s, l).v, EnsureDirect(s, l).m, l) # 0
<1> DEFINE t == EnsureDirect(s, l)
           n == [s.m EXCEPT !.direct[l] = Lowest(s.v)]
           w == AllocBlock(s.v)
<1>1. t = IF s.m.direct[l] # 0 THEN s
          ELSE IF ~HasSpace(s.v) THEN Fails(s)
          ELSE [s EXCEPT !.v = w, !.m = n]
  BY Zenon DEF EnsureDirect
<1>2. s \in States /\ VolOK(s.v) /\ Tree(s.v, s.m) /\ s.m \in Maps
  BY DEF StateOK, States
<1>3. At(s.v, s.m, l) = s.m.direct[l]
  BY AtDirect
<1> HIDE DEF t, n, w
<1>4. CASE s.m.direct[l] # 0
  <2>1. t = s
    BY <1>1, <1>4
  <2> QED BY <1>3, <1>4, <2>1, GoesNowhere DEF t
<1>5. CASE s.m.direct[l] = 0 /\ ~HasSpace(s.v)
  <2>1. t = Fails(s)
    BY <1>1, <1>5
  <2>2. Goes(s, t, l) /\ ~t.ok
    BY <2>1, FailsIs
  <2> QED BY <2>2 DEF t
<1>6. CASE s.m.direct[l] = 0 /\ HasSpace(s.v)
  <2>1. t = [s EXCEPT !.v = w, !.m = n]
    BY <1>1, <1>6
  <2>2. Planted(s.v, s.m, w, n, l, Lowest(s.v)) /\ n \in Maps /\ VolOK(w)
    BY <1>2, <1>6, PlantedDirect DEF n, w
  <2>3. w \in Volumes
    BY <2>2 DEF VolOK
  <2>4. t \in States /\ t.v = w /\ t.m = n /\ t.ok = s.ok /\ t.pos = s.pos /\ t.left = s.left
    BY <1>2, <2>1, <2>2, <2>3 DEF States
  <2>5. First(l) <= l
    BY DirectIs, Constants
  <2>6. Goes(s, t, l)
    BY <2>2, <2>4, <2>5, PlantedGoes
  <2>7. At(t.v, t.m, l) # 0
    BY <2>2, <2>4 DEF Planted
  <2> QED BY <2>6, <2>7 DEF t
<1> QED BY <1>4, <1>5, <1>6

LEMMA EnsureIndDone ==
  ASSUME NEW s, NEW l \in Spots, l >= NDirect, StateOK(s), s.ok
  PROVE  /\ Goes(s, EnsureInd(s), l)
         /\ At(EnsureInd(s).v, EnsureInd(s).m, l) = At(s.v, s.m, l)
         /\ EnsureInd(s).ok => EnsureInd(s).m.ind # 0
<1> DEFINE t == EnsureInd(s)
           n == [s.m EXCEPT !.ind = Lowest(s.v)]
           w == NewPointers(s.v)
<1>1. t = IF s.m.ind # 0 THEN s
          ELSE IF ~HasSpace(s.v) THEN Fails(s)
          ELSE [s EXCEPT !.v = w, !.m = n]
  BY Zenon DEF EnsureInd
<1>2. s \in States /\ VolOK(s.v) /\ Tree(s.v, s.m) /\ s.m \in Maps
  BY DEF StateOK, States
<1> HIDE DEF t, n, w
<1>4. CASE s.m.ind # 0
  <2>1. t = s
    BY <1>1, <1>4
  <2> QED BY <1>4, <2>1, GoesNowhere DEF t
<1>5. CASE s.m.ind = 0 /\ ~HasSpace(s.v)
  <2>1. t = Fails(s)
    BY <1>1, <1>5
  <2>2. Goes(s, t, l) /\ ~t.ok
    BY <2>1, FailsIs
  <2> QED BY <2>2 DEF t, Goes
<1>6. CASE s.m.ind = 0 /\ HasSpace(s.v)
  <2>1. t = [s EXCEPT !.v = w, !.m = n]
    BY <1>1, <1>6
  <2>2. Planted(s.v, s.m, w, n, -1, Lowest(s.v)) /\ n \in Maps /\ VolOK(w)
    BY <1>2, <1>6, PlantedInd DEF n, w
  <2>3. w \in Volumes
    BY <2>2 DEF VolOK
  <2>4. t \in States /\ t.v = w /\ t.m = n /\ t.ok = s.ok /\ t.pos = s.pos /\ t.left = s.left
    BY <1>2, <2>1, <2>2, <2>3 DEF States
  <2>5. First(-1) <= l /\ -1 # l /\ ~(-1 >= 0)
    BY RootsAre, Constants, SpotsAreInt
  <2>6. Goes(s, t, l)
    BY <2>2, <2>4, <2>5, PlantedGoes
  <2>7. At(t.v, t.m, l) = At(s.v, s.m, l) /\ At(t.v, t.m, -1) # 0
    BY <2>2, <2>4, <2>5 DEF Planted
  <2>8. t.m.ind # 0
    BY <2>7, AtInd
  <2> QED BY <2>6, <2>7, <2>8 DEF t
<1> QED BY <1>4, <1>5, <1>6

LEMMA EnsureDblDone ==
  ASSUME NEW s, NEW l \in Spots, l >= NDirect + PPB, StateOK(s), s.ok
  PROVE  /\ Goes(s, EnsureDbl(s), l)
         /\ At(EnsureDbl(s).v, EnsureDbl(s).m, l) = At(s.v, s.m, l)
         /\ EnsureDbl(s).ok => EnsureDbl(s).m.dbl # 0
<1> DEFINE t == EnsureDbl(s)
           n == [s.m EXCEPT !.dbl = Lowest(s.v)]
           w == NewPointers(s.v)
<1>1. t = IF s.m.dbl # 0 THEN s
          ELSE IF ~HasSpace(s.v) THEN Fails(s)
          ELSE [s EXCEPT !.v = w, !.m = n]
  BY Zenon DEF EnsureDbl
<1>2. s \in States /\ VolOK(s.v) /\ Tree(s.v, s.m) /\ s.m \in Maps
  BY DEF StateOK, States
<1> HIDE DEF t, n, w
<1>4. CASE s.m.dbl # 0
  <2>1. t = s
    BY <1>1, <1>4
  <2> QED BY <1>4, <2>1, GoesNowhere DEF t
<1>5. CASE s.m.dbl = 0 /\ ~HasSpace(s.v)
  <2>1. t = Fails(s)
    BY <1>1, <1>5
  <2>2. Goes(s, t, l) /\ ~t.ok
    BY <2>1, FailsIs
  <2> QED BY <2>2 DEF t, Goes
<1>6. CASE s.m.dbl = 0 /\ HasSpace(s.v)
  <2>1. t = [s EXCEPT !.v = w, !.m = n]
    BY <1>1, <1>6
  <2>2. Planted(s.v, s.m, w, n, -2, Lowest(s.v)) /\ n \in Maps /\ VolOK(w)
    BY <1>2, <1>6, PlantedDbl DEF n, w
  <2>3. w \in Volumes
    BY <2>2 DEF VolOK
  <2>4. t \in States /\ t.v = w /\ t.m = n /\ t.ok = s.ok /\ t.pos = s.pos /\ t.left = s.left
    BY <1>2, <2>1, <2>2, <2>3 DEF States
  <2>5. First(-2) <= l /\ -2 # l /\ ~(-2 >= 0)
    BY RootsAre, Constants, SpotsAreInt
  <2>6. Goes(s, t, l)
    BY <2>2, <2>4, <2>5, PlantedGoes
  <2>7. At(t.v, t.m, l) = At(s.v, s.m, l) /\ At(t.v, t.m, -2) # 0
    BY <2>2, <2>4, <2>5 DEF Planted
  <2>8. t.m.dbl # 0
    BY <2>7, AtDbl
  <2> QED BY <2>6, <2>7, <2>8 DEF t
<1> QED BY <1>4, <1>5, <1>6

LEMMA EnsureChildDone ==
  ASSUME NEW s, NEW l \in Spots, NEW c \in Slots, l >= 0, First(Child(c)) <= l, StateOK(s),
         s.ok => s.m.dbl # 0
  PROVE  LET t == EnsureChild(s, s.m.dbl, c)
         IN /\ Goes(s, t, l)
            /\ At(t.v, t.m, l) = At(s.v, s.m, l)
            /\ t.ok => PtrAt(t.v, t.m.dbl, c) # 0
<1> DEFINE t == EnsureChild(s, s.m.dbl, c)
           w == WriteAt(NewPointers(s.v), s.m.dbl, c, Lowest(s.v))
<1>1. t = IF ~s.ok \/ PtrAt(s.v, s.m.dbl, c) # 0 THEN s
          ELSE IF ~HasSpace(s.v) THEN Fails(s)
          ELSE [s EXCEPT !.v = w]
  BY Zenon DEF EnsureChild
<1>2. s \in States /\ VolOK(s.v) /\ Tree(s.v, s.m) /\ s.m \in Maps
  BY DEF StateOK, States
<1> HIDE DEF t, w
<1>4. CASE ~s.ok \/ PtrAt(s.v, s.m.dbl, c) # 0
  <2>1. t = s
    BY <1>1, <1>4
  <2> QED BY <1>4, <2>1, GoesNowhere DEF t
<1>5. CASE ~(~s.ok \/ PtrAt(s.v, s.m.dbl, c) # 0) /\ ~HasSpace(s.v)
  <2>1. t = Fails(s)
    BY <1>1, <1>5
  <2>2. Goes(s, t, l) /\ ~t.ok
    BY <2>1, FailsIs
  <2> QED BY <2>2 DEF t, Goes
<1>6. CASE s.ok /\ PtrAt(s.v, s.m.dbl, c) = 0 /\ HasSpace(s.v)
  <2>1. t = [s EXCEPT !.v = w]
    BY <1>1, <1>6
  <2>2. Planted(s.v, s.m, w, s.m, Child(c), Lowest(s.v)) /\ VolOK(w)
    BY <1>2, <1>6, PlantedChild DEF w
  <2>3. w \in Volumes
    BY <2>2 DEF VolOK
  <2>4. t \in States /\ t.v = w /\ t.m = s.m /\ t.ok = s.ok /\ t.pos = s.pos /\ t.left = s.left
    BY <1>2, <2>1, <2>3, SetVolume
  <2>5. Child(c) # l /\ ~(Child(c) >= 0)
    BY ChildIs
  <2>6. Goes(s, t, l)
    BY <1>6, <2>2, <2>4, <2>5, PlantedGoes
  <2>7. At(t.v, t.m, l) = At(s.v, s.m, l) /\ At(t.v, t.m, Child(c)) # 0
    BY <2>2, <2>4, <2>5 DEF Planted
  <2>8. PtrAt(t.v, t.m.dbl, c) # 0
    BY <2>7, AtChild
  <2> QED BY <2>6, <2>7, <2>8 DEF t
<1> QED BY <1>4, <1>5, <1>6

LEMMA EnsureSlotSingle ==
  ASSUME NEW s, NEW k \in Slots, StateOK(s), s.ok => s.m.ind # 0
  PROVE  LET t == EnsureSlot(s, s.m.ind, k)
         IN Goes(s, t, Single(k)) /\ (t.ok => At(t.v, t.m, Single(k)) # 0)
<1> DEFINE t == EnsureSlot(s, s.m.ind, k)
           w == WriteAt(AllocBlock(s.v), s.m.ind, k, Lowest(s.v))
           l == Single(k)
<1>1. t = IF ~s.ok \/ PtrAt(s.v, s.m.ind, k) # 0 THEN s
          ELSE IF ~HasSpace(s.v) THEN Fails(s)
          ELSE [s EXCEPT !.v = w]
  BY Zenon DEF EnsureSlot
<1>2. s \in States /\ VolOK(s.v) /\ Tree(s.v, s.m) /\ s.m \in Maps
  BY DEF StateOK, States
<1>3. At(s.v, s.m, l) = PtrAt(s.v, s.m.ind, k)
  BY AtSingle
<1> HIDE DEF t, w, l
<1>4. CASE ~s.ok \/ PtrAt(s.v, s.m.ind, k) # 0
  <2>1. t = s
    BY <1>1, <1>4
  <2> QED BY <1>3, <1>4, <2>1, GoesNowhere DEF t, l
<1>5. CASE ~(~s.ok \/ PtrAt(s.v, s.m.ind, k) # 0) /\ ~HasSpace(s.v)
  <2>1. t = Fails(s)
    BY <1>1, <1>5
  <2>2. Goes(s, t, l) /\ ~t.ok
    BY <2>1, FailsIs
  <2> QED BY <2>2 DEF t, l
<1>6. CASE s.ok /\ PtrAt(s.v, s.m.ind, k) = 0 /\ HasSpace(s.v)
  <2>1. t = [s EXCEPT !.v = w]
    BY <1>1, <1>6
  <2>2. Planted(s.v, s.m, w, s.m, l, Lowest(s.v)) /\ VolOK(w)
    BY <1>2, <1>6, PlantedSingle DEF w, l
  <2>3. w \in Volumes
    BY <2>2 DEF VolOK
  <2>4. t \in States /\ t.v = w /\ t.m = s.m /\ t.ok = s.ok /\ t.pos = s.pos /\ t.left = s.left
    BY <1>2, <2>1, <2>3, SetVolume
  <2>5. First(l) <= l
    <3>1. First(l) = l /\ l \in Int
      BY SingleIs, Constants DEF l
    <3> QED BY <3>1
  <2>6. Goes(s, t, l)
    BY <1>6, <2>2, <2>4, <2>5, PlantedGoes
  <2>7. At(t.v, t.m, l) # 0
    BY <2>2, <2>4 DEF Planted
  <2> QED BY <2>6, <2>7 DEF t, l
<1> QED BY <1>4, <1>5, <1>6

LEMMA EnsureSlotDeep ==
  ASSUME NEW s, NEW c \in Slots, NEW k \in Slots, StateOK(s),
         s.ok => PtrAt(s.v, s.m.dbl, c) # 0
  PROVE  LET t == EnsureSlot(s, PtrAt(s.v, s.m.dbl, c), k)
         IN Goes(s, t, Deep(c, k)) /\ (t.ok => At(t.v, t.m, Deep(c, k)) # 0)
<1> DEFINE x == PtrAt(s.v, s.m.dbl, c)
           t == EnsureSlot(s, x, k)
           w == WriteAt(AllocBlock(s.v), x, k, Lowest(s.v))
           l == Deep(c, k)
<1>1. t = IF ~s.ok \/ PtrAt(s.v, x, k) # 0 THEN s
          ELSE IF ~HasSpace(s.v) THEN Fails(s)
          ELSE [s EXCEPT !.v = w]
  BY Zenon DEF EnsureSlot
<1>2. s \in States /\ VolOK(s.v) /\ Tree(s.v, s.m) /\ s.m \in Maps
  BY DEF StateOK, States
<1>3. At(s.v, s.m, l) = PtrAt(s.v, x, k)
  BY AtDeep
<1>0. s.ok => x # 0
  OBVIOUS
<1> HIDE DEF t, w, l, x
<1>4. CASE ~s.ok \/ PtrAt(s.v, x, k) # 0
  <2>1. t = s
    BY <1>1, <1>4
  <2> QED BY <1>3, <1>4, <2>1, GoesNowhere DEF t, l, x
<1>5. CASE ~(~s.ok \/ PtrAt(s.v, x, k) # 0) /\ ~HasSpace(s.v)
  <2>1. t = Fails(s)
    BY <1>1, <1>5
  <2>2. Goes(s, t, l) /\ ~t.ok
    BY <2>1, FailsIs
  <2> QED BY <2>2 DEF t, l, x
<1>6. CASE s.ok /\ PtrAt(s.v, x, k) = 0 /\ HasSpace(s.v)
  <2>1. t = [s EXCEPT !.v = w]
    BY <1>1, <1>6
  <2>2. Planted(s.v, s.m, w, s.m, l, Lowest(s.v)) /\ VolOK(w)
    BY <1>0, <1>2, <1>6, PlantedDeep DEF w, l, x
  <2>3. w \in Volumes
    BY <2>2 DEF VolOK
  <2>4. t \in States /\ t.v = w /\ t.m = s.m /\ t.ok = s.ok /\ t.pos = s.pos /\ t.left = s.left
    BY <1>2, <2>1, <2>3, SetVolume
  <2>5. First(l) <= l
    <3>1. First(l) = l /\ l \in Int
      BY DeepIs, Constants DEF l
    <3> QED BY <3>1
  <2>6. Goes(s, t, l)
    BY <1>6, <2>2, <2>4, <2>5, PlantedGoes
  <2>7. At(t.v, t.m, l) # 0
    BY <2>2, <2>4 DEF Planted
  <2> QED BY <2>6, <2>7 DEF t, l, x
<1> QED BY <1>4, <1>5, <1>6

LEMMA MapOrAllocDone ==
  ASSUME NEW s, NEW l \in 0..(Reach - 1), StateOK(s), s.ok
  PROVE  LET t == MapOrAlloc(s, l)
         IN Goes(s, t, l) /\ (t.ok => At(t.v, t.m, l) # 0)
<1> DEFINE rel == l - NDirect - PPB
           ind == EnsureInd(s)
           dbl == EnsureDbl(s)
           c == rel \div PPB
           k == rel % PPB
           sng == EnsureChild(dbl, dbl.m.dbl, c)
           t == MapOrAlloc(s, l)
<1>1. t = IF l < NDirect THEN EnsureDirect(s, l)
          ELSE IF rel < 0 THEN EnsureSlot(ind, ind.m.ind, l - NDirect)
          ELSE EnsureSlot(sng, PtrAt(sng.v, sng.m.dbl, c), k)
  BY Zenon DEF MapOrAlloc
<1>2. l \in Int /\ l >= 0 /\ l < Reach /\ l \in Spots
  BY Constants, Products DEF Spots
<1>3. CASE l < NDirect
  <2>1. t = EnsureDirect(s, l)
    BY <1>1, <1>3
  <2>2. l \in 0..(NDirect - 1)
    BY <1>2, <1>3, Constants
  <2> HIDE DEF t
  <2>3. Goes(s, t, l) /\ (t.ok => At(t.v, t.m, l) # 0)
    BY <2>1, <2>2, EnsureDirectDone
  <2> QED BY <2>3 DEF t
<1>4. CASE ~(l < NDirect) /\ rel < 0
  <2>1. t = EnsureSlot(ind, ind.m.ind, l - NDirect)
    BY <1>1, <1>4
  <2>2. l - NDirect \in Slots /\ Single(l - NDirect) = l
    BY <1>2, <1>4, Constants DEF Slots, Single
  <2>3. l >= NDirect
    BY <1>2, <1>4, Constants
  <2>4. /\ Goes(s, ind, l) /\ At(ind.v, ind.m, l) = At(s.v, s.m, l)
        /\ ind.ok => ind.m.ind # 0
    BY <1>2, <2>3, EnsureIndDone
  <2> HIDE DEF ind, t
  <2>5. StateOK(ind)
    BY <2>4 DEF Goes
  <2>6. Goes(ind, t, l) /\ (t.ok => At(t.v, t.m, l) # 0)
    BY <2>1, <2>2, <2>4, <2>5, EnsureSlotSingle
  <2>7. Goes(s, t, l)
    BY <2>4, <2>6, GoesTwice
  <2> QED BY <2>6, <2>7 DEF t
<1>5. CASE ~(l < NDirect) /\ ~(rel < 0)
  <2>1. t = EnsureSlot(sng, PtrAt(sng.v, sng.m.dbl, c), k)
    BY <1>1, <1>5
  <2>2. l \in (NDirect + PPB)..(Reach - 1)
    BY <1>2, <1>5, Constants, Products
  <2>3. c \in Slots /\ k \in Slots /\ l = Deep(c, k)
    BY <2>2, SomeDeep
  <2>4. l >= NDirect + PPB
    BY <2>2, Constants, Products
  <2>5. First(Child(c)) <= l
    <3> HIDE DEF c, k
    <3>1. First(Child(c)) = NDirect + PPB + c * PPB /\ c * PPB \in Nat /\ k \in Nat
      BY <2>3, ChildIs, Products, Constants DEF Slots
    <3>2. l = NDirect + PPB + c * PPB + k
      BY <2>3 DEF Deep
    <3> QED BY <3>1, <3>2, Constants
  <2>6. Goes(s, dbl, l) /\ At(dbl.v, dbl.m, l) = At(s.v, s.m, l) /\ (dbl.ok => dbl.m.dbl # 0)
    BY <1>2, <2>4, EnsureDblDone
  <2> HIDE DEF dbl, c, k
  <2>7. StateOK(dbl)
    BY <2>6 DEF Goes
  <2>8. /\ Goes(dbl, sng, l) /\ At(sng.v, sng.m, l) = At(dbl.v, dbl.m, l)
        /\ sng.ok => PtrAt(sng.v, sng.m.dbl, c) # 0
    BY <1>2, <2>3, <2>5, <2>6, <2>7, EnsureChildDone
  <2> HIDE DEF sng, t
  <2>9. StateOK(sng)
    BY <2>8 DEF Goes
  <2>10. Goes(sng, t, l) /\ (t.ok => At(t.v, t.m, l) # 0)
    BY <2>1, <2>3, <2>8, <2>9, EnsureSlotDeep
  <2>11. Goes(s, sng, l) /\ At(sng.v, sng.m, l) = At(s.v, s.m, l)
    BY <2>6, <2>8, GoesTwice
  <2>12. Goes(s, t, l)
    BY <2>10, <2>11, GoesTwice
  <2> QED BY <2>10, <2>12 DEF t
<1> QED BY <1>3, <1>4, <1>5

-------------------------------------------------------------------------------
(* Append: one turn of its loop, and the loop.                             *)

(* A map leads to a pointer block if it leads to the first block below it. *)
LEMMA FirstNeeds ==
  ASSUME NEW v, NEW m, NEW p \in Spots, At(v, m, First(p)) # 0
  PROVE  At(v, m, p) # 0
<1>1. 0 \in Slots
  BY Constants DEF Slots
<1>2. CASE p >= 0
  BY <1>2, SpotsAreInt
<1>3. CASE p = -1
  <2>1. First(p) = Single(0)
    BY <1>3, RootsAre, Constants DEF Single
  <2> QED BY <1>1, <1>3, <2>1, AtSingle, AtInd DEF PtrAt
<1>4. CASE p = -2
  <2>1. First(p) = Deep(0, 0)
    BY <1>4, RootsAre, Constants DEF Deep
  <2>2. PtrAt(v, PtrAt(v, m.dbl, 0), 0) # 0
    BY <1>1, <2>1, AtDeep
  <2>3. PtrAt(v, m.dbl, 0) # 0
    BY <2>2 DEF PtrAt
  <2> QED BY <1>4, <2>3, AtDbl DEF PtrAt
<1>5. CASE \E c \in Slots : p = Child(c)
  <2>1. PICK c \in Slots : p = Child(c)
    BY <1>5
  <2>2. First(p) = Deep(c, 0)
    BY <2>1, ChildIs, Constants, Products DEF Deep
  <2>3. PtrAt(v, PtrAt(v, m.dbl, c), 0) # 0
    BY <1>1, <2>2, AtDeep
  <2>4. PtrAt(v, m.dbl, c) # 0
    BY <2>3 DEF PtrAt
  <2> QED BY <2>1, <2>4, AtChild
<1>6. p \in 0..(NDirect - 1) \/ p = -1 \/ p = -2 \/ p >= 0 \/ \E c \in Slots : p = Child(c)
  BY Kinds, SingleIs, DeepIs, Constants
<1> QED BY <1>2, <1>3, <1>4, <1>5, <1>6

(* What has grown reads as before but at the new block.                    *)
LEMMA GrownReads ==
  ASSUME NEW v, NEW m, NEW w, NEW n, NEW l, Grown(v, m, w, n, l), NEW x \in Positions,
         Blk(x) # l \/ At(v, m, l) # 0 \/ At(w, n, l) = At(v, m, l)
  PROVE  Word(w, n, x) = Word(v, m, x)
<1> DEFINE p == Blk(x)
           k == Off(x)
<1>1. p \in Spots /\ p >= 0
  BY PositionIs
<1>2. Word(w, n, x) = PtrAt(w, At(w, n, p), k) /\ Word(v, m, x) = PtrAt(v, At(v, m, p), k)
  BY DEF Word
<1> HIDE DEF p, k
<1>3. At(v, m, p) # 0 => At(w, n, p) = At(v, m, p) /\ w.disk[At(v, m, p)] = v.disk[At(v, m, p)]
  BY <1>1 DEF Grown, Stays
<1>4. p # l => At(w, n, p) = At(v, m, p)
  BY <1>1 DEF Grown
<1>5. At(w, n, p) = At(v, m, p)
  BY <1>3, <1>4 DEF p
<1>6. PtrAt(w, At(w, n, p), k) = PtrAt(v, At(v, m, p), k)
  BY <1>3, <1>5 DEF PtrAt
<1> QED BY <1>2, <1>6

(* What one turn of Append covers.                                         *)
LEMMA ChunkBounds ==
  ASSUME NEW pos \in Nat, NEW left \in Nat, left > 0, BlocksFor(pos + left) <= Reach
  PROVE  LET l == Blk(pos)
             chunk == Lower(PPB - Off(pos), left)
         IN /\ l \in 0..(Reach - 1) /\ chunk \in Nat /\ chunk > 0 /\ chunk <= left
            /\ BlocksFor(pos + chunk) = l + 1
            /\ l <= BlocksFor(pos) /\ BlocksFor(pos) <= l + 1
            /\ \A x \in Positions :
                 pos <= x /\ x < pos + chunk <=>
                   Blk(x) = l /\ Off(x) \in Off(pos)..(Off(pos) + chunk - 1)
<1> DEFINE l == Blk(pos)
           off == Off(pos)
           chunk == Lower(PPB - off, left)
           P == l * PPB
<1>1. l \in Nat /\ off \in Nat /\ off < PPB /\ pos = P + off /\ P \in Nat
  BY Digit
<1>2. chunk = IF PPB - off < left THEN PPB - off ELSE left
  BY DEF Lower
<1>3. l < BlocksFor(pos + left)
  BY WordPlaces
<1>4. /\ l < BlocksFor(pos + chunk) <=> P < pos + chunk
      /\ l + 1 < BlocksFor(pos + chunk) <=> (l + 1) * PPB < pos + chunk
      /\ l + 1 < BlocksFor(pos) <=> (l + 1) * PPB < pos
      /\ l > 0 => (l - 1 < BlocksFor(pos) <=> (l - 1) * PPB < pos)
      /\ BlocksFor(pos) \in Nat /\ BlocksFor(pos + chunk) \in Nat
      /\ BlocksFor(pos + left) \in Nat
  <2>1. pos + chunk \in Nat /\ l + 1 \in Nat /\ (l > 0 => l - 1 \in Nat) /\ pos + left \in Nat
    <3> HIDE DEF chunk, l, off
    <3> QED BY <1>1, <1>2, Constants
  <2> HIDE DEF l, chunk
  <2> QED BY <1>1, <2>1, BlockBound
<1>5. (l + 1) * PPB = P + PPB /\ (l > 0 => (l - 1) * PPB = P - PPB)
  <2> HIDE DEF l
  <2> QED BY <1>1, Constants
<1>6. ASSUME NEW x \in Positions
      PROVE  /\ x \in Nat /\ Blk(x) \in Nat /\ Off(x) \in Nat /\ Off(x) < PPB
             /\ x = Blk(x) * PPB + Off(x) /\ Blk(x) * PPB \in Nat
             /\ Blk(x) < l => Blk(x) * PPB + PPB <= P
             /\ l < Blk(x) => P + PPB <= Blk(x) * PPB
  <2>1. x \in Nat
    BY PositionIs
  <2>2. Blk(x) \in Nat /\ Off(x) \in Nat /\ Off(x) < PPB /\ x = Blk(x) * PPB + Off(x) /\ Blk(x) * PPB \in Nat
    BY <2>1, Digit
  <2> HIDE DEF l
  <2> QED BY <1>1, <2>1, <2>2, Multiples
<1> HIDE DEF l, off, chunk
<1>7. chunk \in Nat /\ chunk > 0 /\ chunk <= left /\ off + chunk <= PPB
  BY <1>1, <1>2, Constants
<1>8. l \in 0..(Reach - 1)
  BY <1>1, <1>3, <1>4, Products
<1> HIDE DEF P
<1>9. BlocksFor(pos + chunk) = l + 1
  <2>1. l < BlocksFor(pos + chunk)
    BY <1>1, <1>4, <1>7
  <2>2. ~(l + 1 < BlocksFor(pos + chunk))
    BY <1>1, <1>4, <1>5, <1>7, Constants
  <2> QED BY <1>1, <1>4, <2>1, <2>2
<1>10. l <= BlocksFor(pos) /\ BlocksFor(pos) <= l + 1
  BY <1>1, <1>4, <1>5, Constants
<1>11. ASSUME NEW x \in Positions
       PROVE  pos <= x /\ x < pos + chunk <=> Blk(x) = l /\ Off(x) \in off..(off + chunk - 1)
  <2> DEFINE c == Blk(x)
             k == Off(x)
             Q == c * PPB
  <2>1. /\ c \in Nat /\ k \in Nat /\ k < PPB /\ x = Q + k /\ Q \in Nat
        /\ c < l => Q + PPB <= P
        /\ l < c => P + PPB <= Q
    BY <1>6
  <2>2. c = l => Q = P
    BY DEF P
  <2> HIDE DEF c, k, Q
  <2>3. pos <= x /\ x < pos + chunk => c = l
    BY <1>1, <1>7, <2>1, Constants
  <2>4. c = l => (pos <= x /\ x < pos + chunk <=> k \in off..(off + chunk - 1))
    BY <1>1, <1>7, <2>1, <2>2
  <2>5. pos <= x /\ x < pos + chunk <=> c = l /\ k \in off..(off + chunk - 1)
    BY <2>3, <2>4
  <2> QED BY <2>5 DEF c, k
<1> QED BY <1>7, <1>8, <1>9, <1>10, <1>11 DEF l, off, chunk

(* What Append has done so far to a file of map m and length size.         *)
Appending(f, v, m, size, total, s) ==
  /\ StateOK(s) /\ Kept(v, m, s.v, s.m) /\ Others(s.v, s.m) = Others(v, m)
  /\ s.pos >= size /\ s.pos + s.left = total
  /\ Ends(s.v, s.m, BlocksFor(s.pos))
  /\ \A x \in Positions :
       Word(s.v, s.m, x) = IF size <= x /\ x < s.pos THEN Data(f) ELSE Word(v, m, x)
  /\ s.ok /\ Trim(v, m, BlocksFor(size)) => Trim(s.v, s.m, BlocksFor(s.pos))
  /\ s.ok /\ Whole(v, m, BlocksFor(size)) => Whole(s.v, s.m, BlocksFor(s.pos))

(* A turn that fails: the map may have grown, block l is not there.        *)
LEMMA TurnFails ==
  ASSUME NEW f \in Files, NEW v, NEW m, NEW size \in Nat, NEW total \in Nat, NEW s, NEW t,
         NEW l \in 0..(Reach - 1),
         Appending(f, v, m, size, total, s), Goes(s, t, l), ~t.ok
  PROVE  Appending(f, v, m, size, total, t)
<1>1. /\ StateOK(t) /\ t.pos = s.pos /\ t.left = s.left /\ Grown(s.v, s.m, t.v, t.m, l)
      /\ At(t.v, t.m, l) = At(s.v, s.m, l)
  BY DEF Goes
<1>2. Kept(v, m, t.v, t.m) /\ Others(t.v, t.m) = Others(v, m)
  BY <1>1, KeptTwice DEF Appending, Grown
<1>3. \A x \in Positions : Word(t.v, t.m, x) = Word(s.v, s.m, x)
  BY <1>1, GrownReads
<1>4. Ends(t.v, t.m, BlocksFor(t.pos))
  <2>1. \A p \in Spots : p >= 0 => At(t.v, t.m, p) = At(s.v, s.m, p)
    BY <1>1 DEF Grown
  <2>2. Ends(s.v, s.m, BlocksFor(s.pos))
    BY DEF Appending
  <2> QED BY <1>1, <2>1, <2>2 DEF Ends
<1>5. \A x \in Positions :
        Word(t.v, t.m, x) = IF size <= x /\ x < t.pos THEN Data(f) ELSE Word(v, m, x)
  BY <1>1, <1>3 DEF Appending
<1> QED BY <1>1, <1>2, <1>4, <1>5 DEF Appending

(* A turn that has its block b and writes into it.                         *)
LEMMA TurnWrites ==
  ASSUME NEW f \in Files, NEW v, NEW m, NEW size \in Nat, NEW total \in Nat, NEW s, NEW t, NEW u,
         BlocksFor(total) <= Reach, Appending(f, v, m, size, total, s), s.ok, s.left > 0,
         Goes(s, t, Blk(s.pos)), t.ok, At(t.v, t.m, Blk(s.pos)) # 0,
         NEW words \in [Slots -> Words],
         LET l == Blk(s.pos)
             chunk == Lower(PPB - Off(s.pos), s.left)
         IN /\ u = [t EXCEPT !.v = Write(t.v, At(t.v, t.m, l), words),
                             !.pos = s.pos + chunk, !.left = s.left - chunk]
            /\ \A k \in Slots :
                 words[k] = IF k \in Off(s.pos)..(Off(s.pos) + chunk - 1) THEN Data(f)
                            ELSE PtrAt(s.v, At(s.v, s.m, l), k)
  PROVE  Appending(f, v, m, size, total, u)
<1> DEFINE pos == s.pos
           left == s.left
           l == Blk(pos)
           off == Off(pos)
           chunk == Lower(PPB - off, left)
           b == At(t.v, t.m, l)
           w == Write(t.v, b, words)
<1>1. /\ StateOK(s) /\ pos \in Nat /\ left \in Nat /\ s.m \in Maps /\ s.v \in Volumes
      /\ Kept(v, m, s.v, s.m) /\ Others(s.v, s.m) = Others(v, m)
      /\ pos >= size /\ pos + left = total
      /\ Ends(s.v, s.m, BlocksFor(pos))
  BY DEF Appending, StateOK, States
<1>2. /\ StateOK(t) /\ Grown(s.v, s.m, t.v, t.m, l) /\ t.m \in Maps /\ t \in States
      /\ VolOK(t.v) /\ Tree(t.v, t.m)
  BY DEF Goes, StateOK, States
<1>3. b # 0
  OBVIOUS
<1>4. /\ u = [t EXCEPT !.v = w, !.pos = pos + chunk, !.left = left - chunk]
      /\ \A k \in Slots :
           words[k] = IF k \in off..(off + chunk - 1) THEN Data(f) ELSE PtrAt(s.v, At(s.v, s.m, l), k)
  OBVIOUS
<1> HIDE DEF pos, left, l, off, chunk, b, w
<1>5. /\ l \in 0..(Reach - 1) /\ chunk \in Nat /\ chunk > 0 /\ chunk <= left
      /\ BlocksFor(pos + chunk) = l + 1
      /\ l <= BlocksFor(pos) /\ BlocksFor(pos) <= l + 1
      /\ \A x \in Positions :
           pos <= x /\ x < pos + chunk <=> Blk(x) = l /\ Off(x) \in off..(off + chunk - 1)
  <2>1. BlocksFor(pos + left) <= Reach /\ left > 0
    BY <1>1 DEF left
  <2> QED BY <1>1, <2>1, ChunkBounds DEF l, chunk, off
<1>6. l \in Nat /\ l \in Spots /\ l >= 0
  BY <1>5, Constants, Products DEF Spots
<1>7. /\ Kept(t.v, t.m, w, t.m)
      /\ \A p \in Spots : At(w, t.m, p) = At(t.v, t.m, p)
      /\ w.disk[b] = words
      /\ \A x \in Blocks \ {b} : w.disk[x] = t.v.disk[x]
      /\ Others(w, t.m) = Others(t.v, t.m)
  BY <1>2, <1>3, <1>6, DataWritten DEF b, w
<1>8. /\ u \in States /\ u.v = w /\ u.m = t.m /\ u.ok = t.ok /\ u.pos = pos + chunk
      /\ u.left = left - chunk
  <2>1. w \in Volumes /\ pos + chunk \in Nat /\ left - chunk \in Nat
    BY <1>1, <1>5, <1>7 DEF Kept, VolOK
  <2> DEFINE a == pos + chunk
             d == left - chunk
  <2>2. u = [t EXCEPT !.v = w, !.pos = a, !.left = d] /\ a \in Nat /\ d \in Nat
    BY <1>4, <2>1
  <2> HIDE DEF a, d
  <2>3. /\ u \in States /\ u.v = w /\ u.m = t.m /\ u.ok = t.ok /\ u.pos = a /\ u.left = d
    BY <1>2, <2>1, <2>2 DEF States
  <2> QED BY <2>3 DEF a, d
<1>9. StateOK(u)
  BY <1>7, <1>8 DEF StateOK, Kept
<1>10. Kept(v, m, u.v, u.m) /\ Others(u.v, u.m) = Others(v, m)
  <2>1. Kept(v, m, t.v, t.m) /\ Others(t.v, t.m) = Others(v, m)
    BY <1>1, <1>2, KeptTwice DEF Grown
  <2>2. Kept(v, m, w, t.m) /\ Others(w, t.m) = Others(v, m)
    BY <1>7, <2>1, KeptTwice
  <2> QED BY <1>8, <2>2
<1>11. \A p \in Spots : At(u.v, u.m, p) # At(s.v, s.m, p) => First(p) <= l /\ (p >= 0 => p = l)
  BY <1>2, <1>7, <1>8 DEF Grown
<1>12. Ends(u.v, u.m, BlocksFor(u.pos))
  <2>1. ASSUME NEW p \in Spots, p >= l + 1, p >= 0 PROVE At(u.v, u.m, p) = 0
    <3>1. p \in Int /\ p # l /\ p >= BlocksFor(pos)
      <4>1. p \in Int
        BY SpotsAreInt
      <4>2. BlocksFor(pos) \in Nat
        BY <1>1, BlockBound
      <4> QED BY <1>5, <1>6, <2>1, <4>1, <4>2
    <3>2. At(u.v, u.m, p) = At(s.v, s.m, p)
      BY <1>11, <2>1, <3>1
    <3> QED BY <1>1, <2>1, <3>1, <3>2 DEF Ends
  <2> QED BY <1>5, <1>8, <2>1 DEF Ends
<1>13. ASSUME NEW x \in Positions
       PROVE  Word(u.v, u.m, x) = IF size <= x /\ x < u.pos THEN Data(f) ELSE Word(v, m, x)
  <2>1. x \in Nat /\ Blk(x) \in Spots /\ Blk(x) \in Nat /\ Off(x) \in Slots
    BY PositionIs
  <2>2. Word(s.v, s.m, x) = IF size <= x /\ x < pos THEN Data(f) ELSE Word(v, m, x)
    BY DEF Appending, pos
  <2>3. Word(u.v, u.m, x) = PtrAt(w, At(t.v, t.m, Blk(x)), Off(x))
    BY <1>7, <1>8, <2>1 DEF Word
  <2>4. CASE Blk(x) = l
    <3>1. Word(u.v, u.m, x) = words[Off(x)]
      BY <1>3, <1>7, <2>3, <2>4 DEF PtrAt, b
    <3>2. Word(s.v, s.m, x) = PtrAt(s.v, At(s.v, s.m, l), Off(x))
      BY <2>4 DEF Word
    <3>3. words[Off(x)] = IF pos <= x /\ x < pos + chunk THEN Data(f) ELSE Word(s.v, s.m, x)
      <4>1. words[Off(x)] = IF Off(x) \in off..(off + chunk - 1) THEN Data(f)
                            ELSE PtrAt(s.v, At(s.v, s.m, l), Off(x))
        BY <1>4, <2>1
      <4>2. pos <= x /\ x < pos + chunk <=> Off(x) \in off..(off + chunk - 1)
        BY <1>5, <2>4
      <4> QED BY <3>2, <4>1, <4>2
    <3> QED BY <1>1, <1>5, <1>8, <2>1, <2>2, <3>1, <3>3
  <2>5. CASE Blk(x) # l
    <3> DEFINE y == At(t.v, t.m, Blk(x))
    <3>1. y # 0 => y \in Blocks /\ y # b
      BY <1>2, <1>3, <1>6, <2>1, <2>5, InBlocks DEF Tree, b
    <3>2. Word(t.v, t.m, x) = PtrAt(t.v, y, Off(x)) /\ Word(u.v, u.m, x) = PtrAt(w, y, Off(x))
      BY <2>3 DEF Word
    <3> HIDE DEF y
    <3>3. PtrAt(w, y, Off(x)) = PtrAt(t.v, y, Off(x))
      BY <1>7, <3>1 DEF PtrAt
    <3>4. Word(t.v, t.m, x) = Word(s.v, s.m, x)
      BY <1>2, <2>5, GrownReads
    <3>5. ~(pos <= x /\ x < pos + chunk)
      BY <1>5, <2>5
    <3> QED BY <1>1, <1>5, <1>8, <2>1, <2>2, <3>2, <3>3, <3>4, <3>5
  <2> QED BY <2>4, <2>5
<1>14. BlocksFor(pos) \in Nat /\ BlocksFor(u.pos) = l + 1 /\ \A p \in Spots : First(p) \in Nat
  BY <1>1, <1>5, <1>8, BlockBound, SpotsAreInt
<1>15. ASSUME Trim(v, m, BlocksFor(size)) PROVE Trim(u.v, u.m, BlocksFor(u.pos))
  <2>1. Trim(s.v, s.m, BlocksFor(pos))
    BY <1>15 DEF Appending, pos
  <2>2. ASSUME NEW p \in Spots, First(p) >= l + 1 PROVE At(u.v, u.m, p) = 0
    <3>1. ~(First(p) <= l) /\ First(p) >= BlocksFor(pos)
      BY <1>5, <1>6, <1>14, <2>2
    <3> QED BY <1>11, <2>1, <3>1 DEF Trim
  <2> QED BY <1>14, <2>2 DEF Trim
<1>16. ASSUME Whole(v, m, BlocksFor(size)) PROVE Whole(u.v, u.m, BlocksFor(u.pos))
  <2>1. Whole(s.v, s.m, BlocksFor(pos))
    BY <1>16 DEF Appending, pos
  <2>2. ASSUME NEW p \in Spots, First(p) < l + 1 PROVE At(u.v, u.m, p) # 0
    <3>1. CASE First(p) < BlocksFor(pos)
      <4>1. At(s.v, s.m, p) # 0
        BY <2>1, <3>1 DEF Whole
      <4>2. At(u.v, u.m, p) = At(s.v, s.m, p)
        BY <1>2, <1>7, <1>8, <4>1 DEF Grown, Stays
      <4> QED BY <4>1, <4>2
    <3>2. CASE ~(First(p) < BlocksFor(pos))
      <4>1. First(p) = l
        BY <1>5, <1>6, <1>14, <2>2, <3>2
      <4>2. At(u.v, u.m, First(p)) # 0
        BY <1>3, <1>6, <1>7, <1>8, <4>1 DEF b
      <4> QED BY <4>2, FirstNeeds
    <3> QED BY <3>1, <3>2
  <2> QED BY <1>14, <2>2 DEF Whole
<1>17. u.pos >= size /\ u.pos + u.left = total
  BY <1>1, <1>5, <1>8
<1> QED BY <1>9, <1>10, <1>12, <1>13, <1>15, <1>16, <1>17 DEF Appending

(* A turn of Append's loop, with room and without.                         *)
LEMMA AppendChunkDone ==
  ASSUME NEW f \in Files, NEW v, NEW m, NEW size \in Nat, NEW total \in Nat, NEW s,
         BlocksFor(total) <= Reach, Appending(f, v, m, size, total, s), s.ok, s.left > 0
  PROVE  Appending(f, v, m, size, total, AppendChunk(f, s))
<1> DEFINE l == s.pos \div PPB
           off == s.pos % PPB
           chunk == Lower(PPB - off, s.left)
           fresh == LogicalToPhysical(s.v, s.m, l) = 0
           t == MapOrAlloc(s, l)
           b == LogicalToPhysical(t.v, t.m, l)
           old == IF fresh THEN [k \in Slots |-> 0] ELSE t.v.disk[b]
           words == [k \in Slots |-> IF k \in off..(off + chunk - 1) THEN Data(f) ELSE old[k]]
           u == AppendChunk(f, s)
<1>1. u = IF ~t.ok THEN t
          ELSE [t EXCEPT !.v = Write(t.v, b, words), !.pos = @ + chunk, !.left = @ - chunk]
  BY Zenon DEF AppendChunk
<1>2. l = Blk(s.pos) /\ off = Off(s.pos)
  BY DEF Blk, Off
<1>3. StateOK(s) /\ s.pos \in Nat /\ s.left \in Nat /\ s.pos + s.left = total
  BY DEF Appending, StateOK, States
<1>4. Blk(s.pos) \in 0..(Reach - 1)
  BY <1>3, ChunkBounds
<1> HIDE DEF l, off
<1>5. l \in 0..(Reach - 1) /\ l \in Spots /\ l >= 0
  BY <1>2, <1>4, Constants, Products DEF Spots
<1>6. Goes(s, t, l) /\ (t.ok => At(t.v, t.m, l) # 0)
  BY <1>3, <1>5, MapOrAllocDone
<1>7. b = At(t.v, t.m, l) /\ (fresh <=> At(s.v, s.m, l) = 0)
  BY <1>5 DEF At
<1>8. \A k \in Slots : words[k] = IF k \in off..(off + chunk - 1) THEN Data(f) ELSE old[k]
  OBVIOUS
<1>9. fresh => \A k \in Slots : old[k] = 0
  OBVIOUS
<1>10. ~fresh => old = t.v.disk[b]
  OBVIOUS
<1>11. old \in [Slots -> Words] => words \in [Slots -> Words]
  <2>1. Data(f) \in Words
    BY WordsAre
  <2> HIDE DEF old, chunk
  <2> QED BY <2>1
<1>12. fresh => old \in [Slots -> Words]
  BY WordsAre, Constants
<1> HIDE DEF fresh, t, b, old, words, u, chunk
<1>13. CASE ~t.ok
  <2>1. u = t
    BY <1>1, <1>13
  <2>2. Appending(f, v, m, size, total, t)
    BY <1>5, <1>6, <1>13, TurnFails
  <2> QED BY <2>1, <2>2 DEF u
<1>14. CASE t.ok
  <2>1. b # 0 /\ b = At(t.v, t.m, l) /\ StateOK(t) /\ t.pos = s.pos /\ t.left = s.left
    BY <1>6, <1>7, <1>14 DEF Goes
  <2>2. b \in Blocks /\ VolOK(t.v)
    BY <1>5, <2>1, InBlocks DEF StateOK
  <2>3. old \in [Slots -> Words]
    BY <1>10, <1>12, <2>2, DiskWords
  <2>4. words \in [Slots -> Words]
    BY <1>11, <2>3
  <2>5. ASSUME NEW k \in Slots PROVE old[k] = PtrAt(s.v, At(s.v, s.m, l), k)
    <3>1. CASE fresh
      BY <1>7, <1>9, <3>1 DEF PtrAt
    <3>2. CASE ~fresh
      <4>1. At(s.v, s.m, l) # 0
        BY <1>7, <3>2
      <4>2. b = At(s.v, s.m, l) /\ t.v.disk[At(s.v, s.m, l)] = s.v.disk[At(s.v, s.m, l)]
        BY <1>5, <1>6, <2>1, <4>1 DEF Goes, Grown, Stays
      <4> QED BY <1>10, <3>2, <4>1, <4>2 DEF PtrAt
    <3> QED BY <3>1, <3>2
  <2>6. u = [t EXCEPT !.v = Write(t.v, b, words), !.pos = s.pos + chunk, !.left = s.left - chunk]
    <3>1. u = [t EXCEPT !.v = Write(t.v, b, words), !.pos = t.pos + chunk, !.left = t.left - chunk]
      BY <1>1, <1>14
    <3> QED BY <2>1, <3>1
  <2>7. \A k \in Slots : words[k] = IF k \in off..(off + chunk - 1) THEN Data(f)
                                    ELSE PtrAt(s.v, At(s.v, s.m, l), k)
    BY <1>8, <2>5
  <2>8. chunk = Lower(PPB - Off(s.pos), s.left)
    BY <1>2 DEF chunk
  <2>9. Goes(s, t, Blk(s.pos)) /\ At(t.v, t.m, Blk(s.pos)) # 0
    BY <1>2, <1>6, <1>14
  <2>10. Appending(f, v, m, size, total, u)
    <3>1. /\ u = [t EXCEPT !.v = Write(t.v, At(t.v, t.m, Blk(s.pos)), words),
                           !.pos = s.pos + Lower(PPB - Off(s.pos), s.left),
                           !.left = s.left - Lower(PPB - Off(s.pos), s.left)]
          /\ \A k \in Slots :
               words[k] = IF k \in Off(s.pos)..(Off(s.pos) + Lower(PPB - Off(s.pos), s.left) - 1)
                          THEN Data(f) ELSE PtrAt(s.v, At(s.v, s.m, Blk(s.pos)), k)
      BY <1>2, <2>1, <2>6, <2>7, <2>8
    <3> QED BY <1>14, <2>4, <2>9, <3>1, TurnWrites
  <2> QED BY <2>10 DEF u
<1> QED BY <1>13, <1>14

(* The state before the first turn, and one turn.                          *)
Begun(v, i, n) == [v |-> v, m |-> i.map, ok |-> TRUE, pos |-> i.size, left |-> n]
Turned(f, s) == IF s.ok /\ s.left > 0 THEN AppendChunk(f, s) ELSE s

LEMMA TurnedDone ==
  ASSUME NEW f \in Files, NEW v, NEW m, NEW size \in Nat, NEW total \in Nat, NEW s,
         BlocksFor(total) <= Reach, Appending(f, v, m, size, total, s)
  PROVE  Appending(f, v, m, size, total, Turned(f, s))
<1>1. CASE s.ok /\ s.left > 0
  <2>1. Turned(f, s) = AppendChunk(f, s)
    BY <1>1 DEF Turned
  <2> QED BY <1>1, <2>1, AppendChunkDone
<1>2. CASE ~(s.ok /\ s.left > 0)
  <2>1. Turned(f, s) = s
    BY <1>2 DEF Turned
  <2> QED BY <2>1
<1> QED BY <1>1, <1>2

LEMMA BegunIs ==
  ASSUME NEW f \in Files, NEW v, NEW i, VolOK(v), InOrder(v, i), NEW n \in Nat
  PROVE  Appending(f, v, i.map, i.size, i.size + n, Begun(v, i, n))
<1> DEFINE s == Begun(v, i, n)
           m == i.map
           size == i.size
<1>1. m \in Maps /\ size \in Nat /\ v \in Volumes /\ Tree(v, m) /\ Ends(v, m, BlocksFor(size))
  BY DEF InOrder, Nodes, VolOK
<1>2. s.v = v /\ s.m = m /\ s.ok = TRUE /\ s.pos = size /\ s.left = n
  BY DEF Begun
<1>3. s \in States
  BY <1>1 DEF Begun, States
<1>4. Kept(v, m, v, m)
  BY <1>1, KeptNothing
<1>5. \A x \in Positions : x \in Nat
  BY PositionIs
<1> HIDE DEF s, m, size
<1>6. StateOK(s)
  BY <1>1, <1>2, <1>3 DEF StateOK
<1>7. \A x \in Positions :
        Word(s.v, s.m, x) = IF size <= x /\ x < s.pos THEN Data(f) ELSE Word(v, m, x)
  BY <1>1, <1>2, <1>5
<1>8. s.pos >= size /\ s.pos + s.left = size + n
  BY <1>1, <1>2
<1>9. Appending(f, v, m, size, size + n, s)
  BY <1>1, <1>2, <1>4, <1>6, <1>7, <1>8 DEF Appending
<1> QED BY <1>9 DEF s, m, size

(* The loop of Append ends where it says: the words of the file stay, and  *)
(* those after them are the new ones.                                      *)
LEMMA AppendedDone ==
  ASSUME NEW f \in Files, VolOK(vol), InOrder(vol, inode[f]), NEW n \in Nat,
         BlocksFor(inode[f].size + n) <= Reach
  PROVE  Appending(f, vol, inode[f].map, inode[f].size, inode[f].size + n, Appended(f, n))
<1> DEFINE i == inode[f]
           m == i.map
           size == i.size
           total == size + n
           a == Begun(vol, i, n)
           Eq(g) == g = [k \in 0..n |-> IF k = 0 THEN a ELSE Turned(f, g[k - 1])]
           turn == CHOOSE g : Eq(g)
           F == [k \in 1..n |-> [x \in States |-> Turned(f, x)]]
           G == [k \in 0..n |-> {x \in States : Appending(f, vol, m, size, total, x)}]
<1>1. Appended(f, n) = turn[n]
  BY Zenon DEF Appended, Begun, Turned
<1>2. size \in Nat /\ total \in Nat /\ BlocksFor(total) <= Reach
  BY DEF InOrder, Nodes
<1>3. ASSUME NEW x, Appending(f, vol, m, size, total, x)
      PROVE  Appending(f, vol, m, size, total, Turned(f, x))
  <2> HIDE DEF m, size, total
  <2> QED BY <1>2, <1>3, TurnedDone
<1>4. \A x : Appending(f, vol, m, size, total, x) => x \in States
  BY DEF Appending, StateOK
<1>5. Appending(f, vol, m, size, total, a)
  BY BegunIs
<1>6. a \in G[0]
  <2> HIDE DEF a, m, size, total
  <2> QED BY <1>4, <1>5
<1>7. Leads(F, G, n)
  <2> HIDE DEF a, m, size, total
  <2>1. ASSUME NEW k \in 1..n, NEW x \in G[k - 1] PROVE F[k][x] \in G[k]
    <3>1. k - 1 \in 0..n /\ k \in 0..n
      OBVIOUS
    <3>2. x \in States /\ Appending(f, vol, m, size, total, x)
      BY <2>1, <3>1
    <3>3. F[k][x] = Turned(f, x)
      BY <3>2
    <3> QED BY <1>3, <1>4, <3>1, <3>2, <3>3
  <2> HIDE DEF F, G
  <2> QED BY <2>1 DEF Leads
<1>8. \A k \in 0..n : G[k] \subseteq States
  <2> HIDE DEF m, size, total
  <2> QED OBVIOUS
<1>9. \A k \in 1..n : \A x \in States : F[k][x] = Turned(f, x)
  OBVIOUS
<1>10. \A x \in G[n] : Appending(f, vol, m, size, total, x)
  <2> HIDE DEF m, size, total
  <2> QED OBVIOUS
<1> HIDE DEF F, G, a, m, size, total, i, turn
<1>12. \E g : Eq(g)
  <2> HIDE DEF Eq
  <2>1. PICK g : Runs(g, F, a, n) /\ g \in [0..n -> States]
    BY <1>6, <1>7, <1>8, SomeRun
  <2>2. ASSUME NEW k \in 0..n PROVE g[k] = IF k = 0 THEN a ELSE Turned(f, g[k - 1])
    <3>1. CASE k = 0
      BY <2>1, <3>1 DEF Runs
    <3>2. CASE k # 0
      <4>1. k \in 1..n /\ k - 1 \in 0..n
        BY <3>2
      <4>2. g[k] = F[k][g[k - 1]] /\ g[k - 1] \in States
        BY <2>1, <4>1 DEF Runs
      <4> QED BY <1>9, <3>2, <4>1, <4>2
    <3> QED BY <3>1, <3>2
  <2>3. g = [k \in 0..n |-> g[k]]
    BY <2>1
  <2>4. g = [k \in 0..n |-> IF k = 0 THEN a ELSE Turned(f, g[k - 1])]
    BY <2>2, <2>3
  <2>5. Eq(g)
    BY <2>4 DEF Eq
  <2> QED BY <2>5
<1>13. Eq(turn)
  <2> HIDE DEF Eq
  <2> QED BY Zenon, <1>12 DEF turn
<1> DEFINE T == {k \in 0..n : turn[k] \in G[k]}
<1>14. turn[0] = a
  BY <1>13
<1>15. ASSUME NEW k \in 0..n - 1, k \in T PROVE k + 1 \in T
  <2>1. k + 1 \in 1..n /\ k + 1 \in 0..n /\ (k + 1) - 1 = k /\ k \in 0..n
    OBVIOUS
  <2>2. turn[k] \in G[k] /\ turn[k] \in States
    BY <1>8, <1>15, <2>1
  <2>3. turn[k + 1] = Turned(f, turn[k])
    BY <1>13, <2>1
  <2>4. F[k + 1][turn[k]] = turn[k + 1]
    BY <1>9, <2>1, <2>2, <2>3
  <2>5. F[k + 1][turn[k]] \in G[k + 1]
    BY <1>7, <2>1, <2>2 DEF Leads
  <2> QED BY <2>1, <2>4, <2>5
<1>16. 0 \in T
  BY <1>6, <1>14
<1> HIDE DEF T, Eq
<1>17. 0..n \subseteq T
  BY <1>15, <1>16, UpTo
<1>18. turn[n] \in G[n]
  BY <1>17 DEF T
<1>19. Appending(f, vol, m, size, total, Appended(f, n))
  BY <1>1, <1>10, <1>18 DEF turn
<1> QED BY <1>19 DEF m, size, total, i

-------------------------------------------------------------------------------
(* Write_Small.                                                            *)

(* A pointer is set in the single indirect block.                          *)
LEMMA PointerSet ==
  ASSUME NEW v, NEW m \in Maps, NEW k \in Slots, VolOK(v), Tree(v, m), m.ind # 0, NEW b \in Words
  PROVE  LET w == WriteAt(v, m.ind, k, b)
         IN /\ VolOK(w) /\ w.bitmap = v.bitmap /\ m.ind \in Blocks
            /\ \A x \in Blocks : x # m.ind => w.disk[x] = v.disk[x]
            /\ At(w, m, Single(k)) = b
            /\ \A p \in Spots \ {Single(k)} : At(w, m, p) = At(v, m, p)
<1> DEFINE w == WriteAt(v, m.ind, k, b)
<1>3. m.ind \in Blocks /\ At(v, m, -1) = m.ind /\ -1 \in Spots
  <2>1. At(v, m, -1) = m.ind /\ -1 \in Spots
    BY AtInd, RootsAre
  <2>2. At(v, m, -1) # 0
    BY <2>1
  <2> QED BY <2>1, <2>2, InBlocks
<1>4. /\ VolOK(w) /\ w.bitmap = v.bitmap /\ w.disk[m.ind][k] = b
      /\ \A j \in Slots : j # k => w.disk[m.ind][j] = v.disk[m.ind][j]
      /\ \A x \in Blocks : x # m.ind => w.disk[x] = v.disk[x]
  <2>1. /\ VolOK(w) /\ w.bitmap = v.bitmap /\ w.disk[m.ind][k] = b
        /\ \A j \in Slots \ {k} : w.disk[m.ind][j] = v.disk[m.ind][j]
        /\ \A x \in Blocks \ {m.ind} : w.disk[x] = v.disk[x]
    BY <1>3, WrittenAt
  <2> QED BY <2>1
<1> HIDE DEF w
<1>5. ASSUME NEW p \in Spots, p # -1, At(v, m, p) # 0
      PROVE  w.disk[At(v, m, p)] = v.disk[At(v, m, p)]
  <2>1. At(v, m, p) \in Blocks
    BY <1>5, InBlocks
  <2>2. At(v, m, p) # m.ind
    BY <1>3, <1>5 DEF Tree
  <2> QED BY <1>4, <2>1, <2>2
<1>6. \A p \in 0..(NDirect - 1) : At(w, m, p) = At(v, m, p)
  BY DirectSame
<1>7. \A p \in DoubleSpots : At(w, m, p) = At(v, m, p)
  <2>1. At(v, m, -2) = m.dbl /\ -2 \in Spots /\ -2 # -1
    BY AtDbl, RootsAre
  <2>2. m.dbl # 0 => w.disk[m.dbl] = v.disk[m.dbl]
    BY <1>5, <2>1
  <2>3. ASSUME NEW c \in Slots, PtrAt(v, m.dbl, c) # 0
        PROVE  w.disk[PtrAt(v, m.dbl, c)] = v.disk[PtrAt(v, m.dbl, c)]
    <3>1. At(v, m, Child(c)) = PtrAt(v, m.dbl, c) /\ Child(c) \in Spots /\ Child(c) # -1
      BY AtChild, ChildIs
    <3> QED BY <1>5, <2>3, <3>1
  <2> QED BY <2>2, <2>3, DoubleSame
<1>8. \A j \in Slots : PtrAt(w, m.ind, j) = IF j = k THEN b ELSE PtrAt(v, m.ind, j)
  BY <1>4 DEF PtrAt
<1>9. \A j \in Slots : At(w, m, Single(j)) = IF j = k THEN b ELSE At(v, m, Single(j))
  BY <1>8, AtSingle
<1>10. At(w, m, -1) = At(v, m, -1)
  BY AtInd
<1>11. \A p \in Spots \ {Single(k)} : At(w, m, p) = At(v, m, p)
  BY <1>6, <1>7, <1>9, <1>10, Regions
<1>12. At(w, m, Single(k)) = b
  BY <1>9
<1> QED BY <1>3, <1>4, <1>11, <1>12 DEF w

(* A block is taken and written, and no map leads to it yet.               *)
LEMMA Stored ==
  ASSUME NEW v, NEW m, VolOK(v), Tree(v, m), HasSpace(v), NEW words \in [Slots -> Words]
  PROVE  LET b == Lowest(v)
             w == Write(AllocBlock(v), b, words)
         IN /\ VolOK(w) /\ Tree(w, m) /\ w.bitmap = v.bitmap \cup {b}
            /\ b \in Others(w, m)
            /\ \A p \in Spots : At(w, m, p) = At(v, m, p)
            /\ \A p \in Spots : At(v, m, p) # b
            /\ w.disk[b] = words /\ \A x \in Blocks \ {b} : w.disk[x] = v.disk[x]
<1> DEFINE b == Lowest(v)
           w == Write(AllocBlock(v), b, words)
<1>1. /\ b \in Blocks /\ b \notin v.bitmap /\ \A p \in Spots : At(v, m, p) # b
  BY NewBlock
<1>2. /\ VolOK(AllocBlock(v)) /\ AllocBlock(v).bitmap = v.bitmap \cup {b} /\ AllocBlock(v).disk = v.disk
  BY Allocated
<1> HIDE DEF b
<1>3. /\ VolOK(w) /\ w.bitmap = v.bitmap \cup {b} /\ w.disk[b] = words
      /\ \A x \in Blocks \ {b} : w.disk[x] = v.disk[x]
  BY <1>1, <1>2, WrittenTo
<1> HIDE DEF w
<1>4. ASSUME NEW p \in Spots, At(v, m, p) # 0 PROVE w.disk[At(v, m, p)] = v.disk[At(v, m, p)]
  <2>1. At(v, m, p) \in Blocks /\ At(v, m, p) # b
    BY <1>1, <1>4, InBlocks
  <2> QED BY <1>3, <2>1
<1>5. \A p \in Spots : At(w, m, p) = At(v, m, p)
  BY <1>4, MapSame
<1>6. Tree(w, m)
  BY <1>3, <1>5 DEF Tree
<1>7. b \in Others(w, m)
  BY <1>1, <1>3, <1>5 DEF Others, Own
<1> QED BY <1>1, <1>3, <1>5, <1>6, <1>7 DEF b, w

(* An empty spot comes to lead to a block in use that was in no map.       *)
LEMMA Adopted ==
  ASSUME NEW v, NEW m, NEW w, NEW n, NEW q \in Spots, NEW b, Tree(v, m), b \in Others(v, m),
         At(v, m, q) = 0, w.bitmap = v.bitmap, At(w, n, q) = b, b # 0,
         \A p \in Spots \ {q} : At(w, n, p) = At(v, m, p)
  PROVE  Tree(w, n) /\ Others(w, n) = Others(v, m) \ {b}
<1>1. b \in v.bitmap /\ \A p \in Spots : At(v, m, p) # b
  BY DEF Others, Own
<1>2. \A p \in Spots : p # q => At(w, n, p) = At(v, m, p)
  OBVIOUS
<1>3. Tree(w, n)
  <2>1. \A p \in Spots : At(w, n, p) # 0 => At(w, n, p) \in w.bitmap
    BY <1>1, <1>2 DEF Tree
  <2>2. \A p, r \in Spots : At(w, n, p) = At(w, n, r) /\ At(w, n, p) # 0 => p = r
    BY <1>1, <1>2 DEF Tree
  <2> QED BY <2>1, <2>2 DEF Tree
<1>4. Own(w, n) = Own(v, m) \cup {b}
  BY <1>2 DEF Own
<1> QED BY <1>3, <1>4 DEF Others

(* The single indirect block is forgotten, where it led to nothing.        *)
LEMMA IndDropped ==
  ASSUME NEW v, NEW m \in Maps, VolOK(v), Tree(v, m), Ends(v, m, NDirect)
  PROVE  LET n == [m EXCEPT !.ind = 0]
         IN /\ n \in Maps /\ n.ind = 0 /\ Tree(v, n)
            /\ \A p \in Spots \ {-1} : At(v, n, p) = At(v, m, p)
            /\ Others(v, m) \subseteq Others(v, n)
            /\ m.ind = 0 => Others(v, n) = Others(v, m)
            /\ \A b : [n EXCEPT !.ind = b] = [m EXCEPT !.ind = b]
<1> DEFINE n == [m EXCEPT !.ind = 0]
<1>1. n \in Maps /\ n.ind = 0 /\ n.dbl = m.dbl /\ n.direct = m.direct
  BY Constants DEF Maps
<1>2. \A b : [n EXCEPT !.ind = b] = [m EXCEPT !.ind = b]
  BY DEF Maps
<1> HIDE DEF n
<1>3. \A p \in 0..(NDirect - 1) : At(v, n, p) = At(v, m, p)
  BY <1>1, DirectSame
<1>4. \A p \in DoubleSpots : At(v, n, p) = At(v, m, p)
  BY <1>1, DoubleSame
<1>5. ASSUME NEW k \in Slots PROVE At(v, n, Single(k)) = At(v, m, Single(k))
  <2>1. At(v, n, Single(k)) = 0
    BY <1>1, AtSingle DEF PtrAt
  <2>2. Single(k) \in Spots /\ Single(k) >= NDirect /\ Single(k) >= 0
    BY SingleIs, Constants
  <2>3. At(v, m, Single(k)) = 0
    BY <2>2 DEF Ends
  <2> QED BY <2>1, <2>3
<1>6. \A p \in Spots \ {-1} : At(v, n, p) = At(v, m, p)
  BY <1>3, <1>4, <1>5, Regions
<1>7. At(v, n, -1) = 0
  BY <1>1, AtInd
<1>8. Tree(v, n)
  <2>1. \A p \in Spots : At(v, n, p) # 0 => At(v, n, p) = At(v, m, p)
    BY <1>6, <1>7
  <2> QED BY <2>1 DEF Tree
<1>9. Own(v, n) \subseteq Own(v, m)
  BY <1>6, <1>7 DEF Own
<1>10. m.ind = 0 => Own(v, n) = Own(v, m)
  <2>1. m.ind = 0 => \A p \in Spots : At(v, n, p) = At(v, m, p)
    BY <1>6, <1>7, AtInd
  <2> QED BY <2>1 DEF Own
<1>11. Others(v, m) \subseteq Others(v, n) /\ (m.ind = 0 => Others(v, n) = Others(v, m))
  BY <1>9, <1>10 DEF Others
<1> QED BY <1>1, <1>2, <1>6, <1>8, <1>11 DEF n

(* What a turn of Write_Small does: a new block at spot l.                 *)
Filled(v, m, w, n, l, i, words) ==
  /\ VolOK(w) /\ n \in Maps /\ Tree(w, n) /\ v.bitmap \subseteq w.bitmap
  /\ \A x \in v.bitmap : x # i => w.disk[x] = v.disk[x]
  /\ At(w, n, l) # 0 /\ At(w, n, l) \notin v.bitmap /\ w.disk[At(w, n, l)] = words
  /\ \A p \in Spots : p # l /\ p # -1 => At(w, n, p) = At(v, m, p)
  /\ n.ind = m.ind \/ n.ind \notin v.bitmap
  /\ n.ind = m.ind \/ m.ind = 0 => Others(w, n) = Others(v, m)

(* WriteBlock, for a direct block, for one behind the single indirect      *)
(* block and for the first of these.                                       *)
LEMMA FilledDirect ==
  ASSUME NEW v, NEW m \in Maps, NEW l \in 0..(NDirect - 1), VolOK(v), Tree(v, m), HasSpace(v),
         At(v, m, l) = 0, NEW words \in [Slots -> Words]
  PROVE  Filled(v, m, Write(AllocBlock(v), Lowest(v), words), [m EXCEPT !.direct[l] = Lowest(v)],
                l, 0, words)
<1> DEFINE b == Lowest(v)
           w == Write(AllocBlock(v), b, words)
           n == [m EXCEPT !.direct[l] = b]
<1>1. b \in Blocks /\ b \notin v.bitmap /\ b # 0 /\ b \in 0..NBlocks
  BY NewBlock
<1>2. /\ VolOK(w) /\ Tree(w, m) /\ w.bitmap = v.bitmap \cup {b}
      /\ b \in Others(w, m)
      /\ \A p \in Spots : At(w, m, p) = At(v, m, p)
      /\ w.disk[b] = words /\ \A x \in Blocks \ {b} : w.disk[x] = v.disk[x]
  BY Stored
<1> HIDE DEF b, w
<1>3. /\ n \in Maps /\ n.ind = m.ind /\ n.dbl = m.dbl /\ n.direct[l] = b
      /\ \A p \in 0..(NDirect - 1) : p # l => n.direct[p] = m.direct[p]
  BY <1>1 DEF Maps
<1> HIDE DEF n
<1>4. l \in Spots /\ At(w, n, l) = b /\ At(w, m, l) = 0
  BY <1>2, <1>3, AtDirect, DirectIs
<1>5. \A p \in 0..(NDirect - 1) : p # l => At(w, n, p) = At(w, m, p)
  BY <1>3, AtDirect
<1>6. \A p \in SingleSpots : At(w, n, p) = At(w, m, p)
  BY <1>3, SingleSame
<1>7. \A p \in DoubleSpots : At(w, n, p) = At(w, m, p)
  BY <1>3, DoubleSame
<1>8. \A p \in Spots \ {l} : At(w, n, p) = At(w, m, p)
  BY <1>5, <1>6, <1>7, Regions
<1>9. Tree(w, n) /\ Others(w, n) = Others(w, m) \ {b}
  <2>1. /\ Tree(w, m) /\ b \in Others(w, m) /\ b # 0
        /\ l \in Spots /\ At(w, m, l) = 0
        /\ w.bitmap = w.bitmap /\ At(w, n, l) = b
    BY <1>1, <1>2, <1>4
  <2>2. \A p \in Spots \ {l} : At(w, n, p) = At(w, m, p)
    BY <1>8
  <2> QED BY <2>1, <2>2, Adopted
<1>10. Own(w, m) = Own(v, m)
  BY <1>2 DEF Own
<1>11. Others(w, m) = Others(v, m) \cup {b}
  BY <1>2, <1>10 DEF Others
<1>12. Others(w, n) = Others(v, m)
  BY <1>1, <1>9, <1>11 DEF Others
<1>13. \A x \in v.bitmap : w.disk[x] = v.disk[x]
  BY <1>1, <1>2, BitmapBlocks
<1>14. \A p \in Spots : p # l /\ p # -1 => At(w, n, p) = At(v, m, p)
  BY <1>2, <1>8
<1>15. Filled(v, m, w, n, l, 0, words)
  BY <1>1, <1>2, <1>3, <1>4, <1>9, <1>12, <1>13, <1>14 DEF Filled
<1> QED BY <1>15 DEF w, n, b

LEMMA FilledSingle ==
  ASSUME NEW v, NEW m \in Maps, NEW k \in Slots, VolOK(v), Tree(v, m), HasSpace(v),
         m.ind # 0, At(v, m, Single(k)) = 0, NEW words \in [Slots -> Words]
  PROVE  Filled(v, m, WriteAt(Write(AllocBlock(v), Lowest(v), words), m.ind, k, Lowest(v)), m,
                Single(k), m.ind, words)
<1> DEFINE b == Lowest(v)
           d == Write(AllocBlock(v), b, words)
           w == WriteAt(d, m.ind, k, b)
           l == Single(k)
<1>1. b \in Blocks /\ b \notin v.bitmap /\ b # 0 /\ b \in Words
  BY NewBlock
<1>2. /\ VolOK(d) /\ Tree(d, m) /\ d.bitmap = v.bitmap \cup {b}
      /\ b \in Others(d, m)
      /\ \A p \in Spots : At(d, m, p) = At(v, m, p)
      /\ \A p \in Spots : At(v, m, p) # b
      /\ d.disk[b] = words /\ \A x \in Blocks \ {b} : d.disk[x] = v.disk[x]
  BY Stored
<1> HIDE DEF b, d
<1>3. /\ VolOK(w) /\ w.bitmap = d.bitmap /\ m.ind \in Blocks
      /\ \A x \in Blocks : x # m.ind => w.disk[x] = d.disk[x]
      /\ At(w, m, l) = b
      /\ \A p \in Spots \ {l} : At(w, m, p) = At(d, m, p)
  BY <1>1, <1>2, PointerSet
<1>4. l \in Spots
  BY SingleIs
<1>5. At(d, m, l) = 0
  BY <1>2, <1>4
<1> HIDE DEF w, l
<1>6. Tree(w, m) /\ Others(w, m) = Others(d, m) \ {b}
  <2>1. /\ Tree(d, m) /\ b \in Others(d, m) /\ b # 0
        /\ l \in Spots /\ At(d, m, l) = 0
        /\ w.bitmap = d.bitmap /\ At(w, m, l) = b
    BY <1>1, <1>2, <1>3, <1>4, <1>5
  <2>2. \A p \in Spots \ {l} : At(w, m, p) = At(d, m, p)
    BY <1>3
  <2> QED BY <2>1, <2>2, Adopted
<1>7. Own(d, m) = Own(v, m)
  BY <1>2 DEF Own
<1>8. Others(d, m) = Others(v, m) \cup {b}
  BY <1>2, <1>7 DEF Others
<1>9. Others(w, m) = Others(v, m)
  BY <1>1, <1>6, <1>8 DEF Others
<1>10. \A x \in v.bitmap : x # m.ind => w.disk[x] = v.disk[x]
  BY <1>1, <1>2, <1>3, BitmapBlocks
<1>11. b # m.ind
  <2>1. At(v, m, -1) = m.ind /\ -1 \in Spots
    BY AtInd, RootsAre
  <2> QED BY <1>2, <2>1
<1>12. \A p \in Spots : p # l /\ p # -1 => At(w, m, p) = At(v, m, p)
  BY <1>2, <1>3
<1>13. w.disk[b] = words
  BY <1>1, <1>2, <1>3, <1>11
<1>14. Filled(v, m, w, m, l, m.ind, words)
  BY <1>1, <1>2, <1>3, <1>6, <1>9, <1>10, <1>12, <1>13 DEF Filled
<1> QED BY <1>14 DEF w, d, b, l

LEMMA FilledFirst ==
  ASSUME NEW v, NEW m \in Maps, VolOK(v), Tree(v, m), HasSpace(v), Ends(v, m, NDirect),
         NEW words \in [Slots -> Words],
         HasSpace(Write(AllocBlock(v), Lowest(v), words))
  PROVE  LET d == Write(AllocBlock(v), Lowest(v), words)
             c == Lowest(d)
             n == [m EXCEPT !.ind = c]
         IN /\ Filled(v, m, WriteAt(NewPointers(d), c, 0, Lowest(v)), n, Single(0), 0, words)
            /\ n.ind = c /\ c \in Blocks /\ c # 0 /\ c \notin v.bitmap
<1> DEFINE b == Lowest(v)
           d == Write(AllocBlock(v), b, words)
           c == Lowest(d)
           e == NewPointers(d)
           z == [m EXCEPT !.ind = 0]
           n == [m EXCEPT !.ind = c]
           w == WriteAt(e, c, 0, b)
           l == Single(0)
<1>0. HasSpace(d)
  OBVIOUS
<1>1. b \in Blocks /\ b \notin v.bitmap /\ b # 0 /\ b \in Words
  BY NewBlock
<1>2. /\ z \in Maps /\ z.ind = 0 /\ Tree(v, z)
      /\ \A p \in Spots \ {-1} : At(v, z, p) = At(v, m, p)
      /\ Others(v, m) \subseteq Others(v, z)
      /\ m.ind = 0 => Others(v, z) = Others(v, m)
      /\ [z EXCEPT !.ind = c] = n
  BY IndDropped
<1> HIDE DEF z
<1>3. /\ VolOK(d) /\ Tree(d, z) /\ d.bitmap = v.bitmap \cup {b}
      /\ b \in Others(d, z)
      /\ \A p \in Spots : At(d, z, p) = At(v, z, p)
      /\ \A p \in Spots : At(v, z, p) # b
      /\ d.disk[b] = words /\ \A x \in Blocks \ {b} : d.disk[x] = v.disk[x]
  BY <1>2, Stored
<1> HIDE DEF b, d
<1>4. c \in Blocks /\ c \notin d.bitmap /\ c # 0 /\ c \in 0..NBlocks
  BY <1>0, <1>3, NewBlock
<1>5. Planted(d, z, e, [z EXCEPT !.ind = c], -1, c) /\ VolOK(e) /\ [z EXCEPT !.ind = c] \in Maps
  BY <1>0, <1>2, <1>3, PlantedInd
<1>6. e.bitmap = d.bitmap \cup {c} /\ \A x \in Blocks \ {c} : e.disk[x] = d.disk[x]
  BY <1>0, <1>3, PointersNew
<1>7. n.ind = c
  BY DEF Maps
<1> HIDE DEF c, e, n
<1>8. Planted(d, z, e, n, -1, c) /\ VolOK(e) /\ n \in Maps
  BY <1>2, <1>5
<1>9. Grown(d, z, e, n, NDirect)
  <2>1. First(-1) <= NDirect
    BY RootsAre, Constants
  <2>2. -1 >= 0 => -1 = NDirect
    OBVIOUS
  <2> QED BY <1>3, <1>8, <2>1, <2>2, PlantedGrows
<1>10. Tree(e, n) /\ Others(e, n) = Others(d, z) /\ b \in Others(e, n)
  BY <1>3, <1>9 DEF Grown, Kept
<1>11. \A p \in Spots \ {-1} : At(e, n, p) = At(d, z, p)
  BY <1>8 DEF Planted
<1>12. 0 \in Slots
  BY Constants DEF Slots
<1>13. /\ VolOK(w) /\ w.bitmap = e.bitmap
       /\ \A x \in Blocks : x # c => w.disk[x] = e.disk[x]
       /\ At(w, n, l) = b
       /\ \A p \in Spots \ {l} : At(w, n, p) = At(e, n, p)
  <2>1. n.ind # 0
    BY <1>4, <1>7
  <2> DEFINE y == WriteAt(e, n.ind, 0, b)
  <2>2. /\ VolOK(y) /\ y.bitmap = e.bitmap
        /\ \A x \in Blocks : x # n.ind => y.disk[x] = e.disk[x]
        /\ At(y, n, l) = b
        /\ \A p \in Spots \ {l} : At(y, n, p) = At(e, n, p)
    BY <1>1, <1>8, <1>10, <1>12, <2>1, PointerSet
  <2> QED BY <1>7, <2>2
<1>14. l \in Spots /\ l # -1 /\ l >= NDirect /\ l >= 0
  BY <1>12, SingleIs, Constants
<1>15. At(e, n, l) = 0
  <2>1. At(v, m, l) = 0
    BY <1>14 DEF Ends
  <2> QED BY <1>2, <1>3, <1>11, <1>14, <2>1
<1> HIDE DEF w, l
<1>16. Tree(w, n) /\ Others(w, n) = Others(e, n) \ {b}
  <2>1. /\ Tree(e, n) /\ b \in Others(e, n) /\ b # 0
        /\ l \in Spots /\ At(e, n, l) = 0
        /\ w.bitmap = e.bitmap /\ At(w, n, l) = b
    BY <1>1, <1>10, <1>13, <1>14, <1>15
  <2>2. \A p \in Spots \ {l} : At(w, n, p) = At(e, n, p)
    BY <1>13
  <2> QED BY <2>1, <2>2, Adopted
<1>17. Own(d, z) = Own(v, z)
  BY <1>3 DEF Own
<1>18. Others(d, z) = Others(v, z) \cup {b}
  BY <1>3, <1>17 DEF Others
<1>19. m.ind = 0 => Others(w, n) = Others(v, m)
  <2>1. Others(w, n) = Others(v, z)
    BY <1>1, <1>10, <1>16, <1>18 DEF Others
  <2> QED BY <1>2, <2>1
<1>20. c \notin v.bitmap /\ c # b
  BY <1>3, <1>4
<1>21. \A x \in v.bitmap : w.disk[x] = v.disk[x]
  <2>1. \A x \in v.bitmap : x \in Blocks /\ x # b /\ x # c
    BY <1>1, <1>20, BitmapBlocks
  <2> QED BY <1>3, <1>6, <1>13, <2>1
<1>22. w.disk[b] = words
  BY <1>1, <1>3, <1>6, <1>13, <1>20
<1>23. \A p \in Spots : p # l /\ p # -1 => At(w, n, p) = At(v, m, p)
  BY <1>2, <1>3, <1>11, <1>13
<1>24. v.bitmap \subseteq w.bitmap
  BY <1>3, <1>6, <1>13
<1>25. n.ind # m.ind \/ m.ind = 0 \/ m.ind \in v.bitmap
  <2>1. At(v, m, -1) = m.ind /\ -1 \in Spots
    BY AtInd, RootsAre
  <2> QED BY <2>1 DEF Tree
<1>26. n.ind # m.ind
  BY <1>4, <1>7, <1>20, <1>25
<1>27. Filled(v, m, w, n, l, 0, words)
  BY <1>1, <1>7, <1>8, <1>13, <1>16, <1>19, <1>20, <1>21, <1>22, <1>23, <1>24, <1>26 DEF Filled
<1> QED BY <1>4, <1>7, <1>20, <1>27 DEF w, e, n, c, d, b, l

(* The states of Write_Small's loop, and the words of its block l.         *)
SmallStates == [v : Volumes, m : Maps, ind : 0..NBlocks, ok : BOOLEAN]
SmallWords(f, n, l) == [k \in Slots |-> IF l * PPB + k < n THEN Data(f) ELSE 0]

(* Nothing that was in use has changed.                                    *)
Safe(v, s) ==
  /\ s \in SmallStates /\ VolOK(s.v) /\ v.bitmap \subseteq s.v.bitmap
  /\ \A x \in v.bitmap : s.v.disk[x] = v.disk[x]

(* The file has its first l blocks.                                        *)
Filling(f, n, v, m, l, s) ==
  /\ Tree(s.v, s.m) /\ Ends(s.v, s.m, l)
  /\ \A p \in Spots : p >= 0 /\ p < l =>
       /\ At(s.v, s.m, p) # 0 /\ At(s.v, s.m, p) \notin v.bitmap
       /\ s.v.disk[At(s.v, s.m, p)] = SmallWords(f, n, p)
  /\ \A p \in Spots : p < 0 /\ p # -1 => At(s.v, s.m, p) = At(v, m, p)
  /\ l <= NDirect => s.ind = 0 /\ s.m.ind = m.ind
  /\ l > NDirect => s.m.ind = s.ind /\ s.ind \in Blocks /\ s.ind \notin v.bitmap
  /\ m.ind = 0 => Others(s.v, s.m) = Others(v, m)

(* The loop is safe, and as long as there was room it has filled its       *)
(* blocks.                                                                 *)
Writing(f, n, v, m, l, s) == Safe(v, s) /\ (s.ok => Filling(f, n, v, m, l, s))

(* The words of one block.                                                 *)
LEMMA SmallWordsAre ==
  ASSUME NEW f \in Files, NEW n, NEW l
  PROVE  SmallWords(f, n, l) \in [Slots -> Words]
<1>1. 0 \in Words /\ Data(f) \in Words
  BY WordsAre, Constants
<1> QED BY <1>1 DEF SmallWords

(* A filled block is the next of the file.                                 *)
LEMMA FilledFills ==
  ASSUME NEW f \in Files, NEW n \in Nat, NEW v, NEW m, NEW l \in Nat, l \in Spots, VolOK(v),
         NEW s, Safe(v, s), Filling(f, n, v, m, l, s),
         NEW t \in SmallStates, NEW i, Filled(s.v, s.m, t.v, t.m, l, i, SmallWords(f, n, l)),
         i = 0 \/ (i = s.m.ind /\ l > NDirect),
         \/ l + 1 <= NDirect /\ t.ind = 0 /\ t.m.ind = s.m.ind
         \/ /\ l + 1 > NDirect /\ t.ind = t.m.ind /\ t.ind \in Blocks /\ t.ind \notin v.bitmap
            /\ t.ind = s.m.ind \/ l = NDirect
  PROVE  Writing(f, n, v, m, l + 1, t)
<1>1. /\ VolOK(s.v) /\ v.bitmap \subseteq s.v.bitmap /\ \A x \in v.bitmap : s.v.disk[x] = v.disk[x]
      /\ v.bitmap \subseteq Blocks /\ 0 \notin v.bitmap /\ 0 \notin Blocks
  BY BitmapBlocks, Constants DEF Safe, Blocks
<1>2. /\ VolOK(t.v) /\ Tree(t.v, t.m) /\ s.v.bitmap \subseteq t.v.bitmap
      /\ \A x \in s.v.bitmap : x # i => t.v.disk[x] = s.v.disk[x]
      /\ At(t.v, t.m, l) # 0 /\ At(t.v, t.m, l) \notin s.v.bitmap
      /\ t.v.disk[At(t.v, t.m, l)] = SmallWords(f, n, l)
      /\ \A p \in Spots : p # l /\ p # -1 => At(t.v, t.m, p) = At(s.v, s.m, p)
      /\ t.m.ind = s.m.ind \/ s.m.ind = 0 => Others(t.v, t.m) = Others(s.v, s.m)
  BY DEF Filled
<1>3. /\ Tree(s.v, s.m) /\ Ends(s.v, s.m, l)
      /\ \A p \in Spots : p >= 0 /\ p < l =>
           /\ At(s.v, s.m, p) # 0 /\ At(s.v, s.m, p) \notin v.bitmap
           /\ s.v.disk[At(s.v, s.m, p)] = SmallWords(f, n, p)
      /\ \A p \in Spots : p < 0 /\ p # -1 => At(s.v, s.m, p) = At(v, m, p)
      /\ l <= NDirect => s.ind = 0 /\ s.m.ind = m.ind
      /\ l > NDirect => s.m.ind = s.ind /\ s.ind \in Blocks /\ s.ind \notin v.bitmap
      /\ m.ind = 0 => Others(s.v, s.m) = Others(v, m)
  BY DEF Filling
<1>4. i \notin v.bitmap
  BY <1>1, <1>3
<1>5. Safe(v, t)
  <2>1. \A x \in v.bitmap : t.v.disk[x] = v.disk[x]
    BY <1>1, <1>2, <1>4
  <2> QED BY <1>1, <1>2, <2>1 DEF Safe
<1>6. \A p \in Spots : p \in Int
  BY SpotsAreInt
<1>7. Ends(t.v, t.m, l + 1)
  <2>1. ASSUME NEW p \in Spots, p >= l + 1, p >= 0 PROVE At(t.v, t.m, p) = 0
    <3>1. p # l /\ p # -1 /\ p >= l
      BY <1>6, <2>1
    <3> QED BY <1>2, <1>3, <2>1, <3>1 DEF Ends
  <2> QED BY <2>1 DEF Ends
<1>8. ASSUME NEW p \in Spots, p >= 0, p < l + 1
      PROVE  /\ At(t.v, t.m, p) # 0 /\ At(t.v, t.m, p) \notin v.bitmap
             /\ t.v.disk[At(t.v, t.m, p)] = SmallWords(f, n, p)
  <2>1. CASE p = l
    BY <1>1, <1>2, <2>1
  <2>2. CASE p # l
    <3>1. p < l /\ p # -1
      BY <1>6, <1>8, <2>2
    <3> DEFINE b == At(s.v, s.m, p)
    <3>2. b # 0 /\ b \notin v.bitmap /\ s.v.disk[b] = SmallWords(f, n, p) /\ At(t.v, t.m, p) = b
      BY <1>2, <1>3, <1>8, <2>2, <3>1
    <3>3. b \in s.v.bitmap
      BY <1>3, <3>2 DEF Tree
    <3>4. b # i
      <4>1. At(s.v, s.m, -1) = s.m.ind /\ -1 \in Spots
        BY AtInd, RootsAre
      <4>2. b # s.m.ind
        BY <1>3, <3>1, <3>2, <4>1 DEF Tree
      <4> QED BY <3>2, <4>2
    <3> HIDE DEF b
    <3>5. t.v.disk[b] = s.v.disk[b]
      BY <1>2, <3>3, <3>4
    <3> QED BY <3>2, <3>5
  <2> QED BY <2>1, <2>2
<1>9. \A p \in Spots : p < 0 /\ p # -1 => At(t.v, t.m, p) = At(v, m, p)
  <2>1. \A p \in Spots : p < 0 => p # l
    BY <1>6
  <2> QED BY <1>2, <1>3, <2>1
<1>10. l + 1 <= NDirect => t.ind = 0 /\ t.m.ind = m.ind
  <2>1. l + 1 <= NDirect => l <= NDirect
    BY Constants
  <2> QED BY <1>3, <2>1, Constants
<1>11. l + 1 > NDirect => t.m.ind = t.ind /\ t.ind \in Blocks /\ t.ind \notin v.bitmap
  BY Constants
<1>12. m.ind = 0 => Others(t.v, t.m) = Others(v, m)
  <2>1. l = NDirect => s.m.ind = m.ind
    BY <1>3, Constants
  <2>2. t.m.ind = s.m.ind \/ l = NDirect
    OBVIOUS
  <2> QED BY <1>2, <1>3, <2>1, <2>2
<1>13. Filling(f, n, v, m, l + 1, t)
  BY <1>2, <1>7, <1>8, <1>9, <1>10, <1>11, <1>12 DEF Filling
<1> QED BY <1>5, <1>13 DEF Writing

(* One turn of Write_Small.                                                *)
LEMMA WriteBlockDone ==
  ASSUME NEW f \in Files, NEW n \in Nat, NEW v, VolOK(v), NEW m, NEW l \in Nat,
         l < NDirect + PPB, NEW s, Writing(f, n, v, m, l, s), s.ok
  PROVE  Writing(f, n, v, m, l + 1, WriteBlock(f, n, s, l))
<1> DEFINE b == Lowest(s.v)
           words == [k \in Slots |-> IF l * PPB + k < n THEN Data(f) ELSE 0]
           d == [s EXCEPT !.v = Write(AllocBlock(s.v), b, words)]
           i == IF s.ind # 0 THEN d
                ELSE [d EXCEPT !.v = NewPointers(d.v), !.ind = Lowest(d.v),
                               !.m = [d.m EXCEPT !.ind = Lowest(d.v)]]
           r == WriteBlock(f, n, s, l)
<1>1. r = IF ~HasSpace(s.v) THEN Fails(s)
          ELSE IF l < NDirect THEN [d EXCEPT !.m = [d.m EXCEPT !.direct[l] = b]]
          ELSE IF s.ind = 0 /\ ~HasSpace(d.v) THEN Fails(d)
          ELSE [i EXCEPT !.v = WriteAt(i.v, i.ind, l - NDirect, b)]
  BY Zenon DEF WriteBlock
<1>2. words = SmallWords(f, n, l)
  BY DEF SmallWords
<1>3. Safe(v, s) /\ Filling(f, n, v, m, l, s)
  BY DEF Writing
<1>4. s \in SmallStates /\ s.m \in Maps /\ s.v \in Volumes /\ VolOK(s.v) /\ Tree(s.v, s.m)
  BY <1>3 DEF Safe, SmallStates, Filling
<1>5. l \in Spots /\ At(s.v, s.m, l) = 0
  <2>1. l \in Spots /\ l >= l /\ l >= 0
    BY Constants, Products DEF Spots
  <2>2. Ends(s.v, s.m, l)
    BY <1>3 DEF Filling
  <2> QED BY <2>1, <2>2 DEF Ends
<1>6. /\ l <= NDirect => s.ind = 0 /\ s.m.ind = m.ind
      /\ l > NDirect => s.m.ind = s.ind /\ s.ind \in Blocks /\ s.ind \notin v.bitmap
  BY <1>3 DEF Filling
<1>7. words \in [Slots -> Words]
  BY <1>2, SmallWordsAre
<1>8. 0 \notin Blocks
  BY Constants DEF Blocks
<1> DEFINE x == Write(AllocBlock(s.v), b, words)
<1>9. d = [s EXCEPT !.v = x]
  OBVIOUS
<1>10. CASE ~HasSpace(s.v)
  <2>1. r = Fails(s)
    BY <1>1, <1>10
  <2>2. Fails(s) \in SmallStates /\ Fails(s).v = s.v /\ Fails(s).ok = FALSE
    BY <1>4 DEF Fails, SmallStates
  <2> HIDE DEF r
  <2>3. Safe(v, r)
    BY <1>3, <2>1, <2>2 DEF Safe
  <2>4. Writing(f, n, v, m, l + 1, r)
    BY <2>1, <2>2, <2>3 DEF Writing
  <2> QED BY <2>4 DEF r
<1>11. ASSUME HasSpace(s.v)
       PROVE  /\ VolOK(x) /\ x \in Volumes /\ s.v.bitmap \subseteq x.bitmap
              /\ \A y \in s.v.bitmap : x.disk[y] = s.v.disk[y]
              /\ b \in 0..NBlocks
  <2>1. b \in Blocks /\ b \notin s.v.bitmap /\ b \in 0..NBlocks
    BY <1>4, <1>11, NewBlock
  <2>2. /\ VolOK(x) /\ x.bitmap = s.v.bitmap \cup {b}
        /\ \A y \in Blocks \ {b} : x.disk[y] = s.v.disk[y]
    BY <1>4, <1>7, <1>11, Stored
  <2> HIDE DEF x, b
  <2>3. s.v.bitmap \subseteq Blocks
    BY <1>4, BitmapBlocks
  <2> QED BY <2>1, <2>2, <2>3 DEF VolOK
<1>12. CASE HasSpace(s.v) /\ l < NDirect
  <2> DEFINE q == [s.m EXCEPT !.direct[l] = b]
  <2>0. d.m = s.m
    BY <1>4 DEF SmallStates
  <2>1. r = [d EXCEPT !.m = [d.m EXCEPT !.direct[l] = b]]
    <3> HIDE DEF d, b, words, i, r
    <3> QED BY <1>1, <1>12
  <2>2. r = [d EXCEPT !.m = q]
    <3> HIDE DEF d, b, words, i, r
    <3> QED BY <2>0, <2>1
  <2>3. l \in 0..(NDirect - 1)
    BY <1>12, Constants
  <2>4. Filled(s.v, s.m, x, q, l, 0, words)
    BY <1>4, <1>5, <1>7, <1>12, <2>3, FilledDirect
  <2>5. q \in Maps
    BY <2>4 DEF Filled
  <2>6. q.ind = s.m.ind
    BY <1>4 DEF Maps
  <2> HIDE DEF x, q, words, d, r
  <2>7. x \in Volumes
    BY <1>11, <1>12
  <2>8. r \in SmallStates /\ r.v = x /\ r.m = q /\ r.ind = s.ind /\ r.ok = s.ok
    BY <1>4, <1>9, <2>2, <2>5, <2>7 DEF SmallStates
  <2>9. s.ind = 0
    BY <1>6, <1>12, Constants
  <2>10. l + 1 <= NDirect
    BY <1>12, Constants
  <2>11. Filled(s.v, s.m, r.v, r.m, l, 0, SmallWords(f, n, l))
    BY <1>2, <2>4, <2>8
  <2>12. r.ind = 0 /\ r.m.ind = s.m.ind
    BY <2>6, <2>8, <2>9
  <2>13. Writing(f, n, v, m, l + 1, r)
    BY <1>3, <1>5, <2>8, <2>10, <2>11, <2>12, FilledFills
  <2> QED BY <2>13 DEF r
<1>13. CASE HasSpace(s.v) /\ ~(l < NDirect) /\ s.ind = 0 /\ ~HasSpace(d.v)
  <2>1. r = Fails(d)
    <3> HIDE DEF d, b, words, i, r
    <3> QED BY <1>1, <1>13
  <2> HIDE DEF x, words, r, d
  <2>2. d \in SmallStates /\ d.v = x
    BY <1>4, <1>9, <1>11, <1>13 DEF SmallStates
  <2>3. r \in SmallStates /\ r.v = x /\ r.ok = FALSE
    BY <2>1, <2>2 DEF Fails, SmallStates
  <2>4. Safe(v, r)
    BY <1>3, <1>11, <1>13, <2>3 DEF Safe
  <2>5. Writing(f, n, v, m, l + 1, r)
    BY <2>3, <2>4 DEF Writing
  <2> QED BY <2>5 DEF r
<1>14. CASE HasSpace(s.v) /\ ~(l < NDirect) /\ s.ind = 0 /\ HasSpace(d.v)
  <2> DEFINE c == Lowest(x)
             q == [s.m EXCEPT !.ind = c]
             y == WriteAt(NewPointers(x), c, 0, b)
  <2>1. d.v = x /\ d.m = s.m /\ d.ind = s.ind /\ d.ok = s.ok
    BY <1>4 DEF SmallStates
  <2>2. l = NDirect
    BY <1>6, <1>8, <1>14, Constants
  <2>3. r = [i EXCEPT !.v = WriteAt(i.v, i.ind, l - NDirect, b)]
    <3> HIDE DEF d, b, words, i, r
    <3> QED BY <1>1, <1>14
  <2>4. i = [d EXCEPT !.v = NewPointers(d.v), !.ind = Lowest(d.v),
                      !.m = [d.m EXCEPT !.ind = Lowest(d.v)]]
    <3> HIDE DEF d
    <3> QED BY <1>14
  <2>5. i = [d EXCEPT !.v = NewPointers(x), !.ind = c, !.m = q]
    <3> HIDE DEF i, d, x
    <3> QED BY <2>1, <2>4
  <2>6. HasSpace(x)
    BY <1>14, <2>1
  <2>7. Ends(s.v, s.m, NDirect)
    BY <1>3, <2>2 DEF Filling
  <2>8. /\ Filled(s.v, s.m, y, q, Single(0), 0, words)
        /\ q.ind = c /\ c \in Blocks /\ c # 0 /\ c \notin s.v.bitmap
    BY <1>4, <1>7, <1>14, <2>6, <2>7, FilledFirst
  <2> HIDE DEF x, words, q, y, c, d, i, r
  <2>9. /\ i.v = NewPointers(x) /\ i.ind = c /\ i.m = q /\ i.ok = s.ok
        /\ DOMAIN i = {"v", "m", "ind", "ok"}
        /\ i = [v |-> i.v, m |-> i.m, ind |-> i.ind, ok |-> i.ok]
    BY <1>4, <1>9, <2>1, <2>5 DEF SmallStates
  <2>10. l - NDirect = 0
    BY <2>2, Constants
  <2>11. r = [i EXCEPT !.v = y]
    BY <2>3, <2>9, <2>10 DEF y
  <2>12. y \in Volumes /\ q \in Maps /\ c \in 0..NBlocks
    BY <2>8, Constants DEF Filled, VolOK, Blocks
  <2>13. r \in SmallStates /\ r.v = y /\ r.m = q /\ r.ind = c /\ r.ok = s.ok
    BY <1>4, <2>9, <2>11, <2>12 DEF SmallStates
  <2>14. Single(0) = l
    BY <2>2, Constants DEF Single
  <2>15. Filled(s.v, s.m, r.v, r.m, l, 0, SmallWords(f, n, l))
    BY <1>2, <2>8, <2>13, <2>14
  <2>16. l + 1 > NDirect
    BY <2>2, Constants
  <2>17. r.ind = r.m.ind /\ r.ind \in Blocks /\ r.ind \notin v.bitmap
    <3>1. v.bitmap \subseteq s.v.bitmap
      BY <1>3 DEF Safe
    <3> QED BY <2>8, <2>13, <3>1
  <2>18. Writing(f, n, v, m, l + 1, r)
    BY <1>3, <1>5, <2>2, <2>13, <2>15, <2>16, <2>17, FilledFills
  <2> QED BY <2>18 DEF r
<1>15. CASE HasSpace(s.v) /\ ~(l < NDirect) /\ s.ind # 0
  <2> DEFINE k == l - NDirect
             y == WriteAt(x, s.m.ind, k, b)
  <2>1. d.v = x /\ d.m = s.m /\ d.ind = s.ind /\ d.ok = s.ok
    BY <1>4 DEF SmallStates
  <2>2. l > NDirect /\ s.m.ind = s.ind /\ s.ind \in Blocks /\ s.ind \notin v.bitmap
    BY <1>6, <1>15, Constants
  <2>3. r = [i EXCEPT !.v = WriteAt(i.v, i.ind, l - NDirect, b)]
    <3> HIDE DEF d, b, words, i, r
    <3> QED BY <1>1, <1>15
  <2>4. i = d
    <3> HIDE DEF d
    <3> QED BY <1>15
  <2>5. r = [d EXCEPT !.v = y]
    <3> HIDE DEF d, i, r, x, b
    <3> QED BY <2>1, <2>2, <2>3, <2>4
  <2>6. k \in Slots /\ Single(k) = l
    BY <2>2, Constants DEF Slots, Single
  <2> HIDE DEF k
  <2>7. s.m.ind # 0 /\ At(s.v, s.m, Single(k)) = 0
    BY <1>5, <1>15, <2>2, <2>6
  <2>8. Filled(s.v, s.m, y, s.m, Single(k), s.m.ind, words)
    BY <1>4, <1>7, <1>15, <2>6, <2>7, FilledSingle
  <2> HIDE DEF x, words, y, d, i, r
  <2>9. y \in Volumes /\ x \in Volumes
    BY <1>11, <1>15, <2>8 DEF Filled, VolOK
  <2>10. r = [s EXCEPT !.v = y]
    BY <1>4, <1>9, <2>5, <2>9 DEF SmallStates
  <2>11. r \in SmallStates /\ r.v = y /\ r.m = s.m /\ r.ind = s.ind /\ r.ok = s.ok
    BY <1>4, <2>9, <2>10 DEF SmallStates
  <2>12. Filled(s.v, s.m, r.v, r.m, l, s.m.ind, SmallWords(f, n, l))
    BY <1>2, <2>6, <2>8, <2>11
  <2>13. l + 1 > NDirect
    BY <2>2, Constants
  <2>14. r.ind = r.m.ind /\ r.ind \in Blocks /\ r.ind \notin v.bitmap /\ r.ind = s.m.ind
    BY <2>2, <2>11
  <2>15. Writing(f, n, v, m, l + 1, r)
    BY <1>3, <1>5, <2>2, <2>11, <2>12, <2>13, <2>14, FilledFills
  <2> QED BY <2>15 DEF r
<1> QED BY <1>10, <1>12, <1>13, <1>14, <1>15

(* A turn that does nothing after a failure, and the state before the      *)
(* first.                                                                  *)
SmallTurn(f, n, s, l) == IF s.ok THEN WriteBlock(f, n, s, l) ELSE s
SmallBegun(v, i) == [v |-> v, m |-> i.map, ind |-> 0, ok |-> TRUE]

LEMMA SmallTurnDone ==
  ASSUME NEW f \in Files, NEW n \in Nat, NEW v, VolOK(v), NEW m, NEW l \in Nat,
         l < NDirect + PPB, NEW s, Writing(f, n, v, m, l, s)
  PROVE  Writing(f, n, v, m, l + 1, SmallTurn(f, n, s, l))
<1>1. CASE s.ok
  <2>1. SmallTurn(f, n, s, l) = WriteBlock(f, n, s, l)
    BY <1>1 DEF SmallTurn
  <2> QED BY <1>1, <2>1, WriteBlockDone
<1>2. CASE ~s.ok
  <2>1. SmallTurn(f, n, s, l) = s
    BY <1>2 DEF SmallTurn
  <2> QED BY <1>2, <2>1 DEF Writing
<1> QED BY <1>1, <1>2

LEMMA SmallBegunIs ==
  ASSUME NEW f, NEW n, NEW v, NEW i, VolOK(v), i.map \in Maps, Tree(v, i.map), Ends(v, i.map, 0)
  PROVE  Writing(f, n, v, i.map, 0, SmallBegun(v, i))
<1> DEFINE s == SmallBegun(v, i)
           m == i.map
<1>1. s.v = v /\ s.m = m /\ s.ind = 0 /\ s.ok = TRUE
  BY DEF SmallBegun
<1>2. v \in Volumes /\ 0 \in 0..NBlocks
  BY Constants DEF VolOK
<1>3. s \in SmallStates
  BY <1>2 DEF SmallBegun, SmallStates
<1>4. \A p \in Spots : p \in Int
  BY SpotsAreInt
<1> HIDE DEF s, m
<1>5. Safe(v, s)
  BY <1>1, <1>3 DEF Safe
<1>6. 0 <= NDirect
  BY Constants
<1>7. Tree(s.v, s.m) /\ Ends(s.v, s.m, 0)
  BY <1>1 DEF m
<1>8. ~(0 > NDirect)
  BY Constants
<1>9. \A p \in Spots : ~(p >= 0 /\ p < 0)
  BY <1>4
<1>10. Filling(f, n, v, m, 0, s)
  BY <1>1, <1>6, <1>7, <1>8, <1>9 DEF Filling
<1>11. Writing(f, n, v, m, 0, s)
  BY <1>5, <1>10 DEF Writing
<1> QED BY <1>11 DEF s, m

(* The loop of Write_Small, to its end or to a failure                     *)
(* (writer.adb:401-483).                                                   *)
LEMMA WrittenSmallDone ==
  ASSUME NEW f \in Files, NEW n \in Nat, NEW t, VolOK(t.v), t.i.map \in Maps,
         Tree(t.v, t.i.map), Ends(t.v, t.i.map, 0), BlocksFor(n) <= NDirect + PPB
  PROVE  Writing(f, n, t.v, t.i.map, BlocksFor(n), WrittenSmall(f, n, t))
<1> DEFINE v == t.v
           m == t.i.map
           N == BlocksFor(n)
           a == SmallBegun(v, t.i)
           Eq(g) == g = [l \in 0..N |-> IF l = 0 THEN a ELSE SmallTurn(f, n, g[l - 1], l - 1)]
           turn == CHOOSE g : Eq(g)
           F == [l \in 1..N |-> [x \in SmallStates |-> SmallTurn(f, n, x, l - 1)]]
           G == [l \in 0..N |-> {x \in SmallStates : Writing(f, n, v, m, l, x)}]
<1>1. WrittenSmall(f, n, t) = turn[N]
  BY Zenon DEF WrittenSmall, SmallBegun, SmallTurn
<1>2. N \in Nat /\ N <= NDirect + PPB
  BY BlockBound
<1>3. ASSUME NEW l \in Nat, l < N, NEW x, Writing(f, n, v, m, l, x)
      PROVE  Writing(f, n, v, m, l + 1, SmallTurn(f, n, x, l))
  <2>1. l < NDirect + PPB
    <3> HIDE DEF N
    <3> QED BY <1>2, <1>3, Constants
  <2>2. VolOK(v)
    OBVIOUS
  <2> HIDE DEF m, v
  <2> QED BY <1>3, <2>1, <2>2, SmallTurnDone
<1>4. \A l, x : Writing(f, n, v, m, l, x) => x \in SmallStates
  BY DEF Writing, Safe
<1>5. Writing(f, n, v, m, 0, a)
  BY SmallBegunIs
<1>6. a \in G[0]
  <2> HIDE DEF a, m, v, N
  <2> QED BY <1>2, <1>4, <1>5
<1>7. Leads(F, G, N)
  <2> HIDE DEF a, m, v, N
  <2>1. ASSUME NEW k \in 1..N, NEW x \in G[k - 1] PROVE F[k][x] \in G[k]
    <3>1. k - 1 \in 0..N /\ k \in 0..N /\ k - 1 \in Nat /\ k - 1 < N /\ (k - 1) + 1 = k
      BY <1>2
    <3>2. x \in SmallStates /\ Writing(f, n, v, m, k - 1, x)
      BY <2>1, <3>1
    <3>3. F[k][x] = SmallTurn(f, n, x, k - 1)
      BY <3>2
    <3>4. Writing(f, n, v, m, k, SmallTurn(f, n, x, k - 1))
      <4> DEFINE j == k - 1
      <4>1. j \in Nat /\ j < N /\ j + 1 = k /\ Writing(f, n, v, m, j, x)
        BY <3>1, <3>2
      <4> HIDE DEF j
      <4>2. Writing(f, n, v, m, j + 1, SmallTurn(f, n, x, j))
        BY <1>3, <4>1
      <4>3. Writing(f, n, v, m, k, SmallTurn(f, n, x, j))
        BY <4>1, <4>2
      <4> QED BY <4>3 DEF j
    <3> QED BY <1>4, <3>1, <3>3, <3>4
  <2> HIDE DEF F, G
  <2> QED BY <2>1 DEF Leads
<1>8. \A k \in 0..N : G[k] \subseteq SmallStates
  <2> HIDE DEF m, v, N
  <2> QED OBVIOUS
<1>9. \A k \in 1..N : \A x \in SmallStates : F[k][x] = SmallTurn(f, n, x, k - 1)
  <2> HIDE DEF N
  <2> QED OBVIOUS
<1>10. \A x \in G[N] : Writing(f, n, v, m, N, x)
  <2> HIDE DEF m, v, N
  <2> QED BY <1>2
<1> HIDE DEF F, G, a, m, v, N, turn
<1>12. \E g : Eq(g)
  <2> HIDE DEF Eq
  <2>1. PICK g : Runs(g, F, a, N) /\ g \in [0..N -> SmallStates]
    BY <1>2, <1>6, <1>7, <1>8, SomeRun
  <2>2. ASSUME NEW k \in 0..N PROVE g[k] = IF k = 0 THEN a ELSE SmallTurn(f, n, g[k - 1], k - 1)
    <3>1. CASE k = 0
      BY <2>1, <3>1 DEF Runs
    <3>2. CASE k # 0
      <4>1. k \in 1..N /\ k - 1 \in 0..N
        BY <1>2, <3>2
      <4>2. g[k] = F[k][g[k - 1]] /\ g[k - 1] \in SmallStates
        BY <2>1, <4>1 DEF Runs
      <4> QED BY <1>9, <3>2, <4>1, <4>2
    <3> QED BY <3>1, <3>2
  <2>3. g = [k \in 0..N |-> g[k]]
    BY <2>1
  <2>4. g = [k \in 0..N |-> IF k = 0 THEN a ELSE SmallTurn(f, n, g[k - 1], k - 1)]
    BY <2>2, <2>3
  <2>5. Eq(g)
    BY <2>4 DEF Eq
  <2> QED BY <2>5
<1>13. Eq(turn)
  <2> HIDE DEF Eq
  <2> QED BY Zenon, <1>12 DEF turn
<1> DEFINE T == {k \in 0..N : turn[k] \in G[k]}
<1>14. turn[0] = a
  BY <1>2, <1>13
<1>15. ASSUME NEW k \in 0..N - 1, k \in T PROVE k + 1 \in T
  <2>1. k + 1 \in 1..N /\ k + 1 \in 0..N /\ (k + 1) - 1 = k /\ k \in 0..N
    BY <1>2
  <2>2. turn[k] \in G[k] /\ turn[k] \in SmallStates
    BY <1>8, <1>15, <2>1
  <2>3. turn[k + 1] = SmallTurn(f, n, turn[k], (k + 1) - 1)
    BY <1>2, <1>13, <2>1
  <2>4. F[k + 1][turn[k]] = turn[k + 1]
    BY <1>9, <2>1, <2>2, <2>3
  <2>5. F[k + 1][turn[k]] \in G[k + 1]
    BY <1>7, <2>1, <2>2 DEF Leads
  <2> QED BY <2>1, <2>4, <2>5
<1>16. 0 \in T
  BY <1>2, <1>6, <1>14
<1> HIDE DEF T, Eq
<1>17. 0..N \subseteq T
  BY <1>2, <1>15, <1>16, UpTo
<1>18. turn[N] \in G[N]
  BY <1>2, <1>17 DEF T
<1>19. Writing(f, n, v, m, N, WrittenSmall(f, n, t))
  BY <1>1, <1>10, <1>18 DEF turn
<1> QED BY <1>19 DEF v, m, N

-------------------------------------------------------------------------------
(* The operations on a file in order.                                      *)

(* What every operation does with the inode it is on: the new one is in    *)
(* order, and what belongs to the other files is as it was.                *)
Sound(v, i, w, j) == Kept(v, i.map, w, j.map) /\ InOrder(w, j) /\ j.live = i.live

(* The operation leaks no block and frees none that it did not take.       *)
Exact(v, i, w, j) ==
  Trim(v, i.map, BlocksFor(i.size)) =>
    Others(w, j.map) = Others(v, i.map) /\ Trim(w, j.map, BlocksFor(j.size))

(* What Append does to a file in order.                                    *)
LEMMA AppendDone ==
  ASSUME NEW f \in Files, VolOK(vol), InOrder(vol, inode[f]), NEW n \in Nat,
         BlocksFor(inode[f].size + n) <= Reach
  PROVE  LET s == Appended(f, n)
             i == inode[f]
             j == [i EXCEPT !.map = s.m, !.size = s.pos, !.iblocks = IBlocks(BlocksFor(s.pos))]
         IN /\ Sound(vol, i, s.v, j) /\ s.ok \in BOOLEAN
            /\ s.ok => Exact(vol, i, s.v, j)
            /\ s.ok /\ Whole(vol, i.map, BlocksFor(i.size)) => NoHoles(s.v, j)
            /\ j.size = s.pos /\ j.size >= i.size
            /\ \A x \in Positions :
                 Word(s.v, j.map, x) = IF i.size <= x /\ x < j.size THEN Data(f)
                                       ELSE Word(vol, i.map, x)
<1> DEFINE s == Appended(f, n)
           i == inode[f]
           m == i.map
           size == i.size
           total == size + n
           ib == IBlocks(BlocksFor(s.pos))
           j == [i EXCEPT !.map = s.m, !.size = s.pos, !.iblocks = ib]
<1>1. /\ i \in Nodes /\ m \in Maps /\ size \in Nat /\ total \in Nat /\ Tree(vol, m)
      /\ Ends(vol, m, BlocksFor(size)) /\ ZeroBeyond(vol, m, size)
  BY DEF InOrder, Nodes
<1>2. Appending(f, vol, m, size, total, s)
  BY AppendedDone
<1>3. BlocksFor(total) <= Reach
  OBVIOUS
<1> HIDE DEF s, m, size, total
<1>4. /\ s \in States /\ VolOK(s.v) /\ Tree(s.v, s.m) /\ Kept(vol, m, s.v, s.m)
      /\ Others(s.v, s.m) = Others(vol, m)
      /\ s.pos >= size /\ s.pos + s.left = total
      /\ Ends(s.v, s.m, BlocksFor(s.pos))
      /\ \A x \in Positions :
           Word(s.v, s.m, x) = IF size <= x /\ x < s.pos THEN Data(f) ELSE Word(vol, m, x)
      /\ s.ok /\ Trim(vol, m, BlocksFor(size)) => Trim(s.v, s.m, BlocksFor(s.pos))
      /\ s.ok /\ Whole(vol, m, BlocksFor(size)) => Whole(s.v, s.m, BlocksFor(s.pos))
  BY <1>2 DEF Appending, StateOK
<1>5. s.m \in Maps /\ s.pos \in Nat /\ s.left \in Nat /\ s.ok \in BOOLEAN
  BY <1>4 DEF States
<1>6. ib \in Nat
  BY <1>5, BlockBound, IBlocksNat
<1>7. j \in Nodes /\ j.map = s.m /\ j.size = s.pos /\ j.iblocks = ib /\ j.live = i.live
  <2> DEFINE a == s.m
             p == s.pos
  <2>1. a \in Maps /\ p \in Nat
    BY <1>5
  <2>2. j = [i EXCEPT !.map = a, !.size = p, !.iblocks = ib]
    OBVIOUS
  <2>4. i \in Nodes
    BY <1>1
  <2> HIDE DEF a, p, ib, i, j
  <2>3. j \in Nodes /\ j.map = a /\ j.size = p /\ j.iblocks = ib /\ j.live = i.live
    BY <1>6, <2>1, <2>2, <2>4 DEF Nodes
  <2> QED BY <2>3 DEF a, p
<1>8. BlocksFor(s.pos) <= Reach
  <2>1. s.pos <= total
    BY <1>4, <1>5
  <2>2. BlocksFor(s.pos) <= BlocksFor(total)
    BY <1>1, <1>5, <2>1, BlocksGrow
  <2>3. BlocksFor(s.pos) \in Nat /\ BlocksFor(total) \in Nat
    BY <1>1, <1>5, BlockBound
  <2> QED BY <1>3, <2>2, <2>3, Products
<1>9. ZeroBeyond(s.v, s.m, s.pos)
  <2>1. ASSUME NEW x \in Positions, x >= s.pos PROVE Word(s.v, s.m, x) = 0
    <3>1. x \in Nat
      BY PositionIs
    <3>2. x >= size /\ ~(x < s.pos)
      BY <1>1, <1>4, <1>5, <2>1, <3>1
    <3> QED BY <1>1, <1>4, <3>2 DEF ZeroBeyond
  <2> QED BY <2>1 DEF ZeroBeyond
<1> HIDE DEF i, j
<1>10. InOrder(s.v, j)
  BY <1>4, <1>7, <1>8, <1>9 DEF InOrder
<1>11. Sound(vol, i, s.v, j)
  BY <1>4, <1>7, <1>10 DEF Sound, m
<1>12. s.ok => Exact(vol, i, s.v, j)
  BY <1>4, <1>7 DEF Exact, m, size
<1>13. s.ok /\ Whole(vol, m, BlocksFor(size)) => NoHoles(s.v, j)
  BY <1>4, <1>7 DEF NoHoles
<1>14. /\ Sound(vol, i, s.v, j) /\ s.ok \in BOOLEAN
       /\ s.ok => Exact(vol, i, s.v, j)
       /\ s.ok /\ Whole(vol, i.map, BlocksFor(i.size)) => NoHoles(s.v, j)
       /\ j.size = s.pos /\ j.size >= i.size
       /\ \A x \in Positions :
            Word(s.v, j.map, x) = IF i.size <= x /\ x < j.size THEN Data(f)
                                  ELSE Word(vol, i.map, x)
  BY <1>4, <1>5, <1>7, <1>11, <1>12, <1>13 DEF m, size
<1> QED BY <1>14 DEF s, i, j

(* The blocks that Unlink frees are those that the map leads to.           *)
LEMMA InodeBlocksAre ==
  ASSUME NEW v, NEW m \in Maps, NEW nb \in Nat, nb <= Reach
  PROVE  InodeBlocks(v, m, nb) = Led(v, m, {p \in Spots : First(p) < nb})
<1> DEFINE D == {p \in 0..(NDirect - 1) : First(p) < nb}
           S == {p \in SingleSpots : First(p) < nb}
           W == {p \in DoubleSpots : First(p) < nb}
           count == nb - NDirect - PPB
<1>1. Led(v, m, {p \in Spots : First(p) < nb}) = Led(v, m, D) \cup Led(v, m, S) \cup Led(v, m, W)
  <2>1. {p \in Spots : First(p) < nb} = D \cup S \cup W
    <3>1. \A p \in 0..(NDirect - 1) : p \in Spots
      BY DirectIs
    <3> QED BY <3>1, RegionsAre, Regions
  <2> QED BY <2>1 DEF Led
<1>2. {m.direct[k] : k \in 0..(Lower(nb, NDirect) - 1)} \ {0} = Led(v, m, D)
  <2>1. 0..(Lower(nb, NDirect) - 1) = D
    <3>1. \A p \in 0..(NDirect - 1) : First(p) = p
      BY DirectIs
    <3>2. \A p : p \in 0..(Lower(nb, NDirect) - 1) <=> p \in 0..(NDirect - 1) /\ p < nb
      BY Constants DEF Lower
    <3> QED BY <3>1, <3>2
  <2>2. \A p \in D : At(v, m, p) = m.direct[p]
    BY AtDirect
  <2> QED BY <2>1, <2>2 DEF Led
<1>3. (IF nb > NDirect THEN SingleAll(v, m.ind, Lower(nb - NDirect, PPB)) ELSE {}) = Led(v, m, S)
  <2>1. CASE nb > NDirect
    <3> DEFINE to == Lower(nb - NDirect, PPB)
               K == 0..(to - 1)
    <3>1. \A k \in Slots : Single(k) \in SingleSpots /\ First(Single(k)) = NDirect + k
      BY SingleIs DEF SingleSpots, Single
    <3>2. K = {k \in Slots : NDirect + k < nb}
      BY <2>1, Constants DEF Lower, Slots
    <3>3. S = {-1} \cup {Single(k) : k \in K}
      <4>1. -1 \in S
        BY <2>1, RootsAre DEF SingleSpots
      <4>2. \A k \in K : Single(k) \in S
        BY <3>1, <3>2
      <4>3. \A p \in S : p = -1 \/ \E k \in K : p = Single(k)
        BY <3>1, <3>2, Regions
      <4> HIDE DEF S, K
      <4> QED BY <4>1, <4>2, <4>3
    <3>4. Led(v, m, S) = ({m.ind} \cup {PtrAt(v, m.ind, k) : k \in K}) \ {0}
      <4>1. \A k \in K : At(v, m, Single(k)) = PtrAt(v, m.ind, k)
        BY <3>2, AtSingle
      <4>2. At(v, m, -1) = m.ind
        BY AtInd
      <4> HIDE DEF K, S
      <4>3. {At(v, m, p) : p \in S} = {m.ind} \cup {PtrAt(v, m.ind, k) : k \in K}
        BY <3>3, <4>1, <4>2
      <4> QED BY <4>3 DEF Led
    <3> DEFINE s == m.ind
    <3>5. SingleAll(v, s, to) = IF s = 0 THEN {} ELSE {s} \cup ({PtrAt(v, s, k) : k \in K} \ {0})
      BY DEF SingleAll, SingleData
    <3> HIDE DEF S, K, to
    <3>6. s = 0 => \A k \in K : PtrAt(v, s, k) = 0
      BY DEF PtrAt
    <3>7. Led(v, m, S) = ({s} \cup {PtrAt(v, s, k) : k \in K}) \ {0}
      BY <3>4
    <3> HIDE DEF s
    <3>8. SingleAll(v, s, to) = Led(v, m, S)
      BY <3>5, <3>6, <3>7
    <3> QED BY <2>1, <3>8 DEF s, to
  <2>2. CASE ~(nb > NDirect)
    <3>1. ASSUME NEW p \in SingleSpots PROVE ~(First(p) < nb)
      <4>1. CASE p = -1
        BY <2>2, <4>1, RootsAre, Constants
      <4>2. CASE \E k \in Slots : p = Single(k)
        BY <2>2, <4>2, SingleIs, Constants
      <4> QED BY <4>1, <4>2, Regions
    <3>2. S = {}
      BY <3>1
    <3> QED BY <2>2, <3>2 DEF Led
  <2> QED BY <2>1, <2>2
<1>4. (IF nb > NDirect + PPB THEN DoubleAll(v, m.dbl, count) ELSE {}) = Led(v, m, W)
  <2>1. CASE nb > NDirect + PPB /\ m.dbl # 0
    <3>1. count \in Nat /\ count = Above(nb, NDirect + PPB) /\ count > 0
      BY <2>1, Constants DEF Above
    <3> HIDE DEF count
    <3>2. DoubleAll(v, m.dbl, count) = Led(v, m, InUse(nb))
      BY <2>1, <3>1, DoubleAllIs
    <3> QED BY <2>1, <3>2 DEF InUse
  <2>2. CASE nb > NDirect + PPB /\ m.dbl = 0
    <3>1. DoubleAll(v, m.dbl, count) = {}
      BY <2>2 DEF DoubleAll
    <3>2. \A p \in DoubleSpots : At(v, m, p) = 0
      <4>1. At(v, m, -2) = 0
        BY <2>2, AtDbl
      <4>2. \A c \in Slots : At(v, m, Child(c)) = 0
        BY <2>2, AtChild DEF PtrAt
      <4>3. \A c, k \in Slots : At(v, m, Deep(c, k)) = 0
        BY <2>2, AtDeep DEF PtrAt
      <4> QED BY <4>1, <4>2, <4>3, Regions
    <3>3. Led(v, m, W) = {}
      BY <3>2 DEF Led
    <3> QED BY <2>2, <3>1, <3>3
  <2>3. CASE ~(nb > NDirect + PPB)
    <3>1. ASSUME NEW p \in DoubleSpots PROVE ~(First(p) < nb)
      BY <2>3, DoubleFirst, Constants
    <3>2. W = {}
      BY <3>1
    <3> QED BY <2>3, <3>2 DEF Led
  <2> QED BY <2>1, <2>2, <2>3
<1> HIDE DEF D, S, W
<1> QED BY <1>1, <1>2, <1>3, <1>4 DEF InodeBlocks

(* Write_Small that failed leaves its file empty; the blocks it took are   *)
(* lost.                                                                   *)
LEMMA SmallFails ==
  ASSUME NEW v, NEW i, NEW s, VolOK(v), InOrder(v, i), Safe(v, s)
  PROVE  Sound(v, i, s.v, i)
<1> DEFINE m == i.map
           w == s.v
<1>1. /\ VolOK(w) /\ v.bitmap \subseteq w.bitmap /\ \A x \in v.bitmap : w.disk[x] = v.disk[x]
  BY DEF Safe
<1>2. m \in Maps /\ Tree(v, m)
  BY DEF InOrder, Nodes
<1> HIDE DEF w, m
<1>3. \A p \in Spots : At(v, m, p) # 0 => w.disk[At(v, m, p)] = v.disk[At(v, m, p)]
  BY <1>1, <1>2 DEF Tree
<1>4. \A p \in Spots : At(w, m, p) = At(v, m, p)
  BY <1>3, MapSame
<1>5. Tree(w, m)
  BY <1>1, <1>2, <1>4 DEF Tree
<1>6. Own(w, m) = Own(v, m)
  BY <1>4 DEF Own
<1>7. Kept(v, m, w, m)
  <2>1. Others(v, m) \subseteq Others(w, m)
    BY <1>1, <1>6 DEF Others
  <2>2. \A x \in Others(v, m) : w.disk[x] = v.disk[x]
    BY <1>1 DEF Others
  <2> QED BY <1>1, <1>2, <1>5, <2>1, <2>2 DEF Kept
<1>8. ASSUME NEW x \in Positions PROVE Word(w, m, x) = Word(v, m, x)
  <2> DEFINE b == At(v, m, Blk(x))
  <2>1. Blk(x) \in Spots
    BY PositionIs
  <2>2. At(w, m, Blk(x)) = b /\ (b # 0 => w.disk[b] = v.disk[b])
    BY <1>3, <1>4, <2>1
  <2>3. Word(w, m, x) = PtrAt(w, At(w, m, Blk(x)), Off(x)) /\ Word(v, m, x) = PtrAt(v, b, Off(x))
    BY DEF Word
  <2> HIDE DEF b
  <2> QED BY <2>2, <2>3 DEF PtrAt
<1>9. InOrder(w, i)
  <2>1. /\ i \in Nodes /\ BlocksFor(i.size) <= Reach
        /\ Ends(v, m, BlocksFor(i.size)) /\ ZeroBeyond(v, m, i.size)
    BY DEF InOrder, m
  <2>2. Ends(w, m, BlocksFor(i.size))
    BY <1>4, <2>1 DEF Ends
  <2>3. ZeroBeyond(w, m, i.size)
    BY <1>8, <2>1 DEF ZeroBeyond
  <2> QED BY <1>5, <2>1, <2>2, <2>3 DEF InOrder, m
<1> QED BY <1>7, <1>9 DEF Sound, w, m

(* Write_Small that did not fail leaves a file without holes.              *)
LEMMA SmallFills ==
  ASSUME NEW f \in Files, NEW n \in Nat, NEW v, VolOK(v), NEW m \in Maps, Tree(v, m), NEW s,
         BlocksFor(n) <= NDirect + PPB, Writing(f, n, v, m, BlocksFor(n), s), s.ok
  PROVE  /\ Kept(v, m, s.v, s.m) /\ Ends(s.v, s.m, BlocksFor(n)) /\ Whole(s.v, s.m, BlocksFor(n))
         /\ \A x \in Positions : Word(s.v, s.m, x) = IF x < n THEN Data(f) ELSE 0
         /\ Trim(v, m, 0) =>
              Others(s.v, s.m) = Others(v, m) /\ Trim(s.v, s.m, BlocksFor(n))
<1> DEFINE N == BlocksFor(n)
<1>1. /\ s.v \in Volumes /\ s.m \in Maps /\ VolOK(s.v) /\ v.bitmap \subseteq s.v.bitmap
      /\ \A x \in v.bitmap : s.v.disk[x] = v.disk[x]
  BY DEF Writing, Safe, SmallStates
<1>2. /\ Tree(s.v, s.m) /\ Ends(s.v, s.m, N)
      /\ \A p \in Spots : p >= 0 /\ p < N =>
           /\ At(s.v, s.m, p) # 0 /\ At(s.v, s.m, p) \notin v.bitmap
           /\ s.v.disk[At(s.v, s.m, p)] = SmallWords(f, n, p)
      /\ \A p \in Spots : p < 0 /\ p # -1 => At(s.v, s.m, p) = At(v, m, p)
      /\ N <= NDirect => s.ind = 0 /\ s.m.ind = m.ind
      /\ N > NDirect => s.m.ind = s.ind /\ s.ind \in Blocks /\ s.ind \notin v.bitmap
      /\ m.ind = 0 => Others(s.v, s.m) = Others(v, m)
  BY DEF Writing, Filling
<1>3. N \in Nat /\ N <= NDirect + PPB
  BY BlockBound
<1>4. \A p \in Spots : p \in Int /\ First(p) \in Nat /\ (p >= 0 => First(p) = p)
  BY SpotsAreInt
<1>5. At(s.v, s.m, -1) = s.m.ind /\ At(v, m, -1) = m.ind /\ -1 \in Spots /\ First(-1) = NDirect
  BY AtInd, RootsAre
<1>6. \A p \in Spots : p < 0 /\ p # -1 => First(p) >= NDirect + PPB
  <2>1. ASSUME NEW p \in Spots, p < 0, p # -1 PROVE First(p) >= NDirect + PPB
    <3>1. p \in DoubleSpots
      BY <2>1, Constants, Products DEF Spots, DoubleSpots
    <3> QED BY <3>1, DoubleFirst
  <2> QED BY <2>1
<1>7. 0 \notin Blocks /\ 0 \notin v.bitmap
  BY BitmapBlocks, Constants DEF Blocks
<1> HIDE DEF N
<1>8. ASSUME NEW p \in Spots, At(s.v, s.m, p) \in v.bitmap PROVE At(v, m, p) = At(s.v, s.m, p)
  <2>1. CASE p >= 0
    <3>1. ~(p < N)
      BY <1>2, <1>8, <2>1
    <3>2. At(s.v, s.m, p) = 0
      BY <1>2, <1>3, <1>4, <2>1, <3>1 DEF Ends
    <3> QED BY <1>7, <1>8, <3>2
  <2>2. CASE p = -1
    <3>1. ~(N > NDirect)
      BY <1>2, <1>5, <1>8, <2>2
    <3> QED BY <1>2, <1>3, <1>5, <2>2, <3>1, Constants
  <2>3. CASE p < 0 /\ p # -1
    BY <1>2, <2>3
  <2> QED BY <1>4, <2>1, <2>2, <2>3
<1>9. Others(v, m) \subseteq Others(s.v, s.m)
  <2>1. ASSUME NEW x \in Others(v, m) PROVE x \in Others(s.v, s.m)
    <3>1. x \in v.bitmap /\ x # 0 /\ \A p \in Spots : At(v, m, p) # x
      BY <1>7 DEF Others, Own
    <3>2. \A p \in Spots : At(s.v, s.m, p) # x
      BY <1>8, <3>1
    <3> QED BY <1>1, <3>1, <3>2 DEF Others, Own
  <2> QED BY <2>1
<1>10. Kept(v, m, s.v, s.m)
  <2>1. \A x \in Others(v, m) : s.v.disk[x] = v.disk[x]
    BY <1>1 DEF Others
  <2> QED BY <1>1, <1>2, <1>9, <2>1 DEF Kept
<1>11. ASSUME NEW p \in Spots, First(p) < N PROVE At(s.v, s.m, p) # 0
  <2>1. CASE p >= 0
    BY <1>2, <1>4, <1>11, <2>1
  <2>2. CASE p = -1
    <3>1. N > NDirect
      BY <1>3, <1>5, <1>11, <2>2, Constants
    <3> QED BY <1>2, <1>5, <1>7, <2>2, <3>1
  <2>3. CASE p < 0 /\ p # -1
    BY <1>3, <1>4, <1>6, <1>11, <2>3, Constants
  <2> QED BY <1>4, <2>1, <2>2, <2>3
<1>12. ASSUME NEW x \in Positions PROVE Word(s.v, s.m, x) = IF x < n THEN Data(f) ELSE 0
  <2> DEFINE p == Blk(x)
             k == Off(x)
  <2>1. x \in Nat /\ p \in Spots /\ p \in Nat /\ k \in Slots
    BY PositionIs
  <2>2. Word(s.v, s.m, x) = PtrAt(s.v, At(s.v, s.m, p), k)
    BY DEF Word
  <2>3. x = p * PPB + k
    BY <2>1, Digit
  <2>4. x < n => p < N
    BY <2>1, WordPlaces DEF N
  <2> HIDE DEF p, k
  <2>5. CASE p < N
    <3> DEFINE b == At(s.v, s.m, p)
    <3>1. b # 0 /\ s.v.disk[b] = SmallWords(f, n, p)
      BY <1>2, <2>1, <2>5
    <3>2. PtrAt(s.v, b, k) = SmallWords(f, n, p)[k]
      BY <3>1 DEF PtrAt
    <3>3. SmallWords(f, n, p)[k] = IF p * PPB + k < n THEN Data(f) ELSE 0
      BY <2>1 DEF SmallWords
    <3> HIDE DEF b
    <3>4. SmallWords(f, n, p)[k] = IF x < n THEN Data(f) ELSE 0
      BY <2>3, <3>3
    <3> QED BY <2>2, <3>2, <3>4 DEF b
  <2>6. CASE ~(p < N)
    <3>1. At(s.v, s.m, p) = 0
      BY <1>2, <1>3, <2>1, <2>6 DEF Ends
    <3>2. PtrAt(s.v, At(s.v, s.m, p), k) = 0
      BY <3>1 DEF PtrAt
    <3> QED BY <2>2, <2>4, <2>6, <3>2
  <2> QED BY <2>5, <2>6
<1>13. ASSUME Trim(v, m, 0)
       PROVE  Others(s.v, s.m) = Others(v, m) /\ Trim(s.v, s.m, N)
  <2>1. \A p \in Spots : At(v, m, p) = 0
    BY <1>4, <1>13 DEF Trim
  <2>2. m.ind = 0
    BY <1>5, <2>1
  <2>3. ASSUME NEW p \in Spots, First(p) >= N PROVE At(s.v, s.m, p) = 0
    <3>1. CASE p >= 0
      BY <1>2, <1>4, <2>3, <3>1 DEF Ends
    <3>2. CASE p = -1
      <4>1. N <= NDirect
        BY <1>5, <2>3, <3>2
      <4> QED BY <1>2, <1>5, <2>2, <3>2, <4>1
    <3>3. CASE p < 0 /\ p # -1
      BY <1>2, <2>1, <3>3
    <3> QED BY <1>4, <3>1, <3>2, <3>3
  <2> QED BY <1>2, <2>2, <2>3 DEF Trim
<1> QED BY <1>2, <1>10, <1>11, <1>12, <1>13 DEF Whole, N

(* Unlink leaves a file without blocks.                                    *)
LEMMA UnlinkDone ==
  ASSUME NEW v, NEW i, VolOK(v), InOrder(v, i)
  PROVE  LET w == FreeBlocks(v, InodeBlocks(v, i.map, BlocksFor(i.size)))
         IN Kept(v, i.map, w, Deleted.map) /\ InOrder(w, Deleted) /\ Exact(v, i, w, Deleted)
<1> DEFINE m == i.map
           nb == BlocksFor(i.size)
           D == {p \in Spots : First(p) < nb}
           F == InodeBlocks(v, m, nb)
           w == FreeBlocks(v, F)
<1>1. m \in Maps /\ Tree(v, m) /\ nb <= Reach /\ i.size \in Nat
  BY DEF InOrder, Nodes
<1>2. nb \in Nat
  BY <1>1, BlockBound
<1> HIDE DEF m, nb
<1>3. F = Led(v, m, D)
  BY <1>1, <1>2, InodeBlocksAre
<1>4. F \in SUBSET v.bitmap
  <2>1. D \in SUBSET Spots
    OBVIOUS
  <2> QED BY <1>1, <1>3, <2>1, LedInUse
<1>5. F \subseteq Own(v, m)
  BY <1>3 DEF Led, Own
<1>6. Trim(v, m, nb) => F = Own(v, m)
  <2>1. ASSUME Trim(v, m, nb), NEW b \in Own(v, m) PROVE b \in F
    <3>1. PICK p \in Spots : b = At(v, m, p) /\ b # 0
      BY DEF Own
    <3>2. First(p) < nb
      BY <1>2, <2>1, <3>1, SpotsAreInt DEF Trim
    <3> QED BY <1>3, <3>1, <3>2 DEF Led
  <2> QED BY <1>5, <2>1
<1> HIDE DEF F
<1>7. /\ VolOK(w) /\ w.bitmap = v.bitmap \ F
      /\ \A b \in Blocks \ F : w.disk[b] = v.disk[b]
  BY <1>4, Freed
<1> HIDE DEF w
<1>8. /\ Deleted.map = NoMap /\ Deleted.size = 0 /\ NoMap.ind = 0 /\ NoMap.dbl = 0
      /\ \A k \in 0..(NDirect - 1) : NoMap.direct[k] = 0
  BY DEF Deleted, NoMap
<1>9. Deleted \in Nodes /\ NoMap \in Maps
  BY Constants DEF Deleted, NoMap, Nodes, Maps
<1>10. \A p \in Spots : At(w, NoMap, p) = 0
  <2>1. \A p \in 0..(NDirect - 1) : At(w, NoMap, p) = 0
    BY <1>8, AtDirect
  <2>2. At(w, NoMap, -1) = 0 /\ At(w, NoMap, -2) = 0
    BY <1>8, AtInd, AtDbl
  <2>3. \A k \in Slots : At(w, NoMap, Single(k)) = 0 /\ At(w, NoMap, Child(k)) = 0
    BY <1>8, AtSingle, AtChild DEF PtrAt
  <2>4. \A c, k \in Slots : At(w, NoMap, Deep(c, k)) = 0
    BY <1>8, AtDeep DEF PtrAt
  <2> QED BY <2>1, <2>2, <2>3, <2>4, Regions
<1>11. Tree(w, NoMap) /\ Own(w, NoMap) = {}
  BY <1>10 DEF Tree, Own
<1>12. Others(w, NoMap) = v.bitmap \ F
  BY <1>7, <1>11 DEF Others
<1>13. Kept(v, m, w, NoMap)
  <2>1. Others(v, m) \subseteq Others(w, NoMap)
    BY <1>5, <1>12 DEF Others
  <2>2. ASSUME NEW x \in Others(v, m) PROVE w.disk[x] = v.disk[x]
    <3>1. x \in Blocks \ F
      BY <1>5, BitmapBlocks DEF Others
    <3> QED BY <1>7, <3>1
  <2> QED BY <1>7, <1>9, <1>11, <2>1, <2>2 DEF Kept
<1>14. BlocksFor(0) = 0
  <2>1. BlocksFor(0) \in Nat /\ (0 < BlocksFor(0) <=> 0 * PPB < 0)
    BY BlockBound
  <2>2. 0 * PPB = 0
    BY Constants
  <2> QED BY <2>1, <2>2
<1>15. \A x \in Positions : Word(w, NoMap, x) = 0
  <2>1. ASSUME NEW x \in Positions PROVE Word(w, NoMap, x) = 0
    <3>1. At(w, NoMap, Blk(x)) = 0
      BY <1>10, PositionIs
    <3> QED BY <3>1 DEF Word, PtrAt
  <2> QED BY <2>1
<1>16. InOrder(w, Deleted)
  <2>1. 0 <= Reach
    BY Products
  <2> QED BY <1>8, <1>9, <1>10, <1>11, <1>14, <1>15, <2>1 DEF InOrder, Ends, ZeroBeyond
<1>17. Exact(v, i, w, Deleted)
  <2>1. Trim(w, NoMap, BlocksFor(0))
    BY <1>10 DEF Trim
  <2>2. Trim(v, m, nb) => Others(w, NoMap) = Others(v, m)
    BY <1>6, <1>12 DEF Others
  <2> QED BY <1>8, <2>1, <2>2 DEF Exact, m, nb
<1> QED BY <1>8, <1>13, <1>16, <1>17 DEF w, F, m, nb

(* An empty file has no block.                                             *)
LEMMA NoBlocks ==
  /\ BlocksFor(0) = 0 /\ IBlocks(0) = 0 /\ 0 <= Reach
  /\ \A v, m : Whole(v, m, 0)
<1>1. BlocksFor(0) = 0
  <2>1. BlocksFor(0) \in Nat /\ (0 < BlocksFor(0) <=> 0 * PPB < 0)
    BY BlockBound
  <2>2. 0 * PPB = 0
    BY Constants
  <2> QED BY <2>1, <2>2
<1>2. IBlocks(0) = 0
  BY Constants DEF IBlocks
<1>3. \A v, m : Whole(v, m, 0)
  <2>1. \A p \in Spots : ~(First(p) < 0)
    BY SpotsAreInt
  <2> QED BY <2>1 DEF Whole
<1> QED BY <1>1, <1>2, <1>3, Products

(* Create_File of an inode that has no block.                              *)
LEMMA CreateDone ==
  ASSUME NEW v, VolOK(v), InOrder(v, Deleted)
  PROVE  LET j == [Deleted EXCEPT !.live = TRUE]
         IN /\ Kept(v, Deleted.map, v, j.map) /\ InOrder(v, j)
            /\ Exact(v, Deleted, v, j) /\ NoHoles(v, j)
            /\ j.live = TRUE /\ j.size = 0
            /\ \A x \in Positions : Word(v, j.map, x) = Word(v, Deleted.map, x)
<1> DEFINE j == [Deleted EXCEPT !.live = TRUE]
<1>1. j.map = Deleted.map /\ j.size = 0 /\ j.size = Deleted.size /\ j.iblocks = 0 /\ j.live = TRUE
  BY DEF Deleted
<1>2. Deleted \in Nodes
  BY DEF InOrder
<1>3. j \in Nodes
  BY <1>2 DEF Nodes
<1> HIDE DEF j
<1>4. InOrder(v, j)
  BY <1>1, <1>3 DEF InOrder
<1>5. Deleted.map \in Maps /\ Tree(v, Deleted.map)
  BY <1>2 DEF InOrder, Nodes
<1>6. Kept(v, Deleted.map, v, j.map)
  BY <1>1, <1>5, KeptNothing
<1>7. Exact(v, Deleted, v, j)
  BY <1>1 DEF Exact
<1>8. NoHoles(v, j)
  BY <1>1, NoBlocks DEF NoHoles
<1> QED BY <1>1, <1>4, <1>6, <1>7, <1>8 DEF j

(* Write_File: Truncate to 0, then Write_Small.                            *)
LEMMA WriteDone ==
  ASSUME NEW f \in Files, NEW v, NEW i, VolOK(v), InOrder(v, i), NEW n \in Nat,
         BlocksFor(n) <= NDirect + PPB
  PROVE  LET t == Truncated(v, i, 0)
             w == WrittenSmall(f, n, t)
             j == IF w.ok THEN [t.i EXCEPT !.size = n, !.map = w.m, !.iblocks = IBlocks(BlocksFor(n))]
                  ELSE t.i
         IN /\ Sound(v, i, w.v, j) /\ w.ok \in BOOLEAN
            /\ w.ok => Exact(v, i, w.v, j) /\ NoHoles(w.v, j)
            /\ j.size = IF w.ok THEN n ELSE 0
            /\ w.ok => \A x \in Positions : Word(w.v, j.map, x) = IF x < n THEN Data(f) ELSE 0
<1> DEFINE t == Truncated(v, i, 0)
           w == WrittenSmall(f, n, t)
           N == BlocksFor(n)
           j == IF w.ok THEN [t.i EXCEPT !.size = n, !.map = w.m, !.iblocks = IBlocks(N)]
                ELSE t.i
<1>1. Resized(v, i, t.v, t.i, 0)
  BY TruncatedDone, NoBlocks
<1> HIDE DEF t
<1>2. /\ Kept(v, i.map, t.v, t.i.map) /\ InOrder(t.v, t.i) /\ t.i.size = 0 /\ t.i.live = i.live
      /\ Trim(v, i.map, BlocksFor(i.size)) =>
           Others(t.v, t.i.map) = Others(v, i.map) /\ Trim(t.v, t.i.map, 0)
  BY <1>1, NoBlocks DEF Resized
<1>3. /\ VolOK(t.v) /\ t.i \in Nodes /\ t.i.map \in Maps /\ Tree(t.v, t.i.map) /\ Ends(t.v, t.i.map, 0)
  BY <1>2, NoBlocks DEF Kept, InOrder, Nodes
<1>4. Writing(f, n, t.v, t.i.map, N, w)
  BY <1>3, WrittenSmallDone
<1>5. Safe(t.v, w) /\ w.ok \in BOOLEAN /\ w.m \in Maps
  BY <1>4 DEF Writing, Safe, SmallStates
<1> HIDE DEF w
<1>6. CASE ~w.ok
  <2>1. j = t.i
    BY <1>6
  <2>2. Sound(t.v, t.i, w.v, t.i)
    BY <1>2, <1>3, <1>5, SmallFails
  <2>3. Kept(v, i.map, w.v, t.i.map)
    BY <1>2, <2>2, KeptTwice DEF Sound
  <2> HIDE DEF j
  <2>4. Sound(v, i, w.v, j)
    BY <1>2, <2>1, <2>2, <2>3 DEF Sound
  <2>5. j.size = 0
    BY <1>2, <2>1
  <2>6. /\ Sound(v, i, w.v, j) /\ w.ok \in BOOLEAN
        /\ w.ok => Exact(v, i, w.v, j) /\ NoHoles(w.v, j)
        /\ j.size = IF w.ok THEN n ELSE 0
        /\ w.ok => \A x \in Positions : Word(w.v, j.map, x) = IF x < n THEN Data(f) ELSE 0
    BY <1>5, <1>6, <2>4, <2>5
  <2> QED BY <2>6 DEF w, t, j, N
<1>7. CASE w.ok
  <2>1. N \in Nat /\ IBlocks(N) \in Nat
    BY BlockBound, IBlocksNat
  <2>2. /\ j \in Nodes /\ j.map = w.m /\ j.size = n /\ j.iblocks = IBlocks(N) /\ j.live = t.i.live
    <3> DEFINE k == t.i
               a == w.m
               ib == IBlocks(N)
    <3>1. j = [k EXCEPT !.size = n, !.map = a, !.iblocks = ib]
      BY <1>7
    <3>2. k \in Nodes /\ a \in Maps /\ ib \in Nat
      BY <1>3, <1>5, <2>1
    <3> HIDE DEF k, a, ib, j
    <3>3. j \in Nodes /\ j.map = a /\ j.size = n /\ j.iblocks = ib /\ j.live = k.live
      BY <3>1, <3>2 DEF Nodes
    <3> QED BY <3>3 DEF k, a, ib
  <2> HIDE DEF j
  <2>3. /\ Kept(t.v, t.i.map, w.v, w.m) /\ Ends(w.v, w.m, N) /\ Whole(w.v, w.m, N)
        /\ \A x \in Positions : Word(w.v, w.m, x) = IF x < n THEN Data(f) ELSE 0
        /\ Trim(t.v, t.i.map, 0) =>
             Others(w.v, w.m) = Others(t.v, t.i.map) /\ Trim(w.v, w.m, N)
    BY <1>3, <1>4, <1>7, SmallFills
  <2>4. Kept(v, i.map, w.v, w.m) /\ Tree(w.v, w.m)
    BY <1>2, <2>3, KeptTwice DEF Kept
  <2>5. ZeroBeyond(w.v, w.m, n)
    <3>1. \A x \in Positions : x >= n => ~(x < n)
      BY PositionIs
    <3> QED BY <2>3, <3>1 DEF ZeroBeyond
  <2>6. N <= Reach
    BY <2>1, Constants, Products
  <2>7. InOrder(w.v, j)
    BY <2>2, <2>3, <2>4, <2>5, <2>6 DEF InOrder, N
  <2>8. Sound(v, i, w.v, j)
    BY <1>2, <2>2, <2>4, <2>7 DEF Sound
  <2>9. Exact(v, i, w.v, j)
    BY <1>2, <2>2, <2>3 DEF Exact, N
  <2>10. NoHoles(w.v, j)
    BY <2>2, <2>3 DEF NoHoles, N
  <2>11. /\ Sound(v, i, w.v, j) /\ w.ok \in BOOLEAN
         /\ w.ok => Exact(v, i, w.v, j) /\ NoHoles(w.v, j)
         /\ j.size = IF w.ok THEN n ELSE 0
         /\ w.ok => \A x \in Positions : Word(w.v, j.map, x) = IF x < n THEN Data(f) ELSE 0
    BY <1>5, <1>7, <2>2, <2>3, <2>8, <2>9, <2>10
  <2> QED BY <2>11 DEF w, t, j, N
<1> QED BY <1>6, <1>7

-------------------------------------------------------------------------------
(* The invariant and the steps.                                            *)

(* A file none of whose blocks the operation may touch reads as before.    *)
LEMMA OtherSame ==
  ASSUME NEW v, NEW m, NEW w, NEW n, NEW i, VolOK(v), InOrder(v, i), Kept(v, m, w, n),
         Own(v, i.map) \subseteq Others(v, m)
  PROVE  /\ InOrder(w, i) /\ Own(w, i.map) = Own(v, i.map) /\ Own(w, i.map) \subseteq Others(w, n)
         /\ \A k : Trim(v, i.map, k) => Trim(w, i.map, k)
         /\ NoHoles(v, i) => NoHoles(w, i)
         /\ \A x \in Positions : Word(w, i.map, x) = Word(v, i.map, x)
<1> DEFINE a == i.map
<1>1. a \in Maps /\ Tree(v, a)
  BY DEF InOrder, Nodes
<1>2. /\ VolOK(w) /\ Others(v, m) \subseteq Others(w, n)
      /\ \A x \in Others(v, m) : w.disk[x] = v.disk[x]
  BY DEF Kept
<1>3. Own(v, a) \subseteq Others(v, m)
  OBVIOUS
<1> HIDE DEF a
<1>4. \A p \in Spots : At(v, a, p) # 0 => w.disk[At(v, a, p)] = v.disk[At(v, a, p)]
  BY <1>2, <1>3 DEF Own
<1>5. \A p \in Spots : At(w, a, p) = At(v, a, p)
  BY <1>4, MapSame
<1>6. Own(w, a) = Own(v, a)
  BY <1>5 DEF Own
<1>7. Own(w, a) \subseteq Others(w, n)
  BY <1>2, <1>3, <1>6
<1>8. Tree(w, a)
  <2>1. \A p \in Spots : At(w, a, p) # 0 => At(w, a, p) \in w.bitmap
    BY <1>7 DEF Own, Others
  <2> QED BY <1>1, <1>5, <2>1 DEF Tree
<1>9. ASSUME NEW x \in Positions PROVE Word(w, a, x) = Word(v, a, x)
  <2> DEFINE b == At(v, a, Blk(x))
  <2>1. Blk(x) \in Spots
    BY PositionIs
  <2>2. At(w, a, Blk(x)) = b /\ (b # 0 => w.disk[b] = v.disk[b])
    BY <1>4, <1>5, <2>1
  <2>3. Word(w, a, x) = PtrAt(w, At(w, a, Blk(x)), Off(x)) /\ Word(v, a, x) = PtrAt(v, b, Off(x))
    BY DEF Word
  <2> HIDE DEF b
  <2> QED BY <2>2, <2>3 DEF PtrAt
<1>10. InOrder(w, i)
  <2>1. /\ i \in Nodes /\ BlocksFor(i.size) <= Reach
        /\ Ends(v, a, BlocksFor(i.size)) /\ ZeroBeyond(v, a, i.size)
    BY DEF InOrder, a
  <2>2. Ends(w, a, BlocksFor(i.size))
    BY <1>5, <2>1 DEF Ends
  <2>3. ZeroBeyond(w, a, i.size)
    BY <1>9, <2>1 DEF ZeroBeyond
  <2> QED BY <1>8, <2>1, <2>2, <2>3 DEF InOrder, a
<1>11. \A k : Trim(v, a, k) => Trim(w, a, k)
  BY <1>5 DEF Trim
<1>12. NoHoles(v, i) => NoHoles(w, i)
  BY <1>5 DEF NoHoles, Whole, a
<1> QED BY <1>6, <1>7, <1>9, <1>10, <1>11, <1>12 DEF a

(***************************************************************************)
(* The invariant: every file is in order, no block is in two, and as long  *)
(* as no write has met a full volume the bitmap is exactly what they have. *)
(***************************************************************************)
Apart == \A f, g \in Files : f # g => Own(vol, inode[f].map) \cap Own(vol, inode[g].map) = {}

AllOwned ==
  /\ vol.bitmap = UNION {Own(vol, inode[f].map) : f \in Files}
  /\ \A f \in Files : Trim(vol, inode[f].map, BlocksFor(inode[f].size))
  /\ \A f \in Live \ sparse : NoHoles(vol, inode[f])

IInv ==
  /\ VolOK(vol) /\ full \in 0..MaxFull /\ sparse \subseteq Files
  /\ inode \in [Files -> Nodes]
  /\ \A f \in Files : InOrder(vol, inode[f]) /\ (inode[f].live \/ inode[f] = Deleted)
  /\ Apart
  /\ full = 0 => AllOwned

(* The step leaves the inode and the words of every file but f.            *)
OthersRead(f) ==
  \A g \in Files \ {f} :
    /\ inode'[g] = inode[g]
    /\ \A x \in Positions : Word(vol', inode'[g].map, x) = Word(vol, inode[g].map, x)

(* An operation that owes nothing to the others, and leaves its own file   *)
(* in order, preserves the invariant.                                      *)
LEMMA StepDone ==
  ASSUME IInv, NEW f \in Files, NEW j, inode' = [inode EXCEPT ![f] = j],
         Kept(vol, inode[f].map, vol', j.map), InOrder(vol', j), j.live \/ j = Deleted,
         full' \in 0..MaxFull, full' = 0 => full = 0,
         sparse' \subseteq Files, \A g \in Files \ {f} : g \in sparse => g \in sparse',
         full' = 0 => Exact(vol, inode[f], vol', j),
         full' = 0 /\ f \notin sparse' => NoHoles(vol', j)
  PROVE  IInv' /\ OthersRead(f) /\ inode'[f] = j
<1> DEFINE m == inode[f].map
           w == vol'
<1>1. /\ VolOK(vol) /\ inode \in [Files -> Nodes]
      /\ \A g \in Files : InOrder(vol, inode[g]) /\ (inode[g].live \/ inode[g] = Deleted)
      /\ \A g, h \in Files : g # h => Own(vol, inode[g].map) \cap Own(vol, inode[h].map) = {}
      /\ full = 0 => AllOwned
  BY DEF IInv, Apart
<1>2. /\ inode'[f] = j /\ \A g \in Files \ {f} : inode'[g] = inode[g]
  BY <1>1
<1>3. j \in Nodes
  BY DEF InOrder
<1>4. inode' \in [Files -> Nodes]
  BY <1>1, <1>3
<1>5. \A g \in Files : Own(vol, inode[g].map) \subseteq vol.bitmap
  BY <1>1 DEF InOrder, Tree, Own
<1>6. \A g \in Files \ {f} : Own(vol, inode[g].map) \subseteq Others(vol, m)
  BY <1>1, <1>5 DEF Others
<1>7. ASSUME NEW g \in Files \ {f}
      PROVE  /\ InOrder(w, inode[g]) /\ Own(w, inode[g].map) = Own(vol, inode[g].map)
             /\ Own(w, inode[g].map) \subseteq Others(w, j.map)
             /\ \A k : Trim(vol, inode[g].map, k) => Trim(w, inode[g].map, k)
             /\ NoHoles(vol, inode[g]) => NoHoles(w, inode[g])
             /\ \A x \in Positions : Word(w, inode[g].map, x) = Word(vol, inode[g].map, x)
  <2> DEFINE i == inode[g]
  <2>1. InOrder(vol, i) /\ Own(vol, i.map) \subseteq Others(vol, m) /\ Kept(vol, m, w, j.map)
    BY <1>1, <1>6
  <2> HIDE DEF i, m, w
  <2>2. /\ InOrder(w, i) /\ Own(w, i.map) = Own(vol, i.map)
        /\ Own(w, i.map) \subseteq Others(w, j.map)
        /\ \A k : Trim(vol, i.map, k) => Trim(w, i.map, k)
        /\ NoHoles(vol, i) => NoHoles(w, i)
        /\ \A x \in Positions : Word(w, i.map, x) = Word(vol, i.map, x)
    BY <1>1, <2>1, OtherSame
  <2> QED BY <2>2 DEF i
<1>8. VolOK(w) /\ Tree(w, j.map) /\ Others(vol, m) \subseteq Others(w, j.map)
  BY DEF Kept
<1>9. Own(w, j.map) \subseteq w.bitmap
  BY <1>8 DEF Tree, Own
<1>10. OthersRead(f)
  BY <1>2, <1>7 DEF OthersRead
<1>11. Apart'
  <2>1. ASSUME NEW g \in Files, NEW h \in Files, g # h
        PROVE  Own(w, inode'[g].map) \cap Own(w, inode'[h].map) = {}
    <3>1. CASE g # f /\ h # f
      <4>1. Own(w, inode[g].map) = Own(vol, inode[g].map) /\ Own(w, inode[h].map) = Own(vol, inode[h].map)
        BY <1>7, <3>1
      <4>2. inode'[g] = inode[g] /\ inode'[h] = inode[h]
        BY <1>2, <3>1
      <4> QED BY <1>1, <2>1, <4>1, <4>2
    <3>2. CASE g = f
      <4>1. h \in Files \ {f} /\ inode'[h] = inode[h] /\ inode'[g] = j
        BY <1>2, <2>1, <3>2
      <4>2. Own(w, inode[h].map) \subseteq Others(w, j.map)
        BY <1>7, <4>1
      <4> QED BY <4>1, <4>2 DEF Others
    <3>3. CASE h = f
      <4>1. g \in Files \ {f} /\ inode'[g] = inode[g] /\ inode'[h] = j
        BY <1>2, <2>1, <3>3
      <4>2. Own(w, inode[g].map) \subseteq Others(w, j.map)
        BY <1>7, <4>1
      <4> QED BY <4>1, <4>2 DEF Others
    <3> QED BY <3>1, <3>2, <3>3
  <2> QED BY <2>1 DEF Apart
<1>12. \A g \in Files : InOrder(w, inode'[g]) /\ (inode'[g].live \/ inode'[g] = Deleted)
  BY <1>1, <1>2, <1>7
<1>13. ASSUME full' = 0 PROVE AllOwned'
  <2>0. full = 0
    BY <1>13
  <2>1. /\ vol.bitmap = UNION {Own(vol, inode[g].map) : g \in Files}
        /\ \A g \in Files : Trim(vol, inode[g].map, BlocksFor(inode[g].size))
        /\ \A g \in Live \ sparse : NoHoles(vol, inode[g])
    BY <1>1, <2>0 DEF AllOwned
  <2>2. Others(w, j.map) = Others(vol, m) /\ Trim(w, j.map, BlocksFor(j.size))
    BY <1>13, <2>1 DEF Exact
  <2>3. w.bitmap = Own(w, j.map) \cup Others(vol, m)
    BY <1>9, <2>2 DEF Others
  <2>4. \A b : b \in Others(vol, m) <=> \E g \in Files \ {f} : b \in Own(vol, inode[g].map)
    BY <1>6, <2>1 DEF Others
  <2>5. w.bitmap = UNION {Own(w, inode'[g].map) : g \in Files}
    <3>1. \A g \in Files \ {f} : Own(w, inode'[g].map) = Own(vol, inode[g].map)
      BY <1>2, <1>7
    <3>2. Own(w, inode'[f].map) = Own(w, j.map)
      BY <1>2
    <3>3. \A b : b \in w.bitmap <=> \E g \in Files : b \in Own(w, inode'[g].map)
      BY <2>3, <2>4, <3>1, <3>2
    <3> HIDE DEF w
    <3> QED BY <3>3
  <2>6. \A g \in Files : Trim(w, inode'[g].map, BlocksFor(inode'[g].size))
    BY <1>2, <1>7, <2>1, <2>2
  <2>7. ASSUME NEW g \in Files, inode'[g].live, g \notin sparse' PROVE NoHoles(w, inode'[g])
    <3>1. CASE g = f
      BY <1>2, <1>13, <2>7, <3>1
    <3>2. CASE g # f
      <4>1. g \in Files \ {f} /\ inode'[g] = inode[g] /\ g \notin sparse
        BY <1>2, <2>7, <3>2
      <4>2. g \in Live \ sparse
        BY <2>7, <4>1 DEF Live
      <4> QED BY <1>7, <2>1, <4>1, <4>2
    <3> QED BY <3>1, <3>2
  <2> QED BY <2>5, <2>6, <2>7 DEF AllOwned, Live
<1> QED BY <1>2, <1>4, <1>8, <1>10, <1>11, <1>12, <1>13 DEF IInv

(* The word at x of file f, before and after a step.                       *)
Text(f, x) == Word(vol, inode[f].map, x)

(* The lengths that files are given are within reach.                      *)
LEMMA SizesAre ==
  ASSUME NEW f \in Files, NEW n \in Sizes[f]
  PROVE  n \in Nat /\ BlocksFor(n) <= Reach
BY ReachAssumption

(* full counts the failures.                                               *)
LEMMA FullIs ==
  ASSUME NEW ok \in BOOLEAN, full \in 0..MaxFull, Full(ok)
  PROVE  full' \in 0..MaxFull /\ (full' = 0 => full = 0 /\ ok)
BY Constants DEF Full

(* What the invariant says of one file.                                    *)
LEMMA InodeOf ==
  ASSUME IInv, NEW f \in Files
  PROVE  /\ VolOK(vol) /\ InOrder(vol, inode[f]) /\ full \in 0..MaxFull /\ sparse \subseteq Files
         /\ inode[f] \in Nodes /\ inode[f].size \in Nat /\ BlocksFor(inode[f].size) <= Reach
         /\ inode[f].live \/ inode[f] = Deleted
         /\ full = 0 => Trim(vol, inode[f].map, BlocksFor(inode[f].size))
         /\ full = 0 /\ inode[f].live /\ f \notin sparse => NoHoles(vol, inode[f])
BY DEF IInv, InOrder, Nodes, AllOwned, Live

(* Create_File preserves the invariant; the file is new and empty.         *)
LEMMA CreateStep ==
  ASSUME IInv, NEW f \in Files, CreateFile(f)
  PROVE  /\ IInv' /\ OthersRead(f)
         /\ ~inode[f].live /\ inode'[f].live /\ inode'[f].size = 0
<1> DEFINE j == [Deleted EXCEPT !.live = TRUE]
<1>1. /\ VolOK(vol) /\ InOrder(vol, inode[f]) /\ full \in 0..MaxFull /\ sparse \subseteq Files
      /\ inode[f].live \/ inode[f] = Deleted
  BY InodeOf
<1>2. ~inode[f].live
  BY DEF CreateFile, Live
<1>3. inode[f] = Deleted
  BY <1>1, <1>2
<1>4. /\ inode' = [inode EXCEPT ![f] = j] /\ vol' = vol /\ full' = full /\ sparse' = sparse
  BY DEF CreateFile
<1>5. /\ Kept(vol, Deleted.map, vol, j.map) /\ InOrder(vol, j)
      /\ Exact(vol, Deleted, vol, j) /\ NoHoles(vol, j)
      /\ j.live = TRUE /\ j.size = 0
  BY <1>1, <1>3, CreateDone
<1> HIDE DEF j
<1>6. /\ Kept(vol, inode[f].map, vol', j.map) /\ InOrder(vol', j)
      /\ Exact(vol, inode[f], vol', j) /\ NoHoles(vol', j)
  BY <1>3, <1>4, <1>5
<1>7. IInv' /\ OthersRead(f) /\ inode'[f] = j
  BY <1>1, <1>4, <1>5, <1>6, StepDone
<1> QED BY <1>2, <1>5, <1>7

(* Unlink preserves the invariant; the file is gone.                       *)
LEMMA UnlinkStep ==
  ASSUME IInv, NEW f \in Files, Unlink(f)
  PROVE  IInv' /\ OthersRead(f) /\ inode[f].live /\ ~inode'[f].live
<1> DEFINE i == inode[f]
           w == FreeBlocks(vol, InodeBlocks(vol, i.map, BlocksFor(i.size)))
<1>1. VolOK(vol) /\ InOrder(vol, i) /\ full \in 0..MaxFull /\ sparse \subseteq Files
  BY InodeOf
<1>2. /\ inode' = [inode EXCEPT ![f] = Deleted] /\ vol' = w /\ full' = full
      /\ sparse' = sparse \ {f} /\ i.live
  BY DEF Unlink, Live
<1>3. Kept(vol, i.map, w, Deleted.map) /\ InOrder(w, Deleted) /\ Exact(vol, i, w, Deleted)
  BY <1>1, UnlinkDone
<1>4. Deleted.live = FALSE /\ Deleted.size = 0 /\ Deleted.iblocks = 0
  BY DEF Deleted
<1>5. NoHoles(w, Deleted)
  BY <1>4, NoBlocks DEF NoHoles
<1> HIDE DEF w
<1>6. IInv' /\ OthersRead(f) /\ inode'[f] = Deleted
  <2>1. /\ Kept(vol, inode[f].map, vol', Deleted.map) /\ InOrder(vol', Deleted)
        /\ Exact(vol, inode[f], vol', Deleted) /\ NoHoles(vol', Deleted)
    BY <1>2, <1>3, <1>5
  <2> QED BY <1>1, <1>2, <2>1, StepDone
<1> QED BY <1>2, <1>4, <1>6

(* Write_File preserves the invariant; the file holds what was written.    *)
LEMMA WriteStep ==
  ASSUME IInv, NEW f \in Files, NEW n \in Sizes[f], WriteFile(f, n)
  PROVE  /\ IInv' /\ OthersRead(f) /\ inode[f].live /\ inode'[f].live
         /\ \A x \in Positions : x < inode'[f].size => Text(f, x)' = Data(f)
<1> DEFINE i == inode[f]
           t == Truncated(vol, i, 0)
           w == WrittenSmall(f, n, t)
           j == IF w.ok THEN [t.i EXCEPT !.size = n, !.map = w.m, !.iblocks = IBlocks(BlocksFor(n))]
                ELSE t.i
<1>1. VolOK(vol) /\ InOrder(vol, i) /\ full \in 0..MaxFull /\ sparse \subseteq Files
  BY InodeOf
<1>2. /\ inode' = [inode EXCEPT ![f] = j] /\ vol' = w.v /\ Full(w.ok)
      /\ sparse' = sparse \ {f} /\ i.live /\ BlocksFor(n) <= NDirect + PPB
  BY DEF WriteFile, Live
<1>3. n \in Nat
  BY SizesAre
<1>4. /\ Sound(vol, i, w.v, j) /\ w.ok \in BOOLEAN
      /\ w.ok => Exact(vol, i, w.v, j) /\ NoHoles(w.v, j)
      /\ j.size = IF w.ok THEN n ELSE 0
      /\ w.ok => \A x \in Positions : Word(w.v, j.map, x) = IF x < n THEN Data(f) ELSE 0
  BY <1>1, <1>2, <1>3, WriteDone
<1> HIDE DEF w, j, i
<1>5. full' \in 0..MaxFull /\ (full' = 0 => full = 0 /\ w.ok)
  BY <1>1, <1>2, <1>4, FullIs
<1>6. IInv' /\ OthersRead(f) /\ inode'[f] = j
  <2>1. /\ Kept(vol, inode[f].map, vol', j.map) /\ InOrder(vol', j) /\ j.live
        /\ full' = 0 => Exact(vol, inode[f], vol', j)
        /\ full' = 0 => NoHoles(vol', j)
    BY <1>2, <1>4, <1>5 DEF Sound, i
  <2>2. inode' = [inode EXCEPT ![f] = j] /\ sparse' = sparse \ {f}
    BY <1>2
  <2> QED BY <1>1, <1>5, <2>1, <2>2, StepDone
<1>7. ASSUME NEW x \in Positions, x < j.size PROVE Word(vol', j.map, x) = Data(f)
  <2>1. x \in Nat
    BY PositionIs
  <2>2. w.ok /\ x < n
    BY <1>4, <1>7, <2>1
  <2> QED BY <1>2, <1>4, <2>2
<1>8. j.live
  BY <1>2, <1>4 DEF Sound
<1> QED BY <1>2, <1>6, <1>7, <1>8 DEF Text, i

(* Append preserves the invariant; the file is extended.                   *)
LEMMA AppendStep ==
  ASSUME IInv, NEW f \in Files, NEW n \in Nat, AppendTo(f, n)
  PROVE  /\ IInv' /\ OthersRead(f) /\ inode[f].live /\ inode'[f].live
         /\ inode'[f].size >= inode[f].size
         /\ \A x \in Positions : x < inode'[f].size =>
              Text(f, x)' = IF x < inode[f].size THEN Text(f, x) ELSE Data(f)
<1> DEFINE i == inode[f]
           s == Appended(f, n)
           j == [i EXCEPT !.map = s.m, !.size = s.pos, !.iblocks = IBlocks(BlocksFor(s.pos))]
<1>1. /\ VolOK(vol) /\ InOrder(vol, i) /\ full \in 0..MaxFull /\ sparse \subseteq Files
      /\ i.size \in Nat /\ (full = 0 /\ i.live /\ f \notin sparse => NoHoles(vol, i))
  BY InodeOf
<1>2. inode \in [Files -> Nodes]
  BY DEF IInv
<1>3. /\ inode' = [inode EXCEPT ![f] = j] /\ vol' = s.v /\ Full(s.ok)
      /\ sparse' = sparse /\ i.live /\ BlocksFor(i.size + n) <= Reach
  BY <1>2 DEF AppendTo, Live
<1>4. /\ Sound(vol, i, s.v, j) /\ s.ok \in BOOLEAN
      /\ s.ok => Exact(vol, i, s.v, j)
      /\ s.ok /\ Whole(vol, i.map, BlocksFor(i.size)) => NoHoles(s.v, j)
      /\ j.size = s.pos /\ j.size >= i.size
      /\ \A x \in Positions :
           Word(s.v, j.map, x) = IF i.size <= x /\ x < j.size THEN Data(f)
                                 ELSE Word(vol, i.map, x)
  BY <1>1, <1>3, AppendDone
<1> HIDE DEF s, j, i
<1>5. full' \in 0..MaxFull /\ (full' = 0 => full = 0 /\ s.ok)
  BY <1>1, <1>3, <1>4, FullIs
<1>6. IInv' /\ OthersRead(f) /\ inode'[f] = j
  <2>1. /\ Kept(vol, inode[f].map, vol', j.map) /\ InOrder(vol', j) /\ j.live
        /\ full' = 0 => Exact(vol, inode[f], vol', j)
    BY <1>3, <1>4, <1>5 DEF Sound, i
  <2>2. full' = 0 /\ f \notin sparse' => NoHoles(vol', j)
    BY <1>1, <1>3, <1>4, <1>5 DEF NoHoles
  <2>3. inode' = [inode EXCEPT ![f] = j] /\ sparse' = sparse
    BY <1>3
  <2> QED BY <1>1, <1>5, <2>1, <2>2, <2>3, StepDone
<1>7. ASSUME NEW x \in Positions, x < j.size
      PROVE  Word(vol', j.map, x) = IF x < i.size THEN Word(vol, i.map, x) ELSE Data(f)
  <2>1. x \in Nat
    BY PositionIs
  <2>2. i.size <= x <=> ~(x < i.size)
    BY <1>1, <2>1
  <2> QED BY <1>3, <1>4, <1>7, <2>2
<1>8. j.live
  BY <1>3, <1>4 DEF Sound
<1> QED BY <1>3, <1>4, <1>6, <1>7, <1>8 DEF Text, i

(* Truncate preserves the invariant; the file is cut, or extended with     *)
(* zeros.                                                                  *)
LEMMA TruncateStep ==
  ASSUME IInv, NEW f \in Files, NEW n \in Sizes[f], Truncate(f, n)
  PROVE  /\ IInv' /\ OthersRead(f) /\ inode[f].live /\ inode'[f].live
         /\ inode'[f].size = n
         /\ \A x \in Positions : x < n => Text(f, x)' = IF x < inode[f].size THEN Text(f, x) ELSE 0
<1> DEFINE i == inode[f]
           t == Truncated(vol, i, n)
           j == t.i
<1>1. /\ VolOK(vol) /\ InOrder(vol, i) /\ full \in 0..MaxFull /\ sparse \subseteq Files
      /\ i.size \in Nat /\ (full = 0 /\ i.live /\ f \notin sparse => NoHoles(vol, i))
  BY InodeOf
<1>2. /\ inode' = [inode EXCEPT ![f] = j] /\ vol' = t.v /\ full' = full
      /\ sparse' = (IF n > i.size THEN sparse \cup {f} ELSE sparse) /\ i.live
  BY DEF Truncate, Live
<1>3. n \in Nat /\ BlocksFor(n) <= Reach
  BY SizesAre
<1>4. Resized(vol, i, t.v, j, n)
  BY <1>1, <1>3, TruncatedDone
<1> HIDE DEF t, j, i
<1>5. /\ Kept(vol, i.map, t.v, j.map) /\ InOrder(t.v, j) /\ j.size = n /\ j.live = i.live
      /\ Holds(vol, i.map, t.v, j.map, n)
      /\ Exact(vol, i, t.v, j)
      /\ n <= i.size /\ NoHoles(vol, i) => NoHoles(t.v, j)
  BY <1>4 DEF Resized, Exact
<1>6. IInv' /\ OthersRead(f) /\ inode'[f] = j
  <2>1. /\ Kept(vol, inode[f].map, vol', j.map) /\ InOrder(vol', j) /\ j.live
        /\ full' = 0 => Exact(vol, inode[f], vol', j)
    BY <1>2, <1>5 DEF i
  <2>2. full' = 0 /\ f \notin sparse' => NoHoles(vol', j)
    BY <1>1, <1>2, <1>3, <1>5
  <2>3. sparse' \subseteq Files /\ \A g \in Files \ {f} : g \in sparse => g \in sparse'
    BY <1>1, <1>2
  <2>4. full' \in 0..MaxFull /\ (full' = 0 => full = 0) /\ inode' = [inode EXCEPT ![f] = j]
    BY <1>1, <1>2
  <2> QED BY <2>1, <2>2, <2>3, <2>4, StepDone
<1>7. ASSUME NEW x \in Positions, x < n
      PROVE  Word(vol', j.map, x) = IF x < i.size THEN Word(vol, i.map, x) ELSE 0
  <2>1. x \in Nat
    BY PositionIs
  <2>2. Word(vol', j.map, x) = Word(vol, i.map, x)
    BY <1>2, <1>5, <1>7 DEF Holds
  <2>3. x >= i.size => Word(vol, i.map, x) = 0
    BY <1>1 DEF InOrder, ZeroBeyond
  <2> QED BY <1>1, <2>1, <2>2, <2>3
<1> QED BY <1>2, <1>5, <1>6, <1>7 DEF Text, i

(* A volume just made satisfies the invariant.                             *)
LEMMA InitDone == Init => IInv
<1>1. SUFFICES ASSUME Init PROVE IInv
  OBVIOUS
<1>2. /\ vol = [bitmap |-> {}, free |-> NBlocks, phantom |-> 0,
                disk |-> [b \in Blocks |-> [k \in Slots |-> Junk]]]
      /\ inode = [f \in Files |-> Deleted] /\ full = 0 /\ sparse = {}
  BY <1>1 DEF Init
<1>3. VolOK(vol)
  <2>1. vol \in Volumes
    BY <1>2, Constants, WordsAre DEF Volumes
  <2>2. Cardinality({}) = 0
    BY FS_EmptySet
  <2> QED BY <1>2, <2>1, <2>2, Constants DEF VolOK
<1>4. vol.bitmap = {}
  BY <1>2
<1> DEFINE v == vol
<1> HIDE DEF v
<1>5. \A p \in Spots : At(v, NoMap, p) = 0
  <2>1. NoMap.ind = 0 /\ NoMap.dbl = 0 /\ \A k \in 0..(NDirect - 1) : NoMap.direct[k] = 0
    BY DEF NoMap
  <2>2. \A p \in 0..(NDirect - 1) : At(v, NoMap, p) = 0
    BY <2>1, AtDirect
  <2>3. At(v, NoMap, -1) = 0 /\ At(v, NoMap, -2) = 0
    BY <2>1, AtInd, AtDbl
  <2>4. \A k \in Slots : At(v, NoMap, Single(k)) = 0 /\ At(v, NoMap, Child(k)) = 0
    BY <2>1, AtSingle, AtChild DEF PtrAt
  <2>5. \A c, k \in Slots : At(v, NoMap, Deep(c, k)) = 0
    BY <2>1, AtDeep DEF PtrAt
  <2> QED BY <2>2, <2>3, <2>4, <2>5, Regions
<1>6. /\ Deleted \in Nodes /\ Deleted.map = NoMap /\ Deleted.size = 0 /\ Deleted.iblocks = 0
      /\ Deleted.live = FALSE
  BY Constants DEF Deleted, NoMap, Nodes, Maps
<1>7. /\ Tree(v, NoMap) /\ Own(v, NoMap) = {} /\ \A k : Trim(v, NoMap, k) /\ Ends(v, NoMap, k)
  BY <1>5 DEF Tree, Own, Trim, Ends
<1>8. \A x \in Positions : Word(v, NoMap, x) = 0
  <2>1. ASSUME NEW x \in Positions PROVE Word(v, NoMap, x) = 0
    <3>1. At(v, NoMap, Blk(x)) = 0
      BY <1>5, PositionIs
    <3> QED BY <3>1 DEF Word, PtrAt
  <2> QED BY <2>1
<1>9. InOrder(v, Deleted)
  BY <1>6, <1>7, <1>8, NoBlocks DEF InOrder, ZeroBeyond
<1>10. \A f \in Files : inode[f] = Deleted
  BY <1>2
<1>11. Live = {}
  BY <1>6, <1>10 DEF Live
<1>12. inode \in [Files -> Nodes]
  BY <1>2, <1>6
<1>13. Apart
  BY <1>6, <1>7, <1>10 DEF Apart, v
<1>14. AllOwned
  BY <1>4, <1>6, <1>7, <1>10, <1>11 DEF AllOwned, v
<1>15. full \in 0..MaxFull /\ sparse \subseteq Files
  BY <1>2, Constants
<1> QED BY <1>3, <1>9, <1>10, <1>12, <1>13, <1>14, <1>15 DEF IInv, v

(* Every step preserves it.                                                *)
LEMMA NextDone == IInv /\ [Next]_vars => IInv'
<1>1. SUFFICES ASSUME IInv, [Next]_vars PROVE IInv'
  OBVIOUS
<1>2. CASE Next
  <2>1. PICK f \in Files :
          \/ CreateFile(f) \/ Unlink(f)
          \/ \E n \in Sizes[f] :
               \/ WriteFile(f, n) \/ Truncate(f, n)
               \/ n > inode[f].size /\ AppendTo(f, n - inode[f].size)
    BY <1>2 DEF Next
  <2>2. CASE CreateFile(f)
    BY <1>1, <2>2, CreateStep
  <2>3. CASE Unlink(f)
    BY <1>1, <2>3, UnlinkStep
  <2>4. ASSUME NEW n \in Sizes[f], WriteFile(f, n) PROVE IInv'
    BY <1>1, <2>4, WriteStep
  <2>5. ASSUME NEW n \in Sizes[f], Truncate(f, n) PROVE IInv'
    BY <1>1, <2>5, TruncateStep
  <2>6. ASSUME NEW n \in Sizes[f], n > inode[f].size, AppendTo(f, n - inode[f].size) PROVE IInv'
    <3>1. n \in Nat /\ inode[f].size \in Nat
      BY <1>1, SizesAre, InodeOf
    <3> DEFINE d == n - inode[f].size
    <3>2. d \in Nat /\ AppendTo(f, d)
      BY <2>6, <3>1
    <3> HIDE DEF d
    <3> QED BY <1>1, <3>2, AppendStep
  <2> QED BY <2>1, <2>2, <2>3, <2>4, <2>5, <2>6
<1>3. CASE UNCHANGED vars
  BY <1>1, <1>3 DEF vars, IInv, Apart, AllOwned, Live
<1> QED BY <1>1, <1>2, <1>3

(* In every reachable state every file's map is a tree in the bitmap,      *)
(* nothing is in it from its end on, its words from there on are zero, and *)
(* no block is in two files (writer.adb:131-136, 532-619, 774-853).        *)
THEOREM InvariantHolds == Spec => []IInv
<1>1. Init => IInv
  BY InitDone
<1>2. IInv /\ [Next]_vars => IInv'
  BY NextDone
<1> QED BY <1>1, <1>2, PTL DEF Spec

-------------------------------------------------------------------------------
(* The properties, from the invariant.                                     *)

(* The types, from the invariant: lengths are within reach and the free    *)
(* count is that of the bitmap.                                            *)
LEMMA TypesHold == IInv => TypeOK
<1>1. SUFFICES ASSUME IInv PROVE TypeOK
  OBVIOUS
<1>2. /\ vol \in Volumes /\ vol.free = NBlocks - Cardinality(vol.bitmap)
      /\ full \in 0..MaxFull /\ sparse \subseteq Files /\ inode \in [Files -> Nodes]
  BY <1>1 DEF IInv, VolOK
<1>3. vol.free \in 0..NBlocks
  <2>1. vol.bitmap \in SUBSET Blocks
    BY <1>2 DEF Volumes
  <2>2. Cardinality(vol.bitmap) \in 0..NBlocks
    BY <2>1, BlocksFinite
  <2> QED BY <1>2, <2>2, Constants
<1>4. vol \in [bitmap : SUBSET Blocks, free : 0..NBlocks, phantom : Nat,
               disk : [Blocks -> [Slots -> Words]]]
  BY <1>2, <1>3 DEF Volumes
<1>5. ASSUME NEW f \in Files PROVE inode[f].size \in 0..(Reach * PPB)
  <2>1. inode[f].size \in Nat /\ BlocksFor(inode[f].size) <= Reach
    BY <1>1, InodeOf
  <2>2. Reach \in Nat /\ Reach * PPB \in Nat
    BY Products, Constants
  <2>3. BlocksFor(inode[f].size) \in Nat /\ (Reach < BlocksFor(inode[f].size) <=> Reach * PPB < inode[f].size)
    BY <2>1, <2>2, BlockBound
  <2> HIDE DEF Reach
  <2> QED BY <2>1, <2>2, <2>3
<1> DEFINE T == [live : BOOLEAN, size : 0..(Reach * PPB), iblocks : Nat, map : Maps]
           S == 0..(Reach * PPB)
<1>6. inode \in [Files -> T]
  <2> HIDE DEF S
  <2>1. ASSUME NEW f \in Files PROVE inode[f] \in T
    <3>1. inode[f] \in Nodes /\ inode[f].size \in S
      BY <1>2, <1>5 DEF S
    <3> QED BY <3>1 DEF Nodes, S
  <2> HIDE DEF T
  <2> QED BY <1>2, <2>1
<1> QED BY <1>2, <1>4, <1>6 DEF TypeOK, Maps

(* The blocks that file f owns are those that its map leads to.            *)
LEMMA OwnedIs ==
  ASSUME IInv, NEW f \in Files
  PROVE  Owned(f) = Own(vol, inode[f].map)
<1> DEFINE v == vol
           m == inode[f].map
           P == PointerBlocks(f)
<1>1. P = ({m.ind, m.dbl} \cup ({PtrAt(v, m.dbl, c) : c \in Slots} \ {0})) \ {0}
  BY DEF PointerBlocks, SingleData, Slots
<1>2. Owned(f) = P \cup ({m.direct[k] : k \in DOMAIN m.direct} \ {0})
                   \cup UNION {{PtrAt(v, b, k) : k \in Slots} \ {0} : b \in P}
  BY DEF Owned, SingleData, Slots
<1>3. DOMAIN m.direct = 0..(NDirect - 1)
  BY InodeOf DEF Nodes, Maps
<1> HIDE DEF P, m, v
<1>4. ASSUME NEW p \in Spots, At(v, m, p) # 0 PROVE At(v, m, p) \in Owned(f)
  <2>1. CASE p \in 0..(NDirect - 1)
    BY <1>2, <1>3, <1>4, <2>1, AtDirect
  <2>2. CASE p = -1
    BY <1>1, <1>2, <1>4, <2>2, AtInd
  <2>3. CASE p = -2
    BY <1>1, <1>2, <1>4, <2>3, AtDbl
  <2>4. CASE \E c \in Slots : p = Child(c)
    <3>1. PICK c \in Slots : p = Child(c)
      BY <2>4
    <3>2. At(v, m, p) = PtrAt(v, m.dbl, c)
      BY <3>1, AtChild
    <3> QED BY <1>1, <1>2, <1>4, <3>2
  <2>5. CASE \E k \in Slots : p = Single(k)
    <3>1. PICK k \in Slots : p = Single(k)
      BY <2>5
    <3>2. At(v, m, p) = PtrAt(v, m.ind, k)
      BY <3>1, AtSingle
    <3>3. m.ind \in P
      BY <1>1, <1>4, <3>2 DEF PtrAt
    <3> QED BY <1>2, <1>4, <3>2, <3>3
  <2>6. CASE \E c, k \in Slots : p = Deep(c, k)
    <3>1. PICK c \in Slots, k \in Slots : p = Deep(c, k)
      BY <2>6
    <3> DEFINE b == PtrAt(v, m.dbl, c)
    <3>2. At(v, m, p) = PtrAt(v, b, k)
      BY <3>1, AtDeep
    <3>3. b # 0 => b \in P
      BY <1>1
    <3> HIDE DEF b
    <3>4. b \in P
      BY <1>4, <3>2, <3>3 DEF PtrAt
    <3> QED BY <1>2, <1>4, <3>2, <3>4
  <2> QED BY <2>1, <2>2, <2>3, <2>4, <2>5, <2>6, Kinds
<1>5. ASSUME NEW b \in Owned(f) PROVE b \in Own(v, m)
  <2>0. b # 0
    BY <1>1, <1>2
  <2>1. /\ \A k \in 0..(NDirect - 1) : At(v, m, k) = m.direct[k] /\ k \in Spots
        /\ At(v, m, -1) = m.ind /\ -1 \in Spots /\ At(v, m, -2) = m.dbl /\ -2 \in Spots
    BY AtDirect, DirectIs, AtInd, AtDbl, RootsAre
  <2>2. \A k \in Slots : /\ At(v, m, Child(k)) = PtrAt(v, m.dbl, k) /\ Child(k) \in Spots
                         /\ At(v, m, Single(k)) = PtrAt(v, m.ind, k) /\ Single(k) \in Spots
    BY AtChild, ChildIs, AtSingle, SingleIs
  <2>3. \A c, k \in Slots : At(v, m, Deep(c, k)) = PtrAt(v, PtrAt(v, m.dbl, c), k) /\ Deep(c, k) \in Spots
    BY AtDeep, DeepIs
  <2>4. \A q \in P : \/ q = m.ind \/ q = m.dbl \/ \E c \in Slots : q = PtrAt(v, m.dbl, c)
    BY <1>1
  <2>5. \E p \in Spots : b = At(v, m, p)
    <3>1. CASE b \in P
      BY <2>1, <2>2, <2>4, <3>1
    <3>2. CASE b \in {m.direct[k] : k \in DOMAIN m.direct}
      BY <1>3, <2>1, <3>2
    <3>3. ASSUME NEW q \in P, NEW k \in Slots, b = PtrAt(v, q, k) PROVE \E p \in Spots : b = At(v, m, p)
      BY <2>1, <2>2, <2>3, <2>4, <3>3
    <3> QED BY <1>2, <3>1, <3>2, <3>3
  <2> QED BY <2>0, <2>5 DEF Own
<1>6. Own(v, m) = Owned(f)
  BY <1>4, <1>5 DEF Own
<1> QED BY <1>6 DEF v, m

(* The place in map m that leads to spot p, and the block a place holds.   *)
PlaceOf(v, m, p) ==
  LET rel == p - NDirect - PPB IN
  IF p = -1 THEN <<-1, 0>>
  ELSE IF p = -2 THEN <<-1, 1>>
  ELSE IF p < 0 THEN <<m.dbl, -3 - p>>
  ELSE IF p < NDirect THEN <<0, p>>
  ELSE IF rel < 0 THEN <<m.ind, p - NDirect>>
  ELSE <<PtrAt(v, m.dbl, rel \div PPB), rel % PPB>>

HeldAt(v, m, q) ==
  IF q[1] = 0 THEN m.direct[q[2]]
  ELSE IF q[1] = -1 THEN (IF q[2] = 0 THEN m.ind ELSE m.dbl)
  ELSE v.disk[q[1]][q[2]]

(* The place of each kind of spot.                                         *)
LEMMA PlaceSingle ==
  ASSUME NEW v, NEW m, NEW k \in Slots
  PROVE  PlaceOf(v, m, Single(k)) = <<m.ind, k>>
<1> DEFINE p == Single(k)
<1>1. /\ p # -1 /\ p # -2 /\ ~(p < 0) /\ ~(p < NDirect) /\ p - NDirect - PPB < 0
      /\ p - NDirect = k
  BY Constants DEF Slots, Single
<1> HIDE DEF p
<1>2. PlaceOf(v, m, p) = <<m.ind, k>>
  BY <1>1 DEF PlaceOf
<1> QED BY <1>2 DEF p

LEMMA PlacesOf ==
  ASSUME NEW v, NEW m
  PROVE  /\ \A p \in 0..(NDirect - 1) : PlaceOf(v, m, p) = <<0, p>>
         /\ PlaceOf(v, m, -1) = <<-1, 0>> /\ PlaceOf(v, m, -2) = <<-1, 1>>
         /\ \A k \in Slots : PlaceOf(v, m, Single(k)) = <<m.ind, k>>
         /\ \A c \in Slots : PlaceOf(v, m, Child(c)) = <<m.dbl, c>>
         /\ \A c, k \in Slots : PlaceOf(v, m, Deep(c, k)) = <<PtrAt(v, m.dbl, c), k>>
<1>1. ASSUME NEW p \in 0..(NDirect - 1) PROVE PlaceOf(v, m, p) = <<0, p>>
  BY Constants DEF PlaceOf
<1>2. PlaceOf(v, m, -1) = <<-1, 0>> /\ PlaceOf(v, m, -2) = <<-1, 1>>
  BY DEF PlaceOf
<1>3. \A k \in Slots : PlaceOf(v, m, Single(k)) = <<m.ind, k>>
  BY PlaceSingle
<1>4. ASSUME NEW c \in Slots PROVE PlaceOf(v, m, Child(c)) = <<m.dbl, c>>
  <2> DEFINE p == Child(c)
  <2>1. p # -1 /\ p # -2 /\ p < 0 /\ -3 - p = c
    BY Constants DEF Slots, Child
  <2> HIDE DEF p
  <2>2. PlaceOf(v, m, p) = <<m.dbl, c>>
    BY <2>1 DEF PlaceOf
  <2> QED BY <2>2 DEF p
<1>5. ASSUME NEW c \in Slots, NEW k \in Slots
      PROVE  PlaceOf(v, m, Deep(c, k)) = <<PtrAt(v, m.dbl, c), k>>
  <2> DEFINE p == Deep(c, k)
  <2>1. /\ p # -1 /\ p # -2 /\ ~(p < 0) /\ ~(p < NDirect) /\ ~(p - NDirect - PPB < 0)
        /\ (p - NDirect - PPB) \div PPB = c /\ (p - NDirect - PPB) % PPB = k
    BY Constants, Products, DeepSpot
  <2> HIDE DEF p
  <2>2. PlaceOf(v, m, p) = <<PtrAt(v, m.dbl, c), k>>
    BY <2>1 DEF PlaceOf
  <2> QED BY <2>2 DEF p
<1> QED BY <1>1, <1>2, <1>3, <1>4, <1>5

(* A place that holds a block leads to a spot that does, and back.         *)
LEMMA PlacesAre ==
  ASSUME IInv, NEW f \in Files
  PROVE  LET v == vol
             m == inode[f].map
         IN /\ \A p \in Spots : At(v, m, p) # 0 =>
                 PlaceOf(v, m, p) \in Places(f) /\ HeldAt(v, m, PlaceOf(v, m, p)) = At(v, m, p)
            /\ \A q \in Places(f) : \E p \in Spots : q = PlaceOf(v, m, p) /\ At(v, m, p) # 0
<1> DEFINE v == vol
           m == inode[f].map
           P == PointerBlocks(f)
           Q == Places(f)
<1>1. P = ({m.ind, m.dbl} \cup ({PtrAt(v, m.dbl, c) : c \in Slots} \ {0})) \ {0}
  BY DEF PointerBlocks, SingleData, Slots
<1>2. VolOK(v) /\ m \in Maps /\ Tree(v, m)
  BY InodeOf DEF InOrder, Nodes
<1>3. DOMAIN m.direct = 0..(NDirect - 1)
  BY <1>2 DEF Maps
<1>4. Q = {<<0, k>> : k \in {j \in DOMAIN m.direct : m.direct[j] # 0}}
          \cup {<<-1, r>> : r \in {j \in 0..1 : (IF j = 0 THEN m.ind ELSE m.dbl) # 0}}
          \cup {q \in P \X Slots : v.disk[q[1]][q[2]] # 0}
  BY DEF Places
<1> HIDE DEF v, m, P, Q
<1>01. \A p \in 0..(NDirect - 1) : PlaceOf(v, m, p) = <<0, p>>
  BY PlacesOf
<1>02. PlaceOf(v, m, -1) = <<-1, 0>> /\ PlaceOf(v, m, -2) = <<-1, 1>>
  BY PlacesOf
<1>03. \A k \in Slots : PlaceOf(v, m, Single(k)) = <<m.ind, k>>
  BY PlaceSingle
<1>04. \A c \in Slots : PlaceOf(v, m, Child(c)) = <<m.dbl, c>>
  BY PlacesOf
<1>05. \A c, k \in Slots : PlaceOf(v, m, Deep(c, k)) = <<PtrAt(v, m.dbl, c), k>>
  BY PlacesOf, SMTT(20)
<1>0. /\ \A p \in 0..(NDirect - 1) : PlaceOf(v, m, p) = <<0, p>>
      /\ PlaceOf(v, m, -1) = <<-1, 0>> /\ PlaceOf(v, m, -2) = <<-1, 1>>
      /\ \A k \in Slots : PlaceOf(v, m, Single(k)) = <<m.ind, k>>
      /\ \A c \in Slots : PlaceOf(v, m, Child(c)) = <<m.dbl, c>>
      /\ \A c, k \in Slots : PlaceOf(v, m, Deep(c, k)) = <<PtrAt(v, m.dbl, c), k>>
  BY <1>01, <1>02, <1>03, <1>04, <1>05
<1>5. \A p \in Spots : At(v, m, p) # 0 => At(v, m, p) \in Blocks
  BY <1>2, InBlocks
<1>6. \A b \in Blocks : b # 0 /\ b # -1
  BY Constants DEF Blocks
<1>7. \A b \in P : b \in Blocks
  <2>1. m.ind # 0 => m.ind \in Blocks
    BY <1>5, AtInd, RootsAre
  <2>2. m.dbl # 0 => m.dbl \in Blocks
    BY <1>5, AtDbl, RootsAre
  <2>3. \A c \in Slots : PtrAt(v, m.dbl, c) # 0 => PtrAt(v, m.dbl, c) \in Blocks
    BY <1>5, AtChild, ChildIs
  <2> QED BY <1>1, <2>1, <2>2, <2>3
<1>8. ASSUME NEW b \in P, NEW k \in Slots
      PROVE  /\ PtrAt(v, b, k) = v.disk[b][k] /\ HeldAt(v, m, <<b, k>>) = PtrAt(v, b, k)
             /\ PtrAt(v, b, k) # 0 => <<b, k>> \in Q
  <2>1. b # 0 /\ b # -1
    BY <1>6, <1>7
  <2>2. PtrAt(v, b, k) = v.disk[b][k]
    BY <2>1 DEF PtrAt
  <2>3. HeldAt(v, m, <<b, k>>) = v.disk[b][k]
    BY <2>1 DEF HeldAt
  <2>4. <<b, k>>[1] = b /\ <<b, k>>[2] = k /\ <<b, k>> \in P \X Slots
    OBVIOUS
  <2> QED BY <1>4, <2>2, <2>3, <2>4
<1>9. ASSUME NEW p \in Spots, At(v, m, p) # 0
      PROVE  PlaceOf(v, m, p) \in Q /\ HeldAt(v, m, PlaceOf(v, m, p)) = At(v, m, p)
  <2>1. CASE p \in 0..(NDirect - 1)
    <3>1. PlaceOf(v, m, p) = <<0, p>> /\ At(v, m, p) = m.direct[p]
      BY <2>1, <1>0, AtDirect
    <3>2. HeldAt(v, m, <<0, p>>) = m.direct[p]
      BY DEF HeldAt
    <3>3. <<0, p>> \in Q
      BY <1>3, <1>4, <1>9, <2>1, <3>1
    <3> QED BY <3>1, <3>2, <3>3
  <2>2. CASE p = -1
    <3>1. PlaceOf(v, m, p) = <<-1, 0>> /\ At(v, m, p) = m.ind
      BY <2>2, <1>0, AtInd
    <3>2. HeldAt(v, m, <<-1, 0>>) = m.ind
      BY DEF HeldAt
    <3>3. <<-1, 0>> \in Q
      BY <1>4, <1>9, <3>1
    <3> QED BY <3>1, <3>2, <3>3
  <2>3. CASE p = -2
    <3>1. PlaceOf(v, m, p) = <<-1, 1>> /\ At(v, m, p) = m.dbl
      BY <2>3, <1>0, AtDbl
    <3>2. HeldAt(v, m, <<-1, 1>>) = m.dbl
      BY DEF HeldAt
    <3>3. <<-1, 1>> \in Q
      BY <1>4, <1>9, <3>1
    <3> QED BY <3>1, <3>2, <3>3
  <2>4. ASSUME NEW k \in Slots, p = Single(k)
        PROVE  PlaceOf(v, m, p) \in Q /\ HeldAt(v, m, PlaceOf(v, m, p)) = At(v, m, p)
    <3>1. PlaceOf(v, m, p) = <<m.ind, k>> /\ At(v, m, p) = PtrAt(v, m.ind, k)
      BY <2>4, <1>0, AtSingle
    <3>2. m.ind \in P
      BY <1>1, <1>9, <3>1 DEF PtrAt
    <3> QED BY <1>8, <1>9, <3>1, <3>2
  <2>5. ASSUME NEW c \in Slots, p = Child(c)
        PROVE  PlaceOf(v, m, p) \in Q /\ HeldAt(v, m, PlaceOf(v, m, p)) = At(v, m, p)
    <3>1. PlaceOf(v, m, p) = <<m.dbl, c>> /\ At(v, m, p) = PtrAt(v, m.dbl, c)
      BY <2>5, <1>0, AtChild
    <3>2. m.dbl \in P
      BY <1>1, <1>9, <3>1 DEF PtrAt
    <3> QED BY <1>8, <1>9, <3>1, <3>2
  <2>6. ASSUME NEW c \in Slots, NEW k \in Slots, p = Deep(c, k)
        PROVE  PlaceOf(v, m, p) \in Q /\ HeldAt(v, m, PlaceOf(v, m, p)) = At(v, m, p)
    <3> DEFINE b == PtrAt(v, m.dbl, c)
    <3>1. PlaceOf(v, m, p) = <<b, k>> /\ At(v, m, p) = PtrAt(v, b, k)
      BY <2>6, <1>0, AtDeep
    <3>2. b # 0 => b \in P
      BY <1>1
    <3> HIDE DEF b
    <3>3. b \in P
      BY <1>9, <3>1, <3>2 DEF PtrAt
    <3> QED BY <1>8, <1>9, <3>1, <3>3
  <2> QED BY <2>1, <2>2, <2>3, <2>4, <2>5, <2>6, Kinds
<1>10. ASSUME NEW q \in Q PROVE \E p \in Spots : q = PlaceOf(v, m, p) /\ At(v, m, p) # 0
  <2>1. CASE \E k \in DOMAIN m.direct : m.direct[k] # 0 /\ q = <<0, k>>
    BY <1>3, <2>1, AtDirect, DirectIs, <1>0
  <2>2. CASE \E r \in 0..1 : (IF r = 0 THEN m.ind ELSE m.dbl) # 0 /\ q = <<-1, r>>
    <3>1. \/ m.ind # 0 /\ q = <<-1, 0>>
          \/ m.dbl # 0 /\ q = <<-1, 1>>
      BY <2>2
    <3> QED BY <3>1, AtInd, AtDbl, RootsAre, <1>0
  <2>3. ASSUME NEW b \in P, NEW k \in Slots, q = <<b, k>>, v.disk[b][k] # 0
        PROVE  \E p \in Spots : q = PlaceOf(v, m, p) /\ At(v, m, p) # 0
    <3>1. PtrAt(v, b, k) # 0
      BY <1>8, <2>3
    <3>2. CASE b = m.ind
      <4>1. At(v, m, Single(k)) = PtrAt(v, b, k) /\ Single(k) \in Spots /\ PlaceOf(v, m, Single(k)) = <<b, k>>
        BY <3>2, AtSingle, SingleIs, <1>0
      <4> QED BY <2>3, <3>1, <4>1
    <3>3. CASE b = m.dbl
      <4>1. At(v, m, Child(k)) = PtrAt(v, b, k) /\ Child(k) \in Spots /\ PlaceOf(v, m, Child(k)) = <<b, k>>
        BY <3>3, AtChild, ChildIs, <1>0
      <4> QED BY <2>3, <3>1, <4>1
    <3>4. ASSUME NEW c \in Slots, b = PtrAt(v, m.dbl, c)
          PROVE  \E p \in Spots : q = PlaceOf(v, m, p) /\ At(v, m, p) # 0
      <4>1. /\ At(v, m, Deep(c, k)) = PtrAt(v, b, k) /\ Deep(c, k) \in Spots
            /\ PlaceOf(v, m, Deep(c, k)) = <<b, k>>
        BY <3>4, AtDeep, DeepIs, <1>0
      <4> QED BY <2>3, <3>1, <4>1
    <3> QED BY <1>1, <3>2, <3>3, <3>4
  <2>4. CASE q \in {x \in P \X Slots : v.disk[x[1]][x[2]] # 0}
    <3>1. PICK b \in P, k \in Slots : q = <<b, k>>
      BY <2>4
    <3>2. q[1] = b /\ q[2] = k
      BY <3>1
    <3>3. v.disk[b][k] # 0
      BY <2>4, <3>2
    <3> QED BY <2>3, <3>1, <3>3
  <2> QED BY <1>4, <2>1, <2>2, <2>4
<1> QED BY <1>9, <1>10 DEF v, m, Q

(* The blocks of a map, one for each place or spot.                        *)
LEMMA OneEach ==
  ASSUME NEW S, NEW T, NEW h \in [S -> T], IsFiniteSet(T),
         \A x, y \in S : h[x] = h[y] => x = y,
         \A z \in T : \E x \in S : h[x] = z
  PROVE  Cardinality(S) = Cardinality(T)
<1>1. h \in Injection(S, T)
  BY DEF Injection, IsInjective
<1>2. h \in Surjection(S, T)
  BY DEF Surjection
<1> QED BY <1>1, <1>2, FS_Injection

(* What a tree leads to is a finite set.                                   *)
LEMMA OwnFinite ==
  ASSUME NEW v, NEW m, VolOK(v), Tree(v, m)
  PROVE  Own(v, m) \subseteq v.bitmap /\ IsFiniteSet(Own(v, m))
<1>1. Own(v, m) \subseteq v.bitmap
  BY DEF Own, Tree
<1>2. Own(v, m) \in SUBSET Blocks
  BY <1>1, BitmapBlocks
<1> QED BY <1>1, <1>2, BlocksFinite

(* A file has as many places that hold a pointer as blocks.                *)
LEMMA PlacesCounted ==
  ASSUME IInv, NEW f \in Files
  PROVE  Cardinality(Places(f)) = Cardinality(Own(vol, inode[f].map))
<1> DEFINE v == vol
           m == inode[f].map
           Q == Places(f)
           O == Own(v, m)
           h == [q \in Q |-> HeldAt(v, m, q)]
<1>1. VolOK(v) /\ Tree(v, m)
  BY InodeOf DEF InOrder
<1>2. /\ \A p \in Spots : At(v, m, p) # 0 =>
           PlaceOf(v, m, p) \in Q /\ HeldAt(v, m, PlaceOf(v, m, p)) = At(v, m, p)
      /\ \A q \in Q : \E p \in Spots : q = PlaceOf(v, m, p) /\ At(v, m, p) # 0
  BY PlacesAre
<1> HIDE DEF v, m, Q
<1>3. IsFiniteSet(O)
  BY <1>1, OwnFinite
<1>4. h \in [Q -> O]
  <2>1. \A q \in Q : HeldAt(v, m, q) \in O
    BY <1>2 DEF Own
  <2> QED BY <2>1
<1>5. \A x, y \in Q : h[x] = h[y] => x = y
  BY <1>1, <1>2 DEF Tree
<1>6. \A z \in O : \E x \in Q : h[x] = z
  BY <1>2 DEF Own
<1> HIDE DEF h, O
<1>7. Cardinality(Q) = Cardinality(O)
  BY <1>3, <1>4, <1>5, <1>6, OneEach
<1> QED BY <1>7 DEF Q, O, v, m

(* The invariant implies each of the properties.                           *)
LEMMA OneOwnerFromInv == IInv => OneOwner
<1>1. SUFFICES ASSUME IInv PROVE OneOwner
  OBVIOUS
<1>2. ASSUME NEW f \in Files
      PROVE  Owned(f) \subseteq vol.bitmap /\ Cardinality(Places(f)) = Cardinality(Owned(f))
  <2>1. VolOK(vol) /\ Tree(vol, inode[f].map)
    BY <1>1, InodeOf DEF InOrder
  <2>2. Own(vol, inode[f].map) \subseteq vol.bitmap
    BY <2>1, OwnFinite
  <2>3. Cardinality(Places(f)) = Cardinality(Own(vol, inode[f].map))
    BY <1>1, PlacesCounted
  <2> QED BY <1>1, <2>2, <2>3, OwnedIs
<1>3. ASSUME NEW f \in Files, NEW g \in Files, f # g PROVE Owned(f) \cap Owned(g) = {}
  BY <1>1, <1>3, OwnedIs DEF IInv, Apart
<1> QED BY <1>2, <1>3 DEF OneOwner

LEMMA BitmapFromInv == IInv => BitmapExact
<1>1. SUFFICES ASSUME IInv PROVE BitmapExact
  OBVIOUS
<1>2. vol.free = NBlocks - Cardinality(vol.bitmap) /\ vol.phantom = 0
  BY <1>1 DEF IInv, VolOK, Volumes
<1>3. ASSUME full = 0 PROVE vol.bitmap = UNION {Owned(f) : f \in Files}
  <2>1. vol.bitmap = UNION {Own(vol, inode[f].map) : f \in Files}
    BY <1>1, <1>3 DEF IInv, AllOwned
  <2>2. \A f \in Files : Owned(f) = Own(vol, inode[f].map)
    BY <1>1, OwnedIs
  <2> QED BY <2>1, <2>2
<1> QED BY <1>2, <1>3 DEF BitmapExact

(* The spots that a file of nb blocks uses are an interval.                *)
LEMMA RoundedUp ==
  ASSUME NEW count \in Nat \ {0}
  PROVE  /\ (count - 1) \div PPB \in Nat
         /\ (count + PPB - 1) \div PPB = (count - 1) \div PPB + 1
<1> DEFINE a == count - 1
           b == count + PPB - 1
           q == a \div PPB
           y == b \div PPB
<1>1. a \in Nat /\ b \in Nat /\ b = a + PPB
  BY Constants
<1>2. /\ q \in Nat /\ y \in Nat
      /\ \A c \in Nat : (c <= q <=> c * PPB <= a) /\ (c <= y <=> c * PPB <= b) /\ c * PPB \in Nat
  BY <1>1, DivLeast
<1> HIDE DEF a, b, q, y
<1>3. q + 1 \in Nat /\ q + 2 \in Nat
  BY <1>2
<1>4. (q + 1) * PPB = q * PPB + PPB /\ (q + 2) * PPB = (q + 1) * PPB + PPB
  BY <1>2, Constants
<1>5. q + 1 <= y
  BY <1>1, <1>2, <1>3, <1>4, Constants
<1>6. ~(q + 2 <= y)
  <2>1. ~(q + 1 <= q)
    BY <1>2
  <2>2. ~((q + 1) * PPB <= a)
    BY <1>2, <1>3, <2>1
  <2>3. ~((q + 2) * PPB <= b)
    BY <1>1, <1>2, <1>3, <1>4, <2>2, Constants
  <2> QED BY <1>2, <1>3, <2>3
<1>7. y = q + 1
  BY <1>2, <1>5, <1>6
<1> QED BY <1>2, <1>7 DEF q, y, a, b

(* They are as many as i_blocks says.                                      *)
LEMMA SpotsInUse ==
  ASSUME NEW nb \in Nat, nb <= Reach
  PROVE  Cardinality({p \in Spots : First(p) < nb}) = IBlocks(nb)
<1> DEFINE S == {p \in Spots : First(p) < nb}
           K == IBlocks(nb) - nb
           count == nb - NDirect - PPB
           q == (count - 1) \div PPB
<1>1. \A p \in Spots : p >= 0 => (p \in S <=> p < nb)
  BY SpotsAreInt
<1>2. \A p \in 0..(nb - 1) : p \in Spots
  BY Constants, Products DEF Spots
<1>3. -1 \in S <=> nb > NDirect
  BY RootsAre, Constants
<1>4. -2 \in S <=> nb > NDirect + PPB
  BY RootsAre, Constants
<1>5. nb > NDirect + PPB => count \in Nat \ {0} /\ count = Above(nb, NDirect + PPB) /\ count > 0
  BY Constants DEF Above
<1>6. nb > NDirect + PPB => q \in Nat /\ (count + PPB - 1) \div PPB = q + 1
  <2> HIDE DEF count
  <2> QED BY <1>5, RoundedUp
<1>7. ASSUME NEW c \in Slots PROVE Child(c) \in S <=> nb > NDirect + PPB /\ c <= q
  <2>1. CASE nb > NDirect + PPB
    <3>1. First(Child(c)) < nb <=> c <= q
      <4> HIDE DEF count
      <4> QED BY <1>5, <2>1, ChildEnd
    <3> QED BY <2>1, <3>1, ChildIs
  <2>2. CASE ~(nb > NDirect + PPB)
    <3>1. First(Child(c)) = NDirect + PPB + c * PPB /\ c * PPB \in Nat
      BY ChildIs, Products
    <3>2. ~(First(Child(c)) < nb)
      BY <2>2, <3>1, Constants
    <3> QED BY <2>2, <3>2
  <2> QED BY <2>1, <2>2
<1>8. \A c \in Slots : c \in Nat /\ Child(c) = -3 - c
  BY Constants DEF Slots, Child
<1>9. \A p \in Spots : p < -2 => \E c \in Slots : p = Child(c)
  BY Kinds, SingleIs, DeepIs, Constants, Products
<1>10. IBlocks(nb) = nb + (IF nb > NDirect THEN 1 ELSE 0)
                        + (IF nb > NDirect + PPB THEN 1 + (count + PPB - 1) \div PPB ELSE 0)
  BY DEF IBlocks
<1>11. \A p \in S : p \in Spots /\ p \in Int
  BY SpotsAreInt
<1>12. nb > NDirect + PPB => q < PPB
  <2>1. SUFFICES ASSUME nb > NDirect + PPB, PPB <= q PROVE FALSE
    BY <1>6, Constants
  <2>2. count - 1 \in Nat /\ count - 1 < PPB * PPB
    BY <1>5, <2>1, Constants, Products
  <2> HIDE DEF count
  <2>3. PPB <= q <=> PPB * PPB <= count - 1
    BY <2>2, DivLeast, Constants
  <2> QED BY <2>1, <2>2, <2>3, Products
<1> HIDE DEF S, q, count, K
<1>13. CASE nb <= NDirect
  <2>1. S = 0..(nb - 1)
    <3>1. \A p \in S : p >= 0
      <4>1. ASSUME NEW p \in S, p < 0 PROVE FALSE
        <5>1. p < -2
          BY <1>3, <1>4, <1>11, <1>13, <4>1, Constants
        <5> QED BY <1>7, <1>9, <1>11, <1>13, <4>1, <5>1, Constants
      <4> QED BY <1>11, <4>1
    <3>2. \A p \in S : p \in 0..(nb - 1)
      BY <1>1, <1>11, <3>1
    <3>3. \A p \in 0..(nb - 1) : p \in S
      BY <1>1, <1>2
    <3> QED BY <3>2, <3>3
  <2>2. IBlocks(nb) = nb
    BY <1>10, <1>13, Constants
  <2>3. 0 \in Int /\ nb - 1 \in Int /\ (0 > nb - 1 => nb = 0)
    OBVIOUS
  <2>4. Cardinality(0..(nb - 1)) = IF 0 > nb - 1 THEN 0 ELSE nb - 1 - 0 + 1
    BY <2>3, FS_Interval
  <2>5. Cardinality(S) = nb
    BY <2>1, <2>3, <2>4
  <2>6. Cardinality(S) = IBlocks(nb)
    BY <2>2, <2>5
  <2> QED BY <2>6 DEF S
<1>14. CASE nb > NDirect /\ nb <= NDirect + PPB
  <2>1. S = -1..(nb - 1)
    <3>1. \A p \in S : p >= -1
      <4>1. ASSUME NEW p \in S, p < -1 PROVE FALSE
        <5>1. p < -2
          BY <1>4, <1>11, <1>14, <4>1, Constants
        <5> QED BY <1>7, <1>9, <1>11, <1>14, <4>1, <5>1, Constants
      <4> QED BY <1>11, <4>1
    <3>2. \A p \in S : p \in -1..(nb - 1)
      BY <1>1, <1>11, <3>1
    <3>3. \A p \in -1..(nb - 1) : p \in S
      BY <1>1, <1>2, <1>3, <1>14
    <3> QED BY <3>2, <3>3
  <2>2. IBlocks(nb) = nb + 1
    BY <1>10, <1>14, Constants
  <2>3. -1 \in Int /\ nb - 1 \in Int /\ ~(-1 > nb - 1)
    OBVIOUS
  <2>4. Cardinality(-1..(nb - 1)) = IF -1 > nb - 1 THEN 0 ELSE nb - 1 - (-1) + 1
    BY <2>3, FS_Interval
  <2>5. Cardinality(S) = nb + 1
    BY <2>1, <2>3, <2>4
  <2>6. Cardinality(S) = IBlocks(nb)
    BY <2>2, <2>5
  <2> QED BY <2>6 DEF S
<1>15. CASE nb > NDirect + PPB
  <2>0. q \in Nat
    BY <1>6, <1>15
  <2>1. S = -(q + 3)..(nb - 1)
    <3>1. ASSUME NEW p \in S PROVE p \in -(q + 3)..(nb - 1)
      <4>1. CASE p >= 0
        BY <1>1, <1>11, <2>0, <3>1, <4>1
      <4>2. CASE p < -2
        <5>1. PICK c \in Slots : p = Child(c)
          BY <1>9, <1>11, <4>2
        <5>2. c <= q /\ p = -3 - c /\ c \in Nat
          BY <1>7, <1>8, <3>1, <5>1
        <5> QED BY <2>0, <5>2
      <4> QED BY <1>11, <2>0, <4>1, <4>2
    <3>2. ASSUME NEW p \in -(q + 3)..(nb - 1) PROVE p \in S
      <4>0. p \in Int
        BY <2>0
      <4>1. CASE p >= 0
        BY <1>1, <1>2, <3>2, <4>0, <4>1
      <4>2. CASE p < -2
        <5>1. -3 - p \in Nat /\ -3 - p <= q
          BY <2>0, <3>2, <4>0, <4>2
        <5>2. -3 - p \in Slots
          BY <1>12, <1>15, <2>0, <5>1, Constants DEF Slots
        <5>3. Child(-3 - p) = p
          BY <4>0 DEF Child
        <5>4. Child(-3 - p) \in S
          BY <1>7, <1>15, <5>1, <5>2
        <5> QED BY <5>3, <5>4
      <4>3. CASE p = -1 \/ p = -2
        BY <1>3, <1>4, <1>15, <4>3, Constants
      <4> QED BY <4>0, <4>1, <4>2, <4>3
    <3> QED BY <3>1, <3>2
  <2>2. IBlocks(nb) = nb + 1 + 1 + (q + 1)
    BY <1>6, <1>10, <1>15, <2>0, Constants
  <2>3. Cardinality(-(q + 3)..(nb - 1)) = nb + q + 3
    <3>1. -(q + 3) \in Int /\ nb - 1 \in Int /\ -(q + 3) <= nb - 1
      BY <2>0
    <3> DEFINE a == -(q + 3)
               b == nb - 1
    <3>2. b - a + 1 = nb + q + 3
      BY <2>0
    <3>3. a \in Int /\ b \in Int /\ ~(a > b)
      BY <3>1
    <3> HIDE DEF a, b
    <3>4. Cardinality(a..b) = b - a + 1
      BY <3>3, FS_Interval
    <3> QED BY <3>2, <3>4 DEF a, b
  <2>4. nb + 1 + 1 + (q + 1) = nb + q + 3
    BY <2>0
  <2>5. Cardinality(S) = IBlocks(nb)
    BY <2>1, <2>2, <2>3, <2>4
  <2> QED BY <2>5 DEF S
<1> QED BY <1>13, <1>14, <1>15, Constants

(* So i_blocks of a file without holes is the number of its blocks.        *)
LEMMA CountedFromInv == IInv => BlocksCounted
<1>1. SUFFICES ASSUME IInv, full = 0, NEW f \in Live \ sparse
               PROVE  inode[f].iblocks = Cardinality(Owned(f))
  BY DEF BlocksCounted
<1> DEFINE v == vol
           m == inode[f].map
           nb == BlocksFor(inode[f].size)
           S == {p \in Spots : First(p) < nb}
           O == Own(v, m)
           h == [p \in S |-> At(v, m, p)]
<1>2. f \in Files /\ inode[f].live /\ f \notin sparse
  BY <1>1 DEF Live
<1>3. VolOK(v) /\ Tree(v, m) /\ inode[f].size \in Nat /\ nb <= Reach
  BY <1>1, <1>2, InodeOf DEF InOrder
<1>4. Trim(v, m, nb) /\ Whole(v, m, nb) /\ inode[f].iblocks = IBlocks(nb)
  BY <1>1, <1>2, InodeOf DEF NoHoles
<1>5. nb \in Nat
  BY <1>3, BlockBound
<1>6. Owned(f) = O
  BY <1>1, <1>2, OwnedIs
<1> HIDE DEF v, m, nb
<1>7. \A p \in Spots : At(v, m, p) # 0 <=> p \in S
  BY <1>4, <1>5, SpotsAreInt DEF Trim, Whole
<1>8. h \in [S -> O]
  BY <1>7 DEF Own
<1>9. \A x, y \in S : h[x] = h[y] => x = y
  BY <1>3, <1>7 DEF Tree
<1>10. \A z \in O : \E x \in S : h[x] = z
  BY <1>7 DEF Own
<1>11. IsFiniteSet(O)
  BY <1>3, OwnFinite
<1> HIDE DEF h, O
<1>12. Cardinality(S) = IBlocks(nb)
  BY <1>3, <1>5, SpotsInUse
<1> HIDE DEF S
<1>13. Cardinality(S) = Cardinality(O)
  BY <1>8, <1>9, <1>10, <1>11, OneEach
<1> QED BY <1>4, <1>6, <1>12, <1>13

-------------------------------------------------------------------------------
(* What is read, and the refinement.                                       *)

(* What is read of each file, word for word.                               *)
ContentsAre ==
  \A f \in Files :
    /\ Content(f) \in Seq(Words) /\ Len(Content(f)) = inode[f].size /\ inode[f].size \in Nat
    /\ \A p \in 1..inode[f].size : p - 1 \in Positions /\ Content(f)[p] = Text(f, p - 1)

LEMMA ContentIs == IInv => ContentsAre
<1>1. SUFFICES ASSUME IInv, NEW f \in Files
               PROVE  /\ Content(f) \in Seq(Words) /\ Len(Content(f)) = inode[f].size /\ inode[f].size \in Nat
                      /\ \A p \in 1..inode[f].size : p - 1 \in Positions /\ Content(f)[p] = Text(f, p - 1)
  BY DEF ContentsAre
<1> DEFINE v == vol
           m == inode[f].map
           n == inode[f].size
<1>2. VolOK(v) /\ Tree(v, m) /\ n \in Nat /\ BlocksFor(n) <= Reach
  BY <1>1, InodeOf DEF InOrder
<1>3. n <= Reach * PPB /\ Reach * PPB \in Nat
  <2>1. Reach \in Nat
    BY Products
  <2>2. BlocksFor(n) \in Nat /\ (Reach < BlocksFor(n) <=> Reach * PPB < n) /\ Reach * PPB \in Nat
    BY <1>2, <2>1, BlockBound
  <2> HIDE DEF n
  <2> QED BY <1>2, <2>1, <2>2
<1>4. \A p \in 1..n : p - 1 \in Positions
  BY <1>2, <1>3 DEF Positions
<1>5. \A x \in Positions : Word(v, m, x) \in Words
  <2>1. ASSUME NEW x \in Positions PROVE Word(v, m, x) \in Words
    <3> DEFINE b == At(v, m, Blk(x))
    <3>1. Blk(x) \in Spots /\ Off(x) \in Slots
      BY PositionIs
    <3>2. b # 0 => b \in Blocks
      BY <1>2, <3>1, InBlocks
    <3>3. Word(v, m, x) = PtrAt(v, b, Off(x))
      BY DEF Word
    <3> HIDE DEF b
    <3>4. CASE b = 0
      BY <3>3, <3>4, WordsAre, Constants DEF PtrAt
    <3>5. CASE b # 0
      BY <1>2, <3>1, <3>2, <3>3, <3>5, DiskWords
    <3> QED BY <3>4, <3>5
  <2> QED BY <2>1
<1> DEFINE C == Content(f)
<1>6. C = [p \in 1..n |-> PtrAt(v, LogicalToPhysical(v, m, (p - 1) \div PPB), (p - 1) % PPB)]
  BY Zenon DEF Content
<1>7. \A x \in Positions : PtrAt(v, LogicalToPhysical(v, m, x \div PPB), x % PPB) = Word(v, m, x)
  <2>1. ASSUME NEW x \in Positions
        PROVE  PtrAt(v, LogicalToPhysical(v, m, x \div PPB), x % PPB) = Word(v, m, x)
    <3>1. Blk(x) \in Nat
      BY PositionIs
    <3>2. At(v, m, Blk(x)) = LogicalToPhysical(v, m, Blk(x))
      BY <3>1 DEF At
    <3>3. Word(v, m, x) = PtrAt(v, LogicalToPhysical(v, m, Blk(x)), Off(x))
      BY <3>2 DEF Word
    <3> QED BY <3>3 DEF Blk, Off
  <2> QED BY <2>1
<1>8. Text(f, 0) = Word(v, m, 0) /\ \A x : Text(f, x) = Word(v, m, x)
  BY DEF Text
<1> HIDE DEF v, m, n, C
<1>9. \A p \in 1..n : C[p] = Word(v, m, p - 1)
  BY <1>4, <1>6, <1>7
<1>10. C \in [1..n -> Words]
  BY <1>4, <1>5, <1>6, <1>7
<1>11. C \in Seq(Words) /\ Len(C) = n
  BY <1>2, <1>10
<1>12. \A p \in 1..n : p - 1 \in Positions /\ C[p] = Text(f, p - 1)
  BY <1>4, <1>8, <1>9
<1> QED BY <1>2, <1>11, <1>12 DEF C, n

(* A step that leaves the words of the other files leaves what is read of  *)
(* them.                                                                   *)
LEMMA OthersContent ==
  ASSUME IInv, IInv', NEW f \in Files, OthersRead(f)
  PROVE  \A g \in Files \ {f} : (g \in Live' <=> g \in Live) /\ Content(g)' = Content(g)
<1>1. ASSUME NEW g \in Files \ {f} PROVE (g \in Live' <=> g \in Live) /\ Content(g)' = Content(g)
  <2> DEFINE n == inode[g].size
             C == Content(g)
             D == Content(g)'
  <2>1. inode'[g] = inode[g] /\ \A x \in Positions : Text(g, x)' = Text(g, x)
    BY <1>1 DEF OthersRead, Text
  <2>2. /\ C \in Seq(Words) /\ Len(C) = n /\ n \in Nat
        /\ \A p \in 1..n : p - 1 \in Positions /\ C[p] = Text(g, p - 1)
    BY ContentIs DEF ContentsAre
  <2>3. ContentsAre'
    <3>1. (IInv => ContentsAre)'
      BY ContentIs, PTL
    <3> QED BY <3>1
  <2>4. /\ D \in Seq(Words) /\ Len(D) = n
        /\ \A p \in 1..n : D[p] = Text(g, p - 1)'
    BY <2>1, <2>3 DEF ContentsAre
  <2>5. g \in Live' <=> g \in Live
    BY <2>1 DEF Live
  <2>6. \A p \in 1..n : D[p] = C[p]
    BY <2>1, <2>2, <2>4
  <2> HIDE DEF C, D, n
  <2>7. D = C
    BY <2>2, <2>4, <2>6, SeqEqual
  <2> QED BY <2>5, <2>7 DEF C, D
<1> QED BY <1>1

(* The words of file f after a step.                                       *)
LEMMA ContentAfter ==
  ASSUME IInv', NEW f \in Files
  PROVE  /\ Content(f)' \in Seq(Words) /\ Len(Content(f)') = inode'[f].size
         /\ inode'[f].size \in Nat
         /\ \A p \in 1..inode'[f].size : p - 1 \in Positions /\ Content(f)'[p] = Text(f, p - 1)'
<1>1. (IInv => ContentsAre)'
  BY ContentIs, PTL
<1>2. ContentsAre'
  BY <1>1
<1> QED BY <1>2 DEF ContentsAre

(* The words of file f before a step.                                      *)
LEMMA ContentBefore ==
  ASSUME IInv, NEW f \in Files
  PROVE  /\ Content(f) \in Seq(Words) /\ Len(Content(f)) = inode[f].size
         /\ inode[f].size \in Nat
         /\ \A p \in 1..inode[f].size : p - 1 \in Positions /\ Content(f)[p] = Text(f, p - 1)
BY ContentIs DEF ContentsAre

(* A step on a file that stays changes that file's entry alone.            *)
LEMMA Becomes ==
  ASSUME IInv, IInv', NEW f \in Files, OthersRead(f), inode[f].live, inode'[f].live
  PROVE  /\ Contents' = [Contents EXCEPT ![f] = Content(f)']
         /\ f \in DOMAIN Contents /\ f \in DOMAIN Contents'
         /\ Contents[f] = Content(f) /\ Contents'[f] = Content(f)'
<1>1. \A g \in Files \ {f} : (g \in Live' <=> g \in Live) /\ Content(g)' = Content(g)
  BY OthersContent
<1>2. f \in Live /\ f \in Live'
  BY DEF Live
<1>3. Live' = Live
  <2>1. Live \subseteq Files /\ Live' \subseteq Files
    BY DEF Live
  <2> QED BY <1>1, <1>2, <2>1
<1>4. Contents = [g \in Live |-> Content(g)] /\ Contents' = [g \in Live' |-> Content(g)']
  BY DEF Contents
<1>5. \A g \in Live : g # f => Content(g)' = Content(g)
  BY <1>1 DEF Live
<1> DEFINE D == Content(f)'
<1>6. Contents' = [g \in Live |-> IF g = f THEN D ELSE Content(g)]
  <2>1. \A g \in Live : Content(g)' = IF g = f THEN D ELSE Content(g)
    BY <1>5
  <2> QED BY <1>3, <1>4, <2>1
<1> HIDE DEF D
<1>7. Contents' = [Contents EXCEPT ![f] = D]
  BY <1>4, <1>6
<1> QED BY <1>2, <1>3, <1>4, <1>7 DEF D

(* Each operation is one of FileContents.                                  *)
LEMMA CreateShown ==
  ASSUME IInv, IInv', NEW f \in Files, OthersRead(f), ~inode[f].live, inode'[f].live,
         inode'[f].size = 0
  PROVE  Abstract!Create(f)
<1>1. \A g \in Files \ {f} : (g \in Live' <=> g \in Live) /\ Content(g)' = Content(g)
  BY OthersContent
<1>2. f \notin Live /\ f \in Live' /\ Live \subseteq Files /\ Live' \subseteq Files
  BY DEF Live
<1>3. Live' = Live \cup {f}
  BY <1>1, <1>2
<1>4. Content(f)' = <<>>
  <2> DEFINE D == Content(f)'
  <2>1. D \in Seq(Words) /\ Len(D) = 0
    BY ContentAfter
  <2> HIDE DEF D
  <2>2. D = <<>>
    BY <2>1, EmptySeq
  <2> QED BY <2>2 DEF D
<1>5. Contents = [g \in Live |-> Content(g)] /\ Contents' = [g \in Live' |-> Content(g)']
  BY DEF Contents
<1>6. \A g \in Live : Contents[g] = Content(g) /\ Content(g)' = Content(g)
  BY <1>1, <1>2, <1>5
<1>7. DOMAIN Contents = Live
  BY <1>5
<1>8. \A g \in Live \cup {f} : Content(g)' = IF g = f THEN <<>> ELSE Contents[g]
  BY <1>2, <1>4, <1>6
<1>9. Contents' = [g \in DOMAIN Contents \cup {f} |-> IF g = f THEN <<>> ELSE Contents[g]]
  BY <1>3, <1>5, <1>7, <1>8
<1> QED BY <1>2, <1>7, <1>9 DEF Abstract!Create

LEMMA DeleteShown ==
  ASSUME IInv, IInv', NEW f \in Files, OthersRead(f), inode[f].live, ~inode'[f].live
  PROVE  Abstract!Delete(f)
<1>1. \A g \in Files \ {f} : (g \in Live' <=> g \in Live) /\ Content(g)' = Content(g)
  BY OthersContent
<1>2. f \in Live /\ f \notin Live' /\ Live \subseteq Files /\ Live' \subseteq Files
  BY DEF Live
<1>3. Live' = Live \ {f}
  BY <1>1, <1>2
<1>4. Contents = [g \in Live |-> Content(g)] /\ Contents' = [g \in Live' |-> Content(g)']
  BY DEF Contents
<1>5. DOMAIN Contents = Live
  BY <1>4
<1>6. \A g \in Live \ {f} : Content(g)' = Contents[g]
  BY <1>1, <1>2, <1>4
<1>7. Contents' = [g \in DOMAIN Contents \ {f} |-> Contents[g]]
  BY <1>3, <1>4, <1>5, <1>6
<1> QED BY <1>2, <1>5, <1>7 DEF Abstract!Delete

LEMMA SetShown ==
  ASSUME IInv, IInv', NEW f \in Files, OthersRead(f), inode[f].live, inode'[f].live,
         \A x \in Positions : x < inode'[f].size => Text(f, x)' = Data(f)
  PROVE  Abstract!Set(f, inode'[f].size)
<1> DEFINE D == Content(f)'
           n == inode'[f].size
<1>1. /\ D \in Seq(Words) /\ Len(D) = n /\ n \in Nat
      /\ \A p \in 1..n : p - 1 \in Positions /\ D[p] = Text(f, p - 1)'
  BY ContentAfter
<1>2. Contents' = [Contents EXCEPT ![f] = D]
  BY Becomes
<1>3. \A x \in Positions : x < n => Text(f, x)' = Data(f)
  OBVIOUS
<1> HIDE DEF D, n
<1>4. \A p \in 1..n : D[p] = Data(f)
  BY <1>1, <1>3
<1>5. D \in [1..n -> Words]
  BY <1>1, LenProperties
<1>6. D = [k \in 1..n |-> Data(f)]
  BY <1>4, <1>5
<1> QED BY <1>2, <1>6 DEF Abstract!Set, Abstract!Become, Abstract!Written, n

LEMMA ExtendShown ==
  ASSUME IInv, IInv', NEW f \in Files, OthersRead(f), inode[f].live, inode'[f].live,
         inode'[f].size >= inode[f].size,
         \A x \in Positions : x < inode'[f].size =>
           Text(f, x)' = IF x < inode[f].size THEN Text(f, x) ELSE Data(f)
  PROVE  Abstract!Extend(f, inode'[f].size)
<1> DEFINE C == Content(f)
           D == Content(f)'
           o == inode[f].size
           n == inode'[f].size
           d == n - o
           W == [k \in 1..d |-> Data(f)]
<1>1. /\ D \in Seq(Words) /\ Len(D) = n /\ n \in Nat
      /\ \A p \in 1..n : p - 1 \in Positions /\ D[p] = Text(f, p - 1)'
  BY ContentAfter
<1>2. /\ C \in Seq(Words) /\ Len(C) = o /\ o \in Nat
      /\ \A p \in 1..o : p - 1 \in Positions /\ C[p] = Text(f, p - 1)
  BY ContentBefore
<1>3. Contents' = [Contents EXCEPT ![f] = D] /\ Contents[f] = C
  BY Becomes
<1>4. \A x \in Positions : x < n => Text(f, x)' = IF x < o THEN Text(f, x) ELSE Data(f)
  OBVIOUS
<1>5. d \in Nat /\ n = o + d /\ n >= o
  BY <1>1, <1>2
<1>6. W \in Seq(Words) /\ Len(W) = d /\ \A k \in 1..d : W[k] = Data(f)
  <2> HIDE DEF d
  <2>1. Data(f) \in Words
    BY WordsAre
  <2> QED BY <1>5, <2>1
<1> HIDE DEF C, D, o, n, d, W
<1>7. /\ C \o W \in Seq(Words) /\ Len(C \o W) = o + d
      /\ \A i \in 1..(o + d) : (C \o W)[i] = IF i <= o THEN C[i] ELSE W[i - o]
  BY <1>2, <1>6, ConcatProperties
<1>8. ASSUME NEW p \in 1..n PROVE D[p] = (C \o W)[p]
  <2>0. o \in Nat /\ d \in Nat /\ n = o + d
    BY <1>2, <1>5
  <2>1. p - 1 \in Positions /\ p - 1 < n /\ p \in 1..(o + d)
    <3>1. p - 1 \in Positions
      BY <1>1
    <3>2. p - 1 < n /\ p \in 1..(o + d)
      BY <2>0
    <3> QED BY <3>1, <3>2
  <2>2. D[p] = IF p - 1 < o THEN Text(f, p - 1) ELSE Data(f)
    BY <1>1, <1>4, <2>1
  <2>3. CASE p <= o
    BY <1>2, <1>7, <2>1, <2>2, <2>3
  <2>4. CASE ~(p <= o)
    <3>1. p - o \in 1..d
      BY <1>2, <1>5, <2>1, <2>4
    <3>2. (C \o W)[p] = Data(f)
      BY <1>6, <1>7, <2>1, <2>4, <3>1
    <3>3. ~(p - 1 < o)
      BY <1>2, <2>1, <2>4
    <3> QED BY <2>2, <3>2, <3>3
  <2> QED BY <2>3, <2>4
<1>9. D = C \o W
  BY <1>1, <1>5, <1>7, <1>8, SeqEqual
<1>10. Abstract!Written(f, n - Len(C)) = W
  BY <1>2 DEF Abstract!Written, W, d
<1>11. /\ n >= Len(Contents[f])
       /\ Contents' = [Contents EXCEPT ![f] =
                         Contents[f] \o Abstract!Written(f, n - Len(Contents[f]))]
  BY <1>2, <1>3, <1>5, <1>9, <1>10
<1> QED BY <1>11 DEF Abstract!Extend, Abstract!Become, n

LEMMA ResizeShown ==
  ASSUME IInv, IInv', NEW f \in Files, OthersRead(f), inode[f].live, inode'[f].live,
         \A x \in Positions : x < inode'[f].size =>
           Text(f, x)' = IF x < inode[f].size THEN Text(f, x) ELSE 0
  PROVE  Abstract!Resize(f, inode'[f].size)
<1> DEFINE C == Content(f)
           D == Content(f)'
           o == inode[f].size
           n == inode'[f].size
           d == n - o
           W == [k \in 1..d |-> 0]
<1>1. /\ D \in Seq(Words) /\ Len(D) = n /\ n \in Nat
      /\ \A p \in 1..n : p - 1 \in Positions /\ D[p] = Text(f, p - 1)'
  BY ContentAfter
<1>2. /\ C \in Seq(Words) /\ Len(C) = o /\ o \in Nat
      /\ \A p \in 1..o : p - 1 \in Positions /\ C[p] = Text(f, p - 1)
  BY ContentBefore
<1>3. Contents' = [Contents EXCEPT ![f] = D] /\ Contents[f] = C
  BY Becomes
<1>4. \A x \in Positions : x < n => Text(f, x)' = IF x < o THEN Text(f, x) ELSE 0
  OBVIOUS
<1>5. CASE n <= o
  <2> HIDE DEF C, D, o, n
  <2>1. \A i \in 1..n : C[i] \in Words
    BY <1>1, <1>2, <1>5, ElementOfSeq
  <2>2. 1 \in Int /\ n \in Int
    BY <1>1
  <2>3. /\ SubSeq(C, 1, n) \in Seq(Words) /\ Len(SubSeq(C, 1, n)) = (IF 1 <= n THEN n - 1 + 1 ELSE 0)
        /\ \A i \in 1..(n - 1 + 1) : SubSeq(C, 1, n)[i] = C[1 + i - 1]
    BY <2>1, <2>2, SubSeqProperties
  <2>4. Len(SubSeq(C, 1, n)) = n
    BY <1>1, <2>3
  <2>5. ASSUME NEW p \in 1..n PROVE D[p] = SubSeq(C, 1, n)[p]
    <3>0. o \in Nat /\ n \in Nat /\ n <= o
      BY <1>1, <1>2, <1>5
    <3>1. p - 1 \in Positions /\ p - 1 < n /\ p - 1 < o /\ p \in 1..o
      <4>1. p - 1 \in Positions
        BY <1>1
      <4>2. p - 1 < n /\ p - 1 < o /\ p \in 1..o
        BY <3>0
      <4> QED BY <4>1, <4>2
    <3>2. D[p] = Text(f, p - 1) /\ C[p] = Text(f, p - 1)
      BY <1>1, <1>2, <1>4, <3>1
    <3>3. p \in 1..(n - 1 + 1) /\ 1 + p - 1 = p
      BY <1>1
    <3> QED BY <2>3, <3>2, <3>3
  <2>6. D = SubSeq(C, 1, n)
    BY <1>1, <2>3, <2>4, <2>5, SeqEqual
  <2>7. n <= Len(Contents[f]) /\ Contents' = [Contents EXCEPT ![f] = SubSeq(Contents[f], 1, n)]
    BY <1>2, <1>3, <1>5, <2>6
  <2> QED BY <2>7 DEF Abstract!Resize, Abstract!Become, n
<1>6. CASE ~(n <= o)
  <2>1. d \in Nat /\ n = o + d
    BY <1>1, <1>2, <1>6
  <2>2. W \in Seq(Words) /\ Len(W) = d /\ \A k \in 1..d : W[k] = 0
    <3> HIDE DEF d
    <3>1. 0 \in Words
      BY WordsAre, Constants
    <3> QED BY <2>1, <3>1
  <2> HIDE DEF C, D, o, n, d, W
  <2>3. /\ C \o W \in Seq(Words) /\ Len(C \o W) = o + d
        /\ \A i \in 1..(o + d) : (C \o W)[i] = IF i <= o THEN C[i] ELSE W[i - o]
    BY <1>2, <2>2, ConcatProperties
  <2>4. ASSUME NEW p \in 1..n PROVE D[p] = (C \o W)[p]
    <3>0. o \in Nat /\ d \in Nat /\ n = o + d
      BY <1>2, <2>1
    <3>1. p - 1 \in Positions /\ p - 1 < n /\ p \in 1..(o + d)
      <4>1. p - 1 \in Positions
        BY <1>1
      <4>2. p - 1 < n /\ p \in 1..(o + d)
        BY <3>0
      <4> QED BY <4>1, <4>2
    <3>2. D[p] = IF p - 1 < o THEN Text(f, p - 1) ELSE 0
      BY <1>1, <1>4, <3>1
    <3>3. CASE p <= o
      BY <1>2, <2>3, <3>1, <3>2, <3>3
    <3>4. CASE ~(p <= o)
      <4>1. p - o \in 1..d
        BY <1>2, <2>1, <3>1, <3>4
      <4>2. (C \o W)[p] = 0
        BY <2>2, <2>3, <3>1, <3>4, <4>1
      <4>3. ~(p - 1 < o)
        BY <1>2, <3>1, <3>4
      <4> QED BY <3>2, <4>2, <4>3
    <3> QED BY <3>3, <3>4
  <2>5. D = C \o W
    BY <1>1, <2>1, <2>3, <2>4, SeqEqual
  <2>6. Abstract!Zeros(n - Len(C)) = W
    BY <1>2 DEF Abstract!Zeros, W, d
  <2>7. /\ ~(n <= Len(Contents[f]))
        /\ Contents' = [Contents EXCEPT ![f] =
                          Contents[f] \o Abstract!Zeros(n - Len(Contents[f]))]
    BY <1>2, <1>3, <1>6, <2>5, <2>6
  <2> QED BY <2>7 DEF Abstract!Resize, Abstract!Become, n
<1> QED BY <1>5, <1>6

(* A file that stays becomes what one of the three says.                   *)
LEMMA FilesShown ==
  ASSUME IInv, IInv', NEW f \in Files, OthersRead(f), inode[f].live, inode'[f].live,
         \/ Abstract!Set(f, inode'[f].size)
         \/ Abstract!Extend(f, inode'[f].size)
         \/ Abstract!Resize(f, inode'[f].size)
  PROVE  Abstract!Next
<1>1. f \in DOMAIN Contents \cap DOMAIN Contents' /\ Contents'[f] = Content(f)'
  BY Becomes
<1>2. Len(Contents'[f]) = inode'[f].size
  BY <1>1, ContentAfter
<1> QED BY <1>1, <1>2 DEF Abstract!Next

(* Every step is one of FileContents, or none of a file.                   *)
LEMMA StepShown == IInv /\ IInv' /\ [Next]_vars => [Abstract!Next]_Contents
<1>1. SUFFICES ASSUME IInv, IInv', [Next]_vars PROVE [Abstract!Next]_Contents
  OBVIOUS
<1>2. CASE Next
  <2>1. PICK f \in Files :
          \/ CreateFile(f) \/ Unlink(f)
          \/ \E n \in Sizes[f] :
               \/ WriteFile(f, n) \/ Truncate(f, n)
               \/ n > inode[f].size /\ AppendTo(f, n - inode[f].size)
    BY <1>2 DEF Next
  <2>2. CASE CreateFile(f)
    <3>1. Abstract!Create(f)
      BY <1>1, <2>2, CreateStep, CreateShown
    <3> QED BY <3>1 DEF Abstract!Next
  <2>3. CASE Unlink(f)
    <3>1. Abstract!Delete(f)
      BY <1>1, <2>3, UnlinkStep, DeleteShown
    <3> QED BY <3>1 DEF Abstract!Next
  <2>4. ASSUME NEW n \in Sizes[f], WriteFile(f, n) PROVE Abstract!Next
    <3>1. /\ OthersRead(f) /\ inode[f].live /\ inode'[f].live
          /\ \A x \in Positions : x < inode'[f].size => Text(f, x)' = Data(f)
      BY <1>1, <2>4, WriteStep
    <3>2. Abstract!Set(f, inode'[f].size)
      BY <1>1, <3>1, SetShown
    <3> QED BY <1>1, <3>1, <3>2, FilesShown
  <2>5. ASSUME NEW n \in Sizes[f], Truncate(f, n) PROVE Abstract!Next
    <3>1. /\ OthersRead(f) /\ inode[f].live /\ inode'[f].live /\ inode'[f].size = n
          /\ \A x \in Positions : x < n => Text(f, x)' = IF x < inode[f].size THEN Text(f, x) ELSE 0
      BY <1>1, <2>5, TruncateStep
    <3>2. Abstract!Resize(f, inode'[f].size)
      BY <1>1, <3>1, ResizeShown
    <3> QED BY <1>1, <3>1, <3>2, FilesShown
  <2>6. ASSUME NEW n \in Sizes[f], n > inode[f].size, AppendTo(f, n - inode[f].size)
        PROVE  Abstract!Next
    <3>1. n \in Nat /\ inode[f].size \in Nat
      BY <1>1, SizesAre, InodeOf
    <3> DEFINE d == n - inode[f].size
    <3>2. d \in Nat /\ AppendTo(f, d)
      BY <2>6, <3>1
    <3> HIDE DEF d
    <3>3. /\ OthersRead(f) /\ inode[f].live /\ inode'[f].live /\ inode'[f].size >= inode[f].size
          /\ \A x \in Positions : x < inode'[f].size =>
               Text(f, x)' = IF x < inode[f].size THEN Text(f, x) ELSE Data(f)
      BY <1>1, <3>2, AppendStep
    <3>4. Abstract!Extend(f, inode'[f].size)
      BY <1>1, <3>3, ExtendShown
    <3> QED BY <1>1, <3>3, <3>4, FilesShown
  <2> QED BY <2>1, <2>2, <2>3, <2>4, <2>5, <2>6
<1>3. CASE UNCHANGED vars
  BY <1>3 DEF vars, Contents, Live, Content
<1> QED BY <1>1, <1>2, <1>3

(* At first there is no file.                                              *)
LEMMA InitShown == Init => Abstract!Init
<1>1. SUFFICES ASSUME Init PROVE Contents = <<>>
  BY DEF Abstract!Init
<1>2. Live = {}
  BY <1>1 DEF Init, Live, Deleted
<1>3. Contents = [g \in {} |-> Content(g)]
  BY <1>2 DEF Contents
<1> DEFINE E == <<>>
<1>4. E \in Seq({}) /\ Len(E) = 0
  BY EmptySeq
<1> HIDE DEF E
<1>5. DOMAIN E = {} /\ E = [g \in DOMAIN E |-> E[g]]
  BY <1>4, LenProperties
<1>6. E = Contents
  BY <1>3, <1>5
<1> QED BY <1>6 DEF E

(* Every variable keeps its type: the free count never leaves 0..NBlocks,  *)
(* and no length grows beyond what the block map reaches.                  *)
THEOREM TypeOKHolds == Spec => []TypeOK
BY InvariantHolds, TypesHold, PTL

(* No block is in two files or twice in one, and none that is in a file is *)
(* free for another (writer.adb:131-136, 532-619, 774-853).                *)
THEOREM OneOwnerHolds == Spec => []OneOwner
BY InvariantHolds, OneOwnerFromInv, PTL

(* The free count is that of the bitmap, no free ever meets a clear bit,   *)
(* and until a write meets a full volume no block in use is without a file *)
(* (bitmap.adb:29-30).                                                     *)
THEOREM BitmapExactHolds == Spec => []BitmapExact
BY InvariantHolds, BitmapFromInv, PTL

(* i_blocks of a file that was never extended with holes is the number of  *)
(* its blocks, pointer blocks included, until a write meets a full volume  *)
(* (writer.adb:284-298).                                                   *)
THEOREM BlocksCountedHolds == Spec => []BlocksCounted
BY InvariantHolds, CountedFromInv, PTL

(* The writer implements FileContents: each file reads as what was written *)
(* to it and nothing else, whatever is freed, cut, extended and allocated  *)
(* again (writer.adb:131-136, 532-619, 774-853).                           *)
THEOREM ContentsRefined == Spec => ImplementsFileContents
<1>1. Init => Abstract!Init
  BY InitShown
<1>2. IInv /\ IInv' /\ [Next]_vars => [Abstract!Next]_Contents
  BY StepShown
<1> QED BY <1>1, <1>2, InvariantHolds, PTL DEF Spec, ImplementsFileContents, Abstract!Spec
===============================================================================
