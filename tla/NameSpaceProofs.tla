---------------------------- MODULE NameSpaceProofs ----------------------------
(***************************************************************************)
(* Proofs about NameSpace, for every set of names, every number of inodes  *)
(* and blocks and every size of a directory, in the runs whose callers     *)
(* keep to the limits that the code does not check (KeptToLimits) and name *)
(* no entry "." or ".." (NamesAssumption).                                 *)
(*                                                                         *)
(* The table is seen at two levels: Formed says how a directory's blocks   *)
(* are laid out, and everything else is said of what the table stands for: *)
(* the inodes in use, the directories among them, their parents, and the   *)
(* entries <<directory, place, name, inode>>.                              *)
(***************************************************************************)
EXTENDS NameSpace, FiniteSetTheorems, SequenceTheorems,
        WellFoundedInduction, TLAPS

(* A set of natural numbers that is not empty has a least one.             *)
LEMMA LeastOne ==
  ASSUME NEW T \in SUBSET Nat, T # {}
  PROVE  \E k \in T : \A j \in T : k <= j
<1> DEFINE less == {ss \in Nat \X Nat : ss[1] < ss[2]}
<1>1. IsWellFoundedOn(less, Nat)
  BY NatLessThanWellFounded DEF OpToRel
<1>2. \E k \in T : \A j \in T : ~(<<j, k>> \in less)
  <2> HIDE DEF less
  <2> QED BY <1>1, WFMin
<1>3. PICK k \in T : \A j \in T : ~(<<j, k>> \in less)
  BY <1>2
<1>4. \A j \in T : <<j, k>> \in Nat \X Nat /\ j \in Nat /\ k \in Nat
  OBVIOUS
<1>5. \A j \in T : ~(j < k)
  BY <1>3, <1>4
<1> QED BY <1>4, <1>5

(* Induction up to n, over the set of the numbers that have the property.  *)
LEMMA UpTo ==
  ASSUME NEW n \in Nat, NEW T, 0 \in T, \A k \in 0 .. n - 1 : k \in T => k + 1 \in T
  PROVE  0 .. n \subseteq T
<1> DEFINE missing == (0 .. n) \ T
<1>1. SUFFICES ASSUME missing # {} PROVE FALSE
  OBVIOUS
<1>2. PICK k \in missing : \A j \in missing : k <= j
  <2>1. missing \in SUBSET Nat
    OBVIOUS
  <2> HIDE DEF missing
  <2> QED BY <1>1, <2>1, LeastOne
<1>3. k # 0 /\ k - 1 \in 0 .. n - 1 /\ k - 1 \notin missing
  BY <1>2
<1> QED BY <1>2, <1>3

(* There is a function that applies F[1], F[2], ... F[n] to a, one after   *)
(* the other.                                                              *)
Steps(n, S) == [1 .. n -> [S -> S]]
LEMMA Iterates ==
  ASSUME NEW S, NEW a \in S, NEW n \in Nat, NEW F, F \in Steps(n, S)
  PROVE  \E f \in [0 .. n -> S] :
           f[0] = a /\ \A k \in 1 .. n : f[k] = F[k][f[k - 1]]
<1> DEFINE Good(m, g) == g[0] = a /\ \A k \in 1 .. m : g[k] = F[k][g[k - 1]]
           T == {m \in 0 .. n : \E g \in [0 .. m -> S] : Good(m, g)}
<1>0. F \in [1 .. n -> [S -> S]]
  BY DEF Steps
<1>1. 0 \in T
  <2> DEFINE g == [k \in 0 .. 0 |-> a]
  <2>1. g \in [0 .. 0 -> S] /\ Good(0, g)
    OBVIOUS
  <2> HIDE DEF g, Good
  <2> QED BY <2>1
<1>2. ASSUME NEW m \in 0 .. n - 1, m \in T PROVE m + 1 \in T
  <2>1. PICK g \in [0 .. m -> S] : Good(m, g)
    BY <1>2
  <2> DEFINE h == [k \in 0 .. m + 1 |-> IF k = m + 1 THEN F[k][g[m]] ELSE g[k]]
  <2>2. F[m + 1][g[m]] \in S
    BY <2>1, <1>0
  <2>3. h \in [0 .. m + 1 -> S]
    BY <2>1, <2>2
  <2>4. h[0] = a
    BY <2>1
  <2>5. ASSUME NEW k \in 1 .. m + 1 PROVE h[k] = F[k][h[k - 1]]
    BY <2>1
  <2>6. Good(m + 1, h)
    BY <2>4, <2>5
  <2> HIDE DEF h, Good
  <2> QED BY <2>3, <2>6
<1>3. n \in T
  <2> HIDE DEF T
  <2>1. 0 .. n \subseteq T
    BY <1>1, <1>2, UpTo
  <2> QED BY <2>1
<1> QED BY <1>3

DirEntries == [name : Names \cup {"", ".", ".."}, ino : 0..NInodes]
DirBlocks == [Slots -> DirEntries]
Kinds == {"free", "reg", "dir", "link"}
Counts == 0..MaxLinks
Records == [kind : Kinds, links : Counts, blocks : Seq(Blocks), dir : Seq(DirBlocks)]
Tables == [Inodes -> Records]
Volumes == [blocks : SUBSET Blocks, freeBlocks : Int,
            inodes : SUBSET Inodes, freeInodes : Int, usedDirs : Int, phantom : Int]

Used(t) == {i \in Inodes : t[i].kind # "free"}
Dirs(t) == {i \in Inodes : t[i].kind = "dir"}
LinkCounts(t) == [i \in Inodes |-> t[i].links]
BlockLists(t) == [i \in Inodes |-> t[i].blocks]

(* The places of the two dots.                                             *)
SelfPlace == <<1, 1>>
UpPlace == <<1, 2>>

Parent(t) == [d \in Dirs(t) |-> At(t, d, UpPlace).ino]

AllPlaces == (1..MaxDirBlocks) \X Slots
Entries(t) ==
  {x \in Dirs(t) \X AllPlaces \X Names \X Inodes :
     x[2] \in Places(t, x[1]) /\ At(t, x[1], x[2]) = Entry(x[3], x[4])}

(* The dots are where they were put; elsewhere a slot holds a name, or     *)
(* nothing.  What is free is blank.                                        *)
DirFormed(t, d) ==
  /\ Len(t[d].dir) = Len(t[d].blocks) /\ Len(t[d].dir) \in 1..MaxDirBlocks
  /\ At(t, d, SelfPlace) = Entry(".", d)
  /\ At(t, d, UpPlace).name = ".." /\ At(t, d, UpPlace).ino \in Inodes
  /\ \A p \in Places(t, d) \ {SelfPlace, UpPlace} :
       /\ At(t, d, p).name \in Names \cup {""}
       /\ At(t, d, p).name = "" <=> At(t, d, p).ino = 0

Formed(t) ==
  \A i \in Inodes :
    /\ t[i].kind = "free" => t[i] = Deleted
    /\ t[i].kind # "dir" => t[i].dir = <<>>
    /\ t[i].kind = "dir" => DirFormed(t, i)

(* Of inodes U in use, directories D, entries G and parents P: every set   *)
(* that has the root and with a directory its entries has all of U.        *)
Reached(U, G) ==
  \A X \in SUBSET Inodes :
    Root \in X /\ (\A x \in G : x[1] \in X => x[4] \in X) => U \subseteq X

Tree(U, D, G, P) ==
  /\ U \subseteq Inodes /\ D \subseteq U /\ Root \in D
  /\ P \in [D -> D] /\ P[Root] = Root
  /\ G \subseteq D \X AllPlaces \X Names \X U
  /\ \A x, y \in G : x[1] = y[1] /\ x[3] = y[3] => x = y
  /\ \A x \in G : x[4] \in D => P[x[4]] = x[1] /\ x[4] # Root
  /\ \A x, y \in G : x[4] = y[4] /\ x[4] \in D => x = y
  /\ Reached(U, G)

To(G, i) == {x \in G : x[4] = i}
Subs(D, G, d) == {c \in D : \E x \in G : x[1] = d /\ x[4] = c}
Linked(U, D, G, links) ==
  /\ IsFiniteSet(G)
  /\ \A i \in U : links[i] = IF i \in D THEN 2 + Cardinality(Subs(D, G, i))
                                        ELSE Cardinality(To(G, i))

(* The bitmaps and counts of v agree with U, D and the inodes' blocks B.   *)
BlocksIn(s) == {s[k] : k \in DOMAIN s}
Exact(v, U, D, B) ==
  /\ v \in Volumes
  /\ v.inodes = U /\ v.freeInodes = NInodes - Cardinality(U)
  /\ v.usedDirs = Cardinality(D)
  /\ v.blocks = UNION {BlocksIn(B[i]) : i \in Inodes}
  /\ v.freeBlocks = NBlocks - Cardinality(v.blocks)
  /\ v.phantom = 0
  /\ B \in [Inodes -> Seq(Blocks)]
  /\ \A i \in Inodes : \A j, k \in DOMAIN B[i] : B[i][j] = B[i][k] => j = k
  /\ \A i, j \in Inodes : i # j => BlocksIn(B[i]) \cap BlocksIn(B[j]) = {}

TreeInv(t) == Tree(Used(t), Dirs(t), Entries(t), Parent(t))
LinkInv(t) == Linked(Used(t), Dirs(t), Entries(t), LinkCounts(t))
StrayInv(v, t) == Exact(v, Used(t), Dirs(t), BlockLists(t))
StateInv(v, t) ==
  t \in Tables /\ Formed(t) /\ TreeInv(t) /\ LinkInv(t) /\ StrayInv(v, t)

IInv == StateInv(vol, inode)
---------------------------------------------------------------------------
(* Sizes                                                                   *)

LEMMA Sizes ==
  /\ NInodes \in Nat /\ NInodes >= 1 /\ NBlocks \in Nat /\ NBlocks >= 1
  /\ MaxDirBlocks \in Nat /\ MaxDirBlocks >= 1
  /\ EPB \in Nat /\ EPB >= 2
  /\ Root \in Inodes /\ 0 \notin Inodes
  /\ 1 \in Slots /\ 2 \in Slots
  /\ SelfPlace \in AllPlaces /\ UpPlace \in AllPlaces
BY SizesAssumption DEF Root, Inodes, Slots, SelfPlace, UpPlace, AllPlaces

LEMMA FiniteSets ==
  /\ \A S \in SUBSET Inodes : IsFiniteSet(S) /\ Cardinality(S) \in 0..NInodes
  /\ \A S \in SUBSET Blocks : IsFiniteSet(S) /\ Cardinality(S) \in 0..NBlocks
<1>1. IsFiniteSet(Inodes) /\ Cardinality(Inodes) = NInodes
  BY Sizes, FS_Interval DEF Inodes
<1>2. IsFiniteSet(Blocks) /\ Cardinality(Blocks) = NBlocks
  BY Sizes, FS_Interval DEF Blocks
<1>3. ASSUME NEW S \in SUBSET Inodes
      PROVE  IsFiniteSet(S) /\ Cardinality(S) \in 0..NInodes
  BY <1>1, FS_Subset, FS_CardinalityType, Sizes
<1>4. ASSUME NEW S \in SUBSET Blocks
      PROVE  IsFiniteSet(S) /\ Cardinality(S) \in 0..NBlocks
  BY <1>2, FS_Subset, FS_CardinalityType, Sizes
<1> QED BY <1>3, <1>4

(* The places of a directory are no more than a link count can be.         *)
LEMMA PlacesCounted ==
  /\ IsFiniteSet(AllPlaces) /\ Cardinality(AllPlaces) \in Nat
  /\ Cardinality(AllPlaces) <= MaxLinks /\ MaxLinks \in Nat
<1>1. /\ IsFiniteSet(1..MaxDirBlocks) /\ Cardinality(1..MaxDirBlocks) = MaxDirBlocks
      /\ IsFiniteSet(Slots) /\ Cardinality(Slots) = EPB
  BY Sizes, FS_Interval DEF Slots
<1>2. IsFiniteSet(AllPlaces) /\ Cardinality(AllPlaces) = MaxDirBlocks * EPB
  BY <1>1, FS_Product DEF AllPlaces
<1>3. Cardinality(AllPlaces) \in Nat
  BY <1>2, FS_CardinalityType
<1> QED BY <1>2, <1>3, LimitsAssumption

LEMMA SmallCounts == 0 \in Counts /\ 1 \in Counts /\ 2 \in Counts
<1> DEFINE S == {SelfPlace, UpPlace}
<1>1. IsFiniteSet({SelfPlace}) /\ Cardinality({SelfPlace}) = 1
  BY FS_Singleton
<1>2. UpPlace \notin {SelfPlace} /\ S = {SelfPlace} \cup {UpPlace}
  BY DEF SelfPlace, UpPlace
<1>3. Cardinality(S) = 2
  BY <1>1, <1>2, FS_AddElement
<1>4. S \in SUBSET AllPlaces
  BY Sizes
<1> HIDE DEF S
<1>5. 2 <= Cardinality(AllPlaces)
  BY <1>3, <1>4, PlacesCounted, FS_Subset
<1> QED BY <1>5, PlacesCounted DEF Counts

(* A count that is not the largest goes up by one, and one that is not     *)
(* zero down by one.                                                       *)
LEMMA CountUp ==
  ASSUME NEW k \in Nat, k + 1 \in Counts
  PROVE  LinkUp(k) = k + 1
BY PlacesCounted DEF LinkUp, Counts

LEMMA CountDown ==
  ASSUME NEW k \in Counts, k >= 1
  PROVE  LinkDown(k) = k - 1 /\ k - 1 \in Counts
BY PlacesCounted DEF LinkDown, Counts

LEMMA LowestIn ==
  ASSUME NEW S \in SUBSET Nat, S # {}
  PROVE  Lowest(S) \in S /\ \A x \in S : Lowest(S) <= x
BY LeastOne DEF Lowest
---------------------------------------------------------------------------
(* The tree                                                                *)

(* The tree with a name more for a new file, a new directory, or a file.   *)
LEMMA TreeNewFile ==
  ASSUME NEW U, NEW D, NEW G, NEW P, Tree(U, D, G, P),
         NEW d \in D, NEW p \in AllPlaces, NEW n \in Names, NEW i \in Inodes \ U,
         \A x \in G : ~(x[1] = d /\ x[3] = n)
  PROVE  Tree(U \cup {i}, D, G \cup {<<d, p, n, i>>}, P)
<1> DEFINE H == G \cup {<<d, p, n, i>>}
<1>1. Reached(U \cup {i}, H)
  <2> SUFFICES ASSUME NEW X \in SUBSET Inodes, Root \in X, \A x \in H : x[1] \in X => x[4] \in X
               PROVE  U \cup {i} \subseteq X
    BY DEF Reached
  <2>1. U \subseteq X
    BY DEF Tree, Reached
  <2>2. <<d, p, n, i>> \in H /\ d \in X
    BY <2>1 DEF Tree
  <2> QED BY <2>1, <2>2
<1>2. H \subseteq D \X AllPlaces \X Names \X (U \cup {i})
  BY DEF Tree
<1>3. i \notin D /\ \A x \in G : x[4] # i
  BY DEF Tree
<1> QED BY <1>1, <1>2, <1>3 DEF Tree

LEMMA TreeNewDir ==
  ASSUME NEW U, NEW D, NEW G, NEW P, Tree(U, D, G, P),
         NEW d \in D, NEW p \in AllPlaces, NEW n \in Names, NEW i \in Inodes \ U,
         \A x \in G : ~(x[1] = d /\ x[3] = n),
         NEW Q, Q \in [D \cup {i} -> D \cup {i}],
         \A c \in D : Q[c] = P[c], Q[i] = d
  PROVE  Tree(U \cup {i}, D \cup {i}, G \cup {<<d, p, n, i>>}, Q)
<1> DEFINE H == G \cup {<<d, p, n, i>>}
<1>1. Reached(U \cup {i}, H)
  <2> SUFFICES ASSUME NEW X \in SUBSET Inodes, Root \in X, \A x \in H : x[1] \in X => x[4] \in X
               PROVE  U \cup {i} \subseteq X
    BY DEF Reached
  <2>1. U \subseteq X
    BY DEF Tree, Reached
  <2>2. <<d, p, n, i>> \in H /\ d \in X
    BY <2>1 DEF Tree
  <2> QED BY <2>1, <2>2
<1>2. H \subseteq (D \cup {i}) \X AllPlaces \X Names \X (U \cup {i})
  BY DEF Tree
<1>3. i \notin D /\ i # Root /\ \A x \in G : x[4] # i /\ x[1] # i
  BY DEF Tree
<1>4. \A x \in H : x[4] \in D \cup {i} => Q[x[4]] = x[1] /\ x[4] # Root
  BY <1>3 DEF Tree
<1>5. \A x, y \in H : x[4] = y[4] /\ x[4] \in D \cup {i} => x = y
  BY <1>3 DEF Tree
<1>6. \A x, y \in H : x[1] = y[1] /\ x[3] = y[3] => x = y
  BY DEF Tree
<1> QED BY <1>1, <1>2, <1>3, <1>4, <1>5, <1>6 DEF Tree

LEMMA TreeLink ==
  ASSUME NEW U, NEW D, NEW G, NEW P, Tree(U, D, G, P),
         NEW d \in D, NEW p \in AllPlaces, NEW n \in Names, NEW i \in U \ D,
         \A x \in G : ~(x[1] = d /\ x[3] = n)
  PROVE  Tree(U, D, G \cup {<<d, p, n, i>>}, P)
<1> DEFINE H == G \cup {<<d, p, n, i>>}
<1>1. Reached(U, H)
  BY DEF Tree, Reached
<1>2. H \subseteq D \X AllPlaces \X Names \X U
  BY DEF Tree
<1> QED BY <1>1, <1>2 DEF Tree

(* The tree with a name less: of a file that has another, of a file that   *)
(* goes with it, of a directory without entries.                           *)
LEMMA TreeUnlink ==
  ASSUME NEW U, NEW D, NEW G, NEW P, Tree(U, D, G, P),
         NEW y \in G, NEW z \in G \ {y}, z[4] = y[4]
  PROVE  Tree(U, D, G \ {y}, P)
<1> DEFINE H == G \ {y}
<1>1. y[4] \notin D
  BY DEF Tree
<1>2. Reached(U, H)
  <2> SUFFICES ASSUME NEW X \in SUBSET Inodes, Root \in X, \A x \in H : x[1] \in X => x[4] \in X
               PROVE  U \subseteq X
    BY DEF Reached
  <2> DEFINE Y == X \cup {y[4]}
  <2>1. Y \in SUBSET Inodes /\ Root \in Y
    BY DEF Tree
  <2>2. \A x \in G : x[1] \in Y => x[4] \in Y
    BY <1>1 DEF Tree
  <2>3. U \subseteq Y
    BY <2>1, <2>2 DEF Tree, Reached
  <2>4. z[1] \in D /\ z[1] \in X
    BY <2>3, <1>1 DEF Tree
  <2>5. y[4] \in X
    BY <2>4
  <2> QED BY <2>3, <2>5
<1> QED BY <1>2 DEF Tree

LEMMA TreeLastName ==
  ASSUME NEW U, NEW D, NEW G, NEW P, Tree(U, D, G, P),
         NEW y \in G, y[4] \notin D, \A z \in G : z[4] = y[4] => z = y
  PROVE  Tree(U \ {y[4]}, D, G \ {y}, P)
<1> DEFINE H == G \ {y}
           i == y[4]
<1>1. Reached(U \ {i}, H)
  <2> SUFFICES ASSUME NEW X \in SUBSET Inodes, Root \in X, \A x \in H : x[1] \in X => x[4] \in X
               PROVE  U \ {i} \subseteq X
    BY DEF Reached
  <2> DEFINE Y == X \cup {i}
  <2>1. Y \in SUBSET Inodes /\ Root \in Y
    BY DEF Tree
  <2>2. \A x \in G : x[1] \in Y => x[4] \in Y
    BY DEF Tree
  <2>3. U \subseteq Y
    BY <2>1, <2>2 DEF Tree, Reached
  <2> QED BY <2>3
<1>2. H \subseteq D \X AllPlaces \X Names \X (U \ {i})
  BY DEF Tree
<1>3. D \subseteq U \ {i}
  BY DEF Tree
<1> QED BY <1>1, <1>2, <1>3 DEF Tree

LEMMA TreeRmdir ==
  ASSUME NEW U, NEW D, NEW G, NEW P, Tree(U, D, G, P),
         NEW y \in G, y[4] \in D, \A x \in G : x[1] # y[4],
         NEW Q, Q \in [D \ {y[4]} -> D], \A c \in D \ {y[4]} : Q[c] = P[c]
  PROVE  Tree(U \ {y[4]}, D \ {y[4]}, G \ {y}, Q)
<1> DEFINE H == G \ {y}
           i == y[4]
<1>1. Reached(U \ {i}, H)
  <2> SUFFICES ASSUME NEW X \in SUBSET Inodes, Root \in X, \A x \in H : x[1] \in X => x[4] \in X
               PROVE  U \ {i} \subseteq X
    BY DEF Reached
  <2> DEFINE Y == X \cup {i}
  <2>1. Y \in SUBSET Inodes /\ Root \in Y
    BY DEF Tree
  <2>2. \A x \in G : x[1] \in Y => x[4] \in Y
    BY DEF Tree
  <2>3. U \subseteq Y
    BY <2>1, <2>2 DEF Tree, Reached
  <2> QED BY <2>3
<1>2. H \subseteq (D \ {i}) \X AllPlaces \X Names \X (U \ {i})
  BY DEF Tree
<1>3. i # Root
  BY DEF Tree
<1>4. ASSUME NEW c \in D \ {i} PROVE Q[c] # i
  <2>1. CASE c = Root
    BY <2>1, <1>3 DEF Tree
  <2>2. CASE c # Root
    <3> DEFINE X == Inodes \ {c}
    <3>1. ~(U \subseteq X) /\ X \in SUBSET Inodes /\ Root \in X
      BY <2>2, Sizes DEF Tree
    <3>2. PICK x \in G : x[4] \notin X
      BY <3>1 DEF Tree, Reached
    <3>3. x[4] = c
      BY <3>2 DEF Tree
    <3> QED BY <3>3 DEF Tree
  <2> QED BY <2>1, <2>2
<1>5. Q \in [D \ {i} -> D \ {i}]
  BY <1>4
<1>6. \A x \in H : x[4] \in D \ {i} => Q[x[4]] = x[1] /\ x[4] # Root
  BY DEF Tree
<1> QED BY <1>1, <1>2, <1>3, <1>5, <1>6 DEF Tree

(* Every inode but the root has a name.                                    *)
LEMMA HasName ==
  ASSUME NEW U, NEW D, NEW G, NEW P, Tree(U, D, G, P), NEW c \in U, c # Root
  PROVE  \E x \in G : x[4] = c
<1> DEFINE X == Inodes \ {c}
<1>1. ~(U \subseteq X) /\ X \in SUBSET Inodes /\ Root \in X
  BY Sizes DEF Tree
<1>2. PICK x \in G : x[1] \in X /\ x[4] \notin X
  BY <1>1 DEF Tree, Reached
<1>3. x[4] = c
  BY <1>2 DEF Tree
<1> QED BY <1>3

(* The tree with a name changed: of a file, of a directory that stays in   *)
(* its parent, of a directory that goes to e, whose way up, A, has it not. *)
LEMMA TreeRenameFile ==
  ASSUME NEW U, NEW D, NEW G, NEW P, Tree(U, D, G, P),
         NEW y \in G, y[4] \notin D,
         NEW e \in D, NEW p \in AllPlaces, NEW m \in Names,
         \A x \in G : ~(x[1] = e /\ x[3] = m)
  PROVE  Tree(U, D, (G \cup {<<e, p, m, y[4]>>}) \ {y}, P)
<1> DEFINE z == <<e, p, m, y[4]>>
           H == G \cup {z}
<1>1. Tree(U, D, H, P)
  <2>1. y[4] \in U \ D
    BY DEF Tree
  <2> QED BY <2>1, TreeLink
<1>2. y \in H /\ z \in H \ {y} /\ z[4] = y[4]
  BY DEF Tree
<1> HIDE DEF z, H
<1>3. Tree(U, D, H \ {y}, P)
  BY <1>1, <1>2, TreeUnlink
<1> QED BY <1>3 DEF H, z

LEMMA TreeRenameInPlace ==
  ASSUME NEW U, NEW D, NEW G, NEW P, Tree(U, D, G, P),
         NEW y \in G, NEW p \in AllPlaces, NEW m \in Names,
         \A x \in G : ~(x[1] = y[1] /\ x[3] = m)
  PROVE  Tree(U, D, (G \cup {<<y[1], p, m, y[4]>>}) \ {y}, P)
<1> DEFINE z == <<y[1], p, m, y[4]>>
           H == (G \cup {z}) \ {y}
<1>0. z \in H
  BY DEF Tree
<1>1. Reached(U, H)
  <2> SUFFICES ASSUME NEW X \in SUBSET Inodes, Root \in X, \A x \in H : x[1] \in X => x[4] \in X
               PROVE  U \subseteq X
    BY DEF Reached
  <2>1. \A x \in G : x[1] \in X => x[4] \in X
    BY <1>0
  <2> QED BY <2>1 DEF Tree, Reached
<1>2. H \subseteq D \X AllPlaces \X Names \X U
  BY DEF Tree
<1>3. \A x \in H : x[4] \in D => P[x[4]] = x[1] /\ x[4] # Root
  BY DEF Tree
<1>4. \A u, x \in H : u[4] = x[4] /\ u[4] \in D => u = x
  BY DEF Tree
<1>5. \A u, x \in H : u[1] = x[1] /\ u[3] = x[3] => u = x
  BY DEF Tree
<1> QED BY <1>1, <1>2, <1>3, <1>4, <1>5 DEF Tree

LEMMA TreeMove ==
  ASSUME NEW U, NEW D, NEW G, NEW P, Tree(U, D, G, P),
         NEW y \in G, y[4] \in D,
         NEW e \in D, NEW p \in AllPlaces, NEW m \in Names,
         \A x \in G : ~(x[1] = e /\ x[3] = m), e # y[1],
         NEW A, A \subseteq D, e \in A, y[4] \notin A, \A c \in A : P[c] \in A
  PROVE  Tree(U, D, (G \cup {<<e, p, m, y[4]>>}) \ {y}, [P EXCEPT ![y[4]] = e])
<1> DEFINE i == y[4]
           z == <<e, p, m, i>>
           H == (G \cup {z}) \ {y}
           Q == [P EXCEPT ![i] = e]
<1>0. z \in H /\ i # Root
  BY DEF Tree
<1>1. Reached(U, H)
  <2> SUFFICES ASSUME NEW X \in SUBSET Inodes, Root \in X, \A x \in H : x[1] \in X => x[4] \in X
               PROVE  U \subseteq X
    BY DEF Reached
  <2> DEFINE Y == X \cup (U \ A)
  <2>1. Y \in SUBSET Inodes /\ Root \in Y
    BY DEF Tree
  <2>2. ASSUME NEW x \in G, x[1] \in Y PROVE x[4] \in Y
    <3>1. x[4] \in U
      BY DEF Tree
    <3>2. CASE x[4] \in A
      <4>1. x[1] \in A
        BY <3>2 DEF Tree
      <4>2. x[1] \in X /\ x # y
        BY <4>1, <2>2, <3>2
      <4> QED BY <4>2
    <3> QED BY <3>1, <3>2
  <2>3. e \in X
    BY <2>1, <2>2 DEF Tree, Reached
  <2>4. i \in X
    BY <2>3, <1>0
  <2>5. \A x \in G : x[1] \in X => x[4] \in X
    BY <2>4
  <2> QED BY <2>5 DEF Tree, Reached
<1>2. H \subseteq D \X AllPlaces \X Names \X U
  BY DEF Tree
<1>3. \A x \in H : x[4] \in D => Q[x[4]] = x[1] /\ x[4] # Root
  <2> SUFFICES ASSUME NEW x \in H, x[4] \in D PROVE Q[x[4]] = x[1] /\ x[4] # Root
    OBVIOUS
  <2>1. CASE x = z
    BY <2>1, <1>0 DEF Tree
  <2>2. CASE x # z
    BY <2>2 DEF Tree
  <2> QED BY <2>1, <2>2
<1>4. \A u, x \in H : u[4] = x[4] /\ u[4] \in D => u = x
  BY DEF Tree
<1>5. \A u, x \in H : u[1] = x[1] /\ u[3] = x[3] => u = x
  BY DEF Tree
<1>6. Q \in [D -> D] /\ Q[Root] = Root
  BY <1>0 DEF Tree
<1> QED BY <1>1, <1>2, <1>3, <1>4, <1>5, <1>6 DEF Tree
---------------------------------------------------------------------------
(* The link counts                                                         *)

(* One element more or less in a finite set.                               *)
LEMMA OneMore ==
  ASSUME NEW S, IsFiniteSet(S), NEW s, s \notin S
  PROVE  /\ Cardinality(S) \in Nat
         /\ IsFiniteSet(S \cup {s}) /\ Cardinality(S \cup {s}) = Cardinality(S) + 1
BY FS_AddElement, FS_CardinalityType

LEMMA OneLess ==
  ASSUME NEW S, IsFiniteSet(S), NEW s \in S
  PROVE  /\ Cardinality(S) \in Nat /\ Cardinality(S) >= 1
         /\ IsFiniteSet(S \ {s}) /\ Cardinality(S \ {s}) = Cardinality(S) - 1
<1>1. s \notin S \ {s} /\ S = (S \ {s}) \cup {s} /\ IsFiniteSet(S \ {s})
  BY FS_RemoveElement
<1> QED BY <1>1, OneMore, FS_CardinalityType

LEMMA FiniteTo ==
  ASSUME NEW G, IsFiniteSet(G), NEW i
  PROVE  IsFiniteSet(To(G, i)) /\ Cardinality(To(G, i)) \in Nat
BY FS_Subset, FS_CardinalityType DEF To

LEMMA FiniteSubs ==
  ASSUME NEW D \in SUBSET Inodes, NEW G, NEW i
  PROVE  IsFiniteSet(Subs(D, G, i)) /\ Cardinality(Subs(D, G, i)) \in 0..NInodes
BY FiniteSets DEF Subs

LEMMA LinksNewFile ==
  ASSUME NEW U, NEW D, NEW G, NEW P, Tree(U, D, G, P), NEW l, Linked(U, D, G, l),
         NEW d \in D, NEW p, NEW n, NEW i \in Inodes \ U, <<d, p, n, i>> \notin G,
         NEW k, \A j \in U : k[j] = l[j], k[i] = 1
  PROVE  Linked(U \cup {i}, D, G \cup {<<d, p, n, i>>}, k)
<1> DEFINE z == <<d, p, n, i>>
           H == G \cup {z}
<1>1. IsFiniteSet(H)
  BY FS_AddElement DEF Linked
<1>2. i \notin D
  BY DEF Tree
<1>3. \A j \in D : Subs(D, H, j) = Subs(D, G, j)
  BY <1>2 DEF Subs
<1>4. \A j \in U : To(H, j) = To(G, j)
  BY DEF To
<1>5. Cardinality(To(H, i)) = 1
  <2>1. To(H, i) = {z}
    BY DEF To, Tree
  <2> QED BY <2>1, FS_Singleton
<1> HIDE DEF H
<1>6. Linked(U \cup {i}, D, H, k)
  BY <1>1, <1>2, <1>3, <1>4, <1>5 DEF Linked, Tree
<1> QED BY <1>6 DEF H

LEMMA LinksNewDir ==
  ASSUME NEW U, NEW D, NEW G, NEW P, Tree(U, D, G, P), NEW l, Linked(U, D, G, l),
         NEW d \in D, NEW p, NEW n, NEW i \in Inodes \ U,
         NEW k, \A j \in U \ {d} : k[j] = l[j], k[d] = l[d] + 1, k[i] = 2
  PROVE  Linked(U \cup {i}, D \cup {i}, G \cup {<<d, p, n, i>>}, k)
<1> DEFINE z == <<d, p, n, i>>
           H == G \cup {z}
           E == D \cup {i}
<1>1. IsFiniteSet(H)
  BY FS_AddElement DEF Linked
<1>2. i \notin D /\ d # i /\ D \subseteq Inodes /\ z[1] = d /\ z[4] = i
  BY DEF Tree
<1>3. \A x \in G : x[4] # i /\ x[1] # i
  BY DEF Tree
<1>4. \A j \in D \ {d} : Subs(E, H, j) = Subs(D, G, j)
  BY <1>2, <1>3 DEF Subs
<1>5. \A j \in U : To(H, j) = To(G, j)
  BY DEF To
<1>6. Subs(E, H, i) = {} /\ Cardinality({}) = 0
  BY <1>2, <1>3, FS_EmptySet DEF Subs
<1>7. Subs(E, H, d) = Subs(D, G, d) \cup {i} /\ i \notin Subs(D, G, d)
  BY <1>2, <1>3 DEF Subs
<1>8. Cardinality(Subs(E, H, d)) = Cardinality(Subs(D, G, d)) + 1
      /\ Cardinality(Subs(D, G, d)) \in Nat
  <2>1. IsFiniteSet(Subs(D, G, d))
    BY FiniteSubs, <1>2
  <2> QED BY <1>7, <2>1, OneMore
<1>9. d \in U
  BY DEF Tree
<1> HIDE DEF H, E
<1>10. \A j \in U : j \notin E <=> j \notin D
  BY DEF E
<1>11. l[d] = 2 + Cardinality(Subs(D, G, d))
  BY <1>9 DEF Linked
<1>12. k[d] = 2 + Cardinality(Subs(E, H, d))
  BY <1>11, <1>8
<1>13. i \in E /\ d \in E
  BY DEF E
<1>14. ASSUME NEW j \in U \cup {i}
       PROVE  k[j] = IF j \in E THEN 2 + Cardinality(Subs(E, H, j)) ELSE Cardinality(To(H, j))
  <2>1. CASE j = i
    BY <2>1, <1>6, <1>13
  <2>2. CASE j = d
    BY <2>2, <1>12, <1>13
  <2>3. CASE j \in U \ {d}
    BY <2>3, <1>4, <1>5, <1>10 DEF Linked
  <2> QED BY <2>1, <2>2, <2>3
<1>15. Linked(U \cup {i}, E, H, k)
  BY <1>1, <1>14 DEF Linked
<1> QED BY <1>15 DEF H, E

LEMMA LinksLink ==
  ASSUME NEW U, NEW D, NEW G, NEW P, Tree(U, D, G, P), NEW l, Linked(U, D, G, l),
         NEW d \in D, NEW p, NEW n, NEW i \in U \ D, <<d, p, n, i>> \notin G,
         NEW k, \A j \in U \ {i} : k[j] = l[j], k[i] = l[i] + 1
  PROVE  Linked(U, D, G \cup {<<d, p, n, i>>}, k)
<1> DEFINE z == <<d, p, n, i>>
           H == G \cup {z}
<1>1. IsFiniteSet(H)
  BY FS_AddElement DEF Linked
<1>2. \A j \in D : Subs(D, H, j) = Subs(D, G, j)
  BY DEF Subs
<1>3. \A j \in U \ {i} : To(H, j) = To(G, j)
  BY DEF To
<1>4. To(H, i) = To(G, i) \cup {z} /\ z \notin To(G, i)
  BY DEF To
<1>5. Cardinality(To(H, i)) = Cardinality(To(G, i)) + 1
  <2>1. IsFiniteSet(To(G, i))
    BY FiniteTo DEF Linked
  <2> QED BY <1>4, <2>1, OneMore
<1> HIDE DEF H
<1>6. Linked(U, D, H, k)
  BY <1>1, <1>2, <1>3, <1>5 DEF Linked
<1> QED BY <1>6 DEF H

LEMMA LinksUnlink ==
  ASSUME NEW U, NEW D, NEW G, NEW P, Tree(U, D, G, P), NEW l, Linked(U, D, G, l),
         NEW y \in G, y[4] \notin D,
         NEW k, \A j \in U \ {y[4]} : k[j] = l[j], k[y[4]] = l[y[4]] - 1
  PROVE  Linked(U, D, G \ {y}, k)
<1> DEFINE i == y[4]
           H == G \ {y}
<1>1. IsFiniteSet(H)
  BY FS_RemoveElement DEF Linked
<1>2. \A j \in D : Subs(D, H, j) = Subs(D, G, j)
  BY DEF Subs
<1>3. \A j \in U \ {i} : To(H, j) = To(G, j)
  BY DEF To
<1>4. To(H, i) = To(G, i) \ {y} /\ y \in To(G, i)
  BY DEF To
<1>5. Cardinality(To(H, i)) = Cardinality(To(G, i)) - 1
  <2>1. IsFiniteSet(To(G, i))
    BY FiniteTo DEF Linked
  <2> QED BY <1>4, <2>1, OneLess
<1>6. i \in U
  BY DEF Tree
<1> HIDE DEF H
<1>7. Linked(U, D, H, k)
  BY <1>1, <1>2, <1>3, <1>5, <1>6 DEF Linked
<1> QED BY <1>7 DEF H

LEMMA LinksLastName ==
  ASSUME NEW U, NEW D, NEW G, NEW P, Tree(U, D, G, P), NEW l, Linked(U, D, G, l),
         NEW y \in G, y[4] \notin D,
         NEW k, \A j \in U \ {y[4]} : k[j] = l[j]
  PROVE  Linked(U \ {y[4]}, D, G \ {y}, k)
<1> DEFINE i == y[4]
           H == G \ {y}
<1>1. IsFiniteSet(H)
  BY FS_RemoveElement DEF Linked
<1>2. \A j \in D : Subs(D, H, j) = Subs(D, G, j)
  BY DEF Subs
<1>3. \A j \in U \ {i} : To(H, j) = To(G, j)
  BY DEF To
<1> HIDE DEF H
<1>4. Linked(U \ {i}, D, H, k)
  BY <1>1, <1>2, <1>3 DEF Linked
<1> QED BY <1>4 DEF H

LEMMA LinksRmdir ==
  ASSUME NEW U, NEW D, NEW G, NEW P, Tree(U, D, G, P), NEW l, Linked(U, D, G, l),
         NEW y \in G, y[4] \in D, y[1] # y[4],
         NEW k, \A j \in U \ {y[4], y[1]} : k[j] = l[j], k[y[1]] = l[y[1]] - 1
  PROVE  Linked(U \ {y[4]}, D \ {y[4]}, G \ {y}, k)
<1> DEFINE i == y[4]
           d == y[1]
           H == G \ {y}
           E == D \ {i}
<1>1. IsFiniteSet(H)
  BY FS_RemoveElement DEF Linked
<1>2. d \in D /\ d \in U /\ d # i /\ D \in SUBSET Inodes
  BY DEF Tree
<1>3. \A x \in G : x[4] = i => x = y
  BY DEF Tree
<1>4. \A j \in E \ {d} : Subs(E, H, j) = Subs(D, G, j)
  BY <1>3 DEF Subs
<1>5. \A j \in U \ {i} : To(H, j) = To(G, j)
  BY DEF To
<1>6. Subs(E, H, d) = Subs(D, G, d) \ {i} /\ i \in Subs(D, G, d)
  BY <1>2, <1>3 DEF Subs
<1>7. Cardinality(Subs(E, H, d)) = Cardinality(Subs(D, G, d)) - 1
      /\ Cardinality(Subs(D, G, d)) \in Nat
  <2>1. IsFiniteSet(Subs(D, G, d))
    BY FiniteSubs, <1>2
  <2> QED BY <1>6, <2>1, OneLess
<1>8. k[d] = 2 + Cardinality(Subs(E, H, d))
  BY <1>2, <1>7 DEF Linked
<1>9. \A j \in U \ {i} : j \in E <=> j \in D
  OBVIOUS
<1>10. d \in E
  BY <1>2
<1> HIDE DEF H, E
<1>11. ASSUME NEW j \in U \ {i}
       PROVE  k[j] = IF j \in E THEN 2 + Cardinality(Subs(E, H, j)) ELSE Cardinality(To(H, j))
  <2>1. CASE j = d
    BY <2>1, <1>8, <1>10
  <2>2. CASE j # d
    BY <2>2, <1>4, <1>5, <1>9 DEF Linked
  <2> QED BY <2>1, <2>2
<1>12. Linked(U \ {i}, E, H, k)
  BY <1>1, <1>11 DEF Linked
<1> QED BY <1>12 DEF H, E

(* A name that is changed counts the same.                                 *)
LEMMA LinksRename ==
  ASSUME NEW U, NEW D, NEW G, NEW P, Tree(U, D, G, P), NEW l, Linked(U, D, G, l),
         NEW y \in G, NEW e, NEW p, NEW m,
         <<e, p, m, y[4]>> \notin G, y[4] \in D => e = y[1],
         NEW k, \A j \in U : k[j] = l[j]
  PROVE  Linked(U, D, (G \cup {<<e, p, m, y[4]>>}) \ {y}, k)
<1> DEFINE i == y[4]
           z == <<e, p, m, i>>
           F == G \cup {z}
           H == F \ {y}
<1>1. IsFiniteSet(H)
  BY FS_AddElement, FS_RemoveElement DEF Linked
<1>2. z # y /\ z[1] = e /\ z[4] = i /\ z \in H
  OBVIOUS
<1>3. \A j \in D : Subs(D, H, j) = Subs(D, G, j)
  BY <1>2 DEF Subs
<1>4. \A j \in U \ {i} : To(H, j) = To(G, j)
  BY DEF To
<1>5. To(F, i) = To(G, i) \cup {z} /\ z \notin To(G, i)
      /\ To(H, i) = To(F, i) \ {y} /\ y \in To(F, i)
  BY DEF To
<1>6. Cardinality(To(H, i)) = Cardinality(To(G, i))
  <2>1. IsFiniteSet(To(G, i))
    BY FiniteTo DEF Linked
  <2> HIDE DEF F, H, z
  <2>2. IsFiniteSet(To(F, i)) /\ Cardinality(To(F, i)) = Cardinality(To(G, i)) + 1
        /\ Cardinality(To(G, i)) \in Nat
    BY <1>5, <2>1, OneMore
  <2>3. Cardinality(To(H, i)) = Cardinality(To(F, i)) - 1
    BY <1>5, <2>2, OneLess
  <2> QED BY <2>2, <2>3
<1> HIDE DEF H
<1>7. Linked(U, D, H, k)
  BY <1>1, <1>3, <1>4, <1>6 DEF Linked
<1> QED BY <1>7 DEF H

LEMMA LinksMove ==
  ASSUME NEW U, NEW D, NEW G, NEW P, Tree(U, D, G, P), NEW l, Linked(U, D, G, l),
         NEW y \in G, y[4] \in D, NEW e \in D, e # y[1], NEW p, NEW m,
         NEW k, \A j \in U \ {e, y[1]} : k[j] = l[j],
         k[e] = l[e] + 1, k[y[1]] = l[y[1]] - 1
  PROVE  Linked(U, D, (G \cup {<<e, p, m, y[4]>>}) \ {y}, k)
<1> DEFINE i == y[4]
           d == y[1]
           z == <<e, p, m, i>>
           H == (G \cup {z}) \ {y}
<1>1. IsFiniteSet(H)
  BY FS_AddElement, FS_RemoveElement DEF Linked
<1>2. d \in D /\ d \in U /\ e \in U /\ D \in SUBSET Inodes
  BY DEF Tree
<1>3. \A x \in G : x[4] = i => x = y
  BY DEF Tree
<1>4. z # y /\ z[1] = e /\ z[4] = i /\ z \in H
  OBVIOUS
<1>5. \A j \in D \ {d, e} : Subs(D, H, j) = Subs(D, G, j)
  BY <1>3, <1>4 DEF Subs
<1>6. \A j \in U \ D : To(H, j) = To(G, j)
  BY DEF To
<1>7. Subs(D, H, d) = Subs(D, G, d) \ {i} /\ i \in Subs(D, G, d)
  BY <1>2, <1>3, <1>4 DEF Subs
<1>8. Subs(D, H, e) = Subs(D, G, e) \cup {i} /\ i \notin Subs(D, G, e)
  BY <1>2, <1>3, <1>4 DEF Subs
<1>9. IsFiniteSet(Subs(D, G, d)) /\ IsFiniteSet(Subs(D, G, e))
  BY FiniteSubs, <1>2
<1>10. Cardinality(Subs(D, H, d)) = Cardinality(Subs(D, G, d)) - 1
       /\ Cardinality(Subs(D, G, d)) \in Nat
  BY <1>7, <1>9, OneLess
<1>11. Cardinality(Subs(D, H, e)) = Cardinality(Subs(D, G, e)) + 1
       /\ Cardinality(Subs(D, G, e)) \in Nat
  BY <1>8, <1>9, OneMore
<1> HIDE DEF H
<1>12. ASSUME NEW j \in U
       PROVE  k[j] = IF j \in D THEN 2 + Cardinality(Subs(D, H, j)) ELSE Cardinality(To(H, j))
  <2>1. CASE j = d
    BY <2>1, <1>2, <1>10 DEF Linked
  <2>2. CASE j = e
    BY <2>2, <1>2, <1>11 DEF Linked
  <2>3. CASE j \notin {d, e}
    BY <2>3, <1>5, <1>6 DEF Linked
  <2> QED BY <2>1, <2>2, <2>3
<1>13. Linked(U, D, H, k)
  BY <1>1, <1>12 DEF Linked
<1> QED BY <1>13 DEF H
---------------------------------------------------------------------------
(* The bitmaps                                                             *)

LEMMA VolumeFields ==
  ASSUME NEW v \in Volumes
  PROVE  /\ v.blocks \in SUBSET Blocks /\ v.inodes \in SUBSET Inodes
         /\ v.freeBlocks \in Int /\ v.freeInodes \in Int
         /\ v.usedDirs \in Int /\ v.phantom \in Int
BY DEF Volumes

Vol(bs, nb, is, ni, dirs) ==
  [blocks |-> bs, freeBlocks |-> nb, inodes |-> is, freeInodes |-> ni,
   usedDirs |-> dirs, phantom |-> 0]

LEMMA VolTyped ==
  ASSUME NEW bs \in SUBSET Blocks, NEW nb \in Int, NEW is \in SUBSET Inodes,
         NEW ni \in Int, NEW dirs \in Int
  PROVE  Vol(bs, nb, is, ni, dirs) \in Volumes
BY DEF Vol, Volumes

LEMMA VolumeIs ==
  ASSUME NEW v \in Volumes, v.phantom = 0
  PROVE  v = Vol(v.blocks, v.freeBlocks, v.inodes, v.freeInodes, v.usedDirs)
BY DEF Vol, Volumes

(* What the operations of the bitmaps do to a volume without phantoms.     *)
LEMMA VolAllocBlock ==
  ASSUME NEW bs, NEW nb \in Int, NEW is, NEW ni \in Int, NEW dirs \in Int,
         NEW v, v = Vol(bs, nb, is, ni, dirs)
  PROVE  AllocBlock(v) = Vol(bs \cup {NewBlock(v)}, nb - 1, is, ni, dirs)
<1>1. AllocBlock(v) = [v EXCEPT !.blocks = @ \cup {NewBlock(v)}, !.freeBlocks = @ - 1]
  BY Zenon DEF AllocBlock
<1> QED BY <1>1 DEF Vol

LEMMA VolFreeBlock ==
  ASSUME NEW bs, NEW nb \in Int, NEW is, NEW ni \in Int, NEW dirs \in Int,
         NEW v, v = Vol(bs, nb, is, ni, dirs), NEW b \in bs
  PROVE  FreeBlock(v, b) = Vol(bs \ {b}, nb + 1, is, ni, dirs)
BY DEF FreeBlock, Vol

(* Inodes of files and directories, taken and given back.                  *)
TookFile(v) == AllocInode(v, FALSE)
TookDir(v) == AllocInode(v, TRUE)
GaveFile(v, i) == FreeInode(v, i, FALSE)
GaveDir(v, i) == FreeInode(v, i, TRUE)

LEMMA VolTookFile ==
  ASSUME NEW bs, NEW nb \in Int, NEW is, NEW ni \in Int, NEW dirs \in Int,
         NEW v, v = Vol(bs, nb, is, ni, dirs)
  PROVE  TookFile(v) = Vol(bs, nb, is \cup {NewInode(v)}, ni - 1, dirs)
<1>1. TookFile(v) =
        [v EXCEPT !.inodes = @ \cup {NewInode(v)}, !.freeInodes = @ - 1, !.usedDirs = @]
  BY Zenon DEF TookFile, AllocInode
<1> QED BY <1>1 DEF Vol

LEMMA VolTookDir ==
  ASSUME NEW bs, NEW nb \in Int, NEW is, NEW ni \in Int, NEW dirs \in Int,
         NEW v, v = Vol(bs, nb, is, ni, dirs)
  PROVE  TookDir(v) = Vol(bs, nb, is \cup {NewInode(v)}, ni - 1, dirs + 1)
<1>1. TookDir(v) = [v EXCEPT !.inodes = @ \cup {NewInode(v)}, !.freeInodes = @ - 1,
                             !.usedDirs = @ + 1]
  BY Zenon DEF TookDir, AllocInode
<1> QED BY <1>1 DEF Vol

LEMMA VolGaveFile ==
  ASSUME NEW bs, NEW nb \in Int, NEW is, NEW ni \in Int, NEW dirs \in Int,
         NEW v, v = Vol(bs, nb, is, ni, dirs), NEW i \in is
  PROVE  GaveFile(v, i) = Vol(bs, nb, is \ {i}, ni + 1, dirs)
<1>1. v.inodes = is
  BY DEF Vol
<1>2. GaveFile(v, i) =
        [v EXCEPT !.inodes = @ \ {i}, !.freeInodes = @ + 1, !.usedDirs = @]
  BY <1>1, Zenon DEF GaveFile, FreeInode
<1> QED BY <1>2 DEF Vol

LEMMA VolGaveDir ==
  ASSUME NEW bs, NEW nb \in Int, NEW is, NEW ni \in Int, NEW dirs \in Int,
         NEW v, v = Vol(bs, nb, is, ni, dirs), NEW i \in is, dirs > 0
  PROVE  GaveDir(v, i) = Vol(bs, nb, is \ {i}, ni + 1, dirs - 1)
<1>1. v.inodes = is /\ v.usedDirs = dirs
  BY DEF Vol
<1>2. GaveDir(v, i) = [v EXCEPT !.inodes = @ \ {i}, !.freeInodes = @ + 1,
                                !.usedDirs = IF @ > 0 THEN @ - 1 ELSE @]
  BY <1>1, Zenon DEF GaveDir, FreeInode
<1> QED BY <1>1, <1>2 DEF Vol

(* Exact, with the volume written out.                                     *)
LEMMA ExactIs ==
  ASSUME NEW v, NEW U, NEW D, NEW B, Exact(v, U, D, B)
  PROVE  /\ v = Vol(v.blocks, NBlocks - Cardinality(v.blocks), U,
                    NInodes - Cardinality(U), Cardinality(D))
         /\ v.blocks \in SUBSET Blocks /\ Cardinality(v.blocks) \in Nat
         /\ IsFiniteSet(v.blocks)
         /\ U \in SUBSET Inodes /\ Cardinality(U) \in Nat /\ IsFiniteSet(U)
         /\ v.inodes = U
         /\ B \in [Inodes -> Seq(Blocks)]
         /\ \A i \in Inodes : BlocksIn(B[i]) \subseteq v.blocks
<1>1. v.blocks \in SUBSET Blocks /\ v.inodes \in SUBSET Inodes /\ v.inodes = U
      /\ B \in [Inodes -> Seq(Blocks)]
  BY VolumeFields DEF Exact
<1>2. v = Vol(v.blocks, v.freeBlocks, v.inodes, v.freeInodes, v.usedDirs)
  BY VolumeIs DEF Exact
<1>3. v = Vol(v.blocks, NBlocks - Cardinality(v.blocks), U,
              NInodes - Cardinality(U), Cardinality(D))
  BY <1>2, Zenon DEF Exact
<1>4. \A i \in Inodes : BlocksIn(B[i]) \subseteq v.blocks
  BY DEF Exact
<1>5. Cardinality(v.blocks) \in Nat /\ Cardinality(U) \in Nat
      /\ IsFiniteSet(v.blocks) /\ IsFiniteSet(U)
  BY <1>1, FiniteSets
<1> QED BY <1>1, <1>3, <1>4, <1>5

Shared(bs, B) ==
  /\ B \in [Inodes -> Seq(Blocks)]
  /\ bs = UNION {BlocksIn(B[i]) : i \in Inodes}
  /\ \A i \in Inodes : \A j, k \in DOMAIN B[i] : B[i][j] = B[i][k] => j = k
  /\ \A i, j \in Inodes : i # j => BlocksIn(B[i]) \cap BlocksIn(B[j]) = {}

LEMMA IsExact ==
  ASSUME NEW bs \in SUBSET Blocks, NEW nb \in Int, NEW is \in SUBSET Inodes,
         NEW ni \in Int, NEW dirs \in Int, NEW D, NEW B,
         Shared(bs, B), nb = NBlocks - Cardinality(bs), ni = NInodes - Cardinality(is),
         dirs = Cardinality(D)
  PROVE  Exact(Vol(bs, nb, is, ni, dirs), is, D, B)
<1> DEFINE v == Vol(bs, nb, is, ni, dirs)
<1>1. v \in Volumes
  BY VolTyped
<1>2. v.blocks = bs /\ v.freeBlocks = nb /\ v.inodes = is /\ v.freeInodes = ni
      /\ v.usedDirs = dirs /\ v.phantom = 0
  BY DEF Vol
<1> HIDE DEF v
<1>3. Exact(v, is, D, B)
  BY <1>1, <1>2, Zenon DEF Exact, Shared
<1> QED BY <1>3 DEF v

LEMMA SharedIn == ASSUME NEW v, NEW U, NEW D, NEW B, Exact(v, U, D, B) PROVE Shared(v.blocks, B)
BY Zenon DEF Exact, Shared

LEMMA TakeInode ==
  ASSUME NEW v, NEW U, NEW D, NEW B, Exact(v, U, D, B), D \subseteq U, InodeLeft(v)
  PROVE  /\ NewInode(v) \in Inodes \ U
         /\ Exact(TookFile(v), U \cup {NewInode(v)}, D, B)
         /\ Exact(TookDir(v), U \cup {NewInode(v)}, D \cup {NewInode(v)}, B)
<1> DEFINE i == NewInode(v)
           ni == NInodes - Cardinality(U)
           nb == NBlocks - Cardinality(v.blocks)
           dirs == Cardinality(D)
<1>1. v = Vol(v.blocks, nb, U, ni, dirs) /\ v.blocks \in SUBSET Blocks
      /\ nb \in Int /\ U \in SUBSET Inodes /\ ni \in Int /\ v.inodes = U
  BY ExactIs, Sizes
<1>2. i \in Inodes \ U
  <2>1. Inodes \ U \in SUBSET Nat
    BY Sizes DEF Inodes
  <2>2. Inodes \ U # {}
    BY <1>1 DEF InodeLeft
  <2> QED BY <1>1, <2>1, <2>2, LowestIn DEF NewInode
<1>3. Cardinality(U \cup {i}) = Cardinality(U) + 1 /\ Cardinality(U) \in Nat
  BY <1>1, <1>2, OneMore, FiniteSets
<1>4. Cardinality(D \cup {i}) = dirs + 1 /\ dirs \in Nat
  BY <1>1, <1>2, OneMore, FiniteSets
<1>5. Shared(v.blocks, B)
  BY SharedIn
<1>6. U \cup {i} \in SUBSET Inodes
  BY <1>1, <1>2
<1> HIDE DEF ni, nb, dirs
<1>7. TookFile(v) = Vol(v.blocks, nb, U \cup {i}, ni - 1, dirs)
      /\ TookDir(v) = Vol(v.blocks, nb, U \cup {i}, ni - 1, dirs + 1)
  BY <1>1, <1>4, VolTookFile, VolTookDir
<1>8. ni - 1 = NInodes - Cardinality(U \cup {i})
  BY <1>3, Sizes DEF ni
<1> HIDE DEF i
<1>9. ni - 1 \in Int /\ dirs \in Int /\ dirs + 1 \in Int
  BY <1>1, <1>4
<1>10. nb = NBlocks - Cardinality(v.blocks) /\ dirs = Cardinality(D)
  BY DEF nb, dirs
<1>11. Exact(Vol(v.blocks, nb, U \cup {i}, ni - 1, dirs), U \cup {i}, D, B)
  BY <1>1, <1>5, <1>6, <1>8, <1>9, <1>10, IsExact
<1>12. Exact(Vol(v.blocks, nb, U \cup {i}, ni - 1, dirs + 1), U \cup {i}, D \cup {i}, B)
  BY <1>1, <1>4, <1>5, <1>6, <1>8, <1>9, <1>10, IsExact
<1> QED BY <1>2, <1>7, <1>11, <1>12 DEF i

LEMMA GiveInode ==
  ASSUME NEW v, NEW U, NEW D, NEW B, Exact(v, U, D, B), D \subseteq U,
         NEW i \in U
  PROVE  /\ i \notin D => Exact(GaveFile(v, i), U \ {i}, D, B)
         /\ i \in D => Exact(GaveDir(v, i), U \ {i}, D \ {i}, B)
<1> DEFINE ni == NInodes - Cardinality(U)
           nb == NBlocks - Cardinality(v.blocks)
           dirs == Cardinality(D)
<1>1. v = Vol(v.blocks, nb, U, ni, dirs) /\ v.blocks \in SUBSET Blocks
      /\ nb \in Int /\ U \in SUBSET Inodes /\ ni \in Int /\ v.inodes = U
  BY ExactIs, Sizes
<1>2. Cardinality(U \ {i}) = Cardinality(U) - 1 /\ Cardinality(U) \in Nat
  BY <1>1, OneLess, FiniteSets
<1>3. dirs \in Nat /\ IsFiniteSet(D)
  BY <1>1, FiniteSets
<1>4. i \in D => Cardinality(D \ {i}) = dirs - 1 /\ dirs > 0
  BY <1>3, OneLess
<1>5. Shared(v.blocks, B)
  BY SharedIn
<1>6. U \ {i} \in SUBSET Inodes
  BY <1>1
<1> HIDE DEF ni, nb, dirs
<1>7. GaveFile(v, i) = Vol(v.blocks, nb, U \ {i}, ni + 1, dirs)
      /\ (i \in D => GaveDir(v, i) = Vol(v.blocks, nb, U \ {i}, ni + 1, dirs - 1))
  BY <1>1, <1>3, <1>4, VolGaveFile, VolGaveDir
<1>8. ni + 1 = NInodes - Cardinality(U \ {i})
  BY <1>2, Sizes DEF ni
<1>9. ni + 1 \in Int /\ dirs \in Int /\ dirs - 1 \in Int
  BY <1>1, <1>3
<1>10. nb = NBlocks - Cardinality(v.blocks) /\ dirs = Cardinality(D)
  BY DEF nb, dirs
<1>11. Exact(Vol(v.blocks, nb, U \ {i}, ni + 1, dirs), U \ {i}, D, B)
  BY <1>1, <1>5, <1>6, <1>8, <1>9, <1>10, IsExact
<1>12. i \in D =>
         Exact(Vol(v.blocks, nb, U \ {i}, ni + 1, dirs - 1), U \ {i}, D \ {i}, B)
  BY <1>1, <1>4, <1>5, <1>6, <1>8, <1>9, <1>10, IsExact
<1> QED BY <1>7, <1>11, <1>12

LEMMA TakeBlock ==
  ASSUME NEW v, NEW U, NEW D, NEW B, Exact(v, U, D, B), D \subseteq U, BlockLeft(v),
         NEW i \in Inodes
  PROVE  /\ NewBlock(v) \in Blocks \ v.blocks
         /\ Exact(AllocBlock(v), U, D, [B EXCEPT ![i] = Append(@, NewBlock(v))])
<1> DEFINE b == NewBlock(v)
           C == [B EXCEPT ![i] = Append(@, b)]
           ni == NInodes - Cardinality(U)
           nb == NBlocks - Cardinality(v.blocks)
           dirs == Cardinality(D)
<1>1. v = Vol(v.blocks, nb, U, ni, dirs) /\ v.blocks \in SUBSET Blocks
      /\ nb \in Int /\ U \in SUBSET Inodes /\ ni \in Int /\ v.inodes = U
      /\ B \in [Inodes -> Seq(Blocks)]
      /\ \A j \in Inodes : BlocksIn(B[j]) \subseteq v.blocks
  BY ExactIs, Sizes
<1>2. b \in Blocks \ v.blocks
  <2>1. Blocks \ v.blocks \in SUBSET Nat
    BY Sizes DEF Blocks
  <2>2. Blocks \ v.blocks # {}
    BY <1>1 DEF BlockLeft
  <2> QED BY <2>1, <2>2, LowestIn DEF NewBlock
<1>3. Cardinality(v.blocks \cup {b}) = Cardinality(v.blocks) + 1
      /\ Cardinality(v.blocks) \in Nat
  BY <1>1, <1>2, OneMore, FiniteSets
<1>4. dirs \in Int
  BY <1>1, FiniteSets
<1> HIDE DEF ni, nb, dirs
<1>5. AllocBlock(v) = Vol(v.blocks \cup {b}, nb - 1, U, ni, dirs)
  BY <1>1, <1>4, VolAllocBlock
<1>6. nb - 1 = NBlocks - Cardinality(v.blocks \cup {b}) /\ nb - 1 \in Int
  BY <1>3, Sizes DEF nb
<1> HIDE DEF b
<1>7. /\ C \in [Inodes -> Seq(Blocks)]
      /\ \A j \in Inodes \ {i} : C[j] = B[j]
      /\ C[i] = Append(B[i], b)
  BY <1>1, <1>2
<1>8. /\ DOMAIN C[i] = 1..(Len(B[i]) + 1)
      /\ DOMAIN B[i] = 1..Len(B[i]) /\ Len(B[i]) \in Nat
      /\ C[i][Len(B[i]) + 1] = b
      /\ \A k \in 1..Len(B[i]) : C[i][k] = B[i][k]
  <2>1. B[i] \in Seq(Blocks) /\ b \in Blocks
    BY <1>1, <1>2
  <2> QED BY <1>7, <2>1, AppendProperties
<1>9. BlocksIn(C[i]) = BlocksIn(B[i]) \cup {b}
  BY <1>8 DEF BlocksIn
<1> HIDE DEF C
<1>10. Shared(v.blocks, B)
  BY SharedIn
<1>11. v.blocks \cup {b} = UNION {BlocksIn(C[j]) : j \in Inodes}
  <2>1. ASSUME NEW x \in v.blocks \cup {b} PROVE \E j \in Inodes : x \in BlocksIn(C[j])
    <3>1. CASE x = b
      BY <3>1, <1>9
    <3>2. CASE x \in v.blocks
      <4>1. PICK j \in Inodes : x \in BlocksIn(B[j])
        BY <3>2, <1>10 DEF Shared
      <4>2. x \in BlocksIn(C[j])
        BY <4>1, <1>7, <1>9
      <4> QED BY <4>2
    <3> QED BY <2>1, <3>1, <3>2
  <2>2. ASSUME NEW j \in Inodes PROVE BlocksIn(C[j]) \subseteq v.blocks \cup {b}
    BY <1>1, <1>7, <1>9
  <2> QED BY <2>1, <2>2
<1>12. \A j \in Inodes : \A x, y \in DOMAIN C[j] : C[j][x] = C[j][y] => x = y
  <2> SUFFICES ASSUME NEW j \in Inodes, NEW x \in DOMAIN C[j], NEW y \in DOMAIN C[j],
                      C[j][x] = C[j][y]
               PROVE  x = y
    OBVIOUS
  <2>1. CASE j # i
    BY <2>1, <1>7, <1>10 DEF Shared
  <2>2. CASE j = i
    <3>1. \A k \in 1..Len(B[i]) : B[i][k] # b
      BY <1>1, <1>2, <1>8 DEF BlocksIn
    <3> QED BY <2>2, <3>1, <1>8, <1>10 DEF Shared
  <2> QED BY <2>1, <2>2
<1>13. ASSUME NEW j \in Inodes, NEW k \in Inodes, j # k
       PROVE  BlocksIn(C[j]) \cap BlocksIn(C[k]) = {}
  <2>1. BlocksIn(B[j]) \cap BlocksIn(B[k]) = {}
    BY <1>10, <1>13 DEF Shared
  <2>2. b \notin BlocksIn(B[j]) /\ b \notin BlocksIn(B[k])
    BY <1>1, <1>2
  <2>3. BlocksIn(C[j]) = (IF j = i THEN BlocksIn(B[i]) \cup {b} ELSE BlocksIn(B[j]))
    BY <1>7, <1>9
  <2>4. BlocksIn(C[k]) = (IF k = i THEN BlocksIn(B[i]) \cup {b} ELSE BlocksIn(B[k]))
    BY <1>7, <1>9
  <2> QED BY <1>13, <2>1, <2>2, <2>3, <2>4
<1>14. Shared(v.blocks \cup {b}, C)
  BY <1>7, <1>11, <1>12, <1>13 DEF Shared
<1>15. v.blocks \cup {b} \in SUBSET Blocks
  BY <1>1, <1>2
<1>16. Exact(Vol(v.blocks \cup {b}, nb - 1, U, ni, dirs), U, D, C)
  BY <1>1, <1>4, <1>6, <1>14, <1>15, IsExact DEF ni, dirs
<1> QED BY <1>2, <1>5, <1>16 DEF b, C

(* What FreeBlock does to a volume is a volume again.                      *)
LEMMA VolFreed ==
  ASSUME NEW v \in Volumes, NEW b
  PROVE  FreeBlock(v, b) \in Volumes
<1>1. CASE b \in v.blocks
  <2>1. FreeBlock(v, b) = [v EXCEPT !.blocks = @ \ {b}, !.freeBlocks = @ + 1]
    BY <1>1, Zenon DEF FreeBlock
  <2>2. v.blocks \ {b} \in SUBSET Blocks /\ v.freeBlocks + 1 \in Int
    BY VolumeFields
  <2> QED BY <2>1, <2>2 DEF Volumes
<1>2. CASE b \notin v.blocks
  <2>1. FreeBlock(v, b) = [v EXCEPT !.phantom = @ + 1]
    BY <1>2, Zenon DEF FreeBlock
  <2> QED BY <2>1 DEF Volumes
<1> QED BY <1>1, <1>2

(* A list, without repetition, of blocks of bs.                            *)
ListIn(s, bs) ==
  /\ s \in Seq(Blocks) /\ BlocksIn(s) \subseteq bs /\ bs \in SUBSET Blocks
  /\ \A j, k \in DOMAIN s : s[j] = s[k] => j = k

(* All blocks of a list without repetition, in use, are freed: as many as  *)
(* the list is long.                                                       *)
LEMMA VolFreeAll ==
  ASSUME NEW bs, NEW nb \in Int, NEW is \in SUBSET Inodes,
         NEW ni \in Int, NEW dirs \in Int,
         NEW v, v = Vol(bs, nb, is, ni, dirs), NEW s, ListIn(s, bs),
         NEW left \in Int, left = nb + Len(s)
  PROVE  FreeAll(v, s) = Vol(bs \ BlocksIn(s), left, is, ni, dirs)
<1> DEFINE n == Len(s)
           Eq(g) == g = [k \in 0..n |-> IF k = 0 THEN v ELSE FreeBlock(g[k - 1], s[k])]
           f == CHOOSE g : Eq(g)
           F == [k \in 1..n |-> [w \in Volumes |-> FreeBlock(w, s[k])]]
           Before_(k) == {s[j] : j \in 1..k}
           After(k) == Vol(bs \ Before_(k), nb + k, is, ni, dirs)
           T == {k \in 0..n : f[k] = After(k)}
<1>0. /\ s \in Seq(Blocks) /\ BlocksIn(s) \subseteq bs /\ bs \in SUBSET Blocks
      /\ \A j, k \in DOMAIN s : s[j] = s[k] => j = k
  BY DEF ListIn
<1>1. v \in Volumes
  BY <1>0, VolTyped
<1>2. n \in Nat /\ DOMAIN s = 1..n
  BY <1>0, LenProperties
<1>3. \E g : Eq(g)
  <2>1. F \in [1..n -> [Volumes -> Volumes]]
    BY VolFreed
  <2>2. \A k \in 1..n : \A w \in Volumes : F[k][w] = FreeBlock(w, s[k])
    OBVIOUS
  <2> HIDE DEF F, n
  <2> HIDE DEF Eq, f
  <2>3. \E g \in [0..n -> Volumes] : g[0] = v /\ \A k \in 1..n : g[k] = F[k][g[k - 1]]
    <3>1. F \in Steps(n, Volumes)
      BY <2>1 DEF Steps
    <3> QED BY <3>1, <1>1, <1>2, Iterates
  <2>3a. PICK g \in [0..n -> Volumes] : g[0] = v /\ \A k \in 1..n : g[k] = F[k][g[k - 1]]
    BY <2>3
  <2>3b. g = [k \in 0..n |-> g[k]]
    BY <2>3a
  <2>4. ASSUME NEW k \in 0..n, k # 0 PROVE F[k][g[k - 1]] = FreeBlock(g[k - 1], s[k])
    <3>1. k \in 1..n /\ k - 1 \in 0..n
      BY <2>4, <1>2
    <3> QED BY <3>1, <2>2
  <2>5. Eq(g)
    <3>1. \A k \in 0..n : k # 0 => k \in 1..n
      BY <1>2
    <3>2. \A k \in 0..n : g[k] = IF k = 0 THEN v ELSE FreeBlock(g[k - 1], s[k])
      BY <3>1, <2>3a, <2>4
    <3> QED BY <3>2, <2>3b DEF Eq
  <2> HIDE DEF Eq
  <2> QED BY <2>5
<1>4. Eq(f)
  <2> HIDE DEF Eq
  <2> QED BY <1>3, Zenon
<1>5. FreeAll(v, s) = f[n]
  BY Zenon DEF FreeAll
<1> HIDE DEF f
<1>6. f[0] = v /\ \A k \in 1..n : f[k] = FreeBlock(f[k - 1], s[k])
  <2> HIDE DEF n
  <2> QED BY <1>2, <1>4
<1>7. 0 \in T
  <2>1. Before_(0) = {} /\ nb + 0 = nb
    OBVIOUS
  <2>2. After(0) = v
    BY <2>1
  <2> QED BY <2>2, <1>2, <1>6
<1>8. ASSUME NEW k \in 0..n - 1, k \in T PROVE k + 1 \in T
  <2> DEFINE b == s[k + 1]
  <2>1. k \in Nat /\ k + 1 \in 1..n /\ (k + 1) - 1 = k
    BY <1>2
  <2>2. b \in bs \ Before_(k)
    <3>1. b \in bs
      BY <2>1, <1>0, <1>2 DEF BlocksIn
    <3>2. \A j \in 1..k : s[j] # b
      BY <2>1, <1>0, <1>2
    <3> QED BY <3>1, <3>2
  <2>3. (bs \ Before_(k)) \ {b} = bs \ Before_(k + 1)
    <3>1. 1..(k + 1) = 1..k \cup {k + 1}
      BY <2>1
    <3> QED BY <3>1
  <2>4. f[k] = After(k) /\ nb + k \in Int
    BY <1>8, <2>1
  <2>5. (nb + k) + 1 = nb + (k + 1)
    BY <2>1
  <2>6. FreeBlock(f[k], b) = Vol((bs \ Before_(k)) \ {b}, (nb + k) + 1, is, ni, dirs)
    <3> HIDE DEF Before_, b
    <3> DEFINE cs == bs \ Before_(k)
               m == nb + k
    <3>1. f[k] = Vol(cs, m, is, ni, dirs) /\ b \in cs /\ m \in Int
      BY <2>2, <2>4
    <3> HIDE DEF cs, m
    <3>2. FreeBlock(f[k], b) = Vol(cs \ {b}, m + 1, is, ni, dirs)
      BY <3>1, VolFreeBlock
    <3> QED BY <3>2 DEF cs, m
  <2>7. f[k + 1] = FreeBlock(f[k], b)
    BY <1>6, <2>1
  <2>8. f[k + 1] = After(k + 1)
    BY <2>3, <2>5, <2>6, <2>7
  <2>9. k + 1 \in 0..n
    BY <2>1, <1>2
  <2> QED BY <2>8, <2>9
<1>9. n \in T
  <2> HIDE DEF T, n
  <2>1. 0..n \subseteq T
    BY <1>2, <1>7, <1>8, UpTo
  <2> QED BY <2>1, <1>2
<1>10. Before_(n) = BlocksIn(s)
  BY <1>2 DEF BlocksIn
<1> QED BY <1>5, <1>9, <1>10

LEMMA GiveBlocks ==
  ASSUME NEW v, NEW U, NEW D, NEW B, Exact(v, U, D, B), D \subseteq U,
         NEW i \in Inodes
  PROVE  Exact(FreeAll(v, B[i]), U, D, [B EXCEPT ![i] = <<>>])
<1> DEFINE s == B[i]
           C == [B EXCEPT ![i] = <<>>]
           cs == v.blocks \ BlocksIn(s)
           ni == NInodes - Cardinality(U)
           nb == NBlocks - Cardinality(v.blocks)
           dirs == Cardinality(D)
<1>1. v = Vol(v.blocks, nb, U, ni, dirs) /\ v.blocks \in SUBSET Blocks
      /\ nb \in Int /\ U \in SUBSET Inodes /\ ni \in Int
      /\ B \in [Inodes -> Seq(Blocks)]
      /\ IsFiniteSet(v.blocks) /\ Cardinality(v.blocks) \in Nat
      /\ \A j \in Inodes : BlocksIn(B[j]) \subseteq v.blocks
  BY ExactIs, Sizes
<1>2. dirs \in Int
  BY <1>1, FiniteSets
<1>3. Shared(v.blocks, B)
  BY SharedIn
<1>4. s \in Seq(Blocks) /\ BlocksIn(s) \subseteq v.blocks
      /\ \A j, k \in DOMAIN s : s[j] = s[k] => j = k
  BY <1>1, <1>3 DEF Shared
<1>5. Len(s) \in Nat /\ DOMAIN s = 1..Len(s)
  BY <1>4, LenProperties
<1>6. IsFiniteSet(BlocksIn(s)) /\ Cardinality(BlocksIn(s)) = Len(s)
  <2> DEFINE g == [k \in 1..Len(s) |-> s[k]]
  <2>1. g \in Bijection(1..Len(s), BlocksIn(s))
    BY <1>4, <1>5 DEF Bijection, Injection, Surjection, IsInjective, BlocksIn
  <2>2. IsFiniteSet(1..Len(s)) /\ Cardinality(1..Len(s)) = Len(s)
    BY <1>5, FS_Interval
  <2> HIDE DEF g
  <2> QED BY <2>1, <2>2, FS_Bijection DEF ExistsBijection
<1>7. Cardinality(cs) = Cardinality(v.blocks) - Len(s) /\ cs \in SUBSET Blocks
  <2>1. cs = v.blocks \ (v.blocks \cap BlocksIn(s)) /\ v.blocks \cap BlocksIn(s) = BlocksIn(s)
    BY <1>4
  <2>2. Cardinality(v.blocks \ BlocksIn(s))
          = Cardinality(v.blocks) - Cardinality(v.blocks \cap BlocksIn(s))
    BY <1>1, FS_Difference
  <2> QED BY <2>1, <2>2, <1>1, <1>6
<1> HIDE DEF ni, nb, dirs, s
<1> DEFINE left == nb + Len(s)
<1>9. left = NBlocks - Cardinality(cs) /\ left \in Int
  BY <1>1, <1>5, <1>7, Sizes DEF nb
<1>8. FreeAll(v, s) = Vol(cs, left, U, ni, dirs)
  <2>1. ListIn(s, v.blocks)
    BY <1>1, <1>4 DEF ListIn
  <2> DEFINE bs == v.blocks
  <2>2. v = Vol(bs, nb, U, ni, dirs) /\ ListIn(s, bs) /\ left = nb + Len(s)
    BY <2>1, <1>1
  <2>3. nb \in Int /\ U \in SUBSET Inodes /\ ni \in Int /\ dirs \in Int /\ left \in Int
    BY <1>1, <1>2, <1>9
  <2> HIDE DEF bs, left
  <2>4. FreeAll(v, s) = Vol(bs \ BlocksIn(s), left, U, ni, dirs)
    BY <2>2, <2>3, VolFreeAll
  <2> QED BY <2>4 DEF bs
<1> HIDE DEF left
<1>10. /\ C \in [Inodes -> Seq(Blocks)]
       /\ \A j \in Inodes \ {i} : C[j] = B[j]
       /\ C[i] = <<>> /\ DOMAIN C[i] = {} /\ BlocksIn(C[i]) = {}
  BY <1>1 DEF BlocksIn
<1> HIDE DEF C, s
<1>11. cs = UNION {BlocksIn(C[j]) : j \in Inodes}
  <2>1. ASSUME NEW x \in cs PROVE \E j \in Inodes : x \in BlocksIn(C[j])
    <3>1. PICK j \in Inodes : x \in BlocksIn(B[j])
      BY <1>3 DEF Shared
    <3>2. j # i
      BY <3>1 DEF s
    <3> QED BY <3>1, <3>2, <1>10
  <2>2. ASSUME NEW j \in Inodes, j # i PROVE BlocksIn(C[j]) \subseteq cs
    <3>1. BlocksIn(B[j]) \cap BlocksIn(s) = {}
      BY <2>2, <1>3 DEF Shared, s
    <3> QED BY <3>1, <2>2, <1>1, <1>10
  <2> QED BY <2>1, <2>2, <1>10
<1>12. \A j \in Inodes : \A x, y \in DOMAIN C[j] : C[j][x] = C[j][y] => x = y
  BY <1>3, <1>10 DEF Shared
<1>13. \A j, k \in Inodes : j # k => BlocksIn(C[j]) \cap BlocksIn(C[k]) = {}
  <2> SUFFICES ASSUME NEW j \in Inodes, NEW k \in Inodes, j # k
               PROVE  BlocksIn(C[j]) \cap BlocksIn(C[k]) = {}
    OBVIOUS
  <2>1. BlocksIn(B[j]) \cap BlocksIn(B[k]) = {}
    BY <1>3 DEF Shared
  <2> QED BY <2>1, <1>10
<1>14. Shared(cs, C)
  BY <1>10, <1>11, <1>12, <1>13 DEF Shared
<1> HIDE DEF cs
<1>15. Exact(Vol(cs, left, U, ni, dirs), U, D, C)
  BY <1>1, <1>2, <1>7, <1>9, <1>14, IsExact DEF ni, dirs
<1> QED BY <1>8, <1>15 DEF C, s
---------------------------------------------------------------------------
(* The table: what its rows are, and what writing a slot does to them.     *)

Row(k, l, b, s) == [kind |-> k, links |-> l, blocks |-> b, dir |-> s]

LEMMA RowTyped ==
  ASSUME NEW k \in Kinds, NEW l \in Counts, NEW b \in Seq(Blocks), NEW s \in Seq(DirBlocks)
  PROVE  /\ Row(k, l, b, s) \in Records
         /\ Row(k, l, b, s).kind = k /\ Row(k, l, b, s).links = l
         /\ Row(k, l, b, s).blocks = b /\ Row(k, l, b, s).dir = s
BY DEF Row, Records

Regrown(x, c, z) == [x EXCEPT !.blocks = c, !.dir = z]
LEMMA RowGrown ==
  ASSUME NEW k, NEW l, NEW b, NEW s, NEW x, x = Row(k, l, b, s), NEW c, NEW z
  PROVE  Regrown(x, c, z) = Row(k, l, c, z)
<1>1. [x EXCEPT !.blocks = c, !.dir = z] = [[x EXCEPT !.blocks = c] EXCEPT !.dir = z]
  OBVIOUS
<1>2. [x EXCEPT !.blocks = c] = Row(k, l, c, s)
  BY DEF Row
<1>3. [Row(k, l, c, s) EXCEPT !.dir = z] = Row(k, l, c, z)
  BY DEF Row
<1> QED BY <1>1, <1>2, <1>3 DEF Regrown

Relinked(x, m) == [x EXCEPT !.links = m]
LEMMA RowLinks ==
  ASSUME NEW k, NEW l, NEW b, NEW s, NEW x, x = Row(k, l, b, s), NEW m
  PROVE  Relinked(x, m) = Row(k, m, b, s)
BY DEF Row, Relinked

LEMMA Rows ==
  ASSUME NEW t \in Tables, NEW i \in Inodes
  PROVE  /\ t[i] = Row(t[i].kind, t[i].links, t[i].blocks, t[i].dir)
         /\ t[i] \in Records
         /\ t[i].kind \in Kinds /\ t[i].links \in Counts
         /\ t[i].blocks \in Seq(Blocks) /\ t[i].dir \in Seq(DirBlocks)
         /\ Len(t[i].dir) \in Nat /\ DOMAIN t[i].dir = 1..Len(t[i].dir)
         /\ Len(t[i].blocks) \in Nat
<1>1. t[i] \in Records
  BY DEF Tables
<1>2. /\ t[i].kind \in Kinds /\ t[i].links \in Counts
      /\ t[i].blocks \in Seq(Blocks) /\ t[i].dir \in Seq(DirBlocks)
      /\ t[i] = Row(t[i].kind, t[i].links, t[i].blocks, t[i].dir)
  BY <1>1 DEF Records, Row
<1> QED BY <1>1, <1>2, LenProperties

LEMMA PlaceIn ==
  ASSUME NEW t \in Tables, NEW d \in Inodes, NEW p \in Places(t, d)
  PROVE  /\ p = <<p[1], p[2]>> /\ p[1] \in 1..Len(t[d].dir) /\ p[2] \in Slots
         /\ t[d].dir[p[1]] \in DirBlocks
         /\ At(t, d, p) \in DirEntries
         /\ At(t, d, p) = Entry(At(t, d, p).name, At(t, d, p).ino)
         /\ At(t, d, p).name \in Names \cup {"", ".", ".."} /\ At(t, d, p).ino \in 0..NInodes
<1>1. p = <<p[1], p[2]>> /\ p[1] \in 1..Len(t[d].dir) /\ p[2] \in Slots
  BY Rows DEF Places
<1>2. t[d].dir[p[1]] \in DirBlocks
  BY <1>1, Rows
<1>3. At(t, d, p) \in DirEntries
  BY <1>1, <1>2 DEF At, DirBlocks
<1> QED BY <1>1, <1>2, <1>3 DEF DirEntries, Entry

LEMMA EntryTyped ==
  ASSUME NEW n \in Names \cup {"", ".", ".."}, NEW c \in 0..NInodes
  PROVE  Entry(n, c) \in DirEntries /\ Entry(n, c).name = n /\ Entry(n, c).ino = c
BY DEF Entry, DirEntries

(* Table u is table t with row r for inode i.                              *)
LEMMA NewRow ==
  ASSUME NEW t \in Tables, NEW i \in Inodes, NEW r \in Records
  PROVE  LET u == [t EXCEPT ![i] = r]
         IN  u \in Tables /\ u[i] = r /\ \A j \in Inodes \ {i} : u[j] = t[j]
BY DEF Tables

Wrote(t, u, d, p, e) ==
  /\ u \in Tables /\ \A i \in Inodes \ {d} : u[i] = t[i]
  /\ u[d].kind = t[d].kind /\ u[d].links = t[d].links /\ u[d].blocks = t[d].blocks
  /\ Len(u[d].dir) = Len(t[d].dir) /\ Places(u, d) = Places(t, d)
  /\ At(u, d, p) = e
  /\ \A q \in Places(t, d) \ {p} : At(u, d, q) = At(t, d, q)

LEMMA Put ==
  ASSUME NEW t \in Tables, NEW d \in Inodes, NEW p \in Places(t, d), NEW e \in DirEntries
  PROVE  Wrote(t, PutEntry(t, d, p, e), d, p, e)
<1> DEFINE s == t[d].dir
           a == p[1]
           k == p[2]
           blk == [s[a] EXCEPT ![k] = e]
           z == [s EXCEPT ![a] = blk]
           r == Row(t[d].kind, t[d].links, t[d].blocks, z)
           u == [t EXCEPT ![d] = r]
<1>1. a \in 1..Len(s) /\ k \in Slots /\ s[a] \in DirBlocks /\ p = <<a, k>>
  BY PlaceIn
<1>2. blk \in DirBlocks /\ blk[k] = e /\ \A j \in Slots \ {k} : blk[j] = s[a][j]
  BY <1>1 DEF DirBlocks
<1>3. s \in Seq(DirBlocks) /\ Len(s) \in Nat /\ DOMAIN s = 1..Len(s)
  BY Rows
<1>4. /\ z \in Seq(DirBlocks) /\ Len(z) = Len(s) /\ DOMAIN z = DOMAIN s
      /\ z[a] = blk /\ \A j \in 1..Len(s) : j # a => z[j] = s[j]
  <2> HIDE DEF s, blk
  <2> QED BY <1>1, <1>2, <1>3, ExceptSeq
<1> HIDE DEF z, blk
<1>5. r \in Records /\ r.kind = t[d].kind /\ r.links = t[d].links
      /\ r.blocks = t[d].blocks /\ r.dir = z
  BY <1>4, Rows, RowTyped
<1>6. [t[d] EXCEPT !.dir[a][k] = e] = r
  <2>1. [t[d] EXCEPT !.dir[a][k] = e] = [t[d] EXCEPT !.dir = z]
    BY DEF z, blk
  <2>2. t[d] = Row(t[d].kind, t[d].links, t[d].blocks, t[d].dir)
    BY Rows
  <2> QED BY <2>1, <2>2 DEF Row
<1>7. PutEntry(t, d, p, e) = u
  <2>1. PutEntry(t, d, p, e) = [t EXCEPT ![d] = [t[d] EXCEPT !.dir[a][k] = e]]
    BY DEF PutEntry
  <2> QED BY <2>1, <1>6
<1>8. u \in Tables /\ u[d] = r /\ \A i \in Inodes \ {d} : u[i] = t[i]
  BY <1>5 DEF Tables
<1> HIDE DEF r, u
<1>9. Places(u, d) = Places(t, d)
  BY <1>4, <1>5, <1>8 DEF Places
<1>10. At(u, d, p) = e
  BY <1>2, <1>4, <1>5, <1>8 DEF At
<1>11. ASSUME NEW q \in Places(t, d), q # p PROVE At(u, d, q) = At(t, d, q)
  <2>1. q = <<q[1], q[2]>> /\ q[1] \in 1..Len(s) /\ q[2] \in Slots
    BY PlaceIn
  <2>2. CASE q[1] # a
    BY <2>1, <2>2, <1>4, <1>5, <1>8 DEF At
  <2>3. CASE q[1] = a
    <3>1. q[2] # k
      BY <1>1, <1>11, <2>1, <2>3
    <3> QED BY <2>1, <2>3, <3>1, <1>2, <1>4, <1>5, <1>8 DEF At
  <2> QED BY <2>2, <2>3
<1>12. u[d].kind = t[d].kind /\ u[d].links = t[d].links /\ u[d].blocks = t[d].blocks
       /\ Len(u[d].dir) = Len(t[d].dir)
  BY <1>4, <1>5, <1>8
<1>13. Wrote(t, u, d, p, e)
  BY <1>8, <1>9, <1>10, <1>11, <1>12 DEF Wrote
<1> QED BY <1>7, <1>13
---------------------------------------------------------------------------
(* What a table shows: the inodes in use, directories, entries, parents,   *)
(* link counts and blocks.                                                 *)

Shows(t, U, D, G, P, L, B) ==
  /\ t \in Tables /\ Formed(t)
  /\ U = Used(t) /\ D = Dirs(t) /\ G = Entries(t) /\ P = Parent(t)
  /\ L = LinkCounts(t) /\ B = BlockLists(t)

LEMMA StateShows ==
  ASSUME NEW v, NEW t, StateInv(v, t)
  PROVE  /\ Shows(t, Used(t), Dirs(t), Entries(t), Parent(t), LinkCounts(t), BlockLists(t))
         /\ Tree(Used(t), Dirs(t), Entries(t), Parent(t))
         /\ Linked(Used(t), Dirs(t), Entries(t), LinkCounts(t))
         /\ Exact(v, Used(t), Dirs(t), BlockLists(t))
BY Zenon DEF StateInv, Shows, TreeInv, LinkInv, StrayInv

LEMMA ShowsState ==
  ASSUME NEW v, NEW t, NEW U, NEW D, NEW G, NEW P, NEW L, NEW B,
         Shows(t, U, D, G, P, L, B), Tree(U, D, G, P), Linked(U, D, G, L), Exact(v, U, D, B)
  PROVE  StateInv(v, t)
BY Zenon DEF StateInv, Shows, TreeInv, LinkInv, StrayInv

LEMMA SameRow ==
  ASSUME NEW t, NEW u, NEW i, u[i] = t[i]
  PROVE  /\ Places(u, i) = Places(t, i) /\ \A p : At(u, i, p) = At(t, i, p)
         /\ DirFormed(u, i) <=> DirFormed(t, i)
<1>1. Places(u, i) = Places(t, i) /\ \A p : At(u, i, p) = At(t, i, p)
  BY DEF Places, At
<1> QED BY <1>1, Zenon DEF DirFormed

LEMMA Dotted ==
  ASSUME NEW t \in Tables, Formed(t), NEW d \in Dirs(t)
  PROVE  /\ d \in Inodes /\ DirFormed(t, d)
         /\ Places(t, d) \subseteq AllPlaces
         /\ SelfPlace \in Places(t, d) /\ UpPlace \in Places(t, d) /\ SelfPlace # UpPlace
         /\ At(t, d, SelfPlace) = Entry(".", d)
         /\ At(t, d, UpPlace) = Entry("..", Parent(t)[d]) /\ Parent(t)[d] \in Inodes
         /\ Len(t[d].dir) = Len(t[d].blocks) /\ Len(t[d].dir) \in 1..MaxDirBlocks
<1>1. d \in Inodes /\ DirFormed(t, d)
  BY DEF Dirs, Formed
<1>2. Len(t[d].dir) = Len(t[d].blocks) /\ Len(t[d].dir) \in 1..MaxDirBlocks
      /\ At(t, d, SelfPlace) = Entry(".", d)
      /\ At(t, d, UpPlace).name = ".." /\ At(t, d, UpPlace).ino \in Inodes
  BY <1>1 DEF DirFormed
<1>3. DOMAIN t[d].dir = 1..Len(t[d].dir)
  BY <1>1, Rows
<1>4. Places(t, d) = (1..Len(t[d].dir)) \X Slots
  BY <1>3 DEF Places
<1>5. SelfPlace \in Places(t, d) /\ UpPlace \in Places(t, d) /\ SelfPlace # UpPlace
  BY <1>2, <1>4, Sizes DEF SelfPlace, UpPlace
<1>6. Places(t, d) \subseteq AllPlaces
  BY <1>2, <1>4, Sizes DEF AllPlaces
<1>7. Parent(t)[d] = At(t, d, UpPlace).ino
  BY DEF Parent
<1>8. At(t, d, UpPlace) = Entry("..", Parent(t)[d])
  BY <1>1, <1>2, <1>5, <1>7, PlaceIn
<1> QED BY <1>1, <1>2, <1>5, <1>6, <1>7, <1>8

LEMMA Elsewhere ==
  ASSUME NEW t \in Tables, Formed(t), NEW d \in Dirs(t),
         NEW p \in Places(t, d), p \notin {SelfPlace, UpPlace}
  PROVE  /\ At(t, d, p).name \in Names \cup {""}
         /\ At(t, d, p).name = "" <=> At(t, d, p).ino = 0
         /\ At(t, d, p) = Entry(At(t, d, p).name, At(t, d, p).ino)
<1>1. d \in Inodes /\ DirFormed(t, d)
  BY DEF Dirs, Formed
<1> QED BY <1>1, PlaceIn DEF DirFormed

(* The entries, one by one.                                                *)
LEMMA EntryIn ==
  ASSUME NEW t \in Tables, Formed(t), NEW d, NEW p, NEW n, NEW c
  PROVE  <<d, p, n, c>> \in Entries(t) <=>
           /\ d \in Dirs(t) /\ p \in Places(t, d) /\ n \in Names /\ c \in Inodes
           /\ At(t, d, p) = Entry(n, c)
<1>1. d \in Dirs(t) /\ p \in Places(t, d) => p \in AllPlaces
  BY Dotted
<1> QED BY <1>1 DEF Entries

LEMMA EntryOf ==
  ASSUME NEW t, NEW x \in Entries(t)
  PROVE  /\ x = <<x[1], x[2], x[3], x[4]>>
         /\ x[1] \in Dirs(t) /\ x[2] \in Places(t, x[1]) /\ x[3] \in Names /\ x[4] \in Inodes
         /\ At(t, x[1], x[2]) = Entry(x[3], x[4])
BY DEF Entries

LEMMA EntriesAre ==
  ASSUME NEW t, NEW G \in SUBSET (Inodes \X AllPlaces \X Names \X Inodes),
         t \in Tables, Formed(t),
         \A d, p, n, c : <<d, p, n, c>> \in G <=>
           /\ d \in Dirs(t) /\ p \in Places(t, d) /\ n \in Names /\ c \in Inodes
           /\ At(t, d, p) = Entry(n, c)
  PROVE  G = Entries(t)
<1>1. \A x \in G : x = <<x[1], x[2], x[3], x[4]>>
  OBVIOUS
<1>2. \A x \in Entries(t) : x = <<x[1], x[2], x[3], x[4]>>
  BY EntryOf
<1>3. ASSUME NEW d, NEW p, NEW n, NEW c
      PROVE  <<d, p, n, c>> \in G <=> <<d, p, n, c>> \in Entries(t)
  <2>1. <<d, p, n, c>> \in Entries(t) <=>
           /\ d \in Dirs(t) /\ p \in Places(t, d) /\ n \in Names /\ c \in Inodes
           /\ At(t, d, p) = Entry(n, c)
    BY EntryIn
  <2> QED BY <2>1
<1>4. \A x \in G : x \in Entries(t)
  BY <1>1, <1>3
<1>5. \A x \in Entries(t) : x \in G
  BY <1>2, <1>3
<1> QED BY <1>4, <1>5

LEMMA NamesAre == ASSUME NEW n \in Names PROVE n # "" /\ n # "." /\ n # ".."
BY NamesAssumption

(* What a written slot leaves alone.                                       *)
LEMMA WroteFields ==
  ASSUME NEW t \in Tables, NEW u, NEW d \in Inodes, NEW p, NEW e, Wrote(t, u, d, p, e)
  PROVE  /\ u \in Tables
         /\ Used(u) = Used(t) /\ Dirs(u) = Dirs(t)
         /\ LinkCounts(u) = LinkCounts(t) /\ BlockLists(u) = BlockLists(t)
         /\ \A i \in Inodes : /\ u[i].kind = t[i].kind /\ Places(u, i) = Places(t, i)
                              /\ i # d => u[i] = t[i]
         /\ \A i \in Inodes : \A q \in Places(t, i) :
              At(u, i, q) = IF i = d /\ q = p THEN e ELSE At(t, i, q)
<1>1. u \in Tables /\ \A i \in Inodes : i # d => u[i] = t[i]
  BY DEF Wrote
<1>2. \A i \in Inodes : /\ u[i].kind = t[i].kind /\ u[i].links = t[i].links
                        /\ u[i].blocks = t[i].blocks
  BY <1>1 DEF Wrote
<1>3. \A i \in Inodes : Places(u, i) = Places(t, i)
  BY <1>1, SameRow DEF Wrote
<1>4. \A i \in Inodes : \A q \in Places(t, i) :
        At(u, i, q) = IF i = d /\ q = p THEN e ELSE At(t, i, q)
  BY <1>1, SameRow DEF Wrote
<1> QED BY <1>1, <1>2, <1>3, <1>4 DEF Used, Dirs, LinkCounts, BlockLists

LEMMA WroteFormed ==
  ASSUME NEW t \in Tables, Formed(t), NEW u, NEW d \in Dirs(t), NEW p \in Places(t, d),
         NEW e, Wrote(t, u, d, p, e),
         p = SelfPlace => e = Entry(".", d),
         p = UpPlace => e.name = ".." /\ e.ino \in Inodes,
         p \notin {SelfPlace, UpPlace} =>
           e.name \in Names \cup {""} /\ (e.name = "" <=> e.ino = 0)
  PROVE  Formed(u)
<1>1. d \in Inodes /\ DirFormed(t, d) /\ SelfPlace \in Places(t, d) /\ UpPlace \in Places(t, d)
      /\ t[d].kind = "dir"
  BY Dotted DEF Dirs
<1>2. /\ u[d].kind = t[d].kind /\ Places(u, d) = Places(t, d)
      /\ \A i \in Inodes : i # d => u[i] = t[i]
      /\ \A q \in Places(t, d) : At(u, d, q) = IF q = p THEN e ELSE At(t, d, q)
  BY <1>1 DEF Wrote
<1>3. Len(u[d].dir) = Len(t[d].dir) /\ Len(u[d].blocks) = Len(t[d].blocks)
  BY DEF Wrote
<1>4. DirFormed(u, d)
  <2>1. Len(u[d].dir) = Len(u[d].blocks) /\ Len(u[d].dir) \in 1..MaxDirBlocks
    BY <1>1, <1>3 DEF DirFormed
  <2>2. At(u, d, SelfPlace) = Entry(".", d)
    BY <1>1, <1>2 DEF DirFormed
  <2>3. At(u, d, UpPlace).name = ".." /\ At(u, d, UpPlace).ino \in Inodes
    BY <1>1, <1>2 DEF DirFormed
  <2>4. ASSUME NEW q \in Places(t, d) \ {SelfPlace, UpPlace}
        PROVE  /\ At(u, d, q).name \in Names \cup {""}
               /\ At(u, d, q).name = "" <=> At(u, d, q).ino = 0
    BY <1>1, <1>2 DEF DirFormed
  <2> QED BY <2>1, <2>2, <2>3, <2>4, <1>2 DEF DirFormed
<1>5. ASSUME NEW i \in Inodes, i # d
      PROVE  /\ u[i].kind = "free" => u[i] = Deleted
             /\ u[i].kind # "dir" => u[i].dir = <<>>
             /\ u[i].kind = "dir" => DirFormed(u, i)
  BY <1>2, <1>5, SameRow DEF Formed
<1> QED BY <1>1, <1>2, <1>4, <1>5 DEF Formed

(* A name is written where nothing was.                                    *)
LEMMA ShowsWritten ==
  ASSUME NEW t, NEW U, NEW D, NEW G, NEW P, NEW L, NEW B, Shows(t, U, D, G, P, L, B),
         NEW d \in D, NEW p \in Places(t, d), At(t, d, p).ino = 0,
         NEW n \in Names, NEW c \in Inodes,
         NEW u, Wrote(t, u, d, p, Entry(n, c))
  PROVE  /\ p \in AllPlaces /\ <<d, p, n, c>> \notin G
         /\ Shows(u, U, D, G \cup {<<d, p, n, c>>}, P, L, B)
<1>1. t \in Tables /\ Formed(t) /\ d \in Dirs(t) /\ d \in Inodes
      /\ U = Used(t) /\ D = Dirs(t) /\ G = Entries(t) /\ P = Parent(t)
      /\ L = LinkCounts(t) /\ B = BlockLists(t)
  BY DEF Shows, Dirs
<1>2. p # SelfPlace /\ p # UpPlace /\ p \in AllPlaces
  <2>0. At(t, d, SelfPlace) = Entry(".", d) /\ At(t, d, UpPlace).ino \in Inodes
    BY <1>1 DEF DirFormed, Formed, Dirs
  <2>1. At(t, d, SelfPlace).ino = d /\ At(t, d, UpPlace).ino \in Inodes
    BY <2>0 DEF Entry
  <2>2. 0 \notin Inodes
    BY Sizes
  <2> QED BY <2>1, <2>2, <1>1, Dotted
<1>3. /\ u \in Tables /\ Used(u) = Used(t) /\ Dirs(u) = Dirs(t)
      /\ LinkCounts(u) = LinkCounts(t) /\ BlockLists(u) = BlockLists(t)
      /\ \A i \in Inodes : Places(u, i) = Places(t, i)
      /\ \A i \in Inodes : \A q \in Places(t, i) :
           At(u, i, q) = IF i = d /\ q = p THEN Entry(n, c) ELSE At(t, i, q)
  BY <1>1, WroteFields
<1>4. Formed(u)
  <2>1. c # 0 /\ n # ""
    BY Sizes, NamesAre
  <2> DEFINE e == Entry(n, c)
  <2>2. e.name = n /\ e.ino = c
    BY DEF Entry
  <2> HIDE DEF e
  <2>3. e.name \in Names \cup {""} /\ (e.name = "" <=> e.ino = 0)
    BY <2>1, <2>2
  <2>4. Wrote(t, u, d, p, e)
    BY DEF e
  <2> QED BY <1>1, <1>2, <2>3, <2>4, WroteFormed
<1>5. P = Parent(u)
  <2>1. \A i \in Dirs(t) : At(u, i, UpPlace) = At(t, i, UpPlace)
    BY <1>1, <1>2, <1>3, Dotted
  <2> QED BY <2>1, <1>1, <1>3 DEF Parent
<1>6. \A m, x : <<d, p, m, x>> \notin G
  <2> SUFFICES ASSUME NEW m, NEW x, <<d, p, m, x>> \in G PROVE FALSE
    OBVIOUS
  <2>1. At(t, d, p) = Entry(m, x) /\ x \in Inodes
    BY <1>1, EntryIn
  <2>2. At(t, d, p).ino = x
    BY <2>1 DEF Entry
  <2> QED BY <2>1, <2>2, Sizes
<1>7. G \cup {<<d, p, n, c>>} = Entries(u)
  <2> DEFINE H == G \cup {<<d, p, n, c>>}
  <2>1. H \in SUBSET (Inodes \X AllPlaces \X Names \X Inodes)
    BY <1>1, <1>2 DEF Entries, Dirs
  <2>2. ASSUME NEW a, NEW q, NEW m, NEW x
        PROVE  <<a, q, m, x>> \in H <=>
                 /\ a \in Dirs(u) /\ q \in Places(u, a) /\ m \in Names /\ x \in Inodes
                 /\ At(u, a, q) = Entry(m, x)
    <3>0. a \in Dirs(t) => a \in Inodes /\ Places(u, a) = Places(t, a)
      BY <1>3 DEF Dirs
    <3>1. CASE a = d /\ q = p
      <4>1. <<a, q, m, x>> \notin G
        BY <3>1, <1>6
      <4>2. <<a, q, m, x>> \in H <=> m = n /\ x = c
        BY <3>1, <4>1
      <4>3. At(u, d, p) = Entry(n, c)
        BY DEF Wrote
      <4>4. At(u, a, q) = Entry(m, x) <=> n = m /\ c = x
        BY <3>1, <4>3 DEF Entry
      <4>5. a \in Dirs(u) /\ q \in Places(u, a)
        BY <3>1, <1>1, <1>3
      <4> QED BY <4>2, <4>4, <4>5
    <3>2. CASE ~(a = d /\ q = p)
      <4>1. <<a, q, m, x>> \in H <=> <<a, q, m, x>> \in G
        BY <3>2
      <4>2. a \in Dirs(t) /\ q \in Places(t, a) => At(u, a, q) = At(t, a, q)
        BY <3>0, <3>2, <1>3
      <4> QED BY <3>0, <4>1, <4>2, <1>1, <1>3, EntryIn
    <3> QED BY <3>1, <3>2
  <2> HIDE DEF H
  <2>3. H = Entries(u)
    BY <2>1, <2>2, <1>3, <1>4, EntriesAre
  <2> QED BY <2>3 DEF H
<1> QED BY <1>1, <1>2, <1>3, <1>4, <1>5, <1>6, <1>7 DEF Shows

(* A name is erased.                                                       *)
LEMMA ShowsErased ==
  ASSUME NEW t, NEW U, NEW D, NEW G, NEW P, NEW L, NEW B, Shows(t, U, D, G, P, L, B),
         NEW d, NEW p, NEW n, NEW c, <<d, p, n, c>> \in G,
         NEW u, Wrote(t, u, d, p, NoEntry)
  PROVE  Shows(u, U, D, G \ {<<d, p, n, c>>}, P, L, B)
<1>1. t \in Tables /\ Formed(t)
      /\ U = Used(t) /\ D = Dirs(t) /\ G = Entries(t) /\ P = Parent(t)
      /\ L = LinkCounts(t) /\ B = BlockLists(t)
  BY DEF Shows
<1>2. d \in Dirs(t) /\ p \in Places(t, d) /\ n \in Names /\ c \in Inodes
      /\ At(t, d, p) = Entry(n, c)
  BY <1>1, EntryIn
<1>3. d \in Inodes
  BY <1>2 DEF Dirs
<1>4. p # SelfPlace /\ p # UpPlace
  <2>1. At(t, d, SelfPlace) = Entry(".", d) /\ At(t, d, UpPlace).name = ".."
    BY <1>1, <1>2 DEF DirFormed, Formed, Dirs
  <2>2. At(t, d, p).name = n
    BY <1>2 DEF Entry
  <2>3. At(t, d, SelfPlace).name = "."
    BY <2>1 DEF Entry
  <2> QED BY <2>1, <2>2, <2>3, <1>2, NamesAre
<1>5. /\ u \in Tables /\ Used(u) = Used(t) /\ Dirs(u) = Dirs(t)
      /\ LinkCounts(u) = LinkCounts(t) /\ BlockLists(u) = BlockLists(t)
      /\ \A i \in Inodes : Places(u, i) = Places(t, i)
      /\ \A i \in Inodes : \A q \in Places(t, i) :
           At(u, i, q) = IF i = d /\ q = p THEN NoEntry ELSE At(t, i, q)
  BY <1>1, <1>3, WroteFields
<1>6. Formed(u)
  <2> DEFINE e == NoEntry
  <2>2. e.name = "" /\ e.ino = 0
    BY DEF NoEntry
  <2> HIDE DEF e
  <2>3. e.name \in Names \cup {""} /\ (e.name = "" <=> e.ino = 0)
    BY <2>2
  <2>4. Wrote(t, u, d, p, e)
    BY DEF e
  <2> QED BY <1>1, <1>2, <1>4, <2>3, <2>4, WroteFormed
<1>7. P = Parent(u)
  <2>1. \A i \in Dirs(t) : At(u, i, UpPlace) = At(t, i, UpPlace)
    BY <1>1, <1>4, <1>5, Dotted
  <2> QED BY <2>1, <1>1, <1>5 DEF Parent
<1>8. G \ {<<d, p, n, c>>} = Entries(u)
  <2> DEFINE H == G \ {<<d, p, n, c>>}
  <2>1. H \in SUBSET (Inodes \X AllPlaces \X Names \X Inodes)
    BY <1>1 DEF Entries, Dirs
  <2>2. ASSUME NEW a, NEW q, NEW m, NEW x
        PROVE  <<a, q, m, x>> \in H <=>
                 /\ a \in Dirs(u) /\ q \in Places(u, a) /\ m \in Names /\ x \in Inodes
                 /\ At(u, a, q) = Entry(m, x)
    <3>0. a \in Dirs(t) => a \in Inodes /\ Places(u, a) = Places(t, a)
      BY <1>5 DEF Dirs
    <3>1. CASE a = d /\ q = p
      <4>1. <<a, q, m, x>> \in G => m = n /\ x = c
        <5>1. <<a, q, m, x>> \in G => At(t, d, p) = Entry(m, x)
          BY <3>1, <1>1, EntryIn
        <5> QED BY <5>1, <1>2 DEF Entry
      <4>2. <<a, q, m, x>> \notin H
        BY <3>1, <4>1
      <4>3. At(u, a, q) = NoEntry
        BY <3>1 DEF Wrote
      <4>4. At(u, a, q) = Entry(m, x) => m = ""
        <5>1. At(u, a, q) = Entry(m, x) => At(u, a, q).name = m
          BY DEF Entry
        <5>2. NoEntry.name = ""
          BY DEF NoEntry
        <5> QED BY <4>3, <5>1, <5>2
      <4> QED BY <4>2, <4>4, NamesAre
    <3>2. CASE ~(a = d /\ q = p)
      <4>1. <<a, q, m, x>> \in H <=> <<a, q, m, x>> \in G
        BY <3>2
      <4>2. a \in Dirs(t) /\ q \in Places(t, a) => At(u, a, q) = At(t, a, q)
        BY <3>0, <3>2, <1>5
      <4> QED BY <3>0, <4>1, <4>2, <1>1, <1>5, EntryIn
    <3> QED BY <3>1, <3>2
  <2> HIDE DEF H
  <2>3. H = Entries(u)
    BY <2>1, <2>2, <1>5, <1>6, EntriesAre
  <2> QED BY <2>3 DEF H
<1> QED BY <1>1, <1>5, <1>6, <1>7, <1>8 DEF Shows

(* The way up is written.                                                  *)
LEMMA ShowsUp ==
  ASSUME NEW t, NEW U, NEW D, NEW G, NEW P, NEW L, NEW B, Shows(t, U, D, G, P, L, B),
         NEW d \in D, NEW e \in Inodes,
         NEW u, Wrote(t, u, d, UpPlace, Entry("..", e))
  PROVE  Shows(u, U, D, G, [P EXCEPT ![d] = e], L, B)
<1>1. t \in Tables /\ Formed(t) /\ d \in Dirs(t)
      /\ U = Used(t) /\ D = Dirs(t) /\ G = Entries(t) /\ P = Parent(t)
      /\ L = LinkCounts(t) /\ B = BlockLists(t)
  BY DEF Shows
<1>2. d \in Inodes /\ UpPlace \in Places(t, d) /\ UpPlace # SelfPlace
  BY <1>1, Dotted
<1>3. /\ u \in Tables /\ Used(u) = Used(t) /\ Dirs(u) = Dirs(t)
      /\ LinkCounts(u) = LinkCounts(t) /\ BlockLists(u) = BlockLists(t)
      /\ \A i \in Inodes : Places(u, i) = Places(t, i)
      /\ \A i \in Inodes : \A q \in Places(t, i) :
           At(u, i, q) = IF i = d /\ q = UpPlace THEN Entry("..", e) ELSE At(t, i, q)
  BY <1>1, <1>2, WroteFields
<1>4. Formed(u)
  <2> DEFINE y == Entry("..", e)
  <2>2. y.name = ".." /\ y.ino = e
    BY DEF Entry
  <2> HIDE DEF y
  <2>4. Wrote(t, u, d, UpPlace, y)
    BY DEF y
  <2> QED BY <1>1, <1>2, <2>2, <2>4, WroteFormed
<1>5. [P EXCEPT ![d] = e] = Parent(u)
  <2>1. \A i \in Dirs(t) : i # d => At(u, i, UpPlace) = At(t, i, UpPlace)
    BY <1>1, <1>3, Dotted
  <2>2. At(u, d, UpPlace).ino = e
    <3>1. At(u, d, UpPlace) = Entry("..", e)
      BY DEF Wrote
    <3> QED BY <3>1 DEF Entry
  <2> QED BY <2>1, <2>2, <1>1, <1>3 DEF Parent
<1>6. G = Entries(u)
  <2>1. G \in SUBSET (Inodes \X AllPlaces \X Names \X Inodes)
    BY <1>1 DEF Entries, Dirs
  <2>2. ASSUME NEW a, NEW q, NEW m, NEW x
        PROVE  <<a, q, m, x>> \in G <=>
                 /\ a \in Dirs(u) /\ q \in Places(u, a) /\ m \in Names /\ x \in Inodes
                 /\ At(u, a, q) = Entry(m, x)
    <3>0. a \in Dirs(t) => a \in Inodes /\ Places(u, a) = Places(t, a)
      BY <1>3 DEF Dirs
    <3>1. CASE a = d /\ q = UpPlace
      <4>1. m \in Names => At(t, d, UpPlace) # Entry(m, x)
        <5>1. At(t, d, UpPlace).name = ".."
          BY <1>1 DEF DirFormed, Formed, Dirs
        <5>2. At(t, d, UpPlace) = Entry(m, x) => At(t, d, UpPlace).name = m
          BY DEF Entry
        <5> QED BY <5>1, <5>2, NamesAre
      <4>2. m \in Names => At(u, d, UpPlace) # Entry(m, x)
        <5>1. At(u, d, UpPlace) = Entry("..", e)
          BY DEF Wrote
        <5>2. At(u, d, UpPlace).name = ".."
          BY <5>1 DEF Entry
        <5>3. At(u, d, UpPlace) = Entry(m, x) => At(u, d, UpPlace).name = m
          BY DEF Entry
        <5> QED BY <5>2, <5>3, NamesAre
      <4> QED BY <3>1, <4>1, <4>2, <1>1, EntryIn
    <3>2. CASE ~(a = d /\ q = UpPlace)
      <4>2. a \in Dirs(t) /\ q \in Places(t, a) => At(u, a, q) = At(t, a, q)
        BY <3>0, <3>2, <1>3
      <4> QED BY <3>0, <4>2, <1>1, <1>3, EntryIn
    <3> QED BY <3>1, <3>2
  <2>3. G = Entries(u)
    BY <2>1, <2>2, <1>3, <1>4, EntriesAre
  <2> QED BY <2>3
<1> QED BY <1>1, <1>3, <1>4, <1>5, <1>6 DEF Shows

(* A directory has a block more, with nothing in it.                       *)
LEMMA ShowsGrown ==
  ASSUME NEW t, NEW U, NEW D, NEW G, NEW P, NEW L, NEW B, Shows(t, U, D, G, P, L, B),
         NEW d \in D, NEW b \in Blocks, Len(t[d].blocks) < MaxDirBlocks
  PROVE  /\ Shows(Grown(t, d, b), U, D, G, P, L, [B EXCEPT ![d] = Append(@, b)])
         /\ FreeSlots(Grown(t, d, b), d) # {}
<1> DEFINE g == Grown(t, d, b)
           s == t[d].dir
           n == Len(s)
           z == Append(s, EmptyBlock)
           bl == Append(t[d].blocks, b)
           r == Row(t[d].kind, t[d].links, bl, z)
<1>1. t \in Tables /\ Formed(t) /\ d \in Dirs(t)
      /\ U = Used(t) /\ D = Dirs(t) /\ G = Entries(t) /\ P = Parent(t)
      /\ L = LinkCounts(t) /\ B = BlockLists(t)
  BY DEF Shows
<1>2. d \in Inodes /\ n = Len(t[d].blocks) /\ n \in 1..MaxDirBlocks /\ n + 1 \in 1..MaxDirBlocks
      /\ t[d].kind = "dir"
  BY <1>1, Dotted, Sizes DEF Dirs
<1>3. EmptyBlock \in DirBlocks /\ \A k \in Slots : EmptyBlock[k] = NoEntry
  <2>1. NoEntry \in DirEntries
    BY Sizes DEF NoEntry, DirEntries
  <2> QED BY <2>1 DEF EmptyBlock, DirBlocks
<1>4. s \in Seq(DirBlocks) /\ t[d].blocks \in Seq(Blocks) /\ DOMAIN s = 1..n
      /\ t[d].kind \in Kinds /\ t[d].links \in Counts
  BY <1>1, <1>2, Rows
<1>5. /\ z \in Seq(DirBlocks) /\ Len(z) = n + 1 /\ DOMAIN z = 1..(n + 1)
      /\ z[n + 1] = EmptyBlock /\ \A k \in 1..n : z[k] = s[k]
  <2> HIDE DEF s
  <2>1. /\ z \in Seq(DirBlocks) /\ Len(z) = Len(s) + 1
        /\ \A k \in 1..Len(s) : z[k] = s[k]
        /\ z[Len(s) + 1] = EmptyBlock
    BY <1>3, <1>4, AppendProperties
  <2>2. DOMAIN z = 1..Len(z)
    BY <2>1, LenProperties
  <2> QED BY <2>1, <2>2
<1>6. bl \in Seq(Blocks) /\ Len(bl) = n + 1
  BY <1>2, <1>4, AppendProperties
<1> HIDE DEF z, bl
<1>7. r \in Records /\ r.kind = t[d].kind /\ r.links = t[d].links
      /\ r.blocks = bl /\ r.dir = z
  BY <1>4, <1>5, <1>6, RowTyped
<1>8. g = [t EXCEPT ![d] = r]
  <2>1. t[d] = Row(t[d].kind, t[d].links, t[d].blocks, t[d].dir)
    BY <1>1, <1>2, Rows
  <2>2. Regrown(t[d], bl, z) = r
    BY <2>1, RowGrown
  <2>3. g = [t EXCEPT ![d] = [t[d] EXCEPT !.blocks = bl, !.dir = z]]
    BY <1>1, <1>2 DEF Grown, bl, z, Tables
  <2>4. g = [t EXCEPT ![d] = Regrown(t[d], bl, z)]
    BY <2>3, Zenon DEF Regrown
  <2> QED BY <2>2, <2>4
<1> HIDE DEF g, r
<1>9. g \in Tables /\ g[d] = r /\ \A i \in Inodes : i # d => g[i] = t[i]
  BY <1>1, <1>2, <1>7, <1>8 DEF Tables
<1>10. Used(g) = Used(t) /\ Dirs(g) = Dirs(t) /\ LinkCounts(g) = LinkCounts(t)
  <2>1. \A i \in Inodes : g[i].kind = t[i].kind /\ g[i].links = t[i].links
    BY <1>7, <1>9
  <2> QED BY <2>1 DEF Used, Dirs, LinkCounts
<1>11. [B EXCEPT ![d] = Append(@, b)] = BlockLists(g)
  <2>1. \A i \in Inodes : g[i].blocks = IF i = d THEN bl ELSE t[i].blocks
    BY <1>7, <1>9
  <2> QED BY <2>1, <1>1, <1>2 DEF BlockLists, bl
<1>12. /\ Places(g, d) = (1..(n + 1)) \X Slots
       /\ Places(t, d) = (1..n) \X Slots
       /\ \A i \in Inodes : i # d => Places(g, i) = Places(t, i)
  <2>1. Places(g, d) = (1..(n + 1)) \X Slots
    BY <1>5, <1>7, <1>9 DEF Places
  <2>2. Places(t, d) = (1..n) \X Slots
    BY <1>4 DEF Places
  <2> QED BY <2>1, <2>2, <1>9, SameRow
<1>13. \A i \in Inodes : \A q \in Places(t, i) : At(g, i, q) = At(t, i, q)
  <2>1. ASSUME NEW q \in Places(t, d) PROVE At(g, d, q) = At(t, d, q)
    BY <1>5, <1>7, <1>9, <1>12 DEF At
  <2> QED BY <2>1, <1>9, SameRow
<1>14. \A q \in Places(g, d) \ Places(t, d) : At(g, d, q) = NoEntry /\ q[1] = n + 1
  <2> SUFFICES ASSUME NEW q \in Places(g, d), q \notin Places(t, d)
               PROVE  At(g, d, q) = NoEntry /\ q[1] = n + 1
    OBVIOUS
  <2>1. q = <<q[1], q[2]>> /\ q[1] \in 1..(n + 1) /\ q[2] \in Slots
    BY <1>12
  <2>2. q[1] = n + 1
    BY <2>1, <1>2, <1>12
  <2>3. At(g, d, q) = EmptyBlock[q[2]]
    BY <2>2, <1>5, <1>7, <1>9 DEF At
  <2> QED BY <2>1, <2>2, <2>3, <1>3
<1>15. Places(t, d) \subseteq Places(g, d)
  BY <1>2, <1>12
<1>16. NoEntry.name = "" /\ NoEntry.ino = 0
  BY DEF NoEntry
<1>17. DirFormed(g, d)
  <2>1. DirFormed(t, d) /\ SelfPlace \in Places(t, d) /\ UpPlace \in Places(t, d)
    BY <1>1, Dotted
  <2>2. Len(g[d].dir) = Len(g[d].blocks) /\ Len(g[d].dir) \in 1..MaxDirBlocks
    BY <1>2, <1>5, <1>6, <1>7, <1>9
  <2>3. /\ At(g, d, SelfPlace) = Entry(".", d)
        /\ At(g, d, UpPlace).name = ".." /\ At(g, d, UpPlace).ino \in Inodes
    BY <2>1, <1>2, <1>13 DEF DirFormed
  <2>4. ASSUME NEW q \in Places(g, d) \ {SelfPlace, UpPlace}
        PROVE  /\ At(g, d, q).name \in Names \cup {""}
               /\ At(g, d, q).name = "" <=> At(g, d, q).ino = 0
    <3>1. CASE q \in Places(t, d)
      BY <3>1, <2>1, <1>2, <1>13 DEF DirFormed
    <3>2. CASE q \notin Places(t, d)
      <4>1. At(g, d, q) = NoEntry
        BY <3>2, <1>14
      <4> QED BY <4>1, <1>16
    <3> QED BY <3>1, <3>2
  <2> QED BY <2>2, <2>3, <2>4 DEF DirFormed
<1>18. Formed(g)
  <2>1. ASSUME NEW i \in Inodes, i # d
        PROVE  /\ g[i].kind = "free" => g[i] = Deleted
               /\ g[i].kind # "dir" => g[i].dir = <<>>
               /\ g[i].kind = "dir" => DirFormed(g, i)
    <3>1. g[i] = t[i]
      BY <2>1, <1>9
    <3> QED BY <3>1, <1>1, SameRow DEF Formed
  <2> QED BY <2>1, <1>2, <1>7, <1>9, <1>17 DEF Formed
<1>19. P = Parent(g)
  <2>1. \A i \in Dirs(t) : At(g, i, UpPlace) = At(t, i, UpPlace)
    BY <1>1, <1>13, Dotted
  <2> QED BY <2>1, <1>1, <1>10 DEF Parent
<1>20. G = Entries(g)
  <2>1. G \in SUBSET (Inodes \X AllPlaces \X Names \X Inodes)
    BY <1>1 DEF Entries, Dirs
  <2>2. ASSUME NEW a, NEW q, NEW m, NEW x
        PROVE  <<a, q, m, x>> \in G <=>
                 /\ a \in Dirs(g) /\ q \in Places(g, a) /\ m \in Names /\ x \in Inodes
                 /\ At(g, a, q) = Entry(m, x)
    <3>0. a \in Dirs(t) => a \in Inodes /\ (a # d => Places(g, a) = Places(t, a))
      BY <1>12 DEF Dirs
    <3>1. CASE a = d /\ q \in Places(g, d) \ Places(t, d)
      <4>1. At(g, d, q) = NoEntry
        BY <3>1, <1>14
      <4>2. At(g, d, q) = Entry(m, x) => At(g, d, q).name = m
        BY DEF Entry
      <4>3. m \in Names => At(g, d, q) # Entry(m, x)
        BY <4>1, <4>2, <1>16, NamesAre
      <4> QED BY <3>1, <4>3, <1>1, EntryIn
    <3>2. CASE ~(a = d /\ q \in Places(g, d) \ Places(t, d))
      <4>1. a \in Dirs(t) => (q \in Places(g, a) <=> q \in Places(t, a))
        BY <3>0, <3>2, <1>15
      <4>2. a \in Dirs(t) /\ q \in Places(t, a) => At(g, a, q) = At(t, a, q)
        BY <3>0, <1>13
      <4> QED BY <4>1, <4>2, <3>0, <1>1, <1>10, EntryIn
    <3> QED BY <3>1, <3>2
  <2>3. G = Entries(g)
    BY <2>1, <2>2, <1>9, <1>18, EntriesAre
  <2> QED BY <2>3
<1>21. FreeSlots(g, d) # {}
  <2> DEFINE q == <<n + 1, 1>>
  <2>1. q \in Places(g, d) /\ q \notin Places(t, d)
    BY <1>2, <1>12, Sizes
  <2>2. At(g, d, q).ino = 0
    BY <2>1, <1>14, <1>16
  <2> HIDE DEF q
  <2> QED BY <2>1, <2>2 DEF FreeSlots
<1>22. Shows(g, U, D, G, P, L, [B EXCEPT ![d] = Append(@, b)])
  <2> DEFINE C == [B EXCEPT ![d] = Append(@, b)]
  <2>1. C = BlockLists(g)
    BY <1>11
  <2> HIDE DEF C
  <2>2. Shows(g, U, D, G, P, L, C)
    BY <2>1, <1>1, <1>9, <1>10, <1>18, <1>19, <1>20 DEF Shows
  <2> QED BY <2>2 DEF C
<1> QED BY <1>21, <1>22 DEF g

(* The first of some places is one of them.                                *)
LEMMA FirstIn ==
  ASSUME NEW S \in SUBSET (Nat \X Nat), S # {}
  PROVE  First(S) \in S /\ \A q \in S \ {First(S)} : Before(First(S), q)
<1> DEFINE A == {p[1] : p \in S}
<1>1. A \in SUBSET Nat /\ A # {}
  OBVIOUS
<1>2. PICK a \in A : \A x \in A : a <= x
  <2> HIDE DEF A
  <2> QED BY <1>1, LeastOne
<1> DEFINE R == {p[2] : p \in {q \in S : q[1] = a}}
<1>3. R \in SUBSET Nat /\ R # {}
  OBVIOUS
<1>4. PICK k \in R : \A x \in R : k <= x
  <2> HIDE DEF R
  <2> QED BY <1>3, LeastOne
<1>5. PICK p \in S : p[1] = a /\ p[2] = k
  OBVIOUS
<1>6. ASSUME NEW q \in S, q # p PROVE Before(p, q)
  <2>1. p = <<p[1], p[2]>> /\ q = <<q[1], q[2]>> /\ {p[1], p[2], q[1], q[2]} \subseteq Nat
    OBVIOUS
  <2>2. p[1] <= q[1]
    BY <1>2, <1>5
  <2>3. q[1] = p[1] => p[2] <= q[2]
    BY <1>4, <1>5
  <2>4. q[1] = p[1] => p[2] # q[2]
    BY <1>6, <2>1
  <2> QED BY <2>1, <2>2, <2>3, <2>4 DEF Before
<1>7. \E x \in S : \A q \in S \ {x} : Before(x, q)
  BY <1>6
<1> QED BY <1>7, Zenon DEF First

LEMMA FirstPlace ==
  ASSUME NEW t \in Tables, NEW d \in Inodes, NEW S \in SUBSET Places(t, d), S # {}
  PROVE  First(S) \in S /\ First(S) \in Places(t, d)
<1>1. Places(t, d) \subseteq Nat \X Nat
  BY Rows, Sizes DEF Places, Slots
<1> QED BY <1>1, FirstIn
---------------------------------------------------------------------------
(* The operations on a directory, as changes of what the table shows.      *)

LEMMA SlotOfName ==
  ASSUME NEW t, NEW U, NEW D, NEW G, NEW P, NEW L, NEW B, Shows(t, U, D, G, P, L, B),
         NEW d \in D, NEW n \in Names, NEW q \in Named(t, d, n)
  PROVE  <<d, q, n, At(t, d, q).ino>> \in G
<1>1. t \in Tables /\ Formed(t) /\ d \in Dirs(t) /\ D = Dirs(t) /\ G = Entries(t) /\ d \in Inodes
  BY DEF Shows, Dirs
<1>2. q \in Places(t, d) /\ At(t, d, q).name = n
  BY DEF Named
<1>3. n # "" /\ n # "." /\ n # ".."
  BY NamesAre
<1>4. q # SelfPlace /\ q # UpPlace
  <2>1. At(t, d, SelfPlace) = Entry(".", d) /\ At(t, d, UpPlace).name = ".."
    BY <1>1 DEF DirFormed, Formed, Dirs
  <2>2. At(t, d, SelfPlace).name = "."
    BY <2>1 DEF Entry
  <2> QED BY <2>1, <2>2, <1>2, <1>3
<1>5. At(t, d, q).ino # 0 /\ At(t, d, q) = Entry(n, At(t, d, q).ino)
  BY <1>1, <1>2, <1>3, <1>4, Elsewhere
<1>6. At(t, d, q).ino \in Inodes
  <2>1. At(t, d, q).ino \in 0..NInodes
    BY <1>1, <1>2, PlaceIn
  <2> QED BY <1>5, <2>1, Sizes DEF Inodes
<1> QED BY <1>1, <1>2, <1>5, <1>6, EntryIn

LEMMA FirstOfOne == ASSUME NEW p PROVE First({p}) = p
BY DEF First

LEMMA NamedOne ==
  ASSUME NEW t, NEW U, NEW D, NEW G, NEW P, NEW L, NEW B, Shows(t, U, D, G, P, L, B),
         NEW d, NEW p, NEW n, NEW c, <<d, p, n, c>> \in G,
         \A y \in G : y[1] = d /\ y[3] = n => y = <<d, p, n, c>>
  PROVE  First(Named(t, d, n)) = p /\ p \in Places(t, d) /\ Lookup(t, d, n) = c
<1>1. t \in Tables /\ Formed(t) /\ D = Dirs(t) /\ G = Entries(t)
  BY DEF Shows
<1>2. d \in D /\ p \in Places(t, d) /\ n \in Names /\ At(t, d, p) = Entry(n, c)
  BY <1>1, EntryIn
<1>3. At(t, d, p).name = n /\ At(t, d, p).ino = c
  BY <1>2 DEF Entry
<1>4. p \in Named(t, d, n)
  BY <1>2, <1>3 DEF Named
<1>5. ASSUME NEW q \in Named(t, d, n) PROVE q = p
  <2>1. <<d, q, n, At(t, d, q).ino>> \in G
    BY <1>2, SlotOfName
  <2> QED BY <2>1
<1>6. Named(t, d, n) = {p}
  BY <1>4, <1>5
<1>7. First(Named(t, d, n)) = p
  BY <1>6, FirstOfOne
<1> QED BY <1>2, <1>3, <1>6, <1>7 DEF Lookup

LEMMA LookupNone ==
  ASSUME NEW t, NEW U, NEW D, NEW G, NEW P, NEW L, NEW B, Shows(t, U, D, G, P, L, B),
         NEW d \in D, NEW n \in Names
  PROVE  (\A y \in G : ~(y[1] = d /\ y[3] = n)) => Lookup(t, d, n) = 0
<1> SUFFICES ASSUME \A y \in G : ~(y[1] = d /\ y[3] = n) PROVE Lookup(t, d, n) = 0
  OBVIOUS
<1>1. ASSUME NEW q \in Named(t, d, n) PROVE FALSE
  <2>1. <<d, q, n, At(t, d, q).ino>> \in G
    BY SlotOfName
  <2> QED BY <2>1
<1> QED BY <1>1 DEF Lookup

(* What Lookup finds, when names are unique.                               *)
Unique(G) == \A x, y \in G : x[1] = y[1] /\ x[3] = y[3] => x = y

LEMMA LookupIs ==
  ASSUME NEW t, NEW U, NEW D, NEW G, NEW P, NEW L, NEW B, Shows(t, U, D, G, P, L, B),
         Unique(G), NEW d \in D, NEW n \in Names
  PROVE  /\ Lookup(t, d, n) = 0 <=> (\A y \in G : ~(y[1] = d /\ y[3] = n))
         /\ \A y \in G : y[1] = d /\ y[3] = n => y[4] = Lookup(t, d, n)
         /\ Lookup(t, d, n) # 0 =>
              \E p \in AllPlaces : <<d, p, n, Lookup(t, d, n)>> \in G
<1>1. ASSUME NEW y \in G, y[1] = d, y[3] = n
      PROVE  /\ y = <<d, y[2], n, y[4]>> /\ y[4] = Lookup(t, d, n) /\ y[2] \in AllPlaces
             /\ Lookup(t, d, n) \in Inodes
  <2>1. y = <<d, y[2], n, y[4]>> /\ y[2] \in AllPlaces /\ y[4] \in Inodes
    BY <1>1 DEF Shows, Entries
  <2> DEFINE p == y[2]
             c == y[4]
  <2>2. <<d, p, n, c>> \in G /\ \A z \in G : z[1] = d /\ z[3] = n => z = <<d, p, n, c>>
    BY <1>1, <2>1 DEF Unique
  <2> HIDE DEF p, c
  <2>3. Lookup(t, d, n) = c
    BY <2>2, NamedOne
  <2> QED BY <2>1, <2>3 DEF p, c
<1>2. \A y \in G : y[1] = d /\ y[3] = n => y[4] = Lookup(t, d, n) /\ Lookup(t, d, n) # 0
  BY <1>1, Sizes
<1>3. Lookup(t, d, n) # 0 => \E p \in AllPlaces : <<d, p, n, Lookup(t, d, n)>> \in G
  <2> SUFFICES ASSUME Lookup(t, d, n) # 0
               PROVE  \E p \in AllPlaces : <<d, p, n, Lookup(t, d, n)>> \in G
    OBVIOUS
  <2>1. PICK y \in G : y[1] = d /\ y[3] = n
    BY LookupNone
  <2> QED BY <2>1, <1>1
<1> QED BY <1>2, <1>3, LookupNone

LEMMA LookupUp ==
  ASSUME NEW t, NEW U, NEW D, NEW G, NEW P, NEW L, NEW B, Shows(t, U, D, G, P, L, B),
         NEW d \in D
  PROVE  /\ First(Named(t, d, "..")) = UpPlace /\ UpPlace \in Places(t, d)
         /\ Lookup(t, d, "..") = P[d]
<1>1. t \in Tables /\ Formed(t) /\ D = Dirs(t) /\ P = Parent(t) /\ d \in Dirs(t)
  BY DEF Shows
<1>2. /\ SelfPlace \in Places(t, d) /\ UpPlace \in Places(t, d) /\ SelfPlace # UpPlace
      /\ At(t, d, SelfPlace) = Entry(".", d) /\ At(t, d, UpPlace) = Entry("..", P[d])
  BY <1>1, Dotted
<1>3. At(t, d, SelfPlace).name = "." /\ At(t, d, UpPlace).name = ".."
      /\ At(t, d, UpPlace).ino = P[d]
  BY <1>2 DEF Entry
<1>4. ASSUME NEW q \in Places(t, d), At(t, d, q).name = ".." PROVE q = UpPlace
  <2>1. CASE q \notin {SelfPlace, UpPlace}
    <3>1. At(t, d, q).name \in Names \cup {""}
      BY <2>1, <1>1, Elsewhere
    <3> QED BY <3>1, <1>4, NamesAre
  <2>2. CASE q = SelfPlace
    BY <2>2, <1>3, <1>4
  <2> QED BY <2>1, <2>2
<1>5. Named(t, d, "..") = {UpPlace}
  BY <1>2, <1>3, <1>4 DEF Named
<1>6. First(Named(t, d, "..")) = UpPlace
  BY <1>5, FirstOfOne
<1> QED BY <1>2, <1>3, <1>5, <1>6 DEF Lookup

LEMMA ShowsRemoved ==
  ASSUME NEW t, NEW U, NEW D, NEW G, NEW P, NEW L, NEW B, Shows(t, U, D, G, P, L, B),
         NEW d, NEW p, NEW n, NEW c, <<d, p, n, c>> \in G,
         \A y \in G : y[1] = d /\ y[3] = n => y = <<d, p, n, c>>
  PROVE  Shows(RemoveEntry(t, d, n), U, D, G \ {<<d, p, n, c>>}, P, L, B)
<1>1. First(Named(t, d, n)) = p /\ p \in Places(t, d)
  BY NamedOne
<1>2. t \in Tables /\ d \in Inodes
  BY DEF Shows, Entries, Dirs
<1>3. NoEntry \in DirEntries
  BY Sizes DEF NoEntry, DirEntries
<1>4. RemoveEntry(t, d, n) = PutEntry(t, d, p, NoEntry)
  BY <1>1, Zenon DEF RemoveEntry
<1>5. Wrote(t, RemoveEntry(t, d, n), d, p, NoEntry)
  BY <1>1, <1>2, <1>3, <1>4, Put
<1> QED BY <1>5, ShowsErased

LEMMA ShowsSetUp ==
  ASSUME NEW t, NEW U, NEW D, NEW G, NEW P, NEW L, NEW B, Shows(t, U, D, G, P, L, B),
         NEW d \in D, NEW e \in Inodes
  PROVE  Shows(SetEntryInode(t, d, "..", e), U, D, G, [P EXCEPT ![d] = e], L, B)
<1>1. First(Named(t, d, "..")) = UpPlace /\ UpPlace \in Places(t, d)
  BY LookupUp
<1>2. t \in Tables /\ d \in Inodes
  BY DEF Shows, Dirs
<1>3. Entry("..", e) \in DirEntries
  BY Sizes DEF Entry, DirEntries, Inodes
<1>4. SetEntryInode(t, d, "..", e) = PutEntry(t, d, UpPlace, Entry("..", e))
  BY <1>1, Zenon DEF SetEntryInode
<1> DEFINE y == Entry("..", e)
<1> HIDE DEF y
<1>5. Wrote(t, PutEntry(t, d, UpPlace, y), d, UpPlace, y)
  BY <1>1, <1>2, <1>3, Put DEF y
<1> QED BY <1>4, <1>5, ShowsUp DEF y

(* A name is added, in a free slot or in a new block.                      *)
LEMMA ShowsPutName ==
  ASSUME NEW t, NEW U, NEW D, NEW G, NEW P, NEW L, NEW B, Shows(t, U, D, G, P, L, B),
         NEW d \in D, NEW n \in Names, NEW c \in Inodes, FreeSlots(t, d) # {},
         NEW p, p = First(FreeSlots(t, d)),
         NEW u, u = PutEntry(t, d, p, Entry(n, c))
  PROVE  /\ p \in AllPlaces /\ <<d, p, n, c>> \notin G
         /\ Shows(u, U, D, G \cup {<<d, p, n, c>>}, P, L, B)
<1>1. t \in Tables /\ d \in Inodes
  BY DEF Shows, Dirs
<1>2. p \in Places(t, d) /\ At(t, d, p).ino = 0
  <2>1. FreeSlots(t, d) \in SUBSET Places(t, d)
    BY DEF FreeSlots
  <2>2. p \in FreeSlots(t, d) /\ p \in Places(t, d)
    BY <1>1, <2>1, FirstPlace
  <2> QED BY <2>2 DEF FreeSlots
<1>3. Entry(n, c) \in DirEntries
  <2>1. c \in 0..NInodes
    BY Sizes DEF Inodes
  <2>2. n \in Names \cup {"", ".", ".."}
    OBVIOUS
  <2> QED BY <2>1, <2>2, EntryTyped
<1> DEFINE y == Entry(n, c)
<1> HIDE DEF y
<1>4. Wrote(t, PutEntry(t, d, p, y), d, p, y)
  BY <1>1, <1>2, <1>3, Put DEF y
<1>5. Wrote(t, u, d, p, Entry(n, c))
  BY <1>4 DEF y
<1> QED BY <1>2, <1>5, ShowsWritten

WithBlock(B, d, b) == [B EXCEPT ![d] = Append(@, b)]
MaybeGrown(v, t, d, B, C) ==
  \/ C = B /\ AddedVolume(v, t, d) = v
  \/ C = WithBlock(B, d, NewBlock(v)) /\ AddedVolume(v, t, d) = AllocBlock(v) /\ BlockLeft(v)
ShowsMore(t, u, v, x, U, D, G, P, L, B, C) ==
  x \notin G /\ Shows(u, U, D, G \cup {x}, P, L, C) /\ MaybeGrown(v, t, x[1], B, C)

LEMMA ShowsAdded ==
  ASSUME NEW t, NEW U, NEW D, NEW G, NEW P, NEW L, NEW B, Shows(t, U, D, G, P, L, B),
         NEW d \in D, NEW n \in Names, NEW c \in Inodes, NEW v, CanAdd(v, t, d),
         NewBlock(v) \in Blocks \/ ~BlockLeft(v)
  PROVE  \E p \in AllPlaces : \E C :
           ShowsMore(t, AddedTable(v, t, d, n, c), v, <<d, p, n, c>>, U, D, G, P, L, B, C)
<1>1. CASE FreeSlots(t, d) # {}
  <2> DEFINE p == First(FreeSlots(t, d))
             u == PutEntry(t, d, p, Entry(n, c))
  <2>1. AddedTable(v, t, d, n, c) = u /\ AddedVolume(v, t, d) = v
    BY <1>1, Zenon DEF AddedTable, AddedVolume
  <2> HIDE DEF p, u
  <2>2. /\ p \in AllPlaces /\ <<d, p, n, c>> \notin G
        /\ Shows(u, U, D, G \cup {<<d, p, n, c>>}, P, L, B)
    BY <1>1, ShowsPutName DEF p, u
  <2>3. MaybeGrown(v, t, d, B, B)
    BY <2>1 DEF MaybeGrown
  <2>4. ShowsMore(t, u, v, <<d, p, n, c>>, U, D, G, P, L, B, B)
    BY <2>2, <2>3 DEF ShowsMore
  <2> QED BY <2>1, <2>2, <2>4
<1>2. CASE FreeSlots(t, d) = {}
  <2> DEFINE b == NewBlock(v)
             g == Grown(t, d, b)
             p == First(FreeSlots(g, d))
             u == PutEntry(g, d, p, Entry(n, c))
             C == [B EXCEPT ![d] = Append(@, b)]
  <2>0. Len(t[d].blocks) < MaxDirBlocks /\ BlockLeft(v) /\ b \in Blocks
    BY <1>2 DEF CanAdd, CanGrow
  <2>1. AddedTable(v, t, d, n, c) = u /\ AddedVolume(v, t, d) = AllocBlock(v)
    BY <1>2, Zenon DEF AddedTable, AddedVolume
  <2>2. Shows(g, U, D, G, P, L, C) /\ FreeSlots(g, d) # {}
    <3> HIDE DEF b
    <3> QED BY <2>0, ShowsGrown
  <2> HIDE DEF p, u, g, C
  <2>3. /\ p \in AllPlaces /\ <<d, p, n, c>> \notin G
        /\ Shows(u, U, D, G \cup {<<d, p, n, c>>}, P, L, C)
    BY <2>2, ShowsPutName DEF p, u
  <2>4. C = WithBlock(B, d, NewBlock(v))
    BY DEF C, WithBlock
  <2>5. MaybeGrown(v, t, d, B, C)
    BY <2>0, <2>1, <2>4 DEF MaybeGrown
  <2>6. ShowsMore(t, u, v, <<d, p, n, c>>, U, D, G, P, L, B, C)
    BY <2>3, <2>5 DEF ShowsMore
  <2> QED BY <2>1, <2>3, <2>6
<1> QED BY <1>1, <1>2
---------------------------------------------------------------------------
(* A row is written: its link count, or all of it.                         *)

LEMMA ShowsLinks ==
  ASSUME NEW t, NEW U, NEW D, NEW G, NEW P, NEW L, NEW B, Shows(t, U, D, G, P, L, B),
         NEW i \in U, NEW m \in Counts, NEW u, u = [t EXCEPT ![i].links = m]
  PROVE  Shows(u, U, D, G, P, [L EXCEPT ![i] = m], B)
<1> DEFINE r == Row(t[i].kind, m, t[i].blocks, t[i].dir)
<1>1. t \in Tables /\ Formed(t) /\ i \in Inodes /\ t[i].kind # "free"
      /\ U = Used(t) /\ D = Dirs(t) /\ G = Entries(t) /\ P = Parent(t)
      /\ L = LinkCounts(t) /\ B = BlockLists(t)
  BY DEF Shows, Used
<1>2. r \in Records /\ r.kind = t[i].kind /\ r.links = m
      /\ r.blocks = t[i].blocks /\ r.dir = t[i].dir
  BY <1>1, Rows, RowTyped
<1>3. u = [t EXCEPT ![i] = r]
  <2>1. t[i] = Row(t[i].kind, t[i].links, t[i].blocks, t[i].dir)
    BY <1>1, Rows
  <2>2. Relinked(t[i], m) = r
    BY <2>1, RowLinks
  <2>3. u = [t EXCEPT ![i] = Relinked(t[i], m)]
    BY <1>1 DEF Relinked, Tables
  <2> QED BY <2>2, <2>3
<1> HIDE DEF r
<1>4. u \in Tables /\ u[i] = r /\ \A j \in Inodes : j # i => u[j] = t[j]
  BY <1>1, <1>2, <1>3 DEF Tables
<1>5. \A j \in Inodes :
        /\ u[j].kind = t[j].kind /\ u[j].blocks = t[j].blocks /\ u[j].dir = t[j].dir
        /\ u[j].links = IF j = i THEN m ELSE t[j].links
  BY <1>2, <1>4
<1>6. \A j \in Inodes : /\ Places(u, j) = Places(t, j)
                        /\ \A p : At(u, j, p) = At(t, j, p)
  BY <1>5 DEF Places, At
<1>7. \A j \in Inodes : DirFormed(u, j) <=> DirFormed(t, j)
  BY <1>5, <1>6, ZenonT(40) DEF DirFormed
<1>8. Formed(u)
  <2>1. ASSUME NEW j \in Inodes
        PROVE  /\ u[j].kind = "free" => u[j] = Deleted
               /\ u[j].kind # "dir" => u[j].dir = <<>>
               /\ u[j].kind = "dir" => DirFormed(u, j)
    <3>1. /\ t[j].kind = "free" => t[j] = Deleted
          /\ t[j].kind # "dir" => t[j].dir = <<>>
          /\ t[j].kind = "dir" => DirFormed(t, j)
      BY <1>1 DEF Formed
    <3>2. u[j].kind = "free" => j # i
      BY <1>1, <1>5
    <3> QED BY <3>1, <3>2, <1>4, <1>5, <1>7
  <2> QED BY <2>1 DEF Formed
<1>9. Used(u) = Used(t) /\ Dirs(u) = Dirs(t) /\ BlockLists(u) = BlockLists(t)
  BY <1>5 DEF Used, Dirs, BlockLists
<1>10. Parent(u) = Parent(t)
  BY <1>6, <1>9 DEF Parent, Dirs
<1>11. [L EXCEPT ![i] = m] = LinkCounts(u)
  BY <1>1, <1>5 DEF LinkCounts
<1>12. G = Entries(u)
  <2>1. \A a \in Dirs(t) : Places(u, a) = Places(t, a) /\ \A p : At(u, a, p) = At(t, a, p)
    BY <1>6 DEF Dirs
  <2> QED BY <2>1, <1>1, <1>9 DEF Entries
<1> DEFINE K == [L EXCEPT ![i] = m]
<1> HIDE DEF K
<1>13. Shows(u, U, D, G, P, K, B)
  BY <1>1, <1>4, <1>8, <1>9, <1>10, <1>11, <1>12 DEF Shows, K
<1> QED BY <1>13 DEF K

Replaced(t, u, i, r) ==
  u \in Tables /\ u[i] = r /\ \A j \in Inodes : j # i => u[j] = t[j]

LEMMA ReplacedIs ==
  ASSUME NEW t \in Tables, NEW u, NEW i \in Inodes, NEW r, Replaced(t, u, i, r)
  PROVE  u = [t EXCEPT ![i] = r]
BY DEF Replaced, Tables

LEMMA Replacing ==
  ASSUME NEW t \in Tables, NEW i \in Inodes, NEW r \in Records
  PROVE  Replaced(t, [t EXCEPT ![i] = r], i, r)
BY DEF Tables, Replaced

LEMMA ShowsRow ==
  ASSUME NEW t, NEW U, NEW D, NEW G, NEW P, NEW L, NEW B, Shows(t, U, D, G, P, L, B),
         NEW i \in Inodes, NEW r, \A x \in G : x[1] # i, NEW u, Replaced(t, u, i, r),
         r.kind = "free" => r = Deleted, r.kind # "dir" => r.dir = <<>>,
         r.kind = "dir" =>
           DirFormed(u, i) /\ \A p \in Places(u, i) : At(u, i, p).name \notin Names
  PROVE  /\ Shows(u, Used(u), Dirs(u), G, Parent(u), LinkCounts(u), BlockLists(u))
         /\ \A j \in Inodes : j # i => /\ j \in Used(u) <=> j \in U
                                       /\ j \in Dirs(u) <=> j \in D
                                       /\ j \in D => Parent(u)[j] = P[j]
                                       /\ LinkCounts(u)[j] = L[j]
                                       /\ BlockLists(u)[j] = B[j]
         /\ i \in Used(u) <=> r.kind # "free"
         /\ i \in Dirs(u) <=> r.kind = "dir"
         /\ r.kind = "dir" => Parent(u)[i] = At(u, i, UpPlace).ino
         /\ LinkCounts(u)[i] = r.links /\ BlockLists(u)[i] = r.blocks
<1>1. t \in Tables /\ Formed(t)
      /\ U = Used(t) /\ D = Dirs(t) /\ G = Entries(t) /\ P = Parent(t)
      /\ L = LinkCounts(t) /\ B = BlockLists(t)
  BY DEF Shows
<1>2. u \in Tables /\ u[i] = r /\ \A j \in Inodes : j # i => u[j] = t[j]
  BY DEF Replaced
<1>3. ASSUME NEW j \in Inodes, j # i
      PROVE  /\ Places(u, j) = Places(t, j)
             /\ \A p : At(u, j, p) = At(t, j, p)
             /\ DirFormed(u, j) <=> DirFormed(t, j)
  <2>1. u[j] = t[j]
    BY <1>2, <1>3
  <2> QED BY <2>1, SameRow
<1>4. Formed(u)
  <2>1. ASSUME NEW j \in Inodes
        PROVE  /\ u[j].kind = "free" => u[j] = Deleted
               /\ u[j].kind # "dir" => u[j].dir = <<>>
               /\ u[j].kind = "dir" => DirFormed(u, j)
    <3>1. CASE j = i
      BY <3>1, <1>2
    <3>2. CASE j # i
      BY <3>2, <1>1, <1>2, <1>3 DEF Formed
    <3> QED BY <3>1, <3>2
  <2> QED BY <2>1 DEF Formed
<1>5. G = Entries(u)
  <2>1. G \in SUBSET (Inodes \X AllPlaces \X Names \X Inodes)
    BY <1>1 DEF Entries, Dirs
  <2>2. ASSUME NEW a, NEW q, NEW m, NEW x
        PROVE  <<a, q, m, x>> \in G <=>
                 /\ a \in Dirs(u) /\ q \in Places(u, a) /\ m \in Names /\ x \in Inodes
                 /\ At(u, a, q) = Entry(m, x)
    <3>1. CASE a = i
      <4>1. <<a, q, m, x>> \notin G
        BY <3>1
      <4>2. a \in Dirs(u) => r.kind = "dir"
        BY <3>1, <1>2 DEF Dirs
      <4>3. At(u, a, q) = Entry(m, x) => At(u, a, q).name = m
        BY DEF Entry
      <4> QED BY <3>1, <4>1, <4>2, <4>3
    <3>2. CASE a # i
      <4>1. a \in Dirs(u) <=> a \in Dirs(t)
        BY <3>2, <1>2 DEF Dirs
      <4>2. a \in Dirs(t) => Places(u, a) = Places(t, a) /\ At(u, a, q) = At(t, a, q)
        BY <3>2, <1>3 DEF Dirs
      <4>3. <<a, q, m, x>> \in Entries(t) <=>
              /\ a \in Dirs(t) /\ q \in Places(t, a) /\ m \in Names /\ x \in Inodes
              /\ At(t, a, q) = Entry(m, x)
        BY <1>1, EntryIn
      <4> QED BY <4>1, <4>2, <4>3, <1>1
    <3> QED BY <3>1, <3>2
  <2> QED BY <2>1, <2>2, <1>2, <1>4, EntriesAre
<1>6. Shows(u, Used(u), Dirs(u), G, Parent(u), LinkCounts(u), BlockLists(u))
  BY <1>2, <1>4, <1>5 DEF Shows
<1>7. ASSUME NEW j \in Inodes, j # i
      PROVE  /\ j \in Used(u) <=> j \in U
             /\ j \in Dirs(u) <=> j \in D
             /\ j \in D => Parent(u)[j] = P[j]
             /\ LinkCounts(u)[j] = L[j]
             /\ BlockLists(u)[j] = B[j]
  <2>1. u[j] = t[j] /\ At(u, j, UpPlace) = At(t, j, UpPlace)
    BY <1>2, <1>3, <1>7
  <2> QED BY <2>1, <1>1 DEF Used, Dirs, Parent, LinkCounts, BlockLists
<1>8. /\ i \in Used(u) <=> r.kind # "free"
      /\ i \in Dirs(u) <=> r.kind = "dir"
      /\ r.kind = "dir" => Parent(u)[i] = At(u, i, UpPlace).ino
      /\ LinkCounts(u)[i] = r.links /\ BlockLists(u)[i] = r.blocks
  BY <1>2 DEF Used, Dirs, Parent, LinkCounts, BlockLists
<1> QED BY <1>6, <1>7, <1>8

LEMMA Functions ==
  ASSUME NEW t
  PROVE  /\ Parent(t) = [c \in Dirs(t) |-> Parent(t)[c]]
         /\ LinkCounts(t) = [i \in Inodes |-> LinkCounts(t)[i]]
         /\ BlockLists(t) = [i \in Inodes |-> BlockLists(t)[i]]
         /\ Used(t) \subseteq Inodes /\ Dirs(t) \subseteq Used(t)
BY DEF Parent, LinkCounts, BlockLists, Used, Dirs

LEMMA ShownFunctions ==
  ASSUME NEW t, NEW U, NEW D, NEW G, NEW P, NEW L, NEW B, Shows(t, U, D, G, P, L, B)
  PROVE  /\ P = [c \in D |-> P[c]]
         /\ L = [i \in Inodes |-> L[i]] /\ B = [i \in Inodes |-> B[i]]
         /\ U \subseteq Inodes /\ D \subseteq U /\ \A x \in G : x[1] \in D
         /\ t \in Tables
  <1>1. /\ t \in Tables /\ U = Used(t) /\ D = Dirs(t) /\ G = Entries(t) /\ P = Parent(t)
        /\ L = LinkCounts(t) /\ B = BlockLists(t)
    BY DEF Shows
  <1>2. \A x \in G : x[1] \in D
    BY <1>1 DEF Entries
  <1> QED BY <1>1, <1>2, Functions

(* A new file, a new directory, and a row that is blank again.             *)
LEMMA ShowsNewFile ==
  ASSUME NEW t, NEW U, NEW D, NEW G, NEW P, NEW L, NEW B, Shows(t, U, D, G, P, L, B),
         NEW i \in Inodes \ U, NEW r \in Records, r.kind \in {"reg", "link"},
         r.dir = <<>>, NEW u, Replaced(t, u, i, r)
  PROVE  Shows(u, U \cup {i}, D, G, P, [L EXCEPT ![i] = r.links], [B EXCEPT ![i] = r.blocks])
<1>1. /\ P = [c \in D |-> P[c]] /\ L = [j \in Inodes |-> L[j]] /\ B = [j \in Inodes |-> B[j]]
      /\ U \subseteq Inodes /\ D \subseteq U /\ \A x \in G : x[1] \in D
  BY ShownFunctions
<1>2. i \notin D /\ r.kind # "free" /\ r.kind # "dir" /\ \A x \in G : x[1] # i
  BY <1>1
<1> DEFINE UU == Used(u)
           DD == Dirs(u)
           PP == Parent(u)
           LL == LinkCounts(u)
           BB == BlockLists(u)
<1>3. /\ Shows(u, UU, DD, G, PP, LL, BB)
      /\ \A j \in Inodes : j # i => /\ j \in UU <=> j \in U
                                    /\ j \in DD <=> j \in D
                                    /\ j \in D => PP[j] = P[j]
                                    /\ LL[j] = L[j] /\ BB[j] = B[j]
      /\ i \in UU /\ i \notin DD /\ LL[i] = r.links /\ BB[i] = r.blocks
  BY <1>2, ShowsRow
<1>4. /\ PP = [c \in DD |-> PP[c]] /\ LL = [j \in Inodes |-> LL[j]]
      /\ BB = [j \in Inodes |-> BB[j]] /\ UU \subseteq Inodes /\ DD \subseteq UU
  BY Functions
<1> HIDE DEF UU, DD, PP, LL, BB
<1>5. UU = U \cup {i} /\ DD = D
  BY <1>1, <1>2, <1>3, <1>4
<1>6. PP = P
  BY <1>1, <1>2, <1>3, <1>4, <1>5
<1>7. LL = [L EXCEPT ![i] = r.links]
  BY <1>1, <1>3, <1>4
<1>8. BB = [B EXCEPT ![i] = r.blocks]
  BY <1>1, <1>3, <1>4
<1> QED BY <1>3, <1>5, <1>6, <1>7, <1>8

LEMMA NewDirRow ==
  ASSUME NEW i \in Inodes, NEW d \in Inodes, NEW b \in Blocks
  PROVE  /\ NewDir(i, d, b) \in Records
         /\ NewDir(i, d, b).kind = "dir" /\ NewDir(i, d, b).links = 2
         /\ NewDir(i, d, b).blocks = <<b>> /\ NewDir(i, d, b).dir = <<Dots(i, d)>>
         /\ Dots(i, d)[1] = Entry(".", i) /\ Dots(i, d)[2] = Entry("..", d)
         /\ \A k \in Slots : k \notin {1, 2} => Dots(i, d)[k] = NoEntry
<1> DEFINE blk == Dots(i, d)
           e == Entry(".", i)
           f == Entry("..", d)
           z == <<blk>>
           r == Row("dir", 2, <<b>>, z)
<1>1. e \in DirEntries /\ f \in DirEntries /\ NoEntry \in DirEntries
  BY Sizes DEF Entry, NoEntry, DirEntries, Inodes
<1>2. EmptyBlock \in [Slots -> DirEntries] /\ \A k \in Slots : EmptyBlock[k] = NoEntry
  BY <1>1 DEF EmptyBlock
<1>3. blk = [EmptyBlock EXCEPT ![1] = e, ![2] = f]
  BY Zenon DEF Dots
<1>4. 1 \in Slots /\ 2 \in Slots
  BY Sizes
<1> HIDE DEF e, f, blk
<1>5. blk = [[EmptyBlock EXCEPT ![1] = e] EXCEPT ![2] = f]
  BY <1>2, <1>3, <1>4
<1>6. /\ blk \in [Slots -> DirEntries] /\ blk[1] = e /\ blk[2] = f
      /\ \A k \in Slots : k \notin {1, 2} => blk[k] = NoEntry
  BY <1>1, <1>2, <1>4, <1>5
<1>7. z \in Seq(DirBlocks) /\ <<b>> \in Seq(Blocks) /\ "dir" \in Kinds /\ 2 \in Counts
  BY <1>6, SmallCounts DEF Kinds, DirBlocks
<1>8. r \in Records /\ r.kind = "dir" /\ r.links = 2 /\ r.blocks = <<b>> /\ r.dir = z
  BY <1>7 DEF Row, Records
<1>9. NewDir(i, d, b) = r
  BY Zenon DEF NewDir, Row, blk
<1> HIDE DEF r
<1> QED BY <1>6, <1>8, <1>9 DEF e, f, blk

DirLinks(L, i) == [L EXCEPT ![i] = 2]
OneBlockAt(B, i, b) == [B EXCEPT ![i] = <<b>>]
ShowsDir(u, U, D, G, P, L, B, i, d, b, Q) ==
  /\ Q = [c \in D \cup {i} |-> Q[c]] /\ (\A c \in D : Q[c] = P[c]) /\ Q[i] = d
  /\ Shows(u, U \cup {i}, D \cup {i}, G, Q, DirLinks(L, i), OneBlockAt(B, i, b))

LEMMA ShowsNewDir ==
  ASSUME NEW t, NEW U, NEW D, NEW G, NEW P, NEW L, NEW B, Shows(t, U, D, G, P, L, B),
         NEW i \in Inodes \ U, NEW d \in Inodes, NEW b \in Blocks,
         NEW u, Replaced(t, u, i, NewDir(i, d, b))
  PROVE  \E Q : ShowsDir(u, U, D, G, P, L, B, i, d, b, Q)
<1> DEFINE r == NewDir(i, d, b)
           blk == Dots(i, d)
           z == <<blk>>
<1>1. /\ P = [c \in D |-> P[c]] /\ L = [j \in Inodes |-> L[j]] /\ B = [j \in Inodes |-> B[j]]
      /\ U \subseteq Inodes /\ D \subseteq U /\ \A x \in G : x[1] \in D
  BY ShownFunctions
<1>2. /\ r.kind = "dir" /\ r.links = 2 /\ r.blocks = <<b>> /\ r.dir = z
      /\ blk[1] = Entry(".", i) /\ blk[2] = Entry("..", d)
      /\ \A k \in Slots : k \notin {1, 2} => blk[k] = NoEntry
  BY NewDirRow
<1>3. u \in Tables /\ u[i] = r
  BY DEF Replaced
<1> HIDE DEF r, blk
<1>4. DOMAIN z = {1} /\ z[1] = blk /\ Len(z) = 1 /\ Len(<<b>>) = 1
  OBVIOUS
<1> HIDE DEF z
<1>5. Places(u, i) = {1} \X Slots
  BY <1>2, <1>3, <1>4 DEF Places
<1>6. \A k : At(u, i, <<1, k>>) = blk[k]
  BY <1>2, <1>3, <1>4 DEF At
<1>7. At(u, i, SelfPlace) = Entry(".", i) /\ At(u, i, UpPlace) = Entry("..", d)
  BY <1>2, <1>6 DEF SelfPlace, UpPlace
<1>8. ASSUME NEW p \in Places(u, i), p # SelfPlace, p # UpPlace PROVE At(u, i, p) = NoEntry
  <2>1. PICK k \in Slots : p = <<1, k>>
    BY <1>5
  <2>2. k # 1 /\ k # 2
    BY <1>8, <2>1 DEF SelfPlace, UpPlace
  <2> QED BY <2>1, <2>2, <1>2, <1>6
<1>9. At(u, i, SelfPlace).name = "." /\ At(u, i, UpPlace).name = ".."
      /\ At(u, i, UpPlace).ino = d
  BY <1>7 DEF Entry
<1>10. NoEntry.name = "" /\ NoEntry.ino = 0
  BY DEF NoEntry
<1>11. DirFormed(u, i)
  <2>1. Len(u[i].dir) = 1 /\ Len(u[i].blocks) = 1
    BY <1>2, <1>3, <1>4
  <2>2. 1 \in 1..MaxDirBlocks
    BY Sizes
  <2>3. \A p \in Places(u, i) \ {SelfPlace, UpPlace} :
          /\ At(u, i, p).name \in Names \cup {""}
          /\ At(u, i, p).name = "" <=> At(u, i, p).ino = 0
    BY <1>8, <1>10
  <2> QED BY <2>1, <2>2, <2>3, <1>7, <1>9 DEF DirFormed
<1>12. \A p \in Places(u, i) : At(u, i, p).name \notin Names
  <2>1. \A p \in Places(u, i) : At(u, i, p).name \in {"", ".", ".."}
    BY <1>8, <1>9, <1>10
  <2> QED BY <2>1, NamesAre
<1> DEFINE UU == Used(u)
           DD == Dirs(u)
           PP == Parent(u)
           LL == LinkCounts(u)
           BB == BlockLists(u)
<1>13. /\ Shows(u, UU, DD, G, PP, LL, BB)
       /\ \A j \in Inodes : j # i => /\ j \in UU <=> j \in U
                                     /\ j \in DD <=> j \in D
                                     /\ j \in D => PP[j] = P[j]
                                     /\ LL[j] = L[j] /\ BB[j] = B[j]
       /\ i \in UU /\ i \in DD /\ LL[i] = 2 /\ BB[i] = <<b>> /\ PP[i] = d
  <2>1. \A x \in G : x[1] # i
    BY <1>1
  <2>2. Replaced(t, u, i, r)
    BY DEF r
  <2> QED BY <2>1, <2>2, <1>2, <1>9, <1>11, <1>12, ShowsRow
<1>14. /\ PP = [c \in DD |-> PP[c]] /\ LL = [j \in Inodes |-> LL[j]]
       /\ BB = [j \in Inodes |-> BB[j]] /\ UU \subseteq Inodes /\ DD \subseteq UU
  BY Functions
<1> HIDE DEF UU, DD, PP, LL, BB
<1>15. UU = U \cup {i} /\ DD = D \cup {i} /\ i \notin D
  BY <1>1, <1>13, <1>14
<1>16. \A c \in D : PP[c] = P[c]
  BY <1>1, <1>13, <1>15
<1>17. LL = DirLinks(L, i)
  BY <1>1, <1>13, <1>14 DEF DirLinks
<1>18. BB = OneBlockAt(B, i, b)
  BY <1>1, <1>13, <1>14 DEF OneBlockAt
<1>19. PP = [c \in D \cup {i} |-> PP[c]]
  BY <1>14, <1>15
<1>20. Shows(u, U \cup {i}, D \cup {i}, G, PP, DirLinks(L, i), OneBlockAt(B, i, b))
  BY <1>13, <1>15, <1>17, <1>18
<1>21. ShowsDir(u, U, D, G, P, L, B, i, d, b, PP)
  BY <1>13, <1>16, <1>19, <1>20 DEF ShowsDir
<1> QED BY <1>21

UpWithout(P, D, i) == [c \in D \ {i} |-> P[c]]
NoLinks(L, i) == [L EXCEPT ![i] = 0]
NoBlocks(B, i) == [B EXCEPT ![i] = <<>>]

LEMMA ShowsGone ==
  ASSUME NEW t, NEW U, NEW D, NEW G, NEW P, NEW L, NEW B, Shows(t, U, D, G, P, L, B),
         NEW i \in Inodes, \A x \in G : x[1] # i, NEW u, Replaced(t, u, i, Deleted)
  PROVE  Shows(u, U \ {i}, D \ {i}, G, UpWithout(P, D, i), NoLinks(L, i), NoBlocks(B, i))
<1>1. /\ P = [c \in D |-> P[c]] /\ L = [j \in Inodes |-> L[j]] /\ B = [j \in Inodes |-> B[j]]
      /\ U \subseteq Inodes /\ D \subseteq U
  BY ShownFunctions
<1> DEFINE r == Deleted
<1>2. r.kind = "free" /\ r.links = 0 /\ r.blocks = <<>> /\ r.dir = <<>> /\ r = Deleted
  BY DEF Deleted
<1> HIDE DEF r
<1> DEFINE UU == Used(u)
           DD == Dirs(u)
           PP == Parent(u)
           LL == LinkCounts(u)
           BB == BlockLists(u)
<1>3. /\ Shows(u, UU, DD, G, PP, LL, BB)
      /\ \A j \in Inodes : j # i => /\ j \in UU <=> j \in U
                                    /\ j \in DD <=> j \in D
                                    /\ j \in D => PP[j] = P[j]
                                    /\ LL[j] = L[j] /\ BB[j] = B[j]
      /\ i \notin UU /\ i \notin DD /\ LL[i] = 0 /\ BB[i] = <<>>
  <2>1. Replaced(t, u, i, r)
    BY <1>2
  <2> QED BY <2>1, <1>2, ShowsRow
<1>4. /\ PP = [c \in DD |-> PP[c]] /\ LL = [j \in Inodes |-> LL[j]]
      /\ BB = [j \in Inodes |-> BB[j]] /\ UU \subseteq Inodes /\ DD \subseteq UU
  BY Functions
<1> HIDE DEF UU, DD, PP, LL, BB
<1>5. UU = U \ {i} /\ DD = D \ {i}
  BY <1>1, <1>3, <1>4
<1>6. PP = UpWithout(P, D, i)
  BY <1>1, <1>3, <1>4, <1>5 DEF UpWithout
<1>7. LL = NoLinks(L, i)
  BY <1>1, <1>3, <1>4 DEF NoLinks
<1>8. BB = NoBlocks(B, i)
  BY <1>1, <1>3, <1>4 DEF NoBlocks
<1> QED BY <1>3, <1>5, <1>6, <1>7, <1>8

(* An empty directory has no entries.                                      *)
LEMMA EmptyDir ==
  ASSUME NEW t, NEW U, NEW D, NEW G, NEW P, NEW L, NEW B, Shows(t, U, D, G, P, L, B),
         NEW d \in D
  PROVE  IsEmpty(t, d) <=> \A x \in G : x[1] # d
<1>1. t \in Tables /\ Formed(t) /\ D = Dirs(t) /\ G = Entries(t) /\ d \in Inodes
  BY DEF Shows, Dirs
<1>2. ASSUME IsEmpty(t, d), NEW x \in G, x[1] = d PROVE FALSE
  <2>1. x[2] \in Places(t, d) /\ x[3] \in Names /\ At(t, d, x[2]) = Entry(x[3], x[4])
    BY <1>1, <1>2, EntryOf
  <2>2. At(t, d, x[2]).name = x[3]
    BY <2>1 DEF Entry
  <2>3. At(t, d, x[2]).name \in {"", ".", ".."}
    BY <1>2, <2>1 DEF IsEmpty
  <2> QED BY <2>1, <2>2, <2>3, NamesAre
<1>3. ASSUME \A x \in G : x[1] # d, NEW q \in Places(t, d)
      PROVE  At(t, d, q).name \in {"", ".", ".."}
  <2> SUFFICES ASSUME At(t, d, q).name \notin {"", ".", ".."} PROVE FALSE
    OBVIOUS
  <2>1. At(t, d, q).name \in Names
    BY <1>1, PlaceIn
  <2>2. q \in Named(t, d, At(t, d, q).name)
    BY DEF Named
  <2>3. <<d, q, At(t, d, q).name, At(t, d, q).ino>> \in G
    BY <2>1, <2>2, SlotOfName
  <2> QED BY <2>3, <1>3
<1> QED BY <1>2, <1>3 DEF IsEmpty
---------------------------------------------------------------------------
(* The pieces that the operations share.                                   *)

(* The kinds of the inodes, which only a new row or a blank one changes.   *)
KindsOf(t) == [i \in Inodes |-> t[i].kind]
Rowed(t) == DOMAIN t = Inodes /\ \A i \in Inodes : "kind" \in DOMAIN t[i]
SameKinds(t, u) == Rowed(u) /\ KindsOf(u) = KindsOf(t)

LEMMA TablesRowed == ASSUME NEW t \in Tables PROVE Rowed(t)
BY DEF Tables, Records, Rowed

LEMMA RowKept ==
  ASSUME NEW t, Rowed(t), NEW d \in Inodes, NEW r, "kind" \in DOMAIN r, r.kind = t[d].kind
  PROVE  SameKinds(t, [t EXCEPT ![d] = r])
<1> DEFINE u == [t EXCEPT ![d] = r]
<1>1. DOMAIN u = Inodes /\ \A i \in Inodes : u[i] = IF i = d THEN r ELSE t[i]
  BY DEF Rowed
<1> HIDE DEF u
<1>2. \A i \in Inodes : u[i].kind = t[i].kind /\ "kind" \in DOMAIN u[i]
  BY <1>1 DEF Rowed
<1>3. KindsOf(u) = KindsOf(t)
  BY <1>2 DEF KindsOf
<1>4. SameKinds(t, u)
  BY <1>1, <1>2, <1>3 DEF SameKinds, Rowed
<1> QED BY <1>4 DEF u

LEMMA PutKinds ==
  ASSUME NEW t, Rowed(t), NEW d \in Inodes, NEW p, NEW e
  PROVE  SameKinds(t, PutEntry(t, d, p, e))
<1> DEFINE x == [t[d].dir EXCEPT ![p[1]][p[2]] = e]
           r == [t[d] EXCEPT !.dir = x]
<1>1. PutEntry(t, d, p, e) = [t EXCEPT ![d] = r]
  BY DEF PutEntry
<1> HIDE DEF x
<1>2. "kind" \in DOMAIN r /\ r.kind = t[d].kind
  BY DEF Rowed
<1> HIDE DEF r
<1>3. SameKinds(t, [t EXCEPT ![d] = r])
  BY <1>2, RowKept
<1> QED BY <1>1, <1>3, Zenon

LEMMA LinkKinds ==
  ASSUME NEW t, Rowed(t), NEW d \in Inodes, NEW m
  PROVE  SameKinds(t, [t EXCEPT ![d].links = m])
<1> DEFINE r == [t[d] EXCEPT !.links = m]
<1>1. [t EXCEPT ![d].links = m] = [t EXCEPT ![d] = r]
  OBVIOUS
<1>2. "kind" \in DOMAIN r /\ r.kind = t[d].kind
  BY DEF Rowed
<1> HIDE DEF r
<1> QED BY <1>1, <1>2, RowKept

LEMMA GrowKinds ==
  ASSUME NEW t, Rowed(t), NEW d \in Inodes, NEW b
  PROVE  SameKinds(t, Grown(t, d, b))
<1> DEFINE y == Append(t[d].blocks, b)
           z == Append(t[d].dir, EmptyBlock)
           q == [t[d] EXCEPT !.blocks = y]
           r == [q EXCEPT !.dir = z]
           u == [t EXCEPT ![d] = q]
<1>1. "kind" \in DOMAIN q /\ q.kind = t[d].kind /\ "kind" \in DOMAIN r /\ r.kind = t[d].kind
  <2> HIDE DEF y, z
  <2> QED BY DEF Rowed
<1>2. u[d] = q /\ u[d].dir = t[d].dir
  BY DEF Rowed
<1>3. Grown(t, d, b) = [u EXCEPT ![d].dir = Append(@, EmptyBlock)]
  BY DEF Grown
<1>4. Grown(t, d, b) = [u EXCEPT ![d] = r]
  BY <1>2, <1>3
<1>5. SameKinds(t, u)
  <2> HIDE DEF q
  <2> QED BY <1>1, RowKept
<1>6. u[d].kind = r.kind
  BY <1>1, <1>2
<1> HIDE DEF u, r
<1>7. SameKinds(u, [u EXCEPT ![d] = r])
  BY <1>1, <1>5, <1>6, RowKept DEF SameKinds
<1> QED BY <1>4, <1>5, <1>7 DEF SameKinds

LEMMA AddedKinds ==
  ASSUME NEW v, NEW t, Rowed(t), NEW d \in Inodes, NEW n, NEW c
  PROVE  SameKinds(t, AddedTable(v, t, d, n, c))
<1> DEFINE e == Entry(n, c)
           p == First(FreeSlots(t, d))
           g == Grown(t, d, NewBlock(v))
           q == First(FreeSlots(g, d))
<1>1. \/ AddedTable(v, t, d, n, c) = PutEntry(t, d, p, e)
      \/ AddedTable(v, t, d, n, c) = PutEntry(g, d, q, e)
  BY Zenon DEF AddedTable
<1>2. SameKinds(t, g)
  BY GrowKinds
<1> HIDE DEF e, p, q, g
<1>3. SameKinds(t, PutEntry(t, d, p, e))
  BY PutKinds
<1>4. SameKinds(g, PutEntry(g, d, q, e))
  BY <1>2, PutKinds DEF SameKinds
<1> QED BY <1>1, <1>2, <1>3, <1>4 DEF SameKinds

LEMMA RemovedKinds ==
  ASSUME NEW t, Rowed(t), NEW d \in Inodes, NEW n
  PROVE  SameKinds(t, RemoveEntry(t, d, n))
BY PutKinds DEF RemoveEntry

LEMMA SetUpKinds ==
  ASSUME NEW t, Rowed(t), NEW d \in Inodes, NEW n, NEW c
  PROVE  SameKinds(t, SetEntryInode(t, d, n, c))
BY PutKinds DEF SetEntryInode

LEMMA NewRowKinds ==
  ASSUME NEW t \in Tables, NEW i \in Inodes, NEW r \in Records
  PROVE  /\ Rowed([t EXCEPT ![i] = r])
         /\ KindsOf([t EXCEPT ![i] = r]) = [KindsOf(t) EXCEPT ![i] = r.kind]
<1> DEFINE u == [t EXCEPT ![i] = r]
<1>1. u \in Tables /\ \A j \in Inodes : u[j] = IF j = i THEN r ELSE t[j]
  BY DEF Tables
<1> HIDE DEF u
<1>2. KindsOf(u) = [KindsOf(t) EXCEPT ![i] = r.kind]
  BY <1>1 DEF KindsOf
<1>3. Rowed(u)
  BY <1>1, TablesRowed
<1> QED BY <1>2, <1>3 DEF u

(* What the operations do with names, in an old table t and a new table u. *)
NoName(t, d, n) == \A x \in Entries(t) : ~(x[1] = d /\ x[3] = n)
FoundAs(t, d, n, x) ==
  /\ x \in Entries(t) /\ x = <<d, x[2], n, Lookup(t, d, n)>>
  /\ \A z \in Entries(t) : z[1] = d /\ z[3] = n => z = x

Enters(t, u, d, n, c) == \E p \in AllPlaces : Entries(u) = Entries(t) \cup {<<d, p, n, c>>}
MakesAs(t, u, d, n, i, k) ==
  /\ i \in Inodes \ Used(t) /\ NoName(t, d, n) /\ Enters(t, u, d, n, i)
  /\ KindsOf(u) = [KindsOf(t) EXCEPT ![i] = k]
Makes(t, u, d, n, k) == u = t \/ \E i : MakesAs(t, u, d, n, i, k)
AddsName(t, u, d, n, c) ==
  NoName(t, d, n) /\ Enters(t, u, d, n, c) /\ KindsOf(u) = KindsOf(t)
RemovesAs(t, u, d, n, x) ==
  /\ FoundAs(t, d, n, x) /\ Entries(u) = Entries(t) \ {x}
  /\ x[4] \in Dirs(t) => \A z \in Entries(t) : z[1] # x[4]
  /\ \/ KindsOf(u) = KindsOf(t) /\ \E z \in Entries(t) \ {x} : z[4] = x[4]
     \/ KindsOf(u) = [KindsOf(t) EXCEPT ![x[4]] = "free"]
        /\ \A z \in Entries(t) \ {x} : z[4] # x[4]
Removes(t, u, d, n) == \E x : RemovesAs(t, u, d, n, x)
Apart(t, e, c) ==
  \E W \in SUBSET Dirs(t) : e \in W /\ c \notin W /\ \A k \in W : Parent(t)[k] \in W
MovesAs(t, u, d, n, e, m, y, x) ==
  /\ FoundAs(t, d, n, y) /\ NoName(t, e, m)
  /\ x[1] = e /\ x[3] = m /\ x[4] = y[4] /\ x[2] \in AllPlaces
  /\ x = <<e, x[2], m, y[4]>>
  /\ Entries(u) = (Entries(t) \cup {x}) \ {y}
  /\ KindsOf(u) = KindsOf(t)
  /\ y[4] \in Dirs(t) => Apart(t, e, y[4])
Moves(t, u, d, n, e, m) == \E y, x : MovesAs(t, u, d, n, e, m, y, x)

Blank(t, i) == [t EXCEPT ![i] = Deleted]

LEMMA AddVolume ==
  ASSUME NEW v, NEW U, NEW D, NEW B, Exact(v, U, D, B), D \subseteq U, NEW d \in Inodes,
         NEW w, NEW C,
         \/ C = B /\ w = v
         \/ C = WithBlock(B, d, NewBlock(v)) /\ w = AllocBlock(v) /\ BlockLeft(v)
  PROVE  Exact(w, U, D, C)
<1>1. CASE C = B /\ w = v
  BY <1>1
<1>2. CASE C = WithBlock(B, d, NewBlock(v)) /\ w = AllocBlock(v) /\ BlockLeft(v)
  <2>1. Exact(AllocBlock(v), U, D, WithBlock(B, d, NewBlock(v)))
    BY <1>2, TakeBlock DEF WithBlock
  <2> QED BY <1>2, <2>1
<1> QED BY <1>1, <1>2

(* What a table shows when entry x is in it, with a volume that agrees.    *)
Grew(w, u, U, D, G, P, L, x, C) ==
  x \notin G /\ Shows(u, U, D, G \cup {x}, P, L, C) /\ Exact(w, U, D, C)

LEMMA NameAdded ==
  ASSUME NEW t, NEW U, NEW D, NEW G, NEW P, NEW L, NEW B, Shows(t, U, D, G, P, L, B),
         NEW v, Exact(v, U, D, B),
         NEW d \in D, NEW n \in Names, NEW c \in Inodes, CanAdd(v, t, d)
  PROVE  \E p \in AllPlaces : \E C :
           Grew(AddedVolume(v, t, d), AddedTable(v, t, d, n, c), U, D, G, P, L, <<d, p, n, c>>, C)
<1>1. D \subseteq U /\ d \in Inodes
  BY ShownFunctions
<1>2. NewBlock(v) \in Blocks \/ ~BlockLeft(v)
  BY <1>1, TakeBlock
<1>3p. PICK p \in AllPlaces : \E C :
      ShowsMore(t, AddedTable(v, t, d, n, c), v, <<d, p, n, c>>, U, D, G, P, L, B, C)
  BY <1>2, ShowsAdded
<1>3. PICK C :
      ShowsMore(t, AddedTable(v, t, d, n, c), v, <<d, p, n, c>>, U, D, G, P, L, B, C)
  BY <1>3p, Zenon
<1>3a. MaybeGrown(v, t, d, B, C)
  BY <1>3 DEF ShowsMore
<1>4. Exact(AddedVolume(v, t, d), U, D, C)
  <2> DEFINE w == AddedVolume(v, t, d)
  <2>1. \/ C = B /\ w = v
        \/ C = WithBlock(B, d, NewBlock(v)) /\ w = AllocBlock(v) /\ BlockLeft(v)
    BY <1>3a DEF MaybeGrown
  <2> HIDE DEF w
  <2>2. Exact(w, U, D, C)
    BY <1>1, <2>1, AddVolume
  <2> QED BY <2>2 DEF w
<1>5. Grew(AddedVolume(v, t, d), AddedTable(v, t, d, n, c), U, D, G, P, L, <<d, p, n, c>>, C)
  BY <1>3, <1>4 DEF Grew, ShowsMore
<1> QED BY <1>5

LEMMA GiveBack ==
  ASSUME NEW v, NEW U, NEW D, NEW B, Exact(v, U, D, B), D \subseteq U,
         NEW i \in U, NEW t, t[i].blocks = B[i], i \in D <=> t[i].kind = "dir",
         NEW V, V = U \ {i}, NEW E, E = D \ {i}, NEW C, C = NoBlocks(B, i)
  PROVE  Exact(GivenBack(v, t, i).v, V, E, C)
<1> DEFINE w == FreeAll(v, B[i])
<1>1. U \subseteq Inodes
  BY ExactIs
<1>2. Exact(w, U, D, C)
  BY <1>1, GiveBlocks DEF NoBlocks
<1>4. GivenBack(v, t, i).v = FreeInode(w, i, t[i].kind = "dir")
  BY DEF GivenBack
<1> HIDE DEF w
<1>5. CASE i \in D
  <2>1. FreeInode(w, i, t[i].kind = "dir") = GaveDir(w, i)
    BY <1>5, Zenon DEF GaveDir
  <2>2. Exact(GaveDir(w, i), U \ {i}, D \ {i}, C)
    BY <1>2, <1>5, GiveInode
  <2> QED BY <1>4, <2>1, <2>2
<1>6. CASE i \notin D
  <2>1. FreeInode(w, i, t[i].kind = "dir") = GaveFile(w, i)
    BY <1>6, Zenon DEF GaveFile, FreeInode
  <2>2. Exact(GaveFile(w, i), U \ {i}, D, C)
    BY <1>2, <1>6, GiveInode
  <2>3. D \ {i} = D
    BY <1>6
  <2> QED BY <1>4, <2>1, <2>2, <2>3
<1> QED BY <1>5, <1>6

(* A row that is not in use is blank, and blank again when given back.     *)
LEMMA BlankRow ==
  ASSUME NEW t \in Tables, Formed(t), NEW i \in Inodes \ Used(t)
  PROVE  /\ t[i] = Deleted /\ BlockLists(t)[i] = <<>> /\ t[i].kind = "free"
         /\ t[i].blocks = <<>>
         /\ \A u, r : Replaced(t, u, i, r) => Blank(u, i) = t
         /\ \A C \in [Inodes -> Seq(Blocks)] :
              (\A j \in Inodes : j # i => C[j] = BlockLists(t)[j])
                => NoBlocks(C, i) = BlockLists(t)
<1>1. t[i] = Deleted
  BY DEF Used, Formed
<1>2. BlockLists(t)[i] = <<>> /\ t[i].kind = "free" /\ t[i].blocks = <<>>
  BY <1>1 DEF BlockLists, Deleted
<1>3. ASSUME NEW u, NEW r, Replaced(t, u, i, r) PROVE Blank(u, i) = t
  <2>1. u \in Tables /\ \A j \in Inodes : j # i => u[j] = t[j]
    BY <1>3 DEF Replaced
  <2> QED BY <2>1, <1>1 DEF Tables, Blank
<1>4. ASSUME NEW C \in [Inodes -> Seq(Blocks)],
             \A j \in Inodes : j # i => C[j] = BlockLists(t)[j]
      PROVE  NoBlocks(C, i) = BlockLists(t)
  <2> DEFINE B == BlockLists(t)
  <2>1. B[i] = <<>> /\ B = [j \in Inodes |-> B[j]] /\ C = [j \in Inodes |-> C[j]]
    BY <1>2, Functions
  <2> HIDE DEF B
  <2>2. \A j \in Inodes : NoBlocks(C, i)[j] = B[j]
    BY <2>1, <1>4 DEF NoBlocks, B
  <2> QED BY <2>1, <2>2 DEF NoBlocks, B
<1> QED BY <1>1, <1>2, <1>3, <1>4

LEMMA AttachFile ==
  ASSUME NEW v0, NEW t0, StateInv(v0, t0), NEW d \in Dirs(t0), NEW n \in Names,
         \A x \in Entries(t0) : ~(x[1] = d /\ x[3] = n),
         NEW i \in Inodes \ Used(t0),
         NEW r \in Records, r.kind \in {"reg", "link"}, r.links = 1, r.dir = <<>>,
         NEW v, Exact(v, Used(t0) \cup {i}, Dirs(t0), [BlockLists(t0) EXCEPT ![i] = r.blocks]),
         NEW t, Replaced(t0, t, i, r)
  PROVE  /\ CanAdd(v, t, d) => /\ StateInv(AddedVolume(v, t, d), AddedTable(v, t, d, n, i))
                               /\ MakesAs(t0, AddedTable(v, t, d, n, i), d, n, i, r.kind)
         /\ StateInv(GivenBack(v, t, i).v, GivenBack(v, t, i).t)
         /\ GivenBack(v, t, i).t = t0
<1> DEFINE U == Used(t0)
           D == Dirs(t0)
           G == Entries(t0)
           P == Parent(t0)
           L == LinkCounts(t0)
           B == BlockLists(t0)
           U1 == U \cup {i}
           L1 == [L EXCEPT ![i] = r.links]
           B1 == [B EXCEPT ![i] = r.blocks]
<1>1. Shows(t0, U, D, G, P, L, B) /\ Tree(U, D, G, P) /\ Linked(U, D, G, L) /\ Exact(v0, U, D, B)
  BY StateShows
<1>2. t0 \in Tables /\ Formed(t0) /\ L = [j \in Inodes |-> L[j]] /\ B = [j \in Inodes |-> B[j]]
      /\ U \subseteq Inodes /\ D \subseteq U
  <2>1. t0 \in Tables /\ Formed(t0)
    BY <1>1 DEF Shows
  <2> QED BY <2>1, Functions
<1>4. t[i] = r
  BY DEF Replaced
<1>5. i \in U1 /\ i \notin D /\ D \subseteq U1 /\ U1 \ {i} = U /\ D \ {i} = D
      /\ d \in D /\ d \in Inodes
  BY <1>2
<1>6. B1[i] = r.blocks /\ L1[i] = 1 /\ \A j \in U : L1[j] = L[j]
  BY <1>2
<1>7. Blank(t, i) = t0 /\ NoBlocks(B1, i) = B
  <2>1. B1 \in [Inodes -> Seq(Blocks)] /\ \A j \in Inodes : j # i => B1[j] = B[j]
    <3>1. B \in [Inodes -> Seq(Blocks)] /\ r.blocks \in Seq(Blocks)
      BY <1>1, ExactIs DEF Records
    <3> HIDE DEF B
    <3> QED BY <3>1
  <2> HIDE DEF B1, L1
  <2> QED BY <2>1, <1>2, BlankRow
<1> HIDE DEF U, D, G, P, L, B, B1, L1
<1>8. Shows(t, U1, D, G, P, L1, B1)
  BY <1>1, ShowsNewFile DEF U, B1, L1
<1>9. Exact(v, U1, D, B1)
  BY DEF U, D, B, B1
<1>10. \A x \in G : ~(x[1] = d /\ x[3] = n)
  BY DEF G
<1>11. i \in Inodes \ U
  BY DEF U
<1> HIDE DEF U1
<1>12. ASSUME CanAdd(v, t, d)
       PROVE  /\ StateInv(AddedVolume(v, t, d), AddedTable(v, t, d, n, i))
              /\ MakesAs(t0, AddedTable(v, t, d, n, i), d, n, i, r.kind)
  <2>0. KindsOf(AddedTable(v, t, d, n, i)) = [KindsOf(t0) EXCEPT ![i] = r.kind]
    <3>1. t = [t0 EXCEPT ![i] = r]
      BY <1>2, ReplacedIs
    <3>2. Rowed(t) /\ KindsOf(t) = [KindsOf(t0) EXCEPT ![i] = r.kind]
      BY <1>2, <3>1, NewRowKinds
    <3> QED BY <1>5, <3>2, AddedKinds DEF SameKinds
  <2>1p. PICK p \in AllPlaces : \E C :
        Grew(AddedVolume(v, t, d), AddedTable(v, t, d, n, i), U1, D, G, P, L1, <<d, p, n, i>>, C)
    BY <1>5, <1>8, <1>9, <1>11, <1>12, NameAdded
  <2>1. PICK C :
        Grew(AddedVolume(v, t, d), AddedTable(v, t, d, n, i), U1, D, G, P, L1, <<d, p, n, i>>, C)
    BY <2>1p, Zenon
  <2> DEFINE x == <<d, p, n, i>>
             H == G \cup {x}
             w == AddedVolume(v, t, d)
             u == AddedTable(v, t, d, n, i)
  <2>2. x \notin G /\ Shows(u, U1, D, H, P, L1, C) /\ Exact(w, U1, D, C)
    BY <2>1 DEF Grew
  <2>4. Tree(U1, D, H, P)
    BY <1>1, <1>5, <1>10, <1>11, TreeNewFile DEF U1
  <2>5. Linked(U1, D, H, L1)
    BY <1>1, <1>5, <1>6, <1>11, <2>2, LinksNewFile DEF U1
  <2> HIDE DEF H, w, u
  <2>7. StateInv(w, u)
    BY <2>2, <2>4, <2>5, ShowsState
  <2>8. Entries(u) = H
    BY <2>2 DEF Shows
  <2>9. Enters(t0, u, d, n, i)
    BY <2>8 DEF Enters, H, G
  <2>10. MakesAs(t0, u, d, n, i, r.kind)
    BY <2>0, <2>9 DEF MakesAs, NoName, u
  <2> QED BY <2>7, <2>10 DEF w, u
<1>13. StateInv(GivenBack(v, t, i).v, GivenBack(v, t, i).t) /\ GivenBack(v, t, i).t = t0
  <2>1. t[i].blocks = B1[i] /\ (i \in D <=> t[i].kind = "dir")
    BY <1>4, <1>5, <1>6
  <2>2. Exact(v, U1, D, B1) /\ D \subseteq U1 /\ i \in U1
    BY <1>5, <1>9
  <2>3. Exact(GivenBack(v, t, i).v, U, D, B)
    BY <1>5, <1>7, <2>1, <2>2, GiveBack
  <2>4. GivenBack(v, t, i).t = t0
    BY <1>7 DEF GivenBack, Blank
  <2> QED BY <2>3, <2>4, <1>1, ShowsState
<1> QED BY <1>12, <1>13
---------------------------------------------------------------------------
(* Each operation keeps the invariant.                                     *)

LEMMA NoNameIs ==
  ASSUME NEW v, NEW t, StateInv(v, t), NEW d \in Dirs(t), NEW n \in Names,
         Lookup(t, d, n) = 0
  PROVE  NoName(t, d, n)
<1>1. Shows(t, Used(t), Dirs(t), Entries(t), Parent(t), LinkCounts(t), BlockLists(t))
      /\ Unique(Entries(t))
  BY StateShows DEF Tree, Unique
<1> QED BY <1>1, LookupIs DEF NoName

LEMMA FreshInode ==
  ASSUME NEW v, NEW t, StateInv(v, t), InodeLeft(v)
  PROVE  NewInode(v) \in Inodes \ Used(t)
<1>1. Exact(v, Used(t), Dirs(t), BlockLists(t))
  BY StateShows
<1>2. Dirs(t) \subseteq Used(t)
  BY Functions
<1> HIDE DEF Used, Dirs, BlockLists
<1> QED BY <1>1, <1>2, TakeInode

LEMMA FreshFile ==
  ASSUME NEW v, NEW t, StateInv(v, t), InodeLeft(v), NEW V, V = Used(t) \cup {NewInode(v)}
  PROVE  Exact(TookFile(v), V, Dirs(t), BlockLists(t))
<1>1. Exact(v, Used(t), Dirs(t), BlockLists(t))
  BY StateShows
<1>2. Dirs(t) \subseteq Used(t)
  BY Functions
<1> HIDE DEF Used, Dirs, BlockLists
<1> QED BY <1>1, <1>2, TakeInode

LEMMA FreshDir ==
  ASSUME NEW v, NEW t, StateInv(v, t), InodeLeft(v), NEW V, V = Used(t) \cup {NewInode(v)},
         NEW E, E = Dirs(t) \cup {NewInode(v)}
  PROVE  Exact(TookDir(v), V, E, BlockLists(t))
<1>1. Exact(v, Used(t), Dirs(t), BlockLists(t))
  BY StateShows
<1>2. Dirs(t) \subseteq Used(t)
  BY Functions
<1> HIDE DEF Used, Dirs, BlockLists
<1> QED BY <1>1, <1>2, TakeInode

LEMMA AttachIs ==
  ASSUME NEW v, NEW t, NEW d, NEW n, NEW i, Attach(v, t, d, n, i)
  PROVE  \/ CanAdd(v, t, d) /\ vol' = AddedVolume(v, t, d) /\ inode' = AddedTable(v, t, d, n, i)
         \/ vol' = GivenBack(v, t, i).v /\ inode' = GivenBack(v, t, i).t
<1>1. CASE CanAdd(v, t, d)
  <2>1. Become(Attached(v, t, d, n, i))
    BY <1>1, Zenon DEF Attach
  <2> QED BY <1>1, <2>1 DEF Become, Attached
<1>2. CASE ~CanAdd(v, t, d)
  <2>1. Become(GivenBack(v, t, i))
    BY <1>2, Zenon DEF Attach
  <2> QED BY <2>1 DEF Become
<1> QED BY <1>1, <1>2

(* The rows of new files.                                                  *)
LEMMA FileRows ==
  ASSUME NEW k \in {"reg", "link"}, NEW bs \in Seq(Blocks)
  PROVE  /\ Row(k, 1, bs, <<>>) \in Records
         /\ [Deleted EXCEPT !.kind = k, !.links = 1, !.blocks = bs] = Row(k, 1, bs, <<>>)
         /\ [Deleted EXCEPT !.kind = k, !.links = 1] = Row(k, 1, <<>>, <<>>)
<1>1. k \in Kinds /\ 1 \in Counts /\ <<>> \in Seq(DirBlocks)
  BY SmallCounts DEF Kinds
<1>2. Row(k, 1, bs, <<>>) \in Records
  BY <1>1, RowTyped
<1>3. [Deleted EXCEPT !.kind = k, !.links = 1] = [[Deleted EXCEPT !.kind = k] EXCEPT !.links = 1]
  OBVIOUS
<1>4. [Deleted EXCEPT !.kind = k, !.links = 1, !.blocks = bs]
        = [[[Deleted EXCEPT !.kind = k] EXCEPT !.links = 1] EXCEPT !.blocks = bs]
  OBVIOUS
<1>5. [Deleted EXCEPT !.kind = k] = Row(k, 0, <<>>, <<>>)
  BY DEF Deleted, Row
<1>6. [Row(k, 0, <<>>, <<>>) EXCEPT !.links = 1] = Row(k, 1, <<>>, <<>>)
  BY DEF Row
<1>7. [Row(k, 1, <<>>, <<>>) EXCEPT !.blocks = bs] = Row(k, 1, bs, <<>>)
  BY DEF Row
<1> QED BY <1>2, <1>3, <1>4, <1>5, <1>6, <1>7

LEMMA CreateFileKeeps ==
  ASSUME StateInv(vol, inode), NEW d \in Dirs(inode), NEW n \in Names, CreateFile(d, n)
  PROVE  StateInv(vol', inode') /\ Makes(inode, inode', d, n, "reg")
<1> DEFINE i == NewInode(vol)
           v == TookFile(vol)
           r == [Deleted EXCEPT !.kind = "reg", !.links = 1]
           t == [inode EXCEPT ![i] = r]
<1>1. MayCreate(d, n) /\ Attach(v, t, d, n, i)
  BY Zenon DEF CreateFile, TookFile
<1>2. NoName(inode, d, n) /\ i \in Inodes \ Used(inode)
  BY <1>1, NoNameIs, FreshInode DEF MayCreate
<1>3. Exact(v, Used(inode) \cup {i}, Dirs(inode), BlockLists(inode))
  BY <1>1, FreshFile DEF MayCreate
<1>4. inode \in Tables /\ Formed(inode)
  BY DEF StateInv
<1>5. r = Row("reg", 1, <<>>, <<>>) /\ r \in Records
  <2>1. "reg" \in {"reg", "link"} /\ <<>> \in Seq(Blocks)
    OBVIOUS
  <2>2. r = Row("reg", 1, <<>>, <<>>)
    BY <2>1, FileRows, Zenon
  <2>3. Row("reg", 1, <<>>, <<>>) \in Records
    BY <2>1, FileRows, Zenon
  <2> QED BY <2>2, <2>3
<1> HIDE DEF r, v, i
<1>6. r.kind \in {"reg", "link"} /\ r.links = 1 /\ r.dir = <<>> /\ r.blocks = <<>>
  BY <1>5 DEF Row
<1>7. [BlockLists(inode) EXCEPT ![i] = r.blocks] = BlockLists(inode)
  <2>1. BlockLists(inode)[i] = <<>>
    BY <1>2, <1>4, BlankRow
  <2>2. BlockLists(inode) = [j \in Inodes |-> BlockLists(inode)[j]]
    BY Functions
  <2> QED BY <1>2, <1>6, <2>1, <2>2
<1>8. Replaced(inode, t, i, r)
  BY <1>2, <1>4, <1>5, Replacing
<1> HIDE DEF t
<1>9. \/ CanAdd(v, t, d) /\ vol' = AddedVolume(v, t, d) /\ inode' = AddedTable(v, t, d, n, i)
      \/ vol' = GivenBack(v, t, i).v /\ inode' = GivenBack(v, t, i).t
  BY <1>1, AttachIs
<1>10. /\ CanAdd(v, t, d) => /\ StateInv(AddedVolume(v, t, d), AddedTable(v, t, d, n, i))
                             /\ MakesAs(inode, AddedTable(v, t, d, n, i), d, n, i, r.kind)
       /\ StateInv(GivenBack(v, t, i).v, GivenBack(v, t, i).t)
       /\ GivenBack(v, t, i).t = inode
  BY <1>2, <1>3, <1>5, <1>6, <1>7, <1>8, AttachFile DEF NoName
<1>11. r.kind = "reg"
  BY <1>5 DEF Row
<1> QED BY <1>9, <1>10, <1>11 DEF Makes

(* A long target takes a block, for what was nothing.                      *)
LEMMA OneBlock ==
  ASSUME NEW v, NEW U, NEW D, NEW B, Exact(v, U, D, B), D \subseteq U, BlockLeft(v),
         NEW i \in Inodes, B[i] = <<>>, NEW C, C = [B EXCEPT ![i] = <<NewBlock(v)>>]
  PROVE  Exact(AllocBlock(v), U, D, C)
<1>1. B = [j \in Inodes |-> B[j]]
  BY ExactIs
<1>2. Append(B[i], NewBlock(v)) = <<NewBlock(v)>>
  OBVIOUS
<1>3. [B EXCEPT ![i] = Append(@, NewBlock(v))] = C
  BY <1>1, <1>2
<1>4. Exact(AllocBlock(v), U, D, [B EXCEPT ![i] = Append(@, NewBlock(v))])
  BY TakeBlock
<1> QED BY <1>3, <1>4

LEMMA FreeBlockLeft ==
  ASSUME NEW v, NEW U, NEW D, NEW B, Exact(v, U, D, B), D \subseteq U, BlockLeft(v)
  PROVE  NewBlock(v) \in Blocks
BY Sizes, TakeBlock

LEMMA MakeSymlinkKeeps ==
  ASSUME StateInv(vol, inode), NEW d \in Dirs(inode), NEW n \in Names, NEW slow \in BOOLEAN,
         MakeSymlink(d, n, slow)
  PROVE  StateInv(vol', inode') /\ Makes(inode, inode', d, n, "link")
<1> DEFINE i == NewInode(vol)
           v == TookFile(vol)
           U == Used(inode)
           D == Dirs(inode)
           B == BlockLists(inode)
           Made(w, b) == Attach(w, [inode EXCEPT ![i] =
             [Deleted EXCEPT !.kind = "link", !.links = 1, !.blocks = b]], d, n, i)
<1>1. MayCreate(d, n)
  BY Zenon DEF MakeSymlink
<1>1a. InodeLeft(vol) /\ Lookup(inode, d, n) = 0
  BY <1>1 DEF MayCreate
<1>2. NoName(inode, d, n) /\ i \in Inodes \ U
  BY <1>1a, NoNameIs, FreshInode
<1>3. Exact(v, U \cup {i}, D, B)
  BY <1>1a, FreshFile
<1>4. inode \in Tables /\ Formed(inode)
  BY DEF StateInv
<1>5. B[i] = <<>> /\ inode[i].kind = "free" /\ inode[i].blocks = <<>> /\ inode[i] = Deleted
  BY <1>2, <1>4, BlankRow
<1>6. B = [j \in Inodes |-> B[j]] /\ D \subseteq U /\ U \subseteq Inodes
  BY Functions
<1>7. ASSUME NEW w, NEW b \in Seq(Blocks), Made(w, b),
             Exact(w, U \cup {i}, D, [B EXCEPT ![i] = b])
      PROVE  StateInv(vol', inode') /\ Makes(inode, inode', d, n, "link")
  <2> DEFINE r == [Deleted EXCEPT !.kind = "link", !.links = 1, !.blocks = b]
             t == [inode EXCEPT ![i] = r]
  <2>1. "link" \in {"reg", "link"}
    OBVIOUS
  <2>2. r = Row("link", 1, b, <<>>)
    BY <2>1, FileRows, Zenon
  <2>3. Row("link", 1, b, <<>>) \in Records
    BY <2>1, FileRows, Zenon
  <2>3a. Attach(w, t, d, n, i)
    BY <1>7
  <2> HIDE DEF r, v, i
  <2>4. r \in Records /\ r.kind \in {"reg", "link"} /\ r.links = 1 /\ r.dir = <<>> /\ r.blocks = b
    BY <2>2, <2>3 DEF Row
  <2>5. Replaced(inode, t, i, r)
    BY <1>2, <1>4, <2>4, Replacing
  <2> HIDE DEF t
  <2>6. \/ CanAdd(w, t, d) /\ vol' = AddedVolume(w, t, d) /\ inode' = AddedTable(w, t, d, n, i)
        \/ vol' = GivenBack(w, t, i).v /\ inode' = GivenBack(w, t, i).t
    BY <2>3a, AttachIs
  <2>7. /\ CanAdd(w, t, d) => /\ StateInv(AddedVolume(w, t, d), AddedTable(w, t, d, n, i))
                              /\ MakesAs(inode, AddedTable(w, t, d, n, i), d, n, i, r.kind)
        /\ StateInv(GivenBack(w, t, i).v, GivenBack(w, t, i).t)
        /\ GivenBack(w, t, i).t = inode
    BY <1>2, <1>7, <2>4, <2>5, AttachFile DEF NoName
  <2>8. r.kind = "link"
    BY <2>2 DEF Row
  <2> QED BY <2>6, <2>7, <2>8 DEF Makes
<1>8. CASE ~slow
  <2>1. Made(v, <<>>)
    BY <1>8, Zenon DEF MakeSymlink, TookFile
  <2> HIDE DEF Made
  <2>2. [B EXCEPT ![i] = <<>>] = B
    BY <1>2, <1>5, <1>6
  <2>3. Exact(v, U \cup {i}, D, [B EXCEPT ![i] = <<>>])
    BY <2>2, <1>3
  <2>4. <<>> \in Seq(Blocks)
    OBVIOUS
  <2> HIDE DEF v, i, U, D, B
  <2> QED BY <1>7, <2>1, <2>3, <2>4
<1>9. CASE slow /\ BlockLeft(v)
  <2>1. Made(AllocBlock(v), <<NewBlock(v)>>)
    BY <1>9, Zenon DEF MakeSymlink, TookFile
  <2> HIDE DEF Made, v, i, U, D, B
  <2>0. D \subseteq U \cup {i} /\ i \in Inodes
    BY <1>2, <1>6
  <2>2. NewBlock(v) \in Blocks
    BY <1>9, <1>3, <2>0, FreeBlockLeft
  <2>3. Exact(AllocBlock(v), U \cup {i}, D, [B EXCEPT ![i] = <<NewBlock(v)>>])
    BY <1>9, <1>3, <1>5, <2>0, OneBlock
  <2>4. <<NewBlock(v)>> \in Seq(Blocks)
    BY <2>2
  <2> QED BY <1>7, <2>1, <2>3, <2>4
<1>10. CASE slow /\ ~BlockLeft(v)
  <2>1. Become(GivenBack(v, inode, i))
    BY <1>10, Zenon DEF MakeSymlink, TookFile
  <2>2. inode' = [inode EXCEPT ![i] = Deleted] /\ vol' = GivenBack(v, inode, i).v
    BY <2>1 DEF Become, GivenBack
  <2>3. inode' = inode
    BY <1>2, <1>4, <1>5, <2>2 DEF Tables
  <2> HIDE DEF v, i
  <2>4. (U \cup {i}) \ {i} = U /\ D \ {i} = D /\ i \in U \cup {i} /\ D \subseteq U \cup {i}
        /\ i \notin D
    BY <1>2, <1>6
  <2>5. NoBlocks(B, i) = B
    BY <1>2, <1>5, <1>6 DEF NoBlocks
  <2>6. inode[i].blocks = B[i] /\ (i \in D <=> inode[i].kind = "dir")
    BY <1>5, <2>4
  <2> HIDE DEF U, D, B
  <2>7. Exact(GivenBack(v, inode, i).v, U, D, B)
    BY <1>3, <2>4, <2>5, <2>6, GiveBack
  <2>8. StateInv(vol', inode)
    BY <2>2, <2>7, StateShows, ShowsState DEF U, D, B
  <2> QED BY <2>3, <2>8 DEF Makes
<1> QED BY <1>8, <1>9, <1>10

(* A directory has a place for each directory in it, and two for its dots: *)
(* its link count cannot overflow.                                         *)
LEMMA DirLimit ==
  ASSUME NEW t, NEW U, NEW D, NEW G, NEW P, NEW L, NEW B, Shows(t, U, D, G, P, L, B),
         NEW d \in D
  PROVE  2 + Cardinality(Subs(D, G, d)) \in Counts
<1> DEFINE S == Subs(D, G, d)
           Has(p, c) == \E x \in G : x[1] = d /\ x[2] = p /\ x[4] = c
           f == [c \in S |-> CHOOSE p \in AllPlaces : Has(p, c)]
           F == (AllPlaces \ {SelfPlace}) \ {UpPlace}
<1>1. t \in Tables /\ Formed(t) /\ D = Dirs(t) /\ G = Entries(t)
  BY DEF Shows
<1>2. IsFiniteSet(F) /\ Cardinality(F) = Cardinality(AllPlaces) - 2
  <2>1. UpPlace \in AllPlaces \ {SelfPlace}
    BY Sizes DEF SelfPlace, UpPlace
  <2>2. IsFiniteSet(AllPlaces \ {SelfPlace})
        /\ Cardinality(AllPlaces \ {SelfPlace}) = Cardinality(AllPlaces) - 1
    BY PlacesCounted, Sizes, FS_RemoveElement
  <2>3. IsFiniteSet(F) /\ Cardinality(F) = Cardinality(AllPlaces \ {SelfPlace}) - 1
    BY <2>1, <2>2, FS_RemoveElement
  <2> QED BY <2>2, <2>3, PlacesCounted
<1>3. ASSUME NEW x \in G, x[1] = d
      PROVE  x[2] \in F /\ At(t, d, x[2]) = Entry(x[3], x[4])
  <2>1. x[2] \in Places(t, d) /\ x[3] \in Names /\ At(t, d, x[2]) = Entry(x[3], x[4])
    BY <1>1, <1>3, EntryOf
  <2>2. x[2] \in AllPlaces /\ At(t, d, SelfPlace) = Entry(".", d)
        /\ At(t, d, UpPlace) = Entry("..", Parent(t)[d])
    BY <1>1, <2>1, Dotted
  <2>2a. At(t, d, x[2]).name = x[3] /\ x[3] # "." /\ x[3] # ".."
    <3>1. Entry(x[3], x[4]).name = x[3]
      BY DEF Entry
    <3> QED BY <2>1, <3>1, NamesAre
  <2>2b. At(t, d, SelfPlace).name = "." /\ At(t, d, UpPlace).name = ".."
    <3>1. Entry(".", d).name = "." /\ Entry("..", Parent(t)[d]).name = ".."
      BY DEF Entry
    <3> QED BY <2>2, <3>1
  <2>3. x[2] # SelfPlace /\ x[2] # UpPlace
    BY <2>2a, <2>2b
  <2> QED BY <2>1, <2>2, <2>3
<1>4. \A c \in S : \E p \in F : Has(p, c)
  BY <1>3 DEF Subs
<1>5. \A p, c, b : Has(p, c) /\ Has(p, b) => c = b
  <2>1. ASSUME NEW x \in G, x[1] = d PROVE At(t, d, x[2]).ino = x[4]
    <3>1. Entry(x[3], x[4]).ino = x[4]
      BY DEF Entry
    <3> QED BY <1>3, <2>1, <3>1
  <2> QED BY <2>1
<1>5a. \A p, c : Has(p, c) => p \in F
  BY <1>3
<1> HIDE DEF Has
<1>6. \A c \in S : f[c] \in F /\ Has(f[c], c)
  <2>1. \A c \in S : \E p \in AllPlaces : Has(p, c)
    BY <1>4
  <2> QED BY <2>1, <1>5a
<1>7. f \in [S -> F]
  BY <1>6
<1>8. IsFiniteSet(S) /\ Cardinality(S) \in Nat
  <2>1. D \in SUBSET Inodes
    BY <1>1 DEF Dirs
  <2> QED BY <2>1, FiniteSubs
<1> HIDE DEF S, f, F
<1>9. Cardinality(S) <= Cardinality(F)
  <2>1. SUFFICES ASSUME ~(Cardinality(S) <= Cardinality(F)) PROVE FALSE
    OBVIOUS
  <2>2. Cardinality(F) < Cardinality(S)
    BY <1>2, <1>8, <2>1, PlacesCounted
  <2>3. PICK b, c \in S : b # c /\ f[b] = f[c]
    BY <1>2, <1>7, <1>8, <2>2, FS_PigeonHole
  <2> QED BY <1>5, <1>6, <2>3
<1>10. 2 + Cardinality(S) \in Counts
  BY <1>2, <1>8, <1>9, PlacesCounted DEF Counts
<1> QED BY <1>10 DEF S

LEMMA LinkKeeps ==
  ASSUME StateInv(vol, inode), NEW d \in Dirs(inode), NEW n \in Names,
         NEW c \in Used(inode), Link(c, d, n), inode[c].links # MaxLinks
  PROVE  StateInv(vol', inode') /\ AddsName(inode, inode', d, n, c)
<1> DEFINE U == Used(inode)
           D == Dirs(inode)
           G == Entries(inode)
           P == Parent(inode)
           L == LinkCounts(inode)
           B == BlockLists(inode)
           t == AddedTable(vol, inode, d, n, c)
           v == AddedVolume(vol, inode, d)
           m == L[c] + 1
           u == [t EXCEPT ![c].links = m]
<1>1. Shows(inode, U, D, G, P, L, B) /\ Tree(U, D, G, P) /\ Linked(U, D, G, L) /\ Exact(vol, U, D, B)
  BY StateShows
<1>2. ~IsDir(c) /\ Lookup(inode, d, n) = 0 /\ CanAdd(vol, inode, d) /\ vol' = v
      /\ inode' = [t EXCEPT ![c].links = LinkUp(@)]
  BY DEF Link, Become
<1>3. NoName(inode, d, n)
  BY <1>2, NoNameIs
<1>4. d \in D /\ c \in U \ D /\ c \in Inodes /\ D \subseteq U /\ U \subseteq Inodes
  BY <1>2 DEF IsDir, Used, Dirs
<1>5. L = [i \in Inodes |-> L[i]] /\ m \in Counts /\ LinkUp(L[c]) = m
  <2>1. inode \in Tables
    BY <1>1 DEF Shows
  <2>2. L[c] = inode[c].links /\ L[c] \in Counts
    BY <1>4, <2>1, Rows DEF LinkCounts
  <2>3. L[c] \in Nat /\ L[c] + 1 \in Counts
    BY <2>2, PlacesCounted DEF Counts
  <2>4. L = [i \in Inodes |-> L[i]]
    BY Functions
  <2> HIDE DEF L
  <2> QED BY <2>3, <2>4, CountUp
<1> HIDE DEF U, D, G, P, L, B
<1>6p. PICK p \in AllPlaces : \E C :
      Grew(v, t, U, D, G, P, L, <<d, p, n, c>>, C)
  BY <1>1, <1>2, <1>4, NameAdded
<1>6. PICK C :
      Grew(v, t, U, D, G, P, L, <<d, p, n, c>>, C)
  BY <1>6p, Zenon
<1> DEFINE x == <<d, p, n, c>>
           H == G \cup {x}
<1> HIDE DEF t, v
<1>7. x \notin G /\ Shows(t, U, D, H, P, L, C) /\ Exact(v, U, D, C)
  BY <1>6 DEF Grew
<1>8. \A z \in G : ~(z[1] = d /\ z[3] = n)
  BY <1>3 DEF NoName, G
<1>9. Tree(U, D, H, P)
  BY <1>1, <1>4, <1>8, TreeLink
<1> DEFINE K == [L EXCEPT ![c] = m]
<1>10. Linked(U, D, H, K)
  <2>1. K[c] = L[c] + 1 /\ \A j \in U \ {c} : K[j] = L[j]
    BY <1>4, <1>5
  <2> HIDE DEF K
  <2> QED BY <1>1, <1>4, <1>7, <2>1, LinksLink
<1> HIDE DEF H
<1>11. Shows(u, U, D, H, P, K, C)
  <2> HIDE DEF m
  <2> QED BY <1>4, <1>5, <1>7, ShowsLinks
<1>12. inode' = u
  <2>1. LinkCounts(t) = L
    BY <1>7 DEF Shows
  <2>2. t[c].links = L[c]
    BY <1>4, <2>1 DEF LinkCounts
  <2> QED BY <1>2, <1>5, <2>2
<1>12a. KindsOf(u) = KindsOf(inode)
  <2>1. Rowed(inode) /\ d \in Inodes
    BY <1>1, <1>4, TablesRowed DEF Shows
  <2>2. SameKinds(inode, t)
    BY <2>1, AddedKinds DEF t
  <2> HIDE DEF m
  <2>3. SameKinds(t, u)
    BY <1>4, <2>2, LinkKinds DEF SameKinds
  <2> QED BY <2>2, <2>3 DEF SameKinds
<1>12b. AddsName(inode, u, d, n, c)
  <2>1. Entries(u) = G \cup {<<d, p, n, c>>}
    BY <1>11 DEF Shows, H
  <2>2. Enters(inode, u, d, n, c)
    BY <2>1 DEF Enters, G
  <2> QED BY <1>3, <1>12a, <2>2 DEF AddsName
<1> HIDE DEF u, K
<1>13. StateInv(v, u)
  BY <1>7, <1>9, <1>10, <1>11, ShowsState
<1> QED BY <1>2, <1>12, <1>12b, <1>13

(* The entry that a lookup finds.                                          *)
LEMMA Found ==
  ASSUME NEW v, NEW t, StateInv(v, t), NEW d \in Dirs(t), NEW n \in Names,
         Lookup(t, d, n) # 0
  PROVE  \E x : FoundAs(t, d, n, x)
<1> DEFINE c == Lookup(t, d, n)
<1>1. Shows(t, Used(t), Dirs(t), Entries(t), Parent(t), LinkCounts(t), BlockLists(t))
      /\ Unique(Entries(t))
  BY StateShows DEF Tree, Unique
<1>2. PICK p \in AllPlaces : <<d, p, n, c>> \in Entries(t)
  BY <1>1, LookupIs
<1> HIDE DEF c
<1> DEFINE x == <<d, p, n, c>>
<1>3. \A z \in Entries(t) : z[1] = d /\ z[3] = n => z = x
  BY <1>1, <1>2 DEF Unique
<1>4. FoundAs(t, d, n, x)
  BY <1>2, <1>3 DEF FoundAs, c
<1> QED BY <1>4

(* The names of an inode, when it has one of them.                         *)
LEMMA NamesCounted ==
  ASSUME NEW U, NEW D, NEW G, NEW P, Tree(U, D, G, P), NEW l, Linked(U, D, G, l),
         NEW y \in G, y[4] \notin D
  PROVE  /\ l[y[4]] \in Nat /\ l[y[4]] >= 1
         /\ l[y[4]] <= 1 => \A z \in G : z[4] = y[4] => z = y
         /\ l[y[4]] > 1 => \E z \in G \ {y} : z[4] = y[4]
<1> DEFINE c == y[4]
           S == To(G, c)
<1>1. c \in U
  BY DEF Tree
<1>2. IsFiniteSet(G) /\ l[c] = Cardinality(S)
  BY <1>1 DEF Linked
<1>3. IsFiniteSet(S) /\ y \in S
  BY <1>2, FiniteTo DEF To
<1>3a. \A z : z \in S <=> z \in G /\ z[4] = y[4]
  BY DEF To
<1> HIDE DEF c, S
<1>4. Cardinality(S) \in Nat /\ Cardinality(S) >= 1
      /\ IsFiniteSet(S \ {y}) /\ Cardinality(S \ {y}) = Cardinality(S) - 1
  BY <1>3, OneLess
<1>5. CASE Cardinality(S) <= 1
  <2>1. Cardinality(S \ {y}) = 0
    BY <1>4, <1>5
  <2>2. S \ {y} = {}
    BY <1>4, <2>1, FS_EmptySet
  <2> QED BY <1>2, <1>3a, <1>4, <1>5, <2>2 DEF c
<1>6. CASE Cardinality(S) > 1
  <2>1. Cardinality(S \ {y}) # 0
    BY <1>4, <1>6
  <2>2. S \ {y} # {}
    BY <1>4, <2>1, FS_EmptySet
  <2> QED BY <1>2, <1>3a, <1>4, <1>6, <2>2 DEF c
<1> QED BY <1>4, <1>5, <1>6

LEMMA DeletedRow == Deleted \in Records
<1>1. Deleted = Row("free", 0, <<>>, <<>>)
  BY DEF Deleted, Row
<1>2. "free" \in Kinds /\ 0 \in Counts /\ <<>> \in Seq(Blocks) /\ <<>> \in Seq(DirBlocks)
  BY SmallCounts DEF Kinds
<1> QED BY <1>1, <1>2, RowTyped

(* An inode without entries of its own is given back, and its one name is  *)
(* removed.                                                                *)
LEMMA ShowsFreed ==
  ASSUME NEW v, NEW t, StateInv(v, t), NEW d, NEW n, NEW x, FoundAs(t, d, n, x),
         NEW c, c = x[4], \A z \in Entries(t) : z[1] # c,
         NEW U, U = Used(t), NEW D, D = Dirs(t), NEW G, G = Entries(t),
         NEW P, P = Parent(t), NEW L, L = LinkCounts(t), NEW B, B = BlockLists(t)
  PROVE  Shows(RemoveEntry(Blank(t, c), d, n), U \ {c}, D \ {c}, G \ {x},
               UpWithout(P, D, c), NoLinks(L, c), NoBlocks(B, c))
<1> DEFINE u == Blank(t, c)
<1>1. Shows(t, U, D, G, P, L, B)
  BY StateShows
<1>2. t \in Tables /\ x \in G /\ x = <<d, x[2], n, c>>
      /\ \A z \in G : z[1] = d /\ z[3] = n => z = x
  BY DEF FoundAs, StateInv
<1>3. c \in Inodes /\ \A z \in G : z[1] # c
  BY <1>2, EntryOf
<1>4. Replaced(t, u, c, Deleted)
  BY <1>2, <1>3, DeletedRow, Replacing DEF Blank
<1> DEFINE V == U \ {c}
           E == D \ {c}
           Q == UpWithout(P, D, c)
           K == NoLinks(L, c)
           C == NoBlocks(B, c)
<1> HIDE DEF u
<1>5. Shows(u, V, E, G, Q, K, C)
  BY <1>1, <1>3, <1>4, ShowsGone
<1> DEFINE p == x[2]
<1>6. <<d, p, n, c>> \in G /\ \A z \in G : z[1] = d /\ z[3] = n => z = <<d, p, n, c>>
  BY <1>2
<1> HIDE DEF p, V, E, Q, K, C
<1>7. Shows(RemoveEntry(u, d, n), V, E, G \ {<<d, p, n, c>>}, Q, K, C)
  BY <1>5, <1>6, ShowsRemoved
<1> QED BY <1>2, <1>7 DEF p, u, V, E, Q, K, C

LEMMA FreedVolume ==
  ASSUME NEW v, NEW t, StateInv(v, t), NEW c \in Used(t),
         NEW U, U = Used(t), NEW D, D = Dirs(t), NEW B, B = BlockLists(t)
  PROVE  Exact(GivenBack(v, t, c).v, U \ {c}, D \ {c}, NoBlocks(B, c))
<1> DEFINE C == NoBlocks(B, c)
           V == U \ {c}
           E == D \ {c}
<1>1. Exact(v, U, D, B) /\ D \subseteq U /\ c \in U
  BY StateShows, Functions
<1>2. t[c].blocks = B[c] /\ (c \in D <=> t[c].kind = "dir")
  BY DEF Used, Dirs, BlockLists
<1>4. Exact(GivenBack(v, t, c).v, V, E, C)
  BY <1>1, <1>2, GiveBack
<1> QED BY <1>4

LEMMA BlankKinds ==
  ASSUME NEW t \in Tables, NEW c \in Inodes, NEW d \in Inodes, NEW n
  PROVE  /\ Rowed(RemoveEntry(Blank(t, c), d, n))
         /\ KindsOf(RemoveEntry(Blank(t, c), d, n)) = [KindsOf(t) EXCEPT ![c] = "free"]
<1>1. Rowed(Blank(t, c)) /\ KindsOf(Blank(t, c)) = [KindsOf(t) EXCEPT ![c] = Deleted.kind]
  BY DeletedRow, NewRowKinds DEF Blank
<1>2. Deleted.kind = "free"
  BY DEF Deleted
<1> QED BY <1>1, <1>2, RemovedKinds DEF SameKinds

LEMMA UnlinkKeeps ==
  ASSUME StateInv(vol, inode), NEW d \in Dirs(inode), NEW n \in Names, Unlink(d, n)
  PROVE  StateInv(vol', inode') /\ Removes(inode, inode', d, n)
<1> DEFINE U == Used(inode)
           D == Dirs(inode)
           G == Entries(inode)
           P == Parent(inode)
           L == LinkCounts(inode)
           B == BlockLists(inode)
           c == Lookup(inode, d, n)
<1>1. Shows(inode, U, D, G, P, L, B) /\ Tree(U, D, G, P) /\ Linked(U, D, G, L) /\ Exact(vol, U, D, B)
  BY StateShows
<1>2. c # 0 /\ ~IsDir(c)
  BY Zenon DEF Unlink
<1>3. PICK x : FoundAs(inode, d, n, x)
  BY <1>2, Found
<1>4. x \in G /\ x = <<d, x[2], n, c>> /\ x[4] = c /\ (\A z \in G : z[1] = d /\ z[3] = n => z = x)
  BY <1>3 DEF FoundAs
<1>5. c \in U \ D /\ d \in D /\ c \in Inodes /\ D \subseteq U
  <2>1. c \in U
    BY <1>1, <1>4 DEF Tree
  <2> QED BY <1>2, <2>1 DEF IsDir, Used, Dirs
<1>6. P = [k \in D |-> P[k]] /\ L = [i \in Inodes |-> L[i]] /\ (\A z \in G : z[1] \in D)
  BY <1>1, ShownFunctions
<1>7. L[c] = inode[c].links
  BY <1>5 DEF LinkCounts
<1> HIDE DEF c
<1>8. CASE inode[c].links <= 1
  <2> DEFINE V == U \ {c}
             H == G \ {x}
             Q == UpWithout(P, D, c)
             K == NoLinks(L, c)
             C == NoBlocks(B, c)
             u == RemoveEntry(Blank(inode, c), d, n)
             w == GivenBack(vol, inode, c).v
  <2>1. vol' = w /\ inode' = u
    <3>1. Become([GivenBack(vol, inode, c) EXCEPT !.t = RemoveEntry(@, d, n)])
      BY <1>8, Zenon DEF Unlink, c
    <3> QED BY <3>1 DEF Become, GivenBack, Blank
  <2>2. D = D \ {c} /\ Q = P
    BY <1>5, <1>6 DEF UpWithout
  <2>3. Shows(u, V, D, H, P, K, C)
    <3>1. \A z \in G : z[1] # c
      BY <1>5, <1>6
    <3>2. Shows(u, V, D \ {c}, H, Q, K, C)
      <4> HIDE DEF U, D, G, P, L, B
      <4> QED BY <1>3, <1>4, <3>1, ShowsFreed DEF U, D, G, P, L, B
    <3> QED BY <2>2, <3>2
  <2>4. Exact(w, V, D, C)
    <3>1. Exact(w, V, D \ {c}, C)
      <4> HIDE DEF U, D, B
      <4> QED BY <1>5, FreedVolume DEF U, D, B
    <3> QED BY <2>2, <3>1
  <2>4a. RemovesAs(inode, u, d, n, x)
    <3>1. \A z \in G : z[4] = x[4] => z = x
      <4> HIDE DEF G, D, U, P, L
      <4> QED BY <1>1, <1>4, <1>5, <1>7, <1>8, NamesCounted
    <3>2. Entries(u) = H
      BY <2>3 DEF Shows
    <3>3. KindsOf(u) = [KindsOf(inode) EXCEPT ![c] = "free"]
      <4>1. inode \in Tables /\ d \in Inodes
        BY <1>1 DEF Shows, Dirs
      <4> QED BY <1>5, <4>1, BlankKinds
    <3> QED BY <1>3, <1>4, <1>5, <3>1, <3>2, <3>3 DEF RemovesAs
  <2>5. Tree(V, D, H, P) /\ Linked(V, D, H, K)
    <3>1. \A z \in G : z[4] = x[4] => z = x
      <4> HIDE DEF G, D, U, P, L
      <4> QED BY <1>1, <1>4, <1>5, <1>7, <1>8, NamesCounted
    <3>2. \A j \in U \ {x[4]} : K[j] = L[j]
      BY <1>4, <1>6 DEF U, Used, NoLinks
    <3> HIDE DEF K, G, D, U, P, L
    <3>3. Tree(V, D, H, P)
      BY <1>1, <1>4, <1>5, <3>1, TreeLastName
    <3>4. Linked(V, D, H, K)
      BY <1>1, <1>4, <1>5, <3>2, LinksLastName
    <3> QED BY <3>3, <3>4
  <2> HIDE DEF V, H, K, C, u, w, U, D, P
  <2>6. StateInv(w, u)
    BY <2>3, <2>4, <2>5, ShowsState
  <2> QED BY <2>1, <2>4a, <2>6 DEF Removes
<1>9. CASE ~(inode[c].links <= 1)
  <2> DEFINE m == L[c] - 1
             t == [inode EXCEPT ![c].links = m]
             u == RemoveEntry(t, d, n)
             H == G \ {x}
             K == [L EXCEPT ![c] = m]
             p == x[2]
  <2>0. LinkDown(L[c]) = m /\ m \in Counts
    <3>1. L[c] \in Counts
      BY <1>1, <1>5, <1>7, Rows DEF Shows
    <3>2. L[c] >= 1
      BY <1>7, <1>9, <3>1 DEF Counts
    <3> HIDE DEF L
    <3> QED BY <3>1, <3>2, CountDown
  <2>1. vol' = vol /\ inode' = u
    <3>1. Become([[v |-> vol, t |-> [inode EXCEPT ![c].links = LinkDown(@)]]
                     EXCEPT !.t = RemoveEntry(@, d, n)])
      BY <1>9, Zenon DEF Unlink, c
    <3>2. LinkDown(inode[c].links) = m
      BY <1>7, <2>0
    <3>3. [inode EXCEPT ![c].links = LinkDown(@)] = t
      BY <3>2
    <3> HIDE DEF t
    <3> QED BY <3>1, <3>3 DEF Become
  <2>2. m \in Counts /\ L[x[4]] > 1 /\ \E z \in G \ {x} : z[4] = x[4]
    <3> HIDE DEF G, D, U, P, L, m
    <3>1. L[x[4]] > 1 /\ \E z \in G \ {x} : z[4] = x[4]
      BY <1>1, <1>4, <1>5, <1>7, <1>9, NamesCounted
    <3> QED BY <2>0, <3>1
  <2>3. K[c] = L[c] - 1 /\ \A j \in U \ {c} : K[j] = L[j]
    BY <1>5, <1>6 DEF U, Used
  <2> HIDE DEF m, G, D, U, P, L, B
  <2>4. Shows(t, U, D, G, P, K, B)
    BY <1>1, <1>5, <2>2, ShowsLinks
  <2>5. Tree(U, D, H, P)
    BY <1>1, <1>4, <2>2, TreeUnlink
  <2>6. Linked(U, D, H, K)
    <3> HIDE DEF K
    <3> QED BY <1>1, <1>4, <1>5, <2>3, LinksUnlink
  <2> HIDE DEF t, K
  <2>7. Shows(u, U, D, H, P, K, B)
    <3>1. <<d, p, n, c>> \in G /\ (\A z \in G : z[1] = d /\ z[3] = n => z = <<d, p, n, c>>)
          /\ x = <<d, p, n, c>>
      BY <1>4
    <3> HIDE DEF p
    <3>2. Shows(RemoveEntry(t, d, n), U, D, G \ {<<d, p, n, c>>}, P, K, B)
      BY <2>4, <3>1, ShowsRemoved
    <3> QED BY <3>1, <3>2
  <2>7a. KindsOf(u) = KindsOf(inode)
    <3>1. Rowed(inode) /\ d \in Inodes
      BY <1>1, <1>5, TablesRowed DEF Shows, U, Used
    <3>2. SameKinds(inode, t)
      BY <1>5, <3>1, LinkKinds DEF t
    <3>3. SameKinds(t, u)
      BY <3>1, <3>2, RemovedKinds DEF SameKinds
    <3> QED BY <3>2, <3>3 DEF SameKinds
  <2>7b. RemovesAs(inode, u, d, n, x)
    <3>1. Entries(u) = H
      BY <2>7 DEF Shows
    <3> QED BY <1>3, <1>4, <1>5, <2>2, <2>7a, <3>1 DEF RemovesAs, G, D
  <2> HIDE DEF u, H
  <2>8. StateInv(vol, u)
    BY <1>1, <2>5, <2>6, <2>7, ShowsState
  <2> QED BY <2>1, <2>7b, <2>8 DEF Removes
<1> QED BY <1>8, <1>9

LEMMA RmdirKeeps ==
  ASSUME StateInv(vol, inode), NEW d \in Dirs(inode), NEW n \in Names, Rmdir(d, n)
  PROVE  StateInv(vol', inode') /\ Removes(inode, inode', d, n)
<1> DEFINE U == Used(inode)
           D == Dirs(inode)
           G == Entries(inode)
           P == Parent(inode)
           L == LinkCounts(inode)
           B == BlockLists(inode)
           c == Lookup(inode, d, n)
           V == U \ {c}
           E == D \ {c}
           Q == UpWithout(P, D, c)
           K == NoLinks(L, c)
           C == NoBlocks(B, c)
           t == RemoveEntry(Blank(inode, c), d, n)
           u == [t EXCEPT ![d].links = LinkDown(@)]
           w == GivenBack(vol, inode, c).v
<1>1. Shows(inode, U, D, G, P, L, B) /\ Tree(U, D, G, P) /\ Linked(U, D, G, L) /\ Exact(vol, U, D, B)
  BY StateShows
<1>2. c # 0 /\ IsDir(c) /\ IsEmpty(inode, c)
  BY Zenon DEF Rmdir
<1>3. PICK x : FoundAs(inode, d, n, x)
  BY <1>2, Found
<1>4. x \in G /\ x = <<d, x[2], n, c>> /\ x[4] = c /\ x[1] = d
      /\ (\A z \in G : z[1] = d /\ z[3] = n => z = x)
  BY <1>3 DEF FoundAs
<1>5. c \in U /\ c \in D /\ d \in D /\ c \in Inodes /\ D \subseteq U
  <2>1. c \in U
    BY <1>1, <1>4 DEF Tree
  <2> QED BY <1>2, <2>1 DEF IsDir, Used, Dirs
<1>6. P = [k \in D |-> P[k]] /\ L = [i \in Inodes |-> L[i]]
  BY <1>1, ShownFunctions
<1>7. vol' = w /\ inode' = u
  <2> DEFINE s == GivenBack(vol, inode, c)
             z == RemoveEntry(s.t, d, n)
             r == [v |-> s.v, t |-> [z EXCEPT ![d].links = LinkDown(@)]]
  <2>1. Become(r)
    BY Zenon DEF Rmdir, c
  <2>2. s.v = w /\ s.t = Blank(inode, c)
    BY DEF GivenBack, Blank
  <2>3. r = [v |-> w, t |-> u]
    BY <2>2 DEF u, t
  <2> HIDE DEF r
  <2> QED BY <2>1, <2>3 DEF Become
<1> HIDE DEF u, t, w, c
<1>8. \A z \in G : z[1] # c
  <2> HIDE DEF G, U, D, P, L, B
  <2> QED BY <1>1, <1>2, <1>5, EmptyDir
<1>9. d # c
  BY <1>4, <1>8
<1> DEFINE H == G \ {x}
<1>10. Shows(t, V, E, H, Q, K, C)
  <2> HIDE DEF U, D, G, P, L, B
  <2> QED BY <1>3, <1>4, <1>8, ShowsFreed DEF U, D, G, P, L, B, t
<1>11. Exact(w, V, E, C)
  <2> HIDE DEF U, D, B
  <2> QED BY <1>5, FreedVolume DEF U, D, B, w
<1>12. Tree(V, E, H, Q)
  <2>1. P \in [D -> D] /\ \A k \in E : P[k] # c
    <3>1. P \in [D -> D] /\ Root \in D /\ P[Root] = Root /\ Reached(U, G)
          /\ U \subseteq Inodes /\ D \subseteq U
      BY <1>1 DEF Tree
    <3>2. ASSUME NEW k \in E, P[k] = c PROVE FALSE
      <4> HIDE DEF G, U, D, P, L, B
      <4>1. k # Root
        BY <3>1, <3>2
      <4>2. k \in U /\ k \in D
        BY <3>1, <3>2
      <4>3. PICK z \in G : z[4] = k
        BY <1>1, <4>1, <4>2, HasName
      <4>4. P[k] = z[1]
        BY <1>1, <4>2, <4>3 DEF Tree
      <4> QED BY <1>8, <3>2, <4>3, <4>4
    <3> QED BY <3>1, <3>2
  <2>2. Q \in [D \ {x[4]} -> D] /\ \A k \in D \ {x[4]} : Q[k] = P[k]
    BY <1>4, <2>1 DEF UpWithout
  <2>3. \A z \in G : z[1] # x[4]
    BY <1>4, <1>8
  <2> HIDE DEF Q, U, D, G, P, L, B
  <2> QED BY <1>1, <1>4, <1>5, <2>2, <2>3, TreeRmdir
<1>13. L[d] \in Nat /\ L[d] >= 2 /\ K[d] = L[d]
  <2> DEFINE s == Cardinality(Subs(D, G, d))
  <2>1. L[d] = 2 + s
    BY <1>1, <1>5 DEF Linked
  <2>2. s \in Nat
    BY FiniteSubs DEF Dirs
  <2>3. K[d] = L[d]
    BY <1>5, <1>6, <1>9 DEF NoLinks, Dirs
  <2> HIDE DEF s
  <2> QED BY <2>1, <2>2, <2>3
<1> DEFINE m == L[d] - 1
           M == [K EXCEPT ![d] = m]
<1>14. Linked(V, E, H, M)
  <2>1. M[x[1]] = L[x[1]] - 1 /\ \A j \in U \ {x[4], x[1]} : M[j] = L[j]
    BY <1>4, <1>5, <1>6, <1>9 DEF NoLinks, Used, Dirs
  <2> HIDE DEF M, U, D, G, P, L, B
  <2> QED BY <1>1, <1>4, <1>5, <1>9, <2>1, LinksRmdir
<1>14a. LinkDown(L[d]) = m /\ m \in Counts
  <2>1. L[d] \in Counts
    <3>1. d \in Inodes /\ inode \in Tables
      BY <1>1, <1>5 DEF Shows, Dirs
    <3> QED BY <3>1, Rows DEF LinkCounts
  <2> HIDE DEF L
  <2> QED BY <1>13, <2>1, CountDown
<1>15. u = [t EXCEPT ![d].links = m]
  <2>1. LinkCounts(t) = K
    BY <1>10 DEF Shows
  <2>2. t[d].links = K[d]
    BY <2>1 DEF LinkCounts, Dirs
  <2> QED BY <1>13, <1>14a, <2>2 DEF u
<1>16. Shows(u, V, E, H, Q, M, C)
  <2>1. m \in Counts /\ d \in V
    BY <1>5, <1>9, <1>14a
  <2> HIDE DEF m, U, D, G, P, L, B, V, E, Q, K, C, H
  <2> QED BY <1>10, <1>15, <2>1, ShowsLinks
<1>16a. RemovesAs(inode, u, d, n, x)
  <2>1. inode \in Tables /\ d \in Inodes
    BY <1>1, <1>5 DEF Shows, Dirs
  <2>2. Rowed(t) /\ KindsOf(t) = [KindsOf(inode) EXCEPT ![c] = "free"]
    BY <1>5, <2>1, BlankKinds DEF t
  <2>3. SameKinds(t, u)
    <3> HIDE DEF m
    <3> QED BY <1>15, <2>1, <2>2, LinkKinds
  <2>4. KindsOf(u) = [KindsOf(inode) EXCEPT ![c] = "free"]
    BY <2>2, <2>3 DEF SameKinds
  <2>5. Entries(u) = H
    BY <1>16 DEF Shows
  <2>6. \A z \in G : z[4] = c => z = x
    <3> HIDE DEF U, D, G, P, L, B
    <3> QED BY <1>1, <1>4, <1>5 DEF Tree
  <2> QED BY <1>3, <1>4, <1>8, <2>4, <2>5, <2>6 DEF RemovesAs
<1> HIDE DEF V, E, Q, K, C, H, M, U, D, G, P, L, B
<1>17. StateInv(w, u)
  BY <1>11, <1>12, <1>14, <1>16, ShowsState
<1> QED BY <1>7, <1>16a, <1>17 DEF Removes

LEMMA MkdirKeeps ==
  ASSUME StateInv(vol, inode), NEW d \in Dirs(inode), NEW n \in Names, Mkdir(d, n)
  PROVE  StateInv(vol', inode') /\ Makes(inode, inode', d, n, "dir")
<1> DEFINE i == NewInode(vol)
           v == TookDir(vol)
           U == Used(inode)
           D == Dirs(inode)
           G == Entries(inode)
           P == Parent(inode)
           L == LinkCounts(inode)
           B == BlockLists(inode)
           U1 == U \cup {i}
           D1 == D \cup {i}
           b == NewBlock(v)
           w == AllocBlock(v)
           r == NewDir(i, d, b)
           t == [inode EXCEPT ![i] = r]
           B1 == [B EXCEPT ![i] = <<b>>]
           L1 == [L EXCEPT ![i] = 2]
<1>0. Shows(inode, U, D, G, P, L, B) /\ Tree(U, D, G, P) /\ Linked(U, D, G, L) /\ Exact(vol, U, D, B)
  BY StateShows
<1>1. InodeLeft(vol) /\ Lookup(inode, d, n) = 0
  <2>1. MayCreate(d, n)
    BY Zenon DEF Mkdir
  <2> QED BY <2>1 DEF MayCreate
<1>2. NoName(inode, d, n) /\ i \in Inodes \ U
  BY <1>1, NoNameIs, FreshInode
<1>3. Exact(v, U1, D1, B)
  BY <1>1, FreshDir
<1>4. inode \in Tables /\ Formed(inode)
  BY DEF StateInv
<1>5. B[i] = <<>> /\ inode[i] = Deleted
  BY <1>2, <1>4, BlankRow
<1>6. /\ B = [j \in Inodes |-> B[j]] /\ L = [j \in Inodes |-> L[j]]
      /\ D \subseteq U /\ U \subseteq Inodes
  BY Functions
<1>7. /\ U1 \ {i} = U /\ D1 \ {i} = D /\ i \in U1 /\ i \in D1 /\ D1 \subseteq U1
      /\ d \in D /\ d \in D1 /\ d # i /\ i \in Inodes /\ d \in Inodes
  BY <1>2, <1>6
<1>8. NoBlocks(B, i) = B /\ NoBlocks(B1, i) = B
  BY <1>2, <1>5, <1>6 DEF NoBlocks
<1>9. [inode EXCEPT ![i] = Deleted] = inode
  BY <1>4, <1>5, <1>7 DEF Tables
<1>10. \A z \in G : ~(z[1] = d /\ z[3] = n)
  BY <1>2 DEF NoName
<1>11. CASE ~BlockLeft(v)
  <2> DEFINE new == [inode EXCEPT ![i] = [Deleted EXCEPT !.kind = "dir"]]
             x == GivenBack(v, new, i)
  <2>1. Become(x)
    BY <1>11, Zenon DEF Mkdir, TookDir
  <2> HIDE DEF v, U1, D1, B, U, D, i
  <2>2. new[i].kind = "dir" /\ new[i].blocks = B[i]
    BY <1>4, <1>5, <1>7 DEF Deleted, Tables
  <2>3. [new EXCEPT ![i] = Deleted] = inode
    <3>1. [new EXCEPT ![i] = Deleted] = [inode EXCEPT ![i] = Deleted]
      BY <1>4, <1>7 DEF Tables
    <3> QED BY <3>1, <1>9
  <2> HIDE DEF new
  <2>4. vol' = x.v /\ inode' = inode
    BY <2>1, <2>3 DEF Become, GivenBack
  <2>5. Exact(x.v, U, D, B)
    BY <1>3, <1>7, <1>8, <2>2, GiveBack
  <2> HIDE DEF x, G, P, L
  <2>6. StateInv(x.v, inode)
    BY <1>0, <2>5, ShowsState
  <2> QED BY <2>4, <2>6 DEF Makes
<1>12. ASSUME BlockLeft(v)
       PROVE  b \in Blocks /\ Exact(w, U1, D1, B1) /\ t[i] = r /\ Replaced(inode, t, i, r)
  <2> HIDE DEF v, U1, D1, B, i
  <2>1. b \in Blocks
    BY <1>3, <1>7, <1>12, FreeBlockLeft
  <2>2. Exact(w, U1, D1, B1)
    BY <1>3, <1>5, <1>7, <1>12, OneBlock
  <2> HIDE DEF b
  <2>3. r \in Records
    BY <1>7, <2>1, NewDirRow
  <2> HIDE DEF r
  <2>4. Replaced(inode, t, i, r)
    BY <1>4, <1>7, <2>3, Replacing
  <2>5. t[i] = r
    BY <2>4 DEF Replaced
  <2> QED BY <2>1, <2>2, <2>4, <2>5
<1>13. CASE BlockLeft(v) /\ ~CanAdd(w, t, d)
  <2> DEFINE x == GivenBack(w, t, i)
  <2>1. Become(x)
    BY <1>13, Zenon DEF Mkdir, TookDir
  <2>1a. b \in Blocks /\ Exact(w, U1, D1, B1) /\ t[i] = r /\ r.blocks = <<b>> /\ r.kind = "dir"
    BY <1>12, <1>13, <1>7, NewDirRow
  <2>2. t[i].kind = "dir" /\ t[i].blocks = B1[i]
    BY <1>6, <1>7, <2>1a
  <2>3. [t EXCEPT ![i] = Deleted] = inode
    <3> HIDE DEF r, i
    <3>1. [t EXCEPT ![i] = Deleted] = [inode EXCEPT ![i] = Deleted]
      BY <1>4, <1>7 DEF Tables
    <3> QED BY <3>1, <1>9
  <2> HIDE DEF t, w, U1, D1, B1, U, D, B, i
  <2>4. vol' = x.v /\ inode' = inode
    BY <2>1, <2>3 DEF Become, GivenBack
  <2>5. Exact(x.v, U, D, B)
    BY <1>7, <1>8, <2>1a, <2>2, GiveBack
  <2> HIDE DEF x, G, P, L
  <2>6. StateInv(x.v, inode)
    BY <1>0, <2>5, ShowsState
  <2> QED BY <2>4, <2>6 DEF Makes
<1>14. CASE BlockLeft(v) /\ CanAdd(w, t, d)
  <2> DEFINE y == AddedVolume(w, t, d)
             q == AddedTable(w, t, d, n, i)
             u == [q EXCEPT ![d].links = LinkUp(@)]
  <2>1. vol' = y /\ inode' = u
    <3> DEFINE s == Attached(w, t, d, n, i)
               z == [s EXCEPT !.t[d].links = LinkUp(@)]
    <3>1. Become(z)
      BY <1>14, Zenon DEF Mkdir, TookDir
    <3>2. s = [v |-> y, t |-> q]
      BY Zenon DEF Attached
    <3>3. vol' = z.v /\ inode' = z.t
      <4> HIDE DEF z
      <4> QED BY <3>1 DEF Become
    <3> HIDE DEF s, y, q
    <3>4. z = [v |-> y, t |-> u]
      BY <3>2
    <3> QED BY <3>3, <3>4
  <2>2. b \in Blocks /\ Exact(w, U1, D1, B1) /\ Replaced(inode, t, i, r)
    BY <1>12, <1>14
  <2>3. PICK Q : /\ Q = [k \in D1 |-> Q[k]] /\ \A k \in D : Q[k] = P[k]
                 /\ Q[i] = d
                 /\ Shows(t, U1, D1, G, Q, L1, B1)
    <3>1. L1 = DirLinks(L, i) /\ B1 = OneBlockAt(B, i, b)
      BY DEF DirLinks, OneBlockAt
    <3> HIDE DEF i, b, t, U, D, G, P, L, B, L1, B1
    <3>2. Replaced(inode, t, i, NewDir(i, d, b))
      BY <2>2
    <3> HIDE DEF r
    <3>3. PICK Q : ShowsDir(t, U, D, G, P, L, B, i, d, b, Q)
      BY <1>0, <1>2, <1>7, <2>2, <3>2, ShowsNewDir
    <3> QED BY <3>1, <3>3 DEF ShowsDir
  <2>4. CanAdd(w, t, d)
    BY <1>14
  <2>4a. KindsOf(u) = [KindsOf(inode) EXCEPT ![i] = "dir"] /\ i \in Inodes \ Used(inode)
    <3>1. r \in Records /\ r.kind = "dir"
      BY <1>7, <2>2, NewDirRow
    <3> HIDE DEF r, i, w, u, q
    <3>2. Rowed(t) /\ KindsOf(t) = [KindsOf(inode) EXCEPT ![i] = "dir"]
      BY <1>4, <1>7, <3>1, NewRowKinds
    <3> HIDE DEF t
    <3>3. SameKinds(t, q)
      BY <1>7, <3>2, AddedKinds DEF q
    <3> DEFINE mm == LinkUp(q[d].links)
    <3>4. u = [q EXCEPT ![d].links = mm]
      BY DEF u
    <3> HIDE DEF mm
    <3>5. SameKinds(q, u)
      BY <1>7, <3>3, <3>4, LinkKinds DEF SameKinds
    <3> QED BY <1>2, <3>2, <3>3, <3>5 DEF SameKinds
  <2> HIDE DEF u, y, q, t, w, U1, D1, B1, L1, U, D, G, P, L, B, i, b, r, v
  <2>5p. PICK p \in AllPlaces : \E C :
        Grew(y, q, U1, D1, G, Q, L1, <<d, p, n, i>>, C)
    <3>1. d \in D1 /\ i \in Inodes /\ Exact(w, U1, D1, B1)
      BY <1>7, <2>2
    <3>2. Shows(t, U1, D1, G, Q, L1, B1)
      BY <2>3
    <3> QED BY <2>4, <3>1, <3>2, NameAdded DEF y, q
  <2>5. PICK C :
        Grew(y, q, U1, D1, G, Q, L1, <<d, p, n, i>>, C)
    BY <2>5p, Zenon
  <2> DEFINE x == <<d, p, n, i>>
             H == G \cup {x}
  <2>6. x \notin G /\ Shows(q, U1, D1, H, Q, L1, C) /\ Exact(y, U1, D1, C)
    BY <2>5 DEF Grew
  <2>7. Q \in [D1 -> D1]
    <3>1. P \in [D -> D]
      BY <1>0 DEF Tree
    <3>2. \A k \in D1 : Q[k] \in D1
      BY <1>7, <2>3, <3>1 DEF D1
    <3> QED BY <2>3, <3>2
  <2>8. Tree(U1, D1, H, Q)
    BY <1>0, <1>2, <1>7, <1>10, <2>3, <2>7, TreeNewDir DEF U1, D1
  <2>9. L[d] \in Nat /\ L1[d] = L[d] /\ L1[i] = 2
    <3>1. L[d] \in Counts
      BY <1>4, <1>7, Rows DEF L, LinkCounts
    <3> QED BY <1>6, <1>7, <3>1, PlacesCounted DEF L1, Counts
  <2> DEFINE m == L[d] + 1
             M == [L1 EXCEPT ![d] = m]
  <2>10. Linked(U1, D1, H, M)
    <3>1. M[i] = 2 /\ M[d] = L[d] + 1 /\ \A j \in U \ {d} : M[j] = L[j]
      BY <1>2, <1>6, <1>7, <2>9 DEF L1
    <3> HIDE DEF M
    <3> QED BY <1>0, <1>2, <1>7, <3>1, LinksNewDir DEF U1, D1
  <2>10a. m \in Counts /\ LinkUp(L[d]) = m
    <3>1. M[d] = 2 + Cardinality(Subs(D1, H, d))
      <4> HIDE DEF M, H
      <4>1. d \in U1
        BY <1>7
      <4> QED BY <1>7, <2>10, <4>1 DEF Linked
    <3>2. M[d] = m
      BY <1>6, <1>7 DEF L1
    <3>3. 2 + Cardinality(Subs(D1, H, d)) \in Counts
      <4> HIDE DEF H
      <4> QED BY <1>7, <2>6, DirLimit
    <3>4. m \in Counts
      BY <3>1, <3>2, <3>3
    <3> QED BY <2>9, <3>4, CountUp
  <2>11. u = [q EXCEPT ![d].links = m]
    <3>1. LinkCounts(q) = L1
      BY <2>6 DEF Shows
    <3>2. q[d].links = L1[d]
      BY <1>7, <3>1 DEF LinkCounts
    <3> QED BY <2>9, <2>10a, <3>2 DEF u
  <2>12. Shows(u, U1, D1, H, Q, M, C)
    <3>1. m \in Counts /\ d \in U1
      BY <1>7, <2>10a
    <3> HIDE DEF m, H
    <3> QED BY <2>6, <2>11, <3>1, ShowsLinks
  <2>12a. Entries(u) = H
    BY <2>12 DEF Shows
  <2>12b. MakesAs(inode, u, d, n, i, "dir")
    <3>1. Enters(inode, u, d, n, i)
      BY <2>12a DEF Enters, G
    <3> QED BY <1>2, <2>4a, <3>1 DEF MakesAs
  <2> HIDE DEF M, H
  <2>13. StateInv(y, u)
    BY <2>6, <2>8, <2>10, <2>12, ShowsState
  <2> QED BY <2>1, <2>12b, <2>13 DEF Makes
<1> QED BY <1>11, <1>13, <1>14
---------------------------------------------------------------------------
(* The paths.                                                              *)

(* Sets that only grow stop growing before there are more steps than       *)
(* elements.                                                               *)
Growing(F, X, n, s) ==
  /\ \A S \in SUBSET X : S \subseteq F[S] /\ F[S] \subseteq X
  /\ \A k \in 0..n : s[k] \subseteq X
  /\ s[0] # {} /\ \A k \in 1..n : s[k] = F[s[k - 1]]

LEMMA Saturates ==
  ASSUME NEW n \in Nat, NEW X, IsFiniteSet(X), Cardinality(X) <= n,
         NEW F, NEW s, Growing(F, X, n, s)
  PROVE  F[s[n]] = s[n]
<1> DEFINE T == {k \in 0..n : F[s[k]] = s[k] \/ Cardinality(s[k]) >= k + 1}
<1>1. /\ \A S \in SUBSET X : S \subseteq F[S] /\ F[S] \subseteq X
      /\ \A k \in 0..n : s[k] \subseteq X
      /\ s[0] # {} /\ \A k \in 1..n : s[k] = F[s[k - 1]]
  BY DEF Growing
<1>2. \A k \in 0..n : IsFiniteSet(s[k]) /\ Cardinality(s[k]) \in Nat
                      /\ Cardinality(s[k]) <= Cardinality(X)
  BY <1>1, FS_Subset, FS_CardinalityType
<1>3. 0 \in T
  <2>1. IsFiniteSet(s[0]) /\ Cardinality(s[0]) \in Nat
    BY <1>2
  <2>2. Cardinality(s[0]) # 0
    BY <1>1, <2>1, FS_EmptySet
  <2> QED BY <2>1, <2>2
<1>4. ASSUME NEW k \in 0..n - 1, k \in T PROVE k + 1 \in T
  <2>1. k \in Nat /\ k + 1 \in 1..n /\ (k + 1) - 1 = k /\ k \in 0..n /\ k + 1 \in 0..n
    OBVIOUS
  <2>2. s[k + 1] = F[s[k]] /\ s[k] \subseteq s[k + 1]
    BY <1>1, <2>1
  <2>3. CASE F[s[k]] = s[k]
    BY <2>1, <2>2, <2>3
  <2>4. CASE F[s[k]] # s[k]
    <3>1. PICK c \in s[k + 1] : c \notin s[k]
      BY <2>2, <2>4
    <3>2. IsFiniteSet(s[k + 1]) /\ Cardinality(s[k + 1]) \in Nat /\ Cardinality(s[k]) \in Nat
      BY <1>2, <2>1
    <3>3. Cardinality(s[k]) <= Cardinality(s[k + 1]) - 1
      <4> DEFINE Y == s[k + 1] \ {c}
      <4>1. IsFiniteSet(Y) /\ Cardinality(Y) = Cardinality(s[k + 1]) - 1
        BY <3>1, <3>2, OneLess
      <4>2. s[k] \subseteq Y
        BY <2>2, <3>1
      <4> HIDE DEF Y
      <4>3. Cardinality(s[k]) <= Cardinality(Y)
        BY <4>1, <4>2, FS_Subset
      <4> QED BY <4>1, <4>3
    <3>4. Cardinality(s[k]) >= k + 1
      BY <1>4, <2>4
    <3>5. Cardinality(s[k + 1]) >= (k + 1) + 1
      BY <2>1, <3>2, <3>3, <3>4
    <3> QED BY <2>1, <3>5
  <2> QED BY <2>3, <2>4
<1>5. n \in T
  <2> HIDE DEF T
  <2>1. 0..n \subseteq T
    BY <1>3, <1>4, UpTo
  <2> QED BY <2>1
<1>6. n \in 0..n /\ Cardinality(X) \in Nat
  BY FS_CardinalityType
<1> QED BY <1>2, <1>5, <1>6

(* A step taken n times.                                                   *)
Stepped(F, S, a, n, f) ==
  f \in [0..n -> S] /\ f[0] = a /\ \A k \in 1..n : f[k] = F[f[k - 1]]

LEMMA StepsTaken ==
  ASSUME NEW S, NEW a \in S, NEW n \in Nat, NEW F, \A c \in S : F[c] \in S
  PROVE  \E f : Stepped(F, S, a, n, f)
<1> DEFINE E == [k \in 1..n |-> [c \in S |-> F[c]]]
<1>1. E \in Steps(n, S)
  <2>1. E \in [1..n -> [S -> S]]
    OBVIOUS
  <2> QED BY <2>1 DEF Steps
<1>2. \A k \in 1..n : \A c \in S : E[k][c] = F[c]
  OBVIOUS
<1> HIDE DEF E
<1>3. PICK f \in [0..n -> S] : f[0] = a /\ \A k \in 1..n : f[k] = E[k][f[k - 1]]
  BY <1>1, Iterates
<1>4. \A k \in 1..n : f[k - 1] \in S
  OBVIOUS
<1>5. Stepped(F, S, a, n, f)
  BY <1>2, <1>3, <1>4 DEF Stepped
<1> QED BY <1>5

(* What is in a directory: itself, its parent, and what its entries lead   *)
(* to.                                                                     *)
LEMMA ChildrenAre ==
  ASSUME NEW U, NEW D, NEW G, NEW P, NEW L, NEW B, Shows(inode, U, D, G, P, L, B),
         NEW d \in D
  PROVE  \A c : c \in Children(d) <=>
                  c = d \/ c = P[d] \/ \E x \in G : x[1] = d /\ x[4] = c
<1>1. inode \in Tables /\ Formed(inode) /\ D = Dirs(inode) /\ P = Parent(inode) /\ G = Entries(inode)
  BY DEF Shows
<1>2. d \in Dirs(inode) /\ d \in Inodes
  BY <1>1 DEF Dirs
<1>3. /\ SelfPlace \in Places(inode, d) /\ UpPlace \in Places(inode, d)
      /\ At(inode, d, SelfPlace) = Entry(".", d)
      /\ At(inode, d, UpPlace) = Entry("..", P[d]) /\ P[d] \in Inodes
  BY <1>1, <1>2, Dotted
<1>4. At(inode, d, SelfPlace).ino = d /\ At(inode, d, UpPlace).ino = P[d]
  BY <1>3 DEF Entry
<1>5. d # 0 /\ P[d] # 0
  BY <1>2, <1>3, Sizes
<1>6. d \in Children(d) /\ P[d] \in Children(d)
  BY <1>3, <1>4, <1>5 DEF Children
<1>7. ASSUME NEW x \in G, x[1] = d PROVE x[4] \in Children(d)
  <2>1. x[2] \in Places(inode, d) /\ At(inode, d, x[2]) = Entry(x[3], x[4]) /\ x[4] \in Inodes
    BY <1>1, <1>7, EntryOf
  <2>2. At(inode, d, x[2]).ino = x[4] /\ x[4] # 0
    BY <2>1, Sizes DEF Entry
  <2> QED BY <2>1, <2>2 DEF Children
<1>8. ASSUME NEW c \in Children(d), c # d, c # P[d]
      PROVE  \E x \in G : x[1] = d /\ x[4] = c
  <2>1. PICK p \in Places(inode, d) : c = At(inode, d, p).ino /\ c # 0
    BY DEF Children
  <2>2. p \notin {SelfPlace, UpPlace}
    BY <1>4, <1>8, <2>1
  <2>3. /\ At(inode, d, p).name \in Names \cup {""}
        /\ At(inode, d, p).name = "" <=> At(inode, d, p).ino = 0
        /\ At(inode, d, p) = Entry(At(inode, d, p).name, At(inode, d, p).ino)
    BY <1>1, <1>2, <2>2, Elsewhere
  <2> DEFINE n == At(inode, d, p).name
  <2>4. n \in Names /\ At(inode, d, p) = Entry(n, c)
    BY <2>1, <2>3
  <2>5. c \in Inodes
    <3>1. c \in 0..NInodes
      BY <1>1, <1>2, <2>1, PlaceIn
    <3> QED BY <3>1, <2>1, Sizes DEF Inodes
  <2> HIDE DEF n
  <2>6. <<d, p, n, c>> \in G
    BY <1>1, <1>2, <2>1, <2>4, <2>5, EntryIn
  <2> QED BY <2>6
<1> QED BY <1>6, <1>7, <1>8

LEMMA ResolvedIs ==
  ASSUME StateInv(vol, inode)
  PROVE  /\ Resolved \subseteq Used(inode) /\ Root \in Resolved
         /\ \A d \in Resolved \cap Dirs(inode) : Children(d) \subseteq Resolved
<1> DEFINE U == Used(inode)
           D == Dirs(inode)
           G == Entries(inode)
           P == Parent(inode)
           Next_(S) == S \cup UNION {Children(d) : d \in {e \in S : IsDir(e)}}
           F == [S \in SUBSET U |-> Next_(S)]
           Eq(g) == g = [k \in 0..NInodes |-> IF k = 0 THEN {Root} ELSE Next_(g[k - 1])]
           s == CHOOSE g : Eq(g)
           T == {k \in 0..NInodes : s[k] \in SUBSET U /\ Root \in s[k]}
<1>1. Shows(inode, U, D, G, P, LinkCounts(inode), BlockLists(inode)) /\ Tree(U, D, G, P)
  BY StateShows
<1>2. /\ D \subseteq U /\ Root \in U /\ (\A d \in D : P[d] \in U) /\ \A x \in G : x[4] \in U
      /\ U \in SUBSET Inodes
  <2> HIDE DEF U, D, G, P
  <2> QED BY <1>1 DEF Tree
<1>3. \A d \in D : Children(d) \subseteq U
  <2> HIDE DEF U, D, G, P
  <2> QED BY <1>1, <1>2, ChildrenAre
<1>4. \A d : d \in U => (IsDir(d) <=> d \in D)
  BY DEF IsDir, Used, Dirs
<1>5. \A S \in SUBSET U : F[S] = Next_(S) /\ S \subseteq F[S] /\ F[S] \in SUBSET U
  <2> HIDE DEF U, D
  <2>1. \A S \in SUBSET U : S \subseteq Next_(S) /\ Next_(S) \in SUBSET U
    BY <1>3, <1>4
  <2> HIDE DEF Next_
  <2> QED BY <2>1
<1> HIDE DEF F, Next_, U, D, G, P
<1>6. NInodes \in Nat /\ {Root} \in SUBSET U
  BY <1>2, Sizes
<1>7. \E g : Eq(g)
  <2> HIDE DEF Eq
  <2>1. \A S \in SUBSET U : F[S] \in SUBSET U
    BY <1>5
  <2>2. PICK g : Stepped(F, SUBSET U, {Root}, NInodes, g)
    BY <1>6, <2>1, StepsTaken
  <2>3. /\ g \in [0..NInodes -> SUBSET U] /\ g[0] = {Root}
        /\ \A k \in 1..NInodes : g[k] = F[g[k - 1]]
    BY <2>2 DEF Stepped
  <2>4. ASSUME NEW k \in 0..NInodes, k # 0 PROVE g[k] = Next_(g[k - 1])
    <3>1. k \in 1..NInodes /\ k - 1 \in 0..NInodes
      BY <1>6, <2>4
    <3>2. g[k - 1] \in SUBSET U
      BY <2>3, <3>1
    <3> QED BY <1>5, <2>3, <3>1, <3>2
  <2>5. g = [k \in 0..NInodes |-> g[k]]
    BY <2>3
  <2>6. \A k \in 0..NInodes : g[k] = IF k = 0 THEN {Root} ELSE Next_(g[k - 1])
    BY <2>3, <2>4
  <2>7. Eq(g)
    BY <2>5, <2>6 DEF Eq
  <2> QED BY <2>7
<1>8. Eq(s)
  <2> HIDE DEF Eq
  <2> QED BY <1>7, Zenon
<1>9. Resolved = s[NInodes]
  BY Zenon DEF Resolved, Next_
<1> HIDE DEF s
<1>10. s[0] = {Root} /\ \A k \in 1..NInodes : s[k] = Next_(s[k - 1])
  <2>1. s = [k \in 0..NInodes |-> IF k = 0 THEN {Root} ELSE Next_(s[k - 1])]
    BY <1>8, Zenon DEF Eq
  <2> HIDE DEF Eq
  <2>2. 0 \in 0..NInodes /\ \A k \in 1..NInodes : k \in 0..NInodes /\ k # 0
    BY <1>6
  <2>3. s[0] = {Root}
    BY <2>1, <2>2, Zenon
  <2>4. \A k \in 1..NInodes : s[k] = Next_(s[k - 1])
    BY <2>1, <2>2, Zenon
  <2> QED BY <2>3, <2>4
<1>11. 0 \in T
  BY <1>6, <1>10
<1>12. ASSUME NEW k \in 0..NInodes - 1, k \in T PROVE k + 1 \in T
  <2>1. k + 1 \in 1..NInodes /\ (k + 1) - 1 = k /\ k + 1 \in 0..NInodes
    BY <1>6
  <2>2. s[k + 1] = Next_(s[k]) /\ s[k] \in SUBSET U /\ Root \in s[k]
    BY <1>10, <1>12, <2>1
  <2>3. s[k + 1] \in SUBSET U /\ Root \in s[k + 1]
    BY <1>5, <2>2
  <2> QED BY <2>1, <2>3
<1>13. 0..NInodes \subseteq T
  <2> HIDE DEF T
  <2> QED BY <1>6, <1>11, <1>12, UpTo
<1>14. \A k \in 0..NInodes : s[k] \in SUBSET U /\ Root \in s[k]
  BY <1>13
<1>15. Growing(F, U, NInodes, s)
  <2>1. \A k \in 1..NInodes : k - 1 \in 0..NInodes
    BY <1>6
  <2>2. \A k \in 1..NInodes : s[k] = F[s[k - 1]]
    BY <2>1, <1>5, <1>10, <1>14
  <2> QED BY <1>5, <1>10, <1>14, <2>2 DEF Growing
<1>16. IsFiniteSet(U) /\ Cardinality(U) <= NInodes
  BY <1>2, <1>6, FiniteSets
<1>17. F[s[NInodes]] = s[NInodes]
  BY <1>6, <1>15, <1>16, Saturates
<1>18. NInodes \in 0..NInodes
  BY <1>6
<1>19. Next_(Resolved) = Resolved /\ Resolved \in SUBSET U /\ Root \in Resolved
  BY <1>5, <1>9, <1>14, <1>17, <1>18
<1>20. \A d \in Resolved \cap D : Children(d) \subseteq Resolved
  <2>1. \A d \in Resolved \cap D : IsDir(d)
    BY <1>2, <1>4
  <2> QED BY <1>19, <2>1 DEF Next_
<1> QED BY <1>19, <1>20 DEF U, D

(* The way up from a directory goes from parent to parent, and ends where  *)
(* it repeats.                                                             *)
LEMMA WalkUpIs ==
  ASSUME StateInv(vol, inode), NEW e \in Dirs(inode), Root \in WalkUp(e)
  PROVE  /\ WalkUp(e) \subseteq Dirs(inode) /\ e \in WalkUp(e)
         /\ \A c \in WalkUp(e) : Parent(inode)[c] \in WalkUp(e)
<1> DEFINE U == Used(inode)
           D == Dirs(inode)
           G == Entries(inode)
           P == Parent(inode)
           L == LinkCounts(inode)
           B == BlockLists(inode)
           Eq(g) == g = [k \in 0..MaxSteps |->
                           IF k = 0 THEN e ELSE Lookup(inode, g[k - 1], "..")]
           up == CHOOSE g : Eq(g)
           T == {k \in 0..MaxSteps : up[k] \in D}
<1>1. Shows(inode, U, D, G, P, L, B) /\ Tree(U, D, G, P)
  BY StateShows
<1>2. D \in SUBSET Inodes /\ (\A c \in D : P[c] \in D) /\ e \in D /\ MaxSteps \in Nat
      /\ P[Root] = Root
  <2>1. e \in D
    OBVIOUS
  <2> HIDE DEF U, D, G, P
  <2> QED BY <1>1, <2>1, LimitsAssumption DEF Tree
<1> HIDE DEF U, D, G, P, L, B
<1>3. \A c \in D : Lookup(inode, c, "..") = P[c]
  BY <1>1, LookupUp
<1>4. \E g : Eq(g)
  <2> HIDE DEF Eq
  <2>1. PICK g : Stepped(P, D, e, MaxSteps, g)
    BY <1>2, StepsTaken
  <2>2. g \in [0..MaxSteps -> D] /\ g[0] = e /\ \A k \in 1..MaxSteps : g[k] = P[g[k - 1]]
    BY <2>1 DEF Stepped
  <2>3. ASSUME NEW k \in 0..MaxSteps, k # 0 PROVE g[k] = Lookup(inode, g[k - 1], "..")
    <3>1. k \in 1..MaxSteps /\ k - 1 \in 0..MaxSteps
      BY <1>2, <2>3
    <3> QED BY <1>3, <2>2, <3>1
  <2>4. g = [k \in 0..MaxSteps |-> g[k]]
    BY <2>2
  <2>5. \A k \in 0..MaxSteps : g[k] = IF k = 0 THEN e ELSE Lookup(inode, g[k - 1], "..")
    BY <2>2, <2>3
  <2>6. Eq(g)
    BY <2>4, <2>5 DEF Eq
  <2> QED BY <2>6
<1>5. Eq(up)
  <2> HIDE DEF Eq
  <2> QED BY <1>4, Zenon
<1>6. WalkUp(e) = {up[k] : k \in 0..MaxSteps}
  BY Zenon DEF WalkUp
<1> HIDE DEF up
<1>7. up[0] = e /\ \A k \in 1..MaxSteps : up[k] = Lookup(inode, up[k - 1], "..")
  BY <1>2, <1>5
<1>8. 0 \in T
  BY <1>2, <1>7
<1>9. ASSUME NEW k \in 0..MaxSteps - 1, k \in T PROVE k + 1 \in T
  <2>1. k + 1 \in 1..MaxSteps /\ (k + 1) - 1 = k /\ k + 1 \in 0..MaxSteps
    BY <1>2
  <2>2. up[k + 1] = Lookup(inode, up[k], "..") /\ up[k] \in D
    BY <1>7, <1>9, <2>1
  <2>3. up[k + 1] \in D
    BY <1>2, <1>3, <2>2
  <2> QED BY <2>1, <2>3
<1>10. 0..MaxSteps \subseteq T
  <2> HIDE DEF T
  <2> QED BY <1>2, <1>8, <1>9, UpTo
<1>11. \A k \in 0..MaxSteps : up[k] \in D
  BY <1>10
<1>12. ASSUME NEW k \in 1..MaxSteps PROVE up[k] = P[up[k - 1]]
  <2>1. k - 1 \in 0..MaxSteps
    BY <1>2
  <2> QED BY <2>1, <1>3, <1>7, <1>11
<1>13. PICK r \in 0..MaxSteps : up[r] = Root
  BY <1>6
<1>14. up[MaxSteps] = Root
  <2> DEFINE S == {k \in 0..MaxSteps : k >= r => up[k] = Root}
  <2>1. 0 \in S
    BY <1>2, <1>13
  <2>2. ASSUME NEW k \in 0..MaxSteps - 1, k \in S PROVE k + 1 \in S
    <3>1. k + 1 \in 1..MaxSteps /\ (k + 1) - 1 = k /\ k + 1 \in 0..MaxSteps
      BY <1>2
    <3>2. up[k + 1] = P[up[k]]
      BY <1>12, <3>1
    <3>3. CASE k >= r
      BY <1>2, <2>2, <3>1, <3>2, <3>3
    <3>4. CASE ~(k >= r)
      <4>1. k + 1 >= r => k + 1 = r
        BY <1>2, <3>4
      <4> QED BY <1>13, <3>1, <4>1
    <3> QED BY <3>3, <3>4
  <2>3. 0..MaxSteps \subseteq S
    <3> HIDE DEF S
    <3> QED BY <1>2, <2>1, <2>2, UpTo
  <2> QED BY <1>2, <2>3
<1>15. \A k \in 0..MaxSteps : P[up[k]] \in WalkUp(e)
  <2> SUFFICES ASSUME NEW k \in 0..MaxSteps PROVE P[up[k]] \in WalkUp(e)
    OBVIOUS
  <2>1. CASE k = MaxSteps
    BY <1>2, <1>6, <1>13, <1>14, <2>1
  <2>2. CASE k # MaxSteps
    <3>1. k + 1 \in 1..MaxSteps /\ (k + 1) - 1 = k /\ k + 1 \in 0..MaxSteps
      BY <1>2, <2>2
    <3>2. up[k + 1] = P[up[k]]
      BY <1>12, <3>1
    <3> QED BY <1>6, <3>1, <3>2
  <2> QED BY <2>1, <2>2
<1>16. e \in WalkUp(e)
  <2>1. 0 \in 0..MaxSteps
    BY <1>2
  <2> QED BY <2>1, <1>6, <1>7
<1> QED BY <1>6, <1>11, <1>15, <1>16 DEF D, P

(* No directory is above itself: its parent and those above are apart.     *)
LEMMA NoLoop ==
  ASSUME NEW t, NEW U, U = Used(t), NEW D, D = Dirs(t), NEW G, G = Entries(t),
         NEW P, P = Parent(t), Tree(U, D, G, P), NEW y \in G, y[4] \in D
  PROVE  Apart(t, y[1], y[4])
<1> DEFINE c == y[4]
           Way(W, j) == W \in SUBSET D /\ j \in W /\ c \notin W /\ \A k \in W : P[k] \in W
           X == {j \in Inodes : j \in D => \E W : Way(W, j)}
<1>1. /\ U \subseteq Inodes /\ D \subseteq U /\ Root \in D /\ P[Root] = Root
      /\ \A x \in G : x[1] \in D /\ x[4] \in U
      /\ \A x \in G : x[4] \in D => P[x[4]] = x[1] /\ x[4] # Root
      /\ Reached(U, G)
  BY DEF Tree
<1>2. c \in D /\ c # Root /\ P[c] = y[1]
  BY <1>1
<1>2a. \A x, z \in G : x[4] = z[4] /\ x[4] \in D => x = z
  BY DEF Tree
<1>3. Root \in X
  <2>1. Way({Root}, Root)
    BY <1>1, <1>2
  <2> HIDE DEF Way
  <2> QED BY <1>1, <2>1
<1>4. CASE \E W : Way(W, y[1])
  BY <1>4 DEF Apart
<1>5. CASE ~\E W : Way(W, y[1])
  <2>1. ASSUME NEW x \in G, x[1] \in X PROVE x[4] \in X
    <3>1. PICK W : Way(W, x[1])
      <4> HIDE DEF Way
      <4> QED BY <1>1, <2>1
    <3>2. CASE x[4] \notin D
      BY <1>1, <3>2
    <3>3. CASE x[4] \in D /\ x[4] # c
      <4>1. Way(W \cup {x[4]}, x[4])
        BY <1>1, <3>1, <3>3
      <4> HIDE DEF Way
      <4> QED BY <1>1, <3>3, <4>1
    <3>4. CASE x[4] = c
      <4>1. x[1] = y[1]
        BY <1>1, <1>2, <3>4
      <4> HIDE DEF Way
      <4> QED BY <1>5, <3>1, <4>1
    <3> QED BY <3>2, <3>3, <3>4
  <2> HIDE DEF Way
  <2>2. X \in SUBSET Inodes
    OBVIOUS
  <2>3. U \subseteq X
    <3> HIDE DEF X
    <3> QED BY <1>1, <1>3, <2>1, <2>2 DEF Reached
  <2>4. y[1] \in D /\ y[1] \in X
    BY <1>1, <2>3
  <2> QED BY <1>5, <2>4
<1> QED BY <1>4, <1>5

LEMMA RenameKeeps ==
  ASSUME StateInv(vol, inode), NEW d \in Dirs(inode), NEW n \in Names,
         NEW e \in Dirs(inode), NEW m \in Names, Rename(d, n, e, m),
         d # e /\ IsDir(Lookup(inode, d, n)) => Root \in WalkUp(e)
  PROVE  StateInv(vol', inode') /\ Moves(inode, inode', d, n, e, m)
<1> DEFINE U == Used(inode)
           D == Dirs(inode)
           G == Entries(inode)
           P == Parent(inode)
           L == LinkCounts(inode)
           B == BlockLists(inode)
           c == Lookup(inode, d, n)
           w == AddedVolume(vol, inode, e)
           a == AddedTable(vol, inode, e, m, c)
           t == RemoveEntry(a, d, n)
           u == SetEntryInode(t, c, "..", e)
           moved == IsDir(c) /\ d # e
           q == [u EXCEPT ![d].links = LinkDown(@), ![e].links = LinkUp(@)]
<1>1. Shows(inode, U, D, G, P, L, B) /\ Tree(U, D, G, P) /\ Linked(U, D, G, L) /\ Exact(vol, U, D, B)
  BY StateShows
<1>2. /\ c # 0 /\ Lookup(inode, e, m) = 0 /\ CanAdd(vol, inode, e)
      /\ (IsDir(c) /\ d # e => c \notin WalkUp(e))
      /\ vol' = w
      /\ IsDir(c) /\ d # e => inode' = q
      /\ ~(IsDir(c) /\ d # e) => inode' = t
  BY Zenon DEF Rename
<1>3. PICK y : FoundAs(inode, d, n, y)
  BY <1>2, Found
<1>4. /\ y \in G /\ y = <<d, y[2], n, c>> /\ y[4] = c /\ y[1] = d
      /\ \A z \in G : z[1] = d /\ z[3] = n => z = y
  BY <1>3 DEF FoundAs
<1>5. /\ c \in U /\ d \in D /\ e \in D /\ c \in Inodes /\ D \subseteq U /\ U \subseteq Inodes
      /\ c \in D <=> IsDir(c)
  <2>1. c \in U
    BY <1>1, <1>4 DEF Tree
  <2> QED BY <2>1 DEF IsDir, Used, Dirs
<1>6. L = [i \in Inodes |-> L[i]] /\ P = [k \in D |-> P[k]]
  BY <1>1, ShownFunctions
<1>7. \A z \in G : ~(z[1] = e /\ z[3] = m)
  BY <1>2, NoNameIs DEF NoName
<1>8. IsDir(c) /\ d # e =>
        WalkUp(e) \subseteq D /\ e \in WalkUp(e) /\ \A k \in WalkUp(e) : P[k] \in WalkUp(e)
  BY WalkUpIs
<1> HIDE DEF U, D, G, P, L, B, c, w, a, t, u, q
<1>9p. PICK p \in AllPlaces : \E C :
      Grew(w, a, U, D, G, P, L, <<e, p, m, c>>, C)
  BY <1>1, <1>2, <1>5, NameAdded DEF w, a
<1>9. PICK C :
      Grew(w, a, U, D, G, P, L, <<e, p, m, c>>, C)
  BY <1>9p, Zenon
<1> DEFINE x == <<e, p, m, c>>
           H == G \cup {x}
           I == H \ {y}
<1>10. x \notin G /\ Shows(a, U, D, H, P, L, C) /\ Exact(w, U, D, C)
  BY <1>9 DEF Grew
<1>11. Shows(t, U, D, I, P, L, C)
  <2> DEFINE r == y[2]
  <2>1. x # y
    BY <1>4, <1>10
  <2>2. d = e => m # n
    BY <1>4, <1>7
  <2>3. y = <<d, r, n, c>>
    BY <1>4
  <2>4. \A z \in H : z[1] = d /\ z[3] = n => z = y
    BY <1>4, <2>2
  <2>5. y \in H
    BY <1>4
  <2> HIDE DEF r, H
  <2>6. <<d, r, n, c>> \in H /\ \A z \in H : z[1] = d /\ z[3] = n => z = <<d, r, n, c>>
    BY <2>3, <2>4, <2>5
  <2>7. Shows(RemoveEntry(a, d, n), U, D, H \ {<<d, r, n, c>>}, P, L, C)
    BY <1>10, <2>6, ShowsRemoved
  <2> QED BY <2>3, <2>7 DEF t
<1>11b. Rowed(inode) /\ d \in Inodes /\ e \in Inodes /\ (c \in D <=> IsDir(c))
  BY <1>1, <1>5, TablesRowed DEF Shows
<1>11c. SameKinds(inode, t)
  <2>1. SameKinds(inode, a)
    BY <1>11b, AddedKinds DEF a
  <2>2. SameKinds(a, t)
    BY <1>11b, <2>1, RemovedKinds DEF t, SameKinds
  <2> QED BY <2>1, <2>2 DEF SameKinds
<1>11d. ASSUME NEW z, Entries(z) = I, SameKinds(inode, z),
               c \in D => Apart(inode, e, c)
        PROVE  Moves(inode, z, d, n, e, m)
  <2>1. MovesAs(inode, z, d, n, e, m, y, x)
    BY <1>3, <1>4, <1>7, <1>11d DEF MovesAs, NoName, G, D, SameKinds
  <2> QED BY <2>1 DEF Moves
<1>12. CASE ~IsDir(c)
  <2>1. Tree(U, D, I, P)
    BY <1>1, <1>4, <1>5, <1>7, <1>12, TreeRenameFile
  <2>2. Linked(U, D, I, L)
    BY <1>1, <1>4, <1>5, <1>10, <1>12, LinksRename
  <2> HIDE DEF I
  <2>3. StateInv(w, t)
    BY <1>10, <1>11, <2>1, <2>2, ShowsState
  <2>4. Moves(inode, t, d, n, e, m)
    BY <1>11, <1>11b, <1>11c, <1>11d, <1>12 DEF Shows
  <2> QED BY <1>2, <1>12, <2>3, <2>4
<1>13. CASE IsDir(c) /\ d = e
  <2>1. Tree(U, D, I, P)
    BY <1>1, <1>4, <1>7, <1>13, TreeRenameInPlace
  <2>2. Linked(U, D, I, L)
    BY <1>1, <1>4, <1>5, <1>10, <1>13, LinksRename
  <2> HIDE DEF I
  <2>3. StateInv(w, t)
    BY <1>10, <1>11, <2>1, <2>2, ShowsState
  <2>4. Apart(inode, d, c)
    <3> HIDE DEF I, H, x
    <3> QED BY <1>1, <1>4, <1>5, <1>13, NoLoop DEF U, D, G, P
  <2>5. Moves(inode, t, d, n, e, m)
    BY <1>11, <1>11c, <1>11d, <1>13, <2>4 DEF Shows
  <2> QED BY <1>2, <1>13, <2>3, <2>5
<1>14. CASE IsDir(c) /\ d # e
  <2> DEFINE Q == [P EXCEPT ![c] = e]
             less == L[d] - 1
             more == L[e] + 1
             K == [L EXCEPT ![d] = less]
             M == [K EXCEPT ![e] = more]
             u1 == [u EXCEPT ![d].links = less]
             u2 == [u1 EXCEPT ![e].links = more]
  <2>1. c \in D /\ c \notin WalkUp(e) /\ e # y[1] /\ e \in Inodes /\ d \in Inodes
    BY <1>2, <1>4, <1>5, <1>14
  <2>2. L[d] \in Nat /\ L[d] >= 2 /\ L[e] \in Nat /\ L[d] \in Counts
    <3>0. L[d] \in Counts
      BY <1>1, <2>1, Rows DEF Shows, LinkCounts
    <3>1. ASSUME NEW k \in D PROVE L[k] \in Nat /\ L[k] >= 2
      <4> DEFINE s == Cardinality(Subs(D, G, k))
      <4>1. L[k] = 2 + s
        BY <1>1, <1>5 DEF Linked
      <4>2. D \in SUBSET Inodes
        BY <1>5
      <4>3. s \in Nat
        BY <4>2, FiniteSubs
      <4> HIDE DEF s
      <4> QED BY <4>1, <4>3
    <3> QED BY <3>0, <3>1, <1>5
  <2>3. Tree(U, D, I, [P EXCEPT ![y[4]] = e])
    <3>1. \A k \in WalkUp(e) : P[k] \in WalkUp(e)
      BY <1>8, <1>14
    <3> QED BY <1>1, <1>4, <1>5, <1>7, <1>8, <1>14, <2>1, <3>1, TreeMove
  <2>4. Linked(U, D, I, M)
    <3>1. M[e] = L[e] + 1 /\ M[y[1]] = L[y[1]] - 1 /\ \A j \in U \ {e, y[1]} : M[j] = L[j]
      BY <1>4, <1>5, <1>6, <1>14
    <3> HIDE DEF M
    <3> QED BY <1>1, <1>4, <1>5, <2>1, <3>1, LinksMove
  <2>5. Q = [P EXCEPT ![y[4]] = e]
    BY <1>4
  <2> HIDE DEF I
  <2>6. Shows(u, U, D, I, Q, L, C)
    BY <1>11, <2>1, ShowsSetUp DEF u
  <2> HIDE DEF Q
  <2>7. less \in Counts /\ more \in Counts /\ d \in U /\ e \in U
        /\ LinkDown(L[d]) = less /\ LinkUp(L[e]) = more
    <3>1. LinkDown(L[d]) = less /\ less \in Counts
      BY <2>2, CountDown
    <3>2. M[e] = 2 + Cardinality(Subs(D, I, e)) /\ M[e] = more
      <4>1. M[e] = more
        BY <1>5, <1>6
      <4> HIDE DEF M
      <4> QED BY <1>5, <2>4, <4>1 DEF Linked
    <3>3. 2 + Cardinality(Subs(D, I, e)) \in Counts
      BY <1>5, <2>6, DirLimit
    <3>4. more \in Counts
      BY <3>2, <3>3
    <3>5. LinkUp(L[e]) = more
      BY <2>2, <3>4, CountUp
    <3> QED BY <1>5, <3>1, <3>4, <3>5
  <2>8. Shows(u1, U, D, I, Q, K, C)
    <3> HIDE DEF less
    <3> QED BY <2>6, <2>7, ShowsLinks
  <2>9. Shows(u2, U, D, I, Q, M, C)
    <3> HIDE DEF more, u1, K
    <3> QED BY <2>7, <2>8, ShowsLinks
  <2>10. q = u2
    <3>1. u \in Tables /\ L = LinkCounts(u)
      BY <2>6 DEF Shows
    <3>2. u[d].links = L[d] /\ u[e].links = L[e]
      BY <2>1, <3>1 DEF LinkCounts
    <3>3. q = [u EXCEPT ![d].links = less, ![e].links = more]
      BY <2>7, <3>2 DEF q
    <3> HIDE DEF less, more
    <3>4. q = [[u EXCEPT ![d].links = less] EXCEPT ![e].links = more]
      BY <3>3
    <3> QED BY <3>4
  <2> HIDE DEF u2, M
  <2>11. StateInv(w, u2)
    <3>1. Tree(U, D, I, Q)
      BY <2>3, <2>5
    <3> QED BY <1>10, <2>4, <2>9, <3>1, ShowsState
  <2>12. SameKinds(inode, u2)
    <3>1. SameKinds(inode, u)
      BY <1>5, <1>11c, SetUpKinds DEF u, SameKinds
    <3> HIDE DEF less, more
    <3>2. SameKinds(u, u1)
      BY <2>1, <3>1, LinkKinds DEF SameKinds
    <3> HIDE DEF u1
    <3>3. SameKinds(u1, u2)
      BY <2>1, <3>2, LinkKinds DEF SameKinds, u2
    <3> QED BY <3>1, <3>2, <3>3 DEF SameKinds
  <2>13. Apart(inode, e, c)
    BY <1>8, <1>14, <2>1 DEF Apart, D, P
  <2>14. Moves(inode, u2, d, n, e, m)
    BY <1>11d, <2>9, <2>12, <2>13 DEF Shows
  <2> QED BY <1>2, <1>14, <2>10, <2>11, <2>14
<1> QED BY <1>12, <1>13, <1>14
---------------------------------------------------------------------------
(* The invariant holds at first, and each step keeps it.                   *)

LEMMA BlankShows ==
  LET t == [i \in Inodes |-> Deleted]
  IN  Shows(t, {}, {}, {}, Parent(t), LinkCounts(t), BlockLists(t))
<1> DEFINE t == [i \in Inodes |-> Deleted]
<1>1. t \in Tables
  BY DeletedRow DEF Tables
<1>2. \A i \in Inodes : t[i] = Deleted /\ t[i].kind = "free" /\ t[i].dir = <<>>
  BY DEF Deleted
<1> HIDE DEF t
<1>3. Formed(t)
  BY <1>2 DEF Formed
<1>4. Used(t) = {} /\ Dirs(t) = {}
  BY <1>2 DEF Used, Dirs
<1>5. Entries(t) = {}
  BY <1>4 DEF Entries
<1> QED BY <1>1, <1>3, <1>4, <1>5 DEF Shows, t

LEMMA InitKeeps ==
  ASSUME Init
  PROVE  /\ StateInv(vol, inode)
         /\ Entries(inode) = {} /\ Used(inode) = {Root} /\ Dirs(inode) = {Root}
<1> DEFINE t == [i \in Inodes |-> Deleted]
           r == NewDir(Root, Root, 1)
           P == Parent(t)
           L == LinkCounts(t)
           B == BlockLists(t)
           U == {Root}
           K == DirLinks(L, Root)
           C == OneBlockAt(B, Root, 1)
<1>1. Root \in Inodes /\ 1 \in Blocks /\ NInodes \in Nat /\ NBlocks \in Nat
  BY Sizes DEF Blocks
<1>2. t \in Tables /\ r \in Records
  BY <1>1, DeletedRow, NewDirRow DEF Tables
<1>3. inode = [t EXCEPT ![Root] = r]
  <2> HIDE DEF r
  <2> QED BY DEF Init, r
<1>4. B = [i \in Inodes |-> <<>>]
  BY DEF BlockLists, Deleted
<1>5. C = [i \in Inodes |-> IF i = Root THEN <<1>> ELSE <<>>]
  BY <1>1, <1>4 DEF OneBlockAt
<1>6. L = [i \in Inodes |-> L[i]]
  BY DEF LinkCounts
<1>7. Shows(t, {}, {}, {}, P, L, B)
  BY BlankShows
<1> HIDE DEF t, r, P, L, B
<1>8. Replaced(t, inode, Root, NewDir(Root, Root, 1))
  BY <1>1, <1>2, <1>3, Replacing DEF r
<1>9. PICK Q : ShowsDir(inode, {}, {}, {}, P, L, B, Root, Root, 1, Q)
  <2>1. Root \in Inodes \ {}
    BY <1>1
  <2> QED BY <1>1, <1>7, <1>8, <2>1, ShowsNewDir
<1>10. Q = [c \in U |-> Q[c]] /\ Q[Root] = Root /\ Shows(inode, U, U, {}, Q, K, C)
  <2>1. {} \cup {Root} = U
    OBVIOUS
  <2> QED BY <1>9, <2>1 DEF ShowsDir
<1>11. Tree(U, U, {}, Q)
  <2>1. Q \in [U -> U]
    BY <1>10
  <2>2. Reached(U, {})
    BY DEF Reached
  <2> QED BY <1>1, <1>10, <2>1, <2>2 DEF Tree
<1>12. Linked(U, U, {}, K)
  <2>1. IsFiniteSet({}) /\ Cardinality({}) = 0
    BY FS_EmptySet
  <2>2. Subs(U, {}, Root) = {}
    BY DEF Subs
  <2>3. K[Root] = 2
    BY <1>1, <1>6 DEF DirLinks
  <2> QED BY <2>1, <2>2, <2>3 DEF Linked
<1>13. Exact(vol, U, U, C)
  <2> DEFINE nb == NBlocks - 1
             ni == NInodes - 1
  <2>1. vol = Vol({1}, nb, U, ni, 1)
    BY DEF Init, Vol
  <2>2. Cardinality({1}) = 1 /\ Cardinality(U) = 1
    BY FS_Singleton
  <2>3. Shared({1}, C)
    <3>0. <<1>> \in Seq(Blocks) /\ <<>> \in Seq(Blocks)
      BY <1>1
    <3>1. C \in [Inodes -> Seq(Blocks)]
      BY <1>1, <1>5, <3>0
    <3>2. \A i \in Inodes : C[i] = IF i = Root THEN <<1>> ELSE <<>>
      BY <1>5
    <3>3. BlocksIn(<<1>>) = {1} /\ BlocksIn(<<>>) = {}
      BY DEF BlocksIn
    <3>4. \A i \in Inodes : BlocksIn(C[i]) = IF i = Root THEN {1} ELSE {}
      BY <3>2, <3>3
    <3>5. {1} = UNION {BlocksIn(C[i]) : i \in Inodes}
      BY <1>1, <3>4
    <3>6. \A i \in Inodes : \A j, k \in DOMAIN C[i] : C[i][j] = C[i][k] => j = k
      BY <3>2
    <3>7. \A i, j \in Inodes : i # j => BlocksIn(C[i]) \cap BlocksIn(C[j]) = {}
      BY <3>4
    <3> QED BY <3>1, <3>5, <3>6, <3>7 DEF Shared
  <2>4. nb \in Int /\ ni \in Int /\ nb = NBlocks - Cardinality({1}) /\ ni = NInodes - Cardinality(U)
        /\ {1} \in SUBSET Blocks /\ U \in SUBSET Inodes /\ 1 = Cardinality(U) /\ 1 \in Int
    BY <1>1, <2>2
  <2> HIDE DEF nb, ni, U
  <2> QED BY <2>1, <2>3, <2>4, IsExact
<1>14. Entries(inode) = {} /\ Used(inode) = {Root} /\ Dirs(inode) = {Root}
  BY <1>10 DEF Shows
<1> HIDE DEF U, K, C
<1> QED BY <1>10, <1>11, <1>12, <1>13, <1>14, ShowsState

(* A step that keeps to the limits.                                        *)
Within == ~LinkOverflows /\ ~RenameTooDeep
LEMMA LinkWithin ==
  ASSUME Within, NEW d \in ResolvedDirs, NEW n \in Names, NEW c \in Resolved, Link(c, d, n)
  PROVE  inode[c].links # MaxLinks
BY Zenon DEF Within, LinkOverflows

LEMMA RenameWithin ==
  ASSUME Within, NEW d \in ResolvedDirs, NEW e \in ResolvedDirs,
         NEW n \in Names, NEW m \in Names, Rename(d, n, e, m)
  PROVE  d # e /\ IsDir(Lookup(inode, d, n)) => Root \in WalkUp(e)
BY Zenon DEF Within, RenameTooDeep

LEMMA NextKeeps ==
  ASSUME StateInv(vol, inode), [Next]_vars, [Within]_vars
  PROVE  StateInv(vol', inode')
<1>1. CASE UNCHANGED vars
  BY <1>1 DEF vars
<1>2. CASE Next /\ Within
  <2>1. PICK d \in ResolvedDirs, n \in Names :
          \/ CreateFile(d, n) \/ Mkdir(d, n)
          \/ \E slow \in BOOLEAN : MakeSymlink(d, n, slow)
          \/ \E c \in Resolved : Link(c, d, n)
          \/ Unlink(d, n) \/ Rmdir(d, n)
          \/ \E e \in ResolvedDirs, m \in Names : Rename(d, n, e, m)
    BY <1>2, Zenon DEF Next
  <2>2. ResolvedDirs \subseteq Dirs(inode) /\ Resolved \subseteq Used(inode)
    BY ResolvedIs DEF ResolvedDirs, IsDir, Used, Dirs
  <2>3. d \in Dirs(inode)
    BY <2>2
  <2>4. CASE CreateFile(d, n)
    BY <2>3, <2>4, CreateFileKeeps
  <2>5. CASE Mkdir(d, n)
    BY <2>3, <2>5, MkdirKeeps
  <2>6. ASSUME NEW slow \in BOOLEAN, MakeSymlink(d, n, slow) PROVE StateInv(vol', inode')
    BY <2>3, <2>6, MakeSymlinkKeeps, Zenon
  <2>7. ASSUME NEW c \in Resolved, Link(c, d, n) PROVE StateInv(vol', inode')
    BY <1>2, <2>2, <2>3, <2>7, LinkWithin, LinkKeeps
  <2>8. CASE Unlink(d, n)
    BY <2>3, <2>8, UnlinkKeeps
  <2>9. CASE Rmdir(d, n)
    BY <2>3, <2>9, RmdirKeeps
  <2>10. ASSUME NEW e \in ResolvedDirs, NEW m \in Names, Rename(d, n, e, m)
         PROVE  StateInv(vol', inode')
    BY <1>2, <2>2, <2>3, <2>10, RenameWithin, RenameKeeps
  <2> QED BY <2>1, <2>4, <2>5, <2>6, <2>7, <2>8, <2>9, <2>10
<1> QED BY <1>1, <1>2

(* The table's layout, the tree, the counts and the bitmaps agree as long  *)
(* as the limits are kept to.                                              *)
THEOREM Inductive == Spec /\ KeptToLimits => []IInv
<1>1. Init => IInv
  BY InitKeeps DEF IInv
<1>2. IInv /\ [Next]_vars /\ [Within]_vars => IInv'
  BY NextKeeps DEF IInv
<1>3. KeptToLimits => [][Within]_vars
  BY PTL DEF KeptToLimits, Within
<1> QED BY <1>1, <1>2, <1>3, PTL DEF Spec
---------------------------------------------------------------------------
(* What the invariant says in the words of the specification.              *)

LEMMA InvTypeOK == ASSUME IInv PROVE TypeOK
<1>1. inode \in Tables /\ Exact(vol, Used(inode), Dirs(inode), BlockLists(inode))
  BY StateShows DEF IInv, StateInv
<1>2. vol \in [blocks : SUBSET Blocks, freeBlocks : 0..NBlocks,
               inodes : SUBSET Inodes, freeInodes : 0..NInodes,
               usedDirs : 0..NInodes, phantom : Nat]
  <2> DEFINE U == Used(inode)
             D == Dirs(inode)
             B == BlockLists(inode)
  <2>1. D \in SUBSET Inodes
    BY DEF Dirs
  <2> HIDE DEF U, D, B
  <2>2. /\ vol = Vol(vol.blocks, NBlocks - Cardinality(vol.blocks), U,
                     NInodes - Cardinality(U), Cardinality(D))
        /\ vol.blocks \in SUBSET Blocks /\ U \in SUBSET Inodes
    BY <1>1, ExactIs DEF U, D, B
  <2>3. Cardinality(vol.blocks) \in 0..NBlocks /\ Cardinality(U) \in 0..NInodes
        /\ Cardinality(D) \in 0..NInodes
    BY <2>1, <2>2, FiniteSets
  <2> DEFINE bs == vol.blocks
             nb == NBlocks - Cardinality(bs)
             ni == NInodes - Cardinality(U)
             dirs == Cardinality(D)
  <2>4. nb \in 0..NBlocks /\ ni \in 0..NInodes /\ dirs \in 0..NInodes
        /\ bs \in SUBSET Blocks
    BY <2>2, <2>3, Sizes
  <2>5. vol = Vol(bs, nb, U, ni, dirs)
    BY <2>2
  <2> HIDE DEF bs, nb, ni, dirs
  <2> QED BY <2>2, <2>4, <2>5 DEF Vol
<1>3. ASSUME NEW i \in Inodes
      PROVE  /\ inode[i].kind \in {"free", "reg", "dir", "link"}
             /\ inode[i].links \in 0..MaxLinks
             /\ inode[i].blocks \in Seq(Blocks)
             /\ \A b \in DOMAIN inode[i].dir :
                  inode[i].dir[b] \in [Slots -> [name : Names \cup {"", ".", ".."},
                                                 ino : 0..NInodes]]
  <2>1. /\ inode[i].kind \in Kinds /\ inode[i].links \in Counts
        /\ inode[i].blocks \in Seq(Blocks) /\ inode[i].dir \in Seq(DirBlocks)
    BY <1>1, Rows
  <2>2. \A b \in DOMAIN inode[i].dir : inode[i].dir[b] \in DirBlocks
    BY <2>1
  <2> QED BY <2>1, <2>2 DEF Kinds, DirBlocks, DirEntries, Counts
<1> QED BY <1>2, <1>3 DEF TypeOK

LEMMA InvNothingStray == ASSUME IInv PROVE NothingStray
<1> DEFINE U == Used(inode)
           D == Dirs(inode)
           B == BlockLists(inode)
<1>1. Exact(vol, U, D, B) /\ inode \in Tables /\ Formed(inode)
  BY StateShows DEF IInv, StateInv
<1>2. InUse = U /\ DirsInUse = D
  BY DEF InUse, DirsInUse, IsDir, Used, Dirs
<1>3. \A i \in Inodes : BlocksOf(i) = BlocksIn(B[i])
  BY DEF BlocksOf, BlocksIn, BlockLists
<1>4. \A i \in Inodes \ U : BlocksIn(B[i]) = {}
  <2>1. \A i \in Inodes \ U : B[i] = <<>>
    BY <1>1, BlankRow
  <2> QED BY <2>1 DEF BlocksIn
<1>5. U \subseteq Inodes
  BY DEF Used
<1> HIDE DEF U, D, B
<1>6. /\ vol.inodes = U /\ vol.freeInodes = NInodes - Cardinality(U)
      /\ vol.usedDirs = Cardinality(D)
      /\ vol.blocks = UNION {BlocksIn(B[i]) : i \in Inodes}
      /\ vol.freeBlocks = NBlocks - Cardinality(vol.blocks)
      /\ vol.phantom = 0
      /\ \A i, j \in Inodes : i # j => BlocksIn(B[i]) \cap BlocksIn(B[j]) = {}
  BY <1>1 DEF Exact
<1>7. vol.blocks = UNION {BlocksOf(i) : i \in U}
  BY <1>3, <1>4, <1>5, <1>6
<1>8. \A i, j \in U : i # j => BlocksOf(i) \cap BlocksOf(j) = {}
  BY <1>3, <1>5, <1>6
<1> QED BY <1>2, <1>6, <1>7, <1>8 DEF NothingStray

(* No directory is in itself.                                              *)
LEMMA NotInItself ==
  ASSUME NEW U, NEW D, NEW G, NEW P, Tree(U, D, G, P), NEW x \in G, x[4] \in D
  PROVE  x[1] # x[4]
<1> DEFINE X == U \ {x[4]}
<1>1. /\ U \subseteq Inodes /\ D \subseteq U /\ Root \in D
      /\ \A z \in G : z[4] \in U
      /\ \A z, y \in G : z[4] = y[4] /\ z[4] \in D => z = y
      /\ \A z \in G : z[4] \in D => z[4] # Root
      /\ Reached(U, G)
  BY DEF Tree
<1>2. SUFFICES ASSUME x[1] = x[4] PROVE FALSE
  OBVIOUS
<1>3. Root \in X /\ X \in SUBSET Inodes
  BY <1>1
<1>4. \A z \in G : z[1] \in X => z[4] \in X
  BY <1>1, <1>2
<1>5. U \subseteq X
  <2> HIDE DEF X
  <2> QED BY <1>1, <1>3, <1>4 DEF Reached
<1> QED BY <1>1, <1>5

(* The entries of the table, in the words of the specification.            *)
LEMMA EntriesOfAre ==
  ASSUME IInv, NEW c \in Inodes
  PROVE  \A z : z \in EntriesOf(c) <=> \E x \in Entries(inode) : x[4] = c /\ z = <<x[1], x[2]>>
<1>1. inode \in Tables /\ Formed(inode)
  BY DEF IInv, StateInv
<1>2. DirsInUse = Dirs(inode)
  BY DEF InUse, DirsInUse, IsDir, Dirs
<1>3. ASSUME NEW x \in Entries(inode), x[4] = c PROVE <<x[1], x[2]>> \in EntriesOf(c)
  <2>1. /\ x[1] \in Dirs(inode) /\ x[2] \in Places(inode, x[1]) /\ x[3] \in Names
        /\ At(inode, x[1], x[2]) = Entry(x[3], x[4])
    BY EntryOf
  <2>2. At(inode, x[1], x[2]).ino = c /\ At(inode, x[1], x[2]).name \in Names
    BY <1>3, <2>1 DEF Entry
  <2> QED BY <1>2, <2>1, <2>2 DEF EntriesOf
<1>4. ASSUME NEW z \in EntriesOf(c)
      PROVE  \E x \in Entries(inode) : x[4] = c /\ z = <<x[1], x[2]>>
  <2>0. PICK d \in Dirs(inode) : \E p \in Places(inode, d) :
          z = <<d, p>> /\ At(inode, d, p).ino = c /\ At(inode, d, p).name \in Names
    BY <1>2 DEF EntriesOf
  <2>1. PICK p \in Places(inode, d) :
          z = <<d, p>> /\ At(inode, d, p).ino = c /\ At(inode, d, p).name \in Names
    BY <2>0
  <2> DEFINE n == At(inode, d, p).name
  <2>2. d \in Inodes
    BY DEF Dirs
  <2>3. At(inode, d, p) = Entry(n, c)
    BY <1>1, <2>1, <2>2, PlaceIn
  <2>4. n \in Names
    BY <2>1
  <2> HIDE DEF n
  <2>5. <<d, p, n, c>> \in Entries(inode)
    BY <1>1, <2>3, <2>4, EntryIn
  <2> QED BY <2>1, <2>5
<1> QED BY <1>3, <1>4

LEMMA InvLinksAgree == ASSUME IInv PROVE LinksAgree
<1> DEFINE U == Used(inode)
           D == Dirs(inode)
           G == Entries(inode)
           P == Parent(inode)
           L == LinkCounts(inode)
           B == BlockLists(inode)
<1>1. Shows(inode, U, D, G, P, L, B) /\ Tree(U, D, G, P) /\ Linked(U, D, G, L)
  BY StateShows DEF IInv
<1>2. InUse = U /\ U \subseteq Inodes /\ D \subseteq U /\ \A i \in U : IsDir(i) <=> i \in D
  BY DEF InUse, IsDir, Used, Dirs
<1>3. \A i \in U : inode[i].links = L[i]
  BY <1>2 DEF LinkCounts
<1>4. ASSUME NEW d \in D PROVE SubDirs(d) = Subs(D, G, d)
  <2>1. inode \in Tables /\ Formed(inode) /\ d \in Inodes
    BY <1>1, <1>2 DEF Shows
  <2>2. ASSUME NEW c \in Subs(D, G, d) PROVE c \in SubDirs(d)
    <3>1. PICK x \in G : x[1] = d /\ x[4] = c
      BY DEF Subs
    <3>2. c \in D /\ c \in U
      BY <1>2 DEF Subs
    <3>3. x[1] # x[4]
      <4> HIDE DEF U, D, G, P, L, B
      <4> QED BY <1>1, <3>1, <3>2, NotInItself
    <3>4. x[2] \in Places(inode, d) /\ At(inode, d, x[2]) = Entry(x[3], c) /\ x[3] \in Names
      BY <3>1, EntryOf
    <3>5. c \in Children(d)
      <4> HIDE DEF U, D, G, P, L, B
      <4> QED BY <1>1, <3>1, ChildrenAre
    <3> QED BY <1>2, <3>1, <3>2, <3>3, <3>4, <3>5 DEF SubDirs
  <2>3. ASSUME NEW c \in SubDirs(d) PROVE c \in Subs(D, G, d)
    <3>1. c \in Children(d) /\ IsDir(c) /\ c # d
      BY DEF SubDirs
    <3>2. PICK p \in Places(inode, d), n \in Names : At(inode, d, p) = Entry(n, c)
      BY DEF SubDirs
    <3>3. c \in Inodes
      <4>1. c \in 0..NInodes
        <5>1. At(inode, d, p).ino \in 0..NInodes
          BY <2>1, PlaceIn
        <5>2. At(inode, d, p).ino = c
          BY <3>2 DEF Entry
        <5> QED BY <5>1, <5>2
      <4>2. c # 0
        BY <3>1 DEF Children
      <4> QED BY <4>1, <4>2, Sizes DEF Inodes
    <3>4. <<d, p, n, c>> \in G
      BY <2>1, <3>2, <3>3, EntryIn
    <3>5. c \in D
      BY <3>1, <3>3 DEF IsDir, Dirs
    <3> QED BY <3>4, <3>5 DEF Subs
  <2> QED BY <2>2, <2>3
<1>5. ASSUME NEW i \in U PROVE Cardinality(EntriesOf(i)) = Cardinality(To(G, i))
  <2> DEFINE f == [x \in To(G, i) |-> <<x[1], x[2]>>]
  <2>1. IsFiniteSet(To(G, i))
    <3>1. IsFiniteSet(G)
      BY <1>1 DEF Linked
    <3> QED BY <3>1, FiniteTo
  <2>2. \A z : z \in EntriesOf(i) <=> \E x \in To(G, i) : z = <<x[1], x[2]>>
    BY <1>2, EntriesOfAre DEF To
  <2>3. ASSUME NEW x \in To(G, i), NEW y \in To(G, i), x[1] = y[1], x[2] = y[2] PROVE x = y
    <3>1. x \in G /\ y \in G /\ x[4] = i /\ y[4] = i
      BY DEF To
    <3>2. x = <<x[1], x[2], x[3], x[4]>> /\ At(inode, x[1], x[2]) = Entry(x[3], x[4])
      BY <3>1, EntryOf
    <3>3. y = <<y[1], y[2], y[3], y[4]>> /\ At(inode, y[1], y[2]) = Entry(y[3], y[4])
      BY <3>1, EntryOf
    <3>4. x[3] = y[3]
      BY <2>3, <3>2, <3>3 DEF Entry
    <3> QED BY <2>3, <3>1, <3>2, <3>3, <3>4
  <2> HIDE DEF G
  <2>4. f \in [To(G, i) -> EntriesOf(i)]
    BY <2>2
  <2>5. \A x, y \in To(G, i) : f[x] = f[y] => x = y
    BY <2>3
  <2>6. \A z \in EntriesOf(i) : \E x \in To(G, i) : f[x] = z
    BY <2>2
  <2> HIDE DEF f
  <2>7. f \in Bijection(To(G, i), EntriesOf(i))
    BY <2>4, <2>5, <2>6 DEF Bijection, Injection, Surjection, IsInjective
  <2> QED BY <2>1, <2>7, FS_Bijection DEF ExistsBijection
<1> HIDE DEF U, D, G, P, L, B
<1>6. \A i \in U : L[i] = IF i \in D THEN 2 + Cardinality(Subs(D, G, i))
                                     ELSE Cardinality(To(G, i))
  BY <1>1 DEF Linked
<1>7. ASSUME NEW i \in U
      PROVE  inode[i].links = IF IsDir(i) THEN 2 + Cardinality(SubDirs(i))
                              ELSE Cardinality(EntriesOf(i))
  BY <1>2, <1>3, <1>4, <1>5, <1>6
<1> QED BY <1>2, <1>7 DEF LinksAgree

LEMMA InvTreeShaped == ASSUME IInv PROVE TreeShaped
<1> DEFINE U == Used(inode)
           D == Dirs(inode)
           G == Entries(inode)
           P == Parent(inode)
           L == LinkCounts(inode)
           B == BlockLists(inode)
<1>1. Shows(inode, U, D, G, P, L, B) /\ Tree(U, D, G, P)
  BY StateShows DEF IInv
<1>2. InUse = U /\ U \subseteq Inodes /\ D \subseteq U /\ DirsInUse = D
  BY DEF InUse, DirsInUse, IsDir, Used, Dirs
<1>3. /\ Resolved \subseteq U /\ Root \in Resolved
      /\ \A d \in Resolved \cap D : Children(d) \subseteq Resolved
  BY ResolvedIs DEF IInv
<1>4. \A i \in Inodes : \A z : z \in EntriesOf(i) <=>
                                 \E x \in G : x[4] = i /\ z = <<x[1], x[2]>>
  BY EntriesOfAre
<1> HIDE DEF U, D, G, P, L, B
<1>5. U \subseteq Resolved
  <2>1. ASSUME NEW x \in G, x[1] \in Resolved PROVE x[4] \in Resolved
    <3>1. x[1] \in D
      BY <1>1 DEF Tree
    <3>2. x[4] \in Children(x[1])
      BY <1>1, <3>1, ChildrenAre
    <3> QED BY <1>3, <2>1, <3>1, <3>2
  <2>2. Resolved \in SUBSET Inodes /\ Reached(U, G)
    BY <1>1, <1>2, <1>3 DEF Tree
  <2> QED BY <1>3, <2>1, <2>2 DEF Reached
<1>6. ASSUME NEW i \in D \ {Root}
      PROVE  \E e \in EntriesOf(i) : EntriesOf(i) = {e} /\ Lookup(inode, i, "..") = e[1]
  <2>1. PICK x \in G : x[4] = i
    BY <1>1, <1>2, HasName
  <2>2. \A y \in G : y[4] = i => y = x
    BY <1>1, <2>1 DEF Tree
  <2>3. P[i] = x[1]
    BY <1>1, <2>1 DEF Tree
  <2>4. Lookup(inode, i, "..") = P[i]
    BY <1>1, LookupUp
  <2> DEFINE e == <<x[1], x[2]>>
  <2>5. \A z : z \in EntriesOf(i) <=> z = e
    BY <1>2, <1>4, <2>1, <2>2
  <2>6. e[1] = x[1]
    OBVIOUS
  <2> HIDE DEF e
  <2>7. e \in EntriesOf(i) /\ EntriesOf(i) = {e}
    BY <2>5
  <2> QED BY <2>3, <2>4, <2>6, <2>7
<1> QED BY <1>2, <1>5, <1>6 DEF TreeShaped

(* Each inode's row and both bitmaps are what their types say, whatever    *)
(* operations are made within the limits (esp32s3-ext4-writer.adb).        *)
THEOREM TypeCorrect == Spec /\ KeptToLimits => []TypeOK
<1>1. IInv => TypeOK
  BY InvTypeOK
<1> QED BY <1>1, Inductive, PTL

(* The link count of every file is the number of its names, and of every   *)
(* directory two and one for each directory in it, however creations fail  *)
(* and names are moved (writer.adb:435, 660, 737-750), while no file is    *)
(* given one name more than its U16 holds, for Link counts up unchecked    *)
(* (writer.adb:907).  A directory's count cannot come so far.              *)
THEOREM LinkCountsAgree == Spec /\ KeptToLimits => []LinksAgree
<1>1. IInv => LinksAgree
  BY InvLinksAgree
<1> QED BY <1>1, Inductive, PTL

(* Directories are a tree: a path leads to every inode in use, and each    *)
(* directory has one name, where its ".." leads, as long as no directory   *)
(* is moved deeper than the walk of Rename reaches (writer.adb:697-725).   *)
THEOREM TreeStaysWhole == Spec /\ KeptToLimits => []TreeShaped
<1>1. IInv => TreeShaped
  BY InvTreeShaped
<1> QED BY <1>1, Inductive, PTL

(* The bitmaps and their counts agree with the inode table, no block is in *)
(* two files, and nothing is lost when an operation fails half way         *)
(* (writer.adb:382-389), within the same limits.                           *)
THEOREM NothingIsStray == Spec /\ KeptToLimits => []NothingStray
<1>1. IInv => NothingStray
  BY InvNothingStray
<1> QED BY <1>1, Inductive, PTL
---------------------------------------------------------------------------
(* The tree of names.  Of kinds K and of the nodes N that each inode names *)
(* it is TreeOf(K, N).                                                     *)
NodesIn(t) == [j \in Inodes |-> [m \in Names |-> Lookup(t, j, m)]]
NodeMaps == [Inodes -> [Names -> 0..NInodes]]
Held(K) == {j \in Inodes : K[j] # "free"}
Called(N, i) == [n \in {m \in Names : N[i][m] # 0} |-> N[i][n]]
TreeOf(K, N) == [i \in Held(K) |-> [kind |-> K[i], names |-> Called(N, i)]]
Naming(N, d, n, c) ==
  [j \in Inodes |-> [m \in Names |-> IF j = d /\ m = n THEN c ELSE N[j][m]]]

LEMMA LookupAt ==
  ASSUME NEW v, NEW t, StateInv(v, t), NEW j \in Inodes, NEW m \in Names
  PROVE  /\ \A x \in Entries(t) : x[1] = j /\ x[3] = m => Lookup(t, j, m) = x[4] /\ x[4] \in Inodes
         /\ NoName(t, j, m) => Lookup(t, j, m) = 0
         /\ Lookup(t, j, m) \in 0..NInodes
<1> DEFINE U == Used(t)
           D == Dirs(t)
           G == Entries(t)
           P == Parent(t)
           L == LinkCounts(t)
           B == BlockLists(t)
<1>1. Shows(t, U, D, G, P, L, B) /\ Unique(G)
  BY StateShows DEF Tree, Unique
<1>2. \A x \in G : x[1] \in D /\ x[4] \in Inodes
  BY EntryOf
<1>3. CASE j \in D
  <2> HIDE DEF U, D, G, P, L, B
  <2>1. /\ Lookup(t, j, m) = 0 <=> (\A y \in G : ~(y[1] = j /\ y[3] = m))
        /\ \A y \in G : y[1] = j /\ y[3] = m => y[4] = Lookup(t, j, m)
    BY <1>1, <1>3, LookupIs
  <2>2. Lookup(t, j, m) = 0 \/ Lookup(t, j, m) \in Inodes
    BY <1>2, <2>1
  <2> QED BY <1>2, <2>1, <2>2, Sizes DEF NoName, G, Inodes
<1>4. CASE j \notin D
  <2>1. t[j].dir = <<>>
    BY <1>1, <1>4 DEF Shows, Formed, Dirs
  <2>2. DOMAIN t[j].dir = {}
    BY <2>1
  <2>3. Places(t, j) = {}
    BY <2>2 DEF Places
  <2>4. Lookup(t, j, m) = 0
    BY <2>3, Zenon DEF Named, Lookup
  <2> QED BY <1>2, <1>4, <2>4, Sizes
<1> QED BY <1>3, <1>4

LEMMA NodesTyped == ASSUME NEW v, NEW t, StateInv(v, t) PROVE NodesIn(t) \in NodeMaps
BY LookupAt DEF NodesIn, NodeMaps

LEMMA NodeMapsAre ==
  ASSUME NEW M, NEW N, M = [j \in Inodes |-> [m \in Names |-> M[j][m]]],
         N = [j \in Inodes |-> [m \in Names |-> N[j][m]]],
         \A j \in Inodes : \A m \in Names : M[j][m] = N[j][m]
  PROVE  M = N
<1>1. \A j \in Inodes : [m \in Names |-> M[j][m]] = [m \in Names |-> N[j][m]]
  OBVIOUS
<1> QED BY <1>1

(* What happens to the nodes named when an entry is put in or taken out.   *)
LEMMA NodesEntered ==
  ASSUME NEW v, NEW t, StateInv(v, t), NEW w, NEW u, StateInv(w, u),
         NEW d \in Inodes, NEW n \in Names, NEW c, NoName(t, d, n), Enters(t, u, d, n, c)
  PROVE  NodesIn(u) = Naming(NodesIn(t), d, n, c)
<1>1. PICK p \in AllPlaces : Entries(u) = Entries(t) \cup {<<d, p, n, c>>}
  BY DEF Enters
<1>2. ASSUME NEW j \in Inodes, NEW m \in Names
      PROVE  Lookup(u, j, m) = IF j = d /\ m = n THEN c ELSE Lookup(t, j, m)
  <2>1. CASE j = d /\ m = n
    <3> DEFINE x == <<d, p, n, c>>
    <3>1. x \in Entries(u) /\ x[1] = d /\ x[3] = n /\ x[4] = c
      BY <1>1
    <3> HIDE DEF x
    <3> QED BY <2>1, <3>1, LookupAt
  <2>2. CASE ~(j = d /\ m = n)
    <3>1. \A x : x \in Entries(u) /\ x[1] = j /\ x[3] = m
                   <=> x \in Entries(t) /\ x[1] = j /\ x[3] = m
      BY <1>1, <2>2
    <3>2. CASE NoName(t, j, m)
      <4>1. NoName(u, j, m)
        BY <3>1, <3>2 DEF NoName
      <4> QED BY <2>2, <3>2, <4>1, LookupAt
    <3>3. CASE ~NoName(t, j, m)
      <4>1. PICK x \in Entries(t) : x[1] = j /\ x[3] = m
        BY <3>3 DEF NoName
      <4>2. Lookup(t, j, m) = x[4]
        BY <4>1, LookupAt
      <4>3. Lookup(u, j, m) = x[4]
        BY <3>1, <4>1, LookupAt
      <4> QED BY <2>2, <4>2, <4>3
    <3> QED BY <3>2, <3>3
  <2> QED BY <2>1, <2>2
<1> QED BY <1>2 DEF NodesIn, Naming

LEMMA NodesLeft ==
  ASSUME NEW v, NEW t, StateInv(v, t), NEW w, NEW u, StateInv(w, u),
         NEW d \in Inodes, NEW n \in Names, NEW x, FoundAs(t, d, n, x),
         Entries(u) = Entries(t) \ {x}
  PROVE  NodesIn(u) = Naming(NodesIn(t), d, n, 0)
<1>0. x[1] = d /\ x[3] = n /\ \A z \in Entries(t) : z[1] = d /\ z[3] = n => z = x
  BY DEF FoundAs
<1>2. ASSUME NEW j \in Inodes, NEW m \in Names
      PROVE  Lookup(u, j, m) = IF j = d /\ m = n THEN 0 ELSE Lookup(t, j, m)
  <2>1. CASE j = d /\ m = n
    <3>1. NoName(u, j, m)
      BY <1>0, <2>1 DEF NoName
    <3> QED BY <2>1, <3>1, LookupAt
  <2>2. CASE ~(j = d /\ m = n)
    <3>1. \A z : z \in Entries(u) /\ z[1] = j /\ z[3] = m
                   <=> z \in Entries(t) /\ z[1] = j /\ z[3] = m
      BY <1>0, <2>2
    <3>2. CASE NoName(t, j, m)
      <4>1. NoName(u, j, m)
        BY <3>1, <3>2 DEF NoName
      <4> QED BY <2>2, <3>2, <4>1, LookupAt
    <3>3. CASE ~NoName(t, j, m)
      <4>1. PICK z \in Entries(t) : z[1] = j /\ z[3] = m
        BY <3>3 DEF NoName
      <4>2. Lookup(t, j, m) = z[4]
        BY <4>1, LookupAt
      <4>3. Lookup(u, j, m) = z[4]
        BY <3>1, <4>1, LookupAt
      <4> QED BY <2>2, <4>2, <4>3
    <3> QED BY <3>2, <3>3
  <2> QED BY <2>1, <2>2
<1> QED BY <1>2 DEF NodesIn, Naming

LEMMA NodesMoved ==
  ASSUME NEW v, NEW t, StateInv(v, t), NEW w, NEW u, StateInv(w, u),
         NEW d \in Inodes, NEW n \in Names, NEW e \in Inodes, NEW m \in Names,
         NEW y, NEW x, MovesAs(t, u, d, n, e, m, y, x)
  PROVE  NodesIn(u) = Naming(Naming(NodesIn(t), e, m, y[4]), d, n, 0)
<1>0. y[1] = d /\ y[3] = n /\ (\A z \in Entries(t) : z[1] = d /\ z[3] = n => z = y)
      /\ y \in Entries(t)
  BY DEF MovesAs, FoundAs
<1>1. /\ x[1] = e /\ x[3] = m /\ x[4] = y[4] /\ NoName(t, e, m)
      /\ Entries(u) = (Entries(t) \cup {x}) \ {y}
  BY DEF MovesAs
<1>2. ASSUME NEW j \in Inodes, NEW k \in Names
      PROVE  Lookup(u, j, k) = IF j = d /\ k = n THEN 0
                               ELSE IF j = e /\ k = m THEN y[4] ELSE Lookup(t, j, k)
  <2>1. CASE j = d /\ k = n
    <3>1. ~(e = d /\ m = n)
      BY <1>0, <1>1 DEF NoName
    <3>2. NoName(u, j, k)
      BY <1>0, <1>1, <2>1, <3>1 DEF NoName
    <3> QED BY <2>1, <3>2, LookupAt
  <2>2. CASE ~(j = d /\ k = n) /\ j = e /\ k = m
    <3>1. x \in Entries(u)
      BY <1>0, <1>1, <2>2
    <3> QED BY <1>1, <2>2, <3>1, LookupAt
  <2>3. CASE ~(j = d /\ k = n) /\ ~(j = e /\ k = m)
    <3>1. \A z : z \in Entries(u) /\ z[1] = j /\ z[3] = k
                   <=> z \in Entries(t) /\ z[1] = j /\ z[3] = k
      BY <1>0, <1>1, <2>3
    <3>2. CASE NoName(t, j, k)
      <4>1. NoName(u, j, k)
        BY <3>1, <3>2 DEF NoName
      <4> QED BY <2>3, <3>2, <4>1, LookupAt
    <3>3. CASE ~NoName(t, j, k)
      <4>1. PICK z \in Entries(t) : z[1] = j /\ z[3] = k
        BY <3>3 DEF NoName
      <4>2. Lookup(t, j, k) = z[4]
        BY <4>1, LookupAt
      <4>3. Lookup(u, j, k) = z[4]
        BY <3>1, <4>1, LookupAt
      <4> QED BY <2>3, <4>2, <4>3
    <3> QED BY <3>2, <3>3
  <2> QED BY <2>1, <2>2, <2>3
<1> DEFINE N == NodesIn(t)
           M == Naming(Naming(N, e, m, y[4]), d, n, 0)
<1>3. \A j \in Inodes : \A k \in Names : N[j][k] = Lookup(t, j, k)
  BY DEF NodesIn
<1>4. \A j \in Inodes : \A k \in Names : NodesIn(u)[j][k] = Lookup(u, j, k)
  BY DEF NodesIn
<1>5. \A j \in Inodes : \A k \in Names :
        M[j][k] = IF j = d /\ k = n THEN 0 ELSE IF j = e /\ k = m THEN y[4] ELSE N[j][k]
  BY DEF Naming
<1>6. \A j \in Inodes : \A k \in Names : NodesIn(u)[j][k] = M[j][k]
  BY <1>2, <1>3, <1>4, <1>5
<1>7. M = [j \in Inodes |-> [k \in Names |-> M[j][k]]]
  BY <1>5 DEF Naming
<1>8. NodesIn(u) = [j \in Inodes |-> [k \in Names |-> NodesIn(u)[j][k]]]
  BY <1>4 DEF NodesIn
<1> HIDE DEF M
<1>9. NodesIn(u) = M
  BY <1>6, <1>7, <1>8, NodeMapsAre
<1> QED BY <1>9 DEF M
---------------------------------------------------------------------------
(* The tree of names under each change.                                    *)
LEMMA TreeShown ==
  ASSUME NEW K, NEW N
  PROVE  /\ DOMAIN TreeOf(K, N) = Held(K)
         /\ \A i \in Held(K) : /\ TreeOf(K, N)[i].kind = K[i]
                               /\ TreeOf(K, N)[i].names = Called(N, i)
                               /\ TreeOf(K, N)[i] = [kind |-> K[i], names |-> Called(N, i)]
         /\ \A i : DOMAIN Called(N, i) = {m \in Names : N[i][m] # 0}
         /\ \A i, m : m \in Names /\ N[i][m] # 0 => Called(N, i)[m] = N[i][m]
BY DEF TreeOf, Called

LEMMA SameTree ==
  ASSUME NEW K, NEW N, NEW T, T = [i \in DOMAIN T |-> T[i]], DOMAIN T = Held(K),
         \A i \in Held(K) : T[i] = [kind |-> K[i], names |-> Called(N, i)]
  PROVE  T = TreeOf(K, N)
BY DEF TreeOf

LEMMA SameCalled ==
  ASSUME NEW M, NEW N, NEW i, \A m \in Names : M[i][m] = N[i][m]
  PROVE  Called(M, i) = Called(N, i)
<1>1. {m \in Names : M[i][m] # 0} = {m \in Names : N[i][m] # 0}
  OBVIOUS
<1> QED BY <1>1 DEF Called

LEMMA NamingIs ==
  ASSUME NEW N, NEW d, NEW n, NEW c
  PROVE  \A j \in Inodes : \A m \in Names :
           Naming(N, d, n, c)[j][m] = IF j = d /\ m = n THEN c ELSE N[j][m]
BY DEF Naming

LEMMA WithIs ==
  ASSUME NEW K, NEW N, NEW d \in Held(K), NEW n \in Names, NEW c, c # 0
  PROVE  Abstract!With(TreeOf(K, N), d, n, c) = TreeOf(K, Naming(N, d, n, c))
<1> DEFINE T == TreeOf(K, N)
           f == [m \in DOMAIN T[d].names \cup {n} |-> IF m = n THEN c ELSE T[d].names[m]]
           M == Naming(N, d, n, c)
           r == [T[d] EXCEPT !.names = f]
           X == [T EXCEPT ![d] = r]
<1>1. Abstract!With(T, d, n, c) = [T EXCEPT ![d].names = f]
  BY DEF Abstract!With
<1>2. [T EXCEPT ![d].names = f] = X
  OBVIOUS
<1>3. \A j \in Inodes : \A m \in Names : M[j][m] = IF j = d /\ m = n THEN c ELSE N[j][m]
  BY NamingIs
<1>4. DOMAIN T = Held(K) /\ T[d] = [kind |-> K[d], names |-> Called(N, d)]
      /\ \A i \in Held(K) : T[i] = [kind |-> K[i], names |-> Called(N, i)]
  BY TreeShown
<1>5. d \in Inodes /\ Held(K) \subseteq Inodes
  BY DEF Held
<1> HIDE DEF M, T
<1>6. f = Called(M, d)
  <2>1. T[d].names = Called(N, d)
    BY <1>4
  <2>1a. /\ DOMAIN Called(N, d) = {m \in Names : N[d][m] # 0}
         /\ \A m \in Names : N[d][m] # 0 => Called(N, d)[m] = N[d][m]
    BY DEF Called
  <2>1b. \A m \in Names : M[d][m] = IF m = n THEN c ELSE N[d][m]
    BY <1>3, <1>5
  <2>2. DOMAIN T[d].names \cup {n} = {m \in Names : M[d][m] # 0}
    <3>1. \A m \in Names : M[d][m] # 0 <=> m \in {k \in Names : N[d][k] # 0} \cup {n}
      BY <2>1b
    <3> QED BY <2>1, <2>1a, <3>1
  <2>3. \A m \in {k \in Names : M[d][k] # 0} :
          (IF m = n THEN c ELSE T[d].names[m]) = M[d][m]
    BY <2>1, <2>1a, <2>1b
  <2> QED BY <2>2, <2>3 DEF Called
<1> HIDE DEF f
<1>7. r = [kind |-> K[d], names |-> f]
  BY <1>4
<1> HIDE DEF r
<1>8. \A i \in Held(K) : X[i] = [kind |-> K[i], names |-> Called(M, i)]
  <2>1. \A i \in Held(K) \ {d} : Called(M, i) = Called(N, i)
    BY <1>3, <1>5, SameCalled
  <2> QED BY <1>4, <1>6, <1>7, <2>1
<1>9. X = [i \in DOMAIN X |-> X[i]] /\ DOMAIN X = Held(K)
  BY <1>4
<1> HIDE DEF X
<1>10. X = TreeOf(K, M)
  BY <1>8, <1>9, SameTree
<1> QED BY <1>1, <1>2, <1>10 DEF T, M

LEMMA WithoutIs ==
  ASSUME NEW K, NEW N, NEW d \in Held(K), NEW n \in Names
  PROVE  Abstract!Without(TreeOf(K, N), d, n) = TreeOf(K, Naming(N, d, n, 0))
<1> DEFINE T == TreeOf(K, N)
           f == [m \in DOMAIN T[d].names \ {n} |-> T[d].names[m]]
           M == Naming(N, d, n, 0)
           r == [T[d] EXCEPT !.names = f]
           X == [T EXCEPT ![d] = r]
<1>1. Abstract!Without(T, d, n) = [T EXCEPT ![d].names = f]
  BY DEF Abstract!Without
<1>2. [T EXCEPT ![d].names = f] = X
  OBVIOUS
<1>3. \A j \in Inodes : \A m \in Names : M[j][m] = IF j = d /\ m = n THEN 0 ELSE N[j][m]
  BY NamingIs
<1>4. DOMAIN T = Held(K) /\ T[d] = [kind |-> K[d], names |-> Called(N, d)]
      /\ \A i \in Held(K) : T[i] = [kind |-> K[i], names |-> Called(N, i)]
  BY TreeShown
<1>5. d \in Inodes /\ Held(K) \subseteq Inodes
  BY DEF Held
<1> HIDE DEF M, T
<1>6. f = Called(M, d)
  <2>1. T[d].names = Called(N, d)
    BY <1>4
  <2>1a. /\ DOMAIN Called(N, d) = {m \in Names : N[d][m] # 0}
         /\ \A m \in Names : N[d][m] # 0 => Called(N, d)[m] = N[d][m]
    BY DEF Called
  <2>1b. \A m \in Names : M[d][m] = IF m = n THEN 0 ELSE N[d][m]
    BY <1>3, <1>5
  <2>2. DOMAIN T[d].names \ {n} = {m \in Names : M[d][m] # 0}
    <3>1. \A m \in Names : M[d][m] # 0 <=> m \in {k \in Names : N[d][k] # 0} \ {n}
      BY <2>1b
    <3> QED BY <2>1, <2>1a, <3>1
  <2>3. \A m \in {k \in Names : M[d][k] # 0} : T[d].names[m] = M[d][m]
    BY <2>1, <2>1a, <2>1b
  <2> QED BY <2>2, <2>3 DEF Called
<1> HIDE DEF f
<1>7. r = [kind |-> K[d], names |-> f]
  BY <1>4
<1> HIDE DEF r
<1>8. \A i \in Held(K) : X[i] = [kind |-> K[i], names |-> Called(M, i)]
  <2>1. \A i \in Held(K) \ {d} : Called(M, i) = Called(N, i)
    BY <1>3, <1>5, SameCalled
  <2> QED BY <1>4, <1>6, <1>7, <2>1
<1>9. X = [i \in DOMAIN X |-> X[i]] /\ DOMAIN X = Held(K)
  BY <1>4
<1> HIDE DEF X
<1>10. X = TreeOf(K, M)
  BY <1>8, <1>9, SameTree
<1> QED BY <1>1, <1>2, <1>10 DEF T, M

(* A node that comes, and one that goes.                                   *)
KindSet(K, c, k) == [K EXCEPT ![c] = k]
LEMMA NodeComes ==
  ASSUME NEW K \in [Inodes -> Kinds], NEW N, NEW c \in Inodes, K[c] = "free",
         NEW k \in Kinds, k # "free", \A m \in Names : N[c][m] = 0
  PROVE  [i \in DOMAIN TreeOf(K, N) \cup {c} |->
            IF i = c THEN [kind |-> k, names |-> Abstract!NoNames] ELSE TreeOf(K, N)[i]]
           = TreeOf(KindSet(K, c, k), N)
<1> DEFINE T == TreeOf(K, N)
           J == KindSet(K, c, k)
           X == [i \in DOMAIN T \cup {c} |->
                   IF i = c THEN [kind |-> k, names |-> Abstract!NoNames] ELSE T[i]]
<1>1. \A i \in Inodes : J[i] = IF i = c THEN k ELSE K[i]
  BY DEF KindSet
<1>2. DOMAIN T = Held(K) /\ \A i \in Held(K) : T[i] = [kind |-> K[i], names |-> Called(N, i)]
  BY TreeShown
<1> HIDE DEF J, T
<1>3. Held(J) = Held(K) \cup {c} /\ c \notin Held(K)
  BY <1>1 DEF Held
<1>4. Called(N, c) = Abstract!NoNames
  <2>1. {m \in Names : N[c][m] # 0} = {}
    OBVIOUS
  <2> QED BY <2>1 DEF Called, Abstract!NoNames
<1>5. \A i \in Held(J) : X[i] = [kind |-> J[i], names |-> Called(N, i)]
  <2>1. Held(J) \subseteq Inodes
    BY DEF Held
  <2> QED BY <1>1, <1>2, <1>3, <1>4, <2>1
<1>6. X = [i \in DOMAIN X |-> X[i]] /\ DOMAIN X = Held(J)
  BY <1>2, <1>3
<1> HIDE DEF X
<1>7. X = TreeOf(J, N)
  BY <1>5, <1>6, SameTree
<1> QED BY <1>7 DEF X, T, J

LEMMA NodeGoes ==
  ASSUME NEW K \in [Inodes -> Kinds], NEW N, NEW c \in Inodes
  PROVE  [i \in DOMAIN TreeOf(K, N) \ {c} |-> TreeOf(K, N)[i]]
           = TreeOf(KindSet(K, c, "free"), N)
<1> DEFINE T == TreeOf(K, N)
           J == KindSet(K, c, "free")
           X == [i \in DOMAIN T \ {c} |-> T[i]]
<1>1. \A i \in Inodes : J[i] = IF i = c THEN "free" ELSE K[i]
  BY DEF KindSet
<1>2. DOMAIN T = Held(K) /\ \A i \in Held(K) : T[i] = [kind |-> K[i], names |-> Called(N, i)]
  BY TreeShown
<1> HIDE DEF J, T
<1>3. Held(J) = Held(K) \ {c}
  BY <1>1 DEF Held
<1>5. \A i \in Held(J) : X[i] = [kind |-> J[i], names |-> Called(N, i)]
  <2>1. Held(J) \subseteq Inodes
    BY DEF Held
  <2> QED BY <1>1, <1>2, <1>3, <2>1
<1>6. X = [i \in DOMAIN X |-> X[i]] /\ DOMAIN X = Held(J)
  BY <1>2, <1>3
<1> HIDE DEF X
<1>7. X = TreeOf(J, N)
  BY <1>5, <1>6, SameTree
<1> QED BY <1>7 DEF X, T, J
---------------------------------------------------------------------------
(* Each operation is a step of the tree of names, or leaves it.            *)
LEMMA NamedTreeIs == NamedTree = TreeOf(KindsOf(inode), NodesIn(inode))
<1> DEFINE K == KindsOf(inode)
           N == NodesIn(inode)
<1>1. InUse = Held(K)
  BY DEF InUse, Held, KindsOf
<1>2. ASSUME NEW i \in Held(K)
      PROVE  NamesOf(i) = Called(N, i) /\ inode[i].kind = K[i]
  <2>1. i \in Inodes /\ \A m \in Names : N[i][m] = Lookup(inode, i, m)
    BY DEF Held, NodesIn
  <2> HIDE DEF N
  <2>2. {m \in Names : N[i][m] # 0} = {m \in Names : Lookup(inode, i, m) # 0}
    BY <2>1
  <2>3. Called(N, i) = [m \in {k \in Names : Lookup(inode, i, k) # 0} |-> Lookup(inode, i, m)]
    BY <2>1, <2>2 DEF Called
  <2> QED BY <2>1, <2>3 DEF NamesOf, KindsOf
<1> HIDE DEF K, N
<1>3. \A i \in Held(K) : [kind |-> inode[i].kind, names |-> NamesOf(i)]
                           = [kind |-> K[i], names |-> Called(N, i)]
  BY <1>2
<1>4. NamedTree = TreeOf(K, N)
  BY <1>1, <1>3 DEF NamedTree, TreeOf
<1> QED BY <1>4 DEF K, N

LEMMA TreeBefore ==
  ASSUME StateInv(vol, inode)
  PROVE  /\ DOMAIN NamedTree = Used(inode) /\ Abstract!Dirs = Dirs(inode)
         /\ Held(KindsOf(inode)) = Used(inode) /\ KindsOf(inode) \in [Inodes -> Kinds]
         /\ \A d \in Used(inode) : Abstract!NamesIn(d) = {n \in Names : Lookup(inode, d, n) # 0}
         /\ \A d \in Used(inode), n \in Names :
              Lookup(inode, d, n) # 0 => Abstract!Node(d, n) = Lookup(inode, d, n)
<1> DEFINE K == KindsOf(inode)
           N == NodesIn(inode)
<1>1. \A i \in Inodes : K[i] = inode[i].kind /\ \A m \in Names : N[i][m] = Lookup(inode, i, m)
  BY DEF KindsOf, NodesIn
<1>2. inode \in Tables /\ K \in [Inodes -> Kinds]
  <2>1. inode \in Tables
    BY DEF StateInv
  <2> QED BY <2>1, Rows DEF KindsOf
<1>3. NamedTree = TreeOf(K, N)
  BY NamedTreeIs
<1> HIDE DEF K, N
<1>4. Held(K) = Used(inode)
  BY <1>1 DEF Held, Used
<1>5. DOMAIN NamedTree = Used(inode) /\ \A i \in Used(inode) :
        NamedTree[i].kind = inode[i].kind /\ NamedTree[i].names = Called(N, i)
  <2>1. /\ DOMAIN TreeOf(K, N) = Held(K)
        /\ \A i \in Held(K) : TreeOf(K, N)[i].kind = K[i] /\ TreeOf(K, N)[i].names = Called(N, i)
    BY DEF TreeOf
  <2> QED BY <1>1, <1>3, <1>4, <2>1 DEF Used
<1>6. Abstract!Dirs = Dirs(inode)
  BY <1>5 DEF Abstract!Dirs, Dirs, Used
<1>7. ASSUME NEW d \in Used(inode)
      PROVE  /\ Abstract!NamesIn(d) = {n \in Names : Lookup(inode, d, n) # 0}
             /\ \A n \in Names :
                  Lookup(inode, d, n) # 0 => Abstract!Node(d, n) = Lookup(inode, d, n)
  <2>1. d \in Inodes
    BY DEF Used
  <2>2. \A m \in Names : N[d][m] = Lookup(inode, d, m)
    BY <1>1, <2>1
  <2>3. DOMAIN Called(N, d) = {m \in Names : N[d][m] # 0}
        /\ \A m \in Names : N[d][m] # 0 => Called(N, d)[m] = N[d][m]
    BY DEF Called
  <2> QED BY <1>5, <2>2, <2>3 DEF Abstract!NamesIn, Abstract!Node
<1> QED BY <1>2, <1>4, <1>5, <1>6, <1>7 DEF K

LEMMA TreeAfter == NamedTree' = TreeOf(KindsOf(inode'), NodesIn(inode'))
<1>1. (NamedTree = TreeOf(KindsOf(inode), NodesIn(inode)))'
  BY NamedTreeIs, PTL
<1> QED BY <1>1

LEMMA NotNamed ==
  ASSUME NEW v, NEW t, StateInv(v, t), NEW i \in Inodes \ Dirs(t), NEW m \in Names
  PROVE  Lookup(t, i, m) = 0
<1>1. NoName(t, i, m)
  BY EntryOf DEF NoName
<1> QED BY <1>1, LookupAt

LEMMA MakesStep ==
  ASSUME StateInv(vol, inode), StateInv(vol', inode'), NEW d \in Dirs(inode), NEW n \in Names,
         NEW k \in {"reg", "dir", "link"}, Makes(inode, inode', d, n, k)
  PROVE  NamedTree' = NamedTree \/ \E i \in Inodes : Abstract!Make(d, n, i, k)
<1> DEFINE K == KindsOf(inode)
           N == NodesIn(inode)
           T == TreeOf(K, N)
<1>1. NamedTree = T /\ NamedTree' = TreeOf(KindsOf(inode'), NodesIn(inode'))
  BY NamedTreeIs, TreeAfter
<1>2. CASE inode' = inode
  BY <1>1, <1>2
<1>3. ASSUME NEW i, MakesAs(inode, inode', d, n, i, k)
      PROVE  i \in Inodes /\ Abstract!Make(d, n, i, k)
  <2> DEFINE M == Naming(N, d, n, i)
             J == KindSet(K, i, k)
  <2>1. /\ i \in Inodes \ Used(inode) /\ NoName(inode, d, n) /\ Enters(inode, inode', d, n, i)
        /\ KindsOf(inode') = J
    BY <1>3 DEF MakesAs, KindSet
  <2>2. i \in Inodes /\ d \in Inodes /\ d \in Used(inode) /\ i # d /\ i # 0
        /\ i \notin Dirs(inode) /\ k \in Kinds /\ k # "free"
    BY <2>1, Sizes DEF Used, Dirs, Kinds
  <2>3. NodesIn(inode') = M
    BY <2>1, <2>2, NodesEntered
  <2>4. Held(K) = Used(inode) /\ K \in [Inodes -> Kinds] /\ DOMAIN NamedTree = Used(inode)
        /\ Abstract!NamesIn(d) = {m \in Names : Lookup(inode, d, m) # 0}
    BY <2>2, TreeBefore
  <2>5. Lookup(inode, d, n) = 0
    BY <2>1, <2>2, LookupAt
  <2>6. K[i] = "free"
    BY <2>1 DEF KindsOf, Used
  <2>7. \A m \in Names : M[i][m] = 0
    <3>1. \A m \in Names : N[i][m] = 0
      BY <2>2, NotNamed DEF NodesIn
    <3> HIDE DEF N
    <3> QED BY <2>2, <3>1, NamingIs
  <2> HIDE DEF K, N, T, M, J
  <2>8. Abstract!With(NamedTree, d, n, i) = TreeOf(K, M)
    BY <1>1, <2>2, <2>4, WithIs DEF T, M
  <2>9. DOMAIN TreeOf(K, M) = DOMAIN NamedTree
    BY <2>4, TreeShown
  <2>10. [j \in DOMAIN TreeOf(K, M) \cup {i} |->
            IF j = i THEN [kind |-> k, names |-> Abstract!NoNames] ELSE TreeOf(K, M)[j]]
           = TreeOf(J, M)
    BY <2>2, <2>4, <2>6, <2>7, NodeComes DEF J
  <2>11. NamedTree' = TreeOf(J, M)
    BY <1>1, <2>1, <2>3
  <2>12. n \notin Abstract!NamesIn(d) /\ i \notin DOMAIN NamedTree
    BY <2>1, <2>4, <2>5
  <2>13. NamedTree' = [j \in DOMAIN NamedTree \cup {i} |->
            IF j = i THEN [kind |-> k, names |-> Abstract!NoNames]
                     ELSE Abstract!With(NamedTree, d, n, i)[j]]
    BY <2>8, <2>9, <2>10, <2>11, Zenon
  <2>14. Abstract!Make(d, n, i, k)
    BY <2>12, <2>13, Zenon DEF Abstract!Make
  <2> QED BY <2>2, <2>14
<1> QED BY <1>2, <1>3 DEF Makes

LEMMA AddsStep ==
  ASSUME StateInv(vol, inode), StateInv(vol', inode'), NEW d \in Dirs(inode), NEW n \in Names,
         NEW c \in Used(inode) \ Dirs(inode), AddsName(inode, inode', d, n, c)
  PROVE  Abstract!AddName(d, n, c)
<1> DEFINE K == KindsOf(inode)
           N == NodesIn(inode)
           M == Naming(N, d, n, c)
<1>1. NamedTree = TreeOf(K, N) /\ NamedTree' = TreeOf(KindsOf(inode'), NodesIn(inode'))
  BY NamedTreeIs, TreeAfter
<1>2. NoName(inode, d, n) /\ Enters(inode, inode', d, n, c) /\ KindsOf(inode') = K
  BY DEF AddsName
<1>3. d \in Inodes /\ d \in Used(inode) /\ c # 0 /\ c \in Inodes
  BY Sizes DEF Used, Dirs
<1>4. NodesIn(inode') = M
  BY <1>2, <1>3, NodesEntered
<1>5. Held(K) = Used(inode) /\ DOMAIN NamedTree = Used(inode) /\ Abstract!Dirs = Dirs(inode)
      /\ Abstract!NamesIn(d) = {m \in Names : Lookup(inode, d, m) # 0}
  BY <1>3, TreeBefore
<1>6. Lookup(inode, d, n) = 0
  BY <1>2, <1>3, LookupAt
<1> HIDE DEF K, N, M
<1>7. Abstract!With(NamedTree, d, n, c) = TreeOf(K, M)
  BY <1>1, <1>3, <1>5, WithIs DEF M
<1>8. NamedTree' = Abstract!With(NamedTree, d, n, c)
  BY <1>1, <1>2, <1>4, <1>7
<1>9. n \notin Abstract!NamesIn(d) /\ c \in DOMAIN NamedTree \ Abstract!Dirs
  BY <1>5, <1>6
<1> QED BY <1>8, <1>9, Zenon DEF Abstract!AddName

LEMMA RemovesStep ==
  ASSUME StateInv(vol, inode), StateInv(vol', inode'), NEW d \in Dirs(inode), NEW n \in Names,
         Removes(inode, inode', d, n)
  PROVE  Abstract!Remove(d, n)
<1> DEFINE K == KindsOf(inode)
           N == NodesIn(inode)
           M == Naming(N, d, n, 0)
           G == Entries(inode)
<1>1. NamedTree = TreeOf(K, N) /\ NamedTree' = TreeOf(KindsOf(inode'), NodesIn(inode'))
  BY NamedTreeIs, TreeAfter
<1>2. PICK x : RemovesAs(inode, inode', d, n, x)
  BY DEF Removes
<1> DEFINE c == x[4]
           J == KindSet(K, c, "free")
<1>3. /\ FoundAs(inode, d, n, x) /\ Entries(inode') = G \ {x}
      /\ c \in Dirs(inode) => \A z \in G : z[1] # c
      /\ \/ KindsOf(inode') = K /\ \E z \in G \ {x} : z[4] = c
         \/ KindsOf(inode') = J /\ \A z \in G \ {x} : z[4] # c
  BY <1>2 DEF RemovesAs, KindSet
<1>4. /\ x \in G /\ x[1] = d /\ x[3] = n /\ c = Lookup(inode, d, n)
      /\ \A z \in G : z[1] = d /\ z[3] = n => z = x
  BY <1>3 DEF FoundAs
<1>5. d \in Inodes /\ d \in Used(inode) /\ c \in Inodes /\ c # 0
  BY <1>4, EntryOf, Sizes DEF Used, Dirs
<1>6. NodesIn(inode') = M
  BY <1>3, <1>5, NodesLeft
<1>7. Held(K) = Used(inode) /\ K \in [Inodes -> Kinds] /\ DOMAIN NamedTree = Used(inode)
      /\ Abstract!Dirs = Dirs(inode)
      /\ \A e \in Used(inode) : Abstract!NamesIn(e) = {m \in Names : Lookup(inode, e, m) # 0}
  BY <1>5, TreeBefore
<1>7a. Abstract!Node(d, n) = c
  BY <1>4, <1>5, TreeBefore
<1>8. c \in Dirs(inode) => Abstract!NamesIn(c) = {}
  <2> SUFFICES ASSUME c \in Dirs(inode) PROVE Abstract!NamesIn(c) = {}
    OBVIOUS
  <2>1. \A m \in Names : Lookup(inode, c, m) = 0
    <3>1. \A m \in Names : NoName(inode, c, m)
      BY <1>3 DEF NoName
    <3> QED BY <1>5, <3>1, LookupAt
  <2>2. c \in Used(inode)
    BY DEF Used, Dirs
  <2> QED BY <1>7, <2>1, <2>2
<1> DEFINE t == Abstract!Without(NamedTree, d, n)
           named == \E e \in Abstract!Dirs : \E m \in DOMAIN t[e].names : t[e].names[m] = c
<1>9. t = TreeOf(K, M)
  <2> HIDE DEF K, N
  <2> QED BY <1>1, <1>5, <1>7, WithoutIs
<1>10. DOMAIN t = Held(K) /\ \A e \in Used(inode) :
         /\ DOMAIN t[e].names = {m \in Names : M[e][m] # 0}
         /\ \A m \in Names : M[e][m] # 0 => t[e].names[m] = M[e][m]
  <2> HIDE DEF t, K, M
  <2>1. DOMAIN t = Held(K) /\ \A e \in Used(inode) : t[e].names = Called(M, e)
    <3>1. /\ DOMAIN TreeOf(K, M) = Held(K)
          /\ \A e \in Held(K) : TreeOf(K, M)[e].names = Called(M, e)
      BY DEF TreeOf
    <3> QED BY <1>7, <1>9, <3>1
  <2> QED BY <2>1 DEF Called
<1>11. \A e \in Inodes, m \in Names :
         M[e][m] = IF e = d /\ m = n THEN 0 ELSE Lookup(inode, e, m)
  BY NamingIs DEF NodesIn
<1> HIDE DEF K, N, M, J, t
<1>12. named <=> \E z \in G \ {x} : z[4] = c
  <2>1. ASSUME NEW z \in G \ {x}, z[4] = c PROVE named
    <3>1. z[1] \in Dirs(inode) /\ z[3] \in Names /\ z[1] \in Used(inode) /\ z[1] \in Inodes
      BY <2>1, EntryOf DEF Used, Dirs
    <3>2. ~(z[1] = d /\ z[3] = n)
      BY <1>4, <2>1
    <3>3. Lookup(inode, z[1], z[3]) = c
      BY <2>1, <3>1, LookupAt
    <3>4. M[z[1]][z[3]] = c
      BY <1>11, <3>1, <3>2, <3>3
    <3> QED BY <1>5, <1>7, <1>10, <3>1, <3>4
  <2>2. ASSUME NEW e \in Abstract!Dirs, NEW m \in DOMAIN t[e].names, t[e].names[m] = c
        PROVE  \E z \in G \ {x} : z[4] = c
    <3>1. e \in Dirs(inode) /\ e \in Used(inode) /\ e \in Inodes
      BY <1>7 DEF Used, Dirs
    <3>2. m \in Names /\ M[e][m] = c
      BY <1>10, <2>2, <3>1
    <3>3. ~(e = d /\ m = n) /\ Lookup(inode, e, m) = c
      BY <1>5, <1>11, <3>1, <3>2
    <3>4. PICK z \in G : z[1] = e /\ z[3] = m
      BY <1>5, <3>1, <3>2, <3>3, LookupAt DEF NoName
    <3>5. z[4] = c /\ z # x
      BY <1>4, <3>1, <3>2, <3>3, <3>4, LookupAt
    <3> QED BY <3>5
  <2> QED BY <2>1, <2>2
<1>13. NamedTree' = IF named THEN t ELSE [e \in DOMAIN t \ {c} |-> t[e]]
  <2>1. CASE named
    BY <1>1, <1>3, <1>6, <1>9, <1>12, <2>1
  <2>2. CASE ~named
    <3>1. NamedTree' = TreeOf(J, M)
      BY <1>1, <1>3, <1>6, <1>12, <2>2
    <3>2. [e \in DOMAIN t \ {c} |-> t[e]] = TreeOf(J, M)
      BY <1>5, <1>7, <1>9, NodeGoes DEF J
    <3> QED BY <2>2, <3>1, <3>2
  <2> QED BY <2>1, <2>2
<1>14. n \in Abstract!NamesIn(d)
  BY <1>4, <1>5, <1>7
<1> HIDE DEF c
<1>15. /\ Abstract!Node(d, n) \in Abstract!Dirs => Abstract!NamesIn(Abstract!Node(d, n)) = {}
       /\ NamedTree' =
            IF \E e \in Abstract!Dirs : \E m \in DOMAIN t[e].names :
                 t[e].names[m] = Abstract!Node(d, n)
            THEN t ELSE [e \in DOMAIN t \ {Abstract!Node(d, n)} |-> t[e]]
  <2>1. Abstract!Node(d, n) = c
    BY <1>7a
  <2>2. c \in Abstract!Dirs => Abstract!NamesIn(c) = {}
    BY <1>7, <1>8
  <2>3. NamedTree' = IF \E e \in Abstract!Dirs : \E m \in DOMAIN t[e].names : t[e].names[m] = c
                     THEN t ELSE [e \in DOMAIN t \ {c} |-> t[e]]
    BY <1>13
  <2> QED BY <2>1, <2>2, <2>3
<1> QED BY <1>14, <1>15, Zenon DEF Abstract!Remove, t

(* A directory that is apart from a node is not below it.                  *)
LEMMA ApartIsNotBelow ==
  ASSUME StateInv(vol, inode), NEW e, NEW c \in Inodes, Apart(inode, e, c)
  PROVE  e \notin Abstract!Below(c)
<1> DEFINE D == Dirs(inode)
           G == Entries(inode)
           P == Parent(inode)
<1>1. PICK W \in SUBSET D : e \in W /\ c \notin W /\ \A k \in W : P[k] \in W
  BY DEF Apart
<1>2. \A x \in G : x[4] \in D => P[x[4]] = x[1]
  BY StateShows DEF Tree
<1> DEFINE X == Inodes \ W
<1>3. ASSUME NEW d \in X \cap D, NEW n \in Names, Lookup(inode, d, n) # 0
      PROVE  Lookup(inode, d, n) \in X
  <2>1. PICK x \in G : x[1] = d /\ x[3] = n
    BY <1>3, LookupAt DEF NoName
  <2>2. x[4] = Lookup(inode, d, n) /\ x[4] \in Inodes
    BY <2>1, LookupAt
  <2>3. x[4] \notin W
    BY <1>1, <1>2, <2>1, <1>3
  <2> QED BY <2>2, <2>3
<1>4. ASSUME NEW k \in X \cap Abstract!Dirs, NEW n \in Abstract!NamesIn(k)
      PROVE  Abstract!Node(k, n) \in X
  <2>1. /\ Abstract!Dirs = D
        /\ \A i \in Used(inode) : Abstract!NamesIn(i) = {m \in Names : Lookup(inode, i, m) # 0}
    BY TreeBefore
  <2>2. k \in X \cap D /\ k \in Used(inode)
    BY <1>4, <2>1 DEF Used, Dirs
  <2>3. n \in Names /\ Lookup(inode, k, n) # 0
    BY <1>4, <2>1, <2>2
  <2>4. Abstract!Node(k, n) = Lookup(inode, k, n)
    BY <2>2, <2>3, TreeBefore
  <2> HIDE DEF X, D
  <2> QED BY <1>3, <2>2, <2>3, <2>4
<1>5. X \in SUBSET Inodes /\ c \in X /\ e \notin X
  BY <1>1
<1> HIDE DEF X
<1>6. \A k \in X \cap Abstract!Dirs : \A n \in Abstract!NamesIn(k) : Abstract!Node(k, n) \in X
  BY <1>4
<1> QED BY <1>5, <1>6, Zenon DEF Abstract!Below

LEMMA MovesStep ==
  ASSUME StateInv(vol, inode), StateInv(vol', inode'), NEW d \in Dirs(inode), NEW n \in Names,
         NEW e \in Dirs(inode), NEW m \in Names, Moves(inode, inode', d, n, e, m)
  PROVE  Abstract!Move(d, n, e, m)
<1> DEFINE K == KindsOf(inode)
           N == NodesIn(inode)
<1>1. NamedTree = TreeOf(K, N) /\ NamedTree' = TreeOf(KindsOf(inode'), NodesIn(inode'))
  BY NamedTreeIs, TreeAfter
<1>2y. PICK y : \E x : MovesAs(inode, inode', d, n, e, m, y, x)
  BY DEF Moves
<1>2. PICK x : MovesAs(inode, inode', d, n, e, m, y, x)
  BY <1>2y
<1> DEFINE c == y[4]
           M == Naming(N, e, m, c)
<1>3. /\ FoundAs(inode, d, n, y) /\ NoName(inode, e, m) /\ KindsOf(inode') = K
      /\ c \in Dirs(inode) => Apart(inode, e, c)
  BY <1>2 DEF MovesAs
<1>4. y \in Entries(inode) /\ c = Lookup(inode, d, n)
  BY <1>3 DEF FoundAs
<1>5. /\ d \in Inodes /\ d \in Used(inode) /\ e \in Inodes /\ e \in Used(inode)
      /\ c \in Inodes /\ c # 0
  BY <1>4, EntryOf, Sizes DEF Used, Dirs
<1>6. NodesIn(inode') = Naming(M, d, n, 0)
  BY <1>2, <1>5, NodesMoved
<1>7. Held(K) = Used(inode) /\ Abstract!Dirs = Dirs(inode)
      /\ (\A i \in Used(inode) : Abstract!NamesIn(i) = {k \in Names : Lookup(inode, i, k) # 0})
      /\ Abstract!Node(d, n) = c
  BY <1>4, <1>5, TreeBefore
<1>8. Lookup(inode, e, m) = 0
  BY <1>3, <1>5, LookupAt
<1>9. c \in Dirs(inode) => e \notin Abstract!Below(c)
  BY <1>3, <1>5, ApartIsNotBelow
<1>10. n \in Abstract!NamesIn(d) /\ m \notin Abstract!NamesIn(e)
  BY <1>4, <1>5, <1>7, <1>8
<1> HIDE DEF K, N, M, c
<1>11. Abstract!With(NamedTree, e, m, c) = TreeOf(K, M)
  BY <1>1, <1>5, <1>7, WithIs DEF M
<1>12. Abstract!Without(TreeOf(K, M), d, n) = TreeOf(K, Naming(M, d, n, 0))
  BY <1>5, <1>7, WithoutIs
<1>13. NamedTree' = Abstract!Without(Abstract!With(NamedTree, e, m, Abstract!Node(d, n)), d, n)
  BY <1>1, <1>3, <1>6, <1>7, <1>11, <1>12
<1>14. Abstract!Node(d, n) \in Abstract!Dirs => e \notin Abstract!Below(Abstract!Node(d, n))
  BY <1>7, <1>9
<1> QED BY <1>10, <1>13, <1>14, Zenon DEF Abstract!Move

LEMMA NextSteps ==
  ASSUME StateInv(vol, inode), StateInv(vol', inode'), [Next]_vars, [Within]_vars
  PROVE  [Abstract!Next]_NamedTree
<1> DEFINE A(d, n) ==
             \/ \E c \in Inodes, kind \in {"reg", "dir", "link"} : Abstract!Make(d, n, c, kind)
             \/ \E c \in Inodes : Abstract!AddName(d, n, c)
             \/ Abstract!Remove(d, n)
             \/ \E e \in Abstract!Dirs, m \in Names : Abstract!Move(d, n, e, m)
<1>1. CASE UNCHANGED vars
  <2>1. inode' = inode
    BY <1>1 DEF vars
  <2>2. NamedTree' = NamedTree
    BY <2>1, NamedTreeIs, TreeAfter
  <2> QED BY <2>2
<1>2. CASE Next /\ Within
  <2>1. PICK d \in ResolvedDirs, n \in Names :
          \/ CreateFile(d, n) \/ Mkdir(d, n)
          \/ \E slow \in BOOLEAN : MakeSymlink(d, n, slow)
          \/ \E c \in Resolved : Link(c, d, n)
          \/ Unlink(d, n) \/ Rmdir(d, n)
          \/ \E e \in ResolvedDirs, m \in Names : Rename(d, n, e, m)
    BY <1>2, Zenon DEF Next
  <2>2. ResolvedDirs \subseteq Dirs(inode) /\ Resolved \subseteq Used(inode)
    BY ResolvedIs DEF ResolvedDirs, IsDir, Used, Dirs
  <2>3. d \in Dirs(inode) /\ Abstract!Dirs = Dirs(inode)
    BY <2>2, TreeBefore
  <2>4. ASSUME NEW k \in {"reg", "dir", "link"}, Makes(inode, inode', d, n, k)
        PROVE  NamedTree' = NamedTree \/ A(d, n)
    <3>1. NamedTree' = NamedTree \/ \E i \in Inodes : Abstract!Make(d, n, i, k)
      BY <2>3, <2>4, MakesStep
    <3> QED BY <3>1
  <2>5. ASSUME CreateFile(d, n) PROVE NamedTree' = NamedTree \/ A(d, n)
    <3>1. Makes(inode, inode', d, n, "reg") /\ "reg" \in {"reg", "dir", "link"}
      BY <2>3, <2>5, CreateFileKeeps
    <3> HIDE DEF A
    <3> QED BY <2>4, <3>1
  <2>6. ASSUME Mkdir(d, n) PROVE NamedTree' = NamedTree \/ A(d, n)
    <3>1. Makes(inode, inode', d, n, "dir") /\ "dir" \in {"reg", "dir", "link"}
      BY <2>3, <2>6, MkdirKeeps
    <3> HIDE DEF A
    <3> QED BY <2>4, <3>1
  <2>7. ASSUME NEW slow \in BOOLEAN, MakeSymlink(d, n, slow)
        PROVE  NamedTree' = NamedTree \/ A(d, n)
    <3>1. Makes(inode, inode', d, n, "link")
      BY <2>3, <2>7, MakeSymlinkKeeps, Zenon
    <3>2. "link" \in {"reg", "dir", "link"}
      OBVIOUS
    <3> HIDE DEF A
    <3> QED BY <2>4, <3>1, <3>2
  <2>8. ASSUME NEW c \in Resolved, Link(c, d, n) PROVE A(d, n)
    <3>1. c \in Used(inode) \ Dirs(inode) /\ c \in Inodes
      BY <2>2, <2>8 DEF Link, IsDir, Used, Dirs
    <3>2. AddsName(inode, inode', d, n, c)
      BY <1>2, <2>3, <2>8, <3>1, LinkWithin, LinkKeeps
    <3>3. Abstract!AddName(d, n, c)
      BY <2>3, <3>1, <3>2, AddsStep
    <3> QED BY <3>1, <3>3
  <2>9. ASSUME Unlink(d, n) PROVE A(d, n)
    <3>1. Removes(inode, inode', d, n)
      BY <2>3, <2>9, UnlinkKeeps
    <3> QED BY <2>3, <3>1, RemovesStep
  <2>10. ASSUME Rmdir(d, n) PROVE A(d, n)
    <3>1. Removes(inode, inode', d, n)
      BY <2>3, <2>10, RmdirKeeps
    <3> QED BY <2>3, <3>1, RemovesStep
  <2>11. ASSUME NEW e \in ResolvedDirs, NEW m \in Names, Rename(d, n, e, m) PROVE A(d, n)
    <3>1. Moves(inode, inode', d, n, e, m) /\ e \in Dirs(inode)
      BY <1>2, <2>2, <2>3, <2>11, RenameWithin, RenameKeeps
    <3>2. Abstract!Move(d, n, e, m)
      BY <2>3, <3>1, MovesStep
    <3> QED BY <2>3, <3>1, <3>2
  <2> HIDE DEF A
  <2>12. NamedTree' = NamedTree \/ A(d, n)
    BY <2>1, <2>5, <2>6, <2>7, <2>8, <2>9, <2>10, <2>11
  <2>13. A(d, n) => Abstract!Next
    BY <2>3, Zenon DEF A, Abstract!Next
  <2> QED BY <2>12, <2>13
<1> QED BY <1>1, <1>2

LEMMA InitTree == ASSUME Init PROVE Abstract!Init
<1> DEFINE K == KindsOf(inode)
           N == NodesIn(inode)
           T == [i \in {Root} |-> [kind |-> "dir", names |-> Abstract!NoNames]]
<1>1. StateInv(vol, inode) /\ Entries(inode) = {} /\ Used(inode) = {Root} /\ Dirs(inode) = {Root}
  BY InitKeeps
<1>2. Root \in Inodes /\ Root \in Dirs(inode) /\ Held(K) = {Root}
  BY <1>1, Sizes, TreeBefore
<1>3. K[Root] = "dir"
  BY <1>2 DEF KindsOf, Dirs
<1>4. Called(N, Root) = Abstract!NoNames
  <2>1. \A m \in Names : Lookup(inode, Root, m) = 0
    BY <1>1, <1>2, LookupAt DEF NoName
  <2>2. {m \in Names : N[Root][m] # 0} = {}
    BY <1>2, <2>1 DEF NodesIn
  <2> HIDE DEF N
  <2> QED BY <2>2 DEF Called, Abstract!NoNames
<1>5. NamedTree = TreeOf(K, N)
  BY NamedTreeIs
<1> HIDE DEF K, N
<1>6. T = [i \in DOMAIN T |-> T[i]] /\ DOMAIN T = Held(K)
      /\ \A i \in Held(K) : T[i] = [kind |-> K[i], names |-> Called(N, i)]
  BY <1>2, <1>3, <1>4
<1> HIDE DEF T
<1>7. T = TreeOf(K, N)
  BY <1>6, SameTree
<1> QED BY <1>5, <1>7 DEF Abstract!Init, T

(* Directories are the tree of names to callers: every operation that      *)
(* succeeds changes the names it was given, by one step of the tree, and   *)
(* one that fails, at whatever point, changes none; no Rename moves a      *)
(* directory below itself (writer.adb:64-110, 422-433, 668-752).  A node   *)
(* goes with its last name because the counts are exact, so this too is    *)
(* for callers that keep to the limits.                                    *)
THEOREM ImplementsTree == Spec /\ KeptToLimits => ImplementsNameTree
<1>1. Init => Abstract!Init
  BY InitTree
<1>2. IInv /\ IInv' /\ [Next]_vars /\ [Within]_vars => [Abstract!Next]_NamedTree
  <2> SUFFICES ASSUME IInv, IInv', [Next]_vars, [Within]_vars PROVE [Abstract!Next]_NamedTree
    OBVIOUS
  <2>1. StateInv(vol, inode) /\ StateInv(vol', inode')
    BY DEF IInv
  <2> QED BY <2>1, NextSteps
<1>3. KeptToLimits => [][Within]_vars
  BY PTL DEF KeptToLimits, Within
<1> QED BY <1>1, <1>2, <1>3, Inductive, PTL DEF Spec, ImplementsNameTree, Abstract!Spec
===============================================================================
