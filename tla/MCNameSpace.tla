------------------------------ MODULE MCNameSpace ------------------------------
(* Two names and four inodes beside the root.  A directory holds one name  *)
(* in its first block and grows for a second one; the volume has room for  *)
(* three directories in a row and one more block.                          *)
EXTENDS NameSpace, TLC
CONSTANTS n1, n2
MCNames == {n1, n2}
NameSymmetry == Permutations(MCNames)
===============================================================================
