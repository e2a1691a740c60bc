----------------------------- MODULE MCFileBlocks ------------------------------
(* One file reaches every region of a map with one direct pointer and two  *)
(* pointers per block: 3 words need the indirect block, 7 the double       *)
(* indirect one, 9 end on the border of a child, 11 need both children.    *)
(* The other file takes blocks away.                                       *)
EXTENDS FileBlocks
MCSizes == <<{0, 3, 7, 9, 11}, {0, 2}>>
===============================================================================
