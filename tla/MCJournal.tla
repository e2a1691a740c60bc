------------------------------ MODULE MCJournal ------------------------------
(* A small journaled volume for TLC.                                       *)
EXTENDS Journal, TLC
CONSTANTS v1, v2
MCValues == {v1, v2}
Symmetric == Permutations(MCValues)
MCBlocks == 0 .. NFs + 1 + 5
===============================================================================
