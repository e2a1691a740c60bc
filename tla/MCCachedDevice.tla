---------------------------- MODULE MCCachedDevice ----------------------------
(* A cache of three blocks over a device of four, for TLC.                 *)
EXTENDS CachedDevice, TLC
CONSTANTS b1, b2, b3, b4, v1, v2
MCBlocks == {b1, b2, b3, b4}
MCValues == {v1, v2}
Symmetric == Permutations(MCBlocks) \cup Permutations(MCValues)
===============================================================================
