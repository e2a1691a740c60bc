----------------------------- MODULE MCWearLevel -----------------------------
(* Small volumes for TLC.  The client writes a sector v, which programs in *)
(* place over an erased one, or a sector of all ones, which never does.    *)
EXTENDS WearLevel
CONSTANT v
MCValues == {v, Erased}
MCClears(old, new) == new = Blank
===============================================================================
