------------------------------- MODULE MCOsTasks -------------------------------
(* Two workers, two tasks that create, and one function more than workers. *)
EXTENDS OsTasks
CONSTANTS w1, w2, c1, c2, f1, f2, f3
MCWorkers == {w1, w2}
MCCreators == {c1, c2}
MCFunctions == {f1, f2, f3}
===============================================================================
