---------------------------- MODULE MCDriverTasks ------------------------------
(* Two workers, two tasks that create, and one function more than workers. *)
(* A worker and a creator use the services; Thread_Map has room for one of *)
(* them, the pool for a second semaphore.                                  *)
EXTENDS DriverTasks
CONSTANTS w1, w2, c1, c2, f1, f2, f3, m1
MCWorkers == {w1, w2}
MCCreators == {c1, c2}
MCFunctions == {f1, f2, f3}
MCCallers == {w1, c1}
MCMutexes == {m1}
===============================================================================
