------------------------------ MODULE MCOsQueue ------------------------------
(* Two tasks that both send and receive, and the interrupt handler.        *)
EXTENDS OsQueue
CONSTANTS t1, t2, x1, x2
MCTasks == {t1, t2}
MCItems == {x1, x2}
===============================================================================
