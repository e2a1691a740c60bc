------------------------------ MODULE MCOsTimers ------------------------------
(* Three timers for a table of two, and callers on the timer task's core:  *)
(* a worker of its priority and an application task below it.              *)
EXTENDS OsTimers
CONSTANTS p1, p2, p3, worker, application
MCTimers == {p1, p2, p3}
MCSpans == {0, 1, 2}
MCCallers == {worker, application}
MCPrio == [c \in MCCallers |-> IF c = worker THEN 10 ELSE 5]
MCCore == [c \in MCCallers |-> 0]
===============================================================================
