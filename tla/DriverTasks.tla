------------------------------ MODULE DriverTasks ------------------------------
(***************************************************************************)
(* The tasks of the Wi-Fi driver at work: functions that run on workers of *)
(* OsTasks, and the tasks that create them, call the services of OsSync.   *)
(***************************************************************************)
EXTENDS OsTasks

CONSTANTS
  Callers,     \* the workers and creators that use the services
  Mutexes, MaxThread, MaxSem, MaxDepth

ASSUME CallersAssumption == Callers \subseteq Workers \cup Creators
ASSUME LimitsAssumption == MaxThread \in Nat /\ MaxSem \in Nat /\ MaxDepth \in Nat

VARIABLES mutex, nSem, threads, call, holds, given

Sync == INSTANCE OsSync WITH Tasks <- Callers, Nobody <- Nothing

syncVars == <<mutex, nSem, threads, call, holds, given>>
driverVars == <<nWorker, workerTid, mail, work, spawn, handle, ran, syncVars>>

(* A task makes one call at a time; a worker makes none but for a function.*)
Free(t) == t \in Callers => call[t].pc = "out"
Runs(t) == IF t \in Workers THEN work[t].pc = "run" ELSE spawn[t].pc = "out"

(* The driver's functions give back what they have locked.                 *)
LocksNothing(t) == t \in Callers => \A m \in Mutexes : holds[t][m] = 0

WorkerGoes(w) ==
  WorkerStep(w) \/ (Free(w) /\ LocksNothing(w) /\ FunctionReturns(w))
CreatorGoes(c) == SpawnStep(c) \/ (Free(c) /\ \E f \in Functions : Spawn(c, f))

DriverNext ==
  \/ /\ (\E w \in Workers : WorkerGoes(w)) \/ (\E c \in Creators : CreatorGoes(c))
     /\ UNCHANGED syncVars
  \/ /\ \E t \in Callers : Runs(t) /\ (Sync!Call(t) \/ Sync!Goes(t))
     /\ UNCHANGED vars

DriverInit == Init /\ Sync!Init
DriverSpec == DriverInit /\ [][DriverNext]_driverVars /\ Fairness
-------------------------------------------------------------------------------
(* Both parts keep their types.                                            *)
DriverTypeOK == TypeOK /\ Sync!TypeOK

(* Locks exclude, and each task has its own semaphore, whichever functions *)
(* come and go on the workers: rtos.adb:22-65, 694-739.                    *)
LocksExclude == Sync!LocksExclude
OneSemaphoreEach == Sync!OneSemaphoreEach
===============================================================================
