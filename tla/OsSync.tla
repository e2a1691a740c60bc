-------------------------------- MODULE OsSync ---------------------------------
(***************************************************************************)
(* Synchronisation between tasks of the Wi-Fi driver: recursive mutexes,   *)
(* and the semaphore that Thread_Semphr_Get makes for each task at its     *)
(* first call.  A step is one call of a protected object; between two of   *)
(* them any other task may run.                                            *)
(***************************************************************************)
EXTENDS Naturals, Sequences

CONSTANTS
  Tasks,
  Mutexes,
  Nobody,      \* Null_Task_Id, and no mutex
  MaxThread,   \* Max_Thread: tasks Thread_Map has room for
  MaxSem,      \* Max_Sem: semaphores in the pool
  MaxDepth     \* bound: how often a task locks a mutex again

VARIABLES
  mutex,       \* each Rec_Mutex
  nSem,        \* Allocator.N_Sem
  threads,     \* Thread_Map: pairs of a task and its semaphore
  call,        \* each task's place in Mutex_Lock or Thread_Semphr_Get
  holds,       \* history: locks less unlocks, by task and mutex
  given        \* history: the semaphores each task was given

vars == <<mutex, nSem, threads, call, holds, given>>
mutexVars == <<mutex, holds>>
semVars == <<nSem, threads, given>>

Unlocked == [held |-> FALSE, owner |-> Nobody, depth |-> 0]
LockedBy(t) == [held |-> TRUE, owner |-> t, depth |-> 1]
Out == [pc |-> "out", m |-> Nobody, s |-> 0]
Semaphores == 0..MaxSem           \* 0 is a null address

TypeOK ==
  /\ mutex \in [Mutexes -> [held : BOOLEAN, owner : Tasks \cup {Nobody}, depth : Nat]]
  /\ nSem \in 0..MaxSem
  /\ threads \in Seq(Tasks \X Semaphores) /\ Len(threads) <= MaxThread
  /\ call \in [Tasks -> [pc : {"out", "wait", "create", "add"},
                         m : Mutexes \cup {Nobody}, s : Semaphores]]
  /\ holds \in [Tasks -> [Mutexes -> Nat]]
  /\ given \in [Tasks -> SUBSET Semaphores]

Init ==
  /\ mutex = [m \in Mutexes |-> Unlocked]
  /\ nSem = 0 /\ threads = <<>>
  /\ call = [t \in Tasks |-> Out]
  /\ holds = [t \in Tasks |-> [m \in Mutexes |-> 0]]
  /\ given = [t \in Tasks |-> {}]
-------------------------------------------------------------------------------
(* Mutex_Lock: Try_Lock, and when another task holds the mutex Wait_Lock.  *)
Counts(t, m, n) == holds' = [holds EXCEPT ![t][m] = n]

TryLock(t, m) ==
  /\ call[t].pc = "out" /\ holds[t][m] < MaxDepth
  /\ \/ /\ ~mutex[m].held
        /\ mutex' = [mutex EXCEPT ![m] = LockedBy(t)]
        /\ Counts(t, m, holds[t][m] + 1)
        /\ UNCHANGED call
     \/ /\ mutex[m].held /\ mutex[m].owner = t
        /\ mutex' = [mutex EXCEPT ![m].depth = @ + 1]
        /\ Counts(t, m, holds[t][m] + 1)
        /\ UNCHANGED call
     \/ /\ mutex[m].held /\ mutex[m].owner # t
        /\ call' = [call EXCEPT ![t] = [Out EXCEPT !.pc = "wait", !.m = m]]
        /\ UNCHANGED mutexVars
  /\ UNCHANGED semVars

WaitLock(t) ==
  LET m == call[t].m IN
  /\ call[t].pc = "wait" /\ ~mutex[m].held
  /\ mutex' = [mutex EXCEPT ![m] = LockedBy(t)]
  /\ Counts(t, m, holds[t][m] + 1)
  /\ call' = [call EXCEPT ![t] = Out]
  /\ UNCHANGED semVars

(* Mutant: the first of several unlocks releases.                          *)
UnlockedAtOnce(x) == IF x.depth > 0 THEN Unlocked ELSE x

(* Rec_Mutex.Unlock.                                                       *)
UnlockedOnce(x) ==
  IF x.depth > 1 THEN [x EXCEPT !.depth = @ - 1]
  ELSE IF x.depth = 1 THEN Unlocked
  ELSE x

(* The driver unlocks what it has locked; Unlock does not check that.      *)
MutexUnlock(t, m) ==
  /\ call[t].pc = "out" /\ holds[t][m] > 0
  /\ mutex' = [mutex EXCEPT ![m] = UnlockedOnce(@)]
  /\ Counts(t, m, holds[t][m] - 1)
  /\ UNCHANGED <<call, semVars>>
-------------------------------------------------------------------------------
(* Thread_Semphr_Get: Find, and if that fails Create and Add, each under   *)
(* its own lock.  A null semaphore in the map counts as none.              *)

(* Mutant: the search stops before the last entry.                         *)
EntriesShort(t) == {k \in 1..(Len(threads) - 1) : threads[k][1] = t}

Entries(t) == {k \in DOMAIN threads : threads[k][1] = t}

Found(t) ==
  IF Entries(t) = {} THEN 0
  ELSE threads[CHOOSE k \in Entries(t) : \A j \in Entries(t) : k <= j][2]

Return(t, s) == given' = [given EXCEPT ![t] = @ \cup {s}]

Find(t) ==
  /\ call[t].pc = "out"
  /\ IF Found(t) = 0
       THEN call' = [call EXCEPT ![t].pc = "create"] /\ UNCHANGED given
       ELSE Return(t, Found(t)) /\ UNCHANGED call
  /\ UNCHANGED <<mutexVars, nSem, threads>>

Create(t) ==
  /\ call[t].pc = "create"
  /\ nSem' = (IF nSem < MaxSem THEN nSem + 1 ELSE nSem)
  /\ call' = [call EXCEPT ![t].pc = "add",
                          ![t].s = IF nSem < MaxSem THEN nSem + 1 ELSE 0]
  /\ UNCHANGED <<mutexVars, threads, given>>

Add(t) ==
  /\ call[t].pc = "add"
  /\ threads' = IF Len(threads) < MaxThread
                  THEN Append(threads, <<t, call[t].s>>) ELSE threads
  /\ Return(t, call[t].s)
  /\ call' = [call EXCEPT ![t] = Out]
  /\ UNCHANGED <<mutexVars, nSem>>

Call(t) == Find(t) \/ \E m \in Mutexes : TryLock(t, m) \/ MutexUnlock(t, m)
Goes(t) == WaitLock(t) \/ Create(t) \/ Add(t)
Next == \E t \in Tasks : Call(t) \/ Goes(t)

Spec == Init /\ [][Next]_vars
-------------------------------------------------------------------------------
(* A mutex is held by one task at most, as often as that task has locked   *)
(* it, although Try_Lock's refusal and Wait_Lock are two calls, and        *)
(* although Unlock asks nobody who the owner is (rtos.adb:395-407, 55-64). *)
LocksExclude ==
  \A m \in Mutexes, t \in Tasks :
    holds[t][m] = IF mutex[m].held /\ mutex[m].owner = t THEN mutex[m].depth ELSE 0

(* A task that found room in the map gets the same semaphore at every call *)
(* (rtos.ads:36-37), and no semaphore is ever given to two tasks, however  *)
(* their calls interleave and also when map or pool are full.              *)
OneSemaphoreEach ==
  \A t \in Tasks :
    /\ (\E k \in DOMAIN threads : threads[k][1] = t) => \A a, b \in given[t] : a = b
    /\ \A u \in Tasks \ {t} : given[t] \cap given[u] \subseteq {0}
===============================================================================
