-------------------------------- MODULE OsTasks --------------------------------
(***************************************************************************)
(* Tasks of the Wi-Fi driver: task_create gives a function to a free       *)
(* worker of a fixed pool through its mailbox, and stores a handle for it; *)
(* Get_Current_Task must return the same handle in the function.           *)
(***************************************************************************)
EXTENDS Naturals, Sequences, FiniteSets

CONSTANTS
  Workers,     \* the worker tasks; there are Max_Worker of them
  Creators,    \* other tasks, which call task_create
  Functions,   \* the task bodies to create, each for one task
  Nothing      \* a null address, no task

ASSUME TasksAssumption == IsFiniteSet(Workers) /\ Workers \cap Creators = {}
ASSUME NothingAssumption == Nothing \notin Workers \cup Creators \cup Functions

VARIABLES
  nWorker,     \* Allocator.N_Worker
  workerTid,   \* Worker_Tid
  mail,        \* Mailboxes
  work,        \* each worker's place, its Idx and the function it holds
  spawn,       \* each creator's place in Spawn, its Func and loop variable
  handle,      \* what task_create has stored at each function's Handle address
  ran          \* history: the functions that workers began, in order

vars == <<nWorker, workerTid, mail, work, spawn, handle, ran>>

MaxWorker == Cardinality(Workers)
Boxes == 1..MaxWorker
Maybe(S) == S \cup {Nothing}

TypeOK ==
  /\ nWorker \in 0..MaxWorker
  /\ workerTid \in [Boxes -> Maybe(Workers)]
  /\ mail \in [Boxes -> [ready : BOOLEAN, taken : BOOLEAN, ff : Maybe(Functions)]]
  /\ work \in [Workers -> [pc : {"claim", "tid", "wait", "run"},
                           idx : 0..MaxWorker, fn : Maybe(Functions)]]
  /\ spawn \in [Creators -> [pc : {"out", "post", "store"},
                             fn : Maybe(Functions), i : 1..(MaxWorker + 1)]]
  /\ handle \in [Functions -> Boxes \cup {0}]
  /\ ran \in Seq(Functions)

NotSpawning == [pc |-> "out", fn |-> Nothing, i |-> 1]

Init ==
  /\ nWorker = 0
  /\ workerTid = [i \in Boxes |-> Nothing]
  /\ mail = [i \in Boxes |-> [ready |-> FALSE, taken |-> FALSE, ff |-> Nothing]]
  /\ work = [w \in Workers |-> [pc |-> "claim", idx |-> 0, fn |-> Nothing]]
  /\ spawn = [c \in Creators |-> NotSpawning]
  /\ handle = [f \in Functions |-> 0]
  /\ ran = <<>>
-------------------------------------------------------------------------------
(* The worker task.                                                        *)
ClaimWorker(w) ==
  /\ work[w].pc = "claim"
  /\ nWorker' = nWorker + 1
  /\ work' = [work EXCEPT ![w].pc = "tid", ![w].idx = nWorker + 1]
  /\ UNCHANGED <<workerTid, mail, spawn, handle, ran>>

SetTid(w) ==
  /\ work[w].pc = "tid"
  /\ workerTid' = [workerTid EXCEPT ![work[w].idx] = w]
  /\ work' = [work EXCEPT ![w].pc = "wait"]
  /\ UNCHANGED <<nWorker, mail, spawn, handle, ran>>

(* Mutant: Ready is not reset.                                             *)
WaitAgain(w) ==
  LET i == work[w].idx IN
  /\ work[w].pc = "wait" /\ mail[i].ready
  /\ work' = [work EXCEPT ![w].pc = "run", ![w].fn = mail[i].ff]
  /\ ran' = Append(ran, mail[i].ff)
  /\ UNCHANGED <<nWorker, workerTid, mail, spawn, handle>>

(* Mailbox.Wait, and the call of what it brought.                          *)
Wait(w) ==
  LET i == work[w].idx IN
  /\ work[w].pc = "wait" /\ mail[i].ready
  /\ mail' = [mail EXCEPT ![i].ready = FALSE]
  /\ work' = [work EXCEPT ![w].pc = "run", ![w].fn = mail[i].ff]
  /\ ran' = Append(ran, mail[i].ff)
  /\ UNCHANGED <<nWorker, workerTid, spawn, handle>>

(* A function that returns leaves its worker waiting; its mailbox stays    *)
(* Taken.                                                                  *)
FunctionReturns(w) ==
  /\ work[w].pc = "run"
  /\ work' = [work EXCEPT ![w].pc = "wait", ![w].fn = Nothing]
  /\ UNCHANGED <<nWorker, workerTid, mail, spawn, handle, ran>>

(* Mutant: always the task's own identity.                                 *)
GetCurrentTaskId(w) == w

(* What Get_Current_Task returns in worker w: a mailbox, or else its own   *)
(* identity.                                                               *)
GetCurrentTask(w) ==
  LET own == {i \in Boxes : workerTid[i] = w}
  IN IF own = {} THEN w ELSE CHOOSE i \in own : \A j \in own : i <= j
-------------------------------------------------------------------------------
(* Spawn tries the mailboxes in order, each by a protected call.           *)
Spawn(c, f) ==
  /\ spawn[c].pc = "out"
  /\ handle[f] = 0 /\ \A d \in Creators : spawn[d].fn # f
  /\ spawn' = [spawn EXCEPT ![c] = [pc |-> "post", fn |-> f, i |-> 1]]
  /\ UNCHANGED <<nWorker, workerTid, mail, work, handle, ran>>

(* Mutant: a mailbox is free again as soon as its worker has the function. *)
RefusesReady(i) == mail[i].ready

Refuses(i) == mail[i].taken

TryPost(c) ==
  LET i == spawn[c].i IN
  /\ spawn[c].pc = "post" /\ i \in Boxes
  /\ IF Refuses(i)
       THEN spawn' = [spawn EXCEPT ![c].i = i + 1] /\ UNCHANGED mail
       ELSE /\ mail' = [mail EXCEPT ![i] =
                          [ready |-> TRUE, taken |-> TRUE, ff |-> spawn[c].fn]]
            /\ spawn' = [spawn EXCEPT ![c].pc = "store"]
  /\ UNCHANGED <<nWorker, workerTid, work, handle, ran>>

(* Mutant: the function is stored in place of the mailbox.                 *)
StoreHandleFunction(c) ==
  /\ spawn[c].pc = "store"
  /\ handle' = [handle EXCEPT ![spawn[c].fn] = spawn[c].fn]
  /\ spawn' = [spawn EXCEPT ![c] = NotSpawning]
  /\ UNCHANGED <<nWorker, workerTid, mail, work, ran>>

(* The caller learns the handle only now: the worker, of higher priority,  *)
(* may have begun the function.                                            *)
StoreHandle(c) ==
  /\ spawn[c].pc = "store"
  /\ handle' = [handle EXCEPT ![spawn[c].fn] = spawn[c].i]
  /\ spawn' = [spawn EXCEPT ![c] = NotSpawning]
  /\ UNCHANGED <<nWorker, workerTid, mail, work, ran>>

PoolExhausted(c) ==
  /\ spawn[c].pc = "post" /\ spawn[c].i \notin Boxes
  /\ spawn' = [spawn EXCEPT ![c] = NotSpawning]
  /\ UNCHANGED <<nWorker, workerTid, mail, work, handle, ran>>
-------------------------------------------------------------------------------
WorkerStep(w) == ClaimWorker(w) \/ SetTid(w) \/ Wait(w)
SpawnStep(c) == TryPost(c) \/ StoreHandle(c) \/ PoolExhausted(c)

Next ==
  \/ \E w \in Workers : WorkerStep(w) \/ FunctionReturns(w)
  \/ \E c \in Creators : SpawnStep(c) \/ \E f \in Functions : Spawn(c, f)

(* Workers have the top priority and block in Wait; a creator gets the     *)
(* core when they do.                                                      *)
Fairness ==
  /\ \A w \in Workers : WF_vars(WorkerStep(w))
  /\ \A c \in Creators : WF_vars(SpawnStep(c))

Spec == Init /\ [][Next]_vars
FairSpec == Spec /\ Fairness
-------------------------------------------------------------------------------
(* A function given to task_create is run by one worker, at most once, and *)
(* for certain when the creation succeeded (rtos.adb:288-292).             *)
RunsOnce == \A j, k \in DOMAIN ran : ran[j] = ran[k] => j = k
Created(f) == handle[f] # 0
CreatedRuns == \A f \in Functions : Created(f) ~> \E k \in DOMAIN ran : ran[k] = f

(* Once task_create has returned, the function finds that it runs in the   *)
(* task whose handle the caller got (rtos.adb:349-354).                    *)
KnowsItself ==
  \A w \in Workers :
    work[w].pc = "run" /\ Created(work[w].fn) => GetCurrentTask(w) = handle[work[w].fn]

(* The same at every moment the function runs, from its first step on.     *)
KnowsItselfFromTheStart ==
  \A w \in Workers : work[w].pc = "run" => GetCurrentTask(w) = handle[work[w].fn]
===============================================================================
