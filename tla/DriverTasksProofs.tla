--------------------------- MODULE DriverTasksProofs ---------------------------
(***************************************************************************)
(* Proofs about OsTasks and DriverTasks, for every set of workers,         *)
(* creators, callers and mutexes and every capacity of the map and the     *)
(* pool.  First the tasks: no function is run twice, and one finds its own *)
(* handle once its creator has it.  Then the services they call: locks     *)
(* exclude, and semaphores are not shared.                                 *)
(***************************************************************************)
EXTENDS DriverTasks, FiniteSetTheorems, SequenceTheorems,
        WellFoundedInduction, TLAPS

(* A set of natural numbers that is not empty has a least one.             *)
LEMMA LeastOne ==
  ASSUME NEW T \in SUBSET Nat, T # {}
  PROVE  \E k \in T : \A j \in T : k <= j
<1> DEFINE less == {ss \in Nat \X Nat : ss[1] < ss[2]}
<1>1. IsWellFoundedOn(less, Nat)
  BY NatLessThanWellFounded DEF OpToRel
<1>2. \E k \in T : \A j \in T : ~(<<j, k>> \in less)
  <2> HIDE DEF less
  <2> QED BY <1>1, WFMin
<1>3. PICK k \in T : \A j \in T : ~(<<j, k>> \in less)
  BY <1>2
<1>4. \A j \in T : <<j, k>> \in Nat \X Nat /\ j \in Nat /\ k \in Nat
  OBVIOUS
<1>5. \A j \in T : ~(j < k)
  BY <1>3, <1>4
<1> QED BY <1>4, <1>5

(* Workers that have their number hold the numbers up to nWorker, one each.*)
Numbered == {w \in Workers : work[w].pc # "claim"}
WorkersNumbered ==
  /\ nWorker = Cardinality(Numbered)
  /\ \A w \in Numbered : work[w].idx \in 1..nWorker
  /\ \A v, w \in Numbered : work[v].idx = work[w].idx => v = w

(* Worker_Tid is right as soon as a worker waits.                          *)
TidsRight ==
  \A w \in Workers, i \in Boxes :
    workerTid[i] = w <=> work[w].pc \in {"wait", "run"} /\ work[w].idx = i

Holds(i, f) == mail[i].taken /\ mail[i].ff = f

(* A mailbox keeps its function, and is the only one that has it.          *)
OneBoxEach ==
  /\ \A i \in Boxes : mail[i].ready => mail[i].taken
  /\ \A i \in Boxes : mail[i].taken => mail[i].ff \in Functions
  /\ \A i, j \in Boxes : mail[i].taken /\ mail[j].taken /\ mail[i].ff = mail[j].ff => i = j

(* A function is with one creator, until a mailbox has it.                 *)
OneCreatorEach ==
  /\ \A c \in Creators : spawn[c].pc = "out" <=> spawn[c].fn = Nothing
  /\ \A c, d \in Creators : spawn[c].pc # "out" /\ spawn[c].fn = spawn[d].fn => c = d
  /\ \A c \in Creators : spawn[c].pc = "post" => \A i \in Boxes : ~Holds(i, spawn[c].fn)
  /\ \A c \in Creators : spawn[c].pc = "store" => spawn[c].i \in Boxes /\ Holds(spawn[c].i, spawn[c].fn)

(* A handle is the function's mailbox, and a function in a mailbox has its *)
(* handle or a creator about to store it.                                  *)
HandlesRight ==
  /\ \A f \in Functions : handle[f] # 0 => Holds(handle[f], f)
  /\ \A i \in Boxes : mail[i].taken =>
       handle[mail[i].ff] # 0 \/ \E c \in Creators : spawn[c].pc # "out" /\ spawn[c].fn = mail[i].ff

(* What a worker began lies in a mailbox that is no longer ready, its own  *)
(* while the function runs.                                                *)
BegunFromBoxes ==
  /\ \A k \in DOMAIN ran : \E i \in Boxes : Holds(i, ran[k]) /\ ~mail[i].ready
  /\ \A w \in Workers : work[w].pc = "run" => Holds(work[w].idx, work[w].fn)

IInv == /\ TypeOK /\ WorkersNumbered /\ TidsRight /\ OneBoxEach /\ OneCreatorEach
        /\ HandlesRight /\ BegunFromBoxes /\ RunsOnce
-------------------------------------------------------------------------------
LEMMA NumberedFinite == /\ IsFiniteSet(Numbered) /\ Cardinality(Numbered) \in Nat
                        /\ MaxWorker \in Nat /\ Cardinality(Numbered) <= MaxWorker
<1>1. Numbered \in SUBSET Workers
  BY DEF Numbered
<1> QED BY <1>1, TasksAssumption, FS_Subset, FS_CardinalityType DEF MaxWorker

LEMMA IInvInit == Init => IInv
<1> SUFFICES ASSUME Init PROVE IInv
  OBVIOUS
<1> USE DEF Init, NotSpawning
<1>0. MaxWorker \in Nat /\ Nothing \notin Workers /\ Nothing \notin Functions
  BY NumberedFinite, NothingAssumption
<1>1. TypeOK
  BY <1>0 DEF TypeOK, Boxes, Maybe
<1>2. WorkersNumbered
  <2>1. Numbered = {}
    BY DEF Numbered
  <2> QED BY <2>1, FS_EmptySet DEF WorkersNumbered
<1>3. TidsRight
  BY <1>0 DEF TidsRight
<1>4. OneBoxEach /\ OneCreatorEach /\ HandlesRight
  BY DEF OneBoxEach, OneCreatorEach, HandlesRight, Holds
<1>5. BegunFromBoxes /\ RunsOnce
  BY DEF BegunFromBoxes, RunsOnce
<1> QED BY <1>1, <1>2, <1>3, <1>4, <1>5 DEF IInv
-------------------------------------------------------------------------------
LEMMA ClaimWorkerStep ==
  ASSUME IInv, NEW w \in Workers, ClaimWorker(w)
  PROVE  IInv'
<1> USE DEF IInv
<1>0. /\ work[w].pc = "claim" /\ nWorker' = nWorker + 1
      /\ work' = [work EXCEPT ![w].pc = "tid", ![w].idx = nWorker + 1]
      /\ UNCHANGED <<workerTid, mail, spawn, handle, ran>>
  BY DEF ClaimWorker
<1>1. Numbered' = Numbered \cup {w} /\ w \notin Numbered
  BY <1>0 DEF Numbered, TypeOK
<1>2. nWorker' = Cardinality(Numbered') /\ nWorker' = nWorker + 1 /\ nWorker \in Nat
  BY <1>0, <1>1, NumberedFinite, FS_AddElement DEF WorkersNumbered
<1>3. nWorker' \in 1..MaxWorker
  <2>1. Numbered' \in SUBSET Workers
    BY DEF Numbered
  <2>2. Cardinality(Numbered') <= MaxWorker
    BY <2>1, TasksAssumption, FS_Subset DEF MaxWorker
  <2> QED BY <1>2, <2>2, NumberedFinite
<1>a. /\ work'[w] = [work[w] EXCEPT !.pc = "tid", !.idx = nWorker']
      /\ work'[w].pc = "tid" /\ work'[w].idx = nWorker' /\ work[w].pc = "claim"
      /\ \A v \in Workers \ {w} : work'[v] = work[v]
  BY <1>0, <1>2 DEF TypeOK
<1>b. UNCHANGED <<workerTid, mail, spawn, handle, ran>>
  BY <1>0
<1>4. TypeOK'
  <2>1. nWorker' \in 0..MaxWorker
    BY <1>3, NumberedFinite
  <2>2. work' \in [Workers -> [pc : {"claim", "tid", "wait", "run"},
                               idx : 0..MaxWorker, fn : Maybe(Functions)]]
    BY <1>0, <1>2, <2>1, ZenonT(40) DEF TypeOK
  <2> QED BY <1>0, <2>1, <2>2 DEF TypeOK, Boxes, Maybe
<1>5. WorkersNumbered'
  <2>1. \A v \in Numbered : work'[v].idx = work[v].idx /\ work[v].idx \in 1..nWorker
    BY <1>1, <1>a DEF WorkersNumbered, Numbered
  <2>2. \A v \in Numbered : work'[v].idx \in 1..nWorker' /\ work'[v].idx # work'[w].idx
    <3> SUFFICES ASSUME NEW v \in Numbered
                 PROVE  work'[v].idx \in 1..nWorker' /\ work'[v].idx # work'[w].idx
      OBVIOUS
    <3>1. work'[v].idx \in 1..nWorker /\ nWorker \in Nat /\ nWorker' = nWorker + 1
      BY <2>1, <1>2
    <3>2. work'[w].idx = nWorker'
      BY <1>a
    <3> HIDE DEF IInv
    <3> QED BY <3>1, <3>2
  <2>3. work'[w].idx \in 1..nWorker'
    BY <1>2, <1>a
  <2>4. \A u, v \in Numbered : work'[u].idx = work'[v].idx => u = v
    BY <2>1 DEF WorkersNumbered
  <2>5. \A u, v \in Numbered' : work'[u].idx = work'[v].idx => u = v
    BY <2>2, <2>4, <1>1
  <2>6. \A v \in Numbered' : work'[v].idx \in 1..nWorker'
    BY <2>2, <2>3, <1>1
  <2> QED BY <2>5, <2>6, <1>2 DEF WorkersNumbered
<1>6. TidsRight'
  <2>1. \A v \in Workers : work'[v].pc \in {"wait", "run"} <=> work[v].pc \in {"wait", "run"}
    BY <1>a
  <2>2. \A v \in Workers : work[v].pc \in {"wait", "run"} => work'[v].idx = work[v].idx
    BY <1>a
  <2>3. \A v \in Workers, i \in Boxes : workerTid[i] = v
          <=> work[v].pc \in {"wait", "run"} /\ work[v].idx = i
    BY DEF TidsRight
  <2>4. \A v \in Workers, i \in Boxes : workerTid'[i] = v
          <=> work'[v].pc \in {"wait", "run"} /\ work'[v].idx = i
    <3> HIDE DEF IInv
    <3> QED BY <2>1, <2>2, <2>3, <1>b
  <2> QED BY <2>4 DEF TidsRight, Boxes
<1>7. OneBoxEach' /\ OneCreatorEach' /\ HandlesRight' /\ RunsOnce'
  BY <1>0 DEF OneBoxEach, OneCreatorEach, HandlesRight, Holds, RunsOnce
<1>8. BegunFromBoxes'
  <2>1. \A v \in Workers : work'[v].pc = "run" => work[v].pc = "run" /\ work'[v] = work[v]
    BY <1>a
  <2> QED BY <2>1, <1>b DEF BegunFromBoxes, Holds, Boxes
<1> QED BY <1>4, <1>5, <1>6, <1>7, <1>8

LEMMA NumberedKept ==
  ASSUME WorkersNumbered, Numbered' = Numbered, nWorker' = nWorker,
         \A w \in Numbered : work'[w].idx = work[w].idx
  PROVE  WorkersNumbered'
BY DEF WorkersNumbered

LEMMA SetTidStep ==
  ASSUME IInv, NEW w \in Workers, SetTid(w)
  PROVE  IInv'
<1> USE DEF IInv, SetTid
<1>1. w \in Numbered /\ work[w].idx \in Boxes
  BY NumberedFinite DEF WorkersNumbered, Numbered, Boxes
<1>2. TypeOK'
  BY <1>1, ZenonT(40) DEF TypeOK, Maybe
<1>3. WorkersNumbered'
  <2>1. Numbered' = Numbered /\ \A v \in Numbered : work'[v].idx = work[v].idx
    BY DEF Numbered, TypeOK
  <2> QED BY <2>1, NumberedKept
<1>4. TidsRight'
  BY <1>1 DEF TidsRight, TypeOK, WorkersNumbered, Numbered
<1>5. OneBoxEach' /\ OneCreatorEach' /\ HandlesRight' /\ RunsOnce'
  BY DEF OneBoxEach, OneCreatorEach, HandlesRight, Holds, RunsOnce
<1>6. BegunFromBoxes'
  BY DEF BegunFromBoxes, Holds, TypeOK
<1> QED BY <1>2, <1>3, <1>4, <1>5, <1>6

LEMMA WaitStep ==
  ASSUME IInv, NEW w \in Workers, Wait(w)
  PROVE  IInv'
<1> USE DEF IInv
<1> DEFINE i == work[w].idx
<1>1. w \in Numbered /\ i \in Boxes /\ mail[i].ready /\ work[w].pc = "wait"
  BY NumberedFinite DEF Wait, WorkersNumbered, Numbered, Boxes
<1>2. /\ mail' = [mail EXCEPT ![i].ready = FALSE]
      /\ work' = [work EXCEPT ![w].pc = "run", ![w].fn = mail[i].ff]
      /\ ran' = Append(ran, mail[i].ff)
      /\ UNCHANGED <<nWorker, workerTid, spawn, handle>>
  BY DEF Wait
<1>3. mail[i].taken /\ mail[i].ff \in Functions
  BY <1>1 DEF OneBoxEach
<1>4. \A j \in Boxes : mail'[j].taken = mail[j].taken /\ mail'[j].ff = mail[j].ff
                       /\ (mail'[j].ready <=> mail[j].ready /\ j # i)
  BY <1>1, <1>2 DEF TypeOK
<1>5. TypeOK'
  <2>1. mail' \in [Boxes -> [ready : BOOLEAN, taken : BOOLEAN, ff : Maybe(Functions)]]
    BY <1>2, ZenonT(40) DEF TypeOK
  <2>2. work' \in [Workers -> [pc : {"claim", "tid", "wait", "run"},
                               idx : 0..MaxWorker, fn : Maybe(Functions)]]
    <3>1. mail[i].ff \in Maybe(Functions)
      BY <1>3 DEF Maybe
    <3> QED BY <3>1, <1>2, ZenonT(40) DEF TypeOK
  <2>3. ran' \in Seq(Functions)
    BY <1>2, <1>3 DEF TypeOK
  <2> QED BY <2>1, <2>2, <2>3, <1>2 DEF TypeOK, Boxes
<1>6. WorkersNumbered'
  <2>1. Numbered' = Numbered /\ \A v \in Numbered : work'[v].idx = work[v].idx
    BY <1>1, <1>2 DEF Numbered, TypeOK
  <2> QED BY <1>2, <2>1, NumberedKept
<1>7. TidsRight'
  BY <1>1, <1>2 DEF TidsRight, TypeOK
<1>8. OneBoxEach'
  BY <1>4 DEF OneBoxEach
<1>9. OneCreatorEach' /\ HandlesRight'
  BY <1>2, <1>4 DEF OneCreatorEach, HandlesRight, Holds, TypeOK
<1>10. \A k \in DOMAIN ran : ran[k] # mail[i].ff
  BY <1>1, <1>3 DEF BegunFromBoxes, OneBoxEach, Holds
<1>11. RunsOnce'
  BY <1>2, <1>10, <1>3 DEF RunsOnce, TypeOK
<1>12. BegunFromBoxes'
  <2>1. ASSUME NEW k \in DOMAIN ran'
        PROVE  \E j \in Boxes : (mail'[j].taken /\ mail'[j].ff = ran'[k]) /\ ~mail'[j].ready
    <3>1. CASE k \in DOMAIN ran
      <4>1. ran'[k] = ran[k]
        BY <3>1, <1>2, <1>3 DEF TypeOK
      <4>2. PICK j \in Boxes : Holds(j, ran[k]) /\ ~mail[j].ready
        BY <3>1 DEF BegunFromBoxes
      <4> QED BY <4>1, <4>2, <1>4 DEF Holds
    <3>2. CASE k \notin DOMAIN ran
      <4>1. ran'[k] = mail[i].ff
        BY <3>2, <1>2, <1>3 DEF TypeOK
      <4> QED BY <4>1, <1>1, <1>3, <1>4
    <3> QED BY <3>1, <3>2
  <2>2. ASSUME NEW v \in Workers, work'[v].pc = "run" PROVE mail'[work'[v].idx].taken /\ mail'[work'[v].idx].ff = work'[v].fn
    <3>1. work[v].pc \in {"wait", "run"} /\ work'[v].idx = work[v].idx
      BY <2>2, <1>1, <1>2 DEF TypeOK
    <3>2. work[v].idx \in Boxes
      BY <3>1, NumberedFinite DEF WorkersNumbered, Numbered, Boxes
    <3>3. Holds(work[v].idx, work'[v].fn)
      BY <2>2, <1>1, <1>2, <1>3 DEF BegunFromBoxes, Holds, TypeOK
    <3> QED BY <3>1, <3>2, <3>3, <1>4 DEF Holds
  <2> QED BY <2>1, <2>2 DEF BegunFromBoxes, Holds, Boxes
<1> QED BY <1>5, <1>6, <1>7, <1>8, <1>9, <1>11, <1>12

LEMMA FunctionReturnsStep ==
  ASSUME IInv, NEW w \in Workers, FunctionReturns(w)
  PROVE  IInv'
<1> USE DEF IInv, FunctionReturns
<1>1. TypeOK'
  <2>1. work' \in [Workers -> [pc : {"claim", "tid", "wait", "run"},
                               idx : 0..MaxWorker, fn : Maybe(Functions)]]
    <3>1. Nothing \in Maybe(Functions)
      BY DEF Maybe
    <3>2. work' = [work EXCEPT ![w].pc = "wait", ![w].fn = Nothing]
      OBVIOUS
    <3> HIDE DEF FunctionReturns
    <3> QED BY <3>1, <3>2 DEF TypeOK
  <2> QED BY <2>1 DEF TypeOK
<1>2. WorkersNumbered'
  <2>1. Numbered' = Numbered /\ \A v \in Numbered : work'[v].idx = work[v].idx
    BY DEF Numbered, TypeOK
  <2> QED BY <2>1, NumberedKept
<1>3. TidsRight'
  BY DEF TidsRight, TypeOK
<1>4. OneBoxEach' /\ OneCreatorEach' /\ HandlesRight' /\ RunsOnce'
  BY DEF OneBoxEach, OneCreatorEach, HandlesRight, Holds, RunsOnce
<1>5. BegunFromBoxes'
  BY DEF BegunFromBoxes, Holds, TypeOK
<1> QED BY <1>1, <1>2, <1>3, <1>4, <1>5
-------------------------------------------------------------------------------
LEMMA SpawnBegins ==
  ASSUME IInv, NEW c \in Creators, NEW f \in Functions, Spawn(c, f)
  PROVE  IInv'
<1> USE DEF IInv, Spawn
<1>0. MaxWorker \in Nat /\ f # Nothing
  BY NumberedFinite, NothingAssumption
<1>1. TypeOK'
  BY <1>0 DEF TypeOK, Maybe, Boxes
<1>2. WorkersNumbered' /\ TidsRight' /\ OneBoxEach' /\ RunsOnce' /\ BegunFromBoxes'
  BY DEF WorkersNumbered, Numbered, TidsRight, OneBoxEach, RunsOnce, BegunFromBoxes, Holds
<1>3. \A i \in Boxes : ~Holds(i, f)
  BY DEF HandlesRight, Holds
<1>4. OneCreatorEach'
  BY <1>0, <1>3 DEF OneCreatorEach, Holds, TypeOK
<1>5. HandlesRight'
  BY DEF HandlesRight, Holds, TypeOK
<1> QED BY <1>1, <1>2, <1>4, <1>5

LEMMA TryPostRefused ==
  ASSUME IInv, NEW c \in Creators, TryPost(c), Refuses(spawn[c].i)
  PROVE  IInv'
<1> USE DEF IInv
<1>1. /\ spawn[c].pc = "post" /\ spawn[c].i \in Boxes
      /\ spawn' = [spawn EXCEPT ![c].i = spawn[c].i + 1]
      /\ UNCHANGED <<mail, nWorker, workerTid, work, handle, ran>>
  BY DEF TryPost
<1>a. /\ spawn'[c].pc = spawn[c].pc /\ spawn'[c].fn = spawn[c].fn
      /\ \A d \in Creators \ {c} : spawn'[d] = spawn[d]
  BY <1>1 DEF TypeOK
<1>2. TypeOK'
  <2>1. spawn[c].i + 1 \in 1..(MaxWorker + 1)
    BY <1>1, NumberedFinite DEF Boxes
  <2>2. spawn' \in [Creators -> [pc : {"out", "post", "store"},
                                 fn : Maybe(Functions), i : 1..(MaxWorker + 1)]]
    BY <1>1, <2>1 DEF TypeOK
  <2> QED BY <1>1, <2>2 DEF TypeOK, Boxes
<1>3. WorkersNumbered' /\ TidsRight' /\ OneBoxEach' /\ RunsOnce' /\ BegunFromBoxes'
  BY <1>1 DEF WorkersNumbered, Numbered, TidsRight, OneBoxEach, RunsOnce, BegunFromBoxes, Holds
<1>4. OneCreatorEach'
  BY <1>1 DEF OneCreatorEach, Holds, TypeOK
<1>5. HandlesRight'
  <2>1. \A d \in Creators : spawn'[d].pc = spawn[d].pc /\ spawn'[d].fn = spawn[d].fn
    BY <1>a
  <2> QED BY <1>1, <2>1 DEF HandlesRight, Holds, Boxes
<1> QED BY <1>2, <1>3, <1>4, <1>5

LEMMA TryPostTaken ==
  ASSUME IInv, NEW c \in Creators, TryPost(c), ~Refuses(spawn[c].i)
  PROVE  IInv'
<1> USE DEF IInv
<1> DEFINE i == spawn[c].i
           f == spawn[c].fn
<1>1. /\ spawn[c].pc = "post" /\ i \in Boxes /\ ~mail[i].taken
      /\ mail' = [mail EXCEPT ![i] = [ready |-> TRUE, taken |-> TRUE, ff |-> f]]
      /\ spawn' = [spawn EXCEPT ![c].pc = "store"]
      /\ UNCHANGED <<nWorker, workerTid, work, handle, ran>>
  BY DEF TryPost, Refuses
<1>2. f \in Functions /\ \A j \in Boxes : ~Holds(j, f)
  BY <1>1 DEF OneCreatorEach, TypeOK, Maybe
<1>3. /\ \A j \in Boxes \ {i} : mail'[j] = mail[j]
      /\ mail'[i].taken /\ mail'[i].ready /\ mail'[i].ff = f
  BY <1>1 DEF TypeOK
<1>4. TypeOK'
  BY <1>1, <1>2 DEF TypeOK, Maybe
<1>5. WorkersNumbered' /\ TidsRight' /\ RunsOnce'
  BY <1>1 DEF WorkersNumbered, Numbered, TidsRight, RunsOnce
<1>6. OneBoxEach'
  BY <1>2, <1>3 DEF OneBoxEach, Holds
<1>7. \A d \in Creators : d # c => spawn'[d] = spawn[d] /\ (spawn[d].pc # "out" => spawn[d].fn # f)
  BY <1>1 DEF OneCreatorEach, TypeOK
<1>8. spawn'[c].pc = "store" /\ spawn'[c].i = i /\ spawn'[c].fn = f /\ f # Nothing
  BY <1>1, <1>2, NothingAssumption DEF TypeOK
<1>9. OneCreatorEach'
  <2>1. \A d \in Creators : (spawn'[d].pc = "out" <=> spawn'[d].fn = Nothing) /\ spawn'[d].fn = spawn[d].fn
    BY <1>7, <1>8 DEF OneCreatorEach
  <2>2. \A d, e \in Creators : spawn'[d].pc # "out" /\ spawn'[d].fn = spawn'[e].fn => d = e
    BY <2>1, <1>1, <1>7 DEF OneCreatorEach
  <2>3. ASSUME NEW d \in Creators, spawn'[d].pc = "post" PROVE \A j \in Boxes : ~Holds(j, spawn[d].fn)'
    <3>1. d # c /\ spawn'[d] = spawn[d] /\ spawn[d].fn # f
      BY <2>3, <1>7, <1>8
    <3> QED BY <2>3, <3>1, <1>3 DEF OneCreatorEach, Holds
  <2>4. ASSUME NEW d \in Creators, spawn'[d].pc = "store"
        PROVE  spawn'[d].i \in Boxes' /\ Holds(spawn[d].i, spawn[d].fn)'
    <3>1. CASE d = c
      BY <3>1, <1>1, <1>3, <1>8 DEF Holds, Boxes
    <3>2. CASE d # c
      <4>1. spawn'[d] = spawn[d] /\ spawn[d].i \in Boxes /\ Holds(spawn[d].i, spawn[d].fn)
        BY <2>4, <3>2, <1>7 DEF OneCreatorEach
      <4>2. spawn[d].i # i
        BY <4>1, <1>1 DEF Holds
      <4> QED BY <4>1, <4>2, <1>3 DEF Holds, Boxes
    <3> QED BY <3>1, <3>2
  <2> QED BY <2>1, <2>2, <2>3, <2>4 DEF OneCreatorEach
<1>10. HandlesRight'
  <2>1. ASSUME NEW g \in Functions, handle[g] # 0 PROVE Holds(handle[g], g)'
    <3>1. Holds(handle[g], g) /\ handle[g] \in Boxes /\ handle[g] # i
      BY <2>1, <1>1 DEF HandlesRight, TypeOK, Holds
    <3> QED BY <3>1, <1>1, <1>3 DEF Holds
  <2>2. ASSUME NEW j \in Boxes, mail'[j].taken
        PROVE  handle'[mail'[j].ff] # 0 \/ \E d \in Creators : spawn'[d].pc # "out" /\ spawn'[d].fn = mail'[j].ff
    <3>1. CASE j = i
      BY <3>1, <1>3, <1>8
    <3>2. CASE j # i
      <4>1. mail'[j] = mail[j]
        BY <3>2, <1>3
      <4> QED BY <2>2, <4>1, <1>1, <1>7, <1>8 DEF HandlesRight
    <3> QED BY <3>1, <3>2
  <2> QED BY <2>1, <2>2, <1>1 DEF HandlesRight
<1>11. BegunFromBoxes'
  <2>1. ASSUME NEW k \in DOMAIN ran PROVE \E j \in Boxes : Holds(j, ran[k])' /\ ~mail'[j].ready
    <3>1. PICK j \in Boxes : Holds(j, ran[k]) /\ ~mail[j].ready
      BY DEF BegunFromBoxes
    <3>2. mail'[j] = mail[j]
      BY <3>1, <1>1, <1>3 DEF Holds
    <3> QED BY <3>1, <3>2, <1>1 DEF Holds
  <2>2. ASSUME NEW v \in Workers, work[v].pc = "run" PROVE Holds(work[v].idx, work[v].fn)'
    <3>1. Holds(work[v].idx, work[v].fn) /\ work[v].idx \in Boxes
      BY <2>2, NumberedFinite DEF BegunFromBoxes, WorkersNumbered, Numbered, Boxes
    <3>2. work[v].idx # i
      BY <3>1, <1>1 DEF Holds
    <3> QED BY <3>1, <3>2, <1>1, <1>3 DEF Holds
  <2> QED BY <2>1, <2>2, <1>1 DEF BegunFromBoxes
<1> QED BY <1>4, <1>5, <1>6, <1>9, <1>10, <1>11

LEMMA StoreHandleStep ==
  ASSUME IInv, NEW c \in Creators, StoreHandle(c)
  PROVE  IInv'
<1> USE DEF IInv, StoreHandle
<1>0. /\ spawn[c].i \in Boxes /\ Holds(spawn[c].i, spawn[c].fn) /\ spawn[c].fn \in Functions
      /\ MaxWorker \in Nat /\ Nothing \notin Functions
  BY NumberedFinite, NothingAssumption DEF OneCreatorEach, TypeOK, Maybe
<1>1. TypeOK'
  BY <1>0 DEF TypeOK, NotSpawning, Maybe
<1>2. WorkersNumbered' /\ TidsRight' /\ OneBoxEach' /\ RunsOnce' /\ BegunFromBoxes'
  BY DEF WorkersNumbered, Numbered, TidsRight, OneBoxEach, RunsOnce, BegunFromBoxes, Holds
<1>3. OneCreatorEach'
  BY <1>0 DEF OneCreatorEach, NotSpawning, Holds, TypeOK
<1>4. HandlesRight'
  <2>1. \A g \in Functions : handle'[g] # 0 => Holds(handle[g], g)'
    BY <1>0 DEF HandlesRight, Holds, TypeOK
  <2>2. ASSUME NEW j \in Boxes, mail[j].taken
        PROVE  handle'[mail[j].ff] # 0 \/ \E d \in Creators : spawn'[d].pc # "out" /\ spawn'[d].fn = mail[j].ff
    <3>1. CASE mail[j].ff = spawn[c].fn
      BY <3>1, <1>0 DEF TypeOK, Boxes
    <3>2. CASE mail[j].ff # spawn[c].fn
      BY <2>2, <3>2, <1>0 DEF HandlesRight, OneBoxEach, TypeOK
    <3> QED BY <3>1, <3>2
  <2> QED BY <2>1, <2>2 DEF HandlesRight
<1> QED BY <1>1, <1>2, <1>3, <1>4

LEMMA PoolExhaustedStep ==
  ASSUME IInv, NEW c \in Creators, PoolExhausted(c)
  PROVE  IInv'
<1> USE DEF IInv, PoolExhausted
<1>0. MaxWorker \in Nat /\ Nothing \notin Functions /\ spawn[c].fn # Nothing
  BY NumberedFinite, NothingAssumption DEF OneCreatorEach
<1>1. TypeOK'
  BY <1>0 DEF TypeOK, NotSpawning, Maybe
<1>2. WorkersNumbered' /\ TidsRight' /\ OneBoxEach' /\ RunsOnce' /\ BegunFromBoxes'
  BY DEF WorkersNumbered, Numbered, TidsRight, OneBoxEach, RunsOnce, BegunFromBoxes, Holds
<1>3. OneCreatorEach'
  BY <1>0 DEF OneCreatorEach, NotSpawning, Holds, TypeOK
<1>4. HandlesRight'
  <2>1. \A j \in Boxes : mail[j].taken => mail[j].ff # spawn[c].fn
    BY DEF OneCreatorEach, Holds
  <2> QED BY <2>1 DEF HandlesRight, Holds, NotSpawning, TypeOK
<1> QED BY <1>1, <1>2, <1>3, <1>4
-------------------------------------------------------------------------------
LEMMA IInvStep == IInv /\ [Next]_vars => IInv'
<1> SUFFICES ASSUME IInv, [Next]_vars PROVE IInv'
  OBVIOUS
<1>1. ASSUME NEW w \in Workers, WorkerStep(w) \/ FunctionReturns(w) PROVE IInv'
  BY <1>1, ClaimWorkerStep, SetTidStep, WaitStep, FunctionReturnsStep DEF WorkerStep
<1>2. ASSUME NEW c \in Creators, SpawnStep(c) PROVE IInv'
  BY <1>2, TryPostRefused, TryPostTaken, StoreHandleStep, PoolExhaustedStep DEF SpawnStep
<1>3. ASSUME NEW c \in Creators, NEW f \in Functions, Spawn(c, f) PROVE IInv'
  BY <1>3, SpawnBegins
<1>4. CASE UNCHANGED vars
  BY <1>4 DEF vars, IInv, TypeOK, WorkersNumbered, Numbered, TidsRight, OneBoxEach,
              OneCreatorEach, HandlesRight, Holds, BegunFromBoxes, RunsOnce
<1> QED BY <1>1, <1>2, <1>3, <1>4 DEF Next

(* Once the creator has the handle, the function finds that handle.        *)
LEMMA KnowsItselfFromIInv == IInv => KnowsItself
<1> SUFFICES ASSUME IInv, NEW w \in Workers, work[w].pc = "run", Created(work[w].fn)
             PROVE  GetCurrentTask(w) = handle[work[w].fn]
  BY DEF KnowsItself
<1> USE DEF IInv
<1>1. work[w].idx \in Boxes /\ Holds(work[w].idx, work[w].fn)
  BY NumberedFinite DEF WorkersNumbered, Numbered, Boxes, BegunFromBoxes
<1>2. {i \in Boxes : workerTid[i] = w} = {work[w].idx}
  BY <1>1 DEF TidsRight
<1>3. GetCurrentTask(w) = work[w].idx
  <2>1. \A i, j \in {work[w].idx} : i <= j
    BY <1>1, NumberedFinite DEF Boxes
  <2> QED BY <1>2, <2>1 DEF GetCurrentTask
<1>4. work[w].fn \in Functions
  BY <1>1 DEF OneBoxEach, Holds
<1>5. handle[work[w].fn] \in Boxes /\ Holds(handle[work[w].fn], work[w].fn)
  BY <1>4 DEF Created, HandlesRight, TypeOK
<1> QED BY <1>1, <1>3, <1>5 DEF OneBoxEach, Holds
-------------------------------------------------------------------------------
LEMMA IInvAlways == Spec => []IInv
BY IInvInit, IInvStep, PTL DEF Spec

(* Every variable keeps its type: no index leaves the mailboxes, and no    *)
(* worker asks for a number that is not there.                             *)
THEOREM TasksTypeCorrect == Spec => []TypeOK
<1>1. IInv => TypeOK
  BY DEF IInv
<1> QED BY <1>1, IInvAlways, PTL

(* No function is begun twice (rtos.adb:322-341).                          *)
THEOREM RunsOnceThm == Spec => []RunsOnce
<1>1. IInv => RunsOnce
  BY DEF IInv
<1> QED BY <1>1, IInvAlways, PTL

(* Get_Current_Task agrees with the handle once the creator has it.        *)
THEOREM KnowsItselfThm == Spec => []KnowsItself
BY KnowsItselfFromIInv, IInvAlways, PTL
-------------------------------------------------------------------------------
(* The services                                                            *)

Entries(t) == {k \in DOMAIN threads : threads[k][1] = t}

(* A mutex that is not held has no owner.                                  *)
MutexKept ==
  \A m \in Mutexes :
    IF mutex[m].held THEN mutex[m].owner \in Callers /\ mutex[m].depth > 0
                     ELSE mutex[m] = Sync!Unlocked

(* A task carries a mutex only to Wait_Lock, a semaphore only to Add.      *)
CallsKept ==
  \A t \in Callers :
    /\ call[t].pc = "wait" => call[t].m \in Mutexes
    /\ call[t].pc # "add" => call[t].s = 0

(* A task's entry holds the one semaphore it was given; while the map has  *)
(* room, a task without an entry was given none.                           *)
EntriesRight ==
  /\ \A k \in DOMAIN threads : given[threads[k][1]] = {threads[k][2]}
  /\ Len(threads) < MaxThread => \A t \in Callers : Entries(t) = {} => given[t] = {}

(* A null semaphore comes from a pool that is, and stays, full; only it    *)
(* makes a task with an entry ask again.                                   *)
NullWhenFull ==
  /\ \A k \in DOMAIN threads : threads[k][2] = 0 => nSem = MaxSem
  /\ \A t \in Callers :
       /\ call[t].pc = "add" /\ call[t].s = 0 => nSem = MaxSem
       /\ call[t].pc \in {"create", "add"} =>
            \A k \in Entries(t) : threads[k][2] = 0 /\ call[t].s = 0

(* A semaphore taken from the pool is new, and is one task's.              *)
Fresh ==
  \A t \in Callers :
    /\ call[t].s <= nSem
    /\ \A s \in given[t] : s <= nSem
    /\ \A u \in Callers \ {t} :
         /\ given[t] \cap given[u] \subseteq {0}
         /\ call[t].s = call[u].s => call[t].s = 0
    /\ \A u \in Callers : call[t].s \in given[u] => call[t].s = 0

MutexInv == Sync!TypeOK /\ CallsKept /\ MutexKept /\ LocksExclude
SemInv == EntriesRight /\ NullWhenFull /\ Fresh
SyncInv == MutexInv /\ SemInv
-------------------------------------------------------------------------------
LEMMA Limits ==
  /\ MaxThread \in Nat /\ MaxSem \in Nat /\ MaxDepth \in Nat
  /\ Nothing \notin Callers
BY LimitsAssumption, CallersAssumption, NothingAssumption

LEMMA SyncInit == Sync!Init => SyncInv
<1> SUFFICES ASSUME Sync!Init PROVE SyncInv
  OBVIOUS
<1> USE Limits DEF Sync!Init, Sync!Unlocked, Sync!Out
<1>1. Sync!TypeOK
  BY DEF Sync!TypeOK, Sync!Semaphores
<1>2. CallsKept /\ MutexKept /\ LocksExclude
  BY DEF CallsKept, MutexKept, LocksExclude, Sync!LocksExclude
<1>3. EntriesRight /\ NullWhenFull /\ Fresh
  BY DEF EntriesRight, NullWhenFull, Fresh, Entries
<1> QED BY <1>1, <1>2, <1>3 DEF SyncInv, MutexInv, SemInv
-------------------------------------------------------------------------------
(* Locks                                                                   *)

MutexStates == [held : BOOLEAN, owner : Callers \cup {Nothing}, depth : Nat]
CallStates == [pc : {"out", "wait", "create", "add"},
               m : Mutexes \cup {Nothing}, s : 0..MaxSem]

LEMMA TypeParts ==
  Sync!TypeOK <=>
    /\ mutex \in [Mutexes -> MutexStates] /\ holds \in [Callers -> [Mutexes -> Nat]]
    /\ call \in [Callers -> CallStates]
    /\ nSem \in 0..MaxSem
    /\ threads \in Seq(Callers \X (0..MaxSem)) /\ Len(threads) <= MaxThread
    /\ given \in [Callers -> SUBSET (0..MaxSem)]
BY DEF Sync!TypeOK, Sync!Semaphores, MutexStates, CallStates

LEMMA TypePartsNext ==
  ASSUME mutex' \in [Mutexes -> MutexStates], holds' \in [Callers -> [Mutexes -> Nat]],
         call' \in [Callers -> CallStates],
         nSem' \in 0..MaxSem,
         threads' \in Seq(Callers \X (0..MaxSem)), Len(threads') <= MaxThread,
         given' \in [Callers -> SUBSET (0..MaxSem)]
  PROVE  Sync!TypeOK'
BY DEF Sync!TypeOK, Sync!Semaphores, MutexStates, CallStates

(* Task t alone comes to hold m, n times.                                  *)
LEMMA HoldStep ==
  ASSUME MutexInv, NEW t \in Callers, NEW m \in Mutexes,
         NEW r \in MutexStates, NEW n \in Nat,
         mutex' = [mutex EXCEPT ![m] = r],
         holds' = [holds EXCEPT ![t][m] = n],
         IF r.held THEN r.owner = t /\ r.depth = n /\ n > 0
                   ELSE r = Sync!Unlocked /\ n = 0,
         \A u \in Callers \ {t} : holds[u][m] = 0
  PROVE  /\ mutex' \in [Mutexes -> MutexStates] /\ holds' \in [Callers -> [Mutexes -> Nat]]
         /\ MutexKept' /\ LocksExclude'
<1>0. mutex \in [Mutexes -> MutexStates] /\ holds \in [Callers -> [Mutexes -> Nat]]
  BY TypeParts DEF MutexInv
<1>1. mutex' \in [Mutexes -> MutexStates] /\ holds' \in [Callers -> [Mutexes -> Nat]]
  BY <1>0
<1>2. mutex'[m] = r /\ \A l \in Mutexes \ {m} : mutex'[l] = mutex[l]
  BY <1>0
<1>3. /\ holds'[t][m] = n /\ \A u \in Callers \ {t} : holds'[u] = holds[u]
      /\ \A l \in Mutexes \ {m} : holds'[t][l] = holds[t][l]
  BY <1>0
<1>4. MutexKept'
  <2>1. ASSUME NEW l \in Mutexes
        PROVE  IF mutex'[l].held THEN mutex'[l].owner \in Callers /\ mutex'[l].depth > 0
                                 ELSE mutex'[l] = Sync!Unlocked
    <3>1. CASE l = m
      BY <3>1, <1>2
    <3>2. CASE l # m
      BY <3>2, <1>2 DEF MutexInv, MutexKept
    <3> QED BY <3>1, <3>2
  <2> QED BY <2>1 DEF MutexKept, Sync!Unlocked
<1>5. ASSUME NEW l \in Mutexes, NEW u \in Callers
      PROVE  holds'[u][l] = IF mutex'[l].held /\ mutex'[l].owner = u THEN mutex'[l].depth ELSE 0
  <2>1. CASE l = m
    BY <2>1, <1>2, <1>3 DEF Sync!Unlocked
  <2>2. CASE l # m
    BY <2>2, <1>2, <1>3 DEF MutexInv, LocksExclude, Sync!LocksExclude
  <2> QED BY <2>1, <2>2
<1>6. LocksExclude'
  BY <1>5 DEF LocksExclude, Sync!LocksExclude
<1> QED BY <1>1, <1>4, <1>6

(* A task moves on in its call, and the mutexes stay.                      *)
LEMMA CallStep ==
  ASSUME MutexInv, NEW t \in Callers, NEW x \in CallStates,
         call' = [call EXCEPT ![t] = x],
         x.pc = "wait" => x.m \in Mutexes,
         x.pc # "add" => x.s = 0
  PROVE  call' \in [Callers -> CallStates] /\ CallsKept'
<1>1. call \in [Callers -> CallStates]
  BY TypeParts DEF MutexInv
<1> QED BY <1>1 DEF MutexInv, CallsKept

LEMMA OutIsOut ==
  /\ Sync!Out \in CallStates /\ Sync!Out.pc = "out" /\ Sync!Out.s = 0
  /\ \A m \in Mutexes :
       LET x == [Sync!Out EXCEPT !.pc = "wait", !.m = m]
       IN  x \in CallStates /\ x.pc = "wait" /\ x.m = m /\ x.s = 0
<1>1. 0 \in 0..MaxSem
  BY Limits
<1> QED BY <1>1 DEF Sync!Out, CallStates

(* Who holds a mutex, and how often.                                       *)
LEMMA Holders ==
  ASSUME MutexInv, NEW m \in Mutexes
  PROVE  /\ mutex[m] \in MutexStates
         /\ ~mutex[m].held => \A u \in Callers : holds[u][m] = 0
         /\ mutex[m].held => mutex[m].depth > 0 /\
              \A u \in Callers : holds[u][m] = IF mutex[m].owner = u THEN mutex[m].depth ELSE 0
         /\ \A u \in Callers : holds[u][m] \in Nat
         /\ mutex[m].depth \in Nat
BY TypeParts DEF MutexInv, MutexKept, LocksExclude, Sync!LocksExclude, MutexStates

LEMMA LockedStates ==
  ASSUME NEW t \in Callers
  PROVE  /\ Sync!LockedBy(t) \in MutexStates /\ Sync!LockedBy(t).held
         /\ Sync!LockedBy(t).owner = t /\ Sync!LockedBy(t).depth = 1
         /\ Sync!Unlocked \in MutexStates /\ ~Sync!Unlocked.held
BY DEF Sync!LockedBy, Sync!Unlocked, MutexStates

LEMMA Deeper ==
  ASSUME NEW x \in MutexStates, NEW d \in Nat
  PROVE  /\ [x EXCEPT !.depth = d] \in MutexStates
         /\ [x EXCEPT !.depth = d].held = x.held
         /\ [x EXCEPT !.depth = d].owner = x.owner
         /\ [x EXCEPT !.depth = d].depth = d
BY DEF MutexStates

(* A task may lock a mutex that nobody holds.                              *)
LEMMA Lockable ==
  ASSUME MutexInv, NEW t \in Callers, NEW m \in Mutexes, ~mutex[m].held
  PROVE  LET r == Sync!LockedBy(t)
             n == holds[t][m] + 1
         IN  /\ r \in MutexStates /\ n \in Nat
             /\ IF r.held THEN r.owner = t /\ r.depth = n /\ n > 0 ELSE r = Sync!Unlocked /\ n = 0
             /\ \A u \in Callers \ {t} : holds[u][m] = 0
<1>1. \A u \in Callers : holds[u][m] = 0
  BY Holders
<1> DEFINE n == holds[t][m] + 1
<1>2. n = 1
  BY <1>1
<1> HIDE DEF n
<1>3. /\ Sync!LockedBy(t) \in MutexStates /\ n \in Nat
      /\ IF Sync!LockedBy(t).held
           THEN Sync!LockedBy(t).owner = t /\ Sync!LockedBy(t).depth = n /\ n > 0
           ELSE Sync!LockedBy(t) = Sync!Unlocked /\ n = 0
  BY <1>2, LockedStates
<1> QED BY <1>1, <1>3 DEF n

LEMMA TryLockStep ==
  ASSUME MutexInv, NEW t \in Callers, NEW m \in Mutexes, Sync!TryLock(t, m)
  PROVE  MutexInv' /\ UNCHANGED <<nSem, threads, given>> /\ (call' = call \/ call[t].pc = "out")
<1>0. call[t].pc = "out" /\ UNCHANGED <<nSem, threads, given>>
  BY DEF Sync!TryLock, Sync!semVars
<1>1. CASE ~mutex[m].held
  <2>1. /\ mutex' = [mutex EXCEPT ![m] = Sync!LockedBy(t)]
        /\ holds' = [holds EXCEPT ![t][m] = holds[t][m] + 1] /\ UNCHANGED call
    BY <1>1 DEF Sync!TryLock, Sync!Counts
  <2> DEFINE r == Sync!LockedBy(t)
             n == holds[t][m] + 1
  <2>2. /\ mutex' \in [Mutexes -> MutexStates] /\ holds' \in [Callers -> [Mutexes -> Nat]]
        /\ MutexKept' /\ LocksExclude'
    <3>1. mutex' = [mutex EXCEPT ![m] = r] /\ holds' = [holds EXCEPT ![t][m] = n]
      BY <2>1
    <3>2. /\ r \in MutexStates /\ n \in Nat
          /\ IF r.held THEN r.owner = t /\ r.depth = n /\ n > 0 ELSE r = Sync!Unlocked /\ n = 0
          /\ \A u \in Callers \ {t} : holds[u][m] = 0
      BY <1>1, Lockable
    <3> HIDE DEF r, n
    <3> QED BY <3>1, <3>2, HoldStep
  <2> QED BY <1>0, <2>1, <2>2, TypeParts, TypePartsNext DEF MutexInv, CallsKept
<1>2. CASE mutex[m].held /\ mutex[m].owner = t
  <2> DEFINE n == mutex[m].depth + 1
             r == [mutex[m] EXCEPT !.depth = n]
  <2>1. /\ mutex' = [mutex EXCEPT ![m] = r]
        /\ holds' = [holds EXCEPT ![t][m] = n] /\ UNCHANGED call
    BY <1>2, Holders DEF Sync!TryLock, Sync!Counts
  <2>2. n \in Nat /\ n > 0 /\ mutex[m] \in MutexStates
    BY Holders
  <2>3. r \in MutexStates /\ r.held /\ r.owner = t /\ r.depth = n
    <3> HIDE DEF n
    <3> QED BY <1>2, <2>2, Deeper
  <2>4. \A u \in Callers \ {t} : holds[u][m] = 0
    BY <1>2, Holders
  <2>5. /\ mutex' \in [Mutexes -> MutexStates] /\ holds' \in [Callers -> [Mutexes -> Nat]]
        /\ MutexKept' /\ LocksExclude'
    <3> HIDE DEF n, r
    <3> QED BY <2>1, <2>2, <2>3, <2>4, HoldStep
  <2> QED BY <1>0, <2>1, <2>5, TypeParts, TypePartsNext DEF MutexInv, CallsKept
<1>3. CASE mutex[m].held /\ mutex[m].owner # t
  <2> DEFINE x == [Sync!Out EXCEPT !.pc = "wait", !.m = m]
  <2>1. call' = [call EXCEPT ![t] = x] /\ UNCHANGED <<mutex, holds>>
    BY <1>3 DEF Sync!TryLock, Sync!mutexVars
  <2>2. x \in CallStates /\ x.pc = "wait" /\ x.m = m /\ x.s = 0
    BY OutIsOut
  <2>3. call' \in [Callers -> CallStates] /\ CallsKept'
    BY <2>1, <2>2, CallStep
  <2> QED BY <1>0, <2>1, <2>3, TypeParts, TypePartsNext
          DEF MutexInv, MutexKept, LocksExclude, Sync!LocksExclude, Sync!Unlocked
<1> QED BY <1>0, <1>1, <1>2, <1>3

LEMMA WaitLockStep ==
  ASSUME MutexInv, NEW t \in Callers, Sync!WaitLock(t)
  PROVE  /\ MutexInv' /\ UNCHANGED <<nSem, threads, given>>
         /\ call' = [call EXCEPT ![t] = Sync!Out]
<1> DEFINE m == call[t].m
<1>1. m \in Mutexes /\ ~mutex[m].held
  BY DEF MutexInv, Sync!WaitLock, CallsKept
<1>2. /\ mutex' = [mutex EXCEPT ![m] = Sync!LockedBy(t)]
      /\ holds' = [holds EXCEPT ![t][m] = holds[t][m] + 1]
      /\ call' = [call EXCEPT ![t] = Sync!Out]
      /\ UNCHANGED <<nSem, threads, given>>
  BY DEF Sync!WaitLock, Sync!Counts, Sync!semVars
<1> HIDE DEF m
<1> DEFINE r == Sync!LockedBy(t)
           n == holds[t][m] + 1
<1>3. /\ mutex' \in [Mutexes -> MutexStates] /\ holds' \in [Callers -> [Mutexes -> Nat]]
      /\ MutexKept' /\ LocksExclude'
  <2>1. mutex' = [mutex EXCEPT ![m] = r] /\ holds' = [holds EXCEPT ![t][m] = n]
    BY <1>2
  <2>2. /\ r \in MutexStates /\ n \in Nat
        /\ IF r.held THEN r.owner = t /\ r.depth = n /\ n > 0 ELSE r = Sync!Unlocked /\ n = 0
        /\ \A u \in Callers \ {t} : holds[u][m] = 0
    BY <1>1, Lockable
  <2> HIDE DEF r, n
  <2> QED BY <1>1, <2>1, <2>2, HoldStep
<1>4. call' \in [Callers -> CallStates] /\ CallsKept'
  BY <1>2, OutIsOut, CallStep
<1> QED BY <1>2, <1>3, <1>4, TypeParts, TypePartsNext DEF MutexInv

LEMMA MutexUnlockStep ==
  ASSUME MutexInv, NEW t \in Callers, NEW m \in Mutexes, Sync!MutexUnlock(t, m)
  PROVE  MutexInv' /\ UNCHANGED <<call, nSem, threads, given>>
<1> DEFINE n == mutex[m].depth - 1
           r == Sync!UnlockedOnce(mutex[m])
<1>1. /\ mutex[m] \in MutexStates /\ mutex[m].held /\ mutex[m].owner = t
      /\ mutex[m].depth = holds[t][m] /\ mutex[m].depth \in Nat /\ mutex[m].depth > 0
  BY Holders DEF Sync!MutexUnlock
<1>2. /\ mutex' = [mutex EXCEPT ![m] = r] /\ holds' = [holds EXCEPT ![t][m] = n]
      /\ UNCHANGED <<call, nSem, threads, given>>
  BY <1>1 DEF Sync!MutexUnlock, Sync!Counts, Sync!semVars
<1>3. \A u \in Callers \ {t} : holds[u][m] = 0
  BY <1>1, Holders
<1>4. n \in Nat
  BY <1>1
<1>5. r \in MutexStates /\ IF r.held THEN r.owner = t /\ r.depth = n /\ n > 0
                                     ELSE r = Sync!Unlocked /\ n = 0
  <2>1. CASE mutex[m].depth > 1
    <3>1. r = [mutex[m] EXCEPT !.depth = n]
      BY <2>1 DEF Sync!UnlockedOnce
    <3>2. n > 0
      BY <2>1, <1>1
    <3> HIDE DEF n, r
    <3> QED BY <1>1, <1>4, <3>1, <3>2, Deeper
  <2>2. CASE mutex[m].depth = 1
    <3>1. r = Sync!Unlocked /\ n = 0
      BY <2>2 DEF Sync!UnlockedOnce
    <3> HIDE DEF n, r
    <3> QED BY <3>1, LockedStates
  <2> QED BY <1>1, <2>1, <2>2
<1>6. /\ mutex' \in [Mutexes -> MutexStates] /\ holds' \in [Callers -> [Mutexes -> Nat]]
      /\ MutexKept' /\ LocksExclude'
  <2> HIDE DEF n, r
  <2> QED BY <1>2, <1>3, <1>4, <1>5, HoldStep
<1> QED BY <1>2, <1>6, TypeParts, TypePartsNext DEF MutexInv, CallsKept
-------------------------------------------------------------------------------
(* Semaphores                                                              *)

LEMMA EntriesAreNat == ASSUME SyncInv PROVE \A t \in Callers : Entries(t) \in SUBSET Nat
BY DEF SyncInv, MutexInv, Entries, Sync!TypeOK

LEMMA FoundIsOwn ==
  ASSUME SyncInv, NEW t \in Callers
  PROVE  /\ Entries(t) = {} => Sync!Found(t) = 0
         /\ Entries(t) # {} => given[t] = {Sync!Found(t)}
         /\ Sync!Found(t) = 0 => \A k \in Entries(t) : threads[k][2] = 0
<1>0. Sync!Entries(t) = Entries(t)
  BY DEF Sync!Entries, Entries
<1>1. ASSUME Entries(t) # {} PROVE \E k \in Entries(t) : Sync!Found(t) = threads[k][2]
  <2>1. \E k \in Entries(t) : \A j \in Entries(t) : k <= j
    BY <1>1, EntriesAreNat, LeastOne
  <2> QED BY <1>0, <1>1, <2>1 DEF Sync!Found
<1>2. \A k \in Entries(t) : given[t] = {threads[k][2]}
  BY DEF SyncInv, SemInv, EntriesRight, Entries
<1>3. Entries(t) = {} => Sync!Found(t) = 0
  BY <1>0 DEF Sync!Found
<1> QED BY <1>1, <1>2, <1>3

LEMMA SyncStutters ==
  ASSUME SyncInv, UNCHANGED syncVars
  PROVE  SyncInv'
<1> USE DEF syncVars, SyncInv
<1>1. MutexInv'
  BY TypeParts, TypePartsNext
     DEF MutexInv, CallsKept, MutexKept, LocksExclude, Sync!LocksExclude, Sync!Unlocked
<1>2. SemInv'
  BY DEF SemInv, EntriesRight, NullWhenFull, Fresh, Entries
<1> QED BY <1>1, <1>2

LEMMA FindStep ==
  ASSUME SyncInv, NEW t \in Callers, Sync!Find(t)
  PROVE  SyncInv'
<1>1. call[t].pc = "out" /\ call[t].s = 0 /\ UNCHANGED <<mutex, holds, nSem, threads>>
  BY DEF Sync!Find, Sync!mutexVars, SyncInv, MutexInv, CallsKept
<1>2. /\ call \in [Callers -> CallStates] /\ given \in [Callers -> SUBSET (0..MaxSem)]
      /\ Sync!TypeOK
  BY TypeParts DEF SyncInv, MutexInv
<1>3. CASE Sync!Found(t) = 0
  <2> DEFINE x == [call[t] EXCEPT !.pc = "create"]
  <2>1. call' = [call EXCEPT ![t] = x] /\ UNCHANGED given
    BY <1>3 DEF Sync!Find
  <2>2. x \in CallStates /\ x.pc = "create" /\ x.s = 0
    BY <1>1, <1>2 DEF CallStates
  <2>3. call' \in [Callers -> CallStates] /\ CallsKept'
    <3> HIDE DEF x
    <3> QED BY <2>1, <2>2, CallStep DEF SyncInv
  <2>4. \A u \in Callers : call'[u].s = call[u].s /\ (u # t => call'[u] = call[u])
    <3> HIDE DEF x
    <3> QED BY <2>1, <2>2, <1>1, <1>2
  <2>5. MutexInv'
    BY <1>1, <1>2, <2>1, <2>3, TypeParts, TypePartsNext
       DEF SyncInv, MutexInv, MutexKept, LocksExclude, Sync!LocksExclude, Sync!Unlocked
  <2>6. EntriesRight' /\ Fresh'
    <3>1. UNCHANGED <<given, threads, nSem>> /\ \A u \in Callers : call'[u].s = call[u].s
      BY <1>1, <2>1, <2>4
    <3>2. EntriesRight'
      BY <3>1 DEF SyncInv, SemInv, EntriesRight, Entries
    <3>3. Fresh'
      <4> HIDE DEF x
      <4> QED BY <3>1 DEF SyncInv, SemInv, Fresh
    <3> QED BY <3>2, <3>3
  <2>7. \A k \in Entries(t) : threads[k][2] = 0
    BY <1>3, FoundIsOwn
  <2>8. call'[t].pc = "create" /\ call'[t].s = 0
    <3> HIDE DEF x
    <3> QED BY <2>1, <2>2, <1>2
  <2>9. NullWhenFull'
    BY <1>1, <2>4, <2>7, <2>8 DEF SyncInv, SemInv, NullWhenFull, Entries
  <2> QED BY <2>5, <2>6, <2>9 DEF SyncInv, SemInv
<1>4. CASE Sync!Found(t) # 0
  <2>1. given' = [given EXCEPT ![t] = given[t] \cup {Sync!Found(t)}] /\ UNCHANGED call
    BY <1>4 DEF Sync!Find, Sync!Return
  <2>2. given[t] \cup {Sync!Found(t)} = given[t]
    BY <1>4, FoundIsOwn
  <2>3. given' = given
    BY <1>2, <2>1, <2>2
  <2>4. UNCHANGED <<mutex, nSem, threads, call, holds, given>>
    BY <1>1, <2>1, <2>3
  <2> QED BY <2>4, SyncStutters DEF syncVars
<1> QED BY <1>3, <1>4

LEMMA CreateStep ==
  ASSUME SyncInv, NEW t \in Callers, Sync!Create(t)
  PROVE  SyncInv'
<1> DEFINE new == IF nSem < MaxSem THEN nSem + 1 ELSE 0
           x == [call[t] EXCEPT !.pc = "add", !.s = new]
<1>1. /\ call[t].pc = "create" /\ call' = [call EXCEPT ![t] = x]
      /\ nSem' = IF nSem < MaxSem THEN nSem + 1 ELSE nSem
      /\ UNCHANGED <<mutex, holds, threads, given>>
  BY DEF Sync!Create, Sync!mutexVars
<1>2. /\ call \in [Callers -> CallStates] /\ given \in [Callers -> SUBSET (0..MaxSem)]
      /\ Sync!TypeOK /\ nSem \in 0..MaxSem
  BY TypeParts DEF SyncInv, MutexInv
<1>3. /\ new \in 0..MaxSem /\ nSem' \in 0..MaxSem /\ new <= nSem' /\ nSem <= nSem'
      /\ new # 0 => \A n \in 0..nSem : n # new
      /\ new = 0 => nSem = MaxSem /\ nSem' = nSem
      /\ nSem = MaxSem => new = 0 /\ nSem' = nSem
  BY <1>1, <1>2, Limits
<1> HIDE DEF new
<1>4. x \in CallStates /\ x.pc = "add" /\ x.s = new
  BY <1>2, <1>3 DEF CallStates
<1> HIDE DEF x
<1>5. call' \in [Callers -> CallStates] /\ CallsKept'
  BY <1>1, <1>4, CallStep DEF SyncInv
<1>6. call'[t] = x /\ \A u \in Callers \ {t} : call'[u] = call[u]
  BY <1>1, <1>2
<1>7. MutexInv'
  BY <1>1, <1>2, <1>3, <1>5, TypeParts, TypePartsNext
     DEF SyncInv, MutexInv, MutexKept, LocksExclude, Sync!LocksExclude, Sync!Unlocked
<1>8. EntriesRight'
  BY <1>1 DEF SyncInv, SemInv, EntriesRight, Entries
<1>9. NullWhenFull'
  <2>1. \A k \in DOMAIN threads : threads[k][2] = 0 => nSem = MaxSem
    BY DEF SyncInv, SemInv, NullWhenFull
  <2>2. \A k \in DOMAIN threads : threads[k][2] = 0 => nSem' = MaxSem /\ new = 0
    BY <2>1, <1>3
  <2>3. \A k \in Entries(t) : threads[k][2] = 0
    BY <1>1 DEF SyncInv, SemInv, NullWhenFull
  <2>4. \A u \in Callers \ {t} :
          /\ call[u].pc = "add" /\ call[u].s = 0 => nSem' = MaxSem
          /\ call[u].pc \in {"create", "add"} =>
               \A k \in Entries(u) : threads[k][2] = 0 /\ call[u].s = 0
    BY <1>3 DEF SyncInv, SemInv, NullWhenFull
  <2>5. /\ call'[t].pc = "add" /\ call'[t].s = 0 => nSem' = MaxSem
        /\ \A k \in Entries(t) : threads[k][2] = 0 /\ call'[t].s = 0
    BY <1>3, <1>4, <1>6, <2>2, <2>3 DEF Entries
  <2> QED BY <1>1, <1>6, <2>2, <2>4, <2>5 DEF NullWhenFull, Entries
<1>10. Fresh'
  <2>1. \A u \in Callers : call[u].s \in 0..nSem /\ given[u] \subseteq 0..nSem
    BY <1>2 DEF SyncInv, SemInv, Fresh, CallStates
  <2>2. \A u \in Callers : call'[u].s <= nSem' /\ \A s \in given[u] : s <= nSem'
    BY <2>1, <1>2, <1>3, <1>4, <1>6
  <2>3. \A u \in Callers \ {t} : new = call[u].s => new = 0
    BY <2>1, <1>3
  <2>4. \A u \in Callers : new \in given[u] => new = 0
    BY <2>1, <1>3
  <2> QED BY <1>1, <1>4, <1>6, <2>2, <2>3, <2>4 DEF SyncInv, SemInv, Fresh
<1> QED BY <1>7, <1>8, <1>9, <1>10 DEF SyncInv, SemInv

(* What the map is after Add.                                              *)
LEMMA Added ==
  ASSUME Sync!TypeOK, NEW t \in Callers, NEW s \in 0..MaxSem,
         threads' = IF Len(threads) < MaxThread THEN Append(threads, <<t, s>>) ELSE threads
  PROVE  /\ threads' \in Seq(Callers \X (0..MaxSem)) /\ Len(threads') <= MaxThread
         /\ \A k \in DOMAIN threads : k \in DOMAIN threads' /\ threads'[k] = threads[k]
         /\ \A k \in DOMAIN threads' \ DOMAIN threads : threads'[k] = <<t, s>> /\ Len(threads) < MaxThread
         /\ Len(threads') < MaxThread =>
              Len(threads) < MaxThread /\ \E k \in DOMAIN threads' : threads'[k] = <<t, s>>
<1> DEFINE Pairs == Callers \X (0..MaxSem)
<1>1. threads \in Seq(Pairs) /\ Len(threads) \in Nat /\ Len(threads) <= MaxThread /\ <<t, s>> \in Pairs
  BY TypeParts
<1> HIDE DEF Pairs
<1>2. CASE Len(threads) < MaxThread
  <2>1. threads' = Append(threads, <<t, s>>)
    BY <1>2
  <2>2. /\ threads' \in Seq(Pairs) /\ Len(threads') = Len(threads) + 1
        /\ \A k \in 1..Len(threads) : threads'[k] = threads[k]
        /\ threads'[Len(threads) + 1] = <<t, s>>
    BY <1>1, <2>1, AppendProperties
  <2>3. DOMAIN threads = 1..Len(threads) /\ DOMAIN threads' = 1..(Len(threads) + 1)
    BY <1>1, <2>2
  <2>4. \A k \in DOMAIN threads : k \in DOMAIN threads' /\ threads'[k] = threads[k]
    BY <1>1, <2>2, <2>3
  <2>5. \A k \in DOMAIN threads' \ DOMAIN threads : k = Len(threads) + 1
    BY <1>1, <2>3
  <2>6. Len(threads) + 1 \in DOMAIN threads'
    BY <1>1, <2>3
  <2>7. Len(threads') <= MaxThread
    BY <1>1, <1>2, <2>2, Limits
  <2> QED BY <1>2, <2>2, <2>4, <2>5, <2>6, <2>7 DEF Pairs
<1>3. CASE ~(Len(threads) < MaxThread)
  BY <1>1, <1>3, Limits DEF Pairs
<1> QED BY <1>2, <1>3

LEMMA AddStep ==
  ASSUME SyncInv, NEW t \in Callers, Sync!Add(t)
  PROVE  SyncInv'
<1> DEFINE s == call[t].s
<1>1. /\ call[t].pc = "add" /\ call' = [call EXCEPT ![t] = Sync!Out]
      /\ given' = [given EXCEPT ![t] = given[t] \cup {s}]
      /\ threads' = IF Len(threads) < MaxThread THEN Append(threads, <<t, s>>) ELSE threads
      /\ UNCHANGED <<mutex, holds, nSem>>
  BY DEF Sync!Add, Sync!Return, Sync!mutexVars
<1>2. /\ call \in [Callers -> CallStates] /\ given \in [Callers -> SUBSET (0..MaxSem)]
      /\ Sync!TypeOK /\ nSem \in 0..MaxSem /\ threads \in Seq(Callers \X (0..MaxSem))
  BY TypeParts DEF SyncInv, MutexInv
<1>3. s \in 0..MaxSem
  BY <1>2 DEF CallStates
<1>4. /\ s = 0 => nSem = MaxSem
      /\ \A k \in Entries(t) : threads[k][2] = 0 /\ s = 0
  BY <1>1 DEF SyncInv, SemInv, NullWhenFull
<1>5. /\ s <= nSem
      /\ \A u \in Callers : s \in given[u] => s = 0
      /\ \A u \in Callers \ {t} : call[u].s = s => s = 0
  BY DEF SyncInv, SemInv, Fresh
<1>6. /\ \A k \in DOMAIN threads : given[threads[k][1]] = {threads[k][2]}
      /\ \A k \in DOMAIN threads : threads[k][2] = 0 => nSem = MaxSem
      /\ Len(threads) < MaxThread => \A u \in Callers : Entries(u) = {} => given[u] = {}
  BY DEF SyncInv, SemInv, EntriesRight, NullWhenFull
<1> HIDE DEF s
<1>7. /\ call'[t] = Sync!Out /\ given'[t] = given[t] \cup {s}
      /\ \A u \in Callers \ {t} : call'[u] = call[u] /\ given'[u] = given[u]
  BY <1>1, <1>2
<1>8. call' \in [Callers -> CallStates] /\ CallsKept'
  BY <1>1, OutIsOut, CallStep DEF SyncInv
<1>9. /\ threads' \in Seq(Callers \X (0..MaxSem)) /\ Len(threads') <= MaxThread
      /\ \A k \in DOMAIN threads : k \in DOMAIN threads' /\ threads'[k] = threads[k]
      /\ \A k \in DOMAIN threads' \ DOMAIN threads : threads'[k] = <<t, s>> /\ Len(threads) < MaxThread
      /\ Len(threads') < MaxThread =>
           Len(threads) < MaxThread /\ \E k \in DOMAIN threads' : threads'[k] = <<t, s>>
  BY <1>1, <1>2, <1>3, Added
<1>10. MutexInv'
  <2>1. given' \in [Callers -> SUBSET (0..MaxSem)]
    BY <1>1, <1>2, <1>3
  <2> QED BY <1>1, <1>2, <1>8, <1>9, <2>1, TypeParts, TypePartsNext
          DEF SyncInv, MutexInv, MutexKept, LocksExclude, Sync!LocksExclude, Sync!Unlocked
<1>11. \A k \in DOMAIN threads : threads[k][1] \in Callers
  BY <1>2
<1>12. \A k \in DOMAIN threads' : given'[threads'[k][1]] = {threads'[k][2]}
  <2>1. ASSUME NEW k \in DOMAIN threads PROVE given'[threads[k][1]] = {threads[k][2]}
    <3>1. CASE threads[k][1] = t
      <4>1. threads[k][2] = 0 /\ s = 0
        BY <3>1, <1>4 DEF Entries
      <4> QED BY <3>1, <4>1, <1>6, <1>7
    <3>2. CASE threads[k][1] # t
      BY <3>2, <1>6, <1>7, <1>11
    <3> QED BY <3>1, <3>2
  <2>2. ASSUME NEW k \in DOMAIN threads' \ DOMAIN threads PROVE given'[t] = {s}
    <3>1. CASE Entries(t) = {}
      BY <3>1, <2>2, <1>6, <1>7, <1>9
    <3>2. CASE Entries(t) # {}
      <4>1. PICK j \in Entries(t) : TRUE
        BY <3>2
      <4>2. given[t] = {0} /\ s = 0
        BY <4>1, <1>4, <1>6 DEF Entries
      <4> QED BY <4>2, <1>7
    <3> QED BY <3>1, <3>2
  <2>3. ASSUME NEW k \in DOMAIN threads' PROVE given'[threads'[k][1]] = {threads'[k][2]}
    <3>1. CASE k \in DOMAIN threads
      BY <3>1, <2>1, <1>9
    <3>2. CASE k \notin DOMAIN threads
      <4>1. threads'[k] = <<t, s>>
        BY <3>2, <1>9
      <4> QED BY <3>2, <4>1, <2>2
    <3> QED BY <3>1, <3>2
  <2> QED BY <2>3
<1>13. EntriesRight'
  <2>1. ASSUME Len(threads') < MaxThread, NEW u \in Callers, Entries(u)' = {} PROVE given'[u] = {}
    <3>1. u # t
      BY <2>1, <1>9 DEF Entries
    <3>2. Entries(u) = {}
      BY <2>1, <1>9 DEF Entries
    <3> QED BY <2>1, <3>1, <3>2, <1>6, <1>7, <1>9
  <2> QED BY <2>1, <1>12 DEF EntriesRight
<1>14. NullWhenFull'
  <2>1. \A k \in DOMAIN threads' : threads'[k][2] = 0 => nSem = MaxSem
    BY <1>4, <1>6, <1>9
  <2>2. \A u \in Callers \ {t} : Entries(u)' = Entries(u) /\ \A k \in Entries(u) : threads'[k] = threads[k]
    BY <1>9 DEF Entries
  <2>3. \A u \in Callers \ {t} :
          /\ call[u].pc = "add" /\ call[u].s = 0 => nSem = MaxSem
          /\ call[u].pc \in {"create", "add"} =>
               \A k \in Entries(u) : threads[k][2] = 0 /\ call[u].s = 0
    BY DEF SyncInv, SemInv, NullWhenFull
  <2>4. call'[t].pc = "out"
    BY <1>7, OutIsOut
  <2>5. ASSUME NEW u \in Callers
        PROVE  /\ call'[u].pc = "add" /\ call'[u].s = 0 => nSem' = MaxSem
               /\ call'[u].pc \in {"create", "add"} =>
                    \A k \in Entries(u)' : threads'[k][2] = 0 /\ call'[u].s = 0
    <3>1. CASE u = t
      BY <3>1, <2>4
    <3>2. CASE u # t
      <4>1. call'[u] = call[u] /\ Entries(u)' = Entries(u) /\ nSem' = nSem
            /\ \A k \in Entries(u) : threads'[k] = threads[k]
        BY <3>2, <2>2, <1>1, <1>7
      <4> QED BY <3>2, <4>1, <2>3
    <3> QED BY <3>1, <3>2
  <2> QED BY <2>1, <2>5, <1>1 DEF NullWhenFull
<1>15. Fresh'
  <2>1. call'[t].s = 0
    BY <1>7, OutIsOut
  <2> QED BY <1>1, <1>2, <1>5, <1>7, <2>1 DEF SyncInv, SemInv, Fresh
<1> QED BY <1>10, <1>13, <1>14, <1>15 DEF SyncInv, SemInv

(* Locking and unlocking leave the semaphores alone.                       *)
LEMMA SemKept ==
  ASSUME SemInv, UNCHANGED <<nSem, threads, given>>,
         \A t \in Callers : call'[t].pc \notin {"create", "add"} \/ call'[t] = call[t],
         \A t \in Callers : call'[t].s = call[t].s
  PROVE  SemInv'
BY DEF SemInv, EntriesRight, NullWhenFull, Fresh, Entries

LEMMA SyncStep ==
  ASSUME SyncInv, NEW t \in Callers, Sync!Call(t) \/ Sync!Goes(t)
  PROVE  SyncInv'
<1>1. ASSUME NEW m \in Mutexes, Sync!TryLock(t, m) PROVE SyncInv'
  <2>1. MutexInv' /\ UNCHANGED <<nSem, threads, given>>
    BY <1>1, TryLockStep DEF SyncInv
  <2>2. call[t].pc = "out" /\ (call' = call \/ call' = [call EXCEPT ![t] = [Sync!Out EXCEPT !.pc = "wait", !.m = m]])
    BY <1>1 DEF Sync!TryLock
  <2>3. call[t].s = 0
    BY <2>2 DEF SyncInv, MutexInv, CallsKept
  <2>4. \A u \in Callers : /\ call'[u].pc \notin {"create", "add"} \/ call'[u] = call[u]
                           /\ call'[u].s = call[u].s
    <3> DEFINE x == [Sync!Out EXCEPT !.pc = "wait", !.m = m]
    <3>1. x.pc = "wait" /\ x.s = 0
      BY OutIsOut
    <3>2. call' = call \/ call' = [call EXCEPT ![t] = x]
      BY <2>2
    <3>3. call \in [Callers -> CallStates]
      BY TypeParts DEF SyncInv, MutexInv
    <3> HIDE DEF x
    <3> QED BY <2>3, <3>1, <3>2, <3>3
  <2> QED BY <2>1, <2>4, SemKept DEF SyncInv
<1>2. ASSUME NEW m \in Mutexes, Sync!MutexUnlock(t, m) PROVE SyncInv'
  BY <1>2, MutexUnlockStep, SemKept DEF SyncInv
<1>3. ASSUME Sync!WaitLock(t) PROVE SyncInv'
  <2>1. /\ MutexInv' /\ UNCHANGED <<nSem, threads, given>>
        /\ call' = [call EXCEPT ![t] = Sync!Out]
    BY <1>3, WaitLockStep DEF SyncInv
  <2>2. call[t].s = 0
    BY <1>3 DEF Sync!WaitLock, SyncInv, MutexInv, CallsKept
  <2>3. \A u \in Callers : /\ call'[u].pc \notin {"create", "add"} \/ call'[u] = call[u]
                           /\ call'[u].s = call[u].s
    BY <2>1, <2>2, TypeParts, OutIsOut DEF SyncInv, MutexInv
  <2> QED BY <2>1, <2>3, SemKept DEF SyncInv
<1> QED BY <1>1, <1>2, <1>3, FindStep, CreateStep, AddStep DEF Sync!Call, Sync!Goes
-------------------------------------------------------------------------------
(* The tasks and their services together.                                  *)

LEMMA DriverInvInit == DriverInit => IInv /\ SyncInv
BY IInvInit, SyncInit DEF DriverInit

LEMMA DriverStep == IInv /\ SyncInv /\ [DriverNext]_driverVars => IInv' /\ SyncInv'
<1> SUFFICES ASSUME IInv, SyncInv, [DriverNext]_driverVars PROVE IInv' /\ SyncInv'
  OBVIOUS
<1>1. CASE (\E w \in Workers : WorkerGoes(w)) /\ UNCHANGED syncVars
  BY <1>1, IInvStep, SyncStutters DEF WorkerGoes, Next
<1>2. CASE (\E c \in Creators : CreatorGoes(c)) /\ UNCHANGED syncVars
  BY <1>2, IInvStep, SyncStutters DEF CreatorGoes, Next
<1>3. CASE UNCHANGED vars /\ \E t \in Callers : Runs(t) /\ (Sync!Call(t) \/ Sync!Goes(t))
  BY <1>3, IInvStep, SyncStep
<1>4. CASE UNCHANGED driverVars
  BY <1>4, IInvStep, SyncStutters DEF driverVars, vars, syncVars
<1> QED BY <1>1, <1>2, <1>3, <1>4 DEF DriverNext

LEMMA OneSemaphoreFromInv == SyncInv => OneSemaphoreEach
<1> SUFFICES ASSUME SyncInv PROVE OneSemaphoreEach
  OBVIOUS
<1>1. ASSUME NEW t \in Callers, NEW k \in DOMAIN threads, threads[k][1] = t
      PROVE  \A a, b \in given[t] : a = b
  BY <1>1 DEF SyncInv, SemInv, EntriesRight
<1>2. \A t \in Callers : \A u \in Callers \ {t} : given[t] \cap given[u] \subseteq {0}
  BY DEF SyncInv, SemInv, Fresh
<1> QED BY <1>1, <1>2 DEF OneSemaphoreEach, Sync!OneSemaphoreEach

LEMMA DriverAlways == DriverSpec => [](IInv /\ SyncInv)
BY DriverInvInit, DriverStep, PTL DEF DriverSpec

(* Every variable of the tasks and of their services keeps its type.       *)
THEOREM DriverTypeCorrect == DriverSpec => []DriverTypeOK
<1>1. IInv /\ SyncInv => DriverTypeOK
  BY DEF IInv, SyncInv, MutexInv, DriverTypeOK
<1> QED BY <1>1, DriverAlways, PTL

(* A recursive mutex excludes, whichever tasks come and go.                *)
THEOREM LocksExcludeThm == DriverSpec => []LocksExclude
<1>1. SyncInv => LocksExclude
  BY DEF SyncInv, MutexInv
<1> QED BY <1>1, DriverAlways, PTL

(* No semaphore is two tasks', and a task with an entry has only one.      *)
THEOREM OneSemaphoreThm == DriverSpec => []OneSemaphoreEach
BY OneSemaphoreFromInv, DriverAlways, PTL

(* No function is begun twice while the tasks use their services, and each *)
(* knows its handle once the creator has it.                               *)
THEOREM DriverTasksThm == DriverSpec => [](RunsOnce /\ KnowsItself)
<1>1. IInv /\ SyncInv => RunsOnce /\ KnowsItself
  BY KnowsItselfFromIInv DEF IInv
<1> QED BY <1>1, DriverAlways, PTL
===============================================================================
