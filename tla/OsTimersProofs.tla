---------------------------- MODULE OsTimersProofs -----------------------------
(***************************************************************************)
(* Proofs about OsTimers, for every number of timers and slots and every   *)
(* span: the type invariant, that a timer has one slot, and that no stale  *)
(* callback begins where no caller can preempt the timer task.             *)
(***************************************************************************)
EXTENDS OsTimers, WellFoundedInduction, TLAPS

(* A set of natural numbers that is not empty has a least one.             *)
LEMMA LeastOne ==
  ASSUME NEW S \in SUBSET Nat, S # {}
  PROVE  \E k \in S : \A j \in S : k <= j
<1> DEFINE less == {ss \in Nat \X Nat : ss[1] < ss[2]}
<1>1. IsWellFoundedOn(less, Nat)
  BY NatLessThanWellFounded DEF OpToRel
<1>2. \E k \in S : \A j \in S : ~(<<j, k>> \in less)
  <2> HIDE DEF less
  <2> QED BY <1>1, WFMin
<1>3. PICK k \in S : \A j \in S : ~(<<j, k>> \in less)
  BY <1>2
<1>4. \A j \in S : <<j, k>> \in Nat \X Nat /\ j \in Nat /\ k \in Nat
  OBVIOUS
<1>5. \A j \in S : ~(j < k)
  BY <1>3, <1>4
<1> QED BY <1>4, <1>5

(* The Poll of Timer_Task cannot preempt itself: callers of its core and   *)
(* at most its priority get in only while it is blocked.                   *)
NobodyPreempts == \A c \in Callers : Core[c] = WifiCore /\ Prio[c] <= TimerPrio

SlotStates == [ptr : Timers \cup {None}, fn : BOOLEAN,
               left : Int, period : Nat, armed : BOOLEAN]

(* A slot as it may be: not overdue without bound, and not armed when free.*)
SlotOK(slot) ==
  slot \in SlotStates /\ slot.left >= -MaxLate /\ (slot.ptr = None => ~slot.armed)

FreeUnarmed == \A k \in SlotNumbers : T[k].ptr = None => ~T[k].armed

TableOK == T \in [SlotNumbers -> SlotStates] /\ \A k \in SlotNumbers : SlotOK(T[k])

IInv == TypeOK /\ OneSlotPerTimer /\ FreeUnarmed
-------------------------------------------------------------------------------
LEMMA Constants ==
  /\ Slots \in Nat /\ Slots > 0 /\ Spans \subseteq Nat /\ None \notin Timers
  /\ Poll \in Nat /\ MaxScan \in Nat /\ MaxLate \in Nat
BY SlotsAssumption, SpansAssumption, NoneAssumption, BoundsAssumption

LEMMA TableIs ==
  TypeOK /\ FreeUnarmed <=>
    /\ TableOK
    /\ pc \in {"sleep", "scan", "call", "callback"}
    /\ wake \in 0..Poll /\ age \in 0..MaxScan
    /\ current \in Timers \cup {None}
    /\ served \subseteq Timers
    /\ stale \in BOOLEAN
BY DEF TypeOK, FreeUnarmed, TableOK, SlotOK, SlotStates

LEMMA TableIsNext ==
  ASSUME TableOK', pc' \in {"sleep", "scan", "call", "callback"},
         wake' \in 0..Poll, age' \in 0..MaxScan,
         current' \in Timers \cup {None}, served' \subseteq Timers, stale' \in BOOLEAN
  PROVE  TypeOK' /\ FreeUnarmed'
BY DEF TypeOK, FreeUnarmed, TableOK, SlotOK, SlotStates, SlotNumbers

LEMMA LowestIsIn ==
  ASSUME NEW S \in SUBSET SlotNumbers, S # {}
  PROVE  Lowest(S) \in S
<1>1. S \in SUBSET Nat
  BY Constants DEF SlotNumbers
<1>2. \E k \in S : \A j \in S : k <= j
  BY <1>1, LeastOne
<1> QED BY <1>2 DEF Lowest

(* Locate finds the timer's own slot if there is one, else a free one.     *)
LEMMA Located ==
  ASSUME NEW p \in Timers, Locate(p) # 0
  PROVE  /\ Locate(p) \in SlotNumbers
         /\ T[Locate(p)].ptr \in {p, None}
         /\ T[Locate(p)].ptr = None => \A k \in SlotNumbers : T[k].ptr # p
<1> DEFINE own == {k \in SlotNumbers : T[k].ptr = p}
           free == {k \in SlotNumbers : T[k].ptr = None}
<1>1. Locate(p) = IF own # {} THEN Lowest(own) ELSE IF free # {} THEN Lowest(free) ELSE 0
  BY DEF Locate
<1>2. own # {} => Lowest(own) \in own
  BY LowestIsIn
<1>3. free # {} => Lowest(free) \in free
  BY LowestIsIn
<1>4. p # None
  BY Constants
<1> QED BY <1>1, <1>2, <1>3, <1>4

(* A slot with some fields changed, still the same timer's.                *)
Keeps(y, x) == SlotOK(y) /\ y.ptr = x.ptr

LEMMA SlotChanges ==
  ASSUME NEW x, SlotOK(x), NEW l \in Int, l >= -MaxLate, NEW q \in Nat
  PROVE  /\ Keeps([x EXCEPT !.armed = FALSE, !.left = l], x)
         /\ Keeps([x EXCEPT !.armed = FALSE, !.left = l, !.period = q], x)
         /\ Keeps([x EXCEPT !.left = l], x)
         /\ x.ptr # None => Keeps([x EXCEPT !.left = l, !.armed = TRUE, !.period = q], x)
         /\ Keeps([x EXCEPT !.fn = TRUE], x)
<1>0. x \in SlotStates /\ x.left >= -MaxLate /\ (x.ptr = None => ~x.armed)
  BY DEF SlotOK
<1>1. Keeps([x EXCEPT !.armed = FALSE, !.left = l], x)
  BY <1>0 DEF Keeps, SlotOK, SlotStates
<1>2. Keeps([x EXCEPT !.armed = FALSE, !.left = l, !.period = q], x)
  BY <1>0 DEF Keeps, SlotOK, SlotStates
<1>3. Keeps([x EXCEPT !.left = l], x)
  BY <1>0 DEF Keeps, SlotOK, SlotStates
<1>4. x.ptr # None => Keeps([x EXCEPT !.left = l, !.armed = TRUE, !.period = q], x)
  BY <1>0 DEF Keeps, SlotOK, SlotStates
<1>5. Keeps([x EXCEPT !.fn = TRUE], x)
  BY <1>0 DEF Keeps, SlotOK, SlotStates
<1> QED BY <1>1, <1>2, <1>3, <1>4, <1>5

LEMMA FreeSlotOK == SlotOK(FreeSlot) /\ FreeSlot.ptr = None
BY Constants DEF SlotOK, SlotStates, FreeSlot

LEMMA TimersInit == Init => IInv /\ NoStaleCallback
<1> SUFFICES ASSUME Init PROVE IInv /\ NoStaleCallback
  OBVIOUS
<1>1. TableOK
  BY FreeSlotOK DEF Init, TableOK, SlotOK
<1>2. wake \in 0..Poll /\ age \in 0..MaxScan
  BY Constants DEF Init
<1>3. TypeOK /\ FreeUnarmed
  BY <1>1, <1>2, TableIs DEF Init
<1>4. OneSlotPerTimer
  BY FreeSlotOK DEF Init, OneSlotPerTimer
<1> QED BY <1>3, <1>4 DEF Init, IInv, NoStaleCallback
-------------------------------------------------------------------------------
(* One slot is replaced by a slot of the same timer, by the first slot of  *)
(* a timer, or by a free one.                                              *)
LEMMA OneSlotChanged ==
  ASSUME TableOK, OneSlotPerTimer,
         NEW k \in SlotNumbers, NEW slot, SlotOK(slot),
         \A j \in SlotNumbers \ {k} : T[j].ptr = slot.ptr => slot.ptr = None,
         T' = [T EXCEPT ![k] = slot]
  PROVE  TableOK' /\ OneSlotPerTimer'
<1>0. T \in [SlotNumbers -> SlotStates] /\ slot \in SlotStates
  BY DEF TableOK, SlotOK
<1>1. T'[k] = slot /\ \A j \in SlotNumbers \ {k} : T'[j] = T[j]
  BY <1>0
<1>2. T' \in [SlotNumbers -> SlotStates]
  BY <1>0
<1>3. \A i, j \in SlotNumbers : T'[i].ptr = T'[j].ptr /\ T'[i].ptr # None => i = j
  BY <1>1 DEF OneSlotPerTimer
<1>4. \A j \in SlotNumbers : SlotOK(T'[j])
  BY <1>1 DEF TableOK
<1> QED BY <1>2, <1>3, <1>4 DEF OneSlotPerTimer, TableOK, SlotNumbers, SlotOK

LEMMA Changed ==
  ASSUME IInv, NEW p \in Timers, NEW slot, Change(p, slot),
         Locate(p) # 0 => SlotOK(slot) /\ slot.ptr \in {p, None}
  PROVE  TableOK' /\ OneSlotPerTimer' /\ stale' \in BOOLEAN
<1>0. TableOK /\ OneSlotPerTimer /\ stale \in BOOLEAN
  BY TableIs DEF IInv
<1>1. stale' \in BOOLEAN
  BY DEF Change, IInv, TypeOK
<1>2. CASE Locate(p) = 0
  <2>1. T' = T
    BY <1>2 DEF Change
  <2> QED BY <1>0, <1>1, <2>1 DEF OneSlotPerTimer, TableOK, SlotOK
<1>3. CASE Locate(p) # 0
  <2> DEFINE k == Locate(p)
  <2>1. T' = [T EXCEPT ![k] = slot]
    BY <1>3 DEF Change
  <2>2. k \in SlotNumbers /\ \A j \in SlotNumbers \ {k} : T[j].ptr # p
    BY <1>3, Located, Constants DEF IInv, OneSlotPerTimer
  <2>3. SlotOK(slot) /\ slot.ptr \in {p, None}
    BY <1>3
  <2> HIDE DEF k
  <2> QED BY <1>0, <1>1, <2>1, <2>2, <2>3, OneSlotChanged
<1> QED BY <1>2, <1>3

LEMMA MineOK ==
  ASSUME IInv, NEW p \in Timers, Locate(p) # 0
  PROVE  Mine(p) \in SlotStates /\ Mine(p).left >= -MaxLate /\ Mine(p).ptr = p
<1>1. T[Locate(p)] \in SlotStates /\ T[Locate(p)].left >= -MaxLate
  BY Located, TableIs DEF IInv, TableOK, SlotOK
<1> QED BY <1>1 DEF Mine, SlotStates

LEMMA CallStep ==
  ASSUME IInv, TimerCall
  PROVE  IInv' /\ UNCHANGED <<pc, wake, age, current>>
         /\ (stale' => stale \/ pc = "call")
<1>1. PICK p \in Timers :
        \/ (Setfn(p) \/ Disarm(p) \/ DoneWith(p)) /\ UNCHANGED served
        \/ /\ \E span \in Spans, repeat \in BOOLEAN : Arm(p, span, repeat)
           /\ served' = served \cup {p}
  BY DEF TimerCall
<1> DEFINE Fits(slot) == Locate(p) # 0 => SlotOK(slot) /\ slot.ptr \in {p, None}
<1>a. ASSUME Locate(p) # 0 PROVE SlotOK(Mine(p)) /\ Mine(p).ptr = p /\ p # None
  BY <1>a, MineOK, Constants DEF SlotOK
<1>2. \E slot : Change(p, slot) /\ Fits(slot)
  <2> DEFINE m == Mine(p)
  <2>a. ASSUME Locate(p) # 0 PROVE SlotOK(m) /\ m.ptr = p /\ m.ptr # None
    BY <2>a, <1>a
  <2>b. 0 \in Int /\ 0 \in Nat /\ 0 >= -MaxLate
    BY Constants
  <2>1. CASE Setfn(p)
    <3>1. Change(p, [m EXCEPT !.fn = TRUE])
      BY <2>1 DEF Setfn
    <3> HIDE DEF m
    <3>2. Locate(p) # 0 => Keeps([m EXCEPT !.fn = TRUE], m)
      BY <2>a, <2>b, SlotChanges
    <3> QED BY <2>a, <3>1, <3>2 DEF Keeps
  <2>2. CASE Disarm(p)
    <3>1. Change(p, [m EXCEPT !.armed = FALSE, !.left = 0, !.period = 0])
      BY <2>2 DEF Disarm
    <3> HIDE DEF m
    <3>2. Locate(p) # 0 => Keeps([m EXCEPT !.armed = FALSE, !.left = 0, !.period = 0], m)
      BY <2>a, <2>b, SlotChanges
    <3> QED BY <2>a, <3>1, <3>2 DEF Keeps
  <2>3. CASE DoneWith(p)
    BY <2>3, FreeSlotOK DEF DoneWith
  <2>4. ASSUME NEW span \in Spans, NEW repeat \in BOOLEAN, Arm(p, span, repeat)
        PROVE  \E slot : Change(p, slot) /\ Fits(slot)
    <3> DEFINE period == IF repeat THEN span ELSE 0
    <3>1. span \in Int /\ span >= -MaxLate /\ period \in Nat
      BY Constants
    <3>2. Change(p, [m EXCEPT !.left = span, !.armed = TRUE, !.period = period])
      BY <2>4 DEF Arm
    <3> HIDE DEF m, period
    <3>3. Locate(p) # 0 => Keeps([m EXCEPT !.left = span, !.armed = TRUE, !.period = period], m)
      BY <2>a, <3>1, SlotChanges
    <3> QED BY <2>a, <3>2, <3>3 DEF Keeps
  <2> QED BY <1>1, <2>1, <2>2, <2>3, <2>4
<1>3. PICK slot : Change(p, slot) /\ Fits(slot)
  BY <1>2
<1>4. TableOK' /\ OneSlotPerTimer' /\ stale' \in BOOLEAN
  BY <1>3, Changed
<1>5. served' \subseteq Timers
  BY <1>1 DEF IInv, TypeOK
<1>6. UNCHANGED <<pc, wake, age, current>>
  BY DEF TimerCall
<1>7. stale' => stale \/ pc = "call"
  BY <1>3 DEF Change
<1>8. TypeOK' /\ FreeUnarmed'
  BY <1>4, <1>5, <1>6, TableIs, TableIsNext DEF IInv
<1> QED BY <1>4, <1>6, <1>7, <1>8 DEF IInv

LEMMA TakeExpiredStep ==
  ASSUME IInv, TakeExpired
  PROVE  IInv' /\ stale' = FALSE
<1> DEFINE k == Lowest(Expired)
<1>1. k \in SlotNumbers /\ T[k].armed
  BY LowestIsIn DEF TakeExpired, Expired
<1>2. /\ T' = [T EXCEPT ![k] = AfterExpiry(T[k])]
      /\ pc' = (IF T[k].fn THEN "call" ELSE "scan")
      /\ current' = (IF T[k].fn THEN T[k].ptr ELSE None)
      /\ served' = served \cup {T[k].ptr}
      /\ stale' = FALSE /\ UNCHANGED <<wake, age>>
  BY DEF TakeExpired
<1> HIDE DEF k
<1>0. TableOK /\ OneSlotPerTimer
  BY TableIs DEF IInv
<1>3. SlotOK(T[k]) /\ T[k].period \in Nat /\ T[k].left \in Int /\ T[k].ptr \in Timers
  BY <1>0, <1>1 DEF TableOK, SlotOK, SlotStates
<1>4. Keeps(AfterExpiry(T[k]), T[k])
  <2> DEFINE x == T[k]
  <2>0. SlotOK(x) /\ x.period \in Nat /\ x.left \in Int /\ x.left >= -MaxLate
    BY <1>3 DEF SlotOK
  <2> HIDE DEF x
  <2>1. ASSUME x.period > 0 PROVE Keeps(AfterExpiry(x), x)
    <3> DEFINE l == x.left + x.period
    <3>1. AfterExpiry(x) = [x EXCEPT !.left = l]
      BY <2>1 DEF AfterExpiry
    <3>2. l \in Int /\ l >= -MaxLate
      BY <2>0, Constants
    <3> HIDE DEF l
    <3>3. Keeps([x EXCEPT !.left = l], x)
      BY <2>0, <3>2, SlotChanges
    <3> QED BY <3>1, <3>3
  <2>2. ASSUME ~(x.period > 0) PROVE Keeps(AfterExpiry(x), x)
    <3>1. AfterExpiry(x) = [x EXCEPT !.armed = FALSE, !.left = 0]
      BY <2>2 DEF AfterExpiry
    <3>2. 0 >= -MaxLate /\ 0 \in Int /\ 0 \in Nat
      BY Constants
    <3>3. Keeps([x EXCEPT !.armed = FALSE, !.left = 0], x)
      BY <2>0, <3>2, SlotChanges
    <3> QED BY <3>1, <3>3
  <2>3. Keeps(AfterExpiry(x), x)
    BY <2>1, <2>2
  <2> QED BY <2>3 DEF x
<1>5. \A j \in SlotNumbers \ {k} : T[j].ptr = T[k].ptr => T[k].ptr = None
  BY <1>0, <1>1 DEF OneSlotPerTimer
<1> DEFINE slot == AfterExpiry(T[k])
<1>6. T' = [T EXCEPT ![k] = slot] /\ SlotOK(slot) /\ slot.ptr = T[k].ptr
  BY <1>2, <1>4 DEF Keeps
<1> HIDE DEF slot
<1>7. TableOK' /\ OneSlotPerTimer'
  BY <1>0, <1>1, <1>5, <1>6, OneSlotChanged
<1>8. TypeOK' /\ FreeUnarmed'
  BY <1>2, <1>3, <1>7, TableIs, TableIsNext DEF IInv
<1> QED BY <1>2, <1>7, <1>8 DEF IInv

LEMMA TickStep ==
  ASSUME IInv, Tick
  PROVE  IInv'
<1>0. TableOK /\ OneSlotPerTimer
  BY TableIs DEF IInv
<1>1. T' = [k \in SlotNumbers |->
             IF T[k].armed /\ T[k].left > -MaxLate
               THEN [T[k] EXCEPT !.left = @ - 1] ELSE T[k]]
  BY DEF Tick
<1>2. ASSUME NEW k \in SlotNumbers
      PROVE  SlotOK(T'[k]) /\ T'[k].ptr = T[k].ptr
  <2> DEFINE x == T[k]
  <2>1. SlotOK(x) /\ x.left \in Int
    BY <1>0 DEF TableOK, SlotOK, SlotStates
  <2>2. T'[k] = IF x.armed /\ x.left > -MaxLate THEN [x EXCEPT !.left = x.left - 1] ELSE x
    BY <1>1
  <2> HIDE DEF x
  <2>3. CASE x.armed /\ x.left > -MaxLate
    <3> DEFINE l == x.left - 1
    <3>1. T'[k] = [x EXCEPT !.left = l]
      BY <2>2, <2>3
    <3>2. l \in Int /\ l >= -MaxLate
      BY <2>1, <2>3, Constants
    <3> HIDE DEF l
    <3>3. Keeps([x EXCEPT !.left = l], x)
      BY <2>1, <3>2, SlotChanges
    <3>4. SlotOK(T'[k]) /\ T'[k].ptr = x.ptr
      BY <3>1, <3>3 DEF Keeps
    <3> QED BY <3>4 DEF x
  <2>4. CASE ~(x.armed /\ x.left > -MaxLate)
    <3>1. T'[k] = x
      BY <2>2, <2>4
    <3> QED BY <2>1, <3>1 DEF x
  <2> QED BY <2>3, <2>4
<1>3. TableOK' /\ OneSlotPerTimer'
  <2>1. T' \in [SlotNumbers -> SlotStates]
    <3>1. \A k \in SlotNumbers : T'[k] \in SlotStates
      BY <1>2 DEF SlotOK
    <3> QED BY <1>1, <3>1
  <2> QED BY <1>0, <1>2, <2>1 DEF TableOK, OneSlotPerTimer, SlotNumbers, SlotOK
<1>4. wake' \in 0..Poll /\ age' \in 0..MaxScan
  BY Constants DEF Tick, IInv, TypeOK
<1>5. TypeOK' /\ FreeUnarmed'
  BY <1>3, <1>4, TableIs, TableIsNext DEF IInv, Tick
<1> QED BY <1>3, <1>5 DEF IInv

LEMMA TimersStep ==
  ASSUME IInv, [Next]_vars
  PROVE  IInv'
<1> USE DEF IInv
<1>1. CASE TakeExpired
  BY <1>1, TakeExpiredStep
<1>2. CASE CallerRuns \/ CallbackRuns
  BY <1>2, CallStep DEF CallerRuns, CallbackRuns
<1>3. CASE Tick
  BY <1>3, TickStep
<1>4. ASSUME UNCHANGED T, UNCHANGED served \/ served' = {},
             pc' \in {"sleep", "scan", "call", "callback"},
             wake' \in 0..Poll, age' \in 0..MaxScan,
             current' \in Timers \cup {None}, UNCHANGED stale
      PROVE  IInv'
  <2>1. TableOK' /\ OneSlotPerTimer'
    BY <1>4, TableIs DEF TableOK, SlotOK, OneSlotPerTimer
  <2>2. served' \subseteq Timers /\ stale' \in BOOLEAN
    BY <1>4, TableIs
  <2> QED BY <1>4, <2>1, <2>2, TableIsNext
<1>5. CASE Wake
  BY <1>4, <1>5, Constants DEF Wake, TypeOK
<1>6. CASE CallBack \/ CallbackReturns
  BY <1>4, <1>6 DEF CallBack, CallbackReturns, TypeOK
<1>7. CASE Sleep
  BY <1>4, <1>7, Constants DEF Sleep, TypeOK
<1>8. CASE UNCHANGED vars
  BY <1>4, <1>8 DEF vars, TypeOK
<1> QED BY <1>1, <1>2, <1>3, <1>5, <1>6, <1>7, <1>8 DEF Next, TimerTask

(* Where nobody preempts the timer task, nothing changes a timer between   *)
(* Take_Expired and the call.                                              *)
LEMMA StaleStep ==
  ASSUME NobodyPreempts, IInv, NoStaleCallback, [Next]_vars
  PROVE  NoStaleCallback'
<1> USE DEF NoStaleCallback
<1>1. CASE CallerRuns \/ CallbackRuns
  <2>1. pc # "call" /\ TimerCall
    <3>1. ASSUME NEW c \in Callers, GetsIn(c) PROVE pc # "call"
      <4>1. Core[c] = WifiCore /\ Prio[c] <= TimerPrio /\ Prio[c] \in Int /\ TimerPrio \in Int
        BY CallersAssumption DEF NobodyPreempts
      <4> QED BY <3>1, <4>1 DEF GetsIn, TimerTaskBlocked
    <3> QED BY <1>1, <3>1 DEF CallerRuns, CallbackRuns
  <2> QED BY <2>1, CallStep
<1>2. CASE TakeExpired
  BY <1>2, TakeExpiredStep
<1>3. CASE Tick \/ Wake \/ CallBack \/ CallbackReturns \/ Sleep \/ UNCHANGED vars
  BY <1>3 DEF Tick, Wake, CallBack, CallbackReturns, Sleep, vars
<1> QED BY <1>1, <1>2, <1>3 DEF Next, TimerTask
-------------------------------------------------------------------------------
LEMMA TimersAlways == Spec => []IInv
BY TimersInit, TimersStep, PTL DEF Spec

(* Every variable keeps its type: no index leaves the table, and a timer   *)
(* is armed only in a slot that has its address.                           *)
THEOREM TimersTypeCorrect == Spec => []TypeOK
<1>1. IInv => TypeOK
  BY DEF IInv
<1> QED BY <1>1, TimersAlways, PTL

(* A timer has one slot at most, in a table of any size.                   *)
THEOREM OneSlotPerTimerThm == Spec => []OneSlotPerTimer
<1>1. IInv => OneSlotPerTimer
  BY DEF IInv
<1> QED BY <1>1, TimersAlways, PTL

(* No callback begins for a timer that was stopped or changed meanwhile,   *)
(* where nobody preempts the timer task (rtos.adb:837-842).                *)
THEOREM NoStaleCallbackThm ==
  ASSUME NobodyPreempts
  PROVE  Spec => []NoStaleCallback
<1>1. Init => IInv /\ NoStaleCallback
  BY TimersInit
<1>2. IInv /\ NoStaleCallback /\ [Next]_vars => IInv' /\ NoStaleCallback'
  BY TimersStep, StaleStep
<1> QED BY <1>1, <1>2, PTL DEF Spec
===============================================================================
