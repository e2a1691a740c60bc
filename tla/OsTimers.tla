------------------------------- MODULE OsTimers -------------------------------
(***************************************************************************)
(* The software timers of the Wi-Fi OS layer: a fixed table, Timer_Mgr,    *)
(* which tasks and callbacks change by protected calls, and Timer_Task,    *)
(* which wakes every two milliseconds, takes the expired timers one by one *)
(* and calls their callbacks outside the protected object.                 *)
(***************************************************************************)
EXTENDS Integers

CONSTANTS
  Timers,     \* timer identities: addresses of the driver's ETSTimer structs
  None,       \* no timer: a null address
  Slots,      \* Max_Timer
  Spans,      \* the delays timers are armed with, in milliseconds
  Poll,       \* Timer_Task's delay, in milliseconds
  Callers,    \* the tasks that call the timer services
  Prio,       \* their priorities
  Core,       \* the cores they run on
  TimerPrio,  \* Timer_Prio
  WifiCore,   \* Wifi_CPU, the core Timer_Task is pinned to
  MaxLate,    \* bound: a timer overdue for longer counts as overdue this long
  MaxScan     \* bound: how long the callbacks of one scan take together

ASSUME SlotsAssumption == Slots \in Nat \ {0}
ASSUME SpansAssumption == Spans \subseteq Nat
ASSUME NoneAssumption == None \notin Timers
ASSUME CallersAssumption == Prio \in [Callers -> Int] /\ TimerPrio \in Int
ASSUME BoundsAssumption ==
  Poll \in Nat /\ MaxScan \in Nat /\ MaxLate \in Nat /\ MaxScan <= MaxLate

VARIABLES
  T,          \* Timer_Mgr.T; the deadline is kept as the time left until it
  pc,         \* Timer_Task: "sleep", "scan", "call" or "callback"
  wake,       \* the time left until Timer_Task's delay ends
  age,        \* how long ago Timer_Task read Now
  current,    \* the timer whose Fn and Arg Timer_Task holds
  served,     \* history: the timers taken or armed since Timer_Task read Now
  stale       \* history: current was stopped or changed after it was taken

vars == <<T, pc, wake, age, current, served, stale>>

SlotNumbers == 1..Slots
FreeSlot == [ptr |-> None, fn |-> FALSE, left |-> 0, period |-> 0, armed |-> FALSE]

TypeOK ==
  /\ T \in [SlotNumbers ->
            [ptr : Timers \cup {None}, fn : BOOLEAN,
             left : Int, period : Nat, armed : BOOLEAN]]
  /\ \A k \in SlotNumbers : T[k].left >= -MaxLate
  /\ pc \in {"sleep", "scan", "call", "callback"}
  /\ wake \in 0..Poll /\ age \in 0..MaxScan
  /\ current \in Timers \cup {None}
  /\ served \subseteq Timers
  /\ stale \in BOOLEAN

Init ==
  /\ T = [k \in SlotNumbers |-> FreeSlot]
  /\ pc = "sleep" /\ wake = Poll /\ age = 0
  /\ current = None /\ served = {} /\ stale = FALSE
-------------------------------------------------------------------------------
Lowest(S) == CHOOSE k \in S : \A j \in S : k <= j

(* Mutant: the first slot that is free or the timer's own.                 *)
LocateFirst(p) ==
  LET fit == {k \in SlotNumbers : T[k].ptr \in {p, None}}
  IN IF fit = {} THEN 0 ELSE Lowest(fit)

(* The timer's own slot, else a free one, else none.                       *)
Locate(p) ==
  LET own  == {k \in SlotNumbers : T[k].ptr = p}
      free == {k \in SlotNumbers : T[k].ptr = None}
  IN IF own # {} THEN Lowest(own) ELSE IF free # {} THEN Lowest(free) ELSE 0

(* A protected call on timer p: nothing happens when the table is full.    *)
Mine(p) == [T[Locate(p)] EXCEPT !.ptr = p]

Change(p, slot) ==
  /\ T' = IF Locate(p) = 0 THEN T ELSE [T EXCEPT ![Locate(p)] = slot]
  /\ stale' = (stale \/ (pc = "call" /\ current = p))

(* The callback and its argument are one value here: a timer has them or   *)
(* not.                                                                    *)
Setfn(p) == Change(p, [Mine(p) EXCEPT !.fn = TRUE])

(* Mutant: a one-shot timer has a negative period.                         *)
ArmOnceNegative(p, span, repeat) ==
  Change(p, [Mine(p) EXCEPT !.left = span, !.armed = TRUE,
                            !.period = IF repeat THEN span ELSE -1])

Arm(p, span, repeat) ==
  Change(p, [Mine(p) EXCEPT !.left = span, !.armed = TRUE,
                            !.period = IF repeat THEN span ELSE 0])

(* Where the time left and the period no longer matter they are dropped.   *)
Disarm(p) ==
  Change(p, [Mine(p) EXCEPT !.armed = FALSE, !.left = 0, !.period = 0])

DoneWith(p) == Change(p, FreeSlot)

(* Timer_Setfn, Timer_Arm, Timer_Arm_Us, Timer_Disarm and Timer_Done.      *)
TimerCall ==
  /\ \E p \in Timers :
       \/ (Setfn(p) \/ Disarm(p) \/ DoneWith(p)) /\ UNCHANGED served
       \/ /\ \E span \in Spans, repeat \in BOOLEAN : Arm(p, span, repeat)
          /\ served' = served \cup {p}
  /\ UNCHANGED <<pc, wake, age, current>>

(* Timer_Task running, a task gets in between its steps only from the      *)
(* other core or with a higher priority.  It sleeps in its delay, and a    *)
(* callback may block.                                                     *)
TimerTaskBlocked == pc \in {"sleep", "callback"}

(* Mutant: tasks of the same priority preempt each other.                  *)
GetsInEqual(c) == TimerTaskBlocked \/ Core[c] # WifiCore \/ Prio[c] >= TimerPrio

GetsIn(c) == TimerTaskBlocked \/ Core[c] # WifiCore \/ Prio[c] > TimerPrio

CallerRuns == (\E c \in Callers : GetsIn(c)) /\ TimerCall
CallbackRuns == pc = "callback" /\ TimerCall
-------------------------------------------------------------------------------
Wake ==
  /\ pc = "sleep" /\ wake = 0
  /\ pc' = "scan" /\ age' = 0
  /\ served' = {}
  /\ UNCHANGED <<T, wake, current, stale>>

(* Expired by the time Timer_Task read: Deadline <= Now.                   *)
Expired == {k \in SlotNumbers : T[k].armed /\ T[k].left + age <= 0}

(* Mutant: the deadline of a periodic timer stays.                         *)
AfterExpiryStays(slot) ==
  IF slot.period > 0 THEN slot ELSE [slot EXCEPT !.armed = FALSE, !.left = 0]

AfterExpiry(slot) ==
  IF slot.period > 0 THEN [slot EXCEPT !.left = @ + slot.period]
                     ELSE [slot EXCEPT !.armed = FALSE, !.left = 0]

(* Mutant: the time is read again for each timer.                          *)
TakeExpiredAnew ==
  /\ pc = "scan" /\ Expired # {}
  /\ LET k == Lowest(Expired) IN
       /\ T' = [T EXCEPT ![k] = AfterExpiry(@)]
       /\ pc' = IF T[k].fn THEN "call" ELSE "scan"
       /\ current' = IF T[k].fn THEN T[k].ptr ELSE None
       /\ served' = served \cup {T[k].ptr}
  /\ stale' = FALSE /\ age' = 0
  /\ UNCHANGED wake

TakeExpired ==
  /\ pc = "scan" /\ Expired # {}
  /\ LET k == Lowest(Expired) IN
       /\ T' = [T EXCEPT ![k] = AfterExpiry(@)]
       /\ pc' = IF T[k].fn THEN "call" ELSE "scan"
       /\ current' = IF T[k].fn THEN T[k].ptr ELSE None
       /\ served' = served \cup {T[k].ptr}
  /\ stale' = FALSE
  /\ UNCHANGED <<wake, age>>

CallBack == pc = "call" /\ pc' = "callback" /\ UNCHANGED <<T, wake, age, current, served, stale>>

CallbackReturns ==
  /\ pc = "callback"
  /\ pc' = "scan" /\ current' = None
  /\ UNCHANGED <<T, wake, age, served, stale>>

Sleep ==
  /\ pc = "scan" /\ Expired = {}
  /\ pc' = "sleep" /\ wake' = Poll /\ age' = 0
  /\ UNCHANGED <<T, current, served, stale>>

(* A millisecond passes.                                                   *)
Tick ==
  /\ pc # "sleep" => age < MaxScan
  /\ age' = IF pc = "sleep" THEN 0 ELSE age + 1
  /\ wake' = IF wake > 0 THEN wake - 1 ELSE 0
  /\ T' = [k \in SlotNumbers |->
             IF T[k].armed /\ T[k].left > -MaxLate
               THEN [T[k] EXCEPT !.left = @ - 1] ELSE T[k]]
  /\ UNCHANGED <<pc, current, served, stale>>
-------------------------------------------------------------------------------
TimerTask == Wake \/ TakeExpired \/ CallBack \/ CallbackReturns \/ Sleep

Next == TimerTask \/ CallerRuns \/ CallbackRuns \/ Tick

(* Time passes, Timer_Task gets the core, and callbacks return.            *)
Fairness == WF_vars(Tick) /\ WF_vars(TimerTask)

Spec == Init /\ [][Next]_vars
FairSpec == Spec /\ Fairness
-------------------------------------------------------------------------------
(* A timer has one slot: what is armed under its address can be disarmed,  *)
(* and Done leaves nothing of it that could still fire (rtos.ads:106-108). *)
OneSlotPerTimer ==
  \A j, k \in SlotNumbers : T[j].ptr = T[k].ptr /\ T[j].ptr # None => j = k

(* No callback begins for a timer that was disarmed, done with, or given   *)
(* another function or deadline after Take_Expired: nobody comes between   *)
(* Take_Expired and the call, although both protect nothing in common.     *)
NoStaleCallback == ~ stale

(* A timer that is due is taken, or stopped or armed anew first: a timer   *)
(* in a low slot whose period is shorter than its callback takes does not  *)
(* keep those behind it from firing.                                       *)
Due(p) == \E k \in SlotNumbers : T[k].ptr = p /\ T[k].armed /\ T[k].left <= 0
DueFires == \A p \in Timers : Due(p) ~> (p \in served \/ ~ Due(p))

(* Timer_Task, which no task of core 0 preempts, always comes back to its  *)
(* delay.                                                                  *)
TimerTaskSleeps == pc = "scan" ~> pc = "sleep"
===============================================================================
