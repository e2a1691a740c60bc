------------------------------- MODULE OsQueue -------------------------------
(***************************************************************************)
(* One queue of the Wi-Fi OS layer, between the tasks of core 0 and the    *)
(* WMAC interrupt handler.  The ring is plain memory: a task masks         *)
(* interrupts around each access, which keeps the handler and every other  *)
(* task of the core away; the handler does not, for no task runs while it  *)
(* does.  A task that must wait tries again each millisecond.              *)
(***************************************************************************)
EXTENDS Naturals, Sequences

CONSTANTS
  Tasks,    \* tasks of core 0 that use the queue
  Isr,      \* the WMAC interrupt handler
  Items,    \* what is sent
  NoItem,   \* bytes nobody sent
  Nobody,   \* no task
  Cap       \* Queue.Cap: the length asked for in Queue_Create

ASSUME CapAssumption == Cap \in Nat \ {0}
ASSUME ItemsAssumption == NoItem \notin Items
ASSUME CallersAssumption == Isr \notin Tasks /\ Nobody \notin Tasks

VARIABLES
  store, head, tail, cnt,   \* Queue: Store, Head, Tail, Cnt
  masked,   \* the task that has interrupts masked, or Nobody
  pc,       \* each task's place in Q_Push or Q_Pop
  buf,      \* each task's item: the bytes at the address it passed
  call      \* the C call each caller has made, or its last result

ring == <<store, head, tail, cnt>>
vars == <<store, head, tail, cnt, masked, pc, buf, call>>

Callers == Tasks \cup {Isr}

Sending(x, w)   == [op |-> "send", item |-> x, wait |-> w]
Receiving(w)    == [op |-> "recv", item |-> NoItem, wait |-> w]
Done(result, x) == [op |-> result, item |-> x, wait |-> FALSE]
Idle(c)         == call[c].op \notin {"send", "recv"}

PlacesInPush == {"push test", "push store", "push tail", "push count"}
PlacesInPop  == {"pop test", "pop copy", "pop head", "pop count"}
Calls == [op : {"none", "send", "recv", "sent", "full", "received", "empty"},
          item : Items \cup {NoItem}, wait : BOOLEAN]

TypeOK ==
  /\ store \in [0..(Cap - 1) -> Items \cup {NoItem}]
  /\ head \in 0..(Cap - 1) /\ tail \in 0..(Cap - 1) /\ cnt \in 0..Cap
  /\ masked \in Tasks \cup {Nobody}
  /\ pc \in [Tasks -> {"out"} \cup PlacesInPush \cup PlacesInPop]
  /\ buf \in [Tasks -> Items \cup {NoItem}]
  /\ call \in [Callers -> Calls]

(* Queue_Create empties the ring before anybody has its handle.            *)
Init ==
  /\ store = [i \in 0..(Cap - 1) |-> NoItem]
  /\ head = 0 /\ tail = 0 /\ cnt = 0
  /\ masked = Nobody
  /\ pc = [t \in Tasks |-> "out"]
  /\ buf = [t \in Tasks |-> NoItem]
  /\ call = [c \in Callers |-> Done("none", NoItem)]
-------------------------------------------------------------------------------
(* Mutant: interrupts stay enabled.                                       *)
IntMaskNothing(t) == UNCHANGED masked

IntMask(t) == masked' = t
IntUnmask  == masked' = Nobody

(* While a task has interrupts masked nothing else runs on the core.       *)
HasCore(t) == masked \in {Nobody, t}

Go(t, place) == pc' = [pc EXCEPT ![t] = place]
Return(t, result, x) == call' = [call EXCEPT ![t] = Done(result, x)]
After(i) == (i + 1) % Cap
-------------------------------------------------------------------------------
(* Queue_Send and Queue_Recv with Ticks = Block_Forever (w) or anything    *)
(* else, which both treat as zero.                                         *)
QueueSend(t, x, w) ==
  /\ Idle(t) /\ HasCore(t)
  /\ call' = [call EXCEPT ![t] = Sending(x, w)]
  /\ buf' = [buf EXCEPT ![t] = x]
  /\ UNCHANGED <<ring, masked, pc>>

QueueRecv(t, w) ==
  /\ Idle(t) /\ HasCore(t)
  /\ call' = [call EXCEPT ![t] = Receiving(w)]
  /\ UNCHANGED <<ring, masked, pc, buf>>

(* The first attempt of a call, or the next after a delay of 1 ms.         *)
Attempt(t) ==
  /\ pc[t] = "out" /\ ~ Idle(t) /\ HasCore(t)
  /\ IntMask(t)
  /\ Go(t, IF call[t].op = "send" THEN "push test" ELSE "pop test")
  /\ UNCHANGED <<ring, buf, call>>

(* A ring that is full or empty ends the attempt; a call that may wait     *)
(* stays in its loop.                                                      *)
GiveUp(t, result) ==
  /\ IntUnmask /\ Go(t, "out")
  /\ IF call[t].wait THEN UNCHANGED call ELSE Return(t, result, NoItem)

(* Mutant: one item too many.                                             *)
PushTestLate(t) ==
  /\ pc[t] = "push test" /\ HasCore(t)
  /\ IF cnt <= Cap THEN Go(t, "push store") /\ UNCHANGED <<masked, call>>
                   ELSE GiveUp(t, "full")
  /\ UNCHANGED <<ring, buf>>

PushTest(t) ==
  /\ pc[t] = "push test" /\ HasCore(t)
  /\ IF cnt < Cap THEN Go(t, "push store") /\ UNCHANGED <<masked, call>>
                  ELSE GiveUp(t, "full")
  /\ UNCHANGED <<ring, buf>>

PushStore(t) ==
  /\ pc[t] = "push store" /\ HasCore(t)
  /\ store' = [store EXCEPT ![tail] = buf[t]]
  /\ Go(t, "push tail")
  /\ UNCHANGED <<head, tail, cnt, masked, buf, call>>

PushTail(t) ==
  /\ pc[t] = "push tail" /\ HasCore(t)
  /\ tail' = After(tail)
  /\ Go(t, "push count")
  /\ UNCHANGED <<store, head, cnt, masked, buf, call>>

PushCount(t) ==
  /\ pc[t] = "push count" /\ HasCore(t)
  /\ cnt' = cnt + 1
  /\ IntUnmask /\ Go(t, "out")
  /\ Return(t, "sent", NoItem)
  /\ UNCHANGED <<store, head, tail, buf>>

(* Mutant: the last item is kept back.                                    *)
PopTestLate(t) ==
  /\ pc[t] = "pop test" /\ HasCore(t)
  /\ IF cnt > 1 THEN Go(t, "pop copy") /\ UNCHANGED <<masked, call>>
                ELSE GiveUp(t, "empty")
  /\ UNCHANGED <<ring, buf>>

PopTest(t) ==
  /\ pc[t] = "pop test" /\ HasCore(t)
  /\ IF cnt > 0 THEN Go(t, "pop copy") /\ UNCHANGED <<masked, call>>
                ELSE GiveUp(t, "empty")
  /\ UNCHANGED <<ring, buf>>

PopCopy(t) ==
  /\ pc[t] = "pop copy" /\ HasCore(t)
  /\ buf' = [buf EXCEPT ![t] = store[head]]
  /\ Go(t, "pop head")
  /\ UNCHANGED <<ring, masked, call>>

(* Mutant: interrupts come back before the count is right.                *)
PopHeadUnmasks(t) ==
  /\ pc[t] = "pop head" /\ HasCore(t)
  /\ head' = After(head)
  /\ IntUnmask /\ Go(t, "pop count")
  /\ UNCHANGED <<store, tail, cnt, buf, call>>

PopHead(t) ==
  /\ pc[t] = "pop head" /\ HasCore(t)
  /\ head' = After(head)
  /\ Go(t, "pop count")
  /\ UNCHANGED <<store, tail, cnt, masked, buf, call>>

PopCount(t) ==
  /\ pc[t] = "pop count" /\ HasCore(t)
  /\ cnt' = cnt - 1
  /\ IntUnmask /\ Go(t, "out")
  /\ Return(t, "received", buf[t])
  /\ UNCHANGED <<store, head, tail, buf>>

(* Q_Push_Raw: the interrupt is taken when no task masks it, and its       *)
(* handler runs to the end.  A post to a full queue is lost.               *)
QueueSendFromIsr(x) ==
  /\ masked = Nobody
  /\ IF cnt < Cap
       THEN /\ store' = [store EXCEPT ![tail] = x]
            /\ tail' = After(tail)
            /\ cnt' = cnt + 1
            /\ Return(Isr, "sent", NoItem)
       ELSE Return(Isr, "full", NoItem) /\ UNCHANGED <<store, tail, cnt>>
  /\ UNCHANGED <<head, masked, pc, buf>>
-------------------------------------------------------------------------------
Step(t) ==
  \/ Attempt(t)
  \/ PushTest(t) \/ PushStore(t) \/ PushTail(t) \/ PushCount(t)
  \/ PopTest(t) \/ PopCopy(t) \/ PopHead(t) \/ PopCount(t)

Next ==
  \/ \E t \in Tasks : \E w \in BOOLEAN :
       QueueRecv(t, w) \/ \E x \in Items : QueueSend(t, x, w)
  \/ \E t \in Tasks : Step(t)
  \/ \E x \in Items : QueueSendFromIsr(x)

(* A call in progress gets the core again and again: the tasks of a core   *)
(* run in the order of their readiness, every delay ends, interrupts leave *)
(* time between them, and the tasks above an application task sleep.       *)
Fairness == \A t \in Tasks : SF_vars(Step(t))

Spec == Init /\ [][Next]_vars
FairSpec == Spec /\ Fairness
-------------------------------------------------------------------------------
(* The ring's contents, oldest first; a pop that has moved Head but not    *)
(* counted yet has not taken its item.                                     *)
Popping == \E t \in Tasks : pc[t] = "pop count"
First == IF Popping THEN (head + Cap - 1) % Cap ELSE head
Contents == [i \in 1..cnt |-> store[(First + i - 1) % Cap]]

(* The ring is a first-in first-out queue for its callers, tasks and       *)
(* interrupt handler: nothing accepted is lost, repeated, torn or          *)
(* overtaken, and only a full or empty queue refuses (rtos.adb:110-116).   *)
Fifo == INSTANCE FifoQueue WITH q <- Contents
ImplementsFifo == Fifo!Spec

(* The indices and the count agree whenever interrupts can be taken, which *)
(* is when the handler uses them.                                          *)
IndicesAgree == masked = Nobody => tail = (head + cnt) % Cap

(* Nobody waits in vain: the queue does not stay non-empty while a task    *)
(* waits to receive, nor with room in it while one waits to send.  The     *)
(* millisecond poll must not miss what the handler posts between two tries.*)
NobodyWaitsInVain ==
  \A t \in Tasks :
    /\ (call[t].op = "recv" /\ cnt > 0) ~> (call[t].op # "recv" \/ cnt = 0)
    /\ (call[t].op = "send" /\ cnt < Cap) ~> (call[t].op # "send" \/ cnt = Cap)
===============================================================================
