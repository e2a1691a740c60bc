------------------------------ MODULE FifoQueue ------------------------------
(***************************************************************************)
(* What a queue of the Wi-Fi OS layer promises its callers: a bounded      *)
(* first-in first-out queue in which each call takes effect at one moment  *)
(* between its beginning and its return.                                   *)
(***************************************************************************)
EXTENDS Naturals, Sequences

CONSTANTS
  Tasks,    \* tasks that call Queue_Send and Queue_Recv
  Isr,      \* the interrupt handler, which calls Queue_Send_From_Isr
  Items,    \* what is sent
  NoItem,   \* no item
  Cap       \* items the queue holds

VARIABLES
  q,        \* what is in the queue, oldest first
  call      \* each caller's call in progress, or the result of its last one

Callers == Tasks \cup {Isr}

(* op is "send" or "recv" while the call is in progress; wait says whether *)
(* it was made with Ticks = Block_Forever.                                 *)
Sending(x, w)   == [op |-> "send", item |-> x, wait |-> w]
Receiving(w)    == [op |-> "recv", item |-> NoItem, wait |-> w]
Done(result, x) == [op |-> result, item |-> x, wait |-> FALSE]
Idle(c)         == call[c].op \notin {"send", "recv"}

Init ==
  /\ q = <<>>
  /\ call = [c \in Callers |-> Done("none", NoItem)]

Call(t) ==
  /\ Idle(t)
  /\ \E w \in BOOLEAN : \E r \in {Receiving(w)} \cup {Sending(x, w) : x \in Items} :
       call' = [call EXCEPT ![t] = r]
  /\ UNCHANGED q

Send(t) ==
  /\ call[t].op = "send" /\ Len(q) < Cap
  /\ q' = Append(q, call[t].item)
  /\ call' = [call EXCEPT ![t] = Done("sent", NoItem)]

Recv(t) ==
  /\ call[t].op = "recv" /\ q # <<>>
  /\ q' = Tail(q)
  /\ call' = [call EXCEPT ![t] = Done("received", Head(q))]

(* A call is refused only when it must be, and never one that may wait.    *)
Refuse(t) ==
  /\ ~ call[t].wait
  /\ \/ /\ call[t].op = "send" /\ Len(q) = Cap
        /\ call' = [call EXCEPT ![t] = Done("full", NoItem)]
     \/ /\ call[t].op = "recv" /\ q = <<>>
        /\ call' = [call EXCEPT ![t] = Done("empty", NoItem)]
  /\ UNCHANGED q

SendFromIsr(x) ==
  \/ /\ Len(q) < Cap
     /\ q' = Append(q, x)
     /\ call' = [call EXCEPT ![Isr] = Done("sent", NoItem)]
  \/ /\ Len(q) = Cap
     /\ call' = [call EXCEPT ![Isr] = Done("full", NoItem)]
     /\ UNCHANGED q

Next ==
  \/ \E t \in Tasks : Call(t) \/ Send(t) \/ Recv(t) \/ Refuse(t)
  \/ \E x \in Items : SendFromIsr(x)

Spec == Init /\ [][Next]_<<q, call>>
===============================================================================
