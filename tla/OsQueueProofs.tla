---------------------------- MODULE OsQueueProofs ----------------------------
(***************************************************************************)
(* Proofs about OsQueue, for every set of tasks and items and every        *)
(* length: the type invariant, the agreement of the ring's indices, and    *)
(* that the ring implements FifoQueue.                                     *)
(***************************************************************************)
EXTENDS OsQueue, SequenceTheorems, TLAPS

(* Below twice the divisor the remainder needs one comparison.             *)
LEMMA ModOnce ==
  ASSUME NEW d \in Nat, d > 0, NEW n \in Nat, n < 2 * d
  PROVE  n % d = IF n < d THEN n ELSE n - d
OBVIOUS

(* Indices stay below two laps, where % is a comparison.                   *)
Wrap(a) == IF a < Cap THEN a ELSE a - Cap

(* A task is inside Q_Push or Q_Pop exactly while it masks interrupts.     *)
MaskHeld == \A t \in Tasks : pc[t] # "out" <=> masked = t

(* A task in Q_Push was called to send what is in its buffer, one in Q_Pop *)
(* to receive.                                                             *)
ArgsKept ==
  \A t \in Tasks :
    /\ pc[t] \in PlacesInPush => call[t].op = "send"
    /\ pc[t] \in PlacesInPop => call[t].op = "recv"
    /\ call[t].op = "send" => call[t].item = buf[t] /\ buf[t] \in Items

(* What the test of Cnt found is still so.                                 *)
TestHolds ==
  \A t \in Tasks :
    /\ pc[t] \in {"push store", "push tail", "push count"} => cnt < Cap
    /\ pc[t] \in {"pop copy", "pop head", "pop count"} => cnt > 0

(* Where Tail is, and what has been copied, at each place.                 *)
RingInv ==
  /\ (\A t \in Tasks : pc[t] \notin {"push count", "pop count"}) => tail = Wrap(head + cnt)
  /\ \A t \in Tasks :
       /\ pc[t] = "push count" => tail = Wrap(head + cnt + 1)
       /\ pc[t] = "pop count" => tail = Wrap(Wrap(head + Cap - 1) + cnt)
       /\ pc[t] \in {"push tail", "push count"} => store[Wrap(head + cnt)] = buf[t]
       /\ pc[t] = "pop head" => store[head] = buf[t]
       /\ pc[t] = "pop count" => store[Wrap(head + Cap - 1)] = buf[t]

IInv == TypeOK /\ MaskHeld /\ ArgsKept /\ TestHolds /\ RingInv
-------------------------------------------------------------------------------
LEMMA Constants ==
  /\ Cap \in Nat /\ Cap > 0
  /\ NoItem \notin Items /\ Isr \notin Tasks /\ Nobody \notin Tasks
BY CapAssumption, ItemsAssumption, CallersAssumption

LEMMA WrapIsMod ==
  ASSUME NEW a \in Nat, a < 2 * Cap
  PROVE  a % Cap = Wrap(a) /\ Wrap(a) \in 0..(Cap - 1)
BY Constants, ModOnce DEF Wrap

LEMMA AfterIsWrap ==
  ASSUME NEW a \in 0..(Cap - 1)
  PROVE  After(a) = Wrap(a + 1) /\ After(a) \in 0..(Cap - 1)
<1>1. a + 1 \in Nat /\ a + 1 < 2 * Cap
  BY Constants
<1> QED BY <1>1, WrapIsMod DEF After

LEMMA ResultsAreCalls ==
  ASSUME NEW x \in Items \cup {NoItem},
         NEW r \in {"none", "sent", "full", "received", "empty"}
  PROVE  /\ Done(r, x) \in Calls
         /\ Done(r, x).op = r /\ Done(r, x).item = x
BY DEF Done, Calls

LEMMA IInvInit == Init => IInv
<1> SUFFICES ASSUME Init PROVE IInv
  OBVIOUS
<1>1. Wrap(0) = 0
  BY Constants DEF Wrap
<1>2. Done("none", NoItem) \in Calls /\ Done("none", NoItem).op = "none"
  BY ResultsAreCalls
<1>3. TypeOK
  BY <1>2, Constants DEF Init, TypeOK
<1>4. MaskHeld /\ TestHolds
  BY Constants DEF Init, MaskHeld, TestHolds
<1>5. ArgsKept
  BY <1>2 DEF Init, ArgsKept, PlacesInPush, PlacesInPop, Callers
<1>6. RingInv
  BY <1>1, Constants DEF Init, RingInv
<1> QED BY <1>3, <1>4, <1>5, <1>6 DEF IInv
-------------------------------------------------------------------------------
(* What a step may use: everything known of the task that takes it, and    *)
(* that every other task is out of the ring.                               *)
LEMMA Alone ==
  ASSUME IInv, NEW t \in Tasks, pc[t] # "out"
  PROVE  masked = t /\ \A u \in Tasks : u # t => pc[u] = "out"
BY DEF IInv, MaskHeld

LEMMA QueueSendStep ==
  ASSUME IInv, NEW t \in Tasks, NEW x \in Items, NEW w \in BOOLEAN, QueueSend(t, x, w)
  PROVE  IInv'
<1> USE DEF IInv
<1>1. /\ Sending(x, w) \in Calls /\ Sending(x, w).op = "send" /\ Sending(x, w).item = x
      /\ t \in Callers
  BY DEF Sending, Calls, Callers
<1>2. pc[t] = "out"
  BY DEF QueueSend, Idle, ArgsKept, TypeOK
<1>3. TypeOK'
  BY <1>1 DEF QueueSend, TypeOK, ring, Callers
<1>4. MaskHeld' /\ TestHolds'
  BY DEF QueueSend, MaskHeld, TestHolds, ring
<1>5. ArgsKept'
  BY <1>1, <1>2 DEF QueueSend, ArgsKept, TypeOK, Callers, PlacesInPush, PlacesInPop
<1>6. RingInv'
  BY <1>2 DEF QueueSend, RingInv, TypeOK, ring
<1> QED BY <1>3, <1>4, <1>5, <1>6

LEMMA QueueRecvStep ==
  ASSUME IInv, NEW t \in Tasks, NEW w \in BOOLEAN, QueueRecv(t, w)
  PROVE  IInv'
<1> USE DEF IInv
<1>1. Receiving(w) \in Calls /\ Receiving(w).op = "recv" /\ t \in Callers
  BY DEF Receiving, Calls, Callers
<1>2. pc[t] = "out"
  BY DEF QueueRecv, Idle, ArgsKept, TypeOK
<1>3. TypeOK'
  BY <1>1 DEF QueueRecv, TypeOK, ring, Callers
<1>4. MaskHeld' /\ TestHolds' /\ RingInv'
  BY DEF QueueRecv, MaskHeld, TestHolds, RingInv, ring
<1>5. ArgsKept'
  BY <1>1, <1>2 DEF QueueRecv, ArgsKept, TypeOK, Callers, PlacesInPush, PlacesInPop
<1> QED BY <1>3, <1>4, <1>5

LEMMA AttemptStep ==
  ASSUME IInv, NEW t \in Tasks, Attempt(t)
  PROVE  IInv'
<1> USE DEF IInv
<1> DEFINE place == IF call[t].op = "send" THEN "push test" ELSE "pop test"
<1>1. masked = Nobody /\ masked' = t /\ \A u \in Tasks : pc[u] = "out"
  BY Constants DEF Attempt, HasCore, MaskHeld, TypeOK, IntMask
<1>2. pc' = [pc EXCEPT ![t] = place]
  BY DEF Attempt, Go
<1>3. call[t].op \in {"send", "recv"}
  BY DEF Attempt, Idle
<1>4. TypeOK'
  BY <1>1, <1>2 DEF Attempt, TypeOK, ring, PlacesInPush, PlacesInPop
<1>5. MaskHeld' /\ TestHolds' /\ RingInv'
  BY <1>1, <1>2, Constants DEF Attempt, TypeOK, MaskHeld, TestHolds, RingInv, ring
<1>6. ArgsKept'
  BY <1>1, <1>2, <1>3 DEF Attempt, ArgsKept, TypeOK, PlacesInPush, PlacesInPop
<1> QED BY <1>4, <1>5, <1>6

(* The results leave the caller's own argument behind.                     *)
LEMMA GiveUpStep ==
  ASSUME IInv, NEW t \in Tasks, pc[t] \in {"push test", "pop test"},
         NEW r \in {"full", "empty"}, GiveUp(t, r), UNCHANGED <<ring, buf>>
  PROVE  IInv'
<1> USE DEF IInv
<1>1. masked = t /\ \A u \in Tasks : u # t => pc[u] = "out"
  BY Alone
<1>2. pc' = [pc EXCEPT ![t] = "out"] /\ masked' = Nobody
  BY DEF GiveUp, Go, IntUnmask
<1>3. /\ call' \in [Callers -> Calls]
      /\ \A u \in Tasks : call'[u] = call[u] \/ call'[u].op = r
  <2>1. call \in [Callers -> Calls] /\ Tasks \subseteq Callers
    BY DEF TypeOK, Callers
  <2>2. Done(r, NoItem) \in Calls /\ Done(r, NoItem).op = r
    BY DEF Done, Calls
  <2>3. call' = call \/ call' = [call EXCEPT ![t] = Done(r, NoItem)]
    BY DEF GiveUp, Return
  <2> QED BY <2>1, <2>2, <2>3
<1>4. TypeOK'
  BY <1>2, <1>3 DEF TypeOK, ring
<1>5. MaskHeld' /\ TestHolds' /\ RingInv'
  BY <1>1, <1>2, Constants DEF TypeOK, MaskHeld, TestHolds, RingInv, ring
<1>6. ArgsKept'
  BY <1>1, <1>2, <1>3 DEF ArgsKept, TypeOK, PlacesInPush, PlacesInPop
<1> QED BY <1>4, <1>5, <1>6

LEMMA PushTestStep ==
  ASSUME IInv, NEW t \in Tasks, PushTest(t)
  PROVE  IInv'
<1>1. CASE cnt < Cap
  <2> USE DEF IInv
  <2>1. masked = t /\ \A u \in Tasks : u # t => pc[u] = "out"
    BY Alone DEF PushTest
  <2>2. pc[t] = "push test" /\ pc' = [pc EXCEPT ![t] = "push store"]
    BY <1>1 DEF PushTest, Go
  <2>3. UNCHANGED <<store, head, tail, cnt, masked, buf, call>>
    BY <1>1 DEF PushTest, ring
  <2>4. TypeOK' /\ ArgsKept'
    BY <2>2, <2>3 DEF TypeOK, ArgsKept, PlacesInPush, PlacesInPop
  <2>5. MaskHeld' /\ TestHolds' /\ RingInv'
    BY <1>1, <2>1, <2>2, <2>3 DEF TypeOK, MaskHeld, TestHolds, RingInv
  <2> QED BY <2>4, <2>5
<1>2. CASE ~ (cnt < Cap)
  BY <1>2, GiveUpStep DEF PushTest
<1> QED BY <1>1, <1>2

LEMMA PushStoreStep ==
  ASSUME IInv, NEW t \in Tasks, PushStore(t)
  PROVE  IInv'
<1> USE DEF IInv
<1>1. masked = t /\ \A u \in Tasks : u # t => pc[u] = "out"
  BY Alone DEF PushStore
<1>2. pc[t] = "push store" /\ pc' = [pc EXCEPT ![t] = "push tail"]
  BY DEF PushStore, Go
<1>3. store' = [store EXCEPT ![tail] = buf[t]] /\ UNCHANGED <<head, tail, cnt, masked, buf, call>>
  BY DEF PushStore
<1>4. TypeOK' /\ ArgsKept'
  BY <1>2, <1>3 DEF TypeOK, ArgsKept, PlacesInPush, PlacesInPop
<1>5. MaskHeld' /\ TestHolds'
  BY <1>1, <1>2, <1>3 DEF TypeOK, MaskHeld, TestHolds
<1>6. tail = Wrap(head + cnt) /\ tail \in 0..(Cap - 1)
  BY <1>1, <1>2 DEF RingInv, TypeOK
<1>7. RingInv'
  BY <1>1, <1>2, <1>3, <1>6 DEF TypeOK, RingInv
<1> QED BY <1>4, <1>5, <1>7

LEMMA PushTailStep ==
  ASSUME IInv, NEW t \in Tasks, PushTail(t)
  PROVE  IInv'
<1> USE DEF IInv
<1>1. masked = t /\ \A u \in Tasks : u # t => pc[u] = "out"
  BY Alone DEF PushTail
<1>2. pc[t] = "push tail" /\ pc' = [pc EXCEPT ![t] = "push count"]
  BY DEF PushTail, Go
<1>3. tail' = After(tail) /\ UNCHANGED <<store, head, cnt, masked, buf, call>>
  BY DEF PushTail
<1>4. tail = Wrap(head + cnt) /\ cnt < Cap /\ head \in 0..(Cap - 1) /\ cnt \in Nat
  <2>1. tail = Wrap(head + cnt)
    BY <1>1, <1>2 DEF RingInv
  <2>2. cnt < Cap
    BY <1>2 DEF TestHolds
  <2> QED BY <2>1, <2>2, Constants DEF TypeOK
<1>5. tail' \in 0..(Cap - 1) /\ tail' = Wrap(head + cnt + 1)
  BY <1>3, <1>4, AfterIsWrap, Constants DEF Wrap, TypeOK
<1>6. TypeOK' /\ ArgsKept'
  BY <1>2, <1>3, <1>5 DEF TypeOK, ArgsKept, PlacesInPush, PlacesInPop
<1>7. MaskHeld' /\ TestHolds'
  BY <1>1, <1>2, <1>3 DEF TypeOK, MaskHeld, TestHolds
<1>8. RingInv'
  BY <1>1, <1>2, <1>3, <1>5 DEF TypeOK, RingInv
<1> QED BY <1>6, <1>7, <1>8

(* A call that returns: the caller's record is a result.                   *)
LEMMA ReturnKept ==
  ASSUME IInv, NEW t \in Tasks, NEW r \in {"sent", "received"},
         NEW x \in Items \cup {NoItem}, Return(t, r, x)
  PROVE  /\ call' \in [Callers -> Calls]
         /\ call'[t].op = r
         /\ \A u \in Tasks : u # t => call'[u] = call[u]
<1>1. call \in [Callers -> Calls] /\ Tasks \subseteq Callers
  BY DEF IInv, TypeOK, Callers
<1>2. Done(r, x) \in Calls /\ Done(r, x).op = r
  BY ResultsAreCalls
<1> QED BY <1>1, <1>2 DEF Return

LEMMA PushCountStep ==
  ASSUME IInv, NEW t \in Tasks, PushCount(t)
  PROVE  IInv'
<1> USE DEF IInv
<1>1. masked = t /\ \A u \in Tasks : u # t => pc[u] = "out"
  BY Alone DEF PushCount
<1>2. pc[t] = "push count" /\ pc' = [pc EXCEPT ![t] = "out"] /\ masked' = Nobody
  BY DEF PushCount, Go, IntUnmask
<1>3. cnt' = cnt + 1 /\ UNCHANGED <<store, head, tail, buf>>
  BY DEF PushCount
<1>4. /\ call' \in [Callers -> Calls] /\ call'[t].op = "sent"
      /\ \A u \in Tasks : u # t => call'[u] = call[u]
  BY ReturnKept DEF PushCount
<1>5. cnt < Cap /\ tail = Wrap(head + cnt + 1) /\ head \in 0..(Cap - 1) /\ cnt \in 0..Cap
  BY <1>2 DEF TestHolds, RingInv, TypeOK
<1>6. TypeOK' /\ ArgsKept'
  <2>1. TypeOK'
    <3>1. cnt' \in 0..Cap
      BY <1>3, <1>5, Constants
    <3>2. pc' \in [Tasks -> {"out"} \cup PlacesInPush \cup PlacesInPop]
      BY <1>2 DEF TypeOK
    <3> QED BY <3>1, <3>2, <1>2, <1>3, <1>4 DEF TypeOK
  <2>2. \A u \in Tasks : pc'[u] = "out"
    BY <1>1, <1>2 DEF TypeOK
  <2>3. ArgsKept'
    BY <1>3, <1>4, <2>2 DEF ArgsKept, PlacesInPush, PlacesInPop
  <2> QED BY <2>1, <2>3
<1>7. MaskHeld' /\ TestHolds'
  BY <1>1, <1>2, <1>3, Constants DEF TypeOK, MaskHeld, TestHolds
<1>8. \A u \in Tasks : pc'[u] = "out"
  BY <1>1, <1>2 DEF TypeOK
<1>9. head + cnt + 1 = head + (cnt + 1)
  BY <1>5, Constants
<1>10. RingInv'
  BY <1>3, <1>5, <1>8, <1>9 DEF RingInv
<1> QED BY <1>6, <1>7, <1>10

LEMMA PopTestStep ==
  ASSUME IInv, NEW t \in Tasks, PopTest(t)
  PROVE  IInv'
<1>1. CASE cnt > 0
  <2> USE DEF IInv
  <2>1. masked = t /\ \A u \in Tasks : u # t => pc[u] = "out"
    BY Alone DEF PopTest
  <2>2. pc[t] = "pop test" /\ pc' = [pc EXCEPT ![t] = "pop copy"]
    BY <1>1 DEF PopTest, Go
  <2>3. UNCHANGED <<store, head, tail, cnt, masked, buf, call>>
    BY <1>1 DEF PopTest, ring
  <2>4. TypeOK' /\ ArgsKept'
    BY <2>2, <2>3 DEF TypeOK, ArgsKept, PlacesInPush, PlacesInPop
  <2>5. MaskHeld' /\ TestHolds' /\ RingInv'
    BY <1>1, <2>1, <2>2, <2>3 DEF TypeOK, MaskHeld, TestHolds, RingInv
  <2> QED BY <2>4, <2>5
<1>2. CASE ~ (cnt > 0)
  BY <1>2, GiveUpStep DEF PopTest
<1> QED BY <1>1, <1>2

LEMMA PopCopyStep ==
  ASSUME IInv, NEW t \in Tasks, PopCopy(t)
  PROVE  IInv'
<1> USE DEF IInv
<1>1. masked = t /\ \A u \in Tasks : u # t => pc[u] = "out"
  BY Alone DEF PopCopy
<1>2. pc[t] = "pop copy" /\ pc' = [pc EXCEPT ![t] = "pop head"]
  BY DEF PopCopy, Go
<1>3. buf' = [buf EXCEPT ![t] = store[head]] /\ UNCHANGED <<store, head, tail, cnt, masked, call>>
  BY DEF PopCopy, ring
<1>4. store[head] \in Items \cup {NoItem} /\ call[t].op = "recv"
  BY <1>2 DEF TypeOK, ArgsKept, PlacesInPop
<1>5. TypeOK' /\ ArgsKept'
  BY <1>2, <1>3, <1>4 DEF TypeOK, ArgsKept, PlacesInPush, PlacesInPop
<1>6. MaskHeld' /\ TestHolds'
  BY <1>1, <1>2, <1>3 DEF TypeOK, MaskHeld, TestHolds
<1>7. RingInv'
  BY <1>1, <1>2, <1>3 DEF TypeOK, RingInv
<1> QED BY <1>5, <1>6, <1>7

LEMMA PopHeadStep ==
  ASSUME IInv, NEW t \in Tasks, PopHead(t)
  PROVE  IInv'
<1> USE DEF IInv
<1>1. masked = t /\ \A u \in Tasks : u # t => pc[u] = "out"
  BY Alone DEF PopHead
<1>2. pc[t] = "pop head" /\ pc' = [pc EXCEPT ![t] = "pop count"]
  BY DEF PopHead, Go
<1>3. head' = After(head) /\ UNCHANGED <<store, tail, cnt, masked, buf, call>>
  BY DEF PopHead
<1>4. /\ tail = Wrap(head + cnt) /\ store[head] = buf[t]
      /\ head \in 0..(Cap - 1) /\ cnt \in 0..Cap
  BY <1>1, <1>2 DEF RingInv, TypeOK
<1>5. head' \in 0..(Cap - 1) /\ Wrap(head' + Cap - 1) = head
  BY <1>3, <1>4, AfterIsWrap, Constants DEF Wrap
<1>6. TypeOK' /\ ArgsKept'
  BY <1>2, <1>3, <1>5 DEF TypeOK, ArgsKept, PlacesInPush, PlacesInPop
<1>7. MaskHeld' /\ TestHolds'
  BY <1>1, <1>2, <1>3 DEF TypeOK, MaskHeld, TestHolds
<1>8. RingInv'
  BY <1>1, <1>2, <1>3, <1>4, <1>5 DEF TypeOK, RingInv
<1> QED BY <1>6, <1>7, <1>8

LEMMA PopCountStep ==
  ASSUME IInv, NEW t \in Tasks, PopCount(t)
  PROVE  IInv'
<1> USE DEF IInv
<1>1. masked = t /\ \A u \in Tasks : u # t => pc[u] = "out"
  BY Alone DEF PopCount
<1>2. pc[t] = "pop count" /\ pc' = [pc EXCEPT ![t] = "out"] /\ masked' = Nobody
  BY DEF PopCount, Go, IntUnmask
<1>3. cnt' = cnt - 1 /\ UNCHANGED <<store, head, tail, buf>>
  BY DEF PopCount
<1>4. /\ call' \in [Callers -> Calls] /\ call'[t].op = "received"
      /\ \A u \in Tasks : u # t => call'[u] = call[u]
  BY ReturnKept DEF PopCount, TypeOK
<1>5. /\ cnt > 0 /\ tail = Wrap(Wrap(head + Cap - 1) + cnt)
      /\ head \in 0..(Cap - 1) /\ cnt \in 0..Cap
  BY <1>2 DEF TestHolds, RingInv, TypeOK
<1>6. TypeOK' /\ ArgsKept'
  <2>1. TypeOK'
    <3>1. cnt' \in 0..Cap
      BY <1>3, <1>5, Constants
    <3>2. pc' \in [Tasks -> {"out"} \cup PlacesInPush \cup PlacesInPop]
      BY <1>2 DEF TypeOK
    <3> QED BY <3>1, <3>2, <1>2, <1>3, <1>4 DEF TypeOK
  <2>2. \A u \in Tasks : pc'[u] = "out"
    BY <1>1, <1>2 DEF TypeOK
  <2>3. ArgsKept'
    BY <1>3, <1>4, <2>2 DEF ArgsKept, PlacesInPush, PlacesInPop
  <2> QED BY <2>1, <2>3
<1>7. MaskHeld' /\ TestHolds'
  BY <1>1, <1>2, <1>3, Constants DEF TypeOK, MaskHeld, TestHolds
<1>8. \A u \in Tasks : pc'[u] = "out"
  BY <1>1, <1>2 DEF TypeOK
<1>9. Wrap(Wrap(head + Cap - 1) + cnt) = Wrap(head + (cnt - 1))
  BY <1>5, Constants DEF Wrap
<1>10. RingInv'
  BY <1>3, <1>5, <1>8, <1>9 DEF RingInv
<1> QED BY <1>6, <1>7, <1>10

LEMMA QueueSendFromIsrStep ==
  ASSUME IInv, NEW x \in Items, QueueSendFromIsr(x)
  PROVE  IInv'
<1> USE DEF IInv
<1>1. masked = Nobody /\ \A u \in Tasks : pc[u] = "out"
  BY Constants DEF QueueSendFromIsr, MaskHeld
<1>2. UNCHANGED <<head, masked, pc, buf>>
  BY DEF QueueSendFromIsr
<1>3. tail = Wrap(head + cnt) /\ head \in 0..(Cap - 1) /\ cnt \in 0..Cap /\ tail \in 0..(Cap - 1)
  BY <1>1 DEF RingInv, TypeOK
<1>4. /\ call' \in [Callers -> Calls]
      /\ \A u \in Tasks : call'[u] = call[u]
  <2>1. call \in [Callers -> Calls] /\ Tasks \subseteq Callers /\ Isr \in Callers
    BY DEF TypeOK, Callers
  <2>2. Done("sent", NoItem) \in Calls /\ Done("full", NoItem) \in Calls
    BY ResultsAreCalls
  <2>3. \E r \in {Done("sent", NoItem), Done("full", NoItem)} : call' = [call EXCEPT ![Isr] = r]
    BY DEF QueueSendFromIsr, Return
  <2> QED BY <2>1, <2>2, <2>3, Constants
<1>5. /\ tail' \in 0..(Cap - 1) /\ cnt' \in 0..Cap /\ tail' = Wrap(head + cnt')
      /\ store' \in [0..(Cap - 1) -> Items \cup {NoItem}]
  <2>1. CASE cnt < Cap
    <3>1. tail' = After(tail) /\ cnt' = cnt + 1 /\ store' = [store EXCEPT ![tail] = x]
      BY <2>1 DEF QueueSendFromIsr
    <3>2. tail' \in 0..(Cap - 1) /\ tail' = Wrap(head + cnt')
      BY <3>1, <2>1, <1>3, AfterIsWrap, Constants DEF Wrap
    <3> QED BY <3>1, <3>2, <2>1, <1>3, Constants DEF TypeOK
  <2>2. CASE ~ (cnt < Cap)
    BY <2>2, <1>3 DEF QueueSendFromIsr, TypeOK
  <2> QED BY <2>1, <2>2
<1>6. TypeOK' /\ ArgsKept'
  BY <1>2, <1>4, <1>5 DEF TypeOK, ArgsKept
<1>7. MaskHeld' /\ TestHolds' /\ RingInv'
  BY <1>1, <1>2, <1>5 DEF MaskHeld, TestHolds, RingInv
<1> QED BY <1>6, <1>7
-------------------------------------------------------------------------------
LEMMA IInvNext == IInv /\ [Next]_vars => IInv'
<1> SUFFICES ASSUME IInv, [Next]_vars PROVE IInv'
  OBVIOUS
<1>1. ASSUME NEW t \in Tasks, NEW w \in BOOLEAN,
             QueueRecv(t, w) \/ \E x \in Items : QueueSend(t, x, w)
      PROVE  IInv'
  BY <1>1, QueueRecvStep, QueueSendStep
<1>2. ASSUME NEW t \in Tasks, Step(t) PROVE IInv'
  BY <1>2, AttemptStep, PushTestStep, PushStoreStep, PushTailStep, PushCountStep,
     PopTestStep, PopCopyStep, PopHeadStep, PopCountStep DEF Step
<1>3. ASSUME NEW x \in Items, QueueSendFromIsr(x) PROVE IInv'
  BY <1>3, QueueSendFromIsrStep
<1>4. ASSUME UNCHANGED vars PROVE IInv'
  BY <1>4 DEF vars, IInv, TypeOK, MaskHeld, ArgsKept, TestHolds, RingInv
<1> QED BY <1>1, <1>2, <1>3, <1>4 DEF Next

LEMMA IInvAlways == Spec => []IInv
BY IInvInit, IInvNext, PTL DEF Spec

(* Every variable keeps its type: no index ever leaves the ring and the    *)
(* count never passes its length, whatever the tasks and the interrupt     *)
(* handler do to each other (rtos.adb:154-212).                            *)
THEOREM QueueTypeCorrect == Spec => []TypeOK
<1>1. IInv => TypeOK
  BY DEF IInv
<1> QED BY <1>1, IInvAlways, PTL

(* Whenever an interrupt can be taken the ring that its handler finds is a *)
(* whole one: masking covers every moment at which it is not.              *)
THEOREM IndicesAgreeThm == Spec => []IndicesAgree
<1>1. IInv => IndicesAgree
  <2> SUFFICES ASSUME IInv, masked = Nobody PROVE tail = (head + cnt) % Cap
    BY DEF IndicesAgree
  <2>1. \A t \in Tasks : pc[t] = "out"
    BY Constants DEF IInv, MaskHeld
  <2>2. tail = Wrap(head + cnt)
    BY <2>1 DEF IInv, RingInv
  <2>3. head + cnt \in Nat /\ head + cnt < 2 * Cap
    BY Constants DEF IInv, TypeOK
  <2> QED BY <2>2, <2>3, WrapIsMod
<1> QED BY <1>1, IInvAlways, PTL
-------------------------------------------------------------------------------
(* The refinement.  A ring s read from f on, n items long.                 *)
Bytes == Items \cup {NoItem}
Rings == [0..(Cap - 1) -> Bytes]
RingOf(s, f, n) == [i \in 1..n |-> s[(f + i - 1) % Cap]]

LEMMA RingOfIsSeq ==
  ASSUME NEW s \in Rings, NEW f \in 0..(Cap - 1), NEW n \in 0..Cap
  PROVE  /\ RingOf(s, f, n) \in Seq(Bytes)
         /\ Len(RingOf(s, f, n)) = n
         /\ \A i \in 1..n : RingOf(s, f, n)[i] = s[Wrap(f + i - 1)]
<1>1. \A i \in 1..n : (f + i - 1) % Cap = Wrap(f + i - 1) /\ Wrap(f + i - 1) \in 0..(Cap - 1)
  <2> SUFFICES ASSUME NEW i \in 1..n
               PROVE  f + i - 1 \in Nat /\ f + i - 1 < 2 * Cap
    BY WrapIsMod
  <2> QED BY Constants
<1>2. RingOf(s, f, n) \in [1..n -> Bytes] /\ n \in Nat
  BY <1>1, Constants DEF RingOf, Rings
<1>3. \A i \in 1..n : RingOf(s, f, n)[i] = s[Wrap(f + i - 1)]
  BY <1>1 DEF RingOf
<1>4. RingOf(s, f, n) \in Seq(Bytes)
  BY <1>2, SeqDef
<1>5. Len(RingOf(s, f, n)) = n
  <2>1. DOMAIN RingOf(s, f, n) = 1..n
    BY <1>2
  <2>2. DOMAIN RingOf(s, f, n) = 1..Len(RingOf(s, f, n)) /\ Len(RingOf(s, f, n)) \in Nat
    BY <1>4, LenProperties
  <2> QED BY <2>1, <2>2, <1>2
<1> QED BY <1>3, <1>4, <1>5

(* What is written behind the items does not show among them, and one more *)
(* item read is that one, appended.                                        *)
LEMMA RingOfGrows ==
  ASSUME NEW s \in Rings, NEW f \in 0..(Cap - 1), NEW n \in 0..Cap, n < Cap, NEW x \in Bytes
  PROVE  /\ [s EXCEPT ![Wrap(f + n)] = x] \in Rings
         /\ RingOf([s EXCEPT ![Wrap(f + n)] = x], f, n) = RingOf(s, f, n)
         /\ s[Wrap(f + n)] = x => RingOf(s, f, n + 1) = Append(RingOf(s, f, n), x)
<1> DEFINE z == [s EXCEPT ![Wrap(f + n)] = x]
<1>1. Wrap(f + n) \in 0..(Cap - 1)
  BY Constants DEF Wrap
<1>2. z \in Rings
  BY <1>1 DEF Rings
<1>3. \A i \in 1..n : z[Wrap(f + i - 1)] = s[Wrap(f + i - 1)]
  <2> SUFFICES ASSUME NEW i \in 1..n
               PROVE  Wrap(f + i - 1) # Wrap(f + n) /\ Wrap(f + i - 1) \in 0..(Cap - 1)
    BY <1>1 DEF Rings
  <2> QED BY Constants DEF Wrap
<1> HIDE DEF z
<1>4. RingOf(z, f, n) = RingOf(s, f, n)
  <2>1. /\ RingOf(z, f, n) \in Seq(Bytes) /\ Len(RingOf(z, f, n)) = n
        /\ \A i \in 1..n : RingOf(z, f, n)[i] = z[Wrap(f + i - 1)]
    BY <1>2, RingOfIsSeq
  <2>2. /\ RingOf(s, f, n) \in Seq(Bytes) /\ Len(RingOf(s, f, n)) = n
        /\ \A i \in 1..n : RingOf(s, f, n)[i] = s[Wrap(f + i - 1)]
    BY RingOfIsSeq
  <2> QED BY <1>3, <2>1, <2>2, SeqEqual
<1>5. ASSUME s[Wrap(f + n)] = x
      PROVE  RingOf(s, f, n + 1) = Append(RingOf(s, f, n), x)
  <2>1. n + 1 \in 0..Cap /\ f + (n + 1) - 1 = f + n
    BY Constants
  <2>2. /\ RingOf(s, f, n + 1) \in Seq(Bytes) /\ Len(RingOf(s, f, n + 1)) = n + 1
        /\ \A i \in 1..(n + 1) : RingOf(s, f, n + 1)[i] = s[Wrap(f + i - 1)]
    BY <2>1, RingOfIsSeq
  <2>3. /\ RingOf(s, f, n) \in Seq(Bytes) /\ Len(RingOf(s, f, n)) = n
        /\ \A i \in 1..n : RingOf(s, f, n)[i] = s[Wrap(f + i - 1)]
    BY RingOfIsSeq
  <2>4. /\ Append(RingOf(s, f, n), x) \in Seq(Bytes)
        /\ Len(Append(RingOf(s, f, n), x)) = n + 1
        /\ \A i \in 1..n : Append(RingOf(s, f, n), x)[i] = RingOf(s, f, n)[i]
        /\ Append(RingOf(s, f, n), x)[n + 1] = x
    BY <2>3, AppendProperties
  <2>5. \A i \in 1..(n + 1) : RingOf(s, f, n + 1)[i] = Append(RingOf(s, f, n), x)[i]
    <3> SUFFICES ASSUME NEW i \in 1..(n + 1)
                 PROVE  RingOf(s, f, n + 1)[i] = Append(RingOf(s, f, n), x)[i]
      OBVIOUS
    <3>1. CASE i = n + 1
      BY <3>1, <2>1, <2>2, <2>4, <1>5
    <3>2. CASE i # n + 1
      <4>1. i \in 1..n
        BY <3>2
      <4> QED BY <4>1, <2>2, <2>3, <2>4
    <3> QED BY <3>1, <3>2
  <2> QED BY <2>2, <2>4, <2>5, SeqEqual
<1> QED BY <1>2, <1>4, <1>5 DEF z

(* Moving the start by one takes the oldest item away.                     *)
LEMMA RingOfShrinks ==
  ASSUME NEW s \in Rings, NEW f \in 0..(Cap - 1), NEW n \in 0..Cap, n > 0
  PROVE  /\ RingOf(s, f, n) # <<>> /\ Head(RingOf(s, f, n)) = s[f]
         /\ RingOf(s, Wrap(f + 1), n - 1) = Tail(RingOf(s, f, n))
<1> DEFINE r == RingOf(s, f, n)
           z == RingOf(s, Wrap(f + 1), n - 1)
<1>1. Wrap(f + 1) \in 0..(Cap - 1) /\ n - 1 \in 0..Cap /\ Wrap(f + 1 - 1) = f
  BY Constants DEF Wrap
<1>2. /\ r \in Seq(Bytes) /\ Len(r) = n
      /\ \A i \in 1..n : r[i] = s[Wrap(f + i - 1)]
  BY RingOfIsSeq
<1>3. /\ z \in Seq(Bytes) /\ Len(z) = n - 1
      /\ \A i \in 1..(n - 1) : z[i] = s[Wrap(Wrap(f + 1) + i - 1)]
  BY <1>1, RingOfIsSeq
<1> HIDE DEF r, z
<1>4. r # <<>>
  BY <1>2, EmptySeq
<1>5. Head(r) = s[f]
  BY <1>1, <1>2, <1>4
<1>6. /\ Tail(r) \in Seq(Bytes) /\ Len(Tail(r)) = n - 1
      /\ \A i \in 1..(n - 1) : Tail(r)[i] = r[i + 1]
  BY <1>2, <1>4, HeadTailProperties
<1>7. \A i \in 1..(n - 1) : z[i] = Tail(r)[i]
  <2> SUFFICES ASSUME NEW i \in 1..(n - 1) PROVE z[i] = Tail(r)[i]
    OBVIOUS
  <2>1. i + 1 \in 1..n /\ Wrap(Wrap(f + 1) + i - 1) = Wrap(f + (i + 1) - 1)
    BY Constants DEF Wrap
  <2> QED BY <2>1, <1>2, <1>3, <1>6
<1>8. z = Tail(r)
  BY <1>3, <1>6, <1>7, SeqEqual
<1> QED BY <1>4, <1>5, <1>8 DEF r, z

LEMMA ContentsIsRing ==
  Contents = RingOf(store, First, cnt) /\ Contents' = RingOf(store', First', cnt')
BY DEF Contents, RingOf

LEMMA RingTyped == IInv => store \in Rings /\ head \in 0..(Cap - 1) /\ cnt \in 0..Cap
BY DEF IInv, TypeOK, Rings, Bytes

(* Outside the step between moving Head and counting, Head is where the    *)
(* oldest item lies.                                                       *)
LEMMA HeadIsFirst ==
  ASSUME IInv, NEW t \in Tasks, NEW p, p # "pop count", pc' = [pc EXCEPT ![t] = p],
         \/ pc[t] \notin {"out", "pop count"}
         \/ \A u \in Tasks : pc[u] = "out"
  PROVE  First = head /\ First' = head'
<1>1. \A u \in Tasks : pc[u] # "pop count"
  BY Alone
<1>2. \A u \in Tasks : pc'[u] # "pop count"
  BY <1>1 DEF IInv, TypeOK
<1> QED BY <1>1, <1>2 DEF First, Popping

(* The steps that the callers do not see.                                  *)
Hidden(t) == Attempt(t) \/ PushStore(t) \/ PushTail(t) \/ PopCopy(t)

LEMMA HiddenStutters ==
  ASSUME IInv, NEW t \in Tasks, Hidden(t)
  PROVE  Contents' = Contents /\ call' = call
<1>1. call' = call /\ head' = head /\ cnt' = cnt
  BY DEF Hidden, Attempt, PushStore, PushTail, PopCopy, ring
<1>2. First = head /\ First' = head'
  <2>1. CASE Attempt(t)
    <3>1. \A u \in Tasks : pc[u] = "out"
      BY <2>1, Constants DEF Attempt, HasCore, IInv, MaskHeld, TypeOK
    <3> QED BY <3>1, <2>1, HeadIsFirst DEF Attempt, Go
  <2>2. CASE PushStore(t) \/ PushTail(t) \/ PopCopy(t)
    BY <2>2, HeadIsFirst DEF PushStore, PushTail, PopCopy, Go
  <2> QED BY <2>1, <2>2 DEF Hidden
<1>3. RingOf(store', head, cnt) = RingOf(store, head, cnt)
  <2>1. CASE PushStore(t)
    <3>1. pc[t] = "push store" /\ store' = [store EXCEPT ![tail] = buf[t]]
      BY <2>1 DEF PushStore
    <3>2. \A u \in Tasks : u # t => pc[u] = "out"
      BY <3>1, Alone
    <3>3. tail = Wrap(head + cnt)
      BY <3>1, <3>2 DEF IInv, RingInv
    <3>4. cnt < Cap /\ buf[t] \in Bytes
      BY <3>1 DEF IInv, TestHolds, TypeOK, Bytes
    <3> QED BY <3>1, <3>3, <3>4, RingTyped, RingOfGrows
  <2>2. CASE ~ PushStore(t)
    BY <2>2 DEF Hidden, Attempt, PushTail, PopCopy, ring
  <2> QED BY <2>1, <2>2
<1> QED BY <1>1, <1>2, <1>3, ContentsIsRing

LEMMA PopHeadStutters ==
  ASSUME IInv, NEW t \in Tasks, PopHead(t)
  PROVE  Contents' = Contents /\ call' = call
<1>1. pc[t] = "pop head" /\ pc' = [pc EXCEPT ![t] = "pop count"] /\ head' = After(head)
  BY DEF PopHead, Go
<1>2. UNCHANGED <<store, cnt, call>>
  BY DEF PopHead
<1>3. \A u \in Tasks : pc[u] # "pop count"
  BY <1>1, Alone
<1>4. First = head
  BY <1>3 DEF First, Popping
<1>5. pc'[t] = "pop count"
  BY <1>1 DEF IInv, TypeOK
<1>6. First' = (head' + Cap - 1) % Cap
  BY <1>5 DEF First, Popping
<1>7. head \in 0..(Cap - 1)
  BY RingTyped
<1>8. head' = Wrap(head + 1) /\ head' \in 0..(Cap - 1)
  BY <1>1, <1>7, AfterIsWrap
<1>9. (head' + Cap - 1) % Cap = Wrap(head' + Cap - 1)
  <2>1. head' + Cap - 1 \in Nat /\ head' + Cap - 1 < 2 * Cap
    BY <1>8, Constants
  <2> QED BY <2>1, WrapIsMod
<1>10. Wrap(head' + Cap - 1) = head
  BY <1>7, <1>8, Constants DEF Wrap
<1> QED BY <1>2, <1>4, <1>6, <1>9, <1>10, ContentsIsRing

LEMMA CallIsCall ==
  ASSUME IInv, NEW t \in Tasks, NEW w \in BOOLEAN,
         QueueRecv(t, w) \/ \E x \in Items : QueueSend(t, x, w)
  PROVE  Fifo!Call(t)
<1>1. UNCHANGED <<ring, pc>> /\ Idle(t)
  BY DEF QueueRecv, QueueSend
<1>2. Contents' = Contents
  BY <1>1 DEF Contents, First, Popping, ring
<1>3. \E r \in {Receiving(w)} \cup {Sending(x, w) : x \in Items} : call' = [call EXCEPT ![t] = r]
  BY DEF QueueRecv, QueueSend
<1> QED BY <1>1, <1>2, <1>3
        DEF Fifo!Call, Fifo!Idle, Idle, Fifo!Receiving, Receiving, Fifo!Sending, Sending

LEMMA PushCountIsSend ==
  ASSUME IInv, NEW t \in Tasks, PushCount(t)
  PROVE  Fifo!Send(t)
<1>1. /\ pc[t] = "push count" /\ pc' = [pc EXCEPT ![t] = "out"]
      /\ cnt' = cnt + 1 /\ UNCHANGED <<store, head>>
      /\ call' = [call EXCEPT ![t] = Done("sent", NoItem)]
  BY DEF PushCount, Go, Return
<1>2. First = head /\ First' = head'
  BY <1>1, HeadIsFirst
<1>3. call[t].op = "send" /\ call[t].item = buf[t] /\ buf[t] \in Bytes
  BY <1>1 DEF IInv, ArgsKept, PlacesInPush, Bytes
<1>4. cnt < Cap /\ store[Wrap(head + cnt)] = buf[t]
  BY <1>1 DEF IInv, TestHolds, RingInv
<1>5. RingOf(store, head, cnt + 1) = Append(RingOf(store, head, cnt), buf[t])
  BY <1>3, <1>4, RingTyped, RingOfGrows
<1>6. Len(Contents) = cnt
  BY <1>2, RingTyped, RingOfIsSeq, ContentsIsRing
<1>7. Contents' = Append(Contents, call[t].item)
  BY <1>1, <1>2, <1>3, <1>5, ContentsIsRing
<1> QED BY <1>1, <1>3, <1>4, <1>6, <1>7 DEF Fifo!Send, Fifo!Done, Done

LEMMA PopCountIsRecv ==
  ASSUME IInv, NEW t \in Tasks, PopCount(t)
  PROVE  Fifo!Recv(t)
<1>1. /\ pc[t] = "pop count" /\ pc' = [pc EXCEPT ![t] = "out"]
      /\ cnt' = cnt - 1 /\ UNCHANGED <<store, head>>
      /\ call' = [call EXCEPT ![t] = Done("received", buf[t])]
  BY DEF PopCount, Go, Return
<1>2. \A u \in Tasks : u # t => pc[u] = "out"
  BY <1>1, Alone
<1>3. \A u \in Tasks : pc'[u] = "out"
  BY <1>1, <1>2 DEF IInv, TypeOK
<1>4. First' = head /\ First = (head + Cap - 1) % Cap
  BY <1>1, <1>3 DEF First, Popping
<1>5. head \in 0..(Cap - 1) /\ cnt \in 0..Cap /\ store \in Rings
  BY RingTyped
<1>6. First = Wrap(head + Cap - 1) /\ First \in 0..(Cap - 1)
  <2>1. head + Cap - 1 \in Nat /\ head + Cap - 1 < 2 * Cap
    BY <1>5, Constants
  <2> QED BY <2>1, <1>4, WrapIsMod
<1>7. Wrap(First + 1) = head
  BY <1>5, <1>6, Constants DEF Wrap
<1>8. cnt > 0 /\ store[First] = buf[t] /\ call[t].op = "recv"
  BY <1>1, <1>6 DEF IInv, TestHolds, RingInv, ArgsKept, PlacesInPop
<1>9. /\ RingOf(store, First, cnt) # <<>> /\ Head(RingOf(store, First, cnt)) = store[First]
      /\ RingOf(store, Wrap(First + 1), cnt - 1) = Tail(RingOf(store, First, cnt))
  BY <1>5, <1>6, <1>8, RingOfShrinks
<1>10. Contents # <<>> /\ Head(Contents) = buf[t] /\ Contents' = Tail(Contents)
  BY <1>1, <1>4, <1>7, <1>8, <1>9, ContentsIsRing
<1> QED BY <1>1, <1>8, <1>10 DEF Fifo!Recv, Fifo!Done, Done

(* The test refuses only what the queue must refuse.                       *)
LEMMA TestRefusesOrStutters ==
  ASSUME IInv, NEW t \in Tasks, PushTest(t) \/ PopTest(t)
  PROVE  Contents' = Contents /\ (call' = call \/ Fifo!Refuse(t))
<1>1. /\ UNCHANGED ring /\ pc[t] \in {"push test", "pop test"}
      /\ \E p \in {"out", "push store", "pop copy"} : pc' = [pc EXCEPT ![t] = p]
  BY DEF PushTest, PopTest, GiveUp, Go
<1>2. First = head /\ First' = head'
  BY <1>1, HeadIsFirst
<1>3. Contents' = Contents
  BY <1>1, <1>2, ContentsIsRing DEF ring
<1>4. Len(Contents) = cnt /\ Contents \in Seq(Bytes)
  BY <1>2, RingTyped, RingOfIsSeq, ContentsIsRing
<1>5. CASE PushTest(t) /\ call' # call
  <2>1. /\ ~ (cnt < Cap) /\ ~ call[t].wait
        /\ call' = [call EXCEPT ![t] = Done("full", NoItem)]
    BY <1>5 DEF PushTest, GiveUp, Return
  <2>2. Len(Contents) = Cap
    BY <2>1, <1>4, RingTyped, Constants
  <2>3. call[t].op = "send"
    BY <1>5 DEF PushTest, IInv, ArgsKept, PlacesInPush
  <2> QED BY <1>3, <2>1, <2>2, <2>3 DEF Fifo!Refuse, Fifo!Done, Done
<1>6. CASE PopTest(t) /\ call' # call
  <2>1. /\ ~ (cnt > 0) /\ ~ call[t].wait
        /\ call' = [call EXCEPT ![t] = Done("empty", NoItem)]
    BY <1>6 DEF PopTest, GiveUp, Return
  <2>2. Contents = <<>>
    BY <2>1, <1>4, RingTyped, Constants, EmptySeq
  <2>3. call[t].op = "recv"
    BY <1>6 DEF PopTest, IInv, ArgsKept, PlacesInPop
  <2> QED BY <1>3, <2>1, <2>2, <2>3 DEF Fifo!Refuse, Fifo!Done, Done
<1> QED BY <1>3, <1>5, <1>6

LEMMA IsrIsSendFromIsr ==
  ASSUME IInv, NEW x \in Items, QueueSendFromIsr(x)
  PROVE  Fifo!SendFromIsr(x)
<1>1. \A u \in Tasks : pc[u] = "out"
  BY Constants DEF QueueSendFromIsr, IInv, MaskHeld
<1>2. UNCHANGED <<head, pc>>
  BY DEF QueueSendFromIsr
<1>3. First = head /\ First' = head
  BY <1>1, <1>2 DEF First, Popping
<1>4. Len(Contents) = cnt /\ cnt \in 0..Cap
  BY <1>3, RingTyped, RingOfIsSeq, ContentsIsRing
<1>5. CASE cnt < Cap
  <2>1. /\ cnt' = cnt + 1 /\ store' = [store EXCEPT ![tail] = x]
        /\ call' = [call EXCEPT ![Isr] = Done("sent", NoItem)]
    BY <1>5 DEF QueueSendFromIsr, Return
  <2>2. tail = Wrap(head + cnt) /\ x \in Bytes
    BY <1>1 DEF IInv, RingInv, Bytes
  <2>3. store' \in Rings /\ RingOf(store', head, cnt) = RingOf(store, head, cnt)
    BY <1>5, <2>1, <2>2, RingTyped, RingOfGrows
  <2>4. store'[Wrap(head + cnt)] = x
    BY <2>1, <2>2, RingTyped, Constants DEF Rings, Wrap
  <2>5. RingOf(store', head, cnt + 1) = Append(RingOf(store', head, cnt), x)
    BY <1>5, <2>2, <2>3, <2>4, RingTyped, RingOfGrows
  <2>6. Contents' = Append(Contents, x)
    BY <1>3, <2>1, <2>3, <2>5, ContentsIsRing
  <2> QED BY <1>4, <1>5, <2>1, <2>6 DEF Fifo!SendFromIsr, Fifo!Done, Done
<1>6. CASE ~ (cnt < Cap)
  <2>1. UNCHANGED <<store, cnt>> /\ call' = [call EXCEPT ![Isr] = Done("full", NoItem)]
    BY <1>6 DEF QueueSendFromIsr, Return
  <2>2. Contents' = Contents /\ Len(Contents) = Cap
    BY <1>3, <1>4, <1>6, <2>1, ContentsIsRing, Constants
  <2> QED BY <2>1, <2>2 DEF Fifo!SendFromIsr, Fifo!Done, Done
<1> QED BY <1>5, <1>6

LEMMA StepSimulated == IInv /\ [Next]_vars => [Fifo!Next]_<<Contents, call>>
<1> SUFFICES ASSUME IInv, [Next]_vars PROVE [Fifo!Next]_<<Contents, call>>
  OBVIOUS
<1>1. ASSUME NEW t \in Tasks, NEW w \in BOOLEAN,
             QueueRecv(t, w) \/ \E x \in Items : QueueSend(t, x, w)
      PROVE  Fifo!Next
  BY <1>1, CallIsCall DEF Fifo!Next
<1>2. ASSUME NEW t \in Tasks, Step(t)
      PROVE  Fifo!Next \/ UNCHANGED <<Contents, call>>
  <2>1. CASE Hidden(t) \/ PopHead(t)
    BY <2>1, HiddenStutters, PopHeadStutters
  <2>2. CASE PushTest(t) \/ PopTest(t)
    BY <2>2, TestRefusesOrStutters DEF Fifo!Next
  <2>3. CASE PushCount(t) \/ PopCount(t)
    BY <2>3, PushCountIsSend, PopCountIsRecv DEF Fifo!Next
  <2> QED BY <1>2, <2>1, <2>2, <2>3 DEF Step, Hidden
<1>3. ASSUME NEW x \in Items, QueueSendFromIsr(x) PROVE Fifo!Next
  BY <1>3, IsrIsSendFromIsr DEF Fifo!Next
<1>4. ASSUME UNCHANGED vars PROVE UNCHANGED <<Contents, call>>
  BY <1>4 DEF vars, Contents, First, Popping
<1> QED BY <1>1, <1>2, <1>3, <1>4 DEF Next

LEMMA InitSimulated == Init => Fifo!Init
<1> SUFFICES ASSUME Init PROVE Fifo!Init
  OBVIOUS
<1>1. IInv /\ cnt = 0
  BY IInvInit DEF Init
<1>2. First = head
  BY DEF Init, First, Popping
<1>3. Contents \in Seq(Bytes) /\ Len(Contents) = 0
  BY <1>1, <1>2, RingTyped, RingOfIsSeq, ContentsIsRing
<1>4. Contents = <<>>
  BY <1>3, EmptySeq
<1> QED BY <1>4 DEF Init, Fifo!Init, Fifo!Callers, Callers, Fifo!Done, Done

(* The ring is a first-in first-out queue in which every call takes effect *)
(* at one moment, for any number of tasks and any length: no interleaving  *)
(* of the tasks and the handler loses, repeats, tears or reorders an item. *)
THEOREM QueueImplementsFifo == Spec => ImplementsFifo
<1>1. Init => Fifo!Init
  BY InitSimulated
<1>2. IInv /\ [Next]_vars => [Fifo!Next]_<<Contents, call>>
  BY StepSimulated
<1> QED BY <1>1, <1>2, IInvAlways, PTL DEF Spec, ImplementsFifo, Fifo!Spec
===============================================================================
