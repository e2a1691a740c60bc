------------------------------ MODULE AtomicStore ------------------------------
(***************************************************************************)
(* What a journaled mount of ESP32S3.Ext4.FS promises: the edits made since *)
(* the last Commit become durable together, in the one step that commits   *)
(* them, or not at all.  A power cut brings back the last committed state. *)
(* Close is the exception: it writes uncommitted blocks home one by one.   *)
(***************************************************************************)

CONSTANT Blks   \* file-system blocks and the superblock's counts

VARIABLES
  durable,   \* what the next mount would find
  working,   \* what the callers of this mount see
  mode       \* "closed", "open" or "closing"

vars == <<durable, working, mode>>

AllButOneKept == \E b \in Blks : \A c \in Blks \ {b} : durable'[c] = durable[c]

Init == mode = "closed" /\ working = durable

Open == mode = "closed" /\ mode' = "open" /\ UNCHANGED <<durable, working>>

Edit == mode = "open" /\ UNCHANGED <<durable, mode>>

Commit == mode = "open" /\ durable' = working /\ UNCHANGED <<working, mode>>

BeginClose == mode = "open" /\ mode' = "closing" /\ UNCHANGED <<durable, working>>

(* One uncommitted block goes home.                                        *)
WriteHome ==
  /\ mode = "closing"
  /\ \E b \in Blks : durable' = [durable EXCEPT ![b] = working[b]]
  /\ UNCHANGED <<working, mode>>

(* The last write of Close, or the write a power cut interrupts.           *)
EndClose ==
  /\ mode = "closing" /\ mode' = "closed"
  /\ AllButOneKept
  /\ working' = durable'

PowerCut ==
  /\ mode = "open" /\ mode' = "closed"
  /\ UNCHANGED durable
  /\ working' = durable

Next ==
  Open \/ Edit \/ Commit \/ BeginClose \/ WriteHome \/ EndClose \/ PowerCut

Spec == Init /\ [][Next]_vars
===============================================================================
