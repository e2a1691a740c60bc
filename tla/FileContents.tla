----------------------------- MODULE FileContents ------------------------------
(***************************************************************************)
(* What the ext4 writer promises of the bytes of regular files: each file  *)
(* is a sequence of words that Write_File sets, Append extends and         *)
(* Truncate cuts or extends with zeros, and no other file's.               *)
(***************************************************************************)
EXTENDS Integers, Sequences

CONSTANTS
  Files,
  Data(_)      \* the word that is written to each file

VARIABLE content             \* the words of every file there is

Zeros(n) == [k \in 1..n |-> 0]
Written(f, n) == [k \in 1..n |-> Data(f)]

Init == content = <<>>

Create(f) ==
  /\ f \notin DOMAIN content
  /\ content' = [g \in DOMAIN content \cup {f} |-> IF g = f THEN <<>> ELSE content[g]]

Delete(f) ==
  /\ f \in DOMAIN content
  /\ content' = [g \in DOMAIN content \ {f} |-> content[g]]

Become(f, words) == content' = [content EXCEPT ![f] = words]

(* Each leaves the file with some number n of words.  When the volume is   *)
(* full, a file that was to be set is empty, and one that was to be        *)
(* extended has those words for which there was room.                      *)
Set(f, n) == Become(f, Written(f, n))
Extend(f, n) ==
  n >= Len(content[f]) /\ Become(f, content[f] \o Written(f, n - Len(content[f])))
Resize(f, n) ==
  Become(f, IF n <= Len(content[f]) THEN SubSeq(content[f], 1, n)
            ELSE content[f] \o Zeros(n - Len(content[f])))

Next ==
  \E f \in Files :
    \/ Create(f) \/ Delete(f)
    \/ /\ f \in DOMAIN content \cap DOMAIN content'
       /\ \E n \in {Len(content'[f])} : Set(f, n) \/ Extend(f, n) \/ Resize(f, n)

Spec == Init /\ [][Next]_content
===============================================================================
