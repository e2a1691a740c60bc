------------------------------- MODULE NameTree --------------------------------
(***************************************************************************)
(* What the ext4 writer promises of names: directories are a tree of names *)
(* below the root, files and symbolic links are its leaves and may have    *)
(* several names, and each operation changes the names it is asked to      *)
(* change and no other, or nothing at all.                                 *)
(***************************************************************************)
CONSTANTS Nodes, Names, Root

VARIABLE tree      \* of every node in use: its kind and, of a directory, its names

NoNames == [n \in {} |-> Root]
Init == tree = [i \in {Root} |-> [kind |-> "dir", names |-> NoNames]]

Dirs == {d \in DOMAIN tree : tree[d].kind = "dir"}
NamesIn(d) == DOMAIN tree[d].names
Node(d, n) == tree[d].names[n]

(* The nodes below c, by the names in directories, and c itself: they are  *)
(* in every set that has c and with a directory the nodes it names.        *)
Below(c) ==
  {e \in Nodes : \A X \in SUBSET Nodes :
     c \in X /\ (\A d \in X \cap Dirs : \A n \in NamesIn(d) : Node(d, n) \in X) => e \in X}

With(t, d, n, c) ==
  [t EXCEPT ![d].names = [m \in DOMAIN t[d].names \cup {n} |->
                            IF m = n THEN c ELSE t[d].names[m]]]
Without(t, d, n) ==
  [t EXCEPT ![d].names = [m \in DOMAIN t[d].names \ {n} |-> t[d].names[m]]]

Make(d, n, c, kind) ==
  /\ n \notin NamesIn(d) /\ c \notin DOMAIN tree
  /\ tree' = [i \in DOMAIN tree \cup {c} |->
                IF i = c THEN [kind |-> kind, names |-> NoNames]
                         ELSE With(tree, d, n, c)[i]]

AddName(d, n, c) ==
  /\ n \notin NamesIn(d) /\ c \in DOMAIN tree \ Dirs
  /\ tree' = With(tree, d, n, c)

(* A node goes with its last name; a directory must be empty.              *)
Remove(d, n) ==
  LET c == Node(d, n)
      t == Without(tree, d, n)
      named == \E e \in Dirs : \E m \in DOMAIN t[e].names : t[e].names[m] = c
  IN /\ n \in NamesIn(d)
     /\ c \in Dirs => NamesIn(c) = {}
     /\ tree' = IF named THEN t ELSE [e \in DOMAIN t \ {c} |-> t[e]]

(* A directory does not move to a place below itself.                      *)
Move(d, n, e, m) ==
  /\ n \in NamesIn(d) /\ m \notin NamesIn(e)
  /\ Node(d, n) \in Dirs => e \notin Below(Node(d, n))
  /\ tree' = Without(With(tree, e, m, Node(d, n)), d, n)

Next ==
  \E d \in Dirs, n \in Names :
    \/ \E c \in Nodes, kind \in {"reg", "dir", "link"} : Make(d, n, c, kind)
    \/ \E c \in Nodes : AddName(d, n, c)
    \/ Remove(d, n)
    \/ \E e \in Dirs, m \in Names : Move(d, n, e, m)

Spec == Init /\ [][Next]_tree
===============================================================================
