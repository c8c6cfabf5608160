------------------------------- MODULE JsonTree -------------------------------
(***************************************************************************)
(* What cJSON's items stand for, without pointers: each live item has a    *)
(* sequence of children, and an item is a child of at most one other.  An  *)
(* item that is not a child belongs to the caller or to a call that is     *)
(* still going on.                                                         *)
(***************************************************************************)
EXTENDS Naturals, Sequences, SequencesExt

CONSTANT Nodes   \* the items there is memory for

VARIABLE kids    \* the children of every live item

Children == UNION {Range(kids[n]) : n \in DOMAIN kids}
Parentless == DOMAIN kids \ Children

(* In a tree t, n and everything below it: the least that holds n and the  *)
(* children of what it holds.                                              *)
Closed(t, C) == \A x \in C : Range(t[x]) \subseteq C
Below(t, n) == {y \in DOMAIN t : \A C \in SUBSET DOMAIN t : n \in C /\ Closed(t, C) => y \in C}

TreeInit == \A n \in DOMAIN kids : kids[n] = <<>>

Create(n) ==
  /\ n \notin DOMAIN kids
  /\ kids' = [x \in DOMAIN kids \cup {n} |-> IF x = n THEN <<>> ELSE kids[x]]

(* A parentless or a new item becomes the k-th child of one that is not    *)
(* below it.                                                               *)
Insert(p, k, n) ==
  /\ n \notin Children /\ (n \in DOMAIN kids => p \notin Below(kids, n))
  /\ kids' = [x \in DOMAIN kids \cup {n} |->
                CASE x = p -> InsertAt(kids[p], k, n)
                  [] x # p /\ x \in DOMAIN kids -> kids[x]
                  [] OTHER -> <<>>]

RemoveChild(p, k) == kids' = [kids EXCEPT ![p] = RemoveAt(@, k)]

(* A parentless item takes the place of the k-th child, which is deleted   *)
(* with everything below it.                                               *)
Replace(p, k, n) ==
  LET t == [kids EXCEPT ![p] = ReplaceAt(@, k, n)]
  IN /\ n \in Parentless /\ p \notin Below(kids, n)
     /\ kids' = [x \in DOMAIN kids \ Below(t, kids[p][k]) |-> t[x]]

(* A parentless item without children gets some other parentless ones.     *)
Adopt(p) ==
  /\ p \in Parentless /\ kids[p] = <<>> /\ DOMAIN kids' = DOMAIN kids
  /\ LET s == kids'[p]
     IN /\ Range(s) \subseteq Parentless \ {p} /\ IsInjective(s)
        /\ kids' = [kids EXCEPT ![p] = s]

(* Some parentless items are deleted, each with everything below it. *)
DeleteTrees ==
  LET gone == DOMAIN kids \ DOMAIN kids'
  IN /\ gone = UNION {Below(kids, n) : n \in Parentless \cap gone}
     /\ kids' = [x \in DOMAIN kids \ gone |-> kids[x]]

TreeNext ==
  \/ DeleteTrees
  \/ \E n \in Nodes : Create(n)
  \/ \E p \in DOMAIN kids, n \in Nodes : \E k \in 1 .. Len(kids[p]) + 1 : Insert(p, k, n)
  \/ \E p \in DOMAIN kids : \E k \in 1 .. Len(kids[p]) : RemoveChild(p, k)
  \/ \E p, n \in DOMAIN kids : \E k \in 1 .. Len(kids[p]) : Replace(p, k, n)
  \/ \E p \in DOMAIN kids : Adopt(p)

TreeSpec == TreeInit /\ [][TreeNext]_kids

=============================================================================
