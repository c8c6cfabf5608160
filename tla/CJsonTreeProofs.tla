---------------------------- MODULE CJsonTreeProofs ----------------------------
(***************************************************************************)
(* The items of cJSON implement the forest of JsonTree.                    *)
(***************************************************************************)
EXTENDS CJsonProofs

-----------------------------------------------------------------------------
(***************************************************************************)
(* The refinement: Kids(h) is the forest that stands behind the heap h.    *)
(* A chain of live items from the beginning of a list to an item without a *)
(* next one is that list.                                                  *)
(***************************************************************************)
Spans(g, s) ==
  /\ s \in Seq(Alive(g)) /\ Len(s) >= 1 /\ Chain(g, s) /\ g[s[Len(s)]].next = NULL

LEMMA ListIs ==
  ASSUME NEW g, Shape(g), NEW c \in Starts(g), NEW s, Spans(g, s), s[1] = c
  PROVE  ListFrom(g, c) = s
<1>1. PICK t : t = ListFrom(g, c) OBVIOUS
<1>2. /\ t \in Seq(Alive(g)) /\ Len(t) >= 1 /\ t[1] = c /\ Chain(g, t) /\ g[Last(t)].next = NULL
  BY <1>1, ListFacts
<1>3. /\ s \in Seq(Alive(g)) /\ Len(s) >= 1 /\ Chain(g, s) /\ g[s[Len(s)]].next = NULL BY DEF Spans
<1>4. PICK m \in Nat, n \in Nat : m = Len(s) /\ n = Len(t) BY <1>2, <1>3
<1>5. /\ m >= 1 /\ n >= 1 /\ g[s[m]].next = NULL /\ g[t[n]].next = NULL
      /\ \A i \in 1 .. m - 1 : g[s[i]].next = s[i + 1]
      /\ \A i \in 1 .. n - 1 : g[t[i]].next = t[i + 1]
      /\ \A i \in 1 .. m : s[i] \in Alive(g)
      /\ \A i \in 1 .. n : t[i] \in Alive(g)
      /\ NULL \notin Alive(g)
  BY <1>2, <1>3, <1>4, NullIsNoNode DEF Chain, Last, Alive
<1> DEFINE T == {k \in 0 .. m - 1 : k + 1 <= n /\ s[k + 1] = t[k + 1]}
<1>6. 0 \in T BY <1>2, <1>5
<1>7. ASSUME NEW k \in 0 .. (m - 1) - 1, k \in T PROVE k + 1 \in T
  <2>1. k + 1 \in 1 .. m - 1 /\ k + 1 <= n /\ s[k + 1] = t[k + 1] /\ k + 1 + 1 \in 1 .. m BY <1>7
  <2>2. g[s[k + 1]].next = s[k + 1 + 1] /\ s[k + 1 + 1] \in Alive(g) BY <2>1, <1>5
  <2>3. k + 1 # n BY <2>1, <2>2, <1>5
  <2>4. k + 1 \in 1 .. n - 1 /\ k + 1 + 1 <= n BY <2>1, <2>3
  <2>5. g[t[k + 1]].next = t[k + 1 + 1] BY <2>4, <1>5
  <2> QED BY <2>1, <2>2, <2>4, <2>5
<1>8. \A k \in 0 .. m - 1 : k \in T
  <2>1. m - 1 \in Nat BY <1>5
  <2> HIDE DEF T
  <2> QED BY <2>1, <1>6, <1>7, IntervalInduction
<1>9. m <= n /\ \A i \in 1 .. m : s[i] = t[i]
  <2>1. ASSUME NEW i \in 1 .. m PROVE i <= n /\ s[i] = t[i]
    <3>1. i - 1 \in 0 .. m - 1 /\ (i - 1) + 1 = i OBVIOUS
    <3>2. i - 1 \in T BY <3>1, <1>8
    <3> QED BY <3>1, <3>2
  <2>2. m \in 1 .. m BY <1>5
  <2> QED BY <2>1, <2>2
<1>10. m = n
  <2>1. SUFFICES ASSUME m # n PROVE FALSE OBVIOUS
  <2>2. m \in 1 .. n - 1 /\ m + 1 \in 1 .. n /\ m \in 1 .. m BY <2>1, <1>5, <1>9
  <2>3. g[t[m]].next = t[m + 1] /\ t[m + 1] \in Alive(g) /\ s[m] = t[m] BY <2>2, <1>5, <1>9
  <2> QED BY <2>3, <1>5
<1>11. s = t BY <1>2, <1>3, <1>4, <1>9, <1>10, SeqEqual
<1> QED BY <1>1, <1>11

Kids(h) == [n \in Alive(h) |-> IF h[n].ref THEN <<>> ELSE ListOf(h, n)]

LEMMA KidsFields ==
  ASSUME NEW h, Shape(h), NEW p \in Alive(h), NEW s, s = Kids(h)[p]
  PROVE  /\ s \in Seq(Alive(h)) /\ Len(s) \in Nat
         /\ h[p].ref \/ h[p].child = NULL => s = <<>> /\ Len(s) = 0
         /\ ~h[p].ref /\ h[p].child # NULL =>
              /\ Owner(h, p, h[p].child) /\ h[p].child \in Starts(h) /\ h[p].child \in Alive(h)
              /\ s = ListFrom(h, h[p].child)
              /\ Spans(h, s) /\ s[1] = h[p].child /\ IsInjective(s) /\ ToSet(s) = Run(h, h[p].child)
<1>1. CASE h[p].ref \/ h[p].child = NULL
  <2>1. s = <<>> BY <1>1, ListOfNothing DEF Kids, ListOf
  <2> QED BY <1>1, <2>1
<1>2. CASE ~h[p].ref /\ h[p].child # NULL
  <2>1. PICK c : c = h[p].child OBVIOUS
  <2>2. s = ListFrom(h, c) BY <1>2, <2>1 DEF Kids, ListOf
  <2>3. c \in Alive(h) /\ Owner(h, p, c) BY <1>2, <2>1, AliveFacts DEF Owner
  <2>4. c \in Starts(h) BY <2>3 DEF Shape, Firsts
  <2>5. /\ s \in Seq(Alive(h)) /\ Len(s) >= 1 /\ s[1] = c
        /\ Chain(h, s) /\ h[Last(s)].next = NULL
        /\ IsInjective(s) /\ ToSet(s) = Run(h, c)
    BY <2>2, <2>4, ListFacts
  <2>6. Spans(h, s) BY <2>5 DEF Spans, Last
  <2> QED BY <1>2, <2>1, <2>2, <2>3, <2>4, <2>5, <2>6
<1> QED BY <1>1, <1>2

(* The same items linked in the same way are the same list. *)
LEMMA SameKids ==
  ASSUME NEW h, Shape(h), NEW g, Shape(g), NEW p \in Alive(h), p \in Alive(g),
         g[p].ref = h[p].ref, ~h[p].ref => g[p].child = h[p].child,
         ~h[p].ref /\ h[p].child # NULL =>
           \A x \in Run(h, h[p].child) : x \in Alive(g) /\ g[x].next = h[x].next
  PROVE  Kids(g)[p] = Kids(h)[p]
<1>1. CASE h[p].ref \/ h[p].child = NULL
  <2>1. Kids(h)[p] = <<>> BY <1>1, KidsFields
  <2>2. Kids(g)[p] = <<>> BY <1>1, KidsFields
  <2> QED BY <2>1, <2>2
<1>2. CASE ~h[p].ref /\ h[p].child # NULL
  <2>1. PICK s, c : s = Kids(h)[p] /\ c = h[p].child OBVIOUS
  <2>2. /\ s \in Seq(Alive(h)) /\ Len(s) \in Nat /\ Spans(h, s) /\ s[1] = c /\ ToSet(s) = Run(h, c)
    BY <1>2, <2>1, KidsFields
  <2>3. g[p].child \in Starts(g) /\ Kids(g)[p] = ListFrom(g, g[p].child)
    BY <1>2, KidsFields
  <2>4. \A i \in 1 .. Len(s) : s[i] \in Alive(g) /\ g[s[i]].next = h[s[i]].next
    <3>1. ASSUME NEW i \in 1 .. Len(s) PROVE s[i] \in ToSet(s) BY <2>2 DEF ToSet
    <3> QED BY <3>1, <2>1, <2>2, <1>2
  <2>5. s \in Seq(Alive(g)) BY <2>2, <2>4, SeqAgain
  <2>6. Spans(g, s)
    <3>1. PICK n \in Nat : n = Len(s) BY <2>2
    <3>2. n >= 1 /\ h[s[n]].next = NULL /\ \A i \in 1 .. n - 1 : h[s[i]].next = s[i + 1]
      BY <3>1, <2>2 DEF Spans, Chain
    <3>3. \A i \in 1 .. n - 1 : i \in 1 .. n OBVIOUS
    <3>4. n \in 1 .. n BY <3>2
    <3>5. Chain(g, s) BY <3>1, <3>2, <3>3, <2>4 DEF Chain
    <3> QED BY <3>1, <3>2, <3>4, <3>5, <2>4, <2>5 DEF Spans
  <2>7. ListFrom(g, c) = s
    <3>1. c \in Starts(g) BY <1>2, <2>1, <2>3
    <3> QED BY <3>1, <2>2, <2>6, ListIs
  <2> QED BY <1>2, <2>1, <2>3, <2>7
<1> QED BY <1>1, <1>2

-----------------------------------------------------------------------------
(* Who is whose child. *)
ChildOf(h, x) == \E q \in Alive(h) : x \in ToSet(Kids(h)[q])

LEMMA MemberFacts ==
  ASSUME NEW h, Shape(h), NEW q \in Alive(h), NEW x \in ToSet(Kids(h)[q])
  PROVE  /\ ~h[q].ref /\ h[q].child # NULL /\ Owner(h, q, h[q].child) /\ h[q].child \in Starts(h)
         /\ x \in Run(h, h[q].child) /\ x \in Alive(h) /\ x \notin Tops(h)
         /\ (h[x].next # NULL => h[x].next \in ToSet(Kids(h)[q]))
         /\ \A p \in Alive(h) : x \in ToSet(Kids(h)[p]) => p = q
<1>1. ASSUME NEW p \in Alive(h), x \in ToSet(Kids(h)[p])
      PROVE  /\ ~h[p].ref /\ h[p].child # NULL /\ Owner(h, p, h[p].child) /\ h[p].child \in Starts(h)
             /\ h[p].child \in Alive(h) /\ ToSet(Kids(h)[p]) = Run(h, h[p].child)
  <2>1. Kids(h)[p] # <<>> BY <1>1 DEF ToSet
  <2> QED BY <2>1, KidsFields
<1>2. PICK c : c = h[q].child OBVIOUS
<1>3. /\ ~h[q].ref /\ c # NULL /\ Owner(h, q, c) /\ c \in Starts(h) /\ c \in Alive(h)
      /\ ToSet(Kids(h)[q]) = Run(h, c) /\ x \in Run(h, c)
  BY <1>1, <1>2
<1>4. /\ Run(h, c) \subseteq Alive(h) /\ NextClosed(h, Run(h, c)) BY <1>3, RunFacts
<1>5. x \notin Tops(h) BY <1>3, TopAlone
<1>6. h[x].next # NULL => h[x].next \in Run(h, c) BY <1>3, <1>4 DEF NextClosed, Alive
<1>7. ASSUME NEW p \in Alive(h), x \in ToSet(Kids(h)[p]) PROVE p = q
  <2>1. PICK d : d = h[p].child OBVIOUS
  <2>2. Owner(h, p, d) /\ d \in Starts(h) /\ x \in Run(h, d) BY <1>1, <1>7, <2>1
  <2>3. c = d BY <2>2, <1>3, RunsMeet
  <2> QED BY <2>2, <2>3, <1>3 DEF Shape, OneOwner
<1> QED BY <1>2, <1>3, <1>4, <1>5, <1>6, <1>7

(* What is no child is in the list that some top begins. *)
LEMMA OrphanFacts ==
  ASSUME NEW h, Shape(h), NEW x \in Alive(h)
  PROVE  ~ChildOf(h, x) <=> \E t \in Tops(h) : x \in Run(h, t)
<1>1. PICK c \in Starts(h) : x \in Run(h, c) BY EveryoneListed
<1>2. c \in Alive(h) BY DEF Starts
<1>3. CASE c \in Tops(h)
  <2>1. SUFFICES ASSUME NEW q \in Alive(h), x \in ToSet(Kids(h)[q]) PROVE FALSE
    BY <1>1, <1>3 DEF ChildOf
  <2>2. PICK d : d = h[q].child OBVIOUS
  <2>3. Owner(h, q, d) /\ d \in Starts(h) /\ x \in Run(h, d) BY <2>1, <2>2, MemberFacts
  <2>4. c = d BY <2>3, <1>1, RunsMeet
  <2> QED BY <2>3, <2>4, <1>3 DEF Tops
<1>4. CASE c \notin Tops(h)
  <2>1. PICK q \in Alive(h) : Owner(h, q, c) BY <1>4 DEF Tops
  <2>2. q \in Alive(h) /\ ~h[q].ref /\ h[q].child = c /\ c # NULL BY <2>1, <1>2, NullIsNoNode DEF Owner, Alive
  <2>3. x \in ToSet(Kids(h)[q]) BY <2>2, <1>1, KidsFields
  <2>4. ASSUME NEW t \in Tops(h), x \in Run(h, t) PROVE FALSE
    <3>1. t \in Starts(h) BY DEF Tops
    <3>2. c = t BY <3>1, <2>4, <1>1, RunsMeet
    <3> QED BY <3>2, <1>4
  <2> QED BY <2>2, <2>3, <2>4 DEF ChildOf
<1> QED BY <1>3, <1>4

LEMMA TopIsOrphan ==
  ASSUME NEW h, Shape(h), NEW t \in Tops(h)
  PROVE  t \in Alive(h) /\ ~ChildOf(h, t)
<1>1. t \in Alive(h) BY DEF Tops, Starts
<1>2. t \in Run(h, t) BY <1>1, RunFacts
<1> QED BY <1>1, <1>2, OrphanFacts

(* What is below n, and that everything there but n has its parent there. *)
Under(h, n) == Tree!Below(Kids(h), n)

LEMMA UnderFacts ==
  ASSUME NEW h, Shape(h), NEW n \in Alive(h), NEW B, B = Under(h, n)
  PROVE  /\ n \in B /\ B \subseteq Alive(h)
         /\ \A x \in B : ToSet(Kids(h)[x]) \subseteq B
         /\ \A C \in SUBSET Alive(h) : n \in C /\ (\A x \in C : ToSet(Kids(h)[x]) \subseteq C) => B \subseteq C
         /\ \A x \in B \ {n} : \E y \in B : x \in ToSet(Kids(h)[y])
<1>1. PICK K : K = Kids(h) OBVIOUS
<1>2. DOMAIN K = Alive(h) /\ \A x \in Alive(h) : ToSet(K[x]) \subseteq Alive(h)
  BY <1>1, MemberFacts DEF Kids
<1>3. B = {y \in Alive(h) : \A C \in SUBSET Alive(h) : n \in C /\ (\A x \in C : ToSet(K[x]) \subseteq C) => y \in C}
  BY <1>1, <1>2 DEF Under, Tree!Below, Tree!Closed, Tree!Range, ToSet
<1>4. n \in B /\ B \subseteq Alive(h) BY <1>3
<1>5. \A C \in SUBSET Alive(h) : n \in C /\ (\A x \in C : ToSet(K[x]) \subseteq C) => B \subseteq C BY <1>3
<1>6. ASSUME NEW x \in B, NEW z \in ToSet(K[x]) PROVE z \in B
  <2>1. z \in Alive(h) BY <1>2, <1>4, <1>6
  <2>2. SUFFICES ASSUME NEW C \in SUBSET Alive(h), n \in C, \A w \in C : ToSet(K[w]) \subseteq C PROVE z \in C
    BY <2>1, <1>3
  <2>3. x \in C BY <2>2, <1>5
  <2> QED BY <2>2, <2>3, <1>6
<1>7. ASSUME NEW x \in B \ {n}, \A y \in B : x \notin ToSet(K[y]) PROVE FALSE
  <2>1. B \ {x} \in SUBSET Alive(h) /\ n \in B \ {x} BY <1>4, <1>7
  <2>2. \A y \in B \ {x} : ToSet(K[y]) \subseteq B \ {x} BY <1>6, <1>7
  <2>3. B \subseteq B \ {x} BY <2>1, <2>2, <1>5
  <2> QED BY <2>3, <1>7
<1> QED BY <1>1, <1>4, <1>5, <1>6, <1>7

-----------------------------------------------------------------------------
(* What inserting, removing and replacing do to a sequence, place by place. *)
Inserting(S, s, m, k, t, u) ==
  m \in Nat /\ m = Len(s) /\ s \in Seq(S) /\ k \in 1 .. m + 1 /\ t \in S /\ u = Tree!InsertAt(s, k, t)
Removing(S, s, m, k, u) ==
  m \in Nat /\ m = Len(s) /\ s \in Seq(S) /\ k \in 1 .. m /\ u = Tree!RemoveAt(s, k)
Replacing(S, s, m, k, t, u) ==
  m \in Nat /\ m = Len(s) /\ s \in Seq(S) /\ k \in 1 .. m /\ t \in S /\ u = Tree!ReplaceAt(s, k, t)

LEMMA InsertAtFacts ==
  ASSUME NEW S, NEW s, NEW m, NEW k, NEW t, NEW u, Inserting(S, s, m, k, t, u)
  PROVE  /\ u \in Seq(S) /\ Len(u) = m + 1 /\ u[k] = t
         /\ \A i \in 1 .. k - 1 : u[i] = s[i]
         /\ \A i \in k + 1 .. m + 1 : u[i] = s[i - 1]
<1> m \in Nat /\ m = Len(s) /\ s \in Seq(S) /\ k \in 1 .. m + 1 /\ t \in S /\ u = Tree!InsertAt(s, k, t)
  BY DEF Inserting
<1>1. PICK a, b, c : a = SubSeq(s, 1, k - 1) /\ b = <<t>> /\ c = SubSeq(s, k, m) OBVIOUS
<1>2. \A i \in 1 .. m : s[i] \in S BY ElementOfSeq
<1>3. a \in Seq(S) /\ Len(a) = k - 1 /\ \A i \in 1 .. k - 1 : a[i] = s[i]
  <2>1. \A i \in 1 .. k - 1 : s[i] \in S BY <1>2
  <2> QED BY <1>1, <2>1, SubSeqProperties
<1>4. c \in Seq(S) /\ Len(c) = m - k + 1 /\ \A i \in 1 .. m - k + 1 : c[i] = s[k + i - 1]
  <2>1. \A i \in k .. m : s[i] \in S BY <1>2
  <2> QED BY <1>1, <2>1, SubSeqProperties
<1>5. b \in Seq(S) /\ Len(b) = 1 /\ b[1] = t BY <1>1
<1>6. PICK d : d = a \o b OBVIOUS
<1>7. d \in Seq(S) /\ Len(d) = k /\ d[k] = t /\ \A i \in 1 .. k - 1 : d[i] = s[i]
  <2>1. d \in Seq(S) /\ Len(d) = Len(a) + Len(b)
        /\ \A i \in 1 .. Len(a) + Len(b) : d[i] = IF i <= Len(a) THEN a[i] ELSE b[i - Len(a)]
    BY <1>3, <1>5, <1>6, ConcatProperties
  <2> QED BY <2>1, <1>3, <1>5
<1>8. u = d \o c BY <1>1, <1>6 DEF Tree!InsertAt
<1>9. u \in Seq(S) /\ Len(u) = Len(d) + Len(c)
      /\ \A i \in 1 .. Len(d) + Len(c) : u[i] = IF i <= Len(d) THEN d[i] ELSE c[i - Len(d)]
  <2>1. d \in Seq(S) /\ c \in Seq(S) BY <1>4, <1>7
  <2>2. /\ d \o c \in Seq(S) /\ Len(d \o c) = Len(d) + Len(c)
        /\ \A i \in 1 .. Len(d) + Len(c) : (d \o c)[i] = IF i <= Len(d) THEN d[i] ELSE c[i - Len(d)]
    BY <2>1, ConcatProperties, Zenon
  <2> QED BY <1>8, <2>2, Zenon
<1>10. Len(u) = m + 1 /\ u[k] = t /\ \A i \in 1 .. k - 1 : u[i] = s[i]
  <2>1. Len(u) = m + 1 BY <1>9, <1>7, <1>4
  <2> QED BY <1>9, <1>7, <1>4, <2>1
<1>11. ASSUME NEW i \in k + 1 .. m + 1 PROVE u[i] = s[i - 1]
  <2>1. i - k \in 1 .. m - k + 1 /\ i \in 1 .. Len(d) + Len(c) /\ ~(i <= Len(d)) BY <1>7, <1>4
  <2>2. u[i] = c[i - k] BY <2>1, <1>9, <1>7
  <2>3. c[i - k] = s[k + (i - k) - 1] BY <2>1, <1>4
  <2>4. k + (i - k) - 1 = i - 1 OBVIOUS
  <2> QED BY <2>2, <2>3, <2>4
<1> QED BY <1>9, <1>10, <1>11

LEMMA RemoveAtFacts ==
  ASSUME NEW S, NEW s, NEW m, NEW k, NEW u, Removing(S, s, m, k, u)
  PROVE  /\ u \in Seq(S) /\ Len(u) = m - 1
         /\ \A i \in 1 .. k - 1 : u[i] = s[i]
         /\ \A i \in k .. m - 1 : u[i] = s[i + 1]
<1> m \in Nat /\ m = Len(s) /\ s \in Seq(S) /\ k \in 1 .. m /\ u = Tree!RemoveAt(s, k) BY DEF Removing
<1>1. PICK a, c : a = SubSeq(s, 1, k - 1) /\ c = SubSeq(s, k + 1, m) OBVIOUS
<1>2. \A i \in 1 .. m : s[i] \in S BY ElementOfSeq
<1>3. a \in Seq(S) /\ Len(a) = k - 1 /\ \A i \in 1 .. k - 1 : a[i] = s[i]
  <2>1. \A i \in 1 .. k - 1 : s[i] \in S BY <1>2
  <2> QED BY <1>1, <2>1, SubSeqProperties
<1>4. c \in Seq(S) /\ Len(c) = m - k /\ \A i \in 1 .. m - k : c[i] = s[k + i]
  <2>1. \A i \in k + 1 .. m : s[i] \in S BY <1>2
  <2>2. c \in Seq(S) /\ Len(c) = (IF k + 1 <= m THEN m - (k + 1) + 1 ELSE 0)
        /\ \A i \in 1 .. m - (k + 1) + 1 : c[i] = s[(k + 1) + i - 1]
    <3>1. k + 1 \in Int /\ m \in Int OBVIOUS
    <3> QED BY <1>1, <2>1, <3>1, SubSeqProperties
  <2>3. Len(c) = m - k BY <2>2
  <2>4. ASSUME NEW i \in 1 .. m - k PROVE c[i] = s[k + i]
    <3>1. i \in 1 .. m - (k + 1) + 1 /\ (k + 1) + i - 1 = k + i OBVIOUS
    <3>2. c[i] = s[(k + 1) + i - 1] BY <3>1, <2>2
    <3> QED BY <3>1, <3>2
  <2> QED BY <2>2, <2>3, <2>4
<1>5. u = a \o c BY <1>1 DEF Tree!RemoveAt
<1>6. u \in Seq(S) /\ Len(u) = Len(a) + Len(c)
      /\ \A i \in 1 .. Len(a) + Len(c) : u[i] = IF i <= Len(a) THEN a[i] ELSE c[i - Len(a)]
  <2>1. a \in Seq(S) /\ c \in Seq(S) BY <1>3, <1>4
  <2>2. /\ a \o c \in Seq(S) /\ Len(a \o c) = Len(a) + Len(c)
        /\ \A i \in 1 .. Len(a) + Len(c) : (a \o c)[i] = IF i <= Len(a) THEN a[i] ELSE c[i - Len(a)]
    BY <2>1, ConcatProperties, Zenon
  <2> QED BY <1>5, <2>2, Zenon
<1>7. Len(u) = m - 1 /\ \A i \in 1 .. k - 1 : u[i] = s[i]
  <2>1. Len(u) = m - 1 BY <1>6, <1>3, <1>4
  <2>2. ASSUME NEW i \in 1 .. k - 1 PROVE u[i] = s[i]
    <3>1. i \in 1 .. Len(a) + Len(c) /\ i <= Len(a) BY <1>3, <1>4
    <3>2. u[i] = a[i] BY <3>1, <1>6
    <3> QED BY <3>2, <1>3
  <2> QED BY <2>1, <2>2
<1>8. ASSUME NEW i \in k .. m - 1 PROVE u[i] = s[i + 1]
  <2>1. i - (k - 1) \in 1 .. m - k /\ i \in 1 .. Len(a) + Len(c) /\ ~(i <= Len(a)) BY <1>3, <1>4
  <2>2. u[i] = c[i - (k - 1)] BY <2>1, <1>6, <1>3
  <2>3. c[i - (k - 1)] = s[k + (i - (k - 1))] BY <2>1, <1>4
  <2>4. k + (i - (k - 1)) = i + 1 OBVIOUS
  <2> QED BY <2>2, <2>3, <2>4
<1> QED BY <1>6, <1>7, <1>8

LEMMA ReplaceAtFacts ==
  ASSUME NEW S, NEW s, NEW m, NEW k, NEW t, NEW u, Replacing(S, s, m, k, t, u)
  PROVE  /\ u \in Seq(S) /\ Len(u) = m /\ u[k] = t
         /\ \A i \in (1 .. m) \ {k} : u[i] = s[i]
<1> m \in Nat /\ m = Len(s) /\ s \in Seq(S) /\ k \in 1 .. m /\ t \in S /\ u = Tree!ReplaceAt(s, k, t)
  BY DEF Replacing
<1>1. u = [s EXCEPT ![k] = t] BY DEF Tree!ReplaceAt
<1> QED BY <1>1, ExceptSeq

-----------------------------------------------------------------------------
(* A heap in which at most the list of p has changed, and lists that       *)
(* nobody owns.                                                            *)
EditedAt(h, g, p) ==
  /\ Shape(h) /\ Shape(g) /\ p \in Alive(h) /\ Alive(g) = Alive(h)
  /\ \A x \in Alive(h) : g[x].ref = h[x].ref
  /\ \A x \in Alive(h) \ {p} : g[x].child = h[x].child
  /\ \A x \in Alive(h) : g[x].next # h[x].next => x \in ToSet(Kids(h)[p]) \/ x \in Tops(h)

LEMMA OthersKeep ==
  ASSUME NEW h, NEW g, NEW p, EditedAt(h, g, p), NEW q \in Alive(h) \ {p}
  PROVE  Kids(g)[q] = Kids(h)[q]
<1>1. /\ Shape(h) /\ Shape(g) /\ p \in Alive(h) /\ q \in Alive(h) /\ q \in Alive(g)
      /\ g[q].ref = h[q].ref /\ g[q].child = h[q].child
  BY DEF EditedAt
<1>2. ASSUME ~h[q].ref, h[q].child # NULL, NEW x \in Run(h, h[q].child)
      PROVE  x \in Alive(g) /\ g[x].next = h[x].next
  <2>1. x \in ToSet(Kids(h)[q]) BY <1>1, <1>2, KidsFields
  <2>2. x \in Alive(h) /\ x \notin Tops(h) /\ x \notin ToSet(Kids(h)[p]) BY <1>1, <2>1, MemberFacts
  <2> QED BY <2>2 DEF EditedAt
<1> QED BY <1>1, <1>2, SameKids

LEMMA KidsChange ==
  ASSUME NEW h, NEW g, NEW p, EditedAt(h, g, p)
  PROVE  Kids(g) = [Kids(h) EXCEPT ![p] = Kids(g)[p]]
<1>1. Alive(g) = Alive(h) /\ p \in Alive(h) BY DEF EditedAt
<1>2. \A q \in Alive(h) \ {p} : Kids(g)[q] = Kids(h)[q] BY OthersKeep
<1>3. Kids(g) = [q \in Alive(h) |-> Kids(g)[q]] BY <1>1 DEF Kids
<1>4. DOMAIN Kids(h) = Alive(h) BY DEF Kids
<1>5. [Kids(h) EXCEPT ![p] = Kids(g)[p]] = [q \in Alive(h) |-> IF q = p THEN Kids(g)[p] ELSE Kids(h)[q]] BY <1>4
<1>6. PICK f, k : f = Kids(g) /\ k = Kids(h) OBVIOUS
<1> QED BY <1>2, <1>3, <1>5, <1>6

(* The list of p in g is the chain that begins at its child. *)
LEMMA KidsSpan ==
  ASSUME NEW g, Shape(g), NEW p \in Alive(g), ~g[p].ref, NEW u, Spans(g, u), g[p].child = u[1]
  PROVE  Kids(g)[p] = u
<1>1. u \in Seq(Alive(g)) /\ Len(u) >= 1 BY DEF Spans
<1>2. u[1] \in Alive(g) BY <1>1
<1>3. g[p].child # NULL BY <1>2, NullIsNoNode DEF Alive
<1>4. PICK c : c = g[p].child OBVIOUS
<1>5. c \in Starts(g) /\ Kids(g)[p] = ListFrom(g, c) BY <1>3, <1>4, KidsFields
<1>6. u[1] = c BY <1>4
<1> QED BY <1>5, <1>6, ListIs

PutIn(h, g, p, s, k, t) ==
  /\ Shape(h) /\ Shape(g) /\ p \in Alive(h) /\ Alive(g) = Alive(h) /\ ~h[p].ref
  /\ t \in Tops(h) /\ h[t].next = NULL /\ s = Kids(h)[p] /\ k \in 1 .. Len(s) + 1
  /\ \A x \in Alive(h) :
       /\ g[x].ref = h[x].ref
       /\ g[x].child = IF x = p /\ k = 1 THEN t ELSE h[x].child
       /\ g[x].next = IF k > 1 /\ x = s[k - 1] THEN t
                      ELSE IF x = t THEN (IF k <= Len(s) THEN s[k] ELSE NULL) ELSE h[x].next

(* What the list of p is: its members are live, different and in a chain. *)
ListOfItems(h, p, s, m) ==
  /\ m \in Nat /\ m = Len(s) /\ s \in Seq(Alive(h)) /\ \A i \in 1 .. m : s[i] \in Alive(h) /\ s[i] \in ToSet(s)
  /\ \A i, j \in 1 .. m : s[i] = s[j] => i = j
  /\ \A i \in 1 .. m - 1 : h[s[i]].next = s[i + 1]
  /\ m # 0 => h[s[m]].next = NULL /\ h[p].child = s[1]
  /\ m = 0 /\ ~h[p].ref => h[p].child = NULL
  /\ \A t \in Tops(h) : \A i \in 1 .. m : s[i] # t

LEMMA ListItems ==
  ASSUME NEW h, Shape(h), NEW p \in Alive(h), NEW s, s = Kids(h)[p]
  PROVE  \E m : ListOfItems(h, p, s, m)
<1>1. s \in Seq(Alive(h)) /\ Len(s) \in Nat BY KidsFields
<1>2. PICK m \in Nat : m = Len(s) BY <1>1
<1>3. \A i \in 1 .. m : s[i] \in Alive(h) /\ s[i] \in ToSet(s) BY <1>1, <1>2 DEF ToSet
<1>4. \A t \in Tops(h) : \A i \in 1 .. m : s[i] # t BY <1>3, MemberFacts
<1>5. CASE h[p].ref \/ h[p].child = NULL
  <2>1. m = 0 BY <1>2, <1>5, KidsFields
  <2> QED BY <2>1, <1>1, <1>2, <1>3, <1>4, <1>5 DEF ListOfItems
<1>6. CASE ~h[p].ref /\ h[p].child # NULL
  <2>1. Spans(h, s) /\ s[1] = h[p].child /\ IsInjective(s) BY <1>6, KidsFields
  <2>2. \A i, j \in 1 .. m : s[i] = s[j] => i = j BY <2>1, <1>1, <1>2 DEF IsInjective
  <2>3. m >= 1 /\ h[s[m]].next = NULL /\ \A i \in 1 .. m - 1 : h[s[i]].next = s[i + 1]
    BY <2>1, <1>2 DEF Spans, Chain
  <2> QED BY <2>1, <2>2, <2>3, <1>1, <1>2, <1>3, <1>4, SMTT(30) DEF ListOfItems
<1> QED BY <1>5, <1>6

LEMMA KidInserted ==
  ASSUME NEW h, NEW g, NEW p, NEW s, NEW k, NEW t, PutIn(h, g, p, s, k, t)
  PROVE  Kids(g) = [Kids(h) EXCEPT ![p] = Tree!InsertAt(s, k, t)]
<1>1. /\ Shape(h) /\ Shape(g) /\ p \in Alive(h) /\ Alive(g) = Alive(h) /\ ~h[p].ref
      /\ t \in Tops(h) /\ h[t].next = NULL /\ s = Kids(h)[p] /\ k \in 1 .. Len(s) + 1
  BY DEF PutIn
<1>2. PICK m : ListOfItems(h, p, s, m) BY <1>1, ListItems
<1>3. /\ m \in Nat /\ m = Len(s) /\ s \in Seq(Alive(h)) /\ \A i \in 1 .. m : s[i] \in Alive(h) /\ s[i] \in ToSet(s)
      /\ \A i, j \in 1 .. m : s[i] = s[j] => i = j
      /\ \A i \in 1 .. m - 1 : h[s[i]].next = s[i + 1]
      /\ m # 0 => h[s[m]].next = NULL /\ h[p].child = s[1]
      /\ \A i \in 1 .. m : s[i] # t
      /\ k \in 1 .. m + 1 /\ t \in Alive(h)
  BY <1>1, <1>2 DEF ListOfItems, Tops, Starts
<1>4. \A x \in Alive(h) :
       /\ g[x].ref = h[x].ref
       /\ g[x].child = IF x = p /\ k = 1 THEN t ELSE h[x].child
       /\ g[x].next = IF k > 1 /\ x = s[k - 1] THEN t
                      ELSE IF x = t THEN (IF k <= m THEN s[k] ELSE NULL) ELSE h[x].next
  BY <1>3 DEF PutIn
<1>5. EditedAt(h, g, p)
  <2>1. ASSUME NEW x \in Alive(h), g[x].next # h[x].next PROVE x \in ToSet(s) \/ x \in Tops(h)
    <3>1. (k > 1 /\ x = s[k - 1]) \/ x = t BY <2>1, <1>4
    <3>2. k > 1 => k - 1 \in 1 .. m BY <1>3
    <3> QED BY <3>1, <3>2, <1>1, <1>3
  <2> QED BY <2>1, <1>1, <1>4 DEF EditedAt
<1>6. PICK u : u = Tree!InsertAt(s, k, t) OBVIOUS
<1>7. /\ u \in Seq(Alive(h)) /\ Len(u) = m + 1 /\ u[k] = t
      /\ \A i \in 1 .. k - 1 : u[i] = s[i]
      /\ \A i \in k + 1 .. m + 1 : u[i] = s[i - 1]
  <2>1. Inserting(Alive(h), s, m, k, t, u) BY <1>3, <1>6 DEF Inserting
  <2> QED BY <2>1, InsertAtFacts
<1>8. u[1] = g[p].child
  <2>1. CASE k = 1 BY <2>1, <1>1, <1>4, <1>7
  <2>2. CASE k # 1
    <3>1. m # 0 /\ 1 \in 1 .. k - 1 BY <2>2, <1>3
    <3> QED BY <3>1, <2>2, <1>1, <1>3, <1>4, <1>7
  <2> QED BY <2>1, <2>2
<1>9. ASSUME NEW i \in 1 .. m PROVE g[u[i]].next = u[i + 1]
  <2>1. CASE i < k - 1
    <3>1. i \in 1 .. k - 1 /\ i + 1 \in 1 .. k - 1 /\ i # k - 1 /\ k - 1 \in 1 .. m /\ i \in 1 .. m - 1
      BY <2>1, <1>3
    <3>2. u[i] = s[i] /\ u[i + 1] = s[i + 1] BY <3>1, <1>7
    <3>3. s[i] # s[k - 1] /\ s[i] # t /\ s[i] \in Alive(h) BY <3>1, <1>3, <1>9
    <3>4. g[s[i]].next = h[s[i]].next BY <3>3, <1>4
    <3> QED BY <3>1, <3>2, <3>4, <1>3
  <2>2. CASE i = k - 1
    <3>1. i \in 1 .. k - 1 /\ k > 1 /\ i + 1 = k BY <2>2, <1>3
    <3>2. u[i] = s[k - 1] /\ u[i + 1] = t
      <4>1. u[i] = s[i] BY <3>1, <1>7
      <4>2. s[i] = s[k - 1] BY <2>2
      <4>3. u[i + 1] = u[k] BY <3>1
      <4> QED BY <4>1, <4>2, <4>3, <1>7
    <3>3. s[k - 1] \in Alive(h) BY <2>2, <1>3, <1>9
    <3> QED BY <3>1, <3>2, <3>3, <1>4
  <2>3. CASE i = k
    <3>1. i + 1 \in k + 1 .. m + 1 /\ (i + 1) - 1 = k /\ k <= m BY <2>3, <1>3, <1>9
    <3>2. u[i] = t /\ u[i + 1] = s[k] BY <3>1, <2>3, <1>7
    <3>3. ~(k > 1 /\ t = s[k - 1])
      <4>1. k > 1 => k - 1 \in 1 .. m BY <1>3
      <4> QED BY <4>1, <1>3
    <3> QED BY <3>1, <3>2, <3>3, <1>3, <1>4
  <2>4. CASE i > k
    <3>1. /\ i \in k + 1 .. m + 1 /\ i + 1 \in k + 1 .. m + 1 /\ (i + 1) - 1 = i
          /\ i - 1 \in 1 .. m - 1 /\ (i - 1) + 1 = i /\ i - 1 \in 1 .. m /\ i - 1 # k - 1
          /\ k > 1 => k - 1 \in 1 .. m
      BY <2>4, <1>3, <1>9
    <3>2. u[i] = s[i - 1] /\ u[i + 1] = s[i] BY <3>1, <1>7
    <3>3. s[i - 1] # t /\ s[i - 1] \in Alive(h) /\ (k > 1 => s[i - 1] # s[k - 1]) BY <3>1, <1>3
    <3>4. g[s[i - 1]].next = h[s[i - 1]].next BY <3>3, <1>4
    <3>5. h[s[i - 1]].next = s[i] BY <3>1, <1>3
    <3> QED BY <3>2, <3>4, <3>5
  <2> QED BY <2>1, <2>2, <2>3, <2>4, <1>3
<1>10. g[u[m + 1]].next = NULL
  <2>1. CASE k = m + 1
    <3>1. u[m + 1] = t /\ ~(k <= m) BY <2>1, <1>3, <1>7
    <3>2. ~(k > 1 /\ t = s[k - 1])
      <4>1. k > 1 => k - 1 \in 1 .. m BY <1>3
      <4> QED BY <4>1, <1>3
    <3> QED BY <3>1, <3>2, <1>3, <1>4
  <2>2. CASE k # m + 1
    <3>1. m + 1 \in k + 1 .. m + 1 /\ (m + 1) - 1 = m /\ m \in 1 .. m /\ m # k - 1 /\ (k > 1 => k - 1 \in 1 .. m)
      BY <2>2, <1>3
    <3>2. u[m + 1] = s[m] BY <3>1, <1>7
    <3>3. s[m] # t /\ s[m] \in Alive(h) /\ (k > 1 => s[m] # s[k - 1]) BY <3>1, <1>3
    <3>4. g[s[m]].next = h[s[m]].next /\ m # 0 BY <3>1, <3>3, <1>4
    <3> QED BY <3>2, <3>4, <1>3
  <2> QED BY <2>1, <2>2
<1>11. Spans(g, u)
  <2>1. m + 1 >= 1 /\ (m + 1) - 1 = m BY <1>3
  <2> QED BY <2>1, <1>1, <1>7, <1>9, <1>10 DEF Spans, Chain
<1>12. Kids(g)[p] = u
  <2>1. p \in Alive(g) /\ ~g[p].ref BY <1>1, <1>4
  <2> QED BY <2>1, <1>1, <1>8, <1>11, KidsSpan
<1> QED BY <1>5, <1>6, <1>12, KidsChange

TakenOut(h, g, p, s, k) ==
  /\ Shape(h) /\ Shape(g) /\ p \in Alive(h) /\ Alive(g) = Alive(h) /\ ~h[p].ref
  /\ s = Kids(h)[p] /\ k \in 1 .. Len(s)
  /\ \A x \in Alive(h) :
       /\ g[x].ref = h[x].ref
       /\ g[x].child = IF x = p /\ k = 1 THEN h[s[1]].next ELSE h[x].child
       /\ g[x].next = IF x = s[k] THEN NULL
                      ELSE IF k > 1 /\ x = s[k - 1] THEN h[s[k]].next ELSE h[x].next

LEMMA KidRemoved ==
  ASSUME NEW h, NEW g, NEW p, NEW s, NEW k, TakenOut(h, g, p, s, k)
  PROVE  Kids(g) = [Kids(h) EXCEPT ![p] = Tree!RemoveAt(s, k)]
<1>1. /\ Shape(h) /\ Shape(g) /\ p \in Alive(h) /\ Alive(g) = Alive(h) /\ ~h[p].ref
      /\ s = Kids(h)[p] /\ k \in 1 .. Len(s)
  BY DEF TakenOut
<1>2. PICK m : ListOfItems(h, p, s, m) BY <1>1, ListItems
<1>3. /\ m \in Nat /\ m = Len(s) /\ s \in Seq(Alive(h)) /\ \A i \in 1 .. m : s[i] \in Alive(h) /\ s[i] \in ToSet(s)
      /\ \A i, j \in 1 .. m : s[i] = s[j] => i = j
      /\ \A i \in 1 .. m - 1 : h[s[i]].next = s[i + 1]
      /\ m # 0 /\ h[s[m]].next = NULL /\ h[p].child = s[1]
      /\ k \in 1 .. m
  BY <1>1, <1>2 DEF ListOfItems
<1>4. \A x \in Alive(h) :
       /\ g[x].ref = h[x].ref
       /\ g[x].child = IF x = p /\ k = 1 THEN h[s[1]].next ELSE h[x].child
       /\ g[x].next = IF x = s[k] THEN NULL
                      ELSE IF k > 1 /\ x = s[k - 1] THEN h[s[k]].next ELSE h[x].next
  BY DEF TakenOut
<1>5. EditedAt(h, g, p)
  <2>1. ASSUME NEW x \in Alive(h), g[x].next # h[x].next PROVE x \in ToSet(s)
    <3>1. (k > 1 /\ x = s[k - 1]) \/ x = s[k] BY <2>1, <1>4
    <3>2. k > 1 => k - 1 \in 1 .. m BY <1>3
    <3> QED BY <3>1, <3>2, <1>1, <1>3
  <2> QED BY <2>1, <1>1, <1>4 DEF EditedAt
<1>6. PICK u : u = Tree!RemoveAt(s, k) OBVIOUS
<1>7. /\ u \in Seq(Alive(h)) /\ Len(u) = m - 1
      /\ \A i \in 1 .. k - 1 : u[i] = s[i]
      /\ \A i \in k .. m - 1 : u[i] = s[i + 1]
  <2>1. Removing(Alive(h), s, m, k, u) BY <1>3, <1>6 DEF Removing
  <2> QED BY <2>1, RemoveAtFacts
<1>8. CASE m = 1
  <2>1. k = 1 /\ h[s[1]].next = NULL BY <1>8, <1>3
  <2>2. g[p].child = NULL /\ p \in Alive(g) BY <2>1, <1>1, <1>4
  <2>3. Kids(g)[p] = <<>> BY <2>2, <1>1, KidsFields
  <2>4. u = <<>> BY <1>7, <1>8
  <2> QED BY <2>3, <2>4, <1>5, <1>6, KidsChange
<1>9. CASE m # 1
  <2>1. u[1] = g[p].child
    <3>1. CASE k = 1
      <4>1. 1 \in k .. m - 1 /\ 1 \in 1 .. m - 1 /\ 1 + 1 = 2 BY <3>1, <1>3, <1>9
      <4>2. u[1] = s[2] /\ h[s[1]].next = s[2] BY <4>1, <1>3, <1>7
      <4> QED BY <4>2, <3>1, <1>1, <1>4
    <3>2. CASE k # 1
      <4>1. 1 \in 1 .. k - 1 BY <3>2, <1>3
      <4> QED BY <4>1, <3>2, <1>1, <1>3, <1>4, <1>7
    <3> QED BY <3>1, <3>2
  <2>2. ASSUME NEW i \in 1 .. m - 2 PROVE g[u[i]].next = u[i + 1]
    <3>1. CASE i < k - 1
      <4>1. /\ i \in 1 .. k - 1 /\ i + 1 \in 1 .. k - 1 /\ i # k - 1 /\ i # k /\ k - 1 \in 1 .. m
            /\ i \in 1 .. m - 1 /\ i \in 1 .. m
        BY <3>1, <1>3, <2>2
      <4>2. u[i] = s[i] /\ u[i + 1] = s[i + 1] BY <4>1, <1>7
      <4>3. s[i] # s[k - 1] /\ s[i] # s[k] /\ s[i] \in Alive(h) BY <4>1, <1>3
      <4>4. g[s[i]].next = h[s[i]].next BY <4>3, <1>4
      <4> QED BY <4>1, <4>2, <4>4, <1>3
    <3>2. CASE i = k - 1
      <4>1. /\ i \in 1 .. k - 1 /\ k > 1 /\ i + 1 = k /\ k \in k .. m - 1 /\ k \in 1 .. m - 1
            /\ k - 1 \in 1 .. m /\ k - 1 # k /\ i \in 1 .. m
        BY <3>2, <1>3, <2>2
      <4>2. u[i] = s[i] BY <4>1, <1>7
      <4>3. u[k] = s[k + 1] BY <4>1, <1>7
      <4>4. s[k - 1] # s[k] /\ s[k - 1] \in Alive(h) BY <4>1, <1>3
      <4>5. g[s[k - 1]].next = h[s[k]].next BY <4>1, <4>4, <1>4
      <4>6. h[s[k]].next = s[k + 1] BY <4>1, <1>3
      <4>7. u[i + 1] = u[k] /\ s[i] = s[k - 1] BY <4>1, <3>2
      <4> QED BY <4>2, <4>3, <4>5, <4>6, <4>7
    <3>3. CASE i >= k
      <4>1. /\ i \in k .. m - 1 /\ i + 1 \in k .. m - 1 /\ i + 1 \in 1 .. m - 1 /\ i + 1 \in 1 .. m
            /\ i + 1 # k /\ i + 1 # k - 1 /\ (k > 1 => k - 1 \in 1 .. m)
        BY <3>3, <1>3, <2>2
      <4>2. u[i] = s[i + 1] BY <4>1, <1>7
      <4>3. u[i + 1] = s[(i + 1) + 1] BY <4>1, <1>7
      <4>4. s[i + 1] # s[k] /\ s[i + 1] \in Alive(h) /\ (k > 1 => s[i + 1] # s[k - 1]) BY <4>1, <1>3
      <4>5. g[s[i + 1]].next = h[s[i + 1]].next BY <4>4, <1>4
      <4>6. h[s[i + 1]].next = s[(i + 1) + 1] BY <4>1, <1>3
      <4> QED BY <4>2, <4>3, <4>5, <4>6
    <3> QED BY <3>1, <3>2, <3>3, <1>3
  <2>3. g[u[m - 1]].next = NULL
    <3>1. CASE k = m
      <4>1. m - 1 \in 1 .. k - 1 /\ k > 1 /\ m - 1 = k - 1 /\ k - 1 \in 1 .. m /\ k - 1 # k BY <3>1, <1>3, <1>9
      <4>2. u[m - 1] = s[m - 1] BY <4>1, <1>7
      <4>3. s[k - 1] # s[k] /\ s[k - 1] \in Alive(h) BY <4>1, <1>3
      <4>4. g[s[k - 1]].next = h[s[k]].next BY <4>1, <4>3, <1>4
      <4>5. h[s[k]].next = NULL /\ s[m - 1] = s[k - 1] BY <3>1, <4>1, <1>3
      <4> QED BY <4>2, <4>4, <4>5
    <3>2. CASE k # m
      <4>1. m - 1 \in k .. m - 1 /\ (m - 1) + 1 = m /\ m \in 1 .. m /\ m # k /\ m # k - 1 /\ (k > 1 => k - 1 \in 1 .. m)
        BY <3>2, <1>3
      <4>2. u[m - 1] = s[m] BY <4>1, <1>7, SMTT(30)
      <4>3. s[m] # s[k] /\ s[m] \in Alive(h) /\ (k > 1 => s[m] # s[k - 1]) BY <4>1, <1>3
      <4>4. g[s[m]].next = h[s[m]].next BY <4>3, <1>4
      <4> QED BY <4>2, <4>4, <1>3
    <3> QED BY <3>1, <3>2
  <2>4. Spans(g, u)
    <3>1. m - 1 >= 1 /\ (m - 1) - 1 = m - 2 BY <1>3, <1>9
    <3> QED BY <3>1, <1>1, <1>7, <2>2, <2>3 DEF Spans, Chain
  <2>5. Kids(g)[p] = u
    <3>1. p \in Alive(g) /\ ~g[p].ref BY <1>1, <1>4
    <3> QED BY <3>1, <1>1, <2>1, <2>4, KidsSpan
  <2> QED BY <2>5, <1>5, <1>6, KidsChange
<1> QED BY <1>8, <1>9

SwappedFor(h, g, p, s, k, t) ==
  /\ Shape(h) /\ Shape(g) /\ p \in Alive(h) /\ Alive(g) = Alive(h) /\ ~h[p].ref
  /\ t \in Tops(h) /\ h[t].next = NULL /\ s = Kids(h)[p] /\ k \in 1 .. Len(s)
  /\ \A x \in Alive(h) :
       /\ g[x].ref = h[x].ref
       /\ g[x].child = IF x = p /\ k = 1 THEN t ELSE h[x].child
       /\ g[x].next = IF x = s[k] THEN NULL ELSE IF k > 1 /\ x = s[k - 1] THEN t
                      ELSE IF x = t THEN h[s[k]].next ELSE h[x].next

LEMMA KidReplaced ==
  ASSUME NEW h, NEW g, NEW p, NEW s, NEW k, NEW t, SwappedFor(h, g, p, s, k, t)
  PROVE  Kids(g) = [Kids(h) EXCEPT ![p] = Tree!ReplaceAt(s, k, t)]
<1>1. /\ Shape(h) /\ Shape(g) /\ p \in Alive(h) /\ Alive(g) = Alive(h) /\ ~h[p].ref
      /\ t \in Tops(h) /\ s = Kids(h)[p] /\ k \in 1 .. Len(s)
  BY DEF SwappedFor
<1>2. PICK m : ListOfItems(h, p, s, m) BY <1>1, ListItems
<1>3. /\ m \in Nat /\ m = Len(s) /\ s \in Seq(Alive(h)) /\ \A i \in 1 .. m : s[i] \in Alive(h) /\ s[i] \in ToSet(s)
      /\ \A i, j \in 1 .. m : s[i] = s[j] => i = j
      /\ \A i \in 1 .. m - 1 : h[s[i]].next = s[i + 1]
      /\ m # 0 /\ h[s[m]].next = NULL /\ h[p].child = s[1]
      /\ \A i \in 1 .. m : s[i] # t
      /\ k \in 1 .. m /\ t \in Alive(h)
  BY <1>1, <1>2 DEF ListOfItems, Tops, Starts
<1>4. \A x \in Alive(h) :
       /\ g[x].ref = h[x].ref
       /\ g[x].child = IF x = p /\ k = 1 THEN t ELSE h[x].child
       /\ g[x].next = IF x = s[k] THEN NULL ELSE IF k > 1 /\ x = s[k - 1] THEN t
                      ELSE IF x = t THEN h[s[k]].next ELSE h[x].next
  BY DEF SwappedFor
<1>5. EditedAt(h, g, p)
  <2>1. ASSUME NEW x \in Alive(h), g[x].next # h[x].next PROVE x \in ToSet(s) \/ x \in Tops(h)
    <3>1. (k > 1 /\ x = s[k - 1]) \/ x = s[k] \/ x = t BY <2>1, <1>4
    <3>2. k > 1 => k - 1 \in 1 .. m BY <1>3
    <3> QED BY <3>1, <3>2, <1>1, <1>3
  <2> QED BY <2>1, <1>1, <1>4 DEF EditedAt
<1>6. PICK u : u = Tree!ReplaceAt(s, k, t) OBVIOUS
<1>7. /\ u \in Seq(Alive(h)) /\ Len(u) = m /\ u[k] = t
      /\ \A i \in (1 .. m) \ {k} : u[i] = s[i]
  <2>1. Replacing(Alive(h), s, m, k, t, u) BY <1>3, <1>6 DEF Replacing
  <2> QED BY <2>1, ReplaceAtFacts
<1>8. g[t].next = h[s[k]].next
  <2>1. t # s[k] /\ ~(k > 1 /\ t = s[k - 1])
    <3>1. k > 1 => k - 1 \in 1 .. m BY <1>3
    <3> QED BY <3>1, <1>3
  <2> QED BY <2>1, <1>3, <1>4
<1>9. u[1] = g[p].child
  <2>1. CASE k = 1 BY <2>1, <1>1, <1>4, <1>7
  <2>2. CASE k # 1
    <3>1. 1 \in (1 .. m) \ {k} BY <2>2, <1>3
    <3> QED BY <3>1, <2>2, <1>1, <1>3, <1>4, <1>7
  <2> QED BY <2>1, <2>2
<1>10. ASSUME NEW i \in 1 .. m - 1 PROVE g[u[i]].next = u[i + 1]
  <2>1. h[s[i]].next = s[i + 1] /\ i \in 1 .. m /\ i + 1 \in 1 .. m /\ s[i] \in Alive(h) BY <1>3, <1>10
  <2>2. CASE i = k
    <3>1. i + 1 # k /\ u[i] = t /\ h[s[k]].next = s[i + 1] BY <2>1, <2>2, <1>3, <1>7
    <3>2. u[i + 1] = s[i + 1] BY <3>1, <2>1, <1>7
    <3> QED BY <3>1, <3>2, <1>8
  <2>3. CASE i = k - 1
    <3>1. i # k /\ k > 1 /\ i + 1 = k BY <2>3, <1>3
    <3>2. u[i] = s[i] /\ u[i + 1] = t
      <4>1. u[i + 1] = u[k] BY <3>1
      <4> QED BY <4>1, <3>1, <2>1, <1>7
    <3>3. s[i] # s[k] /\ s[i] = s[k - 1] BY <2>1, <2>3, <3>1, <1>3
    <3>4. g[s[i]].next = t BY <3>1, <3>3, <2>1, <1>4
    <3> QED BY <3>2, <3>4
  <2>4. CASE i # k /\ i # k - 1
    <3>1. i + 1 # k /\ (k > 1 => k - 1 \in 1 .. m) BY <2>4, <1>3
    <3>2. u[i] = s[i] /\ u[i + 1] = s[i + 1] BY <3>1, <2>1, <2>4, <1>7
    <3>3. s[i] # s[k] /\ s[i] # t /\ (k > 1 => s[i] # s[k - 1]) BY <3>1, <2>1, <2>4, <1>3
    <3>4. g[s[i]].next = h[s[i]].next BY <3>3, <2>1, <1>4
    <3> QED BY <3>2, <3>4, <2>1
  <2> QED BY <2>2, <2>3, <2>4
<1>11. g[u[m]].next = NULL
  <2>1. m \in 1 .. m /\ (k > 1 => k - 1 \in 1 .. m) /\ m # k - 1 BY <1>3
  <2>2. CASE m = k BY <2>2, <1>3, <1>7, <1>8
  <2>3. CASE m # k
    <3>1. u[m] = s[m] BY <2>1, <2>3, <1>7
    <3>2. s[m] # s[k] /\ s[m] # t /\ s[m] \in Alive(h) /\ (k > 1 => s[m] # s[k - 1]) BY <2>1, <2>3, <1>3
    <3>3. g[s[m]].next = h[s[m]].next BY <3>2, <1>4
    <3> QED BY <3>1, <3>3, <1>3
  <2> QED BY <2>2, <2>3
<1>12. Spans(g, u)
  <2>1. m >= 1 BY <1>3
  <2> QED BY <2>1, <1>1, <1>7, <1>10, <1>11 DEF Spans, Chain
<1>13. Kids(g)[p] = u
  <2>1. p \in Alive(g) /\ ~g[p].ref BY <1>1, <1>4
  <2> QED BY <2>1, <1>1, <1>9, <1>12, KidsSpan
<1> QED BY <1>5, <1>6, <1>13, KidsChange

-----------------------------------------------------------------------------
(* The other steps of the heap: nothing but data changes, an item appears, *)
(* one is deleted, an item gets a whole list of children.                  *)
SameForest(h, g) ==
  /\ Shape(h) /\ Shape(g) /\ Alive(g) = Alive(h)
  /\ \A x \in Alive(h) : g[x].ref = h[x].ref /\ g[x].child = h[x].child /\ g[x].next = h[x].next

LEMMA KidsSame ==
  ASSUME NEW h, NEW g, SameForest(h, g)
  PROVE  Kids(g) = Kids(h)
<1>1. ASSUME NEW q \in Alive(h) PROVE Kids(g)[q] = Kids(h)[q]
  <2>1. /\ Shape(h) /\ Shape(g) /\ q \in Alive(g) /\ g[q].ref = h[q].ref /\ g[q].child = h[q].child
    BY <1>1 DEF SameForest
  <2>2. ASSUME ~h[q].ref, h[q].child # NULL, NEW x \in Run(h, h[q].child)
        PROVE  x \in Alive(g) /\ g[x].next = h[x].next
    <3>1. x \in Alive(h) BY <2>1, <2>2, AliveFacts, RunFacts
    <3> QED BY <3>1 DEF SameForest
  <2> QED BY <2>1, <2>2, SameKids
<1>2. Alive(g) = Alive(h) BY DEF SameForest
<1>3. Kids(g) = [q \in Alive(h) |-> Kids(g)[q]] BY <1>2 DEF Kids
<1>4. Kids(h) = [q \in Alive(h) |-> Kids(h)[q]] BY DEF Kids
<1>5. PICK f, k : f = Kids(g) /\ k = Kids(h) OBVIOUS
<1> QED BY <1>1, <1>3, <1>4, <1>5

BornInto(h, g, n) ==
  /\ Shape(h) /\ Shape(g) /\ n \notin Alive(h) /\ Alive(g) = Alive(h) \cup {n}
  /\ \A x \in Alive(h) : /\ g[x].ref = h[x].ref /\ g[x].child = h[x].child
                         /\ g[x].next # h[x].next => ~ChildOf(h, x)
  /\ g[n].ref \/ g[n].child = NULL
KidsWith(h, g, n) == Kids(g) = [x \in Alive(h) \cup {n} |-> IF x = n THEN <<>> ELSE Kids(h)[x]]

LEMMA KidsBorn ==
  ASSUME NEW h, NEW g, NEW n, BornInto(h, g, n)
  PROVE  KidsWith(h, g, n)
<1>1. ASSUME NEW q \in Alive(h) PROVE Kids(g)[q] = Kids(h)[q]
  <2>1. /\ Shape(h) /\ Shape(g) /\ q \in Alive(g) /\ g[q].ref = h[q].ref /\ g[q].child = h[q].child
    BY <1>1 DEF BornInto
  <2>2. ASSUME ~h[q].ref, h[q].child # NULL, NEW x \in Run(h, h[q].child)
        PROVE  x \in Alive(g) /\ g[x].next = h[x].next
    <3>1. x \in ToSet(Kids(h)[q]) BY <2>1, <2>2, KidsFields
    <3>2. x \in Alive(h) BY <2>1, <3>1, MemberFacts
    <3>3. ChildOf(h, x) BY <3>1 DEF ChildOf
    <3> QED BY <3>2, <3>3 DEF BornInto
  <2> QED BY <2>1, <2>2, SameKids
<1>2. Kids(g)[n] = <<>>
  <2>1. Shape(g) /\ n \in Alive(g) /\ (g[n].ref \/ g[n].child = NULL) BY DEF BornInto
  <2> QED BY <2>1, KidsFields
<1>3. Alive(g) = Alive(h) \cup {n} /\ n \notin Alive(h) BY DEF BornInto
<1>4. Kids(g) = [q \in Alive(h) \cup {n} |-> Kids(g)[q]] BY <1>3 DEF Kids
<1>5. PICK f, k : f = Kids(g) /\ k = Kids(h) OBVIOUS
<1> QED BY <1>1, <1>2, <1>3, <1>4, <1>5 DEF KidsWith

LEMMA DoomedLeast ==
  ASSUME NEW h, Shape(h), NEW n \in Alive(h), NEW C \in SUBSET Alive(h), n \in C,
         \A x \in C : /\ h[x].next # NULL => h[x].next \in C
                      /\ ~h[x].ref /\ h[x].child # NULL => h[x].child \in C
  PROVE  Doomed(h, n) \subseteq C
<1> DEFINE E == [x \in Nodes |-> IF h[x] = Freed THEN {}
                                 ELSE ({h[x].next} \cup (IF h[x].ref THEN {} ELSE {h[x].child})) \ {NULL}]
<1>1. n \in Nodes /\ n # NULL BY AliveFacts
<1>2. ASSUME NEW x \in Alive(h)
      PROVE  x \in Nodes /\ E[x] = {y \in Alive(h) : y = h[x].next \/ (~h[x].ref /\ y = h[x].child)}
  <2>1. x \in Nodes /\ h[x] # Freed BY DEF Alive
  <2>2. E[x] = ({h[x].next} \cup (IF h[x].ref THEN {} ELSE {h[x].child})) \ {NULL} BY <2>1
  <2> QED BY <2>1, <2>2, AliveFacts
<1>3. \A x \in Nodes \ Alive(h) : E[x] = {} BY DEF Alive
<1>4. \A x \in Nodes : E[x] \subseteq Nodes
  <2>1. ASSUME NEW x \in Alive(h) PROVE E[x] \subseteq Nodes BY <1>2
  <2> QED BY <2>1, <1>3
<1>5. Doomed(h, n) = Reach(E, {n}) BY <1>1 DEF Doomed
<1> HIDE DEF E
<1>6. ASSUME NEW x \in C PROVE E[x] \subseteq C
  <2>1. x \in Alive(h) /\ NULL \notin Alive(h) BY NullIsNoNode DEF Alive
  <2> QED BY <2>1, <1>2
<1>7. C \in SUBSET Nodes /\ Closed(E, C) BY <1>6 DEF Closed, Alive
<1> QED BY <1>1, <1>4, <1>5, <1>7, ReachIsLeast

(* A list of children is deleted as a whole or not at all. *)
LEMMA DoomedLists ==
  ASSUME NEW h, Shape(h), NEW n \in Tops(h), NEW D, D = Doomed(h, n), NEW q \in Alive(h) \ D
  PROVE  ToSet(Kids(h)[q]) \cap D = {}
<1>1. n \in Alive(h) /\ n \in Starts(h) BY DEF Tops, Starts
<1>2. /\ n \in D /\ D \subseteq Alive(h)
      /\ \A x \in D \ {n} : \E y \in D : h[y].next = x \/ Owner(h, y, x)
  BY <1>1, DoomedFacts DEF Gathered
<1>3. SUFFICES ASSUME NEW w \in ToSet(Kids(h)[q]), w \in D PROVE FALSE OBVIOUS
<1>4. PICK c : c = h[q].child OBVIOUS
<1>5. Owner(h, q, c) /\ c \in Starts(h) /\ w \in Run(h, c) BY <1>3, <1>4, MemberFacts
<1>6. c \in Alive(h) BY <1>5 DEF Starts
<1>7. c \notin D
  <2>1. SUFFICES ASSUME c \in D PROVE FALSE OBVIOUS
  <2>2. c # n BY <1>5 DEF Owner, Tops
  <2>3. PICK y \in D : h[y].next = c \/ Owner(h, y, c) BY <2>1, <2>2, <1>2
  <2>4. y \in Alive(h) BY <1>2
  <2>5. Owner(h, y, c) BY <2>3, <2>4, <1>5 DEF Starts
  <2>6. y = q BY <2>4, <2>5, <1>5, <1>6 DEF Shape, OneOwner
  <2> QED BY <2>6
<1> DEFINE C == Run(h, c) \ D
<1>8. c \in C /\ C \in SUBSET Nodes BY <1>6, <1>7, RunFacts DEF Alive
<1>9. NextClosed(h, C)
  <2>1. SUFFICES ASSUME NEW x \in C, h[x] # Freed, h[x].next # NULL PROVE h[x].next \in C BY DEF NextClosed
  <2>2. x \in Alive(h) /\ h[x].next \in Run(h, c) BY <2>1, <1>6, RunFacts DEF NextClosed
  <2>3. PICK z : z = h[x].next OBVIOUS
  <2>4. z \in Alive(h) /\ z \notin Starts(h) BY <2>1, <2>2, <2>3, AliveFacts DEF Starts
  <2>5. SUFFICES ASSUME z \in D PROVE FALSE BY <2>2, <2>3
  <2>6. z # n BY <2>4, <1>1
  <2>7. PICK y \in D : h[y].next = z \/ Owner(h, y, z) BY <2>5, <2>6, <1>2
  <2>8. y \in Alive(h) BY <1>2
  <2>9. ~Owner(h, y, z) BY <2>4, <2>8 DEF Shape, Firsts
  <2>10. y = x BY <2>2, <2>3, <2>4, <2>7, <2>8, <2>9 DEF Shape, Backs
  <2> QED BY <2>1, <2>10
<1>10. Run(h, c) \subseteq C BY <1>6, <1>8, <1>9, RunFacts
<1> QED BY <1>3, <1>5, <1>10

(* What cJSON_Delete deletes is whole trees. *)
Orphans(h) == {x \in Alive(h) : ~ChildOf(h, x)}

LEMMA DoomedTrees ==
  ASSUME NEW h, Shape(h), NEW n \in Tops(h), NEW D, D = Doomed(h, n)
  PROVE  /\ D = UNION {Under(h, m) : m \in Orphans(h) \cap D}
         /\ h[n].next = NULL => D = Under(h, n)
<1>1. n \in Alive(h) BY DEF Tops, Starts
<1>2. /\ n \in D /\ D \subseteq Alive(h)
      /\ \A x \in D : /\ h[x].next # NULL => h[x].next \in D
                      /\ ~h[x].ref /\ h[x].child # NULL => h[x].child \in D
  BY <1>1, DoomedFacts DEF Gathered
<1>3. ASSUME NEW x \in D PROVE ToSet(Kids(h)[x]) \subseteq D
  <2>1. SUFFICES ASSUME NEW z \in ToSet(Kids(h)[x]) PROVE z \in D OBVIOUS
  <2>2. x \in Alive(h) BY <1>2
  <2>3. ~h[x].ref /\ h[x].child # NULL /\ z \in Run(h, h[x].child) BY <2>1, <2>2, MemberFacts
  <2>4. h[x].child \in D /\ h[x].child \in Alive(h) BY <2>3, <1>2
  <2>5. D \in SUBSET Nodes /\ NextClosed(h, D) BY <1>2 DEF NextClosed, Alive
  <2> QED BY <2>3, <2>4, <2>5, RunFacts
<1>4. ASSUME NEW m \in D PROVE Under(h, m) \subseteq D
  <2>1. m \in Alive(h) /\ D \in SUBSET Alive(h) BY <1>2
  <2> QED BY <2>1, <1>3, <1>4, UnderFacts
<1>5. ASSUME NEW U \in SUBSET D, n \in U,
             \A x \in U : ToSet(Kids(h)[x]) \subseteq U /\ (h[x].next # NULL => h[x].next \in U)
      PROVE  D \subseteq U
  <2>1. ASSUME NEW x \in U, ~h[x].ref, h[x].child # NULL PROVE h[x].child \in U
    <3>1. x \in Alive(h) BY <1>2
    <3>2. h[x].child \in Alive(h) BY <2>1, <3>1, AliveFacts
    <3>3. h[x].child \in ToSet(Kids(h)[x])
      <4>1. h[x].child \in Run(h, h[x].child) BY <3>2, RunFacts
      <4> QED BY <4>1, <2>1, <3>1, KidsFields
    <3> QED BY <3>3, <1>5
  <2>2. U \in SUBSET Alive(h) BY <1>2
  <2> QED BY <2>1, <2>2, <1>1, <1>5, DoomedLeast
<1>6. n \in Orphans(h) BY TopIsOrphan DEF Orphans
<1> DEFINE U == UNION {Under(h, m) : m \in Orphans(h) \cap D}
<1>7. U \subseteq D BY <1>4
<1>8. \A m \in Orphans(h) \cap D : m \in U
  <2>1. ASSUME NEW m \in Orphans(h) \cap D PROVE m \in Under(h, m) BY <1>2, UnderFacts
  <2> QED BY <2>1
<1>9. ASSUME NEW m \in Orphans(h) \cap D, NEW x \in Under(h, m), x # m \/ h[x].next = NULL
      PROVE  ToSet(Kids(h)[x]) \subseteq Under(h, m) /\ (h[x].next # NULL => h[x].next \in Under(h, m))
  <2>1. m \in Alive(h) BY <1>2
  <2>2. ToSet(Kids(h)[x]) \subseteq Under(h, m) BY <2>1, UnderFacts
  <2>3. ASSUME x # m, h[x].next # NULL PROVE h[x].next \in Under(h, m)
    <3>1. PICK y \in Under(h, m) : x \in ToSet(Kids(h)[y]) BY <2>1, <2>3, UnderFacts
    <3>2. y \in Alive(h) BY <2>1, UnderFacts
    <3>3. h[x].next \in ToSet(Kids(h)[y]) BY <2>3, <3>1, <3>2, MemberFacts
    <3> QED BY <2>1, <3>3, UnderFacts
  <2> QED BY <2>2, <2>3, <1>9
<1>10. ASSUME NEW m \in Orphans(h) \cap D, h[m].next # NULL PROVE h[m].next \in Orphans(h) \cap D
  <2>1. m \in Alive(h) /\ ~ChildOf(h, m) /\ h[m].next \in D /\ h[m].next \in Alive(h) BY <1>2, <1>10 DEF Orphans
  <2>2. PICK t \in Tops(h) : m \in Run(h, t) BY <2>1, OrphanFacts
  <2>3. h[m].next \in Run(h, t)
    <3>1. t \in Alive(h) BY DEF Tops, Starts
    <3>2. NextClosed(h, Run(h, t)) BY <3>1, RunFacts
    <3> QED BY <3>2, <2>1, <2>2, <1>10 DEF NextClosed, Alive
  <2>4. ~ChildOf(h, h[m].next) BY <2>1, <2>2, <2>3, OrphanFacts
  <2> QED BY <2>1, <2>4 DEF Orphans
<1>11. D \subseteq U
  <2>1. ASSUME NEW x \in U
        PROVE  ToSet(Kids(h)[x]) \subseteq U /\ (h[x].next # NULL => h[x].next \in U)
    <3>1. PICK m \in Orphans(h) \cap D : x \in Under(h, m) BY <2>1
    <3>2. Under(h, m) \subseteq U BY <3>1
    <3>3. CASE x # m \/ h[x].next = NULL BY <3>1, <3>2, <3>3, <1>9
    <3>4. CASE x = m /\ h[x].next # NULL
      <4>1. h[x].next \in U BY <3>4, <1>8, <1>10
      <4>2. m \in Alive(h) BY <1>2
      <4>3. ToSet(Kids(h)[x]) \subseteq Under(h, m) BY <3>1, <4>2, UnderFacts
      <4> QED BY <4>1, <4>3, <3>2
    <3> QED BY <3>3, <3>4
  <2>2. n \in U BY <1>2, <1>6, <1>8
  <2> HIDE DEF U
  <2> QED BY <2>1, <2>2, <1>5, <1>7
<1>12. ASSUME h[n].next = NULL PROVE D = Under(h, n)
  <2>1. Under(h, n) \subseteq D BY <1>2, <1>4
  <2>2. n \in Under(h, n) BY <1>1, UnderFacts
  <2>3. \A x \in Under(h, n) :
          ToSet(Kids(h)[x]) \subseteq Under(h, n) /\ (h[x].next # NULL => h[x].next \in Under(h, n))
    BY <1>2, <1>6, <1>9, <1>12
  <2> QED BY <2>1, <2>2, <2>3, <1>5
<1> QED BY <1>7, <1>11, <1>12

Felled(h, n, D, g) ==
  Shape(h) /\ n \in Tops(h) /\ D = Doomed(h, n) /\ g = cJSON_Delete(h, n) /\ Shape(g)
KidsWithout(h, g, D) ==
  /\ D \subseteq Alive(h) /\ Alive(g) = Alive(h) \ D
  /\ Kids(g) = [x \in Alive(h) \ D |-> Kids(h)[x]]

LEMMA KidsDeleted ==
  ASSUME NEW h, NEW n, NEW D, NEW g, Felled(h, n, D, g)
  PROVE  KidsWithout(h, g, D)
<1> Shape(h) /\ n \in Tops(h) /\ D = Doomed(h, n) /\ g = cJSON_Delete(h, n) /\ Shape(g) BY DEF Felled
<1>1. n \in Alive(h) BY DEF Tops, Starts
<1>2. D \subseteq Alive(h) /\ Alive(g) = Alive(h) \ D /\ \A x \in Alive(h) \ D : g[x] = h[x] BY <1>1, DeletedHeap
<1>3. ASSUME NEW q \in Alive(h) \ D PROVE Kids(g)[q] = Kids(h)[q]
  <2>1. q \in Alive(g) /\ g[q] = h[q] BY <1>2
  <2>2. ASSUME ~h[q].ref, h[q].child # NULL, NEW x \in Run(h, h[q].child)
        PROVE  x \in Alive(g) /\ g[x].next = h[x].next
    <3>1. x \in ToSet(Kids(h)[q]) BY <2>2, KidsFields
    <3>2. x \in Alive(h) BY <3>1, MemberFacts
    <3>3. x \notin D BY <3>1, DoomedLists
    <3> QED BY <3>2, <3>3, <1>2
  <2> QED BY <2>1, <2>2, SameKids
<1>4. Kids(g) = [q \in Alive(h) \ D |-> Kids(g)[q]] BY <1>2 DEF Kids
<1>5. PICK f, k : f = Kids(g) /\ k = Kids(h) OBVIOUS
<1> QED BY <1>2, <1>3, <1>4, <1>5 DEF KidsWithout

GivenList(h, g, p, c) ==
  /\ Shape(h) /\ Shape(g) /\ p \in Alive(h) /\ Alive(g) = Alive(h) /\ ~h[p].ref /\ h[p].child = NULL
  /\ c \in Tops(h)
  /\ \A x \in Alive(h) : /\ g[x].ref = h[x].ref /\ g[x].next = h[x].next
                         /\ g[x].child = IF x = p THEN c ELSE h[x].child

LEMMA KidsGiven ==
  ASSUME NEW h, NEW g, NEW p, NEW c, GivenList(h, g, p, c)
  PROVE  /\ Kids(g) = [Kids(h) EXCEPT ![p] = ListFrom(h, c)]
         /\ Kids(h)[p] = <<>> /\ Kids(g)[p] = ListFrom(h, c)
         /\ IsInjective(ListFrom(h, c)) /\ ToSet(ListFrom(h, c)) = Run(h, c)
<1>1. /\ Shape(h) /\ Shape(g) /\ p \in Alive(h) /\ Alive(g) = Alive(h) /\ ~h[p].ref /\ h[p].child = NULL
      /\ c \in Starts(h) /\ c \in Alive(h)
      /\ \A x \in Alive(h) : /\ g[x].ref = h[x].ref /\ g[x].next = h[x].next
                             /\ g[x].child = IF x = p THEN c ELSE h[x].child
  BY DEF GivenList, Tops, Starts
<1>2. EditedAt(h, g, p) BY <1>1 DEF EditedAt
<1>3. PICK u : u = ListFrom(h, c) OBVIOUS
<1>4. /\ u \in Seq(Alive(h)) /\ Len(u) >= 1 /\ u[1] = c /\ Chain(h, u) /\ h[Last(u)].next = NULL
      /\ IsInjective(u) /\ ToSet(u) = Run(h, c)
  BY <1>1, <1>3, ListFacts
<1>5. Spans(g, u)
  <2>1. PICK m \in Nat : m = Len(u) BY <1>4
  <2>2. \A i \in 1 .. m : u[i] \in Alive(h) BY <1>4, <2>1
  <2>3. m >= 1 /\ h[u[m]].next = NULL /\ \A i \in 1 .. m - 1 : h[u[i]].next = u[i + 1]
    BY <1>4, <2>1 DEF Chain, Last
  <2>4. \A i \in 1 .. m - 1 : i \in 1 .. m OBVIOUS
  <2>5. Chain(g, u) BY <2>1, <2>2, <2>3, <2>4, <1>1 DEF Chain
  <2>6. m \in 1 .. m BY <2>3
  <2>7. g[u[m]].next = NULL BY <2>2, <2>3, <2>6, <1>1
  <2> QED BY <2>1, <2>3, <2>5, <2>7, <1>1, <1>4 DEF Spans
<1>6. Kids(g)[p] = u
  <2>1. p \in Alive(g) /\ ~g[p].ref /\ g[p].child = u[1] BY <1>1, <1>4
  <2> QED BY <2>1, <1>1, <1>5, KidsSpan
<1>7. Kids(h)[p] = <<>> BY <1>1, KidsFields
<1> QED BY <1>2, <1>3, <1>4, <1>6, <1>7, KidsChange

-----------------------------------------------------------------------------
(* Each kind of change to the heap is a step of the forest. *)
LEMMA KidsNow == kids = Kids(items) /\ kids' = Kids(items') /\ DOMAIN kids = Alive(items) /\ DOMAIN kids' = Alive(items')
BY DEF kids, Kids, Live, Alive

LEMMA RangeIsSet == \A s : Tree!Range(s) = ToSet(s)
BY DEF Tree!Range, ToSet

LEMMA TreeWords ==
  ASSUME Shape(items)
  PROVE  /\ Tree!Children = {x \in Alive(items) : ChildOf(items, x)}
         /\ Tree!Parentless = Orphans(items)
<1>1. Tree!Children = UNION {ToSet(Kids(items)[n]) : n \in Alive(items)}
  <2>1. Tree!Children = UNION {Tree!Range(kids[n]) : n \in DOMAIN kids} BY DEF Tree!Children
  <2>2. \A n \in Alive(items) : Tree!Range(kids[n]) = ToSet(Kids(items)[n]) BY KidsNow, RangeIsSet
  <2> QED BY <2>1, <2>2, KidsNow
<1>2. Tree!Children = {x \in Alive(items) : ChildOf(items, x)}
  <2>1. \A n \in Alive(items) : ToSet(Kids(items)[n]) \subseteq Alive(items) BY MemberFacts
  <2> QED BY <1>1, <2>1 DEF ChildOf
<1> QED BY <1>2, KidsNow DEF Tree!Parentless, Orphans

LEMMA StepSame ==
  ASSUME SameForest(items, items')
  PROVE  UNCHANGED kids
BY KidsSame, KidsNow

LEMMA StepBorn ==
  ASSUME NEW n \in Nodes, BornInto(items, items', n)
  PROVE  Tree!TreeNext
<1>1. n \notin DOMAIN kids BY KidsNow DEF BornInto
<1>2. Kids(items') = [x \in Alive(items) \cup {n} |-> IF x = n THEN <<>> ELSE Kids(items)[x]]
  <2>1. PICK h, g : h = items /\ g = items' OBVIOUS
  <2>2. BornInto(h, g, n) BY <2>1
  <2>3. Kids(g) = [x \in Alive(h) \cup {n} |-> IF x = n THEN <<>> ELSE Kids(h)[x]] 
    <3>1. KidsWith(h, g, n) BY <2>2, KidsBorn
    <3> QED BY <3>1 DEF KidsWith
  <2> QED BY <2>1, <2>3
<1>3. kids' = [x \in DOMAIN kids \cup {n} |-> IF x = n THEN <<>> ELSE kids[x]] BY <1>2, KidsNow
<1>4. Tree!Create(n) BY <1>1, <1>3 DEF Tree!Create
<1> QED BY <1>4 DEF Tree!TreeNext

LEMMA StepInsert ==
  ASSUME Shape(items), NEW p \in Alive(items), NEW t \in Alive(items), NEW s, s = Kids(items)[p],
         NEW k \in 1 .. Len(s) + 1, ~ChildOf(items, t), p \notin Under(items, t),
         Kids(items') = [Kids(items) EXCEPT ![p] = Tree!InsertAt(s, k, t)]
  PROVE  Tree!TreeNext
<1>1. PICK u : u = Tree!InsertAt(s, k, t) OBVIOUS
<1>2. kids = Kids(items) /\ kids' = Kids(items') /\ DOMAIN kids = Alive(items) BY KidsNow
<1>3. kids' = [x \in DOMAIN kids |-> IF x = p THEN u ELSE kids[x]]
  <2>1. kids' = [kids EXCEPT ![p] = u] BY <1>1, <1>2
  <2> QED BY <2>1
<1>4. kids' = [x \in DOMAIN kids \cup {t} |->
                CASE x = p -> u [] x # p /\ x \in DOMAIN kids -> kids[x] [] OTHER -> <<>>]
  <2>1. DOMAIN kids \cup {t} = DOMAIN kids BY <1>2
  <2>2. \A x \in DOMAIN kids :
          (IF x = p THEN u ELSE kids[x])
            = CASE x = p -> u [] x # p /\ x \in DOMAIN kids -> kids[x] [] OTHER -> <<>>
    OBVIOUS
  <2> QED BY <2>1, <2>2, <1>3
<1>5. t \notin Tree!Children BY TreeWords
<1>6. p \notin Tree!Below(kids, t) BY <1>2 DEF Under
<1>7. u = Tree!InsertAt(kids[p], k, t) BY <1>1, <1>2
<1>8. Tree!Insert(p, k, t) BY <1>4, <1>5, <1>6, <1>7 DEF Tree!Insert
<1>9. p \in DOMAIN kids /\ t \in Nodes /\ k \in 1 .. Len(kids[p]) + 1 BY <1>2 DEF Alive
<1> QED BY <1>8, <1>9 DEF Tree!TreeNext

PutNew(b, h, g, p, s, k, t) ==
  /\ t \in Nodes /\ BornInto(b, h, t) /\ p \in Alive(b) /\ s = Kids(h)[p] /\ k \in 1 .. Len(s) + 1
  /\ Kids(g) = [Kids(h) EXCEPT ![p] = Tree!InsertAt(s, k, t)]

LEMMA StepInsertNew ==
  ASSUME NEW h, NEW p, NEW s, NEW k, NEW t, PutNew(items, h, items', p, s, k, t)
  PROVE  Tree!TreeNext
<1> /\ t \in Nodes /\ BornInto(items, h, t) /\ p \in Alive(items) /\ s = Kids(h)[p] /\ k \in 1 .. Len(s) + 1
    /\ Kids(items') = [Kids(h) EXCEPT ![p] = Tree!InsertAt(s, k, t)]
  BY DEF PutNew
<1>1. PICK u : u = Tree!InsertAt(s, k, t) OBVIOUS
<1>2. kids = Kids(items) /\ kids' = Kids(items') /\ DOMAIN kids = Alive(items) BY KidsNow
<1>3. Shape(items) /\ t \notin Alive(items) BY DEF BornInto
<1>4. Kids(h) = [x \in Alive(items) \cup {t} |-> IF x = t THEN <<>> ELSE Kids(items)[x]]
  <2>1. PICK b : b = items OBVIOUS
  <2>2. BornInto(b, h, t) BY <2>1
  <2>3. Kids(h) = [x \in Alive(b) \cup {t} |-> IF x = t THEN <<>> ELSE Kids(b)[x]] 
    <3>1. KidsWith(b, h, t) BY <2>2, KidsBorn
    <3> QED BY <3>1 DEF KidsWith
  <2> QED BY <2>1, <2>3
<1>5. p # t /\ s = Kids(items)[p] BY <1>3, <1>4
<1>6. kids' = [x \in Alive(items) \cup {t} |-> IF x = p THEN u ELSE Kids(h)[x]]
  <2>1. kids' = [Kids(h) EXCEPT ![p] = u] BY <1>1, <1>2
  <2>2. DOMAIN Kids(h) = Alive(items) \cup {t} BY <1>4
  <2> QED BY <2>1, <2>2
<1>7. \A x \in Alive(items) \cup {t} :
        (IF x = p THEN u ELSE Kids(h)[x])
          = CASE x = p -> u [] x # p /\ x \in DOMAIN kids -> kids[x] [] OTHER -> <<>>
  BY <1>2, <1>3, <1>4
<1>8. kids' = [x \in DOMAIN kids \cup {t} |->
                CASE x = p -> u [] x # p /\ x \in DOMAIN kids -> kids[x] [] OTHER -> <<>>]
  BY <1>2, <1>6, <1>7
<1>9. t \notin Tree!Children /\ t \notin DOMAIN kids BY <1>2, <1>3, TreeWords
<1>10. u = Tree!InsertAt(kids[p], k, t) BY <1>1, <1>2, <1>5
<1>11. Tree!Insert(p, k, t) BY <1>8, <1>9, <1>10 DEF Tree!Insert
<1>12. p \in DOMAIN kids /\ k \in 1 .. Len(kids[p]) + 1 BY <1>2, <1>5
<1> QED BY <1>11, <1>12 DEF Tree!TreeNext

LEMMA StepRemove ==
  ASSUME NEW p \in Alive(items), NEW s, s = Kids(items)[p], NEW k \in 1 .. Len(s),
         Kids(items') = [Kids(items) EXCEPT ![p] = Tree!RemoveAt(s, k)]
  PROVE  Tree!TreeNext
<1>1. kids = Kids(items) /\ kids' = Kids(items') /\ DOMAIN kids = Alive(items) BY KidsNow
<1>2. kids' = [kids EXCEPT ![p] = Tree!RemoveAt(kids[p], k)] BY <1>1
<1>3. Tree!RemoveChild(p, k) BY <1>2 DEF Tree!RemoveChild
<1>4. p \in DOMAIN kids /\ k \in 1 .. Len(kids[p]) BY <1>1
<1> QED BY <1>3, <1>4 DEF Tree!TreeNext

Swapped(b, h, g, p, s, k, t, D) ==
  /\ Shape(b) /\ p \in Alive(b) /\ t \in Alive(b) /\ s = Kids(b)[p] /\ k \in 1 .. Len(s)
  /\ ~ChildOf(b, t) /\ p \notin Under(b, t)
  /\ Alive(h) = Alive(b) /\ Kids(h) = [Kids(b) EXCEPT ![p] = Tree!ReplaceAt(s, k, t)]
  /\ D = Under(h, s[k]) /\ Kids(g) = [x \in Alive(b) \ D |-> Kids(h)[x]]

LEMMA StepReplace ==
  ASSUME NEW h, NEW p, NEW s, NEW k, NEW t, NEW D, Swapped(items, h, items', p, s, k, t, D)
  PROVE  Tree!TreeNext
<1> /\ Shape(items) /\ p \in Alive(items) /\ t \in Alive(items) /\ s = Kids(items)[p] /\ k \in 1 .. Len(s)
    /\ ~ChildOf(items, t) /\ p \notin Under(items, t)
    /\ Alive(h) = Alive(items) /\ Kids(h) = [Kids(items) EXCEPT ![p] = Tree!ReplaceAt(s, k, t)]
    /\ D = Under(h, s[k]) /\ Kids(items') = [x \in Alive(items) \ D |-> Kids(h)[x]]
  BY DEF Swapped
<1>1. kids = Kids(items) /\ kids' = Kids(items') /\ DOMAIN kids = Alive(items) BY KidsNow
<1>2. PICK r : r = [kids EXCEPT ![p] = Tree!ReplaceAt(@, k, t)] OBVIOUS
<1>3. r = Kids(h) BY <1>1, <1>2
<1>4. D = Tree!Below(r, kids[p][k]) BY <1>1, <1>3 DEF Under
<1>5. kids' = [x \in DOMAIN kids \ Tree!Below(r, kids[p][k]) |-> r[x]] BY <1>1, <1>3, <1>4
<1>6. t \in Tree!Parentless BY TreeWords DEF Orphans
<1>7. p \notin Tree!Below(kids, t) BY <1>1 DEF Under
<1>8. Tree!Replace(p, k, t) BY <1>2, <1>5, <1>6, <1>7 DEF Tree!Replace
<1>9. p \in DOMAIN kids /\ t \in DOMAIN kids /\ k \in 1 .. Len(kids[p]) BY <1>1
<1> QED BY <1>8, <1>9 DEF Tree!TreeNext

LEMMA StepDelete ==
  ASSUME Shape(items), Shape(items'), NEW n \in Tops(items), items' = cJSON_Delete(items, n)
  PROVE  Tree!TreeNext
<1>1. PICK h, g, D : h = items /\ g = items' /\ D = Doomed(items, n) OBVIOUS
<1>2. Shape(h) /\ n \in Tops(h) /\ D = Doomed(h, n) /\ g = cJSON_Delete(h, n) /\ Shape(g) BY <1>1
<1>3. D \subseteq Alive(h) /\ Alive(g) = Alive(h) \ D /\ Kids(g) = [x \in Alive(h) \ D |-> Kids(h)[x]]
  <2>1. Felled(h, n, D, g) BY <1>2 DEF Felled
  <2>2. KidsWithout(h, g, D) BY <2>1, KidsDeleted
  <2> QED BY <2>2 DEF KidsWithout
<1>4. D = UNION {Under(h, m) : m \in Orphans(h) \cap D} BY <1>2, DoomedTrees
<1>5. kids = Kids(h) /\ kids' = Kids(g) /\ DOMAIN kids = Alive(h) /\ DOMAIN kids' = Alive(g) BY <1>1, KidsNow
<1>6. DOMAIN kids \ DOMAIN kids' = D BY <1>3, <1>5
<1>7. Tree!Parentless = Orphans(h) BY <1>1, TreeWords
<1>8. \A m : Tree!Below(kids, m) = Under(h, m) BY <1>5 DEF Under
<1>9. D = UNION {Tree!Below(kids, m) : m \in Tree!Parentless \cap D} BY <1>4, <1>7, <1>8
<1>10. kids' = [x \in DOMAIN kids \ D |-> kids[x]] BY <1>3, <1>5
<1>11. Tree!DeleteTrees BY <1>6, <1>9, <1>10 DEF Tree!DeleteTrees
<1> QED BY <1>11 DEF Tree!TreeNext

LEMMA StepGiven ==
  ASSUME NEW p, NEW c, GivenList(items, items', p, c), ~ChildOf(items, p), p \notin Run(items, c)
  PROVE  Tree!TreeNext
<1>1. PICK h, g, u : h = items /\ g = items' /\ u = ListFrom(items, c) OBVIOUS
<1>2. Shape(h) /\ p \in Alive(h) /\ Alive(g) = Alive(h) /\ c \in Tops(h) /\ c \in Alive(h)
  BY <1>1 DEF GivenList, Tops, Starts
<1>3. /\ Kids(g) = [Kids(h) EXCEPT ![p] = u] /\ Kids(h)[p] = <<>> /\ Kids(g)[p] = u
      /\ IsInjective(u) /\ ToSet(u) = Run(h, c)
  BY <1>1, KidsGiven
<1>4. kids = Kids(h) /\ kids' = Kids(g) /\ DOMAIN kids = Alive(h) /\ DOMAIN kids' = Alive(g) BY <1>1, KidsNow
<1>5. Tree!Parentless = Orphans(h) BY <1>1, <1>2, TreeWords
<1>6. p \in Tree!Parentless BY <1>1, <1>2, <1>5 DEF Orphans
<1>7. Tree!Range(u) \subseteq Tree!Parentless \ {p}
  <2>1. ASSUME NEW x \in Run(h, c) PROVE x \in Orphans(h) /\ x # p
    <3>1. x \in Alive(h) BY <1>2, RunFacts
    <3>2. ~ChildOf(h, x) BY <1>2, <3>1, OrphanFacts
    <3> QED BY <3>1, <3>2, <1>1 DEF Orphans
  <2> QED BY <2>1, <1>3, <1>5, RangeIsSet
<1>8. Tree!IsInjective(u) BY <1>3 DEF Tree!IsInjective, IsInjective
<1>9. kids' = [kids EXCEPT ![p] = u] /\ kids[p] = <<>> /\ kids'[p] = u /\ DOMAIN kids' = DOMAIN kids
  BY <1>2, <1>3, <1>4
<1>10. Tree!Adopt(p) BY <1>6, <1>7, <1>8, <1>9 DEF Tree!Adopt
<1>11. p \in DOMAIN kids BY <1>2, <1>4
<1> QED BY <1>10, <1>11 DEF Tree!TreeNext

-----------------------------------------------------------------------------
(* What the calls find and leave. *)
LEMMA UnderVisible ==
  ASSUME Shape(items), NEW n \in Alive(items)
  PROVE  Under(items, n) \subseteq Visible(n)
<1>1. PICK e : e = [x \in Nodes |-> IF x \in Live THEN ToSet(ListOf(items, x)) ELSE {}] OBVIOUS
<1>2. \A x \in Alive(items) : ToSet(ListOf(items, x)) \subseteq Alive(items)
  <2>1. ASSUME NEW x \in Alive(items) PROVE ToSet(ListOf(items, x)) \subseteq Alive(items)
    <3>1. CASE items[x].child = NULL BY <3>1, ChildrenOf
    <3>2. CASE items[x].child # NULL
      <4>1. ToSet(ListOf(items, x)) = Run(items, items[x].child) BY <3>2, ChildrenOf
      <4>2. items[x].child \in Alive(items) BY <3>2, AliveFacts
      <4> QED BY <4>1, <4>2, RunFacts
    <3> QED BY <3>1, <3>2
  <2> QED BY <2>1
<1>3. \A x \in Nodes : e[x] \subseteq Nodes BY <1>1, <1>2, LiveIsAlive DEF Alive
<1>4. PICK R, S : R = Reach(e, {n}) /\ S = {n} OBVIOUS
<1>5. R = Visible(n) BY <1>1, <1>4 DEF Visible
<1>6. S \in SUBSET Nodes BY <1>4 DEF Alive
<1>7. R \in SUBSET Nodes /\ S \subseteq R /\ Closed(e, R)
  <2>1. R = Reach(e, S) BY <1>4
  <2> QED BY <2>1, <1>3, <1>6, ReachIsLeast
<1>8. PICK C : C = R \cap Alive(items) OBVIOUS
<1>9. C \in SUBSET Alive(items) /\ n \in C BY <1>4, <1>7, <1>8
<1>10. ASSUME NEW x \in C PROVE ToSet(Kids(items)[x]) \subseteq C
  <2>1. x \in Alive(items) /\ x \in Nodes /\ x \in R BY <1>8 DEF Alive
  <2>2. e[x] = ToSet(ListOf(items, x)) /\ e[x] \subseteq R BY <2>1, <1>1, <1>7, LiveIsAlive DEF Closed
  <2>3. ToSet(Kids(items)[x]) \subseteq ToSet(ListOf(items, x))
    <3>1. CASE items[x].ref
      <4>1. Kids(items)[x] = <<>> BY <2>1, <3>1 DEF Kids
      <4> QED BY <4>1 DEF ToSet
    <3>2. CASE ~items[x].ref BY <2>1, <3>2 DEF Kids
    <3> QED BY <3>1, <3>2
  <2>4. ToSet(ListOf(items, x)) \subseteq Alive(items) BY <1>2, <2>1
  <2> QED BY <2>2, <2>3, <2>4, <1>8
<1>11. PICK B : B = Under(items, n) OBVIOUS
<1>12. B \subseteq C BY <1>9, <1>10, <1>11, UnderFacts
<1> QED BY <1>5, <1>8, <1>11, <1>12

(* A list with no owner begins below no other item. *)
LEMMA TopUnder ==
  ASSUME NEW h, Shape(h), NEW m \in Alive(h), NEW t \in Tops(h), t # m
  PROVE  t \notin Under(h, m)
<1>1. ~ChildOf(h, t) BY TopIsOrphan
<1>2. PICK B : B = Under(h, m) OBVIOUS
<1>3. B \subseteq Alive(h) /\ \A x \in B \ {m} : \E y \in B : x \in ToSet(Kids(h)[y]) BY <1>2, UnderFacts
<1> QED BY <1>1, <1>2, <1>3 DEF ChildOf

LEMMA ListPlace ==
  ASSUME NEW h, Shape(h), NEW p \in Alive(h), ~h[p].ref, h[p].child # NULL, NEW c \in Run(h, h[p].child),
         NEW s, s = Kids(h)[p]
  PROVE  \E k \in 1 .. Len(s) : /\ c = s[k] /\ (k = 1 <=> c = h[p].child)
                                /\ k > 1 => h[c].prev = s[k - 1] /\ h[s[k - 1]].next = c
<1>1. ToSet(s) = Run(h, h[p].child) /\ s[1] = h[p].child BY KidsFields
<1>2. PICK m : ListOfItems(h, p, s, m) BY ListItems
<1>3. /\ m \in Nat /\ m = Len(s) /\ \A i \in 1 .. m : s[i] \in Alive(h)
      /\ \A i, j \in 1 .. m : s[i] = s[j] => i = j
      /\ \A i \in 1 .. m - 1 : h[s[i]].next = s[i + 1]
  BY <1>2 DEF ListOfItems
<1>4. PICK k \in 1 .. m : c = s[k] BY <1>1, <1>3 DEF ToSet
<1>5. k = 1 <=> c = h[p].child
  <2>1. 1 \in 1 .. m BY <1>3, <1>4
  <2> QED BY <2>1, <1>1, <1>3, <1>4
<1>6. ASSUME k > 1 PROVE h[c].prev = s[k - 1] /\ h[s[k - 1]].next = c
  <2>1. k - 1 \in 1 .. m - 1 /\ k - 1 \in 1 .. m /\ (k - 1) + 1 = k BY <1>3, <1>4, <1>6
  <2>2. h[s[k - 1]].next = c /\ s[k - 1] \in Alive(h) /\ c \in Alive(h) BY <2>1, <1>3, <1>4
  <2> QED BY <2>2 DEF Shape, Backs
<1> QED BY <1>3, <1>4, <1>5, <1>6

LEMMA AddFields ==
  ASSUME NEW h, NEW hd, Ready(h, hd), NEW p \in Alive(h), ~h[p].ref, NEW t \in hd,
         NEW g, g = add_item_to_array(h, p, t), NEW s, s = Kids(h)[p]
  PROVE  \E k \in 1 .. Len(s) + 1 : PutIn(h, g, p, s, k, t)
<1>1. /\ Shape(h) /\ Typed(h) /\ t \in Tops(h) /\ t \in Alive(h) /\ t \in Nodes /\ t # NULL
      /\ h[t].next = NULL /\ NULL \notin Alive(h)
  BY ReadyFields, NullIsNoNode DEF Tops, Starts, Alive
<1>2. Relinked(h, g) /\ Shape(g)
  <2>1. Relinked(h, g) /\ Ready(g, hd \ {t}) BY AddReady
  <2> QED BY <2>1 DEF Ready
<1>3. Alive(g) = Alive(h) /\ \A x \in Alive(h) : g[x].ref = h[x].ref BY <1>2 DEF Relinked, SameData
<1>4. PICK m : ListOfItems(h, p, s, m) BY <1>1, ListItems
<1>5. /\ m \in Nat /\ m = Len(s) /\ \A i \in 1 .. m : s[i] \in Alive(h)
      /\ \A i \in 1 .. m - 1 : h[s[i]].next = s[i + 1]
      /\ \A i \in 1 .. m : s[i] # t
      /\ (m # 0 => h[p].child = s[1])
  BY <1>1, <1>4 DEF ListOfItems
<1>6. CASE h[p].child = NULL
  <2>1. s = <<>> /\ Len(s) = 0 BY <1>1, <1>6, KidsFields
  <2>2. PICK h1 : h1 = [h EXCEPT ![p].child = t] OBVIOUS
  <2>3. PICK h2 : h2 = [h1 EXCEPT ![t].prev = t] OBVIOUS
  <2>4. g = [h2 EXCEPT ![t].next = NULL] BY <1>6, <2>2, <2>3 DEF add_item_to_array
  <2>5. ChildSet(h, h1, p, t) BY <1>1, <2>2, LinkSet
  <2>6. Typed(h1) /\ Alive(h1) = Alive(h) BY <2>5 DEF ChildSet, Relinked
  <2>7. PrevSet(h1, h2, t, t) BY <1>1, <2>3, <2>6, LinkSet
  <2>8. Typed(h2) /\ Alive(h2) = Alive(h) BY <2>6, <2>7 DEF PrevSet, Relinked
  <2>9. NextSet(h2, g, t, NULL)
    <3>1. NextSet(h2, [h2 EXCEPT ![t].next = NULL], t, NULL) BY <1>1, <2>8, LinkSet
    <3> QED BY <3>1, <2>4
  <2>10. \A x \in Alive(h) : /\ g[x].next = IF x = t THEN NULL ELSE h[x].next
                             /\ g[x].child = IF x = p THEN t ELSE h[x].child
    BY <2>5, <2>6, <2>7, <2>8, <2>9 DEF ChildSet, PrevSet, NextSet
  <2>11. PICK k : k = 1 OBVIOUS
  <2>12. k \in 1 .. Len(s) + 1 BY <2>1, <2>11
  <2>13. ~(k > 1) /\ ~(k <= Len(s)) BY <2>1, <2>11
  <2>14. PutIn(h, g, p, s, k, t) BY <1>1, <1>2, <1>3, <2>10, <2>11, <2>12, <2>13 DEF PutIn
  <2> QED BY <2>12, <2>14
<1>7. CASE h[p].child # NULL
  <2>1. PICK c, l : c = h[p].child /\ l = h[c].prev OBVIOUS
  <2>2. c \in Alive(h) /\ Owner(h, p, c) BY <1>1, <1>7, <2>1, AliveFacts DEF Owner
  <2>3. l \in Run(h, c) /\ h[l].next = NULL BY <1>7, <2>1, ReadyFields DEF Ring, IsLast
  <2>4. l \in Alive(h) /\ l # NULL BY <1>1, <2>2, <2>3, RunFacts
  <2>5. ToSet(s) = Run(h, c) BY <1>1, <1>7, <2>1, KidsFields
  <2>6. PICK i \in 1 .. m : l = s[i] BY <2>3, <2>5, <1>5 DEF ToSet
  <2>7. i = m
    <3>1. SUFFICES ASSUME i # m PROVE FALSE OBVIOUS
    <3>2. i \in 1 .. m - 1 /\ i + 1 \in 1 .. m BY <3>1, <2>6, <1>5
    <3>3. h[l].next = s[i + 1] /\ s[i + 1] \in Alive(h) BY <3>2, <2>6, <1>5
    <3> QED BY <3>3, <2>3, <1>1
  <2>8. PICK h1 : h1 = suffix_object(h, l, t) OBVIOUS
  <2>9. g = [h1 EXCEPT ![c].prev = t] BY <1>7, <2>1, <2>4, <2>8 DEF add_item_to_array
  <2>10. /\ Relinked(h, h1)
         /\ \A x \in Alive(h) : /\ h1[x].next = IF x = l THEN t ELSE h[x].next
                                /\ h1[x].prev = IF x = t THEN l ELSE h[x].prev
                                /\ h1[x].child = h[x].child
    BY <1>1, <2>4, <2>8, SuffixFields
  <2>11. Typed(h1) /\ Alive(h1) = Alive(h) BY <2>10 DEF Relinked
  <2>12. PrevSet(h1, g, c, t)
    <3>1. PrevSet(h1, [h1 EXCEPT ![c].prev = t], c, t) BY <1>1, <2>2, <2>11, LinkSet
    <3> QED BY <3>1, <2>9
  <2>13. \A x \in Alive(h) : /\ g[x].next = IF x = l THEN t ELSE h[x].next
                             /\ g[x].child = h[x].child
    BY <2>10, <2>11, <2>12 DEF PrevSet
  <2>14. PICK k : k = m + 1 OBVIOUS
  <2>15. k \in 1 .. Len(s) + 1 /\ k > 1 /\ k # 1 /\ ~(k <= Len(s)) /\ s[k - 1] = l
    BY <1>5, <2>6, <2>7, <2>14
  <2>16. l # t BY <1>5, <2>6
  <2>17. \A x \in Alive(h) :
           /\ g[x].child = IF x = p /\ k = 1 THEN t ELSE h[x].child
           /\ g[x].next = IF k > 1 /\ x = s[k - 1] THEN t
                          ELSE IF x = t THEN (IF k <= Len(s) THEN s[k] ELSE NULL) ELSE h[x].next
    BY <2>13, <2>15, <2>16, <1>1
  <2>18. PutIn(h, g, p, s, k, t) BY <1>1, <1>2, <1>3, <2>15, <2>17 DEF PutIn
  <2> QED BY <2>15, <2>18
<1> QED BY <1>6, <1>7

(* The calls that add what the caller holds. *)
LEMMA StepAdd ==
  ASSUME NEW h, SameForest(items, h), NEW hd, Ready(h, hd), NEW p \in Alive(h), ~h[p].ref, NEW t \in hd,
         t \in Tops(items), p \notin Under(items, t), items' = add_item_to_array(h, p, t)
  PROVE  Tree!TreeNext
<1>1. Shape(items) /\ Alive(h) = Alive(items) BY DEF SameForest
<1>2. Kids(h) = Kids(items)
  <2>1. PICK b : b = items OBVIOUS
  <2>2. SameForest(b, h) BY <2>1
  <2>3. Kids(h) = Kids(b) BY <2>2, KidsSame
  <2> QED BY <2>1, <2>3
<1>3. PICK s, g : s = Kids(h)[p] /\ g = items' OBVIOUS
<1>4. PICK k \in 1 .. Len(s) + 1 : PutIn(h, g, p, s, k, t)
  <2>1. g = add_item_to_array(h, p, t) BY <1>3
  <2> QED BY <2>1, <1>3, AddFields
<1>5. Kids(g) = [Kids(h) EXCEPT ![p] = Tree!InsertAt(s, k, t)] BY <1>4, KidInserted
<1>6. t \in Alive(items) /\ ~ChildOf(items, t) BY <1>1, TopIsOrphan
<1>7. p \in Alive(items) /\ s = Kids(items)[p] BY <1>1, <1>2, <1>3
<1>8. Kids(items') = [Kids(items) EXCEPT ![p] = Tree!InsertAt(s, k, t)] BY <1>2, <1>3, <1>5
<1> QED BY <1>1, <1>4, <1>6, <1>7, <1>8, StepInsert

LEMMA SelfForest == ASSUME NEW h, Shape(h) PROVE SameForest(h, h)
BY DEF SameForest

LEMMA NewBorn ==
  ASSUME NEW h, Shape(h), HasMemory(h), NEW n, n = NewAddress(h), NEW item, NewItem(h, n, item),
         NEW g, g = cJSON_New_Item(h, item)
  PROVE  BornInto(h, g, n) /\ n \in Nodes
<1>1. /\ n \notin Alive(h) /\ n \in Nodes
      /\ Alive(g) = Alive(h) \cup {n} /\ g[n] = item /\ \A x \in Alive(h) : g[x] = h[x]
      /\ Shape(g)
  BY NewShaped
<1>2. g[n].ref \/ g[n].child = NULL BY <1>1 DEF NewItem
<1> QED BY <1>1, <1>2 DEF BornInto

LEMMA StepNew ==
  ASSUME Shape(items), HasMemory(items), NEW n, n = NewAddress(items), NEW item, NewItem(items, n, item),
         items' = cJSON_New_Item(items, item)
  PROVE  Tree!TreeNext
<1>1. PICK h, g : h = items /\ g = items' OBVIOUS
<1>2. Shape(h) /\ HasMemory(h) /\ n = NewAddress(h) /\ NewItem(h, n, item) /\ g = cJSON_New_Item(h, item) BY <1>1
<1>3. BornInto(h, g, n) /\ n \in Nodes BY <1>2, NewBorn
<1> QED BY <1>1, <1>3, StepBorn

LEMMA StepMember ==
  ASSUME NEW hd, Ready(items, hd), HasMemory(items), NEW p \in Alive(items), ~items[p].ref,
         NEW n, n = NewAddress(items), NEW item, NewItem(items, n, item),
         items' = add_item_to_array(cJSON_New_Item(items, item), p, n)
  PROVE  Tree!TreeNext
<1>1. PICK b, h, g : b = items /\ h = cJSON_New_Item(items, item) /\ g = items' OBVIOUS
<1>2. /\ Shape(b) /\ HasMemory(b) /\ n = NewAddress(b) /\ NewItem(b, n, item) /\ h = cJSON_New_Item(b, item)
      /\ Ready(b, hd)
  BY <1>1 DEF Ready
<1>3. BornInto(b, h, n) /\ n \in Nodes BY <1>2, NewBorn
<1>4. Ready(h, hd \cup {n}) /\ Alive(h) = Alive(b) \cup {n} /\ \A x \in Alive(b) : h[x] = b[x]
  BY <1>2, NewReady
<1>5. p \in Alive(h) /\ ~h[p].ref BY <1>1, <1>4
<1>6. PICK s, hn : s = Kids(h)[p] /\ hn = hd \cup {n} OBVIOUS
<1>7. PICK k \in 1 .. Len(s) + 1 : PutIn(h, g, p, s, k, n)
  <2>1. g = add_item_to_array(h, p, n) /\ n \in hn /\ Ready(h, hn) BY <1>1, <1>4, <1>6
  <2> QED BY <2>1, <1>5, <1>6, AddFields
<1>8. Kids(g) = [Kids(h) EXCEPT ![p] = Tree!InsertAt(s, k, n)] BY <1>7, KidInserted
<1>9. PutNew(b, h, g, p, s, k, n) BY <1>1, <1>3, <1>6, <1>7, <1>8 DEF PutNew
<1>10. PutNew(items, h, items', p, s, k, n) BY <1>1, <1>9
<1> QED BY <1>10, StepInsertNew

-----------------------------------------------------------------------------
(* One lemma per call and step of a call. *)
StepOfTree == Tree!TreeNext \/ UNCHANGED kids

LEMMA CreateTree == ASSUME Inv, NEW type \in Types, Create(type) PROVE StepOfTree
<1>1. PICK n, item : n = NewAddress(items) /\ item = Made(type, n) OBVIOUS
<1>2. job = "idle" /\ HasMemory(items) /\ items' = cJSON_New_Item(items, item) BY <1>1 DEF Create, MayCall
<1>3. Shape(items) /\ n \in Nodes BY <1>1, <1>2, FreeAddress DEF Inv
<1>4. NewItem(items, n, item) BY <1>1, <1>3, MadeFacts
<1> QED BY <1>1, <1>2, <1>3, <1>4, StepNew DEF StepOfTree

LEMMA CreateReferenceTree == ASSUME Inv, NEW p, CreateReference(p) PROVE StepOfTree
<1>1. PICK n, item : /\ n = NewAddress(items)
                     /\ item = [Zeroed EXCEPT !.type = items[p].type, !.ref = TRUE, !.child = items[p].child]
  OBVIOUS
<1>2. job = "idle" /\ HasMemory(items) /\ items' = cJSON_New_Item(items, item) /\ Container(p)
  BY <1>1 DEF CreateReference, MayCall
<1>3. Shape(items) BY DEF Inv
<1>4. /\ p \in Alive(items) /\ ~items[p].ref /\ items[p].type \in ItemTypes
      /\ items[p].child \in Alive(items) \cup {NULL}
  BY <1>2, <1>3, ContainerFacts, ItemFields, AliveFacts DEF Shape
<1>5. items[p].child \in Nodes \cup {NULL} BY <1>4 DEF Alive
<1>6. /\ item \in ItemRec /\ item.next = NULL /\ item.prev = NULL /\ item.child = items[p].child
      /\ item.ref = TRUE /\ item.string = NULL /\ item.value = NULL
  BY <1>1, <1>4, <1>5 DEF Zeroed, ItemRec
<1>7. NewItem(items, n, item) BY <1>4, <1>6 DEF NewItem, Owner
<1> QED BY <1>1, <1>2, <1>3, <1>7, StepNew DEF StepOfTree

LEMMA HeldBelow ==
  ASSUME Inv, job = "idle", NEW p, NEW t \in held, p \notin Visible(t)
  PROVE  t \in Tops(items) /\ t \in Alive(items) /\ p \notin Under(items, t)
<1>1. Ready(items, held) BY IdleFacts
<1>2. t \in Tops(items) /\ t \in Alive(items) /\ Shape(items) BY <1>1, ReadyFields
<1> QED BY <1>2, UnderVisible

LEMMA AddItemToArrayTree == ASSUME Inv, NEW array, NEW item, AddItemToArray(array, item) PROVE StepOfTree
<1>1. PICK h : h = items OBVIOUS
<1>2. /\ job = "idle" /\ Container(array) /\ item \in held /\ array \notin Visible(item)
      /\ items' = add_item_to_array(h, array, item)
  BY <1>1 DEF AddItemToArray, MayCall
<1>3. Ready(h, held) /\ array \in Alive(h) /\ ~h[array].ref BY <1>1, <1>2, IdleFacts, ContainerFacts
<1>4. SameForest(items, h) BY <1>1, <1>3, SelfForest DEF Ready
<1>5. item \in Tops(items) /\ array \notin Under(items, item) BY <1>2, HeldBelow
<1> QED BY <1>2, <1>3, <1>4, <1>5, StepAdd DEF StepOfTree

LEMMA RenamedForest ==
  ASSUME NEW h, NEW hd, Ready(h, hd), NEW x \in hd,
         NEW name \in StringTokens \cup {NULL}, NEW const \in BOOLEAN,
         NEW g, g = WithName(h, x, name, const)
  PROVE  SameForest(h, g) /\ Ready(g, hd)
<1>1. x \in Alive(h) /\ Shape(h) BY ReadyFields
<1>2. /\ Ready(g, hd) /\ Alive(g) = Alive(h)
      /\ \A y \in Alive(h) : /\ g[y].ref = h[y].ref /\ g[y].child = h[y].child
                             /\ g[y].value = h[y].value /\ g[y].next = h[y].next
      /\ g[x].string = name /\ g[x].const = const
      /\ \A y \in Alive(h) \ {x} : g[y] = h[y]
      /\ \A c : Run(g, c) = Run(h, c)
  BY <1>1, RenamedReady
<1>3. Shape(g) BY <1>2 DEF Ready
<1> QED BY <1>1, <1>2, <1>3 DEF SameForest

LEMMA AddItemToObjectTree ==
  ASSUME Inv, NEW object, NEW name \in Keys, NEW item, NEW const \in BOOLEAN,
         AddItemToObject(object, name, item, const)
  PROVE  StepOfTree
<1>1. PICK b, h : b = items /\ h = [items EXCEPT ![item] = Renamed(@, name, const)] OBVIOUS
<1>2. /\ job = "idle" /\ Container(object) /\ item \in held /\ object \notin Visible(item)
      /\ items' = add_item_to_array(h, object, item)
  BY <1>1 DEF AddItemToObject, MayCall
<1>3. h = WithName(b, item, name, const) BY <1>1 DEF WithName
<1>4. Ready(b, held) /\ name \in StringTokens \cup {NULL} BY <1>1, <1>2, IdleFacts, KeyFacts
<1>5. SameForest(b, h) /\ Ready(h, held) BY <1>2, <1>3, <1>4, RenamedForest
<1>6. SameForest(items, h) BY <1>1, <1>5
<1>7. object \in Alive(items) /\ ~items[object].ref BY <1>2, ContainerFacts
<1>8. object \in Alive(h) /\ ~h[object].ref BY <1>6, <1>7 DEF SameForest
<1>9. item \in Tops(items) /\ object \notin Under(items, item) BY <1>2, HeldBelow
<1> QED BY <1>2, <1>5, <1>6, <1>8, <1>9, StepAdd DEF StepOfTree

LEMMA AddNewToObjectTree ==
  ASSUME Inv, NEW object, NEW name \in Keys, NEW type \in Types, AddNewToObject(object, name, type)
  PROVE  StepOfTree
<1>1. PICK n, a, item : n = NewAddress(items) /\ a = Made(type, n) /\ item = [a EXCEPT !.string = name]
  OBVIOUS
<1>2. /\ job = "idle" /\ HasMemory(items) /\ Container(object)
      /\ items' = add_item_to_array(cJSON_New_Item(items, item), object, n)
  BY <1>1 DEF AddNewToObject, MayCall
<1>3. n \in Nodes BY <1>1, <1>2, FreeAddress
<1>4. Ready(items, held) /\ object \in Alive(items) /\ ~items[object].ref BY <1>2, IdleFacts, ContainerFacts
<1>5. a.const = FALSE /\ NewItem(items, n, a) BY <1>1, <1>3, MadeFacts DEF Made, Zeroed
<1>6. NewItem(items, n, item)
  <2>1. NewItem(items, n, [a EXCEPT !.string = name]) BY <1>5, NamedFacts
  <2> QED BY <2>1, <1>1
<1> QED BY <1>1, <1>2, <1>4, <1>6, StepMember DEF StepOfTree

LEMMA AddItemReferenceToArrayTree ==
  ASSUME Inv, NEW array, NEW item \in Live, AddItemReferenceToArray(array, item) PROVE StepOfTree
<1>1. PICK n, r : n = NewAddress(items) /\ r = create_reference(items[item]) OBVIOUS
<1>2. /\ job = "idle" /\ HasMemory(items) /\ Container(array)
      /\ items' = add_item_to_array(cJSON_New_Item(items, r), array, n)
  BY <1>1 DEF AddItemReferenceToArray, MayCall
<1>3. /\ Ready(items, held) /\ Shape(items) /\ array \in Alive(items) /\ ~items[array].ref
      /\ item \in Alive(items)
  BY <1>2, IdleFacts, ContainerFacts, LiveIsAlive DEF Ready
<1>4. NewItem(items, n, r) BY <1>1, <1>3, ReferenceFacts
<1> QED BY <1>1, <1>2, <1>3, <1>4, StepMember DEF StepOfTree

LEMMA AddItemReferenceToObjectTree ==
  ASSUME Inv, NEW object, NEW name \in Keys, NEW item \in Live, AddItemReferenceToObject(object, name, item)
  PROVE  StepOfTree
<1>1. PICK n, r, named : /\ n = NewAddress(items) /\ r = create_reference(items[item])
                         /\ named = Renamed(r, name, FALSE)
  OBVIOUS
<1>2. /\ job = "idle" /\ HasMemory(items) /\ Container(object)
      /\ \/ items' = add_item_to_array(cJSON_New_Item(items, named), object, n)
         \/ items' = cJSON_New_Item(items, r)
  BY <1>1 DEF AddItemReferenceToObject, MayCall
<1>3. /\ Ready(items, held) /\ Shape(items) /\ object \in Alive(items) /\ ~items[object].ref
      /\ item \in Alive(items)
  BY <1>2, IdleFacts, ContainerFacts, LiveIsAlive DEF Ready
<1>4. NewItem(items, n, r) BY <1>1, <1>3, ReferenceFacts
<1>5. NewItem(items, n, named)
  <2>1. NewItem(items, n, Renamed(r, name, FALSE)) BY <1>4, NamedReferenceFacts
  <2> QED BY <2>1, <1>1
<1>6. CASE items' = add_item_to_array(cJSON_New_Item(items, named), object, n)
  BY <1>1, <1>2, <1>3, <1>5, <1>6, StepMember DEF StepOfTree
<1>7. CASE items' = cJSON_New_Item(items, r)
  BY <1>1, <1>2, <1>3, <1>4, <1>7, StepNew DEF StepOfTree
<1> QED BY <1>2, <1>6, <1>7

-----------------------------------------------------------------------------
(* Taking an item out of a list, putting one in front of another, and      *)
(* putting one in the place of another.                                    *)
Linking(h, hd, p) ==
  /\ Ready(h, hd) /\ p \in Alive(h) /\ ~h[p].ref /\ h[p].child # NULL
  /\ \A r \in Alive(h) : h[r].ref => h[r].child # h[p].child

LEMMA LinkingFields ==
  ASSUME NEW h, NEW hd, NEW p, Linking(h, hd, p), NEW c \in Run(h, h[p].child), NEW f, f = h[p].child
  PROVE  /\ Shape(h) /\ Ready(h, hd) /\ p \in Alive(h) /\ ~h[p].ref /\ f # NULL /\ f \in Alive(h)
         /\ c \in Alive(h) /\ c # NULL /\ NULL \notin Alive(h) /\ hd \subseteq Tops(h)
         /\ (\A n \in hd : n \in Alive(h) /\ h[n].next = NULL /\ n # c)
         /\ h[c].next # c /\ c \notin Tops(h) /\ \A r \in Alive(h) : h[r].ref => h[r].child # f
<1>1. /\ Shape(h) /\ Ready(h, hd) /\ p \in Alive(h) /\ ~h[p].ref /\ f # NULL
      /\ \A r \in Alive(h) : h[r].ref => h[r].child # f
  BY DEF Linking, Ready
<1>2. f \in Alive(h) /\ Owner(h, p, f) BY <1>1, AliveFacts DEF Owner
<1>3. c \in Alive(h) BY <1>1, <1>2, RunFacts
<1>4. c # NULL /\ NULL \notin Alive(h) BY <1>3, NullIsNoNode DEF Alive
<1>5. hd \subseteq Tops(h) /\ \A n \in hd : n \in Alive(h) /\ h[n].next = NULL BY <1>1, ReadyFields
<1>6. c \notin Tops(h) BY <1>1, <1>2, TopAlone
<1>7. h[c].next # c BY <1>1, <1>3, NoLoop
<1> QED BY <1>1, <1>2, <1>3, <1>4, <1>5, <1>6, <1>7

LEMMA DetachTaken ==
  ASSUME NEW h, NEW hd, NEW p, Linking(h, hd, p), NEW c \in Run(h, h[p].child),
         NEW g, g = DetachItemViaPointer(h, p, c), Shape(g), NEW s, s = Kids(h)[p]
  PROVE  \E k \in 1 .. Len(s) : TakenOut(h, g, p, s, k)
<1>1. PICK f, b : f = h[p].child /\ b = h[c].next OBVIOUS
<1>2. /\ Shape(h) /\ Ready(h, hd) /\ p \in Alive(h) /\ ~h[p].ref /\ f # NULL /\ f \in Alive(h)
      /\ c \in Alive(h) /\ b # c
  BY <1>1, LinkingFields
<1>3. PICK k \in 1 .. Len(s) : /\ c = s[k] /\ (k = 1 <=> c = h[p].child)
                               /\ k > 1 => h[c].prev = s[k - 1] /\ h[s[k - 1]].next = c
  BY <1>1, <1>2, ListPlace
<1>4. s[1] = f /\ \A i \in 1 .. Len(s) : s[i] \in Alive(h)
  <2>1. s[1] = f BY <1>1, <1>2, KidsFields
  <2>2. s \in Seq(Alive(h)) BY <1>1, <1>2, KidsFields
  <2> QED BY <2>1, <2>2
<1>5. CASE c = f
  <2>1. /\ Relinked(h, g)
        /\ \A x \in Alive(h) :
             /\ g[x].next = IF x = c THEN NULL ELSE h[x].next
             /\ g[x].prev = IF x = c THEN NULL ELSE IF x = h[c].next THEN h[c].prev ELSE h[x].prev
             /\ g[x].child = IF x = p THEN h[c].next ELSE h[x].child
    BY <1>1, <1>2, <1>5, DetachFirstFields
  <2>2. Alive(g) = Alive(h) /\ \A x \in Alive(h) : g[x].ref = h[x].ref BY <2>1 DEF Relinked, SameData
  <2>3. k = 1 BY <1>1, <1>3, <1>5
  <2>4. ~(k > 1) /\ s[1] = c BY <2>3, <1>3
  <2>5. \A x \in Alive(h) :
          /\ g[x].child = IF x = p /\ k = 1 THEN h[s[1]].next ELSE h[x].child
          /\ g[x].next = IF x = s[k] THEN NULL
                         ELSE IF k > 1 /\ x = s[k - 1] THEN h[s[k]].next ELSE h[x].next
    BY <2>1, <2>3, <2>4
  <2> QED BY <1>2, <1>3, <2>2, <2>5 DEF TakenOut
<1>6. CASE c # f
  <2>1. PICK y : y = s[k - 1] OBVIOUS
  <2>2. Len(s) \in Nat BY <1>2, KidsFields
  <2>3. k # 1 /\ k > 1 /\ k - 1 \in 1 .. Len(s) BY <2>2, <1>1, <1>3, <1>6
  <2>4. y \in Alive(h) /\ h[c].prev = y /\ h[y].next = c BY <2>1, <2>3, <1>3, <1>4
  <2>5. y # c BY <2>4, <1>1, <1>2
  <2>6. /\ Relinked(h, g)
        /\ \A x \in Alive(h) :
             /\ g[x].next = IF x = c THEN NULL ELSE IF x = y THEN h[c].next ELSE h[x].next
             /\ g[x].prev = IF x = c THEN NULL
                            ELSE IF x = h[c].next \/ (h[c].next = NULL /\ x = f) THEN y ELSE h[x].prev
             /\ g[x].child = h[x].child
    BY <1>1, <1>2, <1>6, <2>4, <2>5, DetachFields
  <2>7. Alive(g) = Alive(h) /\ \A x \in Alive(h) : g[x].ref = h[x].ref BY <2>6 DEF Relinked, SameData
  <2>8. \A x \in Alive(h) :
          /\ g[x].child = IF x = p /\ k = 1 THEN h[s[1]].next ELSE h[x].child
          /\ g[x].next = IF x = s[k] THEN NULL
                         ELSE IF k > 1 /\ x = s[k - 1] THEN h[s[k]].next ELSE h[x].next
    BY <2>1, <2>3, <2>6, <1>3
  <2> QED BY <1>2, <1>3, <2>7, <2>8 DEF TakenOut
<1> QED BY <1>5, <1>6

PutBefore(h, hd, p, c, t, g) ==
  /\ Relinked(h, g) /\ Ready(g, hd \ {t})
  /\ \A x \in Alive(h) :
       /\ g[x].next = IF c # h[p].child /\ x = h[c].prev THEN t ELSE IF x = t THEN c ELSE h[x].next
       /\ g[x].child = IF c = h[p].child /\ x = p THEN t ELSE h[x].child

LEMMA InsertBeforeFields ==
  ASSUME NEW h, NEW hd, Ready(h, hd), NEW p \in Alive(h), ~h[p].ref, h[p].child # NULL,
         \A r \in Alive(h) : h[r].ref => h[r].child # h[p].child, NEW c \in Run(h, h[p].child),
         NEW t \in hd
  PROVE  PutBefore(h, hd, p, c, t, InsertBefore(h, p, c, t))
<1>4. PICK k : k = InsertBefore(h, p, c, t) OBVIOUS
<1>8. /\ Relinked(h, k) /\ Ready(k, hd \ {t})
      /\ t # c /\ t # h[p].child /\ (c # h[p].child => h[c].prev \in Alive(h) \ {t})
      /\ \A x \in Alive(h) :
           /\ k[x].next = IF c # h[p].child /\ x = h[c].prev THEN t ELSE IF x = t THEN c ELSE h[x].next
           /\ k[x].prev = IF x = t THEN h[c].prev ELSE IF x = c THEN t ELSE h[x].prev
           /\ k[x].child = IF c = h[p].child /\ x = p THEN t ELSE h[x].child
      /\ c \in Run(k, k[p].child) /\ k[p].child \in Alive(h)
      /\ \A q \in Alive(k) : k[q].ref => k[q].child # k[p].child
  BY <1>4, InsertBeforeReady, SMTT(30)
<1> QED BY <1>4, <1>8 DEF PutBefore

LEMMA InsertPut ==
  ASSUME NEW h, NEW hd, NEW p, Linking(h, hd, p), NEW c \in Run(h, h[p].child), NEW t \in hd,
         NEW g, g = InsertBefore(h, p, c, t), NEW s, s = Kids(h)[p]
  PROVE  \E k \in 1 .. Len(s) + 1 : PutIn(h, g, p, s, k, t)
<1>1. PICK f, y : f = h[p].child /\ y = h[c].prev OBVIOUS
<1>2. /\ Shape(h) /\ Ready(h, hd) /\ p \in Alive(h) /\ ~h[p].ref /\ f # NULL /\ f \in Alive(h)
      /\ c \in Alive(h) /\ t \in Tops(h) /\ h[t].next = NULL
      /\ \A r \in Alive(h) : h[r].ref => h[r].child # h[p].child
  BY <1>1, LinkingFields
<1>3. PICK k \in 1 .. Len(s) : /\ c = s[k] /\ (k = 1 <=> c = h[p].child)
                               /\ k > 1 => h[c].prev = s[k - 1] /\ h[s[k - 1]].next = c
  BY <1>1, <1>2, ListPlace
<1>4. PutBefore(h, hd, p, c, t, g)
  <2>1. /\ Ready(h, hd) /\ p \in Alive(h) /\ ~h[p].ref /\ h[p].child # NULL
        /\ \A r \in Alive(h) : h[r].ref => h[r].child # h[p].child
    BY DEF Linking
  <2>2. PutBefore(h, hd, p, c, t, InsertBefore(h, p, c, t)) BY <2>1, InsertBeforeFields
  <2> QED BY <2>2
<1>5. Shape(g) /\ Alive(g) = Alive(h) /\ \A x \in Alive(h) : g[x].ref = h[x].ref
  BY <1>4 DEF PutBefore, Ready, Relinked, SameData
<1>6. Len(s) \in Nat BY <1>2, KidsFields
<1>7. k \in 1 .. Len(s) + 1 /\ k <= Len(s) /\ (k > 1 <=> c # h[p].child) BY <1>3, <1>6
<1>8. \A x \in Alive(h) :
        /\ g[x].child = IF x = p /\ k = 1 THEN t ELSE h[x].child
        /\ g[x].next = IF k > 1 /\ x = s[k - 1] THEN t
                       ELSE IF x = t THEN (IF k <= Len(s) THEN s[k] ELSE NULL) ELSE h[x].next
  BY <1>3, <1>4, <1>7 DEF PutBefore
<1>9. PutIn(h, g, p, s, k, t) BY <1>2, <1>5, <1>7, <1>8 DEF PutIn
<1> QED BY <1>7, <1>9

LEMMA ReplaceSwapped ==
  ASSUME NEW h, NEW hd, NEW p, Linking(h, hd, p), NEW c \in Run(h, h[p].child), NEW t \in hd,
         NEW g, g = ReplaceItem(h, p, c, t), Shape(g), NEW s, s = Kids(h)[p]
  PROVE  \E k \in 1 .. Len(s) : c = s[k] /\ SwappedFor(h, g, p, s, k, t)
<1>1. PICK f, b, y : f = h[p].child /\ b = h[c].next /\ y = h[c].prev OBVIOUS
<1>2. /\ Shape(h) /\ Ready(h, hd) /\ p \in Alive(h) /\ ~h[p].ref /\ f # NULL /\ f \in Alive(h)
      /\ c \in Alive(h) /\ b # c /\ t \in Tops(h) /\ h[t].next = NULL /\ t \in Alive(h) /\ t # c
  BY <1>1, LinkingFields
<1>3. PICK k \in 1 .. Len(s) : /\ c = s[k] /\ (k = 1 <=> c = h[p].child)
                               /\ k > 1 => h[c].prev = s[k - 1] /\ h[s[k - 1]].next = c
  BY <1>1, <1>2, ListPlace
<1>4. s \in Seq(Alive(h)) /\ Len(s) \in Nat BY <1>2, KidsFields
<1>5. k > 1 => k - 1 \in 1 .. Len(s) /\ s[k - 1] \in Alive(h) BY <1>3, <1>4
<1>6. c # f => y \in Alive(h) BY <1>1, <1>3, <1>4, <1>5
<1>7. b # t BY <1>1, <1>2 DEF Tops, Starts
<1>8. /\ Relinked(h, g)
      /\ \A x \in Alive(h) :
           /\ g[x].next = IF x = c THEN NULL ELSE IF c # f /\ x = y THEN t
                          ELSE IF x = t THEN b ELSE h[x].next
           /\ g[x].prev = IF x = c THEN NULL ELSE IF c = f /\ y = c /\ x = t THEN t
                          ELSE IF c # f /\ b = NULL /\ x = f THEN t
                          ELSE IF x = b THEN t ELSE IF x = t THEN y ELSE h[x].prev
           /\ g[x].child = IF c = f /\ x = p THEN t ELSE h[x].child
  BY <1>1, <1>2, <1>6, <1>7, ReplaceFields
<1>9. Alive(g) = Alive(h) /\ \A x \in Alive(h) : g[x].ref = h[x].ref BY <1>8 DEF Relinked, SameData
<1>10. k > 1 <=> c # f BY <1>1, <1>3, <1>4
<1>11. \A x \in Alive(h) :
         /\ g[x].child = IF x = p /\ k = 1 THEN t ELSE h[x].child
         /\ g[x].next = IF x = s[k] THEN NULL ELSE IF k > 1 /\ x = s[k - 1] THEN t
                        ELSE IF x = t THEN h[s[k]].next ELSE h[x].next
  BY <1>1, <1>3, <1>8, <1>10
<1> QED BY <1>2, <1>3, <1>9, <1>11 DEF SwappedFor

LEMMA StepSwap ==
  ASSUME NEW b, SameForest(items, b), NEW hd, NEW p, Linking(b, hd, p), NEW c \in Run(b, b[p].child),
         NEW t \in hd, t \in Tops(items), p \notin Under(items, t),
         NEW r, r = ReplaceItem(b, p, c, t), Shape(items'), items' = cJSON_Delete(r, c)
  PROVE  Tree!TreeNext
<1>1. /\ Ready(b, hd) /\ p \in Alive(b) /\ ~b[p].ref /\ b[p].child # NULL
      /\ \A x \in Alive(b) : b[x].ref => b[x].child # b[p].child
  BY DEF Linking
<1>2. /\ Relinked(b, ReplaceItem(b, p, c, t))
      /\ Ready(ReplaceItem(b, p, c, t), (hd \ {t}) \cup {c})
      /\ \A x \in Alive(b) : b[x].ref => ReplaceItem(b, p, c, t)[x].child = b[x].child
  BY <1>1, ReplaceReady
<1>3. PICK hn : hn = (hd \ {t}) \cup {c} OBVIOUS
<1>4. Relinked(b, r) /\ Ready(r, hn) /\ c \in hn BY <1>2, <1>3
<1>5. Shape(r) /\ c \in Tops(r) /\ r[c].next = NULL /\ Alive(r) = Alive(b) BY <1>4, ReadyFields DEF Relinked
<1>6. PICK s : s = Kids(b)[p] OBVIOUS
<1>7. PICK k \in 1 .. Len(s) : c = s[k] /\ SwappedFor(b, r, p, s, k, t) BY <1>5, <1>6, ReplaceSwapped
<1>8. Kids(r) = [Kids(b) EXCEPT ![p] = Tree!ReplaceAt(s, k, t)] BY <1>7, KidReplaced
<1>9. Kids(b) = Kids(items) /\ Alive(b) = Alive(items) /\ Shape(items)
  <2>1. PICK a : a = items OBVIOUS
  <2>2. SameForest(a, b) BY <2>1
  <2>3. Kids(b) = Kids(a) BY <2>2, KidsSame
  <2> QED BY <2>1, <2>2, <2>3 DEF SameForest
<1>10. PICK D, g : D = Doomed(r, c) /\ g = items' OBVIOUS
<1>11. D = Under(r, c) BY <1>5, <1>10, DoomedTrees
<1>12. KidsWithout(r, g, D)
  <2>1. Felled(r, c, D, g) BY <1>5, <1>10 DEF Felled
  <2> QED BY <2>1, KidsDeleted
<1>13. t \in Alive(items) /\ ~ChildOf(items, t) BY <1>9, TopIsOrphan
<1>14. Alive(r) = Alive(items) /\ p \in Alive(items) /\ s = Kids(items)[p] BY <1>1, <1>5, <1>6, <1>9
<1>15. Kids(r) = [Kids(items) EXCEPT ![p] = Tree!ReplaceAt(s, k, t)] BY <1>8, <1>9
<1>16. D = Under(r, s[k]) BY <1>7, <1>11
<1>17. Kids(items') = [x \in Alive(items) \ D |-> Kids(r)[x]] BY <1>10, <1>12, <1>14 DEF KidsWithout
<1>18. Swapped(items, r, items', p, s, k, t, D)
  BY <1>7, <1>9, <1>13, <1>14, <1>15, <1>16, <1>17 DEF Swapped
<1> QED BY <1>18, StepReplace

LEMMA DetachItemTree == ASSUME Inv, Inv', NEW parent, NEW item, DetachItem(parent, item) PROVE StepOfTree
<1>1. PICK h, g : h = items /\ g = items' OBVIOUS
<1>2. /\ job = "idle" /\ Container(parent) /\ item \in Chosen(parent) \ {NULL}
      /\ g = DetachItemViaPointer(h, parent, item)
  BY <1>1 DEF DetachItem, MayCall
<1>3. Ready(h, held) /\ Shape(items) /\ Shape(g) BY <1>1, <1>2, IdleFacts DEF Ready, Inv
<1>4. h[parent].child # NULL /\ item \in Run(h, h[parent].child) BY <1>1, <1>2, <1>3, ChosenFacts
<1>5. Linking(h, held, parent) BY <1>1, <1>2, <1>3, <1>4, ContainerFacts DEF Linking
<1>6. PICK s : s = Kids(h)[parent] OBVIOUS
<1>7. PICK k \in 1 .. Len(s) : TakenOut(h, g, parent, s, k) BY <1>2, <1>3, <1>4, <1>5, <1>6, DetachTaken
<1>8. Kids(g) = [Kids(h) EXCEPT ![parent] = Tree!RemoveAt(s, k)] BY <1>7, KidRemoved
<1>9. parent \in Alive(items) BY <1>2, ContainerFacts
<1>10. Kids(items') = [Kids(items) EXCEPT ![parent] = Tree!RemoveAt(s, k)] /\ s = Kids(items)[parent]
  BY <1>1, <1>6, <1>8
<1> QED BY <1>7, <1>9, <1>10, StepRemove DEF StepOfTree

LEMMA InsertTree ==
  ASSUME Inv, Inv', NEW array, NEW which \in Places, NEW t, Insert(array, which, t)
  PROVE  StepOfTree
<1>1. PICK h, g, c : h = items /\ g = items' /\ c = get_array_item(items, array, which) OBVIOUS
<1>2. /\ job = "idle" /\ Container(array) /\ t \in held /\ array \notin Visible(t)
      /\ g = InsertItemInArray(h, array, which, t)
  BY <1>1 DEF Insert, MayCall
<1>3. Ready(h, held) /\ Shape(h) BY <1>1, <1>2, IdleFacts DEF Ready
<1>4. which \in Nat BY CardinalityNat DEF Places
<1>5. array \in Alive(h) /\ ~h[array].ref BY <1>1, <1>2, ContainerFacts
<1>6. t \in Tops(items) /\ array \notin Under(items, t) BY <1>2, HeldBelow
<1>7. CASE c = NULL
  <2>1. items' = add_item_to_array(h, array, t) BY <1>1, <1>2, <1>7 DEF InsertItemInArray
  <2>2. SameForest(items, h) BY <1>1, <1>3, SelfForest
  <2> QED BY <2>1, <2>2, <1>2, <1>3, <1>5, <1>6, StepAdd DEF StepOfTree
<1>8. CASE c # NULL
  <2>1. g = InsertBefore(h, array, c, t) BY <1>1, <1>2, <1>8 DEF InsertItemInArray, InsertBefore
  <2>2. h[array].child # NULL /\ c \in Run(h, h[array].child)
    BY <1>1, <1>3, <1>4, <1>5, <1>8, GotFromArray
  <2>3. Linking(h, held, array) BY <2>2, <1>1, <1>2, <1>3, <1>5, ContainerFacts DEF Linking
  <2>4. PICK s : s = Kids(h)[array] OBVIOUS
  <2>5. PICK k \in 1 .. Len(s) + 1 : PutIn(h, g, array, s, k, t)
    BY <2>1, <2>2, <2>3, <2>4, <1>2, InsertPut
  <2>6. Kids(g) = [Kids(h) EXCEPT ![array] = Tree!InsertAt(s, k, t)] BY <2>5, KidInserted
  <2>7. t \in Alive(items) /\ ~ChildOf(items, t) BY <1>1, <1>3, <1>6, TopIsOrphan
  <2>8. Kids(items') = [Kids(items) EXCEPT ![array] = Tree!InsertAt(s, k, t)] BY <2>6, <1>1
  <2>9. Shape(items) /\ array \in Alive(items) /\ s = Kids(items)[array] BY <2>4, <1>1, <1>3, <1>5
  <2> QED BY <2>5, <2>7, <2>8, <2>9, <1>6, StepInsert DEF StepOfTree
<1> QED BY <1>7, <1>8

LEMMA ReplaceItemInArrayTree ==
  ASSUME Inv, Inv', NEW array, NEW which \in Places, NEW t, ReplaceItemInArray(array, which, t)
  PROVE  StepOfTree
<1>1. PICK b, c, r : /\ b = items /\ c = get_array_item(items, array, which)
                     /\ r = ReplaceItem(items, array, c, t)
  OBVIOUS
<1>2. /\ job = "idle" /\ Container(array) /\ t \in held /\ array \notin Visible(t) /\ c # NULL
      /\ items' = cJSON_Delete(r, c)
  BY <1>1 DEF ReplaceItemInArray, MayCall
<1>3. Ready(b, held) /\ Shape(b) /\ Shape(items') BY <1>1, <1>2, IdleFacts DEF Ready, Inv
<1>4. which \in Nat BY CardinalityNat DEF Places
<1>5. array \in Alive(b) /\ ~b[array].ref BY <1>1, <1>2, ContainerFacts
<1>6. b[array].child # NULL /\ c \in Run(b, b[array].child) BY <1>1, <1>2, <1>3, <1>4, <1>5, GotFromArray
<1>7. Linking(b, held, array) BY <1>1, <1>2, <1>3, <1>5, <1>6, ContainerFacts DEF Linking
<1>8. t \in Tops(items) /\ array \notin Under(items, t) BY <1>2, HeldBelow
<1>9. SameForest(items, b) BY <1>1, <1>3, SelfForest
<1>10. r = ReplaceItem(b, array, c, t) BY <1>1
<1> QED BY <1>2, <1>3, <1>6, <1>7, <1>8, <1>9, <1>10, StepSwap DEF StepOfTree

LEMMA ReplaceItemInObjectTree ==
  ASSUME Inv, Inv', NEW object, NEW name \in Keys, NEW t, NEW sensitive,
         ReplaceItemInObject(object, name, t, sensitive)
  PROVE  StepOfTree
<1>1. PICK a, b, c, r : /\ a = items /\ b = [items EXCEPT ![t] = Renamed(@, name, FALSE)]
                        /\ c = get_object_item(b, object, name, sensitive)
                        /\ r = ReplaceItem(b, object, c, t)
  OBVIOUS
<1>2. /\ job = "idle" /\ Container(object) /\ t \in held /\ object \notin Visible(t)
      /\ items' = IF c = NULL THEN b ELSE cJSON_Delete(IF c = NULL THEN b ELSE r, c)
  BY <1>1 DEF ReplaceItemInObject, MayCall
<1>3. b = WithName(a, t, name, FALSE) BY <1>1 DEF WithName
<1>4. Ready(a, held) /\ name \in StringTokens \cup {NULL} BY <1>1, <1>2, IdleFacts, KeyFacts
<1>5. SameForest(a, b) /\ Ready(b, held) BY <1>2, <1>3, <1>4, RenamedForest
<1>6. SameForest(items, b) BY <1>1, <1>5
<1>7. CASE c = NULL
  <2>1. items' = b BY <1>2, <1>7
  <2> QED BY <2>1, <1>6, StepSame DEF StepOfTree
<1>8. CASE c # NULL
  <2>1. items' = cJSON_Delete(r, c) BY <1>2, <1>8
  <2>2. object \in Alive(items) /\ ~items[object].ref
        /\ \A x \in Alive(items) : items[x].ref /\ items[object].child # NULL => items[x].child # items[object].child
    BY <1>2, ContainerFacts
  <2>3. object \in Alive(b) /\ ~b[object].ref /\ Shape(b)
        /\ \A x \in Alive(b) : b[x].ref /\ b[object].child # NULL => b[x].child # b[object].child
    BY <2>2, <1>6 DEF SameForest
  <2>4. b[object].child # NULL /\ c \in Run(b, b[object].child) BY <2>3, <1>1, <1>8, GotFromObject
  <2>5. Linking(b, held, object) BY <2>3, <2>4, <1>5 DEF Linking
  <2>6. t \in Tops(items) /\ object \notin Under(items, t) BY <1>2, HeldBelow
  <2>7. Shape(items') BY DEF Inv
  <2>8. r = ReplaceItem(b, object, c, t) BY <1>1
  <2> QED BY <2>1, <2>4, <2>5, <2>6, <2>7, <2>8, <1>2, <1>6, StepSwap DEF StepOfTree
<1> QED BY <1>7, <1>8

LEMMA ReplaceItemInObjectFailsTree ==
  ASSUME Inv, NEW object, NEW t, ReplaceItemInObjectFails(object, t) PROVE StepOfTree
<1>1. job = "idle" /\ t \in held /\ items' = [items EXCEPT ![t].string = NULL]
  BY DEF ReplaceItemInObjectFails, MayCall
<1>2. PICK a, g : a = items /\ g = items' OBVIOUS
<1>3. Ready(a, held) /\ t \in Alive(a) /\ Typed(a) BY <1>1, <1>2, IdleFacts, ReadyFields
<1>4. t \in Nodes /\ a[t] \in ItemRec /\ a[t].const \in BOOLEAN BY <1>3, ItemFields
<1>5. PICK const \in BOOLEAN : const = a[t].const BY <1>4
<1>6. PICK name : name = NULL OBVIOUS
<1>7. g = WithName(a, t, name, const)
  <2>1. [a[t] EXCEPT !.string = NULL] = [a[t] EXCEPT !.string = NULL, !.const = const]
    BY <1>4, <1>5 DEF ItemRec
  <2> QED BY <2>1, <1>1, <1>2, <1>6 DEF WithName, Renamed
<1>8. SameForest(a, g) BY <1>1, <1>3, <1>6, <1>7, RenamedForest
<1>9. SameForest(items, items') BY <1>2, <1>8
<1> QED BY <1>9, StepSame DEF StepOfTree

LEMMA DeleteTree == ASSUME Inv, Inv', NEW item, Delete(item) PROVE StepOfTree
<1>1. job = "idle" /\ item \in held /\ items' = cJSON_Delete(items, item) BY DEF Delete, MayCall
<1>2. Ready(items, held) BY <1>1, IdleFacts
<1>3. item \in Tops(items) /\ Shape(items) BY <1>1, <1>2, ReadyFields
<1>4. Shape(items') BY DEF Inv
<1> QED BY <1>1, <1>3, <1>4, StepDelete DEF StepOfTree

-----------------------------------------------------------------------------
(* The calls that take one step per item. *)
LEMMA StepStill == ASSUME items' = items PROVE StepOfTree
BY DEF StepOfTree, kids, Live

(* t becomes the child of a behind last. *)
LinkTo(h, g, a, last, t) ==
  /\ Shape(h) /\ Shape(g) /\ a \in Alive(h) /\ ~h[a].ref /\ last \in Alive(h) \cup {NULL}
  /\ Building(h, a, last) /\ t \in Tops(h) /\ h[t].next = NULL
  /\ g = IF last # NULL THEN suffix_object(h, last, t) ELSE [h EXCEPT ![a].child = t]

LEMMA LinkPut ==
  ASSUME NEW h, NEW g, NEW a, NEW last, NEW t, LinkTo(h, g, a, last, t), NEW s, s = Kids(h)[a]
  PROVE  \E k \in 1 .. Len(s) + 1 : PutIn(h, g, a, s, k, t)
<1>1. /\ Shape(h) /\ Shape(g) /\ a \in Alive(h) /\ ~h[a].ref /\ last \in Alive(h) \cup {NULL}
      /\ Building(h, a, last) /\ t \in Tops(h) /\ h[t].next = NULL
      /\ g = IF last # NULL THEN suffix_object(h, last, t) ELSE [h EXCEPT ![a].child = t]
  BY DEF LinkTo
<1>2. Typed(h) /\ t \in Alive(h) /\ t \in Nodes /\ NULL \notin Alive(h)
  BY <1>1, NullIsNoNode DEF Shape, Tops, Starts, Alive
<1>3. PICK m : ListOfItems(h, a, s, m) BY <1>1, ListItems
<1>4. /\ m \in Nat /\ m = Len(s) /\ \A i \in 1 .. m : s[i] \in Alive(h)
      /\ \A i \in 1 .. m - 1 : h[s[i]].next = s[i + 1]
      /\ \A i \in 1 .. m : s[i] # t
  BY <1>1, <1>3 DEF ListOfItems
<1>5. CASE last = NULL
  <2>1. h[a].child = NULL /\ s = <<>> /\ Len(s) = 0 BY <1>1, <1>5, KidsFields DEF Building
  <2>2. ChildSet(h, g, a, t)
    <3>1. ChildSet(h, [h EXCEPT ![a].child = t], a, t) BY <1>1, <1>2, LinkSet
    <3> QED BY <3>1, <1>1, <1>5
  <2>3. /\ Alive(g) = Alive(h)
        /\ \A x \in Alive(h) : /\ g[x].ref = h[x].ref /\ g[x].next = h[x].next
                               /\ g[x].child = IF x = a THEN t ELSE h[x].child
    BY <2>2 DEF ChildSet, Relinked, SameData
  <2>4. PICK k : k = 1 OBVIOUS
  <2>5. k \in 1 .. Len(s) + 1 BY <2>1, <2>4
  <2>6. ~(k > 1) /\ ~(k <= Len(s)) BY <2>1, <2>4
  <2>7. PutIn(h, g, a, s, k, t) BY <1>1, <2>3, <2>4, <2>5, <2>6 DEF PutIn
  <2> QED BY <2>5, <2>7
<1>6. CASE last # NULL
  <2>1. PICK c : c = h[a].child OBVIOUS
  <2>2. c # NULL /\ last \in Run(h, c) /\ h[last].next = NULL /\ last \in Alive(h)
    BY <1>1, <1>6, <2>1 DEF Building, IsLast
  <2>3. ToSet(s) = Run(h, c) BY <1>1, <2>1, <2>2, KidsFields
  <2>4. PICK i \in 1 .. m : last = s[i] BY <2>2, <2>3, <1>4 DEF ToSet
  <2>5. i = m
    <3>1. SUFFICES ASSUME i # m PROVE FALSE OBVIOUS
    <3>2. i \in 1 .. m - 1 /\ i + 1 \in 1 .. m BY <3>1, <2>4, <1>4
    <3>3. h[last].next = s[i + 1] /\ s[i + 1] \in Alive(h) BY <3>2, <2>4, <1>4
    <3> QED BY <3>3, <2>2, <1>2
  <2>6. g = suffix_object(h, last, t) BY <1>1, <1>6
  <2>7. /\ Relinked(h, g)
        /\ \A x \in Alive(h) : /\ g[x].next = IF x = last THEN t ELSE h[x].next
                               /\ g[x].prev = IF x = t THEN last ELSE h[x].prev
                               /\ g[x].child = h[x].child
    BY <1>2, <2>2, <2>6, SuffixFields
  <2>8. Alive(g) = Alive(h) /\ \A x \in Alive(h) : g[x].ref = h[x].ref BY <2>7 DEF Relinked, SameData
  <2>9. PICK k : k = m + 1 OBVIOUS
  <2>10. k \in 1 .. Len(s) + 1 /\ k > 1 /\ k # 1 /\ ~(k <= Len(s)) /\ s[k - 1] = last
    BY <1>4, <2>4, <2>5, <2>9
  <2>11. last # t BY <1>4, <2>4
  <2>12. \A x \in Alive(h) :
           /\ g[x].child = IF x = a /\ k = 1 THEN t ELSE h[x].child
           /\ g[x].next = IF k > 1 /\ x = s[k - 1] THEN t
                          ELSE IF x = t THEN (IF k <= Len(s) THEN s[k] ELSE NULL) ELSE h[x].next
    BY <2>7, <2>10, <2>11, <1>1
  <2>13. PutIn(h, g, a, s, k, t) BY <1>1, <2>8, <2>10, <2>12 DEF PutIn
  <2> QED BY <2>10, <2>13
<1> QED BY <1>5, <1>6

LEMMA ArrayStartTree == ASSUME Inv, NEW count, ArrayStart(count) PROVE StepOfTree
<1>1. PICK n, item : n = NewAddress(items) /\ item = [Zeroed EXCEPT !.type = "Array"] OBVIOUS
<1>2. HasMemory(items) /\ items' = cJSON_New_Item(items, item) BY <1>1 DEF ArrayStart
<1>3. Shape(items) BY DEF Inv
<1>4. "Array" \in ItemTypes BY DEF ItemTypes, Types
<1>5. NewItem(items, n, item) BY <1>1, <1>4, NewFields, BareFacts
<1> QED BY <1>1, <1>2, <1>3, <1>5, StepNew DEF StepOfTree

LEMMA ArrayNextTree == ASSUME Inv, Inv', ArrayNext PROVE StepOfTree
<1>1. PICK a, last, open : a = Top.new /\ last = Top.last /\ open = {a} OBVIOUS
<1>2. job = "numbers" BY DEF ArrayNext
<1>3. /\ a \in Alive(items) /\ last \in Alive(items) \cup {NULL} /\ Building(items, a, last)
      /\ Open = open /\ Roots = open /\ Shape(items)
  BY <1>1, <1>2, NumbersFacts, WorkFacts DEF Numbers
<1>4. PICK C : Works(items, open, held, open, C) BY <1>3, WorkFacts
<1>5. CASE items' = items BY <1>5, StepStill
<1>6. ASSUME HasMemory(items), NEW n, n = NewAddress(items), NEW item, item = [Zeroed EXCEPT !.type = "Number"],
             NEW h, h = cJSON_New_Item(items, item),
             items' = IF last = NULL THEN [h EXCEPT ![a].child = n] ELSE suffix_object(h, last, n)
      PROVE  StepOfTree
  <2>1. "Number" \in ItemTypes BY DEF ItemTypes, Types
  <2>2. NewItem(items, n, item) /\ item.next = NULL /\ item.child = NULL /\ ~item.ref
    BY <1>6, <2>1, NewFields, BareFacts
  <2>3. PICK b, g, s : b = items /\ g = items' /\ s = Kids(h)[a] OBVIOUS
  <2>4. Born(b, h, n, item) /\ Works(b, open, held, open, C) BY <1>4, <1>6, <2>2, <2>3 DEF Born
  <2>5. /\ Works(h, open, held, open \cup {n}, C \cup {n})
        /\ n \in Nodes /\ n \notin Alive(b) /\ n # NULL /\ Alive(h) = Alive(b) \cup {n} /\ h[n] = item
        /\ \A x \in Alive(b) : h[x] = b[x] /\ x # n
        /\ \A c \in Alive(b) : Run(b, c) \subseteq Run(h, c)
    BY <2>4, WorkNew
  <2>6. Building(h, a, last) BY <1>3, <2>3, <2>5, AliveFacts DEF Building, IsLast
  <2>7. PICK roots, D : roots = open \cup {n} /\ D = C \cup {n} OBVIOUS
  <2>8. Shape(h) /\ roots \subseteq Tops(h) /\ D \subseteq Alive(h) /\ roots \subseteq D /\ \A x \in D : ~h[x].ref
    <3>1. Works(h, open, held, roots, D) BY <2>5, <2>7
    <3>2. roots \subseteq D BY <3>1 DEF Works
    <3> QED BY <3>1, <3>2, WorksFields
  <2>9. LinkTo(h, g, a, last, n)
    <3>1. a \in roots /\ n \in roots /\ h[n].next = NULL BY <1>1, <2>2, <2>5, <2>7
    <3>2. last \in Alive(h) \cup {NULL} BY <1>3, <2>3, <2>5
    <3>3. Shape(g) BY <2>3 DEF Inv
    <3>4. g = IF last # NULL THEN suffix_object(h, last, n) ELSE [h EXCEPT ![a].child = n] BY <1>6, <2>3
    <3> QED BY <3>1, <3>2, <3>3, <3>4, <2>6, <2>8 DEF LinkTo
  <2>10. PICK k \in 1 .. Len(s) + 1 : PutIn(h, g, a, s, k, n) BY <2>3, <2>9, LinkPut
  <2>11. Kids(g) = [Kids(h) EXCEPT ![a] = Tree!InsertAt(s, k, n)] BY <2>10, KidInserted
  <2>12. BornInto(b, h, n) /\ n \in Nodes BY <1>3, <1>6, <2>2, <2>3, NewBorn
  <2>13. PutNew(b, h, g, a, s, k, n) BY <1>3, <2>3, <2>10, <2>11, <2>12 DEF PutNew
  <2>14. PutNew(items, h, items', a, s, k, n) BY <2>3, <2>13
  <2> QED BY <2>14, StepInsertNew DEF StepOfTree
<1> QED
  <2>1. CASE UNCHANGED <<items, stack>> BY <1>5, <2>1
  <2>2. CASE /\ HasMemory(items)
             /\ LET n == NewAddress(items)
                    h == cJSON_New_Item(items, [Zeroed EXCEPT !.type = "Number"])
                IN /\ items' = IF Top.last = NULL THEN [h EXCEPT ![Top.new].child = n]
                               ELSE suffix_object(h, Top.last, n)
    BY <1>1, <1>6, <2>2
  <2> QED BY <2>1, <2>2 DEF ArrayNext

LEMMA ArrayFailsTree == ASSUME Inv, Inv', ArrayFails PROVE StepOfTree
<1>1. PICK a : a = Top.new OBVIOUS
<1>2. job = "numbers" /\ items' = cJSON_Delete(items, a) BY <1>1 DEF ArrayFails
<1>3. Roots = {a} /\ Shape(items) /\ Shape(items') BY <1>1, <1>2, NumbersFacts DEF Inv
<1>4. PICK C, hd, open, roots : Works(items, open, hd, roots, C) /\ roots = Roots BY WorkFacts
<1>5. a \in Tops(items) BY <1>3, <1>4, WorksFields
<1> QED BY <1>2, <1>3, <1>5, StepDelete DEF StepOfTree

(* Closing a list only sets a prev. *)
LEMMA StepClosed ==
  ASSUME NEW a \in Alive(items), NEW last \in Alive(items) \cup {NULL}, Shape(items), Shape(items'),
         items' = IF items[a].child = NULL THEN items ELSE [items EXCEPT ![items[a].child].prev = last]
  PROVE  StepOfTree
<1>1. CASE items[a].child = NULL BY <1>1, StepStill
<1>2. CASE items[a].child # NULL
  <2>1. PICK h, g, c : h = items /\ g = items' /\ c = items[a].child OBVIOUS
  <2>2. c \in Alive(h) /\ Typed(h) /\ Shape(h) /\ Shape(g) /\ last \in Nodes \cup {NULL}
    BY <1>2, <2>1, AliveFacts DEF Shape, Alive
  <2>3. PrevSet(h, g, c, last)
    <3>1. PrevSet(h, [h EXCEPT ![c].prev = last], c, last) BY <2>2, LinkSet
    <3>2. g = [h EXCEPT ![c].prev = last] BY <1>2, <2>1
    <3> QED BY <3>1, <3>2
  <2>4. SameForest(h, g) BY <2>2, <2>3 DEF PrevSet, Relinked, SameData, SameForest
  <2>5. SameForest(items, items') BY <2>1, <2>4
  <2> QED BY <2>5, StepSame DEF StepOfTree
<1> QED BY <1>1, <1>2

LEMMA ArrayDoneTree == ASSUME Inv, Inv', ArrayDone PROVE StepOfTree
<1>1. PICK a, last : a = Top.new /\ last = Top.last OBVIOUS
<1>2. /\ job = "numbers"
      /\ items' = IF items[a].child = NULL THEN items ELSE [items EXCEPT ![items[a].child].prev = last]
  BY <1>1 DEF ArrayDone
<1>3. a \in Alive(items) /\ last \in Alive(items) \cup {NULL} BY <1>1, <1>2, NumbersFacts DEF Numbers
<1>4. Shape(items) /\ Shape(items') BY DEF Inv
<1> QED BY <1>2, <1>3, <1>4, StepClosed

LEMMA DupStartTree == ASSUME NEW item, NEW recurse, DupStart(item, recurse) PROVE StepOfTree
BY StepStill DEF DupStart, heapVars

LEMMA DupDoneTree == ASSUME DupDone PROVE StepOfTree
BY StepStill DEF DupDone

LEMMA DupEnterTree == ASSUME Inv, DupEnter PROVE StepOfTree
<1>1. PICK n, x, s, new : n = NewAddress(items) /\ x = Original /\ s = stack /\ new = Copied(items[x], n)
  OBVIOUS
<1>2. job \in {"copy", "shallow"} /\ at = "copy" BY DEF DupEnter
<1>3. /\ source \in Alive(items) /\ Stacked(items, s) /\ CopyAt(items, s, job, at, ret) /\ Shape(items)
  BY <1>1, <1>2, CopyFacts, WorkFacts
<1>4. x \in Alive(items)
  <2>1. CASE s = <<>> BY <1>1, <1>3, <2>1 DEF Original
  <2>2. CASE s # <<>>
    <3>1. x = Last(s).from BY <1>1, <2>2 DEF Original, Top
    <3>2. Last(s) \in CopyFrame(items) /\ Last(s).from # NULL BY <1>2, <1>3, <2>2, StackPop DEF CopyAt
    <3> QED BY <3>1, <3>2 DEF CopyFrame
  <2> QED BY <2>1, <2>2
<1>5. CASE items' = items BY <1>5, StepStill
<1>6. CASE HasMemory(items) /\ items' = cJSON_New_Item(items, new)
  <2>1. n \in Nodes BY <1>1, <1>6, FreeAddress
  <2>2. NewItem(items, n, new) BY <1>1, <1>3, <1>4, <2>1, CopiedFacts DEF Shape
  <2> QED BY <1>1, <1>3, <1>6, <2>2, StepNew DEF StepOfTree
<1> QED BY <1>1, <1>5, <1>6 DEF DupEnter

LEMMA DupWalkTree == ASSUME Inv, Inv', DupWalk PROVE StepOfTree
<1>1. PICK s, a, last : s = stack /\ a = Last(s).new /\ last = Last(s).last OBVIOUS
<1>2. job = "copy" /\ at = "walk" /\ stack # <<>> BY DEF DupWalk, Inv, CopyOK
<1>3. Top = Last(s) /\ a \in Alive(items) /\ last \in Alive(items) \cup {NULL} BY <1>1, <1>2, CopyTop
<1>4. Shape(items) /\ Shape(items') BY DEF Inv
<1>5. CASE items' = items BY <1>5, StepStill
<1>6. CASE items' = IF items[a].child = NULL THEN items ELSE [items EXCEPT ![items[a].child].prev = last]
  BY <1>3, <1>4, <1>6, StepClosed
<1> QED BY <1>1, <1>3, <1>5, <1>6 DEF DupWalk

LEMMA DupLinkTree == ASSUME Inv, Inv', DupLink PROVE StepOfTree
<1>1. PICK s, a, last, n, h, g : /\ s = stack /\ a = Last(s).new /\ last = Last(s).last /\ n = ret
                                 /\ h = items /\ g = items'
  OBVIOUS
<1>2. job = "copy" /\ at = "return" /\ stack # <<>> BY DEF DupLink
<1>3. /\ Top = Last(s) /\ a \in News(s) /\ a \in Alive(items) /\ last \in Alive(items) \cup {NULL}
      /\ Building(items, a, last) /\ CopyAt(items, s, job, at, ret) /\ Roots = CopyRoots(s, at, ret)
  BY <1>1, <1>2, CopyTop
<1>4. n \in Alive(items) /\ items[n].next = NULL /\ n \notin News(s) /\ a \in Roots /\ n \in Roots
  BY <1>1, <1>2, <1>3 DEF CopyAt, CopyRoots
<1>5. Shape(items) /\ Shape(items') BY DEF Inv
<1>6. ~items[a].ref /\ n \in Tops(items) /\ a \in Tops(items)
  <2>1. PICK C, hd, open, roots : Works(items, open, hd, roots, C) /\ roots = Roots BY WorkFacts
  <2>2. roots \subseteq C BY <2>1 DEF Works
  <2> QED BY <2>1, <2>2, <1>4, WorksFields
<1>7. g = IF last # NULL THEN suffix_object(h, last, n) ELSE [h EXCEPT ![a].child = n]
  BY <1>1, <1>3 DEF DupLink
<1>8. LinkTo(h, g, a, last, n) BY <1>1, <1>3, <1>4, <1>5, <1>6, <1>7 DEF LinkTo
<1>9. PICK l : l = Kids(h)[a] OBVIOUS
<1>10. PICK k \in 1 .. Len(l) + 1 : PutIn(h, g, a, l, k, n) BY <1>8, <1>9, LinkPut
<1>11. Kids(g) = [Kids(h) EXCEPT ![a] = Tree!InsertAt(l, k, n)] BY <1>10, KidInserted
<1>12. ~ChildOf(items, n) /\ a \notin Under(items, n)
  <2>1. Shape(h) /\ n \in Alive(h) /\ n \in Tops(h) /\ a \in Tops(h) /\ a # n BY <1>1, <1>3, <1>4, <1>5, <1>6
  <2>2. ~ChildOf(h, n) /\ a \notin Under(h, n) BY <2>1, TopIsOrphan, TopUnder
  <2> QED BY <2>2, <1>1
<1>13. Kids(items') = [Kids(items) EXCEPT ![a] = Tree!InsertAt(l, k, n)] /\ l = Kids(items)[a]
  BY <1>1, <1>9, <1>11
<1> QED BY <1>3, <1>4, <1>5, <1>10, <1>12, <1>13, StepInsert DEF StepOfTree

LEMMA StepUnwind ==
  ASSUME Inv, Inv', NEW n, n = NULL \/ n \in Roots, items' = cJSON_Delete(items, n)
  PROVE  StepOfTree
<1>1. Shape(items) /\ Shape(items') /\ Typed(items) BY DEF Inv, Shape
<1>2. CASE n = NULL
  <2>1. items' = cJSON_Delete(items, NULL) BY <1>2
  <2>2. PICK h : h = items OBVIOUS
  <2>3. cJSON_Delete(h, NULL) = h BY <1>1, <2>2, DeleteNothing
  <2> QED BY <2>1, <2>2, <2>3, StepStill
<1>3. CASE n \in Roots
  <2>1. PICK C, hd, open, roots : Works(items, open, hd, roots, C) /\ roots = Roots BY WorkFacts
  <2>2. n \in Tops(items) BY <1>3, <2>1, WorksFields
  <2> QED BY <1>1, <2>2, StepDelete DEF StepOfTree
<1> QED BY <1>2, <1>3

LEMMA DupFailsTree == ASSUME Inv, Inv', DupFails PROVE StepOfTree
<1>1. PICK s, a : s = stack /\ a = Last(s).new OBVIOUS
<1>2. job = "copy" /\ stack # <<>> BY DEF DupFails
<1>3. Top = Last(s) /\ a \in News(s) /\ Roots = CopyRoots(s, at, ret) BY <1>1, <1>2, CopyTop
<1>4. a \in Roots BY <1>3 DEF CopyRoots
<1>5. items' = cJSON_Delete(items, a) BY <1>1, <1>3 DEF DupFails, Unwind
<1> QED BY <1>4, <1>5, StepUnwind

-----------------------------------------------------------------------------
(* Parsing. *)
LEMMA ParseOpenTree == ASSUME ParseOpen PROVE StepOfTree
BY StepStill DEF ParseOpen

LEMMA ParseNoValueTree == ASSUME ParseNoValue PROVE StepOfTree
BY StepStill DEF ParseNoValue

LEMMA ParseNextTree == ASSUME ParseNext PROVE StepOfTree
BY StepStill DEF ParseNext

LEMMA ParseDoneTree == ASSUME NEW require, ParseDone(require) PROVE StepOfTree
BY StepStill DEF ParseDone

LEMMA ParseStartTree == ASSUME Inv, ParseStart PROVE StepOfTree
<1>1. PICK n, item : n = NewAddress(items) /\ item = Zeroed OBVIOUS
<1>2. NewItem(items, n, item) BY <1>1, NewFields, BareFacts
<1>3. Shape(items) BY DEF Inv
<1>4. CASE items' = items BY <1>4, StepStill
<1>5. CASE HasMemory(items) /\ items' = cJSON_New_Item(items, item)
  BY <1>1, <1>2, <1>3, <1>5, StepNew DEF StepOfTree
<1> QED BY <1>1, <1>4, <1>5 DEF ParseStart

(* An item gets a type, a string or a name. *)
LEMMA StepLabelled ==
  ASSUME Shape(items), Shape(items'), NEW x \in Alive(items), NEW item \in ItemRec,
         item.next = items[x].next, item.child = items[x].child, item.ref = items[x].ref,
         items' = [items EXCEPT ![x] = item]
  PROVE  StepOfTree
<1>1. PICK h, g : h = items /\ g = items' OBVIOUS
<1>2. h \in [Nodes -> ItemRec \cup {Freed}] /\ x \in Nodes /\ g = [h EXCEPT ![x] = item]
  BY <1>1 DEF Shape, Typed, Alive
<1>3. g[x] = item /\ \A y \in Nodes \ {x} : g[y] = h[y] BY <1>2
<1>4. item # Freed /\ x \in Alive(h) BY <1>1, NotFreed
<1>5. Alive(g) = Alive(h) BY <1>3, <1>4 DEF Alive
<1>6. \A y \in Alive(h) : g[y].ref = h[y].ref /\ g[y].child = h[y].child /\ g[y].next = h[y].next
  BY <1>1, <1>3 DEF Alive
<1>7. SameForest(h, g) BY <1>1, <1>5, <1>6 DEF SameForest
<1>8. SameForest(items, items') BY <1>1, <1>7
<1> QED BY <1>8, StepSame DEF StepOfTree

LEMMA ParseScalarTree == ASSUME Inv, Inv', ParseScalar PROVE StepOfTree
<1>1. PICK x, type, item : x = Item /\ type = Literals[Here] /\ item = [items[x] EXCEPT !.type = type] OBVIOUS
<1>2. job = "text" /\ at = "value" /\ Here \in DOMAIN Literals /\ items' = [items EXCEPT ![x] = item]
  BY <1>1 DEF ParseScalar, Parsing
<1>3. x \in Alive(items) /\ items[x] \in ItemRec BY <1>1, <1>2, ValueFacts
<1>4. type \in ItemTypes BY <1>1, <1>2, LiteralTokens
<1>5. item \in ItemRec /\ item.next = items[x].next /\ item.child = items[x].child /\ item.ref = items[x].ref
  BY <1>1, <1>3, <1>4 DEF ItemRec
<1>6. Shape(items) /\ Shape(items') BY DEF Inv
<1> QED BY <1>2, <1>3, <1>5, <1>6, StepLabelled

LEMMA ParseStringTree == ASSUME Inv, Inv', ParseString PROVE StepOfTree
<1>1. PICK x, item : x = Item /\ item = [items[x] EXCEPT !.type = "String", !.value = x] OBVIOUS
<1>2. job = "text" /\ at = "value" BY DEF ParseString, Parsing
<1>3. x \in Alive(items) /\ items[x] \in ItemRec /\ Shape(items) /\ Shape(items') BY <1>1, <1>2, ValueFacts DEF Inv
<1>4. CASE items' = items BY <1>4, StepStill
<1>5. CASE items' = [items EXCEPT ![x].type = "String", ![x].value = x]
  <2>1. x \in Nodes /\ "String" \in ItemTypes BY <1>3 DEF Alive, ItemTypes, Types
  <2>2. item \in ItemRec /\ item.next = items[x].next /\ item.child = items[x].child /\ item.ref = items[x].ref
    BY <1>1, <1>3, <2>1 DEF ItemRec
  <2>3. items \in [Nodes -> ItemRec \cup {Freed}] BY <1>3 DEF Shape, Typed
  <2>4. items' = [items EXCEPT ![x] = item] BY <1>1, <1>5, <2>1, <2>3
  <2> QED BY <1>3, <2>2, <2>4, StepLabelled
<1> QED BY <1>1, <1>4, <1>5 DEF ParseString

LEMMA ParseNameTree == ASSUME Inv, Inv', ParseName PROVE StepOfTree
<1>1. PICK x, name, item : /\ x = Item /\ name = Here
                           /\ item = [items[x] EXCEPT !.type = "String", !.string = name]
  OBVIOUS
<1>2. job = "text" /\ at = "name" BY DEF ParseName, Parsing
<1>3. x \in Alive(items) /\ items[x] \in ItemRec /\ Shape(items) /\ Shape(items') BY <1>1, <1>2, ValueFacts DEF Inv
<1>4. TextAt(items, source, stack, "name") BY <1>2, TextFacts
<1>5. Top.current = x BY <1>1, <1>4 DEF TextAt, Item
<1>6. CASE items' = items BY <1>6, StepStill
<1>7. CASE name \in StringTokens /\ items' = [items EXCEPT ![x].type = "String", ![x].string = name]
  <2>1. x \in Nodes /\ "String" \in ItemTypes BY <1>3 DEF Alive, ItemTypes, Types
  <2>2. name \in StringTokens \cup {NULL} BY <1>7
  <2>3. item \in ItemRec /\ item.next = items[x].next /\ item.child = items[x].child /\ item.ref = items[x].ref
    BY <1>1, <1>3, <2>1, <2>2 DEF ItemRec
  <2>4. items \in [Nodes -> ItemRec \cup {Freed}] BY <1>3 DEF Shape, Typed
  <2>5. items' = [items EXCEPT ![x] = item] BY <1>1, <1>7, <2>1, <2>4
  <2> QED BY <1>3, <2>3, <2>5, StepLabelled
<1> QED BY <1>1, <1>5, <1>6, <1>7 DEF ParseName

LEMMA ParseElementTree == ASSUME Inv, Inv', ParseElement PROVE StepOfTree
<1>1. PICK s, t, src, f, n, h, g : /\ s = stack /\ t = Front(s) /\ src = source /\ f = Last(s)
                                   /\ n = NewAddress(items) /\ h = cJSON_New_Item(items, Zeroed) /\ g = items'
  OBVIOUS
<1>2. job = "text" /\ at = "element" /\ stack # <<>> BY TextFacts DEF ParseElement, Parsing, TextAt
<1>3. /\ Top = f /\ Len(s) \in 1 .. Len(s) /\ f = s[Len(s)] /\ Shape(items) /\ Shape(g)
  BY <1>1, <1>2, TextTop DEF Inv
<1>4. PICK C : Works(items, {}, {}, TextRoots(src, s), C) /\ Apart(items, src, s, C) BY <1>1, <1>2, TextTop
<1>5. CASE items' = items BY <1>5, StepStill
<1>6. CASE HasMemory(items) /\ items' = IF f.head = NULL THEN h ELSE suffix_object(h, f.current, n)
  <2>1. PICK item, b : item = Zeroed /\ b = items OBVIOUS
  <2>2. NewItem(b, n, item) /\ item.child = NULL /\ item.ref = FALSE BY <2>1, NewFields, BareFacts
  <2>3. Shape(b) /\ HasMemory(b) /\ n = NewAddress(b) /\ h = cJSON_New_Item(b, item) BY <1>1, <1>3, <1>6, <2>1
  <2>4. CASE f.head = NULL
    <3>1. items' = cJSON_New_Item(items, item) /\ HasMemory(items) /\ n = NewAddress(items) /\ NewItem(items, n, item)
      BY <1>1, <1>6, <2>1, <2>2, <2>4
    <3> QED BY <1>3, <3>1, StepNew DEF StepOfTree
  <2>5. CASE f.head # NULL
    <3>1. /\ n \notin Alive(b) /\ n \in Nodes /\ Alive(h) = Alive(b) \cup {n} /\ h[n] = item
          /\ \A x \in Alive(b) : h[x] = b[x]
          /\ Shape(h)
      BY <2>2, <2>3, NewShaped
    <3>2. PICK l, c, i : l = f.current /\ c = f.head /\ i = Len(s) OBVIOUS
    <3>3. c \in Tops(b) /\ l \in Run(b, c)
      <4>1. i \in 1 .. Len(s) /\ s[i].head # NULL /\ s[i].head = c /\ s[i].current = l BY <1>3, <2>5, <3>2
      <4>2. s[i].head \in Tops(items) /\ s[i].current \in Run(items, s[i].head) BY <1>4, <4>1 DEF Apart
      <4> QED BY <4>1, <4>2, <2>1
    <3>4. l \in Alive(b) /\ ~ChildOf(b, l)
      <4>1. c \in Alive(b) BY <3>3 DEF Tops, Starts
      <4>2. l \in Alive(b) BY <2>3, <3>3, <4>1, RunFacts
      <4> QED BY <2>3, <3>3, <4>2, OrphanFacts
    <3>5. g = suffix_object(h, l, n) BY <1>1, <1>6, <2>5, <3>2
    <3>6. /\ Relinked(h, g)
          /\ \A x \in Alive(h) : /\ g[x].next = IF x = l THEN n ELSE h[x].next
                                 /\ g[x].prev = IF x = n THEN l ELSE h[x].prev
                                 /\ g[x].child = h[x].child
      <4>1. Typed(h) /\ l \in Alive(h) /\ n \in Alive(h) BY <3>1, <3>4 DEF Shape
      <4> QED BY <3>5, <4>1, SuffixFields
    <3>7. Alive(g) = Alive(b) \cup {n} /\ \A x \in Alive(h) : g[x].ref = h[x].ref
      BY <3>1, <3>6 DEF Relinked, SameData
    <3>8. \A x \in Alive(b) : /\ g[x].ref = b[x].ref /\ g[x].child = b[x].child
                              /\ g[x].next # b[x].next => ~ChildOf(b, x)
      BY <3>1, <3>4, <3>6, <3>7
    <3>9. g[n].child = NULL BY <2>2, <3>1, <3>6
    <3>10. BornInto(b, g, n) BY <1>3, <2>3, <3>1, <3>7, <3>8, <3>9 DEF BornInto
    <3>11. BornInto(items, items', n) BY <1>1, <2>1, <3>10
    <3> QED BY <3>1, <3>11, StepBorn DEF StepOfTree
  <2> QED BY <2>4, <2>5
<1> QED BY <1>1, <1>3, <1>5, <1>6 DEF ParseElement

LEMMA ParseCloseTree == ASSUME Inv, Inv', ParseClose PROVE StepOfTree
<1>1. PICK s, t, src, f, it, c, l, kind, g :
         /\ s = stack /\ t = Front(s) /\ src = source /\ f = Last(s) /\ it = f.item /\ c = f.head
         /\ l = f.current /\ kind = f.kind /\ g = items'
  OBVIOUS
<1>2. job = "text" /\ at = "close" /\ stack # <<>> BY TextFacts DEF ParseClose, Parsing, TextAt
<1>3. /\ Filled(items, src, s) /\ Deeper(items, src, t, f) /\ Top = f /\ Filling(items, f)
      /\ kind \in {"Array", "Object"} /\ it \in Alive(items)
      /\ c \in Alive(items) \cup {NULL} /\ c # src /\ src \in Alive(items)
      /\ l \in Alive(items) \cup {NULL}
      /\ (c # NULL => c \in TextRoots(src, s)) /\ src \in TextRoots(src, s)
      /\ Len(s) \in Nat \ {0} /\ f = s[Len(s)] /\ Len(t) = Len(s) - 1
      /\ \A i \in 1 .. Len(t) : i \in 1 .. Len(s) /\ i # Len(s) /\ t[i] = s[i]
  BY <1>1, <1>2, TextTop
<1>4. PICK C : Works(items, {}, {}, TextRoots(src, s), C) /\ Apart(items, src, s, C) BY <1>1, <1>2, TextTop
<1>5. PICK b : b = items OBVIOUS
<1>6. /\ Shape(b) /\ Shape(g) /\ b \in [Nodes -> ItemRec \cup {Freed}] /\ it \in Nodes /\ b[it] \in ItemRec
      /\ c \in Nodes \cup {NULL} /\ (c # NULL => b[c] \in ItemRec) /\ l \in Nodes \cup {NULL}
      /\ it \in Alive(b) /\ NULL \notin Alive(b)
  BY <1>1, <1>3, <1>5, NullIsNoNode, ItemFields DEF Inv, Shape, Typed, Alive
<1>7. /\ it # c /\ b[it].child = NULL /\ ~b[it].ref /\ TextRoots(src, s) \subseteq Tops(b)
  <2>1. PICK k : k = Len(s) OBVIOUS
  <2>2. k \in 1 .. Len(s) /\ s[k].item = it /\ s[k].head = c BY <1>1, <1>3, <2>1
  <2>3. it \in C /\ it # c BY <1>4, <2>2 DEF Apart
  <2>4. PICK roots, open, hd : roots = TextRoots(src, s) /\ open = {} /\ hd = {} OBVIOUS
  <2>5. Works(b, open, hd, roots, C) BY <1>4, <1>5, <2>4
  <2>6. ~b[it].ref /\ roots \subseteq Tops(b) BY <2>3, <2>5, WorksFields
  <2>7. b[it].child = NULL BY <1>1, <1>3, <1>5, SMTT(30) DEF Filling
  <2> QED BY <2>3, <2>4, <2>6, <2>7
<1>8. items' = [IF c = NULL THEN items ELSE [items EXCEPT ![c].prev = l] EXCEPT ![it].type = kind, ![it].child = c]
  BY <1>1, <1>3 DEF ParseClose
<1>9. CASE c = NULL
  <2>1. PICK item : item = [[b[it] EXCEPT !.type = kind] EXCEPT !.child = c] OBVIOUS
  <2>2. kind \in ItemTypes BY <1>3 DEF ItemTypes, Types
  <2>3. item \in ItemRec /\ item.next = b[it].next /\ item.child = b[it].child /\ item.ref = b[it].ref
    BY <1>6, <1>7, <1>9, <2>1, <2>2, ZenonT(60) DEF ItemRec
  <2>4. g = [b EXCEPT ![it] = item] BY <1>1, <1>5, <1>6, <1>8, <1>9, <2>1
  <2>5. /\ Shape(items) /\ Shape(items') /\ it \in Alive(items) /\ items' = [items EXCEPT ![it] = item]
        /\ item.next = items[it].next /\ item.child = items[it].child /\ item.ref = items[it].ref
    BY <1>1, <1>5, <1>6, <2>3, <2>4
  <2> QED BY <2>3, <2>5, StepLabelled
<1>10. CASE c # NULL
  <2>1. c \in Tops(b) /\ c \in Alive(b) /\ c \in Nodes BY <1>3, <1>5, <1>6, <1>7, <1>10
  <2>2. g = [[b EXCEPT ![c].prev = l] EXCEPT ![it].type = kind, ![it].child = c] BY <1>1, <1>5, <1>8, <1>10
  <2>3. g[it] = [[b[it] EXCEPT !.type = kind] EXCEPT !.child = c] BY <1>6, <1>7, <2>1, <2>2
  <2>4. g[c] = [b[c] EXCEPT !.prev = l] BY <1>6, <1>7, <2>1, <2>2
  <2>5. \A x \in Nodes \ {it, c} : g[x] = b[x] BY <1>6, <2>2
  <2>6. g[it] \in ItemRec /\ g[it].ref = b[it].ref /\ g[it].next = b[it].next /\ g[it].child = c
    <3>1. kind \in ItemTypes BY <1>3 DEF ItemTypes, Types
    <3> QED BY <1>6, <2>1, <2>3, <3>1 DEF ItemRec
  <2>7. g[c] \in ItemRec /\ g[c].ref = b[c].ref /\ g[c].next = b[c].next /\ g[c].child = b[c].child
    BY <1>6, <2>1, <2>4 DEF ItemRec
  <2>8. Alive(g) = Alive(b)
    <3>1. g[it] # Freed /\ g[c] # Freed BY <2>6, <2>7, NotFreed
    <3> QED BY <1>6, <2>1, <2>5, <3>1 DEF Alive
  <2>9. \A x \in Alive(b) : /\ g[x].ref = b[x].ref /\ g[x].next = b[x].next
                            /\ g[x].child = IF x = it THEN c ELSE b[x].child
    BY <1>7, <2>5, <2>6, <2>7 DEF Alive
  <2>10. GivenList(b, g, it, c) BY <1>6, <1>7, <2>1, <2>8, <2>9 DEF GivenList
  <2>11. PICK d \in Tops(b) : it \in Run(b, d) /\ d # c
    <3>1. CASE t = <<>>
      <4>1. it = src BY <1>1, <1>3, <3>1 DEF Deeper, ItemOf
      <4>2. src \in Tops(b) BY <1>3, <1>7
      <4>3. src \in Run(b, src) BY <1>3, <1>5, <1>6, RunFacts
      <4> QED BY <1>3, <4>1, <4>2, <4>3
    <3>2. CASE t # <<>>
      <4>1. it = Last(t).current BY <1>1, <1>3, <3>2 DEF Deeper, ItemOf
      <4>2. PICK m, k : m = Len(s) /\ k = Len(t) OBVIOUS
      <4>3. k \in Nat \ {0} /\ Last(t) = t[k]
        <5>1. t \in Seq(Frame(items))
          <6>1. Filled(items, src, t) BY <1>1, <1>2, TextTop
          <6> QED BY <6>1 DEF Filled
        <5> QED BY <3>2, <4>2, <5>1 DEF Last
      <4>4. /\ k \in 1 .. Len(s) /\ m \in 1 .. Len(s) /\ k # m /\ s[k].current = it /\ s[m].head = c
        BY <1>1, <1>3, <4>1, <4>2, <4>3
      <4>5. it # NULL BY <1>6
      <4>6. s[k].head # NULL /\ s[k].head \in Tops(items) /\ s[k].current \in Run(items, s[k].head)
        BY <1>4, <4>4, <4>5 DEF Apart
      <4>7. s[k].head # s[m].head BY <1>3, <4>4, <4>6 DEF Filled
      <4> QED BY <1>5, <4>4, <4>6, <4>7
    <3> QED BY <3>1, <3>2
  <2>12. ~ChildOf(b, it) BY <1>6, <2>11, OrphanFacts
  <2>13. it \notin Run(b, c)
    <3>1. d \in Starts(b) /\ c \in Starts(b) BY <2>1, <2>11 DEF Tops
    <3> QED BY <1>6, <2>11, <3>1, RunsMeet
  <2>14. GivenList(items, items', it, c) /\ ~ChildOf(items, it) /\ it \notin Run(items, c)
    BY <1>1, <1>5, <2>10, <2>12, <2>13
  <2> QED BY <2>14, StepGiven DEF StepOfTree
<1> QED BY <1>9, <1>10

LEMMA ParseFailsTree == ASSUME Inv, Inv', ParseFails PROVE StepOfTree
<1>1. PICK s, t, src, c : s = stack /\ t = Front(s) /\ src = source /\ c = Last(s).head OBVIOUS
<1>2. job = "text" /\ stack # <<>> BY DEF ParseFails
<1>3. Top = Last(s) /\ (Last(s).head # NULL => Last(s).head \in TextRoots(src, s)) BY <1>1, <1>2, TextTop
<1>4. c = NULL \/ c \in TextRoots(src, s) BY <1>1, <1>3
<1>5. Roots = TextRoots(src, s) BY <1>1, <1>2 DEF Roots, TextRoots, Heads, Activations, ToSet
<1>6. items' = cJSON_Delete(items, c) BY <1>1, <1>3 DEF ParseFails, Unwind
<1> QED BY <1>4, <1>5, <1>6, StepUnwind

LEMMA ParseFailedTree == ASSUME Inv, Inv', ParseFailed PROVE StepOfTree
<1>1. PICK n : n = source OBVIOUS
<1>2. job = "text" /\ items' = cJSON_Delete(items, n) BY <1>1 DEF ParseFailed
<1>3. n = NULL \/ n \in Roots BY <1>1, <1>2 DEF Roots
<1> QED BY <1>2, <1>3, StepUnwind

-----------------------------------------------------------------------------
(* No item has a child when the program begins. *)
LEMMA TreeStarts == Init => Tree!TreeInit
<1> SUFFICES ASSUME Init PROVE Tree!TreeInit OBVIOUS
<1>1. Shape(items) BY InitInv DEF Inv
<1>2. items = Empty \/ items = Detached BY DEF Init
<1>3. \A n \in Alive(items) : items[n].child = NULL
  <2>1. CASE items = Empty BY <2>1 DEF Empty, Alive
  <2>2. CASE items = Detached
    <3>1. PICK k, a, b : /\ k = (CHOOSE key \in Keys : TRUE) /\ a = [Zeroed EXCEPT !.type = "Object"]
                         /\ b = [Zeroed EXCEPT !.type = "Array", !.const = TRUE, !.string = k]
      OBVIOUS
    <3>2. a.child = NULL /\ b.child = NULL BY <3>1 DEF Zeroed
    <3>3. 1 \in Nodes /\ 2 \in Nodes BY CJsonAssumption
    <3>4. items = [Empty EXCEPT ![1] = a, ![2] = b] BY <2>2, <3>1 DEF Detached
    <3>5. items[1] = a /\ items[2] = b /\ \A n \in Nodes \ {1, 2} : items[n] = Freed
      BY <3>3, <3>4 DEF Empty
    <3> QED BY <3>2, <3>5 DEF Alive
  <2> QED BY <1>2, <2>1, <2>2
<1>4. \A n \in Alive(items) : Kids(items)[n] = <<>>
  <2>1. SUFFICES ASSUME NEW n \in Alive(items) PROVE Kids(items)[n] = <<>> OBVIOUS
  <2>2. PICK h, s : h = items /\ s = Kids(h)[n] OBVIOUS
  <2>3. Shape(h) /\ n \in Alive(h) /\ h[n].child = NULL BY <1>1, <1>3, <2>1, <2>2
  <2>4. s = <<>> BY <2>2, <2>3, KidsFields
  <2> QED BY <2>2, <2>4
<1> QED BY <1>4, KidsNow DEF Tree!TreeInit

LEMMA EditTree == ASSUME Inv, Inv', Edit PROVE StepOfTree
<1>1. CASE \E type \in Types : Create(type) BY <1>1, CreateTree
<1>2. CASE \E p \in Live : CreateReference(p) BY <1>2, CreateReferenceTree
<1>3. CASE \E p, n \in Live : AddItemToArray(p, n) BY <1>3, AddItemToArrayTree
<1>4. CASE \E p, n \in Live, name \in Keys, const \in BOOLEAN : AddItemToObject(p, name, n, const)
  BY <1>4, AddItemToObjectTree
<1>5. CASE \E p \in Live, name \in Keys, type \in Types : AddNewToObject(p, name, type)
  BY <1>5, AddNewToObjectTree
<1>6. CASE \E p, n \in Live : AddItemReferenceToArray(p, n) BY <1>6, AddItemReferenceToArrayTree
<1>7. CASE \E p, n \in Live, name \in Keys : AddItemReferenceToObject(p, name, n)
  BY <1>7, AddItemReferenceToObjectTree
<1>8. CASE \E p, n \in Live : DetachItem(p, n) BY <1>8, DetachItemTree
<1>9. CASE \E p, n \in Live, which \in Places : Insert(p, which, n) BY <1>9, InsertTree
<1>10. CASE \E p, n \in Live, which \in Places : ReplaceItemInArray(p, which, n)
  BY <1>10, ReplaceItemInArrayTree
<1>11. CASE \E p, n \in Live, name \in Keys, sensitive \in BOOLEAN : ReplaceItemInObject(p, name, n, sensitive)
  BY <1>11, ReplaceItemInObjectTree
<1>12. CASE \E p, n \in Live : ReplaceItemInObjectFails(p, n) BY <1>12, ReplaceItemInObjectFailsTree
<1>13. CASE \E n \in Live : Delete(n) BY <1>13, DeleteTree
<1>14. CASE \E count \in 0 .. MaxCount : ArrayStart(count) BY <1>14, ArrayStartTree
<1>15. CASE \E n \in Live, recurse \in BOOLEAN : DupStart(n, recurse) BY <1>15, DupStartTree
<1> QED
  BY <1>1, <1>2, <1>3, <1>4, <1>5, <1>6, <1>7, <1>8, <1>9, <1>10, <1>11, <1>12, <1>13, <1>14, <1>15 DEF Edit

LEMMA WorkTree == ASSUME Inv, Inv', Work PROVE StepOfTree
<1>1. CASE ArrayNext \/ ArrayFails \/ ArrayDone BY <1>1, ArrayNextTree, ArrayFailsTree, ArrayDoneTree
<1>2. CASE DupEnter \/ DupWalk \/ DupLink \/ DupFails \/ DupDone
  BY <1>2, DupEnterTree, DupWalkTree, DupLinkTree, DupFailsTree, DupDoneTree
<1>3. CASE ParseStart \/ ParseScalar \/ ParseString \/ ParseOpen \/ ParseElement \/ ParseName
  BY <1>3, ParseStartTree, ParseScalarTree, ParseStringTree, ParseOpenTree, ParseElementTree, ParseNameTree
<1>4. CASE ParseNoValue \/ ParseNext \/ ParseClose \/ ParseFails \/ ParseFailed
  BY <1>4, ParseNoValueTree, ParseNextTree, ParseCloseTree, ParseFailsTree, ParseFailedTree
<1>5. CASE \E require \in BOOLEAN : ParseDone(require) BY <1>5, ParseDoneTree
<1> QED BY <1>1, <1>2, <1>3, <1>4, <1>5 DEF Work

(* Seen without its pointers, the heap is a forest at all times, and every *)
(* call, and every step of building an array, copying and parsing, is one  *)
(* step of that forest or none: an item is put under a parent it is not    *)
(* above, taken from one, or deleted with exactly what is below it.        *)
THEOREM KeepsForest == Spec => KeepsTree
<1>1. Init => Inv /\ Tree!TreeInit BY InitInv, TreeStarts
<1>2. Inv /\ [Next]_vars => Inv' BY EditKeeps, WorkKeeps, StutterKeeps DEF Next
<1>3. Inv /\ Inv' /\ [Next]_vars => [Tree!TreeNext]_kids
  <2>1. SUFFICES ASSUME Inv, Inv', [Next]_vars PROVE StepOfTree BY DEF StepOfTree
  <2>2. CASE UNCHANGED vars
    <3>1. items' = items BY <2>2 DEF vars, heapVars
    <3> QED BY <3>1, StepStill
  <2> QED BY <2>1, <2>2, EditTree, WorkTree DEF Next
<1> QED BY <1>1, <1>2, <1>3, PTL DEF Spec, KeepsTree, Tree!TreeSpec

=============================================================================
