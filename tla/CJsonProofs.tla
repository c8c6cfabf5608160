------------------------------ MODULE CJsonProofs ------------------------------
(***************************************************************************)
(* Proofs about cJSON's items.                                             *)
(***************************************************************************)
EXTENDS CJson, FiniteSetTheorems, SequenceTheorems, WellFoundedInduction, TLAPS

-----------------------------------------------------------------------------
(* Induction over an interval, for a set in place of a predicate. *)
LEMMA IntervalInduction ==
  ASSUME NEW N \in Nat, NEW T, 0 \in T, \A k \in 0 .. N - 1 : k \in T => k + 1 \in T
  PROVE  \A k \in 0 .. N : k \in T
<1> DEFINE Bad == {k \in 0 .. N : k \notin T}
           Upto == {0 .. k : k \in Bad}
           Smaller == StrictSubsetOrdering(0 .. N)
<1>1. IsWellFoundedOn(Smaller, FiniteSubsetsOf(0 .. N))
  BY FS_StrictSubsetOrderingWellFounded
<1>2. Upto \subseteq FiniteSubsetsOf(0 .. N)
  <2>1. ASSUME NEW k \in 0 .. N PROVE IsFiniteSet(0 .. k) /\ 0 .. k \subseteq 0 .. N
    BY FS_Interval
  <2> QED BY <2>1 DEF FiniteSubsetsOf
<1>3. SUFFICES ASSUME Bad # {} PROVE FALSE OBVIOUS
<1>4. Upto # {} BY <1>3
<1> HIDE DEF Smaller, Upto
<1>5. PICK s \in Upto : \A t \in Upto : <<t, s>> \notin Smaller BY <1>1, <1>2, <1>4, WFMin
<1> USE DEF Upto
<1>6. PICK x \in Bad : s = 0 .. x BY <1>5
<1>7. x # 0 /\ x - 1 \in 0 .. N - 1 BY <1>6
<1>8. x - 1 \notin Bad
  <2>1. 0 .. (x - 1) \subseteq s /\ 0 .. (x - 1) # s BY <1>6, <1>7
  <2>2. s \subseteq 0 .. N /\ 0 .. (x - 1) \subseteq 0 .. N BY <1>6, <1>7
  <2>3. <<0 .. (x - 1), s>> \in Smaller BY <2>1, <2>2 DEF Smaller, StrictSubsetOrdering
  <2> QED BY <2>3, <1>5
<1> QED BY <1>6, <1>7, <1>8

(***************************************************************************)
(* ListFrom and Reach are recursive functions of a counter: they exist,    *)
(* and are what their definitions say.                                     *)
(***************************************************************************)
WalkBody(h, w, k) ==
  [m \in Nodes \cup {NULL} |-> IF m = NULL \/ k = 0 THEN <<>> ELSE <<m>> \o w[k - 1][h[m].next]]
IsWalk(h, w, N) == w = [k \in 0 .. N |-> WalkBody(h, w, k)]

ReachBody(edges, r, k) ==
  [C \in SUBSET Nodes |-> IF k = 0 THEN C ELSE r[k - 1][C \cup UNION {edges[x] : x \in C}]]
IsReach(edges, r, N) == r = [k \in 0 .. N |-> ReachBody(edges, r, k)]

LEMMA WalkExists ==
  ASSUME NEW h, NEW N \in Nat
  PROVE  \E w : IsWalk(h, w, N)
<1> DEFINE T == {k \in 0 .. N : \E w : IsWalk(h, w, k)}
<1>1. 0 \in T
  <2> DEFINE w == [k \in 0 .. 0 |-> [m \in Nodes \cup {NULL} |-> <<>>]]
  <2>1. \A k \in 0 .. 0 : WalkBody(h, w, k) = [m \in Nodes \cup {NULL} |-> <<>>]
    BY DEF WalkBody
  <2>2. IsWalk(h, w, 0) BY <2>1 DEF IsWalk
  <2> QED BY <2>2
<1>2. ASSUME NEW k \in 0 .. N - 1, k \in T PROVE k + 1 \in T
  <2>1. PICK w : IsWalk(h, w, k) BY <1>2
  <2> DEFINE v == [j \in 0 .. k + 1 |-> IF j <= k THEN w[j] ELSE WalkBody(h, w, k + 1)]
  <2>2. ASSUME NEW j \in 0 .. k + 1 PROVE v[j] = WalkBody(h, v, j)
    <3>1. j = 0 => WalkBody(h, v, j) = WalkBody(h, w, j) BY DEF WalkBody
    <3>2. j # 0 => v[j - 1] = w[j - 1] OBVIOUS
    <3>3. WalkBody(h, v, j) = WalkBody(h, w, j) BY <3>1, <3>2 DEF WalkBody
    <3>4. v[j] = WalkBody(h, w, j) BY <2>1 DEF IsWalk
    <3> QED BY <3>3, <3>4
  <2>3. IsWalk(h, v, k + 1) BY <2>2 DEF IsWalk
  <2> QED BY <2>3
<1> HIDE DEF T
<1>3. N \in T BY <1>1, <1>2, IntervalInduction
<1> QED BY <1>3 DEF T

LEMMA ReachExists ==
  ASSUME NEW edges, NEW N \in Nat
  PROVE  \E r : IsReach(edges, r, N)
<1> DEFINE T == {k \in 0 .. N : \E r : IsReach(edges, r, k)}
<1>1. 0 \in T
  <2> DEFINE r == [k \in 0 .. 0 |-> [C \in SUBSET Nodes |-> C]]
  <2>1. \A k \in 0 .. 0 : ReachBody(edges, r, k) = [C \in SUBSET Nodes |-> C]
    BY DEF ReachBody
  <2>2. IsReach(edges, r, 0) BY <2>1 DEF IsReach
  <2> QED BY <2>2
<1>2. ASSUME NEW k \in 0 .. N - 1, k \in T PROVE k + 1 \in T
  <2>1. PICK r : IsReach(edges, r, k) BY <1>2
  <2> DEFINE v == [j \in 0 .. k + 1 |-> IF j <= k THEN r[j] ELSE ReachBody(edges, r, k + 1)]
  <2>2. ASSUME NEW j \in 0 .. k + 1 PROVE v[j] = ReachBody(edges, v, j)
    <3>1. j = 0 => ReachBody(edges, v, j) = ReachBody(edges, r, j) BY DEF ReachBody
    <3>2. j # 0 => v[j - 1] = r[j - 1] OBVIOUS
    <3>3. ReachBody(edges, v, j) = ReachBody(edges, r, j) BY <3>1, <3>2 DEF ReachBody
    <3>4. v[j] = ReachBody(edges, r, j) BY <2>1 DEF IsReach
    <3> QED BY <3>3, <3>4
  <2>3. IsReach(edges, v, k + 1) BY <2>2 DEF IsReach
  <2> QED BY <2>3
<1> HIDE DEF T
<1>3. N \in T BY <1>1, <1>2, IntervalInduction
<1> QED BY <1>3 DEF T

LEMMA CardinalityNat == Cardinality(Nodes) \in Nat
BY CJsonAssumption, FS_CardinalityType

LEMMA WalkDef ==
  ASSUME NEW h
  PROVE  \E w : /\ IsWalk(h, w, Cardinality(Nodes) + 1)
                /\ \A n : ListFrom(h, n) = w[Cardinality(Nodes) + 1][n]
<1> DEFINE N == Cardinality(Nodes) + 1
           w == CHOOSE w : w = [k \in 0 .. N |->
                  [m \in Nodes \cup {NULL} |-> IF m = NULL \/ k = 0 THEN <<>> ELSE <<m>> \o w[k - 1][h[m].next]]]
<1>1. \E v : v = [k \in 0 .. N |->
                  [m \in Nodes \cup {NULL} |-> IF m = NULL \/ k = 0 THEN <<>> ELSE <<m>> \o v[k - 1][h[m].next]]]
  <2>1. N \in Nat BY CardinalityNat
  <2>2. \E v : IsWalk(h, v, N) BY <2>1, WalkExists
  <2> QED BY <2>2 DEF IsWalk, WalkBody
<1>2. IsWalk(h, w, N) BY <1>1 DEF IsWalk, WalkBody
<1>3. \A n : ListFrom(h, n) = w[N][n] BY DEF ListFrom
<1> QED BY <1>2, <1>3

LEMMA ReachDef ==
  ASSUME NEW edges
  PROVE  \E r : /\ IsReach(edges, r, Cardinality(Nodes))
                /\ \A C : Reach(edges, C) = r[Cardinality(Nodes)][C]
<1> DEFINE N == Cardinality(Nodes)
           r == CHOOSE r : r = [k \in 0 .. N |->
                  [C \in SUBSET Nodes |-> IF k = 0 THEN C ELSE r[k - 1][C \cup UNION {edges[x] : x \in C}]]]
<1>1. \E v : v = [k \in 0 .. N |->
                  [C \in SUBSET Nodes |-> IF k = 0 THEN C ELSE v[k - 1][C \cup UNION {edges[x] : x \in C}]]]
  <2>1. N \in Nat BY CardinalityNat
  <2>2. \E v : IsReach(edges, v, N) BY <2>1, ReachExists, SMTT(30)
  <2> QED BY <2>2 DEF IsReach, ReachBody
<1>2. IsReach(edges, r, N) BY <1>1 DEF IsReach, ReachBody
<1>3. \A C : Reach(edges, C) = r[N][C] BY DEF Reach
<1> QED BY <1>2, <1>3

-----------------------------------------------------------------------------
(* Reach is the smallest set that holds S and is closed under edges. *)

Closed(edges, C) == \A x \in C : edges[x] \subseteq C

LEMMA ReachIsLeast ==
  ASSUME NEW edges, \A x \in Nodes : edges[x] \subseteq Nodes, NEW C \in SUBSET Nodes
  PROVE  /\ Reach(edges, C) \in SUBSET Nodes
         /\ C \subseteq Reach(edges, C)
         /\ Closed(edges, Reach(edges, C))
         /\ \A D \in SUBSET Nodes : C \subseteq D /\ Closed(edges, D) => Reach(edges, C) \subseteq D
<1> DEFINE N == Cardinality(Nodes)
<1>1. N \in Nat BY CardinalityNat
<1>2. PICK r : IsReach(edges, r, N) /\ \A D : Reach(edges, D) = r[N][D] BY ReachDef
<1> HIDE DEF N
<1>3. \A k \in 0 .. N : \A D \in SUBSET Nodes :
        r[k][D] = IF k = 0 THEN D ELSE r[k - 1][D \cup UNION {edges[x] : x \in D}]
  <2>1. ASSUME NEW k \in 0 .. N PROVE r[k] = ReachBody(edges, r, k)
    BY <1>2 DEF IsReach
  <2>2. ASSUME NEW k \in 0 .. N, NEW D \in SUBSET Nodes
        PROVE  ReachBody(edges, r, k)[D] = IF k = 0 THEN D ELSE r[k - 1][D \cup UNION {edges[x] : x \in D}]
    BY DEF ReachBody
  <2> QED BY <2>1, <2>2
<1> DEFINE Least(k, D) ==
      /\ r[k][D] \in SUBSET Nodes
      /\ D \subseteq r[k][D]
      /\ \A E \in SUBSET Nodes : D \subseteq E /\ Closed(edges, E) => r[k][D] \subseteq E
           Full(k, D) == Closed(edges, r[k][D]) \/ Cardinality(r[k][D]) >= k + Cardinality(D)
           T == {k \in 0 .. N : \A D \in SUBSET Nodes : Least(k, D) /\ Full(k, D)}
<1>4. 0 \in T
  <2>1. ASSUME NEW D \in SUBSET Nodes PROVE Least(0, D) /\ Full(0, D)
    <3>1. r[0][D] = D
      <4>1. 0 \in 0 .. N BY <1>1
      <4> QED BY <4>1, <1>3
    <3>2. Cardinality(D) \in Nat BY CJsonAssumption, FS_Subset, FS_CardinalityType
    <3> QED BY <3>1, <3>2
  <2> QED BY <2>1, <1>1
<1>5. ASSUME NEW k \in 0 .. N - 1, k \in T PROVE k + 1 \in T
  <2>1. ASSUME NEW D \in SUBSET Nodes PROVE Least(k + 1, D) /\ Full(k + 1, D)
    <3> DEFINE E == D \cup UNION {edges[x] : x \in D}
    <3>1. E \in SUBSET Nodes OBVIOUS
    <3>2. r[k + 1][D] = r[k][E]
      <4>1. k + 1 \in 0 .. N /\ k + 1 # 0 /\ (k + 1) - 1 = k BY <1>1
      <4> HIDE DEF E, T
      <4>2. r[k + 1][D] = r[(k + 1) - 1][E] BY <4>1, <1>3 DEF E
      <4> QED BY <4>1, <4>2
    <3>3. Least(k, E) /\ Full(k, E) /\ Least(k, D) BY <3>1, <1>5
    <3>4. ASSUME NEW F \in SUBSET Nodes, D \subseteq F, Closed(edges, F)
          PROVE  E \subseteq F
      BY <3>4 DEF Closed
    <3> HIDE DEF E
    <3>5. Least(k + 1, D)
      <4>1. D \subseteq E BY DEF E
      <4> QED BY <3>2, <3>3, <3>4, <4>1
    <3>6. Full(k + 1, D)
      <4>1. CASE E = D
        <5>1. Closed(edges, D) BY <4>1 DEF E, Closed
        <5>2. r[k][D] = D BY <3>3, <5>1
        <5> QED BY <3>2, <4>1, <5>1, <5>2
      <4>2. CASE E # D
        <5>1. IsFiniteSet(E) /\ IsFiniteSet(D) BY <3>1, CJsonAssumption, FS_Subset
        <5>2. D \subseteq E BY DEF E
        <5>4. Cardinality(D) \in Nat /\ Cardinality(E) \in Nat BY <5>1, FS_CardinalityType
        <5>3. Cardinality(D) < Cardinality(E) BY <5>1, <5>2, <5>4, <4>2, FS_Subset
        <5>5. IsFiniteSet(r[k][E]) BY <3>3, CJsonAssumption, FS_Subset
        <5>6. Cardinality(r[k][E]) \in Nat BY <5>5, FS_CardinalityType
        <5>7. k \in Nat BY <1>1
        <5>8. CASE Closed(edges, r[k][E]) BY <5>8, <3>2
        <5>9. CASE Cardinality(r[k][E]) >= k + Cardinality(E)
          BY <5>9, <5>3, <5>4, <5>6, <5>7, <3>2
        <5> QED BY <5>8, <5>9, <3>3
      <4> QED BY <4>1, <4>2
    <3> QED BY <3>5, <3>6
  <2> QED BY <2>1, <1>1
<1> HIDE DEF T
<1>6. N \in T BY <1>1, <1>4, <1>5, IntervalInduction
<1>7. Least(N, C) /\ Full(N, C) BY <1>6 DEF T
<1>8. Closed(edges, r[N][C])
  <2>1. CASE C = {}
    <3>1. Closed(edges, C) BY <2>1 DEF Closed
    <3>2. r[N][C] = C BY <1>7, <3>1
    <3> QED BY <3>1, <3>2
  <2>2. CASE C # {} /\ ~Closed(edges, r[N][C])
    <3>1. Cardinality(r[N][C]) >= N + Cardinality(C) BY <1>7, <2>2
    <3>2. Cardinality(r[N][C]) <= N BY <1>7, CJsonAssumption, FS_Subset DEF N
    <3>3. IsFiniteSet(C) /\ IsFiniteSet(r[N][C]) BY <1>7, CJsonAssumption, FS_Subset
    <3>4. Cardinality(C) \in Nat /\ Cardinality(r[N][C]) \in Nat BY <3>3, FS_CardinalityType
    <3>5. Cardinality(C) = 0 BY <3>1, <3>2, <3>4, <1>1
    <3>6. C = {} BY <3>3, <3>5, FS_EmptySet
    <3> QED BY <3>6, <2>2
  <2> QED BY <2>1, <2>2
<1> QED BY <1>2, <1>7, <1>8

-----------------------------------------------------------------------------
(***************************************************************************)
(* The shape of a heap.  An item is live or free; what a live item points  *)
(* to is live.  Lists are linked in both directions, an item is in one     *)
(* list, a list is the children of one item, and a list that nobody begins *)
(* does not exist: no items point to each other in a circle.               *)
(***************************************************************************)

ItemTypes == Types \cup {"Invalid", "NULL", "True", "False"}
ItemRec ==
  [type : ItemTypes, ref : BOOLEAN, const : BOOLEAN, next : Nodes \cup {NULL},
   prev : Nodes \cup {NULL}, child : Nodes \cup {NULL}, string : StringTokens \cup {NULL},
   value : Nodes \cup {NULL}]

Alive(h) == {n \in Nodes : h[n] # Freed}
Typed(h) == h \in [Nodes -> ItemRec \cup {Freed}]

(* Where an item leads its list, and what is behind c in a list. *)
NextClosed(h, C) == \A x \in C : h[x] # Freed /\ h[x].next # NULL => h[x].next \in C
Run(h, c) == {y \in Nodes : \A C \in SUBSET Nodes : c \in C /\ NextClosed(h, C) => y \in C}

Owner(h, p, c) == p \in Alive(h) /\ ~h[p].ref /\ h[p].child = c
Starts(h) == {n \in Alive(h) : \A x \in Alive(h) : h[x].next # n}
Tops(h) == {n \in Starts(h) : \A p \in Alive(h) : ~Owner(h, p, n)}

Links(h) ==
  \A n \in Alive(h) :
    {h[n].next, h[n].prev, h[n].child, h[n].value} \subseteq Alive(h) \cup {NULL}
Backs(h) == \A x, y \in Alive(h) : h[x].next = y => h[y].prev = x
OneOwner(h) == \A c \in Alive(h) : \A p, q \in Alive(h) : Owner(h, p, c) /\ Owner(h, q, c) => p = q
Firsts(h) == \A c, p \in Alive(h) : Owner(h, p, c) => c \in Starts(h)
Grounded(h) ==
  \A C \in SUBSET Nodes : Starts(h) \subseteq C /\ NextClosed(h, C) => Alive(h) \subseteq C
Sharing(h) ==
  \A r \in Alive(h) : h[r].ref /\ h[r].child # NULL => \E p \in Alive(h) : Owner(h, p, h[r].child)
OwnValues(h) == \A n \in Alive(h) : ~h[n].ref => h[n].value \in {n, NULL}
Prevs(h) ==
  \A s \in Alive(h) : h[s].prev # NULL =>
    \/ h[h[s].prev].next = s
    \/ h[s].prev \in Run(h, s) /\ \E q \in Alive(h) : Owner(h, q, s)

Shape(h) ==
  /\ Typed(h) /\ Links(h) /\ Backs(h) /\ OneOwner(h) /\ Firsts(h)
  /\ Grounded(h) /\ Sharing(h) /\ OwnValues(h) /\ Prevs(h)

(* The first child of p points to the last. *)
IsLast(h, c, l) == l \in Run(h, c) /\ h[l].next = NULL
Ring(h, p) == h[p].child # NULL => IsLast(h, h[p].child, h[h[p].child].prev)
Rings(h, open) == \A p \in Alive(h) \ open : ~h[p].ref => Ring(h, p)

LEMMA NullIsNoNode == NULL \notin Nodes
BY CJsonAssumption

LEMMA KeyFacts == \A name \in Keys : name \in StringTokens /\ name \in StringTokens \cup {NULL} /\ name # NULL
BY CJsonAssumption DEF StringTokens

LEMMA ItemFields ==
  ASSUME NEW h, Typed(h), NEW n \in Alive(h)
  PROVE  /\ n \in Nodes /\ h[n] \in ItemRec
         /\ h[n].type \in ItemTypes /\ h[n].ref \in BOOLEAN /\ h[n].const \in BOOLEAN
         /\ h[n].next \in Nodes \cup {NULL} /\ h[n].prev \in Nodes \cup {NULL}
         /\ h[n].child \in Nodes \cup {NULL} /\ h[n].string \in StringTokens \cup {NULL}
         /\ h[n].value \in Nodes \cup {NULL}
<1>1. n \in Nodes /\ h[n] # Freed BY DEF Alive
<1>2. h[n] \in ItemRec BY <1>1 DEF Typed
<1> QED BY <1>1, <1>2 DEF ItemRec

LEMMA NotFreed == \A item \in ItemRec : item # Freed
BY DEF ItemRec, Freed, ItemTypes, Types

(* Run(h, c) is the smallest set that holds c and is closed under next. *)
LEMMA RunFacts ==
  ASSUME NEW h, Shape(h), NEW c \in Alive(h)
  PROVE  /\ c \in Run(h, c) /\ Run(h, c) \subseteq Alive(h)
         /\ NextClosed(h, Run(h, c))
         /\ \A C \in SUBSET Nodes : c \in C /\ NextClosed(h, C) => Run(h, c) \subseteq C
<1>1. c \in Nodes BY DEF Alive
<1>2. c \in Run(h, c) BY <1>1 DEF Run
<1>3. \A C \in SUBSET Nodes : c \in C /\ NextClosed(h, C) => Run(h, c) \subseteq C BY DEF Run
<1>4. Alive(h) \in SUBSET Nodes BY DEF Alive
<1>5. NextClosed(h, Alive(h)) BY DEF NextClosed, Shape, Links
<1>6. NextClosed(h, Run(h, c))
  <2>1. SUFFICES ASSUME NEW x \in Run(h, c), h[x] # Freed, h[x].next # NULL
                 PROVE  h[x].next \in Run(h, c)
    BY DEF NextClosed
  <2>2. x \in Alive(h) /\ h[x].next \in Alive(h)
    BY <2>1, <1>3, <1>4, <1>5 DEF Shape, Links
  <2>3. ASSUME NEW C \in SUBSET Nodes, c \in C, NextClosed(h, C) PROVE h[x].next \in C
    BY <2>1, <2>3 DEF NextClosed, Run
  <2> QED BY <2>2, <2>3 DEF Run, Alive
<1> QED BY <1>2, <1>3, <1>4, <1>5, <1>6

(* What is in a list and is not its beginning has somebody before it there. *)
LEMMA RunBefore ==
  ASSUME NEW h, Shape(h), NEW c \in Alive(h), NEW y \in Run(h, c), y # c
  PROVE  \E x \in Run(h, c) : h[x].next = y
<1>1. SUFFICES ASSUME \A x \in Run(h, c) : h[x].next # y PROVE FALSE OBVIOUS
<1> DEFINE C == Run(h, c) \ {y}
<1>2. c \in C /\ C \in SUBSET Nodes BY RunFacts DEF Alive
<1>3. NextClosed(h, C) BY <1>1, RunFacts DEF NextClosed
<1>4. y \in C BY <1>2, <1>3, RunFacts
<1> QED BY <1>4

(* Two lists that meet begin at the same item. *)
LEMMA RunsMeet ==
  ASSUME NEW h, Shape(h), NEW c \in Starts(h), NEW d \in Starts(h),
         NEW y \in Run(h, c), y \in Run(h, d)
  PROVE  c = d
<1>1. SUFFICES ASSUME c # d PROVE FALSE OBVIOUS
<1>2. c \in Alive(h) /\ d \in Alive(h) BY DEF Starts
<1>3. Run(h, c) \subseteq Alive(h) /\ Run(h, d) \subseteq Alive(h) BY <1>2, RunFacts
<1> DEFINE C == Run(h, c) \ Run(h, d)
<1>4. c \notin Run(h, d)
  <2>1. SUFFICES ASSUME c \in Run(h, d) PROVE FALSE OBVIOUS
  <2>2. PICK x \in Run(h, d) : h[x].next = c BY <2>1, <1>1, <1>2, RunBefore
  <2> QED BY <2>2, <1>3 DEF Starts
<1>5. c \in C /\ C \in SUBSET Nodes BY <1>2, <1>4, RunFacts DEF Alive
<1>6. NextClosed(h, C)
  <2>1. SUFFICES ASSUME NEW x \in C, h[x] # Freed, h[x].next # NULL PROVE h[x].next \in C
    BY DEF NextClosed
  <2>2. h[x].next \in Run(h, c) BY <2>1, <1>2, RunFacts DEF NextClosed
  <2>3. SUFFICES ASSUME h[x].next \in Run(h, d) PROVE FALSE BY <2>2
  <2>4. h[x].next # d /\ x \in Alive(h) BY <2>1, <1>3 DEF Starts
  <2>5. PICK z \in Run(h, d) : h[z].next = h[x].next BY <2>3, <2>4, <1>2, RunBefore
  <2>6. h[x].next \in Alive(h) /\ z \in Alive(h) BY <2>3, <2>5, <1>3
  <2>7. z = x BY <2>4, <2>5, <2>6 DEF Shape, Backs
  <2> QED BY <2>1, <2>5, <2>7
<1>7. Run(h, c) \subseteq C BY <1>2, <1>5, <1>6, RunFacts
<1> QED BY <1>7

(* Every item is in the list that some start begins. *)
LEMMA EveryoneListed ==
  ASSUME NEW h, Shape(h), NEW n \in Alive(h)
  PROVE  \E c \in Starts(h) : n \in Run(h, c)
<1> DEFINE C == {y \in Nodes : \E c \in Starts(h) : y \in Run(h, c)}
<1>1. Starts(h) \subseteq C BY RunFacts DEF Starts, Alive
<1>2. NextClosed(h, C)
  <2>1. SUFFICES ASSUME NEW x \in C, h[x] # Freed, h[x].next # NULL PROVE h[x].next \in C
    BY DEF NextClosed
  <2>2. PICK c \in Starts(h) : x \in Run(h, c) BY <2>1
  <2>3. c \in Alive(h) BY DEF Starts
  <2>4. h[x].next \in Run(h, c) BY <2>1, <2>2, <2>3, RunFacts DEF NextClosed
  <2> QED BY <2>4 DEF Run
<1>3. C \in SUBSET Nodes OBVIOUS
<1>4. Alive(h) \subseteq C BY <1>1, <1>2, <1>3 DEF Shape, Grounded
<1> QED BY <1>4

LEMMA NoLoop ==
  ASSUME NEW h, Shape(h), NEW c \in Alive(h)
  PROVE  h[c].next # c
<1> SUFFICES ASSUME h[c].next = c PROVE FALSE OBVIOUS
<1> DEFINE C == Alive(h) \ {c}
<1>1. C \in SUBSET Nodes /\ Starts(h) \subseteq C BY DEF Alive, Starts
<1>2. \A x \in Alive(h) : h[x].next = c => x = c BY DEF Shape, Backs
<1>3. NextClosed(h, C) BY <1>1, <1>2 DEF NextClosed, Alive, Shape, Links
<1> QED BY <1>1, <1>3 DEF Shape, Grounded

(***************************************************************************)
(* ListFrom follows next from an item to the end of its list, and meets    *)
(* each item of it once.                                                   *)
(***************************************************************************)
Chain(h, s) == \A i \in 1 .. Len(s) - 1 : h[s[i]].next = s[i + 1]

LEMMA WalkFacts ==
  ASSUME NEW h, Shape(h), NEW N \in Nat, NEW w, IsWalk(h, w, N), NEW k \in 0 .. N,
         NEW m \in Alive(h) \cup {NULL}
  PROVE  /\ w[k][m] \in Seq(Alive(h)) /\ Len(w[k][m]) <= k
         /\ m = NULL => w[k][m] = <<>>
         /\ m # NULL /\ k # 0 => w[k][m] # <<>> /\ w[k][m][1] = m
         /\ Chain(h, w[k][m])
         /\ w[k][m] # <<>> /\ Len(w[k][m]) < k => h[w[k][m][Len(w[k][m])]].next = NULL
<1> DEFINE Good(j, x) ==
         /\ w[j][x] \in Seq(Alive(h)) /\ Len(w[j][x]) <= j
         /\ x = NULL => w[j][x] = <<>>
         /\ x # NULL /\ j # 0 => w[j][x] # <<>> /\ w[j][x][1] = x
         /\ Chain(h, w[j][x])
         /\ w[j][x] # <<>> /\ Len(w[j][x]) < j => h[w[j][x][Len(w[j][x])]].next = NULL
           T == {j \in 0 .. N : \A x \in Alive(h) \cup {NULL} : Good(j, x)}
<1>1. \A j \in 0 .. N : \A x \in Nodes \cup {NULL} :
        w[j][x] = IF x = NULL \/ j = 0 THEN <<>> ELSE <<x>> \o w[j - 1][h[x].next]
  <2>1. \A j \in 0 .. N : w[j] = WalkBody(h, w, j) BY DEF IsWalk
  <2> QED BY <2>1 DEF WalkBody
<1>2. Alive(h) \subseteq Nodes BY DEF Alive
<1>3. \A x \in Alive(h) : x # NULL /\ h[x].next \in Alive(h) \cup {NULL}
  BY <1>2, NullIsNoNode DEF Shape, Links
<1>4. 0 \in T
  <2>1. ASSUME NEW x \in Alive(h) \cup {NULL} PROVE Good(0, x)
    <3>1. w[0][x] = <<>>
      <4>1. 0 \in 0 .. N /\ x \in Nodes \cup {NULL} BY <1>2
      <4> QED BY <4>1, <1>1
    <3> QED BY <3>1 DEF Chain
  <2> QED BY <2>1
<1>5. ASSUME NEW j \in 0 .. N - 1, j \in T PROVE j + 1 \in T
  <2>1. ASSUME NEW x \in Alive(h) \cup {NULL} PROVE Good(j + 1, x)
    <3>1. CASE x = NULL
      <4>1. w[j + 1][x] = <<>>
        <5>1. j + 1 \in 0 .. N /\ x \in Nodes \cup {NULL} BY <3>1
        <5> QED BY <5>1, <3>1, <1>1
      <4> QED BY <3>1, <4>1 DEF Chain
    <3>2. CASE x # NULL
      <4> DEFINE s == w[j][h[x].next]
      <4>1. x \in Alive(h) /\ Good(j, h[x].next) BY <3>2, <1>3, <1>5
      <4>2. w[j + 1][x] = <<x>> \o s
        <5>1. j + 1 \in 0 .. N /\ j + 1 # 0 /\ (j + 1) - 1 = j OBVIOUS
        <5> QED BY <5>1, <1>1, <1>2, <3>2, ZenonT(60)
      <4>3. s \in Seq(Alive(h)) /\ Len(s) <= j BY <4>1
      <4>4. s # <<>> => s[1] = h[x].next
        <5>1. h[x].next # NULL /\ j # 0 => s[1] = h[x].next BY <4>1
        <5>2. s # <<>> => h[x].next # NULL BY <4>1
        <5>3. s # <<>> => Len(s) >= 1 BY <4>3
        <5> QED BY <4>3, <5>1, <5>2, <5>3
      <4>5. s = <<>> => h[x].next = NULL \/ j = 0 BY <4>1
      <4>6. Chain(h, s) /\ (s # <<>> /\ Len(s) < j => h[s[Len(s)]].next = NULL) BY <4>1
      <4> DEFINE u == w[j + 1][x]
      <4> HIDE DEF s
      <4>7. /\ u \in Seq(Alive(h)) /\ Len(u) = Len(s) + 1 /\ u[1] = x
            /\ \A i \in 1 .. Len(s) : u[i + 1] = s[i]
        BY <4>1, <4>2, <4>3
      <4> HIDE DEF u
      <4>8. Chain(h, u)
        <5>1. SUFFICES ASSUME NEW i \in 1 .. Len(u) - 1 PROVE h[u[i]].next = u[i + 1]
          BY DEF Chain
        <5>2. CASE i = 1
          <6>1. s # <<>> /\ u[2] = s[1] BY <4>3, <4>7, <5>2
          <6> QED BY <6>1, <5>2, <4>4, <4>7
        <5>3. CASE i # 1
          <6>1. i - 1 \in 1 .. Len(s) - 1 /\ u[i] = s[i - 1] /\ u[i + 1] = s[i]
            BY <5>3, <4>3, <4>7, SMTT(30)
          <6> QED BY <6>1, <4>6 DEF Chain
        <5> QED BY <5>2, <5>3
      <4>9. Len(u) < j + 1 => h[u[Len(u)]].next = NULL
        <5>1. CASE s = <<>> BY <5>1, <4>3, <4>5, <4>7
        <5>2. CASE s # <<>>
          <6>1. u[Len(u)] = s[Len(s)] BY <5>2, <4>3, <4>7
          <6> QED BY <6>1, <5>2, <4>3, <4>6, <4>7
        <5> QED BY <5>1, <5>2
      <4>10. u # <<>> /\ Len(u) <= j + 1 BY <4>3, <4>7
      <4> QED BY <4>7, <4>8, <4>9, <4>10, <3>2 DEF u
    <3> QED BY <3>1, <3>2
  <2> QED BY <2>1
<1> HIDE DEF T
<1>6. k \in T BY <1>4, <1>5, IntervalInduction
<1> QED BY <1>6 DEF T

LEMMA ListOfNothing == \A h : ListFrom(h, NULL) = <<>>
<1> SUFFICES ASSUME NEW h PROVE ListFrom(h, NULL) = <<>> OBVIOUS
<1> DEFINE N == Cardinality(Nodes) + 1
<1>1. N \in Nat BY CardinalityNat
<1>2. PICK w : IsWalk(h, w, N) /\ ListFrom(h, NULL) = w[N][NULL] BY WalkDef
<1>3. w[N] = WalkBody(h, w, N) BY <1>1, <1>2 DEF IsWalk
<1>4. WalkBody(h, w, N)[NULL] = <<>> BY DEF WalkBody
<1> QED BY <1>2, <1>3, <1>4

LEMMA ListFacts ==
  ASSUME NEW h, Shape(h), NEW c \in Starts(h)
  PROVE  /\ ListFrom(h, c) \in Seq(Alive(h))
         /\ Len(ListFrom(h, c)) >= 1 /\ ListFrom(h, c)[1] = c
         /\ Chain(h, ListFrom(h, c)) /\ h[Last(ListFrom(h, c))].next = NULL
         /\ IsInjective(ListFrom(h, c))
         /\ ToSet(ListFrom(h, c)) = Run(h, c)
<1> DEFINE N == Cardinality(Nodes) + 1
           s == ListFrom(h, c)
<1>1. N \in Nat /\ N # 0 BY CardinalityNat
<1>2. c \in Alive(h) /\ c # NULL BY NullIsNoNode DEF Starts, Alive
<1>3. /\ s \in Seq(Alive(h)) /\ Len(s) <= N /\ s # <<>> /\ s[1] = c /\ Chain(h, s)
      /\ Len(s) < N => h[s[Len(s)]].next = NULL
  <2>1. PICK w : IsWalk(h, w, N) /\ ListFrom(h, c) = w[N][c] BY WalkDef
  <2> HIDE DEF N
  <2>2. N \in 0 .. N BY <1>1
  <2> QED BY <1>1, <1>2, <2>1, <2>2, WalkFacts
<1> HIDE DEF s, N
<1>4. Len(s) \in Nat /\ Len(s) >= 1 BY <1>3
<1>5. \A i \in 1 .. Len(s) : s[i] \in Alive(h) BY <1>3
<1>6. \A i, j \in 1 .. Len(s) : i < j => s[i] # s[j]
  <2> DEFINE Twice == {i \in 0 .. Len(s) : i > 0 => \A j \in i + 1 .. Len(s) : s[i] # s[j]}
  <2>1. 0 \in Twice BY <1>4
  <2>2. ASSUME NEW i \in 0 .. Len(s) - 1, i \in Twice PROVE i + 1 \in Twice
    <3>1. SUFFICES ASSUME NEW j \in i + 2 .. Len(s), s[i + 1] = s[j] PROVE FALSE
      BY <1>4
    <3>2. j - 1 \in 1 .. Len(s) - 1 /\ h[s[j - 1]].next = s[j] BY <1>3, <1>4 DEF Chain
    <3>3. s[j - 1] \in Alive(h) BY <3>2, <1>5, <1>4
    <3>4. CASE i = 0 BY <3>1, <3>2, <3>3, <3>4, <1>3 DEF Starts
    <3>5. CASE i # 0
      <4>1. i \in 1 .. Len(s) - 1 /\ h[s[i]].next = s[i + 1] BY <3>5, <1>3, <1>4 DEF Chain
      <4>2. s[i] \in Alive(h) /\ s[j] \in Alive(h) BY <4>1, <1>4, <1>5
      <4>3. s[i] = s[j - 1] BY <3>1, <3>2, <3>3, <4>1, <4>2 DEF Shape, Backs
      <4> QED BY <4>1, <4>3, <2>2, <1>4
    <3> QED BY <3>4, <3>5
  <2> HIDE DEF Twice
  <2>3. \A i \in 0 .. Len(s) : i \in Twice BY <1>4, <2>1, <2>2, IntervalInduction
  <2> QED BY <2>3, <1>4 DEF Twice
<1>7. DOMAIN s = 1 .. Len(s) BY <1>3
<1>8. IsInjective(s) BY <1>6, <1>7, <1>4 DEF IsInjective
<1>9. ToSet(s) \subseteq Alive(h) BY <1>5, <1>7 DEF ToSet
<1>10. Len(s) < N
  <2>1. IsFiniteSet(ToSet(s)) /\ Cardinality(ToSet(s)) <= Cardinality(Nodes)
    BY <1>9, CJsonAssumption, FS_Subset DEF Alive
  <2>3. ~(Len(s) > Cardinality(ToSet(s)))
    <3>1. IsFiniteSet(1 .. Len(s)) /\ Cardinality(1 .. Len(s)) = Len(s) BY <1>4, FS_Interval
    <3>2. SUFFICES ASSUME Cardinality(1 .. Len(s)) > Cardinality(ToSet(s)) PROVE FALSE BY <3>1
    <3>3. s \in [1 .. Len(s) -> ToSet(s)] BY <1>3, <1>7 DEF ToSet
    <3>4. \E x, y \in 1 .. Len(s) : x # y /\ s[x] = s[y]
      BY <3>1, <3>2, <3>3, <2>1, FS_PigeonHole
    <3> QED BY <3>4, <1>6, <1>4
  <2>4. Cardinality(ToSet(s)) \in Nat BY <2>1, FS_CardinalityType
  <2> QED BY <2>1, <2>3, <2>4, <1>4, CardinalityNat DEF N
<1>11. h[s[Len(s)]].next = NULL BY <1>3, <1>10
<1>12. Run(h, c) \subseteq ToSet(s)
  <2>1. c \in ToSet(s) BY <1>3, <1>4, <1>7 DEF ToSet
  <2>2. NextClosed(h, ToSet(s))
    <3>1. SUFFICES ASSUME NEW i \in 1 .. Len(s), h[s[i]].next # NULL PROVE h[s[i]].next \in ToSet(s)
      BY <1>7 DEF NextClosed, ToSet
    <3>2. i # Len(s) BY <3>1, <1>11
    <3>3. h[s[i]].next = s[i + 1] /\ i + 1 \in 1 .. Len(s) BY <3>2, <1>3, <1>4 DEF Chain
    <3> QED BY <3>3, <1>7 DEF ToSet
  <2>3. ToSet(s) \in SUBSET Nodes BY <1>9 DEF Alive
  <2> QED BY <2>1, <2>2, <2>3, <1>2, RunFacts
<1>13. ToSet(s) \subseteq Run(h, c)
  <2> DEFINE T == {i \in 0 .. Len(s) : i > 0 => s[i] \in Run(h, c)}
  <2>1. 0 \in T BY <1>4
  <2>2. ASSUME NEW i \in 0 .. Len(s) - 1, i \in T PROVE i + 1 \in T
    <3>1. CASE i = 0 BY <3>1, <1>2, <1>3, <1>4, RunFacts
    <3>2. CASE i # 0
      <4>1. i \in 1 .. Len(s) - 1 /\ h[s[i]].next = s[i + 1] BY <3>2, <1>3, <1>4 DEF Chain
      <4>2. s[i] \in Run(h, c) /\ s[i] \in Alive(h) /\ s[i + 1] \in Alive(h) BY <4>1, <2>2, <1>4, <1>5
      <4>3. s[i + 1] # NULL /\ h[s[i]] # Freed BY <4>2, NullIsNoNode DEF Alive
      <4>4. s[i + 1] \in Run(h, c) BY <4>1, <4>2, <4>3, <1>2, RunFacts DEF NextClosed
      <4> QED BY <4>1, <4>4
    <3> QED BY <3>1, <3>2
  <2> HIDE DEF T
  <2>3. \A i \in 0 .. Len(s) : i \in T BY <1>4, <2>1, <2>2, IntervalInduction
  <2> QED BY <2>3, <1>4, <1>7 DEF T, ToSet
<1> QED BY <1>3, <1>4, <1>8, <1>11, <1>12, <1>13 DEF s, Last

-----------------------------------------------------------------------------
(***************************************************************************)
(* What the updates of a heap do to its shape.  Every call of cJSON is made *)
(* of these: an item appears, changes what it says, is linked behind the   *)
(* last of a list, becomes a first child, is told who is last, goes in     *)
(* front of another, leaves its list, or is freed with all it leads to.    *)
(***************************************************************************)

SameData(h, g) ==
  \A n \in Alive(h) :
    /\ g[n].type = h[n].type /\ g[n].ref = h[n].ref /\ g[n].const = h[n].const
    /\ g[n].string = h[n].string /\ g[n].value = h[n].value

SameOwners(h, g) == \A p, c : Owner(g, p, c) <=> Owner(h, p, c)

LEMMA ClosedOverLive ==
  ASSUME NEW h, NEW C \in SUBSET Nodes
  PROVE  NextClosed(h, C) <=> \A x \in C : x \in Alive(h) /\ h[x].next # NULL => h[x].next \in C
BY DEF NextClosed, Alive

(* An item says something else, or has a string; links stay. *)
LEMMA DataShape ==
  ASSUME NEW h, Shape(h), NEW g, Typed(g), Alive(g) = Alive(h),
         \A n \in Alive(h) : /\ g[n].next = h[n].next /\ g[n].prev = h[n].prev
                             /\ g[n].child = h[n].child /\ g[n].ref = h[n].ref
                             /\ g[n].value \in Alive(h) \cup {NULL}
                             /\ ~h[n].ref => g[n].value \in {n, NULL}
  PROVE  /\ Shape(g) /\ Starts(g) = Starts(h) /\ Tops(g) = Tops(h) /\ SameOwners(h, g)
         /\ \A c : Run(g, c) = Run(h, c)
         /\ \A open : Rings(h, open) => Rings(g, open)
<1>1. \A C \in SUBSET Nodes : NextClosed(g, C) <=> NextClosed(h, C) BY ClosedOverLive
<1>2. \A c : Run(g, c) = Run(h, c) BY <1>1 DEF Run
<1>3. SameOwners(h, g) BY DEF SameOwners, Owner
<1>4. Starts(g) = Starts(h) BY DEF Starts
<1>5. Tops(g) = Tops(h) BY <1>3, <1>4 DEF Tops, SameOwners
<1>6. Links(g) BY DEF Shape, Links
<1>7. Backs(g) BY DEF Shape, Backs
<1>8. OneOwner(g) BY <1>3 DEF Shape, OneOwner, SameOwners
<1>9. Firsts(g) BY <1>3, <1>4 DEF Shape, Firsts, SameOwners
<1>10. Grounded(g) BY <1>1, <1>4 DEF Shape, Grounded
<1>11. Sharing(g) BY <1>3 DEF Shape, Sharing, SameOwners
<1>12. OwnValues(g) BY DEF OwnValues
<1>13. Prevs(g)
  <2>1. SUFFICES ASSUME NEW s \in Alive(h), h[s].prev # NULL
                 PROVE  \/ g[h[s].prev].next = s
                        \/ h[s].prev \in Run(h, s) /\ \E q \in Alive(h) : Owner(h, q, s)
    BY <1>2, <1>3 DEF Prevs, SameOwners
  <2>2. h[s].prev \in Alive(h) BY <2>1 DEF Shape, Links
  <2> QED BY <2>1, <2>2 DEF Shape, Prevs
<1>14. ASSUME NEW open, Rings(h, open) PROVE Rings(g, open)
  <2>1. SUFFICES ASSUME NEW p \in Alive(h) \ open, ~h[p].ref, h[p].child # NULL
                 PROVE  IsLast(g, h[p].child, g[h[p].child].prev)
    BY DEF Rings, Ring
  <2>2. h[p].child \in Alive(h) BY <2>1 DEF Shape, Links
  <2>3. IsLast(h, h[p].child, h[h[p].child].prev) BY <1>14, <2>1 DEF Rings, Ring
  <2>4. h[h[p].child].prev \in Alive(h) BY <2>2, <2>3, RunFacts DEF IsLast
  <2> QED BY <2>2, <2>3, <2>4, <1>2 DEF IsLast
<1> QED BY <1>2, <1>3, <1>4, <1>5, <1>6, <1>7, <1>8, <1>9, <1>10, <1>11, <1>12, <1>13, <1>14 DEF Shape

(* A new item that points to nothing but, if it is a reference, to what another shows. *)
LEMMA NewShape ==
  ASSUME NEW h, Shape(h), NEW n \in Nodes, n \notin Alive(h), NEW g, Typed(g),
         Alive(g) = Alive(h) \cup {n}, \A x \in Alive(h) : g[x] = h[x],
         g[n].next = NULL, g[n].prev = NULL,
         g[n].child # NULL => g[n].ref /\ \E p \in Alive(h) : Owner(h, p, g[n].child),
         g[n].child \in Alive(h) \cup {NULL},
         IF g[n].ref THEN g[n].value \in Alive(h) \cup {NULL} ELSE g[n].value \in {n, NULL}
  PROVE  /\ Shape(g) /\ Starts(g) = Starts(h) \cup {n} /\ Tops(g) = Tops(h) \cup {n}
         /\ \A p, c : c \in Nodes => (Owner(g, p, c) <=> Owner(h, p, c))
         /\ \A c \in Alive(h) : Run(h, c) \subseteq Run(g, c)
         /\ \A open : Rings(h, open) => Rings(g, open)
<1>1. \A c : c \in Nodes => c # NULL BY NullIsNoNode
<1>2. n # NULL /\ \A x \in Alive(h) : x # NULL /\ x # n /\ x \in Nodes
  BY <1>1 DEF Alive
<1>3. \A x \in Alive(h) : /\ h[x].next # n /\ h[x].prev # n /\ h[x].child # n /\ h[x].value # n
                          /\ h[x].next \in Alive(h) \cup {NULL} /\ h[x].prev \in Alive(h) \cup {NULL}
                          /\ h[x].child \in Alive(h) \cup {NULL} /\ h[x].value \in Alive(h) \cup {NULL}
  BY <1>2 DEF Shape, Links
<1>4. \A p, c : c \in Nodes => (Owner(g, p, c) <=> Owner(h, p, c))
  BY <1>1, <1>2 DEF Owner
<1>5. Starts(g) = Starts(h) \cup {n}
  <2>1. n \in Starts(g) BY <1>2, <1>3 DEF Starts
  <2>2. ASSUME NEW y \in Alive(h) PROVE y \in Starts(g) <=> y \in Starts(h)
    BY <1>2, <1>3 DEF Starts
  <2> QED BY <2>1, <2>2 DEF Starts
<1>6. Tops(g) = Tops(h) \cup {n}
  <2>1. \A p \in Alive(g) : ~Owner(g, p, n) BY <1>2, <1>3, <1>4 DEF Owner
  <2>2. ASSUME NEW x \in Alive(h) PROVE ~Owner(g, n, x) BY <1>2, <1>4 DEF Owner
  <2>3. ASSUME NEW y \in Starts(h) PROVE y \in Tops(g) <=> y \in Tops(h)
    <3>1. y \in Alive(h) /\ y \in Nodes /\ y \in Starts(g) BY <1>2, <1>5 DEF Starts
    <3> QED BY <2>2, <3>1, <1>4 DEF Tops
  <2>4. n \in Tops(g) BY <2>1, <1>5 DEF Tops
  <2>5. Tops(g) \subseteq Starts(h) \cup {n} /\ Tops(h) \subseteq Starts(h) BY <1>5 DEF Tops
  <2> QED BY <2>3, <2>4, <2>5
<1>7. ASSUME NEW C \in SUBSET Nodes, NextClosed(g, C) PROVE NextClosed(h, C)
  BY <1>2, <1>7, ClosedOverLive
<1>8. ASSUME NEW c \in Alive(h) PROVE Run(h, c) \subseteq Run(g, c)
  BY <1>7 DEF Run
<1>9. Links(g)
  <2>1. ASSUME NEW x \in Alive(h)
        PROVE  {g[x].next, g[x].prev, g[x].child, g[x].value} \subseteq Alive(g) \cup {NULL}
    BY <1>3
  <2>2. {g[n].next, g[n].prev, g[n].child, g[n].value} \subseteq Alive(g) \cup {NULL}
    OBVIOUS
  <2> QED BY <2>1, <2>2 DEF Links
<1>10. Backs(g)
  <2>1. SUFFICES ASSUME NEW x \in Alive(g), NEW y \in Alive(g), g[x].next = y PROVE g[y].prev = x
    BY DEF Backs
  <2>2. y # NULL BY <1>2
  <2>3. x \in Alive(h) /\ y \in Alive(h) BY <2>1, <2>2, <1>3
  <2> QED BY <2>1, <2>3 DEF Shape, Backs
<1>11. OneOwner(g)
  <2>1. SUFFICES ASSUME NEW c \in Alive(g), NEW p \in Alive(g), NEW q \in Alive(g),
                        Owner(g, p, c), Owner(g, q, c)
                 PROVE  p = q
    BY DEF OneOwner
  <2>2. Owner(h, p, c) /\ Owner(h, q, c) BY <2>1, <1>4 DEF Alive
  <2>3. c \in Alive(h) /\ p \in Alive(h) /\ q \in Alive(h) BY <2>2, <2>1, <1>3 DEF Owner
  <2> QED BY <2>2, <2>3 DEF Shape, OneOwner
<1>12. Firsts(g)
  <2>1. SUFFICES ASSUME NEW c \in Alive(g), NEW p \in Alive(g), Owner(g, p, c)
                 PROVE  c \in Starts(g)
    BY DEF Firsts
  <2>2. Owner(h, p, c) BY <2>1, <1>4 DEF Alive
  <2>3. c \in Alive(h) /\ p \in Alive(h) BY <2>2, <2>1, <1>3 DEF Owner
  <2> QED BY <2>2, <2>3, <1>5 DEF Shape, Firsts
<1>13. Grounded(g) BY <1>5, <1>7 DEF Shape, Grounded
<1>14. Sharing(g)
  <2>1. SUFFICES ASSUME NEW r \in Alive(g), g[r].ref, g[r].child # NULL
                 PROVE  \E p \in Alive(g) : Owner(g, p, g[r].child)
    BY DEF Sharing
  <2>2. \E p \in Alive(h) : Owner(h, p, g[r].child) BY <2>1 DEF Shape, Sharing
  <2>3. g[r].child \in Nodes BY <2>1, <1>2, <1>3
  <2> QED BY <2>2, <2>3, <1>4
<1>15. OwnValues(g) BY DEF Shape, OwnValues
<1>16. Prevs(g)
  <2>1. SUFFICES ASSUME NEW s \in Alive(g), g[s].prev # NULL
                 PROVE  \/ g[g[s].prev].next = s
                        \/ g[s].prev \in Run(g, s) /\ \E q \in Alive(g) : Owner(g, q, s)
    BY DEF Prevs
  <2>2. s \in Alive(h) /\ g[s].prev = h[s].prev /\ h[s].prev \in Alive(h) BY <2>1, <1>3
  <2>3. CASE h[h[s].prev].next = s BY <2>2, <2>3
  <2>4. CASE h[s].prev \in Run(h, s) /\ \E q \in Alive(h) : Owner(h, q, s)
    BY <2>2, <2>4, <1>2, <1>4, <1>8
  <2> QED BY <2>1, <2>2, <2>3, <2>4 DEF Shape, Prevs
<1>17. ASSUME NEW open, Rings(h, open) PROVE Rings(g, open)
  <2>1. SUFFICES ASSUME NEW p \in Alive(g) \ open, ~g[p].ref, g[p].child # NULL
                 PROVE  IsLast(g, g[p].child, g[g[p].child].prev)
    BY DEF Rings, Ring
  <2>2. p \in Alive(h) /\ g[p] = h[p] /\ h[p].child \in Alive(h) BY <2>1, <1>3
  <2>3. IsLast(h, h[p].child, h[h[p].child].prev) BY <1>17, <2>1, <2>2 DEF Rings, Ring
  <2>4. h[h[p].child].prev \in Alive(h) BY <2>2, <2>3, RunFacts DEF IsLast
  <2> QED BY <2>2, <2>3, <2>4, <1>8 DEF IsLast
<1> QED BY <1>4, <1>5, <1>6, <1>8, <1>9, <1>10, <1>11, <1>12, <1>13, <1>14, <1>15, <1>16, <1>17 DEF Shape


LEMMA AliveFacts ==
  ASSUME NEW h, Shape(h), NEW x \in Alive(h)
  PROVE  /\ x \in Nodes /\ x # NULL
         /\ h[x].next \in Alive(h) \cup {NULL} /\ h[x].prev \in Alive(h) \cup {NULL}
         /\ h[x].child \in Alive(h) \cup {NULL} /\ h[x].value \in Alive(h) \cup {NULL}
BY NullIsNoNode DEF Alive, Shape, Links

(* Only links change. *)
Relinked(h, g) == Typed(g) /\ Alive(g) = Alive(h) /\ SameData(h, g)

LEMMA RelinkedShape ==
  ASSUME NEW h, Shape(h), NEW g, Relinked(h, g),
         \A x \in Alive(h) : {g[x].next, g[x].prev, g[x].child} \subseteq Alive(h) \cup {NULL},
         Backs(g), OneOwner(g), Firsts(g), Grounded(g), Sharing(g), Prevs(g)
  PROVE  Shape(g)
<1>1. Links(g)
  <2>1. SUFFICES ASSUME NEW x \in Alive(h)
                 PROVE  {g[x].next, g[x].prev, g[x].child, g[x].value} \subseteq Alive(h) \cup {NULL}
    BY DEF Links, Relinked
  <2>2. g[x].value \in Alive(h) \cup {NULL} BY AliveFacts DEF Relinked, SameData
  <2> QED BY <2>2
<1>2. OwnValues(g) BY DEF OwnValues, Shape, Relinked, SameData
<1> QED BY <1>1, <1>2 DEF Shape, Relinked

(* t goes behind l, the last of its list. *)
LEMMA AppendShape ==
  ASSUME NEW h, Shape(h), NEW g, Relinked(h, g), NEW l \in Alive(h), NEW t \in Tops(h),
         t # l, h[l].next = NULL, h[t].next = NULL,
         \A x \in Alive(h) : /\ g[x].next = IF x = l THEN t ELSE h[x].next
                             /\ g[x].prev = IF x = t THEN l ELSE h[x].prev
                             /\ g[x].child = h[x].child
  PROVE  /\ Shape(g) /\ Starts(g) = Starts(h) \ {t} /\ Tops(g) = Tops(h) \ {t} /\ SameOwners(h, g)
         /\ \A c \in Alive(h) : /\ Run(h, c) \subseteq Run(g, c)
                                /\ l \in Run(h, c) => t \in Run(g, c)
         /\ \A p \in Alive(h) : /\ ~h[p].ref /\ Ring(h, p)
                                /\ h[p].child # NULL => h[h[p].child].prev # l
                                => Ring(g, p)
<1>1. t \in Alive(h) /\ t \in Starts(h) BY DEF Tops, Starts
<1>2. \A x \in Alive(h) : h[x].next # t /\ ~Owner(h, x, t) BY <1>1 DEF Tops, Starts
<1>3. \A x \in Alive(h) : /\ x \in Nodes /\ x # NULL
                          /\ h[x].next \in Alive(h) \cup {NULL} /\ h[x].prev \in Alive(h) \cup {NULL}
                          /\ h[x].child \in Alive(h) \cup {NULL}
  BY AliveFacts
<1>4. Alive(g) = Alive(h) BY DEF Relinked
<1>5. SameOwners(h, g) BY DEF SameOwners, Owner, Relinked, SameData
<1>6. Starts(g) = Starts(h) \ {t}
  <2>1. t \notin Starts(g) BY <1>4 DEF Starts
  <2>2. ASSUME NEW y \in Alive(h), y # t PROVE y \in Starts(g) <=> y \in Starts(h)
    BY <2>2, <1>3, <1>4 DEF Starts
  <2> QED BY <2>1, <2>2, <1>4 DEF Starts
<1>7. Tops(g) = Tops(h) \ {t} BY <1>4, <1>5, <1>6 DEF Tops, SameOwners
<1>8. ASSUME NEW C \in SUBSET Nodes, NextClosed(g, C) PROVE NextClosed(h, C)
  BY <1>3, <1>4, <1>8, ClosedOverLive
<1>9. ASSUME NEW c \in Alive(h)
      PROVE  Run(h, c) \subseteq Run(g, c) /\ (l \in Run(h, c) => t \in Run(g, c))
  <2>1. Run(h, c) \subseteq Run(g, c) BY <1>8 DEF Run
  <2>2. ASSUME l \in Run(h, c), NEW C \in SUBSET Nodes, c \in C, NextClosed(g, C) PROVE t \in C
    <3>1. l \in C BY <2>2, <1>8 DEF Run
    <3> QED BY <3>1, <2>2, <1>1, <1>3, <1>4, ClosedOverLive
  <2> QED BY <2>1, <2>2, <1>1, <1>3 DEF Run
<1>10. \A x \in Alive(h) : {g[x].next, g[x].prev, g[x].child} \subseteq Alive(h) \cup {NULL}
  BY <1>1, <1>3
<1>11. Backs(g)
  <2>1. SUFFICES ASSUME NEW x \in Alive(h), NEW y \in Alive(h), g[x].next = y PROVE g[y].prev = x
    BY <1>4 DEF Backs
  <2>2. CASE x = l BY <2>1, <2>2, <1>1
  <2>3. CASE x # l BY <2>1, <2>3, <1>2 DEF Shape, Backs
  <2> QED BY <2>2, <2>3
<1>12. OneOwner(g) BY <1>4, <1>5 DEF Shape, OneOwner, SameOwners
<1>13. Firsts(g)
  <2>1. SUFFICES ASSUME NEW c \in Alive(h), NEW p \in Alive(h), Owner(h, p, c) PROVE c \in Starts(h) \ {t}
    BY <1>4, <1>5, <1>6 DEF Firsts, SameOwners
  <2> QED BY <2>1, <1>2 DEF Shape, Firsts
<1>14. Grounded(g)
  <2>1. SUFFICES ASSUME NEW C \in SUBSET Nodes, Starts(h) \ {t} \subseteq C, NextClosed(g, C)
                 PROVE  Alive(h) \subseteq C
    BY <1>4, <1>6 DEF Grounded
  <2>2. NextClosed(h, C \cup {t})
    <3>1. C \cup {t} \in SUBSET Nodes BY <1>1, <1>3
    <3> QED BY <3>1, <2>1, <1>8, ClosedOverLive
  <2>3. Alive(h) \subseteq C \cup {t}
    BY <2>1, <2>2, <1>1, <1>3 DEF Shape, Grounded
  <2>4. l \in C BY <2>3
  <2> QED BY <2>3, <2>4, <2>1, <1>1, <1>3, <1>4, ClosedOverLive
<1>15. Sharing(g) BY <1>4, <1>5 DEF Shape, Sharing, SameOwners, Relinked, SameData
<1>16. Prevs(g)
  <2>1. SUFFICES ASSUME NEW s \in Alive(h), g[s].prev # NULL
                 PROVE  \/ g[g[s].prev].next = s
                        \/ g[s].prev \in Run(g, s) /\ \E q \in Alive(h) : Owner(h, q, s)
    BY <1>4, <1>5 DEF Prevs, SameOwners
  <2>2. CASE s = t BY <2>2
  <2>3. CASE s # t /\ h[h[s].prev].next = s BY <2>1, <2>3, <1>3
  <2>4. CASE s # t /\ h[s].prev \in Run(h, s) /\ \E q \in Alive(h) : Owner(h, q, s)
    BY <2>4, <1>9
  <2> QED BY <2>1, <2>2, <2>3, <2>4 DEF Shape, Prevs
<1>17. ASSUME NEW p \in Alive(h), ~h[p].ref, Ring(h, p), h[p].child # NULL => h[h[p].child].prev # l
       PROVE  Ring(g, p)
  <2>1. SUFFICES ASSUME h[p].child # NULL PROVE IsLast(g, h[p].child, g[h[p].child].prev)
    BY DEF Ring
  <2>2. h[p].child \in Alive(h) /\ h[p].child # t BY <2>1, <1>2, <1>3, <1>17 DEF Owner
  <2>3. IsLast(h, h[p].child, h[h[p].child].prev) BY <1>17, <2>1 DEF Ring
  <2>4. h[h[p].child].prev \in Alive(h) BY <2>2, <2>3, RunFacts DEF IsLast
  <2> QED BY <1>9, <1>17, <2>1, <2>2, <2>3, <2>4 DEF IsLast
<1>18. Shape(g) BY <1>10, <1>11, <1>12, <1>13, <1>14, <1>15, <1>16, RelinkedShape
<1> QED BY <1>5, <1>6, <1>7, <1>9, <1>17, <1>18

(* A circle of next, a list and its starts stay when no next changes. *)
LEMMA SameNext ==
  ASSUME NEW h, Shape(h), NEW g, Relinked(h, g), \A x \in Alive(h) : g[x].next = h[x].next
  PROVE  /\ \A C \in SUBSET Nodes : NextClosed(g, C) <=> NextClosed(h, C)
         /\ \A c : Run(g, c) = Run(h, c)
         /\ Starts(g) = Starts(h) /\ Grounded(g)
<1>1. \A C \in SUBSET Nodes : NextClosed(g, C) <=> NextClosed(h, C) BY ClosedOverLive DEF Relinked
<1>2. \A c : Run(g, c) = Run(h, c) BY <1>1 DEF Run
<1>3. Starts(g) = Starts(h) BY DEF Starts, Relinked
<1> QED BY <1>1, <1>2, <1>3 DEF Shape, Grounded, Relinked

(* t becomes the first child of p. *)
LEMMA SetChildShape ==
  ASSUME NEW h, Shape(h), NEW g, Relinked(h, g), NEW p \in Alive(h), NEW t \in Tops(h),
         ~h[p].ref, h[p].child = NULL,
         \A x \in Alive(h) : /\ g[x].next = h[x].next /\ g[x].prev = h[x].prev
                             /\ g[x].child = IF x = p THEN t ELSE h[x].child
  PROVE  /\ Shape(g) /\ Starts(g) = Starts(h) /\ Tops(g) = Tops(h) \ {t}
         /\ \A q, c : c \in Nodes => (Owner(g, q, c) <=> Owner(h, q, c) \/ (q = p /\ c = t))
         /\ \A c : Run(g, c) = Run(h, c)
         /\ \A q \in Alive(h) \ {p} : ~h[q].ref /\ Ring(h, q) => Ring(g, q)
<1>1. t \in Alive(h) /\ t \in Starts(h) BY DEF Tops, Starts
<1>2. \A x \in Alive(h) : ~Owner(h, x, t) BY DEF Tops
<1>3. \A x \in Alive(h) : /\ x \in Nodes /\ x # NULL
                          /\ h[x].next \in Alive(h) \cup {NULL} /\ h[x].prev \in Alive(h) \cup {NULL}
                          /\ h[x].child \in Alive(h) \cup {NULL}
  BY AliveFacts
<1>4. Alive(g) = Alive(h) BY DEF Relinked
<1>5. ASSUME NEW q, NEW c \in Nodes PROVE Owner(g, q, c) <=> Owner(h, q, c) \/ (q = p /\ c = t)
  BY <1>4, NullIsNoNode DEF Owner, Relinked, SameData
<1>6. Starts(g) = Starts(h) /\ Grounded(g) /\ \A c : Run(g, c) = Run(h, c) BY SameNext
<1>7. Tops(g) = Tops(h) \ {t}
  <2>1. t \notin Tops(g) BY <1>1, <1>3, <1>4, <1>5 DEF Tops
  <2>2. ASSUME NEW y \in Starts(h), y # t PROVE y \in Tops(g) <=> y \in Tops(h)
    <3>1. y \in Nodes BY <1>3 DEF Starts
    <3> QED BY <3>1, <2>2, <1>4, <1>5, <1>6 DEF Tops
  <2> QED BY <2>1, <2>2, <1>6 DEF Tops
<1>8. \A x \in Alive(h) : {g[x].next, g[x].prev, g[x].child} \subseteq Alive(h) \cup {NULL}
  BY <1>1, <1>3
<1>9. Backs(g) BY <1>4 DEF Shape, Backs
<1>10. OneOwner(g)
  <2>1. SUFFICES ASSUME NEW c \in Alive(h), NEW q \in Alive(h), NEW r \in Alive(h),
                        Owner(g, q, c), Owner(g, r, c)
                 PROVE  q = r
    BY <1>4 DEF OneOwner
  <2>2. c \in Nodes BY <1>3
  <2> QED BY <2>1, <2>2, <1>2, <1>5 DEF Shape, OneOwner
<1>11. Firsts(g)
  <2>1. SUFFICES ASSUME NEW c \in Alive(h), NEW q \in Alive(h), Owner(g, q, c) PROVE c \in Starts(h)
    BY <1>4, <1>6 DEF Firsts
  <2>2. c \in Nodes BY <1>3
  <2> QED BY <2>1, <2>2, <1>1, <1>5 DEF Shape, Firsts
<1>12. Sharing(g)
  <2>1. SUFFICES ASSUME NEW r \in Alive(h), h[r].ref, g[r].child # NULL
                 PROVE  \E q \in Alive(h) : Owner(g, q, g[r].child)
    BY <1>4 DEF Sharing, Relinked, SameData
  <2>2. g[r].child = h[r].child BY <2>1
  <2>3. h[r].child \in Nodes BY <2>1, <2>2, <1>3
  <2> QED BY <2>1, <2>2, <2>3, <1>5 DEF Shape, Sharing
<1>13. Prevs(g)
  <2>1. SUFFICES ASSUME NEW s \in Alive(h), h[s].prev # NULL
                 PROVE  \/ g[h[s].prev].next = s
                        \/ h[s].prev \in Run(h, s) /\ \E q \in Alive(h) : Owner(g, q, s)
    BY <1>4, <1>6 DEF Prevs
  <2>2. h[s].prev \in Alive(h) /\ s \in Nodes BY <2>1, <1>3
  <2> QED BY <2>1, <2>2, <1>5 DEF Shape, Prevs
<1>14. ASSUME NEW q \in Alive(h) \ {p}, ~h[q].ref, Ring(h, q) PROVE Ring(g, q)
  <2>1. SUFFICES ASSUME h[q].child # NULL PROVE IsLast(g, h[q].child, g[h[q].child].prev)
    BY DEF Ring
  <2>2. h[q].child \in Alive(h) BY <2>1, <1>3
  <2>3. IsLast(h, h[q].child, h[h[q].child].prev) BY <1>14, <2>1 DEF Ring
  <2>4. h[h[q].child].prev \in Alive(h) BY <2>2, <2>3, RunFacts DEF IsLast
  <2> QED BY <2>2, <2>3, <2>4, <1>6 DEF IsLast
<1>15. Shape(g) BY <1>6, <1>8, <1>9, <1>10, <1>11, <1>12, <1>13, RelinkedShape
<1> QED BY <1>5, <1>6, <1>7, <1>14, <1>15

(* The first child of p is told that l is the last. *)
LEMMA CloseShape ==
  ASSUME NEW h, Shape(h), NEW g, Relinked(h, g), NEW p \in Alive(h), NEW c \in Alive(h), NEW l,
         Owner(h, p, c), IsLast(h, c, l),
         \A x \in Alive(h) : /\ g[x].next = h[x].next /\ g[x].child = h[x].child
                             /\ g[x].prev = IF x = c THEN l ELSE h[x].prev
  PROVE  /\ Shape(g) /\ Starts(g) = Starts(h) /\ Tops(g) = Tops(h) /\ SameOwners(h, g)
         /\ \A d : Run(g, d) = Run(h, d)
         /\ Ring(g, p)
         /\ \A q \in Alive(h) : ~h[q].ref /\ Ring(h, q) => Ring(g, q)
<1>1. l \in Alive(h) /\ l \in Run(h, c) /\ h[l].next = NULL BY RunFacts DEF IsLast
<1>2. c \in Starts(h) BY DEF Shape, Firsts
<1>3. \A x \in Alive(h) : /\ x \in Nodes /\ x # NULL
                          /\ h[x].next \in Alive(h) \cup {NULL} /\ h[x].prev \in Alive(h) \cup {NULL}
                          /\ h[x].child \in Alive(h) \cup {NULL}
  BY AliveFacts
<1>4. Alive(g) = Alive(h) BY DEF Relinked
<1>5. SameOwners(h, g) BY DEF SameOwners, Owner, Relinked, SameData
<1>6. Starts(g) = Starts(h) /\ Grounded(g) /\ \A d : Run(g, d) = Run(h, d) BY SameNext
<1>7. Tops(g) = Tops(h) BY <1>4, <1>5, <1>6 DEF Tops, SameOwners
<1>8. \A x \in Alive(h) : {g[x].next, g[x].prev, g[x].child} \subseteq Alive(h) \cup {NULL}
  BY <1>1, <1>3
<1>9. Backs(g) BY <1>2, <1>4 DEF Shape, Backs, Starts
<1>10. OneOwner(g) BY <1>4, <1>5 DEF Shape, OneOwner, SameOwners
<1>11. Firsts(g) BY <1>4, <1>5, <1>6 DEF Shape, Firsts, SameOwners
<1>12. Sharing(g) BY <1>4, <1>5 DEF Shape, Sharing, SameOwners, Relinked, SameData
<1>13. Prevs(g)
  <2>1. SUFFICES ASSUME NEW s \in Alive(h), g[s].prev # NULL
                 PROVE  \/ g[g[s].prev].next = s
                        \/ g[s].prev \in Run(h, s) /\ \E q \in Alive(h) : Owner(h, q, s)
    BY <1>4, <1>5, <1>6 DEF Prevs, SameOwners
  <2>2. CASE s = c BY <2>2, <1>1
  <2>3. CASE s # c BY <2>1, <2>3, <1>3 DEF Shape, Prevs
  <2> QED BY <2>2, <2>3
<1>14. Ring(g, p) BY <1>1, <1>6 DEF Ring, IsLast, Owner
<1>15. ASSUME NEW q \in Alive(h), ~h[q].ref, Ring(h, q) PROVE Ring(g, q)
  <2>1. SUFFICES ASSUME h[q].child # NULL PROVE IsLast(g, h[q].child, g[h[q].child].prev)
    BY DEF Ring
  <2>2. h[q].child \in Alive(h) BY <2>1, <1>3
  <2>3. IsLast(h, h[q].child, h[h[q].child].prev) BY <1>15, <2>1 DEF Ring
  <2>4. h[h[q].child].prev \in Alive(h) BY <2>2, <2>3, RunFacts DEF IsLast
  <2>5. CASE h[q].child = c BY <2>5, <1>1, <1>6 DEF IsLast
  <2>6. CASE h[q].child # c BY <2>2, <2>3, <2>4, <2>6, <1>6 DEF IsLast
  <2> QED BY <2>5, <2>6
<1>16. Shape(g) BY <1>6, <1>8, <1>9, <1>10, <1>11, <1>12, <1>13, RelinkedShape
<1> QED BY <1>5, <1>6, <1>7, <1>14, <1>15, <1>16

InsertedFirst(h, g, p, c, t) ==
  \A x \in Alive(h) : /\ g[x].next = IF x = t THEN c ELSE h[x].next
                      /\ g[x].prev = IF x = t THEN h[c].prev ELSE IF x = c THEN t ELSE h[x].prev
                      /\ g[x].child = IF x = p THEN t ELSE h[x].child
Inserted(h, g, y, c, t) ==
  \A x \in Alive(h) : /\ g[x].next = IF x = y THEN t ELSE IF x = t THEN c ELSE h[x].next
                      /\ g[x].prev = IF x = t THEN y ELSE IF x = c THEN t ELSE h[x].prev
                      /\ g[x].child = h[x].child

(* t goes in front of c, the first child of p, which no reference shows. *)
LEMMA InsertFirstShape ==
  ASSUME NEW h, Shape(h), NEW g, Relinked(h, g), NEW p \in Alive(h), NEW c \in Alive(h), NEW t \in Tops(h),
         Owner(h, p, c), Ring(h, p), h[t].next = NULL,
         \A r \in Alive(h) : h[r].ref => h[r].child # c,
         InsertedFirst(h, g, p, c, t)
  PROVE  /\ Shape(g) /\ Tops(g) = Tops(h) \ {t}
         /\ \A q \in Alive(h) : ~h[q].ref /\ Ring(h, q) => Ring(g, q)
<1> USE DEF InsertedFirst
<1>1. t \in Alive(h) /\ t \in Starts(h) BY DEF Tops, Starts
<1>2. \A x \in Alive(h) : ~Owner(h, x, t) /\ h[x].next # t /\ h[x].next # c
  BY <1>1 DEF Tops, Starts, Shape, Firsts
<1>3. \A x \in Alive(h) : /\ x \in Nodes /\ x # NULL
                          /\ h[x].next \in Alive(h) \cup {NULL} /\ h[x].prev \in Alive(h) \cup {NULL}
                          /\ h[x].child \in Alive(h) \cup {NULL}
  BY AliveFacts
<1>4. Alive(g) = Alive(h) /\ c # t /\ c \in Starts(h)
  BY <1>1, <1>2 DEF Relinked, Shape, Firsts
<1>5. ASSUME NEW q, NEW d \in Nodes
      PROVE Owner(g, q, d) <=> (Owner(h, q, d) /\ d # c) \/ (q = p /\ d = t)
  <2>1. q \in Alive(h) => (Owner(h, q, c) <=> q = p) BY DEF Shape, OneOwner
  <2> QED BY <2>1, <1>2, <1>4, NullIsNoNode DEF Owner, Relinked, SameData
<1>6. Starts(g) = Starts(h) \ {c}
  <2>1. c \notin Starts(g) BY <1>1, <1>4 DEF Starts
  <2>2. ASSUME NEW y \in Alive(h), y # c PROVE y \in Starts(g) <=> y \in Starts(h)
    BY <2>2, <1>3, <1>4 DEF Starts
  <2> QED BY <2>1, <2>2, <1>4 DEF Starts
<1>7. Tops(g) = Tops(h) \ {t}
  <2>1. t \notin Tops(g) BY <1>1, <1>3, <1>4, <1>5 DEF Tops
  <2>2. ASSUME NEW y \in Alive(h), y # t PROVE y \in Tops(g) <=> y \in Tops(h)
    <3>1. y \in Nodes BY <1>3
    <3> QED BY <3>1, <2>2, <1>4, <1>5, <1>6 DEF Tops
  <2> QED BY <2>1, <2>2, <1>4 DEF Tops, Starts
<1>8. ASSUME NEW C \in SUBSET Nodes, NextClosed(g, C) PROVE NextClosed(h, C)
  BY <1>3, <1>4, <1>8, ClosedOverLive
<1>9. ASSUME NEW d \in Alive(h) PROVE Run(h, d) \subseteq Run(g, d) BY <1>8 DEF Run
<1>10. Run(h, c) \subseteq Run(g, t)
  <2>1. SUFFICES ASSUME NEW C \in SUBSET Nodes, t \in C, NextClosed(g, C)
                 PROVE  Run(h, c) \subseteq C
    BY DEF Run
  <2>2. c \in C BY <2>1, <1>1, <1>3, <1>4, ClosedOverLive
  <2> QED BY <2>1, <2>2, <1>8 DEF Run
<1>11. \A d \in Starts(h) \ {t} : t \notin Run(h, d) BY <1>1, RunFacts, RunsMeet
<1>12. \A x \in Alive(h) : {g[x].next, g[x].prev, g[x].child} \subseteq Alive(h) \cup {NULL}
  BY <1>1, <1>3
<1>13. Backs(g)
  <2>1. SUFFICES ASSUME NEW x \in Alive(h), NEW y \in Alive(h), g[x].next = y PROVE g[y].prev = x
    BY <1>4 DEF Backs
  <2>2. CASE x = t BY <2>1, <2>2, <1>4
  <2>3. CASE x # t BY <2>1, <2>3, <1>2 DEF Shape, Backs
  <2> QED BY <2>2, <2>3
<1>14. OneOwner(g)
  <2>1. SUFFICES ASSUME NEW d \in Alive(h), NEW q \in Alive(h), NEW r \in Alive(h),
                        Owner(g, q, d), Owner(g, r, d)
                 PROVE  q = r
    BY <1>4 DEF OneOwner
  <2>2. d \in Nodes BY <1>3
  <2> QED BY <2>1, <2>2, <1>2, <1>5 DEF Shape, OneOwner
<1>15. Firsts(g)
  <2>1. SUFFICES ASSUME NEW d \in Alive(h), NEW q \in Alive(h), Owner(g, q, d) PROVE d \in Starts(h) \ {c}
    BY <1>4, <1>6 DEF Firsts
  <2>2. d \in Nodes BY <1>3
  <2> QED BY <2>1, <2>2, <1>1, <1>4, <1>5 DEF Shape, Firsts
<1>16. Grounded(g)
  <2>1. SUFFICES ASSUME NEW C \in SUBSET Nodes, Starts(h) \ {c} \subseteq C, NextClosed(g, C)
                 PROVE  Alive(h) \subseteq C
    BY <1>4, <1>6 DEF Grounded
  <2>2. t \in C BY <2>1, <1>1, <1>4
  <2>3. c \in C BY <2>1, <2>2, <1>1, <1>3, <1>4, ClosedOverLive
  <2> QED BY <2>1, <2>3, <1>8 DEF Shape, Grounded
<1>17. Sharing(g)
  <2>1. SUFFICES ASSUME NEW r \in Alive(h), h[r].ref, g[r].child # NULL
                 PROVE  \E q \in Alive(h) : Owner(g, q, g[r].child)
    BY <1>4 DEF Sharing, Relinked, SameData
  <2>2. g[r].child = h[r].child BY <2>1 DEF Owner
  <2>3. h[r].child \in Nodes /\ h[r].child # c BY <2>1, <2>2, <1>3
  <2> QED BY <2>1, <2>2, <2>3, <1>5 DEF Shape, Sharing
<1>18. h[c].prev # t /\ IsLast(h, c, h[c].prev)
  <2>1. IsLast(h, c, h[c].prev) BY <1>3 DEF Ring, Owner
  <2> QED BY <2>1, <1>4, <1>11 DEF IsLast
<1>19. Prevs(g)
  <2>1. SUFFICES ASSUME NEW s \in Alive(h), g[s].prev # NULL
                 PROVE  \/ g[g[s].prev].next = s
                        \/ g[s].prev \in Run(g, s) /\ \E q \in Alive(h) : Owner(g, q, s)
    BY <1>4 DEF Prevs
  <2>2. CASE s = t BY <2>2, <1>3, <1>5, <1>10, <1>18 DEF IsLast
  <2>3. CASE s = c BY <2>3, <1>1, <1>4
  <2>4. CASE s # t /\ s # c /\ h[h[s].prev].next = s BY <2>1, <2>4, <1>3
  <2>5. CASE s # t /\ s # c /\ h[s].prev \in Run(h, s) /\ \E q \in Alive(h) : Owner(h, q, s)
    <3>1. s \in Nodes BY <1>3
    <3> QED BY <3>1, <2>5, <1>5, <1>9
  <2> QED BY <2>1, <2>2, <2>3, <2>4, <2>5 DEF Shape, Prevs
<1>20. Ring(g, p)
  <2>1. h[c].prev \in Alive(h) /\ h[h[c].prev].next = NULL /\ h[c].prev \in Run(g, t)
    BY <1>10, <1>18, RunFacts DEF IsLast
  <2> QED BY <2>1, <1>1, <1>18 DEF Ring, IsLast
<1>21. ASSUME NEW q \in Alive(h), q # p, ~h[q].ref, Ring(h, q) PROVE Ring(g, q)
  <2>1. SUFFICES ASSUME h[q].child # NULL PROVE IsLast(g, h[q].child, g[h[q].child].prev)
    BY <1>21 DEF Ring
  <2>2. h[q].child \in Alive(h) /\ Owner(h, q, h[q].child) BY <2>1, <1>3, <1>21 DEF Owner
  <2>3. h[q].child # t /\ h[q].child # c /\ h[q].child \in Starts(h)
    BY <2>2, <1>2, <1>21 DEF Shape, OneOwner, Firsts
  <2>4. IsLast(h, h[q].child, h[h[q].child].prev) BY <1>21, <2>1 DEF Ring
  <2>5. h[h[q].child].prev \in Alive(h) /\ h[h[q].child].prev # t
    BY <2>2, <2>3, <2>4, <1>11, RunFacts DEF IsLast
  <2> QED BY <2>2, <2>3, <2>4, <2>5, <1>9 DEF IsLast
<1>22. Shape(g) BY <1>12, <1>13, <1>14, <1>15, <1>16, <1>17, <1>19, RelinkedShape
<1> QED BY <1>7, <1>20, <1>21, <1>22

(* t goes between y and c. *)
LEMMA InsertShape ==
  ASSUME NEW h, Shape(h), NEW g, Relinked(h, g), NEW y \in Alive(h), NEW c \in Alive(h), NEW t \in Tops(h),
         h[y].next = c, h[t].next = NULL,
         Inserted(h, g, y, c, t)
  PROVE  /\ Shape(g) /\ Tops(g) = Tops(h) \ {t}
         /\ \A d \in Alive(h) : Run(h, d) \subseteq Run(g, d)
         /\ \A q \in Alive(h) : ~h[q].ref /\ Ring(h, q) => Ring(g, q)
<1> USE DEF Inserted
<1>1. t \in Alive(h) /\ t \in Starts(h) BY DEF Tops, Starts
<1>2. \A x \in Alive(h) : ~Owner(h, x, t) /\ h[x].next # t /\ (h[x].next = c => x = y)
  BY <1>1 DEF Tops, Starts, Shape, Backs
<1>3. \A x \in Alive(h) : /\ x \in Nodes /\ x # NULL
                          /\ h[x].next \in Alive(h) \cup {NULL} /\ h[x].prev \in Alive(h) \cup {NULL}
                          /\ h[x].child \in Alive(h) \cup {NULL}
  BY AliveFacts
<1>4. Alive(g) = Alive(h) /\ c # t /\ y # t BY <1>2, <1>3 DEF Relinked
<1>5. SameOwners(h, g) BY DEF SameOwners, Owner, Relinked, SameData
<1>6. Starts(g) = Starts(h) \ {t}
  <2>1. t \notin Starts(g) BY <1>4 DEF Starts
  <2>2. ASSUME NEW z \in Alive(h), z # t PROVE z \in Starts(g) <=> z \in Starts(h)
    BY <2>2, <1>1, <1>3, <1>4 DEF Starts
  <2> QED BY <2>1, <2>2, <1>4 DEF Starts
<1>7. Tops(g) = Tops(h) \ {t} BY <1>4, <1>5, <1>6 DEF Tops, SameOwners
<1>8. ASSUME NEW C \in SUBSET Nodes, NextClosed(g, C) PROVE NextClosed(h, C)
  <2>1. y \in C => c \in C BY <1>1, <1>3, <1>4, <1>8, ClosedOverLive
  <2> QED BY <2>1, <1>3, <1>4, <1>8, ClosedOverLive
<1>9. ASSUME NEW d \in Alive(h) PROVE Run(h, d) \subseteq Run(g, d) BY <1>8 DEF Run
<1>10. \A d \in Starts(h) \ {t} : t \notin Run(h, d) BY <1>1, RunFacts, RunsMeet
<1>11. \A x \in Alive(h) : {g[x].next, g[x].prev, g[x].child} \subseteq Alive(h) \cup {NULL}
  BY <1>1, <1>3
<1>12. Backs(g)
  <2>1. SUFFICES ASSUME NEW x \in Alive(h), NEW z \in Alive(h), g[x].next = z PROVE g[z].prev = x
    BY <1>4 DEF Backs
  <2>2. CASE x = t \/ x = y BY <2>1, <2>2, <1>4
  <2>3. CASE x # t /\ x # y BY <2>1, <2>3, <1>2 DEF Shape, Backs
  <2> QED BY <2>2, <2>3
<1>13. OneOwner(g) BY <1>4, <1>5 DEF Shape, OneOwner, SameOwners
<1>14. Firsts(g)
  <2>1. SUFFICES ASSUME NEW d \in Alive(h), NEW q \in Alive(h), Owner(h, q, d) PROVE d \in Starts(h) \ {t}
    BY <1>4, <1>5, <1>6 DEF Firsts, SameOwners
  <2> QED BY <2>1, <1>2 DEF Shape, Firsts
<1>15. Grounded(g)
  <2>1. SUFFICES ASSUME NEW C \in SUBSET Nodes, Starts(h) \ {t} \subseteq C, NextClosed(g, C)
                 PROVE  Alive(h) \subseteq C
    BY <1>4, <1>6 DEF Grounded
  <2>2. NextClosed(h, C \cup {t})
    <3>1. C \cup {t} \in SUBSET Nodes BY <1>1, <1>3
    <3> QED BY <3>1, <2>1, <1>8, ClosedOverLive
  <2>3. Alive(h) \subseteq C \cup {t} BY <2>1, <2>2, <1>1, <1>3 DEF Shape, Grounded
  <2>4. y \in C BY <2>3, <1>4
  <2> QED BY <2>3, <2>4, <2>1, <1>1, <1>3, <1>4, ClosedOverLive
<1>16. Sharing(g) BY <1>4, <1>5 DEF Shape, Sharing, SameOwners, Relinked, SameData
<1>17. Prevs(g)
  <2>1. SUFFICES ASSUME NEW s \in Alive(h), g[s].prev # NULL
                 PROVE  \/ g[g[s].prev].next = s
                        \/ g[s].prev \in Run(g, s) /\ \E q \in Alive(h) : Owner(h, q, s)
    BY <1>4, <1>5 DEF Prevs, SameOwners
  <2>2. CASE s = t \/ s = c BY <2>2, <1>1, <1>4
  <2>3. CASE s # t /\ s # c /\ h[h[s].prev].next = s BY <2>1, <2>3, <1>3
  <2>4. CASE s # t /\ s # c /\ h[s].prev \in Run(h, s) /\ \E q \in Alive(h) : Owner(h, q, s)
    BY <2>4, <1>9
  <2> QED BY <2>1, <2>2, <2>3, <2>4 DEF Shape, Prevs
<1>18. ASSUME NEW q \in Alive(h), ~h[q].ref, Ring(h, q) PROVE Ring(g, q)
  <2>1. SUFFICES ASSUME h[q].child # NULL PROVE IsLast(g, h[q].child, g[h[q].child].prev)
    BY DEF Ring
  <2>2. h[q].child \in Alive(h) /\ Owner(h, q, h[q].child) BY <2>1, <1>3, <1>18 DEF Owner
  <2>3. h[q].child # t /\ h[q].child # c /\ h[q].child \in Starts(h)
    BY <2>2, <1>2 DEF Shape, Firsts, Starts
  <2>4. IsLast(h, h[q].child, h[h[q].child].prev) BY <1>18, <2>1 DEF Ring
  <2>5. h[h[q].child].prev \in Alive(h) /\ h[h[q].child].prev # t
    BY <2>2, <2>3, <2>4, <1>10, RunFacts DEF IsLast
  <2>6. h[h[q].child].prev # y BY <2>4, <1>3 DEF IsLast
  <2> QED BY <2>2, <2>3, <2>4, <2>5, <2>6, <1>9 DEF IsLast
<1>19. Shape(g) BY <1>11, <1>12, <1>13, <1>14, <1>15, <1>16, <1>17, RelinkedShape
<1> QED BY <1>7, <1>9, <1>18, <1>19

(* c, the first child of p, leaves its list; no reference shows it. *)
LEMMA DetachFirstShape ==
  ASSUME NEW h, Shape(h), NEW g, Relinked(h, g), NEW p \in Alive(h), NEW c \in Alive(h),
         NEW b, b = h[c].next,
         Owner(h, p, c), Ring(h, p), \A r \in Alive(h) : h[r].ref => h[r].child # c,
         \A x \in Alive(h) : /\ g[x].next = IF x = c THEN NULL ELSE h[x].next
                             /\ g[x].prev = IF x = c THEN NULL ELSE IF x = b THEN h[c].prev ELSE h[x].prev
                             /\ g[x].child = IF x = p THEN b ELSE h[x].child
  PROVE  /\ Shape(g) /\ Tops(g) = Tops(h) \cup {c}
         /\ \A q \in Alive(h) : ~h[q].ref /\ Ring(h, q) => Ring(g, q)
<1>1. c \in Starts(h) BY DEF Shape, Firsts
<1>2. \A x \in Alive(h) : h[x].next # c /\ (h[x].next = b /\ b # NULL => x = c) /\ (b # NULL => ~Owner(h, x, b))
  <2>1. b # NULL => b \in Alive(h) BY AliveFacts
  <2>2. ASSUME b # NULL, NEW x \in Alive(h), h[x].next = b PROVE x = c
    BY <2>1, <2>2 DEF Shape, Backs
  <2> QED BY <2>1, <2>2, <1>1 DEF Starts, Shape, Firsts
<1>3. \A x \in Alive(h) : /\ x \in Nodes /\ x # NULL
                          /\ h[x].next \in Alive(h) \cup {NULL} /\ h[x].prev \in Alive(h) \cup {NULL}
                          /\ h[x].child \in Alive(h) \cup {NULL}
  BY AliveFacts
<1>4. Alive(g) = Alive(h) /\ b # c /\ b \in Alive(h) \cup {NULL} BY <1>2, <1>3 DEF Relinked
<1>5. ASSUME NEW q, NEW d \in Nodes
      PROVE Owner(g, q, d) <=> (Owner(h, q, d) /\ d # c) \/ (q = p /\ d = b)
  <2>1. q \in Alive(h) => (Owner(h, q, c) <=> q = p) BY DEF Shape, OneOwner
  <2> QED BY <2>1, <1>2, <1>4, NullIsNoNode DEF Owner, Relinked, SameData
<1>6. Starts(g) = Starts(h) \cup ({b} \ {NULL})
  <2>1. b # NULL => b \in Starts(g) BY <1>2, <1>3, <1>4 DEF Starts
  <2>2. ASSUME NEW y \in Alive(h), y # b PROVE y \in Starts(g) <=> y \in Starts(h)
    BY <2>2, <1>3, <1>4 DEF Starts
  <2> QED BY <2>1, <2>2, <1>3, <1>4 DEF Starts
<1>7. Tops(g) = Tops(h) \cup {c}
  <2>1. c \in Tops(g) BY <1>1, <1>3, <1>4, <1>5, <1>6 DEF Tops
  <2>2. b # NULL => b \notin Tops(g) BY <1>3, <1>4, <1>5 DEF Tops
  <2>3. b # NULL => b \notin Tops(h) BY <1>2, <1>3 DEF Tops, Starts
  <2>4. ASSUME NEW y \in Alive(h), y # c, y # b PROVE y \in Tops(g) <=> y \in Tops(h)
    <3>1. y \in Nodes BY <1>3
    <3> QED BY <3>1, <2>4, <1>4, <1>5, <1>6 DEF Tops
  <2>5. Tops(g) \subseteq Alive(h) /\ Tops(h) \subseteq Alive(h) BY <1>4 DEF Tops, Starts
  <2> QED BY <2>1, <2>2, <2>3, <2>4, <2>5, <1>3
<1>8. ASSUME NEW C \in SUBSET Nodes, NextClosed(g, C) PROVE NextClosed(h, C \ {c})
  <2>1. C \ {c} \in SUBSET Nodes OBVIOUS
  <2> QED BY <2>1, <1>2, <1>3, <1>4, <1>8, ClosedOverLive
<1>9. ASSUME NEW d \in Alive(h), d # c PROVE Run(h, d) \subseteq Run(g, d)
  BY <1>8, <1>9 DEF Run
<1>10. ASSUME b # NULL PROVE Run(h, c) \ {c} \subseteq Run(g, b)
  <2>1. SUFFICES ASSUME NEW C \in SUBSET Nodes, b \in C, NextClosed(g, C)
                 PROVE  Run(h, c) \subseteq C \cup {c}
    BY DEF Run
  <2>2. C \cup {c} \in SUBSET Nodes BY <1>3
  <2>3. NextClosed(h, C \cup {c}) BY <2>1, <2>2, <1>3, <1>4, ClosedOverLive
  <2> QED BY <2>2, <2>3 DEF Run
<1>11. \A d \in Starts(h) \ {c} : c \notin Run(h, d) BY <1>1, RunFacts, RunsMeet
<1>12. IsLast(h, c, h[c].prev) /\ h[c].prev \in Alive(h)
  <2>1. IsLast(h, c, h[c].prev) BY <1>3 DEF Ring, Owner
  <2> QED BY <2>1, RunFacts DEF IsLast
<1>13. \A x \in Alive(h) : {g[x].next, g[x].prev, g[x].child} \subseteq Alive(h) \cup {NULL}
  BY <1>3, <1>4
<1>14. Backs(g)
  <2>1. SUFFICES ASSUME NEW x \in Alive(h), NEW y \in Alive(h), g[x].next = y PROVE g[y].prev = x
    BY <1>4 DEF Backs
  <2>2. x # c /\ h[x].next = y BY <2>1, <1>3
  <2>3. y # c /\ y # b BY <2>2, <1>2, <1>3
  <2> QED BY <2>2, <2>3 DEF Shape, Backs
<1>15. OneOwner(g)
  <2>1. SUFFICES ASSUME NEW d \in Alive(h), NEW q \in Alive(h), NEW r \in Alive(h),
                        Owner(g, q, d), Owner(g, r, d)
                 PROVE  q = r
    BY <1>4 DEF OneOwner
  <2>2. d \in Nodes /\ d # NULL BY <1>3
  <2> QED BY <2>1, <2>2, <1>2, <1>5 DEF Shape, OneOwner
<1>16. Firsts(g)
  <2>1. SUFFICES ASSUME NEW d \in Alive(h), NEW q \in Alive(h), Owner(g, q, d)
                 PROVE  d \in Starts(h) \/ (d = b /\ b # NULL)
    BY <1>4, <1>6 DEF Firsts
  <2>2. d \in Nodes /\ d # NULL BY <1>3
  <2> QED BY <2>1, <2>2, <1>5 DEF Shape, Firsts
<1>17. Grounded(g)
  <2>1. SUFFICES ASSUME NEW C \in SUBSET Nodes, Starts(h) \subseteq C, b # NULL => b \in C, NextClosed(g, C)
                 PROVE  Alive(h) \subseteq C
    BY <1>4, <1>6 DEF Grounded
  <2>2. NextClosed(h, C) BY <2>1, <1>3, <1>4, ClosedOverLive
  <2> QED BY <2>1, <2>2 DEF Shape, Grounded
<1>18. Sharing(g)
  <2>1. SUFFICES ASSUME NEW r \in Alive(h), h[r].ref, g[r].child # NULL
                 PROVE  \E q \in Alive(h) : Owner(g, q, g[r].child)
    BY <1>4 DEF Sharing, Relinked, SameData
  <2>2. g[r].child = h[r].child BY <2>1 DEF Owner
  <2>3. h[r].child \in Nodes /\ h[r].child # c BY <2>1, <2>2, <1>3
  <2> QED BY <2>1, <2>2, <2>3, <1>5 DEF Shape, Sharing
<1>19. ASSUME b # NULL PROVE h[c].prev \in Run(g, b) /\ h[c].prev # c
  BY <1>10, <1>12, <1>19 DEF IsLast
<1>20. Prevs(g)
  <2>1. SUFFICES ASSUME NEW s \in Alive(h), g[s].prev # NULL
                 PROVE  \/ g[g[s].prev].next = s
                        \/ g[s].prev \in Run(g, s) /\ \E q \in Alive(h) : Owner(g, q, s)
    BY <1>4 DEF Prevs
  <2>2. s # c BY <2>1
  <2>3. CASE s = b
    <3>1. b # NULL /\ b \in Nodes BY <2>3, <1>3
    <3> QED BY <3>1, <2>2, <2>3, <1>5, <1>19
  <2>4. CASE s # b /\ h[h[s].prev].next = s BY <2>1, <2>2, <2>4, <1>3
  <2>5. CASE s # b /\ h[s].prev \in Run(h, s) /\ \E q \in Alive(h) : Owner(h, q, s)
    <3>1. s \in Nodes BY <1>3
    <3> QED BY <3>1, <2>2, <2>5, <1>5, <1>9
  <2> QED BY <2>1, <2>2, <2>3, <2>4, <2>5 DEF Shape, Prevs
<1>21. Ring(g, p)
  <2>1. SUFFICES ASSUME b # NULL PROVE IsLast(g, b, g[b].prev) BY DEF Ring
  <2> QED BY <2>1, <1>4, <1>12, <1>19 DEF IsLast
<1>22. ASSUME NEW q \in Alive(h), q # p, ~h[q].ref, Ring(h, q) PROVE Ring(g, q)
  <2>1. SUFFICES ASSUME h[q].child # NULL PROVE IsLast(g, h[q].child, g[h[q].child].prev)
    BY <1>22 DEF Ring
  <2>2. h[q].child \in Alive(h) /\ Owner(h, q, h[q].child) BY <2>1, <1>3, <1>22 DEF Owner
  <2>3. h[q].child # b /\ h[q].child # c BY <2>1, <2>2, <1>2, <1>22 DEF Shape, OneOwner
  <2>4. IsLast(h, h[q].child, h[h[q].child].prev) BY <1>22, <2>1 DEF Ring
  <2>5. h[h[q].child].prev \in Alive(h) BY <2>2, <2>4, RunFacts DEF IsLast
  <2> QED BY <2>2, <2>3, <2>4, <2>5, <1>9 DEF IsLast
<1>23. Shape(g) BY <1>13, <1>14, <1>15, <1>16, <1>17, <1>18, <1>20, RelinkedShape
<1> QED BY <1>7, <1>21, <1>22, <1>23

(* c, which follows y in the list of p's children, leaves it. *)
LEMMA DetachShape ==
  ASSUME NEW h, Shape(h), NEW g, Relinked(h, g), NEW p \in Alive(h), NEW f \in Alive(h),
         NEW y \in Alive(h), NEW c \in Alive(h), NEW b, b = h[c].next,
         Owner(h, p, f), Ring(h, p), c \in Run(h, f), h[y].next = c,
         \A x \in Alive(h) :
           /\ g[x].next = IF x = c THEN NULL ELSE IF x = y THEN b ELSE h[x].next
           /\ g[x].prev = IF x = c THEN NULL
                          ELSE IF x = b \/ (b = NULL /\ x = f) THEN y ELSE h[x].prev
           /\ g[x].child = h[x].child
  PROVE  /\ Shape(g) /\ Tops(g) = Tops(h) \cup {c}
         /\ \A q \in Alive(h) : ~h[q].ref /\ Ring(h, q) => Ring(g, q)
<1>1. f \in Starts(h) BY DEF Shape, Firsts
<1>2. \A x \in Alive(h) : /\ x \in Nodes /\ x # NULL
                          /\ h[x].next \in Alive(h) \cup {NULL} /\ h[x].prev \in Alive(h) \cup {NULL}
                          /\ h[x].child \in Alive(h) \cup {NULL}
  BY AliveFacts
<1>3. \A x \in Alive(h) : /\ h[x].next = c => x = y
                          /\ h[x].next = b /\ b # NULL => x = c
                          /\ b # NULL => ~Owner(h, x, b)
                          /\ ~Owner(h, x, c) /\ h[x].next # f
  <2>1. b # NULL => b \in Alive(h) BY <1>2
  <2>2. ASSUME b # NULL, NEW x \in Alive(h), h[x].next = b PROVE x = c
    BY <2>1, <2>2 DEF Shape, Backs
  <2>3. ASSUME NEW x \in Alive(h), h[x].next = c PROVE x = y BY <2>3 DEF Shape, Backs
  <2>4. c \notin Starts(h) /\ (b # NULL => b \notin Starts(h)) BY DEF Starts
  <2>5. ASSUME NEW x \in Alive(h) PROVE ~Owner(h, x, c) BY <2>4 DEF Shape, Firsts
  <2>6. ASSUME NEW x \in Alive(h), b # NULL PROVE ~Owner(h, x, b) BY <2>1, <2>4, <2>6 DEF Shape, Firsts
  <2> QED BY <2>2, <2>3, <2>5, <2>6, <1>1 DEF Starts
<1>4. y # c BY NoLoop
<1>5. Alive(g) = Alive(h) /\ b # c /\ b \in Alive(h) \cup {NULL} /\ c # f BY <1>3, <1>2, <1>4 DEF Relinked
<1>6. SameOwners(h, g) BY DEF SameOwners, Owner, Relinked, SameData
<1>7. Starts(g) = Starts(h) \cup {c}
  <2>1. c \in Starts(g) BY <1>3, <1>2, <1>5 DEF Starts
  <2>2. b # NULL => b \notin Starts(g) /\ b \notin Starts(h) BY <1>2, <1>5, <1>4 DEF Starts
  <2>3. ASSUME NEW z \in Alive(h), z # b, z # c PROVE z \in Starts(g) <=> z \in Starts(h)
    BY <2>3, <1>2, <1>5 DEF Starts
  <2> QED BY <2>1, <2>2, <2>3, <1>2, <1>5 DEF Starts
<1>8. Tops(g) = Tops(h) \cup {c} BY <1>3, <1>5, <1>6, <1>7 DEF Tops, SameOwners
<1>9. ASSUME NEW C \in SUBSET Nodes, NextClosed(g, C)
      PROVE  IF y \in C THEN NextClosed(h, C \cup {c}) ELSE NextClosed(h, C \ {c})
  <2>1. C \cup {c} \in SUBSET Nodes /\ C \ {c} \in SUBSET Nodes BY <1>2
  <2>2. CASE y \in C
    <3>1. b # NULL => b \in C BY <2>2, <1>2, <1>5, <1>9, <1>4, ClosedOverLive
    <3> QED BY <3>1, <2>1, <2>2, <1>2, <1>5, <1>9, ClosedOverLive
  <2>3. CASE y \notin C BY <2>1, <2>3, <1>3, <1>2, <1>5, <1>9, ClosedOverLive
  <2> QED BY <2>2, <2>3
<1>10. ASSUME NEW d \in Alive(h), d # c PROVE Run(h, d) \ {c} \subseteq Run(g, d)
  <2>1. SUFFICES ASSUME NEW C \in SUBSET Nodes, d \in C, NextClosed(g, C)
                 PROVE  Run(h, d) \subseteq C \cup {c}
    BY DEF Run
  <2>2. C \cup {c} \in SUBSET Nodes /\ C \ {c} \in SUBSET Nodes BY <1>2
  <2>3. CASE y \in C BY <2>1, <2>2, <2>3, <1>9, <1>10 DEF Run
  <2>4. CASE y \notin C BY <2>1, <2>2, <2>4, <1>9, <1>10 DEF Run
  <2> QED BY <2>3, <2>4
<1>11. \A d \in Starts(h) \ {f} : c \notin Run(h, d) BY <1>1, RunsMeet
<1>12. y \in Run(h, f)
  <2>1. PICK x \in Run(h, f) : h[x].next = c BY <1>5, RunBefore
  <2>2. x = y BY <2>1, <1>3, RunFacts
  <2> QED BY <2>1, <2>2
<1>13. IsLast(h, f, h[f].prev) BY <1>2 DEF Ring, Owner
<1>14. \A x \in Alive(h) : {g[x].next, g[x].prev, g[x].child} \subseteq Alive(h) \cup {NULL}
  BY <1>2, <1>5
<1>15. Backs(g)
  <2>1. SUFFICES ASSUME NEW x \in Alive(h), NEW z \in Alive(h), g[x].next = z PROVE g[z].prev = x
    BY <1>5 DEF Backs
  <2>2. x # c /\ z # NULL BY <2>1, <1>2
  <2>3. CASE x = y BY <2>1, <2>2, <2>3, <1>5
  <2>4. CASE x # y
    <3>1. h[x].next = z /\ z # c /\ z # b /\ z # f BY <2>1, <2>2, <2>4, <1>3
    <3> QED BY <3>1 DEF Shape, Backs
  <2> QED BY <2>3, <2>4
<1>16. OneOwner(g) BY <1>5, <1>6 DEF Shape, OneOwner, SameOwners
<1>17. Firsts(g) BY <1>5, <1>6, <1>7 DEF Shape, Firsts, SameOwners
<1>18. Grounded(g)
  <2>1. SUFFICES ASSUME NEW C \in SUBSET Nodes, Starts(h) \subseteq C, c \in C, NextClosed(g, C)
                 PROVE  Alive(h) \subseteq C
    BY <1>5, <1>7 DEF Grounded
  <2>2. C \cup {c} = C /\ C \ {c} \in SUBSET Nodes BY <2>1
  <2>3. CASE y \in C BY <2>1, <2>2, <2>3, <1>9 DEF Shape, Grounded
  <2>4. CASE y \notin C
    <3>1. Starts(h) \subseteq C \ {c} BY <2>1 DEF Starts
    <3>2. Alive(h) \subseteq C \ {c} BY <3>1, <2>1, <2>2, <2>4, <1>9 DEF Shape, Grounded
    <3> QED BY <3>2
  <2> QED BY <2>3, <2>4
<1>19. Sharing(g) BY <1>5, <1>6 DEF Shape, Sharing, SameOwners, Relinked, SameData
<1>20. Prevs(g)
  <2>1. SUFFICES ASSUME NEW s \in Alive(h), g[s].prev # NULL
                 PROVE  \/ g[g[s].prev].next = s
                        \/ g[s].prev \in Run(g, s) /\ \E q \in Alive(h) : Owner(h, q, s)
    BY <1>5, <1>6 DEF Prevs, SameOwners
  <2>2. s # c BY <2>1
  <2>3. CASE s = b BY <2>2, <2>3, <1>4
  <2>4. CASE b = NULL /\ s = f BY <2>2, <2>4, <1>10, <1>12, <1>4
  <2>5. CASE s # b /\ ~(b = NULL /\ s = f) /\ h[h[s].prev].next = s
    <3>1. h[s].prev \in Alive(h) /\ g[s].prev = h[s].prev BY <2>1, <2>2, <2>5, <1>2
    <3>2. h[s].prev # c /\ h[s].prev # y BY <2>2, <2>5
    <3> QED BY <3>1, <3>2, <2>5
  <2>6. CASE s # b /\ ~(b = NULL /\ s = f) /\ h[s].prev \in Run(h, s) /\ \E q \in Alive(h) : Owner(h, q, s)
    <3>1. g[s].prev = h[s].prev BY <2>2, <2>6
    <3>2. s \in Starts(h) BY <2>6 DEF Shape, Firsts
    <3>3. h[s].prev # c BY <3>2, <2>6, <1>11, <1>13 DEF IsLast
    <3> QED BY <3>1, <3>3, <2>2, <2>6, <1>10
  <2>7. g[s].prev = h[s].prev \/ s = b \/ (b = NULL /\ s = f) BY <2>2
  <2> QED BY <2>1, <2>3, <2>4, <2>5, <2>6, <2>7 DEF Shape, Prevs
<1>21. ASSUME NEW q \in Alive(h), ~h[q].ref, Ring(h, q) PROVE Ring(g, q)
  <2>1. SUFFICES ASSUME h[q].child # NULL PROVE IsLast(g, h[q].child, g[h[q].child].prev)
    BY DEF Ring
  <2>2. h[q].child \in Alive(h) /\ Owner(h, q, h[q].child) BY <2>1, <1>2, <1>21 DEF Owner
  <2>3. h[q].child # b /\ h[q].child # c /\ h[q].child \in Starts(h)
    BY <2>1, <2>2, <1>3 DEF Shape, Firsts
  <2>4. IsLast(h, h[q].child, h[h[q].child].prev) BY <1>21, <2>1 DEF Ring
  <2>5. h[h[q].child].prev \in Alive(h) BY <2>2, <2>4, RunFacts DEF IsLast
  <2>6. CASE b = NULL /\ h[q].child = f
    BY <2>6, <2>3, <1>5, <1>10, <1>12, <1>4 DEF IsLast
  <2>7. CASE ~(b = NULL /\ h[q].child = f)
    <3>1. h[h[q].child].prev # c BY <2>3, <2>4, <2>7, <1>11 DEF IsLast
    <3>2. h[h[q].child].prev # y BY <2>4, <1>2 DEF IsLast
    <3> QED BY <3>1, <3>2, <2>2, <2>3, <2>4, <2>5, <2>7, <1>10 DEF IsLast
  <2> QED BY <2>6, <2>7
<1>22. Shape(g) BY <1>14, <1>15, <1>16, <1>17, <1>18, <1>19, <1>20, RelinkedShape
<1> QED BY <1>8, <1>21, <1>22

(* What cJSON_Delete frees: n and all it leads to, each reached from another of them. *)
Gathered(h, n, D) ==
  /\ n \in D /\ D \subseteq Alive(h)
  /\ \A x \in D : /\ h[x].next # NULL => h[x].next \in D
                  /\ ~h[x].ref /\ h[x].child # NULL => h[x].child \in D
  /\ \A x \in D \ {n} : \E y \in D : h[y].next = x \/ Owner(h, y, x)

(* n goes, with all it leads to, and no reference that stays shows any of it. *)
LEMMA DeleteShape ==
  ASSUME NEW h, Shape(h), NEW n \in Tops(h), NEW D, Gathered(h, n, D),
         \A r \in Alive(h) \ D : h[r].ref => h[r].child \notin D /\ h[r].value \notin D,
         NEW g, Typed(g), Alive(g) = Alive(h) \ D, \A x \in Alive(h) \ D : g[x] = h[x]
  PROVE  /\ Shape(g) /\ Starts(g) = Starts(h) \ D /\ Tops(g) = Tops(h) \ {n}
         /\ \A q, c : c \in Nodes => (Owner(g, q, c) <=> Owner(h, q, c) /\ c \notin D)
         /\ \A d \in Alive(h) \ D : Run(h, d) \subseteq Run(g, d)
         /\ \A x \in Alive(h) \ D : h[x].next \notin D
         /\ \A q \in Alive(h) \ D : ~h[q].ref => h[q].child \notin D /\ (Ring(h, q) => Ring(g, q))
<1>1. D \subseteq Alive(h) /\ n \in D /\ n \in Starts(h) BY DEF Gathered, Tops
<1>2. \A x \in Alive(h) : /\ x \in Nodes /\ x # NULL
                          /\ h[x].next \in Alive(h) \cup {NULL} /\ h[x].prev \in Alive(h) \cup {NULL}
                          /\ h[x].child \in Alive(h) \cup {NULL} /\ h[x].value \in Alive(h) \cup {NULL}
  BY AliveFacts
<1>3. ASSUME NEW y \in Alive(h) \ D PROVE h[y].next \notin D /\ \A x \in D : ~Owner(h, y, x)
  <2>1. SUFFICES ASSUME NEW x \in D, h[y].next = x \/ Owner(h, y, x) PROVE FALSE OBVIOUS
  <2>2. x \in Alive(h) BY <1>1
  <2>3. x # n BY <2>1 DEF Tops, Starts
  <2>4. PICK z \in D : h[z].next = x \/ Owner(h, z, x) BY <2>3 DEF Gathered
  <2>5. z \in Alive(h) BY <1>1
  <2>6. CASE h[y].next = x
    <3>1. h[z].next = x BY <2>2, <2>4, <2>5, <2>6 DEF Shape, Firsts, Starts
    <3> QED BY <3>1, <2>2, <2>5, <2>6 DEF Shape, Backs
  <2>7. CASE Owner(h, y, x)
    <3>1. Owner(h, z, x) BY <2>2, <2>4, <2>5, <2>7 DEF Shape, Firsts, Starts
    <3> QED BY <3>1, <2>2, <2>5, <2>7 DEF Shape, OneOwner
  <2> QED BY <2>1, <2>6, <2>7
<1>4. ASSUME NEW q, NEW c \in Nodes PROVE Owner(g, q, c) <=> Owner(h, q, c) /\ c \notin D
  <2>1. CASE q \in Alive(h) \ D BY <2>1, <1>3 DEF Owner
  <2>2. CASE q \in D
    <3>1. Owner(h, q, c) => c \in D BY <2>2, NullIsNoNode DEF Owner, Gathered
    <3> QED BY <3>1, <2>2 DEF Owner
  <2> QED BY <2>1, <2>2, <1>1 DEF Owner
<1>5. Starts(g) = Starts(h) \ D
  <2>1. ASSUME NEW y \in Alive(h) \ D PROVE y \in Starts(g) <=> y \in Starts(h)
    <3>1. \A x \in D : h[x].next # y BY <1>2 DEF Gathered
    <3> QED BY <3>1, <1>1 DEF Starts
  <2> QED BY <2>1 DEF Starts
<1>6. Tops(h) \cap D = {n}
  <2>1. ASSUME NEW x \in D, x # n PROVE x \notin Tops(h) BY <2>1, <1>1 DEF Gathered, Tops, Starts
  <2> QED BY <2>1, <1>1
<1>7. Tops(g) = Tops(h) \ {n}
  <2>1. ASSUME NEW y \in Starts(h) \ D PROVE y \in Tops(g) <=> y \in Tops(h)
    <3>1. y \in Nodes /\ y # NULL BY <1>2 DEF Starts
    <3>2. \A x \in D : ~Owner(h, x, y) BY <3>1 DEF Gathered, Owner
    <3> QED BY <3>1, <3>2, <1>1, <1>4, <1>5 DEF Tops
  <2>2. Tops(g) \subseteq Starts(h) \ D /\ Tops(h) \subseteq Starts(h) BY <1>5 DEF Tops
  <2> QED BY <2>1, <2>2, <1>1, <1>6
<1>8. ASSUME NEW C \in SUBSET Nodes, NextClosed(g, C) PROVE NextClosed(h, C \ D)
  <2>1. C \ D \in SUBSET Nodes OBVIOUS
  <2> QED BY <2>1, <1>2, <1>3, <1>8, ClosedOverLive
<1>9. ASSUME NEW d \in Alive(h) \ D PROVE Run(h, d) \subseteq Run(g, d) /\ Run(h, d) \cap D = {}
  <2>1. Run(h, d) \subseteq Run(g, d) BY <1>8 DEF Run
  <2>2. NextClosed(h, Alive(h) \ D)
    <3>1. Alive(h) \ D \in SUBSET Nodes BY <1>2
    <3> QED BY <3>1, <1>2, <1>3, ClosedOverLive
  <2>3. Alive(h) \ D \in SUBSET Nodes BY <1>2
  <2>4. Run(h, d) \subseteq Alive(h) \ D BY <2>2, <2>3 DEF Run
  <2> QED BY <2>1, <2>4
<1>10. ASSUME NEW s \in Alive(h) \ D PROVE h[s].prev \notin D
  <2>1. SUFFICES ASSUME h[s].prev \in D PROVE FALSE OBVIOUS
  <2>2. h[s].prev \in Alive(h) /\ h[s].prev # NULL BY <2>1, <1>1, <1>2
  <2>3. CASE h[h[s].prev].next = s BY <2>1, <2>3, <1>2 DEF Gathered
  <2>4. CASE h[s].prev \in Run(h, s) BY <2>1, <2>4, <1>9
  <2> QED BY <2>2, <2>3, <2>4 DEF Shape, Prevs
<1>11. ASSUME NEW q \in Alive(h) \ D, ~h[q].ref
       PROVE  h[q].child \notin D /\ h[q].value \notin D
  BY <1>1, <1>2, <1>3, <1>11 DEF Owner, Shape, OwnValues
<1>12. Links(g)
  <2>1. SUFFICES ASSUME NEW x \in Alive(h) \ D
                 PROVE  {h[x].next, h[x].prev, h[x].child, h[x].value} \cap D = {}
    BY <1>2 DEF Links
  <2> QED BY <1>3, <1>10, <1>11
<1>13. Backs(g) BY DEF Shape, Backs
<1>14. OneOwner(g)
  <2>1. SUFFICES ASSUME NEW c \in Alive(g), NEW p \in Alive(g), NEW q \in Alive(g),
                        Owner(g, p, c), Owner(g, q, c)
                 PROVE  p = q
    BY DEF OneOwner
  <2>2. c \in Nodes BY <1>2
  <2> QED BY <2>1, <2>2, <1>4 DEF Shape, OneOwner
<1>15. Firsts(g)
  <2>1. SUFFICES ASSUME NEW c \in Alive(g), NEW p \in Alive(g), Owner(g, p, c) PROVE c \in Starts(h)
    BY <1>5 DEF Firsts
  <2>2. c \in Nodes BY <1>2
  <2> QED BY <2>1, <2>2, <1>4 DEF Shape, Firsts
<1>16. Grounded(g)
  <2>1. SUFFICES ASSUME NEW C \in SUBSET Nodes, Starts(h) \ D \subseteq C, NextClosed(g, C)
                 PROVE  Alive(h) \subseteq C \cup D
    BY <1>5 DEF Grounded
  <2>2. C \cup D \in SUBSET Nodes BY <1>1, <1>2
  <2>3. NextClosed(h, C \cup D)
    <3>1. SUFFICES ASSUME NEW x \in C \cup D, x \in Alive(h), h[x].next # NULL
                   PROVE  h[x].next \in C \cup D
      BY <2>2, ClosedOverLive
    <3>2. CASE x \in D BY <3>1, <3>2 DEF Gathered
    <3>3. CASE x \notin D BY <3>1, <3>3, <2>1, ClosedOverLive
    <3> QED BY <3>2, <3>3
  <2> QED BY <2>1, <2>2, <2>3 DEF Shape, Grounded
<1>17. Sharing(g)
  <2>1. SUFFICES ASSUME NEW r \in Alive(h) \ D, h[r].ref, h[r].child # NULL
                 PROVE  \E p \in Alive(g) : Owner(g, p, h[r].child)
    BY DEF Sharing
  <2>2. PICK p \in Alive(h) : Owner(h, p, h[r].child) BY <2>1 DEF Shape, Sharing
  <2>3. h[r].child \notin D /\ h[r].child \in Nodes BY <2>1, <1>2
  <2>4. p \notin D BY <2>1, <2>2, <2>3 DEF Owner, Gathered
  <2> QED BY <2>2, <2>3, <2>4, <1>4
<1>18. OwnValues(g) BY DEF Shape, OwnValues
<1>19. Prevs(g)
  <2>1. SUFFICES ASSUME NEW s \in Alive(h) \ D, h[s].prev # NULL
                 PROVE  \/ g[h[s].prev].next = s
                        \/ h[s].prev \in Run(g, s) /\ \E q \in Alive(g) : Owner(g, q, s)
    BY DEF Prevs
  <2>2. h[s].prev \in Alive(h) \ D BY <2>1, <1>2, <1>10
  <2>3. CASE h[h[s].prev].next = s BY <2>2, <2>3
  <2>4. CASE h[s].prev \in Run(h, s) /\ \E q \in Alive(h) : Owner(h, q, s)
    <3>1. PICK q \in Alive(h) : Owner(h, q, s) BY <2>4
    <3>2. q \notin D BY <3>1, <1>2 DEF Owner, Gathered
    <3> QED BY <3>1, <3>2, <2>4, <1>2, <1>4, <1>9
  <2> QED BY <2>1, <2>3, <2>4 DEF Shape, Prevs
<1>20. ASSUME NEW q \in Alive(h) \ D, ~h[q].ref, Ring(h, q) PROVE Ring(g, q)
  <2>1. SUFFICES ASSUME h[q].child # NULL PROVE IsLast(g, h[q].child, g[h[q].child].prev)
    BY DEF Ring
  <2>2. h[q].child \in Alive(h) \ D BY <2>1, <1>2, <1>11, <1>20
  <2>3. IsLast(h, h[q].child, h[h[q].child].prev) BY <1>20, <2>1 DEF Ring
  <2>4. h[h[q].child].prev \in Alive(h) \ D BY <2>2, <2>3, <1>9, RunFacts DEF IsLast
  <2> QED BY <2>2, <2>3, <2>4, <1>9 DEF IsLast
<1>21. Shape(g) BY <1>12, <1>13, <1>14, <1>15, <1>16, <1>17, <1>18, <1>19 DEF Shape
<1> QED BY <1>3, <1>4, <1>5, <1>7, <1>9, <1>11, <1>20, <1>21

(* No pointer but prev leads into C or out of it, and no item of it is a reference. *)
Island(h, C) ==
  /\ C \subseteq Alive(h)
  /\ \A x \in C : ~h[x].ref /\ h[x].next \in C \cup {NULL} /\ h[x].child \in C \cup {NULL}
  /\ \A x \in Alive(h) \ C : h[x].next \notin C /\ h[x].child \notin C /\ h[x].value \notin C

(* What cJSON_Delete frees is all that n leads to and nothing else. *)
LEMMA DoomedFacts ==
  ASSUME NEW h, Shape(h), NEW n \in Alive(h)
  PROVE  /\ Gathered(h, n, Doomed(h, n))
         /\ \A C : Island(h, C) /\ n \in C => Doomed(h, n) \subseteq C
<1> DEFINE E == [x \in Nodes |-> IF h[x] = Freed THEN {}
                                 ELSE ({h[x].next} \cup (IF h[x].ref THEN {} ELSE {h[x].child})) \ {NULL}]
           D == Doomed(h, n)
<1>1. n \in Nodes /\ n # NULL BY AliveFacts
<1>2. ASSUME NEW x \in Alive(h)
      PROVE  x \in Nodes /\ E[x] = {y \in Alive(h) : y = h[x].next \/ (~h[x].ref /\ y = h[x].child)}
  <2>1. x \in Nodes /\ h[x] # Freed BY DEF Alive
  <2>2. E[x] = ({h[x].next} \cup (IF h[x].ref THEN {} ELSE {h[x].child})) \ {NULL} BY <2>1
  <2> QED BY <2>1, <2>2, AliveFacts
<1>3. \A x \in Nodes \ Alive(h) : E[x] = {} BY DEF Alive
<1>4. \A x \in Nodes : E[x] \subseteq Nodes
  <2>1. ASSUME NEW x \in Alive(h) PROVE E[x] \subseteq Nodes BY <1>2
  <2> QED BY <2>1, <1>3
<1>5. D = Reach(E, {n}) BY <1>1 DEF Doomed
<1> HIDE DEF E, D
<1>6. /\ D \in SUBSET Nodes /\ n \in D /\ Closed(E, D)
      /\ \A C \in SUBSET Nodes : n \in C /\ Closed(E, C) => D \subseteq C
  BY <1>1, <1>4, <1>5, ReachIsLeast
<1>7. D \subseteq Alive(h)
  <2>1. Alive(h) \in SUBSET Nodes /\ Closed(E, Alive(h)) BY <1>2 DEF Closed
  <2> QED BY <2>1, <1>6
<1>8. \A x \in D : /\ h[x].next # NULL => h[x].next \in D
                   /\ ~h[x].ref /\ h[x].child # NULL => h[x].child \in D
  <2>1. SUFFICES ASSUME NEW x \in D
                 PROVE  /\ h[x].next # NULL => h[x].next \in D
                        /\ ~h[x].ref /\ h[x].child # NULL => h[x].child \in D
    OBVIOUS
  <2>2. x \in Alive(h) /\ E[x] \subseteq D BY <1>6, <1>7 DEF Closed
  <2> QED BY <2>2, <1>2, AliveFacts
<1>9. \A x \in D \ {n} : \E y \in D : h[y].next = x \/ Owner(h, y, x)
  <2>1. SUFFICES ASSUME NEW x \in D \ {n}, \A y \in D : h[y].next # x /\ ~Owner(h, y, x)
                 PROVE  FALSE
    OBVIOUS
  <2>2. ASSUME NEW y \in D \ {x} PROVE E[y] \subseteq D \ {x}
    <3>1. y \in Alive(h) /\ E[y] \subseteq D BY <1>6, <1>7 DEF Closed
    <3>2. x \notin E[y] BY <2>1, <3>1, <1>2 DEF Owner
    <3> QED BY <3>1, <3>2
  <2>3. Closed(E, D \ {x}) /\ n \in D \ {x} /\ D \ {x} \in SUBSET Nodes BY <2>1, <2>2, <1>6 DEF Closed
  <2>4. D \subseteq D \ {x} BY <2>3, <1>6
  <2> QED BY <2>4
<1>10. ASSUME NEW C, Island(h, C), n \in C PROVE D \subseteq C
  <2>1. C \subseteq Alive(h) BY <1>10 DEF Island
  <2>2. ASSUME NEW x \in C PROVE E[x] \subseteq C
    <3>1. x \in Alive(h) /\ h[x].next \in C \cup {NULL} /\ h[x].child \in C \cup {NULL}
      BY <2>1, <1>10 DEF Island
    <3>2. NULL \notin Alive(h) BY NullIsNoNode DEF Alive
    <3> QED BY <3>1, <3>2, <1>2
  <2>3. C \in SUBSET Nodes /\ Closed(E, C) BY <2>1, <2>2 DEF Closed, Alive
  <2> QED BY <2>3, <1>6, <1>10
<1> QED BY <1>6, <1>7, <1>8, <1>9, <1>10 DEF D, Gathered

LEMMA DoomedNothing == \A h : Doomed(h, NULL) = {} /\ cJSON_Delete(h, NULL) = [x \in Nodes |-> h[x]]
<1> SUFFICES ASSUME NEW h PROVE Doomed(h, NULL) = {} /\ cJSON_Delete(h, NULL) = [x \in Nodes |-> h[x]]
  OBVIOUS
<1> DEFINE E == [x \in Nodes |-> IF h[x] = Freed THEN {}
                                 ELSE ({h[x].next} \cup (IF h[x].ref THEN {} ELSE {h[x].child})) \ {NULL}]
<1>1. Doomed(h, NULL) = Reach(E, {}) BY DEF Doomed
<1> HIDE DEF E
<1>2. PICK r : /\ IsReach(E, r, Cardinality(Nodes))
               /\ \A C : Reach(E, C) = r[Cardinality(Nodes)][C]
  BY ReachDef
<1> DEFINE N == Cardinality(Nodes)
           T == {k \in 0 .. N : r[k][{}] = {}}
<1>3. N \in Nat BY CardinalityNat
<1> HIDE DEF N
<1>4. ASSUME NEW k \in 0 .. N PROVE r[k][{}] = IF k = 0 THEN {} ELSE r[k - 1][{}]
  <2>1. r[k] = ReachBody(E, r, k) BY <1>2 DEF IsReach, N
  <2>2. {} \in SUBSET Nodes /\ {} \cup UNION {E[x] : x \in {}} = {} OBVIOUS
  <2>3. ReachBody(E, r, k)[{}] = IF k = 0 THEN {} ELSE r[k - 1][{} \cup UNION {E[x] : x \in {}}]
    BY <2>2 DEF ReachBody
  <2> QED BY <2>1, <2>2, <2>3
<1>5. 0 \in T BY <1>3, <1>4
<1>6. ASSUME NEW k \in 0 .. N - 1, k \in T PROVE k + 1 \in T BY <1>3, <1>4, <1>6
<1> HIDE DEF T
<1>7. N \in T BY <1>3, <1>5, <1>6, IntervalInduction
<1>8. Doomed(h, NULL) = {} BY <1>1, <1>2, <1>7 DEF T, N
<1> QED BY <1>8 DEF cJSON_Delete

LEMMA DeletedHeap ==
  ASSUME NEW h, Shape(h), NEW n \in Alive(h) \cup {NULL}
  PROVE  /\ Doomed(h, n) \subseteq Alive(h)
         /\ Typed(cJSON_Delete(h, n)) /\ Alive(cJSON_Delete(h, n)) = Alive(h) \ Doomed(h, n)
         /\ \A x \in Alive(h) \ Doomed(h, n) : cJSON_Delete(h, n)[x] = h[x]
<1> DEFINE D == Doomed(h, n)
           g == cJSON_Delete(h, n)
<1>1. D \subseteq Alive(h)
  <2>1. CASE n = NULL BY <2>1, DoomedNothing
  <2>2. CASE n # NULL BY <2>2, DoomedFacts DEF Gathered
  <2> QED BY <2>1, <2>2
<1>2. g = [x \in Nodes |-> IF x \in D THEN Freed ELSE h[x]] BY DEF cJSON_Delete
<1> HIDE DEF D, g
<1>3. Typed(g) BY <1>2 DEF Shape, Typed
<1>4. Alive(g) = Alive(h) \ D BY <1>2 DEF Alive
<1>5. \A x \in Alive(h) \ D : g[x] = h[x] BY <1>2 DEF Alive
<1> QED BY <1>1, <1>3, <1>4, <1>5 DEF D, g

-----------------------------------------------------------------------------
(* Counting the strings that items own. *)

Bit(P) == IF P THEN 1 ELSE 0

LEMMA OwnedSame ==
  ASSUME NEW h, NEW g, NEW S,
         \A x \in S : (OwnsName(h[x]) <=> OwnsName(g[x])) /\ (OwnsValue(h[x]) <=> OwnsValue(g[x]))
  PROVE  Owned(h, S) = Owned(g, S)
<1>1. {x \in S : OwnsName(h[x])} = {x \in S : OwnsName(g[x])} OBVIOUS
<1>2. {x \in S : OwnsValue(h[x])} = {x \in S : OwnsValue(g[x])} OBVIOUS
<1> QED BY <1>1, <1>2 DEF Owned

LEMMA CountSplit ==
  ASSUME NEW S, IsFiniteSet(S), NEW A, A \subseteq S, NEW D
  PROVE  /\ Cardinality(A) \in Nat /\ Cardinality(A \cap D) \in Nat /\ Cardinality(A \ D) \in Nat
         /\ Cardinality(A) = Cardinality(A \ D) + Cardinality(A \cap D)
<1>1. IsFiniteSet(A) BY FS_Subset
<1>2. Cardinality(A \ D) = Cardinality(A) - Cardinality(A \cap D) /\ IsFiniteSet(A \ D)
  BY <1>1, FS_Difference
<1>3. IsFiniteSet(A \cap D) BY <1>1, FS_Subset
<1> QED BY <1>1, <1>2, <1>3, FS_CardinalityType

LEMMA OwnedSplit ==
  ASSUME NEW h, NEW S \in SUBSET Nodes, NEW D \in SUBSET S
  PROVE  /\ Owned(h, S) \in Nat /\ Owned(h, D) \in Nat /\ Owned(h, S \ D) \in Nat
         /\ Owned(h, S) = Owned(h, S \ D) + Owned(h, D)
<1> DEFINE A == {x \in S : OwnsName(h[x])}
           B == {x \in S : OwnsValue(h[x])}
<1>1. IsFiniteSet(S) BY CJsonAssumption, FS_Subset
<1>2. A \ D = {x \in S \ D : OwnsName(h[x])} /\ A \cap D = {x \in D : OwnsName(h[x])} OBVIOUS
<1>3. B \ D = {x \in S \ D : OwnsValue(h[x])} /\ B \cap D = {x \in D : OwnsValue(h[x])} OBVIOUS
<1>4. /\ Owned(h, S) = Cardinality(A) + Cardinality(B)
      /\ Owned(h, S \ D) = Cardinality(A \ D) + Cardinality(B \ D)
      /\ Owned(h, D) = Cardinality(A \cap D) + Cardinality(B \cap D)
  BY <1>2, <1>3 DEF Owned
<1>5. A \subseteq S /\ B \subseteq S OBVIOUS
<1> HIDE DEF A, B
<1>6. /\ Cardinality(A) \in Nat /\ Cardinality(A \cap D) \in Nat /\ Cardinality(A \ D) \in Nat
      /\ Cardinality(A) = Cardinality(A \ D) + Cardinality(A \cap D)
  BY <1>1, <1>5, CountSplit
<1>7. /\ Cardinality(B) \in Nat /\ Cardinality(B \cap D) \in Nat /\ Cardinality(B \ D) \in Nat
      /\ Cardinality(B) = Cardinality(B \ D) + Cardinality(B \cap D)
  BY <1>1, <1>5, CountSplit
<1> QED BY <1>4, <1>6, <1>7

LEMMA OwnedOne ==
  ASSUME NEW h, NEW n
  PROVE  Owned(h, {n}) = Bit(OwnsName(h[n])) + Bit(OwnsValue(h[n]))
<1>1. Cardinality({x \in {n} : OwnsName(h[x])}) = Bit(OwnsName(h[n]))
  <2>1. CASE OwnsName(h[n])
    <3>1. {x \in {n} : OwnsName(h[x])} = {n} BY <2>1
    <3> QED BY <2>1, <3>1, FS_Singleton DEF Bit
  <2>2. CASE ~OwnsName(h[n])
    <3>1. {x \in {n} : OwnsName(h[x])} = {} BY <2>2
    <3> QED BY <2>2, <3>1, FS_EmptySet DEF Bit
  <2> QED BY <2>1, <2>2
<1>2. Cardinality({x \in {n} : OwnsValue(h[x])}) = Bit(OwnsValue(h[n]))
  <2>1. CASE OwnsValue(h[n])
    <3>1. {x \in {n} : OwnsValue(h[x])} = {n} BY <2>1
    <3> QED BY <2>1, <3>1, FS_Singleton DEF Bit
  <2>2. CASE ~OwnsValue(h[n])
    <3>1. {x \in {n} : OwnsValue(h[x])} = {} BY <2>2
    <3> QED BY <2>2, <3>1, FS_EmptySet DEF Bit
  <2> QED BY <2>1, <2>2
<1> QED BY <1>1, <1>2 DEF Owned

(* What is freed is no longer counted, what is new is, and what changes changes the count. *)
LEMMA OwnedLess ==
  ASSUME NEW h, NEW S \in SUBSET Nodes, NEW D \in SUBSET S, NEW g, \A x \in S \ D : g[x] = h[x]
  PROVE  Owned(g, S \ D) = Owned(h, S) - Owned(h, D) /\ Owned(h, S) - Owned(h, D) \in Nat
<1>1. Owned(g, S \ D) = Owned(h, S \ D) BY OwnedSame
<1> QED BY <1>1, OwnedSplit

LEMMA OwnedMore ==
  ASSUME NEW h, NEW S \in SUBSET Nodes, NEW n \in Nodes, n \notin S, NEW g, \A x \in S : g[x] = h[x]
  PROVE  /\ Owned(h, S) \in Nat
         /\ Owned(g, S \cup {n}) = Owned(h, S) + Bit(OwnsName(g[n])) + Bit(OwnsValue(g[n]))
<1> DEFINE U == S \cup {n}
           V == {n}
<1>1. U \in SUBSET Nodes /\ V \in SUBSET U /\ U \ V = S OBVIOUS
<1>2. Owned(g, S) = Owned(h, S) BY OwnedSame
<1>3. Owned(g, V) = Bit(OwnsName(g[n])) + Bit(OwnsValue(g[n])) BY OwnedOne
<1> HIDE DEF U, V
<1>4. Owned(g, U) = Owned(g, U \ V) + Owned(g, V) /\ Owned(g, U \ V) \in Nat BY <1>1, OwnedSplit
<1>5. Owned(g, U) = Owned(h, S) + Bit(OwnsName(g[n])) + Bit(OwnsValue(g[n])) /\ Owned(h, S) \in Nat
  BY <1>1, <1>2, <1>3, <1>4 DEF Bit
<1> QED BY <1>5 DEF U

LEMMA OwnedChanged ==
  ASSUME NEW h, NEW S \in SUBSET Nodes, NEW n \in S, NEW g, \A x \in S \ {n} : g[x] = h[x]
  PROVE  /\ Owned(h, S) \in Nat /\ Owned(g, S) \in Nat
         /\ Owned(g, S) = Owned(h, S) + Bit(OwnsName(g[n])) - Bit(OwnsName(h[n]))
                          + Bit(OwnsValue(g[n])) - Bit(OwnsValue(h[n]))
<1>1. {n} \in SUBSET S OBVIOUS
<1>2. Owned(g, S \ {n}) = Owned(h, S \ {n}) BY OwnedSame
<1>3. Owned(g, S) = Owned(g, S \ {n}) + Owned(g, {n}) /\ Owned(g, S) \in Nat BY <1>1, OwnedSplit
<1>4. /\ Owned(h, S) = Owned(h, S \ {n}) + Owned(h, {n}) /\ Owned(h, S) \in Nat
      /\ Owned(h, S \ {n}) \in Nat
  BY <1>1, OwnedSplit
<1> QED BY <1>2, <1>3, <1>4, OwnedOne DEF Bit

-----------------------------------------------------------------------------
(* One assignment to a link of an item. *)

NextSet(h, g, x, v) ==
  /\ Relinked(h, g)
  /\ \A y \in Alive(h) : /\ g[y].next = IF y = x THEN v ELSE h[y].next
                         /\ g[y].prev = h[y].prev /\ g[y].child = h[y].child
PrevSet(h, g, x, v) ==
  /\ Relinked(h, g)
  /\ \A y \in Alive(h) : /\ g[y].prev = IF y = x THEN v ELSE h[y].prev
                         /\ g[y].next = h[y].next /\ g[y].child = h[y].child
ChildSet(h, g, x, v) ==
  /\ Relinked(h, g)
  /\ \A y \in Alive(h) : /\ g[y].child = IF y = x THEN v ELSE h[y].child
                         /\ g[y].next = h[y].next /\ g[y].prev = h[y].prev

LEMMA RelinkedAgain ==
  ASSUME NEW h, NEW g, NEW k, Relinked(h, g), Relinked(g, k)
  PROVE  Relinked(h, k)
BY DEF Relinked, SameData

LEMMA LinkSet ==
  ASSUME NEW h, Typed(h), NEW x \in Alive(h), NEW v \in Nodes \cup {NULL}
  PROVE  /\ NextSet(h, [h EXCEPT ![x].next = v], x, v)
         /\ PrevSet(h, [h EXCEPT ![x].prev = v], x, v)
         /\ ChildSet(h, [h EXCEPT ![x].child = v], x, v)
<1>1. x \in Nodes /\ h[x] \in ItemRec /\ DOMAIN h = Nodes BY ItemFields DEF Typed
<1>2. ASSUME NEW g, NEW item \in ItemRec, g = [h EXCEPT ![x] = item],
             item.type = h[x].type, item.ref = h[x].ref, item.const = h[x].const,
             item.string = h[x].string, item.value = h[x].value
      PROVE  Relinked(h, g) /\ g[x] = item /\ \A y \in Alive(h) \ {x} : g[y] = h[y]
  <2>1. Typed(g) BY <1>1, <1>2 DEF Typed
  <2>2. g[x] = item /\ \A y \in Nodes \ {x} : g[y] = h[y] BY <1>1, <1>2
  <2>3. Alive(g) = Alive(h) BY <2>2, NotFreed DEF Alive
  <2>4. SameData(h, g)
    <3>1. ASSUME NEW y \in Alive(h), y # x PROVE g[y] = h[y] BY <2>2, <3>1 DEF Alive
    <3> QED BY <2>2, <3>1, <1>2 DEF SameData
  <2> QED BY <2>1, <2>2, <2>3, <2>4 DEF Relinked, Alive
<1>3. NextSet(h, [h EXCEPT ![x].next = v], x, v)
  <2> DEFINE item == [h[x] EXCEPT !.next = v]
             g == [h EXCEPT ![x] = item]
  <2>1. /\ item \in ItemRec /\ item.type = h[x].type /\ item.ref = h[x].ref /\ item.const = h[x].const
        /\ item.string = h[x].string /\ item.value = h[x].value
        /\ item.next = v /\ item.prev = h[x].prev /\ item.child = h[x].child
    BY <1>1 DEF ItemRec
  <2>2. [h EXCEPT ![x].next = v] = g BY <1>1
  <2> HIDE DEF item
  <2>3. Relinked(h, g) /\ g[x] = item /\ \A y \in Alive(h) \ {x} : g[y] = h[y] BY <1>2, <2>1
  <2> HIDE DEF g
  <2>4. NextSet(h, g, x, v) BY <2>1, <2>3 DEF NextSet
  <2> QED BY <2>2, <2>4
<1>4. PrevSet(h, [h EXCEPT ![x].prev = v], x, v)
  <2> DEFINE item == [h[x] EXCEPT !.prev = v]
             g == [h EXCEPT ![x] = item]
  <2>1. /\ item \in ItemRec /\ item.type = h[x].type /\ item.ref = h[x].ref /\ item.const = h[x].const
        /\ item.string = h[x].string /\ item.value = h[x].value
        /\ item.prev = v /\ item.next = h[x].next /\ item.child = h[x].child
    BY <1>1 DEF ItemRec
  <2>2. [h EXCEPT ![x].prev = v] = g BY <1>1
  <2> HIDE DEF item
  <2>3. Relinked(h, g) /\ g[x] = item /\ \A y \in Alive(h) \ {x} : g[y] = h[y] BY <1>2, <2>1
  <2> HIDE DEF g
  <2>4. PrevSet(h, g, x, v) BY <2>1, <2>3 DEF PrevSet
  <2> QED BY <2>2, <2>4
<1>5. ChildSet(h, [h EXCEPT ![x].child = v], x, v)
  <2> DEFINE item == [h[x] EXCEPT !.child = v]
             g == [h EXCEPT ![x] = item]
  <2>1. /\ item \in ItemRec /\ item.type = h[x].type /\ item.ref = h[x].ref /\ item.const = h[x].const
        /\ item.string = h[x].string /\ item.value = h[x].value
        /\ item.child = v /\ item.next = h[x].next /\ item.prev = h[x].prev
    BY <1>1 DEF ItemRec
  <2>2. [h EXCEPT ![x].child = v] = g BY <1>1
  <2> HIDE DEF item
  <2>3. Relinked(h, g) /\ g[x] = item /\ \A y \in Alive(h) \ {x} : g[y] = h[y] BY <1>2, <2>1
  <2> HIDE DEF g
  <2>4. ChildSet(h, g, x, v) BY <2>1, <2>3 DEF ChildSet
  <2> QED BY <2>2, <2>4
<1> QED BY <1>3, <1>4, <1>5

(* Two heaps whose items have the same fields are the same heap. *)
LEMMA SameHeap ==
  ASSUME NEW h, NEW g, NEW k, Relinked(h, g), Relinked(h, k),
         \A y \in Alive(h) : g[y].next = k[y].next /\ g[y].prev = k[y].prev /\ g[y].child = k[y].child
  PROVE  g = k
<1>1. ASSUME NEW y \in Nodes PROVE g[y] = k[y]
  <2>1. CASE y \in Alive(h)
    <3>1. g[y] \in ItemRec /\ k[y] \in ItemRec BY <2>1, ItemFields DEF Relinked
    <3>2. /\ g[y].type = k[y].type /\ g[y].ref = k[y].ref /\ g[y].const = k[y].const
          /\ g[y].string = k[y].string /\ g[y].value = k[y].value
          /\ g[y].next = k[y].next /\ g[y].prev = k[y].prev /\ g[y].child = k[y].child
      BY <2>1 DEF Relinked, SameData
    <3> QED BY <3>1, <3>2 DEF ItemRec
  <2>2. CASE y \notin Alive(h) BY <2>2 DEF Relinked, Alive
  <2> QED BY <2>1, <2>2
<1> QED BY <1>1 DEF Relinked, Typed

-----------------------------------------------------------------------------
(***************************************************************************)
(* What the calls of cJSON make of a heap in which every list is closed    *)
(* and nobody but the caller, hd, has items without an owner.              *)
(***************************************************************************)

(* Nobody owns what is held or built. *)
Placed(h, hd, roots) ==
  /\ hd \cup roots \subseteq Tops(h) /\ hd \cap roots = {}
  /\ \A n \in Tops(h) \ (hd \cup roots) : h[n].ref /\ h[n].string = NULL /\ h[n].next = NULL
  /\ \A n \in hd : h[n].next = NULL

Ready(h, hd) == Shape(h) /\ Rings(h, {}) /\ Placed(h, hd, {})

LEMMA TopAlone ==
  ASSUME NEW h, Shape(h), NEW n \in Tops(h), NEW p \in Alive(h), NEW c \in Alive(h), Owner(h, p, c)
  PROVE  n \notin Run(h, c)
<1>1. c \in Starts(h) /\ n \in Starts(h) /\ n \in Alive(h) BY DEF Shape, Firsts, Tops, Starts
<1>2. n \in Run(h, n) BY <1>1, RunFacts
<1>3. n # c BY DEF Tops
<1> QED BY <1>1, <1>2, <1>3, RunsMeet

LEMMA ReadyFields ==
  ASSUME NEW h, NEW hd, Ready(h, hd)
  PROVE  /\ Shape(h) /\ Typed(h) /\ hd \subseteq Tops(h) /\ hd \subseteq Alive(h)
         /\ \A n \in hd : h[n].next = NULL
         /\ \A q \in Alive(h) : ~h[q].ref => Ring(h, q)
BY DEF Ready, Placed, Shape, Tops, Starts, Rings

LEMMA SuffixFields ==
  ASSUME NEW h, Typed(h), NEW l \in Alive(h), NEW t \in Alive(h)
  PROVE  /\ Relinked(h, suffix_object(h, l, t))
         /\ \A x \in Alive(h) :
              /\ suffix_object(h, l, t)[x].next = IF x = l THEN t ELSE h[x].next
              /\ suffix_object(h, l, t)[x].prev = IF x = t THEN l ELSE h[x].prev
              /\ suffix_object(h, l, t)[x].child = h[x].child
<1> DEFINE h1 == [h EXCEPT ![l].next = t]
           h2 == [h1 EXCEPT ![t].prev = l]
<1>1. suffix_object(h, l, t) = h2 BY DEF suffix_object
<1>2. l \in Nodes /\ t \in Nodes BY DEF Alive
<1>3. NextSet(h, h1, l, t) BY <1>2, LinkSet
<1> HIDE DEF h1
<1>4. Typed(h1) /\ Alive(h1) = Alive(h) BY <1>3 DEF NextSet, Relinked
<1>5. PrevSet(h1, h2, t, l) BY <1>2, <1>4, LinkSet
<1> HIDE DEF h2
<1>6. Relinked(h, h2) BY <1>3, <1>5, RelinkedAgain DEF NextSet, PrevSet
<1>7. \A x \in Alive(h) : /\ h2[x].next = IF x = l THEN t ELSE h[x].next
                          /\ h2[x].prev = IF x = t THEN l ELSE h[x].prev
                          /\ h2[x].child = h[x].child
  BY <1>3, <1>4, <1>5 DEF NextSet, PrevSet
<1> QED BY <1>1, <1>6, <1>7

LEMMA AddReady ==
  ASSUME NEW h, NEW hd, Ready(h, hd), NEW p \in Alive(h), ~h[p].ref, NEW t \in hd
  PROVE  /\ Relinked(h, add_item_to_array(h, p, t))
         /\ Ready(add_item_to_array(h, p, t), hd \ {t})
<1> DEFINE c == h[p].child
<1>1. /\ Shape(h) /\ Typed(h) /\ t \in Tops(h) /\ t \in Alive(h) /\ t \in Nodes /\ t # NULL
      /\ h[t].next = NULL /\ t \in Starts(h) /\ NULL \notin Alive(h)
  BY ReadyFields, NullIsNoNode DEF Tops, Starts, Alive
<1>2. CASE c = NULL
  <2> DEFINE h1 == [h EXCEPT ![p].child = t]
             h2 == [h1 EXCEPT ![t].prev = t]
             h3 == [h2 EXCEPT ![t].next = NULL]
  <2>1. add_item_to_array(h, p, t) = h3 BY <1>2 DEF add_item_to_array
  <2>2. ChildSet(h, h1, p, t) BY <1>1, LinkSet
  <2> HIDE DEF h1
  <2>3. Typed(h1) /\ Alive(h1) = Alive(h) /\ Relinked(h, h1) BY <2>2 DEF ChildSet, Relinked
  <2>4. PrevSet(h1, h2, t, t) BY <1>1, <2>3, LinkSet
  <2> HIDE DEF h2
  <2>5. Typed(h2) /\ Alive(h2) = Alive(h) /\ Relinked(h1, h2) BY <2>3, <2>4 DEF PrevSet, Relinked
  <2>6. NextSet(h2, h3, t, NULL) BY <1>1, <2>5, LinkSet
  <2> HIDE DEF h3
  <2>7. h3 = h2
    <3>1. Relinked(h2, h3) /\ Relinked(h2, h2) BY <2>5, <2>6 DEF NextSet, Relinked, SameData
    <3>2. h2[t].next = NULL BY <1>1, <2>2, <2>3, <2>4 DEF ChildSet, PrevSet
    <3> QED BY <3>1, <3>2, <2>6, SameHeap DEF NextSet
  <2>8. /\ Shape(h1) /\ Starts(h1) = Starts(h) /\ Tops(h1) = Tops(h) \ {t}
        /\ \A q, d : d \in Nodes => (Owner(h1, q, d) <=> Owner(h, q, d) \/ (q = p /\ d = t))
        /\ \A d : Run(h1, d) = Run(h, d)
        /\ \A q \in Alive(h) \ {p} : ~h[q].ref /\ Ring(h, q) => Ring(h1, q)
    BY <1>1, <1>2, <2>2, <2>3, SetChildShape DEF ChildSet
  <2>9. Owner(h1, p, t) /\ IsLast(h1, t, t)
    <3>1. t \in Run(h, t) BY <1>1, RunFacts
    <3>2. h1[t].next = NULL BY <1>1, <2>2 DEF ChildSet
    <3> QED BY <3>1, <3>2, <1>1, <2>8 DEF IsLast
  <2>10. /\ Shape(h2) /\ Starts(h2) = Starts(h1) /\ Tops(h2) = Tops(h1) /\ Ring(h2, p)
         /\ \A q \in Alive(h1) : ~h1[q].ref /\ Ring(h1, q) => Ring(h2, q)
    BY <1>1, <2>3, <2>4, <2>5, <2>8, <2>9, CloseShape DEF PrevSet
  <2>11. Relinked(h, h2) BY <2>3, <2>5, RelinkedAgain
  <2>12. Rings(h2, {})
    <3>1. SUFFICES ASSUME NEW q \in Alive(h), ~h2[q].ref PROVE Ring(h2, q)
      BY <2>5 DEF Rings
    <3>2. ~h[q].ref /\ ~h1[q].ref BY <3>1, <2>3, <2>11 DEF Relinked, SameData
    <3> QED BY <3>2, <2>3, <2>8, <2>10, ReadyFields
  <2>13. Placed(h2, hd \ {t}, {})
    <3>1. \A x \in Alive(h) : h2[x].next = h[x].next /\ h2[x].ref = h[x].ref /\ h2[x].string = h[x].string
      BY <2>2, <2>3, <2>4, <2>11 DEF ChildSet, PrevSet, Relinked, SameData
    <3>2. Tops(h) \subseteq Alive(h) BY DEF Tops, Starts
    <3> QED BY <3>1, <3>2, <2>8, <2>10 DEF Ready, Placed
  <2> QED BY <2>1, <2>7, <2>10, <2>11, <2>12, <2>13 DEF Ready
<1>3. CASE c # NULL
  <2> DEFINE l == h[c].prev
             h1 == suffix_object(h, l, t)
             h2 == [h1 EXCEPT ![c].prev = t]
  <2>1. c \in Alive(h) /\ Owner(h, p, c) BY <1>1, <1>3, AliveFacts DEF Owner
  <2>2. IsLast(h, c, l) BY <1>3, ReadyFields DEF Ring
  <2>3. l \in Alive(h) /\ l # NULL /\ h[l].next = NULL /\ l \in Run(h, c)
    BY <1>1, <2>1, <2>2, RunFacts DEF IsLast
  <2>4. add_item_to_array(h, p, t) = h2 BY <1>3, <2>3 DEF add_item_to_array
  <2> HIDE DEF c, l
  <2>5. /\ Relinked(h, h1)
        /\ \A x \in Alive(h) : /\ h1[x].next = IF x = l THEN t ELSE h[x].next
                               /\ h1[x].prev = IF x = t THEN l ELSE h[x].prev
                               /\ h1[x].child = h[x].child
    BY <1>1, <2>3, SuffixFields
  <2> HIDE DEF h1
  <2>6. Typed(h1) /\ Alive(h1) = Alive(h) BY <2>5 DEF Relinked
  <2>7. PrevSet(h1, h2, c, t) BY <1>1, <2>1, <2>6, LinkSet
  <2> HIDE DEF h2
  <2>8. \A n \in Tops(h) : n \notin Run(h, c) BY <1>1, <2>1, TopAlone
  <2>9. t # l /\ l \notin Tops(h) BY <1>1, <2>3, <2>8
  <2>10. /\ Shape(h1) /\ Starts(h1) = Starts(h) \ {t} /\ Tops(h1) = Tops(h) \ {t} /\ SameOwners(h, h1)
         /\ \A d \in Alive(h) : /\ Run(h, d) \subseteq Run(h1, d)
                                /\ l \in Run(h, d) => t \in Run(h1, d)
         /\ \A q \in Alive(h) : /\ ~h[q].ref /\ Ring(h, q)
                                /\ h[q].child # NULL => h[h[q].child].prev # l
                                => Ring(h1, q)
    BY <1>1, <2>3, <2>5, <2>9, AppendShape
  <2>11. Owner(h1, p, c) /\ IsLast(h1, c, t)
    BY <1>1, <2>1, <2>3, <2>5, <2>9, <2>10 DEF SameOwners, IsLast
  <2>12. /\ Shape(h2) /\ Tops(h2) = Tops(h1) /\ Ring(h2, p)
         /\ \A q \in Alive(h1) : ~h1[q].ref /\ Ring(h1, q) => Ring(h2, q)
    BY <2>1, <2>6, <2>7, <2>10, <2>11, CloseShape DEF PrevSet
  <2>13. Relinked(h, h2) BY <2>5, <2>7, RelinkedAgain DEF PrevSet
  <2>14. Rings(h2, {})
    <3>1. SUFFICES ASSUME NEW q \in Alive(h), ~h2[q].ref, q # p PROVE Ring(h2, q)
      BY <2>12, <2>13 DEF Rings, Relinked
    <3>2. ~h[q].ref /\ ~h1[q].ref BY <3>1, <2>5, <2>13 DEF Relinked, SameData
    <3>3. Ring(h, q) BY <3>2, ReadyFields
    <3>4. h[q].child # NULL => h[h[q].child].prev # l
      <4>1. SUFFICES ASSUME h[q].child # NULL, h[h[q].child].prev = l PROVE FALSE OBVIOUS
      <4>2. h[q].child \in Alive(h) /\ Owner(h, q, h[q].child) BY <3>2, <4>1, <1>1, AliveFacts DEF Owner
      <4>3. h[q].child \in Starts(h) /\ c \in Starts(h) BY <4>2, <2>1, <1>1 DEF Shape, Firsts
      <4>4. l \in Run(h, h[q].child) BY <3>3, <4>1 DEF Ring, IsLast
      <4>5. h[q].child = c BY <4>3, <4>4, <2>3, <1>1, RunsMeet
      <4> QED BY <4>2, <4>5, <3>1, <2>1, <1>1 DEF Shape, OneOwner
    <3> QED BY <3>2, <3>3, <3>4, <2>6, <2>10, <2>12
  <2>15. Placed(h2, hd \ {t}, {})
    <3>1. \A x \in Tops(h) : h2[x].next = h[x].next /\ h2[x].ref = h[x].ref /\ h2[x].string = h[x].string
      <4>1. Tops(h) \subseteq Alive(h) BY DEF Tops, Starts
      <4> QED BY <4>1, <2>5, <2>6, <2>7, <2>9, <2>13 DEF PrevSet, Relinked, SameData
    <3> QED BY <3>1, <2>10, <2>12 DEF Ready, Placed
  <2> QED BY <2>4, <2>12, <2>13, <2>14, <2>15 DEF Ready
<1> QED BY <1>2, <1>3

LEMMA PrevSetIf ==
  ASSUME NEW h, Typed(h), NEW x \in Alive(h) \cup {NULL}, NEW v \in Nodes \cup {NULL}
  PROVE  PrevSet(h, IF x = NULL THEN h ELSE [h EXCEPT ![x].prev = v], x, v)
<1>1. CASE x = NULL
  <2>1. \A y \in Alive(h) : y # NULL BY NullIsNoNode DEF Alive
  <2> QED BY <1>1, <2>1 DEF PrevSet, Relinked, SameData
<1>2. CASE x # NULL BY <1>2, LinkSet
<1> QED BY <1>1, <1>2

LEMMA DetachFirstFields ==
  ASSUME NEW h, Shape(h), NEW p \in Alive(h), NEW c \in Alive(h), h[p].child = c,
         NEW g, g = DetachItemViaPointer(h, p, c)
  PROVE  /\ Relinked(h, g)
         /\ \A x \in Alive(h) :
              /\ g[x].next = IF x = c THEN NULL ELSE h[x].next
              /\ g[x].prev = IF x = c THEN NULL ELSE IF x = h[c].next THEN h[c].prev ELSE h[x].prev
              /\ g[x].child = IF x = p THEN h[c].next ELSE h[x].child
<1> DEFINE b == h[c].next
           l == h[c].prev
           h2 == IF b = NULL THEN h ELSE [h EXCEPT ![b].prev = l]
           h3 == [h2 EXCEPT ![p].child = b]
           h4 == [h3 EXCEPT ![c].prev = NULL]
           h5 == [h4 EXCEPT ![c].next = NULL]
<1>1. g = h5 BY DEF DetachItemViaPointer
<1>2. /\ Typed(h) /\ b \in Alive(h) \cup {NULL} /\ b \in Nodes \cup {NULL} /\ l \in Nodes \cup {NULL}
      /\ p \in Nodes /\ c \in Nodes
  BY AliveFacts DEF Shape, Alive
<1> HIDE DEF b, l
<1>3. PrevSet(h, h2, b, l) BY <1>2, PrevSetIf
<1> HIDE DEF h2
<1>4. Typed(h2) /\ Alive(h2) = Alive(h) BY <1>3 DEF PrevSet, Relinked
<1>5. ChildSet(h2, h3, p, b) BY <1>2, <1>4, LinkSet
<1> HIDE DEF h3
<1>6. Typed(h3) /\ Alive(h3) = Alive(h) BY <1>4, <1>5 DEF ChildSet, Relinked
<1>7. PrevSet(h3, h4, c, NULL) BY <1>2, <1>6, LinkSet
<1> HIDE DEF h4
<1>8. Typed(h4) /\ Alive(h4) = Alive(h) BY <1>6, <1>7 DEF PrevSet, Relinked
<1>9. NextSet(h4, h5, c, NULL) BY <1>2, <1>8, LinkSet
<1> HIDE DEF h5
<1>10. Relinked(h, h5) BY <1>3, <1>5, <1>7, <1>9, RelinkedAgain DEF NextSet, PrevSet, ChildSet
<1>11. \A x \in Alive(h) :
         /\ h5[x].next = IF x = c THEN NULL ELSE h[x].next
         /\ h5[x].prev = IF x = c THEN NULL ELSE IF x = b THEN l ELSE h[x].prev
         /\ h5[x].child = IF x = p THEN b ELSE h[x].child
  BY <1>3, <1>4, <1>5, <1>6, <1>7, <1>8, <1>9 DEF NextSet, PrevSet, ChildSet
<1> QED BY <1>1, <1>10, <1>11 DEF b, l

LEMMA DetachFields ==
  ASSUME NEW h, Shape(h), NEW p \in Alive(h), NEW f \in Alive(h), NEW c \in Alive(h), NEW y \in Alive(h),
         h[p].child = f, c # f, h[c].prev = y, y # c, c # h[c].next,
         NEW g, g = DetachItemViaPointer(h, p, c)
  PROVE  /\ Relinked(h, g)
         /\ \A x \in Alive(h) :
              /\ g[x].next = IF x = c THEN NULL ELSE IF x = y THEN h[c].next ELSE h[x].next
              /\ g[x].prev = IF x = c THEN NULL
                             ELSE IF x = h[c].next \/ (h[c].next = NULL /\ x = f) THEN y ELSE h[x].prev
              /\ g[x].child = h[x].child
<1> DEFINE b == h[c].next
           last == IF b = NULL THEN f ELSE NULL
           h1 == [h EXCEPT ![y].next = b]
           h2 == IF b = NULL THEN h1 ELSE [h1 EXCEPT ![b].prev = y]
           h3 == IF last = NULL THEN h2 ELSE [h2 EXCEPT ![last].prev = y]
           h4 == [h3 EXCEPT ![c].prev = NULL]
           h5 == [h4 EXCEPT ![c].next = NULL]
<1>1. /\ Typed(h) /\ b \in Alive(h) \cup {NULL} /\ b \in Nodes \cup {NULL} /\ y \in Nodes
      /\ p \in Nodes /\ c \in Nodes /\ f \in Nodes /\ f # NULL /\ last \in Alive(h) \cup {NULL}
      /\ NULL \notin Alive(h)
  BY AliveFacts, NullIsNoNode DEF Shape, Alive
<1>2. NextSet(h, h1, y, b) BY <1>1, LinkSet
<1>3. Typed(h1) /\ Alive(h1) = Alive(h) BY <1>2 DEF NextSet, Relinked
<1>4. h1[c].prev = y BY <1>2 DEF NextSet
<1>5. PrevSet(h1, h2, b, y)
  <2> HIDE DEF h1, b
  <2> QED BY <1>1, <1>3, PrevSetIf
<1>6. Typed(h2) /\ Alive(h2) = Alive(h) BY <1>3, <1>5 DEF PrevSet, Relinked
<1>7. b = NULL => h2[c].prev = y /\ h2[p].child = f BY <1>2, <1>3, <1>4, <1>5 DEF PrevSet, NextSet
<1>8. g = h5
  <2>1. (b = NULL => last = f) /\ (b # NULL => last = NULL) BY <1>1
  <2>2. CASE b = NULL
    <3>1. g = [[[h2 EXCEPT ![h2[p].child].prev = h2[c].prev] EXCEPT ![c].prev = NULL] EXCEPT ![c].next = NULL]
      BY <2>2 DEF DetachItemViaPointer
    <3> HIDE DEF h2
    <3>2. h3 = [h2 EXCEPT ![f].prev = y] BY <2>1, <2>2, <1>1
    <3>3. h3 = [h2 EXCEPT ![h2[p].child].prev = h2[c].prev] BY <3>2, <2>2, <1>7
    <3> HIDE DEF h3
    <3> QED BY <3>1, <3>3
  <2>3. CASE b # NULL
    <3>1. g = [[[h1 EXCEPT ![b].prev = h1[c].prev] EXCEPT ![c].prev = NULL] EXCEPT ![c].next = NULL]
      BY <2>3 DEF DetachItemViaPointer
    <3> HIDE DEF h1
    <3>2. h3 = [h1 EXCEPT ![b].prev = h1[c].prev] BY <2>1, <2>3, <1>4
    <3> HIDE DEF h3
    <3> QED BY <3>1, <3>2
  <2> QED BY <2>2, <2>3
<1>9. \A x \in Alive(h) : (x = last) <=> (b = NULL /\ x = f) BY <1>1
<1> HIDE DEF b, h1, h2, last
<1>10. PrevSet(h2, h3, last, y) BY <1>1, <1>6, PrevSetIf
<1> HIDE DEF h3
<1>11. Typed(h3) /\ Alive(h3) = Alive(h) BY <1>6, <1>10 DEF PrevSet, Relinked
<1>12. PrevSet(h3, h4, c, NULL) BY <1>1, <1>11, LinkSet
<1> HIDE DEF h4
<1>13. Typed(h4) /\ Alive(h4) = Alive(h) BY <1>11, <1>12 DEF PrevSet, Relinked
<1>14. NextSet(h4, h5, c, NULL) BY <1>1, <1>13, LinkSet
<1> HIDE DEF h5
<1>15. Relinked(h, h5) BY <1>2, <1>5, <1>10, <1>12, <1>14, RelinkedAgain DEF NextSet, PrevSet
<1>16. \A x \in Alive(h) :
         /\ h5[x].next = IF x = c THEN NULL ELSE IF x = y THEN b ELSE h[x].next
         /\ h5[x].prev = IF x = c THEN NULL ELSE IF x = b \/ (b = NULL /\ x = f) THEN y ELSE h[x].prev
         /\ h5[x].child = h[x].child
  BY <1>2, <1>3, <1>5, <1>6, <1>9, <1>10, <1>11, <1>12, <1>13, <1>14 DEF NextSet, PrevSet
<1> QED BY <1>8, <1>15, <1>16 DEF b

LEMMA DetachReady ==
  ASSUME NEW h, NEW hd, Ready(h, hd), NEW p \in Alive(h), ~h[p].ref, h[p].child # NULL,
         \A r \in Alive(h) : h[r].ref => h[r].child # h[p].child, NEW c \in Run(h, h[p].child)
  PROVE  /\ Relinked(h, DetachItemViaPointer(h, p, c))
         /\ Ready(DetachItemViaPointer(h, p, c), hd \cup {c})
<1> DEFINE f == h[p].child
           g == DetachItemViaPointer(h, p, c)
<1>1. Shape(h) /\ f \in Alive(h) /\ Owner(h, p, f) /\ Ring(h, p) /\ f \in Starts(h)
  BY ReadyFields, AliveFacts DEF Owner, Shape, Firsts
<1>2. c \in Alive(h) BY <1>1, RunFacts
<1>3. \A n \in Tops(h) : n \notin Run(h, f) BY <1>1, TopAlone
<1>4. c \notin Tops(h) /\ Tops(h) \subseteq Alive(h) BY <1>3 DEF Tops, Starts
<1> HIDE DEF f, g
<1> USE DEF f
<1>5. SUFFICES /\ Relinked(h, g) /\ Shape(g) /\ Tops(g) = Tops(h) \cup {c}
               /\ \A q \in Alive(h) : ~h[q].ref /\ Ring(h, q) => Ring(g, q)
               /\ g[c].next = NULL /\ \A n \in Tops(h) : g[n].next = h[n].next
  <2>1. Rings(g, {}) BY <1>5, ReadyFields DEF Rings, Relinked, SameData
  <2>2. Placed(g, hd \cup {c}, {}) BY <1>4, <1>5 DEF Ready, Placed, Relinked, SameData
  <2> QED BY <1>5, <2>1, <2>2 DEF Ready, g
<1>6. CASE c = f
  <2>1. /\ Relinked(h, g)
        /\ \A x \in Alive(h) :
             /\ g[x].next = IF x = c THEN NULL ELSE h[x].next
             /\ g[x].prev = IF x = c THEN NULL ELSE IF x = h[c].next THEN h[c].prev ELSE h[x].prev
             /\ g[x].child = IF x = p THEN h[c].next ELSE h[x].child
    BY <1>1, <1>6, DetachFirstFields DEF g
  <2>2. /\ Shape(g) /\ Tops(g) = Tops(h) \cup {c}
        /\ \A q \in Alive(h) : ~h[q].ref /\ Ring(h, q) => Ring(g, q)
    BY <1>1, <1>6, <2>1, DetachFirstShape
  <2> QED BY <1>2, <1>4, <2>1, <2>2
<1>7. CASE c # f
  <2>1. PICK y \in Run(h, f) : h[y].next = c BY <1>1, <1>7, RunBefore
  <2>2. y \in Alive(h) /\ y \notin Tops(h) BY <1>1, <1>3, RunFacts
  <2>3. h[c].prev = y BY <2>1, <2>2, <1>1, <1>2 DEF Shape, Backs
  <2>4. y # c BY <2>1, <2>2, <1>1, NoLoop
  <2>5. c # h[c].next BY <1>1, <1>2, NoLoop
  <2>6. /\ Relinked(h, g)
        /\ \A x \in Alive(h) :
             /\ g[x].next = IF x = c THEN NULL ELSE IF x = y THEN h[c].next ELSE h[x].next
             /\ g[x].prev = IF x = c THEN NULL
                            ELSE IF x = h[c].next \/ (h[c].next = NULL /\ x = f) THEN y ELSE h[x].prev
             /\ g[x].child = h[x].child
    BY <1>1, <1>2, <1>7, <2>2, <2>3, <2>4, <2>5, DetachFields DEF g
  <2>7. /\ Shape(g) /\ Tops(g) = Tops(h) \cup {c}
        /\ \A q \in Alive(h) : ~h[q].ref /\ Ring(h, q) => Ring(g, q)
    BY <1>1, <1>2, <2>1, <2>2, <2>6, DetachShape
  <2> QED BY <1>2, <1>4, <2>2, <2>6, <2>7
<1> QED BY <1>6, <1>7

(* What InsertItemInArray does when there is an item c to go in front of. *)
InsertBefore(h, p, c, t) ==
  LET h1 == [h EXCEPT ![t].next = c, ![t].prev = h[c].prev, ![c].prev = t]
  IN IF c = h[p].child THEN [h1 EXCEPT ![p].child = t] ELSE [h1 EXCEPT ![h1[t].prev].next = t]

LEMMA InsertFields ==
  ASSUME NEW h, Shape(h), NEW p \in Alive(h), NEW c \in Alive(h), NEW t \in Alive(h), t # c,
         NEW y, y = h[c].prev, c # h[p].child => y \in Alive(h), NEW k, k = InsertBefore(h, p, c, t)
  PROVE  /\ Relinked(h, k)
         /\ \A x \in Alive(h) :
              /\ k[x].next = IF c # h[p].child /\ x = y THEN t ELSE IF x = t THEN c ELSE h[x].next
              /\ k[x].prev = IF x = t THEN y ELSE IF x = c THEN t ELSE h[x].prev
              /\ k[x].child = IF c = h[p].child /\ x = p THEN t ELSE h[x].child
<1> DEFINE h1 == [h EXCEPT ![t].next = c]
           h2 == [h1 EXCEPT ![t].prev = y]
           h3 == [h2 EXCEPT ![c].prev = t]
<1>1. /\ Typed(h) /\ y \in Nodes \cup {NULL} /\ c \in Nodes /\ t \in Nodes /\ p \in Nodes
  BY AliveFacts DEF Shape, Alive
<1>2. NextSet(h, h1, t, c) BY <1>1, LinkSet
<1>3. k = IF c = h[p].child THEN [h3 EXCEPT ![p].child = t] ELSE [h3 EXCEPT ![h3[t].prev].next = t]
  BY DEF InsertBefore
<1> HIDE DEF h1
<1>4. Typed(h1) /\ Alive(h1) = Alive(h) BY <1>2 DEF NextSet, Relinked
<1>5. PrevSet(h1, h2, t, y) BY <1>1, <1>4, LinkSet
<1> HIDE DEF h2
<1>6. Typed(h2) /\ Alive(h2) = Alive(h) BY <1>4, <1>5 DEF PrevSet, Relinked
<1>7. PrevSet(h2, h3, c, t) BY <1>1, <1>6, LinkSet
<1> HIDE DEF h3
<1>8. Typed(h3) /\ Alive(h3) = Alive(h) BY <1>6, <1>7 DEF PrevSet, Relinked
<1>9. Relinked(h, h3) BY <1>2, <1>5, <1>7, RelinkedAgain DEF NextSet, PrevSet
<1>10. \A x \in Alive(h) : /\ h3[x].next = IF x = t THEN c ELSE h[x].next
                           /\ h3[x].prev = IF x = t THEN y ELSE IF x = c THEN t ELSE h[x].prev
                           /\ h3[x].child = h[x].child
  BY <1>2, <1>4, <1>5, <1>6, <1>7 DEF NextSet, PrevSet
<1>11. CASE c = h[p].child
  <2>1. ChildSet(h3, [h3 EXCEPT ![p].child = t], p, t) BY <1>1, <1>8, LinkSet
  <2>2. ChildSet(h3, k, p, t) BY <2>1, <1>3, <1>11
  <2>3. Relinked(h, k) BY <2>2, <1>9, RelinkedAgain DEF ChildSet
  <2> QED BY <2>2, <2>3, <1>8, <1>10, <1>11 DEF ChildSet
<1>12. CASE c # h[p].child
  <2>1. h3[t].prev = y BY <1>10
  <2>2. NextSet(h3, [h3 EXCEPT ![y].next = t], y, t) BY <1>1, <1>8, <1>12, LinkSet
  <2>3. NextSet(h3, k, y, t) BY <2>1, <2>2, <1>3, <1>12
  <2>4. Relinked(h, k) BY <2>3, <1>9, RelinkedAgain DEF NextSet
  <2> QED BY <2>3, <2>4, <1>8, <1>10, <1>12 DEF NextSet
<1> QED BY <1>11, <1>12

LEMMA InsertBeforeReady ==
  ASSUME NEW h, NEW hd, Ready(h, hd), NEW p \in Alive(h), ~h[p].ref, h[p].child # NULL,
         \A r \in Alive(h) : h[r].ref => h[r].child # h[p].child, NEW c \in Run(h, h[p].child),
         NEW t \in hd, NEW k, k = InsertBefore(h, p, c, t)
  PROVE  /\ Relinked(h, k) /\ Ready(k, hd \ {t})
         /\ t # c /\ t # h[p].child /\ (c # h[p].child => h[c].prev \in Alive(h) \ {t})
         /\ \A x \in Alive(h) :
              /\ k[x].next = IF c # h[p].child /\ x = h[c].prev THEN t ELSE IF x = t THEN c ELSE h[x].next
              /\ k[x].prev = IF x = t THEN h[c].prev ELSE IF x = c THEN t ELSE h[x].prev
              /\ k[x].child = IF c = h[p].child /\ x = p THEN t ELSE h[x].child
         /\ c \in Run(k, k[p].child) /\ k[p].child \in Alive(h)
         /\ \A r \in Alive(k) : k[r].ref => k[r].child # k[p].child
<1> DEFINE f == h[p].child
           y == h[c].prev
<1>1. Shape(h) /\ f \in Alive(h) /\ Owner(h, p, f) /\ Ring(h, p) /\ f \in Starts(h)
  BY ReadyFields, AliveFacts DEF Owner, Shape, Firsts
<1>2. c \in Alive(h) BY <1>1, RunFacts
<1>3. \A n \in Tops(h) : n \notin Run(h, f) BY <1>1, TopAlone
<1>4. t \in Tops(h) /\ t \in Alive(h) /\ h[t].next = NULL /\ t # c BY <1>3, ReadyFields
<1>5. t # f BY <1>1, <1>3, <1>4, RunFacts
<1>6. c # f => y \in Run(h, f) /\ y \in Alive(h) /\ h[y].next = c /\ y \notin Tops(h)
  <2>1. SUFFICES ASSUME c # f PROVE y \in Run(h, f) /\ y \in Alive(h) /\ h[y].next = c /\ y \notin Tops(h)
    OBVIOUS
  <2>2. PICK x \in Run(h, f) : h[x].next = c BY <2>1, <1>1, RunBefore
  <2>3. x \in Alive(h) /\ y = x BY <2>2, <1>1, <1>2, RunFacts DEF Shape, Backs
  <2> QED BY <2>2, <2>3, <1>3
<1>7. /\ Relinked(h, k)
      /\ \A x \in Alive(h) :
           /\ k[x].next = IF c # h[p].child /\ x = y THEN t ELSE IF x = t THEN c ELSE h[x].next
           /\ k[x].prev = IF x = t THEN y ELSE IF x = c THEN t ELSE h[x].prev
           /\ k[x].child = IF c = h[p].child /\ x = p THEN t ELSE h[x].child
  BY <1>1, <1>2, <1>4, <1>6, InsertFields
<1>8. \A r \in Alive(h) : h[r].ref => h[r].child # t
  <2>1. t # NULL BY <1>1, <1>4, AliveFacts
  <2> QED BY <2>1, <1>1, <1>4 DEF Shape, Sharing, Tops
<1> HIDE DEF f, y
<1>9. /\ Shape(k) /\ Tops(k) = Tops(h) \ {t}
      /\ \A q \in Alive(h) : ~h[q].ref /\ Ring(h, q) => Ring(k, q)
      /\ c \in Run(k, k[p].child) /\ k[p].child \in Alive(h)
      /\ \A r \in Alive(h) : h[r].ref => k[r].child # k[p].child
      /\ \A n \in Tops(h) \ {t} : k[n].next = h[n].next
  <2>1. CASE c = f
    <3>1. \A x \in Alive(h) :
            /\ k[x].next = IF x = t THEN c ELSE h[x].next
            /\ k[x].prev = IF x = t THEN h[c].prev ELSE IF x = c THEN t ELSE h[x].prev
            /\ k[x].child = IF x = p THEN t ELSE h[x].child
      BY <2>1, <1>7 DEF f, y
    <3>2. /\ Shape(k) /\ Tops(k) = Tops(h) \ {t}
          /\ \A q \in Alive(h) : ~h[q].ref /\ Ring(h, q) => Ring(k, q)
      <4>1. Relinked(h, k) /\ Shape(h) /\ Owner(h, p, c) /\ Ring(h, p) BY <2>1, <1>1, <1>7
      <4>2. \A r \in Alive(h) : h[r].ref => h[r].child # c BY <2>1 DEF f
      <4>3. InsertedFirst(h, k, p, c, t) BY <3>1 DEF InsertedFirst
      <4> QED BY <4>1, <4>2, <4>3, <1>2, <1>4, InsertFirstShape
    <3>3. t \in Run(k, t) /\ NextClosed(k, Run(k, t)) BY <3>2, <1>4, <1>7, RunFacts DEF Relinked
    <3>4. c \in Run(k, t)
      <4>1. k[t].next = c /\ t \in Alive(k) /\ c # NULL BY <3>1, <1>1, <1>2, <1>4, <1>7, AliveFacts DEF Relinked
      <4> QED BY <4>1, <3>3 DEF NextClosed, Alive
    <3>5. Tops(h) \subseteq Alive(h) BY DEF Tops, Starts
    <3> QED BY <3>1, <3>2, <3>4, <3>5, <1>4, <1>8
  <2>2. CASE c # f
    <3>1. \A x \in Alive(h) :
            /\ k[x].next = IF x = y THEN t ELSE IF x = t THEN c ELSE h[x].next
            /\ k[x].prev = IF x = t THEN y ELSE IF x = c THEN t ELSE h[x].prev
            /\ k[x].child = h[x].child
      BY <2>2, <1>7 DEF f
    <3>2. /\ Shape(k) /\ Tops(k) = Tops(h) \ {t}
          /\ \A d \in Alive(h) : Run(h, d) \subseteq Run(k, d)
          /\ \A q \in Alive(h) : ~h[q].ref /\ Ring(h, q) => Ring(k, q)
      <4>1. Relinked(h, k) BY <1>7
      <4>2. Inserted(h, k, y, c, t) BY <3>1 DEF Inserted
      <4> QED BY <2>2, <4>1, <4>2, <1>1, <1>2, <1>4, <1>6, InsertShape
    <3>3. k[p].child = f /\ c \in Run(k, f) BY <3>1, <3>2, <1>1 DEF f
    <3>4. Tops(h) \subseteq Alive(h) BY DEF Tops, Starts
    <3> QED BY <2>2, <3>1, <3>2, <3>3, <3>4, <1>1, <1>6 DEF f
  <2> QED BY <2>1, <2>2
<1>10. Rings(k, {}) BY <1>7, <1>9, ReadyFields DEF Rings, Relinked, SameData
<1>11. Placed(k, hd \ {t}, {})
  <2>1. Tops(h) \subseteq Alive(h) BY DEF Tops, Starts
  <2> QED BY <2>1, <1>7, <1>9 DEF Ready, Placed, Relinked, SameData
<1>12. Ready(k, hd \ {t}) BY <1>9, <1>10, <1>11 DEF Ready
<1>13. \A r \in Alive(k) : k[r].ref => k[r].child # k[p].child BY <1>7, <1>9 DEF Relinked, SameData
<1>14. c # f => y \in Alive(h) \ {t} BY <1>4, <1>6
<1> QED BY <1>4, <1>5, <1>7, <1>9, <1>12, <1>13, <1>14 DEF f, y

(* ReplaceItem after its first assignments. *)
ReplaceFrom(h1, parent, item, replacement, next) ==
  LET h2 == IF next = NULL THEN h1 ELSE [h1 EXCEPT ![next].prev = replacement]
      first == h2[h2[parent].child]
      alone == first.prev = h2[parent].child
      h3 == CASE h2[parent].child = item /\ alone ->
                   [h2 EXCEPT ![replacement].prev = replacement, ![parent].child = replacement]
              [] h2[parent].child = item /\ ~alone -> [h2 EXCEPT ![parent].child = replacement]
              [] OTHER ->
                   LET h21 == IF h2[replacement].prev = NULL THEN h2
                              ELSE [h2 EXCEPT ![h2[replacement].prev].next = replacement]
                   IN IF next = NULL THEN [h21 EXCEPT ![h21[parent].child].prev = replacement] ELSE h21
  IN [h3 EXCEPT ![item].next = NULL, ![item].prev = NULL]

LEMMA ReplaceFields ==
  ASSUME NEW h, Shape(h), NEW p \in Alive(h), NEW c \in Alive(h), NEW t \in Alive(h), t # c,
         NEW f \in Alive(h), h[p].child = f, NEW y, y = h[c].prev, NEW b, b = h[c].next, b # c, b # t,
         c # f => y \in Alive(h), NEW r, r = ReplaceItem(h, p, c, t)
  PROVE  /\ Relinked(h, r)
         /\ \A x \in Alive(h) :
              /\ r[x].next = IF x = c THEN NULL ELSE IF c # f /\ x = y THEN t
                             ELSE IF x = t THEN b ELSE h[x].next
              /\ r[x].prev = IF x = c THEN NULL ELSE IF c = f /\ y = c /\ x = t THEN t
                             ELSE IF c # f /\ b = NULL /\ x = f THEN t
                             ELSE IF x = b THEN t ELSE IF x = t THEN y ELSE h[x].prev
              /\ r[x].child = IF c = f /\ x = p THEN t ELSE h[x].child
<1> DEFINE h0 == [h EXCEPT ![t].next = b]
           h1 == [h0 EXCEPT ![t].prev = y]
           h2 == IF b = NULL THEN h1 ELSE [h1 EXCEPT ![b].prev = t]
           alone == IF y = c THEN t ELSE NULL
           last == IF b = NULL THEN f ELSE NULL
           first3 == IF alone = NULL THEN h2 ELSE [h2 EXCEPT ![alone].prev = t]
           first4 == [first3 EXCEPT ![p].child = t]
           mid3 == [h2 EXCEPT ![y].next = t]
           mid4 == IF last = NULL THEN mid3 ELSE [mid3 EXCEPT ![last].prev = t]
           End(h3) == [[h3 EXCEPT ![c].next = NULL] EXCEPT ![c].prev = NULL]
<1>1. /\ Typed(h) /\ y \in Nodes \cup {NULL} /\ b \in Nodes \cup {NULL} /\ b \in Alive(h) \cup {NULL}
      /\ c \in Nodes /\ t \in Nodes /\ p \in Nodes /\ f \in Nodes /\ f # NULL /\ t # NULL /\ c # NULL
      /\ NULL \notin Alive(h) /\ alone \in Alive(h) \cup {NULL} /\ last \in Alive(h) \cup {NULL}
  BY AliveFacts, NullIsNoNode DEF Shape, Alive
<1>2. \A x \in Alive(h) : (x = alone <=> x = t /\ y = c) /\ (x = last <=> x = f /\ b = NULL)
  BY <1>1
<1>3. NextSet(h, h0, t, b) BY <1>1, LinkSet
<1> HIDE DEF h0
<1>4. Typed(h0) /\ Alive(h0) = Alive(h) BY <1>3 DEF NextSet, Relinked
<1>5. PrevSet(h0, h1, t, y) BY <1>1, <1>4, LinkSet
<1> HIDE DEF h1
<1>6. Typed(h1) /\ Alive(h1) = Alive(h) BY <1>4, <1>5 DEF PrevSet, Relinked
<1>7. PrevSet(h1, h2, b, t) BY <1>1, <1>6, PrevSetIf
<1>8. Typed(h2) /\ Alive(h2) = Alive(h) BY <1>6, <1>7 DEF PrevSet, Relinked
<1>9. Relinked(h, h2) BY <1>3, <1>5, <1>7, RelinkedAgain DEF NextSet, PrevSet
<1>10. \A x \in Alive(h) : /\ h2[x].next = IF x = t THEN b ELSE h[x].next
                           /\ h2[x].prev = IF x = b THEN t ELSE IF x = t THEN y ELSE h[x].prev
                           /\ h2[x].child = h[x].child
  BY <1>3, <1>4, <1>5, <1>6, <1>7 DEF NextSet, PrevSet
<1>11. h2[p].child = f /\ h2[c].prev = y /\ h2[t].prev = y BY <1>10
<1>12. /\ c = f /\ y = c => r = End([[h2 EXCEPT ![t].prev = t] EXCEPT ![p].child = t])
       /\ c = f /\ y # c => r = End([h2 EXCEPT ![p].child = t])
       /\ c # f /\ b # NULL => r = End([h2 EXCEPT ![y].next = t])
       /\ c # f /\ b = NULL => r = End([[h2 EXCEPT ![y].next = t] EXCEPT ![[h2 EXCEPT ![y].next = t][p].child].prev = t])
  <2>1. r = ReplaceFrom(h1, p, c, t, b)
    <3>1. r = ReplaceFrom([h EXCEPT ![t].next = h[c].next, ![t].prev = h[c].prev], p, c, t, h[c].next)
      BY DEF ReplaceItem, ReplaceFrom
    <3>2. [h EXCEPT ![t].next = h[c].next, ![t].prev = h[c].prev] = h1 BY DEF h0, h1
    <3> QED BY <3>1, <3>2
  <2>2. c # f => y # NULL BY <1>1
  <2> DEFINE h3 == CASE h2[p].child = c /\ h2[h2[p].child].prev = h2[p].child ->
                          [h2 EXCEPT ![t].prev = t, ![p].child = t]
                     [] h2[p].child = c /\ ~(h2[h2[p].child].prev = h2[p].child) -> [h2 EXCEPT ![p].child = t]
                     [] OTHER ->
                          LET h21 == IF h2[t].prev = NULL THEN h2
                                     ELSE [h2 EXCEPT ![h2[t].prev].next = t]
                          IN IF b = NULL THEN [h21 EXCEPT ![h21[p].child].prev = t] ELSE h21
  <2>3. r = [h3 EXCEPT ![c].next = NULL, ![c].prev = NULL] BY <2>1 DEF ReplaceFrom
  <2> HIDE DEF h2
  <2>4. c = f /\ y = c => h3 = [[h2 EXCEPT ![t].prev = t] EXCEPT ![p].child = t] BY <1>11
  <2>5. c = f /\ y # c => h3 = [h2 EXCEPT ![p].child = t] BY <1>11
  <2>6. c # f /\ b # NULL => h3 = [h2 EXCEPT ![y].next = t] BY <1>11, <2>2
  <2>7. c # f /\ b = NULL =>
          h3 = [[h2 EXCEPT ![y].next = t] EXCEPT ![[h2 EXCEPT ![y].next = t][p].child].prev = t]
    BY <1>11, <2>2
  <2> HIDE DEF h3
  <2>8. r = End(h3) BY <2>3
  <2> HIDE DEF End
  <2> QED BY <2>4, <2>5, <2>6, <2>7, <2>8
<1> HIDE DEF h2
<1>13. CASE c = f
  <2>1. r = End(first4)
    <3>1. y = c => alone = t BY <1>1
    <3>2. y # c => alone = NULL BY <1>1
    <3>3. y = c => first4 = [[h2 EXCEPT ![t].prev = t] EXCEPT ![p].child = t] BY <3>1, <1>1
    <3>4. y # c => first4 = [h2 EXCEPT ![p].child = t] BY <3>2
    <3> HIDE DEF End, first4
    <3> QED BY <3>3, <3>4, <1>12, <1>13
  <2> HIDE DEF alone
  <2>2. PrevSet(h2, first3, alone, t) BY <1>1, <1>8, PrevSetIf
  <2> HIDE DEF first3
  <2>3. Typed(first3) /\ Alive(first3) = Alive(h) BY <2>2, <1>8 DEF PrevSet, Relinked
  <2>4. ChildSet(first3, first4, p, t) BY <2>3, <1>1, LinkSet
  <2> HIDE DEF first4
  <2>5. Typed(first4) /\ Alive(first4) = Alive(h) BY <2>3, <2>4 DEF ChildSet, Relinked
  <2> DEFINE h5 == [first4 EXCEPT ![c].next = NULL]
             h6 == [h5 EXCEPT ![c].prev = NULL]
  <2>6. NextSet(first4, h5, c, NULL) BY <2>5, <1>1, LinkSet
  <2>7. End(first4) = h6 OBVIOUS
  <2> HIDE DEF h5, End
  <2>8. Typed(h5) /\ Alive(h5) = Alive(h) BY <2>5, <2>6 DEF NextSet, Relinked
  <2>9. PrevSet(h5, h6, c, NULL) BY <2>8, <1>1, LinkSet
  <2> HIDE DEF h6
  <2>10. Relinked(h, h6)
    BY <1>9, <2>2, <2>4, <2>6, <2>9, RelinkedAgain DEF NextSet, PrevSet, ChildSet
  <2>11. \A x \in Alive(h) :
           /\ h6[x].next = IF x = c THEN NULL ELSE IF x = t THEN b ELSE h[x].next
           /\ h6[x].prev = IF x = c THEN NULL ELSE IF x = alone THEN t
                           ELSE IF x = b THEN t ELSE IF x = t THEN y ELSE h[x].prev
           /\ h6[x].child = IF x = p THEN t ELSE h[x].child
    BY <1>8, <1>10, <2>2, <2>3, <2>4, <2>5, <2>6, <2>8, <2>9 DEF NextSet, PrevSet, ChildSet
  <2> QED BY <2>1, <2>7, <2>10, <2>11, <1>2, <1>13
<1>14. CASE c # f
  <2>1. r = End(mid4)
    <3>1. mid3[p].child = f
      <4>1. NextSet(h2, mid3, y, t) BY <1>1, <1>8, <1>14, LinkSet
      <4> QED BY <4>1, <1>8, <1>11 DEF NextSet
    <3>2. b = NULL => last = f BY <1>1
    <3>3. b # NULL => last = NULL BY <1>1
    <3>4. b = NULL => mid4 = [mid3 EXCEPT ![mid3[p].child].prev = t] BY <3>1, <3>2, <1>1
    <3>5. b # NULL => mid4 = mid3 BY <3>3
    <3> HIDE DEF End, mid4
    <3> QED BY <3>4, <3>5, <1>12, <1>14
  <2> HIDE DEF last
  <2>2. NextSet(h2, mid3, y, t) BY <1>1, <1>8, <1>14, LinkSet
  <2> HIDE DEF mid3
  <2>3. Typed(mid3) /\ Alive(mid3) = Alive(h) BY <2>2, <1>8 DEF NextSet, Relinked
  <2>4. PrevSet(mid3, mid4, last, t) BY <2>3, <1>1, PrevSetIf
  <2> HIDE DEF mid4
  <2>5. Typed(mid4) /\ Alive(mid4) = Alive(h) BY <2>3, <2>4 DEF PrevSet, Relinked
  <2> DEFINE h5 == [mid4 EXCEPT ![c].next = NULL]
             h6 == [h5 EXCEPT ![c].prev = NULL]
  <2>6. NextSet(mid4, h5, c, NULL) BY <2>5, <1>1, LinkSet
  <2>7. End(mid4) = h6 OBVIOUS
  <2> HIDE DEF h5, End
  <2>8. Typed(h5) /\ Alive(h5) = Alive(h) BY <2>5, <2>6 DEF NextSet, Relinked
  <2>9. PrevSet(h5, h6, c, NULL) BY <2>8, <1>1, LinkSet
  <2> HIDE DEF h6
  <2>10. Relinked(h, h6) BY <1>9, <2>2, <2>4, <2>6, <2>9, RelinkedAgain DEF NextSet, PrevSet
  <2>11. \A x \in Alive(h) :
           /\ h6[x].next = IF x = c THEN NULL ELSE IF x = y THEN t ELSE IF x = t THEN b ELSE h[x].next
           /\ h6[x].prev = IF x = c THEN NULL ELSE IF x = last THEN t
                           ELSE IF x = b THEN t ELSE IF x = t THEN y ELSE h[x].prev
           /\ h6[x].child = h[x].child
    BY <1>8, <1>10, <2>2, <2>3, <2>4, <2>5, <2>6, <2>8, <2>9 DEF NextSet, PrevSet
  <2> QED BY <2>1, <2>7, <2>10, <2>11, <1>2, <1>14
<1> QED BY <1>13, <1>14

(* To replace c by t is to put t in front of it and to detach it. *)
LEMMA ReplaceReady ==
  ASSUME NEW h, NEW hd, Ready(h, hd), NEW p \in Alive(h), ~h[p].ref, h[p].child # NULL,
         \A r \in Alive(h) : h[r].ref => h[r].child # h[p].child, NEW c \in Run(h, h[p].child),
         NEW t \in hd
  PROVE  /\ Relinked(h, ReplaceItem(h, p, c, t))
         /\ Ready(ReplaceItem(h, p, c, t), (hd \ {t}) \cup {c})
         /\ \A x \in Alive(h) : h[x].ref => ReplaceItem(h, p, c, t)[x].child = h[x].child
<1>4. PICK k : k = InsertBefore(h, p, c, t) OBVIOUS
<1>8. /\ Relinked(h, k) /\ Ready(k, hd \ {t})
      /\ t # c /\ t # h[p].child /\ (c # h[p].child => h[c].prev \in Alive(h) \ {t})
      /\ \A x \in Alive(h) :
           /\ k[x].next = IF c # h[p].child /\ x = h[c].prev THEN t ELSE IF x = t THEN c ELSE h[x].next
           /\ k[x].prev = IF x = t THEN h[c].prev ELSE IF x = c THEN t ELSE h[x].prev
           /\ k[x].child = IF c = h[p].child /\ x = p THEN t ELSE h[x].child
      /\ c \in Run(k, k[p].child) /\ k[p].child \in Alive(h)
      /\ \A q \in Alive(k) : k[q].ref => k[q].child # k[p].child
  BY <1>4, InsertBeforeReady
<1> DEFINE f == h[p].child
           y == h[c].prev
           b == h[c].next
           r == ReplaceItem(h, p, c, t)
           g == DetachItemViaPointer(k, p, c)
<1>1. Shape(h) /\ Typed(h) /\ f \in Alive(h) /\ Owner(h, p, f) /\ Ring(h, p) /\ c \in Alive(h)
  BY ReadyFields, AliveFacts, RunFacts DEF Owner
<1>2. t \in Tops(h) /\ t \in Alive(h) /\ t \in Starts(h) BY ReadyFields DEF Tops
<1>3. b # c /\ b # t BY <1>1, <1>2, NoLoop DEF Starts
<1>50. Alive(k) = Alive(h) BY <1>8 DEF Relinked
<1>5. /\ Relinked(h, k) /\ Ready(k, hd \ {t}) /\ Alive(k) = Alive(h)
      /\ t # c /\ t # f /\ (c # f => y \in Alive(h) \ {t})
      /\ c \in Run(k, k[p].child) /\ k[p].child \in Alive(h)
      /\ \A q \in Alive(k) : k[q].ref => k[q].child # k[p].child
  BY <1>8, <1>50
<1>6. \A x \in Alive(h) :
        /\ k[x].next = IF c # f /\ x = y THEN t ELSE IF x = t THEN c ELSE h[x].next
        /\ k[x].prev = IF x = t THEN y ELSE IF x = c THEN t ELSE h[x].prev
        /\ k[x].child = IF c = f /\ x = p THEN t ELSE h[x].child
  BY <1>8
<1>7. Relinked(k, g) /\ Ready(g, (hd \ {t}) \cup {c})
  <2>1. p \in Alive(k) /\ ~k[p].ref /\ k[p].child # NULL
    BY <1>1, <1>5, AliveFacts DEF Relinked, SameData
  <2> HIDE DEF g
  <2>2. Relinked(k, DetachItemViaPointer(k, p, c)) /\ Ready(DetachItemViaPointer(k, p, c), (hd \ {t}) \cup {c})
    BY <2>1, <1>5, DetachReady
  <2> QED BY <2>2 DEF g
<1>9. y = c /\ c = f <=> b = NULL /\ c = f
  <2>1. SUFFICES ASSUME c = f PROVE y = c <=> b = NULL OBVIOUS
  <2>2. IsLast(h, c, y) BY <1>1, <2>1, AliveFacts DEF Ring
  <2>3. ASSUME b = NULL PROVE y = c
    <3>1. {c} \in SUBSET Nodes /\ NextClosed(h, {c}) BY <2>3, <1>1, AliveFacts DEF NextClosed
    <3>2. Run(h, c) \subseteq {c} BY <3>1, <1>1, RunFacts
    <3> QED BY <3>2, <2>2 DEF IsLast
  <2> QED BY <2>2, <2>3 DEF IsLast
<1>10. c # f => h[y].next = c
  <2>1. SUFFICES ASSUME c # f PROVE h[y].next = c OBVIOUS
  <2>2. PICK x \in Run(h, f) : h[x].next = c BY <2>1, <1>1, RunBefore
  <2>3. x \in Alive(h) BY <2>2, <1>1, RunFacts
  <2> QED BY <2>2, <2>3, <1>1 DEF Shape, Backs
<1>11. c # f => y # c BY <1>1, <1>10, NoLoop
<1>12. k[c].prev = t /\ k[c].next = b BY <1>1, <1>2, <1>5, <1>6, <1>11
<1>13. k[p].child = IF c = f THEN t ELSE f BY <1>6
<1>14. /\ Relinked(k, g)
       /\ \A x \in Alive(k) :
            /\ g[x].next = IF x = c THEN NULL ELSE IF x = t THEN k[c].next ELSE k[x].next
            /\ g[x].prev = IF x = c THEN NULL
                           ELSE IF x = k[c].next \/ (k[c].next = NULL /\ x = k[p].child) THEN t ELSE k[x].prev
            /\ g[x].child = k[x].child
  <2>1. Shape(k) /\ p \in Alive(k) /\ k[p].child \in Alive(k) /\ c \in Alive(k) /\ t \in Alive(k)
    BY <1>1, <1>2, <1>5, ReadyFields
  <2>2. c # k[p].child /\ c # k[c].next BY <1>3, <1>5, <1>12, <1>13
  <2> QED BY <2>1, <2>2, <1>5, <1>12, DetachFields
<1>15. /\ Relinked(h, r)
       /\ \A x \in Alive(h) :
            /\ r[x].next = IF x = c THEN NULL ELSE IF c # f /\ x = y THEN t
                           ELSE IF x = t THEN b ELSE h[x].next
            /\ r[x].prev = IF x = c THEN NULL ELSE IF c = f /\ y = c /\ x = t THEN t
                           ELSE IF c # f /\ b = NULL /\ x = f THEN t
                           ELSE IF x = b THEN t ELSE IF x = t THEN y ELSE h[x].prev
            /\ r[x].child = IF c = f /\ x = p THEN t ELSE h[x].child
  BY <1>1, <1>2, <1>3, <1>5, ReplaceFields
<1> HIDE DEF r, g, y, b, f
<1>16. Relinked(h, g) BY <1>5, <1>7, RelinkedAgain
<1>17. \A x \in Alive(h) : g[x].next = r[x].next /\ g[x].prev = r[x].prev /\ g[x].child = r[x].child
  <2>1. SUFFICES ASSUME NEW x \in Alive(h)
                 PROVE  g[x].next = r[x].next /\ g[x].prev = r[x].prev /\ g[x].child = r[x].child
    OBVIOUS
  <2>2. g[x].child = r[x].child BY <1>5, <1>6, <1>14, <1>15
  <2>3. g[x].next = r[x].next BY <1>3, <1>5, <1>6, <1>12, <1>14, <1>15
  <2>4. g[x].prev = r[x].prev
    <3>1. g[x].prev = IF x = c THEN NULL
                      ELSE IF x = b \/ (b = NULL /\ x = k[p].child) THEN t
                      ELSE IF x = t THEN y ELSE h[x].prev
      BY <1>5, <1>6, <1>12, <1>14
    <3>2. CASE c = f BY <3>1, <3>2, <1>3, <1>9, <1>13, <1>15
    <3>3. CASE c # f BY <3>1, <3>3, <1>3, <1>5, <1>13, <1>15
    <3> QED BY <3>2, <3>3
  <2> QED BY <2>2, <2>3, <2>4
<1>18. g = r BY <1>15, <1>16, <1>17, SameHeap
<1>19. \A x \in Alive(h) : h[x].ref => r[x].child = h[x].child BY <1>15
<1> QED BY <1>7, <1>15, <1>18, <1>19 DEF r

LEMMA InsertReady ==
  ASSUME NEW h, NEW hd, Ready(h, hd), NEW p \in Alive(h), ~h[p].ref,
         \A r \in Alive(h) : h[r].ref /\ h[p].child # NULL => h[r].child # h[p].child,
         NEW which, get_array_item(h, p, which) # NULL =>
                      h[p].child # NULL /\ get_array_item(h, p, which) \in Run(h, h[p].child),
         NEW t \in hd
  PROVE  /\ Relinked(h, InsertItemInArray(h, p, which, t))
         /\ Ready(InsertItemInArray(h, p, which, t), hd \ {t})
<1> DEFINE c == get_array_item(h, p, which)
           k == InsertItemInArray(h, p, which, t)
<1>1. CASE c = NULL
  <2>1. k = add_item_to_array(h, p, t) BY <1>1 DEF InsertItemInArray
  <2> QED BY <2>1, AddReady
<1>2. CASE c # NULL
  <2>1. k = InsertBefore(h, p, c, t) BY <1>2 DEF InsertItemInArray, InsertBefore
  <2>2. h[p].child # NULL /\ c \in Run(h, h[p].child) BY <1>2
  <2>3. \A r \in Alive(h) : h[r].ref => h[r].child # h[p].child BY <2>2
  <2> HIDE DEF k, c
  <2>4. PICK d : d = c OBVIOUS
  <2>5. PICK g : g = k OBVIOUS
  <2>6. d \in Run(h, h[p].child) /\ h[p].child # NULL /\ g = InsertBefore(h, p, d, t)
    BY <2>1, <2>2, <2>4, <2>5
  <2>7. Relinked(h, g) /\ Ready(g, hd \ {t}) BY <2>3, <2>6, InsertBeforeReady
  <2> QED BY <2>5, <2>7 DEF k
<1> QED BY <1>1, <1>2

-----------------------------------------------------------------------------
(* Items that are new, that get another name, or that are freed. *)

LEMMA LeastExists ==
  ASSUME NEW N \in Nat, NEW S \in SUBSET (0 .. N), S # {}
  PROVE  Min(S) \in S /\ \A y \in S : Min(S) <= y
<1> DEFINE Least == \E m \in S : \A y \in S : m <= y
           T == {k \in 0 .. N : Least \/ S \cap 0 .. k = {}}
<1>1. 0 \in T
  <2>1. CASE 0 \in S BY <2>1
  <2>2. CASE 0 \notin S BY <2>2
  <2> QED BY <2>1, <2>2
<1>2. ASSUME NEW k \in 0 .. N - 1, k \in T PROVE k + 1 \in T
  <2>1. CASE Least BY <2>1
  <2>2. CASE S \cap 0 .. k = {} /\ k + 1 \in S
    <3>1. \A y \in S : k + 1 <= y BY <2>2
    <3> QED BY <2>2, <3>1
  <2>3. CASE S \cap 0 .. k = {} /\ k + 1 \notin S
    <3>1. S \cap 0 .. (k + 1) = {} BY <2>3
    <3> QED BY <3>1
  <2> QED BY <1>2, <2>1, <2>2, <2>3
<1> HIDE DEF T
<1>3. N \in T BY <1>1, <1>2, IntervalInduction
<1>4. Least BY <1>3 DEF T
<1> QED BY <1>4 DEF Min

LEMMA FreeAddress ==
  ASSUME NEW h, HasMemory(h)
  PROVE  NewAddress(h) \in Nodes /\ NewAddress(h) \notin Alive(h) /\ NewAddress(h) # NULL
<1> DEFINE S == {n \in Nodes : h[n] = Freed}
           N == Cardinality(Nodes)
<1>1. N \in Nat /\ S \in SUBSET (0 .. N) BY CJsonAssumption, CardinalityNat
<1>2. S # {} BY DEF HasMemory
<1> HIDE DEF N
<1>3. Min(S) \in S BY <1>1, <1>2, LeastExists
<1> QED BY <1>3, NullIsNoNode DEF NewAddress, Alive

LEMMA NewHeap ==
  ASSUME NEW h, Typed(h), HasMemory(h), NEW item \in ItemRec, NEW n, n = NewAddress(h),
         NEW g, g = cJSON_New_Item(h, item)
  PROVE  /\ n \in Nodes /\ n \notin Alive(h) /\ n # NULL
         /\ Typed(g) /\ Alive(g) = Alive(h) \cup {n} /\ g[n] = item
         /\ \A x \in Alive(h) : g[x] = h[x] /\ x # n
<1>1. n \in Nodes /\ n \notin Alive(h) /\ n # NULL BY FreeAddress
<1>2. g = [h EXCEPT ![n] = item] BY DEF cJSON_New_Item
<1>3. h \in [Nodes -> ItemRec \cup {Freed}] BY DEF Typed
<1>4. g[n] = item /\ \A x \in Nodes \ {n} : g[x] = h[x] BY <1>1, <1>2, <1>3
<1>5. Typed(g) BY <1>2, <1>3 DEF Typed
<1>6. item # Freed BY NotFreed
<1>7. Alive(g) = Alive(h) \cup {n} BY <1>1, <1>4, <1>6 DEF Alive
<1> QED BY <1>1, <1>4, <1>5, <1>7 DEF Alive

LEMMA NewCount ==
  ASSUME NEW h, Typed(h), HasMemory(h), NEW item \in ItemRec, NEW g, g = cJSON_New_Item(h, item)
  PROVE  Owned(g, Alive(g)) = Owned(h, Alive(h)) + Bit(OwnsName(item)) + Bit(OwnsValue(item))
<1>1. PICK n : n = NewAddress(h) OBVIOUS
<1>2. /\ n \in Nodes /\ n \notin Alive(h) /\ Alive(g) = Alive(h) \cup {n} /\ g[n] = item
      /\ \A x \in Alive(h) : g[x] = h[x]
  BY <1>1, NewHeap
<1>3. Alive(h) \in SUBSET Nodes BY DEF Alive
<1>4. PICK k : k = g OBVIOUS
<1>5. Owned(k, Alive(h) \cup {n}) = Owned(h, Alive(h)) + Bit(OwnsName(k[n])) + Bit(OwnsValue(k[n]))
  BY <1>2, <1>3, <1>4, OwnedMore
<1> QED BY <1>2, <1>4, <1>5

(* What may be in a new item of heap h at n. *)
NewItem(h, n, item) ==
  /\ item \in ItemRec /\ item.next = NULL /\ item.prev = NULL
  /\ item.child # NULL => item.ref /\ \E p \in Alive(h) : Owner(h, p, item.child)
  /\ item.child \in Alive(h) \cup {NULL}
  /\ IF item.ref THEN item.value \in Alive(h) \cup {NULL} ELSE item.value \in {n, NULL}

LEMMA NewShaped ==
  ASSUME NEW h, Shape(h), HasMemory(h), NEW n, n = NewAddress(h),
         NEW item, NewItem(h, n, item), NEW g, g = cJSON_New_Item(h, item)
  PROVE  /\ n \notin Alive(h) /\ n \in Nodes /\ n # NULL
         /\ Alive(g) = Alive(h) \cup {n} /\ g[n] = item /\ \A x \in Alive(h) : g[x] = h[x] /\ x # n
         /\ Shape(g) /\ Tops(g) = Tops(h) \cup {n}
         /\ \A c \in Alive(h) : Run(h, c) \subseteq Run(g, c)
         /\ \A open : Rings(h, open) => Rings(g, open)
<1>1. Typed(h) /\ item \in ItemRec BY DEF NewItem, Shape
<1>2. /\ n \in Nodes /\ n \notin Alive(h) /\ n # NULL
      /\ Typed(g) /\ Alive(g) = Alive(h) \cup {n} /\ g[n] = item
      /\ \A x \in Alive(h) : g[x] = h[x] /\ x # n
  BY <1>1, NewHeap
<1>3. /\ g[n].next = NULL /\ g[n].prev = NULL
      /\ g[n].child # NULL => g[n].ref /\ \E p \in Alive(h) : Owner(h, p, g[n].child)
      /\ g[n].child \in Alive(h) \cup {NULL}
      /\ IF g[n].ref THEN g[n].value \in Alive(h) \cup {NULL} ELSE g[n].value \in {n, NULL}
  BY <1>2 DEF NewItem
<1>4. /\ Shape(g) /\ Tops(g) = Tops(h) \cup {n} /\ \A open : Rings(h, open) => Rings(g, open)
      /\ \A c \in Alive(h) : Run(h, c) \subseteq Run(g, c)
  BY <1>1, <1>2, <1>3, NewShape
<1> QED BY <1>2, <1>4

LEMMA NewReady ==
  ASSUME NEW h, NEW hd, Ready(h, hd), HasMemory(h), NEW n, n = NewAddress(h),
         NEW item, NewItem(h, n, item), NEW g, g = cJSON_New_Item(h, item)
  PROVE  /\ n \notin hd /\ Ready(g, hd \cup {n})
         /\ Alive(g) = Alive(h) \cup {n} /\ \A x \in Alive(h) : g[x] = h[x]
<1>1. Shape(h) /\ hd \subseteq Tops(h) /\ Tops(h) \subseteq Alive(h) /\ item.next = NULL
  BY ReadyFields DEF NewItem, Tops, Starts
<1>2. /\ n \notin Alive(h) /\ Alive(g) = Alive(h) \cup {n} /\ g[n] = item
      /\ \A x \in Alive(h) : g[x] = h[x] /\ x # n
      /\ Shape(g) /\ Tops(g) = Tops(h) \cup {n}
      /\ \A open : Rings(h, open) => Rings(g, open)
  BY <1>1, NewShaped
<1>3. Rings(g, {}) BY <1>2 DEF Ready
<1>4. Placed(g, hd \cup {n}, {}) BY <1>1, <1>2 DEF Ready, Placed
<1> QED BY <1>1, <1>2, <1>3, <1>4 DEF Ready

(* It may be forgotten. *)
LEMMA NewForgotten ==
  ASSUME NEW h, NEW hd, Ready(h, hd), HasMemory(h), NEW item, NewItem(h, NewAddress(h), item),
         item.ref = TRUE, item.string = NULL, NEW g, g = cJSON_New_Item(h, item)
  PROVE  Ready(g, hd)
<1>1. /\ Shape(h) /\ hd \subseteq Tops(h) /\ Tops(h) \subseteq Alive(h) /\ item.next = NULL
  BY ReadyFields DEF NewItem, Tops, Starts
<1>2. PICK n : n = NewAddress(h) OBVIOUS
<1>3. /\ n \notin Alive(h) /\ Alive(g) = Alive(h) \cup {n} /\ g[n] = item
      /\ \A x \in Alive(h) : g[x] = h[x] /\ x # n
      /\ Shape(g) /\ Tops(g) = Tops(h) \cup {n}
      /\ \A open : Rings(h, open) => Rings(g, open)
  BY <1>1, <1>2, NewShaped
<1>4. Rings(g, {}) BY <1>3 DEF Ready
<1>5. Placed(g, hd, {}) BY <1>1, <1>3 DEF Ready, Placed
<1> QED BY <1>3, <1>4, <1>5 DEF Ready

LEMMA NewItemCount ==
  ASSUME NEW h, Shape(h), HasMemory(h), NEW n, NEW item, NewItem(h, n, item),
         NEW g, g = cJSON_New_Item(h, item)
  PROVE  Owned(g, Alive(g)) = Owned(h, Alive(h)) + Bit(OwnsName(item)) + Bit(OwnsValue(item))
BY NewCount DEF NewItem, Shape

(* Names and types are not part of the shape. *)
LEMMA RelabelledReady ==
  ASSUME NEW h, NEW hd, Ready(h, hd), NEW g, Typed(g), Alive(g) = Alive(h),
         \A y \in Alive(h) : /\ g[y].next = h[y].next /\ g[y].prev = h[y].prev
                             /\ g[y].child = h[y].child /\ g[y].ref = h[y].ref
                             /\ g[y].value \in Alive(h) \cup {NULL}
                             /\ ~h[y].ref => g[y].value \in {y, NULL},
         \A y \in Alive(h) : y \in Tops(h) /\ y \notin hd => g[y] = h[y]
  PROVE  Ready(g, hd) /\ \A c : Run(g, c) = Run(h, c)
<1>1. /\ Shape(g) /\ Tops(g) = Tops(h) /\ \A c : Run(g, c) = Run(h, c)
      /\ \A open : Rings(h, open) => Rings(g, open)
  BY DataShape DEF Ready
<1>2. Tops(h) \subseteq Alive(h) /\ hd \subseteq Tops(h) BY DEF Tops, Starts, Ready, Placed
<1>3. Placed(g, hd, {}) BY <1>1, <1>2 DEF Ready, Placed
<1> QED BY <1>1, <1>3 DEF Ready

(* x is called something else. *)
WithName(h, x, name, const) == [h EXCEPT ![x] = Renamed(@, name, const)]

LEMMA RenamedReady ==
  ASSUME NEW h, NEW hd, Ready(h, hd), NEW x \in Alive(h), x \in Tops(h) => x \in hd,
         NEW name \in StringTokens \cup {NULL}, NEW const \in BOOLEAN,
         NEW g, g = WithName(h, x, name, const)
  PROVE  /\ Ready(g, hd) /\ Alive(g) = Alive(h)
         /\ \A y \in Alive(h) : /\ g[y].ref = h[y].ref /\ g[y].child = h[y].child
                                /\ g[y].value = h[y].value /\ g[y].next = h[y].next
         /\ g[x].string = name /\ g[x].const = const
         /\ \A y \in Alive(h) \ {x} : g[y] = h[y]
         /\ \A c : Run(g, c) = Run(h, c)
<1>1. Shape(h) /\ Typed(h) /\ x \in Nodes /\ h[x] \in ItemRec BY ReadyFields, ItemFields
<1>2. g = [h EXCEPT ![x] = [h[x] EXCEPT !.string = name, !.const = const]]
  BY <1>1 DEF WithName, Renamed, Typed
<1> DEFINE item == [h[x] EXCEPT !.string = name, !.const = const]
<1>3. /\ item \in ItemRec /\ item.string = name /\ item.const = const
      /\ item.ref = h[x].ref /\ item.child = h[x].child /\ item.value = h[x].value
      /\ item.next = h[x].next /\ item.prev = h[x].prev
  BY <1>1 DEF ItemRec
<1>4. g = [h EXCEPT ![x] = item] BY <1>2
<1> HIDE DEF item
<1>5. g[x] = item /\ Typed(g) /\ \A y \in Nodes \ {x} : g[y] = h[y] BY <1>1, <1>3, <1>4 DEF Typed
<1>6. Alive(g) = Alive(h) BY <1>3, <1>5, NotFreed DEF Alive
<1>7. \A y \in Alive(h) \ {x} : g[y] = h[y] BY <1>5 DEF Alive
<1>8. \A y \in Alive(h) : /\ g[y].ref = h[y].ref /\ g[y].child = h[y].child
                          /\ g[y].value = h[y].value /\ g[y].next = h[y].next
                          /\ g[y].prev = h[y].prev
  BY <1>3, <1>5, <1>7
<1>9. \A y \in Alive(h) : /\ g[y].value \in Alive(h) \cup {NULL}
                          /\ ~h[y].ref => g[y].value \in {y, NULL}
  BY <1>1, <1>8, AliveFacts DEF Shape, OwnValues
<1>10. Ready(g, hd) /\ \A c : Run(g, c) = Run(h, c)
  <2>1. \A y \in Alive(h) : /\ g[y].next = h[y].next /\ g[y].prev = h[y].prev
                            /\ g[y].child = h[y].child /\ g[y].ref = h[y].ref
                            /\ g[y].value \in Alive(h) \cup {NULL}
                            /\ ~h[y].ref => g[y].value \in {y, NULL}
    BY <1>8, <1>9
  <2>2. PICK k : k = g OBVIOUS
  <2>3. /\ Typed(k) /\ Alive(k) = Alive(h)
        /\ \A y \in Alive(h) : /\ k[y].next = h[y].next /\ k[y].prev = h[y].prev
                               /\ k[y].child = h[y].child /\ k[y].ref = h[y].ref
                               /\ k[y].value \in Alive(h) \cup {NULL}
                               /\ ~h[y].ref => k[y].value \in {y, NULL}
    BY <2>1, <2>2, <1>5, <1>6
  <2>4. \A y \in Alive(h) : y \in Tops(h) /\ y \notin hd => k[y] = h[y]
    BY <2>2, <1>7
  <2>5. Ready(k, hd) /\ \A c : Run(k, c) = Run(h, c) BY <2>3, <2>4, RelabelledReady
  <2> QED BY <2>2, <2>5
<1> QED BY <1>3, <1>5, <1>6, <1>7, <1>8, <1>10

(* n goes, with all it leads to. *)
LEMMA DeleteReady ==
  ASSUME NEW h, NEW hd, Ready(h, hd), NEW n \in hd,
         \A r \in Alive(h) \ Doomed(h, n) :
           h[r].ref => h[r].child \notin Doomed(h, n) /\ h[r].value \notin Doomed(h, n)
  PROVE  /\ Ready(cJSON_Delete(h, n), hd \ {n})
         /\ Owned(cJSON_Delete(h, n), Alive(cJSON_Delete(h, n)))
              = Owned(h, Alive(h)) - Owned(h, Doomed(h, n))
<1> DEFINE D == Doomed(h, n)
           g == cJSON_Delete(h, n)
<1>1. Shape(h) /\ n \in Alive(h) /\ n \in Tops(h) /\ hd \subseteq Tops(h) /\ Tops(h) \subseteq Alive(h)
  BY ReadyFields DEF Tops, Starts
<1>2. /\ D \subseteq Alive(h) /\ Typed(g) /\ Alive(g) = Alive(h) \ D
      /\ \A x \in Alive(h) \ D : g[x] = h[x]
  BY <1>1, DeletedHeap
<1>3. Gathered(h, n, D) BY <1>1, DoomedFacts
<1> HIDE DEF D, g
<1> USE DEF D
<1>4. /\ Shape(g) /\ Tops(g) = Tops(h) \ {n}
      /\ \A q \in Alive(h) \ D : ~h[q].ref => (Ring(h, q) => Ring(g, q))
  <2> HIDE DEF D
  <2>1. \A r \in Alive(h) \ D : h[r].ref => h[r].child \notin D /\ h[r].value \notin D BY DEF D
  <2> QED BY <2>1, <1>1, <1>2, <1>3, DeleteShape
<1>5. Rings(g, {}) BY <1>2, <1>4, ReadyFields DEF Rings
<1>6. Tops(g) \subseteq Alive(g) BY DEF Tops, Starts
<1>7. Placed(g, hd \ {n}, {}) BY <1>1, <1>2, <1>4, <1>6 DEF Ready, Placed
<1>8. Owned(g, Alive(g)) = Owned(h, Alive(h)) - Owned(h, D)
  <2>1. Alive(h) \in SUBSET Nodes BY DEF Alive
  <2> HIDE DEF D
  <2> QED BY <2>1, <1>2, OwnedLess
<1> QED BY <1>4, <1>5, <1>7, <1>8 DEF Ready, g

LEMMA CountNat == \A h : Owned(h, Alive(h)) \in Nat
<1> SUFFICES ASSUME NEW h PROVE Owned(h, Alive(h)) \in Nat OBVIOUS
<1>1. Alive(h) \in SUBSET Nodes /\ {} \in SUBSET Alive(h) BY DEF Alive
<1> QED BY <1>1, OwnedSplit

LEMMA RelinkedCount ==
  ASSUME NEW h, NEW g, Relinked(h, g)
  PROVE  Owned(g, Alive(g)) = Owned(h, Alive(h))
BY OwnedSame DEF Relinked, SameData, OwnsName, OwnsValue


-----------------------------------------------------------------------------
(***************************************************************************)
(* The inductive invariant.  The heap has its shape; nobody owns the items *)
(* the caller holds and those a call is building, and nobody else is       *)
(* without an owner but a forgotten reference; what a call builds is cut   *)
(* off from the rest of the heap; the frames of a call are what is between *)
(* two of its steps.                                                       *)
(***************************************************************************)

Open == IF job = "text" THEN {} ELSE {a.new : a \in Activations}

Roots ==
  CASE job = "idle" -> {}
    [] job = "text" -> ({source} \cup {a.head : a \in Activations}) \ {NULL}
    [] OTHER -> {a.new : a \in Activations} \cup (IF at = "return" THEN {ret} ELSE {})

(* What a call reads and must not free. *)
Kept ==
  held \cup (IF job \in {"copy", "shallow"} THEN {source} \cup {a.from : a \in Activations} ELSE {})
Fresh == \E C : Island(items, C) /\ Roots \subseteq C /\ Kept \cap C = {}

IdleOK == job = "idle" => at = "start" /\ stack = <<>> /\ source = NULL /\ ret = NULL

(* A parent under construction and the last of its children. *)
Building(h, new, last) ==
  /\ h[new].next = NULL
  /\ IF last = NULL THEN h[new].child = NULL
     ELSE h[new].child # NULL /\ IsLast(h, h[new].child, last)

NumbersOK ==
  job = "numbers" =>
    /\ at \in {"next", "failed"} /\ source = NULL /\ ret = NULL
    /\ stack \in Seq([new : Alive(items), last : Alive(items) \cup {NULL}, left : Nat]) /\ Len(stack) = 1
    /\ Building(items, Top.new, Top.last)

CopyOK ==
  job \in {"copy", "shallow"} =>
    /\ at \in {"copy", "walk", "return", "failed"} /\ source \in Alive(items)
    /\ stack \in Seq([new : Alive(items), from : Alive(items) \cup {NULL}, last : Alive(items) \cup {NULL}])
    /\ \A i \in 1 .. Len(stack) : Building(items, stack[i].new, stack[i].last)
    /\ \A i, j \in 1 .. Len(stack) : stack[i].new = stack[j].new => i = j
    /\ IF at = "return" THEN /\ ret \in Alive(items) /\ items[ret].next = NULL
                             /\ \A i \in 1 .. Len(stack) : stack[i].new # ret
       ELSE ret = NULL
    /\ job = "shallow" => stack = <<>>
    /\ at = "walk" => stack # <<>>
    /\ at \in {"copy", "return"} /\ stack # <<>> => Top.from # NULL
    /\ \A i \in 1 .. Len(stack) - 1 : stack[i].from # NULL

Frame(h) ==
  [kind : {"Array", "Object"}, item : Alive(h), head : Alive(h) \cup {NULL}, current : Alive(h) \cup {NULL}]

(* The array or object a frame fills has no children yet; those it will have *)
(* begin at head and end at current.                                         *)
Filling(h, f) ==
  /\ h[f.item].child = NULL
  /\ IF f.head = NULL THEN f.current = NULL ELSE IsLast(h, f.head, f.current)

TextOK ==
  job = "text" =>
    /\ held = {} /\ ret = NULL /\ text # <<>>
    /\ at \in {"start", "value", "after", "element", "name", "close", "failed", "starved", "garbage"}
    /\ stack \in Seq(Frame(items))
    /\ IF source = NULL THEN stack = <<>> /\ at \in {"start", "starved"}
       ELSE source \in Alive(items) /\ items[source].next = NULL /\ at # "start"
    /\ \A i \in 1 .. Len(stack) :
         /\ Filling(items, stack[i])
         /\ stack[i].item = IF i = 1 THEN source ELSE stack[i - 1].current
         /\ stack[i].head # source
    /\ \A i, j \in 1 .. Len(stack) : stack[i].head # NULL /\ stack[i].head = stack[j].head => i = j
    /\ at \in {"value", "name"} => items[Item].child = NULL /\ items[Item].value = NULL
    /\ at = "name" => items[Item].string = NULL /\ ~items[Item].const
    /\ at \in {"element", "name", "close"} => stack # <<>>
    /\ at \in {"value", "name", "after"} => Item # NULL

(* How far a parse has got. *)
ReachOf(place) ==
  IF place = "start" THEN {0}
  ELSE IF place \in {"element", "close"} THEN 0 .. Len(text) - 1
  ELSE IF place \in {"value", "name", "after"} THEN 0 .. Len(text)
  ELSE 0 .. Len(text) + 1
BufferOK ==
  /\ text \in Seq(STRING) /\ depth \in 0 .. NestingLimit
  /\ IF job = "text" THEN offset \in ReachOf(at) /\ Len(stack) <= depth
     ELSE offset = 0 /\ depth = 0 /\ text = <<>>

JobOK == job \in {"idle", "numbers", "copy", "shallow", "text"}

Inv ==
  /\ Shape(items) /\ Rings(items, Open) /\ StringsAccounted
  /\ Placed(items, held, Roots) /\ Fresh
  /\ JobOK /\ IdleOK /\ NumbersOK /\ CopyOK /\ TextOK /\ BufferOK

-----------------------------------------------------------------------------
(* What a call of the caller's finds. *)

LEMMA LiveIsAlive == Live = Alive(items)
BY DEF Live, Alive

LEMMA GotFromArray ==
  ASSUME NEW h, Shape(h), NEW p \in Alive(h), ~h[p].ref, NEW which \in Nat,
         get_array_item(h, p, which) # NULL
  PROVE  /\ h[p].child # NULL /\ h[p].child \in Starts(h)
         /\ get_array_item(h, p, which) \in Run(h, h[p].child)
<1>1. CASE h[p].child = NULL
  <2>1. ListOf(h, p) = <<>> BY <1>1, ListOfNothing DEF ListOf
  <2> QED BY <2>1 DEF get_array_item
<1>2. CASE h[p].child # NULL
  <2>1. h[p].child \in Starts(h) BY <1>2, AliveFacts DEF Shape, Firsts, Owner
  <2>2. /\ ListOf(h, p) \in Seq(Alive(h)) /\ ToSet(ListOf(h, p)) = Run(h, h[p].child)
    BY <2>1, ListFacts DEF ListOf
  <2>3. which < Len(ListOf(h, p)) /\ get_array_item(h, p, which) = ListOf(h, p)[which + 1]
    BY DEF get_array_item
  <2>4. which + 1 \in 1 .. Len(ListOf(h, p)) BY <2>2, <2>3
  <2>5. ListOf(h, p)[which + 1] \in ToSet(ListOf(h, p)) BY <2>4 DEF ToSet
  <2> QED BY <1>2, <2>1, <2>2, <2>3, <2>5
<1> QED BY <1>1, <1>2

LEMMA GotFromObject ==
  ASSUME NEW h, Shape(h), NEW p \in Alive(h), ~h[p].ref, NEW name, NEW sensitive,
         get_object_item(h, p, name, sensitive) # NULL
  PROVE  /\ h[p].child # NULL /\ h[p].child \in Starts(h)
         /\ get_object_item(h, p, name, sensitive) \in Run(h, h[p].child)
<1> DEFINE s == ListOf(h, p)
           stops(n) == IF sensitive THEN h[n].string \in {NULL, name}
                       ELSE h[n].string # NULL /\ Fold[h[n].string] = Fold[name]
           I == {i \in 1 .. Len(s) : stops(s[i])}
           k == IF I # {} THEN Min(I) ELSE 0
<1>1. get_object_item(h, p, name, sensitive) = IF k = 0 \/ h[s[k]].string = NULL THEN NULL ELSE s[k]
  BY DEF get_object_item, SelectInSeq
<1> HIDE DEF stops
<1>2. I # {} /\ k = Min(I) /\ get_object_item(h, p, name, sensitive) = s[k] BY <1>1
<1>3. CASE h[p].child = NULL
  <2>1. s = <<>> BY <1>3, ListOfNothing DEF ListOf
  <2> QED BY <2>1, <1>2
<1>4. CASE h[p].child # NULL
  <2>1. h[p].child \in Starts(h) BY <1>4, AliveFacts DEF Shape, Firsts, Owner
  <2>2. s \in Seq(Alive(h)) /\ ToSet(s) = Run(h, h[p].child)
    BY <2>1, ListFacts DEF ListOf
  <2> HIDE DEF s
  <2>3. Len(s) \in Nat /\ I \in SUBSET (0 .. Len(s)) BY <2>2
  <2>4. Min(I) \in I BY <2>3, <1>2, LeastExists
  <2>5. s[k] \in ToSet(s)
    <3>1. k \in I BY <2>4, <1>2
    <3> HIDE DEF k
    <3>2. k \in 1 .. Len(s) BY <3>1
    <3> QED BY <2>2, <3>2 DEF ToSet
  <2> QED BY <1>2, <1>4, <2>1, <2>2, <2>5
<1> QED BY <1>3, <1>4

LEMMA ContainerFacts ==
  ASSUME NEW p, Container(p)
  PROVE  /\ p \in Alive(items) /\ ~items[p].ref
         /\ \A r \in Alive(items) : items[r].ref /\ items[p].child # NULL => items[r].child # items[p].child
BY LiveIsAlive DEF Container, Unshared, References

LEMMA ChosenFacts ==
  ASSUME Shape(items), NEW p, Container(p), NEW item \in Chosen(p) \ {NULL}
  PROVE  items[p].child # NULL /\ item \in Run(items, items[p].child)
<1>1. p \in Alive(items) /\ ~items[p].ref BY ContainerFacts
<1>2. CASE \E k \in 0 .. Cardinality(Nodes) - 1 : item = get_array_item(items, p, k)
  <2>1. PICK k \in 0 .. Cardinality(Nodes) - 1 : item = get_array_item(items, p, k) BY <1>2
  <2>2. k \in Nat BY CardinalityNat
  <2> QED BY <1>1, <2>1, <2>2, GotFromArray
<1>3. CASE \E name \in Keys, sensitive \in BOOLEAN : item = get_object_item(items, p, name, sensitive)
  BY <1>1, <1>3, GotFromObject
<1> QED BY <1>2, <1>3 DEF Chosen

-----------------------------------------------------------------------------
(* Between two calls. *)

LEMMA IdleFacts ==
  ASSUME Inv, job = "idle"
  PROVE  /\ Ready(items, held) /\ Open = {} /\ Roots = {}
         /\ strings = Owned(items, Alive(items)) /\ strings \in Nat
         /\ at = "start" /\ stack = <<>> /\ source = NULL /\ ret = NULL
         /\ text = <<>> /\ offset = 0 /\ depth = 0
<1>1. at = "start" /\ stack = <<>> /\ source = NULL /\ ret = NULL BY DEF Inv, IdleOK
<1>2. Roots = {} BY DEF Roots
<1>3. Open = {} BY <1>1 DEF Open, Activations, ToSet
<1>4. text = <<>> /\ offset = 0 /\ depth = 0 BY DEF Inv, BufferOK
<1>5. strings = Owned(items, Alive(items)) /\ strings \in Nat
  BY LiveIsAlive, CountNat DEF Inv, StringsAccounted
<1> QED BY <1>1, <1>2, <1>3, <1>4, <1>5 DEF Inv, Ready

LEMMA IdleAgain ==
  ASSUME job' = "idle", at' = "start", stack' = <<>>, source' = NULL, ret' = NULL,
         text' = <<>>, offset' = 0, depth' = 0,
         Ready(items', held'), strings' = Owned(items', Alive(items'))
  PROVE  Inv'
<1>1. Open' = {} /\ Roots' = {} BY DEF Open, Roots, Activations, ToSet
<1>2. Shape(items') /\ Rings(items', {}) /\ Placed(items', held', {}) BY DEF Ready
<1>3. StringsAccounted' BY DEF StringsAccounted, Live, Alive
<1>4. Fresh'
  <2>1. Island(items', {}) BY DEF Island
  <2> QED BY <1>1, <2>1 DEF Fresh
<1>5. JobOK' /\ IdleOK' /\ NumbersOK' /\ CopyOK' /\ TextOK' BY DEF JobOK, IdleOK, NumbersOK, CopyOK, TextOK
<1>6. BufferOK'
  <2>1. <<>> \in Seq(STRING) OBVIOUS
  <2> QED BY <2>1, CJsonAssumption DEF BufferOK
<1> QED BY <1>1, <1>2, <1>3, <1>4, <1>5, <1>6 DEF Inv

LEMMA CalledAgain ==
  ASSUME Inv, job = "idle", Called, Ready(items', held'), strings' = Owned(items', Alive(items'))
  PROVE  Inv'
BY IdleFacts, IdleAgain DEF Called, parseVars

LEMMA MadeFacts ==
  ASSUME NEW h, NEW type \in Types, NEW n \in Nodes
  PROVE  /\ NewItem(h, n, Made(type, n))
         /\ ~OwnsName(Made(type, n)) /\ (OwnsValue(Made(type, n)) <=> type = "String")
<1> DEFINE a == Made(type, n)
<1>1. n # NULL BY NullIsNoNode
<1>2. /\ a \in ItemRec /\ a.next = NULL /\ a.prev = NULL /\ a.child = NULL /\ a.ref = FALSE
      /\ a.string = NULL /\ a.value = IF type = "String" THEN n ELSE NULL
  BY DEF Made, Zeroed, ItemRec, ItemTypes
<1> HIDE DEF a
<1>3. NewItem(h, n, a) BY <1>2 DEF NewItem
<1>4. ~OwnsName(a) /\ (OwnsValue(a) <=> type = "String") BY <1>1, <1>2 DEF OwnsName, OwnsValue
<1> QED BY <1>3, <1>4 DEF a

(* A new item may also have a name of its own. *)
LEMMA NamedFacts ==
  ASSUME NEW h, NEW n, NEW a, NewItem(h, n, a), a.const = FALSE, NEW name \in Keys
  PROVE  /\ NewItem(h, n, [a EXCEPT !.string = name])
         /\ OwnsName([a EXCEPT !.string = name])
         /\ (OwnsValue([a EXCEPT !.string = name]) <=> OwnsValue(a))
<1> DEFINE b == [a EXCEPT !.string = name]
<1>1. name # NULL /\ name \in StringTokens /\ a \in ItemRec BY KeyFacts DEF NewItem
<1>2. /\ b \in ItemRec /\ b.next = a.next /\ b.prev = a.prev /\ b.child = a.child /\ b.ref = a.ref
      /\ b.const = FALSE /\ b.string = name /\ b.value = a.value
  BY <1>1 DEF ItemRec
<1> HIDE DEF b
<1>3. NewItem(h, n, b) BY <1>2 DEF NewItem
<1>4. OwnsName(b) /\ (OwnsValue(b) <=> OwnsValue(a)) BY <1>1, <1>2 DEF OwnsName, OwnsValue
<1> QED BY <1>3, <1>4 DEF b

LEMMA CreateKeeps == ASSUME Inv, NEW type \in Types, Create(type) PROVE Inv'
<1> DEFINE n == NewAddress(items)
           item == Made(type, n)
<1>1. /\ job = "idle" /\ HasMemory(items) /\ items' = cJSON_New_Item(items, item) /\ Called
      /\ held' = held \cup {n} /\ strings' = strings + (IF type = "String" THEN 1 ELSE 0)
  BY DEF Create, MayCall
<1>2. /\ Ready(items, held) /\ strings = Owned(items, Alive(items)) /\ strings \in Nat
      /\ Shape(items)
  BY <1>1, IdleFacts DEF Ready
<1>3. n \in Nodes BY <1>1, FreeAddress
<1> HIDE DEF n
<1>4. NewItem(items, n, item) /\ ~OwnsName(item) /\ (OwnsValue(item) <=> type = "String")
  BY <1>3, MadeFacts
<1> HIDE DEF item
<1>5. Ready(items', held \cup {n}) BY <1>1, <1>2, <1>4, NewReady DEF n
<1>6. Owned(items', Alive(items')) = Owned(items, Alive(items)) + Bit(OwnsName(item)) + Bit(OwnsValue(item))
  BY <1>1, <1>2, <1>4, NewItemCount
<1>7. strings' = Owned(items', Alive(items')) BY <1>1, <1>2, <1>4, <1>6 DEF Bit
<1> QED BY <1>1, <1>5, <1>7, CalledAgain

LEMMA CreateReferenceKeeps == ASSUME Inv, NEW p, CreateReference(p) PROVE Inv'
<1> DEFINE n == NewAddress(items)
           item == [Zeroed EXCEPT !.type = items[p].type, !.ref = TRUE, !.child = items[p].child]
<1>1. /\ job = "idle" /\ HasMemory(items) /\ items' = cJSON_New_Item(items, item) /\ Called
      /\ held' = held \cup {n} /\ strings' = strings /\ Container(p)
  BY DEF CreateReference, MayCall
<1>2. Ready(items, held) /\ strings = Owned(items, Alive(items)) /\ Shape(items) BY <1>1, IdleFacts DEF Ready
<1>3. /\ p \in Alive(items) /\ ~items[p].ref /\ items[p].type \in ItemTypes
      /\ items[p].child \in Alive(items) \cup {NULL}
  BY <1>1, <1>2, ContainerFacts, ItemFields, AliveFacts DEF Shape
<1>4. items[p].child \in Nodes \cup {NULL} BY <1>3 DEF Alive
<1>5. /\ item \in ItemRec /\ item.next = NULL /\ item.prev = NULL /\ item.child = items[p].child
      /\ item.ref = TRUE /\ item.string = NULL /\ item.value = NULL
  BY <1>3, <1>4 DEF Zeroed, ItemRec
<1> HIDE DEF n, item
<1>6. NewItem(items, n, item) BY <1>3, <1>5 DEF NewItem, Owner
<1>7. ~OwnsName(item) /\ ~OwnsValue(item) BY <1>5 DEF OwnsName, OwnsValue
<1>8. Ready(items', held \cup {n}) BY <1>1, <1>2, <1>6, NewReady DEF n
<1>9. Owned(items', Alive(items')) = Owned(items, Alive(items)) + Bit(OwnsName(item)) + Bit(OwnsValue(item))
  BY <1>1, <1>2, <1>6, NewItemCount
<1>10. Owned(items, Alive(items)) \in Nat BY CountNat
<1>11. strings' = Owned(items', Alive(items')) BY <1>1, <1>2, <1>7, <1>9, <1>10 DEF Bit
<1> QED BY <1>1, <1>8, <1>11, CalledAgain

LEMMA AddItemToArrayKeeps == ASSUME Inv, NEW array, NEW item, AddItemToArray(array, item) PROVE Inv'
<1>1. /\ job = "idle" /\ Container(array) /\ item \in held /\ Called
      /\ items' = add_item_to_array(items, array, item)
      /\ held' = held \ {item} /\ strings' = strings
  BY DEF AddItemToArray, MayCall
<1>2. Ready(items, held) /\ strings = Owned(items, Alive(items)) BY <1>1, IdleFacts
<1>3. Relinked(items, items') /\ Ready(items', held') BY <1>1, <1>2, ContainerFacts, AddReady
<1> QED BY <1>1, <1>2, <1>3, RelinkedCount, CalledAgain

LEMMA DetachItemKeeps == ASSUME Inv, NEW parent, NEW item, DetachItem(parent, item) PROVE Inv'
<1>1. /\ job = "idle" /\ Container(parent) /\ item \in Chosen(parent) \ {NULL} /\ Called
      /\ items' = DetachItemViaPointer(items, parent, item)
      /\ held' = held \cup {item} /\ strings' = strings
  BY DEF DetachItem, MayCall
<1>2. Ready(items, held) /\ strings = Owned(items, Alive(items)) /\ Shape(items) BY <1>1, IdleFacts DEF Ready
<1>3. items[parent].child # NULL /\ item \in Run(items, items[parent].child) BY <1>1, <1>2, ChosenFacts
<1>4. \A r \in Alive(items) : items[r].ref => items[r].child # items[parent].child
  BY <1>1, <1>3, ContainerFacts
<1>5. Relinked(items, items') /\ Ready(items', held')
  BY <1>1, <1>2, <1>3, <1>4, ContainerFacts, DetachReady
<1> QED BY <1>1, <1>2, <1>5, RelinkedCount, CalledAgain

LEMMA InsertKeeps == ASSUME Inv, NEW array, NEW which \in Places, NEW t, Insert(array, which, t) PROVE Inv'
<1>1. /\ job = "idle" /\ Container(array) /\ t \in held /\ Called
      /\ items' = InsertItemInArray(items, array, which, t)
      /\ held' = held \ {t} /\ strings' = strings
  BY DEF Insert, MayCall
<1>2. Ready(items, held) /\ strings = Owned(items, Alive(items)) /\ Shape(items) BY <1>1, IdleFacts DEF Ready
<1>3. which \in Nat BY CardinalityNat DEF Places
<1>4. get_array_item(items, array, which) # NULL =>
        /\ items[array].child # NULL
        /\ get_array_item(items, array, which) \in Run(items, items[array].child)
  BY <1>1, <1>2, <1>3, ContainerFacts, GotFromArray
<1>5. Relinked(items, items') /\ Ready(items', held')
  BY <1>1, <1>2, <1>4, ContainerFacts, InsertReady
<1> QED BY <1>1, <1>2, <1>5, RelinkedCount, CalledAgain

LEMMA RenamedCount ==
  ASSUME NEW h, Typed(h), NEW x \in Alive(h), NEW name \in StringTokens \cup {NULL}, NEW const \in BOOLEAN,
         NEW g, g[x].string = name, g[x].const = const, g[x].ref = h[x].ref, g[x].value = h[x].value,
         Alive(g) = Alive(h), \A y \in Alive(h) \ {x} : g[y] = h[y]
  PROVE  /\ Owned(g, Alive(g)) =
              Owned(h, Alive(h)) + Bit(~const /\ name # NULL) - Bit(OwnsName(h[x]))
         /\ name # NULL => Owned(g, Alive(g)) = Owned(h, Alive(h)) + NameChange(h[x], const)
<1>1. Alive(h) \in SUBSET Nodes BY DEF Alive
<1>2. /\ Owned(h, Alive(h)) \in Nat
      /\ Owned(g, Alive(h)) = Owned(h, Alive(h)) + Bit(OwnsName(g[x])) - Bit(OwnsName(h[x]))
                              + Bit(OwnsValue(g[x])) - Bit(OwnsValue(h[x]))
  BY <1>1, OwnedChanged
<1>3. (OwnsName(g[x]) <=> ~const /\ name # NULL) /\ (OwnsValue(g[x]) <=> OwnsValue(h[x]))
  BY DEF OwnsName, OwnsValue
<1>4. Owned(g, Alive(g)) = Owned(h, Alive(h)) + Bit(~const /\ name # NULL) - Bit(OwnsName(h[x]))
  BY <1>2, <1>3 DEF Bit
<1>5. name # NULL => Bit(~const /\ name # NULL) - Bit(OwnsName(h[x])) = NameChange(h[x], const)
  BY DEF Bit, NameChange
<1>6. Bit(~const /\ name # NULL) \in Int /\ Bit(OwnsName(h[x])) \in Int BY DEF Bit
<1> QED BY <1>2, <1>4, <1>5, <1>6

LEMMA AddItemToObjectKeeps ==
  ASSUME Inv, NEW object, NEW name \in Keys, NEW item, NEW const \in BOOLEAN,
         AddItemToObject(object, name, item, const)
  PROVE  Inv'
<1> DEFINE h == [items EXCEPT ![item] = Renamed(@, name, const)]
<1>1. /\ job = "idle" /\ Container(object) /\ item \in held /\ Called
      /\ items' = add_item_to_array(h, object, item)
      /\ held' = held \ {item} /\ strings' = strings + NameChange(items[item], const)
  BY DEF AddItemToObject, MayCall
<1>2. /\ Ready(items, held) /\ strings = Owned(items, Alive(items)) /\ Typed(items) /\ item \in Alive(items)
      /\ item \in Tops(items) /\ object \in Alive(items) /\ ~items[object].ref
      /\ name \in StringTokens \cup {NULL} /\ name # NULL
  BY <1>1, IdleFacts, ReadyFields, ContainerFacts, KeyFacts
<1> HIDE DEF h
<1>3. PICK k : k = h OBVIOUS
<1>4. k = WithName(items, item, name, const) BY <1>3 DEF h, WithName
<1>5. /\ Ready(k, held) /\ Alive(k) = Alive(items)
      /\ \A y \in Alive(items) : /\ k[y].ref = items[y].ref /\ k[y].child = items[y].child
                                 /\ k[y].value = items[y].value /\ k[y].next = items[y].next
      /\ k[item].string = name /\ k[item].const = const
      /\ \A y \in Alive(items) \ {item} : k[y] = items[y]
  BY <1>1, <1>2, <1>4, RenamedReady
<1>6. strings' = Owned(k, Alive(k)) BY <1>1, <1>2, <1>5, RenamedCount
<1>7. object \in Alive(k) /\ ~k[object].ref BY <1>2, <1>5
<1>8. Relinked(k, items') /\ Ready(items', held') BY <1>1, <1>3, <1>5, <1>7, AddReady
<1> QED BY <1>1, <1>6, <1>8, RelinkedCount, CalledAgain

(* A new item goes to the end of a list. *)
LEMMA NewMember ==
  ASSUME NEW h, NEW hd, Ready(h, hd), HasMemory(h), NEW p \in Alive(h), ~h[p].ref,
         NEW item, NewItem(h, NewAddress(h), item),
         NEW g, g = add_item_to_array(cJSON_New_Item(h, item), p, NewAddress(h))
  PROVE  /\ Ready(g, hd)
         /\ Owned(g, Alive(g)) = Owned(h, Alive(h)) + Bit(OwnsName(item)) + Bit(OwnsValue(item))
<1> DEFINE n == NewAddress(h)
           new == cJSON_New_Item(h, item)
<1>1. PICK k : k = new OBVIOUS
<1>2. g = add_item_to_array(k, p, n) BY <1>1
<1>3. /\ n \notin hd /\ Ready(k, hd \cup {n})
      /\ Alive(k) = Alive(h) \cup {n} /\ \A x \in Alive(h) : k[x] = h[x]
  BY <1>1, NewReady
<1>7. Owned(k, Alive(k)) = Owned(h, Alive(h)) + Bit(OwnsName(item)) + Bit(OwnsValue(item))
  BY <1>1, NewItemCount DEF Ready
<1> HIDE DEF n, new
<1>4. p \in Alive(k) /\ ~k[p].ref /\ n \in hd \cup {n} /\ (hd \cup {n}) \ {n} = hd BY <1>3
<1>5. /\ Relinked(k, add_item_to_array(k, p, n))
      /\ Ready(add_item_to_array(k, p, n), (hd \cup {n}) \ {n})
  BY <1>3, <1>4, AddReady
<1>6. Relinked(k, g) /\ Ready(g, hd) BY <1>2, <1>4, <1>5
<1> QED BY <1>6, <1>7, RelinkedCount

LEMMA AddNewToObjectKeeps ==
  ASSUME Inv, NEW object, NEW name \in Keys, NEW type \in Types, AddNewToObject(object, name, type)
  PROVE  Inv'
<1> DEFINE n == NewAddress(items)
           item == [Made(type, n) EXCEPT !.string = name]
           h == cJSON_New_Item(items, item)
<1>1. /\ job = "idle" /\ HasMemory(items) /\ Container(object) /\ Called
      /\ items' = add_item_to_array(h, object, n)
      /\ held' = held /\ strings' = strings + (IF type = "String" THEN 2 ELSE 1)
  BY DEF AddNewToObject, MayCall
<1>2. /\ Ready(items, held) /\ strings = Owned(items, Alive(items)) /\ strings \in Nat
      /\ object \in Alive(items) /\ ~items[object].ref
  BY <1>1, IdleFacts, ContainerFacts
<1>3. n \in Nodes BY <1>1, FreeAddress
<1> HIDE DEF n
<1>4. Made(type, n).const = FALSE BY DEF Made, Zeroed
<1>5. NewItem(items, n, item) /\ OwnsName(item) /\ (OwnsValue(item) <=> type = "String")
  BY <1>3, <1>4, MadeFacts, NamedFacts
<1> HIDE DEF item
<1>6. items' = add_item_to_array(cJSON_New_Item(items, item), object, NewAddress(items)) BY <1>1 DEF n
<1>7. /\ Ready(items', held)
      /\ Owned(items', Alive(items')) = Owned(items, Alive(items)) + Bit(OwnsName(item)) + Bit(OwnsValue(item))
  BY <1>1, <1>2, <1>5, <1>6, NewMember DEF n
<1>8. strings' = Owned(items', Alive(items')) BY <1>1, <1>2, <1>5, <1>7 DEF Bit
<1> QED BY <1>1, <1>7, <1>8, CalledAgain

(* A reference shows what another item has, and owns nothing until it has a name. *)
LEMMA ReferenceFacts ==
  ASSUME NEW h, Shape(h), NEW x \in Alive(h), NEW n
  PROVE  /\ NewItem(h, n, create_reference(h[x]))
         /\ create_reference(h[x]).ref = TRUE /\ create_reference(h[x]).string = NULL
         /\ ~OwnsName(create_reference(h[x])) /\ ~OwnsValue(create_reference(h[x]))
<1> DEFINE a == create_reference(h[x])
<1>1. /\ h[x] \in ItemRec /\ h[x].child \in Alive(h) \cup {NULL}
      /\ h[x].value \in Alive(h) \cup {NULL}
  BY ItemFields, AliveFacts DEF Shape
<1>2. /\ a \in ItemRec /\ a.next = NULL /\ a.prev = NULL /\ a.child = h[x].child
      /\ a.ref = TRUE /\ a.string = NULL /\ a.value = h[x].value
  BY <1>1 DEF create_reference, ItemRec
<1> HIDE DEF a
<1>3. h[x].child # NULL => \E p \in Alive(h) : Owner(h, p, h[x].child)
  <2>1. CASE h[x].ref BY <2>1 DEF Shape, Sharing
  <2>2. CASE ~h[x].ref BY <2>2 DEF Owner
  <2> QED BY <2>1, <2>2
<1>4. NewItem(h, n, a) BY <1>1, <1>2, <1>3 DEF NewItem
<1>5. ~OwnsName(a) /\ ~OwnsValue(a) BY <1>2 DEF OwnsName, OwnsValue
<1> QED BY <1>2, <1>4, <1>5 DEF a

LEMMA NamedReferenceFacts ==
  ASSUME NEW h, NEW n, NEW a, NewItem(h, n, a), NEW name \in Keys
  PROVE  /\ NewItem(h, n, Renamed(a, name, FALSE)) /\ OwnsName(Renamed(a, name, FALSE))
         /\ (OwnsValue(Renamed(a, name, FALSE)) <=> OwnsValue(a))
<1> DEFINE b == Renamed(a, name, FALSE)
<1>1. name # NULL /\ name \in StringTokens /\ a \in ItemRec BY KeyFacts DEF NewItem
<1>2. /\ b \in ItemRec /\ b.next = a.next /\ b.prev = a.prev /\ b.child = a.child /\ b.ref = a.ref
      /\ b.const = FALSE /\ b.string = name /\ b.value = a.value
  BY <1>1 DEF ItemRec, Renamed
<1> HIDE DEF b
<1>3. NewItem(h, n, b) BY <1>2 DEF NewItem
<1>4. OwnsName(b) /\ (OwnsValue(b) <=> OwnsValue(a)) BY <1>1, <1>2 DEF OwnsName, OwnsValue
<1> QED BY <1>3, <1>4 DEF b

LEMMA AddItemReferenceToArrayKeeps ==
  ASSUME Inv, NEW array, NEW item \in Live, AddItemReferenceToArray(array, item) PROVE Inv'
<1> DEFINE reference == create_reference(items[item])
<1>1. /\ job = "idle" /\ HasMemory(items) /\ Container(array) /\ Called
      /\ items' = add_item_to_array(cJSON_New_Item(items, reference), array, NewAddress(items))
      /\ held' = held /\ strings' = strings
  BY DEF AddItemReferenceToArray, MayCall
<1>2. /\ Ready(items, held) /\ strings = Owned(items, Alive(items)) /\ strings \in Nat /\ Shape(items)
      /\ array \in Alive(items) /\ ~items[array].ref /\ item \in Alive(items)
  BY <1>1, IdleFacts, ContainerFacts, LiveIsAlive DEF Ready
<1>3. NewItem(items, NewAddress(items), reference) /\ ~OwnsName(reference) /\ ~OwnsValue(reference)
  BY <1>2, ReferenceFacts
<1> HIDE DEF reference
<1>4. /\ Ready(items', held)
      /\ Owned(items', Alive(items')) =
           Owned(items, Alive(items)) + Bit(OwnsName(reference)) + Bit(OwnsValue(reference))
  BY <1>1, <1>2, <1>3, NewMember
<1>5. strings' = Owned(items', Alive(items')) BY <1>1, <1>2, <1>3, <1>4 DEF Bit
<1> QED BY <1>1, <1>4, <1>5, CalledAgain

LEMMA AddItemReferenceToObjectKeeps ==
  ASSUME Inv, NEW object, NEW name \in Keys, NEW item \in Live, AddItemReferenceToObject(object, name, item)
  PROVE  Inv'
<1> DEFINE n == NewAddress(items)
           reference == create_reference(items[item])
           named == Renamed(reference, name, FALSE)
<1>1. /\ job = "idle" /\ HasMemory(items) /\ Container(object) /\ Called /\ held' = held
      /\ \/ /\ items' = add_item_to_array(cJSON_New_Item(items, named), object, n)
            /\ strings' = strings + 1
         \/ /\ items' = cJSON_New_Item(items, reference)
            /\ strings' = strings
  BY DEF AddItemReferenceToObject, MayCall
<1>2. /\ Ready(items, held) /\ strings = Owned(items, Alive(items)) /\ strings \in Nat /\ Shape(items)
      /\ object \in Alive(items) /\ ~items[object].ref /\ item \in Alive(items)
  BY <1>1, IdleFacts, ContainerFacts, LiveIsAlive DEF Ready
<1>3. /\ NewItem(items, n, reference) /\ reference.ref = TRUE /\ reference.string = NULL
      /\ ~OwnsName(reference) /\ ~OwnsValue(reference)
      /\ NewItem(items, n, named) /\ OwnsName(named) /\ ~OwnsValue(named)
  BY <1>2, ReferenceFacts, NamedReferenceFacts
<1> HIDE DEF n, named, reference
<1>4. CASE items' = add_item_to_array(cJSON_New_Item(items, named), object, n) /\ strings' = strings + 1
  <2>1. /\ Ready(items', held)
        /\ Owned(items', Alive(items')) =
             Owned(items, Alive(items)) + Bit(OwnsName(named)) + Bit(OwnsValue(named))
    BY <1>1, <1>2, <1>3, <1>4, NewMember DEF n
  <2>2. strings' = Owned(items', Alive(items')) BY <1>2, <1>3, <1>4, <2>1 DEF Bit
  <2> QED BY <1>1, <2>1, <2>2, CalledAgain
<1>5. CASE items' = cJSON_New_Item(items, reference) /\ strings' = strings
  <2>1. items' = cJSON_New_Item(items, reference) /\ NewItem(items, NewAddress(items), reference)
    BY <1>3, <1>5 DEF n
  <2>2. Ready(items', held) BY <2>1, <1>1, <1>2, <1>3, NewForgotten
  <2>3. Owned(items', Alive(items')) =
          Owned(items, Alive(items)) + Bit(OwnsName(reference)) + Bit(OwnsValue(reference))
    BY <2>1, <1>1, <1>2, NewItemCount
  <2>4. strings' = Owned(items', Alive(items')) BY <1>2, <1>3, <1>5, <2>3 DEF Bit
  <2> QED BY <1>1, <2>2, <2>4, CalledAgain
<1> QED BY <1>1, <1>4, <1>5

LEMMA DeleteKeeps == ASSUME Inv, NEW item, Delete(item) PROVE Inv'
<1>1. /\ job = "idle" /\ item \in held /\ Called /\ items' = cJSON_Delete(items, item)
      /\ \A r \in References \ Doomed(items, item) :
           items[r].child \notin Doomed(items, item) /\ items[r].value \notin Doomed(items, item)
      /\ strings' = strings - Owned(items, Doomed(items, item)) /\ held' = held \ {item}
  BY DEF Delete, MayCall
<1>2. Ready(items, held) /\ strings = Owned(items, Alive(items)) BY <1>1, IdleFacts
<1>3. \A r \in Alive(items) \ Doomed(items, item) :
        items[r].ref => items[r].child \notin Doomed(items, item) /\ items[r].value \notin Doomed(items, item)
  BY <1>1, LiveIsAlive DEF References
<1>4. /\ Ready(items', held')
      /\ Owned(items', Alive(items')) = Owned(items, Alive(items)) - Owned(items, Doomed(items, item))
  BY <1>1, <1>2, <1>3, DeleteReady
<1> QED BY <1>1, <1>2, <1>4, CalledAgain

(* No reference shows any of D. *)
Unshown(h, D) == \A r \in Alive(h) : h[r].ref => h[r].child \notin D /\ h[r].value \notin D

(* t takes the place of c, and c goes with all it leads to. *)
LEMMA ReplaceAndDelete ==
  ASSUME NEW h, NEW hd, Ready(h, hd), NEW p \in Alive(h), ~h[p].ref, h[p].child # NULL,
         \A r \in Alive(h) : h[r].ref => h[r].child # h[p].child, NEW c \in Run(h, h[p].child),
         NEW t \in hd, NEW k, k = ReplaceItem(h, p, c, t),
         Unshown(h, Doomed(k, c))
  PROVE  /\ Ready(cJSON_Delete(k, c), hd \ {t})
         /\ Owned(cJSON_Delete(k, c), Alive(cJSON_Delete(k, c)))
              = Owned(h, Alive(h)) - Owned(k, Doomed(k, c))
         /\ Owned(k, Doomed(k, c)) \in Nat
<1>1. /\ Relinked(h, k) /\ Ready(k, (hd \ {t}) \cup {c})
      /\ \A x \in Alive(h) : h[x].ref => k[x].child = h[x].child
  BY ReplaceReady
<1>2. c \notin hd
  <2>1. Shape(h) /\ hd \subseteq Tops(h) /\ h[p].child \in Alive(h) /\ Owner(h, p, h[p].child)
    BY ReadyFields, AliveFacts DEF Owner
  <2> QED BY <2>1, TopAlone
<1>3. ((hd \ {t}) \cup {c}) \ {c} = hd \ {t} /\ c \in (hd \ {t}) \cup {c} BY <1>2
<1>4. \A r \in Alive(k) \ Doomed(k, c) :
        k[r].ref => k[r].child \notin Doomed(k, c) /\ k[r].value \notin Doomed(k, c)
  BY <1>1 DEF Unshown, Relinked, SameData
<1>5. Owned(k, Alive(k)) = Owned(h, Alive(h)) BY <1>1, RelinkedCount
<1>6. PICK hd2 : hd2 = (hd \ {t}) \cup {c} OBVIOUS
<1>7. /\ Ready(cJSON_Delete(k, c), hd2 \ {c})
      /\ Owned(cJSON_Delete(k, c), Alive(cJSON_Delete(k, c)))
           = Owned(k, Alive(k)) - Owned(k, Doomed(k, c))
  BY <1>1, <1>3, <1>4, <1>6, DeleteReady
<1>8. Owned(k, Doomed(k, c)) \in Nat
  <2>1. Shape(k) /\ c \in Alive(k) BY <1>1, <1>3, ReadyFields
  <2>2. Doomed(k, c) \in SUBSET Nodes BY <2>1, DoomedFacts DEF Gathered, Alive
  <2>3. {} \in SUBSET Doomed(k, c) OBVIOUS
  <2> QED BY <2>2, <2>3, OwnedSplit
<1> QED BY <1>3, <1>5, <1>6, <1>7, <1>8

LEMMA ReplaceItemInArrayKeeps ==
  ASSUME Inv, NEW array, NEW which \in Places, NEW t, ReplaceItemInArray(array, which, t) PROVE Inv'
<1> DEFINE c == get_array_item(items, array, which)
           h == ReplaceItem(items, array, c, t)
<1>1. /\ job = "idle" /\ Container(array) /\ t \in held /\ Called /\ c # NULL
      /\ Unshared(Doomed(h, c)) /\ items' = cJSON_Delete(h, c)
      /\ strings' = strings - Owned(h, Doomed(h, c)) /\ held' = held \ {t}
  BY DEF ReplaceItemInArray, MayCall
<1>2. Ready(items, held) /\ strings = Owned(items, Alive(items)) /\ Shape(items) BY <1>1, IdleFacts DEF Ready
<1>3. which \in Nat BY CardinalityNat DEF Places
<1>4. items[array].child # NULL /\ c \in Run(items, items[array].child)
  BY <1>1, <1>2, <1>3, ContainerFacts, GotFromArray
<1>5. \A r \in Alive(items) : items[r].ref => items[r].child # items[array].child
  BY <1>1, <1>4, ContainerFacts
<1>6. \A r \in Alive(items) :
        items[r].ref => items[r].child \notin Doomed(h, c) /\ items[r].value \notin Doomed(h, c)
  BY <1>1, LiveIsAlive DEF Unshared, References
<1>7. array \in Alive(items) /\ ~items[array].ref BY <1>1, ContainerFacts
<1>8. PICK d : d = c OBVIOUS
<1>9. PICK k : k = ReplaceItem(items, array, d, t) OBVIOUS
<1>10. k = h BY <1>8, <1>9
<1> HIDE DEF h, c
<1>11. Unshown(items, Doomed(k, d)) BY <1>6, <1>8, <1>10 DEF Unshown
<1>12. items[array].child # NULL /\ d \in Run(items, items[array].child) /\ t \in held
  BY <1>1, <1>4, <1>8
<1>13. Ready(items, held) BY <1>2
<1>14. /\ Ready(cJSON_Delete(k, d), held \ {t})
       /\ Owned(cJSON_Delete(k, d), Alive(cJSON_Delete(k, d)))
            = Owned(items, Alive(items)) - Owned(k, Doomed(k, d))
       /\ Owned(k, Doomed(k, d)) \in Nat
  BY <1>5, <1>7, <1>9, <1>11, <1>12, <1>13, ReplaceAndDelete
<1> QED BY <1>1, <1>2, <1>8, <1>10, <1>14, CalledAgain

LEMMA ReplaceItemInObjectKeeps ==
  ASSUME Inv, NEW object, NEW name \in Keys, NEW t, NEW sensitive,
         ReplaceItemInObject(object, name, t, sensitive)
  PROVE  Inv'
<1> DEFINE h0 == [items EXCEPT ![t] = Renamed(@, name, FALSE)]
           c == get_object_item(h0, object, name, sensitive)
           h == IF c = NULL THEN h0 ELSE ReplaceItem(h0, object, c, t)
           doomed == IF c = NULL THEN {} ELSE Doomed(h, c)
           change == NameChange(items[t], FALSE)
<1>1. /\ job = "idle" /\ Container(object) /\ t \in held /\ Called /\ Unshared(doomed)
      /\ items' = IF c = NULL THEN h0 ELSE cJSON_Delete(h, c)
      /\ strings' = strings + change - Owned(h, doomed)
      /\ held' = IF c = NULL THEN held ELSE held \ {t}
  BY DEF ReplaceItemInObject, MayCall
<1>2. /\ Ready(items, held) /\ strings = Owned(items, Alive(items)) /\ strings \in Nat /\ Shape(items)
      /\ t \in Alive(items) /\ Typed(items) /\ name \in StringTokens \cup {NULL} /\ name # NULL
      /\ object \in Alive(items) /\ ~items[object].ref
  BY <1>1, IdleFacts, ReadyFields, ContainerFacts, KeyFacts
<1> DEFINE constant == FALSE
<1>3. PICK k : k = WithName(items, t, name, constant) OBVIOUS
<1>4. k = h0 BY <1>3 DEF WithName
<1>10. constant \in BOOLEAN /\ constant = FALSE OBVIOUS
<1> HIDE DEF constant
<1> HIDE DEF h0
<1>5. /\ Ready(k, held) /\ Alive(k) = Alive(items)
      /\ \A y \in Alive(items) : /\ k[y].ref = items[y].ref /\ k[y].child = items[y].child
                                 /\ k[y].value = items[y].value /\ k[y].next = items[y].next
      /\ k[t].string = name /\ k[t].const = constant
      /\ \A y \in Alive(items) \ {t} : k[y] = items[y]
  BY <1>1, <1>2, <1>3, <1>10, RenamedReady
<1>6. Owned(k, Alive(k)) = strings + change
  <2>1. Owned(k, Alive(k)) = Owned(items, Alive(items)) + NameChange(items[t], constant)
    BY <1>2, <1>5, <1>10, RenamedCount
  <2> QED BY <2>1, <1>2 DEF constant
<1>11. Owned(h, doomed) \in Int => strings' = Owned(k, Alive(k)) - Owned(h, doomed)
  <2>1. change \in Int BY DEF NameChange
  <2> HIDE DEF change, h, doomed
  <2>2. strings' = strings + change - Owned(h, doomed) BY <1>1
  <2> QED BY <2>1, <2>2, <1>2, <1>6
<1> HIDE DEF change
<1>7. Owned(k, Alive(k)) \in Nat BY CountNat
<1>8. CASE c = NULL
  <2>3. h = k /\ doomed = {} BY <1>4, <1>8
  <2> HIDE DEF h, doomed
  <2>2. Owned(k, {}) = 0
    <3>1. {x \in {} : OwnsName(k[x])} = {} /\ {x \in {} : OwnsValue(k[x])} = {} OBVIOUS
    <3> QED BY <3>1, FS_EmptySet DEF Owned
  <2>1. items' = k /\ held' = held /\ strings' = Owned(k, Alive(k)) - Owned(k, {})
    BY <2>2, <2>3, <1>1, <1>4, <1>8, <1>11
  <2> QED BY <2>1, <2>2, <1>1, <1>5, <1>7, CalledAgain
<1>9. CASE c # NULL
  <2>1. PICK d : d = c OBVIOUS
  <2>2. d = get_object_item(k, object, name, sensitive) BY <2>1, <1>4
  <2>3. PICK g : g = ReplaceItem(k, object, d, t) OBVIOUS
  <2>4. g = h BY <2>1, <2>3, <1>4, <1>9
  <2>5. doomed = Doomed(g, d) BY <2>1, <2>4, <1>9
  <2> HIDE DEF c, h, doomed
  <2>6. object \in Alive(k) /\ ~k[object].ref /\ Shape(k) BY <1>2, <1>5 DEF Ready
  <2>7. k[object].child # NULL /\ d \in Run(k, k[object].child)
    BY <2>1, <2>2, <2>6, <1>9, GotFromObject
  <2>8. \A r \in Alive(k) : k[r].ref => k[r].child # k[object].child
    BY <2>7, <1>1, <1>2, <1>5, ContainerFacts
  <2>9. Unshown(k, Doomed(g, d))
    BY <2>5, <1>1, <1>5, LiveIsAlive DEF Unshared, References, Unshown
  <2>13. Ready(k, held) /\ t \in held BY <1>1, <1>5
  <2>10. /\ Ready(cJSON_Delete(g, d), held \ {t})
         /\ Owned(cJSON_Delete(g, d), Alive(cJSON_Delete(g, d)))
              = Owned(k, Alive(k)) - Owned(g, Doomed(g, d))
         /\ Owned(g, Doomed(g, d)) \in Nat
    BY <2>3, <2>6, <2>7, <2>8, <2>9, <2>13, ReplaceAndDelete
  <2>11. items' = cJSON_Delete(g, d) /\ held' = held \ {t} BY <2>1, <2>4, <1>1, <1>9
  <2>12. strings' = Owned(items', Alive(items')) BY <2>4, <2>5, <2>10, <2>11, <1>11
  <2> QED BY <2>10, <2>11, <2>12, <1>1, CalledAgain
<1> QED BY <1>8, <1>9

LEMMA ReplaceItemInObjectFailsKeeps ==
  ASSUME Inv, NEW object, NEW t, ReplaceItemInObjectFails(object, t) PROVE Inv'
<1>1. /\ job = "idle" /\ t \in held /\ Called
      /\ items' = [items EXCEPT ![t].string = NULL]
      /\ strings' = strings - (IF OwnsName(items[t]) THEN 1 ELSE 0) /\ held' = held
  BY DEF ReplaceItemInObjectFails, MayCall
<1>2. /\ Ready(items, held) /\ strings = Owned(items, Alive(items)) /\ strings \in Nat
      /\ t \in Alive(items) /\ Typed(items)
  BY <1>1, IdleFacts, ReadyFields
<1>3. t \in Nodes /\ items[t] \in ItemRec /\ items[t].const \in BOOLEAN BY <1>2, ItemFields
<1>4. PICK const \in BOOLEAN : const = items[t].const BY <1>3
<1> DEFINE k == WithName(items, t, NULL, const)
<1>5. items' = k
  <2>1. [items[t] EXCEPT !.string = NULL] = [items[t] EXCEPT !.string = NULL, !.const = const]
    BY <1>3, <1>4 DEF ItemRec
  <2> QED BY <2>1, <1>1 DEF WithName, Renamed
<1>9. PICK g, name : g = k /\ name = NULL OBVIOUS
<1>10. g = WithName(items, t, name, const) /\ name \in StringTokens \cup {NULL} BY <1>9
<1> HIDE DEF k
<1>11. Ready(items, held) /\ t \in Alive(items) /\ t \in held BY <1>1, <1>2
<1>6. /\ Ready(g, held) /\ Alive(g) = Alive(items)
      /\ \A y \in Alive(items) : /\ g[y].ref = items[y].ref /\ g[y].child = items[y].child
                                 /\ g[y].value = items[y].value /\ g[y].next = items[y].next
      /\ g[t].string = name /\ g[t].const = const
      /\ \A y \in Alive(items) \ {t} : g[y] = items[y]
  BY <1>4, <1>10, <1>11, RenamedReady
<1>7. Owned(g, Alive(g))
        = Owned(items, Alive(items)) + Bit(~const /\ name # NULL) - Bit(OwnsName(items[t]))
  BY <1>2, <1>6, <1>10, RenamedCount
<1>8. strings' = Owned(g, Alive(g)) BY <1>1, <1>2, <1>7, <1>9 DEF Bit
<1> QED BY <1>1, <1>5, <1>6, <1>8, <1>9, CalledAgain


-----------------------------------------------------------------------------
(***************************************************************************)
(* What a step of a longer call makes of the heap.  The lists of the items *)
(* in open are not closed yet, roots have no owner yet, and what is being  *)
(* built lies in C.                                                        *)
(***************************************************************************)
Works(h, open, hd, roots, C) ==
  /\ Shape(h) /\ Rings(h, open) /\ Placed(h, hd, roots)
  /\ Island(h, C) /\ roots \subseteq C /\ hd \cap C = {}

LEMMA WorksFields ==
  ASSUME NEW h, NEW open, NEW hd, NEW roots, NEW C, Works(h, open, hd, roots, C)
  PROVE  /\ Shape(h) /\ Typed(h) /\ roots \subseteq Tops(h) /\ hd \subseteq Tops(h)
         /\ Tops(h) \subseteq Alive(h) /\ Tops(h) \subseteq Starts(h) /\ Starts(h) \subseteq Alive(h)
         /\ C \subseteq Alive(h) /\ NULL \notin Alive(h) /\ NULL \notin C
         /\ \A x \in C : ~h[x].ref
BY NullIsNoNode DEF Works, Placed, Shape, Tops, Starts, Island, Alive

(* What a list in C leads to is in C. *)
LEMMA IslandRun ==
  ASSUME NEW h, Shape(h), NEW C, Island(h, C), NEW c \in C
  PROVE  Run(h, c) \subseteq C
<1>1. C \in SUBSET Nodes /\ c \in Alive(h) BY DEF Island, Alive
<1>2. NextClosed(h, C) BY DEF NextClosed, Island
<1> QED BY <1>1, <1>2, RunFacts

(* A new item that is no reference is the root of what is built next. *)
Born(h, g, n, item) ==
  /\ HasMemory(h) /\ n = NewAddress(h) /\ NewItem(h, n, item) /\ ~item.ref /\ item.child = NULL
  /\ g = cJSON_New_Item(h, item)
LEMMA WorkNew ==
  ASSUME NEW h, NEW open, NEW hd, NEW roots, NEW C, Works(h, open, hd, roots, C),
         NEW n, NEW item, NEW g, Born(h, g, n, item)
  PROVE  /\ Works(g, open, hd, roots \cup {n}, C \cup {n})
         /\ n \in Nodes /\ n \notin Alive(h) /\ n # NULL /\ Alive(g) = Alive(h) \cup {n} /\ g[n] = item
         /\ \A x \in Alive(h) : g[x] = h[x] /\ x # n
         /\ \A c \in Alive(h) : Run(h, c) \subseteq Run(g, c)
<1>1. /\ Shape(h) /\ Tops(h) \subseteq Alive(h) /\ C \subseteq Alive(h)
      /\ \A x \in C : ~h[x].ref
      /\ HasMemory(h) /\ n = NewAddress(h) /\ NewItem(h, n, item) /\ ~item.ref /\ item.child = NULL
      /\ g = cJSON_New_Item(h, item)
  BY WorksFields DEF Born
<1>2. /\ n \notin Alive(h) /\ n \in Nodes /\ n # NULL
      /\ Alive(g) = Alive(h) \cup {n} /\ g[n] = item /\ \A x \in Alive(h) : g[x] = h[x] /\ x # n
      /\ Shape(g) /\ Tops(g) = Tops(h) \cup {n}
      /\ \A c \in Alive(h) : Run(h, c) \subseteq Run(g, c)
      /\ \A o : Rings(h, o) => Rings(g, o)
  BY <1>1, NewShaped
<1>3. Rings(g, open) BY <1>2 DEF Works
<1>4. Placed(g, hd, roots \cup {n})
  <2>1. /\ hd \cup roots \subseteq Tops(h) /\ hd \cap roots = {}
        /\ \A x \in Tops(h) \ (hd \cup roots) : h[x].ref /\ h[x].string = NULL /\ h[x].next = NULL
        /\ \A x \in hd : h[x].next = NULL
    BY DEF Works, Placed
  <2> QED BY <1>1, <1>2, <2>1 DEF Placed
<1>5. Island(g, C \cup {n})
  <2>1. /\ C \subseteq Alive(h)
        /\ \A x \in C : ~h[x].ref /\ h[x].next \in C \cup {NULL} /\ h[x].child \in C \cup {NULL}
        /\ \A x \in Alive(h) \ C : h[x].next \notin C /\ h[x].child \notin C /\ h[x].value \notin C
    BY DEF Works, Island
  <2>2. \A x \in Alive(h) : h[x].next # n /\ h[x].child # n /\ h[x].value # n
    BY <1>1, <1>2, AliveFacts
  <2>3. item.next = NULL BY <1>1 DEF NewItem
  <2> QED BY <1>1, <1>2, <2>1, <2>2, <2>3 DEF Island
<1>6. roots \cup {n} \subseteq C \cup {n} /\ hd \cap (C \cup {n}) = {}
  <2>1. roots \subseteq C /\ hd \cap C = {} /\ hd \subseteq Alive(h) BY WorksFields DEF Works
  <2> QED BY <2>1, <1>2
<1> QED BY <1>2, <1>3, <1>4, <1>5, <1>6 DEF Works

(* A root becomes the first child of an open item. *)
Adopted(h, g, open, roots, C, p, t) ==
  p \in C /\ p \in open /\ h[p].child = NULL /\ t \in roots /\ ChildSet(h, g, p, t)
LEMMA WorkSetChild ==
  ASSUME NEW h, NEW open, NEW hd, NEW roots, NEW C, Works(h, open, hd, roots, C),
         NEW p, NEW t, NEW g, Adopted(h, g, open, roots, C, p, t)
  PROVE  /\ Works(g, open, hd, roots \ {t}, C) /\ Relinked(h, g)
         /\ \A c : Run(g, c) = Run(h, c)
<1>1. /\ Shape(h) /\ Tops(h) \subseteq Alive(h) /\ C \subseteq Alive(h) /\ ~h[p].ref
      /\ t \in Tops(h) /\ p \in Alive(h) /\ t \in C /\ t \in roots
      /\ p \in C /\ p \in open /\ h[p].child = NULL
  BY WorksFields DEF Works, Adopted
<1>2. /\ Relinked(h, g) /\ Alive(g) = Alive(h)
      /\ \A x \in Alive(h) : /\ g[x].next = h[x].next /\ g[x].prev = h[x].prev
                             /\ g[x].child = IF x = p THEN t ELSE h[x].child
  BY DEF ChildSet, Relinked, Adopted
<1>3. /\ Shape(g) /\ Tops(g) = Tops(h) \ {t} /\ \A c : Run(g, c) = Run(h, c)
      /\ \A q \in Alive(h) \ {p} : ~h[q].ref /\ Ring(h, q) => Ring(g, q)
  BY <1>1, <1>2, SetChildShape
<1>4. \A x \in Alive(h) : g[x].ref = h[x].ref /\ g[x].string = h[x].string /\ g[x].value = h[x].value
  BY <1>2 DEF Relinked, SameData
<1>5. Rings(g, open) BY <1>1, <1>2, <1>3, <1>4 DEF Works, Rings
<1>6. Placed(g, hd, roots \ {t}) BY <1>1, <1>2, <1>3, <1>4 DEF Works, Placed
<1>7. Island(g, C) BY <1>1, <1>2, <1>4 DEF Works, Island
<1> QED BY <1>2, <1>3, <1>5, <1>6, <1>7 DEF Works

(* No list that is closed ends with l. *)
NoLast(h, open, l) ==
  \A q \in Alive(h) \ open : ~h[q].ref /\ h[q].child # NULL => h[h[q].child].prev # l

(* A root goes behind the last item of a list that is not closed yet. *)
Appended(h, g, open, roots, C, l, t) ==
  /\ l \in C /\ h[l].next = NULL /\ t \in roots /\ h[t].next = NULL /\ t # l
  /\ NoLast(h, open, l) /\ g = suffix_object(h, l, t)
LEMMA WorkAppend ==
  ASSUME NEW h, NEW open, NEW hd, NEW roots, NEW C, Works(h, open, hd, roots, C),
         NEW l, NEW t, NEW g, Appended(h, g, open, roots, C, l, t)
  PROVE  /\ Works(g, open, hd, roots \ {t}, C) /\ Relinked(h, g)
         /\ \A x \in Alive(h) : /\ g[x].next = IF x = l THEN t ELSE h[x].next
                                /\ g[x].child = h[x].child
         /\ \A c \in Alive(h) : /\ Run(h, c) \subseteq Run(g, c)
                                /\ l \in Run(h, c) => t \in Run(g, c)
<1>1. /\ Shape(h) /\ Typed(h) /\ Tops(h) \subseteq Alive(h) /\ C \subseteq Alive(h) /\ ~h[l].ref
      /\ t \in Tops(h) /\ l \in Alive(h) /\ t \in C /\ t \in Alive(h) /\ l \notin hd
      /\ l \in C /\ h[l].next = NULL /\ t \in roots /\ h[t].next = NULL /\ t # l
      /\ NoLast(h, open, l) /\ g = suffix_object(h, l, t)
  BY WorksFields DEF Works, Appended
<1>2. /\ Relinked(h, g)
      /\ \A x \in Alive(h) : /\ g[x].next = IF x = l THEN t ELSE h[x].next
                             /\ g[x].prev = IF x = t THEN l ELSE h[x].prev
                             /\ g[x].child = h[x].child
  BY <1>1, SuffixFields
<1>3. /\ Shape(g) /\ Tops(g) = Tops(h) \ {t}
      /\ \A c \in Alive(h) : /\ Run(h, c) \subseteq Run(g, c)
                             /\ l \in Run(h, c) => t \in Run(g, c)
      /\ \A q \in Alive(h) : /\ ~h[q].ref /\ Ring(h, q)
                             /\ h[q].child # NULL => h[h[q].child].prev # l
                             => Ring(g, q)
  BY <1>1, <1>2, AppendShape
<1>4. Alive(g) = Alive(h) /\ \A x \in Alive(h) : g[x].ref = h[x].ref /\ g[x].string = h[x].string /\ g[x].value = h[x].value
  BY <1>2 DEF Relinked, SameData
<1>5. Rings(g, open) BY <1>1, <1>3, <1>4 DEF Works, Rings, NoLast
<1>6. Placed(g, hd, roots \ {t}) BY <1>1, <1>2, <1>3, <1>4 DEF Works, Placed
<1>7. Island(g, C) BY <1>1, <1>2, <1>4 DEF Works, Island
<1> QED BY <1>2, <1>3, <1>5, <1>6, <1>7 DEF Works

(* The last of the children of p is known. *)
LEMMA WorkClose ==
  ASSUME NEW h, NEW open, NEW hd, NEW roots, NEW C, Works(h, open, hd, roots, C),
         NEW p \in Alive(h), NEW c \in Alive(h), NEW l, Owner(h, p, c), IsLast(h, c, l),
         NEW g, PrevSet(h, g, c, l)
  PROVE  /\ Works(g, open \ {p}, hd, roots, C) /\ Relinked(h, g)
         /\ \A d : Run(g, d) = Run(h, d)
<1>1. Shape(h) /\ Tops(h) \subseteq Alive(h) BY WorksFields
<1>2. /\ Relinked(h, g) /\ Alive(g) = Alive(h)
      /\ \A x \in Alive(h) : /\ g[x].next = h[x].next /\ g[x].child = h[x].child
                             /\ g[x].prev = IF x = c THEN l ELSE h[x].prev
  BY DEF PrevSet, Relinked
<1>3. /\ Shape(g) /\ Tops(g) = Tops(h) /\ \A d : Run(g, d) = Run(h, d) /\ Ring(g, p)
      /\ \A q \in Alive(h) : ~h[q].ref /\ Ring(h, q) => Ring(g, q)
  BY <1>1, <1>2, CloseShape
<1>4. \A x \in Alive(h) : g[x].ref = h[x].ref /\ g[x].string = h[x].string /\ g[x].value = h[x].value
  BY <1>2 DEF Relinked, SameData
<1>5. Rings(g, open \ {p}) BY <1>2, <1>3, <1>4 DEF Works, Rings
<1>6. Placed(g, hd, roots) BY <1>1, <1>2, <1>3, <1>4 DEF Works, Placed
<1>7. Island(g, C) BY <1>2, <1>4 DEF Works, Island
<1> QED BY <1>2, <1>3, <1>5, <1>6, <1>7 DEF Works

(* An item without children needs no closing. *)
LEMMA WorkChildless ==
  ASSUME NEW h, NEW open, NEW hd, NEW roots, NEW C, Works(h, open, hd, roots, C),
         NEW p, h[p].child = NULL
  PROVE  Works(h, open \ {p}, hd, roots, C)
BY DEF Works, Rings, Ring

(* x gets another type or a string. *)
SameLinks(h, g, x) ==
  /\ Typed(g) /\ Alive(g) = Alive(h) /\ \A y \in Alive(h) \ {x} : g[y] = h[y]
  /\ g[x].next = h[x].next /\ g[x].prev = h[x].prev /\ g[x].child = h[x].child /\ g[x].ref = h[x].ref
LEMMA WorkData ==
  ASSUME NEW h, NEW open, NEW hd, NEW roots, NEW C, Works(h, open, hd, roots, C),
         NEW x \in C, NEW g, SameLinks(h, g, x), g[x].value \in {x, NULL}
  PROVE  /\ Works(g, open, hd, roots, C)
         /\ \A c : Run(g, c) = Run(h, c)
<1>1. /\ Shape(h) /\ Tops(h) \subseteq Alive(h) /\ C \subseteq Alive(h) /\ ~h[x].ref /\ x \in Alive(h) /\ x \notin hd
  BY WorksFields DEF Works
<1>2. \A y \in Alive(h) : /\ g[y].next = h[y].next /\ g[y].prev = h[y].prev
                          /\ g[y].child = h[y].child /\ g[y].ref = h[y].ref
                          /\ g[y].value \in Alive(h) \cup {NULL}
                          /\ ~h[y].ref => g[y].value \in {y, NULL}
  BY <1>1, AliveFacts DEF Shape, OwnValues, SameLinks
<1>3. /\ Shape(g) /\ Tops(g) = Tops(h) /\ \A c : Run(g, c) = Run(h, c)
      /\ \A o : Rings(h, o) => Rings(g, o)
  BY <1>1, <1>2, DataShape DEF SameLinks
<1>4. \A y \in Alive(h) : h[y].ref => g[y].string = h[y].string BY <1>1 DEF SameLinks
<1>5. Placed(g, hd, roots) BY <1>1, <1>2, <1>3, <1>4 DEF Works, Placed
<1>6. Island(g, C)
  <2>1. \A y \in Alive(h) \ C : g[y] = h[y] BY DEF SameLinks
  <2>2. Alive(g) = Alive(h) BY DEF SameLinks
  <2> QED BY <2>1, <2>2, <1>1, <1>2 DEF Works, Island
<1> QED BY <1>3, <1>5, <1>6 DEF Works

(* A root is deleted, with all that was built below it. *)
Deleted(h, g, roots, n, D) == n \in roots /\ g = cJSON_Delete(h, n) /\ D = Doomed(h, n)
Trimmed(h, g, roots, n, C, D) ==
  /\ D \subseteq C /\ n \in D /\ Alive(g) = Alive(h) \ D /\ \A x \in Alive(h) \ D : g[x] = h[x]
  /\ \A x \in roots \ {n} : x \notin D
  /\ \A c \in Alive(h) \ D : Run(h, c) \subseteq Run(g, c)
  /\ \A q \in Alive(h) \ D : ~h[q].ref => h[q].child \notin D
LEMMA WorkDelete ==
  ASSUME NEW h, NEW open, NEW hd, NEW roots, NEW C, Works(h, open, hd, roots, C),
         NEW n, NEW g, NEW D, Deleted(h, g, roots, n, D)
  PROVE  Works(g, open \ {n}, hd, roots \ {n}, C \ D) /\ Trimmed(h, g, roots, n, C, D)
<1>1. /\ Shape(h) /\ Tops(h) \subseteq Alive(h) /\ C \subseteq Alive(h) /\ n \in Tops(h) /\ n \in Alive(h)
      /\ n \in C /\ Island(h, C) /\ \A x \in C : ~h[x].ref
  BY WorksFields DEF Works, Deleted
<1>13. g = cJSON_Delete(h, n) /\ D = Doomed(h, n) BY DEF Deleted
<1>2. Gathered(h, n, D) /\ D \subseteq C BY <1>1, <1>13, DoomedFacts
<1>3. Typed(g) /\ Alive(g) = Alive(h) \ D /\ \A x \in Alive(h) \ D : g[x] = h[x]
  BY <1>1, <1>13, DeletedHeap
<1>4. \A r \in Alive(h) \ D : h[r].ref => h[r].child \notin D /\ h[r].value \notin D
  BY <1>1, <1>2 DEF Island
<1>5. /\ Shape(g) /\ Tops(g) = Tops(h) \ {n}
      /\ \A d \in Alive(h) \ D : Run(h, d) \subseteq Run(g, d)
      /\ \A x \in Alive(h) \ D : h[x].next \notin D
      /\ \A q \in Alive(h) \ D : ~h[q].ref => h[q].child \notin D /\ (Ring(h, q) => Ring(g, q))
  BY <1>1, <1>2, <1>3, <1>4, DeleteShape
<1>6. n \in D BY <1>2 DEF Gathered
<1>7. Rings(g, open \ {n})
  <2>1. \A q \in Alive(h) \ open : ~h[q].ref => Ring(h, q) BY DEF Works, Rings
  <2>2. \A q \in Alive(g) \ (open \ {n}) : q \in Alive(h) \ D /\ q \in Alive(h) \ open /\ g[q] = h[q]
    BY <1>3, <1>6
  <2> QED BY <2>1, <2>2, <1>5 DEF Rings
<1>8. Tops(g) \subseteq Alive(g) BY DEF Tops, Starts
<1>9. Placed(g, hd, roots \ {n})
  <2>1. /\ hd \cup roots \subseteq Tops(h) /\ hd \cap roots = {}
        /\ \A x \in Tops(h) \ (hd \cup roots) : h[x].ref /\ h[x].string = NULL /\ h[x].next = NULL
        /\ \A x \in hd : h[x].next = NULL
    BY DEF Works, Placed
  <2>2. \A x \in Tops(h) \ {n} : g[x] = h[x] BY <1>3, <1>5, <1>8
  <2>3. n \in roots BY DEF Deleted
  <2> QED BY <2>1, <2>2, <2>3, <1>5 DEF Placed
<1>10. Island(g, C \ D) BY <1>1, <1>2, <1>3, <1>5 DEF Island
<1>11. \A x \in roots \ {n} : x \notin D BY <1>3, <1>5, <1>8, WorksFields
<1>12. roots \ {n} \subseteq C \ D /\ hd \cap (C \ D) = {} BY <1>11 DEF Works
<1> QED BY <1>2, <1>3, <1>5, <1>6, <1>7, <1>9, <1>10, <1>11, <1>12 DEF Works, Trimmed

(* Deleting nothing changes nothing. *)
LEMMA DeleteNothing ==
  ASSUME NEW h, Typed(h)
  PROVE  cJSON_Delete(h, NULL) = h /\ Owned(h, Doomed(h, NULL)) = 0
<1>1. Doomed(h, NULL) = {} /\ cJSON_Delete(h, NULL) = [x \in Nodes |-> h[x]] BY DoomedNothing
<1>2. h = [x \in Nodes |-> h[x]] BY DEF Typed
<1>3. Owned(h, {}) = 0
  <2>1. {x \in {} : OwnsName(h[x])} = {} /\ {x \in {} : OwnsValue(h[x])} = {} OBVIOUS
  <2> QED BY <2>1, FS_EmptySet DEF Owned
<1> QED BY <1>1, <1>2, <1>3

LEMMA DeletedCount ==
  ASSUME NEW h, Shape(h), NEW n \in Alive(h), NEW g, g = cJSON_Delete(h, n)
  PROVE  Owned(g, Alive(g)) = Owned(h, Alive(h)) - Owned(h, Doomed(h, n))
<1> DEFINE D == Doomed(h, n)
<1>1. D \subseteq Alive(h) /\ Alive(g) = Alive(h) \ D /\ \A x \in Alive(h) \ D : g[x] = h[x]
  BY DeletedHeap
<1>2. Alive(h) \in SUBSET Nodes BY DEF Alive
<1> HIDE DEF D
<1>3. Owned(g, Alive(g)) = Owned(h, Alive(h)) - Owned(h, D) BY <1>1, <1>2, OwnedLess
<1> QED BY <1>3 DEF D

-----------------------------------------------------------------------------
(* Between two steps of a call. *)

LEMMA WorkFacts ==
  ASSUME Inv
  PROVE  /\ \E C : Works(items, Open, held, Roots, C) /\ Kept \cap C = {}
         /\ strings = Owned(items, Alive(items)) /\ strings \in Nat
         /\ Shape(items) /\ held \subseteq Alive(items)
<1>1. PICK C : Island(items, C) /\ Roots \subseteq C /\ Kept \cap C = {} BY DEF Inv, Fresh
<1>2. held \cap C = {} BY <1>1 DEF Kept
<1>3. Works(items, Open, held, Roots, C) BY <1>1, <1>2 DEF Inv, Works
<1>4. strings = Owned(items, Alive(items)) /\ strings \in Nat
  BY LiveIsAlive, CountNat DEF Inv, StringsAccounted
<1>5. held \subseteq Alive(items) BY <1>3, WorksFields
<1> QED BY <1>1, <1>3, <1>4, <1>5 DEF Inv

LEMMA WorkAgain ==
  ASSUME NEW C, Works(items', Open', held', Roots', C), Kept' \cap C = {},
         strings' = Owned(items', Alive(items')),
         JobOK', IdleOK', NumbersOK', CopyOK', TextOK', BufferOK'
  PROVE  Inv'
<1>1. StringsAccounted' BY DEF StringsAccounted, Live, Alive
<1>2. Fresh' BY DEF Fresh, Works
<1> QED BY <1>1, <1>2 DEF Inv, Works

(* The caller gets what was built, or nothing. *)
LEMMA WorkReturns ==
  ASSUME NEW C, NEW n, n = NULL \/ items'[n].next = NULL, n \notin held, Returns(n),
         Works(items', {}, held, {n} \ {NULL}, C), strings' = Owned(items', Alive(items'))
  PROVE  Inv'
<1>1. /\ job' = "idle" /\ at' = "start" /\ stack' = <<>> /\ source' = NULL /\ ret' = NULL
      /\ text' = <<>> /\ offset' = 0 /\ depth' = 0 /\ held' = held \cup ({n} \ {NULL})
  BY DEF Returns
<1>2. Placed(items', held', {}) BY <1>1 DEF Works, Placed
<1>3. Ready(items', held') BY <1>2 DEF Works, Ready
<1> QED BY <1>1, <1>3, IdleAgain

LEMMA NewFields ==
  /\ Zeroed \in ItemRec
  /\ \A type \in ItemTypes :
       /\ [Zeroed EXCEPT !.type = type] \in ItemRec
       /\ [Zeroed EXCEPT !.type = type].next = NULL /\ [Zeroed EXCEPT !.type = type].prev = NULL
       /\ [Zeroed EXCEPT !.type = type].child = NULL /\ [Zeroed EXCEPT !.type = type].value = NULL
       /\ [Zeroed EXCEPT !.type = type].ref = FALSE /\ [Zeroed EXCEPT !.type = type].string = NULL
  /\ Zeroed.next = NULL /\ Zeroed.prev = NULL /\ Zeroed.child = NULL /\ Zeroed.value = NULL
  /\ Zeroed.ref = FALSE /\ Zeroed.string = NULL /\ Zeroed.const = FALSE
BY DEF Zeroed, ItemRec, ItemTypes, Types

(* A new item that owns nothing. *)
LEMMA BareFacts ==
  ASSUME NEW h, NEW n, NEW item \in ItemRec,
         item.next = NULL, item.prev = NULL, item.child = NULL, item.value = NULL,
         item.ref = FALSE, item.string = NULL
  PROVE  NewItem(h, n, item) /\ ~OwnsName(item) /\ ~OwnsValue(item)
BY DEF NewItem, OwnsName, OwnsValue

LEMMA BareCount ==
  ASSUME NEW h, Shape(h), HasMemory(h), NEW n, NEW item, NewItem(h, n, item), ~OwnsName(item), ~OwnsValue(item),
         NEW g, g = cJSON_New_Item(h, item)
  PROVE  Owned(g, Alive(g)) = Owned(h, Alive(h))
<1>1. Owned(g, Alive(g)) = Owned(h, Alive(h)) + Bit(OwnsName(item)) + Bit(OwnsValue(item))
  BY NewItemCount
<1>2. Owned(h, Alive(h)) \in Nat BY CountNat
<1> QED BY <1>1, <1>2 DEF Bit

-----------------------------------------------------------------------------
(* The array of numbers. *)

Numbers(h) == [new : Alive(h), last : Alive(h) \cup {NULL}, left : Nat]

LEMMA NumbersFacts ==
  ASSUME Inv, job = "numbers"
  PROVE  /\ Top \in Numbers(items) /\ Open = {Top.new} /\ Roots = {Top.new} /\ Kept = held
         /\ Building(items, Top.new, Top.last) /\ source = NULL /\ ret = NULL
         /\ text = <<>> /\ offset = 0 /\ depth = 0
<1>1. /\ source = NULL /\ ret = NULL /\ stack \in Seq(Numbers(items)) /\ Len(stack) = 1
      /\ at \in {"next", "failed"} /\ Building(items, Top.new, Top.last)
  BY DEF Inv, NumbersOK, Numbers
<1>2. Top = stack[1] /\ stack[1] \in Numbers(items) BY <1>1 DEF Top, Last
<1>3. Activations = {Top} BY <1>1, <1>2 DEF Activations, ToSet
<1>4. Open = {Top.new} /\ Roots = {Top.new} /\ Kept = held BY <1>1, <1>3 DEF Open, Roots, Kept
<1>5. text = <<>> /\ offset = 0 /\ depth = 0 BY DEF Inv, BufferOK
<1> QED BY <1>1, <1>2, <1>4, <1>5

LEMMA NumbersAgain ==
  ASSUME NEW C, NEW frame \in Numbers(items'), job' = "numbers", at' \in {"next", "failed"}, stack' = <<frame>>,
         source' = NULL, ret' = NULL, text' = <<>>, offset' = 0, depth' = 0,
         Works(items', {frame.new}, held', {frame.new}, C), Building(items', frame.new, frame.last),
         strings' = Owned(items', Alive(items'))
  PROVE  Inv'
<1>1. Activations' = {frame} /\ Top' = frame BY DEF Activations, ToSet, Top, Last
<1>2. Open' = {frame.new} /\ Roots' = {frame.new} /\ Kept' = held' BY <1>1 DEF Open, Roots, Kept
<1>3. NumbersOK' BY <1>1 DEF NumbersOK, Numbers
<1>4. JobOK' /\ IdleOK' /\ CopyOK' /\ TextOK' BY DEF JobOK, IdleOK, CopyOK, TextOK
<1>5. BufferOK'
  <2>1. <<>> \in Seq(STRING) OBVIOUS
  <2> QED BY <2>1, CJsonAssumption DEF BufferOK
<1>6. Kept' \cap C = {} BY <1>2 DEF Works
<1> QED BY <1>2, <1>3, <1>4, <1>5, <1>6, WorkAgain

LEMMA ArrayStartKeeps == ASSUME Inv, NEW count \in 0 .. MaxCount, ArrayStart(count) PROVE Inv'
<1> DEFINE a == NewAddress(items)
           item == [Zeroed EXCEPT !.type = "Array"]
           frame == [new |-> a, last |-> NULL, left |-> count]
<1>1. /\ job = "idle" /\ HasMemory(items) /\ items' = cJSON_New_Item(items, item)
      /\ job' = "numbers" /\ at' = "next" /\ stack' = <<frame>> /\ source' = NULL /\ ret' = NULL
      /\ text' = text /\ offset' = offset /\ depth' = depth /\ strings' = strings /\ held' = held
  BY DEF ArrayStart, Start, MayCall, parseVars
<1>2. /\ Ready(items, held) /\ strings = Owned(items, Alive(items)) /\ Shape(items)
      /\ text = <<>> /\ offset = 0 /\ depth = 0
  BY <1>1, IdleFacts DEF Ready
<1>3. Works(items, {}, held, {}, {}) BY <1>2 DEF Ready, Works, Island
<1>4. "Array" \in ItemTypes BY DEF ItemTypes, Types
<1>5. NewItem(items, a, item) /\ ~OwnsName(item) /\ ~OwnsValue(item) /\ item.next = NULL /\ item.child = NULL /\ ~item.ref
  BY <1>4, NewFields, BareFacts
<1> HIDE DEF item
<1>6. Works(items', {}, held, {a}, {a}) /\ a \in Alive(items') /\ items'[a] = item
  <2>1. PICK none : none = {} OBVIOUS
  <2>2. Works(items, none, held, none, none) BY <1>3, <2>1
  <2> HIDE DEF a
  <2>3. PICK g : g = items' OBVIOUS
  <2>5. Born(items, g, a, item) BY <1>1, <1>5, <2>3 DEF Born, a
  <2>4. PICK roots, C : roots = none /\ C = none OBVIOUS
  <2>6. Works(items, none, held, roots, C) BY <2>2, <2>4
  <2>7. PICK n, i : n = a /\ i = item OBVIOUS
  <2>8. Born(items, g, n, i) BY <2>5, <2>7
  <2>9. /\ Works(g, none, held, roots \cup {n}, C \cup {n})
        /\ n \in Nodes /\ n \notin Alive(items) /\ n # NULL /\ Alive(g) = Alive(items) \cup {n} /\ g[n] = i
        /\ \A x \in Alive(items) : g[x] = items[x] /\ x # n
        /\ \A c \in Alive(items) : Run(items, c) \subseteq Run(g, c)
    BY <2>6, <2>8, WorkNew
  <2> QED BY <2>1, <2>3, <2>4, <2>7, <2>9
<1>7. Works(items', {a}, held, {a}, {a}) BY <1>6 DEF Works, Rings
<1>8. strings' = Owned(items', Alive(items')) BY <1>1, <1>2, <1>5, BareCount
<1>9. Building(items', a, NULL) BY <1>5, <1>6 DEF Building
<1>10. frame \in Numbers(items') BY <1>6 DEF Numbers
<1>11. frame.new = a /\ frame.last = NULL OBVIOUS
<1> HIDE DEF frame, a
<1> QED BY <1>1, <1>2, <1>7, <1>8, <1>9, <1>10, <1>11, NumbersAgain

(* The last item of a list under construction is no other list's. *)
LEMMA LastAlone ==
  ASSUME NEW h, NEW open, Shape(h), Rings(h, open), NEW a \in open, NEW c \in Alive(h), NEW l,
         Owner(h, a, c), IsLast(h, c, l)
  PROVE  NoLast(h, open, l)
<1>1. SUFFICES ASSUME NEW q \in Alive(h) \ open, ~h[q].ref, h[q].child # NULL, h[h[q].child].prev = l
               PROVE  FALSE
  BY DEF NoLast
<1> DEFINE d == h[q].child
<1>2. d \in Alive(h) /\ Owner(h, q, d) BY <1>1, AliveFacts DEF Owner
<1>3. IsLast(h, d, l) BY <1>1 DEF Rings, Ring
<1> HIDE DEF d
<1>4. c \in Starts(h) /\ d \in Starts(h) BY <1>2 DEF Shape, Firsts, Owner
<1>5. c = d BY <1>3, <1>4, RunsMeet DEF IsLast
<1> QED BY <1>1, <1>2, <1>5 DEF Shape, OneOwner, Owner

(* t becomes the next child of a, whose children are not closed yet; what   *)
(* else is under construction stays as it is.                               *)
Linked(h, g, open, roots, a, last, t) ==
  /\ a \in roots /\ a \in open /\ last \in Alive(h) \cup {NULL} /\ Building(h, a, last)
  /\ t \in roots /\ t # a /\ h[t].next = NULL
  /\ g = IF last # NULL THEN suffix_object(h, last, t) ELSE [h EXCEPT ![a].child = t]
LEMMA LinkBuilding ==
  ASSUME NEW h, NEW open, NEW hd, NEW roots, NEW C, Works(h, open, hd, roots, C),
         NEW a, NEW last, NEW t, NEW g, Linked(h, g, open, roots, a, last, t)
  PROVE  /\ Works(g, open, hd, roots \ {t}, C) /\ Relinked(h, g) /\ Building(g, a, t)
         /\ \A b \in (roots \cap open) \ {a} : \A m \in Alive(h) \cup {NULL} :
              Building(h, b, m) => Building(g, b, m)
<1>5. /\ a \in roots /\ a \in open /\ last \in Alive(h) \cup {NULL} /\ Building(h, a, last)
      /\ t \in roots /\ t # a /\ h[t].next = NULL
  BY DEF Linked
<1>1. /\ Shape(h) /\ Typed(h) /\ roots \subseteq Tops(h) /\ Tops(h) \subseteq Alive(h) /\ C \subseteq Alive(h)
      /\ a \in C /\ a \in Alive(h) /\ ~h[a].ref /\ t \in Alive(h) /\ t # NULL /\ t \in Nodes /\ t \in Tops(h)
      /\ \A x \in roots : ~h[x].ref /\ x \in Alive(h) /\ x \in Tops(h)
      /\ Island(h, C) /\ NULL \notin Alive(h)
  BY <1>5, WorksFields DEF Works, Alive
<1>2. t \in Run(h, t) BY <1>5, <1>1, RunFacts
<1>3. CASE last = NULL
  <2>1. ChildSet(h, g, a, t) /\ h[a].child = NULL /\ h[a].next = NULL
    BY <1>5, <1>1, <1>3, LinkSet DEF Building, Linked
  <2>6. Adopted(h, g, open, roots, C, a, t) BY <1>5, <1>1, <2>1 DEF Adopted
  <2>2. /\ Works(g, open, hd, roots \ {t}, C) /\ Relinked(h, g) /\ \A c : Run(g, c) = Run(h, c)
    BY <1>5, <2>6, WorkSetChild
  <2>3. \A x \in Alive(h) : g[x].next = h[x].next /\ g[x].child = IF x = a THEN t ELSE h[x].child
    BY <1>5, <2>1 DEF ChildSet
  <2>4. Building(g, a, t) BY <1>5, <1>1, <1>2, <2>1, <2>2, <2>3 DEF Building, IsLast
  <2>5. ASSUME NEW b \in (roots \cap open) \ {a}, NEW m \in Alive(h) \cup {NULL}, Building(h, b, m)
        PROVE  Building(g, b, m)
    BY <1>5, <1>1, <2>2, <2>3, <2>5 DEF Building, IsLast
  <2> QED BY <1>5, <2>2, <2>4, <2>5
<1>4. CASE last # NULL
  <2> DEFINE c == h[a].child
  <2>1. /\ c # NULL /\ c \in Alive(h) /\ Owner(h, a, c) /\ c \in C /\ IsLast(h, c, last) /\ h[a].next = NULL
        /\ c \in Starts(h)
    BY <1>5, <1>1, <1>4, AliveFacts DEF Building, Owner, Island, Shape, Firsts
  <2> HIDE DEF c
  <2>2. last \in C /\ last \in Alive(h) /\ last \in Run(h, c) /\ h[last].next = NULL
    BY <1>5, <1>1, <2>1, IslandRun DEF IsLast
  <2>3. \A x \in roots : x # last BY <1>5, <1>1, <2>1, <2>2, TopAlone
  <2>4. NoLast(h, open, last) BY <1>5, <1>1, <2>1, LastAlone DEF Works
  <2>5. g = suffix_object(h, last, t) /\ t # last /\ last \in C /\ h[last].next = NULL
    BY <1>5, <1>4, <2>2, <2>3 DEF Linked
  <2>9. Appended(h, g, open, roots, C, last, t) BY <1>5, <2>4, <2>5 DEF Appended
  <2>6. /\ Works(g, open, hd, roots \ {t}, C) /\ Relinked(h, g)
        /\ \A x \in Alive(h) : /\ g[x].next = IF x = last THEN t ELSE h[x].next
                               /\ g[x].child = h[x].child
        /\ \A d \in Alive(h) : /\ Run(h, d) \subseteq Run(g, d)
                               /\ last \in Run(h, d) => t \in Run(g, d)
    BY <1>5, <2>9, WorkAppend, ZenonT(60)
  <2>7. Building(g, a, t)
    <3>1. g[a].next = NULL /\ g[a].child = c /\ g[t].next = NULL BY <1>5, <1>1, <2>1, <2>3, <2>5, <2>6 DEF c
    <3>2. t \in Run(g, c) BY <1>5, <2>1, <2>2, <2>6
    <3> QED BY <1>5, <1>1, <2>1, <3>1, <3>2 DEF Building, IsLast
  <2>8. ASSUME NEW b \in (roots \cap open) \ {a}, NEW m \in Alive(h) \cup {NULL}, Building(h, b, m)
        PROVE  Building(g, b, m)
    <3>1. g[b].next = NULL /\ g[b].child = h[b].child BY <1>5, <1>1, <2>3, <2>6, <2>8 DEF Building
    <3>2. CASE m = NULL BY <1>5, <2>8, <3>1, <3>2 DEF Building
    <3>3. CASE m # NULL
      <4> DEFINE d == h[b].child
      <4>1. d # NULL /\ d \in Alive(h) /\ Owner(h, b, d) /\ IsLast(h, d, m) /\ d \in Starts(h)
        BY <1>5, <1>1, <2>8, <3>3, AliveFacts DEF Building, Owner, Shape, Firsts
      <4> HIDE DEF d
      <4>2. m # last
        <5>1. SUFFICES ASSUME m = last PROVE FALSE OBVIOUS
        <5>2. c = d BY <1>5, <1>1, <2>1, <2>2, <4>1, <5>1, RunsMeet DEF IsLast
        <5> QED BY <1>5, <1>1, <2>1, <4>1, <5>2 DEF Shape, OneOwner
      <4>3. m \in Alive(h) /\ m \in Run(g, d) /\ g[m].next = NULL BY <3>3, <4>1, <4>2, <2>6 DEF IsLast
      <4> QED BY <3>1, <3>3, <4>1, <4>3 DEF Building, IsLast, d
    <3> QED BY <3>2, <3>3
  <2> QED BY <1>5, <2>6, <2>7, <2>8
<1> QED BY <1>5, <1>3, <1>4

(* The children of a are closed. *)
ListClosed(h, g, roots, a, last) ==
  /\ a \in roots /\ last \in Alive(h) \cup {NULL} /\ Building(h, a, last)
  /\ g = IF h[a].child = NULL THEN h ELSE [h EXCEPT ![h[a].child].prev = last]
LEMMA CloseBuilding ==
  ASSUME NEW h, NEW open, NEW hd, NEW roots, NEW C, Works(h, open, hd, roots, C),
         NEW a, NEW last, NEW g, ListClosed(h, g, roots, a, last)
  PROVE  /\ Works(g, open \ {a}, hd, roots, C) /\ Relinked(h, g)
         /\ \A x \in Alive(h) : g[x].next = h[x].next
         /\ \A b \in roots : \A m \in Alive(h) \cup {NULL} : Building(h, b, m) => Building(g, b, m)
<1>1. /\ Shape(h) /\ Typed(h) /\ roots \subseteq Alive(h) /\ ~h[a].ref /\ NULL \notin Alive(h)
      /\ a \in Alive(h) /\ last \in Alive(h) \cup {NULL} /\ Building(h, a, last)
  BY WorksFields DEF Works, ListClosed
<1>2. CASE h[a].child = NULL
  <2>1. g = h BY <1>2 DEF ListClosed
  <2>2. Works(h, open \ {a}, hd, roots, C) BY <1>2, WorkChildless
  <2> QED BY <1>1, <2>1, <2>2 DEF Relinked, SameData
<1>3. CASE h[a].child # NULL
  <2> DEFINE c == h[a].child
  <2>1. c \in Alive(h) /\ Owner(h, a, c) /\ IsLast(h, c, last) BY <1>1, <1>3, AliveFacts DEF Building, Owner
  <2>2. Typed(h) /\ c \in Alive(h) /\ last \in Nodes \cup {NULL} BY <1>1, <2>1 DEF Alive
  <2>3. g = [h EXCEPT ![c].prev = last] BY <1>3 DEF ListClosed
  <2> HIDE DEF c
  <2>8. PrevSet(h, [h EXCEPT ![c].prev = last], c, last) BY <2>2, LinkSet
  <2>4. PrevSet(h, g, c, last) BY <2>3, <2>8
  <2>9. a \in Alive(h) BY <1>1
  <2>5. /\ Works(g, open \ {a}, hd, roots, C) /\ Relinked(h, g) /\ \A d : Run(g, d) = Run(h, d)
    BY <2>1, <2>4, <2>9, WorkClose
  <2>6. \A x \in Alive(h) : g[x].next = h[x].next /\ g[x].child = h[x].child BY <2>4 DEF PrevSet
  <2>7. ASSUME NEW b \in roots, NEW m \in Alive(h) \cup {NULL}, Building(h, b, m) PROVE Building(g, b, m)
    BY <1>1, <2>5, <2>6, <2>7 DEF Building, IsLast
  <2> QED BY <2>5, <2>6, <2>7
<1> QED BY <1>2, <1>3

LEMMA ArrayNextKeeps == ASSUME Inv, ArrayNext PROVE Inv'
<1>1. /\ job = "numbers" /\ at = "next" /\ Top.left > 0 /\ job' = job /\ source' = source /\ ret' = ret
      /\ text' = text /\ offset' = offset /\ depth' = depth /\ strings' = strings /\ held' = held
  BY DEF ArrayNext, Running, NoText
<1>2. /\ Top \in Numbers(items) /\ Open = {Top.new} /\ Roots = {Top.new} /\ Kept = held
      /\ Building(items, Top.new, Top.last) /\ source = NULL /\ ret = NULL
      /\ text = <<>> /\ offset = 0 /\ depth = 0 /\ strings = Owned(items, Alive(items)) /\ Shape(items)
  BY <1>1, NumbersFacts, WorkFacts
<1>3. PICK C : Works(items, Open, held, Roots, C) BY WorkFacts
<1>4. PICK a, last, open : a = Top.new /\ last = Top.last /\ open = {a} OBVIOUS
<1>5. /\ a \in Alive(items) /\ last \in Alive(items) \cup {NULL} /\ Building(items, a, last)
      /\ Works(items, open, held, open, C) /\ a \in open
  BY <1>2, <1>3, <1>4 DEF Numbers
<1>6. CASE at' = "failed" /\ items' = items /\ stack' = stack
  <2>1. stack' = <<Top>>
    <3>1. stack \in Seq(Numbers(items)) /\ Len(stack) = 1 BY <1>1 DEF Inv, NumbersOK, Numbers
    <3> QED BY <3>1, <1>6 DEF Top, Last
  <2>2. /\ Works(items', {Top.new}, held', {Top.new}, C) /\ Building(items', Top.new, Top.last)
        /\ strings' = Owned(items', Alive(items')) /\ Top \in Numbers(items')
    BY <1>1, <1>2, <1>4, <1>5, <1>6
  <2>3. PICK frame : frame = Top OBVIOUS
  <2> QED BY <1>1, <1>2, <1>6, <2>1, <2>2, <2>3, NumbersAgain
<1>7. ASSUME HasMemory(items), NEW n, n = NewAddress(items), NEW item, item = [Zeroed EXCEPT !.type = "Number"],
             NEW h, h = cJSON_New_Item(items, item), at' = at,
             items' = IF last = NULL THEN [h EXCEPT ![a].child = n] ELSE suffix_object(h, last, n),
             stack' = << [Top EXCEPT !.last = n, !.left = @ - 1] >>
      PROVE  Inv'
  <2>1. "Number" \in ItemTypes BY DEF ItemTypes, Types
  <2>2. NewItem(items, n, item) /\ ~OwnsName(item) /\ ~OwnsValue(item) /\ item.next = NULL /\ item.child = NULL /\ ~item.ref
    BY <1>7, <2>1, NewFields, BareFacts
  <2>12. Born(items, h, n, item) BY <1>7, <2>2 DEF Born
  <2>3. /\ Works(h, open, held, open \cup {n}, C \cup {n})
        /\ n \in Nodes /\ n \notin Alive(items) /\ n # NULL /\ Alive(h) = Alive(items) \cup {n} /\ h[n] = item
        /\ \A x \in Alive(items) : h[x] = items[x] /\ x # n
        /\ \A c \in Alive(items) : Run(items, c) \subseteq Run(h, c)
    BY <1>5, <2>12, WorkNew
  <2>4. Owned(h, Alive(h)) = Owned(items, Alive(items)) BY <1>2, <1>7, <2>2, BareCount
  <2>5. Building(h, a, last)
    BY <1>2, <1>5, <2>3, AliveFacts DEF Building, IsLast
  <2>6. PICK roots, D, g : roots = open \cup {n} /\ D = C \cup {n} /\ g = items' OBVIOUS
  <2>7. /\ Works(h, open, held, roots, D) /\ a \in roots /\ n \in roots /\ n # a /\ h[n].next = NULL
        /\ last \in Alive(h) \cup {NULL}
        /\ Linked(h, g, open, roots, a, last, n)
    BY <1>5, <1>7, <2>2, <2>3, <2>5, <2>6 DEF Linked
  <2>8. Works(g, open, held, roots \ {n}, D) /\ Relinked(h, g) /\ Building(g, a, n)
    BY <1>5, <2>5, <2>7, LinkBuilding
  <2>9. roots \ {n} = open /\ n \in Alive(g) /\ a \in Alive(g) /\ Owned(g, Alive(g)) = Owned(h, Alive(h))
    BY <1>4, <1>5, <2>3, <2>6, <2>8, RelinkedCount DEF Relinked
  <2>10. PICK frame : frame = [Top EXCEPT !.last = n, !.left = @ - 1] OBVIOUS
  <2>11. frame \in Numbers(g) /\ frame.new = a /\ frame.last = n
    <3>1. PICK top : top = Top OBVIOUS
    <3>2. top \in Numbers(items) /\ top.new = a /\ top.left \in Nat /\ top.left > 0
      BY <1>1, <1>2, <1>4, <3>1 DEF Numbers
    <3>3. n \in Alive(g) /\ a \in Alive(g) /\ top.left - 1 \in Nat BY <2>9, <3>2
    <3>4. frame = [top EXCEPT !.last = n, !.left = @ - 1] BY <2>10, <3>1
    <3> QED BY <3>2, <3>3, <3>4 DEF Numbers
  <2> QED BY <1>1, <1>2, <1>4, <1>7, <2>4, <2>6, <2>8, <2>9, <2>10, <2>11, NumbersAgain
<1> QED
  <2>1. CASE at' = "failed" /\ UNCHANGED <<items, stack>> BY <1>6, <2>1
  <2>2. CASE /\ HasMemory(items) /\ at' = at
             /\ LET n == NewAddress(items)
                    h == cJSON_New_Item(items, [Zeroed EXCEPT !.type = "Number"])
                IN /\ items' = IF Top.last = NULL THEN [h EXCEPT ![Top.new].child = n]
                               ELSE suffix_object(h, Top.last, n)
                   /\ stack' = << [Top EXCEPT !.last = n, !.left = @ - 1] >>
    BY <1>4, <1>7, <2>2
  <2> QED BY <2>1, <2>2 DEF ArrayNext

LEMMA ArrayFailsKeeps == ASSUME Inv, ArrayFails PROVE Inv'
<1>1. /\ job = "numbers" /\ items' = cJSON_Delete(items, Top.new)
      /\ strings' = strings - Owned(items, Doomed(items, Top.new)) /\ Returns(NULL)
  BY DEF ArrayFails
<1>2. /\ Open = {Top.new} /\ Roots = {Top.new} /\ Top.new \in Alive(items) /\ Shape(items)
      /\ strings = Owned(items, Alive(items))
  BY <1>1, NumbersFacts, WorkFacts DEF Numbers
<1>3. PICK C : Works(items, Open, held, Roots, C) BY WorkFacts
<1>4. PICK a, open, D, g : a = Top.new /\ open = {a} /\ D = Doomed(items, a) /\ g = items' OBVIOUS
<1>5. Works(items, open, held, open, C) /\ a \in open /\ g = cJSON_Delete(items, a) BY <1>1, <1>2, <1>3, <1>4
<1>6. Works(g, open \ {a}, held, open \ {a}, C \ D)
  <2>1. PICK roots : roots = open OBVIOUS
  <2>2. Deleted(items, g, roots, a, D) /\ Works(items, open, held, roots, C)
    BY <1>4, <1>5, <2>1 DEF Deleted
  <2>3. Works(g, open \ {a}, held, roots \ {a}, C \ D) BY <2>2, WorkDelete
  <2> QED BY <2>1, <2>3
<1>7. Owned(g, Alive(g)) = Owned(items, Alive(items)) - Owned(items, Doomed(items, a))
  BY <1>2, <1>4, <1>5, DeletedCount
<1>8. open \ {a} = {} /\ {NULL} \ {NULL} = {} BY <1>4
<1>9. Works(items', {}, held, {NULL} \ {NULL}, C \ D) BY <1>4, <1>6, <1>8
<1>10. strings' = Owned(items', Alive(items')) BY <1>1, <1>2, <1>4, <1>7
<1>11. PICK E, n : E = C \ D /\ n = NULL OBVIOUS
<1>12. Works(items', {}, held, {n} \ {NULL}, E) /\ Returns(n) BY <1>1, <1>9, <1>11
<1>13. n \notin held BY <1>11, <1>3, WorksFields
<1> QED BY <1>10, <1>11, <1>12, <1>13, WorkReturns

LEMMA ArrayDoneKeeps == ASSUME Inv, ArrayDone PROVE Inv'
<1>1. /\ job = "numbers" /\ strings' = strings /\ Returns(Top.new)
      /\ items' = IF items[Top.new].child = NULL THEN items
                  ELSE [items EXCEPT ![items[Top.new].child].prev = Top.last]
  BY DEF ArrayDone
<1>2. /\ Open = {Top.new} /\ Roots = {Top.new} /\ Top \in Numbers(items) /\ Shape(items)
      /\ strings = Owned(items, Alive(items)) /\ Building(items, Top.new, Top.last)
  BY <1>1, NumbersFacts, WorkFacts
<1>3. PICK C : Works(items, Open, held, Roots, C) BY WorkFacts
<1>4. PICK a, last, open, g : a = Top.new /\ last = Top.last /\ open = {a} /\ g = items' OBVIOUS
<1>5. /\ Works(items, open, held, open, C) /\ a \in open /\ last \in Alive(items) \cup {NULL}
      /\ Building(items, a, last) /\ a \in Alive(items)
      /\ ListClosed(items, g, open, a, last)
  BY <1>1, <1>2, <1>3, <1>4 DEF Numbers, ListClosed
<1>6. /\ Works(g, open \ {a}, held, open, C) /\ Relinked(items, g) /\ \A x \in Alive(items) : g[x].next = items[x].next
  BY <1>5, CloseBuilding
<1>7. Owned(g, Alive(g)) = Owned(items, Alive(items)) BY <1>6, RelinkedCount
<1>8. open \ {a} = {} /\ open = {a} \ {NULL} /\ a \notin held /\ g[a].next = NULL
  BY <1>3, <1>4, <1>5, <1>6, WorksFields DEF Building, Works
<1>9. Works(items', {}, held, {a} \ {NULL}, C) /\ Returns(a) /\ items'[a].next = NULL /\ a \notin held
  BY <1>1, <1>4, <1>6, <1>8
<1>10. strings' = Owned(items', Alive(items')) BY <1>1, <1>2, <1>4, <1>7
<1> QED BY <1>9, <1>10, WorkReturns

-----------------------------------------------------------------------------
(* Stacks of activations. *)

LEMMA SeqPush ==
  ASSUME NEW S, NEW s \in Seq(S), NEW r \in S, NEW t, t = Append(s, r)
  PROVE  /\ t \in Seq(S) /\ Len(t) = Len(s) + 1 /\ t # <<>> /\ t[Len(t)] = r /\ Len(s) \in Nat
         /\ \A i \in 1 .. Len(s) : t[i] = s[i]
OBVIOUS

LEMMA SeqPop ==
  ASSUME NEW S, NEW s \in Seq(S), s # <<>>
  PROVE  /\ Len(s) \in Nat \ {0} /\ Last(s) = s[Len(s)] /\ Last(s) \in S
         /\ Front(s) \in Seq(S) /\ Len(Front(s)) = Len(s) - 1
         /\ \A i \in 1 .. Len(s) - 1 : Front(s)[i] = s[i]
<1>1. Len(s) \in Nat \ {0} BY EmptySeq
<1>2. Last(s) = s[Len(s)] /\ Last(s) \in S BY <1>1 DEF Last
<1>3. PICK n : n = Len(s) - 1 OBVIOUS
<1>4. n \in Nat /\ 1 .. n \subseteq 1 .. Len(s) /\ \A i \in 1 .. n : s[i] \in S BY <1>1, <1>3
<1>5. Front(s) = SubSeq(s, 1, n) BY <1>3 DEF Front
<1>6. /\ SubSeq(s, 1, n) \in Seq(S) /\ Len(SubSeq(s, 1, n)) = n
      /\ \A i \in 1 .. n : SubSeq(s, 1, n)[i] = s[i]
  BY <1>1, <1>3, <1>4
<1> QED BY <1>1, <1>2, <1>3, <1>5, <1>6

LEMMA SeqAgain ==
  ASSUME NEW S, NEW s \in Seq(S), NEW T, \A i \in 1 .. Len(s) : s[i] \in T
  PROVE  s \in Seq(T)
<1>1. Len(s) \in Nat /\ s = [i \in 1 .. Len(s) |-> s[i]] OBVIOUS
<1> QED BY <1>1

-----------------------------------------------------------------------------
(* Copying. *)

CopyFrame(h) == [new : Alive(h), from : Alive(h) \cup {NULL}, last : Alive(h) \cup {NULL}]
News(s) == {s[i].new : i \in 1 .. Len(s)}
Froms(s) == {s[i].from : i \in 1 .. Len(s)}

Stacked(h, s) ==
  /\ s \in Seq(CopyFrame(h))
  /\ \A i \in 1 .. Len(s) : Building(h, s[i].new, s[i].last)
  /\ \A i, j \in 1 .. Len(s) : s[i].new = s[j].new => i = j
  /\ \A i \in 1 .. Len(s) - 1 : s[i].from # NULL

LEMMA StackedFields ==
  ASSUME NEW h, NEW s, Stacked(h, s)
  PROVE  /\ Len(s) \in Nat /\ s \in Seq(CopyFrame(h))
         /\ \A i \in 1 .. Len(s) : /\ s[i] \in CopyFrame(h) /\ s[i].new \in Alive(h)
                                   /\ s[i].from \in Alive(h) \cup {NULL}
                                   /\ s[i].last \in Alive(h) \cup {NULL}
                                   /\ s[i].new \in News(s) /\ s[i].from \in Froms(s)
         /\ News(s) \subseteq Alive(h)
<1>1. Len(s) \in Nat /\ s \in Seq(CopyFrame(h)) BY DEF Stacked
<1>2. \A i \in 1 .. Len(s) : s[i] \in CopyFrame(h) BY <1>1
<1> QED BY <1>1, <1>2 DEF CopyFrame, News, Froms

(* An activation enters. *)
Pushed(h, s, r, t) ==
  /\ r \in CopyFrame(h) /\ Building(h, r.new, r.last) /\ r.new \notin News(s)
  /\ s # <<>> => Last(s).from # NULL
  /\ t = Append(s, r)
LEMMA StackPush ==
  ASSUME NEW h, NEW s, Stacked(h, s), NEW r, NEW t, Pushed(h, s, r, t)
  PROVE  /\ Stacked(h, t) /\ News(t) = News(s) \cup {r.new} /\ Froms(t) = Froms(s) \cup {r.from}
         /\ t # <<>>
<1>1. /\ Len(s) \in Nat /\ s \in Seq(CopyFrame(h)) 
      /\ \A i \in 1 .. Len(s) : s[i].new # r.new
      /\ r \in CopyFrame(h) /\ Building(h, r.new, r.last) /\ t = Append(s, r)
  BY StackedFields DEF News, Pushed
<1>2. /\ t \in Seq(CopyFrame(h)) /\ Len(t) = Len(s) + 1 /\ t # <<>> /\ t[Len(t)] = r
      /\ \A i \in 1 .. Len(s) : t[i] = s[i]
  BY <1>1, SeqPush
<1>3. 1 .. Len(t) = 1 .. Len(s) \cup {Len(t)} /\ Len(t) \notin 1 .. Len(s) /\ 1 .. Len(t) - 1 = 1 .. Len(s)
  BY <1>1, <1>2
<1>4. \A i \in 1 .. Len(s) : s[i].from # NULL
  <2>1. CASE s = <<>> BY <2>1
  <2>2. CASE s # <<>>
    <3>1. Last(s) = s[Len(s)] /\ Len(s) # 0 BY <1>1, <2>2, SeqPop
    <3>2. \A i \in 1 .. Len(s) : i = Len(s) \/ i \in 1 .. Len(s) - 1 BY <1>1
    <3> QED BY <2>2, <3>1, <3>2 DEF Stacked, Pushed
  <2> QED BY <2>1, <2>2
<1>5. \A i \in 1 .. Len(t) : Building(h, t[i].new, t[i].last) BY <1>1, <1>2, <1>3 DEF Stacked
<1>6. \A i, j \in 1 .. Len(t) : t[i].new = t[j].new => i = j BY <1>1, <1>2, <1>3 DEF Stacked
<1>7. \A i \in 1 .. Len(t) - 1 : t[i].from # NULL BY <1>2, <1>3, <1>4
<1>8. News(t) = News(s) \cup {r.new} BY <1>2, <1>3 DEF News
<1>9. Froms(t) = Froms(s) \cup {r.from} BY <1>2, <1>3 DEF Froms
<1> QED BY <1>2, <1>5, <1>6, <1>7, <1>8, <1>9 DEF Stacked

(* An activation returns. *)
LEMMA StackPop ==
  ASSUME NEW h, NEW s, Stacked(h, s), s # <<>>
  PROVE  /\ Stacked(h, Front(s)) /\ News(Front(s)) = News(s) \ {Last(s).new}
         /\ Froms(Front(s)) \subseteq Froms(s)
         /\ Last(s) \in CopyFrame(h) /\ Last(s).new \in News(s) /\ Last(s).from \in Froms(s)
         /\ Building(h, Last(s).new, Last(s).last)
         /\ Front(s) # <<>> => Last(Front(s)).from # NULL
<1>1. Len(s) \in Nat /\ s \in Seq(CopyFrame(h)) BY StackedFields
<1>2. /\ Len(s) \in Nat \ {0} /\ Last(s) = s[Len(s)] /\ Last(s) \in CopyFrame(h)
      /\ Front(s) \in Seq(CopyFrame(h)) /\ Len(Front(s)) = Len(s) - 1
      /\ \A i \in 1 .. Len(s) - 1 : Front(s)[i] = s[i]
  BY <1>1, SeqPop
<1>3. PICK t, n : t = Front(s) /\ n = Len(s) OBVIOUS
<1>4. /\ n \in Nat \ {0} /\ Len(t) = n - 1 /\ t \in Seq(CopyFrame(h)) /\ \A i \in 1 .. n - 1 : t[i] = s[i]
      /\ 1 .. n = 1 .. n - 1 \cup {n} /\ n \notin 1 .. n - 1 /\ Last(s) = s[n]
  BY <1>2, <1>3
<1>5. /\ \A i \in 1 .. n : Building(h, s[i].new, s[i].last)
      /\ \A i, j \in 1 .. n : s[i].new = s[j].new => i = j
      /\ \A i \in 1 .. n - 1 : s[i].from # NULL
  BY <1>3 DEF Stacked
<1>6. Stacked(h, t)
  <2>1. \A i \in 1 .. Len(t) - 1 : i \in 1 .. n - 1 BY <1>4
  <2> QED BY <1>4, <1>5, <2>1 DEF Stacked
<1>7. News(t) = News(s) \ {s[n].new} BY <1>3, <1>4, <1>5, SMTT(30) DEF News
<1>8. Froms(t) \subseteq Froms(s) BY <1>3, <1>4 DEF Froms
<1>9. s[n].new \in News(s) /\ s[n].from \in Froms(s) /\ Building(h, s[n].new, s[n].last)
  BY <1>3, <1>4, <1>5 DEF News, Froms
<1>10. t # <<>> => Last(t).from # NULL
  <2>1. SUFFICES ASSUME t # <<>> PROVE Last(t).from # NULL OBVIOUS
  <2>2. Len(t) \in Nat \ {0} /\ Last(t) = t[Len(t)] BY <1>4, <2>1, SeqPop
  <2> QED BY <1>4, <1>5, <2>2
<1> QED BY <1>2, <1>3, <1>4, <1>6, <1>7, <1>8, <1>9, <1>10

(* The heap may change where the stack does not look. *)
LEMMA StackedAgain ==
  ASSUME NEW h, NEW s, Stacked(h, s), NEW g, News(s) \subseteq Alive(g), Froms(s) \subseteq Alive(g) \cup {NULL},
         \A b \in News(s) : \A m \in Alive(h) \cup {NULL} :
           Building(h, b, m) => Building(g, b, m) /\ m \in Alive(g) \cup {NULL}
  PROVE  Stacked(g, s)
<1>1. /\ Len(s) \in Nat /\ s \in Seq(CopyFrame(h))
      /\ \A i \in 1 .. Len(s) : /\ s[i] \in CopyFrame(h) /\ s[i].last \in Alive(h) \cup {NULL}
                                /\ s[i].new \in News(s) /\ s[i].from \in Froms(s)
                                /\ Building(h, s[i].new, s[i].last)
  BY StackedFields DEF Stacked
<1>2. ASSUME NEW i \in 1 .. Len(s) PROVE s[i] \in CopyFrame(g) /\ Building(g, s[i].new, s[i].last)
  <2>1. /\ s[i].new \in Alive(g) /\ s[i].from \in Alive(g) \cup {NULL}
        /\ s[i].last \in Alive(g) \cup {NULL} /\ Building(g, s[i].new, s[i].last)
    BY <1>1
  <2> QED BY <1>1, <2>1 DEF CopyFrame
<1>3. s \in Seq(CopyFrame(g)) BY <1>1, <1>2, SeqAgain
<1> QED BY <1>2, <1>3 DEF Stacked

(* What a call that copies has to do with. *)
CopyRoots(s, place, n) == News(s) \cup (IF place = "return" THEN {n} ELSE {})
CopyAt(h, s, kind, place, n) ==
  /\ kind \in {"copy", "shallow"} /\ place \in {"copy", "walk", "return", "failed"}
  /\ IF place = "return" THEN n \in Alive(h) /\ h[n].next = NULL /\ n \notin News(s) ELSE n = NULL
  /\ kind = "shallow" => s = <<>>
  /\ place = "walk" => s # <<>>
  /\ place \in {"copy", "return"} /\ s # <<>> => Last(s).from # NULL

LEMMA CopyFacts ==
  ASSUME Inv, job \in {"copy", "shallow"}
  PROVE  /\ source \in Alive(items) /\ Stacked(items, stack) /\ CopyAt(items, stack, job, at, ret)
         /\ Open = News(stack) /\ Roots = CopyRoots(stack, at, ret)
         /\ Kept = held \cup ({source} \cup Froms(stack))
         /\ text = <<>> /\ offset = 0 /\ depth = 0
<1>1. CopyOK /\ BufferOK BY DEF Inv
<1>2. Stacked(items, stack) BY <1>1 DEF CopyOK, Stacked, CopyFrame
<1>3. CopyAt(items, stack, job, at, ret) BY <1>1 DEF CopyOK, CopyAt, News, Top
<1>4. Open = News(stack) /\ Roots = CopyRoots(stack, at, ret) /\ Kept = held \cup ({source} \cup Froms(stack))
  BY DEF Open, Roots, Kept, News, Froms, CopyRoots, Activations, ToSet
<1>5. text = <<>> /\ offset = 0 /\ depth = 0 BY <1>1 DEF BufferOK
<1>6. source \in Alive(items) BY <1>1 DEF CopyOK
<1> QED BY <1>2, <1>3, <1>4, <1>5, <1>6

LEMMA CopyAgain ==
  ASSUME NEW C, NEW s, stack' = s, source' \in Alive(items'), Stacked(items', s),
         CopyAt(items', s, job', at', ret'),
         Works(items', News(s), held', CopyRoots(s, at', ret'), C),
         ({source'} \cup Froms(s)) \cap C = {},
         text' = <<>>, offset' = 0, depth' = 0, strings' = Owned(items', Alive(items'))
  PROVE  Inv'
<1>1. job' \in {"copy", "shallow"} BY DEF CopyAt
<1>2. Open' = News(s) /\ Roots' = CopyRoots(s, at', ret') /\ Kept' = held' \cup ({source'} \cup Froms(s))
  BY <1>1 DEF Open, Roots, Kept, News, Froms, CopyRoots, Activations, ToSet
<1>3. CopyOK'
  <2>1. \A i \in 1 .. Len(s) : s[i].new \in News(s) BY DEF News
  <2> QED BY <1>1, <2>1 DEF CopyOK, CopyAt, Stacked, CopyFrame, Top
<1>4. JobOK' /\ IdleOK' /\ NumbersOK' /\ TextOK' BY <1>1 DEF JobOK, IdleOK, NumbersOK, TextOK
<1>5. BufferOK'
  <2>1. <<>> \in Seq(STRING) OBVIOUS
  <2> QED BY <1>1, <2>1, CJsonAssumption DEF BufferOK
<1>6. Kept' \cap C = {} BY <1>2 DEF Works
<1> QED BY <1>2, <1>3, <1>4, <1>5, <1>6, WorkAgain

LEMMA DupStartKeeps == ASSUME Inv, NEW item, NEW recurse \in BOOLEAN, DupStart(item, recurse) PROVE Inv'
<1>1. /\ job = "idle" /\ item \in Alive(items) /\ job' \in {"copy", "shallow"} /\ at' = "copy" /\ stack' = <<>>
      /\ source' = item /\ ret' = NULL /\ text' = text /\ offset' = offset /\ depth' = depth
      /\ items' = items /\ strings' = strings /\ held' = held
  BY LiveIsAlive DEF DupStart, Start, MayCall, parseVars, heapVars
<1>2. /\ Ready(items, held) /\ strings = Owned(items, Alive(items))
      /\ text = <<>> /\ offset = 0 /\ depth = 0
  BY <1>1, IdleFacts
<1>3. PICK s, C : s = <<>> /\ C = {} OBVIOUS
<1>4. News(s) = {} /\ Froms(s) = {} BY <1>3 DEF News, Froms
<1>5. Works(items, News(s), held, CopyRoots(s, "copy", NULL), C)
  BY <1>2, <1>3, <1>4 DEF Ready, Works, Island, CopyRoots
<1>6. Stacked(items, s) /\ CopyAt(items, s, job', "copy", NULL)
  BY <1>1, <1>3 DEF Stacked, CopyAt
<1>7. /\ Works(items', News(s), held', CopyRoots(s, at', ret'), C)
      /\ Stacked(items', s) /\ CopyAt(items', s, job', at', ret')
      /\ ({source'} \cup Froms(s)) \cap C = {} /\ source' \in Alive(items')
  BY <1>1, <1>3, <1>5, <1>6
<1>8. stack' = s /\ text' = <<>> /\ offset' = 0 /\ depth' = 0 /\ strings' = Owned(items', Alive(items'))
  BY <1>1, <1>2, <1>3
<1> QED BY <1>7, <1>8, CopyAgain

(* The copy of an item has the same strings, each of its own. *)
LEMMA CopiedFacts ==
  ASSUME NEW h, Typed(h), NEW x \in Alive(h), NEW n \in Nodes, NEW new, new = Copied(h[x], n)
  PROVE  /\ NewItem(h, n, new) /\ new.ref = FALSE /\ new.child = NULL /\ new.next = NULL
<1>1. h[x] \in ItemRec /\ h[x].value \in Nodes \cup {NULL} BY ItemFields
<1>2. /\ new \in ItemRec /\ new.next = NULL /\ new.prev = NULL /\ new.child = NULL /\ new.ref = FALSE
      /\ new.value \in {n, NULL}
  BY <1>1 DEF Copied, ItemRec
<1> HIDE DEF Copied
<1> QED BY <1>2 DEF NewItem

LEMMA DupEnterKeeps == ASSUME Inv, DupEnter PROVE Inv'
<1>1. /\ job \in {"copy", "shallow"} /\ at = "copy" /\ job' = job /\ source' = source
      /\ text' = text /\ offset' = offset /\ depth' = depth /\ held' = held
  BY DEF DupEnter, Running, NoText
<1>2. PICK s : s = stack OBVIOUS
<1>3. /\ source \in Alive(items) /\ Stacked(items, s) /\ CopyAt(items, s, job, at, ret)
      /\ Open = News(s) /\ Roots = News(s) /\ Kept = held \cup ({source} \cup Froms(s)) /\ ret = NULL
      /\ text = <<>> /\ offset = 0 /\ depth = 0
      /\ strings = Owned(items, Alive(items)) /\ strings \in Nat /\ Shape(items)
  BY <1>1, <1>2, CopyFacts, WorkFacts DEF CopyRoots, CopyAt
<1>4. PICK C : Works(items, News(s), held, News(s), C) /\ ({source} \cup Froms(s)) \cap C = {}
  BY <1>3, WorkFacts
<1>5. s # <<>> => Last(s).from # NULL BY <1>1, <1>3 DEF CopyAt
<1>6. PICK x : x = Original OBVIOUS
<1>7. x \in Alive(items) /\ x \notin C
  <2>1. CASE s = <<>> BY <1>2, <1>3, <1>4, <1>6, <2>1 DEF Original
  <2>2. CASE s # <<>>
    <3>1. x = Last(s).from BY <1>2, <1>6, <2>2 DEF Original, Top
    <3>2. Last(s) \in CopyFrame(items) /\ Last(s).from \in Froms(s) BY <1>3, <2>2, StackPop
    <3> QED BY <1>4, <1>5, <2>2, <3>1, <3>2 DEF CopyFrame
  <2> QED BY <2>1, <2>2
<1>8. CASE at' = "failed" /\ ret' = NULL /\ items' = items /\ strings' = strings /\ stack' = stack
  <2>1. CopyAt(items, s, job, "failed", NULL) BY <1>3 DEF CopyAt
  <2>2. CopyRoots(s, "failed", NULL) = News(s) BY DEF CopyRoots
  <2>3. /\ Works(items', News(s), held', CopyRoots(s, at', ret'), C)
        /\ Stacked(items', s) /\ CopyAt(items', s, job', at', ret')
        /\ ({source'} \cup Froms(s)) \cap C = {} /\ source' \in Alive(items')
    BY <1>1, <1>3, <1>4, <1>8, <2>1, <2>2
  <2>4. stack' = s /\ text' = <<>> /\ offset' = 0 /\ depth' = 0 /\ strings' = Owned(items', Alive(items'))
    BY <1>1, <1>2, <1>3, <1>8
  <2> QED BY <2>3, <2>4, CopyAgain
<1>9. ASSUME HasMemory(items), NEW n, n = NewAddress(items), NEW new, new = Copied(items[x], n),
             items' = cJSON_New_Item(items, new),
             strings' = strings + (IF OwnsName(new) THEN 1 ELSE 0) + (IF OwnsValue(new) THEN 1 ELSE 0),
             IF job = "shallow"
             THEN at' = "return" /\ ret' = n /\ stack' = stack
             ELSE /\ stack' = Append(stack, [new |-> n, from |-> items[x].child, last |-> NULL])
                  /\ at' = "walk" /\ ret' = ret
      PROVE  Inv'
  <2>1. n \in Nodes BY <1>9, FreeAddress
  <2>2. NewItem(items, n, new) /\ new.ref = FALSE /\ ~new.ref /\ new.child = NULL /\ new.next = NULL
    BY <1>3, <1>7, <1>9, <2>1, CopiedFacts DEF Shape
  <2>3. PICK g : g = items' OBVIOUS
  <2>4. HasMemory(items) /\ n = NewAddress(items) /\ g = cJSON_New_Item(items, new) BY <1>9, <2>3
  <2>5. /\ Works(g, News(s), held, News(s) \cup {n}, C \cup {n})
        /\ n \in Nodes /\ n \notin Alive(items) /\ n # NULL /\ Alive(g) = Alive(items) \cup {n} /\ g[n] = new
        /\ \A y \in Alive(items) : g[y] = items[y] /\ y # n
        /\ \A c \in Alive(items) : Run(items, c) \subseteq Run(g, c)
    <3>1. Born(items, g, n, new) BY <2>2, <2>4 DEF Born
    <3>2. Works(items, News(s), held, News(s), C) BY <1>4
    <3> QED BY <3>1, <3>2, WorkNew
  <2>6. strings' = Owned(g, Alive(g))
    <3>1. Owned(g, Alive(g)) = Owned(items, Alive(items)) + Bit(OwnsName(new)) + Bit(OwnsValue(new))
      BY <1>3, <2>2, <2>4, NewItemCount
    <3> QED BY <1>3, <1>9, <3>1 DEF Bit
  <2>7. News(s) \subseteq Alive(items) /\ Froms(s) \subseteq Alive(items) \cup {NULL}
    BY <1>3, StackedFields DEF Froms
  <2>8. Stacked(g, s)
    <3>1. ASSUME NEW b \in News(s), NEW m \in Alive(items) \cup {NULL}, Building(items, b, m)
          PROVE  Building(g, b, m) /\ m \in Alive(g) \cup {NULL}
      <4>1. b \in Alive(items) /\ items[b].child \in Alive(items) \cup {NULL}
        BY <1>3, <2>7, AliveFacts
      <4> QED BY <2>5, <3>1, <4>1 DEF Building, IsLast
    <3> QED BY <1>3, <2>5, <2>7, <3>1, StackedAgain
  <2>9. ({source} \cup Froms(s)) \cap (C \cup {n}) = {} BY <1>3, <1>4, <2>5, <2>7
  <2>10. n \notin News(s) /\ g[n].next = NULL /\ g[n].child = NULL BY <2>2, <2>5, <2>7
  <2>11. PICK E : E = C \cup {n} OBVIOUS
  <2>12. CASE job = "shallow"
    <3>1. at' = "return" /\ ret' = n /\ stack' = s BY <1>2, <1>9, <2>12
    <3>2. s = <<>> BY <1>3, <2>12 DEF CopyAt
    <3>3. CopyAt(g, s, job, "return", n) BY <2>5, <2>10, <2>12, <3>2 DEF CopyAt
    <3>4. CopyRoots(s, "return", n) = News(s) \cup {n} BY DEF CopyRoots
    <3>5. /\ Works(items', News(s), held', CopyRoots(s, at', ret'), E)
          /\ Stacked(items', s) /\ CopyAt(items', s, job', at', ret')
          /\ ({source'} \cup Froms(s)) \cap E = {} /\ source' \in Alive(items')
      BY <1>1, <1>3, <2>3, <2>5, <2>8, <2>9, <2>11, <3>1, <3>3, <3>4
    <3>6. text' = <<>> /\ offset' = 0 /\ depth' = 0 /\ strings' = Owned(items', Alive(items'))
      BY <1>1, <1>3, <2>3, <2>6
    <3> QED BY <3>1, <3>5, <3>6, CopyAgain
  <2>13. CASE job # "shallow"
    <3> DEFINE frame == [new |-> n, from |-> items[x].child, last |-> NULL]
    <3>1. stack' = Append(s, frame) /\ at' = "walk" /\ ret' = NULL BY <1>2, <1>3, <1>9, <2>13
    <3>2. /\ items[x].child \in Alive(items) \cup {NULL} /\ items[x].child \notin C
      BY <1>3, <1>4, <1>7, AliveFacts, WorksFields DEF Works, Island
    <3>3. PICK r : r = frame OBVIOUS
    <3>4. /\ r \in CopyFrame(g) /\ r.new = n /\ r.last = NULL /\ r.from = items[x].child
      BY <2>5, <3>2, <3>3 DEF CopyFrame
    <3> HIDE DEF frame
    <3>5. Building(g, r.new, r.last) BY <2>10, <3>4 DEF Building
    <3>6. PICK t : t = Append(s, r) OBVIOUS
    <3>7. /\ Stacked(g, t) /\ News(t) = News(s) \cup {n} /\ Froms(t) = Froms(s) \cup {r.from}
          /\ t # <<>>
      <4>1. Pushed(g, s, r, t) BY <1>5, <2>10, <3>4, <3>5, <3>6 DEF Pushed
      <4> QED BY <2>8, <3>4, <4>1, StackPush
    <3>8. Works(g, News(t), held, News(t), E)
      <4>1. Works(g, News(s), held, News(s) \cup {n}, E) BY <2>5, <2>11
      <4>2. \A o, o2 : Rings(g, o) /\ o \subseteq o2 => Rings(g, o2) BY DEF Rings
      <4> QED BY <4>1, <4>2, <3>7 DEF Works
    <3>9. CopyAt(g, t, job, "walk", NULL) /\ CopyRoots(t, "walk", NULL) = News(t)
      BY <1>1, <2>13, <3>7 DEF CopyAt, CopyRoots
    <3>10. ({source} \cup Froms(t)) \cap E = {}
      BY <1>3, <1>4, <2>5, <2>9, <2>11, <3>2, <3>4, <3>7
    <3>11. /\ Works(items', News(t), held', CopyRoots(t, at', ret'), E)
           /\ Stacked(items', t) /\ CopyAt(items', t, job', at', ret')
           /\ ({source'} \cup Froms(t)) \cap E = {} /\ source' \in Alive(items')
      BY <1>1, <1>3, <2>3, <2>5, <3>1, <3>7, <3>8, <3>9, <3>10
    <3>12. /\ stack' = t /\ text' = <<>> /\ offset' = 0 /\ depth' = 0
           /\ strings' = Owned(items', Alive(items'))
      BY <1>1, <1>3, <2>3, <2>6, <3>1, <3>3, <3>6
    <3> QED BY <3>11, <3>12, CopyAgain
  <2> QED BY <2>12, <2>13
<1> QED
  <2>1. CASE at' = "failed" /\ ret' = NULL /\ UNCHANGED <<items, strings, stack>> BY <1>8, <2>1
  <2>2. CASE /\ HasMemory(items)
             /\ LET n == NewAddress(items)
                    new == Copied(items[Original], n)
                IN /\ items' = cJSON_New_Item(items, new)
                   /\ strings' = strings + (IF OwnsName(new) THEN 1 ELSE 0) + (IF OwnsValue(new) THEN 1 ELSE 0)
                   /\ IF job = "shallow"
                      THEN /\ at' = "return" /\ ret' = n
                           /\ UNCHANGED stack
                      ELSE /\ stack' = Append(stack, [new |-> n, from |-> items[Original].child, last |-> NULL])
                           /\ at' = "walk"
                           /\ UNCHANGED ret
    BY <1>6, <1>9, <2>2
  <2> QED BY <2>1, <2>2 DEF DupEnter

(* The activation of a call that copies. *)
LEMMA CopyTop ==
  ASSUME Inv, job = "copy", stack # <<>>, NEW s, s = stack
  PROVE  /\ source \in Alive(items) /\ Stacked(items, s) /\ Stacked(items, Front(s)) /\ CopyAt(items, s, job, at, ret)
         /\ Top = Last(s) /\ Last(s) \in CopyFrame(items)
         /\ Last(s).new \in News(s) /\ Last(s).new \in Alive(items)
         /\ Last(s).from \in Froms(s) /\ Last(s).from \in Alive(items) \cup {NULL}
         /\ Last(s).last \in Alive(items) \cup {NULL} /\ Building(items, Last(s).new, Last(s).last)
         /\ News(Front(s)) = News(s) \ {Last(s).new} /\ News(s) \subseteq Alive(items)
         /\ Froms(Front(s)) \subseteq Froms(s) /\ Froms(s) \subseteq Alive(items) \cup {NULL}
         /\ (Front(s) # <<>> => Last(Front(s)).from # NULL)
         /\ Open = News(s) /\ Roots = CopyRoots(s, at, ret) /\ Kept = held \cup ({source} \cup Froms(s))
         /\ text = <<>> /\ offset = 0 /\ depth = 0 /\ Shape(items)
         /\ strings = Owned(items, Alive(items)) /\ strings \in Nat
<1>1. /\ source \in Alive(items) /\ Stacked(items, s) /\ CopyAt(items, s, job, at, ret)
      /\ Open = News(s) /\ Roots = CopyRoots(s, at, ret) /\ Kept = held \cup ({source} \cup Froms(s))
      /\ text = <<>> /\ offset = 0 /\ depth = 0
      /\ strings = Owned(items, Alive(items)) /\ strings \in Nat /\ Shape(items)
  BY CopyFacts, WorkFacts
<1>2. /\ Stacked(items, Front(s)) /\ News(Front(s)) = News(s) \ {Last(s).new}
      /\ Froms(Front(s)) \subseteq Froms(s)
      /\ Last(s) \in CopyFrame(items) /\ Last(s).new \in News(s) /\ Last(s).from \in Froms(s)
      /\ Building(items, Last(s).new, Last(s).last)
      /\ (Front(s) # <<>> => Last(Front(s)).from # NULL)
  BY <1>1, StackPop
<1>3. News(s) \subseteq Alive(items) /\ Froms(s) \subseteq Alive(items) \cup {NULL}
  BY <1>1, StackedFields DEF Froms
<1>4. Last(s).last \in Alive(items) \cup {NULL} BY <1>2 DEF CopyFrame
<1>5. Top = Last(s) BY DEF Top
<1> QED BY <1>1, <1>2, <1>3, <1>4, <1>5

LEMMA DupWalkKeeps == ASSUME Inv, DupWalk PROVE Inv'
<1>1. /\ job = "copy" /\ at = "walk" /\ job' = job /\ source' = source /\ stack # <<>>
      /\ text' = text /\ offset' = offset /\ depth' = depth /\ held' = held /\ strings' = strings
  BY DEF DupWalk, Running, NoText, Inv, CopyOK
<1>2. PICK s, t, a, last, g : s = stack /\ t = Front(s) /\ a = Last(s).new /\ last = Last(s).last /\ g = items' OBVIOUS
<1>3. /\ source \in Alive(items) /\ Stacked(items, s) /\ Stacked(items, t) /\ CopyAt(items, s, job, at, ret)
      /\ Top = Last(s) /\ Last(s).from \in Froms(s) /\ a \in News(s) /\ a \in Alive(items)
      /\ last \in Alive(items) \cup {NULL} /\ Building(items, a, last)
      /\ News(t) = News(s) \ {a} /\ News(s) \subseteq Alive(items)
      /\ Froms(t) \subseteq Froms(s) /\ Froms(s) \subseteq Alive(items) \cup {NULL}
      /\ (t # <<>> => Last(t).from # NULL)
      /\ Open = News(s) /\ Roots = CopyRoots(s, at, ret) /\ Kept = held \cup ({source} \cup Froms(s))
      /\ text = <<>> /\ offset = 0 /\ depth = 0
      /\ strings = Owned(items, Alive(items))
  BY <1>1, <1>2, CopyTop
<1>4. ret = NULL /\ Roots = News(s) BY <1>1, <1>3 DEF CopyAt, CopyRoots
<1>5. PICK C : Works(items, News(s), held, News(s), C) /\ ({source} \cup Froms(s)) \cap C = {}
  BY <1>3, <1>4, WorkFacts
<1>6. CASE Top.from # NULL
  <2>1. at' = "copy" /\ items' = items /\ stack' = stack /\ ret' = ret BY <1>6 DEF DupWalk
  <2>2. CopyAt(items, s, job, "copy", NULL) /\ CopyRoots(s, "copy", NULL) = News(s)
    BY <1>1, <1>3, <1>6 DEF CopyAt, CopyRoots
  <2>3. /\ Works(items', News(s), held', CopyRoots(s, at', ret'), C)
        /\ Stacked(items', s) /\ CopyAt(items', s, job', at', ret')
        /\ ({source'} \cup Froms(s)) \cap C = {} /\ source' \in Alive(items')
    BY <1>1, <1>3, <1>4, <1>5, <2>1, <2>2
  <2>4. stack' = s /\ text' = <<>> /\ offset' = 0 /\ depth' = 0 /\ strings' = Owned(items', Alive(items'))
    BY <1>1, <1>2, <1>3, <2>1
  <2> QED BY <2>3, <2>4, CopyAgain
<1>7. CASE Top.from = NULL
  <2>1. /\ at' = "return" /\ ret' = a /\ stack' = t
        /\ g = IF items[a].child = NULL THEN items ELSE [items EXCEPT ![items[a].child].prev = last]
    BY <1>2, <1>3, <1>7 DEF DupWalk
  <2>2. PICK open, roots : open = News(s) /\ roots = News(s) OBVIOUS
  <2>3. ListClosed(items, g, roots, a, last) BY <1>3, <2>1, <2>2 DEF ListClosed
  <2>4. Works(items, open, held, roots, C) BY <1>5, <2>2
  <2>5. /\ Works(g, open \ {a}, held, roots, C) /\ Relinked(items, g)
        /\ \A x \in Alive(items) : g[x].next = items[x].next
        /\ \A b \in roots : \A m \in Alive(items) \cup {NULL} : Building(items, b, m) => Building(g, b, m)
    BY <2>3, <2>4, CloseBuilding
  <2>6. Alive(g) = Alive(items) /\ Owned(g, Alive(g)) = Owned(items, Alive(items))
    BY <2>5, RelinkedCount DEF Relinked
  <2>7. Stacked(g, t)
    <3>1. \A b \in News(t) : \A m \in Alive(items) \cup {NULL} :
            Building(items, b, m) => Building(g, b, m) /\ m \in Alive(g) \cup {NULL}
      BY <1>3, <2>2, <2>5, <2>6
    <3>2. News(t) \subseteq Alive(g) /\ Froms(t) \subseteq Alive(g) \cup {NULL} BY <1>3, <2>6
    <3> QED BY <1>3, <3>1, <3>2, StackedAgain
  <2>8. CopyAt(g, t, job, "return", a)
    <3>1. a \in Alive(g) /\ g[a].next = NULL /\ a \notin News(t) BY <1>3, <2>5, <2>6 DEF Building
    <3> QED BY <1>1, <1>3, <3>1 DEF CopyAt
  <2>9. CopyRoots(t, "return", a) = roots /\ News(t) = open \ {a} BY <1>3, <2>2 DEF CopyRoots
  <2>10. /\ Works(items', News(t), held', CopyRoots(t, at', ret'), C)
         /\ Stacked(items', t) /\ CopyAt(items', t, job', at', ret')
         /\ ({source'} \cup Froms(t)) \cap C = {} /\ source' \in Alive(items')
    BY <1>1, <1>2, <1>3, <1>5, <2>1, <2>5, <2>6, <2>7, <2>8, <2>9
  <2>11. text' = <<>> /\ offset' = 0 /\ depth' = 0 /\ strings' = Owned(items', Alive(items'))
    BY <1>1, <1>2, <1>3, <2>6
  <2> QED BY <2>1, <2>10, <2>11, CopyAgain
<1> QED BY <1>6, <1>7

LEMMA DupLinkKeeps == ASSUME Inv, DupLink PROVE Inv'
<1>1. /\ job = "copy" /\ at = "return" /\ job' = job /\ source' = source /\ stack # <<>> /\ at' = "walk" /\ ret' = NULL
      /\ text' = text /\ offset' = offset /\ depth' = depth /\ held' = held /\ strings' = strings
      /\ items' = IF Top.last # NULL THEN suffix_object(items, Top.last, ret) ELSE [items EXCEPT ![Top.new].child = ret]
      /\ stack' = Append(Front(stack), [Top EXCEPT !.last = ret, !.from = items[@].next])
  BY DEF DupLink, Running, NoText
<1>2. PICK s, t, a, from, last, n, g :
         /\ s = stack /\ t = Front(s) /\ a = Last(s).new /\ from = Last(s).from /\ last = Last(s).last
         /\ n = ret /\ g = items'
  OBVIOUS
<1>3. /\ source \in Alive(items) /\ Stacked(items, s) /\ Stacked(items, t) /\ CopyAt(items, s, job, at, ret)
      /\ Top = Last(s) /\ Last(s) \in CopyFrame(items) /\ from \in Froms(s) /\ from \in Alive(items) \cup {NULL}
      /\ a \in News(s) /\ a \in Alive(items)
      /\ last \in Alive(items) \cup {NULL} /\ Building(items, a, last)
      /\ News(t) = News(s) \ {a} /\ News(s) \subseteq Alive(items)
      /\ Froms(t) \subseteq Froms(s) /\ Froms(s) \subseteq Alive(items) \cup {NULL}
      /\ (t # <<>> => Last(t).from # NULL)
      /\ Open = News(s) /\ Roots = CopyRoots(s, at, ret) /\ Kept = held \cup ({source} \cup Froms(s))
      /\ text = <<>> /\ offset = 0 /\ depth = 0 /\ Shape(items)
      /\ strings = Owned(items, Alive(items))
  BY <1>1, <1>2, CopyTop
<1>4. n \in Alive(items) /\ items[n].next = NULL /\ n \notin News(s) /\ from # NULL /\ Roots = News(s) \cup {n}
  BY <1>1, <1>2, <1>3 DEF CopyAt, CopyRoots
<1>5. PICK C : Works(items, News(s), held, News(s) \cup {n}, C) /\ ({source} \cup Froms(s)) \cap C = {}
  BY <1>3, <1>4, WorkFacts
<1>6. PICK open, roots : open = News(s) /\ roots = News(s) \cup {n} OBVIOUS
<1>7. Linked(items, g, open, roots, a, last, n) /\ Works(items, open, held, roots, C)
  BY <1>1, <1>2, <1>3, <1>4, <1>5, <1>6 DEF Linked
<1>8. /\ Works(g, open, held, roots \ {n}, C) /\ Relinked(items, g) /\ Building(g, a, n)
      /\ \A b \in (roots \cap open) \ {a} : \A m \in Alive(items) \cup {NULL} :
           Building(items, b, m) => Building(g, b, m)
  BY <1>7, LinkBuilding
<1>9. Alive(g) = Alive(items) /\ Owned(g, Alive(g)) = Owned(items, Alive(items))
  BY <1>8, RelinkedCount DEF Relinked
<1>10. Stacked(g, t)
  <2>1. \A b \in News(t) : \A m \in Alive(items) \cup {NULL} :
          Building(items, b, m) => Building(g, b, m) /\ m \in Alive(g) \cup {NULL}
    BY <1>3, <1>6, <1>8, <1>9
  <2>2. News(t) \subseteq Alive(g) /\ Froms(t) \subseteq Alive(g) \cup {NULL} BY <1>3, <1>9
  <2> QED BY <1>3, <2>1, <2>2, StackedAgain
<1>11. items[from].next \in Alive(items) \cup {NULL} /\ items[from].next \notin C
  BY <1>3, <1>4, <1>5, AliveFacts, WorksFields DEF Works, Island
<1>12. PICK top : top = Last(s) OBVIOUS
<1>13. top \in CopyFrame(items) /\ top.new = a /\ top.from = from BY <1>2, <1>3, <1>12
<1>14. PICK r : r = [top EXCEPT !.last = n, !.from = items[@].next] OBVIOUS
<1>15. r \in CopyFrame(g) /\ r.new = a /\ r.last = n /\ r.from = items[from].next
  BY <1>4, <1>9, <1>11, <1>13, <1>14 DEF CopyFrame
<1>16. PICK u : u = Append(t, r) OBVIOUS
<1>17. stack' = u BY <1>1, <1>2, <1>3, <1>12, <1>14, <1>16
<1>18. /\ Stacked(g, u) /\ News(u) = News(t) \cup {r.new} /\ Froms(u) = Froms(t) \cup {r.from}
       /\ u # <<>>
  <2>1. Pushed(g, t, r, u) BY <1>3, <1>8, <1>15, <1>16 DEF Pushed
  <2> QED BY <1>10, <2>1, StackPush
<1>19. News(u) = open /\ roots \ {n} = News(u) BY <1>3, <1>4, <1>6, <1>15, <1>18
<1>20. CopyAt(g, u, job, "walk", NULL) /\ CopyRoots(u, "walk", NULL) = News(u)
  BY <1>1, <1>18 DEF CopyAt, CopyRoots
<1>21. ({source} \cup Froms(u)) \cap C = {} BY <1>3, <1>5, <1>11, <1>15, <1>18
<1>22. /\ Works(items', News(u), held', CopyRoots(u, at', ret'), C)
       /\ Stacked(items', u) /\ CopyAt(items', u, job', at', ret')
       /\ ({source'} \cup Froms(u)) \cap C = {} /\ source' \in Alive(items')
  BY <1>1, <1>2, <1>3, <1>8, <1>9, <1>18, <1>19, <1>20, <1>21
<1>23. text' = <<>> /\ offset' = 0 /\ depth' = 0 /\ strings' = Owned(items', Alive(items'))
  BY <1>1, <1>2, <1>3, <1>9
<1> QED BY <1>17, <1>22, <1>23, CopyAgain

LEMMA DupFailsKeeps == ASSUME Inv, DupFails PROVE Inv'
<1>1. /\ job = "copy" /\ at = "failed" /\ job' = job /\ source' = source /\ stack # <<>> /\ at' = at /\ ret' = ret
      /\ text' = text /\ offset' = offset /\ depth' = depth /\ held' = held /\ stack' = Front(stack)
      /\ items' = cJSON_Delete(items, Top.new)
      /\ strings' = strings - Owned(items, Doomed(items, Top.new))
  BY DEF DupFails, Unwind, Running, NoText
<1>2. PICK s, t, a, g, D : s = stack /\ t = Front(s) /\ a = Last(s).new /\ g = items' /\ D = Doomed(items, a) OBVIOUS
<1>3. /\ source \in Alive(items) /\ Stacked(items, t) /\ CopyAt(items, s, job, at, ret)
      /\ Top = Last(s) /\ a \in News(s) /\ a \in Alive(items)
      /\ News(t) = News(s) \ {a} /\ News(s) \subseteq Alive(items)
      /\ Froms(t) \subseteq Froms(s) /\ Froms(s) \subseteq Alive(items) \cup {NULL}
      /\ (t # <<>> => Last(t).from # NULL)
      /\ Open = News(s) /\ Roots = CopyRoots(s, at, ret) /\ Kept = held \cup ({source} \cup Froms(s))
      /\ text = <<>> /\ offset = 0 /\ depth = 0 /\ Shape(items)
      /\ strings = Owned(items, Alive(items))
  BY <1>1, <1>2, CopyTop
<1>4. ret = NULL /\ Roots = News(s) BY <1>1, <1>3 DEF CopyAt, CopyRoots
<1>5. PICK C : Works(items, News(s), held, News(s), C) /\ ({source} \cup Froms(s)) \cap C = {}
  BY <1>3, <1>4, WorkFacts
<1>6. PICK open, roots : open = News(s) /\ roots = News(s) OBVIOUS
<1>7. Deleted(items, g, roots, a, D) /\ Works(items, open, held, roots, C)
  BY <1>1, <1>2, <1>3, <1>5, <1>6 DEF Deleted
<1>8. Works(g, open \ {a}, held, roots \ {a}, C \ D) /\ Trimmed(items, g, roots, a, C, D)
  BY <1>7, WorkDelete
<1>9. Owned(g, Alive(g)) = Owned(items, Alive(items)) - Owned(items, D)
  BY <1>1, <1>2, <1>3, DeletedCount
<1>10. source \in Alive(g) /\ Froms(t) \subseteq Alive(g) \cup {NULL} /\ News(t) \subseteq Alive(g)
  BY <1>3, <1>5, <1>6, <1>8 DEF Trimmed
<1>11. Stacked(g, t)
  <2>1. ASSUME NEW b \in News(t), NEW m \in Alive(items) \cup {NULL}, Building(items, b, m)
        PROVE  Building(g, b, m) /\ m \in Alive(g) \cup {NULL}
    <3>1. b \in Alive(items) \ D /\ g[b] = items[b] /\ b \in roots /\ ~items[b].ref /\ NULL \notin Alive(items)
      BY <1>3, <1>6, <1>7, <1>8, WorksFields DEF Trimmed, Works
    <3>2. CASE m = NULL BY <2>1, <3>1, <3>2 DEF Building
    <3>3. CASE m # NULL
      <4>1. PICK c : c = items[b].child OBVIOUS
      <4>2. c # NULL /\ IsLast(items, c, m) /\ c \in Alive(items) BY <1>3, <2>1, <3>1, <3>3, <4>1, AliveFacts DEF Building
      <4>3. c \in Alive(items) \ D /\ c \in Alive(g) BY <1>8, <3>1, <4>1, <4>2 DEF Trimmed
      <4>4. m \in Run(g, c) BY <1>8, <4>2, <4>3 DEF Trimmed, IsLast
      <4>5. Shape(g) BY <1>8 DEF Works
      <4>6. m \in Alive(g) BY <4>3, <4>4, <4>5, RunFacts
      <4>7. g[m].next = NULL BY <1>8, <4>2, <4>6 DEF Trimmed, IsLast
      <4> QED BY <2>1, <3>1, <3>3, <4>1, <4>2, <4>4, <4>6, <4>7 DEF Building, IsLast
    <3> QED BY <3>2, <3>3
  <2> QED BY <1>3, <1>10, <2>1, StackedAgain
<1>12. CopyAt(g, t, job, "failed", NULL) /\ CopyRoots(t, "failed", NULL) = News(t)
  BY <1>1 DEF CopyAt, CopyRoots
<1>13. PICK E : E = C \ D OBVIOUS
<1>14. /\ Works(items', News(t), held', CopyRoots(t, at', ret'), E)
       /\ Stacked(items', t) /\ CopyAt(items', t, job', at', ret')
       /\ ({source'} \cup Froms(t)) \cap E = {} /\ source' \in Alive(items')
  BY <1>1, <1>2, <1>3, <1>4, <1>5, <1>6, <1>8, <1>10, <1>11, <1>12, <1>13
<1>15. text' = <<>> /\ offset' = 0 /\ depth' = 0 /\ strings' = Owned(items', Alive(items')) /\ stack' = t
  BY <1>1, <1>2, <1>3, <1>9
<1> QED BY <1>14, <1>15, CopyAgain

LEMMA DupDoneKeeps == ASSUME Inv, DupDone PROVE Inv'
<1>1. job \in {"copy", "shallow"} /\ stack = <<>> /\ items' = items /\ strings' = strings BY DEF DupDone
<1>2. /\ CopyAt(items, stack, job, at, ret) /\ Open = News(stack) /\ Roots = CopyRoots(stack, at, ret)
      /\ strings = Owned(items, Alive(items)) /\ Shape(items)
  BY <1>1, CopyFacts, WorkFacts
<1>3. News(stack) = {} BY <1>1 DEF News
<1>4. PICK C : Works(items, {}, held, Roots, C) BY <1>2, <1>3, WorkFacts
<1>5. CASE at = "return" /\ Returns(ret)
  <2>1. PICK n : n = ret OBVIOUS
  <2>2. n \in Alive(items) /\ items[n].next = NULL /\ Roots = {n} BY <1>2, <1>3, <1>5, <2>1 DEF CopyAt, CopyRoots
  <2>3. {n} \ {NULL} = {n} /\ n \notin held BY <1>4, <2>2, WorksFields DEF Works
  <2>4. Works(items', {}, held, {n} \ {NULL}, C) /\ items'[n].next = NULL /\ n \notin held /\ Returns(n)
    BY <1>1, <1>4, <1>5, <2>1, <2>2, <2>3
  <2> QED BY <1>1, <1>2, <2>4, WorkReturns
<1>6. CASE at = "failed" /\ Returns(NULL)
  <2>1. PICK n : n = NULL OBVIOUS
  <2>2. Roots = {n} \ {NULL} BY <1>2, <1>3, <1>6, <2>1 DEF CopyRoots
  <2>3. n \notin held BY <1>4, <2>1, WorksFields
  <2>4. Works(items', {}, held, {n} \ {NULL}, C) /\ n \notin held /\ Returns(n) /\ n = NULL
    BY <1>1, <1>4, <1>6, <2>1, <2>2, <2>3
  <2> QED BY <1>1, <1>2, <2>4, WorkReturns
<1> QED BY <1>5, <1>6 DEF DupDone

-----------------------------------------------------------------------------
(* Parsing. *)

Heads(s) == {s[i].head : i \in 1 .. Len(s)}
ItemOf(src, s) == IF s = <<>> THEN src ELSE Last(s).current
TextRoots(src, s) == ({src} \cup Heads(s)) \ {NULL}

(* The frames of a parse, from the outermost in. *)
Filled(h, src, s) ==
  /\ s \in Seq(Frame(h))
  /\ \A i \in 1 .. Len(s) :
       /\ Filling(h, s[i])
       /\ s[i].item = IF i = 1 THEN src ELSE s[i - 1].current
       /\ s[i].head # src
  /\ \A i, j \in 1 .. Len(s) : s[i].head # NULL /\ s[i].head = s[j].head => i = j

TextAt(h, src, s, place) ==
  /\ place \in {"start", "value", "after", "element", "name", "close", "failed", "starved", "garbage"}
  /\ IF src = NULL THEN s = <<>> /\ place \in {"start", "starved"}
     ELSE src \in Alive(h) /\ h[src].next = NULL /\ place # "start"
  /\ place \in {"value", "name"} => h[ItemOf(src, s)].child = NULL /\ h[ItemOf(src, s)].value = NULL
  /\ place = "name" => h[ItemOf(src, s)].string = NULL /\ ~h[ItemOf(src, s)].const
  /\ place \in {"element", "name", "close"} => s # <<>>
  /\ place \in {"value", "name", "after"} => ItemOf(src, s) # NULL

ReadTo(o, d, s, place) == o \in ReachOf(place) /\ d \in 0 .. NestingLimit /\ Len(s) <= d

LEMMA TextFacts ==
  ASSUME Inv, job = "text"
  PROVE  /\ Filled(items, source, stack) /\ TextAt(items, source, stack, at) /\ ReadTo(offset, depth, stack, at)
         /\ \E C : Works(items, {}, {}, TextRoots(source, stack), C)
         /\ held = {} /\ ret = NULL /\ text # <<>> /\ text \in Seq(STRING) /\ Item = ItemOf(source, stack)
         /\ strings = Owned(items, Alive(items)) /\ strings \in Nat /\ Shape(items)
<1>1. TextOK /\ BufferOK BY DEF Inv
<1>2. Item = ItemOf(source, stack) BY DEF Item, ItemOf, Top
<1>3. Filled(items, source, stack) BY <1>1 DEF TextOK, Filled
<1>4. TextAt(items, source, stack, at) BY <1>1, <1>2 DEF TextOK, TextAt
<1>5. ReadTo(offset, depth, stack, at) /\ text \in Seq(STRING) BY <1>1 DEF BufferOK, ReadTo
<1>6. held = {} /\ ret = NULL /\ text # <<>> BY <1>1 DEF TextOK
<1>7. Open = {} /\ Roots = TextRoots(source, stack) BY DEF Open, Roots, TextRoots, Heads, Activations, ToSet
<1> QED BY <1>2, <1>3, <1>4, <1>5, <1>6, <1>7, WorkFacts, SMTT(30)

LEMMA TextAgain ==
  ASSUME NEW C, NEW s, NEW src, job' = "text", stack' = s, source' = src, held' = {}, ret' = NULL,
         text' = text, text # <<>>, text \in Seq(STRING),
         Filled(items', src, s), TextAt(items', src, s, at'), Works(items', {}, {}, TextRoots(src, s), C),
         strings' = Owned(items', Alive(items')), ReadTo(offset', depth', s, at')
  PROVE  Inv'
<1>1. /\ Open' = {} /\ Roots' = TextRoots(src, s) /\ Kept' = {}
  BY DEF Open, Roots, Kept, TextRoots, Heads, Activations, ToSet
<1>2. Item' = ItemOf(src, s) BY DEF Item, ItemOf, Top
<1>3. TextOK' BY <1>2 DEF TextOK, TextAt, Filled
<1>4. BufferOK'
  <2>1. ReachOf(at)' = ReachOf(at') BY DEF ReachOf
  <2> QED BY <2>1 DEF BufferOK, ReadTo
<1>5. JobOK' /\ IdleOK' /\ NumbersOK' /\ CopyOK' BY DEF JobOK, IdleOK, NumbersOK, CopyOK
<1> QED BY <1>1, <1>3, <1>4, <1>5, WorkAgain

LEMMA FilledFields ==
  ASSUME NEW h, NEW src, NEW s, Filled(h, src, s)
  PROVE  /\ Len(s) \in Nat /\ s \in Seq(Frame(h))
         /\ \A i \in 1 .. Len(s) : /\ s[i] \in Frame(h) /\ s[i].item \in Alive(h) /\ s[i].kind \in {"Array", "Object"}
                                   /\ s[i].head \in Alive(h) \cup {NULL} /\ s[i].current \in Alive(h) \cup {NULL}
                                   /\ s[i].head \in Heads(s) /\ Filling(h, s[i]) /\ s[i].head # src
<1>1. Len(s) \in Nat /\ s \in Seq(Frame(h)) BY DEF Filled
<1>2. \A i \in 1 .. Len(s) : s[i] \in Frame(h) BY <1>1
<1> QED BY <1>1, <1>2 DEF Frame, Heads, Filled

LEMMA FilledAgain ==
  ASSUME NEW h, NEW src, NEW s, Filled(h, src, s), NEW g,
         \A i \in 1 .. Len(s) : s[i] \in Frame(g) /\ Filling(g, s[i])
  PROVE  Filled(g, src, s)
<1>1. s \in Seq(Frame(g)) BY FilledFields, SeqAgain
<1> QED BY <1>1 DEF Filled

(* A frame is entered. *)
Deeper(h, src, s, r) ==
  /\ r \in Frame(h) /\ Filling(h, r) /\ r.item = ItemOf(src, s) /\ r.head # src
  /\ r.head = NULL \/ r.head \notin Heads(s)
Entered(h, src, s, r, t) == Deeper(h, src, s, r) /\ t = Append(s, r)
LEMMA FillPush ==
  ASSUME NEW h, NEW src, NEW s, Filled(h, src, s), NEW r, NEW t, Entered(h, src, s, r, t)
  PROVE  /\ Filled(h, src, t) /\ Heads(t) = Heads(s) \cup {r.head} /\ Len(t) = Len(s) + 1
         /\ t # <<>> /\ Last(t) = r
<1> Deeper(h, src, s, r) /\ t = Append(s, r) BY DEF Entered
<1>1. /\ Len(s) \in Nat /\ s \in Seq(Frame(h)) /\ r \in Frame(h) BY FilledFields DEF Deeper
<1>2. /\ t \in Seq(Frame(h)) /\ Len(t) = Len(s) + 1 /\ t # <<>> /\ t[Len(t)] = r
      /\ \A i \in 1 .. Len(s) : t[i] = s[i]
  BY <1>1, SeqPush
<1>3. PICK n : n = Len(s) OBVIOUS
<1>4. /\ n \in Nat /\ Len(t) = n + 1 /\ t[n + 1] = r /\ \A i \in 1 .. n : t[i] = s[i]
      /\ 1 .. n + 1 = 1 .. n \cup {n + 1} /\ n + 1 \notin 1 .. n /\ \A i \in 1 .. n + 1 : i # 1 => i - 1 \in 1 .. n
      /\ n + 1 - 1 = n
  BY <1>1, <1>2, <1>3
<1>5. /\ \A i \in 1 .. n : Filling(h, s[i]) /\ s[i].head # src /\ s[i].item = IF i = 1 THEN src ELSE s[i - 1].current
      /\ \A i, j \in 1 .. n : s[i].head # NULL /\ s[i].head = s[j].head => i = j
  BY <1>3 DEF Filled
<1>6. r.item = IF n + 1 = 1 THEN src ELSE t[n].current
  <2>1. CASE s = <<>> BY <1>3, <2>1 DEF ItemOf, Deeper
  <2>2. CASE s # <<>>
    <3>1. n \in Nat \ {0} /\ Last(s) = s[n] BY <1>1, <1>3, <2>2, SeqPop
    <3>2. t[n] = s[n] BY <1>4, <3>1
    <3> QED BY <2>2, <3>1, <3>2 DEF ItemOf, Deeper
  <2> QED BY <2>1, <2>2
<1>7. ASSUME NEW i \in 1 .. n + 1
      PROVE  Filling(h, t[i]) /\ t[i].head # src /\ t[i].item = IF i = 1 THEN src ELSE t[i - 1].current
  <2>1. CASE i = n + 1 BY <1>4, <1>6, <2>1 DEF Deeper
  <2>2. CASE i \in 1 .. n
    <3>1. t[i] = s[i] /\ (i # 1 => t[i - 1] = s[i - 1]) BY <1>4, <2>2
    <3> QED BY <1>5, <2>2, <3>1
  <2> QED BY <1>4, <2>1, <2>2
<1>8. \A i \in 1 .. n : r.head # NULL => s[i].head # r.head BY <1>3 DEF Deeper, Heads
<1>9. \A i, j \in 1 .. n + 1 : t[i].head # NULL /\ t[i].head = t[j].head => i = j
  BY <1>4, <1>5, <1>8
<1>10. Heads(t) = Heads(s) \cup {r.head} BY <1>3, <1>4 DEF Heads
<1>11. Filled(h, src, t) BY <1>2, <1>4, <1>7, <1>9 DEF Filled
<1>12. Last(t) = r BY <1>2 DEF Last
<1> QED BY <1>2, <1>10, <1>11, <1>12

(* A frame is left. *)
LEMMA FillPop ==
  ASSUME NEW h, NEW src, NEW s, Filled(h, src, s), s # <<>>, NEW t, t = Front(s)
  PROVE  /\ Filled(h, src, t) /\ Deeper(h, src, t, Last(s)) /\ Heads(s) = Heads(t) \cup {Last(s).head}
         /\ Len(s) \in Nat \ {0} /\ Len(t) = Len(s) - 1 /\ Last(s) = s[Len(s)]
         /\ \A i \in 1 .. Len(t) : i \in 1 .. Len(s) /\ i # Len(s) /\ t[i] = s[i]
<1>1. /\ Len(s) \in Nat /\ s \in Seq(Frame(h)) BY FilledFields
<1>2. /\ Len(s) \in Nat \ {0} /\ Last(s) = s[Len(s)] /\ Last(s) \in Frame(h)
      /\ t \in Seq(Frame(h)) /\ Len(t) = Len(s) - 1
      /\ \A i \in 1 .. Len(s) - 1 : t[i] = s[i]
  BY <1>1, SeqPop
<1>3. PICK n, r : n = Len(t) /\ r = Last(s) OBVIOUS
<1>4. /\ n \in Nat /\ Len(s) = n + 1 /\ s[n + 1] = r /\ r \in Frame(h) /\ \A i \in 1 .. n : t[i] = s[i]
      /\ 1 .. n + 1 = 1 .. n \cup {n + 1} /\ n + 1 \notin 1 .. n /\ \A i \in 1 .. n : i # 1 => i - 1 \in 1 .. n
      /\ n + 1 - 1 = n
  BY <1>2, <1>3
<1>5. /\ \A i \in 1 .. n + 1 :
           Filling(h, s[i]) /\ s[i].head # src /\ s[i].item = IF i = 1 THEN src ELSE s[i - 1].current
      /\ \A i, j \in 1 .. n + 1 : s[i].head # NULL /\ s[i].head = s[j].head => i = j
  BY <1>4 DEF Filled
<1>6. Filled(h, src, t)
  <2>1. ASSUME NEW i \in 1 .. n
        PROVE  Filling(h, t[i]) /\ t[i].head # src /\ t[i].item = IF i = 1 THEN src ELSE t[i - 1].current
    <3>1. i \in 1 .. n + 1 /\ t[i] = s[i] /\ (i # 1 => t[i - 1] = s[i - 1]) BY <1>4
    <3> QED BY <1>5, <3>1
  <2>2. \A i, j \in 1 .. n : t[i].head # NULL /\ t[i].head = t[j].head => i = j BY <1>4, <1>5
  <2> QED BY <1>2, <1>3, <2>1, <2>2 DEF Filled
<1>7. r.item = ItemOf(src, t)
  <2>1. r.item = IF n + 1 = 1 THEN src ELSE s[n].current BY <1>4, <1>5
  <2>2. CASE t = <<>>
    <3>1. n = 0 BY <1>3, <2>2
    <3> QED BY <2>1, <2>2, <3>1 DEF ItemOf
  <2>3. CASE t # <<>>
    <3>1. n \in Nat \ {0} /\ Last(t) = t[n] BY <1>2, <1>3, <2>3, SeqPop
    <3>2. t[n] = s[n] /\ n + 1 # 1 BY <1>4, <3>1
    <3> QED BY <2>1, <2>3, <3>1, <3>2 DEF ItemOf
  <2> QED BY <2>2, <2>3
<1>8. r.head = NULL \/ r.head \notin Heads(t) BY <1>3, <1>4, <1>5 DEF Heads
<1>9. Deeper(h, src, t, r) BY <1>4, <1>5, <1>7, <1>8 DEF Deeper
<1>10. Heads(s) = Heads(t) \cup {r.head} BY <1>3, <1>4 DEF Heads
<1>11. \A i \in 1 .. Len(t) : i \in 1 .. Len(s) /\ i # Len(s) /\ t[i] = s[i] BY <1>3, <1>4
<1> QED BY <1>2, <1>3, <1>6, <1>9, <1>10, <1>11

(* The lists under construction are distinct, and none has the item that is *)
(* parsed into.                                                             *)
Apart(h, src, s, C) ==
  /\ \A i \in 1 .. Len(s) :
       /\ IF s[i].head = NULL THEN s[i].current = NULL
          ELSE /\ s[i].head \in C /\ s[i].head \in Tops(h) /\ s[i].current \in C /\ s[i].current \in Run(h, s[i].head)
               /\ h[s[i].current].next = NULL /\ s[i].current # NULL /\ s[i].current # src
       /\ s[i].item \in C /\ s[i].head # s[i].item
  /\ \A i, j \in 1 .. Len(s) : s[i].current # NULL /\ s[i].current = s[j].current => i = j
  /\ \A i, j \in 1 .. Len(s) : s[i].item = s[j].item => i = j

LEMMA FilledApart ==
  ASSUME NEW h, NEW src, src # NULL, NEW s, NEW C, Works(h, {}, {}, TextRoots(src, s), C), Filled(h, src, s)
  PROVE  Apart(h, src, s, C)
<1>1. PICK roots, none : roots = TextRoots(src, s) /\ none = {} OBVIOUS
<1>2. Works(h, none, none, roots, C) BY <1>1
<1>3. /\ Shape(h) /\ roots \subseteq Tops(h) /\ Tops(h) \subseteq Alive(h) /\ Tops(h) \subseteq Starts(h)
      /\ NULL \notin Alive(h) /\ C \subseteq Alive(h)
  BY <1>2, WorksFields
<1>4. roots \subseteq C /\ Island(h, C) BY <1>2 DEF Works
<1>5. src \in roots BY <1>1 DEF TextRoots
<1>6. ASSUME NEW i \in 1 .. Len(s), s[i].head = NULL PROVE s[i].current = NULL
  BY <1>6, FilledFields DEF Filling
<1>7. ASSUME NEW i \in 1 .. Len(s), s[i].head # NULL
      PROVE  /\ s[i].head \in C /\ s[i].head \in Tops(h) /\ s[i].current \in C /\ s[i].current \in Run(h, s[i].head)
             /\ h[s[i].current].next = NULL /\ s[i].current # NULL /\ s[i].current # src
  <2>1. s[i].head \in Heads(s) /\ Filling(h, s[i]) /\ s[i].head # src BY FilledFields
  <2>2. s[i].head \in roots BY <1>1, <1>7, <2>1 DEF TextRoots
  <2>3. PICK c, l : c = s[i].head /\ l = s[i].current OBVIOUS
  <2>4. c \in Tops(h) /\ c \in C /\ c \in Starts(h) /\ c \in Alive(h) BY <1>3, <1>4, <2>2, <2>3
  <2>5. l \in Run(h, c) /\ h[l].next = NULL BY <1>7, <2>1, <2>3 DEF Filling, IsLast
  <2>6. l \in C /\ l # NULL BY <1>3, <1>4, <2>4, <2>5, IslandRun
  <2>7. l # src
    <3>1. SUFFICES ASSUME l = src PROVE FALSE OBVIOUS
    <3>2. src \in Starts(h) /\ src \in Alive(h) BY <1>3, <1>5
    <3>3. src \in Run(h, src) BY <1>3, <3>2, RunFacts
    <3>4. src = c BY <1>3, <2>4, <2>5, <3>1, <3>2, <3>3, RunsMeet
    <3> QED BY <2>1, <2>3, <3>4
  <2> QED BY <2>3, <2>4, <2>5, <2>6, <2>7
<1>8. ASSUME NEW i \in 1 .. Len(s), NEW j \in 1 .. Len(s), s[i].current # NULL, s[i].current = s[j].current
      PROVE  i = j
  <2>1. s[i].head # NULL /\ s[j].head # NULL BY <1>6, <1>8
  <2>2. PICK c, d, l : c = s[i].head /\ d = s[j].head /\ l = s[i].current OBVIOUS
  <2>3. c \in Starts(h) /\ d \in Starts(h) /\ l \in Run(h, c) /\ l \in Run(h, d) BY <1>3, <1>7, <1>8, <2>1, <2>2
  <2>4. c = d BY <1>3, <2>3, RunsMeet
  <2> QED BY <2>1, <2>2, <2>4 DEF Filled
<1>9. \A i \in 1 .. Len(s) : s[i].item = IF i = 1 THEN src ELSE s[i - 1].current BY DEF Filled
<1>10. \A i \in 1 .. Len(s) : /\ i \in Nat /\ (i # 1 => i - 1 \in 1 .. Len(s)) /\ s[i].item # NULL
  BY <1>3, FilledFields
<1>11. ASSUME NEW i \in 1 .. Len(s) PROVE s[i].item \in C /\ s[i].head # s[i].item
  <2>1. CASE i = 1
    <3>1. s[i].item = src /\ s[i].head # src BY <1>9, <2>1, FilledFields
    <3> QED BY <1>4, <1>5, <3>1
  <2>2. CASE i # 1
    <3>1. PICK k : k = i - 1 OBVIOUS
    <3>2. k \in 1 .. Len(s) /\ k # i /\ s[i].item = s[k].current /\ s[k].current # NULL BY <1>9, <1>10, <2>2, <3>1
    <3>3. s[k].head # NULL BY <1>6, <3>2
    <3>4. s[k].current \in C /\ s[k].current \in Run(h, s[k].head) /\ s[k].head \in Starts(h) BY <1>3, <1>7, <3>2, <3>3
    <3>5. s[i].head # s[k].current
      <4>1. SUFFICES ASSUME s[i].head = s[k].current PROVE FALSE OBVIOUS
      <4>2. PICK c, d : c = s[i].head /\ d = s[k].head OBVIOUS
      <4>3. c # NULL /\ c \in Starts(h) /\ c \in Alive(h) BY <1>3, <1>7, <3>2, <4>1, <4>2
      <4>4. c \in Run(h, c) BY <1>3, <4>3, RunFacts
      <4>5. c = d BY <1>3, <3>4, <4>1, <4>2, <4>3, <4>4, RunsMeet
      <4> QED BY <3>2, <4>2, <4>3, <4>5 DEF Filled
    <3> QED BY <3>2, <3>4, <3>5
  <2> QED BY <2>1, <2>2
<1>12. ASSUME NEW i \in 1 .. Len(s), NEW j \in 1 .. Len(s), s[i].item = s[j].item PROVE i = j
  <2>1. \A k \in 1 .. Len(s) : s[k].current # src BY <1>6, <1>7
  <2>2. CASE i = 1 \/ j = 1 BY <1>9, <1>10, <1>12, <2>1, <2>2
  <2>3. CASE i # 1 /\ j # 1
    <3>1. PICK k, m : k = i - 1 /\ m = j - 1 OBVIOUS
    <3>2. k \in 1 .. Len(s) /\ m \in 1 .. Len(s) /\ s[k].current # NULL /\ s[k].current = s[m].current
      BY <1>9, <1>10, <1>12, <2>3, <3>1
    <3>3. k = m BY <1>8, <3>2
    <3> QED BY <1>10, <3>1, <3>3
  <2> QED BY <2>2, <2>3
<1> QED BY <1>6, <1>7, <1>8, <1>11, <1>12 DEF Apart

(* The buffer. *)
LEMMA TokenFacts ==
  ASSUME NEW o, TokenAt(o) # "end"
  PROVE  o < Len(text)
BY DEF TokenAt

LEMMA ClosingTokens == \A kind \in {"Array", "Object"} : Closes[kind] # "end" /\ Closes[kind] # ","
<1>1. Closes["Array"] = "]" BY DEF Closes
<1>2. Closes["Object"] = "}" BY DEF Closes
<1> HIDE DEF Closes
<1>3. ASSUME NEW kind \in {"Array", "Object"} PROVE Closes[kind] # "end" /\ Closes[kind] # ","
  <2>1. CASE kind = "Array" BY <1>1, <2>1
  <2>2. CASE kind = "Object" BY <1>2, <2>2
  <2> QED BY <2>1, <2>2
<1> QED BY <1>3

LEMMA NamesAreTokens == \A w \in StringTokens : w # "end" /\ w # NULL /\ w \in StringTokens \cup {NULL}
BY CJsonAssumption DEF StringTokens

LEMMA SkipFacts ==
  ASSUME text \in Seq(STRING), NEW o \in Nat
  PROVE  /\ Skip(o) \in Nat /\ o <= Skip(o)
         /\ (o <= Len(text) => Skip(o) <= Len(text))
         /\ (o < Len(text) => Skip(o) < Len(text))
<1>1. PICK n : n = Len(text) OBVIOUS
<1>2. n \in Nat BY <1>1
<1>3. CASE o >= n
  <2>1. Skip(o) = o BY <1>1, <1>3 DEF Skip
  <2> QED BY <1>1, <1>2, <1>3, <2>1
<1>4. CASE o < n
  <2> DEFINE S == {i \in o .. n : i = n \/ TokenAt(i) \notin Space}
             k == Min(S)
  <2>1. S \in SUBSET (0 .. n) /\ n \in S BY <1>2, <1>4
  <2>2. Skip(o) = IF k = n THEN k - 1 ELSE k BY <1>1, <1>2, <1>4 DEF Skip
  <2>3. k \in S BY <1>2, <2>1, LeastExists
  <2>4. k \in o .. n BY <2>3
  <2> HIDE DEF k
  <2> QED BY <1>1, <1>2, <1>4, <2>2, <2>4
<1> QED BY <1>2, <1>3, <1>4

(* The item that is parsed into is under construction. *)
LEMMA ItemInside ==
  ASSUME NEW h, NEW src, NEW s, NEW C, Works(h, {}, {}, TextRoots(src, s), C), Filled(h, src, s),
         NEW place, TextAt(h, src, s, place), ItemOf(src, s) # NULL
  PROVE  ItemOf(src, s) \in C
<1>1. CASE s = <<>>
  <2>1. src \in TextRoots(src, s) /\ ItemOf(src, s) = src BY <1>1 DEF TextRoots, ItemOf
  <2> QED BY <2>1 DEF Works
<1>2. CASE s # <<>>
  <2>1. src # NULL BY <1>2 DEF TextAt
  <2>2. Apart(h, src, s, C) BY <2>1, FilledApart
  <2>3. Len(s) \in Nat \ {0} /\ Last(s) = s[Len(s)] BY <1>2, FillPop
  <2>4. ItemOf(src, s) = s[Len(s)].current /\ Len(s) \in 1 .. Len(s) BY <1>2, <2>3 DEF ItemOf
  <2>5. PICK i : i = Len(s) OBVIOUS
  <2>6. i \in 1 .. Len(s) /\ s[i].current # NULL BY <2>4, <2>5
  <2>7. s[i].current \in C BY <2>2, <2>6 DEF Apart
  <2> QED BY <2>4, <2>5, <2>7
<1> QED BY <1>1, <1>2

(* The parser goes on with the same items. *)
LEMMA TextMoves ==
  ASSUME Inv, job = "text", job' = "text", source' = source, stack' = stack, items' = items, strings' = strings,
         held' = held, ret' = ret, text' = text,
         TextAt(items, source, stack, at'), ReadTo(offset', depth', stack, at')
  PROVE  Inv'
<1>1. PICK s, src : s = stack /\ src = source OBVIOUS
<1>2. PICK C : Works(items, {}, {}, TextRoots(src, s), C) BY <1>1, TextFacts
<1>3. /\ Filled(items, src, s) /\ held = {} /\ ret = NULL /\ text # <<>> /\ text \in Seq(STRING)
      /\ strings = Owned(items, Alive(items))
  BY <1>1, TextFacts
<1>4. /\ Filled(items', src, s) /\ TextAt(items', src, s, at') /\ Works(items', {}, {}, TextRoots(src, s), C)
      /\ strings' = Owned(items', Alive(items')) /\ ReadTo(offset', depth', s, at')
  BY <1>1, <1>2, <1>3
<1>5. stack' = s /\ source' = src /\ held' = {} /\ ret' = NULL BY <1>1, <1>3
<1> QED BY <1>3, <1>4, <1>5, TextAgain

LEMMA ParseFailures ==
  ASSUME Inv, job = "text", job' = "text", source' = source, stack' = stack, items' = items, strings' = strings,
         held' = held, ret' = ret, text' = text, depth' = depth, offset' \in 0 .. Len(text) + 1,
         at' = "starved" \/ (at' = "failed" /\ source # NULL)
  PROVE  Inv'
<1>1. TextAt(items, source, stack, at) /\ ReadTo(offset, depth, stack, at) BY TextFacts
<1>2. TextAt(items, source, stack, at') BY <1>1 DEF TextAt
<1>3. ReadTo(offset', depth', stack, at') BY <1>1 DEF ReadTo, ReachOf
<1> QED BY <1>2, <1>3, TextMoves

LEMMA ParseNoValueKeeps == ASSUME Inv, ParseNoValue PROVE Inv'
<1>1. /\ job = "text" /\ at = "value" /\ at' = "failed" /\ job' = "text" /\ source' = source /\ stack' = stack
      /\ items' = items /\ strings' = strings /\ held' = held /\ ret' = ret /\ text' = text
      /\ depth' = depth /\ offset' = offset
  BY DEF ParseNoValue, Parsing, Quiet, Running
<1>2. TextAt(items, source, stack, "value") /\ ReadTo(offset, depth, stack, "value") /\ text \in Seq(STRING)
  BY <1>1, TextFacts
<1>3. offset' \in 0 .. Len(text) + 1 /\ source # NULL BY <1>1, <1>2 DEF ReadTo, ReachOf, TextAt
<1> QED BY <1>1, <1>3, ParseFailures

LEMMA ParseNextKeeps == ASSUME Inv, ParseNext PROVE Inv'
<1>1. /\ job = "text" /\ at = "after" /\ job' = "text" /\ source' = source /\ stack' = stack /\ stack # <<>>
      /\ items' = items /\ strings' = strings /\ held' = held /\ ret' = ret /\ text' = text
      /\ depth' = depth /\ offset' = Skip(offset)
  BY DEF ParseNext, Parsing, Quiet, Running
<1>2. /\ TextAt(items, source, stack, "after") /\ ReadTo(offset, depth, stack, "after") /\ text \in Seq(STRING)
      /\ Filled(items, source, stack)
  BY <1>1, TextFacts
<1>3. offset \in 0 .. Len(text) /\ Len(text) \in Nat BY <1>2 DEF ReadTo, ReachOf
<1>4. PICK o : o = Skip(offset) OBVIOUS
<1>5. o \in Nat /\ o <= Len(text) BY <1>2, <1>3, <1>4, SkipFacts
<1>6. Closes[Top.kind] # "end" /\ Closes[Top.kind] # ","
  <2>1. Top.kind \in {"Array", "Object"}
    <3>1. Last(stack) \in Frame(items) BY <1>1, <1>2, FillPop DEF Deeper
    <3> QED BY <3>1 DEF Frame, Top
  <2> QED BY <2>1, ClosingTokens
<1>7. at' \in {"element", "close", "failed"} /\ (at' # "failed" => TokenAt(o) # "end")
  <2>1. PICK w, c : w = TokenAt(o) /\ c = Closes[Top.kind] OBVIOUS
  <2>2. at' = CASE w = "," -> "element" [] w = c -> "close" [] OTHER -> "failed" BY <1>4, <2>1 DEF ParseNext
  <2>3. CASE w = "," BY <1>6, <2>1, <2>2, <2>3
  <2>4. CASE w = c BY <1>6, <2>1, <2>2, <2>4
  <2>5. CASE w # "," /\ w # c BY <1>6, <2>1, <2>2, <2>5
  <2> QED BY <2>3, <2>4, <2>5
<1>8. TextAt(items, source, stack, at') BY <1>1, <1>2, <1>7 DEF TextAt
<1>9. offset' \in ReachOf(at')
  <2>1. offset' = o BY <1>1, <1>4
  <2>2. CASE at' = "failed" BY <1>3, <1>5, <2>1, <2>2 DEF ReachOf
  <2>3. CASE at' # "failed"
    <3>1. o < Len(text) BY <1>7, <2>3, TokenFacts
    <3> QED BY <1>3, <1>5, <1>7, <2>1, <2>3, <3>1 DEF ReachOf
  <2> QED BY <2>2, <2>3
<1>10. ReadTo(offset', depth', stack, at') BY <1>1, <1>2, <1>9 DEF ReadTo
<1> QED BY <1>1, <1>8, <1>10, TextMoves

LEMMA ParseStartKeeps == ASSUME Inv, ParseStart PROVE Inv'
<1>1. /\ job = "text" /\ at = "start" /\ job' = "text" /\ stack' = stack
      /\ strings' = strings /\ held' = held /\ ret' = ret /\ text' = text /\ depth' = depth
  BY DEF ParseStart, Parsing
<1>2. /\ TextAt(items, source, stack, "start") /\ ReadTo(offset, depth, stack, "start") /\ text \in Seq(STRING)
      /\ Filled(items, source, stack) /\ held = {} /\ ret = NULL /\ text # <<>>
      /\ strings = Owned(items, Alive(items)) /\ Shape(items)
  BY <1>1, TextFacts
<1>3. /\ source = NULL /\ stack = <<>> /\ offset \in 0 .. Len(text) + 1 /\ depth \in 0 .. NestingLimit
      /\ Len(text) \in Nat \ {0} /\ Len(stack) <= depth
  BY <1>2, EmptySeq DEF TextAt, ReadTo, ReachOf
<1>4. CASE at' = "starved" /\ UNCHANGED <<items, source, offset>> BY <1>1, <1>3, <1>4, ParseFailures
<1>5. ASSUME HasMemory(items), items' = cJSON_New_Item(items, Zeroed), NEW n, n = NewAddress(items), source' = n,
             at' = "value", offset' = Skip(0)
      PROVE  Inv'
  <2>1. PICK g, item, none : g = items' /\ item = Zeroed /\ none = {} OBVIOUS
  <2>2. /\ NewItem(items, n, item) /\ ~OwnsName(item) /\ ~OwnsValue(item) /\ item.next = NULL /\ item.child = NULL
        /\ item.ref = FALSE /\ item.value = NULL
    BY <2>1, NewFields, BareFacts
  <2>3. Born(items, g, n, item) BY <1>5, <2>1, <2>2 DEF Born
  <2>4. PICK C : Works(items, {}, {}, TextRoots(source, stack), C) BY <1>1, TextFacts
  <2>5. PICK roots : roots = TextRoots(source, stack) OBVIOUS
  <2>6. roots = {} BY <1>3, <2>5 DEF TextRoots, Heads
  <2>7. Works(items, none, none, roots, C) BY <2>1, <2>4, <2>5
  <2>8. /\ Works(g, none, none, roots \cup {n}, C \cup {n})
        /\ n \in Nodes /\ n \notin Alive(items) /\ n # NULL /\ Alive(g) = Alive(items) \cup {n} /\ g[n] = item
        /\ \A x \in Alive(items) : g[x] = items[x] /\ x # n
        /\ \A c \in Alive(items) : Run(items, c) \subseteq Run(g, c)
    BY <2>3, <2>7, WorkNew
  <2>9. PICK s, E : s = stack /\ E = C \cup {n} OBVIOUS
  <2>10. s = <<>> /\ TextRoots(n, s) = roots \cup {n} BY <1>3, <2>6, <2>8, <2>9 DEF TextRoots, Heads
  <2>11. Works(items', {}, {}, TextRoots(n, s), E) BY <2>1, <2>8, <2>9, <2>10
  <2>12. Filled(items', n, s) BY <2>10 DEF Filled
  <2>13. TextAt(items', n, s, at') BY <1>5, <2>1, <2>2, <2>8, <2>10 DEF TextAt, ItemOf
  <2>14. strings' = Owned(items', Alive(items')) BY <1>1, <1>2, <1>5, <2>1, <2>2, BareCount
  <2>15. ReadTo(offset', depth', s, at')
    <3>1. PICK o : o = Skip(0) OBVIOUS
    <3>2. o \in Nat /\ o < Len(text) BY <1>2, <1>3, <3>1, SkipFacts
    <3> QED BY <1>1, <1>3, <1>5, <2>9, <3>1, <3>2 DEF ReadTo, ReachOf
  <2> QED BY <1>1, <1>2, <1>5, <2>9, <2>11, <2>12, <2>13, <2>14, <2>15, TextAgain
<1> QED BY <1>4, <1>5 DEF ParseStart

(* Where the links do not change the frames stay as they are. *)
LEMMA FillingAgain ==
  ASSUME NEW h, Shape(h), NEW g, Alive(g) = Alive(h),
         \A y \in Alive(h) : g[y].next = h[y].next /\ g[y].child = h[y].child,
         \A c : Run(g, c) = Run(h, c),
         NEW src, NEW s, Filled(h, src, s)
  PROVE  Filled(g, src, s)
<1>1. ASSUME NEW i \in 1 .. Len(s) PROVE s[i] \in Frame(g) /\ Filling(g, s[i])
  <2>1. /\ s[i] \in Frame(h) /\ s[i].item \in Alive(h) /\ s[i].head \in Alive(h) \cup {NULL} /\ Filling(h, s[i])
    BY FilledFields
  <2>2. s[i] \in Frame(g) BY <2>1 DEF Frame
  <2>3. g[s[i].item].child = NULL BY <2>1 DEF Filling
  <2>4. CASE s[i].head = NULL BY <2>1, <2>3, <2>4, <2>2 DEF Filling
  <2>5. CASE s[i].head # NULL
    <3>1. PICK c, l : c = s[i].head /\ l = s[i].current OBVIOUS
    <3>2. c \in Alive(h) /\ l \in Run(h, c) /\ h[l].next = NULL BY <2>1, <2>5, <3>1 DEF Filling, IsLast
    <3>3. l \in Alive(h) BY <3>2, RunFacts
    <3>4. IsLast(g, c, l) BY <3>2, <3>3 DEF IsLast
    <3> QED BY <2>2, <2>3, <2>5, <3>1, <3>4 DEF Filling
  <2> QED BY <2>4, <2>5
<1> QED BY <1>1, FilledAgain

(* The item x gets a type, a string or a name. *)
Labelled(h, g, x, item) ==
  /\ x \in Alive(h) /\ item \in ItemRec /\ g = [h EXCEPT ![x] = item]
  /\ item.next = h[x].next /\ item.prev = h[x].prev /\ item.child = h[x].child /\ item.ref = h[x].ref
  /\ item.value \in {x, NULL}
LEMMA LabelledFields ==
  ASSUME NEW h, Typed(h), NEW g, NEW x, NEW item, Labelled(h, g, x, item)
  PROVE  /\ SameLinks(h, g, x) /\ g[x] = item /\ Alive(g) = Alive(h) /\ \A y \in Alive(h) \ {x} : g[y] = h[y]
<1>1. h \in [Nodes -> ItemRec \cup {Freed}] /\ x \in Nodes /\ item \in ItemRec /\ g = [h EXCEPT ![x] = item]
  BY DEF Labelled, Typed, Alive
<1>2. g \in [Nodes -> ItemRec \cup {Freed}] /\ g[x] = item /\ \A y \in Nodes \ {x} : g[y] = h[y] BY <1>1
<1>3. item # Freed BY <1>1, NotFreed
<1>4. x \in Alive(h) BY DEF Labelled
<1>5. Alive(g) = Alive(h) /\ \A y \in Alive(h) \ {x} : g[y] = h[y] BY <1>2, <1>3, <1>4 DEF Alive
<1>6. Typed(g) BY <1>2 DEF Typed
<1> QED BY <1>2, <1>5, <1>6 DEF SameLinks, Labelled

LEMMA LabelledCount ==
  ASSUME NEW h, Shape(h), NEW g, NEW x, NEW item, Labelled(h, g, x, item)
  PROVE  /\ Owned(h, Alive(h)) \in Nat
         /\ Owned(g, Alive(g)) = Owned(h, Alive(h)) + Bit(OwnsName(item)) - Bit(OwnsName(h[x]))
                                 + Bit(OwnsValue(item)) - Bit(OwnsValue(h[x]))
<1>1. g[x] = item /\ Alive(g) = Alive(h) /\ \A y \in Alive(h) \ {x} : g[y] = h[y] BY LabelledFields DEF Shape
<1>2. PICK S : S = Alive(h) OBVIOUS
<1>3. S \in SUBSET Nodes /\ x \in S /\ \A y \in S \ {x} : g[y] = h[y] BY <1>1, <1>2 DEF Alive, Labelled
<1>4. /\ Owned(h, S) \in Nat /\ Owned(g, S) \in Nat
      /\ Owned(g, S) = Owned(h, S) + Bit(OwnsName(g[x])) - Bit(OwnsName(h[x]))
                       + Bit(OwnsValue(g[x])) - Bit(OwnsValue(h[x]))
  BY <1>3, OwnedChanged
<1> QED BY <1>1, <1>2, <1>4

LEMMA TextLabelled ==
  ASSUME Inv, job = "text", Item # NULL, job' = "text", source' = source, stack' = stack,
         held' = held, ret' = ret, text' = text, NEW item, Labelled(items, items', Item, item),
         strings' = Owned(items', Alive(items')),
         TextAt(items', source, stack, at'), ReadTo(offset', depth', stack, at')
  PROVE  Inv'
<1>1. PICK s, src, x, g, roots, none :
         s = stack /\ src = source /\ x = Item /\ g = items' /\ roots = TextRoots(src, s) /\ none = {}
  OBVIOUS
<1>2. PICK C : Works(items, {}, {}, TextRoots(src, s), C) BY <1>1, TextFacts
<1>3. /\ Filled(items, src, s) /\ held = {} /\ ret = NULL /\ text # <<>> /\ text \in Seq(STRING)
      /\ TextAt(items, src, s, at) /\ x = ItemOf(src, s) /\ Shape(items) /\ Typed(items)
  BY <1>1, TextFacts DEF Shape
<1>4. x \in C BY <1>1, <1>2, <1>3, ItemInside
<1>5. SameLinks(items, g, x) /\ g[x].value \in {x, NULL}
  <2>1. Labelled(items, g, x, item) BY <1>1
  <2>2. SameLinks(items, g, x) /\ g[x] = item BY <1>3, <2>1, LabelledFields
  <2> QED BY <2>1, <2>2 DEF Labelled
<1>6. Works(items, none, none, roots, C) BY <1>1, <1>2
<1>7. Works(g, none, none, roots, C) /\ \A c : Run(g, c) = Run(items, c) BY <1>4, <1>5, <1>6, WorkData
<1>8. Alive(g) = Alive(items) /\ \A y \in Alive(items) : g[y].next = items[y].next /\ g[y].child = items[y].child
  BY <1>5 DEF SameLinks
<1>9. Filled(g, src, s) BY <1>3, <1>7, <1>8, FillingAgain
<1>10. /\ Filled(items', src, s) /\ TextAt(items', src, s, at') /\ Works(items', {}, {}, TextRoots(src, s), C)
       /\ ReadTo(offset', depth', s, at')
  BY <1>1, <1>7, <1>9
<1>11. stack' = s /\ source' = src /\ held' = {} /\ ret' = NULL BY <1>1, <1>3
<1> QED BY <1>3, <1>10, <1>11, TextAgain

(* What a step that has a value finds. *)
LEMMA ValueFacts ==
  ASSUME Inv, job = "text", at \in {"value", "name"}
  PROVE  /\ Item # NULL /\ Item \in Alive(items) /\ items[Item] \in ItemRec
         /\ items[Item].child = NULL /\ items[Item].value = NULL /\ items[Item].ref = FALSE
         /\ (at = "name" => items[Item].string = NULL /\ items[Item].const = FALSE)
         /\ source \in Alive(items) /\ items[source].next = NULL /\ source # NULL
         /\ offset \in 0 .. Len(text) /\ Len(text) \in Nat /\ text \in Seq(STRING)
         /\ depth \in 0 .. NestingLimit /\ Len(stack) <= depth
         /\ strings = Owned(items, Alive(items)) /\ strings \in Nat /\ Shape(items) /\ Typed(items)
         /\ Item = ItemOf(source, stack)
<1>1. PICK s, src, x, roots, none : s = stack /\ src = source /\ x = Item /\ roots = TextRoots(src, s) /\ none = {} OBVIOUS
<1>2. PICK C : Works(items, {}, {}, TextRoots(src, s), C) BY <1>1, TextFacts
<1>3. /\ Filled(items, src, s) /\ TextAt(items, src, s, at) /\ ReadTo(offset, depth, s, at)
      /\ text \in Seq(STRING) /\ strings = Owned(items, Alive(items)) /\ strings \in Nat /\ Shape(items)
      /\ x = ItemOf(src, s)
  BY <1>1, TextFacts
<1>4. x # NULL /\ items[x].child = NULL /\ items[x].value = NULL
      /\ (at = "name" => items[x].string = NULL /\ ~items[x].const)
      /\ src \in Alive(items) /\ items[src].next = NULL /\ src # NULL
  BY <1>3 DEF TextAt
<1>5. x \in C BY <1>2, <1>3, <1>4, ItemInside
<1>6. Works(items, none, none, roots, C) BY <1>1, <1>2
<1>7. x \in Alive(items) /\ ~items[x].ref /\ Typed(items) BY <1>5, <1>6, WorksFields
<1>8. items[x] \in ItemRec /\ items[x].ref \in BOOLEAN /\ items[x].const \in BOOLEAN BY <1>7, ItemFields
<1>9. offset \in 0 .. Len(text) /\ depth \in 0 .. NestingLimit /\ Len(s) <= depth /\ Len(text) \in Nat
  BY <1>3 DEF ReadTo, ReachOf
<1> QED BY <1>1, <1>3, <1>4, <1>7, <1>8, <1>9

(* After a label the item has the same place. *)
LEMMA LabelledPlace ==
  ASSUME NEW h, Typed(h), NEW g, NEW x, NEW item, Labelled(h, g, x, item), NEW src, NEW s, NEW place,
         TextAt(h, src, s, place), src \in Alive(h), x = ItemOf(src, s), x # NULL, src # NULL
  PROVE  /\ TextAt(g, src, s, "after") /\ TextAt(g, src, s, "failed")
         /\ item.child = NULL /\ item.value = NULL => TextAt(g, src, s, "value")
<1>1. SameLinks(h, g, x) /\ g[x] = item /\ Alive(g) = Alive(h) /\ \A y \in Alive(h) \ {x} : g[y] = h[y]
  BY LabelledFields
<1>2. src \in Alive(g) /\ g[src].next = NULL BY <1>1 DEF TextAt, SameLinks
<1> QED BY <1>1, <1>2 DEF TextAt

LEMMA LiteralTokens == \A w \in DOMAIN Literals : w # "end" /\ Literals[w] \in ItemTypes
<1>1. DOMAIN Literals = {"null", "false", "true", "number"} BY DEF Literals
<1>2. Literals["null"] = "NULL" BY DEF Literals
<1>3. Literals["false"] = "False" BY DEF Literals
<1>4. Literals["true"] = "True" BY DEF Literals
<1>5. Literals["number"] = "Number" BY DEF Literals
<1> HIDE DEF Literals
<1>6. ASSUME NEW w \in {"null", "false", "true", "number"} PROVE w # "end" /\ Literals[w] \in ItemTypes
  <2>1. CASE w = "null" BY <1>2, <2>1 DEF ItemTypes
  <2>2. CASE w = "false" BY <1>3, <2>2 DEF ItemTypes
  <2>3. CASE w = "true" BY <1>4, <2>3 DEF ItemTypes
  <2>4. CASE w = "number" BY <1>5, <2>4 DEF ItemTypes, Types
  <2> QED BY <2>1, <2>2, <2>3, <2>4
<1> QED BY <1>1, <1>6

LEMMA TokenRead ==
  ASSUME text \in Seq(STRING), offset \in 0 .. Len(text), Here # "end"
  PROVE  offset < Len(text) /\ offset + 1 \in 0 .. Len(text)
<1>1. offset < Len(text) BY TokenFacts DEF Here
<1>2. Len(text) \in Nat OBVIOUS
<1> QED BY <1>1, <1>2

LEMMA ParseScalarKeeps == ASSUME Inv, ParseScalar PROVE Inv'
<1>1. /\ job = "text" /\ at = "value" /\ job' = "text" /\ source' = source /\ stack' = stack /\ at' = "after"
      /\ strings' = strings /\ held' = held /\ ret' = ret /\ text' = text /\ depth' = depth
      /\ offset' = offset + 1 /\ Here \in DOMAIN Literals
      /\ items' = [items EXCEPT ![Item].type = Literals[Here]]
  BY DEF ParseScalar, Parsing, Quiet, Running
<1>2. PICK x, type, g : x = Item /\ type = Literals[Here] /\ g = items' OBVIOUS
<1>3. /\ x # NULL /\ x \in Alive(items) /\ items[x] \in ItemRec
      /\ items[x].child = NULL /\ items[x].value = NULL /\ items[x].ref = FALSE
      /\ source \in Alive(items) /\ source # NULL
      /\ offset \in 0 .. Len(text) /\ Len(text) \in Nat /\ text \in Seq(STRING)
      /\ depth \in 0 .. NestingLimit /\ Len(stack) <= depth
      /\ strings = Owned(items, Alive(items)) /\ strings \in Nat /\ Shape(items) /\ Typed(items)
      /\ x = ItemOf(source, stack)
  BY <1>1, <1>2, ValueFacts
<1>4. type \in ItemTypes /\ Here # "end" BY <1>1, <1>2, LiteralTokens
<1>5. PICK item : item = [items[x] EXCEPT !.type = type] OBVIOUS
<1>6. /\ item \in ItemRec /\ item.next = items[x].next /\ item.prev = items[x].prev /\ item.child = items[x].child
      /\ item.ref = items[x].ref /\ item.value = NULL /\ item.string = items[x].string /\ item.const = items[x].const
  BY <1>3, <1>4, <1>5 DEF ItemRec
<1>7. g = [items EXCEPT ![x] = item] BY <1>1, <1>2, <1>5
<1>8. Labelled(items, g, x, item) BY <1>3, <1>6, <1>7 DEF Labelled
<1>9. Owned(g, Alive(g)) = Owned(items, Alive(items))
  <2>1. (OwnsName(item) <=> OwnsName(items[x])) /\ (OwnsValue(item) <=> OwnsValue(items[x]))
    BY <1>3, <1>6 DEF OwnsName, OwnsValue
  <2>2. /\ Owned(items, Alive(items)) \in Nat
        /\ Owned(g, Alive(g)) = Owned(items, Alive(items)) + Bit(OwnsName(item)) - Bit(OwnsName(items[x]))
                                + Bit(OwnsValue(item)) - Bit(OwnsValue(items[x]))
    BY <1>3, <1>8, LabelledCount
  <2> QED BY <2>1, <2>2 DEF Bit
<1>10. TextAt(items, source, stack, "value") BY <1>1, TextFacts
<1>11. TextAt(g, source, stack, "after")
  <2>1. PICK src, s, place : src = source /\ s = stack /\ place = "value" OBVIOUS
  <2>2. TextAt(items, src, s, place) /\ src \in Alive(items) /\ x = ItemOf(src, s) /\ src # NULL
    BY <1>3, <1>10, <2>1
  <2>3. TextAt(g, src, s, "after") BY <1>3, <1>8, <2>2, LabelledPlace
  <2> QED BY <2>1, <2>3
<1>12. ReadTo(offset', depth', stack, at')
  <2>1. offset + 1 \in 0 .. Len(text) BY <1>3, <1>4, TokenRead
  <2> QED BY <1>1, <1>3, <2>1 DEF ReadTo, ReachOf
<1>13. Labelled(items, items', Item, item) /\ strings' = Owned(items', Alive(items')) /\ TextAt(items', source, stack, at')
       /\ Item # NULL
  BY <1>1, <1>2, <1>3, <1>8, <1>9, <1>11
<1> QED BY <1>1, <1>12, <1>13, TextLabelled

LEMMA ParseStringKeeps == ASSUME Inv, ParseString PROVE Inv'
<1>1. /\ job = "text" /\ at = "value" /\ job' = "text" /\ source' = source /\ stack' = stack
      /\ held' = held /\ ret' = ret /\ text' = text /\ depth' = depth
  BY DEF ParseString, Parsing, Quiet, Running
<1>2. PICK x, g : x = Item /\ g = items' OBVIOUS
<1>3. /\ x # NULL /\ x \in Alive(items) /\ items[x] \in ItemRec
      /\ items[x].child = NULL /\ items[x].value = NULL /\ items[x].ref = FALSE
      /\ source \in Alive(items) /\ source # NULL
      /\ offset \in 0 .. Len(text) /\ Len(text) \in Nat /\ text \in Seq(STRING)
      /\ depth \in 0 .. NestingLimit /\ Len(stack) <= depth
      /\ strings = Owned(items, Alive(items)) /\ strings \in Nat /\ Shape(items) /\ Typed(items)
      /\ x = ItemOf(source, stack)
  BY <1>1, <1>2, ValueFacts
<1>4. offset + 1 \in 0 .. Len(text) + 1 BY <1>3
<1>5. CASE at' \in {"starved", "failed"} /\ offset' = offset + 1 /\ items' = items /\ strings' = strings
  BY <1>1, <1>3, <1>4, <1>5, ParseFailures
<1>6. CASE /\ Here \in StringTokens
           /\ items' = [items EXCEPT ![Item].type = "String", ![Item].value = Item]
           /\ strings' = strings + 1 /\ offset' = offset + 1 /\ at' = "after"
  <2>1. x \in Nodes /\ "String" \in ItemTypes BY <1>3, AliveFacts DEF ItemTypes, Types
  <2>2. PICK item : item = [items[x] EXCEPT !.type = "String", !.value = x] OBVIOUS
  <2>3. /\ item \in ItemRec /\ item.next = items[x].next /\ item.prev = items[x].prev /\ item.child = items[x].child
        /\ item.ref = items[x].ref /\ item.value = x /\ item.string = items[x].string /\ item.const = items[x].const
    BY <1>3, <2>1, <2>2 DEF ItemRec
  <2>4. g = [items EXCEPT ![x] = item]
    <3>1. g = [items EXCEPT ![x].type = "String", ![x].value = x] BY <1>2, <1>6
    <3>2. items \in [Nodes -> ItemRec \cup {Freed}] BY <1>3 DEF Typed
    <3> QED BY <2>1, <2>2, <3>1, <3>2
  <2>5. Labelled(items, g, x, item) BY <1>3, <2>3, <2>4 DEF Labelled
  <2>6. Owned(g, Alive(g)) = Owned(items, Alive(items)) + 1
    <3>1. (OwnsName(item) <=> OwnsName(items[x])) /\ OwnsValue(item) /\ ~OwnsValue(items[x])
      BY <1>3, <2>3 DEF OwnsName, OwnsValue
    <3>2. /\ Owned(items, Alive(items)) \in Nat
          /\ Owned(g, Alive(g)) = Owned(items, Alive(items)) + Bit(OwnsName(item)) - Bit(OwnsName(items[x]))
                                  + Bit(OwnsValue(item)) - Bit(OwnsValue(items[x]))
      BY <1>3, <2>5, LabelledCount
    <3> QED BY <3>1, <3>2 DEF Bit
  <2>7. TextAt(items, source, stack, "value") BY <1>1, TextFacts
  <2>8. TextAt(g, source, stack, "after")
    <3>1. PICK src, s, place : src = source /\ s = stack /\ place = "value" OBVIOUS
    <3>2. TextAt(items, src, s, place) /\ src \in Alive(items) /\ x = ItemOf(src, s) /\ src # NULL
      BY <1>3, <2>7, <3>1
    <3>3. TextAt(g, src, s, "after") BY <1>3, <2>5, <3>2, LabelledPlace
    <3> QED BY <3>1, <3>3
  <2>9. ReadTo(offset', depth', stack, at')
    <3>1. offset + 1 \in 0 .. Len(text) BY <1>3, <1>6, NamesAreTokens, TokenRead
    <3> QED BY <1>1, <1>3, <1>6, <3>1 DEF ReadTo, ReachOf
  <2>10. Labelled(items, items', Item, item) /\ strings' = Owned(items', Alive(items')) /\ TextAt(items', source, stack, at')
         /\ Item # NULL
    BY <1>2, <1>3, <1>6, <2>5, <2>6, <2>8
  <2> QED BY <1>1, <2>9, <2>10, TextLabelled
<1> QED BY <1>5, <1>6 DEF ParseString

LEMMA ParseNameKeeps == ASSUME Inv, ParseName PROVE Inv'
<1>1. /\ job = "text" /\ at = "name" /\ job' = "text" /\ source' = source /\ stack' = stack
      /\ held' = held /\ ret' = ret /\ text' = text /\ depth' = depth
  BY DEF ParseName, Parsing, Quiet, Running
<1>2. PICK x, g : x = Item /\ g = items' OBVIOUS
<1>3. /\ x # NULL /\ x \in Alive(items) /\ items[x] \in ItemRec
      /\ items[x].child = NULL /\ items[x].value = NULL /\ items[x].ref = FALSE
      /\ items[x].string = NULL /\ items[x].const = FALSE
      /\ source \in Alive(items) /\ source # NULL
      /\ offset \in 0 .. Len(text) /\ Len(text) \in Nat /\ text \in Seq(STRING)
      /\ depth \in 0 .. NestingLimit /\ Len(stack) <= depth
      /\ strings = Owned(items, Alive(items)) /\ strings \in Nat /\ Shape(items) /\ Typed(items)
      /\ x = ItemOf(source, stack)
  BY <1>1, <1>2, ValueFacts
<1>4. offset + 1 \in 0 .. Len(text) + 1 BY <1>3
<1>5. TextAt(items, source, stack, "name") BY <1>1, TextFacts
<1>6. Top.current = Item BY <1>5 DEF TextAt, Item
<1>7. CASE at' \in {"starved", "failed"} /\ offset' = offset + 1 /\ items' = items /\ strings' = strings
  BY <1>1, <1>3, <1>4, <1>7, ParseFailures
<1>8. CASE /\ Here \in StringTokens
           /\ items' = [items EXCEPT ![Top.current].type = "String", ![Top.current].string = Here]
           /\ strings' = strings + 1
           /\ LET next == Skip(offset + 1)
              IN IF TokenAt(next) = ":" THEN at' = "value" /\ offset' = Skip(next + 1)
                 ELSE at' = "failed" /\ offset' = next
  <2>1. x \in Nodes /\ "String" \in ItemTypes BY <1>3, AliveFacts DEF ItemTypes, Types
  <2>2. PICK item, name : name = Here /\ item = [items[x] EXCEPT !.type = "String", !.string = name] OBVIOUS
  <2>3. /\ item \in ItemRec /\ item.next = items[x].next /\ item.prev = items[x].prev /\ item.child = NULL
        /\ item.ref = items[x].ref /\ item.value = NULL /\ item.string = name /\ item.const = FALSE
        /\ name # NULL /\ item.child = items[x].child
    <3>1. name # NULL /\ name \in StringTokens \cup {NULL} BY <1>8, <2>2, NamesAreTokens
    <3> QED BY <1>3, <2>1, <2>2, <3>1 DEF ItemRec
  <2>4. g = [items EXCEPT ![x] = item]
    <3>1. g = [items EXCEPT ![x].type = "String", ![x].string = name] BY <1>2, <1>6, <1>8, <2>2
    <3>2. items \in [Nodes -> ItemRec \cup {Freed}] BY <1>3 DEF Typed
    <3> QED BY <2>1, <2>2, <3>1, <3>2
  <2>5. Labelled(items, g, x, item) BY <1>3, <2>3, <2>4 DEF Labelled
  <2>6. Owned(g, Alive(g)) = Owned(items, Alive(items)) + 1
    <3>1. OwnsName(item) /\ ~OwnsName(items[x]) /\ (OwnsValue(item) <=> OwnsValue(items[x]))
      BY <1>3, <2>3 DEF OwnsName, OwnsValue
    <3>2. /\ Owned(items, Alive(items)) \in Nat
          /\ Owned(g, Alive(g)) = Owned(items, Alive(items)) + Bit(OwnsName(item)) - Bit(OwnsName(items[x]))
                                  + Bit(OwnsValue(item)) - Bit(OwnsValue(items[x]))
      BY <1>3, <2>5, LabelledCount
    <3> QED BY <3>1, <3>2 DEF Bit
  <2>7. PICK o : o = Skip(offset + 1) OBVIOUS
  <2>8. offset + 1 \in 0 .. Len(text) BY <1>3, <1>8, NamesAreTokens, TokenRead
  <2>9. o \in Nat /\ o <= Len(text)
    <3>1. PICK k : k = offset + 1 OBVIOUS
    <3>2. k \in Nat /\ k <= Len(text) BY <1>3, <2>8, <3>1
    <3> QED BY <1>3, <2>7, <3>1, <3>2, SkipFacts
  <2>10. /\ at' \in {"value", "failed"} /\ offset' \in 0 .. Len(text)
    <3>1. CASE TokenAt(o) = ":"
      <4>1. at' = "value" /\ offset' = Skip(o + 1) BY <1>8, <2>7, <3>1
      <4>2. o < Len(text) BY <3>1, TokenFacts
      <4>3. PICK k : k = o + 1 OBVIOUS
      <4>4. k \in Nat /\ k <= Len(text) BY <1>3, <2>9, <4>2, <4>3
      <4>5. Skip(k) \in Nat /\ Skip(k) <= Len(text) BY <1>3, <4>4, SkipFacts
      <4> QED BY <1>3, <4>1, <4>3, <4>5
    <3>2. CASE TokenAt(o) # ":"
      <4>1. at' = "failed" /\ offset' = o BY <1>8, <2>7, <3>2
      <4> QED BY <1>3, <2>9, <4>1
    <3> QED BY <3>1, <3>2
  <2>11. TextAt(g, source, stack, "value") /\ TextAt(g, source, stack, "failed")
    <3>1. PICK src, s, place : src = source /\ s = stack /\ place = "name" OBVIOUS
    <3>2. TextAt(items, src, s, place) /\ src \in Alive(items) /\ x = ItemOf(src, s) /\ src # NULL
      BY <1>3, <1>5, <3>1
    <3>3. /\ TextAt(g, src, s, "after") /\ TextAt(g, src, s, "failed")
          /\ item.child = NULL /\ item.value = NULL => TextAt(g, src, s, "value")
      BY <1>3, <2>5, <3>2, LabelledPlace
    <3> QED BY <2>3, <3>1, <3>3
  <2>12. ReadTo(offset', depth', stack, at')
    <3>1. offset' \in 0 .. Len(text) + 1 BY <1>3, <2>10
    <3> QED BY <1>1, <1>3, <2>10, <3>1 DEF ReadTo, ReachOf
  <2>13. Labelled(items, items', Item, item) /\ strings' = Owned(items', Alive(items')) /\ TextAt(items', source, stack, at')
         /\ Item # NULL
    BY <1>2, <1>3, <1>8, <2>5, <2>6, <2>10, <2>11
  <2> QED BY <1>1, <2>12, <2>13, TextLabelled
<1> QED
  <2>1. CASE Here \in StringTokens /\ at' = "starved" /\ offset' = offset + 1 /\ UNCHANGED <<items, strings>> BY <1>7, <2>1
  <2>2. CASE Here \notin StringTokens /\ at' = "failed" /\ offset' = offset + 1 /\ UNCHANGED <<items, strings>> BY <1>7, <2>2
  <2> QED BY <1>8, <2>1, <2>2 DEF ParseName

LEMMA OpeningTokens == \A w \in DOMAIN Opens : w # "end" /\ Opens[w] \in {"Array", "Object"}
BY DEF Opens

LEMMA ParseOpenKeeps == ASSUME Inv, ParseOpen PROVE Inv'
<1>1. /\ job = "text" /\ at = "value" /\ job' = "text" /\ source' = source /\ items' = items /\ strings' = strings
      /\ held' = held /\ ret' = ret /\ text' = text /\ Here \in DOMAIN Opens
  BY DEF ParseOpen, Parsing, Quiet, Running
<1>2. PICK x, kind, o, s, src : x = Item /\ kind = Opens[Here] /\ o = Skip(offset + 1) /\ s = stack /\ src = source OBVIOUS
<1>3. /\ x # NULL /\ x \in Alive(items) /\ items[x].child = NULL
      /\ src \in Alive(items) /\ src # NULL
      /\ offset \in 0 .. Len(text) /\ Len(text) \in Nat /\ text \in Seq(STRING)
      /\ depth \in 0 .. NestingLimit /\ Len(s) <= depth
      /\ strings = Owned(items, Alive(items))
      /\ x = ItemOf(src, s)
  BY <1>1, <1>2, ValueFacts
<1>4. kind \in {"Array", "Object"} /\ Here # "end" BY <1>1, <1>2, OpeningTokens
<1>5. CASE depth >= NestingLimit
  <2>1. at' = "failed" /\ stack' = stack /\ offset' = offset /\ depth' = depth BY <1>5 DEF ParseOpen
  <2>2. offset' \in 0 .. Len(text) + 1 /\ source # NULL BY <1>2, <1>3, <2>1
  <2> QED BY <1>1, <2>1, <2>2, ParseFailures
<1>6. CASE ~(depth >= NestingLimit)
  <2>1. PICK r : r = [kind |-> kind, item |-> x, head |-> NULL, current |-> NULL] OBVIOUS
  <2>2. /\ depth' = depth + 1 /\ stack' = Append(s, r)
        /\ offset' = IF TokenAt(o) = Closes[kind] THEN o ELSE o - 1
        /\ at' = CASE TokenAt(o) = Closes[kind] -> "close"
                   [] TokenAt(o) = "end" -> "failed"
                   [] OTHER -> "element"
    BY <1>2, <1>6, <2>1 DEF ParseOpen
  <2>3. PICK t : t = Append(s, r) OBVIOUS
  <2>4. /\ Filled(items, src, s) /\ held = {} /\ ret = NULL /\ text # <<>>
        /\ TextAt(items, src, s, "value")
    BY <1>1, <1>2, TextFacts
  <2>5. PICK C : Works(items, {}, {}, TextRoots(src, s), C) BY <1>1, <1>2, TextFacts
  <2>6. Deeper(items, src, s, r)
    <3>1. r \in Frame(items) /\ r.item = x /\ r.head = NULL /\ r.current = NULL BY <1>3, <1>4, <2>1 DEF Frame
    <3>2. Filling(items, r) BY <1>3, <3>1 DEF Filling
    <3> QED BY <1>3, <3>1, <3>2 DEF Deeper
  <2>7. /\ Filled(items, src, t) /\ Heads(t) = Heads(s) \cup {r.head} /\ Len(t) = Len(s) + 1
        /\ t # <<>> /\ Last(t) = r
    <3>1. Filled(items, src, s) /\ Entered(items, src, s, r, t) BY <2>3, <2>4, <2>6 DEF Entered
    <3> QED BY <3>1, FillPush
  <2>8. TextRoots(src, t) = TextRoots(src, s) BY <2>1, <2>7 DEF TextRoots
  <2>9. at' \in {"close", "failed", "element"} /\ (at' = "close" => TokenAt(o) # "end") /\ offset' \in {o, o - 1}
        /\ (offset' = o => at' = "close" \/ o = o - 1)
    <3>1. PICK w, c : w = TokenAt(o) /\ c = Closes[kind] OBVIOUS
    <3>2. at' = CASE w = c -> "close" [] w = "end" -> "failed" [] OTHER -> "element" BY <2>2, <3>1
    <3>3. c # "end" BY <1>4, <3>1, ClosingTokens
    <3>4. CASE w = c BY <2>2, <3>1, <3>2, <3>3, <3>4
    <3>5. CASE w = "end" BY <2>2, <3>1, <3>2, <3>3, <3>5
    <3>6. CASE w # c /\ w # "end" BY <2>2, <3>1, <3>2, <3>3, <3>6
    <3> QED BY <3>4, <3>5, <3>6
  <2>10. offset' \in 0 .. Len(text) - 1
    <3>1. PICK k : k = offset + 1 OBVIOUS
    <3>2. offset + 1 \in 0 .. Len(text) BY <1>3, <1>4, TokenRead
    <3>3. k \in Nat /\ k <= Len(text) /\ k >= 1 BY <1>3, <3>1, <3>2
    <3>4. o \in Nat /\ k <= o /\ o <= Len(text) BY <1>2, <1>3, <3>1, <3>3, SkipFacts
    <3>5. CASE offset' = o - 1 BY <1>3, <3>3, <3>4, <3>5
    <3>6. CASE offset' = o /\ at' = "close"
      <4>1. o < Len(text) BY <2>9, <3>6, TokenFacts
      <4> QED BY <1>3, <3>4, <3>6, <4>1
    <3> QED BY <2>9, <3>4, <3>5, <3>6
  <2>11. ReadTo(offset', depth', t, at')
    <3>1. offset' \in 0 .. Len(text) + 1 BY <1>3, <2>10
    <3>2. depth' \in 0 .. NestingLimit /\ Len(t) <= depth'
      <4>1. NestingLimit \in Nat /\ Len(s) \in Nat BY <2>4, FilledFields, CJsonAssumption
      <4> QED BY <1>3, <1>6, <2>2, <2>7, <4>1
    <3> QED BY <2>9, <2>10, <3>1, <3>2 DEF ReadTo, ReachOf
  <2>12. TextAt(items, src, t, at') BY <1>3, <2>4, <2>7, <2>9 DEF TextAt
  <2>13. /\ Filled(items', src, t) /\ TextAt(items', src, t, at') /\ Works(items', {}, {}, TextRoots(src, t), C)
         /\ strings' = Owned(items', Alive(items')) /\ stack' = t /\ source' = src /\ held' = {} /\ ret' = NULL
    BY <1>1, <1>2, <1>3, <2>2, <2>3, <2>4, <2>5, <2>7, <2>8, <2>12
  <2> QED BY <1>1, <1>3, <2>4, <2>11, <2>13, TextAgain
<1> QED BY <1>5, <1>6

LEMMA ParseDoneKeeps == ASSUME Inv, NEW require \in BOOLEAN, ParseDone(require) PROVE Inv'
<1>1. job = "text" /\ at = "after" /\ stack = <<>> /\ items' = items /\ strings' = strings
  BY DEF ParseDone, Parsing
<1>2. /\ TextAt(items, source, stack, "after") /\ ReadTo(offset, depth, stack, "after") /\ text \in Seq(STRING)
      /\ held = {} /\ strings = Owned(items, Alive(items))
  BY <1>1, TextFacts
<1>3. source # NULL /\ source \in Alive(items) /\ items[source].next = NULL BY <1>1, <1>2 DEF TextAt, ItemOf
<1>4. CASE /\ at' = "garbage" /\ offset' = Skip(offset)
           /\ UNCHANGED <<held, ret, depth, stack>> /\ Running
  <2>1. /\ job' = "text" /\ source' = source /\ stack' = stack /\ held' = held /\ ret' = ret /\ text' = text
        /\ depth' = depth
    BY <1>1, <1>4 DEF Running
  <2>2. TextAt(items, source, stack, at') BY <1>2, <1>3, <1>4 DEF TextAt
  <2>3. offset \in 0 .. Len(text) /\ Len(text) \in Nat BY <1>2 DEF ReadTo, ReachOf
  <2>4. PICK o : o = Skip(offset) OBVIOUS
  <2>5. o \in Nat /\ o <= Len(text) BY <1>2, <2>3, <2>4, SkipFacts
  <2>6. offset' \in 0 .. Len(text) + 1 BY <1>4, <2>3, <2>4, <2>5
  <2>7. ReadTo(offset', depth', stack, at') BY <1>2, <1>4, <2>1, <2>6 DEF ReadTo, ReachOf
  <2> QED BY <1>1, <2>1, <2>2, <2>7, TextMoves
<1>5. CASE Returns(source)
  <2>1. PICK n : n = source OBVIOUS
  <2>2. PICK C : Works(items, {}, {}, TextRoots(source, stack), C) BY <1>1, TextFacts
  <2>3. TextRoots(source, stack) = {n} \ {NULL} BY <1>1, <2>1 DEF TextRoots, Heads
  <2>4. /\ Works(items', {}, held, {n} \ {NULL}, C) /\ items'[n].next = NULL /\ n \notin held /\ Returns(n)
        /\ strings' = Owned(items', Alive(items'))
    BY <1>1, <1>2, <1>3, <1>5, <2>1, <2>2, <2>3
  <2> QED BY <2>4, WorkReturns
<1> QED BY <1>4, <1>5 DEF ParseDone

LEMMA ParseFailedKeeps == ASSUME Inv, ParseFailed PROVE Inv'
<1>1. /\ job = "text" /\ stack = <<>> /\ items' = cJSON_Delete(items, source)
      /\ strings' = strings - Owned(items, Doomed(items, source)) /\ Returns(NULL)
  BY DEF ParseFailed
<1>2. /\ TextAt(items, source, stack, at) /\ held = {} /\ strings = Owned(items, Alive(items)) /\ strings \in Nat
      /\ Shape(items) /\ Typed(items)
  BY <1>1, TextFacts DEF Shape
<1>3. PICK C : Works(items, {}, {}, TextRoots(source, stack), C) BY <1>1, TextFacts
<1>4. PICK n : n = NULL OBVIOUS
<1>5. PICK src, roots, none, D, g :
         /\ src = source /\ roots = TextRoots(source, stack) /\ none = {} /\ D = Doomed(items, src) /\ g = items'
  OBVIOUS
<1>6. Works(items, none, none, roots, C) /\ roots = {src} \ {NULL} BY <1>1, <1>3, <1>5 DEF TextRoots, Heads
<1>7. CASE src = NULL
  <2>1. items' = items /\ strings' = Owned(items', Alive(items')) BY <1>1, <1>2, <1>5, <1>7, DeleteNothing
  <2>2. Works(items', {}, held, {n} \ {NULL}, C) /\ n \notin held /\ Returns(n)
    BY <1>1, <1>2, <1>4, <1>5, <1>6, <1>7, <2>1
  <2> QED BY <1>4, <2>1, <2>2, WorkReturns
<1>8. CASE src # NULL
  <2>1. src \in roots /\ src \in Alive(items) BY <1>2, <1>5, <1>6, <1>8 DEF TextAt
  <2>2. Deleted(items, g, roots, src, D) BY <1>1, <1>5, <2>1 DEF Deleted
  <2>3. Works(g, none \ {src}, none, roots \ {src}, C \ D) /\ Trimmed(items, g, roots, src, C, D)
    BY <1>6, <2>2, WorkDelete
  <2>4. Owned(g, Alive(g)) = Owned(items, Alive(items)) - Owned(items, D)
    BY <1>1, <1>2, <1>5, <2>1, DeletedCount
  <2>5. none \ {src} = {} /\ roots \ {src} = {n} \ {NULL} BY <1>4, <1>5, <1>6
  <2>6. PICK E : E = C \ D OBVIOUS
  <2>7. /\ Works(items', {}, held, {n} \ {NULL}, E) /\ n \notin held /\ Returns(n)
        /\ strings' = Owned(items', Alive(items'))
    BY <1>1, <1>2, <1>4, <1>5, <2>3, <2>4, <2>5, <2>6
  <2> QED BY <1>4, <2>7, WorkReturns
<1> QED BY <1>7, <1>8

(* The innermost activation of a parse. *)
LEMMA TextTop ==
  ASSUME Inv, job = "text", stack # <<>>, NEW s, s = stack, NEW t, t = Front(s), NEW src, src = source
  PROVE  /\ Filled(items, src, s) /\ Filled(items, src, t) /\ Deeper(items, src, t, Last(s)) /\ Top = Last(s)
         /\ Last(s) \in Frame(items) /\ Filling(items, Last(s))
         /\ Last(s).kind \in {"Array", "Object"} /\ Last(s).item \in Alive(items)
         /\ Last(s).head \in Alive(items) \cup {NULL} /\ Last(s).current \in Alive(items) \cup {NULL}
         /\ Last(s).head # src
         /\ TextRoots(src, t) = TextRoots(src, s) \ {Last(s).head}
         /\ (Last(s).head # NULL => Last(s).head \in TextRoots(src, s))
         /\ Len(s) \in Nat \ {0} /\ Len(s) \in 1 .. Len(s) /\ Len(t) = Len(s) - 1 /\ Last(s) = s[Len(s)]
         /\ \A i \in 1 .. Len(t) : i \in 1 .. Len(s) /\ i # Len(s) /\ t[i] = s[i]
         /\ src \in Alive(items) /\ items[src].next = NULL /\ src # NULL /\ src \in TextRoots(src, t)
         /\ TextAt(items, src, s, at) /\ ReadTo(offset, depth, s, at)
         /\ held = {} /\ ret = NULL /\ text # <<>> /\ text \in Seq(STRING)
         /\ strings = Owned(items, Alive(items)) /\ strings \in Nat /\ Shape(items) /\ Typed(items)
         /\ \E C : Works(items, {}, {}, TextRoots(src, s), C) /\ Apart(items, src, s, C)
<1>1. /\ Filled(items, src, s) /\ TextAt(items, src, s, at) /\ ReadTo(offset, depth, s, at)
      /\ held = {} /\ ret = NULL /\ text # <<>> /\ text \in Seq(STRING)
      /\ strings = Owned(items, Alive(items)) /\ strings \in Nat /\ Shape(items) /\ Typed(items)
  BY TextFacts DEF Shape
<1>2. PICK C : Works(items, {}, {}, TextRoots(src, s), C) BY TextFacts
<1>3. src \in Alive(items) /\ items[src].next = NULL /\ src # NULL BY <1>1 DEF TextAt
<1>4. Apart(items, src, s, C) BY <1>1, <1>2, <1>3, FilledApart
<1>5. /\ Filled(items, src, t) /\ Deeper(items, src, t, Last(s)) /\ Heads(s) = Heads(t) \cup {Last(s).head}
      /\ Len(s) \in Nat \ {0} /\ Len(t) = Len(s) - 1 /\ Last(s) = s[Len(s)]
      /\ \A i \in 1 .. Len(t) : i \in 1 .. Len(s) /\ i # Len(s) /\ t[i] = s[i]
  BY <1>1, FillPop
<1>6. PICK f : f = Last(s) OBVIOUS
<1>7. /\ f \in Frame(items) /\ Filling(items, f) /\ f.head # src /\ (f.head = NULL \/ f.head \notin Heads(t))
  BY <1>5, <1>6 DEF Deeper
<1>8. /\ f.kind \in {"Array", "Object"} /\ f.item \in Alive(items) /\ f.head \in Alive(items) \cup {NULL}
      /\ f.current \in Alive(items) \cup {NULL}
  BY <1>7 DEF Frame
<1>9. /\ TextRoots(src, t) = TextRoots(src, s) \ {f.head} /\ (f.head # NULL => f.head \in TextRoots(src, s))
      /\ src \in TextRoots(src, t)
  BY <1>3, <1>5, <1>6, <1>7 DEF TextRoots
<1>10. Top = f /\ Len(s) \in 1 .. Len(s) BY <1>5, <1>6 DEF Top
<1> QED BY <1>1, <1>2, <1>3, <1>4, <1>5, <1>6, <1>7, <1>8, <1>9, <1>10

LEMMA ParseFailsKeeps == ASSUME Inv, ParseFails PROVE Inv'
<1>1. /\ job = "text" /\ at \in {"failed", "starved"} /\ job' = "text" /\ source' = source /\ stack # <<>> /\ at' = at
      /\ ret' = ret /\ text' = text /\ offset' = offset /\ depth' = depth /\ held' = held /\ stack' = Front(stack)
      /\ items' = cJSON_Delete(items, Top.head)
      /\ strings' = strings - Owned(items, Doomed(items, Top.head))
  BY DEF ParseFails, Unwind, Running, NoText
<1>2. PICK s, t, src, c, g, D, roots, none :
         /\ s = stack /\ t = Front(s) /\ src = source /\ c = Last(s).head /\ g = items' /\ D = Doomed(items, c)
         /\ roots = TextRoots(src, s) /\ none = {}
  OBVIOUS
<1>3. /\ Filled(items, src, t) /\ Deeper(items, src, t, Last(s)) /\ Top = Last(s)
      /\ c \in Alive(items) \cup {NULL} /\ c # src
      /\ TextRoots(src, t) = roots \ {c} /\ (c # NULL => c \in roots)
      /\ Len(s) \in Nat \ {0} /\ Len(t) = Len(s) - 1
      /\ \A i \in 1 .. Len(t) : i \in 1 .. Len(s) /\ i # Len(s) /\ t[i] = s[i]
      /\ src \in Alive(items) /\ items[src].next = NULL /\ src # NULL /\ src \in TextRoots(src, t)
      /\ ReadTo(offset, depth, s, at)
      /\ held = {} /\ ret = NULL /\ text # <<>> /\ text \in Seq(STRING)
      /\ strings = Owned(items, Alive(items)) /\ strings \in Nat /\ Shape(items) /\ Typed(items)
  BY <1>1, <1>2, TextTop
<1>4. PICK C : Works(items, {}, {}, TextRoots(src, s), C) /\ Apart(items, src, s, C) BY <1>1, <1>2, TextTop
<1>5. Works(items, none, none, roots, C) BY <1>2, <1>4
<1>6. ReadTo(offset', depth', t, at')
  <2>1. Len(t) <= Len(s) BY <1>3
  <2> QED BY <1>1, <1>3, <2>1 DEF ReadTo
<1>7. CASE c = NULL
  <2>1. items' = items /\ strings' = strings BY <1>1, <1>2, <1>3, <1>7, DeleteNothing
  <2>2. TextRoots(src, t) = roots
    <3>1. NULL \notin roots BY <1>2 DEF TextRoots
    <3> QED BY <1>3, <1>7, <3>1
  <2>3. TextAt(items, src, t, at) BY <1>1, <1>3 DEF TextAt
  <2>4. /\ Filled(items', src, t) /\ TextAt(items', src, t, at') /\ Works(items', {}, {}, TextRoots(src, t), C)
        /\ strings' = Owned(items', Alive(items')) /\ stack' = t /\ source' = src /\ held' = {} /\ ret' = NULL
    BY <1>1, <1>2, <1>3, <1>5, <2>1, <2>2, <2>3
  <2> QED BY <1>1, <1>3, <1>6, <2>4, TextAgain
<1>8. CASE c # NULL
  <2>1. Deleted(items, g, roots, c, D) BY <1>1, <1>2, <1>3, <1>8 DEF Deleted
  <2>2. Works(g, none \ {c}, none, roots \ {c}, C \ D) /\ Trimmed(items, g, roots, c, C, D)
    BY <1>5, <2>1, WorkDelete
  <2>3. Owned(g, Alive(g)) = Owned(items, Alive(items)) - Owned(items, D)
    BY <1>1, <1>2, <1>3, <1>8, DeletedCount
  <2>4. /\ Alive(g) = Alive(items) \ D /\ \A x \in Alive(g) : g[x] = items[x]
        /\ \A x \in roots \ {c} : x \notin D
        /\ \A d \in Alive(items) \ D : Run(items, d) \subseteq Run(g, d)
    BY <2>2 DEF Trimmed
  <2>5. Shape(g) /\ roots \ {c} \subseteq Alive(g) /\ NULL \notin Alive(g)
    <3>1. PICK E, rest, o : E = C \ D /\ rest = roots \ {c} /\ o = none \ {c} OBVIOUS
    <3>2. Works(g, o, none, rest, E) BY <2>2, <3>1
    <3>3. Shape(g) /\ rest \subseteq Tops(g) /\ Tops(g) \subseteq Alive(g) /\ NULL \notin Alive(g) BY <3>2, WorksFields
    <3> QED BY <3>1, <3>3
  <2>6. \A i \in 1 .. Len(t) : /\ t[i].head \in Heads(t) /\ t[i] \in Frame(items) /\ Filling(items, t[i])
                               /\ t[i].kind \in {"Array", "Object"}
                               /\ t[i].item = IF i = 1 THEN src ELSE t[i - 1].current
    <3>1. Filled(items, src, t) BY <1>3
    <3>2. \A i \in 1 .. Len(t) : t[i].item = IF i = 1 THEN src ELSE t[i - 1].current BY <3>1 DEF Filled
    <3>3. \A i \in 1 .. Len(t) : /\ t[i].head \in Heads(t) /\ t[i] \in Frame(items) /\ Filling(items, t[i])
                                 /\ t[i].kind \in {"Array", "Object"}
      BY <3>1, FilledFields
    <3> QED BY <3>2, <3>3
  <2>7. ASSUME NEW i \in 1 .. Len(t), t[i].head # NULL
        PROVE  /\ t[i].head \in Alive(g) /\ t[i].current \in Alive(g) /\ IsLast(g, t[i].head, t[i].current)
    <3>1. PICK d, l : d = t[i].head /\ l = t[i].current OBVIOUS
    <3>2. d \in roots \ {c}
      <4>1. d \in TextRoots(src, t) BY <2>6, <2>7, <3>1 DEF TextRoots
      <4> QED BY <1>3, <4>1
    <3>3. d \in Alive(g) /\ d \in Alive(items) \ D BY <2>4, <2>5, <3>2
    <3>4. l \in Run(items, d) /\ items[l].next = NULL BY <2>6, <2>7, <3>1 DEF Filling, IsLast
    <3>5. l \in Run(g, d) BY <2>4, <3>3, <3>4
    <3>6. l \in Alive(g) BY <2>5, <3>3, <3>5, RunFacts
    <3>7. g[l].next = NULL BY <2>4, <3>4, <3>6
    <3> QED BY <3>1, <3>3, <3>5, <3>6, <3>7 DEF IsLast
  <2>8. ASSUME NEW i \in 1 .. Len(t) PROVE t[i].item \in Alive(g)
    <3>1. CASE i = 1 BY <1>3, <2>5, <2>6, <3>1
    <3>2. CASE i # 1
      <4>1. PICK k : k = i - 1 OBVIOUS
      <4>2. k \in 1 .. Len(t) /\ t[i].item = t[k].current BY <1>3, <2>6, <3>2, <4>1
      <4>3. t[i].item \in Alive(items) /\ NULL \notin Alive(items) BY <2>6, NullIsNoNode DEF Frame, Alive
      <4>4. t[k].head # NULL BY <2>6, <4>2, <4>3 DEF Filling
      <4> QED BY <2>7, <4>2, <4>4
    <3> QED BY <3>1, <3>2
  <2>9. ASSUME NEW i \in 1 .. Len(t) PROVE t[i] \in Frame(g) /\ Filling(g, t[i])
    <3>1. t[i].item \in Alive(g) /\ t[i] \in Frame(items) /\ Filling(items, t[i]) BY <2>6, <2>8
    <3>2. g[t[i].item].child = NULL BY <2>4, <3>1 DEF Filling
    <3>3. CASE t[i].head = NULL BY <3>1, <3>2, <3>3 DEF Frame, Filling
    <3>4. CASE t[i].head # NULL
      <4>1. /\ t[i].head \in Alive(g) /\ t[i].current \in Alive(g) /\ IsLast(g, t[i].head, t[i].current)
        BY <2>7, <3>4
      <4>2. t[i] \in Frame(g) BY <3>1, <4>1 DEF Frame
      <4> QED BY <3>2, <3>4, <4>1, <4>2 DEF Filling
    <3> QED BY <3>3, <3>4
  <2>10. Filled(g, src, t) BY <1>3, <2>9, FilledAgain
  <2>11. TextAt(g, src, t, at)
    <3>1. src \in Alive(g) /\ g[src].next = NULL BY <1>3, <2>4, <2>5
    <3> QED BY <1>1, <1>3, <3>1 DEF TextAt
  <2>12. PICK E : E = C \ D OBVIOUS
  <2>13. /\ Filled(items', src, t) /\ TextAt(items', src, t, at') /\ Works(items', {}, {}, TextRoots(src, t), E)
         /\ strings' = Owned(items', Alive(items')) /\ stack' = t /\ source' = src /\ held' = {} /\ ret' = NULL
    BY <1>1, <1>2, <1>3, <2>2, <2>3, <2>10, <2>11, <2>12
  <2> QED BY <1>1, <1>3, <1>6, <2>13, TextAgain
<1> QED BY <1>7, <1>8

(* The last item of a list without an owner is no other list's. *)
LEMMA TopLastAlone ==
  ASSUME NEW h, NEW open, Shape(h), Rings(h, open), NEW c \in Tops(h), NEW l \in Run(h, c)
  PROVE  NoLast(h, open, l)
<1>1. SUFFICES ASSUME NEW q \in Alive(h) \ open, ~h[q].ref, h[q].child # NULL, h[h[q].child].prev = l
               PROVE  FALSE
  BY DEF NoLast
<1> DEFINE d == h[q].child
<1>2. d \in Alive(h) /\ Owner(h, q, d) BY <1>1, AliveFacts DEF Owner
<1>3. IsLast(h, d, l) BY <1>1 DEF Rings, Ring
<1> HIDE DEF d
<1>4. c \in Starts(h) /\ d \in Starts(h) BY <1>2 DEF Shape, Firsts, Owner, Tops
<1>5. c = d BY <1>3, <1>4, RunsMeet DEF IsLast
<1> QED BY <1>1, <1>2, <1>5 DEF Tops

(* A new item has joined the innermost list. *)
Joined(g, src, t, r, n, D) ==
  /\ Works(g, {}, {}, TextRoots(src, t) \cup {r.head}, D)
  /\ \A i \in 1 .. Len(t) : t[i] \in Frame(g) /\ Filling(g, t[i])
  /\ Deeper(g, src, t, r) /\ r.head # NULL /\ r.current = n /\ n # NULL
  /\ src \in Alive(g) /\ src # NULL /\ g[src].next = NULL
  /\ g[n].child = NULL /\ g[n].value = NULL /\ g[n].string = NULL /\ g[n].const = FALSE
JoinedBy(h, src, t, g, r, n, D, u) ==
  Filled(h, src, t) /\ Joined(g, src, t, r, n, D) /\ u = Append(t, r)
LEMMA JoinedState ==
  ASSUME NEW h, NEW src, NEW t, NEW g, NEW r, NEW n, NEW D, NEW u, JoinedBy(h, src, t, g, r, n, D, u)
  PROVE  /\ Filled(g, src, u) /\ Len(u) = Len(t) + 1 /\ Works(g, {}, {}, TextRoots(src, u), D)
         /\ TextAt(g, src, u, "value") /\ TextAt(g, src, u, "name")
<1> Filled(h, src, t) /\ Joined(g, src, t, r, n, D) /\ u = Append(t, r) BY DEF JoinedBy
<1>1. Filled(g, src, t) BY FilledAgain DEF Joined
<1>2. Entered(g, src, t, r, u) BY DEF Joined, Entered
<1>3. /\ Filled(g, src, u) /\ Heads(u) = Heads(t) \cup {r.head} /\ Len(u) = Len(t) + 1
      /\ u # <<>> /\ Last(u) = r
  BY <1>1, <1>2, FillPush
<1>4. TextRoots(src, u) = TextRoots(src, t) \cup {r.head} BY <1>3 DEF TextRoots, Joined
<1>5. ItemOf(src, u) = n BY <1>3 DEF ItemOf, Joined
<1>6. TextAt(g, src, u, "value") /\ TextAt(g, src, u, "name") BY <1>3, <1>5 DEF TextAt, Joined
<1>7. Works(g, {}, {}, TextRoots(src, u), D) BY <1>4 DEF Joined
<1> QED BY <1>3, <1>6, <1>7

LEMMA ParseElementKeeps == ASSUME Inv, ParseElement PROVE Inv'
<1>1. /\ job = "text" /\ at = "element" /\ job' = "text" /\ source' = source /\ held' = held /\ ret' = ret
      /\ text' = text /\ depth' = depth /\ strings' = strings
  BY DEF ParseElement, Parsing, Quiet, Running
<1>2. /\ stack # <<>> /\ source # NULL BY <1>1, TextFacts DEF TextAt
<1>3. PICK s, t, src, f, roots, none :
         s = stack /\ t = Front(s) /\ src = source /\ f = Last(s) /\ roots = TextRoots(src, s) /\ none = {}
  OBVIOUS
<1>4. /\ Filled(items, src, s) /\ Filled(items, src, t) /\ Deeper(items, src, t, f) /\ Top = f
      /\ f \in Frame(items) /\ Filling(items, f)
      /\ f.item \in Alive(items)
      /\ f.head \in Alive(items) \cup {NULL} /\ f.head # src
      /\ TextRoots(src, t) = roots \ {f.head} /\ (f.head # NULL => f.head \in roots)
      /\ Len(s) \in Nat \ {0} /\ Len(s) \in 1 .. Len(s) /\ Len(t) = Len(s) - 1 /\ f = s[Len(s)]
      /\ \A i \in 1 .. Len(t) : i \in 1 .. Len(s) /\ i # Len(s) /\ t[i] = s[i]
      /\ src \in Alive(items) /\ items[src].next = NULL /\ src # NULL
      /\ ReadTo(offset, depth, s, at)
      /\ held = {} /\ ret = NULL /\ text # <<>> /\ text \in Seq(STRING)
      /\ strings = Owned(items, Alive(items)) /\ Shape(items)
  BY <1>1, <1>2, <1>3, TextTop
<1>5. PICK C : Works(items, {}, {}, TextRoots(src, s), C) /\ Apart(items, src, s, C) BY <1>1, <1>2, <1>3, TextTop
<1>6. Works(items, none, none, roots, C) BY <1>3, <1>5
<1>7. offset \in 0 .. Len(text) - 1 /\ Len(text) \in Nat /\ depth \in 0 .. NestingLimit /\ Len(s) <= depth
  BY <1>1, <1>4 DEF ReadTo, ReachOf
<1>8. CASE at' = "starved" /\ UNCHANGED <<items, stack, offset>>
  <2>1. offset' \in 0 .. Len(text) + 1 BY <1>7, <1>8
  <2> QED BY <1>1, <1>8, <2>1, ParseFailures
<1>9. ASSUME HasMemory(items), NEW n, n = NewAddress(items), NEW h, h = cJSON_New_Item(items, Zeroed),
             items' = IF f.head = NULL THEN h ELSE suffix_object(h, f.current, n),
             NEW r, r = [f EXCEPT !.head = IF @ = NULL THEN n ELSE @, !.current = n],
             stack' = Append(t, r), offset' = Skip(offset + 1), at' \in {"value", "name"}
      PROVE  Inv'
  <2>1. PICK item, g, D : item = Zeroed /\ g = items' /\ D = C \cup {n} OBVIOUS
  <2>2. /\ NewItem(items, n, item) /\ ~OwnsName(item) /\ ~OwnsValue(item) /\ item.next = NULL /\ item.child = NULL
        /\ item.ref = FALSE /\ item.value = NULL /\ item.string = NULL /\ item.const = FALSE
    BY <2>1, NewFields, BareFacts
  <2>3. Born(items, h, n, item) BY <1>9, <2>1, <2>2 DEF Born
  <2>4. /\ Works(h, none, none, roots \cup {n}, C \cup {n})
        /\ n \in Nodes /\ n \notin Alive(items) /\ n # NULL /\ Alive(h) = Alive(items) \cup {n} /\ h[n] = item
        /\ \A x \in Alive(items) : h[x] = items[x] /\ x # n
        /\ \A d \in Alive(items) : Run(items, d) \subseteq Run(h, d)
    BY <1>6, <2>3, WorkNew
  <2>5. Owned(h, Alive(h)) = Owned(items, Alive(items)) BY <1>4, <1>9, <2>1, <2>2, BareCount
  <2>6. PICK rs : rs = roots \cup {n} OBVIOUS
  <2>7. Works(h, none, none, rs, D) BY <2>1, <2>4, <2>6
  <2>8. Shape(h) /\ rs \subseteq Tops(h) /\ Tops(h) \subseteq Alive(h) /\ NULL \notin Alive(h) BY <2>7, WorksFields
  <2>9. /\ r.item = f.item /\ r.kind = f.kind /\ r.current = n
        /\ r.head = IF f.head = NULL THEN n ELSE f.head
        /\ r = [kind |-> f.kind, item |-> f.item, head |-> r.head, current |-> n]
        /\ f.kind \in {"Array", "Object"}
    BY <1>4, <1>9 DEF Frame
  <2>10. ASSUME NEW i \in 1 .. Len(t)
         PROVE  /\ t[i] \in Frame(h) /\ Filling(h, t[i]) /\ t[i].item \in Alive(items)
                /\ t[i].head \in Alive(items) \cup {NULL} /\ t[i].head \in Heads(t)
                /\ t[i].head # NULL => t[i].current \in Alive(items)
    <3>1. /\ t[i] \in Frame(items) /\ t[i].item \in Alive(items) /\ t[i].head \in Alive(items) \cup {NULL}
          /\ t[i].current \in Alive(items) \cup {NULL} /\ t[i].head \in Heads(t) /\ Filling(items, t[i])
      BY <1>4, FilledFields
    <3>2. t[i] \in Frame(h) BY <2>4, <3>1 DEF Frame
    <3>3. h[t[i].item].child = NULL BY <2>4, <3>1 DEF Filling
    <3>4. CASE t[i].head = NULL BY <3>1, <3>2, <3>3, <3>4 DEF Filling
    <3>5. CASE t[i].head # NULL
      <4>1. PICK d, m : d = t[i].head /\ m = t[i].current OBVIOUS
      <4>2. d \in Alive(items) /\ m \in Run(items, d) /\ items[m].next = NULL BY <3>1, <3>5, <4>1 DEF Filling, IsLast
      <4>3. m \in Alive(items) BY <1>4, <4>2, RunFacts
      <4>4. IsLast(h, d, m) BY <2>4, <4>2, <4>3 DEF IsLast
      <4> QED BY <3>1, <3>2, <3>3, <3>5, <4>1, <4>3, <4>4 DEF Filling
    <3> QED BY <3>4, <3>5
  <2>11. ASSUME f.head = NULL PROVE Joined(g, src, t, r, n, D) /\ Owned(g, Alive(g)) = Owned(items, Alive(items))
    <3>1. g = h /\ r.head = n BY <1>9, <2>1, <2>9, <2>11
    <3>2. Deeper(h, src, t, r)
      <4>1. r \in Frame(h) BY <1>4, <2>4, <2>9, <3>1 DEF Frame
      <4>2. n \in Run(h, n) /\ h[n].next = NULL BY <2>2, <2>4, <2>8, RunFacts
      <4>3. h[f.item].child = NULL BY <1>4, <2>4 DEF Filling
      <4>4. Filling(h, r) BY <2>4, <2>9, <3>1, <4>2, <4>3 DEF Filling, IsLast
      <4>5. n \notin Heads(t)
        <5>1. Heads(t) \subseteq Alive(items) \cup {NULL} BY <2>10 DEF Heads
        <5> QED BY <2>4, <5>1
      <4> QED BY <1>4, <2>4, <2>9, <3>1, <4>1, <4>4, <4>5 DEF Deeper
    <3>3. rs = TextRoots(src, t) \cup {r.head}
      <4>1. NULL \notin roots BY <1>3 DEF TextRoots
      <4> QED BY <1>4, <2>6, <2>11, <3>1, <4>1
    <3>4. Works(h, {}, {}, TextRoots(src, t) \cup {r.head}, D) BY <1>3, <2>7, <3>3
    <3>5. Joined(g, src, t, r, n, D) BY <1>4, <2>2, <2>4, <2>9, <2>10, <3>1, <3>2, <3>4 DEF Joined
    <3> QED BY <2>5, <3>1, <3>5
  <2>12. ASSUME f.head # NULL PROVE Joined(g, src, t, r, n, D) /\ Owned(g, Alive(g)) = Owned(items, Alive(items))
    <3>1. PICK c, l : c = f.head /\ l = f.current OBVIOUS
    <3>2. g = suffix_object(h, l, n) /\ r.head = c /\ c # NULL /\ c \in roots /\ c \in Alive(items)
      BY <1>4, <1>9, <2>1, <2>9, <2>12, <3>1
    <3>3. l \in C /\ l \in Alive(items) /\ l \in Run(items, c) /\ items[l].next = NULL /\ l # src
      <4>1. PICK i : i = Len(s) OBVIOUS
      <4>2. i \in 1 .. Len(s) /\ s[i].head # NULL /\ s[i].head = c /\ s[i].current = l BY <1>4, <2>12, <3>1, <4>1
      <4>3. s[i].current \in C /\ s[i].current \in Run(items, s[i].head) /\ items[s[i].current].next = NULL /\ s[i].current # src
        BY <1>5, <4>2 DEF Apart
      <4>4. C \subseteq Alive(items) BY <1>6, WorksFields
      <4> QED BY <4>2, <4>3, <4>4
    <3>4. l \in Run(h, c) /\ h[l].next = NULL /\ n # l /\ h[n].next = NULL BY <2>2, <2>4, <3>2, <3>3
    <3>5. c \in Tops(h) BY <2>6, <2>8, <3>2
    <3>6. Rings(h, none) BY <2>7 DEF Works
    <3>7. NoLast(h, none, l) BY <2>8, <3>4, <3>5, <3>6, TopLastAlone
    <3>8. Appended(h, g, none, rs, D, l, n) BY <2>1, <2>6, <3>2, <3>3, <3>4, <3>7 DEF Appended
    <3>9. /\ Works(g, none, none, rs \ {n}, D) /\ Relinked(h, g)
          /\ \A x \in Alive(h) : /\ g[x].next = IF x = l THEN n ELSE h[x].next
                                 /\ g[x].child = h[x].child
          /\ \A d \in Alive(h) : /\ Run(h, d) \subseteq Run(g, d)
                                 /\ l \in Run(h, d) => n \in Run(g, d)
      BY <2>7, <3>8, WorkAppend, ZenonT(60)
    <3>10. Alive(g) = Alive(h) /\ Owned(g, Alive(g)) = Owned(h, Alive(h)) /\ SameData(h, g)
      BY <3>9, RelinkedCount DEF Relinked
    <3>11. rs \ {n} = TextRoots(src, t) \cup {r.head}
      <4>1. roots \subseteq Alive(items) BY <1>6, WorksFields
      <4> QED BY <1>4, <2>4, <2>6, <3>1, <3>2, <4>1
    <3>12. Deeper(g, src, t, r)
      <4>1. r \in Frame(g) BY <1>4, <2>4, <2>9, <3>2, <3>10 DEF Frame
      <4>2. g[f.item].child = NULL BY <1>4, <2>4, <3>9 DEF Filling
      <4>3. n \in Run(g, c) /\ g[n].next = NULL BY <2>4, <3>2, <3>4, <3>9
      <4>4. Filling(g, r) BY <2>9, <3>2, <4>2, <4>3 DEF Filling, IsLast
      <4> QED BY <1>4, <2>9, <3>1, <3>2, <4>1, <4>4 DEF Deeper
    <3>13. ASSUME NEW i \in 1 .. Len(t) PROVE t[i] \in Frame(g) /\ Filling(g, t[i])
      <4>1. /\ t[i] \in Frame(h) /\ Filling(h, t[i]) /\ t[i].item \in Alive(items)
            /\ t[i].head \in Alive(items) \cup {NULL}
            /\ t[i].head # NULL => t[i].current \in Alive(items)
        BY <2>10
      <4>2. t[i] \in Frame(g) BY <3>10, <4>1 DEF Frame
      <4>3. g[t[i].item].child = NULL BY <2>4, <3>9, <4>1 DEF Filling
      <4>4. CASE t[i].head = NULL BY <4>1, <4>2, <4>3, <4>4 DEF Filling
      <4>5. CASE t[i].head # NULL
        <5>1. PICK d, m : d = t[i].head /\ m = t[i].current OBVIOUS
        <5>2. d \in Alive(h) /\ m \in Run(h, d) /\ h[m].next = NULL /\ m \in Alive(h) /\ m # NULL
          BY <2>4, <2>8, <4>1, <4>5, <5>1 DEF Filling, IsLast
        <5>3. m # l
          <6>1. PICK k, j : k = Len(s) /\ j = i OBVIOUS
          <6>2. /\ k \in 1 .. Len(s) /\ j \in 1 .. Len(s) /\ j # k /\ s[k].current = l /\ s[j].current = m
            BY <1>4, <3>1, <5>1, <6>1
          <6>3. \A a, b \in 1 .. Len(s) : s[a].current # NULL /\ s[a].current = s[b].current => a = b
            BY <1>5 DEF Apart
          <6> QED BY <5>2, <6>2, <6>3
        <5>4. IsLast(g, d, m) BY <3>9, <5>2, <5>3 DEF IsLast
        <5> QED BY <4>2, <4>3, <4>5, <5>1, <5>4 DEF Filling
      <4> QED BY <4>4, <4>5
    <3>14. src \in Alive(g) /\ g[src].next = NULL BY <1>4, <2>4, <3>3, <3>9, <3>10
    <3>15. g[n].child = NULL /\ g[n].value = NULL /\ g[n].string = NULL /\ g[n].const = FALSE
      BY <2>2, <2>4, <3>9, <3>10 DEF SameData
    <3>16. Works(g, {}, {}, TextRoots(src, t) \cup {r.head}, D) BY <1>3, <3>9, <3>11
    <3>17. Joined(g, src, t, r, n, D)
      BY <1>4, <2>4, <2>9, <3>2, <3>12, <3>13, <3>14, <3>15, <3>16 DEF Joined
    <3> QED BY <2>5, <3>10, <3>17
  <2>13. Joined(g, src, t, r, n, D) /\ Owned(g, Alive(g)) = Owned(items, Alive(items)) BY <2>11, <2>12
  <2>14. PICK u : u = Append(t, r) OBVIOUS
  <2>15. /\ Filled(g, src, u) /\ Len(u) = Len(t) + 1 /\ Works(g, {}, {}, TextRoots(src, u), D)
         /\ TextAt(g, src, u, "value") /\ TextAt(g, src, u, "name")
    <3>1. PICK hh : hh = items OBVIOUS
    <3>2. Filled(hh, src, t) BY <1>4, <3>1
    <3>3. JoinedBy(hh, src, t, g, r, n, D, u) BY <2>13, <2>14, <3>2 DEF JoinedBy
    <3> QED BY <3>3, JoinedState, Zenon
  <2>16. TextAt(g, src, u, at') BY <1>9, <2>15
  <2>17. ReadTo(offset', depth', u, at')
    <3>1. PICK k, o : k = offset + 1 /\ o = Skip(k) OBVIOUS
    <3>2. k \in Nat /\ k <= Len(text) BY <1>7, <3>1
    <3>3. o \in Nat /\ o <= Len(text) BY <1>4, <3>1, <3>2, SkipFacts
    <3>4. offset' \in 0 .. Len(text) BY <1>7, <1>9, <3>1, <3>3
    <3>5. Len(u) <= depth BY <1>4, <1>7, <2>15
    <3> QED BY <1>1, <1>7, <1>9, <3>4, <3>5 DEF ReadTo, ReachOf
  <2>18. /\ Filled(items', src, u) /\ TextAt(items', src, u, at') /\ Works(items', {}, {}, TextRoots(src, u), D)
         /\ strings' = Owned(items', Alive(items')) /\ stack' = u /\ source' = src /\ held' = {} /\ ret' = NULL
    BY <1>1, <1>3, <1>4, <1>9, <2>1, <2>13, <2>14, <2>15, <2>16
  <2> QED BY <1>1, <1>4, <2>17, <2>18, TextAgain
<1> QED
  <2>1. CASE at' = "starved" /\ UNCHANGED <<items, stack, offset>> BY <1>8, <2>1
  <2>2. CASE /\ HasMemory(items)
             /\ LET n == NewAddress(items)
                    h == cJSON_New_Item(items, Zeroed)
                IN /\ items' = IF Top.head = NULL THEN h ELSE suffix_object(h, Top.current, n)
                   /\ stack' = Append(Front(stack),
                                      [Top EXCEPT !.head = IF @ = NULL THEN n ELSE @, !.current = n])
             /\ offset' = Skip(offset + 1)
             /\ at' = IF Top.kind = "Array" THEN "value" ELSE "name"
    <3>1. PICK n, h, r : /\ n = NewAddress(items) /\ h = cJSON_New_Item(items, Zeroed)
                         /\ r = [f EXCEPT !.head = IF @ = NULL THEN n ELSE @, !.current = n]
      OBVIOUS
    <3>2. /\ items' = IF f.head = NULL THEN h ELSE suffix_object(h, f.current, n)
          /\ stack' = Append(t, r) /\ HasMemory(items) /\ offset' = Skip(offset + 1) /\ at' \in {"value", "name"}
      BY <1>3, <1>4, <2>2, <3>1
    <3> QED BY <1>9, <3>1, <3>2
  <2> QED BY <2>1, <2>2 DEF ParseElement

LEMMA ParseCloseKeeps == ASSUME Inv, ParseClose PROVE Inv'
<1>1. /\ job = "text" /\ at = "close" /\ job' = "text" /\ source' = source /\ held' = held /\ ret' = ret
      /\ text' = text /\ strings' = strings /\ depth' = depth - 1 /\ offset' = offset + 1
      /\ stack' = Front(stack) /\ at' = "after"
      /\ items' = [IF Top.head = NULL THEN items ELSE [items EXCEPT ![Top.head].prev = Top.current]
                     EXCEPT ![Top.item].type = Top.kind, ![Top.item].child = Top.head]
  BY DEF ParseClose, Parsing, Quiet, Running
<1>2. /\ stack # <<>> /\ source # NULL BY <1>1, TextFacts DEF TextAt
<1>3. PICK s, t, src, f, roots, none, it, c, l :
         /\ s = stack /\ t = Front(s) /\ src = source /\ f = Last(s) /\ roots = TextRoots(src, s) /\ none = {}
         /\ it = f.item /\ c = f.head /\ l = f.current
  OBVIOUS
<1>4. /\ Filled(items, src, s) /\ Filled(items, src, t) /\ Deeper(items, src, t, f) /\ Top = f
      /\ f \in Frame(items) /\ Filling(items, f) /\ f.kind \in {"Array", "Object"}
      /\ it \in Alive(items) /\ c \in Alive(items) \cup {NULL} /\ c # src
      /\ TextRoots(src, t) = roots \ {c} /\ (c # NULL => c \in roots)
      /\ Len(s) \in Nat \ {0} /\ Len(s) \in 1 .. Len(s) /\ Len(t) = Len(s) - 1 /\ f = s[Len(s)]
      /\ \A i \in 1 .. Len(t) : i \in 1 .. Len(s) /\ i # Len(s) /\ t[i] = s[i]
      /\ src \in Alive(items) /\ items[src].next = NULL /\ src # NULL
      /\ ReadTo(offset, depth, s, at)
      /\ held = {} /\ ret = NULL /\ text # <<>> /\ text \in Seq(STRING)
      /\ strings = Owned(items, Alive(items)) /\ Shape(items) /\ Typed(items)
  BY <1>1, <1>2, <1>3, TextTop
<1>5. PICK C : Works(items, {}, {}, TextRoots(src, s), C) /\ Apart(items, src, s, C) BY <1>1, <1>2, <1>3, TextTop
<1>6. Works(items, none, none, roots, C) /\ C \subseteq Alive(items) /\ NULL \notin Alive(items) BY <1>3, <1>5, WorksFields
<1>7. offset \in 0 .. Len(text) - 1 /\ Len(text) \in Nat /\ depth \in 0 .. NestingLimit /\ Len(s) <= depth
  <2>1. at = "close" /\ ReadTo(offset, depth, s, at) BY <1>1, <1>4
  <2>2. Len(text) \in Nat BY <1>4
  <2> QED BY <2>1, <2>2, SMTT(30) DEF ReadTo, ReachOf
<1>8. /\ it \in C /\ it # c /\ items[it].child = NULL /\ ~items[it].ref /\ items[it].value \in {it, NULL}
      /\ items[it] \in ItemRec
  <2>1. PICK k : k = Len(s) OBVIOUS
  <2>2. k \in 1 .. Len(s) /\ s[k].item = it /\ s[k].head = c BY <1>3, <1>4, <2>1
  <2>3. it \in C /\ it # c BY <1>5, <2>2 DEF Apart
  <2>4. ~items[it].ref BY <1>6, <2>3, WorksFields
  <2>5. items[it].child = NULL BY <1>3, <1>4 DEF Filling
  <2>6. items[it].value \in {it, NULL} BY <1>4, <2>4 DEF Shape, OwnValues
  <2>7. items[it] \in ItemRec BY <1>4 DEF Typed, Alive
  <2> QED BY <2>3, <2>4, <2>5, <2>6, <2>7
<1>9. PICK g : g = items' OBVIOUS
<1>10. ASSUME c = NULL
       PROVE  /\ Works(g, none, none, roots, C) /\ Alive(g) = Alive(items)
              /\ \A x \in Alive(items) : /\ g[x].next = items[x].next
                                         /\ g[x].child = items[x].child
                                         /\ OwnsName(g[x]) = OwnsName(items[x]) /\ OwnsValue(g[x]) = OwnsValue(items[x])
              /\ \A d : Run(g, d) = Run(items, d)
  <2>1. PICK new : new = [items[it] EXCEPT !.type = f.kind, !.child = NULL] OBVIOUS
  <2>2. g = [items EXCEPT ![it] = new] BY <1>1, <1>3, <1>4, <1>9, <1>10, <2>1
  <2>3. new \in ItemRec /\ new.next = items[it].next /\ new.prev = items[it].prev /\ new.child = items[it].child
        /\ new.ref = items[it].ref /\ new.value = items[it].value /\ new.string = items[it].string
        /\ new.const = items[it].const
    BY <1>4, <1>8, <2>1 DEF ItemRec, ItemTypes, Types
  <2>4. Labelled(items, g, it, new) BY <1>4, <1>8, <2>2, <2>3 DEF Labelled
  <2>5. /\ SameLinks(items, g, it) /\ g[it] = new /\ Alive(g) = Alive(items)
        /\ \A y \in Alive(items) \ {it} : g[y] = items[y]
    BY <1>4, <2>4, LabelledFields
  <2>6. SameLinks(items, g, it) /\ g[it].value \in {it, NULL} BY <1>8, <2>3, <2>5
  <2>7. Works(g, none, none, roots, C) /\ \A d : Run(g, d) = Run(items, d) BY <1>6, <1>8, <2>6, WorkData
  <2>8. ASSUME NEW x \in Alive(items)
        PROVE  /\ g[x].next = items[x].next /\ g[x].child = items[x].child
               /\ OwnsName(g[x]) = OwnsName(items[x]) /\ OwnsValue(g[x]) = OwnsValue(items[x])
    BY <2>3, <2>5 DEF OwnsName, OwnsValue
  <2> QED BY <2>5, <2>7, <2>8
<1>11. ASSUME c # NULL
       PROVE  /\ Works(g, none, none, roots \ {c}, C) /\ Alive(g) = Alive(items)
              /\ \A x \in Alive(items) : /\ g[x].next = items[x].next
                                         /\ x # it => g[x].child = items[x].child
                                         /\ OwnsName(g[x]) = OwnsName(items[x]) /\ OwnsValue(g[x]) = OwnsValue(items[x])
              /\ \A d : Run(g, d) = Run(items, d)
  <2>1. PICK h1, h2, open : /\ h1 = [items EXCEPT ![it].child = c] /\ h2 = [h1 EXCEPT ![c].prev = l] /\ open = {it}
    OBVIOUS
  <2>2. c \in Alive(items) /\ c \in roots /\ l \in Nodes \cup {NULL} /\ IsLast(items, c, l)
        /\ it \in Nodes /\ c \in Nodes /\ items \in [Nodes -> ItemRec \cup {Freed}] /\ items[c] \in ItemRec
    BY <1>3, <1>4, <1>11 DEF Frame, Filling, Alive, Typed
  <2>3. ChildSet(items, [items EXCEPT ![it].child = c], it, c) BY <1>4, <2>2, LinkSet
  <2>4. ChildSet(items, h1, it, c) /\ Typed(h1) /\ c \in Alive(h1) /\ it \in Alive(h1)
    BY <1>4, <2>1, <2>2, <2>3 DEF ChildSet, Relinked
  <2>5. PrevSet(h1, [h1 EXCEPT ![c].prev = l], c, l) BY <2>2, <2>4, LinkSet
  <2>6. PrevSet(h1, h2, c, l) BY <2>1, <2>5
  <2>7. Works(items, open, none, roots, C) BY <1>3, <1>6 DEF Works, Rings
  <2>8. Adopted(items, h1, open, roots, C, it, c) BY <1>8, <2>1, <2>2, <2>4 DEF Adopted
  <2>9. /\ Works(h1, open, none, roots \ {c}, C) /\ Relinked(items, h1) /\ \A d : Run(h1, d) = Run(items, d)
    BY <2>7, <2>8, WorkSetChild
  <2>10. Owner(h1, it, c) /\ IsLast(h1, c, l)
    <3>1. /\ h1[it].child = c /\ h1[it].ref = items[it].ref
          /\ \A x \in Alive(items) : h1[x].next = items[x].next
      BY <1>4, <2>4 DEF ChildSet, Relinked, SameData
    <3>2. l \in Alive(items) BY <1>3, <1>4, <1>11, <2>2, RunFacts DEF IsLast
    <3> QED BY <1>8, <2>2, <2>4, <2>9, <3>1, <3>2 DEF Owner, IsLast
  <2>11. PICK left : left = roots \ {c} OBVIOUS
  <2>12. /\ Works(h2, open \ {it}, none, left, C) /\ Relinked(h1, h2) /\ \A d : Run(h2, d) = Run(h1, d)
    <3>1. Works(h1, open, none, left, C) BY <2>9, <2>11
    <3> QED BY <2>4, <2>6, <2>10, <3>1, WorkClose
  <2>13. Works(h2, none, none, left, C) BY <1>3, <2>1, <2>12
  <2>14. /\ Alive(h2) = Alive(items) /\ Typed(h2)
         /\ \A x \in Alive(items) : /\ h2[x].next = items[x].next /\ (x # it => h2[x].child = items[x].child)
                                    /\ h2[x].ref = items[x].ref /\ h2[x].value = items[x].value
                                    /\ h2[x].string = items[x].string /\ h2[x].const = items[x].const
    BY <2>4, <2>6 DEF ChildSet, PrevSet, Relinked, SameData
  <2>15. PICK new : new = [h2[it] EXCEPT !.type = f.kind] OBVIOUS
  <2>16. h2[it] \in ItemRec BY <1>8, <1>4, <2>2, <2>14 DEF Typed, Alive
  <2>17. /\ new \in ItemRec /\ new.next = h2[it].next /\ new.prev = h2[it].prev /\ new.child = h2[it].child
         /\ new.ref = h2[it].ref /\ new.value = h2[it].value /\ new.string = h2[it].string /\ new.const = h2[it].const
    BY <1>4, <2>15, <2>16 DEF ItemRec, ItemTypes, Types
  <2>18. g = [h2 EXCEPT ![it] = new]
    <3>1. g = [[items EXCEPT ![c].prev = l] EXCEPT ![it].type = f.kind, ![it].child = c]
      BY <1>1, <1>3, <1>4, <1>9, <1>11
    <3>2. h2 = [[items EXCEPT ![it].child = c] EXCEPT ![c].prev = l] BY <2>1
    <3>3. /\ DOMAIN g = Nodes /\ DOMAIN h2 = Nodes
          /\ g = [x \in Nodes |-> g[x]] /\ h2 = [x \in Nodes |-> h2[x]]
      BY <2>2, <3>1, <3>2
    <3>4. \A x \in Nodes \ {it} : g[x] = h2[x] BY <1>8, <2>2, <3>1, <3>2
    <3>5. g[it] = [[items[it] EXCEPT !.type = f.kind] EXCEPT !.child = c] BY <1>8, <2>2, <3>1
    <3>6. h2[it] = [items[it] EXCEPT !.child = c] BY <1>8, <2>2, <3>2
    <3>7. g[it] = new BY <1>8, <2>15, <3>5, <3>6 DEF ItemRec
    <3>8. PICK k : k = [h2 EXCEPT ![it] = new] OBVIOUS
    <3>9. k = [x \in Nodes |-> k[x]] /\ \A x \in Nodes : k[x] = IF x = it THEN new ELSE h2[x] BY <2>2, <3>3, <3>8
    <3>10. \A x \in Nodes : g[x] = k[x] BY <3>4, <3>7, <3>9
    <3>11. g = k BY <3>3, <3>9, <3>10
    <3> QED BY <3>8, <3>11
  <2>19. Labelled(h2, g, it, new) BY <1>4, <1>8, <2>14, <2>17, <2>18 DEF Labelled
  <2>20. /\ SameLinks(h2, g, it) /\ g[it] = new /\ Alive(g) = Alive(h2)
         /\ \A y \in Alive(h2) \ {it} : g[y] = h2[y]
    BY <2>14, <2>19, LabelledFields
  <2>21. g[it].value \in {it, NULL} BY <1>4, <1>8, <2>14, <2>17, <2>20
  <2>22. Works(g, none, none, left, C) /\ \A d : Run(g, d) = Run(h2, d) BY <1>8, <2>13, <2>20, <2>21, WorkData
  <2>23. ASSUME NEW x \in Alive(items)
         PROVE  /\ g[x].next = items[x].next /\ (x # it => g[x].child = items[x].child)
                /\ OwnsName(g[x]) = OwnsName(items[x]) /\ OwnsValue(g[x]) = OwnsValue(items[x])
    BY <2>14, <2>17, <2>20 DEF OwnsName, OwnsValue
  <2> QED BY <2>9, <2>11, <2>12, <2>14, <2>20, <2>22, <2>23
<1>12. PICK left : left = roots \ {c} OBVIOUS
<1>13. /\ Works(g, none, none, left, C) /\ Alive(g) = Alive(items)
       /\ \A x \in Alive(items) : /\ g[x].next = items[x].next
                                  /\ x # it => g[x].child = items[x].child
                                  /\ OwnsName(g[x]) = OwnsName(items[x]) /\ OwnsValue(g[x]) = OwnsValue(items[x])
       /\ \A d : Run(g, d) = Run(items, d)
  <2>1. CASE c = NULL
    <3>1. left = roots BY <1>3, <1>12, <2>1 DEF TextRoots
    <3> QED BY <1>10, <2>1, <3>1
  <2>2. CASE c # NULL BY <1>11, <1>12, <2>2
  <2> QED BY <2>1, <2>2
<1>14. Owned(g, Alive(g)) = Owned(items, Alive(items))
  <2>1. PICK S : S = Alive(items) OBVIOUS
  <2>2. \A x \in S : (OwnsName(items[x]) <=> OwnsName(g[x])) /\ (OwnsValue(items[x]) <=> OwnsValue(g[x]))
    BY <1>13, <2>1 DEF OwnsName, OwnsValue
  <2>3. Owned(items, S) = Owned(g, S) BY <2>2, OwnedSame
  <2> QED BY <1>13, <2>1, <2>3
<1>15. ASSUME NEW i \in 1 .. Len(t) PROVE t[i] \in Frame(g) /\ Filling(g, t[i])
  <2>1. /\ t[i] \in Frame(items) /\ Filling(items, t[i]) /\ t[i].item \in Alive(items)
        /\ t[i].head \in Alive(items) \cup {NULL} /\ t[i].current \in Alive(items) \cup {NULL}
    BY <1>4, FilledFields
  <2>2. t[i].item # it
    <3>1. PICK k, j : k = Len(s) /\ j = i OBVIOUS
    <3>2. k \in 1 .. Len(s) /\ j \in 1 .. Len(s) /\ j # k /\ s[k].item = it /\ s[j].item = t[i].item
      BY <1>3, <1>4, <3>1
    <3>3. \A a, b \in 1 .. Len(s) : s[a].item = s[b].item => a = b BY <1>5 DEF Apart
    <3> QED BY <3>2, <3>3
  <2>3. t[i] \in Frame(g) BY <1>13, <2>1 DEF Frame
  <2>4. g[t[i].item].child = NULL BY <1>13, <2>1, <2>2 DEF Filling
  <2>5. CASE t[i].head = NULL BY <2>1, <2>3, <2>4, <2>5 DEF Filling
  <2>6. CASE t[i].head # NULL
    <3>1. PICK d, m : d = t[i].head /\ m = t[i].current OBVIOUS
    <3>2. m \in Run(items, d) /\ items[m].next = NULL /\ d \in Alive(items) BY <2>1, <2>6, <3>1 DEF Filling, IsLast
    <3>3. m \in Alive(items) BY <1>4, <3>2, RunFacts
    <3>4. IsLast(g, d, m) BY <1>13, <3>2, <3>3 DEF IsLast
    <3> QED BY <2>3, <2>4, <2>6, <3>1, <3>4 DEF Filling
  <2> QED BY <2>5, <2>6
<1>16. Filled(g, src, t)
  <2>1. PICK h : h = items OBVIOUS
  <2>2. Filled(h, src, t) BY <1>4, <2>1
  <2> QED BY <1>15, <2>2, FilledAgain
<1>17. TextAt(g, src, t, "after")
  <2>1. ItemOf(src, t) = it BY <1>3, <1>4 DEF Deeper
  <2>2. it # NULL BY <1>4, <1>6
  <2>3. src \in Alive(g) /\ g[src].next = NULL BY <1>4, <1>13
  <2> QED BY <1>4, <2>1, <2>2, <2>3 DEF TextAt
<1>18. ReadTo(offset', depth', t, "after")
  <2>3. PICK m, k : m = Len(s) /\ k = Len(t) OBVIOUS
  <2>4. depth' = depth - 1 /\ m \in Nat \ {0} /\ k = m - 1 /\ m <= depth /\ depth \in 0 .. NestingLimit
    BY <1>1, <1>4, <1>7, <2>3
  <2>5. k <= depth' /\ depth' \in 0 .. NestingLimit BY <2>4, CJsonAssumption
  <2>1. Len(t) <= depth' /\ depth' \in 0 .. NestingLimit BY <2>3, <2>5
  <2>2. offset' \in 0 .. Len(text) BY <1>1, <1>7
  <2> QED BY <1>1, <2>1, <2>2 DEF ReadTo, ReachOf
<1>19. Works(g, {}, {}, TextRoots(src, t), C) BY <1>3, <1>4, <1>12, <1>13
<1>20. /\ Filled(items', src, t) /\ TextAt(items', src, t, at') /\ Works(items', {}, {}, TextRoots(src, t), C)
       /\ strings' = Owned(items', Alive(items')) /\ stack' = t /\ source' = src /\ held' = {} /\ ret' = NULL
       /\ ReadTo(offset', depth', t, at') /\ at' = "after"
  BY <1>1, <1>3, <1>4, <1>9, <1>14, <1>16, <1>17, <1>18, <1>19
<1> QED BY <1>1, <1>4, <1>20, TextAgain


-----------------------------------------------------------------------------
(* The heaps a run begins with. *)

(* Items that point to nothing are each their own list. *)
LEMMA LooseShape ==
  ASSUME NEW h, Typed(h),
         \A n \in Alive(h) : /\ h[n].next = NULL /\ h[n].prev = NULL /\ h[n].child = NULL
                             /\ h[n].value = NULL /\ ~h[n].ref
  PROVE  /\ Shape(h) /\ \A open : Rings(h, open) /\ Tops(h) = Alive(h)
         /\ Island(h, {})
<1>1. NULL \notin Alive(h) /\ Alive(h) \subseteq Nodes BY NullIsNoNode DEF Alive
<1>2. Starts(h) = Alive(h) BY <1>1 DEF Starts
<1>3. Tops(h) = Alive(h) BY <1>1, <1>2 DEF Tops, Owner
<1>4. Links(h) /\ Backs(h) /\ Sharing(h) /\ OwnValues(h) /\ Prevs(h)
  BY <1>1 DEF Links, Backs, Sharing, OwnValues, Prevs
<1>5. OneOwner(h) /\ Firsts(h) BY <1>1 DEF OneOwner, Firsts, Owner
<1>6. Grounded(h) BY <1>2 DEF Grounded
<1>7. \A open : Rings(h, open) BY DEF Rings, Ring
<1>8. Island(h, {})
  <2>1. PICK none : none = {} OBVIOUS
  <2>2. Island(h, none) BY <2>1 DEF Island
  <2> QED BY <2>1, <2>2
<1> QED BY <1>3, <1>4, <1>5, <1>6, <1>7, <1>8 DEF Shape

LEMMA InitInv == Init => Inv
<1> SUFFICES ASSUME Init PROVE Inv OBVIOUS
<1>1. /\ strings = 0 /\ job = (IF text = <<>> THEN "idle" ELSE "text")
      /\ at = "start" /\ stack = <<>> /\ source = NULL /\ ret = NULL /\ offset = 0 /\ depth = 0
      /\ \/ items = Empty /\ held = {} /\ text \in Texts \cup {<<>>}
         \/ items = Detached /\ held = {1, 2} /\ text = <<>>
  BY DEF Init
<1>2. /\ Typed(items) /\ Alive(items) = held
      /\ \A n \in Alive(items) : /\ items[n].next = NULL /\ items[n].prev = NULL /\ items[n].child = NULL
                                 /\ items[n].value = NULL /\ ~items[n].ref
                                 /\ ~OwnsName(items[n]) /\ ~OwnsValue(items[n])
  <2>1. CASE items = Empty /\ held = {}
    <3>1. \A n \in Nodes : items[n] = Freed BY <2>1 DEF Empty
    <3>2. items \in [Nodes -> ItemRec \cup {Freed}] BY <2>1 DEF Empty
    <3>3. Alive(items) = {} BY <3>1 DEF Alive
    <3> QED BY <2>1, <3>2, <3>3 DEF Typed
  <2>2. CASE items = Detached /\ held = {1, 2}
    <3>1. PICK k, a, b : /\ k = (CHOOSE key \in Keys : TRUE) /\ a = [Zeroed EXCEPT !.type = "Object"]
                         /\ b = [Zeroed EXCEPT !.type = "Array", !.const = TRUE, !.string = k]
      OBVIOUS
    <3>2. k \in StringTokens \cup {NULL} BY <3>1, CJsonAssumption, KeyFacts
    <3>3. a \in ItemRec /\ b \in ItemRec BY <3>1, <3>2 DEF ItemRec, ItemTypes, Types, Zeroed
    <3>4. /\ a.next = NULL /\ a.prev = NULL /\ a.child = NULL /\ a.value = NULL /\ ~a.ref /\ a.string = NULL
          /\ b.next = NULL /\ b.prev = NULL /\ b.child = NULL /\ b.value = NULL /\ ~b.ref /\ b.const
      BY <3>1 DEF Zeroed
    <3>5. 1 \in Nodes /\ 2 \in Nodes BY CJsonAssumption
    <3>6. items = [Empty EXCEPT ![1] = a, ![2] = b] BY <2>2, <3>1 DEF Detached
    <3>7. Empty \in [Nodes -> ItemRec \cup {Freed}] /\ \A n \in Nodes : Empty[n] = Freed BY DEF Empty
    <3>8. /\ items \in [Nodes -> ItemRec \cup {Freed}] /\ items[1] = a /\ items[2] = b
          /\ \A n \in Nodes \ {1, 2} : items[n] = Freed
      BY <3>3, <3>5, <3>6, <3>7
    <3>9. a # Freed /\ b # Freed BY <3>3, NotFreed
    <3>10. Alive(items) = {1, 2} BY <3>5, <3>8, <3>9 DEF Alive
    <3> QED BY <2>2, <3>4, <3>8, <3>10 DEF Typed, OwnsName, OwnsValue
  <2> QED BY <1>1, <2>1, <2>2
<1>3. /\ Shape(items) /\ (\A open : Rings(items, open)) /\ Tops(items) = Alive(items) /\ Island(items, {})
  BY <1>2, LooseShape
<1>4. Activations = {} BY <1>1 DEF Activations, ToSet
<1>5. Roots = {}
  <2>1. CASE job = "text" BY <1>1, <1>4, <2>1 DEF Roots
  <2>2. CASE job = "idle" BY <2>2 DEF Roots
  <2> QED BY <1>1, <2>1, <2>2
<1>6. Placed(items, held, Roots)
  <2>1. PICK none : none = {} OBVIOUS
  <2>2. Placed(items, held, none) BY <1>2, <1>3, <2>1 DEF Placed
  <2> QED BY <1>5, <2>1, <2>2
<1>7. Fresh
  <2>1. PICK none : none = {} OBVIOUS
  <2>2. Island(items, none) /\ Roots \subseteq none /\ Kept \cap none = {} BY <1>3, <1>5, <2>1
  <2> QED BY <2>2 DEF Fresh
<1>8. StringsAccounted
  <2>1. {x \in Live : OwnsName(items[x])} = {} /\ {x \in Live : OwnsValue(items[x])} = {}
    BY <1>2, LiveIsAlive
  <2>2. Cardinality({}) = 0 BY FS_EmptySet
  <2>3. Owned(items, Live) = 0 BY <2>1, <2>2 DEF Owned
  <2> QED BY <1>1, <2>3 DEF StringsAccounted
<1>9. JobOK /\ IdleOK /\ NumbersOK /\ CopyOK BY <1>1 DEF JobOK, IdleOK, NumbersOK, CopyOK
<1>10. text \in Seq(STRING)
  <2>1. CASE text = <<>> BY <2>1
  <2>2. CASE text # <<>> BY <1>1, <2>2, CJsonAssumption
  <2> QED BY <2>1, <2>2
<1>11. BufferOK
  <2>1. 0 \in 0 .. NestingLimit BY CJsonAssumption
  <2>2. Len(stack) = 0 BY <1>1
  <2> QED BY <1>1, <1>10, <2>1, <2>2 DEF BufferOK, ReachOf
<1>12. TextOK
  <2>1. SUFFICES ASSUME job = "text" PROVE TextOK BY DEF TextOK
  <2>2. items = Empty /\ held = {} /\ text # <<>> BY <1>1, <2>1
  <2>3. stack \in Seq(Frame(items)) /\ 1 .. Len(stack) = {} BY <1>1
  <2> QED BY <1>1, <2>2, <2>3 DEF TextOK
<1> QED BY <1>3, <1>6, <1>7, <1>8, <1>9, <1>11, <1>12 DEF Inv


-----------------------------------------------------------------------------
(* Every step of a call, and every call, keeps the invariant. *)

LEMMA EditKeeps == ASSUME Inv, Edit PROVE Inv'
<1>1. CASE \E type \in Types : Create(type) BY <1>1, CreateKeeps
<1>2. CASE \E p \in Live : CreateReference(p) BY <1>2, CreateReferenceKeeps
<1>3. CASE \E p, n \in Live : AddItemToArray(p, n) BY <1>3, AddItemToArrayKeeps
<1>4. CASE \E p, n \in Live, name \in Keys, const \in BOOLEAN : AddItemToObject(p, name, n, const)
  BY <1>4, AddItemToObjectKeeps
<1>5. CASE \E p \in Live, name \in Keys, type \in Types : AddNewToObject(p, name, type)
  BY <1>5, AddNewToObjectKeeps
<1>6. CASE \E p, n \in Live : AddItemReferenceToArray(p, n) BY <1>6, AddItemReferenceToArrayKeeps
<1>7. CASE \E p, n \in Live, name \in Keys : AddItemReferenceToObject(p, name, n)
  BY <1>7, AddItemReferenceToObjectKeeps
<1>8. CASE \E p, n \in Live : DetachItem(p, n) BY <1>8, DetachItemKeeps
<1>9. CASE \E p, n \in Live, which \in Places : Insert(p, which, n) BY <1>9, InsertKeeps
<1>10. CASE \E p, n \in Live, which \in Places : ReplaceItemInArray(p, which, n) BY <1>10, ReplaceItemInArrayKeeps
<1>11. CASE \E p, n \in Live, name \in Keys, sensitive \in BOOLEAN : ReplaceItemInObject(p, name, n, sensitive)
  BY <1>11, ReplaceItemInObjectKeeps
<1>12. CASE \E p, n \in Live : ReplaceItemInObjectFails(p, n) BY <1>12, ReplaceItemInObjectFailsKeeps
<1>13. CASE \E n \in Live : Delete(n) BY <1>13, DeleteKeeps
<1>14. CASE \E count \in 0 .. MaxCount : ArrayStart(count) BY <1>14, ArrayStartKeeps
<1>15. CASE \E n \in Live, recurse \in BOOLEAN : DupStart(n, recurse) BY <1>15, DupStartKeeps
<1> QED
  BY <1>1, <1>2, <1>3, <1>4, <1>5, <1>6, <1>7, <1>8, <1>9, <1>10, <1>11, <1>12, <1>13, <1>14, <1>15 DEF Edit

LEMMA WorkKeeps == ASSUME Inv, Work PROVE Inv'
<1>1. CASE ArrayNext \/ ArrayFails \/ ArrayDone BY <1>1, ArrayNextKeeps, ArrayFailsKeeps, ArrayDoneKeeps
<1>2. CASE DupEnter \/ DupWalk \/ DupLink \/ DupFails \/ DupDone
  BY <1>2, DupEnterKeeps, DupWalkKeeps, DupLinkKeeps, DupFailsKeeps, DupDoneKeeps
<1>3. CASE ParseStart \/ ParseScalar \/ ParseString \/ ParseOpen \/ ParseElement \/ ParseName
  BY <1>3, ParseStartKeeps, ParseScalarKeeps, ParseStringKeeps, ParseOpenKeeps, ParseElementKeeps, ParseNameKeeps
<1>4. CASE ParseNoValue \/ ParseNext \/ ParseClose \/ ParseFails \/ ParseFailed
  BY <1>4, ParseNoValueKeeps, ParseNextKeeps, ParseCloseKeeps, ParseFailsKeeps, ParseFailedKeeps
<1>5. CASE \E require \in BOOLEAN : ParseDone(require) BY <1>5, ParseDoneKeeps
<1> QED BY <1>1, <1>2, <1>3, <1>4, <1>5 DEF Work

LEMMA StutterKeeps == ASSUME Inv, UNCHANGED vars PROVE Inv'
<1>1. /\ items' = items /\ strings' = strings /\ held' = held /\ job' = job /\ at' = at /\ stack' = stack
      /\ source' = source /\ ret' = ret /\ text' = text /\ offset' = offset /\ depth' = depth
  BY DEF vars, heapVars, parseVars
<1>2. Activations' = Activations /\ Top' = Top /\ Item' = Item /\ Live' = Live
  BY <1>1 DEF Activations, Top, Item, Live
<1>3. Open' = Open /\ Roots' = Roots /\ Kept' = Kept BY <1>1, <1>2 DEF Open, Roots, Kept
<1>4. StringsAccounted' /\ Fresh' BY <1>1, <1>2, <1>3 DEF Inv, StringsAccounted, Fresh
<1>5. JobOK' /\ IdleOK' BY <1>1 DEF Inv, JobOK, IdleOK
<1>6. NumbersOK' BY <1>1, <1>2 DEF Inv, NumbersOK
<1>7. CopyOK' BY <1>1, <1>2 DEF Inv, CopyOK
<1>8. TextOK' BY <1>1, <1>2 DEF Inv, TextOK
<1>9. BufferOK'
  <2>1. BufferOK BY DEF Inv
  <2>2. text \in Seq(STRING) /\ Len(text) \in Nat BY <2>1 DEF BufferOK
  <2>3. ReachOf(at)' = ReachOf(at) BY <1>1 DEF ReachOf
  <2> QED BY <1>1, <2>1, <2>3 DEF BufferOK
<1>10. (Shape(items) /\ Rings(items, Open) /\ Placed(items, held, Roots))' BY <1>1, <1>3 DEF Inv
<1> QED BY <1>4, <1>5, <1>6, <1>7, <1>8, <1>9, <1>10 DEF Inv

(* The shape of the heap, who has to free what, and how far the call that  *)
(* is going on has got: kept by every step.                                *)
THEOREM InvHolds == Spec => []Inv
<1>1. Init => Inv BY InitInv
<1>2. Inv /\ [Next]_vars => Inv' BY EditKeeps, WorkKeeps, StutterKeeps DEF Next
<1> QED BY <1>1, <1>2, PTL DEF Spec

-----------------------------------------------------------------------------
(* What the runs check follows from it. *)

LEMMA TypesFollow == Inv => TypeOK
<1> SUFFICES ASSUME Inv PROVE TypeOK OBVIOUS
<1>1. /\ Shape(items) /\ Typed(items) /\ Alive(items) = Live /\ StringsAccounted /\ Placed(items, held, Roots)
      /\ JobOK /\ IdleOK /\ NumbersOK /\ CopyOK /\ TextOK /\ BufferOK
  BY LiveIsAlive DEF Inv, Shape
<1>2. ASSUME NEW n \in Live
      PROVE  /\ items[n].type \in Types \cup {"Invalid", "NULL", "True", "False"}
             /\ items[n].ref \in BOOLEAN /\ items[n].const \in BOOLEAN
             /\ items[n].string \in StringTokens \cup {NULL}
             /\ {items[n].next, items[n].prev, items[n].child, items[n].value} \subseteq Pointers
  <2>1. items[n] \in ItemRec BY <1>1, <1>2 DEF Typed, Alive
  <2>2. {items[n].next, items[n].prev, items[n].child, items[n].value} \subseteq Alive(items) \cup {NULL}
    BY <1>1, <1>2 DEF Shape, Links
  <2> QED BY <1>1, <2>1, <2>2 DEF ItemRec, ItemTypes, Pointers
<1>3. strings \in Nat BY <1>1, CountNat, LiveIsAlive DEF StringsAccounted
<1>4. held \subseteq Live BY <1>1 DEF Placed, Tops, Starts
<1>5. source \in Pointers /\ ret \in Pointers
  <2>1. CASE job = "idle" BY <1>1, <2>1 DEF IdleOK, Pointers
  <2>2. CASE job = "numbers" BY <1>1, <2>2 DEF NumbersOK, Pointers
  <2>3. CASE job \in {"copy", "shallow"} BY <1>1, <2>3 DEF CopyOK, Pointers
  <2>4. CASE job = "text" BY <1>1, <2>4 DEF TextOK, Pointers
  <2> QED BY <1>1, <2>1, <2>2, <2>3, <2>4 DEF JobOK
<1>6. offset \in 0 .. Len(text) + 1 /\ depth \in 0 .. NestingLimit
  <2>1. Len(text) \in Nat BY <1>1 DEF BufferOK
  <2>2. CASE job = "text"
    <3>1. offset \in ReachOf(at) BY <1>1, <2>2 DEF BufferOK
    <3>2. offset \in 0 .. Len(text) + 1 BY <2>1, <3>1 DEF ReachOf
    <3> QED BY <1>1, <3>2 DEF BufferOK
  <2>3. CASE job # "text" BY <1>1, <2>1, <2>3 DEF BufferOK
  <2> QED BY <2>2, <2>3
<1> QED BY <1>1, <1>2, <1>3, <1>4, <1>5, <1>6 DEF TypeOK, JobOK


(* An item without a successor is its list. *)
LEMMA RunOfOne ==
  ASSUME NEW h, Shape(h), NEW c \in Alive(h), h[c].next = NULL
  PROVE  Run(h, c) = {c}
<1>1. PICK C : C = {c} OBVIOUS
<1>2. c \in Nodes BY DEF Alive
<1>3. C \in SUBSET Nodes /\ c \in C /\ NextClosed(h, C) BY <1>1, <1>2 DEF NextClosed
<1>4. c \in Run(h, c) /\ Run(h, c) \subseteq C BY <1>3, RunFacts
<1> QED BY <1>1, <1>4

(* The children of p, the list at h[p].child. *)
LEMMA ChildrenOf ==
  ASSUME NEW h, Shape(h), NEW p \in Alive(h)
  PROVE  /\ h[p].child = NULL => ListOf(h, p) = <<>> /\ ToSet(ListOf(h, p)) = {}
         /\ h[p].child # NULL =>
              /\ h[p].child \in Starts(h) /\ ToSet(ListOf(h, p)) = Run(h, h[p].child)
              /\ \E q \in Alive(h) : Owner(h, q, h[p].child)
<1>1. CASE h[p].child = NULL
  <2>1. ListOf(h, p) = <<>> BY <1>1, ListOfNothing DEF ListOf
  <2>2. ToSet(ListOf(h, p)) = {} BY <2>1 DEF ToSet
  <2> QED BY <1>1, <2>1, <2>2
<1>2. CASE h[p].child # NULL
  <2>1. PICK c : c = h[p].child OBVIOUS
  <2>2. c \in Alive(h) BY <1>2, <2>1, AliveFacts
  <2>3. \E q \in Alive(h) : Owner(h, q, c)
    <3>1. CASE h[p].ref BY <1>2, <2>1, <3>1 DEF Shape, Sharing
    <3>2. CASE ~h[p].ref BY <2>1, <3>2 DEF Owner
    <3> QED BY <3>1, <3>2
  <2>4. c \in Starts(h) BY <2>2, <2>3 DEF Shape, Firsts
  <2>5. ToSet(ListFrom(h, c)) = Run(h, c) BY <2>4, ListFacts
  <2> QED BY <1>2, <2>1, <2>3, <2>4, <2>5 DEF ListOf
<1> QED BY <1>1, <1>2

(* What a call has built and not yet given a parent are the lists of its roots. *)
LEMMA PendingFacts ==
  ASSUME Inv, NEW c \in Starts(items), NEW n \in Run(items, c), NEW pend, pend = Pending, NEW roots, roots = Roots
  PROVE  n \in pend <=> c \in roots
<1>1. /\ Shape(items) /\ roots \subseteq Tops(items) /\ Tops(items) \subseteq Starts(items)
      /\ Starts(items) \subseteq Alive(items) /\ NULL \notin Alive(items) /\ JobOK
  BY NullIsNoNode DEF Inv, Placed, Tops, Starts, Alive
<1>2. n \in Alive(items) BY <1>1, RunFacts
<1>3. ASSUME NEW r \in roots, items[r].next = NULL PROVE n = r <=> c = r
  <2>1. r \in Starts(items) /\ r \in Alive(items) /\ r \in Run(items, r) BY <1>1, <1>3, RunFacts
  <2>2. n = r => c = r BY <1>1, <2>1, RunsMeet
  <2>3. c = r => n = r
    <3>1. Run(items, r) = {r} BY <1>1, <1>3, <2>1, RunOfOne
    <3> QED BY <3>1
  <2> QED BY <2>2, <2>3
<1>4. CASE job = "idle" BY <1>4 DEF Pending, Roots
<1>5. CASE job = "numbers"
  <2>1. PICK a : a = Top.new OBVIOUS
  <2>2. Roots = {a} /\ Activations = {Top} /\ items[a].next = NULL /\ Len(stack) = 1 /\ at # "return"
    <3>1. NumbersOK BY DEF Inv
    <3>2. at # "return" /\ Len(stack) = 1 BY <1>5, <3>1 DEF NumbersOK
    <3>3. stack \in Seq(Numbers(items)) BY <1>5, <3>1 DEF NumbersOK, Numbers
    <3>4. Top = stack[1] BY <3>2 DEF Top, Last
    <3>5. Activations = {Top} BY <3>2, <3>3, <3>4 DEF Activations, ToSet
    <3>6. items[a].next = NULL BY <1>5, <2>1, <3>1 DEF NumbersOK, Building
    <3> QED BY <1>5, <2>1, <3>2, <3>5, <3>6, NumbersFacts
  <2>3. Pending = {a} BY <1>5, <2>1, <2>2 DEF Pending
  <2>4. roots = {a} /\ pend = {a} BY <2>2, <2>3
  <2> QED BY <1>3, <2>2, <2>4
<1>6. CASE job \in {"copy", "shallow"}
  <2>1. pend = roots
    <3>1. Pending = Roots BY <1>6 DEF Pending, Roots
    <3> QED BY <3>1
  <2>2. ASSUME NEW r \in roots PROVE items[r].next = NULL
    <3>1. roots = {a.new : a \in Activations} \cup (IF at = "return" THEN {ret} ELSE {}) BY <1>6 DEF Roots
    <3>2. CopyOK BY DEF Inv
    <3>3. \A a \in Activations : items[a.new].next = NULL
      <4>1. \A i \in 1 .. Len(stack) : items[stack[i].new].next = NULL BY <1>6, <3>2 DEF CopyOK, Building
      <4>2. DOMAIN stack = 1 .. Len(stack) BY <1>6, <3>2 DEF CopyOK
      <4> QED BY <4>1, <4>2 DEF Activations, ToSet
    <3>4. at = "return" => items[ret].next = NULL BY <1>6, <3>2 DEF CopyOK
    <3> QED BY <2>2, <3>1, <3>3, <3>4
  <2> QED BY <1>3, <2>1, <2>2
<1>7. CASE job = "text"
  <2>1. PICK src : src = source OBVIOUS
  <2>2. src # NULL => items[src].next = NULL /\ src \in roots
    BY <1>7, <2>1 DEF Inv, TextOK, Roots
  <2>3. roots = ({src} \cup {a.head : a \in Activations}) \ {NULL} BY <1>7, <2>1 DEF Roots
  <2>4. pend = ({src} \ {NULL}) \cup UNION {ToSet(ListFrom(items, a.head)) : a \in Activations}
    BY <1>7, <2>1 DEF Pending
  <2>5. ASSUME NEW a \in Activations PROVE n \in ToSet(ListFrom(items, a.head)) <=> a.head # NULL /\ c = a.head
    <3>1. PICK d : d = a.head OBVIOUS
    <3>2. CASE d = NULL
      <4>1. ToSet(ListFrom(items, d)) = {} BY <3>2, ListOfNothing DEF ToSet
      <4> QED BY <3>1, <3>2, <4>1
    <3>3. CASE d # NULL
      <4>1. d \in Starts(items) BY <1>1, <2>3, <2>5, <3>1, <3>3
      <4>2. ToSet(ListFrom(items, d)) = Run(items, d) BY <1>1, <4>1, ListFacts
      <4>3. n \in Run(items, d) => c = d BY <1>1, <4>1, RunsMeet
      <4> QED BY <3>1, <3>3, <4>2, <4>3
    <3> QED BY <3>2, <3>3
  <2>6. n # NULL /\ c # NULL BY <1>1, <1>2
  <2>7. src # NULL => (n = src <=> c = src) BY <1>3, <2>2
  <2> QED BY <2>3, <2>4, <2>5, <2>6, <2>7
<1> QED BY <1>1, <1>4, <1>5, <1>6, <1>7 DEF JobOK

LEMMA PlacesFollow == Inv => HeldOnce
<1> SUFFICES ASSUME Inv, NEW n \in Live PROVE
      LET owners == {p \in Live : ~items[p].ref /\ n \in ToSet(ListOf(items, p))}
          places == Cardinality(owners) + (IF n \in held THEN 1 ELSE 0) + (IF n \in Pending THEN 1 ELSE 0)
      IN /\ places = 1 \/ (places = 0 /\ Forgotten(n))
         /\ n \in held => items[n].next = NULL
  BY DEF HeldOnce
<1> DEFINE owners == {p \in Live : ~items[p].ref /\ n \in ToSet(ListOf(items, p))}
<1>1. PICK roots : roots = Roots OBVIOUS
<1>2. /\ Shape(items) /\ Placed(items, held, roots) /\ Alive(items) = Live
      /\ held \cup roots \subseteq Tops(items) /\ held \cap roots = {}
      /\ \A x \in held : items[x].next = NULL
      /\ Tops(items) \subseteq Starts(items) /\ Starts(items) \subseteq Alive(items)
  BY <1>1, LiveIsAlive DEF Inv, Placed, Tops, Starts
<1>3. PICK c \in Starts(items) : n \in Run(items, c) BY <1>2, EveryoneListed
<1>4. n \in Pending <=> c \in roots BY <1>1, <1>3, PendingFacts
<1>5. n \in held <=> c \in held
  <2>1. ASSUME n \in held PROVE c = n
    <3>1. n \in Starts(items) /\ n \in Run(items, n) BY <1>2, <2>1, RunFacts
    <3> QED BY <1>2, <1>3, <3>1, RunsMeet
  <2>2. ASSUME c \in held PROVE c = n
    <3>1. Run(items, c) = {c} BY <1>2, <2>2, RunOfOne
    <3> QED BY <1>3, <3>1
  <2> QED BY <2>1, <2>2
<1>6. \A p \in Live : p \in owners <=> Owner(items, p, c)
  <2> SUFFICES ASSUME NEW p \in Live PROVE p \in owners <=> Owner(items, p, c) OBVIOUS
  <2>1. PICK d : d = items[p].child OBVIOUS
  <2>2. NULL \notin Alive(items) /\ c \in Alive(items) BY <1>2, NullIsNoNode DEF Alive
  <2>3. CASE d = NULL
    <3>1. ToSet(ListOf(items, p)) = {} BY <1>2, <2>1, <2>3, ChildrenOf
    <3> QED BY <2>1, <2>2, <2>3, <3>1 DEF Owner
  <2>4. CASE d # NULL
    <3>1. d \in Starts(items) /\ ToSet(ListOf(items, p)) = Run(items, d) BY <1>2, <2>1, <2>4, ChildrenOf
    <3>2. n \in Run(items, d) <=> d = c BY <1>2, <1>3, <3>1, RunsMeet
    <3> QED BY <1>2, <2>1, <3>1, <3>2 DEF Owner
  <2> QED BY <2>3, <2>4
<1>7. owners \subseteq Live OBVIOUS
<1>8. n \in held => items[n].next = NULL BY <1>2
<1>9. CASE c \notin Tops(items)
  <2>1. PICK p \in Alive(items) : Owner(items, p, c) BY <1>9 DEF Tops
  <2>2. owners = {p} BY <1>2, <1>6, <1>7, <2>1 DEF Shape, OneOwner
  <2>3. Cardinality(owners) = 1 BY <2>2, FS_Singleton
  <2>4. n \notin held /\ n \notin Pending BY <1>2, <1>4, <1>5, <1>9
  <2> QED BY <1>8, <2>3, <2>4
<1>10. CASE c \in Tops(items)
  <2>1. owners = {} BY <1>2, <1>6, <1>7, <1>10 DEF Tops
  <2>2. Cardinality(owners) = 0 BY <2>1, FS_EmptySet
  <2>3. CASE c \in held
    <3>1. n \in held /\ n \notin Pending BY <1>2, <1>4, <1>5, <2>3
    <3> QED BY <1>8, <2>2, <3>1
  <2>4. CASE c \in roots
    <3>1. n \notin held /\ n \in Pending BY <1>2, <1>4, <1>5, <2>4
    <3> QED BY <1>8, <2>2, <3>1
  <2>5. CASE c \notin held \cup roots
    <3>1. n \notin held /\ n \notin Pending BY <1>4, <1>5, <2>5
    <3>2. items[c].ref /\ items[c].string = NULL /\ items[c].next = NULL BY <1>2, <1>10, <2>5 DEF Placed
    <3>3. Run(items, c) = {c} BY <1>2, <3>2, RunOfOne
    <3>4. n = c BY <1>3, <3>3
    <3>5. Forgotten(n) BY <3>2, <3>4 DEF Forgotten
    <3> QED BY <1>8, <2>2, <3>1, <3>5
  <2> QED BY <2>3, <2>4, <2>5
<1> QED BY <1>9, <1>10

LEMMA ListsFollow == Inv => ListsAreSound
<1> SUFFICES ASSUME Inv, NEW p \in Live PROVE
      LET s == ListOf(items, p)
          building == job # "text" /\ \E a \in Activations : a.new = p
      IN /\ IsInjective(s)
         /\ \A k \in 2 .. Len(s) : items[s[k]].prev = s[k - 1]
         /\ s # <<>> /\ ~building => items[s[1]].prev = Last(s)
  BY DEF ListsAreSound
<1> DEFINE building == job # "text" /\ \E a \in Activations : a.new = p
<1>1. Shape(items) /\ Rings(items, Open) /\ Alive(items) = Live /\ Fresh /\ JobOK
  BY LiveIsAlive DEF Inv
<1>2. CASE items[p].child = NULL
  <2>1. ListOf(items, p) = <<>> BY <1>1, <1>2, ChildrenOf
  <2> QED BY <2>1 DEF IsInjective
<1>3. CASE items[p].child # NULL
  <2>1. PICK c, s : c = items[p].child /\ s = ListOf(items, p) OBVIOUS
  <2>2. c \in Starts(items) /\ c \in Alive(items) /\ c # NULL BY <1>1, <1>3, <2>1, ChildrenOf DEF Starts
  <2>3. /\ s \in Seq(Alive(items)) /\ Len(s) >= 1 /\ s[1] = c /\ Chain(items, s)
        /\ items[Last(s)].next = NULL /\ IsInjective(s) /\ ToSet(s) = Run(items, c)
    <3>1. s = ListFrom(items, c) BY <2>1 DEF ListOf
    <3> QED BY <1>1, <2>2, <3>1, ListFacts
  <2>4. ASSUME NEW k \in 2 .. Len(s) PROVE items[s[k]].prev = s[k - 1]
    <3>1. k - 1 \in 1 .. Len(s) - 1 /\ k - 1 + 1 = k /\ k \in 1 .. Len(s) /\ k - 1 \in 1 .. Len(s) BY <2>3
    <3>2. items[s[k - 1]].next = s[k] BY <2>3, <3>1 DEF Chain
    <3>3. s[k] \in Alive(items) /\ s[k - 1] \in Alive(items) BY <2>3, <3>1
    <3> QED BY <1>1, <3>2, <3>3 DEF Shape, Backs
  <2>5. ASSUME ~building PROVE items[c].prev = Last(s)
    <3>1. PICK q \in Alive(items) : Owner(items, q, c) BY <1>1, <1>3, <2>1, ChildrenOf
    <3>2. q \notin Open
      <4>1. SUFFICES ASSUME q \in Open PROVE FALSE OBVIOUS
      <4>2. job # "text" /\ Open = {a.new : a \in Activations} BY <4>1 DEF Open
      <4>3. p # q BY <2>5, <4>1, <4>2
      <4>4. items[p].ref BY <1>1, <2>1, <2>2, <3>1, <4>3 DEF Shape, OneOwner, Owner
      <4>5. PICK C : Island(items, C) /\ Roots \subseteq C BY <1>1 DEF Fresh
      <4>6. q \in C
        <5>1. CASE job = "idle"
          <6>1. stack = <<>> BY <5>1 DEF Inv, IdleOK
          <6>2. Activations = {} BY <6>1 DEF Activations, ToSet
          <6> QED BY <4>1, <4>2, <6>2
        <5>2. CASE job # "idle" BY <4>1, <4>2, <4>5, <5>2 DEF Roots
        <5> QED BY <5>1, <5>2
      <4>7. c \in C BY <2>2, <3>1, <4>5, <4>6 DEF Island, Owner
      <4>8. p \notin C BY <4>4, <4>5 DEF Island
      <4> QED BY <1>1, <2>1, <4>5, <4>7, <4>8 DEF Island
    <3>3. IsLast(items, c, items[c].prev) BY <1>1, <2>2, <3>1, <3>2 DEF Rings, Ring, Owner
    <3>4. PICK l : l = items[c].prev OBVIOUS
    <3>5. l \in ToSet(s) /\ items[l].next = NULL BY <2>3, <3>3, <3>4 DEF IsLast
    <3>6. PICK i \in 1 .. Len(s) : s[i] = l
      <4>1. DOMAIN s = 1 .. Len(s) BY <2>3
      <4> QED BY <3>5, <4>1 DEF ToSet
    <3>7. i = Len(s)
      <4>1. SUFFICES ASSUME i # Len(s) PROVE FALSE OBVIOUS
      <4>2. i \in 1 .. Len(s) - 1 /\ i + 1 \in 1 .. Len(s) BY <2>3, <4>1
      <4>3. items[s[i]].next = s[i + 1] BY <2>3, <4>2 DEF Chain
      <4>4. s[i + 1] \in Alive(items) BY <2>3, <4>2
      <4> QED BY <3>5, <3>6, <4>3, <4>4, NullIsNoNode DEF Alive
    <3> QED BY <3>4, <3>6, <3>7 DEF Last
  <2> QED BY <2>1, <2>3, <2>4, <2>5
<1> QED BY <1>2, <1>3


(* Every address in an item is that of a live item, and every call is at a place it can be at. *)
THEOREM TypeCorrect == Spec => []TypeOK
<1> QED BY InvHolds, TypesFollow, PTL

(* Every item is the caller's, the work of the call that is going on, or a *)
(* member of one array or object, and only a reference that could not be   *)
(* named is none of these: no call loses an item, none frees one twice.    *)
THEOREM ItemsHeldOnce == Spec => []HeldOnce
<1> QED BY InvHolds, PlacesFollow, PTL

(* The children of an item, a reference's too, are linked in both directions, *)
(* and the first points back to the last as cJSON_AddItemToArray relies on.   *)
THEOREM ListsSound == Spec => []ListsAreSound
<1> QED BY InvHolds, ListsFollow, PTL

(* As many strings are allocated as items own: none is lost or freed twice. *)
THEOREM StringsKept == Spec => []StringsAccounted
<1>1. Inv => StringsAccounted BY DEF Inv
<1> QED BY <1>1, InvHolds, PTL

===============================================================================
