---------------------------- MODULE AnonStrProofs -----------------------------
(***************************************************************************)
(* Theorems about AnonStr, for any set of names and any hash functions;    *)
(* the last two for hash functions that satisfy FewCollisions.             *)
(***************************************************************************)
EXTENDS AnonStr, TLAPS

(* A tuple of hashes determines its level, and agrees hash by hash. *)
LEMMA LevelsDiffer ==
  ASSUME NEW s, NEW t, NEW n \in 0 .. Rounds - 1, NEW m \in 0 .. Rounds,
         Level(s, n) = Level(t, m)
  PROVE  n = m /\ \A k \in 1 .. n + 1 : HashOf[s][k] = HashOf[t][k]
  <1>1. 1 .. n + 1 = 1 .. m + 1
    <2>1. DOMAIN Level(s, n) = 1 .. n + 1 /\ DOMAIN Level(t, m) = 1 .. m + 1
      BY DEF Level
    <2> QED
      BY <2>1
  <1>2. n = m
    <2>1. n + 1 \in 1 .. m + 1 /\ m + 1 \in 1 .. n + 1
      BY <1>1 DEF Rounds
    <2> QED
      BY <2>1 DEF Rounds
  <1>3. ASSUME NEW k \in 1 .. n + 1
        PROVE  HashOf[s][k] = HashOf[t][k]
    <2>1. Level(s, n)[k] = Level(t, m)[k]
      OBVIOUS
    <2>2. Level(s, n)[k] = HashOf[s][k] /\ Level(t, m)[k] = HashOf[t][k]
      BY <1>2 DEF Level, Rounds
    <2> QED
      BY <2>1, <2>2
  <1> QED
    BY <1>2, <1>3

(* First is the least member of a set of levels. *)
LEMMA FirstIsLeast ==
  ASSUME NEW S \in SUBSET (0 .. Rounds), S # {}
  PROVE  First(S) \in S /\ \A m \in S : First(S) <= m
  <1>1. \E n \in S : \A m \in S : n <= m
    <2>1. CASE 0 \in S
      BY <2>1 DEF Rounds
    <2>2. CASE 0 \notin S /\ 1 \in S
      BY <2>2 DEF Rounds
    <2>3. CASE 0 \notin S /\ 1 \notin S /\ 2 \in S
      BY <2>3 DEF Rounds
    <2>4. CASE 0 \notin S /\ 1 \notin S /\ 2 \notin S /\ 3 \in S
      BY <2>4 DEF Rounds
    <2>5. CASE 0 \notin S /\ 1 \notin S /\ 2 \notin S /\ 3 \notin S
      <3>1. \A n \in S : n = 4
        BY <2>5 DEF Rounds
      <3>2. PICK n \in S : n = 4
        BY <3>1
      <3> QED
        BY <3>1, <3>2
    <2> QED
      BY <2>1, <2>2, <2>3, <2>4, <2>5
  <1> QED
    BY <1>1 DEF First

(* The form chosen for a name is one of its four hashed forms. *)
LEMMA ChoiceIsLevel ==
  ASSUME NEW s \in Names
  PROVE  \E n \in 0 .. Rounds - 1 : Choice(s) = Level(s, n)
  <1>1. CASE Unused(s) = {}
    BY <1>1 DEF Choice, Rounds
  <1>2. CASE Unused(s) # {}
    <2>1. First(Unused(s)) \in Unused(s)
      BY <1>2, FirstIsLeast DEF Unused, Rounds
    <2> QED
      BY <1>2, <2>1 DEF Choice, Unused
  <1> QED
    BY <1>1, <1>2

-----------------------------------------------------------------------------
(* Typing. *)

LEMMA TypeInit == Init => TypeOK
  BY DEF Init, TypeOK

LEMMA TypeNext == TypeOK /\ [Next]_vars => TypeOK'
  <1> SUFFICES ASSUME TypeOK, [Next]_vars
               PROVE  TypeOK'
    OBVIOUS
  <1>1. ASSUME NEW r \in Raws \cup {Zero}, AddRawStr(r)
        PROVE  TypeOK'
    <2>1. Raw(r) \in Stored
      BY DEF Stored
    <2> QED
      BY <1>1, <2>1 DEF AddRawStr, TypeOK
  <1>2. ASSUME NEW s \in Names, Lookup(s)
        PROVE  TypeOK'
    <2>1. Found(s) \in Stored \cup Errors
      <3>1. CASE Hits(s) # {}
        <4>1. First(Hits(s)) \in 0 .. Rounds
          BY <3>1, FirstIsLeast DEF Hits, Rounds
        <4> QED
          BY <3>1, <4>1 DEF Found, Stored, Hashed
      <3>2. CASE Hits(s) = {}
        <4>1. Rounds \in 0 .. Rounds
          BY DEF Rounds
        <4> QED
          BY <3>2, <4>1 DEF Found, Stored, Hashed, Errors
      <3> QED
        BY <3>1, <3>2
    <2> QED
      BY <1>2, <2>1 DEF Lookup, Answer, TypeOK
  <1>3. ASSUME NEW s \in Names
        PROVE  /\ Choice(s) \in Hashed
               /\ {Level(s, n) : n \in 0 .. Rounds - 1} \subseteq Hashed
    BY ChoiceIsLevel DEF Hashed, Rounds
  <1>4. ASSUME NEW s \in Names, AddNew(s)
        PROVE  TypeOK'
    <2>1. /\ strs' \in SUBSET Stored /\ added' \in SUBSET Names
          /\ marked' \in SUBSET Hashed /\ aborted' \in BOOLEAN
      BY <1>3, <1>4 DEF AddNew, MarkAll, TypeOK, Stored
    <2>2. own' \in [Names -> Hashed \cup {NULL}]
      BY <1>3, <1>4 DEF AddNew, TypeOK
    <2>3. ret' \in [name : Names, str : Stored \cup Errors] \cup {NULL}
      BY <1>3, <1>4 DEF AddNew, Answer, TypeOK, Stored
    <2> QED
      BY <2>1, <2>2, <2>3 DEF TypeOK
  <1>5. ASSUME NEW s \in Names, AddNotModifiable(s)
        PROVE  TypeOK'
    BY <1>5 DEF AddNotModifiable, Answer, TypeOK, Errors
  <1>6. ASSUME NEW s \in Names, AddNoMemory(s)
        PROVE  TypeOK'
    BY <1>3, <1>6 DEF AddNoMemory, MarkAll, Answer, TypeOK, Errors
  <1>7. CASE UNCHANGED vars
    BY <1>7 DEF vars, TypeOK
  <1> QED
    BY <1>1, <1>2, <1>4, <1>5, <1>6, <1>7 DEF Next

(* The section, the cache and the answers stay well formed. *)
THEOREM TypeCorrect == Spec => []TypeOK
  BY TypeInit, TypeNext, PTL DEF Spec

-----------------------------------------------------------------------------
(* The cache and the section, for any hash functions. *)

(***************************************************************************)
(* exist_strs holds exactly the four forms of the names it knows; the      *)
(* section holds nothing but raw strings and one form for each name that   *)
(* was stored, a form of that name.                                        *)
(***************************************************************************)
CacheInv ==
  /\ marked = {Level(s, n) : s \in added, n \in 0 .. Rounds - 1}
  /\ \A s \in Names : own[s] # NULL =>
       s \in added /\ own[s] \in strs
         /\ \E n \in 0 .. Rounds - 1 : own[s] = Level(s, n)
  /\ \A x \in strs : \/ \E r \in Raws \cup {Zero} : x = Raw(r)
                     \/ \E s \in Names : own[s] # NULL /\ own[s] = x

Inv == TypeOK /\ CacheInv /\ StoredIsUnique

LEMMA InvInit == Init => Inv
  <1>1. Init => CacheInv
    BY DEF Init, CacheInv
  <1> QED
    BY <1>1, TypeInit DEF Init, Inv, StoredIsUnique

LEMMA InvNext == Inv /\ [Next]_vars => Inv'
  <1> SUFFICES ASSUME Inv, [Next]_vars
               PROVE  (CacheInv /\ StoredIsUnique)'
    BY TypeNext DEF Inv
  <1> USE DEF Inv
  <1>1. ASSUME NEW r \in Raws \cup {Zero}, AddRawStr(r)
        PROVE  (CacheInv /\ StoredIsUnique)'
    BY <1>1 DEF AddRawStr, CacheInv, StoredIsUnique
  <1>2. ASSUME UNCHANGED <<strs, added, marked, own>>
        PROVE  (CacheInv /\ StoredIsUnique)'
    BY <1>2 DEF CacheInv, StoredIsUnique
  <1>3. ASSUME NEW s \in Names, MarkAll(s)
        PROVE  marked' = {Level(t, n) : t \in added', n \in 0 .. Rounds - 1}
    BY <1>3 DEF MarkAll, CacheInv
  <1>4. ASSUME NEW s \in Names, MarkAll(s), UNCHANGED <<strs, own>>
        PROVE  (CacheInv /\ StoredIsUnique)'
    BY <1>3, <1>4 DEF MarkAll, CacheInv, StoredIsUnique
  <1>5. ASSUME NEW s \in Names, AddNew(s), Choice(s) \notin strs
        PROVE  (CacheInv /\ StoredIsUnique)'
    <2>1. /\ own' = [own EXCEPT ![s] = Choice(s)] /\ strs' = strs \cup {Choice(s)}
          /\ MarkAll(s) /\ s \notin added /\ own[s] = NULL
      BY <1>5 DEF AddNew, CacheInv
    <2>2. own \in [Names -> Hashed \cup {NULL}]
      BY DEF TypeOK
    <2>3. own'[s] = Choice(s) /\ \A t \in Names \ {s} : own'[t] = own[t]
      BY <2>1, <2>2
    <2>4. Choice(s) # NULL
      BY ChoiceIsLevel, NullAssumption DEF Stored, Hashed, Rounds
    <2>5. \A t \in Names : own'[t] # NULL =>
            t \in added' /\ own'[t] \in strs'
              /\ \E n \in 0 .. Rounds - 1 : own'[t] = Level(t, n)
      BY <2>1, <2>3, ChoiceIsLevel DEF CacheInv, MarkAll
    <2>6. \A x \in strs' : \/ \E r \in Raws \cup {Zero} : x = Raw(r)
                           \/ \E t \in Names : own'[t] # NULL /\ own'[t] = x
      BY <2>1, <2>3, <2>4 DEF CacheInv
    <2>7. StoredIsUnique'
      BY <1>5, <2>1, <2>3, <2>4 DEF CacheInv, StoredIsUnique
    <2> QED
      BY <1>3, <2>1, <2>5, <2>6, <2>7 DEF CacheInv
  <1> QED
    BY <1>1, <1>2, <1>4, <1>5
    DEF Next, Lookup, AddNew, AddNotModifiable, AddNoMemory, vars

LEMMA CacheInvariance == Spec => []Inv
  BY InvInit, InvNext, PTL DEF Spec

(* Two names are never stored as the same string, whatever collides. *)
THEOREM NamesStayDistinct == Spec => []StoredIsUnique
  BY CacheInvariance, PTL DEF Inv

-----------------------------------------------------------------------------
(* With few collisions. *)

(***************************************************************************)
(* Then a name is stored as its first hash or its first two, which no      *)
(* other name has; the search stops there, and nothing else is in its way. *)
(***************************************************************************)
ShortInv ==
  /\ \A s \in Names : own[s] # NULL => own[s] \in {Level(s, 0), Level(s, 1)}
  /\ LookupFindsOwn
  /\ ~aborted

LEMMA SecondIsUnused ==
  ASSUME FewCollisions, Inv, NEW s \in Names, s \notin added
  PROVE  Choice(s) \in {Level(s, 0), Level(s, 1)} /\ Choice(s) \notin marked
  <1>1. Level(s, 1) \notin marked
    <2> SUFFICES ASSUME NEW t \in added, NEW n \in 0 .. Rounds - 1,
                        Level(s, 1) = Level(t, n)
                 PROVE  FALSE
      BY DEF Inv, CacheInv
    <2>1. t \in Names /\ t # s
      BY DEF Inv, TypeOK
    <2>2. HashOf[s][1] = HashOf[t][1] /\ HashOf[s][2] = HashOf[t][2]
      BY LevelsDiffer DEF Rounds
    <2> QED
      BY <2>1, <2>2 DEF FewCollisions
  <1>2. 1 \in Unused(s)
    BY <1>1 DEF Unused, Rounds
  <1>3. First(Unused(s)) \in Unused(s) /\ First(Unused(s)) <= 1
    BY <1>2, FirstIsLeast DEF Unused, Rounds
  <1>4. First(Unused(s)) \in {0, 1}
    BY <1>3 DEF Unused, Rounds
  <1> QED
    BY <1>2, <1>3, <1>4 DEF Choice, Unused

(* No raw string is a hashed form. *)
LEMMA RawIsNotHashed ==
  ASSUME FewCollisions, NEW s \in Names, NEW n \in 0 .. Rounds - 1,
         NEW r \in Raws \cup {Zero}
  PROVE  Level(s, n) # Raw(r)
  <1> SUFFICES ASSUME Level(s, n) = Raw(r)
               PROVE  FALSE
    OBVIOUS
  <1>1. Level(s, n)[1] = HashOf[s][1] /\ Raw(r)[1] = r
    BY DEF Level, Raw, Rounds
  <1>2. HashOf[s][1] \in Hashes
    BY HashAssumption DEF Rounds
  <1> QED
    BY <1>1, <1>2, RawsAssumption DEF FewCollisions

LEMMA FoundIsOwn ==
  ASSUME FewCollisions, Inv, ShortInv, NEW s \in Names, own[s] # NULL
  PROVE  Found(s) = own[s]
  <1>1. ASSUME NEW n \in {1, 2}, Level(s, n) \in strs
        PROVE  n = 1 /\ own[s] = Level(s, 1)
    <2>1. n \in 0 .. Rounds - 1
      BY DEF Rounds
    <2>2. PICK t \in Names : own[t] # NULL /\ own[t] = Level(s, n)
      BY <1>1, <2>1, RawIsNotHashed DEF Inv, CacheInv
    <2>3. PICK m \in {0, 1} : own[t] = Level(t, m)
      BY <2>2 DEF ShortInv
    <2>4. n = m /\ HashOf[s][1] = HashOf[t][1] /\ HashOf[s][2] = HashOf[t][2]
      <3>1. Level(t, m) = Level(s, n)
        BY <2>2, <2>3
      <3>2. m \in 0 .. Rounds - 1 /\ n \in 0 .. Rounds
        BY DEF Rounds
      <3>3. m = n
        BY <3>1, LevelsDiffer DEF Rounds
      <3>4. \A k \in 1 .. m + 1 : HashOf[t][k] = HashOf[s][k]
        BY <3>1, LevelsDiffer DEF Rounds
      <3> QED
        BY <3>3, <3>4
    <2>5. s = t
      BY <2>4 DEF FewCollisions
    <2> QED
      BY <2>2, <2>4, <2>5
  <1>2. Level(s, 2) \notin strs
    BY <1>1
  <1>3. Level(s, 0) # Level(s, 1)
    BY LevelsDiffer DEF Rounds
  <1>4. CASE own[s] = Level(s, 0)
    <2>1. Level(s, 0) \in strs /\ Level(s, 1) \notin strs
      BY <1>1, <1>3, <1>4 DEF Inv, CacheInv
    <2>2. 0 \in Hits(s)
      BY <2>1 DEF Hits, Rounds
    <2>3. First(Hits(s)) = 0
      BY <2>2, FirstIsLeast DEF Hits, Rounds
    <2> QED
      BY <1>4, <2>2, <2>3 DEF Found
  <1>5. CASE own[s] = Level(s, 1)
    <2>1. 1 \in Hits(s) /\ 0 \notin Hits(s)
      BY <1>2, <1>5 DEF Inv, CacheInv, Hits, Rounds
    <2>2. First(Hits(s)) = 1
      BY <2>1, FirstIsLeast DEF Hits, Rounds
    <2> QED
      BY <1>5, <2>1, <2>2 DEF Found
  <1> QED
    BY <1>4, <1>5 DEF ShortInv

LEMMA ShortNext ==
  ASSUME FewCollisions, Inv, ShortInv, [Next]_vars
  PROVE  ShortInv'
  <1>1. ASSUME NEW r \in Raws \cup {Zero}, AddRawStr(r)
        PROVE  ShortInv'
    BY <1>1 DEF AddRawStr, ShortInv, LookupFindsOwn
  <1>2. ASSUME NEW s \in Names, Lookup(s)
        PROVE  ShortInv'
    BY <1>2, FoundIsOwn DEF Lookup, Answer, ShortInv, LookupFindsOwn
  <1>3. ASSUME NEW s \in Names, AddNew(s)
        PROVE  ShortInv'
    <2>1. Choice(s) \in {Level(s, 0), Level(s, 1)} /\ Choice(s) \notin marked
      BY <1>3, SecondIsUnused DEF AddNew
    <2>2. Choice(s) \notin strs
      <3> SUFFICES ASSUME Choice(s) \in strs
                   PROVE  FALSE
        OBVIOUS
      <3>1. PICK t \in Names : own[t] # NULL /\ own[t] = Choice(s)
        BY <2>1, RawIsNotHashed DEF Inv, CacheInv, Rounds
      <3>2. own[t] \in marked
        BY <3>1 DEF Inv, CacheInv
      <3> QED
        BY <2>1, <3>1, <3>2
    <2>3. own' = [own EXCEPT ![s] = Choice(s)] /\ Answer(s, Choice(s)) /\ ~aborted'
      BY <1>3, <2>2 DEF AddNew
    <2>4. own'[s] = Choice(s) /\ \A t \in Names \ {s} : own'[t] = own[t]
      BY <2>3 DEF Inv, TypeOK
    <2> QED
      BY <2>1, <2>3, <2>4 DEF Answer, ShortInv, LookupFindsOwn
  <1>4. ASSUME NEW s \in Names, AddNotModifiable(s) \/ AddNoMemory(s)
        PROVE  ShortInv'
    <2>1. own[s] = NULL
      BY <1>4 DEF AddNotModifiable, AddNoMemory, Inv, CacheInv
    <2> QED
      BY <1>4, <2>1
      DEF AddNotModifiable, AddNoMemory, Answer, ShortInv, LookupFindsOwn
  <1>5. CASE UNCHANGED vars
    BY <1>5 DEF vars, ShortInv, LookupFindsOwn
  <1> QED
    BY <1>1, <1>2, <1>3, <1>4, <1>5 DEF Next

LEMMA ShortInvariance ==
  ASSUME FewCollisions
  PROVE  Spec => []ShortInv
  <1>1. Init => ShortInv
    BY DEF Init, ShortInv, LookupFindsOwn
  <1>2. Inv /\ ShortInv /\ [Next]_vars => ShortInv'
    BY ShortNext
  <1> QED
    BY <1>1, <1>2, CacheInvariance, PTL DEF Spec

(* Asking again for a stored name answers what it was stored as. *)
THEOREM LookupsAgree ==
  ASSUME FewCollisions
  PROVE  Spec => []LookupFindsOwn
  BY ShortInvariance, PTL DEF ShortInv

(* The assertion in btf__add_anony_str holds. *)
THEOREM NoAbort ==
  ASSUME FewCollisions
  PROVE  Spec => []AssertHolds
  BY ShortInvariance, PTL DEF ShortInv, AssertHolds
=============================================================================
