------------------------------ MODULE CJsonMeaning ------------------------------
(***************************************************************************)
(* What cJSON's items say, behind their addresses: when cJSON_Compare      *)
(* finds two of them equal, and what a copy and a parsed text should say.  *)
(***************************************************************************)
EXTENDS CJson

-----------------------------------------------------------------------------
(* cJSON_Compare.  All numbers are one number and all strings one string.  *)

(* Mutant of cJSON_Compare: an object equals one that has more members. *)
RECURSIVE CompareHalf(_, _, _, _)
CompareHalf(h, a, b, case_sensitive) ==
  LET sa == ListOf(h, a)
      sb == ListOf(h, b)
      other(n) == get_object_item(h, b, h[n].string, case_sensitive)
  IN /\ h[a].type = h[b].type /\ h[a].type \in {"NULL", "False", "True", "Number", "String", "Array", "Object"}
     /\ \/ a = b
        \/ h[a].type \in {"NULL", "False", "True", "Number"}
        \/ h[a].type = "String" /\ NULL \notin {h[a].value, h[b].value}
        \/ /\ h[a].type = "Array" /\ Len(sa) = Len(sb)
           /\ \A k \in 1 .. Len(sa) : CompareHalf(h, sa[k], sb[k], case_sensitive)
        \/ /\ h[a].type = "Object"
           /\ \A n \in ToSet(sa) : other(n) # NULL /\ CompareHalf(h, n, other(n), case_sensitive)

RECURSIVE cJSON_Compare(_, _, _, _)
cJSON_Compare(h, a, b, case_sensitive) ==
  LET sa == ListOf(h, a)
      sb == ListOf(h, b)
      matched(s, o) ==
        \A n \in ToSet(s) :
          LET m == get_object_item(h, o, h[n].string, case_sensitive)
          IN m # NULL /\ cJSON_Compare(h, n, m, case_sensitive)
  IN /\ h[a].type = h[b].type /\ h[a].type # "Invalid"
     /\ \/ a = b
        \/ h[a].type \in {"NULL", "False", "True", "Number"}
        \/ h[a].type = "String" /\ NULL \notin {h[a].value, h[b].value}
        \/ /\ h[a].type = "Array" /\ Len(sa) = Len(sb)
           /\ \A k \in 1 .. Len(sa) : cJSON_Compare(h, sa[k], sb[k], case_sensitive)
        \/ h[a].type = "Object" /\ matched(sa, b) /\ matched(sb, a)

-----------------------------------------------------------------------------
(* Properties *)

(* What an item says, without its addresses. *)
RECURSIVE Spelled(_, _)
Spelled(h, n) ==
  LET s == ListOf(h, n)
      member(m) == (IF h[n].type = "Object" THEN <<h[m].string, ":">> ELSE <<>>) \o Spelled(h, m)
      after(k) == IF k = 1 THEN <<>> ELSE <<",">>
      inner == FlattenSeq([k \in 1 .. Len(s) |-> after(k) \o member(s[k])])
  IN CASE h[n].type = "String" -> <<"string">>
       [] h[n].type = "Array" -> <<"[">> \o inner \o <<"]">>
       [] h[n].type = "Object" -> <<"{">> \o inner \o <<"}">>
       [] OTHER -> <<CHOOSE t \in DOMAIN Literals : Literals[t] = h[n].type>>

Below(n) == Doomed([items EXCEPT ![n].next = NULL], n)

(* cJSON.h:242: a copy is "a new, identical cJSON item to the one you pass, *)
(* in new memory that will need to be released", and its "->next and       *)
(* ->prev pointers are always zero".  Copies of references stand on their  *)
(* own.                                                                    *)
CopyIsFaithful ==
  job = "copy" /\ at = "return" /\ stack = <<>> =>
    /\ Spelled(items, ret) = Spelled(items, source)
    /\ items[ret].string = items[source].string
    /\ items[ret].next = NULL /\ items[ret].prev = NULL
    /\ \A n \in Below(ret) : ~items[n].ref /\ items[n].value \in {n, NULL}
    /\ Below(ret) \cap Visible(source) = {}

(* The language the parser is for: the intervals of s that are values      *)
(* nested at most d deep.                                                  *)
Values(s) ==
  LET scalar == {<<i, i>> : i \in {k \in 1 .. Len(s) : s[k] \in DOMAIN Literals \cup StringTokens}}
      f[d \in 0 .. NestingLimit] ==
        IF d = 0 THEN scalar
        ELSE LET element(kind, i, j) ==
                   CASE kind = "Array" -> <<i, j>> \in f[d - 1]
                     [] kind = "Object" -> /\ i + 2 <= j /\ s[i] \in StringTokens /\ s[i + 1] = ":"
                                           /\ <<i + 2, j>> \in f[d - 1]
                 listed(kind, i, j) ==
                   \/ j = i + 1
                   \/ \E commas \in SUBSET {k \in i + 1 .. j - 1 : s[k] = ","} :
                        LET cuts == commas \cup {i, j}
                        IN \A x, y \in cuts :
                             x < y /\ (\A z \in cuts : z <= x \/ z >= y) => element(kind, x + 1, y - 1)
             IN scalar \cup {<<i, j>> \in (1 .. Len(s)) \X (1 .. Len(s)) :
                              /\ i < j /\ s[i] \in DOMAIN Opens /\ s[j] = Closes[Opens[s[i]]]
                              /\ listed(Opens[s[i]], i, j)}
  IN f[NestingLimit]

Plain(s) == SelectSeq(s, LAMBDA t : t \notin Space)

(* cJSON_Parse accepts exactly the texts that begin with a value, or that  *)
(* are one if the terminating 0 is required, and the tree it builds says   *)
(* what it read, however the steps back of buffer_skip_whitespace and of   *)
(* the list loops add up.                                                  *)
ParsesTheGrammar ==
  job = "text" /\ stack = <<>> =>
    /\ at = "after" => /\ Spelled(items, source) = Plain(SubSeq(text, 1, offset))
                       /\ depth = 0
    /\ at = "failed" => \A v \in Values(Plain(text)) : v[1] # 1
    /\ at = "garbage" => Last(text) # "nul" \/ <<1, Len(Plain(text))>> \notin Values(Plain(text))

(* Names tell the members of every object at or below n apart. *)
RECURSIVE Distinct(_, _)
Distinct(n, case_sensitive) ==
  LET s == ListOf(items, n)
      name(m) == IF case_sensitive THEN items[m].string ELSE Fold[items[m].string]
  IN /\ items[n].type = "Object" =>
          \A k \in 1 .. Len(s) :
            /\ items[s[k]].string # NULL
            /\ \A l \in 1 .. k - 1 : name(s[k]) # name(s[l])
     /\ \A m \in ToSet(s) : Distinct(m, case_sensitive)

(* The value of an item, in which the order of members does not matter. *)
RECURSIVE Meaning(_, _)
Meaning(n, case_sensitive) ==
  LET s == ListOf(items, n)
      name(m) == IF case_sensitive THEN items[m].string ELSE Fold[items[m].string]
  IN CASE items[n].type = "Array" -> <<"Array", [k \in 1 .. Len(s) |-> Meaning(s[k], case_sensitive)]>>
       [] items[n].type = "Object" -> <<"Object", {<<name(m), Meaning(m, case_sensitive)>> : m \in ToSet(s)}>>
       [] OTHER -> <<items[n].type, <<>>>>

(* cJSON_Compare finds two items equal when they have the same value: the  *)
(* same elements in the same order, the same members in any.               *)
CompareIsEquality ==
  job = "idle" =>
    \A case_sensitive \in BOOLEAN :
      LET distinct == {n \in held : Distinct(n, case_sensitive)}
      IN \A a \in distinct :
           LET meaning == Meaning(a, case_sensitive)
           IN \A b \in distinct :
                cJSON_Compare(items, a, b, case_sensitive) = (meaning = Meaning(b, case_sensitive))

=============================================================================
