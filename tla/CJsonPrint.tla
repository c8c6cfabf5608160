------------------------------ MODULE CJsonPrint -------------------------------
(***************************************************************************)
(* Printing an item into a buffer that grows, or into the caller's         *)
(* (cJSON.c).  A character of the text is represented by the token it      *)
(* belongs to; Width gives how many characters a token has.  INT_MAX and   *)
(* the sizes of buffers are small.                                         *)
(***************************************************************************)
EXTENDS CJsonMeaning

CONSTANTS
  Width,       \* the length of every token, quotes of a string included
  INT_MAX,
  Prebuffers   \* sizes of first buffers

(* A printbuffer: what has been written to it, and whether everything went *)
(* well so far.  `grows` is how often there is memory for a larger one,    *)
(* `realloc` whether the hooks have a realloc.                             *)
NewBuffer(length, noalloc, format, realloc, grows) ==
  [cells |-> <<>>, length |-> length, offset |-> 0, depth |-> 0, noalloc |-> noalloc,
   format |-> format, realloc |-> realloc, grows |-> grows, ok |-> TRUE, inside |-> TRUE]

Fail(b) == [b EXCEPT !.ok = FALSE]

(* Mutant of ensure: a buffer must be twice as large as what is needed. *)
EnsureTwice(b, needed) ==
  LET total == 2 * (needed + b.offset + 1)
  IN IF total <= b.length THEN b
     ELSE IF b.noalloc \/ b.grows = 0 \/ total > INT_MAX THEN Fail(b)
     ELSE [b EXCEPT !.length = total, !.grows = @ - 1]

(* One character more than needed, and twice that when the buffer grows.   *)
(* The old buffer is gone if there is no memory for the new one.           *)
ensure(b, needed) ==
  LET total == needed + b.offset + 1
      newsize == IF total > INT_MAX \div 2 THEN INT_MAX ELSE total * 2
  IN CASE (b.length > 0 /\ b.offset >= b.length) \/ needed > INT_MAX -> Fail(b)
       [] total <= b.length -> b
       [] b.noalloc \/ total > INT_MAX -> Fail(b)
       [] b.grows = 0 -> [Fail(b) EXCEPT !.length = 0, !.cells = <<>>]
       [] OTHER -> [b EXCEPT !.length = newsize, !.grows = @ - 1,
                             !.cells = IF b.realloc THEN @ ELSE SubSeq(@, 1, Min({Len(@), b.offset + 1}))]

Written(cells, o, s) ==
  LET junk == [k \in 1 .. o - Len(cells) |-> "junk"]
  IN SubSeq(cells \o junk, 1, o) \o s \o SubSeq(cells, o + Len(s) + 1, Len(cells))

(* Room is made, s is written at the offset, and the offset moves on. *)
Emit(b, needed, s, advance) ==
  LET e == ensure(b, needed)
  IN IF ~b.ok \/ ~e.ok THEN Fail(e)
     ELSE [e EXCEPT !.cells = Written(@, b.offset, s),
                    !.inside = @ /\ b.offset + Len(s) <= e.length,
                    !.offset = @ + advance]

(* strlen from the offset on; without a 0 it would run out of the buffer. *)
update_offset(b) ==
  LET zeros == {k \in b.offset + 1 .. Len(b.cells) : b.cells[k] = "nul"}
  IN IF ~b.ok THEN b
     ELSE IF zeros = {} THEN [b EXCEPT !.inside = FALSE]
     ELSE [b EXCEPT !.offset = Min(zeros) - 1]

Chars(token) == [k \in 1 .. Width[token] |-> token]
Tabs(n) == [k \in 1 .. n |-> "tab"]

print_number(b) == Emit(b, Width["number"] + 1, Chars("number") \o <<"nul">>, Width["number"])

(* Mutant of print_string_ptr: the quotes are forgotten. *)
StringWithoutQuotes(b, token) == Emit(b, Width[token] - 1, Chars(token) \o <<"nul">>, 0)

print_string_ptr(b, token) == Emit(b, Width[token] + 1, Chars(token) \o <<"nul">>, 0)

Literal(type) == CHOOSE t \in DOMAIN Literals : Literals[t] = type

(* What print_array puts between two elements. *)
Separator(b) ==
  LET length == IF b.format THEN 2 ELSE 1
  IN Emit(b, length + 1, <<",">> \o (IF b.format THEN <<"space">> ELSE <<>>) \o <<"nul">>, length)

(* What print_object puts before and after the value of a member. *)
Name(h, n, b) ==
  LET b1 == IF b.format THEN Emit(b, b.depth, Tabs(b.depth), b.depth) ELSE b
      b2 == update_offset(print_string_ptr(b1, IF h[n].string = NULL THEN "noname" ELSE h[n].string))
      length == IF b.format THEN 2 ELSE 1
  IN Emit(b2, length, <<":">> \o Tabs(length - 1), length)

Ending(h, n, b) ==
  LET s == (IF h[n].next # NULL THEN <<",">> ELSE <<>>) \o (IF b.format THEN <<"newline">> ELSE <<>>)
  IN Emit(b, Len(s) + 1, s \o <<"nul">>, Len(s))

Deeper(b, by) == [b EXCEPT !.depth = @ + by]

RECURSIVE print_value(_, _, _), PrintElements(_, _, _), PrintMembers(_, _, _)

PrintElements(h, n, b) ==
  IF n = NULL \/ ~b.ok THEN b
  ELSE LET b1 == update_offset(print_value(h, n, b))
       IN PrintElements(h, h[n].next, IF h[n].next = NULL THEN b1 ELSE Separator(b1))

print_array(h, n, b) ==
  LET inner == PrintElements(h, h[n].child, Deeper(Emit(b, 1, <<"[">>, 1), 1))
  IN Deeper(Emit(inner, 2, <<"]", "nul">>, 0), -1)

PrintMembers(h, n, b) ==
  IF n = NULL \/ ~b.ok THEN b
  ELSE LET value == print_value(h, n, Name(h, n, b))
       IN PrintMembers(h, h[n].next, Ending(h, n, update_offset(value)))

print_object(h, n, b) ==
  LET newline == IF b.format THEN <<"newline">> ELSE <<>>
      open == Emit(b, Len(newline) + 2, <<"{">> \o newline, Len(newline) + 1)
      inner == PrintMembers(h, h[n].child, Deeper(open, 1))
      tabs == IF b.format THEN Tabs(inner.depth - 1) ELSE <<>>
  IN Deeper(Emit(inner, IF b.format THEN inner.depth + 1 ELSE 2, tabs \o <<"}", "nul">>, 0), -1)

print_value(h, n, b) ==
  CASE h[n].type = "Number" -> print_number(b)
    [] h[n].type \in {"NULL", "False", "True"} ->
         LET t == Literal(h[n].type) IN Emit(b, Width[t] + 1, Chars(t) \o <<"nul">>, 0)
    [] h[n].type = "String" -> print_string_ptr(b, "string")
    [] h[n].type = "Array" -> print_array(h, n, b)
    [] h[n].type = "Object" -> print_object(h, n, b)
    [] OTHER -> Fail(b)

cJSON_PrintBuffered(h, n, prebuffer, fmt, realloc, grows) ==
  print_value(h, n, NewBuffer(prebuffer, FALSE, fmt, realloc, grows))

cJSON_PrintPreallocated(h, n, length, format) ==
  print_value(h, n, NewBuffer(length, TRUE, format, TRUE, 0))

(* print: the buffer is cut to what strlen finds in it. *)
PrintItem(h, n, default_buffer_size, format, realloc, grows) ==
  LET b == update_offset(print_value(h, n, NewBuffer(default_buffer_size, FALSE, format, realloc, grows)))
  IN IF ~b.ok \/ b.grows = 0 THEN Fail(b)
     ELSE [b EXCEPT !.cells = SubSeq(@, 1, b.offset + 1), !.length = b.offset + 1]

-----------------------------------------------------------------------------
(* What the text should be. *)

RECURSIVE Rendered(_, _, _, _)
Rendered(h, n, format, level) ==
  LET s == ListOf(h, n)
      pretty(t) == IF format THEN t ELSE <<>>
      after(k) == IF k < Len(s) THEN <<",">> ELSE <<>>
      name(m) == Chars(IF h[m].string = NULL THEN "noname" ELSE h[m].string)
      element(k) == Rendered(h, s[k], format, level + 1) \o after(k)
                      \o (IF k < Len(s) THEN pretty(<<"space">>) ELSE <<>>)
      member(k) == pretty(Tabs(level + 1)) \o name(s[k]) \o <<":">> \o pretty(<<"tab">>)
                     \o Rendered(h, s[k], format, level + 1) \o after(k) \o pretty(<<"newline">>)
  IN CASE h[n].type = "Array" ->
            <<"[">> \o FlattenSeq([k \in 1 .. Len(s) |-> element(k)]) \o <<"]">>
       [] h[n].type = "Object" ->
            <<"{">> \o pretty(<<"newline">>) \o FlattenSeq([k \in 1 .. Len(s) |-> member(k)])
              \o pretty(Tabs(level)) \o <<"}">>
       [] h[n].type = "String" -> Chars("string")
       [] OTHER -> Chars(Literal(h[n].type))

(* From a first buffer that some texts fit in and others outgrow, once or  *)
(* more, what cJSON_Print and cJSON_PrintBuffered write stays inside the   *)
(* buffer and is the text of the item; they give up only when there is no  *)
(* memory for a larger buffer or the text comes near INT_MAX.              *)
PrintsText ==
  job = "idle" =>
    \A n \in held, format \in BOOLEAN, size \in Prebuffers :
      LET expected == Rendered(items, n, format, 0)
          plenty == {cJSON_PrintBuffered(items, n, size, format, TRUE, 8),
                     PrintItem(items, n, size, format, FALSE, 8)}
          short == {cJSON_PrintBuffered(items, n, size, format, FALSE, 1)}
      IN /\ \A b \in plenty \cup short :
              /\ b.inside
              /\ b.ok => SubSeq(b.cells, 1, Len(expected) + 1) = expected \o <<"nul">>
         /\ Len(expected) + 2 <= INT_MAX => \A b \in plenty : b.ok

(* cJSON.h:154: five bytes more than the text needs are enough for         *)
(* cJSON_PrintPreallocated, and it never writes past those it was given.   *)
PreallocatedSuffices ==
  job = "idle" =>
    \A n \in held, format \in BOOLEAN :
      LET expected == Rendered(items, n, format, 0)
      IN \A length \in {Len(expected) + k : k \in {-1, 0, 1, 5}} :
           LET b == cJSON_PrintPreallocated(items, n, length, format)
           IN /\ b.inside
              /\ b.ok => SubSeq(b.cells, 1, Len(expected) + 1) = expected \o <<"nul">>
              /\ length >= Len(expected) + 5 => b.ok

=============================================================================
