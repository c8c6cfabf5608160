--------------------------------- MODULE CJson ---------------------------------
(***************************************************************************)
(* cJSON's items (cJSON.c): a doubly linked list of children per item in   *)
(* which the first one's prev points to the last, strings that an item     *)
(* owns unless it is a reference or has a constant name, and the calls     *)
(* that create, link, copy, parse and delete them.  Memory may run out at  *)
(* any allocation.  Parsing, copying and building an array take one step   *)
(* per item; the other calls take one.                                     *)
(***************************************************************************)
EXTENDS Integers, FiniteSets, FiniteSetsExt, Sequences, SequencesExt

CONSTANTS
  NULL,
  Nodes,         \* the addresses of items, natural numbers
  Keys,          \* names of members
  Fold,          \* tolower of a name
  Texts,         \* what is parsed: sequences of tokens
  NestingLimit,  \* CJSON_NESTING_LIMIT
  MaxCount,      \* the most numbers an array is created from
  MaxEdits       \* how many calls the caller makes after or instead of a parse

(* NULL is no address and no name, and what is read behind a text is no    *)
(* name either.  A string of a text that is none of the names is "string". *)
ASSUME CJsonAssumption ==
  /\ IsFiniteSet(Nodes) /\ Nodes = 1 .. Cardinality(Nodes) /\ {1, 2} \subseteq Nodes
  /\ Keys # {} /\ Keys \subseteq STRING \ {"end"} /\ Keys \cup {"string"} \subseteq DOMAIN Fold
  /\ NULL \notin Nodes /\ NULL \notin Keys \cup {"string"}
  /\ Texts \subseteq Seq(STRING) /\ NestingLimit \in Nat /\ MaxCount \in Nat

VARIABLES
  items,    \* the item at each address
  strings,  \* how many strings are allocated
  held,     \* the items the caller has to delete
  job,      \* the call that is going on, or "idle"
  at,       \* where it is
  stack,    \* its recursion: one record per activation
  source,   \* the item it parses into or copies
  ret,      \* the item it returned
  text,     \* the parse buffer, or <<>>
  offset,   \* buffer.offset
  depth,    \* buffer.depth
  edits     \* calls made

heapVars == <<items, strings, held>>
parseVars == <<text, offset, depth>>
vars == <<heapVars, job, at, stack, source, ret, parseVars, edits>>

Freed == [type |-> "free"]
Zeroed == [type |-> "Invalid", ref |-> FALSE, const |-> FALSE, next |-> NULL, prev |-> NULL,
           child |-> NULL, string |-> NULL, value |-> NULL]

Live == {n \in Nodes : items[n] # Freed}
Pointers == Live \cup {NULL}

-----------------------------------------------------------------------------
(* Operations on a heap h.  A valuestring is named by the item it was      *)
(* allocated for.                                                          *)

HasMemory(h) == \E n \in Nodes : h[n] = Freed
NewAddress(h) == Min({n \in Nodes : h[n] = Freed})

(* cJSON_New_Item and the fields its callers set. *)
cJSON_New_Item(h, item) == [h EXCEPT ![NewAddress(h)] = item]

(* The items from n on along next.  A list in which more items follow each *)
(* other than there are goes in circles.                                   *)
ListFrom(h, n) ==
  LET walk[k \in 0 .. Cardinality(Nodes) + 1] ==
        [m \in Nodes \cup {NULL} |->
           IF m = NULL \/ k = 0 THEN <<>> ELSE <<m>> \o walk[k - 1][h[m].next]]
  IN walk[Cardinality(Nodes) + 1][n]

ListOf(h, p) == ListFrom(h, h[p].child)

get_array_item(h, array, index) ==
  LET s == ListOf(h, array) IN IF index < Len(s) THEN s[index + 1] ELSE NULL

(***************************************************************************)
(* The search by name stops at a nameless element if it is case sensitive  *)
(* and passes over it if it is not.                                        *)
(***************************************************************************)
get_object_item(h, object, name, case_sensitive) ==
  LET s == ListOf(h, object)
      stops(n) == IF case_sensitive THEN h[n].string \in {NULL, name}
                  ELSE h[n].string # NULL /\ Fold[h[n].string] = Fold[name]
      k == SelectInSeq(s, stops)
  IN IF k = 0 \/ h[s[k]].string = NULL THEN NULL ELSE s[k]

(* S and all that can be reached from it. *)
Reach(edges, S) ==
  LET reach[k \in 0 .. Cardinality(Nodes)] ==
        [C \in SUBSET Nodes |->
           IF k = 0 THEN C ELSE reach[k - 1][C \cup UNION {edges[x] : x \in C}]]
  IN reach[Cardinality(Nodes)][S]

(* Mutants of Doomed: a reference owns its children; an item does not own its siblings. *)
DoomedThroughRef(h, n) ==
  Reach([x \in Nodes |-> IF h[x] = Freed THEN {} ELSE {h[x].next, h[x].child} \ {NULL}],
        {n} \ {NULL})
DoomedAlone(h, n) ==
  {n} \ {NULL}

(* cJSON_Delete: n, what follows it, and below what is not a reference. *)
Doomed(h, n) ==
  Reach([x \in Nodes |-> IF h[x] = Freed THEN {}
                         ELSE ({h[x].next} \cup (IF h[x].ref THEN {} ELSE {h[x].child})) \ {NULL}],
        {n} \ {NULL})

cJSON_Delete(h, n) == [x \in Nodes |-> IF x \in Doomed(h, n) THEN Freed ELSE h[x]]

OwnsName(item) == ~item.const /\ item.string # NULL
OwnsValue(item) == ~item.ref /\ item.value # NULL
Owned(h, S) ==
  Cardinality({x \in S : OwnsName(h[x])}) + Cardinality({x \in S : OwnsValue(h[x])})

suffix_object(h, prev, item) == [h EXCEPT ![prev].next = item, ![item].prev = prev]

(* The last item is found through the first one's prev. *)
add_item_to_array(h, array, item) ==
  LET child == h[array].child
  IN CASE child = NULL ->
            [h EXCEPT ![array].child = item, ![item].prev = item, ![item].next = NULL]
       [] child # NULL /\ h[child].prev # NULL ->
            [suffix_object(h, h[child].prev, item) EXCEPT ![child].prev = item]
       [] OTHER -> h

(* Mutant of DetachItemViaPointer: the last item may stay the first one's prev. *)
DetachItemKeepLast(h, parent, item) ==
  LET first == item = h[parent].child
      next == h[item].next
      h1 == IF first THEN h ELSE [h EXCEPT ![h[item].prev].next = next]
      h2 == IF next = NULL THEN h1 ELSE [h1 EXCEPT ![next].prev = h1[item].prev]
      h3 == IF first THEN [h2 EXCEPT ![parent].child = next] ELSE h2
  IN [h3 EXCEPT ![item].prev = NULL, ![item].next = NULL]

DetachItemViaPointer(h, parent, item) ==
  LET first == item = h[parent].child
      next == h[item].next
      h1 == IF first THEN h ELSE [h EXCEPT ![h[item].prev].next = next]
      h2 == IF next = NULL THEN h1 ELSE [h1 EXCEPT ![next].prev = h1[item].prev]
      h3 == CASE first -> [h2 EXCEPT ![parent].child = next]
              [] ~first /\ next = NULL -> [h2 EXCEPT ![h2[parent].child].prev = h2[item].prev]
              [] OTHER -> h2
  IN [h3 EXCEPT ![item].prev = NULL, ![item].next = NULL]

(* Mutant of InsertItemInArray: the array still begins with the old first item. *)
InsertBeforeFirst(h, array, which, newitem) ==
  LET after == get_array_item(h, array, which)
      h1 == [h EXCEPT ![newitem].next = after, ![newitem].prev = h[after].prev,
                      ![after].prev = newitem]
  IN IF after = NULL THEN add_item_to_array(h, array, newitem)
     ELSE [h1 EXCEPT ![h1[newitem].prev].next = newitem]

InsertItemInArray(h, array, which, newitem) ==
  LET after == get_array_item(h, array, which)
      h1 == [h EXCEPT ![newitem].next = after, ![newitem].prev = h[after].prev,
                      ![after].prev = newitem]
  IN CASE after = NULL -> add_item_to_array(h, array, newitem)
       [] after # NULL /\ after = h[array].child -> [h1 EXCEPT ![array].child = newitem]
       [] OTHER -> [h1 EXCEPT ![h1[newitem].prev].next = newitem]

(* ReplaceItemViaPointer up to the deletion of the old item. *)
ReplaceItem(h, parent, item, replacement) ==
  LET next == h[item].next
      h1 == [h EXCEPT ![replacement].next = next, ![replacement].prev = h[item].prev]
      h2 == IF next = NULL THEN h1 ELSE [h1 EXCEPT ![next].prev = replacement]
      first == h2[h2[parent].child]
      alone == first.prev = h2[parent].child
      h3 == CASE h2[parent].child = item /\ alone ->
                   [h2 EXCEPT ![replacement].prev = replacement, ![parent].child = replacement]
              [] h2[parent].child = item /\ ~alone -> [h2 EXCEPT ![parent].child = replacement]
              [] OTHER ->
                   LET h21 == IF h2[replacement].prev = NULL THEN h2
                              ELSE [h2 EXCEPT ![h2[replacement].prev].next = replacement]
                   IN IF next = NULL THEN [h21 EXCEPT ![h21[parent].child].prev = replacement] ELSE h21
  IN [h3 EXCEPT ![item].next = NULL, ![item].prev = NULL]

-----------------------------------------------------------------------------
(* The caller.  It passes items it holds, links none into itself, and      *)
(* leaves alone what a live reference shares.                              *)

MayCall == job = "idle" /\ edits < MaxEdits

(* n and everything it shows, references followed. *)
Visible(n) == Reach([x \in Nodes |-> IF x \in Live THEN ToSet(ListOf(items, x)) ELSE {}], {n})

References == {r \in Live : items[r].ref}
Unshared(S) == \A r \in References : items[r].child \notin S /\ items[r].value \notin S

Container(p) ==
  /\ p \in Live /\ items[p].type \in {"Array", "Object"} /\ ~items[p].ref
  /\ Unshared({items[p].child} \ {NULL})

Called == /\ edits' = edits + 1
          /\ UNCHANGED <<job, at, stack, source, ret, parseVars>>

Made(type, n) == [Zeroed EXCEPT !.type = type, !.value = IF type = "String" THEN n ELSE NULL]

(* cJSON_CreateNull to cJSON_CreateObject: with no memory for the item or  *)
(* its string nothing is left.                                             *)
Create(type) ==
  /\ MayCall /\ HasMemory(items)
  /\ LET n == NewAddress(items)
     IN /\ items' = cJSON_New_Item(items, Made(type, n))
        /\ held' = held \cup {n}
  /\ strings' = strings + (IF type = "String" THEN 1 ELSE 0)
  /\ Called

(* cJSON_CreateArrayReference, cJSON_CreateObjectReference *)
CreateReference(p) ==
  /\ MayCall /\ HasMemory(items) /\ Container(p)
  /\ items' = cJSON_New_Item(items, [Zeroed EXCEPT !.type = items[p].type, !.ref = TRUE, !.child = items[p].child])
  /\ held' = held \cup {NewAddress(items)}
  /\ UNCHANGED strings /\ Called

AddItemToArray(array, item) ==
  /\ MayCall /\ Container(array) /\ item \in held /\ array \notin Visible(item)
  /\ items' = add_item_to_array(items, array, item)
  /\ held' = held \ {item}
  /\ UNCHANGED strings /\ Called

(* The item gives up its old name for a copy of the new one, or for the constant. *)
Renamed(item, name, constant_key) == [item EXCEPT !.string = name, !.const = constant_key]
(* Mutant of NameChange: a constant name is freed too. *)
NameChangeFreesConst(item, constant_key) ==
  (IF constant_key THEN 0 ELSE 1) - (IF item.string # NULL THEN 1 ELSE 0)
NameChange(item, constant_key) ==
  (IF constant_key THEN 0 ELSE 1) - (IF OwnsName(item) THEN 1 ELSE 0)

(* add_item_to_object; with no memory for the name nothing happens. *)
AddItemToObject(object, name, item, constant_key) ==
  /\ MayCall /\ Container(object) /\ item \in held /\ object \notin Visible(item)
  /\ items' = add_item_to_array([items EXCEPT ![item] = Renamed(@, name, constant_key)], object, item)
  /\ strings' = strings + NameChange(items[item], constant_key)
  /\ held' = held \ {item}
  /\ Called

(* cJSON_AddNullToObject to cJSON_AddArrayToObject *)
AddNewToObject(object, name, type) ==
  /\ MayCall /\ HasMemory(items) /\ Container(object)
  /\ LET n == NewAddress(items)
         h == cJSON_New_Item(items, [Made(type, n) EXCEPT !.string = name])
     IN items' = add_item_to_array(h, object, n)
  /\ strings' = strings + (IF type = "String" THEN 2 ELSE 1)
  /\ UNCHANGED held /\ Called

(***************************************************************************)
(* create_reference: a copy of all fields but the name and the links.      *)
(* Added to an object it needs a name; without memory for it the reference *)
(* is forgotten.                                                           *)
(***************************************************************************)
create_reference(item) ==
  [item EXCEPT !.string = NULL, !.ref = TRUE, !.next = NULL, !.prev = NULL]

AddItemReferenceToArray(array, item) ==
  /\ MayCall /\ HasMemory(items) /\ Container(array)
  /\ item \in Live /\ array \notin Visible(item)
  /\ items' = add_item_to_array(cJSON_New_Item(items, create_reference(items[item])), array, NewAddress(items))
  /\ UNCHANGED <<strings, held>> /\ Called

AddItemReferenceToObject(object, name, item) ==
  /\ MayCall /\ HasMemory(items) /\ Container(object)
  /\ item \in Live /\ object \notin Visible(item)
  /\ LET n == NewAddress(items)
         reference == create_reference(items[item])
     IN \/ /\ items' = add_item_to_array(cJSON_New_Item(items, Renamed(reference, name, FALSE)), object, n)
           /\ strings' = strings + 1
        \/ /\ items' = cJSON_New_Item(items, reference)
           /\ UNCHANGED strings
  /\ UNCHANGED held /\ Called

(* By position or by name. *)
Chosen(p) ==
  {get_array_item(items, p, k) : k \in 0 .. Cardinality(Nodes) - 1}
  \cup {get_object_item(items, p, name, sensitive) : name \in Keys, sensitive \in BOOLEAN}

DetachItem(parent, item) ==
  /\ MayCall /\ Container(parent) /\ item \in Chosen(parent) \ {NULL}
  /\ items' = DetachItemViaPointer(items, parent, item)
  /\ held' = held \cup {item}
  /\ UNCHANGED strings /\ Called

Insert(array, which, newitem) ==
  /\ MayCall /\ Container(array) /\ newitem \in held /\ array \notin Visible(newitem)
  /\ items' = InsertItemInArray(items, array, which, newitem)
  /\ held' = held \ {newitem}
  /\ UNCHANGED strings /\ Called

ReplaceItemInArray(array, which, newitem) ==
  LET item == get_array_item(items, array, which)
      h == ReplaceItem(items, array, item, newitem)
  IN /\ MayCall /\ Container(array) /\ newitem \in held /\ array \notin Visible(newitem)
     /\ item # NULL /\ Unshared(Doomed(h, item))
     /\ items' = cJSON_Delete(h, item)
     /\ strings' = strings - Owned(h, Doomed(h, item))
     /\ held' = held \ {newitem}
     /\ Called

(***************************************************************************)
(* replace_item_in_object renames the replacement first: if there is no    *)
(* such member it keeps its new name and stays with the caller.            *)
(***************************************************************************)
ReplaceItemInObject(object, name, replacement, sensitive) ==
  LET h0 == [items EXCEPT ![replacement] = Renamed(@, name, FALSE)]
      item == get_object_item(h0, object, name, sensitive)
      h == IF item = NULL THEN h0 ELSE ReplaceItem(h0, object, item, replacement)
      doomed == IF item = NULL THEN {} ELSE Doomed(h, item)
  IN /\ MayCall /\ Container(object) /\ replacement \in held /\ object \notin Visible(replacement)
     /\ Unshared(doomed)
     /\ items' = IF item = NULL THEN h0 ELSE cJSON_Delete(h, item)
     /\ strings' = strings + NameChange(items[replacement], FALSE) - Owned(h, doomed)
     /\ held' = IF item = NULL THEN held ELSE held \ {replacement}
     /\ Called

(* Without memory for the new name the old one is gone all the same. *)
ReplaceItemInObjectFails(object, replacement) ==
  /\ MayCall /\ Container(object) /\ replacement \in held /\ items[replacement].string # NULL
  /\ items' = [items EXCEPT ![replacement].string = NULL]
  /\ strings' = strings - (IF OwnsName(items[replacement]) THEN 1 ELSE 0)
  /\ UNCHANGED held /\ Called

Delete(item) ==
  LET doomed == Doomed(items, item)
  IN /\ MayCall /\ item \in held
     /\ \A r \in References \ doomed : items[r].child \notin doomed /\ items[r].value \notin doomed
     /\ items' = cJSON_Delete(items, item)
     /\ strings' = strings - Owned(items, doomed)
     /\ held' = held \ {item}
     /\ Called

-----------------------------------------------------------------------------
(* Calls that take several steps.  `stack` holds one record per activation *)
(* of parse_array, parse_object, cJSON_Duplicate or the array loop.        *)

Top == Last(stack)
Start(call, place, frames, from) ==
  /\ MayCall
  /\ job' = call /\ at' = place /\ stack' = frames /\ source' = from /\ ret' = NULL
  /\ edits' = edits + 1
  /\ UNCHANGED parseVars

Running == UNCHANGED <<job, source, text, edits>>
NoText == UNCHANGED <<offset, depth>>

Returns(n) ==
  /\ ret' = NULL /\ job' = "idle" /\ at' = "start" /\ stack' = <<>> /\ source' = NULL
  /\ text' = <<>> /\ offset' = 0 /\ depth' = 0
  /\ held' = held \cup ({n} \ {NULL})
  /\ UNCHANGED edits

(* The failing activation deletes what it has built and fails in its caller. *)
Unwind(n) ==
  LET doomed == Doomed(items, n)
  IN /\ items' = cJSON_Delete(items, n)
     /\ strings' = strings - Owned(items, doomed)
     /\ stack' = Front(stack)
     /\ UNCHANGED <<held, at, ret>> /\ NoText /\ Running

-----------------------------------------------------------------------------
(* cJSON_CreateIntArray and its likes: numbers chained one by one. *)

ArrayStart(count) ==
  /\ HasMemory(items)
  /\ LET a == NewAddress(items)
     IN /\ items' = cJSON_New_Item(items, [Zeroed EXCEPT !.type = "Array"])
        /\ Start("numbers", "next", << [new |-> a, last |-> NULL, left |-> count] >>, NULL)
  /\ UNCHANGED <<strings, held>>

ArrayNext ==
  /\ job = "numbers" /\ at = "next" /\ Top.left > 0
  /\ \/ /\ HasMemory(items)
        /\ LET n == NewAddress(items)
               h == cJSON_New_Item(items, [Zeroed EXCEPT !.type = "Number"])
           IN /\ items' = IF Top.last = NULL THEN [h EXCEPT ![Top.new].child = n]
                          ELSE suffix_object(h, Top.last, n)
              /\ stack' = << [Top EXCEPT !.last = n, !.left = @ - 1] >>
        /\ UNCHANGED at
     \/ /\ at' = "failed"
        /\ UNCHANGED <<items, stack>>
  /\ UNCHANGED <<strings, held, ret>> /\ NoText /\ Running

ArrayFails ==
  /\ job = "numbers" /\ at = "failed"
  /\ LET a == Top.new
     IN /\ items' = cJSON_Delete(items, a)
        /\ strings' = strings - Owned(items, Doomed(items, a))
  /\ Returns(NULL)

(* Only now can the last number be found from the first. *)
ArrayDone ==
  /\ job = "numbers" /\ at = "next" /\ Top.left = 0
  /\ LET first == items[Top.new].child
     IN items' = IF first = NULL THEN items ELSE [items EXCEPT ![first].prev = Top.last]
  /\ UNCHANGED strings
  /\ Returns(Top.new)

-----------------------------------------------------------------------------
(* cJSON_Duplicate.  "copy" enters an activation, "walk" is its loop,      *)
(* "return" and "failed" are where an activation came back to its caller.  *)

DupStart(item, recurse) ==
  /\ item \in Live
  /\ Start(IF recurse THEN "copy" ELSE "shallow", "copy", <<>>, item)
  /\ UNCHANGED heapVars

Original == IF stack = <<>> THEN source ELSE Top.from

(* Mutant of Copied: the copy of a reference is a reference. *)
CopiedRef(item, n) ==
  [item EXCEPT !.next = NULL, !.prev = NULL, !.child = NULL,
               !.value = IF @ = NULL THEN NULL ELSE n]

(* The copy owns its string, and its name unless that is a constant. *)
Copied(item, n) ==
  [item EXCEPT !.ref = FALSE, !.next = NULL, !.prev = NULL, !.child = NULL,
               !.value = IF @ = NULL THEN NULL ELSE n]

(* Without memory for the item, its string or its name nothing is left. *)
DupEnter ==
  /\ job \in {"copy", "shallow"} /\ at = "copy"
  /\ \/ /\ HasMemory(items)
        /\ LET n == NewAddress(items)
               new == Copied(items[Original], n)
           IN /\ items' = cJSON_New_Item(items, new)
              /\ strings' = strings + (IF OwnsName(new) THEN 1 ELSE 0) + (IF OwnsValue(new) THEN 1 ELSE 0)
              /\ IF job = "shallow"
                 THEN /\ at' = "return" /\ ret' = n
                      /\ UNCHANGED stack
                 ELSE /\ stack' = Append(stack, [new |-> n, from |-> items[Original].child, last |-> NULL])
                      /\ at' = "walk"
                      /\ UNCHANGED ret
     \/ /\ at' = "failed" /\ ret' = NULL
        /\ UNCHANGED <<items, strings, stack>>
  /\ UNCHANGED held /\ NoText /\ Running

DupWalk ==
  /\ job = "copy" /\ at = "walk"
  /\ IF Top.from # NULL
     THEN /\ at' = "copy"
          /\ UNCHANGED <<items, stack, ret>>
     ELSE /\ at' = "return" /\ ret' = Top.new /\ stack' = Front(stack)
          /\ LET first == items[Top.new].child
             IN items' = IF first = NULL THEN items ELSE [items EXCEPT ![first].prev = Top.last]
  /\ UNCHANGED <<strings, held>> /\ NoText /\ Running

DupLink ==
  /\ job = "copy" /\ at = "return" /\ stack # <<>>
  /\ items' = IF Top.last # NULL THEN suffix_object(items, Top.last, ret)
              ELSE [items EXCEPT ![Top.new].child = ret]
  /\ stack' = Append(Front(stack), [Top EXCEPT !.last = ret, !.from = items[@].next])
  /\ at' = "walk" /\ ret' = NULL
  /\ UNCHANGED <<strings, held>> /\ NoText /\ Running

DupFails ==
  /\ job = "copy" /\ at = "failed" /\ stack # <<>>
  /\ Unwind(Top.new)

DupDone ==
  /\ job \in {"copy", "shallow"} /\ stack = <<>>
  /\ \/ at = "return" /\ Returns(ret)
     \/ at = "failed" /\ Returns(NULL)
  /\ UNCHANGED <<items, strings>>

-----------------------------------------------------------------------------
(* cJSON_ParseWithLengthOpts.  The text is a sequence of tokens, "ws" a    *)
(* whitespace character and "nul" the character 0; what the parser reads   *)
(* past the end of the buffer is "end".                                    *)

Literals == [null |-> "NULL", false |-> "False", true |-> "True", number |-> "Number"]
Opens == [open \in {"[", "{"} |-> IF open = "[" THEN "Array" ELSE "Object"]
Closes == [Array |-> "]", Object |-> "}"]
StringTokens == Keys \cup {"string"}
Space == {"ws", "nul"}

TokenAt(o) == IF o < Len(text) THEN text[o + 1] ELSE "end"
Here == TokenAt(offset)

(* Mutant of Skip: the buffer may be left at its end. *)
SkipToEnd(o) ==
  IF o >= Len(text) THEN o
  ELSE Min({k \in o .. Len(text) : k = Len(text) \/ TokenAt(k) \notin Space})

(***************************************************************************)
(* buffer_skip_whitespace: every character up to 32 counts, 0 included,    *)
(* and if nothing else is left the last one is taken back.                 *)
(***************************************************************************)
Skip(o) ==
  IF o >= Len(text) THEN o
  ELSE LET k == Min({i \in o .. Len(text) : i = Len(text) \/ TokenAt(i) \notin Space})
       IN IF k = Len(text) THEN k - 1 ELSE k

Item == IF stack = <<>> THEN source ELSE Top.current
Parsing(place) == job = "text" /\ at = place
Quiet == UNCHANGED <<held, ret>> /\ Running

ParseStart ==
  /\ Parsing("start")
  /\ \/ /\ HasMemory(items)
        /\ items' = cJSON_New_Item(items, Zeroed)
        /\ source' = NewAddress(items)
        /\ at' = "value" /\ offset' = Skip(0)
     \/ /\ at' = "starved"
        /\ UNCHANGED <<items, source, offset>>
  /\ UNCHANGED <<strings, held, job, stack, ret, text, depth, edits>>

ParseScalar ==
  /\ Parsing("value") /\ Here \in DOMAIN Literals
  /\ items' = [items EXCEPT ![Item].type = Literals[Here]]
  /\ offset' = offset + 1 /\ at' = "after"
  /\ UNCHANGED <<strings, stack, depth>> /\ Quiet

(* parse_string: a bad escape or a missing quote frees what was allocated. *)
ParseString ==
  /\ Parsing("value")
  /\ \/ /\ Here \in StringTokens
        /\ items' = [items EXCEPT ![Item].type = "String", ![Item].value = Item]
        /\ strings' = strings + 1
        /\ offset' = offset + 1 /\ at' = "after"
     \/ /\ Here \in StringTokens
        /\ at' = "starved" /\ offset' = offset + 1
        /\ UNCHANGED <<items, strings>>
     \/ /\ Here = "badstring"
        /\ at' = "failed" /\ offset' = offset + 1
        /\ UNCHANGED <<items, strings>>
  /\ UNCHANGED <<stack, depth>> /\ Quiet

(***************************************************************************)
(* The beginning of parse_array and parse_object.  The offset is left in   *)
(* front of the first element, where the comma of a later one would be.    *)
(***************************************************************************)
ParseOpen ==
  /\ Parsing("value") /\ Here \in DOMAIN Opens
  /\ IF depth >= NestingLimit
     THEN /\ at' = "failed"
          /\ UNCHANGED <<stack, offset, depth>>
     ELSE LET next == Skip(offset + 1)
              kind == Opens[Here]
          IN /\ depth' = depth + 1
             /\ stack' = Append(stack, [kind |-> kind, item |-> Item, head |-> NULL, current |-> NULL])
             /\ offset' = IF TokenAt(next) = Closes[kind] THEN next ELSE next - 1
             /\ at' = CASE TokenAt(next) = Closes[kind] -> "close"
                        [] TokenAt(next) = "end" -> "failed"
                        [] OTHER -> "element"
  /\ UNCHANGED <<items, strings>> /\ Quiet

(* A new item joins the list before its text is looked at. *)
ParseElement ==
  /\ Parsing("element")
  /\ \/ /\ HasMemory(items)
        /\ LET n == NewAddress(items)
               h == cJSON_New_Item(items, Zeroed)
           IN /\ items' = IF Top.head = NULL THEN h ELSE suffix_object(h, Top.current, n)
              /\ stack' = Append(Front(stack),
                                 [Top EXCEPT !.head = IF @ = NULL THEN n ELSE @, !.current = n])
        /\ offset' = Skip(offset + 1)
        /\ at' = IF Top.kind = "Array" THEN "value" ELSE "name"
     \/ /\ at' = "starved"
        /\ UNCHANGED <<items, stack, offset>>
  /\ UNCHANGED <<strings, depth>> /\ Quiet

(***************************************************************************)
(* The name is parsed as a value and moved.  Nobody has looked whether     *)
(* there is a character left: what follows the buffer is no name, since    *)
(* the closing quote is only looked for inside.                            *)
(***************************************************************************)
ParseName ==
  /\ Parsing("name")
  /\ \/ /\ Here \in StringTokens
        /\ items' = [items EXCEPT ![Top.current].type = "String", ![Top.current].string = Here]
        /\ strings' = strings + 1
        /\ LET next == Skip(offset + 1)
           IN IF TokenAt(next) = ":" THEN at' = "value" /\ offset' = Skip(next + 1)
              ELSE at' = "failed" /\ offset' = next
     \/ /\ Here \in StringTokens
        /\ at' = "starved" /\ offset' = offset + 1
        /\ UNCHANGED <<items, strings>>
     \/ /\ Here \notin StringTokens
        /\ at' = "failed" /\ offset' = offset + 1
        /\ UNCHANGED <<items, strings>>
  /\ UNCHANGED <<stack, depth>> /\ Quiet

ParseNoValue ==
  /\ Parsing("value")
  /\ Here \notin DOMAIN Literals \cup DOMAIN Opens \cup StringTokens \cup {"badstring"}
  /\ at' = "failed"
  /\ UNCHANGED <<items, strings, stack, offset, depth>> /\ Quiet

ParseNext ==
  /\ Parsing("after") /\ stack # <<>>
  /\ offset' = Skip(offset)
  /\ at' = CASE TokenAt(Skip(offset)) = "," -> "element"
             [] TokenAt(Skip(offset)) = Closes[Top.kind] -> "close"
             [] OTHER -> "failed"
  /\ UNCHANGED <<items, strings, stack, depth>> /\ Quiet

ParseClose ==
  /\ Parsing("close")
  /\ LET h == IF Top.head = NULL THEN items ELSE [items EXCEPT ![Top.head].prev = Top.current]
     IN items' = [h EXCEPT ![Top.item].type = Top.kind, ![Top.item].child = Top.head]
  /\ depth' = depth - 1 /\ offset' = offset + 1
  /\ stack' = Front(stack) /\ at' = "after"
  /\ UNCHANGED strings /\ Quiet

(* Mutant of ParseFails: only what is no value is noticed. *)
ParseFailsOnSyntax ==
  /\ Parsing("failed") /\ stack # <<>>
  /\ Unwind(Top.head)

ParseFails ==
  /\ job = "text" /\ at \in {"failed", "starved"} /\ stack # <<>>
  /\ Unwind(Top.head)

(* The caller may ask for a text that ends where the value ends. *)
ParseDone(require_null_terminated) ==
  /\ Parsing("after") /\ stack = <<>>
  /\ IF require_null_terminated /\ TokenAt(Skip(offset)) # "nul"
     THEN /\ at' = "garbage" /\ offset' = Skip(offset)
          /\ UNCHANGED <<held, ret, depth, stack>> /\ Running
     ELSE Returns(source)
  /\ UNCHANGED <<items, strings>>

ParseFailed ==
  /\ job = "text" /\ at \in {"failed", "starved", "garbage"} /\ stack = <<>>
  /\ items' = cJSON_Delete(items, source)
  /\ strings' = strings - Owned(items, Doomed(items, source))
  /\ Returns(NULL)

-----------------------------------------------------------------------------

Empty == [n \in Nodes |-> Freed]

(* An object and what was its member under a constant name: what is left   *)
(* of cJSON_AddItemToObjectCS after the member was detached.               *)
Detached == [Empty EXCEPT ![1] = [Zeroed EXCEPT !.type = "Object"],
                          ![2] = [Zeroed EXCEPT !.type = "Array", !.const = TRUE, !.string = CHOOSE k \in Keys : TRUE]]

Init ==
  /\ \/ items = Empty /\ held = {} /\ text \in Texts \cup {<<>>} /\ edits = 0
     \/ items = Detached /\ held = {1, 2} /\ text = <<>> /\ edits = 1
  /\ strings = 0
  /\ job = IF text = <<>> THEN "idle" ELSE "text"
  /\ at = "start" /\ stack = <<>> /\ source = NULL /\ ret = NULL
  /\ offset = 0 /\ depth = 0

Types == {"Number", "String", "Array", "Object"}
Places == 0 .. Cardinality(Nodes) - 1

Edit ==
  \/ \E type \in Types : Create(type)
  \/ \E p \in Live : CreateReference(p)
  \/ \E p, n \in Live : AddItemToArray(p, n)
  \/ \E p, n \in Live, name \in Keys, const \in BOOLEAN : AddItemToObject(p, name, n, const)
  \/ \E p \in Live, name \in Keys, type \in Types : AddNewToObject(p, name, type)
  \/ \E p, n \in Live : AddItemReferenceToArray(p, n)
  \/ \E p, n \in Live, name \in Keys : AddItemReferenceToObject(p, name, n)
  \/ \E p, n \in Live : DetachItem(p, n)
  \/ \E p, n \in Live, which \in Places : Insert(p, which, n)
  \/ \E p, n \in Live, which \in Places : ReplaceItemInArray(p, which, n)
  \/ \E p, n \in Live, name \in Keys, sensitive \in BOOLEAN : ReplaceItemInObject(p, name, n, sensitive)
  \/ \E p, n \in Live : ReplaceItemInObjectFails(p, n)
  \/ \E n \in Live : Delete(n)
  \/ \E count \in 0 .. MaxCount : ArrayStart(count)
  \/ \E n \in Live, recurse \in BOOLEAN : DupStart(n, recurse)

Work ==
  \/ ArrayNext \/ ArrayFails \/ ArrayDone
  \/ DupEnter \/ DupWalk \/ DupLink \/ DupFails \/ DupDone
  \/ ParseStart \/ ParseScalar \/ ParseString \/ ParseOpen \/ ParseElement \/ ParseName
  \/ ParseNoValue \/ ParseNext \/ ParseClose \/ ParseFails \/ ParseFailed
  \/ \E require \in BOOLEAN : ParseDone(require)

Next == Edit \/ Work

(* A call that has begun goes on by itself. *)
Spec == Init /\ [][Next]_vars /\ WF_vars(Work)

-----------------------------------------------------------------------------
(* Properties *)

(* The addresses in a pointer field are those of live items, and every     *)
(* call has the place it is at and the activations it needs.               *)
TypeOK ==
  /\ \A n \in Live :
       /\ items[n].type \in Types \cup {"Invalid", "NULL", "True", "False"}
       /\ items[n].ref \in BOOLEAN /\ items[n].const \in BOOLEAN
       /\ items[n].string \in StringTokens \cup {NULL}
       /\ {items[n].next, items[n].prev, items[n].child, items[n].value} \subseteq Pointers
  /\ strings \in Nat /\ held \subseteq Live
  /\ job \in {"idle", "numbers", "copy", "shallow", "text"}
  /\ {source, ret} \subseteq Pointers
  /\ offset \in 0 .. Len(text) + 1 /\ depth \in 0 .. NestingLimit

(* The items a call that is going on has built and not yet given a parent. *)
Activations == ToSet(stack)
Pending ==
  CASE job = "idle" -> {}
    [] job = "text" -> ({source} \ {NULL}) \cup UNION {ToSet(ListFrom(items, a.head)) : a \in Activations}
    [] OTHER -> {a.new : a \in Activations} \cup (IF at = "return" THEN {ret} ELSE {})

(* A reference nobody can find any more, because there was no memory for its name. *)
Forgotten(n) == items[n].ref /\ items[n].string = NULL

(* Every item is in one place: it is a member of one array or object, or   *)
(* the caller's, or still the work of the call that is going on; what is   *)
(* in no such place would never be freed, what is in two would be freed    *)
(* twice.  Only the reference that cJSON_AddItemReferenceToObject could    *)
(* not name is in none.                                                    *)
HeldOnce ==
  \A n \in Live :
    LET owners == {p \in Live : ~items[p].ref /\ n \in ToSet(ListOf(items, p))}
        places == Cardinality(owners) + (IF n \in held THEN 1 ELSE 0) + (IF n \in Pending THEN 1 ELSE 0)
    IN /\ places = 1 \/ (places = 0 /\ Forgotten(n))
       /\ n \in held => items[n].next = NULL

(* The children of an item are a list in both directions whose first item  *)
(* points back to the last, as cJSON_AddItemToArray relies on; while a     *)
(* copy or an array is being built its first item does not yet.            *)
ListsAreSound ==
  \A p \in Live :
    LET s == ListOf(items, p)
        building == job # "text" /\ \E a \in Activations : a.new = p
    IN /\ IsInjective(s)
       /\ \A k \in 2 .. Len(s) : items[s[k]].prev = s[k - 1]
       /\ s # <<>> /\ ~building => items[s[1]].prev = Last(s)

(* The strings that are allocated are those some item owns: none is lost   *)
(* when an item is renamed, replaced, copied half way or deleted with a    *)
(* failed parse, and none is freed that a reference or a constant name     *)
(* still uses.                                                             *)
StringsAccounted == strings = Owned(items, Live)

(* Behind the pointers there is a forest, and every step of a call is one  *)
(* of JsonTree or none: an item appears at the end of a list or at a place *)
(* in it, leaves its list alone, or is replaced with all that is below it. *)
kids == [n \in Live |-> IF items[n].ref THEN <<>> ELSE ListOf(items, n)]
Tree == INSTANCE JsonTree WITH Nodes <- Nodes, kids <- kids
KeepsTree == Tree!TreeSpec

(* Parsing, copying and building an array come to an end. *)
JobsEnd == job # "idle" ~> job = "idle"

=============================================================================
