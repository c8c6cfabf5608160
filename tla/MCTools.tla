------------------------------- MODULE MCTools -------------------------------
(***************************************************************************)
(* Small instances of the command line tools.  They have nothing to do     *)
(* with one another: the first state says which of them runs, and the      *)
(* variables of the others then keep their first values.                   *)
(***************************************************************************)
EXTENDS UbpfDriver, PtraceHook, FileTools

-----------------------------------------------------------------------------
(* Files for vm/test.c. *)

I(op, offset) == [op |-> op, dst |-> 0, src |-> 0, offset |-> offset]
Imm(n) == [imm |-> n]
Calls == <<I("call", 0), Imm(-1), I("call", 0), Imm(-1), I("exit", 0), Imm(0)>>

Header(type, info, link, offset, size) ==
  [type |-> type, exec |-> type = "progbits", info |-> info, link |-> link,
   offset |-> offset, size |-> size]

R(offset, sym) == [type |-> 2, sym |-> sym, offset |-> offset]

(***************************************************************************)
(* Sections 0 to 5: nothing, the text, its relocations, those of section   *)
(* 5, the symbols, the strings.  The file has a header of one unit, six    *)
(* section headers, and the data after them.                               *)
(***************************************************************************)
ObjectFile(text, rels, others) ==
  LET t == 7  r == t + Len(text)  o == r + 2 * Len(rels)  s == o + 2 * Len(others)
  IN [elf |-> TRUE, header |-> TRUE, shoff |-> 1, size |-> s + 6,
      sections |-> <<Header("null", 0, 0, 0, 0),
                     Header("progbits", 0, 0, t, Len(text)),
                     Header("rel", 1, 4, r, 2 * Len(rels)),
                     Header("rel", 5, 4, o, 2 * Len(others)),
                     Header("symtab", 0, 5, s, 3),
                     Header("strtab", 0, 0, s + 3, 3)>>,
      data |-> <<<<>>, text, rels, others, <<0, 1, 2>>, <<"memfrob", "unwind", "strlen">>>>]

Good == ObjectFile(Calls, <<R(0, 1), R(2, 0), R(0, 0)>>, <<R(2, 1)>>)
With(s, field, v) == [Good EXCEPT !.sections[s + 1][field] = v]
First(rel) == [Good EXCEPT !.data[3][1] = rel]

(* Two sections of code, each with its relocations; code in section 0 *)
TwoTexts ==
  [Good EXCEPT !.sections[6].type = "progbits", !.sections[6].exec = TRUE,
               !.sections[5].link = 0]
TextFirst ==
  [Good EXCEPT !.sections[1] = Header("progbits", 0, 0, 7, 6), !.data[1] = Calls]

Objects ==
  {Good, TwoTexts, TextFirst,
   [Good EXCEPT !.header = FALSE], [Good EXCEPT !.size = 0],
   [Good EXCEPT !.shoff = Good.size], [Good EXCEPT !.shoff = AddrMod - 1],
   [Good EXCEPT !.sections = @ \o @, !.data = @ \o @],
   ObjectFile(<<I("call", 0), Imm(-1), I("exit", 0)>>, <<R(0, 0)>>, <<>>),
   ObjectFile(<<I("exit", 0), Imm(0), I("exit", 0), Imm(0)>>, <<R(1, 1), R(0, 1)>>, <<>>),
   ObjectFile(<<I("exit", 0), Imm(0)>>, <<R(AddrMod - 1, 0)>>, <<>>)}
  \cup {With(1, "type", "note"), With(1, "size", AddrMod - 2), With(4, "size", 60),
        With(2, "link", 9), With(4, "link", 6), With(4, "size", 1), With(5, "size", 1),
        With(2, "size", 3), With(2, "info", 5)}
  \cup {First(r) : r \in {R(4, 0), R(5, 0), R(AddrMod - 2, 0), R(0, 2), R(0, 7),
                          [R(0, 0) EXCEPT !.type = 1]}}

Plain(halves) == [elf |-> FALSE, data |-> <<halves>>]

MCHelpers == <<"memfrob", "unwind">>

MCFiles ==
  Objects \cup
  {Plain(<<>>), Plain(<<I("exit", 0)>>), Plain(<<I("exit", 0), Imm(0)>>),
   Plain(<<I("call", 0), Imm(1), I("jcc", 0), Imm(0), I("exit", 0), Imm(0)>>),
   Plain(<<I("ja", 0), Imm(0), I("ja", 0), Imm(0), I("ja", 0), Imm(0),
           I("exit", 0), Imm(0)>>)}

-----------------------------------------------------------------------------
(* A function of every kind of type for parse_btf. *)

T(kind, refs) == [kind |-> kind, refs |-> refs, params |-> <<>>, members |-> <<>>]

BtfTypes ==
  << T("int", <<>>), T("ptr", <<4>>), T("typedef", <<4>>),
     [T("struct", <<>>) EXCEPT !.members = <<1, 5, 2>>],
     T("array", <<4, 1>>), T("union", <<>>), T("ptr", <<0>>),
     [T("func_proto", <<2>>) EXCEPT !.params = <<1, 3>>],
     [T("func_proto", <<1>>) EXCEPT !.params = <<2, 6>>],
     [T("func_proto", <<3>>) EXCEPT !.params = <<7>>] >>

MCBtf == [e \in Elfs |->
            CASE e = "plain" -> NoFile
              [] e = "structs" -> [types |-> BtfTypes, proto |-> 8]
              [] e = "unions" -> [types |-> BtfTypes, proto |-> 9]
              [] OTHER -> [types |-> BtfTypes, proto |-> 10]]

-----------------------------------------------------------------------------
(* One program, or one group of them, at a time. *)

VARIABLE running

allToolVars == <<running, driverVars, hookVars, toolVars>>

Idle0 == [unload |-> FALSE, reload |-> FALSE, jit |-> FALSE, mem |-> FALSE]

MCInit ==
  /\ running \in {"driver", "hook", "files"}
  /\ DriverInit
  /\ running # "driver" => file = Good /\ options = Idle0
  /\ HookInit
  /\ running # "hook" => handler = 0 /\ pie
  /\ ToolInit
  /\ running # "files" =>
       \A p \in Procs : tool[p] = "write_elf" /\ path[p] = "plain"

Stopped ==
  \/ running = "driver" /\ at = "ended"
  \/ running = "hook" /\ hooker = "done" /\ (target # "running" \/ place = Lost)
  \/ running = "files" /\ \A p \in Procs : step[p] # "start" /\ Over(p)

MCNext ==
  \/ running = "driver" /\ DriverStep /\ UNCHANGED <<running, hookVars, toolVars>>
  \/ running = "hook" /\ HookStep /\ UNCHANGED <<running, driverVars, toolVars>>
  \/ running = "files" /\ ToolStep /\ UNCHANGED <<running, driverVars, hookVars>>
  \/ Stopped /\ UNCHANGED allToolVars

MCSpec == MCInit /\ [][MCNext]_allToolVars
=============================================================================
