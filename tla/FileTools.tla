------------------------------ MODULE FileTools ------------------------------
(***************************************************************************)
(* The tools that hand data on in a temporary file: parse_btf              *)
(* (btf_parser/), dump-btf as patched (patch/dump-btf.patch), write_elf    *)
(* (btf_writer/) and gen_patch.py.  Each creates a file with a fixed name, *)
(* fills it, has it read by its name, and removes it.  The tools run as    *)
(* processes on one file system; each step may fail, and each process may  *)
(* be killed.                                                              *)
(*                                                                         *)
(* A process stands for the file it creates: dir maps a name to a file,    *)
(* data a file to its content.  creat on a name that exists keeps the      *)
(* file and empties it, and a file whose name was removed stays writable.  *)
(***************************************************************************)
EXTENDS Integers, Sequences, SequencesExt

CONSTANTS
  Procs, NoFile,
  Elfs, Srcs,  \* paths of programs and of patch sources
  Btf          \* per program its .BTF section: [types, proto], or NoFile

(* What a file holds: written by which tool, from which input, to its end or not *)
Contents == [of : Elfs \cup Srcs, by : Procs, whole : BOOLEAN]

(***************************************************************************)
(* The kinds of BTF types: an array refers to the type of its elements and *)
(* of its index, any other type to one at most, a prototype to its result. *)
(***************************************************************************)
TypeOfBtf(type) ==
  /\ type.refs \in Seq(Nat) /\ type.params \in Seq(Nat) /\ type.members \in Seq(Nat)
  /\ type.kind # "array" => Len(type.refs) <= 1

ASSUME ToolsAssumption ==
  /\ NoFile \notin Procs \cup Contents
  /\ \A e \in Elfs : Btf[e] # NoFile =>
       /\ \A t \in DOMAIN Btf[e].types : TypeOfBtf(Btf[e].types[t])
       /\ Btf[e].proto \in DOMAIN Btf[e].types
       /\ Btf[e].types[Btf[e].proto].refs # <<>>

VARIABLES
  tool,    \* what each process runs
  path,    \* the program or source it was given
  step,    \* where it stands
  fd,      \* the temporary file it has open
  dir,     \* the names of temporary files
  data,    \* the content of each file
  seen,    \* what a tool got when it read its temporary file
  now,     \* parse_btf: the type it has come to
  shown,   \* parse_btf: what it has shown, a type and those of its members
           \* for the result and for each argument of the function
  func,    \* the .FUNC section of each program
  patch,   \* patch.json
  met,     \* processes that ran while another used the same name (history)
  misled   \* processes whose compilation failed (history)

filesVars == <<dir, data, fd, seen>>
outputs == <<now, shown, func, patch>>
toolVars == <<tool, path, step, filesVars, outputs, met, misled>>

Tools == {"parse_btf", "dump_btf", "write_elf", "gen_patch"}

(* <elf>.btf, <elf>.func, and code.o whatever the source *)
Temporary(t, of) ==
  CASE t \in {"parse_btf", "dump_btf"} -> <<of, "btf">>
    [] t = "write_elf" -> <<of, "func">>
    [] OTHER -> <<"code", "o">>

TempName(p) == Temporary(tool[p], path[p])

TempNames == (Elfs \X {"btf", "func"}) \cup {<<"code", "o">>}

Over(p) == step[p] \in {"start", "done", "failed", "aborted", "killed"}
Users(p) == {q \in Procs \ {p} : ~Over(q) /\ TempName(q) = TempName(p)}

ToolInit ==
  /\ tool \in [Procs -> Tools]
  /\ path \in [Procs -> Elfs \cup Srcs]
  /\ \A p \in Procs : path[p] \in IF tool[p] = "gen_patch" THEN Srcs ELSE Elfs
  /\ step = [p \in Procs |-> "start"]
  /\ fd = [p \in Procs |-> NoFile]
  /\ dir = [n \in TempNames |-> NoFile]
  /\ data = [p \in Procs |-> NoFile]
  /\ seen = [p \in Procs |-> NoFile]
  /\ now = [p \in Procs |-> 0]
  /\ shown = [p \in Procs |-> <<>>]
  /\ func = [e \in Elfs |-> NoFile]
  /\ patch = NoFile
  /\ met = {} /\ misled = {}

GoOn(p, s) == step' = [step EXCEPT ![p] = s]

-----------------------------------------------------------------------------
(* The temporary file. *)

(* A process starts: history notes who it shares its name with. *)
Meets(p) ==
  met' = IF Users(p) = {} THEN met ELSE met \cup {p} \cup Users(p)

(* What is in file f from now on was written by p from its own input. *)
Content(p, whole) == [of |-> path[p], by |-> p, whole |-> whole]

(* The file that creat(TempName(p)) opens *)
Creat(p) == IF dir[TempName(p)] = NoFile THEN p ELSE dir[TempName(p)]

CreatEmpty(p) ==
  /\ fd' = [fd EXCEPT ![p] = Creat(p)]
  /\ dir' = [dir EXCEPT ![TempName(p)] = Creat(p)]
  /\ data' = [data EXCEPT ![Creat(p)] = Content(p, FALSE)]

Unlink(p) == dir' = [dir EXCEPT ![TempName(p)] = NoFile]

(* What a reader finds under the name *)
Found(p) == IF dir[TempName(p)] = NoFile THEN NoFile ELSE data[dir[TempName(p)]]
Whole(c) == c # NoFile /\ c.whole

-----------------------------------------------------------------------------
(* parse_btf, dump-btf and write_elf up to the file. *)

(***************************************************************************)
(* The program is opened and its headers and section are read: any of that *)
(* may fail.  Without the section write_elf and parse_btf have nothing to  *)
(* do (write_elf closes whatever descriptor its uninitialised fd names).   *)
(* dump-btf goes on with an uninitialised path: it lists the types of the  *)
(* file that this happens to name, or fails.                               *)
(***************************************************************************)
NoBtf(p) == tool[p] # "write_elf" /\ Btf[path[p]] = NoFile

OpenElf(p) ==
  /\ step[p] = "start" /\ tool[p] # "gen_patch"
  /\ Meets(p)
  /\ \/ GoOn(p, "failed")
     \/ (NoBtf(p) \/ tool[p] = "write_elf") /\ GoOn(p, "done")
     \/ ~NoBtf(p) /\ GoOn(p, "creat")
  /\ UNCHANGED <<tool, path, filesVars, outputs, misled>>

CreatTemp(p) ==
  /\ step[p] = "creat"
  /\ \/ CreatEmpty(p) /\ GoOn(p, "write")
     \/ GoOn(p, "failed") /\ UNCHANGED <<fd, dir, data>>
  /\ UNCHANGED <<tool, path, seen, outputs, met, misled>>

(* Mutant of WriteTemp: write_elf leaves at once, without its goto unlink. *)
WriteTempLeaves(p) ==
  /\ step[p] = "write"
  /\ \E whole \in BOOLEAN :
       /\ data' = [data EXCEPT ![fd[p]] = Content(p, whole)]
       /\ IF tool[p] = "write_elf"
          THEN GoOn(p, IF whole THEN "objcopy" ELSE "done") /\ UNCHANGED dir
          ELSE GoOn(p, "parse") /\ IF whole THEN UNCHANGED dir ELSE Unlink(p)
  /\ UNCHANGED <<tool, path, fd, seen, outputs, met, misled>>

(* Mutant of WriteTemp: write_elf does not compare what was written. *)
WriteTempUnchecked(p) ==
  /\ step[p] = "write"
  /\ \E whole \in BOOLEAN :
       /\ data' = [data EXCEPT ![fd[p]] = Content(p, whole)]
       /\ IF tool[p] = "write_elf"
          THEN GoOn(p, "objcopy") /\ UNCHANGED dir
          ELSE GoOn(p, "parse") /\ IF whole THEN UNCHANGED dir ELSE Unlink(p)
  /\ UNCHANGED <<tool, path, fd, seen, outputs, met, misled>>

(***************************************************************************)
(* A short write: write_elf gives up, the parsers remove the file and go   *)
(* on to parse it.                                                         *)
(***************************************************************************)
WriteTemp(p) ==
  /\ step[p] = "write"
  /\ \E whole \in BOOLEAN :
       /\ data' = [data EXCEPT ![fd[p]] = Content(p, whole)]
       /\ IF tool[p] = "write_elf"
          THEN GoOn(p, IF whole THEN "objcopy" ELSE "unlink") /\ UNCHANGED dir
          ELSE GoOn(p, "parse") /\ IF whole THEN UNCHANGED dir ELSE Unlink(p)
  /\ UNCHANGED <<tool, path, fd, seen, outputs, met, misled>>

-----------------------------------------------------------------------------
(* parse_btf and dump-btf from there. *)

Types(p) == Btf[path[p]].types

(* The types to be shown: that of the result, then that of each argument *)
Asked(p) ==
  LET proto == Types(p)[Btf[path[p]].proto]
  IN <<proto.refs[1]>> \o proto.params

(* A struct that is an argument has its members shown as well. *)
MembersOf(p, answers) ==
  LET n == Len(answers)
  IN IF n > 1 /\ answers[n].type \in DOMAIN Types(p)
     THEN Types(p)[answers[n].type].members ELSE <<>>

InMembers(p, answers) ==
  /\ answers # <<>>
  /\ Len(answers[Len(answers)].members) < Len(MembersOf(p, answers))

AllShown(p, answers) ==
  ~InMembers(p, answers) /\ Len(answers) = Len(Asked(p))

(* The type that is to be followed when these are shown *)
NextAsked(p, answers) ==
  IF InMembers(p, answers)
  THEN MembersOf(p, answers)[Len(answers[Len(answers)].members) + 1]
  ELSE Asked(p)[Len(answers) + 1]

(***************************************************************************)
(* createFromPath fails on what is not a whole .BTF section, and may fail  *)
(* on what is; or the section has no types.  Then both tools exit as they  *)
(* stand.  With flag "all" the functions are listed and that is it, with   *)
(* "single" the types of one are followed.                                 *)
(***************************************************************************)
Parse(p) ==
  /\ step[p] = "parse"
  /\ \/ GoOn(p, "failed") /\ UNCHANGED <<seen, now>>
     \/ /\ Whole(Found(p))
        /\ seen' = [seen EXCEPT ![p] = Found(p)]
        /\ IF tool[p] = "dump_btf"
           THEN GoOn(p, "done") /\ UNCHANGED now
           ELSE \/ GoOn(p, "remove") /\ UNCHANGED now
                \/ GoOn(p, "walk") /\ now' = [now EXCEPT ![p] = NextAsked(p, <<>>)]
  /\ UNCHANGED <<tool, path, dir, data, fd, shown, func, patch, met, misled>>

(* What the last "type_id=" of the first line printed for a type names *)
Followed(type) == Last(type.refs)

Known(p) == now[p] \in DOMAIN Types(p)

(* One turn of a do loop of printFunc or getExactType that matches *)
Follow(p) ==
  /\ step[p] = "walk" /\ Known(p)
  /\ LET type == Types(p)[now[p]]
     IN type.refs # <<>> /\ now' = [now EXCEPT ![p] = Followed(type)]
  /\ UNCHANGED <<tool, path, step, filesVars, shown, func, patch, met, misled>>

(* A type is shown, and the next one looked for. *)
Answer(p) ==
  LET n == Len(shown[p])
      answers == IF InMembers(p, shown[p])
                 THEN [shown[p] EXCEPT ![n] =
                         [type |-> @.type, members |-> Append(@.members, now[p])]]
                 ELSE Append(shown[p], [type |-> now[p], members |-> <<>>])
  IN /\ shown' = [shown EXCEPT ![p] = answers]
     /\ IF AllShown(p, answers) THEN GoOn(p, "remove") /\ UNCHANGED now
        ELSE now' = [now EXCEPT ![p] = NextAsked(p, answers)] /\ UNCHANGED step

(* std::get of a struct: the type of an argument has come down to a union. *)
UnionGotten(p) ==
  /\ shown[p] # <<>> /\ ~InMembers(p, shown[p])
  /\ Types(p)[now[p]].kind = "union"

(* The turn that ends one of the do loops *)
Show(p) ==
  /\ step[p] = "walk" /\ Known(p)
  /\ Types(p)[now[p]].refs = <<>> /\ ~UnionGotten(p)
  /\ Answer(p)
  /\ UNCHANGED <<tool, path, filesVars, func, patch, met, misled>>

(* That throws: the process ends as it stands. *)
Abort(p) ==
  /\ step[p] = "walk" /\ Known(p)
  /\ UnionGotten(p)
  /\ GoOn(p, "aborted")
  /\ UNCHANGED <<tool, path, filesVars, outputs, met, misled>>

(***************************************************************************)
(* find of a type that is not in the map answers end(), and what lies      *)
(* there is read as a type: it may be shown, or the process ends.          *)
(***************************************************************************)
Unknown(p) ==
  /\ step[p] = "walk" /\ ~Known(p)
  /\ Answer(p) \/ (GoOn(p, "aborted") /\ UNCHANGED <<now, shown>>)
  /\ UNCHANGED <<tool, path, filesVars, func, patch, met, misled>>

(* close, access and remove *)
RemoveTemp(p) ==
  /\ step[p] = "remove" /\ tool[p] = "parse_btf"
  /\ Unlink(p)
  /\ GoOn(p, "done")
  /\ UNCHANGED <<tool, path, data, fd, seen, outputs, met, misled>>

-----------------------------------------------------------------------------
(* write_elf from there. *)

(* system(llvm-objcopy --add-section .FUNC=<elf>.func <elf>) *)
Objcopy(p) ==
  /\ step[p] = "objcopy"
  /\ \/ /\ Found(p) # NoFile
        /\ seen' = [seen EXCEPT ![p] = Found(p)]
        /\ func' = [func EXCEPT ![path[p]] = Found(p)]
     \/ UNCHANGED <<seen, func>>
  /\ GoOn(p, "unlink")
  /\ UNCHANGED <<tool, path, dir, data, fd, now, shown, patch, met, misled>>

UnlinkTemp(p) ==
  /\ step[p] = "unlink"
  /\ Unlink(p)
  /\ GoOn(p, "done")
  /\ UNCHANGED <<tool, path, data, fd, seen, outputs, met, misled>>

-----------------------------------------------------------------------------
(* gen_patch.py *)

(***************************************************************************)
(* clang | llc -o code.o.  A failure is ignored: when llc fails code.o is  *)
(* as it was, and when only clang does llc makes one of nothing.           *)
(***************************************************************************)
CompileCode(p) ==
  /\ step[p] = "start" /\ tool[p] = "gen_patch"
  /\ Meets(p)
  /\ \/ /\ dir' = [dir EXCEPT ![TempName(p)] = Creat(p)]
        /\ \E whole \in BOOLEAN :
             /\ data' = [data EXCEPT ![Creat(p)] = Content(p, whole)]
             /\ misled' = IF whole THEN misled ELSE misled \cup {p}
     \/ UNCHANGED <<dir, data>> /\ misled' = misled \cup {p}
  /\ GoOn(p, "pack")
  /\ UNCHANGED <<tool, path, fd, seen, outputs>>

(* No code.o, or one without a .text: an exception *)
Pack(p) ==
  /\ step[p] = "pack"
  /\ \/ Found(p) # NoFile /\ seen' = [seen EXCEPT ![p] = Found(p)] /\ GoOn(p, "remove")
     \/ GoOn(p, "failed") /\ UNCHANGED seen
  /\ UNCHANGED <<tool, path, dir, data, fd, outputs, met, misled>>

(* os.remove, which raises if there is nothing to remove *)
RemoveCode(p) ==
  /\ step[p] = "remove" /\ tool[p] = "gen_patch"
  /\ IF Found(p) = NoFile THEN GoOn(p, "failed") /\ UNCHANGED dir
     ELSE GoOn(p, "json") /\ Unlink(p)
  /\ UNCHANGED <<tool, path, data, fd, seen, outputs, met, misled>>

(* gen_json: config.json and what was collected go to patch.json *)
GenJson(p) ==
  /\ step[p] = "json"
  /\ \/ patch' = [name |-> path[p], code |-> seen[p].of, by |-> p] /\ GoOn(p, "done")
     \/ GoOn(p, "failed") /\ UNCHANGED patch
  /\ UNCHANGED <<tool, path, filesVars, now, shown, func, met, misled>>

-----------------------------------------------------------------------------

Kill(p) ==
  /\ ~Over(p)
  /\ GoOn(p, "killed")
  /\ UNCHANGED <<tool, path, filesVars, outputs, met, misled>>

ToolStep ==
  \E p \in Procs :
    \/ OpenElf(p) \/ CreatTemp(p) \/ WriteTemp(p)
    \/ Parse(p) \/ Follow(p) \/ Show(p) \/ Abort(p) \/ Unknown(p) \/ RemoveTemp(p)
    \/ Objcopy(p) \/ UnlinkTemp(p)
    \/ CompileCode(p) \/ Pack(p) \/ RemoveCode(p) \/ GenJson(p)
    \/ Kill(p)

-----------------------------------------------------------------------------
(* Properties. *)

ToolsSpec == ToolInit /\ [][ToolStep]_toolVars

(***************************************************************************)
(* The ways from a type t that pass no array: sets of known types that     *)
(* hold t and with each type the one it refers to (what a pointer points   *)
(* at, a function returns, a qualifier qualifies).  The type that t comes  *)
(* down to is the one in all of them that refers to none.  Where an array  *)
(* is on the way the tool goes on with the type of its index instead.      *)
(***************************************************************************)
Ways ==
  [e \in {f \in Elfs : Btf[f] # NoFile} |->
    LET types == Btf[e].types
    IN [t \in DOMAIN types |->
         {S \in SUBSET DOMAIN types :
           /\ t \in S
           /\ \A u \in S : types[u].refs # <<>> =>
                types[u].kind # "array" /\ types[u].refs[1] \in S}]]

Declares(p, t, u) ==
  t \in DOMAIN Types(p) =>
    \A S \in Ways[path[p]][t] : u \in S /\ Types(p)[u].refs = <<>>

ShowsTheDeclaration(p) ==
  \A k \in DOMAIN shown[p] :
    /\ Declares(p, Asked(p)[k], shown[p][k].type)
    /\ \A j \in DOMAIN shown[p][k].members :
         Declares(p, Types(p)[shown[p][k].type].members[j], shown[p][k].members[j])

(***************************************************************************)
(* A tool that had its file's name to itself reads back what it has        *)
(* written, whole and from its own input: a .FUNC section, a patch and the *)
(* types shown are those of the file that was asked for.  gen_patch packs  *)
(* something else only if its own compilation failed, and then what little *)
(* came of it or what a gen_patch that was killed or failed has left.      *)
(***************************************************************************)
ToolsUseTheirOwn ==
  \A p \in Procs \ met :
    /\ seen[p] # NoFile =>
         \/ seen[p] = Content(p, TRUE)
         \/ /\ tool[p] = "gen_patch" /\ p \in misled
            /\ seen[p].by = p \/ step[seen[p].by] \in {"killed", "failed"}
    /\ ShowsTheDeclaration(p)
    /\ (patch # NoFile /\ patch.by = p /\ p \notin misled) => patch.code = patch.name

(***************************************************************************)
(* A temporary file outlives its tool only when the tool was killed, when  *)
(* the parser or the packer gave up on what it had written, and always     *)
(* with dump-btf.                                                          *)
(***************************************************************************)
LeftoversExplained ==
  \A n \in TempNames :
    dir[n] # NoFile =>
      LET p == data[dir[n]].by
      IN \/ ~Over(p)
         \/ step[p] = "killed"
         \/ tool[p] = "dump_btf"
         \/ (tool[p] \in {"parse_btf", "gen_patch"} /\ step[p] \in {"failed", "aborted"})
=============================================================================
