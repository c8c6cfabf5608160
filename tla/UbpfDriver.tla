------------------------------ MODULE UbpfDriver ------------------------------
(***************************************************************************)
(* main of vm/test.c: one vm is created, given its functions, loaded from  *)
(* an object file or from plain code, perhaps unloaded (-U) or loaded once *)
(* more (-R), run by ubpf_exec or as machine code (-j), and destroyed.     *)
(***************************************************************************)
EXTENDS UbpfLoader

CONSTANTS
  Files,   \* the contents readfile may return
  Helpers  \* what register_functions registers from index 0; the last unwinds

ASSUME HelpersAssumption ==
  /\ Helpers \in Seq(Funcs) /\ Len(Helpers) \in 1 .. MaxExtFuncs
  /\ \A j, k \in 1 .. Len(Helpers) : Helpers[j] = Helpers[k] => j = k

Addresses == 0 .. AddrMod - 1
SectionHeader ==
  [type : STRING, exec : BOOLEAN, info : Nat, link : Nat, offset : Addresses, size : Addresses]

(* Section s of f is in the file, and then its data are those of the section. *)
InFile(f, s) == f.sections[s + 1].offset + f.sections[s + 1].size <= f.size

(***************************************************************************)
(* An object file: fields of the widths they have in the file.  What is    *)
(* executable is read as halves of instructions, what a relocation section *)
(* holds as relocations, and what it links to as symbols.                  *)
(***************************************************************************)
ASSUME FilesAssumption ==
  \A f \in Files : f.elf =>
    /\ f.size \in Nat /\ f.shoff \in Nat
    /\ f.sections \in Seq(SectionHeader)
    /\ \A s \in 0 .. Len(f.sections) - 1 :
         f.sections[s + 1].exec /\ InFile(f, s) =>
           f.data[s + 1] = [h \in 1 .. f.sections[s + 1].size |-> f.data[s + 1][h]]
    /\ \A s \in 0 .. Len(f.sections) - 1 :
         f.sections[s + 1].type = "rel" /\ InFile(f, s) =>
           LET link == f.sections[s + 1].link
           IN /\ \A j \in 0 .. (f.sections[s + 1].size \div RelSize) - 1 :
                   /\ f.data[s + 1][j + 1].sym \in Nat
                   /\ f.data[s + 1][j + 1].offset \in Addresses
              /\ link < Len(f.sections) /\ InFile(f, link) =>
                   \A k \in 0 .. (f.sections[link + 1].size \div SymSize) - 1 :
                     f.data[link + 1][k + 1] \in Nat

VARIABLES
  at,       \* where main stands
  options,  \* the command line: -U, -R, -j and -m
  status    \* the exit status, or NULL

driverVars == <<vars, file, elfVars, at, options, status>>

Options == [unload : BOOLEAN, reload : BOOLEAN, jit : BOOLEAN, mem : BOOLEAN]

DriverInit ==
  /\ Init
  /\ file \in Files /\ options \in Options
  /\ elf = "out" /\ sec = 0 /\ entry = 0 /\ text_shndx = 0 /\ text_copy = NULL /\ touched = {}
  /\ at = "start" /\ status = NULL

(* The process died of a signal. *)
Crashed == -1

Exit(s) == at' = "ended" /\ status' = s
GoTo(place) == at' = place /\ UNCHANGED status

(* -U with -R is an error; so is a file that cannot be read. *)
ReadFile ==
  /\ at = "start"
  /\ IF options.unload /\ options.reload
     THEN Exit(1)
     ELSE GoTo("create") \/ Exit(1)
  /\ UNCHANGED <<vars, file, elfVars, options>>

CreateVm ==
  /\ at = "create"
  /\ \/ Create /\ GoTo("register")
     \/ CreateFails /\ Exit(1)
  /\ UNCHANGED <<file, elfVars, options>>

(* register_functions, one call of ubpf_register at a time *)
RegisterNext ==
  /\ at = "register"
  /\ \E idx \in 0 .. Len(Helpers) - 1 :
       /\ ext_funcs[idx] = NULL
       /\ \A k \in 0 .. idx - 1 : ext_funcs[k] # NULL
       /\ Register(idx, Helpers[idx + 1])
  /\ UNCHANGED <<file, elfVars, at, options, status>>

RegisterUnwind ==
  /\ at = "register"
  /\ \A idx \in 0 .. Len(Helpers) - 1 : ext_funcs[idx] # NULL
  /\ SetUnwind(Len(Helpers) - 1)
  /\ GoTo("load")
  /\ UNCHANGED <<file, elfVars, options>>

(* load: *)
StartLoad ==
  /\ at = "load"
  /\ IF file.elf
     THEN LoadElf /\ at' = IF elf' = "out" THEN "loaded" ELSE "loading"
     ELSE /\ LoadCode(file.data[1])
          /\ at' = IF mode' = "validate" THEN "loading" ELSE "loaded"
          /\ UNCHANGED elfVars
  /\ UNCHANGED <<file, options, status>>

Loading ==
  /\ at = "loading"
  /\ IF file.elf
     THEN LoadElfStep /\ at' = IF elf' = "out" THEN "loaded" ELSE at
     ELSE LoadStep /\ at' = (IF mode' = "idle" THEN "loaded" ELSE at) /\ UNCHANGED elfVars
  /\ UNCHANGED <<file, options, status>>

(* -U: what was loaded is dropped, if anything was, and loaded again *)
UnloadAgain ==
  /\ at = "loaded" /\ options.unload
  /\ Unload
  /\ options' = [options EXCEPT !.unload = FALSE]
  /\ GoTo("load")
  /\ UNCHANGED <<file, elfVars>>

(* -R: a second load on top of the first *)
LoadAgain ==
  /\ at = "loaded" /\ ~options.unload /\ options.reload
  /\ options' = [options EXCEPT !.reload = FALSE]
  /\ GoTo("load")
  /\ UNCHANGED <<vars, file, elfVars>>

(* Only the result of the last load counts. *)
LoadResult ==
  /\ at = "loaded" /\ ~options.unload /\ ~options.reload
  /\ IF rc = "ok"
     THEN GoTo("run") /\ UNCHANGED vars
     ELSE Destroy /\ Exit(1)
  /\ UNCHANGED <<file, elfVars, options>>

(* ubpf_compile; when it fails main leaves without destroying the vm *)
CompileAndRun ==
  /\ at = "run" /\ options.jit
  /\ \/ Compile /\ GoTo("destroy")
     \/ CompileFails /\ Exit(1)
     \/ CompileNoBuffer /\ Exit(Crashed)
  /\ UNCHANGED <<file, elfVars, options>>

Interpret ==
  /\ at = "run" /\ ~options.jit
  /\ ExecCall(options.mem)
  /\ GoTo("running")
  /\ UNCHANGED <<file, elfVars, options>>

(* A turn of ubpf_exec; an error is the result UINT64_MAX. *)
Interpreting ==
  /\ at = "running"
  /\ ExecStep
  /\ IF mode' = "exec" THEN UNCHANGED <<at, status>>
     ELSE IF mode' = "idle" THEN GoTo("destroy")
     ELSE Exit(Crashed)
  /\ UNCHANGED <<file, elfVars, options>>

DestroyVm ==
  /\ at = "destroy"
  /\ Destroy
  /\ Exit(0)
  /\ UNCHANGED <<file, elfVars, options>>

DriverStep ==
  \/ ReadFile \/ CreateVm \/ RegisterNext \/ RegisterUnwind
  \/ StartLoad \/ Loading \/ UnloadAgain \/ LoadAgain \/ LoadResult
  \/ CompileAndRun \/ Interpret \/ Interpreting \/ DestroyVm

DriverSpec == DriverInit /\ [][DriverStep]_driverVars

-----------------------------------------------------------------------------
(* Properties. *)

SectionOf(f, s) == f.sections[s + 1]

(* The text of f: the first executable section, which must not be number 0 *)
IsCode(f, s) == SectionOf(f, s).type = "progbits" /\ SectionOf(f, s).exec
TextOf(f) ==
  CHOOSE s \in 1 .. Len(f.sections) - 1 : IsCode(f, s) /\ \A t \in 0 .. s - 1 : ~IsCode(f, t)

(* The relocations of the text of f: the section and the place in it *)
Relocations(f) ==
  {e \in (0 .. Len(f.sections) - 1) \X (1 .. f.size) :
    /\ SectionOf(f, e[1]).type = "rel" /\ SectionOf(f, e[1]).info = TextOf(f)
    /\ e[2] <= SectionOf(f, e[1]).size \div RelSize}

RelocationOf(f, e) == f.data[e[1] + 1][e[2]]

(* Those that are about the half h: the one after the offset *)
Hits(f, h) == {e \in Relocations(f) : h = ((RelocationOf(f, e).offset + 1) % AddrMod) + 1}

(* The name of the symbol that a relocation is about *)
NameOf(f, e) ==
  LET symbols == SectionOf(f, e[1]).link
      names == SectionOf(f, symbols).link
  IN f.data[names + 1][f.data[symbols + 1][RelocationOf(f, e).sym + 1] + 1]

(* The last of them in the order of the file *)
IsLast(e, hits) ==
  e \in hits /\ \A g \in hits : g[1] < e[1] \/ (g[1] = e[1] /\ g[2] <= e[2])

IndexOf(name) == (CHOOSE k \in 1 .. Len(Helpers) : Helpers[k] = name) - 1

(***************************************************************************)
(* What an object file means: its text, where each word that relocations   *)
(* of the text point at holds the index of the function that the last of   *)
(* them names.                                                             *)
(***************************************************************************)
Meant(f) ==
  IF ~f.elf THEN f.data[1]
  ELSE LET text == f.data[TextOf(f) + 1]
       IN [h \in DOMAIN text |->
             IF Hits(f, h) = {} THEN text[h]
             ELSE [imm |-> IndexOf(NameOf(f, CHOOSE e \in Hits(f, h) : IsLast(e, Hits(f, h))))]]

(***************************************************************************)
(* Through unloading, loading again and every failure on the way, the code *)
(* a vm holds is what the file means: each call that the file names goes   *)
(* to the function registered under that name.  No copy of the text        *)
(* outlives the loader, and main leaves a vm behind only when the code     *)
(* could not be compiled or its run was the end of the process.            *)
(***************************************************************************)
RunsTheLinkedFile ==
  /\ insts # NULL => insts = Decode(Meant(file))
  /\ jitted # NULL => jitted.code = insts
  /\ text_copy # NULL => elf # "out"
  /\ at = "ended" /\ live => status = Crashed \/ (options.jit /\ status = 1)
=============================================================================
