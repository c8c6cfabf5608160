----------------------------- MODULE PatchRuntime -----------------------------
(***************************************************************************)
(* jsonPatch_writer/main_test.c: for each of five vulnerable functions     *)
(* main calls the function, hooks its entry, reads its eBPF patch into one *)
(* global buffer, calls it again and prints whether the bug is fixed.  A   *)
(* hooked function runs patch_dispatcher and run_ebpf, which builds a ubpf *)
(* vm for the call: the actions of UbpfVm, but for ubpf_load, in whose     *)
(* place run_ebpf copies the code into the vm itself, unvalidated.         *)
(*                                                                         *)
(* The result of cve_5, which returns nothing, is what main finds in       *)
(* memory instead: 0 for a cleared h->delayed_pic[0], else -1 for          *)
(* needs_realloc.  It changes with the stores of the patch, not at its end.*)
(***************************************************************************)
EXTENDS UbpfVm

CONSTANTS
  Patch,    \* the bytecode in each function's patch file
  Results   \* what that bytecode may return, or for cve_5 leave in memory

Cves == 1 .. 5

(* The arguments of register_functions. *)
Host == <<"new_sqrt", "strcmp_ext", "unwind">>

ASSUME PatchAssumption ==
  /\ Patch \in [Cves -> Programs]
  /\ <<>> \in Programs
  /\ NULL \notin Cves
  /\ \A c \in Cves : Len(Patch[c]) < PcMod
ASSUME ResultsAssumption == Results \in [Cves -> SUBSET Int]
ASSUME HostAssumption == MaxExtFuncs > 3 /\ {Host[k] : k \in 1 .. 3} \subseteq Funcs

(* What main takes for a fixed and for an unfixed function. *)
Fixed == <<0, 1, 20004, 0, 0>>
Unfixed == <<1, 0, 20000, 123, -1>>

VARIABLES
  cve,           \* main's loop variable
  at,            \* where main, or run_ebpf below it, is
  hooked,        \* functions that begin with a jump to patch_handler
  bytecode,      \* whose patch the global buffer holds, or NULL
  bytecode_len,  \* its length in bytes
  next_fn,       \* the next function register_functions registers
  ret,           \* main's ret
  ran,           \* functions whose patch ran to its end (not in the program)
  said           \* what main printed of each function

runtimeVars == <<cve, at, hooked, bytecode, bytecode_len, next_fn, ret, ran, said>>
allVars == <<vars, runtimeVars>>

Places == {"first", "hook", "load", "second", "create", "register", "install",
           "start", "running", "destroy", "verdict", "done", "exited", "crashed"}

RuntimeTypeOK ==
  /\ TypeOK
  /\ cve \in Cves
  /\ at \in Places
  /\ hooked \in SUBSET Cves
  /\ bytecode \in Cves \cup {NULL}
  /\ bytecode_len \in Nat
  /\ next_fn \in 1 .. 3
  /\ ret \in Int
  /\ ran \in SUBSET Cves
  /\ said \in [Cves -> {"nothing", "fixed", "not fixed"}]

RuntimeInit ==
  /\ Init
  /\ cve = 1 /\ at = "first"
  /\ hooked = {}
  /\ bytecode = NULL /\ bytecode_len = 0
  /\ next_fn = 1
  /\ ret = 0 /\ ran = {}
  /\ said = [c \in Cves |-> "nothing"]

-----------------------------------------------------------------------------
(* main *)

(* The call of the function as it was built. *)
FirstCall ==
  /\ at = "first"
  /\ ret' = Unfixed[cve]
  /\ at' = "hook"
  /\ UNCHANGED <<vars, cve, hooked, bytecode, bytecode_len, next_fn, ran, said>>

(* Mutant of Hook: the patch is not read before the hooked function is called. *)
HookThenCall ==
  /\ at = "hook"
  /\ hooked' \in {hooked \cup {cve}, hooked}
  /\ at' = "second"
  /\ UNCHANGED <<vars, cve, bytecode, bytecode_len, next_fn, ret, ran, said>>

(* hook2; when mprotect fails it says so and main goes on *)
Hook ==
  /\ at = "hook"
  /\ hooked' \in {hooked \cup {cve}, hooked}
  /\ at' = "load"
  /\ UNCHANGED <<vars, cve, bytecode, bytecode_len, next_fn, ret, ran, said>>

(***************************************************************************)
(* getEbpfPatch.  gen_patch.py writes the length of the code plus one; the *)
(* extra byte stays uninitialised.                                         *)
(***************************************************************************)
GetEbpfPatch ==
  /\ at = "load"
  /\ bytecode' = cve
  /\ bytecode_len' = 8 * Len(Patch[cve]) + 1
  /\ at' = "second"
  /\ UNCHANGED <<vars, cve, hooked, next_fn, ret, ran, said>>

(* No file, no memory or no JSON: exit.  A missing member: a null pointer. *)
GetEbpfPatchFails ==
  /\ at = "load"
  /\ at' \in {"exited", "crashed"}
  /\ UNCHANGED <<vars, cve, hooked, bytecode, bytecode_len, next_fn, ret, ran, said>>

(* The second call, through patch_handler if the hook is in place. *)
SecondCall ==
  /\ at = "second"
  /\ IF cve \in hooked
     THEN at' = "create" /\ UNCHANGED ret
     ELSE at' = "verdict" /\ ret' = Unfixed[cve]
  /\ UNCHANGED <<vars, cve, hooked, bytecode, bytecode_len, next_fn, ran, said>>

Verdict ==
  IF ret = Fixed[cve] THEN "fixed"
  ELSE IF ret = Unfixed[cve] THEN "not fixed" ELSE "nothing"

(* Mutant of Report: one turn of the loop too many. *)
ReportOneMore ==
  /\ at = "verdict"
  /\ said' = [said EXCEPT ![cve] = Verdict]
  /\ IF cve = 6
     THEN at' = "done" /\ UNCHANGED cve
     ELSE at' = "first" /\ cve' = cve + 1
  /\ UNCHANGED <<vars, hooked, bytecode, bytecode_len, next_fn, ret, ran>>

(* Mutant of Report: the loop does not move on. *)
ReportAgain ==
  /\ at = "verdict"
  /\ said' = [said EXCEPT ![cve] = Verdict]
  /\ at' = "first"
  /\ UNCHANGED <<vars, cve, hooked, bytecode, bytecode_len, next_fn, ret, ran>>

Report ==
  /\ at = "verdict"
  /\ said' = [said EXCEPT ![cve] = Verdict]
  /\ IF cve = 5
     THEN at' = "done" /\ UNCHANGED cve
     ELSE at' = "first" /\ cve' = cve + 1
  /\ UNCHANGED <<vars, hooked, bytecode, bytecode_len, next_fn, ret, ran>>

-----------------------------------------------------------------------------
(* run_ebpf *)

(***************************************************************************)
(* Back in main, with v as the result of the hooked function.  That of     *)
(* cve_5 is what its first call left: its patch has not run.               *)
(***************************************************************************)
Back(v) == at' = "verdict" /\ ret' = (IF cve = 5 THEN Unfixed[5] ELSE v)

(* Mutant of RunCreate: the code is installed before the functions. *)
RunCreateInstallFirst ==
  /\ at = "create"
  /\ Create
  /\ at' = "install" /\ UNCHANGED next_fn
  /\ UNCHANGED <<cve, hooked, bytecode, bytecode_len, ret, ran, said>>

RunCreate ==
  /\ at = "create"
  /\ Create
  /\ at' = "register" /\ next_fn' = 1
  /\ UNCHANGED <<cve, hooked, bytecode, bytecode_len, ret, ran, said>>

(* "Failed to create VM", and 1 to the caller of the hooked function *)
RunCreateFails ==
  /\ at = "create"
  /\ CreateFails
  /\ Back(1)
  /\ UNCHANGED <<cve, hooked, bytecode, bytecode_len, next_fn, ran, said>>

(* register_functions, one call at a time *)
RegisterFunctions ==
  /\ at = "register"
  /\ Register(next_fn, Host[next_fn])
  /\ IF next_fn = 3
     THEN at' = "install" /\ UNCHANGED next_fn
     ELSE next_fn' = next_fn + 1 /\ UNCHANGED at
  /\ UNCHANGED <<cve, hooked, bytecode, bytecode_len, ret, ran, said>>

(* malloc and memcpy into vm->insts; code_len / sizeof rounds down *)
Install ==
  /\ at = "install"
  /\ insts' = IF bytecode = NULL THEN <<>> ELSE Patch[bytecode]
  /\ num_insts' = (bytecode_len \div 8) % PcMod
  /\ at' = "start"
  /\ UNCHANGED <<vmVars, jitted, mode, loadVars, execVars, rc>>
  /\ UNCHANGED <<cve, hooked, bytecode, bytecode_len, next_fn, ret, ran, said>>

(* Mutant of InstallNoMemory: run_ebpf returns 0. *)
InstallNoMemoryZero ==
  /\ at = "install"
  /\ live' = FALSE
  /\ Back(0)
  /\ UNCHANGED <<ext_funcs, unwind, bounds_check_enabled, codeVars, mode>>
  /\ UNCHANGED <<loadVars, execVars, rc>>
  /\ UNCHANGED <<cve, hooked, bytecode, bytecode_len, next_fn, ran, said>>

(* ... or -1 if there is no memory; the vm is forgotten, not destroyed *)
InstallNoMemory ==
  /\ at = "install"
  /\ live' = FALSE
  /\ Back(-1)
  /\ UNCHANGED <<ext_funcs, unwind, bounds_check_enabled, codeVars, mode>>
  /\ UNCHANGED <<loadVars, execVars, rc>>
  /\ UNCHANGED <<cve, hooked, bytecode, bytecode_len, next_fn, ran, said>>

(* ubpf_exec(vm, frame, ...) *)
Start ==
  /\ at = "start"
  /\ ExecCall(TRUE)
  /\ at' = "running"
  /\ UNCHANGED <<cve, hooked, bytecode, bytecode_len, next_fn, ret, ran, said>>

(* ubpf_exec returned; its error becomes UINT64_MAX, an int -1. *)
Returned ==
  /\ at' = "destroy"
  /\ ran' = IF rc' = "ok" THEN ran \cup {cve} ELSE ran
  /\ IF cve = 5
     THEN UNCHANGED ret
     ELSE ret' \in (IF rc' = "ok" THEN Results[cve] ELSE {-1})

(* ubpf_exec goes on, and what it stored for cve_5 is there for main to see. *)
GoesOn ==
  /\ ret' \in {ret} \cup (IF cve = 5 /\ Cur.op = "store" THEN Results[5] ELSE {})
  /\ UNCHANGED <<at, ran>>

(* A turn of the interpreter's loop, which may be its last. *)
Running ==
  /\ at = "running"
  /\ ExecStep
  /\ \/ mode' = "idle" /\ Returned
     \/ mode' = "exec" /\ GoesOn
     \/ mode' \notin {"idle", "exec"} /\ UNCHANGED <<at, ran, ret>>
  /\ UNCHANGED <<cve, hooked, bytecode, bytecode_len, next_fn, said>>

RunDestroy ==
  /\ at = "destroy"
  /\ Destroy
  /\ at' = "verdict"
  /\ UNCHANGED <<cve, hooked, bytecode, bytecode_len, next_fn, ret, ran, said>>

Over == at \in {"done", "exited", "crashed"} \/ mode \in {"wild", "crash", "smashed"}

RuntimeEnded == Over /\ UNCHANGED allVars

MainStep == FirstCall \/ Hook \/ GetEbpfPatch \/ GetEbpfPatchFails \/ SecondCall \/ Report

RunEbpf ==
  \/ RunCreate \/ RunCreateFails \/ RegisterFunctions
  \/ Install \/ InstallNoMemory \/ Start \/ Running \/ RunDestroy

RuntimeNext == MainStep \/ RunEbpf \/ RuntimeEnded

(* One thread that waits for nothing: it is scheduled again. *)
RuntimeSpec ==
  RuntimeInit /\ [][RuntimeNext]_allVars /\ WF_allVars(RuntimeNext)

-----------------------------------------------------------------------------
(* Properties. *)

(***************************************************************************)
(* All hooked functions share the global bytecode.  main's order of hook,  *)
(* read and call is what makes the interpreter run the patch of the        *)
(* function that was called, and never an earlier one's.                   *)
(***************************************************************************)
OwnPatchRuns == mode = "exec" => insts = Patch[cve]

(***************************************************************************)
(* main says "fixed" only of a function whose patch ran to its end, with   *)
(* two exceptions.  If the vm could not be created run_ebpf answers 1,     *)
(* what a fixed cve_2 answers.  And a patch of cve_5 that clears           *)
(* h->delayed_pic[0] and then divides by zero is taken for a fix: main     *)
(* looks at what it stored, not at how it ended.                           *)
(***************************************************************************)
CanFail(prog) ==
  \E k \in 1 .. Len(prog) : prog[k].op \in {"div32_reg", "div64_reg"}

FixedIsEarned ==
  \A c \in Cves : said[c] = "fixed" =>
    \/ c \in ran \/ Fixed[c] = 1
    \/ c = 5 /\ CanFail(Patch[5])

(* "This is new version. Bug is fixed.": the patch ran in the function's place. *)
FixedMeansPatched == \A c \in Cves : said[c] = "fixed" => c \in ran

(* vm->ext_funcs when register_functions has made n - 1 of its calls, and all *)
Registered(n) ==
  [k \in 0 .. MaxExtFuncs - 1 |-> IF k \in 1 .. n - 1 THEN Host[k] ELSE NULL]
HostTable == Registered(4)

(***************************************************************************)
(* run_ebpf validates nothing.  What the vm promises its host can only be  *)
(* had if each patch is code that ubpf_load would have accepted.           *)
(***************************************************************************)
PatchesAreSafe == \A c \in Cves : SafeCode(Patch[c], HostTable)

(***************************************************************************)
(* If no patch jumps backwards, main comes to its end, whichever calls     *)
(* fail on the way.                                                        *)
(***************************************************************************)
MainEnds == (\A c \in Cves : ForwardOnly(Patch[c])) => <>Over
=============================================================================
