-------------------------------- MODULE UbpfVm --------------------------------
(***************************************************************************)
(* One ubpf_vm object and the host that calls its API: create, destroy,    *)
(* register, toggle, load with its validation loop, unload, compile, and   *)
(* the interpreter loop of ubpf_exec (vm/ubpf_vm.c, vm/ubpf_jit.c).        *)
(*                                                                         *)
(* The host is one thread, so at most one API call is in progress; mode    *)
(* says which.  Validation and execution take one action per iteration of  *)
(* their loops.  Register values are abstracted: a branch may go either    *)
(* way, a divisor may be anything, an address is any member of Addrs.      *)
(* Nor is memory modelled, only which of its addresses the process may     *)
(* touch: an access outside of them is a signal.                           *)
(***************************************************************************)
EXTENDS EbpfIsa

CONSTANTS
  Programs,      \* the bytecode a host may try to load
  Funcs,         \* host functions that can be registered
  PcMod,         \* 2^16: pc is a uint16_t, num_insts too
  AddrMod,       \* 2^64: the number of addresses
  Addrs,         \* addresses a load or store may compute
  AccessSizes,   \* sizes of a load or store, in bytes
  Mem, MemLen,   \* the context passed to ubpf_exec, when it is not NULL
  Stack, StackSize, \* the interpreter's stack array, UBPF_STACK_SIZE
  Readable,      \* addresses the process may load from
  Writable,      \* addresses it may store to
  Vital          \* what is not the bytecode's to change: the vm, its code,
                 \* the frames of the host and of ubpf_exec, the host's data

ASSUME ProgramsAssumption == Programs \subseteq Seq(Inst)
ASSUME FuncsAssumption == NULL \notin Funcs
ASSUME PcModAssumption == PcMod \in Nat /\ PcMod >= MaxInsts
ASSUME LayoutAssumption ==
  /\ AddrMod \in Nat \ {0}
  /\ Addrs \subseteq 0 .. AddrMod - 1
  /\ AccessSizes \subseteq Nat \ {0}
  /\ Mem \in Nat /\ MemLen \in Nat /\ Mem + MemLen < AddrMod
  /\ Stack \in Nat /\ StackSize \in Nat /\ Stack + StackSize < AddrMod

Bytes(base, len) == base .. base + len - 1

(* The context and the stack are memory that the bytecode may use. *)
ASSUME MemoryAssumption ==
  Bytes(Mem, MemLen) \cup Bytes(Stack, StackSize) \subseteq
    (Readable \cap Writable) \ Vital
ASSUME NullIsNoProgram == NULL \notin Seq(Inst)

VARIABLES
  live,        \* the host holds a vm that it has not destroyed
  ext_funcs,   \* vm->ext_funcs
  unwind,      \* vm->unwind_stack_extension_index
  bounds_check_enabled,
  insts,       \* vm->insts, NULL when no code is loaded
  num_insts,   \* vm->num_insts
  jitted,      \* vm->jitted: what the machine code was translated from, or NULL
  mode,        \* the call in progress, or how the process ended
  code,        \* argument of the ubpf_load in progress, or NULL
  i,           \* validate's loop index
  heads,       \* the slots validate took as instructions (not in the program)
  pc,          \* ubpf_exec's program counter
  mem,         \* ubpf_exec's mem argument is not NULL
  access,      \* the last load or store that was let through, or NULL
  rc           \* outcome of the last API call

loadVars == <<code, i, heads>>
execVars == <<pc, mem, access>>
vmVars == <<live, ext_funcs, unwind, bounds_check_enabled>>
codeVars == <<insts, num_insts, jitted>>
vars == <<vmVars, codeVars, mode, loadVars, execVars, rc>>

(***************************************************************************)
(* "idle": the host is between calls.  "wild": an instruction was fetched  *)
(* from outside vm->insts, and nothing is claimed of what follows.         *)
(* "crash": the process died of a signal.  "smashed": a store overwrote    *)
(* something Vital, and nothing is claimed of what follows either.         *)
(***************************************************************************)
Modes == {"idle", "validate", "exec", "wild", "crash", "smashed"}
Outcomes == {"ok", "error", "rejected", "oom"}

Table == [0 .. MaxExtFuncs - 1 -> Funcs \cup {NULL}]
Jitted == [code : Programs, table : Table, unwind : -1 .. MaxExtFuncs]
Access == [addr : Addrs, size : AccessSizes]

TypeOK ==
  /\ live \in BOOLEAN
  /\ ext_funcs \in Table
  /\ unwind \in -1 .. MaxExtFuncs
  /\ bounds_check_enabled \in BOOLEAN
  /\ insts \in Programs \cup {NULL}
  /\ num_insts \in 0 .. PcMod - 1
  /\ jitted \in Jitted \cup {NULL}
  /\ mode \in Modes
  /\ code \in Programs \cup {NULL}
  /\ i \in Nat
  /\ heads \in SUBSET Nat
  /\ pc \in 0 .. PcMod - 1
  /\ mem \in BOOLEAN
  /\ access \in Access \cup {NULL}
  /\ rc \in Outcomes

EmptyTable == [k \in 0 .. MaxExtFuncs - 1 |-> NULL]

(* No ubpf_vm has been created yet. *)
Init ==
  /\ live = FALSE
  /\ ext_funcs = EmptyTable
  /\ unwind = -1
  /\ bounds_check_enabled = FALSE
  /\ insts = NULL /\ num_insts = 0 /\ jitted = NULL
  /\ mode = "idle"
  /\ code = NULL /\ i = 0 /\ heads = {}
  /\ pc = 0 /\ mem = FALSE /\ access = NULL
  /\ rc = "ok"

-----------------------------------------------------------------------------
(* The vm object. *)

Idle == live /\ mode = "idle"

(* ubpf_create, when its three callocs succeed *)
Create ==
  /\ ~live /\ mode = "idle"
  /\ live' = TRUE
  /\ ext_funcs' = EmptyTable
  /\ bounds_check_enabled' = FALSE
  /\ unwind' = -1
  /\ rc' = "ok"
  /\ UNCHANGED <<codeVars, mode, loadVars, execVars>>

(***************************************************************************)
(* One of the callocs fails: ubpf_destroy on the partly built vm, whose    *)
(* other fields are still zero, and NULL to the host.                      *)
(***************************************************************************)
CreateFails ==
  /\ ~live /\ mode = "idle"
  /\ rc' = "oom"
  /\ UNCHANGED <<vmVars, codeVars, mode, loadVars, execVars>>

(* Mutant of DropCode: the machine code survives the bytecode. *)
DropCodeKeepJitted ==
  /\ insts' = NULL
  /\ num_insts' = 0
  /\ heads' = {}
  /\ UNCHANGED jitted

(* The effect of ubpf_unload_code on the vm. *)
DropCode ==
  /\ insts' = NULL
  /\ num_insts' = 0
  /\ jitted' = NULL
  /\ heads' = {}

Unload ==
  /\ Idle
  /\ DropCode
  /\ rc' = "ok"
  /\ UNCHANGED <<vmVars, mode, code, i, execVars>>

(* ubpf_destroy *)
Destroy ==
  /\ Idle
  /\ DropCode
  /\ live' = FALSE
  /\ rc' = "ok"
  /\ UNCHANGED <<ext_funcs, unwind, bounds_check_enabled, mode, code, i, execVars>>

(* Mutant of Register: idx > MAX_EXT_FUNCS writes one past the table. *)
RegisterOffByOne(idx, fn) ==
  /\ Idle
  /\ IF idx > MaxExtFuncs
     THEN rc' = "error" /\ UNCHANGED ext_funcs
     ELSE /\ rc' = "ok"
          /\ ext_funcs' = [k \in DOMAIN ext_funcs \cup {idx} |->
                            IF k = idx THEN fn ELSE ext_funcs[k]]
  /\ UNCHANGED <<live, unwind, bounds_check_enabled, codeVars, mode, loadVars, execVars>>

(* ubpf_register; an index outside the table is refused *)
Register(idx, fn) ==
  /\ Idle
  /\ IF idx >= MaxExtFuncs
     THEN rc' = "error" /\ UNCHANGED ext_funcs
     ELSE rc' = "ok" /\ ext_funcs' = [ext_funcs EXCEPT ![idx] = fn]
  /\ UNCHANGED <<live, unwind, bounds_check_enabled, codeVars, mode, loadVars, execVars>>

(* ubpf_set_unwind_function_index: once set it stays *)
SetUnwind(idx) ==
  /\ Idle
  /\ IF unwind # -1
     THEN rc' = "error" /\ UNCHANGED unwind
     ELSE rc' = "ok" /\ unwind' = idx
  /\ UNCHANGED <<live, ext_funcs, bounds_check_enabled, codeVars, mode, loadVars, execVars>>

(* ubpf_toggle_bounds_check *)
ToggleBoundsCheck(enable) ==
  /\ Idle
  /\ bounds_check_enabled' = enable
  /\ rc' = "ok"
  /\ UNCHANGED <<live, ext_funcs, unwind, codeVars, mode, loadVars, execVars>>

-----------------------------------------------------------------------------
(* ubpf_load and validate. *)

(* Code is loaded already, or code_len is no multiple of 8. *)
LoadRefused ==
  /\ Idle
  /\ rc' = "error"
  /\ UNCHANGED <<vmVars, codeVars, mode, loadVars, execVars>>

(* Mutant of LoadCall: the code is copied into the vm before it is checked. *)
LoadCallCopyFirst(prog) ==
  /\ Idle /\ insts = NULL
  /\ IF Len(prog) >= MaxInsts
     THEN rc' = "rejected" /\ UNCHANGED <<mode, loadVars, insts, num_insts>>
     ELSE /\ rc' = "ok" /\ mode' = "validate"
          /\ code' = prog /\ i' = 0 /\ heads' = {}
          /\ insts' = prog /\ num_insts' = Len(prog)
  /\ UNCHANGED <<vmVars, jitted, execVars>>

(* A load that gets as far as validate, whose first test is the length. *)
LoadCall(prog) ==
  /\ Idle /\ insts = NULL
  /\ IF Len(prog) >= MaxInsts
     THEN rc' = "rejected" /\ UNCHANGED <<mode, loadVars>>
     ELSE /\ rc' = "ok" /\ mode' = "validate"
          /\ code' = prog /\ i' = 0 /\ heads' = {}
  /\ UNCHANGED <<vmVars, codeVars, execVars>>

(* Mutant of ValidateAccept: the loop goes on without its i++. *)
ValidateAcceptStuck ==
  /\ mode = "validate" /\ i < Len(code)
  /\ InstOk(code, i, ext_funcs)
  /\ heads' = heads \cup {i}
  /\ i' = i + Width(code[i + 1]) - 1
  /\ UNCHANGED <<vmVars, codeVars, mode, code, execVars, rc>>

(* One iteration of validate that finds nothing wrong. *)
ValidateAccept ==
  /\ mode = "validate" /\ i < Len(code)
  /\ InstOk(code, i, ext_funcs)
  /\ heads' = heads \cup {i}
  /\ i' = i + Width(code[i + 1])
  /\ UNCHANGED <<vmVars, codeVars, mode, code, execVars, rc>>

(* One iteration that sets *errmsg and returns false. *)
ValidateReject ==
  /\ mode = "validate" /\ i < Len(code)
  /\ ~InstOk(code, i, ext_funcs)
  /\ mode' = "idle" /\ rc' = "rejected"
  /\ code' = NULL /\ i' = 0 /\ heads' = {}
  /\ UNCHANGED <<vmVars, codeVars, execVars>>

(* The rest of ubpf_load: vm->insts = malloc(code_len), memcpy, num_insts *)
LoadDone ==
  /\ mode = "validate" /\ i >= Len(code)
  /\ insts' = code
  /\ num_insts' = Len(code) % PcMod
  /\ mode' = "idle" /\ rc' = "ok"
  /\ code' = NULL /\ i' = 0
  /\ UNCHANGED <<vmVars, jitted, heads, execVars>>

(* ... or "out of memory" *)
LoadNoMemory ==
  /\ mode = "validate" /\ i >= Len(code)
  /\ mode' = "idle" /\ rc' = "oom"
  /\ code' = NULL /\ i' = 0 /\ heads' = {}
  /\ UNCHANGED <<vmVars, codeVars, execVars>>

-----------------------------------------------------------------------------
(* ubpf_compile. *)

(* vm->jitted is a cache: a second call returns it without a translation *)
CompileCached ==
  /\ Idle /\ jitted # NULL
  /\ rc' = "ok"
  /\ UNCHANGED <<vmVars, codeVars, mode, loadVars, execVars>>

Compile ==
  /\ Idle /\ jitted = NULL /\ insts # NULL
  /\ jitted' = [code |-> insts, table |-> ext_funcs, unwind |-> unwind]
  /\ rc' = "ok"
  /\ UNCHANGED <<vmVars, insts, num_insts, mode, loadVars, execVars>>

(* No code, a failed translation, mmap or mprotect: NULL and a message *)
CompileFails ==
  /\ Idle /\ jitted = NULL
  /\ rc' = "error"
  /\ UNCHANGED <<vmVars, codeVars, mode, loadVars, execVars>>

(* calloc of the 64 KB buffer is not checked; the translator writes to it *)
CompileNoBuffer ==
  /\ Idle /\ jitted = NULL /\ insts # NULL
  /\ mode' = "crash" /\ rc' = "oom"
  /\ UNCHANGED <<vmVars, codeVars, loadVars, execVars>>

-----------------------------------------------------------------------------
(* ubpf_exec. *)

ExecCall(has_mem) ==
  /\ Idle
  /\ IF insts = NULL
     THEN rc' = "error" /\ UNCHANGED <<mode, execVars>>
     ELSE /\ mode' = "exec" /\ rc' = "ok"
          /\ pc' = 0 /\ mem' = has_mem /\ access' = NULL
  /\ UNCHANGED <<vmVars, codeVars, loadVars>>

Fetching == mode = "exec" /\ pc < num_insts
Cur == insts[pc + 1]

(* pc is a uint16_t: pc++ and pc += inst.offset wrap *)
Goto(slot) ==
  /\ pc' = slot % PcMod
  /\ UNCHANGED <<mode, rc>>

Return(outcome) ==
  /\ mode' = "idle" /\ rc' = outcome
  /\ UNCHANGED pc

(***************************************************************************)
(* Arithmetic, moves, byte swaps and lddw, which reads the next slot too;  *)
(* an opcode without a case in the switch does nothing.                    *)
(***************************************************************************)
StepAlu ==
  /\ Fetching
  /\ Cur.op \in {"alu", "endian", "div_imm", "lddw", "zero", "unknown"}
  /\ Goto(pc + Width(Cur))
  /\ UNCHANGED <<vmVars, codeVars, loadVars, mem, access>>

(* A zero divisor ends the run with -1. *)
StepDivReg ==
  /\ Fetching
  /\ Cur.op \in {"div32_reg", "div64_reg"}
  /\ Goto(pc + 1) \/ Return("error")
  /\ UNCHANGED <<vmVars, codeVars, loadVars, mem, access>>

(***************************************************************************)
(* The 32-bit forms test reg[src] == 0 on 64 bits and divide by            *)
(* u32(reg[src]): a divisor whose low half is zero is a SIGFPE.            *)
(***************************************************************************)
StepDiv32LowHalfZero ==
  /\ Fetching
  /\ Cur.op = "div32_reg"
  /\ mode' = "crash"
  /\ UNCHANGED <<vmVars, codeVars, loadVars, execVars, rc>>

(* Mutant of StepJump: relative to the jump, not to the next instruction. *)
StepJumpFromSelf ==
  /\ Fetching
  /\ \/ Cur.op \in Jumps /\ Goto(pc + Cur.offset)
     \/ Cur.op = "jcc" /\ Goto(pc + 1)
  /\ UNCHANGED <<vmVars, codeVars, loadVars, mem, access>>

StepJump ==
  /\ Fetching
  /\ \/ Cur.op \in Jumps /\ Goto(pc + 1 + Cur.offset)
     \/ Cur.op = "jcc" /\ Goto(pc + 1)
  /\ UNCHANGED <<vmVars, codeVars, loadVars, mem, access>>

(* Mutant of InRegion: the end is allowed to be one byte too far. *)
InRegionOffByOne(addr, size, base, len) ==
  addr >= base /\ (addr + size) % AddrMod <= base + len + 1

(* addr >= base && addr + size <= base + len, on addresses that wrap *)
InRegion(addr, size, base, len) ==
  addr >= base /\ (addr + size) % AddrMod <= base + len

(* bounds_check *)
BoundsCheck(addr, size) ==
  \/ ~bounds_check_enabled
  \/ mem /\ InRegion(addr, size, Mem, MemLen)
  \/ InRegion(addr, size, Stack, StackSize)

(* The addresses of an access; after the last of all comes 0 again. *)
Touched(addr, size) == {a % AddrMod : a \in Bytes(addr, size)}

Mapped(op, addr, size) ==
  Touched(addr, size) \subseteq (IF op = "ldx" THEN Readable ELSE Writable)

(* The process goes on as before after this load or store. *)
Harmless(op, addr, size) ==
  /\ Mapped(op, addr, size)
  /\ op = "store" => Touched(addr, size) \cap Vital = {}

(* The dereference: what was let through is not what the process survives. *)
CarryOut(addr, size) ==
  /\ access' = [addr |-> addr, size |-> size]
  /\ \/ Harmless(Cur.op, addr, size) /\ Goto(pc + 1)
     \/ /\ ~Mapped(Cur.op, addr, size)
        /\ mode' = "crash" /\ UNCHANGED <<pc, rc>>
     \/ /\ Mapped(Cur.op, addr, size) /\ ~Harmless(Cur.op, addr, size)
        /\ mode' = "smashed" /\ UNCHANGED <<pc, rc>>

StepMemory(addr, size) ==
  /\ Fetching
  /\ Cur.op \in {"ldx", "store"}
  /\ IF BoundsCheck(addr, size)
     THEN CarryOut(addr, size)
     ELSE Return("error") /\ UNCHANGED access
  /\ UNCHANGED <<vmVars, codeVars, loadVars, mem>>

(***************************************************************************)
(* The call returns; if it is the unwind helper and returned 0, so do we.  *)
(* Calling through a null entry of the table is a SIGSEGV.                 *)
(***************************************************************************)
StepCall ==
  /\ Fetching
  /\ Cur.op = "call"
  /\ IF ext_funcs[Cur.imm] = NULL
     THEN mode' = "crash" /\ UNCHANGED <<pc, rc>>
     ELSE Goto(pc + 1) \/ (Cur.imm = unwind /\ Return("ok"))
  /\ UNCHANGED <<vmVars, codeVars, loadVars, mem, access>>

StepExit ==
  /\ Fetching
  /\ Cur.op = "exit"
  /\ Return("ok")
  /\ UNCHANGED <<vmVars, codeVars, loadVars, mem, access>>

(* The loop does not compare pc with num_insts: it reads past the array. *)
FetchPastEnd ==
  /\ mode = "exec" /\ pc >= num_insts
  /\ mode' = "wild"
  /\ UNCHANGED <<vmVars, codeVars, loadVars, execVars, rc>>

-----------------------------------------------------------------------------

(* The process is gone, or runs something this module does not describe. *)
Ended == mode \in {"wild", "crash", "smashed"} /\ UNCHANGED vars

Object ==
  \/ Create \/ CreateFails \/ Unload \/ Destroy
  \/ \E idx \in 0 .. MaxExtFuncs, fn \in Funcs : Register(idx, fn)
  \/ \E idx \in 0 .. MaxExtFuncs : SetUnwind(idx)
  \/ \E enable \in BOOLEAN : ToggleBoundsCheck(enable)

LoadStep == ValidateAccept \/ ValidateReject \/ LoadDone \/ LoadNoMemory

Load ==
  \/ LoadRefused
  \/ \E prog \in Programs : LoadCall(prog)
  \/ LoadStep

Jit == CompileCached \/ Compile \/ CompileFails \/ CompileNoBuffer

ExecStep ==
  \/ StepAlu \/ StepDivReg \/ StepDiv32LowHalfZero \/ StepJump
  \/ \E addr \in Addrs, size \in AccessSizes : StepMemory(addr, size)
  \/ StepCall \/ StepExit \/ FetchPastEnd

Next ==
  \/ Object \/ Load \/ Jit
  \/ \E has_mem \in BOOLEAN : ExecCall(has_mem)
  \/ ExecStep
  \/ Ended

Spec == Init /\ [][Next]_vars

(***************************************************************************)
(* Both loops run in the host's thread and wait for nothing, once a helper *)
(* called by the bytecode has returned: the thread is scheduled again.     *)
(* Nothing obliges the host to make a further call.                        *)
(***************************************************************************)
FairSpec == Spec /\ WF_vars(LoadStep) /\ WF_vars(ExecStep)

-----------------------------------------------------------------------------
(* Properties. *)

(***************************************************************************)
(* The one-pass scan of validate, which looks at a jump target only as "in *)
(* range and opcode not 0" and skips the second half of an lddw, is sound: *)
(* whatever is installed satisfies the declarative reading of safe code,   *)
(* also after functions were registered or replaced since.                 *)
(***************************************************************************)
AcceptedIsSafe == insts # NULL => SafeCode(insts, ext_funcs)

(* The scan is also complete: it turns away no code that is safe. *)
RejectedIsUnsafe ==
  [][mode = "validate" /\ mode' = "idle" /\ rc' = "rejected" =>
       ~SafeCode(code, ext_funcs)]_vars

(***************************************************************************)
(* ubpf_exec compares pc with nothing and switches on whatever it fetches. *)
(* Its 16-bit pc is nevertheless always at an instruction of the loaded    *)
(* code or exactly one past its end, and it gets past the end only if the  *)
(* code does not end in an exit or a jump.                                 *)
(***************************************************************************)
NoWildFetch ==
  /\ mode = "exec" => \/ pc = num_insts
                      \/ pc < num_insts /\ Cur.op \notin {"zero", "unknown"}
  /\ mode = "wild" => ~EndsWell(insts)

(***************************************************************************)
(* The interpreter never calls through an empty table entry.  It takes the *)
(* process down in two places only, and pc tells which: a 32-bit division  *)
(* by a register, whose test and whose divisor differ in width, and a bad  *)
(* load or store.  The latter needs the check to be off, as ubpf_create    *)
(* leaves it, or an access whose end wraps round the address space.        *)
(* ("oom": ubpf_compile's own buffer.)                                     *)
(***************************************************************************)
Explained ==
  \/ mode = "crash" /\ Cur.op = "div32_reg"
  \/ /\ Cur.op \in {"ldx", "store"} /\ access \in Access
     /\ ~Harmless(Cur.op, access.addr, access.size)
     /\ bounds_check_enabled => access.addr + access.size >= AddrMod

CrashesAreExplained ==
  mode \in {"crash", "smashed"} /\ rc # "oom" => Explained

(***************************************************************************)
(* The cached machine code is that of the loaded bytecode, across any      *)
(* order of load, unload and compile, and its copy of the function table   *)
(* has an entry for each call in it.                                       *)
(***************************************************************************)
JitIsCurrent ==
  jitted # NULL => jitted.code = insts /\ SafeCode(insts, jitted.table)

(***************************************************************************)
(* With the check on, every byte of a load or store that was let through   *)
(* belongs to the context or to the interpreter's stack.  An access whose  *)
(* end wraps round the address space is not claimed: bounds_check compares *)
(* the wrapped sum.                                                        *)
(***************************************************************************)
AccessInBounds ==
  mode = "exec" /\ bounds_check_enabled /\ access # NULL
    /\ access.addr + access.size < AddrMod =>
      \/ mem /\ Bytes(access.addr, access.size) \subseteq Bytes(Mem, MemLen)
      \/ Bytes(access.addr, access.size) \subseteq Bytes(Stack, StackSize)

(* Every ubpf_load returns. *)
LoadTerminates == mode = "validate" ~> mode = "idle"

(***************************************************************************)
(* The offset test of validate stops only the tightest loop; what is sure  *)
(* is that code without a backward jump cannot keep ubpf_exec busy for     *)
(* ever.                                                                   *)
(***************************************************************************)
ForwardCodeTerminates ==
  mode = "exec" /\ ForwardOnly(insts) ~> mode # "exec"

(* vm/inc/ubpf.h: "Bounds check is enabled by default". *)
BoundsCheckOnByDefault == [][~live /\ live' => bounds_check_enabled']_vars

-----------------------------------------------------------------------------
(* Refinement. *)

(* A load or store of prog can be let through and be a bad one. *)
MayFault(prog, checked) ==
  \E k \in 1 .. Len(prog), addr \in Addrs, size \in AccessSizes :
    /\ prog[k].op \in {"ldx", "store"}
    /\ ~Harmless(prog[k].op, addr, size)
    /\ checked => addr + size >= AddrMod

(***************************************************************************)
(* Code that may run off its end, divide by a 32-bit register, or make a   *)
(* bad access; checked says whether the bounds check is on.                *)
(***************************************************************************)
MayBeLost(prog, checked) ==
  ~EndsWell(prog) \/ HasDiv32Reg(prog) \/ MayFault(prog, checked)

Vm == INSTANCE VmContract WITH
  prog <- insts,
  table <- ext_funcs,
  checked <- bounds_check_enabled,
  status <- IF mode \in {"wild", "crash", "smashed"} THEN "halted"
            ELSE IF mode = "exec" THEN "running"
            ELSE IF live THEN "ready" ELSE "none",
  Indices <- 0 .. MaxExtFuncs - 1,
  Safe <- SafeCode

(***************************************************************************)
(* The vm implements VmContract: a load is one step, whatever its scan     *)
(* does in between, the code a run started with is the code it ends with,  *)
(* and the process is lost only to code that may do so.                    *)
(***************************************************************************)
VmKeepsContract == Vm!Contract
=============================================================================
