-------------------------------- MODULE UbpfJit --------------------------------
(***************************************************************************)
(* A program is translated by the x86-64 or the arm64 translator of ubpf   *)
(* (vm/ubpf_jit_x86_64.c, vm/ubpf_jit_arm64.c) into a buffer of some size, *)
(* then run both by ubpf_exec and as native code from the same registers   *)
(* and memory.                                                             *)
(*                                                                         *)
(* The buffer is a function from the offset of an instruction to the       *)
(* instruction; an offset inside one is outside its domain, so a wrong     *)
(* jump distance leaves the code.                                          *)
(***************************************************************************)
EXTENDS EbpfMachine, HostCpu

CONSTANTS
  MaxInsts,     \* UBPF_MAX_INSTS
  MaxExtFuncs,  \* MAX_EXT_FUNCS
  StackSize,    \* UBPF_STACK_SIZE
  Imm12, Imm9,  \* limits of arm64 immediates
  StackTop,     \* address one past the eBPF stack
  StringLen,    \* strlen(ubpf_string_table[0]) + 1
  Arity,        \* how many arguments each registered function takes
  Cases,        \* the programs, each with an arch, a register offset and a buffer size
  Values        \* pairs of values that registers hold at first

X86 == INSTANCE JitX86 WITH UnwindIndex <- Unwind
Arm == INSTANCE JitArm64 WITH UnwindIndex <- Unwind
Ebpf == INSTANCE EbpfIsa WITH NULL <- "null"

Code(prog) == [k \in 1 .. Len(prog) |-> Grouped(prog[k])]
Table == [k \in 0 .. MaxExtFuncs - 1 |-> "function"]

Valid(prog) ==
  Len(prog) < MaxInsts /\ Ebpf!SafeCode(Code(prog), Table) /\ Ebpf!EndsWell(Code(prog))

(***************************************************************************)
(* Programs are loaded code that does not run off its end.  A buffer is at *)
(* least as long as the longest single emission, so that size - len in     *)
(* emit_bytes does not wrap.                                               *)
(***************************************************************************)
ASSUME CasesAssumption ==
  \A case \in Cases :
    /\ case.prog \in Seq(Slots) /\ Valid(case.prog)
    /\ case.arch \in {"x86_64", "arm64"} /\ case.size \in Nat /\ case.size >= 16
    /\ case.offset \in 0 .. 10

ASSUME LimitsAssumption ==
  MaxInsts \in Nat \ {0} /\ MaxExtFuncs \in Nat \ {0} /\ StringLen \in Nat \ {0}

VARIABLES
  case,    \* the program, arch, register offset and size
  state,   \* struct jit_state
  queue,   \* what translate has still to emit before it goes on
  phase,   \* how far ubpf_translate and then the two runs have come
  i,       \* the index in the loop of translate
  m,       \* ubpf_exec
  c,       \* the processor running translated code
  host,    \* the registers the caller had
  differs  \* ubpf_exec met an instruction whose translation is known to differ

vars == <<case, state, queue, phase, i, m, c, host, differs>>

x86 == case.arch = "x86_64"
map == IF x86 THEN X86!RegisterMap(case.offset) ELSE Arm!Arm64Map
Sp == IF x86 THEN X86!RSP ELSE Arm!SP

(* Where an instruction notes its jump or string, and what it counts from. *)
JumpLoc(start, len) ==
  IF x86 THEN X86!emit_jump_offset(start, len) ELSE Arm!note_jump(start, len)
StringLoc(start, len) ==
  IF x86 THEN X86!string_offset_loc(start, len) ELSE Arm!string_offset_loc(start, len)
JumpRel(target_loc, loc) ==
  IF x86 THEN X86!jump_rel(target_loc, loc) ELSE Arm!jump_rel(target_loc, loc)
StringRel(string_loc, loc) ==
  IF x86 THEN X86!string_rel(string_loc, loc) ELSE Arm!string_rel(string_loc, loc)
Base(start, len) == IF x86 THEN X86!Base(start, len) ELSE Arm!Base(start, len)

-----------------------------------------------------------------------------
(* Translation. *)

NewState == [offset |-> 0, code |-> <<>>, jumps |-> <<>>, strings |-> <<>>,
             pc_locs |-> [k \in 0 .. MaxInsts |-> 0], exit_loc |-> 0,
             div_by_zero_loc |-> 0, string_table_loc |-> 0]

IsJump(ins) == ins.op \in {"jmp", "jcc"}

(* The assertion in emit_bytes stops the process. *)
Full(len) == state.offset + len > case.size

(* Mutant of Noted: the table of jumps holds one less. *)
NotedLess(ins) == IsJump(ins) /\ Len(state.jumps) < MaxInsts - 1

(* emit_jump_offset, note_jump: a full table drops the jump. *)
Noted(ins) == IsJump(ins) /\ ins.to # Nothing /\ Len(state.jumps) < MaxInsts

Placed(code, start, ins) ==
  [l \in DOMAIN code \cup {start} |-> IF l = start THEN ins ELSE code[l]]

(* One host instruction; a dropped x86-64 jump lacks its last four bytes. *)
Emit ==
  /\ queue # <<>> /\ phase # "aborted"
  /\ LET ins == Head(queue)
         start == state.offset
         len == IF IsJump(ins) /\ ~Noted(ins) /\ x86 THEN ins.len - 4 ELSE ins.len
     IN IF Full(len)
        THEN phase' = "aborted" /\ UNCHANGED <<state, queue>>
        ELSE /\ state' = [state EXCEPT
                  !.offset = @ + len,
                  !.code = Placed(@, start, [ins EXCEPT !.len = len]),
                  !.jumps = IF Noted(ins) THEN Append(@, [offset_loc |-> JumpLoc(start, len), target_pc |-> ins.to]) ELSE @,
                  !.strings = IF ins.op = "adr" THEN Append(@, [offset_loc |-> StringLoc(start, len), string_id |-> ins.to]) ELSE @]
             /\ queue' = Tail(queue)
             /\ UNCHANGED phase
  /\ UNCHANGED <<case, i, m, c, host, differs>>

Prologue ==
  /\ phase = "start"
  /\ queue' = IF x86 THEN X86!X86Prologue(map) ELSE Arm!Arm64Prologue
  /\ phase' = "insts"
  /\ UNCHANGED <<case, state, i, m, c, host, differs>>

(* One turn of the loop; an lddw takes two slots and locates the first. *)
TranslateInst ==
  /\ phase = "insts" /\ queue = <<>> /\ i < Len(case.prog)
  /\ state' = [state EXCEPT !.pc_locs[i] = state.offset]
  /\ queue' = IF x86 THEN X86!X86Inst(case.prog, i, map) ELSE Arm!Arm64Inst(case.prog, i)
  /\ i' = i + Ebpf!Width(Grouped(case.prog[i + 1]))
  /\ UNCHANGED <<case, phase, m, c, host, differs>>

Epilogue ==
  /\ phase = "insts" /\ queue = <<>> /\ i >= Len(case.prog)
  /\ state' = [state EXCEPT !.exit_loc = state.offset]
  /\ queue' = IF x86 THEN X86!X86Epilogue(map) ELSE Arm!Arm64Epilogue
  /\ phase' = "handler"
  /\ UNCHANGED <<case, i, m, c, host, differs>>

DivByZeroHandler ==
  /\ phase = "handler" /\ queue = <<>>
  /\ state' = [state EXCEPT !.div_by_zero_loc = state.offset]
  /\ queue' = IF x86 THEN X86!X86DivByZero(map) ELSE Arm!Arm64DivByZero
  /\ phase' = "string_table"
  /\ UNCHANGED <<case, i, m, c, host, differs>>

StringTable ==
  /\ phase = "string_table" /\ queue = <<>>
  /\ IF Full(StringLen)
     THEN phase' = "aborted" /\ UNCHANGED state
     ELSE /\ phase' = "limits"
          /\ state' = [state EXCEPT !.string_table_loc = state.offset, !.offset = @ + StringLen]
  /\ UNCHANGED <<case, queue, i, m, c, host, differs>>

(* "Excessive number of jump targets", "Target buffer too small" *)
AtLimit ==
  Len(state.jumps) = MaxInsts \/ Len(state.strings) = MaxInsts \/ state.offset = case.size

CheckLimits ==
  /\ phase = "limits"
  /\ phase' = IF AtLimit THEN "refused" ELSE "jumps"
  /\ UNCHANGED <<case, state, queue, i, m, c, host, differs>>

TargetLoc(target_pc) ==
  CASE target_pc = TARGET_PC_EXIT -> state.exit_loc
    [] target_pc = TARGET_PC_DIV_BY_ZERO -> state.div_by_zero_loc
    [] target_pc >= 0 -> state.pc_locs[target_pc]

(* The distance is written into the instruction that starts at start. *)
Patched(start, rel) ==
  [state.code EXCEPT ![start].rel = rel, ![start].to = Nothing]

(* One turn of the loop of resolve_jumps. *)
ResolveJump ==
  /\ phase = "jumps" /\ state.jumps # <<>>
  /\ LET jump == Head(state.jumps)
         rel == JumpRel(TargetLoc(jump.target_pc), jump.offset_loc)
         start == CHOOSE l \in DOMAIN state.code : JumpLoc(l, state.code[l].len) = jump.offset_loc
     IN state' = [state EXCEPT !.code = Patched(start, rel), !.jumps = Tail(@)]
  /\ UNCHANGED <<case, phase, queue, i, m, c, host, differs>>

(* resolve_strings: the only reference is to string 0, at the start of the table. *)
ResolveString ==
  /\ phase = "jumps" /\ state.jumps = <<>> /\ state.strings # <<>>
  /\ LET string == Head(state.strings)
         rel == StringRel(state.string_table_loc, string.offset_loc)
         start == CHOOSE l \in DOMAIN state.code : StringLoc(l, state.code[l].len) = string.offset_loc
     IN state' = [state EXCEPT !.code = Patched(start, rel), !.strings = Tail(@)]
  /\ phase' = "accepted"
  /\ UNCHANGED <<case, queue, i, m, c, host, differs>>

-----------------------------------------------------------------------------
(* The two runs. *)

Param(k) == IF x86 THEN X86!platform_parameter_registers[k] ELSE k - 1
CallerSaved == IF x86 THEN {0, 1, 2, 6, 7, 8, 9, 10, 11} ELSE 0 .. 18 \cup {Arm!LR}
CalleeSaved == IF x86 THEN {3, 5, 12, 13, 14, 15} ELSE 19 .. 29

(* x86-64: RSP after the call instruction; five registers are pushed below. *)
EntrySp == IF x86 THEN StackTop + 40 ELSE StackTop

(***************************************************************************)
(* The caller passes a first argument.  ubpf_exec leaves other registers   *)
(* uninitialised: they hold what the host registers they map to hold.      *)
(***************************************************************************)
Enter ==
  /\ phase = "accepted"
  /\ \E v \in Values :
       host' = [x \in 0 .. 31 |->
                  CASE x = Sp -> EntrySp
                    [] x # Sp /\ (x = Param(1) \/ x = map[0] \/ x = map[6]) -> v[1]
                    [] OTHER -> v[2]]
  /\ m' = [reg |-> [r \in 0 .. 10 |->
                      CASE r = 1 -> host'[Param(1)] [] r = 10 -> StackTop [] OTHER -> host'[map[r]]],
           mem |-> <<>>, pc |-> 0, status |-> "run", calls |-> <<>>]
  /\ c' = [r |-> host', fl |-> <<0, 0>>, mem |-> <<>>, ip |-> 0, status |-> "run", calls |-> <<>>]
  /\ phase' = "running"
  /\ UNCHANGED <<case, state, queue, i, differs>>

(***************************************************************************)
(* Where the translations are known to compute something else than         *)
(* ubpf_exec, told by the instruction and the registers it meets.          *)
(***************************************************************************)
X86Differs(inst, reg) ==
  LET a == reg[inst.dst]
      b == Operand(inst, reg)
  IN \/ inst.f = "mov" /\ inst.k = "reg" /\ inst.w = 32 /\ b >= Mod(32)
     \/ inst.f \in {"div", "mod"} /\ inst.k = "imm" /\ U(inst.w, reg[inst.src]) = 0
     \/ inst.f = "mul" /\ inst.k = "imm" /\ inst.imm = 0
     \/ inst.f \in {"mul", "div", "mod"} /\ inst.k = "reg" /\ inst.imm # 0
     \/ inst.f = "lsh" /\ inst.w = 32 /\ b >= Bits(32)
     \/ inst.f = "le" /\ inst.op = "endian" /\ a >= Mod(inst.imm)
     \/ inst.op = "jcc" /\ inst.f \in {"gt", "ge", "lt", "le"} /\ inst.k = "imm" /\ inst.imm < 0

ArmDiffers(inst, reg) ==
  LET a == reg[inst.dst]
      b == Operand(inst, reg)
  IN \/ inst.op = "neg" /\ reg[inst.src] # a
     \/ inst.f = "lsh" /\ inst.w = 32 /\ b >= Bits(32)
     \/ inst.f = "le" /\ inst.op = "endian" /\ inst.imm = 32 /\ a >= Mod(32)
     \/ inst.op = "jcc" /\ inst.f \in {"gt", "ge", "lt", "le"} /\ inst.k = "imm" /\ inst.imm < 0
     \/ inst.op = "st" /\ inst.w = 64 /\ inst.imm < 0

(* ubpf_exec goes first and runs to its end. *)
InterpStep ==
  /\ phase = "running" /\ m.status = "run"
  /\ m' \in ExecSteps(m, case.prog)
  /\ LET inst == case.prog[m.pc + 1]
     IN differs' = (differs \/ m'.status = "undef"
                      \/ (IF x86 THEN X86Differs(inst, m.reg) ELSE ArmDiffers(inst, m.reg)))
  /\ UNCHANGED <<case, state, queue, phase, i, c, host>>

Native == phase = "running" /\ m.status # "run" /\ c.status = "run" /\ c.ip \in DOMAIN state.code
At == state.code[c.ip]

NativeStep ==
  /\ Native /\ At.op \notin {"call", "ret"}
  /\ c' = CpuStep(c, At, Base(c.ip, At.len), Sp, X86!RAX, X86!RDX)
  /\ UNCHANGED <<case, state, queue, phase, i, m, host, differs>>

(***************************************************************************)
(* The function called returns what it returned to ubpf_exec and leaves    *)
(* junk in the registers a callee may use.                                 *)
(***************************************************************************)
NativeCall ==
  /\ Native /\ At.op = "call"
  /\ LET k == Len(c.calls) + 1
         fn == c.r[At.n]
         result == IF k <= Len(m.calls) THEN m.calls[k].result ELSE 0
         string == IF c.r[Param(2)] = state.string_table_loc THEN 0 ELSE Junk
         args == IF fn = ErrorPrintf THEN <<string, c.r[Param(3)]>>
                                     ELSE [p \in 1 .. 5 |-> c.r[Param(p)]]
     IN c' = [c EXCEPT
                !.calls = Append(@, Called(IF fn = ErrorPrintf THEN ErrorPrintfFn ELSE fn - ExtFunc(0), args, result)),
                !.r = [x \in 0 .. 31 |-> IF x = 0 THEN result ELSE IF x \in CallerSaved THEN Junk ELSE @[x]],
                !.ip = @ + At.len]
  /\ UNCHANGED <<case, state, queue, phase, i, m, host, differs>>

NativeRet ==
  /\ Native /\ At.op = "ret"
  /\ c' = [c EXCEPT !.status = "ret"]
  /\ UNCHANGED <<case, state, queue, phase, i, m, host, differs>>

-----------------------------------------------------------------------------
NotYet == [status |-> "none"]

Init ==
  /\ case \in Cases
  /\ state = NewState
  /\ queue = <<>>
  /\ phase = "start"
  /\ i = 0
  /\ m = NotYet /\ c = NotYet
  /\ host = <<>>
  /\ differs = FALSE

Next ==
  \/ Prologue \/ TranslateInst \/ Epilogue \/ DivByZeroHandler \/ Emit \/ StringTable
  \/ CheckLimits \/ ResolveJump \/ ResolveString
  \/ Enter \/ InterpStep \/ NativeStep \/ NativeCall \/ NativeRet

Spec == Init /\ [][Next]_vars /\ WF_vars(Next)

-----------------------------------------------------------------------------
(* Properties. *)

Running == phase = "running" /\ m.status # "run"
Comparable == Running /\ ~differs

(* Where the program may write: its stack. *)
StackBytes == StackTop - StackSize .. StackTop - 1

SameCalls ==
  \A k \in 1 .. Len(m.calls) \cup 1 .. Len(c.calls) :
    /\ k <= Len(m.calls) /\ k <= Len(c.calls)
    /\ m.calls[k].fn = c.calls[k].fn
    /\ LET arity == IF m.calls[k].fn = ErrorPrintfFn THEN 2 ELSE Arity[m.calls[k].fn]
       IN \A p \in 1 .. arity : m.calls[k].args[p] = c.calls[k].args[p]

Result == IF m.status = "exit" THEN m.reg[0] ELSE U(64, -1)

(***************************************************************************)
(* JitAgrees: native code that reaches its epilogue has made the calls     *)
(* that ubpf_exec made, with the same arguments and in the same order (a   *)
(* division by zero is reported with its string and its pc), has written   *)
(* the same stack, and holds the result in r0 and, unless it failed, the   *)
(* same values in the registers a call preserves, and in all of them if it *)
(* called nothing.  The value it returns is the result.  And whatever the  *)
(* program, a division that translated code makes never faults: it has a   *)
(* divisor, and the dividend's upper half was cleared of what another      *)
(* instruction left there.                                                 *)
(***************************************************************************)
JitAgrees ==
  /\ Comparable /\ c.status = "run" /\ c.ip = state.exit_loc =>
       /\ SameCalls
       /\ c.r[map[0]] = Result
       /\ m.status = "exit" =>
            \A r \in 1 .. 9 : (r >= 6 \/ c.calls = <<>>) => c.r[map[r]] = m.reg[r]
       /\ \A a \in StackBytes : ByteAt(c.mem, a) = ByteAt(m.mem, a)
  /\ Comparable /\ c.status = "ret" => c.r[0] = Result
  /\ Running => c.status # "fault"

(***************************************************************************)
(* StaysInCode: whatever the program does, translated code is always at    *)
(* the first byte of an instruction that was emitted, never in the middle  *)
(* of one or in the string table.                                          *)
(***************************************************************************)
StaysInCode == Running => c.ip \in DOMAIN state.code

(***************************************************************************)
(* KeepsHostAbi: whatever the program does, a function is called with the  *)
(* stack pointer aligned to 16 bytes, and the caller of translated code    *)
(* gets back the registers that belong to it, stack pointer included.      *)
(***************************************************************************)
KeepsHostAbi ==
  /\ Running /\ c.status = "run" /\ At.op = "call" => c.r[Sp] % 16 = 0
  /\ Running /\ c.status = "ret" => \A x \in CalleeSaved \cup {Sp} : c.r[x] = host[x]

(***************************************************************************)
(* AcceptedIsComplete: a translation that succeeds has no instruction left *)
(* whose distance is still to be filled in, although full tables drop      *)
(* entries silently and are only looked at afterwards; and each jump in it *)
(* leads to the first byte of what an eBPF instruction, the epilogue or    *)
(* the handler was translated to, never into the prologue, which is where  *)
(* the entry of an instruction that was not translated still points.       *)
(***************************************************************************)
Entries ==
  {state.pc_locs[h] : h \in {h \in 0 .. Len(case.prog) - 1 : case.prog[h + 1].op # "slot2"}}
    \cup {state.exit_loc, state.div_by_zero_loc}

Enters(loc) ==
  loc \in Entries /\ loc \in DOMAIN state.code /\ loc >= state.pc_locs[0]

AcceptedIsComplete ==
  phase \in {"accepted", "running"} =>
    /\ state.pc_locs[0] > 0
    /\ \A at \in DOMAIN state.code :
         LET ins == state.code[at]
         IN ins.to = Nothing /\ (IsJump(ins) => Enters(Base(at, ins.len) + ins.rel))

(***************************************************************************)
(* NativeEnds: when ubpf_exec has ended, translated code ends too.         *)
(***************************************************************************)
NativeEnds == Comparable ~> c.status = "ret"

(***************************************************************************)
(* JitAlwaysAgrees: ubpf/test_framework/test_jit.py runs every program of  *)
(* the test data through the translator and expects the result that        *)
(* ubpf_exec gives.  Stated here of every program that ubpf_exec defines.  *)
(***************************************************************************)
JitAlwaysAgrees ==
  Running /\ m.status # "undef" /\ c.status = "ret" => c.r[0] = Result

=============================================================================
