------------------------------ MODULE EbpfMachine ------------------------------
(***************************************************************************)
(* ubpf_exec with its values (vm/ubpf_vm.c): what each eBPF instruction    *)
(* does to registers and memory, over the scaled words of module Words.    *)
(*                                                                         *)
(* EbpfIsa and UbpfVm keep the opcode group and forget the values; this    *)
(* module keeps the values and leaves the api to them.  Grouped connects   *)
(* the two, so that the code run here is code that validate accepts.       *)
(***************************************************************************)
EXTENDS Words, Sequences

CONSTANTS
  Unwind,      \* vm->unwind_stack_extension_index
  CallResults  \* what a registered function may return

(***************************************************************************)
(* struct ebpf_inst with its opcode taken apart: the class op, the         *)
(* operation or condition f, the width w of the operation or the access,   *)
(* and the source k, a register or the immediate.                          *)
(***************************************************************************)
AluFs == {"add", "sub", "or", "and", "xor", "mov", "lsh", "rsh", "arsh", "mul", "div", "mod"}
Conditions == {"eq", "ne", "set", "gt", "ge", "lt", "le", "sgt", "sge", "slt", "sle"}
Opcodes ==
  ({"alu"} \X AluFs) \cup ({"jcc"} \X Conditions) \cup ({"endian"} \X {"le", "be"})
    \cup ({"neg", "ldx", "st", "stx", "lddw", "slot2", "ja", "call", "exit"} \X {"none"})

Slots ==
  {inst \in [op : STRING, f : STRING, w : Widths, k : {"reg", "imm"},
             dst : 0 .. 15, src : 0 .. 15, offset : Int, imm : Int] :
     /\ <<inst.op, inst.f>> \in Opcodes
     /\ inst.op \in {"alu", "neg"} => inst.w \in {32, 64}}

Grouped(inst) ==
  [op |-> CASE inst.f \in {"div", "mod"} /\ inst.k = "imm" -> "div_imm"
            [] inst.f \in {"div", "mod"} /\ inst.w = 32 -> "div32_reg"
            [] inst.f \in {"div", "mod"} -> "div64_reg"
            [] inst.op \in {"st", "stx"} -> "store"
            [] inst.op = "slot2" -> "zero"
            [] inst.op \in {"ldx", "lddw", "ja", "jcc", "call", "exit", "endian"} -> inst.op
            [] OTHER -> "alu",
   dst |-> inst.dst, src |-> inst.src, offset |-> inst.offset, imm |-> inst.imm]

(***************************************************************************)
(* The machine m: reg, mem, pc, the log of the calls it made, and status.  *)
(*                                                                         *)
(*   "run"    executing                                                    *)
(*   "exit"   ubpf_exec returned 0 and stored r0                           *)
(*   "error"  it returned -1 after a division by zero                      *)
(*   "undef"  C leaves the result open, or the process is killed           *)
(***************************************************************************)
Operand(inst, reg) ==
  IF inst.k = "imm" THEN U(64, inst.imm) ELSE reg[inst.src]

(* A shift by the width or more; a 32-bit divisor with only its upper half set. *)
Undefined(inst, reg) ==
  LET b == Operand(inst, reg)
      count == IF inst.f = "arsh" THEN U(inst.w, b) ELSE b
      limit == IF inst.f = "lsh" THEN Bits(64) ELSE Bits(inst.w)
  IN \/ inst.f \in {"lsh", "rsh", "arsh"} /\ count >= limit
     \/ inst.f \in {"div", "mod"} /\ U(inst.w, b) = 0 /\ b # 0

DivByZero(inst, reg) ==
  inst.f \in {"div", "mod"} /\ inst.k = "reg" /\ reg[inst.src] = 0

(* Mutant of AluResult: a 32-bit operation works on all 64 bits. *)
AluResultWide(inst, a, b) ==
  IF inst.f = "mov" THEN b ELSE Binary(inst.f, 64, a, b)

(***************************************************************************)
(* &= UINT32_MAX clears the upper half of a 32-bit result.  The left shift *)
(* is done on 64 bits before that.                                         *)
(***************************************************************************)
AluResult(inst, a, b) ==
  CASE inst.f = "mov" -> U(inst.w, b)
    [] inst.f = "lsh" /\ b >= Bits(inst.w) -> 0
    [] OTHER -> Binary(inst.f, inst.w, a, b)

ExecAlu(m, inst) ==
  [m EXCEPT !.reg[inst.dst] = AluResult(inst, @, Operand(inst, m.reg)), !.pc = @ + 1]

ExecNeg(m, inst) ==
  [m EXCEPT !.reg[inst.dst] = U(inst.w, -@), !.pc = @ + 1]

(* htole and htobe on a little-endian host; imm is the width *)
ExecEndian(m, inst) ==
  [m EXCEPT !.reg[inst.dst] = IF inst.f = "be" THEN Swap(inst.imm, @) ELSE U(inst.imm, @),
            !.pc = @ + 1]

(***************************************************************************)
(* A comparison with an immediate: gt, ge, lt and le convert it to         *)
(* uint32_t, the others leave its sign extension.                          *)
(***************************************************************************)
Comparand(inst, reg) ==
  IF inst.k = "imm" /\ inst.f \in {"gt", "ge", "lt", "le"}
  THEN U(32, inst.imm) ELSE Operand(inst, reg)

Taken(inst, reg) ==
  inst.op = "ja" \/ Holds(inst.f, reg[inst.dst], Comparand(inst, reg))

ExecJump(m, inst) ==
  [m EXCEPT !.pc = @ + 1 + (IF Taken(inst, m.reg) THEN inst.offset ELSE 0)]

ExecLoad(m, inst) ==
  [m EXCEPT !.reg[inst.dst] = Load(m.mem, inst.w, m.reg[inst.src] + inst.offset),
            !.pc = @ + 1]

ExecStore(m, inst) ==
  [m EXCEPT !.mem = Store(@, inst.w, m.reg[inst.dst] + inst.offset, Operand(inst, m.reg)),
            !.pc = @ + 1]

(* Two slots make one 64-bit immediate. *)
ExecLddw(m, inst, second) ==
  [m EXCEPT !.reg[inst.dst] = U(32, inst.imm) + U(32, second.imm) * Mod(32),
            !.pc = @ + 2]

(* The registered functions have indices from 0. *)
ErrorPrintfFn == -1

Called(fn, args, result) == [fn |-> fn, args |-> args, result |-> result]

(* reg[0] = ext_funcs[imm](reg[1], ..., reg[5]), and the unwind function *)
ExecCall(m, inst, result) ==
  [m EXCEPT !.calls = Append(@, Called(inst.imm, [k \in 1 .. 5 |-> m.reg[k]], result)),
            !.reg[0] = result,
            !.pc = @ + 1,
            !.status = IF inst.imm = Unwind /\ result = 0 THEN "exit" ELSE "run"]

(* error_printf(stderr, "... division by zero at PC %u", cur_pc); return -1; *)
ExecDivByZero(m) ==
  [m EXCEPT !.calls = Append(@, Called(ErrorPrintfFn, <<0, m.pc>>, 0)),
            !.status = "error"]

(* One turn of the loop in ubpf_exec. *)
ExecSteps(m, prog) ==
  LET inst == prog[m.pc + 1] IN
  CASE inst.op = "alu" /\ Undefined(inst, m.reg) -> {[m EXCEPT !.status = "undef"]}
    [] inst.op = "alu" /\ DivByZero(inst, m.reg) -> {ExecDivByZero(m)}
    [] inst.op = "alu" /\ ~Undefined(inst, m.reg) /\ ~DivByZero(inst, m.reg) ->
         {ExecAlu(m, inst)}
    [] inst.op = "neg" -> {ExecNeg(m, inst)}
    [] inst.op = "endian" -> {ExecEndian(m, inst)}
    [] inst.op = "ldx" -> {ExecLoad(m, inst)}
    [] inst.op \in {"st", "stx"} -> {ExecStore(m, inst)}
    [] inst.op = "lddw" -> {ExecLddw(m, inst, prog[m.pc + 2])}
    [] inst.op \in {"ja", "jcc"} -> {ExecJump(m, inst)}
    [] inst.op = "call" -> {ExecCall(m, inst, r) : r \in CallResults}
    [] inst.op = "exit" -> {[m EXCEPT !.status = "exit"]}

=============================================================================
