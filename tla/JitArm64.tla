-------------------------------- MODULE JitArm64 -------------------------------
(***************************************************************************)
(* The code the arm64 translator emits (vm/ubpf_jit_arm64.c).  Every       *)
(* instruction takes four bytes and names three registers; an immediate    *)
(* that does not fit one goes through a temporary register.                *)
(***************************************************************************)
EXTENDS HostCpu

CONSTANTS StackSize,    \* UBPF_STACK_SIZE
          UnwindIndex,  \* vm->unwind_stack_extension_index
          Imm12,        \* 0x1000, the immediates of add, sub and compare
          Imm9          \* 256, the offsets of load and store

callee_saved_registers == <<19, 20, 21, 22, 23, 24, 25, 26>>
temp_register == 24
temp_div_register == 25
offset_register == 26
FP == 29
LR == 30
SP == 31

(* r0 lives in R5, r1 to r5 in R0 to R4, r6 to r10 in R19 to R23. *)
Arm64Map == [r \in 0 .. 10 |-> CASE r = 0 -> 5 [] r \in 1 .. 5 -> r - 1 [] r > 5 -> r + 13]

-----------------------------------------------------------------------------
(* Emission.  sixty_four is the width 64 or 32. *)

Arm(op) == [Ins(op) EXCEPT !.len = 4]

(* What the arm64 opcodes and conditions do. *)
Does == [ADD |-> "add", SUB |-> "sub", ORR |-> "or", AND |-> "and", EOR |-> "xor",
         LSLV |-> "lsh", LSRV |-> "rsh", ASRV |-> "arsh", UDIV |-> "div", MADD |-> "mul"]
Means == [EQ |-> "eq", NE |-> "ne", HI |-> "gt", HS |-> "ge", LO |-> "lt", LS |-> "le",
          GT |-> "sgt", GE |-> "sge", LT |-> "slt", LE |-> "sle"]

emit_addsub_immediate(op, rd, rn, imm12) ==
  [Arm("bini") EXCEPT !.f = Does[op], !.d = rd, !.n = rn, !.imm = imm12]

(* add, sub, logical, shift and multiply on registers *)
emit_register(w, op, rd, rn, rm) ==
  [Arm("bin") EXCEPT !.w = w, !.f = Does[op], !.d = rd, !.n = rn, !.m = rm]

(* AS_SUBS into RZ, by an immediate or a register *)
emit_compare_immediate(w, rn, imm12) == [Arm("cmpi") EXCEPT !.w = w, !.n = rn, !.imm = imm12]
emit_compare_register(w, rn, rm) == [Arm("cmp") EXCEPT !.w = w, !.n = rn, !.m = rm]

emit_loadstore_immediate(op, w, rt, rn, imm9) ==
  [Arm(op) EXCEPT !.w = w, !.d = rt, !.n = rn, !.imm = imm9]

emit_loadstore_register(op, w, rt, rn, rm) ==
  [Arm(op) EXCEPT !.w = w, !.d = rt, !.n = rn, !.m = rm]

emit_loadstorepair(op, rt, rt2, imm7) == [Arm(op) EXCEPT !.n = rt, !.m = rt2, !.imm = imm7]

emit_branch(target_pc) == [Arm("jmp") EXCEPT !.to = target_pc]
emit_conditionalbranch(cond, target_pc) == [Arm("jcc") EXCEPT !.f = Means[cond], !.to = target_pc]

Chunk(v, k) == (v \div 2 ^ (k * Bits(16))) % Mod(16)

(***************************************************************************)
(* MOVN rather than MOVZ when more 16-bit chunks are ones than are zeros.  *)
(* The masks are ints: the second one covers the upper 48 bits, and the    *)
(* two shifts by 32 and 48 that C leaves open give zero or repeat the      *)
(* first two, which does not change the comparison.                        *)
(***************************************************************************)
invert(v) ==
  LET low == Chunk(v, 0)
      high == v \div Mod(16)
      ones == Mod(64) \div Mod(16) - 1
  IN \/ low = Mod(16) - 1 /\ high # 0
     \/ high = ones /\ low # 0

(* The first move fills the other chunks with zeros or ones. *)
emit_movewide(w, rd, v, k) ==
  LET rest == IF invert(v) THEN -1 ELSE 0
  IN [Arm("movi") EXCEPT !.w = w, !.d = rd,
        !.imm = U(w, rest + (Chunk(v, k) - Chunk(U(64, rest), k)) * 2 ^ (k * Bits(16)))]

(* The chunks of v that the first move does not fill. *)
Keep(w, v, k) ==
  When(Bits(16) * k < Bits(w) /\ Chunk(v, k) # IF invert(v) THEN Mod(16) - 1 ELSE 0, <<k>>)

Kept(w, v) == Keep(w, v, 0) \o Keep(w, v, 1) \o Keep(w, v, 2) \o Keep(w, v, 3)

(* Mutant of emit_movewide_immediate: no MOVK follows. *)
emit_movewide_first(w, rd, v) ==
  <<emit_movewide(w, rd, v, IF Kept(w, v) = <<>> THEN 0 ELSE Kept(w, v)[1])>>

(***************************************************************************)
(* MOVZ or MOVN for the first chunk that differs from the pattern it fills *)
(* the rest with, then MOVK for each other one that differs.               *)
(***************************************************************************)
emit_movewide_immediate(w, rd, v) ==
  LET kept == Kept(w, v)
      movk(k) == [Arm("movk") EXCEPT !.w = w, !.d = rd, !.n = k, !.imm = Chunk(v, k)]
  IN <<emit_movewide(w, rd, v, IF kept = <<>> THEN 0 ELSE kept[1])>>
     \o [j \in 1 .. Len(kept) - 1 |-> movk(kept[j + 1])]

(* BLR, after which the result moves from R0 to where r0 lives *)
emit_call(target) ==
  emit_movewide_immediate(64, temp_register, target)
  \o <<[Arm("call") EXCEPT !.n = temp_register], emit_register(64, "ORR", Arm64Map[0], ZR, 0)>>

(* Mutant of FrameSize: not rounded up. *)
FrameSizeExact == StackSize + 8 * 8 + 8

(* stack_size: the eBPF stack, eight registers, FP and LR, rounded up to 16 *)
FrameSize == ((StackSize + 80 + 15) \div 16) * 16

Arm64Prologue ==
  <<emit_addsub_immediate("SUB", SP, SP, FrameSize),
    emit_loadstorepair("stp", FP, LR, 0),
    emit_addsub_immediate("ADD", FP, SP, 0)>>
  \o [j \in 1 .. 4 |->
        emit_loadstorepair("stp", callee_saved_registers[2 * j - 1], callee_saved_registers[2 * j], 16 * j)]
  \o <<emit_addsub_immediate("ADD", Arm64Map[10], SP, FrameSize)>>

Arm64Epilogue ==
  <<emit_register(64, "ORR", 0, ZR, Arm64Map[0])>>
  \o [j \in 1 .. 4 |->
        emit_loadstorepair("ldp", callee_saved_registers[2 * j - 1], callee_saved_registers[2 * j], 16 * j)]
  \o <<emit_loadstorepair("ldp", FP, LR, 0),
       emit_addsub_immediate("ADD", SP, SP, FrameSize),
       Arm("ret")>>

-----------------------------------------------------------------------------
(* Translation. *)

is_imm_op(inst) == inst.k = "imm" /\ inst.op \in {"alu", "jcc", "st"}

is_simple_imm(inst) ==
  \/ inst.op = "alu" /\ inst.f = "mov"
  \/ /\ \/ inst.op = "alu" /\ inst.f \in {"add", "sub"}
        \/ inst.op = "jcc" /\ inst.f # "set"
     /\ inst.imm \in 0 .. Imm12 - 1

(* The opcodes of the register forms. *)
to_addsub_opcode == [add |-> "ADD", sub |-> "SUB"]
to_logical_opcode == [or |-> "ORR", and |-> "AND", xor |-> "EOR"]
to_dp2_opcode == [lsh |-> "LSLV", rsh |-> "LSRV", arsh |-> "ASRV", div |-> "UDIV"]
to_condition == [eq |-> "EQ", gt |-> "HI", ge |-> "HS", lt |-> "LO", le |-> "LS", set |-> "NE",
                 ne |-> "NE", sgt |-> "GT", sge |-> "GE", slt |-> "LT", sle |-> "LE"]

(* is_alu64_op: the classes ALU64 and JMP *)
SixtyFour(inst) ==
  CASE inst.op \in {"alu", "neg"} -> inst.w
    [] inst.op \in {"jcc", "ja", "call", "exit"} -> 64
    [] OTHER -> 32

(* The test for zero jumps over the two instructions that leave for the handler. *)
divmod(pc, inst, rd, rm) ==
  LET mod == inst.f = "mod"
      div_dest == IF mod THEN temp_div_register ELSE rd
  IN <<[Arm("cbnz") EXCEPT !.w = inst.w, !.n = rm, !.rel = 12]>>
     \o emit_movewide_immediate(64, 2, pc)
     \o <<emit_branch(TARGET_PC_DIV_BY_ZERO),
          [emit_register(inst.w, to_dp2_opcode.div, div_dest, rd, rm) EXCEPT !.op = "udiv"]>>
     \o When(mod, <<[Arm("msub") EXCEPT !.w = inst.w, !.d = rd, !.n = rm, !.m = div_dest, !.imm = rd]>>)

Arm64Alu(inst, simple, pc, src, dst) ==
  CASE inst.f \in {"div", "mod"} -> divmod(pc, inst, dst, src)
    [] inst.f = "mov" /\ simple -> emit_movewide_immediate(inst.w, dst, U(64, inst.imm))
    [] inst.f = "mov" /\ ~simple -> <<emit_register(inst.w, "ORR", dst, ZR, src)>>
    [] inst.f \in {"add", "sub"} /\ simple ->
         <<[emit_addsub_immediate(to_addsub_opcode[inst.f], dst, dst, inst.imm) EXCEPT !.w = inst.w]>>
    [] inst.f \in DOMAIN to_addsub_opcode /\ ~simple ->
         <<emit_register(inst.w, to_addsub_opcode[inst.f], dst, dst, src)>>
    [] inst.f \in DOMAIN to_logical_opcode ->
         <<emit_register(inst.w, to_logical_opcode[inst.f], dst, dst, src)>>
    [] inst.f \in {"lsh", "rsh", "arsh"} ->
         <<emit_register(inst.w, to_dp2_opcode[inst.f], dst, dst, src)>>
    [] inst.f = "mul" -> <<emit_register(inst.w, "MADD", dst, dst, src)>>

(* The negation reads the src field. *)
Arm64Neg(inst, src, dst) == <<emit_register(inst.w, "SUB", dst, ZR, src)>>

(* REV16, REV32 and REV64 *)
to_dp1_opcode(dst, imm) == [Arm("swap") EXCEPT !.w = imm, !.d = dst, !.n = dst]

(* be reverses the bytes; both le and be end a 16-bit one with UXTH *)
Arm64Endian(inst, dst) ==
  When(inst.f = "be", <<to_dp1_opcode(dst, inst.imm)>>)
  \o When(inst.imm = 16, <<[emit_register(64, "AND", dst, dst, ZR) EXCEPT !.op = "bini", !.imm = Mod(16) - 1]>>)

(* to_condition, on the flags of a subtraction or of an and *)
Arm64Jump(inst, simple, target_pc, src, dst) ==
  CASE inst.op = "ja" -> <<emit_branch(target_pc)>>
    [] inst.op = "jcc" /\ inst.f = "set" ->
         <<[emit_compare_register(64, dst, src) EXCEPT !.op = "test"],
           emit_conditionalbranch(to_condition.set, target_pc)>>
    [] inst.op = "jcc" /\ inst.f # "set" ->
         <<IF simple THEN emit_compare_immediate(64, dst, inst.imm)
                     ELSE emit_compare_register(64, dst, src),
           emit_conditionalbranch(to_condition[inst.f], target_pc)>>

Arm64Call(inst) ==
  emit_call(ExtFunc(inst.imm))
  \o When(inst.imm = UnwindIndex,
          <<emit_compare_immediate(64, Arm64Map[0], 0), emit_conditionalbranch("EQ", TARGET_PC_EXIT)>>)

(* LDR or STR, of the width of the access *)
to_loadstore_opcode(inst) == IF inst.op = "ldx" THEN "load" ELSE "store"

(* data is the register loaded into or stored from, base holds the address *)
Arm64Memory(inst, data, base) ==
  LET op == to_loadstore_opcode(inst)
  IN IF inst.offset \in -Imm9 .. Imm9 - 1
     THEN <<emit_loadstore_immediate(op, inst.w, data, base, inst.offset)>>
     ELSE emit_movewide_immediate(64, offset_register, U(64, inst.offset))
          \o <<emit_loadstore_register(op, inst.w, data, base, offset_register)>>

(***************************************************************************)
(* One turn of the loop of translate.  An immediate that is not simple is  *)
(* first moved into temp_register, in 32 bits unless the class is ALU64 or *)
(* JMP, and the instruction becomes its register form.                     *)
(***************************************************************************)
Arm64Inst(prog, i) ==
  LET inst == prog[i + 1]
      simple == is_imm_op(inst) /\ is_simple_imm(inst)
      moved == is_imm_op(inst) /\ ~is_simple_imm(inst)
      src == IF moved THEN temp_register ELSE Arm64Map[inst.src]
      dst == Arm64Map[inst.dst]
  IN When(moved, emit_movewide_immediate(SixtyFour(inst), temp_register, U(64, inst.imm)))
     \o (CASE inst.op = "alu" -> Arm64Alu(inst, simple, i, src, dst)
           [] inst.op = "neg" -> Arm64Neg(inst, src, dst)
           [] inst.op = "endian" -> Arm64Endian(inst, dst)
           [] inst.op \in {"ja", "jcc"} -> Arm64Jump(inst, simple, i + inst.offset + 1, src, dst)
           [] inst.op = "call" -> Arm64Call(inst)
           [] inst.op = "exit" -> When(i # Len(prog) - 1, <<emit_branch(TARGET_PC_EXIT)>>)
           [] inst.op = "ldx" -> Arm64Memory(inst, dst, src)
           [] inst.op \in {"st", "stx"} -> Arm64Memory(inst, src, dst)
           [] inst.op = "lddw" ->
                emit_movewide_immediate(64, dst, Lddw(inst, prog[i + 2])))

(* error_printf(stderr, string 0, pc), with pc in R2 already; the result is -1 *)
Arm64DivByZero ==
  <<[Arm("adr") EXCEPT !.d = 1, !.to = 0]>>
  \o emit_movewide_immediate(64, 0, Stderr)
  \o emit_call(ErrorPrintf)
  \o emit_movewide_immediate(64, Arm64Map[0], U(64, -1))
  \o <<emit_branch(TARGET_PC_EXIT)>>

-----------------------------------------------------------------------------
(* Distances.  Jumps and string loads are noted, and count, from the start *)
(* of the instruction.                                                     *)
note_jump(start, len) == start
string_offset_loc(start, len) == start
jump_rel(target_loc, offset_loc) == target_loc - offset_loc
string_rel(string_loc, offset_loc) == string_loc - offset_loc
Base(start, len) == start

=============================================================================
