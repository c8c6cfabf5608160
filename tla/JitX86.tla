--------------------------------- MODULE JitX86 --------------------------------
(***************************************************************************)
(* The code the x86-64 translator emits (vm/ubpf_jit_x86_64.c and .h):     *)
(* for each eBPF instruction a sequence of host instructions with their    *)
(* lengths.  Encodings are abstracted to what the instruction does and how *)
(* many bytes it takes.                                                    *)
(***************************************************************************)
EXTENDS HostCpu

CONSTANTS StackSize,   \* UBPF_STACK_SIZE
          UnwindIndex  \* vm->unwind_stack_extension_index

(* RBX is 3, RSI 6, RDI 7; 8 and above are R8 and above. *)
RAX == 0
RCX == 1
RDX == 2
RSP == 4
RBP == 5
RCX_ALT == 9

platform_nonvolatile_registers == <<RBP, 3, 13, 14, 15>>
platform_parameter_registers == <<7, 6, RDX, RCX, 8, 9>>
register_map == <<RAX, 7, 6, RDX, 9, 8, 3, 13, 14, 15, RBP>>

(* ubpf_set_register_offset for an offset below the number of registers *)
RegisterMap(x) == [r \in 0 .. 10 |-> register_map[((r + x) % 11) + 1]]

-----------------------------------------------------------------------------
(* Emission. *)

(* emit_basic_rex: a prefix for 64-bit operands and the upper registers *)
Rex(w, src, dst) == IF w = 64 \/ src >= 8 \/ dst >= 8 THEN 1 ELSE 0

(* emit_modrm_and_displacement *)
ModrmLen(base, disp) ==
  CASE disp = 0 /\ base % 8 # RBP -> 1
    [] ~(disp = 0 /\ base % 8 # RBP) /\ disp \in -128 .. 127 -> 2
    [] OTHER -> 5

emit_push(r) == [Ins("push") EXCEPT !.n = r, !.len = Rex(8, 0, r) + 1]
emit_pop(r) == [Ins("pop") EXCEPT !.d = r, !.len = Rex(8, 0, r) + 1]

(* emit_alu32 and emit_alu64 *)
emit_alu(w, f, src, dst) ==
  [Ins("bin") EXCEPT !.f = f, !.w = w, !.d = dst, !.n = dst, !.m = src, !.len = Rex(w, src, dst) + 2]

(* emit_alu32_imm32 and emit_alu64_imm32 *)
emit_alu_imm32(w, f, dst, imm) ==
  [Ins("bini") EXCEPT !.f = f, !.w = w, !.d = dst, !.n = dst, !.imm = imm, !.len = Rex(w, 0, dst) + 6]

(* emit_alu32_imm8 and emit_alu64_imm8, for shifts *)
emit_alu_imm8(w, f, dst, imm) == [emit_alu_imm32(w, f, dst, imm) EXCEPT !.len = Rex(w, 0, dst) + 3]

emit_mov(src, dst) == [emit_alu(64, "or", src, dst) EXCEPT !.n = ZR]

emit_cmp_imm32(dst, imm) == [Ins("cmpi") EXCEPT !.n = dst, !.imm = imm, !.len = 7]

emit_cmp(src, dst) == [Ins("cmp") EXCEPT !.n = dst, !.m = src, !.len = 3]

emit_jcc(cond, target_pc) == [Ins("jcc") EXCEPT !.f = cond, !.to = target_pc, !.len = 6]

emit_jmp(target_pc) == [Ins("jmp") EXCEPT !.to = target_pc, !.len = 5]

(* Load [src + offset] into dst, zero extended *)
emit_load(w, src, dst, offset) ==
  [Ins("load") EXCEPT !.w = w, !.d = dst, !.n = src, !.imm = offset,
     !.len = Rex(w, dst, src) + (IF w <= 16 THEN 2 ELSE 1) + ModrmLen(src, offset)]

(* The shorter form sign-extends 32 bits. *)
emit_load_imm(dst, imm) ==
  LET short == S(64, imm) \in -(Mod(32) \div 2) .. Mod(32) \div 2 - 1
  IN [Ins("movi") EXCEPT !.d = dst, !.imm = imm, !.len = IF short THEN 7 ELSE 10]

(* Store register src to [dst + offset] *)
emit_store(w, src, dst, offset) ==
  [Ins("store") EXCEPT !.w = w, !.d = src, !.n = dst, !.imm = offset,
     !.len = (IF w = 16 THEN 1 ELSE 0) + (IF w = 8 THEN 1 ELSE Rex(w, src, dst))
             + 1 + ModrmLen(dst, offset)]

(* Store immediate to [dst + offset]; field d holds the immediate *)
emit_store_imm32(w, dst, offset, imm) ==
  [Ins("storei") EXCEPT !.w = w, !.d = imm, !.n = dst, !.imm = offset,
     !.len = (IF w = 16 THEN 1 ELSE 0) + Rex(w, 0, dst) + 1 + ModrmLen(dst, offset)
             + (CASE w >= 32 -> 4 [] w = 16 -> 2 [] w = 8 -> 1)]

(* mov $target, %rax and callq *%rax *)
emit_call(target) == <<emit_load_imm(RAX, target), [Ins("call") EXCEPT !.n = RAX, !.len = 2]>>

(* lea dst, [rip + 0], completed by resolve_strings *)
emit_string_load(dst, id) == [Ins("adr") EXCEPT !.d = dst, !.to = id, !.len = 7]

-----------------------------------------------------------------------------
(* Translation. *)

(* RDX is the upper half of the dividend. *)
ClearUpper(mul) == When(~mul, <<emit_alu(32, "xor", RDX, RDX)>>)

(* Mutant of muldivmod: the saved registers are popped in the order they   *)
(* were pushed.                                                            *)
muldivmodSwapped(pc, inst, src, dst) ==
  LET mul == inst.f = "mul"
      w == inst.w
  IN When(~mul, <<emit_load_imm(RCX, pc),
                  [emit_alu(w, "and", src, src) EXCEPT !.op = "test"],
                  emit_jcc("eq", TARGET_PC_DIV_BY_ZERO)>>)
     \o When(dst # RAX, <<emit_push(RAX)>>)
     \o When(dst # RDX, <<emit_push(RDX)>>)
     \o <<IF inst.imm # 0 THEN emit_load_imm(RCX, inst.imm) ELSE emit_mov(src, RCX),
          emit_mov(dst, RAX)>>
     \o ClearUpper(mul)
     \o <<[Ins(IF mul THEN "mulx" ELSE "divx") EXCEPT !.w = w, !.n = RCX, !.len = Rex(w, 0, 0) + 2]>>
     \o When(dst # RAX, When(inst.f # "mod", <<emit_mov(RAX, dst)>>) \o <<emit_pop(RAX)>>)
     \o When(dst # RDX, When(inst.f = "mod", <<emit_mov(RDX, dst)>>) \o <<emit_pop(RDX)>>)

(***************************************************************************)
(* mul and div work in RAX and RDX, which are eBPF registers too and are   *)
(* saved around them unless one is dst.  RCX, which is no eBPF register,   *)
(* holds the pc for the handler, then the operand: imm unless it is 0.     *)
(***************************************************************************)
muldivmod(pc, inst, src, dst) ==
  LET mul == inst.f = "mul"
      w == inst.w
  IN When(~mul, <<emit_load_imm(RCX, pc),
                  [emit_alu(w, "and", src, src) EXCEPT !.op = "test"],
                  emit_jcc("eq", TARGET_PC_DIV_BY_ZERO)>>)
     \o When(dst # RAX, <<emit_push(RAX)>>)
     \o When(dst # RDX, <<emit_push(RDX)>>)
     \o <<IF inst.imm # 0 THEN emit_load_imm(RCX, inst.imm) ELSE emit_mov(src, RCX),
          emit_mov(dst, RAX)>>
     \o ClearUpper(mul)
     \o <<[Ins(IF mul THEN "mulx" ELSE "divx") EXCEPT !.w = w, !.n = RCX, !.len = Rex(w, 0, 0) + 2]>>
     \o When(dst # RDX, When(inst.f = "mod", <<emit_mov(RDX, dst)>>) \o <<emit_pop(RDX)>>)
     \o When(dst # RAX, When(inst.f # "mod", <<emit_mov(RAX, dst)>>) \o <<emit_pop(RAX)>>)

(* The shifts by a register count in CL. *)
X86Alu(inst, pc, src, dst) ==
  CASE inst.f \in {"mul", "div", "mod"} -> muldivmod(pc, inst, src, dst)
    [] inst.f = "mov" /\ inst.k = "reg" -> <<emit_mov(src, dst)>>
    [] inst.f = "mov" /\ inst.k = "imm" /\ inst.w = 32 ->
         <<[Ins("movi") EXCEPT !.w = 32, !.d = dst, !.imm = inst.imm, !.len = Rex(32, 0, dst) + 6]>>
    [] inst.f = "mov" /\ inst.k = "imm" /\ inst.w = 64 -> <<emit_load_imm(dst, inst.imm)>>
    [] inst.f \in {"lsh", "rsh", "arsh"} /\ inst.k = "imm" ->
         <<emit_alu_imm8(inst.w, inst.f, dst, inst.imm)>>
    [] inst.f \in {"lsh", "rsh", "arsh"} /\ inst.k = "reg" ->
         <<emit_mov(src, RCX),
           [emit_alu(inst.w, inst.f, RCX, dst) EXCEPT !.len = Rex(inst.w, 0, dst) + 2]>>
    [] inst.f \in {"add", "sub", "or", "and", "xor"} /\ inst.k = "imm" ->
         <<emit_alu_imm32(inst.w, inst.f, dst, inst.imm)>>
    [] inst.f \in {"add", "sub", "or", "and", "xor"} /\ inst.k = "reg" ->
         <<emit_alu(inst.w, inst.f, src, dst)>>

X86Neg(inst, dst) ==
  <<[emit_alu(inst.w, "sub", dst, dst) EXCEPT !.n = ZR, !.len = Rex(inst.w, 0, dst) + 2]>>

(* le is a no-op; be 16 rotates and masks; be 32 and 64 are bswap *)
X86Endian(inst, dst) ==
  CASE inst.f = "le" -> <<>>
    [] inst.f = "be" /\ inst.imm = 16 ->
         <<[Ins("swap_low") EXCEPT !.w = 16, !.d = dst, !.n = dst, !.len = Rex(32, 0, dst) + 4],
           emit_alu_imm32(32, "and", dst, Mod(16) - 1)>>
    [] inst.f = "be" /\ inst.imm # 16 ->
         <<[Ins("swap") EXCEPT !.w = inst.imm, !.d = dst, !.n = dst, !.len = Rex(inst.imm, 0, dst) + 2]>>

(* A comparison on 64 bits, or test for jset, and the jump. *)
X86Jump(inst, target_pc, src, dst) ==
  CASE inst.op = "ja" -> <<emit_jmp(target_pc)>>
    [] inst.op = "jcc" /\ inst.f = "set" ->
         <<IF inst.k = "imm"
           THEN [emit_cmp_imm32(dst, inst.imm) EXCEPT !.op = "testi"]
           ELSE [emit_cmp(src, dst) EXCEPT !.op = "test"],
           emit_jcc("ne", target_pc)>>
    [] inst.op = "jcc" /\ inst.f # "set" ->
         <<IF inst.k = "imm" THEN emit_cmp_imm32(dst, inst.imm) ELSE emit_cmp(src, dst),
           emit_jcc(inst.f, target_pc)>>

(* RCX is reserved for shifts, so the fourth argument moves there first. *)
X86Call(inst, map) ==
  <<emit_mov(RCX_ALT, RCX)>> \o emit_call(ExtFunc(inst.imm))
  \o When(inst.imm = UnwindIndex,
          <<emit_cmp_imm32(map[0], 0), emit_jcc("eq", TARGET_PC_EXIT)>>)

X86Memory(inst, src, dst) ==
  CASE inst.op = "ldx" -> <<emit_load(inst.w, src, dst, inst.offset)>>
    [] inst.op = "st" -> <<emit_store_imm32(inst.w, dst, inst.offset, inst.imm)>>
    [] inst.op = "stx" -> <<emit_store(inst.w, src, dst, inst.offset)>>

(* One turn of the loop of translate, for slot i of prog. *)
X86Inst(prog, i, map) ==
  LET inst == prog[i + 1]
      src == map[inst.src]
      dst == map[inst.dst]
      target_pc == i + inst.offset + 1
  IN CASE inst.op = "alu" -> X86Alu(inst, i, src, dst)
       [] inst.op = "neg" -> X86Neg(inst, dst)
       [] inst.op = "endian" -> X86Endian(inst, dst)
       [] inst.op \in {"ja", "jcc"} -> X86Jump(inst, target_pc, src, dst)
       [] inst.op = "call" -> X86Call(inst, map)
       [] inst.op = "exit" -> When(i # Len(prog) - 1, <<emit_jmp(TARGET_PC_EXIT)>>)
       [] inst.op \in {"ldx", "st", "stx"} -> X86Memory(inst, src, dst)
       [] inst.op = "lddw" -> <<emit_load_imm(dst, Lddw(inst, prog[i + 2]))>>

X86Prologue(map) ==
  [k \in 1 .. Len(platform_nonvolatile_registers) |->
     emit_push(platform_nonvolatile_registers[k])]
  \o When(map[1] # platform_parameter_registers[1],
          <<emit_mov(platform_parameter_registers[1], map[1])>>)
  \o <<emit_mov(RSP, map[10]), emit_alu_imm32(64, "sub", RSP, StackSize)>>

X86Epilogue(map) ==
  LET saved == platform_nonvolatile_registers
  IN When(map[0] # RAX, <<emit_mov(map[0], RAX)>>)
     \o <<emit_alu_imm32(64, "add", RSP, StackSize)>>
     \o [k \in 1 .. Len(saved) |-> emit_pop(saved[Len(saved) + 1 - k])]
     \o <<[Ins("ret") EXCEPT !.len = 1]>>

(* error_printf(stderr, string 0, pc); the result is -1 *)
X86DivByZero(map) ==
  <<emit_mov(RCX, platform_parameter_registers[3]),
    emit_string_load(platform_parameter_registers[2], 0),
    emit_load_imm(platform_parameter_registers[1], Stderr)>>
  \o emit_call(ErrorPrintf)
  \o <<emit_load_imm(map[0], -1), emit_jmp(TARGET_PC_EXIT)>>

-----------------------------------------------------------------------------
(* Distances.  A jump is noted at its last four bytes, a string load at    *)
(* its end; both count from the end of the instruction.                    *)
emit_jump_offset(start, len) == start + len - 4
string_offset_loc(start, len) == start + len

(* Mutant of jump_rel: the four bytes of the distance are forgotten. *)
jump_rel_start(target_loc, offset_loc) == target_loc - offset_loc

jump_rel(target_loc, offset_loc) == target_loc - (offset_loc + 4)
string_rel(string_loc, offset_loc) == string_loc - offset_loc
Base(start, len) == start + len

=============================================================================
