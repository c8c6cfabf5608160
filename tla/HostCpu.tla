-------------------------------- MODULE HostCpu --------------------------------
(***************************************************************************)
(* The processor that runs translated code: the instructions the two       *)
(* translators emit, on registers, flags and memory.  It is not part of    *)
(* the repository and is described by what vm/ubpf_jit_x86_64.c and        *)
(* vm/ubpf_jit_arm64.c expect of x86-64 and arm64.                         *)
(***************************************************************************)
EXTENDS Words, Sequences

CONSTANT Junk   \* a value no program asked for

(* Register 32 is arm64's zero register; its encoding is that of SP, and   *)
(* the instruction says which of the two is meant.                         *)
ZR == 32

(***************************************************************************)
(* An instruction: operation op, function or condition f, width w,         *)
(* destination d, sources n and m, immediate, length in bytes, and for an  *)
(* instruction that is completed later what it refers to (to), and the     *)
(* distance that was written into it (rel).                                *)
(***************************************************************************)
Nothing == -3
Ins(op) == [op |-> op, f |-> "add", w |-> 64, d |-> ZR, n |-> ZR, m |-> ZR,
            imm |-> 0, len |-> 0, to |-> Nothing, rel |-> 0]

(* The cpu c: registers r, flags as the two values last compared, memory,  *)
(* instruction pointer, status.                                            *)
Reg(c, x) == IF x = ZR THEN 0 ELSE c.r[x]
SetReg(c, x, v) == IF x = ZR THEN c ELSE [c EXCEPT !.r[x] = v]

Address(c, ins) == U(64, Reg(c, ins.n) + Reg(c, ins.m) + ins.imm)

Push(c, sp, v) ==
  [c EXCEPT !.mem = Store(@, 64, U(64, c.r[sp] - 8), v), !.r[sp] = U(64, @ - 8)]

(* 64-bit values at an address and right behind it *)
StorePair(c, a, v1, v2) ==
  [c EXCEPT !.mem = Store(Store(@, 64, a, v1), 64, U(64, a + 8), v2)]

(***************************************************************************)
(* What ins does apart from moving the instruction pointer.  sp is the     *)
(* stack pointer; ra and rd are the registers x86-64 multiplies and        *)
(* divides in.                                                             *)
(***************************************************************************)
Effect(c, ins, sp, ra, rd) ==
  LET a == Reg(c, ins.n)
      b == Reg(c, ins.m)
      w == ins.w
  IN CASE ins.op = "bin" -> SetReg(c, ins.d, Binary(ins.f, w, a, b))
       [] ins.op = "bini" -> SetReg(c, ins.d, Binary(ins.f, w, a, U(64, ins.imm)))
       [] ins.op = "movi" -> SetReg(c, ins.d, U(w, ins.imm))
       [] ins.op = "movk" ->
            LET unit == 2 ^ (Bits(16) * ins.n)
                v == Reg(c, ins.d)
            IN SetReg(c, ins.d, U(w, v) + (ins.imm - ((v \div unit) % Mod(16))) * unit)
       [] ins.op = "msub" -> SetReg(c, ins.d, Binary("sub", w, Reg(c, ins.imm), Binary("mul", w, a, b)))
       [] ins.op = "swap" -> SetReg(c, ins.d, Swap(w, a))
       [] ins.op = "swap_low" -> SetReg(c, ins.d, a - U(w, a) + Swap(w, a))
       [] ins.op = "cmp" -> [c EXCEPT !.fl = <<U(w, a), U(w, b)>>]
       [] ins.op = "cmpi" -> [c EXCEPT !.fl = <<U(w, a), U(w, ins.imm)>>]
       [] ins.op = "test" -> [c EXCEPT !.fl = <<Binary("and", w, a, b), 0>>]
       [] ins.op = "testi" -> [c EXCEPT !.fl = <<Binary("and", w, a, U(64, ins.imm)), 0>>]
       [] ins.op = "load" -> SetReg(c, ins.d, Load(c.mem, w, Address(c, ins)))
       [] ins.op = "store" -> [c EXCEPT !.mem = Store(@, w, Address(c, ins), Reg(c, ins.d))]
       [] ins.op = "storei" -> [c EXCEPT !.mem = Store(@, w, Address(c, ins), U(64, ins.d))]
       [] ins.op = "push" -> Push(c, sp, a)
       [] ins.op = "pop" -> [SetReg(c, ins.d, Load(c.mem, 64, c.r[sp])) EXCEPT !.r[sp] = U(64, @ + 8)]
       [] ins.op = "stp" -> StorePair(c, U(64, c.r[sp] + ins.imm), a, b)
       [] ins.op = "ldp" ->
            LET at == U(64, c.r[sp] + ins.imm)
            IN SetReg(SetReg(c, ins.n, Load(c.mem, 64, at)), ins.m, Load(c.mem, 64, U(64, at + 8)))
       [] ins.op = "mulx" ->
            [c EXCEPT !.r[ra] = Binary("mul", w, @, a), !.r[rd] = Junk]
       [] ins.op = "divx" /\ (U(w, a) = 0 \/ U(w, c.r[rd]) # 0) -> [c EXCEPT !.status = "fault"]
       [] ins.op = "divx" /\ U(w, a) # 0 /\ U(w, c.r[rd]) = 0 ->
            [c EXCEPT !.r[ra] = Binary("div", w, @, a), !.r[rd] = Binary("mod", w, c.r[ra], a)]
       [] ins.op = "udiv" /\ U(w, b) = 0 -> SetReg(c, ins.d, 0)
       [] ins.op = "udiv" /\ U(w, b) # 0 -> SetReg(c, ins.d, Binary("div", w, a, b))
       [] OTHER -> c

(* The branches: jcc on the flags, cbnz on a register, jmp always. *)
Branches(c, ins) ==
  \/ ins.op = "jmp"
  \/ ins.op = "jcc" /\ Holds(ins.f, c.fl[1], c.fl[2])
  \/ ins.op = "cbnz" /\ U(ins.w, Reg(c, ins.n)) # 0

(***************************************************************************)
(* One instruction.  A distance counts from base: the end of the           *)
(* instruction on x86-64, its start on arm64.  "adr" loads an address      *)
(* relative to the same base.                                              *)
(***************************************************************************)
CpuStep(c, ins, base, sp, ra, rd) ==
  LET next == Effect(c, ins, sp, ra, rd)
  IN CASE Branches(c, ins) -> [c EXCEPT !.ip = base + ins.rel]
       [] ins.op = "adr" -> [SetReg(c, ins.d, base + ins.rel) EXCEPT !.ip = c.ip + ins.len]
       [] OTHER -> [next EXCEPT !.ip = c.ip + ins.len]

-----------------------------------------------------------------------------
(* What the two translators share. *)

(* Special values for target_pc in struct jump *)
TARGET_PC_EXIT == -1
TARGET_PC_DIV_BY_ZERO == -2

(* Addresses of stderr, error_printf and the registered functions *)
Stderr == 1
ErrorPrintf == 2
ExtFunc(idx) == 3 + idx

When(condition, seq) == IF condition THEN seq ELSE <<>>

(* LDDW: (uint32_t)inst.imm | ((uint64_t)inst2.imm << 32) *)
Lddw(inst, second) == U(32, inst.imm) + U(32, second.imm) * Mod(32)

=============================================================================
