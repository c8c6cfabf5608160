------------------------------- MODULE MCUbpfJit -------------------------------
(***************************************************************************)
(* Programs for module UbpfJit: each eBPF instruction with operands and    *)
(* immediates at the edges of its widths, and programs with branches,      *)
(* loops, calls and divisions by zero.  A byte has two bits, so the 32-bit *)
(* word holds 0 .. 255 and an immediate -128 .. 127.                       *)
(***************************************************************************)
EXTENDS UbpfJit

MCUnwind == 1
MCCallResults == {0, 7}
MCStackTop == 128
MCArity == [fn \in 0 .. 2 |-> IF fn = 1 THEN 2 ELSE 5]

Base0 == [op |-> "exit", f |-> "none", w |-> 64, k |-> "imm", dst |-> 0, src |-> 0,
          offset |-> 0, imm |-> 0]
Exit == Base0
Alu(f, w, k, dst, src, imm) ==
  [Base0 EXCEPT !.op = "alu", !.f = f, !.w = w, !.k = k, !.dst = dst, !.src = src, !.imm = imm]
Mov(dst, imm) == Alu("mov", 64, "imm", dst, 0, imm)
Jcc(f, k, dst, src, imm, offset) ==
  [Alu(f, 64, k, dst, src, imm) EXCEPT !.op = "jcc", !.offset = offset]
Ja(offset) == [Base0 EXCEPT !.op = "ja", !.offset = offset]
Call(fn) == [Base0 EXCEPT !.op = "call", !.imm = fn]
Stx(w, dst, offset, src) == [Base0 EXCEPT !.op = "stx", !.k = "reg", !.w = w, !.dst = dst, !.offset = offset, !.src = src]
St(w, dst, offset, imm) == [Base0 EXCEPT !.op = "st", !.w = w, !.dst = dst, !.offset = offset, !.imm = imm]
Ldx(w, dst, src, offset) == [Base0 EXCEPT !.op = "ldx", !.w = w, !.dst = dst, !.src = src, !.offset = offset]
LddwOf(dst, low) == [Base0 EXCEPT !.op = "lddw", !.dst = dst, !.imm = low]
Slot2(high) == [Base0 EXCEPT !.op = "slot2", !.imm = high]
Neg(w, dst, src) == [Base0 EXCEPT !.op = "neg", !.w = w, !.dst = dst, !.src = src]
Endian(f, imm, dst) == [Base0 EXCEPT !.op = "endian", !.f = f, !.imm = imm, !.dst = dst]

BinaryFs == {"add", "sub", "or", "and", "xor"}
Shifts == {"lsh", "rsh", "arsh"}
MulDivMod == {"mul", "div", "mod"}

MulDivModInsts ==
  UNION {{Alu(f, w, "reg", 1, 2, 0), Alu(f, w, "reg", 3, 1, 0), Alu(f, w, "imm", 2, 1, 3)} :
           f \in MulDivMod, w \in {32, 64}}

Insts ==
  UNION {{Alu(f, w, "reg", 1, 2, 0), Alu(f, w, "imm", 1, 0, 2), Alu(f, w, "imm", 1, 0, -3)} :
           f \in BinaryFs \cup {"mov"}, w \in {32, 64}}
  \cup UNION {{Alu(f, w, "reg", 1, 2, 0), Alu(f, w, "imm", 1, 0, 3)} : f \in Shifts, w \in {32, 64}}
  \cup {Neg(w, 2, 2) : w \in {32, 64}}
  \cup {Endian(f, imm, 1) : f \in {"le", "be"}, imm \in {16, 32, 64}}
  \cup {Neg(64, 1, 0)}

(* r0 tells whether the jump was taken. *)
Branching(jump) == <<jump, Mov(0, 1), Exit>>

(* Stores and loads of each width, under and over an 8-byte value. *)
Memory(w, offset) ==
  {<<Stx(64, 10, -8, 1), Stx(w, 10, offset, 2), Ldx(64, 0, 10, -8), Exit>>,
   <<Stx(64, 10, -8, 1), St(w, 10, offset, -2), Ldx(64, 0, 10, -8), Exit>>,
   <<Stx(64, 10, -8, 1), Ldx(w, 0, 10, offset), Exit>>}

MultiPrograms ==
  { (* an lddw between a jump and its target *)
    <<Jcc("gt", "reg", 1, 2, 0, 3), LddwOf(0, 100), Slot2(200), Ja(1), Mov(0, 9), Exit>>,
    (* a loop *)
    <<Mov(0, 0), Mov(3, 3), Alu("add", 64, "reg", 0, 1, 0), Alu("sub", 64, "imm", 3, 0, 1),
      Jcc("ne", "imm", 3, 0, 0, -3), Exit>>,
    (* an exit in the middle, a jump at the end *)
    <<Ja(1), Exit, Mov(0, 5), Ja(-3)>>,
    (* a division after the registers it works in were set *)
    <<Mov(0, 11), Mov(3, 22), Alu("div", 64, "reg", 1, 2, 0), Alu("mod", 32, "reg", 6, 2, 0), Exit>>,
    (* an lddw whose halves are ones and zeros *)
    <<LddwOf(1, -1), Slot2(0), LddwOf(2, 0), Slot2(-1), LddwOf(0, 15), Slot2(-16), Exit>>,
    (* as many jumps as the table holds *)
    <<Jcc("eq", "reg", 1, 2, 0, 0), Jcc("ne", "reg", 1, 2, 0, 1), Jcc("lt", "reg", 1, 2, 0, 0),
      Jcc("le", "reg", 1, 2, 0, 0), Jcc("gt", "reg", 1, 2, 0, 0), Jcc("gt", "reg", 1, 2, 0, 0), Ja(-7)>> }

CallPrograms ==
  { <<Call(0), Alu("add", 64, "reg", 0, 6, 0), Exit>>,
    (* the second call may unwind *)
    <<Mov(1, 1), Call(0), Mov(1, 4), Mov(2, 5), Call(1), Mov(0, 3), Exit>>,
    (* a call, then perhaps a division by zero *)
    <<Call(0), Alu("mov", 64, "reg", 7, 0, 0), Alu("div", 64, "reg", 7, 6, 0), Exit>>,
    <<Call(2), Mov(1, 1), Mov(2, -1), Call(1), Exit>> }

WithExit(insts) == {<<inst, Exit>> : inst \in insts}

Case(progs, archs, offsets, sizes) ==
  {[prog |-> p, arch |-> a, offset |-> x, size |-> n] : p \in progs, a \in archs, x \in offsets, n \in sizes}

Both == {"x86_64", "arm64"}

MCCases ==
  Case(WithExit(MulDivModInsts), {"x86_64"}, 0 .. 10, {400})
  \cup Case(WithExit(MulDivModInsts), {"arm64"}, {0}, {400})
  \cup Case(WithExit(Insts), {"x86_64"}, {0, 4}, {400})
  \cup Case(WithExit(Insts), {"arm64"}, {0}, {400})
  \cup Case({Branching(Jcc(f, "reg", 1, 2, 0, 1)) : f \in Conditions}, Both, {0}, {400})
  \cup Case({Branching(Jcc(f, "imm", 1, 0, imm, 1)) : f \in Conditions, imm \in {2, -3}}, Both, {0}, {400})
  \cup Case(UNION {Memory(8, -5), Memory(16, -8), Memory(32, -6), Memory(64, -8)}, Both, {0}, {400})
  \cup Case(MultiPrograms, Both, {0}, {400})
  \cup Case(MultiPrograms, {"x86_64"}, {7}, {400})
  \cup Case(CallPrograms, Both, {0}, {400})
  \cup Case({<<Mov(0, 1), Exit>>}, Both, {0}, 80 .. 130)

(* r1 divided by a constant while r0, which the instruction does not name, is 0. *)
MCDivCases ==
  Case({<<Mov(0, 0), Mov(1, 6), Alu("div", 64, "imm", 1, 0, divisor), Alu("mov", 64, "reg", 0, 1, 0), Exit>> :
          divisor \in {2, 3}}, Both, {0}, {400})

MCValues == {<<7, 2>>, <<0, 3>>, <<65535, 1>>, <<300, 200>>, <<5, 256>>, <<32771, 0>>}

=============================================================================
