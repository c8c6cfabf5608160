------------------------------- MODULE EbpfIsa -------------------------------
(***************************************************************************)
(* The eBPF instruction set as ubpf sees it (vm/ebpf.h) and the rules that *)
(* vm/ubpf_vm.c:validate applies to one instruction.                       *)
(*                                                                         *)
(* An opcode is abstracted to the group whose cases the validator and the  *)
(* interpreter treat alike; the arithmetic inside a group is not modelled  *)
(* here.  Code is a sequence, so slot pc of the C array is code[pc + 1].   *)
(***************************************************************************)
EXTENDS Integers, Sequences

CONSTANTS
  MaxInsts,     \* UBPF_MAX_INSTS
  MaxExtFuncs,  \* MAX_EXT_FUNCS, the size of vm->ext_funcs
  NULL          \* the null pointer

ASSUME MaxInstsAssumption == MaxInsts \in Nat \ {0}
ASSUME MaxExtFuncsAssumption == MaxExtFuncs \in Nat \ {0}

(***************************************************************************)
(* Opcode groups.  "zero" is opcode 0, the second slot of an lddw;         *)
(* "unknown" is every other opcode without a case.  A div or mod by a      *)
(* register is split by its width, one by an immediate is not.             *)
(***************************************************************************)
Ops == {"alu", "endian", "div32_reg", "div64_reg", "div_imm", "ldx", "store",
        "lddw", "ja", "jcc", "call", "exit", "zero", "unknown"}

Jumps == {"ja", "jcc"}

(* struct ebpf_inst: the 4-bit register fields, the offset and the immediate *)
Inst == [op : Ops, dst : 0 .. 15, src : 0 .. 15, offset : Int, imm : Int]

(* Slots taken by an instruction: only lddw takes two. *)
Width(inst) == IF inst.op = "lddw" THEN 2 ELSE 1

(* int new_pc = i + 1 + inst.offset *)
Target(code, i) == i + 1 + code[i + 1].offset

(***************************************************************************)
(* The case analysis of one iteration of validate.  table is               *)
(* vm->ext_funcs.                                                          *)
(***************************************************************************)

(* Mutant of JumpOk: a jump may land on the second half of an lddw. *)
JumpOkMiddle(code, i) ==
  code[i + 1].offset # -1 /\ Target(code, i) \in 0 .. Len(code) - 1

(* Mutant of JumpOk: new_pc <= 0 for new_pc < 0 refuses loops to the start. *)
JumpOkNotToStart(code, i) ==
  /\ code[i + 1].offset # -1
  /\ Target(code, i) \in 1 .. Len(code) - 1
  /\ code[Target(code, i) + 1].op # "zero"

JumpOk(code, i) ==
  /\ code[i + 1].offset # -1
  /\ Target(code, i) \in 0 .. Len(code) - 1
  /\ code[Target(code, i) + 1].op # "zero"

(* Mutant of CallOk: the index is tested, the entry is not. *)
CallOkUnregistered(inst, table) == inst.imm \in 0 .. MaxExtFuncs - 1

CallOk(inst, table) ==
  inst.imm \in 0 .. MaxExtFuncs - 1 /\ table[inst.imm] # NULL

OpcodeOk(code, i, table) ==
  LET inst == code[i + 1] IN
  /\ inst.op \notin {"zero", "unknown"}
  /\ inst.op = "endian" => inst.imm \in {16, 32, 64}
  /\ inst.op = "div_imm" => inst.imm # 0
  /\ inst.op = "lddw" => i + 1 < Len(code) /\ code[i + 2].op = "zero"
  /\ inst.op \in Jumps => JumpOk(code, i)
  /\ inst.op = "call" => CallOk(inst, table)

(* r10, the frame pointer, may only be named as the base of a store. *)
RegistersOk(inst) ==
  /\ inst.src <= 10
  /\ inst.dst <= 9 \/ (inst.op = "store" /\ inst.dst = 10)

InstOk(code, i, table) ==
  OpcodeOk(code, i, table) /\ RegistersOk(code[i + 1])

(***************************************************************************)
(* What loaded code is meant to satisfy, stated without a scan: the slots  *)
(* split into instruction heads and second halves of lddw so that          *)
(* execution, which starts at slot 0, can only ever be at a head or one    *)
(* past the end, and each head holds an instruction the interpreter can    *)
(* carry out.                                                              *)
(***************************************************************************)
SoundAt(code, h, H, table) ==
  LET inst == code[h + 1] IN
  /\ inst.op \notin {"zero", "unknown"}
  /\ h + Width(inst) \in H \cup {Len(code)}
  /\ inst.op = "lddw" => code[h + 2].op = "zero"
  /\ inst.op \in Jumps => Target(code, h) \in H \ {h}
  /\ inst.op = "endian" => inst.imm \in {16, 32, 64}
  /\ inst.op = "div_imm" => inst.imm # 0
  /\ inst.op = "call" => CallOk(inst, table)
  /\ RegistersOk(inst)

SoundHeads(code, H, table) ==
  /\ H \subseteq 0 .. Len(code) - 1
  /\ 0 \in H \cup {Len(code)}
  /\ \A h \in H : SoundAt(code, h, H, table)

SafeCode(code, table) ==
  \E H \in SUBSET (0 .. Len(code) - 1) : SoundHeads(code, H, table)

(***************************************************************************)
(* EndsWell: control cannot run off the end of the code, because the last  *)
(* slot is an exit or an unconditional jump.  validate does not ask this.  *)
(***************************************************************************)
EndsWell(code) == Len(code) > 0 /\ code[Len(code)].op \in {"exit", "ja"}

(* No jump goes backwards, so every path through the code is finite. *)
ForwardOnly(code) ==
  \A i \in 1 .. Len(code) : code[i].op \in Jumps => code[i].offset >= 0

(* A 32-bit div or mod by a register tests all 64 bits of the divisor. *)
HasDiv32Reg(code) == \E i \in 1 .. Len(code) : code[i].op = "div32_reg"

=============================================================================
