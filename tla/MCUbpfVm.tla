------------------------------- MODULE MCUbpfVm -------------------------------
(* Small instances of UbpfVm for TLC. *)
EXTENDS UbpfVm, FiniteSets

I(op, offset, imm) ==
  [op |-> op, dst |-> 0, src |-> 0, offset |-> offset, imm |-> imm]

Regs(op, dst, src) ==
  [op |-> op, dst |-> dst, src |-> src, offset |-> 0, imm |-> 0]

SeqsOf(S, lens) == UNION {[1 .. n -> S] : n \in lens}

(***************************************************************************)
(* Everything that moves the program counter, with offsets that reach each *)
(* slot of a three-slot program and one beyond either end.                 *)
(***************************************************************************)
ControlInsts ==
  {I("alu", 0, 0), I("lddw", 0, 0), I("zero", 0, 0), I("exit", 0, 0),
   I("call", 0, 0)}
    \cup {I(op, offset, 0) : op \in {"ja"}, offset \in -3 .. 2}
    \cup {I("jcc", offset, 0) : offset \in {-3, -2, 1}}

(* Operands at the limits validate tests, one instruction for each. *)
OperandInsts ==
  {I("endian", 0, 16), I("endian", 0, 8), I("div_imm", 0, 0), I("div_imm", 0, 1),
   I("call", 0, -1), I("call", 0, 1), I("unknown", 0, 0),
   Regs("div32_reg", 1, 10), Regs("div64_reg", 9, 1), Regs("alu", 0, 11),
   Regs("alu", 10, 0), Regs("ldx", 10, 0), Regs("ldx", 0, 10),
   Regs("store", 10, 0), Regs("store", 11, 0)}

(* Every program up to the limit, and two that are just too long. *)
ValidatorPrograms ==
  SeqsOf(ControlInsts, 0 .. 3)
    \cup SeqsOf(ControlInsts \cup OperandInsts, 1 .. 2)
    \cup {[k \in 1 .. MaxInsts |-> I("exit", 0, 0)],
          [k \in 1 .. MaxInsts + 1 |-> I("exit", 0, 0)]}

(* A few programs for the run that explores the API. *)
ApiPrograms ==
  {<<I("exit", 0, 0)>>,
   <<I("jcc", 1, 0), Regs("store", 10, 1), I("exit", 0, 0)>>,
   <<Regs("ldx", 0, 1), I("jcc", -2, 0)>>,
   <<Regs("ldx", 0, 1), I("exit", 0, 0)>>,
   <<I("call", 0, 1), I("exit", 0, 0)>>,
   <<I("ja", 0, 0), Regs("div32_reg", 0, 1), I("exit", 0, 0)>>,
   <<I("call", 0, 0), I("lddw", 0, 0), I("zero", 0, 0)>>,
   <<I("ja", 1, 0), I("lddw", 0, 0), I("zero", 0, 0)>>}

(* The validator run leaves the flags the validator does not read alone. *)
ValidatorOnly ==
  /\ unwind = -1 /\ ~bounds_check_enabled /\ ~mem
  /\ jitted = NULL
=============================================================================
