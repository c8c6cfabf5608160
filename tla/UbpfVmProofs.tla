----------------------------- MODULE UbpfVmProofs -----------------------------
(***************************************************************************)
(* Theorems about UbpfVm, for every program set, table size, address       *)
(* layout and limit that its assumptions admit.                            *)
(***************************************************************************)
EXTENDS UbpfVm, TLAPS

(* A slot number below 2^16 is not changed by the width of pc. *)
LEMMA ModSmall ==
  ASSUME NEW n \in Nat, NEW x \in 0 .. n - 1
  PROVE  x % n = x
  OBVIOUS

LEMMA ModRange ==
  ASSUME NEW n \in Nat, n > 0, NEW x \in Int
  PROVE  x % n \in 0 .. n - 1
  OBVIOUS

-----------------------------------------------------------------------------
(* Typing. *)

(***************************************************************************)
(* Which fields of the vm belong together: num_insts is the length of      *)
(* insts, a load works on an empty vm, execution and machine code need     *)
(* insts, and nothing is loaded where there is no vm.                      *)
(***************************************************************************)
FieldsInv ==
  /\ insts # NULL \/ mode = "validate" => live
  /\ mode = "validate" => code # NULL /\ Len(code) < MaxInsts /\ insts = NULL
  /\ insts # NULL => num_insts = Len(insts)
  /\ mode = "exec" => insts # NULL /\ rc = "ok"
  /\ jitted # NULL => insts # NULL /\ jitted.code = insts

Typing == TypeOK /\ FieldsInv

LEMMA TypingInit == Init => Typing
  <1>1. PcMod \in Nat /\ 0 \in 0 .. PcMod - 1
    BY MaxInstsAssumption, PcModAssumption
  <1>2. -1 \in -1 .. MaxExtFuncs
    BY MaxExtFuncsAssumption
  <1>3. EmptyTable \in Table
    BY DEF EmptyTable, Table
  <1>4. Init => TypeOK
    <2> SUFFICES ASSUME Init PROVE TypeOK
      OBVIOUS
    <2>1. live \in BOOLEAN /\ bounds_check_enabled \in BOOLEAN /\ mem \in BOOLEAN
      BY DEF Init
    <2>2. mode \in Modes /\ rc \in Outcomes
      BY DEF Init, Modes, Outcomes
    <2>3. num_insts \in 0 .. PcMod - 1 /\ pc \in 0 .. PcMod - 1 /\ i \in Nat
      BY <1>1 DEF Init
    <2>4. heads \in SUBSET Nat
      BY DEF Init
    <2> QED
      BY <1>2, <1>3, <2>1, <2>2, <2>3, <2>4 DEF Init, TypeOK
  <1>5. Init => FieldsInv
    BY DEF Init, FieldsInv
  <1> QED
    BY <1>4, <1>5 DEF Typing

(* The program counter keeps its 16 bits. *)
LEMMA GotoTyped ==
  ASSUME Typing, NEW slot \in Int, Goto(slot)
  PROVE  pc' \in 0 .. PcMod - 1
  <1>1. PcMod \in Nat /\ PcMod > 0
    BY MaxInstsAssumption, PcModAssumption
  <1> QED
    BY <1>1, ModRange DEF Goto

(* While there is something to fetch, Cur is an instruction. *)
LEMMA CurTyped ==
  ASSUME Typing, Fetching
  PROVE  /\ insts \in Programs /\ insts \in Seq(Inst)
         /\ num_insts = Len(insts) /\ pc \in 0 .. Len(insts) - 1
         /\ Cur \in Inst
  <1>1. insts \in Programs /\ num_insts = Len(insts) /\ pc \in Nat
    BY DEF Typing, TypeOK, FieldsInv, Fetching
  <1>2. insts \in Seq(Inst) /\ pc < Len(insts)
    BY <1>1, ProgramsAssumption DEF Fetching
  <1> QED
    BY <1>1, <1>2 DEF Cur

LEMMA TypingNext == Typing /\ [Next]_vars => Typing'
  <1> SUFFICES ASSUME Typing, [Next]_vars
               PROVE  Typing'
    OBVIOUS
  <1> USE DEF Typing, Modes, Outcomes, vmVars, codeVars, loadVars, execVars
  <1>0. /\ -1 \in -1 .. MaxExtFuncs
        /\ 0 \in 0 .. PcMod - 1
        /\ EmptyTable \in Table
    BY MaxExtFuncsAssumption, PcModAssumption, MaxInstsAssumption
    DEF EmptyTable, Table
  <1>1. CASE Object
    <2> USE <1>0 DEF Idle, DropCode, TypeOK, FieldsInv
    <2>1. CASE Create
      BY <2>1 DEF Create
    <2>2. CASE CreateFails
      BY <2>2 DEF CreateFails
    <2>3. CASE Unload
      BY <2>3 DEF Unload
    <2>4. CASE Destroy
      BY <2>4 DEF Destroy
    <2>5. ASSUME NEW idx \in 0 .. MaxExtFuncs, NEW fn \in Funcs, Register(idx, fn)
          PROVE  Typing'
      <3>1. ext_funcs' \in Table
        BY <2>5, MaxExtFuncsAssumption DEF Register, Table
      <3> QED
        BY <2>5, <3>1 DEF Register
    <2>6. ASSUME NEW idx \in 0 .. MaxExtFuncs, SetUnwind(idx)
          PROVE  Typing'
      <3>1. unwind' \in -1 .. MaxExtFuncs
        BY <2>6 DEF SetUnwind
      <3> QED
        BY <2>6, <3>1 DEF SetUnwind
    <2>7. ASSUME NEW enable \in BOOLEAN, ToggleBoundsCheck(enable)
          PROVE  Typing'
      BY <2>7 DEF ToggleBoundsCheck
    <2> QED
      BY <1>1, <2>1, <2>2, <2>3, <2>4, <2>5, <2>6, <2>7 DEF Object
  <1>2. CASE Load
    <2> USE <1>0 DEF Idle
    <2>1. CASE LoadRefused
      BY <2>1 DEF LoadRefused, TypeOK, FieldsInv
    <2>2. ASSUME NEW prog \in Programs, LoadCall(prog)
          PROVE  Typing'
      <3>1. prog # NULL /\ Len(prog) \in Nat
        BY ProgramsAssumption, NullIsNoProgram
      <3>2. CASE Len(prog) >= MaxInsts
        BY <2>2, <3>2 DEF LoadCall, TypeOK, FieldsInv
      <3>3. CASE ~(Len(prog) >= MaxInsts)
        <4>1. Len(prog) < MaxInsts
          BY <3>1, <3>3, MaxInstsAssumption
        <4>2. TypeOK'
          BY <2>2, <3>3 DEF LoadCall, TypeOK
        <4>3. FieldsInv'
          BY <2>2, <3>1, <3>3, <4>1 DEF LoadCall, TypeOK, FieldsInv
        <4> QED
          BY <4>2, <4>3
      <3> QED
        BY <3>2, <3>3
    <2>3. CASE ValidateAccept
      <3>1. code \in Seq(Inst) /\ i \in Nat
        BY <2>3, ProgramsAssumption DEF ValidateAccept, TypeOK, FieldsInv
      <3>2. i' \in Nat /\ heads' \in SUBSET Nat
        BY <2>3, <3>1 DEF ValidateAccept, Width, TypeOK
      <3> QED
        BY <2>3, <3>2 DEF ValidateAccept, TypeOK, FieldsInv
    <2>4. CASE ValidateReject
      BY <2>4 DEF ValidateReject, TypeOK, FieldsInv
    <2>5. CASE LoadDone
      <3>1. code \in Programs /\ Len(code) < MaxInsts
        BY <2>5 DEF LoadDone, TypeOK, FieldsInv
      <3>2. Len(code) \in 0 .. PcMod - 1
        BY <3>1, ProgramsAssumption, MaxInstsAssumption, PcModAssumption
      <3>3. num_insts' = Len(code)
        BY <2>5, <3>2, ModSmall, PcModAssumption DEF LoadDone
      <3> QED
        BY <2>5, <3>1, <3>2, <3>3 DEF LoadDone, TypeOK, FieldsInv
    <2>6. CASE LoadNoMemory
      BY <2>6 DEF LoadNoMemory, TypeOK, FieldsInv
    <2> QED
      BY <1>2, <2>1, <2>2, <2>3, <2>4, <2>5, <2>6 DEF Load, LoadStep
  <1>3. CASE Jit
    <2> USE DEF Idle
    <2>1. CASE CompileCached
      BY <2>1 DEF CompileCached, TypeOK, FieldsInv
    <2>2. CASE Compile
      <3>1. jitted' \in Jitted /\ jitted'.code = insts
        BY <2>2 DEF Compile, TypeOK, Jitted
      <3> QED
        BY <2>2, <3>1 DEF Compile, TypeOK, FieldsInv
    <2>3. CASE CompileFails
      BY <2>3 DEF CompileFails, TypeOK, FieldsInv
    <2>4. CASE CompileNoBuffer
      BY <2>4 DEF CompileNoBuffer, TypeOK, FieldsInv
    <2> QED
      BY <1>3, <2>1, <2>2, <2>3, <2>4 DEF Jit
  <1>4. ASSUME NEW has_mem \in BOOLEAN, ExecCall(has_mem)
        PROVE  Typing'
    BY <1>0, <1>4 DEF ExecCall, Idle, TypeOK, FieldsInv
  <1>5. CASE ExecStep
    <2>1. ASSUME Fetching
          PROVE  /\ pc + 1 \in Int /\ pc + Width(Cur) \in Int
                 /\ pc + 1 + Cur.offset \in Int
      <3>1. pc \in Int /\ Cur \in Inst
        BY <2>1, CurTyped
      <3> HIDE DEF Typing
      <3>2. Cur.offset \in Int
        BY <3>1 DEF Inst
      <3> QED
        BY <3>1, <3>2 DEF Width
    <2> USE DEF TypeOK, FieldsInv
    <2>2. ASSUME NEW slot \in Int, Goto(slot),
                 UNCHANGED <<vmVars, codeVars, loadVars, mem, access>>
          PROVE  Typing'
      BY <2>2, GotoTyped DEF Goto
    <2>3. ASSUME NEW outcome \in Outcomes, Return(outcome),
                 UNCHANGED <<vmVars, codeVars, loadVars, mem, access>>
          PROVE  Typing'
      BY <2>3 DEF Return
    <2>4. CASE StepAlu
      BY <2>1, <2>2, <2>4 DEF StepAlu
    <2>5. CASE StepDivReg
      BY <2>1, <2>2, <2>3, <2>5 DEF StepDivReg
    <2>6. CASE StepDiv32LowHalfZero
      BY <2>6 DEF StepDiv32LowHalfZero, Fetching
    <2>7. CASE StepJump
      BY <2>1, <2>2, <2>7 DEF StepJump
    <2>8. ASSUME NEW addr \in Addrs, NEW size \in AccessSizes, StepMemory(addr, size)
          PROVE  Typing'
      <3>1. access' \in Access \cup {NULL}
        BY <2>8 DEF StepMemory, CarryOut, Access
      <3>2. pc' \in 0 .. PcMod - 1
        BY <2>1, <2>8, GotoTyped DEF StepMemory, CarryOut, Return
      <3> QED
        BY <2>8, <3>1, <3>2 DEF StepMemory, CarryOut, Fetching, Goto, Return
    <2>9. CASE StepCall
      <3>1. CASE Goto(pc + 1)
        BY <2>1, <2>2, <2>9, <3>1 DEF StepCall
      <3>2. CASE Return("ok")
        BY <2>3, <2>9, <3>2 DEF StepCall
      <3>3. CASE mode' = "crash" /\ UNCHANGED <<pc, rc>>
        BY <2>9, <3>3 DEF StepCall
      <3> QED
        BY <2>9, <3>1, <3>2, <3>3 DEF StepCall
    <2>10. CASE StepExit
      BY <2>3, <2>10 DEF StepExit
    <2>11. CASE FetchPastEnd
      BY <2>11 DEF FetchPastEnd
    <2> QED
      BY <1>5, <2>4, <2>5, <2>6, <2>7, <2>8, <2>9, <2>10, <2>11 DEF ExecStep
  <1>6. CASE UNCHANGED vars
    BY <1>6 DEF vars, TypeOK, FieldsInv
  <1> QED
    BY <1>1, <1>2, <1>3, <1>4, <1>5, <1>6 DEF Next, Ended

THEOREM TypeCorrect == Spec => []TypeOK
  <1>1. Spec => []Typing
    BY TypingInit, TypingNext, PTL DEF Spec
  <1> QED
    BY <1>1, PTL DEF Typing

-----------------------------------------------------------------------------
(* The scan of validate, as facts about code alone. *)

(***************************************************************************)
(* What the scan knows when it reaches slot n having taken the slots of H  *)
(* as instructions: each passed its tests and leads on to another of them  *)
(* or to n, and the slots it skipped hold opcode 0.                        *)
(***************************************************************************)
Scanned(prog, n, H, table) ==
  /\ n \in 0 .. Len(prog)
  /\ H \subseteq 0 .. n - 1
  /\ 0 \in H \cup {n}
  /\ \A h \in H : /\ InstOk(prog, h, table)
                  /\ h + Width(prog[h + 1]) \in H \cup {n}
  /\ \A k \in (0 .. n - 1) \ H : prog[k + 1].op = "zero"

(* The scan starts with nothing known. *)
LEMMA ScannedStart ==
  ASSUME NEW prog \in Seq(Inst), NEW table
  PROVE  Scanned(prog, 0, {}, table)
  BY DEF Scanned

(* One iteration that accepts carries what is known over its slot or two. *)
LEMMA ScannedStep ==
  ASSUME NEW prog \in Seq(Inst), NEW n, NEW H, NEW table,
         Scanned(prog, n, H, table), n < Len(prog), InstOk(prog, n, table)
  PROVE  Scanned(prog, n + Width(prog[n + 1]), H \cup {n}, table)
  <1> DEFINE m == n + Width(prog[n + 1])
             G == H \cup {n}
  <1>1. n \in 0 .. Len(prog) - 1 /\ Len(prog) \in Nat /\ H \subseteq 0 .. n - 1
    BY DEF Scanned
  <1>2. \/ prog[n + 1].op # "lddw" /\ m = n + 1
        \/ prog[n + 1].op = "lddw" /\ m = n + 2 /\ n + 1 < Len(prog)
             /\ prog[n + 2].op = "zero"
    BY <1>1 DEF Width, InstOk, OpcodeOk
  <1>3. m \in 0 .. Len(prog) /\ n < m
    BY <1>1, <1>2
  <1>4. G \subseteq 0 .. m - 1
    BY <1>1, <1>3
  <1>5. 0 \in G
    BY DEF Scanned
  <1>6. ASSUME NEW h \in G
        PROVE  InstOk(prog, h, table) /\ h + Width(prog[h + 1]) \in G \cup {m}
    BY <1>6 DEF Scanned
  <1>7. ASSUME NEW k \in (0 .. m - 1) \ G
        PROVE  prog[k + 1].op = "zero"
    <2>1. CASE k \in 0 .. n - 1
      BY <2>1 DEF Scanned
    <2>2. CASE k = n + 1
      BY <1>1, <1>2, <2>2
    <2> QED
      BY <1>1, <1>2, <2>1, <2>2
  <1> HIDE DEF m, G
  <1>8. Scanned(prog, m, G, table)
    BY <1>3, <1>4, <1>5, <1>6, <1>7 DEF Scanned
  <1> QED
    BY <1>8 DEF m, G

(***************************************************************************)
(* At the end of the code the scan has its decomposition: a jump target    *)
(* that is in range and not opcode 0 can only be one of the slots of H.    *)
(***************************************************************************)
LEMMA ScannedEnd ==
  ASSUME NEW prog \in Seq(Inst), NEW H, NEW table,
         Scanned(prog, Len(prog), H, table)
  PROVE  SoundHeads(prog, H, table)
  <1>1. ASSUME NEW h \in H
        PROVE  SoundAt(prog, h, H, table)
    <2>1. InstOk(prog, h, table) /\ h + Width(prog[h + 1]) \in H \cup {Len(prog)}
      BY DEF Scanned
    <2>2. h \in 0 .. Len(prog) - 1 /\ prog[h + 1] \in Inst
      BY DEF Scanned
    <2>3. ASSUME prog[h + 1].op \in Jumps
          PROVE  Target(prog, h) \in H \ {h}
      <3>1. JumpOk(prog, h)
        BY <2>1, <2>3 DEF InstOk, OpcodeOk
      <3>2. Target(prog, h) \in H
        BY <3>1 DEF JumpOk, Scanned
      <3>3. Target(prog, h) # h
        BY <2>2, <3>1 DEF JumpOk, Target, Inst
      <3> QED
        BY <3>2, <3>3
    <2> QED
      BY <2>1, <2>2, <2>3 DEF SoundAt, InstOk, OpcodeOk
  <1> QED
    BY <1>1 DEF Scanned, SoundHeads

(* Each slot that any decomposition has to contain passes the scan's tests. *)
LEMMA SoundPasses ==
  ASSUME NEW prog \in Seq(Inst), NEW H, NEW table,
         SoundHeads(prog, H, table), NEW n \in H
  PROVE  /\ InstOk(prog, n, table)
         /\ n + Width(prog[n + 1]) \in H \cup {Len(prog)}
  <1>1. SoundAt(prog, n, H, table) /\ n \in 0 .. Len(prog) - 1
    BY DEF SoundHeads
  <1>2. prog[n + 1] \in Inst
    BY <1>1
  <1>3. ASSUME prog[n + 1].op \in Jumps
        PROVE  JumpOk(prog, n)
    <2>1. Target(prog, n) \in H \ {n}
      BY <1>1, <1>3 DEF SoundAt
    <2>2. Target(prog, n) \in 0 .. Len(prog) - 1
          /\ prog[Target(prog, n) + 1].op # "zero"
      BY <2>1 DEF SoundHeads, SoundAt
    <2>3. prog[n + 1].offset # -1
      BY <1>1, <1>2, <2>1 DEF Target, Inst
    <2> QED
      BY <2>2, <2>3 DEF JumpOk
  <1>4. prog[n + 1].op = "lddw" => n + 1 < Len(prog)
    BY <1>1 DEF SoundAt, SoundHeads, Width
  <1> QED
    BY <1>1, <1>3, <1>4 DEF SoundAt, InstOk, OpcodeOk

(* Binding one more function, or another one, keeps code safe. *)
LEMMA BindKeepsSound ==
  ASSUME NEW prog \in Seq(Inst), NEW H, NEW table \in Table,
         NEW idx \in 0 .. MaxExtFuncs - 1, NEW fn \in Funcs,
         SoundHeads(prog, H, table)
  PROVE  SoundHeads(prog, H, [table EXCEPT ![idx] = fn])
  <1> DEFINE T == [table EXCEPT ![idx] = fn]
  <1>1. ASSUME NEW inst, CallOk(inst, table)
        PROVE  CallOk(inst, T)
    BY <1>1, FuncsAssumption DEF CallOk, Table
  <1> HIDE DEF T
  <1>2. ASSUME NEW h \in H
        PROVE  SoundAt(prog, h, H, T)
    BY <1>1 DEF SoundHeads, SoundAt
  <1>3. SoundHeads(prog, H, T)
    BY <1>2 DEF SoundHeads
  <1> QED
    BY <1>3 DEF T

-----------------------------------------------------------------------------
(* Safety of what is loaded, translated and executed. *)

(***************************************************************************)
(* AcceptedIsSafe is not inductive: it says nothing of a scan in progress, *)
(* and its decomposition could be another one at each step.  The           *)
(* strengthening follows the one the scan builds in heads.                 *)
(***************************************************************************)
ScanInv == mode = "validate" => Scanned(code, i, heads, ext_funcs)

LoadedInv == insts # NULL => SoundHeads(insts, heads, ext_funcs)

JitInv == jitted # NULL => SoundHeads(insts, heads, jitted.table)

(* Each decomposition of the code being scanned contains the next slot. *)
OnlyScanInv ==
  mode = "validate" =>
    \A H \in SUBSET (0 .. Len(code) - 1) :
      SoundHeads(code, H, ext_funcs) => i \in H \cup {Len(code)}

(* Execution is at an instruction of the decomposition H, or gone for a reason. *)
ExecOn(H) ==
  /\ mode = "exec" => /\ pc \in H \cup {num_insts}
                      /\ pc = num_insts => ~EndsWell(insts)
  /\ mode = "wild" => ~EndsWell(insts)
  /\ mode \in {"crash", "smashed"} /\ rc # "oom" => pc < num_insts /\ Explained

ExecInv == ExecOn(heads)

SafetyInv == ScanInv /\ LoadedInv /\ JitInv /\ OnlyScanInv /\ ExecInv

LEMMA SafetyInit == Init => SafetyInv
  BY DEF Init, SafetyInv, ScanInv, LoadedInv, JitInv, OnlyScanInv, ExecInv, ExecOn

(***************************************************************************)
(* An execution step that goes on takes pc from an instruction to where    *)
(* that instruction leads, and past the end only from a last slot that is  *)
(* neither an exit nor an unconditional jump.                              *)
(***************************************************************************)
LEMMA StepStaysOnHeads ==
  ASSUME Typing, NEW H, SoundHeads(insts, H, ext_funcs), ExecOn(H),
         Fetching, NEW slot, Goto(slot),
         \/ slot = pc + Width(Cur) /\ Cur.op \notin {"exit", "ja"}
         \/ slot = Target(insts, pc) /\ Cur.op \in Jumps
  PROVE  /\ pc' \in H \cup {num_insts}
         /\ pc' = num_insts => ~EndsWell(insts)
  <1>1. /\ insts \in Seq(Inst) /\ num_insts = Len(insts) /\ Len(insts) \in Nat
        /\ pc \in 0 .. Len(insts) - 1 /\ Cur = insts[pc + 1]
    BY CurTyped DEF Cur
  <1>2. pc \in H
    BY <1>1 DEF ExecOn, Fetching
  <1>3. SoundAt(insts, pc, H, ext_funcs) /\ H \subseteq 0 .. Len(insts) - 1
    BY <1>2 DEF SoundHeads
  <1>4. slot \in H \cup {Len(insts)}
    BY <1>1, <1>3 DEF SoundAt
  <1>5. pc' = slot
    <2>1. Len(insts) \in 0 .. PcMod - 1 /\ PcMod \in Nat
      BY <1>1, PcModAssumption DEF Typing, TypeOK
    <2>2. slot \in 0 .. PcMod - 1
      BY <1>3, <1>4, <2>1
    <2> QED
      BY <2>1, <2>2, ModSmall DEF Goto
  <1>6. ASSUME slot = Len(insts)
        PROVE  ~EndsWell(insts)
    <2>1. slot = pc + Width(Cur) /\ Cur.op \notin {"exit", "ja"}
      BY <1>1, <1>3, <1>6 DEF SoundAt
    <2>2. CASE Cur.op = "lddw"
      BY <1>1, <1>3, <1>6, <2>1, <2>2 DEF SoundAt, Width, EndsWell
    <2>3. CASE Cur.op # "lddw"
      BY <1>1, <1>6, <2>1, <2>3 DEF Width, EndsWell
    <2> QED
      BY <2>2, <2>3
  <1> QED
    BY <1>1, <1>4, <1>5, <1>6

(* Without a wrap, the two comparisons of bounds_check are containment. *)
LEMMA RegionHoldsBytes ==
  ASSUME NEW addr \in Nat, NEW size \in Nat, NEW base \in Nat, NEW len \in Nat,
         addr + size < AddrMod, InRegion(addr, size, base, len)
  PROVE  Bytes(addr, size) \subseteq Bytes(base, len)
  <1>1. AddrMod \in Nat /\ addr + size \in 0 .. AddrMod - 1
    BY LayoutAssumption
  <1>2. (addr + size) % AddrMod = addr + size
    BY <1>1, ModSmall
  <1>3. addr >= base /\ addr + size <= base + len
    BY <1>2 DEF InRegion
  <1> QED
    BY <1>3 DEF Bytes

(* What the check lets through is memory lent to the bytecode. *)
LEMMA CheckedIsHarmless ==
  ASSUME NEW addr \in Addrs, NEW size \in AccessSizes, NEW op,
         bounds_check_enabled, BoundsCheck(addr, size), addr + size < AddrMod
  PROVE  Harmless(op, addr, size)
  <1>1. /\ addr \in Nat /\ size \in Nat /\ Mem \in Nat /\ MemLen \in Nat
        /\ Stack \in Nat /\ StackSize \in Nat /\ AddrMod \in Nat
    BY LayoutAssumption
  <1>2. \/ Bytes(addr, size) \subseteq Bytes(Mem, MemLen)
        \/ Bytes(addr, size) \subseteq Bytes(Stack, StackSize)
    BY <1>1, RegionHoldsBytes DEF BoundsCheck
  <1>3. Bytes(addr, size) \subseteq (Readable \cap Writable) \ Vital
    BY <1>2, MemoryAssumption
  <1>4. \A a \in Bytes(addr, size) : a % AddrMod = a
    <2> TAKE a \in Bytes(addr, size)
    <2>1. a \in 0 .. AddrMod - 1
      BY <1>1 DEF Bytes
    <2> QED
      BY <1>1, <2>1, ModSmall
  <1>5. Touched(addr, size) \subseteq Bytes(addr, size)
    BY <1>4 DEF Touched
  <1> QED
    BY <1>3, <1>5 DEF Harmless, Mapped

(***************************************************************************)
(* Execution stays on the heads of any decomposition of the code in hand,  *)
(* however the code came to be in the vm.                                  *)
(***************************************************************************)
LEMMA ExecStaysOnHeads ==
  ASSUME Typing, NEW H, SoundHeads(insts, H, ext_funcs), ExecOn(H), ExecStep
  PROVE  ExecOn(H)'
  <1>0. mode = "exec" /\ UNCHANGED <<vmVars, codeVars, loadVars>>
    BY DEF ExecStep, StepAlu, StepDivReg, StepDiv32LowHalfZero, StepJump,
           StepMemory, StepCall, StepExit, FetchPastEnd, Fetching, execVars
  <1> USE DEF vmVars, codeVars, loadVars, execVars
  <1>2. ASSUME Fetching, NEW slot, Goto(slot),
               \/ slot = pc + Width(Cur) /\ Cur.op \notin {"exit", "ja"}
               \/ slot = Target(insts, pc) /\ Cur.op \in Jumps
        PROVE  ExecOn(H)'
    <2>1. mode' = "exec"
      BY <1>2 DEF Goto, Fetching
    <2>2. /\ pc' \in H \cup {num_insts}
          /\ pc' = num_insts => ~EndsWell(insts)
      BY <1>2, StepStaysOnHeads
    <2> QED
      BY <1>0, <2>1, <2>2 DEF ExecOn
  <1>3. ASSUME NEW outcome, Return(outcome)
        PROVE  ExecOn(H)'
    BY <1>3 DEF Return, ExecOn
  <1>4. CASE StepAlu
    BY <1>2, <1>4 DEF StepAlu
  <1>5. CASE StepDivReg
    <2>1. Width(Cur) = 1 /\ Cur.op \notin {"exit", "ja"}
      BY <1>5 DEF StepDivReg, Width
    <2> QED
      BY <1>2, <1>3, <1>5, <2>1 DEF StepDivReg
  <1>6. CASE StepDiv32LowHalfZero
    BY <1>0, <1>6 DEF StepDiv32LowHalfZero, Fetching, Explained, Cur, ExecOn
  <1>7. CASE StepJump
    <2>1. CASE Cur.op \in Jumps /\ Goto(pc + 1 + Cur.offset)
      BY <1>2, <1>7, <2>1 DEF StepJump, Target, Cur
    <2>2. CASE Cur.op = "jcc" /\ Goto(pc + 1)
      BY <1>2, <1>7, <2>2 DEF StepJump, Width
    <2> QED
      BY <1>7, <2>1, <2>2 DEF StepJump
  <1>8. ASSUME NEW addr \in Addrs, NEW size \in AccessSizes, StepMemory(addr, size)
        PROVE  ExecOn(H)'
    <2>1. Width(Cur) = 1 /\ Cur.op \notin {"exit", "ja"}
      BY <1>8 DEF StepMemory, Width
    <2>2. CASE ~BoundsCheck(addr, size)
      BY <1>3, <1>8, <2>2 DEF StepMemory
    <2>3. CASE BoundsCheck(addr, size) /\ Harmless(Cur.op, addr, size)
      BY <1>2, <1>8, <2>1, <2>3 DEF StepMemory, CarryOut, Harmless
    <2>4. CASE BoundsCheck(addr, size) /\ ~Harmless(Cur.op, addr, size)
      <3>1. /\ Fetching /\ Cur.op \in {"ldx", "store"}
            /\ mode' \in {"crash", "smashed"} /\ UNCHANGED <<pc, rc>>
            /\ access' = [addr |-> addr, size |-> size]
        BY <1>8, <2>4 DEF StepMemory, CarryOut
      <3>2. access' \in Access
        BY <3>1 DEF Access
      <3>3. bounds_check_enabled => addr + size >= AddrMod
        <4>1. addr + size \in Int /\ AddrMod \in Int
          BY LayoutAssumption
        <4> QED
          BY <2>4, <4>1, CheckedIsHarmless
      <3>4. Explained'
        BY <1>0, <2>4, <3>1, <3>2, <3>3 DEF Explained, Cur
      <3> QED
        BY <1>0, <3>1, <3>4 DEF Fetching, ExecOn
    <2> QED
      BY <2>2, <2>3, <2>4
  <1>9. CASE StepCall
    <2>1. ext_funcs[Cur.imm] # NULL
      <3>1. pc \in H
        BY <1>9, CurTyped DEF StepCall, Fetching, ExecOn
      <3> QED
        BY <1>9, <3>1 DEF StepCall, SoundHeads, SoundAt, CallOk, Cur
    <2>2. Width(Cur) = 1 /\ Cur.op \notin {"exit", "ja"}
      BY <1>9 DEF StepCall, Width
    <2> QED
      BY <1>2, <1>3, <1>9, <2>1, <2>2 DEF StepCall
  <1>10. CASE StepExit
    BY <1>3, <1>10 DEF StepExit
  <1>11. CASE FetchPastEnd
    <2>1. pc = num_insts
      <3>1. num_insts = Len(insts)
        BY <1>11 DEF FetchPastEnd, Typing, FieldsInv
      <3>2. pc \in H \cup {num_insts} /\ pc >= num_insts
        BY <1>11 DEF FetchPastEnd, ExecOn
      <3>3. Len(insts) \in Nat
        BY <3>1 DEF Typing, TypeOK
      <3>4. H \subseteq 0 .. Len(insts) - 1
        BY DEF SoundHeads
      <3> QED
        BY <3>1, <3>2, <3>3, <3>4
    <2> QED
      BY <1>11, <2>1 DEF FetchPastEnd, ExecOn
  <1> QED
    BY <1>4, <1>5, <1>6, <1>7, <1>8, <1>9, <1>10, <1>11 DEF ExecStep

(***************************************************************************)
(* Calls that touch neither code nor table, and leave the mode alone, keep *)
(* everything.                                                             *)
(***************************************************************************)
LEMMA SafetyFrame ==
  ASSUME SafetyInv, mode \notin {"crash", "smashed"},
         UNCHANGED <<ext_funcs, codeVars, mode, loadVars, pc>>
  PROVE  SafetyInv'
  BY DEF SafetyInv, ScanInv, LoadedInv, JitInv, OnlyScanInv, ExecInv, ExecOn,
         codeVars, loadVars

(* Dropping the code leaves nothing to be claimed. *)
LEMMA SafetyDrop ==
  ASSUME SafetyInv, mode = "idle", DropCode, UNCHANGED <<mode, code, i>>
  PROVE  SafetyInv'
  BY DEF SafetyInv, ScanInv, LoadedInv, JitInv, OnlyScanInv, ExecInv, ExecOn, DropCode

LEMMA SafetyObject == Typing /\ SafetyInv /\ Object => SafetyInv'
  <1> SUFFICES ASSUME Typing, SafetyInv, Object
               PROVE  SafetyInv'
    OBVIOUS
  <1> USE DEF Idle, vmVars, codeVars, loadVars, execVars
  <1>1. CASE Create
    <2>1. insts = NULL /\ jitted = NULL
      <3>1. mode = "idle" /\ ~live
        BY <1>1 DEF Create
      <3> QED
        BY <3>1 DEF Typing, FieldsInv
    <2> QED
      BY <1>1, <2>1
      DEF Create, SafetyInv, ScanInv, LoadedInv, JitInv, OnlyScanInv, ExecInv, ExecOn
  <1>2. CASE CreateFails
    BY <1>2, SafetyFrame DEF CreateFails
  <1>3. CASE Unload
    BY <1>3, SafetyDrop DEF Unload
  <1>4. CASE Destroy
    BY <1>4, SafetyDrop DEF Destroy
  <1>5. ASSUME NEW idx \in 0 .. MaxExtFuncs, NEW fn \in Funcs, Register(idx, fn)
        PROVE  SafetyInv'
    <2>1. CASE idx >= MaxExtFuncs
      BY <1>5, <2>1, SafetyFrame DEF Register
    <2>2. CASE idx < MaxExtFuncs
      <3>1. idx \in 0 .. MaxExtFuncs - 1
        BY <2>2, MaxExtFuncsAssumption
      <3>2. LoadedInv'
        <4>1. CASE insts = NULL
          BY <1>5, <4>1 DEF Register, LoadedInv
        <4>2. CASE insts # NULL
          <5>1. insts \in Seq(Inst) /\ ext_funcs \in Table
            BY <4>2, ProgramsAssumption DEF Typing, TypeOK
          <5>2. SoundHeads(insts, heads, [ext_funcs EXCEPT ![idx] = fn])
            BY <3>1, <4>2, <5>1, BindKeepsSound DEF SafetyInv, LoadedInv
          <5> QED
            BY <1>5, <2>2, <3>1, <5>2, MaxExtFuncsAssumption DEF Register, LoadedInv
        <4> QED
          BY <4>1, <4>2
      <3> QED
        BY <1>5, <3>2
        DEF Register, SafetyInv, ScanInv, JitInv, OnlyScanInv, ExecInv, ExecOn
    <2> QED
      BY <2>1, <2>2, MaxExtFuncsAssumption
  <1>6. ASSUME NEW idx \in 0 .. MaxExtFuncs, SetUnwind(idx)
        PROVE  SafetyInv'
    BY <1>6, SafetyFrame DEF SetUnwind
  <1>7. ASSUME NEW enable \in BOOLEAN, ToggleBoundsCheck(enable)
        PROVE  SafetyInv'
    BY <1>7, SafetyFrame DEF ToggleBoundsCheck
  <1> QED
    BY <1>1, <1>2, <1>3, <1>4, <1>5, <1>6, <1>7 DEF Object

LEMMA SafetyLoad == Typing /\ SafetyInv /\ Load => SafetyInv'
  <1> SUFFICES ASSUME Typing, SafetyInv, Load
               PROVE  SafetyInv'
    OBVIOUS
  <1> USE DEF Idle, vmVars, codeVars, loadVars, execVars
  <1>1. CASE LoadRefused
    BY <1>1, SafetyFrame DEF LoadRefused
  <1>2. ASSUME NEW prog \in Programs, LoadCall(prog)
        PROVE  SafetyInv'
    <2>1. CASE Len(prog) >= MaxInsts
      BY <1>2, <2>1, SafetyFrame DEF LoadCall
    <2>2. CASE ~(Len(prog) >= MaxInsts)
      <3>1. /\ prog \in Seq(Inst) /\ code' = prog /\ i' = 0 /\ heads' = {}
            /\ mode' = "validate" /\ insts' = NULL /\ jitted' = NULL
            /\ ext_funcs' = ext_funcs
        BY <1>2, <2>2, ProgramsAssumption DEF LoadCall, Typing, FieldsInv
      <3>2. ScanInv'
        BY <3>1, ScannedStart DEF ScanInv
      <3>3. OnlyScanInv'
        <4> SUFFICES ASSUME NEW H \in SUBSET (0 .. Len(prog) - 1),
                            SoundHeads(prog, H, ext_funcs)
                     PROVE  0 \in H \cup {Len(prog)}
          BY <3>1 DEF OnlyScanInv
        <4> QED
          BY DEF SoundHeads
      <3> QED
        BY <3>1, <3>2, <3>3 DEF SafetyInv, LoadedInv, JitInv, ExecInv, ExecOn
    <2> QED
      BY <2>1, <2>2
  <1>3. CASE ValidateAccept
    <2>1. /\ code \in Seq(Inst) /\ insts = NULL /\ jitted = NULL
          /\ Scanned(code, i, heads, ext_funcs)
      BY <1>3, ProgramsAssumption
      DEF ValidateAccept, Typing, TypeOK, FieldsInv, SafetyInv, ScanInv
    <2>2. ScanInv'
      BY <1>3, <2>1, ScannedStep DEF ValidateAccept, ScanInv
    <2>3. OnlyScanInv'
      <3> SUFFICES ASSUME NEW H \in SUBSET (0 .. Len(code) - 1),
                          SoundHeads(code, H, ext_funcs)
                   PROVE  i + Width(code[i + 1]) \in H \cup {Len(code)}
        BY <1>3 DEF ValidateAccept, OnlyScanInv
      <3>1. i \in H
        BY <1>3, <2>1 DEF ValidateAccept, SafetyInv, OnlyScanInv
      <3> QED
        BY <2>1, <3>1, SoundPasses
    <2> QED
      BY <1>3, <2>1, <2>2, <2>3
      DEF ValidateAccept, SafetyInv, LoadedInv, JitInv, ExecInv, ExecOn
  <1>4. ASSUME mode = "validate", mode' = "idle", UNCHANGED <<vmVars, codeVars>>
        PROVE  SafetyInv'
    BY <1>4
    DEF Typing, FieldsInv, SafetyInv, ScanInv, LoadedInv, JitInv, OnlyScanInv, ExecInv, ExecOn
  <1>5. CASE ValidateReject
    BY <1>4, <1>5 DEF ValidateReject
  <1>6. CASE LoadNoMemory
    BY <1>4, <1>6 DEF LoadNoMemory
  <1>7. CASE LoadDone
    <2>1. /\ code \in Seq(Inst) /\ jitted = NULL
          /\ Scanned(code, i, heads, ext_funcs)
      BY <1>7, ProgramsAssumption
      DEF LoadDone, Typing, TypeOK, FieldsInv, SafetyInv, ScanInv
    <2>2. i = Len(code)
      BY <1>7, <2>1 DEF LoadDone, Scanned
    <2>3. SoundHeads(code, heads, ext_funcs)
      BY <2>1, <2>2, ScannedEnd
    <2> QED
      BY <1>7, <2>1, <2>3
      DEF LoadDone, SafetyInv, ScanInv, LoadedInv, JitInv, OnlyScanInv, ExecInv, ExecOn
  <1> QED
    BY <1>1, <1>2, <1>3, <1>5, <1>6, <1>7 DEF Load, LoadStep

LEMMA SafetyJit == Typing /\ SafetyInv /\ Jit => SafetyInv'
  <1> SUFFICES ASSUME Typing, SafetyInv, Jit
               PROVE  SafetyInv'
    OBVIOUS
  <1> USE DEF Idle, vmVars, codeVars, loadVars, execVars
  <1>1. CASE CompileCached
    BY <1>1, SafetyFrame DEF CompileCached
  <1>2. CASE Compile
    BY <1>2
    DEF Compile, SafetyInv, ScanInv, LoadedInv, JitInv, OnlyScanInv, ExecInv, ExecOn
  <1>3. CASE CompileFails
    BY <1>3, SafetyFrame DEF CompileFails
  <1>4. CASE CompileNoBuffer
    BY <1>4
    DEF CompileNoBuffer, SafetyInv, ScanInv, LoadedInv, JitInv, OnlyScanInv, ExecInv, ExecOn
  <1> QED
    BY <1>1, <1>2, <1>3, <1>4 DEF Jit

LEMMA SafetyExecCall ==
  ASSUME Typing, SafetyInv, NEW has_mem, ExecCall(has_mem)
  PROVE  SafetyInv'
  <1> USE DEF Idle, vmVars, codeVars, loadVars, execVars
  <1>1. CASE insts = NULL
    BY <1>1, SafetyFrame DEF ExecCall
  <1>2. CASE insts # NULL
    <2>1. /\ mode' = "exec" /\ pc' = 0 /\ num_insts' = Len(insts)
          /\ UNCHANGED <<vmVars, codeVars, loadVars>>
      BY <1>2 DEF ExecCall, Typing, FieldsInv
    <2>2. SoundHeads(insts, heads, ext_funcs)
      BY <1>2 DEF SafetyInv, LoadedInv
    <2>3. ExecInv'
      BY <2>1, <2>2 DEF SoundHeads, EndsWell, ExecInv, ExecOn
    <2> QED
      BY <2>1, <2>3 DEF SafetyInv, ScanInv, LoadedInv, JitInv, OnlyScanInv
  <1> QED
    BY <1>1, <1>2

LEMMA SafetyExecStep == Typing /\ SafetyInv /\ ExecStep => SafetyInv'
  <1> SUFFICES ASSUME Typing, SafetyInv, ExecStep
               PROVE  SafetyInv'
    OBVIOUS
  <1>0. mode = "exec" /\ UNCHANGED <<vmVars, codeVars, loadVars>>
    BY DEF ExecStep, StepAlu, StepDivReg, StepDiv32LowHalfZero, StepJump,
           StepMemory, StepCall, StepExit, FetchPastEnd, Fetching, execVars
  <1> USE DEF vmVars, codeVars, loadVars, execVars
  <1>1. LoadedInv' /\ JitInv'
    BY <1>0 DEF SafetyInv, LoadedInv, JitInv
  <1>2. ScanInv' /\ OnlyScanInv'
    <2>1. mode' # "validate"
      BY <1>0 DEF ExecStep, StepAlu, StepDivReg, StepDiv32LowHalfZero, StepJump,
             StepMemory, CarryOut, StepCall, StepExit, FetchPastEnd, Goto, Return
    <2> QED
      BY <2>1 DEF ScanInv, OnlyScanInv
  <1>3. ExecInv'
    <2>1. PICK H : H = heads
      OBVIOUS
    <2>2. SoundHeads(insts, H, ext_funcs) /\ ExecOn(H)
      BY <1>0, <2>1 DEF Typing, FieldsInv, SafetyInv, LoadedInv, ExecInv, ExecOn
    <2>3. ExecOn(H)'
      BY <2>2, ExecStaysOnHeads
    <2> QED
      BY <1>0, <2>1, <2>3 DEF ExecInv, ExecOn
  <1> QED
    BY <1>1, <1>2, <1>3 DEF SafetyInv

LEMMA SafetyNext == Typing /\ SafetyInv /\ [Next]_vars => SafetyInv'
  <1> SUFFICES ASSUME Typing, SafetyInv, [Next]_vars
               PROVE  SafetyInv'
    OBVIOUS
  <1>1. CASE UNCHANGED vars
    BY <1>1 DEF vars, vmVars, codeVars, loadVars, execVars, Explained, Cur,
         SafetyInv, ScanInv, LoadedInv, JitInv, OnlyScanInv, ExecInv, ExecOn
  <1> QED
    BY <1>1, SafetyObject, SafetyLoad, SafetyJit, SafetyExecCall, SafetyExecStep
    DEF Next, Ended

LEMMA Invariance == Spec => [](Typing /\ SafetyInv)
  BY TypingInit, TypingNext, SafetyInit, SafetyNext, PTL DEF Spec

-----------------------------------------------------------------------------
(* What the host relies on. *)

(* Installed code is safe: the decomposition the scan found shows it. *)
THEOREM LoadIsSound == Spec => []AcceptedIsSafe
  <1>1. Typing /\ SafetyInv => AcceptedIsSafe
    BY DEF SafetyInv, LoadedInv, SoundHeads, SafeCode, AcceptedIsSafe
  <1> QED
    BY <1>1, Invariance, PTL

(***************************************************************************)
(* Code turned away by the scan is unsafe: any decomposition would contain *)
(* the slot the scan stopped at, and that slot would then pass its tests.  *)
(***************************************************************************)
THEOREM LoadIsComplete == Spec => RejectedIsUnsafe
  <1>1. Typing /\ SafetyInv /\ [Next]_vars =>
          [mode = "validate" /\ mode' = "idle" /\ rc' = "rejected" =>
             ~SafeCode(code, ext_funcs)]_vars
    <2> SUFFICES ASSUME Typing, SafetyInv, Next, mode = "validate",
                        mode' = "idle", rc' = "rejected"
                 PROVE  ~SafeCode(code, ext_funcs)
      OBVIOUS
    <2>1. ValidateReject
      BY DEF Next, Object, Load, LoadStep, Jit, ExecStep, Ended, vars,
             Create, CreateFails, Unload, Destroy, Register, SetUnwind,
             ToggleBoundsCheck, LoadRefused, LoadCall, ValidateAccept,
             LoadDone, LoadNoMemory, CompileCached, Compile, CompileFails,
             CompileNoBuffer, ExecCall, StepAlu, StepDivReg,
             StepDiv32LowHalfZero, StepJump, StepMemory, CarryOut, StepCall,
             StepExit, FetchPastEnd, Fetching, Idle, Goto, Return
    <2>2. code \in Seq(Inst) /\ i < Len(code) /\ ~InstOk(code, i, ext_funcs)
      BY <2>1, ProgramsAssumption DEF ValidateReject, Typing, TypeOK, FieldsInv
    <2>3. ASSUME NEW H \in SUBSET (0 .. Len(code) - 1), SoundHeads(code, H, ext_funcs)
          PROVE  FALSE
      <3>1. i \in H \cup {Len(code)}
        BY <2>3, <2>2 DEF SafetyInv, OnlyScanInv
      <3>2. i \in H
        BY <2>2, <3>1
      <3> QED
        BY <2>2, <2>3, <3>2, SoundPasses
    <2> QED
      BY <2>3 DEF SafeCode
  <1> QED
    BY <1>1, Invariance, PTL DEF Spec, RejectedIsUnsafe

(* The interpreter fetches nothing but instructions of the loaded code. *)
THEOREM FetchIsInside == Spec => []NoWildFetch
  <1>1. Typing /\ SafetyInv => NoWildFetch
    <2> SUFFICES ASSUME Typing, SafetyInv PROVE NoWildFetch
      OBVIOUS
    <2>1. ASSUME mode = "exec", pc # num_insts
          PROVE  pc < num_insts /\ Cur.op \notin {"zero", "unknown"}
      <3>1. /\ insts \in Seq(Inst) /\ num_insts = Len(insts)
            /\ SoundHeads(insts, heads, ext_funcs)
        BY <2>1, ProgramsAssumption
        DEF Typing, TypeOK, FieldsInv, SafetyInv, LoadedInv
      <3>2. pc \in heads
        BY <2>1 DEF SafetyInv, ExecInv, ExecOn
      <3> QED
        BY <3>1, <3>2 DEF SoundHeads, SoundAt, Cur
    <2> QED
      BY <2>1 DEF NoWildFetch, SafetyInv, ExecInv, ExecOn
  <1> QED
    BY <1>1, Invariance, PTL

(***************************************************************************)
(* A run that takes the process down is at the division it gets wrong or   *)
(* at a bad load or store, and at the latter, with the check on, only if   *)
(* the access wraps.                                                       *)
(***************************************************************************)
THEOREM EachCrashHasItsCause == Spec => []CrashesAreExplained
  <1>1. Typing /\ SafetyInv => CrashesAreExplained
    BY DEF SafetyInv, ExecInv, ExecOn, CrashesAreExplained
  <1> QED
    BY <1>1, Invariance, PTL

(* The cache of ubpf_compile is never stale. *)
THEOREM JitStaysCurrent == Spec => []JitIsCurrent
  <1>1. Typing /\ SafetyInv => JitIsCurrent
    BY DEF Typing, FieldsInv, SafetyInv, JitInv, SoundHeads, SafeCode, JitIsCurrent
  <1> QED
    BY <1>1, Invariance, PTL

-----------------------------------------------------------------------------
(* The bounds check. *)

(* With the check on, a load or store stays in the context or the stack. *)
THEOREM AccessesAreChecked == Spec => []AccessInBounds
  <1>1. Init => AccessInBounds
    BY DEF Init, AccessInBounds
  <1>2. Typing /\ AccessInBounds /\ [Next]_vars => AccessInBounds'
    <2> SUFFICES ASSUME Typing, AccessInBounds, [Next]_vars
                 PROVE  AccessInBounds'
      OBVIOUS
    <2>1. ASSUME NEW addr \in Addrs, NEW size \in AccessSizes, StepMemory(addr, size)
          PROVE  AccessInBounds'
      <3>1. /\ addr \in Nat /\ size \in Nat /\ Mem \in Nat /\ MemLen \in Nat
            /\ Stack \in Nat /\ StackSize \in Nat
        BY LayoutAssumption
      <3>2. CASE BoundsCheck(addr, size)
        <4>1. access' = [addr |-> addr, size |-> size]
              /\ UNCHANGED <<mem, bounds_check_enabled>>
          BY <2>1, <3>2 DEF StepMemory, CarryOut, vmVars
        <4>2. ASSUME bounds_check_enabled, addr + size < AddrMod
              PROVE  \/ mem /\ Bytes(addr, size) \subseteq Bytes(Mem, MemLen)
                     \/ Bytes(addr, size) \subseteq Bytes(Stack, StackSize)
          BY <3>1, <3>2, <4>2, RegionHoldsBytes DEF BoundsCheck
        <4> QED
          BY <4>1, <4>2 DEF AccessInBounds
      <3>3. CASE ~BoundsCheck(addr, size)
        BY <2>1, <3>3 DEF StepMemory, Return, AccessInBounds
      <3> QED
        BY <3>2, <3>3
    <2>2. ASSUME NEW has_mem, ExecCall(has_mem)
          PROVE  AccessInBounds'
      BY <2>2 DEF ExecCall, Idle, AccessInBounds, execVars
    <2>3. CASE mode' # "exec"
      BY <2>3 DEF AccessInBounds
    <2>4. CASE UNCHANGED <<mode, bounds_check_enabled, access, mem>>
      BY <2>4 DEF AccessInBounds
    <2>5. ASSUME [Next]_vars, mode' = "exec",
                 \A addr \in Addrs, size \in AccessSizes : ~StepMemory(addr, size),
                 \A has_mem \in BOOLEAN : ~ExecCall(has_mem)
          PROVE  UNCHANGED <<mode, bounds_check_enabled, access, mem>>
      BY <2>5 DEF Next, Object, Load, LoadStep, Jit, ExecStep, Ended, vars,
             vmVars, codeVars, loadVars, execVars,
             Create, CreateFails, Unload, Destroy, Register, SetUnwind,
             ToggleBoundsCheck, LoadRefused, LoadCall, ValidateAccept,
             ValidateReject, LoadDone, LoadNoMemory, CompileCached, Compile,
             CompileFails, CompileNoBuffer, StepAlu, StepDivReg,
             StepDiv32LowHalfZero, StepJump, StepCall, StepExit,
             FetchPastEnd, Fetching, Idle, Goto, Return
    <2> QED
      BY <2>1, <2>2, <2>3, <2>4, <2>5
  <1> QED
    BY <1>1, <1>2, Invariance, PTL DEF Spec

-----------------------------------------------------------------------------
(* Refinement. *)

(* The calls that a program needs around a run: a vm, its functions, the start *)
LEMMA CallKeepsContract ==
  ASSUME Typing,
         \/ Create \/ CreateFails \/ Destroy
         \/ \E idx \in 0 .. MaxExtFuncs, fn \in Funcs : Register(idx, fn)
         \/ \E has_mem \in BOOLEAN : ExecCall(has_mem)
  PROVE  [Vm!ContractNext]_(Vm!contractVars)
  <1> USE DEF Vm!contractVars, vmVars, codeVars, loadVars, execVars, Idle
  <1>1. CASE Create
    <2>1. insts = NULL
      BY <1>1 DEF Create, Typing, FieldsInv
    <2> QED
      BY <1>1, <2>1
      DEF Create, EmptyTable, Vm!ContractNext, Vm!New, Vm!EmptyFuncTable
  <1>2. CASE Destroy
    BY <1>2 DEF Destroy, DropCode, Vm!ContractNext, Vm!Delete
  <1>3. ASSUME NEW idx \in 0 .. MaxExtFuncs, NEW fn \in Funcs, Register(idx, fn)
        PROVE  [Vm!ContractNext]_(Vm!contractVars)
    <2>1. CASE idx >= MaxExtFuncs
      BY <1>3, <2>1 DEF Register
    <2>2. CASE ~(idx >= MaxExtFuncs)
      <3>1. idx \in 0 .. MaxExtFuncs - 1
        BY <2>2, MaxExtFuncsAssumption
      <3> QED
        BY <1>3, <2>2, <3>1 DEF Register, Vm!ContractNext, Vm!Bind
    <2> QED
      BY <2>1, <2>2
  <1>4. ASSUME NEW has_mem, ExecCall(has_mem)
        PROVE  [Vm!ContractNext]_(Vm!contractVars)
    BY <1>4 DEF ExecCall, Vm!ContractNext, Vm!Start
  <1>5. CASE CreateFails
    BY <1>5 DEF CreateFails
  <1> QED
    BY <1>1, <1>2, <1>3, <1>4, <1>5

(* Code that is stopped by what Explained says is code that may be lost. *)
LEMMA FatalCode ==
  TypeOK /\ insts # NULL /\ num_insts = Len(insts) /\ pc < num_insts /\ Explained
    => HasDiv32Reg(insts) \/ MayFault(insts, bounds_check_enabled)
  <1> SUFFICES ASSUME TypeOK, insts # NULL, num_insts = Len(insts), pc < num_insts,
                      Explained
               PROVE  HasDiv32Reg(insts) \/ MayFault(insts, bounds_check_enabled)
    OBVIOUS
  <1>1. pc + 1 \in 1 .. Len(insts)
    BY DEF TypeOK
  <1>2. CASE Cur.op = "div32_reg"
    BY <1>1, <1>2 DEF Cur, HasDiv32Reg
  <1>3. CASE Cur.op # "div32_reg"
    <2>1. /\ Cur.op \in {"ldx", "store"} /\ access \in Access
          /\ ~Harmless(Cur.op, access.addr, access.size)
          /\ bounds_check_enabled => access.addr + access.size >= AddrMod
      BY <1>3 DEF Explained, TypeOK
    <2>2. access.addr \in Addrs /\ access.size \in AccessSizes
      BY <2>1 DEF Access
    <2> QED
      BY <1>1, <2>1, <2>2 DEF Cur, MayFault
  <1> QED
    BY <1>2, <1>3

LEMMA FatalCodeNext ==
  (TypeOK /\ insts # NULL /\ num_insts = Len(insts) /\ pc < num_insts /\ Explained)'
    => (HasDiv32Reg(insts) \/ MayFault(insts, bounds_check_enabled))'
  BY FatalCode, PTL

(* A run goes on, returns, or is lost to code that may be lost. *)
LEMMA RunKeepsContract ==
  ASSUME Typing, NEW H, ExecOn(H)', ExecStep
  PROVE  [Vm!ContractNext]_(Vm!contractVars)
  <1> USE DEF Vm!contractVars, vmVars, codeVars, loadVars, execVars
  <1>1. /\ mode = "exec" /\ UNCHANGED <<insts, ext_funcs, live>>
        /\ mode' \in {"exec", "idle", "wild", "crash", "smashed"}
        /\ mode' \in {"crash", "smashed"} => rc' # "oom"
        /\ UNCHANGED <<num_insts, bounds_check_enabled>>
    BY DEF ExecStep, StepAlu, StepDivReg, StepDiv32LowHalfZero,
         StepJump, StepMemory, CarryOut, StepCall, StepExit, FetchPastEnd, Fetching,
         Goto, Return, Typing, FieldsInv
  <1>2. CASE mode' = "exec"
    BY <1>1, <1>2
  <1>3. CASE mode' = "idle"
    BY <1>1, <1>3 DEF Typing, FieldsInv, Vm!ContractNext, Vm!Finish
  <1>4. CASE mode' = "wild"
    BY <1>1, <1>4 DEF ExecOn, MayBeLost, Vm!ContractNext, Vm!Lose
  <1>5. CASE mode' \in {"crash", "smashed"}
    <2>1. pc' < num_insts' /\ Explained'
      BY <1>1, <1>5 DEF ExecOn
    <2>2. TypeOK' /\ insts' # NULL /\ num_insts' = Len(insts')
      <3>1. TypeOK'
        BY TypingNext DEF Typing, Next
      <3> QED
        BY <1>1, <3>1 DEF Typing, FieldsInv
    <2>3. HasDiv32Reg(insts') \/ MayFault(insts', bounds_check_enabled')
      BY <2>1, <2>2, FatalCodeNext
    <2>4. MayBeLost(insts, bounds_check_enabled)
      BY <1>1, <2>3 DEF MayBeLost
    <2> QED
      BY <1>1, <1>5, <2>4 DEF Vm!ContractNext, Vm!Lose
  <1> QED
    BY <1>1, <1>2, <1>3, <1>4, <1>5

(* A step of the vm is a step of the contract, or invisible to it. *)
THEOREM KeepsContract == Spec => VmKeepsContract
  <1>1. Init => Vm!ContractInit
    BY DEF Init, EmptyTable, Vm!ContractInit, Vm!EmptyFuncTable
  <1>2. Typing /\ SafetyInv /\ (Typing /\ SafetyInv)' /\ [Next]_vars
          => [Vm!ContractNext]_(Vm!contractVars)
    <2> SUFFICES ASSUME Typing, SafetyInv, SafetyInv', [Next]_vars
                 PROVE  [Vm!ContractNext]_(Vm!contractVars)
      OBVIOUS
    <2> USE DEF Vm!contractVars, vmVars, codeVars, loadVars, execVars, Idle
    <2>1. CASE UNCHANGED <<insts, ext_funcs, mode, live, bounds_check_enabled>>
      BY <2>1
    <2>2. CASE Unload
      BY <2>2 DEF Unload, DropCode, Vm!ContractNext, Vm!Remove
    <2>3. CASE LoadDone
      <3>1. /\ code \in Programs /\ insts = NULL /\ live /\ insts' = code
            /\ code # NULL
        BY <2>3 DEF LoadDone, Typing, TypeOK, FieldsInv
      <3>2. SafeCode(code, ext_funcs)
        BY <2>3, <3>1
        DEF LoadDone, SafetyInv, LoadedInv, SoundHeads, SafeCode
      <3> QED
        BY <2>3, <3>1, <3>2 DEF LoadDone, Vm!ContractNext, Vm!Install
    <2>4. ASSUME mode \in {"idle", "validate"}, mode' \in {"idle", "validate"},
                 UNCHANGED <<insts, ext_funcs, live, bounds_check_enabled>>
          PROVE  UNCHANGED Vm!contractVars
      BY <2>4
    <2>5. CASE Jit
      BY <2>1, <2>5
      DEF Jit, CompileCached, Compile, CompileFails, CompileNoBuffer,
          Vm!ContractNext, Vm!Abort
    <2>6. CASE ExecStep
      <3>1. PICK H : H = heads'
        OBVIOUS
      <3>2. ExecOn(H)'
        BY <3>1 DEF SafetyInv, ExecInv, ExecOn
      <3> QED
        BY <2>6, <3>2, RunKeepsContract
    <2>7. ASSUME NEW enable \in BOOLEAN, ToggleBoundsCheck(enable)
          PROVE  [Vm!ContractNext]_(Vm!contractVars)
      BY <2>7 DEF ToggleBoundsCheck, Vm!ContractNext, Vm!Check
    <2> QED
      BY <2>1, <2>2, <2>3, <2>4, <2>5, <2>6, <2>7, CallKeepsContract
      DEF Next, Object, Load, LoadStep, Ended, vars, CreateFails, SetUnwind,
          LoadRefused, LoadCall, ValidateAccept, ValidateReject, LoadNoMemory
  <1> QED
    BY <1>1, <1>2, Invariance, PTL DEF Spec, VmKeepsContract, Vm!Contract
=============================================================================
