-------------------------- MODULE PatchRuntimeProofs --------------------------
(* Proofs about main and run_ebpf, for all patches and whatever they compute. *)
EXTENDS PatchRuntime, UbpfVmProofs

(***************************************************************************)
(* What main's order of steps establishes.  From the second call on the    *)
(* buffer holds the current function's patch, from Install on the vm does, *)
(* and the interpreter runs only at "running".                             *)
(***************************************************************************)
OrderInv ==
  /\ cve \in Cves
  /\ at \in Places
  /\ at \in {"second", "create", "register", "install"} => bytecode = cve
  /\ at \in {"start", "running"} => insts = Patch[cve]
  /\ mode = "exec" => at = "running"
  /\ bounds_check_enabled = FALSE

(***************************************************************************)
(* The results main may look at, and what it has made of earlier ones.     *)
(* What a patch of cve_5 stored is there also if the patch then failed.    *)
(***************************************************************************)
Unearned(c, v) ==
  \/ v = Unfixed[c]
  \/ c # 5 /\ v \in {1, -1}
  \/ c = 5 /\ CanFail(Patch[5])

VerdictInv ==
  /\ at \in {"verdict", "destroy"} => cve \in ran \/ Unearned(cve, ret)
  /\ said \in [Cves -> {"nothing", "fixed", "not fixed"}]
  /\ FixedIsEarned

RuntimeInv == OrderInv /\ VerdictInv

(* Only cve_2, and cve_5 by its memory, take a call that failed for a fix. *)
LEMMA FailuresLookUnfixed ==
  ASSUME NEW c \in Cves, NEW v, Unearned(c, v), v = Fixed[c]
  PROVE  Fixed[c] = 1 \/ (c = 5 /\ CanFail(Patch[5]))
BY DEF Cves, Unfixed, Fixed, Unearned

(* What comes back without a run of the patch is unearned. *)
LEMMA NoRunIsUnearned ==
  ASSUME NEW c \in Cves, NEW v \in {1, -1}
  PROVE  Unearned(c, Unfixed[c]) /\ Unearned(c, IF c = 5 THEN Unfixed[5] ELSE v)
BY DEF Unearned

(* A turn of the interpreter loop changes neither the code nor the mode but to end. *)
LEMMA LoopLeavesCode ==
  ASSUME ExecStep PROVE insts' = insts /\ bounds_check_enabled' = bounds_check_enabled
BY DEF ExecStep, StepAlu, StepDivReg, StepDiv32LowHalfZero, StepJump, StepMemory,
       CarryOut, StepCall, StepExit, FetchPastEnd, codeVars, vmVars

(* With the check off only a division by a register makes ubpf_exec fail. *)
LEMMA FailureIsDivision ==
  ASSUME Typing, ExecStep, bounds_check_enabled = FALSE, mode' = "idle", rc' # "ok"
  PROVE  CanFail(insts)
<1>1. Fetching /\ Cur.op \in {"div32_reg", "div64_reg"}
  BY DEF ExecStep, StepAlu, StepDivReg, StepDiv32LowHalfZero, StepJump, StepMemory,
         CarryOut, BoundsCheck, StepCall, StepExit, FetchPastEnd, Goto, Return, Fetching
<1>2. pc + 1 \in 1 .. Len(insts)
  BY <1>1, CurTyped
<1>. QED
  BY <1>1, <1>2 DEF Cur, CanFail

(* main's loop ends at the fifth function. *)
LEMMA NextCve == \A c \in Cves : c # 5 => c + 1 \in Cves
BY DEF Cves

-----------------------------------------------------------------------------
(* Typing. *)

(***************************************************************************)
(* What makes a vm that run_ebpf fills by hand a well-formed one: the      *)
(* buffer's length is that of the patch in it, and nothing is loaded or    *)
(* compiled before Install.                                                *)
(***************************************************************************)
BufferInv ==
  /\ bytecode = NULL => bytecode_len = 0
  /\ bytecode # NULL => bytecode_len = 8 * Len(Patch[bytecode]) + 1
  /\ at \in {"register", "install"} => live /\ insts = NULL
  /\ jitted = NULL /\ mode # "validate"

RuntimeVarsOK ==
  /\ hooked \in SUBSET Cves
  /\ bytecode \in Cves \cup {NULL}
  /\ next_fn \in 1 .. 3
  /\ ret \in Int
  /\ ran \in SUBSET Cves

TypingInv == Typing /\ BufferInv /\ RuntimeVarsOK

LEMMA UnfixedIsInt == \A c \in Cves : Unfixed[c] \in Int
  BY DEF Cves, Unfixed

LEMMA PatchIsProgram ==
  ASSUME NEW c \in Cves
  PROVE  Patch[c] \in Programs /\ Patch[c] # NULL /\ Len(Patch[c]) \in 0 .. PcMod - 1
  <1>1. Patch[c] \in Programs /\ Patch[c] \in Seq(Inst)
    BY PatchAssumption, ProgramsAssumption
  <1>2. Len(Patch[c]) \in Nat /\ Len(Patch[c]) < PcMod
    BY <1>1, PatchAssumption
  <1> QED
    BY <1>1, <1>2, NullIsNoProgram, PcModAssumption

(* The calls that leave the vm alone or are calls of its api *)
LEMMA ApiKeepsTyping ==
  ASSUME RuntimeInv, TypingInv, [RuntimeNext]_allVars, ~Install, ~InstallNoMemory
  PROVE  Typing'
  <1>1. CASE MainStep \/ RuntimeEnded \/ UNCHANGED allVars
    <2>1. UNCHANGED vars
      BY <1>1 DEF MainStep, FirstCall, Hook, GetEbpfPatch, GetEbpfPatchFails, SecondCall,
                  Report, RuntimeEnded, allVars
    <2> QED
      BY <2>1, TypingNext DEF TypingInv
  <1>2. CASE RunCreate \/ RunCreateFails \/ RunDestroy
    <2>1. Next
      BY <1>2 DEF RunCreate, RunCreateFails, RunDestroy, Next, Object
    <2> QED
      BY <2>1, TypingNext DEF TypingInv
  <1>3. CASE RegisterFunctions
    <2>1. next_fn \in 1 .. 3 /\ Host[next_fn] \in Funcs
      BY HostAssumption DEF TypingInv, RuntimeVarsOK
    <2>2. next_fn \in 0 .. MaxExtFuncs
      BY <2>1, HostAssumption, MaxExtFuncsAssumption
    <2>3. Next
      BY <1>3, <2>1, <2>2 DEF RegisterFunctions, Next, Object
    <2> QED
      BY <2>3, TypingNext DEF TypingInv
  <1>4. CASE Start
    <2>1. Next
      BY <1>4 DEF Start, Next
    <2> QED
      BY <2>1, TypingNext DEF TypingInv
  <1>5. CASE Running
    <2>1. Next
      BY <1>5 DEF Running, Next
    <2> QED
      BY <2>1, TypingNext DEF TypingInv
  <1> QED
    BY <1>1, <1>2, <1>3, <1>4, <1>5 DEF RuntimeNext, RunEbpf

(* The length that Install computes is that of the code it copies. *)
LEMMA InstallKeepsTyping ==
  ASSUME RuntimeInv, TypingInv, Install
  PROVE  Typing'
  <1>0. /\ bytecode \in Cves /\ bytecode # NULL /\ live /\ jitted = NULL
        /\ mode # "validate" /\ mode # "exec" /\ cve \in Cves
    BY PatchAssumption DEF Install, RuntimeInv, OrderInv, TypingInv, BufferInv
  <1>1. /\ Patch[bytecode] \in Programs /\ Patch[bytecode] # NULL
        /\ Len(Patch[bytecode]) \in 0 .. PcMod - 1
    BY <1>0, PatchIsProgram
  <1>2. insts' = Patch[bytecode] /\ num_insts' = ((8 * Len(Patch[bytecode]) + 1) \div 8) % PcMod
    BY <1>0 DEF Install, TypingInv, BufferInv
  <1>3. num_insts' = Len(Patch[bytecode])
    <2>1. \A n \in Nat : (8 * n + 1) \div 8 = n
      OBVIOUS
    <2>2. PcMod \in Nat
      BY PcModAssumption
    <2>3. Len(Patch[bytecode]) \in Nat
      BY <1>1, <2>2
    <2>4. (8 * Len(Patch[bytecode]) + 1) \div 8 = Len(Patch[bytecode])
      BY <2>1, <2>3, Zenon
    <2> QED
      BY <1>1, <1>2, <2>2, <2>4, ModSmall
  <1>4. TypeOK'
    BY <1>1, <1>2, <1>3 DEF Install, TypingInv, Typing, TypeOK, vmVars, loadVars, execVars
  <1>5. FieldsInv'
    BY <1>0, <1>1, <1>2, <1>3 DEF Install, TypingInv, Typing, FieldsInv, vmVars, loadVars, execVars
  <1> QED
    BY <1>4, <1>5 DEF Typing

LEMMA InstallNoMemoryKeepsTyping ==
  ASSUME RuntimeInv, TypingInv, InstallNoMemory
  PROVE  Typing'
  <1>1. insts = NULL /\ jitted = NULL /\ mode # "validate" /\ mode # "exec"
    BY DEF InstallNoMemory, RuntimeInv, OrderInv, TypingInv, BufferInv
  <1>2. TypeOK'
    BY DEF InstallNoMemory, TypingInv, Typing, TypeOK, codeVars, loadVars, execVars
  <1>3. FieldsInv'
    BY <1>1 DEF InstallNoMemory, TypingInv, Typing, FieldsInv, codeVars, loadVars, execVars
  <1> QED
    BY <1>2, <1>3 DEF Typing

(* A turn of the interpreter loop compiles nothing, and validates nothing. *)
LEMMA LoopCompilesNothing ==
  ASSUME ExecStep
  PROVE  UNCHANGED <<live, codeVars>> /\ (mode' = mode \/ mode' \in {"idle", "wild", "crash", "smashed"})
  BY DEF ExecStep, StepAlu, StepDivReg, StepDiv32LowHalfZero, StepJump, StepMemory,
         CarryOut, StepCall, StepExit, FetchPastEnd, Goto, Return, Fetching, vmVars

LEMMA BufferStep ==
  ASSUME RuntimeInv, TypingInv, [RuntimeNext]_allVars
  PROVE  BufferInv'
  <1> USE DEF BufferInv, TypingInv
  <1>1. CASE FirstCall \/ Hook \/ GetEbpfPatchFails \/ SecondCall \/ Report
    BY <1>1 DEF FirstCall, Hook, GetEbpfPatchFails, SecondCall, Report, vars, vmVars, codeVars
  <1>2. CASE GetEbpfPatch
    <2>1. cve \in Cves /\ cve # NULL
      BY PatchAssumption DEF RuntimeInv, OrderInv
    <2> QED
      BY <1>2, <2>1 DEF GetEbpfPatch, vars, vmVars, codeVars
  <1>3. CASE RunCreate
    <2>1. insts = NULL
      BY <1>3 DEF RunCreate, Create, Typing, FieldsInv
    <2> QED
      BY <1>3, <2>1 DEF RunCreate, Create, codeVars
  <1>4. CASE RunCreateFails
    BY <1>4 DEF RunCreateFails, CreateFails, Back, codeVars, vmVars
  <1>5. CASE RegisterFunctions
    BY <1>5 DEF RegisterFunctions, Register, codeVars
  <1>6. CASE Install \/ InstallNoMemory
    BY <1>6 DEF Install, InstallNoMemory, Back, codeVars
  <1>7. CASE Start
    BY <1>7 DEF Start, ExecCall, codeVars, vmVars
  <1>8. CASE Running
    BY <1>8, LoopCompilesNothing DEF Running, Returned, GoesOn, codeVars
  <1>9. CASE RunDestroy
    BY <1>9 DEF RunDestroy, Destroy, DropCode
  <1>10. CASE UNCHANGED allVars
    BY <1>10 DEF allVars, runtimeVars, vars, vmVars, codeVars
  <1> QED
    BY <1>1, <1>2, <1>3, <1>4, <1>5, <1>6, <1>7, <1>8, <1>9, <1>10
       DEF RuntimeNext, MainStep, RunEbpf, RuntimeEnded

LEMMA RuntimeVarsStep ==
  ASSUME RuntimeInv, TypingInv, [RuntimeNext]_allVars
  PROVE  RuntimeVarsOK'
  <1> USE DEF RuntimeVarsOK, TypingInv
  <1>0. cve \in Cves /\ Unfixed[cve] \in Int /\ -1 \in Int /\ 1 \in Int /\ 1 \in 1 .. 3
    BY UnfixedIsInt DEF RuntimeInv, OrderInv
  <1>1. CASE MainStep
    BY <1>0, <1>1 DEF MainStep, FirstCall, Hook, GetEbpfPatch, GetEbpfPatchFails, SecondCall, Report
  <1>2. CASE RunCreate \/ RunDestroy \/ Install \/ Start
    BY <1>0, <1>2 DEF RunCreate, RunDestroy, Install, Start
  <1>3. CASE RegisterFunctions
    BY <1>3 DEF RegisterFunctions
  <1>4. CASE RunCreateFails \/ InstallNoMemory
    <2>1. Unfixed[5] \in Int
      BY UnfixedIsInt DEF Cves
    <2> QED
      BY <1>0, <1>4, <2>1 DEF RunCreateFails, InstallNoMemory, Back
  <1>5. CASE Running
    <2>1. Results[cve] \subseteq Int /\ Results[5] \subseteq Int
      BY <1>0, ResultsAssumption DEF Cves
    <2> QED
      BY <1>0, <1>5, <2>1 DEF Running, Returned, GoesOn
  <1>6. CASE UNCHANGED allVars
    BY <1>6 DEF allVars, runtimeVars
  <1> QED
    BY <1>1, <1>2, <1>3, <1>4, <1>5, <1>6 DEF RuntimeNext, RunEbpf, RuntimeEnded

-----------------------------------------------------------------------------
(* Order and verdicts. *)

LEMMA RuntimeInitially == RuntimeInit => RuntimeInv
BY DEF RuntimeInit, Init, RuntimeInv, OrderInv, VerdictInv, Cves, Places,
       FixedIsEarned

LEMMA RuntimeStep == RuntimeInv /\ TypingInv /\ [RuntimeNext]_allVars => RuntimeInv'
<1> SUFFICES ASSUME RuntimeInv, TypingInv, [RuntimeNext]_allVars
             PROVE  RuntimeInv'
  OBVIOUS
<1> USE DEF RuntimeInv, OrderInv, VerdictInv, FixedIsEarned, vmVars
<1>1. CASE FirstCall
  BY <1>1 DEF FirstCall, vars, codeVars, Places
<1>2. CASE Hook
  BY <1>2 DEF Hook, vars, codeVars, Places
<1>3. CASE GetEbpfPatch
  BY <1>3 DEF GetEbpfPatch, vars, codeVars, Places
<1>4. CASE GetEbpfPatchFails
  BY <1>4 DEF GetEbpfPatchFails, vars, codeVars, Places
<1>5. CASE SecondCall
  <2>1. /\ UNCHANGED <<cve, ran, said, bytecode, vmVars, codeVars, mode>>
        /\ \/ at' = "create"
           \/ at' = "verdict" /\ ret' = Unfixed[cve]
    BY <1>5 DEF SecondCall, vars
  <2>2. at' = "verdict" => Unearned(cve', ret')
    BY <2>1, NoRunIsUnearned
  <2>. QED
    BY <2>1, <2>2, <1>5 DEF SecondCall, Places
<1>6. CASE Report
  <2>1. OrderInv'
    <3>1. cve' \in Cves
      <4>1. cve # 5 => cve + 1 \in Cves
        BY NextCve
      <4>. QED
        BY <1>6, <4>1 DEF Report
    <3>2. /\ at' \in {"first", "done"} /\ mode' = mode /\ mode # "exec"
          /\ bounds_check_enabled' = bounds_check_enabled
      BY <1>6 DEF Report, vars
    <3>. QED
      BY <3>1, <3>2 DEF Places
  <2>2. Verdict = "fixed" =>
          cve \in ran \/ Fixed[cve] = 1 \/ (cve = 5 /\ CanFail(Patch[5]))
    <3>1. Verdict = "fixed" => ret = Fixed[cve]
      BY DEF Verdict
    <3>. QED
      BY <1>6, <3>1, FailuresLookUnfixed DEF Report
  <2>3. Verdict \in {"nothing", "fixed", "not fixed"}
    BY DEF Verdict
  <2>4. VerdictInv'
    BY <1>6, <2>2, <2>3 DEF Report
  <2>. QED
    BY <2>1, <2>4
<1>7. CASE RunCreate
  BY <1>7 DEF RunCreate, Create, Places
<1>8. CASE RunCreateFails
  <2>1. /\ at' = "verdict" /\ UNCHANGED <<cve, ran, said, vmVars, codeVars, mode>>
        /\ ret' = IF cve = 5 THEN Unfixed[5] ELSE 1
    BY <1>8 DEF RunCreateFails, CreateFails, Back
  <2>2. Unearned(cve', ret')
    BY <2>1, NoRunIsUnearned
  <2>. QED
    BY <2>1, <2>2, <1>8 DEF RunCreateFails, CreateFails, Places
<1>9. CASE RegisterFunctions
  BY <1>9 DEF RegisterFunctions, Register, codeVars, Places
<1>10. CASE Install
  <2>1. bytecode \in Cves /\ bytecode # NULL
    BY <1>10, PatchAssumption DEF Install
  <2>. QED
    BY <1>10, <2>1 DEF Install, Places
<1>11. CASE InstallNoMemory
  <2>1. /\ at' = "verdict" /\ UNCHANGED <<cve, ran, said, codeVars, mode>>
        /\ bounds_check_enabled' = bounds_check_enabled
        /\ ret' = IF cve = 5 THEN Unfixed[5] ELSE -1
    BY <1>11 DEF InstallNoMemory, Back
  <2>2. Unearned(cve', ret')
    BY <2>1, NoRunIsUnearned
  <2>. QED
    BY <2>1, <2>2, <1>11 DEF InstallNoMemory, Places
<1>12. CASE Start
  BY <1>12 DEF Start, ExecCall, codeVars, Places
<1>13. CASE Running
  <2>1. insts' = insts /\ bounds_check_enabled' = FALSE /\ insts = Patch[cve]
    BY <1>13, LoopLeavesCode DEF Running
  <2>2. OrderInv'
    BY <1>13, <2>1 DEF Running, Returned, GoesOn, Places
  <2>3. CASE mode' = "idle"
    <3>1. /\ Returned /\ at' = "destroy" /\ UNCHANGED <<cve, said>>
          /\ ran \subseteq ran'
      BY <1>13, <2>3 DEF Running, Returned
    <3>2. cve \in ran' \/ Unearned(cve, ret')
      <4>1. CASE rc' = "ok"
        BY <3>1, <4>1 DEF Returned
      <4>2. CASE rc' # "ok" /\ cve = 5
        <5>1. CanFail(insts)
          BY <1>13, <2>3, <4>2, FailureIsDivision DEF Running, TypingInv
        <5>. QED
          BY <2>1, <4>2, <5>1 DEF Unearned
      <4>3. CASE rc' # "ok" /\ cve # 5
        BY <3>1, <4>3 DEF Returned, Unearned
      <4>. QED
        BY <4>1, <4>2, <4>3
    <3>. QED
      BY <2>2, <3>1, <3>2
  <2>4. CASE mode' # "idle"
    BY <1>13, <2>2, <2>4 DEF Running, GoesOn
  <2>. QED
    BY <2>2, <2>3, <2>4
<1>14. CASE RunDestroy
  BY <1>14 DEF RunDestroy, Destroy, Idle, DropCode, Places
<1>15. CASE UNCHANGED allVars
  BY <1>15 DEF allVars, runtimeVars, vars, codeVars
<1>. QED
  BY <1>1, <1>2, <1>3, <1>4, <1>5, <1>6, <1>7, <1>8, <1>9, <1>10, <1>11, <1>12,
     <1>13, <1>14, <1>15
     DEF RuntimeNext, MainStep, RunEbpf, RuntimeEnded

LEMMA RuntimeAlways == RuntimeSpec => [](RuntimeInv /\ TypingInv)
<1>1. RuntimeInit => TypingInv
  BY TypingInit DEF RuntimeInit, Init, TypingInv, BufferInv, RuntimeVarsOK
<1>2. RuntimeInv /\ TypingInv /\ [RuntimeNext]_allVars => TypingInv'
  <2> SUFFICES ASSUME RuntimeInv, TypingInv, [RuntimeNext]_allVars
               PROVE  TypingInv'
    OBVIOUS
  <2>1. Typing'
    BY ApiKeepsTyping, InstallKeepsTyping, InstallNoMemoryKeepsTyping
  <2>. QED
    BY <2>1, BufferStep, RuntimeVarsStep DEF TypingInv
<1>. QED
  BY <1>1, <1>2, RuntimeInitially, RuntimeStep, PTL DEF RuntimeSpec

(***************************************************************************)
(* The interpreter only ever runs the patch of the function that was       *)
(* called, although all share one buffer.                                  *)
(***************************************************************************)
THEOREM RunsOwnPatch == RuntimeSpec => []OwnPatchRuns
<1>1. RuntimeInv => OwnPatchRuns
  BY DEF RuntimeInv, OrderInv, OwnPatchRuns
<1>. QED
  BY <1>1, RuntimeAlways, PTL

(***************************************************************************)
(* Whatever the patches compute and whichever calls fail, main says        *)
(* "fixed" only after the patch has run to its end, or of cve_2, or of     *)
(* cve_5 if its patch holds the one kind of instruction that fails.        *)
(***************************************************************************)
THEOREM EarnsItsVerdict == RuntimeSpec => []FixedIsEarned
<1>1. RuntimeInv => FixedIsEarned
  BY DEF RuntimeInv, VerdictInv
<1>. QED
  BY <1>1, RuntimeAlways, PTL

(***************************************************************************)
(* Every variable keeps its type: although run_ebpf fills the vm without   *)
(* ubpf_load, the 16-bit length it writes is that of the patch it copied.  *)
(***************************************************************************)
THEOREM RuntimeTypeCorrect == RuntimeSpec => []RuntimeTypeOK
  <1>1. RuntimeInv /\ TypingInv => RuntimeTypeOK
    <2> SUFFICES ASSUME RuntimeInv, TypingInv
                 PROVE  RuntimeTypeOK
      OBVIOUS
    <2>1. bytecode_len \in Nat
      <3>1. CASE bytecode = NULL
        BY <3>1 DEF TypingInv, BufferInv
      <3>2. CASE bytecode \in Cves /\ bytecode # NULL
        <4>1. Len(Patch[bytecode]) \in Nat
          BY <3>2, PatchIsProgram
        <4> QED
          BY <3>2, <4>1 DEF TypingInv, BufferInv
      <3> QED
        BY <3>1, <3>2 DEF TypingInv, RuntimeVarsOK
    <2> QED
      BY <2>1 DEF RuntimeInv, OrderInv, VerdictInv, TypingInv, Typing, RuntimeVarsOK, RuntimeTypeOK
  <1> QED
    BY <1>1, RuntimeAlways, PTL

-----------------------------------------------------------------------------
(* The contract, without ubpf_load. *)

(***************************************************************************)
(* With safe patches, execution stays on the heads of the patch it was     *)
(* called for, although no scan ever found them, because the calls that    *)
(* the patch was checked against are registered before it is installed.    *)
(***************************************************************************)
TableInv ==
  /\ at = "register" => ext_funcs = Registered(next_fn)
  /\ at \in {"install", "start", "running"} => ext_funcs = HostTable

RunInv ==
  mode \in {"exec", "wild", "crash", "smashed"} =>
    /\ at = "running" /\ rc # "oom"
    /\ \E H : SoundHeads(Patch[cve], H, HostTable) /\ ExecOn(H)

ContractInv == TableInv /\ RunInv

LEMMA OneMoreRegistered ==
  ASSUME NEW n \in 1 .. 3, n \in 0 .. MaxExtFuncs - 1
  PROVE  [Registered(n) EXCEPT ![n] = Host[n]] = Registered(n + 1)
  <1>1. \A k \in 0 .. MaxExtFuncs - 1 : k \in 1 .. (n + 1) - 1 <=> k \in 1 .. n - 1 \/ k = n
    BY MaxExtFuncsAssumption
  <1> DEFINE f == Registered(n)
             g == Registered(n + 1)
  <1>2. /\ f = [k \in 0 .. MaxExtFuncs - 1 |-> f[k]]
        /\ \A k \in 0 .. MaxExtFuncs - 1 : f[k] = IF k \in 1 .. n - 1 THEN Host[k] ELSE NULL
    BY DEF Registered
  <1>3. /\ g = [k \in 0 .. MaxExtFuncs - 1 |-> g[k]]
        /\ \A k \in 0 .. MaxExtFuncs - 1 : g[k] = IF k \in 1 .. (n + 1) - 1 THEN Host[k] ELSE NULL
    BY DEF Registered
  <1> HIDE DEF f, g
  <1>4. \A k \in 0 .. MaxExtFuncs - 1 : g[k] = IF k = n THEN Host[n] ELSE f[k]
    BY <1>1, <1>2, <1>3, Zenon
  <1>5. g = [f EXCEPT ![n] = Host[n]]
    BY <1>2, <1>3, <1>4
  <1> QED
    BY <1>5 DEF f, g

LEMMA TableStep ==
  ASSUME RuntimeInv, TypingInv, TableInv, [RuntimeNext]_allVars
  PROVE  TableInv'
  <1> USE DEF TableInv
  <1>1. CASE MainStep \/ RuntimeEnded \/ UNCHANGED allVars
    BY <1>1 DEF MainStep, FirstCall, Hook, GetEbpfPatch, GetEbpfPatchFails, SecondCall, Report,
                RuntimeEnded, allVars, runtimeVars, vars, vmVars
  <1>2. CASE RunCreate
    <2>1. ext_funcs' = EmptyTable /\ at' = "register" /\ next_fn' = 1
      BY <1>2 DEF RunCreate, Create
    <2>2. EmptyTable = Registered(1)
      BY DEF EmptyTable, Registered
    <2> QED
      BY <2>1, <2>2 DEF Registered
  <1>3. CASE RegisterFunctions
    <2>1. /\ next_fn \in 1 .. 3 /\ at = "register" /\ ext_funcs = Registered(next_fn)
          /\ next_fn \in 0 .. MaxExtFuncs - 1
      BY <1>3, HostAssumption, MaxExtFuncsAssumption
         DEF RegisterFunctions, TypingInv, RuntimeVarsOK
    <2>2. ext_funcs' = [Registered(next_fn) EXCEPT ![next_fn] = Host[next_fn]]
      BY <1>3, <2>1, MaxExtFuncsAssumption DEF RegisterFunctions, Register
    <2>3. ext_funcs' = Registered(next_fn + 1)
      BY <2>1, <2>2, OneMoreRegistered
    <2>4. CASE next_fn = 3
      BY <1>3, <2>3, <2>4 DEF RegisterFunctions, HostTable
    <2>5. CASE next_fn # 3
      BY <1>3, <2>3, <2>5 DEF RegisterFunctions
    <2> QED
      BY <2>4, <2>5
  <1>4. CASE RunCreateFails \/ InstallNoMemory \/ RunDestroy
    BY <1>4 DEF RunCreateFails, InstallNoMemory, RunDestroy, Back
  <1>5. CASE Install \/ Start
    BY <1>5 DEF Install, Start, ExecCall, vmVars
  <1>6. CASE Running
    <2>1. ext_funcs' = ext_funcs
      BY <1>6 DEF Running, ExecStep, StepAlu, StepDivReg, StepDiv32LowHalfZero, StepJump, StepMemory,
             CarryOut, StepCall, StepExit, FetchPastEnd, vmVars
    <2> QED
      BY <1>6, <2>1 DEF Running, Returned, GoesOn
  <1> QED
    BY <1>1, <1>2, <1>3, <1>4, <1>5, <1>6 DEF RuntimeNext, RunEbpf

LEMMA RunStep ==
  ASSUME PatchesAreSafe, RuntimeInv, TypingInv, ContractInv, [RuntimeNext]_allVars
  PROVE  RunInv'
  <1>1. CASE Start
    <2>1. /\ cve \in Cves /\ insts = Patch[cve] /\ insts # NULL /\ ext_funcs = HostTable
          /\ num_insts = Len(insts)
      BY <1>1, PatchIsProgram
         DEF Start, RuntimeInv, OrderInv, ContractInv, TableInv, TypingInv, Typing, FieldsInv
    <2>2. PICK H : SoundHeads(Patch[cve], H, HostTable)
      BY <2>1 DEF PatchesAreSafe, SafeCode
    <2>3. /\ at' = "running" /\ mode' = "exec" /\ pc' = 0 /\ rc' = "ok"
          /\ UNCHANGED <<cve, insts, num_insts>>
      BY <1>1, <2>1 DEF Start, ExecCall, codeVars
    <2>4. 0 \in H \cup {num_insts} /\ (num_insts = 0 => ~EndsWell(insts))
      BY <2>1, <2>2 DEF SoundHeads, EndsWell
    <2>5. ExecOn(H)'
      BY <2>3, <2>4 DEF ExecOn
    <2> QED
      BY <2>2, <2>3, <2>5 DEF RunInv
  <1>2. CASE Running
    <2>1. mode = "exec" /\ UNCHANGED <<cve, ext_funcs, insts>>
      BY <1>2 DEF Running, ExecStep, StepAlu, StepDivReg, StepDiv32LowHalfZero, StepJump, StepMemory,
             CarryOut, StepCall, StepExit, FetchPastEnd, Fetching, vmVars, codeVars
    <2>2. PICK H : SoundHeads(Patch[cve], H, HostTable) /\ ExecOn(H)
      BY <2>1 DEF ContractInv, RunInv
    <2>3. insts = Patch[cve] /\ ext_funcs = HostTable
      BY <1>2 DEF Running, RuntimeInv, OrderInv, ContractInv, TableInv
    <2>4. ExecOn(H)'
      BY <1>2, <2>2, <2>3, ExecStaysOnHeads DEF Running, TypingInv
    <2>5. mode' \in {"exec", "wild", "crash", "smashed"} => at' = "running" /\ rc' # "oom"
      BY <1>2, <2>1 DEF Running, Returned, GoesOn, CarryOut, ExecStep, StepAlu, StepDivReg, StepDiv32LowHalfZero, StepJump,
             StepMemory, CarryOut, StepCall, StepExit, FetchPastEnd, Goto, Return, TypingInv, Typing, FieldsInv
    <2> QED
      BY <2>1, <2>2, <2>4, <2>5 DEF RunInv
  <1>3. CASE mode' \notin {"exec", "wild", "crash", "smashed"}
    BY <1>3 DEF RunInv
  <1>4. CASE UNCHANGED <<at, cve, vars>>
    BY <1>4 DEF ContractInv, RunInv, ExecOn, Explained, Cur, vars, vmVars, codeVars, execVars
  <1>5. ASSUME ~Start, ~Running, mode' \in {"exec", "wild", "crash", "smashed"}
        PROVE  UNCHANGED <<at, cve, vars>>
    <2>1. CASE UNCHANGED allVars
      BY <2>1 DEF allVars, runtimeVars
    <2>2. (mode' = mode /\ at = "running") \/ UNCHANGED allVars
      BY <1>5 DEF RuntimeNext, RunEbpf, RuntimeEnded, MainStep, FirstCall, Hook, GetEbpfPatch,
             GetEbpfPatchFails, SecondCall, Report, RunCreate, Create, RunCreateFails, CreateFails,
             RegisterFunctions, Register, Install, InstallNoMemory, RunDestroy, Destroy, vars,
             ContractInv, RunInv
    <2> QED
      BY <1>5, <2>1, <2>2 DEF RuntimeNext, RunEbpf, RuntimeEnded, MainStep, FirstCall, Hook, GetEbpfPatch,
             GetEbpfPatchFails, SecondCall, Report, RunCreate, RunCreateFails,
             RegisterFunctions, Install, InstallNoMemory, RunDestroy
  <1> QED
    BY <1>1, <1>2, <1>3, <1>4, <1>5

(* A step of main is a step of the contract for the vm, or invisible to it. *)
LEMMA StepKeepsContract ==
  ASSUME PatchesAreSafe, RuntimeInv, TypingInv, ContractInv, ContractInv', [RuntimeNext]_allVars
  PROVE  [Vm!ContractNext]_(Vm!contractVars)
  <1>1. Typing
    BY DEF TypingInv
  <1>2. CASE MainStep \/ RuntimeEnded \/ UNCHANGED allVars
    <2>1. UNCHANGED vars
      BY <1>2 DEF MainStep, FirstCall, Hook, GetEbpfPatch, GetEbpfPatchFails, SecondCall,
                  Report, RuntimeEnded, allVars
    <2> QED
      BY <2>1 DEF vars, vmVars, codeVars, Vm!contractVars
  <1>3. CASE RunCreate \/ RunCreateFails \/ RunDestroy \/ Start
    BY <1>1, <1>3, CallKeepsContract DEF RunCreate, RunCreateFails, RunDestroy, Start
  <1>4. CASE RegisterFunctions
    <2>1. next_fn \in 1 .. 3 /\ Host[next_fn] \in Funcs
      BY HostAssumption DEF TypingInv, RuntimeVarsOK
    <2>2. next_fn \in 0 .. MaxExtFuncs
      BY <2>1, HostAssumption, MaxExtFuncsAssumption
    <2> QED
      BY <1>1, <1>4, <2>1, <2>2, CallKeepsContract DEF RegisterFunctions
  <1>5. CASE Install
    <2>1. /\ bytecode = cve /\ cve \in Cves /\ cve # NULL /\ ext_funcs = HostTable
          /\ live /\ insts = NULL /\ mode = "idle"
      <3>1. mode \notin {"exec", "wild", "crash", "smashed", "validate"} /\ mode \in Modes
        BY <1>5 DEF Install, TypingInv, BufferInv, Typing, TypeOK, ContractInv, RunInv
      <3> QED
        BY <1>5, <3>1, PatchAssumption
           DEF Install, RuntimeInv, OrderInv, ContractInv, TableInv, TypingInv, BufferInv, Modes
    <2>2. insts' = Patch[cve] /\ Patch[cve] \in Programs /\ SafeCode(Patch[cve], ext_funcs)
      BY <1>5, <2>1, PatchIsProgram DEF Install, PatchesAreSafe
    <2> QED
      BY <1>5, <2>1, <2>2 DEF Install, vmVars, Vm!ContractNext, Vm!Install, Vm!contractVars
  <1>6. CASE InstallNoMemory
    <2>1. live /\ insts = NULL /\ mode = "idle"
      <3>1. mode \notin {"exec", "wild", "crash", "smashed", "validate"} /\ mode \in Modes
        BY <1>6 DEF InstallNoMemory, TypingInv, BufferInv, Typing, TypeOK, ContractInv, RunInv
      <3> QED
        BY <1>6, <3>1 DEF InstallNoMemory, TypingInv, BufferInv, Modes
    <2> QED
      BY <1>6, <2>1 DEF InstallNoMemory, codeVars, Vm!ContractNext, Vm!Delete, Vm!contractVars
  <1>7. CASE Running
    <2>1. ExecStep /\ mode = "exec"
      BY <1>7 DEF Running, ExecStep, StepAlu, StepDivReg, StepDiv32LowHalfZero, StepJump, StepMemory,
             CarryOut, StepCall, StepExit, FetchPastEnd, Fetching
    <2>2. PICK H : SoundHeads(Patch[cve], H, HostTable) /\ ExecOn(H)
      BY <2>1 DEF ContractInv, RunInv
    <2>3. SoundHeads(insts, H, ext_funcs)
      BY <1>7, <2>2 DEF Running, RuntimeInv, OrderInv, ContractInv, TableInv
    <2>4. ExecOn(H)'
      BY <1>1, <2>1, <2>2, <2>3, ExecStaysOnHeads
    <2> QED
      BY <1>1, <2>1, <2>4, RunKeepsContract
  <1> QED
    BY <1>2, <1>3, <1>4, <1>5, <1>6, <1>7 DEF RuntimeNext, RunEbpf

LEMMA ContractAlways ==
  ASSUME PatchesAreSafe
  PROVE  RuntimeSpec => []ContractInv
  <1>1. RuntimeInit => ContractInv
    BY DEF RuntimeInit, Init, ContractInv, TableInv, RunInv
  <1>2. RuntimeInv /\ TypingInv /\ ContractInv /\ [RuntimeNext]_allVars => ContractInv'
    BY TableStep, RunStep DEF ContractInv
  <1> QED
    BY <1>1, <1>2, RuntimeAlways, PTL DEF RuntimeSpec

(***************************************************************************)
(* run_ebpf copies code into the vm without ubpf_load, registers before it *)
(* does, and forgets the vm when there is no memory.  If the patches are   *)
(* safe the vm still keeps its contract: what runs is safe and stays the   *)
(* same, and the process is lost only to code that may be lost.  That is   *)
(* much, since run_ebpf leaves the bounds check off: any patch that makes  *)
(* a bad load or store.                                                    *)
(***************************************************************************)
THEOREM RuntimeKeepsContract ==
  ASSUME PatchesAreSafe
  PROVE  RuntimeSpec => VmKeepsContract
  <1>1. RuntimeInit => Vm!ContractInit
    BY DEF RuntimeInit, Init, EmptyTable, Vm!ContractInit, Vm!EmptyFuncTable
  <1>2. RuntimeInv /\ TypingInv /\ ContractInv /\ ContractInv' /\ [RuntimeNext]_allVars
          => [Vm!ContractNext]_(Vm!contractVars)
    BY StepKeepsContract
  <1> QED
    BY <1>1, <1>2, ContractAlways, RuntimeAlways, PTL DEF RuntimeSpec, VmKeepsContract, Vm!Contract

(***************************************************************************)
(* If the patches, besides, end in an exit or a jump, divide by no 32-bit  *)
(* register, and only load from and store to addresses that are theirs to  *)
(* use, which nothing checks for them, the interpreter never fetches past  *)
(* a patch, calls through an empty entry, dies of a signal or overwrites   *)
(* the patched program, whose process it shares.                           *)
(***************************************************************************)
THEOREM PatchesStayInside ==
  ASSUME PatchesAreSafe, \A c \in Cves : ~MayBeLost(Patch[c], FALSE)
  PROVE  RuntimeSpec => [](mode \notin {"wild", "crash", "smashed"})
  <1>1. RuntimeInv /\ TypingInv /\ ContractInv => mode \notin {"wild", "crash", "smashed"}
    <2> SUFFICES ASSUME RuntimeInv, TypingInv, ContractInv,
                        mode \in {"wild", "crash", "smashed"}
                 PROVE  FALSE
      OBVIOUS
    <2>1. /\ cve \in Cves /\ insts = Patch[cve] /\ rc # "oom"
          /\ bounds_check_enabled = FALSE
      BY DEF RuntimeInv, OrderInv, ContractInv, RunInv
    <2>2. /\ mode = "wild" => ~EndsWell(insts)
          /\ mode # "wild" => pc < num_insts /\ Explained
      BY <2>1 DEF ContractInv, RunInv, ExecOn
    <2>3. TypeOK /\ insts # NULL /\ num_insts = Len(insts)
      BY <2>1, PatchIsProgram DEF TypingInv, Typing, FieldsInv
    <2>4. MayBeLost(insts, bounds_check_enabled)
      BY <2>2, <2>3, FatalCode DEF MayBeLost
    <2> QED
      BY <2>1, <2>4
  <1> QED
    BY <1>1, ContractAlways, RuntimeAlways, PTL
=============================================================================
