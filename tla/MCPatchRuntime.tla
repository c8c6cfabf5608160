---------------------------- MODULE MCPatchRuntime ----------------------------
(* The five shipped patches, abstracted to what moves their control. *)
EXTENDS PatchRuntime

I(op, offset, imm) ==
  [op |-> op, dst |-> 0, src |-> 0, offset |-> offset, imm |-> imm]

Exit == I("exit", 0, 0)

(***************************************************************************)
(* 01: read the frame, test, perhaps call new_sqrt.  02: read and test.    *)
(* 03: the same and an unsigned division.  04: stores, without its loop.   *)
(* 05: a test and stores.                                                  *)
(***************************************************************************)
Patches ==
  <<<<I("ldx", 0, 0), I("jcc", 1, 0), I("call", 0, 1), Exit>>,
    <<I("ldx", 0, 0), I("jcc", 1, 0), I("alu", 0, 0), Exit>>,
    <<I("jcc", 2, 0), I("div_imm", 0, 4), I("store", 0, 0), Exit>>,
    <<I("ldx", 0, 0), I("jcc", 1, 0), I("store", 0, 0), Exit>>,
    <<I("jcc", 2, 0), I("lddw", 0, 0), I("zero", 0, 0), I("store", 0, 0), Exit>>>>

PatchResults == <<{0, 1}, {0, 1}, {0, 20000, 20004}, {0}, {0, -1}>>

(* The shipped patches are. *)
ASSUME ShippedPatchesAreSafe == PatchesAreSafe

MCPrograms == {Patches[c] : c \in 1 .. 5} \cup {<<>>}
=============================================================================
