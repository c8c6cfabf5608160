------------------------------ MODULE VmContract ------------------------------
(***************************************************************************)
(* What a ubpf vm promises its host, without the validator's scan, the     *)
(* interpreter's program counter or the translation cache: code is         *)
(* installed only in one step and only if it is safe, it is run only while *)
(* it is installed, it stays the same while it runs, and a run ends by     *)
(* returning unless the code is of a kind that may take the process down,  *)
(* which is a larger kind as long as its accesses are not checked.         *)
(***************************************************************************)
CONSTANTS
  Programs,       \* code a host may ask to install
  Indices,        \* the slots of the function table
  Funcs,          \* functions that may be bound to a slot
  NULL,
  Safe(_, _),     \* this code is safe with this table
  MayBeLost(_, _) \* this code may take the process down by its own fault,
                  \* with its accesses checked or not

VARIABLES
  prog,   \* the installed code, or NULL
  table,  \* the host functions it may call
  checked, \* its loads and stores are checked
  status  \* "none", "ready", "running", or "halted": the process is lost

contractVars == <<prog, table, checked, status>>

EmptyFuncTable == [k \in Indices |-> NULL]

ContractInit ==
  prog = NULL /\ table = EmptyFuncTable /\ checked = FALSE /\ status = "none"

New ==
  /\ status = "none"
  /\ prog' = NULL /\ table' = EmptyFuncTable /\ checked' = FALSE
  /\ status' = "ready"

Delete ==
  /\ status = "ready"
  /\ prog' = NULL /\ status' = "none"
  /\ UNCHANGED <<table, checked>>

(* A function is bound, never unbound. *)
Bind ==
  /\ status = "ready"
  /\ \E idx \in Indices, fn \in Funcs :
       table' = [table EXCEPT ![idx] = fn]
  /\ UNCHANGED <<prog, checked, status>>

(* The host turns the check on or off between two runs, not during one. *)
Check ==
  /\ status = "ready"
  /\ checked' \in BOOLEAN
  /\ UNCHANGED <<prog, table, status>>

Install ==
  /\ status = "ready" /\ prog = NULL
  /\ prog' \in {p \in Programs : Safe(p, table)}
  /\ UNCHANGED <<table, checked, status>>

Remove ==
  /\ status = "ready"
  /\ prog' = NULL
  /\ UNCHANGED <<table, checked, status>>

Start ==
  /\ status = "ready" /\ prog # NULL
  /\ status' = "running"
  /\ UNCHANGED <<prog, table, checked>>

Finish ==
  /\ status = "running"
  /\ status' = "ready"
  /\ UNCHANGED <<prog, table, checked>>

(* A run may be lost only through the code's own fault. *)
Lose ==
  /\ status = "running"
  /\ MayBeLost(prog, checked)
  /\ status' = "halted"
  /\ UNCHANGED <<prog, table, checked>>

(* There is no memory to translate the installed code into. *)
Abort ==
  /\ status = "ready" /\ prog # NULL
  /\ status' = "halted"
  /\ UNCHANGED <<prog, table, checked>>

ContractNext ==
  \/ New \/ Delete \/ Bind \/ Check \/ Install \/ Remove
  \/ Start \/ Finish \/ Lose \/ Abort

Contract == ContractInit /\ [][ContractNext]_contractVars
=============================================================================
