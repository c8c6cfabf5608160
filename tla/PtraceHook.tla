------------------------------ MODULE PtraceHook ------------------------------
(***************************************************************************)
(* vm/ptrace-hook.c: a process that stops another one with ptrace, writes  *)
(* a jump over the first bytes of its vul_func, and lets it go.  The       *)
(* target is one thread that calls vul_func again and again.  It calls     *)
(* nothing and does not branch back, as that of simple-test.c: a branch or *)
(* a return into its first bytes is not represented.  Addresses count      *)
(* bytes, a byte has ByteMod values, a word has WordSize bytes.            *)
(***************************************************************************)
EXTENDS Integers, FiniteSets

CONSTANTS
  ByteMod,    \* 2^8
  WordSize,   \* bytes written by one PTRACE_POKEDATA, 8
  VulFunc,    \* st_value of vul_func
  Handlers,   \* st_values patch_handler may have; 0 if it is not found
  FuncSize,   \* bytes of vul_func
  Starts      \* offsets in vul_func at which an instruction starts

ASSUME HookAssumption ==
  /\ ByteMod \in Nat \ {0, 1} /\ WordSize \in Nat /\ WordSize >= 5
  /\ VulFunc \in Nat /\ Handlers \subseteq Nat
  /\ FuncSize \in Nat /\ 0 \in Starts /\ Starts \subseteq 0 .. FuncSize - 1

VARIABLES
  hooker,    \* where main of ptrace-hook.c stands
  handler,   \* what findFuncAddress answers for patch_handler
  pie,       \* the addresses of the file are relative to the first mapping
  tracing,   \* PTRACE_ATTACH was granted and PTRACE_DETACH not yet called
  target,    \* "running", "stopped", or "gone"
  place,     \* where the target is: an offset in vul_func, or one of Places
  pending,   \* signals sent to the target that it has not taken
  jump,      \* the jump written at the start of vul_func, or <<>>
  stopper,   \* the signal the target was last stopped by (history)
  found      \* where and by what the target was stopped when the wait
             \* ended (history)

hookVars == <<hooker, handler, pie, tracing, target, place, pending, jump,
              stopper, found>>

(* In the caller of vul_func, in patch_handler, in bytes that are no code *)
Caller == -1
Handler == -2
Lost == -3
Places == {Caller, Handler, Lost}

(* 2^16 and 2^32 *)
TwoBytes == ByteMod * ByteMod
FourBytes == TwoBytes * TwoBytes

Byte(v) == v % ByteMod

(* Mutant of jmp: the address of the jump itself is the base. *)
jmp_from_start(addr1, addr2) ==
  LET offset == (addr2 - addr1) % FourBytes
  IN <<Byte(offset), Byte(offset \div ByteMod),
       Byte((offset \div TwoBytes) * ByteMod),
       Byte((offset \div (TwoBytes * ByteMod)) * TwoBytes)>>

(***************************************************************************)
(* The four bytes after 0xe9.  Each but the first is masked out of offset, *)
(* shifted right by one byte, and cut to a byte.                           *)
(***************************************************************************)
jmp(addr1, addr2) ==
  LET offset == (addr2 - (addr1 + 5)) % FourBytes
  IN <<Byte(offset), Byte(offset \div ByteMod),
       Byte((offset \div TwoBytes) * ByteMod),
       Byte((offset \div (TwoBytes * ByteMod)) * TwoBytes)>>

(* The processor: a jump relative to the end of its five bytes *)
Lands(bytes) ==
  LET v == bytes[1] + bytes[2] * ByteMod + bytes[3] * TwoBytes + bytes[4] * TwoBytes * ByteMod
  IN VulFunc + 5 + (IF v < FourBytes \div 2 THEN v ELSE v - FourBytes)

HookInit ==
  /\ hooker = "find" /\ handler \in Handlers /\ pie \in BOOLEAN
  /\ tracing = FALSE
  /\ target = "running" /\ place = Caller /\ pending = {}
  /\ jump = <<>>
  /\ stopper = "none" /\ found = [place |-> Caller, by |-> "none"]

-----------------------------------------------------------------------------
(* The target. *)

(* Where the instruction at offset p leads: to the next, or back to the caller *)
After(p) ==
  LET later == {q \in Starts : q > p}
  IN IF later = {} THEN {Caller} ELSE {q \in later : \A r \in later : q <= r}

(* No byte of the instruction at p was overwritten. *)
Intact(p) == jump = <<>> \/ p >= WordSize

Call ==
  /\ target = "running" /\ place = Caller
  /\ place' = 0
  /\ UNCHANGED <<hooker, handler, pie, tracing, target, pending, jump>>
  /\ UNCHANGED <<stopper, found>>

Execute ==
  /\ target = "running" /\ place \in Starts
  /\ place' \in IF Intact(place) THEN After(place)
                ELSE IF place = 0 /\ Lands(jump) = handler THEN {Handler}
                ELSE {Lost}
  /\ UNCHANGED <<hooker, handler, pie, tracing, target, pending, jump>>
  /\ UNCHANGED <<stopper, found>>

(* patch_handler returns to the caller of vul_func. *)
HandlerReturns ==
  /\ target = "running" /\ place = Handler
  /\ place' = Caller
  /\ UNCHANGED <<hooker, handler, pie, tracing, target, pending, jump>>
  /\ UNCHANGED <<stopper, found>>

(* Some signal the target ignores *)
Signal ==
  /\ target = "running" /\ hooker \in {"attach", "wait"}
  /\ pending' = pending \cup {"other"}
  /\ UNCHANGED <<hooker, handler, pie, tracing, target, place, jump, stopper, found>>

(* A signal is taken: a tracee stops, whatever the signal is. *)
TakeSignal ==
  /\ target = "running"
  /\ \E sig \in pending :
       /\ pending' = pending \ {sig}
       /\ IF tracing \/ sig = "stop"
          THEN target' = "stopped" /\ stopper' = sig
          ELSE UNCHANGED <<target, stopper>>
  /\ UNCHANGED <<hooker, handler, pie, tracing, place, jump, found>>

TargetExits ==
  /\ target = "running" /\ place = Caller
  /\ target' = "gone" /\ pending' = {}
  /\ UNCHANGED <<hooker, handler, pie, tracing, place, jump, stopper, found>>

-----------------------------------------------------------------------------
(* main *)

(* The file of the target is read and searched; it may not be readable. *)
FindAddresses ==
  /\ hooker = "find"
  /\ hooker' \in {"attach", "done"}
  /\ UNCHANGED <<handler, pie, tracing, target, place, pending, jump>>
  /\ UNCHANGED <<stopper, found>>

(***************************************************************************)
(* PTRACE_ATTACH; its result is not looked at.  When it is refused there   *)
(* is nothing to wait for, and status holds what happened to be there.     *)
(***************************************************************************)
Attach ==
  /\ hooker = "attach"
  /\ \/ /\ target # "gone"
        /\ tracing' = TRUE /\ pending' = pending \cup {"stop"}
        /\ hooker' = "wait"
     \/ hooker' \in {"poke", "done"} /\ UNCHANGED <<tracing, pending>>
  /\ UNCHANGED <<handler, pie, target, place, jump, stopper, found>>

(* wait: the target has stopped, for one signal or another, or has exited *)
Wait ==
  /\ hooker = "wait"
  /\ \/ /\ target = "stopped" /\ hooker' = "poke"
        /\ found' = [place |-> place, by |-> stopper]
     \/ target = "gone" /\ hooker' = "done" /\ UNCHANGED found
  /\ UNCHANGED <<handler, pie, tracing, target, place, pending, jump, stopper>>

(***************************************************************************)
(* putdata(pid, startAddr + addr1, jmp, 8): one word, the last bytes of    *)
(* which do not belong to jmp.  For a file that is not position            *)
(* independent the sum is an address where nothing is mapped.              *)
(***************************************************************************)
PutData ==
  /\ hooker = "poke"
  /\ jump' = IF tracing /\ target = "stopped" /\ pie
             THEN jmp(VulFunc, handler) ELSE jump
  /\ hooker' = "detach"
  /\ UNCHANGED <<handler, pie, tracing, target, place, pending, stopper, found>>

(* PTRACE_DETACH with no signal: one that stopped the target is forgotten. *)
Detach ==
  /\ hooker = "detach"
  /\ target' = IF tracing /\ target = "stopped" THEN "running" ELSE target
  /\ tracing' = FALSE
  /\ hooker' = "done"
  /\ UNCHANGED <<handler, pie, place, pending, jump, stopper, found>>

HookStep ==
  \/ Call \/ Execute \/ HandlerReturns \/ Signal \/ TakeSignal \/ TargetExits
  \/ FindAddresses \/ Attach \/ Wait \/ PutData \/ Detach

HookSpec == HookInit /\ [][HookStep]_hookVars

-----------------------------------------------------------------------------
(* Properties. *)

(* A distance that fits in two bytes. *)
InReach == handler - (VulFunc + 5) \in 0 .. TwoBytes - 1

(***************************************************************************)
(* The target is lost in overwritten code only if the wait ended while it  *)
(* stood inside the word that is written, or if the handler is further     *)
(* away than the two bytes that come out right can say; every other call   *)
(* arrives, whenever the stop came.  And it is left stopped only if the    *)
(* wait ended for a signal other than the one of the attach.               *)
(***************************************************************************)
HookSparesTarget ==
  /\ place = Lost =>
       \/ ~InReach
       \/ found.place \in 1 .. WordSize - 1
  /\ hooker = "done" /\ target = "stopped" => found.by = "other"
=============================================================================
