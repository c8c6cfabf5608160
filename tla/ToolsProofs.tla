------------------------------ MODULE ToolsProofs ------------------------------
(***************************************************************************)
(* Proofs about the command line tools beside ubpf's: when                 *)
(* vm/ptrace-hook.c spares its target, for every layout of the two         *)
(* functions and every moment at which the target may be stopped; and what *)
(* the file tools read and leave behind, for any number of processes, any  *)
(* programs and sources, and any failures and kills.                       *)
(***************************************************************************)
EXTENDS PtraceHook, FileTools, SequenceTheorems, TLAPS


-----------------------------------------------------------------------------
(* The distance in the jump. *)

LEMMA DivMod ==
  ASSUME NEW n \in Nat, NEW b \in Nat, b > 0
  PROVE  /\ n \div b \in Nat /\ n % b \in 0 .. b - 1
         /\ n = b * (n \div b) + (n % b)
  OBVIOUS

LEMMA ModSmall ==
  ASSUME NEW b \in Nat, NEW n \in 0 .. b - 1
  PROVE  n % b = n /\ n \div b = 0
  OBVIOUS

LEMMA TimesMonotone ==
  ASSUME NEW a \in Nat, NEW b \in Nat, NEW c \in Nat, a <= b
  PROVE  a * c <= b * c
  OBVIOUS

(* The bytes of a distance below 2^16 are those of the distance. *)
LEMMA TwoBytesSuffice ==
  ASSUME NEW d \in 0 .. TwoBytes - 1
  PROVE  /\ d % FourBytes = d /\ d < FourBytes \div 2
         /\ Byte(d) + Byte(d \div ByteMod) * ByteMod = d
         /\ d \div TwoBytes = 0 /\ d \div (TwoBytes * ByteMod) = 0
  <1>1. ByteMod \in Nat /\ ByteMod >= 2 /\ d \in Nat
    BY HookAssumption DEF TwoBytes
  <1>2. TwoBytes \in Nat /\ TwoBytes >= 4
    <2>1. 2 * 2 <= ByteMod * 2 /\ 2 * ByteMod <= ByteMod * ByteMod
      BY <1>1, TimesMonotone
    <2> QED
      BY <1>1, <2>1 DEF TwoBytes
  <1>3. FourBytes \in Nat /\ FourBytes >= 4 * TwoBytes
    BY <1>2, TimesMonotone DEF FourBytes
  <1>4. TwoBytes * ByteMod \in Nat /\ TwoBytes * ByteMod >= TwoBytes
    <2>1. 1 * TwoBytes <= ByteMod * TwoBytes
      BY <1>1, <1>2, TimesMonotone
    <2> QED
      BY <1>1, <1>2, <2>1
  <1>5. d % FourBytes = d
    BY <1>1, <1>2, <1>3, ModSmall
  <1>6. d < FourBytes \div 2
    <2> DEFINE n == FourBytes
    <2>1. n \in Nat /\ n >= 4 * TwoBytes
      BY <1>3
    <2> HIDE DEF n
    <2>2. d < n \div 2
      BY <1>1, <1>2, <2>1
    <2> QED
      BY <2>2 DEF n
  <1>7. d \div TwoBytes = 0 /\ d \div (TwoBytes * ByteMod) = 0
    BY <1>1, <1>2, <1>4, ModSmall
  <1>8. d \div ByteMod \in 0 .. ByteMod - 1
    <2> DEFINE q == d \div ByteMod
    <2>1. q \in Nat /\ ByteMod * q <= d
      BY <1>1, DivMod
    <2>2. q < ByteMod
      <3> SUFFICES ASSUME ByteMod <= q PROVE FALSE
        BY <1>1, <2>1
      <3> HIDE DEF q
      <3>1. ByteMod * ByteMod <= q * ByteMod
        BY <1>1, <2>1, TimesMonotone
      <3> QED
        BY <1>1, <2>1, <3>1 DEF TwoBytes
    <2> QED
      BY <1>1, <2>1, <2>2
  <1>9. Byte(d) + Byte(d \div ByteMod) * ByteMod = d
    <2>1. Byte(d \div ByteMod) = d \div ByteMod
      BY <1>1, <1>8, ModSmall DEF Byte
    <2>2. d = ByteMod * (d \div ByteMod) + (d % ByteMod)
      BY <1>1, DivMod
    <2>3. d \div ByteMod \in Nat /\ d % ByteMod \in Nat
      BY <1>1, DivMod
    <2> QED
      BY <1>1, <2>1, <2>2, <2>3 DEF Byte
  <1> QED
    BY <1>5, <1>6, <1>7, <1>9

(* A jump to a handler within reach lands on it. *)
LEMMA JumpArrives ==
  ASSUME InReach, handler \in Nat
  PROVE  Lands(jmp(VulFunc, handler)) = handler
  <1> DEFINE d == handler - (VulFunc + 5)
             bytes == jmp(VulFunc, handler)
  <1>1. d \in 0 .. TwoBytes - 1
    BY DEF InReach
  <1>2. /\ d % FourBytes = d /\ d < FourBytes \div 2
        /\ Byte(d) + Byte(d \div ByteMod) * ByteMod = d
        /\ d \div TwoBytes = 0 /\ d \div (TwoBytes * ByteMod) = 0
    BY <1>1, TwoBytesSuffice
  <1>3. ByteMod \in Nat /\ ByteMod > 0 /\ TwoBytes \in Nat
    BY HookAssumption DEF TwoBytes
  <1>4. Byte(0 * ByteMod) = 0 /\ Byte(0 * TwoBytes) = 0
    <2>1. 0 * ByteMod = 0 /\ 0 * TwoBytes = 0 /\ 0 % ByteMod = 0
      BY <1>3
    <2> QED
      BY <2>1 DEF Byte
  <1>5. bytes = <<Byte(d), Byte(d \div ByteMod), 0, 0>>
    BY <1>2, <1>4 DEF jmp
  <1>6. bytes[1] + bytes[2] * ByteMod + bytes[3] * TwoBytes + bytes[4] * TwoBytes * ByteMod = d
    <2>1. 0 * TwoBytes = 0 /\ 0 * TwoBytes * ByteMod = 0
      BY <1>3
    <2>2. d + 0 + 0 = d
      BY <1>1, <1>3
    <2> HIDE DEF d
    <2> QED
      BY <1>2, <1>5, <2>1, <2>2
  <1>7. VulFunc + 5 + d = handler
    BY HookAssumption
  <1> HIDE DEF d, bytes
  <1>8. Lands(bytes) = VulFunc + 5 + d
    BY <1>2, <1>6 DEF Lands
  <1> QED
    BY <1>7, <1>8 DEF bytes

-----------------------------------------------------------------------------
(* Who may be where, and when. *)

HookTyping ==
  /\ hooker \in {"find", "attach", "wait", "poke", "detach", "done"}
  /\ handler \in Nat /\ tracing \in BOOLEAN
  /\ target \in {"running", "stopped", "gone"}
  /\ place \in Starts \cup Places
  /\ pending \in SUBSET {"stop", "other"}

(***************************************************************************)
(* Before the attach nothing can stop the target.  A tracer that got past  *)
(* its wait has a target that stands where it was found, and one whose     *)
(* attach was refused has none.  The stop of the attach is taken before    *)
(* the wait ends unless another signal ended it.                           *)
(***************************************************************************)
StopInv ==
  /\ hooker \in {"find", "attach"} =>
       ~tracing /\ target # "stopped" /\ "stop" \notin pending /\ found.by # "other"
  /\ hooker = "wait" =>
       /\ tracing
       /\ target = "stopped" => stopper = "other" \/ "stop" \notin pending
       /\ target = "stopped" => stopper \in {"stop", "other"}
  /\ hooker \in {"poke", "detach"} =>
       IF tracing THEN target = "stopped" /\ place = found.place
                  ELSE target # "stopped" /\ "stop" \notin pending
  /\ target = "gone" => pending = {}
  /\ hooker \in {"poke", "detach", "done"} /\ found.by # "other" => "stop" \notin pending
  /\ hooker = "done" => (tracing => target = "gone")
  /\ hooker = "done" /\ target = "stopped" => found.by = "other"

(***************************************************************************)
(* The jump that was written is the one to the handler, and the word it is *)
(* in is only entered at its start.                                        *)
(***************************************************************************)
JumpInv ==
  /\ jump = <<>> => place # Lost
  /\ jump # <<>> => jump = jmp(VulFunc, handler) /\ hooker \in {"detach", "done"}
  /\ jump # <<>> /\ InReach /\ found.place \notin 1 .. WordSize - 1 =>
       place # Lost /\ place \notin 1 .. WordSize - 1

HookInv == HookTyping /\ StopInv /\ JumpInv

(* Offsets of instructions are no places outside the function. *)
LEMMA StartsAreOffsets ==
  /\ Starts \subseteq Nat /\ Starts \cap Places = {} /\ 0 \in Starts
  /\ Caller # Lost /\ Handler # Lost
  /\ Places \cap Nat = {} /\ WordSize \in Nat /\ WordSize > 0
  /\ Lost \notin Starts /\ {Caller, Handler} \cap (1 .. WordSize - 1) = {}
  BY HookAssumption DEF Places, Caller, Handler, Lost

(* An instruction leads forward, or back to the caller. *)
LEMMA AfterIsForward ==
  ASSUME NEW p \in Starts, NEW q \in After(p)
  PROVE  q = Caller \/ (q \in Starts /\ q > p)
  BY DEF After

LEMMA HookInitially == HookInit => HookInv
  <1> SUFFICES ASSUME HookInit PROVE HookInv
    OBVIOUS
  <1>1. HookTyping
    BY HookAssumption DEF HookInit, HookTyping, Places
  <1>2. StopInv
    BY DEF HookInit, StopInv
  <1>3. JumpInv
    BY StartsAreOffsets DEF HookInit, JumpInv
  <1> QED
    BY <1>1, <1>2, <1>3 DEF HookInv

LEMMA TypingStep == HookInv /\ [HookStep]_hookVars => HookTyping'
  <1> SUFFICES ASSUME HookInv, [HookStep]_hookVars
               PROVE  HookTyping'
    OBVIOUS
  <1> USE DEF HookInv, HookTyping
  <1>1. CASE Call
    BY <1>1, StartsAreOffsets DEF Call
  <1>2. CASE Execute
    <2>1. place' \in After(place) \cup {Handler, Lost}
      BY <1>2 DEF Execute
    <2>2. place' \in Starts \cup Places
      BY <1>2, <2>1, AfterIsForward DEF Execute, Places
    <2> QED
      BY <1>2, <2>2 DEF Execute
  <1>3. CASE HandlerReturns
    BY <1>3 DEF HandlerReturns, Places
  <1>4. CASE Signal \/ TakeSignal \/ TargetExits
    BY <1>4 DEF Signal, TakeSignal, TargetExits
  <1>5. CASE FindAddresses \/ Attach \/ Wait \/ PutData \/ Detach
    BY <1>5 DEF FindAddresses, Attach, Wait, PutData, Detach
  <1>6. CASE UNCHANGED hookVars
    BY <1>6 DEF hookVars
  <1> QED
    BY <1>1, <1>2, <1>3, <1>4, <1>5, <1>6 DEF HookStep

LEMMA StopStep == HookInv /\ [HookStep]_hookVars => StopInv'
  <1> SUFFICES ASSUME HookInv, [HookStep]_hookVars
               PROVE  StopInv'
    OBVIOUS
  <1> USE DEF HookInv, HookTyping, StopInv
  <1>1. CASE Call \/ Execute \/ HandlerReturns
    BY <1>1 DEF Call, Execute, HandlerReturns
  <1>2. CASE Signal
    BY <1>2 DEF Signal
  <1>3. CASE TakeSignal
    <2>1. PICK sig \in pending :
            /\ pending' = pending \ {sig}
            /\ IF tracing \/ sig = "stop"
               THEN target' = "stopped" /\ stopper' = sig
               ELSE UNCHANGED <<target, stopper>>
      BY <1>3 DEF TakeSignal
    <2>2. /\ target = "running" /\ sig \in {"stop", "other"}
          /\ UNCHANGED <<hooker, handler, pie, tracing, place, jump, found>>
      BY <1>3 DEF TakeSignal
    <2> QED
      BY <2>1, <2>2
  <1>4. CASE TargetExits
    BY <1>4 DEF TargetExits
  <1>5. CASE FindAddresses
    BY <1>5 DEF FindAddresses
  <1>6. CASE Attach
    <2>1. /\ ~tracing /\ target # "stopped" /\ "stop" \notin pending
          /\ UNCHANGED <<target, place, stopper, found>>
      BY <1>6 DEF Attach
    <2>2. CASE hooker' = "wait" /\ tracing' = TRUE /\ target # "gone"
      BY <2>1, <2>2
    <2>3. CASE hooker' \in {"poke", "done"} /\ UNCHANGED <<tracing, pending>>
      BY <1>6, <2>1, <2>3 DEF Attach
    <2> QED
      BY <1>6, <2>2, <2>3 DEF Attach
  <1>7. CASE Wait
    BY <1>7 DEF Wait
  <1>8. CASE PutData
    BY <1>8 DEF PutData
  <1>9. CASE Detach
    BY <1>9 DEF Detach
  <1>10. CASE UNCHANGED hookVars
    BY <1>10 DEF hookVars
  <1> QED
    BY <1>1, <1>2, <1>3, <1>4, <1>5, <1>6, <1>7, <1>8, <1>9, <1>10 DEF HookStep

LEMMA JumpStep == HookInv /\ [HookStep]_hookVars => JumpInv'
  <1> SUFFICES ASSUME HookInv, [HookStep]_hookVars
               PROVE  JumpInv'
    OBVIOUS
  <1> USE DEF HookInv, HookTyping, JumpInv
  <1>1. CASE Call
    BY <1>1, StartsAreOffsets DEF Call, InReach
  <1>2. CASE Execute
    <2>1. UNCHANGED <<hooker, handler, jump, found>>
      BY <1>2 DEF Execute
    <2>2. CASE jump = <<>>
      <3>1. place' \in After(place)
        BY <1>2, <2>2 DEF Execute, Intact
      <3> QED
        BY <1>2, <2>1, <2>2, <3>1, AfterIsForward, StartsAreOffsets DEF Execute, Places
    <2>3. CASE jump # <<>> /\ InReach /\ found.place \notin 1 .. WordSize - 1
      <3>1. place \in Starts /\ (place = 0 \/ place >= WordSize)
        BY <1>2, <2>3, StartsAreOffsets DEF Execute
      <3>2. CASE place = 0
        <4>1. Lands(jump) = handler
          BY <2>3, JumpArrives
        <4>2. place' = Handler
          BY <1>2, <2>3, <3>2, <4>1, StartsAreOffsets DEF Execute, Intact
        <4> QED
          BY <2>1, <2>3, <4>2, StartsAreOffsets DEF Places
      <3>3. CASE place >= WordSize
        <4>1. place' \in After(place)
          BY <1>2, <3>3 DEF Execute, Intact
        <4>2. place' = Caller \/ (place' \in Starts /\ place' > place)
          BY <3>1, <4>1, AfterIsForward
        <4> QED
          BY <2>1, <2>3, <3>1, <3>3, <4>2, StartsAreOffsets DEF Places
      <3> QED
        BY <3>1, <3>2, <3>3
    <2>4. CASE jump # <<>> /\ ~(InReach /\ found.place \notin 1 .. WordSize - 1)
      BY <2>1, <2>4 DEF InReach
    <2> QED
      BY <2>2, <2>3, <2>4
  <1>3. CASE HandlerReturns
    BY <1>3, StartsAreOffsets DEF HandlerReturns, InReach, Places
  <1>4. CASE Signal \/ TakeSignal \/ TargetExits
    BY <1>4 DEF Signal, TakeSignal, TargetExits, InReach
  <1>5. CASE FindAddresses \/ Attach \/ Wait
    BY <1>5 DEF FindAddresses, Attach, Wait
  <1>6. CASE PutData
    <2>1. jump = <<>> /\ place # Lost /\ UNCHANGED <<place, handler, found>> /\ hooker' = "detach"
      BY <1>6 DEF PutData
    <2>2. CASE tracing /\ target = "stopped" /\ pie
      <3>1. jump' = jmp(VulFunc, handler) /\ place = found.place
        BY <1>6, <2>2 DEF PutData, StopInv
      <3>2. jump' # <<>>
        BY <3>1 DEF jmp
      <3> QED
        BY <2>1, <3>1, <3>2 DEF InReach
    <2>3. CASE ~(tracing /\ target = "stopped" /\ pie)
      BY <1>6, <2>1, <2>3 DEF PutData
    <2> QED
      BY <2>2, <2>3
  <1>7. CASE Detach
    BY <1>7 DEF Detach, InReach
  <1>8. CASE UNCHANGED hookVars
    BY <1>8 DEF hookVars, InReach
  <1> QED
    BY <1>1, <1>2, <1>3, <1>4, <1>5, <1>6, <1>7, <1>8 DEF HookStep

(***************************************************************************)
(* A target is only lost in the bytes that were written over, or left      *)
(* stopped, for the reasons that HookSparesTarget names: whatever signals  *)
(* it gets, wherever the stop finds it, and whatever the attach answers.   *)
(***************************************************************************)
THEOREM TargetSpared == HookSpec => []HookSparesTarget
  <1>1. HookInv /\ [HookStep]_hookVars => HookInv'
    BY TypingStep, StopStep, JumpStep DEF HookInv
  <1>2. HookInv => HookSparesTarget
    BY DEF HookInv, StopInv, JumpInv, HookSparesTarget
  <1> QED
    BY HookInitially, <1>1, <1>2, PTL DEF HookSpec


-----------------------------------------------------------------------------
(* Where each process is, and which names and files there are. *)

Steps == {"start", "creat", "write", "parse", "walk", "remove", "objcopy", "unlink",
          "pack", "json", "done", "failed", "aborted", "killed"}

AtStep(t, s) ==
  \/ s \in {"start", "done", "failed", "killed"}
  \/ t # "gen_patch" /\ s \in {"creat", "write"}
  \/ t \in {"parse_btf", "dump_btf"} /\ s = "parse"
  \/ t = "parse_btf" /\ s \in {"walk", "remove", "aborted"}
  \/ t = "write_elf" /\ s \in {"objcopy", "unlink"}
  \/ t = "gen_patch" /\ s \in {"pack", "remove", "json"}

FilesTyping ==
  /\ tool \in [Procs -> Tools]
  /\ path \in [Procs -> Elfs \cup Srcs]
  /\ \A p \in Procs : path[p] \in IF tool[p] = "gen_patch" THEN Srcs ELSE Elfs
  /\ step \in [Procs -> Steps]
  /\ \A p \in Procs : AtStep(tool[p], step[p])
  /\ fd \in [Procs -> Procs \cup {NoFile}]
  /\ dir \in [TempNames -> Procs \cup {NoFile}]
  /\ data \in [Procs -> Contents \cup {NoFile}]
  /\ seen \in [Procs -> Contents \cup {NoFile}]
  /\ met \subseteq Procs /\ misled \subseteq Procs

(* A file has the name of the process that made it, whoever writes it. *)
NameInv ==
  /\ \A n \in TempNames : dir[n] # NoFile =>
       TempName(dir[n]) = n /\ data[dir[n]] # NoFile
  /\ \A f \in Procs : data[f] # NoFile =>
       TempName(data[f].by) = TempName(f)
  /\ \A p \in Procs : step[p] = "write" =>
       fd[p] # NoFile /\ TempName(fd[p]) = TempName(p)

(* Where a tool can be while a file that it wrote last has its name *)
Holding(t, s) ==
  \/ s = "killed"
  \/ t # "gen_patch" /\ s = "write"
  \/ t = "parse_btf" /\ s \in {"parse", "walk", "remove", "failed", "aborted"}
  \/ t = "dump_btf" /\ s \in {"parse", "done", "failed"}
  \/ t = "write_elf" /\ s \in {"objcopy", "unlink"}
  \/ t = "gen_patch" /\ s \in {"pack", "remove", "failed"}

HoldInv ==
  \A n \in TempNames : dir[n] # NoFile =>
    Holding(tool[data[dir[n]].by], step[data[dir[n]].by])

StepOf(p) ==
  \/ OpenElf(p) \/ CreatTemp(p) \/ WriteTemp(p)
  \/ Parse(p) \/ Follow(p) \/ Show(p) \/ Abort(p) \/ Unknown(p) \/ RemoveTemp(p)
  \/ Objcopy(p) \/ UnlinkTemp(p)
  \/ CompileCode(p) \/ Pack(p) \/ RemoveCode(p) \/ GenJson(p)
  \/ Kill(p)

-----------------------------------------------------------------------------
(* Facts about names and contents. *)

LEMMA NamesOfTools ==
  ASSUME FilesTyping, NEW p \in Procs
  PROVE  TempName(p) \in TempNames
  BY DEF FilesTyping, TempName, Temporary, TempNames, Tools

LEMMA OneSource ==
  ASSUME FilesTyping, NEW p \in Procs, NEW q \in Procs, TempName(p) = TempName(q)
  PROVE  /\ tool[p] # "gen_patch" => path[p] = path[q] /\ tool[q] # "gen_patch"
         /\ tool[p] = "write_elf" => tool[q] = "write_elf"
  BY DEF FilesTyping, TempName, Temporary, Tools

LEMMA ContentIsFile ==
  ASSUME FilesTyping, NEW p \in Procs, NEW w \in BOOLEAN
  PROVE  /\ Content(p, w) \in Contents /\ Content(p, w) # NoFile
         /\ Content(p, w).by = p /\ Content(p, w).of = path[p] /\ Content(p, w).whole = w
  BY ToolsAssumption DEF FilesTyping, Content, Contents

USE DEF TempName

(***************************************************************************)
(* What a step of p leaves alone: the other processes, the names it does   *)
(* not use, and the files of other names.  A process that is over does     *)
(* nothing more.                                                           *)
(***************************************************************************)
Frame(p) ==
  /\ UNCHANGED <<tool, path>>
  /\ \A q \in Procs \ {p} :
       step'[q] = step[q] /\ fd'[q] = fd[q] /\ seen'[q] = seen[q]
  /\ \A n \in TempNames \ {TempName(p)} : dir'[n] = dir[n]
  /\ \A f \in Procs : TempName(f) # TempName(p) => data'[f] = data[f]
  /\ IF step[p] = "start" THEN Meets(p) ELSE ~Over(p) /\ met' = met
  /\ misled \subseteq misled' /\ misled' \subseteq misled \cup {p}
  /\ step'[p] # "start"

LEMMA CreatIsOwnName ==
  ASSUME FilesTyping, NameInv, NEW p \in Procs
  PROVE  Creat(p) \in Procs /\ TempName(Creat(p)) = TempName(p)
  <1>1. TempName(p) \in TempNames
    BY NamesOfTools
  <1> QED
    BY <1>1 DEF FilesTyping, NameInv, Creat

(* What a step of p may change, variable by variable *)
Effect(p) ==
  /\ UNCHANGED <<tool, path>>
  /\ \E s \in Steps \ {"start"} : AtStep(tool[p], s) /\ step' = [step EXCEPT ![p] = s]
  /\ seen' = seen \/ \E c \in Contents : seen' = [seen EXCEPT ![p] = c]
  /\ fd' = fd \/ \E f \in Procs : fd' = [fd EXCEPT ![p] = f]
  /\ \/ dir' = dir
     \/ dir' = [dir EXCEPT ![TempName(p)] = NoFile]
     \/ /\ dir' = [dir EXCEPT ![TempName(p)] = Creat(p)]
        /\ \E w \in BOOLEAN : data' = [data EXCEPT ![Creat(p)] = Content(p, w)]
  /\ \/ data' = data
     \/ \E f \in Procs, w \in BOOLEAN :
          TempName(f) = TempName(p) /\ data' = [data EXCEPT ![f] = Content(p, w)]
  /\ step'[p] = "write" => fd'[p] \in Procs /\ TempName(fd'[p]) = TempName(p)
  /\ IF step[p] = "start" THEN Meets(p) ELSE ~Over(p) /\ met' = met
  /\ misled \subseteq misled' /\ misled' \subseteq misled \cup {p}

LEMMA EffectFrames ==
  ASSUME FilesTyping, NameInv, NEW p \in Procs, Effect(p)
  PROVE  Frame(p) /\ FilesTyping'
  <1>1. TempName(p) \in TempNames /\ \A w \in BOOLEAN : Content(p, w) \in Contents
    BY NamesOfTools, ContentIsFile
  <1>2. UNCHANGED <<tool, path>>
    BY DEF Effect
  <1>3. PICK s \in Steps \ {"start"} : AtStep(tool[p], s) /\ step' = [step EXCEPT ![p] = s]
    BY DEF Effect
  <1>4. /\ step' \in [Procs -> Steps]
        /\ \A q \in Procs : AtStep(tool[q], step'[q])
        /\ step'[p] # "start" /\ \A q \in Procs \ {p} : step'[q] = step[q]
    BY <1>3 DEF FilesTyping
  <1>5. /\ seen' \in [Procs -> Contents \cup {NoFile}]
        /\ \A q \in Procs \ {p} : seen'[q] = seen[q]
    BY DEF FilesTyping, Effect
  <1>6. /\ fd' \in [Procs -> Procs \cup {NoFile}]
        /\ \A q \in Procs \ {p} : fd'[q] = fd[q]
    BY DEF FilesTyping, Effect
  <1>7. /\ dir' \in [TempNames -> Procs \cup {NoFile}]
        /\ \A n \in TempNames \ {TempName(p)} : dir'[n] = dir[n]
    BY <1>1, CreatIsOwnName DEF FilesTyping, Effect
  <1>8. /\ data' \in [Procs -> Contents \cup {NoFile}]
        /\ \A f \in Procs : TempName(f) # TempName(p) => data'[f] = data[f]
    BY <1>1 DEF FilesTyping, Effect
  <1>9. met' \subseteq Procs /\ misled' \subseteq Procs
    BY DEF FilesTyping, Effect, Meets, Users
  <1>10. FilesTyping'
    BY <1>2, <1>4, <1>5, <1>6, <1>7, <1>8, <1>9 DEF FilesTyping
  <1>11. Frame(p)
    BY <1>2, <1>4, <1>5, <1>6, <1>7, <1>8 DEF Frame, Effect
  <1> QED
    BY <1>10, <1>11

LEMMA StepEffect ==
  ASSUME FilesTyping, NameInv, NEW p \in Procs, StepOf(p)
  PROVE  Effect(p)
  <1>1. Creat(p) \in Procs /\ TempName(Creat(p)) = TempName(p)
    BY CreatIsOwnName
  <1>2. Found(p) # NoFile => Found(p) \in Contents
    BY NamesOfTools DEF FilesTyping, Found
  <1>3. step = [step EXCEPT ![p] = step[p]] /\ step[p] \in Steps /\ AtStep(tool[p], step[p])
    BY DEF FilesTyping
  <1>4. tool[p] \in Tools
    BY DEF FilesTyping
  <1> USE DEF Effect, GoOn, filesVars, outputs, Over, Steps, AtStep, Tools
  <1>5. CASE OpenElf(p)
    BY <1>4, <1>5 DEF OpenElf, NoBtf, FilesTyping
  <1>6. CASE CreatTemp(p)
    <2>1. CASE CreatEmpty(p) /\ GoOn(p, "write")
      <3>1. step'[p] = "write" /\ fd'[p] = Creat(p)
        BY <2>1 DEF CreatEmpty, FilesTyping
      <3>2. data' = [data EXCEPT ![Creat(p)] = Content(p, FALSE)] /\ FALSE \in BOOLEAN
        BY <2>1 DEF CreatEmpty
      <3>3. /\ \E f \in Procs : fd' = [fd EXCEPT ![p] = f]
            /\ dir' = [dir EXCEPT ![TempName(p)] = Creat(p)]
            /\ \E w \in BOOLEAN : data' = [data EXCEPT ![Creat(p)] = Content(p, w)]
            /\ \E f \in Procs, w \in BOOLEAN :
                 TempName(f) = TempName(p) /\ data' = [data EXCEPT ![f] = Content(p, w)]
        <4> HIDE DEF TempName
        <4> QED
          BY <1>1, <2>1, <3>2 DEF CreatEmpty
      <3>4. /\ \E s \in Steps \ {"start"} : AtStep(tool[p], s) /\ step' = [step EXCEPT ![p] = s]
            /\ step[p] # "start" /\ ~Over(p) /\ UNCHANGED <<tool, path, seen, met, misled>>
        BY <1>3, <1>4, <1>6, <2>1 DEF CreatTemp
      <3> QED
        <4> HIDE DEF TempName, Over, AtStep, Steps
        <4> QED
          BY <1>1, <3>1, <3>3, <3>4
    <2>2. CASE GoOn(p, "failed") /\ UNCHANGED <<fd, dir, data>>
      BY <1>4, <1>6, <2>2 DEF CreatTemp, FilesTyping
    <2> QED
      BY <1>6, <2>1, <2>2 DEF CreatTemp
  <1>7. CASE WriteTemp(p)
    <2>1. fd[p] \in Procs /\ TempName(fd[p]) = TempName(p)
      BY <1>7 DEF WriteTemp, NameInv, FilesTyping
    <2> QED
      BY <1>3, <1>4, <1>7, <2>1 DEF WriteTemp, Unlink
  <1>8. CASE Parse(p)
    BY <1>2, <1>3, <1>4, <1>8 DEF Parse, Whole
  <1>9. CASE Follow(p)
    BY <1>3, <1>4, <1>9 DEF Follow
  <1>10. CASE Show(p) \/ Unknown(p)
    BY <1>3, <1>4, <1>10 DEF Show, Unknown, Answer
  <1>11. CASE Abort(p) \/ RemoveTemp(p)
    BY <1>3, <1>4, <1>11 DEF Abort, RemoveTemp, Unlink
  <1>12. CASE Objcopy(p)
    BY <1>2, <1>3, <1>4, <1>12 DEF Objcopy
  <1>13. CASE UnlinkTemp(p)
    BY <1>3, <1>4, <1>13 DEF UnlinkTemp, Unlink
  <1>14. CASE CompileCode(p)
    BY <1>1, <1>3, <1>4, <1>14 DEF CompileCode, FilesTyping
  <1>15. CASE Pack(p) \/ RemoveCode(p) \/ GenJson(p)
    BY <1>2, <1>3, <1>4, <1>15 DEF Pack, RemoveCode, GenJson, Unlink
  <1>16. CASE Kill(p)
    BY <1>3, <1>4, <1>16 DEF Kill, FilesTyping
  <1> QED
    BY <1>5, <1>6, <1>7, <1>8, <1>9, <1>10, <1>11, <1>12, <1>13, <1>14, <1>15, <1>16
       DEF StepOf
-----------------------------------------------------------------------------
(* Names, files and who wrote them last. *)

LEMMA NamesStep ==
  ASSUME FilesTyping, NameInv, NEW p \in Procs, StepOf(p)
  PROVE  NameInv'
  <1>1. Effect(p) /\ Frame(p)
    BY StepEffect, EffectFrames
  <1>2. /\ TempName(p) \in TempNames /\ Creat(p) \in Procs
        /\ TempName(Creat(p)) = TempName(p)
    BY NamesOfTools, CreatIsOwnName
  <1>3. \A w \in BOOLEAN : Content(p, w) # NoFile /\ Content(p, w).by = p
    BY ContentIsFile
  <1>4. \A f \in Procs : data[f] # NoFile => data'[f] # NoFile
    BY <1>1, <1>3 DEF Effect, FilesTyping
  <1>5. ASSUME NEW n \in TempNames, dir'[n] # NoFile
        PROVE  TempName(dir'[n]) = n /\ data'[dir'[n]] # NoFile
    <2>1. CASE dir'[n] = dir[n]
      BY <1>1, <1>4, <1>5, <2>1 DEF NameInv, FilesTyping, Frame
    <2>2. CASE dir'[n] # dir[n]
      <3>1. n = TempName(p)
        BY <1>1, <2>2 DEF Frame
      <3>2. dir'[n] = Creat(p) /\ \E w \in BOOLEAN : data' = [data EXCEPT ![Creat(p)] = Content(p, w)]
        BY <1>1, <1>5, <2>2, <3>1 DEF Effect, FilesTyping
      <3> QED
        BY <1>1, <1>2, <1>3, <3>1, <3>2 DEF Frame, FilesTyping
    <2> QED
      BY <2>1, <2>2
  <1>6. ASSUME NEW f \in Procs, data'[f] # NoFile
        PROVE  TempName(data'[f].by) = TempName(f)
    <2>1. CASE data'[f] = data[f]
      <3>1. data[f].by \in Procs /\ TempName(data[f].by) = TempName(f)
        BY <1>6, <2>1 DEF NameInv, FilesTyping, Contents
      <3> QED
        BY <1>1, <2>1, <3>1 DEF Frame
    <2>2. CASE data'[f] # data[f]
      BY <1>1, <1>3, <2>2 DEF Frame, Effect, FilesTyping
    <2> QED
      BY <2>1, <2>2
  <1>7. ASSUME NEW q \in Procs, step'[q] = "write"
        PROVE  fd'[q] # NoFile /\ TempName(fd'[q]) = TempName(q)
    <2>1. CASE q = p
      BY <1>1, <1>7, <2>1, ToolsAssumption DEF Frame, Effect
    <2>2. CASE q # p
      BY <1>1, <1>7, <2>2 DEF Frame, NameInv, FilesTyping
    <2> QED
      BY <2>1, <2>2
  <1> QED
    BY <1>1, <1>5, <1>6, <1>7 DEF NameInv, Frame

(***************************************************************************)
(* A tool that writes comes to a place where it may leave a file, and one  *)
(* that leaves these places has removed its file.                          *)
(***************************************************************************)
LEMMA HoldEffect ==
  ASSUME FilesTyping, NameInv, NEW p \in Procs, StepOf(p)
  PROVE  /\ \/ data' = data /\ dir'[TempName(p)] \in {dir[TempName(p)], NoFile}
            \/ Holding(tool[p], step'[p])
         /\ Holding(tool[p], step[p]) =>
              Holding(tool[p], step'[p]) \/ dir'[TempName(p)] = NoFile
  <1>1. TempName(p) \in TempNames /\ tool[p] \in Tools /\ AtStep(tool[p], step[p])
    BY NamesOfTools DEF FilesTyping
  <1> USE DEF FilesTyping, GoOn, Holding, AtStep, Tools
  <1>2. CASE OpenElf(p) \/ CreatTemp(p) \/ WriteTemp(p)
    BY <1>1, <1>2 DEF OpenElf, CreatTemp, WriteTemp, filesVars, Over
  <1>3. CASE Parse(p)
    BY <1>1, <1>3 DEF Parse
  <1>4. CASE Follow(p) \/ Show(p) \/ Abort(p) \/ Unknown(p) \/ RemoveTemp(p)
    BY <1>1, <1>4 DEF Follow, Show, Abort, Unknown, Answer, RemoveTemp, Unlink, filesVars
  <1>5. CASE Objcopy(p) \/ UnlinkTemp(p)
    BY <1>1, <1>5 DEF Objcopy, UnlinkTemp, Unlink
  <1>6. CASE CompileCode(p)
    BY <1>1, <1>6 DEF CompileCode
  <1>7. CASE Pack(p) \/ RemoveCode(p) \/ GenJson(p)
    BY <1>1, <1>7 DEF Pack, RemoveCode, GenJson, Unlink, Found, filesVars
  <1>8. CASE Kill(p)
    BY <1>1, <1>8 DEF Kill, filesVars
  <1> QED
    BY <1>2, <1>3, <1>4, <1>5, <1>6, <1>7, <1>8 DEF StepOf

LEMMA HoldStep ==
  ASSUME FilesTyping, NameInv, HoldInv, NEW p \in Procs, StepOf(p)
  PROVE  HoldInv'
  <1>1. Effect(p) /\ Frame(p) /\ NameInv' /\ FilesTyping'
    BY StepEffect, EffectFrames, NamesStep
  <1>2. /\ \/ data' = data /\ dir'[TempName(p)] \in {dir[TempName(p)], NoFile}
           \/ Holding(tool[p], step'[p])
        /\ Holding(tool[p], step[p]) =>
             Holding(tool[p], step'[p]) \/ dir'[TempName(p)] = NoFile
    BY HoldEffect
  <1>3. \A w \in BOOLEAN : Content(p, w).by = p
    BY ContentIsFile
  <1> SUFFICES ASSUME NEW n \in TempNames, dir'[n] # NoFile
               PROVE  Holding(tool[data'[dir'[n]].by], step'[data'[dir'[n]].by])
    BY <1>1 DEF HoldInv, Frame
  <1> DEFINE f == dir'[n]
             b == data'[f].by
  <1>4. f \in Procs /\ b \in Procs /\ TempName(f) = n /\ TempName(b) = n
    BY <1>1 DEF FilesTyping, NameInv, Frame, Contents
  <1>5. CASE data'[f] # data[f]
    <2>1. b = p
      BY <1>1, <1>3, <1>5 DEF Effect, FilesTyping
    <2> QED
      BY <1>2, <1>5, <2>1
  <1>6. CASE data'[f] = data[f]
    <2>1. CASE dir[n] # f
      <3>1. dir' = [dir EXCEPT ![TempName(p)] = Creat(p)] /\ n = TempName(p) /\ f = Creat(p)
        BY <1>1, <2>1, NamesOfTools DEF Effect, FilesTyping
      <3>2. PICK w \in BOOLEAN : data' = [data EXCEPT ![f] = Content(p, w)]
        BY <1>1, <2>1, <3>1, NamesOfTools, ToolsAssumption DEF Effect, FilesTyping
      <3>3. b = p
        BY <1>3, <1>4, <3>2 DEF FilesTyping
      <3> QED
        BY <1>2, <1>4, <2>1, <3>1, <3>3, ToolsAssumption
    <2>2. CASE dir[n] = f /\ b # p
      BY <1>1, <1>4, <1>6, <2>2 DEF HoldInv, Frame
    <2>3. CASE dir[n] = f /\ b = p
      BY <1>2, <1>4, <1>6, <2>3 DEF HoldInv
    <2> QED
      BY <1>2, <2>1, <2>2, <2>3
  <1> QED
    BY <1>5, <1>6
-----------------------------------------------------------------------------
(* A tool that has its name to itself. *)

(* What p may find, and did find, under its name *)
Mine(p, c) ==
  \/ c = Content(p, TRUE)
  \/ /\ tool[p] = "gen_patch" /\ p \in misled
     /\ c.by = p \/ step[c.by] \in {"killed", "failed"}

Alone(p) ==
  \A q \in Procs \ {p} : ~Over(q) => TempName(q) # TempName(p)

OwnName(p) ==
  /\ Alone(p)
  /\ step[p] = "write" => dir[TempName(p)] = fd[p]
  /\ step[p] \in {"parse", "objcopy", "pack"} /\ Found(p) # NoFile => Mine(p, Found(p))

OwnSeen(p) ==
  /\ seen[p] # NoFile => Mine(p, seen[p])
  /\ tool[p] = "gen_patch" /\ step[p] \in {"remove", "json"} => seen[p] # NoFile

OwnPatch(p) ==
  patch # NoFile /\ patch.by = p /\ p \notin misled => patch.code = patch.name

OwnInv ==
  \A p \in Procs \ met :
    (~Over(p) => OwnName(p)) /\ OwnSeen(p) /\ OwnPatch(p)

FilesInv == FilesTyping /\ NameInv /\ HoldInv /\ OwnInv

(* What was p's own stays so. *)
LEMMA MineStays ==
  ASSUME FilesTyping, NEW p \in Procs, NEW q \in Procs, Frame(q),
         NEW c, c \in Contents, Mine(p, c)
  PROVE  Mine(p, c)'
  <1>1. c.by \in Procs
    BY DEF Contents
  <1>2. Content(p, TRUE)' = Content(p, TRUE)
    BY DEF Content, Frame
  <1>3. step[c.by] \in {"killed", "failed"} => step'[c.by] = step[c.by]
    BY <1>1 DEF Frame, Over
  <1> QED
    BY <1>2, <1>3 DEF Mine, Frame

(* The step of another process *)
LEMMA OwnFrame ==
  ASSUME FilesTyping, NameInv, NEW p \in Procs, NEW q \in Procs \ {p}, Frame(q),
         p \notin met', p \notin met, ~Over(p), OwnName(p)
  PROVE  OwnName(p)'
  <1>1. TempName(q) # TempName(p)
    <2>1. CASE step[q] = "start"
      BY <2>1 DEF Frame, Meets, Users
    <2>2. CASE step[q] # "start"
      BY <2>2 DEF Frame, OwnName, Alone
    <2> QED
      BY <2>1, <2>2
  <1>2. /\ dir'[TempName(p)] = dir[TempName(p)]
        /\ step'[p] = step[p] /\ fd'[p] = fd[p]
        /\ tool' = tool /\ path' = path
    BY <1>1, NamesOfTools DEF Frame
  <1>3. dir[TempName(p)] # NoFile => data'[dir[TempName(p)]] = data[dir[TempName(p)]]
    BY <1>1, NamesOfTools DEF Frame, NameInv, FilesTyping
  <1>4. Found(p)' = Found(p)
    BY <1>2, <1>3 DEF Found
  <1>5. Alone(p)'
    BY <1>1, <1>2 DEF Frame, OwnName, Alone, Over
  <1>6. Found(p) # NoFile => Found(p) \in Contents
    BY NamesOfTools DEF FilesTyping, Found
  <1>7. Found(p) # NoFile /\ Mine(p, Found(p)) => Mine(p, Found(p))'
    BY <1>4, <1>6, MineStays DEF Mine
  <1> QED
    BY <1>2, <1>4, <1>5, <1>7 DEF OwnName

(* Its own first step *)
LEMMA AloneStarts ==
  ASSUME FilesTyping, NEW p \in Procs, Frame(p), p \notin met',
         step[p] = "start" \/ Alone(p)
  PROVE  Alone(p)'
  <1>1. Alone(p)
    BY DEF Frame, Meets, Users, Alone
  <1> QED
    BY <1>1 DEF Frame, Alone, Over

LEMMA OwnNameStep ==
  ASSUME FilesInv, NEW p \in Procs, StepOf(p), p \notin met'
  PROVE  ~Over(p)' => OwnName(p)'
  <1>1. /\ Effect(p) /\ Frame(p)
        /\ FilesTyping /\ NameInv /\ HoldInv /\ FilesTyping' /\ NameInv' /\ HoldInv'
    BY StepEffect, EffectFrames, NamesStep, HoldStep DEF FilesInv
  <1>2. p \notin met /\ (step[p] = "start" \/ OwnName(p))
    BY <1>1 DEF Frame, FilesInv, OwnInv, Meets
  <1>3. Alone(p)'
    BY <1>1, <1>2, AloneStarts DEF OwnName
  <1>4. TempName(p) \in TempNames /\ tool' = tool /\ path' = path /\ tool[p] \in Tools
    BY <1>1, NamesOfTools DEF Frame, FilesTyping
  <1>5. CASE OpenElf(p) \/ Objcopy(p) \/ UnlinkTemp(p) \/ RemoveTemp(p) \/ Abort(p) \/ Kill(p)
    BY <1>1, <1>3, <1>5
       DEF OwnName, FilesTyping, OpenElf, Objcopy, UnlinkTemp, RemoveTemp, Abort, Kill, GoOn
  <1>6. CASE CreatTemp(p)
    <2>1. step'[p] \in {"write", "failed"}
      BY <1>1, <1>6 DEF FilesTyping, CreatTemp, GoOn
    <2>2. step'[p] = "write" => dir'[TempName(p)] = fd'[p]
      <3> HIDE DEF TempName
      <3>1. step'[p] = "write" => CreatEmpty(p)
        BY <1>1, <1>6 DEF FilesTyping, CreatTemp, GoOn
      <3> QED
        BY <1>1, <1>4, <3>1 DEF FilesTyping, CreatEmpty
    <2> QED
      BY <1>3, <1>4, <2>1, <2>2 DEF OwnName
  <1>7. CASE WriteTemp(p)
    <2>1. dir[TempName(p)] = fd[p] /\ fd[p] \in Procs /\ fd[p] # NoFile
      BY <1>1, <1>2, <1>7 DEF WriteTemp, OwnName, NameInv, FilesTyping
    <2>2. PICK whole \in BOOLEAN :
            /\ data' = [data EXCEPT ![fd[p]] = Content(p, whole)]
            /\ IF tool[p] = "write_elf"
               THEN GoOn(p, IF whole THEN "objcopy" ELSE "unlink") /\ UNCHANGED dir
               ELSE GoOn(p, "parse") /\ IF whole THEN UNCHANGED dir ELSE Unlink(p)
      BY <1>7 DEF WriteTemp
    <2>3. step'[p] # "write" /\ (step'[p] = "pack" => FALSE)
      BY <1>1, <2>2 DEF GoOn, FilesTyping
    <2>4. step'[p] \in {"parse", "objcopy"} /\ dir'[TempName(p)] # NoFile => whole = TRUE /\ dir' = dir
      BY <1>1, <1>4, <2>2 DEF GoOn, FilesTyping, Unlink
    <2>5. step'[p] \in {"parse", "objcopy"} /\ Found(p)' # NoFile => Mine(p, Found(p))'
      <3> SUFFICES ASSUME step'[p] \in {"parse", "objcopy"}, Found(p)' # NoFile
                   PROVE  Mine(p, Found(p))'
        OBVIOUS
      <3>1. dir'[TempName(p)] = fd[p] /\ whole = TRUE
        BY <1>4, <2>1, <2>4 DEF Found
      <3>2. Found(p)' = Content(p, TRUE)
        BY <1>1, <1>4, <2>1, <2>2, <3>1 DEF Found, FilesTyping
      <3>3. Content(p, TRUE)' = Content(p, TRUE)
        BY <1>4 DEF Content
      <3> QED
        BY <3>2, <3>3 DEF Mine
    <2> QED
      BY <1>3, <2>3, <2>5 DEF OwnName
  <1>8. CASE Parse(p) \/ Follow(p) \/ Show(p) \/ Unknown(p)
    <2>1. step'[p] \in {"failed", "done", "remove", "walk", "aborted"}
      BY <1>1, <1>8 DEF FilesTyping, Parse, Follow, Show, Unknown, Answer, GoOn
    <2> QED
      BY <1>3, <2>1 DEF OwnName
  <1>9. CASE CompileCode(p)
    <2>1. step'[p] = "pack" /\ tool[p] = "gen_patch"
      BY <1>1, <1>9 DEF CompileCode, GoOn, FilesTyping
    <2>2. ASSUME Found(p)' # NoFile
          PROVE  Mine(p, Found(p))'
      <3>1. CASE \E whole \in BOOLEAN :
                   /\ dir' = [dir EXCEPT ![TempName(p)] = Creat(p)]
                   /\ data' = [data EXCEPT ![Creat(p)] = Content(p, whole)]
                   /\ misled' = IF whole THEN misled ELSE misled \cup {p}
        <4>1. PICK whole \in BOOLEAN :
                   /\ dir' = [dir EXCEPT ![TempName(p)] = Creat(p)]
                   /\ data' = [data EXCEPT ![Creat(p)] = Content(p, whole)]
                   /\ misled' = IF whole THEN misled ELSE misled \cup {p}
          BY <3>1
        <4>2. Found(p)' = Content(p, whole)
          BY <1>1, <1>4, <2>2, <4>1, CreatIsOwnName DEF Found, FilesTyping
        <4>3. Content(p, TRUE)' = Content(p, TRUE) /\ Content(p, whole).by = p
          BY <1>1, <1>4, ContentIsFile DEF Content
        <4> QED
          BY <1>4, <2>1, <4>1, <4>2, <4>3 DEF Mine
      <3>2. CASE UNCHANGED <<dir, data>> /\ misled' = misled \cup {p}
        <4> DEFINE b == Found(p)'.by
        <4>1. b \in Procs /\ TempName(b) = TempName(p) /\ tool[b] = "gen_patch"
          <5>1. Found(p)' = data'[dir'[TempName(p)]] /\ dir'[TempName(p)] # NoFile
            BY <1>4, <2>2 DEF Found
          <5>2. b \in Procs /\ TempName(b) = TempName(p)
            BY <1>1, <1>4, <5>1 DEF NameInv, FilesTyping, Contents
          <5> QED
            BY <1>1, <2>1, <5>2, OneSource
        <4>2. Holding(tool[b], step'[b])
          BY <1>4, <2>2 , <1>1 DEF Found, HoldInv
        <4>3. b = p \/ step'[b] \in {"killed", "failed"}
          BY <1>1, <1>3, <1>4, <4>1, <4>2 DEF Holding, Alone, Over
        <4> QED
          BY <1>4, <2>1, <3>2, <4>3 DEF Mine
      <3> QED
        BY <1>9, <3>1, <3>2 DEF CompileCode
    <2> QED
      BY <1>3, <2>1, <2>2 DEF OwnName
  <1>10. CASE Pack(p) \/ RemoveCode(p) \/ GenJson(p)
    BY <1>1, <1>3, <1>10 DEF OwnName, FilesTyping, Pack, RemoveCode, GenJson, GoOn
  <1> QED
    BY <1>5, <1>6, <1>7, <1>8, <1>9, <1>10 DEF StepOf

LEMMA OwnSeenStep ==
  ASSUME FilesInv, NEW p \in Procs, StepOf(p), p \notin met'
  PROVE  OwnSeen(p)'
  <1>1. /\ Effect(p) /\ Frame(p) /\ FilesTyping /\ FilesTyping'
    BY StepEffect, EffectFrames DEF FilesInv
  <1>2. p \notin met /\ OwnSeen(p) /\ (step[p] = "start" \/ OwnName(p))
    BY <1>1 DEF Frame, FilesInv, OwnInv, Meets
  <1>3. tool' = tool /\ path' = path /\ tool[p] \in Tools /\ AtStep(tool[p], step[p])
    BY <1>1 DEF Frame, FilesTyping
  <1>4. CASE Parse(p) \/ Objcopy(p) \/ Pack(p)
    <2>1. seen'[p] \in {seen[p], Found(p)} /\ step[p] \in {"parse", "objcopy", "pack"}
      BY <1>1, <1>4 DEF Parse, Objcopy, Pack, FilesTyping
    <2>2. seen'[p] # NoFile => seen'[p] \in Contents /\ Mine(p, seen'[p])
      BY <1>1, <1>2, <2>1 DEF OwnSeen, OwnName, FilesTyping
    <2>3. seen'[p] # NoFile => Mine(p, seen[p])'
      <3> SUFFICES ASSUME NEW c, c = seen'[p], c \in Contents, Mine(p, c) PROVE Mine(p, seen[p])'
        BY <2>2
      <3> QED
        BY <1>1, MineStays DEF Mine
    <2>4. tool[p] = "gen_patch" /\ step'[p] \in {"remove", "json"} => seen'[p] # NoFile
      BY <1>1, <1>3, <1>4 DEF Parse, Objcopy, Pack, GoOn, FilesTyping, AtStep
    <2> QED
      BY <1>3, <2>3, <2>4 DEF OwnSeen
  <1>5. CASE ~(Parse(p) \/ Objcopy(p) \/ Pack(p))
    <2>1. seen' = seen
      BY <1>5 DEF StepOf, OpenElf, CreatTemp, WriteTemp, Follow, Show, Abort, Unknown, RemoveTemp,
                  UnlinkTemp, CompileCode, RemoveCode, GenJson, Kill, filesVars
    <2>2. tool[p] = "gen_patch" /\ step'[p] \in {"remove", "json"} =>
            step[p] = "remove"
      BY <1>1, <1>3, <1>5 DEF StepOf, OpenElf, CreatTemp, WriteTemp, Follow, Show, Abort, Unknown,
                  RemoveTemp, UnlinkTemp, CompileCode, RemoveCode, GenJson, Kill, GoOn, Answer,
                  FilesTyping, AtStep, Over
    <2>3. seen[p] # NoFile => seen[p] \in Contents
      BY <1>1 DEF FilesTyping
    <2>4. seen[p] # NoFile => Mine(p, seen[p])'
      <3> SUFFICES ASSUME NEW c, c = seen[p], c \in Contents, Mine(p, c) PROVE Mine(p, seen[p])'
        BY <1>2, <2>3 DEF OwnSeen
      <3> QED
        BY <1>1, <2>1, MineStays DEF Mine
    <2> QED
      BY <1>2, <1>3, <2>1, <2>2, <2>4 DEF OwnSeen
  <1> QED
    BY <1>4, <1>5

(* Only GenJson writes patch.json, from what its process has seen. *)
LEMMA PatchStep ==
  ASSUME FilesInv, NEW p \in Procs, StepOf(p)
  PROVE  patch' = patch \/
           (/\ patch'.by = p
            /\ p \notin met' \cup misled' => patch'.code = patch'.name)
  <1>1. CASE GenJson(p)
    <2>1. CASE patch' # patch
      <3>1. patch' = [name |-> path[p], code |-> seen[p].of, by |-> p]
        BY <1>1, <2>1 DEF GenJson
      <3>2. step[p] = "json" /\ met' = met /\ misled' = misled /\ tool[p] = "gen_patch"
        BY <1>1 DEF GenJson, FilesInv, FilesTyping, AtStep
      <3>3. p \notin met \cup misled => seen[p] = Content(p, TRUE)
        BY <3>2 DEF FilesInv, OwnInv, OwnSeen, Mine
      <3>4. Content(p, TRUE).of = path[p]
        BY ContentIsFile DEF FilesInv
      <3> QED
        BY <3>1, <3>2, <3>3, <3>4
    <2> QED
      BY <2>1
  <1>2. CASE ~GenJson(p)
    BY <1>2 DEF StepOf, OpenElf, CreatTemp, WriteTemp, Parse, Follow, Show, Abort, Unknown,
          RemoveTemp, Objcopy, UnlinkTemp, CompileCode, Pack, RemoveCode, Kill, outputs
  <1> QED
    BY <1>1, <1>2

LEMMA OwnStep ==
  ASSUME FilesInv, NEW q \in Procs, StepOf(q)
  PROVE  OwnInv'
  <1>1. Effect(q) /\ Frame(q) /\ FilesTyping /\ FilesTyping' /\ NameInv
    BY StepEffect, EffectFrames DEF FilesInv
  <1> SUFFICES ASSUME NEW p \in Procs, p \notin met'
               PROVE  (~Over(p)' => OwnName(p)') /\ OwnSeen(p)' /\ OwnPatch(p)'
    BY DEF OwnInv
  <1>2. p \notin met /\ (~Over(p) => OwnName(p)) /\ OwnSeen(p) /\ OwnPatch(p)
    BY <1>1 DEF Frame, FilesInv, OwnInv, Meets
  <1>3. OwnPatch(p)'
    <2>1. CASE patch' = patch
      BY <1>1, <1>2, <2>1 DEF OwnPatch, Frame
    <2>2. CASE patch' # patch
      BY <2>2, PatchStep DEF OwnPatch
    <2> QED
      BY <2>1, <2>2
  <1>4. CASE p = q
    BY <1>3, <1>4, OwnNameStep, OwnSeenStep
  <1>5. CASE p # q
    <2>1. step'[p] = step[p] /\ seen'[p] = seen[p] /\ tool' = tool
      BY <1>1, <1>5 DEF Frame
    <2>2. ~Over(p)' => OwnName(p)'
      BY <1>1, <1>2, <1>5, <2>1, OwnFrame DEF Over
    <2>3. seen[p] # NoFile => Mine(p, seen[p])'
      <3> SUFFICES ASSUME NEW c, c = seen[p], c \in Contents, Mine(p, c) PROVE Mine(p, seen[p])'
        BY <1>1, <1>2 DEF OwnSeen, FilesTyping
      <3> QED
        BY <1>1, <2>1, MineStays DEF Mine
    <2> QED
      BY <1>2, <1>3, <2>1, <2>2, <2>3 DEF OwnSeen
  <1> QED
    BY <1>4, <1>5

LEMMA FilesInitially == ToolInit => FilesInv
  <1> SUFFICES ASSUME ToolInit PROVE FilesInv
    OBVIOUS
  <1> USE DEF ToolInit
  <1>1. FilesTyping
    BY DEF FilesTyping, Steps, AtStep
  <1>2. NameInv
    BY DEF NameInv
  <1>3. HoldInv
    BY DEF HoldInv
  <1>4. OwnInv
    BY DEF OwnInv, Over, OwnSeen, OwnPatch
  <1> QED
    BY <1>1, <1>2, <1>3, <1>4 DEF FilesInv

LEMMA FilesUnchanged ==
  ASSUME FilesInv, UNCHANGED toolVars
  PROVE  FilesInv'
  <1> USE DEF toolVars, filesVars, outputs
  <1>1. FilesTyping'
    BY DEF FilesInv, FilesTyping
  <1>2. NameInv'
    BY DEF FilesInv, NameInv
  <1>3. HoldInv'
    BY DEF FilesInv, HoldInv
  <1>4. OwnInv'
    BY DEF FilesInv, OwnInv, OwnName, OwnSeen, OwnPatch, Alone, Found, Mine, Content, Over
  <1> QED
    BY <1>1, <1>2, <1>3, <1>4 DEF FilesInv

LEMMA FilesStep ==
  ASSUME FilesInv, [ToolStep]_toolVars
  PROVE  FilesInv'
  <1>1. CASE ToolStep
    <2>1. PICK p \in Procs : StepOf(p)
      BY <1>1 DEF ToolStep, StepOf
    <2>2. FilesTyping'
      BY <2>1, StepEffect, EffectFrames DEF FilesInv
    <2> QED
      BY <2>1, <2>2, NamesStep, HoldStep, OwnStep DEF FilesInv
  <1> QED
    BY <1>1, FilesUnchanged

(***************************************************************************)
(* Whatever steps fail and whoever is killed, a temporary file that still  *)
(* has its name when its tool is over was left for one of the reasons that *)
(* LeftoversExplained names.                                               *)
(***************************************************************************)
THEOREM FilesRemoved == ToolsSpec => []LeftoversExplained
  <1>1. FilesInv => LeftoversExplained
    BY DEF FilesInv, FilesTyping, HoldInv, NameInv, Holding, LeftoversExplained, Over, Contents, Tools
  <1>2. FilesInv /\ [ToolStep]_toolVars => FilesInv'
    BY FilesStep
  <1> QED
    BY FilesInitially, <1>1, <1>2, PTL DEF ToolsSpec

-----------------------------------------------------------------------------
(* The walk of parse_btf along the types. *)

Answers == Seq([type : Nat, members : Seq(Nat)])

Typed(p) == path[p] \in Elfs /\ Btf[path[p]] # NoFile

(* The type t, asked for, may come down to something beyond u. *)
OnWay(p, t, u) ==
  t \in DOMAIN Types(p) => \A S \in Ways[path[p]][t] : u \in S

AnswersOk(p, a) ==
  /\ a \in Answers /\ Len(a) <= Len(Asked(p))
  /\ \A k \in 1 .. Len(a) :
       /\ Declares(p, Asked(p)[k], a[k].type)
       /\ \A j \in 1 .. Len(a[k].members) :
            Declares(p, Types(p)[a[k].type].members[j], a[k].members[j])

WalkIs(p, t, s, n, a) ==
  /\ t = "parse_btf" /\ s \in {"creat", "write", "parse", "walk"} => Typed(p)
  /\ s \in {"start", "creat", "write", "parse"} => a = <<>>
  /\ a # <<>> => Typed(p) /\ AnswersOk(p, a)
  /\ s = "walk" => ~AllShown(p, a) /\ OnWay(p, NextAsked(p, a), n)

WalkOf(p) == WalkIs(p, tool[p], step[p], now[p], shown[p])

WalkInv ==
  /\ now \in [Procs -> Nat] /\ shown \in [Procs -> Answers]
  /\ \A p \in Procs : WalkOf(p)

LEMMA EndsOfSeq ==
  ASSUME NEW X, NEW s \in Seq(X), s # <<>>
  PROVE  Len(s) \in Nat /\ Len(s) >= 1 /\ s[1] \in X /\ s[Len(s)] \in X
  BY EmptySeq, LenProperties, ElementOfSeq

(* s with b as its n-th *)
Put(s, n, b) == [s EXCEPT ![n] = b]

LEMMA PutInSeq ==
  ASSUME NEW X, NEW s \in Seq(X), NEW n \in 1 .. Len(s), NEW b \in X
  PROVE  /\ Put(s, n, b) \in Seq(X) /\ Len(Put(s, n, b)) = Len(s)
         /\ Put(s, n, b)[n] = b
         /\ \A k \in 1 .. Len(s) : k # n => Put(s, n, b)[k] = s[k]
  BY DEF Put

LEMMA TypesOfBtf ==
  ASSUME NEW p \in Procs, Typed(p), NEW t \in DOMAIN Types(p)
  PROVE  /\ Types(p)[t].refs \in Seq(Nat) /\ Types(p)[t].params \in Seq(Nat)
         /\ Types(p)[t].members \in Seq(Nat)
         /\ Types(p)[t].kind # "array" => Len(Types(p)[t].refs) <= 1
  BY ToolsAssumption DEF Typed, Types, TypeOfBtf

LEMMA AskedTypes ==
  ASSUME NEW p \in Procs, Typed(p)
  PROVE  Asked(p) \in Seq(Nat) /\ Len(Asked(p)) >= 1
  <1> DEFINE proto == Types(p)[Btf[path[p]].proto]
  <1>1. proto.refs \in Seq(Nat) /\ proto.refs # <<>> /\ proto.params \in Seq(Nat)
    BY TypesOfBtf, ToolsAssumption DEF Typed, Types
  <1>2. <<proto.refs[1]>> \in Seq(Nat) /\ Len(<<proto.refs[1]>>) = 1
    <2>1. proto.refs[1] \in Nat
      BY <1>1, EndsOfSeq
    <2> HIDE DEF proto
    <2> QED
      BY <2>1
  <1> HIDE DEF proto
  <1>3. <<proto.refs[1]>> \o proto.params \in Seq(Nat)
        /\ Len(<<proto.refs[1]>> \o proto.params) >= 1
    BY <1>1, <1>2
  <1> QED
    BY <1>3 DEF Asked, proto

LEMMA WayHas ==
  ASSUME NEW p \in Procs, Typed(p), NEW t \in DOMAIN Types(p), NEW S \in Ways[path[p]][t]
  PROVE  /\ S \subseteq DOMAIN Types(p) /\ t \in S
         /\ \A u \in S : Types(p)[u].refs # <<>> =>
              Types(p)[u].kind # "array" /\ Types(p)[u].refs[1] \in S
  BY DEF Ways, Typed, Types

LEMMA WayStarts ==
  ASSUME NEW p \in Procs, Typed(p), NEW t
  PROVE  OnWay(p, t, t)
  BY WayHas DEF OnWay

(* A type that refers to no other, or is not known, ends the way. *)
LEMMA WayEnds ==
  ASSUME NEW p \in Procs, Typed(p), NEW t, NEW u, OnWay(p, t, u),
         u \in DOMAIN Types(p) => Types(p)[u].refs = <<>>
  PROVE  Declares(p, t, u)
  BY WayHas DEF OnWay, Declares

(* Without arrays a type refers to one other. *)
LEMMA WayGoesOn ==
  ASSUME NEW p \in Procs, Typed(p), NEW t, NEW u, OnWay(p, t, u),
         u \in DOMAIN Types(p), Types(p)[u].refs # <<>>
  PROVE  OnWay(p, t, Followed(Types(p)[u])) /\ Followed(Types(p)[u]) \in Nat
  <1>1. Types(p)[u].refs \in Seq(Nat)
    BY TypesOfBtf
  <1>2. Followed(Types(p)[u]) \in Nat
    BY <1>1 DEF Followed, Last
  <1>3. ASSUME t \in DOMAIN Types(p), NEW S \in Ways[path[p]][t]
        PROVE  Followed(Types(p)[u]) \in S
    <2>1. u \in S
      BY <1>3 DEF OnWay
    <2>2. Types(p)[u].kind # "array" /\ Types(p)[u].refs[1] \in S
      BY <1>3, <2>1, WayHas
    <2>3. Len(Types(p)[u].refs) = 1
      <3>1. Len(Types(p)[u].refs) <= 1
        BY <2>2, TypesOfBtf
      <3>2. \A r \in Seq(Nat) : r # <<>> => Len(r) \in Nat /\ Len(r) >= 1
        BY EndsOfSeq
      <3>3. Len(Types(p)[u].refs) \in Nat /\ Len(Types(p)[u].refs) >= 1
        BY <1>1, <3>2
      <3>4. \A l \in Nat : l <= 1 /\ l >= 1 => l = 1
        OBVIOUS
      <3> QED
        BY <3>1, <3>3, <3>4
    <2> QED
      BY <2>2, <2>3 DEF Followed, Last
  <1> QED
    BY <1>2, <1>3 DEF OnWay

(* What is asked next is a type, as long as there is something to ask. *)
LEMMA NextIsType ==
  ASSUME NEW p \in Procs, Typed(p), NEW a \in Answers, Len(a) <= Len(Asked(p)),
         ~AllShown(p, a)
  PROVE  NextAsked(p, a) \in Nat
  <1>1. Asked(p) \in Seq(Nat) /\ Len(Asked(p)) \in Nat /\ Len(a) \in Nat
    BY AskedTypes DEF Answers
  <1>2. CASE InMembers(p, a)
    <2> DEFINE m == MembersOf(p, a)
               n == Len(a[Len(a)].members)
    <2>1. a # <<>> /\ a[Len(a)] \in [type : Nat, members : Seq(Nat)]
      BY <1>1, <1>2, EndsOfSeq DEF InMembers, Answers
    <2>2. n \in Nat /\ n < Len(m)
      BY <1>2, <2>1 DEF InMembers
    <2>3. m \in Seq(Nat)
      BY TypesOfBtf DEF MembersOf
    <2> HIDE DEF m, n
    <2>4. m[n + 1] \in Nat
      BY <2>2, <2>3
    <2> QED
      BY <1>2, <2>4 DEF NextAsked, m, n
  <1>3. CASE ~InMembers(p, a)
    <2>1. Len(a) + 1 \in 1 .. Len(Asked(p))
      BY <1>1, <1>3 DEF AllShown
    <2> QED
      BY <1>1, <1>3, <2>1 DEF NextAsked
  <1> QED
    BY <1>2, <1>3

(* An answer replaced *)
LEMMA AnswerReplaced ==
  ASSUME NEW s \in Answers, NEW n \in 1 .. Len(s), NEW b \in [type : Nat, members : Seq(Nat)]
  PROVE  /\ Put(s, n, b) \in Answers /\ Len(Put(s, n, b)) = Len(s)
         /\ Put(s, n, b)[n] = b
         /\ \A k \in 1 .. Len(s) : k # n => Put(s, n, b)[k] = s[k]
  <1>1. PICK X : X = [type : Nat, members : Seq(Nat)]
    OBVIOUS
  <1>2. s \in Seq(X) /\ b \in X
    BY <1>1 DEF Answers
  <1>3. /\ Put(s, n, b) \in Seq(X) /\ Len(Put(s, n, b)) = Len(s)
        /\ Put(s, n, b)[n] = b
        /\ \A k \in 1 .. Len(s) : k # n => Put(s, n, b)[k] = s[k]
    BY <1>2, PutInSeq
  <1> QED
    BY <1>1, <1>3 DEF Answers

(* One more member of the last answer *)
LEMMA OneMoreMember ==
  ASSUME NEW p \in Procs, Typed(p), NEW s, AnswersOk(p, s), NEW u \in Nat,
         InMembers(p, s), Declares(p, NextAsked(p, s), u)
  PROVE  LET b == [type |-> s[Len(s)].type, members |-> Append(s[Len(s)].members, u)]
         IN Put(s, Len(s), b) # <<>> /\ AnswersOk(p, Put(s, Len(s), b))
  <1> DEFINE c == [type |-> s[Len(s)].type, members |-> Append(s[Len(s)].members, u)]
  <1>1. s \in Seq([type : Nat, members : Seq(Nat)]) /\ s # <<>> /\ Len(s) <= Len(Asked(p))
    BY DEF AnswersOk, Answers, InMembers
  <1>2. PICK n : n = Len(s)
    OBVIOUS
  <1>3. n \in Nat /\ n \in 1 .. n /\ s[n] \in [type : Nat, members : Seq(Nat)]
    <2>1. PICK X : X = [type : Nat, members : Seq(Nat)]
      OBVIOUS
    <2>2. s \in Seq(X)
      BY <1>1, <2>1
    <2>3. n \in Nat /\ n >= 1 /\ s[n] \in X
      BY <1>1, <1>2, <2>2, EndsOfSeq
    <2>4. \A l \in Nat : l >= 1 => l \in 1 .. l
      OBVIOUS
    <2> QED
      BY <2>1, <2>3, <2>4
  <1>4. PICK b : b = c
    OBVIOUS
  <1>5. b \in [type : Nat, members : Seq(Nat)] /\ b.type = s[n].type
         /\ b.members = Append(s[n].members, u)
    BY <1>2, <1>3, <1>4, AppendProperties
  <1> HIDE DEF c
  <1>6. PICK a : a = Put(s, n, b)
    OBVIOUS
  <1>7. /\ Put(s, n, b) \in Answers /\ Len(Put(s, n, b)) = Len(s)
         /\ Put(s, n, b)[n] = b
         /\ \A k \in 1 .. Len(s) : k # n => Put(s, n, b)[k] = s[k]
    <2>1. n \in 1 .. Len(s) /\ s \in Answers
      BY <1>1, <1>2, <1>3 DEF Answers
    <2>2. b \in [type : Nat, members : Seq(Nat)]
      BY <1>5
    <2> QED
      BY <2>1, <2>2, AnswerReplaced
  <1>8. /\ a \in Answers /\ Len(a) = n
         /\ a[n].type = s[n].type /\ a[n].members = Append(s[n].members, u)
         /\ \A k \in 1 .. n : k # n => a[k] = s[k]
    BY <1>2, <1>5, <1>6, <1>7
  <1>9. PICK m : m = Len(s[n].members)
    OBVIOUS
  <1>10. s[n].members \in Seq(Nat) /\ m \in Nat
    BY <1>3, <1>9, LenProperties
  <1>11. /\ Len(a[n].members) = m + 1 /\ a[n].members[m + 1] = u
        /\ \A j \in 1 .. m : a[n].members[j] = s[n].members[j]
    BY <1>9, <1>10, <1>8, AppendProperties
  <1>12. NextAsked(p, s) = Types(p)[s[n].type].members[m + 1]
    <2>1. MembersOf(p, s) # <<>> => MembersOf(p, s) = Types(p)[s[n].type].members
      BY <1>2 DEF MembersOf
    <2>2. Len(MembersOf(p, s)) > m
      BY <1>2, <1>9 DEF InMembers
    <2>3. Len(<<>>) = 0
      BY EmptySeq
    <2> QED
      BY <1>2, <1>9, <1>10, <2>1, <2>2, <2>3 DEF NextAsked
  <1>13. ASSUME NEW j \in 1 .. m + 1
        PROVE  Declares(p, Types(p)[s[n].type].members[j], a[n].members[j])
    <2>1. CASE j = m + 1
      BY <1>11, <1>12, <2>1
    <2>2. CASE j # m + 1
      <3>1. j \in 1 .. m
        BY <1>10, <2>2
      <3>2. Declares(p, Types(p)[s[n].type].members[j], s[n].members[j])
        BY <1>2, <1>3, <1>9, <3>1 DEF AnswersOk
      <3> QED
        BY <1>11, <3>1, <3>2
    <2> QED
      BY <2>1, <2>2
  <1>14. ASSUME NEW k \in 1 .. n
        PROVE  /\ Declares(p, Asked(p)[k], a[k].type)
               /\ \A j \in 1 .. Len(a[k].members) :
                    Declares(p, Types(p)[a[k].type].members[j], a[k].members[j])
    <2>1. /\ Declares(p, Asked(p)[k], s[k].type)
          /\ \A j \in 1 .. Len(s[k].members) :
                     Declares(p, Types(p)[s[k].type].members[j], s[k].members[j])
      BY <1>2 DEF AnswersOk
    <2>2. CASE k = n
      BY <1>8, <1>11, <1>13, <2>1, <2>2
    <2>3. CASE k # n
      BY <1>8, <2>1, <2>3
    <2> QED
      BY <2>2, <2>3
  <1>15. a # <<>>
    BY <1>3, <1>8, EmptySeq DEF Answers
  <1> QED
    <2>1. AnswersOk(p, a)
      BY <1>1, <1>2, <1>14, <1>8 DEF AnswersOk
    <2> QED
      BY <1>2, <1>15, <1>4, <1>6, <2>1 DEF c

(* One more answer *)
LEMMA OneMoreAnswer ==
  ASSUME NEW p \in Procs, Typed(p), NEW s, AnswersOk(p, s), NEW u \in Nat,
         ~InMembers(p, s), ~AllShown(p, s), Declares(p, NextAsked(p, s), u),
         NEW a, a = Append(s, [type |-> u, members |-> <<>>])
  PROVE  a # <<>> /\ AnswersOk(p, a)
  <1>1. s \in Seq([type : Nat, members : Seq(Nat)]) /\ Len(s) <= Len(Asked(p))
    BY DEF AnswersOk, Answers
  <1>2. PICK n : n = Len(s)
    OBVIOUS
  <1>3. n \in Nat /\ Len(Asked(p)) \in Nat
    BY <1>1, <1>2, LenProperties, AskedTypes
  <1>4. PICK e : e = [type |-> u, members |-> <<>>]
    OBVIOUS
  <1>5. e \in [type : Nat, members : Seq(Nat)] /\ e.type = u /\ e.members = <<>> /\ Len(<<>>) = 0
    BY <1>4, EmptySeq
  <1>6. NextAsked(p, s) = Asked(p)[n + 1] /\ n < Len(Asked(p))
    BY <1>1, <1>2, <1>3 DEF NextAsked, AllShown
  <1>7. a = Append(s, e)
    BY <1>4
  <1>8. /\ a \in Answers /\ Len(a) = n + 1 /\ a[n + 1] = e
        /\ \A k \in 1 .. n : a[k] = s[k]
    BY <1>1, <1>2, <1>5, <1>7, AppendProperties DEF Answers
  <1>9. ASSUME NEW k \in 1 .. Len(a)
        PROVE  /\ Declares(p, Asked(p)[k], a[k].type)
               /\ \A j \in 1 .. Len(a[k].members) :
                    Declares(p, Types(p)[a[k].type].members[j], a[k].members[j])
    <2>1. CASE k = n + 1
      BY <1>5, <1>6, <1>8, <2>1
    <2>2. CASE k # n + 1
      <3>1. k \in 1 .. n
        BY <1>3, <1>8, <2>2
      <3> QED
        BY <1>2, <1>8, <3>1 DEF AnswersOk
    <2> QED
      BY <2>1, <2>2
  <1>10. a # <<>>
    BY <1>3, <1>5, <1>8
  <1> QED
    BY <1>3, <1>6, <1>8, <1>9, <1>10 DEF AnswersOk

LEMMA WalkBecomes ==
  ASSUME path' = path, NEW p \in Procs, NEW t, NEW s, NEW n, NEW a,
         tool'[p] = t, step'[p] = s, now'[p] = n, shown'[p] = a, WalkIs(p, t, s, n, a)
  PROVE  WalkOf(p)'
  <1>1. Typed(p)' <=> Typed(p)
    BY DEF Typed
  <1>2. AnswersOk(p, shown[p])' <=> AnswersOk(p, a)
    BY DEF AnswersOk, Declares, Asked, Types
  <1>3. AllShown(p, shown[p])' <=> AllShown(p, a)
    BY DEF AllShown, InMembers, MembersOf, Asked, Types
  <1>4. OnWay(p, NextAsked(p, shown[p]), now[p])' <=> OnWay(p, NextAsked(p, a), n)
    BY DEF OnWay, NextAsked, InMembers, MembersOf, Asked, Types
  <1> QED
    BY <1>1, <1>2, <1>3, <1>4 DEF WalkOf, WalkIs

(* The loop that looks for a type ends. *)
LEMMA AnswerStep ==
  ASSUME FilesTyping, WalkInv, NEW p \in Procs, step[p] = "walk", Answer(p),
         now[p] \in DOMAIN Types(p) => Types(p)[now[p]].refs = <<>>
  PROVE  \E a \in Answers, m \in Nat, s \in {"walk", "remove"} :
           /\ shown' = [shown EXCEPT ![p] = a] /\ now' = [now EXCEPT ![p] = m]
           /\ step' = [step EXCEPT ![p] = s] /\ WalkIs(p, tool[p], s, m, a)
  <1>1. /\ Typed(p) /\ shown[p] \in Answers /\ now[p] \in Nat
        /\ ~AllShown(p, shown[p]) /\ OnWay(p, NextAsked(p, shown[p]), now[p])
        /\ shown[p] # <<>> => AnswersOk(p, shown[p])
    BY DEF WalkInv, WalkOf, WalkIs, FilesTyping, AtStep
  <1>2. PICK a :
          /\ a = IF InMembers(p, shown[p])
                 THEN Put(shown[p], Len(shown[p]),
                          [type |-> shown[p][Len(shown[p])].type,
                           members |-> Append(shown[p][Len(shown[p])].members, now[p])])
                 ELSE Append(shown[p], [type |-> now[p], members |-> <<>>])
          /\ shown' = [shown EXCEPT ![p] = a]
          /\ IF AllShown(p, a) THEN GoOn(p, "remove") /\ UNCHANGED now
             ELSE now' = [now EXCEPT ![p] = NextAsked(p, a)] /\ UNCHANGED step
    BY DEF Answer, Put
  <1>3. Declares(p, NextAsked(p, shown[p]), now[p])
    BY <1>1, WayEnds
  <1>4. AnswersOk(p, shown[p])
    <2>1. CASE shown[p] = <<>>
      <3>1. Len(shown[p]) = 0 /\ Len(Asked(p)) \in Nat
        BY <1>1, <2>1, AskedTypes, EmptySeq
      <3>2. 1 .. Len(shown[p]) = {} /\ Len(shown[p]) <= Len(Asked(p))
        BY <3>1
      <3> QED
        BY <1>1, <3>2 DEF AnswersOk
    <2> QED
      BY <1>1, <2>1
  <1>5. AnswersOk(p, a) /\ a # <<>>
    <2>1. CASE InMembers(p, shown[p])
      BY <1>1, <1>2, <1>3, <1>4, <2>1, OneMoreMember
    <2>2. CASE ~InMembers(p, shown[p])
      BY <1>1, <1>2, <1>3, <1>4, <2>2, OneMoreAnswer
    <2> QED
      BY <2>1, <2>2
  <1>6. a \in Answers /\ Len(a) <= Len(Asked(p))
    BY <1>5 DEF AnswersOk
  <1>7. CASE AllShown(p, a)
    <2>1. /\ step' = [step EXCEPT ![p] = "remove"] /\ now' = [now EXCEPT ![p] = now[p]]
      BY <1>2, <1>7 DEF GoOn, WalkInv
    <2>2. WalkIs(p, tool[p], "remove", now[p], a)
      BY <1>1, <1>5 DEF WalkIs
    <2> QED
      BY <1>1, <1>2, <1>6, <2>1, <2>2
  <1>8. CASE ~AllShown(p, a)
    <2>1. NextAsked(p, a) \in Nat
      BY <1>1, <1>6, <1>8, NextIsType
    <2>2. WalkIs(p, tool[p], "walk", NextAsked(p, a), a)
      BY <1>1, <1>5, <1>8, WayStarts DEF WalkIs
    <2>3. step' = [step EXCEPT ![p] = "walk"]
      BY <1>2, <1>8 DEF FilesTyping
    <2> QED
      BY <1>2, <1>6, <1>8, <2>1, <2>2, <2>3
  <1> QED
    BY <1>7, <1>8

LEMMA WalkInitially == ToolInit => WalkInv
  <1> SUFFICES ASSUME ToolInit
               PROVE  WalkInv
    OBVIOUS
  <1>1. <<>> \in Answers /\ 0 \in Nat
    BY EmptySeq DEF Answers
  <1>2. now \in [Procs -> Nat] /\ shown \in [Procs -> Answers]
    BY <1>1 DEF ToolInit
  <1>3. ASSUME NEW p \in Procs
        PROVE  WalkOf(p)
    BY DEF ToolInit, WalkOf, WalkIs
  <1> QED
    BY <1>2, <1>3 DEF WalkInv

(* What a step of p does to its walk, and leaves to the others *)
LEMMA WalkEffect ==
  ASSUME FilesTyping, NameInv, WalkInv, NEW p \in Procs, StepOf(p)
  PROVE  \E a \in Answers, m \in Nat, s \in Steps :
           /\ shown' = [shown EXCEPT ![p] = a] /\ now' = [now EXCEPT ![p] = m]
           /\ step' = [step EXCEPT ![p] = s] /\ WalkIs(p, tool[p], s, m, a)
  <1>1. /\ shown = [shown EXCEPT ![p] = shown[p]] /\ now = [now EXCEPT ![p] = now[p]]
        /\ step = [step EXCEPT ![p] = step[p]]
        /\ shown[p] \in Answers /\ now[p] \in Nat /\ step[p] \in Steps
    BY DEF WalkInv, FilesTyping
  <1>2. WalkIs(p, tool[p], step[p], now[p], shown[p]) /\ AtStep(tool[p], step[p])
    BY DEF WalkInv, WalkOf, FilesTyping
  <1>3. path[p] \in IF tool[p] = "gen_patch" THEN Srcs ELSE Elfs
    BY DEF FilesTyping
  <1>4. CASE OpenElf(p)
    BY <1>1, <1>2, <1>3, <1>4 DEF OpenElf, NoBtf, GoOn, outputs, WalkIs, Typed, Steps
  <1>5. CASE CreatTemp(p) \/ WriteTemp(p)
    BY <1>1, <1>2, <1>5 DEF CreatTemp, WriteTemp, GoOn, outputs, WalkIs, Steps
  <1>6. CASE Parse(p)
    <2>1. ASSUME NEW s \in {"failed", "done", "remove"}, GoOn(p, s), UNCHANGED now
          PROVE  \E a \in Answers, m \in Nat, r \in Steps :
                   /\ shown' = [shown EXCEPT ![p] = a] /\ now' = [now EXCEPT ![p] = m]
                   /\ step' = [step EXCEPT ![p] = r] /\ WalkIs(p, tool[p], r, m, a)
      BY <1>1, <1>2, <1>6, <2>1 DEF Parse, GoOn, WalkIs, Steps
    <2>2. CASE tool[p] = "parse_btf" /\ GoOn(p, "walk")
               /\ now' = [now EXCEPT ![p] = NextAsked(p, <<>>)]
      <3>1. Typed(p) /\ shown[p] = <<>> /\ shown' = shown
        BY <1>2, <1>6, <2>2 DEF Parse, WalkIs
      <3>2. <<>> \in Answers /\ Len(<<>>) = 0
        BY EmptySeq DEF Answers
      <3>3. Asked(p) \in Seq(Nat) /\ Len(Asked(p)) \in Nat /\ Len(Asked(p)) >= 1
        BY <3>1, AskedTypes
      <3>4. ~AllShown(p, <<>>) /\ Len(<<>>) <= Len(Asked(p))
        BY <3>2, <3>3 DEF AllShown
      <3>5. NextAsked(p, <<>>) \in Nat
        BY <3>1, <3>2, <3>4, NextIsType
      <3>6. WalkIs(p, tool[p], "walk", NextAsked(p, <<>>), <<>>)
        BY <3>1, <3>4, WayStarts DEF WalkIs
      <3>7. shown' = [shown EXCEPT ![p] = <<>>]
        BY <1>1, <3>1
      <3> QED
        BY <2>2, <3>2, <3>5, <3>6, <3>7 DEF GoOn, Steps
    <2>3. tool[p] \in {"parse_btf", "dump_btf"}
      BY <1>2, <1>6 DEF Parse, AtStep
    <2> QED
      BY <1>6, <2>1, <2>2, <2>3 DEF Parse
  <1>7. CASE Follow(p)
    <2>1. Typed(p) /\ ~AllShown(p, shown[p]) /\ OnWay(p, NextAsked(p, shown[p]), now[p])
          /\ (shown[p] # <<>> => AnswersOk(p, shown[p]))
      BY <1>2, <1>7 DEF Follow, WalkIs, AtStep
    <2>2. /\ now[p] \in DOMAIN Types(p) /\ Types(p)[now[p]].refs # <<>>
          /\ now' = [now EXCEPT ![p] = Followed(Types(p)[now[p]])]
      BY <1>7 DEF Follow, Known
    <2>3. /\ OnWay(p, NextAsked(p, shown[p]), Followed(Types(p)[now[p]]))
          /\ Followed(Types(p)[now[p]]) \in Nat
      BY <2>1, <2>2, WayGoesOn
    <2>4. WalkIs(p, tool[p], "walk", Followed(Types(p)[now[p]]), shown[p])
      BY <2>1, <2>3 DEF WalkIs
    <2>5. shown' = shown /\ step' = step /\ step[p] = "walk"
      BY <1>7 DEF Follow
    <2> QED
      BY <1>1, <2>2, <2>3, <2>4, <2>5
  <1>8. CASE Show(p)
    BY <1>8, AnswerStep DEF Show, Steps
  <1>9. CASE Unknown(p)
    <2>1. CASE Answer(p)
      BY <1>9, <2>1, AnswerStep DEF Unknown, Known, Steps
    <2>2. CASE GoOn(p, "aborted") /\ UNCHANGED <<now, shown>>
      BY <1>1, <1>2, <1>9, <2>2 DEF Unknown, GoOn, WalkIs, Steps
    <2> QED
      BY <1>9, <2>1, <2>2 DEF Unknown
  <1>10. CASE Abort(p) \/ RemoveTemp(p) \/ Objcopy(p) \/ UnlinkTemp(p)
    BY <1>1, <1>2, <1>10
       DEF Abort, RemoveTemp, Objcopy, UnlinkTemp, GoOn, outputs, WalkIs, Steps
  <1>11. CASE CompileCode(p) \/ Pack(p) \/ RemoveCode(p) \/ GenJson(p)
    BY <1>1, <1>2, <1>11
       DEF CompileCode, Pack, RemoveCode, GenJson, GoOn, outputs, WalkIs, Steps, AtStep
  <1>12. CASE Kill(p)
    BY <1>1, <1>2, <1>12 DEF Kill, GoOn, outputs, WalkIs, Steps
  <1> QED
    BY <1>4, <1>5, <1>6, <1>7, <1>8, <1>9, <1>10, <1>11, <1>12 DEF StepOf

LEMMA WalkStep ==
  ASSUME FilesTyping, NameInv, WalkInv, NEW p \in Procs, StepOf(p)
  PROVE  WalkInv'
  <1>1. PICK a \in Answers, m \in Nat, s \in Steps :
          /\ shown' = [shown EXCEPT ![p] = a] /\ now' = [now EXCEPT ![p] = m]
          /\ step' = [step EXCEPT ![p] = s] /\ WalkIs(p, tool[p], s, m, a)
    BY WalkEffect
  <1>2. tool' = tool /\ path' = path
    BY StepEffect DEF Effect
  <1>3. now' \in [Procs -> Nat] /\ shown' \in [Procs -> Answers]
    BY <1>1 DEF WalkInv
  <1>4. /\ shown'[p] = a /\ now'[p] = m /\ step'[p] = s /\ tool'[p] = tool[p]
        /\ \A q \in Procs \ {p} : shown'[q] = shown[q] /\ now'[q] = now[q] /\ step'[q] = step[q]
    BY <1>1, <1>2 DEF WalkInv, FilesTyping
  <1>5. WalkOf(p)'
    BY <1>1, <1>2, <1>4, WalkBecomes
  <1>6. ASSUME NEW q \in Procs \ {p}
        PROVE  WalkOf(q)'
    <2>1. WalkIs(q, tool[q], step[q], now[q], shown[q])
      BY DEF WalkInv, WalkOf
    <2> QED
      BY <1>2, <1>4, <2>1, WalkBecomes
  <1> QED
    BY <1>3, <1>5, <1>6 DEF WalkInv

LEMMA WalkUnchanged ==
  ASSUME WalkInv, UNCHANGED toolVars
  PROVE  WalkInv'
  <1>1. ASSUME NEW p \in Procs
        PROVE  WalkOf(p)'
    <2>1. WalkIs(p, tool[p], step[p], now[p], shown[p])
      BY DEF WalkInv, WalkOf
    <2> QED
      BY <2>1, WalkBecomes DEF toolVars, outputs
  <1> QED
    BY <1>1 DEF WalkInv, toolVars, outputs

(***************************************************************************)
(* A tool that had its file's name to itself uses what it wrote itself,    *)
(* and parse_btf shows what the declaration says wherever no array is on   *)
(* the way.                                                                *)
(***************************************************************************)
THEOREM OwnInputUsed == ToolsSpec => []ToolsUseTheirOwn
  <1>1. FilesInv /\ WalkInv => ToolsUseTheirOwn
    <2> SUFFICES ASSUME FilesInv, WalkInv, NEW p \in Procs \ met
                 PROVE  /\ seen[p] # NoFile =>
                             \/ seen[p] = Content(p, TRUE)
                             \/ /\ tool[p] = "gen_patch" /\ p \in misled
                                /\ seen[p].by = p \/ step[seen[p].by] \in {"killed", "failed"}
                        /\ ShowsTheDeclaration(p)
                        /\ (patch # NoFile /\ patch.by = p /\ p \notin misled)
                             => patch.code = patch.name
      BY DEF ToolsUseTheirOwn
    <2>1. OwnSeen(p) /\ OwnPatch(p)
      BY DEF FilesInv, OwnInv
    <2>2. ShowsTheDeclaration(p)
      <3>1. shown[p] \in Answers /\ (shown[p] # <<>> => AnswersOk(p, shown[p]))
        BY DEF WalkInv, WalkOf, WalkIs
      <3>2. DOMAIN shown[p] = 1 .. Len(shown[p])
            /\ \A k \in DOMAIN shown[p] :
                 DOMAIN shown[p][k].members = 1 .. Len(shown[p][k].members)
        BY <3>1 DEF Answers
      <3>3. shown[p] = <<>> => DOMAIN shown[p] = {}
        OBVIOUS
      <3> QED
        BY <3>1, <3>2, <3>3 DEF AnswersOk, ShowsTheDeclaration
    <2> QED
      BY <2>1, <2>2 DEF OwnSeen, OwnPatch, Mine
  <1>2. ToolInit => FilesInv /\ WalkInv
    BY FilesInitially, WalkInitially
  <1>3. FilesInv /\ WalkInv /\ [ToolStep]_toolVars => FilesInv' /\ WalkInv'
    BY FilesStep, WalkStep, WalkUnchanged DEF ToolStep, StepOf, FilesInv
  <1> QED
    BY <1>1, <1>2, <1>3, PTL DEF ToolsSpec

================================================================================
