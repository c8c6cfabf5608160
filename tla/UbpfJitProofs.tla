----------------------------- MODULE UbpfJitProofs -----------------------------
(***************************************************************************)
(* What the translators promise of every program, whatever its size.       *)
(***************************************************************************)
EXTENDS UbpfJit, SequenceTheorems, TLAPS

-----------------------------------------------------------------------------
(* Host instructions. *)

(***************************************************************************)
(* An instruction as a translator emits it.  Jumps refer to one of the     *)
(* places in T and, on x86-64, end in four bytes for the distance; only   *)
(* jumps and string loads refer to anything.  On arm64 an instruction has  *)
(* four bytes, and cbnz skips two.                                         *)
(***************************************************************************)
Fit(arch, T, ins) ==
  /\ {"op", "len", "to", "rel"} \subseteq DOMAIN ins
  /\ ins.len \in Nat /\ ins.len > 0
  /\ arch = "arm64" => ins.len = 4
  /\ ins.op = "cbnz" => arch = "arm64" /\ ins.rel = 12
  /\ IsJump(ins) => ins.to \in T /\ (arch = "x86_64" => ins.len > 4)
  /\ ins.op = "adr" => ins.to = 0
  /\ ~IsJump(ins) /\ ins.op # "adr" => ins.to = Nothing

Part(arch, T, ins) == Fit(arch, T, ins) /\ ins.op \notin {"adr", "cbnz"}

(* What is skipped, and what is skipped to, is emitted with the cbnz. *)
Skips(q) == \A k \in 1 .. Len(q) : q[k].op = "cbnz" => k + 3 <= Len(q)

Emission(arch, T, q) ==
  /\ q \in Seq(Range(q))
  /\ \A k \in 1 .. Len(q) : Fit(arch, T, q[k]) /\ q[k].op # "adr"
  /\ Skips(q)

(* One instruction at a time: what the x86-64 emitters return. *)
LEMMA RexLen ==
  \A w, src, dst : X86!Rex(w, src, dst) \in 0 .. 1
BY DEF X86!Rex

LEMMA ModrmLen ==
  \A base, disp : X86!ModrmLen(base, disp) \in {1, 2, 5}
BY DEF X86!ModrmLen

LEMMA X86Plain ==
  ASSUME NEW T, NEW w, NEW f, NEW src, NEW dst, NEW imm
  PROVE  /\ Part("x86_64", T, X86!emit_push(dst))
         /\ Part("x86_64", T, X86!emit_pop(dst))
         /\ Part("x86_64", T, X86!emit_alu(w, f, src, dst))
         /\ Part("x86_64", T, X86!emit_alu_imm32(w, f, dst, imm))
         /\ Part("x86_64", T, X86!emit_alu_imm8(w, f, dst, imm))
         /\ Part("x86_64", T, X86!emit_mov(src, dst))
         /\ Part("x86_64", T, X86!emit_cmp_imm32(dst, imm))
         /\ Part("x86_64", T, X86!emit_cmp(src, dst))
BY RexLen DEF Part, Fit, IsJump, Nothing, X86!Ins, X86!Nothing, X86!emit_push, X86!emit_pop,
   X86!emit_alu, X86!emit_alu_imm32, X86!emit_alu_imm8, X86!emit_mov, X86!emit_cmp_imm32,
   X86!emit_cmp

LEMMA X86Access ==
  ASSUME NEW T, NEW w \in Widths, NEW src, NEW dst, NEW offset, NEW imm
  PROVE  /\ Part("x86_64", T, X86!emit_load(w, src, dst, offset))
         /\ Part("x86_64", T, X86!emit_store(w, src, dst, offset))
         /\ Part("x86_64", T, X86!emit_store_imm32(w, dst, offset, imm))
         /\ Part("x86_64", T, X86!emit_load_imm(dst, imm))
BY RexLen, ModrmLen DEF Part, Fit, IsJump, Nothing, X86!Ins, X86!Nothing, Widths, X86!emit_load,
   X86!emit_store, X86!emit_store_imm32, X86!emit_load_imm

LEMMA X86Jumps ==
  ASSUME NEW T, NEW to \in T, NEW cond
  PROVE  Part("x86_64", T, X86!emit_jcc(cond, to)) /\ Part("x86_64", T, X86!emit_jmp(to))
BY DEF Part, Fit, IsJump, Nothing, X86!Ins, X86!Nothing, X86!emit_jcc, X86!emit_jmp

LEMMA X86NoJumps ==
  ASSUME NEW w, NEW f, NEW src, NEW dst, NEW imm
  PROVE  /\ ~IsJump(X86!emit_alu(w, f, src, dst))
         /\ ~IsJump(X86!emit_cmp_imm32(dst, imm)) /\ ~IsJump(X86!emit_cmp(src, dst))
BY DEF IsJump, X86!Ins, X86!emit_alu, X86!emit_cmp_imm32, X86!emit_cmp

(* The instructions that translate writes without an emitter of their own. *)
LEMMA X86Rest ==
  ASSUME NEW T, NEW w, NEW f, NEW src, NEW dst, NEW imm
  PROVE  /\ Part("x86_64", T, [X86!emit_alu(w, f, src, dst) EXCEPT !.op = "test"])
         /\ Part("x86_64", T, [X86!emit_alu(w, f, src, dst) EXCEPT !.len = X86!Rex(w, 0, dst) + 2])
         /\ Part("x86_64", T, [X86!emit_alu(w, f, dst, dst) EXCEPT !.n = X86!ZR, !.len = X86!Rex(w, 0, dst) + 2])
         /\ Part("x86_64", T, [X86!emit_cmp_imm32(dst, imm) EXCEPT !.op = "testi"])
         /\ Part("x86_64", T, [X86!emit_cmp(src, dst) EXCEPT !.op = "test"])
<1>1. X86!Rex(w, 0, dst) + 2 \in Nat /\ X86!Rex(w, 0, dst) + 2 > 0
  BY RexLen
<1>2. /\ Part("x86_64", T, X86!emit_alu(w, f, src, dst)) /\ ~IsJump(X86!emit_alu(w, f, src, dst))
      /\ Part("x86_64", T, X86!emit_alu(w, f, dst, dst)) /\ ~IsJump(X86!emit_alu(w, f, dst, dst))
      /\ Part("x86_64", T, X86!emit_cmp_imm32(dst, imm)) /\ ~IsJump(X86!emit_cmp_imm32(dst, imm))
      /\ Part("x86_64", T, X86!emit_cmp(src, dst)) /\ ~IsJump(X86!emit_cmp(src, dst))
  BY X86Plain, X86NoJumps
<1>3. \A ins, len, n :
        Part("x86_64", T, ins) /\ ~IsJump(ins) /\ len \in Nat /\ len > 0 =>
          /\ Part("x86_64", T, [ins EXCEPT !.op = "test"])
          /\ Part("x86_64", T, [ins EXCEPT !.op = "testi"])
          /\ Part("x86_64", T, [ins EXCEPT !.len = len])
          /\ Part("x86_64", T, [ins EXCEPT !.n = n, !.len = len])
  <2> SUFFICES ASSUME NEW ins, NEW len, NEW n, Part("x86_64", T, ins), ~IsJump(ins), len \in Nat, len > 0
               PROVE  /\ Part("x86_64", T, [ins EXCEPT !.op = "test"])
                      /\ Part("x86_64", T, [ins EXCEPT !.op = "testi"])
                      /\ Part("x86_64", T, [ins EXCEPT !.len = len])
                      /\ Part("x86_64", T, [ins EXCEPT !.n = n, !.len = len])
    OBVIOUS
  <2> QED
    BY DEF Part, Fit, IsJump
<1> QED
  BY <1>1, <1>2, <1>3, Zenon

LEMMA X86Others ==
  ASSUME NEW T, NEW w, NEW src, NEW dst, NEW imm
  PROVE  /\ Part("x86_64", T, [X86!Ins("mulx") EXCEPT !.w = w, !.n = src, !.len = X86!Rex(w, 0, 0) + 2])
         /\ Part("x86_64", T, [X86!Ins("divx") EXCEPT !.w = w, !.n = src, !.len = X86!Rex(w, 0, 0) + 2])
         /\ Part("x86_64", T, [X86!Ins("movi") EXCEPT !.w = 32, !.d = dst, !.imm = imm, !.len = X86!Rex(32, 0, dst) + 6])
         /\ Part("x86_64", T, [X86!Ins("swap_low") EXCEPT !.w = 16, !.d = dst, !.n = dst, !.len = X86!Rex(32, 0, dst) + 4])
         /\ Part("x86_64", T, [X86!Ins("swap") EXCEPT !.w = w, !.d = dst, !.n = dst, !.len = X86!Rex(w, 0, dst) + 2])
         /\ Part("x86_64", T, [X86!Ins("call") EXCEPT !.n = dst, !.len = 2])
         /\ Part("x86_64", T, [X86!Ins("ret") EXCEPT !.len = 1])
BY RexLen DEF Part, Fit, IsJump, Nothing, X86!Ins, X86!Nothing

-----------------------------------------------------------------------------
(* Sequences of them. *)

LEMMA EmissionLen ==
  ASSUME NEW arch, NEW T, NEW q, Emission(arch, T, q)
  PROVE  Len(q) \in Nat
BY DEF Emission

LEMMA EmptyEmission ==
  ASSUME NEW arch, NEW T
  PROVE  Emission(arch, T, <<>>)
<1>1. \A Any : <<>> \in Seq(Any)
  OBVIOUS
<1> QED
  BY <1>1 DEF Emission, Skips

LEMMA Single ==
  ASSUME NEW arch, NEW T, NEW a, Part(arch, T, a)
  PROVE  Emission(arch, T, <<a>>)
BY DEF Emission, Part, Skips, Range

LEMMA Pair ==
  ASSUME NEW arch, NEW T, NEW a, NEW b, Part(arch, T, a), Part(arch, T, b)
  PROVE  Emission(arch, T, <<a, b>>)
BY DEF Emission, Part, Skips, Range

LEMMA Triple ==
  ASSUME NEW arch, NEW T, NEW a, NEW b, NEW c0,
         Part(arch, T, a), Part(arch, T, b), Part(arch, T, c0)
  PROVE  Emission(arch, T, <<a, b, c0>>)
BY DEF Emission, Part, Skips, Range

LEMMA Listed ==
  ASSUME NEW arch, NEW T, NEW n \in Nat, NEW q,
         q = [k \in 1 .. n |-> q[k]], \A k \in 1 .. n : Part(arch, T, q[k])
  PROVE  Emission(arch, T, q)
<1>1. DOMAIN q = 1 .. n
  OBVIOUS
<1>2. \A k \in 1 .. n : q[k] \in Range(q)
  BY <1>1 DEF Range
<1>3. q \in [1 .. n -> Range(q)]
  BY <1>1, <1>2
<1>4. q \in Seq(Range(q)) /\ Len(q) = n
  BY <1>3, <1>1
<1> QED
  BY <1>4 DEF Emission, Part, Skips

LEMMA AsFunction ==
  ASSUME NEW D, NEW A, NEW f \in [D -> A]
  PROVE  f = [x \in D |-> f[x]]
OBVIOUS

LEMMA Joined ==
  ASSUME NEW arch, NEW T, NEW p, NEW q, Emission(arch, T, p), Emission(arch, T, q)
  PROVE  Emission(arch, T, p \o q) /\ Len(p \o q) = Len(p) + Len(q)
<1> DEFINE A == Range(p) \cup Range(q)
<1>1. p \in Seq(A) /\ q \in Seq(A)
  BY DEF Emission
<1> HIDE DEF A
<1>2. /\ Len(p) \in Nat /\ Len(q) \in Nat
      /\ p \o q \in Seq(A) /\ Len(p \o q) = Len(p) + Len(q)
      /\ \A k \in 1 .. Len(p) + Len(q) :
           (p \o q)[k] = IF k <= Len(p) THEN p[k] ELSE q[k - Len(p)]
  BY <1>1
<1>3. ASSUME NEW k \in 1 .. Len(p \o q)
      PROVE  /\ Fit(arch, T, (p \o q)[k]) /\ (p \o q)[k].op # "adr"
             /\ (p \o q)[k].op = "cbnz" => k + 3 <= Len(p \o q)
  <2>1. CASE k <= Len(p)
    <3>1. k \in 1 .. Len(p) /\ (p \o q)[k] = p[k]
      BY <1>2, <2>1
    <3>2. p[k].op = "cbnz" => k + 3 <= Len(p)
      BY <3>1 DEF Emission, Skips
    <3> QED
      BY <1>2, <3>1, <3>2 DEF Emission
  <2>2. CASE k > Len(p)
    <3>1. k - Len(p) \in 1 .. Len(q) /\ (p \o q)[k] = q[k - Len(p)]
      BY <1>2, <2>2
    <3>2. q[k - Len(p)].op = "cbnz" => (k - Len(p)) + 3 <= Len(q)
      BY <3>1 DEF Emission, Skips
    <3> QED
      BY <1>2, <3>1, <3>2 DEF Emission
  <2> QED
    BY <1>2, <2>1, <2>2
<1>4. Emission(arch, T, p \o q)
  <2> DEFINE r == p \o q
  <2>1. /\ r \in Seq(A) /\ Len(r) \in Nat
        /\ \A k \in 1 .. Len(r) : Fit(arch, T, r[k]) /\ r[k].op # "adr"
        /\ \A k \in 1 .. Len(r) : r[k].op = "cbnz" => k + 3 <= Len(r)
    BY <1>2, <1>3
  <2> HIDE DEF r
  <2>2. r \in [1 .. Len(r) -> A]
    BY <2>1, LenProperties
  <2>3. r \in [1 .. Len(r) -> Range(r)]
    BY <2>2 DEF Range
  <2>4. r \in Seq(Range(r))
    BY <2>1, <2>3
  <2>5. Emission(arch, T, r)
    BY <2>1, <2>4 DEF Emission, Skips
  <2> QED
    BY <2>5 DEF r
<1> QED
  BY <1>2, <1>4

(* Code with a string load in it, at one place. *)
Translation(arch, T, q) ==
  /\ q \in Seq(Range(q)) /\ q # <<>>
  /\ \A k \in 1 .. Len(q) : Fit(arch, T, q[k])
  /\ \A j, k \in 1 .. Len(q) : q[j].op = "adr" /\ q[k].op = "adr" => j = k
  /\ Skips(q)

(* Code that ends in a jump is never run past. *)
EndsInJump(q) == q # <<>> /\ q[Len(q)].op = "jmp"

LEMMA LastOfJoined ==
  ASSUME NEW p, p \in Seq(Range(p)), NEW q, q \in Seq(Range(q)), EndsInJump(q)
  PROVE  EndsInJump(p \o q)
<1> DEFINE A == Range(p) \cup Range(q)
<1>1. p \in Seq(A) /\ q \in Seq(A) /\ q # <<>>
  BY DEF EndsInJump
<1> HIDE DEF A
<1>2. PICK r : r = p \o q
  OBVIOUS
<1>3. /\ Len(p) \in Nat /\ Len(q) \in Nat /\ Len(q) > 0
      /\ r \in Seq(A) /\ Len(r) = Len(p) + Len(q) /\ r[Len(p) + Len(q)] = q[Len(q)]
  BY <1>1, <1>2
<1> QED
  BY <1>2, <1>3 DEF EndsInJump

LEMMA TranslationJoined ==
  ASSUME NEW arch, NEW T, NEW p, NEW q, Translation(arch, T, p), Emission(arch, T, q)
  PROVE  Translation(arch, T, p \o q)
<1> DEFINE A == Range(p) \cup Range(q)
<1>1. p \in Seq(A) /\ q \in Seq(A) /\ p # <<>>
  BY DEF Emission, Translation
<1> HIDE DEF A
<1>2. /\ Len(p) \in Nat /\ Len(p) > 0 /\ Len(q) \in Nat
      /\ p \o q \in Seq(A) /\ Len(p \o q) = Len(p) + Len(q)
      /\ \A k \in 1 .. Len(p) + Len(q) :
           (p \o q)[k] = IF k <= Len(p) THEN p[k] ELSE q[k - Len(p)]
  BY <1>1
<1>3. ASSUME NEW k \in 1 .. Len(p \o q), k > Len(p)
      PROVE  Fit(arch, T, (p \o q)[k]) /\ (p \o q)[k].op # "adr"
  <2>1. k - Len(p) \in 1 .. Len(q) /\ (p \o q)[k] = q[k - Len(p)]
    BY <1>2, <1>3
  <2> QED
    BY <2>1 DEF Emission, Part
<1>4. ASSUME NEW k \in 1 .. Len(p \o q), k <= Len(p)
      PROVE  k \in 1 .. Len(p) /\ (p \o q)[k] = p[k] /\ Fit(arch, T, (p \o q)[k])
  BY <1>2, <1>4 DEF Translation
<1>5. ASSUME NEW j \in 1 .. Len(p \o q), NEW k \in 1 .. Len(p \o q),
             (p \o q)[j].op = "adr", (p \o q)[k].op = "adr"
      PROVE  j = k
  <2>1. j <= Len(p) /\ k <= Len(p)
    BY <1>2, <1>3, <1>5
  <2> QED
    BY <1>4, <1>5, <2>1 DEF Translation
<1>6. \A k \in 1 .. Len(p \o q) : Fit(arch, T, (p \o q)[k])
  BY <1>2, <1>3, <1>4
<1>7. p \o q \in Seq(Range(p \o q))
  <2> DEFINE r == p \o q
  <2>1. r \in Seq(A) /\ Len(r) \in Nat
    BY <1>2
  <2> HIDE DEF r
  <2>2. r \in [1 .. Len(r) -> A]
    BY <2>1, LenProperties
  <2>3. r \in [1 .. Len(r) -> Range(r)]
    BY <2>2 DEF Range
  <2>4. r \in Seq(Range(r))
    BY <2>1, <2>3
  <2> QED
    BY <2>4 DEF r
<1>8. p \o q # <<>>
  BY <1>2
<1>9. ASSUME NEW k \in 1 .. Len(p \o q), (p \o q)[k].op = "cbnz"
      PROVE  k + 3 <= Len(p \o q)
  <2>1. CASE k <= Len(p)
    <3>1. k \in 1 .. Len(p) /\ p[k].op = "cbnz"
      BY <1>4, <1>9, <2>1
    <3>2. k + 3 <= Len(p)
      BY <3>1 DEF Translation, Skips
    <3> QED
      BY <1>2, <3>2
  <2>2. CASE k > Len(p)
    <3>1. k - Len(p) \in 1 .. Len(q) /\ q[k - Len(p)].op = "cbnz"
      BY <1>2, <1>9, <2>2
    <3>2. (k - Len(p)) + 3 <= Len(q)
      BY <3>1 DEF Emission, Skips
    <3> QED
      BY <1>2, <3>2
  <2> QED
    BY <1>2, <2>1, <2>2
<1> QED
  BY <1>5, <1>6, <1>7, <1>8, <1>9 DEF Translation, Skips

(* Code without string loads is code with at most one. *)
LEMMA EmissionTranslates ==
  ASSUME NEW arch, NEW T, NEW q, Emission(arch, T, q), Len(q) > 0
  PROVE  Translation(arch, T, q)
BY DEF Emission, Translation

LEMMA Joined3 ==
  ASSUME NEW arch, NEW T, NEW p, NEW q, NEW r,
         Emission(arch, T, p), Emission(arch, T, q), Emission(arch, T, r)
  PROVE  Emission(arch, T, p \o q \o r)
<1>1. Emission(arch, T, p \o q)
  BY Joined
<1> QED
  BY <1>1, Joined

LEMMA Joined4 ==
  ASSUME NEW arch, NEW T, NEW p, NEW q, NEW r, NEW s,
         Emission(arch, T, p), Emission(arch, T, q), Emission(arch, T, r), Emission(arch, T, s)
  PROVE  Emission(arch, T, p \o q \o r \o s)
<1>1. Emission(arch, T, p \o q \o r)
  BY Joined3
<1> QED
  BY <1>1, Joined

LEMMA WhenEmission ==
  ASSUME NEW arch, NEW T, NEW q, Emission(arch, T, q), NEW condition
  PROVE  Emission(arch, T, X86!When(condition, q)) /\ Emission(arch, T, Arm!When(condition, q))
BY EmptyEmission DEF X86!When, Arm!When

-----------------------------------------------------------------------------
(* What the x86-64 translator emits. *)

(* The places every program may jump to. *)
Open(T) == {TARGET_PC_EXIT, TARGET_PC_DIV_BY_ZERO} \subseteq T

LEMMA X86CallEmission ==
  ASSUME NEW T, NEW target
  PROVE  Emission("x86_64", T, X86!emit_call(target))
<1>1. 8 \in Widths
  BY DEF Widths
<1>2. Part("x86_64", T, X86!emit_load_imm(X86!RAX, target))
  BY <1>1, X86Access
<1>3. Part("x86_64", T, [X86!Ins("call") EXCEPT !.n = X86!RAX, !.len = 2])
  BY X86Others
<1> QED
  BY <1>2, <1>3, Pair DEF X86!emit_call

LEMMA X86LoadImm ==
  ASSUME NEW T, NEW dst, NEW imm
  PROVE  Part("x86_64", T, X86!emit_load_imm(dst, imm))
<1>1. 8 \in Widths
  BY DEF Widths
<1> QED
  BY <1>1, X86Access

LEMMA X86MulDivMod ==
  ASSUME NEW T, Open(T), NEW pc, NEW inst, NEW src, NEW dst
  PROVE  Emission("x86_64", T, X86!muldivmod(pc, inst, src, dst))
<1> DEFINE mul == inst.f = "mul"
           w == inst.w
           test == <<X86!emit_load_imm(X86!RCX, pc),
                     [X86!emit_alu(w, "and", src, src) EXCEPT !.op = "test"],
                     X86!emit_jcc("eq", X86!TARGET_PC_DIV_BY_ZERO)>>
           operands == <<IF inst.imm # 0 THEN X86!emit_load_imm(X86!RCX, inst.imm)
                                        ELSE X86!emit_mov(src, X86!RCX),
                         X86!emit_mov(dst, X86!RAX)>>
           operation == <<[X86!Ins(IF mul THEN "mulx" ELSE "divx")
                             EXCEPT !.w = w, !.n = X86!RCX, !.len = X86!Rex(w, 0, 0) + 2]>>
           p1 == X86!When(~mul, test)
           p2 == X86!When(dst # X86!RAX, <<X86!emit_push(X86!RAX)>>)
           p3 == X86!When(dst # X86!RDX, <<X86!emit_push(X86!RDX)>>)
           p5 == X86!When(~mul, <<X86!emit_alu(32, "xor", X86!RDX, X86!RDX)>>)
           r1 == X86!When(inst.f = "mod", <<X86!emit_mov(X86!RDX, dst)>>)
           r2 == X86!When(inst.f # "mod", <<X86!emit_mov(X86!RAX, dst)>>)
           p7 == X86!When(dst # X86!RDX, r1 \o <<X86!emit_pop(X86!RDX)>>)
           p8 == X86!When(dst # X86!RAX, r2 \o <<X86!emit_pop(X86!RAX)>>)
<1>1. Emission("x86_64", T, p1)
  <2>1. X86!TARGET_PC_DIV_BY_ZERO \in T
    BY DEF Open, TARGET_PC_DIV_BY_ZERO, X86!TARGET_PC_DIV_BY_ZERO
  <2>2. Part("x86_64", T, X86!emit_jcc("eq", X86!TARGET_PC_DIV_BY_ZERO))
    BY <2>1, X86Jumps
  <2>3. Part("x86_64", T, [X86!emit_alu(w, "and", src, src) EXCEPT !.op = "test"])
    BY X86Rest
  <2>4. Emission("x86_64", T, test)
    BY <2>2, <2>3, X86LoadImm, Triple
  <2> QED
    BY <2>4, WhenEmission
<1>2. Emission("x86_64", T, p2) /\ Emission("x86_64", T, p3) /\ Emission("x86_64", T, p5)
  BY X86Plain, Single, WhenEmission
<1>3. Emission("x86_64", T, operands)
  <2>1. Part("x86_64", T, IF inst.imm # 0 THEN X86!emit_load_imm(X86!RCX, inst.imm)
                                      ELSE X86!emit_mov(src, X86!RCX))
    BY X86LoadImm, X86Plain
  <2> QED
    BY <2>1, X86Plain, Pair
<1>4. Emission("x86_64", T, operation)
  <2>1. CASE mul
    BY <2>1, X86Others, Single
  <2>2. CASE ~mul
    BY <2>2, X86Others, Single
  <2> QED
    BY <2>1, <2>2
<1>5. Emission("x86_64", T, r1) /\ Emission("x86_64", T, r2)
      /\ Emission("x86_64", T, <<X86!emit_pop(X86!RDX)>>) /\ Emission("x86_64", T, <<X86!emit_pop(X86!RAX)>>)
  BY X86Plain, Single, WhenEmission
<1>6. Emission("x86_64", T, p7) /\ Emission("x86_64", T, p8)
  <2> HIDE DEF r1, r2
  <2> QED
    BY <1>5, Joined, WhenEmission
<1>7. X86!muldivmod(pc, inst, src, dst) = p1 \o p2 \o p3 \o operands \o p5 \o operation \o p7 \o p8
  BY DEF X86!muldivmod, X86!ClearUpper
<1> HIDE DEF p1, p2, p3, operands, p5, operation, p7, p8
<1>8. Emission("x86_64", T, p1 \o p2 \o p3 \o operands)
  BY <1>1, <1>2, <1>3, Joined4
<1>9. Emission("x86_64", T, p1 \o p2 \o p3 \o operands \o p5 \o operation \o p7)
  BY <1>8, <1>2, <1>4, <1>6, Joined4
<1> QED
  BY <1>9, <1>6, <1>7, Joined

LEMMA X86AluEmission ==
  ASSUME NEW T, NEW inst, NEW pc, NEW src, NEW dst, Open(T),
         inst.f \in AluFs, inst.k \in {"reg", "imm"}, inst.w \in {32, 64}
  PROVE  Emission("x86_64", T, X86!X86Alu(inst, pc, src, dst))
<1>1. CASE inst.f \in {"mul", "div", "mod"}
  <2>1. X86!X86Alu(inst, pc, src, dst) = X86!muldivmod(pc, inst, src, dst)
    BY <1>1 DEF X86!X86Alu
  <2> QED
    BY <2>1, X86MulDivMod
<1>2. CASE inst.f = "mov" /\ inst.k = "reg"
  <2>1. X86!X86Alu(inst, pc, src, dst) = <<X86!emit_mov(src, dst)>>
    BY <1>2 DEF X86!X86Alu
  <2> QED
    BY <2>1, X86Plain, Single
<1>3. CASE inst.f = "mov" /\ inst.k = "imm" /\ inst.w = 32
  <2> DEFINE a == [X86!Ins("movi") EXCEPT !.w = 32, !.d = dst, !.imm = inst.imm,
                                          !.len = X86!Rex(32, 0, dst) + 6]
  <2>1. X86!X86Alu(inst, pc, src, dst) = <<a>>
    BY <1>3 DEF X86!X86Alu
  <2>2. Part("x86_64", T, a)
    BY RexLen DEF Part, Fit, IsJump, Nothing, X86!Ins, X86!Nothing
  <2> HIDE DEF a
  <2> QED
    BY <2>1, <2>2, Single
<1>4. CASE inst.f = "mov" /\ inst.k = "imm" /\ inst.w = 64
  <2>1. X86!X86Alu(inst, pc, src, dst) = <<X86!emit_load_imm(dst, inst.imm)>>
    BY <1>4 DEF X86!X86Alu
  <2> QED
    BY <2>1, X86LoadImm, Single
<1>5. CASE inst.f \in {"lsh", "rsh", "arsh"} /\ inst.k = "imm"
  <2>1. X86!X86Alu(inst, pc, src, dst) = <<X86!emit_alu_imm8(inst.w, inst.f, dst, inst.imm)>>
    BY <1>5 DEF X86!X86Alu
  <2> QED
    BY <2>1, X86Plain, Single
<1>6. CASE inst.f \in {"lsh", "rsh", "arsh"} /\ inst.k = "reg"
  <2> DEFINE a == X86!emit_mov(src, X86!RCX)
             b == [X86!emit_alu(inst.w, inst.f, X86!RCX, dst) EXCEPT !.len = X86!Rex(inst.w, 0, dst) + 2]
  <2>1. X86!X86Alu(inst, pc, src, dst) = <<a, b>>
    BY <1>6 DEF X86!X86Alu
  <2>2. Part("x86_64", T, a) /\ Part("x86_64", T, b)
    BY X86Plain, X86Rest
  <2> HIDE DEF a, b
  <2> QED
    BY <2>1, <2>2, Pair
<1>7. CASE inst.f \in {"add", "sub", "or", "and", "xor"} /\ inst.k = "imm"
  <2>1. X86!X86Alu(inst, pc, src, dst) = <<X86!emit_alu_imm32(inst.w, inst.f, dst, inst.imm)>>
    BY <1>7 DEF X86!X86Alu
  <2> QED
    BY <2>1, X86Plain, Single
<1>8. CASE inst.f \in {"add", "sub", "or", "and", "xor"} /\ inst.k = "reg"
  <2>1. X86!X86Alu(inst, pc, src, dst) = <<X86!emit_alu(inst.w, inst.f, src, dst)>>
    BY <1>8 DEF X86!X86Alu
  <2> QED
    BY <2>1, X86Plain, Single
<1> QED
  BY <1>1, <1>2, <1>3, <1>4, <1>5, <1>6, <1>7, <1>8 DEF AluFs

LEMMA X86EndianEmission ==
  ASSUME NEW T, NEW inst, NEW dst, inst.f \in {"le", "be"}
  PROVE  Emission("x86_64", T, X86!X86Endian(inst, dst))
<1>1. CASE inst.f = "le"
  BY <1>1, EmptyEmission DEF X86!X86Endian
<1>2. CASE inst.f = "be" /\ inst.imm = 16
  <2> DEFINE a == [X86!Ins("swap_low") EXCEPT !.w = 16, !.d = dst, !.n = dst, !.len = X86!Rex(32, 0, dst) + 4]
             b == X86!emit_alu_imm32(32, "and", dst, X86!Mod(16) - 1)
  <2>1. X86!X86Endian(inst, dst) = <<a, b>>
    BY <1>2 DEF X86!X86Endian
  <2>2. Part("x86_64", T, a)
    BY RexLen DEF Part, Fit, IsJump, Nothing, X86!Ins, X86!Nothing
  <2>3. Part("x86_64", T, b)
    BY X86Plain
  <2> HIDE DEF a, b
  <2> QED
    BY <2>1, <2>2, <2>3, Pair
<1>3. CASE inst.f = "be" /\ inst.imm # 16
  <2> DEFINE a == [X86!Ins("swap") EXCEPT !.w = inst.imm, !.d = dst, !.n = dst,
                                          !.len = X86!Rex(inst.imm, 0, dst) + 2]
  <2>1. X86!X86Endian(inst, dst) = <<a>>
    BY <1>3 DEF X86!X86Endian
  <2>2. Part("x86_64", T, a)
    BY RexLen DEF Part, Fit, IsJump, Nothing, X86!Ins, X86!Nothing
  <2> HIDE DEF a
  <2> QED
    BY <2>1, <2>2, Single
<1> QED
  BY <1>1, <1>2, <1>3

LEMMA X86JumpEmission ==
  ASSUME NEW T, NEW inst, NEW to, NEW src, NEW dst, inst.op \in {"ja", "jcc"}, to \in T
  PROVE  Emission("x86_64", T, X86!X86Jump(inst, to, src, dst))
<1>1. CASE inst.op = "ja"
  BY <1>1, X86Jumps, Single DEF X86!X86Jump
<1>2. CASE inst.op = "jcc" /\ inst.f = "set"
  <2> DEFINE compare == IF inst.k = "imm"
                        THEN [X86!emit_cmp_imm32(dst, inst.imm) EXCEPT !.op = "testi"]
                        ELSE [X86!emit_cmp(src, dst) EXCEPT !.op = "test"]
  <2>1. X86!X86Jump(inst, to, src, dst) = <<compare, X86!emit_jcc("ne", to)>>
    BY <1>2 DEF X86!X86Jump
  <2>2. Part("x86_64", T, compare)
    BY X86Rest
  <2> QED
    BY <2>1, <2>2, X86Jumps, Pair
<1>3. CASE inst.op = "jcc" /\ inst.f # "set"
  <2> DEFINE compare == IF inst.k = "imm" THEN X86!emit_cmp_imm32(dst, inst.imm) ELSE X86!emit_cmp(src, dst)
  <2>1. X86!X86Jump(inst, to, src, dst) = <<compare, X86!emit_jcc(inst.f, to)>>
    BY <1>3 DEF X86!X86Jump
  <2>2. Part("x86_64", T, compare)
    BY X86Plain
  <2> QED
    BY <2>1, <2>2, X86Jumps, Pair
<1> QED
  BY <1>1, <1>2, <1>3

LEMMA X86CallsEmission ==
  ASSUME NEW T, Open(T), NEW inst, NEW registers
  PROVE  Emission("x86_64", T, X86!X86Call(inst, registers))
<1> DEFINE unwind == <<X86!emit_cmp_imm32(registers[0], 0), X86!emit_jcc("eq", X86!TARGET_PC_EXIT)>>
<1>1. X86!TARGET_PC_EXIT \in T
  BY DEF Open, TARGET_PC_EXIT, X86!TARGET_PC_EXIT
<1>2. Emission("x86_64", T, unwind)
  BY <1>1, X86Plain, X86Jumps, Pair
<1>3. Emission("x86_64", T, <<X86!emit_mov(X86!RCX_ALT, X86!RCX)>>)
  BY X86Plain, Single
<1> QED
  BY <1>2, <1>3, X86CallEmission, WhenEmission, Joined3 DEF X86!X86Call

LEMMA X86MemoryEmission ==
  ASSUME NEW T, NEW inst, NEW src, NEW dst, inst.op \in {"ldx", "st", "stx"}, inst.w \in Widths
  PROVE  Emission("x86_64", T, X86!X86Memory(inst, src, dst))
<1>1. CASE inst.op = "ldx"
  BY <1>1, X86Access, Single DEF X86!X86Memory
<1>2. CASE inst.op = "st"
  BY <1>2, X86Access, Single DEF X86!X86Memory
<1>3. CASE inst.op = "stx"
  BY <1>3, X86Access, Single DEF X86!X86Memory
<1> QED
  BY <1>1, <1>2, <1>3

(***************************************************************************)
(* An instruction that validate lets a program begin with or come to, and  *)
(* whose jump, if it is one, leads to a place in T.                        *)
(***************************************************************************)
Translatable(prog, n, T) ==
  LET inst == prog[n + 1]
  IN /\ inst \in Slots /\ inst.op # "slot2"
     /\ inst.op \in {"ja", "jcc"} => n + inst.offset + 1 \in T

LEMMA X86InstEmission ==
  ASSUME NEW T, Open(T), NEW prog, NEW n, Translatable(prog, n, T), NEW registers
  PROVE  Emission("x86_64", T, X86!X86Inst(prog, n, registers))
<1> DEFINE inst == prog[n + 1]
           src == registers[inst.src]
           dst == registers[inst.dst]
           to == n + inst.offset + 1
<1>1. /\ inst.op \in {"alu", "neg", "endian", "ja", "jcc", "call", "exit", "ldx", "st", "stx", "lddw"}
      /\ inst.k \in {"reg", "imm"} /\ inst.w \in Widths
      /\ inst.op = "alu" => inst.f \in AluFs /\ inst.w \in {32, 64}
      /\ inst.op = "endian" => inst.f \in {"le", "be"}
      /\ inst.op \in {"ja", "jcc"} => to \in T
  BY DEF Translatable, Slots, Opcodes
<1>2. CASE inst.op = "alu"
  <2>1. X86!X86Inst(prog, n, registers) = X86!X86Alu(inst, n, src, dst)
    BY <1>2 DEF X86!X86Inst
  <2>2. Emission("x86_64", T, X86!X86Alu(inst, n, src, dst))
    BY <1>1, <1>2, X86AluEmission
  <2> QED
    BY <2>1, <2>2
<1>3. CASE inst.op = "neg"
  <2>1. X86!X86Inst(prog, n, registers) =
          <<[X86!emit_alu(inst.w, "sub", dst, dst) EXCEPT !.n = X86!ZR, !.len = X86!Rex(inst.w, 0, dst) + 2]>>
    BY <1>3 DEF X86!X86Inst, X86!X86Neg
  <2> HIDE DEF inst, src, dst
  <2> QED
    BY <2>1, X86Rest, Single
<1>4. CASE inst.op = "endian"
  <2>1. X86!X86Inst(prog, n, registers) = X86!X86Endian(inst, dst)
    BY <1>4 DEF X86!X86Inst
  <2>2. Emission("x86_64", T, X86!X86Endian(inst, dst))
    BY <1>1, <1>4, X86EndianEmission
  <2> QED
    BY <2>1, <2>2
<1>5. CASE inst.op \in {"ja", "jcc"}
  <2>1. X86!X86Inst(prog, n, registers) = X86!X86Jump(inst, to, src, dst)
    BY <1>5 DEF X86!X86Inst
  <2>2. Emission("x86_64", T, X86!X86Jump(inst, to, src, dst))
    BY <1>1, <1>5, X86JumpEmission
  <2> QED
    BY <2>1, <2>2
<1>6. CASE inst.op = "call"
  BY <1>6, X86CallsEmission DEF X86!X86Inst
<1>7. CASE inst.op = "exit"
  <2>1. X86!TARGET_PC_EXIT \in T
    BY DEF Open, TARGET_PC_EXIT, X86!TARGET_PC_EXIT
  <2>2. Emission("x86_64", T, <<X86!emit_jmp(X86!TARGET_PC_EXIT)>>)
    BY <2>1, X86Jumps, Single
  <2>3. X86!X86Inst(prog, n, registers) = X86!When(n # Len(prog) - 1, <<X86!emit_jmp(X86!TARGET_PC_EXIT)>>)
    BY <1>7 DEF X86!X86Inst
  <2> QED
    BY <2>2, <2>3, WhenEmission
<1>8. CASE inst.op \in {"ldx", "st", "stx"}
  <2>1. X86!X86Inst(prog, n, registers) = X86!X86Memory(inst, src, dst)
    BY <1>8 DEF X86!X86Inst
  <2>2. Emission("x86_64", T, X86!X86Memory(inst, src, dst))
    BY <1>1, <1>8, X86MemoryEmission
  <2> QED
    BY <2>1, <2>2
<1>9. CASE inst.op = "lddw"
  <2>1. X86!X86Inst(prog, n, registers) = <<X86!emit_load_imm(dst, X86!Lddw(inst, prog[n + 2]))>>
    BY <1>9 DEF X86!X86Inst
  <2> QED
    BY <2>1, X86LoadImm, Single
<1> QED
  BY <1>1, <1>2, <1>3, <1>4, <1>5, <1>6, <1>7, <1>8, <1>9

LEMMA X86PrologueEmission ==
  ASSUME NEW T, NEW registers
  PROVE  Emission("x86_64", T, X86!X86Prologue(registers)) /\ Len(X86!X86Prologue(registers)) > 0
<1> DEFINE saved == X86!platform_nonvolatile_registers
           first == X86!platform_parameter_registers[1]
           p == [k \in 1 .. Len(saved) |-> X86!emit_push(saved[k])]
           q == X86!When(registers[1] # first, <<X86!emit_mov(first, registers[1])>>)
           r == <<X86!emit_mov(X86!RSP, registers[10]), X86!emit_alu_imm32(64, "sub", X86!RSP, StackSize)>>
<1>1. Emission("x86_64", T, p)
  <2>1. Len(saved) \in Nat
    BY DEF X86!platform_nonvolatile_registers
  <2>2. p = [k \in 1 .. Len(saved) |-> p[k]]
    OBVIOUS
  <2>3. \A k \in 1 .. Len(saved) : Part("x86_64", T, p[k])
    BY X86Plain
  <2> HIDE DEF p, saved
  <2> QED
    BY <2>1, <2>2, <2>3, Listed
<1>2. Emission("x86_64", T, q)
  BY X86Plain, Single, WhenEmission
<1>3. Emission("x86_64", T, r) /\ Len(r) = 2
  BY X86Plain, Pair
<1>4. X86!X86Prologue(registers) = p \o q \o r
  BY DEF X86!X86Prologue
<1> HIDE DEF p, q, r
<1>5. Emission("x86_64", T, p \o q) /\ Len(p \o q) \in Nat
  BY <1>1, <1>2, Joined, EmissionLen
<1> QED
  BY <1>3, <1>4, <1>5, Joined

LEMMA X86EpilogueEmission ==
  ASSUME NEW T, NEW registers
  PROVE  Emission("x86_64", T, X86!X86Epilogue(registers)) /\ Len(X86!X86Epilogue(registers)) > 0
<1> DEFINE saved == X86!platform_nonvolatile_registers
           p == X86!When(registers[0] # X86!RAX, <<X86!emit_mov(registers[0], X86!RAX)>>)
           q == <<X86!emit_alu_imm32(64, "add", X86!RSP, StackSize)>>
           r == [k \in 1 .. Len(saved) |-> X86!emit_pop(saved[Len(saved) + 1 - k])]
           ret == [X86!Ins("ret") EXCEPT !.len = 1]
<1>1. Emission("x86_64", T, r)
  <2>1. Len(saved) \in Nat
    BY DEF X86!platform_nonvolatile_registers
  <2>2. r = [k \in 1 .. Len(saved) |-> r[k]]
    OBVIOUS
  <2>3. \A k \in 1 .. Len(saved) : Part("x86_64", T, r[k])
    BY X86Plain
  <2> HIDE DEF r, saved
  <2> QED
    BY <2>1, <2>2, <2>3, Listed
<1>2. Emission("x86_64", T, p) /\ Emission("x86_64", T, q)
  BY X86Plain, Single, WhenEmission
<1>3. Part("x86_64", T, ret)
  BY DEF Part, Fit, IsJump, Nothing, X86!Ins, X86!Nothing
<1>4. X86!X86Epilogue(registers) = p \o q \o r \o <<ret>>
  BY DEF X86!X86Epilogue
<1> HIDE DEF p, q, r, ret
<1>5. Emission("x86_64", T, <<ret>>) /\ Len(<<ret>>) = 1
  BY <1>3, Single
<1>6. Emission("x86_64", T, p \o q \o r) /\ Len(p \o q \o r) \in Nat
  BY <1>1, <1>2, Joined3, EmissionLen
<1> QED
  BY <1>4, <1>5, <1>6, Joined

LEMMA X86HandlerTranslation ==
  ASSUME NEW T, NEW registers, Open(T)
  PROVE  /\ Translation("x86_64", T, X86!X86DivByZero(registers))
         /\ EndsInJump(X86!X86DivByZero(registers))
<1> DEFINE a == X86!emit_mov(X86!RCX, X86!platform_parameter_registers[3])
           b == X86!emit_string_load(X86!platform_parameter_registers[2], 0)
           d == X86!emit_load_imm(X86!platform_parameter_registers[1], X86!Stderr)
           call == X86!emit_call(X86!ErrorPrintf)
           last == <<X86!emit_load_imm(registers[0], -1), X86!emit_jmp(X86!TARGET_PC_EXIT)>>
<1>1. Part("x86_64", T, a) /\ Part("x86_64", T, d)
  BY X86Plain, X86LoadImm
<1>2. Fit("x86_64", T, b) /\ b.op = "adr"
  BY DEF Fit, IsJump, X86!Ins, X86!Nothing, X86!emit_string_load
<1>3. Emission("x86_64", T, call)
  BY X86CallEmission
<1>4. Emission("x86_64", T, last)
  <2>1. X86!TARGET_PC_EXIT \in T
    BY DEF Open, TARGET_PC_EXIT, X86!TARGET_PC_EXIT
  <2> QED
    BY <2>1, X86LoadImm, X86Jumps, Pair
<1>5. X86!X86DivByZero(registers) = <<a, b, d>> \o call \o last
  BY DEF X86!X86DivByZero
<1>8. EndsInJump(last)
  BY DEF EndsInJump, X86!emit_jmp, X86!Ins
<1> HIDE DEF a, b, d, call, last
<1>6. Translation("x86_64", T, <<a, b, d>>)
  <2>1. b.op = "adr" /\ a.op \notin {"adr", "cbnz"} /\ d.op \notin {"adr", "cbnz"}
    BY <1>1, <1>2 DEF Part
  <2> QED
    BY <1>1, <1>2, <2>1 DEF Translation, Skips, Part, Range
<1>7. Translation("x86_64", T, <<a, b, d>> \o call)
  BY <1>3, <1>6, TranslationJoined
<1>9. Translation("x86_64", T, <<a, b, d>> \o call \o last)
  BY <1>4, <1>7, TranslationJoined
<1>10. EndsInJump(<<a, b, d>> \o call \o last)
  <2>1. PICK p : p = <<a, b, d>> \o call
    OBVIOUS
  <2>2. p \in Seq(Range(p)) /\ last \in Seq(Range(last))
    BY <1>4, <1>7, <2>1 DEF Emission, Translation
  <2>3. EndsInJump(p \o last)
    BY <1>8, <2>2, LastOfJoined
  <2> QED
    BY <2>1, <2>3
<1> QED
  BY <1>5, <1>9, <1>10

-----------------------------------------------------------------------------
(* What the arm64 translator emits. *)

LEMMA ArmPlain ==
  ASSUME NEW T, NEW w, NEW f, NEW rd, NEW rn, NEW rm, NEW imm
  PROVE  /\ Part("arm64", T, Arm!emit_addsub_immediate(f, rd, rn, imm))
         /\ Part("arm64", T, Arm!emit_register(w, f, rd, rn, rm))
         /\ Part("arm64", T, Arm!emit_compare_immediate(w, rn, imm))
         /\ Part("arm64", T, Arm!emit_compare_register(w, rn, rm))
BY DEF Part, Fit, IsJump, Nothing, Arm!Ins, Arm!Nothing, Arm!Arm, Arm!emit_addsub_immediate,
   Arm!emit_register, Arm!emit_compare_immediate, Arm!emit_compare_register

LEMMA ArmAccess ==
  ASSUME NEW T, NEW op, NEW w, NEW rd, NEW rn, NEW rm, NEW imm, op \notin {"jmp", "jcc", "adr", "cbnz"}
  PROVE  /\ Part("arm64", T, Arm!Arm(op))
         /\ Part("arm64", T, Arm!emit_loadstore_immediate(op, w, rd, rn, imm))
         /\ Part("arm64", T, Arm!emit_loadstore_register(op, w, rd, rn, rm))
         /\ Part("arm64", T, Arm!emit_loadstorepair(op, rn, rm, imm))
BY DEF Part, Fit, IsJump, Nothing, Arm!Ins, Arm!Nothing, Arm!Arm,
   Arm!emit_loadstore_immediate, Arm!emit_loadstore_register, Arm!emit_loadstorepair

LEMMA ArmJumps ==
  ASSUME NEW T, NEW to \in T, NEW cond
  PROVE  Part("arm64", T, Arm!emit_branch(to)) /\ Part("arm64", T, Arm!emit_conditionalbranch(cond, to))
BY DEF Part, Fit, IsJump, Nothing, Arm!Ins, Arm!Nothing, Arm!Arm, Arm!emit_branch, Arm!emit_conditionalbranch

LEMMA ArmMoves ==
  ASSUME NEW T, NEW w, NEW rd, NEW v, NEW k, NEW imm
  PROVE  /\ Part("arm64", T, Arm!emit_movewide(w, rd, v, k))
         /\ Part("arm64", T, [Arm!Arm("movk") EXCEPT !.w = w, !.d = rd, !.n = k, !.imm = imm])
BY DEF Part, Fit, IsJump, Nothing, Arm!Ins, Arm!Nothing, Arm!Arm, Arm!emit_movewide

LEMMA KeptIsSequence ==
  \A w, v : Arm!Kept(w, v) \in Seq(Nat)
<1> SUFFICES ASSUME NEW w, NEW v
             PROVE  Arm!Kept(w, v) \in Seq(Nat)
  OBVIOUS
<1>1. \A k \in Nat : Arm!Keep(w, v, k) \in Seq(Nat)
  BY DEF Arm!Keep, Arm!When
<1>2. \A p, q \in Seq(Nat) : p \o q \in Seq(Nat)
  OBVIOUS
<1> QED
  BY <1>1, <1>2 DEF Arm!Kept

LEMMA ArmMoveWide ==
  ASSUME NEW T, NEW w, NEW rd, NEW v
  PROVE  /\ Emission("arm64", T, Arm!emit_movewide_immediate(w, rd, v))
         /\ Len(Arm!emit_movewide_immediate(w, rd, v)) > 0
<1> DEFINE kept == Arm!Kept(w, v)
           movk(k) == [Arm!Arm("movk") EXCEPT !.w = w, !.d = rd, !.n = k, !.imm = Arm!Chunk(v, k)]
           p == <<Arm!emit_movewide(w, rd, v, IF kept = <<>> THEN 0 ELSE kept[1])>>
           q == [j \in 1 .. Len(kept) - 1 |-> movk(kept[j + 1])]
<1>1. Emission("arm64", T, p) /\ Len(p) = 1
  BY ArmMoves, Single
<1>2. Emission("arm64", T, q)
  <2>1. PICK n \in Nat : 1 .. Len(kept) - 1 = 1 .. n
    <3>1. Len(kept) \in Nat
      BY KeptIsSequence
    <3>2. CASE Len(kept) = 0
      BY <3>2
    <3>3. CASE Len(kept) > 0
      BY <3>1, <3>3
    <3> QED
      BY <3>1, <3>2, <3>3
  <2>2. q = [j \in 1 .. n |-> q[j]]
    BY <2>1
  <2>3. \A j \in 1 .. n : Part("arm64", T, q[j])
    <3>1. \A k : Part("arm64", T, movk(k))
      BY ArmMoves
    <3> HIDE DEF movk
    <3>2. \A j \in 1 .. n : q[j] = movk(kept[j + 1])
      BY <2>1
    <3> QED
      BY <3>1, <3>2
  <2> HIDE DEF q
  <2> QED
    BY <2>2, <2>3, Listed
<1>3. Arm!emit_movewide_immediate(w, rd, v) = p \o q
  BY DEF Arm!emit_movewide_immediate
<1> HIDE DEF p, q
<1> QED
  BY <1>1, <1>2, <1>3, Joined, EmissionLen

LEMMA ArmRest ==
  ASSUME NEW T, NEW w, NEW f, NEW rd, NEW rn, NEW rm, NEW imm
  PROVE  /\ Fit("arm64", T, [Arm!Arm("cbnz") EXCEPT !.w = w, !.n = rn, !.rel = 12])
         /\ Part("arm64", T, [Arm!emit_register(w, f, rd, rn, rm) EXCEPT !.op = "udiv"])
         /\ Part("arm64", T, [Arm!Arm("msub") EXCEPT !.w = w, !.d = rd, !.n = rn, !.m = rm, !.imm = imm])
         /\ Part("arm64", T, [Arm!emit_addsub_immediate(f, rd, rn, imm) EXCEPT !.w = w])
         /\ Part("arm64", T, Arm!to_dp1_opcode(rd, imm))
         /\ Part("arm64", T, [Arm!emit_register(w, f, rd, rn, rm) EXCEPT !.op = "bini", !.imm = imm])
         /\ Part("arm64", T, [Arm!emit_compare_register(w, rn, rm) EXCEPT !.op = "test"])
         /\ Part("arm64", T, [Arm!Arm("call") EXCEPT !.n = rn])
<1>1. /\ Fit("arm64", T, [Arm!Arm("cbnz") EXCEPT !.w = w, !.n = rn, !.rel = 12])
      /\ Part("arm64", T, [Arm!Arm("msub") EXCEPT !.w = w, !.d = rd, !.n = rn, !.m = rm, !.imm = imm])
      /\ Part("arm64", T, [Arm!Arm("call") EXCEPT !.n = rn])
      /\ Part("arm64", T, Arm!to_dp1_opcode(rd, imm))
  BY DEF Part, Fit, IsJump, Nothing, Arm!Ins, Arm!Nothing, Arm!Arm, Arm!to_dp1_opcode
<1>2. /\ Part("arm64", T, [Arm!emit_register(w, f, rd, rn, rm) EXCEPT !.op = "udiv"])
      /\ Part("arm64", T, [Arm!emit_register(w, f, rd, rn, rm) EXCEPT !.op = "bini", !.imm = imm])
  <2> DEFINE ins == Arm!emit_register(w, f, rd, rn, rm)
  <2>1. Part("arm64", T, ins) /\ ~IsJump(ins)
    BY DEF Part, Fit, IsJump, Nothing, Arm!Ins, Arm!Nothing, Arm!Arm, Arm!emit_register
  <2> HIDE DEF ins
  <2>2. Part("arm64", T, [ins EXCEPT !.op = "udiv"])
    BY <2>1 DEF Part, Fit, IsJump
  <2>3. Part("arm64", T, [ins EXCEPT !.op = "bini", !.imm = imm])
    BY <2>1 DEF Part, Fit, IsJump
  <2> QED
    BY <2>2, <2>3 DEF ins
<1>3. /\ Part("arm64", T, [Arm!emit_addsub_immediate(f, rd, rn, imm) EXCEPT !.w = w])
      /\ Part("arm64", T, [Arm!emit_compare_register(w, rn, rm) EXCEPT !.op = "test"])
  BY DEF Part, Fit, IsJump, Nothing, Arm!Ins, Arm!Nothing, Arm!Arm, Arm!emit_addsub_immediate,
     Arm!emit_compare_register
<1> QED
  BY <1>1, <1>2, <1>3

LEMMA ArmCallEmission ==
  ASSUME NEW T, NEW target
  PROVE  Emission("arm64", T, Arm!emit_call(target))
<1> DEFINE a == [Arm!Arm("call") EXCEPT !.n = Arm!temp_register]
           b == Arm!emit_register(64, "ORR", Arm!Arm64Map[0], Arm!ZR, 0)
<1>1. Part("arm64", T, a) /\ Part("arm64", T, b)
  BY ArmRest, ArmPlain
<1>2. Arm!emit_call(target) = Arm!emit_movewide_immediate(64, Arm!temp_register, target) \o <<a, b>>
  BY DEF Arm!emit_call
<1> HIDE DEF a, b
<1> QED
  BY <1>1, <1>2, Pair, ArmMoveWide, Joined

(* A cbnz before three instructions or more. *)
SkipsTwo(a, u, v, x) == <<a>> \o u \o v \o x

ThreeOrMore(u, v) == Len(u) > 0 /\ Len(v) = 2

LEMMA Skipped ==
  ASSUME NEW arch, NEW T, NEW a, Fit(arch, T, a), a.op = "cbnz",
         NEW u, Emission(arch, T, u), NEW v, Emission(arch, T, v), NEW x, Emission(arch, T, x),
         ThreeOrMore(u, v)
  PROVE  Emission(arch, T, SkipsTwo(a, u, v, x))
<1>1. PICK q : q = u \o v \o x
  OBVIOUS
<1>2. Emission(arch, T, q) /\ Len(q) \in Nat /\ Len(q) >= 3
  <2>1. Emission(arch, T, u \o v) /\ Len(u \o v) = Len(u) + Len(v)
    BY Joined
  <2>2. Emission(arch, T, u \o v \o x) /\ Len(u \o v \o x) = Len(u \o v) + Len(x)
    BY <2>1, Joined
  <2>3. Len(u) \in Nat /\ Len(x) \in Nat
    BY EmissionLen
  <2> QED
    BY <1>1, <2>1, <2>2, <2>3 DEF ThreeOrMore
<1>3. PICK A : A = Range(q) \cup Range(u) \cup Range(v) \cup Range(x) \cup {a}
  OBVIOUS
<1>4. q \in Seq(A) /\ u \in Seq(A) /\ v \in Seq(A) /\ x \in Seq(A) /\ <<a>> \in Seq(A)
  BY <1>2, <1>3 DEF Emission
<1>5. SkipsTwo(a, u, v, x) = <<a>> \o q
  <2>1. u \o v \in Seq(A)
    BY <1>4, ConcatProperties, Zenon
  <2>2. \A k, l, n \in Seq(A) : (k \o l) \o n = k \o (l \o n)
    BY ConcatAssociative
  <2>3. (<<a>> \o u) \o v = <<a>> \o (u \o v)
    BY <1>4, <2>2, Zenon
  <2>4. (<<a>> \o (u \o v)) \o x = <<a>> \o ((u \o v) \o x)
    BY <1>4, <2>1, <2>2, Zenon
  <2> QED
    BY <1>1, <2>3, <2>4, Zenon DEF SkipsTwo
<1>6. PICK r : r = <<a>> \o q
  OBVIOUS
<1>7. /\ r \in Seq(A) /\ Len(r) = Len(q) + 1 /\ r[1] = a
      /\ \A k \in 2 .. Len(q) + 1 : k - 1 \in 1 .. Len(q) /\ r[k] = q[k - 1]
  BY <1>2, <1>4, <1>6
<1>8. r \in Seq(Range(r))
  <2>1. r \in [1 .. Len(r) -> A]
    BY <1>7, LenProperties
  <2>2. r \in [1 .. Len(r) -> Range(r)]
    BY <2>1 DEF Range
  <2>3. Len(r) \in Nat
    BY <1>2, <1>7
  <2> QED
    BY <2>2, <2>3
<1>9. ASSUME NEW k \in 1 .. Len(r)
      PROVE  /\ Fit(arch, T, r[k]) /\ r[k].op # "adr"
             /\ r[k].op = "cbnz" => k + 3 <= Len(r)
  <2>1. CASE k = 1
    BY <1>2, <1>7, <2>1
  <2>2. CASE k # 1
    <3>1. k \in 2 .. Len(q) + 1 /\ k - 1 \in 1 .. Len(q) /\ r[k] = q[k - 1]
      BY <1>2, <1>7, <2>2
    <3>2. /\ Fit(arch, T, q[k - 1]) /\ q[k - 1].op # "adr"
          /\ q[k - 1].op = "cbnz" => (k - 1) + 3 <= Len(q)
      BY <1>2, <3>1 DEF Emission, Skips
    <3> QED
      BY <1>2, <1>7, <3>1, <3>2
  <2> QED
    BY <2>1, <2>2
<1>10. Emission(arch, T, r)
  BY <1>8, <1>9 DEF Emission, Skips
<1> QED
  BY <1>5, <1>6, <1>10

LEMMA ArmDivMod ==
  ASSUME NEW T, NEW pc, NEW inst, NEW rd, NEW rm, Open(T)
  PROVE  Emission("arm64", T, Arm!divmod(pc, inst, rd, rm))
<1> DEFINE mod == inst.f = "mod"
           div_dest == IF mod THEN Arm!temp_div_register ELSE rd
           a == [Arm!Arm("cbnz") EXCEPT !.w = inst.w, !.n = rm, !.rel = 12]
           b == Arm!emit_branch(Arm!TARGET_PC_DIV_BY_ZERO)
           d == [Arm!emit_register(inst.w, Arm!to_dp2_opcode.div, div_dest, rd, rm) EXCEPT !.op = "udiv"]
           e == [Arm!Arm("msub") EXCEPT !.w = inst.w, !.d = rd, !.n = rm, !.m = div_dest, !.imm = rd]
<1>1. Fit("arm64", T, a) /\ a.op = "cbnz" /\ Part("arm64", T, d) /\ Part("arm64", T, e)
  <2>1. a.op = "cbnz"
    BY DEF Arm!Arm, Arm!Ins
  <2> QED
    BY <2>1, ArmRest
<1>2. Part("arm64", T, b)
  <2>1. Arm!TARGET_PC_DIV_BY_ZERO \in T
    BY DEF Open, TARGET_PC_DIV_BY_ZERO, Arm!TARGET_PC_DIV_BY_ZERO
  <2> QED
    BY <2>1, ArmJumps
<1>3. Arm!divmod(pc, inst, rd, rm) =
        <<a>> \o Arm!emit_movewide_immediate(64, 2, pc) \o <<b, d>> \o Arm!When(mod, <<e>>)
  BY DEF Arm!divmod
<1> HIDE DEF a, b, d, e, mod
<1>4. /\ Emission("arm64", T, <<b, d>>) /\ Len(<<b, d>>) = 2
      /\ Emission("arm64", T, Arm!When(mod, <<e>>))
  BY <1>1, <1>2, Single, Pair, WhenEmission
<1>5. PICK u, v, x : /\ u = Arm!emit_movewide_immediate(64, 2, pc) /\ v = <<b, d>>
                    /\ x = Arm!When(mod, <<e>>)
  OBVIOUS
<1>6. Emission("arm64", T, u) /\ Len(u) > 0
  BY <1>5, ArmMoveWide
<1>7. Emission("arm64", T, SkipsTwo(a, u, v, x))
  <2>1. Emission("arm64", T, v) /\ Emission("arm64", T, x) /\ ThreeOrMore(u, v)
    BY <1>4, <1>5, <1>6, Zenon DEF ThreeOrMore
  <2> QED
    BY <1>1, <1>6, <2>1, Skipped, Zenon
<1> QED
  BY <1>3, <1>5, <1>7 DEF SkipsTwo

LEMMA ArmAluEmission ==
  ASSUME NEW T, NEW inst, NEW simple \in BOOLEAN, NEW pc, NEW src, NEW dst, Open(T),
         inst.f \in AluFs
  PROVE  Emission("arm64", T, Arm!Arm64Alu(inst, simple, pc, src, dst))
<1>0. /\ DOMAIN Arm!to_addsub_opcode = {"add", "sub"}
      /\ DOMAIN Arm!to_logical_opcode = {"or", "and", "xor"}
  BY DEF Arm!to_addsub_opcode, Arm!to_logical_opcode
<1>1. CASE inst.f \in {"div", "mod"}
  <2>1. Arm!Arm64Alu(inst, simple, pc, src, dst) = Arm!divmod(pc, inst, dst, src)
    BY <1>0, <1>1 DEF Arm!Arm64Alu
  <2> QED
    BY <2>1, ArmDivMod
<1>2. CASE inst.f = "mov" /\ simple
  <2>1. Arm!Arm64Alu(inst, simple, pc, src, dst) = Arm!emit_movewide_immediate(inst.w, dst, Arm!U(64, inst.imm))
    BY <1>0, <1>2 DEF Arm!Arm64Alu
  <2> QED
    BY <2>1, ArmMoveWide
<1>3. CASE inst.f = "mov" /\ ~simple
  <2>1. Arm!Arm64Alu(inst, simple, pc, src, dst) = <<Arm!emit_register(inst.w, "ORR", dst, Arm!ZR, src)>>
    BY <1>0, <1>3 DEF Arm!Arm64Alu
  <2> QED
    BY <2>1, ArmPlain, Single
<1>4. CASE inst.f \in {"add", "sub"} /\ simple
  <2> DEFINE a == [Arm!emit_addsub_immediate(Arm!to_addsub_opcode[inst.f], dst, dst, inst.imm) EXCEPT !.w = inst.w]
  <2>1. Arm!Arm64Alu(inst, simple, pc, src, dst) = <<a>>
    BY <1>0, <1>4 DEF Arm!Arm64Alu
  <2>2. Part("arm64", T, a)
    BY ArmRest
  <2> HIDE DEF a
  <2> QED
    BY <2>1, <2>2, Single
<1>5. CASE inst.f \in {"add", "sub"} /\ ~simple
  <2>1. Arm!Arm64Alu(inst, simple, pc, src, dst) =
          <<Arm!emit_register(inst.w, Arm!to_addsub_opcode[inst.f], dst, dst, src)>>
    BY <1>0, <1>5 DEF Arm!Arm64Alu
  <2> QED
    BY <2>1, ArmPlain, Single
<1>6. CASE inst.f \in {"or", "and", "xor", "lsh", "rsh", "arsh", "mul"}
  <2> DEFINE f == CASE inst.f \in {"or", "and", "xor"} -> Arm!to_logical_opcode[inst.f]
                    [] inst.f \in {"lsh", "rsh", "arsh"} -> Arm!to_dp2_opcode[inst.f]
                    [] inst.f = "mul" -> "MADD"
  <2>1. Arm!Arm64Alu(inst, simple, pc, src, dst) = <<Arm!emit_register(inst.w, f, dst, dst, src)>>
    BY <1>0, <1>6 DEF Arm!Arm64Alu
  <2> HIDE DEF f
  <2> QED
    BY <2>1, ArmPlain, Single
<1> QED
  BY <1>1, <1>2, <1>3, <1>4, <1>5, <1>6 DEF AluFs

LEMMA ArmEndianEmission ==
  ASSUME NEW T, NEW inst, NEW dst
  PROVE  Emission("arm64", T, Arm!Arm64Endian(inst, dst))
<1> DEFINE a == [Arm!emit_register(64, "AND", dst, dst, Arm!ZR) EXCEPT !.op = "bini", !.imm = Arm!Mod(16) - 1]
<1>1. Part("arm64", T, Arm!to_dp1_opcode(dst, inst.imm)) /\ Part("arm64", T, a)
  BY ArmRest
<1>2. Arm!Arm64Endian(inst, dst) = Arm!When(inst.f = "be", <<Arm!to_dp1_opcode(dst, inst.imm)>>)
                                   \o Arm!When(inst.imm = 16, <<a>>)
  BY DEF Arm!Arm64Endian
<1> HIDE DEF a
<1> QED
  BY <1>1, <1>2, Single, WhenEmission, Joined

LEMMA ArmJumpEmission ==
  ASSUME NEW T, NEW inst, NEW simple, NEW to, NEW src, NEW dst, inst.op \in {"ja", "jcc"}, to \in T
  PROVE  Emission("arm64", T, Arm!Arm64Jump(inst, simple, to, src, dst))
<1>1. CASE inst.op = "ja"
  BY <1>1, ArmJumps, Single DEF Arm!Arm64Jump
<1>2. CASE inst.op = "jcc" /\ inst.f = "set"
  <2> DEFINE a == [Arm!emit_compare_register(64, dst, src) EXCEPT !.op = "test"]
  <2>1. Arm!Arm64Jump(inst, simple, to, src, dst) = <<a, Arm!emit_conditionalbranch(Arm!to_condition.set, to)>>
    BY <1>2 DEF Arm!Arm64Jump
  <2>2. Part("arm64", T, a)
    BY ArmRest
  <2> HIDE DEF a
  <2> QED
    BY <2>1, <2>2, ArmJumps, Pair
<1>3. CASE inst.op = "jcc" /\ inst.f # "set"
  <2> DEFINE a == IF simple THEN Arm!emit_compare_immediate(64, dst, inst.imm)
                            ELSE Arm!emit_compare_register(64, dst, src)
  <2>1. Arm!Arm64Jump(inst, simple, to, src, dst) =
          <<a, Arm!emit_conditionalbranch(Arm!to_condition[inst.f], to)>>
    BY <1>3 DEF Arm!Arm64Jump
  <2>2. Part("arm64", T, a)
    BY ArmPlain
  <2> HIDE DEF a
  <2> QED
    BY <2>1, <2>2, ArmJumps, Pair
<1> QED
  BY <1>1, <1>2, <1>3

LEMMA ArmCallsEmission ==
  ASSUME NEW T, NEW inst, Open(T)
  PROVE  Emission("arm64", T, Arm!Arm64Call(inst))
<1> DEFINE unwind == <<Arm!emit_compare_immediate(64, Arm!Arm64Map[0], 0),
                       Arm!emit_conditionalbranch("EQ", Arm!TARGET_PC_EXIT)>>
<1>1. Arm!TARGET_PC_EXIT \in T
  BY DEF Open, TARGET_PC_EXIT, Arm!TARGET_PC_EXIT
<1>2. Emission("arm64", T, unwind)
  BY <1>1, ArmPlain, ArmJumps, Pair
<1> QED
  BY <1>2, ArmCallEmission, WhenEmission, Joined DEF Arm!Arm64Call

LEMMA ArmMemoryEmission ==
  ASSUME NEW T, NEW inst, NEW data, NEW base
  PROVE  Emission("arm64", T, Arm!Arm64Memory(inst, data, base))
<1> DEFINE op == Arm!to_loadstore_opcode(inst)
           a == Arm!emit_loadstore_immediate(op, inst.w, data, base, inst.offset)
           b == Arm!emit_loadstore_register(op, inst.w, data, base, Arm!offset_register)
<1>1. op \notin {"jmp", "jcc", "adr", "cbnz"}
  BY DEF Arm!to_loadstore_opcode
<1>2. Part("arm64", T, a) /\ Part("arm64", T, b)
  BY <1>1, ArmAccess
<1>3. Arm!Arm64Memory(inst, data, base) =
        IF inst.offset \in -Imm9 .. Imm9 - 1 THEN <<a>>
        ELSE Arm!emit_movewide_immediate(64, Arm!offset_register, Arm!U(64, inst.offset)) \o <<b>>
  BY DEF Arm!Arm64Memory
<1> HIDE DEF a, b
<1> QED
  BY <1>2, <1>3, ArmMoveWide, Single, Joined

LEMMA ArmInstEmission ==
  ASSUME NEW T, NEW prog, NEW n, Open(T), Translatable(prog, n, T)
  PROVE  Emission("arm64", T, Arm!Arm64Inst(prog, n))
<1> DEFINE inst == prog[n + 1]
           simple == Arm!is_imm_op(inst) /\ Arm!is_simple_imm(inst)
           moved == Arm!is_imm_op(inst) /\ ~Arm!is_simple_imm(inst)
           src == IF moved THEN Arm!temp_register ELSE Arm!Arm64Map[inst.src]
           dst == Arm!Arm64Map[inst.dst]
           to == n + inst.offset + 1
           p == Arm!When(moved, Arm!emit_movewide_immediate(Arm!SixtyFour(inst), Arm!temp_register,
                                                            Arm!U(64, inst.imm)))
           q == CASE inst.op = "alu" -> Arm!Arm64Alu(inst, simple, n, src, dst)
                  [] inst.op = "neg" -> Arm!Arm64Neg(inst, src, dst)
                  [] inst.op = "endian" -> Arm!Arm64Endian(inst, dst)
                  [] inst.op \in {"ja", "jcc"} -> Arm!Arm64Jump(inst, simple, to, src, dst)
                  [] inst.op = "call" -> Arm!Arm64Call(inst)
                  [] inst.op = "exit" -> Arm!When(n # Len(prog) - 1, <<Arm!emit_branch(Arm!TARGET_PC_EXIT)>>)
                  [] inst.op = "ldx" -> Arm!Arm64Memory(inst, dst, src)
                  [] inst.op \in {"st", "stx"} -> Arm!Arm64Memory(inst, src, dst)
                  [] inst.op = "lddw" ->
                       Arm!emit_movewide_immediate(64, dst, Arm!Lddw(inst, prog[n + 2]))
<1>1. /\ inst.op \in {"alu", "neg", "endian", "ja", "jcc", "call", "exit", "ldx", "st", "stx", "lddw"}
      /\ inst.op = "alu" => inst.f \in AluFs
      /\ inst.op \in {"ja", "jcc"} => to \in T
  BY DEF Translatable, Slots, Opcodes
<1>2. simple \in BOOLEAN
  OBVIOUS
<1>3. Emission("arm64", T, p)
  BY ArmMoveWide, WhenEmission
<1>4. Arm!Arm64Inst(prog, n) = p \o q
  BY DEF Arm!Arm64Inst
<1>5. Emission("arm64", T, q)
  <2> HIDE DEF inst, simple, moved, src, dst, to
  <2>1. CASE inst.op = "alu"
    <3>1. q = Arm!Arm64Alu(inst, simple, n, src, dst)
      BY <2>1
    <3> QED
      BY <1>1, <1>2, <2>1, <3>1, ArmAluEmission
  <2>2. CASE inst.op = "neg"
    <3>1. q = <<Arm!emit_register(inst.w, "SUB", dst, Arm!ZR, src)>>
      BY <2>2 DEF Arm!Arm64Neg
    <3> QED
      BY <3>1, ArmPlain, Single
  <2>3. CASE inst.op = "endian"
    BY <2>3, ArmEndianEmission
  <2>4. CASE inst.op \in {"ja", "jcc"}
    <3>1. q = Arm!Arm64Jump(inst, simple, to, src, dst)
      BY <2>4
    <3> QED
      BY <1>1, <2>4, <3>1, ArmJumpEmission
  <2>5. CASE inst.op = "call"
    BY <2>5, ArmCallsEmission
  <2>6. CASE inst.op = "exit"
    <3>1. Arm!TARGET_PC_EXIT \in T
      BY DEF Open, TARGET_PC_EXIT, Arm!TARGET_PC_EXIT
    <3>2. Emission("arm64", T, <<Arm!emit_branch(Arm!TARGET_PC_EXIT)>>)
      BY <3>1, ArmJumps, Single
    <3> QED
      BY <2>6, <3>2, WhenEmission
  <2>7. CASE inst.op \in {"ldx", "st", "stx"}
    BY <2>7, ArmMemoryEmission
  <2>8. CASE inst.op = "lddw"
    BY <2>8, ArmMoveWide
  <2> QED
    BY <1>1, <2>1, <2>2, <2>3, <2>4, <2>5, <2>6, <2>7, <2>8
<1> HIDE DEF p, q
<1> QED
  BY <1>3, <1>4, <1>5, Joined

LEMMA ArmPairs ==
  ASSUME NEW T, NEW op, NEW r, op \notin {"jmp", "jcc", "adr", "cbnz"}
  PROVE  Emission("arm64", T, [j \in 1 .. 4 |->
            Arm!emit_loadstorepair(op, r[2 * j - 1], r[2 * j], 16 * j)])
<1> DEFINE q == [j \in 1 .. 4 |-> Arm!emit_loadstorepair(op, r[2 * j - 1], r[2 * j], 16 * j)]
<1>1. q = [j \in 1 .. 4 |-> q[j]]
  OBVIOUS
<1>2. \A j \in 1 .. 4 : Part("arm64", T, q[j])
  BY ArmAccess
<1> HIDE DEF q
<1>3. Emission("arm64", T, q)
  BY <1>1, <1>2, Listed
<1> QED
  BY <1>3 DEF q

LEMMA ArmPrologueEmission ==
  ASSUME NEW T
  PROVE  Emission("arm64", T, Arm!Arm64Prologue) /\ Len(Arm!Arm64Prologue) > 0
<1> DEFINE saved == Arm!callee_saved_registers
           a == Arm!emit_addsub_immediate("SUB", Arm!SP, Arm!SP, Arm!FrameSize)
           b == Arm!emit_loadstorepair("stp", Arm!FP, Arm!LR, 0)
           d == Arm!emit_addsub_immediate("ADD", Arm!FP, Arm!SP, 0)
           q == [j \in 1 .. 4 |-> Arm!emit_loadstorepair("stp", saved[2 * j - 1], saved[2 * j], 16 * j)]
           e == Arm!emit_addsub_immediate("ADD", Arm!Arm64Map[10], Arm!SP, Arm!FrameSize)
<1>1. Part("arm64", T, a) /\ Part("arm64", T, b) /\ Part("arm64", T, d) /\ Part("arm64", T, e)
  BY ArmPlain, ArmAccess
<1>2. Emission("arm64", T, q)
  BY ArmPairs
<1>3. Arm!Arm64Prologue = <<a, b, d>> \o q \o <<e>>
  BY DEF Arm!Arm64Prologue
<1> HIDE DEF a, b, d, e, q
<1>4. /\ Emission("arm64", T, <<a, b, d>>)
      /\ Emission("arm64", T, <<e>>) /\ Len(<<e>>) = 1
  BY <1>1, Triple, Single
<1>5. Emission("arm64", T, <<a, b, d>> \o q) /\ Len(<<a, b, d>> \o q) \in Nat
  BY <1>2, <1>4, Joined, EmissionLen
<1> QED
  BY <1>3, <1>4, <1>5, Joined

LEMMA ArmEpilogueEmission ==
  ASSUME NEW T
  PROVE  Emission("arm64", T, Arm!Arm64Epilogue) /\ Len(Arm!Arm64Epilogue) > 0
<1> DEFINE saved == Arm!callee_saved_registers
           a == Arm!emit_register(64, "ORR", 0, Arm!ZR, Arm!Arm64Map[0])
           q == [j \in 1 .. 4 |-> Arm!emit_loadstorepair("ldp", saved[2 * j - 1], saved[2 * j], 16 * j)]
           b == Arm!emit_loadstorepair("ldp", Arm!FP, Arm!LR, 0)
           d == Arm!emit_addsub_immediate("ADD", Arm!SP, Arm!SP, Arm!FrameSize)
           e == Arm!Arm("ret")
<1>1. Part("arm64", T, a) /\ Part("arm64", T, b) /\ Part("arm64", T, d) /\ Part("arm64", T, e)
  BY ArmPlain, ArmAccess
<1>2. Emission("arm64", T, q)
  BY ArmPairs
<1>3. Arm!Arm64Epilogue = <<a>> \o q \o <<b, d, e>>
  BY DEF Arm!Arm64Epilogue
<1> HIDE DEF a, b, d, e, q
<1>4. /\ Emission("arm64", T, <<b, d, e>>) /\ Len(<<b, d, e>>) = 3
      /\ Emission("arm64", T, <<a>>)
  BY <1>1, Triple, Single
<1>5. Emission("arm64", T, <<a>> \o q) /\ Len(<<a>> \o q) \in Nat
  BY <1>2, <1>4, Joined, EmissionLen
<1> QED
  BY <1>3, <1>4, <1>5, Joined

LEMMA ArmHandlerTranslation ==
  ASSUME NEW T, Open(T)
  PROVE  Translation("arm64", T, Arm!Arm64DivByZero) /\ EndsInJump(Arm!Arm64DivByZero)
<1> DEFINE a == [Arm!Arm("adr") EXCEPT !.d = 1, !.to = 0]
           p == Arm!emit_movewide_immediate(64, 0, Arm!Stderr)
           q == Arm!emit_call(Arm!ErrorPrintf)
           r == Arm!emit_movewide_immediate(64, Arm!Arm64Map[0], Arm!U(64, -1))
           b == Arm!emit_branch(Arm!TARGET_PC_EXIT)
<1>1. Fit("arm64", T, a) /\ a.op = "adr"
  BY DEF Fit, IsJump, Arm!Ins, Arm!Nothing, Arm!Arm
<1>2. Emission("arm64", T, p) /\ Emission("arm64", T, q) /\ Emission("arm64", T, r)
  BY ArmMoveWide, ArmCallEmission
<1>3. Emission("arm64", T, <<b>>)
  <2>1. Arm!TARGET_PC_EXIT \in T
    BY DEF Open, TARGET_PC_EXIT, Arm!TARGET_PC_EXIT
  <2> QED
    BY <2>1, ArmJumps, Single
<1>4. Arm!Arm64DivByZero = <<a>> \o p \o q \o r \o <<b>>
  BY DEF Arm!Arm64DivByZero
<1>9. EndsInJump(<<b>>)
  BY DEF EndsInJump, Arm!emit_branch, Arm!Arm, Arm!Ins
<1> HIDE DEF a, p, q, r, b
<1>5. Translation("arm64", T, <<a>>)
  BY <1>1 DEF Translation, Skips, Range
<1>6. Translation("arm64", T, <<a>> \o p)
  BY <1>2, <1>5, TranslationJoined
<1>7. Translation("arm64", T, <<a>> \o p \o q)
  BY <1>2, <1>6, TranslationJoined
<1>8. Translation("arm64", T, <<a>> \o p \o q \o r)
  BY <1>2, <1>7, TranslationJoined
<1>10. Translation("arm64", T, <<a>> \o p \o q \o r \o <<b>>)
  BY <1>3, <1>8, TranslationJoined
<1>11. EndsInJump(<<a>> \o p \o q \o r \o <<b>>)
  <2>1. PICK u : u = <<a>> \o p \o q \o r
    OBVIOUS
  <2>2. u \in Seq(Range(u)) /\ <<b>> \in Seq(Range(<<b>>))
    BY <1>3, <1>8, <2>1 DEF Emission, Translation
  <2>3. EndsInJump(u \o <<b>>)
    BY <1>9, <2>2, LastOfJoined
  <2> QED
    BY <2>1, <2>3
<1> QED
  BY <1>4, <1>10, <1>11


-----------------------------------------------------------------------------
(* The invariant of a translation: case cs, jit_state s, queue q, phase ph *)
(* and index ix.                                                           *)

(* Where execution of loaded code can be, and where its jumps may lead. *)
HeadsOf(prog) == CHOOSE H \in SUBSET (0 .. Len(prog) - 1) : Ebpf!SoundHeads(Code(prog), H, Table)
Places(prog) == {TARGET_PC_EXIT, TARGET_PC_DIV_BY_ZERO} \cup HeadsOf(prog)

JumpAt(arch, at, len) == IF arch = "x86_64" THEN at + len - 4 ELSE at
StringAt(arch, at, len) == IF arch = "x86_64" THEN at + len ELSE at

IsState(s) ==
  /\ DOMAIN s = {"offset", "code", "jumps", "strings", "pc_locs", "exit_loc", "div_by_zero_loc",
                 "string_table_loc"}
  /\ s.offset \in Nat /\ s.exit_loc \in Nat /\ s.div_by_zero_loc \in Nat
  /\ s.pc_locs \in [0 .. MaxInsts -> Nat]
  /\ s.jumps \in Seq([offset_loc : Int, target_pc : Int]) /\ Len(s.jumps) <= MaxInsts
  /\ s.strings \in Seq([offset_loc : Int, string_id : Int]) /\ Len(s.strings) <= 1

(* Instructions do not overlap and end before offset. *)
Laid(s) ==
  /\ \A l \in DOMAIN s.code :
       /\ l \in Nat
       /\ {"op", "len", "to", "rel"} \subseteq DOMAIN s.code[l]
       /\ s.code[l].len \in Nat /\ s.code[l].len > 0 /\ l + s.code[l].len <= s.offset
  /\ \A k, l \in DOMAIN s.code : k < l => k + s.code[k].len <= l

(* Every entry of the tables belongs to an instruction and leads somewhere. *)
TablesOk(cs, s) ==
  /\ \A k \in 1 .. Len(s.jumps) :
       /\ s.jumps[k].target_pc \in Places(cs.prog)
       /\ \E l \in DOMAIN s.code :
            IsJump(s.code[l]) /\ s.jumps[k].offset_loc = JumpAt(cs.arch, l, s.code[l].len)
  /\ \A k \in 1 .. Len(s.strings) :
       \E l \in DOMAIN s.code :
         s.code[l].op = "adr" /\ s.strings[k].offset_loc = StringAt(cs.arch, l, s.code[l].len)

(* Unless the table was full, what is still to be filled in has an entry. *)
Covered(cs, s) ==
  Len(s.jumps) < MaxInsts =>
    \A l \in DOMAIN s.code :
      s.code[l].to # Nothing =>
        \/ /\ IsJump(s.code[l])
           /\ \E k \in 1 .. Len(s.jumps) : s.jumps[k].offset_loc = JumpAt(cs.arch, l, s.code[l].len)
        \/ /\ s.code[l].op = "adr"
           /\ \E k \in 1 .. Len(s.strings) :
                s.strings[k].offset_loc = StringAt(cs.arch, l, s.code[l].len)

(* What is still to be emitted, with at most one string load in all. *)
QueueOk(cs, s, q, ph) ==
  /\ q \in Seq(Range(q))
  /\ \A k \in 1 .. Len(q) : Fit(cs.arch, Places(cs.prog), q[k])
  /\ \A j, k \in 1 .. Len(q) : q[j].op = "adr" /\ q[k].op = "adr" => j = k
  /\ s.strings # <<>> => \A k \in 1 .. Len(q) : q[k].op # "adr"
  /\ ph \in {"start", "insts", "handler"} => s.strings = <<>> /\ \A k \in 1 .. Len(q) : q[k].op # "adr"
  /\ ph \notin {"insts", "handler", "string_table"} => q = <<>>

(* The locations noted are those of instructions, or of the next one. *)
Locations(s) == Range(s.pc_locs) \cup {s.exit_loc, s.div_by_zero_loc}

LocationsOk(s, q, ph) ==
  /\ Locations(s) \subseteq DOMAIN s.code \cup {s.offset}
  /\ ph \in {"handler", "string_table"} /\ q = <<>> => Locations(s) \subseteq DOMAIN s.code
  /\ ph \in {"limits", "jumps", "accepted", "running"} => Locations(s) \subseteq DOMAIN s.code

(* The loop of translate: every head before ix has its location, behind the prologue. *)
ProgressOk(cs, s, q, ph, ix) ==
  /\ ix \in Nat
  /\ ph \in {"start", "insts"} => ix \in HeadsOf(cs.prog) \cup {Len(cs.prog)}
  /\ ph \notin {"start", "insts"} => ix >= Len(cs.prog)
  /\ ph = "start" => ix = 0
  /\ ph # "start" => q # <<>> \/ s.offset > 0
  /\ ix > 0 => s.pc_locs[0] > 0
  /\ \A h \in HeadsOf(cs.prog) : h < ix => s.pc_locs[h] >= s.pc_locs[0]
  /\ ph \notin {"start", "insts"} => s.exit_loc >= s.pc_locs[0]
  /\ ph \notin {"start", "insts", "handler"} => s.div_by_zero_loc >= s.pc_locs[0]

EntersAt(cs, s, loc) ==
  /\ loc \in {s.pc_locs[h] : h \in HeadsOf(cs.prog)} \cup {s.exit_loc, s.div_by_zero_loc}
  /\ loc \in DOMAIN s.code /\ loc >= s.pc_locs[0]

BaseAt(arch, at, len) == IF arch = "x86_64" THEN at + len ELSE at

(* Jumps are filled in only after the limits were tested. *)
FilledOk(cs, s, ph) ==
  /\ ph \notin {"jumps", "accepted", "running"} =>
       \A l \in DOMAIN s.code : IsJump(s.code[l]) => s.code[l].to # Nothing
  /\ ph \in {"jumps", "accepted", "running"} =>
       /\ Len(s.jumps) < MaxInsts
       /\ \A l \in DOMAIN s.code :
            IsJump(s.code[l]) /\ s.code[l].to = Nothing =>
              EntersAt(cs, s, BaseAt(cs.arch, l, s.code[l].len) + s.code[l].rel)
  /\ ph \in {"accepted", "running"} => s.jumps = <<>> /\ s.strings = <<>>

(* Code begins at 0; behind every instruction is another or the next to be  *)
(* emitted, unless it is a jump, and a cbnz skips to one of the two.        *)
RunsOn(s, q, ph, loc) ==
  \/ loc \in DOMAIN s.code
  \/ /\ loc = s.offset
     /\ ph \in {"start", "insts", "handler"} \/ (ph = "string_table" /\ q # <<>>)

FlowOk(cs, s, q, ph) ==
  /\ Skips(q)
  /\ ph = "string_table" /\ q # <<>> => q[Len(q)].op = "jmp"
  /\ 0 \in DOMAIN s.code \/ (s.offset = 0 /\ ph \in {"start", "insts", "handler", "string_table"})
  /\ \A l \in DOMAIN s.code : s.code[l].op = "jmp" \/ RunsOn(s, q, ph, l + s.code[l].len)
  /\ \A l \in DOMAIN s.code :
       s.code[l].op = "cbnz" =>
         /\ cs.arch = "arm64" /\ s.code[l].rel = 12
         /\ \/ l + 12 \in DOMAIN s.code
            \/ \E j \in 1 .. Len(q) : l + 12 = s.offset + 4 * (j - 1)

Phases == {"start", "insts", "handler", "string_table", "limits", "jumps", "accepted", "running"}

TranslationOk(cs, s, q, ph, ix) ==
  /\ ph \in Phases
  /\ IsState(s) /\ Laid(s) /\ TablesOk(cs, s) /\ Covered(cs, s) /\ QueueOk(cs, s, q, ph)
  /\ LocationsOk(s, q, ph) /\ ProgressOk(cs, s, q, ph, ix) /\ FilledOk(cs, s, ph)
  /\ FlowOk(cs, s, q, ph)

JitInv ==
  /\ case \in Cases
  /\ phase \in Phases \cup {"aborted", "refused"}
  /\ phase \notin {"aborted", "refused"} => TranslationOk(case, state, queue, phase, i)

-----------------------------------------------------------------------------
(* Programs. *)

(***************************************************************************)
(* Loaded code has heads, each is translated by one turn of the loop, and  *)
(* the next turn is at the next head: the second half of an lddw is none.  *)
(***************************************************************************)
LEMMA HeadsAreSound ==
  ASSUME NEW cs \in Cases
  PROVE  Ebpf!SoundHeads(Code(cs.prog), HeadsOf(cs.prog), Table)
<1>1. \E H \in SUBSET (0 .. Len(cs.prog) - 1) : Ebpf!SoundHeads(Code(cs.prog), H, Table)
  <2>1. cs.prog \in Seq(Slots) /\ Ebpf!SafeCode(Code(cs.prog), Table)
    BY CasesAssumption DEF Valid
  <2>2. Len(Code(cs.prog)) = Len(cs.prog)
    BY <2>1 DEF Code
  <2> QED
    BY <2>1, <2>2 DEF Ebpf!SafeCode
<1> QED
  BY <1>1, Zenon DEF HeadsOf

LEMMA GroupedJump ==
  ASSUME NEW inst \in Slots
  PROVE  /\ inst.op = "slot2" => Grouped(inst).op = "zero"
         /\ inst.op \in {"ja", "jcc"} => Grouped(inst).op \in {"ja", "jcc"}
         /\ Grouped(inst).offset = inst.offset /\ inst.offset \in Int
         /\ Grouped(inst).op = "zero" => inst.op = "slot2"
BY DEF Slots, Opcodes, AluFs, Conditions, Grouped

LEMMA HeadsLead ==
  ASSUME NEW cs \in Cases
  PROVE  /\ cs.prog \in Seq(Slots) /\ Len(cs.prog) \in Nat \ {0} /\ Len(cs.prog) < MaxInsts
         /\ HeadsOf(cs.prog) \subseteq 0 .. Len(cs.prog) - 1 /\ 0 \in HeadsOf(cs.prog)
         /\ Open(Places(cs.prog)) /\ Nothing \notin Places(cs.prog) /\ Places(cs.prog) \subseteq Int
         /\ \A h \in HeadsOf(cs.prog) :
              LET next == h + Ebpf!Width(Grouped(cs.prog[h + 1]))
              IN /\ Translatable(cs.prog, h, Places(cs.prog))
                 /\ next \in HeadsOf(cs.prog) \cup {Len(cs.prog)} /\ next > h
                 /\ \A g \in HeadsOf(cs.prog) : g < next => g <= h
<1> DEFINE prog == cs.prog
           H == HeadsOf(prog)
<1>1. prog \in Seq(Slots) /\ Len(prog) < MaxInsts /\ Ebpf!EndsWell(Code(prog))
  BY CasesAssumption DEF Valid
<1>2. /\ Len(Code(prog)) = Len(prog) /\ Len(prog) \in Nat
      /\ \A h \in 0 .. Len(prog) - 1 : Code(prog)[h + 1] = Grouped(prog[h + 1]) /\ prog[h + 1] \in Slots
  BY <1>1 DEF Code
<1>3. Len(prog) > 0
  BY <1>1, <1>2 DEF Ebpf!EndsWell
<1>4. /\ H \subseteq 0 .. Len(prog) - 1 /\ 0 \in H
      /\ \A h \in H : Ebpf!SoundAt(Code(prog), h, H, Table)
  <2>1. Ebpf!SoundHeads(Code(prog), H, Table)
    BY HeadsAreSound
  <2> HIDE DEF H
  <2>2. /\ H \subseteq 0 .. Len(Code(prog)) - 1 /\ 0 \in H \cup {Len(Code(prog))}
        /\ \A h \in H : Ebpf!SoundAt(Code(prog), h, H, Table)
    BY <2>1, Zenon DEF Ebpf!SoundHeads
  <2> QED
    BY <1>2, <1>3, <2>2
<1>5. Open(Places(prog)) /\ Nothing \notin Places(prog) /\ Places(prog) \subseteq Int
  BY <1>2, <1>4 DEF Open, Places, Nothing, TARGET_PC_EXIT, TARGET_PC_DIV_BY_ZERO
<1>6. ASSUME NEW h \in H
      PROVE  LET next == h + Ebpf!Width(Grouped(prog[h + 1]))
             IN /\ Translatable(prog, h, Places(prog))
                /\ next \in H \cup {Len(prog)} /\ next > h
                /\ \A g \in H : g < next => g <= h
  <2> DEFINE inst == prog[h + 1]
             next == h + Ebpf!Width(Grouped(inst))
  <2>1. /\ h \in 0 .. Len(prog) - 1 /\ inst \in Slots /\ Code(prog)[h + 1] = Grouped(inst)
        /\ Ebpf!SoundAt(Code(prog), h, H, Table)
    BY <1>2, <1>4
  <2>2. /\ Grouped(inst).op # "zero" /\ next \in H \cup {Len(prog)}
        /\ Grouped(inst).op = "lddw" => Code(prog)[h + 2].op = "zero"
        /\ Grouped(inst).op \in {"ja", "jcc"} => h + 1 + Grouped(inst).offset \in H
    BY <1>2, <2>1 DEF Ebpf!SoundAt, Ebpf!Jumps, Ebpf!Target
  <2>3. Translatable(prog, h, Places(prog))
    <3>1. inst.op # "slot2" /\ (inst.op \in {"ja", "jcc"} => h + 1 + inst.offset \in H)
      BY <2>1, <2>2, GroupedJump
    <3>2. h + 1 + inst.offset = h + inst.offset + 1
      <4>1. inst.offset \in Int
        BY <2>1, GroupedJump
      <4> HIDE DEF inst
      <4> QED
        BY <2>1, <4>1
    <3> QED
      BY <2>1, <3>1, <3>2 DEF Translatable, Places
  <2>4. next \in {h + 1, h + 2} /\ (next = h + 2 => Grouped(inst).op = "lddw")
    BY <2>1 DEF Ebpf!Width
  <2>5. ASSUME NEW g \in H, g < next PROVE g <= h
    <3>1. g \in 0 .. Len(prog) - 1 /\ Code(prog)[g + 1].op # "zero"
      BY <1>4 DEF Ebpf!SoundAt
    <3>2. CASE g = h + 1
      <4>1. next = h + 2
        BY <2>1, <2>4, <2>5, <3>2
      <4>2. Code(prog)[h + 2].op = "zero"
        BY <2>2, <2>4, <4>1
      <4>3. g + 1 = h + 2
        BY <2>1, <3>2
      <4> QED
        BY <3>1, <4>2, <4>3
    <3> QED
      BY <2>1, <2>4, <2>5, <3>1, <3>2
  <2> QED
    BY <2>1, <2>2, <2>3, <2>4, <2>5
<1> QED
  BY <1>1, <1>2, <1>3, <1>4, <1>5, <1>6

-----------------------------------------------------------------------------
(* The steps that note a location and begin an emission. *)

(* What a step that emits nothing leaves alone. *)
SameCode(s, t) ==
  /\ DOMAIN t = DOMAIN s
  /\ t.offset = s.offset /\ t.code = s.code /\ t.jumps = s.jumps /\ t.strings = s.strings

LEMMA SameCodeStays ==
  ASSUME NEW cs, NEW s, NEW t, SameCode(s, t)
  PROVE  /\ Laid(s) => Laid(t)
         /\ TablesOk(cs, s) => TablesOk(cs, t)
         /\ Covered(cs, s) => Covered(cs, t)
BY DEF SameCode, Laid, TablesOk, Covered

LEMMA MarkedFields ==
  ASSUME NEW s, IsState(s), NEW ix \in 0 .. MaxInsts, NEW t, t = [s EXCEPT !.pc_locs[ix] = s.offset]
  PROVE  /\ SameCode(s, t) /\ IsState(t)
         /\ t.pc_locs = [s.pc_locs EXCEPT ![ix] = s.offset]
         /\ t.exit_loc = s.exit_loc /\ t.div_by_zero_loc = s.div_by_zero_loc
BY DEF SameCode, IsState

LEMMA ExitFields ==
  ASSUME NEW s, IsState(s), NEW t, t = [s EXCEPT !.exit_loc = s.offset]
  PROVE  /\ SameCode(s, t) /\ IsState(t)
         /\ t.pc_locs = s.pc_locs
         /\ t.exit_loc = s.offset /\ t.div_by_zero_loc = s.div_by_zero_loc
BY DEF SameCode, IsState

LEMMA HandlerFields ==
  ASSUME NEW s, IsState(s), NEW t, t = [s EXCEPT !.div_by_zero_loc = s.offset]
  PROVE  /\ SameCode(s, t) /\ IsState(t)
         /\ t.pc_locs = s.pc_locs
         /\ t.exit_loc = s.exit_loc /\ t.div_by_zero_loc = s.offset
BY DEF SameCode, IsState

LEMMA TableFields ==
  ASSUME NEW s, IsState(s), NEW t,
         t = [s EXCEPT !.string_table_loc = s.offset, !.offset = @ + StringLen]
  PROVE  /\ DOMAIN t = DOMAIN s /\ IsState(t)
         /\ t.offset = s.offset + StringLen /\ t.code = s.code
         /\ t.jumps = s.jumps /\ t.strings = s.strings
         /\ t.pc_locs = s.pc_locs
         /\ t.exit_loc = s.exit_loc /\ t.div_by_zero_loc = s.div_by_zero_loc
BY LimitsAssumption DEF IsState

(* Every location noted so far is at most that of the next instruction. *)
LEMMA LocationsBelow ==
  ASSUME NEW s, NEW q, NEW ph, IsState(s), Laid(s), LocationsOk(s, q, ph)
  PROVE  \A loc \in Locations(s) : loc <= s.offset
BY DEF IsState, Laid, LocationsOk

(* Where code runs on, while no instruction is emitted. *)
LEMMA NoneQueued ==
  Len(<<>>) = 0 /\ \A j \in 1 .. Len(<<>>) : FALSE
OBVIOUS

LEMMA FlowBegins ==
  ASSUME NEW cs, NEW s, NEW t, NEW q, NEW ph \in {"start", "insts", "handler"}, NEW next,
         FlowOk(cs, s, <<>>, ph), t.code = s.code, t.offset = s.offset, Skips(q),
         next \in {"insts", "handler"} \/ (next = "string_table" /\ EndsInJump(q))
  PROVE  FlowOk(cs, t, q, next)
BY NoneQueued DEF FlowOk, RunsOn, EndsInJump

LEMMA FlowTable ==
  ASSUME NEW cs, NEW s, NEW t, FlowOk(cs, s, <<>>, "string_table"), t.code = s.code,
         s.offset \in Nat, s.offset > 0
  PROVE  FlowOk(cs, t, <<>>, "limits")
BY NoneQueued DEF FlowOk, RunsOn

LEMMA FlowStays ==
  ASSUME NEW cs, NEW s, NEW q, NEW ph \in {"limits", "jumps", "accepted"},
         NEW next \in {"jumps", "accepted", "running"}, FlowOk(cs, s, q, ph)
  PROVE  FlowOk(cs, s, q, next)
BY DEF FlowOk, RunsOn

LEMMA EmissionQueued ==
  ASSUME NEW cs, NEW s, NEW q, NEW ph \in {"insts", "handler"},
         Emission(cs.arch, Places(cs.prog), q), s.strings = <<>>
  PROVE  QueueOk(cs, s, q, ph)
BY DEF Emission, QueueOk

LEMMA HandlerQueued ==
  ASSUME NEW cs, NEW s, NEW q, Translation(cs.arch, Places(cs.prog), q), s.strings = <<>>
  PROVE  QueueOk(cs, s, q, "string_table")
BY DEF Translation, QueueOk

LEMMA PrologueKeeps ==
  ASSUME NEW cs \in Cases, NEW s, NEW ix, NEW q, TranslationOk(cs, s, <<>>, "start", ix),
         Emission(cs.arch, Places(cs.prog), q), Len(q) > 0
  PROVE  TranslationOk(cs, s, q, "insts", ix)
<1>1. s.strings = <<>>
  BY DEF TranslationOk, QueueOk
<1>2. QueueOk(cs, s, q, "insts")
  BY <1>1, EmissionQueued
<1>3. q # <<>>
  OBVIOUS
<1>4. LocationsOk(s, q, "insts")
  BY DEF TranslationOk, LocationsOk
<1>5. ProgressOk(cs, s, q, "insts", ix)
  BY <1>3 DEF TranslationOk, ProgressOk
<1>6. FilledOk(cs, s, "insts")
  BY DEF TranslationOk, FilledOk
<1>7. FlowOk(cs, s, q, "insts")
  BY FlowBegins DEF TranslationOk, Emission
<1> QED
  BY <1>2, <1>4, <1>5, <1>6, <1>7 DEF TranslationOk, Phases

Located(s, ix) == [s EXCEPT !.pc_locs[ix] = s.offset]
After(prog, ix) == ix + Ebpf!Width(Grouped(prog[ix + 1]))

LEMMA InstKeeps ==
  ASSUME NEW cs \in Cases, NEW s, NEW ix, NEW q, NEW t, NEW next,
         TranslationOk(cs, s, <<>>, "insts", ix), ix < Len(cs.prog),
         t = Located(s, ix), next = After(cs.prog, ix),
         Emission(cs.arch, Places(cs.prog), q)
  PROVE  TranslationOk(cs, t, q, "insts", next)
<1> DEFINE H == HeadsOf(cs.prog)
<1>0. IsState(s) /\ Laid(s) /\ TablesOk(cs, s) /\ Covered(cs, s)
  BY DEF TranslationOk
<1>1. /\ ix \in H /\ ix \in 0 .. MaxInsts /\ 0 \in 0 .. MaxInsts
      /\ H \subseteq 0 .. MaxInsts
      /\ next \in H \cup {Len(cs.prog)} /\ next > ix /\ next \in Nat
      /\ \A g \in H : g < next => g <= ix
  <2>1. ix \in H \cup {Len(cs.prog)}
    BY DEF TranslationOk, ProgressOk
  <2>2. Len(cs.prog) \in Nat \ {0} /\ Len(cs.prog) < MaxInsts /\ H \subseteq 0 .. Len(cs.prog) - 1
    BY HeadsLead
  <2>3. ix \in H
    BY <2>1, <2>2
  <2>4. /\ next \in H \cup {Len(cs.prog)} /\ next > ix
        /\ \A g \in H : g < next => g <= ix
    BY <2>3, HeadsLead DEF After
  <2> HIDE DEF H
  <2> QED
    BY <2>2, <2>3, <2>4, LimitsAssumption
<1>2. /\ SameCode(s, t) /\ IsState(t)
      /\ t.pc_locs = [s.pc_locs EXCEPT ![ix] = s.offset]
      /\ t.exit_loc = s.exit_loc /\ t.div_by_zero_loc = s.div_by_zero_loc
  BY <1>0, <1>1, MarkedFields DEF Located
<1>3. Laid(t) /\ TablesOk(cs, t) /\ Covered(cs, t)
  BY <1>0, <1>2, SameCodeStays
<1>4. QueueOk(cs, t, q, "insts")
  <2>1. t.strings = <<>>
    BY <1>2 DEF TranslationOk, QueueOk, SameCode
  <2> QED
    BY <2>1, EmissionQueued
<1>5. Locations(t) \subseteq Locations(s) \cup {s.offset}
  BY <1>0, <1>2 DEF Locations, Range, IsState
<1>6. LocationsOk(t, q, "insts")
  BY <1>2, <1>5 DEF TranslationOk, LocationsOk, SameCode
<1>7. s.offset > 0 /\ s.offset \in Nat
  BY <1>0 DEF TranslationOk, ProgressOk, IsState
<1>8. s.pc_locs[0] <= s.offset /\ s.pc_locs \in [0 .. MaxInsts -> Nat]
  <2>1. s.pc_locs[0] \in Locations(s)
    BY <1>0, <1>1 DEF Locations, Range, IsState
  <2> QED
    BY <1>0, <2>1, LocationsBelow DEF TranslationOk, IsState
<1>9. t.pc_locs[0] > 0
  <2>1. CASE ix = 0
    BY <1>1, <1>2, <1>7, <1>8, <2>1
  <2>2. CASE ix > 0
    <3>1. s.pc_locs[0] > 0
      BY <2>2 DEF TranslationOk, ProgressOk
    <3>2. t.pc_locs[0] = s.pc_locs[0]
      BY <1>1, <1>2, <1>8, <2>2
    <3> QED
      BY <3>1, <3>2
  <2> QED
    BY <1>1, <2>1, <2>2
<1>10. ASSUME NEW h \in H, h < next PROVE t.pc_locs[h] >= t.pc_locs[0]
  <2>1. h <= ix
    BY <1>1, <1>10
  <2>2. CASE h = ix
    <3>1. t.pc_locs[h] = s.offset
      BY <1>1, <1>2, <1>8, <2>2
    <3>2. t.pc_locs[0] \in {s.pc_locs[0], s.offset}
      BY <1>1, <1>2, <1>8
    <3> QED
      BY <1>7, <1>8, <3>1, <3>2
  <2>3. CASE h < ix
    <3>1. s.pc_locs[h] >= s.pc_locs[0]
      BY <2>3 DEF TranslationOk, ProgressOk
    <3>2. t.pc_locs[h] = s.pc_locs[h]
      BY <1>1, <1>2, <1>8, <2>3
    <3>3. t.pc_locs[0] = s.pc_locs[0]
      BY <1>1, <1>2, <1>8, <2>3
    <3> QED
      BY <3>1, <3>2, <3>3
  <2> QED
    BY <1>1, <2>1, <2>2, <2>3
<1>11. ProgressOk(cs, t, q, "insts", next)
  BY <1>1, <1>2, <1>7, <1>9, <1>10 DEF ProgressOk, SameCode
<1>12. FilledOk(cs, t, "insts")
  BY <1>2 DEF TranslationOk, FilledOk, SameCode
<1>13. FlowOk(cs, t, q, "insts")
  <2>1. FlowOk(cs, s, <<>>, "insts") /\ Skips(q) /\ t.code = s.code /\ t.offset = s.offset
    BY <1>2 DEF TranslationOk, Emission, SameCode
  <2> QED
    BY <2>1, FlowBegins
<1> QED
  BY <1>2, <1>3, <1>4, <1>6, <1>11, <1>12, <1>13 DEF TranslationOk, Phases

ExitNoted(s) == [s EXCEPT !.exit_loc = s.offset]
HandlerNoted(s) == [s EXCEPT !.div_by_zero_loc = s.offset]
TableNoted(s) == [s EXCEPT !.string_table_loc = s.offset, !.offset = @ + StringLen]

LEMMA EpilogueKeeps ==
  ASSUME NEW cs \in Cases, NEW s, NEW ix, NEW q, NEW t,
         TranslationOk(cs, s, <<>>, "insts", ix), ix >= Len(cs.prog),
         t = ExitNoted(s),
         Emission(cs.arch, Places(cs.prog), q), Len(q) > 0
  PROVE  TranslationOk(cs, t, q, "handler", ix)
<1>1. /\ SameCode(s, t) /\ IsState(t) /\ IsState(s)
      /\ t.pc_locs = s.pc_locs
      /\ t.exit_loc = s.offset /\ t.div_by_zero_loc = s.div_by_zero_loc
  BY ExitFields DEF TranslationOk, ExitNoted
<1>2. Laid(t) /\ TablesOk(cs, t) /\ Covered(cs, t)
  BY <1>1, SameCodeStays DEF TranslationOk
<1>3. QueueOk(cs, t, q, "handler")
  <2>1. t.strings = <<>>
    BY <1>1 DEF TranslationOk, QueueOk, SameCode
  <2> QED
    BY <2>1, EmissionQueued
<1>4. q # <<>>
  OBVIOUS
<1>5. LocationsOk(t, q, "handler")
  BY <1>1, <1>4 DEF TranslationOk, LocationsOk, Locations, SameCode
<1>6. s.offset >= s.pc_locs[0]
  <2>1. s.pc_locs[0] \in Locations(s)
    BY <1>1, LimitsAssumption DEF Locations, Range, IsState
  <2> QED
    BY <1>1, <2>1, LocationsBelow, LimitsAssumption DEF TranslationOk, IsState
<1>7. ProgressOk(cs, t, q, "handler", ix)
  BY <1>1, <1>4, <1>6 DEF TranslationOk, ProgressOk, SameCode
<1>8. FilledOk(cs, t, "handler")
  BY <1>1 DEF TranslationOk, FilledOk, SameCode
<1>9. FlowOk(cs, t, q, "handler")
  <2>1. FlowOk(cs, s, <<>>, "insts") /\ Skips(q) /\ t.code = s.code /\ t.offset = s.offset
    BY <1>1 DEF TranslationOk, Emission, SameCode
  <2> QED
    BY <2>1, FlowBegins
<1> QED
  BY <1>1, <1>2, <1>3, <1>5, <1>7, <1>8, <1>9 DEF TranslationOk, Phases

LEMMA HandlerKeeps ==
  ASSUME NEW cs \in Cases, NEW s, NEW ix, NEW q, NEW t,
         TranslationOk(cs, s, <<>>, "handler", ix),
         t = HandlerNoted(s),
         Translation(cs.arch, Places(cs.prog), q), EndsInJump(q)
  PROVE  TranslationOk(cs, t, q, "string_table", ix)
<1>1. /\ SameCode(s, t) /\ IsState(t) /\ IsState(s)
      /\ t.pc_locs = s.pc_locs
      /\ t.exit_loc = s.exit_loc /\ t.div_by_zero_loc = s.offset
  BY HandlerFields DEF TranslationOk, HandlerNoted
<1>2. Laid(t) /\ TablesOk(cs, t) /\ Covered(cs, t)
  BY <1>1, SameCodeStays DEF TranslationOk
<1>3. QueueOk(cs, t, q, "string_table")
  <2>1. t.strings = <<>>
    BY <1>1 DEF TranslationOk, QueueOk, SameCode
  <2> QED
    BY <2>1, HandlerQueued
<1>4. q # <<>>
  BY DEF Translation
<1>5. LocationsOk(t, q, "string_table")
  BY <1>1, <1>4 DEF TranslationOk, LocationsOk, Locations, SameCode
<1>6. s.offset >= s.pc_locs[0]
  <2>1. s.pc_locs[0] \in Locations(s)
    BY <1>1, LimitsAssumption DEF Locations, Range, IsState
  <2> QED
    BY <1>1, <2>1, LocationsBelow, LimitsAssumption DEF TranslationOk, IsState
<1>7. ProgressOk(cs, t, q, "string_table", ix)
  BY <1>1, <1>4, <1>6 DEF TranslationOk, ProgressOk, SameCode
<1>8. FilledOk(cs, t, "string_table")
  BY <1>1 DEF TranslationOk, FilledOk, SameCode
<1>9. FlowOk(cs, t, q, "string_table")
  <2>1. FlowOk(cs, s, <<>>, "handler") /\ Skips(q) /\ t.code = s.code /\ t.offset = s.offset
    BY <1>1 DEF TranslationOk, Translation, SameCode
  <2> QED
    BY <2>1, FlowBegins
<1> QED
  BY <1>1, <1>2, <1>3, <1>5, <1>7, <1>8, <1>9 DEF TranslationOk, Phases

LEMMA TableKeeps ==
  ASSUME NEW cs \in Cases, NEW s, NEW ix, NEW t,
         TranslationOk(cs, s, <<>>, "string_table", ix),
         t = TableNoted(s)
  PROVE  TranslationOk(cs, t, <<>>, "limits", ix)
<1>1. /\ DOMAIN t = DOMAIN s /\ IsState(t) /\ IsState(s)
      /\ t.offset = s.offset + StringLen /\ t.code = s.code
      /\ t.jumps = s.jumps /\ t.strings = s.strings
      /\ t.pc_locs = s.pc_locs
      /\ t.exit_loc = s.exit_loc /\ t.div_by_zero_loc = s.div_by_zero_loc
  BY TableFields DEF TranslationOk, TableNoted
<1>2. s.offset \in Nat /\ t.offset \in Nat /\ t.offset > s.offset
  BY <1>1, LimitsAssumption DEF IsState
<1>3. Laid(t)
  BY <1>1, <1>2 DEF TranslationOk, Laid
<1>4. TablesOk(cs, t) /\ Covered(cs, t)
  BY <1>1 DEF TranslationOk, TablesOk, Covered
<1>5. QueueOk(cs, t, <<>>, "limits")
  BY <1>1 DEF TranslationOk, QueueOk
<1>6. LocationsOk(t, <<>>, "limits")
  BY <1>1 DEF TranslationOk, LocationsOk, Locations
<1>7. ProgressOk(cs, t, <<>>, "limits", ix)
  BY <1>1, <1>2 DEF TranslationOk, ProgressOk
<1>8. FilledOk(cs, t, "limits")
  BY <1>1 DEF TranslationOk, FilledOk
<1>9. FlowOk(cs, t, <<>>, "limits")
  <2>1. FlowOk(cs, s, <<>>, "string_table") /\ s.offset > 0
    BY DEF TranslationOk, ProgressOk
  <2> QED
    BY <1>1, <1>2, <2>1, FlowTable
<1> QED
  BY <1>1, <1>3, <1>4, <1>5, <1>6, <1>7, <1>8, <1>9 DEF TranslationOk, Phases

LEMMA LimitsKeep ==
  ASSUME NEW cs \in Cases, NEW s, NEW q, NEW ix, TranslationOk(cs, s, q, "limits", ix),
         Len(s.jumps) # MaxInsts
  PROVE  TranslationOk(cs, s, q, "jumps", ix)
<1>1. QueueOk(cs, s, q, "jumps") /\ LocationsOk(s, q, "jumps") /\ ProgressOk(cs, s, q, "jumps", ix)
  BY DEF TranslationOk, QueueOk, LocationsOk, ProgressOk
<1>2. Len(s.jumps) < MaxInsts
  BY LimitsAssumption DEF TranslationOk, IsState
<1>3. FilledOk(cs, s, "jumps")
  BY <1>2 DEF TranslationOk, FilledOk
<1>4. FlowOk(cs, s, q, "jumps")
  BY FlowStays DEF TranslationOk
<1> QED
  BY <1>1, <1>3, <1>4 DEF TranslationOk, Phases

LEMMA EnterKeeps ==
  ASSUME NEW cs, NEW s, NEW q, NEW ix, TranslationOk(cs, s, q, "accepted", ix)
  PROVE  TranslationOk(cs, s, q, "running", ix)
<1>1. FlowOk(cs, s, q, "running")
  BY FlowStays DEF TranslationOk
<1> QED
  BY <1>1 DEF TranslationOk, QueueOk, LocationsOk, ProgressOk, FilledOk, Phases

LEMMA StartHolds ==
  ASSUME NEW cs \in Cases
  PROVE  TranslationOk(cs, NewState, <<>>, "start", 0)
<1> DEFINE s == NewState
<1>1. IsState(s)
  BY LimitsAssumption DEF NewState, IsState
<1>2. s.code = <<>> /\ s.jumps = <<>> /\ s.strings = <<>> /\ s.offset = 0
      /\ s.exit_loc = 0 /\ s.div_by_zero_loc = 0 /\ s.pc_locs = [k \in 0 .. MaxInsts |-> 0]
  BY DEF NewState
<1>3. DOMAIN s.code = {} /\ Range(s.pc_locs) \subseteq {0}
  BY <1>2 DEF Range
<1> HIDE DEF s
<1>4. Laid(s) /\ TablesOk(cs, s) /\ Covered(cs, s)
  BY <1>2, <1>3 DEF Laid, TablesOk, Covered
<1>5. QueueOk(cs, s, <<>>, "start")
  <2>1. \A Any : <<>> \in Seq(Any)
    OBVIOUS
  <2> QED
    BY <1>2, <2>1 DEF QueueOk
<1>6. LocationsOk(s, <<>>, "start")
  BY <1>2, <1>3 DEF LocationsOk, Locations
<1>7. ProgressOk(cs, s, <<>>, "start", 0)
  <2>1. 0 \in HeadsOf(cs.prog) /\ HeadsOf(cs.prog) \subseteq Nat
    BY HeadsLead
  <2> QED
    BY <1>2, <2>1 DEF ProgressOk
<1>8. FilledOk(cs, s, "start")
  BY <1>2, <1>3 DEF FilledOk
<1>9. FlowOk(cs, s, <<>>, "start")
  BY <1>2, <1>3, NoneQueued DEF FlowOk, Skips
<1>10. TranslationOk(cs, s, <<>>, "start", 0)
  BY <1>1, <1>4, <1>5, <1>6, <1>7, <1>8, <1>9 DEF TranslationOk, Phases
<1> QED
  BY <1>10 DEF s

-----------------------------------------------------------------------------
(* Emitting one instruction. *)

(* Code with one instruction more, placed at start. *)
Longer(code, start, ins, more) ==
  /\ DOMAIN more = DOMAIN code \cup {start}
  /\ more[start] = ins
  /\ \A l \in DOMAIN code : more[l] = code[l]

LEMMA PlacedAt ==
  ASSUME NEW code, NEW start, NEW ins, start \notin DOMAIN code
  PROVE  Longer(code, start, ins, Placed(code, start, ins))
BY DEF Longer, Placed

LEMMA LaidAgain ==
  ASSUME NEW s, NEW t, NEW ins, NEW len \in Nat, len > 0, IsState(s), Laid(s),
         Longer(s.code, s.offset, ins, t.code), t.offset = s.offset + len,
         {"op", "len", "to", "rel"} \subseteq DOMAIN ins, ins.len = len
  PROVE  Laid(t)
<1>1. s.offset \in Nat
  BY DEF IsState
<1>2. ASSUME NEW l \in DOMAIN t.code
      PROVE  /\ l \in Nat
             /\ {"op", "len", "to", "rel"} \subseteq DOMAIN t.code[l]
             /\ t.code[l].len \in Nat /\ t.code[l].len > 0 /\ l + t.code[l].len <= t.offset
  <2>1. CASE l = s.offset
    BY <1>1, <2>1 DEF Longer
  <2>2. CASE l \in DOMAIN s.code
    BY <1>1, <2>2 DEF Longer, Laid
  <2> QED
    BY <2>1, <2>2 DEF Longer
<1>3. ASSUME NEW k \in DOMAIN t.code, NEW l \in DOMAIN t.code, k < l
      PROVE  k + t.code[k].len <= l
  <2>1. CASE k \in DOMAIN s.code /\ l \in DOMAIN s.code
    BY <1>3, <2>1 DEF Longer, Laid
  <2>2. CASE k \in DOMAIN s.code /\ l = s.offset
    BY <2>2 DEF Longer, Laid
  <2>3. CASE k = s.offset /\ l \in DOMAIN s.code
    BY <1>1, <1>3, <2>3 DEF Laid
  <2>4. CASE k = s.offset /\ l = s.offset
    BY <1>1, <1>3, <2>4
  <2> QED
    BY <2>1, <2>2, <2>3, <2>4 DEF Longer
<1> QED
  BY <1>2, <1>3 DEF Laid

(***************************************************************************)
(* What Emit does to state s for the instruction head, of which len bytes  *)
(* are emitted.                                                            *)
(***************************************************************************)
IsNoted(s, ins) == IsJump(ins) /\ ins.to # Nothing /\ Len(s.jumps) < MaxInsts
LenOf(arch, s, ins) ==
  IF IsJump(ins) /\ ~IsNoted(s, ins) /\ arch = "x86_64" THEN ins.len - 4 ELSE ins.len

EmittedBy(arch, s, ins, t) ==
  LET len == LenOf(arch, s, ins)
  IN /\ DOMAIN t = DOMAIN s
     /\ t.offset = s.offset + len
     /\ Longer(s.code, s.offset, [ins EXCEPT !.len = len], t.code)
     /\ t.jumps = IF IsNoted(s, ins)
                  THEN Append(s.jumps, [offset_loc |-> JumpAt(arch, s.offset, len), target_pc |-> ins.to])
                  ELSE s.jumps
     /\ t.strings = IF ins.op = "adr"
                    THEN Append(s.strings, [offset_loc |-> StringAt(arch, s.offset, len), string_id |-> ins.to])
                    ELSE s.strings
     /\ t.pc_locs = s.pc_locs
     /\ t.exit_loc = s.exit_loc /\ t.div_by_zero_loc = s.div_by_zero_loc

LEMMA EmittedShape ==
  ASSUME NEW arch, NEW T, NEW s, NEW ins, Fit(arch, T, ins)
  PROVE  LET len == LenOf(arch, s, ins)
             emitted == [ins EXCEPT !.len = len]
         IN /\ len \in Nat /\ len > 0
            /\ {"op", "len", "to", "rel"} \subseteq DOMAIN emitted
            /\ emitted.len = len /\ emitted.op = ins.op /\ emitted.to = ins.to
            /\ IsJump(emitted) <=> IsJump(ins)
BY DEF Fit, LenOf, IsNoted, IsJump

LEMMA EmittedTables ==
  ASSUME NEW cs, NEW s, NEW ins, NEW t, IsState(s), TablesOk(cs, s),
         EmittedBy(cs.arch, s, ins, t), Fit(cs.arch, Places(cs.prog), ins)
  PROVE  TablesOk(cs, t)
<1> DEFINE len == LenOf(cs.arch, s, ins)
           new == [ins EXCEPT !.len = len]
<1>1. new.len = len /\ new.op = ins.op /\ (IsJump(new) <=> IsJump(ins))
  BY EmittedShape
<1>2. Longer(s.code, s.offset, new, t.code)
  BY DEF EmittedBy
<1> HIDE DEF new
<1>3. ASSUME NEW k \in 1 .. Len(t.jumps)
      PROVE  /\ t.jumps[k].target_pc \in Places(cs.prog)
             /\ \E l \in DOMAIN t.code :
                  IsJump(t.code[l]) /\ t.jumps[k].offset_loc = JumpAt(cs.arch, l, t.code[l].len)
  <2>1. CASE k \in 1 .. Len(s.jumps)
    <3>1. t.jumps[k] = s.jumps[k]
      BY <2>1 DEF EmittedBy, IsState
    <3>2. PICK l \in DOMAIN s.code :
            IsJump(s.code[l]) /\ s.jumps[k].offset_loc = JumpAt(cs.arch, l, s.code[l].len)
      BY <2>1 DEF TablesOk
    <3>3. l \in DOMAIN t.code /\ t.code[l] = s.code[l]
      BY <1>2 DEF Longer
    <3>4. s.jumps[k].target_pc \in Places(cs.prog)
      BY <2>1 DEF TablesOk
    <3> QED
      BY <3>1, <3>2, <3>3, <3>4
  <2>2. CASE k \notin 1 .. Len(s.jumps)
    <3>1. /\ IsNoted(s, ins) /\ k = Len(s.jumps) + 1
          /\ t.jumps = Append(s.jumps, [offset_loc |-> JumpAt(cs.arch, s.offset, len), target_pc |-> ins.to])
      BY <2>2 DEF EmittedBy, IsState
    <3>2. t.jumps[k] = [offset_loc |-> JumpAt(cs.arch, s.offset, len), target_pc |-> ins.to]
      BY <3>1 DEF IsState
    <3>3. t.jumps[k].offset_loc = JumpAt(cs.arch, s.offset, len) /\ t.jumps[k].target_pc = ins.to
      BY <3>2
    <3>4. s.offset \in DOMAIN t.code /\ t.code[s.offset] = new
      BY <1>2 DEF Longer
    <3>5. IsJump(ins) /\ ins.to \in Places(cs.prog)
      BY <3>1 DEF IsNoted, Fit
    <3> QED
      BY <1>1, <3>3, <3>4, <3>5
  <2> QED
    BY <2>1, <2>2
<1>4. ASSUME NEW k \in 1 .. Len(t.strings)
      PROVE  \E l \in DOMAIN t.code :
               t.code[l].op = "adr" /\ t.strings[k].offset_loc = StringAt(cs.arch, l, t.code[l].len)
  <2>1. CASE k \in 1 .. Len(s.strings)
    <3>1. t.strings[k] = s.strings[k]
      BY <2>1 DEF EmittedBy, IsState
    <3>2. PICK l \in DOMAIN s.code :
            s.code[l].op = "adr" /\ s.strings[k].offset_loc = StringAt(cs.arch, l, s.code[l].len)
      BY <2>1 DEF TablesOk
    <3>3. l \in DOMAIN t.code /\ t.code[l] = s.code[l]
      BY <1>2 DEF Longer
    <3> QED
      BY <3>1, <3>2, <3>3
  <2>2. CASE k \notin 1 .. Len(s.strings)
    <3>1. /\ ins.op = "adr" /\ k = Len(s.strings) + 1
          /\ t.strings = Append(s.strings, [offset_loc |-> StringAt(cs.arch, s.offset, len), string_id |-> ins.to])
      BY <2>2 DEF EmittedBy, IsState
    <3>2. t.strings[k] = [offset_loc |-> StringAt(cs.arch, s.offset, len), string_id |-> ins.to]
      BY <3>1 DEF IsState
    <3>3. t.strings[k].offset_loc = StringAt(cs.arch, s.offset, len)
      BY <3>2
    <3>4. s.offset \in DOMAIN t.code /\ t.code[s.offset] = new
      BY <1>2 DEF Longer
    <3> QED
      BY <1>1, <3>1, <3>3, <3>4
  <2> QED
    BY <2>1, <2>2
<1> QED
  BY <1>3, <1>4 DEF TablesOk

LEMMA Appended ==
  ASSUME NEW Any, NEW q \in Seq(Any), NEW x
  PROVE  /\ Len(Append(q, x)) = Len(q) + 1
         /\ \A k \in 1 .. Len(q) : k \in 1 .. Len(Append(q, x)) /\ Append(q, x)[k] = q[k]
OBVIOUS

LEMMA EmittedCovered ==
  ASSUME NEW cs, NEW s, NEW ins, NEW t, IsState(s), Covered(cs, s),
         EmittedBy(cs.arch, s, ins, t), Fit(cs.arch, Places(cs.prog), ins)
  PROVE  Covered(cs, t)
<1> DEFINE len == LenOf(cs.arch, s, ins)
           new == [ins EXCEPT !.len = len]
<1>1. new.len = len /\ new.op = ins.op /\ new.to = ins.to /\ (IsJump(new) <=> IsJump(ins))
  BY EmittedShape
<1>2. Longer(s.code, s.offset, new, t.code)
  BY DEF EmittedBy
<1> HIDE DEF new
<1> SUFFICES ASSUME Len(t.jumps) < MaxInsts, NEW l \in DOMAIN t.code, t.code[l].to # Nothing
             PROVE  \/ /\ IsJump(t.code[l])
                       /\ \E k \in 1 .. Len(t.jumps) :
                            t.jumps[k].offset_loc = JumpAt(cs.arch, l, t.code[l].len)
                    \/ /\ t.code[l].op = "adr"
                       /\ \E k \in 1 .. Len(t.strings) :
                            t.strings[k].offset_loc = StringAt(cs.arch, l, t.code[l].len)
  BY DEF Covered
<1>3. /\ Len(s.jumps) < MaxInsts
      /\ \A k \in 1 .. Len(s.jumps) : k \in 1 .. Len(t.jumps) /\ t.jumps[k] = s.jumps[k]
      /\ \A k \in 1 .. Len(s.strings) : k \in 1 .. Len(t.strings) /\ t.strings[k] = s.strings[k]
  <2> DEFINE x == [offset_loc |-> JumpAt(cs.arch, s.offset, len), target_pc |-> ins.to]
             y == [offset_loc |-> StringAt(cs.arch, s.offset, len), string_id |-> ins.to]
  <2>1. t.jumps = s.jumps \/ t.jumps = Append(s.jumps, x)
    BY DEF EmittedBy
  <2>2. t.strings = s.strings \/ t.strings = Append(s.strings, y)
    BY DEF EmittedBy
  <2> HIDE DEF x, y, len
  <2>3. Len(s.jumps) < MaxInsts
    BY <2>1, LimitsAssumption DEF IsState
  <2>4. \A k \in 1 .. Len(s.jumps) : k \in 1 .. Len(t.jumps) /\ t.jumps[k] = s.jumps[k]
    <3>1. s.jumps \in Seq([offset_loc : Int, target_pc : Int])
      BY DEF IsState
    <3> QED
      BY <2>1, <3>1, Appended
  <2>5. \A k \in 1 .. Len(s.strings) : k \in 1 .. Len(t.strings) /\ t.strings[k] = s.strings[k]
    <3>1. s.strings \in Seq([offset_loc : Int, string_id : Int])
      BY DEF IsState
    <3> QED
      BY <2>2, <3>1, Appended
  <2> QED
    BY <2>3, <2>4, <2>5
<1>4. CASE l \in DOMAIN s.code
  <2>1. t.code[l] = s.code[l]
    BY <1>2, <1>4 DEF Longer
  <2>2. \/ /\ IsJump(s.code[l])
           /\ \E k \in 1 .. Len(s.jumps) : s.jumps[k].offset_loc = JumpAt(cs.arch, l, s.code[l].len)
        \/ /\ s.code[l].op = "adr"
           /\ \E k \in 1 .. Len(s.strings) :
                s.strings[k].offset_loc = StringAt(cs.arch, l, s.code[l].len)
    BY <1>3, <1>4, <2>1 DEF Covered
  <2> QED
    BY <1>3, <2>1, <2>2
<1>5. CASE l = s.offset
  <2>1. t.code[l] = new
    BY <1>2, <1>5 DEF Longer
  <2>2. IsJump(ins) \/ ins.op = "adr"
    BY <1>1, <2>1 DEF Fit
  <2>3. CASE IsJump(ins)
    <3>1. IsNoted(s, ins)
      BY <1>1, <1>3, <2>1, <2>3 DEF IsNoted
    <3>2. t.jumps = Append(s.jumps, [offset_loc |-> JumpAt(cs.arch, l, len), target_pc |-> ins.to])
      BY <1>5, <3>1 DEF EmittedBy
    <3>3. /\ Len(s.jumps) + 1 \in 1 .. Len(t.jumps)
          /\ t.jumps[Len(s.jumps) + 1] = [offset_loc |-> JumpAt(cs.arch, l, len), target_pc |-> ins.to]
      BY <3>2 DEF IsState
    <3>4. t.jumps[Len(s.jumps) + 1].offset_loc = JumpAt(cs.arch, l, len)
      BY <3>3
    <3> QED
      BY <1>1, <2>1, <2>3, <3>3, <3>4
  <2>4. CASE ins.op = "adr"
    <3>2. t.strings = Append(s.strings, [offset_loc |-> StringAt(cs.arch, l, len), string_id |-> ins.to])
      BY <1>5, <2>4 DEF EmittedBy
    <3>3. /\ Len(s.strings) + 1 \in 1 .. Len(t.strings)
          /\ t.strings[Len(s.strings) + 1] = [offset_loc |-> StringAt(cs.arch, l, len), string_id |-> ins.to]
      BY <3>2 DEF IsState
    <3>4. t.strings[Len(s.strings) + 1].offset_loc = StringAt(cs.arch, l, len)
      BY <3>3
    <3> QED
      BY <1>1, <2>1, <2>4, <3>3, <3>4
  <2> QED
    BY <2>2, <2>3, <2>4
<1> QED
  BY <1>2, <1>4, <1>5 DEF Longer

LEMMA EmittedState ==
  ASSUME NEW cs \in Cases, NEW s, NEW ins, NEW t, IsState(s),
         EmittedBy(cs.arch, s, ins, t), Fit(cs.arch, Places(cs.prog), ins),
         ins.op = "adr" => s.strings = <<>>
  PROVE  IsState(t)
<1> DEFINE len == LenOf(cs.arch, s, ins)
<1>1. len \in Nat
  BY EmittedShape
<1> HIDE DEF len
<1>2. t.offset = s.offset + len /\ t.offset \in Nat /\ s.offset \in Nat
  BY <1>1 DEF EmittedBy, IsState, len
<1>3. t.jumps \in Seq([offset_loc : Int, target_pc : Int]) /\ Len(t.jumps) <= MaxInsts
  <2>1. CASE IsNoted(s, ins)
    <3>1. ins.to \in Int
      BY <2>1, HeadsLead DEF IsNoted, Fit
    <3>2. JumpAt(cs.arch, s.offset, len) \in Int
      BY <1>1, <1>2 DEF JumpAt
    <3>3. t.jumps = Append(s.jumps, [offset_loc |-> JumpAt(cs.arch, s.offset, len), target_pc |-> ins.to])
      BY <2>1 DEF EmittedBy, len
    <3>4. [offset_loc |-> JumpAt(cs.arch, s.offset, len), target_pc |-> ins.to] \in [offset_loc : Int, target_pc : Int]
      BY <3>1, <3>2
    <3> QED
      BY <2>1, <3>3, <3>4, LimitsAssumption DEF IsNoted, IsState
  <2>2. CASE ~IsNoted(s, ins)
    BY <2>2 DEF EmittedBy, IsState
  <2> QED
    BY <2>1, <2>2
<1>4. t.strings \in Seq([offset_loc : Int, string_id : Int]) /\ Len(t.strings) <= 1
  <2>1. CASE ins.op = "adr"
    <3>1. ins.to \in Int
      BY <2>1 DEF Fit
    <3>2. StringAt(cs.arch, s.offset, len) \in Int
      BY <1>1, <1>2 DEF StringAt
    <3>3. t.strings = Append(<<>>, [offset_loc |-> StringAt(cs.arch, s.offset, len), string_id |-> ins.to])
      BY <2>1 DEF EmittedBy, len
    <3>4. [offset_loc |-> StringAt(cs.arch, s.offset, len), string_id |-> ins.to] \in [offset_loc : Int, string_id : Int]
      BY <3>1, <3>2
    <3> QED
      BY <3>3, <3>4
  <2>2. CASE ins.op # "adr"
    BY <2>2 DEF EmittedBy, IsState
  <2> QED
    BY <2>1, <2>2
<1> QED
  BY <1>2, <1>3, <1>4 DEF EmittedBy, IsState

LEMMA TailOf ==
  ASSUME NEW q, q \in Seq(Range(q)), q # <<>>
  PROVE  /\ Len(q) \in Nat /\ 1 \in 1 .. Len(q) /\ Head(q) = q[1]
         /\ Tail(q) \in Seq(Range(Tail(q)))
         /\ \A k \in 1 .. Len(Tail(q)) : k + 1 \in 1 .. Len(q) /\ Tail(q)[k] = q[k + 1]
<1> DEFINE A == Range(q)
           r == Tail(q)
<1>0. q \in Seq(A)
  OBVIOUS
<1> HIDE DEF A
<1>1. /\ Len(q) \in Nat /\ 1 \in 1 .. Len(q) /\ Head(q) = q[1]
      /\ r \in Seq(A) /\ Len(r) = Len(q) - 1
      /\ \A k \in 1 .. Len(r) : k + 1 \in 1 .. Len(q) /\ r[k] = q[k + 1]
  BY <1>0
<1> HIDE DEF r
<1>2. r \in [1 .. Len(r) -> A]
  BY <1>1, LenProperties
<1>3. r \in [1 .. Len(r) -> Range(r)]
  BY <1>2 DEF Range
<1>4. r \in Seq(Range(r))
  BY <1>1, <1>3
<1> QED
  BY <1>1, <1>4 DEF r

LEMMA FlowEmits ==
  ASSUME NEW cs, NEW s, NEW t, NEW q, NEW r, NEW ph, NEW new,
         FlowOk(cs, s, q, ph), ph \in {"insts", "handler", "string_table"},
         s.offset \in Nat, Laid(s), Longer(s.code, s.offset, new, t.code),
         new.len \in Nat, t.offset = s.offset + new.len,
         new.op = q[1].op, new.rel = q[1].rel, Fit(cs.arch, Places(cs.prog), q[1]),
         cs.arch = "arm64" => new.len = 4,
         Len(q) \in Nat, Len(q) > 0, Len(r) = Len(q) - 1, r = <<>> <=> Len(r) = 0,
         \A k \in 1 .. Len(r) : k + 1 \in 1 .. Len(q) /\ r[k] = q[k + 1]
  PROVE  FlowOk(cs, t, r, ph)
<1>0. /\ DOMAIN t.code = DOMAIN s.code \cup {s.offset} /\ t.code[s.offset] = new
      /\ \A l \in DOMAIN s.code : t.code[l] = s.code[l]
  BY DEF Longer
<1>1. Skips(r)
  <2> SUFFICES ASSUME NEW k \in 1 .. Len(r), r[k].op = "cbnz" PROVE k + 3 <= Len(r)
    BY DEF Skips
  <2>1. k + 1 \in 1 .. Len(q) /\ q[k + 1].op = "cbnz"
    OBVIOUS
  <2>2. (k + 1) + 3 <= Len(q)
    BY <2>1 DEF FlowOk, Skips
  <2> QED
    BY <2>2
<1>2. ASSUME ph = "string_table"
      PROVE  IF r # <<>> THEN r[Len(r)].op = "jmp" ELSE new.op = "jmp"
  <2>1. q[Len(q)].op = "jmp"
    <3>1. q # <<>>
      OBVIOUS
    <3> QED
      BY <1>2, <3>1 DEF FlowOk
  <2>2. CASE r # <<>>
    <3>1. Len(r) \in 1 .. Len(r) /\ Len(r) + 1 = Len(q)
      BY <2>2
    <3>2. r[Len(r)] = q[Len(q)]
      BY <3>1
    <3> QED
      BY <2>1, <2>2, <3>2
  <2>3. CASE r = <<>>
    <3>1. Len(q) = 1
      BY <2>3
    <3> QED
      BY <2>1, <2>3, <3>1
  <2> QED
    BY <2>2, <2>3
<1>3. 0 \in DOMAIN t.code
  BY <1>0 DEF FlowOk
<1>4. ASSUME NEW l \in DOMAIN t.code
      PROVE  t.code[l].op = "jmp" \/ RunsOn(t, r, ph, l + t.code[l].len)
  <2>1. CASE l = s.offset
    <3>1. l + t.code[l].len = t.offset
      BY <1>0, <2>1
    <3>2. t.code[l].op = new.op
      BY <1>0, <2>1
    <3> QED
      BY <1>2, <3>1, <3>2 DEF RunsOn
  <2>2. CASE l \in DOMAIN s.code
    <3>1. s.code[l].op = "jmp" \/ RunsOn(s, q, ph, l + s.code[l].len)
      BY <2>2 DEF FlowOk
    <3>2. t.code[l] = s.code[l]
      BY <1>0, <2>2
    <3>3. RunsOn(s, q, ph, l + s.code[l].len) => l + s.code[l].len \in DOMAIN t.code
      BY <1>0 DEF RunsOn
    <3> QED
      BY <3>1, <3>2, <3>3 DEF RunsOn
  <2> QED
    BY <1>0, <2>1, <2>2
<1>5. ASSUME NEW l \in DOMAIN t.code, t.code[l].op = "cbnz"
      PROVE  /\ cs.arch = "arm64" /\ t.code[l].rel = 12
             /\ \/ l + 12 \in DOMAIN t.code
                \/ \E j \in 1 .. Len(r) : l + 12 = t.offset + 4 * (j - 1)
  <2>1. CASE l = s.offset
    <3>1. q[1].op = "cbnz" /\ t.code[l] = new
      BY <1>0, <1>5, <2>1
    <3>2. cs.arch = "arm64" /\ new.rel = 12 /\ new.len = 4
      BY <3>1 DEF Fit
    <3>3. 1 + 3 <= Len(q)
      BY <3>1 DEF FlowOk, Skips
    <3>4. 3 \in 1 .. Len(r) /\ l + 12 = t.offset + 4 * (3 - 1)
      BY <2>1, <3>2, <3>3
    <3> QED
      BY <3>1, <3>2, <3>4
  <2>2. CASE l \in DOMAIN s.code
    <3>1. t.code[l] = s.code[l] /\ s.code[l].op = "cbnz" /\ l \in Nat
      BY <1>0, <1>5, <2>2 DEF Laid
    <3>2. /\ cs.arch = "arm64" /\ s.code[l].rel = 12
          /\ \/ l + 12 \in DOMAIN s.code
             \/ \E j \in 1 .. Len(q) : l + 12 = s.offset + 4 * (j - 1)
      BY <2>2, <3>1 DEF FlowOk
    <3>3. ASSUME NEW j \in 1 .. Len(q), l + 12 = s.offset + 4 * (j - 1)
          PROVE  \/ l + 12 \in DOMAIN t.code
                 \/ \E k \in 1 .. Len(r) : l + 12 = t.offset + 4 * (k - 1)
      <4>1. CASE j = 1
        <5>1. l + 12 = s.offset
          BY <3>3, <4>1
        <5> QED
          BY <1>0, <5>1
      <4>2. CASE j > 1
        <5>1. j - 1 \in 1 .. Len(r) /\ l + 12 = t.offset + 4 * ((j - 1) - 1)
          BY <3>2, <3>3, <4>2
        <5> QED
          BY <5>1
      <4> QED
        BY <4>1, <4>2
    <3> QED
      BY <1>0, <3>1, <3>2, <3>3
  <2> QED
    BY <1>0, <2>1, <2>2
<1> QED
  BY <1>1, <1>2, <1>3, <1>4, <1>5 DEF FlowOk

LEMMA EmitKeeps ==
  ASSUME NEW cs \in Cases, NEW s, NEW q, NEW ph, NEW ix, NEW t,
         TranslationOk(cs, s, q, ph, ix), q # <<>>, EmittedBy(cs.arch, s, Head(q), t)
  PROVE  TranslationOk(cs, t, Tail(q), ph, ix)
<1> DEFINE ins == Head(q)
           r == Tail(q)
           len == LenOf(cs.arch, s, ins)
           new == [ins EXCEPT !.len = len]
<1>1. /\ IsState(s) /\ Laid(s) /\ TablesOk(cs, s) /\ Covered(cs, s) /\ QueueOk(cs, s, q, ph)
      /\ LocationsOk(s, q, ph) /\ ProgressOk(cs, s, q, ph, ix) /\ FilledOk(cs, s, ph)
  BY DEF TranslationOk
<1>2. /\ Len(q) \in Nat /\ 1 \in 1 .. Len(q) /\ ins = q[1]
      /\ r \in Seq(Range(r))
      /\ \A k \in 1 .. Len(r) : k + 1 \in 1 .. Len(q) /\ r[k] = q[k + 1]
  BY <1>1, TailOf DEF QueueOk
<1> HIDE DEF r
<1>3. ph \in {"insts", "handler", "string_table"}
  BY <1>1 DEF QueueOk
<1>4. /\ Fit(cs.arch, Places(cs.prog), ins)
      /\ ins.op = "adr" => s.strings = <<>> /\ ph = "string_table"
      /\ ins.op = "adr" => \A k \in 1 .. Len(r) : r[k].op # "adr"
  <2>1. Fit(cs.arch, Places(cs.prog), q[1])
    BY <1>1, <1>2 DEF QueueOk
  <2>2. q[1].op = "adr" => s.strings = <<>> /\ ph = "string_table"
    BY <1>1, <1>2, <1>3 DEF QueueOk
  <2>3. ASSUME q[1].op = "adr", NEW k \in 1 .. Len(r) PROVE r[k].op # "adr"
    <3>1. k + 1 \in 1 .. Len(q) /\ r[k] = q[k + 1] /\ k + 1 # 1
      BY <1>2
    <3> QED
      BY <1>1, <1>2, <2>3, <3>1 DEF QueueOk
  <2> QED
    BY <1>2, <2>1, <2>2, <2>3
<1>5. /\ len \in Nat /\ len > 0 /\ {"op", "len", "to", "rel"} \subseteq DOMAIN new
      /\ new.len = len /\ new.op = ins.op /\ new.to = ins.to /\ (IsJump(new) <=> IsJump(ins))
  BY <1>4, EmittedShape
<1>6. /\ Longer(s.code, s.offset, new, t.code) /\ t.offset = s.offset + len
      /\ t.pc_locs = s.pc_locs /\ t.exit_loc = s.exit_loc /\ t.div_by_zero_loc = s.div_by_zero_loc
      /\ t.strings = s.strings \/ ins.op = "adr"
  BY DEF EmittedBy
<1>7. IsState(t)
  BY <1>1, <1>4, EmittedState
<1>8. TablesOk(cs, t) /\ Covered(cs, t)
  BY <1>1, <1>4, EmittedTables, EmittedCovered
<1> HIDE DEF ins, len, new
<1>9. Laid(t)
  BY <1>1, <1>5, <1>6, LaidAgain
<1>10. QueueOk(cs, t, r, ph)
  <2>1. ASSUME NEW k \in 1 .. Len(r) PROVE Fit(cs.arch, Places(cs.prog), r[k])
    BY <1>1, <1>2 DEF QueueOk
  <2>2. ASSUME NEW j \in 1 .. Len(r), NEW k \in 1 .. Len(r), r[j].op = "adr", r[k].op = "adr"
        PROVE  j = k
    <3>1. j + 1 = k + 1
      BY <1>1, <1>2, <2>2 DEF QueueOk
    <3> QED
      BY <3>1
  <2>3. ASSUME t.strings # <<>>, NEW k \in 1 .. Len(r) PROVE r[k].op # "adr"
    <3>1. CASE ins.op = "adr"
      BY <1>4, <3>1
    <3>2. CASE ins.op # "adr"
      BY <1>1, <1>2, <1>6, <2>3, <3>2 DEF QueueOk
    <3> QED
      BY <3>1, <3>2
  <2>4. ASSUME ph \in {"start", "insts", "handler"}
        PROVE  t.strings = <<>> /\ \A k \in 1 .. Len(r) : r[k].op # "adr"
    <3>1. s.strings = <<>> /\ \A k \in 1 .. Len(q) : q[k].op # "adr"
      BY <1>1, <2>4 DEF QueueOk
    <3> QED
      BY <1>2, <1>6, <3>1
  <2> QED
    BY <1>2, <1>3, <2>1, <2>2, <2>3, <2>4 DEF QueueOk
<1>11. Locations(t) \subseteq DOMAIN t.code
  <2>1. Locations(t) = Locations(s)
    BY <1>6 DEF Locations
  <2>2. Locations(s) \subseteq DOMAIN s.code \cup {s.offset}
    BY <1>1 DEF LocationsOk
  <2> QED
    BY <1>6, <2>1, <2>2 DEF Longer
<1>12. LocationsOk(t, r, ph)
  BY <1>11 DEF LocationsOk
<1>15. FlowOk(cs, t, r, ph)
  <2>1. FlowOk(cs, s, q, ph) /\ s.offset \in Nat
    BY <1>1 DEF TranslationOk, IsState
  <2>2. new.op = q[1].op /\ new.rel = q[1].rel /\ (cs.arch = "arm64" => new.len = 4)
    BY <1>2, <1>4, <1>5 DEF new, len, LenOf, Fit
  <2>3. Len(q) > 0 /\ Len(r) = Len(q) - 1 /\ (r = <<>> <=> Len(r) = 0)
    <3>1. q \in Seq(Range(q))
      BY <1>1 DEF QueueOk
    <3>2. Len(r) = Len(q) - 1
      BY <3>1 DEF r
    <3>3. r \in Seq(Range(r))
      BY <1>2
    <3> HIDE DEF r
    <3> QED
      BY <1>2, <3>2, <3>3, EmptySeq
  <2>4. Fit(cs.arch, Places(cs.prog), q[1])
    BY <1>2, <1>4
  <2> HIDE DEF r
  <2> QED
    BY <1>1, <1>2, <1>3, <1>5, <1>6, <2>1, <2>2, <2>3, <2>4, FlowEmits
<1>13. ProgressOk(cs, t, r, ph, ix)
  <2>1. t.offset > 0
    BY <1>1, <1>5, <1>6 DEF IsState
  <2> QED
    BY <1>1, <1>3, <1>6, <2>1 DEF ProgressOk
<1>14. FilledOk(cs, t, ph)
  <2>1. ASSUME NEW l \in DOMAIN t.code, IsJump(t.code[l]) PROVE t.code[l].to # Nothing
    <3>1. CASE l \in DOMAIN s.code
      BY <1>1, <1>3, <1>6, <2>1, <3>1 DEF FilledOk, Longer
    <3>2. CASE l = s.offset
      <4>1. t.code[l] = new
        BY <1>6, <3>2 DEF Longer
      <4>2. ins.to \in Places(cs.prog) /\ Nothing \notin Places(cs.prog)
        BY <1>4, <1>5, <2>1, <4>1, HeadsLead DEF Fit
      <4> QED
        BY <1>5, <4>1, <4>2
    <3> QED
      BY <1>6, <3>1, <3>2 DEF Longer
  <2> QED
    BY <1>3, <2>1 DEF FilledOk
<1> QED
  BY <1>3, <1>7, <1>8, <1>9, <1>10, <1>12, <1>13, <1>14, <1>15 DEF TranslationOk, Phases, r

-----------------------------------------------------------------------------
(* Filling in the distances. *)

(* Only one instruction notes a jump, or a string, at a given place. *)
LEMMA OnePlace ==
  ASSUME NEW s, Laid(s)
  PROVE  \A arch : \A k, l \in DOMAIN s.code :
           k # l => /\ JumpAt(arch, k, s.code[k].len) # JumpAt(arch, l, s.code[l].len)
                    /\ StringAt(arch, k, s.code[k].len) # StringAt(arch, l, s.code[l].len)
<1> SUFFICES ASSUME NEW arch, NEW k \in DOMAIN s.code, NEW l \in DOMAIN s.code, k # l
             PROVE  /\ JumpAt(arch, k, s.code[k].len) # JumpAt(arch, l, s.code[l].len)
                    /\ StringAt(arch, k, s.code[k].len) # StringAt(arch, l, s.code[l].len)
  OBVIOUS
<1>1. /\ k \in Nat /\ l \in Nat /\ s.code[k].len \in Nat /\ s.code[l].len \in Nat
      /\ s.code[k].len > 0 /\ s.code[l].len > 0
      /\ k < l => k + s.code[k].len <= l
      /\ l < k => l + s.code[l].len <= k
  BY DEF Laid
<1>2. k + s.code[k].len # l + s.code[l].len
  BY <1>1
<1> QED
  BY <1>1, <1>2 DEF JumpAt, StringAt

PatchedAt(code, start, rel) == [code EXCEPT ![start].rel = rel, ![start].to = Nothing]

LEMMA PatchedCode ==
  ASSUME NEW code, NEW start \in DOMAIN code, {"op", "len", "to", "rel"} \subseteq DOMAIN code[start],
         NEW rel, NEW p, p = PatchedAt(code, start, rel)
  PROVE  /\ DOMAIN p = DOMAIN code
         /\ p[start].rel = rel /\ p[start].to = Nothing
         /\ p[start].op = code[start].op /\ p[start].len = code[start].len
         /\ DOMAIN p[start] = DOMAIN code[start]
         /\ \A l \in DOMAIN code : l # start => p[l] = code[l]
BY DEF PatchedAt

(* What filling in one distance does to state s. *)
FilledBy(s, start, rel, t) ==
  /\ start \in DOMAIN s.code
  /\ DOMAIN t = DOMAIN s
  /\ t.offset = s.offset
  /\ t.code = PatchedAt(s.code, start, rel)
  /\ t.pc_locs = s.pc_locs
  /\ t.exit_loc = s.exit_loc /\ t.div_by_zero_loc = s.div_by_zero_loc

LEMMA FilledCode ==
  ASSUME NEW s, NEW t, NEW start, NEW rel, Laid(s), FilledBy(s, start, rel, t)
  PROVE  /\ DOMAIN t.code = DOMAIN s.code /\ Laid(t)
         /\ t.code[start].rel = rel /\ t.code[start].to = Nothing
         /\ \A l \in DOMAIN s.code :
              /\ t.code[l].op = s.code[l].op /\ t.code[l].len = s.code[l].len
              /\ l # start => t.code[l].to = s.code[l].to /\ t.code[l].rel = s.code[l].rel
<1>1. start \in DOMAIN s.code /\ {"op", "len", "to", "rel"} \subseteq DOMAIN s.code[start]
      /\ t.code = PatchedAt(s.code, start, rel) /\ t.offset = s.offset
  BY DEF FilledBy, Laid
<1>2. /\ DOMAIN t.code = DOMAIN s.code
      /\ t.code[start].rel = rel /\ t.code[start].to = Nothing
      /\ t.code[start].op = s.code[start].op /\ t.code[start].len = s.code[start].len
      /\ DOMAIN t.code[start] = DOMAIN s.code[start]
      /\ \A l \in DOMAIN s.code : l # start => t.code[l] = s.code[l]
  BY <1>1, PatchedCode
<1>3. \A l \in DOMAIN s.code :
        /\ t.code[l].op = s.code[l].op /\ t.code[l].len = s.code[l].len
        /\ DOMAIN t.code[l] = DOMAIN s.code[l]
        /\ l # start => t.code[l].to = s.code[l].to /\ t.code[l].rel = s.code[l].rel
  BY <1>2
<1>4. Laid(t)
  BY <1>1, <1>2, <1>3 DEF Laid
<1> QED
  BY <1>2, <1>3, <1>4

TargetOf(s, target_pc) ==
  IF target_pc = TARGET_PC_EXIT THEN s.exit_loc
  ELSE IF target_pc = TARGET_PC_DIV_BY_ZERO THEN s.div_by_zero_loc
  ELSE s.pc_locs[target_pc]

LEMMA TargetsEnter ==
  ASSUME NEW cs \in Cases, NEW s, NEW q, NEW ix, TranslationOk(cs, s, q, "jumps", ix),
         NEW target_pc \in Places(cs.prog)
  PROVE  EntersAt(cs, s, TargetOf(s, target_pc)) /\ TargetOf(s, target_pc) \in Nat
<1>0. /\ s.pc_locs \in [0 .. MaxInsts -> Nat] /\ s.exit_loc \in Nat /\ s.div_by_zero_loc \in Nat
      /\ Locations(s) \subseteq DOMAIN s.code
      /\ ix \in Nat /\ ix >= Len(cs.prog)
      /\ \A h \in HeadsOf(cs.prog) : h < ix => s.pc_locs[h] >= s.pc_locs[0]
      /\ s.exit_loc >= s.pc_locs[0] /\ s.div_by_zero_loc >= s.pc_locs[0]
  BY DEF TranslationOk, IsState, LocationsOk, ProgressOk
<1>1. CASE target_pc = TARGET_PC_EXIT
  BY <1>0, <1>1 DEF TargetOf, EntersAt, Locations
<1>2. CASE target_pc # TARGET_PC_EXIT /\ target_pc = TARGET_PC_DIV_BY_ZERO
  BY <1>0, <1>2 DEF TargetOf, EntersAt, Locations
<1>3. CASE target_pc # TARGET_PC_EXIT /\ target_pc # TARGET_PC_DIV_BY_ZERO
  <2>1. /\ target_pc \in HeadsOf(cs.prog) /\ Len(cs.prog) \in Nat /\ Len(cs.prog) < MaxInsts
        /\ HeadsOf(cs.prog) \subseteq 0 .. Len(cs.prog) - 1
    BY <1>3, HeadsLead DEF Places
  <2>2. target_pc \in 0 .. MaxInsts /\ target_pc < ix
    BY <1>0, <2>1, LimitsAssumption
  <2>3. TargetOf(s, target_pc) = s.pc_locs[target_pc]
    BY <1>3 DEF TargetOf
  <2>4. s.pc_locs[target_pc] \in Locations(s) /\ s.pc_locs[target_pc] \in Nat
    BY <1>0, <2>2 DEF Locations, Range
  <2> QED
    BY <1>0, <2>1, <2>2, <2>3, <2>4 DEF EntersAt
<1> QED
  BY <1>1, <1>2, <1>3

LEMMA EntersStays ==
  ASSUME NEW cs, NEW s, NEW t, NEW loc, DOMAIN t.code = DOMAIN s.code, t.pc_locs = s.pc_locs,
         t.exit_loc = s.exit_loc, t.div_by_zero_loc = s.div_by_zero_loc, EntersAt(cs, s, loc)
  PROVE  EntersAt(cs, t, loc)
BY DEF EntersAt

(* The entries left still cover what is still to be filled in. *)
LEMMA FilledCovered ==
  ASSUME NEW cs, NEW s, NEW t, NEW start, NEW rel, Laid(s), FilledBy(s, start, rel, t), Covered(cs, s),
         Len(s.jumps) < MaxInsts,
         \A k \in 1 .. Len(s.jumps) :
           \/ s.jumps[k].offset_loc = JumpAt(cs.arch, start, s.code[start].len)
           \/ \E j \in 1 .. Len(t.jumps) : t.jumps[j] = s.jumps[k],
         \A k \in 1 .. Len(s.strings) :
           \/ s.strings[k].offset_loc = StringAt(cs.arch, start, s.code[start].len)
           \/ \E j \in 1 .. Len(t.strings) : t.strings[j] = s.strings[k]
  PROVE  Covered(cs, t)
<1>0. \A k, l \in DOMAIN s.code :
        k # l => /\ JumpAt(cs.arch, k, s.code[k].len) # JumpAt(cs.arch, l, s.code[l].len)
                 /\ StringAt(cs.arch, k, s.code[k].len) # StringAt(cs.arch, l, s.code[l].len)
  BY OnePlace, Zenon
<1>1. /\ DOMAIN t.code = DOMAIN s.code /\ t.code[start].to = Nothing /\ start \in DOMAIN s.code
      /\ \A l \in DOMAIN s.code :
           /\ t.code[l].op = s.code[l].op /\ t.code[l].len = s.code[l].len
           /\ l # start => t.code[l].to = s.code[l].to
  <2>1. start \in DOMAIN s.code
    BY DEF FilledBy
  <2> QED
    BY <2>1, FilledCode
<1>2. ASSUME NEW l \in DOMAIN t.code, t.code[l].to # Nothing
      PROVE  \/ /\ IsJump(t.code[l])
                /\ \E k \in 1 .. Len(t.jumps) :
                     t.jumps[k].offset_loc = JumpAt(cs.arch, l, t.code[l].len)
             \/ /\ t.code[l].op = "adr"
                /\ \E k \in 1 .. Len(t.strings) :
                     t.strings[k].offset_loc = StringAt(cs.arch, l, t.code[l].len)
  <2>1. l # start /\ l \in DOMAIN s.code /\ s.code[l].to # Nothing
    BY <1>1, <1>2
  <2>2. t.code[l].op = s.code[l].op /\ t.code[l].len = s.code[l].len
    BY <1>1, <2>1
  <2>3. CASE IsJump(s.code[l])
               /\ \E k \in 1 .. Len(s.jumps) : s.jumps[k].offset_loc = JumpAt(cs.arch, l, s.code[l].len)
    <3>1. PICK k \in 1 .. Len(s.jumps) : s.jumps[k].offset_loc = JumpAt(cs.arch, l, s.code[l].len)
      BY <2>3
    <3>2. s.jumps[k].offset_loc # JumpAt(cs.arch, start, s.code[start].len)
      <4>1. JumpAt(cs.arch, l, s.code[l].len) # JumpAt(cs.arch, start, s.code[start].len)
        BY <1>0, <1>1, <2>1, Zenon
      <4> QED
        BY <3>1, <4>1
    <3>3. PICK j \in 1 .. Len(t.jumps) : t.jumps[j] = s.jumps[k]
      BY <3>2
    <3> QED
      BY <2>2, <2>3, <3>1, <3>3 DEF IsJump
  <2>4. CASE s.code[l].op = "adr"
               /\ \E k \in 1 .. Len(s.strings) : s.strings[k].offset_loc = StringAt(cs.arch, l, s.code[l].len)
    <3>1. PICK k \in 1 .. Len(s.strings) : s.strings[k].offset_loc = StringAt(cs.arch, l, s.code[l].len)
      BY <2>4
    <3>2. s.strings[k].offset_loc # StringAt(cs.arch, start, s.code[start].len)
      <4>1. StringAt(cs.arch, l, s.code[l].len) # StringAt(cs.arch, start, s.code[start].len)
        BY <1>0, <1>1, <2>1, Zenon
      <4> QED
        BY <3>1, <4>1
    <3>3. PICK j \in 1 .. Len(t.strings) : t.strings[j] = s.strings[k]
      BY <3>2
    <3> QED
      BY <2>2, <2>4, <3>1, <3>3
  <2> QED
    BY <2>1, <2>3, <2>4 DEF Covered
<1> QED
  BY <1>2 DEF Covered

(* Tables that lost an entry still lead where they led. *)
LEMMA FilledTables ==
  ASSUME NEW cs, NEW s, NEW t, NEW start, NEW rel, Laid(s), FilledBy(s, start, rel, t), TablesOk(cs, s),
         \A j \in 1 .. Len(t.jumps) : \E k \in 1 .. Len(s.jumps) : t.jumps[j] = s.jumps[k],
         \A j \in 1 .. Len(t.strings) : \E k \in 1 .. Len(s.strings) : t.strings[j] = s.strings[k]
  PROVE  TablesOk(cs, t)
<1>1. /\ DOMAIN t.code = DOMAIN s.code
      /\ \A l \in DOMAIN s.code :
           /\ t.code[l].op = s.code[l].op /\ t.code[l].len = s.code[l].len
           /\ IsJump(t.code[l]) <=> IsJump(s.code[l])
  BY FilledCode DEF IsJump
<1>2. ASSUME NEW j \in 1 .. Len(t.jumps)
      PROVE  /\ t.jumps[j].target_pc \in Places(cs.prog)
             /\ \E l \in DOMAIN t.code :
                  IsJump(t.code[l]) /\ t.jumps[j].offset_loc = JumpAt(cs.arch, l, t.code[l].len)
  <2>1. PICK k \in 1 .. Len(s.jumps) : t.jumps[j] = s.jumps[k]
    OBVIOUS
  <2>2. PICK l \in DOMAIN s.code :
          IsJump(s.code[l]) /\ s.jumps[k].offset_loc = JumpAt(cs.arch, l, s.code[l].len)
    BY DEF TablesOk
  <2>3. s.jumps[k].target_pc \in Places(cs.prog)
    BY DEF TablesOk
  <2>4. l \in DOMAIN t.code /\ IsJump(t.code[l]) /\ t.code[l].len = s.code[l].len
    BY <1>1, <2>2
  <2> QED
    BY <2>1, <2>2, <2>3, <2>4
<1>3. ASSUME NEW j \in 1 .. Len(t.strings)
      PROVE  \E l \in DOMAIN t.code :
               t.code[l].op = "adr" /\ t.strings[j].offset_loc = StringAt(cs.arch, l, t.code[l].len)
  <2>1. PICK k \in 1 .. Len(s.strings) : t.strings[j] = s.strings[k]
    OBVIOUS
  <2>2. PICK l \in DOMAIN s.code :
          s.code[l].op = "adr" /\ s.strings[k].offset_loc = StringAt(cs.arch, l, s.code[l].len)
    BY DEF TablesOk
  <2>3. l \in DOMAIN t.code /\ t.code[l].op = "adr" /\ t.code[l].len = s.code[l].len
    BY <1>1, <2>2
  <2> QED
    BY <2>1, <2>2, <2>3
<1> QED
  BY <1>2, <1>3 DEF TablesOk

(* Filling in a distance leads no instruction elsewhere, a cbnz least of all. *)
LEMMA FlowFilled ==
  ASSUME NEW cs, NEW s, NEW t, NEW q, NEW start, NEW rel, FlowOk(cs, s, q, "jumps"), Laid(s),
         FilledBy(s, start, rel, t), s.code[start].op # "cbnz", NEW ph \in {"jumps", "accepted"}
  PROVE  FlowOk(cs, t, q, ph)
<1>1. /\ DOMAIN t.code = DOMAIN s.code
      /\ \A l \in DOMAIN s.code :
           /\ t.code[l].op = s.code[l].op /\ t.code[l].len = s.code[l].len
           /\ l # start => t.code[l].rel = s.code[l].rel
  BY FilledCode
<1>2. t.offset = s.offset
  BY DEF FilledBy
<1>3. \A l \in DOMAIN s.code : s.code[l].op = "cbnz" => l # start
  OBVIOUS
<1> QED
  BY <1>1, <1>2, <1>3 DEF FlowOk, RunsOn

LEMMA JumpFilled ==
  ASSUME NEW cs \in Cases, NEW s, NEW q, NEW ix, NEW t, NEW start, NEW rel,
         TranslationOk(cs, s, q, "jumps", ix), s.jumps # <<>>,
         start \in DOMAIN s.code,
         JumpAt(cs.arch, start, s.code[start].len) = Head(s.jumps).offset_loc,
         BaseAt(cs.arch, start, s.code[start].len) + rel = TargetOf(s, Head(s.jumps).target_pc),
         FilledBy(s, start, rel, t), t.jumps = Tail(s.jumps), t.strings = s.strings
  PROVE  TranslationOk(cs, t, q, "jumps", ix)
<1>1. /\ IsState(s) /\ Laid(s) /\ TablesOk(cs, s) /\ Covered(cs, s) /\ QueueOk(cs, s, q, "jumps")
      /\ LocationsOk(s, q, "jumps") /\ ProgressOk(cs, s, q, "jumps", ix) /\ FilledOk(cs, s, "jumps")
  BY DEF TranslationOk
<1>2. /\ 1 \in 1 .. Len(s.jumps) /\ Head(s.jumps) = s.jumps[1]
      /\ t.jumps \in Seq([offset_loc : Int, target_pc : Int]) /\ Len(t.jumps) < Len(s.jumps)
      /\ Len(s.jumps) < MaxInsts
      /\ \A k \in 1 .. Len(s.jumps) : k = 1 \/ \E j \in 1 .. Len(t.jumps) : t.jumps[j] = s.jumps[k]
      /\ \A j \in 1 .. Len(t.jumps) : \E k \in 1 .. Len(s.jumps) : t.jumps[j] = s.jumps[k]
  <2> DEFINE jumps == s.jumps
  <2>1. jumps \in Seq([offset_loc : Int, target_pc : Int]) /\ jumps # <<>> /\ Len(jumps) < MaxInsts
    BY <1>1 DEF IsState, FilledOk
  <2> HIDE DEF jumps
  <2>2. /\ Len(jumps) \in Nat /\ Head(jumps) = jumps[1] /\ 1 \in 1 .. Len(jumps)
        /\ Tail(jumps) \in Seq([offset_loc : Int, target_pc : Int])
        /\ Len(Tail(jumps)) = Len(jumps) - 1
        /\ \A j \in 1 .. Len(Tail(jumps)) : j + 1 \in 1 .. Len(jumps) /\ Tail(jumps)[j] = jumps[j + 1]
    BY <2>1
  <2>3. ASSUME NEW k \in 1 .. Len(jumps), k # 1
        PROVE  \E j \in 1 .. Len(Tail(jumps)) : Tail(jumps)[j] = jumps[k]
    <3>1. k - 1 \in 1 .. Len(Tail(jumps)) /\ (k - 1) + 1 = k
      BY <2>2, <2>3
    <3>2. Tail(jumps)[k - 1] = jumps[(k - 1) + 1]
      BY <2>2, <3>1
    <3> QED
      BY <3>1, <3>2
  <2>4. \A j \in 1 .. Len(Tail(jumps)) : \E k \in 1 .. Len(jumps) : Tail(jumps)[j] = jumps[k]
    BY <2>2
  <2>5. t.jumps = Tail(jumps)
    BY DEF jumps
  <2> QED
    BY <2>1, <2>2, <2>3, <2>4, <2>5 DEF jumps
<1>3. /\ DOMAIN t.code = DOMAIN s.code /\ Laid(t) /\ t.code[start].rel = rel
      /\ \A l \in DOMAIN s.code :
           /\ t.code[l].op = s.code[l].op /\ t.code[l].len = s.code[l].len
           /\ l # start => t.code[l].to = s.code[l].to /\ t.code[l].rel = s.code[l].rel
  BY <1>1, FilledCode
<1>4. /\ DOMAIN t = DOMAIN s /\ t.offset = s.offset /\ t.pc_locs = s.pc_locs
      /\ t.exit_loc = s.exit_loc /\ t.div_by_zero_loc = s.div_by_zero_loc
  BY DEF FilledBy
<1>5. Covered(cs, t)
  BY <1>1, <1>2, FilledCovered
<1>6. TablesOk(cs, t)
  BY <1>1, <1>2, FilledTables
<1>7. IsState(t)
  <2>1. Len(t.jumps) <= MaxInsts
    BY <1>1, <1>2, LimitsAssumption DEF IsState
  <2> QED
    BY <1>1, <1>2, <1>4, <2>1 DEF IsState
<1>8. QueueOk(cs, t, q, "jumps")
  BY <1>1 DEF QueueOk
<1>9. LocationsOk(t, q, "jumps") /\ ProgressOk(cs, t, q, "jumps", ix)
  BY <1>1, <1>3, <1>4 DEF LocationsOk, Locations, ProgressOk
<1>10. ASSUME NEW l \in DOMAIN t.code, IsJump(t.code[l]), t.code[l].to = Nothing
       PROVE  EntersAt(cs, t, BaseAt(cs.arch, l, t.code[l].len) + t.code[l].rel)
  <2>1. CASE l = start
    <3>1. s.jumps[1].target_pc \in Places(cs.prog)
      BY <1>1, <1>2 DEF TablesOk
    <3>2. EntersAt(cs, s, TargetOf(s, Head(s.jumps).target_pc))
      BY <1>2, <3>1, TargetsEnter
    <3>3. BaseAt(cs.arch, l, t.code[l].len) + t.code[l].rel = TargetOf(s, Head(s.jumps).target_pc)
      BY <1>3, <2>1
    <3> QED
      BY <1>3, <1>4, <3>2, <3>3, EntersStays
  <2>2. CASE l # start
    <3>1. /\ l \in DOMAIN s.code /\ IsJump(s.code[l]) /\ s.code[l].to = Nothing
          /\ t.code[l].len = s.code[l].len /\ t.code[l].rel = s.code[l].rel
      BY <1>3, <1>10, <2>2 DEF IsJump
    <3>2. EntersAt(cs, s, BaseAt(cs.arch, l, s.code[l].len) + s.code[l].rel)
      BY <1>1, <3>1 DEF FilledOk
    <3> QED
      BY <1>3, <1>4, <3>1, <3>2, EntersStays
  <2> QED
    BY <2>1, <2>2
<1>11. FilledOk(cs, t, "jumps")
  <2>1. Len(t.jumps) < MaxInsts
    BY <1>1, <1>2, LimitsAssumption DEF IsState
  <2> QED
    BY <1>10, <2>1 DEF FilledOk
<1>12. FlowOk(cs, t, q, "jumps")
  <2>1. PICK l \in DOMAIN s.code :
          IsJump(s.code[l]) /\ s.jumps[1].offset_loc = JumpAt(cs.arch, l, s.code[l].len)
    BY <1>1, <1>2 DEF TablesOk
  <2>2. l = start
    <3>1. JumpAt(cs.arch, l, s.code[l].len) = JumpAt(cs.arch, start, s.code[start].len)
      BY <1>2, <2>1
    <3> QED
      BY <1>1, <3>1, OnePlace, Zenon
  <2>3. s.code[start].op # "cbnz"
    BY <2>1, <2>2 DEF IsJump
  <2>4. FlowOk(cs, s, q, "jumps")
    BY DEF TranslationOk
  <2> QED
    BY <1>1, <2>3, <2>4, FlowFilled
<1> QED
  BY <1>3, <1>5, <1>6, <1>7, <1>8, <1>9, <1>11, <1>12 DEF TranslationOk, Phases

LEMMA OneEntry ==
  ASSUME NEW Any, NEW r \in Seq(Any), r # <<>>, Len(r) <= 1
  PROVE  Len(r) = 1 /\ Head(r) = r[1] /\ Tail(r) = <<>>
<1>1. Len(r) = 1
  <2>1. Len(r) \in Nat /\ Len(r) # 0
    BY EmptySeq, LenProperties, Zenon
  <2>2. \A n \in Nat : n # 0 /\ n <= 1 => n = 1
    OBVIOUS
  <2> QED
    BY <2>1, <2>2, Zenon
<1>2. Head(r) = r[1] /\ Tail(r) \in Seq(Any) /\ Len(Tail(r)) = 0
  BY <1>1
<1> QED
  BY <1>1, <1>2, EmptySeq

LEMMA StringFilled ==
  ASSUME NEW cs \in Cases, NEW s, NEW q, NEW ix, NEW t, NEW start, NEW rel,
         TranslationOk(cs, s, q, "jumps", ix), s.jumps = <<>>, s.strings # <<>>,
         start \in DOMAIN s.code, s.code[start].op = "adr",
         StringAt(cs.arch, start, s.code[start].len) = Head(s.strings).offset_loc,
         FilledBy(s, start, rel, t), t.jumps = s.jumps, t.strings = Tail(s.strings)
  PROVE  TranslationOk(cs, t, q, "accepted", ix)
<1>1. /\ IsState(s) /\ Laid(s) /\ TablesOk(cs, s) /\ Covered(cs, s) /\ QueueOk(cs, s, q, "jumps")
      /\ LocationsOk(s, q, "jumps") /\ ProgressOk(cs, s, q, "jumps", ix) /\ FilledOk(cs, s, "jumps")
  BY DEF TranslationOk
<1>2. /\ Len(s.strings) = 1 /\ Head(s.strings) = s.strings[1] /\ t.strings = <<>>
      /\ Len(t.strings) = 0 /\ Len(t.jumps) = 0 /\ Len(s.jumps) = 0
  <2>1. s.strings \in Seq([offset_loc : Int, string_id : Int]) /\ Len(s.strings) <= 1
    BY <1>1 DEF IsState
  <2>2. Len(<<>>) = 0
    OBVIOUS
  <2> QED
    BY <2>1, <2>2, OneEntry
<1>3. /\ DOMAIN t.code = DOMAIN s.code /\ Laid(t)
      /\ \A l \in DOMAIN s.code :
           /\ t.code[l].op = s.code[l].op /\ t.code[l].len = s.code[l].len
           /\ l # start => t.code[l].to = s.code[l].to /\ t.code[l].rel = s.code[l].rel
  BY <1>1, FilledCode
<1>4. /\ DOMAIN t = DOMAIN s /\ t.offset = s.offset /\ t.pc_locs = s.pc_locs
      /\ t.exit_loc = s.exit_loc /\ t.div_by_zero_loc = s.div_by_zero_loc
  BY DEF FilledBy
<1>5. Covered(cs, t)
  <2>1. Len(s.jumps) < MaxInsts
    BY <1>1 DEF FilledOk
  <2>2. \A k \in 1 .. Len(s.strings) :
          s.strings[k].offset_loc = StringAt(cs.arch, start, s.code[start].len)
    BY <1>2
  <2>3. \A k \in 1 .. Len(s.jumps) : FALSE
    BY <1>2
  <2> QED
    BY <1>1, <2>1, <2>2, <2>3, FilledCovered
<1>6. TablesOk(cs, t)
  <2>1. \A j \in 1 .. Len(t.jumps) : FALSE
    BY <1>2
  <2>2. \A j \in 1 .. Len(t.strings) : FALSE
    <3>1. Len(t.strings) = 0
      BY <1>2
    <3>2. 1 .. 0 = {}
      OBVIOUS
    <3> QED
      BY <3>1, <3>2, Zenon
  <2> QED
    BY <2>1, <2>2 DEF TablesOk
<1>7. IsState(t)
  BY <1>1, <1>2, <1>4, LimitsAssumption DEF IsState
<1>8. QueueOk(cs, t, q, "accepted")
  BY <1>1, <1>2 DEF QueueOk
<1>9. LocationsOk(t, q, "accepted") /\ ProgressOk(cs, t, q, "accepted", ix)
  BY <1>1, <1>3, <1>4 DEF LocationsOk, Locations, ProgressOk
<1>10. ASSUME NEW l \in DOMAIN t.code, IsJump(t.code[l]), t.code[l].to = Nothing
       PROVE  EntersAt(cs, t, BaseAt(cs.arch, l, t.code[l].len) + t.code[l].rel)
  <2>1. l \in DOMAIN s.code /\ IsJump(s.code[l]) /\ l # start
    BY <1>3, <1>10 DEF IsJump
  <2>2. /\ s.code[l].to = Nothing
        /\ t.code[l].len = s.code[l].len /\ t.code[l].rel = s.code[l].rel
    BY <1>3, <1>10, <2>1
  <2>3. EntersAt(cs, s, BaseAt(cs.arch, l, s.code[l].len) + s.code[l].rel)
    BY <1>1, <2>1, <2>2 DEF FilledOk
  <2> QED
    BY <1>3, <1>4, <2>2, <2>3, EntersStays
<1>11. FilledOk(cs, t, "accepted")
  BY <1>1, <1>2, <1>10 DEF FilledOk
<1>12. FlowOk(cs, t, q, "accepted")
  <2>1. FlowOk(cs, s, q, "jumps")
    BY DEF TranslationOk
  <2> QED
    BY <1>1, <2>1, FlowFilled
<1> QED
  BY <1>3, <1>5, <1>6, <1>7, <1>8, <1>9, <1>11, <1>12 DEF TranslationOk, Phases

-----------------------------------------------------------------------------
(* The invariant. *)

LEMMA ArchIs ==
  ASSUME case \in Cases
  PROVE  case.arch \in {"x86_64", "arm64"} /\ (x86 <=> case.arch = "x86_64") /\ (~x86 <=> case.arch = "arm64")
BY CasesAssumption DEF x86

LEMMA PlacesAre ==
  ASSUME NEW start \in Int, NEW len \in Int
  PROVE  /\ JumpLoc(start, len) = JumpAt(case.arch, start, len)
         /\ StringLoc(start, len) = StringAt(case.arch, start, len)
         /\ Base(start, len) = BaseAt(case.arch, start, len)
BY DEF JumpLoc, StringLoc, Base, JumpAt, StringAt, BaseAt, x86, X86!emit_jump_offset,
   X86!string_offset_loc, X86!Base, Arm!note_jump, Arm!string_offset_loc, Arm!Base

LEMMA JitStarts == Init => JitInv
<1> SUFFICES ASSUME Init PROVE JitInv
  OBVIOUS
<1>1. case \in Cases /\ state = NewState /\ queue = <<>> /\ phase = "start" /\ i = 0
  BY DEF Init
<1>2. TranslationOk(case, NewState, <<>>, "start", 0)
  BY <1>1, StartHolds
<1> QED
  BY <1>1, <1>2 DEF JitInv, Phases

LEMMA PrologueStep == JitInv /\ Prologue => JitInv'
<1> SUFFICES ASSUME JitInv, Prologue PROVE JitInv'
  OBVIOUS
<1>1. /\ case \in Cases /\ phase = "start" /\ phase' = "insts"
      /\ case' = case /\ state' = state /\ i' = i
      /\ TranslationOk(case, state, queue, "start", i)
  BY DEF JitInv, Prologue
<1>2. queue = <<>>
  BY <1>1 DEF TranslationOk, QueueOk
<1>3. Emission(case.arch, Places(case.prog), queue') /\ Len(queue') > 0
  <2>1. CASE x86
    BY <1>1, <2>1, ArchIs, X86PrologueEmission DEF Prologue
  <2>2. CASE ~x86
    BY <1>1, <2>2, ArchIs, ArmPrologueEmission DEF Prologue
  <2> QED
    BY <2>1, <2>2
<1>4. TranslationOk(case, state, queue', "insts", i)
  BY <1>1, <1>2, <1>3, PrologueKeeps
<1> QED
  BY <1>1, <1>4 DEF JitInv, Phases

LEMMA InstStep == JitInv /\ TranslateInst => JitInv'
<1> SUFFICES ASSUME JitInv, TranslateInst PROVE JitInv'
  OBVIOUS
<1>1. /\ case \in Cases /\ phase = "insts" /\ phase' = phase /\ queue = <<>> /\ i < Len(case.prog)
      /\ case' = case /\ state' = [state EXCEPT !.pc_locs[i] = state.offset]
      /\ i' = i + Ebpf!Width(Grouped(case.prog[i + 1]))
      /\ TranslationOk(case, state, <<>>, "insts", i)
  BY DEF JitInv, TranslateInst
<1>2. Translatable(case.prog, i, Places(case.prog)) /\ Open(Places(case.prog))
  <2>1. i \in HeadsOf(case.prog)
    BY <1>1, HeadsLead DEF TranslationOk, ProgressOk
  <2> QED
    BY <1>1, <2>1, HeadsLead
<1>3. Emission(case.arch, Places(case.prog), queue')
  <2>1. CASE x86
    BY <1>1, <1>2, <2>1, ArchIs, X86InstEmission DEF TranslateInst
  <2>2. CASE ~x86
    BY <1>1, <1>2, <2>2, ArchIs, ArmInstEmission DEF TranslateInst
  <2> QED
    BY <2>1, <2>2
<1>4. state' = Located(state, i) /\ i' = After(case.prog, i)
  BY <1>1, Zenon DEF Located, After
<1>5. TranslationOk(case, state', queue', "insts", i')
  <2>1. TranslationOk(case, state, <<>>, "insts", i) /\ case \in Cases /\ i < Len(case.prog)
    BY <1>1
  <2> QED
    BY <1>3, <1>4, <2>1, InstKeeps, Zenon
<1> QED
  BY <1>1, <1>5 DEF JitInv, Phases

LEMMA EpilogueStep == JitInv /\ Epilogue => JitInv'
<1> SUFFICES ASSUME JitInv, Epilogue PROVE JitInv'
  OBVIOUS
<1>1. /\ case \in Cases /\ phase = "insts" /\ phase' = "handler" /\ queue = <<>>
      /\ i >= Len(case.prog)
      /\ case' = case /\ i' = i /\ state' = ExitNoted(state)
      /\ TranslationOk(case, state, <<>>, "insts", i)
  BY DEF JitInv, Epilogue, ExitNoted
<1>2. Emission(case.arch, Places(case.prog), queue') /\ Len(queue') > 0
  <2>1. CASE x86
    BY <1>1, <2>1, ArchIs, X86EpilogueEmission DEF Epilogue
  <2>2. CASE ~x86
    BY <1>1, <2>2, ArchIs, ArmEpilogueEmission DEF Epilogue
  <2> QED
    BY <2>1, <2>2
<1>3. TranslationOk(case, state', queue', "handler", i)
  BY <1>1, <1>2, EpilogueKeeps, Zenon
<1> QED
  BY <1>1, <1>3 DEF JitInv, Phases

LEMMA HandlerStep == JitInv /\ DivByZeroHandler => JitInv'
<1> SUFFICES ASSUME JitInv, DivByZeroHandler PROVE JitInv'
  OBVIOUS
<1>1. /\ case \in Cases /\ phase = "handler" /\ phase' = "string_table" /\ queue = <<>>
      /\ case' = case /\ i' = i /\ state' = HandlerNoted(state)
      /\ TranslationOk(case, state, <<>>, "handler", i)
  BY DEF JitInv, DivByZeroHandler, HandlerNoted
<1>2. Open(Places(case.prog))
  BY <1>1, HeadsLead
<1>3. Translation(case.arch, Places(case.prog), queue') /\ EndsInJump(queue')
  <2>1. CASE x86
    BY <1>1, <1>2, <2>1, ArchIs, X86HandlerTranslation DEF DivByZeroHandler
  <2>2. CASE ~x86
    BY <1>1, <1>2, <2>2, ArchIs, ArmHandlerTranslation DEF DivByZeroHandler
  <2> QED
    BY <2>1, <2>2
<1>4. TranslationOk(case, state', queue', "string_table", i)
  BY <1>1, <1>3, HandlerKeeps, Zenon
<1> QED
  BY <1>1, <1>4 DEF JitInv, Phases

LEMMA TableStep == JitInv /\ StringTable => JitInv'
<1> SUFFICES ASSUME JitInv, StringTable PROVE JitInv'
  OBVIOUS
<1>1. /\ case \in Cases /\ phase = "string_table" /\ queue = <<>>
      /\ case' = case /\ i' = i /\ queue' = queue
      /\ TranslationOk(case, state, <<>>, "string_table", i)
  BY DEF JitInv, StringTable
<1>2. CASE phase' = "aborted"
  BY <1>1, <1>2 DEF JitInv
<1>3. CASE phase' = "limits" /\ state' = TableNoted(state)
  <2>1. TranslationOk(case, state', <<>>, "limits", i)
    BY <1>1, <1>3, TableKeeps, Zenon
  <2> QED
    BY <1>1, <1>3, <2>1 DEF JitInv, Phases
<1> QED
  BY <1>2, <1>3 DEF StringTable, TableNoted

LEMMA LimitsStep == JitInv /\ CheckLimits => JitInv'
<1> SUFFICES ASSUME JitInv, CheckLimits PROVE JitInv'
  OBVIOUS
<1>1. /\ case \in Cases /\ phase = "limits"
      /\ case' = case /\ i' = i /\ queue' = queue /\ state' = state
      /\ TranslationOk(case, state, queue, "limits", i)
  BY DEF JitInv, CheckLimits
<1>2. CASE AtLimit
  BY <1>1, <1>2 DEF JitInv, CheckLimits
<1>3. CASE ~AtLimit
  <2>1. phase' = "jumps" /\ Len(state.jumps) # MaxInsts
    BY <1>3 DEF CheckLimits, AtLimit
  <2>2. TranslationOk(case, state, queue, "jumps", i)
    BY <1>1, <2>1, LimitsKeep
  <2> QED
    BY <1>1, <2>1, <2>2 DEF JitInv, Phases
<1> QED
  BY <1>2, <1>3

LEMMA EnterStep == JitInv /\ Enter => JitInv'
<1> SUFFICES ASSUME JitInv, Enter PROVE JitInv'
  OBVIOUS
<1>1. /\ case \in Cases /\ phase = "accepted" /\ phase' = "running"
      /\ case' = case /\ i' = i /\ queue' = queue /\ state' = state
      /\ TranslationOk(case, state, queue, "accepted", i)
  BY DEF JitInv, Enter
<1>2. TranslationOk(case, state, queue, "running", i)
  BY <1>1, EnterKeeps
<1> QED
  BY <1>1, <1>2 DEF JitInv, Phases

LEMMA JitFrame ==
  JitInv /\ UNCHANGED <<case, state, queue, phase, i>> => JitInv'
BY DEF JitInv

LEMMA EmitStep == JitInv /\ Emit => JitInv'
<1> SUFFICES ASSUME JitInv, Emit PROVE JitInv'
  OBVIOUS
<1>1. queue # <<>> /\ phase # "aborted" /\ case' = case /\ i' = i
  BY DEF Emit
<1>2. CASE phase' = "aborted"
  BY <1>1, <1>2 DEF JitInv
<1>3. CASE phase' # "aborted"
  <2> DEFINE ins == Head(queue)
             start == state.offset
             len == IF IsJump(ins) /\ ~Noted(ins) /\ x86 THEN ins.len - 4 ELSE ins.len
             jumps == IF Noted(ins) THEN Append(state.jumps, [offset_loc |-> JumpLoc(start, len), target_pc |-> ins.to])
                                    ELSE state.jumps
             strings == IF ins.op = "adr"
                        THEN Append(state.strings, [offset_loc |-> StringLoc(start, len), string_id |-> ins.to])
                        ELSE state.strings
             code == Placed(state.code, start, [ins EXCEPT !.len = len])
  <2>1. /\ state' = [state EXCEPT !.offset = @ + len, !.code = Placed(@, start, [ins EXCEPT !.len = len]),
                !.jumps = IF Noted(ins) THEN Append(@, [offset_loc |-> JumpLoc(start, len), target_pc |-> ins.to]) ELSE @,
                !.strings = IF ins.op = "adr" THEN Append(@, [offset_loc |-> StringLoc(start, len), string_id |-> ins.to]) ELSE @]
        /\ queue' = Tail(queue) /\ phase' = phase
    BY <1>3 DEF Emit
  <2>2. phase \in Phases \cup {"refused"} /\ case \in Cases
    BY <1>1 DEF JitInv
  <2>3. CASE phase = "refused"
    BY <1>1, <2>1, <2>2, <2>3 DEF JitInv
  <2>4. CASE phase # "refused"
    <3>1. TranslationOk(case, state, queue, phase, i)
      BY <1>1, <2>4 DEF JitInv
    <3>2. IsState(state) /\ Laid(state) /\ QueueOk(case, state, queue, phase)
      BY <3>1 DEF TranslationOk
    <3>3. Fit(case.arch, Places(case.prog), ins)
      BY <1>1, <3>2, TailOf DEF QueueOk
    <3>4. Noted(ins) <=> IsNoted(state, ins)
      BY DEF Noted, IsNoted
    <3>5. len = LenOf(case.arch, state, ins)
      BY <3>4 DEF LenOf, x86
    <3>6. len \in Int /\ start \in Int
      <4>1. LenOf(case.arch, state, ins) \in Nat
        BY <3>3, EmittedShape
      <4> QED
        BY <3>2, <3>5, <4>1 DEF IsState
    <3>7. start \notin DOMAIN state.code
      BY <3>2 DEF Laid, IsState
    <3>8. state' = [state EXCEPT !.offset = state.offset + len, !.code = code, !.jumps = jumps, !.strings = strings]
      BY <2>1, <3>2 DEF IsState
    <3> HIDE DEF len, code, jumps, strings
    <3>9. /\ DOMAIN state' = DOMAIN state
          /\ state'.offset = state.offset + len /\ state'.code = code
          /\ state'.jumps = jumps /\ state'.strings = strings
          /\ state'.pc_locs = state.pc_locs
          /\ state'.exit_loc = state.exit_loc /\ state'.div_by_zero_loc = state.div_by_zero_loc
      BY <3>2, <3>8 DEF IsState
    <3>10. Longer(state.code, start, [ins EXCEPT !.len = len], code)
      BY <3>7, PlacedAt DEF code
    <3>11. /\ jumps = IF IsNoted(state, ins)
                      THEN Append(state.jumps, [offset_loc |-> JumpAt(case.arch, start, len), target_pc |-> ins.to])
                      ELSE state.jumps
           /\ strings = IF ins.op = "adr"
                        THEN Append(state.strings, [offset_loc |-> StringAt(case.arch, start, len), string_id |-> ins.to])
                        ELSE state.strings
      BY <3>4, <3>6, PlacesAre DEF jumps, strings
    <3>12. EmittedBy(case.arch, state, ins, state')
      BY <3>5, <3>9, <3>10, <3>11 DEF EmittedBy
    <3>13. TranslationOk(case, state', Tail(queue), phase, i)
      BY <1>1, <2>2, <3>1, <3>12, EmitKeeps, Zenon
    <3> QED
      BY <1>1, <2>1, <2>2, <3>13 DEF JitInv
  <2> QED
    BY <2>3, <2>4
<1> QED
  BY <1>2, <1>3

LEMMA Distances ==
  ASSUME NEW start \in Int, NEW len \in Int, NEW target \in Int
  PROVE  /\ BaseAt("x86_64", start, len) + X86!jump_rel(target, JumpAt("x86_64", start, len)) = target
         /\ BaseAt("arm64", start, len) + Arm!jump_rel(target, JumpAt("arm64", start, len)) = target
BY DEF BaseAt, JumpAt, X86!jump_rel, Arm!jump_rel

LEMMA JumpEntry ==
  ASSUME NEW Any, NEW r \in Seq(Any), r # <<>>
  PROVE  Head(r) = r[1] /\ 1 \in 1 .. Len(r) /\ r[1] \in Any
OBVIOUS

LEMMA JumpStep == JitInv /\ ResolveJump => JitInv'
<1> SUFFICES ASSUME JitInv, ResolveJump PROVE JitInv'
  OBVIOUS
<1> DEFINE jump == Head(state.jumps)
           target == TargetLoc(jump.target_pc)
           rel == JumpRel(target, jump.offset_loc)
           start == CHOOSE l \in DOMAIN state.code : JumpLoc(l, state.code[l].len) = jump.offset_loc
           len == state.code[start].len
<1>1. /\ case \in Cases /\ phase = "jumps" /\ state.jumps # <<>>
      /\ case' = case /\ phase' = phase /\ queue' = queue /\ i' = i
      /\ state' = [state EXCEPT !.code = Patched(start, rel), !.jumps = Tail(@)]
      /\ TranslationOk(case, state, queue, "jumps", i)
  BY DEF JitInv, ResolveJump
<1>2. /\ IsState(state) /\ Laid(state) /\ TablesOk(case, state)
  BY <1>1 DEF TranslationOk
<1>3. jump = state.jumps[1] /\ 1 \in 1 .. Len(state.jumps) /\ jump.offset_loc \in Int
  <2>1. state.jumps \in Seq([offset_loc : Int, target_pc : Int])
    BY <1>2 DEF IsState
  <2>2. jump = state.jumps[1] /\ 1 \in 1 .. Len(state.jumps) /\ jump \in [offset_loc : Int, target_pc : Int]
    BY <1>1, <2>1, JumpEntry
  <2> QED
    BY <2>2
<1>4. \A l \in DOMAIN state.code : l \in Int /\ state.code[l].len \in Int
  BY <1>2 DEF Laid
<1>5. start \in DOMAIN state.code /\ JumpLoc(start, len) = jump.offset_loc
  <2>1. PICK l \in DOMAIN state.code : jump.offset_loc = JumpAt(case.arch, l, state.code[l].len)
    BY <1>2, <1>3 DEF TablesOk
  <2>2. JumpLoc(l, state.code[l].len) = jump.offset_loc
    BY <1>4, <2>1, PlacesAre
  <2> QED
    BY <2>2
<1> HIDE DEF start
<1>6. start \in Int /\ len \in Int
  BY <1>4, <1>5
<1>7. JumpAt(case.arch, start, len) = jump.offset_loc
  BY <1>5, <1>6, PlacesAre
<1>8. jump.target_pc \in Places(case.prog)
  BY <1>2, <1>3 DEF TablesOk
<1>9. target = TargetOf(state, jump.target_pc)
  <2>1. \/ jump.target_pc = TARGET_PC_EXIT \/ jump.target_pc = TARGET_PC_DIV_BY_ZERO
        \/ jump.target_pc \in Nat
    <3>1. HeadsOf(case.prog) \subseteq Nat
      BY <1>1, HeadsLead
    <3> QED
      BY <1>8, <3>1 DEF Places
  <2> QED
    BY <2>1 DEF TargetLoc, TargetOf, TARGET_PC_EXIT, TARGET_PC_DIV_BY_ZERO
<1>10. target \in Int
  BY <1>1, <1>8, <1>9, TargetsEnter
<1> HIDE DEF target
<1>11. BaseAt(case.arch, start, len) + rel = target
  <2>1. CASE x86
    <3>1. case.arch = "x86_64" /\ rel = X86!jump_rel(target, JumpAt(case.arch, start, len))
      BY <1>1, <1>7, <2>1, ArchIs DEF JumpRel
    <3> HIDE DEF rel, len
    <3> QED
      BY <1>6, <1>10, <3>1, Distances
  <2>2. CASE ~x86
    <3>1. case.arch = "arm64" /\ rel = Arm!jump_rel(target, JumpAt(case.arch, start, len))
      BY <1>1, <1>7, <2>2, ArchIs DEF JumpRel
    <3> HIDE DEF rel, len
    <3> QED
      BY <1>6, <1>10, <3>1, Distances
  <2> QED
    BY <2>1, <2>2
<1> HIDE DEF rel
<1>12. /\ FilledBy(state, start, rel, state')
       /\ state'.jumps = Tail(state.jumps) /\ state'.strings = state.strings
  BY <1>1, <1>2, <1>5 DEF FilledBy, PatchedAt, Patched, IsState
<1>13. TranslationOk(case, state', queue, "jumps", i)
  BY <1>1, <1>5, <1>7, <1>9, <1>11, <1>12, JumpFilled
<1> QED
  BY <1>1, <1>13 DEF JitInv, Phases

LEMMA StringStep == JitInv /\ ResolveString => JitInv'
<1> SUFFICES ASSUME JitInv, ResolveString PROVE JitInv'
  OBVIOUS
<1> DEFINE string == Head(state.strings)
           rel == StringRel(state.string_table_loc, string.offset_loc)
           start == CHOOSE l \in DOMAIN state.code : StringLoc(l, state.code[l].len) = string.offset_loc
           len == state.code[start].len
<1>1. /\ case \in Cases /\ phase = "jumps" /\ state.jumps = <<>> /\ state.strings # <<>>
      /\ case' = case /\ phase' = "accepted" /\ queue' = queue /\ i' = i
      /\ state' = [state EXCEPT !.code = Patched(start, rel), !.strings = Tail(@)]
      /\ TranslationOk(case, state, queue, "jumps", i)
  BY DEF JitInv, ResolveString
<1>2. /\ IsState(state) /\ Laid(state) /\ TablesOk(case, state)
  BY <1>1 DEF TranslationOk
<1>3. string = state.strings[1] /\ 1 \in 1 .. Len(state.strings)
  <2>1. state.strings \in Seq([offset_loc : Int, string_id : Int])
    BY <1>2 DEF IsState
  <2> QED
    BY <1>1, <2>1, JumpEntry
<1>4. \A l \in DOMAIN state.code : l \in Int /\ state.code[l].len \in Int
  BY <1>2 DEF Laid
<1>5. PICK l \in DOMAIN state.code :
        state.code[l].op = "adr" /\ string.offset_loc = StringAt(case.arch, l, state.code[l].len)
  BY <1>2, <1>3 DEF TablesOk
<1>6. start \in DOMAIN state.code /\ StringLoc(start, len) = string.offset_loc
  <2>1. StringLoc(l, state.code[l].len) = string.offset_loc
    BY <1>4, <1>5, PlacesAre
  <2> QED
    BY <2>1
<1> HIDE DEF start, rel
<1>7. StringAt(case.arch, start, len) = string.offset_loc
  BY <1>4, <1>6, PlacesAre
<1>8. state.code[start].op = "adr"
  <2>1. StringAt(case.arch, start, len) = StringAt(case.arch, l, state.code[l].len)
    BY <1>5, <1>7
  <2>2. start = l
    BY <1>2, <1>6, <2>1, OnePlace, Zenon
  <2> QED
    BY <1>5, <2>2
<1>9. /\ FilledBy(state, start, rel, state')
      /\ state'.jumps = state.jumps /\ state'.strings = Tail(state.strings)
  BY <1>1, <1>2, <1>6 DEF FilledBy, PatchedAt, Patched, IsState
<1>10. TranslationOk(case, state', queue, "accepted", i)
  BY <1>1, <1>6, <1>7, <1>8, <1>9, StringFilled
<1> QED
  BY <1>1, <1>10 DEF JitInv, Phases

LEMMA JitInvariant == Spec => []JitInv
<1>1. Init => JitInv
  BY JitStarts
<1>2. JitInv /\ [Next]_vars => JitInv'
  <2> SUFFICES ASSUME JitInv, [Next]_vars PROVE JitInv'
    OBVIOUS
  <2>1. CASE Prologue
    BY <2>1, PrologueStep
  <2>2. CASE TranslateInst
    BY <2>2, InstStep
  <2>3. CASE Epilogue
    BY <2>3, EpilogueStep
  <2>4. CASE DivByZeroHandler
    BY <2>4, HandlerStep
  <2>5. CASE Emit
    BY <2>5, EmitStep
  <2>6. CASE StringTable
    BY <2>6, TableStep
  <2>7. CASE CheckLimits
    BY <2>7, LimitsStep
  <2>8. CASE ResolveJump
    BY <2>8, JumpStep
  <2>9. CASE ResolveString
    BY <2>9, StringStep
  <2>10. CASE Enter
    BY <2>10, EnterStep
  <2>11. CASE InterpStep
    BY <2>11, JitFrame DEF InterpStep
  <2>12. CASE NativeStep
    BY <2>12, JitFrame DEF NativeStep
  <2>13. CASE NativeCall
    BY <2>13, JitFrame DEF NativeCall
  <2>14. CASE NativeRet
    BY <2>14, JitFrame DEF NativeRet
  <2>15. CASE UNCHANGED vars
    BY <2>15, JitFrame DEF vars
  <2> QED
    BY <2>1, <2>2, <2>3, <2>4, <2>5, <2>6, <2>7, <2>8, <2>9, <2>10, <2>11, <2>12, <2>13, <2>14,
       <2>15 DEF Next
<1> QED
  BY <1>1, <1>2, PTL DEF Spec

LEMMA AcceptedJumps ==
  ASSUME JitInv, phase \in {"accepted", "running"}, NEW at \in DOMAIN state.code
  PROVE  /\ state.code[at].to = Nothing
         /\ Base(at, state.code[at].len) = BaseAt(case.arch, at, state.code[at].len)
         /\ IsJump(state.code[at]) =>
              EntersAt(case, state, BaseAt(case.arch, at, state.code[at].len) + state.code[at].rel)
<1>1. Laid(state) /\ Covered(case, state) /\ FilledOk(case, state, phase)
  BY DEF JitInv, TranslationOk
<1>2. state.code[at].to = Nothing
  <2>1. Len(state.jumps) < MaxInsts /\ Len(state.jumps) = 0 /\ Len(state.strings) = 0
    BY <1>1 DEF FilledOk
  <2> QED
    BY <1>1, <2>1 DEF Covered
<1>3. Base(at, state.code[at].len) = BaseAt(case.arch, at, state.code[at].len)
  BY <1>1, PlacesAre DEF Laid
<1> QED
  BY <1>1, <1>2, <1>3 DEF FilledOk

(***************************************************************************)
(* Translation is complete: whatever the program, the architecture and the *)
(* limits, code that ubpf_translate accepts has every distance filled in,  *)
(* and every jump of it leads to an entry behind the prologue.             *)
(***************************************************************************)
THEOREM TranslationComplete == Spec => []AcceptedIsComplete
<1>1. JitInv => AcceptedIsComplete
  <2> SUFFICES ASSUME JitInv, phase \in {"accepted", "running"} PROVE AcceptedIsComplete
    BY DEF AcceptedIsComplete
  <2>1. case \in Cases /\ TranslationOk(case, state, queue, phase, i)
    BY DEF JitInv
  <2>2. /\ IsState(state) /\ Laid(state) /\ Covered(case, state)
        /\ ProgressOk(case, state, queue, phase, i) /\ FilledOk(case, state, phase)
    BY <2>1 DEF TranslationOk
  <2>3. state.pc_locs[0] > 0
    <3>1. i > 0
      BY <2>1, <2>2, HeadsLead DEF ProgressOk
    <3> QED
      BY <2>2, <3>1 DEF ProgressOk
  <2>4. ASSUME NEW at \in DOMAIN state.code
        PROVE  state.code[at].to = Nothing
    BY AcceptedJumps
  <2>5. ASSUME NEW at \in DOMAIN state.code, IsJump(state.code[at])
        PROVE  Enters(Base(at, state.code[at].len) + state.code[at].rel)
    <3> DEFINE loc == BaseAt(case.arch, at, state.code[at].len) + state.code[at].rel
    <3>1. EntersAt(case, state, loc)
      BY <2>5, AcceptedJumps
    <3>2. Base(at, state.code[at].len) = BaseAt(case.arch, at, state.code[at].len)
      BY AcceptedJumps
    <3>3. HeadsOf(case.prog) \subseteq {h \in 0 .. Len(case.prog) - 1 : case.prog[h + 1].op # "slot2"}
      BY <2>1, HeadsLead DEF Translatable
    <3> HIDE DEF loc
    <3>4. Enters(loc)
      BY <3>1, <3>3 DEF EntersAt, Enters, Entries
    <3> QED
      BY <3>2, <3>4 DEF loc
  <2> QED
    BY <2>3, <2>4, <2>5 DEF AcceptedIsComplete
<1> QED
  BY <1>1, JitInvariant, PTL

-----------------------------------------------------------------------------
(* Running the code. *)

(* The processor is at the first byte of an instruction. *)
RunningOk == phase = "running" => "ip" \in DOMAIN c /\ c.ip \in DOMAIN state.code

(* An instruction changes registers, flags, memory and status; only the *)
(* step it is part of moves the instruction pointer.                    *)
LEMMA SetRegDomain ==
  \A cpu, x, v : DOMAIN SetReg(cpu, x, v) = DOMAIN cpu
BY DEF SetReg

LEMMA MemoryDomain ==
  \A cpu, sp, a, v1, v2 :
    DOMAIN Push(cpu, sp, v1) = DOMAIN cpu /\ DOMAIN StorePair(cpu, a, v1, v2) = DOMAIN cpu
BY DEF Push, StorePair

LEMMA EffectDomain ==
  ASSUME NEW cpu, NEW ins, NEW sp, NEW ra, NEW rd
  PROVE  DOMAIN Effect(cpu, ins, sp, ra, rd) = DOMAIN cpu
BY SetRegDomain, MemoryDomain DEF Effect

LEMMA StepMoves ==
  ASSUME NEW cpu, "ip" \in DOMAIN cpu, NEW ins, NEW base, NEW sp, NEW ra, NEW rd,
         NEW next, next = CpuStep(cpu, ins, base, sp, ra, rd)
  PROVE  /\ "ip" \in DOMAIN next
         /\ next.ip = IF Branches(cpu, ins) THEN base + ins.rel ELSE cpu.ip + ins.len
<1>1. PICK effect : effect = Effect(cpu, ins, sp, ra, rd)
  OBVIOUS
<1>2. DOMAIN effect = DOMAIN cpu
  BY <1>1, EffectDomain
<1>3. PICK loaded : loaded = SetReg(cpu, ins.d, base + ins.rel)
  OBVIOUS
<1>4. DOMAIN loaded = DOMAIN cpu
  BY <1>3, SetRegDomain
<1>5. next = CASE Branches(cpu, ins) -> [cpu EXCEPT !.ip = base + ins.rel]
               [] ins.op = "adr" -> [loaded EXCEPT !.ip = cpu.ip + ins.len]
               [] OTHER -> [effect EXCEPT !.ip = cpu.ip + ins.len]
  BY <1>1, <1>3 DEF CpuStep
<1>6. Branches(cpu, ins) => ins.op # "adr"
  BY DEF Branches
<1> QED
  BY <1>2, <1>4, <1>5, <1>6

LEMMA RunsInside ==
  ASSUME JitInv, phase = "running", NEW at \in DOMAIN state.code
  PROVE  LET ins == state.code[at]
         IN /\ ins.op # "jmp" => at + ins.len \in DOMAIN state.code
            /\ ins.op \in {"jmp", "jcc", "cbnz"} => Base(at, ins.len) + ins.rel \in DOMAIN state.code
<1> DEFINE ins == state.code[at]
<1>1. /\ case \in Cases /\ FlowOk(case, state, queue, "running")
      /\ queue = <<>> /\ Laid(state)
  BY DEF JitInv, TranslationOk, QueueOk
<1>2. ins.op # "jmp" => at + ins.len \in DOMAIN state.code
  BY <1>1 DEF FlowOk, RunsOn
<1>3. CASE IsJump(ins)
  BY <1>2, <1>3, AcceptedJumps DEF EntersAt, IsJump
<1>4. CASE ins.op = "cbnz"
  <2>1. case.arch = "arm64" /\ ins.rel = 12 /\ at + 12 \in DOMAIN state.code
    BY <1>1, <1>4, NoneQueued DEF FlowOk
  <2>2. Base(at, ins.len) = at
    BY <2>1, AcceptedJumps DEF BaseAt
  <2> QED
    BY <1>2, <2>1, <2>2
<1> QED
  BY <1>2, <1>3, <1>4 DEF IsJump

LEMMA RunStep == JitInv /\ RunningOk /\ NativeStep => RunningOk'
<1> SUFFICES ASSUME JitInv, RunningOk, NativeStep PROVE RunningOk'
  OBVIOUS
<1>1. /\ phase = "running" /\ c.ip \in DOMAIN state.code /\ "ip" \in DOMAIN c
      /\ state' = state
      /\ c' = CpuStep(c, At, Base(c.ip, At.len), Sp, X86!RAX, X86!RDX)
  BY DEF NativeStep, Native, RunningOk
<1>2. PICK next : next = c'
  OBVIOUS
<1>3. PICK base : base = Base(c.ip, At.len)
  OBVIOUS
<1>4. /\ "ip" \in DOMAIN next
      /\ next.ip = IF Branches(c, At) THEN base + At.rel ELSE c.ip + At.len
  BY <1>1, <1>2, <1>3, StepMoves
<1>5. /\ At.op # "jmp" => c.ip + At.len \in DOMAIN state.code
      /\ At.op \in {"jmp", "jcc", "cbnz"} => base + At.rel \in DOMAIN state.code
  BY <1>1, <1>3, RunsInside DEF At
<1>6. (Branches(c, At) => At.op \in {"jmp", "jcc", "cbnz"}) /\ (At.op = "jmp" => Branches(c, At))
  BY DEF Branches
<1>7. next.ip \in DOMAIN state.code
  BY <1>4, <1>5, <1>6
<1> QED
  BY <1>1, <1>2, <1>4, <1>7 DEF RunningOk

LEMMA CallStep == JitInv /\ RunningOk /\ NativeCall => RunningOk'
<1> SUFFICES ASSUME JitInv, RunningOk, NativeCall PROVE RunningOk'
  OBVIOUS
<1>1. /\ phase = "running" /\ c.ip \in DOMAIN state.code /\ "ip" \in DOMAIN c
      /\ At.op = "call" /\ state' = state
  BY DEF NativeCall, Native, RunningOk
<1>2. "ip" \in DOMAIN c' /\ c'.ip = c.ip + At.len
  BY <1>1 DEF NativeCall
<1>3. c.ip + At.len \in DOMAIN state.code
  BY <1>1, RunsInside DEF At
<1> QED
  BY <1>1, <1>2, <1>3 DEF RunningOk

LEMMA ReturnStep == RunningOk /\ NativeRet => RunningOk'
BY DEF RunningOk, NativeRet

LEMMA RunEnters == JitInv /\ Enter => RunningOk'
<1> SUFFICES ASSUME JitInv, Enter PROVE RunningOk'
  OBVIOUS
<1>1. phase = "accepted" /\ state' = state /\ "ip" \in DOMAIN c' /\ c'.ip = 0
  BY DEF Enter
<1>2. FlowOk(case, state, queue, "accepted")
  BY <1>1 DEF JitInv, TranslationOk
<1>3. 0 \in DOMAIN state.code
  BY <1>2 DEF FlowOk
<1> QED
  BY <1>1, <1>3 DEF RunningOk

LEMMA NotRunning == JitInv /\ Emit => phase' # "running"
<1> SUFFICES ASSUME JitInv, Emit, phase' = "running" PROVE FALSE
  OBVIOUS
<1>1. queue # <<>> /\ phase = "running"
  BY DEF Emit
<1> QED
  BY <1>1 DEF JitInv, TranslationOk, QueueOk

LEMMA RunInvariant == Spec => []RunningOk
<1>1. Init => RunningOk
  BY DEF Init, RunningOk
<1>2. JitInv /\ RunningOk /\ [Next]_vars => RunningOk'
  <2> SUFFICES ASSUME JitInv, RunningOk, [Next]_vars PROVE RunningOk'
    OBVIOUS
  <2>1. CASE Prologue \/ TranslateInst \/ Epilogue \/ DivByZeroHandler \/ StringTable \/ CheckLimits
               \/ ResolveJump \/ ResolveString
    <3>1. phase' # "running"
      BY <2>1 DEF Prologue, TranslateInst, Epilogue, DivByZeroHandler, StringTable, CheckLimits,
         ResolveJump, ResolveString
    <3> QED
      BY <3>1 DEF RunningOk
  <2>2. CASE Emit
    BY <2>2, NotRunning DEF RunningOk
  <2>3. CASE Enter
    BY <2>3, RunEnters
  <2>4. CASE NativeStep
    BY <2>4, RunStep
  <2>5. CASE NativeCall
    BY <2>5, CallStep
  <2>6. CASE NativeRet
    BY <2>6, ReturnStep
  <2>7. CASE InterpStep \/ UNCHANGED vars
    BY <2>7 DEF InterpStep, vars, RunningOk
  <2> QED
    BY <2>1, <2>2, <2>3, <2>4, <2>5, <2>6, <2>7 DEF Next
<1> QED
  BY <1>1, <1>2, JitInvariant, PTL DEF Spec

(***************************************************************************)
(* Translated code stays inside: whatever the program, the architecture,   *)
(* the buffer and the values it runs on, the processor is always at the    *)
(* first byte of an instruction that ubpf_translate emitted.               *)
(***************************************************************************)
THEOREM CodeStaysInside == Spec => []StaysInCode
<1>1. RunningOk => StaysInCode
  BY DEF RunningOk, StaysInCode, Running
<1> QED
  BY <1>1, RunInvariant, PTL

=============================================================================
