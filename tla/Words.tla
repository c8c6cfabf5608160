--------------------------------- MODULE Words ---------------------------------
(***************************************************************************)
(* Machine words scaled down: a byte has ByteBits bits instead of eight,   *)
(* so that TLC's 32-bit integers hold the product of two 64-bit words.     *)
(* Widths keep their names: the 32-bit word has 4 * ByteBits bits.  A word *)
(* is a natural number below Mod(w).                                       *)
(***************************************************************************)
EXTENDS Integers, FiniteSetsExt

CONSTANT ByteBits   \* 8

ASSUME ByteBitsAssumption == ByteBits \in 1 .. 2

Widths == {8, 16, 32, 64}
Bits(w) == (w \div 8) * ByteBits
Mod(w) == 2 ^ Bits(w)

(* (uint<w>_t) x and (int<w>_t) x *)
U(w, x) == x % Mod(w)
S(w, x) == IF U(w, x) >= Mod(w) \div 2 THEN U(w, x) - Mod(w) ELSE U(w, x)

Bytes(w) == w \div 8
Byte(x, k) == (x \div 2 ^ (k * ByteBits)) % 2 ^ ByteBits

(* The bytes of the low w bits of x in the opposite order. *)
Swap(w, x) ==
  MapThenSumSet(LAMBDA k : Byte(x, k) * 2 ^ ((Bytes(w) - 1 - k) * ByteBits),
                0 .. Bytes(w) - 1)

(***************************************************************************)
(* The bits that two words share; what "or" and "xor" give follows from    *)
(* it.  Community module Bitwise has the same operators, recursively.      *)
(***************************************************************************)
And(x, y) ==
  MapThenSumSet(LAMBDA k : 2 ^ k, {k \in 0 .. Bits(64) - 1 :
                                     (x \div 2 ^ k) % 2 = 1 /\ (y \div 2 ^ k) % 2 = 1})

(***************************************************************************)
(* The binary operations on the low w bits of two 64-bit words that every  *)
(* processor in this project agrees on.  A shift counts modulo the width,  *)
(* as the shift instructions of x86-64 and of arm64 do.                    *)
(***************************************************************************)
Binary(f, w, a, b) ==
  LET x == U(w, a)
      y == U(w, b)
      k == b % Bits(w)
  IN CASE f = "add" -> U(w, x + y)
       [] f = "sub" -> U(w, x - y)
       [] f = "mul" -> U(w, S(w, x) * S(w, y))
       [] f = "div" -> x \div y
       [] f = "mod" -> x % y
       [] f = "or" -> x + y - And(x, y)
       [] f = "and" -> And(x, y)
       [] f = "xor" -> x + y - 2 * And(x, y)
       [] f = "lsh" -> (x % 2 ^ (Bits(w) - k)) * 2 ^ k
       [] f = "rsh" -> x \div 2 ^ k
       [] f = "arsh" -> U(w, S(w, x) \div 2 ^ k)

(* Conditions on two words, unsigned and signed. *)
Holds(cond, a, b) ==
  CASE cond = "eq" -> a = b
    [] cond = "ne" -> a # b
    [] cond = "set" -> And(a, b) # 0
    [] cond = "gt" -> a > b
    [] cond = "ge" -> a >= b
    [] cond = "lt" -> a < b
    [] cond = "le" -> a <= b
    [] cond = "sgt" -> S(64, a) > S(64, b)
    [] cond = "sge" -> S(64, a) >= S(64, b)
    [] cond = "slt" -> S(64, a) < S(64, b)
    [] cond = "sle" -> S(64, a) <= S(64, b)

(* Memory is a function from the addresses written so far to bytes; every  *)
(* other byte is 0.                                                        *)
ByteAt(mem, a) == IF a \in DOMAIN mem THEN mem[a] ELSE 0

Load(mem, w, a) ==
  MapThenSumSet(LAMBDA k : ByteAt(mem, U(64, a + k)) * 2 ^ (k * ByteBits),
                0 .. Bytes(w) - 1)

Store(mem, w, a, x) ==
  LET cells == {U(64, a + k) : k \in 0 .. Bytes(w) - 1}
  IN [c \in DOMAIN mem \cup cells |->
        IF c \in cells THEN Byte(x, U(64, c - a)) ELSE mem[c]]

=============================================================================
