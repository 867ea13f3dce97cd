------------------------------ MODULE RiscvIsa ------------------------------
(***************************************************************************)
(* What the RISC-V manual says that the instructions of RV32IM compute, on *)
(* words of any width: the reference for Simulator.  A word is a number    *)
(* below WordMod; Signed is its value in two's complement.                 *)
(***************************************************************************)
EXTENDS Integers

CONSTANTS WordMod,    \* 2^32
          WordBits,   \* 32
          ByteMod,    \* 2^8
          Pow2,       \* the powers of two up to WordMod
          BitAnd(_, _)   \* the bits that two words have in common

HalfMod == ByteMod * ByteMod

Signed(x)    == IF x < WordMod \div 2 THEN x ELSE x - WordMod
ToWord(x)    == x % WordMod
Flag(b)      == IF b THEN 1 ELSE 0
Abs(x)       == IF x < 0 THEN -x ELSE x
SignOf(x)    == IF x < 0 THEN -1 ELSE 1
Extend(x, m) == IF x < m \div 2 THEN x ELSE ToWord(x - m)

\* Division of C and of RISC-V: the quotient is rounded towards zero.
Quotient(a, b)  == SignOf(a) * SignOf(b) * (Abs(a) \div Abs(b))
Remainder(a, b) == a - b * Quotient(a, b)

\* Of the sum of two words, the bits they have in common are counted twice.
Or(a, b)  == ToWord(a + b - BitAnd(a, b))
Xor(a, b) == ToWord(a + b - 2 * BitAnd(a, b))

Sll(a, s) == ToWord(a * Pow2[s % WordBits])
Srl(a, s) == a \div Pow2[s % WordBits]
Sra(a, s) == ToWord(Signed(a) \div Pow2[s % WordBits])

High(product) == ToWord(product \div WordMod)

\* The result of an operation on two registers, or on a register and an immediate.
Compute(op, a, b) ==
  CASE op = "ADD"    -> ToWord(a + b)
    [] op = "SUB"    -> ToWord(a - b)
    [] op = "SLL"    -> Sll(a, b)
    [] op = "SLT"    -> Flag(Signed(a) < Signed(b))
    [] op = "SLTU"   -> Flag(a < b)
    [] op = "XOR"    -> Xor(a, b)
    [] op = "SRL"    -> Srl(a, b)
    [] op = "SRA"    -> Sra(a, b)
    [] op = "OR"     -> Or(a, b)
    [] op = "AND"    -> BitAnd(a, b)
    [] op = "MUL"    -> ToWord(a * b)
    [] op = "MULH"   -> High(Signed(a) * Signed(b))
    [] op = "MULHSU" -> High(Signed(a) * b)
    [] op = "MULHU"  -> High(a * b)
    [] op = "DIV"    -> IF b = 0 THEN WordMod - 1 ELSE ToWord(Quotient(Signed(a), Signed(b)))
    [] op = "DIVU"   -> IF b = 0 THEN WordMod - 1 ELSE a \div b
    [] op = "REM"    -> IF b = 0 THEN a ELSE ToWord(Remainder(Signed(a), Signed(b)))
    [] op = "REMU"   -> IF b = 0 THEN a ELSE a % b

Taken(op, a, b) ==
  CASE op = "BEQ"  -> a = b
    [] op = "BNE"  -> a # b
    [] op = "BLT"  -> Signed(a) < Signed(b)
    [] op = "BGE"  -> Signed(a) >= Signed(b)
    [] op = "BLTU" -> a < b
    [] op = "BGEU" -> a >= b

\* The bytes that a load or a store of each kind moves.
Bytes(op) == CASE op \in {"LB", "LBU", "SB"} -> 1
               [] op \in {"LH", "LHU", "SH"} -> 2
               [] op \in {"LW", "SW"}        -> 4

\* The value at an address of a memory of bytes, least significant byte first.
LoadBytes(bytes, addr, n) ==
  LET at(k) == bytes[(addr + k) % WordMod]
  IN  IF n = 1 THEN at(0)
      ELSE IF n = 2 THEN at(0) + ByteMod * at(1)
      ELSE at(0) + ByteMod * at(1) + HalfMod * (at(2) + ByteMod * at(3))

\* The bytes of a word.
Byte(data, k) == CASE k = 0 -> data % ByteMod
                   [] k = 1 -> (data \div ByteMod) % ByteMod
                   [] k = 2 -> (data \div HalfMod) % ByteMod
                   [] k = 3 -> (data \div (HalfMod * ByteMod)) % ByteMod

StoreBytes(bytes, addr, n, data) ==
  [a \in DOMAIN bytes |->
     LET k == (a - addr) % WordMod IN IF k < n THEN Byte(data, k) ELSE bytes[a]]

LoadValue(bytes, op, addr) ==
  LET x == LoadBytes(bytes, addr, Bytes(op))
  IN  CASE op = "LB" -> Extend(x, ByteMod)
        [] op = "LH" -> Extend(x, HalfMod)
        [] OTHER     -> x

=============================================================================
