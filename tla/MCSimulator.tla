----------------------------- MODULE MCSimulator -----------------------------
(***************************************************************************)
(* Words of eight bits, made of four digits; every instruction of RV32IM   *)
(* on chosen operands, and files of five lines whose addresses collide in  *)
(* tables of 2, 5 and 11 slots.                                            *)
(***************************************************************************)
EXTENDS Simulator, Bitwise

MCPow2 == [k \in 0 .. 8 |-> 2 ^ k]
MCBitAnd(x, y) == x & y

MCRegisters == {0, 1, 2, 10, 17}

I(class, op, rd, rs1, rs2, imm) ==
  [class |-> class, op |-> op, rd |-> rd, rs1 |-> rs1, rs2 |-> rs2, imm |-> imm]

\* One instruction for each of the operations.
Each(class, ops, rd, imm) == [k \in DOMAIN ops |-> I(class, ops[k], rd, 1, 2, imm)]

RegisterOps  == <<"ADD", "SUB", "SLL", "SLT", "SLTU", "XOR", "SRL", "SRA", "OR", "AND", "MUL",
                  "MULH", "MULHSU", "MULHU", "DIV", "DIVU", "REM", "REMU">>
ImmediateOps == <<"ADDI", "SLTI", "SLTIU", "XORI", "ORI", "ANDI">>
ShiftOps     == <<"SLLI", "SRLI", "SRAI">>
BranchOps    == <<"BEQ", "BNE", "BLT", "BGE", "BLTU", "BGEU">>
LoadOps      == <<"LB", "LH", "LW", "LBU", "LHU">>
StoreOps     == <<"SB", "SH", "SW">>

MCInstructions ==
  <<I("ECALL", "ECALL", 0, 0, 0, 0), I("RTYPE", "ADD", 0, 1, 2, 0)>>
    \o Each("RTYPE", RegisterOps, 10, 0)
    \o Each("IMMEDIATE", ImmediateOps, 10, -8) \o Each("IMMEDIATE", ImmediateOps, 10, 5)
    \o Each("IMMEDIATE", ShiftOps, 10, 0) \o Each("IMMEDIATE", ShiftOps, 10, 3)
    \o Each("BRANCH", BranchOps, 0, -4) \o Each("BRANCH", BranchOps, 0, 4)
    \o Each("LOAD", LoadOps, 10, -2) \o Each("LOAD", LoadOps, 10, 4)
    \o Each("STORE", StoreOps, 0, -2) \o Each("STORE", StoreOps, 0, 4)
    \o <<I("JAL", "JAL", 1, 0, 0, -4), I("JAL", "JAL", 1, 0, 0, 4), I("JAL", "JAL", 1, 0, 0, 8),
         I("JAL", "JAL", 1, 0, 0, -32), I("JALR", "JALR", 1, 1, 0, -1),
         I("JALR", "JALR", 1, 1, 0, 4), I("LUI", "LUI", 10, 0, 0, 64),
         I("AUIPC", "AUIPC", 10, 0, 0, 64), I("SHIFT_OTHER", "SHIFT_OTHER", 10, 1, 0, 3)>>

Insn(addr, word, text) == [kind |-> "insn", addr |-> addr, word |-> word, text |-> text]

\* The fetched instruction is followed by an ecall, and the loads find some data.
Executable(word) ==
  <<[kind |-> "symbol", addr |-> 16, start |-> TRUE],
    [kind |-> "symbol", addr |-> 20, start |-> FALSE],
    Insn(16, word, 0), Insn(20, 1, 0),
    [kind |-> "data", addr |-> 32, bytes |-> <<1, 3, 2, 0, 1, 2, 0, 3>>]>>

Collisions == {0, 4, 20, 44, 88}

TableFiles == {[k \in 1 .. 5 |-> Insn(t[k], 0, k)] : t \in [1 .. 5 -> Collisions]}

MCFiles == {Executable(word) : word \in DOMAIN MCInstructions}
             \cup {<<Insn(16, 0, 0), Insn(18, 0, 0)>>}
             \cup {f \in TableFiles : f[1].addr = 0 /\ f[2].addr = 44}

MCArgVectors == {<< >>, <<<<1>>, << >>, <<2, 3>>>>}

State(x, y, z) ==
  [r \in MCRegisters |-> CASE r = 1 -> x [] r = 2 -> y [] r = 17 -> z [] OTHER -> 0]

MCGarbage == {State(x, y, 3) : x \in {0, 34, 127, 128, 255}, y \in {0, 3, 128, 200, 255}}
               \cup {State(0, 0, z) : z \in {1, 2, 5}}
=============================================================================
