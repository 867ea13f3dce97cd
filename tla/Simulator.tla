------------------------------ MODULE Simulator ------------------------------
(***************************************************************************)
(* The RISC-V simulator of A5: main.c stores the arguments of the program  *)
(* in its memory, read_exec.c loads a disassembly line by line into the    *)
(* memory and the table of assembly text, and simulate.c executes it.      *)
(*                                                                         *)
(* Words are narrower than 32 bits, and a word is an instruction if        *)
(* Instructions says which one; the bits of the code's decoding show only  *)
(* in how it extends the immediates.  A line of the file is what sscanf    *)
(* makes of it: data, an instruction with or without text, or a symbol.    *)
(***************************************************************************)
EXTENDS Memory, AssemblyTable, Sequences

CONSTANTS WordBits,
          Pow2,          \* the powers of two up to WordMod
          BitAnd(_, _),     \* the bits that two words have in common
          Instructions,  \* a function from words to the instructions they encode
          Texts,         \* the texts of instructions
          Files,         \* the files, each a sequence of lines
          ArgVectors,    \* the arguments behind "--", each a sequence of bytes
          Registers,     \* the registers the programs use, 0 among them
          Garbage,       \* what the uninitialized registers may hold
          Chars,         \* what getchar() may return
          ArgBase,       \* 0x1000000 in the code
          JalBits,       \* 20: the bits of the low part of a jump's offset
          ImmMod         \* 2^12: the immediate of loads, stores and arithmetic

RiscV == INSTANCE RiscvIsa

Bytes == 0 .. ByteMod - 1
Words == 0 .. WordMod - 1

ASSUME WordAssumption ==
  /\ WordBits \in Nat \ {0}
  /\ Pow2 \in [0 .. WordBits -> Nat \ {0}]
  /\ Pow2[0] = 1 /\ Pow2[WordBits] = WordMod
  /\ \A k \in 0 .. WordBits - 1 : Pow2[k + 1] = 2 * Pow2[k]
  /\ JalBits \in 1 .. WordBits - 1
  /\ ImmMod \in Nat \ {0} /\ ImmMod % 2 = 0 /\ ImmMod <= WordMod

Bit(x, k) == (x \div Pow2[k]) % 2

ASSUME AndAssumption ==
  \A x, y \in Words :
    /\ BitAnd(x, y) \in Words
    /\ \A k \in 0 .. WordBits - 1 : Bit(BitAnd(x, y), k) = Bit(x, k) * Bit(y, k)

\* The lines of a file, the last of them with the start symbol or another one.
\* The address of an instruction is not negative as an int: see AssemblyTable.
Line == [kind : {"data"}, addr : Words, bytes : Seq(Bytes) \ {<< >>}]
          \cup [kind : {"insn"}, addr : 0 .. (WordMod \div 2) - 1, word : Words,
                text : Texts \cup {NoText}]
          \cup [kind : {"symbol"}, addr : Words, start : BOOLEAN]

ASSUME InputAssumption ==
  /\ Files \subseteq Seq(Line)
  /\ ArgVectors \subseteq Seq(Seq(Bytes \ {0}))
  /\ ArgBase \in Words /\ ArgBase % 4 = 0
  /\ Chars \subseteq Int
  /\ 0 \in Registers /\ Registers \subseteq Nat
  /\ Garbage \subseteq [Registers -> Words]

\* The operations of each class of instructions.
Operations ==
  [ECALL |-> {"ECALL"}, LUI |-> {"LUI"}, AUIPC |-> {"AUIPC"}, JAL |-> {"JAL"}, JALR |-> {"JALR"},
   BRANCH |-> {"BEQ", "BNE", "BLT", "BGE", "BLTU", "BGEU"},
   LOAD |-> {"LB", "LH", "LW", "LBU", "LHU"},
   STORE |-> {"SB", "SH", "SW"},
   IMMEDIATE |-> {"ADDI", "SLTI", "SLTIU", "XORI", "ORI", "ANDI", "SLLI", "SRLI", "SRAI"},
   RTYPE |-> {"ADD", "SUB", "SLL", "SLT", "SLTU", "XOR", "SRL", "SRA", "OR", "AND", "MUL",
              "MULH", "MULHSU", "MULHU", "DIV", "DIVU", "REM", "REMU"},
   SHIFT_OTHER |-> {"SHIFT_OTHER"}]

ASSUME InstructionAssumption ==
  \A word \in DOMAIN Instructions :
    LET i == Instructions[word] IN
    /\ i.class \in DOMAIN Operations /\ i.op \in Operations[i.class]
    /\ {i.rd, i.rs1, i.rs2} \subseteq Registers
    /\ i.imm \in Int
    /\ i.class \in {"LOAD", "STORE", "IMMEDIATE"} =>
         i.imm \in -(ImmMod \div 2) .. (ImmMod \div 2) - 1
    /\ i.op \in {"SLLI", "SRLI", "SRAI"} => i.imm \in 0 .. WordBits - 1

a0 == 10
a7 == 17

VARIABLES phase,            \* args, load, run, the steps between, or how the program ended
          mem, as,
          args, file,       \* the arguments and the lines not read yet
          argv_addr, str_addr,
          old, moved,       \* the table that is being replaced, and how many slots of it are done
          start_addr,
          program_counter, reg,
          bytes,            \* history: the memory as plain bytes
          texts,            \* history: the text last set for each address
          parity            \* history: of the number of instructions executed

vars == <<phase, mem, as, args, file, argv_addr, str_addr, old, moved, start_addr, program_counter,
          reg, bytes, texts, parity>>
memory   == <<mem, bytes>>
argument == <<args, argv_addr, str_addr>>
machine  == <<start_addr, program_counter, reg, parity>>
table    == <<as, old, moved, texts>>

Init ==
  /\ phase = "args"
  /\ mem = memory_create
  /\ as = assembly_create
  /\ args \in ArgVectors
  /\ file \in Files
  /\ argv_addr = (ArgBase + 4) % WordMod
  /\ str_addr = (ArgBase + 4 + 4 * Len(args)) % WordMod
  /\ old = assembly_create
  /\ moved = 0
  /\ start_addr = -1
  /\ program_counter = 0
  /\ reg = [r \in Registers |-> 0]
  /\ bytes = [a \in Words |-> 0]
  /\ texts = [addr \in {} |-> NoText]
  /\ parity = 0

-----------------------------------------------------------------------------
(***************************************************************************)
(* A store, behind the fetch of an instruction if there was one.           *)
(***************************************************************************)
StoreIn(m, size, addr, data) ==
  /\ mem' = CASE size = 4 -> memory_wr_w(m, addr, data)
              [] size = 2 -> memory_wr_h(m, addr, data)
              [] size = 1 -> memory_wr_b(m, addr, data)
  /\ bytes' = RiscV!StoreBytes(bytes, addr, size, data)

(***************************************************************************)
(* pass_args_to_program.  Without "--" there is nothing to store.          *)
(***************************************************************************)
PassCount ==
  /\ phase = "args"
  /\ IF args = << >> THEN phase' = "load" /\ UNCHANGED memory
     ELSE phase' = "pointer" /\ StoreIn(mem, 4, ArgBase, Len(args) % WordMod)
  /\ UNCHANGED <<argument, file, machine, table>>

PassPointer ==
  /\ phase = "pointer"
  /\ StoreIn(mem, 4, argv_addr, str_addr)
  /\ argv_addr' = (argv_addr + 4) % WordMod
  /\ phase' = "chars"
  /\ UNCHANGED <<args, str_addr, file, machine, table>>

\* A character of the first argument that is left, or the zero behind it.
PassChar ==
  /\ phase = "chars"
  /\ IF args[1] = << >>
       THEN /\ StoreIn(mem, 1, str_addr, 0)
            /\ args' = Tail(args)
            /\ phase' = IF args' = << >> THEN "load" ELSE "pointer"
       ELSE /\ StoreIn(mem, 1, str_addr, Head(args[1]))
            /\ args' = [args EXCEPT ![1] = Tail(@)]
            /\ UNCHANGED phase
  /\ str_addr' = (str_addr + 1) % WordMod
  /\ UNCHANGED <<argv_addr, file, machine, table>>

-----------------------------------------------------------------------------
(***************************************************************************)
(* read_exec.                                                              *)
(***************************************************************************)
NextLine(kind) == phase = "load" /\ file # << >> /\ file[1].kind = kind

\* One byte of a line with data.
DataLine ==
  /\ NextLine("data")
  /\ LET l == file[1] IN
     /\ StoreIn(mem, 1, l.addr, Head(l.bytes))
     /\ file' = IF Len(l.bytes) = 1 THEN Tail(file)
                ELSE [file EXCEPT ![1] = [kind |-> "data", addr |-> (l.addr + 1) % WordMod,
                                          bytes |-> Tail(l.bytes)]]
  /\ UNCHANGED <<phase, argument, machine, table>>

\* An unaligned address ends the program.  A text is set in the steps below.
InsnLine ==
  /\ NextLine("insn")
  /\ LET l == file[1] IN
     IF Aligned(l.addr, 4)
       THEN /\ StoreIn(mem, 4, l.addr, l.word)
            /\ IF l.text = NoText THEN file' = Tail(file) /\ UNCHANGED phase
               ELSE phase' = "set" /\ UNCHANGED file
       ELSE phase' = "exit" /\ UNCHANGED <<memory, file>>
  /\ UNCHANGED <<argument, machine, table>>

\* The end of assembly_set: the entry goes to this slot.
SetSlot(idx) ==
  LET l == file[1] IN
  /\ as' = Put(as, idx, l.addr, l.text)
  /\ texts' = [addr \in DOMAIN texts \cup {l.addr} |->
                 IF addr = l.addr THEN l.text ELSE texts[addr]]
  /\ file' = Tail(file)
  /\ phase' = "load"
  /\ UNCHANGED <<old, moved>>

\* The beginning of assembly_grow_and_rehash.
Grow ==
  /\ old' = as
  /\ as' = Larger(as)
  /\ moved' = 0
  /\ phase' = "rehash"
  /\ UNCHANGED <<file, texts>>

PutInto(idx) == IF idx = NOT_FOUND THEN Grow ELSE SetSlot(idx)

\* assembly_set: an entry of this address is overwritten.
SetText ==
  /\ phase = "set"
  /\ LET entry == assembly_find_entry(as, file[1].addr) IN
     PutInto(IF entry # NOT_FOUND THEN entry ELSE assembly_find_empty(as, file[1].addr))
  /\ UNCHANGED <<memory, argument, machine>>

\* assembly_set, back from assembly_grow_and_rehash.
SetAgain ==
  /\ phase = "place"
  /\ PutInto(assembly_find_empty(as, file[1].addr))
  /\ UNCHANGED <<memory, argument, machine>>

\* Faulty variant, for mutation testing: an entry that finds no place is dropped.
MoveOrDrop ==
  LET entry == old.slot[moved]
      idx   == assembly_find_empty(as, entry.addr)
  IN  /\ as' = IF idx = NOT_FOUND THEN as ELSE Put(as, idx, entry.addr, entry.text)
      /\ moved' = moved + 1

\* An entry of the old table is moved; if it finds no place, all begins again.
Move ==
  LET entry == old.slot[moved]
      idx   == assembly_find_empty(as, entry.addr)
  IN  IF idx = NOT_FOUND THEN as' = Larger(as) /\ moved' = 0
      ELSE as' = Put(as, idx, entry.addr, entry.text) /\ moved' = moved + 1

\* The loop of assembly_grow_and_rehash over the old table.
Rehash ==
  /\ phase = "rehash"
  /\ IF moved = old.table_size THEN phase' = "place" /\ UNCHANGED <<as, moved>>
     ELSE /\ IF old.slot[moved].valid THEN Move ELSE moved' = moved + 1 /\ UNCHANGED as
          /\ UNCHANGED phase
  /\ UNCHANGED <<memory, argument, file, machine, old, texts>>

SymbolLine ==
  /\ NextLine("symbol")
  /\ start_addr' = IF file[1].start THEN file[1].addr ELSE start_addr
  /\ file' = Tail(file)
  /\ UNCHANGED <<phase, memory, argument, program_counter, reg, parity, table>>

\* The end of the file: simulate begins with registers that nobody has set.
StartProgram ==
  /\ phase = "load"
  /\ file = << >>
  /\ IF start_addr = -1 THEN phase' = "exit" /\ UNCHANGED <<program_counter, reg>>
     ELSE /\ phase' = "run"
          /\ program_counter' = start_addr
          /\ \E g \in Garbage : reg' = [g EXCEPT ![0] = 0]
  /\ UNCHANGED <<memory, argument, file, start_addr, parity, table>>

-----------------------------------------------------------------------------
(***************************************************************************)
(* simulate: one instruction.                                              *)
(***************************************************************************)
Illegal == [class |-> "none"]

Fetched ==
  LET word == memory_rd_w(mem, program_counter)
  IN  IF word \in DOMAIN Instructions THEN Instructions[word] ELSE Illegal

Executing(class) ==
  /\ phase = "run"
  /\ Aligned(program_counter, 4)
  /\ Fetched.class = class

\* simulate reads the instruction word, which may create its page, and leaves the rest.
Fetching == mem' = get_page(mem, program_counter)

\* The instruction is counted, also if it changes nothing.
Counted == UNCHANGED <<argument, file, start_addr, table>> /\ parity' = 1 - parity
Goto(pc) == program_counter' = pc % WordMod
Set(rd, x) == reg' = [reg EXCEPT ![rd] = x % WordMod]
Stop(how) == phase' = how /\ UNCHANGED <<program_counter, reg>>
Register(x) == Fetching /\ UNCHANGED <<phase, bytes>> /\ Counted /\ Set(Fetched.rd, x)

\* The immediate as the code extends it, where it does, and where it does not.
SignedImm   == Fetched.imm
UnsignedImm == Fetched.imm % ImmMod

\* The offset of a jump: its high part is the high part of the instruction word,
\* which holds the sign, the low bits but the last one, and one bit more.
JalOffset(imm) ==
  LET top  == (WordBits - JalBits) - 1
      high == (IF imm < 0 THEN Pow2[top] ELSE 0) + 2 * ((imm % Pow2[top]) \div 2) + Bit(imm, top)
  IN  (high * Pow2[JalBits]) + (imm % Pow2[JalBits])

\* ecall 1 reads a character, 2 prints one, 3 and 93 end the program; any other
\* number leaves the program counter where it is.
Ecall ==
  /\ Executing("ECALL")
  /\ CASE reg[a7] = 1 -> /\ \E ch \in Chars : Set(a0, ch)
                         /\ Goto(program_counter + 4)
                         /\ UNCHANGED phase
       [] reg[a7] = 2 -> Goto(program_counter + 4) /\ UNCHANGED <<phase, reg>>
       [] reg[a7] \in {3, 93} -> Stop("returned")
       [] OTHER -> UNCHANGED <<phase, program_counter, reg>>
  /\ Fetching
  /\ UNCHANGED bytes
  /\ Counted

Lui == Executing("LUI") /\ Register(Fetched.imm) /\ Goto(program_counter + 4)

Auipc ==
  /\ Executing("AUIPC")
  /\ Register(program_counter + Fetched.imm)
  /\ Goto(program_counter + 4)

Jal ==
  /\ Executing("JAL")
  /\ Register(program_counter + 4)
  /\ Goto(program_counter + JalOffset(Fetched.imm))

\* The target is computed from the number of the register, not from its value.
Jalr ==
  /\ Executing("JALR")
  /\ Register(program_counter + 4)
  /\ Goto(SignedImm + Fetched.rs1)

\* Faulty variant: the unsigned branches compare like the signed ones.
TakenSigned(op, x, y) ==
  CASE op = "BEQ" -> x = y
    [] op = "BNE" -> x # y
    [] op \in {"BLT", "BLTU"} -> RiscV!Signed(x) < RiscV!Signed(y)
    [] op \in {"BGE", "BGEU"} -> RiscV!Signed(x) >= RiscV!Signed(y)

Taken(op, x, y) ==
  CASE op = "BEQ"  -> x = y
    [] op = "BNE"  -> x # y
    [] op = "BLT"  -> RiscV!Signed(x) < RiscV!Signed(y)
    [] op = "BGE"  -> RiscV!Signed(x) >= RiscV!Signed(y)
    [] op = "BLTU" -> x < y
    [] op = "BGEU" -> x >= y

\* A branch that is not taken leaves the program counter where it is.
Branch ==
  /\ Executing("BRANCH")
  /\ IF Taken(Fetched.op, reg[Fetched.rs1], reg[Fetched.rs2])
       THEN Goto(program_counter + SignedImm)
       ELSE UNCHANGED program_counter
  /\ Fetching
  /\ UNCHANGED <<phase, reg, bytes>>
  /\ Counted

\* The offset of a load or store is not sign-extended.
Address == (reg[Fetched.rs1] + UnsignedImm) % WordMod

\* A load of a byte or a halfword is never sign-extended.
Load ==
  /\ Executing("LOAD")
  /\ LET n == RiscV!Bytes(Fetched.op)
         x == CASE n = 1 -> memory_rd_b(mem, Address)
                [] n = 2 -> memory_rd_h(mem, Address)
                [] n = 4 -> memory_rd_w(mem, Address)
     IN  IF Aligned(Address, n)
           THEN Set(Fetched.rd, x) /\ Goto(program_counter + 4) /\ UNCHANGED phase
           ELSE Stop("exit")
  /\ mem' = get_page(get_page(mem, program_counter), Address)
  /\ UNCHANGED bytes
  /\ Counted

Store ==
  /\ Executing("STORE")
  /\ LET n == RiscV!Bytes(Fetched.op) IN
     IF Aligned(Address, n)
       THEN /\ StoreIn(get_page(mem, program_counter), n, Address, reg[Fetched.rs2])
            /\ Goto(program_counter + 4)
            /\ UNCHANGED <<phase, reg>>
       ELSE Stop("exit") /\ Fetching /\ UNCHANGED bytes
  /\ Counted

\* SRAI looks for the sign in the instruction, where it is never set.
ImmediateResult(op, x, imm) ==
  CASE op = "ADDI"  -> x + imm
    [] op = "SLTI"  -> RiscV!Flag(RiscV!Signed(x) < imm)
    [] op = "SLTIU" -> RiscV!Flag(x < imm % WordMod)
    [] op = "XORI"  -> RiscV!Xor(x, imm % WordMod)
    [] op = "ORI"   -> RiscV!Or(x, imm % WordMod)
    [] op = "ANDI"  -> BitAnd(x, imm % WordMod)
    [] op = "SLLI"  -> RiscV!Sll(x, imm)
    [] op \in {"SRLI", "SRAI"} -> RiscV!Srl(x, imm)

Immediate ==
  /\ Executing("IMMEDIATE")
  /\ Register(ImmediateResult(Fetched.op, reg[Fetched.rs1], SignedImm))
  /\ Goto(program_counter + 4)

\* SRL shifts a signed value; the unsigned multiplications extend the sign.
RtypeResult(op, x, y) ==
  LET sx == RiscV!Signed(x)
      sy == RiscV!Signed(y)
  IN  CASE op = "ADD"  -> x + y
        [] op = "SUB"  -> x - y
        [] op = "SLL"  -> RiscV!Sll(x, y)
        [] op = "SLT"  -> RiscV!Flag(sx < sy)
        [] op = "SLTU" -> RiscV!Flag(x < y)
        [] op = "XOR"  -> RiscV!Xor(x, y)
        [] op \in {"SRL", "SRA"} -> RiscV!Sra(x, y)
        [] op = "OR"   -> RiscV!Or(x, y)
        [] op = "AND"  -> BitAnd(x, y)
        [] op = "MUL"  -> sy * sx
        [] op \in {"MULH", "MULHSU", "MULHU"} -> (sx * sy) \div WordMod
        [] op = "DIV"  -> RiscV!Quotient(sx, sy)
        [] op = "DIVU" -> x \div y
        [] op = "REM"  -> IF y = 0 THEN x ELSE RiscV!Remainder(sx, sy)
        [] op = "REMU" -> IF y = 0 THEN x ELSE x % y

Negative(x) == RiscV!Signed(x) < 0

\* The count of a shift is a whole register, negative or as large as it may be.  C
\* defines a shift by fewer than WordBits bits only; by more, a processor either looks
\* at the low bits of the count, or shifts all the bits out.
UndefinedShift(op, y) == op \in {"SLL", "SRL", "SRA"} /\ y >= WordBits
ShiftedOut(op, x) == IF op \in {"SRL", "SRA"} /\ Negative(x) THEN WordMod - 1 ELSE 0

\* The C division is undefined by zero and where the quotient overflows: the
\* processor traps, or it goes on with a result.
Undefined(op, x, y) ==
  \/ op \in {"REM", "REMU"} /\ y = 0
  \/ op \in {"DIV", "REM"} /\ x = WordMod \div 2 /\ y = WordMod - 1

Rtype ==
  /\ Executing("RTYPE")
  /\ LET op == Fetched.op
         x  == reg[Fetched.rs1]
         y  == reg[Fetched.rs2]
     IN  \/ /\ op \in {"DIV", "DIVU"} /\ (x = 0 \/ y = 0)
            /\ Stop("failure") /\ Fetching /\ UNCHANGED bytes /\ Counted
         \/ /\ Undefined(op, x, y)
            /\ Stop("crashed") /\ Fetching /\ UNCHANGED bytes /\ Counted
         \/ /\ ~(op \in {"DIV", "DIVU"} /\ (x = 0 \/ y = 0))
            /\ \/ Register(RtypeResult(op, x, y))
               \/ UndefinedShift(op, y) /\ Register(ShiftedOut(op, x))
            /\ Goto(program_counter + 4)

\* A shift to the right that is neither SRLI nor SRAI is executed again and again.
UnknownShift ==
  /\ Executing("SHIFT_OTHER")
  /\ Fetching
  /\ UNCHANGED <<phase, program_counter, reg, bytes>>
  /\ Counted

\* The opcode, or the function within it, is none that simulate knows.
IllegalInstruction ==
  /\ Executing("none")
  /\ Stop("failure")
  /\ Fetching
  /\ UNCHANGED bytes
  /\ Counted

\* The fetch is a read of a word.
UnalignedFetch ==
  /\ phase = "run"
  /\ ~Aligned(program_counter, 4)
  /\ Stop("exit")
  /\ Fetching
  /\ UNCHANGED bytes
  /\ Counted

Next ==
  \/ PassCount \/ PassPointer \/ PassChar
  \/ DataLine \/ InsnLine \/ SetText \/ SetAgain \/ Rehash \/ SymbolLine \/ StartProgram
  \/ Ecall \/ Lui \/ Auipc \/ Jal \/ Jalr \/ Branch \/ Load \/ Store \/ Immediate \/ Rtype
  \/ UnknownShift \/ IllegalInstruction \/ UnalignedFetch

Spec == Init /\ [][Next]_vars

-----------------------------------------------------------------------------
(***************************************************************************)
(* Properties.                                                             *)
(***************************************************************************)

\* Over all stores of words, halfwords and bytes, of arguments, loaded lines and
\* executed instructions, the paged memory of words reads like plain bytes.
MemoryIsFlat ==
  \A a \in DOMAIN bytes :
    /\ memory_rd_b(mem, a) = bytes[a]
    /\ Aligned(a, 2) => memory_rd_h(mem, a) = RiscV!LoadBytes(bytes, a, 2)
    /\ Aligned(a, 4) => memory_rd_w(mem, a) = RiscV!LoadBytes(bytes, a, 4)

\* However often the table has grown, and except while its entries are being moved,
\* it gives for every address the text that was set last, and it holds no address
\* twice and none that was never set.
TextIsLast ==
  phase # "rehash" =>
    /\ \A addr \in DOMAIN texts : assembly_get(as, addr) = texts[addr]
    /\ \A j \in Valid(as) :
         /\ as.slot[j].addr \in DOMAIN texts
         /\ \A k \in Valid(as) : as.slot[j].addr = as.slot[k].addr => j = k

Defined ==
  /\ phase = "run" /\ Aligned(program_counter, 4)
  /\ Fetched.class \notin {"none", "ECALL", "SHIFT_OTHER"}
  /\ Fetched.class \in {"LOAD", "STORE"} =>
       Aligned(reg[Fetched.rs1] + Fetched.imm, RiscV!Bytes(Fetched.op))

\* What the manual says of the fetched instruction.
RegisterForm == [ADDI |-> "ADD", SLTI |-> "SLT", SLTIU |-> "SLTU", XORI |-> "XOR", ORI |-> "OR",
                 ANDI |-> "AND", SLLI |-> "SLL", SRLI |-> "SRL", SRAI |-> "SRA"]

IsaAddress == (reg[Fetched.rs1] + Fetched.imm) % WordMod

IsaRegisters ==
  LET i == Fetched
      x == CASE i.class = "LUI"            -> i.imm % WordMod
             [] i.class = "AUIPC"          -> (program_counter + i.imm) % WordMod
             [] i.class \in {"JAL", "JALR"} -> (program_counter + 4) % WordMod
             [] i.class = "LOAD"           -> RiscV!LoadValue(bytes, i.op, IsaAddress)
             [] i.class = "IMMEDIATE"      ->
                  RiscV!Compute(RegisterForm[i.op], reg[i.rs1], i.imm % WordMod)
             [] i.class = "RTYPE"          -> RiscV!Compute(i.op, reg[i.rs1], reg[i.rs2])
  IN  IF i.class \in {"BRANCH", "STORE"} THEN reg
      ELSE [reg EXCEPT ![i.rd] = IF i.rd = 0 THEN 0 ELSE x]

IsaCounter ==
  LET i == Fetched
      jumps == i.class = "BRANCH" /\ RiscV!Taken(i.op, reg[i.rs1], reg[i.rs2])
  IN  CASE i.class = "JAL" \/ jumps -> (program_counter + i.imm) % WordMod
        [] i.class = "JALR"        -> IsaAddress - (IsaAddress % 2)
        [] OTHER                   -> (program_counter + 4) % WordMod

IsaBytes ==
  IF Fetched.class = "STORE"
    THEN RiscV!StoreBytes(bytes, IsaAddress, RiscV!Bytes(Fetched.op), reg[Fetched.rs2])
    ELSE bytes

\* Where the code departs from it, case by case.
Departs ==
  LET i == Fetched
      x == reg[i.rs1]
      y == reg[i.rs2]
  IN  \/ i.class \notin {"BRANCH", "STORE"} /\ i.rd = 0        \* register 0 is written
      \/ i.class = "BRANCH" /\ ~RiscV!Taken(i.op, x, y)
      \/ i.class = "JAL" /\ JalOffset(i.imm) # i.imm % WordMod
      \/ i.class = "JALR"
      \/ i.class \in {"LOAD", "STORE"} /\ i.imm < 0
      \/ i.class = "LOAD" /\ i.op = "LB" /\ memory_rd_b(mem, Address) >= ByteMod \div 2
      \/ i.class = "LOAD" /\ i.op = "LH" /\ memory_rd_h(mem, Address) >= HalfMod \div 2
      \/ i.class = "IMMEDIATE" /\ i.op = "SRAI" /\ Negative(x) /\ i.imm # 0
      \/ /\ i.class = "RTYPE"
         /\ \/ i.op = "SRL" /\ Negative(x) /\ y # 0
            \/ UndefinedShift(i.op, y)
            \/ i.op = "MULHSU" /\ Negative(y)
            \/ i.op = "MULHU" /\ (Negative(x) \/ Negative(y))
            \/ i.op \in {"DIV", "DIVU"} /\ (x = 0 \/ y = 0)
            \/ Undefined(i.op, x, y)

\* A step of simulate does to the registers, the program counter and the memory what
\* the RISC-V manual says of the instruction, except in the cases listed above; as
\* src/A5/src/simulate.h says, it simulates a RISC-V program.  The manual takes the low
\* bits of a register as the count of a shift, and the code all of it: nothing is said
\* of counts beyond the width of a word, which are undefined in C.
SimulatesRiscV ==
  [][Defined /\ reg[0] = 0 /\ ~Departs =>
       /\ reg' = IsaRegisters
       /\ program_counter' = IsaCounter
       /\ bytes' = IsaBytes]_vars

=============================================================================
