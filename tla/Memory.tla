-------------------------------- MODULE Memory --------------------------------
(***************************************************************************)
(* The memory of the RISC-V simulator (A5/src/memory.c) as operators on    *)
(* its pages.  A memory is a function from the numbers of the pages that   *)
(* exist to pages; a page holds words; a word is a number of four digits   *)
(* in base ByteMod, least significant first.  Pages are made on their      *)
(* first use, also by a read, and are full of zeros then.                  *)
(***************************************************************************)
EXTENDS Integers

CONSTANTS ByteMod,     \* 256 in the code
          PageWords    \* 0x4000 in the code

ASSUME MemoryAssumption ==
  ByteMod \in Nat /\ ByteMod >= 2 /\ ByteMod % 2 = 0 /\ PageWords \in Nat \ {0}

HalfMod == ByteMod * ByteMod
WordMod == HalfMod * HalfMod

PageNumber(addr) == (addr \div 4) \div PageWords
Index(addr)      == (addr \div 4) % PageWords

memory_create == [page \in {} |-> 0]

get_page(mem, addr) ==
  [page \in DOMAIN mem \cup {PageNumber(addr)} |->
     IF page \in DOMAIN mem THEN mem[page] ELSE [i \in 0 .. PageWords - 1 |-> 0]]

WordAt(mem, addr) ==
  IF PageNumber(addr) \in DOMAIN mem THEN mem[PageNumber(addr)][Index(addr)] ELSE 0

SetWord(mem, addr, word) ==
  [get_page(mem, addr) EXCEPT ![PageNumber(addr)][Index(addr)] = word]

\* The address is one that an access of this many bytes accepts.
Aligned(addr, bytes) == addr % bytes = 0

\* What the byte of an address counts in its word.
Unit(addr) == CASE addr % 4 = 0 -> 1
                [] addr % 4 = 1 -> ByteMod
                [] addr % 4 = 2 -> HalfMod
                [] addr % 4 = 3 -> HalfMod * ByteMod

memory_wr_w(mem, addr, data) == SetWord(mem, addr, data)

\* Faulty variant, for mutation testing: the other half is not kept.
memory_wr_h_alone(mem, addr, data) ==
  SetWord(mem, addr, (data % HalfMod) * (IF addr % 4 < 2 THEN 1 ELSE HalfMod))

\* One half of a word is replaced, the other one is kept.
memory_wr_h(mem, addr, data) ==
  LET word == WordAt(mem, addr) IN
  SetWord(mem, addr, IF addr % 4 < 2
                       THEN word - (word % HalfMod) + (data % HalfMod)
                       ELSE (word % HalfMod) + (data % HalfMod) * HalfMod)

\* One byte of a word is replaced, the others are kept.
memory_wr_b(mem, addr, data) ==
  LET word == WordAt(mem, addr)
      kept == (word \div Unit(addr)) % ByteMod
  IN  SetWord(mem, addr, word + ((data % ByteMod) - kept) * Unit(addr))

memory_rd_w(mem, addr) == WordAt(mem, addr)

memory_rd_h(mem, addr) ==
  IF addr % 4 < 2 THEN WordAt(mem, addr) % HalfMod
                  ELSE (WordAt(mem, addr) \div HalfMod) % HalfMod

memory_rd_b(mem, addr) == (WordAt(mem, addr) \div Unit(addr)) % ByteMod

=============================================================================
