---------------------------- MODULE AssemblyTable ----------------------------
(***************************************************************************)
(* The table from addresses to assembly text of the RISC-V simulator       *)
(* (A5/src/assembly.c): hashing with linear probing over a fixed window;   *)
(* the table grows until every entry finds a place in its window.          *)
(* Addresses are not negative here: addr % table_size of a negative int is *)
(* negative, and the code would index in front of the table.               *)
(***************************************************************************)
EXTENDS Integers, FiniteSetsExt

CONSTANTS Window,      \* how many slots are probed (4 in the code)
          FirstSize,   \* the size of a new table (4 in the code)
          NoText       \* the empty string

ASSUME TableAssumption == Window \in Nat \ {0} /\ FirstSize \in Nat /\ FirstSize >= Window

NOT_FOUND == -1
Empty     == [valid |-> FALSE, addr |-> 0, text |-> NoText]

NewTable(size) == [table_size |-> size, slot |-> [i \in 0 .. size - 1 |-> Empty]]

\* The slots of a table that are used.
Valid(as) == {i \in 0 .. as.table_size - 1 : as.slot[i].valid}

assembly_create == NewTable(FirstSize)

Probe(as, addr, offset) == (addr + offset) % as.table_size

\* The first of these places in the window of an address.
FirstSlot(as, addr, offsets) ==
  IF offsets = {} THEN NOT_FOUND ELSE Probe(as, addr, Min(offsets))

assembly_find_entry(as, addr) ==
  FirstSlot(as, addr, {o \in 0 .. Window - 1 : LET e == as.slot[Probe(as, addr, o)]
                                               IN  e.valid /\ e.addr = addr})

assembly_find_empty(as, addr) ==
  FirstSlot(as, addr, {o \in 0 .. Window - 1 : ~as.slot[Probe(as, addr, o)].valid})

\* The table with an entry in this slot.
Put(as, idx, addr, text) ==
  [table_size |-> as.table_size,
   slot |-> [as.slot EXCEPT ![idx] = [valid |-> TRUE, addr |-> addr, text |-> text]]]

\* The table that a table is replaced by, before the entries are moved.
Larger(as) == NewTable(1 + 2 * as.table_size)

assembly_get(as, addr) ==
  LET idx == assembly_find_entry(as, addr)
  IN  IF idx = NOT_FOUND THEN NoText ELSE as.slot[idx].text

=============================================================================
