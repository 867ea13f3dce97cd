-------------------------------- MODULE Radix --------------------------------
(***************************************************************************)
(* radix.c: numbers are read and stored in a radix tree; a negative number *)
(* -N takes the N smallest ones out again.  The nodes of the tree come     *)
(* from the allocator of lib.c.                                            *)
(*                                                                         *)
(* A node is a record with the address of its block; zero and one are its  *)
(* two subtrees, and in a leaf (bit_pos = 1) the two counters that share   *)
(* their storage.  What is read and how much a write accepts is chosen by  *)
(* the environment.                                                        *)
(***************************************************************************)
EXTENDS Allocator, FiniteSetsExt, SequencesExt, TLC

CONSTANTS MAX_BITS,   \* the most significant bit of a number
          OutMax,     \* the size of out_numbers
          MaxInputs,  \* bound: numbers in the input file
          MaxTake,    \* bound: the largest take
          MaxShort,   \* bound: writes that fail, behind any that accept a part
          Unset       \* what the array holds behind the numbers taken

NodeBytes == 4 * WordBytes
Numbers   == 0 .. 2 * MAX_BITS - 1

VARIABLES tree, heap,
          limit,        \* what the take under way still has to take
          out_numbers,  \* the numbers taken last
          to_write,     \* how many of them are still to be written
          output,       \* what the take under way or the last one has written
          inputs,       \* numbers read so far
          short,        \* history: how many writes accepted less than they were given
          finished

vars == <<tree, heap, limit, out_numbers, to_write, output, inputs, short, finished>>

Nil == [bit_pos |-> 0]

HasBit(number, bit_pos) == (number \div bit_pos) % 2 = 1

\* The bits from high down to the one above low in which two numbers differ.
Differing(a, b, high, low) ==
  {p \in {2^i : i \in 0 .. 30} : low < p /\ p <= high /\ HasBit(a, p) # HasBit(b, p)}

\* Faulty variant, for mutation testing: the tree branches on the least
\* significant differing bit.
BranchLow(bits) == Min(bits)

Branch(bits) == Max(bits)

RECURSIVE Insert(_, _, _, _)
\* add_number, from the place in the tree that parent points to.
Insert(t, bit_pos, number, h) ==
  IF t = Nil THEN
    LET new == allocate(h, NodeBytes)
    IN  [tree |-> [addr |-> new.ptr, bit_pos |-> 1, number |-> number,
                   zero |-> IF HasBit(number, 1) THEN 0 ELSE 1,
                   one  |-> IF HasBit(number, 1) THEN 1 ELSE 0],
         heap |-> new.heap]
  ELSE
    LET bits == Differing(number, t.number, bit_pos, t.bit_pos)
        p    == IF bits # {} THEN Branch(bits) ELSE Min({bit_pos, t.bit_pos})
        side == IF HasBit(number, p) THEN "one" ELSE "zero"
    IN  IF bits # {} THEN
          LET new   == allocate(h, NodeBytes)
              below == Insert(Nil, p \div 2, number, new.heap)
          IN  [tree |-> [addr |-> new.ptr, bit_pos |-> p, number |-> number,
                         zero |-> IF side = "zero" THEN below.tree ELSE t,
                         one  |-> IF side = "one"  THEN below.tree ELSE t],
               heap |-> below.heap]
        ELSE IF p > 1 THEN
          LET below == Insert(t[side], p \div 2, number, h)
          IN  [tree |-> [t EXCEPT ![side] = below.tree], heap |-> below.heap]
        ELSE [tree |-> [t EXCEPT ![side] = @ + 1], heap |-> h]

Copies(number, k) == [i \in 1 .. k |-> number]

\* Faulty variant: the odd numbers of a leaf are taken first.
TakeLeafOddFirst(t, room) ==
  LET ones  == Min({room, t.one})
      zeros == Min({room - ones, t.zero})
      even  == t.number - (t.number % 2)
  IN  [tree |-> [t EXCEPT !.zero = @ - zeros, !.one = @ - ones],
       taken |-> Copies(even + 1, ones) \o Copies(even, zeros)]

\* The numbers of a leaf, as far as there is room in the buffer.
TakeLeaf(t, room) ==
  LET zeros == Min({room, t.zero})
      ones  == Min({room - zeros, t.one})
      even  == t.number - (t.number % 2)
  IN  [tree |-> [t EXCEPT !.zero = @ - zeros, !.one = @ - ones],
       taken |-> Copies(even, zeros) \o Copies(even + 1, ones)]

\* An emptied node is released and unlinked.
Unlink(t, none, h) ==
  IF t.zero = none /\ t.one = none
    THEN [tree |-> Nil, heap |-> release(h, t.addr)]
    ELSE [tree |-> t, heap |-> h]

RECURSIVE Take(_, _, _)
\* take_numbers_2.
Take(t, room, h) ==
  IF t = Nil THEN [tree |-> t, taken |-> << >>, heap |-> h]
  ELSE IF t.bit_pos = 1 THEN
    LET r == TakeLeaf(t, room)
        u == Unlink(r.tree, 0, h)
    IN  [tree |-> u.tree, taken |-> r.taken, heap |-> u.heap]
  ELSE
    LET low  == Take(t.zero, room, h)
        high == Take(t.one, room - Len(low.taken), low.heap)
        u    == Unlink([t EXCEPT !.zero = low.tree, !.one = high.tree], Nil, high.heap)
    IN  [tree |-> u.tree, taken |-> low.taken \o high.taken, heap |-> u.heap]

RECURSIVE ReleaseTree(_, _)
\* release_tree.
ReleaseTree(t, h) ==
  IF t = Nil THEN h
  ELSE IF t.bit_pos > 1
    THEN release(ReleaseTree(t.one, ReleaseTree(t.zero, h)), t.addr)
    ELSE release(h, t.addr)

-----------------------------------------------------------------------------
(***************************************************************************)
(* The main loop.                                                          *)
(***************************************************************************)
Init ==
  /\ tree = Nil
  /\ heap = init_heap
  /\ limit = 0
  /\ out_numbers = << >>
  /\ to_write = 0
  /\ output = << >>
  /\ inputs = 0
  /\ short = 0
  /\ finished = FALSE

Reading == ~finished /\ limit = 0 /\ to_write = 0

Add ==
  /\ Reading
  /\ inputs < MaxInputs
  /\ \E number \in Numbers :
       LET r == Insert(tree, MAX_BITS, number, heap)
       IN  tree' = r.tree /\ heap' = r.heap
  /\ inputs' = inputs + 1
  /\ UNCHANGED <<limit, out_numbers, to_write, output, short, finished>>

\* A negative number starts a take.
Ask ==
  /\ Reading
  /\ inputs < MaxInputs
  /\ limit' \in 1 .. MaxTake
  /\ inputs' = inputs + 1
  /\ output' = << >>
  /\ UNCHANGED <<tree, heap, out_numbers, to_write, short, finished>>

\* One round of the loop: take what fits in the buffer.
TakeSome ==
  /\ limit > 0
  /\ to_write = 0
  /\ LET r == Take(tree, Min({limit, OutMax}), heap)
     IN  /\ tree' = r.tree
         /\ heap' = r.heap
         /\ out_numbers' = r.taken
         /\ to_write' = Len(r.taken)
         /\ limit' = IF r.taken = << >> THEN 0 ELSE limit - Len(r.taken)
  /\ UNCHANGED <<output, inputs, short, finished>>

\* Every write starts at the beginning of the buffer again.  One that fails, because
\* the output could not be opened (:152) for example, returns 0 or -1, which is taken for
\* the count: with -1 there is more to write than was taken.
Write ==
  /\ to_write > 0
  /\ \E written \in -1 .. to_write :
       /\ written > 0 \/ short < MaxShort
       /\ output' = output \o [i \in 1 .. written |->
                                 IF i <= Len(out_numbers) THEN out_numbers[i] ELSE Unset]
       /\ to_write' = to_write - written
       /\ short' = short + (IF written < to_write THEN 1 ELSE 0)
  /\ UNCHANGED <<tree, heap, limit, out_numbers, inputs, finished>>

\* The end of the input: the files are closed and the tree is released.
Finish ==
  /\ Reading
  /\ heap' = ReleaseTree(tree, heap)
  /\ tree' = Nil
  /\ finished' = TRUE
  /\ UNCHANGED <<limit, out_numbers, to_write, output, inputs, short>>

Next == Add \/ Ask \/ TakeSome \/ Write \/ Finish

Spec == Init /\ [][Next]_vars

-----------------------------------------------------------------------------
(***************************************************************************)
(* Properties.                                                             *)
(***************************************************************************)

RECURSIVE Contents(_)
\* The numbers in a tree, in the order in which the tree holds them.
Contents(t) ==
  IF t = Nil THEN << >>
  ELSE IF t.bit_pos = 1 THEN TakeLeaf(t, t.zero + t.one).taken
  ELSE Contents(t.zero) \o Contents(t.one)

RECURSIVE Addresses(_)
\* The addresses of the nodes of a tree.
Addresses(t) ==
  IF t = Nil THEN << >>
  ELSE <<t.addr>> \o (IF t.bit_pos = 1 THEN << >> ELSE Addresses(t.zero) \o Addresses(t.one))

\* Every block in use is the block of exactly one node of the tree, no block
\* overlaps another, and none is in use when the program ends (allocate, release).
NoNodeLost ==
  LET nodes == Addresses(tree) IN
  /\ HeapOK(heap)
  /\ Len(nodes) = Cardinality(ToSet(nodes))
  /\ ToSet(nodes) = {b + WordBytes : b \in DOMAIN heap.size}

\* As long as every write accepts what it is given, the numbers written for one
\* take are in ascending order, over all rounds of its loop, and none of them is
\* greater than one that is still in the tree.
WrittenInOrder ==
  short = 0 /\ (limit > 0 \/ to_write > 0) =>
    LET all == output \o (IF to_write = 0 THEN << >> ELSE out_numbers) \o Contents(tree)
    IN  \A i \in 1 .. Len(all) - 1 : all[i] <= all[i + 1]

\* The tree keeps what SortedBag promises.
Sorted == INSTANCE SortedBag
            WITH contents <- Contents(tree), wanted <- limit, batch <- out_numbers,
                 BatchMax <- OutMax
ImplementsSortedBag == Sorted!Spec

=============================================================================
