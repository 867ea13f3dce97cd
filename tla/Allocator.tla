------------------------------ MODULE Allocator ------------------------------
(***************************************************************************)
(* The small-block allocator of A6/handout/lib.c as operators on the       *)
(* state of the heap: a free list of blocks for every size, and the space  *)
(* behind the last block that was ever carved.  A heap is a record         *)
(*   headers     the free list of every size class, its head first,        *)
(*   free_space  the end of the carved part,                               *)
(*   size        for every block in use, the size stored in front of it.   *)
(* There is no limit on free_space: the code never checks for one.         *)
(***************************************************************************)
EXTENDS Integers, Sequences

CONSTANTS BLOCK_SIZE_STEP,
          MIN_ALLOCATION,
          NUM_SIZES,
          ChunkBlocks,     \* a chunk is carved for this many blocks (10 in the code)
          WordBytes,       \* sizeof(int), the room for the size of a block
          HeapStart

ASSUME AllocatorAssumption ==
  /\ BLOCK_SIZE_STEP \in Nat \ {0}
  /\ MIN_ALLOCATION \in Nat
  /\ NUM_SIZES \in Nat
  /\ ChunkBlocks \in Nat \ {0}
  /\ WordBytes \in Nat \ {0}
  /\ HeapStart \in Nat \ {0}

NULL == 0

Classes == 0 .. NUM_SIZES - 1

init_heap == [headers    |-> [k \in Classes |-> << >>],
              free_space |-> HeapStart,
              size       |-> << >>]

\* The size of a block for a request: with its size field, rounded up.
BlockSize(request) ==
  LET size   == request + WordBytes
      offset == size % BLOCK_SIZE_STEP
  IN  IF offset = 0 THEN size ELSE size - offset + BLOCK_SIZE_STEP

\* Faulty variant, for mutation testing: the chunk is carved one block too far.
CarvedTooMany(size) ==
  (IF size * ChunkBlocks < MIN_ALLOCATION THEN MIN_ALLOCATION \div size ELSE ChunkBlocks) + 1

\* How many blocks of this size are carved out of a new chunk.
Carved(size) ==
  IF size * ChunkBlocks < MIN_ALLOCATION THEN MIN_ALLOCATION \div size ELSE ChunkBlocks

\* The bytes that a new chunk takes from the free space.
Chunk(size) ==
  IF size * ChunkBlocks < MIN_ALLOCATION
    THEN (MIN_ALLOCATION \div size) * size
    ELSE size * ChunkBlocks

\* allocate(): the heap afterwards and the pointer that is returned.
allocate(h, request) ==
  LET size  == BlockSize(request)
      class == size \div BLOCK_SIZE_STEP
  IN  IF request < 1 \/ class >= NUM_SIZES THEN [heap |-> h, ptr |-> NULL]
      ELSE LET empty == h.headers[class] = << >>
               list  == IF empty THEN [i \in 1 .. Carved(size) |-> h.free_space + (i - 1) * size]
                                 ELSE h.headers[class]
               block == Head(list)
           IN  [heap |-> [headers    |-> [h.headers EXCEPT ![class] = Tail(list)],
                          free_space |-> h.free_space + (IF empty THEN Chunk(size) ELSE 0),
                          size       |-> [b \in DOMAIN h.size \cup {block} |->
                                            IF b = block THEN size ELSE h.size[b]]],
                ptr  |-> block + WordBytes]

\* release(): the block goes to the front of the free list of its size.
release(h, ptr) ==
  LET block == ptr - WordBytes
      class == h.size[block] \div BLOCK_SIZE_STEP
  IN  [h EXCEPT !.headers[class] = <<block>> \o @,
                !.size = [b \in DOMAIN @ \ {block} |-> @[b]]]

-----------------------------------------------------------------------------
\* The bytes of the blocks in the free lists, and those of the blocks in use.
FreeBlocks(h) ==
  UNION {{<<h.headers[k][i], k * BLOCK_SIZE_STEP>> : i \in DOMAIN h.headers[k]} : k \in Classes}

UsedBlocks(h) == {<<b, h.size[b]>> : b \in DOMAIN h.size}

Overlap(a, b) == a[1] < b[1] + b[2] /\ b[1] < a[1] + a[2]

\* Every block is inside the carved part of the heap and shares no byte with
\* another one, in use or free, and no block is in a free list twice.
HeapOK(h) ==
  LET blocks == FreeBlocks(h) \cup UsedBlocks(h) IN
  /\ FreeBlocks(h) \cap UsedBlocks(h) = {}
  /\ \A a \in blocks : HeapStart <= a[1] /\ a[1] + a[2] <= h.free_space
  /\ \A a, b \in blocks : a # b => ~Overlap(a, b)
  /\ \A k \in Classes : \A i, j \in DOMAIN h.headers[k] :
       i # j => h.headers[k][i] # h.headers[k][j]

=============================================================================
