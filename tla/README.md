# Verification of the compSys programs

TLA+ models of the programs in this repository, the TLC runs that check them on
small instances, and TLAPS proofs of what holds for every size. The repository
is a set of seven independent C assignments (A0 to A6). They share no process,
but some share code (`compsys_helpers.c` is the same file in A3 and A4), and the
RISC-V programs of A6 run on the simulator of A5.

* [1 The system](#1-the-system)
* [2 The modules and the code](#2-the-modules-and-the-code)
* [3 The runs](#3-the-runs)
* [4 Fairness](#4-fairness)
* [5 The proofs](#5-the-proofs)
* [6 Where the code departs from what it says](#6-where-the-code-departs-from-what-it-says)
* [7 What is not modelled](#7-what-is-not-modelled)
* [8 Plan](#8-plan)

To check a run: `tlc -config MCFibs.cfg MCFibs`. To check the proofs of a module:
`tlapm JobQueue_proofs.tla`; there are eight of them, all called `*_proofs`.

## 1 The system

| Part | State it keeps | Operations | What is hard about it |
|---|---|---|---|
| A0 `file.c` | the position of one stream | five predicates classify a file by its bytes | each predicate starts where the last one left the stream; one of them moves it backwards |
| A1 `record.c`, `id_query_*.c`, `coord_query_*.c` | array of records, an index of it | read, build an index, look up | growth of the array; four indexes that must agree with a scan; memory that was never set |
| A2 `job_queue.c` | ring buffer, one mutex, three condition variables, shutdown flag, number of consumers inside `pop` | `init`, `push`, `pop`, `destroy` | unlocked reads, lost wakeups, shutdown against consumers that arrive, sleep or leave |
| A2 `fibs.c`, `fauxgrep-mt.c`, `fhistogram-mt.c` | a queue, worker threads, output or a shared histogram | `main` feeds and joins, workers pop and work | end of the process against work in hand; files that cannot be opened; merges |
| A3 `networking.c` | a salt file per user, which outlives the process | find or make a salt, register the user, fetch two files | a start that is killed between two steps; replies that are cut off, damaged or lost; a salt that was never set |
| A3/A4 `compsys_helpers.c` | buffer, pointer and count of a buffered reader | `readn`, `writen`, `readinitb`, `readnb`, `readlineb`, `open_clientfd` | short reads and writes, signals, counters off by one; a caller that reaches into the buffer |
| A4 `peer.c`: list of peers | `network`, `peer_count`, `network_mutex` | server: register, inform, retrieve; client: register, pick a peer | two threads, a mutex that covers only part of what they do |
| A4 `peer.c`: transfer of a file | output file, values of the first block | `send_message(COMMAND_RETREIVE)` | blocks out of order, repeated, damaged; a peer that closes or falls silent in the middle; an older output file |
| A5 `memory.c`, `assembly.c`, `read_exec.c`, `main.c`, `simulate.c` | paged memory, hash table of text, registers | load, store, set, get, load a program, execute | stores at the edges of words; growing the table in the middle of a rehash; the limits of arithmetic |
| A6 `radix.c` | a tree that branches on bits | add a number, take the smallest | a tree with holes after a take; rounds of a bounded buffer |
| A6 `lib.c` | free lists and the end of the carved memory | `allocate`, `release` | blocks that overlap or are handed out twice |

The parts interact as follows. The three programs of A2 call the queue from one
producer (`main`, which later destroys it) and several consumers. In A4 the
server and the client thread of a process share the list of peers, and both talk
through `compsys_helpers.c` to other peers. In A5 `main.c` and `read_exec.c`
write memory and text before `simulate.c` runs. In A6 the tree takes its nodes from the
allocator.

What makes each part correct, in one line:

* queue: bounded FIFO, no job lost or repeated, no sleeper forgotten, torn down
  only when empty and unused;
* worker programs: the same output as the sequential program, complete when the
  process ends;
* reads and writes: the stream arrives as it was sent, whatever `read`, `write`
  and signals do;
* client of A3: success is reported only for a user whom the server has stored with
  this signature, as far as a status without a checksum can be believed, and a later
  start signs as an earlier one did;
* list of peers: a reply announces and hashes the list of some moment, and nobody
  is lost from the list;
* transfer: a file that is reported as good is the file of the other peer, an
  honest peer is believed in any order of blocks, and no peer that closes its
  connection keeps the client waiting;
* file: the answer is the format that the bytes have by definition;
* queries: every index gives the answer of a scan;
* simulator: memory is flat, text is the last one set, instructions do what the
  manual says;
* radix: a sorted bag, in memory that is not shared, leaked or released twice.

`PROJECT.json` lists the hazards line by line, with the properties for each.

## 2 The modules and the code

`PROJECT.json` maps every definition to its lines. Definitions keep the names of
the source. Each module has some definitions called *faulty variants*: mistakes
that the code could have and has not. Each is the size of one guard, one
assignment or one bound, and each makes a property of a run fail when it takes
the place of the definition below it.

**`JobQueue`** (`A2/job_queue.c`). The variables are the fields of `struct
job_queue`, the owner of the mutex, one set of sleepers per condition variable
and a control point per thread. `push`, `pop` and `destroy` are split where
another thread can observe them: `queue_count`, `cons_amount` and
`queue_to_be_destroyed` are read without the mutex at `:56` and `:88`, so the
accesses to them are steps of their own (`PopReadFlag`, ...), and everything
else done under the mutex is merged with it. A wait returns by a signal or
spuriously. `assert` on the result of a lock is a step to `failed`. History
variables: `pushed`, `taken`. `Abandoned` are the states in which all consumers
have gone and destroy still sleeps. **`BoundedFifo`** is what `job_queue.h` promises.

**`WorkerPool`** extends `JobQueue` with what the programs have in common: the
loop of `main`, the end of the input, the joins, and the heap of copied lines or
paths; nothing runs any more when `main` has returned or an `assert` has failed
(`Running`). **`Fibs`**, **`FauxgrepMT`** and **`FhistogramMT`** add the body of the
worker. Options select the number of threads, which is a constant; the walk of
`fts_read` is the sequence of files it yields. The addition of
`merge_histogram` is a read and a write, since only the mutex keeps them
together. The sequential programs `fauxgrep.c` and `fhistogram.c` are the
references of the last two; fibs has the mathematical definition.

**`CompsysHelpers`** (`compsys_helpers.c`, the same file in A3 and A4). One side
calls `writen` and closes, the other makes any sequence of calls, all plain or all
buffered. What `read` and `write` return is the environment: any number of bytes, an
interruption or an error. `Refill` and `CopyOut` are `compsys_helper_read`;
`readlineb` asks for one byte at a time.

**`ServerRequest`** extends it with one particular caller: `handle_server_request`
of `peer.c`, which makes one buffered read for the header and then copies the
body out of the reader's internal buffer. `first` remembers how much the first
`read` brought.

**`NetworkingClient`** (`A3/src/networking.c`). One client is started again and
again; `Kill` ends it between any two steps, `save_to_disc` is divided at the
`fopen` that empties the file. A string is the sequence of its characters up to
the terminator and a hash is the string it is the hash of, so that what matters
can be seen: which bytes are hashed. Memory that the code does not initialise
(`user_salt`, the byte behind a generated salt, the bytes of `&salt`) is chosen.
`open_clientfd` walks the addresses as the code does. The server is external; it
stores a new user, refuses a known one, and closes after its reply. `Delivered` is
what the network makes of the reply: it can damage the length, the status, and the
text or its hash, alone or together, and cut it off in the header or behind it. The
other fields of the header are not looked at by the client. `Verdicts` is what
`register_user` makes of what arrives.

**`PeerList`** (`A4/src/peer.c`). `network`, the room the array has, and which
pointers were set are the state; a `realloc` and the store of its result are two
steps. The server loop with `handle_register`, `handle_inform` and
`handle_retreive`, and the client loop with its registration and
`get_random_peer`, one entry at a time, interleave. A reply has what is hashed and
what is sent as two fields: the code assembles it in an array of pointers and sends
another part of that array (section 6); `Gap` is the number of entries in between,
28 in the code. What C leaves undefined sets `undefined` and ends
the execution. The initial states are those in which `main` starts the threads:
with or without a peer to register with.

**`Retrieve`** (`send_message` for `COMMAND_RETREIVE`). A file is a sequence of
bytes, a hash is the data it is the hash of. The other peer is external: it
sends correct blocks in any order, but may also repeat one, announce another
number of blocks or another hash, damage a payload or refuse, and at any point
it may close the connection (`PeerCloses`) or fall silent (`PeerStops`). The
client looks at the result of no read, so that at the end of the stream it
parses what `msg_buf` still holds (`HeaderAtEof`, `PayloadAtEof`): what arrived and
behind it the rest of an earlier message (`Stale`). A hash that was damaged or never
arrived is the hash of no file (`Garbage`). `Written` is
`fputs`, which stops at a NUL; `Overwrite` is a write behind an `fseek`.

**`Memory`**, **`AssemblyTable`** and **`Simulator`** (A5). Memory is a function
of pages made on demand; loads and stores of halfwords and bytes take words
apart as the code does. The table has windows of slots, a size that grows and
the rehash that starts again when a window is full. `Simulator` takes the steps
of a run: the count, the pointers and the characters of the arguments
(`PassCount`, `PassPointer`, `PassChar`), one byte of a line of data or one line
of the file after the other, one instruction after the other. `assembly_set` takes
several: `SetText` finds a slot or makes a larger table, `Rehash` moves one slot of
the old one (`Move`, which begins again when a window is full), and `SetAgain` is
what follows. A line is what `sscanf` makes of it, an instruction word is the
instruction it encodes; how the code extends immediates is modelled, because it
does not always do so. The powers of two and the bitwise AND are constants, of
which `WordAssumption` and `AndAssumption` say what they are; `MCSimulator` gives
them their values. History variables: `bytes`, the memory as plain bytes,
`texts`, the text last set for each address, and the parity of the number of
executed instructions, so that an instruction that should have changed something
and did not is visible as a step. **`RiscvIsa`** is written from the RISC-V manual
and is the reference.

**`Allocator`** and **`Radix`** (A6). The heap is a record with the free lists,
the end of the carved memory and the sizes stored in front of the blocks in use;
`allocate` and `release` are operators on it. A node of the tree is a record
with the address of its block. **`SortedBag`** is what the tree promises.

**`FileFormat`** (`A0/file.c`). A file is a sequence of classes of bytes, the
eight that the tests of the code tell apart; the state is the position of the
stream and the predicate that is reading. One step is one turn of a loop, and
`Count` has the four ways in which a turn of `count_utf_multiByte_characters` can
go. `Definition` is the reference: what the formats are for `file(1)`, with whose
answers `A0/test.sh` compares, and without a stream.

**`Queries`** (A1). `record.c` and the loop of `id_query.c`, with `mk_index` and
`lookup` of five programs. A line is the sequence of its columns; a column that is
missing leaves the field as `malloc` returned it. Tree nodes have children that are
`NULL`, a node, or `Wild`, a pointer that was never set; the model stops where the
program follows one. The name of a record whose line has no tab is `Wild` as well, and
the model stops where it is printed. `Distance` is squared.

**`Tools`** puts the last two together, so that one run and one set of theorems
covers them: an execution is one of `file` or one of a query program.

## 3 The runs

| Run | Instance | Properties |
|---|---|---|
| `fibs` | 3 workers, 2 slots, 3 lines of which two are the same, 1 spurious wakeup | of the queue: `TypeOK`, `RingFifo`, `ConsAmountExact`, `NoLostWakeup`, `TornDownOnlyWhenDrained`, `AbortOnlyWhenDrained`, `ImplementsFifo`, `EarlyReturnNeverAbandons`; of the program: `ExitedComplete`, `NoUseAfterFree`, `EveryLineAnswered` |
| `job_queue_blocked_pop` | 2 workers, 2 slots, 3 jobs | violates `BlockedPopReturnsAfterDestroy` |
| `fauxgrep` | 2 workers, 3 files, every choice of unreadable ones | `OutputIsPrefix`, `SearchedWhileWorkersLeft` |
| `fhistogram` | 2 workers, 2 files, 2 bits to a byte, a merge every 2 bytes | `BitsConserved`, `EverythingCounted` |
| `compsys_helpers` | a buffer of 4 bytes, a message of 5 with two lines, requests of 0, 1, 2, 5 and 7 bytes, the largest `int` 7, 1 signal; for the server a header and a body of 2 bytes each | `TypeOK`, `WrittenInOrder`, `StreamConserved`, `ShortOnlyAtEnd`, `BodyIsWhole`, `EveryCallReturns` |
| `networking_client` | 1 user, 2 passwords, salts of 2 letters, 2 addresses, 3 starts, one damaged field at most | `ShownIsRegistered`, `KnownAgain`, `EveryStartEnds` |
| `peer_list` | 2 other peers, 3 requests, a reply of no, 1 or 2 peers, a gap of 1 entry | `ReplyHashesSnapshot`, `ListIsHistory` |
| `peer_list_race` | the same without the empty reply, which has an error of its own | violates `NoUndefinedAccess` |
| `retrieve` | blocks of 2 bytes; files of 5, 4, 3 and 2 bytes, two of them with a NUL; no, a shorter or a longer old file | `AcceptedIsOriginal`, `OrderDoesNotMatter`, `TransferEnds` |
| `tools` | every file of up to 4 classes of bytes; 6 tables, an array that starts with 2 records, 2 queries | `FormatIsDefinition`, `EveryFileAnswered`, `RecordsAreLines`, `AnswerIsRight`, `QueriesEnd` |
| `simulator` | words of 8 bits in 4 digits, pages of 4 words, tables of 2, 5 and 11 slots; every instruction on 28 register states | `MemoryIsFlat`, `TextIsLast`, `SimulatesRiscV` |
| `radix` | numbers of 3 bits, 5 inputs, a buffer of 2, takes of up to 4, 1 write that fails, chunks of 2 blocks | `NoNodeLost`, `WrittenInOrder`, `ImplementsSortedBag` |

What the ones that take several steps to break say:

* `NoLostWakeup`: while a consumer sleeps, every job has an awake consumer of its
  own, and the producer sleeps only on a full ring or with a signal on its way.
* `EarlyReturnNeverAbandons`: the step with which the last consumer leaves while
  destroy sleeps is never the return at the top of `pop`, although that return
  signals without the mutex; it is the way out through the loop (section 6). It
  says nothing of consumers that stay: destroy also sleeps on while they sleep on
  `cons_cond` (`job_queue_blocked_pop`), or when a worker stops calling `pop`.
* `SearchedWhileWorkersLeft`, `EverythingCounted`: the output is complete before
  `main` returns, although unreadable files kill workers in the one program and
  not in the other.
* `BodyIsWhole`: the server's way to the body of a request is right whenever the
  first `read` brought all of it, also if the buffer is filled again later.
* `ShownIsRegistered` leaves one gap, which the code has (section 6): a status that
  was damaged. `altered` records it. Even then the server knows the user.
* `ShownIsRegistered`, `KnownAgain`: two starts of the client, the salt file and
  the server, with a crash or a lost reply between any two of them.
* `AcceptedIsOriginal`, `TransferEnds`: also when stale bytes are parsed.
* `FormatIsDefinition`: the predicates share one stream and leave it in different
  places; the definition knows no stream. Where a predicate by itself takes a file for
  something else than `file(1)` does (`Tolerated`, `Mixed`: section 6), the property
  says what it takes it for, and nothing else may go wrong.
* `AnswerIsRight`: five programs against one definition.

Why the bounds are enough to be interesting:

* *Queue*: more lines than slots, so that the ring is full and wraps; more
  workers than slots, so that consumers sleep while others leave; one spurious
  wakeup, which can meet each of the three waits. `TornDownOnlyWhenDrained` and
  `AbortOnlyWhenDrained` need a consumer that is still on its way when destroy
  has found the queue empty, and `failed` is reached.
* *Programs*: two workers and more items than slots make main wait in push. The
  histogram has a file that is merged in the middle and at its end.
* *Helpers*: the message needs several refills; the requests are below and above the
  size of the buffer and of the message, and include 0 and 1, for which the loop of
  `readlineb` is never entered, and the largest `int`. The request of the server
  fills the buffer, and one more byte can overwrite its beginning.
* *Client of A3*: three starts are one that makes the salt, one that reads it and
  registers, and one that must be known; `fgets` drops the last letter of a salt of
  two and leaves one. One damaged field is enough to be noticed or believed. The
  second address is tried after the first.
* *Tools*: four bytes hold the longest character, one that is disproven at each
  of its bytes, and two characters in a row. The array grows twice from 2, the
  tables have no line, one line, keys in and out of order and equal, a line that
  ends before its number, one that ends before its latitude and one without a tab.
* *Peers*: two requests can meet the one growth of the list by the client. With a
  gap of one entry a reply of two peers has an entry of the list in the wrong place.
* *Transfer*: a last block that is short, one that is full, a binary file, and one
  of whose only block nothing is written; the connection ends before, in and behind
  each of them.
* *Simulator*: words are narrow, but have a sign, four bytes and two halfwords;
  operands are 0, small, the largest and smallest number and -1. The addresses
  of the files collide in each of the three sizes of the table, and the
  placements need one rehash inside another. As the count of a shift one of the five
  second operands is 0, one is inside the width of a word, and three are beyond it.
* *Radix*: five inputs are enough to add below a hole that a take has left; a
  take of 4 needs two rounds. One write that fails is enough for more to be left to
  write than was taken. Chunks of two blocks make the tree use several,
  and take nodes from the free list again.

A run stops without `CHECK_DEADLOCK` where the program ends or where, as the
violated properties show, it can block: in none of these systems is a state
without successor an error of its own.

## 4 Fairness

Safety runs assume nothing. The liveness properties assume weak fairness of each
thread (`MainStep` and `WorkerStep(w)` as wholes, and their counterparts in the
programs): a thread that can take a step takes one. A thread that waits for a
mutex can be overtaken only finitely often in a model, because the number of
jobs and of spurious wakeups is finite; that is why weak fairness is enough for
locks. Nothing makes a spurious wakeup, a signal or an error happen, and no
property depends on one. `EarlyReturnNeverAbandons` is an action property and needs no
fairness.

`EveryCallReturns` assumes that `write` goes on accepting bytes and the writer
closes (`Writer`), and that a `read` that can transfer bytes or report the end
of the stream is carried out (`ReadPlain`, `Refill`, `CopyOut`, `ReadEof`): that
is what a connected, live socket does. Without the close `readn` does wait for
ever, since it wants its buffer full.

`TransferEnds` assumes only that the client runs when its read has something to
return: data, or the end of a closed connection. Nothing makes the other peer
close, and silence is excepted. `EveryStartEnds` assumes that the server answers
and closes (the client reads until then, and has no timeout) and that nobody has
to kill the client. `QueriesEnd` and `EveryFileAnswered` are about sequential
programs on finite input: a program that can go on does.

## 5 The proofs

Each module `M_proofs` holds the proofs about one component; `WorkerPool_proofs`
those about fibs and fauxgrep, `Tools_proofs` those about the tools of A0 and A1 and
the client of A3, `CompsysHelpers_proofs` those about the helpers and the server that
calls them. All theorems of one component follow from one inductive invariant, or from
one and a second that rests on it; initial states, steps and the conclusion are
separate lemmas, and the steps are divided by action. The constants are assumed to
be what the `ASSUME` of the component's module says, which TLC evaluates in the
runs.

| Module | For every | Theorem | States |
|---|---|---|---|
| `JobQueue_proofs` | number of workers, slots, jobs and spurious wakeups | `TypeCorrect` | `TypeOK`: both pointers stay inside the array |
| | | `RingIsFifo` | `RingFifo`: no job is overwritten, lost, repeated or reordered |
| | | `ConsAmountCorrect` | `ConsAmountExact`: the counter that destroy relies on is right |
| | | `NoWakeupLost` | `NoLostWakeup` |
| | | `TornDownSafely` | `TornDownOnlyWhenDrained` |
| | | `AbortsDrained` | `AbortOnlyWhenDrained` |
| | | `EarlyReturnSafe` | `EarlyReturnNeverAbandons`, an action property |
| | | `QueueImplementsFifo` | `ImplementsFifo`: every step is one of `BoundedFifo` or none |
| `WorkerPool_proofs` | number of workers and slots, input | `FibsRunsQueue` | `FibsSpec => Spec` of the queue |
| | | `LinesUsedSafely` | `NoUseAfterFree` |
| | | `FibIsFibonacci` | `fib` is the mathematical function |
| | | `CompleteAtExit` | `ExitedComplete` |
| | number of workers and slots, files, matching lines | `GrepRunsQueue` | `GrepSpec => Spec` of the queue |
| | | `GrepPrintsPrefixes` | `OutputIsPrefix` |
| `FhistogramMT_proofs` | number of workers and slots, files, distance of merges | `HistRunsQueue` | `HistSpec => Spec` of the queue |
| | | `NoBitLost` | `BitsConserved` |
| `CompsysHelpers_proofs` | message, buffer size, requests, signals | `HelperTypes` | `TypeOK`: the unread bytes lie inside the buffer |
| | | `WritesInOrder` | `WrittenInOrder` |
| | | `NoByteLost` | `StreamConserved` |
| | | `ReadsAreFull` | `ShortOnlyAtEnd` |
| | header and body that fit the buffer | `ServerReads` | the two above, in the server |
| | | `BodyFound` | `BodyIsWhole` |
| `PeerList_proofs` | peers, requests, replies | `SnapshotHashed` | `ReplyHashesSnapshot`, with both threads, for any gap |
| | | `ServerAloneKeepsList` | `ListIsHistory` |
| `Retrieve_proofs` | files, old files, length of a block | `OnlyOriginalAccepted` | `AcceptedIsOriginal` |
| | | `HonestPeerBelieved` | `OrderDoesNotMatter` |
| `Tools_proofs` | files; tables, queries, first size of the array | `FormatFound` | `FormatIsDefinition` |
| | | `RecordsKept` | `RecordsAreLines` |
| | | `AllProgramsAgree` | `AnswerIsRight` |
| | users, passwords, salts, stack contents, starts | `SuccessIsTrue` | `ShownIsRegistered` |
| | | `UserKnownAgain` | `KnownAgain` |
| `Simulator_proofs` | size of bytes, pages, windows and first table; arguments, file, instructions | `MemoryReadsLikeBytes` | `MemoryIsFlat` |
| | | `TextsAreKept` | `TextIsLast` |
| | | `FollowsManual` | `SimulatesRiscV`, an action property |

### The queue and the programs on top of it

`QueueAssumption`: finitely many workers, different from `Main` and `Nobody`, at
least one slot. The inductive invariant `IInv` is the conjunction of the properties
that are inductive together and four parts that none of them says:

* `MutexInv`: a thread owns the mutex exactly in its critical sections. Without
  it two threads could be past the lock and both change the ring.
* `SleepInv`: a thread in a set of sleepers is at the wait of that condition.
* `ProgressInv`: the flag and the storage follow the control of main, and main
  pushes only jobs that are left. Without it a push could follow a destroy.
* `DrainInv`: once destroy is past its loop the ring is empty, and the consumers
  inside `pop` have only just come in. This is the part that needs the argument:
  a consumer may have read the flag before it was set and lock the mutex after
  destroy has given it up, so that "no consumer inside" does not hold between
  `destroy_mutex` and the destruction of the mutex; that the ring stays empty
  and that such a consumer cannot have taken or be waiting for a job does.

`NextIInv` is divided by conjunct (`RingStep`, `ControlStep`, `TypeStep`,
`DrainStep`, `ProducerStep`, `ConsAmountStep`, `ConsumerStep`), each with a step
per action. `ConsumerStep` counts: a push adds a job and wakes a sleeper, which
is one more consumer that looks; a pop takes one job and is one consumer less.
The refinement is `FifoStart` and `FifoStep`; `PushPutAppends` and
`PopTakeDelivers` show that the ring, read off from `cons_pointer`, grows and
shrinks as the sequence of `BoundedFifo` does.

`EarlyReturnSafe` adds `LeavingInv`: what a consumer has read on its way through the
early return (the flag set, the ring empty) stays true, so that its unlocked signal
cannot come before a destroyer that still has a reason to sleep. It is stated for a
set of workers that is not empty: without any, the set of those who have left is
all of them from the start. The programs refuse to run with fewer than one thread.

`FibsRunsQueue`, `GrepRunsQueue` and `HistRunsQueue` say that every step of the
program is one of the queue or leaves it alone, fairness aside; so everything above
holds in the programs. On top of `IInv` fibs needs `TaskInv` (the loop of a worker
agrees with its place in `pop`), `OwnInv` (a job that a worker has was taken from
the queue, and no other worker has it) and `HeapInv` (which copies are allocated,
said in terms of jobs pushed, taken and done); `OutputInv`, that the output is the
bag of the answers of all jobs that are done, gives `CompleteAtExit` together with
the joins. The histogram needs `MergeInv`: a worker that merges holds the mutex, so
that what it has read of the global histogram is still there when it writes; the
bits it has merged it has cleared, and it has nothing left when the next file
begins.

For `GrepPrintsPrefixes`, `GrepTaskInv` says that a worker that searches has a file that
was taken from the queue and that no other worker searches; nobody else can print
lines of it. `PrintedInv` says how far each file is: of a file that no worker has
yet nothing is printed, and of one that is searched the matching lines before the
one that is read next, in their order. The lines of several files interleave, so
that the lines of one are picked out by their places in the output (`WellPlaced`,
`PrintLine`), and the place of a line among the matching lines of its file is its
rank.

`FibIsFibonacci` and `NoBitLost` are about recursive functions, the recursive `fib`
and the sum over all workers. That such a function satisfies its defining equation
is not for free: it is shown by constructing approximations that agree up to every
number, or on every subset up to a size, and by taking a least counterexample.
Arithmetic is unbounded, as in the model.

### Reads, writes and the server's request

`HelperAssumption`: the message is a sequence of bytes, the buffer has at least one
byte, and no caller asks for more than the largest `int`, to which the code converts
what is asked for (`ConversionExact`). The inductive invariant is `TypeOK`,
`WriterInv` (where `bufp` and `nleft` stand in the message, and that exactly the
bytes before `bufp` were accepted), `CallInv` (which calls belong to which style,
and how much of a request is left) and `StreamConserved`, which is almost inductive
itself: it relates the bytes of earlier calls, of this call and of the buffer to
what `read` has returned. `ShortOnlyAtEnd` follows with `LineInv`, that a line under
way holds no newline yet.

`ServerRequest` adds a caller and changes nothing that the helpers use, so that the
results above carry over (`ServerReads`). `ServerInv` says where the buffer stands
while the header is read: if the first `read` brought the whole request, no second
one happens (`NotAsking`), and the body is still where the server looks for it.

### The client of A3

`ClientAssumption`: names, salts and what the stack may hold are strings over
`Chars`, the newline is not a letter of a salt, and a salt has at least two. The
invariant has `WireInv` (there is a request or reply only while this start waits for
it, and the request carries this start's signature), `ShownInv` (a reply that can be
taken for a success means that the server has stored exactly that signature, or that
the status was damaged and the server has stored another) and
`SaltInv`: a start that writes the salt file has found none, a start that has found
one signs with it, and a user who was registered from the file is stored with the
signature that its first line gives. Since a kill can leave an empty file, "found"
has to mean a salt that is not empty.

### The peers and the transfer

`PeerAssumption`: the two marks for a slot that was never set or is gone are
different and are no peers. The list is used by two threads and a mutex that covers
half of it, and undefined accesses do happen (section 6); `SnapshotHashed` holds in
spite of that. `CountInv` gives `peer_count` a history; `ListInv` says that a slot
below `peer_count` holds what was counted in there or nothing usable any more, never
another peer; so a copy that does not run into undefined behaviour is right, and
`ReplyInv` says it is a prefix of the history; what is hashed is a prefix of the
copy, and what is sent are its first entries, `Gap` places further on. An accepted
reply without a peer adds `Blank`, what lies behind the reply. `AloneInv` adds what
is true in a process without a client thread: the array always has room.

`RetrieveAssumption`: files are sequences over `Bytes`, of which `Nul` is one,
`Garbage` is no file, and a block has at least one byte. `OnlyOriginalAccepted` rests
on `HashInv`: the total hash that the client compares with is the one of the
original or of no file at all, also when the header was parsed from stale bytes.
The proof attempt corrected the model: a damaged hash used to be the hash of the
empty file, and a file that begins with a NUL, of which `fputs` writes nothing, would
have been accepted under it; it is `Garbage` now, the hash of no file, and the run has
such a file. `HonestPeerBelieved` has `OrderInv`: the
loop counter counts the blocks that were written (`CountInv`), and the bytes of each
of them are right wherever the later ones are written (`BytesInv`), with the
arithmetic of block numbers and offsets as lemmas.

### The tools of A0 and A1

`FilesAssumption`, `QueriesAssumption`: files are sequences of classes, lines are
sequences of numbers, and the array starts with room for at least one record.

The query programs have five kinds of index. `RowsInv` says that the records read
are the lines that are long enough, in some order; `MadeInv` what the index is while
it is built, `SearchInv` what a look-up knows so far: nothing before the record
looked at matches, or what matches lies between `left` and `right`, or below the
link that the recursion has come along. The tree is the hard one. `TreeInv`
describes it by the keys alone, without a recursion over its shape: the node at a
link is the first of the records that belong below the link (`Part`), and a record
belongs there exactly if it compares with every node above as the link does. A new
record is then shown to change exactly the one link that the insertion has walked
to, and the walk of a look-up to lose no record that matches.

For `file`, `StreamInv` and `PrefixInv` say what each predicate knows of the bytes
before the position: that all of them are of its kind, or which characters among
them were whole. The difficult step is the one that moves the stream backwards:
`RunIs`, `EndsInside` and `GoesNowhere` show that it passes by no whole character,
except in the two cases that `FormatIsDefinition` excludes. The rest is about bytes
alone: `TakenIsDefinition` compares what the predicates take a file for with
`Definition`, and the two differ for the files that are `Tolerated` or `Mixed`.

### The simulator

The assumptions are that a byte has at least one bit and a page at least one word,
that a table is at least as large as a window, that `Pow2` and `BitAnd` are what their
names say, that the arguments lie at an aligned address, and that an instruction
that a word encodes has registers and an immediate of its format. They hold for
the 32 bits of the code as for the narrow words of the run. Addresses of
instructions are not negative as an `int`, since the table would be indexed below its
beginning (section 6).

`MemoryInv` has types (`InputInv`, `MachineInv`) and `Flat`: every aligned word of a
page that exists is composed of the four plain bytes at its address, and those of a
page that does not exist are 0. The stores of halfwords and bytes replace digits of
a number: `Digits` takes a word apart, `Composed` shows what its digits are, and both
come down to the uniqueness of quotient and remainder (`DivUnique`). That a load
creates a page, also the fetch of an instruction, leaves `Flat` alone (`PageFlat`).

`TableInv` has `TableOK` (every entry is in the window of its address, and no address
is there twice) and `Holds` (the entries are the texts that were set). While the
table is rehashed `Holds` is said of the old table, and of the new one `Copied`: it
holds the entries of the slots that are done, and no others. The address that is
being set is in neither, which is why `SetAgain` need not look for its entry
again. `Move` may begin again any number of times; that it ever ends is no safety
property, and is seen in the run.

`FollowsManual` compares one step with `RiscvIsa` under `MemoryInv`, class by class:
`RtypeRight` and `ImmediateRight` for the results, `LoadRight` and `StoreRight` for the
memory, which rest on `Flat`. The code computes on numbers of one sign where the
manual has the other, so most of it is congruences (`ModPlus`, `ModTwice`,
`ModMultiple`, `SignedProduct`), and a shift of a signed number is shown to be that of
the manual (`ShiftsAgree`).

### Only model-checked

* Liveness (`EveryLineAnswered`, `SearchedWhileWorkersLeft`, `EverythingCounted`,
  `EveryCallReturns`, `EveryStartEnds`, `TransferEnds`, `EveryFileAnswered`,
  `QueriesEnd`), because fairness and ENABLED are out of the prover's reach.
* `Radix` with `Allocator` (`NoNodeLost`, `WrittenInOrder`, `ImplementsSortedBag`): the
  tree is a recursive value and a take a recursive operator on it, and the prover
  has no induction over such data. The liveness of `Radix` is not checked either: the
  evaluation of ENABLED by TLC repeats the recursion of a take at every level.
* `BlockedPopReturnsAfterDestroy` and `NoUndefinedAccess` are violated (section 6).

## 6 Where the code departs from what it says

Two disagreements have a run of their own:

* `job_queue.h:35` says that a blocked pop returns when the queue is destroyed;
  `job_queue_destroy` does not signal `cons_cond`, so that a consumer that
  sleeps on an empty queue sleeps for ever, and destroy waits for it
  (`job_queue_blocked_pop`).
* `peer.c:451` and `:508` rely on the lock and on room for one more pointer; the
  reallocations and some reads are outside the lock, and the client makes room
  for what it received, not for what there is (`peer_list_race`).

These are in the models as the code has them, and the properties are stated
around them:

* *Queue.* `PopLeave` signals `cons_cond` but not `cond_destroy`; if it is the
  last consumer, destroy is left asleep; `EarlyReturnNeverAbandons` says that the
  other return of -1 does not do that. Two more ways to leave it asleep are the
  consumers asleep on `cons_cond` above and a worker that never pops again. A consumer
  that read the flag before it was set may lock a destroyed mutex, which an
  `assert` turns into an abort; `AbortOnlyWhenDrained` says what is left of it.
  A push after destroy would unlock a mutex it does not hold, where
  `job_queue.h:29` has an error code; no program does that.
* *Programs.* A worker of fauxgrep-mt that cannot open a file returns from the
  thread (`fauxgrep-mt.c:41`); with no worker left main blocks in push, and files
  that could be read are not searched. A worker of fhistogram that never got a job
  frees a pointer that was never set. `fib` overflows from 46 on.
* *Peers.* The reply to a registration is put together in an array of `char*`
  (`peer.c:477`, "Assemble reply header and reply body"): the list is copied to byte
  640, eight times the length of the header, but only the header and as many bytes
  as the list has are sent. A peer receives 560 bytes of the stack before the first
  entry, and never the last 28 entries; the hash in the header is that of the list,
  so that a client which checks it, as `send_message` does, turns the reply down
  unless the stack happens to hold the list. A client that accepts a reply without a
  peer reads its first entry from behind the reply (`:367`). `get_random_peer`
  divides by the number of candidates, also when it is 0. `handle_retreive` "will
  always generate a response" (`:534`), but gives none for a file that cannot be
  opened or read; the response has no header, and its length is that of a header and
  a pointer, whatever the file's. Connections are never closed by the server, so
  that a client that expects more than the 36 bytes it is sent reads for ever. The
  body of a request is taken out of the reader's buffer without a read: a request
  that `read` divides is answered from bytes that are not there yet. Some fields of
  replies are not converted to network order.
* *Transfer.* The output file is not truncated, so that an old file that is
  longer makes a correct transfer fail; `fputs` stops at a NUL, so that binary
  files fail. Both end with the message about the hash, never with a bad file.
  An output file that cannot be opened is used all the same. The results of reads
  are ignored: a connection that ends is noticed only because stale bytes do not
  have the right hash, and a stale length may be too large for the stack, or for the
  `int` that `compsys_helper_read` makes of it (`compsys_helpers.c:29`). A peer
  that falls silent blocks the thread.
* *Client of A3.* `register_user` looks at the checksum "Ensuring with checksum that
  the response message has not been tampered with" (`networking.c:167`), but the
  checksum covers the text only: the status is believed as it arrives, and a refusal
  whose status was damaged to 1 is printed as a success. `user_salt` is tested
  before it is set (`networking.c:386`): what the stack holds may be taken for a
  salt, which is then saved nowhere. A generated salt has no terminator. `find_file`
  passes `SALT_LEN` to `fgets`, which reads one character less, so that the start
  that makes a salt signs differently from all later ones and a user registered by
  it is not known again; `KnownAgain` is stated for users who were registered by a
  start that had read the file. `get_file` signs with `&salt`, the bytes of a
  pointer, ignores the reply and never closes the connection. The length of a
  request is not in network order. `get_signature` writes a terminator behind its
  array.
* *file.* A lead byte of three or four whose next bytes do not continue it sends the
  stream back to itself or behind it (`file.c:167`), and the program does not end;
  ISO-8859 text has such bytes. A first byte that leads four and is contradicted at
  once cannot go back that far, and the second byte is skipped. A file that ends
  inside a character is counted without rewinding the stream (`:163`), and the next
  predicate finds an empty rest: it is called ISO or UTF. `is_utf` looks only at
  what a byte expects behind it (`:225`), and passes over a NUL, another control
  byte, a continuation byte without a lead and `F8` to `FF`. Text with a NUL in it
  is called UTF, where `test.sh:37`, "Data", has such a file (`Hello,\x00World!`)
  and compares with `file(1)`, which calls it data. ISO-8859 text in which two bytes
  happen to form a character, beside a lead byte without one, is called data:
  `is_iso` refuses it for the character and `is_utf` for the lead. The strings that
  are printed are in another order than the formats.
* *Queries.* The column `south` is stored in `west`. The children of a tree node are
  never set (`id_query_bonus.c:35`), nor is the name of a record whose line has no
  tab, which is printed all the same (`id_query.c:44`). An empty file passes the
  test of the header, and a file that cannot be used is not closed. A search by
  coordinates reads the first record also if there is none; the test for "no
  entries" in `tests/coord_query_naive.sh` relies on the zeros of fresh memory.
* *Simulator.* `Departs` lists the cases that `SimulatesRiscV` leaves out:
  register 0 can be written, although `simulate.h:10` calls it hard-wired; a
  branch that is not taken does not advance; `JALR` adds the number of the
  register, not its contents; `JAL` takes the high part of the offset from the
  wrong bits; offsets of loads and stores are not sign-extended, and neither are
  the bytes and halfwords of `LB` and `LH`; `SRL` is arithmetic and `SRAI` is
  logical on negative numbers; `MULHSU` and `MULHU` sign-extend; `DIV` and
  `DIVU` stop the program when an operand is 0; the division of the smallest
  number by -1 and a remainder by 0 are undefined in C. So are the shifts `SLL`, `SRL`
  and `SRA` by a register that is negative or not below 32 (`simulate.c:323`, `:345`,
  `:366`, `:369`), where the manual takes the low five bits: the model has the result of
  a processor that does so and of one that shifts everything out. Signed overflow of
  a sum, a product or a left shift is undefined too, but the build with gcc computes
  it modulo the word, as the model does. An unknown ecall and an
  unknown shift are executed for ever. The number of instructions is computed
  from addresses and so is wrong after a jump. An address above `0x7fffffff`
  makes the index into the table of text negative.
* *Radix.* A write that accepts a part of the buffer is repeated from its beginning.
  One that fails, as all do if the output file could not be opened, is not noticed:
  after a result of 0 it is repeated for ever, and -1 makes the rest to write longer
  than the buffer. The end of the memory is never checked, and the smallest integer
  is negated.

## 7 What is not modelled

* `sha256.c`: third-party code; a hash stands for its data.
* `coord_query_kdtree.c`: a fragment that is not finished; its look-up has no body.
  `random_ids.c` makes input for tests.
* `open_listenfd`, and the syntax checks of addresses: calls to the system, or
  straight-line string handling before any thread exists.
* Two clients of A3 at the same time over one salt file.
* The layout of messages on the wire: `PeerList` and `Retrieve` exchange values.
* `lib.c` apart from the allocator: ecalls in inline assembly and the conversion
  of numbers.
* The text of the disassembly, the log file, the bars of the histogram: layout.
* Failures of `malloc`, except in `handle_retreive`, which tests for one.

## 8 Plan

Done: the queue with its proofs and abstract specification, the programs on top
of it, the reads and writes with their proofs and the server's way to a request
on top of them, the client of A3 with kills and an unreliable network, both
halves of A4, the tools of A0 and A1, A5 and A6. What is left to model is in
section 7, with the reasons.

Every invariant and every action property of A0 to A5 that a passing run checks is
proved for all values of the constants. What is left is A6: `NoNodeLost` could be
proved of a tree that is a set of nodes with links, and of a take that keeps its
recursion on an explicit stack.
