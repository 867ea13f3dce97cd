---------------------------- MODULE FhistogramMT ----------------------------
(***************************************************************************)
(* fhistogram-mt.c with histogram.h: the workers count the set bits of all *)
(* files.  A worker collects in a local histogram, and merges it into the  *)
(* global one after every Chunk bytes and at the end of each file, under   *)
(* global_histogram_mutex.  fhistogram.c does the same one file after the  *)
(* other and is the reference.                                             *)
(*                                                                         *)
(* A byte is the set of its bits that are set.  The addition in            *)
(* merge_histogram is a read and a write, because only the mutex keeps     *)
(* them together.                                                          *)
(***************************************************************************)
EXTENDS WorkerPool, FiniteSetsExt

CONSTANTS Content,  \* the bytes of each file
          NumBits,  \* bits of a byte: 8 in the code
          Chunk     \* bytes between two merges: 100000 in the code

Paths == 1 .. MaxJobs
Bits  == 0 .. NumBits - 1

ASSUME ContentAssumption ==
  /\ NumBits \in Nat \ {0}
  /\ Chunk \in Nat \ {0}
  /\ Content \in [Paths -> Seq(SUBSET Bits)]

VARIABLES readable,          \* the files that fopen can open
          global_histogram,
          local_histogram,   \* of each worker
          global_histogram_mutex,
          i,                 \* bytes each worker has read of its file
          last,              \* the worker is past the end of its file
          bit, sum,          \* merge_histogram: index and value read of to[index]
          shown,             \* total of the histogram on the screen
          crashed,           \* free() of an uninitialised pointer ended the process
          consumed           \* history: bits of all bytes read so far

program   == <<readable, global_histogram, local_histogram, global_histogram_mutex,
               i, last, bit, sum, shown, crashed, consumed>>
hist_vars == <<vars, pool, program>>

Zeros    == [b \in Bits |-> 0]
Total(h) == MapThenSumSet(LAMBDA b : h[b], Bits)

HistInit ==
  /\ PoolInit
  /\ readable \in SUBSET Paths
  /\ global_histogram = Zeros
  /\ local_histogram = [w \in Workers |-> Zeros]
  /\ global_histogram_mutex = Nobody
  /\ i = [w \in Workers |-> 0]
  /\ last = [w \in Workers |-> FALSE]
  /\ bit = [w \in Workers |-> 0]
  /\ sum = [w \in Workers |-> 0]
  /\ shown = 0
  /\ crashed = FALSE
  /\ consumed = Zeros

\* update_histogram
Updated(histogram, byte) ==
  [b \in Bits |-> IF b \in byte THEN histogram[b] + 1 ELSE histogram[b]]

-----------------------------------------------------------------------------
(***************************************************************************)
(* fhistogram, called by worker w for the path in job[w].                  *)
(***************************************************************************)

Open(w) ==
  /\ task[w] = "start"
  /\ job[w] \in readable
  /\ local_histogram' = [local_histogram EXCEPT ![w] = Zeros]
  /\ i' = [i EXCEPT ![w] = 0]
  /\ last' = [last EXCEPT ![w] = FALSE]
  /\ SetTask(w, "read")
  /\ UNCHANGED <<vars, heap, exited, readable, global_histogram, global_histogram_mutex,
                 bit, sum, shown, crashed, consumed>>

\* fopen fails: fhistogram returns -1, which the worker ignores.
OpenFails(w) ==
  /\ task[w] = "start"
  /\ job[w] \notin readable
  /\ SetTask(w, "queue")
  /\ UNCHANGED <<vars, heap, exited, program>>

ReadByte(w) ==
  LET byte == Content[job[w]][i[w] + 1] IN
  /\ task[w] = "read"
  /\ i[w] < Len(Content[job[w]])
  /\ i' = [i EXCEPT ![w] = @ + 1]
  /\ local_histogram' = [local_histogram EXCEPT ![w] = Updated(@, byte)]
  /\ consumed' = Updated(consumed, byte)
  /\ SetTask(w, IF i'[w] % Chunk = 0 THEN "lock" ELSE "read")
  /\ UNCHANGED <<vars, heap, exited, readable, global_histogram, global_histogram_mutex,
                 last, bit, sum, shown, crashed>>

EndOfFile(w) ==
  /\ task[w] = "read"
  /\ i[w] = Len(Content[job[w]])
  /\ last' = [last EXCEPT ![w] = TRUE]
  /\ SetTask(w, "lock")
  /\ UNCHANGED <<vars, heap, exited, readable, global_histogram, local_histogram,
                 global_histogram_mutex, i, bit, sum, shown, crashed, consumed>>

\* Faulty variant, for mutation testing: merge without waiting for the mutex.
NoLockGlobal(w) ==
  /\ task[w] = "lock"
  /\ global_histogram_mutex' = w
  /\ bit' = [bit EXCEPT ![w] = 0]
  /\ SetTask(w, "merge_read")
  /\ UNCHANGED <<vars, heap, exited, readable, global_histogram, local_histogram,
                 i, last, sum, shown, crashed, consumed>>

LockGlobal(w) ==
  /\ task[w] = "lock"
  /\ global_histogram_mutex = Nobody
  /\ global_histogram_mutex' = w
  /\ bit' = [bit EXCEPT ![w] = 0]
  /\ SetTask(w, "merge_read")
  /\ UNCHANGED <<vars, heap, exited, readable, global_histogram, local_histogram,
                 i, last, sum, shown, crashed, consumed>>

\* merge_histogram, one index: read to[i] ...
MergeRead(w) ==
  /\ task[w] = "merge_read"
  /\ sum' = [sum EXCEPT ![w] = global_histogram[bit[w]]]
  /\ SetTask(w, "merge_write")
  /\ UNCHANGED <<vars, heap, exited, readable, global_histogram, local_histogram,
                 global_histogram_mutex, i, last, bit, shown, crashed, consumed>>

\* ... and write to[i] + from[i] back, clear from[i], go on to the next index.
MergeWrite(w) ==
  LET b == bit[w] IN
  /\ task[w] = "merge_write"
  /\ global_histogram' = [global_histogram EXCEPT ![b] = sum[w] + local_histogram[w][b]]
  /\ local_histogram' = [local_histogram EXCEPT ![w][b] = 0]
  /\ bit' = [bit EXCEPT ![w] = b + 1]
  /\ SetTask(w, IF b + 1 < NumBits THEN "merge_read" ELSE "show")
  /\ UNCHANGED <<vars, heap, exited, readable, global_histogram_mutex, i, last, sum,
                 shown, crashed, consumed>>

\* print_histogram, unlock, and back to reading or to pop.
ShowAndUnlock(w) ==
  /\ task[w] = "show"
  /\ shown' = Total(global_histogram)
  /\ global_histogram_mutex' = Nobody
  /\ SetTask(w, IF last[w] THEN "queue" ELSE "read")
  /\ UNCHANGED <<vars, heap, exited, readable, global_histogram, local_histogram,
                 i, last, bit, sum, crashed, consumed>>

\* pop failed: the worker frees its path and returns.  A worker that never had
\* a job frees a pointer that was never set, which may end the process.
FreePath(w) ==
  /\ task[w] = "queue"
  /\ At(w, "closed")
  /\ SetTask(w, "returned")
  /\ heap' = heap \ {job[w]}
  /\ crashed' \in IF job[w] = 0 THEN BOOLEAN ELSE {FALSE}
  /\ UNCHANGED <<vars, exited, readable, global_histogram, local_histogram,
                 global_histogram_mutex, i, last, bit, sum, shown, consumed>>

-----------------------------------------------------------------------------
HistMain == ~crashed /\ PoolMain /\ UNCHANGED program

HistWorker(w) ==
  /\ Running /\ ~crashed
  /\ \/ (PopCall(w) \/ GotJob(w)) /\ UNCHANGED program
     \/ Open(w)       \/ OpenFails(w)
     \/ ReadByte(w)   \/ EndOfFile(w)
     \/ LockGlobal(w) \/ MergeRead(w) \/ MergeWrite(w) \/ ShowAndUnlock(w)
     \/ FreePath(w)

HistNext ==
  \/ HistMain
  \/ \E w \in Workers : HistWorker(w)
  \/ ~crashed /\ PoolWakeup /\ UNCHANGED program

HistSpec ==
  /\ HistInit
  /\ [][HistNext]_hist_vars
  /\ WF_hist_vars(HistMain)
  /\ \A w \in Workers : WF_hist_vars(HistWorker(w))

-----------------------------------------------------------------------------
\* The global histogram that fhistogram.c ends with.
Reference ==
  [b \in Bits |->
     MapThenSumSet(LAMBDA p : Cardinality({ n \in 1 .. Len(Content[p]) : b \in Content[p][n] }),
                   readable)]

\* No bit is lost or counted twice, in the middle of a merge as little as
\* between two: the global histogram and the local ones add up to the bits read.
BitsConserved ==
  \A b \in Bits :
    consumed[b] = global_histogram[b]
                  + MapThenSumSet(LAMBDA w : local_histogram[w][b], Workers)

\* Every file that can be opened is counted before main returns, however many could
\* not, and the histogram of fhistogram.c is the one that stays on the screen, unless
\* the process is ended by a failing assert() of job_queue.c, or by the free(path)
\* of a worker that never got a job and so never set path.
EverythingCounted ==
  <>[](\/ global_histogram = Reference /\ shown = Total(Reference)
       \/ failed
       \/ crashed)

=============================================================================
