------------------------------- MODULE Fibs -------------------------------
(***************************************************************************)
(* fibs.c: the workers compute the Fibonacci number of every input line    *)
(* and print it under stdout_mutex.                                        *)
(***************************************************************************)
EXTENDS WorkerPool, Bags

CONSTANT Input   \* the number on each line of stdin, as atoi reads it

ASSUME InputAssumption == Input \in [1 .. MaxJobs -> Int]

VARIABLES stdout_mutex,  \* owner of stdout_mutex
          output         \* the lines printed so far: <<n, fibn>> pairs, in any order

program   == <<stdout_mutex, output>>
fibs_vars == <<vars, pool, program>>

\* The recursive fib of the program.
fib[n \in Int] == IF n < 2 THEN 1 ELSE fib[n - 1] + fib[n - 2]

FibsInit ==
  /\ PoolInit
  /\ stdout_mutex = Nobody
  /\ output = EmptyBag

\* fib_line: convert, compute, and then lock stdout_mutex.
FibLineLock(w) ==
  /\ task[w] = "start"
  /\ stdout_mutex = Nobody
  /\ stdout_mutex' = w
  /\ SetTask(w, "print")
  /\ UNCHANGED <<vars, heap, exited, output>>

\* fib_line: print the result and unlock.
FibLinePrint(w) ==
  /\ task[w] = "print"
  /\ LET n == Input[job[w]]
     IN  output' = output (+) SetToBag({<<n, fib[n]>>})
  /\ stdout_mutex' = Nobody
  /\ SetTask(w, "free")
  /\ UNCHANGED <<vars, heap, exited>>

\* worker: free the line and go back to pop.
FreeLine(w) ==
  /\ task[w] = "free"
  /\ heap' = heap \ {job[w]}
  /\ SetTask(w, "queue")
  /\ UNCHANGED <<vars, exited, program>>

FibsMain == PoolMain /\ UNCHANGED program

FibsWorker(w) ==
  /\ Running
  /\ \/ (PopCall(w) \/ GotJob(w) \/ LastPop(w)) /\ UNCHANGED program
     \/ FibLineLock(w)
     \/ FibLinePrint(w)
     \/ FreeLine(w)

FibsNext ==
  \/ FibsMain
  \/ \E w \in Workers : FibsWorker(w)
  \/ PoolWakeup /\ UNCHANGED program

\* main reads a finite input and a worker never stops on its own; a lock that
\* is free infinitely often is requested finitely often.
FibsSpec ==
  /\ FibsInit
  /\ [][FibsNext]_fibs_vars
  /\ WF_fibs_vars(FibsMain)
  /\ \A w \in Workers : WF_fibs_vars(FibsWorker(w))

-----------------------------------------------------------------------------
Lines == 1 .. MaxJobs

\* The Fibonacci numbers by definition: each pair of neighbours in the sequence
\* gives the next one, and the n-th number is the first of the n-th pair.
neighbours[i \in Nat] ==
  IF i = 0 THEN <<1, 1>>
           ELSE <<neighbours[i - 1][2], neighbours[i - 1][1] + neighbours[i - 1][2]>>

Reference(n) == IF n < 2 THEN 1 ELSE neighbours[n][1]

\* The output that the input calls for: one line for each line of the input.
Answers ==
  [a \in { <<Input[i], Reference(Input[i])>> : i \in Lines } |->
     Cardinality({ i \in Lines : Input[i] = a[1] })]

\* When main returns every line of the input has been answered exactly once and
\* correctly, and every copy of a line has been freed: no worker was still at
\* work when the process ended.
ExitedComplete == exited => output = Answers /\ heap = {}

\* A worker reads and frees only a line that is still allocated and that no other
\* worker has.
NoUseAfterFree ==
  \A w \in Workers :
    task[w] \in {"start", "print", "free"} =>
      /\ job[w] \in heap
      /\ \A v \in Workers \ {w} :
           task[v] \in {"start", "print", "free"} => job[v] # job[w]

\* Every line is eventually read, pushed and answered, although push may find the
\* ring full and destroy and the workers that leave early race with the work that
\* is still in the queue; only a failing assert() of job_queue.c
\* (AbortOnlyWhenDrained) cuts the output short.
EveryLineAnswered == <>(output = Answers \/ failed)

=============================================================================
