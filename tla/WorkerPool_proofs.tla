------------------------- MODULE WorkerPool_proofs -------------------------
(***************************************************************************)
(* Proofs about two of the programs that use the queue, for every number   *)
(* of workers, every capacity of the queue and every input.                *)
(*                                                                         *)
(* fibs.c: no line is used after it was freed, and when main returns every *)
(* line has been answered once, with the right number, and freed.          *)
(* fauxgrep-mt.c: what is printed of a file is a prefix of what fauxgrep.c *)
(* prints of it.  Both use the queue as JobQueue models it.                *)
(***************************************************************************)
EXTENDS Fibs, FauxgrepMT, JobQueue_proofs, WellFoundedInduction

-----------------------------------------------------------------------------
(***************************************************************************)
(* The program and its queue.                                              *)
(***************************************************************************)

\* Every step of main, of a worker and of the threads library is a step of the
\* queue or does not touch it.
LEMMA FibsStepsQueue == [FibsNext]_fibs_vars => [Next]_vars
<1> SUFFICES ASSUME [FibsNext]_fibs_vars PROVE [Next]_vars
  OBVIOUS
<1>1. CASE FibsMain
  BY <1>1 DEF FibsMain, PoolMain, Running, NextItem, EndOfInput, JoinAndExit, Next, MainStep
<1>2. ASSUME NEW w \in Workers, FibsWorker(w) PROVE [Next]_vars
  <2>1. CASE PopCall(w) \/ GotJob(w)
    BY <1>2, <2>1 DEF FibsWorker, Running, PopCall, GotJob, Next, WorkerStep, PopStep
  <2>2. CASE LastPop(w) \/ FibLineLock(w) \/ FibLinePrint(w) \/ FreeLine(w)
    BY <2>2 DEF LastPop, FibLineLock, FibLinePrint, FreeLine
  <2> QED
    BY <1>2, <2>1, <2>2 DEF FibsWorker
<1>3. CASE PoolWakeup
  BY <1>3 DEF PoolWakeup, Next
<1>4. CASE UNCHANGED fibs_vars
  BY <1>4 DEF fibs_vars
<1> QED
  BY <1>1, <1>2, <1>3, <1>4 DEF FibsNext

\* fibs.c obeys the protocol under which the queue was verified: one producer that
\* destroys the queue once, and consumers that stop when pop fails.  What is proved
\* of the queue therefore holds in the program.
THEOREM FibsRunsQueue == FibsSpec => Spec
<1>1. FibsInit => Init
  BY DEF FibsInit, PoolInit
<1> QED
  BY <1>1, FibsStepsQueue, PTL DEF FibsSpec, Spec

-----------------------------------------------------------------------------
(***************************************************************************)
(* The inductive invariant of the program.                                 *)
(***************************************************************************)
Busy   == {"start", "print", "free"}
InHand == { w \in Workers : pc[w] = "pop_done" \/ task[w] \in Busy }

\* Where a worker is in its own loop goes with where it is in pop.
TaskInv ==
  /\ task \in [Workers -> Busy \cup {"queue", "returned"}]
  /\ exited \in BOOLEAN
  /\ \A w \in Workers : /\ task[w] \in Busy => pc[w] = "client"
                        /\ task[w] = "returned" => pc[w] = "closed"
                        /\ pc[w] = "pop_done" => task[w] = "queue"
  /\ exited => /\ pc[Main] = "destroyed"
               /\ \A w \in Workers : task[w] = "returned"
  /\ pc[Main] \in Destroying => pushed = MaxJobs

\* A job that pop has handed out belongs to one worker.
OwnInv ==
  /\ \A w \in InHand : job[w] \in 1 .. taken
  /\ \A v, w \in InHand : job[v] = job[w] => v = w

\* The copies that are allocated are those in the queue, those that a worker has
\* and the one that main is about to push.
HeapInv ==
  /\ heap \subseteq Nat
  /\ \A j \in Nat : j \in heap <=> \/ j \in taken + 1 .. pushed
                                   \/ \E w \in InHand : job[w] = j
                                   \/ pc[Main] \in Pushing /\ j = pushed + 1

ProgramInv == TaskInv /\ OwnInv /\ HeapInv

\* The program starts with nothing in hand and nothing allocated.
LEMMA FibsStart == FibsInit => ProgramInv
<1> SUFFICES ASSUME FibsInit PROVE ProgramInv
  OBVIOUS
<1>1. InHand = {}
  BY DEF FibsInit, PoolInit, Init, InHand, Busy, Threads
<1>2. TaskInv
  BY QueueAssumption DEF FibsInit, PoolInit, Init, TaskInv, Busy, Threads, Destroying
<1>3. OwnInv /\ HeapInv
  BY <1>1 DEF FibsInit, PoolInit, Init, OwnInv, HeapInv, Threads, Pushing
<1> QED
  BY <1>2, <1>3 DEF ProgramInv

\* Every step keeps the two loops of a worker in agreement.
LEMMA TaskStep ==
  ASSUME IInv, TaskInv, FibsNext
  PROVE  TaskInv'
<1> USE QueueAssumption DEF IInv, TypeOK, At, Goto, ring, status, sync, vars, pool, program,
        Threads, Running, SetTask, TaskInv, Busy, Destroying
<1>1. CASE NextItem \/ EndOfInput \/ JoinAndExit
  <2>1. CASE NextItem
    BY <2>1 DEF NextItem, PushCheck
  <2>2. CASE EndOfInput
    BY <2>2 DEF EndOfInput, DestroyLock
  <2>3. CASE JoinAndExit
    BY <2>3 DEF JoinAndExit
  <2> QED
    BY <1>1, <2>1, <2>2, <2>3
<1>2. CASE (PushStep \/ DestroyStep) /\ UNCHANGED pool
  <2>1. CASE PushStep /\ UNCHANGED pool
    BY <2>1 DEF PushStep, PushLock, PushWait, PushWake, PushPut
  <2>2. CASE DestroyStep /\ UNCHANGED pool
    BY <2>2 DEF DestroyStep, DestroyWait, DestroyWake, DestroyUnlock, DestroyMutex, DestroyRest
  <2> QED
    BY <1>2, <2>1, <2>2
<1>3. ASSUME NEW w \in Workers, Running, PopCall(w) PROVE TaskInv'
  <2>1. CASE PopReadConsAmount(w) \/ PopReadFlag(w) \/ PopReadCount(w) \/ PopSignalDestroy(w)
    BY <1>3, <2>1 DEF PopCall, PopReadConsAmount, PopReadFlag, PopReadCount, PopSignalDestroy
  <2>2. CASE PopLock(w) \/ PopLockFails(w) \/ PopWait(w) \/ PopWake(w)
    BY <1>3, <2>2 DEF PopCall, PopLock, PopLockFails, PopWait, PopWake
  <2>3. CASE PopLeave(w) \/ PopTake(w)
    BY <1>3, <2>3 DEF PopCall, PopLeave, PopTake
  <2> QED
    BY <1>3, <2>1, <2>2, <2>3 DEF PopCall, PopStep, PopReturn
<1>4. ASSUME NEW w \in Workers, Running, GotJob(w) \/ LastPop(w) PROVE TaskInv'
  BY <1>4 DEF GotJob, PopReturn, LastPop
<1>5. ASSUME NEW w \in Workers, Running, FibLineLock(w) \/ FibLinePrint(w) \/ FreeLine(w)
      PROVE  TaskInv'
  BY <1>5 DEF FibLineLock, FibLinePrint, FreeLine
<1>6. CASE PoolWakeup
  BY <1>6 DEF PoolWakeup, Wakeup, SpuriousWakeup
<1> QED
  BY <1>1, <1>2, <1>3, <1>4, <1>5, <1>6 DEF FibsNext, FibsMain, PoolMain, FibsWorker

\* Only a take, a return of pop and the end of a job change who has what.
LEMMA HandMoves ==
  ASSUME IInv, TaskInv, FibsNext
  PROVE  \/ UNCHANGED <<InHand, job, taken>>
         \/ \E w \in Workers : PopTake(w) /\ task[w] = "queue" /\ UNCHANGED pool
         \/ \E w \in Workers : FreeLine(w)
<1> USE QueueAssumption DEF IInv, TypeOK, At, Goto, ring, status, sync, vars, pool, program,
        Threads, SetTask, TaskInv, Busy, InHand
<1>1. CASE NextItem \/ EndOfInput \/ JoinAndExit
  BY <1>1 DEF NextItem, EndOfInput, JoinAndExit, PushCheck, DestroyLock
<1>2. CASE (PushStep \/ DestroyStep) /\ UNCHANGED pool
  BY <1>2 DEF PushStep, PushLock, PushWait, PushWake, PushPut, DestroyStep, DestroyWait,
     DestroyWake, DestroyUnlock, DestroyMutex, DestroyRest
<1>3. ASSUME NEW w \in Workers, PopCall(w), ~PopTake(w) PROVE UNCHANGED <<InHand, job, taken>>
  BY <1>3 DEF PopCall, PopStep, PopReadConsAmount, PopReadFlag, PopReadCount,
     PopSignalDestroy, PopLock, PopLockFails, PopWait, PopWake, PopLeave, PopReturn
<1>4. ASSUME NEW w \in Workers, GotJob(w) \/ LastPop(w) \/ FibLineLock(w) \/ FibLinePrint(w)
      PROVE  UNCHANGED <<InHand, job, taken>>
  BY <1>4 DEF GotJob, PopReturn, LastPop, FibLineLock, FibLinePrint
<1>5. CASE PoolWakeup
  BY <1>5 DEF PoolWakeup, Wakeup, SpuriousWakeup
<1>6. ASSUME NEW w \in Workers, PopCall(w)
      PROVE  task[w] = "queue" /\ UNCHANGED pool
  BY <1>6 DEF PopCall
<1> QED
  BY <1>1, <1>2, <1>3, <1>4, <1>5, <1>6 DEF FibsNext, FibsMain, PoolMain, FibsWorker

\* pop hands out a job that no worker has had.
LEMMA TakenIsNew ==
  ASSUME IInv, TaskInv, NEW w \in Workers, PopTake(w), task[w] = "queue", UNCHANGED pool
  PROVE  /\ w \notin InHand
         /\ InHand' = InHand \cup {w}
         /\ job' = [job EXCEPT ![w] = taken + 1]
         /\ taken' = taken + 1
         /\ taken \in Nat
<1>1. data[cons_pointer] = taken + 1
  BY OldestAtPointer DEF IInv, PopTake
<1> QED
  BY <1>1 DEF IInv, TypeOK, PopTake, At, Goto, Threads, TaskInv, Busy, InHand, pool

\* No step gives a job to two workers.
LEMMA OwnStep ==
  ASSUME IInv, TaskInv, OwnInv, FibsNext
  PROVE  OwnInv'
<1>1. CASE UNCHANGED <<InHand, job, taken>>
  BY <1>1 DEF OwnInv
<1>2. ASSUME NEW w \in Workers, PopTake(w), task[w] = "queue", UNCHANGED pool
      PROVE  OwnInv'
  BY <1>2, TakenIsNew DEF IInv, TypeOK, OwnInv, InHand
<1>3. ASSUME NEW w \in Workers, FreeLine(w) PROVE OwnInv'
  <2>1. InHand' \subseteq InHand /\ UNCHANGED <<job, taken>>
    BY <1>3 DEF FreeLine, SetTask, TaskInv, Busy, InHand, vars, ring
  <2> QED
    BY <2>1 DEF OwnInv
<1> QED
  BY <1>1, <1>2, <1>3, HandMoves

\* strdup, push, pop and free keep the allocated copies accounted for.
LEMMA HeapStep ==
  ASSUME IInv, TaskInv, OwnInv, HeapInv, FibsNext
  PROVE  HeapInv'
<1> USE QueueAssumption DEF IInv, TypeOK, At, Goto, ring, status, sync, vars, pool, program,
        Threads, Pushing, HeapInv
<1>1. ASSUME UNCHANGED <<InHand, job, taken, pushed, heap>>,
             pc[Main] \in Pushing <=> pc'[Main] \in Pushing
      PROVE  HeapInv'
  BY <1>1
<1>2. CASE NextItem
  <2>1. InHand' = InHand
    BY <1>2 DEF NextItem, PushCheck, InHand, Busy
  <2> QED
    BY <1>2, <2>1 DEF NextItem, PushCheck
<1>3. CASE PushPut /\ UNCHANGED pool
  <2>1. InHand' = InHand
    BY <1>3 DEF PushPut, InHand, Busy
  <2>2. /\ pushed' = pushed + 1 /\ taken' = taken /\ job' = job /\ heap' = heap
        /\ pc[Main] \in Pushing /\ pc'[Main] \notin Pushing
        /\ taken <= pushed
    BY <1>3 DEF PushPut, RingFifo
  <2> QED
    BY <2>1, <2>2
<1>4. ASSUME NEW w \in Workers, PopTake(w), task[w] = "queue", UNCHANGED pool
      PROVE  HeapInv'
  <2>1. /\ heap' = heap /\ pushed' = pushed /\ taken + 1 <= pushed
        /\ pc[Main] \in Pushing <=> pc'[Main] \in Pushing
    BY <1>4 DEF PopTake, RingFifo
  <2>2. /\ w \notin InHand
        /\ InHand' = InHand \cup {w}
        /\ job' = [job EXCEPT ![w] = taken + 1]
        /\ taken' = taken + 1
    BY <1>4, TakenIsNew
  <2>3. job'[w] = taken + 1 /\ \A v \in InHand : job'[v] = job[v]
    BY <2>2 DEF InHand
  <2> QED
    BY <2>1, <2>2, <2>3
<1>5. ASSUME NEW w \in Workers, FreeLine(w) PROVE HeapInv'
  <2>1. /\ w \in InHand
        /\ InHand' = InHand \ {w}
        /\ UNCHANGED <<job, taken, pushed, pc>>
        /\ heap' = heap \ {job[w]}
    BY <1>5 DEF FreeLine, SetTask, TaskInv, Busy, InHand
  <2>2. /\ job[w] \notin taken + 1 .. pushed
        /\ job[w] # pushed + 1
        /\ \A v \in InHand' : job[v] # job[w]
    BY <2>1 DEF OwnInv, RingFifo
  <2>3. ASSUME NEW j \in Nat, j # job[w]
        PROVE  (\E v \in InHand : job[v] = j) <=> (\E v \in InHand' : job[v] = j)
    BY <2>1, <2>3
  <2> QED
    BY <2>1, <2>2, <2>3
<1>6. ASSUME NEW w \in Workers, GotJob(w) \/ LastPop(w) \/ FibLineLock(w) \/ FibLinePrint(w)
      PROVE  HeapInv'
  <2>1. /\ UNCHANGED <<job, taken, pushed, heap>>
        /\ pc[Main] \in Pushing <=> pc'[Main] \in Pushing
    BY <1>6 DEF GotJob, PopReturn, LastPop, FibLineLock, FibLinePrint
  <2>2. InHand' = InHand
    BY <1>6 DEF GotJob, PopReturn, LastPop, FibLineLock, FibLinePrint, InHand, Busy,
       TaskInv, SetTask
  <2> QED
    BY <1>1, <2>1, <2>2
<1>7. ASSUME NEW w \in Workers, PopCall(w), ~PopTake(w) PROVE HeapInv'
  <2>1. /\ UNCHANGED <<job, taken, pushed, heap>>
        /\ pc[Main] \in Pushing <=> pc'[Main] \in Pushing
        /\ InHand' = InHand
    BY <1>7 DEF PopCall, PopStep, PopReadConsAmount, PopReadFlag, PopReadCount,
       PopSignalDestroy, PopLock, PopLockFails, PopWait, PopWake, PopLeave, PopReturn,
       InHand, Busy, TaskInv
  <2> QED
    BY <1>1, <2>1
<1>8. CASE \/ EndOfInput \/ JoinAndExit \/ PoolWakeup
           \/ (PushLock \/ PushWait \/ PushWake \/ DestroyStep) /\ UNCHANGED pool
  <2>1. /\ UNCHANGED <<job, taken, pushed, heap>>
        /\ pc[Main] \in Pushing <=> pc'[Main] \in Pushing
        /\ InHand' = InHand
    BY <1>8 DEF EndOfInput, JoinAndExit, PoolWakeup, DestroyLock, Wakeup, SpuriousWakeup,
       PushLock, PushWait, PushWake, DestroyStep, DestroyWait, DestroyWake, DestroyUnlock,
       DestroyMutex, DestroyRest, InHand, Busy
  <2> QED
    BY <1>1, <2>1
<1>9. ASSUME NEW w \in Workers, PopCall(w)
      PROVE  task[w] = "queue" /\ UNCHANGED pool
  BY <1>9 DEF PopCall
<1> QED
  BY <1>2, <1>3, <1>4, <1>5, <1>6, <1>7, <1>8, <1>9
     DEF FibsNext, FibsMain, PoolMain, PushStep, FibsWorker

\* The program keeps its invariant next to the invariant of the queue.
LEMMA FibsInvariance == FibsSpec => [](IInv /\ ProgramInv)
<1>1. IInv /\ ProgramInv /\ [FibsNext]_fibs_vars => ProgramInv'
  <2>1. ASSUME IInv, ProgramInv, FibsNext PROVE ProgramInv'
    BY <2>1, TaskStep, OwnStep, HeapStep DEF ProgramInv
  <2>2. ASSUME ProgramInv, UNCHANGED fibs_vars PROVE ProgramInv'
    BY <2>2 DEF ProgramInv, TaskInv, OwnInv, HeapInv, InHand, fibs_vars, vars, ring, pool
  <2> QED
    BY <2>1, <2>2
<1> QED
  BY <1>1, FibsStart, FibsRunsQueue, Invariance, PTL DEF FibsSpec

\* A worker reads and frees only a line that is still allocated and that no other
\* worker has, however the workers interleave.
THEOREM LinesUsedSafely == FibsSpec => []NoUseAfterFree
<1>1. IInv /\ ProgramInv => NoUseAfterFree
  <2> SUFFICES ASSUME IInv, ProgramInv PROVE NoUseAfterFree
    OBVIOUS
  <2>1. ASSUME NEW w \in Workers, task[w] \in Busy
        PROVE  w \in InHand /\ job[w] \in heap
    BY <2>1 DEF IInv, TypeOK, ProgramInv, OwnInv, HeapInv, InHand
  <2> QED
    BY <2>1 DEF NoUseAfterFree, Busy, ProgramInv, OwnInv
<1> QED
  BY <1>1, FibsInvariance, PTL

-----------------------------------------------------------------------------
(***************************************************************************)
(* The output.                                                             *)
(***************************************************************************)

\* The jobs that have been handed out and whose answer has been printed.
Waiting == { w \in Workers : pc[w] = "pop_done" \/ task[w] \in {"start", "print"} }
Done    == { i \in 1 .. taken : \A w \in Waiting : job[w] # i }

\* One line for each of the jobs S, with the number that the program computes.
Answered(S) ==
  [a \in { <<Input[i], fib[Input[i]]>> : i \in S } |->
     Cardinality({ i \in S : Input[i] = a[1] })]

OutputInv == output = Answered(Done)

\* Printing the answer of one more job adds one copy of its line to the output.
LEMMA PrintOne ==
  ASSUME NEW S \in SUBSET Lines, NEW j \in Lines, j \notin S
  PROVE  Answered(S) (+) SetToBag({<<Input[j], fib[Input[j]]>>}) = Answered(S \cup {j})
<1> DEFINE line(i) == <<Input[i], fib[Input[i]]>>
           at(n)   == { i \in S : Input[i] = n }
           all(n)  == { i \in S \cup {j} : Input[i] = n }
           new     == SetToBag({line(j)})
<1>1. /\ DOMAIN Answered(S) = { line(i) : i \in S }
      /\ \A a \in DOMAIN Answered(S) : Answered(S)[a] = Cardinality(at(a[1]))
      /\ DOMAIN new = {line(j)} /\ new[line(j)] = 1
  BY DEF Answered, SetToBag
<1>2. ASSUME NEW n PROVE IsFiniteSet(at(n)) /\ Cardinality(at(n)) \in Nat
  <2>1. IsFiniteSet(Lines)
    BY FS_Interval, QueueAssumption DEF Lines
  <2> QED
    BY <2>1, FS_Subset, FS_CardinalityType
<1>3. ASSUME NEW a \in { line(i) : i \in S \cup {j} }
      PROVE  (IF a \in DOMAIN Answered(S) THEN Answered(S)[a] ELSE 0)
               + (IF a \in DOMAIN new THEN new[a] ELSE 0)
             = Cardinality(all(a[1]))
  <2>1. CASE a = line(j)
    <3>1. a[1] = Input[j]
      BY <2>1
    <3>2. all(a[1]) = at(Input[j]) \cup {j} /\ j \notin at(Input[j])
      BY <3>1
    <3>3. Cardinality(all(a[1])) = Cardinality(at(Input[j])) + 1
      <4>1. IsFiniteSet(at(Input[j]))
        BY <1>2
      <4> HIDE DEF at, all
      <4> QED
        BY <3>2, <4>1, FS_AddElement
    <3>4. CASE a \in DOMAIN Answered(S)
      <4>1. Cardinality(at(a[1])) \in Nat
        BY <1>2
      <4> HIDE DEF at, all, line, new
      <4> QED
        BY <3>1, <3>3, <3>4, <4>1, <2>1, <1>1
    <3>5. CASE a \notin DOMAIN Answered(S)
      <4>1. at(Input[j]) = {}
        BY <3>5, <2>1, <1>1
      <4>2. Cardinality(at(Input[j])) = 0
        BY <4>1, FS_EmptySet
      <4> HIDE DEF at, all, line, new
      <4> QED
        BY <3>3, <3>5, <4>2, <2>1, <1>1
    <3> QED
      BY <3>4, <3>5
  <2>2. CASE a # line(j)
    <3>1. PICK i \in S : a = line(i)
      BY <2>2
    <3>2. a[1] = Input[i] /\ Input[i] # Input[j]
      BY <2>2, <3>1
    <3>3. all(a[1]) = at(a[1])
      BY <3>2
    <3>4. a \in DOMAIN Answered(S) /\ a \notin DOMAIN new
      BY <3>1, <2>2, <1>1
    <3>5. Answered(S)[a] = Cardinality(at(a[1])) /\ Cardinality(at(a[1])) \in Nat
      BY <3>4, <1>1, <1>2
    <3> HIDE DEF at, all, line, new
    <3> QED
      BY <3>3, <3>4, <3>5
  <2> QED
    BY <2>1, <2>2
<1>4. DOMAIN Answered(S) \cup DOMAIN new = { line(i) : i \in S \cup {j} }
  BY <1>1
<1> HIDE DEF new
<1>5. Answered(S) (+) new
        = [a \in { line(i) : i \in S \cup {j} } |-> Cardinality(all(a[1]))]
  BY <1>3, <1>4 DEF (+)
<1> QED
  BY <1>5 DEF Answered, new

\* A step prints the answer of one job that had none, or changes neither the output
\* nor the jobs that are done.
LEMMA DoneMoves ==
  ASSUME IInv, ProgramInv, FibsNext
  PROVE  \/ Done' = Done /\ output' = output
         \/ \E w \in Workers : /\ FibLinePrint(w)
                               /\ job[w] \in Lines \ Done
                               /\ Done' = Done \cup {job[w]}
<1> USE QueueAssumption DEF IInv, TypeOK, At, Goto, ring, status, sync, vars, pool, program,
        Threads, SetTask, ProgramInv, TaskInv, Busy
<1>1. ASSUME UNCHANGED <<Waiting, job, taken>> PROVE Done' = Done
  BY <1>1 DEF Done
<1>2. ASSUME NEW w \in Workers, FibLinePrint(w)
      PROVE  job[w] \in Lines \ Done /\ Done' = Done \cup {job[w]}
  <2>1. /\ w \in Waiting
        /\ Waiting' = Waiting \ {w}
        /\ UNCHANGED <<job, taken>>
    BY <1>2 DEF FibLinePrint, Waiting
  <2>2. Waiting \subseteq InHand
    BY DEF Waiting, InHand
  <2>3. job[w] \in 1 .. taken /\ job[w] \in Lines /\ \A v \in Waiting' : job[v] # job[w]
    BY <2>1, <2>2 DEF OwnInv, Lines
  <2> QED
    BY <2>1, <2>3 DEF Done
<1>3. ASSUME NEW w \in Workers, PopTake(w), task[w] = "queue", UNCHANGED pool
      PROVE  Done' = Done
  <2>1. w \notin Waiting /\ Waiting' = Waiting \cup {w}
    BY <1>3 DEF PopTake, Waiting
  <2>2. job'[w] = taken + 1 /\ taken' = taken + 1 /\ \A v \in Waiting : job'[v] = job[v]
    BY <1>3, <2>1, TakenIsNew DEF Waiting
  <2> QED
    BY <2>1, <2>2 DEF Done
<1>4. ASSUME NEW w \in Workers, GotJob(w) \/ LastPop(w) \/ FibLineLock(w) \/ FreeLine(w)
      PROVE  UNCHANGED <<Waiting, job, taken>>
  BY <1>4 DEF GotJob, PopReturn, LastPop, FibLineLock, FreeLine, Waiting
<1>5. ASSUME NEW w \in Workers, PopCall(w), ~PopTake(w)
      PROVE  UNCHANGED <<Waiting, job, taken>>
  BY <1>5 DEF PopCall, PopStep, PopReadConsAmount, PopReadFlag, PopReadCount,
     PopSignalDestroy, PopLock, PopLockFails, PopWait, PopWake, PopLeave, PopReturn, Waiting
<1>6. ASSUME FibsMain \/ PoolWakeup PROVE UNCHANGED <<Waiting, job, taken>>
  BY <1>6 DEF FibsMain, PoolMain, NextItem, EndOfInput, JoinAndExit, PushCheck, DestroyLock,
     PushStep, PushLock, PushWait, PushWake, PushPut, DestroyStep, DestroyWait, DestroyWake,
     DestroyUnlock, DestroyMutex, DestroyRest, PoolWakeup, Wakeup, SpuriousWakeup, Waiting
<1>7. ASSUME NEW w \in Workers, PopCall(w)
      PROVE  task[w] = "queue" /\ UNCHANGED pool
  BY <1>7 DEF PopCall
<1>8. ASSUME NEW w \in Workers, FibLineLock(w) \/ FreeLine(w) PROVE output' = output
  BY <1>8 DEF FibLineLock, FreeLine
<1> HIDE DEF IInv, ProgramInv, TaskInv
<1> QED
  BY <1>1, <1>2, <1>3, <1>4, <1>5, <1>6, <1>7, <1>8 DEF FibsNext, FibsMain, FibsWorker

\* The output holds one answer for each job that is done.
LEMMA OutputStep ==
  ASSUME IInv, ProgramInv, OutputInv, FibsNext
  PROVE  OutputInv'
<1>1. CASE Done' = Done /\ output' = output
  BY <1>1 DEF OutputInv, Answered
<1>2. ASSUME NEW w \in Workers, FibLinePrint(w), job[w] \in Lines \ Done,
             Done' = Done \cup {job[w]}
      PROVE  OutputInv'
  <2>1. output' = output (+) SetToBag({<<Input[job[w]], fib[Input[job[w]]]>>})
    BY <1>2 DEF FibLinePrint
  <2>2. Done \in SUBSET Lines
    BY QueueAssumption DEF Done, Lines, IInv, TypeOK
  <2>3. Answered(Done) (+) SetToBag({<<Input[job[w]], fib[Input[job[w]]]>>})
          = Answered(Done \cup {job[w]})
    BY <1>2, <2>2, PrintOne
  <2>4. Answered(Done)' = Answered(Done \cup {job[w]})
    BY <1>2 DEF Answered
  <2> QED
    BY <2>1, <2>3, <2>4 DEF OutputInv
<1> QED
  BY <1>1, <1>2, DoneMoves

\* Nothing has been printed at the start.
LEMMA OutputStart == FibsInit => OutputInv
<1> SUFFICES ASSUME FibsInit PROVE OutputInv
  OBVIOUS
<1>1. Done = {}
  BY DEF Done, FibsInit, PoolInit, Init
<1>2. EmptyBag = Answered({})
  BY DEF EmptyBag, SetToBag, Answered
<1> QED
  BY <1>1, <1>2 DEF OutputInv, FibsInit

-----------------------------------------------------------------------------
(***************************************************************************)
(* The numbers.  A recursive function satisfies its equation only if some  *)
(* function does, so the pairs are constructed first; induction is by the  *)
(* least counterexample.                                                   *)
(***************************************************************************)

\* Every nonempty set of natural numbers has a least element.
LEMMA LeastNat ==
  ASSUME NEW S \in SUBSET Nat, S # {}
  PROVE  \E m \in S : \A k \in S : m <= k
<1>1. IsWellFoundedOn(OpToRel(<, Nat), Nat)
  BY NatLessThanWellFounded
<1>2. PICK m \in S : \A k \in S : ~(<<k, m>> \in OpToRel(<, Nat))
  BY <1>1, WFMin
<1>3. \A k \in S : ~(k < m)
  BY <1>2 DEF OpToRel
<1> QED
  BY <1>3

\* The functions on 0 .. n that begin with a and go on by step.
StartsOf(V, a, step, n) ==
  { g \in [0 .. n -> V] : g[0] = a /\ \A i \in 0 .. n - 1 : g[i + 1] = step[g[i]] }

\* A start value and a step determine the values of a function up to every n.
LEMMA UpTo ==
  ASSUME NEW V, NEW a \in V, NEW step \in [V -> V]
  PROVE  \A n \in Nat : StartsOf(V, a, step, n) # {}
<1> DEFINE Bad == { n \in Nat : StartsOf(V, a, step, n) = {} }
<1> SUFFICES ASSUME Bad # {} PROVE FALSE
  OBVIOUS
<1>1. PICK m \in Bad : \A k \in Bad : m <= k
  BY LeastNat
<1>2. CASE m = 0
  <2>1. [i \in 0 .. 0 |-> a] \in StartsOf(V, a, step, 0)
    BY DEF StartsOf
  <2> QED
    BY <1>2, <2>1
<1>3. CASE m # 0
  <2>1. m - 1 \in Nat /\ m - 1 \notin Bad
    BY <1>1, <1>3
  <2>2. PICK g : g \in StartsOf(V, a, step, m - 1)
    BY <2>1
  <2>3. /\ g \in [0 .. m - 1 -> V]
        /\ g[0] = a
        /\ \A i \in 0 .. (m - 1) - 1 : g[i + 1] = step[g[i]]
    BY <2>2 DEF StartsOf
  <2> DEFINE h == [i \in 0 .. m |-> IF i = m THEN step[g[m - 1]] ELSE g[i]]
  <2>4. h \in [0 .. m -> V]
    BY <2>1, <2>3
  <2>5. h[0] = a
    BY <1>3, <2>1, <2>3
  <2>6. ASSUME NEW i \in 0 .. m - 1 PROVE h[i + 1] = step[h[i]]
    BY <2>1, <2>3
  <2>7. h \in StartsOf(V, a, step, m)
    BY <2>4, <2>5, <2>6 DEF StartsOf
  <2> QED
    BY <2>7
<1> QED
  BY <1>2, <1>3

\* A start value and a step determine a function.
LEMMA Iterates ==
  ASSUME NEW V, NEW a \in V, NEW step \in [V -> V]
  PROVE  \E f \in [Nat -> V] : f[0] = a /\ \A n \in Nat : f[n + 1] = step[f[n]]
<1> DEFINE G(n) == CHOOSE g : g \in StartsOf(V, a, step, n)
           f    == [n \in Nat |-> G(n)[n]]
<1>1. ASSUME NEW n \in Nat
      PROVE  /\ G(n) \in [0 .. n -> V]
             /\ G(n)[0] = a
             /\ \A i \in 0 .. n - 1 : G(n)[i + 1] = step[G(n)[i]]
  <2>1. G(n) \in StartsOf(V, a, step, n)
    BY UpTo
  <2> HIDE DEF G
  <2> QED
    BY <2>1 DEF StartsOf
<1> HIDE DEF G
<1>2. ASSUME NEW n \in Nat PROVE G(n + 1)[n] = G(n)[n]
  <2> DEFINE Differ == { i \in 0 .. n : G(n + 1)[i] # G(n)[i] }
  <2> SUFFICES ASSUME Differ # {} PROVE FALSE
    OBVIOUS
  <2>1. PICK i \in Differ : \A k \in Differ : i <= k
    <3>1. Differ \in SUBSET Nat
      OBVIOUS
    <3> HIDE DEF Differ
    <3> QED
      BY <3>1, LeastNat
  <2>2. /\ G(n)[0] = a /\ \A k \in 0 .. n - 1 : G(n)[k + 1] = step[G(n)[k]]
        /\ G(n + 1)[0] = a /\ \A k \in 0 .. n : G(n + 1)[k + 1] = step[G(n + 1)[k]]
    BY <1>1
  <2>3. i # 0
    BY <2>2
  <2>4. i - 1 \in 0 .. n - 1 /\ i - 1 \notin Differ
    BY <2>1, <2>3
  <2>5. G(n + 1)[(i - 1) + 1] = step[G(n + 1)[i - 1]] /\ G(n)[(i - 1) + 1] = step[G(n)[i - 1]]
    BY <2>2, <2>4
  <2>6. G(n + 1)[i - 1] = G(n)[i - 1]
    BY <2>4
  <2> QED
    BY <2>5, <2>6
<1>3. f \in [Nat -> V]
  BY <1>1
<1>4. f[0] = a
  BY <1>1
<1>5. ASSUME NEW n \in Nat PROVE f[n + 1] = step[f[n]]
  <2>1. G(n + 1)[n + 1] = step[G(n + 1)[n]]
    BY <1>1
  <2> QED
    BY <1>2, <2>1
<1> QED
  BY <1>3, <1>4, <1>5

\* The pairs of neighbours satisfy their defining equation.
LEMMA NeighboursUnfold ==
  /\ neighbours[0] = <<1, 1>>
  /\ \A n \in Nat : /\ neighbours[n] \in Nat \X Nat
                    /\ neighbours[n + 1]
                         = <<neighbours[n][2], neighbours[n][1] + neighbours[n][2]>>
<1> DEFINE V    == Nat \X Nat
           a    == <<1, 1>>
           step == [p \in V |-> <<p[2], p[1] + p[2]>>]
           body(g) == [i \in Nat |-> IF i = 0 THEN <<1, 1>>
                                     ELSE <<g[i - 1][2], g[i - 1][1] + g[i - 1][2]>>]
<1>1. a \in V /\ step \in [V -> V]
  OBVIOUS
<1>2. PICK f \in [Nat -> V] : f[0] = a /\ \A n \in Nat : f[n + 1] = step[f[n]]
  <2> HIDE DEF V, a, step
  <2> QED
    BY <1>1, Iterates
<1>3. \A i \in Nat : f[i] = IF i = 0 THEN <<1, 1>>
                                     ELSE <<f[i - 1][2], f[i - 1][1] + f[i - 1][2]>>
  <2> SUFFICES ASSUME NEW i \in Nat, i # 0
               PROVE  f[i] = <<f[i - 1][2], f[i - 1][1] + f[i - 1][2]>>
    BY <1>2
  <2>1. i - 1 \in Nat /\ f[(i - 1) + 1] = step[f[i - 1]]
    BY <1>2
  <2> QED
    BY <2>1
<1>4. f = body(f)
  BY <1>3
<1>5. neighbours = body(neighbours)
  BY <1>4 DEF neighbours
<1>6. neighbours[0] = <<1, 1>>
  BY <1>5
<1>7. ASSUME NEW n \in Nat
      PROVE  neighbours[n + 1] = <<neighbours[n][2], neighbours[n][1] + neighbours[n][2]>>
  <2>1. n + 1 \in Nat /\ n + 1 # 0 /\ (n + 1) - 1 = n
    OBVIOUS
  <2> QED
    BY <1>5, <2>1
<1>8. ASSUME NEW n \in Nat PROVE neighbours[n] \in Nat \X Nat
  <2> DEFINE Bad == { i \in Nat : neighbours[i] \notin Nat \X Nat }
  <2> SUFFICES ASSUME Bad # {} PROVE FALSE
    OBVIOUS
  <2>1. PICK m \in Bad : \A k \in Bad : m <= k
    BY LeastNat
  <2>2. m # 0 /\ neighbours[m] \notin Nat \X Nat
    <3>1. <<1, 1>> \in Nat \X Nat
      OBVIOUS
    <3>2. neighbours[m] \notin Nat \X Nat
      OBVIOUS
    <3> QED
      BY <1>6, <3>1, <3>2
  <2>3. m - 1 \in Nat /\ neighbours[m - 1] \in Nat \X Nat
    BY <2>1, <2>2
  <2>4. neighbours[(m - 1) + 1]
          = <<neighbours[m - 1][2], neighbours[m - 1][1] + neighbours[m - 1][2]>>
    BY <1>7, <2>3
  <2>5. neighbours[(m - 1) + 1] \in Nat \X Nat
    <3>1. neighbours[m - 1][1] \in Nat /\ neighbours[m - 1][2] \in Nat
      BY <2>3
    <3>2. \A p, q \in Nat : <<q, p + q>> \in Nat \X Nat
      OBVIOUS
    <3> QED
      BY <2>4, <3>1, <3>2, Zenon
  <2>6. (m - 1) + 1 = m
    OBVIOUS
  <2> QED
    BY <2>2, <2>5, <2>6
<1> QED
  BY <1>6, <1>7, <1>8

\* The first numbers of the pairs are each the sum of the two before them.
LEMMA ReferenceIsSum ==
  ASSUME NEW n \in Int, n >= 2
  PROVE  Reference(n) = Reference(n - 1) + Reference(n - 2)
<1>1. n - 2 \in Nat /\ (n - 2) + 1 \in Nat
  OBVIOUS
<1>2. /\ neighbours[n - 2] \in Nat \X Nat
      /\ neighbours[(n - 2) + 1]
           = <<neighbours[n - 2][2], neighbours[n - 2][1] + neighbours[n - 2][2]>>
      /\ neighbours[((n - 2) + 1) + 1]
           = <<neighbours[(n - 2) + 1][2],
               neighbours[(n - 2) + 1][1] + neighbours[(n - 2) + 1][2]>>
  BY <1>1, NeighboursUnfold
<1>3. (n - 2) + 1 = n - 1 /\ ((n - 2) + 1) + 1 = n
  OBVIOUS
<1>4. neighbours[n][1] = neighbours[n - 1][2]
  BY <1>2, <1>3
<1>5. neighbours[n - 1][1] = neighbours[n - 2][2]
  BY <1>2, <1>3
<1>6. neighbours[n - 1][2] = neighbours[n - 2][1] + neighbours[n - 2][2]
  BY <1>2, <1>3
<1>7. neighbours[n - 2][1] \in Nat /\ neighbours[n - 2][2] \in Nat
  BY <1>2
<1>8. neighbours[n][1] = neighbours[n - 1][1] + neighbours[n - 2][1]
  BY <1>4, <1>5, <1>6, <1>7
<1>9. Reference(n - 2) = neighbours[n - 2][1] /\ Reference(n - 1) = neighbours[n - 1][1]
  <2>1. neighbours[0][1] = 1
    BY NeighboursUnfold
  <2>2. neighbours[1][1] = 1
    <3>1. neighbours[0 + 1] = <<neighbours[0][2], neighbours[0][1] + neighbours[0][2]>>
      BY NeighboursUnfold
    <3>2. neighbours[0][2] = 1
      BY NeighboursUnfold
    <3> QED
      BY <3>1, <3>2
  <2>3. n - 2 < 2 => n - 2 = 0 \/ n - 2 = 1
    OBVIOUS
  <2>4. n - 1 < 2 => n - 1 = 1
    OBVIOUS
  <2> QED
    BY <2>1, <2>2, <2>3, <2>4 DEF Reference
<1> QED
  BY <1>8, <1>9 DEF Reference

\* The recursive fib of fibs.c satisfies its defining equation.
LEMMA FibUnfolds ==
  \A n \in Int : fib[n] = IF n < 2 THEN 1 ELSE fib[n - 1] + fib[n - 2]
<1> DEFINE f       == [n \in Int |-> Reference(n)]
           body(g) == [n \in Int |-> IF n < 2 THEN 1 ELSE g[n - 1] + g[n - 2]]
<1>1. \A n \in Int : f[n] = IF n < 2 THEN 1 ELSE f[n - 1] + f[n - 2]
  <2> SUFFICES ASSUME NEW n \in Int PROVE f[n] = IF n < 2 THEN 1 ELSE f[n - 1] + f[n - 2]
    OBVIOUS
  <2>1. CASE n < 2
    BY <2>1 DEF Reference
  <2>2. CASE n >= 2
    <3>1. n - 1 \in Int /\ n - 2 \in Int /\ ~(n < 2)
      BY <2>2
    <3> QED
      BY <2>2, <3>1, ReferenceIsSum
  <2> QED
    BY <2>1, <2>2
<1>2. f = body(f)
  <2> HIDE DEF f
  <2>1. f = [n \in Int |-> f[n]]
    BY DEF f
  <2> QED
    BY <1>1, <2>1
<1>3. \E g : g = body(g)
  BY <1>2
<1> HIDE DEF f
<1>4. fib = body(fib)
  BY <1>3 DEF fib
<1> QED
  BY <1>4

\* fibs.c computes the Fibonacci numbers: its doubly recursive function agrees with
\* the definition by pairs of neighbours on every integer.  (Both are about numbers
\* without bound; the int of the program overflows from n = 46 on.)
THEOREM FibIsFibonacci == \A n \in Int : fib[n] = Reference(n)
<1>1. ASSUME NEW n \in Int, n < 2 PROVE fib[n] = Reference(n)
  BY <1>1, FibUnfolds DEF Reference
<1> DEFINE Bad == { n \in Nat : fib[n] # Reference(n) }
<1>2. ASSUME Bad # {} PROVE FALSE
  <2>1. PICK m \in Bad : \A k \in Bad : m <= k
    BY <1>2, LeastNat
  <2>2. m >= 2
    BY <1>1
  <2>3. m - 1 \in Nat \ Bad /\ m - 2 \in Nat \ Bad
    BY <2>1, <2>2
  <2>4. fib[m - 1] = Reference(m - 1) /\ fib[m - 2] = Reference(m - 2)
    BY <2>3
  <2>5. fib[m] = fib[m - 1] + fib[m - 2]
    BY <2>2, FibUnfolds
  <2> QED
    BY <2>2, <2>4, <2>5, ReferenceIsSum
<1> QED
  BY <1>1, <1>2

-----------------------------------------------------------------------------
\* When main returns, every line of the input has been answered exactly once with
\* the right number and every copy of a line has been freed, for every input and
\* every number of workers.
THEOREM CompleteAtExit == FibsSpec => []ExitedComplete
<1>1. IInv /\ ProgramInv /\ OutputInv /\ [FibsNext]_fibs_vars => OutputInv'
  <2>1. ASSUME OutputInv, UNCHANGED fibs_vars PROVE OutputInv'
    BY <2>1 DEF OutputInv, Answered, Done, Waiting, fibs_vars, vars, ring, pool, program
  <2> QED
    BY <2>1, OutputStep
<1>2. ASSUME IInv, ProgramInv, OutputInv, exited
      PROVE  output = Answers /\ heap = {}
  <2>1. pushed = MaxJobs /\ taken = MaxJobs /\ pc[Main] = "destroyed"
    BY <1>2 DEF IInv, TypeOK, RingFifo, DrainInv, ProgramInv, TaskInv, Destroying
  <2>2. InHand = {} /\ Waiting = {}
    BY <1>2 DEF ProgramInv, TaskInv, InHand, Waiting, Busy
  <2>3. heap = {}
    BY <1>2, <2>1, <2>2, QueueAssumption DEF ProgramInv, HeapInv, Pushing
  <2>4. Done = Lines
    BY <2>1, <2>2 DEF Done, Lines
  <2>5. Answered(Lines) = Answers
    BY FibIsFibonacci, InputAssumption DEF Answered, Answers, Lines
  <2> QED
    BY <1>2, <2>3, <2>4, <2>5 DEF OutputInv
<1>3. IInv /\ ProgramInv /\ OutputInv => ExitedComplete
  BY <1>2 DEF ExitedComplete
<1> QED
  BY <1>1, <1>3, OutputStart, FibsInvariance, PTL DEF FibsSpec

-----------------------------------------------------------------------------
(***************************************************************************)
(* fauxgrep-mt.c and its queue.                                            *)
(***************************************************************************)

\* Every step of main, of a worker and of the threads library is a step of the
\* queue or does not touch it.
LEMMA GrepStepsQueue == [GrepNext]_grep_vars => [Next]_vars
<1> SUFFICES ASSUME [GrepNext]_grep_vars PROVE [Next]_vars
  OBVIOUS
<1>1. CASE GrepMain
  BY <1>1 DEF GrepMain, PoolMain, Running, NextItem, EndOfInput, JoinAndExit, Next, MainStep
<1>2. ASSUME NEW w \in Workers, GrepWorker(w) PROVE [Next]_vars
  <2>1. CASE PopCall(w) \/ GotJob(w)
    BY <1>2, <2>1 DEF GrepWorker, Running, PopCall, GotJob, Next, WorkerStep, PopStep
  <2>2. CASE LastPop(w) \/ Open(w) \/ OpenFails(w) \/ ScanLine(w) \/ EndOfFile(w)
    BY <2>2 DEF LastPop, Open, OpenFails, ScanLine, EndOfFile
  <2> QED
    BY <1>2, <2>1, <2>2 DEF GrepWorker
<1>3. CASE PoolWakeup
  BY <1>3 DEF PoolWakeup, Next
<1>4. CASE UNCHANGED grep_vars
  BY <1>4 DEF grep_vars
<1> QED
  BY <1>1, <1>2, <1>3, <1>4 DEF GrepNext

\* fauxgrep-mt.c obeys the protocol under which the queue was verified, although a
\* worker that cannot open its file returns without having been told by pop.
THEOREM GrepRunsQueue == GrepSpec => Spec
<1>1. GrepInit => Init
  BY DEF GrepInit, PoolInit
<1> QED
  BY <1>1, GrepStepsQueue, PTL DEF GrepSpec, Spec

-----------------------------------------------------------------------------
(***************************************************************************)
(* Who has which file.                                                     *)
(***************************************************************************)
Searching == { w \in Workers : pc[w] = "pop_done" \/ task[w] \in {"start", "scan"} }

GrepTaskInv ==
  /\ task \in [Workers -> {"queue", "start", "scan", "returned"}]
  /\ \A w \in Workers : /\ task[w] \in {"start", "scan"} => pc[w] = "client"
                        /\ pc[w] = "pop_done" => task[w] = "queue"
  /\ \A w \in Searching : job[w] \in 1 .. taken
  /\ \A v, w \in Searching : job[v] = job[w] => v = w

\* A step hands a new file to a worker, lets one go, or leaves them as they are.
LEMMA GrepHandMoves ==
  ASSUME IInv, GrepTaskInv, GrepNext
  PROVE  /\ task' \in [Workers -> {"queue", "start", "scan", "returned"}]
         /\ \A w \in Workers : /\ task'[w] \in {"start", "scan"} => pc'[w] = "client"
                               /\ pc'[w] = "pop_done" => task'[w] = "queue"
         /\ \/ UNCHANGED <<Searching, job, taken>>
            \/ \E w \in Workers : PopTake(w) /\ task[w] = "queue" /\ UNCHANGED <<pool, search>>
            \/ \E w \in Workers : OpenFails(w) \/ EndOfFile(w)
<1> USE QueueAssumption DEF IInv, TypeOK, At, Goto, ring, status, sync, vars, pool,
        Threads, SetTask, GrepTaskInv, Searching
<1>1. CASE NextItem \/ EndOfInput \/ JoinAndExit
  BY <1>1 DEF NextItem, EndOfInput, JoinAndExit, PushCheck, DestroyLock
<1>2. CASE (PushStep \/ DestroyStep) /\ UNCHANGED pool
  BY <1>2 DEF PushStep, PushLock, PushWait, PushWake, PushPut, DestroyStep, DestroyWait,
     DestroyWake, DestroyUnlock, DestroyMutex, DestroyRest
<1>3. ASSUME NEW w \in Workers, PopCall(w), ~PopTake(w)
      PROVE  /\ UNCHANGED <<Searching, job, taken, task>>
             /\ \A v \in Workers : /\ task'[v] \in {"start", "scan"} => pc'[v] = "client"
                                   /\ pc'[v] = "pop_done" => task'[v] = "queue"
  BY <1>3 DEF PopCall, PopStep, PopReadConsAmount, PopReadFlag, PopReadCount,
     PopSignalDestroy, PopLock, PopLockFails, PopWait, PopWake, PopLeave, PopReturn
<1>4. ASSUME NEW w \in Workers, PopCall(w), PopTake(w)
      PROVE  /\ task[w] = "queue" /\ UNCHANGED pool
             /\ \A v \in Workers : /\ task'[v] \in {"start", "scan"} => pc'[v] = "client"
                                   /\ pc'[v] = "pop_done" => task'[v] = "queue"
  BY <1>4 DEF PopCall, PopTake
<1>5. CASE PoolWakeup
  BY <1>5 DEF PoolWakeup, Wakeup, SpuriousWakeup
<1>6. ASSUME NEW w \in Workers, GotJob(w) \/ LastPop(w) \/ Open(w) \/ ScanLine(w)
      PROVE  /\ UNCHANGED <<Searching, job, taken>>
             /\ task' \in [Workers -> {"queue", "start", "scan", "returned"}]
             /\ \A v \in Workers : /\ task'[v] \in {"start", "scan"} => pc'[v] = "client"
                                   /\ pc'[v] = "pop_done" => task'[v] = "queue"
  <2>1. CASE GotJob(w)
    BY <2>1 DEF GotJob, PopReturn
  <2>2. CASE LastPop(w)
    BY <2>2 DEF LastPop
  <2>3. CASE Open(w)
    BY <2>3 DEF Open
  <2>4. CASE ScanLine(w)
    BY <2>4 DEF ScanLine
  <2> QED
    BY <1>6, <2>1, <2>2, <2>3, <2>4
<1>7. ASSUME NEW w \in Workers, OpenFails(w) \/ EndOfFile(w)
      PROVE  /\ task' \in [Workers -> {"queue", "start", "scan", "returned"}]
             /\ \A v \in Workers : /\ task'[v] \in {"start", "scan"} => pc'[v] = "client"
                                   /\ pc'[v] = "pop_done" => task'[v] = "queue"
  BY <1>7 DEF OpenFails, EndOfFile
<1> HIDE DEF IInv, TypeOK
<1> QED
  BY <1>1, <1>2, <1>3, <1>4, <1>5, <1>6, <1>7 DEF GrepNext, GrepMain, PoolMain, GrepWorker

\* pop hands out a file that no worker has had.
LEMMA GrepTakenIsNew ==
  ASSUME IInv, GrepTaskInv, NEW w \in Workers, PopTake(w), task[w] = "queue", UNCHANGED pool
  PROVE  /\ w \notin Searching
         /\ Searching' = Searching \cup {w}
         /\ job' = [job EXCEPT ![w] = taken + 1]
         /\ job'[w] = taken + 1
         /\ \A v \in Searching : job'[v] = job[v]
         /\ taken' = taken + 1
         /\ taken \in Nat
<1>1. data[cons_pointer] = taken + 1
  BY OldestAtPointer DEF IInv, PopTake
<1> QED
  BY <1>1 DEF IInv, TypeOK, PopTake, At, Goto, Threads, GrepTaskInv, Searching, pool

\* A worker that cannot open its file, or has searched it, has it no longer.
LEMMA GrepLetsGo ==
  ASSUME IInv, GrepTaskInv, NEW w \in Workers, OpenFails(w) \/ EndOfFile(w)
  PROVE  Searching' = Searching \ {w} /\ UNCHANGED <<job, taken>>
BY DEF OpenFails, EndOfFile, SetTask, GrepTaskInv, Searching, vars, ring

\* No step gives a file to two workers.
LEMMA GrepTaskStep ==
  ASSUME IInv, GrepTaskInv, GrepNext
  PROVE  GrepTaskInv'
<1>1. CASE UNCHANGED <<Searching, job, taken>>
  BY <1>1, GrepHandMoves DEF GrepTaskInv
<1>2. ASSUME NEW w \in Workers, PopTake(w), task[w] = "queue", UNCHANGED <<pool, search>>
      PROVE  GrepTaskInv'
  <2>1. /\ Searching' = Searching \cup {w}
        /\ job'[w] = taken + 1
        /\ \A v \in Searching : job'[v] = job[v]
        /\ taken' = taken + 1
        /\ taken \in Nat
    BY <1>2, GrepTakenIsNew
  <2>2. \A v \in Searching' : job'[v] \in 1 .. taken'
    BY <2>1 DEF GrepTaskInv
  <2>3. \A v \in Searching : job[v] # taken + 1
    BY <2>1 DEF GrepTaskInv
  <2>4. \A u, v \in Searching' : job'[u] = job'[v] => u = v
    BY <2>1, <2>3 DEF GrepTaskInv
  <2> QED
    BY <2>2, <2>4, GrepHandMoves DEF GrepTaskInv
<1>3. ASSUME NEW w \in Workers, OpenFails(w) \/ EndOfFile(w) PROVE GrepTaskInv'
  <2>1. Searching' \subseteq Searching /\ UNCHANGED <<job, taken>>
    BY <1>3, GrepLetsGo
  <2> QED
    BY <2>1, GrepHandMoves DEF GrepTaskInv
<1> QED
  BY <1>1, <1>2, <1>3, GrepHandMoves

-----------------------------------------------------------------------------
(***************************************************************************)
(* Numbers in ascending order.                                             *)
(***************************************************************************)

\* A larger number comes later.
LEMMA RankGrows ==
  ASSUME NEW S \in SUBSET Nat, IsFiniteSet(S), NEW m \in S, NEW n \in S, m < n
  PROVE  Rank(S, m) < Rank(S, n) /\ Rank(S, m) \in Nat /\ Rank(S, n) \in Nat
<1> DEFINE A == { k \in S : k <= m }
           B == { k \in S : k <= n }
<1>1. IsFiniteSet(A) /\ IsFiniteSet(B)
  BY FS_Subset
<1>2. A \in SUBSET B /\ A # B
  <2>1. m \in Nat /\ n \in Nat /\ \A k \in S : k \in Nat
    OBVIOUS
  <2>2. \A k \in A : k \in B
    BY <2>1
  <2>3. n \in B /\ n \notin A
    BY <2>1
  <2> QED
    BY <2>2, <2>3
<1> HIDE DEF A, B
<1>3. Cardinality(A) \in Nat /\ Cardinality(B) \in Nat
  BY <1>1, FS_CardinalityType
<1>4. Cardinality(A) <= Cardinality(B) /\ Cardinality(A) # Cardinality(B)
  BY <1>1, <1>2, FS_Subset
<1> QED
  BY <1>3, <1>4 DEF Rank, A, B

\* A number is the one at its place.
LEMMA RankedAtRank ==
  ASSUME NEW S \in SUBSET Nat, IsFiniteSet(S), NEW n \in S
  PROVE  Ranked(S, Rank(S, n)) = n
<1>1. \A m \in S : m # n => Rank(S, m) # Rank(S, n)
  <2> SUFFICES ASSUME NEW m \in S, m # n PROVE Rank(S, m) # Rank(S, n)
    OBVIOUS
  <2>1. m < n \/ n < m
    OBVIOUS
  <2> QED
    BY <2>1, RankGrows
<1>2. { m \in S : Rank(S, m) = Rank(S, n) } = {n}
  BY <1>1
<1> QED
  BY <1>2 DEF Ranked

\* A number that is larger than all others is the last one and moves no other.
LEMMA InOrderGrows ==
  ASSUME NEW S \in SUBSET Nat, IsFiniteSet(S), NEW x \in Nat, \A m \in S : m < x
  PROVE  /\ Cardinality(S \cup {x}) = Cardinality(S) + 1
         /\ Cardinality(S) \in Nat
         /\ InOrder(S \cup {x})[Cardinality(S) + 1] = x
         /\ \A i \in 1 .. Cardinality(S) : InOrder(S \cup {x})[i] = InOrder(S)[i]
<1> DEFINE T == S \cup {x}
           c == Cardinality(S)
<1>1. x \notin S
  OBVIOUS
<1>2. IsFiniteSet(T) /\ Cardinality(T) = c + 1 /\ c \in Nat
  BY <1>1, FS_AddElement, FS_CardinalityType
<1>3. Rank(T, x) = c + 1
  <2>1. \A m \in T : m <= x
    OBVIOUS
  <2>2. { m \in T : m <= x } = T
    BY <2>1
  <2> QED
    BY <1>2, <2>2 DEF Rank
<1>4. Ranked(T, c + 1) = x
  <2>1. T \in SUBSET Nat /\ x \in T
    OBVIOUS
  <2> HIDE DEF T, c
  <2> QED
    BY <1>2, <1>3, <2>1, RankedAtRank
<1>5. ASSUME NEW m \in S PROVE Rank(T, m) = Rank(S, m)
  <2>1. { k \in T : k <= m } = { k \in S : k <= m }
    OBVIOUS
  <2> QED
    BY <2>1 DEF Rank
<1>6. ASSUME NEW i \in 1 .. c PROVE Ranked(T, i) = Ranked(S, i)
  <2>1. i # c + 1
    BY <1>2
  <2>2. { m \in T : Rank(T, m) = i } = { m \in S : Rank(S, m) = i }
    BY <1>3, <1>5, <2>1
  <2> QED
    BY <2>2 DEF Ranked
<1> HIDE DEF T, c
<1>7. InOrder(T)[c + 1] = x
  BY <1>2, <1>4 DEF InOrder
<1>8. \A i \in 1 .. c : InOrder(T)[i] = InOrder(S)[i]
  BY <1>2, <1>6 DEF InOrder, c
<1> QED
  BY <1>2, <1>7, <1>8 DEF T, c

-----------------------------------------------------------------------------
(***************************************************************************)
(* The output.                                                             *)
(***************************************************************************)

\* The hits of a file before one of its lines.
HitsBefore(p, n) == { h \in Hits(p) : h < n }

\* A file has finitely many lines that hit.
LEMMA HitsFinite ==
  ASSUME NEW p \in Paths
  PROVE  /\ Hits(p) \in SUBSET Nat
         /\ IsFiniteSet(Hits(p))
         /\ Cardinality(Hits(p)) \in Nat
         /\ Len(Matches[p]) \in Nat
<1>1. Len(Matches[p]) \in Nat
  BY MatchesAssumption
<1>2. IsFiniteSet(1 .. Len(Matches[p]))
  BY <1>1, FS_Interval
<1>3. Hits(p) \subseteq 1 .. Len(Matches[p])
  BY DEF Hits
<1> QED
  BY <1>1, <1>2, <1>3, FS_Subset, FS_CardinalityType

\* One more line that hits is passed.
LEMMA PassHit ==
  ASSUME NEW p \in Paths, NEW n \in Nat \ {0}, n <= Len(Matches[p]), Matches[p][n]
  PROVE  /\ n \in Hits(p)
         /\ Cardinality(HitsBefore(p, n + 1)) = Cardinality(HitsBefore(p, n)) + 1
         /\ Cardinality(HitsBefore(p, n)) \in Nat
         /\ Rank(Hits(p), n) = Cardinality(HitsBefore(p, n)) + 1
         /\ Cardinality(HitsBefore(p, n)) + 1 <= Cardinality(Hits(p))
<1>1. n \in Hits(p)
  BY HitsFinite DEF Hits
<1>2. HitsBefore(p, n + 1) = HitsBefore(p, n) \cup {n} /\ n \notin HitsBefore(p, n)
  BY <1>1, HitsFinite DEF HitsBefore
<1>3. { h \in Hits(p) : h <= n } = HitsBefore(p, n + 1)
  BY <1>1, HitsFinite DEF HitsBefore
<1>4. HitsBefore(p, n) \subseteq Hits(p) /\ HitsBefore(p, n + 1) \subseteq Hits(p)
  BY DEF HitsBefore
<1>5. IsFiniteSet(HitsBefore(p, n)) /\ Cardinality(HitsBefore(p, n)) \in Nat
  BY <1>4, HitsFinite, FS_Subset, FS_CardinalityType
<1>6. Cardinality(HitsBefore(p, n + 1)) = Cardinality(HitsBefore(p, n)) + 1
  BY <1>2, <1>5, FS_AddElement
<1>7. Cardinality(HitsBefore(p, n + 1)) <= Cardinality(Hits(p))
  BY <1>4, HitsFinite, FS_Subset
<1> QED
  BY <1>1, <1>3, <1>5, <1>6, <1>7 DEF Rank

\* What was printed at the places of a file is of that file.
WellPlaced(lines) ==
  /\ lines \in Seq(Paths \X Nat)
  /\ \A p \in Paths : \A i \in 1 .. Cardinality(Places(lines, p)) :
       InOrder(Places(lines, p))[i] \in Places(lines, p)

\* Of the finitely many lines printed, finitely many are of one file.
LEMMA PlacesFinite ==
  ASSUME NEW lines \in Seq(Paths \X Nat), NEW p
  PROVE  /\ Places(lines, p) \in SUBSET (1 .. Len(lines))
         /\ Places(lines, p) \in SUBSET Nat
         /\ IsFiniteSet(Places(lines, p))
         /\ Cardinality(Places(lines, p)) \in Nat
<1>1. Len(lines) \in Nat /\ IsFiniteSet(1 .. Len(lines))
  BY FS_Interval
<1>2. Places(lines, p) \subseteq 1 .. Len(lines)
  BY DEF Places
<1> QED
  BY <1>1, <1>2, FS_Subset, FS_CardinalityType

\* One more line is printed of file p, at the end, and none of the others.
OneMore(lines, more, p, n) ==
  /\ WellPlaced(more)
  /\ Cardinality(Places(more, p)) = Cardinality(Places(lines, p)) + 1
  /\ LinesOf(more, p)[Cardinality(Places(lines, p)) + 1] = <<p, n>>
  /\ \A i \in 1 .. Cardinality(Places(lines, p)) : LinesOf(more, p)[i] = LinesOf(lines, p)[i]
  /\ \A q \in Paths \ {p} : /\ Places(more, q) = Places(lines, q)
                            /\ LinesOf(more, q) = LinesOf(lines, q)

\* Printing a line of one file adds one line to what is printed of that file.
LEMMA PrintLine ==
  ASSUME NEW lines, WellPlaced(lines), NEW p \in Paths, NEW n \in Nat,
         NEW more, more = Append(lines, <<p, n>>)
  PROVE  OneMore(lines, more, p, n)
<1> DEFINE x   == Len(lines) + 1
           c   == Cardinality(Places(lines, p))
           old == InOrder(Places(lines, p))
           new == InOrder(Places(more, p))
<1>1. /\ x \in Nat /\ Len(more) = x /\ more[x] = <<p, n>>
      /\ \A k \in 1 .. Len(lines) : more[k] = lines[k]
      /\ Len(lines) \in Nat
      /\ more \in Seq(Paths \X Nat)
      /\ lines \in Seq(Paths \X Nat)
  BY DEF WellPlaced
<1>2. Places(more, p) = Places(lines, p) \cup {x}
  BY <1>1 DEF Places
<1>3. ASSUME NEW q \in Paths \ {p} PROVE Places(more, q) = Places(lines, q)
  BY <1>1 DEF Places
<1>4. \A k \in Places(lines, p) : k < x
  BY <1>1 DEF Places
<1>5. /\ Places(lines, p) \in SUBSET Nat /\ IsFiniteSet(Places(lines, p)) /\ c \in Nat
      /\ Places(lines, p) \in SUBSET (1 .. Len(lines))
  BY <1>1, PlacesFinite
<1> HIDE DEF x
<1>6. /\ Cardinality(Places(lines, p) \cup {x}) = c + 1
      /\ InOrder(Places(lines, p) \cup {x})[c + 1] = x
      /\ \A i \in 1 .. c : InOrder(Places(lines, p) \cup {x})[i] = old[i]
  BY <1>1, <1>4, <1>5, InOrderGrows
<1>7. /\ Cardinality(Places(more, p)) = c + 1
      /\ new[c + 1] = x
      /\ \A i \in 1 .. c : new[i] = old[i]
  BY <1>2, <1>6
<1>8. \A i \in 1 .. c : old[i] \in Places(lines, p) /\ old[i] \in 1 .. Len(lines)
  BY <1>5 DEF WellPlaced
<1>9. /\ LinesOf(lines, p) = [i \in 1 .. c |-> lines[old[i]]]
      /\ LinesOf(more, p) = [i \in 1 .. c + 1 |-> more[new[i]]]
  BY <1>7 DEF LinesOf
<1>10. WellPlaced(more)
  <2>1. ASSUME NEW i \in 1 .. c + 1 PROVE new[i] \in Places(more, p)
    <3>1. i = c + 1 \/ i \in 1 .. c
      BY <1>5
    <3>2. x \in Places(more, p) /\ \A k \in Places(lines, p) : k \in Places(more, p)
      BY <1>2
    <3> HIDE DEF c, new, old
    <3> QED
      BY <1>7, <1>8, <3>1, <3>2
  <2>2. ASSUME NEW q \in Paths \ {p}, NEW i \in 1 .. Cardinality(Places(more, q))
        PROVE  InOrder(Places(more, q))[i] \in Places(more, q)
    BY <1>3 DEF WellPlaced
  <2> QED
    BY <1>1, <1>7, <2>1, <2>2 DEF WellPlaced
<1>11. ASSUME NEW q \in Paths \ {p} PROVE LinesOf(more, q) = LinesOf(lines, q)
  <2>1. \A i \in 1 .. Cardinality(Places(lines, q)) :
          InOrder(Places(lines, q))[i] \in 1 .. Len(lines)
    BY <1>1, PlacesFinite DEF WellPlaced
  <2> QED
    BY <1>1, <1>3, <2>1 DEF LinesOf
<1> HIDE DEF c, old, new
<1>12. LinesOf(more, p)[c + 1] = <<p, n>>
  <2>1. c + 1 \in 1 .. c + 1
    BY <1>5
  <2>2. LinesOf(more, p)[c + 1] = more[new[c + 1]]
    BY <1>9, <2>1
  <2> QED
    BY <1>1, <1>7, <2>2, Zenon
<1>13. ASSUME NEW i \in 1 .. c PROVE LinesOf(more, p)[i] = LinesOf(lines, p)[i]
  <2>1. i \in 1 .. c + 1
    BY <1>5
  <2>2. LinesOf(more, p)[i] = more[new[i]]
    BY <1>9, <2>1
  <2>3. LinesOf(lines, p)[i] = lines[old[i]]
    BY <1>9
  <2> QED
    BY <1>1, <1>7, <1>8, <2>2, <2>3, Zenon
<1> QED
  BY <1>3, <1>7, <1>10, <1>11, <1>12, <1>13 DEF OneMore, c

\* What is printed of a file agrees with the sequential program.
AgreesOn(lines, p) ==
  /\ Cardinality(Places(lines, p)) <= Cardinality(Hits(p))
  /\ \A i \in 1 .. Cardinality(Places(lines, p)) : LinesOf(lines, p)[i] = fauxgrep_file(p)[i]

LEMMA PrefixIsAgreement ==
  ASSUME NEW lines, WellPlaced(lines), NEW p \in Paths
  PROVE  AgreesOn(lines, p) <=> /\ Len(LinesOf(lines, p)) <= Len(fauxgrep_file(p))
                                /\ \A i \in 1 .. Len(LinesOf(lines, p)) :
                                     LinesOf(lines, p)[i] = fauxgrep_file(p)[i]
<1>1. Cardinality(Places(lines, p)) \in Nat /\ Cardinality(Hits(p)) \in Nat
  BY PlacesFinite, HitsFinite DEF WellPlaced
<1>2. \A c \in Nat : \A f : DOMAIN f = 1 .. c => Len(f) = c
  OBVIOUS
<1>3. Len(LinesOf(lines, p)) = Cardinality(Places(lines, p))
  BY <1>1, <1>2 DEF LinesOf
<1>4. Len(fauxgrep_file(p)) = Cardinality(Hits(p))
  BY <1>1, <1>2 DEF fauxgrep_file
<1> QED
  BY <1>3, <1>4 DEF AgreesOn

\* What is printed of each file: nothing before it is opened, and the hits that
\* its worker has passed while it is searched.
PrintedInv ==
  /\ lineno \in [Workers -> Nat \ {0}]
  /\ WellPlaced(printed)
  /\ \A p \in Paths : AgreesOn(printed, p)
  /\ \A p \in Paths : p > taken => Places(printed, p) = {}
  /\ \A w \in Searching : IF task[w] = "scan"
                            THEN Cardinality(Places(printed, job[w]))
                                   = Cardinality(HitsBefore(job[w], lineno[w]))
                            ELSE Places(printed, job[w]) = {}

\* A step searches one line, opens a file, ends the work on one, or leaves the search
\* as it is.
LEMMA SearchMoves ==
  ASSUME IInv, GrepTaskInv, GrepNext
  PROVE  \/ \E w \in Workers : ScanLine(w) \/ Open(w) \/ OpenFails(w) \/ EndOfFile(w)
         \/ /\ UNCHANGED search
            /\ \A w \in Workers : task'[w] = "scan" <=> task[w] = "scan"
            /\ \/ UNCHANGED <<Searching, job, taken>>
               \/ \E w \in Workers : PopTake(w) /\ task[w] = "queue" /\ UNCHANGED pool
<1>1. ASSUME PoolMain \/ PoolWakeup PROVE UNCHANGED task
  BY <1>1 DEF PoolMain, NextItem, EndOfInput, JoinAndExit, PoolWakeup, pool
<1>2. ASSUME NEW w \in Workers, PopCall(w) PROVE UNCHANGED task
  BY <1>2 DEF PopCall, pool
<1>3. ASSUME NEW w \in Workers, GotJob(w) \/ LastPop(w)
      PROVE  \A v \in Workers : task'[v] = "scan" <=> task[v] = "scan"
  BY <1>3 DEF GotJob, PopReturn, At, LastPop, SetTask, GrepTaskInv
<1> QED
  BY <1>1, <1>2, <1>3, GrepHandMoves DEF GrepNext, GrepMain, GrepWorker

\* The files in hand are files.
LEMMA InHandIsFile ==
  ASSUME IInv, GrepTaskInv, NEW w \in Searching
  PROVE  job[w] \in Paths
BY QueueAssumption DEF IInv, TypeOK, GrepTaskInv, Paths

\* A worker that passes a line prints it if and only if fauxgrep.c does, and as the
\* next line of that file.
LEMMA ScanStep ==
  ASSUME IInv, GrepTaskInv, PrintedInv, NEW w \in Workers, ScanLine(w)
  PROVE  PrintedInv'
<1> DEFINE p == job[w]
           n == lineno[w]
           c == Cardinality(Places(printed, p))
<1>1. /\ UNCHANGED <<Searching, job, taken, task>>
      /\ w \in Searching /\ task[w] = "scan"
      /\ n <= Len(Matches[p])
      /\ lineno' = [lineno EXCEPT ![w] = @ + 1]
      /\ printed' = IF Matches[p][n] THEN Append(printed, <<p, n>>) ELSE printed
  BY DEF ScanLine, Searching, vars, ring, pool
<1>2. p \in Paths /\ n \in Nat \ {0} /\ c = Cardinality(HitsBefore(p, n))
  BY <1>1, InHandIsFile DEF PrintedInv
<1>3. /\ lineno' \in [Workers -> Nat \ {0}]
      /\ lineno'[w] = n + 1 /\ \A v \in Workers \ {w} : lineno'[v] = lineno[v]
  BY <1>1 DEF PrintedInv
<1>4. p <= taken /\ \A v \in Searching \ {w} : job[v] # p
  BY <1>1 DEF GrepTaskInv, IInv, TypeOK
<1> HIDE DEF p, n, c
<1>5. CASE Matches[p][n]
  <2>1. printed' = Append(printed, <<p, n>>)
    BY <1>1, <1>5
  <2>2. /\ WellPlaced(printed')
        /\ Cardinality(Places(printed', p)) = c + 1
        /\ LinesOf(printed', p)[c + 1] = <<p, n>>
        /\ \A i \in 1 .. c : LinesOf(printed', p)[i] = LinesOf(printed, p)[i]
        /\ \A q \in Paths \ {p} : /\ Places(printed', q) = Places(printed, q)
                                  /\ LinesOf(printed', q) = LinesOf(printed, q)
    <3>1. WellPlaced(printed) /\ n \in Nat
      BY <1>2 DEF PrintedInv
    <3>2. OneMore(printed, printed', p, n)
      BY <1>2, <2>1, <3>1, PrintLine, Zenon
    <3> QED
      BY <3>2, Zenon DEF OneMore, c
  <2>3. /\ n \in Hits(p)
        /\ Cardinality(HitsBefore(p, n + 1)) = c + 1
        /\ c \in Nat
        /\ Rank(Hits(p), n) = c + 1
        /\ c + 1 <= Cardinality(Hits(p))
        /\ Cardinality(Hits(p)) \in Nat
    BY <1>1, <1>2, <1>5, PassHit, HitsFinite
  <2>4. fauxgrep_file(p)[c + 1] = <<p, n>>
    <3>1. Ranked(Hits(p), c + 1) = n
      BY <1>2, <2>3, HitsFinite, RankedAtRank
    <3>2. c + 1 \in 1 .. Cardinality(Hits(p))
      BY <2>3
    <3> QED
      BY <3>1, <3>2 DEF fauxgrep_file, InOrder
  <2>5. AgreesOn(printed', p)
    <3>1. \A i \in 1 .. c : LinesOf(printed, p)[i] = fauxgrep_file(p)[i]
      BY <1>2 DEF PrintedInv, AgreesOn, c
    <3>2. \A i \in 1 .. c + 1 : i = c + 1 \/ i \in 1 .. c
      BY <2>3
    <3>3. \A i \in 1 .. c + 1 : LinesOf(printed', p)[i] = fauxgrep_file(p)[i]
      BY <2>2, <2>4, <3>1, <3>2, Zenon
    <3> QED
      BY <2>2, <2>3, <3>3 DEF AgreesOn
  <2>6. ASSUME NEW q \in Paths \ {p} PROVE AgreesOn(printed', q)
    BY <2>2 DEF PrintedInv, AgreesOn
  <2>7. ASSUME NEW q \in Paths, q > taken' PROVE Places(printed', q) = {}
    <3>1. q > taken /\ q # p
      BY <1>1, <1>2, <1>4, <2>7 DEF IInv, TypeOK, Paths
    <3> QED
      BY <2>2, <3>1 DEF PrintedInv
  <2>8. ASSUME NEW v \in Searching'
        PROVE  IF task'[v] = "scan"
                 THEN Cardinality(Places(printed', job'[v]))
                        = Cardinality(HitsBefore(job'[v], lineno'[v]))
                 ELSE Places(printed', job'[v]) = {}
    <3>1. CASE v = w
      BY <1>1, <1>3, <2>2, <2>3, <3>1 DEF p
    <3>2. CASE v # w
      <4>1. v \in Workers /\ v \in Searching /\ job[v] \in Paths \ {p}
        BY <1>1, <1>4, <3>2, InHandIsFile DEF Searching
      <4> QED
        BY <1>1, <1>3, <2>2, <3>2, <4>1 DEF PrintedInv
    <3> QED
      BY <3>1, <3>2
  <2> QED
    BY <1>3, <2>2, <2>5, <2>6, <2>7, <2>8 DEF PrintedInv
<1>6. CASE ~Matches[p][n]
  <2>1. printed' = printed
    BY <1>1, <1>6
  <2>2. HitsBefore(p, n + 1) = HitsBefore(p, n)
    BY <1>2, <1>6 DEF HitsBefore, Hits
  <2>3. ASSUME NEW v \in Searching
        PROVE  IF task[v] = "scan"
                 THEN Cardinality(Places(printed, job[v]))
                        = Cardinality(HitsBefore(job[v], lineno'[v]))
                 ELSE Places(printed, job[v]) = {}
    <3>1. CASE v = w
      BY <1>1, <1>2, <1>3, <2>2, <3>1 DEF p, c
    <3>2. CASE v # w
      BY <1>3, <3>2 DEF PrintedInv, Searching
    <3> QED
      BY <3>1, <3>2
  <2> QED
    BY <1>1, <1>3, <2>1, <2>3 DEF PrintedInv
<1> QED
  BY <1>5, <1>6

\* Opening a file prints nothing and begins with its first line.
LEMMA OpenStep ==
  ASSUME IInv, GrepTaskInv, PrintedInv, NEW w \in Workers, Open(w)
  PROVE  PrintedInv'
<1>1. /\ UNCHANGED <<Searching, job, taken, printed>>
      /\ w \in Searching /\ task[w] = "start"
      /\ lineno' = [lineno EXCEPT ![w] = 1]
      /\ task' = [task EXCEPT ![w] = "scan"]
  BY DEF Open, Searching, SetTask, GrepTaskInv, vars, ring
<1>2. Places(printed, job[w]) = {} /\ HitsBefore(job[w], 1) = {}
  <2>1. job[w] \in Paths
    BY <1>1, InHandIsFile
  <2>2. \A h \in Hits(job[w]) : h >= 1 /\ h \in Nat
    BY <2>1, HitsFinite DEF Hits
  <2>3. HitsBefore(job[w], 1) = {}
    BY <2>2 DEF HitsBefore
  <2> QED
    BY <1>1, <2>3 DEF PrintedInv
<1>3. lineno' \in [Workers -> Nat \ {0}]
  BY <1>1 DEF PrintedInv
<1>4. ASSUME NEW v \in Searching
      PROVE  IF task'[v] = "scan"
               THEN Cardinality(Places(printed, job[v])) = Cardinality(HitsBefore(job[v], lineno'[v]))
               ELSE Places(printed, job[v]) = {}
  <2>1. CASE v = w
    BY <1>1, <1>2, <2>1 DEF PrintedInv, GrepTaskInv
  <2>2. CASE v # w
    BY <1>1, <2>2 DEF PrintedInv, GrepTaskInv, Searching
  <2> QED
    BY <2>1, <2>2
<1> QED
  BY <1>1, <1>3, <1>4 DEF PrintedInv

\* Every step keeps what is printed in agreement with the files.
LEMMA PrintedStep ==
  ASSUME IInv, GrepTaskInv, PrintedInv, GrepNext
  PROVE  PrintedInv'
<1>1. ASSUME NEW w \in Workers, OpenFails(w) \/ EndOfFile(w) PROVE PrintedInv'
  <2>1. Searching' = Searching \ {w} /\ UNCHANGED <<job, taken, search>>
    BY <1>1, GrepLetsGo DEF OpenFails, EndOfFile
  <2>2. \A v \in Workers \ {w} : task'[v] = task[v]
    BY <1>1 DEF OpenFails, EndOfFile, SetTask, GrepTaskInv
  <2> QED
    BY <2>1, <2>2 DEF PrintedInv, search, Searching
<1>2. ASSUME UNCHANGED search, \A w \in Workers : task'[w] = "scan" <=> task[w] = "scan",
             UNCHANGED <<Searching, job, taken>>
      PROVE  PrintedInv'
  BY <1>2 DEF PrintedInv, search, Searching
<1>3. ASSUME UNCHANGED search, NEW w \in Workers,
             PopTake(w), task[w] = "queue", UNCHANGED pool
      PROVE  PrintedInv'
  <2>1. /\ Searching' = Searching \cup {w}
        /\ job'[w] = taken + 1 /\ \A v \in Searching : job'[v] = job[v]
        /\ taken' = taken + 1 /\ taken \in Nat
        /\ task' = task
    BY <1>3, GrepTakenIsNew DEF pool
  <2>2. taken + 1 \in Paths
    BY <1>3, QueueAssumption DEF PopTake, IInv, TypeOK, RingFifo, Paths
  <2>3. Places(printed, taken + 1) = {}
    BY <2>1, <2>2 DEF PrintedInv
  <2>4. \A p \in Paths : p > taken + 1 => p > taken
    BY <2>1 DEF Paths
  <2> QED
    BY <1>3, <2>1, <2>3, <2>4 DEF PrintedInv, search
<1> QED
  BY <1>1, <1>2, <1>3, ScanStep, OpenStep, SearchMoves

\* Nothing is in hand and nothing printed at the start.
LEMMA GrepStart == GrepInit => GrepTaskInv /\ PrintedInv
<1> SUFFICES ASSUME GrepInit PROVE GrepTaskInv /\ PrintedInv
  OBVIOUS
<1>1. Searching = {}
  BY DEF GrepInit, PoolInit, Init, Searching, Threads
<1>2. GrepTaskInv
  BY <1>1, QueueAssumption DEF GrepInit, PoolInit, Init, GrepTaskInv, Threads
<1>3. printed = << >> /\ lineno \in [Workers -> Nat \ {0}]
  BY DEF GrepInit
<1>4. \A p : Places(printed, p) = {}
  BY <1>3 DEF Places
<1>5. Cardinality({}) = 0 /\ \A i : i \notin 1 .. 0
  BY FS_EmptySet
<1>6. printed \in Seq(Paths \X Nat)
  BY <1>3
<1>7. WellPlaced(printed)
  BY <1>4, <1>5, <1>6 DEF WellPlaced
<1>8. \A p \in Paths : AgreesOn(printed, p)
  <2> SUFFICES ASSUME NEW p \in Paths PROVE AgreesOn(printed, p)
    OBVIOUS
  <2>0. Cardinality(Places(printed, p)) = 0
    BY <1>4, <1>5, Zenon
  <2>1. 0 <= Cardinality(Hits(p))
    BY HitsFinite
  <2> QED
    BY <1>5, <2>0, <2>1 DEF AgreesOn
<1> QED
  BY <1>1, <1>2, <1>3, <1>4, <1>7, <1>8 DEF PrintedInv

\* However the workers interleave and whichever files cannot be opened, what has been
\* printed of a file is a prefix of what fauxgrep.c prints of it, for every number of
\* workers and files and every content.
THEOREM GrepPrintsPrefixes == GrepSpec => []OutputIsPrefix
<1>1. IInv /\ GrepTaskInv /\ PrintedInv /\ [GrepNext]_grep_vars => GrepTaskInv' /\ PrintedInv'
  <2>1. ASSUME IInv, GrepTaskInv, PrintedInv, GrepNext PROVE GrepTaskInv' /\ PrintedInv'
    BY <2>1, GrepTaskStep, PrintedStep
  <2>2. ASSUME GrepTaskInv, PrintedInv, UNCHANGED grep_vars PROVE GrepTaskInv' /\ PrintedInv'
    BY <2>2 DEF GrepTaskInv, PrintedInv, Searching, grep_vars, vars, ring, pool, search
  <2> QED
    BY <2>1, <2>2
<1>2. PrintedInv => OutputIsPrefix
  BY PrefixIsAgreement DEF PrintedInv, OutputIsPrefix, OutputOf
<1> QED
  BY <1>1, <1>2, GrepStart, GrepRunsQueue, Invariance, PTL DEF GrepSpec

=============================================================================
