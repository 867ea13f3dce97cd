------------------------ MODULE FhistogramMT_proofs ------------------------
(***************************************************************************)
(* Proofs about fhistogram-mt.c for every number of workers, every         *)
(* capacity of the queue, all files and every distance between two merges: *)
(* the program uses the queue as JobQueue models it, and no bit that was   *)
(* read is lost or counted twice.                                          *)
(***************************************************************************)
EXTENDS FhistogramMT, JobQueue_proofs, WellFoundedInduction

-----------------------------------------------------------------------------
(***************************************************************************)
(* Sums over a finite set.  The sum is a recursive function on the subsets *)
(* that takes away one element after the other; it satisfies its equation  *)
(* because a function that does can be built up by the size of the         *)
(* subsets.                                                                *)
(***************************************************************************)
Pick(s) == CHOOSE x \in s : TRUE

\* The sum of what the workers in S have counted of bit b.
SumOf(h, b, S) == MapThenSumSet(LAMBDA w : h[w][b], S)

SumStep(F, h, b, s) == IF s = {} THEN 0 ELSE h[Pick(s)][b] + F[s \ {Pick(s)}]

\* F is the sum on all subsets of S that have at most n elements.
Small(S, n) == { s \in SUBSET S : Cardinality(s) <= n }
SumsTo(F, h, b, S, n) ==
  F \in [Small(S, n) -> Int] /\ \A s \in Small(S, n) : F[s] = SumStep(F, h, b, s)

\* Every nonempty set of natural numbers has a least element.
LEMMA LeastNat ==
  ASSUME NEW S \in SUBSET Nat, S # {}
  PROVE  \E m \in S : \A k \in S : m <= k
<1>1. IsWellFoundedOn(OpToRel(<, Nat), Nat)
  BY NatLessThanWellFounded
<1>2. PICK m \in S : \A k \in S : ~(<<k, m>> \in OpToRel(<, Nat))
  BY <1>1, WFMin
<1>3. \A k \in S : ~(k < m)
  BY <1>2 DEF OpToRel
<1> QED
  BY <1>3

\* A subset without one of its elements is one smaller.
LEMMA SubsetSize ==
  ASSUME NEW S, IsFiniteSet(S), NEW s \in SUBSET S
  PROVE  /\ IsFiniteSet(s) /\ Cardinality(s) \in Nat /\ Cardinality(s) <= Cardinality(S)
         /\ s # {} => /\ Pick(s) \in s
                      /\ s \ {Pick(s)} \in SUBSET S
                      /\ Cardinality(s \ {Pick(s)}) = Cardinality(s) - 1
                      /\ Cardinality(s) > 0
<1>1. IsFiniteSet(s) /\ Cardinality(s) \in Nat /\ Cardinality(s) <= Cardinality(S)
  BY FS_Subset, FS_CardinalityType
<1>2. ASSUME s # {} PROVE Pick(s) \in s
  BY <1>2 DEF Pick
<1>3. ASSUME s # {} PROVE Cardinality(s \ {Pick(s)}) = Cardinality(s) - 1
  BY <1>1, <1>2, <1>3, FS_RemoveElement
<1>4. ASSUME s # {} PROVE Cardinality(s) > 0
  BY <1>1, <1>4, FS_EmptySet
<1> QED
  BY <1>1, <1>2, <1>3, <1>4

\* A sum up to every size.
LEMMA SumsExist ==
  ASSUME NEW S, IsFiniteSet(S), NEW h, NEW b, \A w \in S : h[w][b] \in Int
  PROVE  \A n \in Nat : \E F : SumsTo(F, h, b, S, n)
<1> DEFINE Bad == { n \in Nat : ~\E F : SumsTo(F, h, b, S, n) }
<1> SUFFICES ASSUME Bad # {} PROVE FALSE
  OBVIOUS
<1>1. PICK m \in Bad : \A k \in Bad : m <= k
  BY LeastNat
<1>0. m \in Nat /\ ~\E F : SumsTo(F, h, b, S, m)
  OBVIOUS
<1>2. CASE m = 0
  <2> DEFINE F == [s \in Small(S, 0) |-> 0]
  <2>1. \A s \in Small(S, 0) : s = {}
    <3> TAKE s \in Small(S, 0)
    <3>1. s \in SUBSET S /\ Cardinality(s) <= 0
      BY DEF Small
    <3>2. Cardinality(s) \in Nat /\ (s # {} => Cardinality(s) > 0)
      BY <3>1, SubsetSize
    <3> QED
      BY <3>1, <3>2
  <2>2. F \in [Small(S, 0) -> Int] /\ \A s \in Small(S, 0) : F[s] = SumStep(F, h, b, s)
    BY <2>1 DEF SumStep
  <2> HIDE DEF F
  <2>3. SumsTo(F, h, b, S, 0)
    BY <2>2 DEF SumsTo
  <2> QED
    BY <1>0, <1>2, <2>3
<1>3. CASE m # 0
  <2>1. m - 1 \in Nat /\ m - 1 \notin Bad
    BY <1>0, <1>1, <1>3
  <2>2. PICK G : SumsTo(G, h, b, S, m - 1)
    BY <2>1
  <2>3. /\ G \in [Small(S, m - 1) -> Int]
        /\ \A s \in Small(S, m - 1) : G[s] = SumStep(G, h, b, s)
    BY <2>2 DEF SumsTo
  <2> DEFINE F == [s \in Small(S, m) |-> SumStep(G, h, b, s)]
  <2>4. ASSUME NEW s \in Small(S, m), s # {}
        PROVE  s \ {Pick(s)} \in Small(S, m - 1) /\ Pick(s) \in S
    <3>1. s \in SUBSET S /\ Cardinality(s) <= m
      BY DEF Small
    <3>2. /\ Pick(s) \in s /\ s \ {Pick(s)} \in SUBSET S
          /\ Cardinality(s \ {Pick(s)}) = Cardinality(s) - 1 /\ Cardinality(s) \in Nat
      BY <2>4, <3>1, SubsetSize
    <3>3. Cardinality(s \ {Pick(s)}) <= m - 1
      BY <1>0, <3>1, <3>2
    <3> QED
      BY <3>1, <3>2, <3>3 DEF Small
  <2>5. \A s \in Small(S, m - 1) : s \in Small(S, m)
    <3> TAKE s \in Small(S, m - 1)
    <3>1. s \in SUBSET S /\ Cardinality(s) <= m - 1
      BY DEF Small
    <3>2. Cardinality(s) \in Nat
      BY <3>1, SubsetSize
    <3> QED
      BY <1>0, <3>1, <3>2 DEF Small
  <2>6. ASSUME NEW s \in Small(S, m) PROVE SumStep(G, h, b, s) \in Int
    <3>1. CASE s = {}
      BY <3>1 DEF SumStep
    <3>2. CASE s # {}
      <4>1. h[Pick(s)][b] \in Int /\ G[s \ {Pick(s)}] \in Int
        BY <2>3, <2>4, <3>2
      <4> QED
        BY <3>2, <4>1 DEF SumStep
    <3> QED
      BY <3>1, <3>2
  <2>7. \A s \in Small(S, m - 1) : F[s] = G[s]
    BY <2>3, <2>5
  <2>8. F \in [Small(S, m) -> Int]
    BY <2>6
  <2>9. ASSUME NEW s \in Small(S, m) PROVE F[s] = SumStep(F, h, b, s)
    <3>1. F[s] = SumStep(G, h, b, s)
      OBVIOUS
    <3> HIDE DEF F
    <3>2. CASE s = {}
      BY <3>1, <3>2 DEF SumStep
    <3>3. CASE s # {}
      <4>1. F[s \ {Pick(s)}] = G[s \ {Pick(s)}]
        BY <2>4, <2>7, <3>3
      <4> QED
        BY <3>1, <3>3, <4>1 DEF SumStep
    <3> QED
      BY <3>2, <3>3
  <2> HIDE DEF F
  <2>10. SumsTo(F, h, b, S, m)
    BY <2>8, <2>9 DEF SumsTo
  <2> QED
    BY <1>0, <2>10
<1> QED
  BY <1>2, <1>3

\* G is a sum of g on the subsets of S.
IsSum(G, g, b, S) == \A s \in SUBSET S : G[s] = SumStep(G, g, b, s)
IsIntSum(F, h, b, S) == F \in [SUBSET S -> Int] /\ IsSum(F, h, b, S)

\* In g, worker w has counted d more of bit b than in h.
MoreBy(g, h, b, S, w, d) ==
  \A v \in S : h[v][b] \in Int /\ g[v][b] = h[v][b] + (IF v = w THEN d ELSE 0)

\* If one worker has counted d more of bit b, the sum is d more.
LEMMA SumsDiffer ==
  ASSUME NEW S, IsFiniteSet(S), NEW h, NEW g, NEW b, NEW d \in Int, NEW w,
         MoreBy(g, h, b, S, w, d),
         NEW F, IsIntSum(F, h, b, S), NEW G, IsSum(G, g, b, S)
  PROVE  G[S] = F[S] + (IF w \in S THEN d ELSE 0)
<1>0. F \in [SUBSET S -> Int] /\ IsSum(F, h, b, S)
  BY DEF IsIntSum
<1> DEFINE Right(s) == G[s] = F[s] + (IF w \in s THEN d ELSE 0)
           Bad == { n \in Nat : \E s \in SUBSET S : Cardinality(s) = n /\ ~Right(s) }
<1> SUFFICES Bad = {}
  <2>1. S \in SUBSET S /\ Cardinality(S) \in Nat
    BY FS_CardinalityType
  <2> QED
    BY <2>1
<1> SUFFICES ASSUME Bad # {} PROVE FALSE
  OBVIOUS
<1>1. PICK m \in Bad : \A k \in Bad : m <= k
  BY LeastNat
<1>2. PICK s \in SUBSET S : Cardinality(s) = m /\ ~Right(s)
  OBVIOUS
<1>3. G[s] = SumStep(G, g, b, s) /\ F[s] = SumStep(F, h, b, s)
  BY <1>0 DEF IsSum
<1>4. CASE s = {}
  BY <1>2, <1>3, <1>4 DEF SumStep
<1>5. CASE s # {}
  <2> DEFINE x == Pick(s)
             t == s \ {x}
  <2>1. /\ x \in s /\ t \in SUBSET S /\ Cardinality(t) = Cardinality(s) - 1
        /\ Cardinality(t) \in Nat /\ Cardinality(s) \in Nat
    <3>1. Pick(s) \in s /\ t \in SUBSET S /\ Cardinality(t) = Cardinality(s) - 1
      BY <1>5, SubsetSize
    <3>2. Cardinality(t) \in Nat /\ Cardinality(s) \in Nat
      BY <3>1, SubsetSize
    <3> QED
      BY <3>1, <3>2
  <2>2. Cardinality(t) \notin Bad
    <3>1. m \in Nat
      OBVIOUS
    <3> HIDE DEF Bad, Right, t
    <3> QED
      BY <1>1, <1>2, <2>1, <3>1
  <2>3. Right(t)
    BY <2>1, <2>2
  <2>4. G[s] = g[x][b] + G[t] /\ F[s] = h[x][b] + F[t]
    BY <1>3, <1>5 DEF SumStep
  <2> HIDE DEF x
  <2>5. /\ h[x][b] \in Int /\ g[x][b] = h[x][b] + (IF x = w THEN d ELSE 0)
        /\ F[t] \in Int
    BY <1>0, <2>1 DEF MoreBy
  <2>6. w \in s <=> (w \in t \/ x = w)
    BY <2>1
  <2>7. x = w => w \notin t
    OBVIOUS
  <2> HIDE DEF t
  <2>8. CASE x = w
    BY <1>2, <2>3, <2>4, <2>5, <2>6, <2>7, <2>8
  <2>9. CASE x # w
    BY <1>2, <2>3, <2>4, <2>5, <2>6, <2>9
  <2> QED
    BY <2>8, <2>9
<1> QED
  BY <1>4, <1>5

\* The sum satisfies its equation.
LEMMA SumUnfolds ==
  ASSUME NEW S, IsFiniteSet(S), NEW h, NEW b, \A w \in S : h[w][b] \in Int
  PROVE  /\ \E F \in [SUBSET S -> Int] : IsSum(F, h, b, S)
         /\ \E G : IsSum(G, h, b, S) /\ SumOf(h, b, S) = G[S]
<1> DEFINE n == Cardinality(S)
           body(g) == [s \in SUBSET S |-> IF s = {} THEN 0 ELSE h[Pick(s)][b] + g[s \ {Pick(s)}]]
           iter == CHOOSE g : g = body(g)
<1>1. n \in Nat
  BY FS_CardinalityType
<1>2. PICK F : SumsTo(F, h, b, S, n)
  BY <1>1, SumsExist
<1>3. Small(S, n) = SUBSET S
  BY SubsetSize DEF Small
<1>4. F \in [SUBSET S -> Int] /\ IsSum(F, h, b, S) /\ F = body(F)
  BY <1>2, <1>3 DEF SumsTo, SumStep, IsSum
<1>5. iter = body(iter)
  <2> HIDE DEF body
  <2> QED
    BY <1>4
<1>6. SumOf(h, b, S) = iter[S]
  BY DEF SumOf, MapThenSumSet, MapThenFoldSet, Pick
<1> HIDE DEF iter
<1>7. IsSum(iter, h, b, S)
  BY <1>5 DEF IsSum, SumStep
<1> QED
  BY <1>4, <1>6, <1>7

\* A sum of integers is one, and follows every change of one of them.
LEMMA SumChanges ==
  ASSUME NEW S, IsFiniteSet(S), NEW h, NEW g, NEW b, NEW d \in Int, NEW w \in S,
         MoreBy(g, h, b, S, w, d)
  PROVE  SumOf(h, b, S) \in Int /\ SumOf(g, b, S) = SumOf(h, b, S) + d
<1>0. \A v \in S : h[v][b] \in Int /\ g[v][b] \in Int
  BY DEF MoreBy
<1>1. PICK F : IsIntSum(F, h, b, S)
  BY <1>0, SumUnfolds DEF IsIntSum
<1>2. PICK H : IsSum(H, h, b, S) /\ SumOf(h, b, S) = H[S]
  BY <1>0, SumUnfolds
<1>3. PICK G : IsSum(G, g, b, S) /\ SumOf(g, b, S) = G[S]
  BY <1>0, SumUnfolds
<1>4. G[S] = F[S] + d
  BY <1>1, <1>3, SumsDiffer
<1>5. MoreBy(h, h, b, S, w, 0) /\ 0 \in Int
  BY <1>0 DEF MoreBy
<1>6. H[S] = F[S] + 0
  BY <1>1, <1>2, <1>5, SumsDiffer
<1>7. F[S] \in Int
  BY <1>1 DEF IsIntSum
<1> QED
  BY <1>2, <1>3, <1>4, <1>6, <1>7

-----------------------------------------------------------------------------
(***************************************************************************)
(* The program and its queue.                                              *)
(***************************************************************************)
Counts(w) ==
  \/ Open(w) \/ OpenFails(w) \/ ReadByte(w) \/ EndOfFile(w) \/ LockGlobal(w)
  \/ MergeRead(w) \/ MergeWrite(w) \/ ShowAndUnlock(w) \/ FreePath(w)

\* The body of the worker does not touch the queue.
LEMMA CountsOnly == \A w \in Workers : Counts(w) => UNCHANGED vars
BY DEF Counts, Open, OpenFails, ReadByte, EndOfFile, LockGlobal, MergeRead, MergeWrite,
       ShowAndUnlock, FreePath

\* Every step of main, of a worker and of the threads library is a step of the
\* queue or does not touch it.
LEMMA HistStepsQueue == [HistNext]_hist_vars => [Next]_vars
<1> SUFFICES ASSUME [HistNext]_hist_vars PROVE [Next]_vars
  OBVIOUS
<1>1. CASE HistMain
  BY <1>1 DEF HistMain, PoolMain, Running, NextItem, EndOfInput, JoinAndExit, Next, MainStep
<1>2. ASSUME NEW w \in Workers, HistWorker(w) PROVE [Next]_vars
  <2>1. CASE PopCall(w) \/ GotJob(w)
    BY <1>2, <2>1 DEF HistWorker, Running, PopCall, GotJob, Next, WorkerStep, PopStep
  <2>2. CASE Counts(w)
    BY <2>2, CountsOnly
  <2> QED
    BY <1>2, <2>1, <2>2 DEF HistWorker, Counts
<1>3. CASE PoolWakeup
  BY <1>3 DEF PoolWakeup, Next
<1>4. CASE UNCHANGED hist_vars
  BY <1>4 DEF hist_vars
<1> QED
  BY <1>1, <1>2, <1>3, <1>4 DEF HistNext

\* fhistogram-mt.c obeys the protocol under which the queue was verified: one producer
\* that destroys the queue once, and consumers that stop when pop fails, whatever
\* becomes of the files.  What is proved of the queue therefore holds in the program.
THEOREM HistRunsQueue == HistSpec => Spec
<1>1. HistInit => Init
  BY DEF HistInit, PoolInit
<1> QED
  BY <1>1, HistStepsQueue, PTL DEF HistSpec, Spec

-----------------------------------------------------------------------------
(***************************************************************************)
(* The inductive invariant.                                                *)
(***************************************************************************)
Merging == {"merge_read", "merge_write", "show"}

HistTypeInv ==
  /\ task \in [Workers -> {"queue", "start", "read", "lock", "returned"} \cup Merging]
  /\ global_histogram \in [Bits -> Int]
  /\ local_histogram \in [Workers -> [Bits -> Int]]
  /\ consumed \in [Bits -> Int]
  /\ bit \in [Workers -> Int]
  /\ sum \in [Workers -> Int]

\* A worker that is inside pop, or has seen it fail, has no file.
LoopInv == \A w \in Workers : pc[w] # "client" => task[w] \in {"queue", "returned"}

\* A worker that merges holds the mutex, so that what it has read of the global
\* histogram is still there when it writes; what it has merged it has cleared, and it
\* has nothing left when it turns to another file.
Merged(w) == \A b \in Bits : local_histogram[w][b] = 0

MergeInv(w) ==
  /\ task[w] \in Merging => global_histogram_mutex = w
  /\ task[w] \in {"merge_read", "merge_write"} =>
       /\ bit[w] \in Bits
       /\ \A b \in Bits : b < bit[w] => local_histogram[w][b] = 0
  /\ task[w] = "merge_write" => sum[w] = global_histogram[bit[w]]
  /\ task[w] \in {"queue", "start", "show", "returned"} => Merged(w)

HistInv == HistTypeInv /\ LoopInv /\ (\A w \in Workers : MergeInv(w)) /\ BitsConserved

\* Histograms hold integers, and the bits and sums of a merge stay in range.
LEMMA HistTypeStep ==
  ASSUME HistTypeInv, \A w \in Workers : MergeInv(w), [HistNext]_hist_vars
  PROVE  HistTypeInv'
<1> USE DEF HistTypeInv, program, pool, SetTask, Merging
<1>1. CASE HistMain \/ (PoolWakeup /\ UNCHANGED program)
  BY <1>1 DEF HistMain, PoolMain, NextItem, EndOfInput, JoinAndExit, PoolWakeup
<1>2. ASSUME NEW w \in Workers, PopCall(w) \/ GotJob(w), UNCHANGED program PROVE HistTypeInv'
  BY <1>2 DEF PopCall, GotJob
<1>3. ASSUME NEW w \in Workers, Open(w) PROVE HistTypeInv'
  <2>1. Zeros \in [Bits -> Int]
    BY DEF Zeros
  <2> QED
    BY <1>3, <2>1 DEF Open
<1>4. ASSUME NEW w \in Workers, OpenFails(w) \/ EndOfFile(w) \/ ShowAndUnlock(w) \/ FreePath(w)
      PROVE  HistTypeInv'
  BY <1>4 DEF OpenFails, EndOfFile, ShowAndUnlock, FreePath
<1>5. ASSUME NEW w \in Workers, ReadByte(w) PROVE HistTypeInv'
  <2> DEFINE byte == Content[job[w]][i[w] + 1]
  <2>1. \A h \in [Bits -> Int] : Updated(h, byte) \in [Bits -> Int]
    BY DEF Updated
  <2>2. /\ local_histogram' = [local_histogram EXCEPT ![w] = Updated(@, byte)]
        /\ consumed' = Updated(consumed, byte)
        /\ UNCHANGED <<global_histogram, bit, sum>>
        /\ task' = [task EXCEPT ![w] = IF i'[w] % Chunk = 0 THEN "lock" ELSE "read"]
    BY <1>5 DEF ReadByte
  <2> HIDE DEF byte
  <2>3. local_histogram' \in [Workers -> [Bits -> Int]] /\ consumed' \in [Bits -> Int]
    BY <2>1, <2>2
  <2>4. task' \in [Workers -> {"queue", "start", "read", "lock", "returned"} \cup Merging]
    BY <2>2
  <2> QED
    BY <2>2, <2>3, <2>4
<1>6. ASSUME NEW w \in Workers, LockGlobal(w) PROVE HistTypeInv'
  BY <1>6 DEF LockGlobal
<1>7. ASSUME NEW w \in Workers, MergeRead(w) PROVE HistTypeInv'
  <2>1. bit[w] \in Bits
    BY <1>7 DEF MergeRead, MergeInv
  <2>2. global_histogram[bit[w]] \in Int
    BY <2>1
  <2> QED
    BY <1>7, <2>2 DEF MergeRead
<1>8. ASSUME NEW w \in Workers, MergeWrite(w) PROVE HistTypeInv'
  <2>1. bit[w] \in Bits
    BY <1>8 DEF MergeWrite, MergeInv
  <2>2. sum[w] + local_histogram[w][bit[w]] \in Int
    BY <2>1
  <2>3. global_histogram' \in [Bits -> Int] /\ local_histogram' \in [Workers -> [Bits -> Int]]
    BY <1>8, <2>1, <2>2 DEF MergeWrite
  <2>4. bit' \in [Workers -> Int]
    BY <1>8 DEF MergeWrite
  <2> QED
    BY <1>8, <2>3, <2>4 DEF MergeWrite
<1>9. CASE UNCHANGED hist_vars
  BY <1>9 DEF hist_vars
<1> QED
  BY <1>1, <1>2, <1>3, <1>4, <1>5, <1>6, <1>7, <1>8, <1>9 DEF HistNext, HistWorker

\* The loop of a worker and its call of pop stay in agreement.
LEMMA LoopStep ==
  ASSUME TypeOK, HistTypeInv, LoopInv, [HistNext]_hist_vars
  PROVE  LoopInv'
<1> USE QueueAssumption DEF TypeOK, At, Goto, Threads, SetTask, LoopInv, pool
<1>1. CASE HistMain
  <2>1. task' = task
    BY <1>1 DEF HistMain, PoolMain, NextItem, EndOfInput, JoinAndExit
  <2>2. \A w \in Workers : pc'[w] = pc[w]
    <3>1. CASE NextItem \/ EndOfInput \/ JoinAndExit
      BY <3>1 DEF NextItem, PushCheck, EndOfInput, DestroyLock, JoinAndExit, vars
    <3>2. CASE PushStep
      BY <3>2 DEF PushStep, PushLock, PushWait, PushWake, PushPut
    <3>3. CASE DestroyStep
      BY <3>3 DEF DestroyStep, DestroyWait, DestroyWake, DestroyUnlock, DestroyMutex, DestroyRest
    <3> QED
      BY <1>1, <3>1, <3>2, <3>3 DEF HistMain, PoolMain
  <2> QED
    BY <2>1, <2>2
<1>2. ASSUME NEW w \in Workers, PopCall(w) PROVE LoopInv'
  <2>1. task[w] = "queue" /\ task' = task
    BY <1>2 DEF PopCall
  <2>2. \A v \in Workers \ {w} : pc'[v] = pc[v]
    BY <1>2 DEF PopCall, PopStep, PopReadConsAmount, PopReadFlag, PopReadCount,
       PopSignalDestroy, PopLock, PopLockFails, PopWait, PopWake, PopLeave, PopTake, PopReturn
  <2> QED
    BY <2>1, <2>2
<1>3. ASSUME NEW w \in Workers, GotJob(w) PROVE LoopInv'
  <2>1. pc' = [pc EXCEPT ![w] = "client"] /\ task' = [task EXCEPT ![w] = "start"]
    BY <1>3 DEF GotJob, PopReturn
  <2> QED
    BY <2>1 DEF HistTypeInv
<1>4. ASSUME NEW w \in Workers, Counts(w) PROVE LoopInv'
  <2>1. pc' = pc
    BY <1>4, CountsOnly DEF vars
  <2>2. \A v \in Workers \ {w} : task'[v] = task[v]
    BY <1>4 DEF Counts, HistTypeInv, Open, OpenFails, ReadByte, EndOfFile, LockGlobal,
       MergeRead, MergeWrite, ShowAndUnlock, FreePath
  <2>3. pc[w] # "client" => task'[w] \in {"queue", "returned"}
    BY <1>4 DEF Counts, HistTypeInv, Open, OpenFails, ReadByte, EndOfFile, LockGlobal,
       MergeRead, MergeWrite, ShowAndUnlock, FreePath
  <2> QED
    BY <2>1, <2>2, <2>3
<1>5. CASE PoolWakeup
  BY <1>5 DEF PoolWakeup, Wakeup, SpuriousWakeup
<1>6. CASE UNCHANGED hist_vars
  BY <1>6 DEF hist_vars, vars
<1> QED
  BY <1>1, <1>2, <1>3, <1>4, <1>5, <1>6 DEF HistNext, HistWorker, Counts

\* What a step of worker w leaves alone of another worker.
LEMMA OthersKeep ==
  ASSUME NEW w \in Workers, NEW v \in Workers, v # w, HistTypeInv, Counts(w)
  PROVE  /\ task'[v] = task[v] /\ bit'[v] = bit[v] /\ sum'[v] = sum[v]
         /\ local_histogram'[v] = local_histogram[v]
BY DEF HistTypeInv, SetTask, program, Counts, Open, OpenFails, ReadByte, EndOfFile, LockGlobal,
       MergeRead, MergeWrite, ShowAndUnlock, FreePath

\* Only a worker that holds the mutex writes to the global histogram or gives the mutex
\* away, so that no other worker's merge is disturbed.
LEMMA MergeOthers ==
  ASSUME NEW w \in Workers, NEW v \in Workers, v # w, HistTypeInv,
         MergeInv(w), MergeInv(v), Counts(w)
  PROVE  MergeInv(v)'
<1>1. /\ task'[v] = task[v] /\ bit'[v] = bit[v] /\ sum'[v] = sum[v]
      /\ local_histogram'[v] = local_histogram[v]
  BY OthersKeep
<1>2. task[v] \in Merging => global_histogram_mutex = v
  BY DEF MergeInv
<1>3. v # Nobody /\ w # Nobody
  BY QueueAssumption
<1>4. task[v] \in Merging => UNCHANGED <<global_histogram, global_histogram_mutex>>
  <2> SUFFICES ASSUME task[v] \in Merging
               PROVE  UNCHANGED <<global_histogram, global_histogram_mutex>>
    OBVIOUS
  <2>1. global_histogram_mutex # w /\ global_histogram_mutex # Nobody
    BY <1>2, <1>3
  <2>2. task[w] \notin Merging
    BY <2>1 DEF MergeInv
  <2> QED
    BY <2>1, <2>2 DEF Merging, program, Counts, Open, OpenFails, ReadByte, EndOfFile,
       LockGlobal, MergeRead, MergeWrite, ShowAndUnlock, FreePath
<1> QED
  BY <1>1, <1>4 DEF MergeInv, Merging, Merged

\* A worker's own step keeps what its merge has done so far in order.
LEMMA MergeOwn ==
  ASSUME NEW w \in Workers, HistTypeInv, MergeInv(w), Counts(w)
  PROVE  MergeInv(w)'
<1> USE DEF HistTypeInv, SetTask, program, Merging
<1>1. CASE Open(w)
  <2>1. task'[w] = "read"
    BY <1>1 DEF Open
  <2> QED
    BY <2>1 DEF MergeInv
<1>2. CASE OpenFails(w)
  <2>1. task[w] = "start" /\ task'[w] = "queue" /\ UNCHANGED local_histogram
    BY <1>2 DEF OpenFails
  <2> QED
    BY <2>1 DEF MergeInv, Merged
<1>3. CASE ReadByte(w) \/ EndOfFile(w)
  <2>1. task'[w] \in {"lock", "read"}
    BY <1>3 DEF ReadByte, EndOfFile
  <2> QED
    BY <2>1 DEF MergeInv
<1>4. CASE LockGlobal(w)
  <2>1. /\ task'[w] = "merge_read" /\ bit'[w] = 0 /\ global_histogram_mutex' = w
        /\ local_histogram' = local_histogram
    BY <1>4 DEF LockGlobal
  <2>2. 0 \in Bits /\ \A b \in Bits : ~(b < 0)
    BY ContentAssumption DEF Bits
  <2> QED
    BY <2>1, <2>2 DEF MergeInv
<1>5. CASE MergeRead(w)
  <2>1. /\ task[w] = "merge_read" /\ task'[w] = "merge_write"
        /\ sum'[w] = global_histogram[bit[w]]
        /\ UNCHANGED <<global_histogram, local_histogram, global_histogram_mutex, bit>>
    BY <1>5 DEF MergeRead
  <2> QED
    BY <2>1 DEF MergeInv
<1>6. CASE MergeWrite(w)
  <2> DEFINE n == bit[w]
  <2>1. /\ task[w] = "merge_write" /\ bit'[w] = n + 1
        /\ task'[w] = IF n + 1 < NumBits THEN "merge_read" ELSE "show"
        /\ local_histogram' = [local_histogram EXCEPT ![w][n] = 0]
        /\ global_histogram_mutex' = global_histogram_mutex
    BY <1>6 DEF MergeWrite
  <2>2. /\ n \in Bits /\ n \in Int /\ \A b \in Bits : b < n => local_histogram[w][b] = 0
        /\ global_histogram_mutex = w
    BY <2>1 DEF MergeInv
  <2> HIDE DEF n
  <2>3. \A b \in Bits : local_histogram'[w][b] = IF b = n THEN 0 ELSE local_histogram[w][b]
    BY <2>1, <2>2
  <2>4. \A b \in Bits : b < n + 1 => local_histogram'[w][b] = 0
    <3> SUFFICES ASSUME NEW b \in Bits, b < n + 1 PROVE local_histogram'[w][b] = 0
      OBVIOUS
    <3>1. b < n \/ b = n
      BY <2>2 DEF Bits
    <3> QED
      BY <2>2, <2>3, <3>1
  <2>5. CASE n + 1 < NumBits
    <3>1. n + 1 \in Bits
      BY <2>2, <2>5, ContentAssumption DEF Bits
    <3> QED
      BY <2>1, <2>2, <2>4, <2>5, <3>1 DEF MergeInv
  <2>6. CASE ~(n + 1 < NumBits)
    <3>1. \A b \in Bits : b < n + 1
      BY <2>2, <2>6, ContentAssumption DEF Bits
    <3>2. Merged(w)'
      BY <2>4, <3>1 DEF Merged
    <3> QED
      BY <2>1, <2>2, <2>6, <3>2 DEF MergeInv
  <2> QED
    BY <2>5, <2>6
<1>7. CASE ShowAndUnlock(w)
  <2>1. task[w] = "show" /\ task'[w] \in {"queue", "read"} /\ UNCHANGED local_histogram
    BY <1>7 DEF ShowAndUnlock
  <2> QED
    BY <2>1 DEF MergeInv, Merged
<1>8. CASE FreePath(w)
  <2>1. task[w] = "queue" /\ task'[w] = "returned" /\ UNCHANGED local_histogram
    BY <1>8 DEF FreePath
  <2> QED
    BY <2>1 DEF MergeInv, Merged
<1> QED
  BY <1>1, <1>2, <1>3, <1>4, <1>5, <1>6, <1>7, <1>8 DEF Counts

\* No step of any thread disturbs a merge.
LEMMA MergeStep ==
  ASSUME HistTypeInv, LoopInv, \A w \in Workers : MergeInv(w), [HistNext]_hist_vars,
         NEW v \in Workers
  PROVE  MergeInv(v)'
<1>1. ASSUME UNCHANGED <<task, program>> PROVE MergeInv(v)'
  BY <1>1 DEF program, MergeInv, Merged
<1>2. CASE HistMain \/ (PoolWakeup /\ UNCHANGED program) \/ UNCHANGED hist_vars
  BY <1>1, <1>2 DEF HistMain, PoolMain, NextItem, EndOfInput, JoinAndExit, PoolWakeup, pool,
     hist_vars
<1>3. ASSUME NEW w \in Workers, PopCall(w), UNCHANGED program PROVE MergeInv(v)'
  BY <1>1, <1>3 DEF PopCall, pool
<1>4. ASSUME NEW w \in Workers, GotJob(w), UNCHANGED program PROVE MergeInv(v)'
  <2>1. pc[w] # "client" /\ task' = [task EXCEPT ![w] = "start"]
    BY <1>4 DEF GotJob, PopReturn, At, SetTask
  <2>2. task[w] \in {"queue", "returned"}
    BY <2>1 DEF LoopInv
  <2>3. task'[v] = task[v] \/ (task[v] \in {"queue", "returned"} /\ task'[v] = "start")
    BY <2>1, <2>2 DEF HistTypeInv
  <2> QED
    BY <1>4, <2>3 DEF program, MergeInv, Merged, Merging
<1>5. ASSUME NEW w \in Workers, Counts(w) PROVE MergeInv(v)'
  BY <1>5, MergeOwn, MergeOthers
<1> QED
  BY <1>2, <1>3, <1>4, <1>5 DEF HistNext, HistWorker, Counts

-----------------------------------------------------------------------------
(***************************************************************************)
(* The bits.                                                               *)
(***************************************************************************)
LEMMA ConservedIs ==
  BitsConserved <=> \A b \in Bits : consumed[b] = global_histogram[b]
                                                    + SumOf(local_histogram, b, Workers)
BY DEF BitsConserved, SumOf

\* A step that changes what one worker has counted of a bit.
LEMMA LocalMoves ==
  ASSUME HistTypeInv, NEW w \in Workers, NEW b \in Bits, NEW d \in Int, NEW new,
         new[b] = local_histogram[w][b] + d,
         local_histogram' = [local_histogram EXCEPT ![w] = new]
  PROVE  /\ SumOf(local_histogram, b, Workers) \in Int
         /\ SumOf(local_histogram', b, Workers) = SumOf(local_histogram, b, Workers) + d
<1>1. \A v \in Workers : local_histogram[v][b] \in Int
  BY DEF HistTypeInv
<1>2. \A v \in Workers : local_histogram'[v] = IF v = w THEN new ELSE local_histogram[v]
  BY DEF HistTypeInv
<1>3. MoreBy(local_histogram', local_histogram, b, Workers, w, d)
  BY <1>1, <1>2 DEF MoreBy
<1>4. IsFiniteSet(Workers)
  BY QueueAssumption
<1> QED
  BY <1>3, <1>4, SumChanges

\* A byte that is read adds its bits to one local histogram, and a merge moves the
\* bits from there to the global one; nothing else changes either.
LEMMA ConservedStep ==
  ASSUME HistTypeInv, \A w \in Workers : MergeInv(w), BitsConserved, [HistNext]_hist_vars
  PROVE  BitsConserved'
<1> SUFFICES ASSUME NEW b \in Bits
             PROVE  consumed'[b] = global_histogram'[b] + SumOf(local_histogram', b, Workers)
  <2>1. (\A b \in Bits : consumed[b] = global_histogram[b]
                                      + SumOf(local_histogram, b, Workers))' => BitsConserved'
    BY ConservedIs, PTL
  <2>2. (\A b \in Bits : consumed[b] = global_histogram[b]
                                      + SumOf(local_histogram, b, Workers))'
          <=> \A b \in Bits : consumed'[b] = global_histogram'[b]
                                           + SumOf(local_histogram', b, Workers)
    OBVIOUS
  <2> QED
    BY <2>1, <2>2
<1>0. /\ consumed[b] = global_histogram[b] + SumOf(local_histogram, b, Workers)
      /\ consumed[b] \in Int /\ global_histogram[b] \in Int
  BY ConservedIs DEF HistTypeInv
<1>1. CASE UNCHANGED <<consumed, global_histogram, local_histogram>>
  BY <1>0, <1>1
<1>2. ASSUME NEW w \in Workers, Open(w)
      PROVE  consumed'[b] = global_histogram'[b] + SumOf(local_histogram', b, Workers)
  <2>1. /\ local_histogram' = [local_histogram EXCEPT ![w] = Zeros]
        /\ UNCHANGED <<consumed, global_histogram>>
    BY <1>2 DEF Open
  <2>2. Zeros[b] = local_histogram[w][b] + 0 /\ 0 \in Int
    BY <1>2 DEF Open, MergeInv, Merged, Zeros
  <2>3. /\ SumOf(local_histogram, b, Workers) \in Int
        /\ SumOf(local_histogram', b, Workers) = SumOf(local_histogram, b, Workers) + 0
    BY <2>1, <2>2, LocalMoves
  <2> QED
    BY <1>0, <2>1, <2>3
<1>3. ASSUME NEW w \in Workers, ReadByte(w)
      PROVE  consumed'[b] = global_histogram'[b] + SumOf(local_histogram', b, Workers)
  <2> DEFINE byte == Content[job[w]][i[w] + 1]
             d    == IF b \in byte THEN 1 ELSE 0
  <2>1. /\ local_histogram' = [local_histogram EXCEPT ![w] = Updated(@, byte)]
        /\ consumed' = Updated(consumed, byte)
        /\ UNCHANGED global_histogram
    BY <1>3 DEF ReadByte
  <2> DEFINE new == Updated(local_histogram[w], byte)
  <2>2. local_histogram' = [local_histogram EXCEPT ![w] = new]
    BY <2>1 DEF HistTypeInv
  <2> HIDE DEF byte
  <2>3. /\ consumed'[b] = consumed[b] + d
        /\ new[b] = local_histogram[w][b] + d
        /\ d \in Int
    BY <2>1 DEF Updated, HistTypeInv
  <2> HIDE DEF new, d
  <2>4. /\ SumOf(local_histogram, b, Workers) \in Int
        /\ SumOf(local_histogram', b, Workers) = SumOf(local_histogram, b, Workers) + d
    BY <2>2, <2>3, LocalMoves
  <2> QED
    BY <1>0, <2>1, <2>3, <2>4
<1>4. ASSUME NEW w \in Workers, MergeWrite(w)
      PROVE  consumed'[b] = global_histogram'[b] + SumOf(local_histogram', b, Workers)
  <2> DEFINE n   == bit[w]
             new == [local_histogram[w] EXCEPT ![n] = 0]
             d   == IF b = n THEN 0 - local_histogram[w][n] ELSE 0
  <2>1. n \in Bits /\ sum[w] = global_histogram[n]
    BY <1>4 DEF MergeWrite, MergeInv
  <2>2. /\ global_histogram' = [global_histogram EXCEPT ![n] = sum[w] + local_histogram[w][n]]
        /\ local_histogram' = [local_histogram EXCEPT ![w] = new]
        /\ consumed' = consumed
    BY <1>4 DEF MergeWrite, HistTypeInv
  <2> HIDE DEF n
  <2>3. local_histogram[w][n] \in Int /\ local_histogram[w][b] \in Int
    BY <2>1 DEF HistTypeInv
  <2>4. new[b] = local_histogram[w][b] + d /\ d \in Int
    BY <2>1, <2>3 DEF HistTypeInv
  <2>5. global_histogram'[b] = global_histogram[b] - d
    BY <1>0, <2>1, <2>2, <2>3 DEF HistTypeInv
  <2> HIDE DEF new, d
  <2>6. /\ SumOf(local_histogram, b, Workers) \in Int
        /\ SumOf(local_histogram', b, Workers) = SumOf(local_histogram, b, Workers) + d
    BY <2>2, <2>4, LocalMoves
  <2> QED
    BY <1>0, <2>2, <2>4, <2>5, <2>6
<1>5. ASSUME NEW w \in Workers, OpenFails(w) \/ EndOfFile(w) \/ LockGlobal(w) \/ MergeRead(w)
                                \/ ShowAndUnlock(w) \/ FreePath(w)
      PROVE  UNCHANGED <<consumed, global_histogram, local_histogram>>
  BY <1>5 DEF OpenFails, EndOfFile, LockGlobal, MergeRead, ShowAndUnlock, FreePath, program
<1>6. CASE UNCHANGED program
  BY <1>1, <1>6 DEF program
<1> QED
  BY <1>1, <1>2, <1>3, <1>4, <1>5, <1>6 DEF HistNext, HistMain, HistWorker, hist_vars

\* Nothing has been counted at the start.
LEMMA HistStart == HistInit => HistInv
<1> SUFFICES ASSUME HistInit PROVE HistInv
  OBVIOUS
<1>1. /\ task = [w \in Workers |-> "queue"] /\ pc = [t \in Threads |-> "client"]
      /\ global_histogram = Zeros /\ consumed = Zeros
      /\ local_histogram = [w \in Workers |-> Zeros]
      /\ bit = [w \in Workers |-> 0] /\ sum = [w \in Workers |-> 0]
  BY DEF HistInit, PoolInit, Init
<1>2. Zeros \in [Bits -> Int] /\ \A b \in Bits : Zeros[b] = 0
  BY DEF Zeros
<1>3. HistTypeInv
  BY <1>1, <1>2 DEF HistTypeInv
<1>4. LoopInv /\ \A w \in Workers : MergeInv(w)
  BY <1>1, <1>2 DEF LoopInv, MergeInv, Merged, Merging, Threads
<1>5. BitsConserved
  <2> SUFFICES ASSUME NEW b \in Bits
               PROVE  consumed[b] = global_histogram[b] + SumOf(local_histogram, b, Workers)
    BY ConservedIs
  <2> DEFINE none == [s \in SUBSET Workers |-> 0]
  <2>1. \A w \in Workers : local_histogram[w][b] \in Int
    BY <1>1, <1>2
  <2>2. PICK G : IsSum(G, local_histogram, b, Workers)
                 /\ SumOf(local_histogram, b, Workers) = G[Workers]
    BY <2>1, QueueAssumption, SumUnfolds
  <2>3. IsIntSum(none, local_histogram, b, Workers)
    <3>1. none \in [SUBSET Workers -> Int]
      OBVIOUS
    <3>2. ASSUME NEW s \in SUBSET Workers PROVE none[s] = SumStep(none, local_histogram, b, s)
      <4>1. CASE s # {}
        <5>1. Pick(s) \in Workers /\ s \ {Pick(s)} \in SUBSET Workers
          BY <4>1 DEF Pick
        <5> QED
          BY <1>1, <1>2, <4>1, <5>1 DEF SumStep
      <4> QED
        BY <4>1 DEF SumStep
    <3> QED
      BY <3>1, <3>2 DEF IsIntSum, IsSum
  <2>4. none[Workers] = 0
    OBVIOUS
  <2> HIDE DEF none
  <2>5. MoreBy(local_histogram, local_histogram, b, Workers, b, 0) /\ 0 \in Int
    BY <2>1 DEF MoreBy
  <2>6. G[Workers] = none[Workers] + (IF b \in Workers THEN 0 ELSE 0)
    BY <2>2, <2>3, <2>5, QueueAssumption, SumsDiffer
  <2> QED
    BY <1>1, <1>2, <2>2, <2>4, <2>6
<1> QED
  BY <1>3, <1>4, <1>5 DEF HistInv

\* However many workers there are, whichever files cannot be opened and wherever the
\* merges fall, every set bit that was read is in the global histogram or in the local
\* one of the worker that read it, and in one of them only: the mutex keeps the read
\* and the write of merge_histogram together, and a worker has merged all that it has
\* counted before the next file clears its histogram.
THEOREM NoBitLost == HistSpec => []BitsConserved
<1>1. TypeOK /\ HistInv /\ [HistNext]_hist_vars => HistInv'
  <2> SUFFICES ASSUME TypeOK, HistInv, [HistNext]_hist_vars PROVE HistInv'
    OBVIOUS
  <2>1. HistTypeInv /\ LoopInv /\ (\A w \in Workers : MergeInv(w)) /\ BitsConserved
    BY DEF HistInv
  <2>2. HistTypeInv' /\ LoopInv'
    BY <2>1, HistTypeStep, LoopStep
  <2>3. \A w \in Workers : MergeInv(w)'
    BY <2>1, MergeStep
  <2>4. BitsConserved'
    BY <2>1, ConservedStep
  <2> QED
    BY <2>2, <2>3, <2>4 DEF HistInv
<1>2. HistInv => BitsConserved
  BY DEF HistInv
<1> QED
  BY <1>1, <1>2, HistStart, HistRunsQueue, TypeCorrect, PTL DEF HistSpec

=============================================================================
