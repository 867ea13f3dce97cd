-------------------------- MODULE JobQueue_proofs --------------------------
(***************************************************************************)
(* Proofs that the job queue keeps its invariants and implements the       *)
(* bounded FIFO for every pool of workers, every capacity, any number of   *)
(* jobs and any number of spurious wakeups.                                *)
(***************************************************************************)
EXTENDS JobQueue, TLAPS, FiniteSetTheorems, SequenceTheorems

(***************************************************************************)
(* The inductive invariant.  The properties of JobQueue are not inductive  *)
(* by themselves: they need to know who holds the mutex, who may be asleep *)
(* where, and how far job_queue_destroy has come.                          *)
(***************************************************************************)

\* A thread owns the mutex exactly in the labels between its lock and unlock.
Critical == {"push_loop", "pop_loop", "pop_done", "destroy_loop"}
MutexInv == \A t \in Threads : queue_access = t <=> pc[t] \in Critical

\* A thread sleeps on a condition variable only inside the call that waits on it.
SleepInv ==
  /\ Main \in prod_cond => pc[Main] = "push_wait"
  /\ Main \in cond_destroy => pc[Main] = "destroy_wait"
  /\ \A w \in cons_cond : pc[w] = "pop_wait"

Pushing    == {"push_lock", "push_loop", "push_wait"}
Destroying == {"destroy_loop", "destroy_wait", "destroy_mutex", "destroy_rest", "destroyed"}

\* The flag, the storage and the number of pushes follow Main's control.
ProgressInv ==
  /\ queue_to_be_destroyed = (IF pc[Main] \in Destroying THEN 1 ELSE 0)
  /\ storage # "live" <=> pc[Main] \in {"destroy_rest", "destroyed"}
  /\ pc[Main] \in Pushing => pushed < MaxJobs

\* Once destroy has left its loop the ring is empty for good, and a consumer
\* that still gets inside pop holds the mutex until it leaves again.
DrainInv ==
  /\ pc[Main] \in {"destroy_mutex", "destroy_rest", "destroyed"} =>
        /\ queue_count = 0
        /\ \A w \in Inside : pc[w] = "pop_loop"
  /\ storage # "live" => Inside = {}
  /\ failed => pc[Main] \in {"destroy_mutex", "destroy_rest", "destroyed"}

IInv ==
  /\ TypeOK
  /\ MutexInv
  /\ SleepInv
  /\ ProgressInv
  /\ RingFifo
  /\ ConsAmountExact
  /\ NoLostConsumerWakeup
  /\ NoLostProducerWakeup
  /\ DrainInv

-----------------------------------------------------------------------------
(***************************************************************************)
(* The ring.                                                               *)
(***************************************************************************)

\* Only a store of push and a take of pop touch the ring.
LEMMA RingMoves ==
  ASSUME Next
  PROVE  PushPut \/ (\E w \in Workers : PopTake(w)) \/ UNCHANGED ring
BY DEF Next, MainStep, WorkerStep, Wakeup, PushStep, DestroyStep, PopStep,
       PushCheck, PushLock, PushWait, PushWake, DestroyLock, DestroyWait,
       DestroyWake, DestroyUnlock, DestroyMutex, DestroyRest, PopReadConsAmount,
       PopReadFlag, PopReadCount, PopSignalDestroy, PopLock, PopLockFails, PopWait,
       PopWake, PopLeave, PopReturn, SpuriousWakeup

\* Distinct positions in the ring are distinct slots of the array.
LEMMA SlotOfInjective ==
  ASSUME TypeOK, NEW i \in 0 .. Capacity - 1, NEW j \in 0 .. Capacity - 1, i # j
  PROVE  SlotOf(i) \in Slots /\ SlotOf(i) # SlotOf(j)
BY QueueAssumption DEF TypeOK, SlotOf, Slots

\* push stores behind the newest job and pop takes the oldest one.
LEMMA RingStep ==
  ASSUME TypeOK, RingFifo, Next
  PROVE  RingFifo'
<1>1. CASE PushPut
  <2>1. /\ queue_count < Capacity
        /\ queue_count' = queue_count + 1
        /\ pushed' = pushed + 1
        /\ UNCHANGED <<cons_pointer, taken>>
    BY <1>1 DEF PushPut
  <2>2. prod_pointer' = SlotOf(queue_count)'
    BY <1>1, <2>1, QueueAssumption DEF PushPut, Advance, TypeOK, RingFifo, SlotOf, Slots
  <2>3. ASSUME NEW i \in 0 .. queue_count' - 1
        PROVE  data'[SlotOf(i)'] = taken' + i + 1
    <3>1. SlotOf(i)' = SlotOf(i)
      BY <2>1 DEF SlotOf
    <3>2. CASE i = queue_count
      BY <1>1, <2>1, <3>1, <3>2, QueueAssumption DEF PushPut, TypeOK, RingFifo, Slots
    <3>3. CASE i # queue_count
      <4>1. i \in 0 .. queue_count - 1 /\ queue_count \in 0 .. Capacity - 1
        BY <2>1, <3>3, QueueAssumption DEF TypeOK
      <4>2. SlotOf(i) \in Slots /\ SlotOf(i) # prod_pointer
        BY <4>1, <3>3, SlotOfInjective, QueueAssumption DEF TypeOK, RingFifo
      <4> QED
        BY <1>1, <2>1, <3>1, <4>1, <4>2 DEF PushPut, TypeOK, RingFifo
    <3> QED
      BY <3>2, <3>3
  <2> QED
    BY <2>1, <2>2, <2>3, QueueAssumption DEF RingFifo, TypeOK
<1>2. ASSUME NEW w \in Workers, PopTake(w) PROVE RingFifo'
  <2>1. /\ queue_count > 0
        /\ queue_count' = queue_count - 1
        /\ taken' = taken + 1
        /\ UNCHANGED <<data, prod_pointer, pushed>>
    BY <1>2 DEF PopTake
  <2>2. ASSUME NEW i \in 0 .. Capacity - 1
        PROVE  SlotOf(i)' = SlotOf(i + 1)
    BY <1>2, QueueAssumption DEF PopTake, Advance, TypeOK, SlotOf, Slots
  <2>3. prod_pointer' = SlotOf(queue_count)'
    BY <2>1, <2>2, QueueAssumption DEF TypeOK, RingFifo
  <2>4. ASSUME NEW i \in 0 .. queue_count' - 1
        PROVE  data'[SlotOf(i)'] = taken' + i + 1
    <3>1. i \in 0 .. Capacity - 1 /\ i + 1 \in 0 .. queue_count - 1
      BY <2>1, QueueAssumption DEF TypeOK
    <3>2. data[SlotOf(i + 1)] = taken + (i + 1) + 1
      BY <3>1 DEF RingFifo
    <3> QED
      BY <2>1, <2>2, <3>1, <3>2 DEF TypeOK
  <2> QED
    BY <2>1, <2>3, <2>4, QueueAssumption DEF RingFifo, TypeOK
<1>3. CASE UNCHANGED ring
  BY <1>3 DEF ring, RingFifo, SlotOf
<1> QED
  BY <1>1, <1>2, <1>3, RingMoves

-----------------------------------------------------------------------------
(***************************************************************************)
(* Control: the mutex, the sleepers and the progress of Main.              *)
(***************************************************************************)

\* Every step keeps the owner of the mutex, the sleepers and the shutdown flag
\* in agreement with the labels of the threads.
LEMMA ControlStep ==
  ASSUME TypeOK, MutexInv, SleepInv, ProgressInv, Next
  PROVE  (MutexInv /\ SleepInv /\ ProgressInv)'
<1> DEFINE Control == MutexInv /\ SleepInv /\ ProgressInv
<1> USE QueueAssumption DEF TypeOK, At, Goto, Lock, Unlock, Signalled, ring, status, sync,
        Threads, MutexInv, Critical, SleepInv, ProgressInv, Pushing, Destroying
<1>1. CASE PushCheck
  BY <1>1 DEF PushCheck
<1>2. CASE PushLock
  BY <1>2 DEF PushLock
<1>3. CASE PushWait
  BY <1>3 DEF PushWait
<1>4. CASE PushWake
  BY <1>4 DEF PushWake
<1>5. CASE PushPut
  BY <1>5 DEF PushPut
<1>6. CASE DestroyLock
  BY <1>6 DEF DestroyLock
<1>7. CASE DestroyWait
  BY <1>7 DEF DestroyWait
<1>8. CASE DestroyWake
  BY <1>8 DEF DestroyWake
<1>9. CASE DestroyUnlock
  BY <1>9 DEF DestroyUnlock
<1>10. CASE DestroyMutex
  BY <1>10 DEF DestroyMutex
<1>11. CASE DestroyRest
  BY <1>11 DEF DestroyRest
<1>12. ASSUME NEW w \in Workers, PopReadConsAmount(w) PROVE Control'
  BY <1>12 DEF PopReadConsAmount
<1>13. ASSUME NEW w \in Workers, PopReadFlag(w) PROVE Control'
  BY <1>13 DEF PopReadFlag
<1>14. ASSUME NEW w \in Workers, PopReadCount(w) PROVE Control'
  BY <1>14 DEF PopReadCount
<1>15. ASSUME NEW w \in Workers, PopSignalDestroy(w) PROVE Control'
  BY <1>15 DEF PopSignalDestroy
<1>16. ASSUME NEW w \in Workers, PopLock(w) PROVE Control'
  BY <1>16 DEF PopLock
<1>17. ASSUME NEW w \in Workers, PopLockFails(w) PROVE Control'
  BY <1>17 DEF PopLockFails
<1>18. ASSUME NEW w \in Workers, PopWait(w) PROVE Control'
  BY <1>18 DEF PopWait
<1>19. ASSUME NEW w \in Workers, PopWake(w) PROVE Control'
  BY <1>19 DEF PopWake
<1>20. ASSUME NEW w \in Workers, PopLeave(w) PROVE Control'
  BY <1>20 DEF PopLeave
<1>21. ASSUME NEW w \in Workers, PopTake(w) PROVE Control'
  BY <1>21 DEF PopTake
<1>22. ASSUME NEW w \in Workers, PopReturn(w) PROVE Control'
  BY <1>22 DEF PopReturn
<1>23. ASSUME NEW t \in Threads, SpuriousWakeup(t) PROVE Control'
  BY <1>23 DEF SpuriousWakeup
<1> QED
  BY <1>1, <1>2, <1>3, <1>4, <1>5, <1>6, <1>7, <1>8, <1>9, <1>10, <1>11, <1>12,
     <1>13, <1>14, <1>15, <1>16, <1>17, <1>18, <1>19, <1>20, <1>21, <1>22, <1>23
     DEF Next, MainStep, WorkerStep, Wakeup, PushStep, DestroyStep, PopStep

\* Every field stays in its range.  That cons_amount never goes negative depends
\* on who is inside pop, and is shown with the consumers below.
LEMMA TypeStep ==
  ASSUME TypeOK, RingFifo, ProgressInv, Next, cons_amount' \in Nat
  PROVE  TypeOK'
<1> USE QueueAssumption DEF TypeOK, At, Goto, Lock, Unlock, Signalled, ring, status, sync,
        Threads, MainLabels, WorkerLabels
<1>1. CASE PushPut
  <2>1. pushed < MaxJobs
    BY <1>1 DEF PushPut, ProgressInv, Pushing
  <2>2. data' \in [Slots -> 0 .. MaxJobs]
    BY <1>1, <2>1 DEF PushPut
  <2>3. prod_pointer' \in Slots
    BY <1>1 DEF PushPut, Advance, Slots
  <2> QED
    BY <1>1, <2>1, <2>2, <2>3 DEF PushPut
<1>2. ASSUME NEW w \in Workers, PopTake(w) PROVE TypeOK'
  <2>1. cons_pointer' \in Slots
    BY <1>2 DEF PopTake, Advance, Slots
  <2>2. taken' \in 0 .. MaxJobs
    BY <1>2 DEF PopTake, RingFifo
  <2>3. job' \in [Workers -> 0 .. MaxJobs]
    BY <1>2 DEF PopTake
  <2> QED
    BY <1>2, <2>1, <2>2, <2>3 DEF PopTake
<1>3. CASE PushCheck \/ PushLock \/ PushWait \/ PushWake
  BY <1>3 DEF PushCheck, PushLock, PushWait, PushWake
<1>4. CASE DestroyLock \/ DestroyStep
  <2>1. CASE DestroyLock
    BY <2>1 DEF DestroyLock
  <2>2. CASE DestroyWait \/ DestroyWake
    BY <2>2 DEF DestroyWait, DestroyWake
  <2>3. CASE DestroyUnlock
    BY <2>3 DEF DestroyUnlock
  <2>4. CASE DestroyMutex \/ DestroyRest
    BY <2>4 DEF DestroyMutex, DestroyRest
  <2> QED
    BY <1>4, <2>1, <2>2, <2>3, <2>4 DEF DestroyStep
<1>5. ASSUME NEW w \in Workers,
             \/ PopReadConsAmount(w) \/ PopReadFlag(w) \/ PopReadCount(w)
             \/ PopSignalDestroy(w) \/ PopLockFails(w)
      PROVE  TypeOK'
  <2>1. CASE PopReadConsAmount(w)
    BY <2>1 DEF PopReadConsAmount
  <2>2. CASE PopReadFlag(w) \/ PopReadCount(w)
    BY <2>2 DEF PopReadFlag, PopReadCount
  <2>3. CASE PopSignalDestroy(w)
    BY <2>3 DEF PopSignalDestroy
  <2>4. CASE PopLockFails(w)
    BY <2>4 DEF PopLockFails
  <2> QED
    BY <1>5, <2>1, <2>2, <2>3, <2>4
<1>6. ASSUME NEW w \in Workers, PopLock(w) \/ PopWait(w) \/ PopWake(w)
      PROVE  TypeOK'
  BY <1>6 DEF PopLock, PopWait, PopWake
<1>7. ASSUME NEW w \in Workers, PopLeave(w)
      PROVE  TypeOK'
  BY <1>7 DEF PopLeave
<1>8. ASSUME NEW w \in Workers, PopReturn(w)
      PROVE  TypeOK'
  BY <1>8 DEF PopReturn
<1>9. CASE Wakeup
  BY <1>9 DEF Wakeup, SpuriousWakeup
<1> QED
  BY <1>1, <1>2, <1>3, <1>4, <1>5, <1>6, <1>7, <1>8, <1>9
     DEF Next, MainStep, WorkerStep, PushStep, PopStep

\* Once destroy has left its loop nobody can put a job into the ring or fall
\* asleep in pop again.
LEMMA DrainStep ==
  ASSUME TypeOK, MutexInv, ProgressInv, DrainInv, ConsAmountExact, Next
  PROVE  DrainInv'
<1> USE QueueAssumption DEF TypeOK, At, Goto, Lock, Unlock, ring, status, sync,
        Threads, MutexInv, Critical, ProgressInv, Destroying, DrainInv, Inside
<1>1. CASE PushCheck \/ PushStep \/ DestroyLock
  BY <1>1 DEF PushStep, PushCheck, PushLock, PushWait, PushWake, PushPut, DestroyLock
<1>2. CASE DestroyWait \/ DestroyWake \/ DestroyMutex \/ DestroyRest
  BY <1>2 DEF DestroyWait, DestroyWake, DestroyMutex, DestroyRest
<1>3. CASE DestroyUnlock
  <2>1. Inside = {}
    BY <1>3, FS_Subset, FS_EmptySet DEF DestroyUnlock, ConsAmountExact
  <2> QED
    BY <1>3, <2>1 DEF DestroyUnlock
<1>4. ASSUME NEW w \in Workers, WorkerStep(w) PROVE DrainInv'
  BY <1>4 DEF WorkerStep, PopStep, PopReadConsAmount, PopReadFlag, PopReadCount,
     PopSignalDestroy, PopLock, PopLockFails, PopWait, PopWake, PopLeave, PopTake, PopReturn
<1>5. CASE Wakeup
  BY <1>5 DEF Wakeup, SpuriousWakeup
<1> QED
  BY <1>1, <1>2, <1>3, <1>4, <1>5 DEF Next, MainStep, DestroyStep

\* The producer stays asleep only as long as the ring is full or a signal for
\* it is on its way.
LEMMA ProducerStep ==
  ASSUME TypeOK, MutexInv, SleepInv, ProgressInv, NoLostProducerWakeup, Next
  PROVE  NoLostProducerWakeup'
<1> USE QueueAssumption DEF TypeOK, At, Goto, Lock, Unlock, Signalled, ring, status, sync,
        Threads, SleepInv, MutexInv, Critical, ProgressInv, Destroying, NoLostProducerWakeup
<1>1. CASE PushCheck \/ PushStep
  BY <1>1 DEF PushStep, PushCheck, PushLock, PushWait, PushWake, PushPut
<1>2. CASE DestroyLock \/ DestroyStep
  BY <1>2 DEF DestroyLock, DestroyStep, DestroyWait, DestroyWake, DestroyUnlock,
     DestroyMutex, DestroyRest
<1>3. ASSUME NEW w \in Workers, PopTake(w) \/ PopReturn(w)
      PROVE  NoLostProducerWakeup'
  BY <1>3 DEF PopTake, PopReturn
<1>4. ASSUME NEW w \in Workers,
             \/ PopReadConsAmount(w) \/ PopReadFlag(w) \/ PopReadCount(w)
             \/ PopSignalDestroy(w) \/ PopLock(w) \/ PopLockFails(w)
             \/ PopWait(w) \/ PopWake(w) \/ PopLeave(w)
      PROVE  NoLostProducerWakeup'
  BY <1>4 DEF PopReadConsAmount, PopReadFlag, PopReadCount, PopSignalDestroy, PopLock,
     PopLockFails, PopWait, PopWake, PopLeave
<1>5. CASE Wakeup
  BY <1>5 DEF Wakeup, SpuriousWakeup
<1> QED
  BY <1>1, <1>2, <1>3, <1>4, <1>5 DEF Next, MainStep, WorkerStep, PopStep

-----------------------------------------------------------------------------
(***************************************************************************)
(* Counting consumers.                                                     *)
(***************************************************************************)

\* The sets of consumers that the properties count are finite.
LEMMA ConsumersFinite ==
  /\ IsFiniteSet(Inside)   /\ Cardinality(Inside) \in Nat
  /\ IsFiniteSet(Inside')  /\ Cardinality(Inside') \in Nat
  /\ IsFiniteSet(Looking)  /\ Cardinality(Looking) \in Nat
  /\ IsFiniteSet(Looking') /\ Cardinality(Looking') \in Nat
<1>1. \A S \in SUBSET Workers : IsFiniteSet(S) /\ Cardinality(S) \in Nat
  BY QueueAssumption, FS_Subset, FS_CardinalityType
<1>2. Inside \in SUBSET Workers /\ Inside' \in SUBSET Workers
  BY DEF Inside
<1>3. Looking \in SUBSET Workers /\ Looking' \in SUBSET Workers
  BY DEF Looking
<1> QED
  BY <1>1, <1>2, <1>3

\* cons_amount changes exactly when a consumer enters or leaves pop's critical
\* part, and by one.
LEMMA ConsAmountStep ==
  ASSUME TypeOK, ConsAmountExact, Next
  PROVE  ConsAmountExact' /\ cons_amount' \in Nat
<1> USE QueueAssumption, ConsumersFinite DEF TypeOK, At, Goto, ring, status, sync, Threads
<1>1. ASSUME NEW w \in Workers, PopLock(w)
      PROVE  ConsAmountExact' /\ cons_amount' \in Nat
  <2>1. w \notin Inside /\ Inside' = Inside \cup {w}
    BY <1>1 DEF PopLock, Inside
  <2>2. Cardinality(Inside') = Cardinality(Inside) + 1
    BY <2>1, FS_AddElement
  <2> QED
    BY <1>1, <2>2 DEF PopLock, ConsAmountExact
<1>2. ASSUME NEW w \in Workers, PopLeave(w) \/ PopReturn(w)
      PROVE  ConsAmountExact' /\ cons_amount' \in Nat
  <2>1. w \in Inside /\ Inside' = Inside \ {w}
    BY <1>2 DEF PopLeave, PopReturn, Inside
  <2>2. Cardinality(Inside') = Cardinality(Inside) - 1
    BY <2>1, FS_RemoveElement
  <2> QED
    BY <1>2, <2>2 DEF PopLeave, PopReturn, ConsAmountExact
<1>3. CASE cons_amount' = cons_amount /\ Inside' = Inside
  BY <1>3 DEF ConsAmountExact
<1>4. ASSUME NEW w \in Workers,
             \/ PopReadConsAmount(w) \/ PopReadFlag(w) \/ PopReadCount(w)
             \/ PopSignalDestroy(w) \/ PopLockFails(w)
             \/ PopWait(w) \/ PopWake(w) \/ PopTake(w)
      PROVE  cons_amount' = cons_amount /\ Inside' = Inside
  BY <1>4 DEF PopReadConsAmount, PopReadFlag, PopReadCount, PopSignalDestroy,
     PopLockFails, PopWait, PopWake, PopTake, Inside
<1>5. ASSUME MainStep \/ Wakeup
      PROVE  cons_amount' = cons_amount /\ Inside' = Inside
  BY <1>5 DEF MainStep, PushStep, DestroyStep, PushCheck, PushLock, PushWait, PushWake,
     PushPut, DestroyLock, DestroyWait, DestroyWake, DestroyUnlock, DestroyMutex,
     DestroyRest, Wakeup, SpuriousWakeup, Inside
<1> QED
  BY <1>1, <1>2, <1>3, <1>4, <1>5 DEF Next, WorkerStep, PopStep

\* A new job comes with a signal that wakes one more consumer, and a consumer
\* goes to sleep only on an empty ring.
LEMMA ConsumerStep ==
  ASSUME TypeOK, SleepInv, MutexInv, NoLostConsumerWakeup, Next
  PROVE  NoLostConsumerWakeup'
<1> USE QueueAssumption, ConsumersFinite DEF TypeOK, At, Goto, ring, status, sync, Threads
<1>1. CASE PushPut
  <2>1. CASE cons_cond = {}
    BY <1>1, <2>1 DEF PushPut, Signalled, NoLostConsumerWakeup
  <2>2. CASE cons_cond # {}
    <3>1. PICK w \in cons_cond : cons_cond' = cons_cond \ {w}
      BY <1>1, <2>2 DEF PushPut, Signalled
    <3>2. w \in Workers /\ w \notin Looking /\ Looking' = Looking \cup {w}
      BY <1>1, <3>1 DEF PushPut, SleepInv, Looking
    <3>3. Cardinality(Looking') = Cardinality(Looking) + 1
      BY <3>2, FS_AddElement
    <3> QED
      BY <1>1, <2>2, <3>3 DEF PushPut, NoLostConsumerWakeup
  <2> QED
    BY <2>1, <2>2
<1>2. ASSUME NEW w \in Workers, PopTake(w)
      PROVE  NoLostConsumerWakeup'
  <2>1. w \in Looking /\ Looking' = Looking \ {w}
    BY <1>2 DEF PopTake, Looking
  <2>2. Cardinality(Looking') = Cardinality(Looking) - 1
    BY <2>1, FS_RemoveElement
  <2> QED
    BY <1>2, <2>2 DEF PopTake, NoLostConsumerWakeup
<1>3. ASSUME NEW w \in Workers, PopWait(w) \/ PopLeave(w)
      PROVE  NoLostConsumerWakeup'
  BY <1>3 DEF PopWait, PopLeave, NoLostConsumerWakeup
<1>4. CASE /\ queue_count' = queue_count
           /\ cons_cond' \subseteq cons_cond
           /\ Looking \subseteq Looking'
  <2>1. Cardinality(Looking) <= Cardinality(Looking')
    BY <1>4, FS_Subset
  <2> QED
    BY <1>4, <2>1 DEF NoLostConsumerWakeup
<1>5. ASSUME NEW w \in Workers,
             \/ PopReadConsAmount(w) \/ PopReadFlag(w) \/ PopReadCount(w)
             \/ PopSignalDestroy(w) \/ PopLock(w) \/ PopLockFails(w)
             \/ PopWake(w) \/ PopReturn(w)
      PROVE  /\ queue_count' = queue_count
             /\ cons_cond' \subseteq cons_cond
             /\ Looking \subseteq Looking'
  BY <1>5 DEF PopReadConsAmount, PopReadFlag, PopReadCount, PopSignalDestroy, PopLock,
     PopLockFails, PopWake, PopReturn, Signalled, Looking
<1>6. ASSUME \/ PushCheck \/ PushLock \/ PushWait \/ PushWake
             \/ DestroyLock \/ DestroyStep \/ Wakeup
      PROVE  /\ queue_count' = queue_count
             /\ cons_cond' \subseteq cons_cond
             /\ Looking \subseteq Looking'
  BY <1>6 DEF PushCheck, PushLock, PushWait, PushWake, DestroyStep, DestroyLock,
     DestroyWait, DestroyWake, DestroyUnlock, DestroyMutex, DestroyRest,
     Wakeup, SpuriousWakeup, Looking
<1> QED
  BY <1>1, <1>2, <1>3, <1>4, <1>5, <1>6 DEF Next, MainStep, PushStep, WorkerStep, PopStep

-----------------------------------------------------------------------------
(***************************************************************************)
(* The invariant.                                                          *)
(***************************************************************************)

\* A queue that job_queue_init has just set up satisfies the invariant.
LEMMA InitIInv == Init => IInv
<1> SUFFICES ASSUME Init PROVE IInv
  OBVIOUS
<1> USE QueueAssumption DEF Init
<1>1. TypeOK
  <2>1. data \in [Slots -> 0 .. MaxJobs] /\ job \in [Workers -> 0 .. MaxJobs]
    OBVIOUS
  <2>2. /\ pc \in [Threads -> MainLabels \cup WorkerLabels]
        /\ pc[Main] \in MainLabels
        /\ \A w \in Workers : pc[w] \in WorkerLabels
    BY DEF Threads, MainLabels, WorkerLabels
  <2>3. prod_pointer \in Slots /\ cons_pointer \in Slots /\ queue_count \in 0 .. Capacity
    BY DEF Slots
  <2>4. pushed \in 0 .. MaxJobs /\ taken \in 0 .. MaxJobs /\ spurious \in 0 .. MaxSpurious
    OBVIOUS
  <2>5. failed \in BOOLEAN
    OBVIOUS
  <2>6. queue_access \in Threads \cup {Nobody}
    OBVIOUS
  <2> QED
    BY <2>1, <2>2, <2>3, <2>4, <2>5, <2>6 DEF TypeOK
<1>2. MutexInv /\ SleepInv /\ ProgressInv
  BY DEF MutexInv, Critical, SleepInv, ProgressInv, Destroying, Pushing, Threads
<1>3. RingFifo
  BY DEF RingFifo, SlotOf
<1>4. Inside = {}
  BY DEF Inside, Threads
<1>5. ConsAmountExact
  BY <1>4, FS_EmptySet DEF ConsAmountExact
<1>6. NoLostConsumerWakeup /\ NoLostProducerWakeup /\ DrainInv
  BY <1>4 DEF NoLostConsumerWakeup, NoLostProducerWakeup, DrainInv, Threads
<1> QED
  BY <1>1, <1>2, <1>3, <1>5, <1>6 DEF IInv

\* Every step of every thread preserves the invariant.
LEMMA NextIInv == IInv /\ [Next]_vars => IInv'
<1>1. ASSUME IInv, Next PROVE IInv'
  BY <1>1, RingStep, ControlStep, DrainStep, ProducerStep, ConsumerStep,
     ConsAmountStep, TypeStep DEF IInv
<1>2. ASSUME IInv, UNCHANGED vars PROVE IInv'
  BY <1>2 DEF vars, ring, status, sync, IInv, TypeOK, MutexInv, SleepInv, ProgressInv,
     RingFifo, SlotOf, ConsAmountExact, Inside, NoLostConsumerWakeup, Looking,
     NoLostProducerWakeup, DrainInv
<1> QED
  BY <1>1, <1>2

\* The invariant holds in every state that an execution reaches.
LEMMA Invariance == Spec => []IInv
BY InitIInv, NextIInv, PTL DEF Spec

\* Every field of the queue stays in its range, for every number of workers,
\* every capacity and any number of jobs: no pointer leaves the array.
THEOREM TypeCorrect == Spec => []TypeOK
<1>1. IInv => TypeOK
  BY DEF IInv
<1> QED
  BY Invariance, <1>1, PTL

\* push and pop never overwrite, lose, repeat or reorder a job.
THEOREM RingIsFifo == Spec => []RingFifo
<1>1. IInv => RingFifo
  BY DEF IInv
<1> QED
  BY Invariance, <1>1, PTL

\* cons_amount counts the consumers inside pop, although pop also reads it
\* without the mutex.
THEOREM ConsAmountCorrect == Spec => []ConsAmountExact
<1>1. IInv => ConsAmountExact
  BY DEF IInv
<1> QED
  BY Invariance, <1>1, PTL

\* Neither the signal of push nor the signal of pop is ever lost.
THEOREM NoWakeupLost == Spec => []NoLostWakeup
<1>1. IInv => NoLostWakeup
  BY DEF IInv, NoLostWakeup
<1> QED
  BY Invariance, <1>1, PTL

\* job_queue_destroy tears the queue down only when every job has been taken
\* and no consumer is left inside pop.
THEOREM TornDownSafely == Spec => []TornDownOnlyWhenDrained
<1>1. IInv => TornDownOnlyWhenDrained
  BY DEF IInv, TypeOK, RingFifo, SleepInv, ProgressInv, DrainInv, Inside,
         TornDownOnlyWhenDrained
<1> QED
  BY Invariance, <1>1, PTL

\* An assert() aborts the process only after destroy has found the ring empty, so
\* that no abort loses a job that is still queued (job_queue.c:44 and :93).
THEOREM AbortsDrained == Spec => []AbortOnlyWhenDrained
<1>1. IInv => AbortOnlyWhenDrained
  BY DEF IInv, TypeOK, RingFifo, DrainInv, AbortOnlyWhenDrained
<1> QED
  BY Invariance, <1>1, PTL

-----------------------------------------------------------------------------
(***************************************************************************)
(* The destroyer that nobody wakes.                                        *)
(***************************************************************************)

\* A consumer that has read the flag set has not read it too early, and one that
\* has gone through an empty ring has not been overtaken by a push: the unlocked
\* reads of pop can be stale, but not in a direction that matters.
LeavingInv ==
  \A w \in Workers :
    /\ pc[w] \in {"pop_count", "pop_signal", "closed"} => queue_to_be_destroyed = 1
    /\ pc[w] \in {"pop_signal", "closed"} => queue_count = 0

\* What a leaving consumer has read stays true.
LEMMA LeavingStep == IInv /\ LeavingInv /\ [Next]_vars => LeavingInv'
<1> SUFFICES ASSUME IInv, LeavingInv, [Next]_vars PROVE LeavingInv'
  OBVIOUS
<1> USE QueueAssumption DEF IInv, TypeOK, At, Goto, ring, status, sync, Threads, LeavingInv
<1>1. CASE PushCheck \/ PushStep
  BY <1>1 DEF PushStep, PushCheck, PushLock, PushWait, PushWake, PushPut, ProgressInv,
     Destroying
<1>2. CASE DestroyLock \/ DestroyStep
  BY <1>2 DEF DestroyLock, DestroyStep, DestroyWait, DestroyWake, DestroyUnlock,
     DestroyMutex, DestroyRest
<1>3. ASSUME NEW w \in Workers,
             \/ PopReadConsAmount(w) \/ PopReadFlag(w) \/ PopReadCount(w)
             \/ PopSignalDestroy(w) \/ PopLock(w) \/ PopLockFails(w)
      PROVE  LeavingInv'
  BY <1>3 DEF PopReadConsAmount, PopReadFlag, PopReadCount, PopSignalDestroy, PopLock,
     PopLockFails
<1>4. ASSUME NEW w \in Workers, PopWait(w) \/ PopWake(w) \/ PopLeave(w)
      PROVE  LeavingInv'
  BY <1>4 DEF PopWait, PopWake, PopLeave
<1>5. ASSUME NEW w \in Workers, PopTake(w) \/ PopReturn(w)
      PROVE  LeavingInv'
  BY <1>5 DEF PopTake, PopReturn
<1>6. CASE Wakeup
  BY <1>6 DEF Wakeup, SpuriousWakeup
<1>7. CASE UNCHANGED vars
  BY <1>7 DEF vars
<1> QED
  BY <1>1, <1>2, <1>3, <1>4, <1>5, <1>6, <1>7 DEF Next, MainStep, WorkerStep, PopStep

\* The only step that leaves the destroyer asleep with every consumer gone is one
\* that takes a consumer out of pop's loop.
LEMMA AbandonStep ==
  ASSUME Workers # {}, IInv, LeavingInv, [Next]_vars, ~Abandoned, Abandoned'
  PROVE  cons_amount' < cons_amount
<1> USE QueueAssumption DEF IInv, TypeOK, At, Goto, ring, status, sync, Threads,
        Abandoned, NobodyLeft
<1>1. ASSUME NEW w \in Workers, PopLeave(w) \/ PopReturn(w)
      PROVE  cons_amount' < cons_amount
  BY <1>1 DEF PopLeave, PopReturn
<1>2. ASSUME NEW w \in Workers, PopSignalDestroy(w)
      PROVE  FALSE
  BY <1>2 DEF PopSignalDestroy, Signalled
<1>3. CASE DestroyWait
  <2>1. Inside = {} /\ queue_count = 0
    BY <1>3 DEF DestroyWait, Inside, LeavingInv
  <2>2. cons_amount = 0
    BY <2>1, FS_EmptySet DEF ConsAmountExact
  <2> QED
    BY <1>3, <2>1, <2>2 DEF DestroyWait
<1>4. ASSUME NEW w \in Workers,
             \/ PopReadConsAmount(w) \/ PopReadFlag(w) \/ PopReadCount(w)
             \/ PopLock(w) \/ PopLockFails(w) \/ PopWait(w) \/ PopWake(w) \/ PopTake(w)
      PROVE  FALSE
  BY <1>4 DEF PopReadConsAmount, PopReadFlag, PopReadCount, PopLock, PopLockFails,
     PopWait, PopWake, PopTake
<1>5. CASE PushCheck \/ PushStep
  BY <1>5 DEF PushStep, PushCheck, PushLock, PushWait, PushWake, PushPut
<1>6. CASE DestroyLock \/ DestroyWake \/ DestroyUnlock \/ DestroyMutex \/ DestroyRest
  BY <1>6 DEF DestroyLock, DestroyWake, DestroyUnlock, DestroyMutex, DestroyRest
<1>7. CASE Wakeup
  BY <1>7 DEF Wakeup, SpuriousWakeup
<1>8. CASE UNCHANGED vars
  BY <1>8 DEF vars
<1> QED
  BY <1>1, <1>2, <1>3, <1>4, <1>5, <1>6, <1>7, <1>8
     DEF Next, MainStep, WorkerStep, DestroyStep, PopStep

\* The step with which the last consumer goes while the destroyer sleeps is never
\* the return at the top of pop (job_queue.c:88), although that return reads and
\* signals without the mutex: it takes a consumer off cons_amount, as the way out
\* through the loop does (:103) and the early return does not.  Nothing is claimed
\* of a destroyer whose consumers have not all left.  With no consumer at all the destroyer of a filled
\* queue is alone from the start; the programs refuse to run with fewer than one
\* thread.
THEOREM EarlyReturnSafe == Workers # {} => (Spec => EarlyReturnNeverAbandons)
<1> SUFFICES ASSUME Workers # {} PROVE Spec => EarlyReturnNeverAbandons
  OBVIOUS
<1>1. Init => LeavingInv
  BY DEF Init, LeavingInv, Threads
<1>2. Spec => []LeavingInv
  BY <1>1, LeavingStep, Invariance, PTL DEF Spec
<1>3. IInv /\ LeavingInv /\ [Next]_vars
        => [~Abandoned /\ Abandoned' => cons_amount' < cons_amount]_vars
  BY AbandonStep
<1> QED
  BY <1>2, <1>3, Invariance, PTL DEF Spec, EarlyReturnNeverAbandons

-----------------------------------------------------------------------------
(***************************************************************************)
(* Refinement: job_queue.c implements the bounded FIFO of job_queue.h.     *)
(***************************************************************************)

\* The contents of the ring are a sequence of jobs that is as long as
\* queue_count says; its i-th element is the i-th job after the last one taken.
ContentsKnown ==
  /\ Contents \in Seq(Nat)
  /\ Len(Contents) = queue_count
  /\ \A i \in 1 .. queue_count : Contents[i] = taken + i

\* The slot that pop reads holds the oldest job of the ring.
LEMMA OldestAtPointer ==
  ASSUME TypeOK, RingFifo, queue_count > 0
  PROVE  data[cons_pointer] = taken + 1
<1>1. data[SlotOf(0)] = taken + 0 + 1
  BY DEF RingFifo, TypeOK
<1> QED
  BY <1>1, QueueAssumption DEF SlotOf, TypeOK, Slots

\* A FIFO ring has known contents.
LEMMA ContentsSeq == TypeOK /\ RingFifo => ContentsKnown
<1> SUFFICES ASSUME TypeOK, RingFifo PROVE ContentsKnown
  OBVIOUS
<1>1. ASSUME NEW i \in 1 .. queue_count PROVE Contents[i] = taken + i
  <2>1. i - 1 \in 0 .. queue_count - 1
    BY DEF TypeOK
  <2> QED
    BY <2>1 DEF Contents, RingFifo, TypeOK
<1>2. \A i \in 1 .. queue_count : Contents[i] \in Nat
  BY <1>1 DEF TypeOK
<1> QED
  BY <1>1, <1>2 DEF ContentsKnown, Contents, TypeOK

\* The store of push appends the new job to the contents.
LEMMA PushPutAppends ==
  ASSUME IInv, IInv', PushPut
  PROVE  \E j \in 1 .. MaxJobs : Fifo!Push(j)
<1> USE DEF IInv
<1>1. /\ queue_count < Capacity
      /\ queue_count' = queue_count + 1
      /\ pushed' = pushed + 1
      /\ taken' = taken
      /\ pc[Main] = "push_loop"
      /\ UNCHANGED <<job, storage, queue_to_be_destroyed>>
  BY DEF PushPut, At, status
<1>2. pushed + 1 \in 1 .. MaxJobs
  BY <1>1 DEF TypeOK
<1>3. Phase = "open" /\ Phase' = Phase
  BY <1>1 DEF Phase, ProgressInv, Destroying
<1>4. Contents' = Append(Contents, pushed + 1)
  <2>1. ContentsKnown /\ ContentsKnown'
    BY ContentsSeq, PTL
  <2>2. pushed = taken + queue_count /\ queue_count \in Nat /\ taken \in Nat
    BY DEF RingFifo, TypeOK
  <2>3. /\ Append(Contents, pushed + 1) \in Seq(Nat)
        /\ Len(Append(Contents, pushed + 1)) = queue_count + 1
        /\ \A i \in 1 .. queue_count : Append(Contents, pushed + 1)[i] = taken + i
        /\ Append(Contents, pushed + 1)[queue_count + 1] = pushed + 1
    BY <2>1, <2>2, AppendProperties DEF ContentsKnown
  <2>4. \A i \in 1 .. queue_count + 1 : Contents'[i] = Append(Contents, pushed + 1)[i]
    BY <1>1, <2>1, <2>2, <2>3 DEF ContentsKnown
  <2> QED
    BY <1>1, <2>1, <2>3, <2>4, SeqEqual DEF ContentsKnown
<1>5. Len(Contents) < Capacity
  BY <1>1, ContentsSeq DEF ContentsKnown
<1>6. Fifo!Push(pushed + 1)
  BY <1>1, <1>3, <1>4, <1>5 DEF Fifo!Push
<1> QED
  BY <1>2, <1>6

\* The take of pop removes the oldest job and hands it to the consumer.
LEMMA PopTakeDelivers ==
  ASSUME IInv, IInv', NEW w \in Workers, PopTake(w)
  PROVE  Fifo!Deliver(w)
<1> USE DEF IInv
<1>1. /\ queue_count > 0
      /\ queue_count' = queue_count - 1
      /\ taken' = taken + 1
      /\ job' = [job EXCEPT ![w] = data[cons_pointer]]
      /\ pc[w] = "pop_loop"
      /\ UNCHANGED <<storage, queue_to_be_destroyed>>
  BY DEF PopTake, At, status
<1>2. Phase # "destroyed" /\ Phase' = Phase
  BY <1>1 DEF Phase, DrainInv, Inside
<1>3. ContentsKnown /\ ContentsKnown'
  BY ContentsSeq, PTL
<1>4. Contents # << >> /\ Head(Contents) = taken + 1
  BY <1>1, <1>3 DEF ContentsKnown, TypeOK
<1>5. Contents' = Tail(Contents)
  <2>1. /\ Tail(Contents) \in Seq(Nat)
        /\ Len(Tail(Contents)) = queue_count - 1
        /\ \A i \in 1 .. queue_count - 1 : Tail(Contents)[i] = Contents[i + 1]
    BY <1>3, <1>4, HeadTailProperties DEF ContentsKnown
  <2>2. ASSUME NEW i \in 1 .. queue_count - 1 PROVE Contents'[i] = Tail(Contents)[i]
    <3>1. queue_count \in Nat /\ taken \in Nat
      BY DEF TypeOK
    <3>2. i \in 1 .. queue_count' /\ i + 1 \in 1 .. queue_count
      BY <1>1, <3>1
    <3>3. Contents'[i] = taken' + i /\ Contents[i + 1] = taken + (i + 1)
      BY <1>3, <3>2 DEF ContentsKnown
    <3> QED
      BY <1>1, <2>1, <3>1, <3>3
  <2> QED
    BY <1>1, <1>3, <2>1, <2>2, SeqEqual DEF ContentsKnown
<1>6. data[cons_pointer] = taken + 1
  BY <1>1, OldestAtPointer
<1> QED
  BY <1>1, <1>2, <1>4, <1>5, <1>6 DEF Fifo!Deliver

\* A step that leaves the ring, the flag and the storage alone is invisible to
\* the clients.
LEMMA InvisibleStep ==
  ASSUME UNCHANGED <<ring, storage, queue_to_be_destroyed>>
  PROVE  UNCHANGED Fifo!fifoVars
BY DEF ring, Fifo!fifoVars, Contents, SlotOf, Phase

\* Every step of the queue is a step of the bounded FIFO or invisible to its
\* clients.
LEMMA FifoStep == IInv /\ IInv' /\ [Next]_vars => [Fifo!FifoNext]_(Fifo!fifoVars)
<1> SUFFICES ASSUME IInv, IInv', [Next]_vars
             PROVE  [Fifo!FifoNext]_(Fifo!fifoVars)
  OBVIOUS
<1>1. CASE PushPut
  BY <1>1, PushPutAppends DEF Fifo!FifoNext
<1>2. ASSUME NEW w \in Workers, PopTake(w) PROVE Fifo!FifoNext
  BY <1>2, PopTakeDelivers DEF Fifo!FifoNext
<1>3. CASE DestroyLock
  <2>1. UNCHANGED <<ring, storage>> /\ queue_to_be_destroyed' = 1
    BY <1>3 DEF DestroyLock
  <2>2. Phase = "open" /\ Phase' = "closing"
    BY <1>3, <2>1 DEF DestroyLock, At, Phase, IInv, ProgressInv, Destroying
  <2> QED
    BY <2>1, <2>2 DEF ring, Contents, SlotOf, Fifo!Close, Fifo!FifoNext
<1>4. CASE DestroyMutex
  <2>1. CASE storage' = "no_mutex"
    <3>1. UNCHANGED <<ring, queue_to_be_destroyed>> /\ pc[Main] = "destroy_mutex"
      BY <1>4 DEF DestroyMutex, At
    <3>2. Phase = "closing" /\ Phase' = "destroyed"
      BY <2>1, <3>1 DEF Phase, IInv, ProgressInv, Destroying
    <3>3. Contents = << >>
      <4>1. queue_count = 0
        BY <3>1 DEF IInv, DrainInv
      <4> QED
        BY <4>1, ContentsSeq DEF IInv, ContentsKnown
    <3> QED
      BY <3>1, <3>2, <3>3 DEF ring, Contents, SlotOf, Fifo!Finish, Fifo!FifoNext
  <2>2. CASE storage' # "no_mutex"
    BY <1>4, <2>2, InvisibleStep DEF DestroyMutex
  <2> QED
    BY <2>1, <2>2
<1>5. CASE DestroyRest
  <2>1. Phase = "destroyed" /\ Phase' = "destroyed"
    BY <1>5 DEF DestroyRest, At, Phase, IInv, ProgressInv
  <2> QED
    BY <1>5, <2>1 DEF DestroyRest, ring, Fifo!fifoVars, Contents, SlotOf
<1>6. CASE \/ PushCheck \/ PushLock \/ PushWait \/ PushWake
           \/ DestroyWait \/ DestroyWake \/ DestroyUnlock \/ Wakeup
  <2>1. UNCHANGED <<ring, storage, queue_to_be_destroyed>>
    BY <1>6 DEF PushCheck, PushLock, PushWait, PushWake, DestroyWait, DestroyWake,
       DestroyUnlock, Wakeup, SpuriousWakeup, status
  <2> QED
    BY <2>1, InvisibleStep
<1>7. ASSUME NEW w \in Workers,
             \/ PopReadConsAmount(w) \/ PopReadFlag(w) \/ PopReadCount(w)
             \/ PopSignalDestroy(w) \/ PopLock(w) \/ PopLockFails(w)
             \/ PopWait(w) \/ PopWake(w) \/ PopLeave(w) \/ PopReturn(w)
      PROVE  UNCHANGED Fifo!fifoVars
  <2>1. UNCHANGED <<ring, storage, queue_to_be_destroyed>>
    BY <1>7 DEF PopReadConsAmount, PopReadFlag, PopReadCount, PopSignalDestroy, PopLock,
       PopLockFails, PopWait, PopWake, PopLeave, PopReturn, status
  <2> QED
    BY <2>1, InvisibleStep
<1>8. CASE UNCHANGED vars
  BY <1>8, InvisibleStep DEF vars, status
<1> QED
  BY <1>1, <1>2, <1>3, <1>4, <1>5, <1>6, <1>7, <1>8
     DEF Next, MainStep, WorkerStep, PushStep, DestroyStep, PopStep

\* The queue that job_queue_init sets up is an empty, open FIFO.
LEMMA FifoStart == Init => Fifo!FifoInit
<1> SUFFICES ASSUME Init PROVE Fifo!FifoInit
  OBVIOUS
<1>1. Contents = << >>
  BY InitIInv, ContentsSeq DEF IInv, ContentsKnown, Init
<1> QED
  BY <1>1 DEF Init, Phase, Fifo!FifoInit

\* job_queue.c implements the bounded FIFO that job_queue.h promises, for every
\* pool of consumers and every capacity.
THEOREM QueueImplementsFifo == Spec => ImplementsFifo
<1>1. IInv /\ IInv' /\ [Next]_vars => [Fifo!FifoNext]_(Fifo!fifoVars)
  BY FifoStep
<1>2. Init => Fifo!FifoInit
  BY FifoStart
<1> QED
  BY <1>1, <1>2, Invariance, PTL DEF Spec, ImplementsFifo, Fifo!FifoSpec

=============================================================================
