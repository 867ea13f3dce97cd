------------------------------ MODULE JobQueue ------------------------------
(***************************************************************************)
(* The bounded job queue of A2 (job_queue.c, job_queue.h): a ring buffer   *)
(* behind one mutex and three condition variables, filled by one producer  *)
(* that later destroys the queue, and emptied by a pool of consumers.      *)
(* That is how fibs.c, fauxgrep-mt.c and fhistogram-mt.c all use it.       *)
(*                                                                         *)
(* Granularity.  The fields queue_count, cons_amount and                   *)
(* queue_to_be_destroyed are also read WITHOUT the mutex (job_queue.c:56   *)
(* and :88), so every access to one of them that such a reader can observe *)
(* is a step of its own; everything else a thread does while it holds the  *)
(* mutex is invisible to the others and is merged with it.                 *)
(*                                                                         *)
(* Jobs are numbered in the order in which they are pushed: job n is the   *)
(* n-th job.  A slot that was never written holds 0.                       *)
(***************************************************************************)
EXTENDS Integers, Sequences, FiniteSets

CONSTANTS Workers,      \* the consumer threads
          Main,         \* the thread that pushes the jobs and destroys the queue
          Nobody,       \* the owner of a free mutex
          Capacity,     \* the capacity given to job_queue_init
          MaxJobs,      \* bound: jobs pushed in one execution
          MaxSpurious   \* bound: spurious wakeups in one execution

ASSUME QueueAssumption ==
  /\ IsFiniteSet(Workers)
  /\ Main \notin Workers
  /\ Nobody \notin Workers \cup {Main}
  /\ Capacity \in Nat \ {0}
  /\ MaxJobs \in Nat
  /\ MaxSpurious \in Nat

VARIABLES
  data, prod_pointer, cons_pointer, queue_count,  \* the ring buffer
  queue_to_be_destroyed, cons_amount,             \* shutdown flag, consumers inside pop
  storage,        \* what job_queue_destroy has torn down so far
  queue_access,   \* owner of the mutex
  prod_cond, cons_cond, cond_destroy,  \* threads asleep on each condition variable
  pc,             \* where each thread is
  job,            \* the job a worker's last pop stored through its argument
  pushed, taken,  \* history: number of jobs that entered and left the ring
  spurious,       \* spurious wakeups so far
  failed          \* an assert() failed and aborted the process

ring   == <<data, prod_pointer, cons_pointer, queue_count, job, pushed, taken>>
status == <<queue_to_be_destroyed, cons_amount, storage>>
sync   == <<queue_access, prod_cond, cons_cond, cond_destroy>>
vars   == <<ring, status, sync, pc, spurious, failed>>

Threads == Workers \cup {Main}
Slots   == 0 .. Capacity - 1

MainLabels ==
  { "client", "push_lock", "push_loop", "push_wait",
    "destroy_loop", "destroy_wait", "destroy_mutex", "destroy_rest", "destroyed" }
WorkerLabels ==
  { "client", "pop_flag", "pop_count", "pop_signal", "pop_lock", "pop_loop",
    "pop_wait", "pop_done", "closed" }

(***************************************************************************)
(* Helpers: the threads library and the ring.                              *)
(***************************************************************************)
At(t, label)   == pc[t] = label
Goto(t, label) == pc' = [pc EXCEPT ![t] = label]

Lock(t) == queue_access = Nobody /\ queue_access' = t
Unlock  == queue_access' = Nobody

\* The sets of sleepers that pthread_cond_signal may leave behind.
Signalled(sleepers) ==
  IF sleepers = {} THEN {{}} ELSE { sleepers \ {t} : t \in sleepers }

\* Faulty variants, for mutation testing: the wrap comes one slot too late, or
\* one slot too early.
AdvanceLate(pointer)  == IF pointer + 1 > Capacity THEN 0 ELSE pointer + 1
AdvanceEarly(pointer) == IF pointer + 1 >= Capacity - 1 THEN 0 ELSE pointer + 1

\* The pointer updates of push and pop: back to 0 after the last slot.
Advance(pointer) == IF pointer + 1 >= Capacity THEN 0 ELSE pointer + 1

-----------------------------------------------------------------------------
\* job_queue_init
Init ==
  /\ data = [s \in Slots |-> 0]
  /\ prod_pointer = 0
  /\ cons_pointer = 0
  /\ queue_count = 0
  /\ queue_to_be_destroyed = 0
  /\ cons_amount = 0
  /\ storage = "live"
  /\ queue_access = Nobody
  /\ prod_cond = {}
  /\ cons_cond = {}
  /\ cond_destroy = {}
  /\ pc = [t \in Threads |-> "client"]
  /\ job = [w \in Workers |-> 0]
  /\ pushed = 0
  /\ taken = 0
  /\ spurious = 0
  /\ failed = FALSE

-----------------------------------------------------------------------------
(***************************************************************************)
(* job_queue_push, called by Main.  Main never pushes after it has called  *)
(* destroy, so the early return at :56 is never taken.                     *)
(***************************************************************************)

\* The unlocked test of queue_to_be_destroyed at the top of push.
PushCheck ==
  /\ At(Main, "client")
  /\ pushed < MaxJobs
  /\ queue_to_be_destroyed = 0
  /\ Goto(Main, "push_lock")
  /\ UNCHANGED <<ring, status, sync, spurious, failed>>

PushLock ==
  /\ At(Main, "push_lock")
  /\ Lock(Main)
  /\ Goto(Main, "push_loop")
  /\ UNCHANGED <<ring, status, prod_cond, cons_cond, cond_destroy, spurious, failed>>

\* pthread_cond_wait on a full ring: sleep and release the mutex in one step.
PushWait ==
  /\ At(Main, "push_loop")
  /\ Capacity <= queue_count
  /\ prod_cond' = prod_cond \cup {Main}
  /\ Unlock
  /\ Goto(Main, "push_wait")
  /\ UNCHANGED <<ring, status, cons_cond, cond_destroy, spurious, failed>>

\* pthread_cond_wait returns: awake again and the mutex reacquired.
PushWake ==
  /\ At(Main, "push_wait")
  /\ Main \notin prod_cond
  /\ Lock(Main)
  /\ Goto(Main, "push_loop")
  /\ UNCHANGED <<ring, status, prod_cond, cons_cond, cond_destroy, spurious, failed>>

\* Faulty variant: push forgets the signal.
PushPutNoSignal ==
  /\ At(Main, "push_loop")
  /\ queue_count < Capacity
  /\ data' = [data EXCEPT ![prod_pointer] = pushed + 1]
  /\ queue_count' = queue_count + 1
  /\ prod_pointer' = Advance(prod_pointer)
  /\ pushed' = pushed + 1
  /\ Unlock
  /\ Goto(Main, "client")
  /\ UNCHANGED <<cons_pointer, job, taken, status, prod_cond, cons_cond, cond_destroy,
                 spurious, failed>>

\* Store the job, advance the producer pointer, signal a consumer, unlock.
PushPut ==
  /\ At(Main, "push_loop")
  /\ queue_count < Capacity
  /\ data' = [data EXCEPT ![prod_pointer] = pushed + 1]
  /\ queue_count' = queue_count + 1
  /\ prod_pointer' = Advance(prod_pointer)
  /\ pushed' = pushed + 1
  /\ cons_cond' \in Signalled(cons_cond)
  /\ Unlock
  /\ Goto(Main, "client")
  /\ UNCHANGED <<cons_pointer, job, taken, status, prod_cond, cond_destroy, spurious, failed>>

-----------------------------------------------------------------------------
(***************************************************************************)
(* job_queue_pop, called by a worker w.                                    *)
(***************************************************************************)

\* The three unlocked reads of the condition at the top of pop, in the order
\* in which && evaluates them; the first false one leads to the mutex.
PopReadConsAmount(w) ==
  /\ At(w, "client")
  /\ Goto(w, IF cons_amount = 0 THEN "pop_flag" ELSE "pop_lock")
  /\ UNCHANGED <<ring, status, sync, spurious, failed>>

PopReadFlag(w) ==
  /\ At(w, "pop_flag")
  /\ Goto(w, IF queue_to_be_destroyed = 1 THEN "pop_count" ELSE "pop_lock")
  /\ UNCHANGED <<ring, status, sync, spurious, failed>>

PopReadCount(w) ==
  /\ At(w, "pop_count")
  /\ Goto(w, IF queue_count = 0 THEN "pop_signal" ELSE "pop_lock")
  /\ UNCHANGED <<ring, status, sync, spurious, failed>>

\* Faulty variant: the early return tells nobody.
PopReturnEarlyNoSignal(w) ==
  /\ At(w, "pop_signal")
  /\ Goto(w, "closed")
  /\ UNCHANGED <<ring, status, sync, spurious, failed>>

\* All three held: signal the destroyer, without the mutex, and return -1.
PopSignalDestroy(w) ==
  /\ At(w, "pop_signal")
  /\ cond_destroy' \in Signalled(cond_destroy)
  /\ Goto(w, "closed")
  /\ UNCHANGED <<ring, status, queue_access, prod_cond, cons_cond, spurious, failed>>

\* Take the mutex and count this consumer in.
PopLock(w) ==
  /\ At(w, "pop_lock")
  /\ storage = "live"
  /\ Lock(w)
  /\ cons_amount' = cons_amount + 1
  /\ Goto(w, "pop_loop")
  /\ UNCHANGED <<ring, queue_to_be_destroyed, storage, prod_cond, cons_cond,
                 cond_destroy, spurious, failed>>

\* The mutex was destroyed in the meantime.  pthread_mutex_lock reports EINVAL,
\* or the thread was already queued inside it and the unlock that ends the call
\* reports it; either way the assert() around the call aborts the process.
PopLockFails(w) ==
  /\ At(w, "pop_lock")
  /\ storage # "live"
  /\ failed' = TRUE
  /\ UNCHANGED <<ring, status, sync, pc, spurious>>

\* Empty and not being destroyed: sleep and release the mutex in one step.
PopWait(w) ==
  /\ At(w, "pop_loop")
  /\ queue_count <= 0
  /\ queue_to_be_destroyed = 0
  /\ cons_cond' = cons_cond \cup {w}
  /\ Unlock
  /\ Goto(w, "pop_wait")
  /\ UNCHANGED <<ring, status, prod_cond, cond_destroy, spurious, failed>>

PopWake(w) ==
  /\ At(w, "pop_wait")
  /\ w \notin cons_cond
  /\ Lock(w)
  /\ Goto(w, "pop_loop")
  /\ UNCHANGED <<ring, status, prod_cond, cons_cond, cond_destroy, spurious, failed>>

\* Faulty variant: the consumer leaves without counting itself out.
PopLeaveUncounted(w) ==
  /\ At(w, "pop_loop")
  /\ queue_count <= 0
  /\ queue_to_be_destroyed = 1
  /\ cons_cond' \in Signalled(cons_cond)
  /\ Unlock
  /\ Goto(w, "closed")
  /\ UNCHANGED <<ring, status, prod_cond, cond_destroy, spurious, failed>>

\* Empty and being destroyed: count out, wake the next consumer, return -1.
PopLeave(w) ==
  /\ At(w, "pop_loop")
  /\ queue_count <= 0
  /\ queue_to_be_destroyed = 1
  /\ cons_amount' = cons_amount - 1
  /\ cons_cond' \in Signalled(cons_cond)
  /\ Unlock
  /\ Goto(w, "closed")
  /\ UNCHANGED <<ring, queue_to_be_destroyed, storage, prod_cond, cond_destroy,
                 spurious, failed>>

\* Faulty variants: pop hands out the wrong slot, or does not advance.
PopTakeWrongSlot(w) ==
  /\ At(w, "pop_loop")
  /\ queue_count > 0
  /\ job' = [job EXCEPT ![w] = data[prod_pointer]]
  /\ queue_count' = queue_count - 1
  /\ cons_pointer' = Advance(cons_pointer)
  /\ taken' = taken + 1
  /\ Goto(w, "pop_done")
  /\ UNCHANGED <<data, prod_pointer, pushed, status, sync, spurious, failed>>

PopTakeStuck(w) ==
  /\ At(w, "pop_loop")
  /\ queue_count > 0
  /\ job' = [job EXCEPT ![w] = data[cons_pointer]]
  /\ queue_count' = queue_count - 1
  /\ taken' = taken + 1
  /\ Goto(w, "pop_done")
  /\ UNCHANGED <<data, prod_pointer, cons_pointer, pushed, status, sync, spurious, failed>>

\* Not empty: read the job out of the ring and advance the consumer pointer.
PopTake(w) ==
  /\ At(w, "pop_loop")
  /\ queue_count > 0
  /\ job' = [job EXCEPT ![w] = data[cons_pointer]]
  /\ queue_count' = queue_count - 1
  /\ cons_pointer' = Advance(cons_pointer)
  /\ taken' = taken + 1
  /\ Goto(w, "pop_done")
  /\ UNCHANGED <<data, prod_pointer, pushed, status, sync, spurious, failed>>

\* Faulty variant: pop makes room but tells nobody.
PopReturnNoSignal(w) ==
  /\ At(w, "pop_done")
  /\ cons_amount' = cons_amount - 1
  /\ Unlock
  /\ Goto(w, "client")
  /\ UNCHANGED <<ring, queue_to_be_destroyed, storage, prod_cond, cons_cond, cond_destroy,
                 spurious, failed>>

\* Count out and unlock.  Only a queue that is not being destroyed signals the
\* producer; otherwise the next consumer is signalled.
PopReturn(w) ==
  /\ At(w, "pop_done")
  /\ cons_amount' = cons_amount - 1
  /\ IF queue_to_be_destroyed = 1
       THEN cons_cond' \in Signalled(cons_cond) /\ UNCHANGED prod_cond
       ELSE prod_cond' \in Signalled(prod_cond) /\ UNCHANGED cons_cond
  /\ Unlock
  /\ Goto(w, "client")
  /\ UNCHANGED <<ring, queue_to_be_destroyed, storage, cond_destroy, spurious, failed>>

-----------------------------------------------------------------------------
(***************************************************************************)
(* job_queue_destroy, called by Main after its last push.                  *)
(***************************************************************************)

DestroyLock ==
  /\ At(Main, "client")
  /\ Lock(Main)
  /\ queue_to_be_destroyed' = 1
  /\ Goto(Main, "destroy_loop")
  /\ UNCHANGED <<ring, cons_amount, storage, prod_cond, cons_cond, cond_destroy,
                 spurious, failed>>

DestroyWait ==
  /\ At(Main, "destroy_loop")
  /\ queue_count > 0 \/ cons_amount > 0
  /\ cond_destroy' = cond_destroy \cup {Main}
  /\ Unlock
  /\ Goto(Main, "destroy_wait")
  /\ UNCHANGED <<ring, status, prod_cond, cons_cond, spurious, failed>>

DestroyWake ==
  /\ At(Main, "destroy_wait")
  /\ Main \notin cond_destroy
  /\ Lock(Main)
  /\ Goto(Main, "destroy_loop")
  /\ UNCHANGED <<ring, status, prod_cond, cons_cond, cond_destroy, spurious, failed>>

\* Faulty variant: destroy waits for the jobs but not for the consumers.
DestroyUnlockEarly ==
  /\ At(Main, "destroy_loop")
  /\ queue_count = 0
  /\ Unlock
  /\ Goto(Main, "destroy_mutex")
  /\ UNCHANGED <<ring, status, prod_cond, cons_cond, cond_destroy, spurious, failed>>

\* Faulty variant: destroy waits for the consumers but not for the jobs.
DestroyUnlockUndrained ==
  /\ At(Main, "destroy_loop")
  /\ cons_amount = 0
  /\ Unlock
  /\ Goto(Main, "destroy_mutex")
  /\ UNCHANGED <<ring, status, prod_cond, cons_cond, cond_destroy, spurious, failed>>

\* The loop condition is false: leave the loop and unlock the mutex.
DestroyUnlock ==
  /\ At(Main, "destroy_loop")
  /\ ~(queue_count > 0 \/ cons_amount > 0)
  /\ Unlock
  /\ Goto(Main, "destroy_mutex")
  /\ UNCHANGED <<ring, status, prod_cond, cons_cond, cond_destroy, spurious, failed>>

\* pthread_mutex_destroy reports EBUSY for a mutex that somebody holds, and
\* the assert() around it then aborts the process.
DestroyMutex ==
  /\ At(Main, "destroy_mutex")
  /\ \/ /\ queue_access = Nobody
        /\ storage' = "no_mutex"
        /\ Goto(Main, "destroy_rest")
        /\ UNCHANGED failed
     \/ /\ queue_access # Nobody
        /\ failed' = TRUE
        /\ UNCHANGED <<storage, pc>>
  /\ UNCHANGED <<ring, queue_to_be_destroyed, cons_amount, sync, spurious>>

\* Destroy the condition variables and free the ring.
DestroyRest ==
  /\ At(Main, "destroy_rest")
  /\ storage' = "freed"
  /\ Goto(Main, "destroyed")
  /\ UNCHANGED <<ring, queue_to_be_destroyed, cons_amount, sync, spurious, failed>>

-----------------------------------------------------------------------------
\* POSIX lets pthread_cond_wait return although nobody signalled.
SpuriousWakeup(t) ==
  /\ t \in prod_cond \cup cons_cond \cup cond_destroy
  /\ spurious < MaxSpurious
  /\ spurious' = spurious + 1
  /\ prod_cond' = prod_cond \ {t}
  /\ cons_cond' = cons_cond \ {t}
  /\ cond_destroy' = cond_destroy \ {t}
  /\ UNCHANGED <<ring, status, queue_access, pc, failed>>

\* The steps of a call that has begun; PushCheck, DestroyLock and
\* PopReadConsAmount are the first steps of the three calls.
PushStep    == PushLock \/ PushWait \/ PushWake \/ PushPut
DestroyStep == DestroyWait \/ DestroyWake \/ DestroyUnlock \/ DestroyMutex \/ DestroyRest
PopStep(w)  ==
  \/ PopReadFlag(w) \/ PopReadCount(w) \/ PopSignalDestroy(w)
  \/ PopLock(w)     \/ PopLockFails(w)
  \/ PopWait(w)     \/ PopWake(w)      \/ PopLeave(w)
  \/ PopTake(w)     \/ PopReturn(w)

MainStep      == ~failed /\ (PushCheck \/ PushStep \/ DestroyLock \/ DestroyStep)
WorkerStep(w) == ~failed /\ (PopReadConsAmount(w) \/ PopStep(w))
Wakeup        == ~failed /\ \E t \in Threads : SpuriousWakeup(t)

Next == MainStep \/ (\E w \in Workers : WorkerStep(w)) \/ Wakeup

Spec == Init /\ [][Next]_vars

(***************************************************************************)
(* Every thread keeps running unless it is blocked: main reads a finite    *)
(* input and then destroys the queue, and a worker that has finished a job *)
(* asks for the next one.  Weak fairness of lock acquisition is enough     *)
(* because the mutex is acquired finitely often (finite MaxJobs, finite    *)
(* MaxSpurious).  Nothing makes a spurious wakeup happen.                  *)
(***************************************************************************)
FairSpec ==
  /\ Spec
  /\ WF_vars(MainStep)
  /\ \A w \in Workers : WF_vars(WorkerStep(w))

-----------------------------------------------------------------------------
(***************************************************************************)
(* Properties.                                                             *)
(***************************************************************************)

\* Every field stays in its range; in particular both pointers stay inside
\* the array that job_queue_init allocated.
TypeOK ==
  /\ data \in [Slots -> 0 .. MaxJobs]
  /\ prod_pointer \in Slots
  /\ cons_pointer \in Slots
  /\ queue_count \in 0 .. Capacity
  /\ queue_to_be_destroyed \in {0, 1}
  /\ cons_amount \in Nat
  /\ storage \in {"live", "no_mutex", "freed"}
  /\ queue_access \in Threads \cup {Nobody}
  /\ prod_cond \subseteq {Main}
  /\ cons_cond \subseteq Workers
  /\ cond_destroy \subseteq {Main}
  /\ pc \in [Threads -> MainLabels \cup WorkerLabels]
  /\ pc[Main] \in MainLabels
  /\ \A w \in Workers : pc[w] \in WorkerLabels
  /\ job \in [Workers -> 0 .. MaxJobs]
  /\ pushed \in 0 .. MaxJobs
  /\ taken \in 0 .. MaxJobs
  /\ spurious \in 0 .. MaxSpurious
  /\ failed \in BOOLEAN

\* The slot that holds the i-th oldest job in the ring (0 is the oldest).
SlotOf(i) ==
  IF cons_pointer + i < Capacity THEN cons_pointer + i
                                 ELSE cons_pointer + i - Capacity

\* The ring holds exactly the jobs pushed and not yet taken, oldest first from
\* cons_pointer on, and the next push goes to the slot after the newest: no
\* interleaving of push and pop overwrites, loses, repeats or reorders a job.
RingFifo ==
  /\ pushed = taken + queue_count
  /\ prod_pointer = SlotOf(queue_count)
  /\ \A i \in 0 .. queue_count - 1 : data[SlotOf(i)] = taken + i + 1

\* The consumers that are between their cons_amount++ and their cons_amount--.
Inside == { w \in Workers : pc[w] \in {"pop_loop", "pop_wait", "pop_done"} }

\* cons_amount, which destroy relies on to find out whether consumers are left,
\* is the number of consumers inside pop, whatever the unlocked readers do.
ConsAmountExact == cons_amount = Cardinality(Inside)

\* The consumers that will look at the ring before they can sleep (again).
Looking ==
  { w \in Workers : \/ pc[w] = "pop_loop"
                    \/ pc[w] = "pop_wait" /\ w \notin cons_cond }

\* No lost wakeup: as long as a consumer sleeps on cons_cond, every job in the
\* ring has a consumer of its own that is awake and will look for it.
NoLostConsumerWakeup ==
  cons_cond # {} => queue_count <= Cardinality(Looking)

\* The producer sleeps only on a full ring, or while a consumer that has just
\* made room still has to send the signal that wakes it.
NoLostProducerWakeup ==
  Main \in prod_cond =>
    \/ queue_count = Capacity
    \/ /\ queue_to_be_destroyed = 0
       /\ \E w \in Workers : pc[w] = "pop_done"

\* job_queue_destroy tears the queue down only when every job has been taken
\* and no consumer is inside pop or asleep in it (job_queue.h: "Blocks until
\* the queue is empty before it is destroyed").
TornDownOnlyWhenDrained ==
  storage # "live" => /\ taken = pushed
                      /\ Inside = {}
                      /\ cons_cond = {}

\* An assert() of job_queue.c can abort the process, because pop reads the flag
\* before it locks; but not before destroy has found the ring empty: no job that
\* is still in the queue is ever lost to an abort.
AbortOnlyWhenDrained ==
  failed => /\ taken = pushed
            /\ pc[Main] \in {"destroy_mutex", "destroy_rest", "destroyed"}

\* No wakeup is lost on either side of the ring: neither push's signal to the
\* consumers nor pop's signal to the producer can miss a thread that needs it.
NoLostWakeup == NoLostConsumerWakeup /\ NoLostProducerWakeup

\* A consumer that returns at the top of pop (job_queue.c:88) signals cond_destroy
\* without the mutex, between its unlocked reads and a wait that destroy may be about
\* to begin; it is never the step that leaves a destroyer asleep with every consumer
\* gone.  The step that does so is a consumer's that leaves through the loop of pop,
\* whose signal (:104) goes to the consumers.  This is about consumers that return
\* from pop and nothing else: a destroyer also sleeps on when consumers are asleep on
\* cons_cond (BlockedPopReturns) or when a consumer stops calling pop.
NobodyLeft == \A w \in Workers : pc[w] = "closed"
Abandoned  == NobodyLeft /\ Main \in cond_destroy

EarlyReturnNeverAbandons ==
  [][ ~Abandoned /\ Abandoned' => cons_amount' < cons_amount ]_vars

-----------------------------------------------------------------------------
(***************************************************************************)
(* The queue that the clients see: the jobs between cons_pointer and       *)
(* prod_pointer, oldest first, and how far job_queue_destroy has come.     *)
(***************************************************************************)
Contents == [i \in 1 .. queue_count |-> data[SlotOf(i - 1)]]

Phase == IF storage # "live" THEN "destroyed"
         ELSE IF queue_to_be_destroyed = 1 THEN "closing" ELSE "open"

Fifo == INSTANCE BoundedFifo WITH
          Consumers <- Workers, Jobs <- 1 .. MaxJobs, Bound <- Capacity,
          queue <- Contents, received <- job, phase <- Phase

\* job_queue.c implements the bounded FIFO of job_queue.h: at every step of
\* every thread the ring changes as one push, one delivery of the oldest job to
\* one consumer, or not at all, and the queue is closed and destroyed in order.
ImplementsFifo == Fifo!FifoSpec

-----------------------------------------------------------------------------
\* job_queue.h:35: if destroy is called while a pop is blocked, the pop returns.
\* destroy never signals cons_cond, so a consumer asleep on an empty ring is not
\* told about it; the run of this property shows the consumer asleep for ever.
BlockedPopReturnsAfterDestroy ==
  \A w \in Workers :
    (queue_to_be_destroyed = 1 /\ pc[w] = "pop_wait")
      ~> (pc[w] \in {"client", "closed"} \/ failed)

=============================================================================
