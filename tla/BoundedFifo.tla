---------------------------- MODULE BoundedFifo ----------------------------
(***************************************************************************)
(* What job_queue.h promises of the job queue, without threads, mutex,     *)
(* condition variables or ring: a bounded first-in first-out buffer that   *)
(* hands every job to exactly one consumer and is destroyed only when it   *)
(* is empty.  JobQueue is shown to implement it.                           *)
(***************************************************************************)
EXTENDS Integers, Sequences

CONSTANTS Consumers,  \* the threads that call job_queue_pop
          Jobs,       \* what may be pushed
          Bound       \* the capacity given to job_queue_init

VARIABLES queue,     \* the jobs in the buffer, oldest first
          received,  \* the job each consumer was handed last
          phase      \* "open", "closing" after destroy was called, "destroyed"

fifoVars == <<queue, received, phase>>

FifoInit ==
  /\ queue = << >>
  /\ received = [c \in Consumers |-> 0]
  /\ phase = "open"

\* "Push an element onto the end of the job queue.  Blocks if the job_queue
\* is full."
Push(j) ==
  /\ phase = "open"
  /\ Len(queue) < Bound
  /\ queue' = Append(queue, j)
  /\ UNCHANGED <<received, phase>>

\* "Pop an element from the front of the job queue."
Deliver(c) ==
  /\ phase # "destroyed"
  /\ queue # << >>
  /\ received' = [received EXCEPT ![c] = Head(queue)]
  /\ queue' = Tail(queue)
  /\ UNCHANGED phase

Close ==
  /\ phase = "open"
  /\ phase' = "closing"
  /\ UNCHANGED <<queue, received>>

\* "Blocks until the queue is empty before it is destroyed."
Finish ==
  /\ phase = "closing"
  /\ queue = << >>
  /\ phase' = "destroyed"
  /\ UNCHANGED <<queue, received>>

FifoNext ==
  \/ \E j \in Jobs : Push(j)
  \/ \E c \in Consumers : Deliver(c)
  \/ Close
  \/ Finish

FifoSpec == FifoInit /\ [][FifoNext]_fifoVars
=============================================================================
