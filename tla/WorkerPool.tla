----------------------------- MODULE WorkerPool -----------------------------
(***************************************************************************)
(* What the three multi-threaded programs of A2 (fibs.c, fauxgrep-mt.c and *)
(* fhistogram-mt.c) have in common: main pushes a copy of every item of    *)
(* its input, destroys the queue and joins the workers; a worker pops,     *)
(* works, and pops again until pop fails.  Each program extends this       *)
(* module with what its workers do with a job.                             *)
(*                                                                         *)
(* Item n of the input is job n of the queue; MaxJobs is its length.       *)
(***************************************************************************)
EXTENDS JobQueue

VARIABLES task,    \* "queue" in the pop loop, program labels, "returned"
          heap,    \* the copies made by strdup that have not been freed
          exited   \* main has returned

pool == <<task, heap, exited>>

PoolInit ==
  /\ Init
  /\ task = [w \in Workers |-> "queue"]
  /\ heap = {}
  /\ exited = FALSE

\* The threads run until an assert() fails or main returns.
Running == ~failed /\ ~exited

SetTask(w, label) == task' = [task EXCEPT ![w] = label]

\* One turn of main's input loop: copy the item and call push.
NextItem ==
  /\ PushCheck
  /\ heap' = heap \cup {pushed + 1}
  /\ UNCHANGED <<task, exited>>

\* The input has ended: call destroy.
EndOfInput ==
  /\ pushed = MaxJobs
  /\ DestroyLock
  /\ UNCHANGED pool

\* Faulty variant, for mutation testing: main does not join the workers.
ExitWithoutJoin ==
  /\ At(Main, "destroyed")
  /\ exited' = TRUE
  /\ UNCHANGED <<vars, task, heap>>

\* Every worker has been joined: main frees the thread table and returns.
JoinAndExit ==
  /\ At(Main, "destroyed")
  /\ \A w \in Workers : task[w] = "returned"
  /\ exited' = TRUE
  /\ UNCHANGED <<vars, task, heap>>

PoolMain ==
  /\ Running
  /\ \/ NextItem
     \/ EndOfInput
     \/ (PushStep \/ DestroyStep) /\ UNCHANGED pool
     \/ JoinAndExit

\* A worker is inside job_queue_pop, up to the point where pop has the job.
PopCall(w) ==
  /\ task[w] = "queue"
  /\ \/ PopReadConsAmount(w)
     \/ PopStep(w) /\ pc[w] # "pop_done"
  /\ UNCHANGED pool

\* pop returned 0 and the worker turns to its job.
GotJob(w) ==
  /\ PopReturn(w)
  /\ SetTask(w, "start")
  /\ UNCHANGED <<heap, exited>>

\* pop returned -1 and the worker leaves its loop and returns.
LastPop(w) ==
  /\ task[w] = "queue"
  /\ At(w, "closed")
  /\ SetTask(w, "returned")
  /\ UNCHANGED <<vars, heap, exited>>

PoolWakeup == Running /\ Wakeup /\ UNCHANGED pool

=============================================================================
