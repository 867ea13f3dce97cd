----------------------------- MODULE FauxgrepMT -----------------------------
(***************************************************************************)
(* fauxgrep-mt.c: the workers print the lines of every file that contain   *)
(* the needle, as path, line number and line.  fauxgrep.c does the same    *)
(* one file after the other and is the reference.                          *)
(*                                                                         *)
(* The paths are the FTS_F entries that fts_read returns, in that order.   *)
(* Matches[p] says for every line of file p whether strstr finds the       *)
(* needle.  Which files fopen can open is chosen anew in every execution.  *)
(***************************************************************************)
EXTENDS WorkerPool

CONSTANT Matches

Paths == 1 .. MaxJobs

ASSUME MatchesAssumption == Matches \in [Paths -> Seq(BOOLEAN)]

VARIABLES readable,  \* the files that can be opened
          lineno,    \* the local variable of each worker
          printed    \* the lines printed so far: <<path, line number>>

search    == <<readable, lineno, printed>>
grep_vars == <<vars, pool, search>>

GrepInit ==
  /\ PoolInit
  /\ readable \in SUBSET Paths
  /\ lineno = [w \in Workers |-> 1]
  /\ printed = << >>

Open(w) ==
  /\ task[w] = "start"
  /\ job[w] \in readable
  /\ lineno' = [lineno EXCEPT ![w] = 1]
  /\ SetTask(w, "scan")
  /\ UNCHANGED <<vars, heap, exited, readable, printed>>

\* fopen fails: the worker warns and returns, and takes no further job.
OpenFails(w) ==
  /\ task[w] = "start"
  /\ job[w] \notin readable
  /\ SetTask(w, "returned")
  /\ UNCHANGED <<vars, heap, exited, search>>

\* One turn of the getline loop.
ScanLine(w) ==
  LET path == job[w] IN
  /\ task[w] = "scan"
  /\ lineno[w] <= Len(Matches[path])
  /\ printed' = IF Matches[path][lineno[w]] THEN Append(printed, <<path, lineno[w]>>)
                                            ELSE printed
  /\ lineno' = [lineno EXCEPT ![w] = @ + 1]
  /\ UNCHANGED <<vars, pool, readable>>

\* End of the file: close it and go back to pop.  The path is never freed.
EndOfFile(w) ==
  /\ task[w] = "scan"
  /\ lineno[w] > Len(Matches[job[w]])
  /\ SetTask(w, "queue")
  /\ UNCHANGED <<vars, heap, exited, search>>

GrepMain == PoolMain /\ UNCHANGED search

GrepWorker(w) ==
  /\ Running
  /\ \/ (PopCall(w) \/ GotJob(w) \/ LastPop(w)) /\ UNCHANGED search
     \/ Open(w)
     \/ OpenFails(w)
     \/ ScanLine(w)
     \/ EndOfFile(w)

GrepNext ==
  \/ GrepMain
  \/ \E w \in Workers : GrepWorker(w)
  \/ PoolWakeup /\ UNCHANGED search

\* main walks a finite tree and a worker never stops on its own.
GrepSpec ==
  /\ GrepInit
  /\ [][GrepNext]_grep_vars
  /\ WF_grep_vars(GrepMain)
  /\ \A w \in Workers : WF_grep_vars(GrepWorker(w))

-----------------------------------------------------------------------------
\* The numbers of a finite set in ascending order.
Rank(S, n)   == Cardinality({ m \in S : m <= n })
Ranked(S, i) == CHOOSE n \in { m \in S : Rank(S, m) = i } : TRUE
InOrder(S)   == [i \in 1 .. Cardinality(S) |-> Ranked(S, i)]

Hits(p) == { n \in 1 .. Len(Matches[p]) : Matches[p][n] }

\* What fauxgrep.c prints for one file: its hits in the order of the lines.
fauxgrep_file(p) == [i \in 1 .. Cardinality(Hits(p)) |-> <<p, InOrder(Hits(p))[i]>>]

\* Those of some printed lines that are of one file, in the order of printing.
Places(lines, p)  == { k \in 1 .. Len(lines) : lines[k][1] = p }
LinesOf(lines, p) ==
  LET at == InOrder(Places(lines, p))
  IN  [i \in 1 .. Cardinality(Places(lines, p)) |-> lines[at[i]]]

OutputOf(p) == LinesOf(printed, p)

\* However the workers interleave, what has been printed of a file is a prefix
\* of what fauxgrep.c prints of it: in order, with the right line numbers, no
\* line twice and no file searched by two workers.
OutputIsPrefix ==
  \A p \in Paths :
    /\ Len(OutputOf(p)) <= Len(fauxgrep_file(p))
    /\ \A i \in 1 .. Len(OutputOf(p)) : OutputOf(p)[i] = fauxgrep_file(p)[i]

\* The worker has returned because it could not open its file.
Died(w) == task[w] = "returned" /\ job[w] \in Paths \ readable

\* A file that cannot be opened is reported and skipped, as in fauxgrep.c: as
\* long as a worker is left, every readable file is searched to its end before
\* main returns, unless an assert() of job_queue.c ends the process.
SearchedWhileWorkersLeft ==
  \A p \in Paths :
    <>(\/ p \notin readable
       \/ OutputOf(p) = fauxgrep_file(p)
       \/ failed
       \/ \A w \in Workers : Died(w))

=============================================================================
