--------------------------- MODULE CompsysHelpers ---------------------------
(***************************************************************************)
(* The robust reads and writes of compsys_helpers.c (the same file in A3   *)
(* and A4) at the two ends of a connection: one side writes a message with *)
(* compsys_helper_writen and closes; the other side reads it with any      *)
(* sequence of calls, either unbuffered (compsys_helper_readn, as in A3)   *)
(* or through the internal buffer (compsys_helper_readnb and               *)
(* compsys_helper_readlineb, as in A4).                                    *)
(*                                                                         *)
(* What read() and write() do is the environment: they transfer any number *)
(* of bytes up to the one asked for, are interrupted by a signal (EINTR),  *)
(* or fail.                                                                *)
(***************************************************************************)
EXTENDS Integers, Sequences

CONSTANTS Bytes,
          Message,       \* the bytes that are written
          Newline,       \* the byte at which a line ends
          BufSize,       \* COMPSYS_BUFSIZE
          MaxInt,        \* INT_MAX
          Requests,      \* the values of n and maxlen that callers pass
          MaxInterrupts  \* bound: calls that a signal interrupts

\* A request that is no int would be copied with a negative length: the callers ask
\* for the size of a header or for the length that a header holds.
ASSUME HelperAssumption ==
  /\ Message \in Seq(Bytes)
  /\ Newline \in Bytes
  /\ BufSize \in Nat \ {0}
  /\ MaxInt \in Nat
  /\ Requests \subseteq 0 .. MaxInt
  /\ MaxInterrupts \in Nat

VARIABLES
  wpc, nleft, bufp,     \* writen: control and its two local variables
  net,                  \* every byte that write() has accepted so far
  got,                  \* how many of them read() has returned
  buf, bufptr, cnt,     \* the state of the buffered reader
  style,                \* "plain" (readn) or "buffered" (readnb, readlineb)
  rpc, kind, n,         \* the call under way or the last one, and its argument
  usrbuf, ret,          \* what it stored for its caller, and its return value
  start,                \* history: bytes delivered before the call
  interrupts

writer   == <<wpc, nleft, bufp, net>>
internal == <<buf, bufptr, cnt>>
request  == <<style, kind, n, start>>
vars     == <<writer, internal, request, got, rpc, usrbuf, ret, interrupts>>

Least(a, b) == IF a < b THEN a ELSE b

Init ==
  /\ wpc = "writing"
  /\ nleft = Len(Message)
  /\ bufp = 0
  /\ net = << >>
  /\ got = 0
  /\ buf = [i \in 0 .. BufSize - 1 |-> Newline]
  /\ bufptr = 0
  /\ cnt = 0
  /\ style \in {"plain", "buffered"}
  /\ rpc = "returned"
  /\ kind = "none"
  /\ n = 0
  /\ usrbuf = << >>
  /\ ret = 0
  /\ start = 0
  /\ interrupts = 0

-----------------------------------------------------------------------------
(***************************************************************************)
(* compsys_helper_writen, and the close that ends the stream.              *)
(***************************************************************************)

\* Faulty variant, for mutation testing: bufp is not advanced.
WriteSomeAgain ==
  /\ wpc = "writing"
  /\ \E k \in 1 .. nleft :
       /\ net' = net \o SubSeq(Message, bufp + 1, bufp + k)
       /\ nleft' = nleft - k
  /\ UNCHANGED <<wpc, bufp, internal, request, got, rpc, usrbuf, ret, interrupts>>

\* write() accepts some of the bytes that are left.
WriteSome ==
  /\ wpc = "writing"
  /\ \E k \in 1 .. nleft :
       /\ net' = net \o SubSeq(Message, bufp + 1, bufp + k)
       /\ nleft' = nleft - k
       /\ bufp' = bufp + k
  /\ UNCHANGED <<wpc, internal, request, got, rpc, usrbuf, ret, interrupts>>

\* EINTR: nwritten is set to 0 and write() is called again.
WriteInterrupted ==
  /\ wpc = "writing"
  /\ nleft > 0
  /\ interrupts < MaxInterrupts
  /\ interrupts' = interrupts + 1
  /\ UNCHANGED <<writer, internal, request, got, rpc, usrbuf, ret>>

WriteReturns ==
  /\ wpc = "writing"
  /\ wpc' = IF nleft = 0 THEN "done" ELSE "failed"
  /\ UNCHANGED <<nleft, bufp, net, internal, request, got, rpc, usrbuf, ret, interrupts>>

Close ==
  /\ wpc \in {"done", "failed"}
  /\ wpc' = "closed"
  /\ UNCHANGED <<nleft, bufp, net, internal, request, got, rpc, usrbuf, ret, interrupts>>

-----------------------------------------------------------------------------
(***************************************************************************)
(* The reads.  nleft of readn and readnb is n - Len(usrbuf); the counter   *)
(* of readlineb is Len(usrbuf) + 1.                                        *)
(***************************************************************************)

Return(r) == rpc' = "returned" /\ ret' = r

\* The loop of the call ends with the bytes in stored.
Complete(stored) ==
  IF kind = "line"
    THEN Len(stored) >= n - 1 \/ (stored # << >> /\ stored[Len(stored)] = Newline)
    ELSE Len(stored) >= n

\* The bytes that the next read asks for.
Wanted == IF kind = "line" THEN 1 ELSE n - Len(usrbuf)

Call ==
  /\ rpc = "returned"
  /\ kind' \in IF style = "plain" THEN {"readn"} ELSE {"readnb", "line"}
  /\ n' \in Requests
  /\ usrbuf' = << >>
  /\ start' = start + Len(usrbuf)
  /\ IF n' > (IF kind' = "line" THEN 1 ELSE 0)
       THEN rpc' = "reading" /\ UNCHANGED ret
       ELSE Return(0)
  /\ UNCHANGED <<writer, internal, style, got, interrupts>>

\* readn: read() stores directly in the caller's buffer.
ReadPlain ==
  /\ rpc = "reading"
  /\ style = "plain"
  /\ \E k \in 1 .. Least(Wanted, Len(net) - got) :
       LET stored == usrbuf \o SubSeq(net, got + 1, got + k)
       IN  /\ usrbuf' = stored
           /\ got' = got + k
           /\ IF Complete(stored) THEN Return(Len(stored)) ELSE UNCHANGED <<rpc, ret>>
  /\ UNCHANGED <<writer, internal, request, interrupts>>

\* Faulty variant: the buffer pointer is not reset.
RefillNoReset ==
  /\ rpc = "reading"
  /\ style = "buffered"
  /\ cnt <= 0
  /\ \E k \in 1 .. Least(BufSize, Len(net) - got) :
       /\ buf' = [i \in 0 .. BufSize - 1 |-> IF i < k THEN net[got + i + 1] ELSE buf[i]]
       /\ cnt' = k
       /\ got' = got + k
  /\ UNCHANGED <<writer, request, bufptr, rpc, usrbuf, ret, interrupts>>

\* compsys_helper_read: refill the empty buffer from its beginning.
Refill ==
  /\ rpc = "reading"
  /\ style = "buffered"
  /\ cnt <= 0
  /\ \E k \in 1 .. Least(BufSize, Len(net) - got) :
       /\ buf' = [i \in 0 .. BufSize - 1 |-> IF i < k THEN net[got + i + 1] ELSE buf[i]]
       /\ cnt' = k
       /\ got' = got + k
  /\ bufptr' = 0
  /\ UNCHANGED <<writer, request, rpc, usrbuf, ret, interrupts>>

\* The conversion of a size_t to int, as in compsys_helper_read.
ToInt(x) == ((x + (MaxInt + 1)) % (2 * (MaxInt + 1))) - (MaxInt + 1)

\* Faulty variant: the pointer stays when a part of the buffer was copied.
CopyOutNoAdvance ==
  /\ rpc = "reading"
  /\ cnt > 0
  /\ LET c      == Least(ToInt(Wanted), cnt)
         stored == usrbuf \o [i \in 1 .. c |-> buf[bufptr + i - 1]]
     IN  /\ usrbuf' = stored
         /\ cnt' = cnt - c
         /\ IF Complete(stored) THEN Return(Len(stored)) ELSE UNCHANGED <<rpc, ret>>
  /\ UNCHANGED <<writer, request, buf, bufptr, got, interrupts>>

\* compsys_helper_read: copy what is wanted and available to the caller.
CopyOut ==
  /\ rpc = "reading"
  /\ cnt > 0
  /\ LET c      == Least(ToInt(Wanted), cnt)
         stored == usrbuf \o [i \in 1 .. c |-> buf[bufptr + i - 1]]
     IN  /\ usrbuf' = stored
         /\ bufptr' = bufptr + c
         /\ cnt' = cnt - c
         /\ IF Complete(stored) THEN Return(Len(stored)) ELSE UNCHANGED <<rpc, ret>>
  /\ UNCHANGED <<writer, request, buf, got, interrupts>>

\* read() is about to be called: by readn, or because the buffer is empty.
Asking == rpc = "reading" /\ (style = "plain" \/ cnt <= 0)

\* The count that read() returned is kept, in the buffered case also if negative.
Count(c) == cnt' = IF style = "buffered" THEN c ELSE cnt

\* Faulty variant: a signal looks like the end of the stream.
ReadInterruptedIsEof ==
  /\ Asking
  /\ interrupts < MaxInterrupts
  /\ interrupts' = interrupts + 1
  /\ Count(-1)
  /\ Return(Len(usrbuf))
  /\ UNCHANGED <<writer, buf, bufptr, request, got, usrbuf>>

\* EINTR: the loop calls read() again.
ReadInterrupted ==
  /\ Asking
  /\ interrupts < MaxInterrupts
  /\ interrupts' = interrupts + 1
  /\ Count(-1)
  /\ UNCHANGED <<writer, buf, bufptr, request, got, rpc, usrbuf, ret>>

\* Another error: the call returns -1, whatever it has stored already.
ReadFails ==
  /\ Asking
  /\ Count(-1)
  /\ Return(-1)
  /\ UNCHANGED <<writer, buf, bufptr, request, got, usrbuf, interrupts>>

\* Faulty variant: readlineb does not look at a count of zero.
ReadEofNoReturn ==
  /\ Asking
  /\ wpc = "closed"
  /\ got = Len(net)
  /\ Count(0)
  /\ IF kind = "line" THEN UNCHANGED <<rpc, ret>> ELSE Return(Len(usrbuf))
  /\ UNCHANGED <<writer, buf, bufptr, request, got, usrbuf, interrupts>>

\* The end of the stream: the call returns what it has.
ReadEof ==
  /\ Asking
  /\ wpc = "closed"
  /\ got = Len(net)
  /\ Count(0)
  /\ Return(Len(usrbuf))
  /\ UNCHANGED <<writer, buf, bufptr, request, got, usrbuf, interrupts>>

Writer == WriteSome \/ WriteInterrupted \/ WriteReturns \/ Close
Reader == ReadPlain \/ Refill \/ CopyOut \/ ReadInterrupted \/ ReadFails \/ ReadEof

Next == Writer \/ Call \/ Reader

(***************************************************************************)
(* write() and read() return, the writer closes its end when it is done,   *)
(* and signals are finitely many.  Nobody has to call a read again, and    *)
(* nothing makes a read fail or be interrupted.                            *)
(***************************************************************************)
Spec == Init /\ [][Next]_vars /\ WF_vars(Writer)
        /\ WF_vars(ReadPlain \/ Refill \/ CopyOut \/ ReadEof)

-----------------------------------------------------------------------------
(***************************************************************************)
(* Properties.                                                             *)
(***************************************************************************)

\* Control and counters stay in their ranges, in particular the unread bytes
\* inside the internal buffer.
TypeOK ==
  /\ wpc \in {"writing", "done", "failed", "closed"}
  /\ nleft \in Nat /\ bufp \in Nat
  /\ net \in Seq(Bytes)
  /\ got \in 0 .. Len(net)
  /\ buf \in [0 .. BufSize - 1 -> Bytes]
  /\ bufptr \in 0 .. BufSize
  /\ cnt \in -1 .. BufSize
  /\ bufptr + cnt <= BufSize
  /\ style \in {"plain", "buffered"}
  /\ rpc \in {"reading", "returned"}
  /\ kind \in {"none", "readn", "readnb", "line"}
  /\ n \in 0 .. MaxInt
  /\ usrbuf \in Seq(Bytes)
  /\ ret \in Int
  /\ start \in Nat
  /\ interrupts \in 0 .. MaxInterrupts

\* writen sends the message in order and nothing twice, whatever write() accepts
\* at a time, and it reports success only when all of it was accepted.
WrittenInOrder ==
  /\ net = SubSeq(Message, 1, Len(net))
  /\ wpc = "done" => net = Message

Buffered == IF cnt > 0 THEN cnt ELSE 0

\* Between the calls and in the middle of each of them no byte of the stream is
\* lost, repeated or out of order: what all calls have delivered, followed by
\* the unread part of the internal buffer, is what read() has returned.
StreamConserved ==
  LET delivered == start + Len(usrbuf) IN
  /\ got = delivered + Buffered
  /\ \A i \in 1 .. Len(usrbuf) : usrbuf[i] = net[start + i]
  /\ \A i \in 1 .. Buffered : buf[bufptr + i - 1] = net[delivered + i]

AtEof == wpc = "closed" /\ got = Len(net) /\ Buffered = 0

\* A read that succeeds has stored as many bytes as it says, never more than its
\* caller has room for, and fewer than it was asked for only at the end of the
\* stream; readlineb stops also at the end of a line, and always at the first one.
ShortOnlyAtEnd ==
  rpc = "returned" /\ ret >= 0 /\ kind # "none" =>
    /\ ret = Len(usrbuf)
    /\ IF kind = "line"
         THEN /\ ret < n \/ n = 0
              /\ ret < n - 1 => AtEof \/ (ret > 0 /\ usrbuf[ret] = Newline)
              /\ \A i \in 1 .. ret - 1 : usrbuf[i] # Newline
         ELSE /\ ret <= n
              /\ ret < n => AtEof

\* Every call returns once the other side has closed, however read() divides the
\* stream and whatever signals arrive.
EveryCallReturns == (rpc = "reading") ~> (rpc = "returned")

=============================================================================
