------------------------ MODULE CompsysHelpers_proofs ------------------------
(***************************************************************************)
(* Proofs about CompsysHelpers, for every message, every buffer size and   *)
(* every sequence of calls: the reads and writes of compsys_helpers.c      *)
(* neither lose, repeat nor reorder a byte, and a read is short only where *)
(* it may be; and about ServerRequest, on top of them: where the server of *)
(* A4 finds the body of a request.                                         *)
(***************************************************************************)
EXTENDS ServerRequest, SequenceTheorems, TLAPS

(***************************************************************************)
(* The inductive invariant.  StreamConserved speaks of the bytes that      *)
(* write() accepted; it is inductive only with the facts below: the        *)
(* counters of writen agree with what was accepted, a reader without a     *)
(* buffer keeps none, and a call under way still wants something.          *)
(***************************************************************************)
WriterInv ==
  /\ bufp = Len(net)
  /\ nleft = Len(Message) - bufp
  /\ \A i \in 1 .. Len(net) : net[i] = Message[i]
  /\ wpc = "done" => nleft = 0

CallInv ==
  /\ style = "plain" => cnt = 0
  /\ rpc = "reading" =>
       /\ kind = "readn" <=> style = "plain"
       /\ kind # "none"
       /\ kind = "line" => n > 1 /\ Len(usrbuf) < n - 1
       /\ kind # "line" => Len(usrbuf) < n

IInv == TypeOK /\ WriterInv /\ CallInv /\ StreamConserved

-----------------------------------------------------------------------------

\* Two facts of arithmetic, about the room of a line and about a count that is not
\* positive.
LEMMA RoomForLine == ASSUME NEW m \in Nat, m > 1 PROVE 0 < m - 1
OBVIOUS

\* The conversion of what is wanted to int, which changes no number that fits.
LEMMA ConversionExact ==
  ASSUME NEW count \in Nat, count <= MaxInt
  PROVE  ToInt(count) = count
<1>1. MaxInt + 1 \in Nat \ {0}
  BY HelperAssumption
<1> DEFINE half == MaxInt + 1
<1>2. count < half
  BY HelperAssumption
<1> HIDE DEF half
<1>3. (count + half) % (2 * half) = count + half
  <2>1. half \in Nat \ {0}
    BY <1>1 DEF half
  <2>2. count + half \in 0 .. 2 * half - 1
    BY <1>2, <2>1
  <2> QED
    BY <2>1, <2>2
<1> QED
  BY <1>1, <1>3 DEF ToInt, half

\* A count that is not positive moves nothing.
LEMMA NothingAdded ==
  ASSUME NEW size \in Nat, NEW p \in 0 .. size, NEW count \in Int, count <= 0
  PROVE  p + count <= size
OBVIOUS

\* Where a part of length k of a message ends, and where a byte lies that was just
\* stored behind len others.
LEMMA PartInside ==
  ASSUME NEW len \in Nat, NEW from \in Nat, NEW left, left = len - from, NEW k \in 1 .. left
  PROVE  from + 1 \in 1 .. len /\ from + k \in 1 .. len
OBVIOUS

\* The place of a byte that was just stored, in the new part and in the stream.
LEMMA NewlyStored ==
  ASSUME NEW len \in Nat, NEW base \in Nat, NEW k \in Nat, NEW i \in 1 .. len + k, i > len
  PROVE  /\ i - len \in 1 .. k
         /\ len + (i - len) = i
         /\ base + len + (i - len) = base + i
OBVIOUS

\* The initial state satisfies the invariant.
LEMMA InitIInv == Init => IInv
BY HelperAssumption
   DEF Init, IInv, TypeOK, WriterInv, CallInv, StreamConserved, Buffered

\* What a write adds to the stream: a sequence of bytes behind the old one.
LEMMA Accepted ==
  ASSUME TypeOK, NEW part \in Seq(Bytes)
  PROVE  LET sent == net \o part
         IN  /\ sent \in Seq(Bytes)
             /\ Len(sent) = Len(net) + Len(part)
             /\ \A i \in 1 .. Len(net) : sent[i] = net[i]
             /\ \A i \in 1 .. Len(part) : sent[Len(net) + i] = part[i]
<1>1. net \in Seq(Bytes)
  BY DEF TypeOK
<1> QED
  BY <1>1, ConcatProperties

\* A step of writen keeps everything: the bytes that write() accepts are the next
\* ones of the message, and those accepted before stay where they are.
LEMMA WriterStep == IInv /\ Writer => IInv'
<1> SUFFICES ASSUME IInv, Writer PROVE IInv'
  OBVIOUS
<1> USE HelperAssumption DEF IInv
<1>1. CASE WriteSome
  <2>1. PICK k \in 1 .. nleft :
          /\ net' = net \o SubSeq(Message, bufp + 1, bufp + k)
          /\ nleft' = nleft - k
          /\ bufp' = bufp + k
    BY <1>1 DEF WriteSome
  <2> DEFINE part == SubSeq(Message, bufp + 1, bufp + k)
  <2>2. /\ part \in Seq(Bytes)
        /\ Len(part) = k
        /\ \A i \in 1 .. k : part[i] = Message[bufp + i]
    <3>1. bufp + 1 \in 1 .. Len(Message) /\ bufp + k \in 1 .. Len(Message)
      <4>1. nleft = Len(Message) - bufp /\ bufp \in Nat /\ Len(Message) \in Nat
        BY DEF TypeOK, WriterInv
      <4> QED
        BY <4>1, PartInside
    <3> QED
      BY <2>1, <3>1 DEF TypeOK
  <2>3. /\ net' \in Seq(Bytes)
        /\ Len(net') = Len(net) + k
        /\ \A i \in 1 .. Len(net) : net'[i] = net[i]
        /\ \A i \in 1 .. k : net'[Len(net) + i] = Message[bufp + i]
    BY <2>1, <2>2, Accepted
  <2>4. UNCHANGED <<wpc, internal, request, got, rpc, usrbuf, ret, interrupts>> /\ wpc = "writing"
    BY <1>1 DEF WriteSome
  <2>5. TypeOK'
    <3>1. nleft' \in Nat /\ bufp' \in Nat
      BY <2>1 DEF TypeOK
    <3>2. got' \in 0 .. Len(net')
      BY <2>1, <2>3, <2>4 DEF TypeOK
    <3> QED
      BY <2>3, <2>4, <3>1, <3>2 DEF TypeOK, internal, request
  <2>6. WriterInv'
    <3>1. ASSUME NEW i \in 1 .. Len(net') PROVE net'[i] = Message[i]
      <4>1. Len(net) \in Nat /\ bufp = Len(net) /\ \A j \in 1 .. Len(net) : net[j] = Message[j]
        BY DEF TypeOK, WriterInv
      <4>2. CASE i <= Len(net)
        <5>1. i \in 1 .. Len(net)
          BY <4>1, <4>2
        <5> QED
          BY <2>3, <4>1, <5>1
      <4>3. CASE ~(i <= Len(net))
        <5>1. i - Len(net) \in 1 .. k /\ Len(net) + (i - Len(net)) = i
          BY <2>1, <2>3, <4>1, <4>3
        <5> QED
          BY <2>3, <4>1, <5>1
      <4> QED
        BY <4>2, <4>3
    <3>2. bufp' = Len(net') /\ nleft' = Len(Message) - bufp'
      <4>1. /\ bufp = Len(net) /\ nleft = Len(Message) - bufp
            /\ bufp \in Nat /\ Len(Message) \in Nat /\ k \in Nat
        BY <2>1 DEF TypeOK, WriterInv
      <4> HIDE DEF IInv
      <4>2. bufp' = Len(net')
        BY <2>1, <2>3, <4>1
      <4>3. nleft' = Len(Message) - bufp'
        BY <2>1, <4>1
      <4> QED
        BY <4>2, <4>3
    <3> QED
      BY <2>4, <3>1, <3>2 DEF WriterInv
  <2>7. CallInv'
    BY <2>4 DEF CallInv, internal, request
  <2>8. StreamConserved'
    <3>1. /\ start \in Nat /\ Len(usrbuf) \in Nat /\ Buffered \in Nat /\ Len(net) \in Nat
          /\ start + Len(usrbuf) + Buffered <= Len(net)
      BY DEF StreamConserved, Buffered, TypeOK
    <3>2. \A i \in 1 .. Len(usrbuf) : start + i \in 1 .. Len(net)
      BY <3>1
    <3>3. \A i \in 1 .. Buffered : start + Len(usrbuf) + i \in 1 .. Len(net)
      BY <3>1
    <3> QED
      BY <2>3, <2>4, <3>2, <3>3 DEF StreamConserved, Buffered, internal, request
  <2> QED
    BY <2>5, <2>6, <2>7, <2>8
<1>2. CASE WriteInterrupted
  BY <1>2 DEF WriteInterrupted, TypeOK, WriterInv, CallInv, StreamConserved, Buffered,
     writer, internal, request
<1>3. CASE WriteReturns \/ Close
  BY <1>3 DEF WriteReturns, Close, TypeOK, WriterInv, CallInv, StreamConserved, Buffered,
     internal, request
<1> QED
  BY <1>1, <1>2, <1>3 DEF Writer

\* A new call begins where the last one ended.
LEMMA CallStep == IInv /\ Call => IInv'
<1> SUFFICES ASSUME IInv, Call PROVE IInv'
  OBVIOUS
<1> USE HelperAssumption DEF IInv
<1>1. /\ usrbuf' = << >> /\ Len(usrbuf') = 0
      /\ start' = start + Len(usrbuf)
      /\ UNCHANGED <<wpc, nleft, bufp, net, buf, bufptr, cnt, style, got, interrupts>>
      /\ n' \in Requests
      /\ kind' \in IF style = "plain" THEN {"readn"} ELSE {"readnb", "line"}
      /\ rpc = "returned"
  BY DEF Call, writer, internal
<1>2. \/ rpc' = "reading" /\ ret' = ret /\ n' > (IF kind' = "line" THEN 1 ELSE 0)
      \/ rpc' = "returned" /\ ret' = 0
  BY DEF Call, Return
<1>3. TypeOK'
  BY <1>1, <1>2 DEF TypeOK
<1>4. WriterInv' /\ CallInv'
  <2>1. n' \in Nat
    BY <1>1
  <2>2. WriterInv'
    BY <1>1 DEF WriterInv
  <2>3. kind' # "none" /\ (kind' = "readn" <=> style' = "plain")
    BY <1>1 DEF TypeOK
  <2>4. rpc' = "reading" => n' > (IF kind' = "line" THEN 1 ELSE 0)
    BY <1>2
  <2>5. rpc' = "reading" /\ kind' = "line" => n' > 1 /\ Len(usrbuf') < n' - 1
    <3>1. rpc' = "reading" /\ kind' = "line" => n' > 1
      BY <2>4
    <3>2. n' > 1 => 0 < n' - 1
      BY <2>1, RoomForLine, Zenon
    <3> QED
      BY <1>1, <3>1, <3>2
  <2>6. rpc' = "reading" /\ kind' # "line" => Len(usrbuf') < n'
    BY <1>1, <2>1, <2>4
  <2>7. style' = "plain" => cnt' = 0
    BY <1>1 DEF CallInv
  <2> QED
    BY <2>2, <2>3, <2>5, <2>6, <2>7, Zenon DEF CallInv
<1>5. StreamConserved'
  BY <1>1 DEF TypeOK, StreamConserved, Buffered
<1> QED
  BY <1>3, <1>4, <1>5

\* What a read adds to the caller's buffer: a sequence of bytes behind the old one.
LEMMA Stored ==
  ASSUME TypeOK, NEW part \in Seq(Bytes)
  PROVE  LET stored == usrbuf \o part
         IN  /\ stored \in Seq(Bytes)
             /\ Len(stored) = Len(usrbuf) + Len(part)
             /\ \A i \in 1 .. Len(usrbuf) : stored[i] = usrbuf[i]
             /\ \A i \in 1 .. Len(part) : stored[Len(usrbuf) + i] = part[i]
<1>1. usrbuf \in Seq(Bytes)
  BY DEF TypeOK
<1> QED
  BY <1>1, ConcatProperties

\* readn takes the next bytes of the stream.
LEMMA PlainStep == IInv /\ ReadPlain => IInv'
<1> SUFFICES ASSUME IInv, ReadPlain PROVE IInv'
  OBVIOUS
<1> USE HelperAssumption DEF IInv
<1>1. PICK k \in 1 .. Least(Wanted, Len(net) - got) :
        /\ usrbuf' = usrbuf \o SubSeq(net, got + 1, got + k)
        /\ got' = got + k
        /\ IF Complete(usrbuf \o SubSeq(net, got + 1, got + k))
             THEN Return(Len(usrbuf \o SubSeq(net, got + 1, got + k)))
             ELSE UNCHANGED <<rpc, ret>>
  BY DEF ReadPlain
<1> DEFINE part == SubSeq(net, got + 1, got + k)
<1>2. k \in Nat /\ k >= 1 /\ k <= Wanted /\ got + k <= Len(net)
  BY <1>1 DEF Least, Wanted, TypeOK
<1>3. /\ part \in Seq(Bytes)
      /\ Len(part) = k
      /\ \A i \in 1 .. k : part[i] = net[got + i]
  <2>1. got + 1 \in 1 .. Len(net) /\ got + k \in 1 .. Len(net)
    BY <1>2 DEF TypeOK
  <2> QED
    BY <1>2, <2>1 DEF TypeOK
<1>4. /\ usrbuf' \in Seq(Bytes)
      /\ Len(usrbuf') = Len(usrbuf) + k
      /\ \A i \in 1 .. Len(usrbuf) : usrbuf'[i] = usrbuf[i]
      /\ \A i \in 1 .. k : usrbuf'[Len(usrbuf) + i] = net[got + i]
  BY <1>1, <1>3, Stored
<1>5. /\ rpc = "reading" /\ style = "plain"
      /\ UNCHANGED <<wpc, nleft, bufp, net, buf, bufptr, cnt, style, kind, n, start, interrupts>>
  BY DEF ReadPlain, writer, internal, request
<1>6. kind = "readn" /\ Len(usrbuf') <= n
  BY <1>2, <1>4, <1>5 DEF Wanted, CallInv, TypeOK
<1>7. \/ rpc' = "returned" /\ ret' = Len(usrbuf')
      \/ rpc' = "reading" /\ ret' = ret /\ Len(usrbuf') < n
  BY <1>1, <1>4, <1>5, <1>6 DEF Complete, Return, TypeOK
<1>8. TypeOK'
  BY <1>1, <1>2, <1>4, <1>5, <1>7 DEF TypeOK
<1>9. WriterInv' /\ CallInv'
  BY <1>5, <1>6, <1>7 DEF TypeOK, WriterInv, CallInv
<1>10. StreamConserved'
  <2>1. got = start + Len(usrbuf) /\ Buffered = 0 /\ Buffered' = 0
    BY <1>5 DEF CallInv, StreamConserved, Buffered, TypeOK
  <2>2. ASSUME NEW i \in 1 .. Len(usrbuf') PROVE usrbuf'[i] = net'[start' + i]
    <3>1. CASE i <= Len(usrbuf)
      <4>1. i \in 1 .. Len(usrbuf)
        BY <3>1 DEF TypeOK
      <4>2. usrbuf[i] = net[start + i]
        BY <4>1 DEF StreamConserved
      <4> QED
        BY <1>4, <1>5, <4>1, <4>2
    <3>2. CASE i > Len(usrbuf)
      <4>1. /\ i - Len(usrbuf) \in 1 .. k
            /\ Len(usrbuf) + (i - Len(usrbuf)) = i
            /\ got + (i - Len(usrbuf)) = start + i
        <5>1. Len(usrbuf) \in Nat /\ start \in Nat /\ k \in Nat /\ i \in 1 .. Len(usrbuf) + k
          BY <1>2, <1>4 DEF TypeOK
        <5> QED
          BY <2>1, <3>2, <5>1, NewlyStored
      <4> QED
        BY <1>4, <1>5, <4>1
    <3> QED
      BY <3>1, <3>2 DEF TypeOK
  <2>3. got' = start' + Len(usrbuf') + Buffered'
    BY <1>1, <1>2, <1>4, <1>5, <2>1 DEF TypeOK
  <2> QED
    BY <2>1, <2>2, <2>3 DEF StreamConserved
<1> QED
  BY <1>8, <1>9, <1>10

\* The buffer is refilled with the next bytes of the stream, from its beginning.
LEMMA RefillStep == IInv /\ Refill => IInv'
<1> SUFFICES ASSUME IInv, Refill PROVE IInv'
  OBVIOUS
<1> USE HelperAssumption DEF IInv
<1>1. PICK k \in 1 .. Least(BufSize, Len(net) - got) :
        /\ buf' = [i \in 0 .. BufSize - 1 |-> IF i < k THEN net[got + i + 1] ELSE buf[i]]
        /\ cnt' = k
        /\ got' = got + k
  BY DEF Refill
<1>2. k \in Nat /\ k >= 1 /\ k <= BufSize /\ got + k <= Len(net)
  BY <1>1 DEF Least, TypeOK
<1>3. /\ rpc = "reading" /\ style = "buffered" /\ cnt <= 0 /\ bufptr' = 0
      /\ UNCHANGED <<wpc, nleft, bufp, net, style, kind, n, start, rpc, usrbuf, ret, interrupts>>
  BY DEF Refill, writer, request
<1>4. buf' \in [0 .. BufSize - 1 -> Bytes]
  <2>1. ASSUME NEW i \in 0 .. BufSize - 1, i < k PROVE net[got + i + 1] \in Bytes
    <3>1. got + i + 1 \in 1 .. Len(net)
      BY <1>2, <2>1 DEF TypeOK
    <3> QED
      BY <3>1 DEF TypeOK
  <2> QED
    BY <1>1, <2>1 DEF TypeOK
<1>5. TypeOK'
  BY <1>1, <1>2, <1>3, <1>4 DEF TypeOK
<1>6. WriterInv' /\ CallInv'
  BY <1>3 DEF WriterInv, CallInv
<1>7. StreamConserved'
  <2>1. got = start + Len(usrbuf) /\ Buffered' = k
    <3>1. cnt' = k /\ k > 0 /\ ~(cnt > 0)
      BY <1>1, <1>2, <1>3 DEF TypeOK
    <3>2. Buffered = 0 /\ Buffered' = k
      BY <3>1 DEF Buffered
    <3> QED
      BY <3>2 DEF StreamConserved, TypeOK
  <2>2. ASSUME NEW i \in 1 .. k PROVE buf'[bufptr' + i - 1] = net[got + i]
    <3>1. i - 1 \in 0 .. BufSize - 1 /\ i - 1 < k /\ bufptr' + i - 1 = i - 1
      BY <1>2, <1>3
    <3>2. got + (i - 1) + 1 = got + i
      BY DEF TypeOK
    <3> QED
      BY <1>1, <3>1, <3>2
  <2> QED
    BY <1>1, <1>2, <1>3, <2>1, <2>2 DEF StreamConserved, TypeOK
<1> QED
  BY <1>5, <1>6, <1>7

\* The caller gets the first unread bytes of the buffer.
LEMMA CopyStep == IInv /\ CopyOut => IInv'
<1> SUFFICES ASSUME IInv, CopyOut PROVE IInv'
  OBVIOUS
<1> USE HelperAssumption DEF IInv
<1> DEFINE k    == Least(ToInt(Wanted), cnt)
           part == [i \in 1 .. k |-> buf[bufptr + i - 1]]
<1>1. /\ rpc = "reading" /\ cnt > 0
      /\ usrbuf' = usrbuf \o part
      /\ bufptr' = bufptr + k
      /\ cnt' = cnt - k
      /\ UNCHANGED <<wpc, nleft, bufp, net, buf, style, kind, n, start, got, interrupts>>
      /\ IF Complete(usrbuf \o part) THEN Return(Len(usrbuf \o part)) ELSE UNCHANGED <<rpc, ret>>
  BY DEF CopyOut, writer, request
<1>2. k \in Nat /\ k >= 1 /\ k <= cnt /\ k <= Wanted
  <2>1. Wanted \in Int /\ Wanted >= 1
    BY <1>1 DEF Wanted, CallInv, TypeOK
  <2>2. cnt \in Int /\ cnt >= 1
    BY <1>1 DEF TypeOK
  <2>3. ToInt(Wanted) = Wanted
    <3>1. Wanted <= MaxInt
      BY <1>1 DEF Wanted, CallInv, TypeOK
    <3> QED
      BY <2>1, <3>1, ConversionExact
  <2> QED
    BY <2>1, <2>2, <2>3 DEF Least
<1> HIDE DEF k
<1>3. \A i \in 1 .. k : bufptr + i - 1 \in 0 .. BufSize - 1
  BY <1>1, <1>2 DEF TypeOK
<1>4. part \in Seq(Bytes) /\ Len(part) = k
  BY <1>2, <1>3 DEF TypeOK
<1>5. /\ usrbuf' \in Seq(Bytes)
      /\ Len(usrbuf') = Len(usrbuf) + k
      /\ \A i \in 1 .. Len(usrbuf) : usrbuf'[i] = usrbuf[i]
      /\ \A i \in 1 .. k : usrbuf'[Len(usrbuf) + i] = buf[bufptr + i - 1]
  BY <1>1, <1>4, Stored
<1>6. /\ kind # "none" /\ style = "buffered" /\ kind # "readn"
      /\ kind = "line" => Len(usrbuf') <= n - 1
      /\ kind # "line" => Len(usrbuf') <= n
  BY <1>1, <1>2, <1>5 DEF Wanted, CallInv, TypeOK
<1>7. \/ rpc' = "returned" /\ ret' = Len(usrbuf')
      \/ /\ rpc' = "reading" /\ ret' = ret
         /\ kind = "line" => Len(usrbuf') < n - 1
         /\ kind # "line" => Len(usrbuf') < n
  <2>1. Len(usrbuf') \in Nat /\ n \in Nat
    BY <1>5 DEF TypeOK
  <2>2. CASE Complete(usrbuf')
    BY <1>1, <2>2 DEF Return
  <2>3. CASE ~Complete(usrbuf')
    <3>1. rpc' = rpc /\ ret' = ret
      BY <1>1, <2>3
    <3>2. (kind = "line" => ~(Len(usrbuf') >= n - 1)) /\ (kind # "line" => ~(Len(usrbuf') >= n))
      BY <2>3 DEF Complete
    <3>3. (kind = "line" => Len(usrbuf') < n - 1) /\ (kind # "line" => Len(usrbuf') < n)
      BY <2>1, <3>2
    <3>4. rpc' = "reading"
      BY <1>1, <3>1
    <3> QED
      BY <3>1, <3>3, <3>4
  <2> QED
    BY <2>2, <2>3
<1>8. TypeOK'
  BY <1>1, <1>2, <1>5, <1>7 DEF TypeOK
<1>9. WriterInv' /\ CallInv'
  BY <1>1, <1>6, <1>7 DEF TypeOK, WriterInv, CallInv
<1>10. StreamConserved'
  <2>1. /\ got = start + Len(usrbuf) + cnt
        /\ \A i \in 1 .. cnt : buf[bufptr + i - 1] = net[start + Len(usrbuf) + i]
        /\ Buffered' = cnt - k
    BY <1>1, <1>2 DEF StreamConserved, Buffered, TypeOK
  <2>2. ASSUME NEW i \in 1 .. Len(usrbuf') PROVE usrbuf'[i] = net'[start' + i]
    <3>1. CASE i <= Len(usrbuf)
      <4>1. i \in 1 .. Len(usrbuf)
        BY <3>1 DEF TypeOK
      <4>2. usrbuf[i] = net[start + i]
        BY <4>1 DEF StreamConserved
      <4> QED
        BY <1>1, <1>5, <4>1, <4>2
    <3>2. CASE i > Len(usrbuf)
      <4>1. /\ i - Len(usrbuf) \in 1 .. k /\ i - Len(usrbuf) \in 1 .. cnt
            /\ Len(usrbuf) + (i - Len(usrbuf)) = i
            /\ start + Len(usrbuf) + (i - Len(usrbuf)) = start + i
        <5>1. /\ Len(usrbuf) \in Nat /\ start \in Nat /\ k \in Nat /\ cnt \in Nat /\ k <= cnt
              /\ i \in 1 .. Len(usrbuf) + k
          <6>1. Len(usrbuf) \in Nat /\ start \in Nat /\ cnt \in Int
            BY DEF TypeOK
          <6>2. i \in 1 .. Len(usrbuf) + k
            BY <1>5
          <6> QED
            BY <1>2, <6>1, <6>2
        <5>2. /\ i - Len(usrbuf) \in 1 .. k
              /\ Len(usrbuf) + (i - Len(usrbuf)) = i
              /\ start + Len(usrbuf) + (i - Len(usrbuf)) = start + i
          BY <3>2, <5>1, NewlyStored
        <5>3. 1 .. k \subseteq 1 .. cnt
          BY <5>1
        <5> QED
          BY <5>2, <5>3
      <4>2. usrbuf'[Len(usrbuf) + (i - Len(usrbuf))] = buf[bufptr + (i - Len(usrbuf)) - 1]
        BY <1>5, <4>1
      <4>3. buf[bufptr + (i - Len(usrbuf)) - 1] = net[start + Len(usrbuf) + (i - Len(usrbuf))]
        BY <2>1, <4>1
      <4> QED
        BY <1>1, <4>1, <4>2, <4>3
    <3> QED
      BY <3>1, <3>2 DEF TypeOK
  <2>3. ASSUME NEW i \in 1 .. cnt - k
        PROVE  buf'[bufptr' + i - 1] = net'[start' + Len(usrbuf') + i]
    <3>1. k + i \in 1 .. cnt /\ bufptr' + i - 1 = bufptr + (k + i) - 1
      BY <1>1, <1>2 DEF TypeOK
    <3>2. start' + Len(usrbuf') + i = start + Len(usrbuf) + (k + i)
      BY <1>1, <1>2, <1>5 DEF TypeOK
    <3> QED
      BY <1>1, <2>1, <3>1, <3>2
  <2>4. got' = start' + Len(usrbuf') + Buffered'
    BY <1>1, <1>2, <1>5, <2>1 DEF TypeOK
  <2> QED
    BY <2>1, <2>2, <2>3, <2>4 DEF StreamConserved
<1> QED
  BY <1>8, <1>9, <1>10

\* A read() that brings nothing changes only the count.
LEMMA NothingReadStep == IInv /\ (ReadInterrupted \/ ReadFails \/ ReadEof) => IInv'
<1> SUFFICES ASSUME IInv, ReadInterrupted \/ ReadFails \/ ReadEof PROVE IInv'
  OBVIOUS
<1> USE HelperAssumption DEF IInv
<1>1. /\ UNCHANGED <<wpc, nleft, bufp, net, buf, bufptr, style, kind, n, start, got, usrbuf>>
      /\ rpc' = rpc \/ rpc' = "returned"
  BY DEF ReadInterrupted, ReadFails, ReadEof, Return, writer, request
<1>2. rpc = "reading" /\ cnt <= 0 /\ cnt' <= 0 /\ cnt' \in -1 .. BufSize
      /\ (style = "plain" => cnt' = 0)
  BY DEF ReadInterrupted, ReadFails, ReadEof, Count, Asking, CallInv, TypeOK
<1>3. interrupts' \in 0 .. MaxInterrupts /\ ret' \in Int
  BY DEF ReadInterrupted, ReadFails, ReadEof, Return, TypeOK
<1>4. TypeOK'
  <2>1. bufptr' + cnt' <= BufSize
    <3>1. bufptr' \in 0 .. BufSize /\ cnt' \in Int /\ cnt' <= 0 /\ BufSize \in Nat
      BY <1>1, <1>2 DEF TypeOK
    <3> QED
      BY <3>1, NothingAdded, Zenon
  <2>2. rpc' \in {"reading", "returned"}
    BY <1>1 DEF TypeOK
  <2>3. /\ wpc' \in {"writing", "done", "failed", "closed"}
        /\ nleft' \in Nat /\ bufp' \in Nat
        /\ net' \in Seq(Bytes)
        /\ got' \in 0 .. Len(net')
        /\ buf' \in [0 .. BufSize - 1 -> Bytes]
        /\ bufptr' \in 0 .. BufSize
    BY <1>1 DEF TypeOK
  <2>4. /\ style' \in {"plain", "buffered"}
        /\ kind' \in {"none", "readn", "readnb", "line"}
        /\ n' \in 0 .. MaxInt
        /\ usrbuf' \in Seq(Bytes)
        /\ start' \in Nat
    BY <1>1 DEF TypeOK
  <2> QED
    BY <1>2, <1>3, <2>1, <2>2, <2>3, <2>4, Zenon DEF TypeOK
<1>5. WriterInv' /\ CallInv'
  BY <1>1, <1>2 DEF WriterInv, CallInv
<1>6. StreamConserved'
  BY <1>1, <1>2 DEF StreamConserved, Buffered, TypeOK
<1> QED
  BY <1>4, <1>5, <1>6

\* Every step of the writer and of the reader preserves the invariant.
LEMMA NextIInv == IInv /\ [Next]_vars => IInv'
<1> SUFFICES ASSUME IInv, [Next]_vars PROVE IInv'
  OBVIOUS
<1>1. CASE UNCHANGED vars
  BY <1>1 DEF vars, writer, internal, request, IInv, TypeOK, WriterInv, CallInv,
     StreamConserved, Buffered
<1> QED
  BY <1>1, WriterStep, CallStep, PlainStep, RefillStep, CopyStep, NothingReadStep
     DEF Next, Reader

\* The invariant holds in every state that an execution reaches, fair or not.
LEMMA Invariance == Init /\ [][Next]_vars => []IInv
BY InitIInv, NextIInv, PTL

-----------------------------------------------------------------------------

\* The unread bytes of the buffered reader stay inside its buffer and no counter
\* leaves its range (compsys_helper_read).
THEOREM HelperTypes == Spec => []TypeOK
BY Invariance, PTL DEF IInv, Spec

\* What the invariant says of the bytes on their way: they are a first part of the
\* message.
LEMMA InOrder == IInv => WrittenInOrder
<1> SUFFICES ASSUME IInv PROVE WrittenInOrder
  OBVIOUS
<1> USE HelperAssumption DEF IInv
<1>1. /\ net \in Seq(Bytes) /\ Message \in Seq(Bytes)
      /\ Len(net) \in 0 .. Len(Message)
      /\ \A i \in 1 .. Len(net) : net[i] = Message[i]
  BY DEF TypeOK, WriterInv
<1>2. net = SubSeq(Message, 1, Len(net))
  <2>1. /\ SubSeq(Message, 1, Len(net)) \in Seq(Bytes)
        /\ Len(SubSeq(Message, 1, Len(net))) = Len(net)
        /\ \A i \in 1 .. Len(net) : SubSeq(Message, 1, Len(net))[i] = Message[i]
    BY <1>1
  <2> QED
    BY <1>1, <2>1, SeqEqual
<1>3. wpc = "done" => net = Message
  BY <1>1, SeqEqual DEF WriterInv, TypeOK
<1> QED
  BY <1>2, <1>3 DEF WrittenInOrder

\* writen sends the message in order, nothing twice, and reports success only
\* when all of it was accepted (compsys_helper_writen).
THEOREM WritesInOrder == Spec => []WrittenInOrder
BY Invariance, InOrder, PTL DEF Spec

\* No byte is lost, repeated or delivered out of order, between the calls and in
\* the middle of each of them (readn, readnb, readlineb).
THEOREM NoByteLost == Spec => []StreamConserved
BY Invariance, PTL DEF IInv, Spec

-----------------------------------------------------------------------------
(***************************************************************************)
(* What a call returns.                                                    *)
(***************************************************************************)

\* A line that is being read has not ended yet; without that, nothing is known of
\* the bytes before the one at which readlineb stops.
LineInv ==
  rpc = "reading" /\ kind = "line" => \A i \in 1 .. Len(usrbuf) : usrbuf[i] # Newline

ResultInv == LineInv /\ ShortOnlyAtEnd

\* readn stores no more than it was asked for.
LEMMA PlainStores ==
  ASSUME IInv, ReadPlain
  PROVE  kind # "line" /\ Len(usrbuf') \in Nat /\ Len(usrbuf') <= n
<1> USE HelperAssumption DEF IInv
<1>1. PICK k \in 1 .. Least(Wanted, Len(net) - got) :
        usrbuf' = usrbuf \o SubSeq(net, got + 1, got + k)
  BY DEF ReadPlain
<1>2. k \in Nat /\ k >= 1 /\ k <= Wanted /\ got + k <= Len(net)
  BY <1>1 DEF Least, Wanted, TypeOK
<1>3. SubSeq(net, got + 1, got + k) \in Seq(Bytes) /\ Len(SubSeq(net, got + 1, got + k)) = k
  <2>1. got + 1 \in 1 .. Len(net) /\ got + k \in 1 .. Len(net)
    BY <1>2 DEF TypeOK
  <2> QED
    BY <1>2, <2>1 DEF TypeOK
<1>4. Len(usrbuf') = Len(usrbuf) + k
  BY <1>1, <1>3, Stored
<1>5. kind = "readn"
  BY DEF ReadPlain, CallInv
<1> QED
  BY <1>2, <1>4, <1>5 DEF Wanted, TypeOK

\* A copy out of the buffer stores no more than was asked for, and for readlineb it
\* stores one byte.
LEMMA CopyStores ==
  ASSUME IInv, CopyOut
  PROVE  /\ Len(usrbuf') \in Nat
         /\ kind # "line" => Len(usrbuf') <= n
         /\ kind = "line" => /\ Len(usrbuf') = Len(usrbuf) + 1
                             /\ Len(usrbuf') <= n - 1
         /\ \A i \in 1 .. Len(usrbuf) : usrbuf'[i] = usrbuf[i]
<1> USE HelperAssumption DEF IInv
<1> DEFINE k    == Least(ToInt(Wanted), cnt)
           part == [i \in 1 .. k |-> buf[bufptr + i - 1]]
<1>1. rpc = "reading" /\ cnt > 0 /\ usrbuf' = usrbuf \o part
  BY DEF CopyOut
<1>2. k \in Nat /\ k >= 1 /\ k <= cnt /\ k <= Wanted
  <2>1. Wanted \in Int /\ Wanted >= 1
    BY <1>1 DEF Wanted, CallInv, TypeOK
  <2>2. cnt \in Int /\ cnt >= 1
    BY <1>1 DEF TypeOK
  <2>3. ToInt(Wanted) = Wanted
    <3>1. Wanted <= MaxInt
      BY <1>1 DEF Wanted, CallInv, TypeOK
    <3> QED
      BY <2>1, <3>1, ConversionExact
  <2> QED
    BY <2>1, <2>2, <2>3 DEF Least
<1> HIDE DEF k
<1>3. \A i \in 1 .. k : bufptr + i - 1 \in 0 .. BufSize - 1
  BY <1>1, <1>2 DEF TypeOK
<1>4. part \in Seq(Bytes) /\ Len(part) = k
  BY <1>2, <1>3 DEF TypeOK
<1>5. Len(usrbuf') = Len(usrbuf) + k /\ \A i \in 1 .. Len(usrbuf) : usrbuf'[i] = usrbuf[i]
  BY <1>1, <1>4, Stored
<1>6. kind = "line" => k = 1
  BY <1>2 DEF Wanted, TypeOK
<1>7. Len(usrbuf) \in Nat /\ n \in Nat
  BY DEF TypeOK
<1>8. kind = "line" => Len(usrbuf) < n - 1
  BY <1>1 DEF CallInv
<1>9. kind # "line" => k <= n - Len(usrbuf)
  BY <1>2 DEF Wanted
<1> HIDE DEF IInv
<1> QED
  BY <1>2, <1>5, <1>6, <1>7, <1>8, <1>9

\* The steps that store bytes end the call exactly when it has what it was asked
\* for, and readlineb stores one byte at a time.
LEMMA StoreResult ==
  ASSUME IInv, ResultInv, ReadPlain \/ CopyOut
  PROVE  ResultInv'
<1> DEFINE last == Len(usrbuf')
<1>1. rpc = "reading" /\ kind # "none" /\ UNCHANGED <<kind, n>>
  BY DEF ReadPlain, CopyOut, request, IInv, CallInv
<1>2. \/ rpc' = "returned" /\ ret' = last /\ Complete(usrbuf')
      \/ rpc' = "reading" /\ ~Complete(usrbuf')
  BY <1>1 DEF ReadPlain, CopyOut, Return
<1>3. n \in Nat /\ last \in Nat /\ Len(usrbuf) \in Nat
  BY PlainStores, CopyStores DEF IInv, TypeOK
<1>4. CASE kind = "line"
  <2>1. CopyOut
    BY <1>4, PlainStores
  <2>2. /\ last = Len(usrbuf) + 1 /\ last <= n - 1
        /\ \A i \in 1 .. Len(usrbuf) : usrbuf'[i] = usrbuf[i]
    BY <1>4, <2>1, CopyStores
  <2>3. \A i \in 1 .. Len(usrbuf) : usrbuf[i] # Newline
    BY <1>1, <1>4 DEF ResultInv, LineInv
  <2>4. \A i \in 1 .. last - 1 : usrbuf'[i] # Newline
    BY <1>3, <2>2, <2>3
  <2>5. last > 0 /\ usrbuf' # << >>
    BY <1>3, <2>2
  <2>6. CASE rpc' = "reading" /\ ~Complete(usrbuf')
    <3>1. usrbuf'[last] # Newline
      BY <1>1, <1>4, <2>5, <2>6 DEF Complete
    <3>2. \A i \in 1 .. last : usrbuf'[i] # Newline
      BY <1>3, <2>4, <3>1
    <3> QED
      BY <2>6, <3>2 DEF ResultInv, LineInv, ShortOnlyAtEnd
  <2>7. CASE rpc' = "returned" /\ ret' = last /\ Complete(usrbuf')
    <3>1. last < n - 1 => usrbuf'[last] = Newline
      BY <1>1, <1>3, <1>4, <2>7 DEF Complete
    <3> QED
      BY <1>1, <1>3, <1>4, <2>2, <2>4, <2>5, <2>7, <3>1 DEF ResultInv, LineInv, ShortOnlyAtEnd
  <2> QED
    BY <1>2, <2>6, <2>7
<1>5. CASE kind # "line"
  <2>1. last <= n
    BY <1>5, PlainStores, CopyStores
  <2>2. rpc' = "returned" => ret' = last /\ last >= n
    BY <1>1, <1>2, <1>5 DEF Complete
  <2> QED
    BY <1>1, <1>3, <1>5, <2>1, <2>2 DEF ResultInv, LineInv, ShortOnlyAtEnd
<1> QED
  BY <1>4, <1>5

\* Every step keeps the promise that the results of the calls make; in particular the
\* end of the stream, once reached, stays where it is.
LEMMA ResultStep == IInv /\ ResultInv /\ [Next]_vars => ResultInv'
<1> SUFFICES ASSUME IInv, ResultInv, [Next]_vars PROVE ResultInv'
  OBVIOUS
<1> USE HelperAssumption DEF ResultInv, LineInv, ShortOnlyAtEnd
<1>1. ASSUME UNCHANGED <<rpc, kind, n, usrbuf, ret>>, AtEof => AtEof'
      PROVE  ResultInv'
  BY <1>1
<1>2. CASE Writer
  BY <1>1, <1>2 DEF Writer, WriteSome, WriteInterrupted, WriteReturns, Close, AtEof, Buffered,
     writer, internal, request
<1>3. CASE Call
  <2>1. /\ usrbuf' = << >> /\ Len(usrbuf') = 0
        /\ n' \in Nat
    BY <1>3 DEF Call
  <2>2. \/ rpc' = "reading"
        \/ rpc' = "returned" /\ ret' = 0 /\ ~(n' > (IF kind' = "line" THEN 1 ELSE 0))
    BY <1>3 DEF Call, Return
  <2> QED
    BY <2>1, <2>2
<1>4. CASE ReadPlain \/ CopyOut
  BY <1>4, StoreResult
<1>5. CASE Refill
  BY <1>5 DEF Refill, request
<1>6. CASE ReadInterrupted
  BY <1>6 DEF ReadInterrupted, Asking, request
<1>7. CASE ReadFails
  BY <1>7 DEF ReadFails, Return, Asking
<1>8. CASE ReadEof
  <2>1. /\ rpc = "reading" /\ rpc' = "returned" /\ ret' = Len(usrbuf)
        /\ UNCHANGED <<usrbuf, kind, n>>
    BY <1>8 DEF ReadEof, Return, Asking, request
  <2>2. AtEof'
    BY <1>8 DEF ReadEof, Count, AtEof, Buffered, writer, request, IInv, CallInv, TypeOK
  <2>3. /\ n \in Nat /\ Len(usrbuf) \in Nat
        /\ IF kind = "line" THEN Len(usrbuf) < n - 1 ELSE Len(usrbuf) < n
    <3>1. n \in Nat /\ Len(usrbuf) \in Nat
      BY DEF IInv, TypeOK
    <3> QED
      BY <2>1, <3>1 DEF IInv, CallInv
  <2> QED
    BY <2>1, <2>2, <2>3
<1>9. CASE UNCHANGED vars
  BY <1>1, <1>9 DEF vars, writer, internal, request, AtEof, Buffered
<1> QED
  BY <1>2, <1>3, <1>4, <1>5, <1>6, <1>7, <1>8, <1>9 DEF Next, Reader

\* The results hold in every state that an execution reaches.
LEMMA Results == Init /\ [][Next]_vars => []ResultInv
<1>1. Init => ResultInv
  BY DEF Init, ResultInv, LineInv, ShortOnlyAtEnd
<1> QED
  BY <1>1, Invariance, ResultStep, PTL

\* A read that succeeds has stored what it says, and less than it was asked for only at
\* the end of the stream; readlineb stops at the first end of a line (compsys_helper_readn,
\* readnb and readlineb), for every division of the stream by read().
THEOREM ReadsAreFull == Spec => []ShortOnlyAtEnd
BY Results, PTL DEF ResultInv, Spec

-----------------------------------------------------------------------------
(***************************************************************************)
(* The server of A4.                                                       *)
(***************************************************************************)

\* The server's calls and the other callers' are calls of the helpers, and taking the
\* body changes nothing that the helpers use.
LEMMA ServeStepsHelpers == [ServeNext]_serve_vars => [Next]_vars
BY DEF ServeNext, serve_vars, AnyCall, ReadRequest, Reading, TakeBody, Next

\* What is proved of the helpers holds for the callers that ServerRequest adds.
THEOREM ServerReads ==
  ServeSpec => [](TypeOK /\ WrittenInOrder /\ StreamConserved /\ ShortOnlyAtEnd)
<1>1. ServeInit => Init
  BY DEF ServeInit
<1>2. ServeSpec => Init /\ [][Next]_vars
  BY <1>1, ServeStepsHelpers, PTL DEF ServeSpec
<1>3. Init /\ [][Next]_vars => []WrittenInOrder
  BY InOrder, Invariance, PTL
<1> QED
  BY <1>2, <1>3, Invariance, Results, PTL DEF IInv, ResultInv

Request == HeaderLen + BodyLen

\* The server makes one call, for the header; if its first read() brought the whole
\* request, the buffer is not refilled before that call returns, and not afterwards.
ServerInv ==
  /\ caller \in {"any", "server"}
  /\ caller = "any" => body = None
  /\ caller = "server" =>
       /\ style = "buffered"
       /\ start = 0
       /\ first \in Nat
       /\ first = 0 => got = 0
       /\ body # None => rpc = "returned" /\ kind = "readnb"
       /\ kind = "none" => /\ rpc = "returned" /\ usrbuf = << >>
                           /\ body = None /\ first = 0
       /\ kind # "none" => kind = "readnb" /\ n = HeaderLen
       /\ first >= Request =>
            /\ got = first
            /\ \A i \in 1 .. Request : buf[i - 1] = Message[i]
            /\ rpc = "returned" => ret = HeaderLen

ServeIInv == ServerInv /\ BodyIsWhole

\* While the header of a request that came whole is being read, the buffer is not
\* empty: read() is not called.
LEMMA NotAsking ==
  ASSUME IInv, ServerInv, caller = "server", first >= Request, rpc = "reading"
  PROVE  cnt > 0
<1>1. /\ start = 0 /\ got = first /\ first \in Nat /\ kind # "line" /\ n = HeaderLen
      /\ kind # "none"
  BY RequestAssumption DEF ServerInv, Request, IInv, CallInv
<1>2. Len(usrbuf) < HeaderLen /\ Len(usrbuf) \in Nat
  BY <1>1 DEF IInv, CallInv, TypeOK
<1>3. got = start + Len(usrbuf) + Buffered
  BY DEF IInv, StreamConserved
<1>4. cnt \in Int /\ HeaderLen \in Nat /\ BodyLen \in Nat
  BY RequestAssumption, HelperAssumption DEF IInv, TypeOK
<1>5. ~(cnt > 0) => Buffered = 0
  BY DEF Buffered
<1> QED
  BY <1>1, <1>2, <1>3, <1>4, <1>5 DEF Request

\* The first read() of the server puts the beginning of the message at the beginning
\* of the buffer.
LEMMA FirstRefill ==
  ASSUME IInv, got = 0, Refill, got' >= Request
  PROVE  \A i \in 1 .. Request : buf'[i - 1] = Message[i]
<1> USE HelperAssumption, RequestAssumption
<1>1. PICK k \in 1 .. Least(BufSize, Len(net) - got) :
        /\ buf' = [i \in 0 .. BufSize - 1 |-> IF i < k THEN net[got + i + 1] ELSE buf[i]]
        /\ got' = got + k
  BY DEF Refill
<1>2. k \in Nat /\ k <= BufSize /\ k <= Len(net) /\ Request <= k /\ Request \in Nat
  <2>1. Len(net) \in Nat
    BY DEF IInv, TypeOK
  <2> QED
    BY <1>1, <2>1 DEF Least, Request
<1>3. ASSUME NEW i \in 1 .. Request PROVE buf'[i - 1] = Message[i]
  <2>1. i - 1 \in 0 .. BufSize - 1 /\ i - 1 < k /\ got + (i - 1) + 1 = i
    BY <1>2
  <2>2. i \in 1 .. Len(net)
    BY <1>2 DEF IInv, TypeOK
  <2>3. net[i] = Message[i]
    BY <2>2 DEF IInv, WriterInv
  <2> QED
    BY <1>1, <2>1, <2>3
<1> QED
  BY <1>3

\* Every read() of the server keeps its invariant.
LEMMA ServerReading ==
  ASSUME IInv, IInv', ServerInv, caller = "server", Reading
  PROVE  ServerInv'
<1> USE HelperAssumption, RequestAssumption
<1>1. /\ Reader /\ rpc = "reading" /\ UNCHANGED <<caller, body, style, start, kind, n>>
      /\ first' = IF first = 0 THEN got' ELSE first
  BY DEF Reading, Reader, ReadPlain, Refill, CopyOut, ReadInterrupted, ReadFails, ReadEof,
     Asking, request
<1>2. kind = "readnb" /\ n = HeaderLen /\ body = None /\ style = "buffered" /\ start = 0
  BY <1>1 DEF ServerInv
<1>3. first \in Nat /\ got \in Nat /\ got' \in Nat /\ (first = 0 => got = 0)
  BY DEF ServerInv, IInv, TypeOK
<1>4. CASE first >= Request
  <2>1. cnt > 0
    BY <1>1, <1>4, NotAsking
  <2>2. CopyOut
    BY <1>1, <1>2, <2>1 DEF Reader, ReadPlain, Refill, ReadInterrupted, ReadFails, ReadEof,
       Asking, IInv, TypeOK
  <2>3. got' = got /\ buf' = buf
    BY <2>2 DEF CopyOut
  <2>4. rpc' = "returned" => ret' = HeaderLen
    <3>1. rpc' = "returned" => ret' = Len(usrbuf') /\ Complete(usrbuf')
      BY <1>1, <2>2 DEF CopyOut, Return
    <3>2. Len(usrbuf') \in Nat /\ Len(usrbuf') <= n
      BY <1>2, <2>2, CopyStores
    <3> QED
      BY <1>2, <3>1, <3>2 DEF Complete
  <2>5. first' = first
    BY <1>1, <1>4 DEF Request
  <2>6. got' = first' /\ \A i \in 1 .. Request : buf'[i - 1] = Message[i]
    BY <1>4, <2>3, <2>5 DEF ServerInv
  <2> QED
    BY <1>1, <1>2, <1>3, <2>4, <2>5, <2>6 DEF ServerInv
<1>5. CASE ~(first >= Request) /\ first # 0
  BY <1>1, <1>2, <1>3, <1>5 DEF ServerInv
<1>6. CASE first = 0
  <2>1. first' = got' /\ got = 0
    BY <1>1, <1>3, <1>6
  <2>2. CASE Refill
    <3>1. rpc' = "reading"
      BY <1>1, <2>2 DEF Refill
    <3>2. got' >= Request => \A i \in 1 .. Request : buf'[i - 1] = Message[i]
      BY <2>1, <2>2, FirstRefill
    <3> QED
      BY <1>1, <1>2, <1>3, <2>1, <3>1, <3>2 DEF ServerInv
  <2>3. CASE ~Refill
    <3>1. got' = 0
      BY <1>1, <1>2, <2>1, <2>3 DEF Reader, ReadPlain, CopyOut, ReadInterrupted, ReadFails,
         ReadEof
    <3>2. ~(first' >= Request)
      BY <2>1, <3>1 DEF Request
    <3> QED
      BY <1>1, <1>2, <1>3, <2>1, <3>1, <3>2 DEF ServerInv
  <2> QED
    BY <2>2, <2>3
<1> QED
  BY <1>4, <1>5, <1>6

\* The slice behind the header is the body.
LEMMA SliceIsBody ==
  ASSUME \A i \in 1 .. Request : buf[i - 1] = Message[i]
  PROVE  Slice(HeaderLen, BodyLen) = SubSeq(Message, HeaderLen + 1, HeaderLen + BodyLen)
<1> USE HelperAssumption, RequestAssumption
<1> DEFINE part == SubSeq(Message, HeaderLen + 1, HeaderLen + BodyLen)
<1>1. part = [i \in 1 .. BodyLen |-> Message[HeaderLen + i]]
  OBVIOUS
<1>2. ASSUME NEW i \in 1 .. BodyLen PROVE buf[HeaderLen + i - 1] = Message[HeaderLen + i]
  <2>1. HeaderLen + i \in 1 .. Request
    BY DEF Request
  <2> QED
    BY <2>1
<1> QED
  BY <1>1, <1>2 DEF Slice

\* Every step of the server, of the other callers and of the writer keeps the invariant.
LEMMA ServeStep == IInv /\ IInv' /\ ServeIInv /\ [ServeNext]_serve_vars => ServeIInv'
<1> SUFFICES ASSUME IInv, IInv', ServerInv, BodyIsWhole, [ServeNext]_serve_vars
             PROVE  ServerInv' /\ BodyIsWhole'
  BY DEF ServeIInv
<1> USE HelperAssumption, RequestAssumption
<1>1. CASE Writer /\ UNCHANGED <<caller, body, first>>
  <2>1. UNCHANGED <<caller, body, first, style, start, got, rpc, kind, usrbuf, n, buf, ret>>
    BY <1>1 DEF Writer, WriteSome, WriteInterrupted, WriteReturns, Close, internal, request
  <2> QED
    BY <2>1 DEF ServerInv, BodyIsWhole
<1>2. CASE AnyCall
  BY <1>2 DEF AnyCall, ServerInv, BodyIsWhole
<1>3. CASE ReadRequest
  <2>1. /\ caller = "server" /\ kind = "none" /\ kind' = "readnb" /\ n' = HeaderLen
        /\ usrbuf' = << >> /\ start' = start + Len(usrbuf)
        /\ UNCHANGED <<caller, body, first, style, got>>
    BY <1>3 DEF ReadRequest, Call
  <2>2. body = None /\ first = 0 /\ start' = 0
    BY <2>1 DEF ServerInv
  <2>3. ~(first >= Request)
    BY <2>2 DEF Request
  <2> QED
    BY <2>1, <2>2, <2>3 DEF ServerInv, BodyIsWhole
<1>4. CASE Reading
  <2>1. body' = body /\ caller' = caller /\ rpc = "reading"
    BY <1>4 DEF Reading, Reader, ReadPlain, Refill, CopyOut, ReadInterrupted, ReadFails,
       ReadEof, Asking
  <2>2. body = None
    BY <2>1 DEF ServerInv
  <2>3. CASE caller = "server"
    BY <1>4, <2>1, <2>2, <2>3, ServerReading DEF BodyIsWhole
  <2>4. CASE caller = "any"
    BY <2>1, <2>2, <2>4 DEF ServerInv, BodyIsWhole
  <2> QED
    BY <2>3, <2>4 DEF ServerInv
<1>5. CASE TakeBody
  <2>1. /\ caller = "server" /\ kind = "readnb" /\ rpc = "returned" /\ body = None
        /\ UNCHANGED <<vars, caller, first>>
    BY <1>5 DEF TakeBody
  <2>2. UNCHANGED <<style, start, got, rpc, kind, usrbuf, n, buf, ret>>
    BY <2>1 DEF vars, internal, request
  <2>3. ServerInv'
    BY <2>1, <2>2 DEF ServerInv
  <2>4. first >= Request => body' = Slice(HeaderLen, BodyLen)
    BY <1>5, <2>1 DEF TakeBody, ServerInv
  <2>5. first >= Request => \A i \in 1 .. Request : buf[i - 1] = Message[i]
    BY <2>1 DEF ServerInv
  <2>6. BodyIsWhole'
    BY <2>1, <2>4, <2>5, SliceIsBody DEF BodyIsWhole, Request
  <2> QED
    BY <2>3, <2>6
<1>6. CASE UNCHANGED serve_vars
  BY <1>6 DEF serve_vars, vars, internal, request, ServerInv, BodyIsWhole
<1> QED
  BY <1>1, <1>2, <1>3, <1>4, <1>5, <1>6 DEF ServeNext

\* A request that the first read() brought whole is taken as it was sent, whatever
\* follows it on the connection and whenever (peer.c:643 and :650), for every header,
\* body and buffer that holds them.
THEOREM BodyFound == ServeSpec => []BodyIsWhole
<1>1. ServeInit => Init /\ ServeIInv
  BY RequestAssumption DEF ServeInit, Init, ServeIInv, ServerInv, BodyIsWhole, Request
<1>2. ServeSpec => []IInv
  BY <1>1, ServeStepsHelpers, Invariance, PTL DEF ServeSpec
<1>3. ServeIInv => BodyIsWhole
  BY DEF ServeIInv
<1> QED
  BY <1>1, <1>2, <1>3, ServeStep, PTL DEF ServeSpec

=============================================================================
