------------------------------ MODULE Retrieve ------------------------------
(***************************************************************************)
(* The client side of a file transfer of A4: send_message(COMMAND_RETREIVE)*)
(* in peer.c.  The file arrives in blocks, in any order, each with its own *)
(* hash and the hash of the whole file; the client writes every block into *)
(* the output file at its offset and compares the result with the hash of  *)
(* the whole file at the end.                                              *)
(*                                                                         *)
(* The other peer is external: it sends the blocks of the file, but it may *)
(* also repeat a block, announce another number of blocks, damage the hash *)
(* of the file or a payload, refuse, close the connection at any point, or *)
(* stop sending without closing it.  No read of the client looks at how    *)
(* much it got: at the end of the stream the old contents of msg_buf are   *)
(* parsed.  A hash is modelled by the data it is the hash of; a hash that  *)
(* was damaged is the hash of no file.  A file is a sequence of bytes.     *)
(***************************************************************************)
EXTENDS Integers, Sequences

CONSTANTS Bytes,      \* the bytes of a file
          Originals,  \* files that the other peer may hold
          OldFiles,   \* what the output file may contain beforehand
          Nul,        \* the byte at which fputs stops
          BlockLen    \* bytes in a full block: MAX_MSG_LEN - REPLY_HEADER_LEN

\* What is read where nothing was sent, and a hash that was damaged: not a file.
Garbage == <<"garbage">>

ASSUME RetrieveAssumption ==
  /\ Originals \cup OldFiles \subseteq Seq(Bytes)
  /\ Nul \in Bytes
  /\ Garbage \notin Seq(Bytes)
  /\ BlockLen \in Nat \ {0}

VARIABLES
  link,           \* "open", "closed" by the other peer, or "silent"
  original, old,  \* the file that the other peer holds, the old output file
  writable,       \* the output file can be opened for writing
  file,           \* the output file
  pc,
  b, ref_count, ref_hash,  \* loop counter and the values of the first block
  reply,          \* header and payload of the reply being processed
  result,         \* "none", "ok", the message of a failed check, or "crash"
  received,       \* history: blocks that were written
  honest          \* history: every reply so far was what the protocol demands

peer == <<original, old, writable>>
vars == <<link, peer, file, pc, b, ref_count, ref_hash, reply, result, received, honest>>

BlockCount(f) == (Len(f) + BlockLen - 1) \div BlockLen
Least(m, n) == IF m < n THEN m ELSE n

\* Block n of file f, counted from 0.
Block(f, n) == SubSeq(f, n * BlockLen + 1, Least((n + 1) * BlockLen, Len(f)))

NoReply == [status |-> "OK", this_block |-> 0, block_count |-> 0,
            block_hash |-> << >>, total_hash |-> << >>, payload |-> << >>]

Init ==
  /\ link = "open"
  /\ original \in Originals
  /\ old \in OldFiles
  /\ writable \in BOOLEAN
  /\ file = old
  /\ pc = "create"
  /\ b = 0
  /\ ref_count = 0
  /\ ref_hash = << >>
  /\ reply = NoReply
  /\ result = "none"
  /\ received = {}
  /\ honest = TRUE

-----------------------------------------------------------------------------
(***************************************************************************)
(* The replies that the other peer may send.                               *)
(***************************************************************************)
Correct(n) ==
  [status |-> "OK", this_block |-> n, block_count |-> BlockCount(original),
   block_hash |-> Block(original, n), total_hash |-> original,
   payload |-> Block(original, n)]

Replies ==
  LET correct == { Correct(n) : n \in 0 .. BlockCount(original) - 1 }
  IN  correct
      \cup { [r EXCEPT !.status = "BAD_REQUEST"] : r \in correct }
      \cup { [r EXCEPT !.block_count = c] : r \in correct, c \in 0 .. BlockCount(original) }
      \cup { [r EXCEPT !.total_hash = Garbage] : r \in correct }
      \cup { [r EXCEPT !.payload = [i \in DOMAIN @ |-> Nul]] : r \in correct }

-----------------------------------------------------------------------------
Return(message) == result' = message /\ pc' = "returned"

\* Before it connects, send_message creates an output file that does not exist;
\* if that fails it calls fclose on a null pointer.  (An old file that is empty
\* stands for one that does not exist.)
CreateOutput ==
  /\ pc = "create"
  /\ IF old = << >> /\ ~writable THEN Return("crash")
                                 ELSE pc' = "header" /\ UNCHANGED result
  /\ UNCHANGED <<link, peer, file, b, ref_count, ref_hash, reply, received, honest>>

\* The other peer closes the connection (one that could not be made, which nobody
\* checks, reads the same), or stops sending and keeps it open.  A peer that runs
\* this very program does the latter: send_message_reponse sends 36 bytes of data
\* without a header, and the connection is never closed.
PeerCloses ==
  /\ link = "open"
  /\ link' = "closed"
  /\ UNCHANGED <<peer, file, pc, b, ref_count, ref_hash, reply, result, received, honest>>

PeerStops ==
  /\ link = "open"
  /\ link' = "silent"
  /\ UNCHANGED <<peer, file, pc, b, ref_count, ref_hash, reply, result, received, honest>>

\* The header r is parsed.  The first one fixes how many blocks are to come and
\* what the whole file is to be; if none is, the loop is skipped.
Parse(r) ==
  /\ reply' = r
  /\ IF b = 0 THEN ref_count' = r.block_count /\ ref_hash' = r.total_hash
              ELSE UNCHANGED <<ref_count, ref_hash>>
  /\ pc' = IF b = 0 /\ r.block_count = 0 THEN "verify" ELSE "check"

\* Read the header of the next reply.
ReadHeader ==
  /\ pc = "header"
  /\ link = "open"
  /\ \E r \in Replies :
       /\ Parse(r)
       /\ honest' = (honest /\ r = Correct(r.this_block) /\ r.this_block \notin received)
  /\ UNCHANGED <<link, peer, file, b, result, received>>

\* What the fields of a header may be when the stream ends before or inside it:
\* the part that arrived, and behind it what msg_buf held there: the request (its
\* total hash is then always wrong), or the last payload over the last header.
Stale(s, c, h) ==
  [reply EXCEPT !.status = s, !.block_count = c, !.total_hash = h, !.payload = Garbage]

CutShort ==
  { Stale(s, c, h) :
      s \in {"OK", "garbage"},
      c \in {0, ref_count, BlockCount(original), BlockCount(original) + 1},
      h \in IF b = 0 THEN {Garbage} ELSE {ref_hash, Garbage} }

HeaderAtEof ==
  /\ pc = "header"
  /\ link = "closed"
  /\ \E r \in CutShort : Parse(r)
  /\ honest' = FALSE
  /\ UNCHANGED <<link, peer, file, b, result, received>>

\* The checks of the header, in their order; each failure returns.
CheckHeader ==
  /\ pc = "check"
  /\ \/ /\ ref_count # reply.block_count
        /\ Return("inconsistent block counts")
     \/ /\ ref_count = reply.block_count
        /\ ref_hash # reply.total_hash
        /\ Return("inconsistent total hashes")
     \/ /\ ref_count = reply.block_count
        /\ ref_hash = reply.total_hash
        /\ reply.status # "OK"
        /\ Return("unexpected status")
     \/ /\ ref_count = reply.block_count
        /\ ref_hash = reply.total_hash
        /\ reply.status = "OK"
        /\ pc' = "payload"
        /\ UNCHANGED result
  /\ UNCHANGED <<link, peer, file, b, ref_count, ref_hash, reply, received, honest>>

\* Read the payload and compare it with the hash of the block.
CheckPayload ==
  /\ pc = "payload"
  /\ link = "open"
  /\ IF reply.payload # reply.block_hash
       THEN Return("payload hash does not match")
       ELSE pc' = "write" /\ UNCHANGED result
  /\ UNCHANGED <<link, peer, file, b, ref_count, ref_hash, reply, received, honest>>

\* The stream ends before or inside the payload: what is in msg_buf does not have
\* the hash of the block.  If the length was not read either, payload[] may be too
\* large for the stack.
PayloadAtEof ==
  /\ pc = "payload"
  /\ link = "closed"
  /\ \/ Return("payload hash does not match")
     \/ reply.payload = Garbage /\ Return("crash")
  /\ honest' = FALSE
  /\ UNCHANGED <<link, peer, file, b, ref_count, ref_hash, reply, received>>

\* fputs writes a string: it stops at the first NUL byte.
Written(payload) ==
  LET nuls == { i \in DOMAIN payload : payload[i] = Nul }
  IN  IF nuls = {} THEN payload
      ELSE SubSeq(payload, 1, (CHOOSE i \in nuls : \A j \in nuls : i <= j) - 1)

\* The file f after data was written at the given offset; a gap reads as NUL.
Overwrite(f, offset, data) ==
  IF data = << >> THEN f
  ELSE [i \in 1 .. (IF Len(f) > offset + Len(data) THEN Len(f) ELSE offset + Len(data)) |->
          IF i > offset /\ i <= offset + Len(data) THEN data[i - offset]
          ELSE IF i <= Len(f) THEN f[i] ELSE Nul]

\* Faulty variants, for mutation testing: the blocks are written in the order of
\* arrival, or a block that is already there does not count.
WriteInArrivalOrder ==
  /\ pc = "write"
  /\ writable
  /\ file' = Overwrite(file, b * BlockLen, Written(reply.payload))
  /\ received' = received \cup {reply.this_block}
  /\ b' = b + 1
  /\ pc' = IF b + 1 < ref_count THEN "header" ELSE "verify"
  /\ UNCHANGED <<link, peer, ref_count, ref_hash, reply, result, honest>>

WriteNewOnly ==
  /\ pc = "write"
  /\ writable
  /\ file' = Overwrite(file, reply.this_block * BlockLen, Written(reply.payload))
  /\ received' = received \cup {reply.this_block}
  /\ b' = IF reply.this_block \in received THEN b ELSE b + 1
  /\ pc' = IF b' < ref_count THEN "header" ELSE "verify"
  /\ UNCHANGED <<link, peer, ref_count, ref_hash, reply, result, honest>>

WriteBlock ==
  /\ pc = "write"
  /\ writable
  /\ file' = Overwrite(file, reply.this_block * BlockLen, Written(reply.payload))
  /\ received' = received \cup {reply.this_block}
  /\ b' = b + 1
  /\ pc' = IF b + 1 < ref_count THEN "header" ELSE "verify"
  /\ UNCHANGED <<link, peer, ref_count, ref_hash, reply, result, honest>>

\* The output file cannot be opened: a message, and then fseek on a null pointer.
WriteFails ==
  /\ pc = "write"
  /\ ~writable
  /\ Return("crash")
  /\ UNCHANGED <<link, peer, file, b, ref_count, ref_hash, reply, received, honest>>

\* Faulty variant: the whole file is not compared with its hash.
VerifyNothing ==
  /\ pc = "verify"
  /\ Return("ok")
  /\ UNCHANGED <<link, peer, file, b, ref_count, ref_hash, reply, received, honest>>

\* All blocks have arrived: compare the output file with the announced one.
Verify ==
  /\ pc = "verify"
  /\ Return(IF file = reply.total_hash THEN "ok" ELSE "file hash does not match")
  /\ UNCHANGED <<link, peer, file, b, ref_count, ref_hash, reply, received, honest>>

Client ==
  \/ CreateOutput
  \/ ReadHeader   \/ HeaderAtEof \/ CheckHeader
  \/ CheckPayload \/ PayloadAtEof
  \/ WriteBlock   \/ WriteFails  \/ Verify

Next == Client \/ PeerCloses \/ PeerStops

\* The client runs whenever its read() has something to return.  Nothing makes the
\* other peer close the connection, and nothing keeps it from falling silent.
Spec == Init /\ [][Next]_vars /\ WF_vars(Client)

-----------------------------------------------------------------------------
(***************************************************************************)
(* Properties.                                                             *)
(***************************************************************************)

\* Whatever the other peer repeats, leaves out or damages, and wherever it closes
\* and leaves stale bytes in msg_buf to be parsed, a transfer that ends well has
\* produced the file of the other peer and nothing else.
AcceptedIsOriginal == result = "ok" => file = original

IsText(f) == \A i \in DOMAIN f : f[i] # Nul

\* A peer that keeps to the protocol is believed, whatever the order in which it
\* sends the blocks: the transfer of a text file ends well if the output file
\* did not exist or was no longer than the new one.
OrderDoesNotMatter ==
  honest /\ writable /\ pc = "returned" /\ IsText(original) /\ Len(old) <= Len(original)
    => result = "ok"

\* Every transfer comes to an end, also with a peer that repeats blocks for ever or
\* closes in the middle of a reply; only a peer that falls silent without closing
\* blocks the client, because no read has a timeout.
TransferEnds == <>(pc = "returned" \/ link = "silent")

=============================================================================
