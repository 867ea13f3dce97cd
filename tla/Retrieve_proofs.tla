-------------------------- MODULE Retrieve_proofs --------------------------
(***************************************************************************)
(* Proofs about the client side of a file transfer of A4, for all files,   *)
(* every length of a block and every behaviour of the other peer: only the *)
(* file that was announced is accepted, and from a peer that keeps to the  *)
(* protocol it is, in whatever order the blocks arrive.                    *)
(***************************************************************************)
EXTENDS Retrieve, FiniteSetTheorems, SequenceTheorems, WellFoundedInduction, TLAPS

-----------------------------------------------------------------------------
(***************************************************************************)
(* Blocks.                                                                 *)
(***************************************************************************)
Blocks == 0 .. BlockCount(original) - 1

\* The bytes of block m.
Span(m) == m * BlockLen + 1 .. Least((m + 1) * BlockLen, Len(original))

\* Quotients: the number q of blocks of length c that hold len bytes.
LEMMA CeilingBounds ==
  ASSUME NEW len \in Nat, NEW c \in Nat \ {0}
  PROVE  LET q == (len + c - 1) \div c
         IN  q \in Nat /\ q * c <= len + c - 1 /\ len <= q * c
OBVIOUS

\* More blocks hold no fewer bytes.
LEMMA ProductMonotone ==
  ASSUME NEW a \in Nat, NEW m \in Nat, NEW c \in Nat, a <= m
  PROVE  a * c \in Nat /\ m * c \in Nat /\ a * c <= m * c
OBVIOUS

\* One more block holds one more length of a block.
LEMMA NextProduct ==
  ASSUME NEW a \in Nat, NEW c \in Nat
  PROVE  (a + 1) * c = a * c + c /\ a * c \in Nat
OBVIOUS

\* The block of a byte, and its bounds.
LEMMA QuotientBounds ==
  ASSUME NEW i \in Nat, NEW c \in Nat \ {0}
  PROVE  LET q == i \div c
         IN  q \in Nat /\ q * c <= i /\ i < q * c + c
OBVIOUS

\* Where block n of a file lies, and what it holds.
LEMMA BlockFacts ==
  ASSUME NEW f \in Seq(Bytes), NEW n \in 0 .. BlockCount(f) - 1
  PROVE  /\ n * BlockLen \in Nat
         /\ Block(f, n) \in Seq(Bytes)
         /\ Len(Block(f, n)) = Least((n + 1) * BlockLen, Len(f)) - n * BlockLen
         /\ n * BlockLen + Len(Block(f, n)) <= Len(f)
         /\ \A i \in 1 .. Len(Block(f, n)) : Block(f, n)[i] = f[n * BlockLen + i]
<1> DEFINE o == n * BlockLen
           e == Least((n + 1) * BlockLen, Len(f))
<1>1. BlockLen \in Nat \ {0} /\ BlockLen > 0 /\ Len(f) \in Nat
  BY RetrieveAssumption
<1>2. BlockCount(f) \in Nat /\ BlockCount(f) * BlockLen <= Len(f) + BlockLen - 1
  BY <1>1, CeilingBounds DEF BlockCount
<1>3. n \in Nat /\ n + 1 <= BlockCount(f)
  BY <1>2
<1>4. (n + 1) * BlockLen <= BlockCount(f) * BlockLen
  BY <1>1, <1>2, <1>3, ProductMonotone
<1>5. (n + 1) * BlockLen = o + BlockLen /\ o \in Nat
  BY <1>1, <1>3, NextProduct
<1>6. BlockCount(f) * BlockLen \in Nat
  BY <1>1, <1>2, ProductMonotone
<1>7. o \in Nat /\ e \in Nat /\ o + 1 <= e /\ e <= Len(f)
  <2> HIDE DEF o
  <2> QED
    BY <1>1, <1>2, <1>4, <1>5, <1>6 DEF Least
<1> HIDE DEF o, e
<1>8. \A i \in o + 1 .. e : f[i] \in Bytes
  BY <1>7
<1>9. /\ SubSeq(f, o + 1, e) \in Seq(Bytes)
      /\ Len(SubSeq(f, o + 1, e)) = e - (o + 1) + 1
      /\ \A i \in 1 .. e - (o + 1) + 1 : SubSeq(f, o + 1, e)[i] = f[o + 1 + i - 1]
  BY <1>7, <1>8, SubSeqProperties
<1>10. Block(f, n) = SubSeq(f, o + 1, e)
  BY DEF Block, o, e
<1>11. \A i \in 1 .. Len(Block(f, n)) : f[o + 1 + i - 1] = f[o + i]
  BY <1>7, <1>9, <1>10
<1>12. /\ o \in Nat
       /\ Block(f, n) \in Seq(Bytes)
       /\ Len(Block(f, n)) = e - o
       /\ o + Len(Block(f, n)) <= Len(f)
       /\ \A i \in 1 .. Len(Block(f, n)) : Block(f, n)[i] = f[o + i]
  BY <1>7, <1>9, <1>10, <1>11
<1> QED
  BY <1>12 DEF o, e

\* Every byte of a file lies in one of its blocks.
LEMMA BlockOfByte ==
  ASSUME original \in Seq(Bytes), NEW i \in 1 .. Len(original)
  PROVE  \E m \in Blocks : i \in Span(m)
<1> DEFINE m == (i - 1) \div BlockLen
<1>1. BlockLen \in Nat \ {0} /\ Len(original) \in Nat /\ i - 1 \in Nat
  BY RetrieveAssumption
<1>2. m \in Nat /\ m * BlockLen <= i - 1 /\ i - 1 < m * BlockLen + BlockLen
  BY <1>1, QuotientBounds
<1>3. BlockCount(original) \in Nat /\ Len(original) <= BlockCount(original) * BlockLen
  BY <1>1, CeilingBounds DEF BlockCount
<1> HIDE DEF m
<1>4. (m + 1) * BlockLen = m * BlockLen + BlockLen /\ m * BlockLen \in Nat
  BY <1>1, <1>2, NextProduct
<1>5. m < BlockCount(original)
  <2>1. SUFFICES ASSUME BlockCount(original) <= m PROVE FALSE
    BY <1>2, <1>3
  <2>2. BlockCount(original) * BlockLen <= m * BlockLen /\ BlockCount(original) * BlockLen \in Nat
    BY <1>1, <1>2, <1>3, <2>1, ProductMonotone
  <2> QED
    BY <1>1, <1>2, <1>3, <1>4, <2>2
<1>6. m \in Blocks
  BY <1>2, <1>3, <1>5 DEF Blocks
<1>7. i \in m * BlockLen + 1 .. (m + 1) * BlockLen /\ i <= Len(original)
  BY <1>1, <1>2, <1>4
<1>8. i \in Span(m)
  BY <1>1, <1>4, <1>7 DEF Span, Least
<1> QED
  BY <1>6, <1>8

\* A set of natural numbers has a least one.
LEMMA LeastNat ==
  ASSUME NEW S \in SUBSET Nat, S # {}
  PROVE  \E m \in S : \A k \in S : m <= k
<1>1. IsWellFoundedOn(OpToRel(<, Nat), Nat)
  BY NatLessThanWellFounded
<1>2. PICK m \in S : \A k \in S : ~(<<k, m>> \in OpToRel(<, Nat))
  BY <1>1, WFMin
<1>3. \A k \in S : ~(k < m)
  BY <1>2 DEF OpToRel
<1> QED
  BY <1>3

\* What fputs writes of a payload: bytes, and all of them if none is NUL.
LEMMA WrittenFacts ==
  ASSUME NEW p \in Seq(Bytes)
  PROVE  Written(p) \in Seq(Bytes) /\ (IsText(p) => Written(p) = p)
<1> DEFINE nuls == { i \in DOMAIN p : p[i] = Nul }
           stop == CHOOSE i \in nuls : \A j \in nuls : i <= j
<1>1. CASE nuls = {}
  BY <1>1 DEF Written
<1>2. CASE nuls # {}
  <2>1. nuls \subseteq Nat /\ nuls \subseteq DOMAIN p
    OBVIOUS
  <2> HIDE DEF nuls
  <2>2. \E i \in nuls : \A j \in nuls : i <= j
    BY <1>2, <2>1, LeastNat
  <2>3. stop \in nuls
    BY <2>2
  <2> HIDE DEF stop
  <2>4. stop - 1 \in Nat /\ stop - 1 <= Len(p)
    BY <2>1, <2>3
  <2>5. \A i \in 1 .. stop - 1 : p[i] \in Bytes
    BY <2>4
  <2>6. SubSeq(p, 1, stop - 1) \in Seq(Bytes)
    BY <2>4, <2>5, SubSeqProperties
  <2>7. Written(p) = SubSeq(p, 1, stop - 1)
    BY <1>2 DEF Written, nuls, stop
  <2>8. ~IsText(p)
    BY <1>2 DEF IsText, nuls
  <2> QED
    BY <2>6, <2>7, <2>8
<1> QED
  BY <1>1, <1>2

\* What a file holds after a write at an offset.
LEMMA OverwriteFacts ==
  ASSUME NEW f \in Seq(Bytes), NEW d \in Seq(Bytes), NEW o \in Nat
  PROVE  /\ Overwrite(f, o, d) \in Seq(Bytes)
         /\ Len(Overwrite(f, o, d)) >= Len(f)
         /\ Len(Overwrite(f, o, d)) = Len(f) \/ Len(Overwrite(f, o, d)) = o + Len(d)
         /\ Len(d) > 0 => Len(Overwrite(f, o, d)) >= o + Len(d)
         /\ \A i \in 1 .. Len(f) :
              i <= o \/ i > o + Len(d) => Overwrite(f, o, d)[i] = f[i]
         /\ \A i \in o + 1 .. o + Len(d) : Overwrite(f, o, d)[i] = d[i - o]
<1> DEFINE size == IF Len(f) > o + Len(d) THEN Len(f) ELSE o + Len(d)
           g == [i \in 1 .. size |->
                   IF i > o /\ i <= o + Len(d) THEN d[i - o]
                   ELSE IF i <= Len(f) THEN f[i] ELSE Nul]
<1>1. Nul \in Bytes
  BY RetrieveAssumption
<1>2. CASE d = << >>
  <2>1. Overwrite(f, o, d) = f
    BY <1>2 DEF Overwrite
  <2>2. Len(d) = 0 /\ o + 1 .. o + Len(d) = {}
    BY <1>2
  <2> QED
    BY <2>1, <2>2
<1>3. CASE d # << >>
  <2>1. Overwrite(f, o, d) = g
    BY <1>3 DEF Overwrite
  <2>2. size \in Nat /\ size >= Len(f) /\ size >= o + Len(d)
        /\ (size = Len(f) \/ size = o + Len(d))
    OBVIOUS
  <2>3. \A i \in 1 .. size : g[i] \in Bytes
    BY <1>1
  <2> HIDE DEF size
  <2>4. g \in Seq(Bytes) /\ Len(g) = size
    BY <2>2, <2>3
  <2>5. \A i \in 1 .. Len(f) : i <= o \/ i > o + Len(d) => g[i] = f[i]
    BY <2>2
  <2>6. \A i \in o + 1 .. o + Len(d) : g[i] = d[i - o]
    BY <2>2
  <2> HIDE DEF g
  <2> QED
    BY <2>1, <2>2, <2>4, <2>5, <2>6
<1> QED
  BY <1>2, <1>3

-----------------------------------------------------------------------------
(***************************************************************************)
(* Whatever the other peer does.  A transfer ends well only if the output  *)
(* file is what the total hash of the last reply stands for; so it must be *)
(* known that this hash is the one of the original or of no file at all,   *)
(* and that only bytes were written: a payload that was never read does    *)
(* not pass the check of its hash.                                         *)
(***************************************************************************)
Fields ==
  [status : {"OK", "BAD_REQUEST", "garbage"}, this_block : Nat, block_count : Nat,
   block_hash : Seq(Bytes), total_hash : Seq(Bytes) \cup {Garbage},
   payload : Seq(Bytes) \cup {Garbage}]

TypeInv ==
  /\ original \in Seq(Bytes)
  /\ old \in Seq(Bytes)
  /\ file \in Seq(Bytes)
  /\ b \in Nat
  /\ ref_count \in Nat
  /\ reply \in Fields

HashInv ==
  /\ b > 0 => ref_hash \in {original, Garbage}
  /\ pc \in {"check", "payload", "write", "verify"} =>
       ref_hash \in {original, Garbage} /\ reply.total_hash \in {original, Garbage}
  /\ pc = "write" => reply.payload = reply.block_hash
  /\ pc # "returned" => result = "none"

AcceptInv == TypeInv /\ HashInv /\ AcceptedIsOriginal

\* The number of blocks of a file.
LEMMA CountIsNat ==
  ASSUME NEW f \in Seq(Bytes) PROVE BlockCount(f) \in Nat
<1>1. BlockLen \in Nat \ {0} /\ Len(f) \in Nat
  BY RetrieveAssumption
<1> QED
  BY <1>1, CeilingBounds DEF BlockCount

\* A reply of the other peer has the number of a block of the file and, damaged or
\* not, the hash of the file or of none.
LEMMA ReplyFacts ==
  ASSUME original \in Seq(Bytes), NEW r \in Replies
  PROVE  r \in Fields /\ r.total_hash \in {original, Garbage} /\ r.this_block \in Blocks
<1> DEFINE correct == { Correct(n) : n \in 0 .. BlockCount(original) - 1 }
<1>1. BlockCount(original) \in Nat
  BY CountIsNat
<1>2. ASSUME NEW c \in correct
      PROVE  c \in Fields /\ c.total_hash = original /\ c.this_block \in Blocks
  <2>1. PICK n \in 0 .. BlockCount(original) - 1 : c = Correct(n)
    OBVIOUS
  <2>2. Block(original, n) \in Seq(Bytes)
    BY BlockFacts
  <2> QED
    BY <1>1, <2>1, <2>2 DEF Correct, Fields, Blocks
<1>3. \/ r \in correct
      \/ \E c \in correct : r = [c EXCEPT !.status = "BAD_REQUEST"]
      \/ \E c \in correct : \E k \in 0 .. BlockCount(original) : r = [c EXCEPT !.block_count = k]
      \/ \E c \in correct : r = [c EXCEPT !.total_hash = Garbage]
      \/ \E c \in correct : r = [c EXCEPT !.payload = [i \in DOMAIN c.payload |-> Nul]]
  <2> HIDE DEF correct
  <2>1. r \in correct
      \cup { [c EXCEPT !.status = "BAD_REQUEST"] : c \in correct }
      \cup { [c EXCEPT !.block_count = k] : c \in correct, k \in 0 .. BlockCount(original) }
      \cup { [c EXCEPT !.total_hash = Garbage] : c \in correct }
      \cup { [c EXCEPT !.payload = [i \in DOMAIN @ |-> Nul]] : c \in correct }
    BY DEF Replies, correct
  <2> QED
    BY <2>1
<1> HIDE DEF correct
<1>4. ASSUME NEW c \in correct, r = [c EXCEPT !.payload = [i \in DOMAIN c.payload |-> Nul]]
      PROVE  r \in Fields /\ r.total_hash \in {original, Garbage} /\ r.this_block \in Blocks
  <2>1. Nul \in Bytes
    BY RetrieveAssumption
  <2>2. c.payload \in Seq(Bytes) \cup {Garbage}
    BY <1>2 DEF Fields
  <2>3. [i \in DOMAIN c.payload |-> Nul] \in Seq(Bytes)
    <3>1. DOMAIN c.payload = 1 .. Len(c.payload) /\ Len(c.payload) \in Nat
      BY <2>2 DEF Garbage
    <3> QED
      BY <2>1, <3>1
  <2> QED
    BY <1>2, <1>4, <2>3 DEF Fields
<1>5. ASSUME NEW c \in correct, NEW k \in 0 .. BlockCount(original), r = [c EXCEPT !.block_count = k]
      PROVE  r \in Fields /\ r.total_hash \in {original, Garbage} /\ r.this_block \in Blocks
  BY <1>1, <1>2, <1>5 DEF Fields
<1>6. CASE \/ r \in correct
           \/ \E c \in correct : r = [c EXCEPT !.status = "BAD_REQUEST"]
           \/ \E c \in correct : r = [c EXCEPT !.total_hash = Garbage]
  BY <1>2, <1>6 DEF Fields
<1> QED
  BY <1>3, <1>4, <1>5, <1>6

\* A header that was cut short still has the form of one, and the total hash it is
\* read with is the one of the file or of none.
LEMMA CutShortFacts ==
  ASSUME TypeInv, HashInv, NEW r \in CutShort
  PROVE  r \in Fields /\ r.total_hash \in {original, Garbage}
<1>1. BlockCount(original) \in Nat
  BY CountIsNat DEF TypeInv
<1>2. PICK s \in {"OK", "garbage"},
           c \in {0, ref_count, BlockCount(original), BlockCount(original) + 1},
           h \in (IF b = 0 THEN {Garbage} ELSE {ref_hash, Garbage}) : r = Stale(s, c, h)
  BY DEF CutShort
<1>3. h \in {original, Garbage}
  BY <1>2 DEF TypeInv, HashInv
<1>4. c \in Nat
  BY <1>1 DEF TypeInv
<1> QED
  BY <1>2, <1>3, <1>4 DEF TypeInv, Fields, Stale

\* The parsing of a header, of a reply or of stale bytes, keeps the invariant.
LEMMA ParseAccept ==
  ASSUME AcceptInv, pc = "header", NEW r \in Fields, r.total_hash \in {original, Garbage}, Parse(r),
         UNCHANGED <<link, peer, file, b, result, received>>
  PROVE  AcceptInv'
<1>1. TypeInv'
  BY DEF AcceptInv, TypeInv, Parse, peer, Fields
<1>2. HashInv'
  BY DEF AcceptInv, TypeInv, HashInv, Parse, peer
<1>3. AcceptedIsOriginal'
  BY DEF AcceptInv, AcceptedIsOriginal, peer
<1> QED
  BY <1>1, <1>2, <1>3 DEF AcceptInv

\* Every step of the client and of the peer preserves the invariant.
LEMMA AcceptStep == AcceptInv /\ [Next]_vars => AcceptInv'
<1> SUFFICES ASSUME AcceptInv, [Next]_vars PROVE AcceptInv'
  OBVIOUS
<1>1. CASE CreateOutput \/ CheckHeader \/ CheckPayload \/ PayloadAtEof \/ WriteFails
           \/ PeerCloses \/ PeerStops \/ UNCHANGED vars
  <2>1. UNCHANGED <<original, old, file, b, ref_count, ref_hash, reply>>
    BY <1>1 DEF CreateOutput, CheckHeader, CheckPayload, PayloadAtEof, WriteFails,
         PeerCloses, PeerStops, vars, peer
  <2>2. TypeInv'
    BY <2>1 DEF AcceptInv, TypeInv
  <2>3. HashInv'
    BY <1>1, <2>1 DEF AcceptInv, HashInv, CreateOutput, CheckHeader, CheckPayload, PayloadAtEof,
         WriteFails, PeerCloses, PeerStops, Return, vars
  <2>4. AcceptedIsOriginal'
    BY <1>1, <2>1 DEF AcceptInv, AcceptedIsOriginal, CreateOutput, CheckHeader, CheckPayload,
         PayloadAtEof, WriteFails, PeerCloses, PeerStops, Return, vars
  <2> QED
    BY <2>2, <2>3, <2>4 DEF AcceptInv
<1>2. CASE ReadHeader
  <2>1. PICK r \in Replies : Parse(r)
    BY <1>2 DEF ReadHeader
  <2>2. r \in Fields /\ r.total_hash \in {original, Garbage}
    BY ReplyFacts DEF AcceptInv, TypeInv
  <2> QED
    BY <1>2, <2>1, <2>2, ParseAccept DEF ReadHeader
<1>3. CASE HeaderAtEof
  <2>1. PICK r \in CutShort : Parse(r)
    BY <1>3 DEF HeaderAtEof
  <2>2. r \in Fields /\ r.total_hash \in {original, Garbage}
    BY CutShortFacts DEF AcceptInv
  <2> QED
    BY <1>3, <2>1, <2>2, ParseAccept DEF HeaderAtEof
<1>4. CASE WriteBlock
  <2>1. reply.payload \in Seq(Bytes) /\ reply.this_block \in Nat
    BY <1>4 DEF AcceptInv, TypeInv, HashInv, Fields, WriteBlock
  <2>2. reply.this_block * BlockLen \in Nat
    BY <2>1, RetrieveAssumption, NextProduct
  <2>3. file' \in Seq(Bytes)
    BY <1>4, <2>1, <2>2, WrittenFacts, OverwriteFacts DEF AcceptInv, TypeInv, WriteBlock
  <2>4. TypeInv'
    BY <1>4, <2>3 DEF AcceptInv, TypeInv, WriteBlock, peer
  <2>5. HashInv'
    BY <1>4 DEF AcceptInv, TypeInv, HashInv, WriteBlock, peer
  <2>6. AcceptedIsOriginal'
    BY <1>4 DEF AcceptInv, HashInv, AcceptedIsOriginal, WriteBlock
  <2> QED
    BY <2>4, <2>5, <2>6 DEF AcceptInv
<1>5. CASE Verify
  <2>1. file = reply.total_hash => file = original
    BY <1>5, RetrieveAssumption DEF AcceptInv, TypeInv, HashInv, Verify
  <2>2. AcceptedIsOriginal'
    BY <1>5, <2>1 DEF AcceptedIsOriginal, Verify, Return, peer
  <2> QED
    BY <1>5, <2>2 DEF AcceptInv, TypeInv, HashInv, Verify, Return, peer
<1> QED
  BY <1>1, <1>2, <1>3, <1>4, <1>5 DEF Next, Client

\* The invariant holds in every state that an execution reaches.
LEMMA Accepting == Spec => []AcceptInv
<1>1. Init => AcceptInv
  <2> SUFFICES ASSUME Init PROVE AcceptInv
    OBVIOUS
  <2>1. original \in Seq(Bytes) /\ old \in Seq(Bytes)
    BY RetrieveAssumption DEF Init
  <2> QED
    BY <2>1 DEF Init, AcceptInv, TypeInv, HashInv, AcceptedIsOriginal, Fields, NoReply
<1> QED
  BY <1>1, AcceptStep, PTL DEF Spec

\* Whatever the other peer repeats, leaves out or damages, and wherever it closes: a
\* transfer that ends well has produced the file of the other peer, for all files,
\* old contents of the output file and lengths of a block.
THEOREM OnlyOriginalAccepted == Spec => []AcceptedIsOriginal
BY Accepting, PTL DEF AcceptInv

-----------------------------------------------------------------------------
(***************************************************************************)
(* With a peer that keeps to the protocol.  As long as every reply was a   *)
(* correct one with a new block, the loop counter counts the blocks that   *)
(* were written, so that the loop ends when there are all of them; and the *)
(* bytes of every block that was written are right, because the later ones *)
(* write only right bytes, wherever they do.                               *)
(***************************************************************************)
CountInv ==
  /\ received \subseteq Blocks
  /\ b = Cardinality(received)
  /\ b > 0 => ref_count = BlockCount(original) /\ ref_hash = original
  /\ pc \in {"check", "payload", "write"} =>
       /\ ref_count = BlockCount(original)
       /\ ref_hash = original
       /\ reply.this_block \in Blocks \ received
       /\ reply = Correct(reply.this_block)
  /\ pc = "verify" => reply.total_hash = original /\ received = Blocks

RightBytes(m) == \A i \in Span(m) : i <= Len(file) /\ file[i] = original[i]

BytesInv ==
  IsText(original) /\ Len(old) <= Len(original) =>
    /\ Len(file) <= Len(original)
    /\ \A m \in received : RightBytes(m)

HonestInv == honest => CountInv /\ BytesInv

OrderInv == HonestInv /\ OrderDoesNotMatter

\* As many blocks as their number says.
LEMMA BlocksFinite ==
  ASSUME original \in Seq(Bytes)
  PROVE  IsFiniteSet(Blocks) /\ Cardinality(Blocks) = BlockCount(original)
<1>1. BlockCount(original) \in Nat
  BY CountIsNat
<1>2. IsFiniteSet(0 .. BlockCount(original) - 1)
      /\ Cardinality(0 .. BlockCount(original) - 1) =
           IF 0 > BlockCount(original) - 1 THEN 0 ELSE (BlockCount(original) - 1) - 0 + 1
  <2> DEFINE last == BlockCount(original) - 1
  <2>1. last \in Int /\ 0 \in Int
    BY <1>1
  <2> HIDE DEF last
  <2>2. IsFiniteSet(0 .. last) /\ Cardinality(0 .. last) = IF 0 > last THEN 0 ELSE last - 0 + 1
    BY <2>1, FS_Interval
  <2> QED
    BY <2>2 DEF last
<1> QED
  BY <1>1, <1>2 DEF Blocks

\* The blocks of an honest peer are counted: one more than before was written, and
\* if the counter has reached their number they are all there.
LEMMA CountWritten ==
  ASSUME original \in Seq(Bytes), CountInv, pc = "write"
  PROVE  /\ received \cup {reply.this_block} \subseteq Blocks
         /\ Cardinality(received \cup {reply.this_block}) = b + 1
         /\ ~(b + 1 < ref_count) => received \cup {reply.this_block} = Blocks
<1> DEFINE R == received \cup {reply.this_block}
<1>1. IsFiniteSet(Blocks) /\ Cardinality(Blocks) = BlockCount(original)
  BY BlocksFinite
<1>2. R \subseteq Blocks /\ received \subseteq Blocks /\ reply.this_block \notin received
      /\ ref_count = BlockCount(original) /\ b = Cardinality(received)
  BY DEF CountInv
<1>3. IsFiniteSet(received)
  BY <1>1, <1>2, FS_Subset
<1>4. Cardinality(R) = b + 1 /\ b \in Nat
  BY <1>2, <1>3, FS_AddElement, FS_CardinalityType
<1>5. BlockCount(original) \in Nat
  BY CountIsNat
<1>6. Cardinality(R) <= Cardinality(Blocks) /\ (Cardinality(R) = Cardinality(Blocks) => R = Blocks)
  BY <1>1, <1>2, FS_Subset
<1> HIDE DEF R
<1>7. ~(b + 1 < ref_count) => R = Blocks
  BY <1>1, <1>2, <1>4, <1>5, <1>6
<1> QED
  BY <1>2, <1>4, <1>7 DEF R

\* Writing a correct block of a text file leaves the right bytes right, makes those of
\* the block right, and writes nothing behind the end of the file.
LEMMA BytesWritten ==
  ASSUME TypeInv, CountInv, BytesInv, IsText(original), Len(old) <= Len(original),
         UNCHANGED <<original, old>>, WriteBlock
  PROVE  Len(file') <= Len(original) /\ \A m \in received' : RightBytes(m)'
<1> DEFINE n == reply.this_block
           o == n * BlockLen
           d == Block(original, n)
<1>1. /\ n \in 0 .. BlockCount(original) - 1
      /\ reply.payload = d
  BY DEF CountInv, WriteBlock, Correct, Blocks
<1>2. /\ o \in Nat
      /\ d \in Seq(Bytes)
      /\ Len(d) = Least((n + 1) * BlockLen, Len(original)) - o
      /\ o + Len(d) <= Len(original)
      /\ \A i \in 1 .. Len(d) : d[i] = original[o + i]
  BY <1>1, BlockFacts DEF TypeInv
<1>3. IsText(d)
  <2>1. ASSUME NEW i \in DOMAIN d PROVE d[i] # Nul
    <3>1. i \in 1 .. Len(d) /\ o + i \in DOMAIN original
      BY <1>2 DEF TypeInv
    <3> QED
      BY <1>2, <3>1 DEF IsText
  <2> QED
    BY <2>1 DEF IsText
<1>4. file' = Overwrite(file, o, d)
  BY <1>1, <1>2, <1>3, WrittenFacts DEF WriteBlock
<1>5. Span(n) = o + 1 .. o + Len(d)
  <2> DEFINE e == Least((n + 1) * BlockLen, Len(original))
  <2>1. e \in Int
    BY <1>1, RetrieveAssumption DEF TypeInv, Least
  <2>2. Span(n) = o + 1 .. e
    BY DEF Span
  <2>3. Len(d) = e - o
    BY <1>2
  <2> HIDE DEF e, o, d
  <2> QED
    BY <1>2, <2>1, <2>2, <2>3
<1>6. Len(file) <= Len(original) /\ \A m \in received : RightBytes(m)
  BY DEF BytesInv
<1>7. received' = received \cup {n}
  BY DEF WriteBlock
<1>8. file \in Seq(Bytes) /\ original \in Seq(Bytes)
  BY DEF TypeInv
<1> HIDE DEF o, d, n
<1>9. /\ file' \in Seq(Bytes)
      /\ Len(file') >= Len(file)
      /\ Len(file') = Len(file) \/ Len(file') = o + Len(d)
      /\ Len(d) > 0 => Len(file') >= o + Len(d)
      /\ \A i \in 1 .. Len(file) : i <= o \/ i > o + Len(d) => file'[i] = file[i]
      /\ \A i \in o + 1 .. o + Len(d) : file'[i] = d[i - o]
  <2>1. d \in Seq(Bytes) /\ o \in Nat
    BY <1>2
  <2> QED
    BY <1>4, <1>8, <2>1, OverwriteFacts
<1>10. \A i \in o + 1 .. o + Len(d) : i <= Len(file') /\ file'[i] = original[i]
  <2> TAKE i \in o + 1 .. o + Len(d)
  <2>1. i - o \in 1 .. Len(d) /\ o + (i - o) = i /\ Len(d) > 0
    BY <1>2
  <2>2. d[i - o] = original[i]
    BY <1>2, <2>1
  <2> QED
    BY <1>2, <1>9, <2>1, <2>2
<1>11. \A i \in 1 .. Len(file) : file[i] = original[i] => i <= Len(file') /\ file'[i] = original[i]
  <2> TAKE i \in 1 .. Len(file)
  <2>1. i \in Nat /\ i >= 1 /\ i <= Len(file') /\ Len(d) \in Nat
    BY <1>2, <1>8, <1>9
  <2>2. i \in o + 1 .. o + Len(d) \/ i <= o \/ i > o + Len(d)
    BY <1>2, <2>1
  <2> QED
    BY <1>9, <1>10, <2>1, <2>2
<1>12. ASSUME NEW m \in received' PROVE \A i \in Span(m) : i <= Len(file') /\ file'[i] = original[i]
  <2>1. CASE m = n
    BY <1>5, <1>10, <2>1
  <2>2. CASE m \in received
    <3>1. m \in Nat /\ m * BlockLen \in Nat
      BY <2>2, RetrieveAssumption, NextProduct DEF CountInv, Blocks
    <3> TAKE i \in Span(m)
    <3>2. i <= Len(file) /\ file[i] = original[i]
      BY <1>6, <2>2 DEF RightBytes
    <3>3. i \in Nat /\ i >= 1
      BY <3>1 DEF Span
    <3> QED
      BY <1>8, <1>11, <3>2, <3>3
  <2> QED
    BY <1>7, <2>1, <2>2
<1>13. \A m \in received' : RightBytes(m)'
  BY <1>12 DEF RightBytes, Span
<1>14. Len(file') <= Len(original)
  BY <1>2, <1>6, <1>8, <1>9
<1> QED
  BY <1>13, <1>14

\* When every block was written, the output file is the original.
LEMMA AllWritten ==
  ASSUME TypeInv, BytesInv, received = Blocks, IsText(original), Len(old) <= Len(original)
  PROVE  file = original
<1>1. file \in Seq(Bytes) /\ original \in Seq(Bytes) /\ Len(file) <= Len(original)
  BY DEF TypeInv, BytesInv
<1>2. \A i \in 1 .. Len(original) : i <= Len(file) /\ file[i] = original[i]
  <2> TAKE i \in 1 .. Len(original)
  <2>1. PICK m \in Blocks : i \in Span(m)
    BY <1>1, BlockOfByte
  <2> QED
    BY <2>1 DEF BytesInv, RightBytes
<1>3. Len(file) = Len(original)
  <2>1. CASE Len(original) = 0
    BY <1>1, <2>1
  <2>2. CASE Len(original) # 0
    <3>1. Len(original) \in 1 .. Len(original)
      BY <1>1, <2>2
    <3> QED
      BY <1>1, <1>2, <3>1
  <2> QED
    BY <2>1, <2>2
<1> QED
  BY <1>1, <1>2, <1>3, SeqEqual

\* A reply of an honest peer, parsed.
LEMMA HonestHeader ==
  ASSUME TypeInv, HonestInv, ReadHeader, honest'
  PROVE  (CountInv /\ BytesInv)'
<1>1. PICK r \in Replies : /\ Parse(r)
                           /\ honest /\ r = Correct(r.this_block) /\ r.this_block \notin received
  BY DEF ReadHeader
<1>2. UNCHANGED <<original, old, file, b, received>>
  BY DEF ReadHeader, peer
<1>3. CountInv /\ BytesInv /\ r.this_block \in Blocks
  BY <1>1, ReplyFacts DEF HonestInv, TypeInv
<1>4. BytesInv'
  BY <1>2, <1>3 DEF BytesInv, RightBytes, Span
<1>5. r.block_count = BlockCount(original) /\ r.total_hash = original
  BY <1>1 DEF Correct
<1>6. BlockCount(original) # 0
  BY <1>3 DEF Blocks
<1>7. reply' = r /\ pc' = "check"
  BY <1>1, <1>5, <1>6 DEF Parse
<1>8. b \in Nat
  BY DEF TypeInv
<1>9. ref_count' = BlockCount(original) /\ ref_hash' = original
  BY <1>1, <1>3, <1>5, <1>8 DEF Parse, CountInv
<1>10. (reply = Correct(reply.this_block))' /\ (reply.this_block \in Blocks \ received)'
  BY <1>1, <1>2, <1>3, <1>7 DEF Correct, Blocks
<1>11. CountInv'
  BY <1>2, <1>3, <1>7, <1>9, <1>10 DEF CountInv, Blocks
<1> QED
  BY <1>4, <1>11

\* Every step of a transfer from an honest peer preserves its invariant.
LEMMA HonestStep == AcceptInv /\ OrderInv /\ [Next]_vars => OrderInv'
<1> SUFFICES ASSUME AcceptInv, OrderInv, [Next]_vars PROVE OrderInv'
  OBVIOUS
<1>0. TypeInv /\ HonestInv
  BY DEF AcceptInv, OrderInv
<1>1. CASE CreateOutput \/ CheckHeader \/ CheckPayload \/ WriteFails
           \/ PeerCloses \/ PeerStops \/ UNCHANGED vars
  <2>1. UNCHANGED <<original, old, writable, file, b, ref_count, ref_hash, reply, received, honest>>
    BY <1>1 DEF CreateOutput, CheckHeader, CheckPayload, WriteFails, PeerCloses, PeerStops,
         vars, peer
  <2>2. BytesInv => BytesInv'
    BY <2>1 DEF BytesInv, RightBytes, Span
  <2>3. UNCHANGED <<Blocks, BlockCount(original), Correct(reply.this_block)>>
    BY <2>1 DEF Blocks, Correct
  <2>4. CountInv => CountInv'
    BY <1>1, <2>1, <2>3 DEF CountInv, CreateOutput, CheckHeader, CheckPayload, WriteFails,
         PeerCloses, PeerStops, Return, vars
  <2>5. HonestInv'
    BY <1>0, <2>1, <2>2, <2>4 DEF HonestInv
  <2>6. OrderDoesNotMatter'
    <3>1. SUFFICES ASSUME honest, writable, pc' = "returned", IsText(original),
                          Len(old) <= Len(original)
                   PROVE  result' = "ok"
      BY <2>1 DEF OrderDoesNotMatter, IsText
    <3>2. CountInv /\ OrderDoesNotMatter
      BY <1>0, <3>1 DEF HonestInv, OrderInv
    <3>3. CASE PeerCloses \/ PeerStops \/ UNCHANGED vars
      BY <3>1, <3>2, <3>3 DEF OrderDoesNotMatter, PeerCloses, PeerStops, vars
    <3>4. CASE CreateOutput \/ WriteFails
      BY <3>1, <3>4 DEF CreateOutput, WriteFails, Return
    <3>5. CASE CheckHeader \/ CheckPayload
      <4>1. /\ ref_count = BlockCount(original)
            /\ ref_hash = original
            /\ reply = Correct(reply.this_block)
        BY <3>2, <3>5 DEF CountInv, CheckHeader, CheckPayload
      <4>2. /\ reply.block_count = BlockCount(original)
            /\ reply.total_hash = original
            /\ reply.status = "OK"
            /\ reply.payload = reply.block_hash
        BY <4>1 DEF Correct
      <4> QED
        BY <3>1, <3>5, <4>1, <4>2 DEF CheckHeader, CheckPayload
    <3> QED
      BY <1>1, <3>3, <3>4, <3>5
  <2> QED
    BY <2>5, <2>6 DEF OrderInv
<1>2. CASE ReadHeader
  <2>1. HonestInv'
    BY <1>0, <1>2, HonestHeader DEF HonestInv
  <2>2. pc' # "returned"
    BY <1>2 DEF ReadHeader, Parse
  <2> QED
    BY <2>1, <2>2 DEF OrderInv, OrderDoesNotMatter
<1>3. CASE HeaderAtEof \/ PayloadAtEof
  BY <1>3 DEF HeaderAtEof, PayloadAtEof, OrderInv, HonestInv, OrderDoesNotMatter
<1>4. CASE WriteBlock
  <2>1. UNCHANGED <<original, old, honest, ref_count, ref_hash, reply>> /\ pc = "write"
        /\ received' = received \cup {reply.this_block} /\ b' = b + 1
        /\ pc' = IF b + 1 < ref_count THEN "header" ELSE "verify"
    BY <1>4 DEF WriteBlock, peer
  <2>2. ASSUME honest PROVE CountInv' /\ BytesInv'
    <3>1. CountInv /\ BytesInv
      BY <1>0, <2>2 DEF HonestInv
    <3>2. BytesInv'
      BY <1>0, <1>4, <2>1, <3>1, BytesWritten DEF BytesInv, IsText
    <3>3. /\ received' \subseteq Blocks
          /\ Cardinality(received') = b'
          /\ pc' = "verify" => received' = Blocks
      BY <1>0, <2>1, <3>1, CountWritten DEF TypeInv
    <3>4. ref_count = BlockCount(original) /\ ref_hash = original /\ reply.total_hash = original
      BY <2>1, <3>1 DEF CountInv, Correct
    <3>5. UNCHANGED Blocks
      BY <2>1 DEF Blocks
    <3>6. CountInv'
      BY <2>1, <3>3, <3>4, <3>5 DEF CountInv
    <3> QED
      BY <3>2, <3>6
  <2>3. HonestInv'
    BY <2>1, <2>2 DEF HonestInv
  <2>4. pc' # "returned"
    BY <2>1
  <2> QED
    BY <2>3, <2>4 DEF OrderInv, OrderDoesNotMatter
<1>5. CASE Verify
  <2>1. UNCHANGED <<original, old, writable, file, b, ref_count, ref_hash, reply, received, honest>>
        /\ pc = "verify" /\ pc' = "returned"
        /\ result' = IF file = reply.total_hash THEN "ok" ELSE "file hash does not match"
    BY <1>5 DEF Verify, Return, peer
  <2>2. BytesInv => BytesInv'
    BY <2>1 DEF BytesInv, RightBytes, Span
  <2>3. CountInv => CountInv'
    BY <2>1 DEF CountInv, Blocks
  <2>4. HonestInv'
    BY <1>0, <2>1, <2>2, <2>3 DEF HonestInv
  <2>5. OrderDoesNotMatter'
    <3>1. SUFFICES ASSUME honest, IsText(original), Len(old) <= Len(original)
                   PROVE  result' = "ok"
      BY <2>1 DEF OrderDoesNotMatter, IsText
    <3>2. BytesInv /\ reply.total_hash = original /\ received = Blocks
      BY <1>0, <2>1, <3>1 DEF HonestInv, CountInv
    <3>3. file = original
      BY <1>0, <3>1, <3>2, AllWritten
    <3> QED
      BY <2>1, <3>2, <3>3
  <2> QED
    BY <2>4, <2>5 DEF OrderInv
<1> QED
  BY <1>1, <1>2, <1>3, <1>4, <1>5 DEF Next, Client

\* The transfer of a text file from a peer that keeps to the protocol ends well, in
\* whatever order its blocks arrive, unless the output file was longer before or
\* cannot be written.
THEOREM HonestPeerBelieved == Spec => []OrderDoesNotMatter
<1>1. Init => OrderInv
  <2> SUFFICES ASSUME Init PROVE OrderInv
    OBVIOUS
  <2>1. Cardinality({}) = 0
    BY FS_EmptySet
  <2>2. CountInv
    BY <2>1 DEF Init, CountInv
  <2>3. BytesInv
    BY DEF Init, BytesInv
  <2> QED
    BY <2>2, <2>3 DEF Init, OrderInv, HonestInv, OrderDoesNotMatter
<1>2. OrderInv => OrderDoesNotMatter
  BY DEF OrderInv
<1> QED
  BY <1>1, <1>2, Accepting, HonestStep, PTL DEF Spec

=============================================================================
