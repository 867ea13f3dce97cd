--------------------------- MODULE PeerList_proofs ---------------------------
(***************************************************************************)
(* Proofs about the list of peers of A4, for any peers and any number of   *)
(* requests: whatever the two threads do to each other, the list whose     *)
(* hash a registering peer is sent is the list of some moment, and the     *)
(* entries it is sent are that list out of place; and the server of a      *)
(* process without a client thread uses the list safely and loses nobody.  *)
(***************************************************************************)
EXTENDS PeerList, SequenceTheorems, TLAPS

\* The server has a request whose peer it is still to add.
Pending == spc # "accept"

\* The client is still to add the peer of the reply.
Joining == cpc \in {"register", "grow", "store", "add"}

\* What can be counted in: a peer, or what lies behind a reply without any.
Known == Peers \cup {Blank}

TypeInv ==
  /\ network \in [Indices -> Peers \cup {Blank, Garbage}]
  /\ slots \in Nat
  /\ peer_count \in Nat
  /\ moving \subseteq {"server", "client"}
  /\ spc \in {"accept", "retreive", "size", "room", "copy", "grow", "store", "alloc", "add"}
  /\ request \in Peers
  /\ reply_size \in Nat
  /\ room \in Nat
  /\ body \in Seq(Peers \cup {Blank, Garbage})
  /\ requests \in Nat
  /\ added \in Seq(Known)
  /\ sent.hashed \in Seq(Peers \cup {Blank, Garbage})
  /\ has_client \in BOOLEAN
  /\ cpc \in {"none", "register", "grow", "store", "add", "pick_tiny", "tiny", "pick_hamlet",
              "hamlet", "done"}
  /\ cpc \in {"grow", "store", "add"} => reply_peers \in Seq(Peers)

(***************************************************************************)
(* The list and the threads.  Every request adds at most one peer, so the  *)
(* array of the model is large enough.  A slot below peer_count holds what *)
(* was counted in there, or nothing any more after a realloc to fewer      *)
(* slots; a thread that is interrupted between malloc and the copy leaves  *)
(* a blank only at peer_count, where the next one that counts in replaces  *)
(* it.                                                                     *)
(***************************************************************************)
CountInv ==
  /\ peer_count + (IF Pending THEN 1 ELSE 0) + (IF Joining THEN 1 ELSE 0) <= requests + 2
  /\ requests <= MaxRequests
  /\ peer_count = 1 + Len(added)

ListInv == \A i \in 0 .. peer_count - 1 : network[i] \in {Garbage, History[i + 1]}

ReplyInv ==
  /\ reply_size <= peer_count
  /\ IsPrefixOf(body, History)
  /\ ReplyHashesSnapshot

IInv == TypeInv /\ CountInv /\ ListInv /\ ReplyInv

-----------------------------------------------------------------------------

\* The history is a sequence of peers that begins with this process.
LEMMA HistoryFacts ==
  ASSUME NEW s \in Seq(Known)
  PROVE  /\ <<Me>> \o s \in Seq(Known)
         /\ Len(<<Me>> \o s) = 1 + Len(s)
<1>1. <<Me>> \in Seq(Known) /\ Len(<<Me>>) = 1
  BY DEF Known, Peers
<1> QED
  BY <1>1, ConcatProperties

\* Counting in a peer adds it at the end of the history.
LEMMA HistoryGrows ==
  ASSUME added \in Seq(Known), NEW p \in Known, added' = Append(added, p)
  PROVE  /\ Len(History') = Len(History) + 1
         /\ \A i \in 1 .. Len(History) : History'[i] = History[i]
         /\ History'[Len(History) + 1] = p
         /\ added' \in Seq(Known)
<1>1. <<Me>> \in Seq(Known) /\ Len(<<Me>>) = 1
  BY DEF Known, Peers
<1>2. /\ added' \in Seq(Known)
      /\ Len(added') = Len(added) + 1
      /\ \A i \in 1 .. Len(added) : added'[i] = added[i]
      /\ added'[Len(added) + 1] = p
  BY AppendProperties
<1>3. /\ Len(History) = 1 + Len(added)
      /\ \A i \in 1 .. 1 + Len(added) :
           History[i] = IF i <= 1 THEN <<Me>>[i] ELSE added[i - 1]
  BY <1>1, ConcatProperties DEF History
<1>4. /\ Len(History') = 1 + Len(added')
      /\ \A i \in 1 .. 1 + Len(added') :
           History'[i] = IF i <= 1 THEN <<Me>>[i] ELSE added'[i - 1]
  BY <1>1, <1>2, ConcatProperties DEF History
<1>5. \A i \in 1 .. 1 + Len(added) : History'[i] = History[i]
  <2> TAKE i \in 1 .. 1 + Len(added)
  <2>1. CASE i = 1
    BY <1>2, <1>3, <1>4, <2>1
  <2>2. CASE i # 1
    <3>1. i - 1 \in 1 .. Len(added) /\ i \in 1 .. 1 + Len(added') /\ ~(i <= 1)
      BY <1>2, <2>2
    <3> QED
      BY <1>2, <1>3, <1>4, <3>1
  <2> QED
    BY <2>1, <2>2
<1>6. History'[Len(added) + 2] = p
  BY <1>2, <1>4
<1> QED
  BY <1>2, <1>3, <1>4, <1>5, <1>6

\* What has been copied stays right when a peer is added.
LEMMA PrefixStays ==
  ASSUME NEW s, NEW t, NEW u, Len(s) \in Nat, Len(t) \in Nat, Len(u) \in Nat,
         IsPrefixOf(s, t), IsPrefixOf(t, u)
  PROVE  IsPrefixOf(s, u)
BY DEF IsPrefixOf

\* What was sent stays right when a peer is added.
LEMMA SentStays ==
  ASSUME ReplyHashesSnapshot, UNCHANGED sent, IsPrefixOf(History, History'),
         Len(sent.hashed) \in Nat, Len(History) \in Nat, Len(History') \in Nat
  PROVE  ReplyHashesSnapshot'
<1>1. IsPrefixOf(sent.hashed, History')
  BY PrefixStays DEF ReplyHashesSnapshot
<1>2. \A i \in 1 .. Len(sent.entries) : i > Gap => History'[i - Gap] = History[i - Gap]
  BY PeerAssumption DEF ReplyHashesSnapshot, IsPrefixOf
<1>3. \A i \in 1 .. Len(sent.entries) :
        sent.entries[i] = IF i <= Gap THEN Blank ELSE History'[i - Gap]
  <2> TAKE i \in 1 .. Len(sent.entries)
  <2>1. sent.entries[i] = IF i <= Gap THEN Blank ELSE History[i - Gap]
    BY DEF ReplyHashesSnapshot
  <2>2. i \in Int /\ Gap \in Int
    BY PeerAssumption
  <2>3. CASE i <= Gap
    BY <2>1, <2>3
  <2>4. CASE i > Gap
    BY <1>2, <2>1, <2>2, <2>4
  <2> QED
    BY <2>2, <2>3, <2>4
<1> QED
  BY <1>1, <1>3 DEF ReplyHashesSnapshot

\* Counting in a peer keeps the list in agreement with the history.
LEMMA CountInStep ==
  ASSUME IInv, NEW p \in Known, CountIn(p), UNCHANGED <<reply_size, body, sent>>,
         Pending \/ Joining
  PROVE  /\ network' \in [Indices -> Peers \cup {Blank, Garbage}]
         /\ added' \in Seq(Known)
         /\ peer_count' = 1 + Len(added')
         /\ ListInv'
         /\ ReplyInv'
<1>1. /\ Len(History') = Len(History) + 1
      /\ \A i \in 1 .. Len(History) : History'[i] = History[i]
      /\ History'[Len(History) + 1] = p
      /\ added' \in Seq(Known)
  BY HistoryGrows DEF IInv, TypeInv, CountIn
<1>2. Len(History) = peer_count /\ Len(History) \in Nat
  BY HistoryFacts DEF IInv, TypeInv, CountInv, History
<1>3. peer_count' = 1 + Len(added')
  BY AppendProperties DEF IInv, TypeInv, CountInv, CountIn
<1>4. peer_count \in Indices
  BY PeerAssumption DEF IInv, TypeInv, CountInv, Indices
<1>5. /\ network' \in [Indices -> Peers \cup {Blank, Garbage}]
      /\ network'[peer_count] = p
      /\ \A i \in Indices \ {peer_count} : network'[i] = network[i]
  BY <1>4 DEF IInv, TypeInv, CountIn, Known
<1>6. ASSUME NEW i \in 0 .. peer_count' - 1 PROVE network'[i] \in {Garbage, History'[i + 1]}
  <2>1. peer_count' = peer_count + 1 /\ peer_count \in Nat
    BY DEF IInv, TypeInv, CountIn
  <2>2. CASE i = peer_count
    BY <1>1, <1>2, <1>5, <2>2
  <2>3. CASE i # peer_count
    <3>1. i \in 0 .. peer_count - 1 /\ i + 1 \in 1 .. Len(History) /\ i \in Indices
      BY <1>2, <1>4, <2>1, <2>3, PeerAssumption DEF Indices
    <3> QED
      BY <1>1, <1>5, <2>3, <3>1 DEF IInv, ListInv
  <2> QED
    BY <2>2, <2>3
<1>7. IsPrefixOf(History, History')
  BY <1>1, <1>2 DEF IsPrefixOf
<1>8. Len(body) \in Nat /\ Len(sent.hashed) \in Nat /\ Len(History') \in Nat
  BY <1>1, <1>2 DEF IInv, TypeInv
<1>9. IsPrefixOf(body, History') /\ ReplyHashesSnapshot'
  BY <1>2, <1>7, <1>8, PrefixStays, SentStays DEF IInv, ReplyInv
<1>10. reply_size <= peer_count'
  BY DEF IInv, TypeInv, ReplyInv, CountIn
<1> QED
  BY <1>1, <1>3, <1>5, <1>6, <1>9, <1>10 DEF ListInv, ReplyInv

\* A realloc keeps a slot or makes it unusable.
LEMMA ReallocStep ==
  ASSUME IInv, NEW t \in {"server", "client"}, NEW n \in Nat, Realloc(t, n)
  PROVE  /\ network' \in [Indices -> Peers \cup {Blank, Garbage}]
         /\ slots' \in Nat
         /\ moving' \subseteq {"server", "client"}
         /\ ListInv'
<1>1. network' \in [Indices -> Peers \cup {Blank, Garbage}]
  BY DEF IInv, TypeInv, Realloc
<1>2. \A i \in Indices : network'[i] \in {network[i], Garbage}
  BY DEF Realloc
<1>3. \A i \in 0 .. peer_count - 1 : i \in Indices
  BY PeerAssumption DEF IInv, TypeInv, CountInv, Indices
<1>4. ListInv'
  BY <1>2, <1>3 DEF IInv, ListInv, Realloc, History
<1> QED
  BY <1>1, <1>4 DEF IInv, TypeInv, Realloc

\* A slot that may be followed holds a peer of the history.
LEMMA CopyRight ==
  ASSUME IInv, Len(body) < peer_count, Defined(Len(body))
  PROVE  /\ Append(body, network[Len(body)]) \in Seq(Peers \cup {Blank, Garbage})
         /\ IsPrefixOf(Append(body, network[Len(body)]), History)
<1> DEFINE e == network[Len(body)]
<1>1. Len(History) = peer_count /\ peer_count \in Nat /\ Len(body) \in Nat
  BY HistoryFacts DEF IInv, TypeInv, CountInv, History
<1>2. Len(body) \in 0 .. peer_count - 1 /\ Len(body) \in Indices
  BY <1>1, PeerAssumption DEF IInv, TypeInv, CountInv, Indices
<1>3. e = History[Len(body) + 1] /\ e \in Peers \cup {Blank, Garbage}
  BY <1>2 DEF IInv, TypeInv, ListInv, Defined
<1> HIDE DEF e
<1>4. /\ Append(body, e) \in Seq(Peers \cup {Blank, Garbage})
      /\ Len(Append(body, e)) = Len(body) + 1
      /\ \A i \in 1 .. Len(body) : Append(body, e)[i] = body[i]
      /\ Append(body, e)[Len(body) + 1] = e
  BY <1>3, AppendProperties DEF IInv, TypeInv
<1>5. Len(body) + 1 <= Len(History)
  BY <1>1, <1>2
<1>6. \A i \in 1 .. Len(body) + 1 : Append(body, e)[i] = History[i]
  BY <1>1, <1>3, <1>4 DEF IInv, ReplyInv, IsPrefixOf
<1>7. IsPrefixOf(Append(body, e), History)
  BY <1>4, <1>5, <1>6 DEF IsPrefixOf
<1> QED
  BY <1>4, <1>7 DEF e

\* As many entries as were announced have been copied when the loop is over.
LEMMA SendRight ==
  ASSUME IInv, SendReply
  PROVE  /\ sent'.hashed \in Seq(Peers \cup {Blank, Garbage})
         /\ ReplyHashesSnapshot'
<1>0. /\ Len(body) >= peer_count
      /\ sent'.hashed = SubSeq(body, 1, reply_size)
      /\ sent'.entries = [i \in 1 .. reply_size |-> IF i <= Gap THEN Blank ELSE body[i - Gap]]
      /\ UNCHANGED History
  BY DEF SendReply, array, History
<1>1. reply_size \in Nat /\ reply_size <= Len(body) /\ Len(body) \in Nat
  BY <1>0 DEF IInv, TypeInv, ReplyInv
<1>2. \A i \in 1 .. reply_size : body[i] \in Peers \cup {Blank, Garbage}
  BY <1>1 DEF IInv, TypeInv
<1>3. /\ SubSeq(body, 1, reply_size) \in Seq(Peers \cup {Blank, Garbage})
      /\ Len(SubSeq(body, 1, reply_size)) = reply_size
      /\ \A i \in 1 .. reply_size : SubSeq(body, 1, reply_size)[i] = body[i]
  BY <1>1, <1>2, SubSeqProperties
<1>4. IsPrefixOf(SubSeq(body, 1, reply_size), History)
  <2>1. Len(body) <= Len(History) /\ Len(History) \in Nat
    BY HistoryFacts DEF IInv, TypeInv, ReplyInv, IsPrefixOf, History
  <2> QED
    <3>1. \A i \in 1 .. Len(body) : body[i] = History[i]
      BY DEF IInv, ReplyInv, IsPrefixOf
    <3>2. reply_size <= Len(History) /\ \A i \in 1 .. reply_size : i \in 1 .. Len(body)
      BY <1>1, <2>1
    <3> QED
      BY <1>3, <3>1, <3>2 DEF IsPrefixOf
<1>5. Len(sent'.entries) = reply_size
  BY <1>0, <1>1
<1>6. \A i \in 1 .. reply_size : i > Gap => body[i - Gap] = History[i - Gap]
  BY <1>1, PeerAssumption DEF IInv, ReplyInv, IsPrefixOf
<1>7. \A i \in 1 .. reply_size : sent'.entries[i] = IF i <= Gap THEN Blank ELSE History[i - Gap]
  BY <1>0, <1>6, PeerAssumption
<1> QED
  BY <1>0, <1>3, <1>4, <1>5, <1>7 DEF ReplyHashesSnapshot

\* Every step of the server thread preserves the invariant.
LEMMA ServerInvStep == IInv /\ ServerStep => IInv'
<1> SUFFICES ASSUME IInv, ServerStep PROVE IInv'
  OBVIOUS
<1> USE DEF array, server, client, outcome
<1>1. CASE Undefined \/ Accept \/ HandleRetreive \/ SizeReply \/ SizeBody
  <2>1. UNCHANGED <<array, client, sent>>
    BY <1>1 DEF Undefined, Accept, HandleRetreive, SizeReply, SizeBody
  <2>2. /\ spc' = spc \/ spc' \in {"accept", "retreive", "size", "room", "copy", "grow"}
        /\ request' \in Peers
        /\ reply_size' \in Nat
        /\ room' \in Nat
        /\ body' \in Seq(Peers \cup {Blank, Garbage})
        /\ requests' \in Nat
        /\ \/ requests' = requests /\ (spc = "accept" => spc' = "accept")
           \/ requests' = requests + 1 /\ spc = "accept" /\ requests < MaxRequests
    <3>0. /\ request \in Peers /\ reply_size \in Nat /\ room \in Nat /\ requests \in Nat
          /\ body \in Seq(Peers \cup {Blank, Garbage}) /\ peer_count \in Nat
          /\ << >> \in Seq(Peers \cup {Blank, Garbage})
      BY EmptySeq DEF IInv, TypeInv
    <3>1. CASE Undefined
      BY <3>0, <3>1 DEF Undefined
    <3>2. CASE Accept
      BY <3>0, <3>2 DEF Accept, Peers
    <3>3. CASE HandleRetreive \/ SizeReply \/ SizeBody
      BY <3>0, <3>3 DEF HandleRetreive, SizeReply, SizeBody
    <3> QED
      BY <1>1, <3>1, <3>2, <3>3
  <2>3. TypeInv'
    BY <2>1, <2>2 DEF IInv, TypeInv
  <2>7. CountInv'
    <3>1. /\ peer_count' = peer_count /\ added' = added /\ Joining' = Joining
          /\ peer_count \in Nat /\ requests \in Nat /\ MaxRequests \in Nat
      BY <2>1, PeerAssumption DEF IInv, TypeInv, Joining
    <3>2. \/ requests' = requests /\ (Pending' => Pending)
          \/ requests' = requests + 1 /\ ~Pending /\ requests < MaxRequests
      BY <2>2 DEF Pending
    <3> QED
      BY <3>1, <3>2 DEF IInv, CountInv
  <2>4. ListInv'
    BY <2>1 DEF IInv, ListInv, History
  <2>5. IsPrefixOf(<< >>, History)
    BY HistoryFacts, EmptySeq DEF IInv, TypeInv, History, IsPrefixOf
  <2>6. ReplyInv'
    <3>1. ReplyHashesSnapshot'
      BY <2>1 DEF IInv, ReplyInv, ReplyHashesSnapshot, History
    <3> QED
      BY <1>1, <2>1, <2>5, <3>1 DEF IInv, TypeInv, ReplyInv, History, Undefined, Accept,
         HandleRetreive, SizeReply, SizeBody
  <2> QED
    BY <2>3, <2>4, <2>6, <2>7 DEF IInv
<1>2. CASE CopyEntry /\ ~Undefined
  BY <1>2, CopyRight
     DEF CopyEntry, IInv, TypeInv, CountInv, Pending, Joining, ListInv,
         ReplyInv, ReplyHashesSnapshot, History
<1>3. CASE SendReply
  BY <1>3, SendRight
     DEF SendReply, IInv, TypeInv, CountInv, Pending, Joining, ListInv,
         ReplyInv, ReplyHashesSnapshot, History
<1>4. CASE ServerRealloc /\ ~Undefined
  <2>1. peer_count + 1 \in Nat /\ Realloc("server", peer_count + 1)
    BY <1>4 DEF IInv, TypeInv, ServerRealloc
  <2>2. /\ network' \in [Indices -> Peers \cup {Blank, Garbage}]
        /\ slots' \in Nat
        /\ moving' \subseteq {"server", "client"}
        /\ ListInv'
    BY <2>1, ReallocStep
  <2> QED
    BY <1>4, <2>1, <2>2
       DEF ServerRealloc, Realloc, IInv, TypeInv, CountInv, Pending, Joining,
           ReplyInv, ReplyHashesSnapshot, History
<1>5. CASE ServerStore
  BY <1>5 DEF ServerStore, StoreResult, IInv, TypeInv, CountInv, Pending, Joining, ListInv,
       ReplyInv, ReplyHashesSnapshot, History
<1>6. CASE ServerAlloc /\ ~Undefined
  <2>1. peer_count \in Indices
    BY <1>6, PeerAssumption DEF ServerAlloc, IInv, TypeInv, CountInv, Pending, Indices
  <2>2. network' \in [Indices -> Peers \cup {Blank, Garbage}]
        /\ \A i \in Indices \ {peer_count} : network'[i] = network[i]
    BY <1>6, <2>1 DEF ServerAlloc, IInv, TypeInv
  <2>3. \A i \in 0 .. peer_count - 1 : i \in Indices \ {peer_count}
    BY <2>1, PeerAssumption DEF IInv, TypeInv, Indices
  <2>4. ListInv'
    BY <1>6, <2>2, <2>3 DEF ServerAlloc, IInv, ListInv, History
  <2> QED
    BY <1>6, <2>2, <2>4
       DEF ServerAlloc, IInv, TypeInv, CountInv, Pending, Joining,
           ReplyInv, ReplyHashesSnapshot, History
<1>7. CASE ServerAdd /\ ~Undefined
  <2>1. CountIn(request) /\ request \in Known /\ Pending /\ ~Pending'
    BY <1>7 DEF ServerAdd, IInv, TypeInv, Pending, Known
  <2>2. /\ network' \in [Indices -> Peers \cup {Blank, Garbage}]
        /\ added' \in Seq(Known)
        /\ peer_count' = 1 + Len(added')
        /\ ListInv'
        /\ ReplyInv'
    BY <1>7, <2>1, CountInStep DEF ServerAdd
  <2>3. CountInv'
    BY <1>7, <2>1, <2>2 DEF ServerAdd, CountIn, IInv, TypeInv, CountInv, Joining
  <2>4. TypeInv'
    BY <1>7, <2>1, <2>2 DEF ServerAdd, CountIn, IInv, TypeInv
  <2> QED
    BY <2>2, <2>3, <2>4 DEF IInv
<1> QED
  BY <1>1, <1>2, <1>3, <1>4, <1>5, <1>6, <1>7 DEF ServerStep

\* Every step of the client thread preserves the invariant.
LEMMA ClientInvStep == IInv /\ ClientStep => IInv'
<1> SUFFICES ASSUME IInv, ClientStep PROVE IInv'
  OBVIOUS
<1> USE DEF array, server, client, outcome
<1>1. CASE Undefined \/ PickEntry \/ PickPeer \/ RetrieveReturns
  <2>1. /\ UNCHANGED <<array, server, has_client, reply_peers>>
        /\ cpc' = cpc \/ cpc' \in {"tiny", "hamlet", "pick_hamlet", "done"}
    BY <1>1 DEF Undefined, Picking, PickEntry, PickPeer, RetrieveReturns
  <2>2. TypeInv' /\ CountInv'
    BY <2>1 DEF IInv, TypeInv, CountInv, Pending, Joining
  <2> QED
    BY <2>1, <2>2 DEF IInv, ListInv, ReplyInv, ReplyHashesSnapshot, History
<1>2. CASE ClientRegister
  <2>1. cpc' = "grow" => reply_peers' \in Seq(Peers)
    <3> SUFFICES ASSUME cpc' = "grow" PROVE reply_peers' \in Seq(Peers)
      OBVIOUS
    <3>1. PICK n \in ReplyLens : reply_peers' \in [1 .. n -> Peers]
      BY <1>2 DEF ClientRegister
    <3>2. n \in Nat
      BY PeerAssumption
    <3> QED
      BY <3>1, <3>2
  <2> QED
    <3>1. UNCHANGED <<array, server, has_client>> /\ cpc = "register"
          /\ cpc' \in {"grow", "pick_tiny"}
      BY <1>2 DEF ClientRegister
    <3>2. TypeInv' /\ CountInv'
      BY <2>1, <3>1 DEF IInv, TypeInv, CountInv, Pending, Joining
    <3> QED
      BY <3>1, <3>2 DEF IInv, ListInv, ReplyInv, ReplyHashesSnapshot, History
<1>3. CASE ClientRealloc /\ ~Undefined
  <2>1. 1 + Len(reply_peers) \in Nat /\ Realloc("client", 1 + Len(reply_peers))
    BY <1>3 DEF IInv, TypeInv, ClientRealloc
  <2>2. /\ network' \in [Indices -> Peers \cup {Blank, Garbage}]
        /\ slots' \in Nat
        /\ moving' \subseteq {"server", "client"}
        /\ ListInv'
    BY <2>1, ReallocStep
  <2> QED
    BY <1>3, <2>1, <2>2
       DEF ClientRealloc, Realloc, IInv, TypeInv, CountInv, Pending, Joining,
           ReplyInv, ReplyHashesSnapshot, History
<1>4. CASE ClientStore
  BY <1>4 DEF ClientStore, StoreResult, IInv, TypeInv, CountInv, Pending, Joining, ListInv,
       ReplyInv, ReplyHashesSnapshot, History
<1>5. CASE ClientAdd /\ ~Undefined
  <2> DEFINE p == IF reply_peers = << >> THEN Blank ELSE Head(reply_peers)
  <2>1. CountIn(p) /\ p \in Known /\ Joining /\ ~Joining'
    BY <1>5 DEF ClientAdd, IInv, TypeInv, Joining, Known
  <2> HIDE DEF p
  <2>2. /\ network' \in [Indices -> Peers \cup {Blank, Garbage}]
        /\ added' \in Seq(Known)
        /\ peer_count' = 1 + Len(added')
        /\ ListInv'
        /\ ReplyInv'
    BY <1>5, <2>1, CountInStep DEF ClientAdd
  <2>5. /\ cpc' = "pick_tiny" /\ peer_count' = peer_count + 1
        /\ UNCHANGED <<server, slots, moving, has_client, reply_peers>>
    BY <1>5 DEF ClientAdd, CountIn
  <2>3. CountInv'
    <3>1. Pending' = Pending /\ peer_count \in Nat /\ requests \in Nat /\ MaxRequests \in Nat
      BY <2>5, PeerAssumption DEF IInv, TypeInv, Pending
    <3> QED
      BY <2>1, <2>2, <2>5, <3>1 DEF IInv, CountInv
  <2>4. TypeInv'
    BY <2>2, <2>5 DEF IInv, TypeInv
  <2> QED
    BY <2>2, <2>3, <2>4 DEF IInv
<1> QED
  BY <1>1, <1>2, <1>3, <1>4, <1>5 DEF ClientStep

\* The invariant holds in every state that an execution reaches.
LEMMA Invariance == Spec => []IInv
<1>1. Init => IInv
  <2> SUFFICES ASSUME Init PROVE IInv
    OBVIOUS
  <2>1. TypeInv
    BY EmptySeq, PeerAssumption DEF Init, TypeInv, Peers, Known
  <2>2. CountInv
    BY EmptySeq, PeerAssumption DEF Init, CountInv, Pending, Joining
  <2>3. History = <<Me>>
    BY ConcatEmptySeq, EmptySeq DEF Init, History, Peers
  <2>4. ListInv
    BY <2>3, PeerAssumption DEF Init, ListInv, Indices
  <2>5. ReplyInv
    BY <2>3 DEF Init, ReplyInv, IsPrefixOf, ReplyHashesSnapshot
  <2> QED
    BY <2>1, <2>2, <2>4, <2>5 DEF IInv
<1>2. IInv /\ [Next]_vars => IInv'
  <2> SUFFICES ASSUME IInv, [Next]_vars PROVE IInv'
    OBVIOUS
  <2>1. CASE UNCHANGED vars
    BY <2>1 DEF vars, array, server, client, IInv, TypeInv, CountInv, Pending, Joining, ListInv,
         ReplyInv, ReplyHashesSnapshot, History
  <2> QED
    BY <2>1, ServerInvStep, ClientInvStep DEF Next
<1> QED
  BY <1>1, <1>2, PTL DEF Spec

\* The list whose length and hash a registering peer is sent is the list of some
\* moment, for any number of peers and requests, although the mutex covers neither the
\* reallocation nor the allocation of a new entry, and although the length is read
\* before the copy.  What follows that header is the list moved by Gap entries: the
\* assembly of the reply (peer.c:477) counts in pointers.
THEOREM SnapshotHashed == Spec => []ReplyHashesSnapshot
<1>1. IInv => ReplyHashesSnapshot
  BY DEF IInv, ReplyInv
<1> QED
  BY <1>1, Invariance, PTL

-----------------------------------------------------------------------------
(***************************************************************************)
(* The server alone.  Between the realloc and the unlock nobody else moves *)
(* the array or the counter, so that the slot it made is still there.      *)
(***************************************************************************)
AloneInv ==
  ~has_client =>
    /\ ~undefined
    /\ cpc = "none"
    /\ moving = IF spc = "store" THEN {"server"} ELSE {}
    /\ peer_count + (IF spc \in {"store", "alloc", "add"} THEN 1 ELSE 0) <= slots
    /\ \A i \in 0 .. peer_count - 1 : network[i] = History[i + 1]
    /\ spc = "add" => network[peer_count] = Blank
    /\ spc = "copy" => room = peer_count

\* A peer that was counted in is not a pointer that was never set.
LEMMA PeerIsSet ==
  ASSUME IInv, NEW i \in 0 .. peer_count - 1, network[i] = History[i + 1]
  PROVE  network[i] # Garbage
<1>1. History \in Seq(Known) /\ Len(History) = peer_count /\ peer_count \in Nat
  BY HistoryFacts DEF IInv, TypeInv, CountInv, History
<1>2. i + 1 \in 1 .. Len(History)
  BY <1>1
<1>3. History[i + 1] \in Known
  BY <1>1, <1>2
<1> QED
  BY <1>3, PeerAssumption DEF Peers, Known

\* Without a client thread the array has room whenever the server adds a peer.
LEMMA AloneStep == IInv /\ AloneInv /\ [Next]_vars => AloneInv'
<1> SUFFICES ASSUME IInv, AloneInv, [Next]_vars, ~has_client' PROVE AloneInv'
  BY DEF AloneInv
<1> USE DEF array, server, client, outcome
<1>1. ~has_client
  BY DEF Next, ServerStep, ClientStep, Undefined, Accept, HandleRetreive, SizeReply, SizeBody,
     CopyEntry, SendReply, ServerRealloc, ServerStore, ServerAlloc, ServerAdd, ClientRegister,
     ClientRealloc, ClientStore, ClientAdd, PickEntry, PickPeer, RetrieveReturns, vars
<1>2. /\ ~undefined
      /\ cpc = "none"
      /\ moving = IF spc = "store" THEN {"server"} ELSE {}
      /\ peer_count + (IF spc \in {"store", "alloc", "add"} THEN 1 ELSE 0) <= slots
      /\ \A i \in 0 .. peer_count - 1 : network[i] = History[i + 1]
      /\ spc = "add" => network[peer_count] = Blank
      /\ spc = "copy" => room = peer_count
  BY <1>1 DEF AloneInv
<1>3. ~ClientStep
  BY <1>2 DEF ClientStep, ClientRegister, ClientRealloc, ClientStore, ClientAdd,
     Picking, PickEntry, PickPeer, RetrieveReturns
<1>4. peer_count \in Nat /\ slots \in Nat /\ Len(body) \in Nat
  BY DEF IInv, TypeInv
<1>5. CASE Accept \/ HandleRetreive \/ SizeReply \/ SizeBody \/ SendReply \/ UNCHANGED vars
  <2>1. UNCHANGED <<array, client, undefined>>
    BY <1>5 DEF Accept, HandleRetreive, SizeReply, SizeBody, SendReply, vars
  <2>2. /\ spc' \in {"store", "alloc", "add"} => spc = spc'
        /\ spc = "store" => spc' = "store"
        /\ spc' = "copy" => room' = peer_count
    BY <1>2, <1>5 DEF Accept, HandleRetreive, SizeReply, SizeBody, SendReply, vars
  <2> QED
    <3>1. UNCHANGED <<network, slots, peer_count, moving, History, cpc, undefined>>
      BY <2>1 DEF History
    <3>2. spc' # "store" => spc # "store"
      BY <2>2
    <3>3. (peer_count + (IF spc \in {"store", "alloc", "add"} THEN 1 ELSE 0) <= slots)'
      BY <1>2, <1>4, <2>2, <3>1
    <3>4. (moving = IF spc = "store" THEN {"server"} ELSE {})'
      BY <1>2, <2>2, <3>1, <3>2
    <3>5. (spc = "add" => network[peer_count] = Blank)'
      BY <1>2, <2>2, <3>1
    <3> QED
      BY <1>2, <2>2, <3>1, <3>3, <3>4, <3>5 DEF AloneInv
<1>6. CASE CopyEntry
  <2>1. Len(body) \in 0 .. peer_count - 1 /\ Len(body) < slots /\ Len(body) < room /\ moving = {}
    BY <1>2, <1>4, <1>6 DEF CopyEntry
  <2>2. Defined(Len(body))
    BY <1>2, <2>1, PeerIsSet DEF Defined, Usable
  <2> QED
    BY <1>2, <1>6, <2>1, <2>2 DEF CopyEntry, AloneInv, History
<1>7. CASE ServerRealloc
  <2>1. /\ Realloc("server", peer_count + 1)
        /\ spc' = "store"
        /\ UNCHANGED <<client, outcome, room>>
    BY <1>2, <1>7 DEF ServerRealloc
  <2>2. \A i \in 0 .. peer_count - 1 : i \in Indices /\ i < slots /\ i < peer_count + 1
    BY <1>2, <1>4, PeerAssumption DEF IInv, TypeInv, CountInv, Indices
  <2>3. \A i \in 0 .. peer_count - 1 : network'[i] = network[i]
    BY <2>1, <2>2 DEF Realloc
  <2>4. moving' = {"server"}
    BY <1>2, <1>7, <2>1 DEF Realloc, ServerRealloc
  <2> QED
    <3>1. /\ UNCHANGED <<peer_count, History, cpc, undefined>>
          /\ slots' = peer_count + 1
      BY <2>1 DEF Realloc, History
    <3>2. (\A i \in 0 .. peer_count - 1 : network[i] = History[i + 1])'
      BY <1>2, <2>3, <3>1
    <3> QED
      BY <1>2, <1>4, <2>1, <2>4, <3>1, <3>2 DEF AloneInv
<1>8. CASE ServerStore
  BY <1>2, <1>4, <1>8 DEF ServerStore, StoreResult, AloneInv, History
<1>9. CASE ServerAlloc
  <2>1. Usable(peer_count)
    BY <1>2, <1>4, <1>9 DEF ServerAlloc, Usable
  <2>2. peer_count \in Indices
    BY <1>9, PeerAssumption DEF ServerAlloc, IInv, TypeInv, CountInv, Pending, Indices
  <2>3. network'[peer_count] = Blank
        /\ \A i \in Indices \ {peer_count} : network'[i] = network[i]
    BY <1>9, <2>1, <2>2 DEF ServerAlloc, IInv, TypeInv
  <2>4. \A i \in 0 .. peer_count - 1 : i \in Indices \ {peer_count}
    BY <2>2, PeerAssumption DEF IInv, TypeInv, Indices
  <2> QED
    BY <1>2, <1>4, <1>9, <2>1, <2>3, <2>4 DEF ServerAlloc, AloneInv, History
<1>10. CASE ServerAdd
  <2>1. Defined(peer_count)
    BY <1>2, <1>4, <1>10, PeerAssumption DEF ServerAdd, Defined, Usable
  <2>2. CountIn(request) /\ request \in Known /\ spc' = "accept"
        /\ UNCHANGED <<client, outcome>>
    BY <1>10, <2>1 DEF ServerAdd, IInv, TypeInv, Known
  <2>3. /\ Len(History') = Len(History) + 1
        /\ \A i \in 1 .. Len(History) : History'[i] = History[i]
        /\ History'[Len(History) + 1] = request
    BY <2>2, HistoryGrows DEF IInv, TypeInv, CountIn
  <2>4. Len(History) = peer_count
    BY HistoryFacts DEF IInv, TypeInv, CountInv, History
  <2>5. peer_count \in Indices
    BY <1>10, PeerAssumption DEF ServerAdd, IInv, TypeInv, CountInv, Pending, Indices
  <2>6. /\ network'[peer_count] = request
        /\ \A i \in Indices \ {peer_count} : network'[i] = network[i]
    BY <2>2, <2>5 DEF IInv, TypeInv, CountIn
  <2>7. ASSUME NEW i \in 0 .. peer_count' - 1 PROVE network'[i] = History'[i + 1]
    <3>1. peer_count' = peer_count + 1
      BY <2>2 DEF CountIn
    <3>2. CASE i = peer_count
      BY <2>3, <2>4, <2>6, <3>2
    <3>3. CASE i # peer_count
      <4>1. i \in 0 .. peer_count - 1 /\ i + 1 \in 1 .. Len(History) /\ i \in Indices
        BY <1>4, <2>4, <2>5, <3>1, <3>3, PeerAssumption DEF Indices
      <4> QED
        BY <1>2, <2>3, <2>6, <3>3, <4>1
    <3> QED
      BY <3>2, <3>3
  <2>8. (peer_count + (IF spc \in {"store", "alloc", "add"} THEN 1 ELSE 0) <= slots)'
        /\ moving' = {}
    BY <1>2, <1>4, <1>10, <2>2 DEF CountIn, ServerAdd
  <2>9. cpc' = "none" /\ ~undefined'
    BY <1>2, <2>2
  <2> QED
    BY <2>2, <2>7, <2>8, <2>9 DEF AloneInv
<1> QED
  BY <1>3, <1>5, <1>6, <1>7, <1>8, <1>9, <1>10 DEF Next, ServerStep

\* In a process without a client thread, the first peer of a network, the server uses
\* the list safely and has every peer in it that a request has brought, in order, for
\* any peers and any number of requests.
THEOREM ServerAloneKeepsList == Spec => []ListIsHistory
<1>1. Init => AloneInv
  <2> SUFFICES ASSUME Init PROVE AloneInv
    OBVIOUS
  <2>1. History = <<Me>> /\ network[0] = Me
    BY PeerAssumption DEF Init, History, Indices
  <2> QED
    BY <2>1 DEF Init, AloneInv
<1>2. IInv /\ AloneInv => ListIsHistory
  <2> SUFFICES ASSUME IInv, AloneInv PROVE ListIsHistory
    OBVIOUS
  <2>1. peer_count \in Nat /\ slots \in Nat
    BY DEF IInv, TypeInv
  <2> QED
    BY <2>1 DEF AloneInv, ListIsHistory
<1> QED
  BY <1>1, <1>2, Invariance, AloneStep, PTL DEF Spec

=============================================================================
