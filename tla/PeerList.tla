------------------------------ MODULE PeerList ------------------------------
(***************************************************************************)
(* The list of known peers of one peer of A4 (peer.c: network, peer_count, *)
(* network_mutex), shared by the two threads of the process: server_thread *)
(* answers register, inform and retrieve requests one after the other, and *)
(* client_thread, which exists only if the configuration names a peer,     *)
(* registers with that peer, adds what it learns, and picks random peers   *)
(* to retrieve files from.                                                 *)
(*                                                                         *)
(* The mutex covers only part of what the two threads do with the list, so *)
(* every access outside it is a step of its own; a lock, what it protects  *)
(* and the unlock are one step.  Memory is modelled as far as the code     *)
(* relies on it: how many pointers the array has room for, which of them   *)
(* were ever set, and whether a realloc is about to replace the array.  An *)
(* access that C leaves undefined ends the execution with undefined set.   *)
(***************************************************************************)
EXTENDS Integers, Sequences, FiniteSets

CONSTANTS Me,           \* my_address
          Others,       \* addresses of other peers
          Blank,        \* memory that nothing was copied to
          Garbage,      \* a pointer that was never set
          MaxRequests,  \* bound: requests that the server handles
          ReplyLens,    \* bound: numbers of peers in a reply to our registration
          Gap,          \* entries that fit between the header of a reply and the
                        \* place the list is copied to (28 in the code)
          FileSizes     \* sizes of the files that other peers ask for

ASSUME PeerAssumption ==
  /\ Me \notin Others
  /\ {Blank, Garbage} \cap (Others \cup {Me}) = {}
  /\ Blank # Garbage
  /\ MaxRequests \in Nat
  /\ ReplyLens \subseteq Nat
  /\ Gap \in Nat
  /\ FileSizes \subseteq Nat

VARIABLES
  network, slots,    \* the array of pointers and the number it has room for
  peer_count,
  moving,            \* threads between realloc and the store of its result
  spc, request, reply_size, room, body,  \* server: control, request, reply under way
  answer,            \* server: what was written for the last retrieve request
  requests,          \* requests handled so far
  has_client,        \* the configuration names a peer to register with
  cpc, reply_peers,  \* client: control, peers in the reply to the registration
  turn, potential,   \* client: index and candidates of the choice of a peer
  peer_address,      \* the peer that the client talks to next
  undefined, crashed,
  added,             \* history: the peers counted in, in order
  sent               \* history: the last reply to a registering peer

array   == <<network, slots, peer_count, moving, added>>
server  == <<spc, request, reply_size, room, body, answer, requests, sent>>
choice  == <<turn, potential, peer_address>>
client  == <<has_client, cpc, reply_peers, choice>>
outcome == <<undefined, crashed>>
vars    == <<array, server, client, outcome>>

REQUEST_HEADER_LEN == 28
PointerLen == 8
RefusalLen == 23   \* "Could not retrive file" and its end
NoAnswer == [of |-> 0, written |-> 0]

Peers   == Others \cup {Me}
Indices == 0 .. MaxRequests + 1

\* network[i] may be followed: it lies in the array, the array is not being
\* replaced by the other thread, and the pointer was set.
Usable(i)  == i < slots /\ moving = {}
Defined(i) == Usable(i) /\ network[i] # Garbage

Undefined == undefined' = TRUE /\ UNCHANGED <<array, server, client, crashed>>

Init ==
  /\ network = [i \in Indices |-> IF i = 0 THEN Me ELSE Garbage]
  /\ slots = 1
  /\ peer_count = 1
  /\ moving = {}
  /\ spc = "accept"
  /\ request = Me
  /\ reply_size = 0
  /\ room = 0
  /\ body = << >>
  /\ answer = NoAnswer
  /\ requests = 0
  /\ has_client \in BOOLEAN
  /\ cpc = IF has_client THEN "register" ELSE "none"
  /\ reply_peers = << >>
  /\ turn = 0
  /\ potential = {}
  /\ peer_address = Me
  /\ undefined = FALSE
  /\ crashed = FALSE
  /\ added = << >>
  /\ sent = [hashed |-> << >>, entries |-> << >>]

\* network = realloc(network, n): what lies beyond n is gone, and until the
\* result is stored every use of network goes to the old array.
Realloc(t, n) ==
  /\ slots' = n
  /\ network' = [i \in Indices |-> IF i < n /\ i < slots THEN network[i] ELSE Garbage]
  /\ moving' = moving \cup {t}
  /\ UNCHANGED <<peer_count, added>>

StoreResult(t) ==
  /\ moving' = moving \ {t}
  /\ UNCHANGED <<network, slots, peer_count, added>>

\* Faulty variant, for mutation testing: the peer goes to the last used slot.
CountInOverLast(peer) ==
  /\ network' = [network EXCEPT ![peer_count - 1] = peer]
  /\ peer_count' = peer_count + 1
  /\ added' = Append(added, peer)
  /\ UNCHANGED <<slots, moving>>

\* Copy a peer to network[peer_count] and count it, under network_mutex.
CountIn(peer) ==
  /\ network' = [network EXCEPT ![peer_count] = peer]
  /\ peer_count' = peer_count + 1
  /\ added' = Append(added, peer)
  /\ UNCHANGED <<slots, moving>>

-----------------------------------------------------------------------------
(***************************************************************************)
(* server_thread and handle_server_request.                                *)
(***************************************************************************)

\* accept a connection and read a request: register from, or inform about, a, or
\* a file to retrieve.  A request with another command is dropped.
Accept ==
  /\ spc = "accept"
  /\ requests < MaxRequests
  /\ \E a \in Others : request' = a
  /\ spc' \in {"size", "grow", "retreive", "accept"}
  /\ requests' = requests + 1
  /\ UNCHANGED <<array, reply_size, room, body, answer, sent, client, outcome>>

\* send_message_reponse: sizeof(data) is the size of a pointer, so that there is
\* one block of that length.  Its header is put together but not written; what
\* is written are so many bytes of the data, and of what lies behind it.
Response(size) == [of |-> size, written |-> REQUEST_HEADER_LEN + PointerLen]

\* handle_retreive: a file that does not exist is refused with a message; one
\* that cannot be opened, held in memory or read is not answered at all.
HandleRetreive ==
  /\ spc = "retreive"
  /\ answer' \in {Response(n) : n \in FileSizes \cup {RefusalLen}} \cup {NoAnswer}
  /\ spc' = "accept"
  /\ UNCHANGED <<array, request, reply_size, room, body, requests, sent, client, outcome>>

\* handle_register reads peer_count twice without the mutex: for the length of
\* the reply, and for the room of the array that the list is copied to.
SizeReply ==
  /\ spc = "size"
  /\ reply_size' = peer_count
  /\ spc' = "room"
  /\ UNCHANGED <<array, request, room, body, answer, requests, sent, client, outcome>>

SizeBody ==
  /\ spc = "room"
  /\ room' = peer_count
  /\ body' = << >>
  /\ spc' = "copy"
  /\ UNCHANGED <<array, request, reply_size, answer, requests, sent, client, outcome>>

\* handle_register: one turn of the loop over the list, under the mutex.
CopyEntry ==
  LET i == Len(body) IN
  /\ spc = "copy"
  /\ i < peer_count
  /\ IF Defined(i) /\ i < room
       THEN /\ body' = Append(body, network[i])
            /\ UNCHANGED <<array, spc, request, reply_size, room, answer, requests, sent, client, outcome>>
       ELSE Undefined

\* handle_register: as many entries of the list as were announced are hashed.  The
\* reply is an array of pointers, so that the list is copied to eight times the
\* length of the header; what is written are the header and so many bytes behind
\* it: first memory of the stack that nothing was copied to, and then the list, cut
\* off at its end.
SendReply ==
  /\ spc = "copy"
  /\ Len(body) >= peer_count
  /\ sent' = [hashed  |-> SubSeq(body, 1, reply_size),
              entries |-> [i \in 1 .. reply_size |-> IF i <= Gap THEN Blank ELSE body[i - Gap]]]
  /\ spc' = "grow"
  /\ UNCHANGED <<array, request, reply_size, room, body, answer, requests, client, outcome>>

\* Faulty variant: room for the peers there are, not for one more.
ServerReallocNoRoom ==
  /\ spc = "grow"
  /\ IF moving = {}
       THEN /\ Realloc("server", peer_count)
            /\ spc' = "store"
            /\ UNCHANGED <<request, reply_size, room, body, answer, requests, sent, client, outcome>>
       ELSE Undefined

\* handle_register, handle_inform: make room for one more pointer.
ServerRealloc ==
  /\ spc = "grow"
  /\ IF moving = {}
       THEN /\ Realloc("server", peer_count + 1)
            /\ spc' = "store"
            /\ UNCHANGED <<request, reply_size, room, body, answer, requests, sent, client, outcome>>
       ELSE Undefined

ServerStore ==
  /\ spc = "store"
  /\ StoreResult("server")
  /\ spc' = "alloc"
  /\ UNCHANGED <<request, reply_size, room, body, answer, requests, sent, client, outcome>>

\* network[peer_count] = malloc(...), still without the mutex.
ServerAlloc ==
  /\ spc = "alloc"
  /\ IF Usable(peer_count)
       THEN /\ network' = [network EXCEPT ![peer_count] = Blank]
            /\ spc' = "add"
            /\ UNCHANGED <<slots, peer_count, moving, added, request, reply_size, room, body, answer,
                           requests, sent, client, outcome>>
       ELSE Undefined

ServerAdd ==
  /\ spc = "add"
  /\ IF Defined(peer_count)
       THEN /\ CountIn(request)
            /\ spc' = "accept"
            /\ UNCHANGED <<request, reply_size, room, body, answer, requests, sent, client, outcome>>
       ELSE Undefined

ServerStep ==
  \/ Accept \/ HandleRetreive \/ SizeReply \/ SizeBody \/ CopyEntry \/ SendReply
  \/ ServerRealloc \/ ServerStore \/ ServerAlloc \/ ServerAdd

-----------------------------------------------------------------------------
(***************************************************************************)
(* client_thread with send_message(COMMAND_REGISTER) and get_random_peer.  *)
(***************************************************************************)

\* The reply is accepted and lists some peers or none, possibly ourselves, if the
\* other peer knew us before; or a check of send_message fails and it returns
\* without touching the list.
ClientRegister ==
  /\ cpc = "register"
  /\ \/ /\ \E n \in ReplyLens : reply_peers' \in [1 .. n -> Peers]
        /\ cpc' = "grow"
     \/ /\ cpc' = "pick_tiny"
        /\ UNCHANGED reply_peers
  /\ UNCHANGED <<array, server, has_client, choice, outcome>>

\* Room for our own address and the peers of the reply, without the mutex.
ClientRealloc ==
  /\ cpc = "grow"
  /\ IF moving = {}
       THEN /\ Realloc("client", 1 + Len(reply_peers))
            /\ cpc' = "store"
            /\ UNCHANGED <<server, has_client, reply_peers, choice, outcome>>
       ELSE Undefined

ClientStore ==
  /\ cpc = "store"
  /\ StoreResult("client")
  /\ cpc' = "add"
  /\ UNCHANGED <<server, has_client, reply_peers, choice, outcome>>

\* Only the first peer of the reply is added, allocated under the mutex; of a reply
\* without one, whatever lies behind it.
ClientAdd ==
  /\ cpc = "add"
  /\ IF Usable(peer_count)
       THEN /\ CountIn(IF reply_peers = << >> THEN Blank ELSE Head(reply_peers))
            /\ cpc' = "pick_tiny"
            /\ UNCHANGED <<server, has_client, reply_peers, choice, outcome>>
       ELSE Undefined

Picking == cpc \in {"pick_tiny", "pick_hamlet"}

\* get_random_peer: one turn of its loop over the list, without the mutex.
PickEntry ==
  /\ Picking
  /\ turn < peer_count
  /\ IF Defined(turn)
       THEN /\ potential' = potential \cup ({network[turn]} \ {Me})
            /\ turn' = turn + 1
            /\ UNCHANGED <<array, server, has_client, cpc, reply_peers, peer_address, outcome>>
       ELSE Undefined

\* get_random_peer: the random index is taken modulo the number of candidates, also
\* if there is none.
PickPeer ==
  /\ Picking
  /\ turn >= peer_count
  /\ \/ /\ potential = {}
        /\ crashed' = TRUE
        /\ UNCHANGED <<array, server, client, undefined>>
     \/ /\ peer_address' \in potential
        /\ cpc' = IF cpc = "pick_tiny" THEN "tiny" ELSE "hamlet"
        /\ turn' = 0
        /\ potential' = {}
        /\ UNCHANGED <<array, server, has_client, reply_peers, outcome>>

\* send_message(COMMAND_RETREIVE) returns; it does not touch the list.
RetrieveReturns ==
  /\ cpc \in {"tiny", "hamlet"}
  /\ cpc' = IF cpc = "tiny" THEN "pick_hamlet" ELSE "done"
  /\ UNCHANGED <<array, server, has_client, reply_peers, choice, outcome>>

ClientStep ==
  \/ ClientRegister \/ ClientRealloc \/ ClientStore \/ ClientAdd
  \/ PickEntry \/ PickPeer \/ RetrieveReturns

Next == ~undefined /\ ~crashed /\ (ServerStep \/ ClientStep)

Spec == Init /\ [][Next]_vars

-----------------------------------------------------------------------------
(***************************************************************************)
(* Properties.                                                             *)
(***************************************************************************)

\* Our own address, followed by every peer in the order of its addition.
History == <<Me>> \o added

IsPrefixOf(s, t) == Len(s) <= Len(t) /\ \A i \in 1 .. Len(s) : s[i] = t[i]

\* The first peer of a network has no client thread.  Nothing its server does with
\* the list is undefined, and the list is exactly the history: every request that
\* was handled is in it, in order, and the array has room for all of it.
ListIsHistory ==
  ~has_client =>
    /\ ~undefined
    /\ peer_count <= slots
    /\ \A i \in 0 .. peer_count - 1 : network[i] = History[i + 1]

\* What a registering peer is told of the list.  The length and the hash of the
\* reply are those of the list of some moment: no hole, no repetition and no entry
\* that is still being written.  The entries behind the header are not that list:
\* each is memory that nothing was copied to or the peer whose place in the list is
\* Gap entries earlier, so that the last Gap peers are never told.
ReplyHashesSnapshot ==
  /\ IsPrefixOf(sent.hashed, History)
  /\ Len(sent.entries) = Len(sent.hashed)
  /\ \A i \in 1 .. Len(sent.entries) :
       sent.entries[i] = IF i <= Gap THEN Blank ELSE History[i - Gap]

\* peer.c:451 "Aquiring lock so other thread can't access network list", and
\* peer.c:508: the array is reallocated "to contain one more pointer".  So no
\* thread may find the list replaced, or too small for the peer it adds.
NoUndefinedAccess == ~undefined

=============================================================================
