--------------------------- MODULE ServerRequest ---------------------------
(***************************************************************************)
(* How the server of A4 reads a request (handle_server_request in peer.c): *)
(* one buffered read for the header, and then, without a read of its own,  *)
(* the body straight out of the internal buffer of compsys_helpers, behind *)
(* the place where it expects the header.  The message that the other side *)
(* writes is CompsysHelpers' Message: a header of HeaderLen bytes, a body  *)
(* of BodyLen bytes, and possibly more.                                    *)
(*                                                                         *)
(* The other callers of the helpers are here as well: caller is "any" in   *)
(* the executions in which calls follow each other as CompsysHelpers has   *)
(* them.                                                                   *)
(***************************************************************************)
EXTENDS CompsysHelpers

CONSTANTS HeaderLen,  \* REQUEST_HEADER_LEN
          BodyLen,    \* the length in the header, or sizeof(PeerAddress_t)
          None        \* no body was taken

ASSUME RequestAssumption ==
  /\ HeaderLen \in Nat \ {0}
  /\ BodyLen \in Nat
  /\ HeaderLen + BodyLen <= Len(Message)
  /\ HeaderLen + BodyLen <= BufSize

VARIABLES caller,  \* "any" or "server"
          body,    \* what the server took for the body
          first    \* history: bytes that the first read() of the server returned

serve_vars == <<vars, caller, body, first>>

ServeInit ==
  /\ Init
  /\ caller \in {"any", "server"}
  /\ caller = "server" => style = "buffered"
  /\ body = None
  /\ first = 0

AnyCall ==
  /\ caller = "any"
  /\ Call
  /\ UNCHANGED <<caller, body, first>>

\* readinitb on the new connection, and readnb of the header.
ReadRequest ==
  /\ caller = "server"
  /\ kind = "none"
  /\ Call
  /\ kind' = "readnb"
  /\ n' = HeaderLen
  /\ UNCHANGED <<caller, body, first>>

Reading ==
  /\ Reader
  /\ first' = IF caller = "server" /\ first = 0 THEN got' ELSE first
  /\ UNCHANGED <<caller, body>>

\* The bytes of compsys_helper_buf from the given place on.
Slice(from, len) == [i \in 1 .. len |-> buf[from + i - 1]]

\* Faulty variant, for mutation testing: the body is taken from the beginning.
TakeBodyFromStart ==
  /\ caller = "server"
  /\ kind = "readnb"
  /\ rpc = "returned"
  /\ body = None
  /\ body' = Slice(0, BodyLen)
  /\ UNCHANGED <<vars, caller, first>>

\* A retrieve or inform request: memcpy from behind the header.  The result of the
\* read is not looked at; if it was short, command and length are whatever the
\* stack held there, and the request is dropped or any part of the buffer taken.
TakeBody ==
  /\ caller = "server"
  /\ kind = "readnb"
  /\ rpc = "returned"
  /\ body = None
  /\ \/ ret = HeaderLen /\ body' = Slice(HeaderLen, BodyLen)
     \/ ret < HeaderLen /\ \E len \in 0 .. BufSize - HeaderLen : body' = Slice(HeaderLen, len)
  /\ UNCHANGED <<vars, caller, first>>

ServeNext ==
  \/ Writer /\ UNCHANGED <<caller, body, first>>
  \/ AnyCall
  \/ ReadRequest
  \/ Reading
  \/ TakeBody

\* As in CompsysHelpers: write() and read() return, and the writer closes.
ServeSpec ==
  /\ ServeInit
  /\ [][ServeNext]_serve_vars
  /\ WF_serve_vars(Writer /\ UNCHANGED <<caller, body, first>>)
  /\ WF_serve_vars(Reading /\ (ReadPlain \/ Refill \/ CopyOut \/ ReadEof))

\* The server finds the body behind the header whenever the first read() brought
\* the whole request, also if more is on its way and arrives before the body is
\* taken (peer.c:643 and :650); a request that read() divides is not safe.
BodyIsWhole ==
  body # None /\ first >= HeaderLen + BodyLen =>
    body = SubSeq(Message, HeaderLen + 1, HeaderLen + BodyLen)

=============================================================================
