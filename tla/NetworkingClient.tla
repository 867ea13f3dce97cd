-------------------------- MODULE NetworkingClient --------------------------
(***************************************************************************)
(* The client of A3 (networking.c), started again and again: it looks for  *)
(* the salt file of the user, makes and saves a salt if there is none,     *)
(* registers the user with the signature of password and salt, and asks    *)
(* for two files.  The process may be killed between any two steps; what   *)
(* survives is the salt file and what the server has stored.               *)
(*                                                                         *)
(* A string is the sequence of its characters up to the terminator, so an  *)
(* empty one stands for a buffer that begins with a NUL.  The hash of a    *)
(* string is the string.  The server and the network are external: a       *)
(* connection may be refused, any field of a reply may be damaged, a reply *)
(* may end too early, and the server closes the connection when it has     *)
(* answered.                                                               *)
(***************************************************************************)
EXTENDS Integers, Sequences

CONSTANTS Users,
          Chars,        \* characters
          Passwords,    \* strings that are typed as a password
          Letters,      \* the characters of a generated salt
          Junk,         \* strings that uninitialised stack memory may hold
          Pointers,     \* the bytes of a stack address, read as a string
          Newline,
          None,         \* nothing printed, requested or answered
          Missing,      \* no salt file, or a user whom the server does not know
          SaltLen,      \* SALT_LEN
          Addresses,    \* the addresses that getaddrinfo finds for the server
          MaxStarts,    \* bound: starts of the program
          Damage        \* bound: sets of the fields that a reply loses together

ASSUME ClientAssumption ==
  /\ Letters \cup {Newline} \subseteq Chars
  /\ Passwords \cup Junk \cup Pointers \subseteq Seq(Chars)
  /\ Newline \notin Letters
  /\ None \notin Nat /\ None # "registered"
  /\ Missing \notin Seq(Chars)
  /\ SaltLen \in Nat \ {0, 1}
  /\ MaxStarts \in Nat
  /\ Addresses \in Nat
  /\ Damage \subseteq SUBSET {"length", "status", "text"}

VARIABLES
  pc,                    \* where main is; "off" when no client is running
  username, password,
  user_salt,             \* the buffer of main, as a string
  stack,                 \* the address of that buffer, as get_file's &salt reads it
  got,                   \* calls of get_file that have returned
  salt_file,             \* user_salts/<username>.salt of every user, or Missing
  registry,              \* the server's users and their signatures
  request, reply,        \* the connection: what was sent and what has come back
  shown,                 \* what register_user printed last
  starts,
  found,                 \* history: this start read its salt from the file
  altered,               \* history: the status in the reply to register_user was
                         \* not the one that the server sent
  settled                \* history: the password with which a start that had read
                         \* its salt from the file was registered, or Missing

local   == <<username, password, user_salt, stack, got>>
wire    == <<request, reply>>
history == <<found, altered, settled>>
vars    == <<pc, local, salt_file, registry, wire, shown, starts, history>>

\* What getaddrinfo, socket, connect and close do with each address.
Outcomes == [1 .. Addresses -> {"no socket", "refused", "close fails", "connected"}]

\* compsys_helper_open_clientfd: the first address that connects, unless the
\* close after a refused connection fails before it.
open_clientfd(outcome) ==
  \E i \in DOMAIN outcome :
    /\ outcome[i] = "connected"
    /\ \A j \in 1 .. i - 1 : outcome[j] \in {"no socket", "refused"}

\* get_signature: the hash of the password followed by the salt.
get_signature(pw, salt) == pw \o salt

Init ==
  /\ pc = "off"
  /\ username \in Users /\ password \in Passwords
  /\ user_salt = << >>
  /\ stack \in Pointers
  /\ got = 0
  /\ salt_file = [u \in Users |-> Missing]
  /\ registry = [u \in Users |-> Missing]
  /\ request = None
  /\ reply = None
  /\ shown = None
  /\ starts = 0
  /\ found = FALSE
  /\ altered = FALSE
  /\ settled = [u \in Users |-> Missing]

-----------------------------------------------------------------------------
(***************************************************************************)
(* main.                                                                   *)
(***************************************************************************)

\* Main reads the configuration and asks for the user and the password.  A
\* configuration that is not valid ends the program, a missing file crashes it:
\* neither has an effect that lasts.  user_salt is not initialised.
StartClient ==
  /\ pc = "off"
  /\ starts < MaxStarts
  /\ starts' = starts + 1
  /\ \/ /\ pc' = "find"
        /\ username' \in Users
        /\ password' \in Passwords
        /\ user_salt' \in Junk \cup {<< >>}
        /\ stack' \in Pointers
        /\ got' = 0
        /\ shown' = None
        /\ found' = FALSE
        /\ altered' = FALSE
     \/ UNCHANGED <<pc, local, shown, found, altered>>
  /\ UNCHANGED <<salt_file, registry, wire, settled>>

\* fgets reads SaltLen - 1 characters or a line, and nothing from an empty file.
FirstLine(contents) ==
  SubSeq(contents, 1, IF Len(contents) < SaltLen - 1 THEN Len(contents) ELSE SaltLen - 1)

\* Faulty variant, for mutation testing: every start makes a new salt.
AlwaysGenerate ==
  /\ pc = "find"
  /\ found' = (salt_file[username] \notin {Missing, << >>})
  /\ user_salt' = << >>
  /\ pc' = "generate"
  /\ UNCHANGED <<username, password, stack, got, salt_file, registry, wire, shown, starts,
                 altered, settled>>

\* find_file, and the test of the first character of the salt in main.
FindFile ==
  /\ pc = "find"
  /\ found' = (salt_file[username] \notin {Missing, << >>})
  /\ user_salt' = IF found' THEN FirstLine(salt_file[username]) ELSE user_salt
  /\ pc' = IF user_salt' = << >> THEN "generate" ELSE "register"
  /\ UNCHANGED <<username, password, stack, got, salt_file, registry, wire, shown, starts,
                 altered, settled>>

\* generate_salt fills SaltLen characters and writes no terminator: the string
\* goes on with whatever the last byte of the buffer and the stack hold.
GenerateSalt ==
  /\ pc = "generate"
  /\ \E letters \in [1 .. SaltLen -> Letters], tail \in Junk \cup {<< >>} :
       user_salt' = letters \o tail
  /\ pc' = "save"
  /\ UNCHANGED <<username, password, stack, got, salt_file, registry, wire, shown, starts,
                 history>>

\* save_to_disc up to fopen, which truncates the file; mkdir and fopen may fail,
\* and then the client goes on with a salt that is saved nowhere.
SaveToDisc ==
  /\ pc = "save"
  /\ \/ pc' = "write" /\ salt_file' = [salt_file EXCEPT ![username] = << >>]
     \/ pc' = "register" /\ UNCHANGED salt_file
  /\ UNCHANGED <<local, registry, wire, shown, starts, history>>

\* save_to_disc: fprintf and fclose.
WriteSalt ==
  /\ pc = "write"
  /\ salt_file' = [salt_file EXCEPT ![username] = user_salt \o <<Newline>>]
  /\ pc' = "register"
  /\ UNCHANGED <<local, registry, wire, shown, starts, history>>

-----------------------------------------------------------------------------
(***************************************************************************)
(* register_user and get_file.                                             *)
(***************************************************************************)

\* register_user: connect, compute the signature and send the header.
RegisterUser ==
  /\ pc = "register"
  /\ \E outcome \in Outcomes :
       IF open_clientfd(outcome)
         THEN /\ request' = [user |-> username, path |-> None,
                             signature |-> get_signature(password, user_salt)]
              /\ pc' = "register_reply"
         ELSE pc' = "get_file" /\ UNCHANGED request
  /\ UNCHANGED <<local, salt_file, registry, reply, shown, starts, history>>

\* The client knows how long the text is: the length has arrived as it was sent.
\* Otherwise it is damaged, or what the stack holds.
LengthKnown(r) == r.cut # "header" /\ "length" \notin r.damaged

\* Faulty variant, for mutation testing: the status is not looked at.
VerdictsAnyStatus(r) ==
  IF LengthKnown(r)
    THEN IF r.cut = "payload" \/ "text" \in r.damaged
           THEN {"checksum error"} ELSE {"registered"}
    ELSE {"checksum error", "crash"}

\* What register_user makes of a reply.  It hashes as many bytes as the header
\* says: with another number the copy leaves the stack, or the hashes do not agree.
\* The hash covers the text and nothing else: not the status, and the block fields
\* are not looked at.
Verdicts(r) ==
  IF LengthKnown(r)
    THEN IF r.cut = "payload" \/ "text" \in r.damaged
           THEN {"checksum error"}
           ELSE {IF r.status = 1 THEN "registered" ELSE "unexpected status"}
    ELSE {"checksum error", "crash"}

\* register_user: readn returns because the server has closed; look at the reply.
RegisterReply ==
  /\ pc = "register_reply"
  /\ reply # None
  /\ shown' \in Verdicts(reply)
  /\ pc' = IF shown' = "crash" THEN "off" ELSE "get_file"
  /\ request' = None
  /\ reply' = None
  /\ altered' = ("status" \in reply.damaged)
  /\ UNCHANGED <<local, salt_file, registry, starts, found, settled>>

\* get_file, called for tiny.txt and then for hamlet.txt.  It signs with &salt,
\* the bytes of the pointer to the salt.
GetFile ==
  /\ pc = "get_file"
  /\ got < 2
  /\ \E outcome \in Outcomes :
       IF open_clientfd(outcome)
         THEN /\ request' = [user |-> username, path |-> got,
                             signature |-> get_signature(password, stack)]
              /\ pc' = "file_reply"
              /\ UNCHANGED got
         ELSE got' = got + 1 /\ UNCHANGED <<pc, request>>
  /\ UNCHANGED <<username, password, user_salt, stack, salt_file, registry, reply, shown,
                 starts, history>>

\* Faulty variant: a file whose reply is not whole is asked for again.
FileReplyRetry ==
  /\ pc = "file_reply"
  /\ reply # None
  /\ pc' = "get_file"
  /\ got' = IF reply.cut = "no" THEN got + 1 ELSE got
  /\ request' = None
  /\ reply' = None
  /\ UNCHANGED <<username, password, user_salt, stack, salt_file, registry, shown, starts,
                 history>>

\* get_file copies the payload out of the reply and does nothing with it.
FileReply ==
  /\ pc = "file_reply"
  /\ reply # None
  /\ \/ pc' = "get_file"
     \/ pc' = "off" /\ ~LengthKnown(reply)
  /\ got' = got + 1
  /\ request' = None
  /\ reply' = None
  /\ UNCHANGED <<username, password, user_salt, stack, salt_file, registry, shown, starts,
                 history>>

Exit ==
  /\ pc = "get_file"
  /\ got = 2
  /\ pc' = "off"
  /\ UNCHANGED <<local, salt_file, registry, wire, shown, starts, history>>

\* The process is killed; the connection goes with it.
Kill ==
  /\ pc # "off"
  /\ pc' = "off"
  /\ request' = None
  /\ reply' = None
  /\ UNCHANGED <<local, salt_file, registry, shown, starts, history>>

-----------------------------------------------------------------------------
(***************************************************************************)
(* The server and the network.                                             *)
(***************************************************************************)

\* The status: the request is granted, the user exists, or the signature is wrong.
Statuses == {1, 2, 4}

\* A reply on its way: what its status is, which of its fields are not what the
\* server sent, and how much of it arrives.  Text stands for the text and its hash,
\* of which a damaged one does not agree with the other, nor two damaged ones.
Replies == [status : Statuses, damaged : Damage, cut : {"no", "payload", "header"}]

\* The ways in which a reply can reach the client: with any of the fields damaged,
\* and cut off anywhere.
Delivered(status) == { r \in Replies : ("status" \in r.damaged) <=> (r.status # status) }

\* A new user is stored with the signature; a known one is refused.
ServerRegisters ==
  /\ request # None
  /\ reply = None
  /\ request.path = None
  /\ IF registry[request.user] = Missing
       THEN /\ registry' = [registry EXCEPT ![request.user] = request.signature]
            /\ settled' = [settled EXCEPT ![request.user] = IF found THEN password ELSE Missing]
            /\ reply' \in Delivered(1)
       ELSE /\ reply' \in Delivered(2)
            /\ UNCHANGED <<registry, settled>>
  /\ UNCHANGED <<pc, local, salt_file, request, shown, starts, found, altered>>

\* A file is served to a user whose signature agrees with the stored one.
ServerServes ==
  /\ request # None
  /\ reply = None
  /\ request.path # None
  /\ reply' \in Delivered(IF registry[request.user] = request.signature THEN 1 ELSE 4)
  /\ UNCHANGED <<pc, local, salt_file, registry, request, shown, starts, history>>

\* The connection breaks before the server has seen the request.
RequestLost ==
  /\ request # None
  /\ reply = None
  /\ reply' = [status |-> 1, damaged |-> {}, cut |-> "header"]
  /\ UNCHANGED <<pc, local, salt_file, registry, request, shown, starts, history>>

Client ==
  \/ FindFile     \/ GenerateSalt  \/ SaveToDisc \/ WriteSalt
  \/ RegisterUser \/ RegisterReply
  \/ GetFile      \/ FileReply     \/ Exit
Server == ServerRegisters \/ ServerServes \/ RequestLost

Next == StartClient \/ Client \/ Kill \/ Server

\* The client runs unless it waits for the server, and the server answers and
\* closes.  Nobody has to start or kill a client.
Spec == Init /\ [][Next]_vars /\ WF_vars(Client) /\ WF_vars(Server)

-----------------------------------------------------------------------------
(***************************************************************************)
(* Properties.                                                             *)
(***************************************************************************)

\* "Got response" is printed only if the server has stored this user, and with the
\* signature that this start computed unless the status of the reply was damaged,
\* whatever else was damaged, cut off or lost on the way, and whatever earlier starts
\* did before they died.  The status is the one field in use that no hash covers: a
\* refusal whose status arrives as 1 is shown as a success.
ShownIsRegistered ==
  shown = "registered" /\ pc # "off" =>
    /\ registry[username] # Missing
    /\ altered \/ registry[username] = get_signature(password, user_salt)

\* A user who was registered by a start that had read the salt from the file is
\* recognised for ever: every later start that reads the file signs the same
\* way, wherever the starts in between were killed.
KnownAgain ==
  /\ pc = "register_reply"
  /\ found
  /\ settled[username] = password
  => request.signature = registry[username]

\* Every start comes to its end: a refused connection and a reply that is cut
\* off, damaged or lost do not keep the client from going on.
EveryStartEnds == (pc # "off") ~> (pc = "off")

=============================================================================
