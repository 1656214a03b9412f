------------------------------ MODULE Session ------------------------------
(***************************************************************************)
(* The commands of a session, from the end of the handshake on: send and   *)
(* receive of commands, names, listings and files by client.cpp,           *)
(* server.cpp and SendReceiveFile.cpp, over the session state of two       *)
(* processes (module Endpoint).                                            *)
(*                                                                         *)
(* A file is the number of its chunks; that the receiver knows the last    *)
(* chunk and the signature by counting is the subject of Transfer.  An     *)
(* action goes from one blocking receive, or one turn of the sender's      *)
(* loop, to the next.  SendFile and ReceiveFile are the same code in both  *)
(* programs, and h is the host that runs them.                             *)
(***************************************************************************)
EXTENDS Endpoint, Listing

CONSTANTS MaxName,      \* MAX_FILENAME_LENGTH
          MaxChunks,    \* bound on the chunks of a file
          MaxCommands,  \* bound on the commands of a session
          Char,         \* the characters of names
          Listings      \* what the server's directory may hold, as names

ASSUME SessionBounds == /\ MaxName \in Nat \ {0} /\ MaxChunks \in Nat
                        /\ MaxCommands \in Nat

\* get_file_list returns the names of a directory but those that begin with a
\* '.': none is empty, and any may have spaces in it.
ASSUME ListingAssumption == Listings \subseteq Seq(Seq(Char) \ {<<>>})

VARIABLES
  ep,        \* the session state of each host
  pc,        \* what each host waits for or is about to send
  inbox,     \* frames sent to each host and not yet received
  torn,      \* behind the frames of an inbox comes a part of one
  open,      \* the host has not closed its socket
  op,        \* the command each host carries out
  size,      \* the chunks of the file each host sends or receives
  rest,      \* those of them still to come
  cipher,    \* what the cipher of that file took at its construction
  asked, done, answered,   \* history: the commands, see Requests
  seals,     \* history: the key and IV of each encryption of the session
  refused,   \* history: a host has refused a frame of the other
  reason     \* history: the first thing to go wrong, "none" before it

transfer == <<op, size, rest, cipher>>
logs     == <<asked, done, answered>>
vars     == <<ep, pc, inbox, torn, open, transfer, logs, seals, refused, reason>>

Host    == {"server", "client"}
Peer(h) == IF h = "server" THEN "client" ELSE "server"

\* Where the hosts wait for a frame, and the frame they take next for granted.
AwaitedKind == [select |-> "command", name |-> "name", list |-> "list",
                size |-> "size", chunk |-> "chunk", signature |-> "sign"]
Awaiting == DOMAIN AwaitedKind
Sending  == {"refuse", "announce", "send", "sign"}
Ended    == {"gone", "crashed", "stuck"}

Because(why) == reason' = IF reason = "none" THEN why ELSE reason

-----------------------------------------------------------------------------
(* Frames.  A command, a name and a listing are encrypted by a cipher of   *)
(* their own, a chunk by the one of the file, a size and a signature not.  *)

NoSeal == [key |-> NoKey, iv |-> Blank.iv]

\* Slip: a frame counts for one MAC whatever it carries.
OneMac(kind) == 1

Macs(kind) == IF kind = "size" THEN 1 ELSE 2

Frame(e, kind, body, seal) ==
  [kind |-> kind, body |-> body, seal |-> seal, mac |-> Mac(e)]

Encrypted(e, kind, body) == Frame(e, kind, body, Seal(e))
AfterEncrypted(e)        == AfterSent(NewCipher(e), 2)

\* What the inboxes are when h has taken n frames of its own and sent some: to
\* a host that has closed its socket, in vain.
Moved(h, n, frames) ==
  [inbox EXCEPT ![h] = SubSeq(@, n + 1, Len(@)),
                ![Peer(h)] = IF open[Peer(h)] THEN @ \o frames ELSE @]

\* h takes the frame for what it waits for: kind, MAC, and key and IV.
Accepts(h, f) ==
  /\ f.kind = AwaitedKind[pc[h]]
  /\ MacMatches(ep[h], f.mac)
  /\ f.seal = CASE pc[h] = "chunk"               -> cipher[h]
                [] pc[h] \in {"size", "signature"} -> NoSeal
                [] OTHER                         -> Seal(ep[h])

-----------------------------------------------------------------------------
(* The end of a command.  On true the server goes back to select and the   *)
(* client to its prompt; on false both main functions destroy the keys and *)
(* close the connection, and the client exits.                             *)

Leave(h, e, how) == /\ ep' = [ep EXCEPT ![h] = DestroyKeys(e)]
                    /\ open' = [open EXCEPT ![h] = FALSE]
                    /\ pc' = [pc EXCEPT ![h] = how]

Return(h, e, true) ==
  IF true THEN /\ ep' = [ep EXCEPT ![h] = e] /\ UNCHANGED open
               /\ pc' = [pc EXCEPT ![h] = IF h = "server" THEN "select"
                                          ELSE "prompt"]
          ELSE Leave(h, e, "gone")

Proceed(h, e, where) == /\ ep' = [ep EXCEPT ![h] = e]
                        /\ pc' = [pc EXCEPT ![h] = where]
                        /\ UNCHANGED open

\* The result of a command enters the log of its host.
Result(h, o, x) ==
  LET r == [op |-> o, result |-> x]
  IN  /\ done' = IF h = "server" THEN Append(done, r) ELSE done
      /\ answered' = IF h = "client" THEN Append(answered, r) ELSE answered

File(n) == [kind |-> "file", chunks |-> n]

-----------------------------------------------------------------------------
\* Both returned true from the handshake: see Handshake!SharedState.  Each has
\* constructed two ciphers, for the two nonces.
Init ==
  /\ \E s, c \in 0..(NonceMod - 1) :
       LET e == [key |-> 1, iv |-> [base |-> 1, count |-> 2],
                 local |-> s, remote |-> c]
       IN  ep = [server |-> e, client |-> [e EXCEPT !.local = c, !.remote = s]]
  /\ pc = [server |-> "select", client |-> "prompt"]
  /\ inbox = [h \in Host |-> <<>>] /\ torn = FALSE
  /\ open = [h \in Host |-> TRUE]
  /\ op = [h \in Host |-> "list"] /\ size = [h \in Host |-> 0]
  /\ rest = [h \in Host |-> 0] /\ cipher = [h \in Host |-> NoSeal]
  /\ asked = <<>> /\ done = <<>> /\ answered = <<>>
  /\ seals = <<>> /\ refused = FALSE /\ reason = "none"

-----------------------------------------------------------------------------
(* The client at its prompt.  The user may type anything or nothing.        *)

AtPrompt(o) == /\ pc["client"] = "prompt" /\ Len(asked) < MaxCommands
               /\ asked' = Append(asked, o)
               /\ op' = [op EXCEPT !["client"] = o]

Unasked == UNCHANGED <<torn, size, rest, cipher, done, answered, refused>>

AskList ==
  /\ AtPrompt("list")
  /\ LET e == ep["client"]
     IN  /\ inbox' = Moved("client", 0, <<Encrypted(e, "command", "list")>>)
         /\ Proceed("client", AfterEncrypted(e), "list")
         /\ seals' = Append(seals, Seal(e))
  /\ Unasked /\ UNCHANGED reason

\* The command goes out before the name is read from stdin.
AskGet ==
  /\ AtPrompt("get")
  /\ LET e == ep["client"]
     IN  /\ inbox' = Moved("client", 0, <<Encrypted(e, "command", "get")>>)
         /\ Proceed("client", AfterEncrypted(e), "typing")
         /\ seals' = Append(seals, Seal(e))
  /\ Unasked /\ UNCHANGED reason

\* cin with setw(MAX_FILENAME_LENGTH) stores as many characters, and what is
\* left of the line is ignored.
AsRead(typed) ==
  [typed EXCEPT !.len = IF @ > MaxName THEN MaxName ELSE @]

Typed == [len : 0..(MaxName + 1), slash : BOOLEAN]

\* A name that a get can be served: not empty (the end of stdin), without a
\* '/', and shorter than MAX_FILENAME_LENGTH.
Servable(name) == name.len \in 1..(MaxName - 1) /\ ~name.slash

\* SendFile looks at the name first.
ToSend(name) == IF name.slash THEN "refuse" ELSE "announce"

\* The name of a get.  With an empty one ReceiveFile returns false at once.
TypeName ==
  /\ pc["client"] = "typing"
  /\ \E typed \in Typed :
       LET e    == ep["client"]
           name == AsRead(typed)
       IN  /\ inbox' = Moved("client", 0, <<Encrypted(e, "name", name)>>)
           /\ seals' = Append(seals, Seal(e))
           /\ \/ name.len = 0
                 /\ Return("client", AfterEncrypted(e), FALSE)
              \/ name.len # 0
                 /\ Proceed("client", AfterEncrypted(e), "size")
           /\ IF Servable(name) THEN UNCHANGED reason ELSE Because("name")
  /\ UNCHANGED <<torn, transfer, logs, refused>>

\* The file exists; a name without one ends the command before any message.
\* Command and name are sent, and SendFile begins.
AskUpload ==
  /\ AtPrompt("upload")
  /\ \E typed \in {t \in Typed : t.len > 0} :
       LET name == AsRead(typed)
           e    == ep["client"]
           e1   == AfterEncrypted(e)
       IN  /\ inbox' = Moved("client", 0, <<Encrypted(e, "command", "upload"),
                                           Encrypted(e1, "name", name)>>)
           /\ seals' = seals \o <<Seal(e), Seal(e1)>>
           /\ Proceed("client", AfterEncrypted(e1), ToSend(name))
           /\ IF name.slash THEN Because("name") ELSE UNCHANGED reason
  /\ Unasked

\* !quit and SIGINT at the prompt.
Quit ==
  /\ pc["client"] = "prompt"
  /\ Leave("client", ep["client"], "gone") /\ Because("quit")
  /\ UNCHANGED <<inbox, torn, transfer, logs, seals, refused>>

\* select reports the socket: "Protocolar Error!".
ProtocolError ==
  /\ pc["client"] = "prompt"
  /\ inbox["client"] # <<>> \/ ~open["server"]
  /\ Leave("client", ep["client"], "gone")
  /\ UNCHANGED <<inbox, torn, transfer, logs, seals, refused, reason>>

-----------------------------------------------------------------------------
(* SendFile                                                                *)

\* A name with a '/': the size 0 is sent, with nothing behind it, and SendFile
\* returns false.
RefuseName(h) ==
  /\ pc[h] = "refuse"
  /\ inbox' = Moved(h, 0, <<Frame(ep[h], "size", 0, NoSeal)>>)
  /\ Result(h, op[h], File(0)) /\ Return(h, AfterSent(ep[h], 1), FALSE)
  /\ UNCHANGED <<asked, torn, transfer, seals, refused, reason>>

\* Slip: on a size of 0 the loop is left out and the signature is not.
AnnounceAndSign(h) ==
  /\ pc[h] = "announce"
  /\ \E n \in 0..MaxChunks :
       LET e == AfterSent(ep[h], 1)
       IN  /\ inbox' = Moved(h, 0, <<Frame(ep[h], "size", n, NoSeal)>>)
           /\ Proceed(h, NewCipher(e), IF n = 0 THEN "sign" ELSE "send")
           /\ size' = [size EXCEPT ![h] = n]
           /\ rest' = [rest EXCEPT ![h] = n]
           /\ cipher' = [cipher EXCEPT ![h] = Seal(e)]
           /\ seals' = Append(seals, Seal(e))
  /\ UNCHANGED <<op, logs, torn, refused, reason>>

\* The size of the file on the disk is announced; a missing file has none.
Announce(h) ==
  /\ pc[h] = "announce"
  /\ \E n \in 0..MaxChunks :
       LET e == AfterSent(ep[h], 1)
       IN  /\ inbox' = Moved(h, 0, <<Frame(ep[h], "size", n, NoSeal)>>)
           /\ \/ /\ n = 0
                 /\ Result(h, op[h], File(0)) /\ Return(h, e, TRUE)
                 /\ UNCHANGED <<asked, transfer, seals>>
              \/ /\ n # 0
                 /\ Proceed(h, NewCipher(e), "send")
                 /\ size' = [size EXCEPT ![h] = n]
                 /\ rest' = [rest EXCEPT ![h] = n]
                 /\ cipher' = [cipher EXCEPT ![h] = Seal(e)]
                 /\ seals' = Append(seals, Seal(e))
                 /\ UNCHANGED <<op, logs>>
  /\ UNCHANGED <<torn, refused, reason>>

SendChunk(h) ==
  /\ pc[h] = "send"
  /\ inbox' = Moved(h, 0, <<Frame(ep[h], "chunk", rest[h], cipher[h])>>)
  /\ Proceed(h, AfterSent(ep[h], 2), IF rest[h] = 1 THEN "sign" ELSE "send")
  /\ rest' = [rest EXCEPT ![h] = @ - 1]
  /\ UNCHANGED <<torn, op, size, cipher, logs, seals, refused, reason>>

SendSign(h) ==
  /\ pc[h] = "sign"
  /\ inbox' = Moved(h, 0, <<Frame(ep[h], "sign", size[h], NoSeal)>>)
  /\ Result(h, op[h], File(size[h])) /\ Return(h, AfterSent(ep[h], 2), TRUE)
  /\ UNCHANGED <<asked, torn, transfer, seals, refused, reason>>

\* The other has closed its socket and a send reports it.
SendFails(h) ==
  /\ pc[h] \in Sending \cup {"typing"} /\ ~open[Peer(h)]
  /\ Return(h, ep[h], FALSE)
  /\ UNCHANGED <<inbox, torn, transfer, logs, seals, refused, reason>>

-----------------------------------------------------------------------------
(* Receive: f is the frame taken and e the endpoint with its MACs counted.  *)

\* receive_command, then cmd_list or the beginning of the other two.
OnCommand(h, f, e) ==
  /\ pc[h] = "select"
  /\ op' = [op EXCEPT ![h] = f.body]
  /\ LET d == NewCipher(e)
     IN  \/ /\ f.body # "list"
            /\ inbox' = Moved(h, 1, <<>>) /\ Proceed(h, d, "name")
            /\ UNCHANGED <<logs, seals, reason>>
         \/ /\ f.body = "list"
            /\ \E names \in Listings :
                 \/ /\ NoFirst(names) /\ Because("directory")
                    /\ Leave(h, d, "crashed") /\ inbox' = Moved(h, 1, <<>>)
                    /\ UNCHANGED <<logs, seals>>
                 \/ /\ Endless(names) /\ Because("directory")
                    /\ Proceed(h, d, "stuck") /\ inbox' = Moved(h, 1, <<>>)
                    /\ UNCHANGED <<logs, seals>>
                 \/ /\ ~NoFirst(names) /\ ~Endless(names)
                    /\ inbox' = Moved(h, 1,
                                 <<Encrypted(d, "list", Concatenated(names))>>)
                    /\ seals' = Append(seals, Seal(d))
                    /\ Result(h, "list", [kind |-> "names", names |-> names])
                    /\ Return(h, AfterEncrypted(d), TRUE)
                    /\ UNCHANGED <<asked, reason>>
  /\ UNCHANGED <<size, rest, cipher>>

\* Slip: a name of MAX_FILENAME_LENGTH - 1 is too long.
TooLongByOne(name) == name.len >= MaxName - 1

TooLong(name) == name.len >= MaxName

\* cmd_get and cmd_upload take the name; SendFile and ReceiveFile begin.
OnName(h, f, e) ==
  /\ pc[h] = "name"
  /\ LET d    == NewCipher(e)
         name == f.body
         bad  == op[h] = "get" /\ (TooLong(name) \/ name.len = 0)
     IN  \/ bad /\ Return(h, d, FALSE)
         \/ ~bad /\ Proceed(h, d, IF op[h] = "get" THEN ToSend(name)
                                  ELSE "size")
  /\ inbox' = Moved(h, 1, <<>>)
  /\ UNCHANGED <<transfer, logs, seals, reason>>

OnListing(h, f, e) ==
  /\ pc[h] = "list"
  /\ inbox' = Moved(h, 1, <<>>)
  /\ Result(h, "list", [kind |-> "names", names |-> Split(f.body)])
  /\ Return(h, NewCipher(e), TRUE)
  /\ UNCHANGED <<asked, transfer, seals, reason>>

\* Slip: the cipher is constructed before the size is looked at.
OnSizeCipherFirst(h, f, e) ==
  /\ pc[h] = "size"
  /\ inbox' = Moved(h, 1, <<>>)
  /\ \/ /\ f.body = 0
        /\ Result(h, op[h], File(0)) /\ Return(h, NewCipher(e), TRUE)
        /\ UNCHANGED <<asked, transfer>>
     \/ /\ f.body # 0
        /\ Proceed(h, NewCipher(e), "chunk")
        /\ size' = [size EXCEPT ![h] = f.body]
        /\ rest' = [rest EXCEPT ![h] = f.body]
        /\ cipher' = [cipher EXCEPT ![h] = Seal(e)]
        /\ UNCHANGED <<op, logs>>
  /\ UNCHANGED <<seals, reason>>

\* ReceiveFile: on 0 it returns true, whatever the 0 stands for.
OnSize(h, f, e) ==
  /\ pc[h] = "size"
  /\ inbox' = Moved(h, 1, <<>>)
  /\ \/ /\ f.body = 0
        /\ Result(h, op[h], File(0)) /\ Return(h, e, TRUE)
        /\ UNCHANGED <<asked, transfer>>
     \/ /\ f.body # 0
        /\ Proceed(h, NewCipher(e), "chunk")
        /\ size' = [size EXCEPT ![h] = f.body]
        /\ rest' = [rest EXCEPT ![h] = f.body]
        /\ cipher' = [cipher EXCEPT ![h] = Seal(e)]
        /\ UNCHANGED <<op, logs>>
  /\ UNCHANGED <<seals, reason>>

\* A chunk is decrypted and written, or it cannot be written.
OnChunk(h, f, e) ==
  /\ pc[h] = "chunk"
  /\ inbox' = Moved(h, 1, <<>>)
  /\ \/ /\ Proceed(h, e, IF rest[h] = 1 THEN "signature" ELSE "chunk")
        /\ rest' = [rest EXCEPT ![h] = @ - 1]
        /\ UNCHANGED reason
     \/ /\ Return(h, e, FALSE) /\ Because("disk")
        /\ UNCHANGED rest
  /\ UNCHANGED <<op, size, cipher, logs, seals>>

OnSign(h, f, e) ==
  /\ pc[h] = "signature"
  /\ inbox' = Moved(h, 1, <<>>)
  /\ Result(h, op[h], File(size[h])) /\ Return(h, e, TRUE)
  /\ UNCHANGED <<asked, transfer, seals, reason>>

\* A frame that is not the one awaited fails one of the checks, the command
\* returns false, and in place of the signature RSAFinal is given a NULL.
Receive(h) ==
  /\ pc[h] \in Awaiting /\ inbox[h] # <<>>
  /\ LET f == Head(inbox[h])
         e == AfterReceived(ep[h], Macs(f.kind))
     IN  IF Accepts(h, f)
         THEN /\ \/ OnCommand(h, f, e) \/ OnName(h, f, e) \/ OnListing(h, f, e)
                 \/ OnSize(h, f, e) \/ OnChunk(h, f, e) \/ OnSign(h, f, e)
              /\ UNCHANGED refused
         ELSE /\ Leave(h, e, IF pc[h] = "signature" THEN "crashed" ELSE "gone")
              /\ refused' = TRUE /\ inbox' = Moved(h, 1, <<>>)
              /\ UNCHANGED <<transfer, logs, seals, reason>>
  /\ UNCHANGED torn

\* Slip: a receive that returns 0 bytes is repeated between two frames too.
LosesUnseen(h) ==
  /\ pc[h] \in Awaiting /\ inbox[h] = <<>> /\ ~open[Peer(h)] /\ torn
  /\ Leave(h, ep[h], "gone")
  /\ UNCHANGED <<inbox, torn, transfer, logs, seals, refused, reason>>

\* The other is gone and no whole frame is left.  Behind a part of a frame
\* utilityRecv repeats a recvfrom that returns 0, or returns NULL on a reset.
Loses(h) ==
  /\ pc[h] \in Awaiting /\ inbox[h] = <<>> /\ ~open[Peer(h)]
  /\ \/ Leave(h, ep[h], IF pc[h] = "signature" THEN "crashed" ELSE "gone")
     \/ torn /\ Proceed(h, ep[h], "stuck")
     \/ torn /\ Leave(h, ep[h], "crashed")
  /\ UNCHANGED <<inbox, torn, transfer, logs, seals, refused, reason>>

-----------------------------------------------------------------------------
(* Faults: the first thing that goes wrong is the only one that need not.   *)

\* SIGINT or a crash of the host.  What it had sent arrives up to some frame,
\* or to the middle of one.
Die(h) ==
  /\ reason = "none" /\ pc[h] \notin Ended
  /\ Leave(h, ep[h], "gone") /\ Because("death")
  /\ \E k \in 0..Len(inbox[Peer(h)]) :
       /\ inbox' = [inbox EXCEPT ![Peer(h)] = SubSeq(@, 1, k)]
       /\ torn' \in {FALSE, k < Len(inbox[Peer(h)]) \/ pc[h] \in Sending}
  /\ UNCHANGED <<transfer, logs, seals, refused>>

\* The file has become shorter, or the key for the signature is missing.
ReadFails(h) ==
  /\ reason = "none" /\ pc[h] \in {"send", "sign"}
  /\ Return(h, ep[h], FALSE) /\ Because("file")
  /\ UNCHANGED <<inbox, torn, transfer, logs, seals, refused>>

-----------------------------------------------------------------------------
User == AskList \/ AskGet \/ TypeName \/ AskUpload \/ Quit

Works(h) == \/ Receive(h) \/ Loses(h)
            \/ RefuseName(h) \/ Announce(h) \/ SendChunk(h) \/ SendSign(h)

\* Nothing moves when the user does not, both processes have ended, or one
\* loops for ever.
Finished == /\ \/ pc["client"] \in {"prompt", "typing"}
               \/ \A h \in Host : pc[h] \in Ended
               \/ \E h \in Host : pc[h] = "stuck"
            /\ UNCHANGED vars

Next == \/ User \/ ProtocolError \/ Finished
        \/ \E h \in Host : Works(h) \/ SendFails(h) \/ Die(h) \/ ReadFails(h)

\* Both processes run; nothing is assumed of the user, the disk or SIGINT.
Fairness == /\ \A h \in Host : WF_vars(Works(h))
            /\ WF_vars(ProtocolError)

Spec == Init /\ [][Next]_vars /\ Fairness

-----------------------------------------------------------------------------
(* Properties                                                              *)

\* The type invariant of the two hosts.
TypeOK ==
  /\ ep \in [Host -> EndpointSet]
  /\ pc["server"] \in {"select", "name", "size", "chunk", "signature"}
                       \cup Sending \cup Ended
  /\ pc["client"] \in {"prompt", "typing", "list", "size", "chunk", "signature"}
                       \cup Sending \cup Ended
  /\ torn \in BOOLEAN /\ open \in [Host -> BOOLEAN]
  /\ op \in [Host -> {"list", "get", "upload"}]
  /\ size \in [Host -> 0..MaxChunks] /\ rest \in [Host -> 0..MaxChunks]
  /\ \A h \in Host : rest[h] <= size[h]
  /\ reason \in {"none", "name", "quit", "directory", "disk", "file", "death"}

\* Whatever the commands so far and however they ended, each frame a host takes
\* is of the kind it waits for, carries the MAC of its remote nonce and is
\* encrypted with the key and IV it decrypts with: nonces and IVs are never
\* sent, and each host counts its own ciphers and MACs along its own path.
NeverRefused == ~refused

\* Between two commands, with nothing under way, the hosts are in step: the
\* same number of ciphers and of MACs on every path through a command.
LockstepAtRest ==
  pc["server"] = "select" /\ pc["client"] = "prompt" /\ inbox["server"] = <<>>
    => /\ ep["server"].iv = ep["client"].iv
       /\ ep["server"].local = ep["client"].remote
       /\ ep["server"].remote = ep["client"].local

\* No key and IV encrypt twice in the session, the chunks of a file apart,
\* which one cipher encrypts; although both hosts encrypt, a client may send a
\* command before the upload before it is received, and neither tells the
\* other its IV.
FreshIVs == \A i, j \in 1..Len(seals) : seals[i] = seals[j] => i = j

\* While the server is there, nothing can arrive that the client at its prompt
\* has not asked for: every frame of a command is taken before it returns
\* (client.cpp:589, "non dovrei mai arrivare qui", "I should never get here").
NoUnsolicited ==
  pc["client"] = "prompt" /\ open["server"] => inbox["client"] = <<>>

\* A session ends because the user or a signal ended it, a file, a disk or the
\* listing failed, or a name could not be served: never between hosts that
\* meet nothing of the kind, and a name one byte shorter than
\* MAX_FILENAME_LENGTH is still served.
EndsForAReason == \A h \in Host : pc[h] \in Ended => reason # "none"

\* What a command may come to at the server.
Answers == {File(n) : n \in 0..MaxChunks}
             \cup {[kind |-> "names", names |-> n] : n \in Listings}

\* What the client has of it: the same file, and of a listing the names as far
\* as the text tells them apart.
SeenByClient ==
  [x \in Answers |-> IF x.kind = "file" THEN x
                     ELSE [kind |-> "names", names |-> Shown(x.names)]]

Orders == INSTANCE Requests WITH Results <- Answers, Seen <- SeenByClient

\* The commands are performed in the order they are asked, each at most once,
\* and what the client stores, and the server stores, is what the other host
\* has sent for the same command.  The listing a client prints has each name
\* the server read, in the same order and unchanged if it has no space; one
\* with spaces, which get_file_list returns like any other, is printed as so
\* many names.
ImplementsRequests == Orders!Spec

\* A command ends: a host waits for ever only while the user types a name, or
\* when a process loops for ever.
CommandsEnd ==
  \A h \in Host : pc[h] \notin {"select", "prompt"} \cup Ended
    ~> \/ pc[h] \in {"select", "prompt"} \cup Ended
       \/ pc["client"] = "typing"
       \/ \E g \in Host : pc[g] = "stuck"
=============================================================================
