----------------------------- MODULE ServerLoop -----------------------------
(***************************************************************************)
(* main of server.cpp: one thread that selects over the listening socket   *)
(* and the socket of the client it is connected to, accepts one client,    *)
(* refuses the others, and blocks in the handshake and in every command.   *)
(*                                                                         *)
(* What the handshake and the commands say is left to Handshake and        *)
(* Session: here each takes some messages of the client and returns true   *)
(* or false, or ends the process.  The clients speak, are silent and leave *)
(* as they like; the server may be stopped and started again.              *)
(***************************************************************************)
EXTENDS Integers, Sequences, FiniteSets, FiniteSetsExt

CONSTANTS Client,
          None,       \* no client
          Listener,   \* server_socket, the first descriptor of the process
          Fds,        \* the descriptors accept may return
          Backlog,    \* connections the system keeps for accept
          MaxTaken    \* bound on the messages of a handshake or a command

ASSUME FdAssumption == /\ Listener \in Nat /\ Fds \subseteq Nat
                       /\ \A fd \in Fds : fd > Listener
ASSUME ClientAssumption == None \notin Client /\ Backlog \in Nat \ {0}
                           /\ MaxTaken \in Nat \ {0}

VARIABLES
  pc,         \* where main is
  master,     \* the descriptors select watches
  ready,      \* those of read_fds the walk has not reached
  at,         \* the descriptor the walk is at
  sock,       \* client_socket: the descriptor last set
  connected,  \* alreadyConnected
  owner,      \* whose connection a descriptor is, None when it is not open
  keys,       \* whose keys KeyManager holds
  more,       \* messages the handshake or command may still take
  backlog,    \* connections not yet accepted
  phase,      \* where each client is
  said,       \* what of each client waits to be read
  gone        \* the client has closed its end

server == <<pc, master, ready, at, sock, connected, owner, keys, more>>
vars   == <<server, backlog, phase, said, gone>>

Phases  == {"out", "queued", "accepted", "refused", "closed"}
OpenFds == {fd \in Fds : owner[fd] # None}

Init == /\ pc = "select" /\ master = {Listener} /\ ready = {}
        /\ at = Listener /\ sock = Listener /\ connected = FALSE
        /\ owner = [fd \in Fds |-> None] /\ keys = None /\ more = 0
        /\ backlog = <<>>
        /\ phase = [c \in Client |-> "out"]
        /\ said = [c \in Client |-> "nothing"]
        /\ gone = [c \in Client |-> FALSE]

-----------------------------------------------------------------------------
(* The clients                                                             *)

\* connect returns before accept; the client's certificate follows at once.
Connect(c) ==
  /\ pc # "down" /\ phase[c] = "out" /\ Len(backlog) < Backlog
  /\ phase' = [phase EXCEPT ![c] = "queued"]
  /\ backlog' = Append(backlog, c)
  /\ said' = [said EXCEPT ![c] = "message"]
  /\ UNCHANGED <<server, gone>>

Speak(c) ==
  /\ phase[c] \in {"queued", "accepted"} /\ said[c] = "nothing" /\ ~gone[c]
  /\ said' = [said EXCEPT ![c] = "message"]
  /\ UNCHANGED <<server, backlog, phase, gone>>

\* The client leaves, between two messages or inside one.
Depart(c) ==
  /\ phase[c] \in {"queued", "accepted"} /\ ~gone[c]
  /\ gone' = [gone EXCEPT ![c] = TRUE]
  /\ \/ UNCHANGED said
     \/ said[c] = "nothing" /\ said' = [said EXCEPT ![c] = "part"]
  /\ UNCHANGED <<server, backlog, phase>>

\* The server has closed the connection: the client exits and may be started
\* again.
Exit(c) ==
  /\ phase[c] \in {"refused", "closed"}
  /\ phase' = [phase EXCEPT ![c] = "out"]
  /\ said' = [said EXCEPT ![c] = "nothing"]
  /\ gone' = [gone EXCEPT ![c] = FALSE]
  /\ UNCHANGED <<server, backlog>>

-----------------------------------------------------------------------------
(* The server                                                              *)

\* The process is gone, by a crash, by exit or by SIGINT; the system closes
\* every connection, and the next main will begin as the first has.
Ends == /\ pc' = "down" /\ master' = {Listener} /\ ready' = {}
        /\ at' = Listener /\ sock' = Listener /\ connected' = FALSE
        /\ owner' = [fd \in Fds |-> None] /\ keys' = None /\ more' = 0
        /\ backlog' = <<>>
        /\ phase' = [c \in Client |-> IF phase[c] \in {"queued", "accepted"}
                                      THEN "closed" ELSE phase[c]]

\* SIGINT comes at any moment: close_handler.
Interrupt == pc # "down" /\ Ends /\ UNCHANGED <<said, gone>>

Restart == /\ pc = "down" /\ pc' = "select"
           /\ UNCHANGED <<master, ready, at, sock, connected, owner, keys, more,
                          backlog, phase, said, gone>>

Readable(fd) ==
  IF fd = Listener THEN backlog # <<>>
  ELSE owner[fd] # None /\ (said[owner[fd]] # "nothing" \/ gone[owner[fd]])

\* select fails on a descriptor that is not open, and main exits.
Select ==
  /\ pc = "select"
  /\ IF master \subseteq OpenFds \cup {Listener}
     THEN /\ \E fd \in master : Readable(fd)
          /\ ready' = {fd \in master : Readable(fd)}
          /\ pc' = "walk"
     ELSE pc' = "exited" /\ UNCHANGED ready
  /\ UNCHANGED <<master, at, sock, connected, owner, keys, more, backlog,
                 phase, said, gone>>

\* The walk is over.
WalkEnds == /\ pc = "walk" /\ ready = {}
            /\ pc' = "select"
            /\ UNCHANGED <<master, ready, at, sock, connected, owner, keys,
                           more, backlog, phase, said, gone>>

\* Ascending descriptors: the listening socket before any client's.
Visits(fd) == /\ pc = "walk" /\ ready # {} /\ fd = Min(ready)
              /\ ready' = ready \ {fd} /\ at' = fd

\* Slips: a client that cannot be served is left in the backlog; one that
\* comes while another is connected is accepted; the -1 of accept is not looked
\* at.
AcceptWhenFree ==
  /\ Visits(Listener)
  /\ \/ connected /\ UNCHANGED <<pc, master, sock, connected, owner, backlog, phase>>
     \/ /\ ~connected
        /\ \E fd \in Fds :
             /\ owner[fd] = None
             /\ owner' = [owner EXCEPT ![fd] = Head(backlog)]
             /\ master' = master \cup {fd} /\ sock' = fd
        /\ backlog' = Tail(backlog)
        /\ connected' = TRUE /\ pc' = "handshake"
        /\ phase' = [phase EXCEPT ![Head(backlog)] = "accepted"]
  /\ more' = MaxTaken /\ UNCHANGED <<keys, said, gone>>
AcceptAll ==
  /\ Visits(Listener)
  /\ backlog' = Tail(backlog)
  /\ \E fd \in Fds :
       /\ owner[fd] = None /\ \A g \in Fds : g < fd => owner[g] # None
       /\ owner' = [owner EXCEPT ![fd] = Head(backlog)]
       /\ master' = master \cup {fd} /\ sock' = fd
  /\ connected' = TRUE /\ pc' = "handshake"
  /\ phase' = [phase EXCEPT ![Head(backlog)] = "accepted"]
  /\ more' = MaxTaken /\ UNCHANGED <<keys, said, gone>>

AcceptUnchecked ==
  /\ Visits(Listener)
  /\ backlog' = Tail(backlog)
  /\ \/ /\ connected
        /\ phase' = [phase EXCEPT ![Head(backlog)] = "refused"]
        /\ UNCHANGED <<pc, master, sock, connected, owner>>
     \/ /\ ~connected
        /\ \E fd \in Fds \cup {-1} :
             /\ IF fd = -1
                THEN gone[Head(backlog)] /\ UNCHANGED owner
                ELSE /\ owner[fd] = None /\ \A g \in Fds : g < fd => owner[g] # None
                     /\ owner' = [owner EXCEPT ![fd] = Head(backlog)]
             /\ master' = master \cup {fd} /\ sock' = fd
        /\ connected' = TRUE /\ pc' = "handshake"
        /\ phase' = [phase EXCEPT ![Head(backlog)] = "accepted"]
  /\ more' = MaxTaken /\ UNCHANGED <<keys, said, gone>>

\* accept, and then refuse or begin the handshake.  It fails, and the walk goes
\* on, for a connection that was reset in the backlog.  The new descriptor is
\* the lowest that is free; the one of a refused client is closed at once.
Accept ==
  /\ Visits(Listener)
  /\ backlog' = Tail(backlog)
  /\ \/ /\ gone[Head(backlog)]
        /\ phase' = [phase EXCEPT ![Head(backlog)] = "closed"]
        /\ UNCHANGED <<pc, master, sock, connected, owner>>
     \/ /\ connected
        /\ phase' = [phase EXCEPT ![Head(backlog)] = "refused"]
        /\ UNCHANGED <<pc, master, sock, connected, owner>>
     \/ /\ ~connected
        /\ \E fd \in Fds :
             /\ owner[fd] = None /\ \A g \in Fds : g < fd => owner[g] # None
             /\ owner' = [owner EXCEPT ![fd] = Head(backlog)]
             /\ master' = master \cup {fd} /\ sock' = fd
        /\ connected' = TRUE /\ pc' = "handshake"
        /\ phase' = [phase EXCEPT ![Head(backlog)] = "accepted"]
  /\ more' = MaxTaken /\ UNCHANGED <<keys, said, gone>>

\* The branch of a client: receive_command begins.
Visit ==
  /\ \E fd \in Fds : Visits(fd)
  /\ pc' = "command" /\ more' = MaxTaken
  /\ UNCHANGED <<master, sock, connected, owner, keys, backlog, phase, said, gone>>

Peer == owner[sock]

Closed == /\ owner' = [owner EXCEPT ![sock] = None]
          /\ phase' = [phase EXCEPT ![Peer] = "closed"]

\* Slips: one of the four statements after a failure is missing.
DropKeepFd(fd) ==
  /\ Closed /\ keys' = None /\ connected' = FALSE /\ UNCHANGED master
DropKeepKeys(fd) ==
  /\ Closed /\ UNCHANGED keys /\ connected' = FALSE /\ master' = master \ {fd}
DropKeepFlag(fd) ==
  /\ Closed /\ keys' = None /\ UNCHANGED connected /\ master' = master \ {fd}

\* closeConnection, destroyKeys, alreadyConnected = false, FD_CLR.
Drop(fd) ==
  /\ Closed /\ keys' = None /\ connected' = FALSE /\ master' = master \ {fd}

\* A message of the client is taken.  The handshake, which sets the keys on its
\* way, and a command either go on to wait for the next, or return true or
\* false.  The server itself may also end over it: initial_protocol exits
\* without its certificate or parameters, cmd_list crashes when there is no
\* name to begin with, or when there are more than its counter can reach.
Takes ==
  /\ pc \in {"handshake", "command"} /\ said[Peer] = "message"
  /\ said' = [said EXCEPT ![Peer] = "nothing"] /\ UNCHANGED gone
  /\ \/ /\ more > 1 /\ more' = more - 1
        /\ keys' \in {keys} \cup (IF pc = "handshake" THEN {Peer} ELSE {})
        /\ UNCHANGED <<pc, master, ready, at, sock, connected, owner, backlog, phase>>
     \/ /\ pc' = "walk"
        /\ keys' = IF pc = "handshake" THEN Peer ELSE keys
        /\ UNCHANGED <<master, ready, at, sock, connected, owner, more, backlog, phase>>
     \/ /\ Drop(IF pc = "handshake" THEN sock ELSE at)
        /\ pc' = "walk" /\ UNCHANGED <<ready, at, sock, more, backlog>>
     \/ Ends

\* Nothing receives the client's next message: it is NULL, and used.  In the
\* handshake, and in a transfer, these are the receives behind the first one:
\* a public key, a signature.  Inside the data of a frame it is any of them.
UsesNull == more < MaxTaken \/ (pc = "command" /\ said[Peer] = "part")

\* The client is gone: the receive fails, between two messages at once and
\* inside one when the connection was reset; otherwise it never returns.  What
\* failed is mostly noticed, and the client dropped; but not everywhere.
Fails ==
  /\ pc \in {"handshake", "command"} /\ said[Peer] # "message" /\ gone[Peer]
  /\ UNCHANGED <<said, gone>>
  /\ \/ /\ Drop(IF pc = "handshake" THEN sock ELSE at)
        /\ pc' = "walk" /\ UNCHANGED <<ready, at, sock, more, backlog>>
     \/ /\ said[Peer] = "part" /\ pc' = "spin"
        /\ UNCHANGED <<master, ready, at, sock, connected, owner, keys, more,
                       backlog, phase>>
     \/ UsesNull /\ Ends

-----------------------------------------------------------------------------
Server == Select \/ WalkEnds \/ Accept \/ Visit \/ Takes \/ Fails

Blocked == \/ pc = "spin"
           \/ /\ pc \in {"handshake", "command"}
              /\ said[Peer] = "nothing" /\ ~gone[Peer]

\* Nobody has to connect, to speak or to leave.
Finished == /\ \/ Blocked
               \/ pc = "select" /\ \A fd \in master : ~Readable(fd)
            /\ UNCHANGED vars

Next == \/ Server \/ Finished \/ Interrupt \/ Restart
        \/ \E c \in Client : Connect(c) \/ Speak(c) \/ Depart(c) \/ Exit(c)

\* The server's process runs; nothing is assumed of the clients, nor of whoever
\* stops and starts the server.
Spec == Init /\ [][Next]_vars /\ WF_vars(Server)

-----------------------------------------------------------------------------
(* Properties                                                              *)

\* The type invariant of main's variables.
TypeOK ==
  /\ pc \in {"select", "walk", "handshake", "command", "spin", "exited", "down"}
  /\ master \subseteq Fds \cup {Listener} /\ ready \subseteq Fds \cup {Listener}
  /\ {at, sock} \subseteq Fds \cup {Listener} /\ connected \in BOOLEAN
  /\ owner \in [Fds -> Client \cup {None}] /\ keys \in Client \cup {None}
  /\ more \in 0..MaxTaken
  /\ backlog \in Seq(Client) /\ Len(backlog) <= Backlog
  /\ phase \in [Client -> Phases]
  /\ said \in [Client -> {"nothing", "message", "part"}]
  /\ gone \in [Client -> BOOLEAN]

\* However the client before has left, if the server has survived it, at every
\* select the descriptors watched are the open ones, so that select does not
\* fail, there is at most one client's among them, and alreadyConnected says
\* whether.
FlagsAgree ==
  pc = "select" =>
    /\ master = OpenFds \cup {Listener}
    /\ Cardinality(OpenFds) = IF connected THEN 1 ELSE 0

\* The walk uses a snapshot: a client may have been accepted or dropped since.
\* receive_command reads client_socket and not the descriptor that was found
\* readable; the two are one open connection all the same, and of no other
\* client's.
ServesTheReady ==
  pc = "command" => at = sock /\ Peer # None /\ connected

\* KeyManager is one for all: a command runs with the keys of the client that
\* sent it, and nobody's keys are left for the next one.
KeysOfTheClient ==
  /\ pc = "command" => keys = Peer
  /\ ~connected => keys = None

\* A client is refused only while the connection of another is still open at
\* the server; that other may have left a moment ago.
RefusedForAnother ==
  [][\A c \in Client : phase[c] = "queued" /\ phase'[c] = "refused" =>
       \E d \in Client \ {c} : phase[d] = "accepted" /\ d = Peer]_vars

\* Every client that connects and stays is accepted or refused, unless the
\* server ends before, as a client that leaves can make it do, or one keeps it
\* in a receive for ever.
EveryoneHeard ==
  \/ \A c \in Client :
       phase[c] = "queued" ~>
         phase[c] \in {"accepted", "refused"} \/ gone[c] \/ pc = "down"
  \/ <>[]Blocked
=============================================================================
