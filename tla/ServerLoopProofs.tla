-------------------------- MODULE ServerLoopProofs --------------------------
(***************************************************************************)
(* Proofs about ServerLoop, for any clients, descriptors, backlog and      *)
(* number of messages.                                                     *)
(*                                                                         *)
(* The state of main has two shapes.  Without a client no descriptor but   *)
(* the listening one is open or watched and there are no keys; with one,   *)
(* its descriptor is client_socket's and the only one.  Because the        *)
(* listening socket is walked first, whatever comes behind it in the       *)
(* snapshot is that one descriptor, and after it nothing is left.          *)
(***************************************************************************)
EXTENDS ServerLoop, FiniteSetTheorems, SequenceTheorems, TLAPS

\* alreadyConnected says which of the two shapes it is.
Alone ==
  /\ \A fd \in Fds : owner[fd] = None
  /\ master = {Listener} /\ keys = None

Together ==
  /\ sock \in Fds /\ Peer \in Client
  /\ \A fd \in Fds : owner[fd] # None => fd = sock
  /\ master = {Listener, sock}
  /\ phase[Peer] = "accepted"

ShapeInv == IF connected THEN Together ELSE Alone

\* The walk, and what a handshake or command knows of it.
WalkInv ==
  /\ pc = "walk" => ready \subseteq master /\ (Listener \in ready => backlog # <<>>)
  /\ pc \in {"handshake", "command", "spin"} => connected /\ ready = {}
  /\ pc = "command" => at = sock
  /\ pc # "exited"

KeyInv == connected /\ pc \notin {"handshake", "spin"} => keys = Peer

\* Who waits in the backlog waits there once.
BacklogInv ==
  /\ \A i \in 1..Len(backlog) : phase[backlog[i]] = "queued"
  /\ \A i, j \in 1..Len(backlog) : backlog[i] = backlog[j] => i = j

IInv == TypeOK /\ ShapeInv /\ WalkInv /\ KeyInv /\ BacklogInv

-----------------------------------------------------------------------------
\* main begins without a client.
LEMMA Initially == Init => IInv
<1> SUFFICES ASSUME Init PROVE IInv
  OBVIOUS
<1>1. backlog \in Seq(Client) /\ Len(backlog) = 0
  BY DEF Init
<1>2. TypeOK
  <2>1. Len(backlog) <= Backlog /\ 0 \in 0..MaxTaken
    BY <1>1, ClientAssumption
  <2>2. /\ phase \in [Client -> Phases]
        /\ said \in [Client -> {"nothing", "message", "part"}]
        /\ gone \in [Client -> BOOLEAN] /\ owner \in [Fds -> Client \cup {None}]
    BY DEF Init, Phases
  <2> QED BY <1>1, <2>1, <2>2 DEF Init, TypeOK
<1>3. ShapeInv /\ WalkInv /\ KeyInv
  BY DEF Init, ShapeInv, Alone, WalkInv, KeyInv
<1>4. BacklogInv
  BY <1>1 DEF BacklogInv
<1> QED BY <1>2, <1>3, <1>4 DEF IInv

\* The walk finds the listening socket first, and behind it at most the
\* connected client's, with which the walk is over.
LEMMA FirstOfWalk ==
  ASSUME IInv, pc = "walk", ready # {}, NEW fd, fd = Min(ready)
  PROVE  /\ fd \in ready
         /\ fd # Listener => connected /\ fd = sock /\ ready = {sock}
         /\ ~connected => ready = {Listener}
<1>1. ready \subseteq {Listener} \cup (IF connected THEN {sock} ELSE {})
  BY DEF IInv, ShapeInv, Together, Alone, WalkInv
<1>2. connected => sock \in Nat /\ sock > Listener
  BY FdAssumption DEF IInv, ShapeInv, Together
<1>3. Listener \in Nat
  BY FdAssumption
<1>4. \E x \in ready : \A y \in ready : x =< y
  <2>1. CASE Listener \in ready
    BY <1>1, <1>2, <1>3, <2>1
  <2>2. CASE Listener \notin ready
    BY <1>1, <1>2, <2>2
  <2> QED BY <2>1, <2>2
<1>5. fd \in ready /\ \A y \in ready : fd =< y
  BY <1>4 DEF Min
<1>6. Listener \in ready => fd = Listener
  BY <1>1, <1>2, <1>3, <1>5
<1> QED
  BY <1>1, <1>5, <1>6

\* The clients' steps leave main alone, and only a client that is neither
\* waiting nor accepted changes its phase.
LEMMA ClientStep ==
  ASSUME IInv, NEW c \in Client, Connect(c) \/ Speak(c) \/ Depart(c) \/ Exit(c)
  PROVE  IInv'
<1> USE DEF IInv
<1>1. UNCHANGED server
  BY DEF Connect, Speak, Depart, Exit
<1>2. CASE Connect(c)
  <2>1. backlog \in Seq(Client) /\ Len(backlog) \in Nat /\ Len(backlog) < Backlog
    BY <1>2 DEF Connect, TypeOK
  <2>2. /\ backlog' \in Seq(Client) /\ Len(backlog') = Len(backlog) + 1
        /\ \A i \in 1..Len(backlog) : backlog'[i] = backlog[i]
        /\ backlog'[Len(backlog) + 1] = c
    BY <1>2, <2>1 DEF Connect
  <2>3. Len(backlog') <= Backlog
    BY <2>1, <2>2, ClientAssumption
  <2>4. /\ phase[c] = "out" /\ phase' = [phase EXCEPT ![c] = "queued"]
        /\ said' = [said EXCEPT ![c] = "message"] /\ gone' = gone
    BY <1>2 DEF Connect
  <2>5. TypeOK'
    BY <1>1, <2>2, <2>3, <2>4 DEF TypeOK, server, Phases
  <2>6. BacklogInv'
    <3>1. \A i \in 1..Len(backlog) : backlog[i] # c
      BY <2>4 DEF BacklogInv
    <3>2. \A i \in 1..Len(backlog') : i \in 1..Len(backlog) \/ i = Len(backlog) + 1
      BY <2>1, <2>2
    <3>3. \A i \in 1..Len(backlog') : phase'[backlog'[i]] = "queued"
      BY <2>1, <2>2, <2>4, <3>1, <3>2 DEF BacklogInv, TypeOK
    <3>4. \A i, j \in 1..Len(backlog') : backlog'[i] = backlog'[j] => i = j
      BY <2>2, <3>1, <3>2 DEF BacklogInv
    <3> QED BY <3>3, <3>4 DEF BacklogInv
  <2>7. ShapeInv' /\ WalkInv' /\ KeyInv'
    BY <1>1, <2>1, <2>2, <2>4
       DEF server, ShapeInv, Together, Alone, WalkInv, KeyInv, Peer, TypeOK
  <2> QED BY <2>5, <2>6, <2>7
<1>3. CASE Speak(c) \/ Depart(c)
  <2>1. UNCHANGED <<server, backlog, phase>>
    BY <1>3 DEF Speak, Depart
  <2>2. said' \in [Client -> {"nothing", "message", "part"}] /\ gone' \in [Client -> BOOLEAN]
    BY <1>3 DEF Speak, Depart, TypeOK
  <2> QED BY <2>1, <2>2 DEF server, TypeOK, ShapeInv, Together, Alone, WalkInv,
                            KeyInv, BacklogInv, Peer
<1>4. CASE Exit(c)
  <2>1. /\ phase[c] \in {"refused", "closed"} /\ phase' = [phase EXCEPT ![c] = "out"]
        /\ said' = [said EXCEPT ![c] = "nothing"] /\ gone' = [gone EXCEPT ![c] = FALSE]
        /\ backlog' = backlog
    BY <1>4 DEF Exit
  <2>2. TypeOK'
    BY <1>1, <2>1 DEF TypeOK, server, Phases
  <2>3. BacklogInv'
    BY <2>1 DEF BacklogInv, TypeOK
  <2>4. ShapeInv' /\ WalkInv' /\ KeyInv'
    BY <1>1, <2>1
       DEF server, ShapeInv, Together, Alone, WalkInv, KeyInv, Peer, TypeOK
  <2> QED BY <2>2, <2>3, <2>4
<1> QED BY <1>2, <1>3, <1>4

\* select finds every watched descriptor open, so it does not fail.
LEMMA SelectStep == IInv /\ Select => IInv'
<1> SUFFICES ASSUME IInv, Select PROVE IInv'
  OBVIOUS
<1> USE DEF IInv
<1>1. master \subseteq OpenFds \cup {Listener}
  BY ClientAssumption DEF ShapeInv, Together, Alone, OpenFds, Peer
<1>2. /\ pc' = "walk" /\ ready' \subseteq master
      /\ UNCHANGED <<master, at, sock, connected, owner, keys, more, backlog,
                     phase, said, gone>>
  BY <1>1 DEF Select
<1>3. Listener \in ready' => backlog # <<>>
  BY <1>1 DEF Select, Readable
<1> QED
  BY <1>2, <1>3 DEF Select, TypeOK, ShapeInv, Together, Alone, WalkInv, KeyInv,
              BacklogInv, Peer

LEMMA WalkEndsStep == IInv /\ WalkEnds => IInv'
BY DEF IInv, WalkEnds, TypeOK, ShapeInv, Together, Alone, WalkInv, KeyInv,
       BacklogInv, Peer

\* The connection of the connected client is closed and cleaned up.
LEMMA DropStep ==
  ASSUME IInv, connected, ready = {}, Drop(sock), pc' = "walk", ready' = ready,
         said' \in [Client -> {"nothing", "message", "part"}],
         more' \in 0..MaxTaken, UNCHANGED <<at, sock, backlog, gone>>
  PROVE  IInv'
<1> USE DEF IInv
<1>1. /\ owner' = [owner EXCEPT ![sock] = None]
      /\ phase' = [phase EXCEPT ![Peer] = "closed"]
      /\ keys' = None /\ connected' = FALSE /\ master' = master \ {sock}
  BY DEF Drop, Closed
<1>2. Together
  BY DEF ShapeInv
<1>3. TypeOK'
  BY <1>1, <1>2 DEF TypeOK, Together, Phases
<1>4. Alone'
  <2>1. Listener # sock
    BY <1>2, FdAssumption DEF Together
  <2>2. \A fd \in Fds : owner'[fd] = None
    BY <1>1, <1>2 DEF Together, TypeOK
  <2> QED BY <1>1, <1>2, <2>1, <2>2 DEF Together, Alone
<1>5. BacklogInv'
  BY <1>1, <1>2 DEF Together, BacklogInv, TypeOK
<1> QED
  BY <1>1, <1>3, <1>4, <1>5 DEF ShapeInv, WalkInv, KeyInv

\* The process ends and takes every connection with it: the next one begins
\* without a client.
LEMMA EndsStep ==
  ASSUME IInv, Ends, said' \in [Client -> {"nothing", "message", "part"}],
         gone' \in [Client -> BOOLEAN]
  PROVE  IInv'
<1> USE DEF IInv
<1>1. backlog' \in Seq(Client) /\ Len(backlog') = 0
  BY DEF Ends
<1>2. Len(backlog') <= Backlog /\ 0 \in 0..MaxTaken
  BY <1>1, ClientAssumption
<1>3. phase' \in [Client -> Phases]
  BY DEF Ends, TypeOK, Phases
<1>4. TypeOK'
  BY <1>1, <1>2, <1>3 DEF Ends, TypeOK
<1>5. ShapeInv' /\ WalkInv' /\ KeyInv'
  BY DEF Ends, ShapeInv, Alone, WalkInv, KeyInv
<1>6. BacklogInv'
  BY <1>1 DEF BacklogInv
<1> QED BY <1>4, <1>5, <1>6

LEMMA RestartStep == IInv /\ Restart => IInv'
BY DEF IInv, Restart, TypeOK, ShapeInv, Together, Alone, WalkInv, KeyInv,
       BacklogInv, Peer

\* accept: a connection that was reset, a refusal, or the handshake begins.
LEMMA AcceptStep == IInv /\ Accept => IInv'
<1> SUFFICES ASSUME IInv, Accept PROVE IInv'
  OBVIOUS
<1> USE DEF IInv
<1>1. pc = "walk" /\ ready # {} /\ Listener = Min(ready)
  BY DEF Accept, Visits
<1>2. /\ ready' = ready \ {Listener} /\ at' = Listener
      /\ backlog' = Tail(backlog) /\ more' = MaxTaken /\ UNCHANGED <<keys, said, gone>>
  BY DEF Accept, Visits
<1>3. Listener \in ready /\ (~connected => ready = {Listener})
  BY <1>1, FirstOfWalk
<1>4. backlog \in Seq(Client) /\ backlog # <<>> /\ Len(backlog) \in Nat
  BY <1>1, <1>3 DEF TypeOK, WalkInv
<1> DEFINE c == Head(backlog)
<1>5. c \in Client /\ c = backlog[1] /\ 1 \in 1..Len(backlog)
  BY <1>4
<1>6. /\ backlog' \in Seq(Client) /\ Len(backlog') = Len(backlog) - 1
      /\ \A i \in 1..Len(backlog') : i + 1 \in 1..Len(backlog) /\ backlog'[i] = backlog[i + 1]
  BY <1>2, <1>4
<1>7. phase[c] = "queued"
  BY <1>5 DEF BacklogInv
<1>8. \E how \in {"refused", "closed", "accepted"} : phase' = [phase EXCEPT ![c] = how]
  BY DEF Accept
<1>9. BacklogInv'
  <2>1. \A i \in 1..Len(backlog') : backlog'[i] # c
    BY <1>5, <1>6 DEF BacklogInv
  <2>2. \A i \in 1..Len(backlog') : phase'[backlog'[i]] = "queued"
    BY <1>6, <1>8, <2>1 DEF BacklogInv, TypeOK
  <2>3. \A i, j \in 1..Len(backlog') : backlog'[i] = backlog'[j] => i = j
    BY <1>6 DEF BacklogInv
  <2> QED BY <2>2, <2>3 DEF BacklogInv
<1>10. phase' \in [Client -> Phases] /\ Len(backlog') <= Backlog /\ more' \in 0..MaxTaken
  BY <1>2, <1>4, <1>6, <1>8, ClientAssumption DEF TypeOK, Phases
<1>11. CASE UNCHANGED <<pc, master, sock, connected, owner>>
            /\ (connected \/ phase' = [phase EXCEPT ![c] = "closed"])
  <2>1. TypeOK'
    BY <1>2, <1>6, <1>10, <1>11 DEF TypeOK
  <2>2. connected => Peer' = Peer /\ Peer # c /\ phase'[Peer] = phase[Peer]
    BY <1>7, <1>8, <1>11 DEF ShapeInv, Together, Peer, TypeOK
  <2>3. ShapeInv' /\ KeyInv'
    BY <1>2, <1>11, <2>2 DEF ShapeInv, Together, Alone, KeyInv, Peer
  <2>4. WalkInv'
    BY <1>1, <1>2, <1>11 DEF WalkInv
  <2> QED BY <1>9, <2>1, <2>3, <2>4
<1>12. CASE ~connected /\ connected' /\ pc' = "handshake"
            /\ phase' = [phase EXCEPT ![c] = "accepted"]
            /\ \E fd \in Fds : /\ owner[fd] = None
                              /\ owner' = [owner EXCEPT ![fd] = c]
                              /\ master' = master \cup {fd} /\ sock' = fd
  <2>1. PICK fd \in Fds : /\ owner[fd] = None
                          /\ owner' = [owner EXCEPT ![fd] = c]
                          /\ master' = master \cup {fd} /\ sock' = fd
    BY <1>12
  <2>2. Peer' = c /\ phase'[c] = "accepted"
    BY <1>5, <1>12, <2>1 DEF Peer, TypeOK
  <2>3. TypeOK'
    BY <1>2, <1>5, <1>6, <1>10, <1>12, <2>1 DEF TypeOK
  <2>4. Together'
    BY <1>5, <1>12, <2>1, <2>2 DEF ShapeInv, Alone, Together, TypeOK
  <2>5. WalkInv' /\ KeyInv'
    BY <1>2, <1>3, <1>12 DEF WalkInv, KeyInv
  <2> QED BY <1>9, <1>12, <2>3, <2>4, <2>5 DEF ShapeInv
<1> QED
  BY <1>11, <1>12 DEF Accept

\* The client's descriptor is found readable: receive_command begins.
LEMMA VisitStep == IInv /\ Visit => IInv'
<1> SUFFICES ASSUME IInv, Visit PROVE IInv'
  OBVIOUS
<1> USE DEF IInv
<1>1. PICK fd \in Fds : Visits(fd)
  BY DEF Visit
<1>2. fd # Listener
  BY FdAssumption
<1>3. connected /\ fd = sock /\ ready = {sock}
  BY <1>1, <1>2, FirstOfWalk DEF Visits
<1>4. /\ ready' = {} /\ at' = sock /\ pc' = "command" /\ more' = MaxTaken
      /\ UNCHANGED <<master, sock, connected, owner, keys, backlog, phase, said, gone>>
  BY <1>1, <1>3 DEF Visit, Visits
<1>5. pc = "walk"
  BY <1>1 DEF Visits
<1>6. TypeOK'
  BY <1>4, ClientAssumption DEF TypeOK
<1> QED
  BY <1>3, <1>4, <1>5, <1>6
     DEF ShapeInv, Together, WalkInv, KeyInv, BacklogInv, Peer

\* The descriptor that is cleaned up is client_socket's in both branches.
LEMMA DroppedIsServed ==
  ASSUME IInv, pc \in {"handshake", "command"}
  PROVE  /\ connected /\ ready = {}
         /\ (IF pc = "handshake" THEN sock ELSE at) = sock
BY DEF IInv, WalkInv

\* A message is taken.
LEMMA TakesStep == IInv /\ Takes => IInv'
<1> SUFFICES ASSUME IInv, Takes PROVE IInv'
  OBVIOUS
<1> USE DEF IInv
<1>1. pc \in {"handshake", "command"} /\ connected /\ ready = {}
  BY DroppedIsServed DEF Takes
<1>2. said' = [said EXCEPT ![Peer] = "nothing"] /\ gone' = gone
  BY DEF Takes
<1>3. said' \in [Client -> {"nothing", "message", "part"}] /\ gone' \in [Client -> BOOLEAN]
  BY <1>2 DEF TypeOK
<1>4. CASE /\ UNCHANGED <<pc, master, ready, at, sock, connected, owner, backlog, phase>>
           /\ more > 1 /\ more' = more - 1
           /\ keys' \in {keys} \cup (IF pc = "handshake" THEN {Peer} ELSE {})
  <2>1. PICK n \in 0..MaxTaken : n = more
    BY DEF TypeOK
  <2>2. more' \in 0..MaxTaken
    BY <1>4, <2>1, ClientAssumption
  <2>3. keys' \in Client \cup {None} /\ (pc = "command" => keys' = keys)
    BY <1>1, <1>4 DEF TypeOK, ShapeInv, Together
  <2>4. TypeOK'
    BY <1>2, <1>3, <1>4, <2>2, <2>3 DEF TypeOK
  <2> QED BY <1>1, <1>2, <1>4, <2>3, <2>4
             DEF ShapeInv, Together, WalkInv, KeyInv, BacklogInv, Peer
<1>5. CASE /\ pc' = "walk"
           /\ UNCHANGED <<master, ready, at, sock, connected, owner, more, backlog, phase>>
           /\ keys' = IF pc = "handshake" THEN Peer ELSE keys
  <2>1. keys' = Peer
    BY <1>1, <1>5 DEF KeyInv
  <2>2. TypeOK'
    BY <1>1, <1>2, <1>3, <1>5, <2>1 DEF TypeOK, ShapeInv, Together
  <2> QED BY <1>1, <1>2, <1>5, <2>1, <2>2
             DEF ShapeInv, Together, WalkInv, KeyInv, BacklogInv, Peer
<1>6. CASE /\ Drop(IF pc = "handshake" THEN sock ELSE at)
           /\ pc' = "walk" /\ UNCHANGED <<ready, at, sock, more, backlog>>
  <2>1. more' \in 0..MaxTaken
    BY <1>6 DEF TypeOK
  <2>2. Drop(sock)
    BY <1>1, <1>6, DroppedIsServed
  <2> QED BY <1>1, <1>2, <1>3, <1>6, <2>1, <2>2, DropStep
<1>7. CASE Ends
  BY <1>3, <1>7, EndsStep
<1> QED
  BY <1>4, <1>5, <1>6, <1>7 DEF Takes

\* The client is gone: the receive fails, never returns, or ends the process.
LEMMA FailsStep == IInv /\ Fails => IInv'
<1> SUFFICES ASSUME IInv, Fails PROVE IInv'
  OBVIOUS
<1> USE DEF IInv
<1>1. pc \in {"handshake", "command"} /\ connected /\ ready = {}
  BY DroppedIsServed DEF Fails
<1>2. /\ UNCHANGED <<said, gone>>
      /\ said' \in [Client -> {"nothing", "message", "part"}]
      /\ gone' \in [Client -> BOOLEAN]
  BY DEF Fails, TypeOK
<1>3. CASE /\ Drop(IF pc = "handshake" THEN sock ELSE at)
           /\ pc' = "walk" /\ UNCHANGED <<ready, at, sock, more, backlog>>
  <2>1. Drop(sock)
    BY <1>1, <1>3, DroppedIsServed
  <2>2. more' \in 0..MaxTaken
    BY <1>3 DEF TypeOK
  <2> QED BY <1>1, <1>2, <1>3, <2>1, <2>2, DropStep
<1>4. CASE /\ pc' = "spin"
           /\ UNCHANGED <<master, ready, at, sock, connected, owner, keys, more,
                          backlog, phase>>
  BY <1>1, <1>2, <1>4
     DEF TypeOK, ShapeInv, Together, WalkInv, KeyInv, BacklogInv, Peer
<1>5. CASE Ends
  BY <1>2, <1>5, EndsStep
<1> QED
  BY <1>3, <1>4, <1>5 DEF Fails

LEMMA Inductive == IInv /\ [Next]_vars => IInv'
<1> SUFFICES ASSUME IInv, [Next]_vars PROVE IInv'
  OBVIOUS
<1>1. CASE UNCHANGED vars
  BY <1>1 DEF vars, server, IInv, TypeOK, ShapeInv, Together, Alone, WalkInv,
              KeyInv, BacklogInv, Peer
<1>2. CASE Server
  BY <1>2, SelectStep, WalkEndsStep, AcceptStep, VisitStep, TakesStep, FailsStep
     DEF Server
<1>3. CASE \E c \in Client : Connect(c) \/ Speak(c) \/ Depart(c) \/ Exit(c)
  BY <1>3, ClientStep
<1>4. CASE Interrupt
  BY <1>4, EndsStep DEF Interrupt, IInv, TypeOK
<1>5. CASE Restart
  BY <1>5, RestartStep
<1> QED BY <1>1, <1>2, <1>3, <1>4, <1>5 DEF Next, Finished

LEMMA Invariance == Spec => []IInv
BY Initially, Inductive, PTL DEF Spec

-----------------------------------------------------------------------------
\* The variables of main and of its clients keep their types; the backlog
\* does not outgrow its limit (server.cpp:200).
THEOREM LoopTypeCorrect == Spec => []TypeOK
<1>1. IInv => TypeOK
  BY DEF IInv
<1> QED BY <1>1, Invariance, PTL

\* At every select the watched descriptors are the open ones, and
\* alreadyConnected says whether a client's is among them, however the clients
\* before have left, if the server has survived it (server.cpp:579-605).
THEOREM DescriptorsAgree == Spec => []FlagsAgree
<1>1. IInv => FlagsAgree
  <2> SUFFICES ASSUME IInv
               PROVE  /\ master = OpenFds \cup {Listener}
                      /\ Cardinality(OpenFds) = IF connected THEN 1 ELSE 0
    BY DEF FlagsAgree
  <2>1. CASE connected
    <3>1. OpenFds = {sock}
      BY <2>1, ClientAssumption DEF IInv, ShapeInv, Together, OpenFds, Peer
    <3> QED BY <2>1, <3>1, FS_Singleton DEF IInv, ShapeInv, Together
  <2>2. CASE ~connected
    <3>1. OpenFds = {}
      BY <2>2 DEF IInv, ShapeInv, Alone, OpenFds
    <3> QED BY <2>2, <3>1, FS_EmptySet DEF IInv, ShapeInv, Alone
  <2> QED BY <2>1, <2>2
<1> QED BY <1>1, Invariance, PTL

\* The descriptor found readable and client_socket are the same open
\* connection when a command is received, although the walk uses a snapshot
\* (server.cpp:556,591).
THEOREM ReadyIsServed == Spec => []ServesTheReady
<1>1. IInv => ServesTheReady
  BY ClientAssumption
     DEF IInv, WalkInv, ShapeInv, Together, ServesTheReady
<1> QED BY <1>1, Invariance, PTL

\* A command runs with the keys of the client that sent it, and no keys are
\* left without a client (server.cpp:581,595,602).
THEOREM KeysMatchClient == Spec => []KeysOfTheClient
<1>1. IInv => KeysOfTheClient
  BY DEF IInv, WalkInv, KeyInv, ShapeInv, Alone, KeysOfTheClient
<1> QED BY <1>1, Invariance, PTL

\* Whoever is refused is refused for another client, whose connection the
\* server still holds (server.cpp:567-570).
THEOREM OnlyRefusedForAnother == Spec => RefusedForAnother
<1>1. IInv /\ [Next]_vars =>
        [\A c \in Client : phase[c] = "queued" /\ phase'[c] = "refused" =>
           \E d \in Client \ {c} : phase[d] = "accepted" /\ d = Peer]_vars
  <2> SUFFICES ASSUME IInv, [Next]_vars, NEW c \in Client,
                      phase[c] = "queued", phase'[c] = "refused"
               PROVE  \E d \in Client \ {c} : phase[d] = "accepted" /\ d = Peer
    OBVIOUS
  <2>1. Accept /\ connected
    <3>1. phase \in [Client -> Phases]
      BY DEF IInv, TypeOK
    <3>2. ~(UNCHANGED phase)
      OBVIOUS
    <3>3. ASSUME NEW d \in Client PROVE ~(Connect(d) \/ Speak(d) \/ Depart(d) \/ Exit(d))
      BY <3>1, <3>2 DEF Connect, Speak, Depart, Exit
    <3>4. ~(Select \/ WalkEnds \/ Visit \/ Restart \/ Finished \/ UNCHANGED vars)
      BY <3>2 DEF Select, WalkEnds, Visit, Restart, Finished, vars
    <3>5. ~(Takes \/ Fails \/ Interrupt)
      BY <3>1, <3>2 DEF Takes, Fails, Interrupt, Drop, Closed, Ends
    <3>6. Accept
      BY <3>3, <3>4, <3>5 DEF Next, Server
    <3> QED BY <3>1, <3>6 DEF Accept
  <2>2. Peer \in Client /\ phase[Peer] = "accepted"
    BY <2>1 DEF IInv, ShapeInv, Together
  <2> QED BY <2>2
<1> QED BY <1>1, Invariance, PTL DEF Spec, RefusedForAnother
=============================================================================
