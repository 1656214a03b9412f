----------------------------- MODULE Handshake -----------------------------
(***************************************************************************)
(* initial_protocol of server.cpp and of client.cpp over a TCP connection, *)
(* session after session.  The server is one process: what its static      *)
(* members hold after a session is what the next one starts from.  Every   *)
(* client is a new process.  The connection may be lost at any point.      *)
(*                                                                         *)
(* Certificates, Diffie-Hellman and RSA are taken to work: the key both    *)
(* hosts derive in session n is n, and a signature is the transcript it    *)
(* signs.  An action goes from one blocking receive to the next.           *)
(***************************************************************************)
EXTENDS Endpoint, Sequences

CONSTANT MaxSessions   \* bound on the sessions of a behaviour

ASSUME SessionAssumption == MaxSessions \in Nat

VARIABLES
  session,   \* the number of the current or last session
  trusted,   \* the client of the session is in the list of clients
  srv, cli,  \* the session state of the two processes
  spc, cpc,  \* what each process is waiting for
  toS, toC,  \* messages in flight
  closed,    \* one of the hosts has closed the connection
  drawn,     \* the nonces drawn in the session
  sdoc,      \* what the server's RSAVerifyManager has hashed
  cdoc,      \* what the client's RSASignManager has hashed
  seals,     \* history: the key and IV of each encryption of the session
  failure    \* history: what went wrong in the session

vars == <<session, trusted, srv, cli, spc, cpc, toS, toC, closed, drawn, sdoc,
          cdoc, seals, failure>>

ServerWaits == {"cert", "dh", "nonce", "sign"}
ClientWaits == {"cert", "dh", "iv", "nonce", "sign"}

Message(kind, body) == [kind |-> kind, body |-> body]
Sealed(e, n)        == [seal |-> Seal(e), nonce |-> n]
Signed(e, doc)      == [mac |-> Mac(e), doc |-> doc]

\* Before the nonces of a session are drawn: NonceMod is none of them.
Undrawn == [server |-> NonceMod, client |-> NonceMod]

Init ==
  /\ session = 0 /\ trusted = FALSE /\ srv = Blank /\ cli = Blank
  /\ spc = "idle" /\ cpc = "gone" /\ toS = <<>> /\ toC = <<>> /\ closed = TRUE
  /\ drawn = Undrawn /\ sdoc = <<>> /\ cdoc = <<>>
  /\ seals = <<>> /\ failure = "none"

\* A new client connects, is accepted and sends its certificate.
Connect ==
  /\ spc = "idle" /\ cpc = "gone" /\ session < MaxSessions
  /\ session' = session + 1 /\ trusted' \in BOOLEAN
  /\ cli' = Blank /\ cpc' = "cert" /\ spc' = "cert" /\ closed' = FALSE
  /\ toS' = <<Message("cert", trusted')>> /\ toC' = <<>>
  /\ drawn' = Undrawn /\ sdoc' = <<>> /\ cdoc' = <<>>
  /\ seals' = <<>> /\ failure' = "none"
  /\ UNCHANGED srv

-----------------------------------------------------------------------------
(* The server.  GiveUp is what main does when initial_protocol returns     *)
(* false: close the connection and destroy the keys.                       *)

GiveUp(e) == /\ srv' = DestroyKeys(e) /\ spc' = "idle" /\ closed' = TRUE

ServerTakes(kind) ==
  /\ spc = kind /\ toS # <<>> /\ Head(toS).kind = kind
  /\ toS' = Tail(toS)
  /\ UNCHANGED <<session, trusted, cli, cpc, cdoc>>

\* The client's certificate; answered with the server's and its DH value.
ServerCert ==
  /\ ServerTakes("cert")
  /\ \/ /\ trusted
        /\ toC' = toC \o <<Message("cert", session), Message("dh", session)>>
        /\ sdoc' = <<<<"server dh", session>>>>
        /\ spc' = "dh" /\ UNCHANGED <<srv, closed>>
     \/ /\ ~trusted
        /\ GiveUp(srv)
        /\ UNCHANGED <<toC, sdoc>>
  /\ UNCHANGED <<drawn, seals, failure>>

\* The client's DH value: the keys are set, the IV is drawn and sent, and the
\* server's nonce is sent encrypted.
ServerDH ==
  /\ ServerTakes("dh")
  /\ \E n \in 0..(NonceMod - 1) :
       LET e == SetIV(SetKey(srv, Head(toS).body), session)
       IN  /\ toC' = toC \o <<Message("iv", session),
                              Message("nonce", Sealed(e, n))>>
           /\ srv' = NewCipher(e)
           /\ seals' = Append(seals, Seal(e))
           /\ drawn' = [drawn EXCEPT !.server = n]
           /\ sdoc' = sdoc \o <<<<"client dh", Head(toS).body>>,
                                <<"iv", session>>, <<"nonce", n>>>>
  /\ spc' = "nonce"
  /\ UNCHANGED <<closed, failure>>

\* The client's nonce: decrypted with the next IV, then both nonces are set.
ServerNonce ==
  /\ ServerTakes("nonce")
  /\ LET m == Head(toS).body
         e == NewCipher(srv)
     IN  \/ /\ m.seal = Seal(srv)
            /\ srv' = SetNonces(e, drawn.server, m.nonce)
            /\ sdoc' = Append(sdoc, <<"nonce", m.nonce>>)
            /\ spc' = "sign" /\ UNCHANGED <<closed, failure>>
         \/ /\ m.seal # Seal(srv)
            /\ GiveUp(e) /\ failure' = "cipher"
            /\ UNCHANGED sdoc
  /\ UNCHANGED <<toC, drawn, seals>>

\* The client's signature.  A wrong MAC makes the signature NULL, which
\* RSAFinal follows.  Otherwise the server signs the signature and answers,
\* and only then looks at the result of the verification.
ServerSign ==
  /\ ServerTakes("sign")
  /\ LET m == Head(toS).body
         e == AfterReceived(srv, 2)
     IN  \/ /\ ~MacMatches(srv, m.mac)
            /\ srv' = AfterReceived(srv, 1)
            /\ spc' = "crashed" /\ closed' = TRUE /\ failure' = "mac"
            /\ UNCHANGED toC
         \/ /\ MacMatches(srv, m.mac)
            /\ toC' = Append(toC, Message("sign", Signed(e, m.doc)))
            /\ \/ m.doc = sdoc /\ srv' = AfterSent(e, 2) /\ spc' = "serving"
                  /\ UNCHANGED <<closed, failure>>
               \/ m.doc # sdoc /\ GiveUp(AfterSent(e, 2))
                  /\ failure' = "transcript"
  /\ UNCHANGED <<drawn, sdoc, seals>>

\* The connection is gone and no whole message is left.  Between two messages
\* recvInt fails; inside one, recvData spins on a closed connection and
\* returns NULL on a reset one, unchecked for the DH value and the signature.
LossOutcomes(wait) ==
  CASE wait \in {"cert", "nonce"} -> {"idle", "stuck"}
    [] wait = "dh"                -> {"idle", "stuck", "crashed"}
    [] wait = "sign"              -> {"stuck", "crashed"}

ServerLoses ==
  /\ spc \in ServerWaits /\ toS = <<>> /\ closed
  /\ \E outcome \in LossOutcomes(spc) :
       \/ outcome = "idle" /\ GiveUp(srv)
       \/ outcome # "idle" /\ spc' = outcome /\ UNCHANGED <<srv, closed>>
  /\ UNCHANGED <<session, trusted, cli, cpc, toS, toC, drawn, sdoc, cdoc,
                 seals, failure>>

\* receive_command fails once the client is gone.
Disconnect ==
  /\ spc = "serving" /\ closed
  /\ GiveUp(srv)
  /\ UNCHANGED <<session, trusted, cli, cpc, toS, toC, drawn, sdoc, cdoc,
                 seals, failure>>

\* The server is started again after a crash, or after SIGINT out of a spin.
Restart ==
  /\ spc \in {"crashed", "stuck"} /\ cpc = "gone"
  /\ srv' = Blank /\ spc' = "idle"
  /\ UNCHANGED <<session, trusted, cli, cpc, toS, toC, closed, drawn, sdoc,
                 cdoc, seals, failure>>

-----------------------------------------------------------------------------
(* The client                                                              *)

ClientTakes(kind) ==
  /\ cpc = kind /\ toC # <<>> /\ Head(toC).kind = kind
  /\ toC' = Tail(toC)
  /\ UNCHANGED <<session, trusted, srv, spc, sdoc>>

\* The server's certificate; a DH value is generated.
ClientCert ==
  /\ ClientTakes("cert")
  /\ cpc' = "dh"
  /\ UNCHANGED <<cli, toS, closed, drawn, cdoc, seals, failure>>

\* The server's DH value is answered with the client's; the keys are set.
ClientDH ==
  /\ ClientTakes("dh")
  /\ toS' = Append(toS, Message("dh", session))
  /\ cdoc' = <<<<"server dh", Head(toC).body>>, <<"client dh", session>>>>
  /\ cli' = SetKey(cli, Head(toC).body)
  /\ cpc' = "iv"
  /\ UNCHANGED <<closed, drawn, seals, failure>>

ClientIV ==
  /\ ClientTakes("iv")
  /\ cli' = SetIV(cli, Head(toC).body)
  /\ cdoc' = Append(cdoc, <<"iv", Head(toC).body>>)
  /\ cpc' = "nonce"
  /\ UNCHANGED <<toS, closed, drawn, seals, failure>>

\* The server's nonce is decrypted, the client's is drawn and sent encrypted,
\* the nonces are set and the signature of the transcript goes out.
ClientNonce ==
  /\ ClientTakes("nonce")
  /\ LET m == Head(toC).body
         e == NewCipher(cli)
     IN  \/ /\ m.seal = Seal(cli)
            /\ \E n \in 0..(NonceMod - 1) :
                 LET f   == SetNonces(NewCipher(e), n, m.nonce)
                     doc == cdoc \o <<<<"nonce", m.nonce>>, <<"nonce", n>>>>
                 IN  /\ toS' = toS \o <<Message("nonce", Sealed(e, n)),
                                        Message("sign", Signed(f, doc))>>
                     /\ cli' = AfterSent(f, 2)
                     /\ cdoc' = doc
                     /\ drawn' = [drawn EXCEPT !.client = n]
            /\ seals' = Append(seals, Seal(e))
            /\ cpc' = "sign" /\ UNCHANGED <<closed, failure>>
         \/ /\ m.seal # Seal(cli)
            /\ cpc' = "gone" /\ closed' = TRUE /\ failure' = "cipher"
            /\ UNCHANGED <<cli, toS, drawn, cdoc, seals>>

\* The server's signature of the client's.
ClientSign ==
  /\ ClientTakes("sign")
  /\ LET m == Head(toC).body
     IN  \/ /\ MacMatches(cli, m.mac) /\ m.doc = cdoc
            /\ cli' = AfterReceived(cli, 2)
            /\ cpc' = "established" /\ UNCHANGED <<closed, failure>>
         \/ /\ ~MacMatches(cli, m.mac) \/ m.doc # cdoc
            /\ cpc' = "gone" /\ closed' = TRUE
            /\ failure' = IF m.doc = cdoc THEN "mac" ELSE "transcript"
            /\ UNCHANGED cli
  /\ UNCHANGED <<toS, drawn, cdoc, seals>>

\* The server has closed the connection: a receive fails and the client exits.
ClientLoses ==
  /\ cpc \in ClientWaits \cup {"established"} /\ toC = <<>> /\ closed
  /\ cpc' = "gone"
  /\ UNCHANGED <<session, trusted, srv, cli, spc, toS, toC, closed, drawn,
                 sdoc, cdoc, seals, failure>>

\* The client quits or dies, or the network fails: some of what it had sent is
\* still delivered.
Cut ==
  /\ cpc # "gone"
  /\ \E k \in 0..Len(toS) : toS' = SubSeq(toS, 1, k)
  /\ cpc' = "gone" /\ closed' = TRUE
  /\ failure' = IF failure = "none" THEN "cut" ELSE failure
  /\ UNCHANGED <<session, trusted, srv, cli, spc, toC, drawn, sdoc, cdoc,
                 seals>>

-----------------------------------------------------------------------------
Server == \/ ServerCert \/ ServerDH \/ ServerNonce \/ ServerSign
          \/ ServerLoses \/ Disconnect
Client == \/ ClientCert \/ ClientDH \/ ClientIV \/ ClientNonce \/ ClientSign
          \/ ClientLoses

Finished == spc \in {"idle", "serving"} /\ UNCHANGED vars

Next == Connect \/ Server \/ Client \/ Cut \/ Restart \/ Finished

\* Both processes run on their own; nobody has to connect, quit or restart.
Spec == Init /\ [][Next]_vars /\ WF_vars(Server) /\ WF_vars(Client)

-----------------------------------------------------------------------------
(* Properties                                                              *)

\* The type invariant of the two processes.
TypeOK ==
  /\ session \in 0..MaxSessions /\ trusted \in BOOLEAN
  /\ srv \in EndpointSet /\ cli \in EndpointSet
  /\ spc \in ServerWaits \cup {"idle", "serving", "crashed", "stuck"}
  /\ cpc \in ClientWaits \cup {"gone", "established"}
  /\ drawn \in [{"server", "client"} -> 0..NonceMod]
  /\ failure \in {"none", "cut", "mac", "cipher", "transcript"}

\* "After the end of the initial part of the protocol, Server and Client share
\* keys (for encryption and HMAC) and nonces" (SSLP_doc.pdf, 1.3): when both
\* have returned true they are ready for the same next frame and cipher.
SharedState ==
  spc = "serving" /\ cpc = "established" =>
    /\ trusted
    /\ srv.key = cli.key /\ srv.key = session /\ srv.iv = cli.iv
    /\ srv.local = cli.remote /\ srv.remote = cli.local

\* Encrypting and decrypting hosts construct their ciphers in the same order,
\* and signer and verifier hash the same transcript: between honest hosts no
\* decryption and no signature of the handshake fails.
CiphersAgree == failure \notin {"cipher", "transcript"}

\* No two encryptions of a session use one key with one IV.
FreshIVs == \A i, j \in 1..Len(seals) : seals[i] = seals[j] => i = j

\* Whatever the earlier sessions have left in the server's nonces, the MACs of
\* the handshake verify when neither nonce is drawn as 0.
MacsAgree == failure = "mac" => 0 \in {drawn.server, drawn.client}

\* SSLP_doc.pdf, 1.3, without that condition: the nonces were exchanged, so
\* the MACs of two honest hosts verify.
NoncesExchanged == failure # "mac"

\* On every path back to select, failures included, the keys are destroyed.
NoKeyAtRest == spc = "idle" => srv.key = NoKey

\* A client of the list that neither quits nor loses the connection is served,
\* unless a nonce is drawn as 0: nobody waits for the other for ever, and no
\* check fails.
Served ==
  (cpc = "cert" /\ trusted) ~>
    \/ failure = "cut" \/ 0 \in {drawn.server, drawn.client}
    \/ spc = "serving" /\ cpc = "established"
=============================================================================
