-------------------------- MODULE HandshakeProofs --------------------------
(***************************************************************************)
(* The safety of Handshake for every width of the nonces and any number of *)
(* sessions, whatever nonces are drawn and wherever the connection is cut. *)
(*                                                                         *)
(* The handshake takes turns: while both processes live, where they are    *)
(* decides what is in flight, and there are twelve such places (Turns).    *)
(* When the client is gone, the server still meets a prefix of what the    *)
(* client had sent for its place (Remains).  The rest of the invariant     *)
(* says what each host holds at its place, in terms of the session and the *)
(* two nonces drawn.                                                       *)
(***************************************************************************)
EXTENDS Handshake, SequenceTheorems, TLAPS

-----------------------------------------------------------------------------
(* The messages of session s when the nonces n and m are drawn             *)

\* What RAND_bytes draws.
Nonces == 0..(NonceMod - 1)

\* The IV of session s after k increments, with its key.
Cipher(s, k) == [key |-> s, iv |-> [base |-> s, count |-> k]]

\* The transcript that both hosts hash.
Transcript(s, n, m) == << <<"server dh", s>>, <<"client dh", s>>, <<"iv", s>>,
                          <<"nonce", n>>, <<"nonce", m>> >>

\* A nonce, encrypted after k increments of the IV.
NonceFrom(s, k, n) == Message("nonce", [seal |-> Cipher(s, k), nonce |-> n])

\* A signature of the transcript with the MAC of nonce l.
SignFrom(s, n, m, l) ==
  Message("sign", [mac |-> [key |-> s, nonce |-> l], doc |-> Transcript(s, n, m)])

\* What the client sends last.
ClientsNonce == NonceFrom(session, 1, drawn.client)
ClientsSign  == SignFrom(session, drawn.server, drawn.client, drawn.client)

\* The server's signature carries the nonce that it had before two more MACs.
Answered ==
  \E l \in Nonces :
    /\ toC = <<SignFrom(session, drawn.server, drawn.client, l)>>
    /\ drawn.server # 0 => l = drawn.server
    /\ srv.local = (l + 2) % NonceMod

-----------------------------------------------------------------------------
(* The inductive invariant                                                 *)

\* Where the two processes can be together, and what is in flight there.
Turns ==
  \/ spc = "cert" /\ cpc = "cert" /\ toC = <<>> /\ toS = <<Message("cert", trusted)>>
  \/ spc = "dh" /\ cpc = "cert" /\ toS = <<>>
       /\ toC = <<Message("cert", session), Message("dh", session)>>
  \/ spc = "dh" /\ cpc = "dh" /\ toS = <<>> /\ toC = <<Message("dh", session)>>
  \/ spc = "dh" /\ cpc = "iv" /\ toC = <<>> /\ toS = <<Message("dh", session)>>
  \/ spc = "nonce" /\ cpc = "iv" /\ toS = <<>>
       /\ toC = <<Message("iv", session), NonceFrom(session, 0, drawn.server)>>
  \/ spc = "nonce" /\ cpc = "nonce" /\ toS = <<>>
       /\ toC = <<NonceFrom(session, 0, drawn.server)>>
  \/ spc = "nonce" /\ cpc = "sign" /\ toC = <<>>
       /\ toS = <<ClientsNonce, ClientsSign>>
  \/ spc = "sign" /\ cpc = "sign" /\ toC = <<>> /\ toS = <<ClientsSign>>
  \/ spc = "serving" /\ cpc = "sign" /\ toS = <<>> /\ Answered
  \/ spc = "serving" /\ cpc = "established" /\ toS = <<>> /\ toC = <<>>
  \/ spc \in {"idle", "crashed", "stuck"} /\ cpc \in {"cert", "sign"}
       /\ toS = <<>> /\ toC = <<>>

\* What may have arrived from a client that is gone.
Remains ==
  \/ toS = <<>>
  \/ spc = "cert" /\ toS = <<Message("cert", trusted)>>
  \/ spc = "dh" /\ toS = <<Message("dh", session)>>
  \/ spc = "nonce" /\ toS = <<ClientsNonce>>
  \/ spc = "nonce" /\ toS = <<ClientsNonce, ClientsSign>>
  \/ spc = "sign" /\ toS = <<ClientsSign>>

\* What is in flight.
InFlight == IF cpc = "gone" THEN Remains ELSE Turns

\* While the server waits or serves, only the end of the client closes.
Open == spc \in ServerWaits \cup {"serving"} /\ closed => cpc = "gone"

\* The nonces that have been drawn.
Drawn ==
  /\ spc \in {"nonce", "sign", "serving"} \/ cpc \in {"sign", "established"}
       => drawn.server \in Nonces
  /\ (spc = "nonce" /\ toS # <<>>) \/ spc \in {"sign", "serving"}
       \/ cpc \in {"sign", "established"} => drawn.client \in Nonces

\* What the server has hashed and set: only an old nonce is unknown, where the
\* one drawn is 0.
ServerHolds ==
  /\ spc \in {"dh", "nonce", "sign", "serving"} => trusted
  /\ spc = "cert" => sdoc = <<>>
  /\ spc = "dh" => sdoc = << <<"server dh", session>> >>
  /\ spc = "nonce" =>
       /\ srv.key = session /\ srv.iv = Cipher(session, 1).iv
       /\ sdoc = << <<"server dh", session>>, <<"client dh", session>>,
                    <<"iv", session>>, <<"nonce", drawn.server>> >>
  /\ spc = "sign" =>
       /\ srv.key = session /\ srv.iv = Cipher(session, 2).iv
       /\ drawn.server # 0 => srv.local = drawn.server
       /\ drawn.client # 0 => srv.remote = drawn.client
       /\ sdoc = Transcript(session, drawn.server, drawn.client)
  /\ spc = "serving" =>
       /\ srv.key = session /\ srv.iv = Cipher(session, 2).iv
       /\ srv.remote = (drawn.client + 2) % NonceMod

\* What the client, whose process is new, has hashed and set.
ClientHolds ==
  /\ cpc \in {"cert", "dh"} => cli = Blank
  /\ cpc = "iv" =>
       /\ cli = [Blank EXCEPT !.key = session]
       /\ cdoc = << <<"server dh", session>>, <<"client dh", session>> >>
  /\ cpc = "nonce" =>
       /\ cli = [Blank EXCEPT !.key = session, !.iv = Cipher(session, 0).iv]
       /\ cdoc = << <<"server dh", session>>, <<"client dh", session>>,
                    <<"iv", session>> >>
  /\ cpc \in {"sign", "established"} =>
       /\ cli.key = session /\ cli.iv = Cipher(session, 2).iv
       /\ cli.local = (drawn.client + 2) % NonceMod
       /\ cdoc = Transcript(session, drawn.server, drawn.client)
  /\ cpc = "sign" => cli.remote = drawn.server
  /\ cpc = "established" /\ spc = "serving" => srv.local = cli.remote

\* The server encrypts with the IV it has drawn, the client with the next.
SealsInv ==
  /\ \/ seals = <<>> \/ seals = <<Cipher(session, 0)>>
     \/ seals = <<Cipher(session, 0), Cipher(session, 1)>>
  /\ spc \in {"cert", "dh"} => seals = <<>>
  /\ cpc \in {"iv", "nonce"} /\ spc = "nonce" => seals = <<Cipher(session, 0)>>

\* No decryption and no signature fails, and a MAC only after a nonce of 0: it
\* is the last of the handshake.
FailureInv ==
  /\ CiphersAgree /\ MacsAgree
  /\ failure = "mac" => spc \notin ServerWaits

\* The inductive invariant.
IInv ==
  /\ TypeOK /\ InFlight /\ Open /\ Drawn /\ ServerHolds /\ ClientHolds
  /\ SealsInv /\ FailureInv /\ NoKeyAtRest

-----------------------------------------------------------------------------
(* Lemmas                                                                  *)

\* Queues of one and of two messages.
LEMMA Queues ==
  /\ \A a : /\ <<a>> # <<>> /\ Head(<<a>>) = a /\ Tail(<<a>>) = <<>>
            /\ Append(<<>>, a) = <<a>>
  /\ \A a, b : /\ <<a, b>> # <<>> /\ Head(<<a, b>>) = a /\ Tail(<<a, b>>) = <<b>>
               /\ <<>> \o <<a, b>> = <<a, b>>
OBVIOUS

\* A sequence is the concatenation of two if it has the elements of both.
LEMMA Joined ==
  ASSUME NEW S, NEW s \in Seq(S), NEW t \in Seq(S), NEW u \in Seq(S),
         Len(u) = Len(s) + Len(t),
         \A i \in 1..Len(u) : u[i] = IF i <= Len(s) THEN s[i] ELSE t[i - Len(s)]
  PROVE  s \o t = u
<1>1. PICK l \in Nat, m \in Nat : l = Len(s) /\ m = Len(t)
  OBVIOUS
<1>2. Len(u) = l + m /\ \A i \in 1..(l + m) : u[i] = IF i <= l THEN s[i] ELSE t[i - l]
  BY <1>1
<1>3. /\ s \o t \in Seq(S) /\ Len(s \o t) = l + m
      /\ \A i \in 1..(l + m) : (s \o t)[i] = IF i <= l THEN s[i] ELSE t[i - l]
  BY <1>1, ConcatProperties
<1>4. \A i \in 1..Len(u) : (s \o t)[i] = u[i]
  BY <1>2, <1>3
<1>5. PICK v : v = s \o t
  OBVIOUS
<1> QED BY <1>2, <1>3, <1>4, <1>5, SeqEqual

\* The first element, and all, of a sequence.
LEMMA FirstOf ==
  ASSUME NEW S, NEW s \in Seq(S), s # <<>>
  PROVE  SubSeq(s, 1, 1) = <<s[1]>>
<1>1. PICK u, j : j = 1 /\ u = SubSeq(s, j, j)
  OBVIOUS
<1>2. \A i \in j..j : s[i] \in S
  BY <1>1
<1>3. /\ u \in Seq(S) /\ Len(u) = IF j <= j THEN j - j + 1 ELSE 0
      /\ \A i \in 1..(j - j + 1) : u[i] = s[j + i - 1]
  BY <1>1, <1>2, SubSeqProperties
<1>4. u = <<s[1]>>
  <2>1. Len(u) = 1 /\ u[1] = s[1] /\ s[1] \in S
    BY <1>1, <1>2, <1>3
  <2> QED BY <1>3, <2>1, SeqEqual
<1> QED BY <1>1, <1>4

\* What remains of a queue that is cut.
LEMMA Prefixes ==
  ASSUME NEW a, NEW b
  PROVE  /\ \A k \in 0..Len(<<>>) : SubSeq(<<>>, 1, k) = <<>>
         /\ \A k \in 0..Len(<<a>>) : SubSeq(<<a>>, 1, k) \in {<<>>, <<a>>}
         /\ \A k \in 0..Len(<<a, b>>) : SubSeq(<<a, b>>, 1, k) \in {<<>>, <<a>>, <<a, b>>}
<1>1. \A k \in 0..Len(<<>>) : SubSeq(<<>>, 1, k) = <<>>
  OBVIOUS
<1>2. ASSUME NEW k \in 0..Len(<<a>>) PROVE SubSeq(<<a>>, 1, k) \in {<<>>, <<a>>}
  <2>1. k = 0 \/ k = 1
    OBVIOUS
  <2>2. SubSeq(<<a>>, 1, 0) = <<>>
    OBVIOUS
  <2>3. <<a>> \in Seq({a}) /\ <<a>> # <<>> /\ <<a>>[1] = a
    OBVIOUS
  <2>4. SubSeq(<<a>>, 1, 1) = <<a>>
    BY <2>3, FirstOf
  <2> QED BY <2>1, <2>2, <2>4
<1>3. ASSUME NEW k \in 0..Len(<<a, b>>) PROVE SubSeq(<<a, b>>, 1, k) \in {<<>>, <<a>>, <<a, b>>}
  <2>1. k = 0 \/ k = 1 \/ k = 2
    OBVIOUS
  <2>2. SubSeq(<<a, b>>, 1, 0) = <<>>
    OBVIOUS
  <2>3. <<a, b>> \in Seq({a, b}) /\ <<a, b>> # <<>> /\ <<a, b>>[1] = a /\ Len(<<a, b>>) = 2
    OBVIOUS
  <2>4. SubSeq(<<a, b>>, 1, 1) = <<a>>
    BY <2>3, FirstOf
  <2>5. PICK s, l : s = <<a, b>> /\ l = 2
    OBVIOUS
  <2>6. SubSeq(s, 1, l) = s
    BY <2>3, <2>5, SubSeqFull
  <2> QED BY <2>1, <2>2, <2>4, <2>5, <2>6
<1> QED BY <1>1, <1>2, <1>3

\* The parts of a transcript.
LEMMA Transcripts ==
  /\ \A a, b, c, d : <<a>> \o <<b, c, d>> = <<a, b, c, d>>
  /\ \A a, b, c, d, e : Append(<<a, b, c, d>>, e) = <<a, b, c, d, e>>
  /\ \A a, b : Append(<<a>>, b) = <<a, b>>
  /\ \A a, b, c : Append(<<a, b>>, c) = <<a, b, c>>
  /\ \A a, b, c, d, e : <<a, b, c>> \o <<d, e>> = <<a, b, c, d, e>>
<1>1. ASSUME NEW a, NEW b, NEW c, NEW d PROVE <<a>> \o <<b, c, d>> = <<a, b, c, d>>
  <2> DEFINE S == {a, b, c, d}
  <2>1. PICK s, t, u : s = <<a>> /\ t = <<b, c, d>> /\ u = <<a, b, c, d>>
    OBVIOUS
  <2>2. /\ s \in Seq(S) /\ t \in Seq(S) /\ u \in Seq(S)
        /\ Len(s) = 1 /\ Len(t) = 3 /\ Len(u) = 4
    BY <2>1
  <2>3. /\ s[1] = a /\ t[1] = b /\ t[2] = c /\ t[3] = d
        /\ u[1] = a /\ u[2] = b /\ u[3] = c /\ u[4] = d
    BY <2>1
  <2> HIDE DEF S
  <2>4. \A i \in 1..Len(u) : u[i] = IF i <= Len(s) THEN s[i] ELSE t[i - Len(s)]
    <3> TAKE i \in 1..Len(u)
    <3>1. i = 1 \/ i = 2 \/ i = 3 \/ i = 4
      BY <2>2
    <3> QED BY <2>2, <2>3, <3>1
  <2>5. Len(u) = Len(s) + Len(t)
    BY <2>2
  <2>6. s \o t = u
    BY <2>2, <2>4, <2>5, Joined
  <2> QED BY <2>1, <2>6
<1>2. ASSUME NEW a, NEW b, NEW c, NEW d, NEW e PROVE Append(<<a, b, c, d>>, e) = <<a, b, c, d, e>>
  <2> DEFINE S == {a, b, c, d, e}
  <2>1. <<a, b, c, d>> \in Seq(S) /\ e \in S /\ <<a, b, c, d, e>> \in Seq(S)
    OBVIOUS
  <2>2. Append(<<a, b, c, d>>, e) \in Seq(S)
    BY <2>1
  <2>3. Len(Append(<<a, b, c, d>>, e)) = 5 /\ Len(<<a, b, c, d, e>>) = 5
    BY <2>1
  <2>4. \A i \in 1..5 : i = 1 \/ i = 2 \/ i = 3 \/ i = 4 \/ i = 5
    OBVIOUS
  <2>5. \A i \in 1..5 : Append(<<a, b, c, d>>, e)[i] = <<a, b, c, d, e>>[i]
    BY <2>1, <2>4
  <2> QED BY <2>1, <2>2, <2>3, <2>5, SeqEqual
<1>3. ASSUME NEW a, NEW b, NEW c PROVE Append(<<a, b>>, c) = <<a, b, c>>
  <2> DEFINE S == {a, b, c}
  <2>1. <<a, b>> \in Seq(S) /\ c \in S /\ <<a, b, c>> \in Seq(S)
    OBVIOUS
  <2>2. Append(<<a, b>>, c) \in Seq(S)
    BY <2>1
  <2>3. Len(Append(<<a, b>>, c)) = 3 /\ Len(<<a, b, c>>) = 3
    BY <2>1
  <2>4. \A i \in 1..3 : i = 1 \/ i = 2 \/ i = 3
    OBVIOUS
  <2>5. \A i \in 1..3 : Append(<<a, b>>, c)[i] = <<a, b, c>>[i]
    BY <2>1, <2>4
  <2> QED BY <2>1, <2>2, <2>3, <2>5, SeqEqual
<1>4. ASSUME NEW a, NEW b, NEW c, NEW d, NEW e PROVE <<a, b, c>> \o <<d, e>> = <<a, b, c, d, e>>
  <2> DEFINE S == {a, b, c, d, e}
  <2>1. PICK s, t, u : s = <<a, b, c>> /\ t = <<d, e>> /\ u = <<a, b, c, d, e>>
    OBVIOUS
  <2>2. /\ s \in Seq(S) /\ t \in Seq(S) /\ u \in Seq(S)
        /\ Len(s) = 3 /\ Len(t) = 2 /\ Len(u) = 5
    BY <2>1
  <2>3. /\ s[1] = a /\ s[2] = b /\ s[3] = c /\ t[1] = d /\ t[2] = e
        /\ u[1] = a /\ u[2] = b /\ u[3] = c /\ u[4] = d /\ u[5] = e
    BY <2>1
  <2> HIDE DEF S
  <2>4. \A i \in 1..Len(u) : u[i] = IF i <= Len(s) THEN s[i] ELSE t[i - Len(s)]
    <3> TAKE i \in 1..Len(u)
    <3>1. i = 1 \/ i = 2 \/ i = 3 \/ i = 4 \/ i = 5
      BY <2>2
    <3> QED BY <2>2, <2>3, <3>1
  <2>5. Len(u) = Len(s) + Len(t)
    BY <2>2
  <2>6. s \o t = u
    BY <2>2, <2>4, <2>5, Joined
  <2> QED BY <2>1, <2>6
<1>5. ASSUME NEW a, NEW b PROVE Append(<<a>>, b) = <<a, b>>
  <2> DEFINE S == {a, b}
  <2>1. <<a>> \in Seq(S) /\ b \in S /\ <<a, b>> \in Seq(S)
    OBVIOUS
  <2>2. Append(<<a>>, b) \in Seq(S)
    BY <2>1
  <2>3. Len(Append(<<a>>, b)) = 2 /\ Len(<<a, b>>) = 2
    BY <2>1
  <2>4. \A i \in 1..2 : i = 1 \/ i = 2
    OBVIOUS
  <2>5. \A i \in 1..2 : Append(<<a>>, b)[i] = <<a, b>>[i]
    BY <2>1, <2>4
  <2> QED BY <2>1, <2>2, <2>3, <2>5, SeqEqual
<1> QED BY <1>1, <1>2, <1>3, <1>4, <1>5

\* The operations of an endpoint keep its type.
LEMMA Typed ==
  ASSUME NEW e \in EndpointSet, NEW k \in Nat, NEW n \in Nonces, NEW m \in Nonces
  PROVE  /\ DestroyKeys(e) \in EndpointSet /\ SetKey(e, k) \in EndpointSet
         /\ SetIV(e, k) \in EndpointSet /\ NewCipher(e) \in EndpointSet
         /\ SetNonces(e, n, m) \in EndpointSet
<1>1. DestroyKeys(e) \in EndpointSet
  BY DEF EndpointSet, DestroyKeys, NoKey
<1>2. SetKey(e, k) \in EndpointSet
  BY DEF EndpointSet, SetKey
<1>3. SetIV(e, k) \in EndpointSet
  BY DEF EndpointSet, SetIV
<1>4. NewCipher(e) \in EndpointSet
  BY DEF EndpointSet, NewCipher
<1>5. SetNonces(e, n, m) \in EndpointSet
  BY DEF EndpointSet, SetNonces, Nonces
<1> QED BY <1>1, <1>2, <1>3, <1>4, <1>5

\* A nonce that is drawn.
LEMMA Redrawn ==
  ASSUME NEW d \in [{"server", "client"} -> 0..NonceMod], NEW n \in Nonces
  PROVE  /\ [d EXCEPT !.server = n] \in [{"server", "client"} -> 0..NonceMod]
         /\ [d EXCEPT !.server = n].server = n /\ [d EXCEPT !.server = n].client = d.client
         /\ [d EXCEPT !.client = n] \in [{"server", "client"} -> 0..NonceMod]
         /\ [d EXCEPT !.client = n].client = n /\ [d EXCEPT !.client = n].server = d.server
<1>1. n \in 0..NonceMod
  BY NonceAssumption DEF Nonces
<1> QED BY <1>1

\* A cipher increments the IV.
LEMMA NextCipher ==
  ASSUME NEW e \in EndpointSet, NEW k \in Nat, e.key = k
  PROVE  /\ NewCipher(e) \in EndpointSet /\ NewCipher(e).key = k
         /\ NewCipher(e).local = e.local /\ NewCipher(e).remote = e.remote
         /\ e.iv = Cipher(k, 0).iv => NewCipher(e).iv = Cipher(k, 1).iv
         /\ e.iv = Cipher(k, 1).iv => NewCipher(e).iv = Cipher(k, 2).iv
<1>1. PICK b \in Nat, c \in Nat : e.iv = [base |-> b, count |-> c]
  BY DEF EndpointSet
<1>2. NewCipher(e).iv = [base |-> b, count |-> c + 1]
  BY <1>1 DEF NewCipher, EndpointSet
<1>3. /\ NewCipher(e) \in EndpointSet /\ NewCipher(e).key = k
      /\ NewCipher(e).local = e.local /\ NewCipher(e).remote = e.remote
  BY DEF NewCipher, EndpointSet
<1>4. ASSUME e.iv = Cipher(k, 0).iv PROVE NewCipher(e).iv = Cipher(k, 1).iv
  <2>1. b = k /\ c + 1 = 1
    BY <1>1, <1>4 DEF Cipher
  <2> QED BY <1>2, <2>1 DEF Cipher
<1>5. ASSUME e.iv = Cipher(k, 1).iv PROVE NewCipher(e).iv = Cipher(k, 2).iv
  <2>1. b = k /\ c + 1 = 2
    BY <1>1, <1>5 DEF Cipher
  <2> QED BY <1>2, <2>1 DEF Cipher
<1> QED BY <1>3, <1>4, <1>5

\* And so do the nonces, which wrap.
LEMMA Counted ==
  ASSUME NEW e \in EndpointSet, NEW n \in Nat
  PROVE  AfterSent(e, n) \in EndpointSet /\ AfterReceived(e, n) \in EndpointSet
BY NonceAssumption DEF EndpointSet, AfterSent, AfterReceived
-----------------------------------------------------------------------------
(* The steps of the invariant                                              *)

\* Nobody is connected at first.
LEMMA Initially == Init => IInv
<1> SUFFICES ASSUME Init PROVE IInv
  OBVIOUS
<1>1. Blank \in EndpointSet /\ Undrawn \in [{"server", "client"} -> 0..NonceMod]
  BY NonceAssumption DEF Blank, NoKey, EndpointSet, Undrawn
<1>2. TypeOK
  <2>1. session \in 0..MaxSessions /\ srv \in EndpointSet /\ cli \in EndpointSet
        /\ drawn \in [{"server", "client"} -> 0..NonceMod]
    BY <1>1, SessionAssumption DEF Init
  <2> QED BY <2>1 DEF Init, TypeOK
<1>3. InFlight /\ Open /\ Drawn /\ ServerHolds /\ ClientHolds /\ SealsInv
  BY DEF Init, InFlight, Remains, Open, Drawn, ServerHolds, ClientHolds, SealsInv, ServerWaits
<1>4. FailureInv /\ NoKeyAtRest
  BY DEF Init, FailureInv, CiphersAgree, MacsAgree, NoKeyAtRest, Blank
<1> QED BY <1>2, <1>3, <1>4 DEF IInv

\* A client connects while nobody waits: only its certificate is under way.
LEMMA ConnectStep == IInv /\ Connect => IInv'
<1> SUFFICES ASSUME IInv, Connect PROVE IInv'
  OBVIOUS
<1>1. /\ spc = "idle" /\ cpc = "gone" /\ session < MaxSessions /\ session' = session + 1
      /\ trusted' \in BOOLEAN /\ cli' = Blank /\ cpc' = "cert" /\ spc' = "cert"
      /\ closed' = FALSE /\ toS' = <<Message("cert", trusted')>> /\ toC' = <<>>
      /\ drawn' = Undrawn /\ sdoc' = <<>> /\ seals' = <<>> /\ failure' = "none"
      /\ srv' = srv
  BY DEF Connect
<1>2. Blank \in EndpointSet /\ Undrawn \in [{"server", "client"} -> 0..NonceMod]
  BY NonceAssumption DEF Blank, NoKey, EndpointSet, Undrawn
<1>3. TypeOK'
  BY <1>1, <1>2, SessionAssumption DEF IInv, TypeOK, ServerWaits, ClientWaits
<1>4. InFlight' /\ Open' /\ Drawn' /\ ServerHolds' /\ ClientHolds' /\ SealsInv'
  BY <1>1, Queues DEF InFlight, Turns, Open, Drawn, ServerHolds, ClientHolds, SealsInv, ServerWaits
<1>5. FailureInv' /\ NoKeyAtRest'
  BY <1>1 DEF FailureInv, CiphersAgree, MacsAgree, NoKeyAtRest, ServerWaits
<1> QED BY <1>3, <1>4, <1>5 DEF IInv

\* What the server can find in its queue, and where the client then is.
LEMMA ServerFinds ==
  ASSUME IInv, toS # <<>>
  PROVE  /\ spc = "cert" => /\ toS = <<Message("cert", trusted)>>
                            /\ (cpc = "gone" \/ (cpc = "cert" /\ toC = <<>>))
         /\ spc = "dh" => /\ toS = <<Message("dh", session)>>
                          /\ (cpc = "gone" \/ (cpc = "iv" /\ toC = <<>>))
         /\ spc = "nonce" => \/ /\ toS = <<ClientsNonce>> /\ cpc = "gone"
                             \/ /\ toS = <<ClientsNonce, ClientsSign>>
                                /\ (cpc = "gone" \/ (cpc = "sign" /\ toC = <<>>))
         /\ spc = "sign" => /\ toS = <<ClientsSign>>
                            /\ (cpc = "gone" \/ (cpc = "sign" /\ toC = <<>>))
<1>1. CASE cpc = "gone"
  <2>1. Remains
    BY <1>1 DEF IInv, InFlight
  <2>2. spc = "cert" => toS = <<Message("cert", trusted)>>
    BY <2>1 DEF Remains
  <2>3. spc = "dh" => toS = <<Message("dh", session)>>
    BY <2>1 DEF Remains
  <2>4. spc = "nonce" => toS = <<ClientsNonce>> \/ toS = <<ClientsNonce, ClientsSign>>
    BY <2>1 DEF Remains
  <2>5. spc = "sign" => toS = <<ClientsSign>>
    BY <2>1 DEF Remains
  <2> QED BY <1>1, <2>2, <2>3, <2>4, <2>5, Zenon
<1>2. CASE cpc # "gone"
  BY <1>2 DEF IInv, InFlight, Turns
<1> QED BY <1>1, <1>2

\* What the client can find in its queue, and where the server then is.
LEMMA ClientFinds ==
  ASSUME IInv, toC # <<>>, cpc # "gone"
  PROVE  /\ toS = <<>>
         /\ cpc = "cert" => /\ spc = "dh"
                            /\ toC = <<Message("cert", session), Message("dh", session)>>
         /\ cpc = "dh" => spc = "dh" /\ toC = <<Message("dh", session)>>
         /\ cpc = "iv" => /\ spc = "nonce"
                          /\ toC = <<Message("iv", session), NonceFrom(session, 0, drawn.server)>>
         /\ cpc = "nonce" => spc = "nonce" /\ toC = <<NonceFrom(session, 0, drawn.server)>>
         /\ cpc = "sign" => spc = "serving" /\ Answered
         /\ cpc # "established"
BY DEF IInv, InFlight, Turns

\* The server answers a client of the list, and closes on any other.
LEMMA ServerCertStep == IInv /\ ServerCert => IInv'
<1> SUFFICES ASSUME IInv, ServerCert PROVE IInv'
  OBVIOUS
<1>1. /\ spc = "cert" /\ toS # <<>> /\ toS' = Tail(toS)
      /\ UNCHANGED <<session, trusted, cli, cpc, cdoc, drawn, seals, failure>>
  BY DEF ServerCert, ServerTakes
<1>2. toS' = <<>> /\ (cpc = "gone" \/ (cpc = "cert" /\ toC = <<>>))
  BY <1>1, ServerFinds, Queues
<1>3. CASE /\ trusted /\ toC' = toC \o <<Message("cert", session), Message("dh", session)>>
           /\ sdoc' = <<<<"server dh", session>>>>
           /\ spc' = "dh" /\ UNCHANGED <<srv, closed>>
  <2>1. TypeOK'
    BY <1>1, <1>3 DEF IInv, TypeOK, ServerWaits
  <2>2. InFlight'
    <3>1. cpc # "gone" => toC' = <<Message("cert", session), Message("dh", session)>>
      BY <1>2, <1>3, Queues
    <3> QED BY <1>1, <1>2, <1>3, <3>1 DEF InFlight, Turns, Remains
  <2>3. Open' /\ Drawn' /\ ServerHolds' /\ ClientHolds' /\ SealsInv'
    BY <1>1, <1>2, <1>3 DEF IInv, Open, Drawn, ServerHolds, ClientHolds, SealsInv, ServerWaits
  <2>4. FailureInv' /\ NoKeyAtRest'
    BY <1>1, <1>3 DEF IInv, FailureInv, CiphersAgree, MacsAgree, NoKeyAtRest, ServerWaits
  <2> QED BY <2>1, <2>2, <2>3, <2>4 DEF IInv
<1>4. CASE ~trusted /\ GiveUp(srv) /\ UNCHANGED <<toC, sdoc>>
  <2>1. srv' = DestroyKeys(srv) /\ spc' = "idle" /\ closed' = TRUE /\ UNCHANGED <<toC, sdoc>>
    BY <1>4 DEF GiveUp
  <2>2. DestroyKeys(srv) \in EndpointSet /\ DestroyKeys(srv).key = NoKey
    BY DEF IInv, TypeOK, EndpointSet, DestroyKeys, NoKey
  <2>3. TypeOK'
    BY <1>1, <2>1, <2>2 DEF IInv, TypeOK
  <2>4. InFlight'
    BY <1>1, <1>2, <2>1 DEF InFlight, Turns, Remains
  <2>5. Open' /\ Drawn' /\ ServerHolds' /\ ClientHolds' /\ SealsInv'
    BY <1>1, <1>2, <2>1 DEF IInv, Open, Drawn, ServerHolds, ClientHolds, SealsInv, ServerWaits
  <2>6. FailureInv' /\ NoKeyAtRest'
    BY <1>1, <2>1, <2>2 DEF IInv, FailureInv, CiphersAgree, MacsAgree, NoKeyAtRest, ServerWaits
  <2> QED BY <2>3, <2>4, <2>5, <2>6 DEF IInv
<1> QED BY <1>3, <1>4 DEF ServerCert

\* The server sets the key and draws its IV before it encrypts its nonce.
LEMMA ServerDHStep == IInv /\ ServerDH => IInv'
<1> SUFFICES ASSUME IInv, ServerDH PROVE IInv'
  OBVIOUS
<1>1. /\ spc = "dh" /\ toS # <<>> /\ toS' = Tail(toS) /\ spc' = "nonce"
      /\ UNCHANGED <<session, trusted, cli, cpc, cdoc, closed, failure>>
  BY DEF ServerDH, ServerTakes
<1>2. toS = <<Message("dh", session)>> /\ toS' = <<>> /\ (cpc = "gone" \/ (cpc = "iv" /\ toC = <<>>))
  BY <1>1, ServerFinds, Queues
<1>3. Head(toS).body = session
  BY <1>2, Queues DEF Message
<1>4. PICK n \in Nonces :
        LET f == SetIV(SetKey(srv, session), session)
        IN  /\ toC' = toC \o <<Message("iv", session), Message("nonce", Sealed(f, n))>>
            /\ srv' = NewCipher(f) /\ seals' = Append(seals, Seal(f))
            /\ drawn' = [drawn EXCEPT !.server = n]
            /\ sdoc' = sdoc \o <<<<"client dh", session>>, <<"iv", session>>, <<"nonce", n>>>>
  BY <1>3 DEF ServerDH, Nonces
<1>5. PICK k, e : k = session /\ e = SetIV(SetKey(srv, k), k)
  OBVIOUS
<1>6. /\ toC' = toC \o <<Message("iv", k), Message("nonce", Sealed(e, n))>>
      /\ srv' = NewCipher(e) /\ seals' = Append(seals, Seal(e))
      /\ sdoc' = sdoc \o <<<<"client dh", k>>, <<"iv", k>>, <<"nonce", n>>>>
  BY <1>4, <1>5
<1>7. /\ k \in Nat /\ e.key = k /\ e.iv = Cipher(k, 0).iv /\ e \in EndpointSet
  <2>1. srv \in EndpointSet /\ k \in Nat
    BY <1>5, SessionAssumption DEF IInv, TypeOK
  <2> QED BY <1>5, <2>1 DEF SetIV, SetKey, EndpointSet, Cipher
<1>8. Seal(e) = Cipher(k, 0) /\ Message("nonce", Sealed(e, n)) = NonceFrom(k, 0, n)
  BY <1>7 DEF Seal, Cipher, Sealed, NonceFrom
<1>9. /\ NewCipher(e) \in EndpointSet /\ NewCipher(e).key = k
      /\ NewCipher(e).iv = Cipher(k, 1).iv
  BY <1>7 DEF NewCipher, EndpointSet, Cipher
<1>10. /\ drawn'.server = n /\ drawn'.client = drawn.client
       /\ drawn' \in [{"server", "client"} -> 0..NonceMod]
  BY <1>4, Redrawn DEF IInv, TypeOK
<1>11. TypeOK'
  BY <1>1, <1>6, <1>9, <1>10 DEF IInv, TypeOK, ServerWaits
<1>12. InFlight'
  <2>1. cpc # "gone" => toC' = <<Message("iv", k), NonceFrom(k, 0, n)>>
    BY <1>2, <1>6, <1>8, Queues
  <2> QED BY <1>1, <1>2, <1>5, <1>10, <2>1 DEF InFlight, Turns, Remains
<1>13. Open' /\ Drawn'
  BY <1>1, <1>2, <1>10 DEF IInv, Open, Drawn, ServerWaits
<1>14. ServerHolds'
  <2>1. sdoc = <<<<"server dh", k>>>> /\ trusted
    BY <1>1, <1>5 DEF IInv, ServerHolds
  <2>2. PICK a, b, c, d : /\ a = <<"server dh", k>> /\ b = <<"client dh", k>>
                          /\ c = <<"iv", k>> /\ d = <<"nonce", n>>
    OBVIOUS
  <2>3. sdoc' = <<a>> \o <<b, c, d>>
    BY <1>6, <2>1, <2>2
  <2>4. sdoc' = <<a, b, c, d>>
    BY <2>3, Transcripts
  <2> QED BY <1>1, <1>5, <1>6, <1>9, <1>10, <2>1, <2>2, <2>4 DEF ServerHolds
<1>15. ClientHolds'
  BY <1>1, <1>2 DEF IInv, ClientHolds
<1>16. SealsInv'
  <2>1. seals = <<>>
    BY <1>1 DEF IInv, SealsInv
  <2>2. seals' = <<Cipher(k, 0)>>
    BY <1>6, <1>8, <2>1, Queues
  <2> QED BY <1>1, <1>5, <2>2 DEF SealsInv
<1>17. FailureInv' /\ NoKeyAtRest'
  BY <1>1 DEF IInv, FailureInv, CiphersAgree, MacsAgree, NoKeyAtRest, ServerWaits
<1> QED BY <1>11, <1>12, <1>13, <1>14, <1>15, <1>16, <1>17 DEF IInv

\* The decryption of the client's nonce cannot fail.
LEMMA ServerNonceStep == IInv /\ ServerNonce => IInv'
<1> SUFFICES ASSUME IInv, ServerNonce PROVE IInv'
  OBVIOUS
<1>1. /\ spc = "nonce" /\ toS # <<>> /\ toS' = Tail(toS)
      /\ UNCHANGED <<session, trusted, cli, cpc, cdoc, toC, drawn, seals>>
  BY DEF ServerNonce, ServerTakes
<1>2. PICK s, k, n, m : s = srv /\ k = session /\ n = drawn.server /\ m = drawn.client
  OBVIOUS
<1>3. Head(toS) = ClientsNonce /\ Head(toS).body = [seal |-> Cipher(k, 1), nonce |-> m]
  <2>1. Head(toS) = ClientsNonce
    BY <1>1, ServerFinds, Queues
  <2> QED BY <1>2, <2>1 DEF ClientsNonce, NonceFrom, Message
<1>4. /\ s \in EndpointSet /\ k \in Nat /\ n \in Nonces /\ m \in Nonces
      /\ s.key = k /\ s.iv = Cipher(k, 1).iv
      /\ sdoc = <<<<"server dh", k>>, <<"client dh", k>>, <<"iv", k>>, <<"nonce", n>>>>
      /\ trusted
  <2>1. /\ srv \in EndpointSet /\ session \in Nat
    BY SessionAssumption DEF IInv, TypeOK
  <2>2. n \in Nonces /\ m \in Nonces
    BY <1>1, <1>2 DEF IInv, Drawn
  <2>3. /\ srv.key = session /\ srv.iv = Cipher(session, 1).iv /\ trusted
        /\ sdoc = <<<<"server dh", k>>, <<"client dh", k>>, <<"iv", k>>, <<"nonce", n>>>>
    BY <1>1, <1>2 DEF IInv, ServerHolds
  <2> QED BY <1>2, <2>1, <2>2, <2>3
<1>5. Seal(s) = Cipher(k, 1)
  BY <1>4 DEF Seal, Cipher
<1>6. PICK e, f : e = NewCipher(s) /\ f = SetNonces(e, n, m)
  OBVIOUS
<1>7. /\ srv' = f /\ sdoc' = Append(sdoc, <<"nonce", m>>) /\ spc' = "sign"
      /\ UNCHANGED <<closed, failure>>
  <2>1. Head(toS).body.seal = Seal(srv) /\ Head(toS).body.nonce = m
    BY <1>2, <1>3, <1>5
  <2>2. LET h == Head(toS).body
        IN  /\ h.seal = Seal(srv)
            /\ srv' = SetNonces(NewCipher(srv), drawn.server, h.nonce)
            /\ sdoc' = Append(sdoc, <<"nonce", h.nonce>>)
            /\ spc' = "sign" /\ UNCHANGED <<closed, failure>>
    BY <2>1 DEF ServerNonce
  <2> QED BY <1>2, <1>6, <2>1, <2>2
<1>8. e \in EndpointSet /\ e.key = k /\ e.iv = Cipher(k, 2).iv
  BY <1>4, <1>6, NextCipher
<1>9. /\ f \in EndpointSet /\ f.key = k /\ f.iv = Cipher(k, 2).iv
      /\ n # 0 => f.local = n
      /\ m # 0 => f.remote = m
  <2>1. f \in EndpointSet
    BY <1>4, <1>6, <1>8, Typed
  <2> QED BY <1>6, <1>8, <2>1 DEF SetNonces, EndpointSet
<1>10. TypeOK'
  BY <1>1, <1>7, <1>9 DEF IInv, TypeOK, ServerWaits
<1>11. InFlight'
  <2>1. CASE cpc = "gone"
    <3>1. toS = <<ClientsNonce>> \/ toS = <<ClientsNonce, ClientsSign>>
      BY <1>1, ServerFinds
    <3>2. toS' = <<>> \/ toS' = <<ClientsSign>>
      BY <1>1, <3>1, Queues
    <3> QED BY <1>1, <1>7, <2>1, <3>2 DEF InFlight, Remains, ClientsSign
  <2>2. CASE cpc # "gone"
    <3>1. toS = <<ClientsNonce, ClientsSign>> /\ cpc = "sign" /\ toC = <<>>
      BY <1>1, <2>2, ServerFinds
    <3>2. toS' = <<ClientsSign>>
      BY <1>1, <3>1, Queues
    <3> QED BY <1>1, <1>7, <3>1, <3>2 DEF InFlight, Turns, ClientsSign
  <2> QED BY <2>1, <2>2
<1>12. Open' /\ Drawn'
  BY <1>1, <1>2, <1>4, <1>7 DEF IInv, Open, Drawn, ServerWaits
<1>13. ServerHolds'
  <2>1. PICK a, b, c, d, g : /\ a = <<"server dh", k>> /\ b = <<"client dh", k>>
                             /\ c = <<"iv", k>> /\ d = <<"nonce", n>> /\ g = <<"nonce", m>>
    OBVIOUS
  <2>2. sdoc' = Append(<<a, b, c, d>>, g)
    BY <1>4, <1>7, <2>1
  <2>3. sdoc' = <<a, b, c, d, g>>
    BY <2>2, Transcripts
  <2>4. sdoc' = Transcript(k, n, m)
    BY <2>1, <2>3 DEF Transcript
  <2> QED BY <1>1, <1>2, <1>4, <1>7, <1>9, <2>4 DEF ServerHolds
<1>14. ClientHolds'
  BY <1>1, <1>7 DEF IInv, ClientHolds
<1>15. SealsInv'
  BY <1>1, <1>7 DEF IInv, SealsInv
<1>16. FailureInv' /\ NoKeyAtRest'
  BY <1>1, <1>7 DEF IInv, FailureInv, CiphersAgree, MacsAgree, NoKeyAtRest, ServerWaits
<1> QED BY <1>10, <1>11, <1>12, <1>13, <1>14, <1>15, <1>16 DEF IInv

\* A failing MAC crashes the server; otherwise the client has signed what the
\* server has hashed.
LEMMA ServerSignStep == IInv /\ ServerSign => IInv'
<1> SUFFICES ASSUME IInv, ServerSign PROVE IInv'
  OBVIOUS
<1>1. /\ spc = "sign" /\ toS # <<>> /\ toS' = Tail(toS)
      /\ UNCHANGED <<session, trusted, cli, cpc, cdoc, drawn, sdoc, seals>>
  BY DEF ServerSign, ServerTakes
<1>2. PICK s, k, n, m : s = srv /\ k = session /\ n = drawn.server /\ m = drawn.client
  OBVIOUS
<1>3. toS = <<ClientsSign>> /\ toS' = <<>> /\ (cpc = "gone" \/ (cpc = "sign" /\ toC = <<>>))
  BY <1>1, ServerFinds, Queues
<1>4. Head(toS).body = [mac |-> [key |-> k, nonce |-> m], doc |-> Transcript(k, n, m)]
  BY <1>2, <1>3, Queues DEF ClientsSign, SignFrom, Message
<1>5. /\ s \in EndpointSet /\ k \in Nat /\ n \in Nonces /\ m \in Nonces
      /\ s.key = k /\ s.iv = Cipher(k, 2).iv
      /\ n # 0 => s.local = n
      /\ m # 0 => s.remote = m
      /\ sdoc = Transcript(k, n, m) /\ trusted
  <2>1. /\ srv \in EndpointSet /\ session \in Nat
    BY SessionAssumption DEF IInv, TypeOK
  <2>2. n \in Nonces /\ m \in Nonces
    BY <1>1, <1>2 DEF IInv, Drawn
  <2>3. /\ srv.key = session /\ srv.iv = Cipher(session, 2).iv /\ trusted
        /\ n # 0 => srv.local = n
        /\ m # 0 => srv.remote = m
        /\ sdoc = Transcript(session, n, m)
    BY <1>1, <1>2 DEF IInv, ServerHolds
  <2> QED BY <1>2, <2>1, <2>2, <2>3
<1>6. PICK mac : mac = [key |-> k, nonce |-> m]
  OBVIOUS
<1>7. \/ /\ ~MacMatches(s, mac) /\ srv' = AfterReceived(s, 1)
         /\ spc' = "crashed" /\ closed' = TRUE /\ failure' = "mac" /\ toC' = toC
      \/ LET e == AfterReceived(s, 2)
         IN  /\ MacMatches(s, mac) /\ srv' = AfterSent(e, 2) /\ spc' = "serving"
             /\ toC' = Append(toC, Message("sign", Signed(e, Transcript(k, n, m))))
             /\ UNCHANGED <<closed, failure>>
  <2>1. Head(toS).body.mac = mac /\ Head(toS).body.doc = sdoc /\ sdoc = Transcript(k, n, m)
    BY <1>4, <1>5, <1>6
  <2> QED BY <1>2, <2>1 DEF ServerSign
<1>8. CASE /\ ~MacMatches(s, mac) /\ srv' = AfterReceived(s, 1)
           /\ spc' = "crashed" /\ closed' = TRUE /\ failure' = "mac" /\ toC' = toC
  <2>1. m = 0
    BY <1>5, <1>6, <1>8 DEF MacMatches
  <2>2. srv' \in EndpointSet
    BY <1>5, <1>8, Counted
  <2>3. TypeOK'
    BY <1>1, <1>8, <2>2 DEF IInv, TypeOK
  <2>4. InFlight' /\ Open' /\ Drawn'
    BY <1>1, <1>3, <1>8 DEF IInv, InFlight, Turns, Remains, Open, Drawn, ServerWaits
  <2>5. ServerHolds' /\ ClientHolds' /\ SealsInv'
    BY <1>1, <1>8 DEF IInv, ServerHolds, ClientHolds, SealsInv
  <2>6. FailureInv' /\ NoKeyAtRest'
    BY <1>1, <1>2, <1>8, <2>1 DEF FailureInv, CiphersAgree, MacsAgree, NoKeyAtRest, ServerWaits
  <2> QED BY <2>3, <2>4, <2>5, <2>6 DEF IInv
<1>9. CASE LET e == AfterReceived(s, 2)
           IN  /\ MacMatches(s, mac) /\ srv' = AfterSent(e, 2) /\ spc' = "serving"
               /\ toC' = Append(toC, Message("sign", Signed(e, Transcript(k, n, m))))
               /\ UNCHANGED <<closed, failure>>
  <2>1. PICK e, f : e = AfterReceived(s, 2) /\ f = AfterSent(e, 2)
    OBVIOUS
  <2>2. s.remote = m
    BY <1>6, <1>9 DEF MacMatches
  <2>3. /\ e \in EndpointSet /\ e.key = k /\ e.iv = s.iv /\ e.local = s.local
        /\ e.remote = (m + 2) % NonceMod
    <3>1. e \in EndpointSet
      BY <1>5, <2>1, Counted
    <3> QED BY <1>5, <2>1, <2>2, <3>1 DEF AfterReceived, EndpointSet
  <2>4. /\ f \in EndpointSet /\ f.key = k /\ f.iv = s.iv /\ f.remote = (m + 2) % NonceMod
        /\ f.local = (s.local + 2) % NonceMod
    <3>1. f \in EndpointSet
      BY <2>1, <2>3, Counted
    <3> QED BY <2>1, <2>3, <3>1 DEF AfterSent, EndpointSet
  <2>5. /\ srv' = f /\ spc' = "serving" /\ UNCHANGED <<closed, failure>>
        /\ toC' = Append(toC, Message("sign", Signed(e, Transcript(k, n, m))))
    BY <1>9, <2>1
  <2>6. TypeOK'
    BY <1>1, <2>4, <2>5 DEF IInv, TypeOK
  <2>7. InFlight'
    <3>1. CASE cpc = "gone"
      BY <1>1, <1>3, <3>1 DEF InFlight, Remains
    <3>2. CASE cpc # "gone"
      <4>1. PICK l \in Nonces : l = s.local
        BY <1>5 DEF EndpointSet, Nonces
      <4>2. Message("sign", Signed(e, Transcript(k, n, m))) = SignFrom(k, n, m, l)
        BY <2>3, <4>1 DEF Signed, Mac, SignFrom
      <4>3. toC' = <<SignFrom(k, n, m, l)>>
        BY <1>3, <2>5, <3>2, <4>2, Queues
      <4>4. (n # 0 => l = n) /\ srv'.local = (l + 2) % NonceMod
        BY <1>5, <2>4, <2>5, <4>1
      <4>5. Answered'
        BY <1>1, <1>2, <4>3, <4>4 DEF Answered, Nonces
      <4> QED BY <1>1, <1>3, <2>5, <3>2, <4>5 DEF InFlight, Turns
    <3> QED BY <3>1, <3>2
  <2>8. Open' /\ Drawn'
    BY <1>1, <1>2, <1>5, <2>5 DEF IInv, Open, Drawn, ServerWaits
  <2>9. ServerHolds'
    BY <1>1, <1>2, <1>5, <2>4, <2>5 DEF ServerHolds
  <2>10. ClientHolds' /\ SealsInv'
    BY <1>1, <1>3, <2>5 DEF IInv, ClientHolds, SealsInv
  <2>11. FailureInv' /\ NoKeyAtRest'
    BY <1>1, <2>5 DEF IInv, FailureInv, CiphersAgree, MacsAgree, NoKeyAtRest, ServerWaits
  <2> QED BY <2>6, <2>7, <2>8, <2>9, <2>10, <2>11 DEF IInv
<1> QED BY <1>7, <1>8, <1>9

\* Where the server gives up or is lost, its client is gone already.
LEMMA ServerEnds ==
  ASSUME IInv, cpc = "gone", toS = <<>>, srv' \in EndpointSet,
         spc' \in {"idle", "crashed", "stuck"}, spc' = "idle" => srv'.key = NoKey,
         UNCHANGED <<session, trusted, cli, cpc, toS, toC, drawn, sdoc, cdoc, seals, failure>>
  PROVE  IInv'
<1>1. TypeOK' /\ InFlight' /\ Open' /\ Drawn'
  BY DEF IInv, TypeOK, InFlight, Remains, Open, Drawn
<1>2. ServerHolds' /\ ClientHolds' /\ SealsInv'
  BY DEF IInv, ServerHolds, ClientHolds, SealsInv
<1>3. FailureInv' /\ NoKeyAtRest'
  BY DEF IInv, FailureInv, CiphersAgree, MacsAgree, NoKeyAtRest, ServerWaits
<1> QED BY <1>1, <1>2, <1>3 DEF IInv

\* The server is lost only after its client, which has left nothing to take.
LEMMA ServerLosesStep == IInv /\ ServerLoses => IInv'
<1> SUFFICES ASSUME IInv, ServerLoses PROVE IInv'
  OBVIOUS
<1>1. /\ spc \in ServerWaits /\ toS = <<>> /\ closed
      /\ UNCHANGED <<session, trusted, cli, cpc, toS, toC, drawn, sdoc, cdoc, seals, failure>>
  BY DEF ServerLoses
<1>2. cpc = "gone"
  BY <1>1 DEF IInv, Open
<1>3. srv \in EndpointSet
  BY DEF IInv, TypeOK
<1>4. DestroyKeys(srv) \in EndpointSet /\ DestroyKeys(srv).key = NoKey
  BY <1>3 DEF EndpointSet, DestroyKeys, NoKey
<1>5. LossOutcomes(spc) \subseteq {"idle", "stuck", "crashed"}
  BY <1>1 DEF ServerWaits, LossOutcomes
<1>6. \/ GiveUp(srv)
      \/ spc' \in {"stuck", "crashed"} /\ UNCHANGED srv
  BY <1>5 DEF ServerLoses
<1>7. /\ srv' \in EndpointSet /\ spc' \in {"idle", "crashed", "stuck"}
      /\ spc' = "idle" => srv'.key = NoKey
  BY <1>3, <1>4, <1>6 DEF GiveUp
<1> QED BY <1>1, <1>2, <1>7, ServerEnds

\* A connection that is served ends after its client.
LEMMA DisconnectStep == IInv /\ Disconnect => IInv'
<1> SUFFICES ASSUME IInv, Disconnect PROVE IInv'
  OBVIOUS
<1>1. /\ spc = "serving" /\ closed /\ srv' = DestroyKeys(srv) /\ spc' = "idle"
      /\ UNCHANGED <<session, trusted, cli, cpc, toS, toC, drawn, sdoc, cdoc, seals, failure>>
  BY DEF Disconnect, GiveUp
<1>2. cpc = "gone" /\ toS = <<>>
  BY <1>1 DEF IInv, Open, InFlight, Remains
<1>3. srv' \in EndpointSet /\ srv'.key = NoKey
  BY <1>1 DEF IInv, TypeOK, EndpointSet, DestroyKeys, NoKey
<1> QED BY <1>1, <1>2, <1>3, ServerEnds

\* A server that is started again has no key.
LEMMA RestartStep == IInv /\ Restart => IInv'
<1> SUFFICES ASSUME IInv, Restart PROVE IInv'
  OBVIOUS
<1>1. /\ spc \in {"crashed", "stuck"} /\ cpc = "gone" /\ srv' = Blank /\ spc' = "idle"
      /\ UNCHANGED <<session, trusted, cli, cpc, toS, toC, drawn, sdoc, cdoc, seals, failure>>
  BY DEF Restart
<1>2. toS = <<>>
  BY <1>1 DEF IInv, InFlight, Remains
<1>3. srv' \in EndpointSet /\ srv'.key = NoKey
  BY <1>1, NonceAssumption DEF Blank, EndpointSet, NoKey
<1> QED BY <1>1, <1>2, <1>3, ServerEnds

\* The client's certificate message says nothing that its answer depends on.
LEMMA ClientCertStep == IInv /\ ClientCert => IInv'
<1> SUFFICES ASSUME IInv, ClientCert PROVE IInv'
  OBVIOUS
<1>1. /\ cpc = "cert" /\ toC # <<>> /\ toC' = Tail(toC) /\ cpc' = "dh"
      /\ UNCHANGED <<session, trusted, srv, spc, sdoc, cli, toS, closed, drawn, cdoc, seals, failure>>
  BY DEF ClientCert, ClientTakes
<1>2. /\ spc = "dh" /\ toS = <<>> /\ toC = <<Message("cert", session), Message("dh", session)>>
      /\ toC' = <<Message("dh", session)>>
  BY <1>1, ClientFinds, Queues
<1>3. TypeOK'
  BY <1>1 DEF IInv, TypeOK, ClientWaits
<1>4. InFlight'
  BY <1>1, <1>2 DEF InFlight, Turns
<1>5. Open' /\ Drawn' /\ ServerHolds' /\ ClientHolds' /\ SealsInv'
  BY <1>1, <1>2 DEF IInv, Open, Drawn, ServerHolds, ClientHolds, SealsInv, ServerWaits
<1>6. FailureInv' /\ NoKeyAtRest'
  BY <1>1 DEF IInv, FailureInv, CiphersAgree, MacsAgree, NoKeyAtRest
<1> QED BY <1>3, <1>4, <1>5, <1>6 DEF IInv

\* The client's key is the server's, and it hashes both values.
LEMMA ClientDHStep == IInv /\ ClientDH => IInv'
<1> SUFFICES ASSUME IInv, ClientDH PROVE IInv'
  OBVIOUS
<1>1. /\ cpc = "dh" /\ toC # <<>> /\ toC' = Tail(toC) /\ cpc' = "iv"
      /\ toS' = Append(toS, Message("dh", session))
      /\ cdoc' = <<<<"server dh", Head(toC).body>>, <<"client dh", session>>>>
      /\ cli' = SetKey(cli, Head(toC).body)
      /\ UNCHANGED <<session, trusted, srv, spc, sdoc, closed, drawn, seals, failure>>
  BY DEF ClientDH, ClientTakes
<1>2. /\ spc = "dh" /\ toS = <<>> /\ toC = <<Message("dh", session)>> /\ toC' = <<>>
      /\ toS' = <<Message("dh", session)>>
  BY <1>1, ClientFinds, Queues
<1>3. Head(toC).body = session
  BY <1>2, Queues DEF Message
<1>4. cli = Blank /\ session \in Nat
  <2>1. session \in Nat
    BY SessionAssumption DEF IInv, TypeOK
  <2>2. cli = Blank
    BY <1>1 DEF IInv, ClientHolds
  <2> QED BY <2>1, <2>2
<1>5. cli' = [Blank EXCEPT !.key = session] /\ cli' \in EndpointSet
  <2>1. cli' = [Blank EXCEPT !.key = session]
    BY <1>1, <1>3, <1>4 DEF SetKey
  <2> QED BY <1>4, <2>1, NonceAssumption DEF Blank, EndpointSet, NoKey
<1>6. TypeOK'
  BY <1>1, <1>5 DEF IInv, TypeOK, ClientWaits
<1>7. InFlight'
  BY <1>1, <1>2 DEF InFlight, Turns
<1>8. Open' /\ Drawn'
  BY <1>1, <1>2 DEF IInv, Open, Drawn, InFlight, ServerWaits
<1>9. ServerHolds' /\ ClientHolds' /\ SealsInv'
  BY <1>1, <1>2, <1>3, <1>5 DEF IInv, ServerHolds, ClientHolds, SealsInv
<1>10. FailureInv' /\ NoKeyAtRest'
  BY <1>1 DEF IInv, FailureInv, CiphersAgree, MacsAgree, NoKeyAtRest
<1> QED BY <1>6, <1>7, <1>8, <1>9, <1>10 DEF IInv

\* The client takes the IV the server has drawn.
LEMMA ClientIVStep == IInv /\ ClientIV => IInv'
<1> SUFFICES ASSUME IInv, ClientIV PROVE IInv'
  OBVIOUS
<1>1. /\ cpc = "iv" /\ toC # <<>> /\ toC' = Tail(toC) /\ cpc' = "nonce"
      /\ cli' = SetIV(cli, Head(toC).body)
      /\ cdoc' = Append(cdoc, <<"iv", Head(toC).body>>)
      /\ UNCHANGED <<session, trusted, srv, spc, sdoc, toS, closed, drawn, seals, failure>>
  BY DEF ClientIV, ClientTakes
<1>2. /\ spc = "nonce" /\ toS = <<>>
      /\ toC = <<Message("iv", session), NonceFrom(session, 0, drawn.server)>>
  BY <1>1, ClientFinds
<1>3. /\ toC' = <<NonceFrom(session, 0, drawn.server)>> /\ Head(toC).body = session
  BY <1>1, <1>2, Queues DEF Message
<1>4. PICK k : k = session
  OBVIOUS
<1>5. /\ cli = [Blank EXCEPT !.key = k] /\ k \in Nat
      /\ cdoc = <<<<"server dh", k>>, <<"client dh", k>>>>
  <2>1. k \in Nat
    BY <1>4, SessionAssumption DEF IInv, TypeOK
  <2>2. /\ cli = [Blank EXCEPT !.key = k]
        /\ cdoc = <<<<"server dh", k>>, <<"client dh", k>>>>
    BY <1>1, <1>4 DEF IInv, ClientHolds
  <2> QED BY <2>1, <2>2
<1>6. cli' = [Blank EXCEPT !.key = k, !.iv = Cipher(k, 0).iv] /\ cli' \in EndpointSet
  <2>1. cli' = [[Blank EXCEPT !.key = k] EXCEPT !.iv = [base |-> k, count |-> 0]]
    BY <1>1, <1>3, <1>4, <1>5 DEF SetIV
  <2>2. Cipher(k, 0).iv = [base |-> k, count |-> 0]
    BY DEF Cipher
  <2>3. cli' = [Blank EXCEPT !.key = k, !.iv = [base |-> k, count |-> 0]]
    BY <2>1 DEF Blank
  <2>4. cli' \in EndpointSet
    <3>1. cli' = [key |-> k, iv |-> [base |-> k, count |-> 0], local |-> 0, remote |-> 0]
      BY <2>3 DEF Blank
    <3>2. 0 \in 0..(NonceMod - 1)
      BY NonceAssumption
    <3>3. [base |-> k, count |-> 0] \in [base : Nat, count : Nat]
      BY <1>5
    <3> QED BY <1>5, <3>1, <3>2, <3>3 DEF EndpointSet
  <2> QED BY <2>2, <2>3, <2>4
<1>7. cdoc' = <<<<"server dh", k>>, <<"client dh", k>>, <<"iv", k>>>>
  <2>1. PICK a, b, c : a = <<"server dh", k>> /\ b = <<"client dh", k>> /\ c = <<"iv", k>>
    OBVIOUS
  <2>2. cdoc' = Append(<<a, b>>, c)
    BY <1>1, <1>3, <1>4, <1>5, <2>1
  <2>3. cdoc' = <<a, b, c>>
    BY <2>2, Transcripts
  <2> QED BY <2>1, <2>3
<1>8. TypeOK'
  BY <1>1, <1>6 DEF IInv, TypeOK, ClientWaits
<1>9. InFlight'
  BY <1>1, <1>2, <1>3 DEF InFlight, Turns
<1>10. Open' /\ Drawn'
  BY <1>1, <1>2 DEF IInv, Open, Drawn, InFlight, ServerWaits
<1>11. ServerHolds' /\ ClientHolds' /\ SealsInv'
  BY <1>1, <1>2, <1>4, <1>6, <1>7 DEF IInv, ServerHolds, ClientHolds, SealsInv
<1>12. FailureInv' /\ NoKeyAtRest'
  BY <1>1 DEF IInv, FailureInv, CiphersAgree, MacsAgree, NoKeyAtRest
<1> QED BY <1>8, <1>9, <1>10, <1>11, <1>12 DEF IInv

\* The decryption of the server's nonce cannot fail, and the client, whose
\* nonces were 0, has those that were drawn.
LEMMA ClientNonceStep == IInv /\ ClientNonce => IInv'
<1> SUFFICES ASSUME IInv, ClientNonce PROVE IInv'
  OBVIOUS
<1>1. /\ cpc = "nonce" /\ toC # <<>> /\ toC' = Tail(toC)
      /\ UNCHANGED <<session, trusted, srv, spc, sdoc>>
  BY DEF ClientNonce, ClientTakes
<1>2. /\ spc = "nonce" /\ toS = <<>> /\ toC = <<NonceFrom(session, 0, drawn.server)>>
  BY <1>1, ClientFinds
<1>3. PICK k, n : k = session /\ n = drawn.server
  OBVIOUS
<1>4. /\ toC' = <<>> /\ Head(toC).body = [seal |-> Cipher(k, 0), nonce |-> n]
  BY <1>1, <1>2, <1>3, Queues DEF Message, NonceFrom
<1>5. PICK c : c = cli
  OBVIOUS
<1>6. /\ c = [Blank EXCEPT !.key = k, !.iv = Cipher(k, 0).iv]
      /\ k \in Nat /\ n \in Nonces /\ c \in EndpointSet
  <2>1. k \in Nat /\ c \in EndpointSet
    BY <1>3, <1>5, SessionAssumption DEF IInv, TypeOK
  <2>2. n \in Nonces
    BY <1>1, <1>2, <1>3 DEF IInv, Drawn
  <2>3. c = [Blank EXCEPT !.key = k, !.iv = Cipher(k, 0).iv]
    BY <1>1, <1>3, <1>5 DEF IInv, ClientHolds
  <2> QED BY <2>1, <2>2, <2>3
<1>7. /\ c.key = k /\ c.iv = Cipher(k, 0).iv /\ c.local = 0 /\ c.remote = 0
      /\ Seal(c) = Cipher(k, 0)
  BY <1>6 DEF Blank, Cipher, Seal
<1>8. cdoc = <<<<"server dh", k>>, <<"client dh", k>>, <<"iv", k>>>>
  BY <1>1, <1>3 DEF IInv, ClientHolds
<1>9. PICK e, d : e = NewCipher(c) /\ d = NewCipher(e)
  OBVIOUS
<1>10. /\ e \in EndpointSet /\ e.key = k /\ e.iv = Cipher(k, 1).iv
       /\ e.local = 0 /\ e.remote = 0 /\ Seal(e) = Cipher(k, 1)
  <2>1. /\ e \in EndpointSet /\ e.key = k /\ e.iv = Cipher(k, 1).iv
        /\ e.local = 0 /\ e.remote = 0
    BY <1>6, <1>7, <1>9, NextCipher
  <2> QED BY <2>1 DEF Seal, Cipher
<1>11. /\ d \in EndpointSet /\ d.key = k /\ d.iv = Cipher(k, 2).iv
       /\ d.local = 0 /\ d.remote = 0
  BY <1>6, <1>9, <1>10, NextCipher
<1>12. PICK m \in Nonces :
         LET g == SetNonces(d, m, n)
             doc == cdoc \o <<<<"nonce", n>>, <<"nonce", m>>>>
         IN  /\ toS' = toS \o <<Message("nonce", Sealed(e, m)), Message("sign", Signed(g, doc))>>
             /\ cli' = AfterSent(g, 2) /\ cdoc' = doc
             /\ drawn' = [drawn EXCEPT !.client = m]
             /\ seals' = Append(seals, Seal(e))
             /\ cpc' = "sign" /\ UNCHANGED <<closed, failure>>
  <2>1. PICK h : h = Head(toC).body
    OBVIOUS
  <2>2. h.seal = Seal(cli) /\ h.nonce = n
    BY <1>4, <1>5, <1>7, <2>1
  <2>3. /\ \E m \in 0..(NonceMod - 1) :
             LET f   == SetNonces(NewCipher(NewCipher(cli)), m, h.nonce)
                 doc == cdoc \o <<<<"nonce", h.nonce>>, <<"nonce", m>>>>
             IN  /\ toS' = toS \o <<Message("nonce", Sealed(NewCipher(cli), m)),
                                    Message("sign", Signed(f, doc))>>
                 /\ cli' = AfterSent(f, 2)
                 /\ cdoc' = doc
                 /\ drawn' = [drawn EXCEPT !.client = m]
        /\ seals' = Append(seals, Seal(NewCipher(cli)))
        /\ cpc' = "sign" /\ UNCHANGED <<closed, failure>>
    BY <2>1, <2>2 DEF ClientNonce
  <2> QED BY <1>5, <1>9, <2>2, <2>3 DEF Nonces
<1>13. PICK g, f, doc : /\ g = SetNonces(d, m, n) /\ f = AfterSent(g, 2)
                        /\ doc = cdoc \o <<<<"nonce", n>>, <<"nonce", m>>>>
  OBVIOUS
<1>14. /\ toS' = <<Message("nonce", Sealed(e, m)), Message("sign", Signed(g, doc))>>
       /\ cli' = f /\ cdoc' = doc /\ drawn' = [drawn EXCEPT !.client = m]
       /\ seals' = Append(seals, Seal(e)) /\ cpc' = "sign" /\ UNCHANGED <<closed, failure>>
  BY <1>2, <1>12, <1>13, Queues
<1>15. g \in EndpointSet /\ g.key = k /\ g.iv = Cipher(k, 2).iv /\ g.local = m /\ g.remote = n
  <2>1. g \in EndpointSet
    BY <1>6, <1>11, <1>13, Typed
  <2> QED BY <1>11, <1>13, <2>1 DEF SetNonces, EndpointSet
<1>16. /\ f \in EndpointSet /\ f.key = k /\ f.iv = Cipher(k, 2).iv /\ f.remote = n
       /\ f.local = (m + 2) % NonceMod
  <2>1. f \in EndpointSet
    BY <1>13, <1>15, Counted
  <2> QED BY <1>13, <1>15, <2>1 DEF AfterSent, EndpointSet
<1>17. doc = Transcript(k, n, m)
  <2>1. PICK t, u, v, w, x : /\ t = <<"server dh", k>> /\ u = <<"client dh", k>>
                             /\ v = <<"iv", k>> /\ w = <<"nonce", n>> /\ x = <<"nonce", m>>
    OBVIOUS
  <2>2. doc = <<t, u, v>> \o <<w, x>>
    BY <1>8, <1>13, <2>1
  <2>3. doc = <<t, u, v, w, x>>
    BY <2>2, Transcripts
  <2> QED BY <2>1, <2>3 DEF Transcript
<1>18. toS' = <<NonceFrom(k, 1, m), SignFrom(k, n, m, m)>>
  <2>1. Message("nonce", Sealed(e, m)) = NonceFrom(k, 1, m)
    BY <1>10 DEF Sealed, NonceFrom
  <2>2. Message("sign", Signed(g, doc)) = SignFrom(k, n, m, m)
    BY <1>15, <1>17 DEF Signed, Mac, SignFrom
  <2> QED BY <1>14, <2>1, <2>2
<1>19. /\ drawn'.client = m /\ drawn'.server = n
       /\ drawn' \in [{"server", "client"} -> 0..NonceMod]
  BY <1>3, <1>14, Redrawn DEF IInv, TypeOK
<1>20. TypeOK'
  BY <1>1, <1>14, <1>16, <1>19 DEF IInv, TypeOK, ClientWaits
<1>21. InFlight'
  <2>1. toS' = <<ClientsNonce', ClientsSign'>>
    BY <1>1, <1>3, <1>18, <1>19 DEF ClientsNonce, ClientsSign
  <2> QED BY <1>1, <1>2, <1>4, <1>14, <2>1 DEF InFlight, Turns
<1>22. Open' /\ Drawn'
  <2>1. ~closed
    BY <1>1, <1>2 DEF IInv, Open, ServerWaits
  <2> QED BY <1>1, <1>6, <1>14, <1>19, <2>1 DEF Open, Drawn
<1>23. ServerHolds'
  BY <1>1, <1>2, <1>3, <1>19 DEF IInv, ServerHolds
<1>24. ClientHolds'
  BY <1>1, <1>3, <1>14, <1>16, <1>17, <1>19 DEF ClientHolds
<1>25. SealsInv'
  <2>1. seals = <<Cipher(k, 0)>>
    BY <1>1, <1>2, <1>3 DEF IInv, SealsInv
  <2>2. PICK a, b : a = Cipher(k, 0) /\ b = Cipher(k, 1)
    OBVIOUS
  <2>3. seals' = <<a, b>>
    BY <1>10, <1>14, <2>1, <2>2, Transcripts
  <2> QED BY <1>1, <1>2, <1>3, <1>14, <2>2, <2>3 DEF SealsInv
<1>26. FailureInv' /\ NoKeyAtRest'
  BY <1>1, <1>2, <1>14 DEF IInv, FailureInv, CiphersAgree, MacsAgree, NoKeyAtRest, ServerWaits
<1> QED BY <1>20, <1>21, <1>22, <1>23, <1>24, <1>25, <1>26 DEF IInv

\* A failing MAC ends the client; otherwise the server has signed what the
\* client has hashed, and both count on from the same nonces.
LEMMA ClientSignStep == IInv /\ ClientSign => IInv'
<1> SUFFICES ASSUME IInv, ClientSign PROVE IInv'
  OBVIOUS
<1>1. /\ cpc = "sign" /\ toC # <<>> /\ toC' = Tail(toC)
      /\ UNCHANGED <<session, trusted, srv, spc, sdoc, toS, drawn, cdoc, seals>>
  BY DEF ClientSign, ClientTakes
<1>2. spc = "serving" /\ toS = <<>> /\ Answered
  BY <1>1, ClientFinds
<1>3. PICK k, n, m, c : k = session /\ n = drawn.server /\ m = drawn.client /\ c = cli
  OBVIOUS
<1>4. PICK l \in Nonces : /\ toC = <<SignFrom(k, n, m, l)>> /\ (n # 0 => l = n)
                          /\ srv.local = (l + 2) % NonceMod
  BY <1>2, <1>3 DEF Answered
<1>5. /\ k \in Nat /\ n \in Nonces /\ c \in EndpointSet /\ c.key = k /\ c.remote = n
      /\ c.iv = Cipher(k, 2).iv /\ c.local = (m + 2) % NonceMod
      /\ cdoc = Transcript(k, n, m)
  <2>1. k \in Nat /\ c \in EndpointSet
    BY <1>3, SessionAssumption DEF IInv, TypeOK
  <2>2. n \in Nonces
    BY <1>1, <1>2, <1>3 DEF IInv, Drawn
  <2>3. /\ cli.key = k /\ cli.remote = n /\ cli.iv = Cipher(k, 2).iv
        /\ cli.local = (m + 2) % NonceMod /\ cdoc = Transcript(k, n, m)
    BY <1>1, <1>3 DEF IInv, ClientHolds
  <2> QED BY <1>3, <2>1, <2>2, <2>3
<1>6. PICK mac : mac = [key |-> k, nonce |-> l]
  OBVIOUS
<1>7. toC' = <<>> /\ Head(toC).body.mac = mac /\ Head(toC).body.doc = cdoc
  <2>1. Head(toC) = SignFrom(k, n, m, l) /\ toC' = <<>>
    BY <1>1, <1>4, Queues
  <2> QED BY <1>5, <1>6, <2>1 DEF SignFrom, Message
<1>8. \/ /\ MacMatches(c, mac) /\ cli' = AfterReceived(c, 2)
         /\ cpc' = "established" /\ UNCHANGED <<closed, failure>>
      \/ /\ ~MacMatches(c, mac)
         /\ cpc' = "gone" /\ closed' = TRUE /\ failure' = "mac" /\ cli' = cli
  BY <1>3, <1>7 DEF ClientSign
<1>9. CASE /\ ~MacMatches(c, mac)
           /\ cpc' = "gone" /\ closed' = TRUE /\ failure' = "mac" /\ cli' = cli
  <2>1. n = 0
    BY <1>4, <1>5, <1>6, <1>9 DEF MacMatches
  <2>2. TypeOK'
    BY <1>1, <1>9 DEF IInv, TypeOK
  <2>3. InFlight' /\ Open' /\ Drawn'
    BY <1>1, <1>2, <1>9 DEF IInv, InFlight, Remains, Open, Drawn
  <2>4. ServerHolds' /\ ClientHolds' /\ SealsInv'
    BY <1>1, <1>2, <1>9 DEF IInv, ServerHolds, ClientHolds, SealsInv
  <2>5. FailureInv' /\ NoKeyAtRest'
    BY <1>1, <1>2, <1>3, <1>9, <2>1 DEF IInv, FailureInv, CiphersAgree, MacsAgree, NoKeyAtRest, ServerWaits
  <2> QED BY <2>2, <2>3, <2>4, <2>5 DEF IInv
<1>10. CASE /\ MacMatches(c, mac) /\ cli' = AfterReceived(c, 2)
            /\ cpc' = "established" /\ UNCHANGED <<closed, failure>>
  <2>1. c.remote = l
    BY <1>6, <1>10 DEF MacMatches
  <2>2. /\ cli' \in EndpointSet /\ cli'.key = k /\ cli'.iv = Cipher(k, 2).iv
        /\ cli'.local = (m + 2) % NonceMod /\ cli'.remote = (l + 2) % NonceMod
    <3>1. AfterReceived(c, 2) \in EndpointSet
      BY <1>5, Counted
    <3> QED BY <1>5, <1>10, <2>1, <3>1 DEF AfterReceived, EndpointSet
  <2>3. TypeOK'
    BY <1>1, <1>10, <2>2 DEF IInv, TypeOK
  <2>4. InFlight'
    BY <1>1, <1>2, <1>7, <1>10 DEF InFlight, Turns
  <2>5. Open' /\ Drawn'
    BY <1>1, <1>10 DEF IInv, Open, Drawn
  <2>6. ServerHolds'
    BY <1>1 DEF IInv, ServerHolds
  <2>7. ClientHolds'
    BY <1>1, <1>3, <1>4, <1>5, <1>10, <2>2 DEF ClientHolds
  <2>8. SealsInv'
    BY <1>1, <1>2, <1>10 DEF IInv, SealsInv
  <2>9. FailureInv' /\ NoKeyAtRest'
    BY <1>1, <1>10 DEF IInv, FailureInv, CiphersAgree, MacsAgree, NoKeyAtRest, ServerWaits
  <2> QED BY <2>3, <2>4, <2>5, <2>6, <2>7, <2>8, <2>9 DEF IInv
<1> QED BY <1>8, <1>9, <1>10

\* Where the client ends, what it has sent may be lost from some point on.
LEMMA ClientEnds ==
  ASSUME IInv, cpc # "gone", cpc' = "gone", closed' = TRUE,
         \E k \in 0..Len(toS) : toS' = SubSeq(toS, 1, k),
         failure' = failure \/ (failure' = "cut" /\ failure = "none"),
         UNCHANGED <<session, trusted, srv, cli, spc, drawn, sdoc, cdoc, seals>>
  PROVE  IInv'
<1>1. toS' # <<>> => toS # <<>>
  BY Prefixes
<1>2. InFlight'
  <2>1. CASE toS = <<>>
    BY <1>1, <2>1 DEF InFlight, Remains
  <2>2. CASE toS # <<>>
    <3>1. ASSUME NEW a, toS = <<a>> PROVE toS' \in {<<>>, <<a>>}
      BY <3>1, Prefixes
    <3>2. ASSUME NEW a, NEW b, toS = <<a, b>> PROVE toS' \in {<<>>, <<a>>, <<a, b>>}
      BY <3>2, Prefixes
    <3>3. \/ spc = "cert" /\ toS = <<Message("cert", trusted)>>
          \/ spc = "dh" /\ toS = <<Message("dh", session)>>
          \/ spc = "nonce" /\ toS = <<ClientsNonce, ClientsSign>>
          \/ spc = "sign" /\ toS = <<ClientsSign>>
      BY <2>2 DEF IInv, InFlight, Turns
    <3>4. Remains'
      BY <3>1, <3>2, <3>3 DEF Remains, ClientsNonce, ClientsSign
    <3> QED BY <3>4 DEF InFlight
  <2> QED BY <2>1, <2>2
<1>3. TypeOK' /\ Open' /\ Drawn'
  BY <1>1 DEF IInv, TypeOK, Open, Drawn
<1>4. ServerHolds' /\ ClientHolds' /\ SealsInv'
  BY DEF IInv, ServerHolds, ClientHolds, SealsInv
<1>5. FailureInv' /\ NoKeyAtRest'
  BY DEF IInv, FailureInv, CiphersAgree, MacsAgree, NoKeyAtRest
<1> QED BY <1>2, <1>3, <1>4, <1>5 DEF IInv

\* A client that is lost leaves what it had sent.
LEMMA ClientLosesStep == IInv /\ ClientLoses => IInv'
<1> SUFFICES ASSUME IInv, ClientLoses PROVE IInv'
  OBVIOUS
<1>1. /\ cpc \in ClientWaits \cup {"established"} /\ closed /\ cpc' = "gone"
      /\ UNCHANGED <<session, trusted, srv, cli, spc, toS, toC, closed, drawn,
                     sdoc, cdoc, seals, failure>>
  BY DEF ClientLoses
<1>2. cpc # "gone"
  BY <1>1 DEF ClientWaits
<1>3. toS = <<>>
  BY <1>1, <1>2 DEF IInv, InFlight, Turns, Open, ServerWaits
<1>4. TypeOK' /\ InFlight' /\ Open' /\ Drawn'
  BY <1>1, <1>3 DEF IInv, TypeOK, InFlight, Remains, Open, Drawn
<1>5. ServerHolds' /\ ClientHolds' /\ SealsInv'
  BY <1>1 DEF IInv, ServerHolds, ClientHolds, SealsInv
<1>6. FailureInv' /\ NoKeyAtRest'
  BY <1>1 DEF IInv, FailureInv, CiphersAgree, MacsAgree, NoKeyAtRest
<1> QED BY <1>4, <1>5, <1>6 DEF IInv

\* The client may end anywhere.
LEMMA CutStep == IInv /\ Cut => IInv'
<1> SUFFICES ASSUME IInv, Cut PROVE IInv'
  OBVIOUS
<1>1. /\ cpc # "gone" /\ cpc' = "gone" /\ closed' = TRUE
      /\ \E k \in 0..Len(toS) : toS' = SubSeq(toS, 1, k)
      /\ failure' = failure \/ (failure' = "cut" /\ failure = "none")
      /\ UNCHANGED <<session, trusted, srv, cli, spc, drawn, sdoc, cdoc, seals>>
  BY DEF Cut
<1> QED BY <1>1, ClientEnds

\* The invariant is about the state alone.
LEMMA Unchanged == IInv /\ UNCHANGED vars => IInv'
<1> SUFFICES ASSUME IInv, UNCHANGED vars PROVE IInv'
  OBVIOUS
<1>1. TypeOK' /\ Open' /\ Drawn'
  <2>1. TypeOK'
    BY DEF vars, IInv, TypeOK
  <2>2. Open' /\ Drawn'
    BY DEF vars, IInv, Open, Drawn
  <2> QED BY <2>1, <2>2
<1>2. ServerHolds' /\ ClientHolds' /\ SealsInv' /\ FailureInv' /\ NoKeyAtRest'
  <2>1. ServerHolds'
    BY DEF vars, IInv, ServerHolds
  <2>2. ClientHolds'
    BY DEF vars, IInv, ClientHolds
  <2>3. SealsInv'
    BY DEF vars, IInv, SealsInv
  <2>4. FailureInv' /\ NoKeyAtRest'
    BY DEF vars, IInv, FailureInv, CiphersAgree, MacsAgree, NoKeyAtRest
  <2> QED BY <2>1, <2>2, <2>3, <2>4
<1>3. ClientsNonce' = ClientsNonce /\ ClientsSign' = ClientsSign /\ Answered' = Answered
  BY DEF vars, ClientsNonce, ClientsSign, Answered
<1>4. Turns' = Turns /\ Remains' = Remains
  BY <1>3 DEF vars, Turns, Remains
<1>5. InFlight'
  BY <1>4 DEF vars, IInv, InFlight
<1> QED BY <1>1, <1>2, <1>5 DEF IInv

-----------------------------------------------------------------------------
(* The theorems                                                            *)

\* The inductive invariant of the handshake: turns are taken, and what each
\* host of server.cpp and client.cpp holds follows from its place.
THEOREM Invariance == Spec => []IInv
<1>1. IInv /\ [Next]_vars => IInv'
  BY ConnectStep, ServerCertStep, ServerDHStep, ServerNonceStep, ServerSignStep,
     ServerLosesStep, DisconnectStep, RestartStep, ClientCertStep, ClientDHStep,
     ClientIVStep, ClientNonceStep, ClientSignStep, ClientLosesStep, CutStep, Unchanged
  DEF Next, Server, Client, Finished
<1> QED BY Initially, <1>1, PTL DEF Spec

\* The state of both processes keeps its type: a nonce never leaves its width.
THEOREM TypeCorrect == Spec => []TypeOK
<1>1. IInv => TypeOK
  BY DEF IInv
<1> QED BY <1>1, Invariance, PTL

\* When both calls of initial_protocol have returned true, the hosts have the
\* same keys, IV and nonces, crosswise, whatever an earlier session left.
THEOREM HostsAgree == Spec => []SharedState
<1>1. IInv => SharedState
  <2> SUFFICES ASSUME IInv, spc = "serving", cpc = "established"
               PROVE  /\ trusted
                      /\ srv.key = cli.key /\ srv.key = session /\ srv.iv = cli.iv
                      /\ srv.local = cli.remote /\ srv.remote = cli.local
    BY DEF SharedState
  <2>1. /\ trusted /\ srv.key = session /\ srv.iv = Cipher(session, 2).iv
        /\ srv.remote = (drawn.client + 2) % NonceMod
    BY DEF IInv, ServerHolds
  <2>2. /\ cli.key = session /\ cli.iv = Cipher(session, 2).iv
        /\ cli.local = (drawn.client + 2) % NonceMod /\ srv.local = cli.remote
    BY DEF IInv, ClientHolds
  <2> QED BY <2>1, <2>2
<1> QED BY <1>1, Invariance, PTL

\* No decryption and no signature of the handshake fails between the two.
THEOREM NoneRefused == Spec => []CiphersAgree
<1>1. IInv => CiphersAgree
  BY DEF IInv, FailureInv
<1> QED BY <1>1, Invariance, PTL

\* A MAC of the handshake fails only if a nonce was drawn as 0: the run
\* zero_nonce shows that it then may.
THEOREM MacsVerify == Spec => []MacsAgree
<1>1. IInv => MacsAgree
  BY DEF IInv, FailureInv
<1> QED BY <1>1, Invariance, PTL

\* The two encryptions of a handshake use two IVs.
THEOREM IVsFresh == Spec => []FreshIVs
<1>1. IInv => FreshIVs
  <2> SUFFICES ASSUME IInv PROVE FreshIVs
    OBVIOUS
  <2>1. PICK k, a, b : k = session /\ a = Cipher(k, 0) /\ b = Cipher(k, 1)
    OBVIOUS
  <2>2. a # b
    <3>1. a.iv.count = 0 /\ b.iv.count = 1
      BY <2>1 DEF Cipher
    <3> QED BY <3>1
  <2>3. seals = <<>> \/ seals = <<a>> \/ seals = <<a, b>>
    BY <2>1 DEF IInv, SealsInv
  <2>4. CASE seals = <<>>
    BY <2>4 DEF FreshIVs
  <2>5. CASE seals = <<a>>
    BY <2>5 DEF FreshIVs
  <2>6. CASE seals = <<a, b>>
    <3>1. Len(seals) = 2 /\ seals[1] = a /\ seals[2] = b
      BY <2>6
    <3>2. \A i \in 1..2 : i = 1 \/ i = 2
      OBVIOUS
    <3> QED BY <2>2, <3>1, <3>2 DEF FreshIVs
  <2> QED BY <2>3, <2>4, <2>5, <2>6
<1> QED BY <1>1, Invariance, PTL

\* Between two clients the server has no key, however the last one ended.
THEOREM KeysDestroyed == Spec => []NoKeyAtRest
<1>1. IInv => NoKeyAtRest
  BY DEF IInv
<1> QED BY <1>1, Invariance, PTL
=============================================================================
