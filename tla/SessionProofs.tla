--------------------------- MODULE SessionProofs ---------------------------
(***************************************************************************)
(* Proofs about Session, for any bounds and listings.                      *)
(*                                                                         *)
(* What makes the two programs agree is spread over the frames between     *)
(* them: a client may be two commands ahead, and a receiver a file behind. *)
(* The invariant gives each host a path, the states it will be in when it  *)
(* has taken the frames under way to it, one after the other.  Every frame *)
(* on a path is the one awaited there, with the MAC, the key and the IV of *)
(* that state; and the ends of the two paths are a pair of states in which *)
(* the hosts meet, one waiting for what the other is about to send.  A     *)
(* host that takes a frame goes one state along its path; a host that      *)
(* sends makes the path of the other longer by the states it will lead to. *)
(***************************************************************************)
EXTENDS Session, FoldLemmas

-----------------------------------------------------------------------------
(* Paths, and the invariant                                                *)

\* The commands.
Ops == {"list", "get", "upload"}

\* The key and IV of the n-th cipher of the session.
SealOf(count) == [key |-> 1, iv |-> [base |-> 1, count |-> count]]

\* Where a host waits between two commands, and its log of their results.
Home(h) == IF h = "server" THEN "select" ELSE "prompt"
Log(h)  == IF h = "server" THEN done ELSE answered

\* A state of a path: where h is and what it counts.  v is the one it is in.
At(h, v) ==
  /\ v.pc = pc[h] /\ v.count = ep[h].iv.count /\ v.remote = ep[h].remote
  /\ v.op = op[h] /\ v.size = size[h] /\ v.rest = rest[h] /\ v.cipher = cipher[h]
  /\ v.n = Len(Log(h))

\* The file a host receives or sends is the one before.
SameFile(v, w) == w.size = v.size /\ w.rest = v.rest /\ w.cipher = v.cipher

\* h in the state v takes the frame f and is in the state w after it: one clause
\* for each kind of frame.
TakesCommand(f, v, w) ==
  /\ v.pc = "select" /\ f.kind = "command" /\ f.seal = SealOf(v.count) /\ f.body \in Ops
  /\ w.pc = (IF f.body = "list" THEN "listing" ELSE "name") /\ w.op = f.body
  /\ w.count = v.count + 1 /\ w.n = v.n /\ SameFile(v, w)

TakesName(f, v, w) ==
  /\ v.pc = "name" /\ f.kind = "name" /\ f.seal = SealOf(v.count)
  /\ f.body \in [len : 0..MaxName, slash : BOOLEAN]
  /\ w.pc = IF v.op = "upload" THEN "size"
            ELSE IF TooLong(f.body) \/ f.body.len = 0 THEN "gone" ELSE ToSend(f.body)
  /\ w.op = v.op /\ w.count = v.count + 1 /\ w.n = v.n /\ SameFile(v, w)

TakesListing(f, v, w) ==
  /\ v.pc = "list" /\ f.kind = "list" /\ f.seal = SealOf(v.count)
  /\ w.pc = "prompt" /\ w.op = v.op /\ w.count = v.count + 1 /\ w.n = v.n + 1
  /\ SameFile(v, w)

TakesSize(h, f, v, w) ==
  /\ v.pc = "size" /\ f.kind = "size" /\ f.seal = NoSeal /\ f.body \in 0..MaxChunks
  /\ w.op = v.op
  /\ \/ /\ f.body = 0
        /\ w.pc = Home(h) /\ w.count = v.count /\ w.n = v.n + 1 /\ SameFile(v, w)
     \/ /\ f.body # 0
        /\ w.pc = "chunk" /\ w.count = v.count + 1 /\ w.n = v.n
        /\ w.size = f.body /\ w.rest = f.body /\ w.cipher = SealOf(v.count)

TakesChunk(f, v, w) ==
  /\ v.pc = "chunk" /\ f.kind = "chunk" /\ f.seal = v.cipher
  /\ w.pc = (IF v.rest = 1 THEN "signature" ELSE "chunk") /\ w.rest = v.rest - 1
  /\ w.op = v.op /\ w.count = v.count /\ w.n = v.n
  /\ w.size = v.size /\ w.cipher = v.cipher

TakesSign(h, f, v, w) ==
  /\ v.pc = "signature" /\ f.kind = "sign" /\ f.seal = NoSeal
  /\ w.pc = Home(h) /\ w.op = v.op /\ w.count = v.count /\ w.n = v.n + 1
  /\ SameFile(v, w)

Takes(h, f, v, w) ==
  /\ f.mac = [key |-> 1, nonce |-> v.remote]
  /\ w.remote = (v.remote + Macs(f.kind)) % NonceMod
  /\ \/ TakesCommand(f, v, w) \/ TakesName(f, v, w) \/ TakesListing(f, v, w)
     \/ TakesSize(h, f, v, w) \/ TakesChunk(f, v, w) \/ TakesSign(h, f, v, w)

\* A log has the result x of the command o as its n-th.
Entry(log, n, o, x) == n <= Len(log) /\ log[n] = [op |-> o, result |-> x]

\* A frame that ends a command tells what the sender has put into its log.
Told(f, v, log) ==
  /\ v.pc = "list" =>
       \E names \in Listings :
         /\ ~NoFirst(names) /\ ~Endless(names) /\ f.body = Concatenated(names)
         /\ Entry(log, v.n + 1, "list", [kind |-> "names", names |-> names])
  /\ v.pc = "size" /\ f.body = 0 => Entry(log, v.n + 1, v.op, File(0))
  /\ v.pc = "signature" => Entry(log, v.n + 1, v.op, File(v.size))

\* Where a host receives a file.
Receives == {"size", "chunk", "signature"}

\* The command a host is at, by where it is.
Doing(h, v) ==
  /\ v.pc \in Receives => v.op = IF h = "server" THEN "upload" ELSE "get"
  /\ v.pc \in Sending  => v.op = IF h = "server" THEN "get" ELSE "upload"
  /\ v.pc \in {"list", "listing"} => v.op = "list"
  /\ v.pc = "typing" => v.op = "get"
  /\ v.pc = "name" => v.op \in {"get", "upload"}
  /\ v.pc \in (IF h = "server" THEN {"select", "name", "listing", "gone"}
                               ELSE {"prompt", "typing", "list"}) \cup Receives \cup Sending
  /\ v.pc \in {"send", "chunk"} => v.rest # 0

\* The client asks for a command before the server takes it; both are at the one
\* that follows their logs.
Counted(h, v) ==
  IF h = "client"
  THEN IF v.pc = "prompt" THEN v.n = Len(asked)
       ELSE v.n + 1 = Len(asked) /\ asked[v.n + 1] = v.op
  ELSE v.pc # "select" => v.n + 1 <= Len(asked) /\ asked[v.n + 1] = v.op

\* Where the count of h's ciphers is past that of all encryptions so far.
Fresh(h) == IF h = "server" THEN {"announce", "refuse", "listing"}
            ELSE {"prompt", "typing", "chunk", "signature"} \cup Sending

\* The numbers of a state are in their ranges.
Numbers(v) == /\ v.count \in Nat /\ v.remote \in 0..(NonceMod - 1) /\ v.n \in Nat
              /\ v.size \in 0..MaxChunks /\ v.rest \in 0..v.size

\* The count of v is past that of all encryptions so far.
Past(v) == \A j \in 1..Len(seals) : seals[j].iv.count < v.count

\* What holds of every state of a path.
Sound(h, v) == /\ Numbers(v) /\ Doing(h, v) /\ Counted(h, v)
               /\ v.pc \in {"gone", "refuse"} => reason # "none"
               /\ v.pc \in Fresh(h) => Past(v)

\* V is the path of h: it begins where h is, and each frame under way to h takes
\* it one state further.
Path(h, V) ==
  /\ At(h, V[1])
  /\ \A i \in 1..(Len(inbox[h]) + 1) : Sound(h, V[i])
  /\ \A i \in 1..Len(inbox[h]) : /\ Takes(h, inbox[h][i], V[i], V[i + 1])
                                 /\ Told(inbox[h][i], V[i], Log(Peer(h)))

\* A server and a client that meet: they count alike, each expects the nonce the
\* other has, and one waits for what the other will send.
Together(s, c) ==
  /\ s.count = c.count /\ s.n = c.n
  /\ s.remote = ep["client"].local /\ c.remote = ep["server"].local
  /\ \/ s.pc = "select" /\ c.pc = "prompt"
     \/ s.pc = "listing" /\ c.pc = "list"
     \/ s.pc = "name" /\ s.op = "get" /\ c.pc = "typing"
     \/ s.pc \in {"announce", "refuse", "gone"} /\ c.pc = "size"
     \/ s.pc = "size" /\ c.pc \in {"announce", "refuse"}
     \/ /\ <<s.pc, c.pc>> \in {<<"send", "chunk">>, <<"chunk", "send">>,
                               <<"sign", "signature">>, <<"signature", "sign">>}
        /\ s.size = c.size /\ s.rest = c.rest /\ s.cipher = c.cipher

\* h has not ended, and the last state of its path.
Alive(h) == pc[h] \notin Ended
End(h) == Len(inbox[h]) + 1

\* The two ends of the paths, seen from h.
Met(h, a, b) == IF h = "server" THEN Together(a, b) ELSE Together(b, a)

\* Each living host has a path, and two living hosts meet at the ends of theirs.
PathsInv ==
  \E S, C : /\ Alive("server") => Path("server", S)
            /\ Alive("client") => Path("client", C)
            /\ Alive("server") /\ Alive("client") =>
                 Together(S[End("server")], C[End("client")])

\* A living host has the key and the IV of the handshake and an open socket.
KeyInv == \A h \in Host : /\ Alive(h) => ep[h].key = 1 /\ ep[h].iv.base = 1
                          /\ ~open[h] => ~Alive(h)

\* All that a host may be at, and all keys and IVs.
Pcs == {"select", "name", "prompt", "typing", "list"} \cup Receives \cup Sending \cup Ended

SealSet == [key : Nat, iv : [base : Nat, count : Nat]]

\* A sequence of anything.
IsSeq(s) == \E S : s \in Seq(S)

\* The types that TypeOK leaves out: histories and inboxes are sequences.
SeqsInv ==
  /\ IsSeq(asked) /\ IsSeq(done) /\ IsSeq(answered)
  /\ seals \in Seq(SealSet) /\ cipher \in [Host -> SealSet]
  /\ pc \in [Host -> Pcs] /\ \E S : inbox \in [Host -> Seq(S)]

\* The inductive invariant.
IInv == TypeOK /\ SeqsInv /\ KeyInv /\ PathsInv /\ NeverRefused /\ FreshIVs
          /\ EndsForAReason

-----------------------------------------------------------------------------
(* The operators of Endpoint                                               *)

\* What constructing a cipher changes.
LEMMA NextCipher ==
  ASSUME NEW e \in EndpointSet
  PROVE  /\ NewCipher(e) \in EndpointSet /\ NewCipher(e).key = e.key
         /\ NewCipher(e).iv.base = e.iv.base /\ NewCipher(e).iv.count = e.iv.count + 1
         /\ NewCipher(e).local = e.local /\ NewCipher(e).remote = e.remote
BY DEF NewCipher, EndpointSet

\* What n MACs to send change, and n to compare.
LEMMA Sends ==
  ASSUME NEW e \in EndpointSet, NEW n \in Nat
  PROVE  /\ AfterSent(e, n) \in EndpointSet /\ AfterSent(e, n).key = e.key
         /\ AfterSent(e, n).iv = e.iv /\ AfterSent(e, n).remote = e.remote
         /\ AfterSent(e, n).local = (e.local + n) % NonceMod
BY NonceAssumption DEF AfterSent, EndpointSet

\* Receiving leaves the key, the IV and the local counter of a host alone.
LEMMA Receptions ==
  ASSUME NEW e \in EndpointSet, NEW n \in Nat
  PROVE  /\ AfterReceived(e, n) \in EndpointSet /\ AfterReceived(e, n).key = e.key
         /\ AfterReceived(e, n).iv = e.iv /\ AfterReceived(e, n).local = e.local
         /\ AfterReceived(e, n).remote = (e.remote + n) % NonceMod
BY NonceAssumption DEF AfterReceived, EndpointSet

\* What destroyKeys leaves is a session state.
LEMMA Destroyed ==
  ASSUME NEW e \in EndpointSet
  PROVE  DestroyKeys(e) \in EndpointSet
BY DEF DestroyKeys, EndpointSet, NoKey

\* The key and IV of a cipher.
LEMMA SealFacts ==
  ASSUME NEW e \in EndpointSet
  PROVE  /\ Seal(e) \in SealSet /\ Seal(e).iv.count = e.iv.count
         /\ e.key = 1 /\ e.iv.base = 1 => Seal(e) = SealOf(e.iv.count)
BY DEF Seal, EndpointSet, SealSet, SealOf

-----------------------------------------------------------------------------
(* Sequences                                                               *)

\* Append to a sequence of anything.
LEMMA AppendSeq ==
  ASSUME NEW s, IsSeq(s), NEW x
  PROVE  /\ IsSeq(Append(s, x)) /\ Len(s) \in Nat /\ Len(Append(s, x)) = Len(s) + 1
         /\ \A i \in 1..Len(s) : Append(s, x)[i] = s[i]
         /\ Append(s, x)[Len(s) + 1] = x
<1>1. PICK S : s \in Seq(S)
  BY DEF IsSeq
<1> DEFINE T == S \cup {x}
<1>2. s \in Seq(T)
  BY <1>1, SeqMonotonic
<1>3. Append(s, x) \in Seq(T)
  BY <1>2
<1> HIDE DEF T
<1> QED BY <1>1, <1>3 DEF IsSeq

\* What a move of h leaves in the inboxes.
LEMMA MovedFacts ==
  ASSUME SeqsInv, NEW h \in Host, NEW g, g = Peer(h),
         NEW k \in {0, 1}, k <= Len(inbox[h]), NEW frames, IsSeq(frames),
         NEW m, m = Moved(h, k, frames)
  PROVE  /\ \E S : m \in [Host -> Seq(S)]
         /\ k = 0 => m[h] = inbox[h]
         /\ k = 1 => /\ Len(m[h]) = Len(inbox[h]) - 1
                     /\ \A i \in 1..Len(m[h]) : m[h][i] = inbox[h][i + 1]
         /\ frames = <<>> \/ ~open[g] => m[g] = inbox[g]
         /\ open[g] => /\ Len(m[g]) = Len(inbox[g]) + Len(frames)
                       /\ \A i \in 1..Len(inbox[g]) : m[g][i] = inbox[g][i]
                       /\ \A i \in 1..Len(frames) : m[g][Len(inbox[g]) + i] = frames[i]
<1>1. PICK S : inbox \in [Host -> Seq(S)]
  BY DEF SeqsInv
<1>2. PICK R : frames \in Seq(R)
  BY DEF IsSeq
<1> DEFINE T == S \cup R
<1>3. frames \in Seq(T) /\ \A x \in Host : inbox[x] \in Seq(T)
  BY <1>1, <1>2, SeqMonotonic
<1>4. g \in Host /\ g # h
  BY DEF Peer, Host
<1> DEFINE own == SubSeq(inbox[h], k + 1, Len(inbox[h]))
           its == IF open[g] THEN inbox[g] \o frames ELSE inbox[g]
<1>5. m = [inbox EXCEPT ![h] = own, ![g] = its]
  BY DEF Moved
<1> HIDE DEF T
<1>6. /\ own \in Seq(T)
      /\ k = 0 => own = inbox[h]
      /\ k = 1 => /\ Len(own) = Len(inbox[h]) - 1
                  /\ \A i \in 1..Len(own) : own[i] = inbox[h][i + 1]
  <2>1. CASE k = 0
    BY <1>3, <2>1, SubSeqFull
  <2>2. CASE k = 1
    BY <1>3, <2>2
  <2> QED BY <2>1, <2>2
<1>7. /\ its \in Seq(T)
      /\ frames = <<>> \/ ~open[g] => its = inbox[g]
      /\ open[g] => /\ Len(its) = Len(inbox[g]) + Len(frames)
                    /\ \A i \in 1..Len(inbox[g]) : its[i] = inbox[g][i]
                    /\ \A i \in 1..Len(frames) : its[Len(inbox[g]) + i] = frames[i]
  <2>1. CASE ~open[g]
    BY <1>3, <1>4, <2>1
  <2>2. CASE open[g] /\ frames = <<>>
    BY <1>3, <1>4, <2>2
  <2>3. CASE open[g] /\ frames # <<>>
    <3>1. /\ its \in Seq(T) /\ Len(its) = Len(inbox[g]) + Len(frames)
          /\ Len(inbox[g]) \in Nat /\ Len(frames) \in Nat
          /\ \A i \in 1..Len(its) : its[i] = IF i <= Len(inbox[g]) THEN inbox[g][i]
                                           ELSE frames[i - Len(inbox[g])]
      BY <1>3, <1>4, <2>3, ConcatProperties
    <3>2. \A i \in 1..Len(inbox[g]) : its[i] = inbox[g][i]
      BY <3>1
    <3>3. \A i \in 1..Len(frames) : /\ Len(inbox[g]) + i \in 1..Len(its)
                                    /\ ~(Len(inbox[g]) + i <= Len(inbox[g]))
                                    /\ (Len(inbox[g]) + i) - Len(inbox[g]) = i
      BY <3>1
    <3>4. \A i \in 1..Len(frames) : its[Len(inbox[g]) + i] = frames[i]
      BY <3>1, <3>3
    <3> QED BY <2>3, <3>1, <3>2, <3>4
  <2> QED BY <2>1, <2>2, <2>3
<1> HIDE DEF own, its
<1>8. m[h] = own /\ m[g] = its /\ m \in [Host -> Seq(T)]
  BY <1>1, <1>3, <1>4, <1>5, <1>6, <1>7 DEF Host
<1> QED BY <1>6, <1>7, <1>8

-----------------------------------------------------------------------------
(* Steps along a path                                                      *)

\* A log that has grown.
Grown(s, t) == /\ Len(s) \in Nat /\ Len(t) \in Nat /\ Len(s) <= Len(t)
               /\ \A i \in 1..Len(s) : t[i] = s[i]

\* What every step does to the histories: none is shortened or changed.
History == /\ Grown(asked, asked') /\ Grown(done, done') /\ Grown(answered, answered')
           /\ reason # "none" => reason' # "none"

\* A host's own state, as its path begins with it.
Own(h) == <<pc[h], ep[h].iv, ep[h].remote, op[h], size[h], rest[h], cipher[h], Log(h)>>

\* A sound state stays sound unless the client asks for a command or, where its
\* count is fresh, somebody encrypts.
LEMMA SoundStays ==
  ASSUME NEW h \in Host, NEW v, Sound(h, v), History,
         h = "client" => asked' = asked,
         v.pc \in Fresh(h) => seals' = seals
  PROVE  Sound(h, v)'
<1>1. Counted(h, v)'
  <2>1. CASE h = "client"
    BY <2>1 DEF Sound, Counted
  <2>2. CASE h # "client"
    BY <2>2 DEF Sound, Numbers, Counted, History, Grown
  <2> QED BY <2>1, <2>2
<1>2. Doing(h, v)'
  BY DEF Sound, Doing
<1>3. (v.pc \in Fresh(h) => Past(v))'
  BY DEF Sound, Fresh, Past
<1>4. Numbers(v)'
  BY DEF Sound, Numbers
<1> QED BY <1>1, <1>2, <1>3, <1>4 DEF Sound, History

\* What a frame tells stays true of a log that grows.
LEMMA ToldStays ==
  ASSUME NEW f, NEW v, NEW s, NEW t, Grown(s, t), v.n \in Nat, Told(f, v, s)
  PROVE  Told(f, v, t)
<1>1. \A n, o, x : n \in Nat \ {0} /\ Entry(s, n, o, x) => Entry(t, n, o, x)
  BY DEF Entry, Grown
<1>2. v.n + 1 \in Nat \ {0}
  OBVIOUS
<1>3. v.pc = "list" =>
        \E names \in Listings :
          /\ ~NoFirst(names) /\ ~Endless(names) /\ f.body = Concatenated(names)
          /\ Entry(t, v.n + 1, "list", [kind |-> "names", names |-> names])
  <2> SUFFICES ASSUME v.pc = "list" PROVE \E names \in Listings :
          /\ ~NoFirst(names) /\ ~Endless(names) /\ f.body = Concatenated(names)
          /\ Entry(t, v.n + 1, "list", [kind |-> "names", names |-> names])
    OBVIOUS
  <2>1. PICK names \in Listings :
          /\ ~NoFirst(names) /\ ~Endless(names) /\ f.body = Concatenated(names)
          /\ Entry(s, v.n + 1, "list", [kind |-> "names", names |-> names])
    BY DEF Told
  <2> QED BY <1>1, <1>2, <2>1
<1> QED BY <1>1, <1>2, <1>3 DEF Told

\* Logs grow.
LEMMA LogsGrow ==
  ASSUME History, NEW h \in Host
  PROVE  Grown(Log(h), Log(h)')
BY DEF History, Log

\* A host that does not move: some of its frames are lost, or more arrive.
LEMMA PathKept ==
  ASSUME NEW h \in Host, NEW V, Path(h, V), NEW W, UNCHANGED Own(h), History,
         h = "client" => asked' = asked,
         Len(inbox[h]) \in Nat, Len(inbox'[h]) \in Nat,
         \A i \in 1..(Len(inbox[h]) + 1) : V[i].pc \in Fresh(h) => seals' = seals,
         \A i \in 1..(Len(inbox[h]) + 1) : W[i] = V[i],
         \A i \in 1..Len(inbox'[h]) :
           IF i <= Len(inbox[h]) THEN inbox'[h][i] = inbox[h][i]
           ELSE /\ Takes(h, inbox'[h][i], W[i], W[i + 1])
                /\ Told(inbox'[h][i], W[i], Log(Peer(h))')
                /\ Sound(h, W[i + 1])'
  PROVE  Path(h, W)'
<1>1. At(h, W[1])'
  BY DEF Path, At, Own, Log
<1>2. \A i \in 1..(Len(inbox[h]) + 1) : Sound(h, W[i])' /\ W[i].n \in Nat
  BY SoundStays DEF Path, Sound, Numbers
<1>3. \A i \in 1..Len(inbox'[h]) : Sound(h, W[i + 1])'
  BY <1>2
<1>4. Sound(h, W[1])'
  BY <1>2
<1>5. \A i \in 1..(Len(inbox'[h]) + 1) : Sound(h, W[i])'
  <2> TAKE i \in 1..(Len(inbox'[h]) + 1)
  <2>1. CASE i = 1
    BY <1>4, <2>1
  <2>2. CASE i # 1
    <3>1. i - 1 \in 1..Len(inbox'[h]) /\ (i - 1) + 1 = i
      BY <2>2
    <3> QED BY <1>3, <3>1
  <2> QED BY <2>1, <2>2
<1>6. \A i \in 1..Len(inbox'[h]) : Takes(h, inbox'[h][i], W[i], W[i + 1])
  BY DEF Path
<1>7. \A i \in 1..Len(inbox'[h]) : Told(inbox'[h][i], W[i], Log(Peer(h))')
  <2> TAKE i \in 1..Len(inbox'[h])
  <2>1. CASE i <= Len(inbox[h])
    <3>1. /\ i \in 1..Len(inbox[h]) /\ i \in 1..(Len(inbox[h]) + 1)
          /\ Told(inbox'[h][i], W[i], Log(Peer(h)))
      BY <2>1 DEF Path
    <3>2. Grown(Log(Peer(h)), Log(Peer(h))')
      BY LogsGrow DEF Peer, Host
    <3> QED BY <1>2, <3>1, <3>2, ToldStays
  <2>2. CASE ~(i <= Len(inbox[h]))
    BY <2>2
  <2> QED BY <2>1, <2>2
<1> QED BY <1>1, <1>5, <1>6, <1>7 DEF Path

\* A host that neither waits for a frame nor has ended has none to take.
LEMMA NothingToTake ==
  ASSUME SeqsInv, NEW h \in Host, NEW V, Path(h, V), pc[h] \notin Awaiting
  PROVE  Len(inbox[h]) = 0 /\ inbox[h] = <<>>
<1>1. PICK S : inbox \in [Host -> Seq(S)]
  BY DEF SeqsInv
<1>2. inbox[h] \in Seq(S) /\ Len(inbox[h]) \in Nat
  BY <1>1
<1>3. V[1].pc = pc[h]
  BY DEF Path, At
<1>4. \A f, w : ~Takes(h, f, V[1], w)
  BY <1>3 DEF Takes, TakesCommand, TakesName, TakesListing, TakesSize, TakesChunk,
              TakesSign, Awaiting, AwaitedKind
<1>5. Len(inbox[h]) = 0
  <2>1. 1 \notin 1..Len(inbox[h])
    BY <1>4 DEF Path
  <2> QED BY <1>2, <2>1
<1> QED BY <1>2, <1>5

\* The host moves, with no frame to take behind it.
LEMMA OwnPath ==
  ASSUME NEW h \in Host, Len(inbox'[h]) = 0, NEW v, At(h, v)', Sound(h, v)'
  PROVE  Path(h, <<v>>)'
BY DEF Path

\* The host takes the first frame of its path.
LEMMA PathTaken ==
  ASSUME NEW h \in Host, NEW V, Path(h, V), At(h, V[2])', History,
         asked' = asked, NEW W,
         Len(inbox[h]) \in Nat \ {0}, Len(inbox'[h]) = Len(inbox[h]) - 1,
         \A i \in 1..(Len(inbox[h]) + 1) : V[i].pc \in Fresh(h) => seals' = seals,
         \A i \in 1..Len(inbox'[h]) : inbox'[h][i] = inbox[h][i + 1],
         \A i \in 1..Len(inbox[h]) : W[i] = V[i + 1]
  PROVE  Path(h, W)' /\ W[Len(inbox'[h]) + 1] = V[Len(inbox[h]) + 1]
<1>1. /\ Len(inbox'[h]) + 1 = Len(inbox[h]) /\ 1 \in 1..Len(inbox[h])
      /\ \A i \in 1..Len(inbox[h]) : W[i] = V[i + 1] /\ i + 1 \in 1..(Len(inbox[h]) + 1)
      /\ \A i \in 1..Len(inbox'[h]) : /\ W[i] = V[i + 1] /\ W[i + 1] = V[(i + 1) + 1]
                                      /\ i + 1 \in 1..Len(inbox[h])
  OBVIOUS
<1>2. \A i \in 1..(Len(inbox[h]) + 1) : Sound(h, V[i])' /\ V[i].n \in Nat
  BY SoundStays DEF Path, Sound, Numbers
<1>3. At(h, W[1])'
  <2>1. W[1] = V[2]
    BY <1>1
  <2> QED BY <2>1
<1>4. \A i \in 1..(Len(inbox'[h]) + 1) : Sound(h, W[i])'
  BY <1>1, <1>2
<1>5. \A i \in 1..Len(inbox'[h]) : Takes(h, inbox'[h][i], W[i], W[i + 1])
  BY <1>1 DEF Path
<1>6. \A i \in 1..Len(inbox'[h]) : Told(inbox'[h][i], W[i], Log(Peer(h))')
  <2> TAKE i \in 1..Len(inbox'[h])
  <2>1. Told(inbox[h][i + 1], V[i + 1], Log(Peer(h))) /\ V[i + 1].n \in Nat
    BY <1>1, <1>2 DEF Path
  <2>2. Grown(Log(Peer(h)), Log(Peer(h))')
    BY LogsGrow DEF Peer, Host
  <2> QED BY <1>1, <2>1, <2>2, ToldStays
<1>7. Path(h, W)'
  BY <1>3, <1>4, <1>5, <1>6 DEF Path
<1>8. W[Len(inbox'[h]) + 1] = V[Len(inbox[h]) + 1]
  BY <1>1
<1> QED BY <1>7, <1>8

\* The invariant of the paths for a host and its peer.
LEMMA TwoPaths ==
  ASSUME NEW h \in Host, NEW g, g = Peer(h), PathsInv
  PROVE  \E A, B : /\ Alive(h) => Path(h, A)
                   /\ Alive(g) => Path(g, B)
                   /\ Alive(h) /\ Alive(g) => Met(h, A[End(h)], B[End(g)])
<1>1. CASE h = "server"
  BY <1>1 DEF PathsInv, Met, Peer
<1>2. CASE h = "client"
  BY <1>2 DEF PathsInv, Met, Peer
<1> QED BY <1>1, <1>2 DEF Host

\* The way back.
LEMMA FromTwoPaths ==
  ASSUME NEW h \in Host, NEW g, g = Peer(h), NEW A, NEW B,
         Alive(h)' => Path(h, A)', Alive(g)' => Path(g, B)',
         Alive(h)' /\ Alive(g)' => Met(h, A[End(h)], B[End(g)])'
  PROVE  PathsInv'
<1>1. CASE h = "server"
  BY <1>1 DEF PathsInv, Met, Peer
<1>2. CASE h = "client"
  BY <1>2 DEF PathsInv, Met, Peer
<1> QED BY <1>1, <1>2 DEF Host

-----------------------------------------------------------------------------
(* The end of a command and of a session                                   *)

\* The type of each variable, for a host h.
PcSet(h) == (IF h = "server" THEN {"select", "name"} ELSE {"prompt", "typing", "list"})
              \cup Receives \cup Sending \cup Ended

Reasons == {"quit", "name", "directory", "disk", "file", "death"}

\* The type invariant in these terms.
LEMMA PcTypes == TypeOK <=> /\ ep \in [Host -> EndpointSet]
                            /\ \A h \in Host : pc[h] \in PcSet(h)
                            /\ torn \in BOOLEAN /\ open \in [Host -> BOOLEAN]
                            /\ op \in [Host -> Ops]
                            /\ size \in [Host -> 0..MaxChunks]
                            /\ rest \in [Host -> 0..MaxChunks]
                            /\ \A h \in Host : rest[h] <= size[h]
                            /\ reason \in Reasons \cup {"none"}
BY DEF TypeOK, PcSet, Receives, Host, Ops, Reasons

\* What the moves of one host leave of the other's.
LEMMA LeaveFacts ==
  ASSUME IInv, NEW h \in Host, NEW e \in EndpointSet, NEW how \in Ended,
         Leave(h, e, how) \/ (Proceed(h, e, how) /\ how = "stuck")
  PROVE  /\ ep' \in [Host -> EndpointSet] /\ open' \in [Host -> BOOLEAN]
         /\ pc' \in [Host -> Pcs] /\ pc'[h] = how
         /\ KeyInv'
         /\ \A g \in Host \ {h} : ep'[g] = ep[g] /\ pc'[g] = pc[g]
<1>1. DestroyKeys(e) \in EndpointSet
  BY Destroyed
<1>2. \E d \in EndpointSet : ep' = [ep EXCEPT ![h] = d]
  BY <1>1 DEF Leave, Proceed
<1>3. open' = open \/ open' = [open EXCEPT ![h] = FALSE]
  BY DEF Leave, Proceed
<1>4. pc' = [pc EXCEPT ![h] = how] /\ how \in Pcs
  <2>1. how \in Pcs
    BY DEF Pcs
  <2> QED BY <2>1 DEF Leave, Proceed
<1>5. ep \in [Host -> EndpointSet] /\ open \in [Host -> BOOLEAN] /\ pc \in [Host -> Pcs]
  BY DEF IInv, TypeOK, SeqsInv
<1>6. KeyInv'
  BY <1>2, <1>3, <1>4, <1>5 DEF IInv, KeyInv, Alive
<1> QED BY <1>2, <1>3, <1>4, <1>5, <1>6

\* A step that goes on.
LEMMA ProceedFacts ==
  ASSUME IInv, NEW h \in Host, Alive(h), NEW e \in EndpointSet, e.key = 1, e.iv.base = 1,
         NEW where \in Pcs, Proceed(h, e, where)
  PROVE  /\ ep' \in [Host -> EndpointSet] /\ open' = open
         /\ pc' \in [Host -> Pcs] /\ pc'[h] = where /\ ep'[h] = e
         /\ KeyInv'
         /\ \A g \in Host \ {h} : ep'[g] = ep[g] /\ pc'[g] = pc[g]
<1>1. ep \in [Host -> EndpointSet] /\ pc \in [Host -> Pcs]
  BY DEF IInv, TypeOK, SeqsInv
<1>2. KeyInv'
  BY <1>1 DEF IInv, KeyInv, Alive, Proceed
<1> QED BY <1>1, <1>2 DEF Proceed

\* A log is no shorter than itself.
LEMMA GrownSelf == \A s : IsSeq(s) => Grown(s, s) /\ Len(s) \in Nat
<1> SUFFICES ASSUME NEW s, IsSeq(s) PROVE Grown(s, s) /\ Len(s) \in Nat
  OBVIOUS
<1>1. PICK S : s \in Seq(S)
  BY DEF IsSeq
<1> QED BY <1>1 DEF Grown

\* A host that ends, with no word to the other, of whose frames some are lost.
LEMMA EndStep ==
  ASSUME IInv, NEW h \in Host, NEW e \in EndpointSet, NEW how \in Ended,
         Leave(h, e, how) \/ (Proceed(h, e, how) /\ how = "stuck"),
         NEW g, g = Peer(h),
         \E S : inbox' \in [Host -> Seq(S)],
         \A i \in 1..Len(inbox'[g]) : i <= Len(inbox[g]) /\ inbox'[g][i] = inbox[g][i],
         torn' \in BOOLEAN, op' \in [Host -> Ops], op'[g] = op[g],
         UNCHANGED <<size, rest, cipher, logs, seals, refused>>,
         reason' \in Reasons
  PROVE  IInv'
<1>1. g \in Host \ {h} /\ Host = {h, g}
  BY DEF Peer, Host
<1>2. /\ ep' \in [Host -> EndpointSet] /\ open' \in [Host -> BOOLEAN]
      /\ pc' \in [Host -> Pcs] /\ pc'[h] = how /\ KeyInv'
      /\ ep'[g] = ep[g] /\ pc'[g] = pc[g]
  BY <1>1, LeaveFacts
<1>3. TypeOK'
  <2>1. \A x \in Host : pc'[x] \in PcSet(x)
    BY <1>1, <1>2, PcTypes DEF PcSet, IInv
  <2>2. UNCHANGED <<size, rest>>
    OBVIOUS
  <2>3. /\ size \in [Host -> 0..MaxChunks] /\ rest \in [Host -> 0..MaxChunks]
        /\ \A x \in Host : rest[x] <= size[x]
    BY DEF IInv, TypeOK
  <2> QED BY <1>2, <2>1, <2>2, <2>3 DEF TypeOK, PcSet, Receives, Host, Ops, Reasons
<1>4. SeqsInv'
  BY <1>2 DEF IInv, SeqsInv, logs
<1>5. PathsInv'
  <2>1. PICK A, B : Alive(g) => Path(g, B)
    BY TwoPaths DEF IInv
  <2>2. CASE Alive(g)
    <3>1. History
      BY GrownSelf DEF History, IInv, SeqsInv, logs, Reasons
    <3>2. UNCHANGED Own(g)
      BY <1>2 DEF Own, Log, logs
    <3>3. Len(inbox[g]) \in Nat /\ Len(inbox'[g]) \in Nat
      <4>1. PICK S : inbox \in [Host -> Seq(S)]
        BY DEF IInv, SeqsInv
      <4>2. PICK T : inbox' \in [Host -> Seq(T)]
        OBVIOUS
      <4> QED BY <1>1, <4>1, <4>2
    <3>4. Path(g, B)'
      BY <1>1, <2>1, <2>2, <3>1, <3>2, <3>3, PathKept DEF logs
    <3> QED BY <1>2, <3>4, FromTwoPaths DEF Alive
  <2>3. CASE ~Alive(g)
    BY <1>2, <2>3, FromTwoPaths DEF Alive
  <2> QED BY <2>2, <2>3
<1>6. NeverRefused' /\ FreshIVs' /\ EndsForAReason'
  BY DEF IInv, NeverRefused, FreshIVs, EndsForAReason, Reasons
<1> QED BY <1>2, <1>3, <1>4, <1>5, <1>6 DEF IInv

\* Where one host has ended there is a reason.
LEMMA Reason ==
  ASSUME IInv, NEW h \in Host, ~open[h] \/ ~Alive(h)
  PROVE  reason \in Reasons
<1>1. ~Alive(h)
  BY DEF IInv, KeyInv
<1> QED BY <1>1 DEF IInv, EndsForAReason, TypeOK, Alive, Reasons

\* The frames of an inbox that nobody touches.
LEMMA SameInbox ==
  ASSUME IInv, UNCHANGED inbox, NEW g \in Host
  PROVE  /\ \E S : inbox' \in [Host -> Seq(S)]
         /\ \A i \in 1..Len(inbox'[g]) : i <= Len(inbox[g]) /\ inbox'[g][i] = inbox[g][i]
<1>1. PICK S : inbox \in [Host -> Seq(S)]
  BY DEF IInv, SeqsInv
<1>2. Len(inbox[g]) \in Nat
  BY <1>1
<1> QED BY <1>1, <1>2

\* Steps by which a host gives up or is ended, between two frames.
LEMMA EndSteps ==
  ASSUME IInv, NEW h \in Host, SendFails(h) \/ Loses(h) \/ Die(h) \/ ReadFails(h)
  PROVE  IInv'
<1> DEFINE g == Peer(h)
<1>1. g \in Host
  BY DEF Peer, Host
<1>2. ep[h] \in EndpointSet /\ op \in [Host -> Ops] /\ torn \in BOOLEAN
  BY DEF IInv, TypeOK, Ops
<1>3. CASE SendFails(h)
  <2>1. Leave(h, ep[h], "gone") /\ reason' \in Reasons
    BY <1>1, <1>3, Reason DEF SendFails, Return
  <2> QED BY <1>1, <1>2, <1>3, <2>1, EndStep, SameInbox DEF SendFails, transfer, Ended
<1>4. CASE Loses(h)
  <2>1. reason' \in Reasons
    BY <1>1, <1>4, Reason DEF Loses
  <2>2. \/ Leave(h, ep[h], "gone") \/ Leave(h, ep[h], "crashed")
        \/ Proceed(h, ep[h], "stuck")
    BY <1>4 DEF Loses
  <2> QED BY <1>1, <1>2, <1>4, <2>1, <2>2, EndStep, SameInbox DEF Loses, transfer, Ended
<1>5. CASE ReadFails(h)
  <2>1. Leave(h, ep[h], "gone") /\ reason' \in Reasons
    BY <1>5 DEF ReadFails, Return, Because, Reasons
  <2> QED BY <1>1, <1>2, <1>5, <2>1, EndStep, SameInbox DEF ReadFails, transfer, Ended
<1>6. CASE Die(h)
  <2>1. Leave(h, ep[h], "gone") /\ reason' \in Reasons /\ torn' \in BOOLEAN
    BY <1>6 DEF Die, Because, Reasons
  <2>2. PICK k \in 0..Len(inbox[g]) : inbox' = [inbox EXCEPT ![g] = SubSeq(@, 1, k)]
    BY <1>6 DEF Die
  <2>3. PICK S : inbox \in [Host -> Seq(S)]
    BY DEF IInv, SeqsInv
  <2>4. /\ SubSeq(inbox[g], 1, k) \in Seq(S)
        /\ \A i \in 1..Len(SubSeq(inbox[g], 1, k)) :
             i <= Len(inbox[g]) /\ SubSeq(inbox[g], 1, k)[i] = inbox[g][i]
    <3>1. inbox[g] \in Seq(S) /\ Len(inbox[g]) \in Nat
      BY <1>1, <2>3
    <3> HIDE DEF g
    <3> QED BY <3>1
  <2>5. /\ inbox' \in [Host -> Seq(S)]
        /\ \A i \in 1..Len(inbox'[g]) : i <= Len(inbox[g]) /\ inbox'[g][i] = inbox[g][i]
    BY <1>1, <2>2, <2>3, <2>4
  <2> QED BY <1>1, <1>2, <1>6, <2>1, <2>5, EndStep DEF Die, transfer, Ended
<1> QED BY <1>3, <1>4, <1>5, <1>6

\* The client's own ends.
LEMMA QuitSteps == IInv /\ (Quit \/ ProtocolError) => IInv'
<1> SUFFICES ASSUME IInv, Quit \/ ProtocolError PROVE IInv'
  OBVIOUS
<1>1. /\ "client" \in Host /\ "server" = Peer("client") /\ "server" \in Host
      /\ "gone" \in Ended
  BY DEF Host, Peer, Ended
<1>2. ep["client"] \in EndpointSet /\ op \in [Host -> Ops] /\ torn \in BOOLEAN
  BY <1>1 DEF IInv, TypeOK, Ops
<1>3. reason' \in Reasons
  <2>1. CASE Quit
    BY <2>1 DEF Quit, Because, Reasons, IInv, TypeOK
  <2>2. CASE ProtocolError
    <3>1. pc["client"] = "prompt" /\ Alive("client")
      BY <2>2 DEF ProtocolError, Alive, Ended
    <3>2. PICK C : Path("client", C)
      BY <3>1 DEF IInv, PathsInv
    <3>3. inbox["client"] = <<>>
      BY <1>1, <3>1, <3>2, NothingToTake DEF IInv, Awaiting, AwaitedKind
    <3>4. ~open["server"]
      BY <2>2, <3>3 DEF ProtocolError
    <3> QED BY <1>1, <2>2, <3>4, Reason DEF ProtocolError
  <2> QED BY <2>1, <2>2
<1> QED BY <1>1, <1>2, <1>3, EndStep, SameInbox DEF Quit, ProtocolError, transfer

-----------------------------------------------------------------------------
(* A host that sends                                                       *)

\* Where a living host stands.
LEMMA Standing ==
  ASSUME IInv, NEW h \in Host, Alive(h)
  PROVE  /\ \E v : At(h, v) /\ Sound(h, v)
         /\ ep[h] \in EndpointSet /\ ep[h].key = 1 /\ ep[h].iv.base = 1
         /\ pc[h] \notin Awaiting => inbox[h] = <<>>
         /\ Len(inbox[h]) \in Nat
<1>1. PICK A : Path(h, A)
  BY DEF IInv, PathsInv, Host
<1>2. PICK S : inbox \in [Host -> Seq(S)]
  BY DEF IInv, SeqsInv
<1>3. Len(inbox[h]) \in Nat
  BY <1>2
<1>4. At(h, A[1]) /\ Sound(h, A[1])
  BY <1>1, <1>3 DEF Path
<1> QED BY <1>1, <1>3, <1>4, NothingToTake DEF IInv, TypeOK, KeyInv

\* What is left of an inbox of which the first frame is taken, and what it is
\* when some frames have arrived.
Shortened(s, t) == /\ Len(t) = Len(s) - 1
                   /\ \A i \in 1..Len(t) : t[i] = s[i + 1]
Extended(s, fs, t) == /\ Len(t) = Len(s) + Len(fs)
                      /\ \A i \in 1..Len(s) : t[i] = s[i]
                      /\ \A i \in 1..Len(fs) : t[Len(s) + i] = fs[i]

\* The inboxes after a move, in these terms.
LEMMA InboxMoved ==
  ASSUME SeqsInv, NEW h \in Host, NEW g, g = Peer(h),
         NEW k \in {0, 1}, k <= Len(inbox[h]), NEW frames, IsSeq(frames),
         inbox' = Moved(h, k, frames)
  PROVE  /\ k = 0 => inbox'[h] = inbox[h]
         /\ k = 1 => Shortened(inbox[h], inbox'[h])
         /\ frames = <<>> => inbox'[g] = inbox[g]
         /\ open[g] => Extended(inbox[g], frames, inbox'[g])
<1>1. PICK m : m = inbox'
  OBVIOUS
<1>2. m = Moved(h, k, frames)
  BY <1>1
<1>10. Len(frames) \in Nat /\ Len(inbox[g]) \in Nat
  <2>1. PICK S : inbox \in [Host -> Seq(S)]
    BY DEF SeqsInv
  <2>2. PICK T : frames \in Seq(T)
    BY DEF IsSeq
  <2> QED BY <2>1, <2>2 DEF Peer, Host
<1> HIDE <1>1
<1>3. k = 0 => m[h] = inbox[h]
  BY <1>2, MovedFacts
<1>4. k = 1 => Len(m[h]) = Len(inbox[h]) - 1
  BY <1>2, MovedFacts
<1>5. k = 1 => \A i \in 1..Len(m[h]) : m[h][i] = inbox[h][i + 1]
  BY <1>2, MovedFacts
<1>6. frames = <<>> => m[g] = inbox[g]
  BY <1>2, MovedFacts
<1>7. open[g] => Len(m[g]) = Len(inbox[g]) + Len(frames)
  BY <1>2, <1>10, MovedFacts
<1>8. open[g] => \A i \in 1..Len(inbox[g]) : m[g][i] = inbox[g][i]
  BY <1>2, MovedFacts
<1>9. open[g] => \A i \in 1..Len(frames) : m[g][Len(inbox[g]) + i] = frames[i]
  BY <1>2, <1>10, MovedFacts
<1>11. k = 1 => Shortened(inbox[h], m[h])
  BY <1>4, <1>5 DEF Shortened
<1>12. open[g] => Extended(inbox[g], frames, m[g])
  BY <1>7, <1>8, <1>9 DEF Extended
<1> QED BY <1>1, <1>3, <1>6, <1>11, <1>12

\* While a path has frames to take, none of its hosts encrypts: not the server,
\* where it takes one, and not the client, whose answer has begun.
LEMMA NoneFresh ==
  ASSUME NEW h \in Host, NEW f, NEW v, NEW w, Takes(h, f, v, w), Sound(h, v), Sound(h, w)
  PROVE  IF h = "server" THEN v.pc \notin Fresh(h) ELSE w.pc \in Fresh(h)
<1>1. CASE h = "server"
  BY <1>1 DEF Takes, TakesCommand, TakesName, TakesListing, TakesSize, TakesChunk, TakesSign,
              Fresh
<1>2. CASE h = "client"
  BY <1>2 DEF Takes, TakesCommand, TakesName, TakesListing, TakesSize, TakesChunk, TakesSign,
              Fresh, Sound, Doing, Home, Host, Receives, Sending
<1> QED BY <1>1, <1>2 DEF Host

\* The frames fs, which h sends when it has taken k, take the path of g further,
\* to where the hosts meet again if h is at w.
Onward(h, g, k, fs, w) ==
  \A A, b : Path(h, A) /\ Sound(g, b) /\ Met(h, A[k + 1], b) =>
    /\ seals' = seals \/ b.pc \notin Fresh(g)
    /\ \E C : /\ C[1] = b
              /\ \A i \in 1..Len(fs) : /\ Takes(g, fs[i], C[i], C[i + 1])
                                       /\ Told(fs[i], C[i], Log(h)')
                                       /\ Sound(g, C[i + 1])'
              /\ Alive(h)' => Met(h, w, C[Len(fs) + 1])'

\* Arithmetic of the position behind two sequences.
LEMMA PlusOne == \A n, l \in Nat : /\ n + l + 1 \in 1..(n + 1 + l) /\ ~(n + l + 1 <= n)
                                   /\ (n + l + 1) - n = l + 1
OBVIOUS

\* The paths when h, all of whose frames are taken, sends some.
LEMMA SendsPaths ==
  ASSUME IInv, NEW h \in Host, NEW g, g = Peer(h), Alive(h),
         NEW k \in {0, 1}, Len(inbox[h]) = k,
         NEW fs, IsSeq(fs), inbox' = Moved(h, k, fs),
         pc'[g] = pc[g], UNCHANGED Own(g), History, g = "client" => asked' = asked,
         NEW w, Alive(h)' => At(h, w)' /\ Sound(h, w)', Onward(h, g, k, fs, w)
  PROVE  PathsInv'
<1> PICK L \in Nat : L = Len(fs)
  BY DEF IsSeq
<1>1. g \in Host /\ g # h /\ h = Peer(g)
  BY DEF Peer, Host
<1>2. SeqsInv /\ Len(inbox[h]) \in Nat /\ Len(inbox[g]) \in Nat
  <2>1. PICK S : inbox \in [Host -> Seq(S)]
    BY DEF IInv, SeqsInv
  <2> QED BY <1>1, <2>1 DEF IInv
<1> PICK n \in Nat : n = Len(inbox[g])
  BY <1>2
<1>3. /\ Len(inbox'[h]) = 0
      /\ open[g] => /\ Len(inbox'[g]) = n + L
                    /\ \A i \in 1..n : inbox'[g][i] = inbox[g][i]
                    /\ \A i \in 1..L : inbox'[g][n + i] = fs[i]
  <2>1. k <= Len(inbox[h])
    BY <1>2
  <2>2. k = 0 => inbox'[h] = inbox[h]
    BY <1>2, <2>1, InboxMoved
  <2>3. k = 1 => Shortened(inbox[h], inbox'[h])
    BY <1>2, <2>1, InboxMoved
  <2>4. open[g] => Extended(inbox[g], fs, inbox'[g])
    BY <1>2, <2>1, InboxMoved
  <2>5. Len(inbox'[h]) = 0
    BY <1>2, <2>2, <2>3 DEF Shortened
  <2>6. Len(inbox[g]) = n /\ Len(fs) = L
    OBVIOUS
  <2> QED BY <2>4, <2>5, <2>6 DEF Extended
<1>4. PICK A, B : /\ Path(h, A)
                  /\ Alive(g) => Path(g, B)
                  /\ Alive(g) => Met(h, A[End(h)], B[End(g)])
  BY TwoPaths DEF IInv
<1>5. Alive(h)' => Path(h, <<w>>)'
  BY <1>3, OwnPath
<1>6. CASE ~Alive(g)
  BY <1>5, <1>6, FromTwoPaths DEF Alive
<1>7. CASE Alive(g)
  <2>1. open[g]
    BY <1>1, <1>7 DEF IInv, KeyInv
  <2>2. n = Len(inbox[g])
    OBVIOUS
  <2>3. PICK b : b = B[n + 1]
    OBVIOUS
  <2>4. Sound(g, b) /\ Met(h, A[k + 1], b)
    <3>1. A[End(h)] = A[k + 1] /\ B[End(g)] = b
      BY <1>2, <2>2, <2>3 DEF End
    <3>2. Met(h, A[k + 1], b)
      BY <1>4, <1>7, <3>1
    <3>3. Sound(g, b)
      BY <1>4, <1>7, <2>2, <2>3 DEF Path
    <3> QED BY <3>2, <3>3
  <2>5. seals' = seals \/ b.pc \notin Fresh(g)
    BY <1>4, <2>4 DEF Onward
  <2>6. PICK C : /\ C[1] = b
                 /\ \A i \in 1..L : /\ Takes(g, fs[i], C[i], C[i + 1])
                                    /\ Told(fs[i], C[i], Log(h)')
                                    /\ Sound(g, C[i + 1])'
                 /\ Alive(h)' => Met(h, w, C[L + 1])'
    BY <1>4, <2>4 DEF Onward
  <2>7. \A i \in 1..(n + 1) : B[i].pc \in Fresh(g) => seals' = seals
    <3>1. \A i \in 1..n : /\ i \in 1..(n + 1) /\ i + 1 \in 1..(n + 1)
                          /\ Takes(g, inbox[g][i], B[i], B[i + 1])
      BY <1>4, <1>7, <2>2 DEF Path
    <3>2. \A i \in 1..(n + 1) : Sound(g, B[i])
      BY <1>4, <1>7, <2>2 DEF Path
    <3>3. CASE seals' = seals
      BY <3>3
    <3>4. CASE g = "server" /\ b.pc \notin Fresh(g)
      <4>1. \A i \in 1..n : B[i].pc \notin Fresh(g)
        BY <1>1, <3>1, <3>2, <3>4, NoneFresh
      <4>2. \A i \in 1..(n + 1) : i = n + 1 \/ i \in 1..n
        OBVIOUS
      <4> QED BY <2>3, <3>4, <4>1, <4>2
    <3>5. CASE g = "client" /\ b.pc \notin Fresh(g)
      <4>1. n \notin 1..n
        <5>1. SUFFICES ASSUME n \in 1..n PROVE FALSE
          OBVIOUS
        <5>2. Takes(g, inbox[g][n], B[n], B[n + 1]) /\ Sound(g, B[n]) /\ Sound(g, B[n + 1])
          BY <3>1, <3>2, <5>1
        <5>3. B[n + 1].pc \in Fresh(g)
          BY <1>1, <3>5, <5>2, NoneFresh
        <5> QED BY <2>3, <3>5, <5>3
      <4>2. n = 0
        BY <4>1
      <4> QED BY <2>3, <3>5, <4>2
    <3> QED BY <1>1, <2>5, <3>3, <3>4, <3>5 DEF Host
  <2>8. PICK W : \A i \in 1..(n + 1 + L) : W[i] = IF i <= n THEN B[i] ELSE C[i - n]
    <3> DEFINE X == [i \in 1..(n + 1 + L) |-> IF i <= n THEN B[i] ELSE C[i - n]]
    <3>1. \A i \in 1..(n + 1 + L) : X[i] = IF i <= n THEN B[i] ELSE C[i - n]
      OBVIOUS
    <3> QED BY <3>1
  <2>9. \A i \in 1..(n + 1) : W[i] = B[i]
    <3> TAKE i \in 1..(n + 1)
    <3>1. CASE i <= n
      BY <2>8, <3>1
    <3>2. CASE i = n + 1
      BY <2>3, <2>6, <2>8, <3>2
    <3> QED BY <3>1, <3>2
  <2>10. \A i \in 1..Len(inbox'[g]) :
           IF i <= Len(inbox[g]) THEN inbox'[g][i] = inbox[g][i]
           ELSE /\ Takes(g, inbox'[g][i], W[i], W[i + 1])
                /\ Told(inbox'[g][i], W[i], Log(Peer(g))')
                /\ Sound(g, W[i + 1])'
    <3> TAKE i \in 1..Len(inbox'[g])
    <3>1. CASE i <= n
      BY <1>3, <2>1, <2>2, <3>1
    <3>2. CASE ~(i <= n)
      <4>1. PICK j \in 1..L : j = i - n
        <5>1. i \in 1..(n + L)
          BY <1>3, <2>1, <2>2
        <5>2. i - n \in 1..L
          BY <3>2, <5>1
        <5> QED BY <5>2
      <4>2. /\ i = n + j /\ i \in 1..(n + 1 + L) /\ i + 1 \in 1..(n + 1 + L)
            /\ ~(i + 1 <= n) /\ (i + 1) - n = j + 1
        BY <3>2, <4>1
      <4>3. W[i] = C[j] /\ W[i + 1] = C[j + 1]
        BY <2>8, <3>2, <4>1, <4>2
      <4>5. inbox'[g][i] = fs[j]
        BY <1>3, <2>1, <2>2, <4>1, <4>2
      <4>4. Log(Peer(g))' = Log(h)'
        BY <1>1
      <4> QED BY <2>2, <2>6, <3>2, <4>1, <4>3, <4>4, <4>5
    <3> QED BY <3>1, <3>2
  <2>11. Path(g, W)'
    <3>1. Len(inbox'[g]) \in Nat
      BY <1>3, <2>1
    <3>2. \A i \in 1..(Len(inbox[g]) + 1) : B[i].pc \in Fresh(g) => seals' = seals
      BY <2>2, <2>7
    <3>3. \A i \in 1..(Len(inbox[g]) + 1) : W[i] = B[i]
      BY <2>2, <2>9
    <3>4. Path(g, B)
      BY <1>4, <1>7
    <3> QED BY <1>1, <1>2, <2>10, <3>1, <3>2, <3>3, <3>4, PathKept
  <2>12. Alive(h)' => Met(h, <<w>>[End(h)], W[End(g)])'
    <3>1. W[n + L + 1] = C[L + 1]
      <4>1. PICK z \in Nat : z = n + L + 1
        OBVIOUS
      <4>2. z \in 1..(n + 1 + L) /\ ~(z <= n) /\ z - n = L + 1
        BY <4>1, PlusOne
      <4>3. W[z] = C[L + 1]
        BY <2>8, <4>2
      <4> QED BY <4>1, <4>3
    <3>2. End(h)' = 1 /\ End(g)' = n + L + 1
      <4>1. Len(inbox'[g]) = n + L /\ Len(inbox'[h]) = 0
        BY <1>3, <2>1
      <4>2. PICK z \in Nat : z = Len(inbox'[g])
        BY <4>1
      <4>3. End(h)' = 1
        BY <4>1 DEF End
      <4>4. End(g)' = z + 1
        BY <4>2 DEF End
      <4> QED BY <4>1, <4>2, <4>3, <4>4
    <3>3. <<w>>[1] = w
      OBVIOUS
    <3>4. Alive(h)' => Met(h, w, W[n + L + 1])'
      BY <2>6, <3>1
    <3> QED BY <3>2, <3>3, <3>4
  <2> QED BY <1>5, <2>11, <2>12, FromTwoPaths
<1> QED BY <1>6, <1>7

\* A sequence of one and of two.
LEMMA Singles ==
  /\ \A x : IsSeq(<<x>>) /\ Len(<<x>>) = 1 /\ <<x>>[1] = x
  /\ \A x, y : /\ IsSeq(<<x, y>>) /\ Len(<<x, y>>) = 2
               /\ <<x, y>>[1] = x /\ <<x, y>>[2] = y
<1>1. \A x : <<x>> \in Seq({x})
  OBVIOUS
<1>2. \A x, y : <<x, y>> \in Seq({x, y})
  OBVIOUS
<1> QED BY <1>1, <1>2 DEF IsSeq

\* The paths when h, which has nothing to take, sends one frame.
LEMMA SaysPaths ==
  ASSUME IInv, NEW h \in Host, NEW g, g = Peer(h), Alive(h), pc[h] \notin Awaiting,
         NEW f, inbox' = Moved(h, 0, <<f>>),
         pc'[g] = pc[g], UNCHANGED Own(g), History, g = "client" => asked' = asked,
         NEW v, At(h, v), NEW w, Alive(h)' => At(h, w)' /\ Sound(h, w)',
         \A b : Sound(g, b) /\ Met(h, v, b) =>
           /\ seals' = seals \/ b.pc \notin Fresh(g)
           /\ \E c : /\ Takes(g, f, b, c) /\ Told(f, b, Log(h)') /\ Sound(g, c)'
                     /\ Alive(h)' => Met(h, w, c)'
  PROVE  PathsInv'
<1>1. PICK k \in {0, 1} : k = 0
  OBVIOUS
<1>2. PICK fs : fs = <<f>>
  OBVIOUS
<1>4. IsSeq(fs) /\ Len(fs) = 1 /\ fs[1] = f
  BY <1>2, Singles
<1>5. inbox' = Moved(h, k, fs)
  BY <1>1, <1>2
<1>6. Len(inbox[h]) = k
  BY <1>1, Standing
<1>7. ASSUME NEW A, NEW b, Path(h, A), Sound(g, b), Met(h, A[k + 1], b)
      PROVE  /\ seals' = seals \/ b.pc \notin Fresh(g)
             /\ \E C : /\ C[1] = b
                       /\ \A i \in 1..Len(fs) : /\ Takes(g, fs[i], C[i], C[i + 1])
                                                /\ Told(fs[i], C[i], Log(h)')
                                                /\ Sound(g, C[i + 1])'
                       /\ Alive(h)' => Met(h, w, C[Len(fs) + 1])'
  <2>1. A[k + 1] = A[1] /\ At(h, A[1])
    BY <1>1, <1>7 DEF Path
  <2>2. Met(h, v, b)
    BY <1>7, <2>1 DEF Met, Together, At
  <2>3. seals' = seals \/ b.pc \notin Fresh(g)
    BY <1>7, <2>2, Zenon
  <2>4. PICK c : /\ Takes(g, f, b, c) /\ Told(f, b, Log(h)') /\ Sound(g, c)'
                 /\ Alive(h)' => Met(h, w, c)'
    BY <1>7, <2>2, Zenon
  <2>5. PICK C : C[1] = b /\ C[2] = c
    <3>1. <<b, c>>[1] = b /\ <<b, c>>[2] = c
      OBVIOUS
    <3> QED BY <3>1
  <2>6. \A i \in 1..Len(fs) : i = 1 /\ fs[i] = f /\ C[i] = b /\ C[i + 1] = c
    BY <1>4, <2>5
  <2>7. C[Len(fs) + 1] = c
    BY <1>4, <2>5
  <2> QED BY <2>3, <2>4, <2>5, <2>6, <2>7
<1>8. Onward(h, g, k, fs, w)
  BY <1>7 DEF Onward
<1> QED BY <1>4, <1>5, <1>6, <1>8, SendsPaths

\* What of a file its two hosts agree on.
OneFile(a, b) == a.size = b.size /\ a.rest = b.rest /\ a.cipher = b.cipher

\* What a sender knows of its receiver, and what there is to show after a step.
LEMMA SenderMet ==
  ASSUME NEW h \in Host, NEW g, g = Peer(h), NEW a, NEW b, Met(h, a, b)
  PROVE  /\ a.count = b.count /\ a.n = b.n
         /\ a.remote = ep[g].local /\ b.remote = ep[h].local
         /\ a.pc \in {"announce", "refuse"} => b.pc = "size"
         /\ a.pc = "send" => b.pc = "chunk" /\ OneFile(a, b)
         /\ a.pc = "sign" => b.pc = "signature" /\ OneFile(a, b)
BY DEF Met, Together, Peer, Host, OneFile

\* Two hosts that return to select and the prompt meet there.
LEMMA MeetAgain ==
  ASSUME NEW h \in Host, NEW g, g = Peer(h), NEW a, NEW b,
         a.count = b.count, a.n = b.n, a.remote = ep'[g].local, b.remote = ep'[h].local,
         \/ a.pc = Home(h) /\ b.pc = Home(g)
         \/ a.pc = "send" /\ b.pc = "chunk" /\ OneFile(a, b)
         \/ a.pc = "sign" /\ b.pc = "signature" /\ OneFile(a, b)
  PROVE  Met(h, a, b)'
BY DEF Met, Together, Peer, Host, Home, OneFile

\* A move leaves inboxes of frames.
LEMMA MovedType ==
  ASSUME SeqsInv, NEW h \in Host, NEW k \in {0, 1}, k <= Len(inbox[h]),
         NEW frames, IsSeq(frames), inbox' = Moved(h, k, frames)
  PROVE  \E S : inbox' \in [Host -> Seq(S)]
<1>1. PICK m, g : m = Moved(h, k, frames) /\ g = Peer(h)
  OBVIOUS
<1>2. \E S : m \in [Host -> Seq(S)]
  BY <1>1, MovedFacts
<1> QED BY <1>1, <1>2

\* The frames one host sends.
LEMMA OneFrame ==
  ASSUME IInv, NEW h \in Host, Alive(h), NEW f, inbox' = Moved(h, 0, <<f>>)
  PROVE  \E S : inbox' \in [Host -> Seq(S)]
<1>1. PICK k \in {0, 1} : k = 0
  OBVIOUS
<1>2. PICK fs : fs = <<f>>
  OBVIOUS
<1>3. IsSeq(fs) /\ SeqsInv
  BY <1>2, Singles DEF IInv
<1>4. inbox' = Moved(h, k, fs)
  BY <1>1, <1>2
<1>5. k <= Len(inbox[h])
  BY <1>1, Standing
<1> QED BY <1>3, <1>4, <1>5, MovedType

-----------------------------------------------------------------------------
(* What a step has to show                                                 *)

\* How a step leaves h: it goes on, or it has left or loops for ever.
Goes(h, e, where) ==
  \/ where \in Ended /\ Leave(h, e, where)
  \/ where = "stuck" /\ Proceed(h, e, where)
  \/ where \notin Ended /\ Proceed(h, e, where) /\ Alive(h) /\ e.key = 1 /\ e.iv.base = 1

\* The parts of the type invariant that a step has to keep.
InboxData == \E S : inbox \in [Host -> Seq(S)]
LogData   == IsSeq(asked) /\ IsSeq(done) /\ IsSeq(answered)
FileData  == /\ torn \in BOOLEAN /\ op \in [Host -> Ops] /\ cipher \in [Host -> SealSet]
             /\ size \in [Host -> 0..MaxChunks] /\ rest \in [Host -> 0..MaxChunks]
             /\ \A x \in Host : rest[x] <= size[x]
SealData  == seals \in Seq(SealSet) /\ FreshIVs

\* A step that goes on or returns false, for both hosts.
LEMMA GoesFacts ==
  ASSUME IInv, NEW h \in Host, NEW g, g = Peer(h), NEW e \in EndpointSet,
         NEW where \in PcSet(h), Goes(h, e, where)
  PROVE  /\ pc'[h] = where /\ pc'[g] = pc[g] /\ ep'[g] = ep[g] /\ KeyInv'
         /\ where \notin Ended => ep'[h] = e
         /\ ep' \in [Host -> EndpointSet] /\ open' \in [Host -> BOOLEAN]
         /\ pc' \in [Host -> Pcs] /\ \A x \in Host : pc'[x] \in PcSet(x)
<1>1. g \in Host \ {h} /\ Host = {h, g}
  BY DEF Peer, Host
<1>2. where \in Pcs
  BY DEF Pcs, PcSet
<1>3. "stuck" \in Ended
  BY DEF Ended
<1>4. open \in [Host -> BOOLEAN] /\ pc[g] \in PcSet(g)
  BY <1>1, PcTypes DEF IInv
<1>5. CASE where \in Ended
  <2>1. Leave(h, e, where) \/ (Proceed(h, e, where) /\ where = "stuck")
    BY <1>5 DEF Goes
  <2> QED BY <1>1, <1>4, <1>5, <2>1, LeaveFacts
<1>6. CASE where \notin Ended
  <2>1. Proceed(h, e, where) /\ Alive(h) /\ e.key = 1 /\ e.iv.base = 1
    BY <1>3, <1>6 DEF Goes
  <2> QED BY <1>1, <1>2, <1>4, <1>6, <2>1, ProceedFacts
<1> QED BY <1>5, <1>6

\* The invariant from its parts.
LEMMA Whole ==
  ASSUME IInv, NEW h \in Host, NEW e \in EndpointSet, NEW where \in PcSet(h),
         Goes(h, e, where), InboxData', LogData', FileData', SealData', PathsInv',
         refused' = refused, reason' \in Reasons \cup {"none"},
         reason # "none" \/ where \in Ended => reason' # "none"
  PROVE  IInv'
<1>1. PICK g : g = Peer(h) /\ Host = {h, g} /\ g \in Host
  BY DEF Peer, Host
<1>2. /\ pc'[h] = where /\ pc'[g] = pc[g] /\ KeyInv'
      /\ ep' \in [Host -> EndpointSet] /\ open' \in [Host -> BOOLEAN]
      /\ pc' \in [Host -> Pcs] /\ \A x \in Host : pc'[x] \in PcSet(x)
  BY <1>1, GoesFacts
<1>3. TypeOK'
  BY <1>2 DEF TypeOK, FileData, PcSet, Receives, Host, Ops, Reasons
<1>4. SeqsInv'
  BY <1>2 DEF SeqsInv, InboxData, LogData, FileData, SealData
<1>5. NeverRefused' /\ EndsForAReason'
  BY <1>1, <1>2 DEF IInv, NeverRefused, EndsForAReason
<1> QED BY <1>2, <1>3, <1>4, <1>5 DEF IInv, SealData

\* They hold before it.
LEMMA DataHolds ==
  ASSUME IInv
  PROVE  InboxData /\ LogData /\ FileData /\ SealData /\ reason \in Reasons \cup {"none"}
BY PcTypes DEF IInv, SeqsInv, InboxData, LogData, FileData, SealData

\* Parts that a step leaves alone.
LEMMA DataKept ==
  ASSUME IInv
  PROVE  /\ UNCHANGED <<asked, done, answered>> => LogData'
         /\ UNCHANGED <<torn, op, size, rest, cipher>> => FileData'
         /\ UNCHANGED seals => SealData'
BY DataHolds DEF LogData, FileData, SealData, FreshIVs

\* A step that leaves the logs alone may still end a host, for a reason.
LEMMA HistoryKept ==
  ASSUME IInv, UNCHANGED <<asked, done, answered>>, reason # "none" => reason' # "none"
  PROVE  History
BY GrownSelf, DataHolds DEF History, LogData

\* What a host that returns from a command has recorded.
LEMMA Recorded ==
  ASSUME IInv, NEW h \in Host, NEW g, g = Peer(h), NEW o, NEW x, Result(h, o, x),
         asked' = asked, reason # "none" => reason' # "none"
  PROVE  /\ LogData' /\ History /\ Len(Log(h)) \in Nat
         /\ Len(Log(h)') = Len(Log(h)) + 1 /\ UNCHANGED Log(g)
         /\ \A n : n = Len(Log(h)) => Entry(Log(h)', n + 1, o, x)
<1>1. LogData
  BY DataHolds
<1>2. PICK r : r = [op |-> o, result |-> x]
  OBVIOUS
<1>3. \/ h = "server" /\ g = "client" /\ done' = Append(done, r) /\ answered' = answered
      \/ h = "client" /\ g = "server" /\ answered' = Append(answered, r) /\ done' = done
  BY <1>2 DEF Result, Peer, Host
<1>4. \A s : IsSeq(s) => /\ Grown(s, Append(s, r)) /\ IsSeq(Append(s, r)) /\ Len(s) \in Nat
                         /\ Len(Append(s, r)) = Len(s) + 1
                         /\ \A n : n = Len(s) => Entry(Append(s, r), n + 1, o, x)
  <2> SUFFICES ASSUME NEW s, IsSeq(s)
               PROVE  /\ Grown(s, Append(s, r)) /\ IsSeq(Append(s, r)) /\ Len(s) \in Nat
                      /\ Len(Append(s, r)) = Len(s) + 1
                      /\ \A n : n = Len(s) => Entry(Append(s, r), n + 1, o, x)
    OBVIOUS
  <2> QED BY <1>2, AppendSeq DEF Grown, Entry
<1>5. Grown(asked, asked') /\ IsSeq(asked')
  BY <1>1, GrownSelf DEF LogData
<1>6. CASE h = "server"
  BY <1>1, <1>3, <1>4, <1>5, <1>6, GrownSelf DEF LogData, History, Log
<1>7. CASE h = "client"
  BY <1>1, <1>3, <1>4, <1>5, <1>7, GrownSelf DEF LogData, History, Log
<1> QED BY <1>6, <1>7 DEF Host

\* A command that returns true leads home.
LEMMA Returns ==
  ASSUME NEW h \in Host, NEW e, Return(h, e, TRUE)
  PROVE  Proceed(h, e, Home(h))
BY DEF Return, Proceed, Home

\* Home is neither an end nor within a file.
LEMMA HomeFacts ==
  ASSUME NEW h \in Host
  PROVE  Home(h) \in PcSet(h) /\ Home(h) \notin Ended /\ Home(h) \notin Receives \cup Sending
BY DEF Home, PcSet, Ended, Receives, Sending, Host

-----------------------------------------------------------------------------
(* SendFile                                                                *)

\* What h finds when it sends, in the session state and in the file.
LEMMA Sender ==
  ASSUME IInv, NEW h \in Host, pc[h] \in Sending \cup {"prompt", "typing"}
  PROVE  /\ Alive(h) /\ pc[h] \notin Awaiting /\ inbox[h] = <<>>
         /\ ep[h] \in EndpointSet /\ ep[h].key = 1 /\ ep[h].iv.base = 1
         /\ op[h] \in Ops /\ size[h] \in 0..MaxChunks /\ rest[h] \in 0..size[h]
         /\ \E v : At(h, v) /\ Sound(h, v)
<1>1. Alive(h) /\ pc[h] \notin Awaiting
  BY DEF Sending, Ended, Awaiting, AwaitedKind, Alive
<1>2. op[h] \in Ops /\ size[h] \in 0..MaxChunks /\ rest[h] \in 0..size[h]
  BY SessionBounds, DataHolds DEF FileData
<1> QED BY <1>1, <1>2, Standing

\* The endpoint of h after n MACs of its own.
LEMMA AfterSending ==
  ASSUME IInv, NEW h \in Host, NEW n \in Nat, Alive(h), NEW e, e = AfterSent(ep[h], n)
  PROVE  /\ e \in EndpointSet /\ e.key = 1 /\ e.iv.base = 1 /\ e.iv = ep[h].iv
         /\ e.remote = ep[h].remote /\ e.local = (ep[h].local + n) % NonceMod
         /\ e.local \in 0..(NonceMod - 1)
<1>1. ep[h] \in EndpointSet /\ ep[h].key = 1 /\ ep[h].iv.base = 1
  BY Standing
<1>2. /\ e \in EndpointSet /\ e.key = 1 /\ e.iv.base = 1 /\ e.iv = ep[h].iv
      /\ e.remote = ep[h].remote /\ e.local = (ep[h].local + n) % NonceMod
  BY <1>1, Sends
<1> QED BY <1>2 DEF EndpointSet

\* A state that follows a sound one without an encryption.
LEMMA SoundNext ==
  ASSUME SealData, NEW h \in Host, NEW v, Sound(h, v), NEW w, seals' = seals, Numbers(w),
         w.count = v.count \/ w.count = v.count + 1, Doing(h, w), Counted(h, w)',
         w.pc \in {"gone", "refuse"} => reason' # "none",
         w.pc \in Fresh(h) => Past(v)
  PROVE  Sound(h, w)'
<1>1. Doing(h, w)'
  BY DEF Doing
<1>2. w.pc \in Fresh(h) => Past(w)'
  <2> SUFFICES ASSUME w.pc \in Fresh(h), NEW j \in 1..Len(seals)
               PROVE  seals[j].iv.count < w.count
    BY DEF Past
  <2>1. seals[j].iv.count < v.count
    BY DEF Past
  <2>2. seals[j].iv.count \in Nat /\ v.count \in Nat
    <3>1. seals[j] \in SealSet
      BY DEF SealData
    <3> QED BY <3>1 DEF SealSet, Sound, Numbers
  <2> QED BY <2>1, <2>2
<1>3. (w.pc \in Fresh(h) => Past(w))'
  BY <1>2 DEF Fresh
<1>4. Numbers(w)'
  BY DEF Numbers
<1> QED BY <1>1, <1>3, <1>4 DEF Sound

\* The state at the end of a command.
LEMMA SoundHome ==
  ASSUME IInv, NEW h \in Host, NEW v, Sound(h, v), NEW w, UNCHANGED <<asked, seals>>,
         w.count = v.count \/ w.count = v.count + 1, w.n = v.n + 1,
         w.size = v.size, w.rest = v.rest, w.remote \in 0..(NonceMod - 1),
         v.pc # "prompt", w.pc = Home(h), h = "client" => Past(v)
  PROVE  Sound(h, w)'
<1>1. Doing(h, w)
  BY DEF Doing, Sending, Receives, Home, Host
<1>2. Counted(h, w)'
  BY DEF Sound, Counted, Home, Host
<1>3. Numbers(w) /\ (w.pc \in Fresh(h) => Past(v))
  BY DEF Numbers, Sound, Fresh, Home, Sending, Host
<1>4. w.pc \notin {"gone", "refuse"}
  BY DEF Home
<1> QED BY <1>1, <1>2, <1>3, <1>4, SoundNext, DataHolds

\* A size of 0 is taken for the end of the command, whatever it stands for.
LEMMA ZeroTaken ==
  ASSUME IInv, NEW h \in Host, NEW g \in Host, g = Peer(h), NEW v, At(h, v), Sound(h, v),
         v.pc \in {"announce", "refuse"}, NEW b, Sound(g, b), Met(h, v, b), NEW f,
         f.kind = "size", f.body = 0, f.seal = NoSeal,
         f.mac = [key |-> 1, nonce |-> ep[h].local], UNCHANGED <<asked, seals>>,
         \A n : n = Len(Log(h)) => Entry(Log(h)', n + 1, op[h], File(0)),
         ep[h] \in EndpointSet
  PROVE  \E c : /\ Takes(g, f, b, c) /\ Told(f, b, Log(h)') /\ Sound(g, c)'
                /\ c.pc = Home(g) /\ c.count = b.count /\ c.n = b.n + 1
                /\ c.remote = (ep[h].local + 1) % NonceMod /\ v.remote = ep[g].local
<1>1. PICK c : c = [pc |-> Home(g), count |-> b.count, op |-> b.op,
                    remote |-> (b.remote + 1) % NonceMod,
                    size |-> b.size, rest |-> b.rest, cipher |-> b.cipher, n |-> b.n + 1]
  OBVIOUS
<1>2. /\ b.pc = "size" /\ v.count = b.count /\ v.n = b.n
      /\ b.remote = ep[h].local /\ v.remote = ep[g].local
  BY SenderMet
<1>3. Takes(g, f, b, c)
  BY <1>1, <1>2, SessionBounds DEF Takes, TakesSize, SameFile, Macs
<1>4. Told(f, b, Log(h)')
  <2>1. b.op = op[h] /\ b.n = Len(Log(h))
    BY <1>2 DEF At, Sound, Doing, Sending, Receives, Peer, Host
  <2> QED BY <1>2, <2>1 DEF Told
<1>5. Sound(g, c)'
  <2>1. c.remote \in 0..(NonceMod - 1)
    BY <1>1, <1>2, NonceAssumption DEF EndpointSet
  <2>2. g = "client" => Past(b)
    BY <1>2 DEF Sound, Fresh, Past, Peer, Host
  <2> QED BY <1>1, <1>2, <2>1, <2>2, SoundHome
<1> QED BY <1>1, <1>2, <1>3, <1>4, <1>5

\* A chunk is sent.
LEMMA SendChunkStep ==
  ASSUME IInv, NEW h \in Host, SendChunk(h)
  PROVE  IInv'
<1>1. PICK g : g = Peer(h) /\ g \in Host /\ g # h /\ Host = {g, h}
  BY DEF Peer, Host
<1>2. pc[h] = "send" /\ pc[h] \in Sending
  BY DEF SendChunk, Sending
<1>3. PICK v : At(h, v) /\ Sound(h, v)
  BY <1>2, Sender
<1>4. PICK where, e, f : /\ where = IF rest[h] = 1 THEN "sign" ELSE "send"
                         /\ e = AfterSent(ep[h], 2)
                         /\ f = Frame(ep[h], "chunk", rest[h], cipher[h])
  OBVIOUS
<1>5. /\ inbox' = Moved(h, 0, <<f>>) /\ Proceed(h, e, where)
      /\ rest' = [rest EXCEPT ![h] = @ - 1]
      /\ UNCHANGED <<torn, op, size, cipher, logs, seals, refused, reason>>
  BY <1>4 DEF SendChunk
<1>6. /\ e \in EndpointSet /\ e.key = 1 /\ e.iv.base = 1 /\ e.iv = ep[h].iv
      /\ e.remote = ep[h].remote /\ e.local = (ep[h].local + 2) % NonceMod
      /\ e.local \in 0..(NonceMod - 1)
  BY <1>2, <1>4, Sender, AfterSending
<1>7. /\ f.kind = "chunk" /\ f.body = rest[h] /\ f.seal = cipher[h]
      /\ f.mac = [key |-> 1, nonce |-> ep[h].local]
  BY <1>2, <1>4, Sender DEF Frame, Mac
<1>8. where \in PcSet(h) /\ where \notin Ended /\ Goes(h, e, where)
  BY <1>2, <1>4, <1>5, <1>6, Sender DEF PcSet, Sending, Ended, Goes
<1>9. pc'[h] = where /\ pc'[g] = pc[g] /\ ep'[g] = ep[g] /\ ep'[h] = e
  BY <1>1, <1>6, <1>8, GoesFacts
<1>10. rest[h] \in 1..size[h] /\ rest'[h] = rest[h] - 1 /\ rest'[g] = rest[g] /\ FileData'
  <2>1. rest[h] # 0
    BY <1>2, <1>3 DEF At, Sound, Doing
  <2> QED BY <1>1, <1>2, <1>5, <2>1, Sender, SessionBounds, DataHolds DEF FileData
<1>11. History /\ LogData' /\ SealData' /\ asked' = asked /\ seals' = seals
  BY <1>5, HistoryKept, DataKept DEF logs
<1>12. PathsInv'
  <2>1. PICK w : w = [pc |-> where, count |-> v.count, remote |-> v.remote, op |-> v.op,
                      size |-> v.size, rest |-> v.rest - 1, cipher |-> v.cipher, n |-> v.n]
    OBVIOUS
  <2>2. At(h, w)'
    BY <1>3, <1>5, <1>6, <1>9, <1>10, <2>1 DEF At, Log, logs
  <2>3. Sound(h, w)'
    <3>1. v.pc = "send" /\ v.rest = rest[h] /\ v.size = size[h]
      BY <1>2, <1>3 DEF At
    <3>2. Doing(h, w)
      BY <1>3, <1>4, <1>10, <2>1, <3>1 DEF Sound, Doing, Sending, Receives
    <3>3. Counted(h, w)'
      BY <1>3, <1>4, <1>11, <2>1, <3>1 DEF Sound, Counted
    <3>4. /\ w.count = v.count /\ w.remote = v.remote /\ w.n = v.n /\ w.size = v.size
          /\ w.rest = v.rest - 1 /\ w.pc \in {"sign", "send"} /\ v.rest \in 1..v.size
      BY <1>3, <1>4, <1>10, <2>1, <3>1
    <3>5. Numbers(w) /\ (w.pc \in Fresh(h) => Past(v))
      BY <1>3, <3>1, <3>4 DEF Numbers, Sound, Fresh, Sending
    <3> QED BY <1>3, <1>11, <3>2, <3>3, <3>4, <3>5, SoundNext, DataHolds
  <2>4. UNCHANGED Own(g)
    BY <1>1, <1>5, <1>9, <1>10 DEF Own, Log, logs
  <2>5. ASSUME NEW b, Sound(g, b), Met(h, v, b)
        PROVE  \E c : /\ Takes(g, f, b, c) /\ Told(f, b, Log(h)') /\ Sound(g, c)'
                      /\ Met(h, w, c)'
    <3>1. PICK c : c = [pc |-> IF b.rest = 1 THEN "signature" ELSE "chunk",
                        count |-> b.count, remote |-> (b.remote + 2) % NonceMod, op |-> b.op,
                        size |-> b.size, rest |-> b.rest - 1, cipher |-> b.cipher, n |-> b.n]
      OBVIOUS
    <3>2. /\ b.pc = "chunk" /\ OneFile(v, b) /\ v.count = b.count /\ v.n = b.n
          /\ b.remote = ep[h].local /\ v.remote = ep[g].local /\ v.pc = "send"
      BY <1>1, <1>2, <1>3, <2>5, SenderMet DEF At
    <3>3. Takes(g, f, b, c)
      BY <1>3, <1>7, <3>1, <3>2 DEF Takes, TakesChunk, Macs, OneFile, At
    <3>4. Told(f, b, Log(h)')
      BY <3>2 DEF Told
    <3>5. Sound(g, c)'
      <4>1. b.rest \in 1..b.size
        BY <2>5, <3>2 DEF Sound, Doing, Numbers
      <4>2. Doing(g, c)
        BY <2>5, <3>1, <3>2, <4>1 DEF Sound, Doing, Sending, Receives
      <4>3. Counted(g, c)'
        BY <1>11, <2>5, <3>1, <3>2 DEF Sound, Counted
      <4>4. c.remote \in 0..(NonceMod - 1)
        BY <1>6, <3>1, <3>2
      <4>5. /\ c.count = b.count /\ c.n = b.n /\ c.size = b.size
            /\ c.rest = b.rest - 1 /\ c.pc \in {"signature", "chunk"}
        BY <3>1
      <4>6. Numbers(c) /\ (c.pc \in Fresh(g) => Past(b))
        BY <1>1, <2>5, <3>2, <4>1, <4>4, <4>5 DEF Numbers, Sound, Fresh, Host
      <4> QED BY <1>1, <1>11, <2>5, <4>2, <4>3, <4>5, <4>6, SoundNext, DataHolds
    <3>6. Met(h, w, c)'
      BY <1>1, <1>3, <1>4, <1>6, <1>9, <2>1, <3>1, <3>2, MeetAgain DEF OneFile, At
    <3> QED BY <3>3, <3>4, <3>5, <3>6
  <2> QED BY <1>1, <1>2, <1>3, <1>5, <1>9, <1>11, <2>2, <2>3, <2>4, <2>5, Sender, SaysPaths
<1>13. InboxData'
  BY <1>2, <1>5, Sender, OneFrame DEF InboxData
<1> QED BY <1>5, <1>6, <1>8, <1>10, <1>11, <1>12, <1>13, Whole, DataHolds

\* The signature is sent, and the sender's command ends.
LEMMA SendSignStep ==
  ASSUME IInv, NEW h \in Host, SendSign(h)
  PROVE  IInv'
<1>1. PICK g : g = Peer(h) /\ g \in Host /\ g # h /\ Host = {g, h}
  BY DEF Peer, Host
<1>2. pc[h] = "sign" /\ pc[h] \in Sending
  BY DEF SendSign, Sending
<1>3. PICK v : At(h, v) /\ Sound(h, v)
  BY <1>2, Sender
<1>4. PICK e, f : /\ e = AfterSent(ep[h], 2)
                  /\ f = Frame(ep[h], "sign", size[h], NoSeal)
  OBVIOUS
<1>5. /\ inbox' = Moved(h, 0, <<f>>) /\ Proceed(h, e, Home(h))
      /\ Result(h, op[h], File(size[h]))
      /\ UNCHANGED <<asked, torn, op, size, rest, cipher, seals, refused, reason>>
  BY <1>4, Returns DEF SendSign, transfer
<1>6. /\ e \in EndpointSet /\ e.key = 1 /\ e.iv.base = 1 /\ e.iv = ep[h].iv
      /\ e.remote = ep[h].remote /\ e.local = (ep[h].local + 2) % NonceMod
      /\ e.local \in 0..(NonceMod - 1)
  BY <1>2, <1>4, Sender, AfterSending
<1>7. /\ f.kind = "sign" /\ f.seal = NoSeal /\ f.mac = [key |-> 1, nonce |-> ep[h].local]
  BY <1>2, <1>4, Sender DEF Frame, Mac
<1>8. Home(h) \in PcSet(h) /\ Home(h) \notin Ended /\ Goes(h, e, Home(h))
  BY <1>2, <1>5, <1>6, Sender, HomeFacts DEF Goes
<1>9. pc'[h] = Home(h) /\ pc'[g] = pc[g] /\ ep'[g] = ep[g] /\ ep'[h] = e
  BY <1>1, <1>6, <1>8, GoesFacts
<1>10. /\ History /\ LogData' /\ Len(Log(h)) \in Nat /\ UNCHANGED Log(g)
       /\ Len(Log(h)') = Len(Log(h)) + 1
       /\ \A n : n = Len(Log(h)) => Entry(Log(h)', n + 1, op[h], File(size[h]))
  BY <1>1, <1>5, Recorded
<1>11. FileData' /\ SealData' /\ asked' = asked /\ seals' = seals
  BY <1>5, DataKept
<1>12. PathsInv'
  <2>1. PICK w : w = [pc |-> Home(h), count |-> v.count, remote |-> v.remote, op |-> v.op,
                      size |-> v.size, rest |-> v.rest, cipher |-> v.cipher, n |-> v.n + 1]
    OBVIOUS
  <2>2. At(h, w)'
    BY <1>3, <1>5, <1>6, <1>9, <1>10, <2>1 DEF At
  <2>3. Sound(h, w)'
    <3>1. v.pc = "sign" /\ w.remote \in 0..(NonceMod - 1) /\ (h = "client" => Past(v))
      BY <1>2, <1>3, <2>1 DEF At, Sound, Numbers, Fresh, Sending
    <3> QED BY <1>3, <1>5, <2>1, <3>1, SoundHome
  <2>4. UNCHANGED Own(g)
    BY <1>1, <1>5, <1>9, <1>10 DEF Own
  <2>5. ASSUME NEW b, Sound(g, b), Met(h, v, b)
        PROVE  \E c : /\ Takes(g, f, b, c) /\ Told(f, b, Log(h)') /\ Sound(g, c)'
                      /\ Met(h, w, c)'
    <3>1. PICK c : c = [pc |-> Home(g), count |-> b.count, op |-> b.op,
                        remote |-> (b.remote + 2) % NonceMod,
                        size |-> b.size, rest |-> b.rest, cipher |-> b.cipher, n |-> b.n + 1]
      OBVIOUS
    <3>2. /\ b.pc = "signature" /\ OneFile(v, b) /\ v.count = b.count /\ v.n = b.n
          /\ b.remote = ep[h].local /\ v.remote = ep[g].local /\ v.pc = "sign"
      BY <1>1, <1>2, <1>3, <2>5, SenderMet DEF At
    <3>3. Takes(g, f, b, c)
      BY <1>7, <3>1, <3>2 DEF Takes, TakesSign, SameFile, Macs
    <3>4. Told(f, b, Log(h)')
      <4>1. b.op = op[h] /\ b.size = size[h] /\ b.n = Len(Log(h))
        BY <1>1, <1>2, <1>3, <2>5, <3>2
           DEF At, Sound, Doing, Sending, Receives, OneFile, Peer, Host
      <4> QED BY <1>10, <3>2, <4>1 DEF Told
    <3>5. Sound(g, c)'
      <4>1. c.remote \in 0..(NonceMod - 1) /\ (g = "client" => Past(b))
        BY <1>6, <2>5, <3>1, <3>2 DEF Sound, Fresh
      <4> QED BY <1>1, <1>5, <2>5, <3>1, <3>2, <4>1, SoundHome
    <3>6. Met(h, w, c)'
      BY <1>1, <1>3, <1>6, <1>9, <2>1, <3>1, <3>2, MeetAgain DEF At
    <3> QED BY <3>3, <3>4, <3>5, <3>6
  <2> QED BY <1>1, <1>2, <1>3, <1>5, <1>9, <1>10, <2>2, <2>3, <2>4, <2>5, Sender, SaysPaths
<1>13. InboxData'
  BY <1>2, <1>5, Sender, OneFrame DEF InboxData
<1> QED BY <1>5, <1>6, <1>8, <1>10, <1>11, <1>12, <1>13, Whole, DataHolds

\* A name with a '/' is answered with the size 0 and the end of the session.
LEMMA RefuseNameStep ==
  ASSUME IInv, NEW h \in Host, RefuseName(h)
  PROVE  IInv'
<1>1. PICK g : g = Peer(h) /\ g \in Host /\ g # h /\ Host = {g, h}
  BY DEF Peer, Host
<1>2. pc[h] = "refuse" /\ pc[h] \in Sending
  BY DEF RefuseName, Sending
<1>3. PICK v : At(h, v) /\ Sound(h, v)
  BY <1>2, Sender
<1>4. PICK e, f : e = AfterSent(ep[h], 1) /\ f = Frame(ep[h], "size", 0, NoSeal)
  OBVIOUS
<1>5. /\ inbox' = Moved(h, 0, <<f>>) /\ Leave(h, e, "gone") /\ Result(h, op[h], File(0))
      /\ UNCHANGED <<asked, torn, op, size, rest, cipher, seals, refused, reason>>
  BY <1>4 DEF RefuseName, Return, transfer
<1>6. e \in EndpointSet /\ ep[h] \in EndpointSet
  BY <1>2, <1>4, Sender, AfterSending
<1>7. /\ f.kind = "size" /\ f.body = 0 /\ f.seal = NoSeal
      /\ f.mac = [key |-> 1, nonce |-> ep[h].local]
  BY <1>2, <1>4, Sender DEF Frame, Mac
<1>8. "gone" \in PcSet(h) /\ "gone" \in Ended /\ Goes(h, e, "gone")
  BY <1>5 DEF PcSet, Ended, Goes
<1>9. pc'[h] = "gone" /\ pc'[g] = pc[g] /\ ep'[g] = ep[g] /\ ~Alive(h)'
  BY <1>1, <1>6, <1>8, GoesFacts DEF Alive
<1>10. /\ History /\ LogData' /\ UNCHANGED Log(g)
       /\ \A n : n = Len(Log(h)) => Entry(Log(h)', n + 1, op[h], File(0))
  BY <1>1, <1>5, Recorded
<1>11. FileData' /\ SealData' /\ asked' = asked /\ seals' = seals
  BY <1>5, DataKept
<1>12. PathsInv'
  <2>1. UNCHANGED Own(g)
    BY <1>1, <1>5, <1>9, <1>10 DEF Own
  <2>2. ASSUME NEW b, Sound(g, b), Met(h, v, b)
        PROVE  \E c : Takes(g, f, b, c) /\ Told(f, b, Log(h)') /\ Sound(g, c)'
    <3>1. v.pc \in {"announce", "refuse"}
      BY <1>2, <1>3 DEF At
    <3> QED BY <1>1, <1>3, <1>6, <1>7, <1>10, <1>11, <2>2, <3>1, ZeroTaken
  <2> QED BY <1>1, <1>2, <1>3, <1>5, <1>9, <1>10, <1>11, <2>1, <2>2, Sender, SaysPaths
<1>13. InboxData'
  BY <1>2, <1>5, Sender, OneFrame DEF InboxData
<1>14. reason # "none"
  BY <1>2, <1>3 DEF At, Sound
<1> QED BY <1>5, <1>6, <1>8, <1>10, <1>11, <1>12, <1>13, <1>14, Whole, DataHolds

\* Encryptions of which none has the count n or a later one.
Below(s, n) == /\ s \in Seq(SealSet) /\ \A j \in 1..Len(s) : s[j].iv.count < n
               /\ \A i, j \in 1..Len(s) : s[i] = s[j] => i = j

\* One more encryption.
LEMMA OneMore ==
  ASSUME NEW s, NEW n \in Nat, Below(s, n), NEW t, t = Append(s, SealOf(n))
  PROVE  Below(t, n + 1)
<1>1. PICK x : x = SealOf(n)
  OBVIOUS
<1>2. x \in SealSet /\ x.iv.count = n
  BY <1>1 DEF SealSet, SealOf
<1>3. /\ t \in Seq(SealSet) /\ Len(t) = Len(s) + 1 /\ Len(s) \in Nat /\ t[Len(s) + 1] = x
      /\ \A i \in 1..Len(s) : t[i] = s[i]
  BY <1>1, <1>2 DEF Below
<1>4. \A i \in 1..Len(s) : s[i].iv.count \in Nat /\ s[i].iv.count < n
  <2> TAKE i \in 1..Len(s)
  <2>1. s[i] \in SealSet
    BY DEF Below
  <2> QED BY <2>1 DEF Below, SealSet
<1>5. PICK m \in Nat : m = Len(s)
  BY <1>3
<1>6. /\ 1..Len(t) = 1..(m + 1) /\ t[m + 1] = x
      /\ \A i \in 1..m : t[i] = s[i] /\ t[i].iv.count \in Nat /\ t[i].iv.count < n
  BY <1>3, <1>4, <1>5
<1>7. \A i \in 1..Len(t) : i = m + 1 \/ i \in 1..m
  BY <1>6
<1>8. \A i \in 1..Len(t) : t[i].iv.count < n + 1
  BY <1>2, <1>6, <1>7
<1>9. \A i \in 1..m : t[i] # x
  BY <1>2, <1>6
<1>10. \A i, j \in 1..Len(t) : t[i] = t[j] => i = j
  BY <1>5, <1>6, <1>7, <1>9 DEF Below
<1> QED BY <1>3, <1>8, <1>10 DEF Below

\* Both ways to say that a count is past all encryptions.
LEMMA BelowPast == \A v : SealData /\ Past(v) <=> Below(seals, v.count)
BY DEF SealData, Past, Below, FreshIVs

\* The state of a host where something has been encrypted.
LEMMA SoundSealed ==
  ASSUME NEW h \in Host, NEW w, Numbers(w), Doing(h, w), Counted(h, w)',
         w.pc \in {"gone", "refuse"} => reason' # "none", Below(seals', w.count)
  PROVE  Sound(h, w)'
<1>1. Past(w)'
  BY DEF Below, Past
<1>2. Numbers(w)' /\ Doing(h, w)'
  BY DEF Numbers, Doing
<1> QED BY <1>1, <1>2 DEF Sound

\* A size is sent: 0 ends the command, and another constructs the cipher of the
\* file, which is the first on the sender's path since the client's command.
LEMMA AnnounceStep ==
  ASSUME IInv, NEW h \in Host, Announce(h)
  PROVE  IInv'
<1>1. PICK g : g = Peer(h) /\ g \in Host /\ g # h /\ Host = {g, h}
  BY DEF Peer, Host
<1>2. pc[h] = "announce" /\ pc[h] \in Sending
  BY DEF Announce, Sending
<1>3. PICK v : At(h, v) /\ Sound(h, v)
  BY <1>2, Sender
<1>4. v.pc = "announce" /\ Past(v) /\ v.count \in Nat
  BY <1>2, <1>3 DEF At, Sound, Fresh, Sending, Numbers
<1>5. PICK e : e = AfterSent(ep[h], 1)
  OBVIOUS
<1>6. /\ e \in EndpointSet /\ e.key = 1 /\ e.iv.base = 1 /\ e.iv = ep[h].iv
      /\ e.remote = ep[h].remote /\ e.local = (ep[h].local + 1) % NonceMod
      /\ e.local \in 0..(NonceMod - 1) /\ ep[h] \in EndpointSet
  BY <1>2, <1>5, Sender, AfterSending
<1>7. PICK n \in 0..MaxChunks :
        /\ inbox' = Moved(h, 0, <<Frame(ep[h], "size", n, NoSeal)>>)
        /\ \/ /\ n = 0
              /\ Result(h, op[h], File(0)) /\ Return(h, e, TRUE)
              /\ UNCHANGED <<asked, transfer, seals>>
           \/ /\ n # 0
              /\ Proceed(h, NewCipher(e), "send")
              /\ size' = [size EXCEPT ![h] = n]
              /\ rest' = [rest EXCEPT ![h] = n]
              /\ cipher' = [cipher EXCEPT ![h] = Seal(e)]
              /\ seals' = Append(seals, Seal(e))
              /\ UNCHANGED <<op, logs>>
  BY <1>5 DEF Announce
<1>8. PICK f : f = Frame(ep[h], "size", n, NoSeal)
  OBVIOUS
<1>9. /\ f.kind = "size" /\ f.body = n /\ f.seal = NoSeal
      /\ f.mac = [key |-> 1, nonce |-> ep[h].local]
  BY <1>2, <1>8, Sender DEF Frame, Mac
<1>10. /\ inbox' = Moved(h, 0, <<f>>) /\ UNCHANGED <<torn, refused, reason>>
  BY <1>7, <1>8 DEF Announce
<1>11. InboxData'
  BY <1>2, <1>10, Sender, OneFrame DEF InboxData
<1>12. CASE n = 0
  <2>1. /\ Result(h, op[h], File(0)) /\ Proceed(h, e, Home(h))
        /\ UNCHANGED <<asked, op, size, rest, cipher, seals>>
    BY <1>7, <1>12, Returns DEF transfer
  <2>2. Home(h) \in PcSet(h) /\ Home(h) \notin Ended /\ Goes(h, e, Home(h))
    BY <1>2, <1>6, <2>1, Sender, HomeFacts DEF Goes
  <2>3. pc'[h] = Home(h) /\ pc'[g] = pc[g] /\ ep'[g] = ep[g] /\ ep'[h] = e
    BY <1>1, <1>6, <2>2, GoesFacts
  <2>4. /\ History /\ LogData' /\ Len(Log(h)) \in Nat /\ UNCHANGED Log(g)
        /\ Len(Log(h)') = Len(Log(h)) + 1
        /\ \A m : m = Len(Log(h)) => Entry(Log(h)', m + 1, op[h], File(0))
    BY <1>1, <1>10, <2>1, Recorded
  <2>5. FileData' /\ SealData' /\ asked' = asked /\ seals' = seals
    BY <1>10, <2>1, DataKept
  <2>6. PathsInv'
    <3>1. PICK w : w = [pc |-> Home(h), count |-> v.count, remote |-> v.remote, op |-> v.op,
                        size |-> v.size, rest |-> v.rest, cipher |-> v.cipher, n |-> v.n + 1]
      OBVIOUS
    <3>2. At(h, w)'
      BY <1>3, <1>6, <2>1, <2>3, <2>4, <3>1 DEF At
    <3>3. Sound(h, w)'
      <4>1. w.remote \in 0..(NonceMod - 1)
        BY <1>3, <3>1 DEF Sound, Numbers
      <4> QED BY <1>3, <1>4, <2>1, <3>1, <4>1, SoundHome
    <3>4. UNCHANGED Own(g)
      BY <1>1, <2>1, <2>3, <2>4 DEF Own
    <3>5. ASSUME NEW b, Sound(g, b), Met(h, v, b)
          PROVE  \E c : /\ Takes(g, f, b, c) /\ Told(f, b, Log(h)') /\ Sound(g, c)'
                        /\ Met(h, w, c)'
      <4>1. PICK c : /\ Takes(g, f, b, c) /\ Told(f, b, Log(h)') /\ Sound(g, c)'
                     /\ c.pc = Home(g) /\ c.count = b.count /\ c.n = b.n + 1
                     /\ c.remote = (ep[h].local + 1) % NonceMod /\ v.remote = ep[g].local
        BY <1>1, <1>3, <1>4, <1>6, <1>9, <1>12, <2>4, <2>5, <3>5, ZeroTaken
      <4>2. v.count = b.count /\ v.n = b.n
        BY <1>1, <3>5, SenderMet
      <4>3. Met(h, w, c)'
        BY <1>1, <1>6, <2>3, <3>1, <4>1, <4>2, MeetAgain
      <4> QED BY <4>1, <4>3
    <3> QED BY <1>1, <1>2, <1>3, <1>10, <2>3, <2>4, <2>5, <3>2, <3>3, <3>4, <3>5, Sender,
               SaysPaths
  <2> QED BY <1>6, <1>10, <1>11, <2>2, <2>4, <2>5, <2>6, Whole, DataHolds
<1>13. CASE n # 0
  <2>1. PICK d, x : d = NewCipher(e) /\ x = Seal(e)
    OBVIOUS
  <2>2. /\ Proceed(h, d, "send") /\ size' = [size EXCEPT ![h] = n]
        /\ rest' = [rest EXCEPT ![h] = n] /\ cipher' = [cipher EXCEPT ![h] = x]
        /\ seals' = Append(seals, x) /\ UNCHANGED <<op, asked, done, answered>>
    BY <1>7, <1>13, <2>1 DEF logs
  <2>3. /\ d \in EndpointSet /\ d.key = 1 /\ d.iv.base = 1 /\ d.local = e.local
        /\ d.remote = e.remote /\ d.iv.count = v.count + 1
        /\ x \in SealSet /\ x = SealOf(v.count)
    <3>1. e.iv.count = v.count
      BY <1>3, <1>6 DEF At
    <3> QED BY <1>6, <2>1, <3>1, NextCipher, SealFacts
  <2>4. "send" \in PcSet(h) /\ "send" \notin Ended /\ Goes(h, d, "send")
    BY <1>2, <2>2, <2>3, Sender DEF PcSet, Sending, Ended, Goes
  <2>5. pc'[h] = "send" /\ pc'[g] = pc[g] /\ ep'[g] = ep[g] /\ ep'[h] = d
    BY <1>1, <2>3, <2>4, GoesFacts
  <2>6. /\ n \in 1..MaxChunks /\ FileData'
        /\ size'[h] = n /\ rest'[h] = n /\ cipher'[h] = x /\ op'[h] = op[h]
        /\ size'[g] = size[g] /\ rest'[g] = rest[g] /\ cipher'[g] = cipher[g]
    BY <1>1, <1>10, <1>13, <2>2, <2>3, SessionBounds, DataHolds DEF FileData
  <2>7. History /\ LogData' /\ asked' = asked /\ UNCHANGED <<Log(h), Log(g)>>
    BY <1>10, <2>2, HistoryKept, DataKept DEF Log
  <2>8. Below(seals', v.count + 1) /\ SealData'
    <3>1. Below(seals', v.count + 1)
      BY <1>4, <2>2, <2>3, DataHolds, BelowPast, OneMore
    <3> QED BY <3>1 DEF Below, SealData, FreshIVs
  <2>9. PathsInv'
    <3>1. PICK w : w = [pc |-> "send", count |-> v.count + 1, remote |-> v.remote, op |-> v.op,
                        size |-> n, rest |-> n, cipher |-> x, n |-> v.n]
      OBVIOUS
    <3>2. At(h, w)'
      BY <1>3, <1>6, <2>3, <2>5, <2>6, <2>7, <3>1 DEF At
    <3>3. Sound(h, w)'
      <4>1. Numbers(w)
        BY <1>3, <2>6, <3>1 DEF Sound, Numbers
      <4>2. Doing(h, w)
        BY <1>3, <1>4, <2>6, <3>1 DEF Sound, Doing, Sending, Receives
      <4>3. Counted(h, w)'
        BY <1>3, <1>4, <2>7, <3>1 DEF Sound, Counted
      <4> QED BY <2>8, <3>1, <4>1, <4>2, <4>3, SoundSealed
    <3>4. UNCHANGED Own(g)
      BY <1>1, <2>2, <2>5, <2>6, <2>7 DEF Own
    <3>5. ASSUME NEW b, Sound(g, b), Met(h, v, b)
          PROVE  /\ b.pc \notin Fresh(g)
                 /\ \E c : /\ Takes(g, f, b, c) /\ Told(f, b, Log(h)') /\ Sound(g, c)'
                           /\ Met(h, w, c)'
      <4>1. PICK c : c = [pc |-> "chunk", count |-> b.count + 1, op |-> b.op,
                          remote |-> (b.remote + 1) % NonceMod,
                          size |-> n, rest |-> n, cipher |-> SealOf(b.count), n |-> b.n]
        OBVIOUS
      <4>2. /\ b.pc = "size" /\ v.count = b.count /\ v.n = b.n
            /\ b.remote = ep[h].local /\ v.remote = ep[g].local
        BY <1>1, <1>4, <3>5, SenderMet
      <4>3. Takes(g, f, b, c)
        BY <1>9, <1>13, <4>1, <4>2 DEF Takes, TakesSize, Macs
      <4>4. Told(f, b, Log(h)')
        BY <1>9, <1>13, <4>2 DEF Told
      <4>5. Sound(g, c)'
        <5>1. Numbers(c)
          BY <1>6, <2>6, <3>5, <4>1, <4>2 DEF Sound, Numbers
        <5>2. Doing(g, c)
          BY <2>6, <3>5, <4>1, <4>2 DEF Sound, Doing, Sending, Receives
        <5>3. Counted(g, c)'
          BY <2>7, <3>5, <4>1, <4>2 DEF Sound, Counted
        <5> QED BY <1>1, <2>8, <4>1, <4>2, <5>1, <5>2, <5>3, SoundSealed
      <4>6. Met(h, w, c)'
        BY <1>1, <1>6, <2>3, <2>5, <3>1, <4>1, <4>2, MeetAgain DEF OneFile
      <4>7. b.pc \notin Fresh(g)
        BY <4>2 DEF Fresh, Sending
      <4> QED BY <4>3, <4>4, <4>5, <4>6, <4>7
    <3> QED BY <1>1, <1>2, <1>3, <1>10, <2>5, <2>7, <3>2, <3>3, <3>4, <3>5, Sender, SaysPaths
  <2> QED BY <1>10, <1>11, <2>3, <2>4, <2>6, <2>7, <2>8, <2>9, Whole, DataHolds
<1> QED BY <1>12, <1>13

-----------------------------------------------------------------------------
(* The client's commands                                                   *)

\* The endpoint of h after a frame with a cipher of its own, and the frame.
LEMMA AfterEncrypting ==
  ASSUME NEW d \in EndpointSet, d.key = 1, d.iv.base = 1, NEW e, e = AfterEncrypted(d),
         NEW kind, NEW body, NEW f, f = Encrypted(d, kind, body)
  PROVE  /\ e \in EndpointSet /\ e.key = 1 /\ e.iv.base = 1 /\ e.iv.count = d.iv.count + 1
         /\ e.remote = d.remote /\ e.local = (d.local + 2) % NonceMod
         /\ e.local \in 0..(NonceMod - 1) /\ d.iv.count \in Nat
         /\ f.kind = kind /\ f.body = body /\ f.seal = SealOf(d.iv.count)
         /\ f.mac = [key |-> 1, nonce |-> d.local] /\ Seal(d) = SealOf(d.iv.count)
<1>1. PICK c : c = NewCipher(d)
  OBVIOUS
<1>2. /\ c \in EndpointSet /\ c.key = 1 /\ c.iv.base = 1 /\ c.iv.count = d.iv.count + 1
      /\ c.local = d.local /\ c.remote = d.remote
  BY <1>1, NextCipher
<1>3. /\ e \in EndpointSet /\ e.key = 1 /\ e.iv = c.iv /\ e.remote = d.remote
      /\ e.local = (c.local + 2) % NonceMod
  BY <1>1, <1>2, Sends DEF AfterEncrypted
<1>4. e.local \in 0..(NonceMod - 1) /\ d.iv.count \in Nat
  BY <1>3 DEF EndpointSet
<1>5. Seal(d) = SealOf(d.iv.count)
  BY SealFacts
<1>6. f.kind = kind /\ f.body = body /\ f.seal = Seal(d) /\ f.mac = Mac(d)
  BY DEF Encrypted, Frame
<1> QED BY <1>2, <1>3, <1>4, <1>5, <1>6 DEF Mac

\* What a command adds to the log of the client.
LEMMA Asked ==
  ASSUME IInv, NEW o, asked' = Append(asked, o), UNCHANGED <<done, answered>>,
         reason # "none" => reason' # "none"
  PROVE  /\ History /\ LogData' /\ Len(asked) \in Nat /\ Len(asked') = Len(asked) + 1
         /\ \A m : m = Len(asked) => asked'[m + 1] = o
<1>1. LogData
  BY DataHolds
<1>2. /\ IsSeq(asked') /\ Grown(asked, asked')
      /\ Len(asked) \in Nat /\ Len(asked') = Len(asked) + 1
      /\ \A m : m = Len(asked) => asked'[m + 1] = o
  BY <1>1, AppendSeq DEF LogData, Grown
<1>3. Grown(done, done') /\ Grown(answered, answered')
  BY <1>1, GrownSelf DEF LogData
<1> QED BY <1>1, <1>2, <1>3 DEF History, LogData

\* A command that goes out alone.
LEMMA AskOneStep ==
  ASSUME IInv, NEW o \in {"list", "get"}, NEW where,
         where = IF o = "list" THEN "list" ELSE "typing", AtPrompt(o),
         inbox' = Moved("client", 0, <<Encrypted(ep["client"], "command", o)>>),
         Proceed("client", AfterEncrypted(ep["client"]), where),
         seals' = Append(seals, Seal(ep["client"])), Unasked, UNCHANGED reason
  PROVE  IInv'
<1>1. PICK h, g : /\ h = "client" /\ g = "server" /\ h \in Host /\ g \in Host /\ g = Peer(h)
                  /\ Host = {h, g} /\ h # g
  BY DEF Host, Peer
<1>2. pc[h] = "prompt" /\ pc[h] \in Sending \cup {"prompt", "typing"}
  BY <1>1 DEF AtPrompt
<1>3. PICK v : At(h, v) /\ Sound(h, v)
  BY <1>1, <1>2, Sender
<1>4. /\ v.pc = "prompt" /\ Past(v) /\ Numbers(v) /\ v.n = Len(asked)
      /\ v.count = ep[h].iv.count
  BY <1>1, <1>2, <1>3 DEF At, Sound, Fresh, Counted
<1>5. PICK e, f : e = AfterEncrypted(ep[h]) /\ f = Encrypted(ep[h], "command", o)
  OBVIOUS
<1>6. /\ e \in EndpointSet /\ e.key = 1 /\ e.iv.base = 1 /\ e.iv.count = v.count + 1
      /\ e.remote = ep[h].remote /\ e.local = (ep[h].local + 2) % NonceMod
      /\ e.local \in 0..(NonceMod - 1)
      /\ f.kind = "command" /\ f.body = o /\ f.seal = SealOf(v.count)
      /\ f.mac = [key |-> 1, nonce |-> ep[h].local] /\ Seal(ep[h]) = SealOf(v.count)
  BY <1>1, <1>2, <1>4, <1>5, Sender, AfterEncrypting
<1>7. /\ inbox' = Moved(h, 0, <<f>>) /\ Proceed(h, e, where)
      /\ seals' = Append(seals, SealOf(v.count))
      /\ asked' = Append(asked, o) /\ op' = [op EXCEPT ![h] = o]
      /\ UNCHANGED <<torn, size, rest, cipher, done, answered, refused, reason>>
  BY <1>1, <1>5, <1>6 DEF AtPrompt, Unasked
<1>8. where \in PcSet(h) /\ where \notin Ended /\ Goes(h, e, where)
  BY <1>1, <1>2, <1>6, <1>7, Sender DEF PcSet, Sending, Ended, Goes
<1>9. pc'[h] = where /\ pc'[g] = pc[g] /\ ep'[g] = ep[g] /\ ep'[h] = e
  BY <1>1, <1>6, <1>8, GoesFacts
<1>10. FileData' /\ op'[h] = o /\ op'[g] = op[g]
  BY <1>1, <1>7, DataHolds DEF FileData, Ops
<1>11. /\ History /\ LogData' /\ UNCHANGED <<Log(h), Log(g)>>
       /\ Len(asked') = v.n + 1 /\ asked'[v.n + 1] = o
  BY <1>4, <1>7, Asked DEF Log
<1>12. Below(seals', v.count + 1) /\ SealData'
  <2>1. Below(seals', v.count + 1)
    BY <1>4, <1>7, DataHolds, BelowPast, OneMore DEF Numbers
  <2> QED BY <2>1 DEF Below, SealData, FreshIVs
<1>13. PathsInv'
  <2>1. PICK w : w = [pc |-> where, count |-> v.count + 1, remote |-> v.remote, op |-> o,
                      size |-> v.size, rest |-> v.rest, cipher |-> v.cipher, n |-> v.n]
    OBVIOUS
  <2>2. At(h, w)'
    BY <1>3, <1>6, <1>7, <1>9, <1>10, <1>11, <2>1 DEF At
  <2>3. Sound(h, w)'
    <3>1. Numbers(w)
      BY <1>4, <2>1 DEF Numbers
    <3>2. Doing(h, w)
      BY <1>1, <2>1 DEF Doing, Sending, Receives
    <3>3. Counted(h, w)'
      BY <1>1, <1>11, <2>1 DEF Counted
    <3>4. w.pc \notin {"gone", "refuse"}
      BY <2>1
    <3> QED BY <1>1, <1>12, <2>1, <3>1, <3>2, <3>3, <3>4, SoundSealed
  <2>4. UNCHANGED Own(g)
    BY <1>1, <1>7, <1>9, <1>10, <1>11 DEF Own
  <2>5. ASSUME NEW b, Sound(g, b), Met(h, v, b)
        PROVE  /\ b.pc \notin Fresh(g)
               /\ \E c : /\ Takes(g, f, b, c) /\ Told(f, b, Log(h)') /\ Sound(g, c)'
                         /\ Met(h, w, c)'
    <3>1. PICK c : c = [pc |-> IF o = "list" THEN "listing" ELSE "name",
                        count |-> b.count + 1, op |-> o,
                        remote |-> (b.remote + 2) % NonceMod, size |-> b.size,
                        rest |-> b.rest, cipher |-> b.cipher, n |-> b.n]
      OBVIOUS
    <3>2. /\ b.pc = "select" /\ v.count = b.count /\ v.n = b.n
          /\ b.remote = ep[h].local /\ v.remote = ep[g].local
      BY <1>1, <1>4, <2>5 DEF Met, Together
    <3>3. Takes(g, f, b, c)
      BY <1>6, <3>1, <3>2 DEF Takes, TakesCommand, Macs, SameFile, Ops
    <3>4. Told(f, b, Log(h)')
      BY <3>2 DEF Told
    <3>5. Sound(g, c)'
      <4>1. Numbers(c)
        BY <1>6, <2>5, <3>1, <3>2 DEF Sound, Numbers
      <4>2. Doing(g, c)
        BY <1>1, <3>1 DEF Doing, Sending, Receives
      <4>3. Counted(g, c)'
        BY <1>1, <1>4, <1>11, <3>1, <3>2 DEF Counted, Numbers
      <4>4. c.pc \notin {"gone", "refuse"}
        BY <3>1
      <4> QED BY <1>1, <1>12, <3>1, <3>2, <4>1, <4>2, <4>3, <4>4, SoundSealed
    <3>6. Met(h, w, c)'
      BY <1>1, <1>4, <1>6, <1>9, <2>1, <3>1, <3>2 DEF Met, Together
    <3>7. b.pc \notin Fresh(g)
      BY <1>1, <3>2 DEF Fresh
    <3> QED BY <3>3, <3>4, <3>5, <3>6, <3>7
  <2> QED BY <1>1, <1>2, <1>3, <1>7, <1>9, <1>11, <2>2, <2>3, <2>4, <2>5, Sender, SaysPaths
<1>14. InboxData'
  BY <1>1, <1>2, <1>7, Sender, OneFrame DEF InboxData
<1> QED BY <1>1, <1>6, <1>7, <1>8, <1>10, <1>11, <1>12, <1>13, <1>14, Whole, DataHolds

\* A list or a get is asked for.
LEMMA AskStep == IInv /\ (AskList \/ AskGet) => IInv'
<1>1. ASSUME IInv, AskList PROVE IInv'
  BY <1>1, AskOneStep DEF AskList
<1>2. ASSUME IInv, AskGet PROVE IInv'
  BY <1>2, AskOneStep DEF AskGet
<1> QED BY <1>1, <1>2

\* The names that reach the server.
Names == [len : 0..MaxName, slash : BOOLEAN]

\* A name as cin stores it.
LEMMA NameFacts ==
  ASSUME NEW typed \in Typed, NEW name, name = AsRead(typed)
  PROVE  /\ name \in Names
         /\ Servable(name) <=> ~TooLong(name) /\ name.len # 0 /\ ToSend(name) = "announce"
         /\ name.slash <=> ToSend(name) = "refuse"
         /\ ToSend(name) \in {"announce", "refuse"}
<1>1. name \in Names
  BY SessionBounds DEF Typed, AsRead, Names
<1> QED BY <1>1, SessionBounds DEF Names, Servable, TooLong, ToSend

\* The name of a get is sent, or an empty one ends the session.
LEMMA TypeNameStep == IInv /\ TypeName => IInv'
<1> SUFFICES ASSUME IInv, TypeName PROVE IInv'
  OBVIOUS
<1>1. PICK h, g : /\ h = "client" /\ g = "server" /\ h \in Host /\ g \in Host /\ g = Peer(h)
                  /\ Host = {h, g} /\ h # g
  BY DEF Host, Peer
<1>2. pc[h] = "typing" /\ pc[h] \in Sending \cup {"prompt", "typing"}
  BY <1>1 DEF TypeName
<1>3. PICK v : At(h, v) /\ Sound(h, v)
  BY <1>1, <1>2, Sender
<1>4. /\ v.pc = "typing" /\ Past(v) /\ Numbers(v) /\ v.n + 1 = Len(asked) /\ v.op = "get"
      /\ asked[v.n + 1] = "get" /\ v.count = ep[h].iv.count
  BY <1>1, <1>2, <1>3 DEF At, Sound, Fresh, Counted, Doing
<1>5. PICK typed, name :
        /\ typed \in Typed /\ name = AsRead(typed)
        /\ inbox' = Moved(h, 0, <<Encrypted(ep[h], "name", name)>>)
        /\ seals' = Append(seals, Seal(ep[h]))
        /\ \/ name.len = 0 /\ Return(h, AfterEncrypted(ep[h]), FALSE)
           \/ name.len # 0 /\ Proceed(h, AfterEncrypted(ep[h]), "size")
        /\ IF Servable(name) THEN UNCHANGED reason ELSE Because("name")
        /\ UNCHANGED <<torn, transfer, logs, refused>>
  BY <1>1 DEF TypeName
<1>6. PICK e, f, where : /\ e = AfterEncrypted(ep[h]) /\ f = Encrypted(ep[h], "name", name)
                         /\ where = IF name.len = 0 THEN "gone" ELSE "size"
  OBVIOUS
<1>7. /\ e \in EndpointSet /\ e.key = 1 /\ e.iv.base = 1 /\ e.iv.count = v.count + 1
      /\ e.remote = ep[h].remote /\ e.local = (ep[h].local + 2) % NonceMod
      /\ e.local \in 0..(NonceMod - 1)
      /\ f.kind = "name" /\ f.body = name /\ f.seal = SealOf(v.count)
      /\ f.mac = [key |-> 1, nonce |-> ep[h].local] /\ Seal(ep[h]) = SealOf(v.count)
  BY <1>1, <1>2, <1>4, <1>6, Sender, AfterEncrypting
<1>8. /\ inbox' = Moved(h, 0, <<f>>) /\ seals' = Append(seals, SealOf(v.count))
      /\ where \in Ended => Leave(h, e, where)
      /\ where \notin Ended => Proceed(h, e, where)
      /\ UNCHANGED <<torn, op, size, rest, cipher, asked, done, answered, refused>>
  BY <1>5, <1>6, <1>7 DEF Return, Ended, transfer, logs
<1>9. where \in PcSet(h) /\ Goes(h, e, where)
  BY <1>1, <1>2, <1>6, <1>7, <1>8, Sender DEF PcSet, Receives, Ended, Goes
<1>10. /\ pc'[h] = where /\ pc'[g] = pc[g] /\ ep'[g] = ep[g]
       /\ where \notin Ended => ep'[h] = e
  BY <1>1, <1>7, <1>9, GoesFacts
<1>11. /\ name \in Names /\ ToSend(name) \in {"announce", "refuse"}
       /\ Servable(name) <=> ~TooLong(name) /\ name.len # 0 /\ ToSend(name) = "announce"
  BY <1>5, NameFacts
<1>12. /\ reason' \in Reasons \cup {"none"}
       /\ reason # "none" => reason' # "none"
       /\ ~Servable(name) => reason' # "none"
  BY <1>5, DataHolds DEF Because, Reasons
<1>13. /\ History /\ LogData' /\ FileData' /\ asked' = asked /\ UNCHANGED <<Log(h), Log(g)>>
  BY <1>8, <1>12, HistoryKept, DataKept DEF Log
<1>14. Below(seals', v.count + 1) /\ SealData'
  <2>1. Below(seals', v.count + 1)
    BY <1>4, <1>8, DataHolds, BelowPast, OneMore DEF Numbers
  <2> QED BY <2>1 DEF Below, SealData, FreshIVs
<1>15. PathsInv'
  <2>1. PICK w : w = [pc |-> "size", count |-> v.count + 1, remote |-> v.remote,
                      op |-> v.op, size |-> v.size, rest |-> v.rest, cipher |-> v.cipher,
                      n |-> v.n]
    OBVIOUS
  <2>2. Alive(h)' => where = "size"
    BY <1>6, <1>10 DEF Alive, Ended
  <2>3. Alive(h)' => At(h, w)'
    <3> SUFFICES ASSUME Alive(h)' PROVE At(h, w)'
      OBVIOUS
    <3>1. where = "size" /\ ep'[h] = e
      BY <1>10, <2>2 DEF Ended
    <3> QED BY <1>3, <1>7, <1>8, <1>10, <1>13, <2>1, <3>1 DEF At
  <2>4. Sound(h, w)'
    <3>1. Numbers(w)
      BY <1>4, <2>1 DEF Numbers
    <3>2. Doing(h, w)
      BY <1>1, <1>4, <2>1 DEF Doing, Sending, Receives
    <3>3. Counted(h, w)'
      BY <1>1, <1>4, <1>13, <2>1 DEF Counted
    <3>4. w.pc \notin {"gone", "refuse"}
      BY <2>1
    <3> QED BY <1>1, <1>14, <2>1, <3>1, <3>2, <3>3, <3>4, SoundSealed
  <2>5. UNCHANGED Own(g)
    BY <1>1, <1>8, <1>10, <1>13 DEF Own
  <2>6. ASSUME NEW b, Sound(g, b), Met(h, v, b)
        PROVE  /\ b.pc \notin Fresh(g)
               /\ \E c : /\ Takes(g, f, b, c) /\ Told(f, b, Log(h)') /\ Sound(g, c)'
                         /\ Alive(h)' => Met(h, w, c)'
    <3>1. PICK c : c = [pc |-> IF TooLong(name) \/ name.len = 0 THEN "gone" ELSE ToSend(name),
                        count |-> b.count + 1, op |-> b.op,
                        remote |-> (b.remote + 2) % NonceMod, size |-> b.size,
                        rest |-> b.rest, cipher |-> b.cipher, n |-> b.n]
      OBVIOUS
    <3>2. /\ b.pc = "name" /\ b.op = "get" /\ v.count = b.count /\ v.n = b.n
          /\ b.remote = ep[h].local /\ v.remote = ep[g].local
      BY <1>1, <1>4, <2>6 DEF Met, Together
    <3>3. Takes(g, f, b, c)
      BY <1>7, <1>11, <3>1, <3>2 DEF Takes, TakesName, Macs, SameFile, Names
    <3>4. Told(f, b, Log(h)')
      BY <3>2 DEF Told
    <3>5. Sound(g, c)'
      <4>1. Numbers(c)
        BY <1>7, <2>6, <3>1, <3>2 DEF Sound, Numbers
      <4>2. Doing(g, c)
        BY <1>1, <1>11, <3>1, <3>2 DEF Doing, Sending, Receives
      <4>3. Counted(g, c)'
        BY <1>1, <1>4, <1>13, <3>1, <3>2 DEF Counted, Numbers
      <4>4. c.pc \in {"gone", "refuse"} => reason' # "none"
        BY <1>11, <1>12, <3>1
      <4> QED BY <1>1, <1>14, <3>1, <3>2, <4>1, <4>2, <4>3, <4>4, SoundSealed
    <3>6. Alive(h)' => Met(h, w, c)'
      <4> SUFFICES ASSUME Alive(h)' PROVE Met(h, w, c)'
        OBVIOUS
      <4>1. ep'[h] = e
        BY <1>10, <2>2 DEF Ended
      <4> QED BY <1>1, <1>4, <1>7, <1>10, <1>11, <2>1, <3>1, <3>2, <4>1 DEF Met, Together
    <3>7. b.pc \notin Fresh(g)
      BY <1>1, <3>2 DEF Fresh
    <3> QED BY <3>3, <3>4, <3>5, <3>6, <3>7
  <2> QED BY <1>1, <1>2, <1>3, <1>8, <1>10, <1>13, <2>3, <2>4, <2>5, <2>6, Sender, SaysPaths
<1>16. InboxData'
  BY <1>1, <1>2, <1>8, Sender, OneFrame DEF InboxData
<1>17. where \in Ended => reason' # "none"
  BY <1>6, <1>11, <1>12 DEF Ended
<1> QED BY <1>1, <1>7, <1>8, <1>9, <1>12, <1>13, <1>14, <1>15, <1>16, <1>17, Whole

\* Command and name in one go, and the first look of SendFile at the name.
LEMMA AskUploadStep == IInv /\ AskUpload => IInv'
<1> SUFFICES ASSUME IInv, AskUpload PROVE IInv'
  OBVIOUS
<1>1. PICK h, g : /\ h = "client" /\ g = "server" /\ h \in Host /\ g \in Host /\ g = Peer(h)
                  /\ Host = {h, g} /\ h # g
  BY DEF Host, Peer
<1>2. pc[h] = "prompt" /\ pc[h] \in Sending \cup {"prompt", "typing"}
  BY <1>1 DEF AskUpload, AtPrompt
<1>3. PICK v : At(h, v) /\ Sound(h, v)
  BY <1>1, <1>2, Sender
<1>4. /\ v.pc = "prompt" /\ Past(v) /\ Numbers(v) /\ v.n = Len(asked)
      /\ v.count = ep[h].iv.count
  BY <1>1, <1>2, <1>3 DEF At, Sound, Fresh, Counted
<1>5. PICK typed, name, d :
        /\ typed \in Typed /\ name = AsRead(typed) /\ d = AfterEncrypted(ep[h])
        /\ inbox' = Moved(h, 0, <<Encrypted(ep[h], "command", "upload"),
                                  Encrypted(d, "name", name)>>)
        /\ seals' = seals \o <<Seal(ep[h]), Seal(d)>>
        /\ Proceed(h, AfterEncrypted(d), ToSend(name))
        /\ IF name.slash THEN Because("name") ELSE UNCHANGED reason
  BY <1>1 DEF AskUpload
<1>6. PICK e, p, q, where : /\ e = AfterEncrypted(d) /\ p = Encrypted(ep[h], "command", "upload")
                            /\ q = Encrypted(d, "name", name) /\ where = ToSend(name)
  OBVIOUS
<1>7. /\ d \in EndpointSet /\ d.key = 1 /\ d.iv.base = 1 /\ d.iv.count = v.count + 1
      /\ d.remote = ep[h].remote /\ d.local = (ep[h].local + 2) % NonceMod
      /\ d.local \in 0..(NonceMod - 1)
      /\ p.kind = "command" /\ p.body = "upload" /\ p.seal = SealOf(v.count)
      /\ p.mac = [key |-> 1, nonce |-> ep[h].local] /\ Seal(ep[h]) = SealOf(v.count)
  BY <1>1, <1>2, <1>4, <1>5, <1>6, Sender, AfterEncrypting
<1>8. /\ e \in EndpointSet /\ e.key = 1 /\ e.iv.base = 1 /\ e.iv.count = (v.count + 1) + 1
      /\ e.remote = ep[h].remote /\ e.local = (d.local + 2) % NonceMod
      /\ e.local \in 0..(NonceMod - 1)
      /\ q.kind = "name" /\ q.body = name /\ q.seal = SealOf(v.count + 1)
      /\ q.mac = [key |-> 1, nonce |-> d.local] /\ Seal(d) = SealOf(v.count + 1)
  BY <1>6, <1>7, AfterEncrypting
<1>9. /\ inbox' = Moved(h, 0, <<p, q>>) /\ Proceed(h, e, where)
      /\ seals' = seals \o <<SealOf(v.count), SealOf(v.count + 1)>>
      /\ asked' = Append(asked, "upload") /\ op' = [op EXCEPT ![h] = "upload"]
      /\ UNCHANGED <<torn, size, rest, cipher, done, answered, refused>>
  BY <1>1, <1>5, <1>6, <1>7, <1>8 DEF AskUpload, AtPrompt, Unasked
<1>10. /\ name \in Names /\ where \in {"announce", "refuse"}
       /\ name.slash <=> where = "refuse"
  BY <1>5, <1>6, NameFacts
<1>11. where \in PcSet(h) /\ where \notin Ended /\ Goes(h, e, where)
  BY <1>1, <1>2, <1>8, <1>9, <1>10, Sender DEF PcSet, Sending, Ended, Goes
<1>12. pc'[h] = where /\ pc'[g] = pc[g] /\ ep'[g] = ep[g] /\ ep'[h] = e
  BY <1>1, <1>8, <1>11, GoesFacts
<1>13. FileData' /\ op'[h] = "upload" /\ op'[g] = op[g]
  BY <1>1, <1>9, DataHolds DEF FileData, Ops
<1>14. /\ reason' \in Reasons \cup {"none"}
       /\ reason # "none" => reason' # "none"
       /\ where = "refuse" => reason' # "none"
  BY <1>5, <1>10, DataHolds DEF Because, Reasons
<1>15. /\ History /\ LogData' /\ UNCHANGED <<Log(h), Log(g)>>
       /\ Len(asked') = v.n + 1 /\ asked'[v.n + 1] = "upload"
  BY <1>4, <1>9, <1>14, Asked DEF Log
<1>16. Below(seals', (v.count + 1) + 1) /\ SealData'
  <2>1. PICK k \in Nat : k = v.count
    BY <1>4 DEF Numbers
  <2>2. PICK l \in Nat : l = k + 1
    OBVIOUS
  <2>7. PICK x, y : x = SealOf(k) /\ y = SealOf(l)
    OBVIOUS
  <2>8. x \in SealSet /\ y \in SealSet
    BY <2>7 DEF SealOf, SealSet
  <2>3. seals \o <<x, y>> = Append(Append(seals, x), y)
    BY <2>8, DataHolds DEF SealData
  <2>4. Below(Append(seals, x), l)
    BY <1>4, <2>1, <2>2, <2>7, DataHolds, BelowPast, OneMore
  <2>5. Below(Append(Append(seals, x), y), l + 1)
    BY <2>4, <2>7, OneMore
  <2>6. Below(seals', (v.count + 1) + 1)
    BY <1>9, <2>1, <2>2, <2>3, <2>5, <2>7
  <2> QED BY <2>6 DEF Below, SealData, FreshIVs
<1>17. PathsInv'
  <2>1. PICK w : w = [pc |-> where, count |-> (v.count + 1) + 1, remote |-> v.remote,
                      op |-> "upload", size |-> v.size, rest |-> v.rest,
                      cipher |-> v.cipher, n |-> v.n]
    OBVIOUS
  <2>2. At(h, w)'
    BY <1>3, <1>8, <1>9, <1>12, <1>13, <1>15, <2>1 DEF At
  <2>3. Sound(h, w)'
    <3>1. Numbers(w)
      BY <1>4, <2>1 DEF Numbers
    <3>2. Doing(h, w)
      BY <1>1, <1>10, <2>1 DEF Doing, Sending, Receives
    <3>3. Counted(h, w)'
      BY <1>1, <1>10, <1>15, <2>1 DEF Counted
    <3>4. w.pc \in {"gone", "refuse"} => reason' # "none"
      BY <1>10, <1>14, <2>1
    <3> QED BY <1>1, <1>16, <2>1, <3>1, <3>2, <3>3, <3>4, SoundSealed
  <2>4. UNCHANGED Own(g)
    BY <1>1, <1>9, <1>12, <1>13, <1>15 DEF Own
  <2>5. PICK k \in {0, 1} : k = 0
    OBVIOUS
  <2>6. PICK fs : fs = <<p, q>>
    OBVIOUS
  <2>7. IsSeq(fs) /\ Len(fs) = 2 /\ fs[1] = p /\ fs[2] = q
    BY <2>6, Singles
  <2>8. inbox' = Moved(h, k, fs)
    BY <1>9, <2>5, <2>6
  <2>9. Len(inbox[h]) = k /\ Alive(h)
    BY <1>1, <1>2, <2>5, Sender
  <2>10. ASSUME NEW A, NEW b, Path(h, A), Sound(g, b), Met(h, A[k + 1], b)
         PROVE  /\ b.pc \notin Fresh(g)
                /\ \E C : /\ C[1] = b
                          /\ \A i \in 1..Len(fs) : /\ Takes(g, fs[i], C[i], C[i + 1])
                                                   /\ Told(fs[i], C[i], Log(h)')
                                                   /\ Sound(g, C[i + 1])'
                          /\ Met(h, w, C[Len(fs) + 1])'
    <3>1. PICK c, z :
            /\ c = [pc |-> "name", count |-> b.count + 1, op |-> "upload",
                    remote |-> (b.remote + 2) % NonceMod, size |-> b.size,
                    rest |-> b.rest, cipher |-> b.cipher, n |-> b.n]
            /\ z = [pc |-> "size", count |-> (b.count + 1) + 1, op |-> "upload",
                    remote |-> (c.remote + 2) % NonceMod, size |-> b.size,
                    rest |-> b.rest, cipher |-> b.cipher, n |-> b.n]
      OBVIOUS
    <3>2. /\ b.pc = "select" /\ v.count = b.count /\ v.n = b.n
          /\ b.remote = ep[h].local /\ v.remote = ep[g].local
      <4>1. A[k + 1] = A[1] /\ At(h, A[1])
        BY <2>5, <2>9, <2>10 DEF Path
      <4>2. Met(h, v, b)
        BY <1>3, <2>10, <4>1 DEF Met, Together, At
      <4> QED BY <1>1, <1>4, <4>2 DEF Met, Together
    <3>3. Takes(g, p, b, c) /\ Told(p, b, Log(h)')
      BY <1>7, <3>1, <3>2 DEF Takes, TakesCommand, Macs, SameFile, Ops, Told
    <3>4. Takes(g, q, c, z) /\ Told(q, c, Log(h)')
      <4>1. c.remote = d.local
        BY <1>7, <3>1, <3>2
      <4> QED BY <1>8, <1>10, <3>1, <3>2, <4>1
              DEF Takes, TakesName, Macs, SameFile, Names, Told
    <3>5. /\ b.count \in Nat /\ b.n \in Nat /\ b.size \in 0..MaxChunks /\ b.rest \in 0..b.size
          /\ c.remote \in 0..(NonceMod - 1) /\ z.remote \in 0..(NonceMod - 1)
          /\ z.remote = e.local
      BY <1>7, <1>8, <2>10, <3>1, <3>2 DEF Sound, Numbers
    <3>6. Sound(g, z)'
      <4>1. Numbers(z)
        BY <3>1, <3>5 DEF Numbers
      <4>2. Doing(g, z)
        BY <1>1, <3>1 DEF Doing, Sending, Receives
      <4>3. Counted(g, z)'
        BY <1>1, <1>4, <1>15, <3>1, <3>2 DEF Counted, Numbers
      <4>4. z.pc \notin {"gone", "refuse"}
        BY <3>1
      <4> QED BY <1>1, <1>16, <3>1, <3>2, <4>1, <4>2, <4>3, <4>4, SoundSealed
    <3>7. Sound(g, c)'
      <4>1. Numbers(c)
        BY <3>1, <3>5 DEF Numbers
      <4>2. Doing(g, c)'
        BY <1>1, <3>1 DEF Doing, Sending, Receives
      <4>3. Counted(g, c)'
        BY <1>1, <1>4, <1>15, <3>1, <3>2 DEF Counted, Numbers
      <4>4. c.pc \notin {"gone", "refuse"} /\ c.pc \notin Fresh(g)
        BY <1>1, <3>1 DEF Fresh
      <4> QED BY <4>1, <4>2, <4>3, <4>4 DEF Sound, Numbers, Fresh
    <3>8. Met(h, w, z)'
      BY <1>1, <1>4, <1>8, <1>10, <1>12, <2>1, <3>1, <3>2, <3>5 DEF Met, Together
    <3>9. PICK C : C[1] = b /\ C[2] = c /\ C[3] = z
      <4>1. <<b, c, z>>[1] = b /\ <<b, c, z>>[2] = c /\ <<b, c, z>>[3] = z
        OBVIOUS
      <4> QED BY <4>1
    <3>10. \A i \in 1..Len(fs) : \/ i = 1 /\ fs[i] = p /\ C[i] = b /\ C[i + 1] = c
                                 \/ i = 2 /\ fs[i] = q /\ C[i] = c /\ C[i + 1] = z
      BY <2>7, <3>9
    <3>11. C[Len(fs) + 1] = z
      BY <2>7, <3>9
    <3>12. b.pc \notin Fresh(g)
      BY <1>1, <3>2 DEF Fresh
    <3>13. \A i \in 1..Len(fs) : /\ Takes(g, fs[i], C[i], C[i + 1])
                                 /\ Told(fs[i], C[i], Log(h)')
                                 /\ Sound(g, C[i + 1])'
      BY <3>3, <3>4, <3>6, <3>7, <3>10
    <3> QED BY <3>8, <3>9, <3>11, <3>12, <3>13
  <2>11. Onward(h, g, k, fs, w)
    BY <2>10 DEF Onward
  <2> QED BY <1>1, <1>12, <1>15, <2>2, <2>3, <2>4, <2>7, <2>8, <2>9, <2>11, SendsPaths
<1>18. InboxData'
  <2>1. PICK k \in {0, 1} : k = 0
    OBVIOUS
  <2>2. PICK fs : fs = <<p, q>> /\ IsSeq(fs)
    BY Singles
  <2>3. inbox' = Moved(h, k, fs) /\ SeqsInv
    BY <1>9, <2>1, <2>2 DEF IInv
  <2>4. k <= Len(inbox[h])
    BY <1>1, <1>2, <2>1, Sender
  <2> QED BY <1>1, <2>2, <2>3, <2>4, MovedType DEF InboxData
<1> QED BY <1>1, <1>8, <1>9, <1>11, <1>13, <1>14, <1>15, <1>16, <1>17, <1>18, Whole

-----------------------------------------------------------------------------
(* A host that receives                                                    *)

\* The frame h takes next is the next of its path.
LEMMA First ==
  ASSUME IInv, NEW h \in Host, Alive(h), inbox[h] # <<>>, NEW f, f = Head(inbox[h])
  PROVE  /\ Len(inbox[h]) \in Nat \ {0} /\ f = inbox[h][1]
         /\ \E v, w : /\ At(h, v) /\ Sound(h, v) /\ Takes(h, f, v, w) /\ Sound(h, w)
                      /\ Told(f, v, Log(Peer(h)))
<1>1. PICK S : inbox[h] \in Seq(S)
  BY DEF IInv, SeqsInv
<1>2. Len(inbox[h]) \in Nat \ {0} /\ f = inbox[h][1]
  BY <1>1
<1>3. PICK V : Path(h, V)
  BY TwoPaths DEF IInv
<1>4. 1 \in 1..Len(inbox[h]) /\ 1 \in 1..(Len(inbox[h]) + 1) /\ 2 \in 1..(Len(inbox[h]) + 1)
      /\ 1 + 1 = 2
  BY <1>2
<1>5. /\ At(h, V[1]) /\ Sound(h, V[1]) /\ Sound(h, V[2])
      /\ Takes(h, f, V[1], V[2]) /\ Told(f, V[1], Log(Peer(h)))
  BY <1>2, <1>3, <1>4 DEF Path
<1> QED BY <1>2, <1>5

\* A frame of the path is never refused.
LEMMA Accepted ==
  ASSUME IInv, NEW h \in Host, pc[h] \in Awaiting, inbox[h] # <<>>
  PROVE  Accepts(h, Head(inbox[h]))
<1>1. PICK f : f = Head(inbox[h])
  OBVIOUS
<1>2. Alive(h)
  BY DEF Alive, Awaiting, AwaitedKind, Ended
<1>3. PICK v, w : At(h, v) /\ Takes(h, f, v, w)
  BY <1>1, <1>2, First
<1>4. ep[h].key = 1 /\ Seal(ep[h]) = SealOf(v.count)
  BY <1>2, <1>3, Standing, SealFacts DEF At
<1>5. f.mac = [key |-> 1, nonce |-> ep[h].remote]
  BY <1>3 DEF Takes, At
<1>6. MacMatches(ep[h], f.mac)
  BY <1>4, <1>5 DEF MacMatches
<1>7. \/ pc[h] = "select" /\ f.kind = "command" /\ f.seal = SealOf(v.count)
      \/ pc[h] = "name" /\ f.kind = "name" /\ f.seal = SealOf(v.count)
      \/ pc[h] = "list" /\ f.kind = "list" /\ f.seal = SealOf(v.count)
      \/ pc[h] = "size" /\ f.kind = "size" /\ f.seal = NoSeal
      \/ pc[h] = "chunk" /\ f.kind = "chunk" /\ f.seal = cipher[h]
      \/ pc[h] = "signature" /\ f.kind = "sign" /\ f.seal = NoSeal
  BY <1>3 DEF Takes, TakesCommand, TakesName, TakesListing, TakesSize, TakesChunk, TakesSign,
              At
<1>8. f.kind = AwaitedKind[pc[h]]
  BY <1>7 DEF AwaitedKind
<1>9. f.seal = CASE pc[h] = "chunk"               -> cipher[h]
                 [] pc[h] \in {"size", "signature"} -> NoSeal
                 [] OTHER                         -> Seal(ep[h])
  BY <1>4, <1>7
<1> QED BY <1>1, <1>6, <1>8, <1>9 DEF Accepts

\* The paths when h takes a frame and sends none.
LEMMA TakesPaths ==
  ASSUME IInv, NEW h \in Host, NEW g, g = Peer(h), Alive(h), inbox[h] # <<>>,
         inbox' = Moved(h, 1, <<>>), History, UNCHANGED <<asked, seals>>,
         pc'[g] = pc[g], ep'[g] = ep[g], UNCHANGED Own(g), NEW f, f = Head(inbox[h]),
         Alive(h)' => /\ ep'[h].local = ep[h].local
                      /\ \A v, w : At(h, v) /\ Sound(h, v) /\ Takes(h, f, v, w) => At(h, w)'
  PROVE  PathsInv'
<1>1. g \in Host /\ g # h /\ h = Peer(g)
  BY DEF Peer, Host
<1>2. Len(inbox[h]) \in Nat \ {0} /\ Len(inbox[g]) \in Nat /\ f = inbox[h][1]
  <2>1. PICK S : inbox \in [Host -> Seq(S)]
    BY DEF IInv, SeqsInv
  <2> QED BY <1>1, <2>1, First
<1>3. Shortened(inbox[h], inbox'[h]) /\ inbox'[g] = inbox[g]
  <2>1. PICK k \in {0, 1} : k = 1
    OBVIOUS
  <2>2. PICK fs : fs = <<>>
    OBVIOUS
  <2>3. IsSeq(<<>>)
    <3>1. <<>> \in Seq({})
      OBVIOUS
    <3> QED BY <3>1 DEF IsSeq
  <2>4. inbox' = Moved(h, k, fs) /\ IsSeq(fs) /\ SeqsInv
    BY <2>1, <2>2, <2>3 DEF IInv
  <2>5. k <= Len(inbox[h])
    BY <1>2, <2>1
  <2>6. k = 1 => Shortened(inbox[h], inbox'[h])
    BY <2>4, <2>5, InboxMoved
  <2>7. fs = <<>> => inbox'[g] = inbox[g]
    BY <2>4, <2>5, InboxMoved
  <2> QED BY <2>1, <2>2, <2>6, <2>7
<1>4. PICK A, B : /\ Path(h, A)
                  /\ Alive(g) => Path(g, B)
                  /\ Alive(g) => Met(h, A[End(h)], B[End(g)])
  BY TwoPaths DEF IInv
<1>5. Alive(g)' => Path(g, B)'
  <2> SUFFICES ASSUME Alive(g)' PROVE Path(g, B)'
    OBVIOUS
  <2>1. Path(g, B)
    BY <1>4 DEF Alive
  <2>2. \A i \in 1..Len(inbox'[g]) : i <= Len(inbox[g]) /\ inbox'[g][i] = inbox[g][i]
    BY <1>2, <1>3
  <2>3. Len(inbox'[g]) \in Nat
    BY <1>2, <1>3
  <2> QED BY <1>1, <1>2, <2>1, <2>2, <2>3, PathKept
<1>6. CASE ~Alive(h)'
  BY <1>5, <1>6, FromTwoPaths
<1>7. CASE Alive(h)'
  <2>1. PICK n \in Nat : n = Len(inbox[h])
    BY <1>2
  <2>2. PICK W : \A i \in 1..n : W[i] = A[i + 1]
    <3> DEFINE X == [i \in 1..n |-> A[i + 1]]
    <3>1. \A i \in 1..n : X[i] = A[i + 1]
      OBVIOUS
    <3> QED BY <3>1
  <2>3. At(h, A[2])'
    <3>1. 1 \in 1..n /\ 1 \in 1..(n + 1) /\ 1 + 1 = 2
      BY <1>2, <2>1
    <3>2. At(h, A[1]) /\ Sound(h, A[1]) /\ Takes(h, f, A[1], A[2])
      BY <1>2, <1>4, <2>1, <3>1 DEF Path
    <3> QED BY <1>7, <3>2
  <2>4. /\ Len(inbox'[h]) = Len(inbox[h]) - 1
        /\ \A i \in 1..Len(inbox'[h]) : inbox'[h][i] = inbox[h][i + 1]
    BY <1>3 DEF Shortened
  <2>5. Path(h, W)' /\ W[Len(inbox'[h]) + 1] = A[Len(inbox[h]) + 1]
    BY <1>2, <1>4, <2>1, <2>2, <2>3, <2>4, PathTaken
  <2>6. Alive(g)' => Met(h, W[End(h)], B[End(g)])'
    <3> SUFFICES ASSUME Alive(g)' PROVE Met(h, W[End(h)], B[End(g)])'
      OBVIOUS
    <3>1. Met(h, A[End(h)], B[End(g)])
      BY <1>4 DEF Alive
    <3>2. W[End(h)'] = A[End(h)] /\ End(g)' = End(g)
      BY <1>3, <2>5 DEF End
    <3>3. PICK a, b : a = A[End(h)] /\ b = B[End(g)]
      OBVIOUS
    <3>4. Met(h, a, b)'
      BY <1>1, <1>7, <3>1, <3>3 DEF Met, Together, Peer, Host
    <3> QED BY <3>2, <3>3, <3>4
  <2> QED BY <1>5, <2>5, <2>6, FromTwoPaths
<1> QED BY <1>6, <1>7

\* What h finds when it takes a frame, and its endpoint with the MACs counted.
LEMMA Receiver ==
  ASSUME IInv, NEW h \in Host, pc[h] \in Awaiting, inbox[h] # <<>>,
         NEW f, f = Head(inbox[h]), NEW e, e = AfterReceived(ep[h], Macs(f.kind))
  PROVE  /\ Alive(h) /\ op[h] \in Ops /\ size[h] \in 0..MaxChunks /\ rest[h] \in 0..size[h]
         /\ e \in EndpointSet /\ e.key = 1 /\ e.iv.base = 1 /\ e.iv = ep[h].iv
         /\ e.local = ep[h].local
         /\ e.remote = (ep[h].remote + Macs(f.kind)) % NonceMod
<1>1. Alive(h)
  BY DEF Alive, Awaiting, AwaitedKind, Ended
<1>2. ep[h] \in EndpointSet /\ ep[h].key = 1 /\ ep[h].iv.base = 1
  BY <1>1, Standing
<1>3. Macs(f.kind) \in Nat
  BY DEF Macs
<1>4. /\ e \in EndpointSet /\ e.key = 1 /\ e.iv.base = 1 /\ e.iv = ep[h].iv
      /\ e.local = ep[h].local /\ e.remote = (ep[h].remote + Macs(f.kind)) % NonceMod
  BY <1>2, <1>3, Receptions
<1>5. op[h] \in Ops /\ size[h] \in 0..MaxChunks /\ rest[h] \in 0..size[h]
  BY SessionBounds, DataHolds DEF FileData
<1> QED BY <1>1, <1>4, <1>5

\* The inboxes when h has taken a frame and sent none.
LEMMA OneTaken ==
  ASSUME IInv, NEW h \in Host, Alive(h), inbox[h] # <<>>, inbox' = Moved(h, 1, <<>>)
  PROVE  InboxData'
<1>1. PICK k \in {0, 1} : k = 1
  OBVIOUS
<1>2. PICK fs : fs = <<>>
  OBVIOUS
<1>3. IsSeq(<<>>)
  <2>1. <<>> \in Seq({})
    OBVIOUS
  <2> QED BY <2>1 DEF IsSeq
<1>4. inbox' = Moved(h, k, fs) /\ IsSeq(fs) /\ SeqsInv
  BY <1>1, <1>2, <1>3 DEF IInv
<1>5. PICK f : f = Head(inbox[h])
  OBVIOUS
<1>6. k <= Len(inbox[h])
  BY <1>1, <1>5, First
<1> QED BY <1>4, <1>6, MovedType DEF InboxData

\* A chunk is taken.
LEMMA OnChunkStep ==
  ASSUME IInv, NEW h \in Host, pc[h] \in Awaiting, inbox[h] # <<>>,
         NEW f, f = Head(inbox[h]), NEW e, e = AfterReceived(ep[h], Macs(f.kind)),
         OnChunk(h, f, e), UNCHANGED <<torn, refused>>
  PROVE  IInv'
<1>1. PICK g : g = Peer(h) /\ g \in Host /\ g # h /\ Host = {g, h}
  BY DEF Peer, Host
<1>2. pc[h] = "chunk"
  BY DEF OnChunk
<1>3. /\ Alive(h) /\ e \in EndpointSet /\ e.key = 1 /\ e.iv.base = 1 /\ e.iv = ep[h].iv
      /\ e.local = ep[h].local /\ e.remote = (ep[h].remote + Macs(f.kind)) % NonceMod
  BY Receiver
<1>4. PICK u : At(h, u) /\ Sound(h, u)
  BY <1>3, Standing
<1>5. /\ inbox' = Moved(h, 1, <<>>)
      /\ UNCHANGED <<torn, op, size, cipher, asked, done, answered, seals, refused>>
  BY DEF OnChunk, logs
<1>6. InboxData' /\ LogData' /\ SealData'
  BY <1>3, <1>5, OneTaken, DataKept
<1>7. CASE Return(h, e, FALSE) /\ Because("disk") /\ UNCHANGED rest
  <2>1. Leave(h, e, "gone") /\ "gone" \in PcSet(h) /\ "gone" \in Ended
    BY <1>7 DEF Return, PcSet, Ended
  <2>2. Goes(h, e, "gone")
    BY <2>1 DEF Goes
  <2>3. pc'[h] = "gone" /\ pc'[g] = pc[g] /\ ep'[g] = ep[g] /\ ~Alive(h)'
    BY <1>1, <1>3, <2>1, <2>2, GoesFacts DEF Alive
  <2>4. reason' \in Reasons \cup {"none"} /\ reason' # "none"
    BY <1>7, DataHolds DEF Because, Reasons
  <2>5. History /\ FileData'
    BY <1>5, <1>7, <2>4, HistoryKept, DataKept
  <2>6. UNCHANGED Own(g)
    BY <1>5, <1>7, <2>3 DEF Own, Log
  <2>7. PathsInv'
    BY <1>1, <1>3, <1>5, <2>3, <2>5, <2>6, TakesPaths
  <2> QED BY <1>3, <1>5, <1>6, <2>1, <2>2, <2>4, <2>5, <2>7, Whole
<1>8. CASE /\ Proceed(h, e, IF rest[h] = 1 THEN "signature" ELSE "chunk")
           /\ rest' = [rest EXCEPT ![h] = @ - 1]
           /\ UNCHANGED reason
  <2>1. PICK where : where = IF rest[h] = 1 THEN "signature" ELSE "chunk"
    OBVIOUS
  <2>2. where \in PcSet(h) /\ where \notin Ended /\ Goes(h, e, where)
    BY <1>3, <1>8, <2>1 DEF PcSet, Receives, Ended, Goes
  <2>3. pc'[h] = where /\ pc'[g] = pc[g] /\ ep'[g] = ep[g] /\ ep'[h] = e
    BY <1>1, <1>3, <2>2, GoesFacts
  <2>4. rest'[h] = rest[h] - 1 /\ rest'[g] = rest[g] /\ FileData'
    <3>1. rest[h] # 0
      BY <1>2, <1>4 DEF At, Sound, Doing
    <3> QED BY <1>1, <1>5, <1>8, <3>1, SessionBounds, DataHolds DEF FileData
  <2>5. History
    BY <1>5, <1>8, HistoryKept
  <2>6. UNCHANGED Own(g)
    BY <1>1, <1>5, <2>3, <2>4 DEF Own, Log
  <2>7. ASSUME NEW v, NEW w, At(h, v), Sound(h, v), Takes(h, f, v, w) PROVE At(h, w)'
    <3>1. v.pc = "chunk" /\ v.remote = ep[h].remote /\ v.rest = rest[h]
      BY <1>2, <2>7 DEF At
    <3>2. TakesChunk(f, v, w) /\ w.remote = (v.remote + Macs(f.kind)) % NonceMod
      BY <2>7, <3>1
         DEF Takes, TakesCommand, TakesName, TakesListing, TakesSize, TakesChunk, TakesSign
    <3> QED BY <1>3, <1>5, <2>1, <2>3, <2>4, <2>7, <3>1, <3>2 DEF At, TakesChunk, Log
  <2>8. PathsInv'
    BY <1>1, <1>3, <1>5, <2>3, <2>5, <2>6, <2>7, TakesPaths
  <2> QED BY <1>3, <1>5, <1>6, <1>8, <2>2, <2>4, <2>5, <2>8, Whole, DataHolds
<1> QED BY <1>7, <1>8 DEF OnChunk

\* The signature is taken, and the receiver's command ends.
LEMMA OnSignStep ==
  ASSUME IInv, NEW h \in Host, pc[h] \in Awaiting, inbox[h] # <<>>,
         NEW f, f = Head(inbox[h]), NEW e, e = AfterReceived(ep[h], Macs(f.kind)),
         OnSign(h, f, e), UNCHANGED <<torn, refused>>
  PROVE  IInv'
<1>1. PICK g : g = Peer(h) /\ g \in Host /\ g # h /\ Host = {g, h}
  BY DEF Peer, Host
<1>2. pc[h] = "signature"
  BY DEF OnSign
<1>3. /\ Alive(h) /\ e \in EndpointSet /\ e.key = 1 /\ e.iv.base = 1 /\ e.iv = ep[h].iv
      /\ e.local = ep[h].local /\ e.remote = (ep[h].remote + Macs(f.kind)) % NonceMod
  BY Receiver
<1>4. /\ inbox' = Moved(h, 1, <<>>) /\ Result(h, op[h], File(size[h]))
      /\ Proceed(h, e, Home(h))
      /\ UNCHANGED <<asked, torn, op, size, rest, cipher, seals, refused, reason>>
  BY Returns DEF OnSign, transfer
<1>5. Home(h) \in PcSet(h) /\ Home(h) \notin Ended /\ Goes(h, e, Home(h))
  BY <1>3, <1>4, HomeFacts DEF Goes
<1>6. pc'[h] = Home(h) /\ pc'[g] = pc[g] /\ ep'[g] = ep[g] /\ ep'[h] = e
  BY <1>1, <1>3, <1>5, GoesFacts
<1>7. /\ LogData' /\ History /\ Len(Log(h)) \in Nat
      /\ Len(Log(h)') = Len(Log(h)) + 1 /\ UNCHANGED Log(g)
  BY <1>1, <1>4, Recorded
<1>8. InboxData' /\ FileData' /\ SealData'
  BY <1>3, <1>4, OneTaken, DataKept
<1>9. PathsInv'
  <2>1. UNCHANGED Own(g)
    BY <1>4, <1>6, <1>7 DEF Own
  <2>2. ASSUME NEW v, NEW w, At(h, v), Sound(h, v), Takes(h, f, v, w) PROVE At(h, w)'
    <3>1. v.pc = "signature" /\ v.remote = ep[h].remote /\ v.n = Len(Log(h))
      BY <1>2, <2>2 DEF At
    <3>2. TakesSign(h, f, v, w) /\ w.remote = (v.remote + Macs(f.kind)) % NonceMod
      BY <2>2, <3>1
         DEF Takes, TakesCommand, TakesName, TakesListing, TakesSize, TakesChunk, TakesSign
    <3> QED BY <1>3, <1>4, <1>6, <1>7, <2>2, <3>1, <3>2 DEF At, TakesSign, SameFile
  <2> QED BY <1>1, <1>3, <1>4, <1>6, <1>7, <2>1, <2>2, TakesPaths
<1> QED BY <1>3, <1>4, <1>5, <1>7, <1>8, <1>9, Whole, DataHolds

\* The listing is taken.
LEMMA OnListingStep ==
  ASSUME IInv, NEW h \in Host, pc[h] \in Awaiting, inbox[h] # <<>>,
         NEW f, f = Head(inbox[h]), NEW e, e = AfterReceived(ep[h], Macs(f.kind)),
         OnListing(h, f, e), UNCHANGED <<torn, refused>>
  PROVE  IInv'
<1>1. PICK g : g = Peer(h) /\ g \in Host /\ g # h /\ Host = {g, h}
  BY DEF Peer, Host
<1>2. pc[h] = "list"
  BY DEF OnListing
<1>3. /\ Alive(h) /\ e \in EndpointSet /\ e.key = 1 /\ e.iv.base = 1 /\ e.iv = ep[h].iv
      /\ e.local = ep[h].local /\ e.remote = (ep[h].remote + Macs(f.kind)) % NonceMod
  BY Receiver
<1>4. PICK d : d = NewCipher(e)
  OBVIOUS
<1>5. /\ d \in EndpointSet /\ d.key = 1 /\ d.iv.base = 1 /\ d.iv.count = ep[h].iv.count + 1
      /\ d.local = ep[h].local /\ d.remote = e.remote
  BY <1>3, <1>4, NextCipher
<1>6. PICK x : x = [kind |-> "names", names |-> Split(f.body)]
  OBVIOUS
<1>7. /\ inbox' = Moved(h, 1, <<>>) /\ Result(h, "list", x) /\ Proceed(h, d, Home(h))
      /\ UNCHANGED <<asked, torn, op, size, rest, cipher, seals, refused, reason>>
  BY <1>4, <1>6, Returns DEF OnListing, transfer
<1>8. Home(h) \in PcSet(h) /\ Home(h) \notin Ended /\ Goes(h, d, Home(h))
  BY <1>3, <1>5, <1>7, HomeFacts DEF Goes
<1>9. pc'[h] = Home(h) /\ pc'[g] = pc[g] /\ ep'[g] = ep[g] /\ ep'[h] = d
  BY <1>1, <1>5, <1>8, GoesFacts
<1>10. /\ LogData' /\ History /\ Len(Log(h)) \in Nat
       /\ Len(Log(h)') = Len(Log(h)) + 1 /\ UNCHANGED Log(g)
  BY <1>1, <1>7, Recorded
<1>11. InboxData' /\ FileData' /\ SealData'
  BY <1>3, <1>7, OneTaken, DataKept
<1>12. PathsInv'
  <2>1. UNCHANGED Own(g)
    BY <1>7, <1>9, <1>10 DEF Own
  <2>2. ASSUME NEW v, NEW w, At(h, v), Sound(h, v), Takes(h, f, v, w) PROVE At(h, w)'
    <3>1. v.pc = "list" /\ v.remote = ep[h].remote /\ v.n = Len(Log(h))
          /\ v.count = ep[h].iv.count
      BY <1>2, <2>2 DEF At
    <3>2. TakesListing(f, v, w) /\ w.remote = (v.remote + Macs(f.kind)) % NonceMod
      BY <2>2, <3>1
         DEF Takes, TakesCommand, TakesName, TakesListing, TakesSize, TakesChunk, TakesSign
    <3>3. Home(h) = "prompt"
      BY <2>2, <3>1 DEF Sound, Doing, Receives, Sending, Home
    <3> QED BY <1>3, <1>5, <1>7, <1>9, <1>10, <2>2, <3>1, <3>2, <3>3
            DEF At, TakesListing, SameFile
  <2> QED BY <1>1, <1>3, <1>5, <1>7, <1>9, <1>10, <2>1, <2>2, TakesPaths
<1> QED BY <1>5, <1>7, <1>8, <1>10, <1>11, <1>12, Whole, DataHolds

\* The name is taken, and refused if it is too long or empty.
LEMMA OnNameStep ==
  ASSUME IInv, NEW h \in Host, pc[h] \in Awaiting, inbox[h] # <<>>,
         NEW f, f = Head(inbox[h]), NEW e, e = AfterReceived(ep[h], Macs(f.kind)),
         OnName(h, f, e), UNCHANGED <<torn, refused>>
  PROVE  IInv'
<1>1. PICK g : g = Peer(h) /\ g \in Host /\ g # h /\ Host = {g, h}
  BY DEF Peer, Host
<1>2. pc[h] = "name"
  BY DEF OnName
<1>3. /\ Alive(h) /\ e \in EndpointSet /\ e.key = 1 /\ e.iv.base = 1 /\ e.iv = ep[h].iv
      /\ e.local = ep[h].local /\ e.remote = (ep[h].remote + Macs(f.kind)) % NonceMod
  BY Receiver
<1>4. PICK d : d = NewCipher(e)
  OBVIOUS
<1>5. /\ d \in EndpointSet /\ d.key = 1 /\ d.iv.base = 1 /\ d.iv.count = ep[h].iv.count + 1
      /\ d.local = ep[h].local /\ d.remote = e.remote
  BY <1>3, <1>4, NextCipher
<1>6. PICK bad, where :
        /\ bad = (op[h] = "get" /\ (TooLong(f.body) \/ f.body.len = 0))
        /\ where = IF bad THEN "gone" ELSE IF op[h] = "get" THEN ToSend(f.body) ELSE "size"
  OBVIOUS
<1>7. /\ inbox' = Moved(h, 1, <<>>)
      /\ IF bad THEN Leave(h, d, where) ELSE Proceed(h, d, where)
      /\ UNCHANGED <<torn, op, size, rest, cipher, asked, done, answered, seals, refused,
                     reason>>
  BY <1>4, <1>6 DEF OnName, Return, transfer, logs
<1>8. ASSUME NEW v, NEW w, At(h, v), Sound(h, v), Takes(h, f, v, w)
      PROVE  /\ TakesName(f, v, w) /\ w.remote = (v.remote + Macs(f.kind)) % NonceMod
             /\ w.pc = where /\ op[h] \in {"get", "upload"} /\ op[h] = v.op
  <2>1. v.pc = "name" /\ v.op = op[h]
    BY <1>2, <1>8 DEF At
  <2>2. TakesName(f, v, w) /\ w.remote = (v.remote + Macs(f.kind)) % NonceMod
    BY <1>8, <2>1
       DEF Takes, TakesCommand, TakesName, TakesListing, TakesSize, TakesChunk, TakesSign
  <2>3. op[h] \in {"get", "upload"}
    BY <1>8, <2>1 DEF Sound, Doing
  <2>4. w.pc = where
    BY <1>6, <2>1, <2>2, <2>3 DEF TakesName
  <2> QED BY <2>1, <2>2, <2>3, <2>4
<1>9. PICK v, w : At(h, v) /\ Sound(h, v) /\ Takes(h, f, v, w) /\ Sound(h, w)
  BY <1>3, First
<1>10. where \in Ended => reason # "none"
  BY <1>6, <1>8, <1>9 DEF Sound, Ended, ToSend
<1>11. where \in PcSet(h) /\ Goes(h, d, where)
  <2>1. where \in {"gone", "size", "refuse", "announce"} /\ (bad <=> where = "gone")
    BY <1>6 DEF ToSend
  <2> QED BY <1>3, <1>5, <1>7, <2>1 DEF PcSet, Receives, Sending, Ended, Goes
<1>12. /\ pc'[h] = where /\ pc'[g] = pc[g] /\ ep'[g] = ep[g]
       /\ where \notin Ended => ep'[h] = d
  BY <1>1, <1>5, <1>11, GoesFacts
<1>13. /\ LogData' /\ History /\ InboxData' /\ FileData' /\ SealData'
       /\ UNCHANGED <<Log(h), Log(g)>>
  BY <1>3, <1>7, HistoryKept, OneTaken, DataKept DEF Log
<1>14. PathsInv'
  <2>1. UNCHANGED Own(g)
    BY <1>7, <1>12, <1>13 DEF Own
  <2>2. Alive(h)' => ep'[h] = d
    BY <1>12 DEF Alive
  <2>3. ASSUME Alive(h)', NEW x, NEW y, At(h, x), Sound(h, x), Takes(h, f, x, y)
        PROVE  At(h, y)'
    BY <1>3, <1>5, <1>7, <1>8, <1>12, <1>13, <2>2, <2>3 DEF At, TakesName, SameFile
  <2> QED BY <1>1, <1>3, <1>5, <1>7, <1>12, <1>13, <2>1, <2>2, <2>3, TakesPaths
<1> QED BY <1>5, <1>7, <1>10, <1>11, <1>13, <1>14, Whole, DataHolds

\* The size is taken.
LEMMA OnSizeStep ==
  ASSUME IInv, NEW h \in Host, pc[h] \in Awaiting, inbox[h] # <<>>,
         NEW f, f = Head(inbox[h]), NEW e, e = AfterReceived(ep[h], Macs(f.kind)),
         OnSize(h, f, e), UNCHANGED <<torn, refused>>
  PROVE  IInv'
<1>1. PICK g : g = Peer(h) /\ g \in Host /\ g # h /\ Host = {g, h}
  BY DEF Peer, Host
<1>2. pc[h] = "size"
  BY DEF OnSize
<1>3. /\ Alive(h) /\ e \in EndpointSet /\ e.key = 1 /\ e.iv.base = 1 /\ e.iv = ep[h].iv
      /\ e.local = ep[h].local /\ e.remote = (ep[h].remote + Macs(f.kind)) % NonceMod
  BY Receiver
<1>4. inbox' = Moved(h, 1, <<>>) /\ UNCHANGED <<torn, seals, refused, reason>>
  BY DEF OnSize
<1>5. InboxData' /\ SealData'
  BY <1>3, <1>4, OneTaken, DataKept
<1>6. ASSUME NEW v, NEW w, At(h, v), Sound(h, v), Takes(h, f, v, w)
      PROVE  TakesSize(h, f, v, w) /\ w.remote = (v.remote + Macs(f.kind)) % NonceMod
  <2>1. v.pc = "size"
    BY <1>2, <1>6 DEF At
  <2> QED BY <1>6, <2>1
          DEF Takes, TakesCommand, TakesName, TakesListing, TakesSize, TakesChunk, TakesSign
<1>7. PICK u, t : At(h, u) /\ Sound(h, u) /\ Takes(h, f, u, t)
  BY <1>3, First
<1>8. f.body \in 0..MaxChunks
  BY <1>6, <1>7 DEF TakesSize
<1>9. CASE f.body = 0
  <2>1. /\ Result(h, op[h], File(0)) /\ Proceed(h, e, Home(h))
        /\ UNCHANGED <<asked, op, size, rest, cipher>>
    BY <1>9, Returns DEF OnSize, transfer
  <2>2. Home(h) \in PcSet(h) /\ Home(h) \notin Ended /\ Goes(h, e, Home(h))
    BY <1>3, <2>1, HomeFacts DEF Goes
  <2>3. pc'[h] = Home(h) /\ pc'[g] = pc[g] /\ ep'[g] = ep[g] /\ ep'[h] = e
    BY <1>1, <1>3, <2>2, GoesFacts
  <2>4. /\ LogData' /\ History /\ Len(Log(h)) \in Nat
        /\ Len(Log(h)') = Len(Log(h)) + 1 /\ UNCHANGED Log(g)
    BY <1>1, <1>4, <2>1, Recorded
  <2>5. FileData'
    BY <1>4, <2>1, DataKept
  <2>6. UNCHANGED Own(g)
    BY <2>1, <2>3, <2>4 DEF Own
  <2>7. ASSUME NEW v, NEW w, At(h, v), Sound(h, v), Takes(h, f, v, w) PROVE At(h, w)'
    BY <1>3, <1>6, <1>9, <2>1, <2>3, <2>4, <2>7 DEF At, TakesSize, SameFile
  <2>8. PathsInv'
    BY <1>1, <1>3, <1>4, <2>1, <2>3, <2>4, <2>6, <2>7, TakesPaths
  <2> QED BY <1>3, <1>4, <1>5, <2>2, <2>4, <2>5, <2>8, Whole, DataHolds
<1>10. CASE f.body # 0
  <2>1. PICK d, x : d = NewCipher(e) /\ x = Seal(e)
    OBVIOUS
  <2>2. /\ d \in EndpointSet /\ d.key = 1 /\ d.iv.base = 1 /\ d.iv.count = ep[h].iv.count + 1
        /\ d.local = ep[h].local /\ d.remote = e.remote
        /\ x = SealOf(ep[h].iv.count) /\ x \in SealSet
    BY <1>3, <2>1, NextCipher, SealFacts
  <2>3. /\ Proceed(h, d, "chunk")
        /\ size' = [size EXCEPT ![h] = f.body] /\ rest' = [rest EXCEPT ![h] = f.body]
        /\ cipher' = [cipher EXCEPT ![h] = x] /\ UNCHANGED <<op, asked, done, answered>>
    BY <1>10, <2>1 DEF OnSize, logs
  <2>4. "chunk" \in PcSet(h) /\ "chunk" \notin Ended /\ Goes(h, d, "chunk")
    BY <1>3, <2>2, <2>3 DEF PcSet, Receives, Ended, Goes
  <2>5. pc'[h] = "chunk" /\ pc'[g] = pc[g] /\ ep'[g] = ep[g] /\ ep'[h] = d
    BY <1>1, <2>2, <2>4, GoesFacts
  <2>6. /\ FileData' /\ size'[h] = f.body /\ rest'[h] = f.body /\ cipher'[h] = x
        /\ op'[h] = op[h] /\ op'[g] = op[g]
        /\ size'[g] = size[g] /\ rest'[g] = rest[g] /\ cipher'[g] = cipher[g]
    BY <1>1, <1>4, <1>8, <2>2, <2>3, SessionBounds, DataHolds DEF FileData
  <2>7. History /\ LogData' /\ asked' = asked /\ UNCHANGED <<Log(h), Log(g)>>
    BY <1>4, <2>3, HistoryKept, DataKept DEF Log
  <2>8. UNCHANGED Own(g)
    BY <2>5, <2>6, <2>7 DEF Own
  <2>9. ASSUME NEW v, NEW w, At(h, v), Sound(h, v), Takes(h, f, v, w) PROVE At(h, w)'
    BY <1>3, <1>6, <1>10, <2>2, <2>5, <2>6, <2>7, <2>9 DEF At, TakesSize
  <2>10. PathsInv'
    BY <1>1, <1>3, <1>4, <2>2, <2>5, <2>7, <2>8, <2>9, TakesPaths
  <2> QED BY <1>4, <1>5, <2>2, <2>4, <2>6, <2>7, <2>10, Whole, DataHolds
<1> QED BY <1>9, <1>10

\* The answer to a list: the server's path ends with the command, and the
\* client's where it waits for the listing.
LEMMA ListStep ==
  ASSUME IInv, NEW h \in Host, pc[h] = "select", pc[h] \in Awaiting, inbox[h] # <<>>,
         NEW f, f = Head(inbox[h]), NEW e, e = AfterReceived(ep[h], Macs(f.kind)),
         f.body = "list", NEW d, d = NewCipher(e), NEW names \in Listings,
         ~NoFirst(names), ~Endless(names), op' = [op EXCEPT ![h] = f.body],
         inbox' = Moved(h, 1, <<Encrypted(d, "list", Concatenated(names))>>),
         seals' = Append(seals, Seal(d)),
         Result(h, "list", [kind |-> "names", names |-> names]),
         Return(h, AfterEncrypted(d), TRUE),
         UNCHANGED <<asked, reason, size, rest, cipher, torn, refused>>
  PROVE  IInv'
<1>1. PICK g : g = Peer(h) /\ g \in Host /\ g # h /\ Host = {g, h}
  BY DEF Peer, Host
<1>2. /\ Alive(h) /\ e \in EndpointSet /\ e.key = 1 /\ e.iv.base = 1 /\ e.iv = ep[h].iv
      /\ e.local = ep[h].local /\ e.remote = (ep[h].remote + Macs(f.kind)) % NonceMod
  BY Receiver
<1>3. /\ d \in EndpointSet /\ d.key = 1 /\ d.iv.base = 1 /\ d.iv.count = ep[h].iv.count + 1
      /\ d.local = ep[h].local /\ d.remote = e.remote
  BY <1>2, NextCipher
<1>4. ASSUME NEW v, NEW u, At(h, v), Sound(h, v), Takes(h, f, v, u)
      PROVE  /\ u.pc = "listing" /\ u.op = "list" /\ u.n = Len(Log(h)) /\ u.count = d.iv.count
             /\ u.remote = d.remote /\ u.size = size[h] /\ u.rest = rest[h]
             /\ h = "server"
  <2>1. v.pc = "select"
    BY <1>4 DEF At
  <2>2. TakesCommand(f, v, u) /\ u.remote = (v.remote + Macs(f.kind)) % NonceMod
    BY <1>4, <2>1
       DEF Takes, TakesCommand, TakesName, TakesListing, TakesSize, TakesChunk, TakesSign
  <2>3. h = "server"
    BY <1>4, <2>1 DEF Sound, Doing, Receives, Sending
  <2> QED BY <1>2, <1>3, <1>4, <2>2, <2>3 DEF At, TakesCommand, SameFile
<1>5. PICK v, u : At(h, v) /\ Sound(h, v) /\ Takes(h, f, v, u) /\ Sound(h, u)
  BY <1>2, First
<1>6. /\ u.pc = "listing" /\ u.op = "list" /\ u.n = Len(Log(h)) /\ u.count = d.iv.count
      /\ u.remote = d.remote /\ u.size = size[h] /\ u.rest = rest[h]
      /\ h = "server" /\ g = "client"
  BY <1>1, <1>4, <1>5 DEF Peer
<1>7. Numbers(u) /\ Past(u)
  BY <1>5, <1>6 DEF Sound, Fresh
<1>8. PICK m, x, text, r : /\ m = AfterEncrypted(d) /\ text = Concatenated(names)
                           /\ x = Encrypted(d, "list", text)
                           /\ r = [kind |-> "names", names |-> names]
  OBVIOUS
<1>9. /\ m \in EndpointSet /\ m.key = 1 /\ m.iv.base = 1 /\ m.iv.count = u.count + 1
      /\ m.remote = d.remote /\ m.local = (d.local + 2) % NonceMod
      /\ m.local \in 0..(NonceMod - 1)
      /\ x.kind = "list" /\ x.body = text /\ x.seal = SealOf(u.count)
      /\ x.mac = [key |-> 1, nonce |-> d.local] /\ Seal(d) = SealOf(u.count)
  BY <1>3, <1>6, <1>8, AfterEncrypting
<1>10. /\ inbox' = Moved(h, 1, <<x>>) /\ Proceed(h, m, Home(h))
       /\ seals' = Append(seals, SealOf(u.count)) /\ Result(h, "list", r)
  BY <1>8, <1>9, Returns
<1>11. Home(h) \in PcSet(h) /\ Home(h) \notin Ended /\ Goes(h, m, Home(h))
  BY <1>2, <1>9, <1>10, HomeFacts DEF Goes
<1>12. pc'[h] = Home(h) /\ pc'[g] = pc[g] /\ ep'[g] = ep[g] /\ ep'[h] = m
  BY <1>1, <1>9, <1>11, GoesFacts
<1>13. FileData' /\ op'[h] = "list" /\ op'[g] = op[g]
  BY <1>1, DataHolds DEF FileData, Ops
<1>14. /\ LogData' /\ History /\ Len(Log(h)) \in Nat
       /\ Len(Log(h)') = Len(Log(h)) + 1 /\ UNCHANGED Log(g)
       /\ \A n : n = Len(Log(h)) => Entry(Log(h)', n + 1, "list", r)
  BY <1>1, <1>10, Recorded
<1>15. Below(seals', u.count + 1) /\ SealData'
  <2>1. Below(seals', u.count + 1)
    BY <1>7, <1>10, DataHolds, BelowPast, OneMore DEF Numbers
  <2> QED BY <2>1 DEF Below, SealData, FreshIVs
<1>16. PICK k \in {0, 1} : k = 1
  OBVIOUS
<1>17. PICK fs : fs = <<x>>
  OBVIOUS
<1>18. /\ IsSeq(fs) /\ Len(fs) = 1 /\ fs[1] = x
  BY <1>17, Singles
<1>19. inbox' = Moved(h, k, fs)
  BY <1>10, <1>16, <1>17
<1>20. Len(inbox[h]) = k
  <2>1. PICK V : Path(h, V)
    BY <1>2, TwoPaths DEF IInv
  <2>2. Len(inbox[h]) \in Nat \ {0} /\ f = inbox[h][1]
    BY <1>2, First
  <2>3. 1 \in 1..Len(inbox[h]) /\ 1 \in 1..(Len(inbox[h]) + 1) /\ 1 + 1 = 2
    BY <2>2
  <2>4. V[2].pc = "listing"
    BY <1>4, <2>1, <2>2, <2>3 DEF Path
  <2>5. \A f2, w : ~Takes(h, f2, V[2], w)
    BY <2>4 DEF Takes, TakesCommand, TakesName, TakesListing, TakesSize, TakesChunk,
                TakesSign
  <2>6. 2 \notin 1..Len(inbox[h])
    <3>1. \A i \in 1..Len(inbox[h]) : Takes(h, inbox[h][i], V[i], V[i + 1])
      BY <2>1 DEF Path
    <3> QED BY <2>5, <3>1, Zenon
  <2>7. PICK l \in Nat \ {0} : l = Len(inbox[h])
    BY <2>2
  <2>8. 2 \notin 1..l
    BY <2>6, <2>7, Zenon
  <2>9. l = 1
    BY <2>8
  <2> QED BY <1>16, <2>7, <2>9
<1>21. PathsInv'
  <2>1. PICK w : w = [pc |-> Home(h), count |-> u.count + 1, remote |-> u.remote,
                      op |-> "list", size |-> u.size, rest |-> u.rest,
                      cipher |-> cipher[h], n |-> u.n + 1]
    OBVIOUS
  <2>2. At(h, w)'
    BY <1>6, <1>9, <1>12, <1>13, <1>14, <2>1 DEF At
  <2>3. Sound(h, w)'
    <3>1. Numbers(w)
      BY <1>7, <2>1 DEF Numbers
    <3>2. Doing(h, w)
      BY <1>6, <2>1 DEF Doing, Sending, Receives, Home
    <3>3. Counted(h, w)'
      BY <1>6, <2>1 DEF Counted, Home
    <3>4. w.pc \notin {"gone", "refuse"}
      BY <2>1 DEF Home
    <3> QED BY <1>15, <2>1, <3>1, <3>2, <3>3, <3>4, SoundSealed
  <2>4. UNCHANGED Own(g)
    BY <1>12, <1>13, <1>14 DEF Own
  <2>5. ASSUME NEW A, NEW b, Path(h, A), Sound(g, b), Met(h, A[k + 1], b)
        PROVE  /\ b.pc \notin Fresh(g)
               /\ \E C : /\ C[1] = b
                         /\ \A i \in 1..Len(fs) : /\ Takes(g, fs[i], C[i], C[i + 1])
                                                  /\ Told(fs[i], C[i], Log(h)')
                                                  /\ Sound(g, C[i + 1])'
                         /\ Met(h, w, C[Len(fs) + 1])'
    <3>1. PICK a : a = A[k + 1]
      OBVIOUS
    <3>2. /\ a.pc = "listing" /\ a.op = "list" /\ a.n = u.n /\ a.count = u.count
          /\ a.remote = u.remote
      <4>1. 1 \in 1..Len(inbox[h]) /\ 1 \in 1..(Len(inbox[h]) + 1) /\ 1 + 1 = k + 1
        BY <1>16, <1>20
      <4>2. f = inbox[h][1]
        BY <1>2, First
      <4>3. At(h, A[1]) /\ Sound(h, A[1]) /\ Takes(h, f, A[1], a)
        BY <2>5, <3>1, <4>1, <4>2 DEF Path
      <4> QED BY <1>4, <1>6, <4>3
    <3>3. /\ b.pc = "list" /\ b.count = u.count /\ b.n = u.n /\ b.remote = d.local
          /\ u.remote = ep[g].local
      BY <1>3, <1>6, <2>5, <3>1, <3>2 DEF Met, Together
    <3>4. PICK c : c = [pc |-> "prompt", count |-> b.count + 1, op |-> b.op,
                        remote |-> (b.remote + 2) % NonceMod, size |-> b.size,
                        rest |-> b.rest, cipher |-> b.cipher, n |-> b.n + 1]
      OBVIOUS
    <3>5. Takes(g, x, b, c)
      BY <1>9, <3>3, <3>4 DEF Takes, TakesListing, Macs, SameFile
    <3>6. Told(x, b, Log(h)')
      <4>1. Entry(Log(h)', b.n + 1, "list", [kind |-> "names", names |-> names])
        BY <1>6, <1>8, <1>14, <3>3
      <4> QED BY <1>8, <1>9, <3>3, <4>1 DEF Told
    <3>7. Sound(g, c)'
      <4>1. Numbers(c)
        BY <1>9, <2>5, <3>3, <3>4 DEF Sound, Numbers
      <4>2. Doing(g, c)
        BY <1>6, <3>4 DEF Doing, Sending, Receives
      <4>3. Counted(g, c)'
        BY <1>6, <2>5, <3>3, <3>4 DEF Counted, Sound
      <4>4. c.pc \notin {"gone", "refuse"}
        BY <3>4
      <4> QED BY <1>1, <1>15, <3>3, <3>4, <4>1, <4>2, <4>3, <4>4, SoundSealed
    <3>8. Met(h, w, c)'
      <4>1. c.pc = Home(g)
        BY <1>6, <3>4 DEF Home
      <4> QED BY <1>1, <1>9, <1>12, <2>1, <3>3, <3>4, <4>1, MeetAgain
    <3>9. PICK C : C[1] = b /\ C[2] = c
      <4>1. <<b, c>>[1] = b /\ <<b, c>>[2] = c
        OBVIOUS
      <4> QED BY <4>1
    <3>10. \A i \in 1..Len(fs) : i = 1 /\ fs[i] = x /\ C[i] = b /\ C[i + 1] = c
      BY <1>18, <3>9
    <3>11. C[Len(fs) + 1] = c
      BY <1>18, <3>9
    <3>12. b.pc \notin Fresh(g)
      BY <1>6, <3>3 DEF Fresh, Sending
    <3> QED BY <3>5, <3>6, <3>7, <3>8, <3>9, <3>10, <3>11, <3>12
  <2>6. Onward(h, g, k, fs, w)
    BY <2>5 DEF Onward
  <2> QED BY <1>1, <1>2, <1>12, <1>14, <1>18, <1>19, <1>20, <2>2, <2>3, <2>4, <2>6, SendsPaths
<1>22. InboxData'
  <2>1. k <= Len(inbox[h]) /\ SeqsInv
    BY <1>16, <1>20 DEF IInv
  <2> QED BY <1>18, <1>19, <2>1, MovedType DEF InboxData
<1> QED BY <1>9, <1>11, <1>13, <1>14, <1>15, <1>21, <1>22, Whole, DataHolds

\* A command is taken.
LEMMA OnCommandStep ==
  ASSUME IInv, NEW h \in Host, pc[h] \in Awaiting, inbox[h] # <<>>,
         NEW f, f = Head(inbox[h]), NEW e, e = AfterReceived(ep[h], Macs(f.kind)),
         OnCommand(h, f, e), UNCHANGED <<torn, refused>>
  PROVE  IInv'
<1>1. PICK g : g = Peer(h) /\ g \in Host /\ g # h /\ Host = {g, h}
  BY DEF Peer, Host
<1>2. pc[h] = "select"
  BY DEF OnCommand
<1>3. /\ Alive(h) /\ e \in EndpointSet /\ e.key = 1 /\ e.iv.base = 1 /\ e.iv = ep[h].iv
      /\ e.local = ep[h].local /\ e.remote = (ep[h].remote + Macs(f.kind)) % NonceMod
  BY Receiver
<1>4. PICK d : d = NewCipher(e)
  OBVIOUS
<1>5. /\ d \in EndpointSet /\ d.key = 1 /\ d.iv.base = 1 /\ d.iv.count = ep[h].iv.count + 1
      /\ d.local = ep[h].local /\ d.remote = e.remote
  BY <1>3, <1>4, NextCipher
<1>6. ASSUME NEW v, NEW w, At(h, v), Sound(h, v), Takes(h, f, v, w)
      PROVE  /\ TakesCommand(f, v, w) /\ w.remote = (v.remote + Macs(f.kind)) % NonceMod
             /\ h = "server"
  <2>1. v.pc = "select"
    BY <1>2, <1>6 DEF At
  <2> QED BY <1>6, <2>1
          DEF Takes, TakesCommand, TakesName, TakesListing, TakesSize, TakesChunk, TakesSign,
              Sound, Doing, Receives, Sending
<1>7. PICK u, t : At(h, u) /\ Sound(h, u) /\ Takes(h, f, u, t)
  BY <1>3, First
<1>8. f.body \in Ops /\ h = "server"
  BY <1>6, <1>7 DEF TakesCommand
<1>9. /\ op' = [op EXCEPT ![h] = f.body] /\ op'[h] = f.body /\ op'[g] = op[g] /\ FileData'
      /\ UNCHANGED <<size, rest, cipher, torn, refused>>
  BY <1>1, <1>8, DataHolds DEF OnCommand, FileData
<1>10. ASSUME NEW where, inbox' = Moved(h, 1, <<>>),
              \/ where = "name" /\ f.body # "list" /\ Proceed(h, d, where)
                   /\ UNCHANGED reason
              \/ where = "crashed" /\ Leave(h, d, where) /\ Because("directory")
              \/ where = "stuck" /\ Proceed(h, d, where) /\ Because("directory"),
              UNCHANGED <<asked, done, answered, seals>>
       PROVE  IInv'
  <2>1. where \in PcSet(h) /\ Goes(h, d, where)
    BY <1>3, <1>5, <1>8, <1>10 DEF PcSet, Ended, Goes
  <2>2. /\ pc'[h] = where /\ pc'[g] = pc[g] /\ ep'[g] = ep[g]
        /\ where \notin Ended => ep'[h] = d
    BY <1>1, <1>5, <2>1, GoesFacts
  <2>3. /\ reason' \in Reasons \cup {"none"}
        /\ reason # "none" \/ where \in Ended => reason' # "none"
    BY <1>10, DataHolds DEF Because, Reasons, Ended
  <2>4. /\ LogData' /\ History /\ InboxData' /\ SealData'
        /\ UNCHANGED <<Log(h), Log(g)>>
    BY <1>3, <1>10, <2>3, HistoryKept, OneTaken, DataKept DEF Log
  <2>5. UNCHANGED Own(g)
    BY <1>9, <2>2, <2>4 DEF Own
  <2>6. Alive(h)' => where = "name" /\ f.body # "list" /\ ep'[h] = d
    BY <1>10, <2>2 DEF Alive, Ended
  <2>7. ASSUME Alive(h)', NEW v, NEW w, At(h, v), Sound(h, v), Takes(h, f, v, w)
        PROVE  At(h, w)'
    BY <1>3, <1>5, <1>6, <1>9, <2>2, <2>4, <2>6, <2>7 DEF At, TakesCommand, SameFile
  <2>8. PathsInv'
    BY <1>1, <1>3, <1>5, <1>10, <2>2, <2>4, <2>5, <2>6, <2>7, TakesPaths
  <2> QED BY <1>5, <1>9, <2>1, <2>3, <2>4, <2>8, Whole
<1>11. \/ /\ f.body # "list" /\ inbox' = Moved(h, 1, <<>>) /\ Proceed(h, d, "name")
          /\ UNCHANGED <<logs, seals, reason>>
       \/ /\ f.body = "list"
          /\ \E names \in Listings :
               \/ /\ NoFirst(names) /\ Because("directory")
                  /\ Leave(h, d, "crashed") /\ inbox' = Moved(h, 1, <<>>)
                  /\ UNCHANGED <<logs, seals>>
               \/ /\ Endless(names) /\ Because("directory")
                  /\ Proceed(h, d, "stuck") /\ inbox' = Moved(h, 1, <<>>)
                  /\ UNCHANGED <<logs, seals>>
               \/ /\ ~NoFirst(names) /\ ~Endless(names)
                  /\ inbox' = Moved(h, 1, <<Encrypted(d, "list", Concatenated(names))>>)
                  /\ seals' = Append(seals, Seal(d))
                  /\ Result(h, "list", [kind |-> "names", names |-> names])
                  /\ Return(h, AfterEncrypted(d), TRUE)
                  /\ UNCHANGED <<asked, reason>>
  BY <1>4 DEF OnCommand
<1>12. CASE /\ f.body # "list" /\ inbox' = Moved(h, 1, <<>>) /\ Proceed(h, d, "name")
            /\ UNCHANGED <<logs, seals, reason>>
  BY <1>10, <1>12 DEF logs
<1>13. ASSUME f.body = "list", NEW names \in Listings,
              \/ NoFirst(names) /\ Because("directory") /\ Leave(h, d, "crashed")
              \/ Endless(names) /\ Because("directory") /\ Proceed(h, d, "stuck"),
              inbox' = Moved(h, 1, <<>>), UNCHANGED <<logs, seals>>
       PROVE  IInv'
  BY <1>10, <1>13 DEF logs
<1>14. ASSUME f.body = "list", NEW names \in Listings, ~NoFirst(names), ~Endless(names),
              inbox' = Moved(h, 1, <<Encrypted(d, "list", Concatenated(names))>>),
              seals' = Append(seals, Seal(d)),
              Result(h, "list", [kind |-> "names", names |-> names]),
              Return(h, AfterEncrypted(d), TRUE), UNCHANGED <<asked, reason>>
       PROVE  IInv'
  BY <1>2, <1>4, <1>9, <1>14, ListStep
<1> QED BY <1>11, <1>12, <1>13, <1>14

\* A frame is taken; none is refused.
LEMMA ReceiveStep ==
  ASSUME IInv, NEW h \in Host, Receive(h)
  PROVE  IInv'
<1>1. PICK f, e : f = Head(inbox[h]) /\ e = AfterReceived(ep[h], Macs(f.kind))
  OBVIOUS
<1>2. pc[h] \in Awaiting /\ inbox[h] # <<>> /\ UNCHANGED torn
  BY DEF Receive
<1>3. Accepts(h, f)
  BY <1>1, <1>2, Accepted
<1>4. /\ \/ OnCommand(h, f, e) \/ OnName(h, f, e) \/ OnListing(h, f, e)
         \/ OnSize(h, f, e) \/ OnChunk(h, f, e) \/ OnSign(h, f, e)
      /\ UNCHANGED refused
  BY <1>1, <1>3 DEF Receive
<1> QED BY <1>1, <1>2, <1>4, OnCommandStep, OnNameStep, OnListingStep, OnSizeStep,
           OnChunkStep, OnSignStep

-----------------------------------------------------------------------------
(* The invariant                                                           *)

\* It holds after the handshake.
LEMMA Initially == Init => IInv
<1> SUFFICES ASSUME Init PROVE IInv
  OBVIOUS
<1>1. PICK s, c, e :
        /\ s \in 0..(NonceMod - 1) /\ c \in 0..(NonceMod - 1)
        /\ e = [key |-> 1, iv |-> [base |-> 1, count |-> 2], local |-> s, remote |-> c]
        /\ ep = [server |-> e, client |-> [e EXCEPT !.local = c, !.remote = s]]
  BY DEF Init
<1>2. ep = [h \in Host |-> IF h = "server" THEN e ELSE [e EXCEPT !.local = c, !.remote = s]]
  BY <1>1 DEF Host
<1>3. pc = [h \in Host |-> Home(h)]
  BY DEF Init, Host, Home
<1>4. /\ ep \in [Host -> EndpointSet]
      /\ \A h \in Host : ep[h].key = 1 /\ ep[h].iv.base = 1 /\ ep[h].iv.count = 2
      /\ ep["server"].local = s /\ ep["server"].remote = c
      /\ ep["client"].local = c /\ ep["client"].remote = s
  <2>1. PICK d : d = [e EXCEPT !.local = c, !.remote = s]
    OBVIOUS
  <2>2. /\ e \in EndpointSet /\ e.key = 1 /\ e.iv.base = 1 /\ e.iv.count = 2
        /\ e.local = s /\ e.remote = c
    BY <1>1, NonceAssumption DEF EndpointSet
  <2>3. /\ d \in EndpointSet /\ d.key = 1 /\ d.iv.base = 1 /\ d.iv.count = 2
        /\ d.local = c /\ d.remote = s
    BY <1>1, <2>1, NonceAssumption DEF EndpointSet
  <2>4. /\ ep = [h \in Host |-> IF h = "server" THEN e ELSE d]
        /\ ep["server"] = e /\ ep["client"] = d
    BY <1>2, <2>1 DEF Host
  <2> QED BY <2>2, <2>3, <2>4
<1>5. <<>> \in Seq(SealSet) /\ IsSeq(<<>>) /\ Len(<<>>) = 0
  <2>1. <<>> \in Seq(SealSet)
    OBVIOUS
  <2> QED BY <2>1 DEF IsSeq
<1>6. TypeOK
  <2>1. \A h \in Host : pc[h] \in PcSet(h)
    BY <1>3, HomeFacts
  <2>2. /\ torn \in BOOLEAN /\ open \in [Host -> BOOLEAN] /\ op \in [Host -> Ops]
        /\ size \in [Host -> 0..MaxChunks] /\ rest \in [Host -> 0..MaxChunks]
        /\ \A h \in Host : rest[h] <= size[h]
    <3>1. 0 \in 0..MaxChunks /\ "list" \in Ops
      BY SessionBounds DEF Ops
    <3>2. torn = FALSE /\ open = [h \in Host |-> TRUE] /\ op = [h \in Host |-> "list"]
      BY DEF Init
    <3>3. size = [h \in Host |-> 0] /\ rest = [h \in Host |-> 0]
      BY DEF Init
    <3>4. \A h \in Host : rest[h] <= size[h]
      BY <3>3
    <3> QED BY <3>1, <3>2, <3>3, <3>4
  <2>3. reason = "none"
    BY DEF Init
  <2> QED BY <1>4, <2>1, <2>2, <2>3, PcTypes
<1>7. SeqsInv
  <2>1. pc \in [Host -> Pcs]
    BY <1>3 DEF Pcs, Home
  <2>2. inbox \in [Host -> Seq({})]
    BY DEF Init
  <2>3. cipher \in [Host -> SealSet]
    BY DEF Init, NoSeal, Blank, NoKey, SealSet
  <2> QED BY <1>5, <2>1, <2>2, <2>3 DEF SeqsInv, Init
<1>8. KeyInv
  BY <1>3, <1>4 DEF KeyInv, Init
<1>9. PathsInv
  <2>1. ASSUME NEW h \in Host
        PROVE  \E v : /\ At(h, v) /\ Sound(h, v) /\ v.pc = Home(h) /\ v.n = 0 /\ v.count = 2
                      /\ v.remote = ep[h].remote
    <3>1. PICK v : v = [pc |-> Home(h), count |-> 2, remote |-> ep[h].remote, op |-> "list",
                        size |-> 0, rest |-> 0, cipher |-> NoSeal, n |-> 0]
      OBVIOUS
    <3>2. At(h, v)
      BY <1>3, <1>4, <1>5, <3>1 DEF At, Init, Log
    <3>3. Numbers(v)
      BY <1>4, <3>1, SessionBounds DEF Numbers, EndpointSet
    <3>4. Doing(h, v)
      BY <3>1 DEF Doing, Home, Receives, Sending, Host
    <3>5. Counted(h, v)
      BY <1>5, <3>1 DEF Counted, Home, Init, Host
    <3>6. Past(v) /\ v.pc \notin {"gone", "refuse"}
      BY <1>5, <3>1 DEF Past, Init, Home
    <3>7. Sound(h, v)
      BY <3>3, <3>4, <3>5, <3>6 DEF Sound
    <3> QED BY <3>1, <3>2, <3>7
  <2>2. "server" \in Host /\ "client" \in Host
    BY DEF Host
  <2>3. PICK a : /\ At("server", a) /\ Sound("server", a) /\ a.pc = "select" /\ a.n = 0
                 /\ a.count = 2 /\ a.remote = ep["server"].remote
    BY <2>1, <2>2 DEF Home
  <2>4. PICK b : /\ At("client", b) /\ Sound("client", b) /\ b.pc = "prompt" /\ b.n = 0
                 /\ b.count = 2 /\ b.remote = ep["client"].remote
    BY <2>1, <2>2 DEF Home
  <2>5. \A h \in Host : Len(inbox[h]) = 0
    BY <1>5 DEF Init
  <2>6. Path("server", <<a>>) /\ Path("client", <<b>>)
    BY <2>2, <2>3, <2>4, <2>5 DEF Path
  <2>7. Together(a, b)
    BY <1>4, <2>3, <2>4 DEF Together
  <2>8. <<a>>[End("server")] = a /\ <<b>>[End("client")] = b
    BY <2>2, <2>5 DEF End
  <2> QED BY <2>6, <2>7, <2>8 DEF PathsInv
<1>10. NeverRefused /\ FreshIVs /\ EndsForAReason
  BY <1>3, <1>5, HomeFacts DEF Init, NeverRefused, FreshIVs, EndsForAReason
<1> QED BY <1>6, <1>7, <1>8, <1>9, <1>10 DEF IInv

\* It does not depend on anything but the variables.
LEMMA Stutters == ASSUME IInv, UNCHANGED vars PROVE IInv'
<1> USE DEF vars, transfer, logs
<1>1. TypeOK' /\ SeqsInv' /\ KeyInv' /\ NeverRefused' /\ FreshIVs' /\ EndsForAReason'
  BY DEF IInv, TypeOK, SeqsInv, KeyInv, Alive, NeverRefused, FreshIVs, EndsForAReason
<1>2. PathsInv'
  <2>1. UNCHANGED <<ep, pc, inbox, op, size, rest, cipher, asked, done, answered, seals, reason>>
    OBVIOUS
  <2>2. \A h, v : (At(h, v)' <=> At(h, v)) /\ (Sound(h, v)' <=> Sound(h, v))
    BY <2>1 DEF At, Log, Sound, Numbers, Doing, Counted, Fresh, Past
  <2>3. \A h : (Alive(h)' <=> Alive(h)) /\ Log(h)' = Log(h) /\ End(h)' = End(h)
    BY <2>1 DEF Alive, Log, End
  <2>4. \A h, V : Path(h, V)' <=> Path(h, V)
    BY <2>1, <2>2, <2>3 DEF Path
  <2>5. \A s, c : Together(s, c)' <=> Together(s, c)
    BY <2>1 DEF Together
  <2>6. PICK S, C : /\ Alive("server") => Path("server", S)
                    /\ Alive("client") => Path("client", C)
                    /\ Alive("server") /\ Alive("client") =>
                         Together(S[End("server")], C[End("client")])
    BY DEF IInv, PathsInv
  <2> QED BY <2>3, <2>4, <2>5, <2>6 DEF PathsInv
<1> QED BY <1>1, <1>2 DEF IInv

\* Every step preserves it.
LEMMA Inductive == ASSUME IInv, [Next]_vars PROVE IInv'
<1>1. CASE AskList \/ AskGet
  BY <1>1, AskStep
<1>2. CASE TypeName
  BY <1>2, TypeNameStep
<1>3. CASE AskUpload
  BY <1>3, AskUploadStep
<1>4. CASE Quit \/ ProtocolError
  BY <1>4, QuitSteps
<1>5. CASE Finished \/ UNCHANGED vars
  BY <1>5, Stutters DEF Finished
<1>6. ASSUME NEW h \in Host, Works(h) \/ SendFails(h) \/ Die(h) \/ ReadFails(h)
      PROVE  IInv'
  <2>1. CASE Receive(h)
    BY <2>1, ReceiveStep
  <2>2. CASE Loses(h) \/ SendFails(h) \/ Die(h) \/ ReadFails(h)
    BY <2>2, EndSteps
  <2>3. CASE RefuseName(h)
    BY <2>3, RefuseNameStep
  <2>4. CASE Announce(h)
    BY <2>4, AnnounceStep
  <2>5. CASE SendChunk(h)
    BY <2>5, SendChunkStep
  <2>6. CASE SendSign(h)
    BY <2>6, SendSignStep
  <2> QED BY <1>6, <2>1, <2>2, <2>3, <2>4, <2>5, <2>6 DEF Works
<1> QED BY <1>1, <1>2, <1>3, <1>4, <1>5, <1>6 DEF Next, User

\* The inductive invariant holds throughout: whatever the user types, the files
\* and the faults, the frames under way lead two living hosts of client.cpp and
\* server.cpp to where they meet.
THEOREM Invariance == Spec => []IInv
<1>1. Init => IInv
  BY Initially
<1>2. IInv /\ [Next]_vars => IInv'
  BY Inductive
<1> QED BY <1>1, <1>2, PTL DEF Spec

\* The state of the two processes keeps its type: among others, no nonce leaves
\* its width and no chunk is counted below zero.
THEOREM TypeCorrect == Spec => []TypeOK
<1>1. IInv => TypeOK
  BY DEF IInv
<1> QED BY <1>1, Invariance, PTL

\* Neither host ever refuses a frame of the other: not for its kind, its MAC, or
\* the key and IV it was encrypted with.
THEOREM NoneRefused == Spec => []NeverRefused
<1>1. IInv => NeverRefused
  BY DEF IInv
<1> QED BY <1>1, Invariance, PTL

\* KeyManager's key and IV never encrypt twice in a session.
THEOREM IVsFresh == Spec => []FreshIVs
<1>1. IInv => FreshIVs
  BY DEF IInv
<1> QED BY <1>1, Invariance, PTL

\* A host ends only for one of the reasons named in reason.
THEOREM EndsExplained == Spec => []EndsForAReason
<1>1. IInv => EndsForAReason
  BY DEF IInv
<1> QED BY <1>1, Invariance, PTL

\* Nothing is under way to a client at its prompt.
LEMMA PromptQuiet ==
  ASSUME IInv, pc["client"] = "prompt"
  PROVE  inbox["client"] = <<>>
<1>1. "client" \in Host /\ Alive("client") /\ "prompt" \notin Awaiting
  BY DEF Host, Alive, Ended, Awaiting, AwaitedKind
<1> QED BY <1>1, Standing

\* The client at its prompt finds nothing in its socket while the server is there:
\* what client.cpp takes for a protocol error is the server's end.
THEOREM OnlyTheAsked == Spec => []NoUnsolicited
<1>1. IInv => NoUnsolicited
  BY PromptQuiet DEF NoUnsolicited
<1> QED BY <1>1, Invariance, PTL

\* Between two commands the IVs of KeyManager and the nonces of HMACManager agree.
THEOREM InStep == Spec => []LockstepAtRest
<1>1. ASSUME IInv, pc["server"] = "select", pc["client"] = "prompt", inbox["server"] = <<>>
      PROVE  /\ ep["server"].iv = ep["client"].iv
             /\ ep["server"].local = ep["client"].remote
             /\ ep["server"].remote = ep["client"].local
  <2>1. /\ "client" \in Host /\ "server" \in Host /\ Alive("server") /\ Alive("client")
        /\ inbox["client"] = <<>>
    BY <1>1, PromptQuiet DEF Host, Alive, Ended
  <2>2. PICK S, C : Path("server", S) /\ Path("client", C)
                    /\ Together(S[End("server")], C[End("client")])
    BY <1>1, <2>1 DEF IInv, PathsInv
  <2>3. End("server") = 1 /\ End("client") = 1
    BY <1>1, <2>1 DEF End
  <2>4. /\ S[1].count = ep["server"].iv.count /\ S[1].remote = ep["server"].remote
        /\ C[1].count = ep["client"].iv.count /\ C[1].remote = ep["client"].remote
    BY <2>2 DEF Path, At
  <2>5. /\ ep["server"].iv.count = ep["client"].iv.count
        /\ ep["server"].remote = ep["client"].local
        /\ ep["client"].remote = ep["server"].local
    BY <2>2, <2>3, <2>4 DEF Together
  <2>6. ep["server"].iv.base = ep["client"].iv.base
    BY <1>1, <2>1 DEF IInv, KeyInv
  <2>7. /\ ep["server"].iv \in [base : Nat, count : Nat]
        /\ ep["client"].iv \in [base : Nat, count : Nat]
    BY <1>1, <2>1 DEF IInv, TypeOK, EndpointSet
  <2> QED BY <2>5, <2>6, <2>7
<1>2. IInv => LockstepAtRest
  BY <1>1 DEF LockstepAtRest
<1> QED BY <1>2, Invariance, PTL

-----------------------------------------------------------------------------
(* The text of a listing                                                   *)

\* One step of split: the tokens so far and the next character.
Token(v, c) == IF c = Space THEN Append(v, <<>>) ELSE [v EXCEPT ![Len(v)] = Append(@, c)]

\* The characters of s lead split from the tokens a to the tokens b.
Leads(s, a, b) == \E g : /\ g[0] = a /\ g[Len(s)] = b
                         /\ \A i \in 1..Len(s) : g[i] = Token(g[i - 1], s[i])

\* A step keeps tokens that are sequences of characters.
LEMMA TokenType ==
  ASSUME NEW C, NEW v \in Seq(Seq(C)), NEW c \in C
  PROVE  Token(v, c) \in Seq(Seq(C))
<1>1. CASE c = Space
  <2>1. <<>> \in Seq(C)
    OBVIOUS
  <2> QED BY <1>1, <2>1 DEF Token
<1>2. CASE c # Space
  <2>1. PICK w : w = [v EXCEPT ![Len(v)] = Append(@, c)]
    OBVIOUS
  <2>2. Token(v, c) = w
    BY <1>2, <2>1 DEF Token
  <2>3. PICK n \in Nat : n = Len(v) /\ v \in [1..n -> Seq(C)]
    OBVIOUS
  <2>4. w = [i \in 1..n |-> IF i = n THEN Append(v[n], c) ELSE v[i]]
    BY <2>1, <2>3
  <2>5. \A i \in 1..n : v[i] \in Seq(C) /\ Append(v[i], c) \in Seq(C)
    BY <2>3
  <2>6. w \in [1..n -> Seq(C)]
    BY <2>4, <2>5
  <2> QED BY <2>2, <2>6
<1> QED BY <1>1, <1>2

\* split goes through the characters one by one.
LEMMA TokensTrace ==
  ASSUME NEW C, NEW s \in Seq(C)
  PROVE  \E g \in [0..Len(s) -> Seq(Seq(C))] :
           /\ g[0] = << <<>> >> /\ g[Len(s)] = Tokens(s)
           /\ \A i \in 1..Len(s) : g[i] = Token(g[i - 1], s[i])
<1>1. PICK n \in Nat : n = Len(s)
  OBVIOUS
<1> DEFINE V == Seq(Seq(C))
<1>2. PICK step : step = [p \in V \X (1..n) |-> Token(p[1], s[p[2]])]
  OBVIOUS
<1>3. \A i \in 1..n : s[i] \in C
  BY <1>1
<1>4. step \in [V \X (1..n) -> V]
  <2>1. ASSUME NEW p \in V \X (1..n) PROVE Token(p[1], s[p[2]]) \in V
    <3>1. p[1] \in V /\ s[p[2]] \in C
      BY <1>3
    <3> QED BY <3>1, TokenType
  <2> QED BY <1>2, <2>1
<1>5. PICK base : base = << <<>> >>
  OBVIOUS
<1>6. base \in V
  <2>1. <<>> \in Seq(C)
    OBVIOUS
  <2> QED BY <1>5, <2>1
<1>7. \A v \in V, i \in 1..n : step[<<v, i>>] = Token(v, s[i])
  BY <1>2
<1> HIDE DEF V
<1>81. PICK it, g : Folding(it, g, n, V, base, step)
  BY <1>4, <1>6, Folds
<1>8. /\ Iterates(it, n, V, base, step)
      /\ \A x \in SUBSET (1..n) : it[x] \in V
      /\ \A jt : Iterates(jt, n, V, base, step) => jt = it
      /\ g \in [0..n -> V] /\ g[0] = base /\ g[n] = it[1..n]
      /\ \A i \in 1..n : g[i] = step[<<g[i - 1], i>>]
  BY <1>81 DEF Folding
<1>9. DOMAIN s = 1..n
  BY <1>1
<1>10. \A x \in SUBSET (1..n) : x # {} => Max(x) \in 1..n /\ x \ {Max(x)} \in SUBSET (1..n)
  BY MaxOf
<1> DEFINE Equation(jt) ==
      jt = [x \in SUBSET (DOMAIN s) |-> IF x = {} THEN << <<>> >>
              ELSE IF s[Max(x)] = Space THEN Append(jt[x \ {Max(x)}], <<>>)
                   ELSE [jt[x \ {Max(x)}] EXCEPT ![Len(jt[x \ {Max(x)}])] = Append(@, s[Max(x)])]]
<1>11. ASSUME NEW jt PROVE Equation(jt) <=>
         jt = [x \in SUBSET (1..n) |-> IF x = {} THEN base
                                       ELSE Token(jt[x \ {Max(x)}], s[Max(x)])]
  BY <1>5, <1>9 DEF Token
<1>12. Equation(it)
  <2>1. ASSUME NEW x \in SUBSET (1..n), x # {}
        PROVE  it[x] = Token(it[x \ {Max(x)}], s[Max(x)])
    <3>1. PICK m : m = Max(x)
      OBVIOUS
    <3>2. m \in 1..n /\ it[x \ {m}] \in V
      BY <1>8, <1>10, <2>1, <3>1
    <3>3. it[x] = step[<<it[x \ {m}], m>>]
      BY <1>8, <2>1, <3>1, <3>2 DEF Iterates
    <3> QED BY <1>7, <3>1, <3>2, <3>3
  <2>2. it = [x \in SUBSET (1..n) |-> it[x]] /\ it[{}] = base
    BY <1>8 DEF Iterates
  <2>3. it = [x \in SUBSET (1..n) |-> IF x = {} THEN base
                                       ELSE Token(it[x \ {Max(x)}], s[Max(x)])]
    BY <2>1, <2>2
  <2> QED BY <1>11, <2>3
<1>13. ASSUME NEW jt, Equation(jt) PROVE jt = it
  <2>1. jt = [x \in SUBSET (1..n) |-> IF x = {} THEN base
                                       ELSE Token(jt[x \ {Max(x)}], s[Max(x)])]
    BY <1>11, <1>13
  <2>2. {} \in SUBSET (1..n)
    OBVIOUS
  <2>3. jt[{}] = base /\ jt = [x \in SUBSET (1..n) |-> jt[x]]
    BY <2>1, <2>2
  <2>4. \A x \in SUBSET (1..n) : x # {} /\ jt[x \ {Max(x)}] \in V =>
          jt[x] = step[<<jt[x \ {Max(x)}], Max(x)>>]
    BY <1>7, <1>10, <2>1
  <2>5. Iterates(jt, n, V, base, step)
    BY <2>3, <2>4 DEF Iterates
  <2> QED BY <1>8, <2>5
<1>14. Tokens(s) = it[DOMAIN s]
  BY <1>12, <1>13 DEF Tokens, FoldLeft, MapThenFoldSet
<1>15. \A i \in 1..n : g[i] = Token(g[i - 1], s[i])
  <2>1. \A i \in 1..n : i - 1 \in 0..n
    OBVIOUS
  <2> QED BY <1>7, <1>8, <2>1
<1> QED BY <1>1, <1>5, <1>8, <1>9, <1>14, <1>15 DEF V

\* What the steps lead to is what split returns.
LEMMA TokensLead ==
  ASSUME NEW C, NEW s \in Seq(C), NEW b, Leads(s, << <<>> >>, b)
  PROVE  Tokens(s) = b
<1>1. PICK n \in Nat : n = Len(s)
  OBVIOUS
<1>2. PICK g \in [0..n -> Seq(Seq(C))] :
        /\ g[0] = << <<>> >> /\ g[n] = Tokens(s)
        /\ \A i \in 1..n : g[i] = Token(g[i - 1], s[i])
  BY <1>1, TokensTrace
<1>3. PICK h : /\ h[0] = << <<>> >> /\ h[n] = b
               /\ \A i \in 1..n : h[i] = Token(h[i - 1], s[i])
  BY <1>1 DEF Leads
<1>4. g[n] = h[n]
  <2>1. \A i \in 1..n : g[i - 1] = h[i - 1] => g[i] = h[i]
    BY <1>2, <1>3
  <2> QED BY <1>2, <1>3, <2>1, TraceOnce
<1> QED BY <1>2, <1>3, <1>4

\* Two texts in a row lead from the tokens before the first to those after the
\* second.
LEMMA LeadsOn ==
  ASSUME NEW C, NEW s \in Seq(C), NEW r \in Seq(C), NEW a, NEW b, NEW c,
         Leads(s, a, b), Leads(r, b, c)
  PROVE  Leads(s \o r, a, c)
<1>1. PICK g : /\ g[0] = a /\ g[Len(s)] = b
               /\ \A i \in 1..Len(s) : g[i] = Token(g[i - 1], s[i])
  BY DEF Leads
<1>2. PICK h : /\ h[0] = b /\ h[Len(r)] = c
               /\ \A i \in 1..Len(r) : h[i] = Token(h[i - 1], r[i])
  BY DEF Leads
<1>3. PICK t, n, m : t = s \o r /\ n = Len(s) /\ m = Len(r)
  OBVIOUS
<1>4. /\ n \in Nat /\ m \in Nat /\ Len(t) = n + m
      /\ \A i \in 1..(n + m) : t[i] = IF i <= n THEN s[i] ELSE r[i - n]
  BY <1>3, ConcatProperties
<1>5. PICK f : f = [i \in 0..(n + m) |-> IF i <= n THEN g[i] ELSE h[i - n]]
  OBVIOUS
<1>6. f[0] = a
  BY <1>1, <1>4, <1>5
<1>7. f[n + m] = c
  <2>1. CASE m = 0
    BY <1>1, <1>2, <1>3, <1>4, <1>5, <2>1
  <2>2. CASE m # 0
    <3>1. ~(n + m <= n) /\ (n + m) - n = m /\ n + m \in 0..(n + m)
      BY <1>4, <2>2
    <3> QED BY <1>2, <1>3, <1>5, <3>1
  <2> QED BY <2>1, <2>2
<1>8. ASSUME NEW i \in 1..(n + m) PROVE f[i] = Token(f[i - 1], t[i])
  <2>1. CASE i <= n
    <3>1. i \in 1..n /\ i \in 0..(n + m) /\ i - 1 \in 0..(n + m) /\ i - 1 <= n
      BY <1>4, <2>1
    <3> QED BY <1>1, <1>3, <1>4, <1>5, <2>1, <3>1
  <2>2. CASE ~(i <= n)
    <3>1. /\ i - n \in 1..m /\ i \in 0..(n + m) /\ i - 1 \in 0..(n + m)
          /\ (i - n) - 1 = (i - 1) - n
      BY <1>4, <2>2
    <3>2. h[i - n] = Token(h[(i - n) - 1], r[i - n])
      BY <1>2, <1>3, <3>1
    <3>3. f[i - 1] = h[(i - n) - 1]
      <4>1. CASE i - 1 <= n
        <5>1. i - 1 = n /\ (i - n) - 1 = 0
          BY <1>4, <2>2, <4>1
        <5> QED BY <1>1, <1>2, <1>3, <1>5, <3>1, <4>1, <5>1
      <4>2. CASE ~(i - 1 <= n)
        BY <1>5, <3>1, <4>2
      <4> QED BY <4>1, <4>2
    <3>4. f[i] = h[i - n] /\ t[i] = r[i - n]
      BY <1>4, <1>5, <2>2, <3>1
    <3> QED BY <3>2, <3>3, <3>4
  <2> QED BY <2>1, <2>2
<1> QED BY <1>3, <1>4, <1>6, <1>7, <1>8 DEF Leads

\* Tokens found before stay before those that a character makes or extends.
LEMMA TokenBehind ==
  ASSUME NEW C
  PROVE  \A v, x \in Seq(Seq(C)), c \in C :
           Len(x) # 0 => v \o Token(x, c) = Token(v \o x, c) /\ Len(Token(x, c)) # 0
<1> SUFFICES ASSUME NEW v \in Seq(Seq(C)), NEW x \in Seq(Seq(C)), NEW c \in C, Len(x) # 0
             PROVE  v \o Token(x, c) = Token(v \o x, c) /\ Len(Token(x, c)) # 0
  OBVIOUS
<1>1. PICK n, m : n = Len(v) /\ m = Len(x)
  OBVIOUS
<1>2. n \in Nat /\ m \in Nat /\ m # 0
  BY <1>1
<1>3. PICK t : t = v \o x
  OBVIOUS
<1>4. /\ t \in Seq(Seq(C)) /\ Len(t) = n + m
      /\ \A i \in 1..(n + m) : t[i] = IF i <= n THEN v[i] ELSE x[i - n]
  BY <1>1, <1>3, ConcatProperties
<1>5. PICK y : y = Token(x, c)
  OBVIOUS
<1>6. y \in Seq(Seq(C))
  BY <1>5, TokenType
<1>7. PICK z : z = v \o y
  OBVIOUS
<1>8. /\ z \in Seq(Seq(C)) /\ Len(z) = n + Len(y)
      /\ \A i \in 1..(n + Len(y)) : z[i] = IF i <= n THEN v[i] ELSE y[i - n]
  BY <1>1, <1>6, <1>7, ConcatProperties
<1>9. PICK w : w = Token(t, c)
  OBVIOUS
<1>10. w \in Seq(Seq(C))
  BY <1>4, <1>9, TokenType
<1>11. CASE c = Space
  <2>1. <<>> \in Seq(C)
    OBVIOUS
  <2>2. PICK l, k : l = m + 1 /\ k = (n + m) + 1
    OBVIOUS
  <2>3. y = [i \in 1..l |-> IF i = l THEN <<>> ELSE x[i]]
    <3>1. y = Append(x, <<>>) /\ l = Len(x) + 1
      BY <1>1, <1>5, <1>11, <2>2 DEF Token
    <3>2. PICK e \in Seq(C) : e = <<>>
      BY <2>1
    <3>3. Append(x, e) = [i \in 1..l |-> IF i = l THEN e ELSE x[i]]
      BY <3>1, AppendIs
    <3> QED BY <3>1, <3>2, <3>3
  <2>4. w = [i \in 1..k |-> IF i = k THEN <<>> ELSE t[i]]
    <3>1. w = Append(t, <<>>) /\ k = Len(t) + 1
      BY <1>4, <1>9, <1>11, <2>2 DEF Token
    <3>2. PICK e \in Seq(C) : e = <<>>
      BY <2>1
    <3>3. Append(t, e) = [i \in 1..k |-> IF i = k THEN e ELSE t[i]]
      BY <1>4, <3>1, AppendIs
    <3> QED BY <3>1, <3>2, <3>3
  <2>5. l \in Nat /\ k \in Nat /\ k = n + l
    BY <1>2, <2>2
  <2>6. Len(y) = l /\ Len(w) = k
    BY <1>6, <1>10, <2>3, <2>4, <2>5
  <2>7. ASSUME NEW i \in 1..k PROVE z[i] = w[i]
    <3>1. CASE i <= n
      <4>1. i # k /\ i \in 1..(n + m) /\ i \in 1..(n + Len(y))
        BY <1>2, <2>2, <2>5, <2>6, <3>1
      <4>2. z[i] = v[i] /\ t[i] = v[i]
        BY <1>4, <1>8, <3>1, <4>1
      <4>3. w[i] = t[i]
        BY <2>4, <4>1
      <4> QED BY <4>2, <4>3
    <3>2. CASE ~(i <= n)
      <4>1. PICK j : j = i - n
        OBVIOUS
      <4>2. j \in 1..l /\ (j = l <=> i = k) /\ (i # k => i \in 1..(n + m))
        BY <1>2, <2>2, <2>5, <3>2, <4>1
      <4>3. z[i] = y[j]
        BY <1>8, <2>5, <2>6, <3>2, <4>1
      <4>4. i # k => t[i] = x[j]
        BY <1>4, <3>2, <4>1, <4>2
      <4> QED BY <2>3, <2>4, <4>2, <4>3, <4>4
    <3> QED BY <3>1, <3>2
  <2>8. z = w
    BY <1>8, <1>10, <2>5, <2>6, <2>7, SeqEqual
  <2> QED BY <1>3, <1>5, <1>6, <1>7, <1>9, <2>2, <2>5, <2>6, <2>8, <1>2
<1>12. CASE c # Space
  <2>1. y = [i \in 1..m |-> IF i = m THEN Append(x[m], c) ELSE x[i]]
    <3>1. y = [x EXCEPT ![m] = Append(@, c)]
      BY <1>1, <1>5, <1>12 DEF Token
    <3>2. x = [i \in 1..m |-> x[i]] /\ m \in 1..m
      BY <1>1, <1>2
    <3> QED BY <3>1, <3>2
  <2>2. PICK k : k = n + m
    OBVIOUS
  <2>3. w = [t EXCEPT ![k] = Append(@, c)]
    BY <1>4, <1>9, <1>12, <2>2 DEF Token
  <2>4. t = [i \in 1..k |-> t[i]]
    BY <1>4, <2>2
  <2>5. w = [i \in 1..k |-> IF i = k THEN Append(t[k], c) ELSE t[i]]
    BY <2>3, <2>4
  <2>6. Len(y) = m /\ Len(w) = k /\ k \in Nat
    BY <1>2, <1>6, <1>10, <2>1, <2>2, <2>5
  <2>7. ASSUME NEW i \in 1..k PROVE z[i] = w[i]
    <3>1. CASE i <= n
      <4>1. i # k /\ i \in 1..(n + m) /\ i \in 1..(n + Len(y))
        BY <1>2, <2>2, <2>6, <3>1
      <4> QED BY <1>4, <1>8, <2>5, <3>1, <4>1
    <3>2. CASE ~(i <= n)
      <4>1. PICK j : j = i - n
        OBVIOUS
      <4>2. j \in 1..m /\ (j = m <=> i = k) /\ i \in 1..(n + m)
        BY <1>2, <2>2, <3>2, <4>1
      <4>3. z[i] = y[j] /\ t[i] = x[j]
        BY <1>4, <1>8, <2>6, <3>2, <4>1, <4>2
      <4> QED BY <2>1, <2>5, <4>2, <4>3
    <3> QED BY <3>1, <3>2
  <2>8. Len(z) = k
    BY <1>8, <2>2, <2>6
  <2>9. z = w
    BY <1>8, <1>10, <2>6, <2>7, <2>8, SeqEqual
  <2> QED BY <1>2, <1>3, <1>5, <1>6, <1>7, <1>9, <2>6, <2>9
<1> QED BY <1>11, <1>12

\* A name behind a delimiter adds its own tokens.
LEMMA NameLeads ==
  ASSUME NEW C, NEW w \in Seq(C), NEW v \in Seq(Seq(C))
  PROVE  Tokens(w) \in Seq(Seq(C)) /\ Leads(w, Append(v, <<>>), v \o Tokens(w))
<1>1. PICK n \in Nat : n = Len(w)
  OBVIOUS
<1>2. PICK g \in [0..n -> Seq(Seq(C))] :
        /\ g[0] = << <<>> >> /\ g[n] = Tokens(w)
        /\ \A i \in 1..n : g[i] = Token(g[i - 1], w[i])
  BY <1>1, TokensTrace
<1> DEFINE T == {k \in Nat : k <= n => Len(g[k]) # 0}
<1>3. 0 \in T
  <2>1. Len(<< <<>> >>) = 1
    OBVIOUS
  <2>2. Len(g[0]) # 0
    BY <1>2, <2>1
  <2> QED BY <2>2
<1>4. ASSUME NEW k \in Nat, k \in T PROVE k + 1 \in T
  <2> SUFFICES ASSUME k + 1 <= n PROVE Len(g[k + 1]) # 0
    OBVIOUS
  <2>1. PICK i : i = k + 1
    OBVIOUS
  <2>2. i \in 1..n /\ i - 1 = k /\ k \in 0..n
    BY <2>1
  <2>3. w[i] \in C /\ g[k] \in Seq(Seq(C)) /\ Len(g[k]) # 0
    <3>1. w[i] \in C
      BY <1>1, <2>2
    <3>2. g[k] \in Seq(Seq(C))
      BY <1>2, <2>2
    <3>3. k <= n
      BY <2>2
    <3> QED BY <1>4, <3>1, <3>2, <3>3
  <2>4. g[i] = Token(g[k], w[i])
    BY <1>2, <2>2
  <2>5. <<>> \in Seq(Seq(C))
    OBVIOUS
  <2>6. Len(Token(g[k], w[i])) # 0
    BY <2>3, <2>5, TokenBehind
  <2> QED BY <2>1, <2>4, <2>6
<1> HIDE DEF T
<1>5. \A k \in 0..n : Len(g[k]) # 0
  <2>1. Nat \subseteq T
    BY <1>3, <1>4, ByInduction
  <2>2. \A k \in 0..n : k \in Nat /\ k <= n
    OBVIOUS
  <2> QED BY <2>1, <2>2 DEF T
<1>6. PICK h : h = [k \in 0..n |-> v \o g[k]]
  OBVIOUS
<1>7. h[0] = Append(v, <<>>)
  <2>1. <<>> \in Seq(C)
    OBVIOUS
  <2>2. v \o << <<>> >> = Append(v, <<>>)
    BY <2>1
  <2>3. 0 \in 0..n
    OBVIOUS
  <2>4. h[0] = v \o g[0]
    BY <1>6, <2>3
  <2> QED BY <1>2, <2>2, <2>4
<1>8. h[n] = v \o Tokens(w)
  BY <1>2, <1>6
<1>9. ASSUME NEW i \in 1..n PROVE h[i] = Token(h[i - 1], w[i])
  <2>1. PICK k : k = i - 1
    OBVIOUS
  <2>2. k \in 0..n /\ i \in 0..n /\ w[i] \in C /\ g[i] = Token(g[k], w[i])
    BY <1>1, <1>2, <2>1
  <2>3. g[k] \in Seq(Seq(C)) /\ Len(g[k]) # 0
    BY <1>2, <1>5, <2>2
  <2>4. v \o Token(g[k], w[i]) = Token(v \o g[k], w[i])
    <3>1. \A x \in Seq(Seq(C)), c \in C : Len(x) # 0 =>
             v \o Token(x, c) = Token(v \o x, c)
      <4>1. \A u, x \in Seq(Seq(C)), c \in C : Len(x) # 0 =>
               u \o Token(x, c) = Token(u \o x, c) /\ Len(Token(x, c)) # 0
        BY TokenBehind, Zenon
      <4> HIDE DEF Token
      <4> QED BY <4>1, Zenon
    <3> QED BY <2>2, <2>3, <3>1, Zenon
  <2>5. h[i] = v \o g[i]
    BY <1>6, <2>2
  <2>6. h[i - 1] = v \o g[k]
    BY <1>6, <2>1, <2>2
  <2> QED BY <2>2, <2>4, <2>5, <2>6
<1>10. Tokens(w) \in Seq(Seq(C))
  BY <1>2
<1> QED BY <1>1, <1>7, <1>8, <1>9, <1>10 DEF Leads

\* What split of library.cpp makes of the text of a listing are the names that
\* cmd_list of server.cpp put into it, those with spaces in pieces.
LEMMA SplitsAgain ==
  ASSUME NEW C, Space \in C, NEW names \in Seq(Seq(C)), names # <<>>
  PROVE  Split(Concatenated(names)) = Shown(names)
<1>1. PICK n \in Nat : n = Len(names) /\ n # 0 /\ DOMAIN names = 1..n
  OBVIOUS
<1>2. n = Len(names) /\ n # 0 /\ DOMAIN names = 1..n /\ 1 \in 1..n
  BY <1>1
<1>3. \A i \in 1..n : names[i] \in Seq(C)
  BY <1>2
<1>4. PICK seqs : seqs = [i \in 1..n |-> <<Space>> \o names[i]]
  OBVIOUS
<1>5. /\ seqs \in Seq(Seq(C)) /\ Len(seqs) = n /\ seqs # <<>>
      /\ \A i \in 1..n : seqs[i] = <<Space>> \o names[i] /\ seqs[i] \in Seq(C)
  <2>1. <<Space>> \in Seq(C)
    OBVIOUS
  <2>2. \A i \in 1..n : <<Space>> \o names[i] \in Seq(C)
    BY <1>3, <2>1
  <2>3. seqs \in [1..n -> Seq(C)]
    BY <1>4, <2>2
  <2>4. seqs \in Seq(Seq(C)) /\ Len(seqs) = n
    BY <2>3
  <2>5. seqs # <<>>
    BY <1>2, <2>4
  <2> QED BY <1>4, <2>2, <2>4, <2>5
<1>6. PICK f \in [1..n -> Seq(C)] : Flattening(f, seqs) /\ FlattenSeq(seqs) = f[n]
  BY <1>5, Flattens
<1>7. \A i \in 1..n : f[i] = IF i = 1 THEN seqs[i] ELSE f[i - 1] \o seqs[i]
  BY <1>5, <1>6 DEF Flattening
<1> DEFINE V == Seq(C)
<1>20. PICK toks : toks = [i \in 1..n |-> Tokens(names[i])]
  OBVIOUS
<1>21. /\ toks \in Seq(Seq(V)) /\ Len(toks) = n /\ toks # <<>>
       /\ \A i \in 1..n : toks[i] = Tokens(names[i]) /\ toks[i] \in Seq(V)
  <2>1. <<>> \in Seq(V)
    OBVIOUS
  <2>2. \A i \in 1..n : Tokens(names[i]) \in Seq(V)
    BY <1>3, <2>1, NameLeads
  <2>3. toks \in [1..n -> Seq(V)]
    BY <1>20, <2>2
  <2>4. toks \in Seq(Seq(V)) /\ Len(toks) = n
    BY <2>3
  <2>5. toks # <<>>
    BY <1>2, <2>4
  <2> QED BY <1>20, <2>2, <2>4, <2>5
<1> HIDE DEF V
<1>22. PICK a \in [1..n -> Seq(V)] : Flattening(a, toks) /\ FlattenSeq(toks) = a[n]
  BY <1>21, Flattens
<1>23. \A i \in 1..n : a[i] = IF i = 1 THEN toks[i] ELSE a[i - 1] \o toks[i]
  BY <1>21, <1>22 DEF Flattening
<1>24. Shown(names) = a[n]
  BY <1>2, <1>20, <1>22 DEF Shown
<1>9. ASSUME NEW v \in Seq(V) PROVE Leads(<<Space>>, v, Append(v, <<>>))
  <2>1. PICK g : g = [k \in 0..1 |-> IF k = 0 THEN v ELSE Append(v, <<>>)]
    OBVIOUS
  <2>2. g[0] = v /\ g[1] = Append(v, <<>>) /\ Token(v, Space) = Append(v, <<>>)
    BY <2>1 DEF Token
  <2>3. Len(<<Space>>) = 1 /\ <<Space>>[1] = Space
    OBVIOUS
  <2>4. \A k \in 1..1 : k = 1 /\ k - 1 = 0
    OBVIOUS
  <2> QED BY <2>2, <2>3, <2>4 DEF Leads
<1>10. ASSUME NEW i \in 1..n, NEW v \in Seq(V) PROVE Leads(seqs[i], v, v \o toks[i])
  <2>1. <<Space>> \in Seq(C) /\ names[i] \in Seq(C)
    BY <1>3
  <2>2. Leads(<<Space>>, v, Append(v, <<>>))
    BY <1>9
  <2>3. Leads(names[i], Append(v, <<>>), v \o toks[i])
    BY <1>21, <2>1, NameLeads DEF V
  <2> QED BY <1>5, <2>1, <2>2, <2>3, LeadsOn
<1> DEFINE T == {k \in Nat : k + 1 <= n => Leads(f[k + 1], <<>>, a[k + 1])}
<1>11. 0 \in T
  <2>1. PICK i \in 1..n : i = 1
    BY <1>2
  <2>2. f[i] = seqs[i] /\ a[i] = toks[i]
    BY <1>7, <1>23, <2>1
  <2>3. <<>> \in Seq(V) /\ <<>> \o toks[i] = toks[i]
    BY <1>21
  <2>4. Leads(f[i], <<>>, a[i])
    BY <1>10, <2>2, <2>3
  <2>5. 0 + 1 = i
    BY <2>1
  <2> QED BY <2>4, <2>5
<1>12. ASSUME NEW k \in Nat, k \in T PROVE k + 1 \in T
  <2> SUFFICES ASSUME (k + 1) + 1 <= n
               PROVE  Leads(f[(k + 1) + 1], <<>>, a[(k + 1) + 1])
    OBVIOUS
  <2>1. PICK i, j : i = (k + 1) + 1 /\ j = k + 1
    OBVIOUS
  <2>2. i \in 1..n /\ j \in 1..n /\ i # 1 /\ i - 1 = j
    BY <2>1
  <2>3. Leads(f[j], <<>>, a[j])
    BY <1>12, <2>1, <2>2
  <2>4. a[j] \in Seq(V) /\ a[i] = a[j] \o toks[i]
    BY <1>22, <1>23, <2>2
  <2>5. Leads(seqs[i], a[j], a[i])
    BY <1>10, <2>2, <2>4
  <2>6. f[i] = f[j] \o seqs[i] /\ f[j] \in Seq(C) /\ seqs[i] \in Seq(C)
    BY <1>5, <1>6, <1>7, <2>2
  <2>7. Leads(f[i], <<>>, a[i])
    BY <2>3, <2>5, <2>6, LeadsOn
  <2> QED BY <2>1, <2>7
<1> HIDE DEF T
<1>25. PICK shown : shown = a[n]
  OBVIOUS
<1>13. Leads(f[n], <<>>, shown)
  <2>1. n - 1 \in Nat /\ (n - 1) + 1 = n
    BY <1>2
  <2>2. n - 1 \in T
    BY <1>11, <1>12, <2>1, ByInduction
  <2>3. (n - 1) + 1 <= n => Leads(f[(n - 1) + 1], <<>>, a[(n - 1) + 1])
    BY <2>2 DEF T
  <2>4. n <= n
    BY <1>2
  <2> QED BY <1>25, <2>1, <2>3, <2>4
<1>14. f[n] \in Seq(C) /\ f[n] # <<>> /\ f[n][1] = Space
  <2> DEFINE U == {k \in Nat : k + 1 <= n => f[k + 1] # <<>> /\ f[k + 1][1] = Space}
  <2>1. ASSUME NEW i \in 1..n PROVE seqs[i] # <<>> /\ seqs[i][1] = Space
    <3>1. PICK w : w = names[i] /\ w \in Seq(C)
      BY <1>3
    <3>2. <<Space>> \in Seq(C) /\ Len(<<Space>>) = 1 /\ <<Space>>[1] = Space
      BY <1>1
    <3>3. Len(<<Space>> \o w) = 1 + Len(w) /\ (<<Space>> \o w)[1] = Space
      BY <3>1, <3>2, ConcatProperties
    <3>4. <<Space>> \o w # <<>>
      BY <3>1, <3>3
    <3> QED BY <1>5, <3>1, <3>3, <3>4
  <2>2. 0 \in U
    <3>1. 1 \in 1..n /\ 0 + 1 = 1
      BY <1>2
    <3> QED BY <1>7, <2>1, <3>1
  <2>3. ASSUME NEW k \in Nat, k \in U PROVE k + 1 \in U
    <3> SUFFICES ASSUME (k + 1) + 1 <= n
                 PROVE  f[(k + 1) + 1] # <<>> /\ f[(k + 1) + 1][1] = Space
      OBVIOUS
    <3>1. PICK i, j : i = (k + 1) + 1 /\ j = k + 1
      OBVIOUS
    <3>2. i \in 1..n /\ j \in 1..n /\ i # 1 /\ i - 1 = j
      BY <3>1
    <3>3. f[i] = f[j] \o seqs[i] /\ f[j] \in Seq(C) /\ seqs[i] \in Seq(C)
      BY <1>5, <1>7, <3>2
    <3>4. f[j] # <<>> /\ f[j][1] = Space
      BY <2>3, <3>1, <3>2
    <3>5. f[i] # <<>> /\ f[i][1] = Space
      <4>1. PICK p, q \in Seq(C) : p = f[j] /\ q = seqs[i]
        BY <3>3
      <4>2. Len(p) \in Nat \ {0} /\ Len(q) \in Nat /\ p[1] = Space
        BY <3>4, <4>1
      <4>3. Len(p \o q) = Len(p) + Len(q) /\ (p \o q)[1] = p[1]
        <5>1. PICK l, r : l = Len(p) /\ r = Len(q)
          OBVIOUS
        <5>2. 1 \in 1..(l + r) /\ 1 <= l
          BY <4>2, <5>1
        <5> QED BY <5>1, <5>2, ConcatProperties
      <4>4. p \o q # <<>>
        <5>1. Len(p) + Len(q) # 0 /\ Len(<<>>) = 0
          BY <4>2
        <5> QED BY <4>3, <5>1
      <4> QED BY <3>3, <4>1, <4>2, <4>3, <4>4
    <3> QED BY <3>1, <3>5
  <2> HIDE DEF U
  <2>4. n - 1 \in Nat /\ (n - 1) + 1 = n /\ n \in 1..n
    BY <1>2
  <2>5. n - 1 \in U
    BY <2>2, <2>3, <2>4, ByInduction
  <2>6. (n - 1) + 1 <= n => f[(n - 1) + 1] # <<>> /\ f[(n - 1) + 1][1] = Space
    BY <2>5 DEF U
  <2> QED BY <2>4, <2>6
<1>15. PICK t, s : t = f[n] /\ s = Tail(t)
  OBVIOUS
<1>16. /\ s \in Seq(C) /\ Len(t) = Len(s) + 1 /\ t[1] = Space
       /\ \A i \in 1..Len(s) : s[i] = t[i + 1]
  BY <1>14, <1>15
<1>17. Leads(s, << <<>> >>, shown)
  <2>1. PICK g : /\ g[0] = <<>> /\ g[Len(t)] = shown
                 /\ \A i \in 1..Len(t) : g[i] = Token(g[i - 1], t[i])
    BY <1>13, <1>15 DEF Leads
  <2>2. 1 \in 1..Len(t) /\ 1 - 1 = 0
    BY <1>16
  <2>3. g[1] = << <<>> >>
    <3>1. g[1] = Token(<<>>, Space)
      BY <1>16, <2>1, <2>2
    <3>2. Append(<<>>, <<>>) = << <<>> >>
      OBVIOUS
    <3> QED BY <3>1, <3>2 DEF Token
  <2>4. PICK h : h = [i \in 0..Len(s) |-> g[i + 1]]
    OBVIOUS
  <2>5. h[0] = << <<>> >> /\ h[Len(s)] = shown
    BY <1>16, <2>1, <2>3, <2>4
  <2>6. ASSUME NEW i \in 1..Len(s) PROVE h[i] = Token(h[i - 1], s[i])
    <3>1. /\ i \in 0..Len(s) /\ i - 1 \in 0..Len(s) /\ (i - 1) + 1 = i
          /\ i + 1 \in 1..Len(t) /\ (i + 1) - 1 = i
      BY <1>16
    <3> QED BY <1>16, <2>1, <2>4, <3>1
  <2> QED BY <2>5, <2>6 DEF Leads
<1>18. Concatenated(names) = s
  BY <1>2, <1>4, <1>6, <1>15 DEF Concatenated
<1> QED BY <1>16, <1>17, <1>18, <1>24, <1>25, TokensLead DEF Split

\* A name without a space is shown as it is.
LEMMA OneToken ==
  ASSUME NEW C, Space \notin C, NEW w \in Seq(C)
  PROVE  Tokens(w) = <<w>>
<1>1. PICK n \in Nat : n = Len(w)
  OBVIOUS
<1>2. PICK g : g = [k \in 0..n |-> <<SubSeq(w, 1, k)>>]
  OBVIOUS
<1>3. g[0] = << <<>> >> /\ g[n] = <<w>>
  <2>1. 0 \in 0..n /\ n \in 0..n /\ SubSeq(w, 1, 0) = <<>> /\ SubSeq(w, 1, n) = w
    BY <1>1, SubSeqFull
  <2> QED BY <1>2, <2>1
<1>4. ASSUME NEW k \in 1..n PROVE g[k] = Token(g[k - 1], w[k])
  <2>1. PICK x, y, c : x = SubSeq(w, 1, k - 1) /\ y = SubSeq(w, 1, k) /\ c = w[k]
    OBVIOUS
  <2>2. x \in Seq(C) /\ y = Append(x, c) /\ c \in C /\ c # Space
    BY <1>1, <2>1
  <2>3. k \in 0..n /\ k - 1 \in 0..n
    OBVIOUS
  <2>4. g[k - 1] = <<x>> /\ g[k] = <<y>>
    BY <1>2, <2>1, <2>3
  <2>5. Token(<<x>>, c) = <<y>>
    BY <2>2 DEF Token
  <2> QED BY <2>1, <2>4, <2>5
<1>5. Leads(w, << <<>> >>, <<w>>)
  BY <1>1, <1>3, <1>4 DEF Leads
<1> QED BY <1>5, TokensLead

\* A listing in which no name has a space is shown as it is.
LEMMA ShownWhole ==
  ASSUME NEW C, Space \notin C, NEW names \in Seq(Seq(C)), names # <<>>
  PROVE  Shown(names) = names
<1>1. PICK n \in Nat : n = Len(names) /\ n # 0 /\ DOMAIN names = 1..n
  OBVIOUS
<1> DEFINE V == Seq(C)
<1>2. \A i \in 1..n : names[i] \in V /\ Tokens(names[i]) = <<names[i]>>
  BY <1>1, OneToken
<1>3. PICK toks : toks = [i \in 1..n |-> Tokens(names[i])]
  OBVIOUS
<1> HIDE DEF V
<1>4. /\ toks \in Seq(Seq(V)) /\ Len(toks) = n /\ toks # <<>>
      /\ \A i \in 1..n : toks[i] = <<names[i]>>
  <2>0. ASSUME NEW v \in V PROVE <<v>> \in Seq(V)
    OBVIOUS
  <2>1. \A i \in 1..n : Tokens(names[i]) \in Seq(V)
    BY <1>2, <2>0
  <2>2. toks \in [1..n -> Seq(V)]
    BY <1>3, <2>1
  <2>3. toks \in Seq(Seq(V)) /\ Len(toks) = n
    BY <2>2
  <2>4. toks # <<>>
    BY <1>1, <2>3
  <2> QED BY <1>2, <1>3, <2>3, <2>4
<1>5. PICK a \in [1..n -> Seq(V)] : Flattening(a, toks) /\ FlattenSeq(toks) = a[n]
  BY <1>4, Flattens
<1>6. \A i \in 1..n : a[i] = IF i = 1 THEN toks[i] ELSE a[i - 1] \o toks[i]
  BY <1>4, <1>5 DEF Flattening
<1>7. names \in Seq(V)
  BY DEF V
<1> DEFINE T == {k \in Nat : k + 1 <= n => a[k + 1] = SubSeq(names, 1, k + 1)}
<1>8. 0 \in T
  <2>1. PICK i \in 1..n : i = 1
    BY <1>1
  <2>2. a[i] = <<names[i]>>
    BY <1>4, <1>6, <2>1
  <2>3. SubSeq(names, 1, i) = <<names[i]>>
    <3>1. SubSeq(names, 1, 1) = [j \in 1..1 |-> names[j]]
      BY <1>1, <1>7
    <3>2. [j \in 1..1 |-> names[j]] = <<names[1]>>
      OBVIOUS
    <3> QED BY <2>1, <3>1, <3>2
  <2>4. 0 + 1 = i
    BY <2>1
  <2> QED BY <2>2, <2>3, <2>4
<1>9. ASSUME NEW k \in Nat, k \in T PROVE k + 1 \in T
  <2> SUFFICES ASSUME (k + 1) + 1 <= n
               PROVE  a[(k + 1) + 1] = SubSeq(names, 1, (k + 1) + 1)
    OBVIOUS
  <2>1. PICK i, j : i = (k + 1) + 1 /\ j = k + 1
    OBVIOUS
  <2>2. i \in 1..n /\ j \in 1..n /\ i # 1 /\ i - 1 = j
    BY <2>1
  <2>3. a[j] = SubSeq(names, 1, j)
    BY <1>9, <2>1, <2>2
  <2>4. a[i] = a[j] \o <<names[i]>>
    BY <1>4, <1>6, <2>2
  <2>5. SubSeq(names, 1, j) \in Seq(V) /\ names[i] \in V
    BY <1>2, <1>7, <2>2
  <2>6. SubSeq(names, 1, i) = Append(SubSeq(names, 1, j), names[i])
    BY <1>1, <1>7, <2>1, <2>2
  <2>7. SubSeq(names, 1, j) \o <<names[i]>> = Append(SubSeq(names, 1, j), names[i])
    <3>1. PICK v, w : v = SubSeq(names, 1, j) /\ w = names[i]
      OBVIOUS
    <3>2. v \in Seq(V) /\ w \in V
      BY <2>5, <3>1
    <3>3. v \o <<w>> = Append(v, w)
      BY <3>2
    <3> QED BY <3>1, <3>3
  <2> QED BY <2>1, <2>3, <2>4, <2>6, <2>7
<1> HIDE DEF T
<1>10. n - 1 \in Nat /\ (n - 1) + 1 = n /\ n <= n
  BY <1>1
<1>11. n - 1 \in T
  BY <1>8, <1>9, <1>10, ByInduction
<1>12. (n - 1) + 1 <= n => a[(n - 1) + 1] = SubSeq(names, 1, (n - 1) + 1)
  BY <1>11 DEF T
<1>13. a[n] = names
  <2>1. SubSeq(names, 1, n) = names
    BY <1>1, <1>7, SubSeqFull
  <2> QED BY <1>10, <1>12, <2>1
<1> QED BY <1>1, <1>3, <1>5, <1>13 DEF Shown

\* A listing that can be sent arrives as what can be told from its text, and as
\* what it was if none of its names has a space.
THEOREM ListingsSplit ==
  \A names \in Listings : ~NoFirst(names) =>
    /\ Split(Concatenated(names)) = Shown(names)
    /\ names \in Seq(Seq(Char \ {Space})) => Split(Concatenated(names)) = names
<1> SUFFICES ASSUME NEW names \in Listings, ~NoFirst(names)
             PROVE  /\ Split(Concatenated(names)) = Shown(names)
                    /\ names \in Seq(Seq(Char \ {Space})) => Split(Concatenated(names)) = names
  OBVIOUS
<1>1. names \in Seq(Seq(Char) \ {<<>>}) /\ names # <<>>
  BY ListingAssumption DEF NoFirst
<1>2. PICK C : C = Char \cup {Space}
  OBVIOUS
<1>3. Seq(Char) \subseteq Seq(C) /\ Space \in C
  BY <1>2, SeqMonotonic
<1>4. names \in Seq(Seq(C))
  BY <1>1, <1>3, SeqMonotonic
<1>5. Split(Concatenated(names)) = Shown(names)
  BY <1>1, <1>3, <1>4, SplitsAgain
<1>6. names \in Seq(Seq(Char \ {Space})) => Shown(names) = names
  <2>1. PICK D : D = Char \ {Space}
    OBVIOUS
  <2>2. Space \notin D
    BY <2>1
  <2> QED BY <1>1, <2>1, <2>2, ShownWhole
<1> QED BY <1>5, <1>6

-----------------------------------------------------------------------------
(* The requests                                                            *)

\* What a step of a host is for Requests.
Outcome == Orders!Perform \/ Orders!Complete \/ UNCHANGED logs

\* What a host makes of a result of the server: the client sees what it can.
Has(h, x) == IF h = "client" THEN SeenByClient[x] ELSE x

\* A file is among the results and seen as it is.
LEMMA FileAnswers ==
  \A n \in 0..MaxChunks, h \in Host : File(n) \in Answers /\ Has(h, File(n)) = File(n)
<1> SUFFICES ASSUME NEW n \in 0..MaxChunks, NEW h \in Host
             PROVE  File(n) \in Answers /\ Has(h, File(n)) = File(n)
  OBVIOUS
<1>1. File(n) \in Answers
  BY DEF Answers
<1>2. File(n).kind = "file"
  BY DEF File
<1>3. SeenByClient[File(n)] = File(n)
  BY <1>1, <1>2 DEF SeenByClient
<1> QED BY <1>1, <1>3 DEF Has

\* A command whose result enters a log is the next one asked for; the host that
\* is told finds the result in the log of the other.
LEMMA Resulted ==
  ASSUME SeqsInv, NEW h \in Host, NEW o \in Ops, NEW x \in Answers,
         Result(h, o, Has(h, x)),
         asked' = asked, NEW n \in Nat, n = Len(Log(h)), n + 1 <= Len(asked),
         asked[n + 1] = o,
         o = "upload" <=> h = "server" => Entry(Log(Peer(h)), n + 1, o, x)
  PROVE  Orders!Perform \/ Orders!Complete
<1>1. PICK r : r = [op |-> o, result |-> x]
  OBVIOUS
<1>2. Len(asked) \in Nat
  BY DEF SeqsInv, IsSeq
<1>3. CASE h = "server"
  <2>1. Orders!Follows(done, o)
    BY <1>2, <1>3 DEF Orders!Follows, Log
  <2>2. o = "upload" => Orders!Agrees(answered, Len(done) + 1, r)
    BY <1>1, <1>3 DEF Orders!Agrees, Log, Peer, Entry
  <2>3. done' = Append(done, r) /\ UNCHANGED <<asked, answered>>
    BY <1>1, <1>3 DEF Result, Has
  <2> QED BY <1>1, <2>1, <2>2, <2>3 DEF Orders!Perform, Orders!Ops, Ops
<1>4. CASE h = "client"
  <2>1. Orders!Follows(answered, o)
    BY <1>2, <1>4 DEF Orders!Follows, Log
  <2>2. o # "upload" => Orders!Agrees(done, Len(answered) + 1, r)
    BY <1>1, <1>4 DEF Orders!Agrees, Log, Peer, Entry
  <2>3. /\ answered' = Append(answered, [op |-> o, result |-> SeenByClient[x]])
        /\ UNCHANGED <<asked, done>>
    BY <1>1, <1>4 DEF Result, Has
  <2> QED BY <1>1, <2>1, <2>2, <2>3 DEF Orders!Complete, Orders!Ops, Ops
<1> QED BY <1>3, <1>4 DEF Host

\* What a sound state says of the command asked for.
LEMMA Awaited ==
  ASSUME IInv, NEW h \in Host, NEW v, At(h, v), Sound(h, v), pc[h] \notin {"select", "prompt"}
  PROVE  /\ Len(Log(h)) \in Nat /\ Len(Log(h)) + 1 <= Len(asked)
         /\ asked[Len(Log(h)) + 1] = op[h]
<1>1. v.n = Len(Log(h)) /\ v.op = op[h] /\ v.pc = pc[h] /\ v.n \in Nat
  BY DEF At, Sound, Numbers
<1>2. Len(asked) \in Nat
  BY DEF IInv, SeqsInv, IsSeq
<1>3. v.n + 1 <= Len(asked) /\ asked[v.n + 1] = v.op
  BY <1>1, <1>2 DEF Sound, Counted, Host
<1> QED BY <1>1, <1>3

\* The client asks when it has completed all it has asked for.
LEMMA AskOutcome ==
  ASSUME IInv, AskList \/ AskGet \/ AskUpload
  PROVE  Orders!Ask
<1>1. PICK o \in Ops : AtPrompt(o) /\ Unasked
  BY DEF AskList, AskGet, AskUpload, Ops
<1>2. pc["client"] = "prompt" /\ "client" \in Host
  BY <1>1 DEF AtPrompt, Host
<1>3. PICK v : At("client", v) /\ Sound("client", v)
  BY <1>2, Sender
<1>4. v.n = Len(answered) /\ v.n = Len(asked)
  BY <1>2, <1>3 DEF At, Log, Sound, Counted
<1>5. asked' = Append(asked, o) /\ UNCHANGED <<done, answered>>
  BY <1>1 DEF AtPrompt, Unasked
<1> QED BY <1>4, <1>5 DEF Orders!Ask, Orders!Ops, Ops

\* The end of SendFile.
LEMMA SendOutcome ==
  ASSUME IInv, NEW h \in Host, RefuseName(h) \/ Announce(h) \/ SendSign(h)
  PROVE  Outcome
<1>1. CASE \E x \in Answers : Result(h, op[h], Has(h, x)) /\ asked' = asked
  <2>1. PICK x \in Answers : Result(h, op[h], Has(h, x)) /\ asked' = asked
    BY <1>1
  <2>2. pc[h] \in Sending /\ pc[h] \notin {"select", "prompt"}
    BY DEF RefuseName, Announce, SendSign, Sending
  <2>3. PICK v : At(h, v) /\ Sound(h, v)
    BY <2>2, Sender
  <2>4. op[h] \in Ops
    BY <2>2, Sender
  <2>5. ~(op[h] = "upload" <=> h = "server")
    BY <2>2, <2>3 DEF At, Sound, Doing, Host
  <2>6. PICK n : n = Len(Log(h))
    OBVIOUS
  <2>7. n \in Nat /\ n + 1 <= Len(asked) /\ asked[n + 1] = op[h]
    BY <2>2, <2>3, <2>6, Awaited
  <2> QED BY <2>1, <2>4, <2>5, <2>6, <2>7, Resulted DEF IInv, Outcome
<1>2. CASE UNCHANGED logs
  BY <1>2 DEF Outcome
<1>3. size[h] \in 0..MaxChunks /\ 0 \in 0..MaxChunks
  BY SessionBounds DEF IInv, TypeOK
<1>4. \A x \in {File(0), File(size[h])} : x \in Answers /\ Has(h, x) = x
  BY <1>3, FileAnswers
<1> QED BY <1>1, <1>2, <1>4 DEF RefuseName, Announce, SendSign, logs

\* The end of ReceiveFile and of a list, on both hosts.
LEMMA ReceiveOutcome ==
  ASSUME IInv, NEW h \in Host, Receive(h)
  PROVE  Outcome
<1>1. PICK f, e : f = Head(inbox[h]) /\ e = AfterReceived(ep[h], Macs(f.kind))
  OBVIOUS
<1>2. pc[h] \in Awaiting /\ inbox[h] # <<>> /\ Alive(h)
  BY DEF Receive, Alive, Awaiting, AwaitedKind, Ended
<1>3. \/ OnCommand(h, f, e) \/ OnName(h, f, e) \/ OnListing(h, f, e)
      \/ OnSize(h, f, e) \/ OnChunk(h, f, e) \/ OnSign(h, f, e)
  BY <1>1, <1>2, Accepted DEF Receive
<1>4. PICK v, w : /\ At(h, v) /\ Sound(h, v) /\ Takes(h, f, v, w) /\ Sound(h, w)
                  /\ Told(f, v, Log(Peer(h)))
  BY <1>1, <1>2, First
<1>5. PICK n : n = Len(Log(h))
  OBVIOUS
<1>6. v.n = n /\ v.op = op[h] /\ v.pc = pc[h] /\ v.size = size[h] /\ n \in Nat
  BY <1>4, <1>5 DEF At, Sound, Numbers
<1>7. op[h] \in Ops /\ size[h] \in 0..MaxChunks
  BY DEF IInv, TypeOK, Ops
<1>8. pc[h] # "select" /\ pc[h] # "prompt" =>
        n + 1 <= Len(asked) /\ asked[n + 1] = op[h]
  BY <1>4, <1>5, Awaited
<1>9. CASE OnCommand(h, f, e)
  <2>1. SUFFICES ASSUME NEW names \in Listings, asked' = asked, f.body = "list",
                        Result(h, "list", [kind |-> "names", names |-> names])
                 PROVE  Orders!Perform \/ Orders!Complete
    BY <1>9 DEF OnCommand, Outcome, logs
  <2>2. v.pc = "select" /\ h = "server"
    BY <1>4, <1>6, <1>9 DEF OnCommand, Sound, Doing, Receives, Sending
  <2>3. TakesCommand(f, v, w)
    BY <1>4, <2>2
       DEF Takes, TakesCommand, TakesName, TakesListing, TakesSize, TakesChunk, TakesSign
  <2>4. w.pc = "listing" /\ w.op = "list" /\ w.n = n
    BY <1>6, <2>1, <2>3 DEF TakesCommand
  <2>5. n + 1 <= Len(asked) /\ asked[n + 1] = "list"
    BY <1>4, <2>2, <2>4 DEF Sound, Counted
  <2>6. PICK x : x = [kind |-> "names", names |-> names]
    OBVIOUS
  <2>7. x \in Answers /\ "list" \in Ops /\ Has(h, x) = x
    BY <2>2, <2>6 DEF Answers, Ops, Has
  <2> QED BY <1>5, <1>6, <2>1, <2>2, <2>5, <2>6, <2>7, Resulted DEF IInv
<1>10. CASE OnName(h, f, e) \/ OnChunk(h, f, e)
  BY <1>10 DEF OnName, OnChunk, Outcome
<1>11. CASE OnListing(h, f, e)
  <2>1. PICK y : y = [kind |-> "names", names |-> Split(f.body)]
    OBVIOUS
  <2>2. v.pc = "list" /\ Result(h, "list", y) /\ asked' = asked
    BY <1>6, <1>11, <2>1 DEF OnListing
  <2>3. PICK names \in Listings :
          /\ ~NoFirst(names) /\ ~Endless(names) /\ f.body = Concatenated(names)
          /\ Entry(Log(Peer(h)), v.n + 1, "list", [kind |-> "names", names |-> names])
    BY <1>4, <2>2 DEF Told
  <2>4. PICK x : x = [kind |-> "names", names |-> names]
    OBVIOUS
  <2>5. x \in Answers /\ op[h] = "list" /\ Entry(Log(Peer(h)), n + 1, "list", x)
    BY <1>4, <1>6, <2>2, <2>3, <2>4 DEF Answers, Sound, Doing
  <2>6. n + 1 <= Len(asked) /\ asked[n + 1] = "list"
    BY <1>6, <1>8, <2>2, <2>5
  <2>7. Has(h, x) = y
    <3>1. h = "client"
      BY <1>4, <2>2 DEF Sound, Doing, Host, Receives, Sending
    <3>2. x.kind # "file" /\ x.names = names
      BY <2>4
    <3>3. SeenByClient[x] = [kind |-> "names", names |-> Shown(names)]
      BY <2>5, <3>2 DEF SeenByClient
    <3>4. Split(f.body) = Shown(names)
      BY <2>3, ListingsSplit
    <3> QED BY <2>1, <3>1, <3>3, <3>4 DEF Has
  <2> QED BY <1>5, <1>6, <1>7, <2>2, <2>5, <2>6, <2>7, Resulted DEF IInv, Outcome
<1>12. CASE OnSize(h, f, e) /\ f.body # 0
  BY <1>12 DEF OnSize, Outcome
<1>13. CASE OnSize(h, f, e) /\ f.body = 0
  <2>1. v.pc = "size" /\ Result(h, op[h], File(0)) /\ asked' = asked
    BY <1>6, <1>13 DEF OnSize
  <2>2. Entry(Log(Peer(h)), n + 1, op[h], File(0))
    BY <1>4, <1>6, <1>13, <2>1 DEF Told
  <2>3. File(0) \in Answers /\ Has(h, File(0)) = File(0)
    BY SessionBounds, FileAnswers
  <2>4. n + 1 <= Len(asked) /\ asked[n + 1] = op[h]
    BY <1>6, <1>8, <2>1
  <2> QED BY <1>5, <1>6, <1>7, <2>1, <2>2, <2>3, <2>4, Resulted DEF IInv, Outcome
<1>14. CASE OnSign(h, f, e)
  <2>1. v.pc = "signature" /\ Result(h, op[h], File(size[h])) /\ asked' = asked
    BY <1>6, <1>14 DEF OnSign
  <2>2. Entry(Log(Peer(h)), n + 1, op[h], File(size[h]))
    BY <1>4, <1>6, <2>1 DEF Told
  <2>3. File(size[h]) \in Answers /\ Has(h, File(size[h])) = File(size[h])
    BY <1>7, FileAnswers
  <2>4. n + 1 <= Len(asked) /\ asked[n + 1] = op[h]
    BY <1>6, <1>8, <2>1
  <2> QED BY <1>5, <1>6, <1>7, <2>1, <2>2, <2>3, <2>4, Resulted DEF IInv, Outcome
<1> QED BY <1>3, <1>9, <1>10, <1>11, <1>12, <1>13, <1>14

\* Every step of the session is one of Requests or leaves its histories alone.
LEMMA OrdersStep ==
  ASSUME IInv, [Next]_vars
  PROVE  [Orders!Ask \/ Orders!Perform \/ Orders!Complete]_logs
<1>1. CASE AskList \/ AskGet \/ AskUpload
  BY <1>1, AskOutcome
<1>2. CASE TypeName \/ Quit \/ ProtocolError \/ Finished \/ UNCHANGED vars
  BY <1>2 DEF TypeName, Quit, ProtocolError, Finished, vars
<1>3. ASSUME NEW h \in Host, Works(h) \/ SendFails(h) \/ Die(h) \/ ReadFails(h)
      PROVE  Outcome
  <2>1. CASE Receive(h)
    BY <2>1, ReceiveOutcome
  <2>2. CASE RefuseName(h) \/ Announce(h) \/ SendSign(h)
    BY <2>2, SendOutcome
  <2>3. CASE Loses(h) \/ SendChunk(h) \/ SendFails(h) \/ Die(h) \/ ReadFails(h)
    BY <2>3 DEF Loses, SendChunk, SendFails, Die, ReadFails, Outcome
  <2> QED BY <1>3, <2>1, <2>2, <2>3 DEF Works
<1> QED BY <1>1, <1>2, <1>3 DEF Next, User, Outcome

\* The session of the two programs implements Requests: commands are performed in
\* the order asked, each at most once, both hosts have the same files, and the
\* client prints the names the server read, those with a space in pieces.
THEOREM RequestsImplemented == Spec => ImplementsRequests
<1>1. Init => Orders!Init
  BY DEF Init, Orders!Init
<1>2. IInv /\ [Next]_vars => [Orders!Ask \/ Orders!Perform \/ Orders!Complete]_logs
  BY OrdersStep
<1> QED BY <1>1, <1>2, Invariance, PTL DEF Spec, ImplementsRequests, Orders!Spec, logs
=============================================================================
