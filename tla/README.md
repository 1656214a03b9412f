# TLA+ models of SSLP

SSLP is a small client/server program (C++, OpenSSL, TCP) that lists, downloads
and uploads files over a connection it secures itself: a handshake with
certificates, Diffie-Hellman and signed transcripts, then AES-CBC and HMAC over
every message. These modules model the program, check the models with TLC and
prove facts about them with TLAPS. Paths below are relative to `src/`.

## 1. Inventory

| Component | State | Operations | Correct when |
|---|---|---|---|
| `SendFile`, `ReceiveFile` (`library/SendReceiveFile.cpp`) | locals: sizes, `last`, the managers | announce a size, send or receive chunks, signature, `finalize` | both sides agree on which frame is which; the file arrives whole or not at all; both return |
| `ReadFileManager`, `WriteFileManager`, `FileManager` | `file_size`, `remaining_size`, `file_name`, `original_file_name`, the stream | size, read, write, existence test, finalize | the file under a name is replaced only by a verified one; an error or a death leaves the old one |
| `EncryptManager`, `DecryptManager` | an EVP context; key and IV of `KeyManager` | construct (takes the IV and increments it), Update, Final | encrypting and decrypting host use the same IV for the same message, and no IV twice |
| `KeyManager` | static AES key, HMAC key, IV | set, destroy, increment | no key after a session |
| `HMACManager` | static local and remote nonce | final (advances a nonce), set | nonces of the two hosts stay in step, session after session |
| frames: `sendIntHMAC`, `recvIntHMAC`, `sendDataHMAC`, `recvDataHMAC` (`library/library.cpp`) | none of their own | one MAC for an int, two for data | a MAC of an honest host verifies |
| `NetSocket` | the descriptor, `isClosed` | blocking send and receive of bytes and ints | a closed or reset connection ends the operation |
| server (`server_files/server.cpp`) | `client_socket`, `master`, `alreadyConnected` | select loop, accept or refuse, `initial_protocol`, `cmd_list`, `cmd_get`, `cmd_upload` | one client at a time, cleaned up on every way out; the next one is served |
| client (`client_files/client.cpp`) | the socket, stdin | `initial_protocol`, select loop over stdin and socket, the commands | a command is answered or the client exits |
| listing: `get_file_list`, `split`, `cmd_list` | none | collect, concatenate, send, split | the names listed are the names there |
| `CertificateManager`, `isClientAuthorized` | the CA store; `clients.txt` | verify, extract name and key | only listed clients are let in |
| `DHManager`, `HashManager`, `RSASignManager`, `RSAVerifyManager`, `PublicKey` | OpenSSL contexts | thin wrappers | OpenSSL's |
| `Chunk`, `EncryptedChunk` | a buffer and its owner flag | set, get, free | memory only |
| `RSAEncryptManager`, `RSADecryptManager` | OpenSSL contexts | encrypt, decrypt | used by neither program |

How they interact. Both programs are single-threaded and block in every receive.
Client and server exchange messages over one TCP connection. Within a process
everything is a direct call, but `KeyManager` and `HMACManager` keep *static*
members: every cipher and every MAC of a process works on one IV and one pair of
nonces, and in the server these survive from one client to the next. The
directory `database/` outlives the process.

What is hard about it:

* *Counting instead of framing.* The receiver of a file learns the size once and
  then decides by subtraction which chunk is the last (and calls `DecryptFinal`),
  with a second counter of another width deciding when the signature comes.
* *Lockstep.* IVs and nonces are never sent with a message; each host advances
  its own copy, once per cipher and per MAC.
* *Sessions.* The server goes on after every failure of a client, with the
  static members it has.
* *Failures half way.* Death of a process during a write or between `remove`
  and `rename`; a connection closed between two messages or inside one; a
  private key found missing at the end of a transfer; a disk that is full at
  the last, buffered write.
* *One thread for all.* Whoever keeps the server in a receive keeps all others
  waiting; the walk over the descriptors uses a snapshot, and four statements
  must follow every failure of a client.
* *Two buffers for one input.* The client waits in `select` for a descriptor
  that `cin` may have emptied already, or in `cin` while nobody watches the
  socket.
* *A stream for messages.* TCP delivers in pieces of any size; one read repeats
  until it has all, another does not, and neither takes the end of the stream
  for what it is.

`PROJECT.json` lists the hazards at their lines.

## 2. Modules

| Module | Models | State and actions |
|---|---|---|
| `Transfer` | one `SendFile`/`ReceiveFile` pair | `spc`, `rpc` are the places where the two functions are; `unread`, `left`, `towrite` are `remaining_size`, `file_size` and the writer's `remaining_size`; `carry` and `held` are what the two EVP contexts keep back; `wire` is a FIFO of frames. One action per turn of a loop, per early return and per fault |
| `Store` | the directory under several transfers | `disk` maps names to pieces; `Begin` is the constructor of `WriteFileManager`, `Write` its `write`, the `Finalize` actions the calls of `remove` and `rename` one by one; `Die` ends the process anywhere |
| `AtomicReplace` | what the directory promises | a name changes in one step from one version to the next, or nothing changes |
| `Endpoint` | the static members of one process | operators on a record of key, IV, local and remote nonce |
| `Handshake` | `initial_protocol` of both programs, session after session | `srv`, `cli` are two endpoints; `spc`, `cpc` what each process waits for; an action goes from one blocking receive to the next; `Cut` loses the connection anywhere, and with it any part of what is under way |
| `Listing` | the text of a listing | pure operators: `Concatenated` of `cmd_list`, `Tokens` and `Split` of `split`, what can be told of the names from their text (`Shown`), and the two directories `cmd_list` cannot list |
| `Session` | the commands of one session, both programs | `ep` holds two endpoints; `pc` is what each host waits for or sends next; `inbox` the frames under way; `op`, `size`, `rest`, `cipher` the file being sent or received. An action goes from one blocking receive, or one turn of the sender's loop, to the next; `Receive` is `recvDataHMAC` or `recvIntHMAC` with the handler it returns to |
| `Requests` | what a session promises | three logs: commands asked, performed, completed; a completed one has what the client sees of the server's result |
| `ServerLoop` | `main` of the server and its clients | `master`, `connected`, `sock`, `at` are `main`'s variables; `ready` is what the walk over `read_fds` has not reached; `Accept` accepts, refuses or fails, `Visit` begins `receive_command`, `Takes` and `Fails` are the returns of a handshake or command, with `Drop` for the four statements after false; `Ends` is the end of the process, by a crash in one of them or by SIGINT (`Interrupt`), after which `Restart` begins anew |
| `NetSocket` | the receiving side of frames, byte by byte | `arrived` and `read` are positions in the stream, `part` and `need` the read that is going on; one action per return of `recvfrom` |
| `FrameChannel` | what frames promise to the code above | a FIFO of whole frames that may fail |
| `ClientInput` | `main` of the client: `select`, `cin`, the words of commands | `kernel` holds the lines not read, `buffer` what `cin` has taken; `Fill` reads a line of a terminal or any lines of a pipe |
| `TransferProofs`, `StoreProofs`, `HandshakeProofs`, `SessionProofs`, `ServerLoopProofs`, `NetSocketProofs`, `ClientInputProofs` | proofs about the module each is named after | section 5 |
| `FoldLemmas` | lemmas on folds over sequences | section 5 |

How the modules compose. `Handshake` and `Session` extend `Endpoint`, `Session`
also `Listing`. `Session` begins where `Handshake` ends: its `Init` is what
`Handshake!SharedState` says of an established session. It takes a frame for one
message, which `NetSocket` justifies by implementing `FrameChannel`; the outcomes
of a receive on a lost connection in `Transfer`, `Handshake` and `Session`
(failure, crash, endless loop) are those of `NetSocket`. It takes a chunk for
known to be the last one, which `Transfer` justifies. `ServerLoop` takes a
handshake or command for a number of messages with a result, and `ClientInput` a
command for one step; what these say is in `Handshake` and `Session`. `Session`
is shown to implement `Requests` and `NetSocket` to implement `FrameChannel`.

`Store` is shown to implement `AtomicReplace` by
a refinement mapping (`Published`): a new file that is still being written counts
as absent, and between `remove` and `rename` the scratch file counts as the file.

Data is abstracted to what the properties tell apart: bytes are counted and not
represented; a nonce is a number and an IV is a pair of a base and the number of
increments; the key derived in session n is n; a signature is the transcript it
signs. `MC*` modules only give constants their values. Definitions whose comment
begins with *Slip* are not part of a specification: each is one plausible
mistake in the definition below it, kept to show that a property notices it.

## 3. Runs

| Run | Instance | Shows |
|---|---|---|
| `transfer` | blocks of 3 bytes, chunks of 6, 32-bit limit 18, lengths 0..20, one fault | framing agrees at every frame, nothing is corrupt, the file is delivered, the counters agree, a transfer without fault ends |
| `empty_file` | the same | an empty file is reported as missing or too big (finding) |
| `store` | 2 names, 4 transfers, no deaths | the implementation of `AtomicReplace` |
| `store_deaths` | 3 names, one being another's scratch file; 3 transfers, 2 deaths, 1 lost write | what survives deaths, errors and collisions |
| `stale_tmp` | 2 names, 2 transfers, 2 deaths | a scratch file left behind is appended to and takes the original's place (finding) |
| `read_only` | one file may be read-only | it is taken for missing and removed (finding) |
| `handshake` | 3 sessions, nonces of 2 bits | equal state after the handshake, keys destroyed, a staying client served |
| `nonce_zero` | 2 sessions | a nonce drawn as 0 breaks the next handshake (finding) |
| `session` | 2 commands of any kind, names around the limit and with a `/`, files of 0..2 chunks, directories of 0..3 names, one with a space in it, where the counter ends at 2, one fault | the hosts stay in step, no frame is refused, both sides' results agree (`Requests`), a session ends only for a reason, every command ends |
| `server_loop` | 3 clients, 2 descriptors, a backlog of 2, up to 2 messages per handshake or command, the server ended and restarted at any point | descriptors, flag and keys agree with the client there is; the right one is served; who is refused, is refused for another; everyone is heard, unless a client keeps the server in a receive or the server ends |
| `socket` | every sequence of 1 to 3 frames of 3 kinds, integers of 4 bytes, digests of 2, cut in every way, ended or reset anywhere | a FIFO of whole frames (`FrameChannel`); why a receive fails; when it returns |
| `client_input` | 3 lines out of 8, on a terminal or a pipe | commands run in the order typed, none stays behind on a terminal, the server's loss is noticed |

Why the bounds are enough. In `transfer` the arithmetic depends on a length only
through its remainder by the block, by the chunk, and its order with the limit;
0..20 has every remainder, one to three whole chunks, the limit and two lengths
beyond. The proofs remove this bound altogether. In `store_deaths` a scratch file
needs one transfer to be left behind and one to be met again; the third transfer
allows a collision in between. In `handshake` a stale nonce needs two sessions,
and a third shows that the state after the second is no worse; 2-bit nonces wrap.

In `session` the second command may start while the first is still being received
(an upload), after every way the first can end; `LockstepAtRest` says that between
commands the hosts are in the state they began in, up to the number of ciphers
and MACs, so that a third command meets nothing new. Three values of a nonce make it wrap
within one command. In `server_loop` three clients are one connected, one refused
in the walk and one left in the backlog; a second descriptor lets one be closed
and another opened in one walk, and the proofs remove the bounds. In `socket` the
third frame is read after frames of both kinds, and data of three bytes can be
cut twice. In `client_input` three lines are a command, its name on a later line
and a line behind it.

Fairness. `NetSocket` assumes that the receiver runs and that TCP delivers what
was sent while the connection is there; `Session` that both processes run;
`ServerLoop` and `ClientInput` that the one process runs. Nothing is assumed of
users, of clients other than that process, of who closes a connection, or of who
stops and restarts the server.
`Transfer` and `Handshake` assume weak fairness of each process: both
run on their own, and a receive whose message has arrived returns. Nothing is
assumed of faults, of connecting clients or of restarts. Deadlock is checked in
every run: the states in which a system may rest are the `Finished` actions.

The properties, in short:

* `FramingAgreement`, `NeverCorrupt`, `Delivered`, `CountersAgree`: the receiver's
  counting and the sender's never part, for any length.
* `Completes`: without a fault both functions return.
* `SubstituteOnlyAtEnd`: no step before the verification changes or removes a file
  that was there, with one exception that the code does make: a file which lies
  under the scratch name already is appended to and, after an error, removed.
* `OldOrNewSurvives`: dying anywhere, the old or the verified new file is still
  whole, under its name or in the scratch file. The window between `remove` and
  `rename` is why the scratch file has to be named.
* `ErrorRestores`, `SuccessReplaces`: the directory after an error, after a
  success. Both need the condition that the file appended to was not there when
  the transfer began; `stale_tmp` shows what happens without it.
* `SharedState`: after the handshake keys, IV counts and crossed nonces are equal.
* `CiphersAgree`: every cipher of the handshake is undone with the key and IV
  it was made with, and the transcripts signed and verified are equal.
* `FreshIVs`: no key and IV encrypt twice in the handshake.
* `MacsAgree`, `NoncesExchanged`: a MAC fails only after a nonce drawn as 0; the
  document promises that it never does.
* `NoKeyAtRest`: back in `select` without a client, the server has no key.
* `Served`: a listed client that stays connected ends in an established session.
* `NeverRefused`, `LockstepAtRest`: neither IV nor nonce travels with a frame, and
  still no frame of the other host is ever refused, on no path through any
  command, with a command sent before the upload before it is received.
* `NoUnsolicited`: every frame of a command is taken before the command returns;
  only the end of the connection can reach the client at its prompt.
* `EndsForAReason`: a session between correct hosts ends only after a quit, a
  death, a failing file, disk or directory, or a name that cannot be served.
* `ImplementsRequests`: what the client is shown or stores for the n-th command,
  and what the server stores, is what the other host sent for it. Of a listing the
  client is shown each name the server read, but one with spaces in pieces.
* `CommandsEnd`: waiting for ever is left to the user who types a name, and to the
  endless loops of `utilityRecv` and of `cmd_list`.
* `FlagsAgree`, `ServesTheReady`, `KeysOfTheClient`, `RefusedForAnother`,
  `EveryoneHeard`: the clean-up after a client is complete on every way out that
  the server survives, in spite of the snapshot; a client that stays is accepted or
  refused unless another keeps the server in a receive or makes it end.
* `FailureExplained`, `ImplementsFrameChannel`, `CallsReturn`: pieces of any length
  make whole frames; a receive fails only on the end of the stream or on an
  integer of which a part has arrived, and returns unless the peer closed the
  connection inside a frame.
* `InOrder`, `NothingPending`, `ServerLossNoticed`: no typed command is lost, doubled or
  put before another by the two buffers.

## 4. Findings

1. An existing empty file is announced like a missing one; the message printed
   says "does not exist or too big" (`library/SendReceiveFile.cpp:45,173`).
2. The scratch file is opened in append mode (`library/WriteFileManager.cpp:18`);
   one left by a death is prepended to the next download, which is verified and
   replaces the original.
3. `file_exists` (`library/FileManager.cpp:22`) reports a read-only file missing;
   the failing transfer then removes it.
4. A nonce drawn as 0 is silently ignored (`library/HMACManager.cpp:87,96`), so
   that a server in a later session keeps an old nonce, the client's message
   fails its MAC and the unchecked NULL goes to `RSAFinal`. The chance is 2^-31
   per handshake.

What the modules show further, without a run of its own; for most of it there is no
doc that says otherwise:

* `setw(MAX_FILENAME_LENGTH)` lets `cin` store 100 characters into a `std::string`
  (`client_files/client.cpp:145,190`); the server refuses 100
  (`server_files/server.cpp:106`). A get of such a name ends the session, an
  upload of it is accepted: `Servable`, and the reason "name" of `Session`.
* A command behind `!help` or `!list` on one line stays in `cin` until the user
  types on: the condition of `NothingPending`.
* `client_files/client.cpp:589` says of the socket's branch "non dovrei mai arrivare
  qui" (I should never get here); a get of a name with a `/` leads there, because
  the server disconnects and `ReceiveFile` returns true (`Session`,
  `RefuseName` and `ProtocolError`).
* `library/library.cpp:78` notes that a read may return less; `recvInt`, at line
  116, takes the same for an error (`short` in `NetSocket`).
* A client that dies inside a frame leaves the server in `utilityRecv` for ever
  (`Spinning`), and with it everyone else (`Blocked` in `ServerLoop`).
* A client that leaves in the handshake behind its first message, in an upload
  before its signature, or by a reset inside the data of a frame can end the server:
  a NULL is used (`server_files/server.cpp:352,475`, `library/SendReceiveFile.cpp:275`,
  `library/library.cpp:258`; `UsesNull` in `ServerLoop`). Who waits then is not
  heard, which is why `EveryoneHeard` excepts it.
* `get_file_list` returns names with a space, `cmd_list` puts a space between
  names, and `split` takes every space for the end of one: such a file is shown as
  several (`Shown` in `Listing`).
* `library/SendReceiveFile.cpp:101` says "hash on plaintext" of a call that hashes
  the ciphertext, as the receiver does; in `Transfer` what is hashed are the bytes
  of the frames (`hashed`).
* An empty directory crashes `cmd_list`; more than 65535 names keep it in its loop.
* At the end of stdin the client goes round in `select` with an invalid command each
  time (`AtEnd`).

## 5. Proofs

Every invariant that a passing run checks, `SubstituteOnlyAtEnd`,
`RefusedForAnother` and the three refinements are theorems, for every value of the
constants. The proofs assume the named ASSUMEs of the modules they are about; two
theorems on `Store` have a hypothesis of their own, given below.

| Module | Proves | From |
|---|---|---|
| `TransferProofs` | `TypeOK`, `FramingAgreement`, `NeverCorrupt`, `Delivered`, `CountersAgree` | the frames of the wire tile the ciphertext between sender and receiver |
| `StoreProofs` | `TypeOK`, `OldOrNewSurvives`, `ErrorRestores`, `SuccessReplaces`; under a hypothesis `SubstituteOnlyAtEnd`, `ImplementsAtomicReplace` | only the file being written, and at the rename the name it goes to, differ from the directory the transfer met |
| `HandshakeProofs` | `TypeOK`, `SharedState`, `CiphersAgree`, `MacsAgree`, `FreshIVs`, `NoKeyAtRest` | a table of the places where the two processes can be together |
| `SessionProofs` | `TypeOK`, `NeverRefused`, `FreshIVs`, `EndsForAReason`, `NoUnsolicited`, `LockstepAtRest`, `ImplementsRequests` | a path of each host through the frames under way to it |
| `ServerLoopProofs` | `TypeOK`, `FlagsAgree`, `ServesTheReady`, `KeysOfTheClient`, `RefusedForAnother` | two shapes of `main`'s variables, and the order of the walk |
| `NetSocketProofs` | `TypeOK`, `FailureExplained`, `ImplementsFrameChannel` | the read that is going on ends where its part of the frame ends |
| `ClientInputProofs` | `InOrder`, `NothingPending` | what was typed is what was taken, what `cin` holds and what the kernel holds |
| `FoldLemmas` | what `FoldLeft` and `FlattenSeq` compute | well-foundedness of the naturals |

`TransferProofs` is for every block size, every chunk size of at
least a block, every width of the two counters and every set of file lengths.
None of the properties is inductive: they speak of the first frame of the wire and
do not say where the frames behind it come from. The inductive invariant `IInv`
follows the ciphertext as one stream. The sender is at position `Sent` of it, the
receiver at `hashed`, and the frames of the wire tile the interval between
(`WireInv`); a chunk without padding ends before byte `size`, the padded one
beyond it (`FrameInv`); and the receiver's counters are functions of its position
(`ReceiverInv`). `ChunkAtHead` is the heart: a chunk at the head leaves less than
a block to be received exactly if it is the padded one. `SendTiles` and
`ReceiveTiles` say that appending and removing a frame keep the tiling. One lemma
per kind of step leads to `Inductive`, and `Invariance` closes the induction.
`ZeroMeans` adds to the finding of `empty_file` all that an announced 0 can mean: a
refused name, which `SendFile` has not even looked for, a file in which it found no
byte, whether there is one or not, or one beyond 32 bits. `RefusedInv` says where a
sender that refuses can be.

`StoreProofs` is for any names and scratch files, any number of pieces, and any
deaths, lost writes and locks. To the properties themselves, which are nearly
inductive, the invariant adds that no file but the one being written and,
between `remove` and `rename`, the requested one has changed (`OthersInv`) and that an undisturbed target is a prefix of the new
version (`WrittenInv`). Two theorems need a hypothesis. `OldFileUntilVerified`
(`SubstituteOnlyAtEnd`) assumes that no file is locked: the run `read_only` is the
counterexample otherwise. The exception it makes for a file under the scratch name
is part of the property and stands for every directory. `AtomicReplacement` (`ImplementsAtomicReplace`) assumes
`Undisputed`: no deaths, no full disk, no locked files, and no name that is another's
scratch file; this is what the run `store` instantiates, and `stale_tmp` shows that
the refinement would be false with deaths. `Simulation` maps each step to one
of the abstract module's or to a stutter.

`HandshakeProofs` is for every width of the nonces and any number of
sessions, nonces drawn, cuts and restarts. The properties are about the end of the
handshake; what makes them true is that it takes turns. `Turns` lists the places
where the two processes can be together and what is in flight at each;
`Remains` says what may still arrive from a client that is gone; `ServerHolds` and
`ClientHolds` say what each has hashed and set at its place. Only a nonce drawn as
0 leaves something unknown, the nonce of an earlier session, and `MacsAgree` says
no more than that.

`SessionProofs` is for all lengths of names, sizes of files, directories, widths of
the counters and numbers of commands and faults. A client can be a command
ahead of the server, and a receiver a whole file behind its sender, so that no relation
between the two hosts' counters holds by itself. `PathsInv` gives each host a path:
the states it will be in after each of the frames under way to it. Every frame on a
path has the MAC, key and IV of the state that takes it, and the ends of the two paths
meet (`Together`): one host waits there for what the other sends next. Receiving goes
one state along a path (`PathTaken`); sending makes the other's longer. `ListingsSplit`
shows what `split` makes of the text of `cmd_list`, for any names: the names again
if none has a space, and otherwise those with spaces in pieces, so that no name
runs into the next. `RequestsImplemented` needs it for the result of `!list`.

`ServerLoopProofs` is for any clients, backlog
and number of messages and any descriptors above the listening socket's.
`FlagsAgree` speaks of `select` only and is not
inductive; `IInv` says at every place of `main` which of two shapes its variables
have (`Alone`, `Together`), that a walk which has reached a client's branch or begun
a handshake has nothing left in its snapshot (`WalkInv`), and that nobody waits in the
backlog twice (`BacklogInv`, for the refusals). `FirstOfWalk` is the reason: the
listening socket has the lowest descriptor, so that nothing behind it in the
snapshot can be stale. One lemma per action leads to `Inductive`; the end of the
process, at any place, leads back to the first shape (`EndsStep`).

`NetSocketProofs` is for all sequences of frames and all lengths of integers, digests
and data. `InPlace`: what has been read and what is missing of the part being read
end where that part ends in the stream. `Start`, the position of a frame, is a fold;
`Starts` and `Positions` unfold it frame by frame. For the refinement a frame is in the
FIFO when its last byte has arrived, so that one step of TCP may send several;
`FramesImplemented` counts them as the set `Whole`.

`ClientInputProofs` is for any lines, any number of them, terminals and pipes.
`InPlace`: some words have been taken whose meaning (`Told`) is what has been carried
out, and these, the words `cin` holds and those of the kernel's lines are what was
typed. `OneLine` and `AtLine` say for a terminal what is left in `cin` between two
commands. `TakeWord` and `TakeLine` are the steps of the meaning.

`FoldLemmas` replaces an induction over data, for which the library's theorems cannot
be used. A set of naturals that has 0 and every successor is all of them
(`ByInduction`), because what it lacks would have a least element (`LeastOf`). By
that, the recursive function behind `FoldLeft` exists and is unique (`Folds`), and
likewise the one behind `FlattenSeq` (`Flattens`).

Only model-checked: liveness (`Completes`, `Served`, `CommandsEnd`,
`EveryoneHeard`, `CallsReturn`, `ServerLossNoticed`), which is beyond the prover, and
the four runs that find a violation.

## 6. Not modelled

* OpenSSL: ciphers, hashes, signatures, Diffie-Hellman, X.509. The modules take
  them to work between honest hosts.
* Missing files other than the sender's private key at the end of a transfer:
  certificates and parameters whose absence makes the process exit at once (one of
  the ends in `Takes` of `ServerLoop`).
* Memory: buffers and their owners in `Chunk`, leaks, `new` failing.
* Formatting, the progress bar, logging, the build files.
* The byte level of sending (a blocking send of a small frame is one step) and
  `isClosed`, which only guards calls after the process has decided to leave.
* Failures of `socket`, `bind`, `listen`, `opendir` at the start, which end the process
  or come with a broken installation; `accept` without a free descriptor.
* A death of the server across all models at once: `Session` has SIGINT within a
  command, `Handshake` the crash on a missing message and the next start,
  `ServerLoop` both for the loop around them, where a restarted server begins again
  with nobody connected.
* `clients.txt` and certificates: `trusted` of `Handshake` is their result.

## 7. Plan

Every component whose logic is its own is modelled, and every safety property and
refinement of a passing run is proved. Every finding has a theorem that says where
it cannot occur: `ZeroMeans` (`empty_file`), `SuccessExact` (`stale_tmp`),
`OldFileUntilVerified` (`read_only`) and `MacsVerify` (`nonce_zero`). What is left:

1. Shorter proofs: the leaves of `SessionProofs` repeat facts about paths that could
   be lemmas.
2. Signatures are transcripts in `Handshake`; missing keys and certificates at the start
   of a handshake, which end the process, could become faults of it.
