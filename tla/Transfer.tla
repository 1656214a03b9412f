------------------------------ MODULE Transfer ------------------------------
(***************************************************************************)
(* One file transfer: SendFile on one host, ReceiveFile on the other       *)
(* (library/SendReceiveFile.cpp), with the byte arithmetic of              *)
(* ReadFileManager, EncryptManager, DecryptManager and WriteFileManager.   *)
(*                                                                         *)
(* The ciphertext carries no framing: the receiver decides by counting     *)
(* which chunk is the last one, and so which of the next HMAC frames is    *)
(* data and which one is the signature.  The module keeps the counting and *)
(* abstracts the bytes to their number.  A frame (sendIntHMAC or           *)
(* sendDataHMAC) is one message of a FIFO; its MAC is assumed to verify,   *)
(* which is the subject of module Handshake.                               *)
(***************************************************************************)
EXTENDS Integers, Sequences

CONSTANTS Block,     \* AES_BLOCK
          Chunk,     \* MAX_CHUNK_SIZE
          MaxU32,    \* UINT32_MAX, the largest size an announcement carries
          MaxU64,    \* the largest uint64_t
          SigLen,    \* bytes of an RSA signature
          Sizes      \* the lengths a file on the sender's disk may have

ASSUME BlockAssumption == Block \in Nat \ {0}
ASSUME ChunkAssumption == Chunk \in Nat /\ Chunk >= Block
ASSUME WidthAssumption == MaxU32 \in Nat /\ MaxU64 \in Nat /\ MaxU32 <= MaxU64
ASSUME SizeAssumption  == Sizes \subseteq Nat /\ SigLen \in Nat

VARIABLES
  name,      \* the requested name: "plain", with a '/' ("slash"), or "empty"
  exists,    \* the sender can open the file
  disk,      \* bytes now in the sender's file
  size,      \* fm.size_file(): the length when it was opened
  spc,       \* where SendFile is
  unread,    \* ReadFileManager::remaining_size
  carry,     \* plaintext bytes waiting in the encryption context
  wire,      \* frames sent and not yet received
  rpc,       \* where ReceiveFile is
  left,      \* file_size in ReceiveFile, a uint32_t
  towrite,   \* WriteFileManager::remaining_size, a uint64_t
  held,      \* ciphertext bytes kept back by the decryption context
  hashed,    \* ciphertext bytes given to the signature check
  written,   \* bytes handed to the file
  fault      \* the one fault of this transfer, "none" before it

vars == <<name, exists, disk, size, spc, unread, carry, wire, rpc, left,
          towrite, held, hashed, written, fault>>

sender   == <<spc, unread, carry>>
receiver == <<rpc, left, towrite, held, hashed, written>>
request  == <<name, exists>>

SenderStates   == {"announce", "chunk", "sign", "sent", "failed", "dead"}
ReceiverStates == {"size", "chunk", "sign", "done", "nofile", "closed",
                   "corrupt", "diskfull", "crashed", "stuck", "dead"}
ReceiverGone   == {"closed", "corrupt", "diskfull", "crashed", "dead"}
SenderEnded    == {"sent", "failed", "dead"}
ReceiverEnded  == ReceiverGone \cup {"done", "nofile", "stuck"}

\* A frame.  `at` is the position of its first byte in the ciphertext, and
\* `pad` the number of padding bytes in its last block, 0 when that block
\* holds data only.
Frame(kind, at, n, pad) == [kind |-> kind, at |-> at, n |-> n, pad |-> pad]

U32(x) == x % (MaxU32 + 1)
U64(x) == x % (MaxU64 + 1)

-----------------------------------------------------------------------------
(* The ciphers: CBC with padding, as EVP_EncryptUpdate and EVP_DecryptUpdate *)
(* count the bytes they return.                                              *)

\* EncryptUpdate returns the whole blocks of what it has been given so far.
Whole(n) == (n \div Block) * Block

\* DecryptUpdate returns all but the last block, which may be the padded one.
Released(m) == IF m.n = 0 THEN 0 ELSE held + m.n - Block

-----------------------------------------------------------------------------
Init == /\ name \in {"plain", "slash", "empty"}
        /\ exists \in BOOLEAN
        /\ disk \in (IF exists THEN Sizes ELSE {0})
        /\ size = 0
        /\ spc = "announce" /\ unread = 0 /\ carry = 0
        /\ wire = <<>>
        /\ rpc = "size" /\ left = 0 /\ towrite = 0 /\ held = 0
        /\ hashed = 0 /\ written = 0
        /\ fault = "none"

-----------------------------------------------------------------------------
(* SendFile                                                                *)

\* An empty name: both functions return false before any message.
EmptyName ==
  /\ name = "empty"
  /\ \/ spc = "announce" /\ spc' = "failed" /\ UNCHANGED rpc
     \/ rpc = "size" /\ rpc' = "closed" /\ UNCHANGED spc
  /\ UNCHANGED <<request, disk, size, unread, carry, wire, left, towrite,
                 held, hashed, written, fault>>

\* A name with a '/': size 0 is announced and SendFile returns false.
RefuseName ==
  /\ spc = "announce" /\ name = "slash"
  /\ wire' = Append(wire, Frame("size", 0, 0, 0))
  /\ spc' = "failed"
  /\ UNCHANGED <<request, disk, size, unread, carry, receiver, fault>>

\* Slip: the length is announced unchecked.
AnyLength(n) == n

\* A length beyond UINT32_MAX is announced as 0.
ToAnnounce(n) == IF n > MaxU32 THEN 0 ELSE n

\* Slip: with nothing to send, SendFile returns before it has announced it.
AnnounceLate ==
  /\ spc = "announce" /\ name = "plain"
  /\ size' = disk
  /\ wire' = IF ToAnnounce(disk) = 0 THEN wire
             ELSE Append(wire, Frame("size", 0, ToAnnounce(disk), 0))
  /\ spc' = IF ToAnnounce(disk) = 0 THEN "sent" ELSE "chunk"
  /\ unread' = disk
  /\ UNCHANGED <<request, disk, carry, receiver, fault>>

\* The size is read from the disk and announced; a missing file has size 0.
\* On an announced 0 SendFile returns true.
Announce ==
  /\ spc = "announce" /\ name = "plain"
  /\ size' = disk
  /\ wire' = Append(wire, Frame("size", 0, ToAnnounce(disk), 0))
  /\ spc' = IF ToAnnounce(disk) = 0 THEN "sent" ELSE "chunk"
  /\ unread' = disk
  /\ UNCHANGED <<request, disk, carry, receiver, fault>>

ReadLen == IF unread >= Chunk THEN Chunk ELSE unread

\* One turn of the loop: read a chunk, encrypt it, finish the encryption when
\* nothing remains to be read, hash and send the ciphertext.
SendChunk ==
  /\ spc = "chunk"
  /\ size - unread + ReadLen <= disk
  /\ LET whole == Whole(carry + ReadLen)
         rest  == carry + ReadLen - whole
         last  == unread = ReadLen
     IN  /\ wire' = Append(wire,
                      Frame("chunk", size - unread - carry,
                            IF last THEN whole + Block ELSE whole,
                            IF last THEN Block - rest ELSE 0))
         /\ carry' = rest
         /\ spc' = IF last THEN "sign" ELSE "chunk"
  /\ unread' = unread - ReadLen
  /\ UNCHANGED <<request, disk, size, receiver, fault>>

\* The file has become shorter than it was: FILE_ERROR, SendFile gives up.
ReadError ==
  /\ spc = "chunk" /\ size - unread + ReadLen > disk
  /\ spc' = "failed"
  /\ UNCHANGED <<request, disk, size, unread, carry, wire, receiver, fault>>

SendSignature ==
  /\ spc = "sign"
  /\ wire' = Append(wire, Frame("sign", size - carry + Block, SigLen, 0))
  /\ spc' = "sent"
  /\ UNCHANGED <<request, disk, size, unread, carry, receiver, fault>>

\* The peer has closed the connection and a send reports it.
SendFails ==
  /\ spc \in {"announce", "chunk", "sign"} /\ name # "empty"
  /\ rpc \in ReceiverGone
  /\ spc' = "failed"
  /\ UNCHANGED <<request, disk, size, unread, carry, wire, receiver, fault>>

-----------------------------------------------------------------------------
(* ReceiveFile                                                             *)

\* The announced size sets both counters; 0 ends the transfer with true.
RecvSize ==
  /\ rpc = "size" /\ name # "empty" /\ wire # <<>>
  /\ LET m == Head(wire)
     IN  /\ rpc' = IF m.n = 0 THEN "nofile" ELSE "chunk"
         /\ left' = m.n /\ towrite' = m.n
  /\ wire' = Tail(wire)
  /\ UNCHANGED <<request, disk, size, sender, held, hashed, written, fault>>

\* The frame at hand, file_size after it, and whether it is taken for the last.
Got == Head(wire)

\* Slip: the ciphertext of the frame is subtracted, not the plaintext.
LeftByFrame == U32(left - Got.n)

LeftAfter == U32(left - Released(Got))

\* Slips: the last chunk is the one that leaves nothing; or less than a chunk.
LastLeavesNothing    == LeftAfter = 0
LastLeavesUnderChunk == LeftAfter < Chunk

IsLast == LeftAfter < Block

\* DecryptFinal strips the padding of the block kept back.
Plain == Released(Got) + (IF IsLast THEN Block - Got.pad ELSE 0)

TakeChunk ==
  /\ rpc = "chunk" /\ wire # <<>>
  /\ wire' = Tail(wire)
  /\ left' = LeftAfter

\* DecryptFinal fails on a block that is not the padded one.
FinalFails == IsLast /\ Got.pad = 0

\* One turn of the receiver's loop, up to the end of file or the next chunk.
\* When DecryptFinal fails, finalize(true) ends the transfer.
RecvChunk ==
  /\ TakeChunk
  /\ IF FinalFails
     THEN rpc' = "corrupt" /\ UNCHANGED <<towrite, held, hashed, written>>
     ELSE /\ held' = IF Got.n = 0 THEN held ELSE Block
          /\ hashed' = hashed + Got.n
          /\ written' = written + Plain
          /\ towrite' = U64(towrite - Plain)
          /\ rpc' = IF towrite' = 0 THEN "sign" ELSE "chunk"
  /\ UNCHANGED <<request, disk, size, sender, fault>>

\* Slip: the failure of the write is not looked at.
WriteFailsUnseen ==
  /\ fault = "none"
  /\ TakeChunk
  /\ ~FinalFails
  /\ held' = IF Got.n = 0 THEN held ELSE Block
  /\ hashed' = hashed + Got.n
  /\ towrite' = U64(towrite - Plain)
  /\ rpc' = (IF towrite' = 0 THEN "sign" ELSE "chunk") /\ fault' = "disk"
  /\ UNCHANGED <<request, disk, size, sender, written>>

\* The write fails (full disk, no permission): finalize(true).
WriteFails ==
  /\ fault = "none"
  /\ TakeChunk
  /\ ~FinalFails
  /\ hashed' = hashed + Got.n
  /\ rpc' = "diskfull" /\ fault' = "disk"
  /\ UNCHANGED <<request, disk, size, sender, towrite, held, written>>

\* The signature covers the ciphertext hashed by the sender.
RecvSignature ==
  /\ rpc = "sign" /\ wire # <<>>
  /\ LET m == Head(wire)
     IN  rpc' = IF m.kind = "sign" /\ m.at = hashed THEN "done" ELSE "corrupt"
  /\ wire' = Tail(wire)
  /\ UNCHANGED <<request, disk, size, sender, left, towrite, held, hashed,
                 written, fault>>

\* The sender has closed the connection and every whole frame is consumed.
\* While a chunk is awaited finalize(true) follows; in place of the signature
\* the NULL goes to RSAFinal.  Inside a frame that is cut, utilityRecv repeats
\* a recvfrom that returns 0, or fails on a reset and HMACUpdate gets the NULL.
RecvClosed ==
  /\ rpc \in {"size", "chunk", "sign"} /\ wire = <<>> /\ name # "empty"
  /\ spc \in {"failed", "dead"}
  /\ \/ rpc' = IF rpc = "sign" THEN "crashed" ELSE "closed"
     \/ fault = "cut" /\ rpc' = "stuck"
     \/ fault = "cut" /\ rpc # "size" /\ rpc' = "crashed"
  /\ UNCHANGED <<request, disk, size, sender, wire, left, towrite, held,
                 hashed, written, fault>>

-----------------------------------------------------------------------------
(* Faults: at most one in a transfer.                                      *)

\* Another program shortens the file while it is being sent.
Truncate ==
  /\ fault = "none" /\ spc = "chunk"
  /\ \E d \in Sizes : d < disk /\ disk' = d
  /\ fault' = "file"
  /\ UNCHANGED <<request, size, sender, wire, receiver>>

\* The private key cannot be read: RSAFinal finds out at the very end and ends
\* the process.
KeyMissing ==
  /\ fault = "none" /\ spc = "sign"
  /\ spc' = "dead" /\ fault' = "key"
  /\ UNCHANGED <<request, disk, size, unread, carry, wire, receiver>>

\* SIGINT ends the sender, between two frames or inside one.
SenderDies ==
  /\ fault = "none" /\ spc \notin SenderEnded
  /\ spc' = "dead" /\ fault' \in {"death", "cut"}
  /\ UNCHANGED <<request, disk, size, unread, carry, wire, receiver>>

ReceiverDies ==
  /\ fault = "none" /\ rpc \notin ReceiverEnded
  /\ rpc' = "dead" /\ fault' = "death"
  /\ UNCHANGED <<request, disk, size, sender, wire, left, towrite, held,
                 hashed, written>>

-----------------------------------------------------------------------------
Sending   == \/ RefuseName \/ Announce \/ SendChunk \/ ReadError
             \/ SendSignature
Receiving == \/ RecvSize \/ RecvChunk \/ RecvSignature \/ RecvClosed
Faults    == \/ Truncate \/ KeyMissing \/ SenderDies \/ ReceiverDies
             \/ WriteFails

\* Both functions have returned, or the receiver loops in utilityRecv.
Finished == /\ spc \in SenderEnded /\ rpc \in ReceiverEnded
            /\ UNCHANGED vars

Next == EmptyName \/ Sending \/ Receiving \/ SendFails \/ Faults \/ Finished

\* Neither function waits for anything but the other: both hosts run.
Fairness == WF_vars(Sending) /\ WF_vars(Receiving) /\ WF_vars(EmptyName)

Spec == Init /\ [][Next]_vars /\ Fairness

-----------------------------------------------------------------------------
(* Properties                                                              *)

\* The type invariant of the two functions' state and of the wire.
TypeOK ==
  /\ name \in {"plain", "slash", "empty"} /\ exists \in BOOLEAN
  /\ disk \in Nat /\ size \in Nat
  /\ spc \in SenderStates /\ unread \in Nat /\ carry \in Nat
  /\ wire \in Seq([kind : {"size", "chunk", "sign"}, at : Nat, n : Nat,
                   pad : Nat])
  /\ rpc \in ReceiverStates
  /\ left \in 0..MaxU32 /\ towrite \in 0..MaxU64 /\ held \in {0, Block}
  /\ hashed \in Nat /\ written \in Nat
  /\ fault \in {"none", "file", "key", "death", "cut", "disk"}

\* The receiver, which only counts bytes (file_size < AES_BLOCK, write's
\* END_OF_FILE), always takes the next frame for what the sender meant: a
\* size, a chunk or the signature.
FramingAgreement ==
  rpc \in {"size", "chunk", "sign"} /\ wire # <<>> => Head(wire).kind = rpc

\* DecryptFinal is called exactly on the padded block and the signature is
\* checked over exactly the signed ciphertext: between correct hosts neither
\* fails, for a file of any length.
NeverCorrupt == rpc # "corrupt"

\* When ReceiveFile leaves its loop, every byte of the file as it was
\* announced has been written, no more and no fewer.
Delivered == rpc \in {"sign", "done"} => written = size /\ towrite = 0

\* file_size (32 bits, decides the last chunk) and remaining_size (64 bits,
\* decides the end of the loop) count the same bytes, and neither wraps.
CountersAgree ==
  rpc = "chunk" => left = towrite /\ written + left = size

\* A transfer that meets no fault ends: the sender has sent all it had to and
\* the receiver has the file, or both know there is none to send.
Completes ==
  <>(fault # "none" \/ (/\ spc \in {"sent", "failed"}
                        /\ rpc \in {"done", "nofile", "closed"}))

\* What SendReceiveFile.cpp:173 prints on an announced 0: the "File does not
\* exist or too big".
ZeroMeansMissing ==
  rpc = "nofile" /\ name = "plain" => ~exists \/ size > MaxU32
=============================================================================
