--------------------------- MODULE TransferProofs ---------------------------
(***************************************************************************)
(* Proofs about Transfer, for every block and chunk size, every width of   *)
(* the counters and every file length.                                     *)
(*                                                                         *)
(* The argument follows the ciphertext as one stream of bytes.  The sender *)
(* is at position Sent of it, the receiver at position `hashed`, and the   *)
(* frames of the wire tile the interval between the two.  A chunk without  *)
(* padding ends before byte `size`, the padded one at Sent, beyond `size`; *)
(* so the receiver's subtraction drops below one block for the padded      *)
(* chunk and for no other.                                                 *)
(***************************************************************************)
EXTENDS Transfer, SequenceTheorems, TLAPS

\* Ciphertext bytes the sender has sent, its last block included.
Sent == IF unread = 0 /\ size > 0 THEN size - carry + Block
                                  ELSE size - unread - carry

Announced == ToAnnounce(size)

\* The stream position after frame m.
End(m) == IF m.kind = "chunk" THEN m.at + m.n ELSE m.at

\* The sender's counters.
SenderInv ==
  /\ unread <= size /\ carry < Block /\ carry <= size - unread
  /\ spc = "announce" => size = 0 /\ unread = 0 /\ wire = <<>>
  /\ spc = "chunk" => unread > 0 /\ size <= MaxU32
  /\ spc = "sign" => unread = 0 /\ 0 < size /\ size <= MaxU32

\* The receiver's counters, while it awaits a size, a chunk, or nothing more.
AtSize  == /\ hashed = 0 /\ held = 0 /\ written = 0
           /\ wire = <<>> => spc \in {"announce", "failed", "dead"}
AtChunk == /\ 0 < size /\ size <= MaxU32
           /\ \/ hashed = 0 /\ held = 0 /\ written = 0
              \/ hashed < size /\ held = Block /\ written = hashed - Block
           /\ left = size - written /\ towrite = left
AtEnd   == 0 < size /\ unread = 0 /\ written = size /\ towrite = 0

ReceiverInv ==
  /\ rpc = "size" => AtSize
  /\ rpc = "chunk" => AtChunk
  /\ rpc \in {"sign", "done"} => AtEnd
  /\ rpc = "sign" => hashed = Sent
  /\ rpc # "corrupt"

\* What each frame carries.
FrameInv(i) ==
  /\ wire[i].kind = "size" => /\ rpc = "size" /\ i = 1
                              /\ wire[i].n = Announced
  /\ wire[i].kind = "chunk" =>
       /\ wire[i].n >= Block /\ 0 < size /\ size <= MaxU32
       /\ wire[i].pad = 0 => wire[i].at + wire[i].n < size
       /\ wire[i].pad > 0 => /\ unread = 0 /\ wire[i].pad = Block - carry
                             /\ wire[i].at + wire[i].n = Sent
  /\ wire[i].kind = "sign" => /\ spc = "sent" /\ unread = 0 /\ 0 < size
                              /\ wire[i].at = Sent

\* The frames tile the stream between the two hosts.
WireInv ==
  rpc \in {"size", "chunk", "sign"} =>
    /\ \A i \in 1..Len(wire) : FrameInv(i)
    /\ \A i \in 1..(Len(wire) - 1) : wire[i + 1].at = End(wire[i])
    /\ wire # <<>> => wire[1].at = hashed /\ End(wire[Len(wire)]) = Sent
    /\ wire = <<>> => hashed = Sent
    /\ rpc = "size" /\ wire # <<>> => wire[1].kind = "size"

IInv == TypeOK /\ SenderInv /\ ReceiverInv /\ WireInv

-----------------------------------------------------------------------------
(* Arithmetic                                                              *)

\* Quotient and remainder are determined by their defining equation.
LEMMA DivUnique ==
  ASSUME NEW a \in Int, NEW b \in Nat \ {0}, NEW q \in Int,
         NEW r \in 0..(b - 1), a = q * b + r
  PROVE  a \div b = q /\ a % b = r
BY Z3

\* EncryptUpdate returns whole blocks and keeps less than a block.
LEMMA WholeBlocks ==
  ASSUME NEW n \in Nat
  PROVE  /\ Whole(n) \in Nat /\ Whole(n) <= n /\ n < Whole(n) + Block
         /\ n >= Block => Whole(n) >= Block
<1> DEFINE q == n \div Block
<1>1. q \in Nat /\ n % Block \in 0..(Block - 1) /\ n = q * Block + (n % Block)
  BY BlockAssumption, Z3
<1>2. q * Block \in Nat
  BY <1>1, BlockAssumption, Z3
<1>3. n >= Block => q >= 1
  <2> SUFFICES ASSUME n >= Block, q = 0 PROVE FALSE
    BY <1>1
  <2> QED BY <1>1, BlockAssumption
<1>4. q >= 1 => q * Block >= Block
  BY <1>1, BlockAssumption, Z3
<1> QED BY <1>1, <1>2, <1>3, <1>4, BlockAssumption DEF Whole

\* A value that fits in 32 bits is not changed by the conversion.
LEMMA U32Fits ==
  /\ \A x \in Int : U32(x) \in 0..MaxU32
  /\ \A x \in 0..MaxU32 : U32(x) = x
<1>1. ASSUME NEW x \in 0..MaxU32 PROVE U32(x) = x
  <2>1. x = 0 * (MaxU32 + 1) + x /\ x \in 0..((MaxU32 + 1) - 1)
    BY WidthAssumption
  <2> QED BY <2>1, DivUnique, WidthAssumption DEF U32
<1>2. ASSUME NEW x \in Int PROVE U32(x) \in 0..MaxU32
  BY WidthAssumption DEF U32
<1> QED BY <1>1, <1>2

\* The same for 64 bits.
LEMMA U64Fits ==
  /\ \A x \in Int : U64(x) \in 0..MaxU64
  /\ \A x \in 0..MaxU64 : U64(x) = x
<1>1. ASSUME NEW x \in 0..MaxU64 PROVE U64(x) = x
  <2>1. x = 0 * (MaxU64 + 1) + x /\ x \in 0..((MaxU64 + 1) - 1)
    BY WidthAssumption
  <2> QED BY <2>1, DivUnique, WidthAssumption DEF U64
<1>2. ASSUME NEW x \in Int PROVE U64(x) \in 0..MaxU64
  BY WidthAssumption DEF U64
<1> QED BY <1>1, <1>2

-----------------------------------------------------------------------------
(* The wire                                                                *)

FrameSet == [kind : {"size", "chunk", "sign"}, at : Nat, n : Nat, pad : Nat]

\* Sending a frame that starts at the sender's position extends the tiling.
LEMMA SendTiles ==
  ASSUME TypeOK, TypeOK', WireInv, NEW m \in FrameSet,
         wire' = Append(wire, m), rpc' = rpc, hashed' = hashed,
         m.at = Sent, End(m) = Sent',
         rpc = "size" /\ wire = <<>> => m.kind = "size",
         rpc \in {"size", "chunk", "sign"} =>
           \A i \in 1..(Len(wire) + 1) : FrameInv(i)'
  PROVE  WireInv'
<1> SUFFICES ASSUME rpc \in {"size", "chunk", "sign"} PROVE WireInv'
  BY DEF WireInv
<1>1. /\ wire \in Seq(FrameSet) /\ wire' \in Seq(FrameSet)
      /\ Len(wire) \in Nat /\ Len(wire') = Len(wire) + 1 /\ wire' # <<>>
      /\ wire'[Len(wire')] = m
      /\ \A i \in 1..Len(wire) : wire'[i] = wire[i]
      /\ wire = <<>> <=> Len(wire) = 0
  <2>1. wire \in Seq(FrameSet)
    BY DEF TypeOK, FrameSet
  <2> QED BY <2>1, AppendProperties, LenProperties, EmptySeq
<1>2. \A i \in 1..Len(wire') : FrameInv(i)'
  BY <1>1
<1>3. ASSUME NEW i \in 1..(Len(wire') - 1) PROVE wire'[i + 1].at = End(wire'[i])
  <2>1. CASE i = Len(wire)
    <3>1. wire # <<>> /\ wire'[i] = wire[i] /\ wire'[i + 1] = m
      BY <1>1, <2>1
    <3> QED BY <3>1, <2>1 DEF WireInv
  <2>2. CASE i < Len(wire)
    <3>1. /\ i \in 1..(Len(wire) - 1) /\ wire'[i] = wire[i]
          /\ wire'[i + 1] = wire[i + 1]
      BY <1>1, <2>2
    <3> QED BY <3>1 DEF WireInv
  <2> QED BY <1>1, <2>1, <2>2
<1>4. wire'[1].at = hashed' /\ End(wire'[Len(wire')]) = Sent'
  <2>1. CASE wire = <<>>
    BY <2>1, <1>1 DEF WireInv
  <2>2. CASE wire # <<>>
    BY <2>2, <1>1 DEF WireInv
  <2> QED BY <2>1, <2>2
<1>5. rpc' = "size" => wire'[1].kind = "size"
  <2>1. CASE wire = <<>>
    BY <2>1, <1>1
  <2>2. CASE wire # <<>>
    BY <2>2, <1>1 DEF WireInv
  <2> QED BY <2>1, <2>2
<1>6. \A i \in 1..(Len(wire') - 1) : wire'[i + 1].at = End(wire'[i])
  BY <1>3
<1>7. \A i \in 1..(Len(wire') - 1) : (wire[i + 1].at = End(wire[i]))'
  BY <1>6 DEF End
<1> QED BY <1>1, <1>2, <1>4, <1>5, <1>7 DEF WireInv, End

\* Taking the first frame leaves the tiling from the receiver's new position.
LEMMA ReceiveTiles ==
  ASSUME TypeOK, TypeOK', WireInv, wire # <<>>, wire' = Tail(wire),
         rpc \in {"size", "chunk", "sign"}, rpc' \in {"chunk", "sign"},
         hashed' = End(wire[1]), Sent' = Sent,
         \A i \in 2..Len(wire) :
           FrameInv(i) => wire[i].kind # "size" /\ FrameInv(i - 1)'
  PROVE  WireInv'
<1>1. /\ wire \in Seq(FrameSet) /\ wire' \in Seq(FrameSet)
      /\ Len(wire) \in Nat /\ Len(wire') = Len(wire) - 1
      /\ \A i \in 1..Len(wire') : wire'[i] = wire[i + 1]
      /\ wire' = <<>> <=> Len(wire') = 0
  <2>1. wire \in Seq(FrameSet) /\ wire' \in Seq(FrameSet)
    BY DEF TypeOK, FrameSet
  <2>2. Len(wire) \in Nat /\ (wire' = <<>> <=> Len(wire') = 0)
    BY <2>1, LenProperties, EmptySeq
  <2> QED BY <2>1, <2>2, HeadTailProperties
<1>2. \A i \in 1..Len(wire') : FrameInv(i)'
  <2> SUFFICES ASSUME NEW i \in 1..Len(wire') PROVE FrameInv(i)'
    OBVIOUS
  <2>1. i + 1 \in 2..Len(wire) /\ i + 1 \in 1..Len(wire) /\ (i + 1) - 1 = i
    BY <1>1
  <2>2. FrameInv(i + 1)
    BY <2>1 DEF WireInv
  <2>3. FrameInv((i + 1) - 1)'
    BY <2>1, <2>2
  <2> QED BY <2>1, <2>3
<1>3. \A i \in 1..(Len(wire') - 1) : (wire[i + 1].at = End(wire[i]))'
  <2> SUFFICES ASSUME NEW i \in 1..(Len(wire') - 1)
               PROVE  wire'[i + 1].at = End(wire'[i])
    BY DEF End
  <2>1. /\ i + 1 \in 1..(Len(wire) - 1) /\ wire'[i] = wire[i + 1]
        /\ wire'[i + 1] = wire[(i + 1) + 1]
    BY <1>1
  <2> QED BY <2>1 DEF WireInv
<1>4. wire' # <<>> => (wire[1].at = hashed /\ End(wire[Len(wire)]) = Sent)'
  <2> SUFFICES ASSUME wire' # <<>>
               PROVE  wire'[1].at = hashed' /\ End(wire'[Len(wire')]) = Sent'
    BY DEF End
  <2>1. /\ 1 \in 1..(Len(wire) - 1) /\ wire'[1] = wire[2] /\ 1 + 1 = 2
        /\ wire'[Len(wire')] = wire[Len(wire)]
    BY <1>1
  <2>2. wire[2].at = End(wire[1]) /\ End(wire[Len(wire)]) = Sent
    BY <2>1 DEF WireInv
  <2> QED BY <2>1, <2>2
<1>5. wire' = <<>> => hashed' = Sent'
  <2> SUFFICES ASSUME wire' = <<>> PROVE hashed' = Sent'
    OBVIOUS
  <2>1. Len(wire) = 1
    BY <1>1
  <2> QED BY <2>1 DEF WireInv
<1> QED BY <1>2, <1>3, <1>4, <1>5 DEF WireInv

-----------------------------------------------------------------------------
(* The invariant is inductive                                              *)

\* Nothing has been sent or counted yet.
LEMMA InitInv == Init => IInv
<1> SUFFICES ASSUME Init PROVE IInv
  OBVIOUS
<1>1. TypeOK
  BY SizeAssumption, WidthAssumption, BlockAssumption, EmptySeq
  DEF Init, TypeOK, SenderStates, ReceiverStates
<1>2. SenderInv /\ ReceiverInv
  BY BlockAssumption DEF Init, SenderInv, ReceiverInv, AtSize, AtChunk, AtEnd
<1>3. WireInv
  <2>1. wire = <<>> /\ Len(wire) = 0 /\ hashed = 0 /\ Sent = 0
    BY EmptySeq DEF Init, Sent
  <2> QED BY <2>1 DEF WireInv
<1> QED BY <1>1, <1>2, <1>3 DEF IInv

\* The actions of the sender that send nothing, and its faults.
LEMMA QuietStep ==
  ASSUME IInv,
         EmptyName \/ ReadError \/ SendFails \/ Truncate \/ KeyMissing
           \/ SenderDies
  PROVE  IInv'
<1>1. /\ UNCHANGED <<wire, size, unread, carry, hashed, held, written, left,
                     towrite>>
      /\ spc # "sent" \/ spc' = spc
      /\ spc' \in {"failed", "dead", spc}
      /\ rpc' \in {rpc, "closed"}
  BY DEF EmptyName, ReadError, SendFails, Truncate, KeyMissing, SenderDies,
         SenderEnded, sender, receiver
<1>2. TypeOK'
  <2>1. disk' \in Nat /\ name' = name /\ exists' = exists
    BY SizeAssumption
    DEF IInv, TypeOK, EmptyName, ReadError, SendFails, Truncate, KeyMissing,
        SenderDies, request, sender
  <2>2. fault' \in {"none", "file", "key", "death", "cut", "disk"}
    BY DEF IInv, TypeOK, EmptyName, ReadError, SendFails, Truncate,
           KeyMissing, SenderDies
  <2> QED BY <1>1, <2>1, <2>2 DEF IInv, TypeOK, SenderStates, ReceiverStates
<1>3. SenderInv'
  BY <1>1 DEF IInv, SenderInv
<1>4. ReceiverInv'
  BY <1>1 DEF IInv, ReceiverInv, AtSize, AtChunk, AtEnd, Sent
<1>5. WireInv'
  BY <1>1 DEF IInv, WireInv, FrameInv, End, Sent, Announced, ToAnnounce
<1> QED BY <1>2, <1>3, <1>4, <1>5 DEF IInv

\* The announcement, of a refused name or of a size.
LEMMA AnnounceStep ==
  ASSUME IInv, RefuseName \/ Announce
  PROVE  IInv'
<1> DEFINE m == Frame("size", 0, Announced', 0)
<1>1. /\ spc = "announce" /\ wire = <<>> /\ wire' = Append(wire, m)
      /\ UNCHANGED <<rpc, left, towrite, held, hashed, written, fault>>
      /\ UNCHANGED <<name, exists, disk>>
      /\ size' \in Nat /\ unread' = size' /\ size = 0 /\ unread = 0
      /\ carry = 0 /\ carry' = 0
      /\ spc' \in {"failed", "sent", "chunk"}
      /\ spc' = "chunk" => size' > 0 /\ size' <= MaxU32
  BY WidthAssumption
  DEF IInv, TypeOK, SenderInv, RefuseName, Announce, receiver, request,
      Announced, ToAnnounce, Frame
<1>0. PICK s \in Nat : size' = s
  BY <1>1
<1>2. Announced' \in Nat /\ m \in FrameSet
  BY <1>1 DEF Announced, ToAnnounce, FrameSet, Frame
<1>3. wire' \in Seq(FrameSet) /\ wire' # <<>> /\ Len(wire) = 0
  BY <1>1, <1>2, EmptySeq, AppendProperties
<1>4. TypeOK'
  BY <1>1, <1>3 DEF IInv, TypeOK, FrameSet, SenderStates
<1>5. SenderInv'
  <2>1. unread' <= size' /\ carry' < Block /\ carry' <= size' - unread'
    BY <1>1, <1>0, BlockAssumption
  <2>2. spc' # "announce" /\ spc' # "sign"
    BY <1>1
  <2>3. spc' = "chunk" => unread' > 0 /\ size' <= MaxU32
    BY <1>1
  <2> QED BY <2>1, <2>2, <2>3 DEF SenderInv
<1>6. rpc \notin {"chunk", "sign", "done"}
  BY <1>1 DEF IInv, ReceiverInv, AtSize, AtChunk, AtEnd, TypeOK
<1>7. ReceiverInv'
  BY <1>1, <1>3, <1>6 DEF IInv, ReceiverInv, AtSize, AtChunk, AtEnd
<1>8. WireInv'
  <2> SUFFICES ASSUME rpc = "size" PROVE WireInv'
    BY <1>1, <1>6 DEF WireInv, IInv, TypeOK
  <2>1. wire'[1] = m
    BY <1>1, <1>2, <1>3, EmptySeq, AppendProperties
  <2>2. FrameInv(1)'
    BY <1>1, <2>1 DEF FrameInv, Frame
  <2>3. \A i \in 1..(Len(wire) + 1) : FrameInv(i)'
    BY <1>3, <2>2
  <2>4. m.at = Sent /\ End(m) = Sent' /\ m.kind = "size"
    BY <1>0, <1>1 DEF Frame, End, Sent
  <2> QED BY <1>1, <1>2, <1>4, <2>3, <2>4, SendTiles DEF IInv
<1> QED BY <1>4, <1>5, <1>7, <1>8 DEF IInv

\* A chunk: its padding is that of the sender's last block.
LEMMA SendChunkStep ==
  ASSUME IInv, SendChunk
  PROVE  IInv'
<1> DEFINE whole == Whole(carry + ReadLen)
           rest  == carry + ReadLen - whole
           last  == unread = ReadLen
           m == Frame("chunk", size - unread - carry,
                      IF last THEN whole + Block ELSE whole,
                      IF last THEN Block - rest ELSE 0)
<1>1. /\ size \in Nat /\ unread \in Nat /\ carry \in Nat /\ Block \in Nat
      /\ 0 < Block /\ 0 < unread /\ unread <= size /\ size <= MaxU32
      /\ carry < Block /\ carry <= size - unread
      /\ ReadLen \in Nat /\ 0 < ReadLen /\ ReadLen <= unread
      /\ ~last => ReadLen >= Block
  BY BlockAssumption, ChunkAssumption
  DEF IInv, TypeOK, SenderInv, SendChunk, ReadLen
<1>2. /\ whole \in Nat /\ rest \in Nat /\ rest < Block
      /\ ~last => whole >= Block
      /\ whole + rest = carry + ReadLen
  <2> HIDE DEF last
  <2>1. carry + ReadLen \in Nat
    BY <1>1
  <2>2. /\ whole \in Nat /\ whole <= carry + ReadLen
        /\ carry + ReadLen < whole + Block
        /\ carry + ReadLen >= Block => whole >= Block
    BY <2>1, WholeBlocks
  <2> HIDE DEF whole
  <2> QED BY <1>1, <2>2
<1> HIDE DEF whole, rest
<1>3. /\ m \in FrameSet /\ m.kind = "chunk" /\ m.at = size - unread - carry
      /\ m.n = (IF last THEN whole + Block ELSE whole) /\ m.n >= Block
      /\ m.pad = (IF last THEN Block - rest ELSE 0)
      /\ last => m.pad > 0
  BY <1>1, <1>2 DEF FrameSet, Frame
<1>4. /\ spc = "chunk" /\ wire' = Append(wire, m)
      /\ unread' = unread - ReadLen /\ carry' = rest
      /\ spc' = (IF last THEN "sign" ELSE "chunk")
      /\ UNCHANGED <<rpc, left, towrite, held, hashed, written, fault>>
      /\ UNCHANGED <<name, exists, disk, size>>
  BY DEF SendChunk, receiver, request, whole, rest
<1> HIDE DEF m
<1>5. /\ Sent = size - unread - carry
      /\ last => Sent' = size - rest + Block
      /\ ~last => Sent' = size - (unread - ReadLen) - rest
  BY <1>1, <1>2, <1>4 DEF Sent
<1>6. End(m) = Sent' /\ m.at = Sent
  BY <1>1, <1>2, <1>3, <1>5 DEF End
<1>7. TypeOK'
  <2>1. wire' \in Seq(FrameSet)
    BY <1>3, <1>4, AppendProperties DEF IInv, TypeOK, FrameSet
  <2>2. unread' \in Nat /\ carry' \in Nat
    BY <1>1, <1>2, <1>4
  <2> QED BY <1>4, <2>1, <2>2 DEF IInv, TypeOK, FrameSet, SenderStates
<1>8. SenderInv'
  BY <1>1, <1>2, <1>4 DEF SenderInv
<1>9. rpc \notin {"sign", "done"}
  BY <1>1 DEF IInv, ReceiverInv, AtSize, AtChunk, AtEnd
<1>10. wire' # <<>>
  <2>1. wire \in Seq(FrameSet)
    BY DEF IInv, TypeOK, FrameSet
  <2> QED BY <1>3, <1>4, <2>1, AppendProperties
<1>11. ReceiverInv'
  BY <1>4, <1>9, <1>10 DEF IInv, ReceiverInv, AtSize, AtChunk, AtEnd
<1>12. WireInv'
  <2> SUFFICES ASSUME rpc \in {"size", "chunk"} PROVE WireInv'
    BY <1>4, <1>9 DEF WireInv
  <2>1. ~(rpc = "size" /\ wire = <<>>)
    BY <1>4 DEF IInv, ReceiverInv, AtSize, AtChunk, AtEnd
  <2>2. /\ wire \in Seq(FrameSet) /\ Len(wire) \in Nat
        /\ wire'[Len(wire) + 1] = m
        /\ \A i \in 1..Len(wire) : wire'[i] = wire[i]
    BY <1>3, <1>4, LenProperties, AppendProperties DEF IInv, TypeOK, FrameSet
  <2>3. ASSUME NEW i \in 1..Len(wire) PROVE FrameInv(i)'
    <3>1. FrameInv(i)
      BY DEF IInv, WireInv
    <3>2. wire[i].kind = "chunk" => wire[i].pad \in Nat /\ ~(wire[i].pad > 0)
      <4>1. wire[i] \in FrameSet
        BY <2>2, ElementOfSeq
      <4> QED BY <1>1, <3>1, <4>1 DEF FrameInv, FrameSet
    <3>3. wire[i].kind # "sign"
      BY <3>1, <1>4 DEF FrameInv
    <3>4. wire'[i] = wire[i] /\ rpc' = rpc /\ size' = size
      BY <1>4, <2>2
    <3> QED BY <3>1, <3>2, <3>3, <3>4 DEF FrameInv, Announced
  <2>4. ASSUME NEW i, i = Len(wire) + 1 PROVE FrameInv(i)'
    <3>1. ~last => m.at + m.n < size
      BY <1>1, <1>2, <1>3
    <3>2. last => unread' = 0
      BY <1>1, <1>4
    <3>3. m.at + m.n = Sent'
      BY <1>3, <1>6 DEF End
    <3>4. wire'[i] = m /\ size' = size /\ carry' = rest
      BY <1>4, <2>2, <2>4
    <3> QED BY <1>1, <1>3, <3>1, <3>2, <3>3, <3>4 DEF FrameInv
  <2>5. \A i \in 1..(Len(wire) + 1) : FrameInv(i)'
    BY <2>2, <2>3, <2>4
  <2> QED BY <1>3, <1>4, <1>6, <1>7, <2>1, <2>5, SendTiles DEF IInv
<1> QED BY <1>7, <1>8, <1>11, <1>12 DEF IInv

\* The signature: it starts where the ciphertext ends.
LEMMA SendSignatureStep ==
  ASSUME IInv, SendSignature
  PROVE  IInv'
<1> DEFINE m == Frame("sign", size - carry + Block, SigLen, 0)
<1>1. /\ size \in Nat /\ carry \in Nat /\ Block \in Nat
      /\ unread = 0 /\ 0 < size /\ carry < Block
      /\ spc = "sign" /\ spc' = "sent" /\ wire' = Append(wire, m)
      /\ UNCHANGED <<rpc, left, towrite, held, hashed, written, fault>>
      /\ UNCHANGED <<name, exists, disk, size, unread, carry>>
  BY BlockAssumption
  DEF IInv, TypeOK, SenderInv, SendSignature, receiver, request
<1>2. /\ m \in FrameSet /\ m.kind = "sign" /\ m.at = Sent /\ End(m) = Sent
      /\ Sent' = Sent
  BY <1>1, SizeAssumption DEF FrameSet, Frame, Sent, End
<1> HIDE DEF m
<1>3. /\ wire \in Seq(FrameSet) /\ Len(wire) \in Nat
      /\ wire' \in Seq(FrameSet) /\ wire' # <<>>
      /\ wire'[Len(wire) + 1] = m
      /\ \A i \in 1..Len(wire) : wire'[i] = wire[i]
  <2>1. wire \in Seq(FrameSet)
    BY DEF IInv, TypeOK, FrameSet
  <2> QED BY <1>1, <1>2, <2>1, LenProperties, AppendProperties
<1>4. TypeOK'
  BY <1>1, <1>3 DEF IInv, TypeOK, FrameSet, SenderStates
<1>5. SenderInv'
  BY <1>1 DEF IInv, SenderInv
<1>6. ReceiverInv'
  BY <1>1, <1>2, <1>3 DEF IInv, ReceiverInv, AtSize, AtChunk, AtEnd
<1>7. WireInv'
  <2> SUFFICES ASSUME rpc \in {"size", "chunk", "sign"} PROVE WireInv'
    BY <1>1 DEF WireInv
  <2>1. ~(rpc = "size" /\ wire = <<>>)
    BY <1>1 DEF IInv, ReceiverInv, AtSize, AtChunk, AtEnd
  <2>2. ASSUME NEW i \in 1..Len(wire) PROVE FrameInv(i)'
    <3>1. FrameInv(i) /\ wire'[i] = wire[i]
      BY <1>3 DEF IInv, WireInv
    <3> QED BY <1>1, <1>2, <3>1 DEF FrameInv, Announced
  <2>3. ASSUME NEW i, i = Len(wire) + 1 PROVE FrameInv(i)'
    BY <1>1, <1>2, <1>3, <2>3 DEF FrameInv
  <2>4. \A i \in 1..(Len(wire) + 1) : FrameInv(i)'
    BY <1>3, <2>2, <2>3
  <2> QED BY <1>1, <1>2, <1>4, <2>1, <2>4, SendTiles DEF IInv
<1> QED BY <1>4, <1>5, <1>6, <1>7 DEF IInv

-----------------------------------------------------------------------------
(* The receiver's steps                                                    *)

\* The frames behind the first one are as they were, one place further on.
LEMMA TakeHead ==
  ASSUME IInv, wire # <<>>
  PROVE  /\ wire \in Seq(FrameSet) /\ Len(wire) \in Nat /\ Len(wire) >= 1
         /\ Head(wire) = wire[1] /\ wire[1] \in FrameSet
         /\ Tail(wire) \in Seq(FrameSet)
         /\ \A i \in 2..Len(wire) : Tail(wire)[i - 1] = wire[i]
<1>1. wire \in Seq(FrameSet)
  BY DEF IInv, TypeOK, FrameSet
<1>2. Len(wire) \in Nat /\ Len(wire) >= 1
  BY <1>1, EmptySeq
<1>3. /\ Tail(wire) \in Seq(FrameSet) /\ Len(Tail(wire)) = Len(wire) - 1
      /\ \A i \in 1..Len(Tail(wire)) : Tail(wire)[i] = wire[i + 1]
  BY <1>1, HeadTailProperties
<1>4. ASSUME NEW i \in 2..Len(wire) PROVE Tail(wire)[i - 1] = wire[i]
  <2>1. i - 1 \in 1..Len(Tail(wire)) /\ (i - 1) + 1 = i
    BY <1>2, <1>3
  <2> QED BY <2>1, <1>3
<1> QED BY <1>1, <1>2, <1>3, <1>4, ElementOfSeq

\* The size.
LEMMA RecvSizeStep ==
  ASSUME IInv, RecvSize
  PROVE  IInv'
<1>1. /\ rpc = "size" /\ wire # <<>> /\ wire' = Tail(wire)
      /\ rpc' = (IF wire[1].n = 0 THEN "nofile" ELSE "chunk")
      /\ left' = wire[1].n /\ towrite' = wire[1].n
      /\ UNCHANGED <<held, hashed, written, fault, spc, unread, carry>>
      /\ UNCHANGED <<name, exists, disk, size>>
  BY TakeHead DEF RecvSize, sender, request
<1>2. /\ wire[1].kind = "size" /\ wire[1].n = Announced
      /\ wire[1].at = hashed /\ hashed = 0 /\ held = 0 /\ written = 0
  <2>1. FrameInv(1)
    BY <1>1, TakeHead DEF IInv, WireInv
  <2> QED BY <1>1, <2>1 DEF IInv, WireInv, ReceiverInv, AtSize, AtChunk, AtEnd, FrameInv
<1>3. size \in Nat /\ Announced \in 0..MaxU32 /\ Announced \in 0..MaxU64
  BY WidthAssumption DEF IInv, TypeOK, Announced, ToAnnounce
<1>4. TypeOK'
  BY <1>1, <1>2, <1>3, TakeHead DEF IInv, TypeOK, FrameSet, ReceiverStates
<1>5. SenderInv'
  BY <1>1, TakeHead, EmptySeq DEF IInv, SenderInv
<1>6. rpc' = "chunk" => 0 < size /\ size <= MaxU32 /\ Announced = size
  BY <1>1, <1>2, <1>3, WidthAssumption DEF Announced, ToAnnounce
<1>7. ReceiverInv'
  BY <1>1, <1>2, <1>3, <1>6 DEF ReceiverInv, AtSize, AtChunk, AtEnd
<1>8. WireInv'
  <2> SUFFICES ASSUME rpc' = "chunk" PROVE WireInv'
    BY <1>1 DEF WireInv
  <2>1. ASSUME NEW i \in 2..Len(wire), FrameInv(i)
        PROVE  wire[i].kind # "size" /\ FrameInv(i - 1)'
    <3>1. wire'[i - 1] = wire[i] /\ i # 1
      BY <1>1, TakeHead
    <3> QED BY <1>1, <2>1, <3>1 DEF FrameInv, Sent
  <2>2. hashed' = End(wire[1]) /\ Sent' = Sent
    BY <1>1, <1>2 DEF End, Sent
  <2> QED BY <1>1, <1>4, <2>1, <2>2, ReceiveTiles DEF IInv
<1> QED BY <1>4, <1>5, <1>7, <1>8 DEF IInv

\* The heart of the argument: while the receiver awaits a chunk the first
\* frame is one, and counting tells the padded one from the others.
LEMMA ChunkAtHead ==
  ASSUME IInv, rpc = "chunk", wire # <<>>
  PROVE  /\ Got = wire[1] /\ Got.kind = "chunk" /\ Got.at = hashed
         /\ Got.n \in Nat /\ Got.n >= Block /\ Got.pad \in Nat
         /\ Plain \in Nat /\ LeftAfter \in 0..MaxU32
         /\ Got.pad = 0 => /\ ~IsLast /\ hashed + Got.n < size
                           /\ written + Plain = hashed + Got.n - Block
                           /\ LeftAfter = size - (written + Plain)
                           /\ U64(towrite - Plain) = LeftAfter
                           /\ LeftAfter > 0
         /\ Got.pad > 0 => /\ IsLast /\ unread = 0 /\ hashed + Got.n = Sent
                           /\ written + Plain = size
                           /\ U64(towrite - Plain) = 0
<1>1. /\ Got = wire[1] /\ Got \in FrameSet /\ Got.n \in Nat
      /\ Got.pad \in Nat /\ FrameInv(1) /\ Got.at = hashed
  BY TakeHead DEF Got, FrameSet, IInv, WireInv
<1>2. /\ size \in Nat /\ unread \in Nat /\ carry \in Nat /\ hashed \in Nat
      /\ written \in Nat /\ Block \in Nat /\ 0 < Block /\ carry < Block
      /\ 0 < size /\ size <= MaxU32 /\ MaxU32 \in Nat /\ MaxU64 \in Nat
      /\ MaxU32 <= MaxU64
      /\ \/ hashed = 0 /\ held = 0 /\ written = 0
         \/ hashed < size /\ held = Block /\ written = hashed - Block
      /\ left = size - written /\ towrite = left
  BY BlockAssumption, WidthAssumption
  DEF IInv, TypeOK, SenderInv, ReceiverInv, AtSize, AtChunk, AtEnd
<1>3. Got.kind = "chunk"
  <2>1. Got.kind # "sign"
    <3> SUFFICES ASSUME Got.kind = "sign" PROVE FALSE
      OBVIOUS
    <3>1. hashed = size - carry + Block
      BY <1>1, <1>2 DEF FrameInv, Sent
    <3> QED BY <1>2, <3>1
  <2>2. Got.kind # "size"
    BY <1>1 DEF FrameInv
  <2> QED BY <1>1, <2>1, <2>2 DEF FrameSet
<1>4. /\ Got.n >= Block
      /\ Got.pad = 0 => hashed + Got.n < size
      /\ Got.pad > 0 => /\ unread = 0 /\ Got.pad = Block - carry
                        /\ hashed + Got.n = Sent /\ Sent = size - carry + Block
  BY <1>1, <1>2, <1>3 DEF FrameInv, Sent
<1>n. PICK n \in Nat : Got.n = n
  BY <1>1
<1>p. PICK p \in Nat : Got.pad = p
  BY <1>1
<1>5. PICK R \in Nat : R = Released(Got) /\ written + R = hashed + n - Block
  BY <1>2, <1>4, <1>n DEF Released
<1>6. LeftAfter = left - R /\ left - R \in 0..MaxU32
  <2>1. left - R \in 0..MaxU32
    <3>1. CASE p = 0
      BY <1>2, <1>4, <1>5, <1>n, <1>p, <3>1
    <3>2. CASE p > 0
      BY <1>2, <1>4, <1>5, <1>n, <1>p, <3>2
    <3> QED BY <3>1, <3>2
  <2> QED BY <2>1, <1>5, U32Fits DEF LeftAfter
<1>7. PICK l \in 0..MaxU32 : l = LeftAfter /\ l = left - R
  BY <1>6
<1>8. CASE p = 0
  <2>1. l >= Block /\ l > 0
    BY <1>2, <1>4, <1>5, <1>7, <1>n, <1>p, <1>8
  <2>2. ~IsLast /\ Plain = R
    <3>1. ~IsLast
      BY <1>2, <1>7, <2>1 DEF IsLast
    <3> QED BY <3>1, <1>5 DEF Plain
  <2>3. towrite - R = l /\ l \in 0..MaxU64
    BY <1>2, <1>7
  <2>4. U64(towrite - Plain) = l
    BY <2>2, <2>3, U64Fits
  <2>5. hashed + n < size /\ l = size - (written + R)
    BY <1>2, <1>4, <1>7, <1>8, <1>n, <1>p
  <2> QED BY <1>1, <1>3, <1>4, <1>5, <1>7, <1>8, <1>n, <1>p, <2>1, <2>2, <2>4,
             <2>5
<1>9. CASE p > 0
  <2>1. l = carry /\ unread = 0 /\ p = Block - carry /\ hashed + n = Sent
    BY <1>2, <1>4, <1>5, <1>7, <1>9, <1>n, <1>p
  <2>2. IsLast /\ Plain = R + carry
    <3>1. IsLast
      BY <1>2, <1>7, <2>1 DEF IsLast
    <3>2. Plain = R + (Block - p)
      BY <3>1, <1>5, <1>p DEF Plain
    <3> QED BY <3>1, <3>2, <2>1, <1>2
  <2>3. written + (R + carry) = size /\ towrite - (R + carry) = 0
    BY <1>2, <1>4, <1>5, <1>9, <1>n, <1>p, <2>1
  <2>4. U64(towrite - Plain) = 0 /\ Plain \in Nat
    <3>1. 0 \in 0..MaxU64 /\ R + carry \in Nat
      BY <1>2
    <3> QED BY <3>1, <2>2, <2>3, U64Fits
  <2> QED BY <1>1, <1>3, <1>4, <1>7, <1>9, <1>n, <1>p, <2>1, <2>2, <2>3, <2>4
<1> QED BY <1>8, <1>9

\* While the receiver awaits the signature the first frame is the signature,
\* of the ciphertext it has hashed.
LEMMA SignAtHead ==
  ASSUME IInv, rpc = "sign", wire # <<>>
  PROVE  Head(wire).kind = "sign" /\ Head(wire).at = hashed
<1>1. FrameInv(1) /\ wire[1].at = hashed /\ hashed = Sent /\ Head(wire) = wire[1]
  BY TakeHead DEF IInv, WireInv, ReceiverInv
<1>2. /\ wire[1].kind \in {"size", "chunk", "sign"} /\ hashed \in Nat
      /\ size \in Nat /\ carry \in Nat /\ Block \in Nat /\ 0 < Block
      /\ carry < Block /\ unread = 0 /\ 0 < size
  BY TakeHead, BlockAssumption
  DEF IInv, TypeOK, SenderInv, ReceiverInv, AtEnd, FrameSet
<1>3. wire[1].kind # "size"
  BY <1>1 DEF FrameInv
<1>4. wire[1].kind # "chunk"
  <2> SUFFICES ASSUME wire[1].kind = "chunk" PROVE FALSE
    OBVIOUS
  <2>1. PICK n \in Nat : wire[1].n = n
    BY TakeHead DEF FrameSet
  <2>2. PICK p \in Nat : wire[1].pad = p
    BY TakeHead DEF FrameSet
  <2>3. hashed = size - carry + Block
    BY <1>1, <1>2 DEF Sent
  <2> QED BY <1>1, <1>2, <2>1, <2>2, <2>3 DEF FrameInv
<1> QED BY <1>1, <1>2, <1>3, <1>4

\* DecryptFinal does not fail.
LEMMA FinalSucceeds ==
  ASSUME IInv, TakeChunk
  PROVE  ~FinalFails
BY ChunkAtHead DEF TakeChunk, FinalFails

\* A chunk is taken and written.
LEMMA RecvChunkStep ==
  ASSUME IInv, RecvChunk
  PROVE  IInv'
<1>1. /\ rpc = "chunk" /\ wire # <<>> /\ wire' = Tail(wire)
      /\ left' = LeftAfter /\ hashed' = hashed + Got.n
      /\ written' = written + Plain /\ towrite' = U64(towrite - Plain)
      /\ held' = (IF Got.n = 0 THEN held ELSE Block)
      /\ rpc' = (IF towrite' = 0 THEN "sign" ELSE "chunk")
      /\ UNCHANGED <<fault, spc, unread, carry, name, exists, disk, size>>
  BY FinalSucceeds DEF RecvChunk, TakeChunk, sender, request
<1>2. /\ size \in Nat /\ hashed \in Nat /\ written \in Nat
      /\ Block \in Nat /\ 0 < Block /\ 0 < size /\ size <= MaxU32
  BY <1>1, BlockAssumption DEF IInv, TypeOK, ReceiverInv, AtSize, AtChunk, AtEnd
<1>n. PICK n \in Nat : Got.n = n /\ n >= Block
  BY <1>1, ChunkAtHead
<1>p. PICK p \in Nat : Got.pad = p
  BY <1>1, ChunkAtHead
<1>q. PICK q \in Nat : Plain = q
  BY <1>1, ChunkAtHead
<1>3. held' = Block /\ hashed' = End(wire[1]) /\ Sent' = Sent
  <2>1. n # 0 /\ Got = wire[1] /\ Got.kind = "chunk" /\ Got.at = hashed
    BY <1>1, <1>2, <1>n, ChunkAtHead
  <2> QED BY <1>1, <1>n, <2>1 DEF End, Sent
<1>4. TypeOK'
  <2>1. hashed' \in Nat /\ written' \in Nat /\ left' \in 0..MaxU32
    BY <1>1, <1>2, <1>n, <1>q, ChunkAtHead
  <2>2. towrite' \in 0..MaxU64
    <3>1. towrite - q \in Int
      BY WidthAssumption DEF IInv, TypeOK
    <3> QED BY <1>1, <1>q, <3>1, U64Fits
  <2>3. wire' \in Seq(FrameSet)
    BY <1>1, TakeHead
  <2> QED BY <1>1, <1>3, <2>1, <2>2, <2>3
          DEF IInv, TypeOK, FrameSet, ReceiverStates
<1>5. SenderInv'
  BY <1>1, TakeHead DEF IInv, SenderInv
<1>6. ASSUME p = 0 PROVE ReceiverInv'
  <2>1. PICK l \in Nat : /\ l = LeftAfter /\ l = size - (written + q) /\ l > 0
                         /\ U64(towrite - Plain) = l
    BY <1>1, <1>p, <1>q, <1>6, ChunkAtHead
  <2>2. hashed + n < size /\ written + q = (hashed + n) - Block
    BY <1>1, <1>2, <1>n, <1>p, <1>q, <1>6, ChunkAtHead
  <2>3. rpc' = "chunk" /\ towrite' = l /\ left' = l
    BY <1>1, <2>1
  <2>4. AtChunk'
    <3>1. hashed' < size' /\ held' = Block /\ written' = hashed' - Block
      BY <1>1, <1>2, <1>3, <1>n, <1>q, <2>2
    <3>2. left' = size' - written' /\ towrite' = left'
      BY <1>1, <1>q, <2>1, <2>3
    <3>3. 0 < size' /\ size' <= MaxU32
      BY <1>1, <1>2
    <3> QED BY <3>1, <3>2, <3>3 DEF AtChunk
  <2> QED BY <2>3, <2>4 DEF ReceiverInv
<1>7. ASSUME p > 0 PROVE ReceiverInv'
  <2>1. rpc' = "sign" /\ towrite' = 0 /\ written' = size /\ hashed' = Sent
    BY <1>1, <1>p, <1>7, ChunkAtHead
  <2>2. unread' = 0 /\ size' = size /\ 0 < size
    BY <1>1, <1>2, <1>p, <1>7, ChunkAtHead
  <2>3. AtEnd'
    BY <2>1, <2>2 DEF AtEnd
  <2> QED BY <1>3, <2>1, <2>3 DEF ReceiverInv
<1>8. ReceiverInv'
  BY <1>p, <1>6, <1>7
<1>9. WireInv'
  <2>1. ASSUME NEW i \in 2..Len(wire), FrameInv(i)
        PROVE  wire[i].kind # "size" /\ FrameInv(i - 1)'
    <3>1. wire'[i - 1] = wire[i] /\ i # 1
      BY <1>1, TakeHead
    <3> QED BY <1>1, <1>3, <2>1, <3>1 DEF FrameInv
  <2> QED BY <1>1, <1>3, <1>4, <2>1, ReceiveTiles DEF IInv
<1> QED BY <1>4, <1>5, <1>8, <1>9 DEF IInv

\* The other ways the receiver can leave its wait.
LEMMA LeaveStep ==
  ASSUME IInv,
         WriteFails \/ RecvSignature \/ RecvClosed \/ ReceiverDies
  PROVE  IInv'
<1>2. /\ rpc' \in ReceiverEnded /\ rpc \notin ReceiverEnded
      /\ wire' \in {wire, Tail(wire)} /\ (wire' # wire => wire # <<>>)
      /\ UNCHANGED <<spc, unread, carry, name, exists, disk, size>>
      /\ UNCHANGED <<held, written, towrite>>
  BY DEF WriteFails, TakeChunk, RecvSignature, RecvClosed, ReceiverDies,
         ReceiverEnded, ReceiverGone, sender, request
<1>3. wire' \in Seq(FrameSet) /\ (wire = <<>> => wire' = <<>>)
  BY <1>2, TakeHead DEF IInv, TypeOK, FrameSet
<1>4. TypeOK'
  <2>1. hashed' \in Nat /\ left' \in 0..MaxU32
    <3>1. ASSUME WriteFails PROVE hashed' \in Nat /\ left' \in 0..MaxU32
      <4>1. rpc = "chunk" /\ wire # <<>> /\ hashed' = hashed + Got.n
        BY <3>1 DEF WriteFails, TakeChunk
      <4>2. PICK n \in Nat : Got.n = n
        BY <4>1, ChunkAtHead
      <4> QED BY <3>1, <4>1, <4>2, ChunkAtHead
              DEF WriteFails, TakeChunk, IInv, TypeOK
    <3> QED BY <3>1
            DEF IInv, TypeOK, RecvSignature, RecvClosed, ReceiverDies
  <2>2. fault' \in {"none", "file", "key", "death", "cut", "disk"}
    BY DEF IInv, TypeOK, WriteFails, RecvSignature, RecvClosed, ReceiverDies
  <2> QED BY <1>2, <1>3, <2>1, <2>2
          DEF IInv, TypeOK, FrameSet, ReceiverStates, ReceiverEnded,
              ReceiverGone
<1>5. SenderInv'
  BY <1>2, <1>3 DEF IInv, SenderInv
<1>6. rpc' # "corrupt" /\ (rpc' = "done" => rpc = "sign")
  <2>1. ASSUME RecvSignature PROVE rpc' = "done" /\ rpc = "sign"
    <3>1. /\ rpc = "sign" /\ wire # <<>>
          /\ rpc' = (IF wire[1].kind = "sign" /\ wire[1].at = hashed
                     THEN "done" ELSE "corrupt")
      BY <2>1, TakeHead DEF RecvSignature
    <3> QED BY <3>1, SignAtHead, TakeHead
  <2> QED BY <2>1 DEF WriteFails, RecvClosed, ReceiverDies
<1>7. ReceiverInv'
  BY <1>2, <1>6 DEF IInv, ReceiverInv, AtSize, AtChunk, AtEnd, ReceiverEnded, ReceiverGone
<1>8. WireInv'
  BY <1>2 DEF WireInv, ReceiverEnded, ReceiverGone
<1> QED BY <1>4, <1>5, <1>7, <1>8 DEF IInv

\* The finished transfer, and any step that changes nothing.
LEMMA StutterStep ==
  ASSUME IInv, UNCHANGED vars
  PROVE  IInv'
<1> USE DEF vars, sender, receiver, request
<1>1. TypeOK' /\ SenderInv'
  BY DEF IInv, TypeOK, SenderInv
<1>2. ReceiverInv'
  BY DEF IInv, ReceiverInv, AtSize, AtChunk, AtEnd, Sent
<1>3. WireInv'
  BY DEF IInv, WireInv, FrameInv, End, Sent, Announced
<1> QED BY <1>1, <1>2, <1>3 DEF IInv

\* Every step of Transfer keeps the invariant.
LEMMA Inductive == IInv /\ [Next]_vars => IInv'
<1> SUFFICES ASSUME IInv, [Next]_vars PROVE IInv'
  OBVIOUS
<1>1. CASE EmptyName \/ SendFails
  BY <1>1, QuietStep
<1>2. CASE Sending
  BY <1>2, AnnounceStep, SendChunkStep, SendSignatureStep, QuietStep
  DEF Sending
<1>3. CASE Receiving
  BY <1>3, RecvSizeStep, RecvChunkStep, LeaveStep DEF Receiving
<1>4. CASE Faults
  BY <1>4, QuietStep, LeaveStep DEF Faults
<1>5. CASE Finished \/ UNCHANGED vars
  BY <1>5, StutterStep DEF Finished
<1> QED BY <1>1, <1>2, <1>3, <1>4, <1>5 DEF Next

\* The invariant holds in every reachable state.
THEOREM Invariance == Spec => []IInv
<1> QED BY InitInv, Inductive, PTL DEF Spec

-----------------------------------------------------------------------------
(* The properties                                                          *)

\* The state of SendFile, ReceiveFile and the wire keeps its type; in
\* particular an announced size and both of the receiver's counters fit.
THEOREM TransferTypeCorrect == Spec => []TypeOK
<1>1. IInv => TypeOK
  BY DEF IInv
<1> QED BY <1>1, Invariance, PTL

\* ReceiveFile takes every frame for what SendFile meant it to be, whatever
\* the file's length, the chunk size and the block size.
THEOREM FramesAgree == Spec => []FramingAgreement
<1>1. IInv => FramingAgreement
  <2> SUFFICES ASSUME IInv, rpc \in {"size", "chunk", "sign"}, wire # <<>>
               PROVE  Head(wire).kind = rpc
    BY DEF FramingAgreement
  <2>1. CASE rpc = "size"
    BY <2>1, TakeHead DEF IInv, WireInv
  <2>2. CASE rpc = "chunk"
    BY <2>2, ChunkAtHead DEF Got
  <2>3. CASE rpc = "sign"
    BY <2>3, SignAtHead
  <2> QED BY <2>1, <2>2, <2>3
<1> QED BY <1>1, Invariance, PTL

\* DecryptFinal and the signature check never fail between correct hosts.
THEOREM TransferNeverCorrupt == Spec => []NeverCorrupt
<1>1. IInv => NeverCorrupt
  BY DEF IInv, ReceiverInv, NeverCorrupt
<1> QED BY <1>1, Invariance, PTL

\* When the receiver leaves its loop it has written exactly the file.
THEOREM FileDelivered == Spec => []Delivered
<1>1. IInv => Delivered
  BY DEF IInv, ReceiverInv, AtEnd, Delivered
<1> QED BY <1>1, Invariance, PTL

\* The 32-bit and the 64-bit counter of the receiver stay equal.
THEOREM CountersAlwaysAgree == Spec => []CountersAgree
<1>1. IInv => CountersAgree
  <2> SUFFICES ASSUME IInv, rpc = "chunk"
               PROVE  left = towrite /\ written + left = size
    BY DEF CountersAgree
  <2>1. size \in Nat /\ written \in Nat /\ left \in Nat
    BY WidthAssumption DEF IInv, TypeOK
  <2> QED BY <2>1 DEF IInv, ReceiverInv, AtChunk
<1> QED BY <1>1, Invariance, PTL
-----------------------------------------------------------------------------
(* What an announced 0 means                                               *)

\* When ReceiveFile prints that a file does not exist or is too big, there are
\* three reasons: SendFile has refused a name with a '/', measured nothing and
\* returned false; or it has measured the file and found no byte; or more than
\* 32 bits can say.  (The run of ZeroMeansMissing shows that a file in which no
\* byte was found may well exist.)
ZeroExplained ==
  rpc = "nofile" =>
    \/ name = "slash" /\ spc = "failed"
    \/ name = "plain" /\ spc # "announce" /\ (size = 0 \/ size > MaxU32)

\* Where SendFile may be with a name it does not open; it sends nothing before
\* it refuses, and an empty name brings ReceiveFile to no announcement.
RefusedInv ==
  /\ name # "plain" => /\ spc \in {"announce", "failed", "dead"}
                       /\ spc = "dead" => wire = <<>>
  /\ name = "empty" => rpc # "nofile"

\* No step of the two functions but those on such a name sends for it.
LEMMA RefusedStep ==
  ASSUME IInv, RefusedInv, [Next]_vars
  PROVE  RefusedInv'
<1>1. CASE EmptyName \/ RefuseName \/ SendFails
  BY <1>1 DEF EmptyName, RefuseName, SendFails, RefusedInv, request, receiver
<1>2. CASE Announce
  BY <1>2 DEF Announce, RefusedInv, request, receiver
<1>3. CASE SendChunk \/ ReadError \/ SendSignature \/ KeyMissing
  BY <1>3 DEF SendChunk, ReadError, SendSignature, KeyMissing, RefusedInv, request, receiver
<1>4. CASE SenderDies
  BY <1>4 DEF SenderDies, SenderEnded, RefusedInv, IInv, SenderInv, TypeOK, SenderStates,
              request, receiver
<1>5. CASE RecvSize \/ RecvChunk \/ WriteFails \/ RecvSignature
  <2>1. UNCHANGED <<name, spc>> /\ wire # <<>> /\ (name = "empty" => rpc' # "nofile")
    BY <1>5 DEF RecvSize, RecvChunk, WriteFails, RecvSignature, TakeChunk, request, sender
  <2> QED BY <2>1 DEF RefusedInv
<1>6. CASE RecvClosed \/ Truncate \/ ReceiverDies
  <2>1. UNCHANGED <<name, spc, wire>> /\ (rpc' = "nofile" => rpc = "nofile")
    BY <1>6 DEF RecvClosed, Truncate, ReceiverDies, request, sender, receiver
  <2> QED BY <2>1 DEF RefusedInv
<1>7. CASE Finished \/ UNCHANGED vars
  BY <1>7 DEF Finished, vars, RefusedInv
<1> QED BY <1>1, <1>2, <1>3, <1>4, <1>5, <1>6, <1>7 DEF Next, Sending, Receiving, Faults

\* The size ToAnnounce sends for a file stands in the size frame of the wire.
THEOREM ZeroMeans == Spec => []ZeroExplained
<1>1. Init => RefusedInv /\ ZeroExplained
  BY DEF Init, RefusedInv, ZeroExplained
<1>2. IInv /\ RefusedInv /\ ZeroExplained /\ [Next]_vars => ZeroExplained'
  <2> SUFFICES ASSUME IInv, RefusedInv, ZeroExplained, [Next]_vars PROVE ZeroExplained'
    OBVIOUS
  <2>1. CASE RecvSize
    <3>1. /\ wire # <<>> /\ rpc = "size" /\ UNCHANGED <<name, size, spc>>
          /\ rpc' = "nofile" => Head(wire).n = 0
          /\ name # "empty"
      BY <2>1 DEF RecvSize, request, sender
    <3>2. spc # "announce"
      BY <3>1 DEF IInv, SenderInv
    <3>3. Head(wire).n = Announced
      BY <3>1, TakeHead DEF IInv, WireInv, FrameInv
    <3>4. CASE name = "plain"
      BY <3>1, <3>2, <3>3, <3>4 DEF ZeroExplained, Announced, ToAnnounce
    <3>5. CASE name = "slash"
      BY <3>1, <3>2, <3>5 DEF ZeroExplained, RefusedInv
    <3> QED BY <3>1, <3>4, <3>5 DEF IInv, TypeOK
  <2>2. CASE Announce
    BY <2>2 DEF Announce, request, receiver, ZeroExplained
  <2>3. CASE RecvChunk \/ WriteFails \/ RecvSignature \/ RecvClosed
    <3>1. rpc' # "nofile"
      BY <2>3 DEF RecvChunk, WriteFails, RecvSignature, RecvClosed
    <3> QED BY <3>1 DEF ZeroExplained
  <2>4. CASE SendFails \/ RefuseName \/ SendChunk \/ ReadError \/ SendSignature
    <3>1. /\ UNCHANGED <<name, size, rpc>> /\ spc' # "announce"
          /\ spc # "failed"
      BY <2>4 DEF SendFails, RefuseName, SendChunk, ReadError, SendSignature,
                  request, receiver
    <3> QED BY <3>1 DEF ZeroExplained
  <2>5. CASE Truncate \/ KeyMissing \/ SenderDies \/ ReceiverDies
    <3>1. UNCHANGED <<name, size>> /\ (spc' = spc \/ (spc # "failed" /\ spc' = "dead"))
            /\ (rpc' = rpc \/ rpc' = "dead")
      BY <2>5 DEF Truncate, KeyMissing, SenderDies, ReceiverDies, SenderEnded, request,
                  sender, receiver
    <3> QED BY <3>1 DEF ZeroExplained
  <2>6. CASE Finished \/ UNCHANGED vars
    BY <2>6 DEF Finished, vars, ZeroExplained
  <2>7. CASE EmptyName
    BY <2>7 DEF EmptyName, request, RefusedInv, ZeroExplained
  <2> QED BY <2>1, <2>2, <2>3, <2>4, <2>5, <2>6, <2>7 DEF Next, Sending, Receiving, Faults
<1>3. IInv /\ RefusedInv /\ [Next]_vars => RefusedInv'
  BY RefusedStep
<1> QED BY <1>1, <1>2, <1>3, Invariance, PTL DEF Spec
=============================================================================
