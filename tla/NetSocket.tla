----------------------------- MODULE NetSocket -----------------------------
(***************************************************************************)
(* The receiving side of a frame, byte by byte: recvInt, utilityRecv,      *)
(* recvIntHMAC and recvDataHMAC of library.cpp over a TCP stream that      *)
(* delivers what was sent in pieces of any length, and may end or be reset *)
(* at any byte.                                                            *)
(*                                                                         *)
(* The bytes of the stream are positions: frame after frame, each an       *)
(* integer, its MAC, and for data the data and their MAC.  What a byte     *)
(* says is whether it is read at the position it was sent for: an integer  *)
(* or a MAC read at any other place is not the one that was sent.          *)
(***************************************************************************)
EXTENDS Naturals, SequencesExt

CONSTANTS IntLen,     \* sizeof(uint32_t)
          Hash,       \* HASH_SIZE
          Programs    \* what may be sent: sequences of frames, see FrameSet

FrameSet == [kind : {"int", "data"}, len : Nat]

ASSUME LengthAssumption  == IntLen \in Nat \ {0} /\ Hash \in Nat \ {0}
ASSUME ProgramAssumption ==
  \A p \in Programs : p \in Seq({f \in FrameSet : f.kind = "data" => f.len > 0})

VARIABLES
  program,   \* the frames sent, and the calls the receiver makes for them
  arrived,   \* bytes that have reached the receiver's host
  read,      \* bytes taken from the socket
  call,      \* the number of the frame being received
  part,      \* the part of it being read
  need,      \* bytes of the part that are missing (len - ricevuti)
  ended,     \* the stream: "no", "eof" (closed by the sender) or "reset"
  outcome,   \* "running", "done", "failed" (false or NULL) or "crashed"
  short      \* history: recvInt has taken less than an integer

vars == <<program, arrived, read, call, part, need, ended, outcome, short>>

Size(f) == IntLen + Hash + (IF f.kind = "data" THEN f.len + Hash ELSE 0)

\* The position at which frame i begins, and the end of the stream.
Start(i)  == FoldLeft(LAMBDA n, f : n + Size(f), 0, SubSeq(program, 1, i - 1))
StreamEnd == Start(Len(program) + 1)

Parts == {"int", "intmac", "data", "mac"}

\* The position at which a part of the frame being received begins, and its
\* length.
PartStart(p) ==
  LET f == program[call]
  IN  Start(call) + CASE p = "int"    -> 0
                      [] p = "intmac" -> IntLen
                      [] p = "data"   -> IntLen + Hash
                      [] p = "mac"    -> IntLen + Hash + f.len
PartLen(p) == CASE p = "int"  -> IntLen
                [] p = "data" -> program[call].len
                [] OTHER      -> Hash

Init == /\ program \in Programs
        /\ arrived = 0 /\ read = 0 /\ call = 1 /\ part = "int" /\ need = IntLen
        /\ ended = "no" /\ short = FALSE
        /\ outcome = IF program = <<>> THEN "done" ELSE "running"

-----------------------------------------------------------------------------
(* The stream                                                              *)

Arrive == /\ ended = "no"
          /\ \E n \in (arrived + 1)..StreamEnd : arrived' = n
          /\ UNCHANGED <<program, read, call, part, need, ended, outcome, short>>

\* The sender closes the connection or dies, or the connection is reset.
End == /\ ended = "no" /\ ended' \in {"eof", "reset"}
       /\ UNCHANGED <<program, arrived, read, call, part, need, outcome, short>>

-----------------------------------------------------------------------------
(* The receiver.  recvfrom returns what there is, up to what is asked for;  *)
(* it waits while there is nothing and the stream goes on.                  *)

Available == arrived - read
Empty     == Available = 0

Taken == IF Available < need THEN Available ELSE need

Stop(how) == outcome' = how /\ UNCHANGED <<call, part, need>>

Begin(p) == part' = p /\ need' = PartLen(p) /\ UNCHANGED <<call, outcome>>

\* The frame is returned to the caller, who goes on to receive the next.
Return == IF call = Len(program) THEN Stop("done")
          ELSE /\ call' = call + 1 /\ part' = "int" /\ need' = IntLen
               /\ UNCHANGED outcome

\* A MAC verifies if it and what it covers were read where they were sent.
Verified == read' = PartStart(part) + Hash

\* What follows a part that is complete.
Complete ==
  \/ part = "int" /\ Begin("intmac")
  \/ part = "intmac" /\ IF ~Verified THEN Stop("failed")
                        ELSE IF program[call].kind = "int" THEN Return
                        ELSE Begin("data")
  \/ part = "data" /\ Begin("mac")
  \/ part = "mac" /\ IF Verified THEN Return ELSE Stop("failed")

\* recvInt reads once: a part of the integer is an error.
RecvInt ==
  /\ outcome = "running" /\ part = "int" /\ ~Empty
  /\ read' = read + Taken
  /\ short' = (Taken < IntLen)
  /\ IF short' THEN Stop("failed") ELSE Complete
  /\ UNCHANGED <<program, arrived, ended>>

\* Slips: the first piece is taken for the whole; the loop goes on while
\* ricevuti <= len; the error of the last recv is not looked at; 0 bytes are
\* no error.
RecvPieceOnly ==
  /\ outcome = "running" /\ part # "int" /\ ~Empty
  /\ read' = read + Taken /\ Complete
  /\ UNCHANGED <<program, arrived, ended, short>>
RecvOneMore ==
  /\ outcome = "running" /\ part # "int" /\ ~Empty
  /\ read' = read + Taken
  /\ IF Taken <= need THEN need' = need - Taken /\ UNCHANGED <<call, part, outcome>>
                      ELSE Complete
  /\ UNCHANGED <<program, arrived, ended, short>>
RecvUnchecked ==
  /\ outcome = "running" /\ part # "int" /\ Empty /\ ended = "reset"
  /\ CASE part = "mac"    -> Return
       [] part = "intmac" -> Stop("failed")
       [] part = "data"   -> Stop("crashed")
  /\ UNCHANGED <<program, arrived, read, ended, short>>
RecvIntResetOnly ==
  /\ outcome = "running" /\ part = "int" /\ Empty /\ ended = "reset"
  /\ Stop("failed")
  /\ UNCHANGED <<program, arrived, read, ended, short>>

\* utilityRecv repeats recvfrom until it has all.
RecvPiece ==
  /\ outcome = "running" /\ part # "int" /\ ~Empty
  /\ read' = read + Taken
  /\ IF Taken < need THEN need' = need - Taken /\ UNCHANGED <<call, part, outcome>>
                     ELSE Complete
  /\ UNCHANGED <<program, arrived, ended, short>>

\* At the end of the stream recvInt is given 0 bytes, or an error.
RecvIntEnds ==
  /\ outcome = "running" /\ part = "int" /\ Empty /\ ended # "no"
  /\ Stop("failed")
  /\ UNCHANGED <<program, arrived, read, ended, short>>

\* utilityRecv returns on an error.  Data that are NULL go to HMACUpdate.
RecvError ==
  /\ outcome = "running" /\ part # "int" /\ Empty /\ ended = "reset"
  /\ Stop(IF part = "data" THEN "crashed" ELSE "failed")
  /\ UNCHANGED <<program, arrived, read, ended, short>>

\* Behind the end of a closed stream recvfrom returns 0, ricevuti stays as it
\* is, and utilityRecv goes round.
Spinning == /\ outcome = "running" /\ part # "int" /\ Empty /\ ended = "eof"

RecvZero == Spinning /\ UNCHANGED vars

-----------------------------------------------------------------------------
Receive == RecvInt \/ RecvPiece \/ RecvIntEnds \/ RecvError

Finished == outcome # "running" /\ UNCHANGED vars

Next == Arrive \/ End \/ Receive \/ RecvZero \/ Finished

\* The receiver runs.  The frames were sent, and TCP delivers them while the
\* connection is there.
Spec == Init /\ [][Next]_vars /\ WF_vars(Receive) /\ WF_vars(Arrive)

-----------------------------------------------------------------------------
(* Properties                                                              *)

\* The type invariant of the receiver: what is missing of a part is never more
\* than the part, and no byte is read before it has arrived.
TypeOK ==
  /\ program \in Programs /\ arrived \in 0..StreamEnd /\ read \in 0..arrived
  /\ call \in 1..(Len(program) + 1) /\ part \in Parts
  /\ outcome = "running" => need \in 1..PartLen(part)
  /\ ended \in {"no", "eof", "reset"}
  /\ outcome \in {"running", "done", "failed", "crashed"} /\ short \in BOOLEAN

\* However the stream is cut into pieces, receiving a frame fails only when the
\* stream has ended, or when recvInt met an integer of which a part had
\* arrived; it crashes only on a reset inside the data of a frame.  So a frame
\* read in pieces is read at the right place and its MACs verify.
FailureExplained ==
  /\ outcome = "failed" => ended # "no" \/ short
  /\ outcome = "crashed" => ended = "reset" /\ part = "data"

Channel == INSTANCE FrameChannel WITH
  sent      <- Cardinality({i \in 1..Len(program) : Start(i + 1) <= arrived}),
  delivered <- IF outcome = "done" THEN Len(program) ELSE call - 1,
  up        <- outcome \notin {"failed", "crashed"}

\* To the code above them the frames are a FIFO of whole frames: what Session
\* and Transfer take a frame for.
ImplementsFrameChannel == Channel!Spec

\* A receive ends unless the stream was closed inside a frame, behind the
\* integer: the calls are all answered, or one of them fails.
CallsReturn == <>(outcome # "running") \/ <>[]Spinning
=============================================================================
