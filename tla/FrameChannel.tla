---------------------------- MODULE FrameChannel ----------------------------
(***************************************************************************)
(* What the HMAC frames promise to the protocol above them: a FIFO of      *)
(* whole frames.  A frame is delivered once, in order and only after it    *)
(* has been sent; once the channel has failed nothing is delivered.        *)
(***************************************************************************)
EXTENDS Naturals

VARIABLES sent,       \* frames sent whole
          delivered,  \* frames the receiver has been given
          up          \* no call of the receiver has failed

vars == <<sent, delivered, up>>

Init == sent = 0 /\ delivered = 0 /\ up = TRUE

Send    == sent' > sent /\ UNCHANGED <<delivered, up>>
Deliver == /\ up /\ delivered < sent
           /\ delivered' = delivered + 1 /\ UNCHANGED <<sent, up>>
Fail    == up' = FALSE /\ UNCHANGED <<sent, delivered>>

Next == Send \/ Deliver \/ Fail

Spec == Init /\ [][Next]_vars
=============================================================================
