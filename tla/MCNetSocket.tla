---------------------------- MODULE MCNetSocket ----------------------------
(* NetSocket for TLC: up to three frames, the data of one and of three      *)
(* bytes, integers of four bytes as in the code and digests of two.         *)
EXTENDS NetSocket

MCFrames == {[kind |-> "int", len |-> 0], [kind |-> "data", len |-> 1],
             [kind |-> "data", len |-> 3]}
MCPrograms == SeqOf(MCFrames, 3) \ {<<>>}
=============================================================================
