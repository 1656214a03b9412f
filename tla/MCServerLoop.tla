---------------------------- MODULE MCServerLoop ----------------------------
(* ServerLoop for TLC: three clients, so that one is served, one refused    *)
(* and one waiting at once, and a descriptor more than is ever in use.      *)
EXTENDS ServerLoop

MCFds == 4..5
=============================================================================
