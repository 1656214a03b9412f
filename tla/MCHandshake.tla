---------------------------- MODULE MCHandshake ----------------------------
(* Handshake for TLC: three sessions and 2-bit nonces, so that a nonce left *)
(* by one session meets every nonce drawn in the next and counters wrap.    *)
EXTENDS Handshake
=============================================================================
