----------------------------- MODULE MCTransfer -----------------------------
(* Transfer for TLC: blocks of 3 bytes, chunks of 2 blocks, sizes from 0   *)
(* past the largest announcement.                                          *)
EXTENDS Transfer

MCSizes == 0..20
=============================================================================
