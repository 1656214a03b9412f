----------------------------- MODULE MCSession -----------------------------
(* Session for TLC: two commands, files of up to two chunks, names of up   *)
(* to three characters where two are too many for a get, and directories   *)
(* of none to three names, one of them with a space in a name, where the    *)
(* counter of the listing ends at two.                                     *)
EXTENDS Session

MCChar == {"a", "b", "c", "_"}

MCListings == {<<>>, <<<<"a", "_", "b">>>>, <<<<"a", "b">>, <<"c">>>>,
               <<<<"a">>, <<"b">>, <<"c">>>>}
=============================================================================
