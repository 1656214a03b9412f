--------------------------- MODULE MCClientInput ---------------------------
(* ClientInput for TLC: up to three lines, among them an empty one, a name  *)
(* on a line of its own, words behind a command and words behind a name.    *)
EXTENDS ClientInput

MCLines == {<<>>, <<"!list">>, <<"!help", "!quit">>, <<"!quit">>,
            <<"!get">>, <<"!get", "x">>, <<"!upload", "x", "!list">>,
            <<"x", "!help">>}
=============================================================================
