------------------------------ MODULE Listing ------------------------------
(***************************************************************************)
(* The text of a directory listing: what cmd_list of server.cpp makes of   *)
(* the names, and what split of library.cpp makes of the text again.       *)
(* Names and texts are sequences of characters.                            *)
(***************************************************************************)
EXTENDS Naturals, SequencesExt

CONSTANTS Space,    \* the delimiter
          MaxU16    \* the largest uint16_t

ASSUME CounterAssumption == MaxU16 \in Nat

\* The names with a delimiter between any two.
Concatenated(names) ==
  Tail(FlattenSeq([i \in DOMAIN names |-> <<Space>> \o names[i]]))

\* A token for each delimiter, and one for what follows the last.
Tokens(s) ==
  FoldLeft(LAMBDA tokens, c : IF c = Space THEN Append(tokens, <<>>)
                              ELSE [tokens EXCEPT ![Len(tokens)] = Append(@, c)],
           << <<>> >>, s)

\* Slip: what follows the last delimiter is not pushed.
SplitAtDelimiters(s) == Front(Tokens(s))

Split(s) == Tokens(s)

\* What can be told from the text: a name without a space as it is, and one
\* with spaces as the pieces between them.
Shown(names) == FlattenSeq([i \in DOMAIN names |-> Tokens(names[i])])

\* An empty directory has no first name to begin the text with.
NoFirst(names) == names = <<>>

\* The loop that appends the names counts to their number, an int, with a
\* uint16_t that wraps before it gets there.
Endless(names) == Len(names) > MaxU16
=============================================================================
