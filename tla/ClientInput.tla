---------------------------- MODULE ClientInput ----------------------------
(***************************************************************************)
(* The main loop of client.cpp: select over stdin and the socket, and cin. *)
(*                                                                         *)
(* select sees what the kernel holds, while cin has taken a whole line, or *)
(* from a pipe several, into a buffer of its own and gives out one word at *)
(* a time.  A word is a model value or string; Eol is the end of a line.   *)
(* What the commands send and receive is the subject of Session.           *)
(***************************************************************************)
EXTENDS Naturals, SequencesExt

CONSTANTS Lines,     \* the lines a user may type, as words
          MaxLines,  \* bound on the lines typed
          Eol

ASSUME LinesAssumption ==
  \A line \in Lines : line \in Seq(Range(line)) /\ Eol \notin Range(line)
ASSUME InputBound == MaxLines \in Nat

VARIABLES
  terminal,  \* stdin is a terminal: a read returns one line
  typed,     \* history: the lines typed
  kernel,    \* those that were not read yet
  eof,       \* the user has ended the input
  buffer,    \* words and line ends cin holds
  pc,        \* where the client is
  verb,      \* the command whose name is being read
  sawClosed, \* the socket is in read_fds
  closed,    \* the server has closed the connection
  executed   \* history: the commands carried out, with their names

vars == <<terminal, typed, kernel, eof, buffer, pc, verb, sawClosed, closed,
          executed>>

typing == <<terminal, typed, eof>>

Named   == {"!get", "!upload"}
Unnamed == {"!help", "!list"}

\* The end of a line is not a word, so it is no command.
ASSUME EolAssumption == Eol \notin Named \cup Unnamed \cup {"!quit"}

Init == /\ terminal \in BOOLEAN
        /\ typed = <<>> /\ kernel = <<>> /\ eof = FALSE /\ buffer = <<>>
        /\ pc = "select" /\ verb = "none"
        /\ sawClosed = FALSE /\ closed = FALSE /\ executed = <<>>

-----------------------------------------------------------------------------
(* The user and the server                                                 *)

Type == /\ Len(typed) < MaxLines /\ ~eof
        /\ \E line \in Lines : /\ typed' = Append(typed, line)
                               /\ kernel' = Append(kernel, line)
        /\ UNCHANGED <<terminal, eof, buffer, pc, verb, sawClosed, closed, executed>>

EndInput == /\ ~eof /\ eof' = TRUE
            /\ UNCHANGED <<terminal, typed, kernel, buffer, pc, verb, sawClosed,
                           closed, executed>>

ServerCloses == /\ ~closed /\ closed' = TRUE
                /\ UNCHANGED <<typing, kernel, buffer, pc, verb, sawClosed, executed>>

-----------------------------------------------------------------------------
(* The client                                                              *)

\* stdin comes first in the walk over the descriptors, the socket second.
Select ==
  /\ pc = "select" /\ (kernel # <<>> \/ eof \/ closed)
  /\ sawClosed' = closed
  /\ pc' = IF kernel # <<>> \/ eof THEN "word" ELSE "socket"
  /\ UNCHANGED <<typing, kernel, buffer, verb, closed, executed>>

\* Slip: the socket is looked at only when stdin was not readable.
SocketIfNoInput ==
  /\ pc = "socket"
  /\ pc' = IF sawClosed /\ ~eof THEN "exited" ELSE "select"
  /\ UNCHANGED <<typing, kernel, buffer, verb, sawClosed, closed, executed>>

\* The socket is readable: "Protocolar Error!" and exit.
Socket ==
  /\ pc = "socket"
  /\ pc' = IF sawClosed THEN "exited" ELSE "select"
  /\ UNCHANGED <<typing, kernel, buffer, verb, sawClosed, closed, executed>>

\* The words of lines, with the ends of the lines.
Words(lines) == FlattenSeq([i \in DOMAIN lines |-> Append(lines[i], Eol)])

\* cin >> skips line ends; Rest is what follows the first word.
WordAt  == {i \in DOMAIN buffer : buffer[i] # Eol}
HasWord == WordAt # {}
Word    == buffer[Min(WordAt)]
Rest    == SubSeq(buffer, Min(WordAt) + 1, Len(buffer))

\* Slips: the buffer is cleared; nothing is.
ClearAll(words)     == <<>>
ClearNothing(words) == words

\* pulisci_buff: ignore up to and with the end of the line.
Cleared(words) ==
  LET ends == {i \in DOMAIN words : words[i] = Eol}
  IN  IF ends = {} THEN <<>> ELSE SubSeq(words, Min(ends) + 1, Len(words))

Reading == pc \in {"word", "name"}

\* cin has no word left and reads: a line of a terminal, any number of lines
\* of a pipe.
Fill ==
  /\ Reading /\ ~HasWord /\ kernel # <<>>
  /\ \E n \in 1..(IF terminal THEN 1 ELSE Len(kernel)) :
       /\ buffer' = Words(SubSeq(kernel, 1, n))
       /\ kernel' = SubSeq(kernel, n + 1, Len(kernel))
  /\ UNCHANGED <<typing, pc, verb, sawClosed, closed, executed>>

\* select_command.  !get sends its command before it reads the name, !upload
\* after: when the server is gone that send may fail, and the client exits
\* before there is a name.  !list waits for an answer, and exits without one.
Command ==
  /\ pc = "word" /\ HasWord
  /\ \/ /\ Word \in Named
        /\ verb' = Word /\ buffer' = Rest
        /\ \/ pc' = "name"
           \/ Word = "!get" /\ closed /\ pc' = "exited"
        /\ UNCHANGED executed
     \/ /\ Word \in Unnamed
        /\ executed' = Append(executed, <<Word>>) /\ buffer' = Rest
        /\ pc' = IF Word = "!list" /\ closed THEN "exited" ELSE "socket"
        /\ UNCHANGED verb
     \/ /\ Word = "!quit"
        /\ executed' = Append(executed, <<Word>>) /\ pc' = "exited"
        /\ UNCHANGED <<verb, buffer>>
     \/ /\ Word \notin Named \cup Unnamed \cup {"!quit"}
        /\ executed' = Append(executed, <<"invalid">>)
        /\ buffer' = Cleared(Rest) /\ pc' = "socket"
        /\ UNCHANGED verb
  /\ UNCHANGED <<typing, kernel, sawClosed, closed>>

\* The name of a get or an upload, which may come on a later line.  The command
\* returns true, or false and the client exits: the server may be gone, the name
\* have a '/', the disk fail.  An upload whose sends succeed all the same
\* returns true to a server that is gone.
Name ==
  /\ pc = "name" /\ HasWord
  /\ executed' = Append(executed, <<verb, Word>>)
  /\ buffer' = Cleared(Rest)
  /\ pc' \in {"socket", "exited"}
  /\ UNCHANGED <<typing, kernel, verb, sawClosed, closed>>

\* At the end of the input cin fails from now on.  An empty word is an invalid
\* command, and select reports the end again; an upload finds no file, and a
\* get of the empty name returns false.
AtEnd ==
  /\ Reading /\ ~HasWord /\ kernel = <<>> /\ eof
  /\ pc' = IF pc = "name" /\ verb = "!get" THEN "exited" ELSE "socket"
  /\ UNCHANGED <<typing, kernel, buffer, verb, sawClosed, closed, executed>>

-----------------------------------------------------------------------------
Client == Select \/ Socket \/ Fill \/ Command \/ Name \/ AtEnd

\* cin waits for the user, and nobody watches the socket.
Blocked == Reading /\ ~HasWord /\ kernel = <<>> /\ ~eof

Finished == /\ pc = "exited" \/ Blocked \/ (pc = "select" /\ kernel = <<>> /\ ~closed)
            /\ UNCHANGED vars

Next == Client \/ Type \/ EndInput \/ ServerCloses \/ Finished

\* The client's process runs; nothing is assumed of the user and the server.
Spec == Init /\ [][Next]_vars /\ WF_vars(Client)

-----------------------------------------------------------------------------
(* Properties                                                              *)

\* What a word means to a user: a command that needs a name takes the next
\* word, and what follows a name or an invalid command on its line is ignored.
Means(m, w) ==
  CASE m.wants = "end"  /\ w = Eol -> [m EXCEPT !.wants = "command"]
    [] m.wants = "name" /\ w # Eol ->
         [m EXCEPT !.does = Append(@, <<m.verb, w>>), !.wants = "end"]
    [] m.wants = "command" /\ w \in Named -> [m EXCEPT !.verb = w, !.wants = "name"]
    [] m.wants = "command" /\ w \in Unnamed -> [m EXCEPT !.does = Append(@, <<w>>)]
    [] m.wants = "command" /\ w = "!quit" ->
         [m EXCEPT !.does = Append(@, <<w>>), !.wants = "nothing"]
    [] m.wants = "command" /\ w \notin Named \cup Unnamed \cup {"!quit", Eol} ->
         [m EXCEPT !.does = Append(@, <<"invalid">>), !.wants = "end"]
    [] OTHER -> m

\* What the lines typed mean, word by word.
Untold         == [does |-> <<>>, wants |-> "command", verb |-> "none"]
Told(words)    == FoldLeft(Means, Untold, words)
Meaning(lines) == Told(Words(lines)).does

\* Commands are carried out as they were typed and in that order, none twice
\* and none left out, however the lines reach cin.
InOrder == IsPrefix(executed, Meaning(typed))

\* On a terminal, when no line has a word behind a !help or a !list, nothing
\* that was typed is still undone while select waits for the next key.  (A word
\* behind them stays in cin, where select does not see it.)
NothingPending ==
  /\ terminal /\ pc = "select" /\ kernel = <<>>
  /\ \A i \in DOMAIN typed : Len(typed[i]) > 1 => typed[i][1] \notin Unnamed
  => executed = Meaning(typed)

\* When the server has closed the connection the client exits, unless it waits
\* in cin for a word the user never types.
ServerLossNoticed == (closed ~> pc = "exited") \/ <>[]Blocked
=============================================================================
