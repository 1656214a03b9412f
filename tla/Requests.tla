------------------------------ MODULE Requests ------------------------------
(***************************************************************************)
(* What the commands of a session promise.  A client asks for one command  *)
(* after the other; the server performs them in that order, each at most   *)
(* once.  The result of a list or a get is the one the server produced, as *)
(* far as the client can see it; an upload is performed with what the      *)
(* client has sent.  Either side may stop short of the other.              *)
(***************************************************************************)
EXTENDS Naturals, Sequences

CONSTANTS Results,  \* what a command may come to: a listing, a file, nothing
          Seen      \* for each result of the server, what the client sees of it

VARIABLES asked,     \* the commands the client has sent
          done,      \* the commands the server has performed, with results
          answered   \* the commands the client has completed, with results

Ops == {"list", "get", "upload"}

Init == asked = <<>> /\ done = <<>> /\ answered = <<>>

\* The next command of a log: its turn has come, and it was asked for.
Follows(log, op) == Len(log) < Len(asked) /\ asked[Len(log) + 1] = op

\* The n-th entry of the other log is there already and says the same.
Agrees(other, n, r) == Len(other) >= n /\ other[n] = r

Ask == /\ Len(answered) = Len(asked)
       /\ \E op \in Ops : asked' = Append(asked, op)
       /\ UNCHANGED <<done, answered>>

Perform == \E op \in Ops, x \in Results :
  LET r == [op |-> op, result |-> x]
  IN  /\ Follows(done, op)
      /\ op = "upload" => Agrees(answered, Len(done) + 1, r)
      /\ done' = Append(done, r)
      /\ UNCHANGED <<asked, answered>>

Complete == \E op \in Ops, x \in Results :
  /\ Follows(answered, op)
  /\ op # "upload" => Agrees(done, Len(answered) + 1, [op |-> op, result |-> x])
  /\ answered' = Append(answered, [op |-> op, result |-> Seen[x]])
  /\ UNCHANGED <<asked, done>>

Spec == Init /\ [][Ask \/ Perform \/ Complete]_<<asked, done, answered>>
=============================================================================
