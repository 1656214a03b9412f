--------------------------- MODULE AtomicReplace ---------------------------
(***************************************************************************)
(* What a directory of received files promises: each name holds one        *)
(* version of a file or nothing, and a transfer either replaces the        *)
(* version under its name in one step or leaves the directory as it was.   *)
(***************************************************************************)
EXTENDS Integers

CONSTANTS Name,   \* the names of the files
          None    \* what a name holds when there is no file

VARIABLES files,  \* the version under each name
          taken   \* transfers ended so far; transfer n carries version n

vars == <<files, taken>>

Init == files \in [Name -> {0, None}] /\ taken = 0

\* The next transfer succeeds.
Replace(f) == /\ taken' = taken + 1
              /\ files' = [files EXCEPT ![f] = taken']

\* The next transfer fails.
Reject == taken' = taken + 1 /\ UNCHANGED files

Next == Reject \/ \E f \in Name : Replace(f)

Spec == Init /\ [][Next]_vars
=============================================================================
