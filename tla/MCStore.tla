------------------------------ MODULE MCStore ------------------------------
(* Store for TLC: two names and their scratch files, and the name of one   *)
(* scratch file as a third name for the runs in which names collide.       *)
EXTENDS Store

MCName     == {"a", "b"}
MCPath     == {"a", "b", "a.tmp", "b.tmp"}
MCTmp      == [f \in MCName |-> IF f = "a" THEN "a.tmp" ELSE "b.tmp"]
MCNames3   == {"a", "b", "a.tmp"}
MCPath3    == MCPath \cup {"a.tmp.tmp"}
MCTmp3     == [f \in MCNames3 |-> CASE f = "a" -> "a.tmp" [] f = "b" -> "b.tmp"
                                    [] f = "a.tmp" -> "a.tmp.tmp"]
=============================================================================
