---------------------------- MODULE StoreProofs ----------------------------
(***************************************************************************)
(* Proofs about Store, for any names, number of pieces, transfers, deaths  *)
(* and lost writes.                                                        *)
(*                                                                         *)
(* A transfer touches the file it writes and, between remove and rename,   *)
(* the name it replaces; all else is as it was when it began.  What it has *)
(* written is a prefix of its version if nothing was in its way.           *)
(***************************************************************************)
EXTENDS Store, SequenceTheorems, TLAPS

\* The first n pieces of the file of transfer v; before the first there is no
\* file.
Prefix(v, n) == IF n = 0 THEN Absent ELSE [k \in 1..n |-> <<v, k>>]

\* Where the counter of pieces stands.
CountInv == /\ pc = "write" => written < Parts
            /\ pc \in {"sign", "rename", "done"} => written = Parts
            /\ pc = "rename" => replaces

\* What has changed in the directory since the transfer began.
OthersInv ==
  /\ pc \in {"write", "sign"} => \A f \in Path \ {target} : disk[f] = before[f]
  /\ pc = "rename" => /\ \A f \in Path \ {target, name} : disk[f] = before[f]
                      /\ disk[name] = Absent

\* What the file being written holds.
WrittenInv ==
  /\ pc \in {"write", "sign"} /\ Undisturbed => disk[target] = Prefix(version, written)
  /\ pc = "rename" /\ Undisturbed => disk[target] = WholeFile(version)

IInv == TypeOK /\ CountInv /\ OthersInv /\ WrittenInv
          /\ OldOrNewSurvives /\ ErrorRestores /\ SuccessReplaces

-----------------------------------------------------------------------------
\* The whole file is its last prefix, and neither is a missing file.
LEMMA WholeIsPrefix ==
  ASSUME NEW v \in Nat
  PROVE  /\ WholeFile(v) \in Seq(Nat \X Nat) /\ WholeFile(v) # Absent
         /\ Prefix(v, Parts) = WholeFile(v)
<1>1. WholeFile(v) \in Seq(Nat \X Nat)
  BY PartsAssumption DEF WholeFile
<1>2. Prefix(v, Parts) = WholeFile(v)
  BY PartsAssumption DEF Prefix, WholeFile
<1> QED BY <1>1, <1>2, AbsentAssumption

\* Appending piece n + 1 to the first n pieces gives the first n + 1.
LEMMA NextPrefix ==
  ASSUME NEW v \in Nat, NEW n \in Nat
  PROVE  Appended(Prefix(v, n), <<v, n + 1>>) = Prefix(v, n + 1)
<1>1. CASE n = 0
  <2>1. Prefix(v, n) = Absent /\ Prefix(v, n + 1) = [k \in 1..1 |-> <<v, k>>]
    BY <1>1 DEF Prefix
  <2>2. [k \in 1..1 |-> <<v, k>>] = <<<<v, 1>>>>
    OBVIOUS
  <2> QED BY <1>1, <2>1, <2>2 DEF Appended
<1>2. CASE n # 0
  <2> DEFINE p == [k \in 1..n |-> <<v, k>>]
             q == [k \in 1..(n + 1) |-> <<v, k>>]
  <2>1. p \in Seq(Nat \X Nat) /\ Len(p) = n /\ p # Absent
    <3>1. p \in Seq(Nat \X Nat) /\ Len(p) = n
      OBVIOUS
    <3> QED BY <3>1, AbsentAssumption
  <2>2. Append(p, <<v, n + 1>>) = q
    <3>1. q \in Seq(Nat \X Nat) /\ Len(q) = n + 1
      OBVIOUS
    <3>2. /\ Append(p, <<v, n + 1>>) \in Seq(Nat \X Nat)
          /\ Len(Append(p, <<v, n + 1>>)) = n + 1
          /\ \A k \in 1..n : Append(p, <<v, n + 1>>)[k] = <<v, k>>
          /\ Append(p, <<v, n + 1>>)[n + 1] = <<v, n + 1>>
      BY <2>1
    <3>3. \A k \in 1..(n + 1) : Append(p, <<v, n + 1>>)[k] = q[k]
      BY <3>2
    <3> QED BY <3>1, <3>2, <3>3, SeqEqual
  <2>3. Prefix(v, n) = p /\ Prefix(v, n + 1) = q
    BY <1>2 DEF Prefix
  <2> HIDE DEF p, q
  <2> QED BY <2>1, <2>2, <2>3 DEF Appended
<1> QED BY <1>1, <1>2

\* A content with a piece appended is a content.
LEMMA AppendedType ==
  ASSUME NEW c \in Content, NEW piece \in Nat \X Nat
  PROVE  Appended(c, piece) \in Content
BY AbsentAssumption DEF Content, Appended

\* The scratch file of a name lies beside it.
LEMMA Places ==
  ASSUME TypeOK
  PROVE  /\ name \in Path /\ target \in Path
         /\ replaces => target # name
         /\ ~replaces => target = name
BY NameAssumption, TmpAssumption DEF TypeOK

-----------------------------------------------------------------------------
\* Nothing is under way at first.
LEMMA Initially == Init => IInv
<1> SUFFICES ASSUME Init PROVE IInv
  OBVIOUS
<1>1. disk \in [Path -> Content]
  BY WholeIsPrefix DEF Init, Content
<1>2. locked \in SUBSET Path
  BY NameAssumption DEF Init
<1>3. TypeOK
  <2>1. /\ replaces = FALSE /\ lost = FALSE /\ target = name /\ name \in Name
        /\ before = disk /\ pc = "idle"
        /\ version = 0 /\ written = 0 /\ deaths = 0 /\ fulls = 0
    BY DEF Init
  <2>2. 0 \in 0..Parts
    BY PartsAssumption
  <2> QED BY <1>1, <1>2, <2>1, <2>2 DEF TypeOK
<1> QED BY <1>3 DEF Init, IInv, CountInv, OthersInv, WrittenInv, OldOrNewSurvives,
                    ErrorRestores, SuccessReplaces

\* The constructor notes the directory as it is.
LEMMA BeginStep ==
  ASSUME IInv, NEW f \in Name, Begin(f)
  PROVE  IInv'
<1> USE DEF IInv
<1>1. TypeOK'
  <2>1. replaces' \in BOOLEAN /\ version' \in Nat /\ written' \in 0..Parts
    BY PartsAssumption DEF TypeOK, Begin, FileExists
  <2>2. target' = IF replaces' THEN Tmp[name'] ELSE name'
    BY DEF Begin, Scratch
  <2> QED BY <2>1, <2>2 DEF TypeOK, Begin
<1>2. CountInv' /\ OthersInv' /\ ErrorRestores' /\ SuccessReplaces'
  BY PartsAssumption DEF Begin, CountInv, OthersInv, ErrorRestores, SuccessReplaces
<1>3. WrittenInv' /\ OldOrNewSurvives'
  BY DEF Begin, WrittenInv, OldOrNewSurvives, Undisturbed, Prefix
<1> QED BY <1>1, <1>2, <1>3

\* A piece goes to the file being written, behind those before it.
LEMMA WriteStep == IInv /\ Write => IInv'
<1> SUFFICES ASSUME IInv, Write PROVE IInv'
  OBVIOUS
<1> USE DEF IInv
<1>1. /\ pc = "write" /\ written \in Nat /\ version \in Nat
      /\ written < Parts /\ written' = written + 1 /\ UNCHANGED <<locked, xfer, lost, deaths, fulls>>
      /\ disk' = [disk EXCEPT ![target] = Appended(disk[target], <<version, written + 1>>)]
  BY PartsAssumption DEF Write, TypeOK, CountInv
<1>2. written + 1 \in 0..Parts /\ (pc' = "write" => written + 1 < Parts)
      /\ (pc' # "write" => pc' = "sign" /\ written + 1 = Parts)
  BY <1>1, PartsAssumption DEF Write
<1>3. pc' \in {"write", "sign"}
  BY DEF Write
<1>4. TypeOK'
  <2>1. disk' \in [Path -> Content]
    BY <1>1, Places, AppendedType DEF TypeOK
  <2> QED BY <1>1, <1>2, <1>3, <2>1 DEF TypeOK, xfer
<1>5. CountInv'
  BY <1>1, <1>2, <1>3 DEF CountInv
<1>6. \A f \in Path \ {target} : disk'[f] = disk[f]
  BY <1>1 DEF TypeOK
<1>7. OthersInv'
  BY <1>1, <1>3, <1>6 DEF OthersInv, xfer
<1>8. WrittenInv'
  <2>1. disk'[target] = Appended(disk[target], <<version, written + 1>>)
    BY <1>1, Places DEF TypeOK
  <2>2. Undisturbed => disk'[target] = Prefix(version, written + 1)
    BY <1>1, <2>1, NextPrefix DEF WrittenInv
  <2> QED BY <1>1, <1>3, <2>2 DEF WrittenInv, Undisturbed, xfer
<1>9. OldOrNewSurvives'
  BY <1>1, <1>6, Places DEF OldOrNewSurvives, Undisturbed, OthersInv, xfer
<1>10. ErrorRestores' /\ SuccessReplaces'
  BY <1>3 DEF ErrorRestores, SuccessReplaces
<1> QED BY <1>4, <1>5, <1>7, <1>8, <1>9, <1>10

\* A piece that is lost still goes to no other file.
LEMMA WriteLostStep == IInv /\ WriteLost => IInv'
<1> SUFFICES ASSUME IInv, WriteLost PROVE IInv'
  OBVIOUS
<1> USE DEF IInv
<1>1. /\ pc = "write" /\ pc' = "sign" /\ written' = Parts /\ lost' = TRUE
      /\ UNCHANGED <<locked, xfer, deaths>>
      /\ disk' = [disk EXCEPT ![target] = IF @ = Absent THEN <<>> ELSE @]
      /\ fulls' = fulls + 1
  BY PartsAssumption DEF WriteLost, TypeOK
<1>2. TypeOK'
  <2>1. disk' \in [Path -> Content]
    BY <1>1, Places DEF TypeOK, Content
  <2> QED BY <1>1, <2>1, PartsAssumption DEF TypeOK, xfer
<1>3. \A f \in Path \ {target} : disk'[f] = disk[f]
  BY <1>1 DEF TypeOK
<1>4. CountInv' /\ OthersInv'
  BY <1>1, <1>3 DEF CountInv, OthersInv, xfer
<1>5. WrittenInv' /\ OldOrNewSurvives' /\ ErrorRestores' /\ SuccessReplaces'
  BY <1>1 DEF WrittenInv, OldOrNewSurvives, ErrorRestores, SuccessReplaces, Undisturbed
<1> QED BY <1>2, <1>4, <1>5

\* Removing the file being written puts the directory back, if it was new.
LEMMA ErrorStep == IInv /\ FinalizeError => IInv'
<1> SUFFICES ASSUME IInv, FinalizeError PROVE IInv'
  OBVIOUS
<1> USE DEF IInv
<1>1. /\ pc \in {"write", "sign"} /\ pc' = "failed"
      /\ disk' = [disk EXCEPT ![target] = Absent] /\ locked' = locked \ {target}
      /\ UNCHANGED <<xfer, written, lost, deaths, fulls>>
  BY DEF FinalizeError, Remove
<1>2. /\ disk' \in [Path -> Content] /\ disk'[target] = Absent
      /\ \A f \in Path \ {target} : disk'[f] = before[f]
  BY <1>1, Places DEF TypeOK, OthersInv, Content
<1>3. TypeOK'
  BY <1>1, <1>2 DEF TypeOK, xfer
<1>4. CountInv' /\ OthersInv' /\ WrittenInv' /\ SuccessReplaces'
  BY <1>1 DEF CountInv, OthersInv, WrittenInv, SuccessReplaces
<1>5. OldOrNewSurvives'
  BY <1>1, <1>2, Places DEF OldOrNewSurvives, Undisturbed, xfer
<1>6. ErrorRestores'
  <2>1. before[target] = Absent => \A f \in Path : disk'[f] = before[f]
    BY <1>2
  <2>2. before[target] = Absent => disk' = before
    BY <1>2, <2>1 DEF TypeOK
  <2> QED BY <1>1, <2>2 DEF ErrorRestores, xfer
<1> QED BY <1>3, <1>4, <1>5, <1>6

\* A new file stays where it was written.
LEMMA NewStep == IInv /\ FinalizeNew => IInv'
<1> SUFFICES ASSUME IInv, FinalizeNew PROVE IInv'
  OBVIOUS
<1> USE DEF IInv
<1>1. /\ pc = "sign" /\ ~replaces /\ pc' = "done"
      /\ UNCHANGED <<disk, locked, xfer, written, lost, deaths, fulls>>
  BY DEF FinalizeNew
<1>2. TypeOK' /\ CountInv' /\ OthersInv' /\ WrittenInv' /\ OldOrNewSurvives'
        /\ ErrorRestores'
  BY <1>1 DEF TypeOK, CountInv, OthersInv, WrittenInv, OldOrNewSurvives,
              ErrorRestores, xfer
<1>3. SuccessReplaces'
  <2>1. /\ target = name /\ name \in Path
        /\ \A f \in Path \ {name} : disk[f] = before[f]
    BY <1>1, Places DEF OthersInv
  <2>2. Undisturbed => disk[name] = WholeFile(version)
    BY <1>1, <2>1, WholeIsPrefix DEF WrittenInv, CountInv, TypeOK
  <2>3. Undisturbed => disk = [before EXCEPT ![name] = WholeFile(version)]
    BY <2>1, <2>2 DEF TypeOK
  <2> QED BY <1>1, <2>3 DEF SuccessReplaces, Undisturbed, xfer
<1> QED BY <1>2, <1>3

\* The old file goes when its successor is whole in the scratch file.
LEMMA RemoveStep == IInv /\ FinalizeRemove => IInv'
<1> SUFFICES ASSUME IInv, FinalizeRemove PROVE IInv'
  OBVIOUS
<1> USE DEF IInv
<1>1. /\ pc = "sign" /\ replaces /\ pc' = "rename"
      /\ disk' = [disk EXCEPT ![name] = Absent] /\ locked' = locked \ {name}
      /\ UNCHANGED <<xfer, written, lost, deaths, fulls>>
  BY DEF FinalizeRemove, Remove
<1>2. /\ disk' \in [Path -> Content] /\ disk'[name] = Absent
      /\ \A f \in Path \ {name} : disk'[f] = disk[f]
      /\ target \in Path \ {name}
  BY <1>1, Places DEF TypeOK, Content
<1>3. TypeOK'
  BY <1>1, <1>2 DEF TypeOK, xfer
<1>4. CountInv' /\ OthersInv'
  BY <1>1, <1>2 DEF CountInv, OthersInv, xfer
<1>5. Undisturbed => disk'[target] = WholeFile(version)
  BY <1>1, <1>2, WholeIsPrefix DEF WrittenInv, CountInv, TypeOK
<1>6. WrittenInv' /\ OldOrNewSurvives'
  BY <1>1, <1>5 DEF WrittenInv, OldOrNewSurvives, Undisturbed, xfer
<1>7. ErrorRestores' /\ SuccessReplaces'
  BY <1>1 DEF ErrorRestores, SuccessReplaces
<1> QED BY <1>3, <1>4, <1>6, <1>7

\* The rename puts the new version where the old one was.
LEMMA RenameStep == IInv /\ FinalizeRename => IInv'
<1> SUFFICES ASSUME IInv, FinalizeRename PROVE IInv'
  OBVIOUS
<1> USE DEF IInv
<1>1. /\ pc = "rename" /\ replaces /\ pc' = "done"
      /\ disk' = [disk EXCEPT ![name] = disk[target], ![target] = Absent]
      /\ UNCHANGED <<locked, xfer, written, lost, deaths, fulls>>
  BY DEF FinalizeRename, CountInv
<1>2. /\ disk' \in [Path -> Content]
      /\ disk'[name] = disk[target] /\ disk'[target] = Absent
      /\ \A f \in Path \ {name, target} : disk'[f] = before[f]
      /\ name \in Path /\ target \in Path \ {name}
  BY <1>1, Places DEF TypeOK, Content, OthersInv
<1>3. TypeOK'
  BY <1>1, <1>2 DEF TypeOK, xfer
<1>4. CountInv' /\ OthersInv' /\ WrittenInv' /\ ErrorRestores'
  BY <1>1 DEF CountInv, OthersInv, WrittenInv, ErrorRestores
<1>5. Undisturbed => disk'[name] = WholeFile(version)
  BY <1>1, <1>2 DEF WrittenInv
<1>6. OldOrNewSurvives'
  BY <1>1, <1>5 DEF OldOrNewSurvives, Undisturbed, xfer
<1>7. SuccessReplaces'
  <2> DEFINE d == [before EXCEPT ![name] = WholeFile(version)]
  <2>1. Undisturbed => \A f \in Path : disk'[f] = d[f]
    BY <1>2, <1>5 DEF TypeOK, Undisturbed
  <2>2. Undisturbed => disk' = d
    BY <1>2, <2>1 DEF TypeOK
  <2> QED BY <1>1, <2>2 DEF SuccessReplaces, Undisturbed, xfer
<1> QED BY <1>3, <1>4, <1>6, <1>7

\* A death leaves the directory as it is.
LEMMA DieStep == IInv /\ Die => IInv'
<1> SUFFICES ASSUME IInv, Die PROVE IInv'
  OBVIOUS
<1>1. /\ pc' = "dead" /\ deaths' = deaths + 1
      /\ UNCHANGED <<disk, locked, xfer, written, lost, fulls>>
  BY DEF Die
<1> QED BY <1>1 DEF IInv, TypeOK, CountInv, OthersInv, WrittenInv, OldOrNewSurvives,
                    ErrorRestores, SuccessReplaces, Undisturbed, xfer

\* The step of the invariance proof.
LEMMA Inductive == IInv /\ [Next]_vars => IInv'
<1>1. IInv /\ UNCHANGED vars => IInv'
  BY DEF IInv, TypeOK, CountInv, OthersInv, WrittenInv, OldOrNewSurvives,
         ErrorRestores, SuccessReplaces, Undisturbed, vars
<1> QED BY <1>1, BeginStep, WriteStep, WriteLostStep, ErrorStep, NewStep, RemoveStep,
           RenameStep, DieStep DEF Next, Finalize, Finished

LEMMA Invariance == Spec => []IInv
BY Initially, Inductive, PTL DEF Spec

-----------------------------------------------------------------------------
\* The state of the directory and of the transfer is always well formed: no
\* more pieces are written than the file has, and the file being written is the
\* name itself or its scratch file.
THEOREM TypeCorrect == Spec => []TypeOK
<1>1. IInv => TypeOK
  BY DEF IInv
<1> QED BY <1>1, Invariance, PTL

\* Whenever the process dies, an overwritten file is intact or its verified
\* successor is complete, beside it or in its place.
THEOREM OldOrNew == Spec => []OldOrNewSurvives
<1>1. IInv => OldOrNewSurvives
  BY DEF IInv
<1> QED BY <1>1, Invariance, PTL

\* A transfer that ends in an error has left the directory as it found it.
THEOREM ErrorsUndone == Spec => []ErrorRestores
<1>1. IInv => ErrorRestores
  BY DEF IInv
<1> QED BY <1>1, Invariance, PTL

\* A verified transfer has replaced the file under its name and nothing else.
THEOREM SuccessExact == Spec => []SuccessReplaces
<1>1. IInv => SuccessReplaces
  BY DEF IInv
<1> QED BY <1>1, Invariance, PTL

-----------------------------------------------------------------------------
(* Without read-only files a name that is not noticed is free.             *)

UnlockedInv == /\ locked = {}
               /\ pc \in {"write", "sign"} /\ ~replaces => before[name] = Absent

LEMMA UnlockedInductive ==
  ASSUME MayLock = {}
  PROVE  Spec => [](IInv /\ UnlockedInv)
<1>1. Init => UnlockedInv
  BY DEF Init, UnlockedInv
<1>2. IInv /\ UnlockedInv /\ [Next]_vars => UnlockedInv'
  <2> SUFFICES ASSUME IInv, UnlockedInv, [Next]_vars PROVE UnlockedInv'
    OBVIOUS
  <2>1. CASE \E f \in Name : Begin(f)
    BY <2>1 DEF Begin, FileExists, UnlockedInv
  <2>2. CASE Write \/ WriteLost
    BY <2>2 DEF Write, WriteLost, UnlockedInv, xfer
  <2>3. CASE Finalize \/ Die
    BY <2>3 DEF Finalize, FinalizeError, FinalizeNew, FinalizeRemove, FinalizeRename,
                Die, Remove, UnlockedInv, xfer
  <2>4. CASE Finished \/ UNCHANGED vars
    BY <2>4 DEF Finished, vars, UnlockedInv
  <2> QED BY <2>1, <2>2, <2>3, <2>4 DEF Next
<1> QED BY <1>1, <1>2, Initially, Inductive, PTL DEF Spec

\* If every file of the directory can be opened for writing, no step before the
\* verification touches a file that was there when the transfer began, but for
\* one that lay under the scratch name.  The run read_only shows that the
\* condition is needed.
THEOREM OldFileUntilVerified ==
  ASSUME MayLock = {}
  PROVE  Spec => SubstituteOnlyAtEnd
<1> DEFINE Kept == \A f \in Path :
                     disk'[f] # disk[f] /\ before[f] # Absent /\ pc \in {"write", "sign"}
                       => \/ f = name /\ pc' = "rename"
                          \/ f = Tmp[name] /\ replaces
<1>1. IInv /\ UnlockedInv /\ [Next]_vars => [Kept]_vars
  <2> SUFFICES ASSUME IInv, UnlockedInv, Next, pc \in {"write", "sign"},
                      NEW f \in Path, disk'[f] # disk[f], before[f] # Absent
               PROVE  \/ f = name /\ pc' = "rename"
                      \/ f = Tmp[name] /\ replaces
    OBVIOUS
  <2>1. disk \in [Path -> Content] /\ target \in Path /\ name \in Path
    BY Places DEF IInv, TypeOK
  <2>2. f = target => f = Tmp[name] /\ replaces
    BY DEF IInv, TypeOK, UnlockedInv
  <2>3. CASE \E g \in Name : Begin(g)
    BY <2>3 DEF Begin
  <2>4. CASE Write \/ WriteLost
    BY <2>1, <2>2, <2>4 DEF Write, WriteLost
  <2>5. CASE FinalizeError
    BY <2>1, <2>2, <2>5 DEF FinalizeError, Remove
  <2>6. CASE FinalizeRemove
    BY <2>1, <2>6 DEF FinalizeRemove, Remove
  <2>7. CASE FinalizeNew \/ FinalizeRename \/ Die \/ Finished
    BY <2>7 DEF FinalizeNew, FinalizeRename, Die, Finished, vars
  <2> QED BY <2>3, <2>4, <2>5, <2>6, <2>7 DEF Next, Finalize
<1> QED BY <1>1, UnlockedInductive, PTL DEF Spec, SubstituteOnlyAtEnd

-----------------------------------------------------------------------------
(* The refinement of AtomicReplace.                                        *)

\* A content of the directory that a reader can be shown: no file, or a whole
\* version.
Version(c) == c = Absent \/ \E v \in 0..version : c = WholeFile(v)

\* Without deaths, lost writes, read-only files and scratch files under the
\* names asked for, only the file being written is in between.
RestInv ==
  /\ locked = {} /\ pc # "dead" /\ ~lost
  /\ \A f \in Name : Version(disk[f]) \/ (f = target /\ pc \in {"write", "sign"})
  /\ \A f \in Path \ Name :
       disk[f] = Absent \/ (f = target /\ pc \in {"write", "sign", "rename"})
  /\ pc \in {"write", "sign", "rename"} => before[target] = Absent /\ version > 0

\* The version of a whole file is the one it was written as.
LEMMA VersionOfWhole ==
  ASSUME NEW n \in Nat, NEW v \in 0..n
  PROVE  VersionOf(WholeFile(v), n) = v
<1>1. WholeFile(v) # Absent
  BY WholeIsPrefix
<1>2. \A w \in 0..n : WholeFile(v) = WholeFile(w) => v = w
  <2> TAKE w \in 0..n
  <2>1. WholeFile(v)[1] = <<v, 1>> /\ WholeFile(w)[1] = <<w, 1>>
    BY PartsAssumption DEF WholeFile
  <2> QED BY <2>1
<1>3. (CHOOSE w \in 0..n : WholeFile(v) = WholeFile(w)) = v
  BY <1>2
<1> HIDE DEF WholeFile
<1> QED BY <1>1, <1>3 DEF VersionOf

LEMMA VersionOfAbsent == \A n : VersionOf(Absent, n) = Absent
BY WholeIsPrefix DEF VersionOf

\* A version a reader can be shown is read the same by later readers.
LEMMA VersionStays ==
  ASSUME NEW n \in Nat, NEW c, c = Absent \/ \E v \in 0..n : c = WholeFile(v)
  PROVE  VersionOf(c, n + 1) = VersionOf(c, n)
<1>1. CASE c = Absent
  BY <1>1, VersionOfAbsent
<1>2. CASE \E v \in 0..n : c = WholeFile(v)
  <2>1. PICK v \in 0..n : c = WholeFile(v)
    BY <1>2
  <2>2. v \in 0..(n + 1) /\ n + 1 \in Nat
    OBVIOUS
  <2> QED BY <2>1, <2>2, VersionOfWhole
<1> QED BY <1>1, <1>2

\* The conditions of the refinement.
Undisputed == /\ MayLock = {} /\ MaxDeaths = 0 /\ MaxFull = 0
              /\ \A f \in Name : Tmp[f] \notin Name

LEMMA RestStep ==
  ASSUME Undisputed, IInv, RestInv, [Next]_vars
  PROVE  RestInv'
<1> USE DEF Undisputed
<1>1. /\ version \in Nat /\ name \in Name /\ name \in Path /\ target \in Path
      /\ target # name => replaces /\ target \in Path \ Name
      /\ disk \in [Path -> Content] /\ Name \subseteq Path
  BY Places, NameAssumption DEF IInv, TypeOK
<1>2. CASE \E f \in Name : Begin(f)
  <2>1. PICK f \in Name : Begin(f)
    BY <1>2
  <2>2. /\ pc \notin {"write", "sign", "rename"} /\ pc' = "write"
        /\ version' = version + 1 /\ before' = disk /\ target' = Scratch(f)
        /\ UNCHANGED <<disk, locked>> /\ ~lost'
    BY <2>1 DEF Begin
  <2>3. \A c : Version(c) => Version(c)'
    BY <1>1, <2>2 DEF Version
  <2>4. disk[target'] = Absent
    <3>1. CASE FileExists(f)
      BY <2>2, <3>1, TmpAssumption DEF Scratch, RestInv
    <3>2. CASE ~FileExists(f)
      BY <2>2, <3>2 DEF Scratch, RestInv, FileExists
    <3> QED BY <3>1, <3>2
  <2>5. \A g \in Name : (Version(disk[g]))'
    BY <2>2, <2>3 DEF RestInv, Version
  <2>6. version' > 0
    BY <1>1, <2>2
  <2> QED BY <2>2, <2>4, <2>5, <2>6 DEF RestInv
<1>3. CASE Write
  <2>1. /\ pc = "write" /\ pc' \in {"write", "sign"}
        /\ \A f \in Path \ {target} : disk'[f] = disk[f]
        /\ UNCHANGED <<locked, version, before, target, lost>>
    BY <1>1, <1>3 DEF Write, xfer
  <2> QED BY <1>1, <2>1 DEF RestInv, Version
<1>4. ~WriteLost /\ ~Die
  BY DEF WriteLost, Die, IInv, TypeOK
<1>5. CASE FinalizeError
  <2>1. /\ pc' = "failed" /\ disk'[target] = Absent /\ locked' = locked \ {target}
        /\ \A f \in Path \ {target} : disk'[f] = disk[f]
        /\ UNCHANGED <<version, before, target, lost>>
    BY <1>1, <1>5 DEF FinalizeError, Remove, xfer
  <2> QED BY <1>1, <2>1 DEF RestInv, Version
<1>6. CASE FinalizeNew
  <2>1. /\ pc = "sign" /\ pc' = "done" /\ ~replaces
        /\ UNCHANGED <<disk, locked, version, before, target, lost>>
    BY <1>6 DEF FinalizeNew, xfer
  <2>2. disk[name] = WholeFile(version) /\ target = name
    BY <1>1, <2>1, Places, WholeIsPrefix
       DEF RestInv, IInv, WrittenInv, CountInv, Undisturbed
  <2> QED BY <1>1, <2>1, <2>2 DEF RestInv, Version
<1>7. CASE FinalizeRemove
  <2>1. /\ pc = "sign" /\ pc' = "rename" /\ disk'[name] = Absent
        /\ locked' = locked \ {name} /\ target # name
        /\ \A f \in Path \ {name} : disk'[f] = disk[f]
        /\ UNCHANGED <<version, before, target, lost>>
    BY <1>1, <1>7, Places DEF FinalizeRemove, Remove, xfer, IInv
  <2> QED BY <1>1, <2>1 DEF RestInv, Version
<1>8. CASE FinalizeRename
  <2>1. /\ pc = "rename" /\ pc' = "done" /\ target # name
        /\ UNCHANGED <<locked, version, before, target, lost>>
    BY <1>1, <1>8, Places DEF FinalizeRename, xfer, IInv, CountInv
  <2>2. disk'[name] = WholeFile(version) /\ disk'[target] = Absent
    BY <1>1, <1>8, <2>1 DEF FinalizeRename, RestInv, IInv, WrittenInv, Undisturbed
  <2>3. \A f \in Path \ {name, target} : disk'[f] = disk[f]
    BY <1>1, <1>8 DEF FinalizeRename
  <2> QED BY <1>1, <2>1, <2>2, <2>3 DEF RestInv, Version
<1>9. CASE Finished \/ UNCHANGED vars
  BY <1>9 DEF Finished, vars, RestInv, Version
<1> QED BY <1>2, <1>3, <1>4, <1>5, <1>6, <1>7, <1>8, <1>9 DEF Next, Finalize

LEMMA RestInductive ==
  ASSUME Undisputed
  PROVE  Spec => [](IInv /\ RestInv)
<1>1. Init => RestInv
  BY NameAssumption DEF Init, RestInv, Version, Undisputed
<1>2. IInv /\ RestInv /\ [Next]_vars => RestInv'
  BY RestStep
<1> QED BY <1>1, <1>2, Initially, Inductive, PTL DEF Spec

\* ReceiveFile as AtomicReplace: the constructor and the rename are not seen, an
\* error rejects the transfer, and the new version is there when a new file has
\* been verified or the old one removed.
LEMMA Simulation ==
  ASSUME Undisputed, IInv, RestInv, [Next]_vars
  PROVE  [Replacement!Next]_(Replacement!vars)
<1> USE DEF Undisputed
<1>1. /\ version \in Nat /\ name \in Name /\ name \in Path /\ target \in Path
      /\ target # name => replaces /\ target \in Path \ Name
      /\ disk \in [Path -> Content] /\ Name \subseteq Path
  BY Places, NameAssumption DEF IInv, TypeOK
<1> DEFINE taken == IF pc \in {"write", "sign"} THEN version - 1 ELSE version
<1>2. SUFFICES \/ Published' = Published /\ taken' = taken
               \/ Published' = Published /\ taken' = taken + 1
               \/ /\ taken' = taken + 1
                  /\ Published' = [Published EXCEPT ![name] = taken']
  BY <1>1 DEF Replacement!Next, Replacement!Reject, Replacement!Replace, Replacement!vars
<1>3. CASE \E f \in Name : Begin(f)
  <2>1. PICK f \in Name : Begin(f)
    BY <1>3
  <2>2. /\ pc \notin {"write", "sign", "rename"} /\ pc' = "write"
        /\ version' = version + 1 /\ name' = f /\ disk' = disk
        /\ replaces' = FileExists(f)
    BY <2>1 DEF Begin, RestInv
  <2>3. taken' = taken
    BY <1>1, <2>2
  <2>4. \A g \in Name : VersionOf(disk[g], version + 1) = VersionOf(disk[g], version)
    BY <1>1, <2>2, VersionStays DEF RestInv, Version
  <2>5. ~FileExists(f) => VersionOf(disk[f], version) = Absent
    BY VersionOfAbsent DEF FileExists, RestInv
  <2>6. Published' = Published
    BY <2>2, <2>4, <2>5 DEF Published
  <2> QED BY <2>3, <2>6
<1>4. CASE Write
  <2>1. /\ pc = "write" /\ pc' \in {"write", "sign"}
        /\ \A f \in Path \ {target} : disk'[f] = disk[f]
        /\ UNCHANGED <<version, name, replaces>>
    BY <1>1, <1>4 DEF Write, xfer
  <2>2. Published' = Published
    BY <1>1, <2>1, Places DEF Published, IInv
  <2> QED BY <2>1, <2>2
<1>5. ~WriteLost /\ ~Die
  BY DEF WriteLost, Die, IInv, TypeOK
<1>6. CASE FinalizeError
  <2>1. /\ pc \in {"write", "sign"} /\ pc' = "failed" /\ disk'[target] = Absent
        /\ \A f \in Path \ {target} : disk'[f] = disk[f]
        /\ UNCHANGED <<version, name, replaces>>
    BY <1>1, <1>6 DEF FinalizeError, Remove, xfer
  <2>2. Published' = Published
    BY <1>1, <2>1, Places, VersionOfAbsent DEF Published, IInv
  <2>3. taken' = taken + 1
    BY <1>1, <2>1
  <2> QED BY <2>2, <2>3
<1>7. CASE FinalizeNew
  <2>1. /\ pc = "sign" /\ pc' = "done" /\ ~replaces
        /\ UNCHANGED <<disk, version, name, target>>
    BY <1>7 DEF FinalizeNew, xfer
  <2>2. disk[name] = WholeFile(version)
    BY <1>1, <2>1, Places, WholeIsPrefix
       DEF RestInv, IInv, WrittenInv, CountInv, Undisturbed
  <2>3. VersionOf(disk[name], version) = version
    BY <1>1, <2>2, VersionOfWhole
  <2>4. taken' = taken + 1 /\ taken' = version
    BY <1>1, <2>1
  <2>5. Published' = [Published EXCEPT ![name] = version]
    BY <1>1, <2>1, <2>3 DEF Published
  <2> QED BY <2>4, <2>5
<1>8. CASE FinalizeRemove
  <2>1. /\ pc = "sign" /\ pc' = "rename" /\ replaces
        /\ \A f \in Path \ {name} : disk'[f] = disk[f]
        /\ target # name /\ UNCHANGED <<version, name, target>>
    BY <1>1, <1>8, Places DEF FinalizeRemove, Remove, xfer, IInv
  <2>2. disk'[target] = WholeFile(version)
    BY <1>1, <2>1, WholeIsPrefix
       DEF RestInv, IInv, WrittenInv, CountInv, Undisturbed
  <2>3. VersionOf(disk'[target], version) = version
    BY <1>1, <2>2, VersionOfWhole
  <2>4. taken' = taken + 1 /\ taken' = version
    BY <1>1, <2>1
  <2>5. Published' = [Published EXCEPT ![name] = version]
    BY <1>1, <2>1, <2>3 DEF Published
  <2> QED BY <2>4, <2>5
<1>9. CASE FinalizeRename
  <2>1. /\ pc = "rename" /\ pc' = "done" /\ target # name
        /\ disk'[name] = disk[target]
        /\ \A f \in Path \ {name, target} : disk'[f] = disk[f]
        /\ UNCHANGED <<version, name, target>>
    BY <1>1, <1>9, Places DEF FinalizeRename, xfer, IInv, CountInv
  <2>2. Published' = Published
    BY <1>1, <2>1 DEF Published
  <2> QED BY <2>1, <2>2
<1>10. CASE Finished \/ UNCHANGED vars
  <2>1. Published' = Published
    BY <1>10 DEF Finished, vars, Published
  <2> QED BY <1>10, <2>1 DEF Finished, vars
<1> QED BY <1>3, <1>4, <1>5, <1>6, <1>7, <1>8, <1>9, <1>10 DEF Next, Finalize

\* Without deaths, lost writes and read-only files, and when no scratch file is
\* itself asked for, ReceiveFile replaces the file under a name in one step or
\* leaves the directory as it was.
THEOREM AtomicReplacement ==
  ASSUME Undisputed
  PROVE  Spec => ImplementsAtomicReplace
<1>1. Init => Replacement!Init
  <2> SUFFICES ASSUME Init PROVE Replacement!Init
    OBVIOUS
  <2>1. \A f \in Name : VersionOf(disk[f], 0) \in {0, Absent}
    <3>1. \A f \in Name : disk[f] \in {WholeFile(0), Absent}
      BY NameAssumption DEF Init
    <3> QED BY <3>1, VersionOfWhole, VersionOfAbsent
  <2> QED BY <2>1 DEF Init, Replacement!Init, Published
<1>2. IInv /\ RestInv /\ [Next]_vars => [Replacement!Next]_(Replacement!vars)
  BY Simulation
<1> QED BY <1>1, <1>2, RestInductive, PTL
        DEF Spec, ImplementsAtomicReplace, Replacement!Spec
=============================================================================
