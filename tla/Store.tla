------------------------------- MODULE Store -------------------------------
(***************************************************************************)
(* The directory in which a host receives files: WriteFileManager and      *)
(* FileManager (library/) under the control of ReceiveFile, over several   *)
(* transfers, with the death of the process at any point.                  *)
(*                                                                         *)
(* A file is the sequence of the pieces written to it; piece k of the file *)
(* carried by transfer v is <<v, k>>.  A file that was in the directory    *)
(* before the first transfer is the whole version 0.                       *)
(***************************************************************************)
EXTENDS Integers, Sequences

CONSTANTS
  Path,          \* the names of the directory
  Name,          \* those a transfer may ask for
  Tmp,           \* the name of the scratch file of each name, name + ".tmp"
  Parts,         \* the pieces of a file
  Absent,        \* no file under a name
  MaxTransfers,  \* bound on the transfers of a behaviour
  MaxDeaths,     \* bound on the deaths of the receiving process
  MaxFull,       \* bound on the writes lost to a full disk
  MayLock        \* the files that may be read-only at the start

ASSUME NameAssumption == Name \subseteq Path /\ MayLock \subseteq Path
ASSUME TmpAssumption  == Tmp \in [Name -> Path] /\ \A f \in Name : Tmp[f] # f
ASSUME PartsAssumption ==
  Parts \in Nat \ {0} /\ {MaxTransfers, MaxDeaths, MaxFull} \subseteq Nat
ASSUME AbsentAssumption == Absent \notin Seq(Nat \X Nat)

VARIABLES
  disk,      \* the content of each name
  locked,    \* the files that cannot be opened for writing
  pc,        \* where the transfer is
  name,      \* the name it was asked to write
  target,    \* WriteFileManager::file_name
  replaces,  \* original_file_name != "": the name existed
  version,   \* the number of the transfer
  written,   \* pieces written by it
  before,    \* history: the directory when the transfer began
  lost,      \* history: a piece of this transfer never reached the disk
  deaths,    \* deaths so far
  fulls      \* lost writes so far

vars  == <<disk, locked, pc, name, target, replaces, version, written, before,
           lost, deaths, fulls>>
xfer  == <<name, target, replaces, version, before>>

Content == Seq(Nat \X Nat) \cup {Absent}

\* The complete file of transfer v.
WholeFile(v) == [k \in 1..Parts |-> <<v, k>>]

Init == /\ disk \in [Path -> {WholeFile(0), Absent}]
        /\ \A f \in Path \ Name : disk[f] = Absent
        /\ locked \in SUBSET {f \in MayLock : disk[f] # Absent}
        /\ pc = "idle" /\ name \in Name /\ target = name /\ replaces = FALSE
        /\ version = 0 /\ written = 0 /\ before = disk
        /\ lost = FALSE /\ deaths = 0 /\ fulls = 0

-----------------------------------------------------------------------------
(* File operations                                                         *)

\* Slip: an existing file is not noticed.
NeverExists(f) == FALSE

\* file_exists opens the file for reading and writing.
FileExists(f) == disk[f] # Absent /\ f \notin locked

\* openStream with fstream::app creates a missing file.
CanAppend(f) == disk[f] = Absent \/ f \notin locked

Appended(c, piece) == IF c = Absent THEN <<piece>> ELSE Append(c, piece)

Remove(f) == /\ disk' = [disk EXCEPT ![f] = Absent]
             /\ locked' = locked \ {f}

-----------------------------------------------------------------------------
(* A transfer                                                              *)

\* Slip: an existing file is written in place.
InPlace(f) == f

\* An existing file is written beside itself.
Scratch(f) == IF FileExists(f) THEN Tmp[f] ELSE f

\* The constructor of WriteFileManager.
Begin(f) ==
  /\ pc \in {"idle", "done", "failed", "dead"} /\ version < MaxTransfers
  /\ pc' = "write" /\ name' = f
  /\ replaces' = FileExists(f)
  /\ target' = Scratch(f)
  /\ version' = version + 1 /\ written' = 0 /\ before' = disk
  /\ lost' = FALSE
  /\ UNCHANGED <<disk, locked, deaths, fulls>>

\* Slip: the end of the file is noticed one piece late.
WritePastEnd ==
  /\ pc = "write" /\ CanAppend(target)
  /\ disk' = [disk EXCEPT ![target] =
                Appended(disk[target], <<version, written + 1>>)]
  /\ written' = written + 1
  /\ pc' = IF written = Parts THEN "sign" ELSE "write"
  /\ UNCHANGED <<locked, xfer, lost, deaths, fulls>>

\* write appends a piece; after the last one the signature is awaited.
Write ==
  /\ pc = "write" /\ CanAppend(target)
  /\ disk' = [disk EXCEPT ![target] =
                Appended(disk[target], <<version, written + 1>>)]
  /\ written' = written + 1
  /\ pc' = IF written' = Parts THEN "sign" ELSE "write"
  /\ UNCHANGED <<locked, xfer, lost, deaths, fulls>>

\* The last piece fits the stream's buffer and the disk is full: the failure
\* comes out of the close in closeStream, whose result nobody looks at.
WriteLost ==
  /\ pc = "write" /\ CanAppend(target) /\ written + 1 = Parts
  /\ fulls < MaxFull
  /\ disk' = [disk EXCEPT ![target] = IF @ = Absent THEN <<>> ELSE @]
  /\ written' = written + 1 /\ pc' = "sign"
  /\ lost' = TRUE /\ fulls' = fulls + 1
  /\ UNCHANGED <<locked, xfer, deaths>>

\* Slip: the file under the name is removed in place of the one written.
FinalizeErrorByName ==
  /\ pc \in {"write", "sign"}
  /\ Remove(name)
  /\ pc' = "failed"
  /\ UNCHANGED <<xfer, written, lost, deaths, fulls>>

\* finalize(true): the frame, the decryption, the write or the signature
\* failed.  The file written so far is removed.
FinalizeError ==
  /\ pc \in {"write", "sign"}
  /\ Remove(target)
  /\ pc' = "failed"
  /\ UNCHANGED <<xfer, written, lost, deaths, fulls>>

\* finalize(false) on a new name leaves the file where it is.
FinalizeNew ==
  /\ pc = "sign" /\ ~replaces
  /\ pc' = "done"
  /\ UNCHANGED <<disk, locked, xfer, written, lost, deaths, fulls>>

\* Slip: the old file is removed before the signature has come.
FinalizeRemoveEarly ==
  /\ pc \in {"write", "sign"} /\ replaces
  /\ Remove(name)
  /\ pc' = "rename"
  /\ UNCHANGED <<xfer, written, lost, deaths, fulls>>

\* finalize(false) on an existing name: remove, then rename.
FinalizeRemove ==
  /\ pc = "sign" /\ replaces
  /\ Remove(name)
  /\ pc' = "rename"
  /\ UNCHANGED <<xfer, written, lost, deaths, fulls>>

\* Slip: the scratch file is copied and stays.
FinalizeCopy ==
  /\ pc = "rename"
  /\ disk' = [disk EXCEPT ![name] = disk[target]]
  /\ pc' = "done"
  /\ UNCHANGED <<locked, xfer, written, lost, deaths, fulls>>

FinalizeRename ==
  /\ pc = "rename"
  /\ disk' = [disk EXCEPT ![name] = disk[target], ![target] = Absent]
  /\ pc' = "done"
  /\ UNCHANGED <<locked, xfer, written, lost, deaths, fulls>>

\* SIGINT, or the fault of dereferencing a missing frame: the process ends
\* without finalize, and another is started in the same directory.  A piece
\* that was still in the stream's buffer is lost, as if not yet written.
Die ==
  /\ pc \in {"write", "sign", "rename"} /\ deaths < MaxDeaths
  /\ pc' = "dead" /\ deaths' = deaths + 1
  /\ UNCHANGED <<disk, locked, xfer, written, lost, fulls>>

Finalize == \/ FinalizeError \/ FinalizeNew \/ FinalizeRemove
            \/ FinalizeRename

Finished == /\ pc \in {"idle", "done", "failed", "dead"}
            /\ version = MaxTransfers
            /\ UNCHANGED vars

Next == \/ \E f \in Name : Begin(f)
        \/ Write \/ WriteLost \/ Finalize \/ Die \/ Finished

Spec == Init /\ [][Next]_vars

-----------------------------------------------------------------------------
(* Properties                                                              *)

\* The type invariant of the directory and of the transfer in progress.
TypeOK ==
  /\ disk \in [Path -> Content] /\ before \in [Path -> Content]
  /\ locked \in SUBSET Path
  /\ pc \in {"idle", "write", "sign", "rename", "done", "failed", "dead"}
  /\ name \in Name /\ replaces \in BOOLEAN
  /\ target = IF replaces THEN Tmp[name] ELSE name
  /\ version \in Nat /\ written \in 0..Parts
  /\ lost \in BOOLEAN /\ deaths \in Nat /\ fulls \in Nat

\* The file to be appended to did not exist when the transfer began, and no
\* piece was lost on the way to it.
Undisturbed == before[target] = Absent /\ ~lost

\* "end of write, substitute previous file with tmp" (WriteFileManager.cpp:49):
\* until the signature has been verified no step changes or removes a file that
\* was in the directory when the transfer began, with one exception: what lies
\* under the scratch name already, left there by a death or being the file of
\* another name, is taken for the scratch file, appended to and, after an
\* error, removed.
SubstituteOnlyAtEnd ==
  [][\A f \in Path :
       disk'[f] # disk[f] /\ before[f] # Absent /\ pc \in {"write", "sign"}
         => \/ f = name /\ pc' = "rename"
            \/ f = Tmp[name] /\ replaces]_vars

\* The deaths of the process included, an overwritten file is intact under
\* its name or its verified successor is complete in the scratch file or in
\* its place, if the transfer was undisturbed.
OldOrNewSurvives ==
  replaces /\ Undisturbed =>
    \/ disk[name] = before[name]
    \/ WholeFile(version) \in {disk[name], disk[target]}

\* A transfer that ends in an error puts the directory back as it was,
\* unless it appended to a file that was there.
ErrorRestores ==
  pc = "failed" /\ before[target] = Absent => disk = before

\* A verified transfer leaves its whole file under its name and nothing else
\* changed, if the transfer was undisturbed.
SuccessReplaces ==
  pc = "done" /\ Undisturbed =>
    disk = [before EXCEPT ![name] = WholeFile(version)]

\* The message of SendReceiveFile.cpp:283, "File Verification OK", taken at
\* its word: the file left under the name is the one that was verified.
VerifiedMeansWhole == pc = "done" => disk[name] = WholeFile(version)

\* The version up to n that a content is, or Absent, or a torn file of none.
VersionOf(c, n) ==
  CASE c = Absent -> Absent
    [] \E v \in 0..n : c = WholeFile(v) -> CHOOSE v \in 0..n : c = WholeFile(v)
    [] OTHER -> "torn"

\* The directory as a reader that waits for the end of a transfer sees it.
Published ==
  [f \in Name |->
     IF pc \in {"write", "sign"} /\ ~replaces /\ f = name THEN Absent
     ELSE IF pc = "rename" /\ f = name THEN VersionOf(disk[target], version)
     ELSE VersionOf(disk[f], version)]

Replacement ==
  INSTANCE AtomicReplace WITH
    None <- Absent, files <- Published,
    taken <- IF pc \in {"write", "sign"} THEN version - 1 ELSE version

\* Without deaths, colliding names and read-only files, ReceiveFile replaces
\* the file under a name in one step or leaves the directory as it was.
ImplementsAtomicReplace == Replacement!Spec
=============================================================================
