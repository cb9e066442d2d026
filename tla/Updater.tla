------------------------------ MODULE Updater ------------------------------
(***************************************************************************)
(* The updater (cmd/quattro-updater/main.go): unpacks the archive that was  *)
(* downloaded, replaces the files of the program one by one, removes the    *)
(* archive and starts the program. It may be interrupted anywhere, files of *)
(* a program that still runs cannot be replaced, and whoever runs it again  *)
(* finds what the disk holds.                                               *)
(*                                                                         *)
(* A file is as in the old release, as in the new one, torn, or not there.  *)
(* The configuration, which is skipped, and directories are left out.       *)
(***************************************************************************)
EXTENDS Naturals, Sequences, SequencesExt

CONSTANTS
    Tree,        \* the files of the new release, in the order of WalkDir
    MaxAttempt,  \* of replaceFile
    MaxRun       \* times the updater is run, a bound on the environment

\* WalkDir visits every file once.
ASSUME TreeAssumption ==
    /\ Tree \in Seq(ToSet(Tree))
    /\ \A i, j \in 1..Len(Tree) : Tree[i] = Tree[j] => i = j
    /\ MaxAttempt \in Nat /\ MaxRun \in Nat

File    == ToSet(Tree)
Content == {"old", "new", "torn", "missing"}

VARIABLES
    disk,       \* the program
    temporary,  \* .quattro-new beside each of its files
    payload,    \* what extractDir holds
    archive,    \* archivePath exists
    busy,       \* files that cannot be removed or replaced
    step,       \* where run() is
    next,       \* the file it is about to handle
    attempt,    \* attempts at this file
    launches    \* runs so far

diskVars == <<disk, temporary, payload, archive, busy>>
runVars  == <<step, next, attempt, launches>>
updaterVars == <<diskVars, runVars>>

UpdaterTypeOK ==
    /\ disk \in [File -> Content]
    /\ temporary \in [File -> Content \ {"old"}]
    /\ payload \in [File -> Content \ {"old"}]
    /\ archive \in BOOLEAN
    /\ busy \subseteq File
    /\ step \in {"off", "unzip", "unzipping", "copy", "copying", "replace", "rename", "clean",
               "restart"}
    /\ next \in 1..(Len(Tree) + 1)
    /\ attempt \in 0..MaxAttempt
    /\ launches \in 0..MaxRun

AllOf(content) == [f \in File |-> content]

UpdaterInit ==
    /\ disk = AllOf("old") /\ temporary = AllOf("missing") /\ payload = AllOf("missing")
    /\ archive = TRUE
    /\ busy = File
    /\ step = "off" /\ next = 1 /\ attempt = 0 /\ launches = 0

This == Tree[next]
AtEnd == next > Len(Tree)
Goes(here, there) == step = here /\ step' = there

-----------------------------------------------------------------------------
(* What happens around it *)

\* The archive has to be there, and what an earlier run has unpacked is removed.
Launch ==
    /\ launches < MaxRun
    /\ archive
    /\ Goes("off", "unzip")
    /\ launches' = launches + 1
    /\ payload' = AllOf("missing")
    /\ next' = 1 /\ attempt' = 0
    /\ UNCHANGED <<disk, temporary, archive, busy>>

\* It is killed, the machine stops, or a step returns an error that is passed on.
Stops ==
    /\ step # "off"
    /\ step' = "off"
    /\ UNCHANGED <<diskVars, next, attempt, launches>>

\* Parts of the program exit, or are started by the user.
BusyChanges(f) ==
    /\ busy' = IF f \in busy THEN busy \ {f} ELSE busy \cup {f}
    /\ disk[f] # "missing"
    /\ UNCHANGED <<disk, temporary, payload, archive, runVars>>

-----------------------------------------------------------------------------
(* unzipSafe *)

Unzip ==
    /\ ~AtEnd
    /\ Goes("unzip", "unzipping")
    /\ payload' = [payload EXCEPT ![This] = "torn"]
    /\ UNCHANGED <<disk, temporary, archive, busy, next, attempt, launches>>

Unzipped ==
    /\ Goes("unzipping", "unzip")
    /\ payload' = [payload EXCEPT ![This] = "new"]
    /\ next' = next + 1
    /\ UNCHANGED <<disk, temporary, archive, busy, attempt, launches>>

UnzipEnds ==
    /\ AtEnd
    /\ Goes("unzip", "copy")
    /\ next' = 1
    /\ UNCHANGED <<diskVars, attempt, launches>>

-----------------------------------------------------------------------------
(* installTree, replaceFile *)

\* Mutant: the file itself is written, and there is nothing to rename.
CopyInPlace ==
    /\ ~AtEnd
    /\ Goes("copy", "copying")
    /\ disk' = [disk EXCEPT ![This] = "torn"]
    /\ UNCHANGED <<temporary, payload, archive, busy, next, attempt, launches>>

Copy ==
    /\ ~AtEnd
    /\ Goes("copy", "copying")
    /\ temporary' = [temporary EXCEPT ![This] = "torn"]
    /\ UNCHANGED <<disk, payload, archive, busy, next, attempt, launches>>

Copied ==
    /\ Goes("copying", "replace")
    /\ temporary' = [temporary EXCEPT ![This] = payload[This]]
    /\ attempt' = 0
    /\ UNCHANGED <<disk, payload, archive, busy, next, launches>>

\* os.Remove(destination), whose error is ignored.
RemoveOld ==
    /\ attempt < MaxAttempt
    /\ Goes("replace", "rename")
    /\ disk' = [disk EXCEPT ![This] = IF This \in busy THEN @ ELSE "missing"]
    /\ UNCHANGED <<temporary, payload, archive, busy, next, attempt, launches>>

Rename ==
    /\ Goes("rename", "copy")
    /\ This \notin busy
    /\ disk' = [disk EXCEPT ![This] = temporary[This]]
    /\ temporary' = [temporary EXCEPT ![This] = "missing"]
    /\ next' = next + 1
    /\ UNCHANGED <<payload, archive, busy, attempt, launches>>

RenameFails ==
    /\ attempt < MaxAttempt
    /\ Goes("rename", "replace")
    /\ attempt' = attempt + 1
    /\ UNCHANGED <<diskVars, next, launches>>

\* Mutant: the walk goes on to the next file.
GiveUpAndWalkOn ==
    /\ attempt = MaxAttempt
    /\ Goes("replace", "copy")
    /\ next' = next + 1
    /\ UNCHANGED <<diskVars, attempt, launches>>

\* The error of the last attempt ends the walk, and the run.
GiveUp ==
    /\ attempt = MaxAttempt
    /\ Goes("replace", "off")
    /\ UNCHANGED <<diskVars, next, attempt, launches>>

\* The archive goes. (Where its removal fails, it stays and is ignored.)
Clean ==
    /\ AtEnd
    /\ Goes("copy", "clean")
    /\ archive' \in {FALSE, TRUE}
    /\ UNCHANGED <<disk, temporary, payload, busy, next, attempt, launches>>

RemoveExtracted ==
    /\ Goes("clean", "restart")
    /\ payload' = AllOf("missing")
    /\ UNCHANGED <<disk, temporary, archive, busy, next, attempt, launches>>

\* restartQuattro, and the end of the run.
Restart ==
    /\ Goes("restart", "off")
    /\ UNCHANGED <<diskVars, next, attempt, launches>>

-----------------------------------------------------------------------------
UpdaterNext ==
    \/ Launch \/ Stops
    \/ \E f \in File : BusyChanges(f)
    \/ Unzip \/ Unzipped \/ UnzipEnds
    \/ Copy \/ Copied \/ RemoveOld \/ Rename \/ RenameFails \/ GiveUp
    \/ Clean \/ RemoveExtracted \/ Restart

UpdaterSpec == UpdaterInit /\ [][UpdaterNext]_updaterVars

-----------------------------------------------------------------------------
(* Whatever interrupts it, and however often it is run: either every file of the
   program is the new one, or the archive is there for another run; and it is
   never started in a mixture of releases. (Files may be missing meanwhile.)  *)
NothingHalfDone ==
    \/ \A f \in File : disk[f] = "new"
    \/ archive /\ step \notin {"clean", "restart"}

(* No file of the program is ever torn, as a copy cut off in the middle would
   leave it: it is replaced by one that is complete.                           *)
NoTornFile == \A f \in File : disk[f] # "torn"
=============================================================================
