---------------------------- MODULE Publication ----------------------------
(***************************************************************************)
(* How scripts/reproducibility.py's reconstruct publishes a package: it    *)
(* builds it in a staging directory, compares it with the manifest, moves  *)
(* an existing output aside as <output>.previous, renames the package into *)
(* place, and removes what is left over.  Any call may raise, renames and  *)
(* removals included, and the process may be killed between any two of     *)
(* them; runs follow each other.                                           *)
(*                                                                         *)
(* A directory is absent, damaged, or the complete package of the run that *)
(* built it.  A rename takes one step; a removal takes at least two, since *)
(* rmtree deletes entry by entry.  The checks before the staging directory *)
(* exists change nothing and are left out.                                 *)
(***************************************************************************)
EXTENDS Integers

CONSTANT MaxRuns   \* bound on the number of runs

ASSUME PublicationAssumption == MaxRuns \in Nat

VARIABLES
  pc,         \* where the run is, or "idle"
  run,        \* the number of the current or last run
  keep,       \* keep_failed_output
  backup,     \* whether the local variable backup is set
  target,     \* the output directory
  previous,   \* <output>.previous
  failed,     \* <output>.failed
  package,    \* the package in the staging directory
  outcome,    \* how the last run ended
  latest,     \* history: the run whose package was installed last
  before,     \* history: the output directory when the run began
  stranded    \* history: the rename that restores the output has failed

directories == <<target, previous, failed, package>>
vars == <<pc, run, keep, backup, directories, outcome, latest, before, stranded>>

Absent  == 0
Damaged == -1
Content == {Absent, Damaged} \cup 1 .. MaxRuns
Verified == {Absent} \cup 1 .. MaxRuns

(* Only a package equal to the manifest's inventory is ever in place.      *)
TypeOK ==
  /\ pc \in {"idle", "build", "publish", "dropOld", "moveAside", "install",
             "restore", "dropBackup", "finish", "handler", "dropFailed", "removeStage"}
  /\ run \in 0 .. MaxRuns
  /\ keep \in BOOLEAN
  /\ backup \in BOOLEAN
  /\ target \in Verified
  /\ previous \in Content
  /\ failed \in Content
  /\ package \in Content
  /\ outcome \in {"none", "success", "failure", "killed"}
  /\ latest \in 0 .. MaxRuns
  /\ before \in Verified
  /\ stranded \in BOOLEAN

Init ==
  /\ pc = "idle"
  /\ run = 0
  /\ keep = FALSE
  /\ backup = FALSE
  /\ target = Absent
  /\ previous = Absent
  /\ failed = Absent
  /\ package = Absent
  /\ outcome = "none"
  /\ latest = 0
  /\ before = Absent
  /\ stranded = FALSE

(* A fresh staging directory; one a killed run left behind stays there     *)
(* under its own name and is not looked at again.                          *)
Start ==
  /\ pc = "idle"
  /\ run < MaxRuns
  /\ run' = run + 1
  /\ keep' \in BOOLEAN
  /\ backup' = FALSE
  /\ package' = Damaged
  /\ before' = target
  /\ stranded' = FALSE
  /\ pc' = "build"
  /\ UNCHANGED <<target, previous, failed, outcome, latest>>

(* Mutant of Build: the package is published before it is compared.        *)
BuildUnverified ==
  /\ pc = "build"
  /\ pc' = "publish"
  /\ UNCHANGED <<run, keep, backup, directories, outcome, latest, before, stranded>>

(* The commands ran and the package equals the manifest's inventory.       *)
Build ==
  /\ pc = "build"
  /\ package' = run
  /\ pc' = "publish"
  /\ UNCHANGED <<run, keep, backup, target, previous, failed, outcome, latest, before, stranded>>

(* Mutant of LookForOutput: an older .previous is dropped in any case.     *)
LookForOutputDropFirst ==
  /\ pc = "publish"
  /\ backup' = (target # Absent)
  /\ pc' = IF previous # Absent THEN "dropOld"
           ELSE IF target # Absent THEN "moveAside" ELSE "install"
  /\ UNCHANGED <<run, keep, directories, outcome, latest, before, stranded>>

(* if output_directory.exists(): ... if backup.exists(): ...               *)
LookForOutput ==
  /\ pc = "publish"
  /\ backup' = (target # Absent)
  /\ pc' = IF target = Absent THEN "install"
           ELSE IF previous # Absent THEN "dropOld" ELSE "moveAside"
  /\ UNCHANGED <<run, keep, directories, outcome, latest, before, stranded>>

(* rmtree of an older .previous; removed entries leave it damaged first.   *)
DropOld ==
  /\ pc = "dropOld"
  /\ \/ previous' = Damaged /\ pc' = pc
     \/ previous' = Absent /\ previous = Damaged /\ pc' = "moveAside"
  /\ UNCHANGED <<run, keep, backup, target, failed, package, outcome, latest, before, stranded>>

(* Mutant of MoveAside: the output is removed, not kept for a rollback.    *)
RemoveOutput ==
  /\ pc = "moveAside"
  /\ target' = Absent
  /\ pc' = "install"
  /\ UNCHANGED <<run, keep, backup, previous, failed, package, outcome, latest, before, stranded>>

(* output_directory.rename(backup)                                         *)
MoveAside ==
  /\ pc = "moveAside"
  /\ previous' = target
  /\ target' = Absent
  /\ pc' = "install"
  /\ UNCHANGED <<run, keep, backup, failed, package, outcome, latest, before, stranded>>

(* package.rename(output_directory)                                        *)
Install ==
  /\ pc = "install"
  /\ target' = package
  /\ package' = Absent
  /\ latest' = run
  /\ pc' = IF backup THEN "dropBackup" ELSE "finish"
  /\ UNCHANGED <<run, keep, backup, previous, failed, outcome, before, stranded>>

InstallRaises ==
  /\ pc = "install"
  /\ pc' = "restore"
  /\ UNCHANGED <<run, keep, backup, directories, outcome, latest, before, stranded>>

(* Mutant of Restore: the previous output stays where it was moved.        *)
NoRestore ==
  /\ pc = "restore"
  /\ pc' = "handler"
  /\ UNCHANGED <<run, keep, backup, directories, outcome, latest, before, stranded>>

(* backup.rename(output_directory), which may itself raise                 *)
Restore ==
  /\ pc = "restore"
  /\ IF backup /\ previous # Absent /\ target = Absent
     THEN \/ target' = previous /\ previous' = Absent /\ UNCHANGED stranded
          \/ stranded' = TRUE /\ UNCHANGED <<target, previous>>
     ELSE UNCHANGED <<target, previous, stranded>>
  /\ pc' = "handler"
  /\ UNCHANGED <<run, keep, backup, failed, package, outcome, latest, before>>

(* if backup: rmtree(backup), after the package is in place                *)
DropBackup ==
  /\ pc = "dropBackup"
  /\ \/ previous' = Damaged /\ pc' = pc
     \/ previous' = Absent /\ previous = Damaged /\ pc' = "finish"
  /\ UNCHANGED <<run, keep, backup, target, failed, package, outcome, latest, before, stranded>>

(* rmtree(stage, ignore_errors=True), and the report is returned           *)
Finish ==
  /\ pc = "finish"
  /\ outcome' = "success"
  /\ pc' = "idle"
  /\ UNCHANGED <<run, keep, backup, directories, latest, before, stranded>>

(* Any other call raises and the outer handler takes over.                 *)
Raise ==
  /\ pc \in {"build", "publish", "dropOld", "moveAside", "dropBackup"}
  /\ pc' = "handler"
  /\ UNCHANGED <<run, keep, backup, directories, outcome, latest, before, stranded>>

(* except BaseException: the stage is kept as .failed or removed.          *)
Handle ==
  /\ pc = "handler"
  /\ pc' = IF keep /\ failed # Absent THEN "dropFailed" ELSE "removeStage"
  /\ UNCHANGED <<run, keep, backup, directories, outcome, latest, before, stranded>>

DropFailed ==
  /\ pc = "dropFailed"
  /\ \/ failed' = Damaged /\ pc' = pc
     \/ failed' = Absent /\ failed = Damaged /\ pc' = "removeStage"
  /\ UNCHANGED <<run, keep, backup, target, previous, package, outcome, latest, before, stranded>>

(* stage.rename(failed), or rmtree(stage, ignore_errors=True); then raise  *)
RemoveStage ==
  /\ pc = "removeStage"
  /\ IF keep THEN failed' = IF package = Absent THEN Damaged ELSE package
             ELSE UNCHANGED failed
  /\ package' = Absent
  /\ outcome' = "failure"
  /\ pc' = "idle"
  /\ UNCHANGED <<run, keep, backup, target, previous, latest, before, stranded>>

(* The handler's own calls may raise as well.                              *)
HandlerRaises ==
  /\ pc = "dropFailed" \/ (pc = "removeStage" /\ keep)
  /\ outcome' = "failure"
  /\ pc' = "idle"
  /\ UNCHANGED <<run, keep, backup, directories, latest, before, stranded>>

Killed ==
  /\ pc # "idle"
  /\ outcome' = "killed"
  /\ pc' = "idle"
  /\ UNCHANGED <<run, keep, backup, directories, latest, before, stranded>>

Next ==
  \/ Start \/ Build \/ LookForOutput \/ DropOld \/ MoveAside
  \/ Install \/ InstallRaises \/ Restore \/ DropBackup \/ Finish
  \/ Raise \/ Handle \/ DropFailed \/ RemoveStage \/ HandlerRaises \/ Killed

Spec == Init /\ [][Next]_vars

-----------------------------------------------------------------------------
(* Properties *)

(* The package installed last can always be had, from the output directory *)
(* or, while that is absent, from .previous: whatever raises and wherever  *)
(* the process is killed, no older copy is removed before a newer one is   *)
(* in place.                                                               *)
NothingLost ==
  latest > 0 => target = latest \/ (target = Absent /\ previous = latest)

(* docs/REPRODUCIBILITY.md: a run that fails leaves the output directory   *)
(* as it found it, unless the rename back failed as well, or it failed     *)
(* only in removing .previous, with its own package in place.              *)
FailureRestores ==
  pc = "idle" /\ outcome = "failure" /\ ~ stranded => target \in {before, run}

(* Seen through the version that can be had, a run publishes in one step.  *)
Recoverable == IF target # Absent THEN target ELSE previous
Abstract == INSTANCE AtomicPublish WITH version <- Recoverable
ImplementsAtomicPublish == Abstract!Spec

(* docs/REPRODUCIBILITY.md: the orchestrator atomically publishes.  A run  *)
(* killed between the two renames leaves no output at all, and nothing     *)
(* brings the .previous copy back.                                         *)
PublishedStaysAvailable == pc = "idle" /\ latest > 0 => target # Absent
=============================================================================
