-------------------------- MODULE PublicationProofs --------------------------
(***************************************************************************)
(* Proofs about Publication for any number of runs: whatever raises and    *)
(* wherever a run is killed, the version that can be had is the one        *)
(* installed last, so publishing is atomic for a reader that also looks at *)
(* .previous.                                                              *)
(***************************************************************************)
EXTENDS Publication, TLAPS

Publishing == {"publish", "dropOld", "moveAside", "install", "restore"}

(* The output directory holds the last package installed or nothing, and   *)
(* if nothing, then .previous holds that package.                          *)
HeldInv ==
  /\ target \in {Absent, latest}
  /\ target = Absent => previous = latest

(* What the run's place in the code says of the directories.               *)
PlaceInv ==
  /\ latest <= run
  /\ pc # "idle" => run > 0
  /\ pc \in Publishing \cup {"build"} => latest < run
  /\ pc \in Publishing => package = run
  /\ pc \in {"dropOld", "moveAside"} => backup /\ target # Absent
  /\ pc \in {"install", "restore"} => target = Absent
  /\ pc \in {"dropBackup", "finish"} => target = run /\ latest = run

(* What it says of the output directory the run has found.                 *)
BeforeInv ==
  /\ pc \in {"build", "publish", "dropOld", "moveAside"} => target = before
  /\ pc \in {"install", "restore"} => before = IF backup THEN previous ELSE Absent
  /\ pc \in {"handler", "dropFailed", "removeStage"} /\ ~ stranded => target \in {before, run}

IInv == TypeOK /\ HeldInv /\ PlaceInv /\ BeforeInv /\ FailureRestores

LEMMA InitIInv == Init => IInv
<1> SUFFICES ASSUME Init PROVE IInv
  OBVIOUS
<1> USE PublicationAssumption DEF Init, Absent, Damaged
<1>1. TypeOK
  <2>1. /\ keep \in BOOLEAN /\ backup \in BOOLEAN /\ stranded \in BOOLEAN
    OBVIOUS
  <2>2. /\ run \in 0 .. MaxRuns /\ latest \in 0 .. MaxRuns
        /\ previous \in Content /\ failed \in Content
        /\ package \in Content /\ target \in Verified /\ before \in Verified
    BY DEF Content, Verified
  <2> QED
    BY <2>1, <2>2 DEF TypeOK
<1>2. HeldInv /\ PlaceInv
  BY DEF HeldInv, PlaceInv, Publishing
<1>3. BeforeInv /\ FailureRestores
  BY DEF BeforeInv, FailureRestores
<1> QED
  BY <1>1, <1>2, <1>3 DEF IInv

(* Every call of a run, a failed one and a kill keep the invariant.        *)
LEMMA StepIInv == IInv /\ [Next]_vars => IInv'
<1> SUFFICES ASSUME IInv, [Next]_vars PROVE IInv'
  OBVIOUS
<1> USE PublicationAssumption
    DEF IInv, TypeOK, HeldInv, PlaceInv, BeforeInv, FailureRestores,
        Publishing, Content, Verified, Absent, Damaged, directories
<1>1. CASE Start
  <2>1. TypeOK'
    <3>1. keep' \in BOOLEAN /\ backup' \in BOOLEAN /\ stranded' \in BOOLEAN
      BY <1>1 DEF Start
    <3>2. run' \in 0 .. MaxRuns
      BY <1>1 DEF Start
    <3> QED
      BY <1>1, <3>1, <3>2 DEF Start
  <2>2. HeldInv' /\ PlaceInv'
    BY <1>1 DEF Start
  <2>3. BeforeInv' /\ FailureRestores'
    BY <1>1 DEF Start
  <2> QED
    BY <2>1, <2>2, <2>3
<1>2. CASE Build
  BY <1>2 DEF Build
<1>3. CASE LookForOutput
  <2>1. backup' \in BOOLEAN /\ (backup' <=> target # Absent)
    BY <1>3 DEF LookForOutput
  <2>2. /\ pc = "publish"
        /\ pc' = IF target = Absent THEN "install"
                 ELSE IF previous # Absent THEN "dropOld" ELSE "moveAside"
        /\ run' = run /\ keep' = keep /\ target' = target /\ previous' = previous
        /\ failed' = failed /\ package' = package /\ outcome' = outcome
        /\ latest' = latest /\ before' = before /\ stranded' = stranded
    BY <1>3 DEF LookForOutput
  <2>3. TypeOK'
    BY <2>1, <2>2
  <2>4. HeldInv' /\ PlaceInv'
    BY <2>1, <2>2
  <2>5. BeforeInv' /\ FailureRestores'
    BY <2>1, <2>2
  <2> QED
    BY <2>3, <2>4, <2>5
<1>4. CASE DropOld
  BY <1>4 DEF DropOld
<1>5. CASE MoveAside
  BY <1>5 DEF MoveAside
<1>6. CASE Install
  BY <1>6 DEF Install
<1>7. CASE InstallRaises
  BY <1>7 DEF InstallRaises
<1>8. CASE Restore
  BY <1>8 DEF Restore
<1>9. CASE DropBackup
  BY <1>9 DEF DropBackup
<1>10. CASE Finish
  BY <1>10 DEF Finish
<1>11. CASE Raise
  BY <1>11 DEF Raise
<1>12. CASE Handle
  BY <1>12 DEF Handle
<1>13. CASE DropFailed
  BY <1>13 DEF DropFailed
<1>14. CASE RemoveStage
  BY <1>14 DEF RemoveStage
<1>15. CASE HandlerRaises
  BY <1>15 DEF HandlerRaises
<1>16. CASE Killed
  BY <1>16 DEF Killed
<1>17. CASE UNCHANGED vars
  BY <1>17 DEF vars
<1> QED
  BY <1>1, <1>2, <1>3, <1>4, <1>5, <1>6, <1>7, <1>8, <1>9, <1>10, <1>11, <1>12,
     <1>13, <1>14, <1>15, <1>16, <1>17 DEF Next

(* Every reachable state of any sequence of runs satisfies the invariant.  *)
THEOREM PublicationInvariant == Spec => []IInv
BY InitIInv, StepIInv, PTL DEF Spec

(* The directories hold what their types allow in every state: the output  *)
(* directory never a package that differs from the manifest's.             *)
THEOREM PublicationTypeOK == Spec => []TypeOK
<1>1. IInv => TypeOK
  BY DEF IInv
<1> QED
  BY <1>1, PublicationInvariant, PTL

(* The package installed last is in the output directory or in .previous.  *)
THEOREM PublicationNothingLost == Spec => []NothingLost
<1>1. IInv => NothingLost
  BY DEF IInv, HeldInv, NothingLost
<1> QED
  BY <1>1, PublicationInvariant, PTL

(* A failed run leaves the output directory as it found it or as its own.  *)
THEOREM PublicationFailureRestores == Spec => []FailureRestores
<1>1. IInv => FailureRestores
  BY DEF IInv
<1> QED
  BY <1>1, PublicationInvariant, PTL

(* The version that can be had goes from one complete package to a newer   *)
(* one in a single step, and never back.                                   *)
THEOREM PublicationIsAtomic == Spec => ImplementsAtomicPublish
<1>1. Init => Abstract!Init
  BY DEF Init, Abstract!Init, Recoverable, Absent
<1>2. IInv => Recoverable = latest
  BY DEF IInv, HeldInv, Recoverable
<1>3. IInv /\ [Next]_vars => latest' = latest \/ (latest' \in Nat /\ latest' > latest)
  <2> SUFFICES ASSUME IInv, [Next]_vars, ~ UNCHANGED latest
               PROVE  latest' \in Nat /\ latest' > latest
    OBVIOUS
  <2>1. Install
    BY DEF Next, vars, Start, Build, LookForOutput, DropOld, MoveAside, InstallRaises,
           Restore, DropBackup, Finish, Raise, Handle, DropFailed, RemoveStage,
           HandlerRaises, Killed
  <2> QED
    BY <2>1, PublicationAssumption DEF Install, IInv, TypeOK, PlaceInv, Publishing
<1>4. IInv /\ IInv' /\ [Next]_vars => [Abstract!Publish]_Recoverable
  <2> SUFFICES ASSUME IInv, IInv', [Next]_vars PROVE [Abstract!Publish]_Recoverable
    OBVIOUS
  <2>1. Recoverable = latest /\ Recoverable' = latest'
    <3>1. Recoverable = latest
      BY <1>2
    <3>2. Recoverable' = latest'
      BY DEF IInv, HeldInv, Recoverable
    <3> QED
      BY <3>1, <3>2
  <2> QED
    BY <1>3, <2>1 DEF Abstract!Publish
<1> QED
  BY <1>1, <1>4, PublicationInvariant, PTL DEF Spec, ImplementsAtomicPublish, Abstract!Spec
=============================================================================
