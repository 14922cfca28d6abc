--------------------------- MODULE AtomicPublish ---------------------------
(***************************************************************************)
(* What publishing a reconstructed package promises: the version that can  *)
(* be had is replaced by a newer complete one in a single step, and is     *)
(* never lost or partly replaced.  0 stands for nothing published yet.     *)
(***************************************************************************)
EXTENDS Integers

VARIABLE version

Init == version = 0

Publish == version' \in Nat /\ version' > version

Spec == Init /\ [][Publish]_version
=============================================================================
