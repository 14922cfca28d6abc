---------------------------- MODULE MCPublication ----------------------------
(***************************************************************************)
(* A small instance of Publication: four runs, so that a run meets the     *)
(* leftovers of a run that met leftovers itself.                           *)
(***************************************************************************)
EXTENDS Publication

MCMaxRuns == 4
=============================================================================
