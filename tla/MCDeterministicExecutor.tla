---------------------- MODULE MCDeterministicExecutor ----------------------
(* The executor with up to three threads on up to four tasks, every set of *)
(* failing tasks.                                                          *)
EXTENDS DeterministicExecutor
=============================================================================
