------------------------- MODULE MCRunnerController -------------------------
(* Small instances of RunnerController for TLC.                            *)
EXTENDS RunnerController

CONSTANT ci

=============================================================================
