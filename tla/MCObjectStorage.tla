--------------------------- MODULE MCObjectStorage ---------------------------
(* Small instances of ObjectStorage for TLC.                               *)
EXTENDS ObjectStorage

CONSTANTS g, h1, h2

=============================================================================
