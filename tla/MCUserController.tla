-------------------------- MODULE MCUserController --------------------------
(* Small instances of UserController for TLC.                              *)
EXTENDS UserController

CONSTANTS default, certManager, alice, bob, p1, p2, key1, key2

(* The list of accounts is sorted by name.                                 *)
MCRank == [n \in Names |-> IF n = alice THEN 1 ELSE 2]

(* An administrator with a key, and a plain user.                          *)
MCSpecs ==
  {[profile |-> p1, admin |-> TRUE, keys |-> {key1}, pw |-> TRUE],
   [profile |-> p1, admin |-> FALSE, keys |-> {}, pw |-> TRUE]}

=============================================================================
