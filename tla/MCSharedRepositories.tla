------------------------ MODULE MCSharedRepositories ------------------------
(* Small instances of SharedRepositories for TLC.                          *)
EXTENDS SharedRepositories

CONSTANTS site, c1, c2

(* A Repo with a mirror, and a MigrateRepo that names its service.         *)
MCRepoSpecs == {[owner |-> "org", content |-> c1, mirror |-> TRUE]}
MCMigrateSpecs == {[owner |-> "org", content |-> c1, service |-> TRUE]}

=============================================================================
