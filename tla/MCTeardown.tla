----------------------------- MODULE MCTeardown -----------------------------
(* Small instances of Teardown for TLC.                                    *)
EXTENDS Teardown

CONSTANTS acme, site, p1, owners, s1, c1

(* One organisation without teams of its own, one repository in it.        *)
MCOrgSpecs == {[profile |-> p1, teams |-> [t \in Teams |-> NoTeam]]}
MCRepoSpecs == {[owner |-> "org", content |-> c1, mirror |-> TRUE]}

=============================================================================
