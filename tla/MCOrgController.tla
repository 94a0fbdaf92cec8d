--------------------------- MODULE MCOrgController ---------------------------
(* Small instances of OrgController for TLC.                               *)
EXTENDS OrgController

CONSTANTS acme, p1, p2, devs, owners, alice, s1, s2

(* One team with one member and a profile that never compares equal, or    *)
(* other settings, nobody, and a visibility.                               *)
MCSpecs ==
  {[profile |-> p1, teams |-> [t \in Teams |->
      IF t = devs THEN [settings |-> s1, members |-> {alice}] ELSE NoTeam]],
   [profile |-> p2, teams |-> [t \in Teams |->
      IF t = devs THEN [settings |-> s2, members |-> {}] ELSE NoTeam]]}

=============================================================================
