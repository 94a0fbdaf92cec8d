------------------------- MODULE OrgControllerProofs -------------------------
(***************************************************************************)
(* Proofs about OrgController: type correctness, that no organisation the  *)
(* operator made is ever without a CR that carries the finalizer, that     *)
(* status.provisioned tells the truth, and that the controller implements  *)
(* ManagedResource, for any set of CRs, specs and teams and any number of  *)
(* failures and restarts.                                                  *)
(***************************************************************************)
EXTENDS OrgController, ControllerRuntimeProofs

(* What is assumed of the constants.                                       *)
LEMMA OrgAssumed ==
  /\ Specs \subseteq OrgSpec
  /\ Owners \in Teams /\ Unset \subseteq Profiles /\ Settings # {}
  /\ Absent \notin Org /\ NoOrg \notin Organization /\ NoTeam \notin Team
  /\ PageSize \in Nat /\ MaxOps \in Nat /\ MaxFail \in Nat /\ MaxCrash \in Nat
  BY OrgAssumptions DEF OrgConstants

OrgMap == [Keys -> Organization \cup {NoOrg}]

(* The organisations there are, and those the operator made.               *)
Existing == {k \in Keys : HasOrg(k)}
MadeOrgs == {k \in Keys : HasOrg(k) /\ orgs[k].made}

-----------------------------------------------------------------------------
(* What a change of an organisation does to the map.                       *)

(* The fields of an organisation that exists.                              *)
LEMMA OrgFields ==
  ASSUME orgs \in OrgMap, NEW k \in Keys, HasOrg(k)
  PROVE /\ orgs[k] \in Organization /\ orgs[k].profile \in Profiles
        /\ orgs[k].made \in BOOLEAN
        /\ \A t \in Teams : HasTeam(k, t) =>
             /\ orgs[k].teams[t] \in Team
             /\ orgs[k].teams[t].members \in SUBSET Members
  BY DEF OrgMap, HasOrg, HasTeam, Organization, TeamMap, Team

(* An organisation is replaced by one that was made by the same hands.     *)
LEMMA Replaced ==
  ASSUME orgs \in OrgMap, NEW k \in Keys, HasOrg(k), NEW o \in Organization,
         o.made = orgs[k].made, orgs' = [orgs EXCEPT ![k] = o]
  PROVE orgs' \in OrgMap /\ Existing' = Existing /\ MadeOrgs' = MadeOrgs
<1>1. /\ orgs'[k] = o /\ \A j \in Keys \ {k} : orgs'[j] = orgs[j]
      /\ orgs' \in OrgMap
  BY DEF OrgMap
<1>2. o # NoOrg
  BY OrgAssumed
<1> QED
  BY <1>1, <1>2 DEF Existing, MadeOrgs, HasOrg

(* A team is made, edited or removed.                                      *)
LEMMA TeamChanged ==
  ASSUME orgs \in OrgMap, NEW k \in Keys, HasOrg(k), NEW t \in Teams,
         NEW team \in Team \cup {NoTeam},
         orgs' = [orgs EXCEPT ![k].teams[t] = team]
  PROVE orgs' \in OrgMap /\ Existing' = Existing /\ MadeOrgs' = MadeOrgs
<1> DEFINE o == [orgs[k] EXCEPT !.teams = [orgs[k].teams EXCEPT ![t] = team]]
<1>1. orgs[k] \in Organization
  BY OrgFields
<1>2. o \in Organization /\ o.made = orgs[k].made
  BY <1>1 DEF Organization, TeamMap
<1>3. orgs' = [orgs EXCEPT ![k] = o]
  OBVIOUS
<1> HIDE DEF o
<1> QED
  BY <1>2, <1>3, Replaced

LEMMA ProfileChanged ==
  ASSUME orgs \in OrgMap, NEW k \in Keys, HasOrg(k), NEW p \in Profiles,
         orgs' = [orgs EXCEPT ![k].profile = p]
  PROVE orgs' \in OrgMap /\ Existing' = Existing /\ MadeOrgs' = MadeOrgs
<1> DEFINE o == [orgs[k] EXCEPT !.profile = p]
<1>1. orgs[k] \in Organization
  BY OrgFields
<1>2. o \in Organization /\ o.made = orgs[k].made
  BY <1>1 DEF Organization
<1>3. orgs' = [orgs EXCEPT ![k] = o]
  OBVIOUS
<1> HIDE DEF o
<1> QED
  BY <1>2, <1>3, Replaced

LEMMA SettingsChanged ==
  ASSUME orgs \in OrgMap, NEW k \in Keys, NEW t \in Teams, HasTeam(k, t),
         NEW x \in Settings,
         orgs' = [orgs EXCEPT ![k].teams[t].settings = x]
  PROVE orgs' \in OrgMap /\ Existing' = Existing /\ MadeOrgs' = MadeOrgs
<1> DEFINE team == [orgs[k].teams[t] EXCEPT !.settings = x]
<1>1. HasOrg(k) /\ orgs[k].teams[t] \in Team
  BY OrgFields DEF HasTeam
<1>2. team \in Team
  BY <1>1 DEF Team
<1>3. orgs' = [orgs EXCEPT ![k].teams[t] = team]
  OBVIOUS
<1> HIDE DEF team
<1> QED
  BY <1>1, <1>2, <1>3, TeamChanged

LEMMA MembersChanged ==
  ASSUME orgs \in OrgMap, NEW k \in Keys, NEW t \in Teams, HasTeam(k, t),
         NEW m \in SUBSET Members,
         orgs' = [orgs EXCEPT ![k].teams[t].members = m]
  PROVE orgs' \in OrgMap /\ Existing' = Existing /\ MadeOrgs' = MadeOrgs
<1> DEFINE team == [orgs[k].teams[t] EXCEPT !.members = m]
<1>1. HasOrg(k) /\ orgs[k].teams[t] \in Team
  BY OrgFields DEF HasTeam
<1>2. team \in Team
  BY <1>1 DEF Team
<1>3. orgs' = [orgs EXCEPT ![k].teams[t] = team]
  OBVIOUS
<1> HIDE DEF team
<1> QED
  BY <1>1, <1>2, <1>3, TeamChanged

(* CreateOrg and RegisterOrg.                                              *)
LEMMA OrgAdded ==
  ASSUME orgs \in OrgMap, NEW k \in Keys, NEW o \in Organization,
         orgs' = [orgs EXCEPT ![k] = o]
  PROVE /\ orgs' \in OrgMap
        /\ Existing' = Existing \cup {k}
        /\ o.made => MadeOrgs' = MadeOrgs \cup {k}
        /\ ~o.made => MadeOrgs' = MadeOrgs \ {k}
<1>1. /\ orgs'[k] = o /\ \A j \in Keys \ {k} : orgs'[j] = orgs[j]
      /\ orgs' \in OrgMap
  BY DEF OrgMap
<1>2. o # NoOrg
  BY OrgAssumed
<1> QED
  BY <1>1, <1>2 DEF Existing, MadeOrgs, HasOrg

(* DeleteOrg and RemoveOrg.                                                *)
LEMMA OrgTaken ==
  ASSUME orgs \in OrgMap, NEW k \in Keys, orgs' = [orgs EXCEPT ![k] = NoOrg]
  PROVE orgs' \in OrgMap /\ Existing' = Existing \ {k} /\ MadeOrgs' = MadeOrgs \ {k}
<1>1. /\ orgs'[k] = NoOrg /\ \A j \in Keys \ {k} : orgs'[j] = orgs[j]
      /\ orgs' \in OrgMap
  BY DEF OrgMap
<1> QED
  BY <1>1 DEF Existing, MadeOrgs, HasOrg

LEMMA NewOrganizationOK ==
  ASSUME NEW s \in OrgSpec
  PROVE NewOrganization(s) \in Organization /\ NewOrganization(s).made
<1>1. (CHOOSE x \in Settings : TRUE) \in Settings
  BY OrgAssumed
<1> DEFINE new == [settings |-> CHOOSE x \in Settings : TRUE, members |-> {}]
<1>2. new \in Team
  BY <1>1 DEF Team
<1> HIDE DEF new
<1>3. [t \in Teams |-> IF t = Owners THEN new ELSE NoTeam] \in TeamMap
  BY <1>2 DEF TeamMap
<1>4. s.profile \in Profiles
  BY DEF OrgSpec
<1> QED
  BY <1>3, <1>4 DEF NewOrganization, Organization, new

-----------------------------------------------------------------------------
(* The inductive invariant.                                                *)

(* The calls of a pass over a CR that is not marked, behind Build.         *)
Late == Calls \ {"addFinalizer", "Build", "deleteOrg", "removeFinalizer"}

(* The teams of the spec, and what is remembered about them: those still   *)
(* to upsert are among them, and so is the team at hand.                   *)
WantedTeams == {t \in Teams : Wanted(t) # NoTeam}
TeamCalls == {"GetTeam", "CreateTeam", "reconcileMembers", "memberCalls", "EditTeam"}

MemoryOK(call, m) ==
  /\ call = "status" => m.created
  /\ m.todo \subseteq WantedTeams
  /\ call \in TeamCalls => m.team \in WantedTeams

(* What a pass knows at each call: it works under the finalizer; it        *)
(* deletes what is marked; before the finalizer goes the organisation it   *)
(* made has gone; what it created is there, unless it went by other hands. *)
PassInv ==
  Running =>
    /\ pass.at # "addFinalizer" => pass.obj.fin
    /\ pass.at \in {"deleteOrg", "removeFinalizer"} => pass.obj.del
    /\ pass.at \in Late => ~pass.obj.del
    /\ pass.at = "removeFinalizer" => pass.key \notin MadeOrgs
    /\ pass.at \notin Late => ~pass.mem.created
    /\ pass.mem.created => pass.key \in Existing \cup lost
    /\ MemoryOK(pass.at, pass.mem)

CopiesInv == Agree /\ Marked \subseteq asked /\ HeldCopies /\ FormerCopies

OrgInv == TypeOK /\ CopiesInv /\ Protected /\ ProvisionedHasOrg /\ PassInv

(* Protected and ProvisionedHasOrg by the sets of organisations.           *)
LEMMA ProtectedSets ==
  /\ Protected <=> \A k \in MadeOrgs : Exists(k) /\ cr[k].fin
  /\ ProvisionedHasOrg <=>
       \A k \in Keys : Exists(k) /\ cr[k].prov /\ ~cr[k].del => k \in Existing \cup lost
  BY DEF Protected, ProvisionedHasOrg, MadeOrgs, Existing

(* A pass goes on to one of the calls C, or ends.                          *)
Moved(C) ==
  /\ Running /\ UNCHANGED store /\ queue' \subseteq Keys
  /\ \/ pass' = Idle
     \/ \E c \in C, m \in Memory :
          /\ pass' = [pass EXCEPT !.at = c, !.mem = m]
          /\ MemoryOK(c, m)
          /\ m.created => pass.mem.created \/ pass.key \in Existing'

LEMMA PassOK ==
  ASSUME TypeOK, Running
  PROVE /\ pass \in Pass(Calls, Org, Memory)
        /\ pass.key \in Keys /\ pass.obj \in Org /\ pass.mem \in Memory /\ pass.at \in Calls
  BY DEF TypeOK, RuntimeOK, Running, Pass

LEMMA EndMoves ==
  ASSUME TypeOK, Running, Done \/ Retry, UNCHANGED store, NEW C
  PROVE Moved(C)
  BY PassOK DEF Done, Retry, Moved, TypeOK, RuntimeOK

LEMMA GotoMoves ==
  ASSUME TypeOK, Running, NEW C, NEW c \in C, Goto(c), UNCHANGED store,
         MemoryOK(c, pass.mem)
  PROVE Moved(C)
<1>1. pass' = [pass EXCEPT !.at = c, !.mem = pass.mem] /\ queue' = queue
  BY PassOK DEF Goto, Pass
<1> QED
  BY <1>1, PassOK DEF Moved, TypeOK, RuntimeOK

LEMMA GotoWithMoves ==
  ASSUME TypeOK, Running, NEW C, NEW c \in C, NEW m \in Memory, GotoWith(c, m),
         UNCHANGED store, MemoryOK(c, m),
         m.created => pass.mem.created \/ pass.key \in Existing'
  PROVE Moved(C)
  BY DEF GotoWith, Moved, TypeOK, RuntimeOK

(* The copies, when a pass moves.                                          *)
LEMMA MovedCopies ==
  ASSUME TypeOK, CopiesInv, NEW C \in SUBSET Calls, Moved(C), asked' = asked
  PROVE RuntimeOK(Calls, Org, Memory)' /\ CopiesInv'
<1>1. CASE pass' = Idle
  <2>1. RuntimeOK(Calls, Org, Memory)'
    BY <1>1 DEF Moved, store, TypeOK, RuntimeOK
  <2> QED
    BY <1>1, <2>1, KeepCopies, KeepHeld DEF Moved, CopiesInv
<1>2. ASSUME NEW c \in C, NEW m \in Memory, pass' = [pass EXCEPT !.at = c, !.mem = m]
      PROVE RuntimeOK(Calls, Org, Memory)' /\ CopiesInv'
  <2>1. /\ pass' \in Pass(Calls, Org, Memory)
        /\ pass'.key = pass.key /\ pass'.obj = pass.obj /\ pass'.current = pass.current
    BY <1>2, PassOK DEF Moved, Pass
  <2>2. RuntimeOK(Calls, Org, Memory)'
    BY <2>1 DEF Moved, store, TypeOK, RuntimeOK
  <2> QED
    BY <2>1, <2>2, KeepCopies, KeepHeld DEF Moved, CopiesInv
<1> QED
  BY <1>1, <1>2 DEF Moved

(* What a pass knows, when it moves behind Build.                          *)
LEMMA MovedLate ==
  ASSUME TypeOK, PassInv, Moved(Late), pass.at \in Late,
         Existing \cup lost \subseteq Existing' \cup lost'
  PROVE PassInv'
<1>1. CASE pass' = Idle
  BY <1>1 DEF PassInv, Running
<1>2. ASSUME NEW c \in Late, NEW m \in Memory, pass' = [pass EXCEPT !.at = c, !.mem = m],
             MemoryOK(c, m),
             m.created => pass.mem.created \/ pass.key \in Existing'
      PROVE PassInv'
  <2>1. /\ pass'.key = pass.key /\ pass'.obj = pass.obj
        /\ pass'.at = c /\ pass'.mem = m
    BY <1>2, PassOK DEF Moved, Pass
  <2>2. MemoryOK(c, m)'
    BY <1>2, <2>1 DEF MemoryOK, WantedTeams, Wanted
  <2> QED
    BY <1>2, <2>1, <2>2 DEF PassInv, Moved, Late, Running
<1> QED
  BY <1>1, <1>2 DEF Moved

(* The invariant again, from its parts.                                    *)
LEMMA Assemble ==
  ASSUME OrgInv, UNCHANGED store, orgs' \in OrgMap,
         RuntimeOK(Calls, Org, Memory)', CopiesInv', PassInv',
         accounts' \in SUBSET Members, owns' \in SUBSET Keys,
         instance' \in {"pending", "ready", "gone"},
         asked' \in SUBSET Keys, lost \subseteq lost', lost' \subseteq Keys,
         ops' \in Nat, fails' \in Nat, crashes' \in Nat,
         \A k \in MadeOrgs' \ MadeOrgs : Exists(k) /\ cr[k].fin,
         \A k \in Existing \ Existing' :
           k \in lost' \/ ~(Exists(k) /\ cr[k].prov /\ ~cr[k].del)
  PROVE OrgInv'
<1>1. cr' = cr
  BY DEF store
<1>2. TypeOK'
  BY DEF TypeOK, OrgMap
<1>3. Protected'
  BY <1>1, ProtectedSets DEF OrgInv, Protected, MadeOrgs, Exists
<1>4. ProvisionedHasOrg'
  BY <1>1 DEF OrgInv, ProvisionedHasOrg, Existing, Exists
<1> QED
  BY <1>2, <1>3, <1>4 DEF OrgInv

(* A step of a pass behind Build, which makes nothing but the organisation *)
(* of its key and removes none.                                            *)
LEMMA LateStep ==
  ASSUME OrgInv, pass.at \in Late, Moved(Late), orgs' \in OrgMap,
         Existing \subseteq Existing', MadeOrgs' \subseteq MadeOrgs \cup {pass.key},
         UNCHANGED <<accounts, owns, instance, history, ops, crashes>>, fails' \in Nat
  PROVE OrgInv'
<1>1. TypeOK /\ PassInv /\ CopiesInv
  BY DEF OrgInv
<1>2. Late \in SUBSET Calls
  BY DEF Late
<1>3. RuntimeOK(Calls, Org, Memory)' /\ CopiesInv'
  BY <1>1, <1>2, MovedCopies DEF history
<1>4. PassInv'
  BY <1>1, MovedLate DEF history
<1>5. Exists(pass.key) /\ cr[pass.key].fin
  BY <1>1 DEF Moved, PassInv, CopiesInv, HeldCopies, Late
<1> QED
  BY <1>1, <1>3, <1>4, <1>5, Assemble DEF TypeOK, Moved, history

(* A pass ends and no organisation has changed.                            *)
LEMMA EndStep ==
  ASSUME OrgInv, Running, Done \/ Retry, UNCHANGED <<store, orgs>>,
         UNCHANGED <<accounts, owns, instance, history, ops, crashes>>, fails' \in Nat
  PROVE OrgInv'
<1>1. TypeOK /\ PassInv /\ CopiesInv
  BY DEF OrgInv
<1>2. Moved({})
  BY <1>1, EndMoves
<1>3. RuntimeOK(Calls, Org, Memory)' /\ CopiesInv'
  BY <1>1, <1>2, MovedCopies DEF history
<1>4. PassInv'
  BY DEF PassInv, Running, Done, Retry
<1>5. Existing' = Existing /\ MadeOrgs' = MadeOrgs
  BY DEF Existing, MadeOrgs, HasOrg
<1> QED
  BY <1>1, <1>3, <1>4, <1>5, Assemble DEF TypeOK, history, OrgMap

-----------------------------------------------------------------------------
(* Every step of a pass keeps the invariant.                               *)

(* An organisation left as it is.                                          *)
LEMMA SameOrgs ==
  ASSUME TypeOK, UNCHANGED orgs
  PROVE orgs' \in OrgMap /\ Existing' = Existing /\ MadeOrgs' = MadeOrgs
  BY DEF TypeOK, OrgMap, Existing, MadeOrgs, HasOrg

(* The memory a pass goes on with when reconcileTeams continues.           *)
LEMMA NextTeamMoves ==
  ASSUME TypeOK, Running, NEW m \in Memory, m.created = pass.mem.created,
         m.todo \subseteq WantedTeams, NextTeam(m), UNCHANGED store
  PROVE Moved(Late)
<1>1. /\ "upsertTeam" \in Late /\ "DeleteTeam" \in Late /\ "status" \in Late
  BY DEF Late, Calls
<1> USE DEF MemoryOK, TeamCalls
<1>2. CASE GotoWith("upsertTeam", m)
  BY <1>1, <1>2, GotoWithMoves
<1>3. CASE GotoWith("DeleteTeam", m)
  BY <1>1, <1>3, GotoWithMoves
<1>4. CASE m.created /\ GotoWith("status", m)
  BY <1>1, <1>4, GotoWithMoves
<1>5. CASE Done
  BY <1>5, EndMoves
<1> QED
  BY <1>2, <1>3, <1>4, <1>5 DEF NextTeam

(* The fields of what is remembered and wanted.                            *)
LEMMA MemoryFields ==
  ASSUME TypeOK, Running
  PROVE /\ pass.mem.created \in BOOLEAN /\ pass.mem.todo \in SUBSET Teams
        /\ pass.mem.stale \in SUBSET Teams /\ pass.mem.team \in Teams \cup {NoTeam}
        /\ pass.mem.add \in SUBSET Members /\ pass.mem.drop \in SUBSET Members
        /\ pass.obj.spec \in OrgSpec /\ pass.obj.spec.profile \in Profiles
        /\ pass.obj.fin \in BOOLEAN /\ pass.obj.del \in BOOLEAN /\ pass.obj.prov \in BOOLEAN
        /\ \A t \in Teams : Wanted(t) \in Team \cup {NoTeam}
  BY PassOK DEF Memory, Org, OrgSpec, TeamMap, Wanted

(* Gitea's part of a call.                                                 *)
LEMMA ServedOK ==
  ASSUME TypeOK, Running
  PROVE /\ DeleteOrgServed => /\ orgs' \in OrgMap
                              /\ Existing' = Existing \ {pass.key}
                              /\ MadeOrgs' = MadeOrgs \ {pass.key}
        /\ CreateOrgServed => /\ orgs' \in OrgMap
                              /\ Existing' = Existing \cup {pass.key}
                              /\ MadeOrgs' = MadeOrgs \cup {pass.key}
        /\ EditOrgServed \/ (\E t \in pass.mem.stale : DeleteTeamServed(t)) =>
             orgs' \in OrgMap /\ Existing' = Existing /\ MadeOrgs' = MadeOrgs
        /\ pass.mem.team \in WantedTeams /\ (CreateTeamServed \/ EditTeamServed) =>
             orgs' \in OrgMap /\ Existing' = Existing /\ MadeOrgs' = MadeOrgs
<1>1. orgs \in OrgMap /\ pass.key \in Keys
  BY PassOK DEF TypeOK, OrgMap
<1>2. ASSUME DeleteOrgServed
      PROVE /\ orgs' \in OrgMap
            /\ Existing' = Existing \ {pass.key}
            /\ MadeOrgs' = MadeOrgs \ {pass.key}
  BY <1>1, <1>2, OrgTaken DEF DeleteOrgServed, With
<1>3. ASSUME CreateOrgServed
      PROVE /\ orgs' \in OrgMap
            /\ Existing' = Existing \cup {pass.key}
            /\ MadeOrgs' = MadeOrgs \cup {pass.key}
  <2>1. /\ NewOrganization(pass.obj.spec) \in Organization
        /\ NewOrganization(pass.obj.spec).made
    BY MemoryFields, NewOrganizationOK
  <2> QED
    BY <1>1, <1>3, <2>1, OrgAdded DEF CreateOrgServed, With
<1>4. ASSUME EditOrgServed
      PROVE orgs' \in OrgMap /\ Existing' = Existing /\ MadeOrgs' = MadeOrgs
  BY <1>1, <1>4, MemoryFields, ProfileChanged DEF EditOrgServed
<1>5. ASSUME NEW t \in pass.mem.stale, DeleteTeamServed(t)
      PROVE orgs' \in OrgMap /\ Existing' = Existing /\ MadeOrgs' = MadeOrgs
  BY <1>1, <1>5, MemoryFields, TeamChanged DEF DeleteTeamServed, HasTeam, WithTeam
<1>6. ASSUME pass.mem.team \in WantedTeams, CreateTeamServed \/ EditTeamServed
      PROVE orgs' \in OrgMap /\ Existing' = Existing /\ MadeOrgs' = MadeOrgs
  <2>1. pass.mem.team \in Teams /\ Wanted(pass.mem.team) \in Team
    BY <1>6, MemoryFields DEF WantedTeams
  <2>2. Wanted(pass.mem.team).settings \in Settings
    BY <2>1 DEF Team
  <2>3. [settings |-> Wanted(pass.mem.team).settings, members |-> {}] \in Team
    BY <2>2 DEF Team
  <2>4. CASE CreateTeamServed
    BY <1>1, <2>1, <2>3, <2>4, TeamChanged DEF CreateTeamServed, WithTeam
  <2>5. CASE EditTeamServed
    BY <1>1, <2>1, <2>2, <2>5, SettingsChanged DEF EditTeamServed
  <2> QED
    BY <1>6, <2>4, <2>5
<1> QED
  BY <1>2, <1>3, <1>4, <1>5, <1>6

LEMMA AtRuns == \A call \in Calls : At(call) => Running
  BY DEF Calls, At, Running, Idle

(* A step behind Build that leaves the organisations alone.                *)
LEMMA QuietStep ==
  ASSUME OrgInv, pass.at \in Late, Moved(Late), UNCHANGED orgs,
         UNCHANGED <<accounts, owns, instance, history, ops, crashes>>, fails' \in Nat
  PROVE OrgInv'
<1>1. orgs' \in OrgMap /\ Existing' = Existing /\ MadeOrgs' = MadeOrgs
  BY SameOrgs DEF OrgInv
<1> QED
  BY <1>1, LateStep

(* A call of CallFails, Refused and ReplyLost.                             *)
LEMMA FailsNat == OrgInv => fails \in Nat /\ fails + 1 \in Nat
  BY DEF OrgInv, TypeOK

(* AddFinalizer: the CR had no finalizer, or has it already.               *)
LEMMA AddFinalizerInv == ASSUME OrgInv, AddFinalizer PROVE OrgInv'
<1>1. /\ TypeOK /\ PassInv /\ CopiesInv /\ Running
      /\ RuntimeOK(Calls, Org, Memory) /\ Agree /\ Absent \notin Org
  BY AtRuns, OrgAssumed DEF OrgInv, AddFinalizer, TypeOK, CopiesInv, Calls
<1> DEFINE o == [pass.obj EXCEPT !.fin = TRUE]
<1>2. /\ o \in Org /\ o.fin /\ o.del = pass.obj.del /\ o.spec = pass.obj.spec
      /\ o.prov = pass.obj.prov
  BY <1>1, PassOK DEF Org
<1>3. "Build" \in Calls /\ Update(o, "Build")
  BY DEF AddFinalizer, Calls
<1> HIDE DEF o
<1>4. RuntimeOK(Calls, Org, Memory)'
  BY <1>1, <1>2, <1>3, UpdateOK
<1>5. CopiesInv'
  BY <1>1, <1>2, <1>3, UpdateCopies, UpdateHeld
  DEF CopiesInv, AddFinalizer, OnlyKubernetes, OnlyPass, history
<1>6. CASE Conflict /\ Retry
  BY <1>1, <1>6, EndStep DEF Conflict, AddFinalizer, OnlyKubernetes, OnlyPass, history,
     budget, TypeOK
<1>7. CASE Write(o) /\ pass' = [pass EXCEPT !.at = "Build", !.obj = o]
  <2>1. /\ pass'.key = pass.key /\ pass'.obj = o /\ pass'.at = "Build"
        /\ pass'.mem = pass.mem /\ pass.key \in Keys
    BY <1>1, <1>7, PassOK DEF Pass
  <2>2. /\ cr'[pass.key] = o /\ pass.obj = cr[pass.key] /\ pass.obj # Absent
        /\ o # Absent
        /\ \A k \in Keys \ {pass.key} : cr'[k] = cr[k]
    BY <1>1, <1>2, <1>7, <2>1, PassOK DEF Write, Agree, Running, RuntimeOK
  <2>3. orgs' = orgs /\ lost' = lost
    BY DEF AddFinalizer, OnlyKubernetes, OnlyPass, history
  <2>4. Protected'
    BY <1>2, <2>2, <2>3 DEF OrgInv, Protected, Exists, HasOrg
  <2>5. ProvisionedHasOrg'
    BY <1>2, <2>2, <2>3 DEF OrgInv, ProvisionedHasOrg, Exists, HasOrg
  <2>6. PassInv'
    <3>1. MemoryOK(pass.at, pass.mem) /\ ~pass.mem.created
      BY <1>1 DEF PassInv, Late, AddFinalizer, At
    <3>2. MemoryOK(pass.at, pass.mem)'
      BY <1>2, <2>1, <3>1 DEF MemoryOK, WantedTeams, Wanted, TeamCalls
    <3> QED
      BY <1>2, <2>1, <3>1, <3>2 DEF PassInv, Late
  <2>7. TypeOK'
    BY <1>4, <2>3 DEF OrgInv, TypeOK, AddFinalizer, OnlyKubernetes, OnlyPass, history, budget
  <2> QED
    BY <1>5, <2>4, <2>5, <2>6, <2>7 DEF OrgInv
<1> QED
  BY <1>3, <1>6, <1>7 DEF Update

LEMMA BuildInv == ASSUME OrgInv, Build PROVE OrgInv'
<1>1. /\ TypeOK /\ PassInv /\ CopiesInv /\ Running
      /\ UNCHANGED <<store, orgs>>
      /\ UNCHANGED <<accounts, owns, instance, history, ops, crashes, fails>>
      /\ pass.at = "Build" /\ fails \in Nat
  BY AtRuns DEF OrgInv, Build, BuildWith, Calls, OnlyLocal, OnlyKubernetes, OnlyPass,
     history, budget, TypeOK, At
<1>2. CASE Retry
  BY <1>1, <1>2, EndStep
<1>3. ASSUME NEW c \in {"deleteOrg", "GetOrg"}, Goto(c), (c = "deleteOrg") = pass.obj.del
      PROVE OrgInv'
  <2>1. MemoryOK(c, pass.mem)
    BY <1>1 DEF PassInv, MemoryOK, TeamCalls
  <2>2. {"deleteOrg", "GetOrg"} \in SUBSET Calls
    BY DEF Calls
  <2>3. Moved({"deleteOrg", "GetOrg"})
    BY <1>1, <1>3, <2>1, GotoMoves
  <2>4. RuntimeOK(Calls, Org, Memory)' /\ CopiesInv'
    BY <1>1, <2>2, <2>3, MovedCopies DEF history
  <2>5. /\ pass'.key = pass.key /\ pass'.obj = pass.obj /\ pass'.at = c
        /\ pass'.mem = pass.mem
    BY <1>1, <1>3, PassOK DEF Goto, Pass
  <2>6. MemoryOK(c, pass.mem)'
    BY <1>3, <2>1, <2>5 DEF MemoryOK, WantedTeams, Wanted
  <2>7. PassInv'
    BY <1>1, <1>3, <2>5, <2>6 DEF PassInv, Late, Running
  <2> QED
    BY <1>1, <2>4, <2>7, SameOrgs, Assemble DEF TypeOK, history
<1>4. pass.obj.del \in BOOLEAN
  BY <1>1, MemoryFields
<1> QED
  BY <1>2, <1>3, <1>4 DEF Build, BuildWith

LEMMA DeleteOrgInv == ASSUME OrgInv, DeleteOrg PROVE OrgInv'
<1>1. /\ TypeOK /\ PassInv /\ CopiesInv /\ Running
      /\ UNCHANGED store
      /\ UNCHANGED <<accounts, owns, instance, history, ops, crashes, fails>>
      /\ pass.at = "deleteOrg" /\ Goto("removeFinalizer")
  BY AtRuns DEF OrgInv, DeleteOrg, DeleteOrgServed, Calls, Answered, OnlyGitea, OnlyPass,
     history, budget, At
<1>2. /\ orgs' \in OrgMap /\ Existing' = Existing \ {pass.key}
      /\ MadeOrgs' = MadeOrgs \ {pass.key}
  BY <1>1, ServedOK DEF DeleteOrg
<1>3. MemoryOK("removeFinalizer", pass.mem)
  BY <1>1 DEF PassInv, MemoryOK, TeamCalls
<1>4. Moved({"removeFinalizer"})
  BY <1>1, <1>3, GotoMoves
<1>5. RuntimeOK(Calls, Org, Memory)' /\ CopiesInv'
  BY <1>1, <1>4, MovedCopies DEF history, Calls
<1>6. /\ pass'.key = pass.key /\ pass'.obj = pass.obj /\ pass'.at = "removeFinalizer"
      /\ pass'.mem = pass.mem
  BY <1>1, PassOK DEF Goto, Pass
<1>7. MemoryOK("removeFinalizer", pass.mem)'
  BY <1>3, <1>6 DEF MemoryOK, WantedTeams, Wanted
<1>8. PassInv'
  BY <1>1, <1>2, <1>6, <1>7 DEF PassInv, Late, Running
<1>9. Exists(pass.key) /\ cr[pass.key].prov => cr[pass.key].del
  BY <1>1, PassOK DEF PassInv, CopiesInv, FormerCopies
<1> QED
  BY <1>1, <1>2, <1>5, <1>8, <1>9, Assemble DEF TypeOK, history

(* The finalizer goes, and with it the CR.                                 *)
LEMMA RemoveFinalizerInv == ASSUME OrgInv, RemoveFinalizer PROVE OrgInv'
<1>1. /\ TypeOK /\ PassInv /\ CopiesInv /\ Running
      /\ RuntimeOK(Calls, Org, Memory) /\ Agree /\ Absent \notin Org
      /\ UNCHANGED <<orgs, accounts, owns, instance, history, ops, crashes, fails>>
      /\ pass.at = "removeFinalizer" /\ Release /\ pass.obj.del
  BY AtRuns, OrgAssumed DEF OrgInv, RemoveFinalizer, Calls, OnlyKubernetes, OnlyPass,
     history, budget, At, TypeOK, CopiesInv, PassInv
<1>2. RuntimeOK(Calls, Org, Memory)'
  BY <1>1, ReleaseOK
<1>3. CopiesInv'
  BY <1>1, ReleaseCopies, ReleaseHeld DEF CopiesInv, history
<1>4. CASE Conflict /\ Retry
  BY <1>1, <1>4, EndStep DEF Conflict, TypeOK
<1>5. CASE Write(Absent) /\ Done
  <2>1. /\ cr'[pass.key] = Absent /\ pass.key \notin MadeOrgs
        /\ \A k \in Keys \ {pass.key} : cr'[k] = cr[k]
    BY <1>1, <1>5, PassOK DEF Write, RuntimeOK, PassInv
  <2>2. Protected'
    BY <1>1, <2>1 DEF OrgInv, Protected, Exists, HasOrg, MadeOrgs
  <2>3. ProvisionedHasOrg'
    BY <1>1, <2>1 DEF OrgInv, ProvisionedHasOrg, Exists, HasOrg, history
  <2>4. PassInv'
    BY <1>5 DEF PassInv, Done, Running
  <2>5. TypeOK'
    BY <1>1, <1>2 DEF TypeOK, history
  <2> QED
    BY <1>3, <2>2, <2>3, <2>4, <2>5 DEF OrgInv
<1> QED
  BY <1>1, <1>4, <1>5 DEF Release

(* Status().Update after the organisation was created.                     *)
LEMMA StatusUpdateInv == ASSUME OrgInv, StatusUpdate PROVE OrgInv'
<1>1. /\ TypeOK /\ PassInv /\ CopiesInv /\ Running
      /\ RuntimeOK(Calls, Org, Memory) /\ Agree /\ Absent \notin Org
      /\ HeldCopies /\ FormerCopies
      /\ UNCHANGED <<orgs, accounts, owns, instance, history, ops, crashes, fails>>
      /\ pass.at = "status" /\ Done
  BY AtRuns, OrgAssumed DEF OrgInv, StatusUpdate, Calls, OnlyKubernetes, OnlyPass,
     history, budget, At, TypeOK, CopiesInv
<1>2. pass.obj.fin /\ ~pass.obj.del /\ pass.key \in Existing \cup lost
  BY <1>1 DEF PassInv, Late, Calls, MemoryOK
<1> DEFINE o == [pass.obj EXCEPT !.prov = TRUE]
<1>3. o \in Org /\ o.fin /\ o.del = pass.obj.del
  BY <1>1, <1>2, PassOK DEF Org
<1> HIDE DEF o
<1>4. CASE Conflict
  BY <1>1, <1>4, EndStep DEF Conflict, TypeOK
<1>5. CASE Write(o)
  <2>1. /\ cr'[pass.key] = o
        /\ \A k \in Keys \ {pass.key} : cr'[k] = cr[k]
    BY <1>1, <1>5, PassOK DEF Write, RuntimeOK
  <2>2. RuntimeOK(Calls, Org, Memory)'
    BY <1>1, <1>3, <1>5, WriteOK, EndOK
  <2>3. pass' = Idle
    BY <1>1 DEF Done
  <2>4. CopiesInv'
    BY <1>1, <1>3, <1>5, <2>3, WriteCopies, WriteHeld DEF CopiesInv, history
  <2>5. Protected'
    BY <1>1, <1>3, <2>1, OrgAssumed DEF OrgInv, Protected, Exists, HasOrg
  <2>6. ProvisionedHasOrg'
    BY <1>1, <1>2, <2>1 DEF OrgInv, ProvisionedHasOrg, Exists, HasOrg, history, Existing
  <2>7. PassInv'
    BY <2>3 DEF PassInv, Running
  <2>8. TypeOK'
    BY <1>1, <2>2 DEF TypeOK, history
  <2> QED
    BY <2>4, <2>5, <2>6, <2>7, <2>8 DEF OrgInv
<1> QED
  BY <1>4, <1>5 DEF StatusUpdate, o

(* The steps of a pass over an organisation that is to be there.           *)
LEMMA LateAt ==
  ASSUME OrgInv, pass.at \in Late
  PROVE /\ Running /\ TypeOK /\ PassInv
        /\ MemoryOK(pass.at, pass.mem) /\ pass.mem.todo \subseteq WantedTeams
<1>1. Running
  BY DEF Late, Calls, Running, Idle
<1> QED
  BY <1>1 DEF OrgInv, PassInv, MemoryOK

LEMMA GetOrgInv == ASSUME OrgInv, GetOrg PROVE OrgInv'
<1>1. pass.at = "GetOrg" /\ pass.at \in Late
  BY DEF GetOrg, At, Late, Calls
<1>2. ASSUME NEW c \in {"CreateOrg", "SearchOrgTeams", "EditOrg"}, Goto(c)
      PROVE Moved(Late)
  BY <1>1, <1>2, LateAt, GotoMoves
  DEF GetOrg, Answered, OnlyGitea, MemoryOK, TeamCalls, Late, Calls
<1> QED
  BY <1>1, <1>2, QuietStep, FailsNat
  DEF GetOrg, Answered, OnlyGitea, OnlyPass, budget

LEMMA EditOrgInv == ASSUME OrgInv, EditOrg PROVE OrgInv'
<1>1. pass.at = "EditOrg" /\ pass.at \in Late
  BY DEF EditOrg, EditOrgServed, At, Late, Calls
<1>2. Moved(Late)
  BY <1>1, LateAt, GotoMoves
  DEF EditOrg, Answered, OnlyGitea, MemoryOK, TeamCalls, Late, Calls
<1> QED
  BY <1>1, <1>2, LateAt, LateStep, ServedOK, FailsNat
  DEF EditOrg, Answered, OnlyGitea, OnlyPass, budget

LEMMA CreateOrgInv == ASSUME OrgInv, CreateOrg PROVE OrgInv'
<1>1. pass.at = "CreateOrg" /\ pass.at \in Late
  BY DEF CreateOrg, CreateOrgServed, At, Late, Calls
<1>2. /\ orgs' \in OrgMap /\ Existing' = Existing \cup {pass.key}
      /\ MadeOrgs' = MadeOrgs \cup {pass.key}
  BY <1>1, LateAt, ServedOK DEF CreateOrg
<1> DEFINE m == [pass.mem EXCEPT !.created = TRUE]
<1>3. m \in Memory /\ MemoryOK("SearchOrgTeams", m)
  BY <1>1, LateAt, PassOK DEF Memory, MemoryOK, TeamCalls
<1> HIDE DEF m
<1>4. Moved(Late)
  BY <1>1, <1>2, <1>3, LateAt, GotoWithMoves
  DEF CreateOrg, Answered, OnlyGitea, Late, Calls, m
<1> QED
  BY <1>1, <1>2, <1>4, LateStep, FailsNat
  DEF CreateOrg, Answered, OnlyGitea, OnlyPass, budget

LEMMA SearchOrgTeamsInv == ASSUME OrgInv, SearchOrgTeams PROVE OrgInv'
<1>1. pass.at \in Late
  BY DEF SearchOrgTeams, At, Late, Calls
<1>2. ASSUME NEW P \in Pages,
             NextTeam([pass.mem EXCEPT !.todo = {t \in Teams : Wanted(t) # NoTeam},
                                       !.stale = {t \in P : Wanted(t) = NoTeam}])
      PROVE Moved(Late)
  <2> DEFINE m == [pass.mem EXCEPT !.todo = {t \in Teams : Wanted(t) # NoTeam},
                                   !.stale = {t \in P : Wanted(t) = NoTeam}]
  <2>1. P \subseteq Teams
    BY DEF Pages, FirstPages
  <2>2. m \in Memory /\ m.created = pass.mem.created /\ m.todo \subseteq WantedTeams
    BY <1>1, <2>1, LateAt, PassOK DEF Memory, WantedTeams
  <2> HIDE DEF m
  <2> QED
    BY <1>1, <1>2, <2>2, LateAt, NextTeamMoves DEF SearchOrgTeams, Answered, OnlyGitea, m
<1> QED
  BY <1>1, <1>2, QuietStep, FailsNat
  DEF SearchOrgTeams, Answered, OnlyGitea, OnlyPass, budget

LEMMA UpsertTeamInv == ASSUME OrgInv, UpsertTeam PROVE OrgInv'
<1>1. pass.at \in Late
  BY DEF UpsertTeam, At, Late, Calls
<1>2. ASSUME NEW P \in Pages, NEW t \in pass.mem.todo,
             NEW c \in {"GetTeam", "CreateTeam"},
             GotoWith(c, [pass.mem EXCEPT !.team = t, !.found = t \in P,
                                          !.todo = pass.mem.todo \ {t}])
      PROVE Moved(Late)
  <2> DEFINE m == [pass.mem EXCEPT !.team = t, !.found = t \in P,
                                   !.todo = pass.mem.todo \ {t}]
  <2>1. t \in WantedTeams /\ t \in Teams
    BY <1>1, LateAt DEF WantedTeams
  <2>2. /\ m \in Memory /\ m.created = pass.mem.created /\ m.team = t
        /\ m.todo \subseteq WantedTeams
    <3> DEFINE b == t \in P
    <3>1. b \in BOOLEAN
      OBVIOUS
    <3>2. m = [pass.mem EXCEPT !.team = t, !.found = b, !.todo = pass.mem.todo \ {t}]
      OBVIOUS
    <3> HIDE DEF b, m
    <3> QED
      BY <1>1, <2>1, <3>1, <3>2, LateAt, PassOK DEF Memory
  <2> HIDE DEF m
  <2>3. MemoryOK(c, m)
    BY <2>1, <2>2 DEF MemoryOK
  <2>4. c \in Late
    BY DEF Late, Calls
  <2> QED
    BY <1>1, <1>2, <2>2, <2>3, <2>4, LateAt, GotoWithMoves
    DEF UpsertTeam, Answered, OnlyGitea, m
<1> QED
  BY <1>1, <1>2, QuietStep, FailsNat
  DEF UpsertTeam, Answered, OnlyGitea, OnlyPass, budget

LEMMA GetTeamInv == ASSUME OrgInv, GetTeam PROVE OrgInv'
<1>1. pass.at = "GetTeam" /\ pass.at \in Late
  BY DEF GetTeam, At, Late, Calls
<1>2. pass.mem.team \in WantedTeams
  BY <1>1, LateAt DEF MemoryOK, TeamCalls
<1>3. CASE HasTeam(pass.key, pass.mem.team)
  <2>1. Moved(Late)
    BY <1>1, <1>2, <1>3, LateAt, GotoMoves
    DEF GetTeam, Answered, OnlyGitea, MemoryOK, TeamCalls, Late, Calls
  <2> QED
    BY <1>1, <2>1, QuietStep, FailsNat DEF GetTeam, Answered, OnlyGitea, OnlyPass, budget
<1>4. CASE ~HasTeam(pass.key, pass.mem.team)
  <2> DEFINE m == [pass.mem EXCEPT !.found = FALSE]
  <2>1. m \in Memory /\ MemoryOK("CreateTeam", m) /\ m.created = pass.mem.created
    BY <1>1, <1>2, LateAt, PassOK DEF Memory, MemoryOK
  <2> HIDE DEF m
  <2>2. Moved(Late)
    BY <1>1, <1>4, <2>1, LateAt, GotoWithMoves
    DEF GetTeam, Answered, OnlyGitea, Late, Calls, m
  <2> QED
    BY <1>1, <2>2, QuietStep, FailsNat DEF GetTeam, Answered, OnlyGitea, OnlyPass, budget
<1> QED
  BY <1>3, <1>4

LEMMA CreateTeamInv == ASSUME OrgInv, CreateTeam PROVE OrgInv'
<1>1. pass.at = "CreateTeam" /\ pass.at \in Late
  BY DEF CreateTeam, CreateTeamServed, At, Late, Calls
<1>2. pass.mem.team \in WantedTeams
  BY <1>1, LateAt DEF MemoryOK, TeamCalls
<1>3. Moved(Late)
  BY <1>1, <1>2, LateAt, GotoMoves
  DEF CreateTeam, Answered, OnlyGitea, MemoryOK, TeamCalls, Late, Calls
<1> QED
  BY <1>1, <1>2, <1>3, LateAt, LateStep, ServedOK, FailsNat
  DEF CreateTeam, Answered, OnlyGitea, OnlyPass, budget

LEMMA EditTeamInv == ASSUME OrgInv, EditTeam PROVE OrgInv'
<1>1. pass.at = "EditTeam" /\ pass.at \in Late
  BY DEF EditTeam, EditTeamServed, At, Late, Calls
<1>2. pass.mem.team \in WantedTeams
  BY <1>1, LateAt DEF MemoryOK, TeamCalls
<1>3. Moved(Late)
  BY <1>1, LateAt, PassOK, NextTeamMoves DEF EditTeam, Answered, OnlyGitea
<1> QED
  BY <1>1, <1>2, <1>3, LateAt, LateStep, ServedOK, FailsNat
  DEF EditTeam, Answered, OnlyGitea, OnlyPass, budget

LEMMA DeleteTeamInv == ASSUME OrgInv, DeleteTeam PROVE OrgInv'
<1>1. pass.at \in Late
  BY DEF DeleteTeam, At, Late, Calls
<1>2. ASSUME NEW t \in pass.mem.stale, DeleteTeamServed(t),
             NextTeam([pass.mem EXCEPT !.stale = pass.mem.stale \ {t}])
      PROVE OrgInv'
  <2> DEFINE m == [pass.mem EXCEPT !.stale = pass.mem.stale \ {t}]
  <2>1. m \in Memory /\ m.created = pass.mem.created /\ m.todo \subseteq WantedTeams
    BY <1>1, LateAt, PassOK DEF Memory
  <2> HIDE DEF m
  <2>2. Moved(Late)
    BY <1>1, <1>2, <2>1, LateAt, NextTeamMoves DEF DeleteTeam, Answered, OnlyGitea, m
  <2> QED
    BY <1>1, <1>2, <2>2, LateAt, LateStep, ServedOK, FailsNat
    DEF DeleteTeam, Answered, OnlyGitea, OnlyPass, budget
<1> QED
  BY <1>2 DEF DeleteTeam

LEMMA ReconcileMembersInv == ASSUME OrgInv, ReconcileMembers PROVE OrgInv'
<1>1. pass.at = "reconcileMembers" /\ pass.at \in Late /\ HasTeam(pass.key, pass.mem.team)
  BY DEF ReconcileMembers, At, Late, Calls
<1>2. pass.mem.team \in WantedTeams /\ pass.mem.team \in Teams /\ pass.key \in Keys
  BY <1>1, LateAt, PassOK DEF MemoryOK, TeamCalls, WantedTeams
<1>3. MembersNow \in SUBSET Members /\ Wanted(pass.mem.team).members \in SUBSET Members
  BY <1>1, <1>2, LateAt, MemoryFields, OrgFields
  DEF MembersNow, WantedTeams, TypeOK, OrgMap, HasTeam, Team
<1>4. ASSUME NEW P \in FirstPages(MembersNow),
             GotoWith("memberCalls",
                      [pass.mem EXCEPT !.add = Wanted(pass.mem.team).members \ P,
                                       !.drop = P \ Wanted(pass.mem.team).members])
      PROVE Moved(Late)
  <2> DEFINE m == [pass.mem EXCEPT !.add = Wanted(pass.mem.team).members \ P,
                                   !.drop = P \ Wanted(pass.mem.team).members]
  <2>1. P \subseteq Members
    BY <1>3 DEF FirstPages
  <2>2. m \in Memory /\ MemoryOK("memberCalls", m) /\ m.created = pass.mem.created
    BY <1>1, <1>2, <1>3, <2>1, LateAt, PassOK DEF Memory, MemoryOK
  <2> HIDE DEF m
  <2> QED
    BY <1>1, <1>4, <2>2, LateAt, GotoWithMoves
    DEF ReconcileMembers, Answered, OnlyGitea, Late, Calls, m
<1> QED
  BY <1>1, <1>4, QuietStep, FailsNat
  DEF ReconcileMembers, Answered, OnlyGitea, OnlyPass, budget

(* One of the calls about members, made or failed.                         *)
LEMMA MemberMoves ==
  ASSUME OrgInv, At("memberCalls"), NEW m \in Memory, m.created = pass.mem.created,
         m.todo = pass.mem.todo, m.team = pass.mem.team, GotoWith("memberCalls", m),
         UNCHANGED store
  PROVE Moved(Late)
<1>1. pass.at = "memberCalls" /\ pass.at \in Late
  BY DEF At, Late, Calls
<1>2. MemoryOK("memberCalls", m)
  BY <1>1, LateAt DEF MemoryOK
<1> QED
  BY <1>1, <1>2, LateAt, GotoWithMoves

LEMMA MemberCallsInv == ASSUME OrgInv, MemberCalls PROVE OrgInv'
<1>1. /\ At("memberCalls") /\ pass.at = "memberCalls" /\ pass.at \in Late
      /\ UNCHANGED store /\ pass.key \in Keys /\ orgs \in OrgMap /\ accounts \subseteq Members
      /\ UNCHANGED <<accounts, owns, instance, history, ops, crashes, fails>>
      /\ fails' \in Nat
  BY LateAt, PassOK, FailsNat DEF MemberCalls, At, Late, Calls, OnlyGitea, OnlyPass, budget, TypeOK, OrgMap
<1>2. pass.mem.team \in WantedTeams /\ pass.mem.team \in Teams
  BY <1>1, LateAt DEF MemoryOK, TeamCalls, WantedTeams
<1>3. ASSUME NEW members, SetMembers(members),
             HasTeam(pass.key, pass.mem.team) => members \in SUBSET Members
      PROVE orgs' \in OrgMap /\ Existing' = Existing /\ MadeOrgs' = MadeOrgs
  <2>1. CASE HasTeam(pass.key, pass.mem.team)
    BY <1>1, <1>2, <1>3, <2>1, MembersChanged DEF SetMembers
  <2>2. CASE ~HasTeam(pass.key, pass.mem.team)
    BY <1>3, <2>2, SameOrgs DEF SetMembers, OrgInv
  <2> QED
    BY <2>1, <2>2
<1>4. HasTeam(pass.key, pass.mem.team) => MembersNow \in SUBSET Members
  BY <1>1, <1>2, OrgFields DEF MembersNow, HasTeam
<1>5. ASSUME NEW u \in pass.mem.add, SetMembers(MembersNow \cup ({u} \cap accounts)),
             GotoWith("memberCalls", [pass.mem EXCEPT !.add = pass.mem.add \ {u}])
      PROVE OrgInv'
  <2> DEFINE m == [pass.mem EXCEPT !.add = pass.mem.add \ {u}]
  <2>1. /\ m \in Memory /\ m.created = pass.mem.created /\ m.todo = pass.mem.todo
        /\ m.team = pass.mem.team
    BY <1>1, LateAt, PassOK DEF Memory
  <2> HIDE DEF m
  <2>2. Moved(Late)
    BY <1>1, <1>5, <2>1, MemberMoves DEF m
  <2>3. orgs' \in OrgMap /\ Existing' = Existing /\ MadeOrgs' = MadeOrgs
    BY <1>1, <1>3, <1>4, <1>5
  <2> QED
    BY <1>1, <2>2, <2>3, LateStep
<1>6. ASSUME NEW u \in pass.mem.drop, SetMembers(MembersNow \ {u}),
             GotoWith("memberCalls", [pass.mem EXCEPT !.drop = pass.mem.drop \ {u}])
      PROVE OrgInv'
  <2> DEFINE m == [pass.mem EXCEPT !.drop = pass.mem.drop \ {u}]
  <2>1. /\ m \in Memory /\ m.created = pass.mem.created /\ m.todo = pass.mem.todo
        /\ m.team = pass.mem.team
    BY <1>1, LateAt, PassOK DEF Memory
  <2> HIDE DEF m
  <2>2. Moved(Late)
    BY <1>1, <1>6, <2>1, MemberMoves DEF m
  <2>3. orgs' \in OrgMap /\ Existing' = Existing /\ MadeOrgs' = MadeOrgs
    BY <1>3, <1>4, <1>6
  <2> QED
    BY <1>1, <2>2, <2>3, LateStep
<1>7. CASE Goto("EditTeam") /\ UNCHANGED orgs
  <2>1. Moved(Late)
    BY <1>1, <1>2, <1>7, LateAt, GotoMoves DEF MemoryOK, TeamCalls, Late, Calls
  <2> QED
    BY <1>1, <1>7, <2>1, QuietStep
<1>8. CASE NextTeam(pass.mem) /\ UNCHANGED orgs
  <2>1. Moved(Late)
    BY <1>1, <1>8, LateAt, PassOK, NextTeamMoves
  <2> QED
    BY <1>1, <1>8, <2>1, QuietStep
<1> QED
  BY <1>5, <1>6, <1>7, <1>8 DEF MemberCalls

(* Calls that fail.                                                        *)
LEMMA RefusedInv == ASSUME OrgInv, Refused PROVE OrgInv'
<1>1. Running
  BY AtRuns DEF Refused, Calls
<1> QED
  BY <1>1, EndStep, FailsNat DEF Refused, Answered, OnlyGitea, OnlyPass, budget

LEMMA UnreachableInv == ASSUME OrgInv, Unreachable PROVE OrgInv'
<1>1. Running
  BY DEF Unreachable, GiteaCalls, Calls, Running, Idle
<1> QED
  BY <1>1, EndStep, FailsNat DEF Unreachable, OnlyLocal, OnlyKubernetes, OnlyPass, budget

LEMMA CallFailsInv == ASSUME OrgInv, CallFails PROVE OrgInv'
<1>1. /\ UNCHANGED <<store, orgs>> /\ fails' \in Nat
      /\ UNCHANGED <<accounts, owns, instance, history, ops, crashes>>
  BY FailsNat DEF CallFails, Fail, Unfailed
<1>2. CASE Running /\ (Done \/ Retry)
  BY <1>1, <1>2, EndStep
<1>3. ASSUME At("memberCalls"), NEW u,
             \/ GotoWith("memberCalls", [pass.mem EXCEPT !.add = pass.mem.add \ {u}])
             \/ GotoWith("memberCalls", [pass.mem EXCEPT !.drop = pass.mem.drop \ {u}])
      PROVE OrgInv'
  <2>1. pass.at \in Late
    BY <1>3 DEF At, Late, Calls
  <2> DEFINE m == [pass.mem EXCEPT !.add = pass.mem.add \ {u}]
             n == [pass.mem EXCEPT !.drop = pass.mem.drop \ {u}]
  <2>2. /\ m \in Memory /\ m.created = pass.mem.created /\ m.todo = pass.mem.todo
        /\ m.team = pass.mem.team
        /\ n \in Memory /\ n.created = pass.mem.created /\ n.todo = pass.mem.todo
        /\ n.team = pass.mem.team
    BY <2>1, LateAt, PassOK DEF Memory
  <2> HIDE DEF m, n
  <2>3. Moved(Late)
    BY <1>1, <1>3, <2>2, MemberMoves DEF m, n
  <2> QED
    BY <1>1, <2>1, <2>3, QuietStep
<1>4. At("status") => Running
  BY AtRuns DEF Calls
<1> QED
  BY <1>2, <1>3, <1>4 DEF CallFails

(* A lost reply: the organisation is deleted, made or changed, and the     *)
(* pass ends.                                                              *)
LEMMA ReplyLostInv == ASSUME OrgInv, ReplyLost PROVE OrgInv'
<1>1. /\ TypeOK /\ PassInv /\ CopiesInv /\ UNCHANGED store /\ fails' \in Nat /\ Retry
      /\ UNCHANGED <<accounts, owns, instance, history, ops, crashes>>
  BY FailsNat DEF ReplyLost, Fail, Unfailed, OrgInv
<1>2. CASE DeleteOrgServed
  <2>1. pass.at = "deleteOrg" /\ Running
    BY <1>2, AtRuns DEF DeleteOrgServed, At, Calls
  <2>2. /\ orgs' \in OrgMap /\ Existing' = Existing \ {pass.key}
        /\ MadeOrgs' = MadeOrgs \ {pass.key}
    BY <1>1, <1>2, <2>1, ServedOK
  <2>3. RuntimeOK(Calls, Org, Memory)' /\ CopiesInv'
    <3>1. Moved({})
      BY <1>1, <2>1, EndMoves
    <3> QED
      BY <1>1, <3>1, MovedCopies DEF history
  <2>4. PassInv'
    BY <1>1 DEF PassInv, Running, Retry
  <2>5. Exists(pass.key) /\ cr[pass.key].prov => cr[pass.key].del
    BY <1>1, <2>1, PassOK DEF PassInv, CopiesInv, FormerCopies
  <2> QED
    BY <1>1, <2>2, <2>3, <2>4, <2>5, Assemble DEF TypeOK, history
<1>3. CASE \/ EditOrgServed \/ CreateOrgServed
           \/ CreateTeamServed \/ EditTeamServed
           \/ At("DeleteTeam") /\ \E t \in pass.mem.stale : DeleteTeamServed(t)
  <2>1. pass.at \in Late
    BY <1>3 DEF EditOrgServed, CreateOrgServed, CreateTeamServed, EditTeamServed, At,
       Late, Calls
  <2>2. CreateTeamServed \/ EditTeamServed => pass.mem.team \in WantedTeams
    BY <2>1, LateAt DEF CreateTeamServed, EditTeamServed, At, MemoryOK, TeamCalls
  <2>3. /\ orgs' \in OrgMap /\ Existing \subseteq Existing'
        /\ MadeOrgs' \subseteq MadeOrgs \cup {pass.key}
    BY <1>1, <1>3, <2>1, <2>2, LateAt, ServedOK
  <2>4. Moved(Late)
    BY <1>1, <2>1, LateAt, EndMoves
  <2> QED
    BY <1>1, <2>1, <2>3, <2>4, LateStep
<1> QED
  BY <1>2, <1>3 DEF ReplyLost

-----------------------------------------------------------------------------
(* The runtime's steps, and those of people.                               *)

(* The CRs and the organisations stay as they are.                         *)
LEMMA RuntimeStep ==
  ASSUME OrgInv, cr' = cr, UNCHANGED <<gitea, history, ops, fails>>, crashes' \in Nat,
         RuntimeOK(Calls, Org, Memory)', CopiesInv', PassInv'
  PROVE OrgInv'
BY DEF OrgInv, TypeOK, gitea, history, Protected, ProvisionedHasOrg, Exists, HasOrg

LEMMA ReconcileInv == ASSUME OrgInv, NEW k \in Keys, Reconcile(k) PROVE OrgInv'
<1>1. /\ TypeOK /\ CopiesInv /\ RuntimeOK(Calls, Org, Memory)
      /\ cr' = cr /\ UNCHANGED <<gitea, history, ops, fails, crashes>> /\ crashes' \in Nat
  BY DEF OrgInv, TypeOK, Reconcile, Take, store, OnlyKubernetes, OnlyPass, gitea, history,
     budget
<1>2. PICK call \in {"Build", "addFinalizer"} :
        Take(k, call, Blank) /\ (call # "addFinalizer" => cache[k].fin)
  BY DEF Reconcile
<1>3. call \in Calls
  BY DEF Calls
<1>4. Blank \in Memory
  BY DEF Blank, Memory
<1>5. RuntimeOK(Calls, Org, Memory)'
  BY <1>1, <1>2, <1>3, <1>4, TakeOK
<1>6. CopiesInv'
  BY <1>1, <1>2, TakeCopies, TakeHeld DEF CopiesInv, history
<1>7. PassInv'
  <2>1. CASE pass' = Idle
    BY <2>1 DEF PassInv, Running
  <2>2. CASE pass' = [at |-> call, key |-> k, obj |-> cache[k],
                      current |-> k \in fresh, mem |-> Blank]
    <3>1. /\ pass'.at = call /\ pass'.obj = cache[k] /\ pass'.mem = Blank
      BY <2>2
    <3>2. MemoryOK(call, Blank)'
      BY <1>2 DEF MemoryOK, TeamCalls, Blank
    <3> QED
      BY <1>2, <3>1, <3>2 DEF PassInv, Late, Blank
  <2> QED
    BY <1>2, <2>1, <2>2 DEF Take
<1> QED
  BY <1>1, <1>5, <1>6, <1>7, RuntimeStep

LEMMA WatchInv == ASSUME OrgInv, NEW k \in Keys, Watch(k) PROVE OrgInv'
<1>1. /\ TypeOK /\ CopiesInv /\ RuntimeOK(Calls, Org, Memory)
      /\ cr' = cr /\ pass' = pass /\ Observe(k) /\ crashes' \in Nat
      /\ UNCHANGED <<gitea, history, ops, fails, crashes>> /\ Absent \notin Org
  BY OrgAssumed DEF OrgInv, TypeOK, Watch, Observe, budget
<1>2. RuntimeOK(Calls, Org, Memory)' /\ CopiesInv'
  BY <1>1, ObserveOK, ObserveCopies, ObserveHeld DEF CopiesInv, history
<1>3. PassInv'
  BY <1>1 DEF OrgInv, PassInv, Running, MemoryOK, WantedTeams, Wanted, gitea, history,
     MadeOrgs, Existing, HasOrg
<1> QED
  BY <1>1, <1>2, <1>3, RuntimeStep

LEMMA ResyncInv == ASSUME OrgInv, Resync PROVE OrgInv'
<1>1. /\ TypeOK /\ CopiesInv /\ RuntimeOK(Calls, Org, Memory)
      /\ cr' = cr /\ pass' = pass /\ Requeue /\ UNCHANGED store /\ crashes' \in Nat
      /\ UNCHANGED <<gitea, history, ops, fails, crashes>>
  BY DEF OrgInv, TypeOK, Resync, Requeue, budget, store
<1>2. RuntimeOK(Calls, Org, Memory)' /\ CopiesInv'
  BY <1>1, RequeueOK, RequeueCopies, KeepHeld DEF CopiesInv, history
<1>3. PassInv'
  BY <1>1 DEF OrgInv, PassInv, Running, MemoryOK, WantedTeams, Wanted, gitea, history,
     MadeOrgs, Existing, HasOrg
<1> QED
  BY <1>1, <1>2, <1>3, RuntimeStep

LEMMA RestartInv == ASSUME OrgInv, Restart PROVE OrgInv'
<1>1. /\ TypeOK /\ CopiesInv /\ RuntimeOK(Calls, Org, Memory)
      /\ cr' = cr /\ pass' = Idle /\ StartAgain /\ crashes' \in Nat
      /\ UNCHANGED <<gitea, history, ops, fails>>
  BY DEF OrgInv, TypeOK, Restart, StartAgain
<1>2. RuntimeOK(Calls, Org, Memory)' /\ CopiesInv'
  BY <1>1, StartAgainOK, StartAgainCopies, StartAgainHeld DEF CopiesInv, history
<1>3. PassInv'
  BY <1>1 DEF PassInv, Running
<1> QED
  BY <1>1, <1>2, <1>3, RuntimeStep

(* A CR is made, edited, marked, or goes because nothing holds it.         *)
LEMMA PutStep ==
  ASSUME OrgInv, NEW k \in Keys, NEW o \in Org \cup {Absent}, Put(k, o),
         UNCHANGED <<gitea, lost, fails, crashes>>, ops' \in Nat,
         asked \subseteq asked', asked' \subseteq Keys,
         o # Absent /\ o.del => k \in asked',
         Exists(k) /\ cr[k].fin => o # Absent /\ o.fin,
         o # Absent /\ o.prov /\ ~o.del => Exists(k) /\ cr[k].prov /\ ~cr[k].del
  PROVE OrgInv'
<1>1. /\ TypeOK /\ CopiesInv /\ PassInv /\ RuntimeOK(Calls, Org, Memory)
  BY DEF OrgInv, TypeOK
<1>2. RuntimeOK(Calls, Org, Memory)' /\ CopiesInv'
  BY <1>1, PutOK, PutCopies, PutHeld DEF CopiesInv
<1>3. /\ cr'[k] = o /\ \A j \in Keys \ {k} : cr'[j] = cr[j]
  BY <1>1 DEF Put, RuntimeOK
<1>4. PassInv'
  <2>1. /\ Running' = Running
        /\ Running => /\ pass'.at = pass.at /\ pass'.key = pass.key
                      /\ pass'.obj = pass.obj /\ pass'.mem = pass.mem
    <3>1. CASE Running /\ pass.key = k
      BY <1>1, <3>1, PassOK DEF Put, Running, Pass, Idle
    <3>2. CASE ~(Running /\ pass.key = k)
      BY <3>2 DEF Put, Running
    <3> QED
      BY <3>1, <3>2
  <2> QED
    BY <1>1, <2>1 DEF PassInv, MemoryOK, WantedTeams, Wanted, gitea, MadeOrgs, Existing,
       HasOrg
<1>5. Protected'
  BY <1>3 DEF OrgInv, Protected, gitea, Exists, HasOrg
<1>6. ProvisionedHasOrg'
  BY <1>3 DEF OrgInv, ProvisionedHasOrg, gitea, Exists, HasOrg
<1>7. TypeOK'
  BY <1>1, <1>2 DEF TypeOK, gitea
<1> QED
  BY <1>2, <1>4, <1>5, <1>6, <1>7 DEF OrgInv

LEMMA ApplyOrgInv ==
  ASSUME OrgInv, NEW k \in Keys, NEW s \in Specs, ApplyOrg(k, s)
  PROVE OrgInv'
<1>1. /\ s \in OrgSpec /\ Absent \notin Org
      /\ asked' = asked /\ asked \subseteq Keys /\ Marked \subseteq asked
      /\ UNCHANGED <<gitea, lost, fails, crashes>> /\ ops' \in Nat
      /\ cr[k] \in Org \cup {Absent}
  BY OrgAssumed DEF ApplyOrg, Operate, history, OrgInv, TypeOK, CopiesInv, RuntimeOK
<1>2. CASE ~Exists(k) /\ Put(k, [spec |-> s, fin |-> FALSE, del |-> FALSE, prov |-> FALSE])
  <2> DEFINE o == [spec |-> s, fin |-> FALSE, del |-> FALSE, prov |-> FALSE]
  <2>1. o \in Org /\ ~o.fin /\ ~o.del /\ ~o.prov
    BY <1>1 DEF Org
  <2>2. Put(k, o)
    BY <1>2
  <2> HIDE DEF o
  <2> QED
    BY <1>1, <1>2, <2>1, <2>2, PutStep
<1>3. CASE Exists(k) /\ Put(k, [cr[k] EXCEPT !.spec = s])
  <2> DEFINE o == [cr[k] EXCEPT !.spec = s]
  <2>1. o \in Org /\ o.fin = cr[k].fin /\ o.del = cr[k].del /\ o.prov = cr[k].prov
    BY <1>1, <1>3 DEF Org, Exists
  <2>2. Put(k, o)
    BY <1>3
  <2>3. cr[k].del => k \in asked
    BY <1>1, <1>3 DEF Marked, Exists
  <2> HIDE DEF o
  <2> QED
    BY <1>1, <1>3, <2>1, <2>2, <2>3, PutStep DEF Exists
<1> QED
  BY <1>2, <1>3 DEF ApplyOrg

LEMMA KubectlDeleteInv ==
  ASSUME OrgInv, NEW k \in Keys, KubectlDelete(k)
  PROVE OrgInv'
<1>1. /\ Absent \notin Org /\ asked' = asked \cup {k} /\ asked \subseteq Keys
      /\ UNCHANGED <<gitea, lost, fails, crashes>> /\ ops' \in Nat
      /\ cr[k] \in Org /\ Exists(k) /\ ~cr[k].del
      /\ Put(k, IF cr[k].fin THEN [cr[k] EXCEPT !.del = TRUE] ELSE Absent)
  BY OrgAssumed DEF KubectlDelete, PutDeleted, Operate, OrgInv, TypeOK, RuntimeOK, Exists
<1>2. CASE cr[k].fin
  <2> DEFINE o == [cr[k] EXCEPT !.del = TRUE]
  <2>1. o \in Org /\ o.fin = cr[k].fin /\ o.del
    BY <1>1 DEF Org
  <2>2. Put(k, o)
    BY <1>1, <1>2
  <2> HIDE DEF o
  <2> QED
    BY <1>1, <1>2, <2>1, <2>2, PutStep
<1>3. CASE ~cr[k].fin
  BY <1>1, <1>3, PutStep
<1> QED
  BY <1>2, <1>3

(* Somebody changes what is in Gitea; what goes is counted as lost.        *)
LEMMA OthersStep ==
  ASSUME OrgInv, UNCHANGED <<runtime, asked>>,
         ops' \in Nat, fails' \in Nat, crashes' \in Nat,
         orgs' \in OrgMap, accounts' \subseteq Members, owns' \subseteq Keys,
         instance' \in {"pending", "ready", "gone"},
         lost \subseteq lost', lost' \subseteq Keys,
         Existing \subseteq Existing' \cup lost', MadeOrgs' \subseteq MadeOrgs
  PROVE OrgInv'
<1>1. /\ TypeOK /\ CopiesInv /\ PassInv /\ UNCHANGED <<store, queue, pass>>
  BY DEF OrgInv, runtime
<1>2. RuntimeOK(Calls, Org, Memory)'
  BY <1>1 DEF TypeOK, RuntimeOK, store
<1>3. CopiesInv'
  BY <1>1, KeepCopies, KeepHeld DEF CopiesInv
<1>4. PassInv'
  BY <1>1 DEF PassInv, Running, MemoryOK, WantedTeams, Wanted
<1> QED
  BY <1>1, <1>2, <1>3, <1>4, Assemble DEF TypeOK

(* The instance becomes ready.                                             *)
LEMMA InstanceReadyInv == ASSUME OrgInv, InstanceReady PROVE OrgInv'
  BY SameOrgs, OthersStep
  DEF InstanceReady, history, budget, OrgInv, TypeOK, OrgMap

(* What other controllers do with their own.                               *)
LEMMA BesideInv ==
  ASSUME OrgInv, UNCHANGED <<runtime, history, orgs, accounts, instance>>,
         owns' \subseteq Keys, ops' \in Nat, fails' \in Nat, crashes' \in Nat
  PROVE OrgInv'
  BY SameOrgs, OthersStep DEF history, OrgInv, TypeOK, OrgMap

(* Deleting an account takes it out of the teams.                          *)
LEMMA AccountRemovedMade ==
  ASSUME orgs \in OrgMap, NEW u \in Members, AccountRemoved(u)
  PROVE /\ orgs' \in OrgMap
        /\ \A k \in Keys :
             /\ HasOrg(k) => orgs'[k] # NoOrg /\ orgs'[k].made = orgs[k].made
             /\ ~HasOrg(k) => orgs'[k] = NoOrg
<1> DEFINE tm(k) == [t \in Teams |-> IF HasTeam(k, t)
                                       THEN [orgs[k].teams[t] EXCEPT !.members = @ \ {u}]
                                       ELSE NoTeam]
<1>1. \A k \in Keys : HasOrg(k) => tm(k) \in TeamMap
  BY OrgFields DEF TeamMap, Team
<1>2. orgs' = [k \in Keys |-> IF HasOrg(k) THEN [orgs[k] EXCEPT !.teams = tm(k)] ELSE NoOrg]
  BY DEF AccountRemoved
<1> HIDE DEF tm
<1>3. \A k \in Keys :
        /\ HasOrg(k) => orgs'[k] \in Organization /\ orgs'[k].made = orgs[k].made
        /\ ~HasOrg(k) => orgs'[k] = NoOrg
  BY <1>1, <1>2, OrgFields DEF Organization
<1>4. orgs' \in OrgMap
  BY <1>2, <1>3 DEF OrgMap
<1> QED
  BY <1>3, <1>4, OrgAssumed

LEMMA PeopleInv == ASSUME OrgInv, People PROVE OrgInv'
<1>1. /\ TypeOK /\ orgs \in OrgMap /\ accounts \subseteq Members /\ owns \subseteq Keys
      /\ lost \subseteq Keys /\ instance \in {"pending", "ready", "gone"}
      /\ ops \in Nat /\ ops + 1 \in Nat /\ fails \in Nat /\ crashes \in Nat
  BY DEF OrgInv, TypeOK, OrgMap
<1>2. ASSUME NEW k \in Keys, KubectlDelete(k) PROVE OrgInv'
  BY <1>2, KubectlDeleteInv
<1>3. ASSUME NEW k \in Keys, Repository(k) PROVE OrgInv'
  BY <1>1, <1>3, SameOrgs, OthersStep DEF Repository, Operate, history
<1>4. ASSUME NEW k \in Keys, RemoveOrg(k) PROVE OrgInv'
  BY <1>1, <1>4, OrgTaken, OthersStep DEF RemoveOrg, Operate
<1>5. ASSUME NEW k \in Keys, NEW s \in Specs, ApplyOrg(k, s) PROVE OrgInv'
  BY <1>5, ApplyOrgInv
<1>6. ASSUME NEW k \in Keys, NEW p \in Profiles, RegisterOrg(k, p) PROVE OrgInv'
  <2> DEFINE o == [profile |-> p, teams |-> [t \in Teams |-> NoTeam], made |-> FALSE]
  <2>1. o \in Organization /\ ~o.made
    BY DEF Organization, TeamMap
  <2>2. orgs' = [orgs EXCEPT ![k] = o]
    BY <1>6 DEF RegisterOrg
  <2> HIDE DEF o
  <2> QED
    BY <1>1, <1>6, <2>1, <2>2, OrgAdded, OthersStep DEF RegisterOrg, Operate, history
<1>7. ASSUME NEW k \in Keys, NEW t \in Teams, RemoveTeam(k, t) PROVE OrgInv'
  BY <1>1, <1>7, TeamChanged, OthersStep DEF RemoveTeam, HasTeam, Operate, history
<1>8. ASSUME NEW u \in Members, AccountMade(u) PROVE OrgInv'
  BY <1>1, <1>8, SameOrgs, OthersStep DEF AccountMade, Operate, history
<1>9. ASSUME NEW u \in Members, AccountRemoved(u) PROVE OrgInv'
  <2>1. \A k \in Keys :
          /\ HasOrg(k) => orgs'[k] # NoOrg /\ orgs'[k].made = orgs[k].made
          /\ ~HasOrg(k) => orgs'[k] = NoOrg
    BY <1>1, <1>9, AccountRemovedMade
  <2>2. Existing' = Existing /\ MadeOrgs' = MadeOrgs
    BY <2>1 DEF Existing, MadeOrgs, HasOrg
  <2> QED
    BY <1>1, <1>9, <2>2, AccountRemovedMade, OthersStep
    DEF AccountRemoved, Operate, history
<1>10. CASE InstanceReady
  BY <1>10, InstanceReadyInv
<1>11. CASE DeleteInstance
  <2>1. orgs' \in OrgMap /\ Existing' = {} /\ MadeOrgs' = {}
    BY <1>11 DEF DeleteInstance, OrgMap, Existing, MadeOrgs, HasOrg
  <2>2. Existing \subseteq lost' /\ lost \subseteq lost' /\ lost' \subseteq Keys
    BY <1>1, <1>11 DEF DeleteInstance, Existing
  <2> QED
    BY <1>1, <1>11, <2>1, <2>2, OthersStep DEF DeleteInstance, Operate
<1> QED
  BY <1>2, <1>3, <1>4, <1>5, <1>6, <1>7, <1>8, <1>9, <1>10, <1>11 DEF People

LEMMA StutterInv == ASSUME OrgInv, UNCHANGED vars PROVE OrgInv'
<1>1. RuntimeOK(Calls, Org, Memory)' /\ UNCHANGED store /\ pass' = pass
  BY DEF vars, runtime, store, OrgInv, TypeOK, RuntimeOK
<1>2. CopiesInv' /\ PassInv'
  BY <1>1, KeepCopies, KeepHeld
  DEF vars, gitea, history, OrgInv, CopiesInv, PassInv, Running, MemoryOK, WantedTeams,
      Wanted, MadeOrgs, Existing, HasOrg
<1> QED
  BY <1>1, <1>2, RuntimeStep DEF vars, store, budget, OrgInv, TypeOK

LEMMA StepInv == ASSUME OrgInv, Step PROVE OrgInv'
BY AddFinalizerInv, BuildInv, DeleteOrgInv, RemoveFinalizerInv, GetOrgInv, EditOrgInv,
   CreateOrgInv, SearchOrgTeamsInv, UpsertTeamInv, GetTeamInv, CreateTeamInv, EditTeamInv,
   DeleteTeamInv, ReconcileMembersInv, MemberCallsInv, StatusUpdateInv, RefusedInv,
   UnreachableInv
DEF Step

LEMMA NextInv == ASSUME OrgInv, [Next]_vars PROVE OrgInv'
BY ReconcileInv, WatchInv, StepInv, CallFailsInv, ReplyLostInv, RestartInv, ResyncInv,
   PeopleInv, StutterInv
DEF Next

LEMMA InitInv == Init => OrgInv
<1> SUFFICES ASSUME Init PROVE OrgInv
  OBVIOUS
<1>1. RuntimeOK(Calls, Org, Memory) /\ Agree /\ Marked = {} /\ HeldCopies /\ FormerCopies
  BY RuntimeInitOK, InitCopies, InitHeld DEF Init
<1>2. TypeOK
  BY <1>1 DEF Init, TypeOK
<1>3. ProvisionedHasOrg /\ Protected
  BY DEF Init, RuntimeInit, ProvisionedHasOrg, Protected, Exists, HasOrg
<1>4. PassInv
  BY DEF Init, RuntimeInit, PassInv, Running
<1> QED
  BY <1>1, <1>2, <1>3, <1>4 DEF OrgInv, CopiesInv

LEMMA OrgInvariant == Spec => []OrgInv
BY InitInv, NextInv, PTL DEF Spec

-----------------------------------------------------------------------------
(* The theorems.                                                           *)

(* Type correctness of the Org controller's state.                         *)
THEOREM OrgTypes == Spec => []TypeOK
BY OrgInvariant, PTL DEF OrgInv

(* No organisation that CreateOrg made is ever without a CR that carries   *)
(* the finalizer, because AddFinalizer is the first call of every pass.    *)
THEOREM OrgProtected == Spec => []Protected
BY OrgInvariant, PTL DEF OrgInv

(* Status.Provisioned is true of every CR that is not being deleted.       *)
THEOREM OrgProvisionedTruth == Spec => []ProvisionedHasOrg
BY OrgInvariant, PTL DEF OrgInv

-----------------------------------------------------------------------------
(* Every step is one of ManagedResource's or changes nothing of what that  *)
(* one sees.                                                               *)

There == {k \in Keys : Exists(k)}
Held == {k \in Keys : Exists(k) /\ cr[k].fin}
Seen == [Managed!Next]_(Managed!managed)

LEMMA ManagedState ==
  /\ Managed!managed = <<There, Held, MadeOrgs, asked, lost>>
  /\ (Managed!managed)' = <<There', Held', MadeOrgs', asked', lost'>>
  BY DEF Managed!managed, There, Held, MadeOrgs

LEMMA Quiet ==
  ASSUME cr' = cr, MadeOrgs' = MadeOrgs, UNCHANGED history
  PROVE Seen
<1>1. There' = There /\ Held' = Held
  BY DEF There, Held, Exists
<1> QED
  BY <1>1, ManagedState DEF Seen, history

LEMMA QuietCalls ==
  ASSUME OrgInv,
         \/ \E k \in Keys : Reconcile(k) \/ Watch(k)
         \/ Build \/ GetOrg \/ SearchOrgTeams \/ UpsertTeam \/ GetTeam \/ ReconcileMembers
         \/ Refused \/ Unreachable \/ CallFails \/ Restart \/ Resync
         \/ UNCHANGED vars
  PROVE Seen
<1>1. cr' = cr /\ orgs' = orgs /\ UNCHANGED history
  BY DEF Reconcile, Watch, Take, Observe, Build, BuildWith, GetOrg, SearchOrgTeams, UpsertTeam,
     GetTeam, ReconcileMembers, Refused, Unreachable, CallFails, Restart, StartAgain,
     Resync, Requeue, OnlyLocal, OnlyKubernetes, OnlyGitea, OnlyPass, Answered, Unfailed,
     store, gitea, vars, runtime
<1>2. MadeOrgs' = MadeOrgs
  BY <1>1 DEF MadeOrgs, HasOrg
<1> QED
  BY <1>1, <1>2, Quiet

(* The calls about profiles, teams and members leave the organisations     *)
(* there are.                                                              *)
LEMMA SameOrgsChanged ==
  ASSUME OrgInv, EditOrg \/ CreateTeam \/ EditTeam \/ DeleteTeam \/ MemberCalls
  PROVE Existing' = Existing /\ MadeOrgs' = MadeOrgs
<1>1. pass.at \in Late
  BY DEF EditOrg, CreateTeam, EditTeam, DeleteTeam, MemberCalls, EditOrgServed,
     CreateTeamServed, EditTeamServed, At, Late, Calls
<1>2. CASE EditOrg \/ CreateTeam \/ EditTeam \/ DeleteTeam
  <2>1. CreateTeamServed \/ EditTeamServed => pass.mem.team \in WantedTeams
    BY <1>1, LateAt DEF CreateTeamServed, EditTeamServed, At, MemoryOK, TeamCalls
  <2> QED
    BY <1>1, <1>2, <2>1, LateAt, ServedOK DEF EditOrg, CreateTeam, EditTeam, DeleteTeam
<1>3. CASE MemberCalls
  <2>1. /\ pass.key \in Keys /\ orgs \in OrgMap /\ accounts \subseteq Members
    BY <1>1, LateAt, PassOK DEF TypeOK, OrgMap
  <2>2. pass.mem.team \in Teams
    BY <1>1, <1>3, LateAt DEF MemberCalls, At, MemoryOK, TeamCalls, WantedTeams
  <2>3. HasTeam(pass.key, pass.mem.team) => MembersNow \in SUBSET Members
    BY <2>1, <2>2, OrgFields DEF MembersNow, HasTeam
  <2>4. ASSUME NEW members, SetMembers(members),
               HasTeam(pass.key, pass.mem.team) => members \in SUBSET Members
        PROVE Existing' = Existing /\ MadeOrgs' = MadeOrgs
    BY <2>1, <2>2, <2>4, <1>1, LateAt, MembersChanged, SameOrgs DEF SetMembers
  <2> QED
    BY <1>1, <1>3, <2>1, <2>3, <2>4, LateAt, SameOrgs DEF MemberCalls
<1> QED
  BY <1>2, <1>3

LEMMA QuietChanges ==
  ASSUME OrgInv, EditOrg \/ CreateTeam \/ EditTeam \/ DeleteTeam \/ MemberCalls
  PROVE Seen
<1>1. cr' = cr /\ UNCHANGED history
  BY DEF EditOrg, CreateTeam, EditTeam, DeleteTeam, MemberCalls, Answered, OnlyGitea,
     OnlyPass, store
<1> QED
  BY <1>1, SameOrgsChanged, Quiet

(* The organisation of a CR with the finalizer is made.                    *)
LEMMA MakesManaged ==
  ASSUME OrgInv, CreateOrgServed, cr' = cr, UNCHANGED history
  PROVE Seen
<1>1. pass.at \in Late
  BY DEF CreateOrgServed, At, Late, Calls
<1>2. pass.key \in Keys /\ MadeOrgs' = MadeOrgs \cup {pass.key}
  BY <1>1, LateAt, PassOK, ServedOK
<1>3. pass.key \in Held
  BY <1>1, <1>2, LateAt DEF OrgInv, PassInv, CopiesInv, HeldCopies, Held, Late
<1>4. There' = There /\ Held' = Held
  BY DEF There, Held, Exists
<1>5. PICK k \in Keys : k = pass.key
  BY <1>2
<1>6. Managed!Make(k)
  BY <1>5, <1>2, <1>3, <1>4 DEF Managed!Make, There, Held, MadeOrgs, history
<1> QED
  BY <1>6 DEF Seen, Managed!Next

(* It is deleted, for a CR somebody asked to delete.                       *)
LEMMA DestroysManaged ==
  ASSUME OrgInv, DeleteOrgServed, cr' = cr, UNCHANGED history
  PROVE Seen
<1>1. /\ pass.at = "deleteOrg" /\ Running /\ TypeOK /\ pass.key \in Keys /\ pass.obj.del
  BY AtRuns, PassOK DEF DeleteOrgServed, At, Calls, OrgInv, PassInv
<1>2. MadeOrgs' = MadeOrgs \ {pass.key}
  BY <1>1, ServedOK
<1>3. pass.key \in asked
  BY <1>1 DEF OrgInv, CopiesInv, Marked, Running
<1>4. There' = There /\ Held' = Held
  BY DEF There, Held, Exists
<1>5. CASE pass.key \in MadeOrgs
  <2>1. PICK k \in Keys : k = pass.key
    BY <1>1
  <2>2. {k} \cap asked # {}
    BY <2>1, <1>3
  <2>3. Managed!Destroy(k)
    BY <2>1, <2>2, <1>2, <1>4, <1>5 DEF Managed!Destroy, There, Held, MadeOrgs, history
  <2> QED
    BY <2>3 DEF Seen, Managed!Next
<1>6. CASE pass.key \notin MadeOrgs
  BY <1>2, <1>6, Quiet
<1> QED
  BY <1>5, <1>6

LEMMA ReplyLostManaged == ASSUME OrgInv, ReplyLost PROVE Seen
<1>1. cr' = cr /\ UNCHANGED history
  BY DEF ReplyLost, Unfailed, store
<1>2. CASE EditOrgServed \/ CreateTeamServed \/ EditTeamServed
           \/ \E t \in pass.mem.stale : DeleteTeamServed(t)
  <2>1. pass.at \in Late
    BY <1>2 DEF EditOrgServed, CreateTeamServed, EditTeamServed, DeleteTeamServed, At,
       Late, Calls
  <2>2. CreateTeamServed \/ EditTeamServed => pass.mem.team \in WantedTeams
    BY <2>1, LateAt DEF CreateTeamServed, EditTeamServed, At, MemoryOK, TeamCalls
  <2> QED
    BY <1>1, <1>2, <2>1, <2>2, LateAt, ServedOK, Quiet
<1> QED
  BY <1>1, <1>2, MakesManaged, DestroysManaged DEF ReplyLost

LEMMA AddFinalizerManaged == ASSUME OrgInv, AddFinalizer PROVE Seen
<1>1. /\ Running /\ Agree /\ RuntimeOK(Calls, Org, Memory) /\ pass.key \in Keys
      /\ pass.obj \in Org /\ Absent \notin Org /\ orgs' = orgs /\ UNCHANGED history
  BY AtRuns, PassOK, OrgAssumed
  DEF AddFinalizer, Calls, OrgInv, CopiesInv, TypeOK, OnlyKubernetes, OnlyPass
<1>2. MadeOrgs' = MadeOrgs
  BY <1>1 DEF MadeOrgs, HasOrg
<1> DEFINE o == [pass.obj EXCEPT !.fin = TRUE]
<1>3. o \in Org /\ o.fin
  BY <1>1 DEF Org
<1>4. Write(o) \/ Conflict
  BY DEF AddFinalizer, Update
<1> HIDE DEF o
<1>5. CASE Write(o)
  <2>1. /\ cr[pass.key] = pass.obj /\ cr'[pass.key] = o
        /\ \A k \in Keys \ {pass.key} : cr'[k] = cr[k]
    BY <1>1, <1>5 DEF Write, Agree, Running, RuntimeOK
  <2>2. There' = There /\ Held' = Held \cup {pass.key} /\ pass.key \in There
    BY <1>1, <1>3, <2>1 DEF There, Held, Exists
  <2>3. PICK k \in Keys : k = pass.key
    BY <1>1
  <2>4. Managed!Hold(k)
    BY <2>3, <1>1, <1>2, <2>2 DEF Managed!Hold, There, Held, MadeOrgs, history
  <2> QED
    BY <2>4 DEF Seen, Managed!Next
<1>6. CASE Conflict
  BY <1>1, <1>2, <1>6, Quiet DEF Conflict, store
<1> QED
  BY <1>4, <1>5, <1>6

LEMMA RemoveFinalizerManaged == ASSUME OrgInv, RemoveFinalizer PROVE Seen
<1>1. /\ Running /\ Agree /\ RuntimeOK(Calls, Org, Memory) /\ pass.key \in Keys
      /\ pass.obj \in Org /\ Absent \notin Org /\ orgs' = orgs /\ UNCHANGED history
      /\ pass.obj.fin /\ pass.obj.del /\ pass.key \notin MadeOrgs /\ Marked \subseteq asked
  BY AtRuns, PassOK, OrgAssumed
  DEF RemoveFinalizer, At, Calls, OrgInv, PassInv, CopiesInv, TypeOK, OnlyKubernetes, OnlyPass
<1>2. MadeOrgs' = MadeOrgs
  BY <1>1 DEF MadeOrgs, HasOrg
<1>3. pass.key \in asked
  BY <1>1 DEF Marked, Running
<1>4. CASE Write(Absent)
  <2>1. /\ cr[pass.key] = pass.obj /\ cr'[pass.key] = Absent
        /\ \A k \in Keys \ {pass.key} : cr'[k] = cr[k]
    BY <1>1, <1>4 DEF Write, Agree, Running, RuntimeOK
  <2>2. /\ There' = There \ {pass.key} /\ Held' = Held \ {pass.key} /\ pass.key \in Held
    BY <1>1, <2>1 DEF There, Held, Exists
  <2>3. PICK k \in Keys : k = pass.key
    BY <1>1
  <2>4. Managed!Release(k)
    BY <2>3, <1>1, <1>2, <1>3, <2>2 DEF Managed!Release, There, Held, MadeOrgs, history
  <2> QED
    BY <2>4 DEF Seen, Managed!Next
<1>5. CASE Conflict
  BY <1>1, <1>2, <1>5, Quiet DEF Conflict, store
<1> QED
  BY <1>4, <1>5 DEF RemoveFinalizer, Release

LEMMA StatusUpdateManaged == ASSUME OrgInv, StatusUpdate PROVE Seen
<1>1. /\ Running /\ Agree /\ RuntimeOK(Calls, Org, Memory) /\ pass.key \in Keys
      /\ pass.obj \in Org /\ Absent \notin Org /\ orgs' = orgs /\ UNCHANGED history
  BY AtRuns, PassOK, OrgAssumed
  DEF StatusUpdate, Calls, OrgInv, CopiesInv, TypeOK, OnlyKubernetes, OnlyPass
<1>2. MadeOrgs' = MadeOrgs
  BY <1>1 DEF MadeOrgs, HasOrg
<1> DEFINE o == [pass.obj EXCEPT !.prov = TRUE]
<1>3. o \in Org /\ o.fin = pass.obj.fin
  BY <1>1 DEF Org
<1>4. Write(o) \/ Conflict
  BY DEF StatusUpdate
<1> HIDE DEF o
<1>5. CASE Write(o)
  <2>1. /\ cr[pass.key] = pass.obj /\ cr'[pass.key] = o
        /\ \A k \in Keys \ {pass.key} : cr'[k] = cr[k]
    BY <1>1, <1>5 DEF Write, Agree, Running, RuntimeOK
  <2>2. There' = There /\ Held' = Held
    BY <1>1, <1>3, <2>1 DEF There, Held, Exists
  <2> QED
    BY <1>1, <1>2, <2>2, ManagedState DEF Seen, history
<1>6. CASE Conflict
  BY <1>1, <1>2, <1>6, Quiet DEF Conflict, store
<1> QED
  BY <1>4, <1>5, <1>6

LEMMA PeopleManaged == ASSUME OrgInv, People PROVE Seen
<1>1. /\ TypeOK /\ orgs \in OrgMap /\ Absent \notin Org
      /\ cr \in [Keys -> Org \cup {Absent}]
  BY OrgAssumed DEF OrgInv, TypeOK, OrgMap, RuntimeOK
<1>2. ASSUME NEW k \in Keys, KubectlDelete(k) PROVE Seen
  <2>1. /\ Exists(k) /\ cr[k] \in Org /\ asked' = asked \cup {k} /\ lost' = lost
        /\ \A j \in Keys \ {k} : cr'[j] = cr[j]
        /\ cr'[k] = IF cr[k].fin THEN [cr[k] EXCEPT !.del = TRUE] ELSE Absent
        /\ orgs' = orgs
    BY <1>1, <1>2 DEF KubectlDelete, PutDeleted, Put, Exists, gitea
  <2>2. cr[k].fin => cr'[k] \in Org /\ cr'[k].fin
    BY <2>1 DEF Org
  <2>3. /\ There' = (IF k \in Held THEN There ELSE There \ {k})
        /\ Held' = Held /\ k \in There
    BY <1>1, <2>1, <2>2 DEF There, Held, Exists
  <2>4. MadeOrgs' = MadeOrgs
    BY <2>1 DEF MadeOrgs, HasOrg
  <2>5. Managed!Ask(k)
    BY <2>1, <2>3, <2>4 DEF Managed!Ask, There, Held, MadeOrgs
  <2> QED
    BY <2>5 DEF Seen, Managed!Next
<1>3. ASSUME NEW k \in Keys, NEW s \in Specs, ApplyOrg(k, s) PROVE Seen
  <2>1. /\ \A j \in Keys \ {k} : cr'[j] = cr[j]
        /\ orgs' = orgs /\ UNCHANGED history /\ s \in OrgSpec
    BY <1>1, <1>3, OrgAssumed DEF ApplyOrg, Put, gitea
  <2>2. MadeOrgs' = MadeOrgs
    BY <2>1 DEF MadeOrgs, HasOrg
  <2>3. CASE ~Exists(k) /\ Put(k, [spec |-> s, fin |-> FALSE, del |-> FALSE, prov |-> FALSE])
    <3> DEFINE o == [spec |-> s, fin |-> FALSE, del |-> FALSE, prov |-> FALSE]
    <3>1. o \in Org /\ ~o.fin
      BY <2>1 DEF Org
    <3>2. cr'[k] = o
      BY <1>1, <2>3 DEF Put
    <3> HIDE DEF o
    <3>3. There' = There \cup {k} /\ Held' = Held /\ k \notin There
      BY <1>1, <2>1, <2>3, <3>1, <3>2 DEF There, Held, Exists
    <3>4. Managed!Declare(k)
      BY <2>1, <2>2, <3>3 DEF Managed!Declare, There, Held, MadeOrgs, history
    <3> QED
      BY <3>4 DEF Seen, Managed!Next
  <2>4. CASE Exists(k) /\ Put(k, [cr[k] EXCEPT !.spec = s])
    <3> DEFINE o == [cr[k] EXCEPT !.spec = s]
    <3>1. o \in Org /\ o.fin = cr[k].fin
      BY <1>1, <2>1, <2>4 DEF Org, Exists
    <3>2. cr'[k] = o
      BY <1>1, <2>4 DEF Put
    <3> HIDE DEF o
    <3>3. There' = There /\ Held' = Held
      BY <1>1, <2>1, <2>4, <3>1, <3>2 DEF There, Held, Exists
    <3> QED
      BY <2>1, <2>2, <3>3, ManagedState DEF Seen, history
  <2> QED
    BY <1>3, <2>3, <2>4 DEF ApplyOrg
<1>4. ASSUME cr' = cr, asked' = asked, NEW K \in SUBSET Keys, lost' = lost \cup K,
             MadeOrgs' = MadeOrgs \ K
      PROVE Seen
  <2>1. There' = There /\ Held' = Held
    BY <1>4 DEF There, Held, Exists
  <2>2. Managed!Lose(K)
    BY <1>4, <2>1 DEF Managed!Lose, There, Held, MadeOrgs
  <2> QED
    BY <2>2 DEF Seen, Managed!Next
<1>5. ASSUME NEW k \in Keys, RemoveOrg(k) PROVE Seen
  <2>1. /\ cr' = cr /\ asked' = asked /\ lost' = lost \cup {k} /\ MadeOrgs' = MadeOrgs \ {k}
    BY <1>1, <1>5, OrgTaken DEF RemoveOrg, runtime, store
  <2>2. {k} \in SUBSET Keys
    OBVIOUS
  <2> QED
    BY <1>4, <2>1, <2>2
<1>6. CASE DeleteInstance
  <2>1. MadeOrgs' = MadeOrgs \ Existing /\ Existing \in SUBSET Keys
    BY <1>6 DEF DeleteInstance, Existing, MadeOrgs, HasOrg
  <2> QED
    BY <1>4, <1>6, <2>1 DEF DeleteInstance, runtime, store, Existing
<1>7. ASSUME NEW k \in Keys, NEW p \in Profiles, RegisterOrg(k, p) PROVE Seen
  <2> DEFINE o == [profile |-> p, teams |-> [t \in Teams |-> NoTeam], made |-> FALSE]
  <2>1. o \in Organization /\ ~o.made
    BY DEF Organization, TeamMap
  <2>2. orgs' = [orgs EXCEPT ![k] = o]
    BY <1>7 DEF RegisterOrg
  <2> HIDE DEF o
  <2>3. MadeOrgs' = MadeOrgs \ {k} /\ k \notin MadeOrgs
    BY <1>1, <1>7, <2>1, <2>2, OrgAdded DEF RegisterOrg, MadeOrgs
  <2> QED
    BY <1>7, <2>3, Quiet DEF RegisterOrg, runtime, store
<1>8. ASSUME NEW k \in Keys, NEW t \in Teams, RemoveTeam(k, t) PROVE Seen
  BY <1>1, <1>8, TeamChanged, Quiet DEF RemoveTeam, HasTeam, runtime, store
<1>9. ASSUME NEW u \in Members, AccountRemoved(u) PROVE Seen
  <2>1. \A k \in Keys :
          /\ HasOrg(k) => orgs'[k] # NoOrg /\ orgs'[k].made = orgs[k].made
          /\ ~HasOrg(k) => orgs'[k] = NoOrg
    BY <1>1, <1>9, AccountRemovedMade
  <2>2. MadeOrgs' = MadeOrgs
    BY <2>1 DEF MadeOrgs, HasOrg
  <2> QED
    BY <1>9, <2>2, Quiet DEF AccountRemoved, runtime, store
<1>10. ASSUME cr' = cr, orgs' = orgs, UNCHANGED history PROVE Seen
  BY <1>1, <1>10, SameOrgs, Quiet
<1>11. ASSUME \/ \E k \in Keys : Repository(k)
              \/ \E u \in Members : AccountMade(u)
              \/ InstanceReady
       PROVE Seen
  BY <1>10, <1>11 DEF Repository, AccountMade, InstanceReady, runtime, store
<1> QED
  BY <1>2, <1>3, <1>5, <1>6, <1>7, <1>8, <1>9, <1>11 DEF People

LEMMA NextManaged == ASSUME OrgInv, [Next]_vars PROVE Seen
<1>1. CASE Step
  BY <1>1, QuietCalls, QuietChanges, MakesManaged, DestroysManaged, AddFinalizerManaged,
     RemoveFinalizerManaged, StatusUpdateManaged
  DEF Step, CreateOrg, DeleteOrg, Answered, OnlyGitea, OnlyPass, store
<1> QED
  BY <1>1, QuietCalls, ReplyLostManaged, PeopleManaged DEF Next

(* The Org controller implements ManagedResource: its CRs, finalizers and  *)
(* organisations take only the steps that one allows.                      *)
THEOREM OrgImplementsManaged == Spec => ImplementsManaged
<1>1. Init => Managed!Init
  BY DEF Init, RuntimeInit, Managed!Init, Exists, HasOrg
<1>2. OrgInv /\ [Next]_vars => [Managed!Next]_(Managed!managed)
  BY NextManaged DEF Seen
<1> QED
  BY <1>1, <1>2, OrgInvariant, PTL DEF Spec, ImplementsManaged, Managed!Spec

(* What the promises of ManagedResource, finalizer first, amount to: no    *)
(* step that they allow takes a finalizer from an object or a CR from a    *)
(* finalizer.                                                              *)
LEMMA NothingLeftStep ==
  ASSUME Managed!NothingLeftBehind, [Managed!Next]_(Managed!managed)
  PROVE  (Managed!NothingLeftBehind)'
<1> DEFINE there == {k \in Keys : Exists(k)}
           held == {k \in Keys : Exists(k) /\ cr[k].fin}
           thing == {k \in Keys : HasOrg(k) /\ orgs[k].made}
<1>0. (Managed!NothingLeftBehind <=> thing \subseteq held /\ held \subseteq there)
      /\ ((Managed!NothingLeftBehind)' <=> thing' \subseteq held' /\ held' \subseteq there')
  BY DEF Managed!NothingLeftBehind
<1> SUFFICES thing' \subseteq held' /\ held' \subseteq there'
  BY <1>0
<1>1. ASSUME NEW k \in Keys, Managed!Declare(k) \/ Managed!Hold(k) \/ Managed!Make(k)
      PROVE thing' \subseteq held' /\ held' \subseteq there'
  <2>1. \/ there \subseteq there' /\ thing' = thing /\ held' = held
        \/ there' = there /\ thing' = thing /\ k \in there /\ held' = held \cup {k}
        \/ there' = there /\ held' = held /\ k \in held /\ thing' = thing \cup {k}
    BY <1>1 DEF Managed!Declare, Managed!Hold, Managed!Make
  <2> HIDE DEF there, held, thing
  <2> QED
    BY <1>0, <2>1
<1>2. ASSUME NEW k \in Keys, Managed!Ask(k) \/ Managed!Destroy(k) \/ Managed!Release(k)
      PROVE thing' \subseteq held' /\ held' \subseteq there'
  <2>1. \/ held' = held /\ thing' = thing /\ there \subseteq there' \cup ({k} \ held)
        \/ there' = there /\ held' = held /\ thing' = thing \ {k}
        \/ /\ k \notin thing /\ thing' = thing
           /\ there' = there \ {k} /\ held' = held \ {k}
    BY <1>2 DEF Managed!Ask, Managed!Destroy, Managed!Release
  <2> HIDE DEF there, held, thing
  <2> QED
    BY <1>0, <2>1
<1>3. ASSUME NEW K \in SUBSET Keys, Managed!Lose(K)
      PROVE thing' \subseteq held' /\ held' \subseteq there'
  <2>1. thing' = thing \ K /\ held' = held /\ there' = there
    BY <1>3 DEF Managed!Lose
  <2> HIDE DEF there, held, thing
  <2> QED
    BY <1>0, <2>1
<1>4. CASE UNCHANGED Managed!managed
  <2>1. thing' = thing /\ held' = held /\ there' = there
    BY <1>4 DEF Managed!managed
  <2> QED
    BY <1>0, <2>1
<1> QED
  BY <1>1, <1>2, <1>3, <1>4 DEF Managed!Next

(* A controller that implements ManagedResource with the finalizer first   *)
(* leaves no object behind: each has its CR, and that has the finalizer.   *)
THEOREM ManagedLeavesNothing == ImplementsManaged => []Managed!NothingLeftBehind
<1>1. Managed!Init => Managed!NothingLeftBehind
  BY DEF Managed!Init, Managed!NothingLeftBehind
<1>2. Managed!NothingLeftBehind /\ [Managed!Next]_(Managed!managed)
        => (Managed!NothingLeftBehind)'
  BY NothingLeftStep
<1> QED
  BY <1>1, <1>2, PTL DEF ImplementsManaged, Managed!Spec

(* So the Org controller leaves no organisation behind.                    *)
THEOREM OrgLeavesNothing == Spec => []Managed!NothingLeftBehind
BY OrgImplementsManaged, ManagedLeavesNothing, PTL

-----------------------------------------------------------------------------
(* What the controller does to organisations, for those who depend on      *)
(* them: one that owns repositories stays, and none comes but by its own   *)
(* hand.                                                                   *)
Undisturbed ==
  /\ owns \cap Existing \subseteq Existing'
  /\ Existing' \ MadeOrgs' \subseteq Existing \ MadeOrgs

LEMMA ServedUndisturbed ==
  ASSUME OrgInv, DeleteOrgServed \/ CreateOrgServed
  PROVE Undisturbed
<1>1. Running /\ TypeOK
  BY AtRuns DEF DeleteOrgServed, CreateOrgServed, Calls, OrgInv
<1>2. CASE DeleteOrgServed
  BY <1>1, <1>2, ServedOK DEF DeleteOrgServed, Undisturbed
<1>3. CASE CreateOrgServed
  BY <1>1, <1>3, ServedOK DEF Undisturbed
<1> QED
  BY <1>2, <1>3

LEMMA ReplyUndisturbed == ASSUME OrgInv, ReplyLost PROVE Undisturbed
<1>1. CASE EditOrgServed \/ CreateTeamServed \/ EditTeamServed
           \/ \E t \in pass.mem.stale : DeleteTeamServed(t)
  <2>1. pass.at \in Late
    BY <1>1 DEF EditOrgServed, CreateTeamServed, EditTeamServed, DeleteTeamServed, At,
       Late, Calls
  <2>2. CreateTeamServed \/ EditTeamServed => pass.mem.team \in WantedTeams
    BY <2>1, LateAt DEF CreateTeamServed, EditTeamServed, At, MemoryOK, TeamCalls
  <2> QED
    BY <1>1, <2>1, <2>2, LateAt, ServedOK DEF Undisturbed
<1> QED
  BY <1>1, ServedUndisturbed DEF ReplyLost

LEMMA StepUndisturbed ==
  ASSUME OrgInv, Step \/ CallFails \/ ReplyLost PROVE Undisturbed
<1>1. CASE orgs' = orgs
  BY <1>1 DEF Undisturbed, Existing, MadeOrgs, HasOrg
<1>2. CASE EditOrg \/ CreateTeam \/ EditTeam \/ DeleteTeam \/ MemberCalls
  BY <1>2, SameOrgsChanged DEF Undisturbed
<1>3. CASE AddFinalizer \/ Build \/ RemoveFinalizer \/ GetOrg \/ SearchOrgTeams
           \/ UpsertTeam \/ GetTeam \/ ReconcileMembers \/ StatusUpdate \/ Refused
           \/ Unreachable \/ CallFails
  BY <1>1, <1>3
  DEF AddFinalizer, Build, BuildWith, RemoveFinalizer, GetOrg, SearchOrgTeams, UpsertTeam,
      GetTeam, ReconcileMembers, StatusUpdate, Refused, Unreachable, CallFails,
      OnlyLocal, OnlyKubernetes
<1>4. CASE DeleteOrg \/ CreateOrg
  BY <1>4, ServedUndisturbed DEF DeleteOrg, CreateOrg
<1> QED
  BY <1>2, <1>3, <1>4, ReplyUndisturbed DEF Step

=============================================================================
