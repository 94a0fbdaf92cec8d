---------------------------- MODULE OrgController ----------------------------
(***************************************************************************)
(* OrgReconciler (internal/controller/org_controller.go): organisations,   *)
(* their teams and the members of those, one action per Gitea or           *)
(* Kubernetes call.  Organisations of one instance are named after their   *)
(* CR; all CRs of one namespace.                                           *)
(***************************************************************************)
EXTENDS ControllerRuntime

CONSTANTS
  Profiles,    \* values of the fields compare looks at
  Unset,       \* profiles without visibility: they never compare equal
  Teams,       \* names of teams
  Settings,    \* values of a team's permission, description and flags
  Members,     \* names of accounts
  Specs,       \* the specs people write (bounds the input)
  Owners,      \* the team that Gitea adds to a new organisation
  PageSize,    \* entries on the first page of a list, the only one read
  NoTeam,      \* no such team
  NoOrg,       \* no such organisation
  MaxOps,      \* bound: actions of people and of other controllers
  MaxFail,     \* bound: failed calls
  MaxCrash     \* bound: restarts of the operator

Team == [settings : Settings, members : SUBSET Members]
TeamMap == [Teams -> Team \cup {NoTeam}]
OrgSpec == [profile : Profiles, teams : TeamMap]

(* "prov" is status.provisioned.                                           *)
Org == [spec : OrgSpec, fin : BOOLEAN, del : BOOLEAN, prov : BOOLEAN]

(* "made" is history: the operator created it.                             *)
Organization == [profile : Profiles, teams : TeamMap, made : BOOLEAN]

(* What a pass remembers: whether it created the organisation, the teams   *)
(* still to upsert and to delete, the team at hand, whether that one was   *)
(* found, and the members still to add to it and to drop.                  *)
Memory == [created : BOOLEAN, todo : SUBSET Teams, stale : SUBSET Teams,
           team : Teams \cup {NoTeam}, found : BOOLEAN,
           add : SUBSET Members, drop : SUBSET Members]

Blank == [created |-> FALSE, todo |-> {}, stale |-> {}, team |-> NoTeam,
          found |-> FALSE, add |-> {}, drop |-> {}]

Calls == {"addFinalizer", "Build", "deleteOrg", "removeFinalizer", "GetOrg",
          "EditOrg", "CreateOrg", "SearchOrgTeams", "upsertTeam", "GetTeam",
          "CreateTeam", "reconcileMembers", "memberCalls", "EditTeam",
          "DeleteTeam", "status"}

(* Assumed of the constants, here and by the modules that instantiate this *)
(* one.                                                                    *)
OrgConstants ==
  /\ Specs \subseteq OrgSpec
  /\ Owners \in Teams /\ Unset \subseteq Profiles /\ Settings # {}
  /\ Absent \notin Org /\ NoOrg \notin Organization /\ NoTeam \notin Team
  /\ PageSize \in Nat /\ MaxOps \in Nat /\ MaxFail \in Nat /\ MaxCrash \in Nat

ASSUME OrgAssumptions == OrgConstants

VARIABLES
  orgs,      \* the organisations of the Gitea instance
  accounts,  \* its accounts
  owns,      \* organisations that own repositories
  instance,  \* the Gitea CR: "pending", "ready" (Status.Ready) or "gone"
  asked,     \* history: keys whose CR was deleted by a person
  lost,      \* history: organisations that went by other hands
  ops, fails, crashes  \* counted against MaxOps, MaxFail, MaxCrash

gitea == <<orgs, accounts, owns, instance>>
history == <<asked, lost>>
budget == <<ops, fails, crashes>>
vars == <<runtime, gitea, history, budget>>

HasOrg(k) == orgs[k] # NoOrg
HasTeam(k, t) == HasOrg(k) /\ orgs[k].teams[t] # NoTeam

TypeOK ==
  /\ RuntimeOK(Calls, Org, Memory)
  /\ orgs \in [Keys -> Organization \cup {NoOrg}]
  /\ accounts \in SUBSET Members /\ owns \in SUBSET Keys
  /\ instance \in {"pending", "ready", "gone"}
  /\ asked \in SUBSET Keys /\ lost \in SUBSET Keys
  /\ ops \in Nat /\ fails \in Nat /\ crashes \in Nat

Init ==
  /\ RuntimeInit
  /\ orgs = [k \in Keys |-> NoOrg]
  /\ accounts = {} /\ owns = {}
  /\ instance = "pending"
  /\ asked = {} /\ lost = {}
  /\ ops = 0 /\ fails = 0 /\ crashes = 0

OnlyPass == UNCHANGED <<accounts, owns, instance, history, budget>>
OnlyKubernetes == OnlyPass /\ UNCHANGED orgs
OnlyGitea == OnlyPass /\ UNCHANGED store
OnlyLocal == OnlyKubernetes /\ UNCHANGED store

-----------------------------------------------------------------------------
(* Reconcile, call by call.                                                *)

(* Variant for the mutation runs: no return after NotFound.                *)
ReconcileGoesOn(k) == TakeUnchecked(k, "addFinalizer", Blank) /\ OnlyKubernetes

(* Variant for the mutation runs: the finalizer is not added first.        *)
ReconcileUnheld(k) == Take(k, "Build", Blank) /\ OnlyKubernetes

Reconcile(k) ==
  /\ Take(k, IF cache[k].fin THEN "Build" ELSE "addFinalizer", Blank)
  /\ OnlyKubernetes

(* AddFinalizer and Update, before anything else is looked at.             *)
AddFinalizer ==
  /\ At("addFinalizer")
  /\ Update([pass.obj EXCEPT !.fin = TRUE], "Build")
  /\ OnlyKubernetes

(* Build fails or asks for a requeue unless the instance is ready; only    *)
(* then is the deletion timestamp looked at.                               *)
BuildWith(delete) ==
  /\ At("Build")
  /\ \/ instance # "ready" /\ Retry
     \/ instance = "ready" /\ delete /\ Goto("deleteOrg")
     \/ instance = "ready" /\ ~delete /\ Goto("GetOrg")
  /\ OnlyLocal

(* Variant for the mutation runs.                                          *)
BuildDeletesProvisioned == BuildWith(pass.obj.del /\ pass.obj.prov)

Build == BuildWith(pass.obj.del)

(* What Gitea makes of the calls that change an organisation.  One that    *)
(* owns repositories is not deleted; a name is not taken twice.            *)
With(o) == orgs' = [orgs EXCEPT ![pass.key] = o]
WithTeam(t, team) == orgs' = [orgs EXCEPT ![pass.key].teams[t] = team]
Wanted(t) == pass.obj.spec.teams[t]

NewOrganization(s) ==
  [profile |-> s.profile, made |-> TRUE,
   teams |-> [t \in Teams |->
                IF t = Owners
                  THEN [settings |-> CHOOSE x \in Settings : TRUE, members |-> {}]
                  ELSE NoTeam]]

DeleteOrgServed ==
  /\ At("deleteOrg") /\ HasOrg(pass.key) /\ pass.key \notin owns
  /\ With(NoOrg)

EditOrgServed ==
  /\ At("EditOrg") /\ HasOrg(pass.key)
  /\ orgs' = [orgs EXCEPT ![pass.key].profile = pass.obj.spec.profile]

CreateOrgServed ==
  At("CreateOrg") /\ ~HasOrg(pass.key) /\ With(NewOrganization(pass.obj.spec))

CreateTeamServed ==
  /\ At("CreateTeam")
  /\ HasOrg(pass.key) /\ ~HasTeam(pass.key, pass.mem.team)
  /\ WithTeam(pass.mem.team,
              [settings |-> Wanted(pass.mem.team).settings, members |-> {}])

EditTeamServed ==
  /\ At("EditTeam") /\ HasTeam(pass.key, pass.mem.team)
  /\ orgs' = [orgs EXCEPT ![pass.key].teams[pass.mem.team].settings =
                            Wanted(pass.mem.team).settings]

DeleteTeamServed(t) ==
  At("DeleteTeam") /\ HasTeam(pass.key, t) /\ WithTeam(t, NoTeam)

(* A call is served and the pass goes on, or Gitea refuses it.             *)
Answered == instance = "ready" /\ OnlyGitea

DeleteOrg == DeleteOrgServed /\ Goto("removeFinalizer") /\ Answered

EditOrg == EditOrgServed /\ Goto("SearchOrgTeams") /\ Answered

CreateOrg ==
  /\ CreateOrgServed
  /\ GotoWith("SearchOrgTeams", [pass.mem EXCEPT !.created = TRUE])
  /\ Answered

CreateTeam == CreateTeamServed /\ Goto("reconcileMembers") /\ Answered

(* A 404 of DeleteOrg and of DeleteTeam is an error like the others.       *)
Refused ==
  /\ \/ At("deleteOrg") /\ (HasOrg(pass.key) => pass.key \in owns)
     \/ At("EditOrg") /\ ~HasOrg(pass.key)
     \/ At("CreateOrg") /\ HasOrg(pass.key)
     \/ At("SearchOrgTeams") /\ ~HasOrg(pass.key)
     \/ At("upsertTeam") /\ ~HasOrg(pass.key)
     \/ At("CreateTeam") /\ (HasOrg(pass.key) => HasTeam(pass.key, pass.mem.team))
     \/ At("reconcileMembers") /\ ~HasTeam(pass.key, pass.mem.team)
     \/ At("EditTeam") /\ ~HasTeam(pass.key, pass.mem.team)
     \/ At("DeleteTeam") /\ \E t \in pass.mem.stale : ~HasTeam(pass.key, t)
  /\ Retry /\ Answered /\ UNCHANGED orgs

RemoveFinalizer == At("removeFinalizer") /\ Release /\ OnlyKubernetes

(* Variant for the mutation runs: what exists is never edited.             *)
CompareNames(want, have) == TRUE

(* compare: equal profiles, unless the spec leaves the visibility out.     *)
Compare(want, have) == want = have /\ want \notin Unset

(* Variant for the mutation runs: the status is written before CreateOrg.  *)
GetOrgReports ==
  /\ At("GetOrg")
  /\ Goto(IF HasOrg(pass.key) THEN "SearchOrgTeams" ELSE "status")
  /\ Answered /\ UNCHANGED orgs

GetOrg ==
  /\ At("GetOrg")
  /\ \/ ~HasOrg(pass.key) /\ Goto("CreateOrg")
     \/ /\ HasOrg(pass.key)
        /\ Goto(IF Compare(pass.obj.spec.profile, orgs[pass.key].profile)
                  THEN "SearchOrgTeams" ELSE "EditOrg")
  /\ Answered /\ UNCHANGED orgs

(* The first page of a list of the elements of S, in an order of Gitea's.  *)
FirstPages(S) ==
  {P \in SUBSET S : \/ P = S /\ Cardinality(S) <= PageSize
                    \/ Cardinality(P) = PageSize}

(* What SearchOrgTeams may return.                                         *)
Pages == FirstPages({t \in Teams : HasTeam(pass.key, t)})

(* Where reconcileTeams goes next with memory m; behind it, the status is  *)
(* written only when this pass created the organisation.                   *)
NextTeam(m) ==
  \/ m.todo # {} /\ GotoWith("upsertTeam", m)
  \/ m.todo = {} /\ m.stale # {} /\ GotoWith("DeleteTeam", m)
  \/ m.todo = {} /\ m.stale = {} /\ m.created /\ ~pass.obj.prov /\ GotoWith("status", m)
  \/ m.todo = {} /\ m.stale = {} /\ ~(m.created /\ ~pass.obj.prov) /\ Done

SearchOrgTeams ==
  /\ At("SearchOrgTeams") /\ HasOrg(pass.key)
  /\ \E P \in Pages :
       NextTeam([pass.mem EXCEPT !.todo = {t \in Teams : Wanted(t) # NoTeam},
                                 !.stale = {t \in P : Wanted(t) = NoTeam}])
  /\ Answered /\ UNCHANGED orgs

(* upsertTeam searches again; a team that is not on the page is created.   *)
UpsertTeam ==
  /\ At("upsertTeam") /\ HasOrg(pass.key)
  /\ \E P \in Pages, t \in pass.mem.todo :
       GotoWith(IF t \in P THEN "GetTeam" ELSE "CreateTeam",
                [pass.mem EXCEPT !.team = t, !.found = t \in P,
                                 !.todo = pass.mem.todo \ {t}])
  /\ Answered /\ UNCHANGED orgs

(* GetTeam by the id that was found: a team that is gone by then is        *)
(* created like one that never was.                                        *)
GetTeam ==
  /\ At("GetTeam")
  /\ IF HasTeam(pass.key, pass.mem.team)
       THEN Goto("reconcileMembers")
       ELSE GotoWith("CreateTeam", [pass.mem EXCEPT !.found = FALSE])
  /\ Answered /\ UNCHANGED orgs

MembersNow == orgs[pass.key].teams[pass.mem.team].members

(* Variant for the mutation runs: members are only ever added.             *)
ReconcileMembersKeeps ==
  /\ At("reconcileMembers") /\ HasTeam(pass.key, pass.mem.team)
  /\ \E P \in FirstPages(MembersNow) :
       GotoWith("memberCalls",
                [pass.mem EXCEPT !.add = Wanted(pass.mem.team).members \ P])
  /\ Answered /\ UNCHANGED orgs

(* The first page of ListTeamMembers is compared with the spec's members.  *)
ReconcileMembers ==
  /\ At("reconcileMembers") /\ HasTeam(pass.key, pass.mem.team)
  /\ \E P \in FirstPages(MembersNow) :
       GotoWith("memberCalls",
                [pass.mem EXCEPT !.add = Wanted(pass.mem.team).members \ P,
                                 !.drop = P \ Wanted(pass.mem.team).members])
  /\ Answered /\ UNCHANGED orgs

SetMembers(members) ==
  IF HasTeam(pass.key, pass.mem.team)
    THEN orgs' = [orgs EXCEPT ![pass.key].teams[pass.mem.team].members = members]
    ELSE UNCHANGED orgs

(* AddTeamMember for each missing one, then RemoveTeamMember.  Their       *)
(* errors are dropped: an account that is not there is passed over.        *)
MemberCalls ==
  /\ At("memberCalls")
  /\ \/ \E u \in pass.mem.add :
          /\ SetMembers(MembersNow \cup ({u} \cap accounts))
          /\ GotoWith("memberCalls", [pass.mem EXCEPT !.add = pass.mem.add \ {u}])
     \/ /\ pass.mem.add = {}
        /\ \E u \in pass.mem.drop :
             /\ SetMembers(MembersNow \ {u})
             /\ GotoWith("memberCalls", [pass.mem EXCEPT !.drop = pass.mem.drop \ {u}])
     \/ /\ pass.mem.add = {} /\ pass.mem.drop = {}
        /\ IF pass.mem.found THEN Goto("EditTeam") ELSE NextTeam(pass.mem)
        /\ UNCHANGED orgs
  /\ OnlyGitea

(* compareTeams compares with an empty team: a team found is edited in     *)
(* every pass.                                                             *)
EditTeam == EditTeamServed /\ NextTeam(pass.mem) /\ Answered

DeleteTeam ==
  /\ At("DeleteTeam")
  /\ \E t \in pass.mem.stale :
       /\ DeleteTeamServed(t)
       /\ NextTeam([pass.mem EXCEPT !.stale = pass.mem.stale \ {t}])
  /\ Answered

(* Status().Update; its error is answered with no error and no requeue.    *)
StatusUpdate ==
  /\ At("status")
  /\ (Write([pass.obj EXCEPT !.prov = TRUE]) \/ Conflict) /\ Done
  /\ OnlyKubernetes

GiteaCalls == Calls \ {"addFinalizer", "Build", "removeFinalizer", "status", "memberCalls"}

(* The instance is gone: no Gitea call is answered.                        *)
Unreachable == pass.at \in GiteaCalls /\ instance # "ready" /\ Retry /\ OnlyLocal

Step ==
  \/ AddFinalizer \/ Build \/ DeleteOrg \/ RemoveFinalizer
  \/ GetOrg \/ EditOrg \/ CreateOrg
  \/ SearchOrgTeams \/ UpsertTeam \/ GetTeam \/ CreateTeam \/ EditTeam \/ DeleteTeam
  \/ ReconcileMembers \/ MemberCalls \/ StatusUpdate
  \/ Refused \/ Unreachable

-----------------------------------------------------------------------------
(* Failures.                                                               *)

Fail == fails < MaxFail /\ fails' = fails + 1 /\ UNCHANGED <<ops, crashes>>
Unfailed == UNCHANGED <<store, accounts, owns, instance, history>>

(* A call fails: for the calls about members that is the end of the call,  *)
(* for the status update that of the pass, for the others it is an error.  *)
CallFails ==
  /\ Fail /\ Unfailed /\ UNCHANGED orgs
  /\ \/ Running /\ pass.at \notin {"memberCalls", "status"} /\ Retry
     \/ At("status") /\ Done
     \/ At("memberCalls")
        /\ \/ \E u \in pass.mem.add :
                GotoWith("memberCalls", [pass.mem EXCEPT !.add = pass.mem.add \ {u}])
           \/ \E u \in pass.mem.drop :
                GotoWith("memberCalls", [pass.mem EXCEPT !.drop = pass.mem.drop \ {u}])

(* Gitea did what the call asked for and the reply did not arrive.         *)
ReplyLost ==
  /\ Fail /\ Unfailed /\ instance = "ready"
  /\ \/ DeleteOrgServed \/ EditOrgServed \/ CreateOrgServed
     \/ CreateTeamServed \/ EditTeamServed
     \/ At("DeleteTeam") /\ \E t \in pass.mem.stale : DeleteTeamServed(t)
  /\ Retry

Restart ==
  /\ crashes < MaxCrash /\ crashes' = crashes + 1
  /\ StartAgain
  /\ UNCHANGED <<gitea, history, ops, fails>>

Watch(k) == Observe(k) /\ UNCHANGED <<gitea, history, budget>>
Resync == Requeue /\ UNCHANGED <<gitea, history, budget>>

-----------------------------------------------------------------------------
(* People, and other controllers of the operator.                          *)

Operate == ops < MaxOps /\ ops' = ops + 1 /\ UNCHANGED <<fails, crashes>>

ApplyOrg(k, s) ==
  /\ Operate
  /\ \/ ~Exists(k) /\ Put(k, [spec |-> s, fin |-> FALSE, del |-> FALSE, prov |-> FALSE])
     \/ Exists(k) /\ cr[k].spec # s /\ Put(k, [cr[k] EXCEPT !.spec = s])
  /\ UNCHANGED <<gitea, history>>

KubectlDelete(k) ==
  /\ Operate /\ PutDeleted(k)
  /\ asked' = asked \cup {k}
  /\ UNCHANGED <<gitea, lost>>

(* The User controller, or a person, makes or removes an account.          *)
AccountMade(u) ==
  /\ Operate /\ instance = "ready"
  /\ accounts' = accounts \cup {u} /\ u \notin accounts
  /\ UNCHANGED <<runtime, orgs, owns, instance, history>>

AccountRemoved(u) ==
  /\ Operate /\ u \in accounts
  /\ accounts' = accounts \ {u}
  /\ orgs' = [k \in Keys |->
                IF HasOrg(k)
                  THEN [orgs[k] EXCEPT !.teams = [t \in Teams |->
                          IF HasTeam(k, t)
                            THEN [orgs[k].teams[t] EXCEPT !.members = @ \ {u}]
                            ELSE NoTeam]]
                  ELSE NoOrg]
  /\ UNCHANGED <<runtime, owns, instance, history>>

(* The Repo controller, or a person, adds the first repository to an       *)
(* organisation or removes the last one.                                   *)
Repository(k) ==
  /\ Operate /\ HasOrg(k)
  /\ owns' = IF k \in owns THEN owns \ {k} ELSE owns \cup {k}
  /\ UNCHANGED <<runtime, orgs, accounts, instance, history>>

(* By hand in Gitea: an organisation is registered or removed, a team is   *)
(* removed.                                                                *)
RegisterOrg(k, p) ==
  /\ Operate /\ instance = "ready" /\ ~HasOrg(k)
  /\ orgs' = [orgs EXCEPT ![k] =
                [profile |-> p, teams |-> [t \in Teams |-> NoTeam], made |-> FALSE]]
  /\ UNCHANGED <<runtime, accounts, owns, instance, history>>

RemoveOrg(k) ==
  /\ Operate /\ HasOrg(k) /\ k \notin owns
  /\ orgs' = [orgs EXCEPT ![k] = NoOrg]
  /\ lost' = lost \cup {k}
  /\ UNCHANGED <<runtime, accounts, owns, instance, asked>>

RemoveTeam(k, t) ==
  /\ Operate /\ HasTeam(k, t)
  /\ orgs' = [orgs EXCEPT ![k].teams[t] = NoTeam]
  /\ UNCHANGED <<runtime, accounts, owns, instance, history>>

InstanceReady ==
  /\ instance = "pending" /\ instance' = "ready"
  /\ UNCHANGED <<runtime, orgs, accounts, owns, history, budget>>

(* Deleting the Gitea CR takes everything in it along.                     *)
DeleteInstance ==
  /\ Operate /\ instance # "gone" /\ instance' = "gone"
  /\ orgs' = [k \in Keys |-> NoOrg]
  /\ lost' = lost \cup {k \in Keys : HasOrg(k)}
  /\ accounts' = {} /\ owns' = {}
  /\ UNCHANGED <<runtime, asked>>

People ==
  \/ \E k \in Keys : \/ KubectlDelete(k) \/ Repository(k) \/ RemoveOrg(k)
                     \/ \E s \in Specs : ApplyOrg(k, s)
                     \/ \E p \in Profiles : RegisterOrg(k, p)
                     \/ \E t \in Teams : RemoveTeam(k, t)
  \/ \E u \in Members : AccountMade(u) \/ AccountRemoved(u)
  \/ InstanceReady \/ DeleteInstance

Next ==
  \/ \E k \in Keys : Reconcile(k) \/ Watch(k)
  \/ Step
  \/ CallFails \/ ReplyLost \/ Restart \/ Resync
  \/ People

Spec == Init /\ [][Next]_vars

(* The worker runs, every queued key gets its turn and events arrive.      *)
Fairness ==
  /\ WF_vars(Step)
  /\ \A k \in Keys : SF_vars(Reconcile(k)) /\ WF_vars(Watch(k))

(* Resyncs go on, every ten hours.                                         *)
Resynced == WF_vars(Resync)

FairSpec == Spec /\ Fairness

-----------------------------------------------------------------------------
(* Properties.                                                             *)

(* Status.Provisioned is true: while an Org CR with status.provisioned is  *)
(* not being deleted, its organisation exists, unless someone removed it   *)
(* in Gitea.                                                               *)
ProvisionedHasOrg ==
  \A k \in Keys : Exists(k) /\ cr[k].prov /\ ~cr[k].del => HasOrg(k) \/ k \in lost

(* AddFinalizer as the first call of a pass: no organisation made by the   *)
(* operator is ever without a CR that carries the finalizer, however stale *)
(* the copy a pass works on, and whatever fails or restarts.               *)
Protected ==
  \A k \in Keys : HasOrg(k) /\ orgs[k].made => Exists(k) /\ cr[k].fin

(* The controller keeps the promises of ManagedResource, finalizer first.  *)
Managed == INSTANCE ManagedResource WITH
  HoldFirst <- TRUE,
  Alike <- [k \in Keys |-> {k}],
  there <- {k \in Keys : Exists(k)},
  held <- {k \in Keys : Exists(k) /\ cr[k].fin},
  thing <- {k \in Keys : HasOrg(k) /\ orgs[k].made}

ImplementsManaged == Managed!Spec

(* Deleting a CR removes its organisation, adopted or made, through failed *)
(* calls, lost replies and restarts, as soon as it owns no repository.     *)
OrgDeleted ==
  \A k \in Keys :
    <>[](Exists(k) /\ cr[k].del /\ HasOrg(k) /\ instance = "ready" => k \in owns)

Served(k) == instance = "ready" /\ Exists(k) /\ ~cr[k].del

(* An edit of the spec reaches the organisation by events and retries      *)
(* alone, unless somebody removed it by hand.                              *)
ProfileConverges ==
  \A k \in Keys :
    <>[](Served(k) /\ k \notin lost =>
           HasOrg(k) /\ orgs[k].profile = cr[k].spec.profile)

(* A served organisation ends up with exactly the teams of the spec, and   *)
(* each with those of its members that have an account.  Members are often *)
(* named before their accounts exist, and the errors of the calls about    *)
(* them are dropped, so this rests on the resync.                          *)
TeamsConverge ==
  Resynced =>
    \A k \in Keys :
      <>[](Served(k) =>
             /\ HasOrg(k)
             /\ orgs[k].teams =
                  [t \in Teams |->
                     IF cr[k].spec.teams[t] = NoTeam THEN NoTeam
                     ELSE [cr[k].spec.teams[t] EXCEPT !.members = @ \cap accounts]])

=============================================================================
