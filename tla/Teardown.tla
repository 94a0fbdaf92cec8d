------------------------------ MODULE Teardown ------------------------------
(***************************************************************************)
(* The Org and the Repo controller together: the organisation Home, and    *)
(* the repositories of the Repo CRs that name it.  A repository needs the  *)
(* Org CR at every turn (BuildFromOrg), and Gitea does not delete an       *)
(* organisation that owns repositories: what is applied with one command   *)
(* and deleted with one command depends on each other on the way up and on *)
(* the way down.                                                           *)
(***************************************************************************)
EXTENDS Naturals, FiniteSets

CONSTANTS Orgs, Home, Profiles, Unset, Teams, Settings, Members, OrgSpecs,
          Owners, PageSize, NoTeam, NoOrg,
          RepoKeys, Contents, NoRepo, RepoSpecs,
          Absent, MaxOps, MaxFail, MaxCrash

ASSUME HomeIsOrg == Home \in Orgs

VARIABLES
  oCR, oCache, oFresh, oQueue, oPass, oAsked, oLost,  \* of the Org controller
  rCR, rCache, rFresh, rQueue, rPass, rAsked, rLost,  \* of the Repo controller
  orgs, accounts, repos, instance, ops, fails, crashes

(* What each controller sees of the other's work.                          *)
owns == IF \E r \in RepoKeys : repos[r] # NoRepo THEN {Home} ELSE {}
org == [cr |-> oCR[Home] # Absent, made |-> orgs[Home] # NoOrg]

O == INSTANCE OrgController WITH
  Keys <- Orgs, Specs <- OrgSpecs, cr <- oCR, cache <- oCache, fresh <- oFresh,
  queue <- oQueue, pass <- oPass, asked <- oAsked, lost <- oLost

R == INSTANCE RepoController WITH
  Keys <- RepoKeys, Specs <- RepoSpecs, cr <- rCR, cache <- rCache,
  fresh <- rFresh, queue <- rQueue, pass <- rPass, asked <- rAsked, lost <- rLost

(* What the two controllers assume of their constants.                     *)
ASSUME TeardownConstants ==
  O!OrgConstants /\ R!RepositoryConstants /\ R!RepoConstants

oOwn == <<oCR, oCache, oFresh, oQueue, oPass, oAsked, oLost, orgs, accounts>>
rOwn == <<rCR, rCache, rFresh, rQueue, rPass, rAsked, rLost, repos>>
vars == <<oOwn, rOwn, instance, ops, fails, crashes>>

TypeOK == O!TypeOK /\ R!TypeOK

Init ==
  /\ O!RuntimeInit
  /\ orgs = [k \in Orgs |-> NoOrg]
  /\ repos = [r \in RepoKeys |-> NoRepo]
  /\ O!Init /\ R!Init

(* The steps of one controller and of the people who use its CRs.  Their   *)
(* accounts and their teams are those of OrgController.                    *)
OStep == UNCHANGED rOwn /\ O!Step
RStep == UNCHANGED oOwn /\ R!Step
OReconcile(k) == UNCHANGED rOwn /\ O!Reconcile(k)
RReconcile(r) == UNCHANGED oOwn /\ R!Reconcile(r)
OWatch(k) == UNCHANGED rOwn /\ O!Watch(k)
RWatch(r) == UNCHANGED oOwn /\ R!Watch(r)

OAlone ==
  /\ UNCHANGED rOwn
  /\ \/ O!CallFails \/ O!ReplyLost \/ O!Resync \/ O!InstanceReady
     \/ \E k \in Orgs : O!KubectlDelete(k) \/ \E s \in OrgSpecs : O!ApplyOrg(k, s)

RAlone ==
  /\ UNCHANGED oOwn
  /\ \/ R!CallFails \/ R!ReplyLost \/ R!Resync \/ R!People
     \/ \E r \in RepoKeys : R!RemoveRepo(r)

Restart ==
  /\ UNCHANGED <<oAsked, oLost, orgs, accounts, rAsked, rLost, repos, instance>>
  /\ O!StartAgain /\ R!StartAgain
  /\ crashes < MaxCrash /\ crashes' = crashes + 1
  /\ UNCHANGED <<ops, fails>>

Next ==
  \/ OStep \/ RStep \/ OAlone \/ RAlone \/ Restart
  \/ \E k \in Orgs : OReconcile(k) \/ OWatch(k)
  \/ \E r \in RepoKeys : RReconcile(r) \/ RWatch(r)

Spec == Init /\ [][Next]_vars

(* Both workers run, every queued key gets its turn and events arrive.     *)
Fairness ==
  /\ WF_vars(OStep) /\ WF_vars(RStep)
  /\ \A k \in Orgs : SF_vars(OReconcile(k)) /\ WF_vars(OWatch(k))
  /\ \A r \in RepoKeys : SF_vars(RReconcile(r)) /\ WF_vars(RWatch(r))

FairSpec == Spec /\ Fairness

-----------------------------------------------------------------------------
(* Properties.                                                             *)

(* No repository made by the operator is left without the Org CR that its  *)
(* own deletion needs: the Org goes last, in whatever order they are       *)
(* deleted.  It takes the finalizer of the Org, put on first, and Gitea's  *)
(* refusal.                                                                *)
OrgOutlivesRepos ==
  \A r \in RepoKeys :
    R!HasRepo(r) => O!Exists(Home) /\ oCR[Home].fin /\ O!HasOrg(Home)

(* So a repository goes when its CR is deleted, also together with its     *)
(* Org, and through restarts.                                              *)
RepoTornDown ==
  \A r \in RepoKeys : <>[]~(R!Exists(r) /\ rCR[r].del /\ R!HasRepo(r))

(* An organisation that is being deleted waits only for Repos that still   *)
(* have their CR.  It does not: a Repo deleted while a pass creates its    *)
(* repository goes at once, since the finalizer comes last; the repository *)
(* stays, and Gitea refuses to delete the organisation from then on.       *)
WaitsForRepos ==
  <>[](O!Exists(Home) /\ oCR[Home].del /\ O!HasOrg(Home) =>
         \E r \in RepoKeys : R!Exists(r))

(* Unless the operator restarts or a call fails, a repository gets the     *)
(* push mirror of its spec.                                                *)
Mirrored ==
  \A r \in RepoKeys :
    <>[](R!Exists(r) /\ R!HasRepo(r) /\ crashes = 0 /\ fails = 0 =>
           repos[r].mirror = rCR[r].spec.mirror)

=============================================================================
