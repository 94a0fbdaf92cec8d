--------------------------- MODULE TeardownProofs ---------------------------
(***************************************************************************)
(* Proofs about Teardown: that a repository never outlives the Org CR its  *)
(* own deletion needs, for any number of Orgs and Repos and any number of  *)
(* failures and restarts.                                                  *)
(***************************************************************************)
EXTENDS Teardown, TLAPS

(* The Org controller again, with what is proved about it.                 *)
OP == INSTANCE OrgControllerProofs WITH
  Keys <- Orgs, Specs <- OrgSpecs, cr <- oCR, cache <- oCache, fresh <- oFresh,
  queue <- oQueue, pass <- oPass, asked <- oAsked, lost <- oLost

(* Every organisation was made by the operator, and one that owns          *)
(* repositories is there.                                                  *)
Housed == owns \subseteq OP!Existing /\ OP!Existing \subseteq OP!MadeOrgs

ReposMap == repos = [r \in RepoKeys |-> repos[r]]

TeardownInv == OP!OrgInv /\ Housed /\ ReposMap

-----------------------------------------------------------------------------
(* The steps of the one instance are those of the other.                   *)

(* The first page of a list.                                               *)
LEMMA SameFirst == ASSUME NEW A PROVE O!FirstPages(A) = OP!FirstPages(A)
  BY Zenon DEF O!FirstPages, OP!FirstPages, O!Cardinality, OP!Cardinality, Cardinality

(* That of the teams.                                                      *)
LEMMA SamePages == O!Pages = OP!Pages
<1> DEFINE All == {t \in Teams : O!HasTeam(oPass.key, t)}
           AllP == {t \in Teams : OP!HasTeam(oPass.key, t)}
<1>1. O!Pages = O!FirstPages(All) /\ OP!Pages = OP!FirstPages(AllP)
  BY Zenon DEF O!Pages, OP!Pages
<1>2. All = AllP
  BY DEF O!HasTeam, OP!HasTeam, O!HasOrg, OP!HasOrg
<1> HIDE DEF All, AllP
<1> QED
  BY <1>1, <1>2, SameFirst

(* The calls of a pass.                                                    *)
LEMMA SameStep == O!Step => OP!Step
<1>1. O!AddFinalizer => OP!AddFinalizer
  BY DEF O!AddFinalizer, OP!AddFinalizer, O!At, OP!At, O!Update, OP!Update,
         O!Write, OP!Write, O!Conflict, OP!Conflict, O!Retry, OP!Retry, O!Idle,
         OP!Idle, O!store, OP!store, O!OnlyPass, OP!OnlyPass, O!history,
         OP!history, O!budget, OP!budget, O!OnlyKubernetes, OP!OnlyKubernetes
<1>2. O!Build => OP!Build
  BY DEF O!Build, OP!Build, O!BuildWith, OP!BuildWith, O!At, OP!At, O!Retry,
         OP!Retry, O!Idle, OP!Idle, O!Goto, OP!Goto, O!OnlyPass, OP!OnlyPass,
         O!history, OP!history, O!budget, OP!budget, O!OnlyKubernetes,
         OP!OnlyKubernetes, O!OnlyLocal, OP!OnlyLocal, O!store, OP!store
<1>3. O!DeleteOrg => OP!DeleteOrg
  BY DEF O!DeleteOrg, OP!DeleteOrg, O!DeleteOrgServed, OP!DeleteOrgServed,
         O!At, OP!At, O!HasOrg, OP!HasOrg, O!With, OP!With, O!Goto, OP!Goto,
         O!OnlyPass, OP!OnlyPass, O!history, OP!history, O!budget, OP!budget,
         O!OnlyGitea, OP!OnlyGitea, O!store, OP!store, O!Answered, OP!Answered
<1>4. O!RemoveFinalizer => OP!RemoveFinalizer
  BY DEF O!RemoveFinalizer, OP!RemoveFinalizer, O!At, OP!At, O!Release,
         OP!Release, O!Write, OP!Write, O!Conflict, OP!Conflict, O!Done,
         OP!Done, O!Idle, OP!Idle, O!Retry, OP!Retry, O!store, OP!store,
         O!OnlyPass, OP!OnlyPass, O!history, OP!history, O!budget, OP!budget,
         O!OnlyKubernetes, OP!OnlyKubernetes
<1>5. O!GetOrg => OP!GetOrg
  BY DEF O!GetOrg, OP!GetOrg, O!At, OP!At, O!HasOrg, OP!HasOrg, O!Goto,
         OP!Goto, O!Compare, OP!Compare, O!OnlyPass, OP!OnlyPass, O!history,
         OP!history, O!budget, OP!budget, O!OnlyGitea, OP!OnlyGitea, O!store,
         OP!store, O!Answered, OP!Answered
<1>6. O!EditOrg => OP!EditOrg
  BY DEF O!EditOrg, OP!EditOrg, O!EditOrgServed, OP!EditOrgServed, O!At, OP!At,
         O!HasOrg, OP!HasOrg, O!Goto, OP!Goto, O!OnlyPass, OP!OnlyPass,
         O!history, OP!history, O!budget, OP!budget, O!OnlyGitea, OP!OnlyGitea,
         O!store, OP!store, O!Answered, OP!Answered
<1>7. O!CreateOrg => OP!CreateOrg
  BY DEF O!CreateOrg, OP!CreateOrg, O!CreateOrgServed, OP!CreateOrgServed,
         O!NewOrganization, OP!NewOrganization, O!At, OP!At, O!HasOrg,
         OP!HasOrg, O!With, OP!With, O!GotoWith, OP!GotoWith, O!OnlyPass,
         OP!OnlyPass, O!history, OP!history, O!budget, OP!budget, O!OnlyGitea,
         OP!OnlyGitea, O!store, OP!store, O!Answered, OP!Answered
<1>8. O!SearchOrgTeams => OP!SearchOrgTeams
  BY SamePages
  DEF O!SearchOrgTeams, OP!SearchOrgTeams, O!At, OP!At, O!HasOrg, OP!HasOrg,
      O!HasTeam, OP!HasTeam, O!Wanted, OP!Wanted, O!NextTeam, OP!NextTeam,
      O!GotoWith, OP!GotoWith, O!Done, OP!Done, O!Idle, OP!Idle, O!OnlyPass,
      OP!OnlyPass, O!history, OP!history, O!budget, OP!budget, O!OnlyGitea,
      OP!OnlyGitea, O!store, OP!store, O!Answered, OP!Answered
<1>9. O!UpsertTeam => OP!UpsertTeam
  BY SamePages
  DEF O!UpsertTeam, OP!UpsertTeam, O!At, OP!At, O!HasOrg, OP!HasOrg,
      O!HasTeam, OP!HasTeam, O!GotoWith, OP!GotoWith, O!OnlyPass,
      OP!OnlyPass, O!history, OP!history, O!budget, OP!budget, O!OnlyGitea,
      OP!OnlyGitea, O!store, OP!store, O!Answered, OP!Answered
<1>10. O!CreateTeam => OP!CreateTeam
  BY DEF O!CreateTeam, OP!CreateTeam, O!CreateTeamServed, OP!CreateTeamServed,
         O!At, OP!At, O!HasOrg, OP!HasOrg, O!HasTeam, OP!HasTeam, O!WithTeam,
         OP!WithTeam, O!Wanted, OP!Wanted, O!Goto, OP!Goto, O!OnlyPass,
         OP!OnlyPass, O!history, OP!history, O!budget, OP!budget, O!OnlyGitea,
         OP!OnlyGitea, O!store, OP!store, O!Answered, OP!Answered
<1>11. O!EditTeam => OP!EditTeam
  BY DEF O!EditTeam, OP!EditTeam, O!EditTeamServed, OP!EditTeamServed, O!At,
         OP!At, O!HasOrg, OP!HasOrg, O!HasTeam, OP!HasTeam, O!Wanted,
         OP!Wanted, O!NextTeam, OP!NextTeam, O!GotoWith, OP!GotoWith, O!Done,
         OP!Done, O!Idle, OP!Idle, O!OnlyPass, OP!OnlyPass, O!history,
         OP!history, O!budget, OP!budget, O!OnlyGitea, OP!OnlyGitea, O!store,
         OP!store, O!Answered, OP!Answered
<1>12. O!DeleteTeam => OP!DeleteTeam
  BY DEF O!DeleteTeam, OP!DeleteTeam, O!DeleteTeamServed, OP!DeleteTeamServed,
         O!At, OP!At, O!HasOrg, OP!HasOrg, O!HasTeam, OP!HasTeam, O!WithTeam,
         OP!WithTeam, O!NextTeam, OP!NextTeam, O!GotoWith, OP!GotoWith, O!Done,
         OP!Done, O!Idle, OP!Idle, O!OnlyPass, OP!OnlyPass, O!history,
         OP!history, O!budget, OP!budget, O!OnlyGitea, OP!OnlyGitea, O!store,
         OP!store, O!Answered, OP!Answered
<1>13. O!ReconcileMembers => OP!ReconcileMembers
  <2>1. O!FirstPages(O!MembersNow) = OP!FirstPages(OP!MembersNow)
    BY SameFirst DEF O!MembersNow, OP!MembersNow
  <2> QED
    BY <2>1
    DEF O!ReconcileMembers, OP!ReconcileMembers, O!At, OP!At, O!HasOrg, OP!HasOrg,
        O!HasTeam, OP!HasTeam, O!Wanted, OP!Wanted, O!GotoWith, OP!GotoWith,
        O!OnlyPass, OP!OnlyPass, O!history, OP!history, O!budget, OP!budget,
        O!OnlyGitea, OP!OnlyGitea, O!store, OP!store, O!Answered, OP!Answered
<1>14. O!MemberCalls => OP!MemberCalls
  BY DEF O!MemberCalls, OP!MemberCalls, O!SetMembers, OP!SetMembers,
         O!MembersNow, OP!MembersNow, O!At, OP!At, O!HasOrg, OP!HasOrg,
         O!HasTeam, OP!HasTeam, O!Goto, OP!Goto, O!NextTeam, OP!NextTeam,
         O!GotoWith, OP!GotoWith, O!Done, OP!Done, O!Idle, OP!Idle, O!OnlyPass,
         OP!OnlyPass, O!history, OP!history, O!budget, OP!budget, O!OnlyGitea,
         OP!OnlyGitea, O!store, OP!store
<1>15. O!StatusUpdate => OP!StatusUpdate
  BY DEF O!StatusUpdate, OP!StatusUpdate, O!At, OP!At, O!Write, OP!Write,
         O!Conflict, OP!Conflict, O!Done, OP!Done, O!Idle, OP!Idle, O!store,
         OP!store, O!OnlyPass, OP!OnlyPass, O!history, OP!history, O!budget,
         OP!budget, O!OnlyKubernetes, OP!OnlyKubernetes
<1>16. O!Refused => OP!Refused
  BY DEF O!Refused, OP!Refused, O!At, OP!At, O!HasOrg, OP!HasOrg, O!HasTeam,
         OP!HasTeam, O!Retry, OP!Retry, O!Idle, OP!Idle, O!OnlyPass,
         OP!OnlyPass, O!history, OP!history, O!budget, OP!budget, O!OnlyGitea,
         OP!OnlyGitea, O!store, OP!store, O!Answered, OP!Answered
<1>17. O!Unreachable => OP!Unreachable
  BY DEF O!Unreachable, OP!Unreachable, O!GiteaCalls, OP!GiteaCalls, O!Calls,
         OP!Calls, O!Retry, OP!Retry, O!Idle, OP!Idle, O!OnlyPass, OP!OnlyPass,
         O!history, OP!history, O!budget, OP!budget, O!OnlyKubernetes,
         OP!OnlyKubernetes, O!OnlyLocal, OP!OnlyLocal, O!store, OP!store
<1>18. O!GetTeam => OP!GetTeam
  BY DEF O!GetTeam, OP!GetTeam, O!At, OP!At, O!HasOrg, OP!HasOrg, O!HasTeam,
         OP!HasTeam, O!Goto, OP!Goto, O!GotoWith, OP!GotoWith, O!OnlyPass,
         OP!OnlyPass, O!history, OP!history, O!budget, OP!budget, O!OnlyGitea,
         OP!OnlyGitea, O!store, OP!store, O!Answered, OP!Answered
<1> QED
  BY <1>1, <1>2, <1>3, <1>4, <1>5, <1>6, <1>7, <1>8, <1>9, <1>10, <1>11, <1>12,
     <1>13, <1>14, <1>15, <1>16, <1>17, <1>18
  DEF O!Step, OP!Step

(* A call fails.                                                           *)
LEMMA SameCallFails == O!CallFails => OP!CallFails
  BY DEF O!CallFails, OP!CallFails, O!Fail, OP!Fail, O!Unfailed, OP!Unfailed,
         O!Running, OP!Running, O!Retry, OP!Retry, O!Idle, OP!Idle, O!At,
         OP!At, O!Done, OP!Done, O!GotoWith, OP!GotoWith, O!store, OP!store,
         O!history, OP!history

(* Gitea does what a call asks for, and the reply is lost.                 *)
LEMMA SameReplyLost == O!ReplyLost => OP!ReplyLost
  BY DEF O!ReplyLost, OP!ReplyLost, O!Fail, OP!Fail, O!Unfailed, OP!Unfailed,
         O!HasOrg, OP!HasOrg, O!HasTeam, OP!HasTeam, O!Retry, OP!Retry, O!Idle,
         OP!Idle, O!At, OP!At, O!store, OP!store, O!history, OP!history,
         O!DeleteOrgServed, OP!DeleteOrgServed, O!EditOrgServed,
         OP!EditOrgServed, O!CreateOrgServed, OP!CreateOrgServed,
         O!NewOrganization, OP!NewOrganization, O!CreateTeamServed,
         OP!CreateTeamServed, O!EditTeamServed, OP!EditTeamServed,
         O!DeleteTeamServed, OP!DeleteTeamServed, O!With, OP!With, O!WithTeam,
         OP!WithTeam, O!Wanted, OP!Wanted

(* The worker takes a key.                                                 *)
LEMMA SameReconcile == \A k \in Orgs : O!Reconcile(k) => OP!Reconcile(k)
  BY DEF O!Reconcile, OP!Reconcile, O!Take, OP!Take, O!Idle, OP!Idle, O!Blank,
         OP!Blank, O!OnlyKubernetes, OP!OnlyKubernetes, O!OnlyPass, OP!OnlyPass,
         O!history, OP!history, O!budget, OP!budget, O!store, OP!store

(* An event arrives.                                                       *)
LEMMA SameWatch == \A k \in Orgs : O!Watch(k) => OP!Watch(k)
  BY DEF O!Watch, OP!Watch, O!Observe, OP!Observe, O!gitea, OP!gitea, O!history,
         OP!history, O!budget, OP!budget

(* Resyncs, the instance, and people with their CRs.                       *)
LEMMA SamePeople ==
  /\ O!Resync => OP!Resync
  /\ O!InstanceReady => OP!InstanceReady
  /\ \A k \in Orgs : O!KubectlDelete(k) => OP!KubectlDelete(k)
  /\ \A k \in Orgs, s \in OrgSpecs : O!ApplyOrg(k, s) => OP!ApplyOrg(k, s)
<1>1. O!Resync => OP!Resync
  BY DEF O!Resync, OP!Resync, O!Requeue, OP!Requeue, O!gitea, OP!gitea, O!history,
         OP!history, O!budget, OP!budget, O!store, OP!store
<1>2. O!InstanceReady => OP!InstanceReady
  BY DEF O!InstanceReady, OP!InstanceReady, O!runtime, OP!runtime, O!store, OP!store,
         O!history, OP!history, O!budget, OP!budget
<1>3. \A k \in Orgs : O!KubectlDelete(k) => OP!KubectlDelete(k)
  BY DEF O!KubectlDelete, OP!KubectlDelete, O!Operate, OP!Operate, O!PutDeleted,
         OP!PutDeleted, O!Put, OP!Put, O!Exists, OP!Exists, O!Running, OP!Running,
         O!Idle, OP!Idle, O!gitea, OP!gitea
<1>4. \A k \in Orgs, s \in OrgSpecs : O!ApplyOrg(k, s) => OP!ApplyOrg(k, s)
  BY DEF O!ApplyOrg, OP!ApplyOrg, O!Operate, OP!Operate, O!Put, OP!Put, O!Exists,
         OP!Exists, O!Running, OP!Running, O!Idle, OP!Idle, O!gitea, OP!gitea,
         O!history, OP!history
<1> QED
  BY <1>1, <1>2, <1>3, <1>4

(* The operator starts again, and with it both controllers.                *)
LEMMA SameRestart == Restart => OP!Restart
  BY DEF Restart, O!StartAgain, OP!Restart, OP!StartAgain, O!Exists, OP!Exists,
         O!Idle, OP!Idle, OP!gitea, OP!history, owns

(* The initial states.                                                     *)
LEMMA SameInit == O!Init => OP!Init
  BY DEF O!Init, OP!Init, O!RuntimeInit, OP!RuntimeInit, O!Idle, OP!Idle

(* What is assumed of the constants holds of both.                         *)
LEMMA OrgAssumed == OP!OrgConstants
  BY TeardownConstants
  DEF O!OrgConstants, OP!OrgConstants, O!OrgSpec, OP!OrgSpec, O!TeamMap, OP!TeamMap,
      O!Team, OP!Team, O!Org, OP!Org, O!Organization, OP!Organization

-----------------------------------------------------------------------------
(* What the Repo controller and its people do to the organisation: nothing *)
(* but to give it repositories while it is there.                          *)
Beside ==
  /\ UNCHANGED <<oOwn, instance>>
  /\ ops' \in Nat /\ fails' \in Nat /\ crashes' \in Nat
  /\ owns' \subseteq owns \cup OP!Existing
  /\ ReposMap'

(* Who owns repositories depends on nothing but the repositories.          *)
LEMMA OwnsKept == repos' = repos => owns' = owns
  BY DEF owns

(* A repository goes.                                                      *)
LEMMA RepoTaken ==
  ASSUME ReposMap, NEW k, repos' = [repos EXCEPT ![k] = NoRepo]
  PROVE ReposMap' /\ owns' \subseteq owns
<1>1. /\ repos' = [r \in RepoKeys |-> IF r = k THEN NoRepo ELSE repos[r]]
  BY DEF ReposMap
<1>2. ReposMap'
  BY <1>1 DEF ReposMap
<1>3. \A r \in RepoKeys : repos'[r] # NoRepo => repos[r] # NoRepo
  BY <1>1
<1> QED
  BY <1>2, <1>3 DEF owns

(* A repository is made or given its push mirror: Gitea does that in an    *)
(* organisation that is there.                                             *)
LEMMA RepoMade ==
  ASSUME ReposMap, NEW k, NEW x, R!Reachable,
         repos' = [repos EXCEPT ![k] = x]
  PROVE ReposMap' /\ owns' \subseteq OP!Existing
<1>1. ReposMap'
  BY DEF ReposMap
<1>2. Home \in OP!Existing
  BY HomeIsOrg DEF R!Reachable, org, OP!Existing, OP!HasOrg
<1> QED
  BY <1>1, <1>2 DEF owns

(* The two calls, also when their reply is lost.                           *)
LEMMA RepoCalls ==
  ASSUME ReposMap, R!DeleteRepoServed \/ R!CreateOrgRepoServed
  PROVE ReposMap' /\ owns' \subseteq owns \cup OP!Existing
<1>1. CASE R!DeleteRepoServed
  BY <1>1, RepoTaken DEF R!DeleteRepoServed, R!SetRepo
<1>2. CASE R!CreateOrgRepoServed
  BY <1>2, RepoMade DEF R!CreateOrgRepoServed, R!SetRepo
<1> QED
  BY <1>1, <1>2

(* PushMirrors drops its error: the repository may be untouched.           *)
LEMMA MirrorCall ==
  ASSUME ReposMap, R!PushMirrors
  PROVE ReposMap' /\ owns' \subseteq owns \cup OP!Existing
<1>1. CASE UNCHANGED repos
  BY <1>1, OwnsKept DEF ReposMap
<1>2. CASE ~UNCHANGED repos
  <2>1. /\ R!Reachable
        /\ repos' =
             [repos EXCEPT ![rPass.key] = [repos[rPass.key] EXCEPT !.mirror = TRUE]]
    BY <1>2 DEF R!PushMirrors
  <2> QED
    BY <2>1, RepoMade
<1> QED
  BY <1>1, <1>2

(* Every step of the Repo controller and of the people who use its CRs.    *)
LEMMA RepoStep ==
  ASSUME ReposMap, ops \in Nat, fails \in Nat, crashes \in Nat, UNCHANGED oOwn,
         \/ R!Step \/ R!CallFails \/ R!ReplyLost \/ R!Resync \/ R!People
         \/ \E r \in RepoKeys : R!RemoveRepo(r) \/ R!Reconcile(r) \/ R!Watch(r)
  PROVE Beside
<1> DEFINE Counted == ops' \in Nat /\ fails' \in Nat /\ crashes' \in Nat
           Quiet == repos' = repos /\ UNCHANGED instance /\ Counted
           Call == /\ ReposMap' /\ owns' \subseteq owns \cup OP!Existing
                   /\ UNCHANGED instance /\ Counted
<1> SUFFICES Call
  BY DEF Beside
<1>1. Quiet => Call
  BY OwnsKept DEF ReposMap
<1>2. CASE R!DeleteRepo \/ R!CreateOrgRepo \/ R!PushMirrors
  BY <1>2, RepoCalls, MirrorCall
  DEF R!DeleteRepo, R!CreateOrgRepo, R!PushMirrors, R!OnlyGitea, R!OnlyPass, R!budget
<1>3. CASE R!Step /\ ~(R!DeleteRepo \/ R!CreateOrgRepo \/ R!PushMirrors)
  <2>1. Quiet
    BY <1>3 DEF R!Step, R!Build, R!BuildWith, R!RemoveFinalizer, R!GetRepo, R!EditRepo,
       R!StatusUpdate, R!AddFinalizer, R!Refused, R!OnlyLocal, R!OnlyKubernetes,
       R!OnlyPass, R!budget
  <2> QED
    BY <1>1, <2>1
<1>4. CASE R!CallFails
  <2>1. Quiet
    BY <1>4 DEF R!CallFails, R!Fail, R!Unfailed
  <2> QED
    BY <1>1, <2>1
<1>5. CASE R!ReplyLost
  BY <1>5, RepoCalls DEF R!ReplyLost, R!Fail, R!Unfailed
<1>6. CASE R!Resync \/ \E r \in RepoKeys : R!Reconcile(r) \/ R!Watch(r)
  <2>1. Quiet
    BY <1>6 DEF R!Resync, R!Reconcile, R!Watch, R!gitea, R!budget, R!OnlyKubernetes,
       R!OnlyPass
  <2> QED
    BY <1>1, <2>1
<1>7. CASE R!People
  <2>1. PICK k \in RepoKeys :
          R!KubectlDelete(k) \/ \E s \in RepoSpecs : R!ApplyRepo(k, s)
    BY <1>7 DEF R!People
  <2>2. UNCHANGED R!gitea /\ R!Operate
    BY <2>1 DEF R!KubectlDelete, R!ApplyRepo
  <2>3. Quiet
    BY <2>2 DEF R!gitea, R!Operate
  <2> QED
    BY <1>1, <2>3
<1>8. ASSUME NEW r \in RepoKeys, R!RemoveRepo(r) PROVE Call
  <2>1. /\ repos' = [repos EXCEPT ![r] = NoRepo] /\ UNCHANGED instance
        /\ ops' = ops + 1 /\ UNCHANGED <<fails, crashes>>
    BY <1>8 DEF R!RemoveRepo, R!Operate
  <2>2. ReposMap' /\ owns' \subseteq owns
    BY <2>1, RepoTaken
  <2> QED
    BY <2>1, <2>2
<1> QED
  BY <1>1, <1>2, <1>3, <1>4, <1>5, <1>6, <1>7, <1>8

-----------------------------------------------------------------------------
(* A step of the Org controller or of the people who use its CRs.          *)
LEMMA OrgStep ==
  ASSUME TeardownInv, UNCHANGED rOwn,
         \/ O!Step \/ O!CallFails \/ O!ReplyLost \/ O!Resync \/ O!InstanceReady
         \/ \E k \in Orgs : \/ O!Reconcile(k) \/ O!Watch(k) \/ O!KubectlDelete(k)
                            \/ \E s \in OrgSpecs : O!ApplyOrg(k, s)
  PROVE TeardownInv'
<1>1. OP!OrgInv /\ owns' = owns /\ repos' = repos
  BY OwnsKept DEF TeardownInv, rOwn
<1>2. CASE O!Step \/ O!CallFails \/ O!ReplyLost
  <2>1. OP!Step \/ OP!CallFails \/ OP!ReplyLost
    BY <1>2, SameStep, SameCallFails, SameReplyLost
  <2>2. (OP!OrgInv)'
    BY <1>1, <2>1, OrgAssumed, OP!StepInv, OP!CallFailsInv, OP!ReplyLostInv
  <2>3. OP!Undisturbed
    BY <1>1, <2>1, OrgAssumed, OP!StepUndisturbed
  <2> QED
    BY <1>1, <2>2, <2>3 DEF TeardownInv, Housed, ReposMap, OP!Undisturbed
<1>3. CASE \/ O!Resync \/ O!InstanceReady
           \/ \E k \in Orgs : \/ O!Reconcile(k) \/ O!Watch(k) \/ O!KubectlDelete(k)
                              \/ \E s \in OrgSpecs : O!ApplyOrg(k, s)
  <2>1. \/ OP!Resync \/ OP!InstanceReady
        \/ \E k \in Orgs : \/ OP!Reconcile(k) \/ OP!Watch(k) \/ OP!KubectlDelete(k)
                           \/ \E s \in OrgSpecs : OP!ApplyOrg(k, s)
    BY <1>3, SamePeople, SameReconcile, SameWatch
  <2>2. (OP!OrgInv)'
    BY <1>1, <2>1, OrgAssumed, OP!ResyncInv, OP!InstanceReadyInv, OP!ReconcileInv,
       OP!WatchInv, OP!KubectlDeleteInv, OP!ApplyOrgInv
  <2>3. orgs' = orgs
    BY <2>1 DEF OP!Resync, OP!InstanceReady, OP!Reconcile, OP!Watch, OP!KubectlDelete,
       OP!ApplyOrg, OP!OnlyKubernetes, OP!gitea
  <2>4. (OP!Existing)' = OP!Existing /\ (OP!MadeOrgs)' = OP!MadeOrgs
    BY <2>3 DEF OP!Existing, OP!MadeOrgs, OP!HasOrg
  <2> QED
    BY <1>1, <2>2, <2>4 DEF TeardownInv, Housed, ReposMap
<1> QED
  BY <1>2, <1>3

(* Such a step keeps what is known of the Org controller.                  *)
LEMMA BesideStep == ASSUME TeardownInv, Beside PROVE TeardownInv'
<1>1. /\ OP!OrgInv
      /\ UNCHANGED <<OP!runtime, OP!history, orgs, accounts, instance>>
      /\ ops' \in Nat /\ fails' \in Nat /\ crashes' \in Nat
  BY DEF TeardownInv, Beside, oOwn, OP!runtime, OP!store, OP!history
<1>2. owns' \subseteq Orgs
  BY HomeIsOrg DEF owns
<1>3. (OP!OrgInv)'
  BY <1>1, <1>2, OrgAssumed, OP!BesideInv
<1>4. (OP!Existing)' = OP!Existing /\ (OP!MadeOrgs)' = OP!MadeOrgs
  BY <1>1 DEF OP!Existing, OP!MadeOrgs, OP!HasOrg
<1> QED
  BY <1>3, <1>4 DEF TeardownInv, Housed, Beside

(* A restart changes nothing outside the operator.                         *)
LEMMA RestartStep == ASSUME TeardownInv, Restart PROVE TeardownInv'
<1>1. (OP!OrgInv)'
  BY SameRestart, OrgAssumed, OP!RestartInv DEF TeardownInv
<1>2. orgs' = orgs /\ repos' = repos
  BY DEF Restart
<1>3. owns' = owns /\ (OP!Existing)' = OP!Existing /\ (OP!MadeOrgs)' = OP!MadeOrgs
  BY <1>2, OwnsKept DEF OP!Existing, OP!MadeOrgs, OP!HasOrg
<1> QED
  BY <1>1, <1>2, <1>3 DEF TeardownInv, Housed, ReposMap

(* Each step keeps the invariant.                                          *)
LEMMA NextStep == ASSUME TeardownInv, [Next]_vars PROVE TeardownInv'
<1>1. CASE OStep \/ OAlone \/ \E k \in Orgs : OReconcile(k) \/ OWatch(k)
  BY <1>1, OrgStep DEF OStep, OAlone, OReconcile, OWatch
<1>2. CASE RStep \/ RAlone \/ \E r \in RepoKeys : RReconcile(r) \/ RWatch(r)
  <2>1. ReposMap /\ ops \in Nat /\ fails \in Nat /\ crashes \in Nat
    BY DEF TeardownInv, OP!OrgInv, OP!TypeOK
  <2>2. Beside
    BY <1>2, <2>1, RepoStep DEF RStep, RAlone, RReconcile, RWatch
  <2> QED
    BY <2>2, BesideStep
<1>3. CASE UNCHANGED vars
  <2>1. ReposMap /\ ops \in Nat /\ fails \in Nat /\ crashes \in Nat
    BY DEF TeardownInv, OP!OrgInv, OP!TypeOK
  <2>2. Beside
    BY <1>3, <2>1, OwnsKept DEF vars, rOwn, Beside, ReposMap
  <2> QED
    BY <2>2, BesideStep
<1> QED
  BY <1>1, <1>2, <1>3, RestartStep DEF Next

(* It holds at the start, when there is no organisation.                   *)
LEMMA InitStep == Init => TeardownInv
<1> SUFFICES ASSUME Init PROVE TeardownInv
  OBVIOUS
<1>1. OP!OrgInv
  BY SameInit, OrgAssumed, OP!InitInv DEF Init
<1>2. OP!Existing = {} /\ owns = {}
  BY DEF Init, OP!Existing, OP!HasOrg, owns
<1> QED
  BY <1>1, <1>2 DEF TeardownInv, Housed, ReposMap, Init

(* So it always holds.                                                     *)
LEMMA TeardownInvariant == Spec => []TeardownInv
  BY InitStep, NextStep, PTL DEF Spec

(* No repository made by the operator is left without the Org CR that its  *)
(* own deletion needs, in whatever order the two are deleted.              *)
THEOREM TeardownOrgOutlivesRepos == Spec => []OrgOutlivesRepos
<1>1. TeardownInv => OrgOutlivesRepos
  <2> SUFFICES ASSUME TeardownInv, NEW r \in RepoKeys, R!HasRepo(r)
               PROVE O!Exists(Home) /\ oCR[Home].fin /\ O!HasOrg(Home)
    BY DEF OrgOutlivesRepos
  <2>1. Home \in OP!MadeOrgs
    BY DEF TeardownInv, Housed, owns, R!HasRepo
  <2>2. OP!HasOrg(Home) /\ OP!Exists(Home) /\ oCR[Home].fin
    BY <2>1 DEF TeardownInv, OP!OrgInv, OP!Protected, OP!MadeOrgs
  <2> QED
    BY <2>2 DEF OP!HasOrg, OP!Exists, O!HasOrg, O!Exists
<1> QED
  BY <1>1, TeardownInvariant, PTL

=============================================================================
