---------------------------- MODULE Repositories ----------------------------
(***************************************************************************)
(* What the Repo and the MigrateRepo controller share: the repositories of *)
(* one organisation, named after their CR; BuildFromOrg, which looks the   *)
(* Org CR up and then its instance (internal/client/gitea.go); the branch  *)
(* that deletes, under one and the same finalizer; failures and people.    *)
(***************************************************************************)
EXTENDS ControllerRuntime

CONSTANTS
  Contents,   \* values of a repository's description and visibility
  NoRepo,     \* no such repository
  MaxOps,     \* bound: actions of people
  MaxFail,    \* bound: failed calls
  MaxCrash    \* bound: restarts of the operator

(* "by" is history: the kind of CR it was made for, or by hand.            *)
Repository == [content : Contents, mirror : BOOLEAN,
               by : {"Repo", "MigrateRepo", "hand"}]

(* Which of spec.org and spec.user are set; both kinds of CR need the      *)
(* first, though they document either.                                     *)
Owner == {"org", "user", "both"}

(* Assumed of the constants, by the modules that use this one.             *)
RepositoryConstants ==
  /\ NoRepo \notin Repository
  /\ MaxOps \in Nat /\ MaxFail \in Nat /\ MaxCrash \in Nat

VARIABLES
  repos,     \* the repositories of the organisation
  org,       \* whether the Org CR exists and whether the organisation does
  instance,  \* the Gitea CR: "pending", "ready" (Status.Ready) or "gone"
  asked,     \* history: keys whose CR was deleted by a person
  lost,      \* history: repositories removed by hand or with the instance
  ops, fails, crashes  \* counted against MaxOps, MaxFail, MaxCrash

gitea == <<repos, org, instance>>
budget == <<ops, fails, crashes>>
vars == <<runtime, gitea, asked, lost, budget>>

HasRepo(k) == repos[k] # NoRepo
Reachable == instance = "ready" /\ org.made

SharedOK ==
  /\ repos \in [Keys -> Repository \cup {NoRepo}]
  /\ org \in [cr : BOOLEAN, made : BOOLEAN]
  /\ instance \in {"pending", "ready", "gone"}
  /\ asked \in SUBSET Keys /\ lost \in SUBSET Keys
  /\ ops \in Nat /\ fails \in Nat /\ crashes \in Nat

GiteaInit ==
  /\ repos = [k \in Keys |-> NoRepo]
  /\ org = [cr |-> FALSE, made |-> FALSE]
  /\ instance = "pending"

Init ==
  /\ RuntimeInit /\ GiteaInit
  /\ asked = {} /\ lost = {}
  /\ ops = 0 /\ fails = 0 /\ crashes = 0

OnlyPass == UNCHANGED <<org, instance, asked, lost, budget>>
OnlyKubernetes == OnlyPass /\ UNCHANGED repos
OnlyGitea == OnlyPass /\ UNCHANGED store
OnlyLocal == OnlyKubernetes /\ UNCHANGED store

-----------------------------------------------------------------------------
(* The steps of a pass that the two controllers share.                     *)

(* A CR without spec.org makes BuildFromOrg panic; without the Org CR it   *)
(* fails, and an instance that is not ready is an error too.  Only behind  *)
(* it is the deletion timestamp looked at.                                 *)
Built == pass.obj.spec.owner # "user" /\ org.cr /\ instance = "ready"

BuildWith(delete, accepted) ==
  /\ At("BuildFromOrg")
  /\ \/ Built /\ delete /\ Goto("deleteRepo")
     \/ Built /\ pass.obj.del /\ ~delete /\ Done
     \/ Built /\ ~pass.obj.del /\ ~delete /\ accepted /\ Goto("GetRepo")
     \/ ~(Built /\ (pass.obj.del \/ delete \/ accepted)) /\ Retry
  /\ OnlyLocal

SetRepo(r) == repos' = [repos EXCEPT ![pass.key] = r]

DeleteRepoServed ==
  At("deleteRepo") /\ Reachable /\ HasRepo(pass.key) /\ SetRepo(NoRepo)

(* Variant for the mutation runs: the finalizer goes, the repository stays.*)
DeleteRepoSkipped == At("deleteRepo") /\ Goto("removeFinalizer") /\ OnlyLocal

(* deleteRepo; that there is no such repository is an error.               *)
DeleteRepo == DeleteRepoServed /\ Goto("removeFinalizer") /\ OnlyGitea

RemoveFinalizer == At("removeFinalizer") /\ Release /\ OnlyKubernetes

(* AddFinalizer and Update end the pass.                                   *)
AddFinalizer ==
  /\ At("addFinalizer")
  /\ \/ ~pass.obj.fin /\ Write([pass.obj EXCEPT !.fin = TRUE]) /\ Done
     \/ ~pass.obj.fin /\ Conflict /\ Retry
     \/ pass.obj.fin /\ Done /\ UNCHANGED store
  /\ OnlyKubernetes

-----------------------------------------------------------------------------
(* Failures.                                                               *)

Fail == fails < MaxFail /\ fails' = fails + 1 /\ UNCHANGED <<ops, crashes>>
Unfailed == UNCHANGED <<store, org, instance, asked, lost>>

Restart ==
  /\ crashes < MaxCrash /\ crashes' = crashes + 1
  /\ StartAgain
  /\ UNCHANGED <<gitea, asked, lost, ops, fails>>

Watch(k) == Observe(k) /\ UNCHANGED <<gitea, asked, lost, budget>>
Resync == Requeue /\ UNCHANGED <<gitea, asked, lost, budget>>

-----------------------------------------------------------------------------
(* People, the Org controller and the Gitea controller.                    *)

Operate == ops < MaxOps /\ ops' = ops + 1 /\ UNCHANGED <<fails, crashes>>

KubectlDelete(k) ==
  /\ Operate /\ PutDeleted(k)
  /\ asked' = asked \cup {k}
  /\ UNCHANGED <<gitea, lost>>

(* By hand in Gitea.                                                       *)
RegisterRepo(k, c) ==
  /\ Operate /\ Reachable /\ ~HasRepo(k)
  /\ repos' = [repos EXCEPT ![k] = [content |-> c, mirror |-> FALSE, by |-> "hand"]]
  /\ UNCHANGED <<runtime, org, instance, asked, lost>>

RemoveRepo(k) ==
  /\ Operate /\ HasRepo(k)
  /\ repos' = [repos EXCEPT ![k] = NoRepo]
  /\ lost' = lost \cup {k}
  /\ UNCHANGED <<runtime, org, instance, asked>>

(* The Org: its CR is applied, its controller makes the organisation, both *)
(* go.  Gitea does not delete an organisation that owns repositories.      *)
OrgApplied ==
  /\ ~org.cr
  /\ org' = [org EXCEPT !.cr = TRUE]
  /\ UNCHANGED <<runtime, repos, instance, asked, lost, budget>>

OrgMade ==
  /\ org.cr /\ ~org.made /\ instance = "ready"
  /\ org' = [org EXCEPT !.made = TRUE]
  /\ UNCHANGED <<runtime, repos, instance, asked, lost, budget>>

OrgGone ==
  /\ org.cr /\ Operate
  /\ \A k \in Keys : ~HasRepo(k)
  /\ org' = [cr |-> FALSE, made |-> FALSE]
  /\ UNCHANGED <<runtime, repos, instance, asked, lost>>

InstanceReady ==
  /\ instance = "pending" /\ instance' = "ready"
  /\ UNCHANGED <<runtime, repos, org, asked, lost, budget>>

DeleteInstance ==
  /\ Operate /\ instance # "gone" /\ instance' = "gone"
  /\ repos' = [k \in Keys |-> NoRepo]
  /\ lost' = lost \cup {k \in Keys : HasRepo(k)}
  /\ org' = [org EXCEPT !.made = FALSE]
  /\ UNCHANGED <<runtime, asked>>

ByHand ==
  \E k \in Keys : RemoveRepo(k) \/ \E c \in Contents : RegisterRepo(k, c)

Around == OrgApplied \/ OrgMade \/ OrgGone \/ InstanceReady \/ DeleteInstance

-----------------------------------------------------------------------------
(* A CR that a pass can serve.                                             *)
Servable(k) ==
  /\ instance = "ready" /\ org.cr /\ org.made
  /\ Exists(k) /\ ~cr[k].del /\ cr[k].spec.owner = "org"

=============================================================================
