--------------------------- MODULE RepoController ---------------------------
(***************************************************************************)
(* RepoReconciler (internal/controller/repo_controller.go): creates the    *)
(* repository of a Repo CR, its push mirror, the status and the finalizer, *)
(* in that order.  The branch for spec.user behind them is never reached:  *)
(* BuildFromOrg needs spec.org, and both together are refused.             *)
(***************************************************************************)
EXTENDS Repositories

CONSTANT Specs   \* the specs people write (bounds the input)

(* "mirror": whether push_mirror names a remote.                           *)
RepoSpec == [owner : Owner, content : Contents, mirror : BOOLEAN]
Repo == [spec : RepoSpec, fin : BOOLEAN, del : BOOLEAN, prov : BOOLEAN]

Calls == {"BuildFromOrg", "deleteRepo", "removeFinalizer", "GetRepo", "EditRepo",
          "CreateOrgRepo", "PushMirrors", "status", "addFinalizer"}

(* Assumed of the constants, by the modules that instantiate this one.     *)
RepoConstants == Specs \subseteq RepoSpec /\ Absent \notin Repo

(* A Repo pass remembers nothing between its calls.                        *)
Blank == "nothing"

TypeOK == RuntimeOK(Calls, Repo, {Blank}) /\ SharedOK

-----------------------------------------------------------------------------

Reconcile(k) == Take(k, "BuildFromOrg", Blank) /\ OnlyKubernetes

(* Variants for the mutation runs.                                         *)
BuildAlwaysDeletes == BuildWith(pass.obj.fin, pass.obj.spec.owner = "org")
BuildNeverDeletes == BuildWith(FALSE, pass.obj.spec.owner = "org")

(* Behind BuildFromOrg and the deletion: both owners are an error.         *)
Build == BuildWith(pass.obj.del /\ pass.obj.fin, pass.obj.spec.owner = "org")

(* A repository that exists is edited when it compares unequal, and then,  *)
(* like any other, created.                                                *)
GetRepo ==
  /\ At("GetRepo") /\ instance = "ready"
  /\ Goto(IF HasRepo(pass.key) /\ repos[pass.key].content # pass.obj.spec.content
            THEN "EditRepo" ELSE "CreateOrgRepo")
  /\ OnlyLocal

(* The options of EditRepo are empty: it changes nothing.                  *)
EditRepo ==
  /\ At("EditRepo") /\ Reachable /\ HasRepo(pass.key)
  /\ Goto("CreateOrgRepo")
  /\ OnlyLocal

CreateOrgRepoServed ==
  /\ At("CreateOrgRepo") /\ Reachable /\ ~HasRepo(pass.key)
  /\ SetRepo([content |-> pass.obj.spec.content, mirror |-> FALSE, by |-> "Repo"])

AfterMirror == IF pass.obj.prov THEN "addFinalizer" ELSE "status"

(* Variant for the mutation runs: the mirror is never asked for.           *)
CreateOrgRepoOnly == CreateOrgRepoServed /\ Goto(AfterMirror) /\ OnlyGitea

CreateOrgRepo ==
  /\ CreateOrgRepoServed
  /\ Goto(IF pass.obj.spec.mirror THEN "PushMirrors" ELSE AfterMirror)
  /\ OnlyGitea

(* The error of PushMirrors is dropped.                                    *)
PushMirrors ==
  /\ At("PushMirrors")
  /\ IF Reachable /\ HasRepo(pass.key)
       THEN repos' = [repos EXCEPT ![pass.key].mirror = TRUE]
       ELSE UNCHANGED repos
  /\ Goto(AfterMirror)
  /\ OnlyGitea

StatusUpdate ==
  /\ At("status")
  /\ Update([pass.obj EXCEPT !.prov = TRUE], "addFinalizer")
  /\ OnlyKubernetes

(* Gitea does not know the repository or the organisation, has one of that *)
(* name already, or is not there.                                          *)
NotServed ==
  \/ At("GetRepo") /\ instance # "ready"
  \/ At("deleteRepo") /\ ~(Reachable /\ HasRepo(pass.key))
  \/ At("EditRepo") /\ ~(Reachable /\ HasRepo(pass.key))
  \/ At("CreateOrgRepo") /\ ~(Reachable /\ ~HasRepo(pass.key))

(* Variant for the mutation runs: the error is dropped.                    *)
RefusedDropped == NotServed /\ Done /\ OnlyLocal

Refused == NotServed /\ Retry /\ OnlyLocal

Step ==
  \/ Build \/ DeleteRepo \/ RemoveFinalizer
  \/ GetRepo \/ EditRepo \/ CreateOrgRepo \/ PushMirrors
  \/ StatusUpdate \/ AddFinalizer \/ Refused

CallFails ==
  /\ Fail /\ Unfailed /\ UNCHANGED repos
  /\ \/ Running /\ ~At("PushMirrors") /\ Retry
     \/ At("PushMirrors") /\ Goto(AfterMirror)

(* Gitea did what the call asked for and the reply did not arrive.         *)
ReplyLost ==
  /\ Fail /\ Unfailed
  /\ DeleteRepoServed \/ CreateOrgRepoServed
  /\ Retry

ApplyRepo(k, s) ==
  /\ Operate
  /\ \/ ~Exists(k) /\ Put(k, [spec |-> s, fin |-> FALSE, del |-> FALSE, prov |-> FALSE])
     \/ Exists(k) /\ cr[k].spec # s /\ Put(k, [cr[k] EXCEPT !.spec = s])
  /\ UNCHANGED <<gitea, asked, lost>>

People ==
  \E k \in Keys : KubectlDelete(k) \/ \E s \in Specs : ApplyRepo(k, s)

Next ==
  \/ \E k \in Keys : Reconcile(k) \/ Watch(k)
  \/ Step
  \/ CallFails \/ ReplyLost \/ Restart \/ Resync
  \/ People \/ ByHand \/ Around

Spec == Init /\ [][Next]_vars

=============================================================================
