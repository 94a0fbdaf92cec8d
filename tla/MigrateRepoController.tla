------------------------ MODULE MigrateRepoController ------------------------
(***************************************************************************)
(* MigrateRepoReconciler (internal/controller/migraterepo_controller.go):  *)
(* has Gitea migrate a repository from elsewhere, and puts the finalizer   *)
(* on behind it.  One that exists, whoever made it, ends the pass.         *)
(***************************************************************************)
EXTENDS Repositories

CONSTANT Specs   \* the specs people write (bounds the input)

(* "service": whether the spec names one that lookupGitService knows.      *)
MigrateRepoSpec == [owner : Owner, content : Contents, service : BOOLEAN]
MigrateRepoCR == [spec : MigrateRepoSpec, fin : BOOLEAN, del : BOOLEAN]

Calls == {"BuildFromOrg", "deleteRepo", "removeFinalizer", "GetRepo",
          "MigrateRepo", "addFinalizer"}

(* Assumed of the constants, by the modules that instantiate this one.     *)
MigrateRepoConstants ==
  Specs \subseteq MigrateRepoSpec /\ Absent \notin MigrateRepoCR

(* A MigrateRepo pass remembers nothing between its calls.                 *)
Blank == "nothing"

TypeOK == RuntimeOK(Calls, MigrateRepoCR, {Blank}) /\ SharedOK

-----------------------------------------------------------------------------

Reconcile(k) == Take(k, "BuildFromOrg", Blank) /\ OnlyKubernetes

(* Variant for the mutation runs: what was migrated once is not looked at. *)
BuildOnce ==
  IF At("BuildFromOrg") /\ pass.obj.fin /\ ~pass.obj.del
    THEN Done /\ OnlyLocal
    ELSE BuildWith(pass.obj.del /\ pass.obj.fin, TRUE)

Build == BuildWith(pass.obj.del /\ pass.obj.fin, TRUE)

(* Variant for the mutation runs: a repository that exists is adopted.     *)
GetRepoAdopts ==
  /\ At("GetRepo") /\ instance = "ready"
  /\ Goto(IF HasRepo(pass.key) THEN "addFinalizer" ELSE "MigrateRepo")
  /\ OnlyLocal

(* Behind GetRepo, lookupGitService: an unnamed service is an error.       *)
GetRepo ==
  /\ At("GetRepo") /\ instance = "ready"
  /\ \/ HasRepo(pass.key) /\ Done
     \/ ~HasRepo(pass.key) /\ pass.obj.spec.service /\ Goto("MigrateRepo")
     \/ ~HasRepo(pass.key) /\ ~pass.obj.spec.service /\ Retry
  /\ OnlyLocal

MigrateRepoServed ==
  /\ At("MigrateRepo") /\ Reachable /\ ~HasRepo(pass.key)
  /\ SetRepo([content |-> pass.obj.spec.content, mirror |-> FALSE,
              by |-> "MigrateRepo"])

MigrateRepo == MigrateRepoServed /\ Goto("addFinalizer") /\ OnlyGitea

Refused ==
  /\ \/ At("GetRepo") /\ instance # "ready"
     \/ At("deleteRepo") /\ ~(Reachable /\ HasRepo(pass.key))
     \/ At("MigrateRepo") /\ ~(Reachable /\ ~HasRepo(pass.key))
  /\ Retry /\ OnlyLocal

Step ==
  \/ Build \/ DeleteRepo \/ RemoveFinalizer
  \/ GetRepo \/ MigrateRepo \/ AddFinalizer \/ Refused

CallFails == Fail /\ Unfailed /\ UNCHANGED repos /\ Running /\ Retry

(* The reply does not arrive: the client gives up after ten seconds, which *)
(* a migration may well take.                                              *)
ReplyLost ==
  /\ Fail /\ Unfailed
  /\ DeleteRepoServed \/ MigrateRepoServed
  /\ Retry

ApplyMigrateRepo(k, s) ==
  /\ Operate
  /\ \/ ~Exists(k) /\ Put(k, [spec |-> s, fin |-> FALSE, del |-> FALSE])
     \/ Exists(k) /\ cr[k].spec # s /\ Put(k, [cr[k] EXCEPT !.spec = s])
  /\ UNCHANGED <<gitea, asked, lost>>

People ==
  \E k \in Keys : KubectlDelete(k) \/ \E s \in Specs : ApplyMigrateRepo(k, s)

Next ==
  \/ \E k \in Keys : Reconcile(k) \/ Watch(k)
  \/ Step
  \/ CallFails \/ ReplyLost \/ Restart \/ Resync
  \/ People \/ ByHand \/ Around

Spec == Init /\ [][Next]_vars

=============================================================================
