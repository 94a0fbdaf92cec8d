-------------------------- MODULE RunnerController --------------------------
(***************************************************************************)
(* RunnerReconciler (internal/controller/runner_controller.go): fetches a  *)
(* registration token of the organisation from Gitea and makes a service   *)
(* account, a secret with the token and a StatefulSet, all named after the *)
(* Runner.  It watches Runners only, and puts no finalizer on: the garbage *)
(* collector takes the three away with their owner.                        *)
(***************************************************************************)
EXTENDS ControllerRuntime

CONSTANTS
  Replicas,   \* values of spec.replicas
  TLS,        \* spec.tls of the instance
  None,       \* no such object
  MaxOps,     \* bound: actions of people
  MaxFail,    \* bound: failed calls
  MaxCrash    \* bound: restarts of the operator

Kinds == {"sa", "secret", "sts"}

(* "uid" tells a CR from an earlier one of its name, "inOrg" whether       *)
(* spec.org is set; "tls" and "prov" are the status.                       *)
RunnerSpec == [replicas : Replicas, inOrg : BOOLEAN]
Runner == [spec : RunnerSpec, uid : Nat, tls : BOOLEAN, prov : BOOLEAN]

(* The objects, with the uid of their owner reference.                     *)
Children ==
  [sa : [owner : Nat] \cup {None},
   secret : [owner : Nat, token : Nat] \cup {None},
   sts : [owner : Nat, tls : BOOLEAN, replicas : Replicas] \cup {None}]

NoChildren == [sa |-> None, secret |-> None, sts |-> None]

(* A pass remembers what registrationToken returned; 0 is the empty token. *)
Memory == [token : Nat, tls : BOOLEAN]
Blank == [token |-> 0, tls |-> FALSE]

Calls == {"BuildFromOrg", "GetJSON", "tlsStatus", "sa", "secret", "sts", "status"}

ASSUME RunnerConstants ==
  /\ TLS \in BOOLEAN
  /\ Absent \notin Runner
  /\ None \notin [owner : Nat]
  /\ None \notin [owner : Nat, token : Nat]
  /\ None \notin [owner : Nat, tls : BOOLEAN, replicas : Replicas]
  /\ MaxOps \in Nat /\ MaxFail \in Nat /\ MaxCrash \in Nat

VARIABLES
  children,  \* the objects made under the name of each Runner
  removed,   \* history: <<key, kind>> that went since the Runner was made
  org,       \* whether the Org CR exists, and the organisation
  token,     \* the registration token Gitea hands out, a number
  instance,  \* the Gitea CR: "pending", "ready" (Status.Ready) or "gone"
  born,      \* how many Runners have been made
  ops, fails, crashes  \* counted against MaxOps, MaxFail, MaxCrash

gitea == <<org, token, instance>>
budget == <<ops, fails, crashes>>
vars == <<runtime, children, removed, gitea, born, budget>>

TypeOK ==
  /\ RuntimeOK(Calls, Runner, Memory)
  /\ children \in [Keys -> Children]
  /\ removed \in SUBSET (Keys \X Kinds)
  /\ org \in [cr : BOOLEAN, made : BOOLEAN]
  /\ token \in Nat /\ born \in Nat
  /\ instance \in {"pending", "ready", "gone"}
  /\ ops \in Nat /\ fails \in Nat /\ crashes \in Nat

Init ==
  /\ RuntimeInit
  /\ children = [k \in Keys |-> NoChildren]
  /\ removed = {}
  /\ org = [cr |-> FALSE, made |-> FALSE]
  /\ token = 1 /\ born = 0
  /\ instance = "pending"
  /\ ops = 0 /\ fails = 0 /\ crashes = 0

OnlyPass == UNCHANGED <<removed, gitea, born, budget>>
OnlyStatus == OnlyPass /\ UNCHANGED children
OnlyLocal == OnlyStatus /\ UNCHANGED store

-----------------------------------------------------------------------------
(* Reconcile, call by call.                                                *)

Reconcile(k) == Take(k, "BuildFromOrg", Blank) /\ OnlyStatus

(* Without spec.org BuildFromOrg panics.  An instance that is not ready    *)
(* makes it return nil, which registrationToken dereferences: a panic as   *)
(* well, recovered and retried like the error of a missing Org.            *)
BuildFromOrg ==
  /\ At("BuildFromOrg")
  /\ IF pass.obj.spec.inOrg /\ org.cr /\ instance = "ready"
       THEN Goto("GetJSON") ELSE Retry
  /\ OnlyLocal

(* The reply of GetJSON holds the token, or is an error message in JSON    *)
(* that has none; then the instance passes for one without TLS.            *)
GetJSON ==
  /\ At("GetJSON")
  /\ \/ instance # "ready" /\ Retry
     \/ /\ instance = "ready"
        /\ GotoWith("tlsStatus",
                    IF org.made THEN [token |-> token, tls |-> TLS] ELSE Blank)
  /\ OnlyLocal

(* Status().Update; an error ends the pass without being returned.         *)
StatusUpdate(o, call) ==
  \/ /\ Write(o)
     /\ pass' = [pass EXCEPT !.at = call, !.obj = o]
     /\ UNCHANGED queue
  \/ Conflict /\ Done

WithTLS == [pass.obj EXCEPT !.tls = pass.mem.tls]

(* Variants for the mutation runs: the missing token is not looked at, or  *)
(* ends the pass without a requeue.                                        *)
TLSStatusGoesOn ==
  At("tlsStatus") /\ StatusUpdate(WithTLS, "sa") /\ OnlyStatus

TLSStatusEnds ==
  /\ At("tlsStatus")
  /\ \/ pass.mem.token # 0 /\ StatusUpdate(WithTLS, "sa")
     \/ pass.mem.token = 0 /\ (Write(WithTLS) \/ Conflict) /\ Done
  /\ OnlyStatus

(* Status.TLS is written in every pass, and behind it a missing token asks *)
(* for a requeue.                                                          *)
TLSStatus ==
  /\ At("tlsStatus")
  /\ \/ pass.mem.token # 0 /\ StatusUpdate(WithTLS, "sa")
     \/ pass.mem.token = 0 /\ Write(WithTLS) /\ Retry
     \/ pass.mem.token = 0 /\ Conflict /\ Done
  /\ OnlyStatus

(* Get, and Create if it is not found: under the name of the Runner,       *)
(* whoever owns what is found there.                                       *)
Found(kind) == children[pass.key][kind] # None
Make(kind, child) == children' = [children EXCEPT ![pass.key][kind] = child]

Upsert(kind, child, call) ==
  /\ At(kind)
  /\ IF Found(kind) THEN UNCHANGED children ELSE Make(kind, child)
  /\ Goto(call)
  /\ OnlyPass /\ UNCHANGED store

UpsertRunnerSA == Upsert("sa", [owner |-> pass.obj.uid], "secret")

NewSecret == [owner |-> pass.obj.uid, token |-> pass.mem.token]

(* Variant for the mutation runs: the StatefulSet is left out.             *)
UpsertRunnerSecretLast == Upsert("secret", NewSecret, "status")

(* A secret that exists keeps its token.                                   *)
UpsertRunnerSecret == Upsert("secret", NewSecret, "sts")

NewSts == [owner |-> pass.obj.uid, tls |-> pass.obj.tls,
           replicas |-> pass.obj.spec.replicas]

AfterSts == IF pass.obj.prov THEN Done ELSE Goto("status")

(* Variant for the mutation runs: a StatefulSet is made once.              *)
UpsertRunnerStsOnce ==
  /\ At("sts")
  /\ IF Found("sts") THEN UNCHANGED children ELSE Make("sts", NewSts)
  /\ AfterSts
  /\ OnlyPass /\ UNCHANGED store

(* Of a StatefulSet that exists only the replicas are compared.            *)
UpsertRunnerSts ==
  /\ At("sts")
  /\ IF Found("sts")
       THEN children' = [children EXCEPT ![pass.key].sts.replicas =
                                           pass.obj.spec.replicas]
       ELSE Make("sts", NewSts)
  /\ AfterSts
  /\ OnlyPass /\ UNCHANGED store

ProvisionedStatus ==
  /\ At("status")
  /\ (Write([pass.obj EXCEPT !.prov = TRUE]) \/ Conflict) /\ Done
  /\ OnlyStatus

Step ==
  \/ BuildFromOrg \/ GetJSON \/ TLSStatus
  \/ UpsertRunnerSA \/ UpsertRunnerSecret \/ UpsertRunnerSts
  \/ ProvisionedStatus

-----------------------------------------------------------------------------
(* Failures, the watch, the garbage collector.                             *)

(* A call fails; the errors of the status updates are not returned.        *)
CallFails ==
  /\ fails < MaxFail /\ fails' = fails + 1
  /\ Running
  /\ IF pass.at \in {"tlsStatus", "status"} THEN Done ELSE Retry
  /\ UNCHANGED <<store, children, removed, gitea, born, ops, crashes>>

Restart ==
  /\ crashes < MaxCrash /\ crashes' = crashes + 1
  /\ StartAgain
  /\ UNCHANGED <<children, removed, gitea, born, ops, fails>>

Watch(k) == Observe(k) /\ UNCHANGED <<children, removed, gitea, born, budget>>
Resync == Requeue /\ UNCHANGED <<children, removed, gitea, born, budget>>

Present(k, kind) == children[k][kind] # None
OwnedBy(k, kind) == Exists(k) /\ children[k][kind].owner = cr[k].uid

Lose(k, kind) ==
  /\ Present(k, kind)
  /\ children' = [children EXCEPT ![k][kind] = None]
  /\ removed' = removed \cup {<<k, kind>>}
  /\ UNCHANGED <<runtime, gitea, born>>

(* The garbage collector takes what has no living owner.                   *)
Collect(k, kind) ==
  /\ Present(k, kind) /\ ~OwnedBy(k, kind)
  /\ Lose(k, kind) /\ UNCHANGED budget

-----------------------------------------------------------------------------
(* People, the Org controller and the Gitea controller.                    *)

Operate == ops < MaxOps /\ ops' = ops + 1 /\ UNCHANGED <<fails, crashes>>

CreateRunner(k, s) ==
  /\ Operate /\ ~Exists(k)
  /\ born' = born + 1
  /\ Put(k, [spec |-> s, uid |-> born', tls |-> FALSE, prov |-> FALSE])
  /\ removed' = {p \in removed : p[1] # k}
  /\ UNCHANGED <<children, gitea>>

EditRunner(k, s) ==
  /\ Operate /\ Exists(k) /\ cr[k].spec # s
  /\ Put(k, [cr[k] EXCEPT !.spec = s])
  /\ UNCHANGED <<children, removed, gitea, born>>

(* Nothing holds a Runner back.                                            *)
KubectlDelete(k) ==
  /\ Operate /\ Exists(k)
  /\ Put(k, Absent)
  /\ UNCHANGED <<children, removed, gitea, born>>

RemoveByHand(k, kind) == Operate /\ Lose(k, kind)

OrgApplied ==
  /\ ~org.cr
  /\ org' = [org EXCEPT !.cr = TRUE]
  /\ UNCHANGED <<runtime, children, removed, token, instance, born, budget>>

OrgMade ==
  /\ org.cr /\ ~org.made /\ instance = "ready"
  /\ org' = [org EXCEPT !.made = TRUE]
  /\ UNCHANGED <<runtime, children, removed, token, instance, born, budget>>

(* An organisation that comes after another one has tokens of its own.     *)
OrgGone ==
  /\ org.cr /\ Operate
  /\ org' = [cr |-> FALSE, made |-> FALSE]
  /\ token' = token + 1
  /\ UNCHANGED <<runtime, children, removed, instance, born>>

InstanceReady ==
  /\ instance = "pending" /\ instance' = "ready"
  /\ UNCHANGED <<runtime, children, removed, org, token, born, budget>>

DeleteInstance ==
  /\ instance # "gone" /\ Operate /\ instance' = "gone"
  /\ org' = [org EXCEPT !.made = FALSE]
  /\ UNCHANGED <<runtime, children, removed, token, born>>

People ==
  \/ \E k \in Keys :
       \/ KubectlDelete(k)
       \/ \E s \in RunnerSpec : CreateRunner(k, s) \/ EditRunner(k, s)
       \/ \E kind \in Kinds : RemoveByHand(k, kind)
  \/ OrgApplied \/ OrgMade \/ OrgGone \/ InstanceReady \/ DeleteInstance

Next ==
  \/ \E k \in Keys : Reconcile(k) \/ Watch(k) \/ \E kind \in Kinds : Collect(k, kind)
  \/ Step
  \/ CallFails \/ Restart \/ Resync
  \/ People

Spec == Init /\ [][Next]_vars

(* The worker runs, every queued key gets its turn, events arrive and the  *)
(* garbage collector does its work.                                        *)
Fairness ==
  /\ WF_vars(Step)
  /\ \A k \in Keys :
       /\ SF_vars(Reconcile(k)) /\ WF_vars(Watch(k))
       /\ \A kind \in Kinds : WF_vars(Collect(k, kind))

(* Resyncs go on, every ten hours.                                         *)
Resynced == WF_vars(Resync)

FairSpec == Spec /\ Fairness

-----------------------------------------------------------------------------
(* Properties.                                                             *)

(* A StatefulSet has the CA bundle of its instance mounted exactly when    *)
(* the instance uses TLS: Status.TLS, which says "no" in each pass without *)
(* a token and "yes" in the others, is right where the volumes are chosen. *)
MountsCA == \A k \in Keys : Present(k, "sts") => children[k].sts.tls = TLS

(* Status.Provisioned is true: the three objects are there, or went since  *)
(* the Runner was made, as those do that an earlier Runner of its name     *)
(* left behind and this one found.                                         *)
ProvisionedHasChildren ==
  \A k \in Keys :
    Exists(k) /\ cr[k].prov =>
      \A kind \in Kinds : Present(k, kind) \/ <<k, kind>> \in removed

(* A Runner that can be served.                                            *)
Servable(k) ==
  instance = "ready" /\ org.cr /\ org.made /\ Exists(k) /\ cr[k].spec.inOrg

(* It becomes ready by events and requeues alone, whichever of Runner, Org *)
(* and instance comes last, as long as no status update fails.             *)
BecomesReady ==
  \A k \in Keys :
    <>[](Servable(k) /\ fails = 0 => cr[k].prov)

(* With resyncs, a served Runner ends up with objects of its own, and as   *)
(* many replicas as its spec says, also when it took over those of an      *)
(* earlier one, which the garbage collector then removes.                  *)
RunnerConverges ==
  Resynced =>
    \A k \in Keys :
      <>[](Servable(k) =>
             /\ \A kind \in Kinds : Present(k, kind) /\ OwnedBy(k, kind)
             /\ children[k].sts.replicas = cr[k].spec.replicas)

(* The secret of a served Runner holds a token that Gitea accepts.  It     *)
(* does not: a secret that exists is left alone, also when organisation    *)
(* and token are new ones.                                                 *)
TokenCurrent ==
  Resynced =>
    \A k \in Keys :
      <>[](Servable(k) /\ Present(k, "secret") => children[k].secret.token = token)

=============================================================================
