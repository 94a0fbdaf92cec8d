---------------------------- MODULE ObjectStorage ----------------------------
(***************************************************************************)
(* The object storage of a Gitea instance: upsertObject and deleteObject   *)
(* of GiteaReconciler (internal/controller/gitea_controller.go) and the    *)
(* cloud clients they call (internal/client/object.go).  An instance gets  *)
(* a bucket named after its host, an account that may use the bucket, keys *)
(* of the account in a secret, and the finalizer that has all of it        *)
(* deleted with the instance.                                              *)
(*                                                                         *)
(* The rest of reconcileGitea is module GiteaController; of it remain here *)
(* that a pass gets to the object storage only when the database is up,    *)
(* and that a pass which is through configures the pods with the bucket.   *)
(***************************************************************************)
EXTENDS ControllerRuntime

CONSTANTS
  Providers,  \* among "s3" and "gcs", values of spec.objectStorage.type
  Hosts,      \* values of spec.ingress.host, after which buckets are named
  None,       \* no such thing
  KeyLimit,   \* access keys that an account of S3 may have
  MaxOps,     \* bound: actions of people
  MaxFaults,  \* bound: failed calls and restarts of the operator, together
  Turns       \* bound: whether the database goes down and the page shifts

(* "uid" tells a CR from an earlier one of its name; "fin" and "del" are   *)
(* finalizer and deletion timestamp.                                       *)
Gitea == [host : Hosts, uid : Nat, fin : BOOLEAN, del : BOOLEAN]

(* What the cloud has for an instance.  "policy" is the host of the policy *)
(* of S3, "bound" those whose bucket has a binding for the account on GCS; *)
(* "full" are the buckets with objects in them.  "listed" says whether the *)
(* account is on the first page of the accounts of the project, the only   *)
(* one that is read; "missed" is history: whether a deletion did not see   *)
(* the account there and left it.                                          *)
Cloud ==
  [buckets : SUBSET Hosts, full : SUBSET Hosts, account : BOOLEAN,
   listed : BOOLEAN, missed : BOOLEAN,
   policy : Hosts \cup {None}, attached : BOOLEAN, bound : SUBSET Hosts,
   keys : 0 .. KeyLimit]

NoCloud ==
  [buckets |-> {}, full |-> {}, account |-> FALSE, listed |-> FALSE, missed |-> FALSE,
   policy |-> None, attached |-> FALSE, bound |-> {}, keys |-> 0]

(* The secret with the keys: whether they still work, the host they were   *)
(* made for, and the uid in the owner reference.                           *)
Secret == [works : BOOLEAN, for : Hosts, owner : Nat]

(* Nothing is remembered between the calls of a pass but its copy.         *)
Nothing == "nothing"

Calls ==
  {"pgRunning", "ListBuckets", "CreateBucket", "getObjectStorage",
   "CreateUser", "CreatePolicy", "AttachUserPolicy", "SetPolicy", "CreateKey",
   "upsertSecret", "AddFinalizer", "deletion", "DetachUserPolicy", "DeletePolicy",
   "DeleteAccessKey", "DeleteUser", "DeleteObjects", "DeleteBucket",
   "RemoveFinalizer", "InlineConfig"}

ASSUME ObjectConstants ==
  /\ Providers \subseteq {"s3", "gcs"}
  /\ Absent \notin Gitea
  /\ None \notin Hosts /\ None \notin Secret
  /\ KeyLimit \in Nat \ {0}
  /\ MaxOps \in Nat /\ MaxFaults \in Nat /\ Turns \in BOOLEAN

VARIABLES
  cloud,   \* what the cloud has for each instance
  secret,  \* the secret of each instance
  seen,    \* the informer's copy of the secret
  pods,    \* the host in whose bucket the pods store, or None
  db,      \* whether the database is up
  provider,  \* spec.objectStorage.type of each name, which stays what it is
  asked,   \* history: instances somebody asked to delete
  born,    \* how many have been made
  ops, faults  \* counted against MaxOps, MaxFaults

budget == <<ops, faults>>
vars == <<runtime, cloud, secret, seen, pods, db, provider, asked, born, budget>>

TypeOK ==
  /\ RuntimeOK(Calls, Gitea, {Nothing})
  /\ cloud \in [Keys -> Cloud]
  /\ secret \in [Keys -> Secret \cup {None}]
  /\ seen \in [Keys -> Secret \cup {None}]
  /\ pods \in [Keys -> Hosts \cup {None}]
  /\ db \in BOOLEAN
  /\ provider \in [Keys -> Providers]
  /\ asked \in SUBSET Keys
  /\ born \in Nat
  /\ ops \in Nat /\ faults \in Nat

Init ==
  /\ RuntimeInit
  /\ cloud = [k \in Keys |-> NoCloud]
  /\ secret = [k \in Keys |-> None] /\ seen = secret
  /\ pods = [k \in Keys |-> None]
  /\ db = FALSE
  /\ provider \in [Keys -> Providers]
  /\ asked = {}
  /\ born = 0
  /\ ops = 0 /\ faults = 0

OnlyPass == UNCHANGED <<seen, db, provider, asked, born, budget>>
OnlyCloud == OnlyPass /\ UNCHANGED <<store, secret, pods>>
OnlyLocal == OnlyCloud /\ UNCHANGED cloud
OnlyStore == OnlyPass /\ UNCHANGED <<cloud, secret, pods>>

(* The cloud's part of the pass's instance, and a change of it.            *)
mine == cloud[pass.key]
host == pass.obj.host
S3 == provider[pass.key] = "s3"
Cloudwise(c) == cloud' = [cloud EXCEPT ![pass.key] = c]

-----------------------------------------------------------------------------
(* upsertObject.                                                           *)

Reconcile(k) == Take(k, "pgRunning", Nothing) /\ OnlyLocal

(* The Result that asks for a requeue is dropped by Reconcile.             *)
PgRunning ==
  /\ At("pgRunning")
  /\ IF db THEN Goto("ListBuckets") ELSE Done
  /\ OnlyLocal

ListBuckets ==
  /\ At("ListBuckets")
  /\ IF host \in mine.buckets THEN Goto("getObjectStorage") ELSE Goto("CreateBucket")
  /\ OnlyLocal

CreateBucket ==
  /\ At("CreateBucket")
  /\ Cloudwise([mine EXCEPT !.buckets = @ \cup {host}])
  /\ Goto("getObjectStorage")
  /\ OnlyCloud

(* Variant for the mutation runs: keys are made once, whether or not they  *)
(* got into the secret.                                                    *)
GetObjectStorageOnce ==
  /\ At("getObjectStorage")
  /\ IF seen[pass.key] # None \/ mine.keys > 0 THEN Goto("deletion")
     ELSE Goto("CreateUser")
  /\ OnlyLocal

(* With both values in the secret upsertObject returns.                    *)
GetObjectStorage ==
  /\ At("getObjectStorage")
  /\ IF seen[pass.key] # None THEN Goto("deletion") ELSE Goto("CreateUser")
  /\ OnlyLocal

(* Credentials: the account is looked for on the first page of the list,   *)
(* and made if it is not there, which is refused if it exists.             *)
CreateUser ==
  /\ At("CreateUser")
  /\ IF mine.account
       THEN UNCHANGED cloud
       ELSE \E l \in BOOLEAN : Cloudwise([mine EXCEPT !.account = TRUE, !.listed = l])
  /\ CASE mine.account /\ ~mine.listed -> Retry
       [] ~(mine.account /\ ~mine.listed) ->
            IF S3 THEN Goto("CreatePolicy") ELSE Goto("SetPolicy")
  /\ OnlyCloud

(* Of S3: a policy that is found is left as it is, attached or not.        *)
CreatePolicy ==
  /\ At("CreatePolicy")
  /\ IF mine.policy # None
       THEN Goto("CreateKey") /\ UNCHANGED cloud
       ELSE /\ Cloudwise([mine EXCEPT !.policy = host])
            /\ Goto("AttachUserPolicy")
  /\ OnlyCloud

AttachUserPolicy ==
  /\ At("AttachUserPolicy")
  /\ Cloudwise([mine EXCEPT !.attached = TRUE])
  /\ Goto("CreateKey")
  /\ OnlyCloud

(* Variant for the mutation runs: the binding is not written back.         *)
SetPolicyUnsaved == At("SetPolicy") /\ Goto("CreateKey") /\ OnlyLocal

(* Of GCS: the binding is added in every pass that gets here.              *)
SetPolicy ==
  /\ At("SetPolicy")
  /\ Cloudwise([mine EXCEPT !.bound = @ \cup {host}])
  /\ Goto("CreateKey")
  /\ OnlyCloud

(* CreateAccessKey or CreateHMACKey; only the limit of S3 is within reach. *)
CreateKey ==
  /\ At("CreateKey")
  /\ IF S3 /\ mine.keys = KeyLimit
       THEN Retry /\ UNCHANGED cloud
       ELSE /\ Cloudwise([mine EXCEPT !.keys = IF S3 THEN @ + 1 ELSE @])
            /\ Goto("upsertSecret")
  /\ OnlyCloud

NewSecret == [works |-> TRUE, for |-> host, owner |-> pass.obj.uid]

(* upsertSecret with once = false: Get from the cache, then Create or      *)
(* Update, each refused when the cache was wrong.  The Update restarts the *)
(* pods, which goes with the next pass here.                               *)
UpsertSecret ==
  /\ At("upsertSecret")
  /\ IF (seen[pass.key] = None) = (secret[pass.key] = None)
       THEN /\ secret' = [secret EXCEPT ![pass.key] = NewSecret]
            /\ Goto("AddFinalizer")
       ELSE Retry /\ UNCHANGED secret
  /\ OnlyPass /\ UNCHANGED <<store, cloud, pods>>

AddFinalizer ==
  /\ At("AddFinalizer")
  /\ \/ pass.obj.fin /\ Goto("deletion") /\ UNCHANGED store
     \/ ~pass.obj.fin /\ Update([pass.obj EXCEPT !.fin = TRUE], "deletion")
  /\ OnlyStore

-----------------------------------------------------------------------------
(* deleteObject, for an instance marked for deletion.                      *)

(* Variant for the mutation runs: the deletion starts with the bucket.     *)
DeletionBucketFirst ==
  /\ At("deletion")
  /\ IF ~pass.obj.del THEN Goto("InlineConfig") ELSE Goto("DeleteObjects")
  /\ OnlyLocal

Deletion ==
  /\ At("deletion")
  /\ CASE ~pass.obj.del -> Goto("InlineConfig")
       [] pass.obj.del /\ ~pass.obj.fin -> Done
       [] pass.obj.del /\ pass.obj.fin ->
            IF S3 THEN Goto("DetachUserPolicy") ELSE Goto("DeleteUser")
  /\ OnlyLocal

(* DeleteUser of S3, in which every step puts up with NoSuchEntity.        *)
DetachUserPolicy ==
  /\ At("DetachUserPolicy")
  /\ Cloudwise([mine EXCEPT !.attached = FALSE])
  /\ Goto("DeletePolicy")
  /\ OnlyCloud

DeletePolicy ==
  /\ At("DeletePolicy")
  /\ Cloudwise([mine EXCEPT !.policy = None])
  /\ Goto("DeleteAccessKey")
  /\ OnlyCloud

(* No key of the account works any more.                                   *)
Revoke ==
  secret' = [secret EXCEPT ![pass.key] =
               IF @ = None THEN None ELSE [@ EXCEPT !.works = FALSE]]

DeleteAccessKey ==
  /\ At("DeleteAccessKey")
  /\ Cloudwise([mine EXCEPT !.keys = 0])
  /\ Revoke
  /\ Goto("DeleteUser")
  /\ OnlyPass /\ UNCHANGED <<store, pods>>

(* Variant for the mutation runs: the account is not looked for.           *)
DeleteUserSkipped == At("DeleteUser") /\ Goto("DeleteObjects") /\ OnlyLocal

(* On GCS the account is looked for on the first page of the list, where   *)
(* one that is not found passes for gone, and takes its keys with it.      *)
DeleteUser ==
  /\ At("DeleteUser")
  /\ IF S3 \/ mine.listed
       THEN /\ Cloudwise([mine EXCEPT !.account = FALSE, !.listed = FALSE, !.bound = {}])
            /\ Revoke
       ELSE Cloudwise([mine EXCEPT !.missed = @ \/ mine.account]) /\ UNCHANGED secret
  /\ Goto("DeleteObjects")
  /\ OnlyPass /\ UNCHANGED <<store, pods>>

(* Variant for the mutation runs: the objects are left in the bucket.      *)
DeleteObjectsLeft == At("DeleteObjects") /\ Goto("DeleteBucket") /\ OnlyLocal

(* DeleteBucket of S3 deletes the objects first, that of GCS does not.     *)
DeleteObjects ==
  /\ At("DeleteObjects")
  /\ Cloudwise([mine EXCEPT !.full = IF S3 THEN @ \ {host} ELSE @])
  /\ Goto("DeleteBucket")
  /\ OnlyCloud

(* A bucket that is not empty is refused, and one that is not there; with  *)
(* it go its bindings.                                                     *)
DeleteBucket ==
  /\ At("DeleteBucket")
  /\ IF host \in mine.buckets \ mine.full
       THEN /\ Cloudwise([mine EXCEPT !.buckets = @ \ {host}, !.bound = @ \ {host}])
            /\ Goto("RemoveFinalizer")
       ELSE Retry /\ UNCHANGED cloud
  /\ OnlyCloud

RemoveFinalizer == At("RemoveFinalizer") /\ Release /\ OnlyStore

(* The CR that the pass has a copy of, or one that was made in its place.  *)
Same(k) == Exists(k) /\ cr[k].uid = pass.obj.uid

(* The rest of the pass gives bucket and keys to the pods.                 *)
InlineConfig ==
  /\ At("InlineConfig")
  /\ pods' = IF Same(pass.key) THEN [pods EXCEPT ![pass.key] = host] ELSE pods
  /\ Done
  /\ OnlyPass /\ UNCHANGED <<store, cloud, secret>>

Step ==
  \/ PgRunning \/ ListBuckets \/ CreateBucket \/ GetObjectStorage
  \/ CreateUser \/ CreatePolicy \/ AttachUserPolicy \/ SetPolicy \/ CreateKey
  \/ UpsertSecret \/ AddFinalizer \/ Deletion
  \/ DetachUserPolicy \/ DeletePolicy \/ DeleteAccessKey \/ DeleteUser
  \/ DeleteObjects \/ DeleteBucket \/ RemoveFinalizer \/ InlineConfig

-----------------------------------------------------------------------------
(* Failures, watches, the garbage collector, the pods, the database.       *)

Others == UNCHANGED <<cloud, secret, pods, db, provider, asked, born>>

(* A call of the pass fails, without effect, and is returned as an error.  *)
CallFails ==
  /\ faults < MaxFaults /\ faults' = faults + 1
  /\ Running /\ ~At("pgRunning") /\ ~At("deletion")
  /\ Retry
  /\ Others /\ UNCHANGED <<store, seen, ops>>

Restart ==
  /\ faults < MaxFaults /\ faults' = faults + 1
  /\ StartAgain /\ seen' = secret
  /\ Others /\ UNCHANGED ops

Watch(k) == Observe(k) /\ Others /\ UNCHANGED <<seen, budget>>
Resync == Requeue /\ Others /\ UNCHANGED <<seen, budget>>

(* Owns(&corev1.Secret{}): an event of the secret brings its instance back *)
(* into the queue.                                                         *)
WatchSecret(k) ==
  /\ seen[k] # secret[k]
  /\ seen' = [seen EXCEPT ![k] = secret[k]]
  /\ queue' = queue \cup {k}
  /\ Others /\ UNCHANGED <<store, pass, budget>>

(* The garbage collector takes what has no living owner.                   *)
Collect(k) ==
  /\ secret[k] # None /\ ~(Exists(k) /\ secret[k].owner = cr[k].uid)
  /\ secret' = [secret EXCEPT ![k] = None]
  /\ UNCHANGED <<runtime, cloud, seen, pods, db, provider, asked, born, budget>>

CollectPods(k) ==
  /\ ~Exists(k) /\ pods[k] # None
  /\ pods' = [pods EXCEPT ![k] = None]
  /\ UNCHANGED <<runtime, cloud, secret, seen, db, provider, asked, born, budget>>

(* The keys in the secret open the bucket of h.                            *)
Opens(k, h) ==
  /\ secret[k] # None /\ secret[k].works
  /\ \/ cloud[k].attached /\ cloud[k].policy = h
     \/ h \in cloud[k].bound

(* Gitea stores something.                                                 *)
WriteObject(k) ==
  /\ pods[k] \in cloud[k].buckets \ cloud[k].full /\ Opens(k, pods[k])
  /\ cloud' = [cloud EXCEPT ![k].full = @ \cup {pods[k]}]
  /\ UNCHANGED <<runtime, secret, seen, pods, db, provider, asked, born, budget>>

(* An event of the database, which is owned by its instance.               *)
DatabaseUp ==
  /\ ~db /\ db' = TRUE
  /\ queue' = queue \cup {k \in Keys : cache[k] # Absent}
  /\ UNCHANGED <<store, pass, cloud, secret, seen, pods, provider, asked, born, budget>>

-----------------------------------------------------------------------------
(* People.                                                                 *)

Operate == ops < MaxOps /\ ops' = ops + 1 /\ UNCHANGED faults

DatabaseDown ==
  /\ Turns /\ Operate
  /\ db /\ db' = FALSE
  /\ UNCHANGED <<runtime, cloud, secret, seen, pods, provider, asked, born>>

CreateGitea(k, h) ==
  /\ Operate /\ ~Exists(k)
  /\ born' = born + 1
  /\ Put(k, [host |-> h, uid |-> born', fin |-> FALSE, del |-> FALSE])
  /\ UNCHANGED <<cloud, secret, seen, pods, db, provider, asked>>

EditHost(k, h) ==
  /\ Operate /\ Exists(k) /\ cr[k].host # h
  /\ Put(k, [cr[k] EXCEPT !.host = h])
  /\ Others /\ UNCHANGED seen

KubectlDelete(k) ==
  /\ Operate /\ PutDeleted(k)
  /\ asked' = asked \cup {k}
  /\ UNCHANGED <<cloud, secret, pods, db, provider, born, seen>>

(* Other accounts of the project come or go, and push the account of k off *)
(* the first page or back.                                                 *)
Crowd(k) ==
  /\ Turns /\ Operate
  /\ cloud[k].account
  /\ cloud' = [cloud EXCEPT ![k].listed = ~@]
  /\ UNCHANGED <<runtime, secret, seen, pods, db, provider, asked, born>>

People ==
  \/ \E k \in Keys, h \in Hosts : CreateGitea(k, h) \/ EditHost(k, h)
  \/ \E k \in Keys : KubectlDelete(k) \/ Crowd(k)
  \/ DatabaseDown

Next ==
  \/ \E k \in Keys :
       \/ Reconcile(k) \/ Watch(k) \/ WatchSecret(k)
       \/ Collect(k) \/ CollectPods(k) \/ WriteObject(k)
  \/ Step
  \/ CallFails \/ Restart \/ Resync
  \/ DatabaseUp \/ People

Spec == Init /\ [][Next]_vars

(* The worker runs, every queued key gets its turn, events arrive, the     *)
(* garbage collector works and the database comes back.                    *)
Fairness ==
  /\ WF_vars(Step) /\ WF_vars(DatabaseUp)
  /\ \A k \in Keys :
       /\ SF_vars(Reconcile(k)) /\ WF_vars(Watch(k)) /\ WF_vars(WatchSecret(k))
       /\ WF_vars(Collect(k)) /\ WF_vars(CollectPods(k))

FairSpec == Spec /\ Fairness

-----------------------------------------------------------------------------
(* Properties.                                                             *)

(* The account of an instance is a managed resource: the finalizer goes    *)
(* only after it did, also when the deletion was interrupted, and it goes  *)
(* only for an instance somebody asked to delete.  It is made before the   *)
(* finalizer is on.  An account that DeleteUser of GCS did not see on its  *)
(* page is lost from then on: this promises nothing of it.                 *)
Managed ==
  INSTANCE ManagedResource WITH
    HoldFirst <- FALSE,
    Alike <- [k \in Keys |-> {k}],
    there <- {k \in Keys : Exists(k)},
    held <- {k \in Keys : Exists(k) /\ cr[k].fin},
    thing <- {k \in Keys : cloud[k].account /\ ~cloud[k].missed},
    lost <- {k \in Keys : cloud[k].missed}

ImplementsManaged == Managed!Spec

(* Objects and buckets go only of an instance somebody asked to delete,    *)
(* when no account is left that could write again, or only one that GCS    *)
(* did not show on its first page, and before the finalizer does, although *)
(* upsertObject, which goes first in every pass, makes the bucket of a     *)
(* deletion that is repeated once more.                                    *)
BucketsDeletedLast ==
  [][\A k \in Keys :
       /\ ~(cloud[k].buckets \cup cloud[k].full
              \subseteq cloud'[k].buckets \cup cloud'[k].full) =>
            k \in asked /\ (cloud[k].account => cloud[k].missed)
       /\ Exists(k) /\ cr[k].fin /\ cr'[k] = Absent =>
            cr[k].host \notin cloud[k].buckets]_vars

(* "Finalizers: Used for cleanup of external resources (object storage     *)
(* buckets, cloud IAM users)", .github/copilot-instructions.md:29.  The    *)
(* finalizer goes when no account is left.  It fails on GCS for an account *)
(* that is not on the first page of the list.                              *)
AccountCleanedUp ==
  [][\A k \in Keys :
       Exists(k) /\ cr[k].fin /\ cr'[k] = Absent => ~cloud[k].account]_vars

(* The same sentence of an instance however it goes.  It fails also on S3: *)
(* the account is made before the finalizer that has it deleted.           *)
NoAccountLeft == \A k \in Keys : cloud[k].account => Exists(k)

(* Keys that the secret hands to the pods open the bucket they were made   *)
(* for, also after a deletion that was repeated; of an account that a      *)
(* deletion missed the bucket may be gone.                                 *)
KeysOpen(t) ==
  \A k \in Keys :
    secret[k] # None /\ secret[k].works /\ provider[k] = t =>
      cloud[k].missed \/ Opens(k, secret[k].for)

(* On GCS, where the binding is renewed in every pass that makes keys.     *)
KeysOpenGCS == KeysOpen("gcs")

(* "Create User, and Policy in AWS", object.go:231, and line 289: "Attach  *)
(* the role to the user".  It fails on S3: a pass that ends between        *)
(* CreatePolicy and AttachUserPolicy leaves a policy that the next pass    *)
(* finds and takes for attached.                                           *)
KeysOpenS3 == KeysOpen("s3")

(* An instance that stays gets keys that work, whichever call failed, and  *)
(* also when a secret of an earlier instance of its name is in the way;    *)
(* but on S3 each pass that fails between the key and its secret costs one *)
(* of the keys that an account may have, and with the last one provisioning*)
(* is over; and an account that is not on the first page is refused when   *)
(* it is made again.                                                       *)
OutOfKeys(k) == provider[k] = "s3" /\ cloud[k].keys = KeyLimit
OutOfSight(k) == cloud[k].account /\ ~cloud[k].listed

Provisioned ==
  \A k \in Keys :
    <>[](Exists(k) /\ ~cr[k].del =>
           \/ OutOfKeys(k) \/ OutOfSight(k)
           \/ secret[k] # None /\ secret[k].works)

(* An instance marked for deletion goes in the end; on GCS only if its     *)
(* bucket is empty.                                                        *)
Deleted ==
  \A k \in Keys :
    <>[](Exists(k) /\ cr[k].del => cr[k].host \in cloud[k].full /\ provider[k] = "gcs")

=============================================================================
