--------------------------- MODULE UserController ---------------------------
(***************************************************************************)
(* UserReconciler (internal/controller/user_controller.go): one worker     *)
(* that takes User keys from a work queue and brings the accounts of a     *)
(* Gitea instance in line with the User custom resources (CRs).            *)
(*                                                                         *)
(* A pass of Reconcile is split at every call that leaves the process: one *)
(* action per Kubernetes or Gitea call, so that the steps of people, of    *)
(* the API server's watch and of a restart fall between any two of them.   *)
(* A pass works on the copy of the CR it read from the informer cache.     *)
(*                                                                         *)
(* Resource versions are modelled by what an Update compares: whether the  *)
(* copy is still the stored object.  "fresh" says so of each cached copy,  *)
(* "objFresh" of the copy the pass holds; a write clears both.             *)
(***************************************************************************)
EXTENDS FiniteSets, Naturals

CONSTANTS
  Namespaces,    \* the namespaces the operator's cache watches
  Names,         \* names: of User CRs, and of Gitea accounts
  Profiles,      \* values of the pair (Email, FullName)
  SSHKeys,       \* public keys
  Specs,         \* the specs people write (bounds the input)
  Rank,          \* the place of a name in the list of accounts, which is sorted
  PageSize,      \* entries on the first page of a list, the only one read
  MaxOps,        \* bound: actions of people
  MaxFail,       \* bound: failed calls
  MaxCrash,      \* bound: restarts of the operator
  Absent,        \* no such CR
  NoAccount,     \* no such account
  NoKey          \* no key is being reconciled

Keys == Namespaces \X Names

NameOf(k) == k[2]

(* "pw" tells whether spec.password names a secret.                        *)
UserSpec == [profile : Profiles, admin : BOOLEAN, keys : SUBSET SSHKeys,
             pw : BOOLEAN]

(* A User CR.  "fin" is the presence of userFinalizer, "del" a set         *)
(* deletionTimestamp, "prov" status.provisioned.                           *)
User == [spec : UserSpec, fin : BOOLEAN, del : BOOLEAN, prov : BOOLEAN]

(* A Gitea account.  "by" is a history field: the key of the CR it was     *)
(* created for, NoKey when a person registered it.                         *)
Account == [profile : Profiles, admin : BOOLEAN, keys : SUBSET SSHKeys,
            by : Keys \cup {NoKey}]

(* A new CR, and the changes made to one.                                  *)
NewUser(s) == [spec |-> s, fin |-> FALSE, del |-> FALSE, prov |-> FALSE]
Provisioned(o) == [o EXCEPT !.prov = TRUE]
WithFinalizer(o) == [o EXCEPT !.fin = TRUE]
WithSpec(o, s) == [o EXCEPT !.spec = s]
Marked(o) == [o EXCEPT !.del = TRUE]

(* A new account, and the changes made to one.                             *)
NewAccount(p, keys, by) ==
  [profile |-> p, admin |-> FALSE, keys |-> keys, by |-> by]
WithKeys(a, keys) == [a EXCEPT !.keys = keys]
Edit(a, s) == [a EXCEPT !.profile = s.profile, !.admin = s.admin]

(* Where a pass stands: the call it makes next.                            *)
Calls == {"Build", "deleteUser", "removeFinalizer", "GetUserInfo",
          "ListPublicKeys", "syncKeys", "AdminEditUser", "password",
          "AdminCreateUser", "userReady", "addFinalizer", "listUsers",
          "listGitUsers", "createUser"}

(* What follows reconcileSSHKeys in upsertUser: on the path of an existing *)
(* account an edit or nothing, on the path of a new one userReady.         *)
AfterKeys == {"AdminEditUser", "addFinalizer", "userReady"}

ASSUME UserConstants ==
  /\ Specs \subseteq UserSpec
  /\ Absent \notin User
  /\ NoAccount \notin Account
  /\ NoKey \notin Keys
  /\ MaxOps \in Nat /\ MaxFail \in Nat /\ MaxCrash \in Nat

ASSUME PageConstants ==
  /\ PageSize \in Nat
  /\ Rank \in [Names -> Nat]
  /\ \A m, n \in Names : Rank[m] = Rank[n] => m = n

VARIABLES
  cr,        \* the User CRs in the API server
  cache,     \* the informer's copies
  fresh,     \* keys whose cached copy is the stored one
  secrets,   \* keys whose password secret exists
  instance,  \* the Gitea CR: "pending", "ready" (Status.Ready) or "gone"
  accounts,  \* the accounts of the Gitea instance
  queue,     \* keys waiting in the work queue
  pc,        \* "idle" or the call the pass makes next
  cur,       \* key of the pass
  obj,       \* the pass's copy of the CR
  objFresh,  \* whether obj is the stored object
  after,     \* what follows reconcileSSHKeys
  drop,      \* keys still to delete from the account
  add,       \* keys still to add to it
  listed,    \* names of CRs that listUsers returned
  imports,   \* accounts still to import: set of <<name, spec>>
  asked,     \* history: keys whose CR was deleted by a person
  lost,      \* history: names whose account vanished outside the operator
  ops, fails, crashes  \* counted against MaxOps, MaxFail, MaxCrash

store == <<cr, cache, fresh>>
local == <<pc, cur, obj, objFresh, after, drop, add, listed, imports>>
budget == <<ops, fails, crashes>>
vars == <<store, secrets, instance, accounts, queue, local, asked, lost, budget>>

Exists(k) == cr[k] # Absent
HasAccount(n) == accounts[n] # NoAccount

ClusterOK ==
  /\ cr \in [Keys -> User \cup {Absent}]
  /\ cache \in [Keys -> User \cup {Absent}]
  /\ fresh \subseteq Keys
  /\ secrets \subseteq Keys
  /\ instance \in {"pending", "ready", "gone"}
  /\ queue \subseteq Keys

GiteaOK == accounts \in [Names -> Account \cup {NoAccount}]

PassOK ==
  /\ pc \in Calls \cup {"idle"}
  /\ cur \in Keys \cup {NoKey}
  /\ obj \in User \cup {Absent}
  /\ pc # "idle" => cur \in Keys /\ obj \in User
  /\ objFresh \in BOOLEAN
  /\ after \in AfterKeys
  /\ drop \subseteq SSHKeys /\ add \subseteq SSHKeys
  /\ listed \subseteq Names
  /\ imports \subseteq Names \X UserSpec

HistoryOK ==
  /\ asked \subseteq Keys
  /\ lost \subseteq Names
  /\ ops \in Nat /\ fails \in Nat /\ crashes \in Nat

TypeOK == ClusterOK /\ GiteaOK /\ PassOK /\ HistoryOK

(* The values of the worker's variables between two passes.                *)
AtRest ==
  /\ pc = "idle" /\ cur = NoKey /\ obj = Absent /\ objFresh = FALSE
  /\ after = "addFinalizer"
  /\ drop = {} /\ add = {} /\ listed = {} /\ imports = {}

Init ==
  /\ cr = [k \in Keys |-> Absent]
  /\ cache = cr
  /\ fresh = Keys
  /\ secrets = {}
  /\ instance = "pending"
  /\ accounts = [n \in Names |-> NoAccount]
  /\ queue = {}
  /\ AtRest
  /\ asked = {} /\ lost = {}
  /\ ops = 0 /\ fails = 0 /\ crashes = 0

-----------------------------------------------------------------------------
(* Writes to the API server and how a pass ends.                           *)

(* CR k becomes o by somebody else's hand: every copy of it is stale.      *)
Store(k, o) ==
  /\ cr' = [cr EXCEPT ![k] = o]
  /\ fresh' = fresh \ {k}
  /\ objFresh' = (objFresh /\ cur # k)
  /\ UNCHANGED cache

Rest ==
  /\ pc' = "idle" /\ cur' = NoKey /\ obj' = Absent /\ objFresh' = FALSE
  /\ after' = "addFinalizer"
  /\ drop' = {} /\ add' = {} /\ listed' = {} /\ imports' = {}

(* The pass is over: with an error or RequeueAfter the key goes back to    *)
(* the queue, otherwise the next event on the CR brings it back.           *)
EndPass(again) ==
  /\ queue' = IF again THEN queue \cup {cur} ELSE queue
  /\ Rest

Retry == EndPass(TRUE)
Finish == EndPass(FALSE)

Goto(call) ==
  /\ pc' = call
  /\ UNCHANGED <<cur, after, drop, add, listed, imports, queue>>

(* Update or Status().Update of the pass's copy to o: applied when the     *)
(* copy is the stored object, a conflict error otherwise.                  *)
UpdateObj(o, call) ==
  \/ /\ objFresh
     /\ cr' = [cr EXCEPT ![cur] = o]
     /\ fresh' = fresh \ {cur}
     /\ obj' = o
     /\ Goto(call)
     /\ UNCHANGED <<cache, objFresh>>
  \/ ~objFresh /\ Retry /\ UNCHANGED store

(* What one step of a pass leaves alone.                                   *)
OnlyPass == UNCHANGED <<secrets, instance, asked, lost, budget>>
OnlyLocal == OnlyPass /\ UNCHANGED <<store, accounts>>
OnlyGitea == OnlyPass /\ UNCHANGED store

(* A call to Gitea: the instance is there to answer it.                    *)
AskGitea(call) == pc = call /\ instance = "ready"

-----------------------------------------------------------------------------
(* Reconcile, call by call.                                                *)

(* Variant for the mutation runs: no return after NotFound.                *)
ReconcileGoesOn(k) ==
  /\ pc = "idle" /\ k \in queue
  /\ queue' = queue \ {k}
  /\ pc' = "Build" /\ cur' = k
  /\ obj' = cache[k] /\ objFresh' = (k \in fresh)
  /\ UNCHANGED <<after, drop, add, listed, imports>>
  /\ OnlyLocal

(* A worker takes k and reads its cached copy.                             *)
Reconcile(k) ==
  /\ pc = "idle" /\ k \in queue
  /\ queue' = queue \ {k}
  /\ IF cache[k] = Absent
       THEN UNCHANGED local
       ELSE /\ pc' = "Build" /\ cur' = k
            /\ obj' = cache[k] /\ objFresh' = (k \in fresh)
            /\ UNCHANGED <<after, drop, add, listed, imports>>
  /\ OnlyLocal

(* Variants for the mutation runs: the finalizer goes without the account, *)
(* the deletion timestamp is not looked at, an account the operator did    *)
(* not create is left alone.                                               *)
BuildWith(delete, call) ==
  /\ pc = "Build"
  /\ \/ instance # "ready" /\ Retry
     \/ /\ instance = "ready"
        /\ \/ delete /\ Goto(call) /\ UNCHANGED <<obj, objFresh>>
           \/ obj.del /\ ~delete /\ Finish
           \/ ~obj.del /\ ~delete /\ Goto("GetUserInfo") /\ UNCHANGED <<obj, objFresh>>
  /\ OnlyLocal

BuildKeepsAccount == BuildWith(obj.del /\ obj.fin, "removeFinalizer")
BuildAlwaysDeletes == BuildWith(obj.fin, "deleteUser")
BuildDeletesProvisioned == BuildWith(obj.del /\ obj.fin /\ obj.prov, "deleteUser")

(* Build precedes the deletion check: no client, no deletion.  A CR marked *)
(* deleted that has no finalizer of ours ends the pass.                    *)
Build ==
  /\ pc = "Build"
  /\ \/ instance # "ready" /\ Retry
     \/ /\ instance = "ready"
        /\ \/ obj.del /\ obj.fin /\ Goto("deleteUser") /\ UNCHANGED <<obj, objFresh>>
           \/ obj.del /\ ~obj.fin /\ Finish
           \/ ~obj.del /\ Goto("GetUserInfo") /\ UNCHANGED <<obj, objFresh>>
  /\ OnlyLocal

Deleted == [accounts EXCEPT ![NameOf(cur)] = NoAccount]

(* deleteUser: AdminDeleteUser; that the account is unknown is an error.   *)
DeleteUser ==
  /\ AskGitea("deleteUser")
  /\ \/ /\ HasAccount(NameOf(cur))
        /\ accounts' = Deleted
        /\ Goto("removeFinalizer") /\ UNCHANGED <<obj, objFresh>>
     \/ ~HasAccount(NameOf(cur)) /\ Retry /\ UNCHANGED accounts
  /\ OnlyGitea

(* RemoveFinalizer and Update: the last finalizer gone, so is the CR.      *)
RemoveFinalizer ==
  /\ pc = "removeFinalizer"
  /\ \/ /\ objFresh
        /\ cr' = [cr EXCEPT ![cur] = Absent]
        /\ fresh' = fresh \ {cur}
        /\ Finish /\ UNCHANGED cache
     \/ ~objFresh /\ Retry /\ UNCHANGED store
  /\ OnlyPass /\ UNCHANGED accounts

(* Variant for the mutation runs: IsAdmin is not compared.                 *)
CompareProfile(want, account) == want.profile = account.profile

(* compareUsers: Email, FullName and IsAdmin.                              *)
CompareUsers(want, account) ==
  want.profile = account.profile /\ want.admin = account.admin

(* GetUserInfo decides between the two halves of upsertUser.               *)
GetUserInfo ==
  /\ AskGitea("GetUserInfo")
  /\ LET n == NameOf(cur)
     IN \/ /\ HasAccount(n)
           /\ pc' = "ListPublicKeys"
           /\ after' = IF CompareUsers(obj.spec, accounts[n])
                         THEN "addFinalizer" ELSE "AdminEditUser"
           /\ UNCHANGED <<cur, obj, objFresh, drop, add, listed, imports, queue>>
        \/ ~HasAccount(n) /\ Goto("password") /\ UNCHANGED <<obj, objFresh>>
  /\ OnlyLocal

HasPassword == obj.spec.pw /\ cur \in secrets

(* Variant for the mutation runs: the error of password is not returned.   *)
PasswordErrorDropped ==
  /\ pc = "password"
  /\ IF HasPassword THEN Goto("AdminCreateUser") ELSE Goto("userReady")
  /\ UNCHANGED <<obj, objFresh>>
  /\ OnlyLocal

(* password: without the secret the code writes to a nil map; the panic is *)
(* recovered by the controller and counts as an error.                     *)
Password ==
  /\ pc = "password"
  /\ \/ HasPassword /\ Goto("AdminCreateUser") /\ UNCHANGED <<obj, objFresh>>
     \/ ~HasPassword /\ Retry
  /\ OnlyLocal

(* CreateUserOption has no admin flag: the account starts without it.      *)
Created ==
  [accounts EXCEPT ![NameOf(cur)] = NewAccount(obj.spec.profile, {}, cur)]

AdminCreateUser ==
  /\ AskGitea("AdminCreateUser")
  /\ \/ /\ ~HasAccount(NameOf(cur))
        /\ accounts' = Created
        /\ pc' = "ListPublicKeys" /\ after' = "userReady"
        /\ UNCHANGED <<cur, obj, objFresh, drop, add, listed, imports, queue>>
     \/ HasAccount(NameOf(cur)) /\ Retry /\ UNCHANGED accounts
  /\ OnlyGitea

(* Variant for the mutation runs: keys are only ever added.                *)
ListPublicKeysKeeps ==
  /\ AskGitea("ListPublicKeys")
  /\ HasAccount(NameOf(cur))
  /\ drop' = {}
  /\ add' = obj.spec.keys \ accounts[NameOf(cur)].keys
  /\ pc' = "syncKeys"
  /\ UNCHANGED <<cur, obj, objFresh, after, listed, imports, queue>>
  /\ OnlyLocal

(* The first page of a list of the elements of S, in an order of Gitea's.  *)
FirstPages(S) ==
  {P \in SUBSET S : \/ P = S /\ Cardinality(S) <= PageSize
                    \/ Cardinality(P) = PageSize}

(* reconcileSSHKeys: compare the first page of the account's keys with the *)
(* spec's ...                                                              *)
ListPublicKeys ==
  /\ AskGitea("ListPublicKeys")
  /\ LET n == NameOf(cur)
     IN \/ /\ HasAccount(n)
           /\ \E P \in FirstPages(accounts[n].keys) :
                drop' = P \ obj.spec.keys /\ add' = obj.spec.keys \ P
           /\ pc' = "syncKeys"
           /\ UNCHANGED <<cur, obj, objFresh, after, listed, imports, queue>>
        \/ ~HasAccount(n) /\ Retry
  /\ OnlyLocal

SetKeys(n, keys) == [accounts EXCEPT ![n] = WithKeys(@, keys)]

(* Gitea refuses a key that another account holds; one that the account    *)
(* has itself it refuses too, to the same effect as none.                  *)
HeldElsewhere(n, key) ==
  \E m \in Names \ {n} : HasAccount(m) /\ key \in accounts[m].keys

(* One key call of which the code drops the error.                         *)
Attempt(outcome) ==
  \/ accounts' = outcome /\ UNCHANGED fails
  \/ fails < MaxFail /\ fails' = fails + 1 /\ UNCHANGED accounts

(* ... then delete and add them one call at a time, deletions first.       *)
SyncKeys ==
  /\ pc = "syncKeys"
  /\ LET n == NameOf(cur)
     IN \/ \E key \in drop :
             /\ drop' = drop \ {key}
             /\ Attempt(IF HasAccount(n)
                          THEN SetKeys(n, accounts[n].keys \ {key})
                          ELSE accounts)
             /\ UNCHANGED <<pc, add>>
        \/ \E key \in add :
             /\ drop = {} /\ add' = add \ {key}
             /\ Attempt(IF HasAccount(n) /\ ~HeldElsewhere(n, key)
                          THEN SetKeys(n, accounts[n].keys \cup {key})
                          ELSE accounts)
             /\ UNCHANGED <<pc, drop>>
        \/ /\ drop = {} /\ add = {}
           /\ pc' = after
           /\ UNCHANGED <<accounts, drop, add, fails>>
  /\ UNCHANGED <<store, secrets, instance, queue, cur, obj, objFresh, after,
                 listed, imports, asked, lost, ops, crashes>>

Edited == [accounts EXCEPT ![NameOf(cur)] = Edit(@, obj.spec)]

AdminEditUser ==
  /\ AskGitea("AdminEditUser")
  /\ \/ /\ HasAccount(NameOf(cur))
        /\ accounts' = Edited
        /\ Goto("addFinalizer") /\ UNCHANGED <<obj, objFresh>>
     \/ ~HasAccount(NameOf(cur)) /\ Retry /\ UNCHANGED accounts
  /\ OnlyGitea

(* userReady: only on the path that created the account.                   *)
UserReady ==
  /\ pc = "userReady"
  /\ \/ obj.prov /\ Goto("addFinalizer") /\ UNCHANGED <<store, obj, objFresh>>
     \/ ~obj.prov /\ UpdateObj(Provisioned(obj), "addFinalizer")
  /\ OnlyPass /\ UNCHANGED accounts

AddFinalizer ==
  /\ pc = "addFinalizer"
  /\ \/ obj.fin /\ Goto("listUsers") /\ UNCHANGED <<store, obj, objFresh>>
     \/ ~obj.fin /\ UpdateObj(WithFinalizer(obj), "listUsers")
  /\ OnlyPass /\ UNCHANGED accounts

(* listUsers: the CRs in the cache, of every namespace.                    *)
ListUsers ==
  /\ pc = "listUsers"
  /\ listed' = {NameOf(k) : k \in {j \in Keys : cache[j] # Absent}}
  /\ pc' = "listGitUsers"
  /\ UNCHANGED <<cur, obj, objFresh, after, drop, add, imports, queue>>
  /\ OnlyLocal

(* The spec createUser gives an imported account: neither keys nor a       *)
(* password reference.                                                     *)
Imported(a) ==
  [profile |-> a.profile, admin |-> a.admin, keys |-> {}, pw |-> FALSE]

Before(n) == Cardinality({m \in Names : HasAccount(m) /\ Rank[m] < Rank[n]})

(* The first page of AdminListUsers.                                       *)
Page == {n \in Names : HasAccount(n) /\ Before(n) < PageSize}

(* Variant for the mutation runs: the loop starts at the second entry.     *)
ListGitUsersButOne ==
  /\ AskGitea("listGitUsers")
  /\ imports' = {<<n, Imported(accounts[n])>> :
                   n \in {m \in Page \ listed : Before(m) > 0}}
  /\ pc' = "createUser"
  /\ UNCHANGED <<cur, obj, objFresh, after, drop, add, listed, queue>>
  /\ OnlyLocal

ListGitUsers ==
  /\ AskGitea("listGitUsers")
  /\ imports' = {<<n, Imported(accounts[n])>> : n \in Page \ listed}
  /\ pc' = "createUser"
  /\ UNCHANGED <<cur, obj, objFresh, after, drop, add, listed, queue>>
  /\ OnlyLocal

(* createUser: a CR per unknown account, in the namespace of the CR that   *)
(* is reconciled; that it exists already is an error.                      *)
CreateUser ==
  /\ pc = "createUser"
  /\ \/ \E i \in imports :
          LET k == <<cur[1], i[1]>>
          IN \/ /\ ~Exists(k)
                /\ cr' = [cr EXCEPT ![k] = NewUser(i[2])]
                /\ fresh' = fresh \ {k}
                /\ imports' = imports \ {i}
                /\ UNCHANGED <<cache, pc, cur, obj, objFresh, after, drop, add,
                               listed, queue>>
             \/ Exists(k) /\ Retry /\ UNCHANGED store
     \/ imports = {} /\ Finish /\ UNCHANGED store
  /\ OnlyPass /\ UNCHANGED accounts

(* The instance is gone: no Gitea call is answered.                        *)
Unreachable ==
  /\ pc \in {"deleteUser", "GetUserInfo", "AdminCreateUser", "ListPublicKeys",
             "AdminEditUser", "listGitUsers"}
  /\ instance # "ready"
  /\ Retry
  /\ OnlyLocal

Step ==
  \/ Build \/ DeleteUser \/ RemoveFinalizer
  \/ GetUserInfo \/ Password \/ AdminCreateUser \/ AdminEditUser
  \/ ListPublicKeys \/ SyncKeys
  \/ UserReady \/ AddFinalizer
  \/ ListUsers \/ ListGitUsers \/ CreateUser
  \/ Unreachable

-----------------------------------------------------------------------------
(* Failures: of a call, of its reply, of the operator.                     *)

(* The step at hand calls out (the others are decided in the process).     *)
CallsOut ==
  \/ pc \in Calls \ {"listUsers", "syncKeys", "userReady", "addFinalizer",
                     "createUser"}
  \/ pc = "userReady" /\ ~obj.prov
  \/ pc = "addFinalizer" /\ ~obj.fin
  \/ pc = "createUser" /\ imports # {}

CallFails ==
  /\ fails < MaxFail /\ fails' = fails + 1
  /\ CallsOut
  /\ Retry
  /\ UNCHANGED <<store, accounts, secrets, instance, asked, lost, ops, crashes>>

(* Gitea did what the call asked for and the reply did not arrive (the     *)
(* client gives up after 10 s): an error for the pass.                     *)
ReplyLost ==
  /\ fails < MaxFail /\ fails' = fails + 1
  /\ instance = "ready"
  /\ \/ pc = "deleteUser" /\ HasAccount(NameOf(cur)) /\ accounts' = Deleted
     \/ pc = "AdminCreateUser" /\ ~HasAccount(NameOf(cur)) /\ accounts' = Created
     \/ pc = "AdminEditUser" /\ HasAccount(NameOf(cur)) /\ accounts' = Edited
  /\ Retry
  /\ UNCHANGED <<store, secrets, instance, asked, lost, ops, crashes>>

(* The operator starts again: the informers list every CR, which fills the *)
(* cache and the queue; what the pass knew is lost.                        *)
Restart ==
  /\ crashes < MaxCrash /\ crashes' = crashes + 1
  /\ cache' = cr /\ fresh' = Keys
  /\ queue' = {k \in Keys : Exists(k)}
  /\ Rest
  /\ UNCHANGED <<cr, secrets, instance, accounts, asked, lost, ops, fails>>

-----------------------------------------------------------------------------
(* The watch and the resync.                                               *)

(* The informer receives the event of the last write to k.                 *)
Watch(k) ==
  /\ k \notin fresh
  /\ cache' = [cache EXCEPT ![k] = cr[k]]
  /\ fresh' = fresh \cup {k}
  /\ queue' = queue \cup {k}
  /\ UNCHANGED <<cr, secrets, instance, accounts, local, asked, lost, budget>>

Resync ==
  /\ queue' = queue \cup {k \in Keys : cache[k] # Absent}
  /\ UNCHANGED <<store, secrets, instance, accounts, local, asked, lost, budget>>

-----------------------------------------------------------------------------
(* People: with kubectl, and in Gitea itself.                              *)

Operate ==
  /\ ops < MaxOps /\ ops' = ops + 1
  /\ UNCHANGED <<fails, crashes>>

OnlyStore == UNCHANGED <<secrets, instance, accounts, queue, pc, cur, obj, after,
                         drop, add, listed, imports>>

ApplyUser(k, s) ==
  /\ Operate
  /\ \/ /\ ~Exists(k)
        /\ Store(k, NewUser(s))
     \/ /\ Exists(k) /\ cr[k].spec # s
        /\ Store(k, WithSpec(cr[k], s))
  /\ OnlyStore /\ UNCHANGED <<asked, lost>>

(* kubectl delete: a CR with a finalizer is only marked.                   *)
KubectlDelete(k) ==
  /\ Operate
  /\ Exists(k) /\ ~cr[k].del
  /\ Store(k, IF cr[k].fin THEN Marked(cr[k]) ELSE Absent)
  /\ asked' = asked \cup {k}
  /\ OnlyStore /\ UNCHANGED lost

CreateSecret(k) ==
  /\ Operate
  /\ k \notin secrets /\ secrets' = secrets \cup {k}
  /\ UNCHANGED <<store, instance, accounts, queue, local, asked, lost>>

(* Somebody registers, or an administrator removes an account by hand.     *)
Register(n, p, keys) ==
  /\ Operate
  /\ instance = "ready" /\ ~HasAccount(n)
  /\ accounts' = [accounts EXCEPT ![n] = NewAccount(p, keys, NoKey)]
  /\ UNCHANGED <<store, secrets, instance, queue, local, asked, lost>>

RemoveByHand(n) ==
  /\ Operate
  /\ HasAccount(n)
  /\ accounts' = [accounts EXCEPT ![n] = NoAccount]
  /\ lost' = lost \cup {n}
  /\ UNCHANGED <<store, secrets, instance, queue, local, asked>>

(* The Gitea CR: Status.Ready is set once and never cleared; deleting the  *)
(* instance takes its accounts along.                                      *)
InstanceReady ==
  /\ instance = "pending" /\ instance' = "ready"
  /\ UNCHANGED <<store, secrets, accounts, queue, local, asked, lost, budget>>

DeleteInstance ==
  /\ Operate
  /\ instance # "gone" /\ instance' = "gone"
  /\ accounts' = [n \in Names |-> NoAccount]
  /\ lost' = lost \cup {n \in Names : HasAccount(n)}
  /\ UNCHANGED <<store, secrets, queue, local, asked>>

People ==
  \/ \E k \in Keys, s \in Specs : ApplyUser(k, s)
  \/ \E k \in Keys : KubectlDelete(k) \/ CreateSecret(k)
  \/ \E n \in Names : RemoveByHand(n)
  \/ \E n \in Names, p \in Profiles, keys \in SUBSET SSHKeys : Register(n, p, keys)
  \/ InstanceReady \/ DeleteInstance

Next ==
  \/ \E k \in Keys : Reconcile(k)
  \/ Step
  \/ CallFails \/ ReplyLost \/ Restart
  \/ \E k \in Keys : Watch(k)
  \/ Resync
  \/ People

Spec == Init /\ [][Next]_vars

(* The worker runs, every queued key gets its turn (the queue is first in, *)
(* first out, with a backoff per key) and events arrive.                   *)
Fairness ==
  /\ WF_vars(Step)
  /\ \A k \in Keys : SF_vars(Reconcile(k)) /\ WF_vars(Watch(k))

(* Resyncs go on, every ten hours: an assumption of the properties that    *)
(* need it, so that the others hold by events alone.                       *)
Resynced == WF_vars(Resync)

FairSpec == Spec /\ Fairness

-----------------------------------------------------------------------------
(* Properties.                                                             *)

(* Status.Provisioned is true: while a User CR with status.provisioned is  *)
(* not being deleted, its account exists, unless someone removed it in     *)
(* Gitea.  The status is written from a copy, after two Gitea calls, and   *)
(* before the finalizer that protects the account.  Where two namespaces   *)
(* hold CRs of one name, which share the account, deleting the other one   *)
(* makes it untrue.                                                        *)
ProvisionedHasAccount ==
  \A k \in Keys :
    Exists(k) /\ cr[k].prov /\ ~cr[k].del =>
      \/ HasAccount(NameOf(k)) \/ NameOf(k) \in lost
      \/ \E j \in asked : j # k /\ NameOf(j) = NameOf(k)

(* The finalizer does its work: at the step in which a CR that carries it  *)
(* disappears, no account created for that CR is left, whatever failed,    *)
(* was retried or restarted in between, and whoever took the name since.   *)
FinalizerGuards ==
  [][\A k \in Keys :
       Exists(k) /\ cr[k].fin /\ cr'[k] = Absent =>
         accounts'[NameOf(k)] = NoAccount \/ accounts'[NameOf(k)].by # k]_vars

(* The operator deletes an account only for a CR of that name which        *)
(* someone asked to delete, however stale the copy it acts on.             *)
DeletesOnlyAsked ==
  [][\A n \in Names :
       HasAccount(n) /\ accounts'[n] = NoAccount =>
         n \in lost' \/ \E k \in asked : NameOf(k) = n]_vars

(* The controller keeps the promises of ManagedResource, but not with the  *)
(* finalizer first: an account is there before the CR is held.  CRs of one *)
(* name in two namespaces share the account, which goes with either.       *)
Managed == INSTANCE ManagedResource WITH
  HoldFirst <- FALSE,
  Alike <- [k \in Keys |-> {j \in Keys : NameOf(j) = NameOf(k)}],
  there <- {k \in Keys : Exists(k)},
  held <- {k \in Keys : Exists(k) /\ cr[k].fin},
  thing <- {k \in Keys : HasAccount(NameOf(k)) /\ accounts[NameOf(k)].by = k},
  lost <- {k \in Keys : NameOf(k) \in lost}

ImplementsManaged == Managed!Spec

(* The inductive invariant behind the three.  Freshness means what it      *)
(* says; a deletion seen in any copy was asked for; ...                    *)
CopiesTrue ==
  /\ \A k \in fresh : cache[k] = cr[k]
  /\ objFresh => pc # "idle" /\ cr[cur] = obj

DeletionAsked ==
  /\ \A k \in Keys :
       /\ Exists(k) /\ cr[k].del => k \in asked
       /\ cache[k] # Absent /\ cache[k].del => k \in asked
  /\ pc # "idle" /\ obj.del => cur \in asked

(* ... past Build, a pass is on the path its copy calls for, and no        *)
(* account of the CR is left when its finalizer goes; ...                  *)
PathTaken ==
  /\ pc \notin {"idle", "Build"} =>
       (obj.del <=> pc \in {"deleteUser", "removeFinalizer"})
  /\ pc = "removeFinalizer" =>
       accounts[NameOf(cur)] = NoAccount \/ accounts[NameOf(cur)].by # cur

(* ... a copy that shows a deletion is of the stored CR, or of one that    *)
(* went before it and left no status behind; the account that status       *)
(* reports was made earlier in the same pass.                              *)
StaleCopies ==
  /\ \A k \in Keys :
       Exists(k) /\ cache[k] # Absent /\ cache[k].del => cr[k].del \/ ~cr[k].prov
  /\ pc # "idle" /\ obj.del /\ Exists(cur) => cr[cur].del \/ ~cr[cur].prov
  /\ objFresh /\ ~obj.del => cache[cur] = Absent \/ ~cache[cur].del

AccountMade ==
  pc = "userReady" \/ (pc \in {"ListPublicKeys", "syncKeys"} /\ after = "userReady")
    => \/ HasAccount(NameOf(cur)) \/ NameOf(cur) \in lost
       \/ \E j \in asked : j # cur /\ NameOf(j) = NameOf(cur)

FinalizerInv == TypeOK /\ CopiesTrue /\ DeletionAsked /\ PathTaken

ProvisionedInv == FinalizerInv /\ StaleCopies /\ AccountMade /\ ProvisionedHasAccount

(* A CR the operator can serve.                                            *)
Servable(k) ==
  /\ instance = "ready"
  /\ Exists(k) /\ ~cr[k].del
  /\ HasAccount(NameOf(k)) \/ (cr[k].spec.pw /\ k \in secrets)

(* The account of a served CR ends up with its profile and admin flag.     *)
(* AdminCreateUser leaves the flag out: only the pass that the CR's own    *)
(* status and finalizer writes trigger sets it.  No resync is needed,      *)
(* unless the account was removed by hand and created anew.                *)
AdminConverges ==
  \A k \in Keys :
    <>[](Servable(k) /\ NameOf(k) \notin lost =>
           /\ HasAccount(NameOf(k))
           /\ accounts[NameOf(k)].profile = cr[k].spec.profile
           /\ accounts[NameOf(k)].admin = cr[k].spec.admin)

(* The account of a served CR ends up with exactly the SSH keys of its     *)
(* spec, but for those another account holds.  The errors of the calls     *)
(* that add and delete keys are dropped, so this rests on the resync.      *)
KeysConverge ==
  Resynced =>
    \A k \in Keys :
      <>[](Servable(k) =>
             LET n == NameOf(k)
             IN /\ HasAccount(n)
                /\ accounts[n].keys \subseteq cr[k].spec.keys
                /\ \A key \in cr[k].spec.keys \ accounts[n].keys :
                     HeldElsewhere(n, key))

(* Every account on the first page of the list gets a CR in the end, while *)
(* some CR is served, whatever came and went on the page in between: the   *)
(* import loop ends each successful pass.  Of an account behind that page  *)
(* nothing is promised; the code never sees it.                            *)
ImportsComplete ==
  Resynced =>
    <>[]((\E k \in Keys : Servable(k)) =>
           \A n \in Page : \E k \in Keys : NameOf(k) = n /\ Exists(k))

(* Deleting a CR that carries the finalizer deletes its account, through   *)
(* failed calls, lost replies and restarts.                                *)
AccountDeleted ==
  \A k \in Keys :
    Exists(k) /\ cr[k].del /\ HasAccount(NameOf(k))
      ~> ~HasAccount(NameOf(k)) \/ instance # "ready"

(* ... and then the CR goes.  It does not: AdminDeleteUser is not repeated *)
(* with the same result, so that a pass which ended between the deletion   *)
(* of the account and the removal of the finalizer leaves a CR that every  *)
(* later pass fails on.                                                    *)
DeletionCompletes ==
  \A k \in Keys :
    Exists(k) /\ cr[k].del ~>
      ~Exists(k) \/ instance # "ready" \/ NameOf(k) \in lost

(* kubectl delete of a User CR ends, also when its Gitea CR is deleted     *)
(* with it.  It does not: Build fails before the deletion is looked at.    *)
DeletionOutlivesInstance ==
  \A k \in Keys : Exists(k) /\ cr[k].del ~> ~Exists(k)

(* The column "Ready" of a served CR becomes true.  It does not when the   *)
(* account was there before: only the path that creates it sets it.        *)
BecomesReady ==
  Resynced =>
    \A k \in Keys : <>[](Servable(k) /\ HasAccount(NameOf(k)) => cr[k].prov)

=============================================================================
