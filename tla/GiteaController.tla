--------------------------- MODULE GiteaController ---------------------------
(***************************************************************************)
(* GiteaReconciler (internal/controller/gitea_controller.go) for one Gitea *)
(* custom resource without object storage: the pass of reconcileGitea,     *)
(* call by call, the children it creates, the garbage collector that takes *)
(* them away after their owner, and the events that start the next pass.   *)
(*                                                                         *)
(* A key is never worked on twice at a time, so one pass is in progress at *)
(* most; the other workers serve other CRs and share nothing with this one.*)
(*                                                                         *)
(* The copy of the CR a pass works on is the stored object ("objFresh"),   *)
(* an older version of it ("objLive"), or a copy of a CR deleted since.    *)
(***************************************************************************)
EXTENDS Naturals

CONSTANTS
  Provider,      \* spec.postgres.provider: "cnpg" or "zalando"
  Valkey, TLS, Prometheus,  \* those fields of the spec
  NamedGitea,    \* TRUE: metadata.name is "gitea"
  Settings,      \* values of the spec that reach the inline config
  Domains,       \* what the DNS lookup of the cluster domain may answer
  Tracked,       \* the conditions whose value an instance keeps (bounds it)
  Removable,     \* children that people remove by hand (bounds the input)
  Batches,       \* how the garbage collector takes children (bounds it)
  MaxOps,        \* bound: actions of people
  MaxFail,       \* bound: failed calls
  MaxCrash,      \* bound: restarts of the operator
  MaxDown,       \* bound: outages of Gitea's API
  Absent,        \* no such CR
  None           \* no inline config, no running pod, no cluster domain

(* The objects owned by the CR, named after the step that upserts them.    *)
Child == {"db", "serviceMonitorPG", "metricsServicePG", "valkey",
          "certificate", "serviceMonitor", "metricsService", "service",
          "serviceAccount", "role", "roleBinding", "initSecret",
          "inlineConfig", "adminSecret", "configSecret", "statefulSet",
          "pdb", "ingress"}

(* Those the fields of the spec ask for.                                   *)
Needed ==
  Child \ (   (IF Valkey THEN {} ELSE {"valkey"})
         \cup (IF TLS THEN {} ELSE {"certificate"})
         \cup (IF Prometheus THEN {} ELSE
                 {"serviceMonitorPG", "metricsServicePG",
                  "serviceMonitor", "metricsService"}))

(* Kinds of SetupWithManager's Owns: a change to one enqueues its owner.   *)
Watched == {"db", "metricsServicePG", "metricsService", "service",
            "serviceAccount", "initSecret", "inlineConfig", "adminSecret",
            "configSecret", "statefulSet", "ingress"}

(* What the pod of the StatefulSet cannot start without.                   *)
Mounted == {"statefulSet", "serviceAccount", "initSecret", "inlineConfig",
            "adminSecret", "configSecret"}

(* The steps of a pass in the order of reconcileGitea.                     *)
Position ==
  [crb |-> 1, db |-> 2, serviceMonitorPG |-> 3, metricsServicePG |-> 4,
   dbPending |-> 5, cachePending |-> 6, valkey |-> 7, valkeyRunning |-> 8,
   pgRunning |-> 9, clusterDomain |-> 10, certificate |-> 11,
   dbReady |-> 12, cacheReady |-> 13, serviceMonitor |-> 14,
   metricsService |-> 15, service |-> 16, serviceAccount |-> 17,
   role |-> 18, roleBinding |-> 19, initSecret |-> 20,
   valkeyPassword |-> 21, inlineConfig |-> 22, restart |-> 23,
   adminSecret |-> 24, configSecret |-> 25, statefulSet |-> 26, pdb |-> 27,
   ingress |-> 28, podUP |-> 29, apiUP |-> 30, readyCondition |-> 31,
   statusReady |-> 32, adminToken |-> 33, postToken |-> 34,
   storeToken |-> 35, tokenCondition |-> 36, apiDown |-> 37]

Steps == DOMAIN Position

ConditionTypes == {"DatabaseReady", "CacheReady", "InstanceReady", "Ready",
                   "ApiToken"}

(* A Gitea CR: status.ready, the conditions, the part of the spec that     *)
(* reaches the inline config and spec.clusterDomain.                       *)
Gitea == [ready : BOOLEAN,
          conds : [ConditionTypes -> {"unset", "False", "True"}],
          want : Settings, domain : Domains \cup {None}]

NewGitea(w) == [ready |-> FALSE, conds |-> [t \in ConditionTypes |-> "unset"],
                want |-> w, domain |-> None]
WithCondition(o, t, v) ==
  IF t \in Tracked THEN [o EXCEPT !.conds[t] = v] ELSE o
WithReady(o) == [o EXCEPT !.ready = TRUE]
WithDomain(o, d) == [o EXCEPT !.domain = d]
WithWant(o, w) == [o EXCEPT !.want = w]
WithStatus(o, p) == [o EXCEPT !.ready = p.ready, !.conds = p.conds]

ASSUME GiteaConstants ==
  /\ Provider \in {"cnpg", "zalando"}
  /\ Valkey \in BOOLEAN /\ TLS \in BOOLEAN /\ Prometheus \in BOOLEAN
  /\ NamedGitea \in BOOLEAN
  /\ Absent \notin Gitea
  /\ None \notin Settings /\ None \notin Domains
  /\ Tracked \subseteq ConditionTypes
  /\ Removable \subseteq Child /\ UNION Batches = Child
  /\ MaxOps \in Nat /\ MaxFail \in Nat /\ MaxCrash \in Nat /\ MaxDown \in Nat

VARIABLES
  cr,        \* the CR in the API server
  cache,     \* the informer's copy of it
  fresh,     \* whether the cached copy is the stored object
  cacheLive, \* whether it is a copy of the CR that exists now
  queued,    \* whether the key waits in the work queue
  events,    \* whether an event of a watched child is on its way
  pc,        \* "idle" or the step the pass takes next
  obj,       \* the pass's copy of the CR
  objFresh,  \* whether obj is the stored object
  objLive,   \* whether obj is a copy of the CR that exists now
  children,  \* children owned by the CR that exists now
  orphans,   \* children of a deleted CR, not yet collected
  crb,       \* whether the ClusterRoleBinding exists (nobody owns it)
  removed,   \* history: children lost since the CR was created
  dbRunning, \* the PostgreSQL cluster reports healthy
  valkeyUp,  \* the Valkey CR reports ready; its password secret exists
  inline,    \* the setting in the inline-config secret
  running,   \* the setting the ready pod was started with, None without one
  api,       \* whether Gitea answers HTTP requests
  issued,    \* whether Gitea's database has a token named "admin"
  stored,    \* whether the admin secret holds a token
  ops, fails, crashes, downs  \* counted against the bounds

store == <<cr, cache, fresh, cacheLive>>
copy == <<obj, objFresh, objLive>>
owned == <<children, orphans, removed>>
plane == <<dbRunning, valkeyUp, inline, running, api>>
token == <<issued, stored>>
budget == <<ops, fails, crashes, downs>>
vars == <<store, queued, events, pc, copy, owned, crb, plane, token, budget>>

Present == children \cup orphans

StoreOK ==
  /\ cr \in Gitea \cup {Absent} /\ cache \in Gitea \cup {Absent}
  /\ fresh \in BOOLEAN /\ cacheLive \in BOOLEAN
  /\ queued \in BOOLEAN /\ events \in BOOLEAN

PassOK ==
  /\ pc \in Steps \cup {"idle"}
  /\ obj \in Gitea \cup {Absent} /\ (pc # "idle" => obj \in Gitea)
  /\ objFresh \in BOOLEAN /\ objLive \in BOOLEAN

ClusterOK ==
  /\ children \subseteq Child /\ orphans \subseteq Child
  /\ removed \subseteq Child /\ crb \in BOOLEAN
  /\ dbRunning \in BOOLEAN /\ valkeyUp \in BOOLEAN
  /\ inline \in Settings \cup {None} /\ running \in Settings \cup {None}
  /\ api \in BOOLEAN /\ issued \in BOOLEAN /\ stored \in BOOLEAN

BudgetOK == ops \in Nat /\ fails \in Nat /\ crashes \in Nat /\ downs \in Nat

TypeOK == StoreOK /\ PassOK /\ ClusterOK /\ BudgetOK

Init ==
  /\ cr = Absent /\ cache = Absent /\ fresh = TRUE /\ cacheLive = FALSE
  /\ queued = FALSE /\ events = FALSE
  /\ pc = "idle" /\ obj = Absent /\ objFresh = FALSE /\ objLive = FALSE
  /\ children = {} /\ orphans = {} /\ crb = FALSE /\ removed = {}
  /\ dbRunning = FALSE /\ valkeyUp = FALSE
  /\ inline = None /\ running = None /\ api = FALSE
  /\ issued = FALSE /\ stored = FALSE
  /\ ops = 0 /\ fails = 0 /\ crashes = 0 /\ downs = 0

-----------------------------------------------------------------------------
(* How a step ends: with the step after it, or the pass with it.           *)

Goto(step) == pc' = step /\ UNCHANGED queued
GoOn == pc' \in Steps /\ Position[pc'] = Position[pc] + 1 /\ UNCHANGED queued

Rest == pc' = "idle" /\ obj' = Absent /\ objFresh' = FALSE /\ objLive' = FALSE

(* An error returned to the controller brings the key back.                *)
Retry == Rest /\ queued' = TRUE

(* Requeue and RequeueAfter are not: Reconcile returns an empty Result     *)
(* whenever the error is nil.                                              *)
Wait == Rest /\ UNCHANGED queued
Finish == Rest /\ UNCHANGED queued

Fail == fails < MaxFail /\ fails' = fails + 1 /\ UNCHANGED <<ops, crashes, downs>>

(* An Update by the pass, applied when its copy is the stored object.      *)
Write(o) ==
  /\ cr' = o /\ fresh' = (fresh /\ o = cr)
  /\ UNCHANGED <<cache, cacheLive>>

Elsewhere == UNCHANGED <<owned, crb, plane, token, events>>

-----------------------------------------------------------------------------
(* Reconcile and the upserts.                                              *)

(* Variant for the mutation runs: no return after NotFound.                *)
ReconcileGoesOn ==
  /\ pc = "idle" /\ queued
  /\ queued' = FALSE
  /\ pc' = "db" /\ obj' = cache /\ objFresh' = fresh /\ objLive' = cacheLive
  /\ UNCHANGED <<store, budget>> /\ Elsewhere

Reconcile ==
  /\ pc = "idle" /\ queued
  /\ queued' = FALSE
  /\ IF cache = Absent
       THEN UNCHANGED <<pc, copy>>
       ELSE /\ pc' = IF Provider = "cnpg" THEN "db" ELSE "crb"
            /\ obj' = cache /\ objFresh' = fresh /\ objLive' = cacheLive
  /\ UNCHANGED <<store, budget>> /\ Elsewhere

(* upsertPG begins with a ClusterRoleBinding that has no owner; one that   *)
(* exists makes it return nil before it looks at the database.             *)
UpsertCRB ==
  /\ pc = "crb"
  /\ \/ crb /\ Goto("serviceMonitorPG") /\ UNCHANGED crb
     \/ ~crb /\ crb' = TRUE /\ GoOn
  /\ UNCHANGED <<store, copy, owned, plane, token, events, budget>>

(* Create of child c, owned by the CR of the pass's copy.                  *)
Own(c) ==
  /\ children' = IF objLive THEN children \cup {c} ELSE children \ {c}
  /\ orphans' = IF objLive THEN orphans \ {c} ELSE orphans \cup {c}
  /\ events' = (events \/ c \in Watched)
  /\ UNCHANGED removed

Plain == Child \ {"inlineConfig"}

Missing(c) == c \in Needed \ Present

(* Variant for the mutation runs: the error of a Create is not returned.   *)
UpsertErrorDropped(c) ==
  /\ pc = c
  /\ \/ Missing(c) /\ Own(c) /\ UNCHANGED budget
     \/ Missing(c) /\ Fail /\ UNCHANGED <<children, orphans, removed, events>>
     \/ ~Missing(c) /\ UNCHANGED <<children, orphans, removed, events, budget>>
  /\ GoOn
  /\ UNCHANGED <<store, copy, crb, plane, token>>

(* Variant for the mutation runs: children are created once, as conditions *)
(* are, while the instance is not ready.                                   *)
UpsertOnce(c) ==
  /\ pc = c
  /\ IF Missing(c) /\ ~obj.ready
       THEN Own(c) ELSE UNCHANGED <<children, orphans, removed, events>>
  /\ GoOn
  /\ UNCHANGED <<store, copy, crb, plane, token, budget>>

(* Variant for the mutation runs: that the object exists is an error.      *)
UpsertCreates(c) ==
  /\ pc = c
  /\ \/ Missing(c) /\ Own(c) /\ GoOn /\ UNCHANGED copy
     \/ /\ ~Missing(c) /\ UNCHANGED <<children, orphans, removed, events>>
        /\ IF c \in Needed THEN Retry ELSE GoOn /\ UNCHANGED copy
  /\ UNCHANGED <<store, crb, plane, token, budget>>

(* The upserts that create an object that is missing and leave one that    *)
(* exists alone, whoever owns it.                                          *)
Upsert(c) ==
  /\ pc = c
  /\ IF Missing(c)
       THEN Own(c) ELSE UNCHANGED <<children, orphans, removed, events>>
  /\ GoOn
  /\ UNCHANGED <<store, copy, crb, plane, token, budget>>

(* getValkeyPassword reads a secret of the Valkey operator.                *)
ValkeyPassword ==
  /\ pc = "valkeyPassword"
  /\ \/ Valkey /\ ~valkeyUp /\ Retry
     \/ (Valkey => valkeyUp) /\ GoOn /\ UNCHANGED copy
  /\ UNCHANGED <<store, budget>> /\ Elsewhere

(* The secret "-inline-config" is compared and written when it differs;    *)
(* the written one belongs to the pass's CR and the pods are restarted.    *)
InlineConfig ==
  /\ pc = "inlineConfig"
  /\ IF inline = obj.want
       THEN Goto("adminSecret")
            /\ UNCHANGED <<children, orphans, removed, events, inline>>
       ELSE /\ Own("inlineConfig") /\ inline' = obj.want
            /\ Goto(IF inline = None THEN "adminSecret" ELSE "restart")
  /\ UNCHANGED <<store, copy, crb, dbRunning, valkeyUp, running, api, token, budget>>

(* restart deletes the pods whose label app.kubernetes.io/name is the name *)
(* of the CR, although that label is always "gitea".                       *)
RestartPods ==
  /\ pc = "restart"
  /\ IF NamedGitea /\ running # None
       THEN running' = None /\ api' = FALSE /\ events' = TRUE
       ELSE UNCHANGED <<running, api, events>>
  /\ GoOn
  /\ UNCHANGED <<store, copy, owned, crb, dbRunning, valkeyUp, inline, token, budget>>

-----------------------------------------------------------------------------
(* The waits, the CR's own updates and the conditions.                     *)

(* A dependency that is not up, or whose CR cannot be read, ends the pass. *)
AwaitDependency(step, up) ==
  /\ pc = step
  /\ \/ up /\ GoOn /\ UNCHANGED copy
     \/ ~up /\ Wait
  /\ UNCHANGED <<store, budget>> /\ Elsewhere

ValkeyRunning == AwaitDependency("valkeyRunning", Valkey => valkeyUp)
PgRunning == AwaitDependency("pgRunning", dbRunning)

(* detectClusterDomain looks the domain up anew in every pass and writes   *)
(* it to the spec; the answer of the API server replaces the copy.         *)
ClusterDomain ==
  /\ pc = "clusterDomain"
  /\ \/ \E d \in Domains :
          /\ TLS /\ objFresh
          /\ obj' = WithDomain(cr, d) /\ Write(obj') /\ GoOn
          /\ UNCHANGED <<objFresh, objLive>>
     \/ TLS /\ ~objFresh /\ Retry /\ UNCHANGED store
     \/ ~TLS /\ GoOn /\ UNCHANGED <<store, copy>>
  /\ UNCHANGED budget /\ Elsewhere

(* Variant for the mutation runs: the status is written over whatever the  *)
(* API server has.                                                         *)
StatusUpdateForced(o) ==
  \/ cr # Absent /\ Write(WithStatus(cr, o)) /\ UNCHANGED budget
  \/ cr = Absent /\ UNCHANGED <<store, budget>>

(* Status().Update of the pass's copy as setCondition does it: the error   *)
(* of the write, a conflict or a failed call, is logged and dropped.       *)
StatusUpdate(o) ==
  \/ objFresh /\ Write(WithStatus(cr, o)) /\ UNCHANGED budget
  \/ ~objFresh /\ UNCHANGED <<store, budget>>
  \/ Fail /\ UNCHANGED store

(* setCondition changes the copy, whether or not the write is applied.     *)
SetCondition(type, value) ==
  /\ obj' = WithCondition(obj, type, value)
  /\ StatusUpdate(WithCondition(obj, type, value))
  /\ UNCHANGED <<objFresh, objLive>>

(* setCondition as the last thing a pass does.                             *)
ConditionThenWait(type, value) ==
  StatusUpdate(WithCondition(obj, type, value)) /\ Wait

(* The conditions of the database and the cache follow the waits as long   *)
(* as status.ready is not set.                                             *)
DependencyCondition(step, type, value, asked) ==
  /\ pc = step
  /\ IF asked /\ ~obj.ready
       THEN SetCondition(type, value) ELSE UNCHANGED <<store, copy, budget>>
  /\ GoOn /\ Elsewhere

DependenciesPending ==
  \/ DependencyCondition("dbPending", "DatabaseReady", "False", TRUE)
  \/ DependencyCondition("cachePending", "CacheReady", "False", Valkey)

DependenciesReady ==
  \/ DependencyCondition("dbReady", "DatabaseReady", "True", TRUE)
  \/ DependencyCondition("cacheReady", "CacheReady", "True", Valkey)

(* podUP: once status.ready is set the pods are not looked at any more.    *)
PodUP ==
  /\ pc = "podUP"
  /\ \/ obj.ready /\ GoOn /\ UNCHANGED <<store, copy, budget>>
     \/ ~obj.ready /\ running # None
        /\ SetCondition("InstanceReady", "True") /\ GoOn
     \/ ~obj.ready /\ running = None
        /\ ConditionThenWait("InstanceReady", "False")
  /\ Elsewhere


(* apiUP asks Gitea for its first page.  Down, the condition "Ready" turns *)
(* "False" and the pass ends; up, "Ready" turns "True" only while          *)
(* status.ready is not set.                                                *)
ApiUP ==
  /\ pc = "apiUP"
  /\ \/ api /\ obj.ready /\ Goto("adminToken") /\ UNCHANGED budget
     \/ api /\ ~obj.ready /\ Goto("readyCondition") /\ UNCHANGED budget
     \/ ~api /\ Goto("apiDown") /\ UNCHANGED budget
     \/ api /\ Fail /\ Goto("apiDown")
  /\ UNCHANGED <<store, copy>> /\ Elsewhere

ApiDown ==
  pc = "apiDown" /\ ConditionThenWait("Ready", "False") /\ Elsewhere

ReadyCondition ==
  /\ pc = "readyCondition"
  /\ SetCondition("Ready", "True") /\ GoOn
  /\ Elsewhere

(* status.ready is set by an Update of its own, whose error ends the pass. *)
StatusReady ==
  /\ pc = "statusReady"
  /\ \/ objFresh /\ obj' = WithReady(obj) /\ Write(WithStatus(cr, obj')) /\ GoOn
        /\ UNCHANGED <<objFresh, objLive>>
     \/ ~objFresh /\ Wait /\ UNCHANGED store
  /\ UNCHANGED budget /\ Elsewhere

-----------------------------------------------------------------------------
(* adminToken, whose errors end the pass without a retry.                  *)

AdminToken ==
  /\ pc = "adminToken"
  /\ \/ "adminSecret" \in Present /\ ~stored /\ GoOn /\ UNCHANGED copy
     \/ ("adminSecret" \in Present => stored) /\ Finish
  /\ UNCHANGED <<store, budget>> /\ Elsewhere

(* Variant for the mutation runs: an answer without a token is no error.   *)
PostTokenUnchecked ==
  /\ pc = "postToken"
  /\ \/ api /\ ~issued /\ issued' = TRUE /\ GoOn /\ UNCHANGED copy
     \/ api /\ issued /\ Goto("tokenCondition") /\ UNCHANGED <<issued, copy>>
     \/ ~api /\ Wait /\ UNCHANGED issued
  /\ UNCHANGED <<store, events, owned, crb, plane, stored, budget>>

(* POST of a token named "admin"; Gitea refuses a name that is in use.     *)
PostToken ==
  /\ pc = "postToken"
  /\ \/ api /\ ~issued /\ issued' = TRUE /\ GoOn /\ UNCHANGED copy
     \/ (api => issued) /\ Wait /\ UNCHANGED issued
  /\ UNCHANGED <<store, events, owned, crb, plane, stored, budget>>

(* The secret is updated as it was read: gone since, that fails.           *)
StoreToken ==
  /\ pc = "storeToken"
  /\ \/ "adminSecret" \in Present /\ stored' = TRUE /\ events' = TRUE
        /\ GoOn /\ UNCHANGED copy
     \/ "adminSecret" \notin Present /\ Wait /\ UNCHANGED <<stored, events>>
  /\ UNCHANGED <<store, owned, crb, plane, issued, budget>>

TokenCondition ==
  pc = "tokenCondition" /\ ConditionThenWait("ApiToken", "True") /\ Elsewhere

-----------------------------------------------------------------------------
(* Failed calls and restarts.                                              *)

(* Steps whose errors the controller gets to see, and steps whose errors   *)
(* end the pass like a wait.  With TLS, apiUP first reads the certificate. *)
Returned == Child \cup {"crb", "clusterDomain", "valkeyPassword"}
Polled == {"valkeyRunning", "pgRunning", "podUP", "statusReady", "adminToken",
           "postToken", "storeToken"}

CallFails ==
  /\ Fail
  /\ \/ pc \in Returned /\ Retry
     \/ pc \in Polled /\ Wait
     \/ pc = "apiUP" /\ TLS /\ Wait
     \/ pc = "restart" /\ GoOn /\ UNCHANGED copy
  /\ UNCHANGED store /\ Elsewhere

(* The call was served, the answer does not arrive.                        *)
ReplyLost ==
  /\ Fail
  /\ \/ \E c \in Plain : pc = c /\ Missing(c) /\ Own(c) /\ Retry
        /\ UNCHANGED <<inline, issued>>
     \/ pc = "inlineConfig" /\ inline # obj.want /\ Own(pc) /\ inline' = obj.want
        /\ Retry /\ UNCHANGED issued
     \/ pc = "postToken" /\ api /\ issued' = TRUE /\ Wait
        /\ UNCHANGED <<children, orphans, removed, events, inline>>
  /\ UNCHANGED <<store, crb, dbRunning, valkeyUp, running, api, stored>>

(* The operator restarts: it lists the CRs anew and queues each one.       *)
Restart ==
  /\ crashes < MaxCrash /\ crashes' = crashes + 1
  /\ Rest
  /\ cache' = cr /\ fresh' = TRUE /\ cacheLive' = (cr # Absent)
  /\ queued' = (cr # Absent) /\ events' = FALSE
  /\ UNCHANGED <<cr, owned, crb, plane, token, ops, fails, downs>>

-----------------------------------------------------------------------------
(* Events, and the world around the operator.                              *)

OnlyQueue == UNCHANGED <<pc, copy, owned, crb, plane, token, budget>>

(* The informer catches up with the CR and queues it.                      *)
Watch ==
  /\ ~fresh
  /\ cache' = cr /\ fresh' = TRUE /\ cacheLive' = (cr # Absent)
  /\ queued' = TRUE
  /\ UNCHANGED <<cr, events>> /\ OnlyQueue

(* An event of a watched child queues its owner.                           *)
ChildEvent ==
  /\ events /\ events' = FALSE /\ queued' = TRUE
  /\ UNCHANGED store /\ OnlyQueue

Resync ==
  /\ cache # Absent /\ ~queued /\ queued' = TRUE
  /\ UNCHANGED <<store, events>> /\ OnlyQueue

(* Children S disappear, with what lived in them; the pod goes with its    *)
(* StatefulSet and starts over when its database is another one.           *)
Lose(S) ==
  /\ children' = children \ S /\ orphans' = orphans \ S
  /\ removed' = removed \cup (S \cap Present)
  /\ events' = (events \/ S \cap Present \cap Watched # {})
  /\ dbRunning' = (dbRunning /\ "db" \notin S)
  /\ issued' = (issued /\ "db" \notin S)
  /\ valkeyUp' = (valkeyUp /\ "valkey" \notin S)
  /\ inline' = IF "inlineConfig" \in S THEN None ELSE inline
  /\ stored' = (stored /\ "adminSecret" \notin S)
  /\ running' = IF S \cap {"statefulSet", "db"} # {} THEN None ELSE running
  /\ api' = (api /\ S \cap {"statefulSet", "db"} = {})
  /\ UNCHANGED <<store, queued, pc, copy, crb>>

(* The garbage collector takes the orphans of one batch.                   *)
Collect ==
  /\ \E batch \in Batches : orphans \cap batch # {} /\ Lose(orphans \cap batch)
  /\ UNCHANGED budget

Operate == ops < MaxOps /\ ops' = ops + 1 /\ UNCHANGED <<fails, crashes, downs>>

RemoveByHand ==
  /\ \E c \in Removable \cap children : Lose({c})
  /\ Operate

(* A person's change to the CR makes every copy of it stale.               *)
Change(o) ==
  /\ cr' = o /\ fresh' = FALSE /\ objFresh' = FALSE
  /\ Operate
  /\ UNCHANGED <<cache, queued, events, pc, obj, crb, plane, token>>

CreateGitea ==
  /\ cr = Absent /\ \E w \in Settings : Change(NewGitea(w))
  /\ removed' = {}
  /\ UNCHANGED <<cacheLive, objLive, children, orphans>>

EditSpec ==
  /\ cr # Absent
  /\ \E w \in Settings \ {cr.want} : Change(WithWant(cr, w))
  /\ UNCHANGED <<cacheLive, objLive, owned>>

(* Nothing but the object storage finalizer keeps a Gitea CR; its children *)
(* are left to the garbage collector.                                      *)
DeleteGitea ==
  /\ cr # Absent /\ Change(Absent)
  /\ cacheLive' = FALSE /\ objLive' = FALSE
  /\ children' = {} /\ orphans' = Present /\ UNCHANGED removed

OnlyPlane == UNCHANGED <<store, queued, pc, copy, owned, crb, inline, token>>

(* The PostgreSQL operator reports the cluster healthy.                    *)
DbStarts ==
  /\ "db" \in Present /\ ~dbRunning
  /\ dbRunning' = TRUE /\ events' = TRUE
  /\ UNCHANGED <<valkeyUp, running, api, budget>> /\ OnlyPlane

(* The Valkey operator reports it ready; nobody watches Valkey CRs.        *)
ValkeyStarts ==
  /\ "valkey" \in Present /\ ~valkeyUp
  /\ valkeyUp' = TRUE
  /\ UNCHANGED <<events, dbRunning, running, api, budget>> /\ OnlyPlane

(* The pod becomes ready, and with it the status of the StatefulSet.       *)
PodStarts ==
  /\ running = None /\ Mounted \subseteq Present /\ dbRunning
  /\ running' = inline /\ events' = TRUE
  /\ UNCHANGED <<dbRunning, valkeyUp, api, budget>> /\ OnlyPlane

ApiStarts ==
  /\ running # None /\ ~api /\ "service" \in Present /\ dbRunning
  /\ api' = TRUE
  /\ UNCHANGED <<events, dbRunning, valkeyUp, running, budget>> /\ OnlyPlane

ApiStops ==
  /\ api /\ downs < MaxDown
  /\ api' = FALSE /\ downs' = downs + 1
  /\ UNCHANGED <<events, dbRunning, valkeyUp, running, ops, fails, crashes>>
  /\ OnlyPlane

-----------------------------------------------------------------------------
(* The specification.                                                      *)

Pass ==
  \/ UpsertCRB \/ (\E c \in Plain : Upsert(c))
  \/ DependenciesPending \/ ValkeyRunning \/ PgRunning \/ ClusterDomain
  \/ DependenciesReady \/ ValkeyPassword \/ InlineConfig \/ RestartPods
  \/ PodUP \/ ApiUP \/ ApiDown \/ ReadyCondition \/ StatusReady
  \/ AdminToken \/ PostToken \/ StoreToken \/ TokenCondition

Environment ==
  \/ DbStarts \/ ValkeyStarts \/ PodStarts \/ ApiStarts \/ ApiStops
  \/ Collect \/ RemoveByHand \/ CreateGitea \/ EditSpec \/ DeleteGitea

Next ==
  \/ Reconcile \/ Pass \/ CallFails \/ ReplyLost \/ Restart
  \/ Watch \/ ChildEvent \/ Resync \/ Environment

Spec == Init /\ [][Next]_vars

(* The worker, the informers, the garbage collector and the other          *)
(* operators keep going; people, failures and outages may stop.            *)
Fairness ==
  /\ WF_vars(Reconcile) /\ WF_vars(Pass)
  /\ WF_vars(Watch) /\ WF_vars(ChildEvent)
  /\ WF_vars(Collect) /\ WF_vars(DbStarts) /\ WF_vars(ValkeyStarts)
  /\ WF_vars(PodStarts) /\ WF_vars(ApiStarts)

FairSpec == Spec /\ Fairness

(* The informers resync, every ten hours: an assumption of the properties  *)
(* that need it, so that the others hold by events alone.                  *)
Resynced == WF_vars(Resync)

-----------------------------------------------------------------------------
(* Properties.                                                             *)

(* status.ready, the column people and the other controllers read, is set  *)
(* only after every child the spec asks for was there, whatever was        *)
(* restarted, failed or recreated in between (reconcileGitea, apiUP).      *)
ReadyHasChildren ==
  cr # Absent => (cr.ready => Needed \subseteq Present \cup removed)

(* A StatefulSet is created only behind everything its pods mount and the  *)
(* database they migrate (the order of the upserts in reconcileGitea).     *)
PodsHaveMounts ==
  "statefulSet" \in children =>
    Mounted \cup {"db"} \subseteq Present \cup removed

(* The condition ApiToken tells the truth: the admin secret holds a token  *)
(* that Gitea's database knows, unless one of the two is gone since        *)
(* (adminToken, 1975-1997).                                                *)
TokenTruth ==
  cr # Absent => (cr.conds["ApiToken"] = "True" =>
    \/ stored /\ issued
    \/ removed \cap {"adminSecret", "db"} # {})

(* A pass never takes back what another pass or a person wrote to the CR,  *)
(* however old its copy is: status.ready stays set, and the settings in    *)
(* the spec change by a person's hand only (conflicts in setCondition,     *)
(* detectClusterDomain and apiUP).                                         *)
NothingTakenBack ==
  [][cr # Absent /\ cr' # Absent =>
       /\ cr.ready => cr'.ready
       /\ cr'.want # cr.want => ops' = ops + 1]_vars

(* A Gitea CR that is left alone becomes ready and stays so.               *)
BecomesReady == Resynced => (<>[](cr # Absent) => <>[](cr # Absent /\ cr.ready))

(* A child of a kind SetupWithManager watches comes back when it is        *)
(* removed, or collected from under a CR that was created anew, by the     *)
(* event of its removal alone, unless a call failed, of which some passes  *)
(* return no error; those of the other kinds come back with the next       *)
(* resync, whatever failed or was restarted before.  With zalando this     *)
(* needs the database to be there: behind a ClusterRoleBinding that        *)
(* exists, upsertPG makes none.                                            *)
ChildrenRestored ==
  <>[](cr # Absent /\ (Provider = "zalando" => "db" \in children)) =>
    /\ <>[](fails = 0 => Needed \cap Watched \subseteq children)
    /\ Resynced => <>[](Needed \subseteq children)

(* A change of the spec reaches the running instance: the config secret is *)
(* rewritten and the pods are restarted (upsertSecret, restart).  It does  *)
(* not when a restart of the operator falls between the two: the secret    *)
(* matches from then on, and no later pass restarts the pods; nor for an   *)
(* instance of a name other than gitea, whose pods restart does not find.  *)
ConfigTakesEffect ==
  \A w \in Settings : <>[](cr # Absent /\ cr.want = w) => <>[](running = w)


(* While the instance is not ready the controller keeps looking at its     *)
(* dependencies.                                                           *)
DependenciesPolled ==
  <>[](cr # Absent /\ ~cr.ready) => []<>(pc = "pgRunning" \/ pc = "valkeyRunning")

(* A Gitea CR gets the PostgreSQL cluster it asks for.                     *)
DatabaseCreated == Resynced => (<>[](cr # Absent) => <>("db" \in Present))

=============================================================================
