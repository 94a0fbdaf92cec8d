------------------------ MODULE GiteaControllerProofs ------------------------
(***************************************************************************)
(* Proofs about GiteaController, for every configuration of the spec and   *)
(* any number of failures, restarts and outages: type correctness, that no *)
(* pass takes back what was written to the CR, that status.ready and the   *)
(* StatefulSet come behind what they rest on, and that the condition       *)
(* ApiToken tells the truth.                                               *)
(***************************************************************************)
EXTENDS GiteaController, TLAPS

(* The steps of a pass, as literal names.                                  *)
LEMMA StepNames ==
  Steps = {"crb", "db", "serviceMonitorPG", "metricsServicePG", "dbPending",
           "cachePending", "valkey", "valkeyRunning", "pgRunning",
           "clusterDomain", "certificate", "dbReady", "cacheReady",
           "serviceMonitor", "metricsService", "service", "serviceAccount",
           "role", "roleBinding", "initSecret", "valkeyPassword",
           "inlineConfig", "restart", "adminSecret", "configSecret",
           "statefulSet", "pdb", "ingress", "podUP", "apiUP",
           "readyCondition", "statusReady", "adminToken", "postToken",
           "storeToken", "tokenCondition", "apiDown"}
  BY DEF Steps, Position

(* Every child has a step of its own, and "idle" is no step.               *)
LEMMA StepsOfChildren == Child \subseteq Steps /\ "idle" \notin Steps
  BY StepNames DEF Child

(* Positions are numbers.                                                  *)
LEMMA PositionNat == \A s \in Steps : Position[s] \in Nat
  BY DEF Steps, Position

(* No two steps share a position.                                          *)
LEMMA PositionInjective ==
  \A s, t \in Steps : Position[s] = Position[t] => s = t
  BY StepNames DEF Position

(* The last child is upserted before podUP.                                *)
LEMMA ChildrenFirst == \A c \in Child : Position[c] < 29
  BY DEF Child, Position

(* The changes made to a Gitea CR give a Gitea CR; only a new one and      *)
(* WithReady decide about status.ready, only WithWant about the settings.  *)
LEMMA NewGiteaOK ==
  ASSUME NEW w \in Settings
  PROVE NewGitea(w) \in Gitea /\ ~NewGitea(w).ready
  BY DEF Gitea, NewGitea

(* A condition changes no field but its own.                               *)
LEMMA ConditionOK ==
  ASSUME NEW o \in Gitea, NEW t \in ConditionTypes, NEW v \in {"False", "True"}
  PROVE /\ WithCondition(o, t, v) \in Gitea
        /\ WithCondition(o, t, v).ready = o.ready
  BY DEF Gitea, WithCondition

(* Setting status.ready.                                                   *)
LEMMA ReadyOK ==
  ASSUME NEW o \in Gitea
  PROVE WithReady(o) \in Gitea /\ WithReady(o).ready
  BY DEF Gitea, WithReady

(* Writing the cluster domain leaves status and settings alone.            *)
LEMMA DomainOK ==
  ASSUME NEW o \in Gitea, NEW d \in Domains
  PROVE /\ WithDomain(o, d) \in Gitea
        /\ WithDomain(o, d).ready = o.ready /\ WithDomain(o, d).want = o.want
  BY DEF Gitea, WithDomain

(* An edit of the settings leaves the status alone.                        *)
LEMMA WantOK ==
  ASSUME NEW o \in Gitea, NEW w \in Settings
  PROVE WithWant(o, w) \in Gitea /\ WithWant(o, w).ready = o.ready
  BY DEF Gitea, WithWant

(* A status update takes the status and keeps the spec.                    *)
LEMMA StatusOK ==
  ASSUME NEW o \in Gitea, NEW p \in Gitea
  PROVE /\ WithStatus(o, p) \in Gitea
        /\ WithStatus(o, p).ready = p.ready /\ WithStatus(o, p).want = o.want
  BY DEF Gitea, WithStatus

(* The ends of a pass and the way to the next step, within the types.      *)
LEMMA RestOK == Rest => PassOK'
  BY StepsOfChildren DEF Rest, PassOK

(* A pass that ends with an error.                                         *)
LEMMA RetryOK == StoreOK /\ Retry => PassOK' /\ queued' \in BOOLEAN
  BY RestOK DEF Retry

(* A pass that ends with a wait, or done.                                  *)
LEMMA WaitOK == StoreOK /\ (Wait \/ Finish) => PassOK' /\ queued' \in BOOLEAN
  BY RestOK DEF Wait, Finish, StoreOK

(* The next step of a pass.                                                *)
LEMMA GoOnOK ==
  ASSUME PassOK, StoreOK, GoOn, obj' \in Gitea, UNCHANGED <<objFresh, objLive>>
  PROVE PassOK' /\ queued' \in BOOLEAN
  BY DEF GoOn, PassOK, StoreOK

(* A jump within a pass.                                                   *)
LEMMA GotoOK ==
  ASSUME PassOK, StoreOK, NEW step \in Steps, Goto(step),
         obj' \in Gitea, UNCHANGED <<objFresh, objLive>>
  PROVE PassOK' /\ queued' \in BOOLEAN
  BY DEF Goto, PassOK, StoreOK

(* A failed call is counted.                                               *)
LEMMA FailOK == BudgetOK /\ Fail => BudgetOK'
  BY DEF BudgetOK, Fail

(* A write of the pass stores a Gitea CR.                                  *)
LEMMA WriteOK ==
  ASSUME StoreOK, NEW o \in Gitea, Write(o)
  PROVE /\ cr' \in Gitea /\ cache' \in Gitea \cup {Absent}
        /\ fresh' \in BOOLEAN /\ cacheLive' \in BOOLEAN
  BY DEF Write, StoreOK

(* A copy that is the stored object is a copy of the CR that exists, which *)
(* holds what the pass saw: the facts about the copies.                    *)
CopiesTrue ==
  /\ fresh => cache = cr /\ (cr # Absent => cacheLive)
  /\ cacheLive => /\ cr # Absent /\ cache # Absent
                  /\ cache.ready => cr.ready
  /\ objFresh => objLive /\ (obj.ready <=> cr.ready)
  /\ objLive => /\ cr # Absent /\ pc # "idle"
                /\ obj.ready => cr.ready

(* StatusUpdate stores a CR, or nothing.                                   *)
LEMMA StatusUpdateOK ==
  ASSUME StoreOK, PassOK, BudgetOK, CopiesTrue, NEW o \in Gitea, StatusUpdate(o)
  PROVE /\ cr' \in Gitea \cup {Absent} /\ cache' \in Gitea \cup {Absent}
        /\ fresh' \in BOOLEAN /\ cacheLive' \in BOOLEAN
        /\ BudgetOK'
<1>1. CASE objFresh /\ Write(WithStatus(cr, o)) /\ UNCHANGED budget
  <2>1. cr \in Gitea
    BY <1>1 DEF CopiesTrue, StoreOK
  <2> QED
    BY <1>1, <2>1, StatusOK, WriteOK DEF BudgetOK, budget
<1>2. CASE ~objFresh /\ UNCHANGED <<store, budget>>
  BY <1>2 DEF StoreOK, BudgetOK, store, budget
<1>3. CASE Fail /\ UNCHANGED store
  BY <1>3, FailOK DEF StoreOK, store
<1> QED
  BY <1>1, <1>2, <1>3 DEF StatusUpdate

(* setCondition keeps the types and leaves status.ready of the copy alone. *)
LEMMA SetConditionOK ==
  ASSUME StoreOK, PassOK, BudgetOK, CopiesTrue, obj \in Gitea,
         NEW t \in ConditionTypes, NEW v \in {"False", "True"}, SetCondition(t, v)
  PROVE /\ cr' \in Gitea \cup {Absent} /\ cache' \in Gitea \cup {Absent}
        /\ fresh' \in BOOLEAN /\ cacheLive' \in BOOLEAN
        /\ BudgetOK'
        /\ obj' \in Gitea /\ obj'.ready = obj.ready
        /\ UNCHANGED <<objFresh, objLive>>
  BY ConditionOK, StatusUpdateOK DEF SetCondition

(* A created child is a child.                                             *)
LEMMA OwnOK ==
  ASSUME ClusterOK, StoreOK, NEW c \in Child, Own(c)
  PROVE /\ children' \subseteq Child /\ orphans' \subseteq Child
        /\ removed' \subseteq Child /\ events' \in BOOLEAN
  BY DEF Own, ClusterOK, StoreOK

(* Children lost are children no more.                                     *)
LEMMA LoseOK ==
  ASSUME TypeOK, NEW S \in SUBSET Child, Lose(S)
  PROVE StoreOK' /\ PassOK' /\ ClusterOK'
<1>1. StoreOK' /\ PassOK'
  BY DEF Lose, TypeOK, StoreOK, PassOK, store, copy
<1>2. /\ children' \subseteq Child /\ orphans' \subseteq Child
      /\ removed' \subseteq Child /\ crb' \in BOOLEAN
  BY DEF Lose, TypeOK, ClusterOK, Present
<1>3. /\ dbRunning' \in BOOLEAN /\ valkeyUp' \in BOOLEAN /\ api' \in BOOLEAN
      /\ issued' \in BOOLEAN /\ stored' \in BOOLEAN
  BY DEF Lose, TypeOK, ClusterOK
<1>4. inline' \in Settings \cup {None} /\ running' \in Settings \cup {None}
  BY DEF Lose, TypeOK, ClusterOK
<1> QED
  BY <1>1, <1>2, <1>3, <1>4 DEF ClusterOK

(* What a step does that touches nothing but the pass and the CR.          *)
LEMMA ElsewhereOK ==
  ASSUME ClusterOK, StoreOK, Elsewhere
  PROVE ClusterOK' /\ events' \in BOOLEAN
  BY DEF Elsewhere, owned, plane, token, ClusterOK, StoreOK

(* Every step keeps the types.                                             *)
LEMMA TypeStep == TypeOK /\ CopiesTrue /\ [Next]_vars => TypeOK'
<1> SUFFICES ASSUME TypeOK, CopiesTrue, [Next]_vars PROVE TypeOK'
  OBVIOUS
<1> USE DEF TypeOK
<1>1. CASE Reconcile
  <2>1. PassOK'
    <3>1. CASE cache = Absent
      BY <1>1, <3>1 DEF Reconcile, copy, PassOK
    <3>2. CASE cache # Absent
      BY <1>1, <3>2, StepNames DEF Reconcile, PassOK, StoreOK
    <3> QED
      BY <3>1, <3>2
  <2> QED
    BY <1>1, <2>1, ElsewhereOK DEF Reconcile, StoreOK, BudgetOK, store, budget
<1>2. CASE UpsertCRB
  <2>1. obj \in Gitea
    BY <1>2 DEF UpsertCRB, PassOK
  <2>2. PassOK' /\ queued' \in BOOLEAN
    BY <1>2, <2>1, GoOnOK, GotoOK, StepNames DEF UpsertCRB, copy
  <2>3. crb' \in BOOLEAN
    BY <1>2 DEF UpsertCRB, ClusterOK
  <2> QED
    BY <1>2, <2>2, <2>3 DEF UpsertCRB, StoreOK, ClusterOK, BudgetOK, store, owned,
       plane, token, budget
<1>3. ASSUME NEW c \in Plain, Upsert(c) PROVE TypeOK'
  <2>1. c \in Child /\ c \in Steps /\ obj \in Gitea
    BY <1>3, StepsOfChildren DEF Upsert, PassOK, Plain
  <2>2. PassOK' /\ queued' \in BOOLEAN
    BY <1>3, <2>1, GoOnOK, GotoOK DEF Upsert, copy
  <2>3. /\ children' \subseteq Child /\ orphans' \subseteq Child
        /\ removed' \subseteq Child /\ events' \in BOOLEAN
    BY <1>3, <2>1, OwnOK DEF Upsert, ClusterOK, StoreOK
  <2> QED
    BY <1>3, <2>2, <2>3 DEF Upsert, StoreOK, ClusterOK, BudgetOK, store, plane,
       token, budget
<1>4. ASSUME NEW step \in Steps, NEW type \in ConditionTypes,
             NEW value \in {"False", "True"}, NEW asked \in BOOLEAN,
             DependencyCondition(step, type, value, asked)
      PROVE TypeOK'
  <2>1. obj \in Gitea
    BY <1>4, StepsOfChildren DEF DependencyCondition, PassOK
  <2>2. CASE asked /\ ~obj.ready
    <3>1. SetCondition(type, value)
      BY <1>4, <2>2 DEF DependencyCondition
    <3> QED
      BY <1>4, <2>1, <3>1, SetConditionOK, GoOnOK, GotoOK, ElsewhereOK
      DEF DependencyCondition, StoreOK
  <2>3. CASE ~(asked /\ ~obj.ready)
    BY <1>4, <2>1, <2>3, GoOnOK, GotoOK, ElsewhereOK
    DEF DependencyCondition, StoreOK, BudgetOK, store, copy, budget
  <2> QED
    BY <2>2, <2>3
<1>5. ASSUME NEW step \in Steps, NEW up \in BOOLEAN, AwaitDependency(step, up)
      PROVE TypeOK'
  <2>1. obj \in Gitea
    BY <1>5, StepsOfChildren DEF AwaitDependency, PassOK
  <2>2. PassOK' /\ queued' \in BOOLEAN
    BY <1>5, <2>1, GoOnOK, GotoOK, WaitOK DEF AwaitDependency, copy
  <2> QED
    BY <1>5, <2>2, ElsewhereOK
    DEF AwaitDependency, StoreOK, BudgetOK, store, budget
<1>6. CASE ClusterDomain
  <2>0. Elsewhere
    BY <1>6 DEF ClusterDomain
  <2>1. obj \in Gitea
    BY <1>6 DEF ClusterDomain, PassOK
  <2>2. ASSUME NEW d \in Domains, objFresh, obj' = WithDomain(cr, d),
               Write(obj'), GoOn, UNCHANGED <<objFresh, objLive>>
        PROVE StoreOK' /\ PassOK'
    <3>1. cr \in Gitea
      BY <2>2 DEF CopiesTrue, StoreOK
    <3>2. obj' \in Gitea
      BY <2>2, <3>1, DomainOK
    <3>3. /\ cr' \in Gitea /\ cache' \in Gitea \cup {Absent}
          /\ fresh' \in BOOLEAN /\ cacheLive' \in BOOLEAN
      BY <2>2, <3>2, WriteOK
    <3> QED
      BY <2>0, <2>2, <3>2, <3>3, GoOnOK, ElsewhereOK DEF StoreOK
  <2>3. ASSUME Retry, UNCHANGED store PROVE StoreOK' /\ PassOK'
    BY <2>0, <2>3, RetryOK, ElsewhereOK DEF StoreOK, store
  <2>4. ASSUME GoOn, UNCHANGED <<store, copy>> PROVE StoreOK' /\ PassOK'
    BY <2>0, <2>1, <2>4, GoOnOK, ElsewhereOK DEF StoreOK, store, copy
  <2>5. StoreOK' /\ PassOK'
    BY <1>6, <2>2, <2>3, <2>4 DEF ClusterDomain
  <2> QED
    BY <1>6, <2>5, ElsewhereOK DEF ClusterDomain, BudgetOK, budget
<1>7. CASE ValkeyPassword
  <2>1. obj \in Gitea
    BY <1>7 DEF ValkeyPassword, PassOK
  <2>2. PassOK' /\ queued' \in BOOLEAN
    BY <1>7, <2>1, GoOnOK, GotoOK, RetryOK DEF ValkeyPassword, copy
  <2> QED
    BY <1>7, <2>2, ElsewhereOK
    DEF ValkeyPassword, StoreOK, BudgetOK, store, budget
<1>8. CASE InlineConfig
  <2>1. obj \in Gitea /\ obj.want \in Settings
    BY <1>8 DEF InlineConfig, PassOK, Gitea
  <2>2. PassOK' /\ queued' \in BOOLEAN
    <3>1. Goto("adminSecret") \/ Goto("restart")
      BY <1>8 DEF InlineConfig
    <3> QED
      BY <1>8, <2>1, <3>1, GoOnOK, GotoOK, StepNames DEF InlineConfig, copy
  <2>3. /\ children' \subseteq Child /\ orphans' \subseteq Child
        /\ removed' \subseteq Child /\ events' \in BOOLEAN
        /\ inline' \in Settings \cup {None}
    <3>1. CASE inline = obj.want
      BY <1>8, <3>1 DEF InlineConfig, ClusterOK, StoreOK
    <3>2. CASE inline # obj.want
      <4>1. "inlineConfig" \in Child
        BY DEF Child
      <4> QED
        BY <1>8, <2>1, <3>2, <4>1, OwnOK DEF InlineConfig
    <3> QED
      BY <3>1, <3>2
  <2> QED
    BY <1>8, <2>2, <2>3 DEF InlineConfig, StoreOK, ClusterOK, BudgetOK, store,
       token, budget
<1>9. CASE RestartPods
  <2>1. obj \in Gitea
    BY <1>9 DEF RestartPods, PassOK
  <2>2. PassOK' /\ queued' \in BOOLEAN
    BY <1>9, <2>1, GoOnOK, GotoOK, StepNames DEF RestartPods, copy
  <2>3. running' \in Settings \cup {None} /\ api' \in BOOLEAN /\ events' \in BOOLEAN
    BY <1>9 DEF RestartPods, ClusterOK, StoreOK
  <2> QED
    BY <1>9, <2>2, <2>3 DEF RestartPods, StoreOK, ClusterOK, BudgetOK, store,
       owned, token, budget
<1>10. ASSUME NEW type \in ConditionTypes, NEW value \in {"False", "True"},
              obj \in Gitea, ConditionThenWait(type, value), Elsewhere
       PROVE TypeOK'
  BY <1>10, ConditionOK, StatusUpdateOK, WaitOK, ElsewhereOK
  DEF ConditionThenWait, StoreOK
<1>11. ASSUME NEW type \in ConditionTypes, NEW value \in {"False", "True"},
              obj \in Gitea, SetCondition(type, value), GoOn, Elsewhere
       PROVE TypeOK'
  BY <1>11, SetConditionOK, GoOnOK, GotoOK, ElsewhereOK, StepNames DEF StoreOK
<1>12. CASE PodUP
  <2>1. obj \in Gitea /\ "InstanceReady" \in ConditionTypes
    BY <1>12 DEF PodUP, PassOK, ConditionTypes
  <2>2. CASE GoOn /\ UNCHANGED <<store, copy, budget>>
    BY <1>12, <2>1, <2>2, GoOnOK, GotoOK, ElsewhereOK, StepNames
    DEF PodUP, StoreOK, BudgetOK, store, copy, budget
  <2> QED
    BY <1>12, <2>1, <2>2, <1>10, <1>11 DEF PodUP
<1>13. CASE ApiUP
  <2>1. obj \in Gitea
    BY <1>13 DEF ApiUP, PassOK
  <2>2. PassOK' /\ queued' \in BOOLEAN
    <3>1. Goto("adminToken") \/ Goto("readyCondition") \/ Goto("apiDown")
      BY <1>13 DEF ApiUP
    <3> QED
      BY <1>13, <2>1, <3>1, GoOnOK, GotoOK, StepNames DEF ApiUP, copy
  <2>3. BudgetOK'
    BY <1>13, FailOK DEF ApiUP, BudgetOK, budget
  <2> QED
    BY <1>13, <2>2, <2>3, ElsewhereOK DEF ApiUP, StoreOK, store
<1>14. CASE ApiDown
  BY <1>14, <1>10 DEF ApiDown, PassOK, ConditionTypes
<1>15. CASE ReadyCondition
  BY <1>15, <1>11 DEF ReadyCondition, PassOK, ConditionTypes
<1>16. CASE StatusReady
  <2>1. obj \in Gitea
    BY <1>16 DEF StatusReady, PassOK
  <2>2. CASE /\ objFresh /\ obj' = WithReady(obj) /\ Write(WithStatus(cr, obj'))
             /\ GoOn /\ UNCHANGED <<objFresh, objLive>>
    <3>1. cr \in Gitea /\ obj' \in Gitea
      BY <2>1, <2>2, ReadyOK DEF CopiesTrue, StoreOK
    <3>2. /\ cr' \in Gitea /\ cache' \in Gitea \cup {Absent}
          /\ fresh' \in BOOLEAN /\ cacheLive' \in BOOLEAN
      BY <2>2, <3>1, StatusOK, WriteOK
    <3> QED
      BY <1>16, <2>2, <3>1, <3>2, GoOnOK, GotoOK, ElsewhereOK, StepNames
      DEF StatusReady, StoreOK, BudgetOK, budget
  <2>3. CASE Wait /\ UNCHANGED store
    BY <1>16, <2>3, WaitOK, ElsewhereOK
    DEF StatusReady, StoreOK, BudgetOK, store, budget
  <2> QED
    BY <1>16, <2>2, <2>3 DEF StatusReady
<1>17. CASE AdminToken
  <2>1. obj \in Gitea
    BY <1>17 DEF AdminToken, PassOK
  <2>2. PassOK' /\ queued' \in BOOLEAN
    BY <1>17, <2>1, GoOnOK, GotoOK, WaitOK, StepNames DEF AdminToken, copy
  <2> QED
    BY <1>17, <2>2, ElsewhereOK DEF AdminToken, StoreOK, BudgetOK, store, budget
<1>18. CASE PostToken
  <2>1. obj \in Gitea
    BY <1>18 DEF PostToken, PassOK
  <2>2. PassOK' /\ queued' \in BOOLEAN
    BY <1>18, <2>1, GoOnOK, GotoOK, WaitOK, StepNames DEF PostToken, copy
  <2>3. issued' \in BOOLEAN
    BY <1>18 DEF PostToken, ClusterOK
  <2> QED
    BY <1>18, <2>2, <2>3 DEF PostToken, StoreOK, ClusterOK, BudgetOK, store, owned,
       plane, budget
<1>19. CASE StoreToken
  <2>1. obj \in Gitea
    BY <1>19 DEF StoreToken, PassOK
  <2>2. PassOK' /\ queued' \in BOOLEAN
    BY <1>19, <2>1, GoOnOK, GotoOK, WaitOK, StepNames DEF StoreToken, copy
  <2>3. stored' \in BOOLEAN /\ events' \in BOOLEAN
    BY <1>19 DEF StoreToken, ClusterOK, StoreOK
  <2> QED
    BY <1>19, <2>2, <2>3 DEF StoreToken, StoreOK, ClusterOK, BudgetOK, store, owned,
       plane, budget
<1>20. CASE TokenCondition
  BY <1>20, <1>10 DEF TokenCondition, PassOK, ConditionTypes
<1>21. CASE Pass
  <2>1. CASE DependenciesPending
    BY <2>1, <1>4, StepNames, GiteaConstants DEF DependenciesPending, ConditionTypes
  <2>2. CASE DependenciesReady
    BY <2>2, <1>4, StepNames, GiteaConstants DEF DependenciesReady, ConditionTypes
  <2>3. CASE ValkeyRunning
    BY <2>3, <1>5, StepNames, GiteaConstants DEF ValkeyRunning
  <2>4. CASE PgRunning
    BY <2>4, <1>5, StepNames DEF PgRunning, ClusterOK
  <2> QED
    BY <1>21, <2>1, <2>2, <2>3, <2>4, <1>2, <1>3, <1>6, <1>7, <1>8, <1>9, <1>12,
       <1>13, <1>14, <1>15, <1>16, <1>17, <1>18, <1>19, <1>20 DEF Pass
<1>22. CASE CallFails
  <2>1. PassOK' /\ queued' \in BOOLEAN
    <3>1. CASE Retry \/ Wait
      BY <3>1, RetryOK, WaitOK
    <3>2. CASE pc = "restart" /\ GoOn /\ UNCHANGED copy
      BY <3>2, GoOnOK DEF copy, PassOK
    <3> QED
      BY <1>22, <3>1, <3>2 DEF CallFails
  <2> QED
    BY <1>22, <2>1, FailOK, ElsewhereOK DEF CallFails, StoreOK, store
<1>23. CASE ReplyLost
  <2>1. PassOK' /\ queued' \in BOOLEAN
    BY <1>23, RetryOK, WaitOK DEF ReplyLost
  <2> DEFINE ServedOK ==
        /\ children' \subseteq Child /\ orphans' \subseteq Child
        /\ removed' \subseteq Child /\ events' \in BOOLEAN
        /\ inline' \in Settings \cup {None} /\ issued' \in BOOLEAN
  <2>2. ServedOK
    <3>1. ASSUME NEW c \in Plain, Own(c), UNCHANGED <<inline, issued>>
          PROVE ServedOK
      BY <3>1, OwnOK DEF Plain, ClusterOK
    <3>2. CASE /\ pc = "inlineConfig" /\ Own(pc) /\ inline' = obj.want
               /\ UNCHANGED issued
      <4>1. "inlineConfig" \in Child /\ obj.want \in Settings
        BY <3>2 DEF Child, PassOK, Gitea
      <4> QED
        BY <3>2, <4>1, OwnOK DEF ClusterOK
    <3>3. CASE /\ issued' = TRUE
               /\ UNCHANGED <<children, orphans, removed, events, inline>>
      BY <3>3 DEF ClusterOK, StoreOK
    <3> QED
      BY <1>23, <3>1, <3>2, <3>3 DEF ReplyLost
  <2> QED
    BY <1>23, <2>1, <2>2, FailOK DEF ReplyLost, StoreOK, ClusterOK, store
<1>24. CASE Restart
  <2>1. PassOK'
    BY <1>24, RestOK DEF Restart
  <2>2. /\ fresh' \in BOOLEAN /\ cacheLive' \in BOOLEAN
        /\ queued' \in BOOLEAN /\ events' \in BOOLEAN
    BY <1>24 DEF Restart
  <2> QED
    BY <1>24, <2>1, <2>2 DEF Restart, StoreOK, ClusterOK, BudgetOK, owned, plane, token
<1>25. CASE Watch
  BY <1>25 DEF Watch, OnlyQueue, StoreOK, PassOK, ClusterOK, BudgetOK, copy, owned,
     plane, token, budget
<1>26. CASE ChildEvent
  <2>1. queued' \in BOOLEAN /\ events' \in BOOLEAN
    BY <1>26 DEF ChildEvent
  <2> QED
    BY <1>26, <2>1 DEF ChildEvent, OnlyQueue, StoreOK, PassOK, ClusterOK, BudgetOK,
       store, copy, owned, plane, token, budget
<1>27. CASE Resync
  BY <1>27 DEF Resync, OnlyQueue, StoreOK, PassOK, ClusterOK, BudgetOK, store,
     copy, owned, plane, token, budget
<1>28. CASE Collect
  <2>1. PICK batch \in Batches : Lose(orphans \cap batch)
    BY <1>28 DEF Collect
  <2>2. orphans \cap batch \in SUBSET Child
    BY DEF ClusterOK
  <2> QED
    BY <1>28, <2>1, <2>2, LoseOK DEF Collect, BudgetOK, budget
<1>29. CASE RemoveByHand
  <2>1. PICK c \in Removable \cap children : Lose({c})
    BY <1>29 DEF RemoveByHand
  <2>2. {c} \in SUBSET Child
    BY <2>1 DEF ClusterOK
  <2> QED
    BY <1>29, <2>1, <2>2, LoseOK DEF RemoveByHand, Operate, BudgetOK
<1>30. ASSUME NEW o \in Gitea \cup {Absent}, Change(o),
              cacheLive' \in BOOLEAN, objLive' \in BOOLEAN,
              children' \subseteq Child, orphans' \subseteq Child,
              removed' \subseteq Child
       PROVE TypeOK'
  <2>1. fresh' \in BOOLEAN /\ objFresh' \in BOOLEAN
    BY <1>30, Zenon DEF Change
  <2>2. ops' \in Nat
    BY <1>30 DEF Change, Operate, BudgetOK
  <2> QED
    BY <1>30, <2>1, <2>2 DEF Change, Operate, StoreOK, PassOK, ClusterOK, BudgetOK, plane, token
<1>31. CASE CreateGitea
  <2>1. PICK w \in Settings : Change(NewGitea(w))
    BY <1>31 DEF CreateGitea
  <2> QED
    BY <1>31, <2>1, <1>30, NewGiteaOK DEF CreateGitea, StoreOK, PassOK, ClusterOK
<1>32. CASE EditSpec
  <2>1. PICK w \in Settings : Change(WithWant(cr, w))
    BY <1>32 DEF EditSpec
  <2>2. cr \in Gitea
    BY <1>32 DEF EditSpec, StoreOK
  <2> QED
    BY <1>32, <2>1, <2>2, <1>30, WantOK
    DEF EditSpec, StoreOK, PassOK, ClusterOK, owned
<1>33. CASE DeleteGitea
  BY <1>33, <1>30 DEF DeleteGitea, ClusterOK, Present
<1>34. ASSUME OnlyPlane, UNCHANGED <<ops, fails, crashes>>, downs' \in Nat,
              events' \in BOOLEAN, dbRunning' \in BOOLEAN,
              valkeyUp' \in BOOLEAN, api' \in BOOLEAN,
              running' \in Settings \cup {None}
       PROVE TypeOK'
  BY <1>34 DEF OnlyPlane, StoreOK, PassOK, ClusterOK, BudgetOK, store, copy, owned,
     token
<1>35. CASE DbStarts
  BY <1>35, <1>34 DEF DbStarts, StoreOK, ClusterOK, BudgetOK, budget
<1>36. CASE ValkeyStarts
  BY <1>36, <1>34 DEF ValkeyStarts, StoreOK, ClusterOK, BudgetOK, budget
<1>37. CASE PodStarts
  BY <1>37, <1>34 DEF PodStarts, StoreOK, ClusterOK, BudgetOK, budget
<1>38. CASE ApiStarts
  BY <1>38, <1>34 DEF ApiStarts, StoreOK, ClusterOK, BudgetOK, budget
<1>39. CASE ApiStops
  <2>1. api' \in BOOLEAN
    BY <1>39, Zenon DEF ApiStops
  <2>2. downs' \in Nat
    BY <1>39 DEF ApiStops, BudgetOK
  <2> QED
    BY <1>39, <2>1, <2>2, <1>34 DEF ApiStops, StoreOK, ClusterOK
<1>40. CASE UNCHANGED vars
  BY <1>40 DEF vars, StoreOK, PassOK, ClusterOK, BudgetOK, store, copy, owned,
     plane, token, budget
<1> QED
  BY <1>1, <1>21, <1>22, <1>23, <1>24, <1>25, <1>26, <1>27, <1>28, <1>29, <1>31,
     <1>32, <1>33, <1>35, <1>36, <1>37, <1>38, <1>39, <1>40
  DEF Next, Environment

-----------------------------------------------------------------------------
(* What a step leaves of the CR: status.ready and, but for a person's      *)
(* change, the settings.  Only statusReady sets status.ready, a CR is      *)
(* created without it, and one that is deleted leaves no children.         *)
KeepsCR ==
  /\ cr # Absent /\ cr' # Absent =>
       /\ cr.ready => cr'.ready
       /\ cr'.want # cr.want => ops' = ops + 1
       /\ cr'.ready => cr.ready \/ (objLive /\ pc = "statusReady")
  /\ cr = Absent /\ cr' # Absent => ~cr'.ready
  /\ cr # Absent /\ cr' = Absent => children' = {}

(* The pass goes on with the copy it has.                                  *)
GoesOn == pc' # "idle" /\ objFresh' = objFresh /\ objLive' = objLive

(* GoOn and Goto do not end a pass.                                        *)
LEMMA GoOnMoves == GoOn => pc' # "idle"
  BY StepsOfChildren DEF GoOn

(* A jump leads to a step.                                                 *)
LEMMA GotoMoves == \A step \in Steps : Goto(step) => pc' # "idle"
  BY StepsOfChildren DEF Goto

(* A step that writes nothing to the CR keeps the facts about the copies.  *)
LEMMA QuietKeeps ==
  ASSUME CopiesTrue, UNCHANGED store,
         \/ Rest
         \/ GoesOn /\ (obj'.ready <=> obj.ready)
         \/ UNCHANGED <<pc, obj, objFresh, objLive>>
  PROVE CopiesTrue' /\ KeepsCR
  BY DEF CopiesTrue, KeepsCR, Rest, GoesOn, store

(* So does a write of the pass that keeps status.ready and the settings.   *)
LEMMA WriteKeeps ==
  ASSUME TypeOK, CopiesTrue, objFresh, NEW o \in Gitea, Write(o),
         cr.ready => o.ready, o.want = cr.want,
         o.ready => cr.ready \/ pc = "statusReady",
         Rest \/ (GoesOn /\ (obj'.ready <=> o.ready))
  PROVE CopiesTrue' /\ KeepsCR
<1>1. cr # Absent /\ o # Absent /\ objLive
  BY GiteaConstants DEF CopiesTrue
<1>2. cr' = o /\ cache' = cache /\ cacheLive' = cacheLive
      /\ (fresh' => fresh /\ o = cr)
  BY DEF Write
<1>3. KeepsCR
  BY <1>1, <1>2 DEF KeepsCR
<1>4. /\ fresh' => cache' = cr' /\ (cr' # Absent => cacheLive')
      /\ cacheLive' => /\ cr' # Absent /\ cache' # Absent
                       /\ cache'.ready => cr'.ready
  BY <1>1, <1>2 DEF CopiesTrue
<1>5. CASE Rest
  BY <1>3, <1>4, <1>5 DEF Rest, CopiesTrue
<1>6. CASE GoesOn /\ (obj'.ready <=> o.ready)
  BY <1>1, <1>2, <1>3, <1>4, <1>6 DEF GoesOn, CopiesTrue
<1> QED
  BY <1>5, <1>6

(* So does setCondition, applied or not.                                   *)
LEMMA StatusUpdateKeeps ==
  ASSUME TypeOK, CopiesTrue, obj \in Gitea, NEW o \in Gitea, o.ready = obj.ready,
         StatusUpdate(o), Rest \/ (GoesOn /\ obj'.ready = obj.ready)
  PROVE CopiesTrue' /\ KeepsCR
<1>1. CASE objFresh /\ Write(WithStatus(cr, o))
  <2>1. cr \in Gitea /\ (obj.ready <=> cr.ready)
    BY <1>1 DEF CopiesTrue, TypeOK, StoreOK
  <2>2. /\ WithStatus(cr, o) \in Gitea /\ WithStatus(cr, o).ready = o.ready
        /\ WithStatus(cr, o).want = cr.want
    BY <2>1, StatusOK
  <2> QED
    BY <1>1, <2>1, <2>2, WriteKeeps
<1>2. CASE UNCHANGED store
  BY <1>2, QuietKeeps
<1> QED
  BY <1>1, <1>2 DEF StatusUpdate, store

(* A change of the CR by a person leaves no copy that is the stored object.*)
LEMMA ChangeKeeps ==
  ASSUME TypeOK, CopiesTrue, NEW o \in Gitea, Change(o), cr # Absent,
         o.ready = cr.ready, cacheLive' = cacheLive, objLive' = objLive
  PROVE CopiesTrue' /\ KeepsCR
<1>1. o # Absent /\ cr' = o /\ cache' = cache /\ pc' = pc /\ obj' = obj
      /\ ops' = ops + 1
  BY GiteaConstants DEF Change, Operate
<1>2. ~fresh' /\ ~objFresh'
  BY DEF Change
<1> QED
  BY <1>1, <1>2 DEF CopiesTrue, KeepsCR

(* Every step keeps the facts about the copies, and what the CR says.      *)
LEMMA CopiesStep == TypeOK /\ CopiesTrue /\ [Next]_vars => CopiesTrue' /\ KeepsCR
<1> SUFFICES ASSUME TypeOK, CopiesTrue, [Next]_vars PROVE CopiesTrue' /\ KeepsCR
  OBVIOUS
<1>0. pc # "idle" => obj \in Gitea
  BY DEF TypeOK, PassOK
<1>1. CASE Reconcile
  <2>1. UNCHANGED store
    BY <1>1 DEF Reconcile
  <2>2. CASE cache = Absent
    BY <1>1, <2>1, <2>2, QuietKeeps DEF Reconcile, copy
  <2>3. CASE cache # Absent
    <3>1. pc' # "idle" /\ obj' = cache /\ objFresh' = fresh /\ objLive' = cacheLive
      BY <1>1, <2>3 DEF Reconcile
    <3>2. cr' = cr /\ cache' = cache /\ fresh' = fresh /\ cacheLive' = cacheLive
      BY <2>1 DEF store
    <3> QED
      BY <2>3, <3>1, <3>2 DEF CopiesTrue, KeepsCR
  <2> QED
    BY <2>2, <2>3
<1>2. ASSUME UNCHANGED <<store, copy>>, GoOn PROVE CopiesTrue' /\ KeepsCR
  BY <1>2, GoOnMoves, QuietKeeps DEF GoesOn, copy
<1>3. ASSUME UNCHANGED <<store, copy>>, NEW step \in Steps, Goto(step)
      PROVE CopiesTrue' /\ KeepsCR
  BY <1>3, GotoMoves, QuietKeeps DEF GoesOn, copy
<1>4. ASSUME UNCHANGED store, Retry \/ Wait \/ Finish PROVE CopiesTrue' /\ KeepsCR
  BY <1>4, QuietKeeps DEF Retry, Wait, Finish
<1>5. ASSUME obj \in Gitea, NEW t \in ConditionTypes, NEW v \in {"False", "True"},
             ConditionThenWait(t, v)
      PROVE CopiesTrue' /\ KeepsCR
  BY <1>5, ConditionOK, StatusUpdateKeeps DEF ConditionThenWait, Wait
<1>6. ASSUME obj \in Gitea, NEW t \in ConditionTypes, NEW v \in {"False", "True"},
             SetCondition(t, v), GoOn
      PROVE CopiesTrue' /\ KeepsCR
  BY <1>6, ConditionOK, GoOnMoves, StatusUpdateKeeps DEF SetCondition, GoesOn
<1>7. CASE UpsertCRB
  BY <1>7, <1>2, <1>3, StepNames DEF UpsertCRB
<1>8. ASSUME NEW c \in Plain, Upsert(c) PROVE CopiesTrue' /\ KeepsCR
  BY <1>8, <1>2 DEF Upsert
<1>9. ASSUME NEW step \in Steps, NEW t \in ConditionTypes,
             NEW v \in {"False", "True"}, NEW asked \in BOOLEAN,
             DependencyCondition(step, t, v, asked)
      PROVE CopiesTrue' /\ KeepsCR
  BY <1>9, <1>0, <1>2, <1>6, StepsOfChildren DEF DependencyCondition
<1>10. ASSUME NEW step \in Steps, NEW up \in BOOLEAN, AwaitDependency(step, up)
       PROVE CopiesTrue' /\ KeepsCR
  BY <1>10, <1>2, <1>4 DEF AwaitDependency
<1>11. CASE ClusterDomain
  <2>1. ASSUME NEW d \in Domains, objFresh, obj' = WithDomain(cr, d),
               Write(obj'), GoOn, UNCHANGED <<objFresh, objLive>>
        PROVE CopiesTrue' /\ KeepsCR
    <3>1. cr \in Gitea
      BY <2>1 DEF CopiesTrue, TypeOK, StoreOK
    <3> QED
      BY <2>1, <3>1, DomainOK, GoOnMoves, WriteKeeps DEF GoesOn
  <2> QED
    BY <1>11, <2>1, <1>2, <1>4 DEF ClusterDomain
<1>12. CASE ValkeyPassword
  BY <1>12, <1>2, <1>4 DEF ValkeyPassword
<1>13. CASE InlineConfig
  <2>1. Goto("adminSecret") \/ Goto("restart")
    BY <1>13 DEF InlineConfig
  <2> QED
    BY <1>13, <2>1, <1>3, StepNames DEF InlineConfig
<1>14. CASE RestartPods
  BY <1>14, <1>2 DEF RestartPods
<1>15. CASE PodUP
  BY <1>15, <1>0, <1>2, <1>5, <1>6 DEF PodUP, ConditionTypes
<1>16. CASE ApiUP
  <2>1. Goto("adminToken") \/ Goto("readyCondition") \/ Goto("apiDown")
    BY <1>16 DEF ApiUP
  <2> QED
    BY <1>16, <2>1, <1>3, StepNames DEF ApiUP
<1>17. CASE ApiDown
  BY <1>17, <1>0, <1>5 DEF ApiDown, ConditionTypes
<1>18. CASE ReadyCondition
  BY <1>18, <1>0, <1>6 DEF ReadyCondition, ConditionTypes
<1>19. CASE StatusReady
  <2>1. CASE /\ objFresh /\ obj' = WithReady(obj) /\ Write(WithStatus(cr, obj'))
             /\ GoOn /\ UNCHANGED <<objFresh, objLive>>
    <3>1. cr \in Gitea /\ obj' \in Gitea /\ obj'.ready /\ pc = "statusReady"
      BY <1>19, <1>0, <2>1, ReadyOK DEF StatusReady, CopiesTrue, TypeOK, StoreOK
    <3>2. /\ WithStatus(cr, obj') \in Gitea
          /\ WithStatus(cr, obj').ready = obj'.ready
          /\ WithStatus(cr, obj').want = cr.want
      BY <3>1, StatusOK
    <3> QED
      BY <2>1, <3>1, <3>2, GoOnMoves, WriteKeeps DEF GoesOn
  <2> QED
    BY <1>19, <2>1, <1>4 DEF StatusReady
<1>20. CASE AdminToken
  BY <1>20, <1>2, <1>4 DEF AdminToken
<1>21. CASE PostToken
  BY <1>21, <1>2, <1>4 DEF PostToken
<1>22. CASE StoreToken
  BY <1>22, <1>2, <1>4 DEF StoreToken
<1>23. CASE TokenCondition
  BY <1>23, <1>0, <1>5 DEF TokenCondition, ConditionTypes
<1>24. CASE Pass
  <2>1. CASE DependenciesPending
    BY <2>1, <1>9, StepNames, GiteaConstants DEF DependenciesPending, ConditionTypes
  <2>2. CASE DependenciesReady
    BY <2>2, <1>9, StepNames, GiteaConstants DEF DependenciesReady, ConditionTypes
  <2>3. CASE ValkeyRunning
    BY <2>3, <1>10, StepNames, GiteaConstants DEF ValkeyRunning
  <2>4. CASE PgRunning
    BY <2>4, <1>10, StepNames DEF PgRunning, TypeOK, ClusterOK
  <2> QED
    BY <1>24, <2>1, <2>2, <2>3, <2>4, <1>7, <1>8, <1>11, <1>12, <1>13, <1>14,
       <1>15, <1>16, <1>17, <1>18, <1>19, <1>20, <1>21, <1>22, <1>23 DEF Pass
<1>25. CASE CallFails
  BY <1>25, <1>2, <1>4 DEF CallFails
<1>26. CASE ReplyLost
  BY <1>26, <1>4 DEF ReplyLost
<1>27. ASSUME cache' = cr, fresh' = TRUE, cacheLive' = (cr # Absent), cr' = cr,
              Rest \/ UNCHANGED <<pc, copy>>
       PROVE CopiesTrue' /\ KeepsCR
  <2>1. cacheLive' <=> cr # Absent
    BY <1>27
  <2>2. KeepsCR
    BY <1>27 DEF KeepsCR
  <2>3. CASE Rest
    BY <1>27, <2>1, <2>2, <2>3 DEF CopiesTrue, Rest
  <2>4. CASE UNCHANGED <<pc, copy>>
    <3>1. pc' = pc /\ obj' = obj /\ objFresh' = objFresh /\ objLive' = objLive
      BY <2>4 DEF copy
    <3> QED
      BY <1>27, <2>1, <2>2, <3>1 DEF CopiesTrue
  <2> QED
    BY <1>27, <2>3, <2>4
<1>28. CASE Restart
  BY <1>28, <1>27 DEF Restart
<1>29. CASE Watch
  BY <1>29, <1>27 DEF Watch, OnlyQueue
<1>30. ASSUME UNCHANGED <<store, pc, copy>> PROVE CopiesTrue' /\ KeepsCR
  BY <1>30, QuietKeeps DEF copy
<1>31. CASE ChildEvent \/ Resync
  BY <1>31, <1>30 DEF ChildEvent, Resync, OnlyQueue
<1>32. CASE Collect \/ RemoveByHand
  BY <1>32, <1>30 DEF Collect, RemoveByHand, Lose
<1>33. CASE CreateGitea
  <2>1. PICK w \in Settings : Change(NewGitea(w))
    BY <1>33 DEF CreateGitea
  <2>2. cr = Absent /\ ~cacheLive' /\ ~objLive'
    BY <1>33 DEF CreateGitea, CopiesTrue
  <2>3. ~fresh' /\ ~objFresh'
    BY <2>1 DEF Change
  <2>4. cr' # Absent => ~cr'.ready
    BY <2>1, NewGiteaOK DEF Change
  <2> QED
    BY <2>2, <2>3, <2>4 DEF CopiesTrue, KeepsCR
<1>34. CASE EditSpec
  <2>1. PICK w \in Settings : Change(WithWant(cr, w))
    BY <1>34 DEF EditSpec
  <2>2. cr \in Gitea /\ cr # Absent
    BY <1>34 DEF EditSpec, TypeOK, StoreOK
  <2> QED
    BY <1>34, <2>1, <2>2, WantOK, ChangeKeeps DEF EditSpec
<1>35. CASE DeleteGitea
  <2>1. /\ cr' = Absent /\ ~fresh' /\ ~objFresh' /\ ~cacheLive' /\ ~objLive'
        /\ children' = {}
    BY <1>35 DEF DeleteGitea, Change
  <2> QED
    BY <2>1 DEF CopiesTrue, KeepsCR
<1>36. CASE DbStarts \/ ValkeyStarts \/ PodStarts \/ ApiStarts \/ ApiStops
  BY <1>36, <1>30
  DEF DbStarts, ValkeyStarts, PodStarts, ApiStarts, ApiStops, OnlyPlane
<1>37. CASE UNCHANGED vars
  BY <1>37, <1>30 DEF vars
<1> QED
  BY <1>1, <1>24, <1>25, <1>26, <1>28, <1>29, <1>31, <1>32, <1>33, <1>34, <1>35,
     <1>36, <1>37 DEF Next, Environment

(* The initial state is of the types, and there are no copies in it.       *)
LEMMA TypeInit == Init => TypeOK /\ CopiesTrue
<1> SUFFICES ASSUME Init PROVE TypeOK /\ CopiesTrue
  OBVIOUS
<1>1. StoreOK
  BY DEF Init, StoreOK
<1>2. PassOK
  BY DEF Init, PassOK
<1>3. ClusterOK
  BY DEF Init, ClusterOK
<1>4. BudgetOK
  BY DEF Init, BudgetOK
<1>5. CopiesTrue
  BY DEF Init, CopiesTrue
<1> QED
  BY <1>1, <1>2, <1>3, <1>4, <1>5 DEF TypeOK

(* The variables stay of their types, and the facts about the copies hold. *)
THEOREM GiteaTypes == Spec => [](TypeOK /\ CopiesTrue)
<1>1. TypeOK /\ CopiesTrue /\ [Next]_vars => (TypeOK /\ CopiesTrue)'
  BY TypeStep, CopiesStep
<1> QED
  BY TypeInit, <1>1, PTL DEF Spec

(* No pass takes back what another pass or a person wrote to the CR: an    *)
(* old copy of it is refused by the API server.                            *)
THEOREM GiteaKeptCR == Spec => NothingTakenBack
<1>1. TypeOK /\ CopiesTrue /\ [Next]_vars =>
        [cr # Absent /\ cr' # Absent =>
           /\ cr.ready => cr'.ready
           /\ cr'.want # cr.want => ops' = ops + 1]_vars
  BY CopiesStep DEF KeepsCR
<1> QED
  BY GiteaTypes, <1>1, PTL DEF Spec, NothingTakenBack

-----------------------------------------------------------------------------
(* A child is done once the pass is behind the step that upserts it.  The  *)
(* database is done behind pgRunning: upsertPG may leave it out.           *)
Done(c, step) ==
  Position[IF c = "db" THEN "pgRunning" ELSE c] < Position[step]

(* What a pass on the CR that exists has done, is there or was lost.       *)
Behind ==
  objLive => \A c \in Needed : Done(c, pc) => c \in Present \cup removed

(* A running database and an inline config have their objects, and without *)
(* a CR there is no child that it owns.                                    *)
Places ==
  /\ dbRunning => "db" \in Present
  /\ inline # None => "inlineConfig" \in Present
  /\ cr = Absent => children = {}

(* The inductive invariant of ReadyHasChildren and PodsHaveMounts.         *)
ReadyInv == Behind /\ Places /\ ReadyHasChildren /\ PodsHaveMounts

(* No child is forgotten: it exists or it is known to be lost.             *)
Kept == Present \cup removed \subseteq Present' \cup removed'

(* One step further, at most the child of that step is newly done.         *)
LEMMA NewlyDone ==
  ASSUME pc \in Steps, GoOn, NEW c \in Child, Done(c, pc'), ~Done(c, pc)
  PROVE IF c = "db" THEN pc = "pgRunning" ELSE pc = c
<1> DEFINE s == IF c = "db" THEN "pgRunning" ELSE c
<1>1. s \in Steps
  BY StepsOfChildren, StepNames
<1>2. Position[s] = Position[pc]
  BY <1>1, PositionNat DEF GoOn, Done
<1>3. pc = s
  BY <1>1, <1>2, PositionInjective
<1> QED
  BY <1>3

(* Before the first upsert nothing is done, behind the last everything is. *)
LEMMA Ends ==
  /\ \A c \in Child : ~Done(c, "db") /\ ~Done(c, "crb")
  /\ \A c \in Child : /\ Done(c, "podUP") /\ Done(c, "apiUP")
                       /\ Done(c, "statusReady")
  BY DEF Done, Child, Position

(* The jumps of a pass that pass over a child.                             *)
LEMMA Jumps ==
  /\ \A c \in Child : Done(c, "serviceMonitorPG") => Done(c, "crb")
  /\ \A c \in Child : Done(c, "restart") \/ Done(c, "adminSecret") =>
                        Done(c, "inlineConfig") \/ c = "inlineConfig"
  BY DEF Done, Child, Position

(* What the pods mount is done before the StatefulSet is created.          *)
LEMMA MountsFirst ==
  /\ Mounted \cup {"db"} \subseteq Needed
  /\ \A c \in Mounted \cup {"db"} : c # "statefulSet" => Done(c, "statefulSet")
  BY DEF Done, Mounted, Needed, Child, Position

(* status.ready is right after a step that forgets no child.               *)
LEMMA ReadyKept ==
  ASSUME TypeOK, KeepsCR, Behind, ReadyHasChildren, Kept
  PROVE ReadyHasChildren'
<1> SUFFICES ASSUME cr' # Absent, cr'.ready
             PROVE Needed \subseteq Present' \cup removed'
  BY DEF ReadyHasChildren
<1>1. CASE cr = Absent
  BY <1>1 DEF KeepsCR
<1>2. CASE cr # Absent /\ cr.ready
  BY <1>2 DEF ReadyHasChildren, Kept
<1>3. CASE cr # Absent /\ objLive /\ pc = "statusReady"
  <2>1. Needed \subseteq Child
    BY DEF Needed
  <2>2. Needed \subseteq Present \cup removed
    BY <1>3, <2>1, Ends DEF Behind
  <2> QED
    BY <2>2 DEF Kept
<1> QED
  BY <1>1, <1>2, <1>3 DEF KeepsCR

(* The invariant survives a step that forgets no child, keeps the places   *)
(* and does no more than the children it finds.                            *)
LEMMA InvKept ==
  ASSUME TypeOK, KeepsCR, ReadyInv, Kept, Places',
         "statefulSet" \in children' => "statefulSet" \in children,
         objLive' => /\ objLive
                     /\ \A c \in Needed :
                          Done(c, pc') => Done(c, pc) \/ c \in Present' \cup removed'
  PROVE ReadyInv'
<1>1. ReadyHasChildren'
  BY ReadyKept DEF ReadyInv
<1>2. Behind'
  BY DEF ReadyInv, Behind, Kept
<1>3. PodsHaveMounts'
  BY DEF ReadyInv, PodsHaveMounts, Kept
<1> QED
  BY <1>1, <1>2, <1>3 DEF ReadyInv

(* A step that leaves the children alone.                                  *)
LEMMA NothingOwned ==
  ASSUME KeepsCR, ReadyInv, UNCHANGED <<children, orphans, removed>>,
         dbRunning' => dbRunning \/ "db" \in Present, inline' = inline
  PROVE Kept /\ Places' /\ ("statefulSet" \in children' => "statefulSet" \in children)
<1>1. Present' = Present /\ removed' = removed /\ children' = children
  BY DEF Present
<1>2. cr' = Absent => children' = {}
  BY <1>1 DEF KeepsCR, ReadyInv, Places
<1> QED
  BY <1>1, <1>2 DEF ReadyInv, Places, Kept

(* A step that creates or rewrites one child.                              *)
LEMMA ChildOwned ==
  ASSUME KeepsCR, CopiesTrue, ReadyInv, NEW c \in Child, Own(c), dbRunning' = dbRunning,
         inline' = inline \/ c = "inlineConfig"
  PROVE Kept /\ Places' /\ c \in Present'
<1>1. Present' = Present \cup {c} /\ removed' = removed
  BY DEF Own, Present
<1>2. cr' = Absent => children' = {}
  BY DEF KeepsCR, CopiesTrue, ReadyInv, Places, Own
<1> QED
  BY <1>1, <1>2 DEF ReadyInv, Places, Kept

(* Where the StatefulSet is created, what its pods mount was there before. *)
LEMMA MountsOwned ==
  ASSUME TypeOK, ReadyInv, Kept, NEW c \in Child, pc = c, Own(c), c \in Present'
  PROVE PodsHaveMounts'
<1>1. CASE c # "statefulSet" \/ ~objLive
  <2>1. "statefulSet" \in children' => "statefulSet" \in children
    BY <1>1 DEF Own
  <2> QED
    BY <2>1 DEF ReadyInv, PodsHaveMounts, Kept
<1>2. CASE c = "statefulSet" /\ objLive
  <2>1. ASSUME NEW d \in Mounted \cup {"db"} PROVE d \in Present' \cup removed'
    <3>1. CASE d = "statefulSet"
      BY <1>2, <3>1
    <3>2. CASE d # "statefulSet"
      <4>1. d \in Needed /\ Done(d, pc)
        BY <1>2, <2>1, <3>2, MountsFirst
      <4> QED
        BY <1>2, <4>1 DEF ReadyInv, Behind, Kept
    <3> QED
      BY <3>1, <3>2
  <2> QED
    BY <2>1 DEF PodsHaveMounts
<1> QED
  BY <1>1, <1>2

(* Every step keeps the invariant.                                         *)
LEMMA ReadyStep ==
  TypeOK /\ CopiesTrue /\ ReadyInv /\ [Next]_vars => ReadyInv'
<1> SUFFICES ASSUME TypeOK, CopiesTrue, ReadyInv, [Next]_vars PROVE ReadyInv'
  OBVIOUS
<1>0. KeepsCR /\ CopiesTrue' /\ Needed \subseteq Child
  BY CopiesStep DEF Needed
<1>1. ASSUME Elsewhere, pc \in Steps, GoOn, pc \notin Child,
             pc = "pgRunning" => dbRunning, objLive' => objLive
      PROVE ReadyInv'
  <2>1. Kept /\ Places' /\ ("statefulSet" \in children' => "statefulSet" \in children)
    BY <1>0, <1>1, NothingOwned DEF Elsewhere, owned, plane
  <2>2. ASSUME NEW c \in Needed, Done(c, pc'), ~Done(c, pc)
        PROVE c \in Present' \cup removed'
    <3>1. c = "db" /\ pc = "pgRunning"
      BY <1>0, <1>1, <2>2, NewlyDone
    <3> QED
      BY <1>1, <2>1, <3>1 DEF ReadyInv, Places, Kept
  <2> QED
    BY <1>0, <1>1, <2>1, <2>2, InvKept
<1>2. ASSUME UNCHANGED <<children, orphans, removed, inline>>,
             dbRunning' => dbRunning \/ "db" \in Present,
             \/ ~objLive'
             \/ (objLive' => objLive) /\ pc' = pc
             \/ (objLive' => objLive) /\ pc' \in Steps
                /\ \A c \in Needed : Done(c, pc') => Done(c, pc)
      PROVE ReadyInv'
  BY <1>0, <1>2, NothingOwned, InvKept
<1>3. ASSUME Elsewhere, Retry \/ Wait \/ Finish PROVE ReadyInv'
  BY <1>2, <1>3 DEF Retry, Wait, Finish, Rest, Elsewhere, owned, plane
<1>4. CASE Reconcile
  <2>1. CASE cache = Absent
    BY <1>2, <1>4, <2>1 DEF Reconcile, Elsewhere, owned, plane, copy
  <2>2. CASE cache # Absent
    <3>1. pc' = "db" \/ pc' = "crb"
      BY <1>4, <2>2 DEF Reconcile
    <3>2. Kept /\ Places' /\ ("statefulSet" \in children' => "statefulSet" \in children)
      BY <1>0, <1>4, NothingOwned DEF Reconcile, Elsewhere, owned, plane
    <3>3. ReadyHasChildren' /\ PodsHaveMounts'
      BY <1>0, <3>2, ReadyKept DEF ReadyInv, PodsHaveMounts, Kept
    <3>4. Behind'
      BY <1>0, <3>1, Ends DEF Behind
    <3> QED
      BY <3>2, <3>3, <3>4 DEF ReadyInv
  <2> QED
    BY <2>1, <2>2
<1>5. CASE UpsertCRB
  <2>1. /\ UNCHANGED <<children, orphans, removed, inline, dbRunning>>
        /\ objLive' = objLive /\ pc = "crb"
    BY <1>5 DEF UpsertCRB, copy, owned, plane
  <2>2. pc' \in Steps /\ \A c \in Needed : Done(c, pc') => Done(c, pc)
    <3>1. CASE Goto("serviceMonitorPG")
      BY <1>0, <2>1, <3>1, Jumps, StepNames DEF Goto
    <3>2. CASE GoOn
      BY <1>0, <2>1, <3>2, NewlyDone, StepNames DEF GoOn, Child
    <3> QED
      BY <1>5, <3>1, <3>2 DEF UpsertCRB
  <2> QED
    BY <1>2, <2>1, <2>2
<1>6. ASSUME NEW c \in Plain, Upsert(c) PROVE ReadyInv'
  <2>0. c \in Child /\ c \in Steps /\ pc = c /\ objLive' = objLive
        /\ inline' = inline /\ dbRunning' = dbRunning /\ GoOn
    BY <1>6, StepsOfChildren DEF Upsert, Plain, copy, plane
  <2>1. Kept /\ Places' /\ (c \in Needed => c \in Present')
    <3>1. CASE Missing(c)
      BY <1>0, <1>6, <2>0, <3>1, ChildOwned DEF Upsert
    <3>2. CASE ~Missing(c)
      <4>1. UNCHANGED <<children, orphans, removed>>
        BY <1>6, <3>2 DEF Upsert
      <4> QED
        BY <1>0, <2>0, <3>2, <4>1, NothingOwned DEF Missing, Present
    <3> QED
      BY <3>1, <3>2
  <2>2. ReadyHasChildren'
    BY <1>0, <2>1, ReadyKept DEF ReadyInv
  <2>3. Behind'
    <3>1. SUFFICES ASSUME objLive', NEW d \in Needed, Done(d, pc')
                   PROVE d \in Present' \cup removed'
      BY DEF Behind
    <3>2. CASE Done(d, pc)
      BY <2>0, <2>1, <3>1, <3>2 DEF ReadyInv, Behind, Kept
    <3>3. CASE ~Done(d, pc)
      <4>1. IF d = "db" THEN pc = "pgRunning" ELSE pc = d
        BY <1>0, <2>0, <3>1, <3>3, NewlyDone
      <4>2. "pgRunning" \notin Child
        BY DEF Child
      <4> QED
        BY <2>0, <2>1, <4>1, <4>2
    <3> QED
      BY <3>2, <3>3
  <2>4. PodsHaveMounts'
    <3>1. CASE Missing(c)
      BY <1>6, <2>0, <2>1, <3>1, MountsOwned DEF Upsert, Missing
    <3>2. CASE ~Missing(c)
      <4>1. UNCHANGED <<children, orphans, removed>>
        BY <1>6, <3>2 DEF Upsert
      <4> QED
        BY <2>1, <4>1 DEF ReadyInv, PodsHaveMounts, Kept
    <3> QED
      BY <3>1, <3>2
  <2> QED
    BY <2>1, <2>2, <2>3, <2>4 DEF ReadyInv
<1>7. CASE InlineConfig
  <2>1. /\ pc = "inlineConfig" /\ obj.want # None /\ dbRunning' = dbRunning
        /\ objLive' = objLive /\ "inlineConfig" \in Child
        /\ pc' \in {"adminSecret", "restart"}
    BY <1>7, GiteaConstants
    DEF InlineConfig, TypeOK, PassOK, Gitea, copy, Child, Goto
  <2>2. Kept /\ Places' /\ "inlineConfig" \in Present'
    <3>1. CASE inline = obj.want
      <4>1. UNCHANGED <<children, orphans, removed, inline>>
        BY <1>7, <3>1 DEF InlineConfig
      <4> QED
        BY <1>0, <2>1, <3>1, <4>1, NothingOwned DEF ReadyInv, Places, Present
    <3>2. CASE inline # obj.want
      BY <1>0, <1>7, <2>1, <3>2, ChildOwned DEF InlineConfig
    <3> QED
      BY <3>1, <3>2
  <2>3. "statefulSet" \in children' => "statefulSet" \in children
    BY <1>7 DEF InlineConfig, Own
  <2>4. \A c \in Needed : Done(c, pc') => Done(c, pc) \/ c \in Present' \cup removed'
    BY <1>0, <2>1, <2>2, Jumps
  <2> QED
    BY <1>0, <2>1, <2>2, <2>3, <2>4, InvKept
<1>8. ASSUME UNCHANGED <<children, orphans, removed, inline>>, dbRunning' = dbRunning,
             GoOn, pc \in Steps, pc \notin Child, pc # "pgRunning",
             objLive' => objLive
      PROVE ReadyInv'
  <2>1. pc' \in Steps /\ \A c \in Needed : Done(c, pc') => Done(c, pc)
    BY <1>0, <1>8, NewlyDone DEF GoOn
  <2> QED
    BY <1>2, <1>8, <2>1
<1>9. CASE RestartPods
  BY <1>8, <1>9, StepNames DEF RestartPods, copy, owned, Child
<1>10. ASSUME NEW step \in Steps, NEW t \in ConditionTypes, NEW v \in {"True", "False"},
              NEW asked \in BOOLEAN, step \notin Child, step # "pgRunning",
              DependencyCondition(step, t, v, asked)
       PROVE ReadyInv'
  BY <1>1, <1>10 DEF DependencyCondition, SetCondition, copy
<1>11. ASSUME NEW step \in Steps, NEW up, AwaitDependency(step, up),
              step \notin Child, step = "pgRunning" => (up => dbRunning)
       PROVE ReadyInv'
  BY <1>1, <1>3, <1>11 DEF AwaitDependency, copy
<1>12. CASE ClusterDomain \/ ValkeyPassword
  BY <1>1, <1>3, <1>12, StepNames DEF ClusterDomain, ValkeyPassword, copy, Child
<1>13. CASE PodUP
  BY <1>1, <1>3, <1>13, StepNames
  DEF PodUP, SetCondition, ConditionThenWait, copy, Child
<1>14. CASE ApiUP
  <2>1. /\ UNCHANGED <<children, orphans, removed, inline, dbRunning>>
        /\ objLive' = objLive /\ pc = "apiUP" /\ pc' \in Steps
    BY <1>14, StepNames DEF ApiUP, Goto, Elsewhere, copy, owned, plane
  <2>2. \A c \in Needed : Done(c, pc') => Done(c, pc)
    BY <1>0, <2>1, Ends
  <2> QED
    BY <1>2, <2>1, <2>2
<1>15. CASE ApiDown \/ TokenCondition
  BY <1>3, <1>15 DEF ApiDown, TokenCondition, ConditionThenWait
<1>16. CASE ReadyCondition \/ StatusReady \/ AdminToken
  BY <1>1, <1>3, <1>16, StepNames
  DEF ReadyCondition, StatusReady, AdminToken, SetCondition, copy, Child
<1>17. CASE PostToken \/ StoreToken
  <2>1. /\ UNCHANGED <<children, orphans, removed, inline, dbRunning>>
        /\ pc \in {"postToken", "storeToken"}
    BY <1>17 DEF PostToken, StoreToken, owned, plane
  <2>2. (GoOn /\ objLive' = objLive) \/ ~objLive'
    BY <1>17 DEF PostToken, StoreToken, copy, Wait, Rest
  <2>3. pc \in Steps /\ pc \notin Child /\ pc # "pgRunning"
    BY <2>1, StepNames DEF Child
  <2> QED
    BY <1>2, <1>8, <2>1, <2>2, <2>3
<1>18. CASE Pass
  <2>1. CASE DependenciesPending \/ DependenciesReady
    <3>1. /\ "DatabaseReady" \in ConditionTypes /\ "CacheReady" \in ConditionTypes
          /\ TRUE \in BOOLEAN /\ Valkey \in BOOLEAN
      BY GiteaConstants DEF ConditionTypes
    <3>2. /\ {"dbPending", "cachePending", "dbReady", "cacheReady"} \subseteq Steps
          /\ {"dbPending", "cachePending", "dbReady", "cacheReady"} \cap Child = {}
      BY StepNames DEF Child
    <3>3. CASE DependenciesPending
      BY <1>10, <3>1, <3>2, <3>3 DEF DependenciesPending
    <3>4. CASE DependenciesReady
      BY <1>10, <3>1, <3>2, <3>4 DEF DependenciesReady
    <3> QED
      BY <2>1, <3>3, <3>4
  <2>2. CASE ValkeyRunning \/ PgRunning
    BY <2>2, <1>11, StepNames DEF ValkeyRunning, PgRunning, Child
  <2> QED
    BY <1>18, <2>1, <2>2, <1>5, <1>6, <1>7, <1>9, <1>12, <1>13, <1>14, <1>15,
       <1>16, <1>17 DEF Pass
<1>19. CASE CallFails
  BY <1>1, <1>3, <1>19, StepNames DEF CallFails, copy, Child
<1>20. CASE ReplyLost
  <2>1. ~objLive' /\ dbRunning' = dbRunning
    BY <1>20 DEF ReplyLost, Retry, Wait, Rest
  <2>2. ASSUME NEW c \in Child, pc = c, Own(c), inline' = inline \/ c = "inlineConfig"
        PROVE ReadyInv'
    <3>1. Kept /\ Places' /\ c \in Present'
      BY <1>0, <2>1, <2>2, ChildOwned
    <3>2. PodsHaveMounts'
      BY <2>2, <3>1, MountsOwned
    <3> QED
      BY <1>0, <2>1, <3>1, <3>2, ReadyKept DEF ReadyInv, Behind
  <2> QED
    BY <1>2, <1>20, <2>1, <2>2 DEF ReplyLost, Plain, Child
<1>21. CASE Restart \/ Watch \/ ChildEvent \/ Resync
  BY <1>2, <1>21
  DEF Restart, Watch, ChildEvent, Resync, OnlyQueue, Rest, copy, owned, plane
<1>22. ASSUME NEW S \in SUBSET Child, Lose(S), pc' = pc, objLive' = objLive
       PROVE ReadyInv'
  <2>1. children' = children \ S /\ orphans' = orphans \ S
        /\ removed' = removed \cup (S \cap Present)
    BY <1>22 DEF Lose
  <2>2. Kept
    BY <2>1 DEF Kept, Present
  <2>3. Places'
    <3>1. dbRunning' => "db" \in Present'
      BY <1>22, <2>1 DEF Lose, ReadyInv, Places, Present
    <3>2. inline' # None => "inlineConfig" \in Present'
      BY <1>22, <2>1 DEF Lose, ReadyInv, Places, Present
    <3>3. cr' = Absent => children' = {}
      BY <1>0, <2>1 DEF ReadyInv, Places, KeepsCR
    <3> QED
      BY <3>1, <3>2, <3>3 DEF Places
  <2> QED
    BY <1>0, <1>22, <2>1, <2>2, <2>3, InvKept
<1>23. CASE Collect \/ RemoveByHand
  <2>1. PICK S \in SUBSET Child : Lose(S)
    <3>1. ASSUME NEW batch \in Batches, Lose(orphans \cap batch)
          PROVE \E S \in SUBSET Child : Lose(S)
      BY <3>1 DEF TypeOK, ClusterOK
    <3>2. ASSUME NEW c \in Removable \cap children, Lose({c})
          PROVE \E S \in SUBSET Child : Lose(S)
      BY <3>2 DEF TypeOK, ClusterOK
    <3> QED
      BY <1>23, <3>1, <3>2 DEF Collect, RemoveByHand
  <2> QED
    BY <1>22, <2>1 DEF Lose, copy
<1>24. CASE CreateGitea
  <2>1. cr = Absent /\ children = {} /\ ~objLive' /\ children' = {}
        /\ orphans' = orphans /\ inline' = inline /\ dbRunning' = dbRunning
    BY <1>24 DEF CreateGitea, Change, CopiesTrue, ReadyInv, Places, plane
  <2> QED
    BY <1>0, <2>1
    DEF ReadyInv, Behind, Places, ReadyHasChildren, PodsHaveMounts, KeepsCR, Present
<1>25. CASE EditSpec
  BY <1>2, <1>25 DEF EditSpec, Change, owned, plane
<1>26. CASE DeleteGitea
  <2>1. /\ cr' = Absent /\ children' = {} /\ orphans' = Present
        /\ ~objLive' /\ inline' = inline /\ dbRunning' = dbRunning
    BY <1>26 DEF DeleteGitea, Change, plane
  <2> QED
    BY <2>1
    DEF ReadyInv, Behind, Places, ReadyHasChildren, PodsHaveMounts, Present
<1>27. CASE DbStarts \/ ValkeyStarts \/ PodStarts \/ ApiStarts \/ ApiStops
  BY <1>2, <1>27
  DEF DbStarts, ValkeyStarts, PodStarts, ApiStarts, ApiStops, OnlyPlane, copy, owned
<1>28. CASE UNCHANGED vars
  BY <1>2, <1>28 DEF vars, copy, owned, plane
<1> QED
  BY <1>4, <1>18, <1>19, <1>20, <1>21, <1>23, <1>24, <1>25, <1>26, <1>27, <1>28
  DEF Next, Environment

(* The initial state has no children and nothing that needs them.          *)
LEMMA ReadyInit == Init => ReadyInv
  BY DEF Init, ReadyInv, Behind, Places, ReadyHasChildren, PodsHaveMounts, Present

(* The invariant holds in every state.                                     *)
LEMMA ReadyAlways == Spec => []ReadyInv
<1>1. TypeOK /\ CopiesTrue /\ ReadyInv /\ [Next]_vars => ReadyInv'
  BY ReadyStep
<1> QED
  BY ReadyInit, GiteaTypes, <1>1, PTL DEF Spec

(* status.ready is set only behind every child that the spec asks for.     *)
THEOREM GiteaReadySafe == Spec => []ReadyHasChildren
<1>1. ReadyInv => ReadyHasChildren
  BY DEF ReadyInv
<1> QED
  BY ReadyAlways, <1>1, PTL

(* The StatefulSet is created only behind what its pods mount.             *)
THEOREM GiteaMountsSafe == Spec => []PodsHaveMounts
<1>1. ReadyInv => PodsHaveMounts
  BY DEF ReadyInv
<1> QED
  BY ReadyAlways, <1>1, PTL

-----------------------------------------------------------------------------
(* The condition ApiToken: who says that it is true, and what makes it so. *)
Says(o) == o.conds["ApiToken"] = "True"

(* The CR says so, or a copy of it that a pass may still write back, or a  *)
(* pass that is about to.                                                  *)
Saying ==
  \/ cr # Absent /\ Says(cr)
  \/ cacheLive /\ Says(cache)
  \/ objLive /\ (Says(obj) \/ pc = "tokenCondition")

(* Gitea's database has the token, or that database is gone.               *)
Issued == issued \/ "db" \in removed

Truth == (stored /\ issued) \/ removed \cap {"adminSecret", "db"} # {}

(* The inductive invariant of TokenTruth: a pass that stores a token has   *)
(* it from Gitea, and nobody says that there is one unless there is.       *)
TokenInv ==
  /\ objLive /\ pc = "storeToken" => Issued
  /\ Saying => Truth

(* What a step adds to what is said: only storeToken makes a pass report   *)
(* the token, and only postToken leads there.                              *)
Honest ==
  /\ Saying' => Saying \/ (objLive /\ pc = "storeToken" /\ stored')
  /\ objLive' /\ pc' = "storeToken" =>
       issued' \/ (objLive /\ pc = "storeToken")

(* The changes made to a CR, seen by what they say of the token.           *)
LEMMA SaysKept ==
  /\ \A w \in Settings : ~Says(NewGitea(w))
  /\ \A o \in Gitea, t \in ConditionTypes \ {"ApiToken"}, v \in {"False", "True"} :
       Says(WithCondition(o, t, v)) <=> Says(o)
  /\ \A o \in Gitea : Says(WithReady(o)) <=> Says(o)
  /\ \A o \in Gitea, d \in Domains : Says(WithDomain(o, d)) <=> Says(o)
  /\ \A o \in Gitea, w \in Settings : Says(WithWant(o, w)) <=> Says(o)
  /\ \A o, p \in Gitea : Says(WithStatus(o, p)) <=> Says(p)
<1>1. \A w \in Settings : ~Says(NewGitea(w))
  BY DEF Says, NewGitea, ConditionTypes
<1>2. \A o \in Gitea, t \in ConditionTypes \ {"ApiToken"}, v \in {"False", "True"} :
        Says(WithCondition(o, t, v)) <=> Says(o)
  BY DEF Says, WithCondition, Gitea, ConditionTypes
<1>3. \A o \in Gitea : Says(WithReady(o)) <=> Says(o)
  BY DEF Says, WithReady, Gitea
<1>4. \A o \in Gitea, d \in Domains : Says(WithDomain(o, d)) <=> Says(o)
  BY DEF Says, WithDomain, Gitea
<1>5. \A o \in Gitea, w \in Settings : Says(WithWant(o, w)) <=> Says(o)
  BY DEF Says, WithWant, Gitea
<1>6. \A o, p \in Gitea : Says(WithStatus(o, p)) <=> Says(p)
  BY DEF Says, WithStatus, Gitea
<1> QED
  BY <1>1, <1>2, <1>3, <1>4, <1>5, <1>6

(* Only postToken leads to storeToken, only storeToken to tokenCondition.  *)
LEMMA TokenOrder ==
  ASSUME pc \in Steps, GoOn
  PROVE /\ pc' = "storeToken" => pc = "postToken"
        /\ pc' = "tokenCondition" => pc = "storeToken"
<1>1. /\ Position[pc'] = Position["storeToken"] => Position[pc] = Position["postToken"]
      /\ Position[pc'] = Position["tokenCondition"] => Position[pc] = Position["storeToken"]
  BY PositionNat DEF GoOn, Position
<1> QED
  BY <1>1, PositionInjective, StepNames

(* A step that writes nothing to the CR and keeps its copy, or drops it.   *)
LEMMA QuietHonest ==
  ASSUME UNCHANGED store,
         \/ Rest
         \/ /\ UNCHANGED copy
            /\ pc' # "tokenCondition" \/ pc' = pc
            /\ pc' # "storeToken" \/ pc' = pc
  PROVE Honest
<1>1. CASE Rest
  BY <1>1, StepsOfChildren DEF Rest, Honest, Saying, store
<1>2. CASE UNCHANGED copy
  BY <1>2, StepsOfChildren DEF Rest, Honest, Saying, store, copy
<1> QED
  BY <1>1, <1>2

(* So does a write of the pass that says what its copy or the CR said.     *)
LEMMA WriteHonest ==
  ASSUME CopiesTrue, objFresh, NEW o, Write(o),
         Says(o) => Saying,
         \/ Rest
         \/ /\ objLive' = objLive
            /\ Says(obj') => Saying
            /\ pc' # "tokenCondition" /\ pc' # "storeToken"
  PROVE Honest
<1>1. objLive
  BY DEF CopiesTrue
<1>2. cr' = o /\ cache' = cache /\ cacheLive' = cacheLive
  BY DEF Write
<1> QED
  BY <1>1, <1>2, StepsOfChildren DEF Rest, Honest, Saying

(* setCondition of another condition says no more than the copy did.       *)
LEMMA StatusUpdateHonest ==
  ASSUME TypeOK, CopiesTrue, obj \in Gitea,
         NEW t \in ConditionTypes \ {"ApiToken"}, NEW v \in {"False", "True"},
         StatusUpdate(WithCondition(obj, t, v)),
         \/ Rest
         \/ /\ objLive' = objLive
            /\ obj' = WithCondition(obj, t, v)
            /\ pc' # "idle" /\ pc' # "tokenCondition" /\ pc' # "storeToken"
  PROVE Honest
<1> DEFINE o == WithCondition(obj, t, v)
<1>1. o \in Gitea /\ (Says(o) <=> Says(obj))
  BY ConditionOK, SaysKept
<1>2. CASE objFresh /\ Write(WithStatus(cr, o))
  <2>1. cr \in Gitea /\ objLive
    BY <1>2 DEF CopiesTrue, TypeOK, StoreOK
  <2>2. Says(WithStatus(cr, o)) <=> Says(o)
    BY <1>1, <2>1, SaysKept
  <2>3. Says(o) => Saying
    BY <1>1, <2>1 DEF Saying
  <2> QED
    BY <1>2, <2>2, <2>3, WriteHonest
<1>3. CASE UNCHANGED store
  <2>1. CASE Rest
    BY <1>3, <2>1, QuietHonest
  <2>2. CASE objLive' = objLive /\ obj' = o /\ pc' # "tokenCondition" /\ pc' # "storeToken"
    BY <1>1, <1>3, <2>2 DEF Honest, Saying, store
  <2> QED
    BY <2>1, <2>2
<1> QED
  BY <1>2, <1>3 DEF StatusUpdate, store

(* Every step is honest.                                                   *)
LEMMA HonestStep == TypeOK /\ CopiesTrue /\ [Next]_vars => Honest
<1> SUFFICES ASSUME TypeOK, CopiesTrue, [Next]_vars PROVE Honest
  OBVIOUS
<1>0. (pc # "idle" => obj \in Gitea) /\ (cr # Absent => cr \in Gitea)
  BY DEF TypeOK, PassOK, StoreOK
<1>1. ASSUME UNCHANGED <<store, copy>>, pc \in Steps, GoOn,
             pc # "postToken", pc # "storeToken"
      PROVE Honest
  BY <1>1, TokenOrder, QuietHonest
<1>2. ASSUME UNCHANGED <<store, copy>>, NEW step, Goto(step),
             step # "tokenCondition", step # "storeToken"
      PROVE Honest
  BY <1>2, QuietHonest DEF Goto
<1>3. ASSUME UNCHANGED store, Retry \/ Wait \/ Finish PROVE Honest
  BY <1>3, QuietHonest DEF Retry, Wait, Finish
<1>4. ASSUME UNCHANGED <<store, pc, copy>> PROVE Honest
  BY <1>4, QuietHonest
<1>5. ASSUME pc \in Steps, NEW t \in ConditionTypes \ {"ApiToken"},
             NEW v \in {"False", "True"}, ConditionThenWait(t, v)
      PROVE Honest
  BY <1>0, <1>5, StepsOfChildren, StatusUpdateHonest DEF ConditionThenWait, Wait
<1>6. ASSUME pc \in Steps, NEW t \in ConditionTypes \ {"ApiToken"},
             NEW v \in {"False", "True"}, SetCondition(t, v), GoOn,
             pc # "postToken", pc # "storeToken"
      PROVE Honest
  <2>1. pc' # "tokenCondition" /\ pc' # "storeToken" /\ pc' # "idle"
    BY <1>6, TokenOrder, GoOnMoves
  <2> QED
    BY <1>0, <1>6, <2>1, StepsOfChildren, StatusUpdateHonest DEF SetCondition
<1>7. CASE Reconcile
  <2>1. UNCHANGED store /\ cacheLive' = cacheLive
    BY <1>7 DEF Reconcile, store
  <2>2. CASE cache = Absent
    BY <1>4, <1>7, <2>2 DEF Reconcile
  <2>3. CASE cache # Absent
    <3>1. (pc' = "db" \/ pc' = "crb") /\ obj' = cache /\ objLive' = cacheLive
      BY <1>7, <2>3 DEF Reconcile
    <3> QED
      BY <2>1, <3>1 DEF Honest, Saying, store
  <2> QED
    BY <2>2, <2>3
<1>8. CASE UpsertCRB
  BY <1>8, <1>1, <1>2, StepNames DEF UpsertCRB
<1>9. ASSUME NEW c \in Plain, Upsert(c) PROVE Honest
  <2>1. c \in Steps /\ c # "postToken" /\ c # "storeToken"
    BY StepsOfChildren DEF Plain, Child
  <2> QED
    BY <1>1, <1>9, <2>1 DEF Upsert
<1>10. ASSUME NEW step \in Steps \ {"postToken", "storeToken"},
              NEW t \in ConditionTypes \ {"ApiToken"},
              NEW v \in {"False", "True"}, NEW up \in BOOLEAN,
              DependencyCondition(step, t, v, up)
       PROVE Honest
  BY <1>1, <1>6, <1>10 DEF DependencyCondition
<1>11. ASSUME NEW step \in Steps \ {"postToken", "storeToken"},
              NEW up \in BOOLEAN, AwaitDependency(step, up)
       PROVE Honest
  BY <1>1, <1>3, <1>11 DEF AwaitDependency
<1>12. CASE ClusterDomain
  <2>1. ASSUME NEW d \in Domains, objFresh, obj' = WithDomain(cr, d),
               Write(obj'), GoOn, UNCHANGED <<objFresh, objLive>>
        PROVE Honest
    <3>1. cr \in Gitea /\ cr # Absent
      BY <1>0, <2>1 DEF CopiesTrue
    <3>2. Says(obj') => Saying
      BY <2>1, <3>1, SaysKept DEF Saying
    <3>3. pc' # "tokenCondition" /\ pc' # "storeToken"
      BY <1>12, <2>1, TokenOrder, StepNames DEF ClusterDomain
    <3> QED
      BY <2>1, <3>2, <3>3, WriteHonest
  <2> QED
    BY <1>1, <1>3, <1>12, <2>1, StepNames DEF ClusterDomain
<1>13. CASE ValkeyPassword
  BY <1>1, <1>3, <1>13, StepNames DEF ValkeyPassword
<1>14. CASE InlineConfig
  <2>1. Goto("adminSecret") \/ Goto("restart")
    BY <1>14 DEF InlineConfig
  <2> QED
    BY <1>2, <1>14, <2>1 DEF InlineConfig
<1>15. CASE RestartPods
  BY <1>1, <1>15, StepNames DEF RestartPods
<1>16. CASE PodUP
  BY <1>1, <1>5, <1>6, <1>16, StepNames DEF PodUP, ConditionTypes
<1>17. CASE ApiUP
  <2>1. Goto("adminToken") \/ Goto("readyCondition") \/ Goto("apiDown")
    BY <1>17 DEF ApiUP
  <2> QED
    BY <1>2, <1>17, <2>1 DEF ApiUP
<1>18. CASE ApiDown
  BY <1>5, <1>18, StepNames DEF ApiDown, ConditionTypes
<1>19. CASE ReadyCondition
  BY <1>6, <1>19, StepNames DEF ReadyCondition, ConditionTypes
<1>20. CASE StatusReady
  <2>1. CASE /\ objFresh /\ obj' = WithReady(obj) /\ Write(WithStatus(cr, obj'))
             /\ GoOn /\ UNCHANGED <<objFresh, objLive>>
    <3>1. cr \in Gitea /\ obj \in Gitea /\ obj' \in Gitea /\ objLive
      BY <1>0, <1>20, <2>1, ReadyOK DEF StatusReady, CopiesTrue
    <3>2. (Says(WithStatus(cr, obj')) => Saying) /\ (Says(obj') => Saying)
      BY <2>1, <3>1, SaysKept DEF Saying
    <3>3. pc' # "tokenCondition" /\ pc' # "storeToken"
      BY <1>20, <2>1, TokenOrder, StepNames DEF StatusReady
    <3> QED
      BY <2>1, <3>2, <3>3, WriteHonest
  <2> QED
    BY <1>3, <1>20, <2>1 DEF StatusReady
<1>21. CASE AdminToken
  BY <1>1, <1>3, <1>21, StepNames DEF AdminToken
<1>22. CASE PostToken
  <2>1. CASE issued' = TRUE /\ GoOn /\ UNCHANGED copy
    <3>1. pc' # "tokenCondition"
      BY <1>22, <2>1, TokenOrder, StepNames DEF PostToken
    <3> QED
      BY <1>22, <2>1, <3>1 DEF PostToken, Honest, Saying, store, copy
  <2> QED
    BY <1>3, <1>22, <2>1 DEF PostToken
<1>23. CASE StoreToken
  <2>1. CASE stored' = TRUE /\ GoOn /\ UNCHANGED copy
    <3>1. pc' # "storeToken"
      BY <1>23, <2>1, TokenOrder, StepNames DEF StoreToken
    <3> QED
      BY <1>23, <2>1, <3>1 DEF StoreToken, Honest, Saying, store, copy
  <2> QED
    BY <1>3, <1>23, <2>1 DEF StoreToken
<1>24. CASE TokenCondition
  <2>1. pc = "tokenCondition" /\ Rest
    BY <1>24 DEF TokenCondition, ConditionThenWait, Wait
  <2>2. CASE objFresh /\ Write(WithStatus(cr, WithCondition(obj, "ApiToken", "True")))
    <3>1. Saying
      BY <2>1, <2>2 DEF CopiesTrue, Saying
    <3> QED
      BY <2>1, <2>2, <3>1, WriteHonest
  <2>3. CASE UNCHANGED store
    BY <2>1, <2>3, QuietHonest
  <2> QED
    BY <1>24, <2>2, <2>3 DEF TokenCondition, ConditionThenWait, StatusUpdate, store
<1>25. CASE Pass
  <2>1. {"DatabaseReady", "CacheReady"} \subseteq ConditionTypes \ {"ApiToken"}
    BY DEF ConditionTypes
  <2>2. {"dbPending", "cachePending", "dbReady", "cacheReady", "valkeyRunning", "pgRunning"}
          \subseteq Steps \ {"postToken", "storeToken"}
    BY StepNames
  <2>3. CASE DependenciesPending \/ DependenciesReady
    BY <1>10, <2>1, <2>2, <2>3, GiteaConstants DEF DependenciesPending, DependenciesReady
  <2>4. CASE ValkeyRunning \/ PgRunning
    BY <1>11, <2>2, <2>4, GiteaConstants DEF ValkeyRunning, PgRunning, TypeOK, ClusterOK
  <2> QED
    BY <1>25, <2>3, <2>4, <1>8, <1>9, <1>12, <1>13, <1>14, <1>15, <1>16, <1>17,
       <1>18, <1>20, <1>19, <1>21, <1>22, <1>23, <1>24 DEF Pass
<1>26. CASE CallFails
  BY <1>1, <1>3, <1>26, StepNames DEF CallFails
<1>27. CASE ReplyLost
  BY <1>3, <1>27 DEF ReplyLost
<1>28. CASE Restart \/ Watch
  <2>1. cache' = cr /\ cr' = cr /\ (cacheLive' <=> cr # Absent)
    BY <1>28 DEF Restart, Watch
  <2>2. CASE Rest
    BY <2>1, <2>2 DEF Rest, Honest, Saying
  <2>3. CASE UNCHANGED <<pc, copy>>
    BY <2>1, <2>3 DEF Honest, Saying, copy
  <2> QED
    BY <1>28, <2>2, <2>3 DEF Restart, Watch, OnlyQueue
<1>29. CASE ChildEvent \/ Resync \/ Collect \/ RemoveByHand
  BY <1>4, <1>29
  DEF ChildEvent, Resync, OnlyQueue, Collect, RemoveByHand, Lose, store
<1>30. CASE CreateGitea
  <2>1. PICK w \in Settings : Change(NewGitea(w))
    BY <1>30 DEF CreateGitea
  <2>2. ~cacheLive' /\ ~objLive' /\ cr' = NewGitea(w)
    BY <1>30, <2>1 DEF CreateGitea, CopiesTrue, Change
  <2> QED
    BY <2>2, SaysKept DEF Honest, Saying
<1>31. CASE EditSpec
  <2>1. PICK w \in Settings : Change(WithWant(cr, w))
    BY <1>31 DEF EditSpec
  <2>2. /\ cr \in Gitea /\ cr # Absent /\ cr' = WithWant(cr, w) /\ cache' = cache
        /\ cacheLive' = cacheLive /\ objLive' = objLive /\ obj' = obj /\ pc' = pc
    BY <1>0, <1>31, <2>1 DEF EditSpec, Change
  <2> QED
    BY <2>2, SaysKept DEF Honest, Saying
<1>32. CASE DeleteGitea
  BY <1>32 DEF DeleteGitea, Change, Honest, Saying
<1>33. CASE DbStarts \/ ValkeyStarts \/ PodStarts \/ ApiStarts \/ ApiStops
  BY <1>4, <1>33
  DEF DbStarts, ValkeyStarts, PodStarts, ApiStarts, ApiStops, OnlyPlane
<1>34. CASE UNCHANGED vars
  BY <1>4, <1>34 DEF vars
<1> QED
  BY <1>7, <1>25, <1>26, <1>27, <1>28, <1>29, <1>30, <1>31, <1>32, <1>33, <1>34
  DEF Next, Environment

(* A token stays where it is, unless what holds it is lost: all but the    *)
(* creation of another CR keep the truth.                                  *)
LEMMA TruthStep ==
  TypeOK /\ [Next]_vars => CreateGitea \/ ((Truth => Truth') /\ (Issued => Issued'))
<1> SUFFICES ASSUME TypeOK, [Next]_vars, ~CreateGitea
             PROVE (Truth => Truth') /\ (Issued => Issued')
  OBVIOUS
<1>1. ASSUME removed' = removed, issued => issued', stored => stored'
      PROVE (Truth => Truth') /\ (Issued => Issued')
  BY <1>1 DEF Truth, Issued
<1>2. ASSUME NEW S \in SUBSET Present, Lose(S)
      PROVE (Truth => Truth') /\ (Issued => Issued')
  <2>1. /\ removed' = removed \cup S
        /\ issued' = (issued /\ "db" \notin S)
        /\ stored' = (stored /\ "adminSecret" \notin S)
    BY <1>2 DEF Lose
  <2> QED
    BY <2>1 DEF Truth, Issued
<1>3. CASE Reconcile
  BY <1>1, <1>3 DEF Reconcile, Elsewhere, owned, token
<1>4. CASE UpsertCRB
  BY <1>1, <1>4 DEF UpsertCRB, owned, token
<1>5. ASSUME NEW c \in Plain, Upsert(c) PROVE (Truth => Truth') /\ (Issued => Issued')
  BY <1>1, <1>5 DEF Upsert, Own, token
<1>6. CASE InlineConfig
  BY <1>1, <1>6 DEF InlineConfig, Own, token
<1>7. CASE RestartPods
  BY <1>1, <1>7 DEF RestartPods, owned, token
<1>8. CASE Elsewhere
  BY <1>1, <1>8 DEF Elsewhere, owned, token
<1>9. CASE PostToken
  BY <1>1, <1>9 DEF PostToken, owned
<1>10. CASE StoreToken
  BY <1>1, <1>10 DEF StoreToken, owned
<1>11. CASE Pass
  <2>1. CASE DependenciesPending \/ DependenciesReady \/ ValkeyRunning \/ PgRunning
             \/ ClusterDomain \/ ValkeyPassword
    BY <1>8, <2>1 DEF DependenciesPending, DependenciesReady, DependencyCondition,
       ValkeyRunning, PgRunning, AwaitDependency, ClusterDomain, ValkeyPassword
  <2>2. CASE PodUP \/ ApiUP \/ ApiDown \/ ReadyCondition \/ StatusReady \/ AdminToken
             \/ TokenCondition
    BY <1>8, <2>2
    DEF PodUP, ApiUP, ApiDown, ReadyCondition, StatusReady, AdminToken, TokenCondition
  <2> QED
    BY <1>4, <1>5, <1>6, <1>7, <1>9, <1>10, <1>11, <2>1, <2>2 DEF Pass
<1>12. CASE CallFails
  BY <1>8, <1>12 DEF CallFails
<1>13. CASE ReplyLost
  BY <1>1, <1>13 DEF ReplyLost, Own
<1>14. CASE Restart \/ Watch \/ ChildEvent \/ Resync
  BY <1>1, <1>14 DEF Restart, Watch, ChildEvent, Resync, OnlyQueue, owned, token
<1>15. CASE Collect
  <2>1. PICK batch \in Batches : Lose(orphans \cap batch)
    BY <1>15 DEF Collect
  <2>2. orphans \cap batch \in SUBSET Present
    BY DEF Present
  <2> QED
    BY <1>2, <2>1, <2>2
<1>16. CASE RemoveByHand
  <2>1. PICK c \in Removable \cap children : Lose({c})
    BY <1>16 DEF RemoveByHand
  <2>2. {c} \in SUBSET Present
    BY DEF Present
  <2> QED
    BY <1>2, <2>1, <2>2
<1>17. CASE EditSpec \/ DeleteGitea
  BY <1>1, <1>17 DEF EditSpec, DeleteGitea, Change, owned, token
<1>18. CASE DbStarts \/ ValkeyStarts \/ PodStarts \/ ApiStarts \/ ApiStops
  BY <1>1, <1>18
  DEF DbStarts, ValkeyStarts, PodStarts, ApiStarts, ApiStops, OnlyPlane, owned, token
<1>19. CASE UNCHANGED vars
  BY <1>1, <1>19 DEF vars, owned, token
<1> QED
  BY <1>3, <1>11, <1>12, <1>13, <1>14, <1>15, <1>16, <1>17, <1>18, <1>19
  DEF Next, Environment

(* Every step keeps the invariant of TokenTruth.                           *)
LEMMA TokenStep == TypeOK /\ CopiesTrue /\ TokenInv /\ [Next]_vars => TokenInv'
<1> SUFFICES ASSUME TypeOK, CopiesTrue, TokenInv, [Next]_vars PROVE TokenInv'
  OBVIOUS
<1>1. Honest
  BY HonestStep
<1>2. CASE CreateGitea
  <2>1. PICK w \in Settings : Change(NewGitea(w))
    BY <1>2 DEF CreateGitea
  <2>2. ~cacheLive' /\ ~objLive' /\ cr' = NewGitea(w)
    BY <1>2, <2>1 DEF CreateGitea, CopiesTrue, Change
  <2> QED
    BY <2>2, SaysKept DEF TokenInv, Saying
<1>3. CASE ~CreateGitea
  <2>1. (Truth => Truth') /\ (Issued => Issued')
    BY <1>3, TruthStep
  <2>2. objLive /\ pc = "storeToken" => Issued'
    BY <2>1 DEF TokenInv
  <2>3. objLive /\ pc = "storeToken" /\ stored' => Truth'
    BY <2>2 DEF Issued, Truth
  <2> QED
    BY <1>1, <2>1, <2>2, <2>3 DEF TokenInv, Honest, Issued
<1> QED
  BY <1>2, <1>3

(* Nobody says anything at first.                                          *)
LEMMA TokenInit == Init => TokenInv
  BY DEF Init, TokenInv, Saying

(* The condition ApiToken is true only if the admin secret holds a token   *)
(* that Gitea knows, unless the secret or the database is gone since.      *)
THEOREM GiteaTokenTruth == Spec => []TokenTruth
<1>1. TypeOK /\ CopiesTrue /\ TokenInv /\ [Next]_vars => TokenInv'
  BY TokenStep
<1>2. TokenInv => TokenTruth
  BY DEF TokenInv, TokenTruth, Saying, Says, Truth
<1> QED
  BY TokenInit, GiteaTypes, <1>1, <1>2, PTL DEF Spec

=============================================================================
