----------------------- MODULE RunnerControllerProofs -----------------------
(***************************************************************************)
(* Proofs about RunnerController: type correctness, that the CA bundle is  *)
(* mounted when the instance uses TLS, and that status.provisioned tells   *)
(* the truth, for any Runners, edits, failures and restarts.               *)
(***************************************************************************)
EXTENDS RunnerController, ControllerRuntimeProofs

Had(k, kind) == Present(k, kind) \/ <<k, kind>> \in removed

(* What a pass knows at each call: the token comes with the TLS setting of *)
(* the instance, which it has put into its copy when it goes on; and what  *)
(* it has upserted for the CR that it holds the stored copy of.            *)
PassInv ==
  Running =>
    /\ pass.at = "tlsStatus" /\ pass.mem.token # 0 => pass.mem.tls = TLS
    /\ pass.at \in {"sa", "secret", "sts"} => pass.obj.tls = TLS
    /\ pass.current =>
         /\ pass.at \in {"secret", "sts", "status"} => Had(pass.key, "sa")
         /\ pass.at \in {"sts", "status"} => Had(pass.key, "secret")
         /\ pass.at = "status" => Had(pass.key, "sts")

RunnerInv == TypeOK /\ Agree /\ MountsCA /\ ProvisionedHasChildren /\ PassInv

LEMMA PassOK ==
  ASSUME TypeOK, Running
  PROVE /\ pass \in Pass(Calls, Runner, Memory)
        /\ pass.key \in Keys /\ pass.obj \in Runner /\ pass.mem \in Memory
        /\ pass.at \in Calls /\ pass.current \in BOOLEAN
  BY DEF TypeOK, RuntimeOK, Running, Pass

LEMMA AtRuns == \A call \in Calls : At(call) => Running
  BY DEF Calls, At, Running, Idle

(* CRs and objects stay as they are.                                       *)
LEMMA Frame ==
  ASSUME RunnerInv, UNCHANGED <<cr, children, removed>>,
         RuntimeOK(Calls, Runner, Memory)', Agree', PassInv',
         org' \in [cr : BOOLEAN, made : BOOLEAN], token' \in Nat, born' \in Nat,
         instance' \in {"pending", "ready", "gone"},
         ops' \in Nat, fails' \in Nat, crashes' \in Nat
  PROVE RunnerInv'
BY DEF RunnerInv, TypeOK, MountsCA, ProvisionedHasChildren, Present, Exists

(* Budgets and the surroundings keep their types.                          *)
LEMMA Counts ==
  ASSUME TypeOK
  PROVE /\ ops \in Nat /\ fails \in Nat /\ crashes \in Nat
        /\ ops + 1 \in Nat /\ fails + 1 \in Nat /\ crashes + 1 \in Nat
        /\ token \in Nat /\ born \in Nat /\ token + 1 \in Nat /\ born + 1 \in Nat
        /\ instance \in {"pending", "ready", "gone"}
        /\ org \in [cr : BOOLEAN, made : BOOLEAN]
        /\ children \in [Keys -> Children] /\ removed \in SUBSET (Keys \X Kinds)
        /\ RuntimeOK(Calls, Runner, Memory)
  BY DEF TypeOK

(* A pass ends, and nothing else happens.                                  *)
LEMMA Ended ==
  ASSUME RunnerInv, Running, Done \/ Retry, UNCHANGED <<store, children, removed, gitea, born>>,
         ops' \in Nat, fails' \in Nat, crashes' \in Nat
  PROVE RunnerInv'
<1>1. TypeOK /\ RuntimeOK(Calls, Runner, Memory) /\ Agree
  BY DEF RunnerInv, TypeOK
<1>2. RuntimeOK(Calls, Runner, Memory)'
  BY <1>1, EndOK DEF store, RuntimeOK
<1>3. Agree' /\ PassInv'
  BY <1>1, KeepCopies DEF Done, Retry, PassInv, Running
<1> QED
  BY <1>1, <1>2, <1>3, Frame DEF store, gitea, TypeOK

(* A write of the pass leaves the copies in agreement.                     *)
LEMMA WriteAgree ==
  ASSUME RuntimeOK(Calls, Runner, Memory), Agree, Running, NEW o \in Runner, Write(o),
         pass' = Idle \/ (pass'.key = pass.key /\ pass'.obj = o)
  PROVE /\ Agree'
        /\ cr[pass.key] = pass.obj /\ cr'[pass.key] = o /\ pass.key \in Keys
        /\ \A k \in Keys \ {pass.key} : cr'[k] = cr[k]
<1>1. /\ pass.key \in Keys /\ pass.obj \in Runner /\ cache' = cache
      /\ cr[pass.key] = pass.obj /\ cr'[pass.key] = o
      /\ \A k \in Keys \ {pass.key} : cr'[k] = cr[k]
      /\ fresh \subseteq Keys
  BY DEF RuntimeOK, Running, Pass, Agree, Write
<1>2. \A k \in fresh' : cache'[k] = cr'[k]
  BY <1>1 DEF Agree, Write
<1> QED
  BY <1>1, <1>2 DEF Agree

-----------------------------------------------------------------------------
(* Every step of a pass keeps the invariant.                               *)

LEMMA ReconcileInv == ASSUME RunnerInv, NEW k \in Keys, Reconcile(k) PROVE RunnerInv'
<1>1. /\ Take(k, "BuildFromOrg", Blank) /\ "BuildFromOrg" \in Calls /\ Blank \in Memory
      /\ UNCHANGED <<cr, children, removed, gitea, born, budget>>
      /\ RuntimeOK(Calls, Runner, Memory) /\ Agree /\ TypeOK
  BY DEF Reconcile, Take, store, OnlyStatus, OnlyPass, Calls, Blank, Memory, RunnerInv, TypeOK
<1>2. RuntimeOK(Calls, Runner, Memory)' /\ Agree'
  BY <1>1, TakeOK, TakeCopies
<1>3. PassInv'
  BY <1>1 DEF Take, PassInv, Running
<1> QED
  BY <1>1, <1>2, <1>3, Frame DEF gitea, budget, TypeOK

(* A pass goes on with its copy, at one of the calls before the objects.   *)
LEMMA WentOn ==
  ASSUME RunnerInv, Running, NEW c \in {"GetJSON", "tlsStatus"}, NEW m \in Memory,
         pass' = [pass EXCEPT !.at = c, !.mem = m], UNCHANGED queue,
         c = "tlsStatus" /\ m.token # 0 => m.tls = TLS,
         UNCHANGED <<store, children, removed, gitea, born, budget>>
  PROVE RunnerInv'
<1>1. TypeOK /\ RuntimeOK(Calls, Runner, Memory) /\ Agree
  BY DEF RunnerInv, TypeOK
<1>2. /\ pass' \in Pass(Calls, Runner, Memory)
      /\ pass'.at = c /\ pass'.mem = m /\ pass'.key = pass.key
      /\ pass'.obj = pass.obj /\ pass'.current = pass.current
  BY <1>1, PassOK DEF Pass, Calls
<1>3. RuntimeOK(Calls, Runner, Memory)' /\ Agree'
  BY <1>1, <1>2, KeepCopies DEF RuntimeOK, store
<1>4. PassInv'
  BY <1>2 DEF PassInv
<1> QED
  BY <1>1, <1>3, <1>4, Frame DEF store, gitea, budget, TypeOK

LEMMA BuildFromOrgInv == ASSUME RunnerInv, BuildFromOrg PROVE RunnerInv'
<1>1. /\ Running /\ TypeOK /\ UNCHANGED <<store, children, removed, gitea, born, budget>>
  BY AtRuns DEF BuildFromOrg, Calls, OnlyLocal, OnlyStatus, OnlyPass, RunnerInv
<1>2. CASE Goto("GetJSON")
  <2>1. pass' = [pass EXCEPT !.at = "GetJSON", !.mem = pass.mem] /\ queue' = queue
    BY <1>1, <1>2, PassOK DEF Goto, Pass
  <2> QED
    BY <1>1, <2>1, PassOK, WentOn
<1>3. CASE Retry
  BY <1>1, <1>3, Ended, Counts DEF budget
<1> QED
  BY <1>2, <1>3 DEF BuildFromOrg

LEMMA GetJSONInv == ASSUME RunnerInv, GetJSON PROVE RunnerInv'
<1>1. /\ Running /\ TypeOK /\ UNCHANGED <<store, children, removed, gitea, born, budget>>
  BY AtRuns DEF GetJSON, Calls, OnlyLocal, OnlyStatus, OnlyPass, RunnerInv
<1>2. ASSUME NEW m \in Memory, GotoWith("tlsStatus", m), m.token # 0 => m.tls = TLS
      PROVE RunnerInv'
  BY <1>1, <1>2, WentOn DEF GotoWith
<1>3. Blank \in Memory /\ Blank.token = 0
  BY DEF Blank, Memory
<1>4. [token |-> token, tls |-> TLS] \in Memory
  BY <1>1, RunnerConstants, Counts DEF Memory
<1>5. CASE Retry
  BY <1>1, <1>5, Ended, Counts DEF budget
<1>6. CASE GotoWith("tlsStatus", IF org.made THEN [token |-> token, tls |-> TLS] ELSE Blank)
  BY <1>2, <1>3, <1>4, <1>6
<1> QED
  BY <1>5, <1>6 DEF GetJSON

(* A status update of the pass.  Its copy is the stored object, of which   *)
(* it changes only the TLS flag or, at the last call, the other one.       *)
LEMMA Written ==
  ASSUME RunnerInv, Running, NEW o \in Runner, Write(o), queue' \subseteq Keys,
         o.prov => pass.obj.prov \/ \A kind \in Kinds : Had(pass.key, kind),
         UNCHANGED <<children, removed, gitea, born, budget>>,
         \/ pass' = Idle
         \/ pass' = [pass EXCEPT !.at = "sa", !.obj = o] /\ o.tls = TLS
  PROVE RunnerInv'
<1>1. TypeOK /\ RuntimeOK(Calls, Runner, Memory) /\ Agree
  BY DEF RunnerInv, TypeOK
<1>2. pass' # Idle => /\ pass' \in Pass(Calls, Runner, Memory)
                      /\ pass'.at = "sa" /\ pass'.obj = o /\ pass'.key = pass.key
                      /\ o.tls = TLS
  BY <1>1, PassOK DEF Pass, Calls
<1>3. /\ Agree' /\ cr[pass.key] = pass.obj /\ cr'[pass.key] = o /\ pass.key \in Keys
      /\ \A k \in Keys \ {pass.key} : cr'[k] = cr[k]
  BY <1>1, <1>2, WriteAgree
<1>4. RuntimeOK(Calls, Runner, Memory)'
  BY <1>1, <1>2, WriteOK DEF RuntimeOK
<1>5. PassInv'
  BY <1>2 DEF PassInv, Running
<1>6. ProvisionedHasChildren'
  <2>1. pass.obj # Absent
    BY <1>1, PassOK, RunnerConstants
  <2> QED
    BY <1>3, <2>1 DEF RunnerInv, ProvisionedHasChildren, Exists, Present, Had
<1>7. MountsCA'
  BY DEF RunnerInv, MountsCA, Present
<1> QED
  BY <1>1, <1>3, <1>4, <1>5, <1>6, <1>7 DEF RunnerInv, TypeOK, gitea, budget

LEMMA TLSStatusInv == ASSUME RunnerInv, TLSStatus PROVE RunnerInv'
<1>1. /\ Running /\ TypeOK /\ pass.at = "tlsStatus"
      /\ UNCHANGED <<children, removed, gitea, born, budget>>
  BY AtRuns DEF TLSStatus, At, Calls, OnlyStatus, OnlyPass, RunnerInv
<1>2. /\ WithTLS \in Runner /\ WithTLS.prov = pass.obj.prov /\ WithTLS.tls = pass.mem.tls
      /\ pass.key \in Keys /\ queue \subseteq Keys
  BY <1>1, PassOK DEF WithTLS, Runner, Memory, TypeOK, RuntimeOK
<1>3. CASE Write(WithTLS) /\ pass.mem.token # 0
           /\ pass' = [pass EXCEPT !.at = "sa", !.obj = WithTLS] /\ UNCHANGED queue
  <2>1. pass.mem.tls = TLS
    BY <1>1, <1>3 DEF RunnerInv, PassInv
  <2> QED
    BY <1>1, <1>2, <1>3, <2>1, Written
<1>4. CASE Write(WithTLS) /\ Retry
  BY <1>1, <1>2, <1>4, Written DEF Retry
<1>5. CASE Conflict /\ Done
  BY <1>1, <1>5, Ended, Counts DEF Conflict, budget
<1> QED
  BY <1>3, <1>4, <1>5 DEF TLSStatus, StatusUpdate

LEMMA ProvisionedStatusInv == ASSUME RunnerInv, ProvisionedStatus PROVE RunnerInv'
<1>1. /\ Running /\ TypeOK /\ pass.at = "status" /\ Done
      /\ UNCHANGED <<children, removed, gitea, born, budget>>
  BY AtRuns DEF ProvisionedStatus, At, Calls, OnlyStatus, OnlyPass, RunnerInv
<1> DEFINE o == [pass.obj EXCEPT !.prov = TRUE]
<1>2. o \in Runner /\ pass.key \in Keys /\ queue' \subseteq Keys
  BY <1>1, PassOK DEF Runner, TypeOK, RuntimeOK, Done
<1> HIDE DEF o
<1>3. CASE Write(o)
  <2>1. \A kind \in Kinds : Had(pass.key, kind)
    BY <1>1, <1>3 DEF RunnerInv, PassInv, Write, Kinds
  <2> QED
    BY <1>1, <1>2, <1>3, <2>1, Written DEF Done
<1>4. CASE Conflict
  BY <1>1, <1>4, Ended, Counts DEF Conflict, budget
<1> QED
  BY <1>3, <1>4 DEF ProvisionedStatus, o

(* An upsert: an object is made or left alone, and none goes.              *)
LEMMA Upserted ==
  ASSUME RunnerInv, Running, NEW kind \in Kinds, At(kind),
         children' \in [Keys -> Children], MountsCA',
         \A j \in Keys, x \in Kinds : Present(j, x) => Present(j, x)',
         \A j \in Keys : j = pass.key => Present(j, kind)',
         \/ Done
         \/ Goto(CASE kind = "sa" -> "secret" [] kind = "secret" -> "sts"
                   [] kind = "sts" -> "status"),
         UNCHANGED <<store, removed, gitea, born, budget>>
  PROVE RunnerInv'
<1>1. /\ TypeOK /\ RuntimeOK(Calls, Runner, Memory) /\ Agree /\ pass.key \in Keys
      /\ pass.at = kind
  BY PassOK DEF RunnerInv, TypeOK, At
<1>2. \A j \in Keys, x \in Kinds : Had(j, x) => Had(j, x)'
  BY DEF Had
<1>3. RuntimeOK(Calls, Runner, Memory)' /\ Agree' /\ PassInv'
  <2>1. CASE Done
    BY <1>1, <2>1, EndOK, KeepCopies DEF Done, PassInv, Running, store, RuntimeOK
  <2>2. ASSUME NEW c \in Calls, Goto(c),
               c = CASE kind = "sa" -> "secret" [] kind = "secret" -> "sts"
                     [] kind = "sts" -> "status"
        PROVE RuntimeOK(Calls, Runner, Memory)' /\ Agree' /\ PassInv'
    <3>1. /\ pass' \in Pass(Calls, Runner, Memory)
          /\ pass'.at = c /\ pass'.key = pass.key /\ pass'.obj = pass.obj
          /\ pass'.current = pass.current
      BY <1>1, <2>2, PassOK DEF Pass, Goto
    <3>2. RuntimeOK(Calls, Runner, Memory)' /\ Agree'
      BY <1>1, <2>2, <3>1, KeepCopies DEF RuntimeOK, store, Goto
    <3>3. \A x \in Kinds : Had(pass.key, x) => Had(pass.key, x)'
      BY <1>1, <1>2, <3>1 DEF Had, Present
    <3>4. Had(pass.key, kind)'
      BY <1>1, <3>1 DEF Had, Present
    <3>5. PassInv'
      <4> USE DEF PassInv, Kinds
      <4>1. CASE kind = "sa"
        BY <1>1, <2>2, <3>1, <3>4, <4>1 DEF RunnerInv
      <4>2. CASE kind = "secret"
        BY <1>1, <2>2, <3>1, <3>3, <3>4, <4>2 DEF RunnerInv
      <4>3. CASE kind = "sts"
        BY <1>1, <2>2, <3>1, <3>3, <3>4, <4>3 DEF RunnerInv
      <4> QED
        BY <4>1, <4>2, <4>3
    <3> QED
      BY <3>2, <3>5
  <2>3. (CASE kind = "sa" -> "secret" [] kind = "secret" -> "sts"
           [] kind = "sts" -> "status") \in Calls
    BY DEF Kinds, Calls
  <2> QED
    BY <2>1, <2>2, <2>3
<1>4. ProvisionedHasChildren'
  BY <1>2 DEF RunnerInv, ProvisionedHasChildren, Had, Exists, store
<1> QED
  BY <1>1, <1>3, <1>4 DEF RunnerInv, TypeOK, gitea, budget, store

(* What putting an object under the name of a Runner does.                 *)
LEMMA Put1 ==
  ASSUME TypeOK, MountsCA, NEW k \in Keys, NEW kind \in Kinds, NEW child,
         [children[k] EXCEPT ![kind] = child] \in Children, child # None,
         kind = "sts" => child.tls = TLS,
         children' = [children EXCEPT ![k][kind] = child]
  PROVE /\ children' \in [Keys -> Children] /\ MountsCA'
        /\ \A j \in Keys, x \in Kinds : Present(j, x) => Present(j, x)'
        /\ Present(k, kind)'
<1> DEFINE new == [children[k] EXCEPT ![kind] = child]
<1>1. children \in [Keys -> Children]
  BY DEF TypeOK
<1>2. /\ new \in Children /\ new[kind] = child
      /\ \A x \in Kinds \ {kind} : new[x] = children[k][x]
  BY <1>1 DEF Children, Kinds
<1>3. children' = [children EXCEPT ![k] = new]
  OBVIOUS
<1> HIDE DEF new
<1>4. /\ children' \in [Keys -> Children] /\ children'[k] = new
      /\ \A j \in Keys \ {k} : children'[j] = children[j]
  BY <1>1, <1>2, <1>3
<1>5. \A j \in Keys, x \in Kinds :
        children'[j][x] = IF j = k /\ x = kind THEN child ELSE children[j][x]
  <2> TAKE j \in Keys, x \in Kinds
  <2>1. CASE j = k /\ x = kind
    <3>1. children'[j] = new /\ new[x] = child
      BY <1>2, <1>4, <2>1
    <3> QED
      BY <2>1, <3>1
  <2>2. CASE j = k /\ x # kind
    BY <1>2, <1>4, <2>2
  <2>3. CASE j # k
    BY <1>4, <2>3
  <2> QED
    BY <2>1, <2>2, <2>3
<1>6. MountsCA'
  <2>1. \A j \in Keys : children'[j].sts =
                          IF j = k /\ "sts" = kind THEN child ELSE children[j].sts
    BY <1>5 DEF Kinds
  <2> QED
    BY <2>1 DEF MountsCA, Present
<1> QED
  BY <1>4, <1>5, <1>6 DEF Present

LEMMA UpsertInv ==
  ASSUME RunnerInv, NEW kind \in Kinds, At(kind), NEW child,
         kind = "sa" => child \in [owner : Nat],
         kind = "secret" => child \in [owner : Nat, token : Nat],
         kind = "sts" => /\ child \in [owner : Nat, tls : BOOLEAN, replicas : Replicas]
                         /\ child.tls = TLS,
         (Found(kind) /\ UNCHANGED children) \/ Make(kind, child),
         \/ Done
         \/ Goto(CASE kind = "sa" -> "secret" [] kind = "secret" -> "sts"
                   [] kind = "sts" -> "status"),
         UNCHANGED <<store, removed, gitea, born, budget>>
  PROVE RunnerInv'
<1>1. /\ TypeOK /\ Running /\ pass.key \in Keys /\ MountsCA /\ children \in [Keys -> Children]
  BY PassOK DEF RunnerInv, TypeOK, At, Running, Idle, Kinds
<1>2. /\ children' \in [Keys -> Children] /\ MountsCA'
      /\ \A j \in Keys, x \in Kinds : Present(j, x) => Present(j, x)'
      /\ \A j \in Keys : j = pass.key => Present(j, kind)'
  <2>1. CASE Found(kind) /\ UNCHANGED children
    BY <1>1, <2>1 DEF Found, MountsCA, Present
  <2>2. CASE Make(kind, child)
    <3>1. children[pass.key] \in Children
      BY <1>1
    <3>2. [children[pass.key] EXCEPT ![kind] = child] \in Children /\ child # None
      BY <3>1, RunnerConstants DEF Kinds, Children
    <3>3. PICK k \in Keys : k = pass.key
      BY <1>1
    <3> QED
      BY <1>1, <2>2, <3>2, <3>3, Put1 DEF Make
  <2> QED
    BY <2>1, <2>2
<1> QED
  BY <1>1, <1>2, Upserted

LEMMA UpsertsInv ==
  ASSUME RunnerInv, UpsertRunnerSA \/ UpsertRunnerSecret \/ UpsertRunnerSts
  PROVE RunnerInv'
<1>1. /\ Running /\ TypeOK
  BY AtRuns DEF UpsertRunnerSA, UpsertRunnerSecret, UpsertRunnerSts, Upsert, Calls, RunnerInv
<1>2. /\ pass.obj.uid \in Nat /\ pass.obj.tls \in BOOLEAN
      /\ pass.obj.spec.replicas \in Replicas /\ pass.mem.token \in Nat
      /\ pass.key \in Keys /\ children \in [Keys -> Children]
  BY <1>1, PassOK DEF Runner, RunnerSpec, Memory, TypeOK
<1>3. CASE UpsertRunnerSA
  <2>1. "sa" \in Kinds /\ [owner |-> pass.obj.uid] \in [owner : Nat]
    BY <1>2 DEF Kinds
  <2> QED
    BY <1>3, <2>1, UpsertInv DEF UpsertRunnerSA, Upsert, OnlyPass
<1>4. CASE UpsertRunnerSecret
  <2>1. "secret" \in Kinds /\ NewSecret \in [owner : Nat, token : Nat]
    BY <1>2 DEF Kinds, NewSecret
  <2> QED
    BY <1>4, <2>1, UpsertInv DEF UpsertRunnerSecret, Upsert, OnlyPass
<1>5. CASE UpsertRunnerSts
  <2>1. /\ "sts" \in Kinds /\ At("sts") /\ (Done \/ Goto("status"))
        /\ UNCHANGED <<store, removed, gitea, born, budget>>
    BY <1>5 DEF UpsertRunnerSts, AfterSts, OnlyPass, Kinds
  <2>2. pass.obj.tls = TLS
    BY <1>1, <2>1 DEF RunnerInv, PassInv, At
  <2>3. CASE ~Found("sts")
    <3>1. /\ NewSts \in [owner : Nat, tls : BOOLEAN, replicas : Replicas]
          /\ NewSts.tls = TLS
      BY <1>2, <2>2 DEF NewSts
    <3>2. Make("sts", NewSts)
      BY <1>5, <2>3 DEF UpsertRunnerSts
    <3> QED
      BY <2>1, <3>1, <3>2, UpsertInv
  <2>4. CASE Found("sts")
    <3> DEFINE child == [children[pass.key].sts EXCEPT !.replicas = pass.obj.spec.replicas]
    <3>1. /\ children[pass.key].sts \in [owner : Nat, tls : BOOLEAN, replicas : Replicas]
          /\ children[pass.key].sts.tls = TLS
      BY <1>2, <2>4 DEF Found, Children, RunnerInv, MountsCA, Present
    <3>2. child \in [owner : Nat, tls : BOOLEAN, replicas : Replicas] /\ child.tls = TLS
      BY <1>2, <3>1
    <3>3. Make("sts", child)
      BY <1>5, <2>4 DEF UpsertRunnerSts, Make
    <3> HIDE DEF child
    <3> QED
      BY <2>1, <3>2, <3>3, UpsertInv
  <2> QED
    BY <2>3, <2>4
<1> QED
  BY <1>3, <1>4, <1>5

-----------------------------------------------------------------------------
(* The runtime, failures, and what people do.                              *)

LEMMA CallFailsInv == ASSUME RunnerInv, CallFails PROVE RunnerInv'
<1>1. TypeOK
  BY DEF RunnerInv
<1> QED
  BY <1>1, Counts, Ended DEF CallFails

(* The pass, the objects and what is known about them stay.                *)
LEMMA SamePass ==
  ASSUME RunnerInv, UNCHANGED <<pass, children, removed>>
  PROVE PassInv'
  BY DEF RunnerInv, PassInv, Running, Had, Present

LEMMA RuntimeInv ==
  ASSUME RunnerInv, Restart \/ Resync \/ \E k \in Keys : Watch(k)
  PROVE RunnerInv'
<1>1. TypeOK /\ RuntimeOK(Calls, Runner, Memory) /\ Agree
  BY DEF RunnerInv, TypeOK
<1>2. CASE Restart
  <2>1. RuntimeOK(Calls, Runner, Memory)' /\ Agree' /\ PassInv'
    BY <1>1, <1>2, StartAgainOK, StartAgainCopies
    DEF Restart, StartAgain, PassInv, Running
  <2> QED
    BY <1>1, <1>2, <2>1, Counts, Frame DEF Restart, StartAgain, gitea
<1>3. CASE Resync
  <2>1. RuntimeOK(Calls, Runner, Memory)' /\ Agree' /\ PassInv'
    BY <1>1, <1>3, RequeueOK, RequeueCopies, SamePass DEF Resync, Requeue
  <2> QED
    BY <1>1, <1>3, <2>1, Counts, Frame DEF Resync, Requeue, store, gitea, budget
<1>4. ASSUME NEW k \in Keys, Watch(k) PROVE RunnerInv'
  <2>1. RuntimeOK(Calls, Runner, Memory)' /\ Agree' /\ PassInv'
    BY <1>1, <1>4, ObserveOK, ObserveCopies, SamePass DEF Watch, Observe
  <2> QED
    BY <1>1, <1>4, <2>1, Counts, Frame DEF Watch, Observe, gitea, budget
<1> QED
  BY <1>2, <1>3, <1>4

(* An object goes, and its going is remembered.                            *)
LEMMA LoseInv ==
  ASSUME RunnerInv, NEW k \in Keys, NEW kind \in Kinds, Lose(k, kind),
         ops' \in Nat, UNCHANGED <<fails, crashes>>
  PROVE RunnerInv'
<1> DEFINE new == [children[k] EXCEPT ![kind] = None]
<1>1. /\ TypeOK /\ children \in [Keys -> Children] /\ children[k] \in Children
      /\ UNCHANGED <<store, queue, pass, org, token, instance, born>>
      /\ removed' = removed \cup {<<k, kind>>}
  BY DEF RunnerInv, TypeOK, Lose, runtime, gitea
<1>2. /\ new \in Children /\ new[kind] = None
      /\ \A x \in Kinds \ {kind} : new[x] = children[k][x]
  BY <1>1 DEF Children, Kinds
<1>3. children' = [children EXCEPT ![k] = new]
  BY DEF Lose
<1> HIDE DEF new
<1>4. /\ children' \in [Keys -> Children] /\ children'[k] = new
      /\ \A j \in Keys \ {k} : children'[j] = children[j]
  BY <1>1, <1>2, <1>3
<1>5. \A j \in Keys, x \in Kinds :
        children'[j][x] = IF j = k /\ x = kind THEN None ELSE children[j][x]
  BY <1>2, <1>4
<1>6. \A j \in Keys, x \in Kinds : Had(j, x) => Had(j, x)'
  BY <1>1, <1>5 DEF Had, Present
<1>7. MountsCA'
  <2>1. \A j \in Keys : children'[j].sts =
                          IF j = k /\ "sts" = kind THEN None ELSE children[j].sts
    BY <1>5 DEF Kinds
  <2> QED
    BY <2>1 DEF RunnerInv, MountsCA, Present
<1>8. ProvisionedHasChildren'
  BY <1>1, <1>6 DEF RunnerInv, ProvisionedHasChildren, Had, Exists, store
<1>9. PassInv'
  <2>1. Running => pass.key \in Keys
    BY <1>1, PassOK
  <2>2. \A x \in Kinds : Running /\ Had(pass.key, x) => Had(pass.key, x)'
    BY <1>1, <1>6, <2>1 DEF Had, Present
  <2> QED
    BY <1>1, <2>2 DEF RunnerInv, PassInv, Running, Kinds
<1>10. RuntimeOK(Calls, Runner, Memory)' /\ Agree'
  <2>1. RuntimeOK(Calls, Runner, Memory) /\ Agree
    BY <1>1 DEF RunnerInv, TypeOK
  <2> QED
    BY <1>1, <2>1, KeepCopies DEF RuntimeOK, store
<1> QED
  BY <1>1, <1>4, <1>7, <1>8, <1>9, <1>10 DEF RunnerInv, TypeOK

(* A Runner is made, edited or deleted.                                    *)
LEMMA PutInv ==
  ASSUME RunnerInv, NEW k \in Keys, NEW o \in Runner \cup {Absent}, Put(k, o),
         o # Absent /\ o.prov => Exists(k) /\ cr[k].prov /\ removed' = removed,
         removed' \subseteq removed, {p \in removed : p[1] # k} \subseteq removed',
         UNCHANGED <<children, gitea, fails, crashes>>, born' \in Nat, ops' \in Nat
  PROVE RunnerInv'
<1>1. TypeOK /\ RuntimeOK(Calls, Runner, Memory) /\ Agree /\ removed \subseteq Keys \X Kinds
  BY DEF RunnerInv, TypeOK
<1>2. RuntimeOK(Calls, Runner, Memory)' /\ Agree'
  BY <1>1, PutOK, PutCopies
<1>3. cr'[k] = o /\ \A j \in Keys \ {k} : cr'[j] = cr[j]
  BY <1>1 DEF Put, RuntimeOK
<1>4. \A j \in Keys \ {k}, x \in Kinds : Had(j, x) => Had(j, x)'
  BY <1>1 DEF Had, Present
<1>5. ProvisionedHasChildren'
  BY <1>1, <1>3, <1>4 DEF RunnerInv, ProvisionedHasChildren, Had, Present, Exists
<1>6. PassInv'
  <2>1. CASE Running /\ pass.key = k
    <3>1. /\ pass'.at = pass.at /\ pass'.mem = pass.mem /\ pass'.obj = pass.obj
          /\ ~pass'.current
      BY <1>1, <2>1, PassOK DEF Put, Pass
    <3> QED
      BY <2>1, <3>1 DEF RunnerInv, PassInv
  <2>2. CASE ~(Running /\ pass.key = k)
    <3>1. pass' = pass
      BY <2>2 DEF Put
    <3>2. Running => pass.key \in Keys \ {k}
      BY <1>1, <2>2, PassOK
    <3>3. \A x \in Kinds : Running /\ Had(pass.key, x) => Had(pass.key, x)'
      BY <1>4, <3>1, <3>2 DEF Had, Present
    <3> QED
      BY <3>1, <3>3 DEF RunnerInv, PassInv, Running, Kinds
  <2> QED
    BY <2>1, <2>2
<1> QED
  BY <1>1, <1>2, <1>5, <1>6 DEF RunnerInv, TypeOK, MountsCA, Present, gitea

LEMMA RunnersInv ==
  ASSUME RunnerInv, NEW k \in Keys, NEW s \in RunnerSpec,
         CreateRunner(k, s) \/ EditRunner(k, s) \/ KubectlDelete(k)
  PROVE RunnerInv'
<1>1. /\ TypeOK /\ cr \in [Keys -> Runner \cup {Absent}] /\ born + 1 \in Nat /\ born \in Nat
      /\ ops + 1 \in Nat
  BY Counts DEF RunnerInv, TypeOK, RuntimeOK
<1>2. CASE CreateRunner(k, s)
  <2> DEFINE o == [spec |-> s, uid |-> born + 1, tls |-> FALSE, prov |-> FALSE]
  <2>1. o \in Runner /\ ~o.prov
    BY <1>1 DEF Runner
  <2>2. Put(k, o)
    BY <1>2 DEF CreateRunner
  <2> HIDE DEF o
  <2> QED
    BY <1>1, <1>2, <2>1, <2>2, PutInv DEF CreateRunner, Operate
<1>3. CASE EditRunner(k, s)
  <2> DEFINE o == [cr[k] EXCEPT !.spec = s]
  <2>1. o \in Runner /\ o.prov = cr[k].prov
    BY <1>1, <1>3 DEF EditRunner, Exists, Runner
  <2>2. Put(k, o)
    BY <1>3 DEF EditRunner
  <2> HIDE DEF o
  <2> QED
    BY <1>1, <1>3, <2>1, <2>2, PutInv DEF EditRunner, Operate
<1>4. CASE KubectlDelete(k)
  BY <1>1, <1>4, PutInv DEF KubectlDelete, Operate
<1> QED
  BY <1>2, <1>3, <1>4

(* The Org, the instance, or nothing at all changes.                       *)
LEMMA OthersInv ==
  ASSUME RunnerInv,
         \/ OrgApplied \/ OrgMade \/ OrgGone \/ InstanceReady \/ DeleteInstance
         \/ UNCHANGED vars
  PROVE RunnerInv'
<1>1. /\ TypeOK /\ UNCHANGED <<store, queue, pass, children, removed>>
      /\ RuntimeOK(Calls, Runner, Memory) /\ Agree
  BY DEF OrgApplied, OrgMade, OrgGone, InstanceReady, DeleteInstance, vars, runtime,
     RunnerInv, TypeOK
<1>2. RuntimeOK(Calls, Runner, Memory)' /\ Agree' /\ PassInv'
  BY <1>1, KeepCopies, SamePass DEF RuntimeOK, store
<1>3. org' \in [cr : BOOLEAN, made : BOOLEAN]
  <2>1. org \in [cr : BOOLEAN, made : BOOLEAN]
    BY <1>1, Counts
  <2>2. OrgApplied \/ OrgMade \/ DeleteInstance => org' \in [cr : BOOLEAN, made : BOOLEAN]
    BY <2>1 DEF OrgApplied, OrgMade, DeleteInstance
  <2>3. OrgGone => org' \in [cr : BOOLEAN, made : BOOLEAN]
    BY DEF OrgGone
  <2> QED
    BY <2>1, <2>2, <2>3 DEF InstanceReady, vars, gitea
<1>4. token' \in Nat /\ born' \in Nat /\ instance' \in {"pending", "ready", "gone"}
  BY <1>1, Counts DEF OrgApplied, OrgMade, OrgGone, InstanceReady, DeleteInstance,
     vars, gitea
<1>5. ops' \in Nat /\ fails' \in Nat /\ crashes' \in Nat
  BY <1>1, Counts DEF OrgApplied, OrgMade, OrgGone, InstanceReady, DeleteInstance,
     Operate, vars, budget
<1> QED
  BY <1>1, <1>2, <1>3, <1>4, <1>5, Frame DEF store

LEMMA NextInv == ASSUME RunnerInv, [Next]_vars PROVE RunnerInv'
<1>1. ASSUME NEW k \in Keys, NEW kind \in Kinds, Collect(k, kind) \/ RemoveByHand(k, kind)
      PROVE RunnerInv'
  BY <1>1, LoseInv, Counts DEF Collect, RemoveByHand, Operate, budget, RunnerInv
<1>2. CASE Step
  BY <1>2, BuildFromOrgInv, GetJSONInv, TLSStatusInv, UpsertsInv, ProvisionedStatusInv
  DEF Step
<1>3. ASSUME NEW k \in Keys, KubectlDelete(k) PROVE RunnerInv'
  <2>1. TypeOK /\ cr[k] \in Runner
    BY <1>3 DEF KubectlDelete, Exists, RunnerInv, TypeOK, RuntimeOK
  <2>2. cr[k].spec \in RunnerSpec
    BY <2>1 DEF Runner
  <2> QED
    BY <1>3, <2>2, RunnersInv
<1> QED
  BY <1>1, <1>2, <1>3, ReconcileInv, CallFailsInv, RuntimeInv, RunnersInv, OthersInv
  DEF Next, People

LEMMA InitInv == Init => RunnerInv
<1> SUFFICES ASSUME Init PROVE RunnerInv
  OBVIOUS
<1>1. RuntimeOK(Calls, Runner, Memory) /\ Agree
  BY RuntimeInitOK, InitCopies DEF Init
<1>2. NoChildren \in Children
  BY DEF NoChildren, Children
<1>3. TypeOK
  BY <1>1, <1>2 DEF Init, TypeOK
<1>4. MountsCA /\ ProvisionedHasChildren /\ PassInv
  BY DEF Init, RuntimeInit, MountsCA, ProvisionedHasChildren, PassInv, Present, NoChildren,
     Exists, Running
<1> QED
  BY <1>1, <1>3, <1>4 DEF RunnerInv

LEMMA RunnerInvariant == Spec => []RunnerInv
BY InitInv, NextInv, PTL DEF Spec

-----------------------------------------------------------------------------
(* The theorems.                                                           *)

(* Type correctness of the Runner controller's state.                      *)
THEOREM RunnerTypes == Spec => []TypeOK
BY RunnerInvariant, PTL DEF RunnerInv

(* A StatefulSet mounts the CA bundle exactly when the instance uses TLS,  *)
(* although Status.TLS says "no" after every pass that got no token.       *)
THEOREM RunnerMountsCA == Spec => []MountsCA
BY RunnerInvariant, PTL DEF RunnerInv

(* Status.Provisioned is set only when the three objects are there.        *)
THEOREM RunnerProvisionedTruth == Spec => []ProvisionedHasChildren
BY RunnerInvariant, PTL DEF RunnerInv

=============================================================================
