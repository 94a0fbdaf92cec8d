------------------------- MODULE ObjectStorageProofs -------------------------
(***************************************************************************)
(* Proofs about ObjectStorage: type correctness, that the keys of GCS open *)
(* their bucket, that accounts are managed resources, and that buckets go  *)
(* last, for any instances, hosts, key limit, failures and restarts.       *)
(***************************************************************************)
EXTENDS ObjectStorage, ControllerRuntimeProofs

Deleting ==
  {"DetachUserPolicy", "DeletePolicy", "DeleteAccessKey", "DeleteUser", "DeleteObjects",
   "DeleteBucket", "RemoveFinalizer"}

(* What a pass knows at a call, with copy o, cloud c and provider t: it    *)
(* deletes what is marked and held; the account goes before the bucket, or *)
(* was missed, and the bucket before the finalizer; keys are made after    *)
(* account and binding.                                                    *)
Known(call, o, c, t) ==
  /\ call \in Deleting => o.del /\ o.fin
  /\ call \in {"DeleteObjects", "DeleteBucket", "RemoveFinalizer"} /\ c.account => c.missed
  /\ call = "RemoveFinalizer" => o.host \notin c.buckets
  /\ call \in {"CreatePolicy", "AttachUserPolicy"} => t = "s3"
  /\ call = "SetPolicy" => c.account
  /\ call \in {"CreateKey", "upsertSecret"} /\ t # "s3" => c.account /\ o.host \in c.bound

PassInv ==
  Running => Known(pass.at, pass.obj, cloud[pass.key], provider[pass.key])

(* A secret whose keys work on GCS has its account and its binding, unless *)
(* a deletion missed the account.                                          *)
Bound(s, c, t) ==
  s # None /\ s.works /\ t = "gcs" /\ ~c.missed => c.account /\ s.for \in c.bound
GCSBound == \A k \in Keys : Bound(secret[k], cloud[k], provider[k])

ObjectInv == TypeOK /\ Agree /\ Marked \subseteq asked /\ PassInv /\ GCSBound

LEMMA GCSOpens == GCSBound => KeysOpenGCS
BY DEF GCSBound, Bound, KeysOpenGCS, KeysOpen, Opens

LEMMA PassOK ==
  ASSUME TypeOK, Running
  PROVE /\ pass \in Pass(Calls, Gitea, {Nothing})
        /\ pass.key \in Keys /\ pass.obj \in Gitea /\ pass.at \in Calls
        /\ host \in Hosts /\ pass.obj.uid \in Nat
        /\ pass.obj.fin \in BOOLEAN /\ pass.obj.del \in BOOLEAN
        /\ mine \in Cloud /\ secret[pass.key] \in Secret \cup {None}
        /\ provider[pass.key] \in {"s3", "gcs"}
<1>1. /\ pass \in Pass(Calls, Gitea, {Nothing})
      /\ pass.key \in Keys /\ pass.obj \in Gitea /\ pass.at \in Calls
  BY DEF TypeOK, RuntimeOK, Running, Pass
<1> QED
  BY <1>1, ObjectConstants DEF TypeOK, Gitea, host, mine

LEMMA AtRuns == \A call \in Calls : At(call) => Running
  BY DEF Calls, At, Running, Idle

(* A step of a pass that changes its part of the cloud to c and its secret *)
(* to s, and ends or goes on to a call with what it knows there.           *)
LEMMA PassStep ==
  ASSUME ObjectInv, Running, NEW c \in Cloud, cloud' = [cloud EXCEPT ![pass.key] = c],
         NEW s \in Secret \cup {None}, secret' = [secret EXCEPT ![pass.key] = s],
         Bound(s, c, provider[pass.key]),
         pods' \in [Keys -> Hosts \cup {None}], faults' \in Nat,
         UNCHANGED <<store, seen, db, provider, asked, born, ops>>,
         \/ Done \/ Retry
         \/ \E call \in Calls : Goto(call) /\ Known(call, pass.obj, c, provider[pass.key])
  PROVE ObjectInv'
<1>1. /\ TypeOK /\ RuntimeOK(Calls, Gitea, {Nothing}) /\ Agree /\ pass.key \in Keys
      /\ Marked \subseteq asked
  BY PassOK DEF ObjectInv, TypeOK
<1>2. /\ cloud' \in [Keys -> Cloud] /\ cloud'[pass.key] = c
      /\ \A k \in Keys \ {pass.key} : cloud'[k] = cloud[k]
      /\ secret' \in [Keys -> Secret \cup {None}] /\ secret'[pass.key] = s
      /\ \A k \in Keys \ {pass.key} : secret'[k] = secret[k]
  BY <1>1 DEF TypeOK
<1>3. GCSBound'
  BY <1>2 DEF ObjectInv, GCSBound
<1>4. RuntimeOK(Calls, Gitea, {Nothing})' /\ Agree' /\ Marked' \subseteq asked' /\ PassInv'
  <2>1. CASE Done \/ Retry
    BY <1>1, <2>1, EndOK, KeepCopies DEF Done, Retry, PassInv, Running, store, RuntimeOK
  <2>2. ASSUME NEW call \in Calls, Goto(call), Known(call, pass.obj, c, provider[pass.key])
        PROVE /\ RuntimeOK(Calls, Gitea, {Nothing})' /\ Agree' /\ Marked' \subseteq asked'
              /\ PassInv'
    <3>1. /\ pass'.at = call /\ pass'.key = pass.key /\ pass'.obj = pass.obj
          /\ pass'.current = pass.current
      BY <1>1, <2>2, PassOK DEF Pass, Goto
    <3>2. PassInv'
      BY <1>2, <2>2, <3>1 DEF PassInv
    <3> QED
      BY <1>1, <2>2, <3>1, <3>2, GotoOK, KeepCopies
  <2> QED
    BY <2>1, <2>2
<1> QED
  BY <1>1, <1>2, <1>3, <1>4 DEF ObjectInv, TypeOK

(* A step of a pass that changes neither.                                  *)
LEMMA LocalStep ==
  ASSUME ObjectInv, Running,
         pods' \in [Keys -> Hosts \cup {None}], faults' \in Nat,
         UNCHANGED <<cloud, secret, store, seen, db, provider, asked, born, ops>>,
         \/ Done \/ Retry
         \/ \E call \in Calls : Goto(call) /\ Known(call, pass.obj, mine, provider[pass.key])
  PROVE ObjectInv'
<1>1. /\ pass.key \in Keys /\ mine \in Cloud /\ secret[pass.key] \in Secret \cup {None}
      /\ cloud' = [cloud EXCEPT ![pass.key] = mine]
      /\ secret' = [secret EXCEPT ![pass.key] = secret[pass.key]]
  BY PassOK DEF ObjectInv, TypeOK, mine
<1>2. Bound(secret[pass.key], mine, provider[pass.key])
  BY <1>1 DEF ObjectInv, GCSBound, mine
<1> HIDE DEF mine
<1> QED
  BY <1>1, <1>2, PassStep

(* A step that changes the cloud only, and takes no account or binding.    *)
LEMMA CloudStep ==
  ASSUME ObjectInv, Running, NEW c \in Cloud, mine.bound \subseteq c.bound,
         mine.account => c.account, c.missed = mine.missed,
         Cloudwise(c), OnlyCloud,
         \/ Done \/ Retry
         \/ \E call \in Calls : Goto(call) /\ Known(call, pass.obj, c, provider[pass.key])
  PROVE ObjectInv'
<1>1. /\ pass.key \in Keys /\ secret[pass.key] \in Secret \cup {None}
      /\ secret' = [secret EXCEPT ![pass.key] = secret[pass.key]]
      /\ UNCHANGED <<store, seen, db, provider, asked, born, ops, faults, pods>>
      /\ faults' \in Nat /\ pods' \in [Keys -> Hosts \cup {None}]
  BY PassOK DEF ObjectInv, TypeOK, OnlyCloud, OnlyPass, budget
<1>2. Bound(secret[pass.key], c, provider[pass.key])
  BY <1>1 DEF ObjectInv, GCSBound, Bound, mine
<1> QED
  BY <1>1, <1>2, PassStep DEF Cloudwise

(* The fields of what a pass has in the cloud.                             *)
LEMMA MineFields ==
  ASSUME TypeOK, Running
  PROVE /\ mine.buckets \in SUBSET Hosts /\ mine.full \in SUBSET Hosts
        /\ mine.account \in BOOLEAN /\ mine.policy \in Hosts \cup {None}
        /\ mine.listed \in BOOLEAN /\ mine.missed \in BOOLEAN
        /\ mine.attached \in BOOLEAN /\ mine.bound \in SUBSET Hosts
        /\ mine.keys \in 0 .. KeyLimit
  BY PassOK DEF Cloud

-----------------------------------------------------------------------------
(* Every step of a pass keeps the invariant.                               *)

LEMMA LocalStepsInv ==
  ASSUME ObjectInv, PgRunning \/ ListBuckets \/ GetObjectStorage \/ Deletion \/ InlineConfig
  PROVE ObjectInv'
<1>1. /\ TypeOK /\ Running
      /\ UNCHANGED <<cloud, secret, store, seen, db, provider, asked, born, ops>>
      /\ faults' \in Nat
  BY AtRuns DEF PgRunning, ListBuckets, GetObjectStorage, Deletion, InlineConfig, Calls,
     OnlyLocal, OnlyCloud, OnlyPass, budget, ObjectInv, TypeOK
<1>2. pods' \in [Keys -> Hosts \cup {None}]
  BY <1>1, PassOK DEF PgRunning, ListBuckets, GetObjectStorage, Deletion, InlineConfig,
     OnlyLocal, OnlyCloud, TypeOK
<1> USE DEF Known, Deleting
<1>3. CASE PgRunning \/ ListBuckets \/ GetObjectStorage
  <2>1. \/ Done
        \/ \E call \in Calls : Goto(call) /\ Known(call, pass.obj, mine, provider[pass.key])
    BY <1>3 DEF PgRunning, ListBuckets, GetObjectStorage, Calls
  <2> QED
    BY <1>1, <1>2, <2>1, LocalStep
<1>4. CASE Deletion
  <2>1. \/ Done
        \/ \E call \in Calls : Goto(call) /\ Known(call, pass.obj, mine, provider[pass.key])
    BY <1>1, <1>4, PassOK DEF Deletion, Calls
  <2> QED
    BY <1>1, <1>2, <2>1, LocalStep
<1>5. CASE InlineConfig
  BY <1>1, <1>2, <1>5, LocalStep DEF InlineConfig
<1> QED
  BY <1>3, <1>4, <1>5

LEMMA CreateBucketInv == ASSUME ObjectInv, CreateBucket PROVE ObjectInv'
<1>1. TypeOK /\ Running
  BY AtRuns DEF CreateBucket, Calls, ObjectInv
<1> DEFINE c == [mine EXCEPT !.buckets = @ \cup {host}]
<1>2. c \in Cloud /\ c.bound = mine.bound /\ c.account = mine.account /\ c.missed = mine.missed
  BY <1>1, PassOK, MineFields DEF Cloud
<1>3. Known("getObjectStorage", pass.obj, c, provider[pass.key]) /\ "getObjectStorage" \in Calls
  BY DEF Known, Deleting, Calls
<1> HIDE DEF c
<1> QED
  BY <1>1, <1>2, <1>3, CloudStep DEF CreateBucket, c

LEMMA CreateUserInv == ASSUME ObjectInv, CreateUser PROVE ObjectInv'
<1>1. TypeOK /\ Running
  BY AtRuns DEF CreateUser, Calls, ObjectInv
<1> DEFINE Goes(c) == \E call \in Calls : Goto(call) /\ Known(call, pass.obj, c, provider[pass.key])
<1>2. ASSUME NEW c, c.account, ~(mine.account /\ ~mine.listed) PROVE Goes(c)
  BY <1>2 DEF CreateUser, Known, Deleting, Calls, S3
<1>3. CASE mine.account
  <2>1. UNCHANGED cloud /\ (Retry \/ Goes(mine))
    BY <1>2, <1>3 DEF CreateUser
  <2> QED
    BY <1>1, <2>1, LocalStep DEF CreateUser, OnlyCloud, OnlyPass, budget, ObjectInv, TypeOK
<1>4. CASE ~mine.account
  <2>1. PICK l \in BOOLEAN : Cloudwise([mine EXCEPT !.account = TRUE, !.listed = l])
    BY <1>4 DEF CreateUser
  <2> DEFINE c == [mine EXCEPT !.account = TRUE, !.listed = l]
  <2>2. c \in Cloud /\ c.bound = mine.bound /\ c.account /\ c.missed = mine.missed
    BY <1>1, PassOK, MineFields DEF Cloud
  <2> HIDE DEF c
  <2>3. Goes(c)
    BY <1>2, <1>4, <2>2
  <2> QED
    BY <1>1, <1>4, <2>1, <2>2, <2>3, CloudStep DEF CreateUser, c
<1> QED
  BY <1>3, <1>4

LEMMA CreatePolicyInv == ASSUME ObjectInv, CreatePolicy PROVE ObjectInv'
<1>1. /\ TypeOK /\ Running /\ provider[pass.key] = "s3" /\ pass.at = "CreatePolicy"
  BY AtRuns DEF CreatePolicy, At, Calls, ObjectInv, PassInv, Known
<1>2. CASE Goto("CreateKey") /\ UNCHANGED cloud
  <2>1. Known("CreateKey", pass.obj, mine, provider[pass.key]) /\ "CreateKey" \in Calls
    BY <1>1 DEF Known, Deleting, Calls
  <2> QED
    BY <1>1, <1>2, <2>1, LocalStep DEF CreatePolicy, OnlyCloud, OnlyPass, budget, TypeOK
<1>3. CASE Cloudwise([mine EXCEPT !.policy = host]) /\ Goto("AttachUserPolicy")
  <2> DEFINE c == [mine EXCEPT !.policy = host]
  <2>1. c \in Cloud /\ c.bound = mine.bound /\ c.account = mine.account /\ c.missed = mine.missed
    BY <1>1, PassOK, MineFields DEF Cloud
  <2>2. /\ Known("AttachUserPolicy", pass.obj, c, provider[pass.key])
        /\ "AttachUserPolicy" \in Calls
    BY <1>1 DEF Known, Deleting, Calls
  <2>3. Cloudwise(c)
    BY <1>3
  <2> HIDE DEF c
  <2> QED
    BY <1>1, <1>3, <2>1, <2>2, <2>3, CloudStep DEF CreatePolicy
<1> QED
  BY <1>2, <1>3 DEF CreatePolicy

LEMMA AttachUserPolicyInv == ASSUME ObjectInv, AttachUserPolicy PROVE ObjectInv'
<1>1. TypeOK /\ Running /\ provider[pass.key] = "s3"
  BY AtRuns DEF AttachUserPolicy, At, Calls, ObjectInv, PassInv, Known
<1> DEFINE c == [mine EXCEPT !.attached = TRUE]
<1>2. c \in Cloud /\ c.bound = mine.bound /\ c.account = mine.account /\ c.missed = mine.missed
  BY <1>1, PassOK, MineFields DEF Cloud
<1>3. Known("CreateKey", pass.obj, c, provider[pass.key]) /\ "CreateKey" \in Calls
  BY <1>1 DEF Known, Deleting, Calls
<1> HIDE DEF c
<1> QED
  BY <1>1, <1>2, <1>3, CloudStep DEF AttachUserPolicy, c

LEMMA SetPolicyInv == ASSUME ObjectInv, SetPolicy PROVE ObjectInv'
<1>1. TypeOK /\ Running /\ mine.account
  BY AtRuns DEF SetPolicy, At, Calls, ObjectInv, PassInv, Known, mine
<1> DEFINE c == [mine EXCEPT !.bound = @ \cup {host}]
<1>2. /\ c \in Cloud /\ mine.bound \subseteq c.bound /\ host \in c.bound
      /\ c.account /\ c.missed = mine.missed
  BY <1>1, PassOK, MineFields DEF Cloud
<1>3. Known("CreateKey", pass.obj, c, provider[pass.key]) /\ "CreateKey" \in Calls
  BY <1>2 DEF Known, Deleting, Calls, host
<1> HIDE DEF c
<1> QED
  BY <1>1, <1>2, <1>3, CloudStep DEF SetPolicy, c

LEMMA CreateKeyInv == ASSUME ObjectInv, CreateKey PROVE ObjectInv'
<1>1. TypeOK /\ Running /\ (provider[pass.key] # "s3" => mine.account /\ host \in mine.bound)
  BY AtRuns DEF CreateKey, At, Calls, ObjectInv, PassInv, Known, host, mine
<1>2. CASE Retry /\ UNCHANGED cloud
  BY <1>1, <1>2, LocalStep DEF CreateKey, OnlyCloud, OnlyPass, budget, TypeOK
<1>3. CASE ~(S3 /\ mine.keys = KeyLimit)
  <2> DEFINE c == [mine EXCEPT !.keys = IF S3 THEN @ + 1 ELSE @]
  <2>1. (IF S3 THEN mine.keys + 1 ELSE mine.keys) \in 0 .. KeyLimit
    BY <1>1, <1>3, MineFields, ObjectConstants
  <2>2. c \in Cloud /\ c.bound = mine.bound /\ c.account = mine.account /\ c.missed = mine.missed
    BY <1>1, <2>1, PassOK DEF Cloud
  <2>3. Known("upsertSecret", pass.obj, c, provider[pass.key]) /\ "upsertSecret" \in Calls
    BY <1>1, <2>2 DEF Known, Deleting, Calls, host
  <2>4. Cloudwise(c) /\ Goto("upsertSecret")
    BY <1>3 DEF CreateKey
  <2> HIDE DEF c
  <2> QED
    BY <1>1, <2>2, <2>3, <2>4, CloudStep DEF CreateKey
<1> QED
  BY <1>2, <1>3 DEF CreateKey

LEMMA UpsertSecretInv == ASSUME ObjectInv, UpsertSecret PROVE ObjectInv'
<1>1. /\ TypeOK /\ Running /\ (provider[pass.key] # "s3" => mine.account /\ host \in mine.bound)
      /\ UNCHANGED <<store, cloud, pods, seen, db, provider, asked, born, ops>>
      /\ faults' \in Nat /\ pods' \in [Keys -> Hosts \cup {None}]
  BY AtRuns DEF UpsertSecret, At, Calls, ObjectInv, PassInv, Known, host, mine, OnlyPass,
     budget, TypeOK
<1>2. CASE Retry /\ UNCHANGED secret
  BY <1>1, <1>2, LocalStep
<1>3. CASE Goto("AddFinalizer") /\ secret' = [secret EXCEPT ![pass.key] = NewSecret]
  <2>1. NewSecret \in Secret
    BY <1>1, PassOK DEF NewSecret, Secret
  <2>2. Bound(NewSecret, mine, provider[pass.key])
    BY <1>1 DEF Bound, NewSecret
  <2>3. Known("AddFinalizer", pass.obj, mine, provider[pass.key]) /\ "AddFinalizer" \in Calls
    BY DEF Known, Deleting, Calls
  <2>4. cloud' = [cloud EXCEPT ![pass.key] = mine] /\ mine \in Cloud
    BY <1>1, PassOK DEF mine, TypeOK
  <2> QED
    BY <1>1, <1>3, <2>1, <2>2, <2>3, <2>4, PassStep
<1> QED
  BY <1>2, <1>3 DEF UpsertSecret

(* The finalizer is put on, or is on already.                              *)
LEMMA AddFinalizerInv == ASSUME ObjectInv, AddFinalizer PROVE ObjectInv'
<1>1. /\ TypeOK /\ Running /\ RuntimeOK(Calls, Gitea, {Nothing}) /\ Agree
      /\ Marked \subseteq asked /\ Absent \notin Gitea
      /\ UNCHANGED <<cloud, secret, pods, seen, db, provider, asked, born, ops, faults>>
      /\ faults' \in Nat /\ pods' \in [Keys -> Hosts \cup {None}]
  BY AtRuns, ObjectConstants DEF AddFinalizer, Calls, ObjectInv, OnlyStore, OnlyPass, budget,
     TypeOK
<1>2. "deletion" \in Calls /\ \A o, c, t : Known("deletion", o, c, t)
  BY DEF Known, Deleting, Calls
<1>3. CASE Goto("deletion") /\ UNCHANGED store
  BY <1>1, <1>2, <1>3, LocalStep
<1>4. CASE Update([pass.obj EXCEPT !.fin = TRUE], "deletion")
  <2> DEFINE o == [pass.obj EXCEPT !.fin = TRUE]
  <2>1. o \in Gitea /\ o.del = pass.obj.del
    BY <1>1, PassOK DEF Gitea
  <2>2. Update(o, "deletion")
    BY <1>4
  <2> HIDE DEF o
  <2>3. RuntimeOK(Calls, Gitea, {Nothing})' /\ Agree' /\ Marked' \subseteq asked'
    BY <1>1, <1>2, <2>1, <2>2, UpdateOK, UpdateCopies
  <2>4. PassInv'
    <3>1. CASE pass' = [pass EXCEPT !.at = "deletion", !.obj = o]
      BY <1>1, <1>2, <3>1, PassOK DEF PassInv, Pass
    <3>2. CASE Retry
      BY <3>2 DEF PassInv, Running, Retry
    <3> QED
      BY <2>2, <3>1, <3>2 DEF Update
  <2> QED
    BY <1>1, <2>3, <2>4 DEF ObjectInv, TypeOK, GCSBound
<1> QED
  BY <1>3, <1>4 DEF AddFinalizer

(* The calls of deleteObject before the account.                           *)
LEMMA DetachInv == ASSUME ObjectInv, DetachUserPolicy \/ DeletePolicy PROVE ObjectInv'
<1>1. TypeOK /\ Running /\ pass.obj.del /\ pass.obj.fin
  BY AtRuns DEF DetachUserPolicy, DeletePolicy, At, Calls, ObjectInv, PassInv, Known, Deleting
<1> DEFINE c == [mine EXCEPT !.attached = FALSE]
           d == [mine EXCEPT !.policy = None]
<1>2. /\ c \in Cloud /\ c.bound = mine.bound /\ c.account = mine.account /\ c.missed = mine.missed
      /\ d \in Cloud /\ d.bound = mine.bound /\ d.account = mine.account /\ d.missed = mine.missed
  BY <1>1, PassOK, MineFields DEF Cloud
<1>3. /\ \A x : Known("DeletePolicy", pass.obj, x, provider[pass.key])
      /\ \A x : Known("DeleteAccessKey", pass.obj, x, provider[pass.key])
      /\ "DeletePolicy" \in Calls /\ "DeleteAccessKey" \in Calls
  BY <1>1 DEF Known, Deleting, Calls
<1> HIDE DEF c, d
<1>4. CASE DetachUserPolicy
  BY <1>1, <1>2, <1>3, <1>4, CloudStep DEF DetachUserPolicy, c
<1>5. CASE DeletePolicy
  BY <1>1, <1>2, <1>3, <1>5, CloudStep DEF DeletePolicy, d
<1> QED
  BY <1>4, <1>5

LEMMA RevokeOK ==
  ASSUME TypeOK, Running, Revoke
  PROVE \E s \in Secret \cup {None} :
          /\ secret' = [secret EXCEPT ![pass.key] = s]
          /\ s # None => ~s.works
<1> DEFINE s == IF secret[pass.key] = None THEN None
                ELSE [secret[pass.key] EXCEPT !.works = FALSE]
<1>1. s \in Secret \cup {None} /\ (s # None => ~s.works)
  BY PassOK DEF Secret
<1>2. secret' = [secret EXCEPT ![pass.key] = s]
  BY DEF Revoke
<1> QED
  BY <1>1, <1>2

LEMMA RevokedInv ==
  ASSUME ObjectInv, Revoke,
         DeleteAccessKey \/ (DeleteUser /\ (S3 \/ mine.listed))
  PROVE ObjectInv'
<1>1. /\ TypeOK /\ Running /\ pass.obj.del /\ pass.obj.fin
      /\ UNCHANGED <<store, seen, db, provider, asked, born, ops, pods>>
      /\ faults' \in Nat /\ pods' \in [Keys -> Hosts \cup {None}]
  BY AtRuns DEF DeleteAccessKey, DeleteUser, At, Calls, ObjectInv, PassInv, Known, Deleting,
     OnlyPass, budget, TypeOK
<1>2. PICK s \in Secret \cup {None} : /\ secret' = [secret EXCEPT ![pass.key] = s]
                                      /\ s # None => ~s.works
  BY <1>1, RevokeOK
<1>3. \A c : Bound(s, c, provider[pass.key])
  BY <1>2 DEF Bound
<1> DEFINE c == [mine EXCEPT !.keys = 0]
           d == [mine EXCEPT !.account = FALSE, !.listed = FALSE, !.bound = {}]
<1>4. c \in Cloud /\ d \in Cloud /\ ~d.account
  <2>1. 0 \in 0 .. KeyLimit
    BY ObjectConstants
  <2>2. c \in Cloud
    BY <1>1, <2>1, PassOK DEF Cloud
  <2>3. d \in Cloud /\ ~d.account
    BY <1>1, PassOK DEF Cloud
  <2> QED
    BY <2>2, <2>3
<1>5. /\ Known("DeleteUser", pass.obj, c, provider[pass.key]) /\ "DeleteUser" \in Calls
      /\ Known("DeleteObjects", pass.obj, d, provider[pass.key]) /\ "DeleteObjects" \in Calls
  BY <1>1, <1>4 DEF Known, Deleting, Calls
<1> HIDE DEF c, d
<1>6. CASE DeleteAccessKey
  <2>1. cloud' = [cloud EXCEPT ![pass.key] = c] /\ Goto("DeleteUser")
    BY <1>6 DEF DeleteAccessKey, Cloudwise, c
  <2> QED
    BY <1>1, <1>2, <1>3, <1>4, <1>5, <2>1, PassStep
<1>7. CASE DeleteUser /\ (S3 \/ mine.listed)
  <2>1. cloud' = [cloud EXCEPT ![pass.key] = d] /\ Goto("DeleteObjects")
    BY <1>7 DEF DeleteUser, Cloudwise, d
  <2> QED
    BY <1>1, <1>2, <1>3, <1>4, <1>5, <2>1, PassStep
<1> QED
  BY <1>6, <1>7

(* The account is not on the page: it is missed, or there is none.         *)
LEMMA MissedInv == ASSUME ObjectInv, DeleteUser, ~(S3 \/ mine.listed) PROVE ObjectInv'
<1>1. /\ TypeOK /\ Running /\ pass.obj.del /\ pass.obj.fin
      /\ UNCHANGED <<store, seen, db, provider, asked, born, ops, pods, secret>>
      /\ faults' \in Nat /\ pods' \in [Keys -> Hosts \cup {None}]
      /\ pass.key \in Keys /\ secret[pass.key] \in Secret \cup {None}
      /\ secret' = [secret EXCEPT ![pass.key] = secret[pass.key]]
  BY AtRuns, PassOK DEF DeleteUser, At, Calls, ObjectInv, PassInv, Known, Deleting, OnlyPass,
     budget, TypeOK
<1> DEFINE c == [mine EXCEPT !.missed = @ \/ mine.account]
<1>2. /\ c \in Cloud /\ c.account = mine.account /\ c.bound = mine.bound
      /\ c.missed = (mine.missed \/ mine.account)
  BY <1>1, PassOK, MineFields DEF Cloud
<1>3. Bound(secret[pass.key], c, provider[pass.key])
  <2>1. Bound(secret[pass.key], mine, provider[pass.key])
    BY <1>1 DEF ObjectInv, GCSBound, mine
  <2> HIDE DEF c
  <2> QED
    BY <1>2, <2>1 DEF Bound
<1>4. Known("DeleteObjects", pass.obj, c, provider[pass.key]) /\ "DeleteObjects" \in Calls
  BY <1>1, <1>2 DEF Known, Deleting, Calls
<1>5. cloud' = [cloud EXCEPT ![pass.key] = c] /\ Goto("DeleteObjects")
  BY DEF DeleteUser, Cloudwise
<1> HIDE DEF c
<1> QED
  BY <1>1, <1>2, <1>3, <1>4, <1>5, PassStep

LEMMA AccountInv == ASSUME ObjectInv, DeleteAccessKey \/ DeleteUser PROVE ObjectInv'
BY RevokedInv, MissedInv DEF DeleteAccessKey, DeleteUser

LEMMA BucketInv == ASSUME ObjectInv, DeleteObjects \/ DeleteBucket PROVE ObjectInv'
<1>1. /\ TypeOK /\ Running /\ pass.obj.del /\ pass.obj.fin
      /\ mine.account => mine.missed
  BY AtRuns DEF DeleteObjects, DeleteBucket, At, Calls, ObjectInv, PassInv, Known, Deleting,
     mine
<1> DEFINE c == [mine EXCEPT !.full = IF S3 THEN @ \ {host} ELSE @]
           d == [mine EXCEPT !.buckets = @ \ {host}, !.bound = @ \ {host}]
<1>2. /\ c \in Cloud /\ c.bound = mine.bound /\ c.account = mine.account /\ c.missed = mine.missed
      /\ d \in Cloud /\ d.account = mine.account /\ d.missed = mine.missed
      /\ host \notin d.buckets
  BY <1>1, PassOK, MineFields DEF Cloud
<1>3. /\ Known("DeleteBucket", pass.obj, c, provider[pass.key]) /\ "DeleteBucket" \in Calls
      /\ Known("RemoveFinalizer", pass.obj, d, provider[pass.key])
      /\ "RemoveFinalizer" \in Calls
  BY <1>1, <1>2 DEF Known, Deleting, Calls, host
<1> HIDE DEF c, d
<1>4. CASE DeleteObjects
  BY <1>1, <1>2, <1>3, <1>4, CloudStep DEF DeleteObjects, c
<1>5. CASE Cloudwise(d) /\ Goto("RemoveFinalizer") /\ OnlyCloud
  <2>1. /\ pass.key \in Keys /\ secret[pass.key] \in Secret \cup {None}
        /\ secret' = [secret EXCEPT ![pass.key] = secret[pass.key]]
        /\ UNCHANGED <<store, seen, db, provider, asked, born, ops, faults, pods>>
        /\ faults' \in Nat /\ pods' \in [Keys -> Hosts \cup {None}]
    BY <1>1, <1>5, PassOK DEF OnlyCloud, OnlyPass, budget, TypeOK
  <2>2. Bound(secret[pass.key], mine, provider[pass.key])
    BY <2>1 DEF ObjectInv, GCSBound, mine
  <2>3. Bound(secret[pass.key], d, provider[pass.key])
    BY <1>1, <1>2, <2>2 DEF Bound
  <2> QED
    BY <1>1, <1>2, <1>3, <1>5, <2>1, <2>3, PassStep DEF Cloudwise
<1>6. CASE Retry /\ UNCHANGED cloud /\ OnlyCloud
  BY <1>1, <1>6, LocalStep DEF OnlyCloud, OnlyPass, budget, TypeOK
<1> QED
  BY <1>4, <1>5, <1>6 DEF DeleteBucket, d

LEMMA RemoveFinalizerInv == ASSUME ObjectInv, RemoveFinalizer PROVE ObjectInv'
<1>1. /\ TypeOK /\ Running /\ RuntimeOK(Calls, Gitea, {Nothing}) /\ Agree
      /\ Marked \subseteq asked /\ Absent \notin Gitea /\ Release
      /\ UNCHANGED <<cloud, secret, pods, seen, db, provider, asked, born, ops, faults>>
  BY AtRuns, ObjectConstants DEF RemoveFinalizer, Calls, ObjectInv, OnlyStore, OnlyPass,
     budget, TypeOK
<1>2. RuntimeOK(Calls, Gitea, {Nothing})' /\ Agree' /\ Marked' \subseteq asked'
  BY <1>1, ReleaseOK, ReleaseCopies
<1>3. PassInv'
  BY <1>1 DEF PassInv, Running, Release, Done, Retry
<1> QED
  BY <1>1, <1>2, <1>3 DEF ObjectInv, TypeOK, GCSBound

-----------------------------------------------------------------------------
(* The runtime, failures, the cluster, and what people do.                 *)

(* The types of what the cluster and people change.                        *)
SurroundingsOK ==
  /\ seen \in [Keys -> Secret \cup {None}] /\ pods \in [Keys -> Hosts \cup {None}]
  /\ db \in BOOLEAN /\ provider \in [Keys -> Providers]
  /\ asked \in SUBSET Keys /\ born \in Nat /\ ops \in Nat /\ faults \in Nat

LEMMA Parts == TypeOK <=> /\ RuntimeOK(Calls, Gitea, {Nothing}) /\ SurroundingsOK
                          /\ cloud \in [Keys -> Cloud]
                          /\ secret \in [Keys -> Secret \cup {None}]
BY DEF TypeOK, SurroundingsOK

LEMMA PartsNext ==
  ASSUME RuntimeOK(Calls, Gitea, {Nothing})', SurroundingsOK', cloud' \in [Keys -> Cloud],
         secret' \in [Keys -> Secret \cup {None}]
  PROVE TypeOK'
  BY DEF TypeOK, SurroundingsOK

(* The cloud and the secrets stay as they are.                             *)
LEMMA RuntimeStep ==
  ASSUME ObjectInv, UNCHANGED <<cloud, secret, provider>>, SurroundingsOK',
         RuntimeOK(Calls, Gitea, {Nothing})', Agree', Marked' \subseteq asked', PassInv'
  PROVE ObjectInv'
<1>1. TypeOK'
  BY Parts, PartsNext DEF ObjectInv
<1> QED
  BY <1>1 DEF ObjectInv, GCSBound

LEMMA SamePass ==
  ASSUME ObjectInv, UNCHANGED <<pass, cloud, provider>>
  PROVE PassInv'
  BY DEF ObjectInv, PassInv, Running

LEMMA RuntimeStepsInv ==
  ASSUME ObjectInv,
         \/ CallFails \/ Restart \/ Resync
         \/ \E k \in Keys : Reconcile(k) \/ Watch(k)
  PROVE ObjectInv'
<1>1. /\ TypeOK /\ RuntimeOK(Calls, Gitea, {Nothing}) /\ Agree /\ Marked \subseteq asked
      /\ SurroundingsOK /\ secret \in [Keys -> Secret \cup {None}]
  BY Parts DEF ObjectInv
<1>2. UNCHANGED <<cloud, secret, provider, asked>> /\ SurroundingsOK'
  BY <1>1 DEF CallFails, Restart, Resync, Reconcile, Watch, Others, OnlyLocal, OnlyCloud,
     OnlyPass, budget, SurroundingsOK
<1>3. CASE CallFails
  BY <1>1, <1>2, <1>3, RuntimeStep, EndOK, KeepCopies
  DEF CallFails, Retry, PassInv, Running, store, RuntimeOK
<1>4. CASE Restart
  BY <1>1, <1>2, <1>4, RuntimeStep, StartAgainOK, StartAgainCopies
  DEF Restart, StartAgain, PassInv, Running
<1>5. CASE Resync
  BY <1>1, <1>2, <1>5, RuntimeStep, RequeueOK, RequeueCopies, SamePass DEF Resync, Requeue
<1>6. ASSUME NEW k \in Keys, Watch(k) PROVE ObjectInv'
  BY <1>1, <1>2, <1>6, RuntimeStep, ObserveOK, ObserveCopies, SamePass DEF Watch, Observe
<1>7. ASSUME NEW k \in Keys, Reconcile(k) PROVE ObjectInv'
  <2>1. Take(k, "pgRunning", Nothing) /\ "pgRunning" \in Calls /\ Nothing \in {Nothing}
    BY <1>7 DEF Reconcile, Calls
  <2>2. RuntimeOK(Calls, Gitea, {Nothing})' /\ Agree' /\ Marked' \subseteq asked'
    BY <1>1, <1>2, <2>1, TakeOK, TakeCopies
  <2>3. PassInv'
    BY <2>1 DEF Take, PassInv, Running, Known, Deleting
  <2> QED
    BY <1>2, <2>2, <2>3, RuntimeStep
<1> QED
  BY <1>3, <1>4, <1>5, <1>6, <1>7

(* The pass and the CRs stay as they are.                                  *)
LEMMA SameRuntime ==
  ASSUME ObjectInv, UNCHANGED <<store, pass, asked>>, queue' \subseteq Keys
  PROVE RuntimeOK(Calls, Gitea, {Nothing})' /\ Agree' /\ Marked' \subseteq asked'
<1>1. RuntimeOK(Calls, Gitea, {Nothing}) /\ Agree /\ Marked \subseteq asked
  BY Parts DEF ObjectInv
<1> QED
  BY <1>1, KeepCopies DEF RuntimeOK, store

LEMMA ClusterInv ==
  ASSUME ObjectInv,
         \/ DatabaseUp \/ DatabaseDown \/ UNCHANGED vars
         \/ \E k \in Keys : WatchSecret(k) \/ CollectPods(k)
  PROVE ObjectInv'
<1>1. /\ SurroundingsOK /\ secret \in [Keys -> Secret \cup {None}] /\ queue \subseteq Keys
  BY Parts DEF ObjectInv, RuntimeOK
<1>2. /\ UNCHANGED <<cloud, secret, provider, asked, store, pass>> /\ queue' \subseteq Keys
  BY <1>1 DEF DatabaseUp, DatabaseDown, vars, WatchSecret, CollectPods, Others, runtime
<1>3. SurroundingsOK'
  <2>1. CASE DatabaseUp \/ UNCHANGED vars
    BY <1>1, <2>1 DEF DatabaseUp, vars, budget, SurroundingsOK
  <2>3. CASE DatabaseDown
    <3>1. ops + 1 \in Nat
      BY <1>1 DEF SurroundingsOK
    <3> QED
      BY <1>1, <2>3, <3>1 DEF DatabaseDown, Operate, SurroundingsOK
  <2>2. ASSUME NEW k \in Keys, WatchSecret(k) \/ CollectPods(k) PROVE SurroundingsOK'
    BY <1>1, <2>2 DEF WatchSecret, CollectPods, Others, budget, SurroundingsOK
  <2> QED
    BY <2>1, <2>2, <2>3
<1> QED
  BY <1>2, <1>3, SameRuntime, SamePass, RuntimeStep

LEMMA CollectInv == ASSUME ObjectInv, NEW k \in Keys, Collect(k) PROVE ObjectInv'
<1>1. /\ UNCHANGED <<cloud, provider, asked, store, pass, queue>>
      /\ secret' = [secret EXCEPT ![k] = None]
      /\ UNCHANGED <<seen, pods, db, born, ops, faults>>
  BY DEF Collect, runtime, budget
<1>2. /\ SurroundingsOK /\ secret \in [Keys -> Secret \cup {None}] /\ queue \subseteq Keys
      /\ cloud \in [Keys -> Cloud]
  BY Parts DEF ObjectInv, RuntimeOK
<1>3. GCSBound'
  BY <1>1, <1>2 DEF ObjectInv, GCSBound, Bound
<1>4. TypeOK'
  BY <1>1, <1>2, SameRuntime, PartsNext DEF SurroundingsOK
<1> QED
  BY <1>1, <1>2, <1>3, <1>4, SameRuntime, SamePass DEF ObjectInv

(* Gitea stores an object, or other accounts come and go: what changes of  *)
(* the cloud of k is neither account, binding nor bucket.                  *)
LEMMA CloudTouched ==
  ASSUME ObjectInv, NEW k \in Keys, NEW c \in Cloud, cloud' = [cloud EXCEPT ![k] = c],
         c.bound = cloud[k].bound, c.account = cloud[k].account,
         c.missed = cloud[k].missed, c.buckets = cloud[k].buckets,
         UNCHANGED <<secret, provider, asked, store, pass, queue>>,
         UNCHANGED <<seen, pods, db, born, faults>>, ops' \in Nat
  PROVE ObjectInv'
<1>2. /\ SurroundingsOK /\ secret \in [Keys -> Secret \cup {None}] /\ queue \subseteq Keys
      /\ cloud \in [Keys -> Cloud] /\ TypeOK
  BY Parts DEF ObjectInv, RuntimeOK
<1>4. /\ cloud' \in [Keys -> Cloud] /\ cloud'[k] = c
      /\ \A j \in Keys \ {k} : cloud'[j] = cloud[j]
  BY <1>2
<1>5. \A j \in Keys : /\ cloud'[j].bound = cloud[j].bound
                      /\ cloud'[j].account = cloud[j].account
                      /\ cloud'[j].missed = cloud[j].missed
                      /\ cloud'[j].buckets = cloud[j].buckets
  BY <1>4
<1>6. GCSBound'
  BY <1>5 DEF ObjectInv, GCSBound, Bound
<1>7. PassInv'
  <2>1. Running => pass.key \in Keys
    BY <1>2, PassOK
  <2> QED
    BY <1>5, <2>1 DEF ObjectInv, PassInv, Running, Known
<1>8. TypeOK'
  BY <1>2, <1>4, SameRuntime, PartsNext DEF SurroundingsOK
<1> QED
  BY <1>2, <1>6, <1>7, <1>8, SameRuntime DEF ObjectInv

LEMMA WriteObjectInv == ASSUME ObjectInv, NEW k \in Keys, WriteObject(k) PROVE ObjectInv'
<1> DEFINE c == [cloud[k] EXCEPT !.full = @ \cup {pods[k]}]
<1>1. /\ UNCHANGED <<secret, provider, asked, store, pass, queue>>
      /\ cloud' = [cloud EXCEPT ![k] = c]
      /\ UNCHANGED <<seen, pods, db, born, ops, faults>>
  BY DEF WriteObject, runtime, budget
<1>2. ops' \in Nat /\ cloud[k] \in Cloud
  BY <1>1 DEF ObjectInv, TypeOK
<1>3. /\ c \in Cloud /\ c.bound = cloud[k].bound /\ c.account = cloud[k].account
      /\ c.missed = cloud[k].missed /\ c.buckets = cloud[k].buckets
  BY <1>2 DEF WriteObject, Cloud
<1> HIDE DEF c
<1> QED
  BY <1>1, <1>2, <1>3, CloudTouched

LEMMA CrowdInv == ASSUME ObjectInv, NEW k \in Keys, Crowd(k) PROVE ObjectInv'
<1> DEFINE c == [cloud[k] EXCEPT !.listed = ~@]
<1>1. /\ UNCHANGED <<secret, provider, asked, store, pass, queue>>
      /\ cloud' = [cloud EXCEPT ![k] = c]
      /\ UNCHANGED <<seen, pods, db, born, faults>>
  BY DEF Crowd, Operate, runtime
<1>2. ops' \in Nat /\ cloud[k] \in Cloud
  BY DEF Crowd, Operate, ObjectInv, TypeOK
<1>3. /\ c \in Cloud /\ c.bound = cloud[k].bound /\ c.account = cloud[k].account
      /\ c.missed = cloud[k].missed /\ c.buckets = cloud[k].buckets
  BY <1>2 DEF Cloud
<1> HIDE DEF c
<1> QED
  BY <1>1, <1>2, <1>3, CloudTouched

(* A CR is made, edited, marked or deleted.                                *)
LEMMA PutInv ==
  ASSUME ObjectInv, NEW k \in Keys, NEW o \in Gitea \cup {Absent}, Put(k, o),
         UNCHANGED <<cloud, secret, provider>>, SurroundingsOK', asked \subseteq asked',
         o # Absent /\ o.del => k \in asked'
  PROVE ObjectInv'
<1>1. /\ TypeOK /\ RuntimeOK(Calls, Gitea, {Nothing}) /\ Agree /\ Marked \subseteq asked
  BY Parts DEF ObjectInv
<1>2. RuntimeOK(Calls, Gitea, {Nothing})' /\ Agree' /\ Marked' \subseteq asked'
  BY <1>1, PutOK, PutCopies
<1>3. PassInv'
  <2>1. CASE Running /\ pass.key = k
    <3>1. /\ pass'.at = pass.at /\ pass'.key = pass.key /\ pass'.obj = pass.obj
      BY <1>1, <2>1, PassOK DEF Put, Pass
    <3> QED
      BY <2>1, <3>1 DEF ObjectInv, PassInv
  <2>2. CASE ~(Running /\ pass.key = k)
    BY <2>2, SamePass DEF Put
  <2> QED
    BY <2>1, <2>2
<1> QED
  BY <1>2, <1>3, RuntimeStep

LEMMA PeopleInv == ASSUME ObjectInv, People PROVE ObjectInv'
<1>1. /\ SurroundingsOK /\ cr \in [Keys -> Gitea \cup {Absent}] /\ Marked \subseteq asked
      /\ born + 1 \in Nat /\ ops + 1 \in Nat /\ Absent \notin Gitea
  BY Parts, ObjectConstants DEF ObjectInv, RuntimeOK, SurroundingsOK
<1>2. ASSUME NEW k \in Keys, NEW h \in Hosts, CreateGitea(k, h) PROVE ObjectInv'
  <2> DEFINE o == [host |-> h, uid |-> born + 1, fin |-> FALSE, del |-> FALSE]
  <2>1. o \in Gitea /\ ~o.del
    BY <1>1 DEF Gitea
  <2>2. Put(k, o)
    BY <1>2 DEF CreateGitea
  <2> HIDE DEF o
  <2>3. SurroundingsOK' /\ UNCHANGED <<cloud, secret, provider, asked>>
    BY <1>1, <1>2 DEF CreateGitea, Operate, SurroundingsOK
  <2> QED
    BY <2>1, <2>2, <2>3, PutInv
<1>3. ASSUME NEW k \in Keys, NEW h \in Hosts, EditHost(k, h) PROVE ObjectInv'
  <2> DEFINE o == [cr[k] EXCEPT !.host = h]
  <2>1. o \in Gitea /\ o.del = cr[k].del
    BY <1>1, <1>3 DEF EditHost, Exists, Gitea
  <2>2. Put(k, o)
    BY <1>3 DEF EditHost
  <2>3. cr[k].del => k \in asked
    BY <1>1, <1>3 DEF EditHost, Exists, Marked
  <2> HIDE DEF o
  <2>4. SurroundingsOK' /\ UNCHANGED <<cloud, secret, provider, asked>>
    BY <1>1, <1>3 DEF EditHost, Others, Operate, SurroundingsOK
  <2> QED
    BY <2>1, <2>2, <2>3, <2>4, PutInv
<1>4. ASSUME NEW k \in Keys, KubectlDelete(k) PROVE ObjectInv'
  <2> DEFINE o == IF cr[k].fin THEN [cr[k] EXCEPT !.del = TRUE] ELSE Absent
  <2>1. o \in Gitea \cup {Absent}
    BY <1>1, <1>4 DEF KubectlDelete, PutDeleted, Exists, Gitea
  <2>2. Put(k, o)
    BY <1>4 DEF KubectlDelete, PutDeleted
  <2> HIDE DEF o
  <2>3. /\ SurroundingsOK' /\ UNCHANGED <<cloud, secret, provider>>
        /\ asked \subseteq asked' /\ k \in asked'
    BY <1>1, <1>4 DEF KubectlDelete, Operate, SurroundingsOK
  <2> QED
    BY <2>1, <2>2, <2>3, PutInv
<1> QED
  BY <1>2, <1>3, <1>4, ClusterInv, CrowdInv DEF People

LEMMA StepInv == ASSUME ObjectInv, Step PROVE ObjectInv'
BY LocalStepsInv, CreateBucketInv, CreateUserInv, CreatePolicyInv, AttachUserPolicyInv,
   SetPolicyInv, CreateKeyInv, UpsertSecretInv, AddFinalizerInv, DetachInv, AccountInv,
   BucketInv, RemoveFinalizerInv
DEF Step

LEMMA NextInv == ASSUME ObjectInv, [Next]_vars PROVE ObjectInv'
BY StepInv, RuntimeStepsInv, ClusterInv, CollectInv, WriteObjectInv, PeopleInv DEF Next

LEMMA InitInv == Init => ObjectInv
<1> SUFFICES ASSUME Init PROVE ObjectInv
  OBVIOUS
<1>1. RuntimeOK(Calls, Gitea, {Nothing}) /\ Agree /\ Marked = {}
  BY RuntimeInitOK, InitCopies DEF Init
<1>2. NoCloud \in Cloud
  BY ObjectConstants DEF NoCloud, Cloud
<1>3. TypeOK
  BY <1>1, <1>2 DEF Init, TypeOK
<1>4. PassInv /\ GCSBound
  BY DEF Init, RuntimeInit, PassInv, Running, GCSBound, Bound
<1> QED
  BY <1>1, <1>3, <1>4 DEF ObjectInv

LEMMA ObjectInvariant == Spec => []ObjectInv
BY InitInv, NextInv, PTL DEF Spec

-----------------------------------------------------------------------------
(* Every step is one of ManagedResource's or changes nothing of what that  *)
(* one sees; and no bucket goes but by DeleteObjects and DeleteBucket.     *)

There == {k \in Keys : Exists(k)}
Held == {k \in Keys : Exists(k) /\ cr[k].fin}
Accounts == {k \in Keys : cloud[k].account /\ ~cloud[k].missed}
Missed == {k \in Keys : cloud[k].missed}
Seen == [Managed!Next]_(Managed!managed)

Stored(k) == cloud[k].buckets \cup cloud[k].full

Last ==
  \A k \in Keys :
    /\ ~(cloud[k].buckets \cup cloud[k].full
           \subseteq cloud'[k].buckets \cup cloud'[k].full) =>
         k \in asked /\ (cloud[k].account => cloud[k].missed)
    /\ Exists(k) /\ cr[k].fin /\ cr'[k] = Absent =>
         cr[k].host \notin cloud[k].buckets

LEMMA ManagedState ==
  /\ Managed!managed = <<There, Held, Accounts, asked, Missed>>
  /\ (Managed!managed)' = <<There', Held', Accounts', asked', Missed'>>
  BY DEF Managed!managed, There, Held, Accounts, Missed

LEMMA QuietSeen ==
  ASSUME There' = There, Held' = Held, Accounts' = Accounts, asked' = asked, Missed' = Missed
  PROVE Seen
  BY ManagedState DEF Seen

(* A step that leaves the CRs alone, and takes nothing from the cloud.     *)
LEMMA Quiet ==
  ASSUME cr' = cr, asked' = asked,
         \A k \in Keys : /\ cloud'[k].account = cloud[k].account
                         /\ cloud'[k].missed = cloud[k].missed
                         /\ Stored(k) \subseteq Stored(k)'
  PROVE Seen /\ Last
<1>1. There' = There /\ Held' = Held /\ Accounts' = Accounts /\ Missed' = Missed
  BY DEF There, Held, Accounts, Missed, Exists
<1>2. Last
  BY Zenon DEF Last, Exists, Stored
<1> QED
  BY <1>1, <1>2, QuietSeen

LEMMA QuietSteps ==
  ASSUME \/ PgRunning \/ ListBuckets \/ GetObjectStorage \/ UpsertSecret \/ Deletion
         \/ InlineConfig \/ CallFails \/ Restart \/ Resync \/ DatabaseUp \/ DatabaseDown
         \/ UNCHANGED vars
         \/ \E k \in Keys : \/ Reconcile(k) \/ Watch(k) \/ WatchSecret(k) \/ Collect(k)
                            \/ CollectPods(k)
  PROVE Seen /\ Last
<1>1. cr' = cr /\ cloud' = cloud /\ asked' = asked
  BY DEF PgRunning, ListBuckets, GetObjectStorage, UpsertSecret, Deletion, InlineConfig,
     CallFails, Restart, StartAgain, Resync, Requeue, DatabaseUp, DatabaseDown, Reconcile,
     Take, Watch, Observe, WatchSecret, Collect, CollectPods, OnlyLocal, OnlyCloud, OnlyPass,
     Others, store, runtime, vars
<1> QED
  BY <1>1, Quiet DEF Stored

(* The pass changes its part of the cloud, takes nothing away that is      *)
(* stored, and leaves account and history.                                 *)
LEMMA Grows ==
  ASSUME TypeOK, NEW k \in Keys, NEW c, cloud' = [cloud EXCEPT ![k] = c],
         cr' = cr, asked' = asked, c.account = cloud[k].account, c.missed = cloud[k].missed,
         cloud[k].buckets \subseteq c.buckets, cloud[k].full \subseteq c.full
  PROVE Seen /\ Last
<1>1. cloud'[k] = c /\ \A j \in Keys \ {k} : cloud'[j] = cloud[j]
  BY DEF TypeOK
<1> QED
  BY <1>1, Quiet DEF Stored

LEMMA GrowingSteps ==
  ASSUME ObjectInv,
         \/ CreateBucket \/ CreatePolicy \/ AttachUserPolicy \/ SetPolicy \/ CreateKey
         \/ DetachUserPolicy \/ DeletePolicy \/ DeleteAccessKey
  PROVE Seen /\ Last
<1>1. /\ TypeOK /\ Running /\ cr' = cr /\ asked' = asked
  BY AtRuns DEF CreateBucket, CreatePolicy, AttachUserPolicy, SetPolicy, CreateKey,
     DetachUserPolicy, DeletePolicy, DeleteAccessKey, Calls, ObjectInv, OnlyCloud, OnlyPass,
     store
<1>2. PICK c : /\ cloud' = [cloud EXCEPT ![pass.key] = c]
               /\ c.account = mine.account /\ c.missed = mine.missed
               /\ mine.buckets \subseteq c.buckets /\ mine.full \subseteq c.full
  <2>1. mine \in Cloud /\ cloud \in [Keys -> Cloud]
    BY <1>1, PassOK DEF TypeOK
  <2> DEFINE Grown(c) == /\ c.account = mine.account /\ c.missed = mine.missed
                         /\ mine.buckets \subseteq c.buckets /\ mine.full \subseteq c.full
  <2>2. /\ Grown(mine) /\ Grown([mine EXCEPT !.buckets = @ \cup {host}])
        /\ Grown([mine EXCEPT !.policy = host]) /\ Grown([mine EXCEPT !.attached = TRUE])
        /\ Grown([mine EXCEPT !.bound = @ \cup {host}])
        /\ Grown([mine EXCEPT !.keys = IF S3 THEN @ + 1 ELSE @])
        /\ Grown([mine EXCEPT !.attached = FALSE]) /\ Grown([mine EXCEPT !.policy = None])
        /\ Grown([mine EXCEPT !.keys = 0])
    BY <2>1 DEF Cloud
  <2>3. UNCHANGED cloud => cloud' = [cloud EXCEPT ![pass.key] = mine]
    BY <2>1 DEF mine
  <2> HIDE DEF Grown
  <2>4. \E c : cloud' = [cloud EXCEPT ![pass.key] = c] /\ Grown(c)
    BY <2>2, <2>3
    DEF CreateBucket, CreatePolicy, AttachUserPolicy, SetPolicy, CreateKey,
        DetachUserPolicy, DeletePolicy, DeleteAccessKey, Cloudwise
  <2> QED
    BY <2>4 DEF Grown
<1> QED
  BY <1>1, <1>2, PassOK, Grows DEF mine

LEMMA TouchQuiet ==
  ASSUME ObjectInv, NEW k \in Keys, WriteObject(k) \/ Crowd(k) PROVE Seen /\ Last
<1> DEFINE c == [cloud[k] EXCEPT !.full = @ \cup {pods[k]}]
           d == [cloud[k] EXCEPT !.listed = ~@]
<1>1. TypeOK /\ cloud[k] \in Cloud /\ cr' = cr /\ asked' = asked
  BY DEF WriteObject, Crowd, ObjectInv, TypeOK, runtime, store
<1>2. /\ c.account = cloud[k].account /\ c.missed = cloud[k].missed
      /\ cloud[k].buckets \subseteq c.buckets /\ cloud[k].full \subseteq c.full
  BY <1>1 DEF Cloud
<1>3. /\ d.account = cloud[k].account /\ d.missed = cloud[k].missed
      /\ cloud[k].buckets \subseteq d.buckets /\ cloud[k].full \subseteq d.full
  BY <1>1 DEF Cloud
<1>4. cloud' = [cloud EXCEPT ![k] = c] \/ cloud' = [cloud EXCEPT ![k] = d]
  BY DEF WriteObject, Crowd
<1> HIDE DEF c, d
<1> QED
  BY <1>1, <1>2, <1>3, <1>4, Grows

(* The account of the pass's instance changes, and perhaps whether it was  *)
(* missed, to cloud c.                                                     *)
LEMMA AccountChange ==
  ASSUME TypeOK, Running, NEW c \in Cloud, cloud' = [cloud EXCEPT ![pass.key] = c], cr' = cr,
         c.buckets = mine.buckets, c.full = mine.full
  PROVE /\ Last /\ There' = There /\ Held' = Held
        /\ Accounts' = IF c.account /\ ~c.missed THEN Accounts \cup {pass.key}
                       ELSE Accounts \ {pass.key}
        /\ Missed' = IF c.missed THEN Missed \cup {pass.key} ELSE Missed \ {pass.key}
<1>1. pass.key \in Keys /\ cloud \in [Keys -> Cloud]
  BY PassOK DEF TypeOK
<1>2. cloud'[pass.key] = c /\ \A j \in Keys \ {pass.key} : cloud'[j] = cloud[j]
  BY <1>1
<1>3. Last
  BY <1>1, <1>2 DEF Last, Exists, mine
<1>4. There' = There /\ Held' = Held
  BY DEF There, Held, Exists
<1> QED
  BY <1>1, <1>2, <1>3, <1>4 DEF Accounts, Missed

(* An account is made, or found.                                           *)
LEMMA CreateUserManaged == ASSUME ObjectInv, CreateUser PROVE Seen /\ Last
<1>1. /\ TypeOK /\ Running /\ pass.key \in Keys /\ mine \in Cloud /\ cr' = cr
      /\ asked' = asked
  BY AtRuns, PassOK DEF CreateUser, Calls, ObjectInv, OnlyCloud, OnlyPass, store
<1>2. CASE mine.account
  BY <1>1, <1>2, Quiet DEF CreateUser, Stored
<1>3. CASE ~mine.account
  <2>1. PICK l \in BOOLEAN :
          cloud' = [cloud EXCEPT ![pass.key] = [mine EXCEPT !.account = TRUE, !.listed = l]]
    BY <1>3 DEF CreateUser, Cloudwise
  <2> DEFINE c == [mine EXCEPT !.account = TRUE, !.listed = l]
  <2>2. /\ c \in Cloud /\ c.account /\ c.missed = mine.missed
        /\ c.buckets = mine.buckets /\ c.full = mine.full
    BY <1>1 DEF Cloud
  <2> HIDE DEF c
  <2>3. cloud' = [cloud EXCEPT ![pass.key] = c]
    BY <2>1 DEF c
  <2>4. /\ Last /\ There' = There /\ Held' = Held
        /\ Accounts' = IF c.account /\ ~c.missed THEN Accounts \cup {pass.key}
                       ELSE Accounts \ {pass.key}
        /\ Missed' = IF c.missed THEN Missed \cup {pass.key} ELSE Missed \ {pass.key}
    BY <1>1, <2>2, <2>3, AccountChange
  <2>5. Missed' = Missed
    BY <1>1, <2>2, <2>4 DEF Missed, mine
  <2>6. CASE mine.missed
    <3>1. Accounts' = Accounts
      BY <2>2, <2>4, <2>6 DEF Accounts, mine
    <3> QED
      BY <1>1, <2>4, <2>5, <3>1, QuietSeen
  <2>7. CASE ~mine.missed
    <3>1. PICK k \in Keys : k = pass.key
      BY <1>1
    <3>2. Managed!Make(k)
      BY <1>1, <2>2, <2>4, <2>5, <2>7, <3>1
      DEF Managed!Make, There, Held, Accounts, Missed
    <3> QED
      BY <2>4, <3>2 DEF Seen, Managed!Next
  <2> QED
    BY <2>6, <2>7
<1> QED
  BY <1>2, <1>3

(* What a call of deleteObject knows.                                      *)
LEMMA DeletingAsked ==
  ASSUME ObjectInv, Running, pass.at \in Deleting
  PROVE pass.obj.del /\ pass.obj.fin /\ pass.key \in asked
  BY PassOK DEF ObjectInv, PassInv, Known, Marked, Running

LEMMA DeleteUserManaged == ASSUME ObjectInv, DeleteUser PROVE Seen /\ Last
<1>1. /\ TypeOK /\ Running /\ pass.key \in Keys /\ mine \in Cloud /\ cr' = cr
      /\ asked' = asked /\ mine.missed \in BOOLEAN
  BY AtRuns, PassOK, MineFields DEF DeleteUser, Calls, ObjectInv, OnlyPass, store
<1>2. pass.key \in asked
  BY <1>1, DeletingAsked DEF DeleteUser, At, Deleting
<1>3. PICK k \in Keys : k = pass.key
  BY <1>1
<1>4. CASE S3 \/ mine.listed
  <2> DEFINE c == [mine EXCEPT !.account = FALSE, !.listed = FALSE, !.bound = {}]
  <2>1. /\ c \in Cloud /\ ~c.account /\ c.missed = mine.missed
        /\ c.buckets = mine.buckets /\ c.full = mine.full
    BY <1>1 DEF Cloud
  <2>2. cloud' = [cloud EXCEPT ![pass.key] = c]
    BY <1>4 DEF DeleteUser, Cloudwise
  <2> HIDE DEF c
  <2>3. Last /\ There' = There /\ Held' = Held /\ Accounts' = Accounts \ {k}
    BY <1>1, <1>3, <2>1, <2>2, AccountChange
  <2>4. Missed' = Missed
    BY <1>1, <2>1, <2>2, AccountChange DEF Missed, mine
  <2>5. CASE k \in Accounts
    <3>1. Managed!Destroy(k)
      BY <1>1, <1>2, <1>3, <2>3, <2>4, <2>5
      DEF Managed!Destroy, There, Held, Accounts, Missed
    <3> QED
      BY <2>3, <3>1 DEF Seen, Managed!Next
  <2>6. CASE k \notin Accounts
    BY <1>1, <2>3, <2>4, <2>6, QuietSeen
  <2> QED
    BY <2>5, <2>6
<1>5. CASE ~(S3 \/ mine.listed)
  <2> DEFINE c == [mine EXCEPT !.missed = @ \/ mine.account]
  <2>1. /\ c \in Cloud /\ c.account = mine.account
        /\ c.missed = (mine.missed \/ mine.account)
        /\ c.buckets = mine.buckets /\ c.full = mine.full
    BY <1>1 DEF Cloud
  <2>2. cloud' = [cloud EXCEPT ![pass.key] = c]
    BY <1>5 DEF DeleteUser, Cloudwise
  <2> HIDE DEF c
  <2>3. /\ Last /\ There' = There /\ Held' = Held
        /\ Accounts' = IF c.account /\ ~c.missed THEN Accounts \cup {k} ELSE Accounts \ {k}
        /\ Missed' = IF c.missed THEN Missed \cup {k} ELSE Missed \ {k}
    BY <1>1, <1>3, <2>1, <2>2, AccountChange
  <2>4. CASE mine.account
    <3>1. Accounts' = Accounts \ {k} /\ Missed' = Missed \cup {k}
      BY <2>1, <2>3, <2>4
    <3>2. Managed!Lose({k})
      BY <1>1, <2>3, <3>1 DEF Managed!Lose, There, Held, Accounts, Missed
    <3> QED
      BY <1>3, <2>3, <3>2 DEF Seen, Managed!Next
  <2>5. CASE ~mine.account
    <3>1. Accounts' = Accounts /\ Missed' = Missed
      BY <1>1, <1>3, <2>1, <2>3, <2>5 DEF Accounts, Missed, mine
    <3> QED
      BY <1>1, <2>3, <3>1, QuietSeen
  <2> QED
    BY <2>4, <2>5
<1> QED
  BY <1>4, <1>5

(* Objects and bucket go when the account is gone or was missed.           *)
LEMMA BucketManaged == ASSUME ObjectInv, DeleteObjects \/ DeleteBucket PROVE Seen /\ Last
<1>1. /\ TypeOK /\ Running /\ pass.key \in Keys /\ mine \in Cloud /\ cr' = cr
      /\ asked' = asked /\ pass.key \in asked /\ (mine.account => mine.missed)
  BY AtRuns, PassOK, DeletingAsked
  DEF DeleteObjects, DeleteBucket, At, Calls, Deleting, ObjectInv, PassInv, Known, OnlyCloud,
      OnlyPass, store, mine
<1>2. PICK c : /\ cloud' = [cloud EXCEPT ![pass.key] = c]
               /\ c.account = mine.account /\ c.missed = mine.missed
  <2> DEFINE d == [mine EXCEPT !.full = IF S3 THEN @ \ {host} ELSE @]
             e == [mine EXCEPT !.buckets = @ \ {host}, !.bound = @ \ {host}]
  <2>1. /\ d.account = mine.account /\ d.missed = mine.missed
        /\ e.account = mine.account /\ e.missed = mine.missed
    BY <1>1 DEF Cloud
  <2>2. UNCHANGED cloud => cloud' = [cloud EXCEPT ![pass.key] = mine]
    BY <1>1 DEF mine, TypeOK
  <2>3. \/ cloud' = [cloud EXCEPT ![pass.key] = d]
        \/ cloud' = [cloud EXCEPT ![pass.key] = e]
        \/ UNCHANGED cloud
    BY DEF DeleteObjects, DeleteBucket, Cloudwise
  <2> HIDE DEF d, e
  <2> QED
    BY <1>1, <2>1, <2>2, <2>3
<1>3. cloud'[pass.key] = c /\ \A j \in Keys \ {pass.key} : cloud'[j] = cloud[j]
  BY <1>1, <1>2 DEF TypeOK
<1>4. Accounts' = Accounts /\ Missed' = Missed /\ There' = There /\ Held' = Held
  BY <1>1, <1>2, <1>3 DEF Accounts, Missed, There, Held, Exists, mine
<1>5. Last
  BY <1>1, <1>3 DEF Last, Exists, mine
<1> QED
  BY <1>1, <1>4, <1>5, QuietSeen

LEMMA AddFinalizerManaged == ASSUME ObjectInv, AddFinalizer PROVE Seen /\ Last
<1>1. /\ Running /\ Agree /\ RuntimeOK(Calls, Gitea, {Nothing}) /\ pass.key \in Keys
      /\ pass.obj \in Gitea /\ Absent \notin Gitea /\ cloud' = cloud /\ asked' = asked
  BY AtRuns, PassOK, ObjectConstants
  DEF AddFinalizer, Calls, ObjectInv, TypeOK, OnlyStore, OnlyPass
<1>2. Accounts' = Accounts /\ Missed' = Missed
  BY <1>1 DEF Accounts, Missed
<1> DEFINE o == [pass.obj EXCEPT !.fin = TRUE]
<1>3. o \in Gitea /\ o.fin
  BY <1>1 DEF Gitea
<1>4. Write(o) \/ UNCHANGED store
  BY DEF AddFinalizer, Update, Conflict
<1> HIDE DEF o
<1>5. CASE Write(o)
  <2>1. /\ cr[pass.key] = pass.obj /\ cr'[pass.key] = o
        /\ \A k \in Keys \ {pass.key} : cr'[k] = cr[k]
    BY <1>1, <1>5 DEF Write, Agree, Running, RuntimeOK
  <2>2. There' = There /\ Held' = Held \cup {pass.key} /\ pass.key \in There
    BY <1>1, <1>3, <2>1 DEF There, Held, Exists
  <2>3. Last
    BY <1>1, <1>3, <2>1 DEF Last, Exists
  <2>4. PICK k \in Keys : k = pass.key
    BY <1>1
  <2>5. Managed!Hold(k)
    BY <2>4, <1>1, <1>2, <2>2 DEF Managed!Hold, There, Held, Accounts, Missed
  <2> QED
    BY <2>3, <2>5 DEF Seen, Managed!Next
<1>6. CASE UNCHANGED store
  BY <1>1, <1>6, Quiet DEF store, Stored
<1> QED
  BY <1>4, <1>5, <1>6

(* The finalizer goes when account and bucket are gone.                    *)
LEMMA RemoveFinalizerManaged == ASSUME ObjectInv, RemoveFinalizer PROVE Seen /\ Last
<1>1. /\ Running /\ Agree /\ RuntimeOK(Calls, Gitea, {Nothing}) /\ pass.key \in Keys
      /\ pass.obj \in Gitea /\ Absent \notin Gitea /\ cloud' = cloud /\ asked' = asked
      /\ pass.obj.fin /\ pass.key \in asked /\ pass.at = "RemoveFinalizer"
  BY AtRuns, PassOK, DeletingAsked, ObjectConstants
  DEF RemoveFinalizer, At, Deleting, Calls, ObjectInv, TypeOK, OnlyStore, OnlyPass
<1>2. /\ cloud[pass.key].account => cloud[pass.key].missed
      /\ pass.obj.host \notin cloud[pass.key].buckets
  BY <1>1 DEF ObjectInv, PassInv, Known
<1>3. Accounts' = Accounts /\ Missed' = Missed /\ pass.key \notin Accounts
  BY <1>1, <1>2 DEF Accounts, Missed
<1>4. CASE Write(Absent)
  <2>1. /\ cr[pass.key] = pass.obj /\ cr'[pass.key] = Absent
        /\ \A k \in Keys \ {pass.key} : cr'[k] = cr[k]
    BY <1>1, <1>4 DEF Write, Agree, Running, RuntimeOK
  <2>2. /\ There' = There \ {pass.key} /\ Held' = Held \ {pass.key} /\ pass.key \in Held
    BY <1>1, <2>1 DEF There, Held, Exists
  <2>3. Last
    BY <1>1, <1>2, <2>1 DEF Last, Exists
  <2>4. PICK k \in Keys : k = pass.key
    BY <1>1
  <2>5. Managed!Release(k)
    BY <2>4, <1>1, <1>3, <2>2 DEF Managed!Release, There, Held, Accounts, Missed
  <2> QED
    BY <2>3, <2>5 DEF Seen, Managed!Next
<1>5. CASE Conflict
  BY <1>1, <1>5, Quiet DEF Conflict, store, Stored
<1> QED
  BY <1>4, <1>5 DEF RemoveFinalizer, Release

LEMMA PeopleManaged == ASSUME ObjectInv, People PROVE Seen /\ Last
<1>1. /\ Absent \notin Gitea /\ cr \in [Keys -> Gitea \cup {Absent}]
  BY ObjectConstants DEF ObjectInv, TypeOK, RuntimeOK
<1>2. ASSUME NEW k \in Keys, KubectlDelete(k) PROVE Seen /\ Last
  <2>1. /\ Exists(k) /\ cr[k] \in Gitea /\ asked' = asked \cup {k}
        /\ \A j \in Keys \ {k} : cr'[j] = cr[j]
        /\ cr'[k] = IF cr[k].fin THEN [cr[k] EXCEPT !.del = TRUE] ELSE Absent
        /\ cloud' = cloud
    BY <1>1, <1>2 DEF KubectlDelete, PutDeleted, Put, Exists
  <2>2. cr[k].fin => cr'[k] \in Gitea /\ cr'[k].fin
    BY <2>1 DEF Gitea
  <2>3. /\ There' = (IF k \in Held THEN There ELSE There \ {k})
        /\ Held' = Held /\ k \in There /\ Accounts' = Accounts /\ Missed' = Missed
    BY <1>1, <2>1, <2>2 DEF There, Held, Exists, Accounts, Missed
  <2>4. Last
    BY <1>1, <2>1, <2>2 DEF Last, Exists
  <2>5. Managed!Ask(k)
    BY <2>1, <2>3 DEF Managed!Ask, There, Held, Accounts, Missed
  <2> QED
    BY <2>4, <2>5 DEF Seen, Managed!Next
<1>3. ASSUME NEW k \in Keys, NEW h \in Hosts, CreateGitea(k, h) PROVE Seen /\ Last
  <2> DEFINE o == [host |-> h, uid |-> born', fin |-> FALSE, del |-> FALSE]
  <2>1. ~o.fin /\ o # Absent
    <3>1. born' \in Nat
      BY <1>3 DEF CreateGitea, ObjectInv, TypeOK
    <3>2. o \in Gitea
      BY <3>1 DEF Gitea
    <3>3. ~o.fin
      OBVIOUS
    <3> HIDE DEF o
    <3> QED
      BY <1>1, <3>2, <3>3
  <2>2. Put(k, o) /\ ~Exists(k) /\ cloud' = cloud /\ asked' = asked
    BY <1>3 DEF CreateGitea
  <2> HIDE DEF o
  <2>3. cr'[k] = o /\ \A j \in Keys \ {k} : cr'[j] = cr[j]
    BY <1>1, <2>2 DEF Put
  <2>4. /\ There' = There \cup {k} /\ Held' = Held /\ k \notin There
        /\ Accounts' = Accounts /\ Missed' = Missed
    BY <2>1, <2>2, <2>3 DEF There, Held, Exists, Accounts, Missed
  <2>5. Last
    BY <2>1, <2>2, <2>3 DEF Last, Exists
  <2>6. Managed!Declare(k)
    BY <2>2, <2>4 DEF Managed!Declare, There, Held, Accounts, Missed
  <2> QED
    BY <2>5, <2>6 DEF Seen, Managed!Next
<1>4. ASSUME NEW k \in Keys, NEW h \in Hosts, EditHost(k, h) PROVE Seen /\ Last
  <2> DEFINE o == [cr[k] EXCEPT !.host = h]
  <2>1. o \in Gitea /\ o.fin = cr[k].fin
    BY <1>1, <1>4 DEF EditHost, Exists, Gitea
  <2>2. Put(k, o) /\ Exists(k) /\ cloud' = cloud /\ asked' = asked
    BY <1>4 DEF EditHost, Others
  <2> HIDE DEF o
  <2>3. cr'[k] = o /\ \A j \in Keys \ {k} : cr'[j] = cr[j]
    BY <1>1, <2>2 DEF Put
  <2>4. There' = There /\ Held' = Held /\ Accounts' = Accounts /\ Missed' = Missed
    BY <1>1, <2>1, <2>2, <2>3 DEF There, Held, Exists, Accounts, Missed
  <2>5. Last
    BY <1>1, <2>1, <2>2, <2>3 DEF Last, Exists
  <2> QED
    BY <2>2, <2>4, <2>5, QuietSeen
<1> QED
  BY <1>2, <1>3, <1>4, QuietSteps, TouchQuiet DEF People

LEMMA NextManaged == ASSUME ObjectInv, [Next]_vars PROVE Seen /\ Last
<1>1. CASE Step
  BY <1>1, QuietSteps, GrowingSteps, CreateUserManaged, DeleteUserManaged, BucketManaged,
     AddFinalizerManaged, RemoveFinalizerManaged
  DEF Step
<1>2. ASSUME NEW k \in Keys,
             \/ Reconcile(k) \/ Watch(k) \/ WatchSecret(k)
             \/ Collect(k) \/ CollectPods(k) \/ WriteObject(k)
      PROVE Seen /\ Last
  BY <1>2, QuietSteps, TouchQuiet
<1> QED
  BY <1>1, <1>2, QuietSteps, PeopleManaged DEF Next

-----------------------------------------------------------------------------
(* The theorems.                                                           *)

(* Type correctness of the object storage's state.                         *)
THEOREM ObjectTypes == Spec => []TypeOK
BY ObjectInvariant, PTL DEF ObjectInv

(* On GCS a key in a secret opens the bucket it was made for.              *)
THEOREM ObjectKeysOpenGCS == Spec => []KeysOpenGCS
BY ObjectInvariant, GCSOpens, PTL DEF ObjectInv

(* The account of an instance goes before the finalizer, and only when     *)
(* somebody asked; on GCS, if the deletion finds it on its page.           *)
THEOREM ObjectImplementsManaged == Spec => ImplementsManaged
<1>1. Init => Managed!Init
  BY DEF Init, RuntimeInit, Managed!Init, Exists, NoCloud
<1>2. ObjectInv /\ [Next]_vars => [Managed!Next]_(Managed!managed)
  BY NextManaged DEF Seen
<1> QED
  BY <1>1, <1>2, ObjectInvariant, PTL DEF Spec, ImplementsManaged, Managed!Spec

(* Objects and buckets go last, and only of an instance somebody asked to  *)
(* delete, behind an account that is gone or, on GCS, was missed; no       *)
(* finalizer goes before the bucket.                                       *)
THEOREM ObjectBucketsDeletedLast == Spec => BucketsDeletedLast
<1>1. ObjectInv /\ [Next]_vars => [Last]_vars
  BY NextManaged
<1> QED
  BY <1>1, ObjectInvariant, PTL DEF Spec, BucketsDeletedLast, Last

=============================================================================
