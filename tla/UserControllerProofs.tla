------------------------ MODULE UserControllerProofs ------------------------
(***************************************************************************)
(* Proofs about UserController: type correctness, what the finalizer       *)
(* guards, that status.provisioned tells the truth, and the refinement of  *)
(* ManagedResource, for every set of names, specs and keys and any number  *)
(* of failures and restarts.                                               *)
(***************************************************************************)
EXTENDS UserController, TLAPS

(* The changes made to a User CR give a User CR and touch one field each.  *)
LEMMA UserMade ==
  ASSUME NEW s \in UserSpec
  PROVE /\ NewUser(s) \in User
        /\ ~NewUser(s).fin /\ ~NewUser(s).del /\ ~NewUser(s).prov
  BY DEF User, NewUser

(* The changes made to a CR give a CR.                                     *)
LEMMA UserUpdates ==
  ASSUME NEW u \in User
  PROVE /\ Provisioned(u) \in User
        /\ Provisioned(u).del = u.del
        /\ WithFinalizer(u) \in User
        /\ WithFinalizer(u).del = u.del /\ WithFinalizer(u).prov = u.prov
        /\ Marked(u) \in User
        /\ Marked(u).del /\ Marked(u).prov = u.prov
  BY DEF User, Provisioned, WithFinalizer, Marked

(* An edit of the spec leaves deletion and status alone.                   *)
LEMMA SpecUpdate ==
  ASSUME NEW u \in User, NEW s \in UserSpec
  PROVE /\ WithSpec(u, s) \in User
        /\ WithSpec(u, s).del = u.del /\ WithSpec(u, s).prov = u.prov
  BY DEF User, WithSpec

(* The changes made to an account give an account, and keep whom it is of. *)
LEMMA NewAccountOK ==
  ASSUME NEW p \in Profiles, NEW keys \in SUBSET SSHKeys, NEW by \in Keys \cup {NoKey}
  PROVE /\ NewAccount(p, keys, by) \in Account
        /\ NewAccount(p, keys, by).by = by
  BY DEF Account, NewAccount

(* Changing the keys of an account keeps whom it is of.                    *)
LEMMA KeysUpdate ==
  ASSUME NEW a \in Account, NEW keys \in SUBSET SSHKeys
  PROVE WithKeys(a, keys) \in Account /\ WithKeys(a, keys).by = a.by
  BY DEF Account, WithKeys

(* Editing an account keeps whom it is of.                                 *)
LEMMA EditUpdate ==
  ASSUME NEW a \in Account, NEW s \in UserSpec
  PROVE Edit(a, s) \in Account /\ Edit(a, s).by = a.by
  BY DEF Account, UserSpec, Edit

(* The fields of the spec of a CR.                                         *)
LEMMA SpecOfUser == \A u \in User : /\ u.spec \in UserSpec
                                  /\ u.spec.keys \in SUBSET SSHKeys
                                  /\ u.spec.profile \in Profiles
  BY DEF User, UserSpec

(* The name in a key is a name.                                            *)
LEMMA NameOfKey == \A k \in Keys : NameOf(k) \in Names
  BY DEF Keys, NameOf

(* Between two passes the worker's variables are of their types.           *)
LEMMA RestOK == Rest => PassOK'
  BY DEF Rest, PassOK, AfterKeys

(* A pass ends, or moves on to its next call, within the types.            *)
LEMMA EndOK ==
  ASSUME PassOK, ClusterOK, NEW again \in BOOLEAN, EndPass(again), pc # "idle"
  PROVE PassOK' /\ queue' \subseteq Keys
  BY RestOK DEF EndPass, ClusterOK, PassOK

(* The next call of a pass, within the types.                              *)
LEMMA GotoOK ==
  ASSUME PassOK, ClusterOK, NEW call \in Calls, Goto(call), pc # "idle",
         obj' \in User, objFresh' \in BOOLEAN
  PROVE PassOK' /\ queue' \subseteq Keys
  BY DEF Goto, ClusterOK, PassOK

(* Every step keeps the types.                                             *)
LEMMA TypeStep == TypeOK /\ [Next]_vars => TypeOK'
<1> SUFFICES ASSUME TypeOK, [Next]_vars PROVE TypeOK'
  OBVIOUS
<1> USE UserConstants DEF TypeOK
<1>1. ASSUME NEW k \in Keys, Reconcile(k) PROVE TypeOK'
  <2>1. PassOK'
    <3>1. CASE cache[k] = Absent
      BY <1>1, <3>1 DEF Reconcile, local, PassOK
    <3>2. CASE cache[k] # Absent
      <4>1. cache[k] \in User
        BY <3>2 DEF ClusterOK
      <4> QED
        BY <1>1, <3>2, <4>1 DEF Reconcile, PassOK, Calls
    <3> QED
      BY <3>1, <3>2
  <2> QED
    BY <1>1, <2>1 DEF Reconcile, OnlyLocal, OnlyPass, store, budget, ClusterOK,
       GiteaOK, HistoryOK
<1>2. CASE Build
  <2>1. pc # "idle" /\ PassOK' /\ queue' \subseteq Keys
    BY <1>2, EndOK, GotoOK DEF Build, PassOK, Retry, Finish, Calls
  <2> QED
    BY <1>2, <2>1 DEF ClusterOK, GiteaOK, HistoryOK, Build, OnlyLocal, OnlyPass,
       store, budget
<1>3. CASE DeleteUser
  <2>1. pc # "idle" /\ PassOK' /\ queue' \subseteq Keys
    BY <1>3, EndOK, GotoOK DEF DeleteUser, AskGitea, PassOK, Retry, Calls
  <2> QED
    BY <1>3, <2>1 DEF DeleteUser, Deleted, AskGitea, OnlyGitea, OnlyPass, store,
       budget, ClusterOK, GiteaOK, HistoryOK
<1>4. CASE RemoveFinalizer
  <2>1. pc # "idle" /\ PassOK' /\ queue' \subseteq Keys
    BY <1>4, EndOK DEF RemoveFinalizer, PassOK, Retry, Finish, Calls
  <2> QED
    BY <1>4, <2>1 DEF RemoveFinalizer, OnlyPass, store, budget, ClusterOK, GiteaOK,
       HistoryOK
<1>5. CASE GetUserInfo
  <2>1. PassOK' /\ queue' \subseteq Keys
    BY <1>5, GotoOK DEF GetUserInfo, AskGitea, PassOK, ClusterOK, Calls, AfterKeys
  <2> QED
    BY <1>5, <2>1 DEF GetUserInfo, OnlyLocal, OnlyPass, store, budget, ClusterOK,
       GiteaOK, HistoryOK
<1>6. CASE Password
  <2>1. pc # "idle" /\ PassOK' /\ queue' \subseteq Keys
    BY <1>6, EndOK, GotoOK DEF Password, PassOK, Retry, Calls
  <2> QED
    BY <1>6, <2>1 DEF Password, OnlyLocal, OnlyPass, store, budget, ClusterOK,
       GiteaOK, HistoryOK
<1>7. CASE AdminCreateUser
  <2>1. pc # "idle" /\ PassOK' /\ queue' \subseteq Keys
    BY <1>7, EndOK DEF AdminCreateUser, AskGitea, PassOK, Retry, Calls, ClusterOK,
       AfterKeys
  <2>2. GiteaOK'
    BY <1>7, NewAccountOK, SpecOfUser, NameOfKey
    DEF AdminCreateUser, AskGitea, Created, PassOK, GiteaOK
  <2> QED
    BY <1>7, <2>1, <2>2 DEF AdminCreateUser, OnlyGitea, OnlyPass, store, budget,
       ClusterOK, HistoryOK
<1>8. CASE ListPublicKeys
  <2>1. PassOK' /\ queue' \subseteq Keys
    <3>1. CASE Retry
      BY <1>8, <3>1, EndOK DEF ListPublicKeys, AskGitea, Retry
    <3>2. CASE ~Retry
      <4>1. HasAccount(NameOf(cur)) /\ NameOf(cur) \in Names
        BY <1>8, <3>2, NameOfKey DEF ListPublicKeys, AskGitea, PassOK
      <4>2. accounts[NameOf(cur)].keys \subseteq SSHKeys
        BY <4>1 DEF HasAccount, GiteaOK, Account
      <4>3. \A P \in FirstPages(accounts[NameOf(cur)].keys) : P \subseteq SSHKeys
        BY <4>2 DEF FirstPages
      <4>4. obj.spec.keys \subseteq SSHKeys
        BY <1>8, SpecOfUser DEF ListPublicKeys, AskGitea, PassOK
      <4>5. drop' \subseteq SSHKeys /\ add' \subseteq SSHKeys
        BY <1>8, <3>2, <4>3, <4>4 DEF ListPublicKeys
      <4> QED
        BY <1>8, <3>2, <4>5 DEF ListPublicKeys, AskGitea, PassOK, ClusterOK, Calls
    <3> QED
      BY <3>1, <3>2
  <2> QED
    BY <1>8, <2>1 DEF ListPublicKeys, OnlyLocal, OnlyPass, store, budget, ClusterOK,
       GiteaOK, HistoryOK
<1>9. CASE SyncKeys
  <2>1. PassOK' /\ queue' \subseteq Keys
    BY <1>9 DEF SyncKeys, PassOK, ClusterOK, Calls, AfterKeys
  <2>2. NameOf(cur) \in Names
    BY <1>9, NameOfKey DEF SyncKeys, PassOK
  <2>3. \A keys \in SUBSET SSHKeys :
          HasAccount(NameOf(cur)) =>
            SetKeys(NameOf(cur), keys) \in [Names -> Account \cup {NoAccount}]
    BY <2>2, KeysUpdate DEF SetKeys, HasAccount, GiteaOK
  <2>4. HasAccount(NameOf(cur)) => accounts[NameOf(cur)].keys \subseteq SSHKeys
    BY <2>2 DEF HasAccount, GiteaOK, Account
  <2>5. GiteaOK'
    BY <1>9, <2>3, <2>4 DEF SyncKeys, Attempt, GiteaOK, PassOK
  <2>6. ClusterOK' /\ HistoryOK'
    <3>1. \A outcome : Attempt(outcome) => fails' \in Nat
      BY DEF Attempt, HistoryOK
    <3>2. fails' \in Nat
      BY <1>9, <3>1 DEF SyncKeys, HistoryOK
    <3> QED
      BY <1>9, <2>1, <3>2 DEF SyncKeys, store, ClusterOK, HistoryOK
  <2> QED
    BY <2>1, <2>5, <2>6
<1>10. CASE AdminEditUser
  <2>1. pc # "idle" /\ PassOK' /\ queue' \subseteq Keys
    BY <1>10, EndOK, GotoOK DEF AdminEditUser, AskGitea, PassOK, Retry, Calls
  <2>2. GiteaOK'
    BY <1>10, EditUpdate, SpecOfUser, NameOfKey
    DEF AdminEditUser, AskGitea, HasAccount, Edited, PassOK, GiteaOK
  <2> QED
    BY <1>10, <2>1, <2>2 DEF AdminEditUser, OnlyGitea, OnlyPass, store, budget,
       ClusterOK, HistoryOK
<1>11. CASE UserReady
  <2>1. pc # "idle" /\ cur \in Keys /\ obj \in User
    BY <1>11 DEF UserReady, PassOK
  <2>2. (obj' \in User /\ objFresh' \in BOOLEAN) \/ Retry
    BY <1>11, <2>1, UserUpdates DEF UserReady, UpdateObj, PassOK
  <2>3. PassOK' /\ queue' \subseteq Keys
    BY <1>11, <2>1, <2>2, EndOK, GotoOK DEF UserReady, UpdateObj, Retry, Calls
  <2>4. cr' \in [Keys -> User \cup {Absent}]
    BY <1>11, <2>1, UserUpdates DEF UserReady, UpdateObj, ClusterOK, store
  <2> QED
    BY <1>11, <2>3, <2>4 DEF ClusterOK, GiteaOK, HistoryOK, UserReady, UpdateObj, OnlyPass,
       store, budget
<1>12. CASE AddFinalizer
  <2>1. pc # "idle" /\ cur \in Keys /\ obj \in User
    BY <1>12 DEF AddFinalizer, PassOK
  <2>2. (obj' \in User /\ objFresh' \in BOOLEAN) \/ Retry
    BY <1>12, <2>1, UserUpdates DEF AddFinalizer, UpdateObj, PassOK
  <2>3. PassOK' /\ queue' \subseteq Keys
    BY <1>12, <2>1, <2>2, EndOK, GotoOK DEF AddFinalizer, UpdateObj, Retry, Calls
  <2>4. cr' \in [Keys -> User \cup {Absent}]
    BY <1>12, <2>1, UserUpdates DEF AddFinalizer, UpdateObj, ClusterOK, store
  <2> QED
    BY <1>12, <2>3, <2>4 DEF ClusterOK, GiteaOK, HistoryOK, AddFinalizer, UpdateObj,
       OnlyPass, store, budget
<1>13. CASE ListUsers
  BY <1>13, NameOfKey DEF ListUsers, ClusterOK, GiteaOK, PassOK, HistoryOK, OnlyLocal,
     OnlyPass, store, budget, Calls
<1>14. CASE ListGitUsers
  <2>1. \A a \in Account : Imported(a) \in UserSpec
    BY DEF Imported, Account, UserSpec
  <2>2. \A n \in Page : n \in Names /\ accounts[n] \in Account
    BY DEF Page, HasAccount, GiteaOK
  <2>3. imports' \subseteq Names \X UserSpec
    BY <1>14, <2>1, <2>2 DEF ListGitUsers
  <2> QED
    BY <1>14, <2>3 DEF ClusterOK, GiteaOK, PassOK, HistoryOK, ListGitUsers, AskGitea,
       OnlyLocal, OnlyPass, store, budget, Calls
<1>15. CASE CreateUser
  <2>1. pc # "idle" /\ PassOK' /\ queue' \subseteq Keys
    BY <1>15, EndOK DEF CreateUser, PassOK, ClusterOK, Retry, Finish, Calls, store
  <2>2. cr' \in [Keys -> User \cup {Absent}]
    <3>1. \A i \in imports : NewUser(i[2]) \in User
      BY UserMade DEF PassOK
    <3> QED
      BY <1>15, <3>1 DEF CreateUser, ClusterOK, store
  <2> QED
    BY <1>15, <2>1, <2>2 DEF ClusterOK, GiteaOK, HistoryOK, CreateUser, OnlyPass,
       store, budget
<1>16. CASE Unreachable
  <2>1. PassOK' /\ queue' \subseteq Keys
    BY <1>16, EndOK DEF Unreachable, Retry
  <2> QED
    BY <1>16, <2>1 DEF Unreachable, OnlyLocal, OnlyPass, store, budget, ClusterOK,
       GiteaOK, HistoryOK
<1>17. CASE CallFails
  <2>1. PassOK' /\ queue' \subseteq Keys
    BY <1>17, EndOK DEF CallFails, CallsOut, Retry, Calls
  <2> QED
    BY <1>17, <2>1 DEF CallFails, store, ClusterOK, GiteaOK, HistoryOK
<1>18. CASE ReplyLost
  <2>1. pc # "idle" /\ PassOK' /\ queue' \subseteq Keys
    BY <1>18, EndOK DEF ReplyLost, Retry
  <2>2. GiteaOK'
    BY <1>18, <2>1, NewAccountOK, EditUpdate, SpecOfUser, NameOfKey
    DEF ReplyLost, HasAccount, Deleted, Created, Edited, PassOK, GiteaOK
  <2> QED
    BY <1>18, <2>1, <2>2 DEF ReplyLost, store, ClusterOK, HistoryOK
<1>19. CASE Restart
  <2>1. PassOK'
    BY <1>19, RestOK DEF Restart
  <2> QED
    BY <1>19, <2>1 DEF Restart, ClusterOK, GiteaOK, HistoryOK
<1>20. ASSUME NEW k \in Keys, Watch(k) PROVE TypeOK'
  BY <1>20 DEF Watch, local, budget, ClusterOK, GiteaOK, PassOK, HistoryOK
<1>21. CASE Resync
  BY <1>21 DEF Resync, store, local, budget, ClusterOK, GiteaOK, PassOK, HistoryOK
<1>22. ASSUME NEW k \in Keys, NEW s \in Specs, ApplyUser(k, s) PROVE TypeOK'
  <2>1. cr' \in [Keys -> User \cup {Absent}]
    BY <1>22, UserMade, SpecUpdate DEF ApplyUser, Store, Exists, ClusterOK
  <2>2. ClusterOK' /\ HistoryOK'
    BY <1>22, <2>1 DEF ApplyUser, Operate, Store, OnlyStore, ClusterOK, HistoryOK
  <2>3. GiteaOK' /\ PassOK'
    BY <1>22 DEF ApplyUser, Store, OnlyStore, GiteaOK, PassOK
  <2> QED
    BY <2>2, <2>3
<1>23. ASSUME NEW k \in Keys, KubectlDelete(k) PROVE TypeOK'
  <2>1. cr' \in [Keys -> User \cup {Absent}]
    BY <1>23, UserUpdates, SpecOfUser DEF KubectlDelete, Store, Exists, ClusterOK
  <2>2. ClusterOK' /\ HistoryOK'
    BY <1>23, <2>1 DEF KubectlDelete, Operate, Store, OnlyStore, ClusterOK, HistoryOK
  <2>3. GiteaOK' /\ PassOK'
    BY <1>23 DEF KubectlDelete, Store, OnlyStore, GiteaOK, PassOK
  <2> QED
    BY <2>2, <2>3
<1>24. ASSUME NEW k \in Keys, CreateSecret(k) PROVE TypeOK'
  BY <1>24 DEF CreateSecret, Operate, store, local, ClusterOK, GiteaOK, PassOK,
     HistoryOK
<1>25. ASSUME NEW n \in Names, RemoveByHand(n) PROVE TypeOK'
  BY <1>25 DEF RemoveByHand, Operate, store, local, ClusterOK, GiteaOK, PassOK,
     HistoryOK
<1>26. ASSUME NEW n \in Names, NEW p \in Profiles, NEW keys \in SUBSET SSHKeys,
              Register(n, p, keys)
       PROVE TypeOK'
  <2>1. NewAccount(p, keys, NoKey) \in Account
    BY NewAccountOK
  <2>2. GiteaOK'
    BY <1>26, <2>1 DEF Register, GiteaOK
  <2> QED
    BY <1>26, <2>2 DEF Register, Operate, store, local, ClusterOK, PassOK, HistoryOK
<1>27. CASE InstanceReady
  BY <1>27 DEF InstanceReady, store, local, budget, ClusterOK, GiteaOK, PassOK,
     HistoryOK
<1>28. CASE DeleteInstance
  BY <1>28 DEF DeleteInstance, Operate, store, local, ClusterOK, GiteaOK, PassOK,
     HistoryOK
<1>29. CASE UNCHANGED vars
  BY <1>29 DEF vars, store, local, budget, ClusterOK, GiteaOK, PassOK, HistoryOK
<1> QED
  BY <1>1, <1>2, <1>3, <1>4, <1>5, <1>6, <1>7, <1>8, <1>9, <1>10, <1>11,
     <1>12, <1>13, <1>14, <1>15, <1>16, <1>17, <1>18, <1>19, <1>20, <1>21,
     <1>22, <1>23, <1>24, <1>25, <1>26, <1>27, <1>28, <1>29
  DEF Next, Step, People

(* The initial state is of the types.                                      *)
LEMMA TypeInit == Init => TypeOK
<1> SUFFICES ASSUME Init PROVE TypeOK
  OBVIOUS
<1>1. ClusterOK /\ GiteaOK
  BY DEF Init, ClusterOK, GiteaOK
<1>2. PassOK
  BY DEF Init, AtRest, PassOK, AfterKeys
<1>3. HistoryOK
  BY DEF Init, HistoryOK
<1> QED
  BY <1>1, <1>2, <1>3 DEF TypeOK

(* UserReconciler keeps its variables within their types; while a pass     *)
(* runs it holds a key and the copy of a CR.                               *)
THEOREM TypeCorrect == Spec => []TypeOK
<1>1. TypeOK /\ [Next]_vars => TypeOK'
  BY TypeStep
<1> QED
  BY TypeInit, <1>1, PTL DEF Spec

(***************************************************************************)
(* The finalizer's work.  FinalizerInv is inductive: a copy is fresh only  *)
(* when it equals the stored CR, a deletion in a copy was asked for, and a *)
(* pass that has got to the removal of the finalizer has left no account   *)
(* of the CR behind.                                                       *)
(***************************************************************************)

(* A pass that ends leaves nothing to say of itself.                       *)
LEMMA RestInv ==
  ASSUME Rest
  PROVE /\ PathTaken' /\ ~objFresh' /\ pc' = "idle"
  BY DEF Rest, PathTaken

(* Every step keeps what the finalizer rests on.                           *)
LEMMA FinalizerStep == FinalizerInv /\ [Next]_vars => FinalizerInv'
<1> SUFFICES ASSUME FinalizerInv, [Next]_vars
             PROVE CopiesTrue' /\ DeletionAsked' /\ PathTaken'
  BY TypeStep DEF FinalizerInv
<1> USE UserConstants
<1>0. TypeOK /\ TypeOK' /\ CopiesTrue /\ DeletionAsked /\ PathTaken
  BY TypeStep DEF FinalizerInv
<1>a. /\ pc # "idle" => cur \in Keys /\ obj \in User /\ NameOf(cur) \in Names
      /\ \A k \in Keys : cr[k] \in User \cup {Absent} /\ cache[k] \in User \cup {Absent}
      /\ fresh \subseteq Keys
  BY <1>0, NameOfKey DEF TypeOK, ClusterOK, PassOK
<1>1. ASSUME NEW k \in Keys, Reconcile(k) PROVE CopiesTrue' /\ DeletionAsked' /\ PathTaken'
  <2>1. UNCHANGED <<cr, cache, fresh, asked, accounts>>
    BY <1>1 DEF Reconcile, OnlyLocal, OnlyPass, store
  <2>2. CASE cache[k] = Absent
    BY <1>0, <1>1, <2>1, <2>2 DEF Reconcile, local, CopiesTrue, DeletionAsked, PathTaken, Exists
  <2>3. CASE cache[k] # Absent
    BY <1>0, <1>1, <2>1, <2>3 DEF Reconcile, CopiesTrue, DeletionAsked, PathTaken, Exists
  <2> QED
    BY <2>2, <2>3
<1>2. CASE Build
  BY <1>0, <1>2, RestInv DEF Build, Goto, Retry, Finish, EndPass, OnlyLocal, OnlyPass,
     store, CopiesTrue, DeletionAsked, PathTaken, Exists
<1>3. CASE DeleteUser
  BY <1>0, <1>a, <1>3, RestInv DEF DeleteUser, Deleted, AskGitea, Goto, Retry, EndPass,
     OnlyGitea, OnlyPass, store, CopiesTrue, DeletionAsked, PathTaken, Exists,
     TypeOK, GiteaOK
<1>4. CASE RemoveFinalizer
  <2>1. Rest /\ UNCHANGED <<cache, asked>>
    BY <1>4 DEF RemoveFinalizer, Retry, Finish, EndPass, OnlyPass, store
  <2>2. CASE UNCHANGED store
    BY <1>0, <2>1, <2>2, RestInv DEF store, CopiesTrue, DeletionAsked, Exists
  <2>3. CASE cr' = [cr EXCEPT ![cur] = Absent] /\ fresh' = fresh \ {cur}
    <3>1. \A j \in Keys : cr'[j] = IF j = cur THEN Absent ELSE cr[j]
      BY <1>0, <2>3 DEF TypeOK, ClusterOK
    <3> QED
      BY <1>0, <1>a, <2>1, <2>3, <3>1, RestInv DEF CopiesTrue, DeletionAsked, Exists
  <2> QED
    BY <1>4, <2>2, <2>3 DEF RemoveFinalizer
<1>5. CASE GetUserInfo
  BY <1>0, <1>5 DEF GetUserInfo, AskGitea, Goto, OnlyLocal, OnlyPass, store, CopiesTrue,
     DeletionAsked, PathTaken, Exists
<1>6. CASE Password
  BY <1>0, <1>6, RestInv DEF Password, Goto, Retry, EndPass, OnlyLocal, OnlyPass, store,
     CopiesTrue, DeletionAsked, PathTaken, Exists
<1>7. CASE AdminCreateUser
  BY <1>0, <1>7, RestInv DEF AdminCreateUser, AskGitea, Retry, EndPass, OnlyGitea,
     OnlyPass, store, CopiesTrue, DeletionAsked, PathTaken, Exists
<1>8. CASE ListPublicKeys
  BY <1>0, <1>8, RestInv DEF ListPublicKeys, AskGitea, Retry, EndPass, OnlyLocal,
     OnlyPass, store, CopiesTrue, DeletionAsked, PathTaken, Exists
<1>9. CASE SyncKeys
  <2>1. after \in AfterKeys /\ pc' \in {"syncKeys", after}
    BY <1>0, <1>9 DEF SyncKeys, TypeOK, PassOK
  <2> QED
    BY <1>0, <1>9, <2>1 DEF SyncKeys, AfterKeys, store, CopiesTrue, DeletionAsked,
       PathTaken, Exists
<1>10. CASE AdminEditUser
  BY <1>0, <1>10, RestInv DEF AdminEditUser, AskGitea, Goto, Retry, EndPass, OnlyGitea,
     OnlyPass, store, CopiesTrue, DeletionAsked, PathTaken, Exists
<1>11. ASSUME NEW o \in User, NEW call \in {"addFinalizer", "listUsers"},
              UpdateObj(o, call), o.del = obj.del, ~obj.del, pc # "idle",
              UNCHANGED <<asked, accounts>>
       PROVE CopiesTrue' /\ DeletionAsked' /\ PathTaken'
  <2>1. CASE objFresh
    <3>1. /\ fresh' = fresh \ {cur} /\ obj' = o /\ pc' = call
          /\ UNCHANGED <<cache, cur, objFresh>>
      BY <1>11, <2>1 DEF UpdateObj, Goto
    <3>2. \A j \in Keys : cr'[j] = IF j = cur THEN o ELSE cr[j]
      BY <1>0, <1>11, <2>1 DEF UpdateObj, TypeOK, ClusterOK
    <3> QED
      BY <1>0, <1>a, <1>11, <2>1, <3>1, <3>2 DEF CopiesTrue, DeletionAsked, PathTaken,
         Exists
  <2>2. CASE ~objFresh
    BY <1>0, <1>11, <2>2, RestInv DEF UpdateObj, Retry, EndPass, CopiesTrue,
       DeletionAsked, Exists, store
  <2> QED
    BY <2>1, <2>2
<1>12. CASE UserReady
  <2>1. pc = "userReady" /\ ~obj.del /\ UNCHANGED <<asked, accounts>>
    BY <1>0, <1>12 DEF UserReady, OnlyPass, PathTaken
  <2>2. CASE UpdateObj(Provisioned(obj), "addFinalizer")
    BY <1>11, <1>a, <2>1, <2>2, UserUpdates
  <2>3. CASE Goto("addFinalizer") /\ UNCHANGED <<store, obj, objFresh>>
    BY <1>0, <2>1, <2>3 DEF Goto, store, CopiesTrue, DeletionAsked, PathTaken, Exists
  <2> QED
    BY <1>12, <2>2, <2>3 DEF UserReady
<1>13. CASE AddFinalizer
  <2>1. pc = "addFinalizer" /\ ~obj.del /\ UNCHANGED <<asked, accounts>>
    BY <1>0, <1>13 DEF AddFinalizer, OnlyPass, PathTaken
  <2>2. CASE UpdateObj(WithFinalizer(obj), "listUsers")
    BY <1>11, <1>a, <2>1, <2>2, UserUpdates
  <2>3. CASE Goto("listUsers") /\ UNCHANGED <<store, obj, objFresh>>
    BY <1>0, <2>1, <2>3 DEF Goto, store, CopiesTrue, DeletionAsked, PathTaken, Exists
  <2> QED
    BY <1>13, <2>2, <2>3 DEF AddFinalizer
<1>14. CASE ListUsers \/ ListGitUsers
  BY <1>0, <1>14 DEF ListUsers, ListGitUsers, AskGitea, OnlyLocal, OnlyPass, store,
     CopiesTrue, DeletionAsked, PathTaken, Exists
<1>15. CASE CreateUser
  <2>1. CASE Rest /\ UNCHANGED store
    BY <1>0, <1>15, <2>1, RestInv DEF CreateUser, OnlyPass, store, CopiesTrue,
       DeletionAsked, Exists
  <2>2. ASSUME NEW i \in imports,
               LET k == <<cur[1], i[1]>>
               IN /\ ~Exists(k)
                  /\ cr' = [cr EXCEPT ![k] = NewUser(i[2])]
                  /\ fresh' = fresh \ {k},
               UNCHANGED <<cache, pc, cur, obj, objFresh>>
        PROVE CopiesTrue' /\ DeletionAsked' /\ PathTaken'
    <3> DEFINE k == <<cur[1], i[1]>>
    <3>1. NewUser(i[2]) \in User /\ ~NewUser(i[2]).del
      BY <1>0, UserMade DEF TypeOK, PassOK
    <3>2. objFresh => cur # k
      BY <1>0, <1>a, <2>2 DEF CopiesTrue, Exists
    <3>3. UNCHANGED <<asked, accounts>>
      BY <1>15 DEF CreateUser, OnlyPass
    <3>4. \A j \in Keys : j # k => cr'[j] = cr[j]
      BY <1>0, <2>2 DEF TypeOK, ClusterOK
    <3>5. k \in Keys => cr'[k] = NewUser(i[2])
      BY <1>0, <2>2 DEF TypeOK, ClusterOK
    <3> QED
      BY <1>0, <1>a, <2>2, <3>1, <3>2, <3>3, <3>4, <3>5
      DEF CopiesTrue, DeletionAsked, PathTaken, Exists
  <2> QED
    BY <1>15, <2>1, <2>2 DEF CreateUser, Retry, Finish, EndPass
<1>16. CASE Unreachable
  BY <1>0, <1>16, RestInv DEF Unreachable, Retry, EndPass, OnlyLocal, OnlyPass, store,
     CopiesTrue, DeletionAsked, Exists
<1>17. CASE CallFails
  BY <1>0, <1>17, RestInv DEF CallFails, Retry, EndPass, store, CopiesTrue,
     DeletionAsked, Exists
<1>18. CASE ReplyLost
  BY <1>0, <1>18, RestInv DEF ReplyLost, Retry, EndPass, store, CopiesTrue,
     DeletionAsked, Exists
<1>19. CASE Restart
  BY <1>0, <1>19, RestInv DEF Restart, CopiesTrue, DeletionAsked, Exists
<1>20. ASSUME NEW k \in Keys, Watch(k) PROVE CopiesTrue' /\ DeletionAsked' /\ PathTaken'
  BY <1>0, <1>20 DEF Watch, local, CopiesTrue, DeletionAsked, PathTaken, Exists,
     TypeOK, ClusterOK
<1>21. CASE Resync
  BY <1>0, <1>21 DEF Resync, store, local, CopiesTrue, DeletionAsked, PathTaken, Exists
<1>22. ASSUME NEW k \in Keys, NEW o \in User \cup {Absent}, Store(k, o),
              o # Absent /\ o.del => k \in asked',
              asked \subseteq asked', UNCHANGED <<accounts, pc, cur, obj>>
       PROVE CopiesTrue' /\ DeletionAsked' /\ PathTaken'
  <2>1. \A j \in Keys : cr'[j] = IF j = k THEN o ELSE cr[j]
    BY <1>0, <1>22 DEF Store, TypeOK, ClusterOK
  <2> QED
    BY <1>0, <1>a, <1>22, <2>1 DEF Store, CopiesTrue, DeletionAsked, PathTaken, Exists
<1>23. ASSUME NEW k \in Keys, NEW s \in Specs, ApplyUser(k, s)
       PROVE CopiesTrue' /\ DeletionAsked' /\ PathTaken'
  <2>1. UNCHANGED <<asked, accounts, pc, cur, obj>> /\ s \in UserSpec
    BY <1>23 DEF ApplyUser, OnlyStore
  <2>2. CASE Store(k, NewUser(s))
    BY <1>22, <2>1, <2>2, UserMade
  <2>3. CASE Exists(k) /\ Store(k, WithSpec(cr[k], s))
    BY <1>0, <1>a, <1>22, <2>1, <2>3, SpecUpdate DEF Exists, DeletionAsked
  <2> QED
    BY <1>23, <2>2, <2>3 DEF ApplyUser
<1>24. ASSUME NEW k \in Keys, KubectlDelete(k)
       PROVE CopiesTrue' /\ DeletionAsked' /\ PathTaken'
  <2>1. asked' = asked \cup {k} /\ UNCHANGED <<accounts, pc, cur, obj>> /\ cr[k] \in User
    BY <1>a, <1>24 DEF KubectlDelete, OnlyStore, Exists
  <2>2. CASE Store(k, Absent)
    BY <1>22, <2>1, <2>2
  <2>3. CASE Store(k, Marked(cr[k]))
    BY <1>22, <2>1, <2>3, UserUpdates
  <2> QED
    BY <1>24, <2>2, <2>3 DEF KubectlDelete
<1>25. ASSUME NEW k \in Keys, CreateSecret(k)
       PROVE CopiesTrue' /\ DeletionAsked' /\ PathTaken'
  BY <1>0, <1>25 DEF CreateSecret, store, local, CopiesTrue, DeletionAsked, PathTaken,
     Exists
<1>26. ASSUME NEW n \in Names, RemoveByHand(n)
       PROVE CopiesTrue' /\ DeletionAsked' /\ PathTaken'
  BY <1>0, <1>a, <1>26 DEF RemoveByHand, store, local, CopiesTrue, DeletionAsked, PathTaken,
     Exists, TypeOK, GiteaOK
<1>27. ASSUME NEW n \in Names, NEW p \in Profiles, NEW keys \in SUBSET SSHKeys,
              Register(n, p, keys)
       PROVE CopiesTrue' /\ DeletionAsked' /\ PathTaken'
  <2>1. NewAccount(p, keys, NoKey).by = NoKey
    BY NewAccountOK
  <2>2. pc = "removeFinalizer" => cur # NoKey
    BY <1>a
  <2> QED
    BY <1>0, <1>a, <1>27, <2>1, <2>2 DEF Register, store, local, CopiesTrue, DeletionAsked,
       PathTaken, Exists, TypeOK, GiteaOK
<1>28. CASE InstanceReady
  BY <1>0, <1>28 DEF InstanceReady, store, local, CopiesTrue, DeletionAsked, PathTaken,
     Exists
<1>29. CASE DeleteInstance
  BY <1>0, <1>a, <1>29 DEF DeleteInstance, store, local, CopiesTrue, DeletionAsked, PathTaken,
     Exists
<1>30. CASE UNCHANGED vars
  BY <1>0, <1>30 DEF vars, store, local, CopiesTrue, DeletionAsked, PathTaken, Exists
<1> QED
  BY <1>1, <1>2, <1>3, <1>4, <1>5, <1>6, <1>7, <1>8, <1>9, <1>10, <1>12,
     <1>13, <1>14, <1>15, <1>16, <1>17, <1>18, <1>19, <1>20, <1>21,
     <1>23, <1>24, <1>25, <1>26, <1>27, <1>28, <1>29, <1>30
  DEF Next, Step, People

(* The initial state has no CR and no copy.                                *)
LEMMA FinalizerInit == Init => FinalizerInv
<1> SUFFICES ASSUME Init PROVE FinalizerInv
  OBVIOUS
<1>1. CopiesTrue /\ DeletionAsked /\ PathTaken
  BY DEF Init, AtRest, CopiesTrue, DeletionAsked, PathTaken, Exists
<1> QED
  BY <1>1, TypeInit DEF FinalizerInv

(* What the finalizer rests on holds of every state.                       *)
THEOREM FinalizerInvariant == Spec => []FinalizerInv
  BY FinalizerInit, FinalizerStep, PTL DEF Spec

-----------------------------------------------------------------------------
(* Which steps change the CRs, and which the accounts.                     *)
LEMMA CrChanges ==
  ASSUME [Next]_vars, cr' # cr
  PROVE \/ RemoveFinalizer \/ UserReady \/ AddFinalizer \/ CreateUser
        \/ \E k \in Keys : KubectlDelete(k) \/ \E s \in Specs : ApplyUser(k, s)
<1>1. (\E k \in Keys : Reconcile(k)) => UNCHANGED cr
  BY DEF Reconcile, OnlyLocal, store
<1>2. Build \/ DeleteUser \/ GetUserInfo \/ Password => UNCHANGED cr
  BY DEF Build, DeleteUser, GetUserInfo, Password, OnlyLocal, OnlyGitea, store
<1>3. AdminCreateUser \/ AdminEditUser \/ ListPublicKeys \/ SyncKeys => UNCHANGED cr
  BY DEF AdminCreateUser, AdminEditUser, ListPublicKeys, SyncKeys, OnlyLocal,
     OnlyGitea, store
<1>4. ListUsers \/ ListGitUsers \/ Unreachable \/ CallFails \/ ReplyLost => UNCHANGED cr
  BY DEF ListUsers, ListGitUsers, Unreachable, CallFails, ReplyLost, OnlyLocal, store
<1>5. Restart \/ Resync \/ InstanceReady \/ DeleteInstance => UNCHANGED cr
  BY DEF Restart, Resync, InstanceReady, DeleteInstance, store
<1>6. \A k \in Keys : Watch(k) \/ CreateSecret(k) => UNCHANGED cr
  BY DEF Watch, CreateSecret, store
<1>7. \A n \in Names : RemoveByHand(n) => UNCHANGED cr
  BY DEF RemoveByHand, store
<1>8. \A n \in Names, p \in Profiles, keys \in SUBSET SSHKeys :
        Register(n, p, keys) => UNCHANGED cr
  BY DEF Register, store
<1>9. UNCHANGED vars => UNCHANGED cr
  BY DEF vars, store
<1> QED
  BY <1>1, <1>2, <1>3, <1>4, <1>5, <1>6, <1>7, <1>8, <1>9 DEF Next, Step, People

(* Which steps change the accounts.                                        *)
LEMMA AccountChanges ==
  ASSUME [Next]_vars, accounts' # accounts
  PROVE \/ DeleteUser \/ AdminCreateUser \/ AdminEditUser \/ SyncKeys \/ ReplyLost
        \/ DeleteInstance
        \/ \E n \in Names :
             \/ RemoveByHand(n)
             \/ \E p \in Profiles, keys \in SUBSET SSHKeys : Register(n, p, keys)
<1>1. (\E k \in Keys : Reconcile(k)) => UNCHANGED accounts
  BY DEF Reconcile, OnlyLocal
<1>2. Build \/ RemoveFinalizer \/ GetUserInfo \/ Password => UNCHANGED accounts
  BY DEF Build, RemoveFinalizer, GetUserInfo, Password, OnlyLocal
<1>3. ListPublicKeys \/ UserReady \/ AddFinalizer \/ CreateUser => UNCHANGED accounts
  BY DEF ListPublicKeys, UserReady, AddFinalizer, CreateUser, OnlyLocal
<1>4. ListUsers \/ ListGitUsers \/ Unreachable \/ CallFails => UNCHANGED accounts
  BY DEF ListUsers, ListGitUsers, Unreachable, CallFails, OnlyLocal
<1>5. Restart \/ Resync \/ InstanceReady => UNCHANGED accounts
  BY DEF Restart, Resync, InstanceReady
<1>6. \A k \in Keys : Watch(k) \/ CreateSecret(k) \/ KubectlDelete(k)
        => UNCHANGED accounts
  BY DEF Watch, CreateSecret, KubectlDelete, OnlyStore
<1>7. \A k \in Keys, s \in Specs : ApplyUser(k, s) => UNCHANGED accounts
  BY DEF ApplyUser, OnlyStore
<1>8. UNCHANGED vars => UNCHANGED accounts
  BY DEF vars
<1> QED
  BY <1>1, <1>2, <1>3, <1>4, <1>5, <1>6, <1>7, <1>8 DEF Next, Step, People

(* UserReconciler.Reconcile, deletion branch: a CR leaves with its         *)
(* finalizer only once no account made for it is left in Gitea.            *)
THEOREM FinalizerSafe == Spec => FinalizerGuards
<1>1. FinalizerInv /\ [Next]_vars =>
        [\A k \in Keys :
           Exists(k) /\ cr[k].fin /\ cr'[k] = Absent =>
             accounts'[NameOf(k)] = NoAccount \/ accounts'[NameOf(k)].by # k]_vars
  <2> SUFFICES ASSUME FinalizerInv, [Next]_vars, NEW k \in Keys,
                      Exists(k), cr[k].fin, cr'[k] = Absent
               PROVE accounts'[NameOf(k)] = NoAccount \/ accounts'[NameOf(k)].by # k
    OBVIOUS
  <2> USE UserConstants
  <2>1. cr' # cr /\ cr[k] \in User /\ cr \in [Keys -> User \cup {Absent}]
    BY DEF Exists, FinalizerInv, TypeOK, ClusterOK
  <2>2. CASE RemoveFinalizer
    <3>1. cur = k
      BY <2>1, <2>2 DEF RemoveFinalizer, store
    <3> QED
      BY <2>2, <3>1 DEF RemoveFinalizer, FinalizerInv, PathTaken
  <2>3. CASE UserReady \/ AddFinalizer
    <3>1. obj \in User /\ Provisioned(obj) \in User /\ WithFinalizer(obj) \in User
      BY <2>3, UserUpdates DEF UserReady, AddFinalizer, FinalizerInv, TypeOK, PassOK
    <3> QED
      BY <2>1, <2>3, <3>1 DEF UserReady, AddFinalizer, UpdateObj, store
  <2>4. CASE CreateUser
    <3>1. \A i \in imports : NewUser(i[2]) \in User
      BY UserMade DEF FinalizerInv, TypeOK, PassOK
    <3> QED
      BY <2>1, <2>4, <3>1 DEF CreateUser, store
  <2>5. ASSUME NEW j \in Keys, KubectlDelete(j) PROVE FALSE
    <3>1. cr[j] \in User /\ (~cr[j].fin \/ Marked(cr[j]) \in User)
      BY <2>1, <2>5, UserUpdates DEF KubectlDelete, Exists
    <3> QED
      BY <2>1, <2>5, <3>1 DEF KubectlDelete, Store
  <2>6. ASSUME NEW j \in Keys, NEW s \in Specs, ApplyUser(j, s) PROVE FALSE
    <3>1. NewUser(s) \in User /\ (Exists(j) => WithSpec(cr[j], s) \in User)
      BY <2>1, UserMade, SpecUpdate DEF Exists
    <3> QED
      BY <2>1, <2>6, <3>1 DEF ApplyUser, Store
  <2> QED
    BY <2>1, <2>2, <2>3, <2>4, <2>5, <2>6, CrChanges
<1> QED
  BY FinalizerInvariant, <1>1, PTL DEF Spec, FinalizerGuards

(* An account leaves Gitea in the worker's deletion branch, or by somebody *)
(* else's hand.                                                            *)
LEMMA AccountLeaves ==
  ASSUME FinalizerInv, [Next]_vars, NEW n \in Names,
         HasAccount(n), accounts'[n] = NoAccount
  PROVE \/ n \in lost'
        \/ /\ pc = "deleteUser" /\ n = NameOf(cur) /\ cur \in Keys
           /\ DeleteUser \/ ReplyLost
<1> USE UserConstants
<1>1. accounts' # accounts /\ accounts \in [Names -> Account \cup {NoAccount}]
  BY DEF HasAccount, FinalizerInv, TypeOK, GiteaOK
<1>2. pc # "idle" => cur \in Keys /\ obj \in User
  BY DEF FinalizerInv, TypeOK, PassOK
<1>3. CASE DeleteUser
  BY <1>1, <1>2, <1>3 DEF DeleteUser, AskGitea, Deleted, HasAccount
<1>4. CASE AdminCreateUser
  <2>1. NewAccount(obj.spec.profile, {}, cur) \in Account
    BY <1>2, <1>4, NewAccountOK, SpecOfUser DEF AdminCreateUser, AskGitea
  <2> QED
    BY <1>1, <1>4, <2>1 DEF AdminCreateUser, Created, HasAccount
<1>5. CASE AdminEditUser
  <2>1. HasAccount(NameOf(cur)) => Edit(accounts[NameOf(cur)], obj.spec) \in Account
    BY <1>1, <1>2, <1>5, EditUpdate, SpecOfUser, NameOfKey
    DEF AdminEditUser, AskGitea, HasAccount
  <2> QED
    BY <1>1, <1>5, <2>1 DEF AdminEditUser, Edited, HasAccount
<1>6. CASE SyncKeys
  <2>1. NameOf(cur) \in Names /\ drop \subseteq SSHKeys /\ add \subseteq SSHKeys
    BY <1>2, <1>6, NameOfKey DEF SyncKeys, FinalizerInv, TypeOK, PassOK
  <2>2. HasAccount(NameOf(cur)) =>
          /\ accounts[NameOf(cur)] \in Account
          /\ accounts[NameOf(cur)].keys \in SUBSET SSHKeys
    BY <1>1, <2>1 DEF HasAccount, Account
  <2>3. ASSUME NEW keys \in SUBSET SSHKeys, HasAccount(NameOf(cur)),
               accounts' = SetKeys(NameOf(cur), keys)
        PROVE FALSE
    BY <1>1, <2>2, <2>3, KeysUpdate DEF SetKeys, HasAccount
  <2>4. \A key \in SSHKeys : HasAccount(NameOf(cur)) =>
          /\ accounts[NameOf(cur)].keys \ {key} \in SUBSET SSHKeys
          /\ accounts[NameOf(cur)].keys \cup {key} \in SUBSET SSHKeys
    BY <2>2
  <2> QED
    BY <1>1, <1>6, <2>1, <2>3, <2>4 DEF SyncKeys, Attempt
<1>7. CASE ReplyLost
  <2>1. pc = "AdminCreateUser" => NewAccount(obj.spec.profile, {}, cur) \in Account
    BY <1>2, NewAccountOK, SpecOfUser
  <2>2. pc = "AdminEditUser" /\ HasAccount(NameOf(cur)) =>
          Edit(accounts[NameOf(cur)], obj.spec) \in Account
    BY <1>1, <1>2, EditUpdate, SpecOfUser, NameOfKey DEF HasAccount
  <2> QED
    BY <1>1, <1>2, <1>7, <2>1, <2>2
    DEF ReplyLost, Deleted, Created, Edited, HasAccount
<1>8. CASE DeleteInstance
  BY <1>8 DEF DeleteInstance
<1>9. ASSUME NEW m \in Names, RemoveByHand(m) PROVE n \in lost'
  BY <1>1, <1>9 DEF RemoveByHand, HasAccount
<1>10. ASSUME NEW m \in Names, NEW p \in Profiles, NEW keys \in SUBSET SSHKeys,
              Register(m, p, keys)
       PROVE FALSE
  <2>1. NewAccount(p, keys, NoKey) \in Account
    BY NewAccountOK
  <2> QED
    BY <1>1, <1>10, <2>1 DEF Register, HasAccount
<1> QED
  BY <1>1, <1>3, <1>4, <1>5, <1>6, <1>7, <1>8, <1>9, <1>10, AccountChanges

(* AdminDeleteUser is only ever called for a CR that was deleted, whatever *)
(* the age of the copy the pass works on.                                  *)
THEOREM DeletionsAsked == Spec => DeletesOnlyAsked
<1>1. FinalizerInv /\ [Next]_vars =>
        [\A n \in Names :
           HasAccount(n) /\ accounts'[n] = NoAccount =>
             n \in lost' \/ \E k \in asked : NameOf(k) = n]_vars
  <2> SUFFICES ASSUME FinalizerInv, [Next]_vars, NEW n \in Names,
                      HasAccount(n), accounts'[n] = NoAccount
               PROVE n \in lost' \/ \E k \in asked : NameOf(k) = n
    OBVIOUS
  <2>1. pc = "deleteUser" => cur \in asked
    BY DEF FinalizerInv, PathTaken, DeletionAsked
  <2> QED
    BY <2>1, AccountLeaves
<1> QED
  BY FinalizerInvariant, <1>1, PTL DEF Spec, DeletesOnlyAsked

-----------------------------------------------------------------------------
(***************************************************************************)
(* The truth of status.provisioned.  The status is written for the account *)
(* that the same pass made (AccountMade).  Only a deletion pass takes it   *)
(* away, for a copy that shows the deletion: the stored CR is then deleted *)
(* too, or is a later one whose status nobody has written (StaleCopies).   *)
(***************************************************************************)

(* A step is quiet when it changes no CR and no cached copy, and leaves    *)
(* the pass its copy or ends it.                                           *)
Quiet ==
  /\ UNCHANGED <<cr, cache>>
  /\ Rest \/ (UNCHANGED <<cur, obj, objFresh>> /\ (pc' = "idle" <=> pc = "idle"))

(* The steps that write no CR and move no copy.                            *)
LEMMA QuietSteps ==
  ASSUME TypeOK, [Next]_vars
  PROVE \/ Quiet
        \/ RemoveFinalizer \/ UserReady \/ AddFinalizer \/ CreateUser \/ Restart
        \/ \E k \in Keys : Reconcile(k) \/ Watch(k) \/ KubectlDelete(k)
        \/ \E k \in Keys, s \in Specs : ApplyUser(k, s)
<1> USE DEF Quiet
<1>1. Build \/ Password => Quiet
  BY DEF Build, Password, Goto, Retry, Finish, EndPass, OnlyLocal, store
<1>2. DeleteUser \/ AdminEditUser => Quiet
  BY DEF DeleteUser, AdminEditUser, AskGitea, Goto, Retry, EndPass, OnlyGitea, store
<1>3. GetUserInfo \/ ListPublicKeys => Quiet
  BY DEF GetUserInfo, ListPublicKeys, AskGitea, Goto, Retry, EndPass, OnlyLocal, store
<1>4. AdminCreateUser => Quiet
  BY DEF AdminCreateUser, AskGitea, Retry, EndPass, OnlyGitea, store
<1>5. SyncKeys => Quiet
  <2>1. SyncKeys => pc' \in {"syncKeys", after} /\ after \in AfterKeys
    BY DEF SyncKeys, TypeOK, PassOK
  <2> QED
    BY <2>1 DEF SyncKeys, store, AfterKeys
<1>6. ListUsers \/ ListGitUsers => Quiet
  BY DEF ListUsers, ListGitUsers, AskGitea, OnlyLocal, store
<1>7. Unreachable \/ CallFails \/ ReplyLost => Quiet
  BY DEF Unreachable, CallFails, ReplyLost, Retry, EndPass, OnlyLocal, store
<1>8. Resync \/ InstanceReady \/ DeleteInstance => Quiet
  BY DEF Resync, InstanceReady, DeleteInstance, store, local
<1>9. \A k \in Keys : CreateSecret(k) => Quiet
  BY DEF CreateSecret, store, local
<1>10. \A n \in Names : RemoveByHand(n) => Quiet
  BY DEF RemoveByHand, store, local
<1>11. \A n \in Names, p \in Profiles, keys \in SUBSET SSHKeys :
         Register(n, p, keys) => Quiet
  BY DEF Register, store, local
<1>12. UNCHANGED vars => Quiet
  BY DEF vars, store, local
<1> QED
  BY <1>1, <1>2, <1>3, <1>4, <1>5, <1>6, <1>7, <1>8, <1>9, <1>10, <1>11, <1>12
  DEF Next, Step, People

(* Every step keeps what is known of stale copies.                         *)
LEMMA StaleStep ==
  ASSUME FinalizerInv, StaleCopies, [Next]_vars
  PROVE StaleCopies'
<1> USE UserConstants
<1>1. /\ cr \in [Keys -> User \cup {Absent}] /\ cache \in [Keys -> User \cup {Absent}]
      /\ pc # "idle" => cur \in Keys /\ obj \in User
      /\ objFresh => pc # "idle" /\ cr[cur] = obj
  BY DEF FinalizerInv, TypeOK, ClusterOK, PassOK, CopiesTrue
<1>2. CASE Quiet
  BY <1>2 DEF Quiet, Rest, StaleCopies, Exists
<1>3. CASE RemoveFinalizer
  <2>1. Rest /\ UNCHANGED cache
    BY <1>3 DEF RemoveFinalizer, Retry, Finish, EndPass, store
  <2>2. \A k \in Keys : cr'[k] \in {cr[k], Absent}
    BY <1>1, <1>3 DEF RemoveFinalizer, store
  <2> QED
    BY <2>1, <2>2 DEF Rest, StaleCopies, Exists
<1>4. ASSUME NEW o \in User, o.del = obj.del, ~obj.del, NEW call,
             UpdateObj(o, call), pc # "idle", call # "idle"
      PROVE StaleCopies'
  <2>1. CASE objFresh
    <3>1. UNCHANGED <<cache, cur, objFresh>> /\ obj' = o
      BY <1>4, <2>1 DEF UpdateObj, Goto
    <3>2. \A k \in Keys : cr'[k] = IF k = cur THEN o ELSE cr[k]
      BY <1>1, <1>4, <2>1 DEF UpdateObj
    <3> QED
      BY <1>1, <1>4, <2>1, <3>1, <3>2 DEF StaleCopies, Exists
  <2>2. CASE ~objFresh
    BY <1>4, <2>2 DEF UpdateObj, Retry, EndPass, Rest, store, StaleCopies, Exists
  <2> QED
    BY <2>1, <2>2
<1>5. CASE UserReady \/ AddFinalizer
  <2>1. pc # "idle" /\ ~obj.del
    BY <1>5 DEF UserReady, AddFinalizer, FinalizerInv, PathTaken
  <2>2. CASE \/ UpdateObj(Provisioned(obj), "addFinalizer")
             \/ UpdateObj(WithFinalizer(obj), "listUsers")
    BY <1>1, <1>4, <2>1, <2>2, UserUpdates
  <2>3. CASE UNCHANGED <<store, obj, objFresh>> /\ (Goto("addFinalizer") \/ Goto("listUsers"))
    BY <2>1, <2>3 DEF store, Goto, StaleCopies, Exists
  <2> QED
    BY <1>5, <2>2, <2>3 DEF UserReady, AddFinalizer
<1>6. CASE CreateUser
  <2>1. CASE UNCHANGED store /\ Rest
    BY <2>1 DEF store, Rest, StaleCopies, Exists
  <2>2. ASSUME NEW i \in imports,
               LET k == <<cur[1], i[1]>>
               IN ~Exists(k) /\ cr' = [cr EXCEPT ![k] = NewUser(i[2])],
               UNCHANGED <<cache, pc, cur, obj, objFresh>>
        PROVE StaleCopies'
    <3> DEFINE k == <<cur[1], i[1]>>
    <3>1. ~NewUser(i[2]).prov
      BY UserMade DEF FinalizerInv, TypeOK, PassOK
    <3>2. \A j \in Keys : cr'[j] = IF j = k THEN NewUser(i[2]) ELSE cr[j]
      BY <1>1, <2>2
    <3> QED
      BY <1>1, <2>2, <3>1, <3>2 DEF StaleCopies, Exists
  <2> QED
    BY <1>6, <2>1, <2>2 DEF CreateUser, Retry, Finish, EndPass
<1>7. CASE Restart
  BY <1>7 DEF Restart, Rest, StaleCopies, Exists
<1>8. ASSUME NEW k \in Keys, Reconcile(k) PROVE StaleCopies'
  <2>1. UNCHANGED <<cr, cache>>
    BY <1>8 DEF Reconcile, OnlyLocal, store
  <2>2. CASE cache[k] = Absent
    BY <1>8, <2>1, <2>2 DEF Reconcile, local, StaleCopies, Exists
  <2>3. CASE cache[k] # Absent
    BY <1>8, <2>1, <2>3 DEF Reconcile, StaleCopies, Exists
  <2> QED
    BY <2>2, <2>3
<1>9. ASSUME NEW k \in Keys, Watch(k) PROVE StaleCopies'
  <2>1. \A j \in Keys : cache'[j] = IF j = k THEN cr[j] ELSE cache[j]
    BY <1>1, <1>9 DEF Watch
  <2>2. UNCHANGED <<cr, pc, cur, obj, objFresh>>
    BY <1>9 DEF Watch, local
  <2> QED
    BY <1>1, <2>1, <2>2 DEF StaleCopies, Exists
<1>10. ASSUME NEW k \in Keys, NEW o, Store(k, o), UNCHANGED <<pc, cur, obj>>,
              o # Absent => \/ o.del \/ ~o.prov
                            \/ Exists(k) /\ o.del = cr[k].del /\ o.prov = cr[k].prov
       PROVE StaleCopies'
  <2>1. \A j \in Keys : cr'[j] = IF j = k THEN o ELSE cr[j]
    BY <1>1, <1>10 DEF Store
  <2>2. UNCHANGED cache /\ objFresh' = (objFresh /\ cur # k)
    BY <1>10 DEF Store
  <2> QED
    BY <1>1, <1>10, <2>1, <2>2 DEF StaleCopies, Exists
<1>11. ASSUME NEW k \in Keys, KubectlDelete(k) PROVE StaleCopies'
  <2>1. cr[k] \in User /\ UNCHANGED <<pc, cur, obj>>
    BY <1>1, <1>11 DEF KubectlDelete, Exists, OnlyStore
  <2> QED
    BY <1>10, <1>11, <2>1, UserUpdates DEF KubectlDelete
<1>12. ASSUME NEW k \in Keys, NEW s \in Specs, ApplyUser(k, s) PROVE StaleCopies'
  <2>1. Exists(k) => cr[k] \in User
    BY <1>1 DEF Exists
  <2> QED
    BY <1>10, <1>12, <2>1, UserMade, SpecUpdate DEF ApplyUser, OnlyStore
<1> QED
  BY <1>2, <1>3, <1>5, <1>6, <1>7, <1>8, <1>9, <1>11, <1>12, QuietSteps DEF FinalizerInv

(* Which steps write the history.                                          *)
LEMMA HistoryChanges ==
  ASSUME [Next]_vars, ~(asked' = asked /\ lost' = lost)
  PROVE \/ DeleteInstance \/ \E k \in Keys : KubectlDelete(k)
        \/ \E n \in Names : RemoveByHand(n)
<1> DEFINE Kept == asked' = asked /\ lost' = lost
<1>1. (\E k \in Keys : Reconcile(k) \/ Watch(k)) \/ Resync \/ Restart => Kept
  BY DEF Reconcile, Watch, Resync, Restart, OnlyLocal, OnlyPass
<1>2. Build \/ DeleteUser \/ GetUserInfo \/ Password \/ RemoveFinalizer => Kept
  BY DEF Build, DeleteUser, GetUserInfo, Password, RemoveFinalizer, OnlyLocal, OnlyGitea,
     OnlyPass
<1>3. AdminCreateUser \/ AdminEditUser \/ ListPublicKeys \/ SyncKeys => Kept
  BY DEF AdminCreateUser, AdminEditUser, ListPublicKeys, SyncKeys, OnlyLocal, OnlyGitea,
     OnlyPass
<1>4. UserReady \/ AddFinalizer \/ ListUsers \/ ListGitUsers \/ CreateUser => Kept
  BY DEF UserReady, AddFinalizer, ListUsers, ListGitUsers, CreateUser, OnlyLocal, OnlyPass
<1>5. Unreachable \/ CallFails \/ ReplyLost \/ InstanceReady => Kept
  BY DEF Unreachable, CallFails, ReplyLost, InstanceReady, OnlyLocal, OnlyPass
<1>6. \A k \in Keys : CreateSecret(k) \/ (\E s \in Specs : ApplyUser(k, s)) => Kept
  BY DEF CreateSecret, ApplyUser
<1>7. \A n \in Names, p \in Profiles, keys \in SUBSET SSHKeys : Register(n, p, keys) => Kept
  BY DEF Register
<1>8. UNCHANGED vars => Kept
  BY DEF vars
<1> QED
  BY <1>1, <1>2, <1>3, <1>4, <1>5, <1>6, <1>7, <1>8 DEF Next, Step, People

(* Nobody unasks.                                                          *)
LEMMA AskedGrows ==
  ASSUME [Next]_vars PROVE asked \subseteq asked'
<1>1. DeleteInstance \/ (\E n \in Names : RemoveByHand(n)) => asked' = asked
  BY DEF DeleteInstance, RemoveByHand
<1>2. \A k \in Keys : KubectlDelete(k) => asked' = asked \cup {k}
  BY DEF KubectlDelete
<1> QED
  BY <1>1, <1>2, HistoryChanges

(* Between AdminCreateUser and the status write.                           *)
Making ==
  pc = "userReady" \/ (pc \in {"ListPublicKeys", "syncKeys"} /\ after = "userReady")

(* Accounts that are lost stay so, and a pass is making an account only    *)
(* since it created it.                                                    *)
LEMMA MakingSteps ==
  ASSUME [Next]_vars
  PROVE /\ lost \subseteq lost'
        /\ Making' => /\ cur' = cur
                      /\ Making \/ (pc # "idle" /\ accounts' = Created)
<1> USE DEF Making
<1>1. ASSUME NEW k \in Keys, Reconcile(k)
      PROVE lost \subseteq lost' /\ (Making' => cur' = cur /\ Making)
  BY <1>1 DEF Reconcile, local, OnlyLocal, OnlyPass
<1>2. CASE Build \/ Password
  BY <1>2 DEF Build, Password, Goto, Retry, Finish, EndPass, Rest, OnlyLocal, OnlyPass
<1>3. CASE DeleteUser \/ AdminEditUser
  BY <1>3 DEF DeleteUser, AdminEditUser, AskGitea, Goto, Retry, EndPass, Rest,
     OnlyGitea, OnlyPass
<1>4. CASE GetUserInfo
  BY <1>4 DEF GetUserInfo, AskGitea, Goto, OnlyLocal, OnlyPass
<1>5. CASE ListPublicKeys
  BY <1>5 DEF ListPublicKeys, AskGitea, Retry, EndPass, Rest, OnlyLocal, OnlyPass
<1>6. CASE AdminCreateUser
  BY <1>6 DEF AdminCreateUser, AskGitea, Retry, EndPass, Rest, OnlyGitea, OnlyPass
<1>7. CASE SyncKeys
  BY <1>7 DEF SyncKeys
<1>8. CASE UserReady \/ AddFinalizer
  BY <1>8 DEF UserReady, AddFinalizer, UpdateObj, Goto, Retry, EndPass, Rest, OnlyPass
<1>9. CASE RemoveFinalizer \/ CreateUser
  BY <1>9 DEF RemoveFinalizer, CreateUser, Retry, Finish, EndPass, Rest, OnlyPass
<1>10. CASE ListUsers \/ ListGitUsers
  BY <1>10 DEF ListUsers, ListGitUsers, AskGitea, OnlyLocal, OnlyPass
<1>11. CASE Unreachable \/ CallFails \/ ReplyLost \/ Restart
  BY <1>11 DEF Unreachable, CallFails, ReplyLost, Restart, Retry, EndPass, Rest,
     OnlyLocal, OnlyPass
<1>12. CASE Resync \/ InstanceReady \/ DeleteInstance
  BY <1>12 DEF Resync, InstanceReady, DeleteInstance, local
<1>13. ASSUME NEW k \in Keys, Watch(k) \/ CreateSecret(k) \/ KubectlDelete(k)
       PROVE lost \subseteq lost' /\ (Making' => cur' = cur /\ Making)
  BY <1>13 DEF Watch, CreateSecret, KubectlDelete, OnlyStore, local
<1>14. ASSUME NEW k \in Keys, NEW s \in Specs, ApplyUser(k, s)
       PROVE lost \subseteq lost' /\ (Making' => cur' = cur /\ Making)
  BY <1>14 DEF ApplyUser, OnlyStore
<1>15. ASSUME NEW n \in Names, RemoveByHand(n)
       PROVE lost \subseteq lost' /\ (Making' => cur' = cur /\ Making)
  BY <1>15 DEF RemoveByHand, local
<1>16. ASSUME NEW n \in Names, NEW p \in Profiles, NEW keys \in SUBSET SSHKeys,
              Register(n, p, keys)
       PROVE lost \subseteq lost' /\ (Making' => cur' = cur /\ Making)
  BY <1>16 DEF Register, local
<1>17. CASE UNCHANGED vars
  BY <1>17 DEF vars, local
<1> QED
  BY <1>1, <1>2, <1>3, <1>4, <1>5, <1>6, <1>7, <1>8, <1>9, <1>10, <1>11, <1>12,
     <1>13, <1>14, <1>15, <1>16, <1>17 DEF Next, Step, People

(* Every step keeps the account that status will report.                   *)
LEMMA AccountMadeStep ==
  ASSUME FinalizerInv, AccountMade, [Next]_vars
  PROVE AccountMade'
<1> USE UserConstants
<1> SUFFICES ASSUME Making'
             PROVE \/ HasAccount(NameOf(cur))' \/ NameOf(cur') \in lost'
                   \/ \E j \in asked' : j # cur' /\ NameOf(j) = NameOf(cur')
  BY DEF Making, AccountMade
<1>1. cur' = cur /\ lost \subseteq lost' /\ (Making \/ (pc # "idle" /\ accounts' = Created))
  BY MakingSteps
<1>2. cur \in Keys /\ obj \in User /\ NameOf(cur) \in Names
  BY <1>1, NameOfKey DEF Making, FinalizerInv, TypeOK, PassOK
<1>3. CASE Making
  <2>1. CASE \E j \in asked : j # cur /\ NameOf(j) = NameOf(cur)
    BY <1>1, <2>1, AskedGrows
  <2>2. CASE HasAccount(NameOf(cur)) \/ NameOf(cur) \in lost
    BY <1>1, <1>2, <1>3, <2>2, AccountLeaves DEF Making, HasAccount
  <2> QED
    BY <1>3, <2>1, <2>2 DEF Making, AccountMade
<1>4. CASE accounts' = Created
  <2>1. NewAccount(obj.spec.profile, {}, cur) \in Account
    BY <1>2, NewAccountOK, SpecOfUser
  <2> QED
    BY <1>1, <1>2, <1>4, <2>1 DEF Created, HasAccount, FinalizerInv, TypeOK, GiteaOK
<1> QED
  BY <1>1, <1>3, <1>4

(* A step that makes a CR one that is provisioned and not deleted is the   *)
(* status write of its own pass.                                           *)
LEMMA BecomesProvisioned ==
  ASSUME FinalizerInv, [Next]_vars, NEW k \in Keys,
         Exists(k)', cr'[k].prov, ~cr'[k].del,
         ~(Exists(k) /\ cr[k].prov /\ ~cr[k].del)
  PROVE UserReady /\ k = cur
<1> USE UserConstants
<1>1. /\ cr' # cr /\ cr'[k] # cr[k] /\ cr \in [Keys -> User \cup {Absent}]
      /\ pc # "idle" => obj \in User
      /\ objFresh => cr[cur] = obj
  BY DEF Exists, FinalizerInv, TypeOK, ClusterOK, PassOK, CopiesTrue
<1>2. CASE RemoveFinalizer
  BY <1>1, <1>2 DEF RemoveFinalizer, store, Exists
<1>3. CASE UserReady
  BY <1>1, <1>3 DEF UserReady, UpdateObj, store
<1>4. CASE AddFinalizer
  <2>1. /\ obj \in User /\ WithFinalizer(obj).del = obj.del
        /\ WithFinalizer(obj).prov = obj.prov
    BY <1>1, <1>4, UserUpdates DEF AddFinalizer
  <2>2. cr' # cr => objFresh /\ cr' = [cr EXCEPT ![cur] = WithFinalizer(obj)]
    BY <1>4 DEF AddFinalizer, UpdateObj, store
  <2>3. k = cur /\ cr'[k] = WithFinalizer(obj)
    BY <1>1, <2>2
  <2> QED
    BY <1>1, <2>1, <2>2, <2>3 DEF Exists
<1>5. CASE CreateUser
  <2>1. \A i \in imports : ~NewUser(i[2]).prov
    BY UserMade DEF FinalizerInv, TypeOK, PassOK
  <2> QED
    BY <1>1, <1>5, <2>1 DEF CreateUser, store
<1>6. ASSUME NEW j \in Keys, KubectlDelete(j) PROVE FALSE
  <2>1. cr[j] \in User /\ Marked(cr[j]).del
    BY <1>1, <1>6, UserUpdates DEF KubectlDelete, Exists
  <2> QED
    BY <1>1, <1>6, <2>1 DEF KubectlDelete, Store, Exists
<1>7. ASSUME NEW j \in Keys, NEW s \in Specs, ApplyUser(j, s) PROVE FALSE
  <2>1. /\ ~NewUser(s).prov
        /\ Exists(j) => /\ WithSpec(cr[j], s).del = cr[j].del
                        /\ WithSpec(cr[j], s).prov = cr[j].prov
    BY <1>1, UserMade, SpecUpdate DEF Exists
  <2> QED
    BY <1>1, <1>7, <2>1 DEF ApplyUser, Store, Exists
<1> QED
  BY <1>1, <1>2, <1>3, <1>4, <1>5, <1>6, <1>7, CrChanges

(* Every step keeps status.provisioned true.                               *)
LEMMA ProvisionedStep ==
  ASSUME ProvisionedInv, [Next]_vars PROVE ProvisionedInv'
<1> USE UserConstants DEF ProvisionedInv
<1>1. FinalizerInv' /\ StaleCopies' /\ AccountMade'
  BY FinalizerStep, StaleStep, AccountMadeStep
<1>2. ASSUME NEW k \in Keys, Exists(k)', cr'[k].prov, ~cr'[k].del
      PROVE \/ HasAccount(NameOf(k))' \/ NameOf(k) \in lost'
            \/ \E j \in asked' : j # k /\ NameOf(j) = NameOf(k)
  <2>1. NameOf(k) \in Names /\ lost \subseteq lost' /\ asked \subseteq asked'
    BY NameOfKey, MakingSteps, AskedGrows
  <2>2. CASE Exists(k) /\ cr[k].prov /\ ~cr[k].del
    <3>1. CASE ~HasAccount(NameOf(k))
      BY <2>1, <2>2, <3>1 DEF ProvisionedHasAccount
    <3>2. CASE HasAccount(NameOf(k)) /\ accounts'[NameOf(k)] = NoAccount
      <4>1. CASE NameOf(k) \in lost'
        BY <4>1
      <4>2. CASE pc = "deleteUser" /\ NameOf(k) = NameOf(cur)
        <5>1. obj.del /\ cur \in asked
          BY <4>2 DEF FinalizerInv, PathTaken, DeletionAsked
        <5>2. k # cur
          BY <2>2, <4>2, <5>1 DEF StaleCopies
        <5> QED
          BY <2>1, <4>2, <5>1, <5>2
      <4> QED
        BY <2>1, <3>2, <4>1, <4>2, AccountLeaves
    <3> QED
      BY <3>1, <3>2 DEF HasAccount
  <2>3. CASE ~(Exists(k) /\ cr[k].prov /\ ~cr[k].del)
    <3>1. UserReady /\ k = cur
      BY <1>2, <2>3, BecomesProvisioned
    <3>2. accounts' = accounts /\ pc = "userReady"
      BY <3>1 DEF UserReady
    <3> QED
      BY <2>1, <3>1, <3>2 DEF AccountMade, HasAccount
  <2> QED
    BY <2>2, <2>3
<1> QED
  BY <1>1, <1>2 DEF ProvisionedHasAccount

(* status.provisioned, printed as "Ready", is true of every CR that shows  *)
(* it, in any set of namespaces: the account is there, unless it was taken *)
(* away in Gitea or a CR of the same name in another namespace was deleted.*)
THEOREM ProvisionedTruth == Spec => []ProvisionedHasAccount
<1>1. Init => ProvisionedInv
  <2> SUFFICES ASSUME Init PROVE ProvisionedInv
    OBVIOUS
  <2>1. StaleCopies /\ AccountMade /\ ProvisionedHasAccount
    BY DEF Init, AtRest, StaleCopies, AccountMade, ProvisionedHasAccount, Exists
  <2> QED
    BY <2>1, FinalizerInit DEF ProvisionedInv
<1>2. ProvisionedInv /\ [Next]_vars => ProvisionedInv'
  BY ProvisionedStep
<1>3. ProvisionedInv => ProvisionedHasAccount
  BY DEF ProvisionedInv
<1> QED
  BY <1>1, <1>2, <1>3, PTL DEF Spec

-----------------------------------------------------------------------------
(***************************************************************************)
(* The refinement of ManagedResource: every step is one of that machine's, *)
(* or changes nothing of what it sees.  A CR that goes with the finalizer  *)
(* is released by the worker, one that goes without it was asked to.       *)
(***************************************************************************)
There == {k \in Keys : Exists(k)}
Held == {k \in Keys : Exists(k) /\ cr[k].fin}
Made == {k \in Keys : HasAccount(NameOf(k)) /\ accounts[NameOf(k)].by = k}
Lost == {k \in Keys : NameOf(k) \in lost}
Seen == [Managed!Next]_(Managed!managed)

(* What the machine sees, by the names used here.                          *)
LEMMA ManagedState ==
  /\ Managed!managed = <<There, Held, Made, asked, Lost>>
  /\ (Managed!managed)' = <<There', Held', Made', asked', Lost'>>
  BY DEF Managed!managed, There, Held, Made, Lost

(* The CRs, the accounts and the losses: what is not written stays.        *)
LEMMA SameCRs == cr' = cr => There' = There /\ Held' = Held
  BY DEF There, Held, Exists
LEMMA SameAccounts == accounts' = accounts => Made' = Made
  BY DEF Made, HasAccount
LEMMA SameLost == lost' = lost => Lost' = Lost
  BY DEF Lost

(* A CR is written: it is there, held when it carries the finalizer.       *)
LEMMA StoredCR ==
  ASSUME NEW k \in Keys, cr'[k] # Absent, \A j \in Keys \ {k} : cr'[j] = cr[j]
  PROVE /\ There' = There \cup {k}
        /\ cr'[k].fin => Held' = Held \cup {k}
        /\ ~cr'[k].fin => Held' = Held \ {k}
  BY DEF There, Held, Exists

(* A CR goes, and what held it with it.                                    *)
LEMMA GoneCR ==
  ASSUME cr \in [Keys -> User \cup {Absent}], NEW k \in Keys,
         cr' = [cr EXCEPT ![k] = Absent]
  PROVE There' = There \ {k} /\ Held' = Held \ {k}
<1>1. cr'[k] = Absent /\ \A j \in Keys \ {k} : cr'[j] = cr[j]
  OBVIOUS
<1> QED
  BY <1>1 DEF There, Held, Exists

(* The account of the name n becomes a.                                    *)
LEMMA StoredAccount ==
  ASSUME accounts \in [Names -> Account \cup {NoAccount}], NEW n \in Names, NEW a,
         accounts' = [accounts EXCEPT ![n] = a]
  PROVE \A k \in Keys :
          k \in Made' <=> IF NameOf(k) = n THEN a # NoAccount /\ a.by = k ELSE k \in Made
<1>1. accounts'[n] = a /\ \A m \in Names \ {n} : accounts'[m] = accounts[m]
  OBVIOUS
<1> QED
  BY <1>1, NameOfKey DEF Made, HasAccount

(* The operator makes an account, edits one, deletes one, syncs its keys.  *)
LEMMA WorkerManaged ==
  ASSUME FinalizerInv,
         DeleteUser \/ AdminCreateUser \/ AdminEditUser \/ SyncKeys \/ ReplyLost
  PROVE Seen
<1> USE UserConstants
<1> DEFINE n == NameOf(cur)
<1>1. /\ cur \in Keys /\ obj \in User /\ n \in Names /\ obj.spec \in UserSpec
      /\ accounts \in [Names -> Account \cup {NoAccount}]
      /\ drop \subseteq SSHKeys /\ add \subseteq SSHKeys
  <2>1. pc # "idle"
    BY DEF DeleteUser, AdminCreateUser, AdminEditUser, SyncKeys, ReplyLost, AskGitea
  <2> QED
    BY <2>1, NameOfKey, SpecOfUser DEF FinalizerInv, TypeOK, PassOK, GiteaOK
<1>2. There' = There /\ Held' = Held /\ asked' = asked /\ Lost' = Lost
  BY SameCRs, SameLost DEF DeleteUser, AdminCreateUser, AdminEditUser, SyncKeys, ReplyLost,
     OnlyGitea, OnlyPass, store
<1>3. Made' = Made => Seen
  BY <1>2, ManagedState DEF Seen
<1>4. CASE accounts' = Deleted /\ pc = "deleteUser"
  <2>1. \A k \in Keys : k \in Made' <=> k \in Made /\ NameOf(k) # n
    BY <1>1, <1>4, StoredAccount DEF Deleted
  <2>2. cur \in asked
    BY <1>1, <1>4 DEF FinalizerInv, PathTaken, DeletionAsked
  <2>3. ASSUME NEW k \in Made, NameOf(k) = n PROVE Seen
    <3>1. k \in Keys
      BY DEF Made
    <3>2. \A j \in Made : NameOf(j) = n => j = k
      BY <2>3 DEF Made
    <3>3. Made' = Made \ {k}
      BY <2>1, <2>3, <3>2 DEF Made
    <3>4. {j \in Keys : NameOf(j) = NameOf(k)} \cap asked # {}
      BY <1>1, <2>2, <2>3
    <3>5. Managed!Destroy(k)
      BY <1>2, <3>1, <3>3, <3>4 DEF Managed!Destroy, There, Held, Made, Lost
    <3> QED
      BY <3>1, <3>5 DEF Seen, Managed!Next
  <2>4. CASE ~\E k \in Made : NameOf(k) = n
    <3>1. Made' = Made
      BY <2>1, <2>4 DEF Made
    <3> QED
      BY <1>3, <3>1
  <2> QED
    BY <2>3, <2>4
<1>5. CASE accounts' = Created /\ ~HasAccount(n)
  <2> DEFINE a == NewAccount(obj.spec.profile, {}, cur)
  <2>1. a \in Account /\ a.by = cur /\ NoAccount \notin Account
    BY <1>1, NewAccountOK, SpecOfUser DEF NewAccount
  <2>2. accounts' = [accounts EXCEPT ![n] = a]
    BY <1>5 DEF Created
  <2> HIDE DEF a
  <2>3. \A k \in Keys : k \in Made' <=> k \in Made \/ k = cur
    <3>1. \A k \in Keys : NameOf(k) = n => k \notin Made
      BY <1>5 DEF Made
    <3> QED
      BY <1>1, <2>1, <2>2, <3>1, StoredAccount
  <2>4. Made' = Made \cup {cur}
    BY <1>1, <2>3 DEF Made
  <2>5. PICK k \in Keys : k = cur
    BY <1>1
  <2>6. Managed!Make(k)
    BY <1>2, <2>4, <2>5 DEF Managed!Make, There, Held, Made, Lost
  <2> QED
    BY <2>6 DEF Seen, Managed!Next
<1>6. ASSUME NEW a \in Account, HasAccount(n), a.by = accounts[n].by,
             accounts' = [accounts EXCEPT ![n] = a]
      PROVE Seen
  <2>1. \A k \in Keys : k \in Made' <=> k \in Made
    BY <1>1, <1>6, StoredAccount DEF Made
  <2>2. Made' = Made
    BY <2>1 DEF Made
  <2> QED
    BY <1>3, <2>2
<1>7. CASE accounts' = Edited /\ HasAccount(n)
  <2>1. accounts[n] \in Account
    BY <1>1, <1>7 DEF HasAccount
  <2>2. /\ Edit(accounts[n], obj.spec) \in Account
        /\ Edit(accounts[n], obj.spec).by = accounts[n].by
    BY <1>1, <2>1, EditUpdate DEF Edit, Account
  <2>3. accounts' = [accounts EXCEPT ![n] = Edit(accounts[n], obj.spec)]
    BY <1>7 DEF Edited
  <2> QED
    BY <1>6, <1>7, <2>2, <2>3
<1>8. CASE SyncKeys
  <2>1. ASSUME NEW keys \in SUBSET SSHKeys, HasAccount(n), accounts' = SetKeys(n, keys)
        PROVE Seen
    <3>1. accounts[n] \in Account
      BY <1>1, <2>1 DEF HasAccount
    <3>2. WithKeys(accounts[n], keys) \in Account /\ WithKeys(accounts[n], keys).by = accounts[n].by
      BY <3>1, KeysUpdate DEF WithKeys, Account
    <3>3. accounts' = [accounts EXCEPT ![n] = WithKeys(accounts[n], keys)]
      BY <2>1 DEF SetKeys
    <3> QED
      BY <1>6, <2>1, <3>2, <3>3
  <2>2. HasAccount(n) => accounts[n].keys \in SUBSET SSHKeys
    BY <1>1 DEF HasAccount, Account
  <2>3. \/ accounts' = accounts
        \/ \E keys \in SUBSET SSHKeys : HasAccount(n) /\ accounts' = SetKeys(n, keys)
    <3>1. ASSUME NEW key \in drop, Attempt(IF HasAccount(n)
                             THEN SetKeys(n, accounts[n].keys \ {key}) ELSE accounts)
          PROVE \/ accounts' = accounts
                \/ \E keys \in SUBSET SSHKeys : HasAccount(n) /\ accounts' = SetKeys(n, keys)
      BY <1>1, <2>2, <3>1 DEF Attempt
    <3>2. ASSUME NEW key \in add, Attempt(IF HasAccount(n) /\ ~HeldElsewhere(n, key)
                             THEN SetKeys(n, accounts[n].keys \cup {key}) ELSE accounts)
          PROVE \/ accounts' = accounts
                \/ \E keys \in SUBSET SSHKeys : HasAccount(n) /\ accounts' = SetKeys(n, keys)
      <4>1. HasAccount(n) => accounts[n].keys \cup {key} \in SUBSET SSHKeys
        BY <1>1, <2>2, <3>2
      <4> QED
        BY <3>2, <4>1 DEF Attempt
    <3> QED
      BY <1>8, <3>1, <3>2 DEF SyncKeys
  <2> QED
    BY <1>3, <2>1, <2>3, SameAccounts
<1>9. CASE accounts' = accounts
  BY <1>3, <1>9, SameAccounts
<1> QED
  BY <1>4, <1>5, <1>7, <1>8, <1>9
  DEF DeleteUser, AdminCreateUser, AdminEditUser, ReplyLost, AskGitea

(* An account goes by other hands, or comes.                               *)
LEMMA HandsManaged ==
  ASSUME FinalizerInv,
         \/ DeleteInstance
         \/ \E n \in Names :
              \/ RemoveByHand(n)
              \/ \E p \in Profiles, keys \in SUBSET SSHKeys : Register(n, p, keys)
  PROVE Seen
<1> USE UserConstants
<1>1. There' = There /\ Held' = Held /\ asked' = asked
  BY SameCRs DEF DeleteInstance, RemoveByHand, Register, store
<1>2. accounts \in [Names -> Account \cup {NoAccount}]
  BY DEF FinalizerInv, TypeOK, GiteaOK
<1>3. ASSUME NEW K \in SUBSET Keys, Made' = Made \ K, Lost' = Lost \cup K
      PROVE Seen
  <2>1. Managed!Lose(K)
    BY <1>1, <1>3 DEF Managed!Lose, There, Held, Made, Lost
  <2> QED
    BY <2>1 DEF Seen, Managed!Next
<1>4. CASE DeleteInstance
  <2> DEFINE K == {k \in Keys : HasAccount(NameOf(k))}
  <2>1. /\ accounts' = [n \in Names |-> NoAccount]
        /\ lost' = lost \cup {n \in Names : HasAccount(n)}
    BY <1>4 DEF DeleteInstance
  <2>2. Made' = {} /\ Made \ K = {}
    BY <2>1, NameOfKey DEF Made, HasAccount
  <2>3. Lost' = Lost \cup K
    BY <2>1, NameOfKey DEF Lost
  <2> QED
    BY <1>3, <2>2, <2>3
<1>5. ASSUME NEW n \in Names, RemoveByHand(n) PROVE Seen
  <2> DEFINE K == {k \in Keys : NameOf(k) = n}
  <2>1. accounts' = [accounts EXCEPT ![n] = NoAccount] /\ lost' = lost \cup {n}
    BY <1>5 DEF RemoveByHand
  <2>2. Made' = Made \ K
    <3>1. \A k \in Keys : k \in Made' <=> k \in Made /\ NameOf(k) # n
      BY <1>2, <2>1, StoredAccount
    <3> QED
      BY <3>1 DEF Made
  <2>3. Lost' = Lost \cup K
    BY <2>1 DEF Lost
  <2> QED
    BY <1>3, <2>2, <2>3
<1>6. ASSUME NEW n \in Names, NEW p \in Profiles, NEW keys \in SUBSET SSHKeys,
             Register(n, p, keys)
      PROVE Seen
  <2> DEFINE a == NewAccount(p, keys, NoKey)
  <2>1. a.by = NoKey
    BY DEF NewAccount
  <2>2. accounts' = [accounts EXCEPT ![n] = a] /\ ~HasAccount(n) /\ lost' = lost
    BY <1>6 DEF Register
  <2> HIDE DEF a
  <2>3. \A k \in Keys : k \in Made' <=> IF NameOf(k) = n THEN a # NoAccount /\ a.by = k
                                                         ELSE k \in Made
    BY <1>2, <2>2, StoredAccount
  <2>4. \A k \in Keys : NameOf(k) = n => k \notin Made /\ a.by # k
    BY <2>1, <2>2 DEF Made
  <2>5. \A k \in Keys : k \in Made' <=> k \in Made
    BY <2>3, <2>4
  <2>6. Made' = Made /\ Lost' = Lost
    BY <2>2, <2>5, SameLost DEF Made
  <2> QED
    BY <1>1, <2>6, ManagedState DEF Seen
<1> QED
  BY <1>4, <1>5, <1>6

(* A CR is written by the worker.                                          *)
LEMMA WritesManaged ==
  ASSUME FinalizerInv, RemoveFinalizer \/ UserReady \/ AddFinalizer \/ CreateUser
  PROVE Seen
<1> USE UserConstants
<1>1. /\ cur \in Keys /\ obj \in User /\ cr \in [Keys -> User \cup {Absent}]
      /\ (objFresh => cr[cur] = obj)
      /\ Absent \notin User
  <2>1. pc # "idle"
    BY DEF RemoveFinalizer, UserReady, AddFinalizer, CreateUser
  <2> QED
    BY <2>1 DEF FinalizerInv, TypeOK, PassOK, ClusterOK, CopiesTrue
<1>2. Made' = Made /\ asked' = asked /\ Lost' = Lost
  BY SameAccounts, SameLost DEF RemoveFinalizer, UserReady, AddFinalizer, CreateUser, OnlyPass
<1>3. cr' = cr => Seen
  BY <1>2, SameCRs, ManagedState DEF Seen
<1>4. objFresh => cur \in There /\ (cur \in Held <=> obj.fin)
  BY <1>1 DEF There, Held, Exists
<1>10. PICK key \in Keys : key = cur
  BY <1>1
<1>5. CASE RemoveFinalizer /\ cr' # cr
  <2>1. objFresh /\ cr' = [cr EXCEPT ![cur] = Absent] /\ pc = "removeFinalizer"
    BY <1>5 DEF RemoveFinalizer, store
  <2>2. There' = There \ {cur} /\ Held' = Held \ {cur}
    BY <1>1, <2>1, GoneCR
  <2>3. cur \in asked /\ cur \notin Made
    BY <1>1, <2>1 DEF FinalizerInv, PathTaken, DeletionAsked, Made, HasAccount
  <2>4. CASE cur \in Held
    <3>1. Managed!Release(key)
      BY <1>2, <1>10, <2>2, <2>3, <2>4 DEF Managed!Release, There, Held, Made, Lost
    <3> QED
      BY <3>1 DEF Seen, Managed!Next
  <2>5. CASE cur \notin Held
    <3>1. asked' = asked \cup {cur} /\ Held' = Held
      BY <1>2, <2>2, <2>3, <2>5
    <3>2. Managed!Ask(key)
      BY <1>2, <1>4, <1>10, <2>1, <2>2, <2>5, <3>1
      DEF Managed!Ask, There, Held, Made, Lost
    <3> QED
      BY <3>2 DEF Seen, Managed!Next
  <2> QED
    BY <2>4, <2>5
<1>6. CASE UserReady /\ cr' # cr
  <2>1. objFresh /\ cr' = [cr EXCEPT ![cur] = Provisioned(obj)]
    BY <1>6 DEF UserReady, UpdateObj, store
  <2>2. Provisioned(obj) \in User /\ Provisioned(obj).fin = obj.fin
    BY <1>1, UserUpdates DEF Provisioned, User
  <2>3. cr'[key] = Provisioned(obj) /\ \A j \in Keys \ {key} : cr'[j] = cr[j]
    BY <1>1, <1>10, <2>1
  <2>4. There' = There \cup {key} /\ Held' = (IF obj.fin THEN Held \cup {key} ELSE Held \ {key})
    BY <1>1, <2>2, <2>3, StoredCR
  <2>5. There' = There /\ Held' = Held
    BY <1>4, <1>10, <2>1, <2>4 DEF There, Held
  <2> QED
    BY <1>2, <2>5, ManagedState DEF Seen
<1>7. CASE AddFinalizer /\ cr' # cr
  <2>1. objFresh /\ cr' = [cr EXCEPT ![cur] = WithFinalizer(obj)]
    BY <1>7 DEF AddFinalizer, UpdateObj, store
  <2>2. WithFinalizer(obj) \in User /\ WithFinalizer(obj).fin
    BY <1>1, UserUpdates DEF WithFinalizer, User
  <2>3. cr'[key] = WithFinalizer(obj) /\ \A j \in Keys \ {key} : cr'[j] = cr[j]
    BY <1>1, <1>10, <2>1
  <2>4. There' = There \cup {key} /\ Held' = Held \cup {key}
    BY <1>1, <2>2, <2>3, StoredCR
  <2>5. key \in There /\ There' = There
    BY <1>4, <1>10, <2>1, <2>4 DEF There
  <2>6. Managed!Hold(key)
    BY <1>2, <2>4, <2>5 DEF Managed!Hold, There, Held, Made, Lost
  <2> QED
    BY <2>6 DEF Seen, Managed!Next
<1>8. CASE CreateUser /\ cr' # cr
  <2>1. PICK i \in imports : LET k == <<cur[1], i[1]>>
                             IN ~Exists(k) /\ cr' = [cr EXCEPT ![k] = NewUser(i[2])]
    BY <1>8 DEF CreateUser, store
  <2> DEFINE k == <<cur[1], i[1]>>
  <2>2. k \in Keys /\ NewUser(i[2]) \in User /\ ~NewUser(i[2]).fin
    BY <1>1, UserMade DEF FinalizerInv, TypeOK, PassOK, Keys, NewUser
  <2>3. ~Exists(k) /\ cr' = [cr EXCEPT ![k] = NewUser(i[2])]
    BY <2>1
  <2>4. k \notin There /\ k \notin Held
    BY <2>3 DEF There, Held
  <2> HIDE DEF k
  <2>5. cr'[k] = NewUser(i[2]) /\ \A j \in Keys \ {k} : cr'[j] = cr[j]
    BY <1>1, <2>2, <2>3
  <2>6. There' = There \cup {k} /\ Held' = Held \ {k}
    BY <1>1, <2>2, <2>5, StoredCR
  <2>7. Managed!Declare(k)
    BY <1>2, <2>4, <2>6 DEF Managed!Declare, There, Held, Made, Lost
  <2> QED
    BY <2>2, <2>7 DEF Seen, Managed!Next
<1> QED
  BY <1>3, <1>5, <1>6, <1>7, <1>8

(* A CR is applied or deleted by a person.                                 *)
LEMMA KubectlManaged ==
  ASSUME FinalizerInv, NEW k \in Keys,
         KubectlDelete(k) \/ \E s \in Specs : ApplyUser(k, s)
  PROVE Seen
<1> USE UserConstants
<1>1. cr \in [Keys -> User \cup {Absent}]
  BY DEF FinalizerInv, TypeOK, ClusterOK
<1>2. Made' = Made /\ Lost' = Lost
  BY SameAccounts, SameLost DEF KubectlDelete, ApplyUser, OnlyStore
<1>3. CASE KubectlDelete(k)
  <2>1. /\ Exists(k) /\ asked' = asked \cup {k}
        /\ cr' = [cr EXCEPT ![k] = IF cr[k].fin THEN Marked(cr[k]) ELSE Absent]
    BY <1>3 DEF KubectlDelete, Store
  <2>2. cr[k] \in User /\ Marked(cr[k]) \in User /\ Marked(cr[k]).fin = cr[k].fin
    BY <1>1, <2>1, UserUpdates DEF Exists, Marked, User
  <2>3. k \in There /\ (k \in Held <=> cr[k].fin)
    BY <2>1 DEF There, Held
  <2>4. There' = (IF k \in Held THEN There ELSE There \ {k}) /\ Held' = Held
    <3>1. CASE cr[k].fin
      <4>1. cr'[k] = Marked(cr[k]) /\ \A j \in Keys \ {k} : cr'[j] = cr[j]
        BY <1>1, <2>1, <3>1
      <4>2. There' = There \cup {k} /\ Held' = Held \cup {k}
        BY <2>2, <3>1, <4>1, StoredCR
      <4> QED
        BY <2>3, <3>1, <4>2 DEF There, Held
    <3>2. CASE ~cr[k].fin
      <4>1. There' = There \ {k} /\ Held' = Held \ {k}
        BY <1>1, <2>1, <3>2, GoneCR
      <4> QED
        BY <2>3, <3>2, <4>1
    <3> QED
      BY <3>1, <3>2
  <2>5. Managed!Ask(k)
    BY <1>2, <2>1, <2>3, <2>4 DEF Managed!Ask, There, Held, Made, Lost
  <2> QED
    BY <2>5 DEF Seen, Managed!Next
<1>4. ASSUME NEW s \in Specs, ApplyUser(k, s) PROVE Seen
  <2>1. asked' = asked
    BY <1>4 DEF ApplyUser
  <2>2. CASE ~Exists(k) /\ Store(k, NewUser(s))
    <3>1. NewUser(s) \in User /\ ~NewUser(s).fin
      BY UserMade DEF NewUser
    <3>2. k \notin There /\ k \notin Held
      BY <2>2 DEF There, Held
    <3>3. cr'[k] = NewUser(s) /\ \A j \in Keys \ {k} : cr'[j] = cr[j]
      BY <1>1, <2>2 DEF Store
    <3>4. There' = There \cup {k} /\ Held' = Held \ {k}
      BY <3>1, <3>3, StoredCR
    <3>5. Managed!Declare(k)
      BY <1>2, <2>1, <3>2, <3>4 DEF Managed!Declare, There, Held, Made, Lost
    <3> QED
      BY <3>5 DEF Seen, Managed!Next
  <2>3. CASE Exists(k) /\ Store(k, WithSpec(cr[k], s))
    <3>1. WithSpec(cr[k], s) \in User /\ WithSpec(cr[k], s).fin = cr[k].fin
      BY <1>1, <2>3, SpecUpdate DEF Exists, WithSpec, User
    <3>2. k \in There /\ (k \in Held <=> cr[k].fin)
      BY <2>3 DEF There, Held
    <3>3. There' = There /\ Held' = Held
      <4>1. cr'[k] = WithSpec(cr[k], s) /\ \A j \in Keys \ {k} : cr'[j] = cr[j]
        BY <1>1, <2>3 DEF Store
      <4>2. There' = There \cup {k}
            /\ Held' = (IF cr[k].fin THEN Held \cup {k} ELSE Held \ {k})
        BY <3>1, <4>1, StoredCR
      <4> QED
        BY <3>2, <4>2 DEF There, Held
    <3> QED
      BY <1>2, <2>1, <3>3, ManagedState DEF Seen
  <2> QED
    BY <1>4, <2>2, <2>3 DEF ApplyUser
<1> QED
  BY <1>3, <1>4

(* Every step is a step of the machine, or hidden from it.                 *)
LEMMA NextManaged ==
  ASSUME FinalizerInv, [Next]_vars PROVE Seen
<1>1. CASE cr' = cr /\ accounts' = accounts /\ asked' = asked /\ lost' = lost
  BY <1>1, SameCRs, SameAccounts, SameLost, ManagedState DEF Seen
<1>2. CASE cr' # cr
  BY <1>2, CrChanges, WritesManaged, KubectlManaged
<1>3. CASE accounts' # accounts
  BY <1>3, AccountChanges, WorkerManaged, HandsManaged
<1>4. CASE ~(asked' = asked /\ lost' = lost)
  BY <1>4, HistoryChanges, HandsManaged, KubectlManaged
<1> QED
  BY <1>1, <1>2, <1>3, <1>4

(* The User controller implements ManagedResource, in any set of           *)
(* namespaces: an account goes only when somebody asked to delete a CR of  *)
(* its name, and the CR it was made for is released only after it.         *)
THEOREM UserImplementsManaged == Spec => ImplementsManaged
<1>1. Init => Managed!Init
  <2> SUFFICES ASSUME Init PROVE Managed!Init
    OBVIOUS
  <2>1. There = {} /\ Held = {} /\ Made = {} /\ Lost = {} /\ asked = {}
    BY NameOfKey DEF Init, There, Held, Made, Lost, Exists, HasAccount
  <2> QED
    BY <2>1 DEF Managed!Init, There, Held, Made, Lost
<1>2. FinalizerInv /\ [Next]_vars => [Managed!Next]_(Managed!managed)
  BY NextManaged DEF Seen
<1> QED
  BY <1>1, <1>2, FinalizerInvariant, PTL DEF Spec, ImplementsManaged, Managed!Spec

=============================================================================
