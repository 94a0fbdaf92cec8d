----------------------- MODULE SharedRepositoriesProofs -----------------------
(***************************************************************************)
(* What the Repo and the MigrateRepo controller keep true together, for    *)
(* any number of CRs, specs, failures and restarts.                        *)
(*                                                                         *)
(* The invariant is stated for one controller and for what every other     *)
(* step may do to it.  Two facts about the copies of a CR carry it, since  *)
(* the finalizer and the deletion timestamp that a pass acts upon are      *)
(* those of a copy: a marked copy is of a CR somebody asked to delete, and *)
(* a copy with the finalizer is of a CR whose repository is still there,   *)
(* made for a CR of that kind, or went for a reason.                       *)
(***************************************************************************)
EXTENDS SharedRepositories, TLAPS

RR == INSTANCE ControllerRuntimeProofs WITH
  cr <- rCR, cache <- rCache, fresh <- rFresh, queue <- rQueue, pass <- rPass

MM == INSTANCE ControllerRuntimeProofs WITH
  cr <- mCR, cache <- mCache, fresh <- mFresh, queue <- mQueue, pass <- mPass

Kinds == {"Repo", "MigrateRepo"}

(* The repository of k is there and was made for a CR of this kind; ...    *)
MadeBy(kind, k) == R!HasRepo(k) /\ repos[k].by = kind

(* ... it, or an earlier one, had a reason to go; ...                      *)
Gone(k) == k \in lost \cup rAsked \cup mAsked

(* ... which is all that the finalizer of this kind on CR k may mean.      *)
Kept(kind, k) == MadeBy(kind, k) \/ Gone(k)

World == R!SharedOK /\ M!SharedOK

-----------------------------------------------------------------------------
(* The invariant of each controller: the types of its runtime, what its    *)
(* copies mean, and where a pass is.                                       *)

RTypes == RR!RuntimeOK(R!Calls, R!Repo, {R!Blank})
MTypes == MM!RuntimeOK(M!Calls, M!MigrateRepoCR, {M!Blank})

RCopies ==
  \A k \in Keys : \A o :
    RR!Copy(k, o) => /\ o.del => k \in rAsked
                     /\ o.fin => Kept("Repo", k)

MCopies ==
  \A k \in Keys : \A o :
    MM!Copy(k, o) => /\ o.del => k \in mAsked
                     /\ o.fin => Kept("MigrateRepo", k)

RPlace ==
  /\ rPass.at \in {"deleteRepo", "removeFinalizer"} => rPass.obj.del
  /\ rPass.at \in {"PushMirrors", "status", "addFinalizer"} => Kept("Repo", rPass.key)
  /\ rPass.at = "removeFinalizer" => ~MadeBy("Repo", rPass.key)

MPlace ==
  /\ mPass.at \in {"deleteRepo", "removeFinalizer"} => mPass.obj.del
  /\ mPass.at = "addFinalizer" => Kept("MigrateRepo", mPass.key)
  /\ mPass.at = "removeFinalizer" => ~MadeBy("MigrateRepo", mPass.key)

RSide == RTypes /\ RCopies /\ RPlace
MSide == MTypes /\ MCopies /\ MPlace

SharedInv == World /\ RSide /\ MSide

(* What a step does to the repositories of a kind: one that the finalizer  *)
(* stands for stays, or goes for a reason; ...                             *)
Keeps(kind) == \A k \in Keys : Kept(kind, k) => Kept(kind, k)'

(* ... and none is made.                                                   *)
MakesNone(kind) == \A k \in Keys : MadeBy(kind, k)' => MadeBy(kind, k)

(* A step of others.                                                       *)
LEMMA RFrame ==
  ASSUME RSide, UNCHANGED rOwn, Keeps("Repo"), MakesNone("Repo")
  PROVE RSide'
<1>1. RTypes'
  BY DEF RSide, RTypes, rOwn, RR!RuntimeOK, RR!Pass, RR!Idle
<1>2. RCopies'
  BY DEF RSide, RCopies, rOwn, Keeps, RR!Copy, RR!Running, RR!Idle
<1>3. RPlace'
  <2>1. rPass.at \in R!Calls => rPass.key \in Keys
    BY DEF RSide, RTypes, RR!RuntimeOK, RR!Pass, RR!Idle, R!Calls
  <2> QED
    BY <2>1 DEF RSide, RPlace, rOwn, Keeps, MakesNone, R!Calls
<1> QED
  BY <1>1, <1>2, <1>3 DEF RSide

LEMMA MFrame ==
  ASSUME MSide, UNCHANGED mOwn, Keeps("MigrateRepo"), MakesNone("MigrateRepo")
  PROVE MSide'
<1>1. MTypes'
  BY DEF MSide, MTypes, mOwn, MM!RuntimeOK, MM!Pass, MM!Idle
<1>2. MCopies'
  BY DEF MSide, MCopies, mOwn, Keeps, MM!Copy, MM!Running, MM!Idle
<1>3. MPlace'
  <2>1. mPass.at \in M!Calls => mPass.key \in Keys
    BY DEF MSide, MTypes, MM!RuntimeOK, MM!Pass, MM!Idle, M!Calls
  <2> QED
    BY <2>1 DEF MSide, MPlace, mOwn, Keeps, MakesNone, M!Calls
<1> QED
  BY <1>1, <1>2, <1>3 DEF MSide

-----------------------------------------------------------------------------
(* The runtime of each controller is an instance of ControllerRuntime, and *)
(* of the module its lemmas are proved in.                                 *)

LEMMA RRuntime ==
  ASSUME NEW k, NEW call, NEW mem, NEW o
  PROVE /\ R!Take(k, call, mem) <=> RR!Take(k, call, mem)
        /\ R!Goto(call) <=> RR!Goto(call)
        /\ R!Done <=> RR!Done
        /\ R!Retry <=> RR!Retry
        /\ R!Write(o) <=> RR!Write(o)
        /\ R!Conflict <=> RR!Conflict
        /\ R!Update(o, call) <=> RR!Update(o, call)
        /\ R!Release <=> RR!Release
        /\ R!Put(k, o) <=> RR!Put(k, o)
        /\ R!Observe(k) <=> RR!Observe(k)
        /\ R!Requeue <=> RR!Requeue
        /\ R!StartAgain <=> RR!StartAgain
        /\ R!Running <=> RR!Running
        /\ R!store = RR!store /\ R!Idle = RR!Idle
<1> USE DEF R!store, RR!store, R!Idle, RR!Idle
<1>1. R!Take(k, call, mem) <=> RR!Take(k, call, mem)
  BY DEF R!Take, RR!Take
<1>2. /\ R!Goto(call) <=> RR!Goto(call)
      /\ R!Done <=> RR!Done
      /\ R!Retry <=> RR!Retry
      /\ R!Running <=> RR!Running
  BY DEF R!Goto, RR!Goto, R!Done, RR!Done, R!Retry, RR!Retry, R!Running, RR!Running
<1>3. R!Write(o) <=> RR!Write(o)
  BY DEF R!Write, RR!Write
<1>4. R!Write(Absent) <=> RR!Write(Absent)
  BY DEF R!Write, RR!Write
<1>5. R!Conflict <=> RR!Conflict
  BY DEF R!Conflict, RR!Conflict
<1>6. R!Update(o, call) <=> RR!Update(o, call)
  BY <1>2, <1>3, <1>5 DEF R!Update, RR!Update
<1>7. R!Release <=> RR!Release
  BY <1>2, <1>4, <1>5 DEF R!Release, RR!Release
<1>8. R!Put(k, o) <=> RR!Put(k, o)
  BY DEF R!Put, RR!Put, R!Running, RR!Running
<1>9. /\ R!Observe(k) <=> RR!Observe(k)
      /\ R!Requeue <=> RR!Requeue
      /\ R!StartAgain <=> RR!StartAgain
  BY DEF R!Observe, RR!Observe, R!Requeue, RR!Requeue, R!StartAgain, RR!StartAgain,
         R!Exists, RR!Exists
<1> QED
  BY <1>1, <1>2, <1>3, <1>5, <1>6, <1>7, <1>8, <1>9

LEMMA MRuntime ==
  ASSUME NEW k, NEW call, NEW mem, NEW o
  PROVE /\ M!Take(k, call, mem) <=> MM!Take(k, call, mem)
        /\ M!Goto(call) <=> MM!Goto(call)
        /\ M!Done <=> MM!Done
        /\ M!Retry <=> MM!Retry
        /\ M!Write(o) <=> MM!Write(o)
        /\ M!Conflict <=> MM!Conflict
        /\ M!Update(o, call) <=> MM!Update(o, call)
        /\ M!Release <=> MM!Release
        /\ M!Put(k, o) <=> MM!Put(k, o)
        /\ M!Observe(k) <=> MM!Observe(k)
        /\ M!Requeue <=> MM!Requeue
        /\ M!StartAgain <=> MM!StartAgain
        /\ M!Running <=> MM!Running
        /\ M!store = MM!store /\ M!Idle = MM!Idle
<1> USE DEF M!store, MM!store, M!Idle, MM!Idle
<1>1. M!Take(k, call, mem) <=> MM!Take(k, call, mem)
  BY DEF M!Take, MM!Take
<1>2. /\ M!Goto(call) <=> MM!Goto(call)
      /\ M!Done <=> MM!Done
      /\ M!Retry <=> MM!Retry
      /\ M!Running <=> MM!Running
  BY DEF M!Goto, MM!Goto, M!Done, MM!Done, M!Retry, MM!Retry, M!Running, MM!Running
<1>3. M!Write(o) <=> MM!Write(o)
  BY DEF M!Write, MM!Write
<1>4. M!Write(Absent) <=> MM!Write(Absent)
  BY DEF M!Write, MM!Write
<1>5. M!Conflict <=> MM!Conflict
  BY DEF M!Conflict, MM!Conflict
<1>6. M!Update(o, call) <=> MM!Update(o, call)
  BY <1>2, <1>3, <1>5 DEF M!Update, MM!Update
<1>7. M!Release <=> MM!Release
  BY <1>2, <1>4, <1>5 DEF M!Release, MM!Release
<1>8. M!Put(k, o) <=> MM!Put(k, o)
  BY DEF M!Put, MM!Put, M!Running, MM!Running
<1>9. /\ M!Observe(k) <=> MM!Observe(k)
      /\ M!Requeue <=> MM!Requeue
      /\ M!StartAgain <=> MM!StartAgain
  BY DEF M!Observe, MM!Observe, M!Requeue, MM!Requeue, M!StartAgain, MM!StartAgain,
         M!Exists, MM!Exists
<1> QED
  BY <1>1, <1>2, <1>3, <1>5, <1>6, <1>7, <1>8, <1>9

-----------------------------------------------------------------------------
(* What becomes of the repositories.                                       *)

(* Nothing, or nothing but what people ask for.                            *)
LEMMA QuietRepos ==
  ASSUME UNCHANGED repos, lost \subseteq lost', rAsked \subseteq rAsked',
         mAsked \subseteq mAsked', NEW kind
  PROVE Keeps(kind) /\ MakesNone(kind)
  BY DEF Keeps, MakesNone, Kept, MadeBy, Gone, R!HasRepo

(* One goes, for a reason.                                                 *)
LEMMA DropRepo ==
  ASSUME World, NEW k \in Keys, repos' = [repos EXCEPT ![k] = NoRepo],
         k \in lost' \cup rAsked' \cup mAsked', lost \subseteq lost',
         rAsked \subseteq rAsked', mAsked \subseteq mAsked', NEW kind
  PROVE Keeps(kind) /\ MakesNone(kind) /\ ~R!HasRepo(k)'
  BY DEF World, R!SharedOK, Keeps, MakesNone, Kept, MadeBy, Gone, R!HasRepo

(* One is made where none was.                                             *)
LEMMA NewRepo ==
  ASSUME World, NEW k \in Keys, NEW r \in R!Repository, ~R!HasRepo(k),
         repos' = [repos EXCEPT ![k] = r], UNCHANGED <<lost, rAsked, mAsked>>,
         NEW kind
  PROVE /\ Keeps(kind)
        /\ kind # r.by => MakesNone(kind)
        /\ NoRepo \notin R!Repository => MadeBy(r.by, k)'
  BY DEF World, R!SharedOK, Keeps, MakesNone, Kept, MadeBy, Gone, R!HasRepo

(* One gets its mirror.                                                    *)
LEMMA MirrorRepo ==
  ASSUME World, NEW k \in Keys, R!HasRepo(k),
         repos' = [repos EXCEPT ![k].mirror = TRUE],
         UNCHANGED <<lost, rAsked, mAsked>>, NEW kind
  PROVE /\ Keeps(kind) /\ MakesNone(kind)
        /\ repos' \in [Keys -> R!Repository \cup {NoRepo}]
<1>1. repos[k] \in R!Repository /\ repos \in [Keys -> R!Repository \cup {NoRepo}]
  BY DEF World, R!SharedOK, R!HasRepo
<1>2. /\ repos'[k] = [repos[k] EXCEPT !.mirror = TRUE]
      /\ repos'[k] \in R!Repository /\ repos'[k].by = repos[k].by
      /\ \A j \in Keys \ {k} : repos'[j] = repos[j]
  BY <1>1 DEF R!Repository
<1>3. repos' \in [Keys -> R!Repository \cup {NoRepo}]
  BY <1>1, <1>2
<1>4. NoRepo \notin R!Repository
  BY SharedConstants DEF R!RepositoryConstants
<1> QED
  BY <1>1, <1>2, <1>3, <1>4 DEF Keeps, MakesNone, Kept, MadeBy, Gone, R!HasRepo

-----------------------------------------------------------------------------
(* The pass of the Repo controller moves.                                  *)

LEMMA RPassFields ==
  ASSUME RSide, R!Running
  PROVE /\ rPass.at \in R!Calls /\ rPass.key \in Keys /\ rPass.obj \in R!Repo
        /\ rPass.obj # Absent
        /\ rPass.obj.del => rPass.key \in rAsked
        /\ rPass.obj.fin => Kept("Repo", rPass.key)
<1>1. rPass \in RR!Pass(R!Calls, R!Repo, {R!Blank}) /\ RR!Running
  BY RRuntime DEF RSide, RTypes, RR!RuntimeOK, R!Running, R!Idle, RR!Idle, RR!Running
<1>2. /\ rPass.at \in R!Calls /\ rPass.key \in Keys /\ rPass.obj \in R!Repo
  BY <1>1 DEF RR!Pass
<1>3. RR!Copy(rPass.key, rPass.obj)
  BY <1>1 DEF RR!Copy
<1>4. Absent \notin R!Repo
  BY SharedConstants DEF R!RepoConstants
<1> QED
  BY <1>2, <1>3, <1>4 DEF RSide, RCopies

(* It goes on to another call, whose place it may take, ...                *)
LEMMA RGoes ==
  ASSUME RSide, R!Running, NEW call \in R!Calls, R!Goto(call),
         UNCHANGED <<R!store, rAsked>>, Keeps("Repo"),
         call \in {"deleteRepo", "removeFinalizer"} => rPass.obj.del,
         NEW k, k = rPass.key,
         call \in {"PushMirrors", "status", "addFinalizer"} => Kept("Repo", k)',
         call = "removeFinalizer" => ~MadeBy("Repo", k)'
  PROVE RSide'
<1>1. /\ RR!Goto(call) /\ UNCHANGED RR!store /\ RR!Running
  BY RRuntime DEF R!store, RR!store
<1>2. RTypes'
  <2>1. R!Blank \in {R!Blank}
    OBVIOUS
  <2> QED
    BY <1>1, <2>1, RR!GotoOK DEF RSide, RTypes
<1>3. rPass'.at = call /\ rPass'.key = rPass.key /\ rPass'.obj = rPass.obj
  BY DEF R!Goto, RSide, RTypes, RR!RuntimeOK, RR!Pass, R!Running, R!Idle, RR!Idle
<1>4. RCopies'
  BY <1>1, <1>3, RR!KeepCopy DEF RSide, RCopies, Keeps
<1>5. RPlace'
  BY <1>3 DEF RPlace
<1> QED
  BY <1>2, <1>4, <1>5 DEF RSide

(* ... or it is over.                                                      *)
LEMMA REnds ==
  ASSUME RSide, R!Running, R!Done \/ R!Retry, UNCHANGED <<R!store, rAsked>>,
         Keeps("Repo")
  PROVE RSide'
<1>1. /\ RR!Done \/ RR!Retry
      /\ UNCHANGED RR!store /\ RR!Running
  BY RRuntime DEF R!store, RR!store
<1>2. rPass' = RR!Idle
  BY <1>1 DEF RR!Done, RR!Retry
<1>3. RTypes'
  BY <1>1, RR!EndOK DEF RSide, RTypes, RR!store, RR!RuntimeOK
<1>4. RCopies'
  BY <1>1, <1>2, RR!KeepCopy DEF RSide, RCopies, Keeps
<1>5. RPlace'
  BY <1>2 DEF RPlace, RR!Idle
<1> QED
  BY <1>3, <1>4, <1>5 DEF RSide

(* Where neither a repository nor what people asked for changes, the rest  *)
(* is as it was.                                                           *)
LEMMA RQuiet ==
  ASSUME SharedInv, UNCHANGED <<mOwn, repos, org, instance, rAsked, lost>>,
         ops' \in Nat, fails' \in Nat, crashes' \in Nat,
         Keeps("Repo") => RSide'
  PROVE SharedInv'
<1>1. \A kind \in Kinds : Keeps(kind) /\ MakesNone(kind)
  BY QuietRepos DEF mOwn
<1>2. World'
  BY DEF SharedInv, World, R!SharedOK, M!SharedOK, R!Repository, M!Repository, mOwn
<1> QED
  BY <1>1, <1>2, MFrame DEF SharedInv, Kinds

-----------------------------------------------------------------------------
(* The steps of the Repo controller.                                       *)

LEMMA AtRuns == ASSUME NEW call \in R!Calls, R!At(call) PROVE R!Running
  BY DEF R!At, R!Running, R!Idle, R!Calls

LEMMA RLocal ==
  ASSUME SharedInv, UNCHANGED mOwn, R!OnlyKubernetes, Keeps("Repo") => RSide'
  PROVE SharedInv'
  BY RQuiet DEF R!OnlyKubernetes, R!OnlyPass, R!budget, SharedInv, World, R!SharedOK

LEMMA RReconcileInv ==
  ASSUME SharedInv, UNCHANGED mOwn, NEW k \in Keys, R!Reconcile(k)
  PROVE SharedInv'
<1> SUFFICES ASSUME Keeps("Repo") PROVE RSide'
  BY RLocal DEF R!Reconcile
<1>1. /\ RR!Take(k, "BuildFromOrg", R!Blank) /\ RTypes
      /\ UNCHANGED rAsked
  BY RRuntime DEF R!Reconcile, SharedInv, RSide, R!OnlyKubernetes, R!OnlyPass
<1>2. RTypes'
  BY <1>1, RR!TakeOK DEF RTypes, R!Calls
<1>3. RCopies'
  BY <1>1, RR!TakeCopy DEF RTypes, SharedInv, RSide, RCopies, Keeps
<1>4. rPass'.at \in {"BuildFromOrg", "idle"}
  BY <1>1 DEF RR!Take, RR!Idle
<1> QED
  BY <1>2, <1>3, <1>4 DEF RSide, RPlace

LEMMA RBuildInv == ASSUME SharedInv, UNCHANGED mOwn, R!Build PROVE SharedInv'
<1> SUFFICES ASSUME Keeps("Repo") PROVE RSide'
  BY RLocal DEF R!Build, R!BuildWith, R!OnlyLocal
<1>1. /\ RSide /\ R!Running /\ UNCHANGED <<R!store, rAsked>>
  BY AtRuns DEF R!Build, R!BuildWith, SharedInv, R!OnlyLocal, R!OnlyKubernetes,
                R!OnlyPass, R!Calls
<1>2. \/ R!Done \/ R!Retry
      \/ R!Goto("GetRepo")
      \/ rPass.obj.del /\ R!Goto("deleteRepo")
  BY DEF R!Build, R!BuildWith
<1>3. CASE R!Done \/ R!Retry
  BY <1>1, <1>3, REnds
<1>4. CASE R!Goto("GetRepo")
  BY <1>1, <1>4, RGoes DEF R!Calls
<1>5. CASE rPass.obj.del /\ R!Goto("deleteRepo")
  BY <1>1, <1>5, RGoes DEF R!Calls
<1> QED
  BY <1>2, <1>3, <1>4, <1>5

(* A repository that is deleted has a marked CR of its name.               *)
LEMMA RDeleteServed ==
  ASSUME SharedInv, R!DeleteRepoServed, UNCHANGED <<lost, rAsked, mAsked>>, NEW kind
  PROVE /\ Keeps(kind) /\ MakesNone(kind)
        /\ \A k \in Keys : k = rPass.key => ~R!HasRepo(k)'
        /\ repos' \in [Keys -> R!Repository \cup {NoRepo}]
        /\ \A k \in Keys : R!HasRepo(k) /\ ~R!HasRepo(k)' => k \in rAsked
<1>1. /\ R!Running /\ RSide /\ World
      /\ rPass.obj.del
      /\ repos' = [repos EXCEPT ![rPass.key] = NoRepo]
  BY AtRuns DEF R!DeleteRepoServed, SharedInv, RSide, RPlace, R!SetRepo, R!At, R!Calls
<1>2. rPass.key \in Keys /\ rPass.key \in rAsked
  BY <1>1, RPassFields
<1>3. \A k \in Keys : k # rPass.key => repos'[k] = repos[k]
  BY <1>1, <1>2 DEF World, R!SharedOK
<1>4. /\ Keeps(kind) /\ MakesNone(kind)
      /\ \A k \in Keys : k = rPass.key => ~R!HasRepo(k)'
  BY <1>1, <1>2, DropRepo
<1> QED
  BY <1>1, <1>2, <1>3, <1>4 DEF World, R!SharedOK, R!HasRepo

(* Where the repositories stay well typed, so does the world.              *)
LEMMA RWorld ==
  ASSUME SharedInv, UNCHANGED <<mOwn, org, instance, rAsked, lost>>,
         repos' \in [Keys -> R!Repository \cup {NoRepo}],
         ops' \in Nat, fails' \in Nat, crashes' \in Nat
  PROVE World'
  BY DEF SharedInv, World, R!SharedOK, M!SharedOK, R!Repository, M!Repository, mOwn

LEMMA RGitea ==
  ASSUME SharedInv, UNCHANGED mOwn, R!OnlyGitea,
         repos' \in [Keys -> R!Repository \cup {NoRepo}],
         Keeps("MigrateRepo"), MakesNone("MigrateRepo"), RSide'
  PROVE SharedInv'
  BY MFrame, RWorld
     DEF R!OnlyGitea, R!OnlyPass, R!budget, SharedInv, World, R!SharedOK

LEMMA RDeleteRepoInv == ASSUME SharedInv, UNCHANGED mOwn, R!DeleteRepo PROVE SharedInv'
<1>1. /\ R!DeleteRepoServed /\ R!Goto("removeFinalizer") /\ R!OnlyGitea
      /\ UNCHANGED <<R!store, lost, rAsked, mAsked>>
  BY DEF R!DeleteRepo, R!OnlyGitea, R!OnlyPass, mOwn
<1>2. /\ Keeps("Repo") /\ Keeps("MigrateRepo") /\ MakesNone("MigrateRepo")
      /\ \A k \in Keys : k = rPass.key => ~R!HasRepo(k)'
      /\ repos' \in [Keys -> R!Repository \cup {NoRepo}]
  BY <1>1, RDeleteServed
<1>3. R!Running /\ RSide /\ rPass.obj.del
  BY <1>1, AtRuns DEF R!DeleteRepoServed, SharedInv, RSide, RPlace, R!At, R!Calls
<1>4. rPass.key \in Keys
  BY <1>3, RPassFields
<1>5. PICK k \in Keys : k = rPass.key
  BY <1>4
<1>6. ~MadeBy("Repo", k)'
  BY <1>2, <1>5 DEF MadeBy
<1>7. RSide'
  BY <1>1, <1>2, <1>3, <1>5, <1>6, RGoes DEF R!Calls
<1> QED
  BY <1>1, <1>2, <1>7, RGitea

(* The finalizer is released.                                              *)
LEMMA RRemoveFinalizerInv ==
  ASSUME SharedInv, UNCHANGED mOwn, R!RemoveFinalizer PROVE SharedInv'
<1> SUFFICES ASSUME Keeps("Repo") PROVE RSide'
  BY RLocal DEF R!RemoveFinalizer
<1>1. R!Running /\ RSide /\ UNCHANGED rAsked /\ R!Release
  BY AtRuns DEF R!RemoveFinalizer, SharedInv, R!Calls, R!OnlyKubernetes, R!OnlyPass
<1>2. RR!Running /\ RTypes /\ RR!Release
  BY <1>1, RRuntime DEF RSide
<1>3. RTypes'
  BY <1>2, RR!ReleaseOK DEF RTypes
<1>4. RCopies'
  BY <1>1, <1>2, RR!ReleaseCopy DEF RTypes, RSide, RCopies, Keeps
<1>5. rPass' = RR!Idle
  BY <1>2 DEF RR!Release, RR!Done, RR!Retry
<1>6. RPlace'
  BY <1>5 DEF RPlace, RR!Idle
<1> QED
  BY <1>3, <1>4, <1>6 DEF RSide

LEMMA RGetRepoInv == ASSUME SharedInv, UNCHANGED mOwn, R!GetRepo PROVE SharedInv'
<1> SUFFICES ASSUME Keeps("Repo") PROVE RSide'
  BY RLocal DEF R!GetRepo, R!OnlyLocal
<1>1. /\ RSide /\ R!Running /\ UNCHANGED <<R!store, rAsked>>
      /\ R!Goto("EditRepo") \/ R!Goto("CreateOrgRepo")
  BY AtRuns DEF R!GetRepo, SharedInv, R!OnlyLocal, R!OnlyKubernetes, R!OnlyPass, R!Calls
<1> QED
  BY <1>1, RGoes DEF R!Calls

LEMMA REditRepoInv == ASSUME SharedInv, UNCHANGED mOwn, R!EditRepo PROVE SharedInv'
<1> SUFFICES ASSUME Keeps("Repo") PROVE RSide'
  BY RLocal DEF R!EditRepo, R!OnlyLocal
<1>1. /\ RSide /\ R!Running /\ UNCHANGED <<R!store, rAsked>>
      /\ R!Goto("CreateOrgRepo")
  BY AtRuns DEF R!EditRepo, SharedInv, R!OnlyLocal, R!OnlyKubernetes, R!OnlyPass, R!Calls
<1> QED
  BY <1>1, RGoes DEF R!Calls

(* A repository is made for the CR of the pass.                            *)
LEMMA RCreateServed ==
  ASSUME SharedInv, R!CreateOrgRepoServed, UNCHANGED <<lost, rAsked, mAsked>>
  PROVE /\ \A kind : Keeps(kind)
        /\ MakesNone("MigrateRepo")
        /\ repos' \in [Keys -> R!Repository \cup {NoRepo}]
        /\ \A k \in Keys : k = rPass.key => MadeBy("Repo", k)'
        /\ \A k \in Keys : R!HasRepo(k) => R!HasRepo(k)'
<1> DEFINE r == [content |-> rPass.obj.spec.content, mirror |-> FALSE, by |-> "Repo"]
<1>1. /\ R!Running /\ RSide /\ World
      /\ repos' = [repos EXCEPT ![rPass.key] = r]
      /\ ~R!HasRepo(rPass.key)
  BY AtRuns DEF R!CreateOrgRepoServed, SharedInv, R!SetRepo, R!At, R!Calls
<1>2. rPass.key \in Keys /\ r \in R!Repository /\ r.by = "Repo"
  BY <1>1, RPassFields DEF R!Repo, R!RepoSpec, R!Repository
<1>3. NoRepo \notin R!Repository
  BY SharedConstants DEF R!RepositoryConstants
<1> HIDE DEF r
<1>4. /\ \A kind : Keeps(kind)
      /\ MakesNone("MigrateRepo")
      /\ \A k \in Keys : k = rPass.key => MadeBy("Repo", k)'
  BY <1>1, <1>2, <1>3, NewRepo
<1> QED
  BY <1>1, <1>2, <1>3, <1>4 DEF World, R!SharedOK, R!HasRepo

LEMMA RCreateOrgRepoInv ==
  ASSUME SharedInv, UNCHANGED mOwn, R!CreateOrgRepo PROVE SharedInv'
<1>1. /\ R!CreateOrgRepoServed /\ R!OnlyGitea
      /\ UNCHANGED <<R!store, lost, rAsked, mAsked>>
      /\ R!Goto("PushMirrors") \/ R!Goto("addFinalizer") \/ R!Goto("status")
  BY DEF R!CreateOrgRepo, R!OnlyGitea, R!OnlyPass, mOwn, R!AfterMirror
<1>2. /\ Keeps("Repo") /\ Keeps("MigrateRepo") /\ MakesNone("MigrateRepo")
      /\ \A k \in Keys : k = rPass.key => MadeBy("Repo", k)'
      /\ repos' \in [Keys -> R!Repository \cup {NoRepo}]
  BY <1>1, RCreateServed
<1>3. R!Running /\ RSide
  BY <1>1, AtRuns DEF R!CreateOrgRepoServed, SharedInv, R!Calls
<1>4. PICK k \in Keys : k = rPass.key
  BY <1>3, RPassFields
<1>5. Kept("Repo", k)'
  BY <1>2, <1>4 DEF Kept
<1>6. RSide'
  BY <1>1, <1>2, <1>3, <1>4, <1>5, RGoes DEF R!Calls
<1> QED
  BY <1>1, <1>2, <1>6, RGitea

LEMMA RPushMirrorsInv ==
  ASSUME SharedInv, UNCHANGED mOwn, R!PushMirrors PROVE SharedInv'
<1>1. /\ R!OnlyGitea /\ UNCHANGED <<R!store, lost, rAsked, mAsked>>
      /\ R!Goto("addFinalizer") \/ R!Goto("status")
      /\ RSide /\ World /\ R!Running
  BY AtRuns DEF R!PushMirrors, R!OnlyGitea, R!OnlyPass, mOwn, R!AfterMirror, SharedInv,
     R!Calls
<1>2. PICK k \in Keys : k = rPass.key
  BY <1>1, RPassFields
<1>3. /\ Keeps("Repo") /\ Keeps("MigrateRepo") /\ MakesNone("MigrateRepo")
      /\ repos' \in [Keys -> R!Repository \cup {NoRepo}]
  <2>1. CASE UNCHANGED repos
    BY <1>1, <2>1, QuietRepos DEF World, R!SharedOK
  <2>2. CASE R!HasRepo(k) /\ repos' = [repos EXCEPT ![k].mirror = TRUE]
    BY <1>1, <2>2, MirrorRepo
  <2> QED
    BY <1>2, <2>1, <2>2 DEF R!PushMirrors
<1>4. Kept("Repo", k)
  BY <1>1, <1>2 DEF R!PushMirrors, R!At, RSide, RPlace
<1>5. Kept("Repo", k)'
  BY <1>3, <1>4 DEF Keeps
<1>6. RSide'
  BY <1>1, <1>2, <1>3, <1>5, RGoes DEF R!Calls
<1> QED
  BY <1>1, <1>3, <1>6, RGitea

LEMMA RStatusUpdateInv ==
  ASSUME SharedInv, UNCHANGED mOwn, R!StatusUpdate PROVE SharedInv'
<1> SUFFICES ASSUME Keeps("Repo") PROVE RSide'
  BY RLocal DEF R!StatusUpdate
<1> DEFINE w == [rPass.obj EXCEPT !.prov = TRUE]
<1>1. /\ R!Running /\ RSide /\ UNCHANGED rAsked /\ R!Update(w, "addFinalizer")
      /\ rPass.at = "status"
  BY AtRuns DEF R!StatusUpdate, SharedInv, R!Calls, R!OnlyKubernetes, R!OnlyPass, R!At
<1>2. /\ w \in R!Repo /\ w.del = rPass.obj.del /\ w.fin = rPass.obj.fin
      /\ "addFinalizer" \in R!Calls
      /\ rPass.key \in Keys /\ Kept("Repo", rPass.key)
  BY <1>1, RPassFields DEF R!Repo, R!Calls, RSide, RPlace
<1> HIDE DEF w
<1>3. RR!Running /\ RTypes /\ RR!Update(w, "addFinalizer") /\ Absent \notin R!Repo
  BY <1>1, RRuntime, SharedConstants DEF RSide, R!RepoConstants
<1>4. RTypes'
  BY <1>2, <1>3, RR!UpdateOK DEF RTypes
<1>5. RCopies'
  <2> SUFFICES ASSUME NEW k \in Keys, NEW o, RR!Copy(k, o)'
               PROVE (o.del => k \in rAsked) /\ (o.fin => Kept("Repo", k))
    BY <1>1 DEF RCopies, Keeps
  <2>1. RR!Copy(k, o) \/ (k = rPass.key /\ o = w)
    BY <1>2, <1>3, RR!UpdateCopy DEF RTypes
  <2> QED
    BY <1>1, <1>2, <2>1, RPassFields DEF RSide, RCopies
<1>6. RPlace'
  <2>1. rPass' = RR!Idle \/ (rPass'.at = "addFinalizer" /\ rPass'.key = rPass.key)
    BY <1>2, <1>3
       DEF RR!Update, RR!Retry, RTypes, RR!RuntimeOK, RR!Pass, RR!Running
  <2> QED
    BY <1>2, <2>1 DEF RPlace, RR!Idle, Keeps
<1> QED
  BY <1>4, <1>5, <1>6 DEF RSide

(* The finalizer is put on: a repository made for the CR is there, or went *)
(* for a reason.                                                           *)
LEMMA RAddFinalizerInv ==
  ASSUME SharedInv, UNCHANGED mOwn, R!AddFinalizer PROVE SharedInv'
<1> SUFFICES ASSUME Keeps("Repo") PROVE RSide'
  BY RLocal DEF R!AddFinalizer
<1> DEFINE w == [rPass.obj EXCEPT !.fin = TRUE]
<1>1. /\ R!Running /\ RSide /\ UNCHANGED rAsked /\ rPass.at = "addFinalizer"
      /\ R!Done \/ R!Retry
      /\ R!Write(w) \/ UNCHANGED R!store
  BY AtRuns DEF R!AddFinalizer, SharedInv, R!Calls, R!OnlyKubernetes, R!OnlyPass, R!At,
                R!Conflict
<1>2. /\ w \in R!Repo /\ w.del = rPass.obj.del
      /\ rPass.key \in Keys /\ Kept("Repo", rPass.key)
  BY <1>1, RPassFields DEF R!Repo, RSide, RPlace
<1> HIDE DEF w
<1>3. CASE UNCHANGED R!store
  BY <1>1, <1>3, REnds
<1>4. CASE R!Write(w)
  <2>1. /\ RR!Running /\ RTypes /\ RR!Write(w)
        /\ RR!Done \/ RR!Retry
        /\ rPass' = RR!Idle
    BY <1>1, <1>4, RRuntime DEF RSide, RR!Done, RR!Retry
  <2>2. RTypes'
    <3>1. /\ rCR' \in [Keys -> R!Repo \cup {Absent}]
          /\ rFresh' \subseteq Keys /\ UNCHANGED rCache
      BY <1>2, <2>1, RR!WriteOK DEF RTypes
    <3> QED
      BY <2>1, <3>1, RR!EndOK DEF RTypes
  <2>3. RCopies'
    <3> SUFFICES ASSUME NEW k \in Keys, NEW o, RR!Copy(k, o)'
                 PROVE (o.del => k \in rAsked) /\ (o.fin => Kept("Repo", k))
      BY <1>1 DEF RCopies, Keeps
    <3>1. RR!Copy(k, o) \/ (k = rPass.key /\ o = w)
      BY <1>2, <2>1, RR!WriteCopy DEF RTypes
    <3> QED
      BY <1>1, <1>2, <3>1, RPassFields DEF RSide, RCopies
  <2> QED
    BY <2>1, <2>2, <2>3 DEF RSide, RPlace, RR!Idle
<1> QED
  BY <1>1, <1>3, <1>4

LEMMA RRefusedInv == ASSUME SharedInv, UNCHANGED mOwn, R!Refused PROVE SharedInv'
<1> SUFFICES ASSUME Keeps("Repo") PROVE RSide'
  BY RLocal DEF R!Refused, R!OnlyLocal
<1>1. RSide /\ R!Running /\ UNCHANGED <<R!store, rAsked>> /\ R!Retry
  BY AtRuns DEF R!Refused, R!NotServed, SharedInv, R!OnlyLocal, R!OnlyKubernetes,
                R!OnlyPass, R!Calls
<1> QED
  BY <1>1, REnds

LEMMA RStepInv == ASSUME SharedInv, UNCHANGED mOwn, R!Step PROVE SharedInv'
  BY RBuildInv, RDeleteRepoInv, RRemoveFinalizerInv, RGetRepoInv, REditRepoInv,
     RCreateOrgRepoInv, RPushMirrorsInv, RStatusUpdateInv, RAddFinalizerInv,
     RRefusedInv DEF R!Step

(* The counters stay natural numbers.                                      *)
LEMMA RFails ==
  ASSUME SharedInv, R!Fail
  PROVE ops' \in Nat /\ fails' \in Nat /\ crashes' \in Nat
  BY DEF SharedInv, World, R!SharedOK, R!Fail

LEMMA RCallFailsInv == ASSUME SharedInv, UNCHANGED mOwn, R!CallFails PROVE SharedInv'
<1>1. /\ UNCHANGED <<R!store, repos, org, instance, rAsked, lost>>
      /\ ops' \in Nat /\ fails' \in Nat /\ crashes' \in Nat
      /\ RSide /\ R!Running
  BY RFails, AtRuns DEF R!CallFails, R!Unfailed, SharedInv, R!Calls
<1> SUFFICES ASSUME Keeps("Repo") PROVE RSide'
  BY <1>1, RQuiet
<1>2. CASE R!Retry
  BY <1>1, <1>2, REnds
<1>3. CASE R!At("PushMirrors") /\ R!Goto(R!AfterMirror)
  <2>1. PICK k \in Keys : k = rPass.key
    BY <1>1, RPassFields
  <2>2. Kept("Repo", k)'
    BY <1>1, <1>3, <2>1 DEF RSide, RPlace, R!At, Keeps
  <2>3. R!Goto("addFinalizer") \/ R!Goto("status")
    BY <1>3 DEF R!AfterMirror
  <2> QED
    BY <1>1, <2>1, <2>2, <2>3, RGoes DEF R!Calls
<1> QED
  BY <1>2, <1>3 DEF R!CallFails

LEMMA RReplyLostInv == ASSUME SharedInv, UNCHANGED mOwn, R!ReplyLost PROVE SharedInv'
<1>1. /\ UNCHANGED <<R!store, org, instance, rAsked, mAsked, lost>>
      /\ ops' \in Nat /\ fails' \in Nat /\ crashes' \in Nat
      /\ R!Retry
  BY RFails DEF R!ReplyLost, R!Unfailed, mOwn
<1>2. RSide /\ R!Running
  BY AtRuns DEF R!ReplyLost, SharedInv, R!DeleteRepoServed, R!CreateOrgRepoServed, R!Calls
<1>3. /\ Keeps("Repo") /\ Keeps("MigrateRepo") /\ MakesNone("MigrateRepo")
      /\ repos' \in [Keys -> R!Repository \cup {NoRepo}]
  BY <1>1, RDeleteServed, RCreateServed DEF R!ReplyLost
<1>4. RSide'
  BY <1>1, <1>2, <1>3, REnds
<1> QED
  BY <1>1, <1>3, <1>4, MFrame, RWorld DEF SharedInv

LEMMA RWatchInv ==
  ASSUME SharedInv, UNCHANGED mOwn, NEW k \in Keys, R!Watch(k) PROVE SharedInv'
<1>1. /\ RR!Observe(k) /\ RTypes /\ RSide
      /\ UNCHANGED <<repos, org, instance, rAsked, lost, ops, fails, crashes>>
      /\ ops \in Nat /\ fails \in Nat /\ crashes \in Nat
  BY RRuntime DEF R!Watch, SharedInv, RSide, R!gitea, R!budget, World, R!SharedOK
<1> SUFFICES ASSUME Keeps("Repo") PROVE RSide'
  BY <1>1, RQuiet
<1>2. RTypes'
  BY <1>1, RR!ObserveOK DEF RTypes
<1>3. RCopies'
  BY <1>1, RR!ObserveCopy DEF RTypes, RSide, RCopies, Keeps
<1>4. RPlace'
  <2>1. rPass.at \in R!Calls => rPass.key \in Keys
    BY <1>1 DEF RTypes, RR!RuntimeOK, RR!Pass, RR!Idle, R!Calls
  <2> QED
    BY <1>1, <2>1 DEF RSide, RPlace, Keeps, RR!Observe, MadeBy, R!HasRepo, R!Calls
<1> QED
  BY <1>2, <1>3, <1>4 DEF RSide

LEMMA RResyncInv == ASSUME SharedInv, UNCHANGED mOwn, R!Resync PROVE SharedInv'
<1>1. /\ RR!Requeue /\ RTypes /\ RSide
      /\ UNCHANGED <<repos, org, instance, rAsked, lost, ops, fails, crashes>>
      /\ ops \in Nat /\ fails \in Nat /\ crashes \in Nat
  BY RRuntime DEF R!Resync, SharedInv, RSide, R!gitea, R!budget, World, R!SharedOK
<1> SUFFICES ASSUME Keeps("Repo") PROVE RSide'
  BY <1>1, RQuiet
<1>2. RTypes'
  BY <1>1, RR!RequeueOK DEF RTypes
<1>3. RCopies'
  BY <1>1, RR!KeepCopy DEF RSide, RCopies, Keeps, RR!Requeue
<1>4. RPlace'
  <2>1. rPass.at \in R!Calls => rPass.key \in Keys
    BY <1>1 DEF RTypes, RR!RuntimeOK, RR!Pass, RR!Idle, R!Calls
  <2> QED
    BY <1>1, <2>1 DEF RSide, RPlace, Keeps, RR!Requeue, MadeBy, R!HasRepo, R!Calls
<1> QED
  BY <1>2, <1>3, <1>4 DEF RSide

(* Somebody else's write of CR k: the new one has the finalizer only if    *)
(* the old one had it, and its mark counts.                                *)
LEMMA RPuts ==
  ASSUME SharedInv, NEW k \in Keys, NEW w \in R!Repo \cup {Absent}, R!Put(k, w),
         rAsked \subseteq rAsked', Keeps("Repo"), MakesNone("Repo"),
         w # Absent => /\ w.del => k \in rAsked'
                       /\ w.fin => rCR[k] # Absent /\ rCR[k].fin
  PROVE RSide'
<1>1. RR!Put(k, w) /\ RTypes /\ RSide
  BY RRuntime DEF SharedInv, RSide
<1>2. RTypes'
  BY <1>1, RR!PutOK DEF RTypes
<1>3. RCopies'
  <2> SUFFICES ASSUME NEW j \in Keys, NEW o, RR!Copy(j, o)'
               PROVE (o.del => j \in rAsked') /\ (o.fin => Kept("Repo", j))
    BY DEF RCopies, Keeps
  <2>1. RR!Copy(j, o) \/ (j = k /\ o = w /\ o # Absent)
    BY <1>1, RR!PutCopy DEF RTypes
  <2>2. rCR[k] # Absent => RR!Copy(k, rCR[k])
    BY DEF RR!Copy
  <2> QED
    BY <1>1, <2>1, <2>2 DEF RSide, RCopies
<1>4. RPlace'
  <2>1. /\ rPass.at \in R!Calls => rPass.key \in Keys
        /\ \/ rPass' = rPass
           \/ /\ rPass'.at = rPass.at /\ rPass'.key = rPass.key
              /\ rPass'.obj = rPass.obj
    BY <1>1 DEF RTypes, RR!RuntimeOK, RR!Pass, RR!Idle, R!Calls, RR!Put, RR!Running
  <2> QED
    BY <1>1, <2>1 DEF RSide, RPlace, Keeps, MakesNone, R!Calls
<1> QED
  BY <1>2, <1>3, <1>4 DEF RSide

LEMMA ROperates ==
  ASSUME SharedInv, R!Operate
  PROVE ops' \in Nat /\ fails' \in Nat /\ crashes' \in Nat
  BY DEF SharedInv, World, R!SharedOK, R!Operate

LEMMA RApplyInv ==
  ASSUME SharedInv, UNCHANGED mOwn, NEW k \in Keys, NEW s \in RepoSpecs, R!ApplyRepo(k, s)
  PROVE SharedInv'
<1>1. /\ UNCHANGED <<repos, org, instance, rAsked, mAsked, lost>>
      /\ ops' \in Nat /\ fails' \in Nat /\ crashes' \in Nat
      /\ RepoSpecs \subseteq R!RepoSpec /\ RSide /\ RTypes
  BY ROperates, SharedConstants
     DEF R!ApplyRepo, R!gitea, R!RepoConstants, SharedInv, RSide, mOwn
<1>2. Keeps("Repo") /\ MakesNone("Repo")
  BY <1>1, QuietRepos
<1>3. CASE R!Put(k, [spec |-> s, fin |-> FALSE, del |-> FALSE, prov |-> FALSE])
  <2> DEFINE w == [spec |-> s, fin |-> FALSE, del |-> FALSE, prov |-> FALSE]
  <2>1. w \in R!Repo /\ ~w.del /\ ~w.fin
    BY <1>1 DEF R!Repo
  <2>2. R!Put(k, w)
    BY <1>3
  <2> HIDE DEF w
  <2> QED
    BY <1>1, <1>2, <2>1, <2>2, RPuts, RQuiet
<1>4. CASE R!Exists(k) /\ R!Put(k, [rCR[k] EXCEPT !.spec = s])
  <2> DEFINE w == [rCR[k] EXCEPT !.spec = s]
  <2>1. /\ rCR[k] \in R!Repo /\ rCR[k] # Absent
        /\ RR!Copy(k, rCR[k])
    BY <1>1, <1>4 DEF RTypes, RR!RuntimeOK, R!Exists, RR!Copy
  <2>2. w \in R!Repo /\ w.del = rCR[k].del /\ w.fin = rCR[k].fin /\ R!Put(k, w)
    BY <1>1, <1>4, <2>1 DEF R!Repo
  <2>3. w.del => k \in rAsked
    BY <1>1, <2>1, <2>2 DEF RSide, RCopies
  <2> HIDE DEF w
  <2> QED
    BY <1>1, <1>2, <2>1, <2>2, <2>3, RPuts, RQuiet
<1> QED
  BY <1>3, <1>4 DEF R!ApplyRepo

LEMMA RKubectlDeleteInv ==
  ASSUME SharedInv, UNCHANGED mOwn, NEW k \in Keys, R!KubectlDelete(k) PROVE SharedInv'
<1>1. /\ UNCHANGED <<repos, org, instance, mAsked, lost>>
      /\ rAsked' = rAsked \cup {k}
      /\ ops' \in Nat /\ fails' \in Nat /\ crashes' \in Nat
      /\ RSide /\ RTypes
  BY ROperates DEF R!KubectlDelete, R!gitea, SharedInv, RSide, mOwn
<1>2. \A kind : Keeps(kind) /\ MakesNone(kind)
  BY <1>1, QuietRepos
<1>3. RSide'
  <2> DEFINE w == IF rCR[k].fin THEN [rCR[k] EXCEPT !.del = TRUE] ELSE Absent
  <2>1. rCR[k] \in R!Repo /\ rCR[k] # Absent /\ R!Put(k, w)
    BY <1>1 DEF RTypes, RR!RuntimeOK, R!Exists, R!KubectlDelete, R!PutDeleted
  <2>2. /\ w \in R!Repo \cup {Absent}
        /\ w # Absent => (w.fin => rCR[k].fin)
    BY <2>1 DEF R!Repo
  <2> HIDE DEF w
  <2> QED
    BY <1>1, <1>2, <2>1, <2>2, RPuts
<1>4. World'
  BY <1>1 DEF SharedInv, World, R!SharedOK, M!SharedOK, R!Repository, M!Repository, mOwn
<1> QED
  BY <1>2, <1>3, <1>4, MFrame DEF SharedInv

-----------------------------------------------------------------------------
(* The pass of the MigrateRepo controller moves: as above, ...             *)

LEMMA MPassFields ==
  ASSUME MSide, M!Running
  PROVE /\ mPass.at \in M!Calls /\ mPass.key \in Keys /\ mPass.obj \in M!MigrateRepoCR
        /\ mPass.obj # Absent
        /\ mPass.obj.del => mPass.key \in mAsked
        /\ mPass.obj.fin => Kept("MigrateRepo", mPass.key)
<1>1. mPass \in MM!Pass(M!Calls, M!MigrateRepoCR, {M!Blank}) /\ MM!Running
  BY MRuntime DEF MSide, MTypes, MM!RuntimeOK, M!Running, M!Idle, MM!Idle, MM!Running
<1>2. /\ mPass.at \in M!Calls /\ mPass.key \in Keys /\ mPass.obj \in M!MigrateRepoCR
  BY <1>1 DEF MM!Pass
<1>3. MM!Copy(mPass.key, mPass.obj)
  BY <1>1 DEF MM!Copy
<1>4. Absent \notin M!MigrateRepoCR
  BY SharedConstants DEF M!MigrateRepoConstants
<1> QED
  BY <1>2, <1>3, <1>4 DEF MSide, MCopies

(* It goes on to another call, whose place it may take, ...                *)
LEMMA MGoes ==
  ASSUME MSide, M!Running, NEW call \in M!Calls, M!Goto(call),
         UNCHANGED <<M!store, mAsked>>, Keeps("MigrateRepo"),
         call \in {"deleteRepo", "removeFinalizer"} => mPass.obj.del,
         NEW k, k = mPass.key,
         call = "addFinalizer" => Kept("MigrateRepo", k)',
         call = "removeFinalizer" => ~MadeBy("MigrateRepo", k)'
  PROVE MSide'
<1>1. /\ MM!Goto(call) /\ UNCHANGED MM!store /\ MM!Running
  BY MRuntime DEF M!store, MM!store
<1>2. MTypes'
  <2>1. M!Blank \in {M!Blank}
    OBVIOUS
  <2> QED
    BY <1>1, <2>1, MM!GotoOK DEF MSide, MTypes
<1>3. mPass'.at = call /\ mPass'.key = mPass.key /\ mPass'.obj = mPass.obj
  BY DEF M!Goto, MSide, MTypes, MM!RuntimeOK, MM!Pass, M!Running, M!Idle, MM!Idle
<1>4. MCopies'
  BY <1>1, <1>3, MM!KeepCopy DEF MSide, MCopies, Keeps
<1>5. MPlace'
  BY <1>3 DEF MPlace
<1> QED
  BY <1>2, <1>4, <1>5 DEF MSide

(* ... or it is over.                                                      *)
LEMMA MEnds ==
  ASSUME MSide, M!Running, M!Done \/ M!Retry, UNCHANGED <<M!store, mAsked>>,
         Keeps("MigrateRepo")
  PROVE MSide'
<1>1. /\ MM!Done \/ MM!Retry
      /\ UNCHANGED MM!store /\ MM!Running
  BY MRuntime DEF M!store, MM!store
<1>2. mPass' = MM!Idle
  BY <1>1 DEF MM!Done, MM!Retry
<1>3. MTypes'
  BY <1>1, MM!EndOK DEF MSide, MTypes, MM!store, MM!RuntimeOK
<1>4. MCopies'
  BY <1>1, <1>2, MM!KeepCopy DEF MSide, MCopies, Keeps
<1>5. MPlace'
  BY <1>2 DEF MPlace, MM!Idle
<1> QED
  BY <1>3, <1>4, <1>5 DEF MSide

(* Where neither a repository nor what people asked for changes, the rest  *)
(* is as it was.                                                           *)
LEMMA MQuiet ==
  ASSUME SharedInv, UNCHANGED <<rOwn, repos, org, instance, mAsked, lost>>,
         ops' \in Nat, fails' \in Nat, crashes' \in Nat,
         Keeps("MigrateRepo") => MSide'
  PROVE SharedInv'
<1>1. \A kind \in Kinds : Keeps(kind) /\ MakesNone(kind)
  BY QuietRepos DEF rOwn
<1>2. World'
  BY DEF SharedInv, World, M!SharedOK, R!SharedOK, M!Repository, R!Repository, rOwn
<1> QED
  BY <1>1, <1>2, RFrame DEF SharedInv, Kinds

-----------------------------------------------------------------------------
(* ... and so do its steps.                                                *)

LEMMA MAtRuns == ASSUME NEW call \in M!Calls, M!At(call) PROVE M!Running
  BY DEF M!At, M!Running, M!Idle, M!Calls

LEMMA MLocal ==
  ASSUME SharedInv, UNCHANGED rOwn, M!OnlyKubernetes, Keeps("MigrateRepo") => MSide'
  PROVE SharedInv'
  BY MQuiet DEF M!OnlyKubernetes, M!OnlyPass, M!budget, SharedInv, World, R!SharedOK

LEMMA MReconcileInv ==
  ASSUME SharedInv, UNCHANGED rOwn, NEW k \in Keys, M!Reconcile(k)
  PROVE SharedInv'
<1> SUFFICES ASSUME Keeps("MigrateRepo") PROVE MSide'
  BY MLocal DEF M!Reconcile
<1>1. /\ MM!Take(k, "BuildFromOrg", M!Blank) /\ MTypes
      /\ UNCHANGED mAsked
  BY MRuntime DEF M!Reconcile, SharedInv, MSide, M!OnlyKubernetes, M!OnlyPass
<1>2. MTypes'
  BY <1>1, MM!TakeOK DEF MTypes, M!Calls
<1>3. MCopies'
  BY <1>1, MM!TakeCopy DEF MTypes, SharedInv, MSide, MCopies, Keeps
<1>4. mPass'.at \in {"BuildFromOrg", "idle"}
  BY <1>1 DEF MM!Take, MM!Idle
<1> QED
  BY <1>2, <1>3, <1>4 DEF MSide, MPlace

LEMMA MBuildInv == ASSUME SharedInv, UNCHANGED rOwn, M!Build PROVE SharedInv'
<1> SUFFICES ASSUME Keeps("MigrateRepo") PROVE MSide'
  BY MLocal DEF M!Build, M!BuildWith, M!OnlyLocal
<1>1. /\ MSide /\ M!Running /\ UNCHANGED <<M!store, mAsked>>
  BY MAtRuns DEF M!Build, M!BuildWith, SharedInv, M!OnlyLocal, M!OnlyKubernetes,
                M!OnlyPass, M!Calls
<1>2. \/ M!Done \/ M!Retry
      \/ M!Goto("GetRepo")
      \/ mPass.obj.del /\ M!Goto("deleteRepo")
  BY DEF M!Build, M!BuildWith
<1>3. CASE M!Done \/ M!Retry
  BY <1>1, <1>3, MEnds
<1>4. CASE M!Goto("GetRepo")
  BY <1>1, <1>4, MGoes DEF M!Calls
<1>5. CASE mPass.obj.del /\ M!Goto("deleteRepo")
  BY <1>1, <1>5, MGoes DEF M!Calls
<1> QED
  BY <1>2, <1>3, <1>4, <1>5

(* A repository that is deleted has a marked CR of its name.               *)
LEMMA MDeleteServed ==
  ASSUME SharedInv, M!DeleteRepoServed, UNCHANGED <<lost, mAsked, rAsked>>, NEW kind
  PROVE /\ Keeps(kind) /\ MakesNone(kind)
        /\ \A k \in Keys : k = mPass.key => ~R!HasRepo(k)'
        /\ repos' \in [Keys -> R!Repository \cup {NoRepo}]
        /\ \A k \in Keys : R!HasRepo(k) /\ ~R!HasRepo(k)' => k \in mAsked
<1>1. /\ M!Running /\ MSide /\ World
      /\ mPass.obj.del
      /\ repos' = [repos EXCEPT ![mPass.key] = NoRepo]
  BY MAtRuns DEF M!DeleteRepoServed, SharedInv, MSide, MPlace, M!SetRepo, M!At, M!Calls
<1>2. mPass.key \in Keys /\ mPass.key \in mAsked
  BY <1>1, MPassFields
<1>3. \A k \in Keys : k # mPass.key => repos'[k] = repos[k]
  BY <1>1, <1>2 DEF World, R!SharedOK
<1>4. /\ Keeps(kind) /\ MakesNone(kind)
      /\ \A k \in Keys : k = mPass.key => ~R!HasRepo(k)'
  BY <1>1, <1>2, DropRepo
<1> QED
  BY <1>1, <1>2, <1>3, <1>4 DEF World, R!SharedOK, R!HasRepo

(* Where the repositories stay well typed, so does the world.              *)
LEMMA MWorld ==
  ASSUME SharedInv, UNCHANGED <<rOwn, org, instance, mAsked, lost>>,
         repos' \in [Keys -> R!Repository \cup {NoRepo}],
         ops' \in Nat, fails' \in Nat, crashes' \in Nat
  PROVE World'
  BY DEF SharedInv, World, M!SharedOK, R!SharedOK, M!Repository, R!Repository, rOwn

LEMMA MGitea ==
  ASSUME SharedInv, UNCHANGED rOwn, M!OnlyGitea,
         repos' \in [Keys -> R!Repository \cup {NoRepo}],
         Keeps("Repo"), MakesNone("Repo"), MSide'
  PROVE SharedInv'
  BY RFrame, MWorld
     DEF M!OnlyGitea, M!OnlyPass, M!budget, SharedInv, World, R!SharedOK

LEMMA MDeleteRepoInv == ASSUME SharedInv, UNCHANGED rOwn, M!DeleteRepo PROVE SharedInv'
<1>1. /\ M!DeleteRepoServed /\ M!Goto("removeFinalizer") /\ M!OnlyGitea
      /\ UNCHANGED <<M!store, lost, mAsked, rAsked>>
  BY DEF M!DeleteRepo, M!OnlyGitea, M!OnlyPass, rOwn
<1>2. /\ Keeps("MigrateRepo") /\ Keeps("Repo") /\ MakesNone("Repo")
      /\ \A k \in Keys : k = mPass.key => ~R!HasRepo(k)'
      /\ repos' \in [Keys -> R!Repository \cup {NoRepo}]
  BY <1>1, MDeleteServed
<1>3. M!Running /\ MSide /\ mPass.obj.del
  BY <1>1, MAtRuns DEF M!DeleteRepoServed, SharedInv, MSide, MPlace, M!At, M!Calls
<1>4. mPass.key \in Keys
  BY <1>3, MPassFields
<1>5. PICK k \in Keys : k = mPass.key
  BY <1>4
<1>6. ~MadeBy("MigrateRepo", k)'
  BY <1>2, <1>5 DEF MadeBy
<1>7. MSide'
  BY <1>1, <1>2, <1>3, <1>5, <1>6, MGoes DEF M!Calls
<1> QED
  BY <1>1, <1>2, <1>7, MGitea

(* The finalizer is released.                                              *)
LEMMA MRemoveFinalizerInv ==
  ASSUME SharedInv, UNCHANGED rOwn, M!RemoveFinalizer PROVE SharedInv'
<1> SUFFICES ASSUME Keeps("MigrateRepo") PROVE MSide'
  BY MLocal DEF M!RemoveFinalizer
<1>1. M!Running /\ MSide /\ UNCHANGED mAsked /\ M!Release
  BY MAtRuns DEF M!RemoveFinalizer, SharedInv, M!Calls, M!OnlyKubernetes, M!OnlyPass
<1>2. MM!Running /\ MTypes /\ MM!Release
  BY <1>1, MRuntime DEF MSide
<1>3. MTypes'
  BY <1>2, MM!ReleaseOK DEF MTypes
<1>4. MCopies'
  BY <1>1, <1>2, MM!ReleaseCopy DEF MTypes, MSide, MCopies, Keeps
<1>5. mPass' = MM!Idle
  BY <1>2 DEF MM!Release, MM!Done, MM!Retry
<1>6. MPlace'
  BY <1>5 DEF MPlace, MM!Idle
<1> QED
  BY <1>3, <1>4, <1>6 DEF MSide

LEMMA MGetRepoInv == ASSUME SharedInv, UNCHANGED rOwn, M!GetRepo PROVE SharedInv'
<1> SUFFICES ASSUME Keeps("MigrateRepo") PROVE MSide'
  BY MLocal DEF M!GetRepo, M!OnlyLocal
<1>1. /\ MSide /\ M!Running /\ UNCHANGED <<M!store, mAsked>>
      /\ M!Done \/ M!Retry \/ M!Goto("MigrateRepo")
  BY MAtRuns DEF M!GetRepo, SharedInv, M!OnlyLocal, M!OnlyKubernetes, M!OnlyPass, M!Calls
<1> QED
  BY <1>1, MGoes, MEnds DEF M!Calls

(* A repository is made for the CR of the pass.                            *)
LEMMA MCreateServed ==
  ASSUME SharedInv, M!MigrateRepoServed, UNCHANGED <<lost, mAsked, rAsked>>
  PROVE /\ \A kind : Keeps(kind)
        /\ MakesNone("Repo")
        /\ repos' \in [Keys -> R!Repository \cup {NoRepo}]
        /\ \A k \in Keys : k = mPass.key => MadeBy("MigrateRepo", k)'
        /\ \A k \in Keys : R!HasRepo(k) => R!HasRepo(k)'
<1> DEFINE r == [content |-> mPass.obj.spec.content, mirror |-> FALSE, by |-> "MigrateRepo"]
<1>1. /\ M!Running /\ MSide /\ World
      /\ repos' = [repos EXCEPT ![mPass.key] = r]
      /\ ~R!HasRepo(mPass.key)
  BY MAtRuns DEF M!MigrateRepoServed, SharedInv, M!SetRepo, M!At, M!Calls, M!HasRepo, R!HasRepo
<1>2. mPass.key \in Keys /\ r \in R!Repository /\ r.by = "MigrateRepo"
  BY <1>1, MPassFields DEF M!MigrateRepoCR, M!MigrateRepoSpec, R!Repository
<1>3. NoRepo \notin R!Repository
  BY SharedConstants DEF R!RepositoryConstants
<1> HIDE DEF r
<1>4. /\ \A kind : Keeps(kind)
      /\ MakesNone("Repo")
      /\ \A k \in Keys : k = mPass.key => MadeBy("MigrateRepo", k)'
  BY <1>1, <1>2, <1>3, NewRepo
<1> QED
  BY <1>1, <1>2, <1>3, <1>4 DEF World, R!SharedOK, R!HasRepo

LEMMA MMigrateRepoInv ==
  ASSUME SharedInv, UNCHANGED rOwn, M!MigrateRepo PROVE SharedInv'
<1>1. /\ M!MigrateRepoServed /\ M!OnlyGitea
      /\ UNCHANGED <<M!store, lost, mAsked, rAsked>>
      /\ M!Goto("addFinalizer")
  BY DEF M!MigrateRepo, M!OnlyGitea, M!OnlyPass, rOwn
<1>2. /\ Keeps("MigrateRepo") /\ Keeps("Repo") /\ MakesNone("Repo")
      /\ \A k \in Keys : k = mPass.key => MadeBy("MigrateRepo", k)'
      /\ repos' \in [Keys -> R!Repository \cup {NoRepo}]
  BY <1>1, MCreateServed
<1>3. M!Running /\ MSide
  BY <1>1, MAtRuns DEF M!MigrateRepoServed, SharedInv, M!Calls
<1>4. PICK k \in Keys : k = mPass.key
  BY <1>3, MPassFields
<1>5. Kept("MigrateRepo", k)'
  BY <1>2, <1>4 DEF Kept
<1>6. MSide'
  BY <1>1, <1>2, <1>3, <1>4, <1>5, MGoes DEF M!Calls
<1> QED
  BY <1>1, <1>2, <1>6, MGitea

(* The finalizer is put on: a repository made for the CR is there, or went *)
(* for a reason.                                                           *)
LEMMA MAddFinalizerInv ==
  ASSUME SharedInv, UNCHANGED rOwn, M!AddFinalizer PROVE SharedInv'
<1> SUFFICES ASSUME Keeps("MigrateRepo") PROVE MSide'
  BY MLocal DEF M!AddFinalizer
<1> DEFINE w == [mPass.obj EXCEPT !.fin = TRUE]
<1>1. /\ M!Running /\ MSide /\ UNCHANGED mAsked /\ mPass.at = "addFinalizer"
      /\ M!Done \/ M!Retry
      /\ M!Write(w) \/ UNCHANGED M!store
  BY MAtRuns DEF M!AddFinalizer, SharedInv, M!Calls, M!OnlyKubernetes, M!OnlyPass, M!At,
                M!Conflict
<1>2. /\ w \in M!MigrateRepoCR /\ w.del = mPass.obj.del
      /\ mPass.key \in Keys /\ Kept("MigrateRepo", mPass.key)
  BY <1>1, MPassFields DEF M!MigrateRepoCR, MSide, MPlace
<1> HIDE DEF w
<1>3. CASE UNCHANGED M!store
  BY <1>1, <1>3, MEnds
<1>4. CASE M!Write(w)
  <2>1. /\ MM!Running /\ MTypes /\ MM!Write(w)
        /\ MM!Done \/ MM!Retry
        /\ mPass' = MM!Idle
    BY <1>1, <1>4, MRuntime DEF MSide, MM!Done, MM!Retry
  <2>2. MTypes'
    <3>1. /\ mCR' \in [Keys -> M!MigrateRepoCR \cup {Absent}]
          /\ mFresh' \subseteq Keys /\ UNCHANGED mCache
      BY <1>2, <2>1, MM!WriteOK DEF MTypes
    <3> QED
      BY <2>1, <3>1, MM!EndOK DEF MTypes
  <2>3. MCopies'
    <3> SUFFICES ASSUME NEW k \in Keys, NEW o, MM!Copy(k, o)'
                 PROVE (o.del => k \in mAsked) /\ (o.fin => Kept("MigrateRepo", k))
      BY <1>1 DEF MCopies, Keeps
    <3>1. MM!Copy(k, o) \/ (k = mPass.key /\ o = w)
      BY <1>2, <2>1, MM!WriteCopy DEF MTypes
    <3> QED
      BY <1>1, <1>2, <3>1, MPassFields DEF MSide, MCopies
  <2> QED
    BY <2>1, <2>2, <2>3 DEF MSide, MPlace, MM!Idle
<1> QED
  BY <1>1, <1>3, <1>4

LEMMA MRefusedInv == ASSUME SharedInv, UNCHANGED rOwn, M!Refused PROVE SharedInv'
<1> SUFFICES ASSUME Keeps("MigrateRepo") PROVE MSide'
  BY MLocal DEF M!Refused, M!OnlyLocal
<1>1. MSide /\ M!Running /\ UNCHANGED <<M!store, mAsked>> /\ M!Retry
  BY MAtRuns DEF M!Refused, SharedInv, M!OnlyLocal, M!OnlyKubernetes, M!OnlyPass, M!Calls
<1> QED
  BY <1>1, MEnds

LEMMA MStepInv == ASSUME SharedInv, UNCHANGED rOwn, M!Step PROVE SharedInv'
  BY MBuildInv, MDeleteRepoInv, MRemoveFinalizerInv, MGetRepoInv, MMigrateRepoInv,
     MAddFinalizerInv, MRefusedInv DEF M!Step

(* The counters stay natural numbers.                                      *)
LEMMA MFails ==
  ASSUME SharedInv, M!Fail
  PROVE ops' \in Nat /\ fails' \in Nat /\ crashes' \in Nat
  BY DEF SharedInv, World, R!SharedOK, M!Fail

LEMMA MCallFailsInv == ASSUME SharedInv, UNCHANGED rOwn, M!CallFails PROVE SharedInv'
<1>1. /\ UNCHANGED <<M!store, repos, org, instance, mAsked, lost>>
      /\ ops' \in Nat /\ fails' \in Nat /\ crashes' \in Nat
      /\ MSide /\ M!Running /\ M!Retry
  BY MFails DEF M!CallFails, M!Unfailed, SharedInv
<1> QED
  BY <1>1, MQuiet, MEnds

LEMMA MReplyLostInv == ASSUME SharedInv, UNCHANGED rOwn, M!ReplyLost PROVE SharedInv'
<1>1. /\ UNCHANGED <<M!store, org, instance, mAsked, rAsked, lost>>
      /\ ops' \in Nat /\ fails' \in Nat /\ crashes' \in Nat
      /\ M!Retry
  BY MFails DEF M!ReplyLost, M!Unfailed, rOwn
<1>2. MSide /\ M!Running
  BY MAtRuns DEF M!ReplyLost, SharedInv, M!DeleteRepoServed, M!MigrateRepoServed, M!Calls
<1>3. /\ Keeps("MigrateRepo") /\ Keeps("Repo") /\ MakesNone("Repo")
      /\ repos' \in [Keys -> R!Repository \cup {NoRepo}]
  BY <1>1, MDeleteServed, MCreateServed DEF M!ReplyLost
<1>4. MSide'
  BY <1>1, <1>2, <1>3, MEnds
<1> QED
  BY <1>1, <1>3, <1>4, RFrame, MWorld DEF SharedInv

LEMMA MWatchInv ==
  ASSUME SharedInv, UNCHANGED rOwn, NEW k \in Keys, M!Watch(k) PROVE SharedInv'
<1>1. /\ MM!Observe(k) /\ MTypes /\ MSide
      /\ UNCHANGED <<repos, org, instance, mAsked, lost, ops, fails, crashes>>
      /\ ops \in Nat /\ fails \in Nat /\ crashes \in Nat
  BY MRuntime DEF M!Watch, SharedInv, MSide, M!gitea, M!budget, World, R!SharedOK
<1> SUFFICES ASSUME Keeps("MigrateRepo") PROVE MSide'
  BY <1>1, MQuiet
<1>2. MTypes'
  BY <1>1, MM!ObserveOK DEF MTypes
<1>3. MCopies'
  BY <1>1, MM!ObserveCopy DEF MTypes, MSide, MCopies, Keeps
<1>4. MPlace'
  <2>1. mPass.at \in M!Calls => mPass.key \in Keys
    BY <1>1 DEF MTypes, MM!RuntimeOK, MM!Pass, MM!Idle, M!Calls
  <2> QED
    BY <1>1, <2>1 DEF MSide, MPlace, Keeps, MM!Observe, MadeBy, R!HasRepo, M!Calls
<1> QED
  BY <1>2, <1>3, <1>4 DEF MSide

LEMMA MResyncInv == ASSUME SharedInv, UNCHANGED rOwn, M!Resync PROVE SharedInv'
<1>1. /\ MM!Requeue /\ MTypes /\ MSide
      /\ UNCHANGED <<repos, org, instance, mAsked, lost, ops, fails, crashes>>
      /\ ops \in Nat /\ fails \in Nat /\ crashes \in Nat
  BY MRuntime DEF M!Resync, SharedInv, MSide, M!gitea, M!budget, World, R!SharedOK
<1> SUFFICES ASSUME Keeps("MigrateRepo") PROVE MSide'
  BY <1>1, MQuiet
<1>2. MTypes'
  BY <1>1, MM!RequeueOK DEF MTypes
<1>3. MCopies'
  BY <1>1, MM!KeepCopy DEF MSide, MCopies, Keeps, MM!Requeue
<1>4. MPlace'
  <2>1. mPass.at \in M!Calls => mPass.key \in Keys
    BY <1>1 DEF MTypes, MM!RuntimeOK, MM!Pass, MM!Idle, M!Calls
  <2> QED
    BY <1>1, <2>1 DEF MSide, MPlace, Keeps, MM!Requeue, MadeBy, R!HasRepo, M!Calls
<1> QED
  BY <1>2, <1>3, <1>4 DEF MSide

(* Somebody else's write of CR k: the new one has the finalizer only if    *)
(* the old one had it, and its mark counts.                                *)
LEMMA MPuts ==
  ASSUME SharedInv, NEW k \in Keys, NEW w \in M!MigrateRepoCR \cup {Absent}, M!Put(k, w),
         mAsked \subseteq mAsked', Keeps("MigrateRepo"), MakesNone("MigrateRepo"),
         w # Absent => /\ w.del => k \in mAsked'
                       /\ w.fin => mCR[k] # Absent /\ mCR[k].fin
  PROVE MSide'
<1>1. MM!Put(k, w) /\ MTypes /\ MSide
  BY MRuntime DEF SharedInv, MSide
<1>2. MTypes'
  BY <1>1, MM!PutOK DEF MTypes
<1>3. MCopies'
  <2> SUFFICES ASSUME NEW j \in Keys, NEW o, MM!Copy(j, o)'
               PROVE (o.del => j \in mAsked') /\ (o.fin => Kept("MigrateRepo", j))
    BY DEF MCopies, Keeps
  <2>1. MM!Copy(j, o) \/ (j = k /\ o = w /\ o # Absent)
    BY <1>1, MM!PutCopy DEF MTypes
  <2>2. mCR[k] # Absent => MM!Copy(k, mCR[k])
    BY DEF MM!Copy
  <2> QED
    BY <1>1, <2>1, <2>2 DEF MSide, MCopies
<1>4. MPlace'
  <2>1. /\ mPass.at \in M!Calls => mPass.key \in Keys
        /\ \/ mPass' = mPass
           \/ /\ mPass'.at = mPass.at /\ mPass'.key = mPass.key
              /\ mPass'.obj = mPass.obj
    BY <1>1 DEF MTypes, MM!RuntimeOK, MM!Pass, MM!Idle, M!Calls, MM!Put, MM!Running
  <2> QED
    BY <1>1, <2>1 DEF MSide, MPlace, Keeps, MakesNone, M!Calls
<1> QED
  BY <1>2, <1>3, <1>4 DEF MSide

LEMMA MOperates ==
  ASSUME SharedInv, M!Operate
  PROVE ops' \in Nat /\ fails' \in Nat /\ crashes' \in Nat
  BY DEF SharedInv, World, R!SharedOK, M!Operate

LEMMA MApplyInv ==
  ASSUME SharedInv, UNCHANGED rOwn, NEW k \in Keys, NEW s \in MigrateSpecs, M!ApplyMigrateRepo(k, s)
  PROVE SharedInv'
<1>1. /\ UNCHANGED <<repos, org, instance, mAsked, rAsked, lost>>
      /\ ops' \in Nat /\ fails' \in Nat /\ crashes' \in Nat
      /\ MigrateSpecs \subseteq M!MigrateRepoSpec /\ MSide /\ MTypes
  BY MOperates, SharedConstants
     DEF M!ApplyMigrateRepo, M!gitea, M!MigrateRepoConstants, SharedInv, MSide, rOwn
<1>2. Keeps("MigrateRepo") /\ MakesNone("MigrateRepo")
  BY <1>1, QuietRepos
<1>3. CASE M!Put(k, [spec |-> s, fin |-> FALSE, del |-> FALSE])
  <2> DEFINE w == [spec |-> s, fin |-> FALSE, del |-> FALSE]
  <2>1. w \in M!MigrateRepoCR /\ ~w.del /\ ~w.fin
    BY <1>1 DEF M!MigrateRepoCR
  <2>2. M!Put(k, w)
    BY <1>3
  <2> HIDE DEF w
  <2> QED
    BY <1>1, <1>2, <2>1, <2>2, MPuts, MQuiet
<1>4. CASE M!Exists(k) /\ M!Put(k, [mCR[k] EXCEPT !.spec = s])
  <2> DEFINE w == [mCR[k] EXCEPT !.spec = s]
  <2>1. /\ mCR[k] \in M!MigrateRepoCR /\ mCR[k] # Absent
        /\ MM!Copy(k, mCR[k])
    BY <1>1, <1>4 DEF MTypes, MM!RuntimeOK, M!Exists, MM!Copy
  <2>2. w \in M!MigrateRepoCR /\ w.del = mCR[k].del /\ w.fin = mCR[k].fin /\ M!Put(k, w)
    BY <1>1, <1>4, <2>1 DEF M!MigrateRepoCR
  <2>3. w.del => k \in mAsked
    BY <1>1, <2>1, <2>2 DEF MSide, MCopies
  <2> HIDE DEF w
  <2> QED
    BY <1>1, <1>2, <2>1, <2>2, <2>3, MPuts, MQuiet
<1> QED
  BY <1>3, <1>4 DEF M!ApplyMigrateRepo

LEMMA MKubectlDeleteInv ==
  ASSUME SharedInv, UNCHANGED rOwn, NEW k \in Keys, M!KubectlDelete(k) PROVE SharedInv'
<1>1. /\ UNCHANGED <<repos, org, instance, rAsked, lost>>
      /\ mAsked' = mAsked \cup {k}
      /\ ops' \in Nat /\ fails' \in Nat /\ crashes' \in Nat
      /\ MSide /\ MTypes
  BY MOperates DEF M!KubectlDelete, M!gitea, SharedInv, MSide, rOwn
<1>2. \A kind : Keeps(kind) /\ MakesNone(kind)
  BY <1>1, QuietRepos
<1>3. MSide'
  <2> DEFINE w == IF mCR[k].fin THEN [mCR[k] EXCEPT !.del = TRUE] ELSE Absent
  <2>1. mCR[k] \in M!MigrateRepoCR /\ mCR[k] # Absent /\ M!Put(k, w)
    BY <1>1 DEF MTypes, MM!RuntimeOK, M!Exists, M!KubectlDelete, M!PutDeleted
  <2>2. /\ w \in M!MigrateRepoCR \cup {Absent}
        /\ w # Absent => (w.fin => mCR[k].fin)
    BY <2>1 DEF M!MigrateRepoCR
  <2> HIDE DEF w
  <2> QED
    BY <1>1, <1>2, <2>1, <2>2, MPuts
<1>4. World'
  BY <1>1 DEF SharedInv, World, M!SharedOK, R!SharedOK, M!Repository, R!Repository, rOwn
<1> QED
  BY <1>2, <1>3, <1>4, RFrame DEF SharedInv

-----------------------------------------------------------------------------
(* What concerns both controllers.                                         *)

LEMMA BothFrame ==
  ASSUME SharedInv, UNCHANGED <<rOwn, mOwn>>, World',
         \A kind \in Kinds : Keeps(kind) /\ MakesNone(kind)
  PROVE SharedInv'
  BY RFrame, MFrame DEF SharedInv, Kinds

LEMMA RRuntimeSame ==
  ASSUME UNCHANGED <<R!runtime, rAsked>> PROVE UNCHANGED rOwn
  BY DEF R!runtime, R!store, rOwn

LEMMA RemoveRepoInv ==
  ASSUME SharedInv, UNCHANGED mOwn, NEW k \in Keys, R!RemoveRepo(k) PROVE SharedInv'
<1>1. /\ UNCHANGED <<rOwn, rAsked, mAsked, org, instance>>
      /\ repos' = [repos EXCEPT ![k] = NoRepo] /\ lost' = lost \cup {k}
      /\ ops' \in Nat /\ fails' \in Nat /\ crashes' \in Nat
      /\ World
  BY ROperates, RRuntimeSame DEF R!RemoveRepo, SharedInv, rOwn, mOwn
<1>2. \A kind \in Kinds : Keeps(kind) /\ MakesNone(kind)
  BY <1>1, DropRepo
<1>3. World'
  BY <1>1 DEF World, R!SharedOK, M!SharedOK, R!Repository, M!Repository
<1> QED
  BY <1>1, <1>2, <1>3, BothFrame

LEMMA RegisterRepoInv ==
  ASSUME SharedInv, UNCHANGED mOwn, NEW k \in Keys, NEW c \in Contents,
         R!RegisterRepo(k, c)
  PROVE SharedInv'
<1> DEFINE r == [content |-> c, mirror |-> FALSE, by |-> "hand"]
<1>1. /\ UNCHANGED <<rOwn, rAsked, mAsked, lost, org, instance>>
      /\ repos' = [repos EXCEPT ![k] = r] /\ ~R!HasRepo(k)
      /\ ops' \in Nat /\ fails' \in Nat /\ crashes' \in Nat
      /\ World
  BY ROperates, RRuntimeSame DEF R!RegisterRepo, SharedInv, rOwn, mOwn
<1>2. r \in R!Repository /\ r.by \notin Kinds
  BY DEF R!Repository, Kinds
<1> HIDE DEF r
<1>3. \A kind \in Kinds : Keeps(kind) /\ MakesNone(kind)
  BY <1>1, <1>2, NewRepo
<1>4. World'
  BY <1>1, <1>2 DEF World, R!SharedOK, M!SharedOK, R!Repository, M!Repository
<1> QED
  BY <1>1, <1>3, <1>4, BothFrame

LEMMA DeleteInstanceInv ==
  ASSUME SharedInv, UNCHANGED mOwn, R!DeleteInstance PROVE SharedInv'
<1>1. /\ UNCHANGED <<rOwn, rAsked, mAsked>>
      /\ repos' = [k \in Keys |-> NoRepo]
      /\ lost' = lost \cup {k \in Keys : R!HasRepo(k)}
      /\ instance' = "gone" /\ org' = [org EXCEPT !.made = FALSE]
      /\ ops' \in Nat /\ fails' \in Nat /\ crashes' \in Nat
      /\ World
  BY ROperates, RRuntimeSame DEF R!DeleteInstance, SharedInv, rOwn, mOwn
<1>2. \A kind \in Kinds : Keeps(kind) /\ MakesNone(kind)
  BY <1>1 DEF Keeps, MakesNone, Kept, MadeBy, Gone, R!HasRepo
<1>3. World'
  BY <1>1 DEF World, R!SharedOK, M!SharedOK, R!Repository, M!Repository
<1> QED
  BY <1>1, <1>2, <1>3, BothFrame

(* The Org and the instance come, and the Org goes.                        *)
LEMMA OrgComesInv ==
  ASSUME SharedInv, UNCHANGED mOwn,
         R!OrgApplied \/ R!OrgMade \/ R!OrgGone \/ R!InstanceReady
  PROVE SharedInv'
<1>1. /\ UNCHANGED <<rOwn, repos, rAsked, mAsked, lost>>
      /\ org' \in [cr : BOOLEAN, made : BOOLEAN]
      /\ instance' \in {"pending", "ready", "gone"}
      /\ ops' \in Nat /\ fails' \in Nat /\ crashes' \in Nat
  <2>1. CASE R!OrgApplied
    BY <2>1, RRuntimeSame
       DEF R!OrgApplied, R!budget, SharedInv, World, R!SharedOK, mOwn
  <2>2. CASE R!OrgMade
    BY <2>2, RRuntimeSame DEF R!OrgMade, R!budget, SharedInv, World, R!SharedOK, mOwn
  <2>3. CASE R!OrgGone
    BY <2>3, RRuntimeSame, ROperates DEF R!OrgGone, SharedInv, World, R!SharedOK, mOwn
  <2>4. CASE R!InstanceReady
    BY <2>4, RRuntimeSame
       DEF R!InstanceReady, R!budget, SharedInv, World, R!SharedOK, mOwn
  <2> QED
    BY <2>1, <2>2, <2>3, <2>4
<1>2. \A kind \in Kinds : Keeps(kind) /\ MakesNone(kind)
  BY <1>1, QuietRepos
<1>3. World'
  BY <1>1 DEF SharedInv, World, R!SharedOK, M!SharedOK, R!Repository, M!Repository
<1> QED
  BY <1>1, <1>2, <1>3, BothFrame

LEMMA AroundInv == ASSUME SharedInv, Around PROVE SharedInv'
<1>1. UNCHANGED mOwn /\ (R!ByHand \/ R!Around)
  BY DEF Around
<1>2. CASE R!ByHand
  BY <1>1, <1>2, RemoveRepoInv, RegisterRepoInv DEF R!ByHand
<1>3. CASE R!Around
  BY <1>1, <1>3, DeleteInstanceInv, OrgComesInv DEF R!Around
<1> QED
  BY <1>1, <1>2, <1>3

LEMMA RStartsAgain ==
  ASSUME RSide, R!StartAgain, UNCHANGED rAsked, Keeps("Repo")
  PROVE RSide'
<1>1. RR!StartAgain /\ RTypes
  BY RRuntime DEF RSide
<1>2. RTypes'
  BY <1>1, RR!StartAgainOK DEF RTypes
<1>3. RCopies'
  BY <1>1, RR!StartAgainCopy DEF RSide, RCopies, Keeps
<1>4. RPlace'
  BY <1>1 DEF RPlace, RR!StartAgain, RR!Idle
<1> QED
  BY <1>2, <1>3, <1>4 DEF RSide

LEMMA MStartsAgain ==
  ASSUME MSide, M!StartAgain, UNCHANGED mAsked, Keeps("MigrateRepo")
  PROVE MSide'
<1>1. MM!StartAgain /\ MTypes
  BY MRuntime DEF MSide
<1>2. MTypes'
  BY <1>1, MM!StartAgainOK DEF MTypes
<1>3. MCopies'
  BY <1>1, MM!StartAgainCopy DEF MSide, MCopies, Keeps
<1>4. MPlace'
  BY <1>1 DEF MPlace, MM!StartAgain, MM!Idle
<1> QED
  BY <1>2, <1>3, <1>4 DEF MSide

LEMMA RestartInv == ASSUME SharedInv, Restart PROVE SharedInv'
<1>1. /\ R!StartAgain /\ M!StartAgain
      /\ UNCHANGED <<repos, org, instance, rAsked, mAsked, lost>>
      /\ ops' \in Nat /\ fails' \in Nat /\ crashes' \in Nat
  BY DEF Restart, R!Restart, R!gitea, SharedInv, World, R!SharedOK
<1>2. \A kind \in Kinds : Keeps(kind)
  BY <1>1, QuietRepos
<1>3. World'
  BY <1>1 DEF SharedInv, World, R!SharedOK, M!SharedOK, R!Repository, M!Repository
<1> QED
  BY <1>1, <1>2, <1>3, RStartsAgain, MStartsAgain DEF SharedInv, Kinds

-----------------------------------------------------------------------------
(* The invariant is one.                                                   *)

LEMMA InitInv == Init => SharedInv
<1> SUFFICES ASSUME Init PROVE SharedInv
  OBVIOUS
<1>1. World
  BY DEF Init, R!Init, M!Init, R!GiteaInit, World, R!SharedOK, M!SharedOK
<1>2. RR!RuntimeInit /\ MM!RuntimeInit
  BY DEF Init, R!Init, M!Init, R!RuntimeInit, M!RuntimeInit, RR!RuntimeInit,
         MM!RuntimeInit, R!Idle, M!Idle, RR!Idle, MM!Idle
<1>3. RTypes /\ MTypes
  BY <1>2, RR!RuntimeInitOK, MM!RuntimeInitOK DEF RTypes, MTypes
<1>4. RCopies /\ MCopies
  BY <1>2, RR!InitCopy, MM!InitCopy DEF RCopies, MCopies
<1>5. RPlace /\ MPlace
  BY <1>2 DEF RR!RuntimeInit, MM!RuntimeInit, RPlace, MPlace, RR!Idle, MM!Idle
<1> QED
  BY <1>1, <1>3, <1>4, <1>5 DEF SharedInv, RSide, MSide

LEMMA RAloneInv == ASSUME SharedInv, RAlone PROVE SharedInv'
  BY RCallFailsInv, RReplyLostInv, RKubectlDeleteInv, RApplyInv DEF RAlone, R!People

LEMMA MAloneInv == ASSUME SharedInv, MAlone PROVE SharedInv'
  BY MCallFailsInv, MReplyLostInv, MKubectlDeleteInv, MApplyInv DEF MAlone, M!People

LEMMA StutterInv == ASSUME SharedInv, UNCHANGED vars PROVE SharedInv'
<1>1. UNCHANGED <<rOwn, mOwn, repos, org, instance, lost, ops, fails, crashes, rAsked,
                  mAsked>>
  BY DEF vars, rOwn, mOwn
<1>2. World'
  BY <1>1 DEF SharedInv, World, R!SharedOK, M!SharedOK, R!Repository, M!Repository
<1> QED
  BY <1>1, <1>2, QuietRepos, BothFrame

LEMMA NextInv == ASSUME SharedInv, [Next]_vars PROVE SharedInv'
<1>1. ASSUME NEW k \in Keys, RReconcile(k) \/ MReconcile(k) \/ RWatch(k) \/ MWatch(k)
      PROVE SharedInv'
  BY <1>1, RReconcileInv, MReconcileInv, RWatchInv, MWatchInv
     DEF RReconcile, MReconcile, RWatch, MWatch
<1>2. CASE RStep \/ MStep \/ RResync \/ MResync
  BY <1>2, RStepInv, MStepInv, RResyncInv, MResyncInv DEF RStep, MStep, RResync, MResync
<1> QED
  BY <1>1, <1>2, RAloneInv, MAloneInv, AroundInv, RestartInv, StutterInv DEF Next

LEMMA SharedInvariant == Spec => []SharedInv
  BY InitInv, NextInv, PTL DEF Spec

(* Both runtimes and the repositories keep their types.                    *)
THEOREM SharedTypes == Spec => []TypeOK
<1>1. SharedInv => TypeOK
  BY DEF SharedInv, World, RSide, MSide, RTypes, MTypes, TypeOK, R!TypeOK, M!TypeOK,
         R!RuntimeOK, M!RuntimeOK, RR!RuntimeOK, MM!RuntimeOK, R!Pass, RR!Pass, M!Pass,
         MM!Pass, R!Idle, RR!Idle, M!Idle, MM!Idle
<1> QED
  BY <1>1, SharedInvariant, PTL

(* Two CRs hold the finalizer for one repository only when it, or an       *)
(* earlier one, had a reason to go: the first finalizer stands for a       *)
(* repository made for its CR, and so does the second.                     *)
THEOREM SharedOneHolder == Spec => []OneHolder
<1>1. SharedInv => OneHolder
  <2> SUFFICES ASSUME SharedInv, NEW k \in Keys,
                      R!Exists(k), rCR[k].fin, M!Exists(k), mCR[k].fin
               PROVE Gone(k)
    BY DEF OneHolder, Gone
  <2>1. RR!Copy(k, rCR[k]) /\ MM!Copy(k, mCR[k])
    BY DEF R!Exists, M!Exists, RR!Copy, MM!Copy
  <2>2. Kept("Repo", k) /\ Kept("MigrateRepo", k)
    BY <2>1 DEF SharedInv, RSide, MSide, RCopies, MCopies
  <2> QED
    BY <2>2 DEF Kept, MadeBy
<1> QED
  BY <1>1, SharedInvariant, PTL

-----------------------------------------------------------------------------
(* What a step may never do.                                               *)

(* A repository that goes.                                                 *)
Goes(k) == R!HasRepo(k) /\ ~R!HasRepo(k)'

LEMMA RGoesAsked ==
  ASSUME SharedInv, UNCHANGED mOwn, R!Step \/ R!CallFails \/ R!ReplyLost,
         NEW k \in Keys, Goes(k)
  PROVE k \in rAsked
<1>1. UNCHANGED <<lost, rAsked, mAsked>>
  BY DEF R!Step, R!Build, R!BuildWith, R!DeleteRepo, R!RemoveFinalizer, R!GetRepo,
         R!EditRepo, R!CreateOrgRepo, R!PushMirrors, R!StatusUpdate, R!AddFinalizer,
         R!Refused, R!OnlyLocal, R!OnlyKubernetes, R!OnlyGitea, R!OnlyPass,
         R!CallFails, R!ReplyLost, R!Unfailed, mOwn
<1>2. CASE R!DeleteRepoServed
  BY <1>1, <1>2, RDeleteServed DEF Goes
<1>3. CASE R!CreateOrgRepoServed
  BY <1>1, <1>3, RCreateServed DEF Goes
<1>4. CASE R!PushMirrors
  <2>1. CASE R!HasRepo(rPass.key) /\ repos' = [repos EXCEPT ![rPass.key].mirror = TRUE]
    <3>1. RSide /\ R!Running /\ World
      BY <1>4, AtRuns DEF R!PushMirrors, SharedInv, R!Calls
    <3>2. PICK j \in Keys : j = rPass.key
      BY <3>1, RPassFields
    <3>3. \A i \in Keys : R!HasRepo(i) => R!HasRepo(i)'
      <4>1. repos[j] \in R!Repository /\ repos \in [Keys -> R!Repository \cup {NoRepo}]
        BY <2>1, <3>1, <3>2 DEF World, R!SharedOK, R!HasRepo
      <4>2. repos'[j] \in R!Repository /\ \A i \in Keys \ {j} : repos'[i] = repos[i]
        BY <2>1, <3>2, <4>1 DEF R!Repository
      <4>3. NoRepo \notin R!Repository
        BY SharedConstants DEF R!RepositoryConstants
      <4> QED
        BY <4>1, <4>2, <4>3 DEF R!HasRepo
    <3> QED
      BY <3>3 DEF Goes
  <2>2. CASE UNCHANGED repos
    BY <2>2 DEF Goes, R!HasRepo
  <2> QED
    BY <1>4, <2>1, <2>2 DEF R!PushMirrors
<1>5. \/ R!DeleteRepoServed \/ R!CreateOrgRepoServed \/ R!PushMirrors
      \/ UNCHANGED repos
  BY DEF R!Step, R!Build, R!BuildWith, R!DeleteRepo, R!RemoveFinalizer, R!GetRepo,
         R!EditRepo, R!CreateOrgRepo, R!StatusUpdate, R!AddFinalizer,
         R!Refused, R!OnlyLocal, R!OnlyKubernetes, R!CallFails, R!ReplyLost
<1> QED
  BY <1>2, <1>3, <1>4, <1>5 DEF Goes, R!HasRepo

LEMMA MGoesAsked ==
  ASSUME SharedInv, UNCHANGED rOwn, M!Step \/ M!CallFails \/ M!ReplyLost,
         NEW k \in Keys, Goes(k)
  PROVE k \in mAsked
<1>1. UNCHANGED <<lost, rAsked, mAsked>>
  BY DEF M!Step, M!Build, M!BuildWith, M!DeleteRepo, M!RemoveFinalizer, M!GetRepo,
         M!MigrateRepo, M!AddFinalizer, M!Refused, M!OnlyLocal, M!OnlyKubernetes,
         M!OnlyGitea, M!OnlyPass, M!CallFails, M!ReplyLost, M!Unfailed, rOwn
<1>2. CASE M!DeleteRepoServed
  BY <1>1, <1>2, MDeleteServed DEF Goes
<1>3. CASE M!MigrateRepoServed
  BY <1>1, <1>3, MCreateServed DEF Goes
<1>4. M!DeleteRepoServed \/ M!MigrateRepoServed \/ UNCHANGED repos
  BY DEF M!Step, M!Build, M!BuildWith, M!DeleteRepo, M!RemoveFinalizer, M!GetRepo,
         M!MigrateRepo, M!AddFinalizer, M!Refused, M!OnlyLocal, M!OnlyKubernetes,
         M!CallFails, M!ReplyLost
<1> QED
  BY <1>2, <1>3, <1>4 DEF Goes, R!HasRepo

LEMMA AroundGoes ==
  ASSUME SharedInv, Around, NEW k \in Keys, Goes(k)
  PROVE k \in lost'
<1>1. CASE R!ByHand
  <2>1. ASSUME NEW j \in Keys, R!RemoveRepo(j) PROVE k \in lost'
    BY <2>1 DEF R!RemoveRepo, SharedInv, World, R!SharedOK, Goes, R!HasRepo
  <2>2. ASSUME NEW j \in Keys, NEW c \in Contents, R!RegisterRepo(j, c) PROVE FALSE
    BY <2>2 DEF R!RegisterRepo, SharedInv, World, R!SharedOK, Goes, R!HasRepo
  <2> QED
    BY <1>1, <2>1, <2>2 DEF R!ByHand
<1>2. CASE R!DeleteInstance
  BY <1>2 DEF R!DeleteInstance, Goes, R!HasRepo
<1>3. CASE R!OrgApplied \/ R!OrgMade \/ R!OrgGone \/ R!InstanceReady
  BY <1>3 DEF R!OrgApplied, R!OrgMade, R!OrgGone, R!InstanceReady, Goes, R!HasRepo
<1> QED
  BY <1>1, <1>2, <1>3 DEF Around, R!Around

(* Whatever the controllers, people and failures do, a repository goes     *)
(* only by hand, with the instance, or for a CR somebody asked to delete.  *)
THEOREM SharedDeletesOnlyAsked == Spec => DeletesOnlyAsked
<1>1. SharedInv /\ [Next]_vars =>
        [\A k \in Keys :
           R!HasRepo(k) /\ repos'[k] = NoRepo => k \in lost' \cup rAsked \cup mAsked]_vars
  <2> SUFFICES ASSUME SharedInv, [Next]_vars, NEW k \in Keys, Goes(k)
               PROVE k \in lost' \cup rAsked \cup mAsked
    BY DEF Goes, R!HasRepo
  <2>1. CASE RStep \/ RAlone
    <3>1. CASE R!Step \/ R!CallFails \/ R!ReplyLost
      BY <2>1, <3>1, RGoesAsked DEF RStep, RAlone, MStep, mOwn, R!People
    <3>2. CASE R!People
      BY <3>2 DEF R!People, R!KubectlDelete, R!ApplyRepo, R!gitea, Goes, R!HasRepo
    <3> QED
      BY <2>1, <3>1, <3>2 DEF RStep, RAlone
  <2>2. CASE MStep \/ MAlone
    <3>1. CASE M!Step \/ M!CallFails \/ M!ReplyLost
      BY <2>2, <3>1, MGoesAsked DEF MStep, MAlone
    <3>2. CASE M!People
      BY <3>2 DEF M!People, M!KubectlDelete, M!ApplyMigrateRepo, M!gitea, Goes, R!HasRepo
    <3> QED
      BY <2>2, <3>1, <3>2 DEF MStep, MAlone
  <2>3. CASE Around
    BY <2>3, AroundGoes
  <2>4. ASSUME NEW j \in Keys, RReconcile(j) \/ MReconcile(j) \/ RWatch(j) \/ MWatch(j)
        PROVE FALSE
    BY <2>4 DEF RReconcile, MReconcile, RWatch, MWatch, R!Reconcile, M!Reconcile,
       R!OnlyKubernetes, M!OnlyKubernetes, R!Watch, M!Watch, R!gitea, M!gitea, Goes,
       R!HasRepo
  <2>5. CASE RResync \/ MResync \/ Restart \/ UNCHANGED vars
    BY <2>5 DEF RResync, MResync, R!Resync, M!Resync, Restart, R!Restart, R!gitea, M!gitea,
       vars, Goes, R!HasRepo
  <2> QED
    BY <2>1, <2>2, <2>3, <2>4, <2>5 DEF Next
<1> QED
  BY <1>1, SharedInvariant, PTL DEF Spec, DeletesOnlyAsked

(* A CR of either kind that goes with its finalizer on.                    *)
RGoesHeld(k) == R!Exists(k) /\ rCR[k].fin /\ rCR'[k] = Absent
MGoesHeld(k) == M!Exists(k) /\ mCR[k].fin /\ mCR'[k] = Absent

(* The last copy of a Repo with its finalizer goes in the step that       *)
(* removes the finalizer, and in no other.                                 *)
LEMMA RStepReleases ==
  ASSUME SharedInv, R!Step, NEW k \in Keys, RGoesHeld(k)
  PROVE R!RemoveFinalizer /\ rPass.key = k
<1>1. /\ RSide /\ RTypes /\ rCR \in [Keys -> R!Repo \cup {Absent}]
      /\ rCR[k] # Absent /\ rCR'[k] = Absent
      /\ Absent \notin R!Repo
  BY SharedConstants DEF RGoesHeld, R!Exists, SharedInv, RSide, RTypes, RR!RuntimeOK,
     R!RepoConstants
<1>2. CASE R!StatusUpdate
  <2> DEFINE w == [rPass.obj EXCEPT !.prov = TRUE]
  <2>1. R!Running
    BY <1>2, AtRuns DEF R!StatusUpdate, R!Calls
  <2>2. w \in R!Repo
    BY <1>1, <2>1, RPassFields DEF R!Repo
  <2>3. R!Write(w) \/ UNCHANGED rCR
    BY <1>2 DEF R!StatusUpdate, R!Update, R!Conflict, R!store
  <2> HIDE DEF w
  <2> QED
    BY <1>1, <2>2, <2>3 DEF R!Write
<1>3. CASE R!AddFinalizer
  <2> DEFINE w == [rPass.obj EXCEPT !.fin = TRUE]
  <2>1. R!Running
    BY <1>3, AtRuns DEF R!AddFinalizer, R!Calls
  <2>2. w \in R!Repo
    BY <1>1, <2>1, RPassFields DEF R!Repo
  <2>3. R!Write(w) \/ UNCHANGED rCR
    BY <1>3 DEF R!AddFinalizer, R!Conflict, R!store
  <2> HIDE DEF w
  <2> QED
    BY <1>1, <2>2, <2>3 DEF R!Write
<1>4. CASE R!RemoveFinalizer
  BY <1>1, <1>4 DEF R!RemoveFinalizer, R!Release, R!Write, R!Conflict, R!store
<1>5. \/ R!StatusUpdate \/ R!AddFinalizer \/ R!RemoveFinalizer
      \/ UNCHANGED rCR
  BY DEF R!Step, R!Build, R!BuildWith, R!DeleteRepo, R!GetRepo, R!EditRepo,
         R!CreateOrgRepo, R!PushMirrors, R!Refused, R!OnlyLocal, R!OnlyGitea, R!store
<1> QED
  BY <1>1, <1>2, <1>3, <1>4, <1>5

LEMMA RPeopleRelease ==
  ASSUME SharedInv, R!People, NEW k \in Keys, RGoesHeld(k)
  PROVE FALSE
<1>1. /\ rCR \in [Keys -> R!Repo \cup {Absent}] /\ Absent \notin R!Repo
      /\ RepoSpecs \subseteq R!RepoSpec
  BY SharedConstants DEF SharedInv, RSide, RTypes, RR!RuntimeOK, R!RepoConstants
<1>2. rCR[k] # Absent /\ rCR[k] \in R!Repo /\ rCR[k].fin /\ rCR'[k] = Absent
  BY <1>1 DEF RGoesHeld, R!Exists
<1>3. ASSUME NEW j \in Keys, R!KubectlDelete(j) PROVE FALSE
  <2>1. [rCR[k] EXCEPT !.del = TRUE] \in R!Repo
    BY <1>2 DEF R!Repo
  <2> QED
    BY <1>1, <1>2, <1>3, <2>1 DEF R!KubectlDelete, R!PutDeleted, R!Put
<1>4. ASSUME NEW j \in Keys, NEW s \in RepoSpecs, R!ApplyRepo(j, s) PROVE FALSE
  <2>1. [rCR[k] EXCEPT !.spec = s] \in R!Repo
    BY <1>1, <1>2 DEF R!Repo
  <2> QED
    BY <1>1, <1>2, <1>4, <2>1 DEF R!ApplyRepo, R!Put, R!Exists
<1> QED
  BY <1>3, <1>4 DEF R!People

LEMMA RReleases ==
  ASSUME SharedInv, [Next]_vars, NEW k \in Keys, RGoesHeld(k)
  PROVE ~MadeBy("Repo", k)'
<1>1. rCR' # rCR
  BY DEF RGoesHeld, R!Exists
<1>2. ASSUME NEW j \in Keys, RReconcile(j) \/ MReconcile(j) \/ RWatch(j) \/ MWatch(j)
      PROVE UNCHANGED rCR
  BY <1>2 DEF RReconcile, MReconcile, RWatch, MWatch, R!Reconcile, R!Take, R!store,
     R!Watch, R!Observe, rOwn
<1>3. CASE MStep \/ MAlone \/ MResync \/ UNCHANGED vars
  BY <1>1, <1>3 DEF MStep, MAlone, MResync, vars, rOwn
<1>4. CASE RResync \/ Restart
  BY <1>1, <1>4 DEF RResync, R!Resync, R!Requeue, R!store, Restart, R!Restart, R!StartAgain
<1>5. CASE Around
  BY <1>1, <1>5 DEF Around, R!ByHand, R!RemoveRepo, R!RegisterRepo, R!Around,
     R!OrgApplied, R!OrgMade, R!OrgGone, R!InstanceReady, R!DeleteInstance, R!runtime,
     R!store
<1>6. CASE RAlone
  BY <1>1, <1>6, RPeopleRelease DEF RAlone, R!CallFails, R!ReplyLost, R!Unfailed, R!store
<1>7. CASE RStep
  <2>1. R!RemoveFinalizer /\ rPass.key = k
    BY <1>7, RStepReleases DEF RStep
  <2>2. ~MadeBy("Repo", k) /\ UNCHANGED repos
    BY <2>1 DEF R!RemoveFinalizer, R!OnlyKubernetes, R!At, SharedInv, RSide, RPlace
  <2> QED
    BY <2>2 DEF MadeBy, R!HasRepo
<1> QED
  BY <1>1, <1>2, <1>3, <1>4, <1>5, <1>6, <1>7 DEF Next

(* The last copy of a MigrateRepo with its finalizer goes in the step      *)
(* that removes it, and in no other.                                       *)
LEMMA MStepReleases ==
  ASSUME SharedInv, M!Step, NEW k \in Keys, MGoesHeld(k)
  PROVE M!RemoveFinalizer /\ mPass.key = k
<1>1. /\ MSide /\ MTypes /\ mCR \in [Keys -> M!MigrateRepoCR \cup {Absent}]
      /\ mCR[k] # Absent /\ mCR'[k] = Absent
      /\ Absent \notin M!MigrateRepoCR
  BY SharedConstants DEF MGoesHeld, M!Exists, SharedInv, MSide, MTypes, MM!RuntimeOK,
     M!MigrateRepoConstants
<1>3. CASE M!AddFinalizer
  <2> DEFINE w == [mPass.obj EXCEPT !.fin = TRUE]
  <2>1. M!Running
    BY <1>3, MAtRuns DEF M!AddFinalizer, M!Calls
  <2>2. w \in M!MigrateRepoCR
    BY <1>1, <2>1, MPassFields DEF M!MigrateRepoCR
  <2>3. M!Write(w) \/ UNCHANGED mCR
    BY <1>3 DEF M!AddFinalizer, M!Conflict, M!store
  <2> HIDE DEF w
  <2> QED
    BY <1>1, <2>2, <2>3 DEF M!Write
<1>4. CASE M!RemoveFinalizer
  BY <1>1, <1>4 DEF M!RemoveFinalizer, M!Release, M!Write, M!Conflict, M!store
<1>5. \/ M!AddFinalizer \/ M!RemoveFinalizer
      \/ UNCHANGED mCR
  BY DEF M!Step, M!Build, M!BuildWith, M!DeleteRepo, M!GetRepo, M!MigrateRepo,
         M!Refused, M!OnlyLocal, M!OnlyGitea, M!store
<1> QED
  BY <1>1, <1>3, <1>4, <1>5

LEMMA MPeopleRelease ==
  ASSUME SharedInv, M!People, NEW k \in Keys, MGoesHeld(k)
  PROVE FALSE
<1>1. /\ mCR \in [Keys -> M!MigrateRepoCR \cup {Absent}] /\ Absent \notin M!MigrateRepoCR
      /\ MigrateSpecs \subseteq M!MigrateRepoSpec
  BY SharedConstants DEF SharedInv, MSide, MTypes, MM!RuntimeOK, M!MigrateRepoConstants
<1>2. mCR[k] # Absent /\ mCR[k] \in M!MigrateRepoCR /\ mCR[k].fin /\ mCR'[k] = Absent
  BY <1>1 DEF MGoesHeld, M!Exists
<1>3. ASSUME NEW j \in Keys, M!KubectlDelete(j) PROVE FALSE
  <2>1. [mCR[k] EXCEPT !.del = TRUE] \in M!MigrateRepoCR
    BY <1>2 DEF M!MigrateRepoCR
  <2> QED
    BY <1>1, <1>2, <1>3, <2>1 DEF M!KubectlDelete, M!PutDeleted, M!Put
<1>4. ASSUME NEW j \in Keys, NEW s \in MigrateSpecs, M!ApplyMigrateRepo(j, s) PROVE FALSE
  <2>1. [mCR[k] EXCEPT !.spec = s] \in M!MigrateRepoCR
    BY <1>1, <1>2 DEF M!MigrateRepoCR
  <2> QED
    BY <1>1, <1>2, <1>4, <2>1 DEF M!ApplyMigrateRepo, M!Put, M!Exists
<1> QED
  BY <1>3, <1>4 DEF M!People

LEMMA MReleases ==
  ASSUME SharedInv, [Next]_vars, NEW k \in Keys, MGoesHeld(k)
  PROVE ~MadeBy("MigrateRepo", k)'
<1>1. mCR' # mCR
  BY DEF MGoesHeld, M!Exists
<1>2. ASSUME NEW j \in Keys, RReconcile(j) \/ MReconcile(j) \/ RWatch(j) \/ MWatch(j)
      PROVE UNCHANGED mCR
  BY <1>2 DEF RReconcile, MReconcile, RWatch, MWatch, M!Reconcile, M!Take, M!store,
     M!Watch, M!Observe, mOwn
<1>3. CASE RStep \/ RAlone \/ RResync \/ Around \/ UNCHANGED vars
  BY <1>1, <1>3 DEF RStep, RAlone, RResync, Around, vars, mOwn
<1>4. CASE MResync \/ Restart
  BY <1>1, <1>4 DEF MResync, M!Resync, M!Requeue, M!store, Restart, M!StartAgain
<1>5. CASE MAlone
  BY <1>1, <1>5, MPeopleRelease DEF MAlone, M!CallFails, M!ReplyLost, M!Unfailed, M!store
<1>6. CASE MStep
  <2>1. M!RemoveFinalizer /\ mPass.key = k
    BY <1>6, MStepReleases DEF MStep
  <2>2. ~MadeBy("MigrateRepo", k) /\ UNCHANGED repos
    BY <2>1 DEF M!RemoveFinalizer, M!OnlyKubernetes, M!At, SharedInv, MSide, MPlace
  <2> QED
    BY <2>2 DEF MadeBy, R!HasRepo
<1> QED
  BY <1>1, <1>2, <1>3, <1>4, <1>5, <1>6 DEF Next

(* The finalizer of either kind goes only when no repository made for that *)
(* CR is left, whatever the other controller, people and failures do.      *)
THEOREM SharedFinalizersGuard == Spec => FinalizersGuard
<1>1. SharedInv /\ [Next]_vars =>
        [\A k \in Keys :
           /\ R!Exists(k) /\ rCR[k].fin /\ rCR'[k] = Absent => ~Left("Repo", k)
           /\ M!Exists(k) /\ mCR[k].fin /\ mCR'[k] = Absent
                => ~Left("MigrateRepo", k)]_vars
  BY RReleases, MReleases DEF RGoesHeld, MGoesHeld, Left, MadeBy
<1> QED
  BY <1>1, SharedInvariant, PTL DEF Spec, FinalizersGuard

=============================================================================
