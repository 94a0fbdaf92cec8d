------------------------- MODULE SharedRepositories -------------------------
(***************************************************************************)
(* The Repo and the MigrateRepo controller side by side over the           *)
(* repositories of one organisation.  Both name a repository after its CR, *)
(* both put on the same finalizer (but on CRs of their own kind), and      *)
(* neither knows of the other.                                             *)
(***************************************************************************)
EXTENDS Naturals, FiniteSets

CONSTANTS Keys, Absent, Contents, NoRepo, RepoSpecs, MigrateSpecs,
          MaxOps, MaxFail, MaxCrash

VARIABLES
  rCR, rCache, rFresh, rQueue, rPass,  \* the runtime of the Repo controller
  mCR, mCache, mFresh, mQueue, mPass,  \* that of the MigrateRepo controller
  rAsked, mAsked,                      \* history: CRs a person deleted
  repos, org, instance, lost, ops, fails, crashes

R == INSTANCE RepoController WITH
  Specs <- RepoSpecs, cr <- rCR, cache <- rCache, fresh <- rFresh,
  queue <- rQueue, pass <- rPass, asked <- rAsked

M == INSTANCE MigrateRepoController WITH
  Specs <- MigrateSpecs, cr <- mCR, cache <- mCache, fresh <- mFresh,
  queue <- mQueue, pass <- mPass, asked <- mAsked

(* What the two controllers assume of their constants.                     *)
ASSUME SharedConstants ==
  R!RepositoryConstants /\ R!RepoConstants /\ M!MigrateRepoConstants

rOwn == <<rCR, rCache, rFresh, rQueue, rPass, rAsked>>
mOwn == <<mCR, mCache, mFresh, mQueue, mPass, mAsked>>
vars == <<rOwn, mOwn, repos, org, instance, lost, ops, fails, crashes>>

TypeOK == R!TypeOK /\ M!TypeOK

Init == R!Init /\ M!Init

(* A step of one controller, or of people with its CRs, leaves what the    *)
(* other one knows alone; ...                                              *)
RStep == R!Step /\ UNCHANGED mOwn
MStep == M!Step /\ UNCHANGED rOwn
RReconcile(k) == R!Reconcile(k) /\ UNCHANGED mOwn
MReconcile(k) == M!Reconcile(k) /\ UNCHANGED rOwn
RWatch(k) == R!Watch(k) /\ UNCHANGED mOwn
MWatch(k) == M!Watch(k) /\ UNCHANGED rOwn
RResync == R!Resync /\ UNCHANGED mOwn
MResync == M!Resync /\ UNCHANGED rOwn

RAlone == (R!CallFails \/ R!ReplyLost \/ R!People) /\ UNCHANGED mOwn
MAlone == (M!CallFails \/ M!ReplyLost \/ M!People) /\ UNCHANGED rOwn

(* ... what happens in Gitea and around it concerns both, and they restart *)
(* together.                                                               *)
Around == (R!ByHand \/ R!Around) /\ UNCHANGED mOwn

Restart ==
  /\ R!Restart
  /\ M!StartAgain /\ UNCHANGED mAsked

Next ==
  \/ RStep \/ MStep
  \/ \E k \in Keys : RReconcile(k) \/ MReconcile(k) \/ RWatch(k) \/ MWatch(k)
  \/ RAlone \/ MAlone \/ Around
  \/ RResync \/ MResync \/ Restart

Spec == Init /\ [][Next]_vars

Fairness ==
  /\ WF_vars(RStep) /\ WF_vars(MStep) /\ WF_vars(R!OrgMade /\ UNCHANGED mOwn)
  /\ \A k \in Keys :
       /\ SF_vars(RReconcile(k)) /\ SF_vars(MReconcile(k))
       /\ WF_vars(RWatch(k)) /\ WF_vars(MWatch(k))

(* The resync that MigrateRepo depends on.                                 *)
Resynced == WF_vars(MResync)

FairSpec == Spec /\ Fairness

-----------------------------------------------------------------------------
(* Properties.                                                             *)

(* The operator deletes a repository only for a CR of its name which       *)
(* someone asked to delete, whichever controller does it.                  *)
DeletesOnlyAsked ==
  [][\A k \in Keys :
       R!HasRepo(k) /\ repos'[k] = NoRepo => k \in lost' \cup rAsked \cup mAsked]_vars

(* Two CRs hold the finalizer for one repository only when the first       *)
(* repository of that name is gone: lost, or deleted for one of them whose *)
(* own finalizer had yet to go.                                            *)
OneHolder ==
  \A k \in Keys :
    R!Exists(k) /\ rCR[k].fin /\ M!Exists(k) /\ mCR[k].fin =>
      k \in lost \cup rAsked \cup mAsked

(* A repository goes only for a CR of the kind it was made for, that       *)
(* someone asked to delete.  It is not so: after a pass that deleted the   *)
(* repository and did not get to the finalizer, the other kind of CR makes *)
(* a repository of that name, and the next pass of the first deletes it.   *)
DeletesOnlyOwn ==
  [][\A k \in Keys :
       R!HasRepo(k) /\ repos'[k] = NoRepo =>
         \/ k \in lost'
         \/ repos[k].by = "Repo" /\ k \in rAsked
         \/ repos[k].by = "MigrateRepo" /\ k \in mAsked]_vars

(* The finalizer of either kind goes only when no repository made for that *)
(* CR is left.                                                             *)
Left(kind, k) == R!HasRepo(k)' /\ repos'[k].by = kind

FinalizersGuard ==
  [][\A k \in Keys :
       /\ R!Exists(k) /\ rCR[k].fin /\ rCR'[k] = Absent => ~Left("Repo", k)
       /\ M!Exists(k) /\ mCR[k].fin /\ mCR'[k] = Absent => ~Left("MigrateRepo", k)]_vars

(* The repository of a served Repo exists in the end, by events and        *)
(* retries alone, unless it was removed by hand or for a MigrateRepo: the  *)
(* pass that has recreated it may have been the last one.                  *)
RepoMade ==
  \A k \in Keys :
    <>[](R!Servable(k) /\ k \notin lost \cup mAsked => R!HasRepo(k))

(* That of a served MigrateRepo does too, though it takes the resync: a    *)
(* pass that finds a repository is the last one.                           *)
Migrated ==
  Resynced =>
    \A k \in Keys : <>[](M!Servable(k) /\ mCR[k].spec.service => R!HasRepo(k))

=============================================================================
