----------------------- MODULE ControllerRuntimeProofs -----------------------
(***************************************************************************)
(* What the steps of ControllerRuntime do to types and copies, stated once *)
(* for the proofs about the controllers.                                   *)
(***************************************************************************)
EXTENDS ControllerRuntime, TLAPS

(* The fields of a pass.                                                   *)
LEMMA PassFields ==
  ASSUME NEW Calls, NEW CRs, NEW Memory, NEW p \in Pass(Calls, CRs, Memory)
  PROVE /\ p.at \in Calls /\ p.key \in Keys /\ p.obj \in CRs
        /\ p.current \in BOOLEAN /\ p.mem \in Memory
  BY DEF Pass

(* The worker takes a key.                                                 *)
LEMMA TakeOK ==
  ASSUME NEW Calls, NEW CRs, NEW Memory, RuntimeOK(Calls, CRs, Memory),
         NEW k \in Keys, NEW call \in Calls, NEW mem \in Memory, Take(k, call, mem)
  PROVE RuntimeOK(Calls, CRs, Memory)'
<1>1. pass' \in Pass(Calls, CRs, Memory) \cup {Idle}
  BY DEF Take, RuntimeOK, Pass
<1> QED
  BY <1>1 DEF Take, RuntimeOK, store

(* The pass moves on, or is over.                                          *)
LEMMA GotoWithOK ==
  ASSUME NEW Calls, NEW CRs, NEW Memory, RuntimeOK(Calls, CRs, Memory), Running,
         NEW call \in Calls, NEW mem \in Memory, GotoWith(call, mem), UNCHANGED store
  PROVE RuntimeOK(Calls, CRs, Memory)'
<1>1. pass' \in Pass(Calls, CRs, Memory)
  BY DEF GotoWith, RuntimeOK, Pass, Running
<1> QED
  BY <1>1 DEF GotoWith, RuntimeOK, store

LEMMA GotoOK ==
  ASSUME NEW Calls, NEW CRs, NEW Memory, RuntimeOK(Calls, CRs, Memory), Running,
         NEW call \in Calls, Goto(call), UNCHANGED store
  PROVE RuntimeOK(Calls, CRs, Memory)'
<1>1. pass' \in Pass(Calls, CRs, Memory)
  BY DEF Goto, RuntimeOK, Pass, Running
<1> QED
  BY <1>1 DEF Goto, RuntimeOK, store

LEMMA EndOK ==
  ASSUME NEW Calls, NEW CRs, NEW Memory, RuntimeOK(Calls, CRs, Memory), Running,
         Done \/ Retry,
         cr' \in [Keys -> CRs \cup {Absent}], fresh' \subseteq Keys, UNCHANGED cache
  PROVE RuntimeOK(Calls, CRs, Memory)'
<1>1. pass.key \in Keys
  BY DEF RuntimeOK, Pass, Running
<1> QED
  BY <1>1 DEF Done, Retry, RuntimeOK

(* What the pass writes: types.                                            *)
LEMMA WriteOK ==
  ASSUME NEW Calls, NEW CRs, NEW Memory, RuntimeOK(Calls, CRs, Memory), Running,
         NEW o \in CRs \cup {Absent}, Write(o)
  PROVE /\ cr' \in [Keys -> CRs \cup {Absent}]
        /\ fresh' \subseteq Keys
        /\ UNCHANGED cache
  BY DEF RuntimeOK, Write, Running, Pass

LEMMA UpdateOK ==
  ASSUME NEW Calls, NEW CRs, NEW Memory, RuntimeOK(Calls, CRs, Memory), Running,
         NEW o \in CRs, NEW call \in Calls, Update(o, call)
  PROVE RuntimeOK(Calls, CRs, Memory)'
<1>1. CASE /\ Write(o)
           /\ pass' = [pass EXCEPT !.at = call, !.obj = o]
           /\ UNCHANGED queue
  <2>1. pass' \in Pass(Calls, CRs, Memory)
    BY <1>1 DEF RuntimeOK, Pass, Running
  <2> QED
    BY <1>1, <2>1, WriteOK DEF RuntimeOK
<1>2. CASE Conflict /\ Retry
  BY <1>2, EndOK DEF Conflict, store, RuntimeOK
<1> QED
  BY <1>1, <1>2 DEF Update

LEMMA ReleaseOK ==
  ASSUME NEW Calls, NEW CRs, NEW Memory, RuntimeOK(Calls, CRs, Memory), Running, Release
  PROVE RuntimeOK(Calls, CRs, Memory)'
  BY WriteOK, EndOK DEF Release, Conflict, store, RuntimeOK

(* What people and the informer do: types.                                 *)
LEMMA PutOK ==
  ASSUME NEW Calls, NEW CRs, NEW Memory, RuntimeOK(Calls, CRs, Memory),
         NEW k \in Keys, NEW o \in CRs \cup {Absent}, Put(k, o)
  PROVE RuntimeOK(Calls, CRs, Memory)'
<1>1. pass' \in Pass(Calls, CRs, Memory) \cup {Idle}
  BY DEF Put, RuntimeOK, Running, Pass
<1> QED
  BY <1>1 DEF Put, RuntimeOK

LEMMA ObserveOK ==
  ASSUME NEW Calls, NEW CRs, NEW Memory, RuntimeOK(Calls, CRs, Memory),
         NEW k \in Keys, Observe(k)
  PROVE RuntimeOK(Calls, CRs, Memory)'
  BY DEF Observe, RuntimeOK

LEMMA RequeueOK ==
  ASSUME NEW Calls, NEW CRs, NEW Memory, RuntimeOK(Calls, CRs, Memory), Requeue
  PROVE RuntimeOK(Calls, CRs, Memory)'
  BY DEF Requeue, RuntimeOK, store

LEMMA StartAgainOK ==
  ASSUME NEW Calls, NEW CRs, NEW Memory, RuntimeOK(Calls, CRs, Memory), StartAgain
  PROVE RuntimeOK(Calls, CRs, Memory)'
  BY DEF StartAgain, RuntimeOK

LEMMA RuntimeInitOK ==
  ASSUME NEW Calls, NEW CRs, NEW Memory, RuntimeInit
  PROVE RuntimeOK(Calls, CRs, Memory)
  BY DEF RuntimeInit, RuntimeOK

-----------------------------------------------------------------------------
(* The copies: that those which pass for the stored object are it, and     *)
(* which keys have a copy that is marked for deletion.                     *)

LEMMA InitCopies == RuntimeInit => Agree /\ Marked = {}
  BY DEF RuntimeInit, Agree, Marked

LEMMA TakeCopies ==
  ASSUME NEW Calls, NEW CRs, NEW Memory, RuntimeOK(Calls, CRs, Memory), Agree,
         NEW k \in Keys, NEW call, NEW mem, Take(k, call, mem)
  PROVE Agree' /\ Marked' \subseteq Marked
<1>1. cr' = cr /\ cache' = cache /\ fresh' = fresh
  BY DEF Take, store
<1>2. pass' = Idle \/ (/\ cache[k] # Absent
                      /\ pass'.key = k /\ pass'.obj = cache[k]
                      /\ pass'.current = (k \in fresh))
  BY DEF Take
<1> QED
  BY <1>1, <1>2 DEF Agree, Marked, RuntimeOK

(* A pass that keeps its copy, or ends.                                    *)
LEMMA KeepCopies ==
  ASSUME Agree, UNCHANGED store,
         \/ pass' = Idle
         \/ pass' = pass
         \/ /\ Running
            /\ pass'.key = pass.key /\ pass'.obj = pass.obj
            /\ pass'.current = pass.current
  PROVE Agree' /\ Marked' \subseteq Marked
  BY DEF Agree, Marked, store, Running

(* Goto, GotoWith, Done and Retry do.                                      *)
LEMMA MovesKeep ==
  ASSUME NEW Calls, NEW CRs, NEW Memory, RuntimeOK(Calls, CRs, Memory), Running,
         NEW call, NEW mem,
         Goto(call) \/ GotoWith(call, mem) \/ Done \/ Retry
  PROVE \/ pass' = Idle
        \/ /\ Running
           /\ pass'.key = pass.key /\ pass'.obj = pass.obj
           /\ pass'.current = pass.current
  BY DEF Goto, GotoWith, Done, Retry, RuntimeOK, Pass, Running

(* A write of the pass that leaves the deletion timestamp alone.           *)
LEMMA WriteCopies ==
  ASSUME NEW Calls, NEW CRs, NEW Memory, RuntimeOK(Calls, CRs, Memory), Agree, Running,
         NEW o, o # Absent => o.del = pass.obj.del, Absent \notin CRs, Write(o),
         \/ pass' = Idle
         \/ o # Absent /\ pass'.key = pass.key /\ pass'.obj = o
  PROVE Agree' /\ Marked' \subseteq Marked
<1>1. pass.key \in Keys /\ pass.obj \in CRs
  BY DEF RuntimeOK, Running, Pass
<1>2. cr[pass.key] = pass.obj /\ cr'[pass.key] = o
  BY <1>1 DEF Agree, Running, Write, RuntimeOK
<1>3. \A k \in Keys \ {pass.key} : cr'[k] = cr[k]
  BY <1>1 DEF Write, RuntimeOK
<1>4. Agree'
  <2>1. \A k \in fresh' : cache'[k] = cr'[k]
    <3>1. CASE o = pass.obj
      BY <1>1, <1>2, <1>3, <3>1 DEF Agree, Write, RuntimeOK
    <3>2. CASE o # pass.obj
      BY <1>1, <1>2, <1>3, <3>2 DEF Agree, Write, RuntimeOK
    <3> QED
      BY <3>1, <3>2
  <2> QED
    BY <1>2, <2>1 DEF Agree
<1>5. Marked' \subseteq Marked
  <2> SUFFICES ASSUME NEW k \in Marked' PROVE k \in Marked
    OBVIOUS
  <2>1. k \in Keys
    BY DEF Marked
  <2>2. CASE k = pass.key
    <3>1. cache'[k] = cache[k]
      BY DEF Write
    <3>2. (o # Absent /\ o.del) \/ (cache[k] # Absent /\ cache[k].del) \/ pass.obj.del
      BY <1>1, <1>2, <2>2, <3>1 DEF Marked
    <3> QED
      BY <1>1, <2>1, <2>2, <3>2 DEF Marked, Running
  <2>3. CASE k # pass.key
    BY <1>3, <2>1, <2>3 DEF Marked, Write
  <2> QED
    BY <2>2, <2>3
<1> QED
  BY <1>4, <1>5

LEMMA UpdateCopies ==
  ASSUME NEW Calls, NEW CRs, NEW Memory, RuntimeOK(Calls, CRs, Memory), Agree, Running,
         NEW o \in CRs, NEW call, o.del = pass.obj.del, Absent \notin CRs, Update(o, call)
  PROVE Agree' /\ Marked' \subseteq Marked
<1>1. CASE /\ Write(o)
           /\ pass' = [pass EXCEPT !.at = call, !.obj = o]
  <2>1. pass'.key = pass.key /\ pass'.obj = o
    BY <1>1 DEF RuntimeOK, Running, Pass
  <2> QED
    BY <1>1, <2>1, WriteCopies
<1>2. CASE Conflict /\ Retry
  BY <1>2, KeepCopies DEF Conflict, Retry
<1> QED
  BY <1>1, <1>2 DEF Update

LEMMA ReleaseCopies ==
  ASSUME NEW Calls, NEW CRs, NEW Memory, RuntimeOK(Calls, CRs, Memory), Agree, Running,
         Absent \notin CRs, Release
  PROVE Agree' /\ Marked' \subseteq Marked
<1>1. CASE Write(Absent) /\ Done
  BY <1>1, WriteCopies DEF Done
<1>2. CASE Conflict /\ Retry
  BY <1>2, KeepCopies DEF Conflict, Retry
<1> QED
  BY <1>1, <1>2 DEF Release

(* Somebody else's write.                                                  *)
LEMMA PutCopies ==
  ASSUME NEW Calls, NEW CRs, NEW Memory, RuntimeOK(Calls, CRs, Memory), Agree,
         NEW k \in Keys, NEW o \in CRs \cup {Absent}, Put(k, o)
  PROVE /\ Agree'
        /\ Marked' \subseteq Marked \cup {k}
        /\ ~(o # Absent /\ o.del) => Marked' \subseteq Marked
<1>1. /\ cr'[k] = o
      /\ \A j \in Keys \ {k} : cr'[j] = cr[j]
      /\ cache' = cache /\ fresh' = fresh \ {k} /\ fresh \subseteq Keys
  BY DEF Put, RuntimeOK
<1>2. CASE Running /\ pass.key = k
  <2>1. /\ pass' # Idle => ~pass'.current /\ pass'.key = pass.key /\ pass'.obj = pass.obj
        /\ Running
    BY <1>2 DEF Put, RuntimeOK, Running, Pass
  <2> QED
    BY <1>1, <2>1 DEF Agree, Marked, Running
<1>3. CASE ~(Running /\ pass.key = k)
  <2>1. pass' = pass
    BY <1>3 DEF Put
  <2>2. Running => pass.key \in Keys \ {k}
    BY <1>3 DEF Running, RuntimeOK, Pass
  <2> QED
    BY <1>1, <2>1, <2>2 DEF Agree, Marked, Running
<1> QED
  BY <1>2, <1>3

LEMMA ObserveCopies ==
  ASSUME NEW Calls, NEW CRs, NEW Memory, RuntimeOK(Calls, CRs, Memory), Agree,
         NEW k \in Keys, Observe(k)
  PROVE Agree' /\ Marked' \subseteq Marked
<1>1. /\ cr' = cr /\ pass' = pass /\ fresh' = fresh \cup {k} /\ fresh \subseteq Keys
      /\ cache'[k] = cr[k]
      /\ \A j \in Keys \ {k} : cache'[j] = cache[j]
  BY DEF Observe, RuntimeOK
<1> QED
  BY <1>1 DEF Agree, Marked

LEMMA RequeueCopies ==
  ASSUME Agree, Requeue
  PROVE Agree' /\ Marked' \subseteq Marked
  BY KeepCopies DEF Requeue

LEMMA StartAgainCopies ==
  ASSUME NEW Calls, NEW CRs, NEW Memory, RuntimeOK(Calls, CRs, Memory), StartAgain
  PROVE Agree' /\ Marked' \subseteq Marked
  BY DEF StartAgain, Agree, Marked, RuntimeOK

-----------------------------------------------------------------------------
(* The finalizer on the copies.  A copy with the finalizer and without the *)
(* deletion timestamp is of a CR that still has the finalizer, because the *)
(* finalizer is only ever removed by a pass whose copy is marked and that  *)
(* passes for the stored object; and the cache is never newer than such a  *)
(* copy.                                                                   *)
HeldCopies ==
  /\ \A k \in Keys :
       cache[k] # Absent /\ cache[k].fin /\ ~cache[k].del => Exists(k) /\ cr[k].fin
  /\ Running /\ pass.obj.fin /\ ~pass.obj.del =>
       Exists(pass.key) /\ cr[pass.key].fin
  /\ Running /\ pass.current =>
       cache[pass.key] # Absent /\ cache[pass.key].del = pass.obj.del

(* Where a copy is marked for deletion, a CR that is provisioned and not   *)
(* marked is not to be found: it would be a later one of the name, and no  *)
(* pass has had a copy of that.                                            *)
FormerCopies ==
  \A k \in Keys :
    /\ Exists(k) /\ cr[k].prov
    /\ \/ cache[k] # Absent /\ cache[k].del
       \/ Running /\ pass.key = k /\ pass.obj.del
    => cr[k].del

LEMMA InitHeld == RuntimeInit => HeldCopies /\ FormerCopies
  BY DEF RuntimeInit, HeldCopies, FormerCopies, Running, Exists

LEMMA TakeHeld ==
  ASSUME NEW Calls, NEW CRs, NEW Memory, RuntimeOK(Calls, CRs, Memory), Agree,
         HeldCopies, FormerCopies,
         NEW k \in Keys, NEW call, NEW mem, Take(k, call, mem)
  PROVE HeldCopies' /\ FormerCopies'
<1>1. cr' = cr /\ cache' = cache
  BY DEF Take, store
<1>2. pass' = Idle \/ (/\ cache[k] # Absent
                      /\ pass'.key = k /\ pass'.obj = cache[k]
                      /\ pass'.current = (k \in fresh))
  BY DEF Take
<1> QED
  BY <1>1, <1>2 DEF HeldCopies, FormerCopies, Running, Exists

LEMMA KeepHeld ==
  ASSUME HeldCopies, FormerCopies, UNCHANGED store,
         \/ pass' = Idle
         \/ pass' = pass
         \/ /\ Running
            /\ pass'.key = pass.key /\ pass'.obj = pass.obj
            /\ pass'.current = pass.current
  PROVE HeldCopies' /\ FormerCopies'
  BY DEF HeldCopies, FormerCopies, store, Running, Exists

LEMMA WriteHeld ==
  ASSUME NEW Calls, NEW CRs, NEW Memory, RuntimeOK(Calls, CRs, Memory), Agree, Running,
         HeldCopies, FormerCopies,
         NEW o \in CRs, o.fin, o.del = pass.obj.del, Absent \notin CRs, Write(o),
         \/ pass' = Idle
         \/ pass'.key = pass.key /\ pass'.obj = o
  PROVE HeldCopies' /\ FormerCopies'
<1>1. /\ pass.key \in Keys /\ o # Absent
      /\ cache' = cache /\ cr'[pass.key] = o
      /\ \A k \in Keys \ {pass.key} : cr'[k] = cr[k]
  BY DEF RuntimeOK, Running, Pass, Write
<1>2. cache[pass.key] # Absent /\ cache[pass.key].del = o.del
  BY DEF HeldCopies, Write
<1>3. HeldCopies'
  BY <1>1, <1>2 DEF HeldCopies, Exists, Running
<1>4. FormerCopies'
  BY <1>1, <1>2 DEF FormerCopies, Exists, Running
<1> QED
  BY <1>3, <1>4

LEMMA UpdateHeld ==
  ASSUME NEW Calls, NEW CRs, NEW Memory, RuntimeOK(Calls, CRs, Memory), Agree, Running,
         HeldCopies, FormerCopies,
         NEW o \in CRs, NEW call, o.fin, o.del = pass.obj.del, Absent \notin CRs,
         Update(o, call)
  PROVE HeldCopies' /\ FormerCopies'
<1>1. CASE /\ Write(o)
           /\ pass' = [pass EXCEPT !.at = call, !.obj = o]
  <2>1. pass'.key = pass.key /\ pass'.obj = o
    BY <1>1 DEF RuntimeOK, Running, Pass
  <2> QED
    BY <1>1, <2>1, WriteHeld
<1>2. CASE Conflict /\ Retry
  BY <1>2, KeepHeld DEF Conflict, Retry
<1> QED
  BY <1>1, <1>2 DEF Update

LEMMA ReleaseHeld ==
  ASSUME NEW Calls, NEW CRs, NEW Memory, RuntimeOK(Calls, CRs, Memory), Agree, Running,
         HeldCopies, FormerCopies, pass.obj.del, Release
  PROVE HeldCopies' /\ FormerCopies'
<1>1. CASE Write(Absent) /\ Done
  <2>1. /\ pass.key \in Keys /\ pass' = Idle
        /\ cache' = cache /\ cr'[pass.key] = Absent
        /\ \A k \in Keys \ {pass.key} : cr'[k] = cr[k]
    BY <1>1 DEF RuntimeOK, Running, Pass, Write, Done
  <2>2. cache[pass.key].del
    BY <1>1 DEF HeldCopies, Write
  <2> QED
    BY <2>1, <2>2 DEF HeldCopies, FormerCopies, Exists, Running
<1>2. CASE Conflict /\ Retry
  BY <1>2, KeepHeld DEF Conflict, Retry
<1> QED
  BY <1>1, <1>2 DEF Release

LEMMA PutHeld ==
  ASSUME NEW Calls, NEW CRs, NEW Memory, RuntimeOK(Calls, CRs, Memory),
         HeldCopies, FormerCopies,
         NEW k \in Keys, NEW o \in CRs \cup {Absent}, Put(k, o),
         Exists(k) /\ cr[k].fin => o # Absent /\ o.fin,
         o # Absent /\ o.prov /\ ~o.del => Exists(k) /\ cr[k].prov /\ ~cr[k].del
  PROVE HeldCopies' /\ FormerCopies'
<1>1. /\ cr'[k] = o /\ cache' = cache
      /\ \A j \in Keys \ {k} : cr'[j] = cr[j]
  BY DEF Put, RuntimeOK
<1>2. CASE Running /\ pass.key = k
  <2>1. /\ pass' # Idle => ~pass'.current /\ pass'.key = pass.key /\ pass'.obj = pass.obj
        /\ Running
    BY <1>2 DEF Put, RuntimeOK, Running, Pass
  <2> QED
    BY <1>1, <1>2, <2>1 DEF HeldCopies, FormerCopies, Exists, Running
<1>3. CASE ~(Running /\ pass.key = k)
  <2>1. pass' = pass
    BY <1>3 DEF Put
  <2>2. Running => pass.key \in Keys \ {k}
    BY <1>3 DEF Running, RuntimeOK, Pass
  <2> QED
    BY <1>1, <2>1, <2>2 DEF HeldCopies, FormerCopies, Exists, Running
<1> QED
  BY <1>2, <1>3

LEMMA ObserveHeld ==
  ASSUME NEW Calls, NEW CRs, NEW Memory, RuntimeOK(Calls, CRs, Memory), Agree,
         HeldCopies, FormerCopies, Absent \notin CRs, NEW k \in Keys, Observe(k)
  PROVE HeldCopies' /\ FormerCopies'
<1>1. /\ cr' = cr /\ pass' = pass
      /\ cache'[k] = cr[k]
      /\ \A j \in Keys \ {k} : cache'[j] = cache[j]
  BY DEF Observe, RuntimeOK
<1>2. Running => pass.key \in Keys /\ pass.obj \in CRs
  BY DEF Running, RuntimeOK, Pass
<1>3. Running /\ pass.current => cr[pass.key] = pass.obj
  BY DEF Running, Agree
<1> QED
  BY <1>1, <1>2, <1>3 DEF HeldCopies, FormerCopies, Exists, Running

LEMMA StartAgainHeld ==
  ASSUME StartAgain
  PROVE HeldCopies' /\ FormerCopies'
  BY DEF StartAgain, HeldCopies, FormerCopies, Running, Exists

-----------------------------------------------------------------------------
(* The copies one by one: o is what the API server, the cache or the pass  *)
(* has of CR k.  No step makes another copy than the one it writes.        *)
Copy(k, o) ==
  \/ o = cr[k] /\ o # Absent
  \/ o = cache[k] /\ o # Absent
  \/ Running /\ pass.key = k /\ o = pass.obj

LEMMA InitCopy == RuntimeInit => \A k \in Keys : \A o : ~Copy(k, o)
  BY DEF RuntimeInit, Copy, Running

LEMMA TakeCopy ==
  ASSUME NEW Calls, NEW CRs, NEW Memory, RuntimeOK(Calls, CRs, Memory),
         NEW k \in Keys, NEW call, NEW mem, Take(k, call, mem),
         NEW j \in Keys, NEW o, Copy(j, o)'
  PROVE Copy(j, o)
  BY DEF Take, store, Copy, Running

LEMMA KeepCopy ==
  ASSUME UNCHANGED store,
         \/ pass' = Idle
         \/ pass' = pass
         \/ Running /\ pass'.key = pass.key /\ pass'.obj = pass.obj,
         NEW j \in Keys, NEW o, Copy(j, o)'
  PROVE Copy(j, o)
  BY DEF store, Copy, Running

LEMMA WriteCopy ==
  ASSUME NEW Calls, NEW CRs, NEW Memory, RuntimeOK(Calls, CRs, Memory), Running,
         NEW w, Write(w),
         \/ pass' = Idle
         \/ w # Absent /\ pass'.key = pass.key /\ pass'.obj = w,
         NEW j \in Keys, NEW o, Copy(j, o)'
  PROVE Copy(j, o) \/ (j = pass.key /\ o = w /\ o # Absent)
  BY DEF RuntimeOK, Running, Pass, Write, Copy

LEMMA UpdateCopy ==
  ASSUME NEW Calls, NEW CRs, NEW Memory, RuntimeOK(Calls, CRs, Memory), Running,
         Absent \notin CRs, NEW w \in CRs, NEW call, Update(w, call),
         NEW j \in Keys, NEW o, Copy(j, o)'
  PROVE Copy(j, o) \/ (j = pass.key /\ o = w)
<1>1. CASE /\ Write(w)
           /\ pass' = [pass EXCEPT !.at = call, !.obj = w]
  <2>1. pass'.key = pass.key /\ pass'.obj = w
    BY <1>1 DEF RuntimeOK, Running, Pass
  <2> QED
    BY <1>1, <2>1, WriteCopy
<1>2. CASE Conflict /\ Retry
  BY <1>2, KeepCopy DEF Conflict, Retry
<1> QED
  BY <1>1, <1>2 DEF Update

LEMMA ReleaseCopy ==
  ASSUME NEW Calls, NEW CRs, NEW Memory, RuntimeOK(Calls, CRs, Memory), Running,
         Release, NEW j \in Keys, NEW o, Copy(j, o)'
  PROVE Copy(j, o)
<1>1. CASE Write(Absent) /\ Done
  BY <1>1, WriteCopy DEF Done
<1>2. CASE Conflict /\ Retry
  BY <1>2, KeepCopy DEF Conflict, Retry
<1> QED
  BY <1>1, <1>2 DEF Release

LEMMA PutCopy ==
  ASSUME NEW Calls, NEW CRs, NEW Memory, RuntimeOK(Calls, CRs, Memory),
         NEW k \in Keys, NEW w, Put(k, w), NEW j \in Keys, NEW o, Copy(j, o)'
  PROVE Copy(j, o) \/ (j = k /\ o = w /\ o # Absent)
<1>1. pass' # Idle => Running /\ pass'.key = pass.key /\ pass'.obj = pass.obj
  BY DEF Put, RuntimeOK, Running, Pass
<1> QED
  BY <1>1 DEF RuntimeOK, Running, Put, Copy

LEMMA ObserveCopy ==
  ASSUME NEW Calls, NEW CRs, NEW Memory, RuntimeOK(Calls, CRs, Memory),
         NEW k \in Keys, Observe(k), NEW j \in Keys, NEW o, Copy(j, o)'
  PROVE Copy(j, o)
  BY DEF RuntimeOK, Running, Observe, Copy

LEMMA StartAgainCopy ==
  ASSUME StartAgain, NEW j \in Keys, NEW o, Copy(j, o)'
  PROVE Copy(j, o)
  BY DEF StartAgain, Running, Copy

=============================================================================
