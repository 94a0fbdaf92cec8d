-------------------------- MODULE ControllerRuntime --------------------------
(***************************************************************************)
(* What controller-runtime does for one controller with one worker: the    *)
(* API server's store, the informer's cache, the work queue and the pass   *)
(* that runs.  A controller's module extends this one and adds what the    *)
(* steps of its pass do.                                                   *)
(*                                                                         *)
(* A resource version is modelled by what an Update compares: "fresh" has  *)
(* the keys whose cached copy is the stored object, pass.current says so   *)
(* of the copy that the pass holds.                                        *)
(***************************************************************************)
EXTENDS FiniteSets, Naturals

CONSTANTS
  Keys,    \* names of CRs of the kind, in one namespace
  Absent   \* no such CR

VARIABLES
  cr,      \* the CRs in the API server
  cache,   \* the informer's copies
  fresh,   \* keys whose cached copy is the stored one
  queue,   \* keys waiting in the work queue
  pass     \* Idle, or the pass that runs: the call it makes next ("at"), its
           \* key, its copy of the CR, and what it remembers between calls

store == <<cr, cache, fresh>>
runtime == <<store, queue, pass>>

Idle == [at |-> "idle"]

Pass(Calls, CRs, Memory) ==
  [at : Calls, key : Keys, obj : CRs, current : BOOLEAN, mem : Memory]

RuntimeOK(Calls, CRs, Memory) ==
  /\ cr \in [Keys -> CRs \cup {Absent}]
  /\ cache \in [Keys -> CRs \cup {Absent}]
  /\ fresh \in SUBSET Keys
  /\ queue \in SUBSET Keys
  /\ pass \in Pass(Calls, CRs, Memory) \cup {Idle}

RuntimeInit ==
  /\ cr = [k \in Keys |-> Absent]
  /\ cache = cr
  /\ fresh = Keys
  /\ queue = {}
  /\ pass = Idle

(* The copies of a CR agree: what passes for the stored object is it.      *)
Agree ==
  /\ \A k \in fresh : cache[k] = cr[k]
  /\ pass # Idle /\ pass.current => pass.obj = cr[pass.key]

(* The keys of which some copy has the deletion timestamp.                 *)
Marked ==
  {k \in Keys : \/ cr[k] # Absent /\ cr[k].del
                \/ cache[k] # Absent /\ cache[k].del
                \/ pass # Idle /\ pass.key = k /\ pass.obj.del}

Exists(k) == cr[k] # Absent
Running == pass # Idle

(* The pass is about to make this call.                                    *)
At(call) == pass.at = call

(* Variant for the mutation runs: no return after NotFound.                *)
TakeUnchecked(k, call, mem) ==
  /\ pass = Idle /\ k \in queue
  /\ queue' = queue \ {k}
  /\ pass' = [at |-> call, key |-> k, obj |-> cache[k], current |-> FALSE, mem |-> mem]
  /\ UNCHANGED store

(* The worker takes k and reads its cached copy; NotFound ends the pass.   *)
Take(k, call, mem) ==
  /\ pass = Idle /\ k \in queue
  /\ queue' = queue \ {k}
  /\ pass' = IF cache[k] = Absent THEN Idle
             ELSE [at |-> call, key |-> k, obj |-> cache[k],
                   current |-> k \in fresh, mem |-> mem]
  /\ UNCHANGED store

Goto(call) ==
  /\ pass' = [pass EXCEPT !.at = call]
  /\ UNCHANGED queue

GotoWith(call, mem) ==
  /\ pass' = [pass EXCEPT !.at = call, !.mem = mem]
  /\ UNCHANGED queue

(* The pass is over.  An error, a recovered panic or a RequeueAfter puts   *)
(* the key back; otherwise it takes an event to bring it back.             *)
Retry == pass' = Idle /\ queue' = queue \cup {pass.key}
Done == pass' = Idle /\ UNCHANGED queue

(* Update or Status().Update of the pass's copy to o.  A copy that is not  *)
(* the stored object is refused; what changes nothing raises no event.     *)
Write(o) ==
  /\ pass.current
  /\ cr' = [cr EXCEPT ![pass.key] = o]
  /\ fresh' = IF o = pass.obj THEN fresh ELSE fresh \ {pass.key}
  /\ UNCHANGED cache

Conflict == ~pass.current /\ UNCHANGED store

(* ... after which the pass goes on, or is retried.                        *)
Update(o, call) ==
  \/ /\ Write(o)
     /\ pass' = [pass EXCEPT !.at = call, !.obj = o]
     /\ UNCHANGED queue
  \/ Conflict /\ Retry

(* RemoveFinalizer and Update: the last finalizer gone, so is the CR.      *)
Release == (Write(Absent) /\ Done) \/ (Conflict /\ Retry)

(* CR k becomes o by somebody else's hand: every copy of it is stale.      *)
Put(k, o) ==
  /\ cr' = [cr EXCEPT ![k] = o]
  /\ fresh' = fresh \ {k}
  /\ pass' = IF Running /\ pass.key = k THEN [pass EXCEPT !.current = FALSE]
             ELSE pass
  /\ UNCHANGED <<cache, queue>>

(* kubectl delete: a CR with a finalizer is only marked.                   *)
PutDeleted(k) ==
  /\ Exists(k) /\ ~cr[k].del
  /\ Put(k, IF cr[k].fin THEN [cr[k] EXCEPT !.del = TRUE] ELSE Absent)

(* The informer receives the event of the last write to k.                 *)
Observe(k) ==
  /\ k \notin fresh
  /\ cache' = [cache EXCEPT ![k] = cr[k]]
  /\ fresh' = fresh \cup {k}
  /\ queue' = queue \cup {k}
  /\ UNCHANGED <<cr, pass>>

Requeue ==
  /\ queue' = queue \cup {k \in Keys : cache[k] # Absent}
  /\ UNCHANGED <<store, pass>>

(* The operator starts again: the informers list every CR, which fills the *)
(* cache and the queue; what the pass knew is lost.                        *)
StartAgain ==
  /\ cache' = cr /\ fresh' = Keys
  /\ queue' = {k \in Keys : Exists(k)}
  /\ pass' = Idle
  /\ UNCHANGED cr

=============================================================================
