--------------------------- MODULE ManagedResource ---------------------------
(***************************************************************************)
(* What a controller with a finalizer promises of the objects it manages   *)
(* outside Kubernetes (accounts, organisations, repositories, buckets),    *)
(* whatever calls, retries and restarts it takes:                          *)
(*   - a CR that carries the finalizer goes only after its object did;     *)
(*   - an object goes only when somebody asked for the deletion of its CR, *)
(*     or of another one that names the same object, or when it was lost;  *)
(*   - with HoldFirst, an object is made only under the finalizer, so that *)
(*     none is ever left behind.                                           *)
(***************************************************************************)
CONSTANTS
  Keys,       \* the CRs
  Alike,      \* the CRs that name the same object as a CR does, itself included
  HoldFirst   \* whether the finalizer is put on before the object is made

VARIABLES
  there,   \* CRs that exist
  held,    \* those that carry the finalizer
  thing,   \* CRs for which an object made by the controller exists
  asked,   \* CRs somebody asked to delete, now or before
  lost     \* CRs whose object went, or got out of sight, by other causes

managed == <<there, held, thing, asked, lost>>

Init ==
  /\ there = {} /\ held = {} /\ thing = {}
  /\ asked = {} /\ lost = {}

Declare(k) ==
  /\ k \notin there /\ there' = there \cup {k}
  /\ UNCHANGED <<held, thing, asked, lost>>

Hold(k) ==
  /\ k \in there /\ held' = held \cup {k}
  /\ UNCHANGED <<there, thing, asked, lost>>

Make(k) ==
  /\ HoldFirst => k \in held
  /\ thing' = thing \cup {k}
  /\ UNCHANGED <<there, held, asked, lost>>

(* Deletion is asked for: a CR that is not held goes at once.              *)
Ask(k) ==
  /\ k \in there
  /\ asked' = asked \cup {k}
  /\ there' = IF k \in held THEN there ELSE there \ {k}
  /\ UNCHANGED <<held, thing, lost>>

Destroy(k) ==
  /\ k \in thing /\ (Alike[k] \cap asked # {} \/ k \in lost)
  /\ thing' = thing \ {k}
  /\ UNCHANGED <<there, held, asked, lost>>

Release(k) ==
  /\ k \in held \cap asked /\ k \notin thing
  /\ there' = there \ {k} /\ held' = held \ {k}
  /\ UNCHANGED <<thing, asked, lost>>

Lose(K) ==
  /\ thing' = thing \ K
  /\ lost' = lost \cup K
  /\ UNCHANGED <<there, held, asked>>

Next ==
  \/ \E k \in Keys :
       \/ Declare(k) \/ Hold(k) \/ Make(k)
       \/ Ask(k) \/ Destroy(k) \/ Release(k)
  \/ \E K \in SUBSET Keys : Lose(K)

Spec == Init /\ [][Next]_managed

(* With the finalizer first, an object made for a CR exists only while the *)
(* CR does and carries the finalizer.                                      *)
NothingLeftBehind == HoldFirst => thing \subseteq held /\ held \subseteq there

=============================================================================
