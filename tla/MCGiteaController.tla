-------------------------- MODULE MCGiteaController --------------------------
(* Small instances of GiteaController for TLC.                             *)
EXTENDS GiteaController

CONSTANTS w1, w2, local

(* The garbage collector takes the database and the other children in      *)
(* either order.                                                           *)
MCBatches == {{"db"}, Child \ {"db"}}

(* An instance that was up and whose last event has been worked off: its   *)
(* CR, the children it owns and those an earlier one has left.  Of the     *)
(* bounds, failed calls and an outage are still to come.                   *)
MCWasUp(o, own, left) ==
  /\ cr = o /\ cache = o /\ fresh = TRUE /\ cacheLive = (o # Absent)
  /\ queued = FALSE /\ events = FALSE
  /\ pc = "idle" /\ obj = Absent /\ objFresh = FALSE /\ objLive = FALSE
  /\ children = own /\ orphans = left /\ removed = {}
  /\ crb = (Provider = "zalando")
  /\ dbRunning = TRUE /\ valkeyUp = Valkey
  /\ inline = w1 /\ running = w1 /\ api = TRUE
  /\ issued = TRUE /\ stored = TRUE
  /\ ops = 0 /\ fails = 0 /\ crashes = MaxCrash /\ downs = MaxDown - 1

MCReady == MCWasUp(WithReady(NewGitea(w1)), Needed, {})
MCDeleted == MCWasUp(Absent, {}, Needed)

(* A first instance, one that is up, or one that was up and is deleted.    *)
MCSpec == (Init \/ MCReady \/ MCDeleted) /\ [][Next]_vars /\ Fairness

=============================================================================
