------------------------------ MODULE CleanupLoop -----------------------------
(***************************************************************************)
(* The cleanup task of the loader: sleep first, then delete the expired    *)
(* rows, until the token.                                                  *)
(***************************************************************************)
EXTENDS LoaderBase

CONSTANT CleanupInterval  \* cache.cleanup_interval_seconds

ASSUME CleanupAssumption == CleanupInterval \in Nat

VARIABLES
  cpc,    \* where the task is
  cwake,  \* when the sleep ends
  lapsed  \* a DELETE has failed, or the task has ended (history)

cleanupVars == <<cpc, cwake, lapsed>>

CleanupTypeOK ==
  /\ cpc \in {"sleep", "stopped"}
  /\ cwake \in Nat
  /\ lapsed \in BOOLEAN

CleanupInit ==
  /\ cpc = "sleep"
  /\ cwake = now + CleanupInterval
  /\ lapsed = FALSE

(* Variant of CleanUp: the second sleep is twice as long. *)
CleanUpRarely ==
  /\ cpc = "sleep"
  /\ now >= cwake
  /\ table' = ExpireStale(table, now)
  /\ cwake' = now + 2 * CleanupInterval
  /\ UNCHANGED <<now, cancelled, cpc, lapsed>>

CleanUp ==
  /\ cpc = "sleep"
  /\ now >= cwake
  /\ table' = ExpireStale(table, now)
  /\ cwake' = now + CleanupInterval
  /\ UNCHANGED <<now, cancelled, cpc, lapsed>>

(* The DELETE failed, or the lock is poisoned: logged; it sleeps again. *)
CleanUpFails ==
  /\ cpc = "sleep"
  /\ now >= cwake
  /\ cwake' = now + CleanupInterval
  /\ lapsed' = TRUE
  /\ UNCHANGED <<baseVars, cpc>>

CleanupStops ==
  /\ cpc = "sleep"
  /\ cancelled
  /\ cpc' = "stopped"
  /\ lapsed' = TRUE
  /\ UNCHANGED <<baseVars, cwake>>

CleanupStep == CleanUp \/ CleanUpFails

CleanupNext == CleanupStep \/ CleanupStops

CleanupCanWait == cpc = "sleep" => now < cwake /\ ~cancelled

===============================================================================
