----------------------------- MODULE LoaderDaemon -----------------------------
(***************************************************************************)
(* The loader daemon: the refresh, stream and cleanup tasks over the one   *)
(* writer, ended by the cancellation token, joined by run.  The process    *)
(* may also die and be started again: SQLite keeps the committed rows, the *)
(* candle store keeps the candles, and everything in memory is lost.       *)
(***************************************************************************)
EXTENDS RefreshLoop, StreamLoop, CleanupLoop

CONSTANTS
  MaxTime,    \* bound on the clock
  MaxCrashes  \* bound on the number of restarts

ASSUME DaemonAssumption == MaxTime \in Nat /\ MaxCrashes \in Nat

(* The keys of the refresh task begin with bars:, quote: or indicator:,    *)
(* those of the stream task with sentiment: or ref:econ:.                  *)
ASSUME KeyPrefixAssumption ==
  (Kinds \cup {"ref:econ"}) \cap (MarketKinds \cup Indicators) = {}

VARIABLES
  returned,   \* run has returned
  crashes,    \* number of restarts
  lastCycles  \* refresh cycles started since the token was triggered,
              \* counted up to 2 (history)

daemonVars == <<returned, crashes, lastCycles>>
vars == <<baseVars, refreshVars, streamVars, cleanupVars, daemonVars>>

TypeOK ==
  /\ now \in Nat
  /\ table \subseteq RefreshRow \cup StreamRow
  /\ cancelled \in BOOLEAN
  /\ RefreshTypeOK
  /\ StreamTypeOK
  /\ CleanupTypeOK
  /\ returned \in BOOLEAN
  /\ crashes \in 0..MaxCrashes
  /\ lastCycles \in 0..2

Init ==
  /\ BaseInit
  /\ RefreshInit
  /\ StreamInit
  /\ CleanupInit
  /\ returned = FALSE
  /\ crashes = 0
  /\ lastCycles = 0

-------------------------------------------------------------------------------
(* A step of one task, which leaves the state of the others alone. *)
RefreshTask(step) ==
  /\ step
  /\ lastCycles' = IF cancelled /\ rpc = "sleep" /\ rpc' = "fill" /\ lastCycles < 2
                   THEN lastCycles + 1 ELSE lastCycles
  /\ UNCHANGED <<streamVars, cleanupVars, returned, crashes>>

StreamTask(step) == step /\ UNCHANGED <<refreshVars, cleanupVars, daemonVars>>

CleanupTask(step) == step /\ UNCHANGED <<refreshVars, streamVars, daemonVars>>

(* main: ctrl_c triggers the token. *)
CtrlC ==
  /\ ~cancelled
  /\ cancelled' = TRUE
  /\ UNCHANGED <<now, table, refreshVars, streamVars, cleanupVars, daemonVars>>

AllStopped == rpc = "stopped" /\ spc = "stopped" /\ cpc = "stopped"

(* Variant of JoinAll: run waits for the first task only. *)
JoinFirst == rpc = "stopped" \/ spc = "stopped" \/ cpc = "stopped"

(* join_next until the set is empty. *)
JoinAll == AllStopped

Return ==
  /\ ~returned
  /\ JoinAll
  /\ returned' = TRUE
  /\ UNCHANGED <<baseVars, refreshVars, streamVars, cleanupVars, crashes, lastCycles>>

(* The process dies, in the middle of anything but a commit, and a new one *)
(* starts on the same files.                                               *)
CrashAndRestart ==
  /\ ~returned
  /\ crashes < MaxCrashes
  /\ crashes' = crashes + 1
  /\ cancelled' = FALSE
  /\ CycleBegins(now)
  /\ batch' = {}
  /\ wake' = now
  /\ faulted' = FALSE
  /\ covered' = {}
  /\ spc' = IF StreamEnabled THEN "starting" ELSE "stopped"
  /\ chan' = <<>>
  /\ lagged' = FALSE
  /\ latest' = [k \in SharedKeys |-> 0]
  /\ unwritten' = {}
  /\ cpc' = "sleep"
  /\ cwake' = now + CleanupInterval
  /\ lastCycles' = 0
  /\ UNCHANGED <<now, table, store, sent, lapsed, returned>>

Tick ==
  /\ now < MaxTime
  /\ RefreshCanWait
  /\ StreamCanWait
  /\ CleanupCanWait
  /\ ~returned
  /\ now' = now + 1
  /\ UNCHANGED <<table, cancelled, refreshVars, streamVars, cleanupVars, daemonVars>>

Next ==
  \/ RefreshTask(RefreshNext)
  \/ StreamTask(StreamNext)
  \/ CleanupTask(CleanupNext)
  \/ CtrlC \/ Return \/ CrashAndRestart \/ Tick

Spec == Init /\ [][Next]_vars

(* Each task is polled; the provider and the sources answer eventually; a  *)
(* select! picks among its ready branches at random, so that the token's   *)
(* branch is taken eventually if it is ready again and again.              *)
Fairness ==
  /\ WF_vars(RefreshTask(CycleStep))
  /\ WF_vars(RefreshTask(RefreshWakes))
  /\ SF_vars(RefreshTask(RefreshStops))
  /\ WF_vars(StreamTask(StreamStep))
  /\ WF_vars(StreamTask(StreamStops))
  /\ WF_vars(CleanupTask(CleanupStep))
  /\ WF_vars(CleanupTask(CleanupStops))
  /\ WF_vars(Return)

FairSpec == Spec /\ Fairness

-------------------------------------------------------------------------------
(* Nothing the daemon does makes a row disappear that readers could see:   *)
(* an unexpired row is only ever replaced, by a row of the same key.       *)
LiveRowsStay ==
  [][\A r \in Live(table, now) : \E q \in table' : q.key = r.key]_vars

(* What readers find of a symbol's market data. *)
MarketPair(s) ==
  {[kind |-> r.key[1], gen |-> r.gen, expires |-> r.expires] : r \in RowsOf(MarketKinds, s)}

Readers == INSTANCE PublishedPairs WITH pair <- [s \in Symbols |-> MarketPair(s)]

(* The daemon keeps the promise of PublishedPairs: readers never find half *)
(* a pair, one built from candles older than those stored when it was      *)
(* committed, or one that ends before the pair it replaced, and a pair     *)
(* goes only when it has expired.                                          *)
PairsSpec == Readers!PairsSpec

(* While the cleanup task runs and no DELETE fails, an expired row stays   *)
(* for one interval at most, and for one more after every crash: the task  *)
(* sleeps before its first DELETE.                                         *)
GarbageIsBounded ==
  (~lapsed /\ MaxCycle <= MarketTTL /\ MaxCycle <= CalcTTL) =>
    \A r \in table : r.expires + (crashes + 1) * CleanupInterval >= now

(* run returns only after the token was triggered and no task is left to   *)
(* write; a stream that cannot start and a refresh that panics end their   *)
(* own task alone.                                                         *)
ReturnsOnlyWhenCancelled == returned => cancelled /\ AllStopped

(* A triggered token ends the daemon, however often the timers compete     *)
(* with it.                                                                *)
CancelEndsRun == cancelled ~> returned

(* At most one more refresh cycle starts after the token was triggered:    *)
(* the one whose timer was due at the same time.                           *)
OneLastCycle == Interval > 0 => lastCycles <= 1
===============================================================================
