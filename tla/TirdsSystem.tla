----------------------------- MODULE TirdsSystem ------------------------------
(***************************************************************************)
(* Both programs over one database file: the loader, which creates and     *)
(* fills it, and runs of the tirds command, each of which reads a          *)
(* proposal, opens the file read-only, takes one snapshot of the rows of   *)
(* the proposal's symbol and decides from it.                              *)
(*                                                                         *)
(* An evaluation is here what Orchestrator promises of it: it decides or   *)
(* is refused, EvalTime after its snapshot at the latest.                  *)
(***************************************************************************)
EXTENDS LoaderDaemon, FiniteSets

CONSTANTS
  Proposal,    \* the symbol of the proposals
  References,  \* the market symbols the macro prompt names: SPY, VIX, QQQ
  SectorFunds, \* the sector funds the prompts name: XLK, XLF, XLE, XLV
  Domains,     \* the domains of the enabled specialists
  EvalTime     \* specialist_timeout_seconds + total_timeout_seconds

ASSUME SystemAssumption ==
  /\ Proposal \in Symbols
  /\ EvalTime \in Nat

VARIABLES
  db,        \* the database file: absent, empty (no table yet) or ready
  epc,       \* where the tirds process is
  snapshot,  \* the domain snapshot: the keys and the data of its rows
  took,      \* when the snapshot was taken
  sound,     \* whether the refreshes had met no trouble by then (history)
  troubled,  \* a refresh has failed, or the refresh task has ended (history)
  arrived    \* per generation of the proposal's candles when the store got it,
             \* -1 if it has not, or if the window has left them (history)

evalVars == <<epc, snapshot, took, sound>>
systemVars == <<db, evalVars, troubled, arrived>>
allVars == <<vars, systemVars>>

SystemTypeOK ==
  /\ TypeOK
  /\ db \in {"absent", "empty", "ready"}
  /\ epc \in {"idle", "opened", "evaluating"}
  /\ snapshot \subseteq [key : (MarketKinds \cup Indicators) \X Symbols \cup StreamKeys, gen : Nat]
  /\ took \in Nat
  /\ sound \in BOOLEAN
  /\ troubled \in BOOLEAN
  /\ arrived \in [1..MaxGen -> Nat \cup {-1}]

(* A generation of the proposal's candles is stored, and the window has    *)
(* days of the symbol.                                                     *)
Held(g) == g <= store[Proposal] /\ Proposal \in inWindow

(* The file may be there from earlier runs of the loader, its rows gone. *)
SystemInit ==
  /\ Init
  /\ db \in {"absent", "ready"}
  /\ epc = "idle"
  /\ snapshot = {}
  /\ took = 0
  /\ sound = FALSE
  /\ troubled = FALSE
  /\ arrived = [g \in 1..MaxGen |-> IF Held(g) THEN 0 ELSE -1]

-------------------------------------------------------------------------------
(* The loader. *)

(* Connection::open creates the file. *)
LoaderCreatesFile ==
  /\ db = "absent"
  /\ db' = "empty"
  /\ UNCHANGED <<vars, evalVars, troubled, arrived>>

(* CACHE_TABLE_DDL creates the table; the daemon starts. *)
LoaderCreatesTable ==
  /\ db = "empty"
  /\ db' = "ready"
  /\ UNCHANGED <<vars, evalVars, troubled, arrived>>

(* Any step of the daemon, with what the history notes of it. *)
DaemonStep ==
  /\ db = "ready"
  /\ \/ RefreshTask(RefreshNext)
     \/ StreamTask(StreamNext)
     \/ CleanupTask(CleanupNext)
     \/ CtrlC \/ Return \/ CrashAndRestart
  /\ troubled' = (troubled \/ faulted' \/ rpc' = "stopped")
  /\ arrived' = [g \in 1..MaxGen |->
                  IF ~Held(g)' THEN -1
                  ELSE IF arrived[g] = -1 THEN now ELSE arrived[g]]
  /\ UNCHANGED <<db, evalVars>>

-------------------------------------------------------------------------------
(* The tirds command. *)

(* A new process has read its configuration and the proposal, and opens    *)
(* the file with SQLITE_OPEN_READ_ONLY, which creates nothing.  A process  *)
(* that fails before or while opening it leaves no trace.                  *)
OpensCache ==
  /\ epc = "idle"
  /\ db # "absent"
  /\ epc' = "opened"
  /\ UNCHANGED <<vars, db, snapshot, took, sound, troubled, arrived>>

(* build_domain_snapshot of the proposal's symbol: one SELECT, of which    *)
(* the keys and the values are kept.                                       *)
TakesSnapshot ==
  /\ epc = "opened"
  /\ db = "ready"
  /\ epc' = "evaluating"
  /\ snapshot' = {[key |-> r.key, gen |-> r.gen] : r \in GetBySymbol(table, Proposal, now)}
  /\ took' = now
  /\ sound' = ~troubled
  /\ UNCHANGED <<vars, db, troubled, arrived>>

(* There is no table yet, or the SELECT fails: the process ends. *)
SnapshotRefused ==
  /\ epc = "opened"
  /\ epc' = "idle"
  /\ UNCHANGED <<vars, db, snapshot, took, sound, troubled, arrived>>

(* The decision is printed, or the evaluation was refused: the process ends. *)
Concludes ==
  /\ epc = "evaluating"
  /\ epc' = "idle"
  /\ snapshot' = {}
  /\ took' = 0
  /\ sound' = FALSE
  /\ UNCHANGED <<vars, db, troubled, arrived>>

EvaluatorStep == OpensCache \/ TakesSnapshot \/ SnapshotRefused \/ Concludes

-------------------------------------------------------------------------------
(* The clock starts with the daemon; of what the tirds process does after  *)
(* it has read its input, only the evaluation itself takes time.           *)
SystemTick ==
  /\ db = "ready"
  /\ epc # "opened"
  /\ epc = "evaluating" => now < took + EvalTime
  /\ Tick
  /\ UNCHANGED systemVars

SystemNext ==
  \/ LoaderCreatesFile \/ LoaderCreatesTable \/ DaemonStep
  \/ EvaluatorStep
  \/ SystemTick

SystemSpec == SystemInit /\ [][SystemNext]_allVars

-------------------------------------------------------------------------------
(* What the specialists' prompts say domain_data contains, as the kind and *)
(* the symbol of a row.  Bars are bars of any interval here: the loader    *)
(* files them as 5m, the macro and sector prompts name 1d.                 *)
TechnicalData == (Indicators \cup MarketKinds) \X {Proposal}
MacroData == ({"ref"} \X (References \cup SectorFunds)) \cup ({"bars"} \X References)
SentimentData == {"sentiment:news", "sentiment:social", "sentiment:analyst"} \X {Proposal}
SectorData == ({"ref"} \X (SectorFunds \cup References)) \cup ({"bars"} \X SectorFunds)

(* get_specialist_prompt: the other domains have none. *)
Documented(domain) ==
  CASE domain = "technical" -> TechnicalData
    [] domain = "macro" -> MacroData
    [] domain = "sentiment" -> SentimentData
    [] domain = "sector" -> SectorData
    [] OTHER -> {}

RowsIn(rows, kinds) == {r \in rows : r.key[1] \in kinds}

(* A row a specialist's prompt describes is in its domain_data whenever    *)
(* the cache holds it, unexpired, as the snapshot is taken.                *)
DocumentedDataArrives ==
  [][(epc = "opened" /\ epc' = "evaluating") =>
       \A d \in Domains : \A r \in Live(table, now) :
         r.key \in Documented(d) => [key |-> r.key, gen |-> r.gen] \in snapshot']_allVars

(* While nothing fails but the provider, a decision knows the candles the  *)
(* store got more than a refresh cycle before its snapshot, hence more     *)
(* than a cycle and the timeouts before the decision, unless no day of the *)
(* symbol is left in the window; a crash of the loader adds a cycle.  Rows *)
(* that outlive the interval and two cycles, and one more per crash, are   *)
(* needed for this.                                                        *)
DecisionIsFresh ==
  (epc = "evaluating" /\ sound /\ MarketTTL > Interval + (2 + crashes) * MaxCycle) =>
    \A g \in 1..MaxGen :
      (arrived[g] # -1 /\ now > arrived[g] + (1 + crashes) * MaxCycle + EvalTime) =>
        \E r \in RowsIn(snapshot, {"bars"}) : r.gen >= g

(* How often the configuration lists the proposal's symbol: a cycle fills  *)
(* its candles as often.                                                   *)
Listed == Cardinality({n \in DOMAIN SymbolList : SymbolList[n] = Proposal})

(* While nothing fails, the indicators a decision sees are never ahead of  *)
(* the bars it sees, and behind them by what one cycle fills in at most: a *)
(* cycle computes them after its last fill.  A crash between the bars and  *)
(* the indicators puts them one more cycle behind.                         *)
IndicatorsFollowBars ==
  (epc = "evaluating" /\ sound) =>
    \A b \in RowsIn(snapshot, {"bars"}), i \in RowsIn(snapshot, Indicators) :
      i.gen <= b.gen /\ b.gen <= i.gen + Listed * (1 + crashes)

(* The bars and the quote a decision sees are of one refresh, and one is   *)
(* never there without the other, whatever fails and whenever the loader   *)
(* dies.                                                                   *)
SnapshotIsPaired ==
  /\ \A b, q \in RowsIn(snapshot, MarketKinds) : b.gen = q.gen
  /\ RowsIn(snapshot, {"bars"}) = {} <=> RowsIn(snapshot, {"quote"}) = {}
===============================================================================
