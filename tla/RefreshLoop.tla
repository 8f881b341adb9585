------------------------------ MODULE RefreshLoop -----------------------------
(***************************************************************************)
(* The combined refresh task of the loader (daemon.rs): for every symbol   *)
(* fill the candle store from the provider, read the candles, upsert the   *)
(* bars and quote rows; then compute and upsert the indicators, symbol by  *)
(* symbol; then sleep, or stop when cancelled.                             *)
(*                                                                         *)
(* A generation number stands for the candles of a symbol: 0 for none, and *)
(* one more whenever the provider adds to them.  A cycle reads the days of *)
(* a window that ends on the day it starts; inWindow holds the symbols     *)
(* that have a stored day in it.                                           *)
(***************************************************************************)
EXTENDS LoaderBase

CONSTANTS
  SymbolList,  \* symbols followed by reference_symbols, in the config's order
  Indicators,  \* the configured indicator specs
  MarketTTL,   \* market_data.ttl_seconds
  CalcTTL,     \* calculations.ttl_seconds
  Interval,    \* market_data.refresh_interval_seconds
  MaxCycle,    \* longest duration of one refresh cycle
  MaxGen       \* bound on the generations of a symbol's candles

Symbols == {SymbolList[n] : n \in DOMAIN SymbolList}
MarketKinds == {"bars", "quote"}

ASSUME RefreshAssumption ==
  /\ SymbolList \in Seq(Symbols) /\ SymbolList # <<>>
  /\ MarketTTL \in Nat /\ CalcTTL \in Nat
  /\ Interval \in Nat /\ MaxCycle \in Nat /\ MaxGen \in Nat
  /\ Indicators \cap MarketKinds = {}

VARIABLES
  rpc,         \* where the task is
  todo,        \* the symbols the current pass has still to handle
  batch,       \* the rows built and not yet written
  candles,     \* candle_data of this cycle: per symbol a generation, 0 for none
  store,       \* the candle store on disk: the generation of each symbol
  inWindow,    \* the symbols with a stored day in the window of this cycle
  cycleStart,  \* when the current cycle started
  wake,        \* when the sleep ends
  marketFailed,\* symbols whose read or market write failed this cycle (history)
  calcFailed,  \* symbols whose indicators were not all written this cycle (history)
  faulted,     \* a read, write or computation has failed, or the task has
               \* panicked; a failed fill is none of these (history)
  covered      \* symbols whose market rows have been written, and whose
               \* reads have found candles ever since (history)

refreshHistory == <<marketFailed, calcFailed, faulted, covered>>
refreshVars == <<rpc, todo, batch, candles, store, inWindow, cycleStart, wake, refreshHistory>>

Working == {"fill", "read", "write", "calc", "calcwrite"}
RefreshRow == [key : (MarketKinds \cup Indicators) \X Symbols, symbol : Symbols,
               gen : 1..MaxGen, expires : Nat]

RefreshTypeOK ==
  /\ rpc \in Working \cup {"sleep", "stopped"}
  /\ todo \in Seq(Symbols)
  /\ batch \subseteq RefreshRow
  /\ candles \in [Symbols -> 0..MaxGen]
  /\ store \in [Symbols -> 0..MaxGen]
  /\ inWindow \subseteq {s \in Symbols : store[s] > 0}
  /\ cycleStart \in Nat
  /\ wake \in Nat
  /\ marketFailed \subseteq Symbols
  /\ calcFailed \subseteq Symbols
  /\ faulted \in BOOLEAN
  /\ covered \subseteq Symbols

(* The state in which a cycle begins, when the process starts or the timer *)
(* fires: candle_data is a fresh map, and the window is counted back from  *)
(* the day it is, so that the last stored days of any symbol may have left *)
(* it: over a weekend, or while the provider gives nothing new.            *)
CycleBegins(at) ==
  /\ rpc' = "fill"
  /\ todo' = SymbolList
  /\ candles' = [s \in Symbols |-> 0]
  /\ inWindow' \in SUBSET inWindow
  /\ cycleStart' = at
  /\ marketFailed' = {}
  /\ calcFailed' = {}

RefreshInit ==
  /\ rpc = "fill"
  /\ todo = SymbolList
  /\ batch = {}
  /\ candles = [s \in Symbols |-> 0]
  /\ store \in [Symbols -> {g \in {0, 1} : g <= MaxGen}]
  /\ inWindow \in SUBSET {s \in Symbols : store[s] > 0}
  /\ cycleStart = now
  /\ wake = now
  /\ marketFailed = {}
  /\ calcFailed = {}
  /\ faulted = FALSE
  /\ covered = {}

-------------------------------------------------------------------------------
(* Go on to the next symbol, or from the market data to the calculations. *)
NextSymbol ==
  IF Tail(todo) # <<>>
  THEN rpc' = "fill" /\ todo' = Tail(todo)
  ELSE rpc' = "calc" /\ todo' = SymbolList

(* Variants of CycleEnds: does not sleep; sleeps for the lifetime of the rows it wrote. *)
CycleEndsAtOnce ==
  /\ rpc' = "sleep"
  /\ todo' = <<>>
  /\ wake' = now

CycleEndsLate ==
  /\ rpc' = "sleep"
  /\ todo' = <<>>
  /\ wake' = now + MarketTTL

CycleEnds ==
  /\ rpc' = "sleep"
  /\ todo' = <<>>
  /\ wake' = now + Interval

NextCalculation ==
  IF Tail(todo) # <<>>
  THEN rpc' = "calc" /\ todo' = Tail(todo) /\ UNCHANGED wake
  ELSE CycleEnds

(* fill_missing_data for one symbol: the store may grow by days missing    *)
(* from the window.  A missing provider, a failed fetch and a write that   *)
(* fails after some of the days are only logged, and the cycle goes on     *)
(* with the candles there are, as if there had been nothing more to fetch. *)
Fill ==
  /\ rpc = "fill"
  /\ \/ UNCHANGED <<store, inWindow>>
     \/ /\ store[Head(todo)] < MaxGen
        /\ store' = [store EXCEPT ![Head(todo)] = @ + 1]
        /\ inWindow' = inWindow \cup {Head(todo)}
  /\ rpc' = "read"
  /\ UNCHANGED <<baseVars, todo, batch, candles, cycleStart, wake, refreshHistory>>

(* Variant of MarketRows: the quote row lives until the next refresh. *)
QuoteUntilRefresh(s, gen) ==
  {CacheRow("bars", s, gen, now + MarketTTL), CacheRow("quote", s, gen, now + Interval)}

(* candles_to_cache_rows: both rows carry the same expiry. *)
MarketRows(s, gen) ==
  {CacheRow(kind, s, gen, now + MarketTTL) : kind \in MarketKinds}

(* Variant of ReadCandles: builds rows whether or not there are candles. *)
ReadAnyCandles ==
  /\ rpc = "read"
  /\ batch' = MarketRows(Head(todo), store[Head(todo)])
  /\ rpc' = "write"
  /\ UNCHANGED <<baseVars, todo, candles, store, inWindow, cycleStart, wake, refreshHistory>>

(* read_range found candles in the window: build the rows. *)
ReadCandles ==
  /\ rpc = "read"
  /\ Head(todo) \in inWindow
  /\ batch' = MarketRows(Head(todo), store[Head(todo)])
  /\ rpc' = "write"
  /\ UNCHANGED <<baseVars, todo, candles, store, inWindow, cycleStart, wake, refreshHistory>>

(* read_range found no candle in the window: nothing to write, the rows    *)
(* written before stay until they expire, an empty entry in candle_data.   *)
ReadNoCandles ==
  /\ rpc = "read"
  /\ Head(todo) \notin inWindow
  /\ NextSymbol
  /\ candles' = [candles EXCEPT ![Head(todo)] = 0]
  /\ covered' = covered \ {Head(todo)}
  /\ UNCHANGED <<baseVars, batch, store, inWindow, cycleStart, wake,
                 marketFailed, calcFailed, faulted>>

(* read_range failed: the symbol is left out of candle_data. *)
ReadFails ==
  /\ rpc = "read"
  /\ NextSymbol
  /\ marketFailed' = marketFailed \cup {Head(todo)}
  /\ calcFailed' = calcFailed \cup {Head(todo)}
  /\ faulted' = TRUE
  /\ UNCHANGED <<baseVars, batch, candles, store, inWindow, cycleStart, wake, covered>>

(* candle_data.insert: done whether or not the rows could be written. *)
KeepCandles ==
  candles' = [candles EXCEPT ![Head(todo)] = store[Head(todo)]]

MarketWrite ==
  /\ rpc = "write"
  /\ table' = UpsertBatch(table, batch)
  /\ batch' = {}
  /\ KeepCandles
  /\ covered' = covered \cup {Head(todo)}
  /\ NextSymbol
  /\ UNCHANGED <<now, cancelled, store, inWindow, cycleStart, wake,
                 marketFailed, calcFailed, faulted>>

(* Variant of AfterMarketFailure: gives up the market data of the other symbols. *)
GiveUpMarketData == rpc' = "calc" /\ todo' = SymbolList

AfterMarketFailure == NextSymbol

(* Variant of MarketWriteFails: a failed write leaves a part of the batch. *)
MarketWriteFailsHalfway ==
  /\ rpc = "write"
  /\ table' = UpsertBatch(table, {r \in batch : r.key[1] = "bars"})
  /\ batch' = {}
  /\ KeepCandles
  /\ AfterMarketFailure
  /\ marketFailed' = marketFailed \cup {Head(todo)}
  /\ faulted' = TRUE
  /\ UNCHANGED <<now, cancelled, store, inWindow, cycleStart, wake, calcFailed, covered>>

(* The transaction failed, or the lock is poisoned: logged, and on to the next. *)
MarketWriteFails ==
  /\ rpc = "write"
  /\ batch' = {}
  /\ KeepCandles
  /\ AfterMarketFailure
  /\ marketFailed' = marketFailed \cup {Head(todo)}
  /\ faulted' = TRUE
  /\ UNCHANGED <<baseVars, store, inWindow, cycleStart, wake, calcFailed, covered>>

(* indicator_to_cache_row. *)
IndicatorRow(i, s, gen) == CacheRow(i, s, gen, now + CalcTTL)

(* compute_indicators: an indicator that cannot be computed is left out. *)
Calculate ==
  /\ rpc = "calc"
  /\ candles[Head(todo)] > 0
  /\ \E computed \in SUBSET Indicators :
       /\ computed # {}
       /\ batch' = {IndicatorRow(i, Head(todo), candles[Head(todo)]) : i \in computed}
       /\ calcFailed' = IF computed = Indicators THEN calcFailed ELSE calcFailed \cup {Head(todo)}
       /\ faulted' = (faulted \/ computed # Indicators)
  /\ rpc' = "calcwrite"
  /\ UNCHANGED <<baseVars, todo, candles, store, inWindow, cycleStart, wake, marketFailed, covered>>

(* No candles, or no indicator could be computed: nothing to write. *)
NothingToCalculate ==
  /\ rpc = "calc"
  /\ IF candles[Head(todo)] = 0
     THEN UNCHANGED <<calcFailed, faulted>>
     ELSE calcFailed' = calcFailed \cup {Head(todo)} /\ faulted' = TRUE
  /\ NextCalculation
  /\ UNCHANGED <<baseVars, batch, candles, store, inWindow, cycleStart, marketFailed, covered>>

CalcWrite ==
  /\ rpc = "calcwrite"
  /\ table' = UpsertBatch(table, batch)
  /\ batch' = {}
  /\ NextCalculation
  /\ UNCHANGED <<now, cancelled, candles, store, inWindow, cycleStart, refreshHistory>>

(* The ? on upsert_batch: the error ends refresh_calculations, and the     *)
(* indicators of the symbols that follow are not written either.           *)
CalcWriteFails ==
  /\ rpc = "calcwrite"
  /\ batch' = {}
  /\ CycleEnds
  /\ calcFailed' = calcFailed \cup {todo[n] : n \in DOMAIN todo}
  /\ faulted' = TRUE
  /\ UNCHANGED <<baseVars, candles, store, inWindow, cycleStart, marketFailed, covered>>

(* The select! between the token and the timer.  When both are ready the   *)
(* choice is random.                                                       *)
RefreshWakes ==
  /\ rpc = "sleep"
  /\ now >= wake
  /\ CycleBegins(now)
  /\ UNCHANGED <<baseVars, batch, store, wake, faulted, covered>>

(* Variant of RefreshStops: the timer is preferred to the token. *)
RefreshStopsUnlessDue ==
  /\ rpc = "sleep"
  /\ cancelled
  /\ now < wake
  /\ rpc' = "stopped"
  /\ UNCHANGED <<baseVars, todo, batch, candles, store, inWindow, cycleStart, wake, refreshHistory>>

RefreshStops ==
  /\ rpc = "sleep"
  /\ cancelled
  /\ rpc' = "stopped"
  /\ UNCHANGED <<baseVars, todo, batch, candles, store, inWindow, cycleStart, wake, refreshHistory>>

(* A panic in one of the libraries, while no lock is held: the task ends,  *)
(* join_next drops its error, and nothing restarts it.                     *)
RefreshPanics ==
  /\ rpc \in {"fill", "read", "calc"}
  /\ rpc' = "stopped"
  /\ faulted' = TRUE
  /\ UNCHANGED <<baseVars, todo, batch, candles, store, inWindow, cycleStart, wake,
                 marketFailed, calcFailed, covered>>

CycleStep ==
  \/ Fill
  \/ ReadCandles \/ ReadNoCandles \/ ReadFails
  \/ MarketWrite \/ MarketWriteFails
  \/ Calculate \/ NothingToCalculate
  \/ CalcWrite \/ CalcWriteFails

RefreshNext == CycleStep \/ RefreshWakes \/ RefreshStops \/ RefreshPanics

(* Time may pass: a cycle lasts MaxCycle at most, a due timer or token is  *)
(* served at once.                                                         *)
RefreshCanWait ==
  CASE rpc \in Working -> now < cycleStart + MaxCycle
    [] rpc = "sleep" -> now < wake /\ ~cancelled
    [] rpc = "stopped" -> TRUE

-------------------------------------------------------------------------------
(* The bars and the quote of a symbol come and go together, with the same  *)
(* data and the same expiry: a reader never pairs a quote with the bars of *)
(* another refresh, whatever write fails and whenever the process dies.    *)
BarsAgreeWithQuote ==
  \A s \in Symbols :
    /\ \A b, q \in RowsOf(MarketKinds, s) : b.gen = q.gen /\ b.expires = q.expires
    /\ RowsOf({"bars"}, s) = {} <=> RowsOf({"quote"}, s) = {}

(* When a cycle is over, a failed read, write or computation has cost only *)
(* the symbol it concerned (and, for an indicator write, the symbols after *)
(* it): every other symbol with candles in the window shows those now in   *)
(* the store in all its rows, bars and indicators alike.                   *)
FailuresAreIsolated ==
  rpc = "sleep" =>
    \A s \in inWindow :
      /\ s \notin marketFailed => \A r \in RowsOf(MarketKinds, s) : r.gen = store[s]
      /\ s \notin calcFailed => \A r \in RowsOf(Indicators, s) : r.gen = store[s]

(* With rows that outlive the interval and two cycles, and no failure but  *)
(* of the provider, a symbol that has been loaded goes missing from what   *)
(* readers see only after a cycle found none of its candles in the window: *)
(* an outage of the provider costs nothing before that.                    *)
NoGap ==
  (MarketTTL > Interval + 2 * MaxCycle /\ ~faulted /\ rpc # "stopped") =>
    \A s \in covered : \E r \in RowsOf({"bars"}, s) : r.expires > now
===============================================================================
