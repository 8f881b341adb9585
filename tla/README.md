# A TLA+ verification of TIRDS

TIRDS evaluates trade proposals with specialist agents (the `claude` CLI) that
are given market data from a shared SQLite cache. A second program, the loader,
fills that cache. This directory holds TLA+ models of both programs, translated
from the Rust source, the TLC configurations that check them on small instances
and the theorems TLAPS proves about them.

## 1. Inventory

| Component | State it keeps | Operations | Models |
|---|---|---|---|
| `cache_entries` table (`cache_schema.rs`, `sqlite.rs`, `writer.rs`) | rows: key, symbol, value, expiry | upsert, upsert batch (one transaction), delete expired, select by key, by symbol, by prefix | `CacheTable` |
| read-through cache (`reader.rs`, `memory.rs`) | moka entries with a time-to-live; the calls in flight | `get`, `get_json`, `build_domain_snapshot` | `CacheReader`, abstractly `StaleCache` |
| loader refresh task (`daemon.rs`, `market_data.rs`, `calculations.rs`) | position in the cycle, candles read this cycle, candle store on disk | fill, read, build and write bars and quote, compute and write indicators, sleep | `RefreshLoop` |
| loader stream task (`daemon.rs`, `stream.rs`) | broadcast receiver | start sources, subscribe, receive, lag, stop, shut down | `StreamLoop` |
| loader cleanup task (`daemon.rs`) | its timer | sleep, delete expired rows | `CleanupLoop` |
| loader daemon (`daemon.rs`, `main.rs`) | the cancellation token, the join set | run, cancel, crash and restart | `LoaderDaemon`, abstractly `PublishedPairs` |
| orchestrator (`orchestrator.rs`, `specialist.rs`, `claude_cli.rs`, `tirds/src/lib.rs`) | task and child process per specialist, the reports | `evaluate` | `Orchestrator`, abstractly `Evaluation` |
| response parser (`parser.rs`) | none | `extract_json` and its three strategies | `JsonExtract` |
| candle filling (`fill_missing_data`) | days in the candle store | fetch the range of missing days, write them | `CandleFill`; a generation number in `RefreshLoop` |
| tirds command line (`tirds/src/main.rs`, `lib.rs`) | the snapshot of the evaluation it runs | open the file read-only, evaluate, print | `TirdsSystem`, with the loader |
| prompts and data model (`prompts.rs`, `trade_decision.rs`, `agent_message.rs`) | none | what a prompt asks for, what a type decodes from | `AgentJson`; the data the prompts describe, in `TirdsSystem` |
| configuration (`config.rs` of both programs) | none | defaults | `Configuration` |
| test support, errors | none | pure data | not modelled |

How they interact. The loader's three tokio tasks share one writer connection
behind a `std::sync::Mutex`, and one cancellation token. The evaluating process
opens the same database read-only; the two processes share nothing else. An
`evaluate` call takes one snapshot of the symbol's rows, hands it to one task
per specialist, each of which runs a child process under a timeout, awaits the
tasks in the configured order, and runs the synthesizer as another child.

What is hard here: reads that race the loader's rewrites and outlive them in
moka; the refresh cycle, the stream and the cleanup interleaving on one table,
with any write failing and the process dying anywhere; a broadcast channel
that overflows; timers that compete with cancellation; specialists that
answer, fail, time out or panic in any order; child processes that
outlive their timeout; and decisions made from a snapshot while the loader goes
on refreshing, failing and restarting. `PROJECT.json` lists each of these hazards at its line.

## 2. The modules

### CacheTable

The SQL statements as operators on a set of rows. `UpsertBatch` is `INSERT OR
REPLACE` of a batch in one transaction, `ExpireStale` the `DELETE`, `GetByKey`
and `GetBySymbol` the selects with their `expires_at > now`. Timestamps are
integers; the code compares RFC 3339 strings in UTC.

### CacheReader, StaleCache, CacheReaderProofs

`CacheReader` has concurrent clients, each in one `get` or `get_json` call
(`typed` tells them apart). A call is split where the code awaits or unlocks:
`GetHit`/`GetMiss` (moka), `QueryFindsRow`/`QueryFindsNothing`/`QueryFails`
(SQLite, under the mutex), `Promote` (insert in moka, parse, return). Between
these steps the loader may commit (`PipelineWrite`) or delete
(`PipelineCleanup`) and moka may drop entries (`Evict`). A row has a version
and a commit time; `written`, `seen` and `crossed` (two calls of the key have
missed moka at the same time) record history; no guard looks at them.
`build_domain_snapshot` is one SELECT and so is an expression over the state,
`DomainSnapshot`.

`StaleCache` is the promise: a call answers with a committed row that was
current and unexpired at some instant no more than `Slack` ago, or that there
is nothing when there is nothing. `CacheReader` implements it with
`Slack = MemTTL + MaxDelay`.

### LoaderBase, RefreshLoop, StreamLoop, CleanupLoop, LoaderDaemon, PublishedPairs, LoaderProofs, RefreshProofs, StreamProofs

One module per task over the shared variables of `LoaderBase` (clock, table,
token), composed by `LoaderDaemon`, whose steps are a step of one task, Ctrl-C,
the return of `run`, a crash with restart, or time passing.

`RefreshLoop` goes through the symbols as `run_combined_refresh` does: `Fill`,
`ReadCandles`/`ReadNoCandles`/`ReadFails`, `MarketWrite`/`MarketWriteFails`,
then for every symbol `Calculate`/`NothingToCalculate`,
`CalcWrite`/`CalcWriteFails`. The candles of a symbol are a generation number
that grows when the provider adds to them. A cycle reads the days of a window that is
counted back from the day it starts: `inWindow` holds the symbols that have a stored day in it.
It shrinks in any way when a cycle begins (`CycleBegins`: a weekend, a holiday, or a provider that
gives nothing new), grows when a fill stores a day, and a read of a symbol outside it finds nothing
(`ReadNoCandles`): no row is written, and those written before run out. A fill that fails is the
same step as one that had nothing to fetch, and is not counted in `faulted`: what an outage of the
provider costs shows as the symbol leaving the window, and `NoGap` and `DecisionIsFresh` say that it
costs nothing before that. Building rows (which fixes their
expiry) and writing them are separate steps. `CalcWriteFails` ends the pass, as
the `?` does; the other failures go on with the next symbol. `RefreshPanics` ends
the task for good while the process goes on, as `run` drops what `join_next`
reports. `SymbolList` is a
sequence and may repeat a symbol, as the two lists of the configuration may.

`StreamLoop` sees tokio's broadcast channel from its only receiver: a full
channel drops its oldest message and the next `recv` reports `Lagged`. Messages
have a kind, the tickers they name and a sequence number; their keys are those
of `stream_message_to_cache_rows`. Receiving and writing is one step: the code
has no await between them. The `Closed` branch cannot be taken while the task
holds the manager, and is left out.

`CleanupLoop` sleeps, deletes, and stops.

A crash keeps the table and the candle store and resets the rest.

`PublishedPairs` is the promise to readers. Of the table it knows the bars and
the quote of each symbol (`pair`), of the tasks nothing: candles are learnt
(`Learn`), a pair is replaced by one of the candles stored now that ends no
earlier (`Replace`), pairs that have expired go (`Withdraw`), time passes. It
has no crash: one is a stutter. `LoaderDaemon` implements it with
`pair[s] = MarketPair(s)`; the half-built batch, the cycle, the message rows and
the indicators do not show.

### Orchestrator, Evaluation, AgentJson, OrchestratorProofs

`Orchestrator` is one `evaluate` call: the snapshot, the spawned tasks
(`task[a]`), their child processes (`child[a]`), the handle awaited
(`awaited`), the reports and responses, and the synthesis as invoker 0. A
specialist may have no prompt, fail to start, answer, fail, time out or panic.
A timeout leaves the child running, which ends on its own (`OrphanExits`).

`Evaluation` is the promise: verdicts come in any order, none fails the
evaluation, and the decision's reports tell, in the configured order, of every
specialist that did not panic.

`AgentJson` has the types that are decoded from the processes' answers. A type
is the set of the JSON values it decodes from: a struct is a set of records, a
scalar what the decoders tell apart (a number with or without a fraction, a
string that spells a number, ...), and an `Option` field may be null or absent.
`DecisionBuilds` and `HasTarget` are `build_trade_decision`; `AskedResponse`
and `AskedAnswer` are what the prompts ask for, so that a field one of them
names and the other does not would show. JSON arrays in place of objects, and
fields the types do not know, are left out. `CliAnswers` and `SynthesisAnswers`
choose any of the objects the instance gives: those that differ from one that
is as asked in one place, at any depth. Scores are not range-checked, in the
code as in the model, though they are documented as 0.0 to 1.0.

### TirdsSystem, SystemProofs

Both programs over one file. The loader's daemon is `LoaderDaemon`, whose
actions are taken as they are (`DaemonStep`); before it runs, the file does not
exist (`LoaderCreatesFile`) or has no table (`LoaderCreatesTable`). The tirds
command opens the file (`OpensCache`), takes its snapshot (`TakesSnapshot`) or
fails (`SnapshotRefused`), and concludes at most `EvalTime` later, which is what
`Orchestrator` guarantees (`EvaluateIsBounded`); then another run may start.
`took`, `sound`, `troubled` and `arrived` are history: `arrived[g]` is when the store got
generation `g` of the proposal's candles, for as long as the window has days of the symbol (`Held`),
and starts anew when the first day is fetched after it had none. Of the cache the command uses the
snapshot only; `get` and `get_json`, which `CacheReader` checks, are the cache's interface and have
no caller in the evaluating program yet.

`TechnicalData`, `MacroData`, `SentimentData` and `SectorData` are the rows the
prompts say `domain_data` contains.

### Configuration

The defaults of both programs. The instances of `Orchestrator` use them in units
of 45 or 15 seconds, those of `TirdsSystem` in units of five minutes.

### JsonExtract, JsonExtractProofs

`extract_json` on a text, which is a sequence of pieces: braces (`open`, `close`), quotes,
backslashes, fences with and without a line end, and words that JSON has (`plain`) or does
not have (`prose`) outside strings. The three strategies are the steps `TryWhole`,
`TryMarkdown` and `TryScan`; `Scan` is the loop of `extract_first_object` as a recursive
function (`ScanPiece` one round of it, `MatchPiece` its `match`), `Blocks` the search for a
marker and the next fence. `Objects` and `Values` say, by generating them, what `serde_json`
accepts, and are what the result is compared with: the model's scanner and the reference
grammar share nothing. All texts up to `MaxLength` are initial states.

### CandleFill, CandleFillProofs

One symbol of `fill_missing_data` over many refresh cycles: `StartFill` takes
the days without a file, `ProviderAnswers`/`ProviderFails` is the awaited
fetch of the range from the first missing day to the last, `WriteDay` and
`WriteFails` write the days one at a time. Meanwhile today goes on trading and
ends (`Trade`, `DayEnds`), so what a day holds depends on when it is asked
for. The candles of a day are counted. `settled` is history: the missing days
that had candles when the provider answered; no guard looks at it.

Definitions named "variant of" in the modules are not part of any
specification: each is what a plausible bug would make of the definition after
it, and shows that the property it is paired with notices the bug.

## 3. What is checked

| Run | Question | Distinct states |
|---|---|---|
| `MCCacheReaderRace` | Two callers of one key against a rewriting loader: bounded staleness, snapshot never behind gets, reads that go back only after two concurrent misses, refinement of `StaleCache` | 3.3 M |
| `MCLoaderRefresh` | Two symbols, failing reads, writes and computations: a failure costs its own symbol only | 5.4 M |
| `MCLoaderCrash` | Refresh, cleanup, a sliding window and a crash anywhere: bars agree with quote, no gap in a loaded symbol while the window has its candles, live rows stay, garbage is bounded, one last cycle after cancellation; refinement of `PublishedPairs` | 2.2 M |
| `MCLoaderStream` | All three tasks, every timer always due, and a channel that overflows: latest message wins, rows go forward, `run` returns only when cancelled, and cancelling ends it | 250 k |
| `MCOrchestrator` | Three specialists, one without a prompt, whose processes may never answer, or answer with flawed JSON: refinement of `Evaluation`, time bound, what the synthesizer hears, orphans, answers as asked count; `evaluate` returns | 288 k |
| `MCJsonExtract` | Every text of up to seven pieces: after an introduction in words the first object is returned; an object in a `json` fence is returned, even when a fence in its strings ends the block early | 7.2 M |
| `MCCandleFill` | Four days, one a holiday, with failing fetches and writes: no holes, no file rewritten | 1.0 k |
| `MCTirdsSystem` | Both programs: how old a decision's candles can be, and that its bars, quote and indicators belong together, with the loader failing, panicking and dying anywhere and its window sliding | 4.9 M |

Four runs show that the code and its documentation disagree:

* `MCCacheReaderExpired`: moka answers with a row after its expiry, which the
  README says is filtered on read. `BoundedStaleness` is what holds instead.
* `MCOrchestratorTotal`: `total_timeout_seconds` bounds the synthesis only; its
  documentation says that it bounds the entire evaluation.
  `EvaluateIsBounded` is what holds instead.
* `MCCandleFillHistory`: a day fetched while it trades keeps the candles it had
  then, because a day with a file is never missing; the architecture document
  says that historical prices need no second fetch.
* `MCTirdsSystemPrompts`: the macro and sector prompts say that `domain_data`
  contains the bars of SPY and of sector funds. The snapshot holds the rows of
  the proposal's symbol only, whatever the cache holds of the others. Beyond
  the run: nothing writes the `ref:` and `sentiment:` keys the prompts name (the
  loader files reference symbols as `bars:` and `quote:`, messages as `news:` and
  `social:`), bars are filed as `5m` where `1d` is named, economic series have no
  symbol, and indicator rows hold `latest` and `series` where `value` is named.

Four smaller disagreements were met while modelling and have no run:

* `Daemon::run` comments that its tasks run until cancelled; the stream task
  (`StartFails`) ends for good when a source cannot start.
* The loader's README says that without streaming the loader exits once all
  symbols are processed; the refresh and cleanup loops run until cancelled.
* A stray brace or quote before a balanced object hides it from
  `extract_first_object`, which says that it finds the first balanced one.
  `ProseThenObject` therefore asks for an introduction in words.
* `extract_json` returns a markdown block with any JSON value in preference to
  an object elsewhere, and says that it returns an object.
  `ProseThenObject` therefore excludes fences with a line end.

Also worth knowing: when two calls of a key miss moka at the same time, reads of
the key can go back (a row read before an upsert may be promoted after the newer
one), which is why `MonotonicReads` excludes keys for which this has happened.

### Bounds

Clocks stop at `MaxTime`; `MaxWrites`, `MaxGen`, `MaxMessages` and `MaxCrashes` bound the
rest. `MaxDelay` bounds the time from a SELECT to the promotion of its row, and `MaxCycle`
the duration of a refresh cycle; both are assumptions about the environment that the timed
properties name. The lifetimes in the cfgs are chosen to fall before, on and after each
other's ends: in `MCCacheReaderRace` rows live 0 or 2 and moka entries 1 of 4 time units, so
that an entry outlives its row, is replaced in time, and ends with it. In `MCLoaderStream`
three messages through a channel of two places overflow it; all its intervals are 0, so that
the timers compete with the token all the time. In `MCLoaderCrash` seven time units hold two
cleanups after a crash, and the whole life of a row. `MCTirdsSystem` is the default
configuration, five minutes being one unit: rows live for two refreshes, a cycle takes no
time, and an evaluation takes up to one unit (165 s by default). Its bounds are tight:
`DecisionIsFresh` fails with a smaller delay, and `IndicatorsFollowBars` without its
allowance for the crash. They list the proposal's symbol once; what a symbol in both lists
of the configuration does to `IndicatorsFollowBars` is left to its theorem. `MCOrchestrator`
has the default timeouts, 45 and 120 seconds, in units of 45. `MCLoaderCrash` has `MarketTTL
= 4 > Interval + 2 * MaxCycle = 3`, the least lifetime for which `NoGap` has to hold;
`MCLoaderRefresh` has two symbols, and three time units for several cycles.

Time is prompt: it does not pass while a timer is due or a task is ready to
run. Without this no bound on time could hold. The time a step itself takes is
in `MaxDelay` and `MaxCycle`.

Texts of seven pieces hold a nested object before another, an escaped quote in
a string, and a fence inside a string inside a fence. In `MCCandleFill` the
window slides past a holiday that stays missing for ever, so that fetched
ranges cover stored days.

`CHECK_DEADLOCK FALSE` is set for the loader, which stops when `run` has
returned, for the orchestrator and the parser, which stop when the call has,
and for candle filling, which has nothing to do after `LastDay`.

### Fairness

`MCLoaderStream` uses `LoaderDaemon!FairSpec`: tokio polls
every task, so each of its steps is weakly fair; this includes the provider's
and the sources' answers, which the code awaits without a timeout.
`RefreshStops` is strongly fair, because the token's branch is enabled again
and again rather than always, and `select!` picks among ready branches at
random. Nothing is assumed of Ctrl-C, of failures, or of messages.

`MCOrchestrator` uses `Orchestrator!FairSpec`: tasks are polled, timeouts
fire and time passes. Nothing is assumed of the `claude` processes.

## 4. What is proved

`CacheReaderProofs` proves, for any sets of clients and keys and any lifetimes
and bounds that satisfy `TimesAreNat` and `NullIsNoRecord`:

* `TypeCorrect`, `StalenessIsBounded` and `SnapshotNeverBehind`: the invariants
  of the run `MCCacheReaderRace`;
* `ImplementsStaleCache`: `Spec => StaleSpec`;
* `ReadsAreMonotonic`: `MonotonicReads`, reads of a key never go back unless two
  calls of the key have missed moka at the same time.

The invariants are not inductive. The strengthening `IInv` (`InvariantHolds`)
adds that every row in the table, in moka, or held by a call was committed;
that versions are unique and grow with commit time; that the table holds, for
each key, the newest version unless that has expired and was deleted; and that
a moka entry was current and unexpired at most `MaxDelay` before it was
inserted, a row held by a call at its `readAt`. From the last part the bound on
an answer's staleness follows by adding the entry's age, which `HotVisible`
keeps below `MemTTL`. For `ReadsAreMonotonic` two more invariants are needed: while
no two calls of a key have crossed, a call in flight is the only one of its key
(`AloneInFlight`), and nothing in moka or held by a call is older than what was
seen (`NothingBehindSeen`). The snapshot is never behind because it shows the newest
version whenever it shows any.

`CandleFillProofs` proves, for any number of days, any holidays and any window
(`FillAssumption`):

* `FillTypeCorrect`: `TypeOK`, of which the part that matters is that no empty
  day is queued;
* `NoHolesLeft`: `NoHoles`;
* `FilesArePermanent`: `FilesStay`.

`IInv` (`FillInvariant`) adds what the property needs while a call is under
way: missing days have no file until they are written, the queue has each day
once and only days without a file, is empty when nothing is being written, and
every settled day is stored or in the queue. `FilesStay` follows, as
`WriteDay` takes its day from the queue.

`LoaderProofs`, `RefreshProofs` and `StreamProofs` are about `LoaderDaemon`, for any symbols,
indicators, tickers, lifetimes, intervals and bounds. They use the assumptions of its modules:
numbers are naturals, the list of symbols is not empty (`RefreshAssumption`), the channel has a
place (`StreamAssumption`), and the keys of the refresh and of the stream task begin with
different words (`KeyPrefixAssumption`, which the key formats of `candles_to_cache_rows`,
`indicator_to_cache_row` and `stream_message_to_cache_rows` satisfy).

* `DaemonTypeCorrect`, `ReturnIsAfterCancel`, `LiveRowsAreKept`, `CancelLeavesOneCycle`,
  `GarbageStaysBounded`: the properties of the daemon as a whole;
* `BarsAlwaysAgreeWithQuote`, `FailuresStayIsolated`, `NoSymbolGap`: those of the refresh task;
* `ExpiriesOnlyGrow`: no pair in the table or about to be written lasts longer than one built now
  would, and the one about to be written lasts as long as the one it replaces, at least
  (`ExpiryInv`);
* `DaemonImplementsPairs`: `Spec => PairsSpec`;
* `StreamOnlyGoesForward`, `TheLatestMessageWins`: those of the stream task.

All of them rest on `CycleInv` (`CycleInvHolds`): the batch about to be written consists of the
rows of the symbol at hand, built from what the store and the cycle hold, with an expiry counted
from this cycle, and the clock is within the cycle's or the sleep's length. With it every step
does one of four things to the table (`TableSteps`): nothing, an upsert of that batch, an upsert
of a message's rows, or a DELETE of expired rows. `KeysInv` adds that keys are unique and that
the tasks do not write each other's.

* For `DaemonImplementsPairs` a fill is `Learn`, a market write is `Replace`, a DELETE is
  `Withdraw`; every other step leaves the pairs alone, as its rows have other keys (`KeysInv`).
  That a replacement ends no earlier than what it replaces is `ExpiryInv`: rows are built with an
  expiry counted from a clock that only advances, also through a crash. That a DELETE takes both
  rows of a pair or none is `BarsAgreeWithQuote`, which gives them one expiry.
* A failed symbol does not show in `rpc`, so `IsolationInv` says at every point of a cycle what
  the table shows of the symbols the cycle has passed and that have candles in the window:
  `MarketDone` and `CalcDone` say which the cycle has passed, for a list that may repeat a symbol.
* `NoGap` needs to know how long the bars of a symbol last: to the end of the next cycle, at
  least, before this cycle has replaced them, and one interval more after (`GapInv`). It speaks of
  the symbols that have been written and whose reads have found candles ever since (`covered`).
* For the stream, `ChannelInv` gives every message in the channel its number, counted from
  `Gone`, the number of messages that have left it; `HistoryInv` and `ShownInv` say of each key
  that its latest message is in the channel or, if nothing lapped it, in the table. The lapping
  is what `latest[k] + Capacity > sent` excludes.
* `GarbageIsBounded` needs that the next DELETE is due before a row is older than it may be.

`OrchestratorProofs` is about one `evaluate` call with any number of specialists, any timeouts
and any JSON. `OrchestratorAssumption` has `Missing \notin Answers`: an answer is a JSON
object, `extract_json` returns one or an error.

* `OrchestratorTypeCorrect`, `EvaluateStaysBounded`, `OrphansAreLate`, `AskedAnswersAlwaysCount`,
  `SynthesisInputIsRight`: the invariants of the run;
* `EvaluateImplementsEvaluation`: `Spec => EvaluationSpec`. A task's end is the verdict of
  `Evaluation`, the collection of a handle is a stutter, and the decision shows the reports.

`CallInv` (`CallInvHolds`) says where the call is in the list of handles, that every task before
the awaited one has finished, and that all tasks start their process at the same instant. That is
why the specialists' timeouts run in parallel and the bound is the sum of two timeouts whatever
the number of specialists. `ReportsInv` and `ResponsesInv` add that the reports and the responses
are those of the collected tasks, in order: from them follow what the synthesizer hears and that
the published reports are the ones `Evaluation` promises.

`SystemProofs` is about both programs. `SystemRunsTheLoader` (`SystemSpec => Spec`) carries every
theorem about the daemon over to the system.

* `SystemTypeCorrect`;
* `SnapshotsArePaired`: bars and quote have the same expiry, so a snapshot has both or neither;
* `IndicatorsAlwaysFollowBars`, for any list of symbols. A cycle fills all symbols before it
  computes, so a symbol listed twice is two refreshes ahead of its indicators by then; the bound
  counts how often the proposal's symbol is listed (`Listed`). `FollowInv` says how far the store
  is ahead of the indicators (`Ahead`): by the places of the list at which this cycle has filled
  the symbol (`FilledUpTo`), and by `Listed` for every crash, which may have cut a cycle short
  before it computed. While the window has no day of the symbol nothing has been filled in
  (`Passed`), though its indicators are not renewed either. `SuffixInv` says that the list still
  to do is the end of the configured one, which makes the number of places passed (`Position`) a
  function of the state that only grows while the cycle fills;
* `DecisionsAreFresh`: `DecisionIsFresh`. `FreshInv` says that candles the store has got either
  wait, in a cycle that started no later than they came (but for one cycle's length per crash),
  or are shown by bars that outlive this cycle, as long as the window has days of the symbol; when
  it has none, `ArrivedInv` says that nothing counts as arrived. A snapshot then has them once a
  cycle has passed since they came.

`JsonExtractProofs` is about `extract_json` on texts of any length over any part of the alphabet
(`AlphabetAssumption`):

* `StrategiesInOrder`: the inductive invariant `ResultInv`, which says that a strategy is tried
  only when the ones before it found nothing that parses, and what the result is when one did;
* `ProseThenObjectHolds` and `FencedObjectHolds`.

The scanner and the grammar are recursive functions, so both theorems are inductions. They come
from the least number principle (`LeastNatural`, from the library's `NatLessThanWellFounded`):
`StrongInduction` states it for sets, which, unlike a predicate, a lemma can take as a parameter,
and `RecursionOnNaturals` says that a definition that only looks back defines a function. With the
first, `ScanBody` says that the inside of a string leaves the scanner in the string, and
`MembersKept` that the inside of an object leaves it in the object, however deep the nesting;
`ObjectScan` concludes that the scan of an introduction and an object ends at the object's closing
brace and not before. The grammar generates the objects and does not scan them, so this is where
the two meet. As the scan of a text has one end, any other object that starts at the same brace
is the same object: that settles the whole text and the block of a fence (`WholeObject`,
`ObjectInFence`).

TLC checked these invariants before they were proved, `IsolationInv`, `GapInv`, `FollowInv`,
`FreshInv`, `ResultInv` and the others, on the instances of the runs.

Only model-checked:

* The liveness properties `CancelEndsRun` and `EvaluateReturns`: fairness speaks of `ENABLED`,
  which is out of the prover's reach. Their safety halves, `OneLastCycle` and
  `EvaluateIsBounded`, are proved.
* The four properties the code violates.

## 5. Not modelled

`market_data_loop` and `refresh_market_data`, which nothing calls; `get_by_prefix`, which
only tests call; the contents of indicator and message rows; which days the loader's window
holds of a symbol (`CandleFill` has the days, of one symbol; `RefreshLoop` lets the last of
them leave at the start of any cycle); the interpretation rules in the prompts; the parsing
of configuration files and arguments; `TradeProposal`, which is passed on as it is; test
support and error types. A provider that never answers is outside `CancelEndsRun`: the code
awaits it without a timeout, and nothing can be promised. `PROJECT.json` gives the reason
for each.

## 6. Plan

Every safety property that a passing run checks has a theorem. What is left, the most useful
first:

1. That the evaluations of `TirdsSystem` are runs of `Orchestrator`: `EvalTime` from
   `EvaluateStaysBounded` by composition, not by naming it.
2. `ScenarioRules`: the rules of the mock specialists in the agents' test
   support, and what the scenario tests take from them.
