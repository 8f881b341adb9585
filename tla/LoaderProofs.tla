----------------------------- MODULE LoaderProofs -----------------------------
(***************************************************************************)
(* Proofs about LoaderDaemon for any symbols, indicators and messages, any *)
(* lifetimes and intervals, and any number of crashes.                     *)
(***************************************************************************)
EXTENDS LoaderDaemon, TLAPS

-------------------------------------------------------------------------------
(* Type correctness.  The refresh task always has a symbol at hand while   *)
(* it works.                                                               *)

TypeInv ==
  /\ TypeOK
  /\ rpc \in Working => todo # <<>>

LEMMA InitTypeInv == Init => TypeInv
<1> SUFFICES ASSUME Init PROVE TypeInv
  OBVIOUS
<1>1. RefreshTypeOK
  <2>1. now = 0 /\ RefreshInit
    BY DEF Init, BaseInit
  <2>2. cycleStart \in Nat /\ wake \in Nat
    BY <2>1 DEF RefreshInit
  <2>3. candles \in [Symbols -> 0..MaxGen] /\ store \in [Symbols -> 0..MaxGen]
    BY <2>1, RefreshAssumption DEF RefreshInit
  <2>4. inWindow \subseteq {s \in Symbols : store[s] > 0}
    BY <2>1 DEF RefreshInit
  <2>5. rpc = "fill" /\ todo \in Seq(Symbols) /\ batch = {}
    BY <2>1, RefreshAssumption DEF RefreshInit
  <2>6. marketFailed = {} /\ calcFailed = {} /\ faulted = FALSE /\ covered = {}
    BY <2>1 DEF RefreshInit
  <2> QED BY <2>2, <2>3, <2>4, <2>5, <2>6 DEF RefreshTypeOK, Working
<1>2. StreamTypeOK
  <2>1. spc \in {"starting", "stopped"} /\ chan = <<>> /\ lagged = FALSE /\ unwritten = {}
    BY DEF Init, StreamInit
  <2>2. sent \in 0..MaxMessages /\ latest \in [SharedKeys -> 0..MaxMessages]
    BY StreamAssumption DEF Init, StreamInit
  <2>3. chan \in Seq(Message) /\ Len(chan) <= Capacity
    BY <2>1, StreamAssumption
  <2> QED BY <2>1, <2>2, <2>3 DEF StreamTypeOK
<1>3. CleanupTypeOK
  <2>1. now = 0 /\ CleanupInit
    BY DEF Init, BaseInit
  <2>2. cwake \in Nat
    BY <2>1, CleanupAssumption DEF CleanupInit
  <2> QED BY <2>1, <2>2 DEF CleanupTypeOK, CleanupInit
<1>4. rpc \in Working => todo # <<>>
  BY RefreshAssumption DEF Init, RefreshInit
<1>5. now \in Nat /\ table = {} /\ cancelled = FALSE
  BY DEF Init, BaseInit
<1>6. returned = FALSE /\ crashes \in 0..MaxCrashes /\ lastCycles \in 0..2
  BY DaemonAssumption DEF Init
<1> QED
  BY <1>1, <1>2, <1>3, <1>4, <1>5, <1>6 DEF TypeInv, TypeOK

(* What the refresh task's moves through its symbols give.                 *)
LEMMA HeadIsSymbol ==
  ASSUME TypeInv, rpc \in Working
  PROVE  /\ Head(todo) \in Symbols
         /\ Tail(todo) \in Seq(Symbols)
BY DEF TypeInv, TypeOK, RefreshTypeOK

LEMMA NextSymbolType ==
  ASSUME TypeInv, rpc \in Working, NextSymbol
  PROVE  /\ rpc' \in Working
         /\ todo' \in Seq(Symbols)
         /\ todo' # <<>>
BY HeadIsSymbol, RefreshAssumption DEF NextSymbol, Working

LEMMA CycleEndsType ==
  ASSUME TypeInv, CycleEnds
  PROVE  /\ rpc' = "sleep"
         /\ todo' \in Seq(Symbols)
         /\ wake' \in Nat
BY RefreshAssumption DEF CycleEnds, TypeInv, TypeOK

LEMMA NextCalculationType ==
  ASSUME TypeInv, rpc \in Working, NextCalculation
  PROVE  /\ rpc' \in {"calc", "sleep"}
         /\ todo' \in Seq(Symbols)
         /\ rpc' \in Working => todo' # <<>>
         /\ wake' \in Nat
<1>1. CASE Tail(todo) # <<>>
  BY <1>1, HeadIsSymbol DEF NextCalculation, TypeInv, TypeOK, RefreshTypeOK
<1>2. CASE Tail(todo) = <<>>
  BY <1>2, CycleEndsType DEF NextCalculation, Working
<1> QED BY <1>1, <1>2

LEMMA CycleBeginsType ==
  ASSUME TypeInv, CycleBegins(now)
  PROVE  /\ rpc' = "fill"
         /\ todo' \in Seq(Symbols)
         /\ todo' # <<>>
         /\ candles' \in [Symbols -> 0..MaxGen]
         /\ inWindow' \subseteq inWindow
         /\ cycleStart' \in Nat
         /\ marketFailed' = {}
         /\ calcFailed' = {}
BY RefreshAssumption DEF CycleBegins, TypeInv, TypeOK

LEMMA CacheRowType ==
  ASSUME NEW kind \in MarketKinds \cup Indicators, NEW s \in Symbols,
         NEW gen \in 1..MaxGen, NEW expires \in Nat
  PROVE  CacheRow(kind, s, gen, expires) \in RefreshRow
BY DEF CacheRow, RefreshRow

LEMMA MarketRowsType ==
  ASSUME now \in Nat, NEW s \in Symbols, NEW gen \in 1..MaxGen
  PROVE  MarketRows(s, gen) \subseteq RefreshRow
<1> SUFFICES ASSUME NEW kind \in MarketKinds
             PROVE  CacheRow(kind, s, gen, now + MarketTTL) \in RefreshRow
  BY DEF MarketRows
<1> QED BY CacheRowType, RefreshAssumption

LEMMA IndicatorRowsType ==
  ASSUME now \in Nat, NEW computed \in SUBSET Indicators, NEW s \in Symbols,
         NEW gen \in 1..MaxGen
  PROVE  {IndicatorRow(i, s, gen) : i \in computed} \subseteq RefreshRow
<1> SUFFICES ASSUME NEW i \in Indicators
             PROVE  CacheRow(i, s, gen, now + CalcTTL) \in RefreshRow
  BY DEF IndicatorRow
<1> QED BY CacheRowType, RefreshAssumption

(* The steps of the refresh task keep the types of its variables.          *)
LEMMA RefreshType ==
  ASSUME TypeInv, RefreshNext
  PROVE  /\ RefreshTypeOK'
         /\ rpc' \in Working => todo' # <<>>
         /\ table' \subseteq RefreshRow \cup StreamRow
         /\ UNCHANGED <<now, cancelled>>
<1> USE DEF TypeInv, TypeOK, RefreshTypeOK, Working, baseVars, refreshHistory
<1>1. CASE Fill
  <2>1. CASE UNCHANGED <<store, inWindow>>
    BY <1>1, <2>1 DEF Fill
  <2>2. CASE /\ store[Head(todo)] < MaxGen
             /\ store' = [store EXCEPT ![Head(todo)] = store[Head(todo)] + 1]
             /\ inWindow' = inWindow \cup {Head(todo)}
    <3>1. Head(todo) \in Symbols /\ store[Head(todo)] + 1 \in 1..MaxGen
      BY <1>1, <2>2, HeadIsSymbol, RefreshAssumption DEF Fill
    <3>2. store' \in [Symbols -> 0..MaxGen]
      BY <2>2, <3>1
    <3>3. \A s \in inWindow' : s \in Symbols /\ store'[s] > 0
      BY <2>2, <3>1
    <3> QED BY <1>1, <3>2, <3>3 DEF Fill
  <2> QED BY <1>1, <2>1, <2>2 DEF Fill
<1>2. CASE ReadCandles
  <2>1. store[Head(todo)] \in 1..MaxGen
    BY <1>2, HeadIsSymbol, RefreshAssumption DEF ReadCandles
  <2>2. batch' \subseteq RefreshRow
    BY <1>2, <2>1, HeadIsSymbol, MarketRowsType DEF ReadCandles
  <2> QED BY <1>2, <2>2 DEF ReadCandles
<1>3. CASE ReadNoCandles
  <2>1. rpc' \in Working /\ todo' \in Seq(Symbols) /\ todo' # <<>>
    BY <1>3, NextSymbolType DEF ReadNoCandles
  <2>2. candles' \in [Symbols -> 0..MaxGen]
    BY <1>3, RefreshAssumption DEF ReadNoCandles
  <2> QED BY <1>3, <2>1, <2>2 DEF ReadNoCandles
<1>4. CASE ReadFails
  BY <1>4, NextSymbolType, HeadIsSymbol DEF ReadFails
<1>5. CASE MarketWrite
  BY <1>5, NextSymbolType, HeadIsSymbol DEF MarketWrite, KeepCandles, UpsertBatch
<1>6. CASE MarketWriteFails
  BY <1>6, NextSymbolType, HeadIsSymbol DEF MarketWriteFails, AfterMarketFailure, KeepCandles
<1>7. CASE Calculate
  <2>1. candles[Head(todo)] \in 1..MaxGen
    BY <1>7, HeadIsSymbol, RefreshAssumption DEF Calculate
  <2>2. batch' \subseteq RefreshRow
    BY <1>7, <2>1, HeadIsSymbol, IndicatorRowsType DEF Calculate
  <2>3. calcFailed' \subseteq Symbols /\ faulted' \in BOOLEAN
    BY <1>7, HeadIsSymbol DEF Calculate
  <2> QED BY <1>7, <2>2, <2>3 DEF Calculate
<1>8. CASE NothingToCalculate
  BY <1>8, NextCalculationType, HeadIsSymbol DEF NothingToCalculate
<1>9. CASE CalcWrite
  BY <1>9, NextCalculationType DEF CalcWrite, UpsertBatch
<1>10. CASE CalcWriteFails
  <2>1. /\ rpc' = "sleep" /\ todo' \in Seq(Symbols) /\ wake' \in Nat
        /\ batch' = {} /\ faulted' = TRUE
        /\ UNCHANGED <<now, table, cancelled, candles, store, inWindow, cycleStart,
                       marketFailed, covered>>
    BY <1>10, CycleEndsType DEF CalcWriteFails
  <2>2. calcFailed' \subseteq Symbols
    <3>1. \A n \in DOMAIN todo : todo[n] \in Symbols
      OBVIOUS
    <3>2. calcFailed' = calcFailed \cup {todo[n] : n \in DOMAIN todo}
      BY <1>10 DEF CalcWriteFails
    <3> QED BY <3>1, <3>2
  <2> QED BY <2>1, <2>2
<1>11. CASE RefreshWakes
  BY <1>11, CycleBeginsType DEF RefreshWakes
<1>12. CASE RefreshStops
  BY <1>12 DEF RefreshStops
<1>13. CASE RefreshPanics
  BY <1>13 DEF RefreshPanics
<1> QED
  BY <1>1, <1>2, <1>3, <1>4, <1>5, <1>6, <1>7, <1>8, <1>9, <1>10, <1>11, <1>12, <1>13
  DEF RefreshNext, CycleStep

-------------------------------------------------------------------------------
(* The same for the stream task and the cleanup task.                      *)

LEMMA KeysOfMessageType ==
  ASSUME NEW m \in Message
  PROVE  KeysOfMessage(m) \subseteq StreamKeys
<1> USE DEF KeysOfMessage, StreamKeys, SharedKeys, Message
<1>1. CASE m.kind \in EconSeries
  BY <1>1
<1>2. CASE m.kind \notin EconSeries /\ m.tickers = {}
  BY <1>2
<1>3. CASE m.kind \notin EconSeries /\ m.tickers # {}
  BY <1>3
<1> QED BY <1>1, <1>2, <1>3

LEMMA RowsOfMessageType ==
  ASSUME now \in Nat, NEW m \in Message
  PROVE  RowsOfMessage(m) \subseteq StreamRow
<1>1. m.seq \in 1..MaxMessages /\ now + StreamTTL \in Nat
  BY StreamAssumption DEF Message
<1> SUFFICES ASSUME NEW k \in KeysOfMessage(m)
             PROVE  [key |-> k, symbol |-> IF k[2] \in Tickers THEN k[2] ELSE "NULL",
                     gen |-> m.seq, expires |-> now + StreamTTL] \in StreamRow
  BY DEF RowsOfMessage
<1> QED BY <1>1, KeysOfMessageType DEF StreamRow

LEMMA RetainType ==
  ASSUME TypeInv, NEW m \in Message
  PROVE  /\ Retain(m) \in Seq(Message)
         /\ Len(Retain(m)) <= Capacity
BY StreamAssumption DEF Retain, TypeInv, TypeOK, StreamTypeOK

LEMMA HeadIsMessage ==
  ASSUME TypeInv, chan # <<>>
  PROVE  /\ Head(chan) \in Message
         /\ Tail(chan) \in Seq(Message)
         /\ Len(Tail(chan)) = Len(chan) - 1
BY DEF TypeInv, TypeOK, StreamTypeOK

LEMMA PublishType ==
  ASSUME TypeInv, NEW kind \in Kinds \cup EconSeries, NEW tickers \in SUBSET Tickers,
         Publish(kind, tickers)
  PROVE  StreamTypeOK'
<1> DEFINE m == [seq |-> sent + 1, kind |-> kind, tickers |-> tickers]
<1>1. sent + 1 \in 1..MaxMessages /\ sent' \in 0..MaxMessages
  BY StreamAssumption DEF Publish, TypeInv, TypeOK, StreamTypeOK
<1>2. m \in Message
  BY <1>1 DEF Message
<1>3. chan' \in Seq(Message) /\ Len(chan') <= Capacity
  BY <1>2, RetainType DEF Publish, TypeInv, TypeOK, StreamTypeOK
<1>4. lagged' \in BOOLEAN
  BY DEF Publish, TypeInv, TypeOK, StreamTypeOK
<1>5. latest' \in [SharedKeys -> 0..MaxMessages]
  BY <1>1 DEF Publish, TypeInv, TypeOK, StreamTypeOK
<1> QED
  BY <1>1, <1>3, <1>4, <1>5 DEF Publish, TypeInv, TypeOK, StreamTypeOK

LEMMA StreamType ==
  ASSUME TypeInv, StreamNext
  PROVE  /\ StreamTypeOK'
         /\ table' \subseteq RefreshRow \cup StreamRow
         /\ UNCHANGED <<now, cancelled>>
<1> USE DEF TypeInv, TypeOK, StreamTypeOK, baseVars
<1>1. CASE StartSources \/ StartFails \/ Subscribe
  BY <1>1 DEF StartSources, StartFails, Subscribe
<1>2. CASE Receive
  <2>1. RowsOfMessage(NextMessage) \subseteq StreamRow
    BY <1>2, HeadIsMessage, RowsOfMessageType DEF Receive, NextMessage
  <2>2. chan' \in Seq(Message) /\ Len(chan') <= Capacity
    BY <1>2, HeadIsMessage, StreamAssumption DEF Receive
  <2> QED BY <1>2, <2>1, <2>2 DEF Receive, UpsertBatch
<1>3. CASE ReceiveAndFail
  <2>1. KeysOfMessage(NextMessage) \subseteq StreamKeys
    BY <1>3, HeadIsMessage, KeysOfMessageType DEF ReceiveAndFail, NextMessage
  <2>2. chan' \in Seq(Message) /\ Len(chan') <= Capacity
    BY <1>3, HeadIsMessage, StreamAssumption DEF ReceiveAndFail
  <2> QED BY <1>3, <2>1, <2>2 DEF ReceiveAndFail
<1>4. CASE ReceiveLagged \/ StreamStops
  BY <1>4 DEF ReceiveLagged, StreamStops
<1>5. CASE Shutdown
  <2>1. chan' \in Seq(Message) /\ Len(chan') <= Capacity
    BY <1>5, StreamAssumption DEF Shutdown
  <2> QED BY <1>5, <2>1 DEF Shutdown
<1>6. CASE \E kind \in Kinds \cup EconSeries, tickers \in SUBSET Tickers : Publish(kind, tickers)
  BY <1>6, PublishType DEF Publish
<1> QED
  BY <1>1, <1>2, <1>3, <1>4, <1>5, <1>6 DEF StreamNext, StreamStep

LEMMA CleanupType ==
  ASSUME TypeInv, CleanupNext
  PROVE  /\ CleanupTypeOK'
         /\ table' \subseteq table
         /\ UNCHANGED <<now, cancelled>>
<1> USE DEF TypeInv, TypeOK, CleanupTypeOK, baseVars
<1>1. CASE CleanUp
  BY <1>1, CleanupAssumption DEF CleanUp, ExpireStale
<1>2. CASE CleanUpFails
  BY <1>2, CleanupAssumption DEF CleanUpFails
<1>3. CASE CleanupStops
  BY <1>3 DEF CleanupStops
<1> QED BY <1>1, <1>2, <1>3 DEF CleanupNext, CleanupStep

LEMMA CrashType ==
  ASSUME TypeInv, CrashAndRestart
  PROVE  TypeInv'
<1> USE DEF TypeInv, TypeOK
<1>1. RefreshTypeOK' /\ todo' # <<>>
  BY CycleBeginsType DEF CrashAndRestart, RefreshTypeOK, Working
<1>2. StreamTypeOK'
  <2>1. chan' \in Seq(Message) /\ Len(chan') <= Capacity
    BY StreamAssumption DEF CrashAndRestart
  <2>2. latest' \in [SharedKeys -> 0..MaxMessages]
    BY StreamAssumption DEF CrashAndRestart
  <2>3. spc' \in {"starting", "stopped"} /\ lagged' = FALSE /\ unwritten' = {} /\ sent' = sent
    BY DEF CrashAndRestart
  <2> QED BY <2>1, <2>2, <2>3 DEF StreamTypeOK
<1>3. CleanupTypeOK'
  BY CleanupAssumption DEF CrashAndRestart, CleanupTypeOK
<1>4. now' \in Nat /\ table' = table /\ cancelled' = FALSE /\ returned' = returned
  BY DEF CrashAndRestart
<1>5. crashes' \in 0..MaxCrashes /\ lastCycles' \in 0..2
  BY DaemonAssumption DEF CrashAndRestart
<1> QED BY <1>1, <1>2, <1>3, <1>4, <1>5

LEMMA NextTypeInv == TypeInv /\ [Next]_vars => TypeInv'
<1> SUFFICES ASSUME TypeInv, [Next]_vars PROVE TypeInv'
  OBVIOUS
<1> USE DEF TypeInv, TypeOK
<1>1. CASE RefreshTask(RefreshNext)
  <2>1. StreamTypeOK' /\ CleanupTypeOK' /\ returned' = returned /\ crashes' = crashes
    BY <1>1 DEF RefreshTask, streamVars, cleanupVars, StreamTypeOK, CleanupTypeOK
  <2>2. lastCycles' \in 0..2
    BY <1>1 DEF RefreshTask
  <2> QED BY <1>1, <2>1, <2>2, RefreshType DEF RefreshTask
<1>2. CASE StreamTask(StreamNext)
  <2>1. RefreshTypeOK' /\ CleanupTypeOK' /\ rpc' = rpc /\ todo' = todo
    BY <1>2 DEF StreamTask, refreshVars, cleanupVars, refreshHistory, RefreshTypeOK, CleanupTypeOK
  <2> QED BY <1>2, <2>1, StreamType DEF StreamTask, daemonVars
<1>3. CASE CleanupTask(CleanupNext)
  <2>1. RefreshTypeOK' /\ StreamTypeOK' /\ rpc' = rpc /\ todo' = todo
    BY <1>3 DEF CleanupTask, refreshVars, streamVars, refreshHistory, RefreshTypeOK, StreamTypeOK
  <2> QED BY <1>3, <2>1, CleanupType DEF CleanupTask, daemonVars
<1>4. CASE CrashAndRestart
  BY <1>4, CrashType
<1>5. CASE CtrlC \/ Return \/ Tick \/ UNCHANGED vars
  <2>1. RefreshTypeOK' /\ StreamTypeOK' /\ CleanupTypeOK' /\ rpc' = rpc /\ todo' = todo
    BY <1>5 DEF CtrlC, Return, Tick, vars, refreshVars, refreshHistory, streamVars, cleanupVars,
                RefreshTypeOK, StreamTypeOK, CleanupTypeOK
  <2>2. table' = table /\ crashes' = crashes /\ lastCycles' = lastCycles
    BY <1>5 DEF CtrlC, Return, Tick, vars, baseVars, daemonVars
  <2>3. now' \in {now, now + 1}
    BY <1>5 DEF CtrlC, Return, Tick, vars, baseVars
  <2>4. cancelled' \in {cancelled, TRUE}
    BY <1>5 DEF CtrlC, Return, Tick, vars, baseVars
  <2>5. returned' \in {returned, TRUE}
    BY <1>5 DEF CtrlC, Return, Tick, vars, daemonVars
  <2>6. now' \in Nat
    BY <2>3
  <2>7. cancelled' \in BOOLEAN /\ returned' \in BOOLEAN
    BY <2>4, <2>5, Zenon
  <2>8. /\ table' \subseteq RefreshRow \cup StreamRow
        /\ crashes' \in 0..MaxCrashes
        /\ lastCycles' \in 0..2
    BY <2>2
  <2> QED BY <2>1, <2>6, <2>7, <2>8
<1> QED
  BY <1>1, <1>2, <1>3, <1>4, <1>5 DEF Next

(* The loader's state always has its type, and the refresh task has a      *)
(* symbol at hand while it works: filling, reading, writing and            *)
(* calculating all start with the first of the list.                       *)
THEOREM TypesHold == Spec => []TypeInv
BY InitTypeInv, NextTypeInv, PTL DEF Spec

(* The state of the loader always has its type; every row is one that the  *)
(* refresh or the stream task may write.                                   *)
THEOREM DaemonTypeCorrect == Spec => []TypeOK
BY TypesHold, PTL DEF TypeInv

-------------------------------------------------------------------------------
(* The end of a run.                                                       *)

(* The cleanup task ends for no other reason than the token.               *)
StopInv ==
  /\ cpc = "stopped" => cancelled
  /\ returned => AllStopped

LEMMA InitStopInv == Init => StopInv
BY DEF Init, CleanupInit, StopInv

LEMMA NextStopInv == StopInv /\ [Next]_vars => StopInv'
<1> SUFFICES ASSUME StopInv, [Next]_vars PROVE StopInv'
  OBVIOUS
<1> USE DEF StopInv, AllStopped, vars, baseVars, refreshVars, streamVars, cleanupVars, daemonVars
<1>1. CASE RefreshTask(RefreshNext)
  <2>1. rpc # "stopped" /\ UNCHANGED <<cancelled, spc, cpc, returned>>
    BY <1>1 DEF RefreshTask, RefreshNext, CycleStep, Fill, ReadCandles, ReadNoCandles, ReadFails,
                MarketWrite, MarketWriteFails, Calculate, NothingToCalculate, CalcWrite,
                CalcWriteFails, RefreshWakes, RefreshStops, RefreshPanics
  <2> QED BY <2>1
<1>2. CASE StreamTask(StreamNext)
  <2>1. spc # "stopped" /\ UNCHANGED <<cancelled, rpc, cpc, returned>>
    BY <1>2 DEF StreamTask, StreamNext, StreamStep, StartSources, StartFails, Subscribe, Receive,
                ReceiveAndFail, ReceiveLagged, StreamStops, Shutdown, Publish
  <2> QED BY <2>1
<1>3. CASE CleanupTask(CleanupNext)
  <2>1. cpc # "stopped" /\ UNCHANGED <<cancelled, rpc, spc, returned>>
    BY <1>3 DEF CleanupTask, CleanupNext, CleanupStep, CleanUp, CleanUpFails, CleanupStops
  <2>2. cpc' = "stopped" => cancelled
    BY <1>3 DEF CleanupTask, CleanupNext, CleanupStep, CleanUp, CleanUpFails, CleanupStops
  <2> QED BY <2>1, <2>2
<1>4. CASE CrashAndRestart
  BY <1>4 DEF CrashAndRestart
<1>5. CASE CtrlC
  BY <1>5 DEF CtrlC
<1>6. CASE Return
  BY <1>6 DEF Return, JoinAll
<1>7. CASE Tick \/ UNCHANGED vars
  BY <1>7 DEF Tick
<1> QED
  BY <1>1, <1>2, <1>3, <1>4, <1>5, <1>6, <1>7 DEF Next

(* run returns only after the token was triggered, with no task left.      *)
THEOREM ReturnIsAfterCancel == Spec => []ReturnsOnlyWhenCancelled
<1>1. StopInv => ReturnsOnlyWhenCancelled
  BY DEF StopInv, AllStopped, ReturnsOnlyWhenCancelled
<1> QED BY <1>1, InitStopInv, NextStopInv, PTL DEF Spec

-------------------------------------------------------------------------------
(* What any step does to the table: nothing, an upsert of the refresh      *)
(* task's batch or of a message's rows, or a DELETE of expired rows.       *)

WritesBatch ==
  /\ RefreshTask(RefreshNext)
  /\ rpc \in {"write", "calcwrite"}
  /\ table' = UpsertBatch(table, batch)

WritesMessage ==
  /\ StreamTask(Receive)
  /\ chan # <<>>
  /\ table' = UpsertBatch(table, RowsOfMessage(NextMessage))

LEMMA TableSteps ==
  ASSUME [Next]_vars
  PROVE  \/ table' = table
         \/ WritesBatch
         \/ WritesMessage
         \/ table' = ExpireStale(table, now)
<1> USE DEF vars, baseVars
<1>1. CASE RefreshTask(RefreshNext)
  BY <1>1 DEF RefreshTask, RefreshNext, CycleStep, Fill, ReadCandles, ReadNoCandles, ReadFails,
              MarketWrite, MarketWriteFails, Calculate, NothingToCalculate, CalcWrite,
              CalcWriteFails, RefreshWakes, RefreshStops, RefreshPanics, WritesBatch
<1>2. CASE StreamTask(StreamNext)
  BY <1>2 DEF StreamTask, StreamNext, StreamStep, StartSources, StartFails, Subscribe, Receive,
              ReceiveAndFail, ReceiveLagged, StreamStops, Shutdown, Publish, WritesMessage
<1>3. CASE CleanupTask(CleanupNext)
  BY <1>3 DEF CleanupTask, CleanupNext, CleanupStep, CleanUp, CleanUpFails, CleanupStops
<1>4. CASE CrashAndRestart \/ CtrlC \/ Return \/ Tick \/ UNCHANGED vars
  BY <1>4 DEF CrashAndRestart, CtrlC, Return, Tick
<1> QED BY <1>1, <1>2, <1>3, <1>4 DEF Next

LEMMA TableRowType ==
  ASSUME TypeInv, NEW r \in table
  PROVE  /\ r.expires \in Nat
         /\ r.gen \in Nat
         /\ r \in RefreshRow \/ r \in StreamRow
<1>1. r \in RefreshRow \/ r \in StreamRow
  BY DEF TypeInv, TypeOK
<1>2. CASE r \in RefreshRow
  BY <1>2, RefreshAssumption DEF RefreshRow
<1>3. CASE r \in StreamRow
  BY <1>3, StreamAssumption DEF StreamRow
<1> QED BY <1>1, <1>2, <1>3

(* Nothing the daemon does makes an unexpired row disappear: an upsert     *)
(* puts another of the same key in its place.                              *)
THEOREM LiveRowsAreKept == Spec => LiveRowsStay
<1>1. ASSUME TypeInv, [Next]_vars, NEW r \in Live(table, now)
      PROVE  \E q \in table' : q.key = r.key
  <2>1. ASSUME NEW rows, table' = UpsertBatch(table, rows)
        PROVE  \E q \in table' : q.key = r.key
    BY <2>1 DEF UpsertBatch, KeysOf, Live
  <2>2. CASE table' = table
    BY <2>2 DEF Live
  <2>3. CASE table' = ExpireStale(table, now)
    <3>1. r \in table /\ r.expires > now
      BY DEF Live
    <3>2. ~(r.expires < now)
      BY <1>1, <3>1, TableRowType DEF TypeInv, TypeOK
    <3> QED BY <2>3, <3>1, <3>2 DEF ExpireStale
  <2> QED BY <2>1, <2>2, <2>3, <1>1, TableSteps DEF WritesBatch, WritesMessage
<1>2. TypeInv /\ [Next]_vars => [\A r \in Live(table, now) : \E q \in table' : q.key = r.key]_vars
  BY <1>1
<1> QED BY <1>2, TypesHold, PTL DEF Spec, LiveRowsStay

-------------------------------------------------------------------------------
(* The refresh cycle: what its batch holds, and when it runs.              *)

RefreshKinds == MarketKinds \cup Indicators
StreamPrefixes == Kinds \cup {"ref:econ"}

RowsAt(kinds, s, gen, expires) == {CacheRow(kind, s, gen, expires) : kind \in kinds}

(* Both rows of the symbol at hand, of one instant of this cycle.          *)
MarketBatch ==
  \E r \in batch :
    /\ batch = RowsAt(MarketKinds, Head(todo), store[Head(todo)], r.expires)
    /\ Head(todo) \in inWindow
    /\ r.expires >= cycleStart + MarketTTL

(* Indicators of the symbol at hand; if some are missing this is known.    *)
IndicatorBatch ==
  \E r \in batch, computed \in SUBSET Indicators :
    /\ batch = RowsAt(computed, Head(todo), candles[Head(todo)], r.expires)
    /\ candles[Head(todo)] > 0
    /\ r.expires >= cycleStart + CalcTTL
    /\ computed # Indicators => faulted /\ Head(todo) \in calcFailed

BatchInv ==
  /\ rpc \notin {"write", "calcwrite"} => batch = {}
  /\ rpc = "write" => MarketBatch
  /\ rpc = "calcwrite" => IndicatorBatch

ClockInv ==
  /\ cycleStart <= now
  /\ rpc \in Working => now <= cycleStart + MaxCycle
  /\ rpc = "sleep" => now <= wake /\ wake <= cycleStart + MaxCycle + Interval

(* The steps that are none of the refresh task's leave its variables alone.*)
LEMMA OtherSteps ==
  ASSUME [Next]_vars, ~RefreshTask(RefreshNext), ~CrashAndRestart
  PROVE  /\ UNCHANGED refreshVars
         /\ now' = now \/ Tick
<1> USE DEF vars, baseVars
<1>1. CASE StreamTask(StreamNext)
  BY <1>1 DEF StreamTask, StreamNext, StreamStep, StartSources, StartFails, Subscribe, Receive,
              ReceiveAndFail, ReceiveLagged, StreamStops, Shutdown, Publish
<1>2. CASE CleanupTask(CleanupNext)
  BY <1>2 DEF CleanupTask, CleanupNext, CleanupStep, CleanUp, CleanUpFails, CleanupStops
<1>3. CASE CtrlC \/ Return \/ Tick \/ UNCHANGED vars
  BY <1>3 DEF CtrlC, Return, Tick
<1> QED BY <1>1, <1>2, <1>3 DEF Next

LEMMA InitBatchInv == Init => BatchInv /\ ClockInv
BY RefreshAssumption
DEF Init, BaseInit, RefreshInit, BatchInv, ClockInv, Working

LEMMA NextClockInv ==
  ASSUME TypeInv, ClockInv, [Next]_vars
  PROVE  ClockInv'
<1> USE RefreshAssumption DEF ClockInv, Working, TypeInv, TypeOK, RefreshTypeOK
<1>1. CASE RefreshTask(RefreshNext)
  <2> USE <1>1 DEF RefreshTask, baseVars
  <2>1. CASE Fill \/ ReadCandles \/ Calculate
    BY <2>1 DEF Fill, ReadCandles, Calculate
  <2>2. CASE ReadNoCandles \/ ReadFails \/ MarketWrite \/ MarketWriteFails
    BY <2>2 DEF ReadNoCandles, ReadFails, MarketWrite, MarketWriteFails, AfterMarketFailure,
                NextSymbol
  <2>3. CASE NothingToCalculate \/ CalcWrite
    <3>1. NextCalculation /\ rpc \in {"calc", "calcwrite"} /\ UNCHANGED <<now, cycleStart>>
      BY <2>3 DEF NothingToCalculate, CalcWrite
    <3>2. CASE Tail(todo) # <<>>
      BY <3>1, <3>2 DEF NextCalculation
    <3>3. CASE Tail(todo) = <<>>
      BY <3>1, <3>3 DEF NextCalculation, CycleEnds
    <3> QED BY <3>2, <3>3
  <2>4. CASE CalcWriteFails
    BY <2>4 DEF CalcWriteFails, CycleEnds
  <2>5. CASE RefreshWakes
    BY <2>5 DEF RefreshWakes, CycleBegins
  <2>6. CASE RefreshStops \/ RefreshPanics
    BY <2>6 DEF RefreshStops, RefreshPanics
  <2> QED BY <2>1, <2>2, <2>3, <2>4, <2>5, <2>6 DEF RefreshNext, CycleStep
<1>2. CASE CrashAndRestart
  BY <1>2 DEF CrashAndRestart, CycleBegins
<1>3. CASE Tick
  <2>1. now' = now + 1 /\ RefreshCanWait /\ UNCHANGED <<rpc, cycleStart, wake>>
    BY <1>3 DEF Tick, refreshVars
  <2>2. rpc \in Working => now < cycleStart + MaxCycle
    BY <2>1 DEF RefreshCanWait
  <2>3. rpc = "sleep" => now < wake
    BY <2>1 DEF RefreshCanWait
  <2> QED BY <2>1, <2>2, <2>3
<1>4. CASE ~RefreshTask(RefreshNext) /\ ~CrashAndRestart /\ ~Tick
  BY <1>4, OtherSteps DEF refreshVars
<1> QED BY <1>1, <1>2, <1>3, <1>4

LEMMA NextBatchInv ==
  ASSUME TypeInv, ClockInv, BatchInv, [Next]_vars
  PROVE  BatchInv'
<1>1. CASE RefreshTask(RefreshNext)
  <2>1. CASE ReadCandles
    <3> DEFINE gen == store[Head(todo)]
               r == CacheRow("bars", Head(todo), gen, now + MarketTTL)
    <3>1. batch' = RowsAt(MarketKinds, Head(todo), gen, now + MarketTTL)
      BY <2>1 DEF ReadCandles, MarketRows, RowsAt
    <3>2. r \in batch' /\ r.expires = now + MarketTTL
      BY <3>1 DEF RowsAt, CacheRow, MarketKinds
    <3>3. r.expires >= cycleStart + MarketTTL
      BY <3>2, RefreshAssumption DEF ClockInv, TypeInv, TypeOK, RefreshTypeOK
    <3>4. /\ UNCHANGED <<todo, store, inWindow, cycleStart>>
          /\ rpc' = "write" /\ Head(todo) \in inWindow
      BY <2>1 DEF ReadCandles
    <3>5. MarketBatch'
      BY <3>1, <3>2, <3>3, <3>4 DEF MarketBatch
    <3> QED BY <3>4, <3>5 DEF BatchInv
  <2>2. CASE Calculate
    <3> DEFINE gen == candles[Head(todo)]
    <3>1. PICK computed \in SUBSET Indicators :
            /\ computed # {}
            /\ batch' = {IndicatorRow(i, Head(todo), gen) : i \in computed}
            /\ computed # Indicators => faulted' /\ Head(todo) \in calcFailed'
      BY <2>2 DEF Calculate
    <3>2. batch' = RowsAt(computed, Head(todo), gen, now + CalcTTL)
      BY <3>1 DEF IndicatorRow, RowsAt
    <3>3. PICK i \in computed : TRUE
      BY <3>1
    <3> DEFINE r == CacheRow(i, Head(todo), gen, now + CalcTTL)
    <3>4. r \in batch' /\ r.expires = now + CalcTTL
      BY <3>2 DEF RowsAt, CacheRow
    <3>5. r.expires >= cycleStart + CalcTTL
      BY <3>4, RefreshAssumption DEF ClockInv, TypeInv, TypeOK, RefreshTypeOK
    <3>6. UNCHANGED <<todo, candles, cycleStart>> /\ rpc' = "calcwrite" /\ gen > 0
      BY <2>2 DEF Calculate
    <3>7. IndicatorBatch'
      BY <3>1, <3>2, <3>4, <3>5, <3>6 DEF IndicatorBatch
    <3> QED BY <3>6, <3>7 DEF BatchInv
  <2>3. CASE ~ReadCandles /\ ~Calculate
    <3>1. rpc' \notin {"write", "calcwrite"} /\ batch' = {}
      BY <1>1, <2>3
      DEF RefreshTask, RefreshNext, CycleStep, Fill, ReadNoCandles, ReadFails, MarketWrite,
          MarketWriteFails, AfterMarketFailure, NothingToCalculate, CalcWrite, CalcWriteFails,
          RefreshWakes, RefreshStops, RefreshPanics, NextSymbol, NextCalculation, CycleEnds,
          CycleBegins, BatchInv
    <3> QED BY <3>1 DEF BatchInv
  <2> QED BY <2>1, <2>2, <2>3
<1>2. CASE CrashAndRestart
  BY <1>2 DEF CrashAndRestart, CycleBegins, BatchInv
<1>3. CASE ~RefreshTask(RefreshNext) /\ ~CrashAndRestart
  <2>1. /\ UNCHANGED <<rpc, todo, batch, candles, store, inWindow>>
        /\ UNCHANGED <<cycleStart, faulted, calcFailed>>
    BY <1>3, OtherSteps DEF refreshVars, refreshHistory
  <2>2. (MarketBatch' <=> MarketBatch) /\ (IndicatorBatch' <=> IndicatorBatch)
    BY <2>1 DEF MarketBatch, IndicatorBatch
  <2> QED BY <2>1, <2>2 DEF BatchInv
<1> QED BY <1>1, <1>2, <1>3

(* The types, the batch and the clock of every reachable state.            *)
CycleInv == TypeInv /\ BatchInv /\ ClockInv

(* In every reachable state the refresh task is about to write what the    *)
(* store and the cycle hold of the symbol at hand, with an expiry counted  *)
(* from this cycle, and neither the cycle nor the sleep has lasted longer  *)
(* than it may.                                                            *)
THEOREM CycleInvHolds == Spec => []CycleInv
<1>1. Init => CycleInv
  BY InitTypeInv, InitBatchInv DEF CycleInv
<1>2. CycleInv /\ [Next]_vars => CycleInv'
  BY NextTypeInv, NextClockInv, NextBatchInv DEF CycleInv
<1> QED BY <1>1, <1>2, PTL DEF Spec

-------------------------------------------------------------------------------
(* Keys.  The refresh and the stream task never touch each other's rows,   *)
(* and a key has one row.                                                  *)

KeysInv ==
  /\ \A r, q \in table : r.key = q.key => r = q
  /\ \A r \in table : r.key[1] \in RefreshKinds => r.key = <<r.key[1], r.symbol>>

LEMMA RowsAtFields ==
  ASSUME NEW kinds, NEW s, NEW gen, NEW expires, NEW r \in RowsAt(kinds, s, gen, expires)
  PROVE  /\ r.key[1] \in kinds
         /\ r.key = <<r.key[1], s>>
         /\ r.symbol = s
         /\ r.gen = gen
         /\ r.expires = expires
         /\ r = CacheRow(r.key[1], s, gen, expires)
BY DEF RowsAt, CacheRow

(* What a batch of the refresh task holds, whichever it is.                *)
LEMMA BatchRows ==
  ASSUME BatchInv
  PROVE  \E kinds, gen, expires :
           /\ kinds \in SUBSET RefreshKinds
           /\ batch = RowsAt(kinds, Head(todo), gen, expires)
<1>1. CASE rpc = "write"
  <2>1. PICK r \in batch :
          batch = RowsAt(MarketKinds, Head(todo), store[Head(todo)], r.expires)
    BY <1>1 DEF BatchInv, MarketBatch
  <2> QED BY <2>1 DEF RefreshKinds
<1>2. CASE rpc = "calcwrite"
  <2>1. PICK r \in batch, computed \in SUBSET Indicators :
          batch = RowsAt(computed, Head(todo), candles[Head(todo)], r.expires)
    BY <1>2 DEF BatchInv, IndicatorBatch
  <2> QED BY <2>1 DEF RefreshKinds
<1>3. CASE rpc \notin {"write", "calcwrite"}
  <2>1. batch = RowsAt({}, Head(todo), 0, 0)
    BY <1>3 DEF BatchInv, RowsAt
  <2> QED BY <2>1
<1> QED BY <1>1, <1>2, <1>3

LEMMA StreamPrefix ==
  ASSUME NEW k \in StreamKeys
  PROVE  k[1] \in StreamPrefixes /\ k[1] \notin RefreshKinds
<1>1. k[1] \in StreamPrefixes
  BY DEF StreamKeys, SharedKeys, StreamPrefixes
<1> QED BY <1>1, KeyPrefixAssumption DEF StreamPrefixes, RefreshKinds

LEMMA MessageRows ==
  ASSUME NEW m \in Message, NEW r \in RowsOfMessage(m)
  PROVE  /\ r.key \in KeysOfMessage(m)
         /\ r.key \in StreamKeys
         /\ r.key[1] \notin RefreshKinds
         /\ r.gen = m.seq
         /\ r.expires = now + StreamTTL
         /\ \A q \in RowsOfMessage(m) : q.key = r.key => q = r
<1>1. /\ r.key \in KeysOfMessage(m)
      /\ r.gen = m.seq
      /\ r.expires = now + StreamTTL
      /\ \A q \in RowsOfMessage(m) : q.key = r.key => q = r
  BY DEF RowsOfMessage
<1> QED BY <1>1, KeysOfMessageType, StreamPrefix

LEMMA NextKeysInv ==
  ASSUME CycleInv, KeysInv, [Next]_vars
  PROVE  KeysInv'
<1> USE DEF KeysInv
<1>1. CASE table' = table
  BY <1>1
<1>2. CASE table' = UpsertBatch(table, batch)
  <2>1. PICK kinds, gen, expires :
          /\ kinds \in SUBSET RefreshKinds
          /\ batch = RowsAt(kinds, Head(todo), gen, expires)
    BY BatchRows DEF CycleInv
  <2>2. \A r \in batch : r.key = <<r.key[1], r.symbol>>
    BY <2>1, RowsAtFields
  <2>3. \A r, q \in batch : r.key = q.key => r = q
    BY <2>1, RowsAtFields
  <2> QED BY <1>2, <2>2, <2>3 DEF UpsertBatch, KeysOf
<1>3. CASE chan # <<>> /\ table' = UpsertBatch(table, RowsOfMessage(NextMessage))
  <2>1. NextMessage \in Message
    BY <1>3, HeadIsMessage DEF CycleInv, NextMessage
  <2>2. \A r \in RowsOfMessage(NextMessage) : r.key[1] \notin RefreshKinds
    BY <2>1, MessageRows
  <2>3. \A r, q \in RowsOfMessage(NextMessage) : r.key = q.key => r = q
    BY <2>1, MessageRows
  <2> QED BY <1>3, <2>2, <2>3 DEF UpsertBatch, KeysOf
<1>4. CASE table' = ExpireStale(table, now)
  BY <1>4 DEF ExpireStale
<1> QED BY <1>1, <1>2, <1>3, <1>4, TableSteps DEF WritesBatch, WritesMessage

(* No two rows of the table have the same key, and a row of the refresh    *)
(* task is filed under its symbol.                                         *)
THEOREM KeysAreUnique == Spec => []KeysInv
<1>1. Init => KeysInv
  BY DEF Init, BaseInit, KeysInv
<1> QED BY <1>1, CycleInvHolds, NextKeysInv, PTL DEF Spec

-------------------------------------------------------------------------------
(* Cancellation.  Once a cycle has begun after the token was triggered,    *)
(* its end finds the token before the timer can be due.                    *)

LastCycleInv ==
  /\ ~cancelled => lastCycles = 0
  /\ Interval > 0 =>
       /\ lastCycles <= 1
       /\ lastCycles = 1 /\ rpc = "sleep" => now < wake

(* The steps that end a cycle set the timer; only the timer begins one.    *)
LEMMA SleepSteps ==
  ASSUME TypeInv, RefreshNext
  PROVE  /\ rpc' = "sleep" => wake' = now + Interval
         /\ rpc = "sleep" /\ rpc' = "fill" => now >= wake
<1>1. CASE Fill \/ ReadCandles \/ Calculate
  BY <1>1 DEF Fill, ReadCandles, Calculate
<1>2. CASE ReadNoCandles \/ ReadFails \/ MarketWrite \/ MarketWriteFails
  BY <1>2 DEF ReadNoCandles, ReadFails, MarketWrite, MarketWriteFails, AfterMarketFailure, NextSymbol
<1>3. CASE NothingToCalculate \/ CalcWrite
  BY <1>3 DEF NothingToCalculate, CalcWrite, NextCalculation, CycleEnds
<1>4. CASE CalcWriteFails
  BY <1>4 DEF CalcWriteFails, CycleEnds
<1>5. CASE RefreshWakes
  BY <1>5 DEF RefreshWakes, CycleBegins
<1>6. CASE RefreshStops \/ RefreshPanics
  BY <1>6 DEF RefreshStops, RefreshPanics
<1> QED BY <1>1, <1>2, <1>3, <1>4, <1>5, <1>6 DEF RefreshNext, CycleStep

LEMMA NextLastCycleInv ==
  ASSUME TypeInv, LastCycleInv, [Next]_vars
  PROVE  LastCycleInv'
<1> USE RefreshAssumption DEF LastCycleInv, TypeInv, TypeOK, RefreshTypeOK
<1>1. CASE RefreshTask(RefreshNext)
  <2>1. UNCHANGED <<now, cancelled>>
    BY <1>1, RefreshType DEF RefreshTask
  <2>2. CASE cancelled /\ rpc = "sleep" /\ rpc' = "fill"
    <3>1. now >= wake
      BY <1>1, <2>2, SleepSteps DEF RefreshTask
    <3> QED BY <1>1, <2>1, <2>2, <3>1 DEF RefreshTask
  <2>3. CASE ~(cancelled /\ rpc = "sleep" /\ rpc' = "fill")
    <3>1. lastCycles' = lastCycles
      BY <1>1, <2>3 DEF RefreshTask
    <3>2. rpc' = "sleep" => wake' = now + Interval
      BY <1>1, SleepSteps DEF RefreshTask
    <3> QED BY <2>1, <3>1, <3>2
  <2> QED BY <2>2, <2>3
<1>2. CASE CrashAndRestart
  BY <1>2 DEF CrashAndRestart, CycleBegins
<1>3. CASE Tick
  <2>1. rpc = "sleep" => ~cancelled
    BY <1>3 DEF Tick, RefreshCanWait
  <2>2. UNCHANGED <<rpc, wake, cancelled, lastCycles>>
    BY <1>3 DEF Tick, refreshVars, daemonVars
  <2> QED BY <2>1, <2>2
<1>4. CASE CtrlC
  BY <1>4 DEF CtrlC, refreshVars, daemonVars
<1>5. CASE ~RefreshTask(RefreshNext) /\ ~CrashAndRestart /\ ~Tick /\ ~CtrlC
  <2>1. UNCHANGED <<rpc, wake, now>>
    BY <1>5, OtherSteps DEF refreshVars
  <2>2. UNCHANGED <<cancelled, lastCycles>>
    BY <1>5, StreamType, CleanupType DEF Next, StreamTask, CleanupTask, Return, vars, baseVars, daemonVars
  <2> QED BY <2>1, <2>2
<1> QED BY <1>1, <1>2, <1>3, <1>4, <1>5

(* At most one more refresh cycle starts after the token was triggered.    *)
THEOREM CancelLeavesOneCycle == Spec => []OneLastCycle
<1>1. Init => LastCycleInv
  BY DEF Init, BaseInit, LastCycleInv
<1>2. LastCycleInv => OneLastCycle
  BY DEF LastCycleInv, OneLastCycle
<1> QED BY <1>1, <1>2, TypesHold, NextLastCycleInv, PTL DEF Spec

-------------------------------------------------------------------------------
(* Expired rows.  No row outlives the next timer of the cleanup task by    *)
(* more than an interval, and one more for every crash, which sets the     *)
(* timer back.                                                             *)

GarbageInv ==
  (~lapsed /\ MaxCycle <= MarketTTL /\ MaxCycle <= CalcTTL) =>
    /\ cpc = "sleep" /\ now <= cwake /\ cwake <= now + CleanupInterval
    /\ \A r \in table : r.expires + (crashes + 1) * CleanupInterval >= cwake

LEMMA Intervals ==
  ASSUME NEW c \in Nat, NEW i \in Nat
  PROVE  /\ (c + 1) * i \in Nat
         /\ (c + 1) * i >= i
         /\ ((c + 1) + 1) * i = (c + 1) * i + i
<1>1. c * i \in Nat /\ (c + 1) * i = c * i + i
  OBVIOUS
<1>2. ((c + 1) + 1) * i = (c + 1) * i + i
  OBVIOUS
<1> QED BY <1>1, <1>2

(* Rows that outlive a cycle are written before they expire.               *)
LEMMA BatchIsUnexpired ==
  ASSUME CycleInv, MaxCycle <= MarketTTL, MaxCycle <= CalcTTL, NEW r \in batch
  PROVE  r.expires \in Nat /\ r.expires >= now
<1>1. r.expires \in Nat
  BY DEF CycleInv, TypeInv, TypeOK, RefreshTypeOK, RefreshRow
<1>2. rpc \in {"write", "calcwrite"}
  BY DEF CycleInv, BatchInv
<1>3. now <= cycleStart + MaxCycle
  BY <1>2 DEF CycleInv, ClockInv, Working
<1>4. CASE rpc = "write"
  BY <1>1, <1>3, <1>4, RowsAtFields, RefreshAssumption
  DEF CycleInv, BatchInv, MarketBatch, TypeInv, TypeOK, RefreshTypeOK
<1>5. CASE rpc = "calcwrite"
  BY <1>1, <1>3, <1>5, RowsAtFields, RefreshAssumption
  DEF CycleInv, BatchInv, IndicatorBatch, TypeInv, TypeOK, RefreshTypeOK
<1> QED BY <1>2, <1>4, <1>5, <1>1

(* Every row is an old one, or is written unexpired.                       *)
LEMMA NewRowsAreUnexpired ==
  ASSUME CycleInv, [Next]_vars, MaxCycle <= MarketTTL, MaxCycle <= CalcTTL,
         NEW r \in table'
  PROVE  r \in table \/ (r.expires \in Nat /\ r.expires >= now)
<1>1. CASE table' = UpsertBatch(table, batch)
  BY <1>1, BatchIsUnexpired DEF UpsertBatch
<1>2. CASE chan # <<>> /\ table' = UpsertBatch(table, RowsOfMessage(NextMessage))
  <2>1. NextMessage \in Message
    BY <1>2, HeadIsMessage DEF CycleInv, NextMessage
  <2>2. CASE r \in RowsOfMessage(NextMessage)
    BY <2>1, <2>2, MessageRows, StreamAssumption DEF CycleInv, TypeInv, TypeOK
  <2> QED BY <1>2, <2>2 DEF UpsertBatch
<1>3. CASE table' = table \/ table' = ExpireStale(table, now)
  BY <1>3 DEF ExpireStale
<1> QED BY <1>1, <1>2, <1>3, TableSteps DEF WritesBatch, WritesMessage

LEMMA NextGarbageInv ==
  ASSUME CycleInv, GarbageInv, [Next]_vars
  PROVE  GarbageInv'
<1> SUFFICES ASSUME ~lapsed', MaxCycle <= MarketTTL, MaxCycle <= CalcTTL
             PROVE  /\ cpc' = "sleep" /\ now' <= cwake' /\ cwake' <= now' + CleanupInterval
                    /\ \A r \in table' :
                         r.expires + (crashes' + 1) * CleanupInterval >= cwake'
  BY DEF GarbageInv
<1> DEFINE slack == (crashes + 1) * CleanupInterval
<1>1. /\ now \in Nat /\ cwake \in Nat /\ crashes \in Nat /\ CleanupInterval \in Nat
      /\ slack \in Nat /\ slack >= CleanupInterval
      /\ (crashes + 1 + 1) * CleanupInterval = slack + CleanupInterval
  <2>1. now \in Nat /\ cwake \in Nat /\ crashes \in Nat /\ CleanupInterval \in Nat
    BY CleanupAssumption, DaemonAssumption DEF CycleInv, TypeInv, TypeOK, CleanupTypeOK
  <2> QED BY <2>1, Intervals
<1>2. \A r \in table : r.expires \in Nat
  BY TableRowType DEF CycleInv
<1> HIDE DEF slack
<1>3. CASE CleanupTask(CleanupNext)
  <2>1. UNCHANGED <<now, crashes>>
    BY <1>3, CleanupType DEF CleanupTask, daemonVars, CycleInv
  <2>2. CASE CleanUp
    <3>1. ~lapsed /\ cpc' = "sleep" /\ cwake' = now + CleanupInterval
      BY <2>2, <1>3 DEF CleanUp, CleanupTask, GarbageInv
    <3>2. \A r \in table' : r \in table /\ ~(r.expires < now)
      BY <2>2 DEF CleanUp, ExpireStale
    <3>3. \A r \in table' : r.expires + slack >= cwake'
      BY <3>1, <3>2, <1>1, <1>2
    <3> QED BY <2>1, <3>1, <3>3, <1>1 DEF slack
  <2>3. CASE CleanUpFails \/ CleanupStops
    BY <2>3 DEF CleanUpFails, CleanupStops
  <2> QED BY <1>3, <2>2, <2>3 DEF CleanupTask, CleanupNext, CleanupStep
<1>4. CASE CrashAndRestart
  <2>1. /\ ~lapsed /\ cpc' = "sleep" /\ crashes' = crashes + 1
        /\ cwake' = now + CleanupInterval /\ now' = now /\ table' = table
    BY <1>4 DEF CrashAndRestart
  <2>2. \A r \in table : r.expires + slack >= cwake /\ now <= cwake
    BY <2>1 DEF GarbageInv, slack
  <2>3. \A r \in table : r.expires + (slack + CleanupInterval) >= now + CleanupInterval
    BY <2>2, <1>1, <1>2
  <2> QED BY <2>1, <2>3, <1>1
<1>5. CASE Tick
  <2>1. /\ now' = now + 1 /\ CleanupCanWait
        /\ UNCHANGED <<table, crashes, lapsed, cpc, cwake>>
    BY <1>5 DEF Tick, cleanupVars, daemonVars
  <2>2. cpc = "sleep" /\ now < cwake /\ cwake <= now + CleanupInterval
    BY <2>1 DEF CleanupCanWait, GarbageInv
  <2> QED BY <2>1, <2>2, <1>1 DEF GarbageInv
<1>6. CASE ~CleanupTask(CleanupNext) /\ ~CrashAndRestart /\ ~Tick
  <2>1. UNCHANGED <<now, crashes, lapsed, cpc, cwake>>
    BY <1>6, RefreshType, StreamType
    DEF CycleInv, Next, RefreshTask, StreamTask, CtrlC, Return, vars, baseVars, cleanupVars, daemonVars
  <2>2. cpc = "sleep" /\ now <= cwake /\ cwake <= now + CleanupInterval
    BY <2>1 DEF GarbageInv
  <2>3. \A r \in table : r.expires + slack >= cwake
    BY <2>1 DEF GarbageInv, slack
  <2>4. \A r \in table' : r.expires + slack >= cwake
    BY <2>2, <2>3, <1>1, <1>2, NewRowsAreUnexpired
  <2> QED BY <2>1, <2>2, <2>4 DEF slack
<1> QED BY <1>3, <1>4, <1>5, <1>6

(* While the cleanup task runs and no DELETE fails, an expired row stays   *)
(* for one interval at most, and for one more after every crash.           *)
THEOREM GarbageStaysBounded == Spec => []GarbageIsBounded
<1>1. Init => GarbageInv
  BY CleanupAssumption DEF Init, BaseInit, CleanupInit, GarbageInv
<1>2. ASSUME TypeInv, GarbageInv
      PROVE  GarbageIsBounded
  <2>1. now \in Nat /\ cwake \in Nat /\ (crashes + 1) * CleanupInterval \in Nat
    <3>1. crashes \in Nat /\ CleanupInterval \in Nat
      BY <1>2, CleanupAssumption, DaemonAssumption DEF TypeInv, TypeOK
    <3> QED BY <1>2, <3>1, Intervals DEF TypeInv, TypeOK, CleanupTypeOK
  <2>2. \A r \in table : r.expires \in Nat
    BY <1>2, TableRowType
  <2> DEFINE slack == (crashes + 1) * CleanupInterval
  <2> HIDE DEF slack
  <2>3. ASSUME ~lapsed, MaxCycle <= MarketTTL, MaxCycle <= CalcTTL, NEW r \in table
        PROVE  r.expires + slack >= now
    BY <1>2, <2>1, <2>2, <2>3 DEF GarbageInv, slack
  <2> QED BY <2>3 DEF GarbageIsBounded, slack
<1> QED BY <1>1, <1>2, TypesHold, CycleInvHolds, NextGarbageInv, PTL DEF Spec
===============================================================================
