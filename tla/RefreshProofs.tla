---------------------------- MODULE RefreshProofs -----------------------------
(***************************************************************************)
(* Proofs about what the refresh task of LoaderDaemon leaves in the table. *)
(***************************************************************************)
EXTENDS LoaderProofs

-------------------------------------------------------------------------------
(* The rows of a symbol, step by step.                                     *)

(* Writing a batch replaces the rows of its kinds and its symbol, and no   *)
(* others.                                                                 *)
LEMMA BatchReplacesRows ==
  ASSUME KeysInv, NEW kinds \in SUBSET RefreshKinds, NEW x, NEW gen, NEW expires,
         table' = UpsertBatch(table, RowsAt(kinds, x, gen, expires)),
         NEW K \in SUBSET RefreshKinds, NEW s
  PROVE  /\ s # x \/ K \cap kinds = {} => RowsOf(K, s)' = RowsOf(K, s)
         /\ s = x /\ K \subseteq kinds => RowsOf(K, s)' = RowsAt(K, s, gen, expires)
<1> DEFINE rows == RowsAt(kinds, x, gen, expires)
<1>1. RowsOf(K, s)' = {r \in table' : r.symbol = s /\ r.key[1] \in K}
  BY DEF RowsOf
<1>2. \A r : r \in table' <=> (r \in table /\ r.key \notin KeysOf(rows)) \/ r \in rows
  BY DEF UpsertBatch
<1>3. \A r \in rows : r.symbol = x /\ r.key[1] \in kinds /\ r.key = <<r.key[1], x>>
                      /\ r = CacheRow(r.key[1], x, gen, expires)
  BY RowsAtFields
<1>4. ASSUME s # x \/ K \cap kinds = {}
      PROVE  RowsOf(K, s)' = RowsOf(K, s)
  <2>1. ASSUME NEW r \in table, r.symbol = s, r.key[1] \in K
        PROVE  r.key \notin KeysOf(rows)
    <3>1. r.key = <<r.key[1], s>>
      BY <2>1 DEF KeysInv
    <3> QED BY <3>1, <2>1, <1>3, <1>4 DEF KeysOf
  <2>2. ASSUME NEW r \in rows
        PROVE  ~(r.symbol = s /\ r.key[1] \in K)
    BY <2>2, <1>3, <1>4
  <2> QED BY <1>1, <1>2, <2>1, <2>2 DEF RowsOf
<1>5. ASSUME s = x, K \subseteq kinds
      PROVE  RowsOf(K, s)' = RowsAt(K, s, gen, expires)
  <2>1. ASSUME NEW r \in table, r.symbol = s, r.key[1] \in K
        PROVE  r.key \in KeysOf(rows)
    <3>1. r.key = <<r.key[1], s>>
      BY <2>1 DEF KeysInv
    <3>2. CacheRow(r.key[1], s, gen, expires) \in rows
      BY <2>1, <1>5 DEF RowsAt
    <3>3. CacheRow(r.key[1], s, gen, expires).key = r.key
      BY <3>1 DEF CacheRow
    <3> QED BY <3>2, <3>3 DEF KeysOf
  <2>2. ASSUME NEW r \in rows, r.key[1] \in K
        PROVE  r \in RowsAt(K, s, gen, expires)
    BY <2>2, <1>3, <1>5 DEF RowsAt
  <2>3. ASSUME NEW r \in RowsAt(K, s, gen, expires)
        PROVE  r \in rows /\ r.symbol = s /\ r.key[1] \in K
    <3>1. r.symbol = s /\ r.key[1] \in K /\ r = CacheRow(r.key[1], s, gen, expires)
      BY RowsAtFields
    <3> QED BY <3>1, <1>5 DEF RowsAt
  <2> QED BY <1>1, <1>2, <2>1, <2>2, <2>3
<1> QED BY <1>4, <1>5

(* Every other step leaves the rows of a symbol, or deletes expired ones.  *)
LEMMA OtherStepsKeepRows ==
  ASSUME CycleInv, [Next]_vars, ~WritesBatch, NEW K \in SUBSET RefreshKinds, NEW s
  PROVE  \/ RowsOf(K, s)' = RowsOf(K, s)
         \/ /\ table' = ExpireStale(table, now)
            /\ RowsOf(K, s)' = {r \in RowsOf(K, s) : ~(r.expires < now)}
<1>1. CASE table' = table
  BY <1>1 DEF RowsOf
<1>2. CASE WritesMessage
  <2>1. NextMessage \in Message
    BY <1>2, HeadIsMessage DEF CycleInv, NextMessage, WritesMessage
  <2>2. \A r \in RowsOfMessage(NextMessage) : r.key[1] \notin RefreshKinds
    BY <2>1, MessageRows
  <2> QED BY <1>2, <2>2 DEF UpsertBatch, KeysOf, RowsOf, WritesMessage
<1>3. CASE table' = ExpireStale(table, now)
  BY <1>3 DEF ExpireStale, RowsOf
<1> QED BY <1>1, <1>2, <1>3, TableSteps

LEMMA MarketBatchRows ==
  ASSUME CycleInv, rpc = "write"
  PROVE  \E expires \in Nat :
           /\ batch = RowsAt(MarketKinds, Head(todo), store[Head(todo)], expires)
           /\ Head(todo) \in inWindow
           /\ store[Head(todo)] > 0
           /\ expires >= cycleStart + MarketTTL
<1>1. MarketBatch
  BY DEF CycleInv, BatchInv
<1>2. \A r \in batch : r.expires \in Nat
  BY DEF CycleInv, TypeInv, TypeOK, RefreshTypeOK, RefreshRow
<1>3. Head(todo) \in inWindow => store[Head(todo)] > 0
  BY DEF CycleInv, TypeInv, TypeOK, RefreshTypeOK
<1> QED BY <1>1, <1>2, <1>3 DEF MarketBatch

LEMMA IndicatorBatchRows ==
  ASSUME CycleInv, rpc = "calcwrite"
  PROVE  \E expires \in Nat, computed \in SUBSET Indicators :
           /\ batch = RowsAt(computed, Head(todo), candles[Head(todo)], expires)
           /\ candles[Head(todo)] > 0
           /\ computed # Indicators => faulted /\ Head(todo) \in calcFailed
<1>1. IndicatorBatch
  BY DEF CycleInv, BatchInv
<1>2. \A r \in batch : r.expires \in Nat
  BY DEF CycleInv, TypeInv, TypeOK, RefreshTypeOK, RefreshRow
<1> QED BY <1>1, <1>2 DEF IndicatorBatch

-------------------------------------------------------------------------------
(* Pairs of bars and quotes.                                               *)

Paired(s) ==
  /\ \A b, q \in RowsOf(MarketKinds, s) : b.gen = q.gen /\ b.expires = q.expires
  /\ RowsOf({"bars"}, s) = {} <=> RowsOf({"quote"}, s) = {}

LEMMA MarketRowsByKind ==
  ASSUME NEW s
  PROVE  /\ RowsOf({"bars"}, s) = {r \in RowsOf(MarketKinds, s) : r.key[1] = "bars"}
         /\ RowsOf({"quote"}, s) = {r \in RowsOf(MarketKinds, s) : r.key[1] = "quote"}
BY DEF RowsOf, MarketKinds

LEMMA NextPaired ==
  ASSUME CycleInv, KeysInv, [Next]_vars, NEW s \in Symbols, Paired(s)
  PROVE  Paired(s)'
<1> USE DEF RefreshKinds
<1>1. CASE rpc = "write" /\ WritesBatch
  <2>1. PICK expires \in Nat :
          batch = RowsAt(MarketKinds, Head(todo), store[Head(todo)], expires)
    BY <1>1, MarketBatchRows
  <2>2. CASE s = Head(todo)
    <3> DEFINE gen == store[Head(todo)]
    <3>1. /\ RowsOf(MarketKinds, s)' = RowsAt(MarketKinds, s, gen, expires)
          /\ RowsOf({"bars"}, s)' = RowsAt({"bars"}, s, gen, expires)
          /\ RowsOf({"quote"}, s)' = RowsAt({"quote"}, s, gen, expires)
      BY <1>1, <2>1, <2>2, BatchReplacesRows DEF MarketKinds, WritesBatch
    <3>2. \A r \in RowsAt(MarketKinds, s, gen, expires) : r.gen = gen /\ r.expires = expires
      BY RowsAtFields
    <3>3. RowsAt({"bars"}, s, gen, expires) # {} /\ RowsAt({"quote"}, s, gen, expires) # {}
      BY DEF RowsAt
    <3> QED BY <3>1, <3>2, <3>3 DEF Paired
  <2>3. CASE s # Head(todo)
    <3>1. /\ RowsOf(MarketKinds, s)' = RowsOf(MarketKinds, s)
          /\ RowsOf({"bars"}, s)' = RowsOf({"bars"}, s)
          /\ RowsOf({"quote"}, s)' = RowsOf({"quote"}, s)
      BY <1>1, <2>1, <2>3, BatchReplacesRows DEF MarketKinds, WritesBatch
    <3> QED BY <3>1 DEF Paired
  <2> QED BY <2>2, <2>3
<1>2. CASE rpc = "calcwrite" /\ WritesBatch
  <2>1. PICK expires \in Nat, computed \in SUBSET Indicators :
          batch = RowsAt(computed, Head(todo), candles[Head(todo)], expires)
    BY <1>2, IndicatorBatchRows
  <2>2. MarketKinds \cap computed = {} /\ {"bars"} \cap computed = {} /\ {"quote"} \cap computed = {}
    BY RefreshAssumption DEF MarketKinds
  <2>3. /\ RowsOf(MarketKinds, s)' = RowsOf(MarketKinds, s)
        /\ RowsOf({"bars"}, s)' = RowsOf({"bars"}, s)
        /\ RowsOf({"quote"}, s)' = RowsOf({"quote"}, s)
    BY <1>2, <2>1, <2>2, BatchReplacesRows DEF MarketKinds, WritesBatch
  <2> QED BY <2>3 DEF Paired
<1>3. CASE ~WritesBatch
  <2>1. \A K \in SUBSET RefreshKinds :
          \/ RowsOf(K, s)' = RowsOf(K, s)
          \/ /\ table' = ExpireStale(table, now)
             /\ RowsOf(K, s)' = {r \in RowsOf(K, s) : ~(r.expires < now)}
    BY <1>3, OtherStepsKeepRows
  <2>2. MarketKinds \in SUBSET RefreshKinds
    OBVIOUS
  <2>3. PICK gone \in {TRUE, FALSE} :
          RowsOf(MarketKinds, s)' = {r \in RowsOf(MarketKinds, s) : gone => ~(r.expires < now)}
    BY <2>1, <2>2
  <2>4. /\ RowsOf({"bars"}, s)' = {r \in RowsOf(MarketKinds, s)' : r.key[1] = "bars"}
        /\ RowsOf({"quote"}, s)' = {r \in RowsOf(MarketKinds, s)' : r.key[1] = "quote"}
    BY DEF RowsOf, MarketKinds
  <2> QED BY <2>3, <2>4, MarketRowsByKind DEF Paired
<1> QED BY <1>1, <1>2, <1>3 DEF WritesBatch

(* The bars and the quote of a symbol come and go together, whatever write *)
(* fails and whenever the process dies.                                    *)
THEOREM BarsAlwaysAgreeWithQuote == Spec => []BarsAgreeWithQuote
<1>1. BarsAgreeWithQuote <=> \A s \in Symbols : Paired(s)
  BY DEF BarsAgreeWithQuote, Paired
<1>2. Init => \A s \in Symbols : Paired(s)
  BY DEF Init, BaseInit, Paired, RowsOf
<1>3. CycleInv /\ KeysInv /\ (\A s \in Symbols : Paired(s)) /\ [Next]_vars
      => (\A s \in Symbols : Paired(s))'
  BY NextPaired
<1> QED BY <1>1, <1>2, <1>3, CycleInvHolds, KeysAreUnique, PTL DEF Spec

-------------------------------------------------------------------------------
(* How far a cycle has come with a symbol.  A symbol may be listed twice,  *)
(* so it is done when it is not in the rest of the list any more.          *)

Pending == {todo[n] : n \in DOMAIN todo}

MarketDone(s) ==
  \/ rpc \in {"fill", "read", "write"} /\ s \notin Pending
  \/ rpc \in {"calc", "calcwrite", "sleep"}

CalcDone(s) ==
  \/ rpc \in {"calc", "calcwrite"} /\ s \notin Pending
  \/ rpc = "sleep"

LEMMA PendingOfTail ==
  ASSUME TypeInv, rpc \in Working
  PROVE  /\ Head(todo) \in Pending
         /\ todo' = Tail(todo) => Pending = {Head(todo)} \cup Pending'
         /\ Tail(todo) = <<>> => Pending = {Head(todo)}
<1>1. todo \in Seq(Symbols) /\ todo # <<>>
  BY DEF TypeInv, TypeOK, RefreshTypeOK
<1>2. Len(todo) \in Nat /\ Len(todo) > 0 /\ DOMAIN todo = 1..Len(todo) /\ Head(todo) = todo[1]
  BY <1>1
<1>3. Head(todo) \in Pending
  BY <1>2 DEF Pending
<1>4. /\ DOMAIN Tail(todo) = 1..(Len(todo) - 1)
      /\ \A n \in 1..(Len(todo) - 1) : Tail(todo)[n] = todo[n + 1]
  BY <1>1, <1>2
<1>5. ASSUME NEW rest, rest = Tail(todo)
      PROVE  Pending = {Head(todo)} \cup {rest[n] : n \in DOMAIN rest}
  <2>1. ASSUME NEW n \in DOMAIN todo, n # 1
        PROVE  todo[n] \in {rest[k] : k \in DOMAIN rest}
    <3>1. n - 1 \in DOMAIN rest /\ rest[n - 1] = todo[n]
      BY <2>1, <1>2, <1>4, <1>5
    <3> QED BY <3>1
  <2>2. ASSUME NEW n \in DOMAIN rest
        PROVE  rest[n] \in Pending
    <3>1. n + 1 \in DOMAIN todo /\ rest[n] = todo[n + 1]
      BY <2>2, <1>2, <1>4, <1>5
    <3> QED BY <3>1 DEF Pending
  <2> QED BY <2>1, <2>2, <1>2, <1>3 DEF Pending
<1>6. todo' = Tail(todo) => Pending = {Head(todo)} \cup Pending'
  BY <1>5 DEF Pending
<1>7. Tail(todo) = <<>> => Pending = {Head(todo)}
  <2>1. \A n \in DOMAIN <<>> : FALSE
    OBVIOUS
  <2> QED BY <1>5, <2>1
<1> QED BY <1>3, <1>6, <1>7

LEMMA PendingIsAll ==
  ASSUME todo' = SymbolList
  PROVE  Pending' = Symbols
BY DEF Pending, Symbols

LEMMA NextSymbolDone ==
  ASSUME TypeInv, rpc \in {"read", "write"}, NextSymbol, NEW s \in Symbols
  PROVE  /\ MarketDone(s)' => MarketDone(s) \/ s = Head(todo)
         /\ ~CalcDone(s)'
         /\ rpc' \in {"fill", "calc"}
<1>1. CASE Tail(todo) # <<>>
  <2>1. rpc' = "fill" /\ todo' = Tail(todo)
    BY <1>1 DEF NextSymbol
  <2>2. Pending = {Head(todo)} \cup Pending'
    BY <2>1, PendingOfTail DEF Working
  <2> QED BY <2>1, <2>2 DEF MarketDone, CalcDone
<1>2. CASE Tail(todo) = <<>>
  <2>1. rpc' = "calc" /\ todo' = SymbolList
    BY <1>2 DEF NextSymbol
  <2>2. Pending = {Head(todo)} /\ Pending' = Symbols
    BY <1>2, <2>1, PendingOfTail, PendingIsAll DEF Working
  <2> QED BY <2>1, <2>2 DEF MarketDone, CalcDone
<1> QED BY <1>1, <1>2

LEMMA NextCalculationDone ==
  ASSUME TypeInv, rpc \in {"calc", "calcwrite"}, NextCalculation, NEW s \in Symbols
  PROVE  /\ MarketDone(s)
         /\ CalcDone(s)' => CalcDone(s) \/ s = Head(todo)
         /\ rpc' \in {"calc", "sleep"}
<1>1. CASE Tail(todo) # <<>>
  <2>1. rpc' = "calc" /\ todo' = Tail(todo)
    BY <1>1 DEF NextCalculation
  <2>2. Pending = {Head(todo)} \cup Pending'
    BY <2>1, PendingOfTail DEF Working
  <2> QED BY <2>1, <2>2 DEF MarketDone, CalcDone
<1>2. CASE Tail(todo) = <<>>
  <2>1. rpc' = "sleep"
    BY <1>2 DEF NextCalculation, CycleEnds
  <2>2. Pending = {Head(todo)}
    BY <1>2, PendingOfTail DEF Working
  <2> QED BY <2>1, <2>2 DEF MarketDone, CalcDone
<1> QED BY <1>1, <1>2

(* A step that moves neither the task nor its list leaves what is done.    *)
LEMMA SameDone ==
  ASSUME UNCHANGED <<rpc, todo>>, NEW s
  PROVE  (MarketDone(s)' <=> MarketDone(s)) /\ (CalcDone(s)' <=> CalcDone(s))
BY DEF MarketDone, CalcDone, Pending

LEMMA CycleBeginsDone ==
  ASSUME CycleBegins(now), NEW s \in Symbols
  PROVE  ~MarketDone(s)' /\ ~CalcDone(s)'
BY PendingIsAll DEF CycleBegins, MarketDone, CalcDone

-------------------------------------------------------------------------------
(* Failures.  What the table shows of a symbol that has candles in the     *)
(* window and has not failed in this cycle is what the store had when the  *)
(* cycle passed it; the store grows only before that.                      *)

Isolated(s) ==
  /\ candles[s] <= store[s]
  /\ candles[s] > 0 => s \in inWindow
  /\ MarketDone(s) /\ s \in inWindow /\ s \notin marketFailed =>
       \A r \in RowsOf(MarketKinds, s) : r.gen = store[s]
  /\ MarketDone(s) /\ s \in inWindow /\ s \notin calcFailed => candles[s] = store[s]
  /\ CalcDone(s) /\ s \in inWindow /\ s \notin calcFailed =>
       \A r \in RowsOf(Indicators, s) : r.gen = store[s]

IsolationInv == \A s \in Symbols : Isolated(s)

(* A step that changes no row of the symbol keeps it isolated if it keeps  *)
(* the store, its candles and its place in the window, and does not        *)
(* complete a pass over the symbol.                                        *)
LEMMA KeptIsolated ==
  ASSUME NEW s \in Symbols, Isolated(s),
         \A K \in SUBSET RefreshKinds : RowsOf(K, s)' \subseteq RowsOf(K, s),
         store'[s] = store[s],
         candles'[s] = candles[s],
         s \in inWindow => s \in inWindow',
         s \in inWindow' => s \in inWindow,
         marketFailed \subseteq marketFailed', calcFailed \subseteq calcFailed',
         MarketDone(s)' => \/ MarketDone(s)
                           \/ s \in marketFailed' /\ s \in calcFailed',
         CalcDone(s)' => CalcDone(s) \/ s \in calcFailed'
  PROVE  Isolated(s)'
<1>1. /\ RowsOf(MarketKinds, s)' \subseteq RowsOf(MarketKinds, s)
      /\ RowsOf(Indicators, s)' \subseteq RowsOf(Indicators, s)
  BY DEF RefreshKinds
<1> QED BY <1>1 DEF Isolated

LEMMA MarketWriteIsolated ==
  ASSUME CycleInv, KeysInv, MarketWrite, NEW s \in Symbols, Isolated(s)
  PROVE  Isolated(s)'
<1>1. PICK expires \in Nat :
        /\ batch = RowsAt(MarketKinds, Head(todo), store[Head(todo)], expires)
        /\ Head(todo) \in inWindow
  BY MarketBatchRows DEF MarketWrite
<1>2. table' = UpsertBatch(table, batch) /\ UNCHANGED <<store, inWindow, marketFailed, calcFailed>>
  BY DEF MarketWrite
<1>3. candles \in [Symbols -> 0..MaxGen] /\ store \in [Symbols -> 0..MaxGen]
  BY DEF CycleInv, TypeInv, TypeOK, RefreshTypeOK
<1>4. candles' = [candles EXCEPT ![Head(todo)] = store[Head(todo)]]
  BY DEF MarketWrite, KeepCandles
<1>5. (MarketDone(s)' => MarketDone(s) \/ s = Head(todo)) /\ ~CalcDone(s)'
  BY NextSymbolDone DEF MarketWrite, CycleInv
<1>6. CASE s = Head(todo)
  <2>1. RowsOf(MarketKinds, s)' = RowsAt(MarketKinds, s, store[s], expires)
    BY <1>1, <1>2, <1>6, BatchReplacesRows DEF RefreshKinds
  <2>2. \A r \in RowsOf(MarketKinds, s)' : r.gen = store[s]
    BY <2>1, RowsAtFields
  <2>3. candles'[s] = store[s]
    BY <1>3, <1>4, <1>6
  <2> QED BY <1>1, <1>2, <1>3, <1>5, <1>6, <2>2, <2>3 DEF Isolated
<1>7. CASE s # Head(todo)
  <2>1. \A K \in SUBSET RefreshKinds : RowsOf(K, s)' = RowsOf(K, s)
    BY <1>1, <1>2, <1>7, BatchReplacesRows DEF RefreshKinds
  <2>2. candles'[s] = candles[s]
    BY <1>3, <1>4, <1>7
  <2> QED BY <1>2, <1>5, <1>7, <2>1, <2>2, KeptIsolated
<1> QED BY <1>6, <1>7

LEMMA CalcWriteIsolated ==
  ASSUME CycleInv, KeysInv, CalcWrite, NEW s \in Symbols, Isolated(s)
  PROVE  Isolated(s)'
<1>1. PICK expires \in Nat, computed \in SUBSET Indicators :
        /\ batch = RowsAt(computed, Head(todo), candles[Head(todo)], expires)
        /\ candles[Head(todo)] > 0
        /\ computed # Indicators => Head(todo) \in calcFailed
  BY IndicatorBatchRows DEF CalcWrite
<1>2. /\ table' = UpsertBatch(table, batch)
      /\ UNCHANGED <<store, inWindow, candles, marketFailed, calcFailed>>
  BY DEF CalcWrite, refreshHistory
<1>3. candles[s] \in Nat /\ store[s] \in Nat
  BY RefreshAssumption DEF CycleInv, TypeInv, TypeOK, RefreshTypeOK
<1>4. MarketDone(s) /\ (CalcDone(s)' => CalcDone(s) \/ s = Head(todo))
  BY NextCalculationDone DEF CalcWrite, CycleInv
<1>5. RowsOf(MarketKinds, s)' = RowsOf(MarketKinds, s)
  <2>1. MarketKinds \cap computed = {}
    BY RefreshAssumption
  <2> QED BY <1>1, <1>2, <2>1, BatchReplacesRows DEF RefreshKinds
<1>6. CASE s = Head(todo)
  <2>1. s \in inWindow
    BY <1>1, <1>6 DEF Isolated
  <2>2. ASSUME s \notin calcFailed
        PROVE  \A r \in RowsOf(Indicators, s)' : r.gen = store[s]
    <3>1. RowsOf(Indicators, s)' = RowsAt(Indicators, s, candles[s], expires)
      BY <1>1, <1>2, <1>6, <2>2, BatchReplacesRows DEF RefreshKinds
    <3>2. candles[s] = store[s]
      BY <1>4, <2>1, <2>2 DEF Isolated
    <3> QED BY <3>1, <3>2, RowsAtFields
  <2> QED BY <1>2, <1>4, <1>5, <2>1, <2>2 DEF Isolated
<1>7. CASE s # Head(todo)
  <2>1. \A K \in SUBSET RefreshKinds : RowsOf(K, s)' = RowsOf(K, s)
    BY <1>1, <1>2, <1>7, BatchReplacesRows DEF RefreshKinds
  <2> QED BY <1>2, <1>4, <1>7, <2>1, KeptIsolated
<1> QED BY <1>6, <1>7

(* The steps that change no row.                                           *)
LEMMA QuietStepIsolated ==
  ASSUME CycleInv, RefreshNext, ~MarketWrite, ~CalcWrite, NEW s \in Symbols, Isolated(s)
  PROVE  Isolated(s)'
<1> USE DEF CycleInv
<1>1. table' = table
  BY DEF RefreshNext, CycleStep, Fill, ReadCandles, ReadNoCandles, ReadFails, MarketWriteFails,
         Calculate, NothingToCalculate, CalcWriteFails, RefreshWakes, RefreshStops, RefreshPanics,
         baseVars
<1>2. \A K \in SUBSET RefreshKinds : RowsOf(K, s)' = RowsOf(K, s)
  BY <1>1 DEF RowsOf
<1>3. /\ candles \in [Symbols -> 0..MaxGen] /\ store \in [Symbols -> 0..MaxGen]
      /\ candles[s] \in Nat /\ store[s] \in Nat
  BY RefreshAssumption DEF TypeInv, TypeOK, RefreshTypeOK
<1>4. CASE Fill
  <2>1. /\ UNCHANGED <<candles, todo, marketFailed, calcFailed>>
        /\ rpc = "fill" /\ rpc' = "read"
    BY <1>4 DEF Fill, refreshHistory
  <2>2. (MarketDone(s)' <=> MarketDone(s)) /\ ~CalcDone(s)'
    BY <2>1 DEF MarketDone, CalcDone, Pending
  <2>3. CASE s = Head(todo)
    <3>1. ~MarketDone(s)
      BY <2>1, <2>3, PendingOfTail DEF MarketDone, Working
    <3>2. store'[s] \in {store[s], store[s] + 1} /\ (s \in inWindow => s \in inWindow')
      BY <1>3, <1>4, <2>3 DEF Fill
    <3> QED BY <1>2, <1>3, <2>1, <2>2, <3>1, <3>2 DEF Isolated
  <2>4. CASE s # Head(todo)
    <3>1. store'[s] = store[s] /\ (s \in inWindow' <=> s \in inWindow)
      BY <1>3, <1>4, <2>4 DEF Fill
    <3> QED BY <1>2, <2>1, <2>2, <3>1, KeptIsolated
  <2> QED BY <2>3, <2>4
<1>5. CASE ReadCandles \/ Calculate
  <2>1. /\ UNCHANGED <<store, inWindow, candles, todo, marketFailed>> /\ calcFailed \subseteq calcFailed'
        /\ \/ rpc = "read" /\ rpc' = "write"
           \/ rpc = "calc" /\ rpc' = "calcwrite"
    BY <1>5 DEF ReadCandles, Calculate, refreshHistory
  <2>2. (MarketDone(s)' <=> MarketDone(s)) /\ (CalcDone(s)' <=> CalcDone(s))
    BY <2>1 DEF MarketDone, CalcDone, Pending
  <2> QED BY <1>2, <2>1, <2>2, KeptIsolated
<1>6. CASE ReadNoCandles
  <2>1. /\ UNCHANGED <<store, inWindow, marketFailed, calcFailed>> /\ rpc = "read"
        /\ NextSymbol /\ Head(todo) \notin inWindow
        /\ candles' = [candles EXCEPT ![Head(todo)] = 0]
    BY <1>6 DEF ReadNoCandles
  <2>2. (MarketDone(s)' => MarketDone(s) \/ s = Head(todo)) /\ ~CalcDone(s)'
    BY <2>1, NextSymbolDone
  <2>3. CASE s = Head(todo)
    <3>1. candles'[s] = 0 /\ s \notin inWindow'
      BY <1>3, <2>1, <2>3
    <3> QED BY <1>3, <2>1, <3>1 DEF Isolated
  <2>4. CASE s # Head(todo)
    <3>1. candles'[s] = candles[s]
      BY <1>3, <2>1, <2>4
    <3> QED BY <1>2, <2>1, <2>2, <2>4, <3>1, KeptIsolated
  <2> QED BY <2>3, <2>4
<1>7. CASE ReadFails
  <2>1. /\ UNCHANGED <<store, inWindow, candles>> /\ rpc = "read" /\ NextSymbol
        /\ marketFailed' = marketFailed \cup {Head(todo)}
        /\ calcFailed' = calcFailed \cup {Head(todo)}
    BY <1>7 DEF ReadFails
  <2>2. (MarketDone(s)' => MarketDone(s) \/ s = Head(todo)) /\ ~CalcDone(s)'
    BY <2>1, NextSymbolDone
  <2> QED BY <1>2, <2>1, <2>2, KeptIsolated
<1>8. CASE MarketWriteFails
  <2>1. /\ UNCHANGED <<store, inWindow, calcFailed>> /\ rpc = "write" /\ NextSymbol
        /\ marketFailed' = marketFailed \cup {Head(todo)}
        /\ candles' = [candles EXCEPT ![Head(todo)] = store[Head(todo)]]
    BY <1>8 DEF MarketWriteFails, AfterMarketFailure, KeepCandles
  <2>2. (MarketDone(s)' => MarketDone(s) \/ s = Head(todo)) /\ ~CalcDone(s)'
    BY <2>1, NextSymbolDone
  <2>3. CASE s = Head(todo)
    <3>1. candles'[s] = store[s]
      BY <1>3, <2>1, <2>3
    <3>2. s \in inWindow
      BY <1>8, <2>3, MarketBatchRows DEF MarketWriteFails
    <3> QED BY <1>2, <1>3, <2>1, <2>2, <2>3, <3>1, <3>2 DEF Isolated, RefreshKinds
  <2>4. CASE s # Head(todo)
    <3>1. candles'[s] = candles[s]
      BY <1>3, <2>1, <2>4
    <3> QED BY <1>2, <2>1, <2>2, <2>4, <3>1, KeptIsolated
  <2> QED BY <2>3, <2>4
<1>9. CASE NothingToCalculate
  <2>1. /\ UNCHANGED <<store, inWindow, candles, marketFailed>> /\ rpc = "calc"
        /\ NextCalculation
        /\ \/ candles[Head(todo)] = 0 /\ calcFailed' = calcFailed
           \/ calcFailed' = calcFailed \cup {Head(todo)}
    BY <1>9 DEF NothingToCalculate
  <2>2. MarketDone(s) /\ (CalcDone(s)' => CalcDone(s) \/ s = Head(todo))
    BY <2>1, NextCalculationDone
  <2>3. CASE s = Head(todo) /\ s \notin calcFailed'
    <3>1. candles[s] = 0 /\ s \notin calcFailed
      BY <2>1, <2>3
    <3>2. s \in inWindow => store[s] > 0
      BY DEF TypeInv, TypeOK, RefreshTypeOK
    <3>3. s \notin inWindow
      BY <1>3, <2>2, <3>1, <3>2 DEF Isolated
    <3> QED BY <1>2, <1>3, <2>1, <3>1, <3>3 DEF Isolated
  <2>4. CASE ~(s = Head(todo) /\ s \notin calcFailed')
    BY <1>2, <2>1, <2>2, <2>4, KeptIsolated
  <2> QED BY <2>3, <2>4
<1>10. CASE CalcWriteFails
  <2>1. /\ UNCHANGED <<store, inWindow, candles, marketFailed>> /\ rpc = "calcwrite"
        /\ calcFailed' = calcFailed \cup Pending
    BY <1>10 DEF CalcWriteFails, Pending
  <2>2. MarketDone(s) /\ (CalcDone(s) \/ s \in Pending)
    BY <2>1 DEF MarketDone, CalcDone
  <2> QED BY <1>2, <2>1, <2>2, KeptIsolated
<1>11. CASE RefreshWakes
  <2>1. ~MarketDone(s)' /\ ~CalcDone(s)'
    BY <1>11, CycleBeginsDone DEF RefreshWakes
  <2>2. candles'[s] = 0 /\ store' = store
    BY <1>11 DEF RefreshWakes, CycleBegins
  <2> QED BY <1>2, <1>3, <2>1, <2>2 DEF Isolated
<1>12. CASE RefreshStops \/ RefreshPanics
  <2>1. rpc' = "stopped" /\ UNCHANGED <<store, inWindow, candles>>
    BY <1>12 DEF RefreshStops, RefreshPanics
  <2>2. ~MarketDone(s)' /\ ~CalcDone(s)'
    BY <2>1 DEF MarketDone, CalcDone
  <2> QED BY <1>2, <2>1, <2>2 DEF Isolated
<1> QED
  BY <1>4, <1>5, <1>6, <1>7, <1>8, <1>9, <1>10, <1>11, <1>12 DEF RefreshNext, CycleStep

(* The steps of the other tasks, and those of the whole process.           *)
LEMMA OtherStepIsolated ==
  ASSUME CycleInv, [Next]_vars, ~RefreshTask(RefreshNext), NEW s \in Symbols, Isolated(s)
  PROVE  Isolated(s)'
<1>1. CASE CrashAndRestart
  <2>1. ~MarketDone(s)' /\ ~CalcDone(s)'
    BY <1>1, CycleBeginsDone DEF CrashAndRestart
  <2>2. candles'[s] = 0 /\ store' = store /\ table' = table
    BY <1>1 DEF CrashAndRestart, CycleBegins
  <2>3. store[s] \in Nat
    BY RefreshAssumption DEF CycleInv, TypeInv, TypeOK, RefreshTypeOK
  <2> QED BY <2>1, <2>2, <2>3 DEF Isolated, RowsOf
<1>2. CASE ~CrashAndRestart
  <2>1. /\ UNCHANGED <<rpc, todo, batch, candles, store, inWindow>>
        /\ UNCHANGED <<marketFailed, calcFailed>>
    BY <1>2, OtherSteps DEF refreshVars, refreshHistory
  <2>2. ASSUME NEW K \in SUBSET RefreshKinds
        PROVE  RowsOf(K, s)' \subseteq RowsOf(K, s)
    BY OtherStepsKeepRows DEF WritesBatch
  <2>3. (MarketDone(s)' <=> MarketDone(s)) /\ (CalcDone(s)' <=> CalcDone(s))
    BY <2>1, SameDone
  <2> QED BY <2>1, <2>2, <2>3, KeptIsolated
<1> QED BY <1>1, <1>2

LEMMA NextIsolated ==
  ASSUME CycleInv, KeysInv, IsolationInv, [Next]_vars
  PROVE  IsolationInv'
<1> SUFFICES ASSUME NEW s \in Symbols
             PROVE  Isolated(s)'
  BY DEF IsolationInv
<1>1. Isolated(s)
  BY DEF IsolationInv
<1> QED
  BY <1>1, MarketWriteIsolated, CalcWriteIsolated, QuietStepIsolated, OtherStepIsolated
  DEF RefreshTask

(* At every point of a cycle, what the table shows of a symbol that has    *)
(* not failed, that has candles in the window and that the cycle has       *)
(* passed is what the store holds of it.                                   *)
THEOREM IsolationInvHolds == Spec => []IsolationInv
<1>1. ASSUME Init
      PROVE  IsolationInv
  <2> SUFFICES ASSUME NEW s \in Symbols
               PROVE  Isolated(s)
    BY DEF IsolationInv
  <2>1. table = {} /\ rpc = "fill" /\ todo = SymbolList /\ candles[s] = 0 /\ store[s] \in {0, 1}
    BY <1>1 DEF Init, BaseInit, RefreshInit
  <2>2. ~MarketDone(s) /\ ~CalcDone(s)
    BY <2>1 DEF MarketDone, CalcDone, Pending, Symbols
  <2> QED BY <2>1, <2>2 DEF Isolated, RowsOf
<1> QED BY <1>1, CycleInvHolds, KeysAreUnique, NextIsolated, PTL DEF Spec

(* When a cycle is over, a failure has cost only the symbol it concerned,  *)
(* and for an indicator write those after it: every row of another symbol  *)
(* with candles in the window shows those now in the store.                *)
THEOREM FailuresStayIsolated == Spec => []FailuresAreIsolated
<1>1. CycleInv /\ IsolationInv => FailuresAreIsolated
  BY DEF IsolationInv, Isolated, MarketDone, CalcDone, FailuresAreIsolated,
         CycleInv, TypeInv, TypeOK, RefreshTypeOK
<1> QED BY <1>1, CycleInvHolds, IsolationInvHolds, PTL

-------------------------------------------------------------------------------
(* No gap.  The bars of a symbol whose reads have found candles since it   *)
(* was loaded are those of this cycle when the cycle has passed it, and    *)
(* those of the cycle before until then.                                   *)

Unbroken == MarketTTL > Interval + 2 * MaxCycle /\ ~faulted /\ rpc # "stopped"

BarsLast(s, r) ==
  r.expires + (IF MarketDone(s) THEN 0 ELSE Interval + MaxCycle) >= cycleStart + MarketTTL

Loaded(s) ==
  /\ store[s] > 0
  /\ \E r \in RowsOf({"bars"}, s) : BarsLast(s, r)

GapInv == Unbroken => \A s \in covered : Loaded(s)

LEMMA TimesAreIntegers ==
  ASSUME TypeInv
  PROVE  /\ now \in Nat /\ cycleStart \in Nat /\ wake \in Nat
         /\ MarketTTL \in Nat /\ Interval \in Nat /\ MaxCycle \in Nat
         /\ covered \subseteq Symbols
         /\ \A s \in Symbols : store[s] \in Nat /\ candles[s] \in Nat
         /\ \A K, s : \A r \in RowsOf(K, s) : r.expires \in Nat
<1>1. \A K, s : \A r \in RowsOf(K, s) : r.expires \in Nat
  BY TableRowType DEF RowsOf
<1> QED BY <1>1, RefreshAssumption DEF TypeInv, TypeOK, RefreshTypeOK

(* Such bars have not expired.                                             *)
LEMMA LastingBarsAreLive ==
  ASSUME CycleInv, Unbroken, NEW s \in Symbols, NEW r \in RowsOf({"bars"}, s), BarsLast(s, r)
  PROVE  r.expires > now
<1>1. /\ now \in Nat /\ cycleStart \in Nat /\ wake \in Nat /\ r.expires \in Nat
      /\ MarketTTL \in Nat /\ Interval \in Nat /\ MaxCycle \in Nat
  BY TimesAreIntegers DEF CycleInv
<1>2. MarketTTL > Interval + 2 * MaxCycle
  BY DEF Unbroken
<1>3. CASE rpc \in Working
  <2>1. now <= cycleStart + MaxCycle
    BY <1>3 DEF CycleInv, ClockInv
  <2>2. r.expires + (Interval + MaxCycle) >= cycleStart + MarketTTL
    BY <1>1 DEF BarsLast
  <2> QED BY <1>1, <1>2, <2>1, <2>2
<1>4. CASE rpc = "sleep"
  <2>1. now <= cycleStart + MaxCycle + Interval
    BY <1>1, <1>4 DEF CycleInv, ClockInv
  <2>2. r.expires >= cycleStart + MarketTTL
    BY <1>1, <1>4 DEF BarsLast, MarketDone
  <2> QED BY <1>1, <1>2, <2>1, <2>2
<1>5. rpc \in Working \cup {"sleep"}
  BY DEF Unbroken, CycleInv, TypeInv, TypeOK, RefreshTypeOK
<1> QED BY <1>3, <1>4, <1>5

(* A step that keeps the bars of the symbol and does not pass it by.       *)
LEMMA KeptLoaded ==
  ASSUME TypeInv, NEW s \in Symbols, Loaded(s),
         RowsOf({"bars"}, s)' = RowsOf({"bars"}, s),
         cycleStart' = cycleStart, store'[s] > 0,
         MarketDone(s)' => MarketDone(s)
  PROVE  Loaded(s)'
<1>1. PICK r \in RowsOf({"bars"}, s) : BarsLast(s, r)
  BY DEF Loaded
<1>2. /\ r.expires \in Nat /\ cycleStart \in Nat
      /\ MarketTTL \in Nat /\ Interval \in Nat /\ MaxCycle \in Nat
  BY TimesAreIntegers
<1>3. BarsLast(s, r)'
  BY <1>1, <1>2 DEF BarsLast
<1> QED BY <1>1, <1>3 DEF Loaded

LEMMA RefreshStepLoaded ==
  ASSUME CycleInv, KeysInv, RefreshNext, Unbroken, ~faulted', rpc' # "stopped",
         NEW s \in covered', s \in covered => Loaded(s)
  PROVE  Loaded(s)'
<1> USE DEF CycleInv
<1>1. /\ covered \subseteq Symbols
      /\ now \in Nat /\ cycleStart \in Nat /\ wake \in Nat
      /\ MarketTTL \in Nat /\ Interval \in Nat /\ MaxCycle \in Nat
      /\ candles \in [Symbols -> 0..MaxGen] /\ store \in [Symbols -> 0..MaxGen]
  BY TimesAreIntegers DEF TypeInv, TypeOK, RefreshTypeOK
<1>2. CASE MarketWrite
  <2>1. PICK expires \in Nat :
          /\ batch = RowsAt(MarketKinds, Head(todo), store[Head(todo)], expires)
          /\ store[Head(todo)] > 0
          /\ expires >= cycleStart + MarketTTL
    BY <1>2, MarketBatchRows DEF MarketWrite
  <2>2. /\ table' = UpsertBatch(table, batch) /\ UNCHANGED <<store, cycleStart>>
        /\ covered' = covered \cup {Head(todo)}
    BY <1>2 DEF MarketWrite
  <2>3. Head(todo) \in Symbols
    BY <1>2, HeadIsSymbol DEF MarketWrite, Working
  <2>4. {"bars"} \in SUBSET RefreshKinds /\ {"bars"} \subseteq MarketKinds
        /\ MarketKinds \in SUBSET RefreshKinds
    BY DEF RefreshKinds, MarketKinds
  <2>5. CASE s = Head(todo)
    <3>1. RowsOf({"bars"}, s)' = RowsAt({"bars"}, s, store[s], expires)
      BY <2>1, <2>2, <2>4, <2>5, BatchReplacesRows
    <3>2. PICK r \in RowsOf({"bars"}, s)' : r.expires = expires
      <4>1. PICK r \in RowsAt({"bars"}, s, store[s], expires) : TRUE
        BY DEF RowsAt
      <4> QED BY <3>1, <4>1, RowsAtFields
    <3>3. BarsLast(s, r)'
      BY <1>1, <2>1, <2>2, <3>2 DEF BarsLast
    <3> QED BY <2>1, <2>2, <2>5, <3>2, <3>3 DEF Loaded
  <2>6. CASE s # Head(todo)
    <3>1. s \in covered /\ s \in Symbols /\ Loaded(s)
      BY <1>1, <2>2, <2>6
    <3>2. RowsOf({"bars"}, s)' = RowsOf({"bars"}, s)
      BY <2>1, <2>2, <2>4, <2>6, BatchReplacesRows
    <3>3. MarketDone(s)' => MarketDone(s)
      BY <1>2, <2>6, <3>1, NextSymbolDone DEF MarketWrite
    <3>4. store'[s] > 0
      BY <2>2, <3>1 DEF Loaded
    <3> QED BY <2>2, <3>1, <3>2, <3>3, <3>4, KeptLoaded
  <2> QED BY <2>5, <2>6
<1>3. CASE CalcWrite
  <2>1. PICK expires \in Nat, computed \in SUBSET Indicators :
          batch = RowsAt(computed, Head(todo), candles[Head(todo)], expires)
    BY <1>3, IndicatorBatchRows DEF CalcWrite
  <2>2. table' = UpsertBatch(table, batch) /\ UNCHANGED <<store, cycleStart, covered>>
    BY <1>3 DEF CalcWrite, refreshHistory
  <2>3. s \in Symbols /\ Loaded(s)
    BY <1>1, <2>2
  <2>4. {"bars"} \in SUBSET RefreshKinds /\ {"bars"} \cap computed = {}
        /\ computed \in SUBSET RefreshKinds
    BY RefreshAssumption DEF RefreshKinds, MarketKinds
  <2>5. RowsOf({"bars"}, s)' = RowsOf({"bars"}, s)
    BY <2>1, <2>2, <2>4, BatchReplacesRows
  <2>6. MarketDone(s)
    BY <1>3 DEF CalcWrite, MarketDone
  <2>7. store'[s] > 0
    BY <2>2, <2>3 DEF Loaded
  <2> QED BY <2>2, <2>3, <2>5, <2>6, <2>7, KeptLoaded
<1>4. CASE RefreshWakes
  <2>1. /\ rpc = "sleep" /\ cycleStart' = now
        /\ UNCHANGED <<table, store, covered>>
    BY <1>4 DEF RefreshWakes, CycleBegins, baseVars
  <2>2. s \in Symbols /\ Loaded(s)
    BY <1>1, <2>1
  <2>3. PICK r \in RowsOf({"bars"}, s) : BarsLast(s, r)
    BY <2>2 DEF Loaded
  <2>4. r.expires \in Nat /\ r.expires >= cycleStart + MarketTTL
    BY <1>1, <2>1, <2>3, TimesAreIntegers DEF BarsLast, MarketDone
  <2>5. now <= cycleStart + MaxCycle + Interval
    BY <1>1, <2>1 DEF ClockInv
  <2>6. ~MarketDone(s)'
    BY <1>4, <2>2, CycleBeginsDone DEF RefreshWakes
  <2>7. BarsLast(s, r)'
    BY <1>1, <2>1, <2>4, <2>5, <2>6 DEF BarsLast
  <2>8. r \in RowsOf({"bars"}, s)' /\ store'[s] > 0
    BY <2>1, <2>2, <2>3 DEF RowsOf, Loaded
  <2> QED BY <2>7, <2>8 DEF Loaded
<1>5. CASE Fill
  <2>1. /\ UNCHANGED <<table, todo, cycleStart, covered>> /\ rpc = "fill" /\ rpc' = "read"
    BY <1>5 DEF Fill, baseVars, refreshHistory
  <2>2. s \in Symbols /\ Loaded(s)
    BY <1>1, <2>1
  <2>3. store'[s] > 0
    BY <1>1, <1>5, <2>2 DEF Fill, Loaded
  <2>4. RowsOf({"bars"}, s)' = RowsOf({"bars"}, s) /\ (MarketDone(s)' <=> MarketDone(s))
    BY <2>1 DEF RowsOf, MarketDone, Pending
  <2> QED BY <2>1, <2>2, <2>3, <2>4, KeptLoaded
<1>6. CASE ReadNoCandles
  <2>1. /\ UNCHANGED <<table, store, cycleStart>> /\ rpc = "read" /\ NextSymbol
        /\ covered' = covered \ {Head(todo)}
    BY <1>6 DEF ReadNoCandles, baseVars
  <2>2. s \in Symbols /\ Loaded(s)
    BY <1>1, <2>1
  <2>3. s # Head(todo) /\ store'[s] > 0
    BY <2>1, <2>2 DEF Loaded
  <2>4. RowsOf({"bars"}, s)' = RowsOf({"bars"}, s) /\ (MarketDone(s)' => MarketDone(s))
    BY <2>1, <2>2, <2>3, NextSymbolDone DEF RowsOf
  <2> QED BY <2>1, <2>2, <2>3, <2>4, KeptLoaded
<1>7. CASE ReadCandles \/ Calculate
  <2>1. /\ UNCHANGED <<table, store, todo, cycleStart, covered>>
        /\ \/ rpc = "read" /\ rpc' = "write"
           \/ rpc = "calc" /\ rpc' = "calcwrite"
    BY <1>7 DEF ReadCandles, Calculate, baseVars, refreshHistory
  <2>2. s \in Symbols /\ Loaded(s) /\ store'[s] > 0
    BY <1>1, <2>1 DEF Loaded
  <2>3. RowsOf({"bars"}, s)' = RowsOf({"bars"}, s) /\ (MarketDone(s)' <=> MarketDone(s))
    BY <2>1 DEF RowsOf, MarketDone, Pending
  <2> QED BY <2>1, <2>2, <2>3, KeptLoaded
<1>8. CASE NothingToCalculate
  <2>1. /\ UNCHANGED <<table, store, cycleStart, covered>> /\ rpc = "calc" /\ NextCalculation
    BY <1>8 DEF NothingToCalculate, baseVars
  <2>2. s \in Symbols /\ Loaded(s) /\ store'[s] > 0
    BY <1>1, <2>1 DEF Loaded
  <2>3. RowsOf({"bars"}, s)' = RowsOf({"bars"}, s) /\ MarketDone(s)
    BY <2>1 DEF RowsOf, MarketDone
  <2> QED BY <2>1, <2>2, <2>3, KeptLoaded
<1>9. ~(ReadFails \/ MarketWriteFails \/ CalcWriteFails \/ RefreshStops \/ RefreshPanics)
  BY DEF ReadFails, MarketWriteFails, CalcWriteFails, RefreshStops, RefreshPanics
<1> QED
  BY <1>2, <1>3, <1>4, <1>5, <1>6, <1>7, <1>8, <1>9 DEF RefreshNext, CycleStep

(* A fault is remembered until the process dies, and a task that has       *)
(* stopped stays so.                                                       *)
LEMMA RefreshStepUnbroken ==
  ASSUME TypeInv, RefreshNext
  PROVE  rpc # "stopped" /\ (faulted => faulted')
<1>1. rpc # "stopped"
  BY DEF RefreshNext, CycleStep, Fill, ReadCandles, ReadNoCandles, ReadFails,
         MarketWrite, MarketWriteFails, Calculate, NothingToCalculate, CalcWrite,
         CalcWriteFails, RefreshWakes, RefreshStops, RefreshPanics
<1>2. CASE Fill \/ ReadCandles \/ ReadNoCandles \/ MarketWrite \/ CalcWrite \/ RefreshWakes \/ RefreshStops
  BY <1>2 DEF Fill, ReadCandles, ReadNoCandles, MarketWrite, CalcWrite, RefreshWakes, RefreshStops,
              refreshHistory
<1>3. CASE ReadFails \/ MarketWriteFails \/ CalcWriteFails \/ RefreshPanics
  BY <1>3 DEF ReadFails, MarketWriteFails, CalcWriteFails, RefreshPanics
<1>4. CASE Calculate
  BY <1>4 DEF Calculate
<1>5. CASE NothingToCalculate
  BY <1>5 DEF NothingToCalculate
<1> QED BY <1>1, <1>2, <1>3, <1>4, <1>5 DEF RefreshNext, CycleStep

LEMMA NextGapInv ==
  ASSUME CycleInv, KeysInv, GapInv, [Next]_vars
  PROVE  GapInv'
<1> SUFFICES ASSUME Unbroken', NEW s \in covered'
             PROVE  Loaded(s)'
  BY DEF GapInv
<1>1. CASE RefreshTask(RefreshNext)
  <2>1. RefreshNext /\ Unbroken /\ ~faulted' /\ rpc' # "stopped"
    BY <1>1, RefreshStepUnbroken DEF RefreshTask, Unbroken, CycleInv
  <2> QED BY <2>1, RefreshStepLoaded DEF GapInv
<1>2. CASE CrashAndRestart
  BY <1>2 DEF CrashAndRestart
<1>3. CASE ~RefreshTask(RefreshNext) /\ ~CrashAndRestart
  <2>1. UNCHANGED <<rpc, todo, store, cycleStart, faulted, covered>>
    BY <1>3, OtherSteps DEF refreshVars, refreshHistory
  <2>2. Unbroken /\ s \in Symbols /\ Loaded(s)
    BY <2>1, TimesAreIntegers DEF Unbroken, GapInv, CycleInv
  <2>3. PICK r \in RowsOf({"bars"}, s) : BarsLast(s, r)
    BY <2>2 DEF Loaded
  <2>4. r.expires > now /\ r.expires \in Nat /\ now \in Nat
    BY <2>2, <2>3, LastingBarsAreLive, TimesAreIntegers DEF CycleInv
  <2>5. r \in RowsOf({"bars"}, s)'
    <3>1. {"bars"} \in SUBSET RefreshKinds
      BY DEF RefreshKinds, MarketKinds
    <3> QED BY <1>3, <2>4, <3>1, OtherStepsKeepRows DEF WritesBatch
  <2>6. BarsLast(s, r)'
    BY <2>1, <2>3, SameDone DEF BarsLast
  <2> QED BY <2>1, <2>2, <2>5, <2>6 DEF Loaded
<1> QED BY <1>1, <1>2, <1>3

(* With rows that outlive the interval and two cycles, and no failure but  *)
(* of the provider, a symbol that has been loaded goes missing only after  *)
(* a cycle found none of its candles in the window.                        *)
THEOREM NoSymbolGap == Spec => []NoGap
<1>1. Init => GapInv
  BY DEF Init, RefreshInit, GapInv
<1>2. ASSUME CycleInv, GapInv
      PROVE  NoGap
  <2>1. ASSUME Unbroken, NEW s \in covered
        PROVE  \E r \in RowsOf({"bars"}, s) : r.expires > now
    <3>1. s \in Symbols /\ Loaded(s)
      BY <1>2, <2>1, TimesAreIntegers DEF GapInv, CycleInv
    <3> QED BY <1>2, <2>1, <3>1, LastingBarsAreLive DEF Loaded
  <2> QED BY <2>1 DEF NoGap, Unbroken
<1> QED
  BY <1>1, <1>2, CycleInvHolds, KeysAreUnique, NextGapInv, PTL DEF Spec

-------------------------------------------------------------------------------
(* What readers may rely on: the daemon implements PublishedPairs.         *)

(* A step other than Fill leaves the store alone and adds nothing to the   *)
(* window, one other than Tick leaves the clock alone.                     *)
LEMMA StoreAndClockSteps ==
  ASSUME TypeInv, [Next]_vars
  PROVE  /\ RefreshTask(Fill) \/ (store' = store /\ inWindow' \subseteq inWindow)
         /\ Tick \/ now' = now
<1> USE DEF vars, baseVars, refreshVars
<1>1. CASE RefreshTask(RefreshNext)
  <2>1. now' = now
    BY <1>1, RefreshType DEF RefreshTask
  <2>2. RefreshTask(Fill) \/ (store' = store /\ inWindow' \subseteq inWindow)
    BY <1>1 DEF RefreshTask, RefreshNext, CycleStep, ReadCandles, ReadNoCandles, ReadFails,
                MarketWrite, MarketWriteFails, Calculate, NothingToCalculate, CalcWrite,
                CalcWriteFails, RefreshWakes, RefreshStops, RefreshPanics, CycleBegins
  <2> QED BY <2>1, <2>2
<1>2. CASE CrashAndRestart
  BY <1>2 DEF CrashAndRestart, CycleBegins
<1>3. CASE ~RefreshTask(RefreshNext) /\ ~CrashAndRestart
  BY <1>3, OtherSteps
<1> QED BY <1>1, <1>2, <1>3

(* No pair lasts longer than one built now would; the pair about to be     *)
(* written lasts as long as the one it replaces, at least.                 *)
ExpiryInv ==
  /\ \A s \in Symbols : \A r \in RowsOf(MarketKinds, s) : r.expires <= now + MarketTTL
  /\ rpc = "write" =>
       \A b \in batch :
         /\ b.expires <= now + MarketTTL
         /\ \A r \in RowsOf(MarketKinds, Head(todo)) : r.expires <= b.expires

(* The rows of a symbol after any step.                                    *)
LEMMA MarketRowSteps ==
  ASSUME CycleInv, KeysInv, [Next]_vars, NEW s \in Symbols
  PROVE  \/ RowsOf(MarketKinds, s)' = RowsOf(MarketKinds, s)
         \/ /\ rpc = "write" /\ WritesBatch /\ s = Head(todo)
            /\ RowsOf(MarketKinds, s)' = batch
         \/ /\ table' = ExpireStale(table, now)
            /\ RowsOf(MarketKinds, s)' = {r \in RowsOf(MarketKinds, s) : ~(r.expires < now)}
<1>1. MarketKinds \in SUBSET RefreshKinds
  BY DEF RefreshKinds
<1>2. CASE rpc = "write" /\ WritesBatch
  <2>1. PICK expires \in Nat :
          batch = RowsAt(MarketKinds, Head(todo), store[Head(todo)], expires)
    BY <1>2, MarketBatchRows
  <2>2. CASE s = Head(todo)
    BY <1>1, <1>2, <2>1, <2>2, BatchReplacesRows DEF WritesBatch
  <2>3. CASE s # Head(todo)
    BY <1>1, <1>2, <2>1, <2>3, BatchReplacesRows DEF WritesBatch
  <2> QED BY <2>2, <2>3
<1>3. CASE rpc = "calcwrite" /\ WritesBatch
  <2>1. PICK expires \in Nat, computed \in SUBSET Indicators :
          batch = RowsAt(computed, Head(todo), candles[Head(todo)], expires)
    BY <1>3, IndicatorBatchRows
  <2>2. MarketKinds \cap computed = {} /\ computed \in SUBSET RefreshKinds
    BY RefreshAssumption DEF RefreshKinds
  <2> QED BY <1>1, <1>3, <2>1, <2>2, BatchReplacesRows DEF WritesBatch
<1>4. CASE ~WritesBatch
  BY <1>1, <1>4, OtherStepsKeepRows
<1> QED BY <1>2, <1>3, <1>4 DEF WritesBatch

LEMMA NextExpiryInv ==
  ASSUME CycleInv, CycleInv', KeysInv, ExpiryInv, [Next]_vars
  PROVE  ExpiryInv'
<1>1. now \in Nat /\ now' \in Nat /\ MarketTTL \in Nat /\ now' >= now
  <2>1. now \in Nat /\ MarketTTL \in Nat
    BY TimesAreIntegers DEF CycleInv
  <2> QED BY <2>1, StoreAndClockSteps DEF CycleInv, Tick
<1>2. /\ \A s : \A r \in RowsOf(MarketKinds, s) : r.expires \in Nat
      /\ \A b \in batch : b.expires \in Nat
  BY TimesAreIntegers DEF CycleInv, TypeInv, TypeOK, RefreshTypeOK, RefreshRow
<1>3. ASSUME NEW s \in Symbols, NEW r \in RowsOf(MarketKinds, s)'
      PROVE  r.expires <= now' + MarketTTL
  <2>1. r \in RowsOf(MarketKinds, s) \/ (rpc = "write" /\ r \in batch)
    BY <1>3, MarketRowSteps
  <2>2. r.expires <= now + MarketTTL /\ r.expires \in Nat
    BY <2>1, <1>2 DEF ExpiryInv
  <2> QED BY <1>1, <2>2
<1>4. ASSUME rpc' = "write", NEW b \in batch'
      PROVE  /\ b.expires <= now' + MarketTTL
             /\ \A r \in RowsOf(MarketKinds, Head(todo))' : r.expires <= b.expires
  <2>1. CASE RefreshTask(RefreshNext)
    <3>1. ReadCandles
      BY <1>4, <2>1
      DEF RefreshTask, RefreshNext, CycleStep, Fill, ReadNoCandles, ReadFails, MarketWrite,
          MarketWriteFails, AfterMarketFailure, Calculate, NothingToCalculate, CalcWrite,
          CalcWriteFails, RefreshWakes, RefreshStops, RefreshPanics, NextSymbol, NextCalculation,
          CycleEnds, CycleBegins
    <3>2. /\ batch' = MarketRows(Head(todo), store[Head(todo)])
          /\ UNCHANGED <<now, table, todo>>
      BY <3>1 DEF ReadCandles, baseVars
    <3>3. b.expires = now + MarketTTL
      BY <1>4, <3>2 DEF MarketRows, CacheRow
    <3>4. Head(todo) \in Symbols
      BY <3>1, HeadIsSymbol DEF ReadCandles, CycleInv, Working
    <3>5. RowsOf(MarketKinds, Head(todo))' = RowsOf(MarketKinds, Head(todo))
      BY <3>2 DEF RowsOf
    <3> QED BY <1>1, <3>2, <3>3, <3>4, <3>5 DEF ExpiryInv
  <2>2. CASE CrashAndRestart
    BY <1>4, <2>2 DEF CrashAndRestart, CycleBegins
  <2>3. CASE ~RefreshTask(RefreshNext) /\ ~CrashAndRestart
    <3>1. UNCHANGED <<rpc, todo, batch>>
      BY <2>3, OtherSteps DEF refreshVars
    <3>2. Head(todo) \in Symbols
      BY <1>4, <3>1, HeadIsSymbol DEF CycleInv, Working
    <3>3. RowsOf(MarketKinds, Head(todo))' \subseteq RowsOf(MarketKinds, Head(todo))
      <4>1. ~WritesBatch /\ MarketKinds \in SUBSET RefreshKinds
        BY <2>3 DEF WritesBatch, RefreshKinds
      <4>2. RowsOf(MarketKinds, Head(todo))' = RowsOf(MarketKinds, Head(todo))
            \/ table' = ExpireStale(table, now)
        BY <4>1, <3>1, OtherStepsKeepRows DEF RowsOf
      <4> QED BY <3>1, <4>2 DEF RowsOf, ExpireStale
    <3>4. b \in batch /\ rpc = "write" /\ b.expires \in Nat
      BY <1>2, <1>4, <3>1
    <3> QED BY <1>1, <3>3, <3>4 DEF ExpiryInv
  <2> QED BY <2>1, <2>2, <2>3
<1> QED BY <1>3, <1>4 DEF ExpiryInv

(* No pair in the table or about to be written lasts longer than one built *)
(* now would, and the one about to be written lasts as long as the one it  *)
(* replaces, at least.                                                     *)
THEOREM ExpiriesOnlyGrow == Spec => []ExpiryInv
<1>1. Init => ExpiryInv
  BY DEF Init, BaseInit, RefreshInit, ExpiryInv, RowsOf
<1> QED BY <1>1, CycleInvHolds, KeysAreUnique, NextExpiryInv, PTL DEF Spec

(* What readers find of a symbol follows from its rows.                    *)
LEMMA PairOfBatch ==
  ASSUME NEW s, NEW gen, NEW expires,
         RowsOf(MarketKinds, s)' = RowsAt(MarketKinds, s, gen, expires)
  PROVE  MarketPair(s)' = Readers!Pair(gen, expires)
<1> DEFINE Found(r) == [kind |-> r.key[1], gen |-> r.gen, expires |-> r.expires]
<1>1. MarketPair(s)' = {Found(r) : r \in RowsAt(MarketKinds, s, gen, expires)}
  BY DEF MarketPair
<1>2. ASSUME NEW kind \in MarketKinds
      PROVE  Found(CacheRow(kind, s, gen, expires))
             = [kind |-> kind, gen |-> gen, expires |-> expires]
  BY DEF CacheRow
<1> HIDE DEF Found
<1>3. {Found(r) : r \in RowsAt(MarketKinds, s, gen, expires)}
      = {[kind |-> kind, gen |-> gen, expires |-> expires] : kind \in MarketKinds}
  <2>1. {Found(r) : r \in RowsAt(MarketKinds, s, gen, expires)}
        = {Found(CacheRow(kind, s, gen, expires)) : kind \in MarketKinds}
    BY DEF RowsAt
  <2> QED BY <1>2, <2>1
<1> QED BY <1>1, <1>3 DEF Readers!Pair, MarketKinds

LEMMA SamePair ==
  ASSUME NEW s, RowsOf(MarketKinds, s)' = RowsOf(MarketKinds, s)
  PROVE  MarketPair(s)' = MarketPair(s)
BY DEF MarketPair

(* A DELETE takes a pair whole or leaves it, as its rows expire together.  *)
LEMMA DeletedPair ==
  ASSUME CycleInv, NEW s \in Symbols, Paired(s),
         RowsOf(MarketKinds, s)' = {r \in RowsOf(MarketKinds, s) : ~(r.expires < now)}
  PROVE  \/ MarketPair(s)' = MarketPair(s)
         \/ MarketPair(s)' = {} /\ \A r \in MarketPair(s) : r.expires < now
<1>1. CASE \A r \in RowsOf(MarketKinds, s) : r.expires < now
  <2>1. RowsOf(MarketKinds, s)' = {}
    BY <1>1
  <2> QED BY <1>1, <2>1 DEF MarketPair
<1>2. CASE \E r \in RowsOf(MarketKinds, s) : ~(r.expires < now)
  <2>1. RowsOf(MarketKinds, s)' = RowsOf(MarketKinds, s)
    BY <1>2 DEF Paired
  <2> QED BY <2>1, SamePair
<1> QED BY <1>1, <1>2

(* The abstract step behind each step of the daemon.                       *)
LEMMA FillLearns ==
  ASSUME CycleInv, RefreshTask(Fill)
  PROVE  \/ UNCHANGED <<now, store, table>>
         \/ /\ Head(todo) \in Symbols
            /\ store' = [store EXCEPT ![Head(todo)] = store[Head(todo)] + 1]
            /\ UNCHANGED <<now, table>>
<1>1. Head(todo) \in Symbols /\ store \in [Symbols -> 0..MaxGen]
  BY HeadIsSymbol DEF RefreshTask, Fill, CycleInv, TypeInv, TypeOK, RefreshTypeOK, Working
<1>2. UNCHANGED <<now, table>>
  BY DEF RefreshTask, Fill, baseVars
<1> QED BY <1>1, <1>2 DEF RefreshTask, Fill

LEMMA WriteReplaces ==
  ASSUME CycleInv, KeysInv, ExpiryInv, [Next]_vars, rpc = "write", WritesBatch
  PROVE  \E s \in Symbols : Readers!Replace(s)
<1> DEFINE s == Head(todo)
           gen == store[s]
<1>1. s \in Symbols
  BY HeadIsSymbol DEF CycleInv, Working
<1>2. PICK expires \in Nat :
        /\ batch = RowsAt(MarketKinds, s, gen, expires)
        /\ gen > 0
        /\ expires >= cycleStart + MarketTTL
  BY MarketBatchRows
<1>3. UNCHANGED <<now, store>>
  <2>1. now' = now
    BY RefreshType DEF WritesBatch, RefreshTask, CycleInv
  <2>2. ~RefreshTask(Fill)
    BY DEF RefreshTask, Fill
  <2> QED BY <2>1, <2>2, StoreAndClockSteps DEF CycleInv
<1>4. expires \in (now + MarketTTL - MaxCycle)..(now + MarketTTL)
  <2>1. CacheRow("bars", s, gen, expires) \in batch
    BY <1>2 DEF RowsAt, MarketKinds
  <2>2. expires <= now + MarketTTL
    BY <2>1 DEF ExpiryInv, CacheRow
  <2>3. now <= cycleStart + MaxCycle
    BY DEF CycleInv, ClockInv, Working
  <2>4. now \in Nat /\ cycleStart \in Nat /\ MarketTTL \in Nat /\ MaxCycle \in Nat
    BY TimesAreIntegers DEF CycleInv
  <2> QED BY <1>2, <2>2, <2>3, <2>4
<1>5. \A r \in MarketPair(s) : r.expires <= expires
  <2>1. \A b \in batch : b.expires = expires
    BY <1>2, RowsAtFields
  <2>2. CacheRow("bars", s, gen, expires) \in batch
    BY <1>2 DEF RowsAt, MarketKinds
  <2>3. \A r \in RowsOf(MarketKinds, s) : r.expires <= expires
    BY <2>1, <2>2 DEF ExpiryInv
  <2> QED BY <2>3 DEF MarketPair
<1>6. ASSUME NEW x \in Symbols
      PROVE  MarketPair(x)' = IF x = s THEN Readers!Pair(gen, expires) ELSE MarketPair(x)
  <2>1. MarketKinds \in SUBSET RefreshKinds
    BY DEF RefreshKinds
  <2>2. CASE x = s
    <3>1. RowsOf(MarketKinds, x)' = RowsAt(MarketKinds, x, gen, expires)
      BY <1>2, <2>1, <2>2, BatchReplacesRows DEF WritesBatch
    <3> QED BY <2>2, <3>1, PairOfBatch
  <2>3. CASE x # s
    <3>1. RowsOf(MarketKinds, x)' = RowsOf(MarketKinds, x)
      BY <1>2, <2>1, <2>3, BatchReplacesRows DEF WritesBatch
    <3> QED BY <2>3, <3>1, SamePair
  <2> QED BY <2>2, <2>3
<1> DEFINE shown == [x \in Symbols |-> MarketPair(x)]
<1>7. shown' = [shown EXCEPT ![s] = Readers!Pair(gen, expires)]
  BY <1>1, <1>6
<1>8. \A r \in shown[s] : r.expires <= expires
  BY <1>1, <1>5
<1>9. Readers!Replace(s)
  BY <1>2, <1>3, <1>4, <1>7, <1>8 DEF Readers!Replace
<1> QED BY <1>1, <1>9

LEMMA OthersWithdraw ==
  ASSUME CycleInv, KeysInv, \A s \in Symbols : Paired(s), [Next]_vars,
         ~(rpc = "write" /\ WritesBatch), UNCHANGED <<now, store>>
  PROVE  Readers!Withdraw
<1> DEFINE gone == {s \in Symbols : MarketPair(s)' # MarketPair(s)}
<1>1. ASSUME NEW s \in gone
      PROVE  MarketPair(s)' = {} /\ \A r \in MarketPair(s) : r.expires < now
  <2>1. RowsOf(MarketKinds, s)' # RowsOf(MarketKinds, s)
    BY SamePair
  <2>2. RowsOf(MarketKinds, s)' = {r \in RowsOf(MarketKinds, s) : ~(r.expires < now)}
    BY <2>1, MarketRowSteps
  <2> QED BY <2>2, DeletedPair
<1> DEFINE shown == [s \in Symbols |-> MarketPair(s)]
<1>2. shown' = [s \in Symbols |-> IF s \in gone THEN {} ELSE shown[s]]
  BY <1>1
<1>3. \A s \in gone : \A r \in shown[s] : r.expires < now
  BY <1>1
<1>4. gone \in SUBSET Symbols
  OBVIOUS
<1> HIDE DEF gone
<1> QED BY <1>2, <1>3, <1>4 DEF Readers!Withdraw

LEMMA ReadersStep ==
  ASSUME CycleInv, KeysInv, ExpiryInv, \A s \in Symbols : Paired(s), [Next]_vars
  PROVE  [Readers!PairsNext]_(Readers!pairVars)
<1> DEFINE shown == [s \in Symbols |-> MarketPair(s)]
<1>1. table' = table => shown' = shown
  BY DEF MarketPair, RowsOf
<1>2. CASE RefreshTask(Fill)
  <2>1. CASE UNCHANGED <<now, store, table>>
    BY <1>1, <2>1 DEF Readers!pairVars
  <2>2. CASE ~UNCHANGED <<now, store, table>>
    <3>1. \E s \in Symbols : Readers!Learn(s)
      BY <1>1, <1>2, <2>2, FillLearns DEF Readers!Learn
    <3> QED BY <3>1 DEF Readers!PairsNext
  <2> QED BY <2>1, <2>2
<1>3. CASE Tick
  <2>1. now' = now + 1 /\ store' = store /\ table' = table
    BY <1>3 DEF Tick, refreshVars
  <2>2. Readers!Pass
    BY <1>1, <2>1 DEF Readers!Pass
  <2> QED BY <2>2 DEF Readers!PairsNext
<1>4. CASE rpc = "write" /\ WritesBatch
  BY <1>4, WriteReplaces DEF Readers!PairsNext
<1>5. CASE ~RefreshTask(Fill) /\ ~Tick /\ ~(rpc = "write" /\ WritesBatch)
  <2>1. UNCHANGED <<now, store>>
    BY <1>5, StoreAndClockSteps DEF CycleInv
  <2> QED BY <1>5, <2>1, OthersWithdraw DEF Readers!PairsNext
<1> QED BY <1>2, <1>3, <1>4, <1>5

(* The daemon keeps the promise of PublishedPairs for any symbols and      *)
(* lifetimes, whatever fails and whenever the process dies: a pair appears *)
(* whole, shows the candles stored when it is committed, is replaced only  *)
(* by one that lasts no shorter, and goes only when it has expired.        *)
THEOREM DaemonImplementsPairs == Spec => PairsSpec
<1>1. ASSUME Init
      PROVE  Readers!PairsInit
  <2>1. now = 0 /\ table = {}
    BY <1>1 DEF Init, BaseInit
  <2>2. store \in [Symbols -> Nat]
    BY <1>1 DEF Init, RefreshInit
  <2>3. \A s \in Symbols : MarketPair(s) = {}
    BY <2>1 DEF MarketPair, RowsOf
  <2> QED BY <2>1, <2>2, <2>3 DEF Readers!PairsInit
<1>2. BarsAgreeWithQuote => \A s \in Symbols : Paired(s)
  BY DEF BarsAgreeWithQuote, Paired
<1>3. CycleInv /\ KeysInv /\ ExpiryInv /\ BarsAgreeWithQuote /\ [Next]_vars
      => [Readers!PairsNext]_(Readers!pairVars)
  BY <1>2, ReadersStep
<1> QED
  BY <1>1, <1>3, CycleInvHolds, KeysAreUnique, ExpiriesOnlyGrow, BarsAlwaysAgreeWithQuote, PTL
  DEF Spec, PairsSpec, Readers!PairsSpec
===============================================================================
