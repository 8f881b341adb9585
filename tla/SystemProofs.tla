----------------------------- MODULE SystemProofs -----------------------------
(***************************************************************************)
(* Proofs about TirdsSystem: what the snapshot of an evaluation shows of   *)
(* the rows the loader writes.                                             *)
(***************************************************************************)
EXTENDS RefreshProofs, TirdsSystem, FiniteSetTheorems

-------------------------------------------------------------------------------
(* The loader is not disturbed by the evaluations: a step of the system is *)
(* a step of the daemon or leaves the daemon alone.                        *)

LEMMA LoaderStep == [SystemNext]_allVars => [Next]_vars
<1> SUFFICES ASSUME [SystemNext]_allVars
             PROVE  [Next]_vars
  OBVIOUS
<1>1. CASE DaemonStep
  BY <1>1 DEF DaemonStep, Next
<1>2. CASE SystemTick
  BY <1>2 DEF SystemTick, Next
<1>3. CASE LoaderCreatesFile \/ LoaderCreatesTable \/ EvaluatorStep \/ UNCHANGED allVars
  <2>1. UNCHANGED vars
    BY <1>3 DEF LoaderCreatesFile, LoaderCreatesTable, EvaluatorStep, OpensCache, TakesSnapshot,
                SnapshotRefused, Concludes, allVars
  <2> QED BY <2>1
<1> QED BY <1>1, <1>2, <1>3 DEF SystemNext

(* Whatever the loader does among evaluations is a behaviour of            *)
(* LoaderDaemon: every theorem about the daemon holds of the system.       *)
THEOREM SystemRunsTheLoader == SystemSpec => Spec
<1>1. SystemInit => Init
  BY DEF SystemInit
<1> QED BY <1>1, LoaderStep, PTL DEF SystemSpec, Spec

(* The invariants of the daemon that the proofs below use.                 *)
LoaderInv ==
  /\ CycleInv
  /\ KeysInv
  /\ IsolationInv
  /\ BarsAgreeWithQuote

(* What is known of the daemon's states is known of the system's.          *)
THEOREM LoaderInvHolds == SystemSpec => []LoaderInv
BY SystemRunsTheLoader, CycleInvHolds, KeysAreUnique, IsolationInvHolds, BarsAlwaysAgreeWithQuote,
   PTL DEF LoaderInv

(* The two steps that take the snapshot away, the one that takes it, and   *)
(* the others, none of which changes it.                                   *)
LEMMA SnapshotSteps ==
  ASSUME [SystemNext]_allVars
  PROVE  \/ TakesSnapshot
         \/ Concludes
         \/ /\ UNCHANGED <<snapshot, took, sound>>
            /\ epc' = "evaluating" => epc = "evaluating"
BY DEF SystemNext, LoaderCreatesFile, LoaderCreatesTable, DaemonStep, EvaluatorStep, OpensCache,
       SnapshotRefused, SystemTick, allVars, systemVars, evalVars

(* The rows of a kind in a snapshot are the live ones of the table.        *)
LEMMA SnapshotRows ==
  ASSUME TakesSnapshot, NEW K
  PROVE  RowsIn(snapshot, K)' =
           {[key |-> r.key, gen |-> r.gen] : r \in {q \in RowsOf(K, Proposal) : q.expires > now}}
<1>1. snapshot' = {[key |-> r.key, gen |-> r.gen] : r \in GetBySymbol(table, Proposal, now)}
  BY DEF TakesSnapshot
<1>2. GetBySymbol(table, Proposal, now) = {r \in table : r.expires > now /\ r.symbol = Proposal}
  BY DEF GetBySymbol, Live
<1>3. RowsIn(snapshot, K)' = {r \in snapshot' : r.key[1] \in K}
  BY DEF RowsIn
<1> QED BY <1>1, <1>2, <1>3 DEF RowsOf

-------------------------------------------------------------------------------
(* Types.                                                                  *)

LEMMA NextSystemType ==
  ASSUME SystemTypeOK, TypeInv, TypeInv', [SystemNext]_allVars
  PROVE  SystemTypeOK'
<1> USE DEF SystemTypeOK
<1>1. TypeOK'
  BY DEF TypeInv
<1>2. snapshot' \subseteq [key : (MarketKinds \cup Indicators) \X Symbols \cup StreamKeys, gen : Nat]
      /\ took' \in Nat
  <2>1. CASE TakesSnapshot
    <3>1. ASSUME NEW r \in table
          PROVE  [key |-> r.key, gen |-> r.gen]
                   \in [key : (MarketKinds \cup Indicators) \X Symbols \cup StreamKeys, gen : Nat]
      <4>1. r.gen \in Nat /\ (r \in RefreshRow \/ r \in StreamRow)
        BY TableRowType
      <4>2. r.key \in (MarketKinds \cup Indicators) \X Symbols \cup StreamKeys
        BY <4>1 DEF RefreshRow, StreamRow
      <4> QED BY <4>1, <4>2
    <3>2. snapshot' \subseteq {[key |-> r.key, gen |-> r.gen] : r \in table}
      BY <2>1 DEF TakesSnapshot, GetBySymbol, Live
    <3>3. took' \in Nat
      BY <2>1 DEF TakesSnapshot, TypeOK
    <3> QED BY <3>1, <3>2, <3>3
  <2>2. CASE Concludes
    BY <2>2 DEF Concludes
  <2>3. CASE UNCHANGED <<snapshot, took>>
    BY <2>3
  <2> QED BY <2>1, <2>2, <2>3, SnapshotSteps
<1>3. arrived' \in [1..MaxGen -> Nat \cup {-1}]
  <2>1. CASE DaemonStep
    BY <2>1 DEF DaemonStep, TypeOK
  <2>2. CASE ~DaemonStep
    BY <2>2 DEF SystemNext, LoaderCreatesFile, LoaderCreatesTable, EvaluatorStep, OpensCache,
                TakesSnapshot, SnapshotRefused, Concludes, SystemTick, allVars, systemVars
  <2> QED BY <2>1, <2>2
<1>4. sound' \in BOOLEAN /\ troubled' \in BOOLEAN
  <2>1. CASE DaemonStep
    BY <2>1 DEF DaemonStep, evalVars
  <2>2. CASE EvaluatorStep
    BY <2>2 DEF EvaluatorStep, OpensCache, TakesSnapshot, SnapshotRefused, Concludes
  <2>3. CASE LoaderCreatesFile \/ LoaderCreatesTable \/ SystemTick \/ UNCHANGED allVars
    BY <2>3 DEF LoaderCreatesFile, LoaderCreatesTable, SystemTick, allVars, systemVars, evalVars
  <2> QED BY <2>1, <2>2, <2>3 DEF SystemNext
<1>5. db' \in {"absent", "empty", "ready"} /\ epc' \in {"idle", "opened", "evaluating"}
  BY DEF SystemNext, LoaderCreatesFile, LoaderCreatesTable, DaemonStep, EvaluatorStep, OpensCache,
         TakesSnapshot, SnapshotRefused, Concludes, SystemTick, allVars, systemVars, evalVars
<1> QED BY <1>1, <1>2, <1>3, <1>4, <1>5

(* The state of both programs always has its type: what a snapshot holds   *)
(* are keys and data of rows the loader writes.                            *)
THEOREM SystemTypeCorrect == SystemSpec => []SystemTypeOK
<1>1. ASSUME SystemInit, TypeInv
      PROVE  SystemTypeOK
  <2>1. arrived \in [1..MaxGen -> Nat \cup {-1}]
    BY <1>1 DEF SystemInit
  <2>2. troubled \in BOOLEAN /\ sound \in BOOLEAN
    BY <1>1 DEF SystemInit
  <2> QED BY <1>1, <2>1, <2>2 DEF SystemInit, SystemTypeOK, TypeInv
<1>2. SystemTypeOK /\ TypeInv /\ TypeInv' /\ [SystemNext]_allVars => SystemTypeOK'
  BY NextSystemType
<1> QED BY <1>1, <1>2, SystemRunsTheLoader, TypesHold, PTL DEF SystemSpec

-------------------------------------------------------------------------------
(* Pairs of bars and quotes, in the snapshot.                              *)

LEMMA NextSnapshotPaired ==
  ASSUME LoaderInv, SnapshotIsPaired, [SystemNext]_allVars
  PROVE  SnapshotIsPaired'
<1>1. CASE TakesSnapshot
  <2>1. Paired(Proposal)
    BY SystemAssumption DEF LoaderInv, BarsAgreeWithQuote, Paired
  <2>2. ASSUME NEW b \in RowsIn(snapshot, MarketKinds)', NEW q \in RowsIn(snapshot, MarketKinds)'
        PROVE  b.gen = q.gen
    <3>1. PICK x \in RowsOf(MarketKinds, Proposal) : b.gen = x.gen
      BY <1>1, <2>2, SnapshotRows
    <3>2. PICK y \in RowsOf(MarketKinds, Proposal) : q.gen = y.gen
      BY <1>1, <2>2, SnapshotRows
    <3> QED BY <2>1, <3>1, <3>2 DEF Paired
  <2>3. ASSUME NEW kind \in MarketKinds, NEW other \in MarketKinds,
               RowsIn(snapshot, {kind})' # {}
        PROVE  RowsIn(snapshot, {other})' # {}
    <3>1. PICK x \in RowsOf({kind}, Proposal) : x.expires > now
      BY <1>1, <2>3, SnapshotRows
    <3>2. \E y \in RowsOf({other}, Proposal) : TRUE
      BY <2>1, <3>1 DEF Paired, MarketKinds
    <3>3. PICK y \in RowsOf({other}, Proposal) : TRUE
      BY <3>2
    <3>4. x \in RowsOf(MarketKinds, Proposal) /\ y \in RowsOf(MarketKinds, Proposal)
      BY <3>1, <3>3 DEF RowsOf
    <3>5. y.expires > now
      BY <2>1, <3>1, <3>4 DEF Paired
    <3>6. y \in {q \in RowsOf({other}, Proposal) : q.expires > now}
      BY <3>3, <3>5
    <3>7. RowsIn(snapshot, {other})' = {[key |-> r.key, gen |-> r.gen] :
                                          r \in {q \in RowsOf({other}, Proposal) : q.expires > now}}
      BY <1>1, SnapshotRows
    <3> QED BY <3>6, <3>7
  <2> QED BY <2>2, <2>3 DEF SnapshotIsPaired, MarketKinds
<1>2. CASE Concludes
  BY <1>2 DEF Concludes, SnapshotIsPaired, RowsIn
<1>3. CASE snapshot' = snapshot
  BY <1>3 DEF SnapshotIsPaired, RowsIn
<1> QED BY <1>1, <1>2, <1>3, SnapshotSteps

(* The bars and the quote a decision sees are of one refresh, and one is   *)
(* never there without the other, whatever fails and whenever the loader   *)
(* dies.                                                                   *)
THEOREM SnapshotsArePaired == SystemSpec => []SnapshotIsPaired
<1>1. SystemInit => SnapshotIsPaired
  BY DEF SystemInit, SnapshotIsPaired, RowsIn
<1> QED BY <1>1, NextSnapshotPaired, LoaderInvHolds, PTL DEF SystemSpec

-------------------------------------------------------------------------------
(* Trouble.  As long as the history notes none, no refresh of the running  *)
(* process has failed and the refresh task is there.                       *)

TroubleInv ==
  /\ ~troubled => ~faulted /\ rpc # "stopped"
  /\ ~faulted => marketFailed = {} /\ calcFailed = {}

LEMMA TroubleStays ==
  ASSUME SystemTypeOK, [SystemNext]_allVars, ~troubled'
  PROVE  /\ ~troubled
         /\ DaemonStep => ~faulted' /\ rpc' # "stopped"
<1>1. CASE DaemonStep
  BY <1>1 DEF DaemonStep
<1>2. CASE ~DaemonStep
  BY <1>2 DEF SystemNext, LoaderCreatesFile, LoaderCreatesTable, EvaluatorStep, OpensCache,
              TakesSnapshot, SnapshotRefused, Concludes, SystemTick, allVars, systemVars
<1> QED BY <1>1, <1>2

(* What the system does besides steps of the daemon's tasks.               *)
LEMMA QuietSystemSteps ==
  ASSUME [SystemNext]_allVars, ~DaemonStep
  PROVE  /\ UNCHANGED <<table, refreshVars, crashes, arrived>>
         /\ UNCHANGED vars \/ SystemTick
<1>1. CASE SystemTick
  BY <1>1 DEF SystemTick, Tick, systemVars, daemonVars
<1>2. CASE ~SystemTick
  <2>1. UNCHANGED vars /\ UNCHANGED arrived
    BY <1>2 DEF SystemNext, LoaderCreatesFile, LoaderCreatesTable, EvaluatorStep, OpensCache,
                TakesSnapshot, SnapshotRefused, Concludes, allVars, systemVars
  <2> QED BY <2>1 DEF vars, baseVars, daemonVars
<1> QED BY <1>1, <1>2

LEMMA NextFaultless ==
  ASSUME TypeInv, [Next]_vars, ~faulted => marketFailed = {} /\ calcFailed = {}, ~faulted'
  PROVE  marketFailed' = {} /\ calcFailed' = {}
<1>1. CASE RefreshTask(RefreshNext)
  <2>1. ~faulted /\ marketFailed = {} /\ calcFailed = {}
    BY <1>1, RefreshStepUnbroken DEF RefreshTask
  <2>2. CASE RefreshWakes
    BY <2>2 DEF RefreshWakes, CycleBegins
  <2>3. CASE Calculate
    BY <2>1, <2>3 DEF Calculate
  <2>4. CASE ~RefreshWakes /\ ~Calculate
    BY <1>1, <2>1, <2>4
    DEF RefreshTask, RefreshNext, CycleStep, Fill, ReadCandles, ReadNoCandles, ReadFails,
        MarketWrite, MarketWriteFails, NothingToCalculate, CalcWrite, CalcWriteFails,
        RefreshStops, RefreshPanics, refreshHistory
  <2> QED BY <2>2, <2>3, <2>4
<1>2. CASE CrashAndRestart
  BY <1>2 DEF CrashAndRestart, CycleBegins
<1>3. CASE ~RefreshTask(RefreshNext) /\ ~CrashAndRestart
  BY <1>3, OtherSteps DEF refreshVars, refreshHistory
<1> QED BY <1>1, <1>2, <1>3

(* The history notes every failure of a refresh and the end of the         *)
(* refresh task, and the sets of failed symbols are empty while nothing    *)
(* has failed.                                                             *)
THEOREM TroubleInvHolds == SystemSpec => []TroubleInv
<1>1. SystemInit => TroubleInv
  BY DEF SystemInit, Init, RefreshInit, TroubleInv
<1>2. ASSUME TroubleInv, SystemTypeOK, TypeInv, [SystemNext]_allVars
      PROVE  TroubleInv'
  <2>1. ~faulted' => marketFailed' = {} /\ calcFailed' = {}
    BY <1>2, LoaderStep, NextFaultless DEF TroubleInv
  <2>2. ASSUME ~troubled'
        PROVE  ~faulted' /\ rpc' # "stopped"
    <3>1. CASE DaemonStep
      BY <1>2, <2>2, <3>1, TroubleStays
    <3>2. CASE ~DaemonStep
      <4>1. ~troubled /\ faulted' = faulted /\ rpc' = rpc
        BY <1>2, <2>2, <3>2, TroubleStays, QuietSystemSteps DEF refreshVars, refreshHistory
      <4> QED BY <1>2, <4>1 DEF TroubleInv
    <3> QED BY <3>1, <3>2
  <2> QED BY <2>1, <2>2 DEF TroubleInv
<1> QED
  BY <1>1, <1>2, SystemTypeCorrect, SystemRunsTheLoader, TypesHold, PTL DEF SystemSpec

-------------------------------------------------------------------------------
(* Indicators and bars.  No row is ahead of the store; the store is ahead  *)
(* of the indicators by what this cycle has filled in, and by what the     *)
(* cycles that a crash cut short had.                                      *)

(* The list the task works through is the end of the configured one.       *)
SuffixInv ==
  /\ Len(todo) <= Len(SymbolList)
  /\ \A n \in DOMAIN todo : todo[n] = SymbolList[n + (Len(SymbolList) - Len(todo))]

(* How many of the listed symbols the cycle has filled.                    *)
Position ==
  CASE rpc = "fill" -> Len(SymbolList) - Len(todo)
    [] rpc \in {"read", "write"} -> Len(SymbolList) - Len(todo) + 1
    [] OTHER -> Len(SymbolList)

(* The places of the list at which it has filled the proposal's symbol.    *)
FilledUpTo(q) == {n \in DOMAIN SymbolList : SymbolList[n] = Proposal /\ n <= q}

(* How far the store can be ahead of the indicators.  As long as the       *)
(* window has no day of the symbol, nothing has been filled in for it      *)
(* since the cycle that computed them.                                     *)
AheadOf(c, q) == c * Listed + Cardinality(FilledUpTo(q))
Passed == IF Proposal \in inWindow THEN Position ELSE 0
Ahead == AheadOf(crashes, Passed)

NeverAhead == \A r \in RowsOf(RefreshKinds, Proposal) : r.gen <= store[Proposal]

Follows ==
  \A i \in RowsOf(Indicators, Proposal) :
    /\ store[Proposal] <= i.gen + Ahead
    /\ \A b \in RowsOf({"bars"}, Proposal) : i.gen <= b.gen

(* Counting the places.                                                    *)
LEMMA ListLength ==
  /\ Len(SymbolList) \in Nat
  /\ DOMAIN SymbolList = 1..Len(SymbolList)
BY RefreshAssumption

LEMMA PlacesAreFinite ==
  ASSUME NEW q
  PROVE  /\ IsFiniteSet(FilledUpTo(q))
         /\ Cardinality(FilledUpTo(q)) \in Nat
         /\ Cardinality(FilledUpTo(q)) <= Listed
         /\ Listed \in Nat
<1> DEFINE Places == {n \in DOMAIN SymbolList : SymbolList[n] = Proposal}
<1>1. IsFiniteSet(1..Len(SymbolList))
  BY ListLength, FS_Interval
<1>2. IsFiniteSet(Places)
  BY <1>1, ListLength, FS_Subset
<1>3. FilledUpTo(q) \subseteq Places
  BY DEF FilledUpTo
<1> HIDE DEF Places
<1>4. IsFiniteSet(FilledUpTo(q)) /\ Cardinality(FilledUpTo(q)) <= Cardinality(Places)
  BY <1>2, <1>3, FS_Subset
<1>5. Cardinality(FilledUpTo(q)) \in Nat /\ Cardinality(Places) \in Nat
  BY <1>2, <1>4, FS_CardinalityType
<1> QED BY <1>4, <1>5 DEF Listed, Places

LEMMA ListedType == Listed \in Nat
<1>1. Cardinality(FilledUpTo(0)) <= Listed /\ Listed \in Nat
  BY PlacesAreFinite
<1> QED BY <1>1

LEMMA MoreCrashes ==
  ASSUME NEW c \in Nat
  PROVE  /\ c * Listed \in Nat
         /\ (c + 1) * Listed = c * Listed + Listed
         /\ Listed * (1 + c) = (c + 1) * Listed
<1>1. ASSUME NEW n \in Nat
      PROVE  /\ c * n \in Nat
             /\ (c + 1) * n = c * n + n
             /\ n * (1 + c) = (c + 1) * n
  OBVIOUS
<1>2. Listed \in Nat
  BY ListedType
<1> QED BY <1>1, <1>2

LEMMA AheadType ==
  ASSUME NEW c \in Nat, NEW q
  PROVE  /\ AheadOf(c, q) \in Nat
         /\ AheadOf(c, q) <= (c + 1) * Listed
         /\ c * Listed <= AheadOf(c, q)
<1> DEFINE product == c * Listed
           next == (c + 1) * Listed
           places == Cardinality(FilledUpTo(q))
<1>1. /\ product \in Nat /\ next = product + Listed
      /\ places \in Nat /\ places <= Listed /\ Listed \in Nat
  BY MoreCrashes, PlacesAreFinite
<1>2. AheadOf(c, q) = product + places
  BY DEF AheadOf
<1> HIDE DEF product, next, places
<1>3. AheadOf(c, q) \in Nat /\ AheadOf(c, q) <= next /\ product <= AheadOf(c, q)
  BY <1>1, <1>2
<1> QED BY <1>3 DEF product, next

LEMMA FurtherAhead ==
  ASSUME NEW c \in Nat, NEW p \in Int, NEW q \in Int, p <= q
  PROVE  AheadOf(c, p) <= AheadOf(c, q)
<1> DEFINE product == c * Listed
           places == Cardinality(FilledUpTo(p))
           after == Cardinality(FilledUpTo(q))
<1>1. FilledUpTo(p) \subseteq FilledUpTo(q)
  BY ListLength DEF FilledUpTo
<1>2. places <= after
  BY <1>1, PlacesAreFinite, FS_Subset
<1>3. product \in Nat /\ places \in Nat /\ after \in Nat
  BY MoreCrashes, PlacesAreFinite
<1>4. AheadOf(c, p) = product + places /\ AheadOf(c, q) = product + after
  BY DEF AheadOf
<1> HIDE DEF product, places, after
<1> QED BY <1>2, <1>3, <1>4

LEMMA OneFillAhead ==
  ASSUME NEW c \in Nat, NEW q \in Nat, q + 1 \in DOMAIN SymbolList,
         SymbolList[q + 1] = Proposal
  PROVE  AheadOf(c, q + 1) = AheadOf(c, q) + 1
<1> DEFINE product == c * Listed
           places == Cardinality(FilledUpTo(q))
           after == Cardinality(FilledUpTo(q + 1))
<1>1. FilledUpTo(q + 1) = FilledUpTo(q) \cup {q + 1}
  BY ListLength DEF FilledUpTo
<1>2. q + 1 \notin FilledUpTo(q)
  BY DEF FilledUpTo
<1>3. after = places + 1
  BY <1>1, <1>2, PlacesAreFinite, FS_AddElement
<1>4. product \in Nat /\ places \in Nat
  BY MoreCrashes, PlacesAreFinite
<1>5. AheadOf(c, q) = product + places /\ AheadOf(c, q + 1) = product + after
  BY DEF AheadOf
<1> HIDE DEF product, places, after
<1> QED BY <1>3, <1>4, <1>5

(* Where the cycle is.  As long as it goes on, it does not go back.        *)
LEMMA PositionType ==
  ASSUME TypeInv, SuffixInv
  PROVE  /\ Position \in Nat
         /\ Position <= Len(SymbolList)
         /\ Len(todo) \in Nat
         /\ rpc \in Working => Len(todo) > 0
<1>1. todo \in Seq(Symbols) /\ (rpc \in Working => todo # <<>>)
  BY DEF TypeInv, TypeOK, RefreshTypeOK
<1>2. Len(todo) \in Nat /\ (rpc \in Working => Len(todo) > 0)
  BY <1>1
<1>3. CASE rpc = "fill"
  BY <1>2, <1>3, ListLength DEF Position, SuffixInv
<1>4. CASE rpc \in {"read", "write"}
  BY <1>2, <1>4, ListLength DEF Position, SuffixInv, Working
<1>5. CASE rpc \notin {"fill", "read", "write"}
  BY <1>2, <1>5, ListLength DEF Position
<1> QED BY <1>2, <1>3, <1>4, <1>5

Onward == Position' \in Nat /\ Position <= Position'

LEMMA SamePosition ==
  ASSUME TypeInv, SuffixInv, UNCHANGED <<rpc, todo>>
  PROVE  Onward
<1>1. Position' = Position
  BY DEF Position
<1> QED BY <1>1, PositionType DEF Onward

LEMMA NextSymbolOnward ==
  ASSUME TypeInv, SuffixInv, rpc \in {"read", "write"}, NextSymbol
  PROVE  Onward
<1>1. todo \in Seq(Symbols) /\ todo # <<>> /\ Len(todo) \in Nat
  BY DEF TypeInv, TypeOK, RefreshTypeOK, Working
<1>2. /\ Position = Len(SymbolList) - Len(todo) + 1
      /\ Position <= Len(SymbolList) /\ Position \in Nat
  BY PositionType DEF Position
<1>3. CASE Tail(todo) # <<>>
  <2>1. rpc' = "fill" /\ todo' = Tail(todo)
    BY <1>3 DEF NextSymbol
  <2>2. Len(todo') = Len(todo) - 1
    BY <1>1, <2>1
  <2>3. Position' = Len(SymbolList) - Len(todo')
    BY <2>1 DEF Position
  <2> QED BY <1>1, <1>2, <2>2, <2>3, ListLength DEF Onward
<1>4. CASE Tail(todo) = <<>>
  <2>1. rpc' = "calc"
    BY <1>4 DEF NextSymbol
  <2>2. Position' = Len(SymbolList)
    BY <2>1 DEF Position
  <2> QED BY <1>2, <2>2, ListLength DEF Onward
<1> QED BY <1>3, <1>4

LEMMA CalculationOnward ==
  ASSUME rpc \in {"calc", "calcwrite"}, rpc' \in {"calc", "calcwrite", "sleep"}
  PROVE  Onward
<1>1. Position = Len(SymbolList) /\ Position' = Len(SymbolList)
  BY DEF Position
<1> QED BY <1>1, ListLength DEF Onward

(* How a step moves the list.                                              *)
LEMMA TodoSteps ==
  ASSUME [Next]_vars
  PROVE  \/ todo' = todo
         \/ todo' = Tail(todo) /\ rpc \in Working
         \/ todo' = SymbolList
         \/ todo' = <<>>
<1>1. CASE RefreshTask(RefreshNext)
  <2>1. CASE ReadNoCandles \/ ReadFails \/ MarketWrite \/ MarketWriteFails
    BY <2>1 DEF ReadNoCandles, ReadFails, MarketWrite, MarketWriteFails, AfterMarketFailure,
                NextSymbol, Working
  <2>2. CASE NothingToCalculate \/ CalcWrite
    <3>1. NextCalculation /\ rpc \in Working
      BY <2>2 DEF NothingToCalculate, CalcWrite, Working
    <3> QED BY <3>1 DEF NextCalculation, CycleEnds
  <2>3. CASE CalcWriteFails
    BY <2>3 DEF CalcWriteFails, CycleEnds
  <2>4. CASE RefreshWakes
    BY <2>4 DEF RefreshWakes, CycleBegins
  <2>5. CASE Fill \/ ReadCandles \/ Calculate \/ RefreshStops \/ RefreshPanics
    BY <2>5 DEF Fill, ReadCandles, Calculate, RefreshStops, RefreshPanics
  <2> QED BY <1>1, <2>1, <2>2, <2>3, <2>4, <2>5 DEF RefreshTask, RefreshNext, CycleStep
<1>2. CASE CrashAndRestart
  BY <1>2 DEF CrashAndRestart, CycleBegins
<1>3. CASE ~RefreshTask(RefreshNext) /\ ~CrashAndRestart
  BY <1>3, OtherSteps DEF refreshVars
<1> QED BY <1>1, <1>2, <1>3

LEMMA NextSuffix ==
  ASSUME TypeInv, SuffixInv, [Next]_vars
  PROVE  SuffixInv'
<1> DEFINE total == Len(SymbolList)
<1>1. todo \in Seq(Symbols) /\ total \in Nat /\ Len(todo) \in Nat
  BY ListLength DEF TypeInv, TypeOK, RefreshTypeOK
<1>2. CASE todo' = todo
  BY <1>2 DEF SuffixInv
<1>3. CASE todo' = Tail(todo) /\ rpc \in Working
  <2>1. todo # <<>>
    BY <1>3 DEF TypeInv
  <2>2. /\ Len(todo) > 0 /\ Len(Tail(todo)) = Len(todo) - 1
        /\ DOMAIN todo = 1..Len(todo)
        /\ DOMAIN Tail(todo) = 1..(Len(todo) - 1)
        /\ \A n \in 1..(Len(todo) - 1) : Tail(todo)[n] = todo[n + 1]
    BY <1>1, <2>1
  <2>3. ASSUME NEW n \in 1..(Len(todo) - 1)
        PROVE  Tail(todo)[n] = SymbolList[n + (total - (Len(todo) - 1))]
    <3>1. n + 1 \in DOMAIN todo /\ Tail(todo)[n] = todo[n + 1]
      BY <1>1, <2>2
    <3>2. todo[n + 1] = SymbolList[(n + 1) + (total - Len(todo))]
      BY <3>1 DEF SuffixInv
    <3>3. (n + 1) + (total - Len(todo)) = n + (total - (Len(todo) - 1))
      BY <1>1
    <3> QED BY <3>1, <3>2, <3>3
  <2>4. Len(Tail(todo)) <= total
    BY <1>1, <2>2 DEF SuffixInv
  <2> QED BY <1>3, <2>2, <2>3, <2>4 DEF SuffixInv
<1>4. CASE todo' = SymbolList
  <2>1. \A n \in 1..total : n + (total - total) = n
    BY <1>1
  <2> QED BY <1>1, <1>4, <2>1, ListLength DEF SuffixInv
<1>5. CASE todo' = <<>>
  BY <1>1, <1>5 DEF SuffixInv
<1> QED BY <1>2, <1>3, <1>4, <1>5, TodoSteps

(* The store keeps what it has got, and only a fill adds to the window.    *)
LEMMA StoreGrows ==
  ASSUME TypeInv, [Next]_vars
  PROVE  /\ store'[Proposal] \in Nat /\ store'[Proposal] >= store[Proposal]
         /\ ~RefreshTask(Fill) => store' = store /\ inWindow' \subseteq inWindow
<1>1. /\ store \in [Symbols -> 0..MaxGen] /\ store[Proposal] \in Nat
  BY RefreshAssumption, SystemAssumption DEF TypeInv, TypeOK, RefreshTypeOK
<1>2. CASE RefreshTask(Fill)
  <2>1. Head(todo) \in Symbols
    BY <1>2, HeadIsSymbol DEF RefreshTask, Fill, Working
  <2>2. store' = store \/ store' = [store EXCEPT ![Head(todo)] = store[Head(todo)] + 1]
    BY <1>2 DEF RefreshTask, Fill
  <2>3. store'[Proposal] \in {store[Proposal], store[Proposal] + 1}
    BY <1>1, <2>1, <2>2, SystemAssumption
  <2> QED BY <1>1, <1>2, <2>3
<1>3. CASE ~RefreshTask(Fill)
  BY <1>1, <1>3, StoreAndClockSteps
<1> QED BY <1>2, <1>3

LEMMA NextNeverAhead ==
  ASSUME CycleInv, KeysInv, IsolationInv, NeverAhead, [Next]_vars
  PROVE  NeverAhead'
<1> USE SystemAssumption
<1>1. /\ store \in [Symbols -> 0..MaxGen] /\ store[Proposal] \in Nat
      /\ \A r \in RowsOf(RefreshKinds, Proposal) : r.gen \in Nat
  BY RefreshAssumption, TableRowType DEF CycleInv, TypeInv, TypeOK, RefreshTypeOK, RowsOf
<1>2. CASE WritesBatch
  <2>1. store' = store
    BY <1>2 DEF WritesBatch, RefreshTask, RefreshNext, CycleStep, Fill, ReadCandles, ReadNoCandles,
                ReadFails, MarketWrite, MarketWriteFails, Calculate, NothingToCalculate, CalcWrite,
                CalcWriteFails, RefreshWakes, RefreshStops, RefreshPanics
  <2>2. PICK kinds, gen, expires :
          /\ kinds \in SUBSET RefreshKinds
          /\ batch = RowsAt(kinds, Head(todo), gen, expires)
          /\ Head(todo) = Proposal => gen <= store[Proposal]
    <3>1. CASE rpc = "write"
      <4>1. PICK expires \in Nat :
              batch = RowsAt(MarketKinds, Head(todo), store[Head(todo)], expires)
        BY <3>1, MarketBatchRows
      <4> QED BY <1>1, <4>1 DEF RefreshKinds
    <3>2. CASE rpc = "calcwrite"
      <4>1. PICK expires \in Nat, computed \in SUBSET Indicators :
              batch = RowsAt(computed, Head(todo), candles[Head(todo)], expires)
        BY <3>2, IndicatorBatchRows
      <4>2. candles[Proposal] <= store[Proposal]
        BY DEF IsolationInv, Isolated
      <4>3. computed \in SUBSET RefreshKinds
        BY DEF RefreshKinds
      <4> QED BY <4>1, <4>2, <4>3
    <3> QED BY <1>2, <3>1, <3>2 DEF WritesBatch
  <2>3. ASSUME NEW r \in RowsOf(RefreshKinds, Proposal)'
        PROVE  r.gen <= store[Proposal]
    <3>1. r \in table' /\ r.symbol = Proposal /\ r.key[1] \in RefreshKinds
      BY <2>3 DEF RowsOf
    <3>2. CASE r \in table
      BY <3>1, <3>2 DEF NeverAhead, RowsOf
    <3>3. CASE r \in batch
      BY <2>2, <3>1, <3>3, RowsAtFields
    <3> QED BY <1>2, <3>1, <3>2, <3>3 DEF WritesBatch, UpsertBatch
  <2> QED BY <2>1, <2>3 DEF NeverAhead
<1>3. CASE ~WritesBatch
  <2>1. RowsOf(RefreshKinds, Proposal)' \subseteq RowsOf(RefreshKinds, Proposal)
    BY <1>3, OtherStepsKeepRows
  <2>2. store'[Proposal] \in Nat /\ store'[Proposal] >= store[Proposal]
    BY StoreGrows DEF CycleInv
  <2>3. \A r \in RowsOf(RefreshKinds, Proposal)' :
          r.gen \in Nat /\ r.gen <= store[Proposal]
    BY <1>1, <2>1 DEF NeverAhead
  <2> QED BY <1>1, <2>2, <2>3 DEF NeverAhead
<1> QED BY <1>2, <1>3

LEMMA OnwardAhead ==
  ASSUME TypeInv, SuffixInv, Onward, crashes \in Nat, crashes' = crashes,
         Proposal \in inWindow => Proposal \in inWindow'
  PROVE  Ahead \in Nat /\ Ahead' \in Nat /\ Ahead <= Ahead'
<1>1. Position \in Nat /\ Position' \in Nat /\ Position <= Position'
  BY PositionType DEF Onward
<1>2. Passed \in Nat /\ Passed' \in Nat /\ Passed <= Passed'
  BY <1>1 DEF Passed
<1>3. Ahead = AheadOf(crashes, Passed) /\ Ahead' = AheadOf(crashes, Passed')
  BY DEF Ahead
<1>4. \A p, q \in Nat :
        p <= q => /\ AheadOf(crashes, p) \in Nat
                  /\ AheadOf(crashes, q) \in Nat
                  /\ AheadOf(crashes, p) <= AheadOf(crashes, q)
  <2> TAKE p, q \in Nat
  <2> HAVE p <= q
  <2>1. AheadOf(crashes, p) \in Nat /\ AheadOf(crashes, q) \in Nat
    BY AheadType
  <2>2. AheadOf(crashes, p) <= AheadOf(crashes, q)
    BY FurtherAhead
  <2> QED BY <2>1, <2>2
<1> QED BY <1>2, <1>3, <1>4

(* A step that adds no row of the symbol, keeps the store and what the     *)
(* window has of the symbol, and goes on with the cycle.                   *)
LEMMA KeptFollows ==
  ASSUME TypeInv, SuffixInv, Follows, Onward,
         RowsOf(Indicators, Proposal)' \subseteq RowsOf(Indicators, Proposal),
         RowsOf({"bars"}, Proposal)' \subseteq RowsOf({"bars"}, Proposal),
         store'[Proposal] = store[Proposal],
         Proposal \in inWindow => Proposal \in inWindow',
         crashes' = crashes
  PROVE  Follows'
<1>1. /\ crashes \in Nat /\ store[Proposal] \in Nat
      /\ \A i \in RowsOf(Indicators, Proposal) : i.gen \in Nat
  BY RefreshAssumption, SystemAssumption, DaemonAssumption, TableRowType
  DEF TypeInv, TypeOK, RefreshTypeOK, RowsOf
<1>2. Ahead \in Nat /\ Ahead' \in Nat /\ Ahead <= Ahead'
  BY <1>1, OnwardAhead
<1>3. ASSUME NEW i \in RowsOf(Indicators, Proposal)'
      PROVE  store'[Proposal] <= i.gen + Ahead'
  <2>1. i.gen \in Nat /\ store[Proposal] <= i.gen + Ahead
    BY <1>1, <1>3 DEF Follows
  <2> QED BY <1>1, <1>2, <2>1
<1>4. ASSUME NEW i \in RowsOf(Indicators, Proposal)', NEW b \in RowsOf({"bars"}, Proposal)'
      PROVE  i.gen <= b.gen
  BY <1>4 DEF Follows
<1> QED BY <1>3, <1>4 DEF Follows

(* The steps of an unbroken refresh.                                       *)
LEMMA RefreshStepFollows ==
  ASSUME CycleInv, KeysInv, IsolationInv, SuffixInv, NeverAhead, Follows, RefreshNext,
         crashes' = crashes, ~faulted, ~faulted', rpc' # "stopped",
         marketFailed = {}, calcFailed = {}
  PROVE  Follows'
<1> USE SystemAssumption DEF CycleInv
<1>1. /\ crashes \in Nat /\ store[Proposal] \in Nat /\ Isolated(Proposal)
      /\ candles \in [Symbols -> 0..MaxGen] /\ store \in [Symbols -> 0..MaxGen]
      /\ \A r \in RowsOf(RefreshKinds, Proposal) : r.gen \in Nat
  BY RefreshAssumption, DaemonAssumption, TableRowType
  DEF TypeInv, TypeOK, RefreshTypeOK, RowsOf, IsolationInv
<1>2. /\ {"bars"} \in SUBSET RefreshKinds /\ {"bars"} \subseteq MarketKinds
      /\ MarketKinds \in SUBSET RefreshKinds /\ Indicators \in SUBSET RefreshKinds
      /\ Indicators \cap MarketKinds = {}
      /\ \A K \in SUBSET RefreshKinds : RowsOf(K, Proposal) \subseteq RowsOf(RefreshKinds, Proposal)
  BY RefreshAssumption DEF RefreshKinds, MarketKinds, RowsOf
<1>3. CASE MarketWrite
  <2>1. PICK expires \in Nat :
          batch = RowsAt(MarketKinds, Head(todo), store[Head(todo)], expires)
    BY <1>3, MarketBatchRows DEF MarketWrite
  <2>2. /\ table' = UpsertBatch(table, batch) /\ UNCHANGED <<store, inWindow>>
        /\ rpc = "write" /\ NextSymbol
    BY <1>3 DEF MarketWrite
  <2>3. Onward
    BY <2>2, NextSymbolOnward
  <2>4. RowsOf(Indicators, Proposal)' = RowsOf(Indicators, Proposal)
    BY <1>2, <2>1, <2>2, BatchReplacesRows
  <2>5. CASE Head(todo) = Proposal
    <3>1. RowsOf({"bars"}, Proposal)' = RowsAt({"bars"}, Proposal, store[Proposal], expires)
      BY <1>2, <2>1, <2>2, <2>5, BatchReplacesRows
    <3>2. ASSUME NEW i \in RowsOf(Indicators, Proposal)', NEW b \in RowsOf({"bars"}, Proposal)'
          PROVE  i.gen <= b.gen
      <4>1. b.gen = store[Proposal]
        BY <3>1, <3>2, RowsAtFields
      <4>2. i \in RowsOf(RefreshKinds, Proposal)
        BY <1>2, <2>4, <3>2
      <4> QED BY <4>1, <4>2 DEF NeverAhead
    <3>3. ASSUME NEW i \in RowsOf(Indicators, Proposal)'
          PROVE  store'[Proposal] <= i.gen + Ahead'
      <4>1. i.gen \in Nat /\ store[Proposal] <= i.gen + Ahead
        BY <1>1, <1>2, <2>4, <3>3 DEF Follows
      <4>2. Ahead \in Nat /\ Ahead' \in Nat /\ Ahead <= Ahead'
        BY <1>1, <2>2, <2>3, OnwardAhead
      <4> QED BY <1>1, <2>2, <4>1, <4>2
    <3> QED BY <3>2, <3>3 DEF Follows
  <2>6. CASE Head(todo) # Proposal
    <3>1. RowsOf({"bars"}, Proposal)' = RowsOf({"bars"}, Proposal)
      BY <1>2, <2>1, <2>2, <2>6, BatchReplacesRows
    <3> QED BY <2>2, <2>3, <2>4, <3>1, KeptFollows
  <2> QED BY <2>5, <2>6
<1>4. CASE CalcWrite
  <2>1. PICK expires \in Nat, computed \in SUBSET Indicators :
          /\ batch = RowsAt(computed, Head(todo), candles[Head(todo)], expires)
          /\ candles[Head(todo)] > 0
          /\ computed # Indicators => faulted
    BY <1>4, IndicatorBatchRows DEF CalcWrite
  <2>2. batch = RowsAt(Indicators, Head(todo), candles[Head(todo)], expires)
    BY <2>1
  <2>3. /\ table' = UpsertBatch(table, batch) /\ UNCHANGED <<store, inWindow>>
        /\ rpc = "calcwrite" /\ NextCalculation
    BY <1>4 DEF CalcWrite
  <2>4. Onward /\ MarketDone(Proposal)
    <3>1. rpc' \in {"calc", "sleep"}
      BY <2>3, NextCalculationDone
    <3> QED BY <2>3, <3>1, CalculationOnward DEF MarketDone
  <2>5. RowsOf({"bars"}, Proposal)' = RowsOf({"bars"}, Proposal)
    <3>1. {"bars"} \cap Indicators = {}
      BY <1>2
    <3> QED BY <1>2, <2>2, <2>3, <3>1, BatchReplacesRows
  <2>6. CASE Head(todo) = Proposal
    <3>1. candles[Proposal] = store[Proposal]
          /\ \A b \in RowsOf({"bars"}, Proposal) : b.gen = store[Proposal]
      <4>1. RowsOf({"bars"}, Proposal) \subseteq RowsOf(MarketKinds, Proposal)
        BY <1>2 DEF RowsOf
      <4> QED BY <1>1, <2>1, <2>4, <2>6, <4>1 DEF Isolated
    <3>2. RowsOf(Indicators, Proposal)' = RowsAt(Indicators, Proposal, store[Proposal], expires)
      BY <1>2, <2>2, <2>3, <2>6, <3>1, BatchReplacesRows
    <3>3. \A i \in RowsOf(Indicators, Proposal)' : i.gen = store[Proposal]
      BY <3>2, RowsAtFields
    <3>4. Ahead' \in Nat
      BY <1>1, AheadType DEF Ahead
    <3> QED BY <1>1, <2>3, <2>5, <3>1, <3>3, <3>4 DEF Follows
  <2>7. CASE Head(todo) # Proposal
    <3>1. RowsOf(Indicators, Proposal)' = RowsOf(Indicators, Proposal)
      BY <1>2, <2>2, <2>3, <2>7, BatchReplacesRows
    <3> QED BY <2>3, <2>4, <2>5, <3>1, KeptFollows
  <2> QED BY <2>6, <2>7
<1>5. ASSUME table' = table
      PROVE  /\ RowsOf(Indicators, Proposal)' = RowsOf(Indicators, Proposal)
             /\ RowsOf({"bars"}, Proposal)' = RowsOf({"bars"}, Proposal)
  BY <1>5 DEF RowsOf
<1>6. CASE Fill
  <2>1. /\ table' = table /\ todo' = todo /\ rpc = "fill" /\ rpc' = "read"
        /\ Head(todo) \in Symbols
    BY <1>6, HeadIsSymbol DEF Fill, baseVars, Working
  <2>2. Position \in Nat /\ Position' = Position + 1
    <3>1. Position = Len(SymbolList) - Len(todo) /\ Position' = Len(SymbolList) - Len(todo) + 1
      BY <2>1 DEF Position
    <3> QED BY <3>1, PositionType, ListLength
  <2>3. CASE Head(todo) = Proposal
    <3>1. Position + 1 \in DOMAIN SymbolList /\ SymbolList[Position + 1] = Proposal
      <4>1. todo \in Seq(Symbols) /\ Len(todo) \in Nat /\ Len(todo) > 0
        BY <2>1, PositionType DEF TypeInv, TypeOK, RefreshTypeOK, Working
      <4>2. 1 \in DOMAIN todo /\ todo[1] = Proposal
        BY <2>3, <4>1
      <4>3. Position + 1 = 1 + (Len(SymbolList) - Len(todo))
        BY <2>1, <4>1, ListLength DEF Position
      <4>4. Position + 1 \in 1..Len(SymbolList)
        BY <2>2, <4>1, <4>3, ListLength
      <4> QED BY <4>2, <4>3, <4>4, ListLength DEF SuffixInv
    <3>2. CASE UNCHANGED <<store, inWindow>>
      <4>1. Onward
        BY <2>2 DEF Onward
      <4> QED BY <1>5, <2>1, <3>2, <4>1, KeptFollows
    <3>3. CASE /\ store' = [store EXCEPT ![Proposal] = store[Proposal] + 1]
               /\ inWindow' = inWindow \cup {Proposal}
      <4>1. AheadOf(crashes, Position + 1) = AheadOf(crashes, Position) + 1
        BY <1>1, <2>2, <3>1, OneFillAhead
      <4>2. Ahead' = AheadOf(crashes, Position + 1)
        BY <2>2, <3>3 DEF Ahead, Passed
      <4>3. Passed \in Nat /\ Passed <= Position
        BY <2>2 DEF Passed
      <4>4. /\ Ahead \in Nat /\ AheadOf(crashes, Position) \in Nat
            /\ Ahead <= AheadOf(crashes, Position)
        <5>1. AheadOf(crashes, Passed) \in Nat /\ AheadOf(crashes, Position) \in Nat
          BY <1>1, <2>2, <4>3, AheadType
        <5>2. AheadOf(crashes, Passed) <= AheadOf(crashes, Position)
          BY <1>1, <2>2, <4>3, FurtherAhead
        <5> QED BY <5>1, <5>2 DEF Ahead
      <4>5. store'[Proposal] = store[Proposal] + 1
        BY <1>1, <3>3
      <4>6. ASSUME NEW i \in RowsOf(Indicators, Proposal)
            PROVE  store'[Proposal] <= i.gen + Ahead'
        <5>1. i.gen \in Nat /\ store[Proposal] <= i.gen + Ahead
          BY <1>1, <1>2, <4>6 DEF Follows
        <5> QED BY <1>1, <4>1, <4>2, <4>4, <4>5, <5>1
      <4> QED BY <1>5, <2>1, <4>6 DEF Follows
    <3> QED BY <1>6, <2>3, <3>2, <3>3 DEF Fill
  <2>4. CASE Head(todo) # Proposal
    <3>1. store'[Proposal] = store[Proposal] /\ (Proposal \in inWindow => Proposal \in inWindow')
      BY <1>1, <1>6, <2>1, <2>4 DEF Fill
    <3>2. Onward
      BY <2>2 DEF Onward
    <3> QED BY <1>5, <2>1, <3>1, <3>2, KeptFollows
  <2> QED BY <2>3, <2>4
<1>7. CASE ReadCandles \/ Calculate
  <2>1. /\ UNCHANGED <<table, store, inWindow, todo>>
        /\ \/ rpc = "read" /\ rpc' = "write"
           \/ rpc = "calc" /\ rpc' = "calcwrite"
    BY <1>7 DEF ReadCandles, Calculate, baseVars
  <2>2. Onward
    <3>1. Position' = Position
      BY <2>1 DEF Position
    <3> QED BY <3>1, PositionType DEF Onward
  <2> QED BY <1>5, <2>1, <2>2, KeptFollows
<1>8. CASE ReadNoCandles
  <2>1. UNCHANGED <<table, store, inWindow>> /\ rpc = "read" /\ NextSymbol
    BY <1>8 DEF ReadNoCandles, baseVars
  <2> QED BY <1>5, <2>1, NextSymbolOnward, KeptFollows
<1>9. CASE NothingToCalculate
  <2>1. UNCHANGED <<table, store, inWindow>> /\ rpc = "calc" /\ NextCalculation
    BY <1>9 DEF NothingToCalculate, baseVars
  <2>2. Onward
    <3>1. rpc' \in {"calc", "sleep"}
      BY <2>1, NextCalculationDone
    <3> QED BY <2>1, <3>1, CalculationOnward
  <2> QED BY <1>5, <2>1, <2>2, KeptFollows
<1>10. CASE RefreshWakes
  <2>1. UNCHANGED <<table, store>> /\ rpc = "sleep" /\ inWindow' \subseteq inWindow
    BY <1>10 DEF RefreshWakes, CycleBegins, baseVars
  <2>2. Ahead \in Nat /\ Ahead' \in Nat
    BY <1>1, AheadType DEF Ahead
  <2>3. ASSUME NEW i \in RowsOf(Indicators, Proposal)
        PROVE  store[Proposal] <= i.gen + Ahead'
    <3>1. i.gen \in Nat /\ store[Proposal] <= i.gen + Ahead
      BY <1>1, <1>2, <2>3 DEF Follows
    <3>2. CASE Proposal \in inWindow
      <4>1. i.gen = store[Proposal]
        BY <1>1, <2>1, <2>3, <3>2 DEF Isolated, CalcDone
      <4> QED BY <2>2, <3>1, <4>1
    <3>3. CASE Proposal \notin inWindow
      <4>1. Ahead' = Ahead
        BY <2>1, <3>3 DEF Ahead, Passed
      <4> QED BY <3>1, <4>1
    <3> QED BY <3>2, <3>3
  <2>4. \A b \in RowsOf({"bars"}, Proposal), i \in RowsOf(Indicators, Proposal) : i.gen <= b.gen
    BY DEF Follows
  <2> QED BY <1>5, <2>1, <2>3, <2>4 DEF Follows
<1>11. ~(ReadFails \/ MarketWriteFails \/ CalcWriteFails \/ RefreshStops \/ RefreshPanics)
  BY DEF ReadFails, MarketWriteFails, CalcWriteFails, RefreshStops, RefreshPanics
<1> QED
  BY <1>3, <1>4, <1>6, <1>7, <1>8, <1>9, <1>10, <1>11 DEF RefreshNext, CycleStep

(* The steps of the other tasks and those of the whole process: a crash    *)
(* forgets what the cycle has filled in, and is counted.                   *)
LEMMA OtherStepFollows ==
  ASSUME CycleInv, SuffixInv, Follows, [Next]_vars, ~RefreshTask(RefreshNext)
  PROVE  Follows'
<1> USE SystemAssumption DEF CycleInv
<1>1. CASE CrashAndRestart
  <2>1. UNCHANGED <<table, store>> /\ crashes' = crashes + 1
    BY <1>1 DEF CrashAndRestart
  <2>2. /\ RowsOf(Indicators, Proposal)' = RowsOf(Indicators, Proposal)
        /\ RowsOf({"bars"}, Proposal)' = RowsOf({"bars"}, Proposal)
    BY <2>1 DEF RowsOf
  <2>3. crashes \in Nat /\ store[Proposal] \in Nat
        /\ \A i \in RowsOf(Indicators, Proposal) : i.gen \in Nat
    <3>1. crashes \in Nat /\ store[Proposal] \in Nat
      BY RefreshAssumption, DaemonAssumption DEF TypeInv, TypeOK, RefreshTypeOK
    <3>2. \A i \in RowsOf(Indicators, Proposal) : i.gen \in Nat
      BY TableRowType DEF RowsOf
    <3> QED BY <3>1, <3>2
  <2>4. Ahead \in Nat /\ Ahead' \in Nat /\ Ahead <= Ahead'
    <3>1. crashes' * Listed = (crashes + 1) * Listed
      BY <2>1
    <3>2. crashes' \in Nat
      BY <2>1, <2>3
    <3>3. /\ Ahead \in Nat /\ Ahead <= (crashes + 1) * Listed
          /\ Ahead' \in Nat /\ crashes' * Listed <= Ahead'
          /\ (crashes + 1) * Listed \in Nat
      BY <2>1, <2>3, <3>2, AheadType, MoreCrashes DEF Ahead
    <3> DEFINE product == (crashes + 1) * Listed
    <3>4. Ahead <= product /\ product <= Ahead' /\ product \in Nat
      BY <3>1, <3>3
    <3> HIDE DEF product
    <3> QED BY <3>3, <3>4
  <2>5. ASSUME NEW i \in RowsOf(Indicators, Proposal)'
        PROVE  store'[Proposal] <= i.gen + Ahead'
    <3>1. i.gen \in Nat /\ store[Proposal] <= i.gen + Ahead
      BY <2>2, <2>3, <2>5 DEF Follows
    <3> QED BY <2>1, <2>3, <2>4, <3>1
  <2> QED BY <2>2, <2>5 DEF Follows
<1>2. CASE ~CrashAndRestart
  <2>1. UNCHANGED <<rpc, todo, store, inWindow>>
    BY <1>2, OtherSteps DEF refreshVars
  <2>2. crashes' = crashes
    BY <1>2 DEF Next, StreamTask, CleanupTask, CtrlC, Return, Tick, vars, daemonVars
  <2>3. Onward
    BY <2>1, SamePosition
  <2>4. ASSUME NEW K \in SUBSET RefreshKinds
        PROVE  RowsOf(K, Proposal)' \subseteq RowsOf(K, Proposal)
    BY OtherStepsKeepRows DEF WritesBatch
  <2> QED BY <2>1, <2>2, <2>3, <2>4, KeptFollows DEF RefreshKinds, MarketKinds
<1> QED BY <1>1, <1>2

LEMMA CrashesAreCounted ==
  ASSUME [SystemNext]_allVars
  PROVE  crashes' = crashes \/ (CrashAndRestart /\ crashes' = crashes + 1)
<1>1. [Next]_vars
  BY LoaderStep
<1>2. CASE CrashAndRestart
  BY <1>2 DEF CrashAndRestart
<1>3. CASE ~CrashAndRestart
  BY <1>1, <1>3 DEF Next, RefreshTask, StreamTask, CleanupTask, CtrlC, Return, Tick, vars, daemonVars
<1> QED BY <1>2, <1>3

FollowInv ==
  /\ SuffixInv
  /\ NeverAhead
  /\ ~troubled => Follows

LEMMA NextFollowInv ==
  ASSUME LoaderInv, SystemTypeOK, TroubleInv, FollowInv, [SystemNext]_allVars
  PROVE  FollowInv'
<1> USE DEF LoaderInv, FollowInv
<1>1. [Next]_vars
  BY LoaderStep
<1>2. SuffixInv'
  BY <1>1, NextSuffix DEF CycleInv
<1>3. NeverAhead'
  BY <1>1, NextNeverAhead
<1>4. ASSUME ~troubled'
      PROVE  Follows'
  <2>1. ~troubled /\ (DaemonStep => ~faulted' /\ rpc' # "stopped")
    BY <1>4, TroubleStays
  <2>2. ~faulted /\ marketFailed = {} /\ calcFailed = {}
    BY <2>1 DEF TroubleInv
  <2>3. CASE RefreshTask(RefreshNext)
    <3>1. RefreshNext /\ crashes' = crashes
      BY <2>3 DEF RefreshTask
    <3>2. ~faulted' /\ rpc' # "stopped"
      <4>1. CASE DaemonStep
        BY <2>1, <4>1
      <4>2. CASE ~DaemonStep
        BY <2>1, <2>2, <4>2, QuietSystemSteps DEF refreshVars, refreshHistory, TroubleInv
      <4> QED BY <4>1, <4>2
    <3> QED BY <2>1, <2>2, <3>1, <3>2, RefreshStepFollows
  <2>4. CASE ~RefreshTask(RefreshNext)
    BY <1>1, <2>1, <2>4, OtherStepFollows
  <2> QED BY <2>3, <2>4
<1> QED BY <1>2, <1>3, <1>4

(* In every reachable state no row is ahead of the store; while nothing    *)
(* fails the indicators are no newer than the bars, and behind the store   *)
(* by what this cycle has filled in and one cycle more for every crash at  *)
(* most, however often the configuration lists the symbol.                 *)
THEOREM FollowInvHolds == SystemSpec => []FollowInv
<1>1. SystemInit => FollowInv
  <2> SUFFICES ASSUME SystemInit
               PROVE  FollowInv
    OBVIOUS
  <2>1. todo = SymbolList /\ table = {}
    BY DEF SystemInit, Init, BaseInit, RefreshInit
  <2>2. SuffixInv
    <3>1. \A n \in 1..Len(SymbolList) : n + (Len(SymbolList) - Len(SymbolList)) = n
      BY ListLength
    <3> QED BY <2>1, <3>1, ListLength DEF SuffixInv
  <2> QED BY <2>1, <2>2 DEF FollowInv, NeverAhead, Follows, RowsOf
<1>2. LoaderInv /\ SystemTypeOK /\ TroubleInv /\ FollowInv /\ [SystemNext]_allVars => FollowInv'
  BY NextFollowInv
<1> QED
  BY <1>1, <1>2, LoaderInvHolds, SystemTypeCorrect, TroubleInvHolds, PTL DEF SystemSpec

LEMMA NextSnapshotFollows ==
  ASSUME LoaderInv, SystemTypeOK, FollowInv, IndicatorsFollowBars, [SystemNext]_allVars
  PROVE  IndicatorsFollowBars'
<1> SUFFICES ASSUME epc' = "evaluating", sound',
                    NEW b \in RowsIn(snapshot, {"bars"})', NEW i \in RowsIn(snapshot, Indicators)'
             PROVE  i.gen <= b.gen /\ b.gen <= i.gen + Listed * (1 + crashes')
  BY DEF IndicatorsFollowBars
<1> DEFINE bound == (crashes + 1) * Listed
           after == (crashes' + 1) * Listed
<1>1. crashes \in Nat /\ bound \in Nat
  <2>1. crashes \in Nat
    BY DaemonAssumption DEF LoaderInv, CycleInv, TypeInv, TypeOK
  <2>2. crashes + 1 \in Nat
    BY <2>1
  <2> QED BY <2>1, <2>2, MoreCrashes
<1>2. bound = Listed * (1 + crashes) /\ after = Listed * (1 + crashes')
  <2>1. crashes' \in Nat
    BY <1>1, CrashesAreCounted
  <2> QED BY <1>1, <2>1, MoreCrashes
<1>3. after \in Nat /\ bound <= after
  <2>1. CASE crashes' = crashes
    BY <1>1, <2>1
  <2>2. CASE crashes' = crashes + 1
    <3>1. after = bound + Listed /\ Listed \in Nat
      <4>1. (crashes + 1) + 1 \in Nat /\ crashes + 1 \in Nat
        BY <1>1
      <4>2. ((crashes + 1) + 1) * Listed = (crashes + 1) * Listed + Listed
        BY <4>1, MoreCrashes
      <4> QED BY <2>2, <4>2, ListedType
    <3> HIDE DEF bound, after
    <3> QED BY <1>1, <3>1
  <2> QED BY <2>1, <2>2, CrashesAreCounted
<1> HIDE DEF bound, after
<1>4. CASE TakesSnapshot
  <2>1. PICK x \in RowsOf({"bars"}, Proposal) : b.gen = x.gen
    BY <1>4, SnapshotRows
  <2>2. PICK y \in RowsOf(Indicators, Proposal) : i.gen = y.gen
    BY <1>4, SnapshotRows
  <2>3. ~troubled
    BY <1>4 DEF TakesSnapshot
  <2>4. Follows
    BY <2>3 DEF FollowInv
  <2>5. x.gen \in Nat /\ y.gen \in Nat /\ store[Proposal] \in Nat
    BY RefreshAssumption, SystemAssumption, TableRowType
    DEF LoaderInv, CycleInv, TypeInv, TypeOK, RefreshTypeOK, RowsOf
  <2>6. y.gen <= x.gen /\ store[Proposal] <= y.gen + Ahead
    BY <2>1, <2>2, <2>4 DEF Follows
  <2>7. x.gen <= store[Proposal]
    <3>1. x \in RowsOf(RefreshKinds, Proposal)
      BY <2>1 DEF RowsOf, RefreshKinds, MarketKinds
    <3> QED BY <3>1 DEF FollowInv, NeverAhead
  <2>8. Ahead \in Nat /\ Ahead <= bound
    BY <1>1, AheadType DEF Ahead, bound
  <2>9. b.gen <= i.gen + after
    BY <1>1, <1>3, <2>1, <2>2, <2>5, <2>6, <2>7, <2>8
  <2> QED BY <1>2, <2>1, <2>2, <2>6, <2>9
<1>5. CASE Concludes
  BY <1>5 DEF Concludes
<1>6. CASE UNCHANGED <<snapshot, took, sound>> /\ (epc' = "evaluating" => epc = "evaluating")
  <2>1. b \in RowsIn(snapshot, {"bars"}) /\ i \in RowsIn(snapshot, Indicators)
    BY <1>6 DEF RowsIn
  <2>2. i.gen <= b.gen /\ b.gen <= i.gen + bound
    BY <1>2, <1>6, <2>1 DEF IndicatorsFollowBars
  <2>3. b.gen \in Nat /\ i.gen \in Nat
    BY <2>1 DEF SystemTypeOK, RowsIn
  <2>4. b.gen <= i.gen + after
    BY <1>1, <1>3, <2>2, <2>3
  <2> QED BY <1>2, <2>2, <2>4
<1> QED BY <1>4, <1>5, <1>6, SnapshotSteps

(* While nothing fails, the indicators a decision sees are never ahead of  *)
(* the bars it sees, and behind them by one cycle's fills and one more     *)
(* cycle's for every crash at most, for any list of symbols.               *)
THEOREM IndicatorsAlwaysFollowBars == SystemSpec => []IndicatorsFollowBars
<1>1. SystemInit => IndicatorsFollowBars
  BY DEF SystemInit, IndicatorsFollowBars
<1>2. LoaderInv /\ SystemTypeOK /\ FollowInv /\ IndicatorsFollowBars /\ [SystemNext]_allVars
      => IndicatorsFollowBars'
  BY NextSnapshotFollows
<1> QED
  BY <1>1, <1>2, LoaderInvHolds, SystemTypeCorrect, FollowInvHolds, PTL DEF SystemSpec

-------------------------------------------------------------------------------
(* Fresh decisions.  Candles the store has got, of a symbol the window has *)
(* days of, wait for the cycle to pass the symbol, or are shown by bars    *)
(* that last into the next cycle; every crash may delay both by a cycle.   *)

Delay == crashes * MaxCycle

LongLived == MarketTTL > Interval + (2 + crashes) * MaxCycle

Arrived(g) == arrived[g] # -1

Waiting(g) ==
  /\ rpc \in {"fill", "read", "write"}
  /\ Proposal \in Pending
  /\ cycleStart <= arrived[g] + Delay

BarsHold(r) ==
  r.expires + (IF MarketDone(Proposal) THEN 0 ELSE Interval + MaxCycle + Delay)
    >= cycleStart + MarketTTL

Shown(g) == \E r \in RowsOf({"bars"}, Proposal) : r.gen >= g /\ BarsHold(r)

ArrivedInv ==
  \A g \in 1..MaxGen :
    /\ Arrived(g) <=> Held(g)
    /\ Arrived(g) => arrived[g] \in Nat /\ arrived[g] <= now

FreshInv ==
  ~troubled /\ LongLived => \A g \in 1..MaxGen : Arrived(g) => Waiting(g) \/ Shown(g)

(* The only product among the times: what a crash adds to it.              *)
LEMMA Delays ==
  ASSUME TypeInv
  PROVE  /\ Delay \in Nat
         /\ LongLived <=> MarketTTL > Interval + 2 * MaxCycle + Delay
         /\ (1 + crashes) * MaxCycle = MaxCycle + Delay
         /\ crashes' = crashes => Delay' = Delay /\ (LongLived' <=> LongLived)
         /\ crashes' = crashes + 1 => Delay' = Delay + MaxCycle /\ (LongLived' => LongLived)
<1>1. crashes \in Nat /\ MaxCycle \in Nat /\ Interval \in Nat /\ MarketTTL \in Nat
  BY RefreshAssumption, DaemonAssumption DEF TypeInv, TypeOK
<1>2. ASSUME NEW c \in Nat, NEW m \in Nat
      PROVE  /\ c * m \in Nat
             /\ (1 + c) * m = m + c * m
             /\ (2 + c) * m = 2 * m + c * m
             /\ (c + 1) * m = c * m + m
  OBVIOUS
<1>3. Delay \in Nat /\ (1 + crashes) * MaxCycle = MaxCycle + Delay
      /\ (2 + crashes) * MaxCycle = 2 * MaxCycle + Delay
      /\ (crashes + 1) * MaxCycle = Delay + MaxCycle
  BY <1>1, <1>2 DEF Delay
<1>4. LongLived <=> MarketTTL > Interval + 2 * MaxCycle + Delay
  BY <1>1, <1>3 DEF LongLived
<1>5. crashes' = crashes => Delay' = Delay /\ (LongLived' <=> LongLived)
  BY DEF Delay, LongLived
<1>6. ASSUME crashes' = crashes + 1
      PROVE  Delay' = Delay + MaxCycle /\ (LongLived' => LongLived)
  <2>1. Delay' = Delay + MaxCycle
    BY <1>3, <1>6 DEF Delay
  <2>2. (2 + crashes') * MaxCycle = 2 * MaxCycle + (Delay + MaxCycle)
    <3>1. crashes' \in Nat /\ crashes' * MaxCycle = Delay + MaxCycle
      BY <1>1, <1>3, <1>6
    <3> QED BY <1>1, <1>2, <3>1
  <2> QED BY <1>1, <1>3, <1>4, <2>1, <2>2 DEF LongLived
<1> QED BY <1>3, <1>4, <1>5, <1>6

LEMMA FreshTypes ==
  ASSUME TypeInv
  PROVE  /\ now \in Nat /\ cycleStart \in Nat /\ wake \in Nat /\ Delay \in Nat
         /\ MarketTTL \in Nat /\ Interval \in Nat /\ MaxCycle \in Nat /\ MaxGen \in Nat
         /\ store[Proposal] \in 0..MaxGen
         /\ \A r \in RowsOf({"bars"}, Proposal) : r.expires \in Nat /\ r.gen \in Nat
<1>1. \A r \in RowsOf({"bars"}, Proposal) : r.expires \in Nat /\ r.gen \in Nat
  BY TableRowType DEF RowsOf
<1>2. store[Proposal] \in 0..MaxGen
  BY SystemAssumption DEF TypeInv, TypeOK, RefreshTypeOK
<1> QED BY <1>1, <1>2, TimesAreIntegers, Delays, RefreshAssumption

(* Bars that hold have not expired.                                        *)
LEMMA HoldingBarsAreLive ==
  ASSUME CycleInv, LongLived, rpc # "stopped",
         NEW r \in RowsOf({"bars"}, Proposal), BarsHold(r)
  PROVE  r.expires > now
<1>1. /\ now \in Nat /\ cycleStart \in Nat /\ wake \in Nat /\ r.expires \in Nat
      /\ MarketTTL \in Nat /\ Interval \in Nat /\ MaxCycle \in Nat /\ Delay \in Nat
      /\ MarketTTL > Interval + 2 * MaxCycle + Delay
  BY FreshTypes, Delays DEF CycleInv
<1>2. CASE rpc \in Working
  <2>1. now <= cycleStart + MaxCycle
    BY <1>2 DEF CycleInv, ClockInv
  <2>2. r.expires + (Interval + MaxCycle + Delay) >= cycleStart + MarketTTL
    BY <1>1 DEF BarsHold
  <2> QED BY <1>1, <2>1, <2>2
<1>3. CASE rpc = "sleep"
  <2>1. now <= cycleStart + MaxCycle + Interval
    BY <1>1, <1>3 DEF CycleInv, ClockInv
  <2>2. r.expires >= cycleStart + MarketTTL
    BY <1>1, <1>3 DEF BarsHold, MarketDone
  <2> QED BY <1>1, <2>1, <2>2
<1> QED BY <1>2, <1>3 DEF CycleInv, TypeInv, TypeOK, RefreshTypeOK

(* When bars were shown at the last cycle's time, they are at the next's,  *)
(* whether it begins by the timer or after a crash.                        *)
LEMMA NextCycleShows ==
  ASSUME CycleInv, rpc # "stopped", CycleBegins(now),
         NEW g \in 1..MaxGen, Shown(g),
         table' = table,
         \/ crashes' = crashes /\ rpc = "sleep"
         \/ crashes' = crashes + 1
  PROVE  Shown(g)'
<1>1. PICK r \in RowsOf({"bars"}, Proposal) : r.gen >= g /\ BarsHold(r)
  BY DEF Shown
<1>2. /\ now \in Nat /\ cycleStart \in Nat /\ wake \in Nat /\ r.expires \in Nat
      /\ MarketTTL \in Nat /\ Interval \in Nat /\ MaxCycle \in Nat /\ Delay \in Nat
  BY FreshTypes DEF CycleInv
<1>3. ~MarketDone(Proposal)' /\ cycleStart' = now
  BY CycleBeginsDone, SystemAssumption DEF CycleBegins
<1>4. CASE rpc = "sleep"
  <2>1. now <= cycleStart + MaxCycle + Interval
    BY <1>2, <1>4 DEF CycleInv, ClockInv
  <2>2. r.expires >= cycleStart + MarketTTL
    BY <1>1, <1>2, <1>4 DEF BarsHold, MarketDone
  <2>3. Delay' \in Nat
    BY <1>2, Delays DEF CycleInv
  <2>4. r.expires + (Interval + MaxCycle + Delay') >= now + MarketTTL
    BY <1>2, <2>1, <2>2, <2>3
  <2>5. BarsHold(r)'
    BY <1>3, <2>4 DEF BarsHold
  <2>6. r \in RowsOf({"bars"}, Proposal)'
    BY DEF RowsOf
  <2> QED BY <1>1, <2>5, <2>6 DEF Shown
<1>5. CASE rpc # "sleep"
  <2>1. rpc \in Working /\ now <= cycleStart + MaxCycle
    BY <1>5 DEF CycleInv, ClockInv, TypeInv, TypeOK, RefreshTypeOK
  <2>2. r.expires + (Interval + MaxCycle + Delay) >= cycleStart + MarketTTL
    BY <1>1, <1>2 DEF BarsHold
  <2>3. Delay' = Delay + MaxCycle
    BY <1>5, Delays DEF CycleInv
  <2>4. r.expires + (Interval + MaxCycle + Delay') >= now + MarketTTL
    BY <1>2, <2>1, <2>2, <2>3
  <2>5. BarsHold(r)'
    BY <1>3, <2>4 DEF BarsHold
  <2>6. r \in RowsOf({"bars"}, Proposal)'
    BY DEF RowsOf
  <2> QED BY <1>1, <2>5, <2>6 DEF Shown
<1> QED BY <1>4, <1>5

(* A step that keeps the bars, the cycle and its pass over the symbol.     *)
LEMMA KeptShown ==
  ASSUME TypeInv, NEW g \in 1..MaxGen, Shown(g),
         RowsOf({"bars"}, Proposal)' = RowsOf({"bars"}, Proposal),
         cycleStart' = cycleStart, crashes' = crashes,
         MarketDone(Proposal)' => MarketDone(Proposal)
  PROVE  Shown(g)'
<1>1. PICK r \in RowsOf({"bars"}, Proposal) : r.gen >= g /\ BarsHold(r)
  BY DEF Shown
<1>2. /\ cycleStart \in Nat /\ r.expires \in Nat /\ Delay \in Nat
      /\ MarketTTL \in Nat /\ Interval \in Nat /\ MaxCycle \in Nat
  BY FreshTypes
<1>3. Delay' = Delay
  BY Delays
<1>4. BarsHold(r)'
  BY <1>1, <1>2, <1>3 DEF BarsHold
<1> QED BY <1>1, <1>4 DEF Shown

(* A step that keeps the list, the cycle and the phase.                    *)
LEMMA KeptWaiting ==
  ASSUME TypeInv, NEW g \in 1..MaxGen, Waiting(g), arrived'[g] = arrived[g],
         UNCHANGED <<todo, cycleStart, crashes>>, rpc' \in {"fill", "read", "write"}
  PROVE  Waiting(g)'
<1>1. Delay' = Delay
  BY Delays
<1> QED BY <1>1 DEF Waiting, Pending

LEMMA NextSymbolWaits ==
  ASSUME TypeInv, NEW g \in 1..MaxGen, Waiting(g), arrived'[g] = arrived[g],
         UNCHANGED <<cycleStart, crashes>>,
         rpc \in {"read", "write"}, NextSymbol, Head(todo) # Proposal
  PROVE  Waiting(g)'
<1>1. Delay' = Delay
  BY Delays
<1>2. Tail(todo) # <<>>
  BY PendingOfTail DEF Waiting, Working
<1>3. rpc' = "fill" /\ todo' = Tail(todo)
  BY <1>2 DEF NextSymbol
<1>4. Proposal \in Pending'
  BY <1>3, PendingOfTail DEF Waiting, Working
<1> QED BY <1>1, <1>3, <1>4 DEF Waiting

(* The steps of an unbroken refresh: candles that just came wait, those    *)
(* that wait are shown by the write, and those that are shown stay so.     *)
LEMMA RefreshStepFresh ==
  ASSUME CycleInv, KeysInv, RefreshNext, ~faulted', rpc' # "stopped", crashes' = crashes,
         NEW g \in 1..MaxGen, Held(g)',
         \/ arrived'[g] = arrived[g] /\ (Waiting(g) \/ Shown(g)) /\ Held(g)
         \/ arrived'[g] = now /\ ~Held(g)
  PROVE  Waiting(g)' \/ Shown(g)'
<1> USE SystemAssumption DEF CycleInv
<1>1. /\ now \in Nat /\ cycleStart \in Nat /\ Delay \in Nat /\ cycleStart <= now
      /\ MarketTTL \in Nat /\ Interval \in Nat /\ MaxCycle \in Nat
      /\ store \in [Symbols -> 0..MaxGen]
      /\ Delay' = Delay
  BY FreshTypes, Delays DEF TypeInv, TypeOK, RefreshTypeOK, ClockInv
<1>2. /\ {"bars"} \in SUBSET RefreshKinds /\ {"bars"} \subseteq MarketKinds
      /\ MarketKinds \in SUBSET RefreshKinds /\ Indicators \in SUBSET RefreshKinds
      /\ Indicators \cap MarketKinds = {}
  BY RefreshAssumption DEF RefreshKinds, MarketKinds
<1>3. ASSUME store'[Proposal] = store[Proposal], inWindow' \subseteq inWindow
      PROVE  arrived'[g] = arrived[g] /\ (Waiting(g) \/ Shown(g)) /\ Held(g)
  BY <1>3 DEF Held
<1>4. ASSUME table' = table
      PROVE  RowsOf({"bars"}, Proposal)' = RowsOf({"bars"}, Proposal)
  BY <1>4 DEF RowsOf
<1>5. CASE MarketWrite
  <2>1. PICK expires \in Nat :
          /\ batch = RowsAt(MarketKinds, Head(todo), store[Head(todo)], expires)
          /\ expires >= cycleStart + MarketTTL
    BY <1>5, MarketBatchRows DEF MarketWrite
  <2>2. /\ table' = UpsertBatch(table, batch) /\ UNCHANGED <<store, inWindow, cycleStart>>
        /\ rpc = "write" /\ NextSymbol
    BY <1>5 DEF MarketWrite
  <2>3. arrived'[g] = arrived[g] /\ (Waiting(g) \/ Shown(g)) /\ g <= store[Proposal]
    BY <1>3, <2>2 DEF Held
  <2>4. CASE Head(todo) = Proposal
    <3>1. RowsOf({"bars"}, Proposal)' = RowsAt({"bars"}, Proposal, store[Proposal], expires)
      BY <1>2, <2>1, <2>2, <2>4, BatchReplacesRows
    <3>2. PICK r \in RowsOf({"bars"}, Proposal)' : r.expires = expires /\ r.gen = store[Proposal]
      <4>1. PICK r \in RowsAt({"bars"}, Proposal, store[Proposal], expires) : TRUE
        BY DEF RowsAt
      <4> QED BY <3>1, <4>1, RowsAtFields
    <3>3. BarsHold(r)'
      BY <1>1, <2>1, <2>2, <3>2 DEF BarsHold
    <3> QED BY <2>3, <3>2, <3>3 DEF Shown
  <2>5. CASE Head(todo) # Proposal
    <3>1. RowsOf({"bars"}, Proposal)' = RowsOf({"bars"}, Proposal)
      BY <1>2, <2>1, <2>2, <2>5, BatchReplacesRows
    <3>2. MarketDone(Proposal)' => MarketDone(Proposal)
      BY <2>2, <2>5, NextSymbolDone
    <3> QED BY <2>2, <2>3, <2>5, <3>1, <3>2, NextSymbolWaits, KeptShown
  <2> QED BY <2>4, <2>5
<1>6. CASE CalcWrite
  <2>1. PICK expires \in Nat, computed \in SUBSET Indicators :
          batch = RowsAt(computed, Head(todo), candles[Head(todo)], expires)
    BY <1>6, IndicatorBatchRows DEF CalcWrite
  <2>2. /\ table' = UpsertBatch(table, batch) /\ UNCHANGED <<store, inWindow, cycleStart>>
        /\ rpc = "calcwrite"
    BY <1>6 DEF CalcWrite
  <2>3. Shown(g) /\ MarketDone(Proposal)
    BY <1>3, <2>2 DEF Waiting, MarketDone
  <2>4. {"bars"} \cap computed = {} /\ computed \in SUBSET RefreshKinds
    BY <1>2
  <2>5. RowsOf({"bars"}, Proposal)' = RowsOf({"bars"}, Proposal)
    BY <1>2, <2>1, <2>2, <2>4, BatchReplacesRows
  <2> QED BY <2>2, <2>3, <2>5, KeptShown
<1>7. CASE Fill
  <2>1. /\ UNCHANGED <<table, todo, cycleStart>> /\ rpc = "fill" /\ rpc' = "read"
        /\ Head(todo) \in Symbols
    BY <1>7, HeadIsSymbol DEF Fill, baseVars, Working
  <2>2. MarketDone(Proposal)' => MarketDone(Proposal)
    BY <2>1 DEF MarketDone, Pending
  <2>3. CASE arrived'[g] = arrived[g] /\ (Waiting(g) \/ Shown(g))
    BY <1>4, <2>1, <2>2, <2>3, KeptWaiting, KeptShown
  <2>4. CASE arrived'[g] = now /\ ~Held(g)
    <3>1. Head(todo) = Proposal
      <4>1. ASSUME Head(todo) # Proposal
            PROVE  Held(g)
        <5>1. store'[Proposal] = store[Proposal] /\ (Proposal \in inWindow' => Proposal \in inWindow)
          BY <1>1, <1>7, <2>1, <4>1 DEF Fill
        <5> QED BY <5>1 DEF Held
      <4> QED BY <2>4, <4>1
    <3>2. Proposal \in Pending'
      BY <2>1, <3>1, PendingOfTail DEF Pending, Working
    <3> QED BY <1>1, <2>1, <2>4, <3>2 DEF Waiting
  <2> QED BY <2>3, <2>4
<1>8. CASE ReadCandles
  <2>1. UNCHANGED <<table, store, inWindow, todo, cycleStart>> /\ rpc = "read" /\ rpc' = "write"
    BY <1>8 DEF ReadCandles, baseVars
  <2>2. MarketDone(Proposal)' => MarketDone(Proposal)
    BY <2>1 DEF MarketDone, Pending
  <2> QED BY <1>3, <1>4, <2>1, <2>2, KeptWaiting, KeptShown
<1>9. CASE ReadNoCandles
  <2>1. /\ UNCHANGED <<table, store, inWindow, cycleStart>> /\ rpc = "read" /\ NextSymbol
        /\ Head(todo) \notin inWindow
    BY <1>9 DEF ReadNoCandles, baseVars
  <2>2. arrived'[g] = arrived[g] /\ (Waiting(g) \/ Shown(g)) /\ Head(todo) # Proposal
    BY <1>3, <2>1 DEF Held
  <2>3. MarketDone(Proposal)' => MarketDone(Proposal)
    BY <2>1, <2>2, NextSymbolDone
  <2> QED BY <1>4, <2>1, <2>2, <2>3, NextSymbolWaits, KeptShown
<1>10. CASE Calculate \/ NothingToCalculate
  <2>1. UNCHANGED <<table, store, inWindow, cycleStart>> /\ rpc = "calc"
    BY <1>10 DEF Calculate, NothingToCalculate, baseVars
  <2>2. Shown(g) /\ MarketDone(Proposal)
    BY <1>3, <2>1 DEF Waiting, MarketDone
  <2> QED BY <1>4, <2>1, <2>2, KeptShown
<1>11. CASE RefreshWakes
  <2>1. UNCHANGED <<table, store>> /\ rpc = "sleep" /\ CycleBegins(now)
    BY <1>11 DEF RefreshWakes, baseVars
  <2>2. Shown(g)
    BY <1>3, <2>1 DEF Waiting, CycleBegins
  <2> QED BY <2>1, <2>2, NextCycleShows
<1>12. ~(ReadFails \/ MarketWriteFails \/ CalcWriteFails \/ RefreshStops \/ RefreshPanics)
  BY DEF ReadFails, MarketWriteFails, CalcWriteFails, RefreshStops, RefreshPanics
<1> QED
  BY <1>5, <1>6, <1>7, <1>8, <1>9, <1>10, <1>11, <1>12 DEF RefreshNext, CycleStep

(* The steps of the other tasks, which delete no bars that hold, and those *)
(* of the whole process.                                                   *)
LEMMA OtherStepFresh ==
  ASSUME CycleInv, LongLived, rpc # "stopped", [Next]_vars, ~RefreshTask(RefreshNext),
         NEW g \in 1..MaxGen, arrived'[g] = arrived[g], arrived[g] \in Nat, Waiting(g) \/ Shown(g)
  PROVE  Waiting(g)' \/ Shown(g)'
<1> USE SystemAssumption DEF CycleInv
<1>1. CASE CrashAndRestart
  <2>1. /\ table' = table /\ crashes' = crashes + 1 /\ CycleBegins(now)
    BY <1>1 DEF CrashAndRestart
  <2>2. CASE Shown(g)
    BY <2>1, <2>2, NextCycleShows
  <2>3. CASE Waiting(g)
    <3>1. now <= cycleStart + MaxCycle /\ cycleStart <= arrived[g] + Delay
      BY <2>3 DEF Waiting, ClockInv, Working
    <3>2. Delay' = Delay + MaxCycle
      BY <2>1, Delays
    <3>3. cycleStart' = now /\ rpc' = "fill"
      BY <2>1 DEF CycleBegins
    <3>4. cycleStart' <= arrived'[g] + Delay'
      BY <3>1, <3>2, <3>3, FreshTypes
    <3>5. Proposal \in Pending'
      BY <2>1, PendingIsAll DEF CycleBegins
    <3> QED BY <3>3, <3>4, <3>5 DEF Waiting
  <2> QED BY <2>2, <2>3
<1>2. CASE ~CrashAndRestart
  <2>1. UNCHANGED <<rpc, todo, cycleStart>>
    BY <1>2, OtherSteps DEF refreshVars
  <2>2. crashes' = crashes
    BY <1>2 DEF Next, StreamTask, CleanupTask, CtrlC, Return, Tick, vars, daemonVars
  <2>3. CASE Waiting(g)
    BY <2>1, <2>2, <2>3, KeptWaiting DEF Waiting
  <2>4. CASE Shown(g)
    <3>1. PICK r \in RowsOf({"bars"}, Proposal) : r.gen >= g /\ BarsHold(r)
      BY <2>4 DEF Shown
    <3>2. r.expires > now /\ r.expires \in Nat /\ now \in Nat
      BY <3>1, HoldingBarsAreLive, FreshTypes
    <3>3. r \in RowsOf({"bars"}, Proposal)'
      <4>1. {"bars"} \in SUBSET RefreshKinds
        BY DEF RefreshKinds, MarketKinds
      <4> QED BY <3>1, <3>2, <4>1, OtherStepsKeepRows DEF WritesBatch
    <3>4. BarsHold(r)'
      <4>1. Delay' = Delay /\ (MarketDone(Proposal)' <=> MarketDone(Proposal))
        BY <2>1, <2>2, Delays, SameDone
      <4> QED BY <2>1, <3>1, <4>1 DEF BarsHold
    <3> QED BY <3>1, <3>3, <3>4 DEF Shown
  <2> QED BY <2>3, <2>4
<1> QED BY <1>1, <1>2

(* The daemon's steps take no time.                                        *)
LEMMA ClockSteps ==
  ASSUME TypeInv, [SystemNext]_allVars
  PROVE  \/ now' = now
         \/ SystemTick /\ now' = now + 1
<1>1. CASE DaemonStep
  <2>1. now' = now
    <3>1. CASE RefreshTask(RefreshNext)
      BY <3>1, RefreshType DEF RefreshTask
    <3>2. CASE StreamTask(StreamNext)
      BY <3>2, StreamType DEF StreamTask
    <3>3. CASE CleanupTask(CleanupNext)
      BY <3>3, CleanupType DEF CleanupTask
    <3>4. CASE CtrlC \/ Return \/ CrashAndRestart
      BY <3>4 DEF CtrlC, Return, CrashAndRestart, baseVars
    <3> QED BY <1>1, <3>1, <3>2, <3>3, <3>4 DEF DaemonStep
  <2> QED BY <2>1
<1>2. CASE ~DaemonStep
  BY <1>2, QuietSystemSteps DEF vars, baseVars, SystemTick, Tick
<1> QED BY <1>1, <1>2

(* How a step dates the candles that come.                                 *)
LEMMA ArrivalSteps ==
  ASSUME ArrivedInv, [SystemNext]_allVars, NEW g \in 1..MaxGen
  PROVE  \/ arrived'[g] = -1 /\ ~Held(g)'
         \/ arrived'[g] = arrived[g] /\ Arrived(g) /\ Held(g)'
         \/ arrived'[g] = now /\ ~Arrived(g) /\ Held(g)'
<1>1. CASE DaemonStep
  <2>1. arrived'[g] = IF ~Held(g)' THEN -1 ELSE IF arrived[g] = -1 THEN now ELSE arrived[g]
    BY <1>1 DEF DaemonStep
  <2> QED BY <2>1 DEF Arrived
<1>2. CASE ~DaemonStep
  <2>1. UNCHANGED <<store, inWindow, arrived>>
    BY <1>2, QuietSystemSteps DEF refreshVars
  <2>2. Held(g)' <=> Held(g)
    BY <2>1 DEF Held
  <2> QED BY <2>1, <2>2 DEF ArrivedInv, Arrived
<1> QED BY <1>1, <1>2

LEMMA NextArrived ==
  ASSUME TypeInv, ArrivedInv, [SystemNext]_allVars
  PROVE  ArrivedInv'
<1> SUFFICES ASSUME NEW g \in 1..MaxGen
             PROVE  /\ Arrived(g)' <=> Held(g)'
                    /\ Arrived(g)' => arrived'[g] \in Nat /\ arrived'[g] <= now'
  BY DEF ArrivedInv
<1>1. now \in Nat /\ now' \in Nat /\ now' >= now
  BY FreshTypes, ClockSteps
<1>2. CASE arrived'[g] = -1 /\ ~Held(g)'
  BY <1>2 DEF Arrived
<1>3. CASE arrived'[g] = arrived[g] /\ Arrived(g) /\ Held(g)'
  <2>1. arrived[g] \in Nat /\ arrived[g] <= now
    BY <1>3 DEF ArrivedInv
  <2> QED BY <1>1, <1>3, <2>1 DEF Arrived
<1>4. CASE arrived'[g] = now /\ Held(g)'
  BY <1>1, <1>4 DEF Arrived
<1> QED BY <1>2, <1>3, <1>4, ArrivalSteps

LEMMA NextFresh ==
  ASSUME LoaderInv, SystemTypeOK, TroubleInv, ArrivedInv, ArrivedInv', FreshInv,
         [SystemNext]_allVars
  PROVE  FreshInv'
<1> USE DEF LoaderInv
<1> SUFFICES ASSUME ~troubled', LongLived', NEW g \in 1..MaxGen, Arrived(g)'
             PROVE  Waiting(g)' \/ Shown(g)'
  BY DEF FreshInv
<1>1. [Next]_vars /\ TypeInv
  BY LoaderStep DEF CycleInv
<1>2. LongLived
  BY <1>1, Delays, CrashesAreCounted
<1>3. ~troubled /\ rpc # "stopped" /\ ~faulted /\ (DaemonStep => ~faulted' /\ rpc' # "stopped")
  BY TroubleStays DEF TroubleInv
<1>4. Held(g)'
  BY DEF ArrivedInv
<1>5. \/ arrived'[g] = arrived[g] /\ arrived[g] \in Nat /\ (Waiting(g) \/ Shown(g)) /\ Held(g)
      \/ arrived'[g] = now /\ ~Held(g)
  <2>1. CASE Arrived(g)
    <3>1. arrived[g] \in Nat /\ (Waiting(g) \/ Shown(g)) /\ Held(g)
      BY <1>2, <1>3, <2>1 DEF ArrivedInv, FreshInv
    <3> QED BY <1>4, <2>1, <3>1, ArrivalSteps
  <2>2. CASE ~Arrived(g)
    <3>1. arrived'[g] = now
      BY <1>1, <1>4, <2>2, ArrivalSteps
    <3> QED BY <2>2, <3>1 DEF ArrivedInv
  <2> QED BY <2>1, <2>2
<1>6. CASE RefreshTask(RefreshNext)
  <2>1. RefreshNext /\ crashes' = crashes
    BY <1>6 DEF RefreshTask
  <2>2. ~faulted' /\ rpc' # "stopped"
    <3>1. CASE DaemonStep
      BY <1>3, <3>1
    <3>2. CASE ~DaemonStep
      BY <1>3, <3>2, QuietSystemSteps DEF refreshVars, refreshHistory
    <3> QED BY <3>1, <3>2
  <2> QED BY <1>4, <1>5, <2>1, <2>2, RefreshStepFresh
<1>7. CASE ~RefreshTask(RefreshNext)
  <2>1. store' = store /\ inWindow' \subseteq inWindow
    BY <1>1, <1>7, StoreGrows DEF RefreshTask, RefreshNext, CycleStep
  <2>2. arrived'[g] = arrived[g] /\ arrived[g] \in Nat /\ (Waiting(g) \/ Shown(g))
    BY <1>4, <1>5, <2>1 DEF Held
  <2> QED BY <1>1, <1>2, <1>3, <1>7, <2>2, OtherStepFresh
<1> QED BY <1>6, <1>7

(* What an evaluation has seen, from its snapshot on.                      *)
SeenInv ==
  epc = "evaluating" =>
    /\ took <= now /\ now <= took + EvalTime
    /\ sound /\ LongLived =>
         \A g \in 1..MaxGen :
           Arrived(g) /\ took > arrived[g] + (MaxCycle + Delay) =>
             \E r \in RowsIn(snapshot, {"bars"}) : r.gen >= g

LEMMA SnapshotSeen ==
  ASSUME LoaderInv, SystemTypeOK, TroubleInv, ArrivedInv, FreshInv, TakesSnapshot
  PROVE  SeenInv'
<1> USE DEF LoaderInv, CycleInv
<1>1. /\ took' = now /\ UNCHANGED <<vars, arrived>> /\ sound' = ~troubled
  BY DEF TakesSnapshot
<1>2. UNCHANGED <<now, crashes>>
  BY <1>1 DEF vars, baseVars, daemonVars
<1>3. Delay' = Delay /\ (LongLived' <=> LongLived)
  BY <1>2, Delays
<1>4. /\ now \in Nat /\ cycleStart \in Nat /\ MaxCycle \in Nat /\ Delay \in Nat /\ EvalTime \in Nat
  BY FreshTypes, SystemAssumption
<1>5. ASSUME ~troubled, LongLived, NEW g \in 1..MaxGen, Arrived(g),
             now > arrived[g] + (MaxCycle + Delay)
      PROVE  \E r \in RowsIn(snapshot, {"bars"})' : r.gen >= g
  <2>1. arrived[g] \in Nat /\ (Waiting(g) \/ Shown(g))
    BY <1>5 DEF ArrivedInv, FreshInv
  <2>2. ~Waiting(g)
    <3>1. ASSUME Waiting(g)
          PROVE  FALSE
      <4>1. cycleStart <= arrived[g] + Delay /\ now <= cycleStart + MaxCycle
        BY <3>1 DEF Waiting, ClockInv, Working
      <4> QED BY <1>4, <1>5, <2>1, <4>1
    <3> QED BY <3>1
  <2>3. PICK r \in RowsOf({"bars"}, Proposal) : r.gen >= g /\ BarsHold(r)
    BY <2>1, <2>2 DEF Shown
  <2>4. r.expires > now
    BY <1>5, <2>3, HoldingBarsAreLive DEF TroubleInv
  <2>5. [key |-> r.key, gen |-> r.gen] \in RowsIn(snapshot, {"bars"})'
    BY <2>3, <2>4, SnapshotRows
  <2>6. [key |-> r.key, gen |-> r.gen].gen >= g
    BY <2>3
  <2> QED BY <2>5, <2>6
<1>6. took' <= now' /\ now' <= took' + EvalTime
  BY <1>1, <1>2, <1>4
<1>7. ASSUME sound', LongLived', NEW g \in 1..MaxGen, Arrived(g)',
             took' > arrived'[g] + (MaxCycle + Delay')
      PROVE  \E r \in RowsIn(snapshot, {"bars"})' : r.gen >= g
  <2>1. ~troubled /\ LongLived /\ Arrived(g) /\ now > arrived[g] + (MaxCycle + Delay)
    BY <1>1, <1>3, <1>7 DEF Arrived
  <2> QED BY <1>5, <2>1
<1> QED BY <1>6, <1>7 DEF SeenInv

LEMMA NextSeen ==
  ASSUME LoaderInv, SystemTypeOK, TroubleInv, ArrivedInv, FreshInv, SeenInv, [SystemNext]_allVars
  PROVE  SeenInv'
<1> USE DEF LoaderInv, CycleInv
<1>1. CASE TakesSnapshot
  BY <1>1, SnapshotSeen
<1>2. CASE Concludes
  BY <1>2 DEF Concludes, SeenInv
<1>3. CASE UNCHANGED <<snapshot, took, sound>> /\ (epc' = "evaluating" => epc = "evaluating")
  <2> SUFFICES ASSUME epc' = "evaluating"
               PROVE  SeenInv'
    BY DEF SeenInv
  <2>1. /\ now \in Nat /\ took \in Nat /\ MaxCycle \in Nat /\ Delay \in Nat /\ EvalTime \in Nat
    BY FreshTypes, SystemAssumption DEF SystemTypeOK
  <2>2. epc = "evaluating" /\ took <= now /\ now <= took + EvalTime
    BY <1>3 DEF SeenInv
  <2>3. now' = now \/ (SystemTick /\ now' = now + 1)
    BY ClockSteps
  <2>4. took' <= now' /\ now' <= took' + EvalTime
    BY <1>3, <2>1, <2>2, <2>3 DEF SystemTick
  <2>5. (LongLived' => LongLived) /\ Delay' \in Nat /\ Delay' >= Delay
    BY <2>1, Delays, CrashesAreCounted
  <2>6. ASSUME sound', LongLived', NEW g \in 1..MaxGen, Arrived(g)',
               took' > arrived'[g] + (MaxCycle + Delay')
        PROVE  \E r \in RowsIn(snapshot, {"bars"})' : r.gen >= g
    <3>1. arrived'[g] = arrived[g] /\ Arrived(g)
      <4>1. ~(arrived'[g] = now)
        BY <1>3, <2>1, <2>2, <2>5, <2>6
      <4> QED BY <2>6, <4>1, ArrivalSteps DEF Arrived
    <3>2. arrived[g] \in Nat
      BY <3>1 DEF ArrivedInv
    <3>3. took > arrived[g] + (MaxCycle + Delay)
      BY <1>3, <2>1, <2>5, <2>6, <3>1, <3>2
    <3>4. PICK r \in RowsIn(snapshot, {"bars"}) : r.gen >= g
      BY <1>3, <2>2, <2>5, <2>6, <3>1, <3>3 DEF SeenInv
    <3> QED BY <1>3, <3>4 DEF RowsIn
  <2> QED BY <2>4, <2>6 DEF SeenInv
<1> QED BY <1>1, <1>2, <1>3, SnapshotSteps

(* While nothing fails but the provider, the candles the store has got     *)
(* wait for this cycle or are shown by bars that outlive it, as long as    *)
(* the window has days of the symbol; and a snapshot shows those that came *)
(* more than a cycle before it.                                            *)
THEOREM FreshInvHolds == SystemSpec => [](ArrivedInv /\ FreshInv /\ SeenInv)
<1>1. ASSUME SystemInit, TypeInv
      PROVE  ArrivedInv /\ FreshInv /\ SeenInv
  <2>1. /\ now = 0 /\ cycleStart = 0 /\ rpc = "fill" /\ todo = SymbolList /\ epc = "idle"
    BY <1>1 DEF SystemInit, Init, BaseInit, RefreshInit
  <2>2. \A g \in 1..MaxGen : arrived[g] = IF Held(g) THEN 0 ELSE -1
    BY <1>1 DEF SystemInit
  <2>3. ArrivedInv
    BY <2>1, <2>2 DEF ArrivedInv, Arrived
  <2>4. Proposal \in Pending
    BY <2>1, SystemAssumption DEF Pending, Symbols
  <2>5. Delay \in Nat
    BY <1>1, FreshTypes
  <2>6. ASSUME NEW g \in 1..MaxGen, Arrived(g)
        PROVE  Waiting(g)
    <3>1. arrived[g] = 0
      BY <2>2, <2>6 DEF Arrived
    <3> QED BY <2>1, <2>4, <2>5, <3>1 DEF Waiting
  <2> QED BY <2>1, <2>3, <2>6 DEF FreshInv, SeenInv
<1>2. ASSUME LoaderInv, TypeInv', SystemTypeOK, TroubleInv, ArrivedInv, FreshInv, SeenInv,
             [SystemNext]_allVars
      PROVE  (ArrivedInv /\ FreshInv /\ SeenInv)'
  <2>1. ArrivedInv'
    BY <1>2, NextArrived DEF LoaderInv, CycleInv
  <2>2. FreshInv'
    BY <1>2, <2>1, NextFresh
  <2>3. SeenInv'
    BY <1>2, NextSeen
  <2> QED BY <2>1, <2>2, <2>3
<1> QED
  BY <1>1, <1>2, LoaderInvHolds, SystemTypeCorrect, TroubleInvHolds, SystemRunsTheLoader, TypesHold,
     PTL DEF SystemSpec

(* While nothing fails but the provider, and with rows that outlive the    *)
(* interval and two cycles (one more for every crash), a decision knows    *)
(* the candles the store got more than a cycle before its snapshot, unless *)
(* the window has no day of the symbol left.                               *)
THEOREM DecisionsAreFresh == SystemSpec => []DecisionIsFresh
<1>1. ASSUME TypeInv, SystemTypeOK, ArrivedInv, SeenInv
      PROVE  DecisionIsFresh
  <2> SUFFICES ASSUME epc = "evaluating", sound, LongLived,
                      NEW g \in 1..MaxGen, arrived[g] # -1,
                      now > arrived[g] + (1 + crashes) * MaxCycle + EvalTime
               PROVE  \E r \in RowsIn(snapshot, {"bars"}) : r.gen >= g
    BY DEF DecisionIsFresh, LongLived
  <2>1. /\ now \in Nat /\ took \in Nat /\ MaxCycle \in Nat /\ Delay \in Nat /\ EvalTime \in Nat
        /\ Arrived(g) /\ arrived[g] \in Nat
    BY <1>1, FreshTypes, SystemAssumption DEF SystemTypeOK, ArrivedInv, Arrived
  <2>2. now <= took + EvalTime
    BY <1>1 DEF SeenInv
  <2>3. (1 + crashes) * MaxCycle = MaxCycle + Delay
    BY <1>1, Delays
  <2>4. took > arrived[g] + (MaxCycle + Delay)
    BY <2>1, <2>2, <2>3
  <2> QED BY <1>1, <2>1, <2>4 DEF SeenInv
<1> QED
  BY <1>1, FreshInvHolds, SystemTypeCorrect, SystemRunsTheLoader, TypesHold, PTL
===============================================================================
