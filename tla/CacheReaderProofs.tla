-------------------------- MODULE CacheReaderProofs ---------------------------
(***************************************************************************)
(* Proofs about CacheReader for any set of clients and keys, any lifetimes *)
(* of rows and of moka entries, and any bound on the promotion delay.      *)
(***************************************************************************)
EXTENDS CacheReader, TLAPS

-------------------------------------------------------------------------------
(* The inductive invariant.  The staleness of an answer is the sum of two  *)
(* delays, so the invariant follows a row along its way: it is current     *)
(* when the SELECT reads it, at most MaxDelay old when it enters moka, and *)
(* at most MaxDelay + MemTTL old when moka stops showing it.               *)

(* What the table holds was committed and is the last commit of its key.   *)
TableIsNewest ==
  /\ table \subseteq written
  /\ \A r \in table : \A w \in written : ~Stale!Supersedes(w, r)

HistoryInOrder ==
  \A w \in written : w.committed <= now /\ w.version <= last

FetchedIsFresh ==
  \A c \in Clients : AtPromote(c) =>
    /\ req[c].row.key = req[c].key
    /\ req[c].readAt <= now
    /\ now <= req[c].readAt + MaxDelay
    /\ Stale!FreshWithin(req[c].row, req[c].readAt, 0, written)

HotIsFresh ==
  \A k \in Keys : hot[k] # Null =>
    /\ hot[k].row.key = k
    /\ hot[k].at <= now
    /\ Stale!FreshWithin(hot[k].row, hot[k].at, MaxDelay, written)

AnswersAreFresh ==
  /\ \A c \in Clients : ans[c] # Null => ans[c].at <= now
  /\ BoundedStaleness

(* No call has returned a value newer than the row in the table.           *)
TableNotBehindGets ==
  /\ \A k \in Keys : seen[k] <= last
  /\ \A r \in table : r.version >= seen[r.key]

IInv ==
  /\ TypeOK
  /\ TableIsNewest
  /\ HistoryInOrder
  /\ FetchedIsFresh
  /\ HotIsFresh
  /\ AnswersAreFresh
  /\ TableNotBehindGets

-------------------------------------------------------------------------------
(* A row fresh within span at one instant is fresh within a longer span at *)
(* a later one.                                                            *)
LEMMA FreshLater ==
  ASSUME NEW rows \in SUBSET Row, NEW r, NEW at \in Nat, NEW span \in Nat,
         NEW later \in Nat, NEW longer \in Nat,
         Stale!FreshWithin(r, at, span, rows),
         later + span <= at + longer
  PROVE  Stale!FreshWithin(r, later, longer, rows)
BY DEF Stale!FreshWithin, Stale!Supersedes, Row

(* A commit at the end of the span, or later, makes no row less fresh.     *)
LEMMA FreshAfterCommit ==
  ASSUME NEW rows \in SUBSET Row, NEW r, NEW at \in Nat, NEW span \in Nat,
         NEW new \in Row,
         Stale!FreshWithin(r, at, span, rows),
         at <= new.committed
  PROVE  Stale!FreshWithin(r, at, span, rows \cup {new})
BY DEF Stale!FreshWithin, Stale!Supersedes, Row

-------------------------------------------------------------------------------
(* The type invariant, preserved by each action.                           *)

LEMMA InitIInv == Init => IInv
BY DEF Init, IInv, TypeOK, TableIsNewest, HistoryInOrder, FetchedIsFresh, AtPromote,
       HotIsFresh, AnswersAreFresh, BoundedStaleness, TableNotBehindGets

LEMMA AnswerWithType ==
  ASSUME TypeOK, NEW c \in Clients, NEW typed \in BOOLEAN, NEW r \in Row,
         AnswerWith(c, typed, r)
  PROVE  /\ ans' \in [Clients -> RowAnswer \cup NoRowAnswer \cup {Null}]
         /\ seen' \in [Keys -> Nat]
<1>1. Outcome(typed, r) \in {"value", "parse_error"}
  BY DEF Outcome
<1>2. r.key \in Keys /\ r.version \in Nat
  BY DEF Row
<1>3. [outcome |-> Outcome(typed, r), key |-> r.key, row |-> r, at |-> now] \in RowAnswer
  BY <1>1, <1>2 DEF TypeOK, RowAnswer
<1>4. ans' \in [Clients -> RowAnswer \cup NoRowAnswer \cup {Null}]
  BY <1>3 DEF TypeOK, AnswerWith
<1>5. seen' \in [Keys -> Nat]
  BY <1>2 DEF TypeOK, AnswerWith
<1> QED BY <1>4, <1>5

LEMMA AnswerWithoutType ==
  ASSUME TypeOK, NEW c \in Clients, NEW k \in Keys,
         NEW outcome \in {"nothing", "unavailable"}, AnswerWithout(c, k, outcome)
  PROVE  /\ ans' \in [Clients -> RowAnswer \cup NoRowAnswer \cup {Null}]
         /\ seen' \in [Keys -> Nat]
<1>1. [outcome |-> outcome, key |-> k, at |-> now] \in NoRowAnswer
  BY DEF TypeOK, NoRowAnswer
<1> QED BY <1>1 DEF TypeOK, AnswerWithout

LEMMA HotType ==
  ASSUME TypeOK, NEW k \in Keys, hot[k] # Null
  PROVE  hot[k] \in Entry /\ hot[k].row \in Row /\ hot[k].at \in Nat
BY DEF TypeOK, Entry

LEMMA QueryType ==
  ASSUME TypeOK, NEW c \in Clients, AtQuery(c)
  PROVE  req[c] \in Lookup /\ req[c].key \in Keys /\ req[c].typed \in BOOLEAN
BY DEF TypeOK, AtQuery, Lookup, Fetched

LEMMA PromoteType ==
  ASSUME TypeOK, NEW c \in Clients, AtPromote(c)
  PROVE  /\ req[c] \in Fetched
         /\ req[c].key \in Keys
         /\ req[c].typed \in BOOLEAN
         /\ req[c].row \in Row
         /\ req[c].readAt \in Nat
BY DEF TypeOK, AtPromote, Lookup, Fetched

-------------------------------------------------------------------------------
(* Answering with a row that is fresh enough keeps every property of the   *)
(* answers.                                                                *)
LEMMA AnswerWithKeeps ==
  ASSUME IInv, NEW c \in Clients, NEW typed \in BOOLEAN, NEW r \in Row,
         Stale!FreshWithin(r, now, MemTTL + MaxDelay, written),
         AnswerWith(c, typed, r),
         UNCHANGED <<now, table, written, last>>
  PROVE  AnswersAreFresh' /\ TableNotBehindGets'
<1>1. ASSUME NEW d \in Clients, ans'[d] # Null
      PROVE  ans'[d].at <= now
  BY <1>1 DEF IInv, TypeOK, AnswersAreFresh, AnswerWith
<1>2. ASSUME NEW d \in Clients, ans'[d] # Null,
             ans'[d].outcome \in {"value", "parse_error"}
      PROVE  Stale!FreshWithin(ans'[d].row, ans'[d].at, MemTTL + MaxDelay, written)
  BY <1>2 DEF IInv, TypeOK, AnswersAreFresh, BoundedStaleness, AnswerWith
<1>3. AnswersAreFresh'
  BY <1>1, <1>2 DEF AnswersAreFresh, BoundedStaleness, Stale!FreshWithin, Stale!Supersedes
<1>4. r \in written /\ r.version \in Nat /\ r.key \in Keys /\ r.version <= last
  BY DEF IInv, HistoryInOrder, Stale!FreshWithin, Row
<1>5. \A k \in Keys : seen'[k] <= last
  BY <1>4 DEF IInv, TypeOK, TableNotBehindGets, AnswerWith
<1>6. ASSUME NEW t \in table
      PROVE  t.version >= seen'[t.key]
  <2>1. t.version \in Nat /\ t.key \in Keys
    BY DEF IInv, TypeOK, Row
  <2>2. t.key = r.key => t.version >= r.version
    BY <1>4, <2>1 DEF IInv, TableIsNewest, Stale!Supersedes
  <2> QED
    BY <1>4, <2>1, <2>2 DEF IInv, TypeOK, TableNotBehindGets, AnswerWith
<1> QED BY <1>3, <1>5, <1>6 DEF TableNotBehindGets

LEMMA AnswerWithoutKeeps ==
  ASSUME IInv, NEW c \in Clients, NEW k \in Keys,
         NEW outcome \in {"nothing", "unavailable"}, AnswerWithout(c, k, outcome),
         UNCHANGED <<now, table, written, last>>
  PROVE  AnswersAreFresh' /\ TableNotBehindGets'
<1>1. ASSUME NEW d \in Clients, ans'[d] # Null
      PROVE  /\ ans'[d].at <= now
             /\ ans'[d] = ans[d] \/ ans'[d].outcome \notin {"value", "parse_error"}
  BY <1>1 DEF IInv, TypeOK, AnswersAreFresh, AnswerWithout
<1>2. AnswersAreFresh'
  BY <1>1 DEF IInv, AnswersAreFresh, BoundedStaleness, Stale!FreshWithin, Stale!Supersedes
<1> QED BY <1>2 DEF IInv, TableNotBehindGets, AnswerWithout

-------------------------------------------------------------------------------
(* Each action preserves the invariant.                                    *)

LEMMA GetHitKeeps ==
  ASSUME IInv, NEW c \in Clients, NEW k \in Keys, NEW typed \in BOOLEAN,
         GetHit(c, k, typed)
  PROVE  IInv'
<1>1. hot[k] # Null /\ hot[k].row \in Row /\ hot[k].at \in Nat
  BY HotType DEF IInv, GetHit, HotVisible
<1>2. Stale!FreshWithin(hot[k].row, now, MemTTL + MaxDelay, written)
  BY <1>1, FreshLater, TimesAreNat
     DEF IInv, TypeOK, HotIsFresh, GetHit, HotVisible
<1>3. TypeOK'
  BY <1>1, AnswerWithType DEF IInv, TypeOK, GetHit
<1>4. AnswersAreFresh' /\ TableNotBehindGets'
  BY <1>1, <1>2, AnswerWithKeeps DEF GetHit
<1> QED
  BY <1>3, <1>4 DEF IInv, GetHit, TableIsNewest, HistoryInOrder, FetchedIsFresh,
     AtPromote, HotIsFresh, Stale!FreshWithin, Stale!Supersedes

LEMMA GetMissKeeps ==
  ASSUME IInv, NEW c \in Clients, NEW k \in Keys, NEW typed \in BOOLEAN,
         GetMiss(c, k, typed)
  PROVE  IInv'
<1>1. [step |-> "query", key |-> k, typed |-> typed] \in Lookup
  BY DEF Lookup
<1>2. TypeOK'
  BY <1>1 DEF IInv, TypeOK, GetMiss
<1>3. ASSUME NEW d \in Clients, AtPromote(d)'
      PROVE  AtPromote(d) /\ req'[d] = req[d]
  BY <1>3 DEF IInv, TypeOK, GetMiss, AtPromote
<1>4. FetchedIsFresh'
  BY <1>3 DEF IInv, FetchedIsFresh, GetMiss, Stale!FreshWithin, Stale!Supersedes
<1> QED
  BY <1>2, <1>4 DEF IInv, GetMiss, TableIsNewest, HistoryInOrder, HotIsFresh,
     AnswersAreFresh, BoundedStaleness, TableNotBehindGets,
     Stale!FreshWithin, Stale!Supersedes

LEMMA QueryFindsRowKeeps ==
  ASSUME IInv, NEW c \in Clients, QueryFindsRow(c)
  PROVE  IInv'
<1>1. req[c].key \in Keys /\ req[c].typed \in BOOLEAN
  BY QueryType DEF IInv, QueryFindsRow
<1> DEFINE Found(r) == [step |-> "promote", key |-> req[c].key,
                        typed |-> req[c].typed, row |-> r, readAt |-> now]
<1>2. PICK r \in GetByKey(table, req[c].key, now) : req' = [req EXCEPT ![c] = Found(r)]
  BY DEF QueryFindsRow
<1>3. r \in table /\ r \in written /\ r \in Row /\ r.key = req[c].key /\ r.expires > now
  BY DEF IInv, TypeOK, TableIsNewest, GetByKey, Live
<1>4. Stale!FreshWithin(r, now, 0, written)
  <2>1. \A w \in written : ~Stale!Supersedes(w, r)
    BY <1>3 DEF IInv, TableIsNewest
  <2>2. r.expires + 0 >= now
    BY <1>3 DEF IInv, TypeOK, Row
  <2> QED BY <1>3, <2>1, <2>2 DEF Stale!FreshWithin
<1>5. Found(r) \in Fetched
  BY <1>1, <1>3 DEF IInv, TypeOK, Fetched
<1>6. TypeOK'
  BY <1>2, <1>5 DEF IInv, TypeOK, QueryFindsRow
<1>7. ASSUME NEW d \in Clients, AtPromote(d)'
      PROVE  \/ AtPromote(d) /\ req'[d] = req[d]
             \/ d = c /\ req'[d] = Found(r)
  BY <1>2, <1>7 DEF IInv, TypeOK, AtPromote
<1>8. ASSUME NEW d \in Clients, AtPromote(d)'
      PROVE  /\ req'[d].row.key = req'[d].key
             /\ req'[d].readAt <= now
             /\ now <= req'[d].readAt + MaxDelay
             /\ Stale!FreshWithin(req'[d].row, req'[d].readAt, 0, written)
  <2>1. CASE AtPromote(d) /\ req'[d] = req[d]
    BY <2>1 DEF IInv, FetchedIsFresh
  <2>2. CASE d = c /\ req'[d] = Found(r)
    BY <1>3, <1>4, <2>2, TimesAreNat DEF IInv, TypeOK
  <2> QED BY <1>7, <1>8, <2>1, <2>2
<1>9. FetchedIsFresh'
  BY <1>8 DEF QueryFindsRow, FetchedIsFresh, Stale!FreshWithin, Stale!Supersedes
<1> QED
  BY <1>6, <1>9 DEF IInv, QueryFindsRow, TableIsNewest, HistoryInOrder, HotIsFresh,
     AnswersAreFresh, BoundedStaleness, TableNotBehindGets,
     Stale!FreshWithin, Stale!Supersedes

(* A call that ends without touching moka.                                 *)
LEMMA QueryEndsKeeps ==
  ASSUME IInv, NEW c \in Clients, QueryFindsNothing(c) \/ QueryFails(c)
  PROVE  IInv'
<1> USE DEF QueryFindsNothing, QueryFails
<1>1. req[c].key \in Keys
  BY QueryType DEF IInv
<1>2. PICK outcome \in {"nothing", "unavailable"} : AnswerWithout(c, req[c].key, outcome)
  OBVIOUS
<1>3. TypeOK'
  BY <1>1, <1>2, AnswerWithoutType DEF IInv, TypeOK
<1>4. AnswersAreFresh' /\ TableNotBehindGets'
  BY <1>1, <1>2, AnswerWithoutKeeps
<1>5. ASSUME NEW d \in Clients, AtPromote(d)'
      PROVE  AtPromote(d) /\ req'[d] = req[d]
  BY <1>5 DEF IInv, TypeOK, AtPromote
<1>6. FetchedIsFresh'
  BY <1>5 DEF IInv, FetchedIsFresh, Stale!FreshWithin, Stale!Supersedes
<1> QED
  BY <1>3, <1>4, <1>6 DEF IInv, TableIsNewest, HistoryInOrder, HotIsFresh,
     Stale!FreshWithin, Stale!Supersedes

LEMMA PromoteKeeps ==
  ASSUME IInv, NEW c \in Clients, Promote(c)
  PROVE  IInv'
<1> DEFINE new == [row |-> req[c].row, at |-> now]
<1>1. /\ AtPromote(c)
      /\ req[c].key \in Keys
      /\ req[c].typed \in BOOLEAN
      /\ req[c].row \in Row
      /\ req[c].readAt \in Nat
  BY PromoteType DEF IInv, Promote
<1>2. /\ req[c].row.key = req[c].key
      /\ Stale!FreshWithin(req[c].row, now, MaxDelay, written)
      /\ Stale!FreshWithin(req[c].row, now, MemTTL + MaxDelay, written)
  <2>1. /\ now \in Nat
        /\ written \in SUBSET Row
        /\ now <= req[c].readAt + MaxDelay
        /\ Stale!FreshWithin(req[c].row, req[c].readAt, 0, written)
        /\ req[c].row.key = req[c].key
    BY <1>1 DEF IInv, TypeOK, FetchedIsFresh
  <2> QED BY <1>1, <2>1, FreshLater, TimesAreNat
<1>3. new \in Entry
  BY <1>1 DEF IInv, TypeOK, Entry
<1>4. TypeOK'
  <2>1. hot' \in [Keys -> Entry \cup {Null}] /\ req' \in [Clients -> Lookup \cup Fetched \cup {Null}]
    BY <1>3 DEF IInv, TypeOK, Promote
  <2> QED BY <1>1, <2>1, AnswerWithType DEF IInv, TypeOK, Promote
<1>5. AnswersAreFresh' /\ TableNotBehindGets'
  BY <1>1, <1>2, AnswerWithKeeps DEF Promote
<1>6. ASSUME NEW d \in Clients, AtPromote(d)'
      PROVE  AtPromote(d) /\ req'[d] = req[d]
  BY <1>6 DEF IInv, TypeOK, AtPromote, Promote
<1>7. FetchedIsFresh'
  BY <1>6 DEF IInv, FetchedIsFresh, Promote, Stale!FreshWithin, Stale!Supersedes
<1>8. ASSUME NEW k \in Keys, hot'[k] # Null
      PROVE  /\ hot'[k].row.key = k
             /\ hot'[k].at <= now
             /\ Stale!FreshWithin(hot'[k].row, hot'[k].at, MaxDelay, written)
  <2>1. CASE k = req[c].key
    <3>1. hot'[k] = new
      BY <2>1 DEF IInv, TypeOK, Promote
    <3> QED BY <1>2, <2>1, <3>1 DEF IInv, TypeOK
  <2>2. CASE k # req[c].key
    <3>1. hot'[k] = hot[k]
      BY <2>2 DEF IInv, TypeOK, Promote
    <3> QED BY <1>8, <3>1 DEF IInv, HotIsFresh
  <2> QED BY <2>1, <2>2
<1>9. HotIsFresh'
  BY <1>8 DEF HotIsFresh, Promote, Stale!FreshWithin, Stale!Supersedes
<1> QED
  BY <1>4, <1>5, <1>7, <1>9 DEF IInv, Promote, TableIsNewest, HistoryInOrder,
     Stale!Supersedes

LEMMA EvictKeeps ==
  ASSUME IInv, NEW k \in Keys, Evict(k)
  PROVE  IInv'
<1>1. TypeOK'
  BY DEF IInv, TypeOK, Evict
<1>2. \A l \in Keys : hot'[l] # Null => hot'[l] = hot[l]
  BY DEF IInv, TypeOK, Evict
<1>3. HotIsFresh'
  BY <1>2 DEF IInv, HotIsFresh, Evict, Stale!FreshWithin, Stale!Supersedes
<1> QED
  BY <1>1, <1>3 DEF IInv, Evict, TableIsNewest, HistoryInOrder, FetchedIsFresh, AtPromote,
     AnswersAreFresh, BoundedStaleness, TableNotBehindGets,
     Stale!FreshWithin, Stale!Supersedes

(* A commit cannot make anything that was read, promoted or answered       *)
(* earlier less fresh than it was then, and it is the newest of its key.   *)
LEMMA PipelineWriteKeeps ==
  ASSUME IInv, NEW k \in Keys, NEW ttl \in RowTTLs, NEW json \in BOOLEAN,
         PipelineWrite(k, ttl, json)
  PROVE  IInv'
<1> DEFINE new == [key |-> k, symbol |-> SymbolOf[k], version |-> last + 1,
                   json |-> json, committed |-> now, expires |-> now + ttl]
<1>1. new \in Row
  BY TimesAreNat DEF IInv, TypeOK, Row
<1>2. /\ table' = {r \in table : r.key # k} \cup {new}
      /\ written' = written \cup {new}
      /\ last' = last + 1
      /\ UNCHANGED <<now, hot, req, ans, seen, crossed>>
  BY DEF PipelineWrite, UpsertBatch, KeysOf
<1> HIDE DEF new
<1>3. new.committed = now /\ new.version = last + 1 /\ new.key = k
  BY DEF new
<1>4. TypeOK'
  BY <1>1, <1>2 DEF IInv, TypeOK
<1>5. \A w \in written : w \in Row /\ w.version \in Nat /\ w.version <= last
  BY DEF IInv, TypeOK, HistoryInOrder, Row
<1>6. TableIsNewest'
  <2>1. table' \subseteq written'
    BY <1>2 DEF IInv, TableIsNewest
  <2>2. ASSUME NEW r \in table', NEW w \in written'
        PROVE  ~Stale!Supersedes(w, r)
    <3>1. CASE r = new
      BY <1>2, <1>3, <1>5, <3>1 DEF IInv, TypeOK, Stale!Supersedes
    <3>2. CASE r # new
      <4>1. r \in table /\ r.key # k
        BY <1>2, <3>2
      <4> QED BY <1>2, <1>3, <4>1 DEF IInv, TableIsNewest, Stale!Supersedes
    <3> QED BY <3>1, <3>2
  <2> QED BY <2>1, <2>2 DEF TableIsNewest, Stale!Supersedes
<1>7. HistoryInOrder'
  BY <1>2, <1>3, <1>5 DEF IInv, TypeOK, HistoryInOrder
<1>8. ASSUME NEW r, NEW at \in Nat, NEW span \in Nat, at <= now,
             Stale!FreshWithin(r, at, span, written)
      PROVE  Stale!FreshWithin(r, at, span, written \cup {new})
  <2>1. written \in SUBSET Row /\ at <= new.committed
    BY <1>3, <1>8 DEF IInv, TypeOK
  <2> QED BY <1>1, <1>8, <2>1, FreshAfterCommit
<1>9. FetchedIsFresh'
  <2>1. ASSUME NEW c \in Clients, AtPromote(c)
        PROVE  Stale!FreshWithin(req[c].row, req[c].readAt, 0, written \cup {new})
    BY <1>8, <2>1, PromoteType DEF IInv, FetchedIsFresh
  <2> QED
    BY <1>2, <2>1 DEF IInv, FetchedIsFresh, AtPromote,
       Stale!FreshWithin, Stale!Supersedes
<1>10. HotIsFresh'
  <2>1. ASSUME NEW l \in Keys, hot[l] # Null
        PROVE  Stale!FreshWithin(hot[l].row, hot[l].at, MaxDelay, written \cup {new})
    BY <1>8, <2>1, HotType, TimesAreNat DEF IInv, HotIsFresh
  <2> QED
    BY <1>2, <2>1 DEF IInv, HotIsFresh, Stale!FreshWithin, Stale!Supersedes
<1>11. AnswersAreFresh'
  <2>1. ASSUME NEW c \in Clients, ans[c] # Null,
               ans[c].outcome \in {"value", "parse_error"}
        PROVE  Stale!FreshWithin(ans[c].row, ans[c].at, MemTTL + MaxDelay, written \cup {new})
    <3>1. ans[c].at \in Nat /\ ans[c].at <= now
      BY <2>1 DEF IInv, TypeOK, AnswersAreFresh, RowAnswer, NoRowAnswer
    <3>2. Stale!FreshWithin(ans[c].row, ans[c].at, MemTTL + MaxDelay, written)
      BY <2>1 DEF IInv, AnswersAreFresh, BoundedStaleness
    <3>3. MemTTL + MaxDelay \in Nat
      BY TimesAreNat
    <3> QED BY <1>8, <3>1, <3>2, <3>3
  <2> QED
    BY <1>2, <2>1 DEF IInv, AnswersAreFresh, BoundedStaleness,
       Stale!FreshWithin, Stale!Supersedes
<1>12. TableNotBehindGets'
  <2>1. \A l \in Keys : seen[l] \in Nat /\ seen[l] <= last
    BY DEF IInv, TypeOK, TableNotBehindGets
  <2>2. ASSUME NEW r \in table' PROVE r.version >= seen[r.key]
    BY <1>2, <1>3, <2>1 DEF IInv, TypeOK, TableNotBehindGets
  <2>3. seen' = seen
    BY <1>2
  <2>4. \A l \in Keys : seen[l] <= last'
    BY <1>2, <2>1 DEF IInv, TypeOK
  <2> QED BY <2>2, <2>3, <2>4 DEF TableNotBehindGets
<1> QED BY <1>4, <1>6, <1>7, <1>9, <1>10, <1>11, <1>12 DEF IInv

LEMMA PipelineCleanupKeeps ==
  ASSUME IInv, PipelineCleanup
  PROVE  IInv'
<1>1. table' \subseteq table
  BY DEF PipelineCleanup, ExpireStale
<1> QED
  BY <1>1 DEF IInv, TypeOK, PipelineCleanup, TableIsNewest, HistoryInOrder,
     FetchedIsFresh, AtPromote, HotIsFresh, AnswersAreFresh, BoundedStaleness,
     TableNotBehindGets, Stale!FreshWithin, Stale!Supersedes

LEMMA TickKeeps ==
  ASSUME IInv, Tick
  PROVE  IInv'
<1>1. now \in Nat /\ now' = now + 1
  BY DEF IInv, TypeOK, Tick
<1>2. TypeOK'
  BY <1>1 DEF IInv, TypeOK, Tick
<1>3. HistoryInOrder'
  BY <1>1 DEF IInv, TypeOK, HistoryInOrder, Tick, Row
<1>4. ASSUME NEW c \in Clients, AtPromote(c)
      PROVE  req[c].readAt <= now' /\ now' <= req[c].readAt + MaxDelay
  BY <1>1, <1>4, PromoteType, TimesAreNat DEF IInv, FetchedIsFresh, Tick
<1>5. FetchedIsFresh'
  BY <1>4 DEF IInv, FetchedIsFresh, AtPromote, Tick, Stale!FreshWithin, Stale!Supersedes
<1>6. HotIsFresh'
  BY <1>1, HotType DEF IInv, HotIsFresh, Tick, Stale!FreshWithin, Stale!Supersedes
<1>7. AnswersAreFresh'
  <2>1. \A c \in Clients : ans[c] # Null => ans[c].at \in Nat /\ ans[c].at <= now
    BY DEF IInv, TypeOK, AnswersAreFresh, RowAnswer, NoRowAnswer
  <2> QED
    BY <1>1, <2>1 DEF IInv, AnswersAreFresh, BoundedStaleness, Tick,
       Stale!FreshWithin, Stale!Supersedes
<1> QED
  BY <1>2, <1>3, <1>5, <1>6, <1>7 DEF IInv, Tick, TableIsNewest, TableNotBehindGets,
     Stale!Supersedes

LEMMA StutterKeeps ==
  ASSUME IInv, UNCHANGED vars
  PROVE  IInv'
BY DEF IInv, vars, TypeOK, TableIsNewest, HistoryInOrder, FetchedIsFresh, AtPromote,
   HotIsFresh, AnswersAreFresh, BoundedStaleness, TableNotBehindGets,
   Stale!FreshWithin, Stale!Supersedes

LEMMA NextKeeps ==
  ASSUME IInv, [Next]_vars
  PROVE  IInv'
<1>1. ASSUME NEW c \in Clients, NEW k \in Keys, NEW typed \in BOOLEAN,
             GetHit(c, k, typed) \/ GetMiss(c, k, typed)
      PROVE  IInv'
  BY <1>1, GetHitKeeps, GetMissKeeps
<1>2. ASSUME NEW c \in Clients, CallStep(c)
      PROVE  IInv'
  BY <1>2, QueryFindsRowKeeps, QueryEndsKeeps, PromoteKeeps DEF CallStep
<1>3. ASSUME NEW k \in Keys, Evict(k)
      PROVE  IInv'
  BY <1>3, EvictKeeps
<1>4. ASSUME NEW k \in Keys, NEW ttl \in RowTTLs, NEW json \in BOOLEAN,
             PipelineWrite(k, ttl, json)
      PROVE  IInv'
  BY <1>4, PipelineWriteKeeps
<1>5. CASE PipelineCleanup
  BY <1>5, PipelineCleanupKeeps
<1>6. CASE Tick
  BY <1>6, TickKeeps
<1>7. CASE UNCHANGED vars
  BY <1>7, StutterKeeps
<1> QED BY <1>1, <1>2, <1>3, <1>4, <1>5, <1>6, <1>7 DEF Next

-------------------------------------------------------------------------------
(* The invariant holds of every reachable state.                           *)
THEOREM InvariantHolds == Spec => []IInv
<1>1. Init => IInv
  BY InitIInv
<1>2. IInv /\ [Next]_vars => IInv'
  BY NextKeeps
<1> QED BY <1>1, <1>2, PTL DEF Spec

(* Type correctness: a key of moka holds only values of that key's type of *)
(* entry, a call in flight is in one of its two phases, and so on, for     *)
(* every reachable state of the read-through cache.                        *)
THEOREM TypeCorrect == Spec => []TypeOK
<1>1. IInv => TypeOK
  BY DEF IInv
<1> QED BY <1>1, InvariantHolds, PTL

(* Whatever the interleaving of callers, evictions, upserts and clean-ups, *)
(* get and get_json answer with a row that was current and unexpired at    *)
(* most MemTTL + MaxDelay before.                                          *)
THEOREM StalenessIsBounded == Spec => []BoundedStaleness
<1>1. IInv => BoundedStaleness
  BY DEF IInv, AnswersAreFresh
<1> QED BY <1>1, InvariantHolds, PTL

(* A snapshot of a symbol is never older than what get returned before.    *)
THEOREM SnapshotNeverBehind == Spec => []SnapshotNotBehindGets
<1>1. IInv => SnapshotNotBehindGets
  BY DEF IInv, TableNotBehindGets, SnapshotNotBehindGets, DomainSnapshot, GetBySymbol, Live
<1> QED BY <1>1, InvariantHolds, PTL

-------------------------------------------------------------------------------
(* The cache implements the abstract promise: every step is a step of      *)
(* StaleCache or leaves its variables alone.                               *)

LEMMA AnswerWithReplies ==
  ASSUME IInv, NEW c \in Clients, NEW typed \in BOOLEAN, NEW r \in Row,
         Stale!FreshWithin(r, now, MemTTL + MaxDelay, written),
         AnswerWith(c, typed, r),
         UNCHANGED <<now, table, written>>
  PROVE  Stale!Reply(c)
<1> DEFINE a == [outcome |-> Outcome(typed, r), key |-> r.key, row |-> r, at |-> now]
<1>1. ans' = [ans EXCEPT ![c] = a] /\ ans \in [Clients -> RowAnswer \cup NoRowAnswer \cup {Null}]
  BY DEF IInv, TypeOK, AnswerWith
<1>2. /\ a.outcome \in {"value", "parse_error"}
      /\ a.outcome = "parse_error" => ~r.json
      /\ a \in RowAnswer
  BY DEF IInv, TypeOK, Outcome, RowAnswer, Row
<1> HIDE DEF a
<1>3. ans'[c] = a /\ a # Null /\ \A d \in Clients \ {c} : ans'[d] = ans[d]
  BY <1>1, <1>2, NullIsNoRecord
<1>4. a.at = now /\ a.row = r
  BY DEF a
<1>5. Stale!AnswerRow(c)
  BY <1>2, <1>3, <1>4 DEF Stale!AnswerRow
<1> QED BY <1>3, <1>5 DEF Stale!Reply

LEMMA AnswerWithoutReplies ==
  ASSUME IInv, NEW c \in Clients, NEW k \in Keys,
         NEW outcome \in {"nothing", "unavailable"}, AnswerWithout(c, k, outcome),
         outcome = "nothing" => GetByKey(table, k, now) = {},
         UNCHANGED <<now, table, written>>
  PROVE  Stale!Reply(c)
<1> DEFINE a == [outcome |-> outcome, key |-> k, at |-> now]
<1>1. ans' = [ans EXCEPT ![c] = a] /\ ans \in [Clients -> RowAnswer \cup NoRowAnswer \cup {Null}]
  BY DEF IInv, TypeOK, AnswerWithout
<1>2. a.outcome = outcome /\ a.key = k /\ a \in NoRowAnswer
  BY DEF IInv, TypeOK, NoRowAnswer
<1> HIDE DEF a
<1>3. ans'[c] = a /\ a # Null /\ \A d \in Clients \ {c} : ans'[d] = ans[d]
  BY <1>1, <1>2, NullIsNoRecord
<1>4. CASE outcome = "nothing"
  <2>1. Stale!GetByKey(table, k, now) = {}
    BY <1>4 DEF GetByKey, Live, Stale!GetByKey, Stale!Live
  <2> QED BY <1>2, <1>3, <1>4, <2>1 DEF Stale!AnswerNothing, Stale!Reply
<1>5. CASE outcome = "unavailable"
  BY <1>2, <1>3, <1>5 DEF Stale!AnswerError, Stale!Reply
<1> QED BY <1>4, <1>5

LEMMA StepSimulates ==
  ASSUME IInv, [Next]_vars
  PROVE  [Stale!StaleNext]_(Stale!staleVars)
<1> USE DEF Stale!StaleNext, Stale!staleVars
<1>1. ASSUME NEW c \in Clients, NEW k \in Keys, NEW typed \in BOOLEAN, GetHit(c, k, typed)
      PROVE  Stale!StaleNext
  <2>1. hot[k] # Null /\ hot[k].row \in Row /\ hot[k].at \in Nat
    BY <1>1, HotType DEF IInv, GetHit, HotVisible
  <2>2. Stale!FreshWithin(hot[k].row, now, MemTTL + MaxDelay, written)
    BY <1>1, <2>1, FreshLater, TimesAreNat
       DEF IInv, TypeOK, HotIsFresh, GetHit, HotVisible
  <2> QED BY <1>1, <2>1, <2>2, AnswerWithReplies DEF GetHit
<1>2. ASSUME NEW c \in Clients, NEW k \in Keys, NEW typed \in BOOLEAN, GetMiss(c, k, typed)
      PROVE  UNCHANGED Stale!staleVars
  BY <1>2 DEF GetMiss
<1>3. ASSUME NEW c \in Clients, QueryFindsRow(c)
      PROVE  UNCHANGED Stale!staleVars
  BY <1>3 DEF QueryFindsRow
<1>4. ASSUME NEW c \in Clients, QueryFindsNothing(c) \/ QueryFails(c)
      PROVE  Stale!StaleNext
  <2>1. req[c].key \in Keys
    BY <1>4, QueryType DEF IInv, QueryFindsNothing, QueryFails
  <2>2. CASE QueryFindsNothing(c)
    <3>1. AnswerWithout(c, req[c].key, "nothing") /\ GetByKey(table, req[c].key, now) = {}
      BY <2>2 DEF QueryFindsNothing
    <3>2. UNCHANGED <<now, table, written>>
      BY <2>2 DEF QueryFindsNothing
    <3> QED BY <2>1, <3>1, <3>2, AnswerWithoutReplies
  <2>3. CASE QueryFails(c)
    <3>1. AnswerWithout(c, req[c].key, "unavailable") /\ UNCHANGED <<now, table, written>>
      BY <2>3 DEF QueryFails
    <3> QED BY <2>1, <3>1, AnswerWithoutReplies
  <2> QED BY <1>4, <2>2, <2>3
<1>5. ASSUME NEW c \in Clients, Promote(c)
      PROVE  Stale!StaleNext
  <2>1. /\ req[c].row \in Row
        /\ req[c].typed \in BOOLEAN
        /\ req[c].readAt \in Nat
        /\ AtPromote(c)
    BY <1>5, PromoteType DEF IInv, Promote
  <2>2. Stale!FreshWithin(req[c].row, now, MemTTL + MaxDelay, written)
    <3>1. /\ now \in Nat
          /\ written \in SUBSET Row
          /\ now <= req[c].readAt + MaxDelay
          /\ Stale!FreshWithin(req[c].row, req[c].readAt, 0, written)
      BY <2>1 DEF IInv, TypeOK, FetchedIsFresh
    <3> QED BY <2>1, <3>1, FreshLater, TimesAreNat
  <2> QED BY <1>5, <2>1, <2>2, AnswerWithReplies DEF Promote
<1>6. ASSUME NEW k \in Keys, Evict(k)
      PROVE  UNCHANGED Stale!staleVars
  BY <1>6 DEF Evict
<1>7. ASSUME NEW k \in Keys, NEW ttl \in RowTTLs, NEW json \in BOOLEAN,
             PipelineWrite(k, ttl, json)
      PROVE  Stale!StaleNext
  <2> DEFINE new == [key |-> k, symbol |-> SymbolOf[k], version |-> last + 1,
                     json |-> json, committed |-> now, expires |-> now + ttl]
  <2>1. /\ table' = UpsertBatch(table, {new})
        /\ written' = written \cup {new}
        /\ UNCHANGED <<now, ans>>
    BY <1>7 DEF PipelineWrite
  <2>2. new.committed = now /\ \A w \in written : w.version < new.version
    BY DEF IInv, TypeOK, HistoryInOrder, Row
  <2> HIDE DEF new
  <2>3. new \in written'
    BY <2>1
  <2>4. table' = Stale!UpsertBatch(table, {new})
    BY <2>1 DEF UpsertBatch, KeysOf, Stale!UpsertBatch, Stale!KeysOf
  <2> QED BY <2>1, <2>2, <2>3, <2>4 DEF Stale!Commit
<1>8. CASE PipelineCleanup
  <2>1. /\ table' = {r \in table : ~(r.expires < now)}
        /\ UNCHANGED <<now, written, ans>>
    BY <1>8 DEF PipelineCleanup, ExpireStale
  <2> QED BY <2>1 DEF Stale!Purge
<1>9. CASE Tick
  BY <1>9 DEF Tick, Stale!Pass
<1>10. CASE UNCHANGED vars
  BY <1>10 DEF vars
<1> QED
  BY <1>1, <1>2, <1>3, <1>4, <1>5, <1>6, <1>7, <1>8, <1>9, <1>10 DEF Next, CallStep

(* The read-through cache implements StaleCache: what a call returns was   *)
(* current at most MemTTL + MaxDelay ago, "nothing" is exact, and nothing  *)
(* but expired rows ever disappears.                                       *)
THEOREM ImplementsStaleCache == Spec => StaleSpec
<1>1. Init => Stale!StaleInit /\ now = 0
  BY DEF Init, Stale!StaleInit
<1>2. IInv /\ [Next]_vars => [Stale!StaleNext]_(Stale!staleVars)
  BY StepSimulates
<1> QED BY <1>1, <1>2, InvariantHolds, PTL DEF Spec, StaleSpec, Stale!StaleSpec

-------------------------------------------------------------------------------
(* Monotonic reads of a key whose calls never missed moka together: nobody *)
(* else can promote an older row between a SELECT and its promotion, and   *)
(* nobody can hit moka meanwhile.                                          *)

AloneInFlight ==
  \A k \in Keys : ~crossed[k] =>
    /\ \A c, d \in Clients : InFlight(c, k) /\ InFlight(d, k) => c = d
    /\ \A c \in Clients : InFlight(c, k) => ~HotVisible(k)

NothingBehindSeen ==
  \A k \in Keys : ~crossed[k] =>
    /\ \A c \in Clients : AtPromote(c) /\ req[c].key = k => req[c].row.version >= seen[k]
    /\ hot[k] # Null => hot[k].row.version >= seen[k]

LEMMA AloneInFlightKept ==
  ASSUME IInv, AloneInFlight, [Next]_vars
  PROVE  AloneInFlight'
<1> USE DEF AloneInFlight, InFlight, HotVisible
<1>1. ASSUME NEW c \in Clients, NEW k \in Keys, NEW typed \in BOOLEAN, GetHit(c, k, typed)
      PROVE  AloneInFlight'
  BY <1>1 DEF GetHit
<1>2. ASSUME NEW c \in Clients, NEW k \in Keys, NEW typed \in BOOLEAN, GetMiss(c, k, typed)
      PROVE  AloneInFlight'
  <2>1. ASSUME NEW l \in Keys, ~crossed'[l], NEW d \in Clients, InFlight(d, l)'
        PROVE  IF l = k THEN d = c /\ ~HotVisible(k) ELSE InFlight(d, l) /\ ~crossed[l]
    BY <1>2, <2>1 DEF IInv, TypeOK, GetMiss
  <2> QED BY <1>2, <2>1 DEF GetMiss
<1>3. ASSUME NEW c \in Clients, QueryFindsRow(c)
      PROVE  AloneInFlight'
  <2>1. \A d \in Clients, k \in Keys : InFlight(d, k)' => InFlight(d, k)
    BY <1>3 DEF IInv, TypeOK, QueryFindsRow, AtQuery
  <2> QED BY <1>3, <2>1 DEF QueryFindsRow
<1>4. ASSUME NEW c \in Clients, QueryFindsNothing(c) \/ QueryFails(c)
      PROVE  AloneInFlight'
  <2>1. \A d \in Clients, k \in Keys : InFlight(d, k)' => InFlight(d, k)
    BY <1>4 DEF IInv, TypeOK, QueryFindsNothing, QueryFails
  <2> QED BY <1>4, <2>1 DEF QueryFindsNothing, QueryFails
<1>5. ASSUME NEW c \in Clients, Promote(c)
      PROVE  AloneInFlight'
  <2>1. \A d \in Clients, k \in Keys : InFlight(d, k)' => InFlight(d, k) /\ d # c
    BY <1>5 DEF IInv, TypeOK, Promote
  <2>2. InFlight(c, req[c].key) /\ UNCHANGED <<now, crossed>>
    BY <1>5 DEF Promote, AtPromote
  <2>3. \A k \in Keys : k # req[c].key => hot'[k] = hot[k]
    BY <1>5 DEF IInv, TypeOK, Promote
  <2> QED BY <2>1, <2>2, <2>3
<1>6. ASSUME NEW k \in Keys, Evict(k)
      PROVE  AloneInFlight'
  <2>1. \A l \in Keys : HotVisible(l)' => HotVisible(l)
    BY <1>6 DEF IInv, TypeOK, Evict
  <2> QED BY <1>6, <2>1 DEF Evict
<1>7. ASSUME NEW k \in Keys, NEW ttl \in RowTTLs, NEW json \in BOOLEAN,
             PipelineWrite(k, ttl, json)
      PROVE  AloneInFlight'
  BY <1>7 DEF PipelineWrite
<1>8. CASE PipelineCleanup
  BY <1>8 DEF PipelineCleanup
<1>9. CASE Tick
  <2>1. \A l \in Keys : HotVisible(l)' => HotVisible(l)
    <3>1. \A l \in Keys : hot[l] # Null => hot[l].at \in Nat
      BY DEF IInv, TypeOK, Entry
    <3> QED BY <1>9, <3>1, TimesAreNat DEF IInv, TypeOK, Tick
  <2> QED BY <1>9, <2>1 DEF Tick
<1>10. CASE UNCHANGED vars
  BY <1>10 DEF vars
<1> QED
  BY <1>1, <1>2, <1>3, <1>4, <1>5, <1>6, <1>7, <1>8, <1>9, <1>10 DEF Next, CallStep

LEMMA NothingBehindSeenKept ==
  ASSUME IInv, AloneInFlight, NothingBehindSeen, [Next]_vars
  PROVE  NothingBehindSeen'
<1> USE DEF NothingBehindSeen
<1>1. ASSUME NEW c \in Clients, NEW k \in Keys, NEW typed \in BOOLEAN, GetHit(c, k, typed)
      PROVE  NothingBehindSeen'
  <2>1. /\ hot[k] # Null /\ hot[k].row \in Row /\ hot[k].row.key = k
        /\ HotVisible(k)
        /\ UNCHANGED <<hot, req, crossed>>
    BY <1>1, HotType DEF IInv, HotIsFresh, GetHit, HotVisible
  <2>2. seen' = [seen EXCEPT ![k] = IF hot[k].row.version > @ THEN hot[k].row.version ELSE @]
    BY <1>1, <2>1 DEF GetHit, AnswerWith
  <2>3. \A l \in Keys : l # k => seen'[l] = seen[l]
    BY <2>2 DEF IInv, TypeOK
  <2>4. ASSUME ~crossed[k]
        PROVE  seen'[k] = hot[k].row.version /\ \A d \in Clients : ~InFlight(d, k)
    <3>1. seen[k] \in Nat /\ hot[k].row.version >= seen[k] /\ hot[k].row.version \in Nat
      BY <2>1, <2>4 DEF IInv, TypeOK, Row
    <3>2. seen'[k] = IF hot[k].row.version > seen[k] THEN hot[k].row.version ELSE seen[k]
      BY <2>2 DEF IInv, TypeOK
    <3>3. seen'[k] = hot[k].row.version
      BY <3>1, <3>2
    <3> QED BY <2>1, <2>4, <3>3 DEF AloneInFlight
  <2>5. hot[k].row.version \in Nat
    BY <2>1 DEF Row
  <2> QED BY <2>1, <2>3, <2>4, <2>5 DEF InFlight, AtPromote
<1>2. ASSUME NEW c \in Clients, NEW k \in Keys, NEW typed \in BOOLEAN, GetMiss(c, k, typed)
      PROVE  NothingBehindSeen'
  <2>1. \A l \in Keys : ~crossed'[l] => ~crossed[l]
    BY <1>2 DEF IInv, TypeOK, GetMiss
  <2> QED BY <1>2, <2>1 DEF IInv, TypeOK, GetMiss, AtPromote
<1>3. ASSUME NEW c \in Clients, QueryFindsRow(c)
      PROVE  NothingBehindSeen'
  <2>1. PICK r \in GetByKey(table, req[c].key, now) :
          req' = [req EXCEPT ![c] = [step |-> "promote", key |-> req[c].key,
                                     typed |-> req[c].typed, row |-> r, readAt |-> now]]
    BY <1>3 DEF QueryFindsRow
  <2>2. r.version >= seen[req[c].key]
    BY DEF IInv, TableNotBehindGets, GetByKey, Live
  <2>3. \A d \in Clients : AtPromote(d)' => \/ req'[d].row.version >= seen[req'[d].key]
                                            \/ req'[d] = req[d] /\ AtPromote(d)
    BY <2>1, <2>2 DEF IInv, TypeOK, AtPromote
  <2> QED BY <1>3, <2>3 DEF QueryFindsRow
<1>4. ASSUME NEW c \in Clients, QueryFindsNothing(c) \/ QueryFails(c)
      PROVE  NothingBehindSeen'
  BY <1>4 DEF IInv, TypeOK, QueryFindsNothing, QueryFails, AnswerWithout, AtPromote
<1>5. ASSUME NEW c \in Clients, Promote(c)
      PROVE  NothingBehindSeen'
  <2> DEFINE k == req[c].key
             r == req[c].row
  <2>1. /\ AtPromote(c)
        /\ k \in Keys
        /\ r \in Row
        /\ r.key = k
        /\ hot' = [hot EXCEPT ![k] = [row |-> r, at |-> now]]
        /\ req' = [req EXCEPT ![c] = Null]
        /\ AnswerWith(c, req[c].typed, r)
        /\ crossed' = crossed
    BY <1>5, PromoteType DEF IInv, FetchedIsFresh, Promote
  <2>2. \A d \in Clients : AtPromote(d)' => d # c /\ req'[d] = req[d] /\ AtPromote(d)
    BY <2>1 DEF IInv, TypeOK, AtPromote
  <2>3. InFlight(c, k) /\ \A d \in Clients : AtPromote(d) => InFlight(d, req[d].key)
    BY <2>1 DEF AtPromote, InFlight
  <2>4. AtPromote(c) /\ req[c].key = k /\ req[c].row = r
    BY <2>1
  <2> HIDE DEF k, r
  <2>5. seen' = [seen EXCEPT ![k] = IF r.version > @ THEN r.version ELSE @]
    BY <2>1 DEF AnswerWith
  <2>6. ASSUME NEW l \in Keys, l # k
        PROVE  seen'[l] = seen[l] /\ hot'[l] = hot[l]
    BY <2>1, <2>5, <2>6 DEF IInv, TypeOK
  <2>7. ASSUME ~crossed[k]
        PROVE  /\ \A d \in Clients : AtPromote(d)' => req'[d].key # k
               /\ hot'[k].row.version >= seen'[k]
    <3>1. seen[k] \in Nat /\ r.version >= seen[k] /\ r.version \in Nat
      BY <2>1, <2>4, <2>7 DEF IInv, TypeOK, Row
    <3>2. seen'[k] = IF r.version > seen[k] THEN r.version ELSE seen[k]
      BY <2>1, <2>5 DEF IInv, TypeOK
    <3>3. hot'[k].row = r
      BY <2>1 DEF IInv, TypeOK
    <3>4. \A d \in Clients : AtPromote(d)' => req'[d].key # k
      BY <2>1, <2>2, <2>3, <2>7 DEF AloneInFlight
    <3> QED BY <3>1, <3>2, <3>3, <3>4
  <2> QED BY <2>1, <2>2, <2>6, <2>7
<1>6. ASSUME NEW k \in Keys, Evict(k)
      PROVE  NothingBehindSeen'
  BY <1>6 DEF IInv, TypeOK, Evict, AtPromote
<1>7. ASSUME NEW k \in Keys, NEW ttl \in RowTTLs, NEW json \in BOOLEAN,
             PipelineWrite(k, ttl, json)
      PROVE  NothingBehindSeen'
  BY <1>7 DEF PipelineWrite, AtPromote
<1>8. CASE PipelineCleanup
  BY <1>8 DEF PipelineCleanup, AtPromote
<1>9. CASE Tick
  BY <1>9 DEF Tick, AtPromote
<1>10. CASE UNCHANGED vars
  BY <1>10 DEF vars, AtPromote
<1> QED
  BY <1>1, <1>2, <1>3, <1>4, <1>5, <1>6, <1>7, <1>8, <1>9, <1>10 DEF Next, CallStep

LEMMA UncrossedStep ==
  ASSUME IInv, NothingBehindSeen, [Next]_vars
  PROVE  [MonotonicStep]_vars
<1> USE DEF MonotonicStep, NothingBehindSeen
<1>1. ASSUME NEW c \in Clients, NEW k \in Keys, NEW typed \in BOOLEAN, GetHit(c, k, typed)
      PROVE  MonotonicStep
  <2>1. hot[k] # Null /\ hot[k].row.key = k
    BY <1>1 DEF IInv, HotIsFresh, GetHit, HotVisible
  <2> QED BY <1>1, <2>1 DEF IInv, TypeOK, GetHit, AnswerWith
<1>2. ASSUME NEW c \in Clients, QueryFindsNothing(c) \/ QueryFails(c)
      PROVE  MonotonicStep
  BY <1>2 DEF IInv, TypeOK, QueryFindsNothing, QueryFails, AnswerWithout
<1>3. ASSUME NEW c \in Clients, Promote(c)
      PROVE  MonotonicStep
  <2>1. AtPromote(c) /\ req[c].key \in Keys /\ req[c].row.key = req[c].key
    BY <1>3, PromoteType DEF IInv, FetchedIsFresh, Promote
  <2> QED BY <1>3, <2>1 DEF IInv, TypeOK, Promote, AnswerWith
<1>4. CASE UNCHANGED ans
  BY <1>4
<1> QED
  BY <1>1, <1>2, <1>3, <1>4 DEF Next, CallStep, GetMiss, QueryFindsRow, Evict,
     PipelineWrite, PipelineCleanup, Tick, vars

(* Unless two calls of a key have missed moka at the same time, callers    *)
(* never see the key go back to an older value, whatever the pipeline, the *)
(* clock and evictions do.                                                 *)
THEOREM ReadsAreMonotonic == Spec => MonotonicReads
<1>1. Init => AloneInFlight /\ NothingBehindSeen
  BY DEF Init, AloneInFlight, NothingBehindSeen, AtPromote, InFlight
<1>2. IInv /\ AloneInFlight /\ [Next]_vars => AloneInFlight'
  BY AloneInFlightKept
<1>3. IInv /\ AloneInFlight /\ NothingBehindSeen /\ [Next]_vars => NothingBehindSeen'
  BY NothingBehindSeenKept
<1>4. IInv /\ NothingBehindSeen /\ [Next]_vars => [MonotonicStep]_vars
  BY UncrossedStep
<1> QED BY <1>1, <1>2, <1>3, <1>4, InvariantHolds, PTL DEF Spec, MonotonicReads
===============================================================================
