------------------------------ MODULE CacheReader -----------------------------
(***************************************************************************)
(* The read-through cache of crates/tirds-cache: concurrent get and        *)
(* get_json calls look in the moka hot cache, then in SQLite, and promote  *)
(* what SQLite returns.  The table changes underneath them: another        *)
(* process, the loader, upserts rows and deletes expired ones.             *)
(*                                                                         *)
(* moka holds only the value of a row.  The model keeps the whole row in   *)
(* the hot cache and in the answers so that the properties can ask which   *)
(* row a value came from; no action looks at its version or commit time.   *)
(***************************************************************************)
EXTENDS CacheTable

CONSTANTS
  Clients,    \* concurrent callers of get and get_json
  Keys,       \* cache keys
  SymbolOf,   \* the symbol column of each key's rows
  RowTTLs,    \* the time-to-live values the pipeline writes rows with
  MemTTL,     \* memory_ttl_seconds, the time-to-live of moka entries
  MaxDelay,   \* longest time from a SELECT to the promotion of its row
  MaxTime,    \* bound on the clock
  MaxWrites,  \* bound on the number of rows ever written
  Null        \* no row, no entry, no call, no answer

ASSUME TimesAreNat ==
  /\ RowTTLs \subseteq Nat
  /\ MemTTL \in Nat
  /\ MaxDelay \in Nat
  /\ MaxTime \in Nat
  /\ MaxWrites \in Nat

Row == [key : Keys, symbol : {SymbolOf[k] : k \in Keys}, version : Nat,
        json : BOOLEAN, committed : Nat, expires : Nat]
Entry == [row : Row, at : Nat]
Lookup == [step : {"query"}, key : Keys, typed : BOOLEAN]
Fetched == [step : {"promote"}, key : Keys, typed : BOOLEAN, row : Row, readAt : Nat]
RowAnswer == [outcome : {"value", "parse_error"}, key : Keys, row : Row, at : Nat]
NoRowAnswer == [outcome : {"nothing", "unavailable"}, key : Keys, at : Nat]

ASSUME NullIsNoRecord ==
  Null \notin Row \cup Entry \cup Lookup \cup Fetched \cup RowAnswer \cup NoRowAnswer

VARIABLES
  now,      \* the clock
  table,    \* the rows of cache_entries
  written,  \* every row ever committed (history)
  last,     \* the version of the last committed row (history)
  hot,      \* the moka cache: per key the value and its insertion time
  req,      \* per client the call in flight
  ans,      \* per client what its last finished call returned, and when
  seen,     \* per key the highest version any call returned (history)
  crossed   \* per key whether two calls of it have been in flight together (history)

vars == <<now, table, written, last, hot, req, ans, seen, crossed>>

TypeOK ==
  /\ now \in Nat
  /\ table \subseteq Row
  /\ written \subseteq Row
  /\ last \in Nat
  /\ hot \in [Keys -> Entry \cup {Null}]
  /\ req \in [Clients -> Lookup \cup Fetched \cup {Null}]
  /\ ans \in [Clients -> RowAnswer \cup NoRowAnswer \cup {Null}]
  /\ seen \in [Keys -> Nat]
  /\ crossed \in [Keys -> BOOLEAN]

Init ==
  /\ now = 0
  /\ table = {}
  /\ written = {}
  /\ last = 0
  /\ hot = [k \in Keys |-> Null]
  /\ req = [c \in Clients |-> Null]
  /\ ans = [c \in Clients |-> Null]
  /\ seen = [k \in Keys |-> 0]
  /\ crossed = [k \in Keys |-> FALSE]

-------------------------------------------------------------------------------
(* Variant of Outcome: a value that does not parse counts as no cache. *)
UnparsedIsUnavailable(typed, r) == IF typed /\ ~r.json THEN "unavailable" ELSE "value"

(* The end of a call: get parses the value, get_json hands it out as it is. *)
Outcome(typed, r) == IF typed /\ ~r.json THEN "parse_error" ELSE "value"

AnswerWith(c, typed, r) ==
  /\ ans' = [ans EXCEPT ![c] = [outcome |-> Outcome(typed, r), key |-> r.key,
                                row |-> r, at |-> now]]
  /\ seen' = [seen EXCEPT ![r.key] = IF r.version > @ THEN r.version ELSE @]

AnswerWithout(c, k, outcome) ==
  /\ ans' = [ans EXCEPT ![c] = [outcome |-> outcome, key |-> k, at |-> now]]
  /\ UNCHANGED seen

(* Variant of HotVisible: moka without its time_to_live. *)
HeldForever(k) == hot[k] # Null

(* An entry is in moka and no older than its time_to_live. *)
HotVisible(k) == hot[k] # Null /\ now < hot[k].at + MemTTL

(* memory.get returns a value: the call ends. *)
GetHit(c, k, typed) ==
  /\ req[c] = Null
  /\ HotVisible(k)
  /\ AnswerWith(c, typed, hot[k].row)
  /\ UNCHANGED <<now, table, written, last, hot, req, crossed>>

(* A call of the key has missed moka and has not returned. *)
InFlight(c, k) == req[c] # Null /\ req[c].key = k

(* memory.get returns nothing: go on to SQLite. *)
GetMiss(c, k, typed) ==
  /\ req[c] = Null
  /\ ~HotVisible(k)
  /\ req' = [req EXCEPT ![c] = [step |-> "query", key |-> k, typed |-> typed]]
  /\ crossed' = [crossed EXCEPT ![k] = @ \/ \E d \in Clients : InFlight(d, k)]
  /\ UNCHANGED <<now, table, written, last, hot, ans, seen>>

AtQuery(c) == req[c] # Null /\ req[c].step = "query"
AtPromote(c) == req[c] # Null /\ req[c].step = "promote"

(* Lock the connection, SELECT, unlock; a row is kept for the promotion. *)
QueryFindsRow(c) ==
  /\ AtQuery(c)
  /\ \E r \in GetByKey(table, req[c].key, now) :
       req' = [req EXCEPT ![c] = [step |-> "promote", key |-> req[c].key,
                                  typed |-> req[c].typed, row |-> r, readAt |-> now]]
  /\ UNCHANGED <<now, table, written, last, hot, ans, seen, crossed>>

QueryFindsNothing(c) ==
  /\ AtQuery(c)
  /\ GetByKey(table, req[c].key, now) = {}
  /\ req' = [req EXCEPT ![c] = Null]
  /\ AnswerWithout(c, req[c].key, "nothing")
  /\ UNCHANGED <<now, table, written, last, hot, crossed>>

(* A poisoned mutex or an SQLite error. *)
QueryFails(c) ==
  /\ AtQuery(c)
  /\ req' = [req EXCEPT ![c] = Null]
  /\ AnswerWithout(c, req[c].key, "unavailable")
  /\ UNCHANGED <<now, table, written, last, hot, crossed>>

(* Insert the row's value into moka, before parsing it, and answer. *)
Promote(c) ==
  /\ AtPromote(c)
  /\ hot' = [hot EXCEPT ![req[c].key] = [row |-> req[c].row, at |-> now]]
  /\ req' = [req EXCEPT ![c] = Null]
  /\ AnswerWith(c, req[c].typed, req[c].row)
  /\ UNCHANGED <<now, table, written, last, crossed>>

(* moka drops an entry: capacity, or housekeeping of expired ones. *)
Evict(k) ==
  /\ hot[k] # Null
  /\ hot' = [hot EXCEPT ![k] = Null]
  /\ UNCHANGED <<now, table, written, last, req, ans, seen, crossed>>

-------------------------------------------------------------------------------
(* The loader, seen from here: one committed row, one DELETE. *)

PipelineWrite(k, ttl, json) ==
  /\ last < MaxWrites
  /\ LET r == [key |-> k, symbol |-> SymbolOf[k], version |-> last + 1,
               json |-> json, committed |-> now, expires |-> now + ttl]
     IN  /\ table' = UpsertBatch(table, {r})
         /\ written' = written \cup {r}
  /\ last' = last + 1
  /\ UNCHANGED <<now, hot, req, ans, seen, crossed>>

PipelineCleanup ==
  /\ table' = ExpireStale(table, now)
  /\ table' # table
  /\ UNCHANGED <<now, written, last, hot, req, ans, seen, crossed>>

(* Time passes, but never more than MaxDelay between SELECT and promotion. *)
Tick ==
  /\ now < MaxTime
  /\ \A c \in Clients : AtPromote(c) => now < req[c].readAt + MaxDelay
  /\ now' = now + 1
  /\ UNCHANGED <<table, written, last, hot, req, ans, seen, crossed>>

CallStep(c) == QueryFindsRow(c) \/ QueryFindsNothing(c) \/ QueryFails(c) \/ Promote(c)

Next ==
  \/ \E c \in Clients, k \in Keys, typed \in BOOLEAN :
       GetHit(c, k, typed) \/ GetMiss(c, k, typed)
  \/ \E c \in Clients : CallStep(c)
  \/ \E k \in Keys : Evict(k)
  \/ \E k \in Keys, ttl \in RowTTLs, json \in BOOLEAN : PipelineWrite(k, ttl, json)
  \/ PipelineCleanup
  \/ Tick

Spec == Init /\ [][Next]_vars

-------------------------------------------------------------------------------
(* build_domain_snapshot: one SELECT by symbol that does not consult moka; *)
(* rows whose value does not parse are left out.                           *)
DomainSnapshot(s) == {r \in GetBySymbol(table, s, now) : r.json}

(* The promise of the abstract specification, with the slack of this one. *)
Stale == INSTANCE StaleCache WITH Slack <- MemTTL + MaxDelay

(* Every value or parse error a call has answered with came from a row     *)
(* that, at most MemTTL + MaxDelay before the answer, was the current one  *)
(* of its key and had not expired: neither the moka copy nor a promotion   *)
(* that raced a newer upsert can serve a value for longer.  In particular  *)
(* a malformed value promoted before it was parsed stops failing the calls *)
(* that long after the pipeline has repaired the row.                      *)
BoundedStaleness ==
  \A c \in Clients :
    (ans[c] # Null /\ ans[c].outcome \in {"value", "parse_error"}) =>
      Stale!FreshWithin(ans[c].row, ans[c].at, MemTTL + MaxDelay, written)

(* A domain snapshot never shows, for any key, a value older than one that *)
(* get or get_json has already handed out for that key.                    *)
SnapshotNotBehindGets ==
  \A k \in Keys : \A r \in DomainSnapshot(SymbolOf[k]) :
    r.version >= seen[r.key]

(* A call answers with no older a value of the key than any call before,   *)
(* unless two calls of the key have missed moka at the same time.          *)
MonotonicStep ==
  \A c \in Clients :
    (/\ ans'[c] # ans[c]
     /\ ans'[c].outcome \in {"value", "parse_error"}
     /\ ~crossed[ans'[c].key]) =>
      ans'[c].row.version >= seen[ans'[c].key]

(* Callers never see a key go back to an older value, across hits, expiry  *)
(* of the moka entry, eviction and reload, unless two of their calls have  *)
(* missed moka at the same time: then a row read before an upsert may be   *)
(* promoted after the newer one.                                           *)
MonotonicReads == [][MonotonicStep]_vars

(* The cache keeps the abstract promise, "nothing" being exact: a call     *)
(* answers None only when the table holds no live row for the key.         *)
StaleSpec == Stale!StaleSpec

(* Every row handed out had not expired when it was handed out. *)
ServedRowsAreLive ==
  \A c \in Clients :
    (ans[c] # Null /\ ans[c].outcome = "value") => ans[c].row.expires > ans[c].at
===============================================================================
