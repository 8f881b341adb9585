------------------------------ MODULE StaleCache ------------------------------
(***************************************************************************)
(* What the read-through cache promises its callers, whatever it keeps in  *)
(* memory: a call answers with a row that was committed, and that was the  *)
(* current, unexpired one at some instant no more than Slack ago; it       *)
(* answers that there is nothing only if there is nothing now.             *)
(***************************************************************************)
EXTENDS CacheTable

CONSTANTS
  Clients,  \* concurrent callers
  Keys,     \* cache keys
  Slack,    \* how long a superseded or expired row may still be answered
  Null      \* no answer yet, no row

VARIABLES
  now,      \* the clock
  table,    \* the rows stored
  written,  \* every row ever committed
  ans       \* per client what its last finished call returned, and when

staleVars == <<now, table, written, ans>>

(* A later row of the same key. *)
Supersedes(w, r) == w.key = r.key /\ w.version > r.version

(* r was current and unexpired at some instant of the last span time units. *)
FreshWithin(r, at, span, rows) ==
  /\ r \in rows
  /\ r.expires + span >= at
  /\ \A w \in rows : Supersedes(w, r) => w.committed + span >= at

StaleInit ==
  /\ table = {}
  /\ written = {}
  /\ ans = [c \in Clients |-> Null]

(* The pipeline commits a row. *)
Commit ==
  /\ \E r \in written' :
       /\ r.committed = now
       /\ \A w \in written : w.version < r.version
       /\ written' = written \cup {r}
       /\ table' = UpsertBatch(table, {r})
  /\ UNCHANGED <<now, ans>>

(* The pipeline removes rows, only expired ones. *)
Purge ==
  /\ table' \subseteq table
  /\ \A r \in table \ table' : r.expires < now
  /\ UNCHANGED <<now, written, ans>>

AnswerRow(c) ==
  /\ ans'[c].outcome \in {"value", "parse_error"}
  /\ ans'[c].outcome = "parse_error" => ~ans'[c].row.json
  /\ ans'[c].at = now
  /\ FreshWithin(ans'[c].row, now, Slack, written)

(* At the moment a call answers that there is nothing, no live row exists. *)
AnswerNothing(c) ==
  /\ ans'[c].outcome = "nothing"
  /\ GetByKey(table, ans'[c].key, now) = {}

AnswerError(c) == ans'[c].outcome = "unavailable"

Reply(c) ==
  /\ ans'[c] # Null
  /\ AnswerRow(c) \/ AnswerNothing(c) \/ AnswerError(c)
  /\ \A d \in Clients \ {c} : ans'[d] = ans[d]
  /\ UNCHANGED <<now, table, written>>

Pass ==
  /\ now' = now + 1
  /\ UNCHANGED <<table, written, ans>>

StaleNext == Commit \/ Purge \/ Pass \/ \E c \in Clients : Reply(c)

StaleSpec == StaleInit /\ now = 0 /\ [][StaleNext]_staleVars
===============================================================================
