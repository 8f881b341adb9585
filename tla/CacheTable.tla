------------------------------ MODULE CacheTable ------------------------------
(***************************************************************************)
(* The SQLite table cache_entries, which tirds-loader writes and           *)
(* tirds-cache reads: the statements both sides run against it, as         *)
(* operators on a set of rows.  A row has at least the fields key, symbol  *)
(* and expires.  Times are integers: the code compares RFC 3339 strings,   *)
(* whose order is the order of the instants they denote.                   *)
(***************************************************************************)
EXTENDS Integers

KeysOf(rows) == {r.key : r \in rows}

(* Variant of UpsertBatch: a plain INSERT into a table without the key's   *)
(* uniqueness.                                                             *)
InsertBatch(table, rows) == table \cup rows

(* INSERT OR REPLACE of every row of a batch, in one transaction.  The key *)
(* is the primary key; no batch of the loader holds two different rows     *)
(* with the same key.                                                      *)
UpsertBatch(table, rows) == {r \in table : r.key \notin KeysOf(rows)} \cup rows

(* Variant of ExpireStale that compares with the wrong side of now.        *)
ExpireUnexpired(table, now) == {r \in table : r.expires < now}

(* DELETE ... WHERE expires_at < now. *)
ExpireStale(table, now) == {r \in table : ~(r.expires < now)}

(* The condition expires_at > now that every SELECT carries. *)
Live(table, now) == {r \in table : r.expires > now}

(* SELECT ... WHERE key = k: no row, or the only one. *)
GetByKey(table, k, now) == {r \in Live(table, now) : r.key = k}

(* SELECT ... WHERE symbol = s. A row without a symbol (NULL) never matches. *)
GetBySymbol(table, s, now) == {r \in Live(table, now) : r.symbol = s}
===============================================================================
