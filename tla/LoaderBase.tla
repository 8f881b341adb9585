------------------------------ MODULE LoaderBase ------------------------------
(***************************************************************************)
(* What the three tasks of the loader daemon share: the clock, the         *)
(* cache_entries table behind the one writer connection, and the           *)
(* cancellation token.  The connection sits in a std::sync::Mutex that is  *)
(* never held across an await, so each use of it is one step.              *)
(***************************************************************************)
EXTENDS CacheTable, Sequences

VARIABLES
  now,       \* the clock
  table,     \* the rows of cache_entries
  cancelled  \* the CancellationToken has been triggered

baseVars == <<now, table, cancelled>>

BaseInit ==
  /\ now = 0
  /\ table = {}
  /\ cancelled = FALSE

(* A row of kind about symbol s computed from data generation gen. *)
CacheRow(kind, s, gen, expires) ==
  [key |-> <<kind, s>>, symbol |-> s, gen |-> gen, expires |-> expires]

RowsOf(kinds, s) == {r \in table : r.symbol = s /\ r.key[1] \in kinds}
===============================================================================
