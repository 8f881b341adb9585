---------------------------- MODULE PublishedPairs ----------------------------
(***************************************************************************)
(* What a reader of cache_entries may rely on, whatever the loader's tasks *)
(* do, fail to do, or die in the middle of: the bars and the quote of a    *)
(* symbol appear together and show the candles stored at that moment; they *)
(* are replaced only together, by a pair that lasts no shorter; they go    *)
(* only together, and only when they have expired.                         *)
(***************************************************************************)
EXTENDS Integers

CONSTANTS
  Symbols,    \* the configured symbols
  MarketTTL,  \* the lifetime of a pair, counted from when it is built
  MaxCycle    \* how long before it is published a pair may have been built

VARIABLES
  now,    \* the clock
  store,  \* per symbol the generation of its stored candles
  pair    \* per symbol the rows readers find, expired ones included

pairVars == <<now, store, pair>>

Pair(gen, expires) ==
  {[kind |-> kind, gen |-> gen, expires |-> expires] : kind \in {"bars", "quote"}}

PairsInit ==
  /\ now = 0
  /\ store \in [Symbols -> Nat]
  /\ pair = [s \in Symbols |-> {}]

Learn(s) ==
  /\ store' = [store EXCEPT ![s] = @ + 1]
  /\ UNCHANGED <<now, pair>>

Replace(s) ==
  /\ store[s] > 0
  /\ \E expires \in (now + MarketTTL - MaxCycle)..(now + MarketTTL) :
       /\ \A r \in pair[s] : r.expires <= expires
       /\ pair' = [pair EXCEPT ![s] = Pair(store[s], expires)]
  /\ UNCHANGED <<now, store>>

Withdraw ==
  /\ \E gone \in SUBSET Symbols :
       /\ \A s \in gone : \A r \in pair[s] : r.expires < now
       /\ pair' = [s \in Symbols |-> IF s \in gone THEN {} ELSE pair[s]]
  /\ UNCHANGED <<now, store>>

Pass ==
  /\ now' = now + 1
  /\ UNCHANGED <<store, pair>>

PairsNext == Withdraw \/ Pass \/ \E s \in Symbols : Learn(s) \/ Replace(s)

PairsSpec == PairsInit /\ [][PairsNext]_pairVars
===============================================================================
