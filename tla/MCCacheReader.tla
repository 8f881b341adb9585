---------------------------- MODULE MCCacheReader -----------------------------
(***************************************************************************)
(* Instances of CacheReader for TLC.  One key per symbol or two keys of    *)
(* one symbol; row lifetimes that end before, with and after a moka entry. *)
(***************************************************************************)
EXTENDS CacheReader, TLC

CONSTANTS c1, c2, k1, k2, aapl

mcOneSymbol == [k \in Keys |-> aapl]
mcTTLs == {0, 2}
mcClientSymmetry == Permutations(Clients)
mcKeySymmetry == Permutations(Keys)
===============================================================================
