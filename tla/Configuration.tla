----------------------------- MODULE Configuration ----------------------------
(***************************************************************************)
(* The configuration defaults of both programs, in seconds.  Instances are *)
(* scaled from them: a unit of model time stands for so many seconds.      *)
(***************************************************************************)
EXTENDS Integers, Sequences

LoaderConfig ==
  [cleanup_interval |-> 300, refresh_interval |-> 300,
   market_ttl |-> 600, indicator_ttl |-> 600]

AgentsConfig ==
  [total_timeout |-> 120, specialist_timeout |-> 45,
   specialists |-> <<"technical", "macro", "sentiment", "sector">>]

(* A duration in units of so many seconds, rounded up. *)
InUnits(seconds, unit) == (seconds + unit - 1) \div unit
===============================================================================
