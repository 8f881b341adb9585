---------------------------- MODULE MCTirdsSystem -----------------------------
(***************************************************************************)
(* Instances of TirdsSystem for TLC, with the default configuration in     *)
(* units of five minutes.                                                  *)
(***************************************************************************)
EXTENDS TirdsSystem, Configuration

CONSTANTS aapl, spy, sma

mcTwoSymbols == <<aapl, spy>>
mcOneSymbol == <<aapl>>

mcMarketTTL == InUnits(LoaderConfig.market_ttl, 300)
mcCalcTTL == InUnits(LoaderConfig.indicator_ttl, 300)
mcInterval == InUnits(LoaderConfig.refresh_interval, 300)
mcCleanup == InUnits(LoaderConfig.cleanup_interval, 300)
mcEvalTime == InUnits(AgentsConfig.specialist_timeout + AgentsConfig.total_timeout, 300)
mcDomains == {AgentsConfig.specialists[n] : n \in DOMAIN AgentsConfig.specialists}
===============================================================================
