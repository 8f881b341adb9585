---------------------------- MODULE MCLoaderDaemon ----------------------------
(***************************************************************************)
(* Instances of LoaderDaemon for TLC.                                      *)
(***************************************************************************)
EXTENDS LoaderDaemon

CONSTANTS aapl, spy, sma, news, social, cpi

mcTwoSymbols == <<aapl, spy>>
mcOneSymbol == <<aapl>>
===============================================================================
