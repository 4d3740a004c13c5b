----------------------------- MODULE MCMarketRunner -----------------------------
(* Constants for model checking MarketRunner. *)
EXTENDS MarketRunner

CONSTANTS i, j

MCInstruments == {i, j}
MCConfigured  == {}
MCUnknown     == {j}

================================================================================
