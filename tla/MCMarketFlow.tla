----------------------------- MODULE MCMarketFlow -----------------------------
(* Instances of MarketFlow for TLC. *)
EXTENDS MarketFlow

CONSTANTS a, b

MCInstruments == {a, b}
MCWanted == <<a, b>>

================================================================================
