---------------------------- MODULE MCPaperTrade ----------------------------
(* Small instances of PaperTrade for TLC. *)
EXTENDS PaperTrade, TLC

\* Three prices leave one entry price, with room for a stop below it and a
\* target above it (the other way round for a SELL).
MCPrices == 1..3
=============================================================================
