----------------------------- MODULE MCBacktest -----------------------------
(* Instances of Backtest for TLC. *)
EXTENDS Backtest

CONSTANT s1

Event(t, type) == [timestamp |-> t, type |-> type]

(* An empty file; files of more than a chunk, with events nobody handles;  *)
(* and a file of one chunk that is not sorted.                             *)
MCFiles ==
    {<<>>,
     <<Event(1, "Trade"), Event(2, "EndOfData"), Event(3, "Trade")>>,
     <<Event(1, "Quote"), Event(2, "Trade"), Event(3, "MarketTick")>>,
     <<Event(3, "Trade"), Event(1, "Trade")>>}

MCEvents == UNION {{f[i] : i \in DOMAIN f} : f \in MCFiles}
=============================================================================
