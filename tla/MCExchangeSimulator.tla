------------------------ MODULE MCExchangeSimulator ------------------------
(* Instances of ExchangeSimulator for TLC. *)
EXTENDS ExchangeSimulator, TLC

CONSTANTS s1, s2
=============================================================================
