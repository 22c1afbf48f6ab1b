------------------------- MODULE MCPortfolioLedger -------------------------
(* Instances of PortfolioLedger for TLC. *)
EXTENDS PortfolioLedger, TLC

CONSTANTS s1, s2

(* The two symbols are interchangeable. *)
SymbolSymmetry == Permutations({s1, s2})
=============================================================================
