---------------------------- MODULE MCRiskDesk -----------------------------
(* Instances of RiskDesk for TLC. *)
EXTENDS RiskDesk, TLC

CONSTANTS s1, o1, o2, o3

(* Order ids are interchangeable. *)
DeskSymmetry == Permutations({o1, o2, o3})
=============================================================================
