----------------------- MODULE MCPerformanceAnalytics -----------------------
(* Instances of PerformanceAnalytics for TLC. *)
EXTENDS PerformanceAnalytics

MCEquities == {-1, 0, 1, 2, 4}
MCDurations == {0, 3, 4, 8}
=============================================================================
