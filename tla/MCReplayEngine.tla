--------------------------- MODULE MCReplayEngine ---------------------------
(* Instances of ReplayEngine for TLC. *)
EXTENDS ReplayEngine

CONSTANTS
    Longest,   \* bound: events in a file
    Times,     \* the timestamps, and ...
    Types      \* ... types of the events

MCEvents == [timestamp : Times, type : Types]
MCFiles == UNION {[1 .. n -> MCEvents] : n \in 0 .. Longest}
=============================================================================
