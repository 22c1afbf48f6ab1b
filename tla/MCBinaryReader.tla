--------------------------- MODULE MCBinaryReader ---------------------------
(* Instances of BinaryReader for TLC. *)
EXTENDS BinaryReader

CONSTANT Longest   \* bound: events in a file

(* Files whose events are numbered, so that a repeat or a gap shows, in    *)
(* two versions, so that leftovers of one show in the other.               *)
MCEvents == 1 .. 2 * Longest
MCFiles == {[i \in 1 .. n |-> i] : n \in 0 .. Longest} \cup
           {[i \in 1 .. n |-> i + Longest] : n \in 1 .. Longest}
=============================================================================
