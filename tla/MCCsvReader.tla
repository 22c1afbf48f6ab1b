---------------------------- MODULE MCCsvReader -----------------------------
(* Instances of CsvReader for TLC. *)
EXTENDS CsvReader

CONSTANT Longest   \* bound: bytes in a file

MCFiles == UNION {[1 .. n -> Bytes] : n \in 0 .. Longest}
=============================================================================
