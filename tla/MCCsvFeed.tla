----------------------------- MODULE MCCsvFeed ------------------------------
(* Instances of CsvFeed for TLC. *)
EXTENDS CsvFeed, MCCsvReader, MCTickDecoder

(* Counts the texts with the same first byte, the shortest first. *)
Number(t) ==
    FoldLeft(LAMBDA n, b : 3 * n + (CASE b = "good" -> 1 [] b = "bad" -> 2 [] OTHER -> 3),
             0, Tail(t))

Nth(lines, n) == lines[(n % Len(lines)) + 1]

(* The texts stand for all lines of MCTickDecoder. *)
MCCellsOf ==
    [t \in Texts |-> Nth(IF t[1] = "good" THEN MCGoodLines ELSE MCBadLines, Number(t))]
=============================================================================
