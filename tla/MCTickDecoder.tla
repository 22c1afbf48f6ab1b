--------------------------- MODULE MCTickDecoder ----------------------------
(* Instances of TickDecoder for TLC. *)
EXTENDS TickDecoder

(* "5x" is a number as far as std::from_chars goes, "1.5" is 1 to an       *)
(* integer and 15 in tenths to a price; "-1" is no quantity.               *)
MCNanos == [c \in {"5x", "1.5", "-1"} |->
               CASE c = "5x" -> 5 [] c = "1.5" -> 1 [] OTHER -> -1]
MCQty   == [c \in {"5x", "1.5"} |-> IF c = "5x" THEN 5 ELSE 1]
MCPrice == [c \in {"5x", "1.5", "-1"} |->
               CASE c = "5x" -> 50 [] c = "1.5" -> 15 [] OTHER -> -10]

MCFirst == [c \in {"5x", "1.5", "-1", "Trade", "Add", "Quote", "S", "IBM", "SAP", "TSLA"} |->
               CASE c = "Trade" -> "T" [] c = "TSLA" -> "T" [] c = "Add" -> "A"
                 [] c = "Quote" -> "Q" [] c \in {"S", "SAP"} -> "S" [] c = "IBM" -> "I"
                 [] OTHER -> "0"]

(* Lines of every symbol that decode ... *)
MCGoodLines ==
    <<<<"5x", "IBM", "Trade", "1.5", "5x", "S">>,
      <<"5x", "SAP", "Trade", "1.5", "5x", "S">>,
      <<"-1", "IBM", "Add", "-1", "1.5", "", "5x">>,
      <<"5x", "", "Trade", "1.5", "5x", "S">>,
      <<"5x", "TSLA", "Trade", "1.5", "5x", "S">>>>

(* ... and lines with one thing wrong, before the symbol or behind it. *)
MCBadLines ==
    <<<<"5x", "SAP", "Quote", "1.5", "5x", "S">>,
      <<"5x", "IBM">>,
      <<"5x", "TSLA", "", "1.5", "5x", "S">>,
      <<"Add", "IBM", "Trade", "1.5", "5x", "S">>,
      <<"5x", "SAP", "Trade", "Add", "5x", "S">>,
      <<"5x", "", "Trade", "1.5", "-1", "S">>,
      <<"-1", "IBM", "Add", "-1", "1.5", "">>,
      <<>>>>

MCLines == {MCGoodLines[i] : i \in DOMAIN MCGoodLines} \cup {MCBadLines[i] : i \in DOMAIN MCBadLines}
=============================================================================
