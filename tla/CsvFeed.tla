------------------------------ MODULE CsvFeed -------------------------------
(***************************************************************************)
(* The CsvReader with the TickDecoder that it hands its lines to           *)
(* (CsvReader::advance, csv_reader.hpp).                                   *)
(*                                                                         *)
(* CsvReader knows of a line only whether it decodes; here its text is a   *)
(* line of TickDecoder, cell by cell.  The decoder and its SymbolMapper    *)
(* are the caller's and live on when another file is opened or the file is *)
(* read again from its start.                                              *)
(***************************************************************************)
EXTENDS CsvReader, TickDecoder

CONSTANT CellsOf   \* the cells of a text

(* The bytes of a line, which the reader has by their positions. *)
TextOf(f, line) == [i \in DOMAIN line |-> f[line[i]]]

(* The texts of the files' lines, empty lines left out. *)
Texts == (UNION {{TextOf(f, Line(f, e)) : e \in Ends(f)} : f \in Files}) \ {<<>>}

(* A text's first byte says whether the decoder accepts it. *)
ASSUME FeedAssumption ==
    /\ CellsOf \in [Texts -> Lines]
    /\ \A t \in Texts :
        t[1] = "good" <=> HasSymbol(CellsOf[t]) /\ IsWellFormed(CellsOf[t])

feedVars == <<vars, decoderVars>>

FeedInit == Init /\ DecoderInit

(* The line that read_line cuts in this turn; none if it has to refill. *)
CutNow ==
    IF Newlines # {} THEN WithoutCr(SubSeq(Rest, 1, Min(Newlines) - 1))
    ELSE IF is_eof THEN Rest
    ELSE <<>>

(* A turn of read_line; advance has every line decoded that is not empty,  *)
(* the header excepted.                                                    *)
ReadAndDecode ==
    /\ read_line
    /\ IF task = "row" /\ CutNow # <<>>
       THEN decode_csv(CellsOf[TextOf(file, CutNow)])
       ELSE UNCHANGED decoderVars

CallReader == Call /\ UNCHANGED decoderVars

FeedNext == CallReader \/ ReadAndDecode

FeedSpec == FeedInit /\ [][FeedNext]_feedVars /\ WF_feedVars(ReadAndDecode)
=============================================================================
