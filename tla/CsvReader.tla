----------------------------- MODULE CsvReader ------------------------------
(***************************************************************************)
(* The CsvReader (csv_reader.hpp): lines are cut from a buffer that is     *)
(* refilled, and grown when a line does not fit; the first line is skipped *)
(* and so are lines that do not decode; the reader runs one row ahead of   *)
(* its caller.                                                             *)
(*                                                                         *)
(* A byte is what read_line tells apart: a newline, a carriage return or   *)
(* another.  Of a line's text all that matters here is whether it decodes, *)
(* which its first byte says.  The buffer holds bytes by their position in *)
(* the file, so that a line is known by where it came from.                *)
(*                                                                         *)
(* Each turn of the loop in read_line is a step; a call is under way while *)
(* task is not "none".                                                     *)
(***************************************************************************)
EXTENDS Integers, Sequences, FiniteSets, FiniteSetsExt, SequencesExt

CONSTANTS
    Files,         \* the contents of the files that can be opened
    Nothing,       \* what read_next yields when it returns false
    BUFFER_SIZE,   \* 256K in the code
    MaxOpens       \* bound: opens that succeed

Bytes == {"good", "bad", "cr", "nl"}

ASSUME CsvAssumption ==
    /\ Files \subseteq Seq(Bytes)
    /\ BUFFER_SIZE \in Nat \ {0}
    /\ MaxOpens \in Nat

VARIABLES
    is_open,      \* file_ is not null
    file,         \* contents of the file that the buffer was filled from
    rows,         \* the rows of that file
    offset,       \* how much of it was read
    buffer,       \* bytes 0 .. buffer_end_ - 1 of buffer_
    capacity,     \* buffer_.size()
    buffer_pos,
    is_eof,
    next_event,   \* the row read ahead
    has_next,
    task,         \* "header" or "row": the line that is looked for; or "none"
    out,          \* what the last read_next yielded
    taken,        \* rows handed out since the last open or reset
    opened,       \* did the last open find its file?
    opens,
    crashed       \* fread was called on a null file

lineVars == <<offset, buffer, capacity, buffer_pos, is_eof>>
callerVars == <<is_open, file, rows, out, taken, opened, opens>>
vars == <<lineVars, callerVars, next_event, has_next, task, crashed>>

(* The lines of a file, by a definition that knows of no buffer: a line    *)
(* ends at a newline or at the end of the file and starts behind the end   *)
(* before; a carriage return before a newline is not part of it.           *)
Ends(f) == {i \in 1 .. Len(f) : f[i] = "nl"} \cup {Len(f) + 1}

Line(f, e) ==
    LET from == 1 + Max({0} \cup {d \in Ends(f) : d < e})
        cr   == e \in 2 .. Len(f) /\ from < e /\ f[e - 1] = "cr"
    IN  [i \in 1 .. (e - from - IF cr THEN 1 ELSE 0) |-> from + i - 1]

IsRow(f, line) == line # <<>> /\ f[line[1]] = "good"

(* The rows of a file: the lines after the first that decode, in order;    *)
(* before the k-th of them end k - 1 others.                               *)
RowEnds(f) == {e \in Ends(f) \ {Min(Ends(f))} : IsRow(f, Line(f, e))}

Rows(f) ==
    [k \in 1 .. Cardinality(RowEnds(f)) |->
        Line(f, CHOOSE e \in RowEnds(f) : Cardinality({d \in RowEnds(f) : d < e}) = k - 1)]

-----------------------------------------------------------------------------
Init ==
    /\ is_open = FALSE
    /\ file = <<>> /\ rows = <<>> /\ offset = 0
    /\ buffer = <<>> /\ capacity = 0 /\ buffer_pos = 0
    /\ is_eof = FALSE
    /\ next_event = Nothing /\ has_next = FALSE
    /\ task = "none"
    /\ out = Nothing /\ taken = 0
    /\ opened = TRUE /\ opens = 0
    /\ crashed = FALSE

(* TickDecoder::decode_csv, as far as the reader is concerned. *)
Decodes(line) == file[line[1]] = "good"

-----------------------------------------------------------------------------
(* CsvReader::read_line                                                    *)

(* What is left in the buffer. *)
Rest == SubSeq(buffer, buffer_pos + 1, Len(buffer))

Newlines == {k \in 1 .. Len(Rest) : file[Rest[k]] = "nl"}

WithoutCr(line) ==
    IF line # <<>> /\ file[Last(line)] = "cr" THEN Front(line) ELSE line

(* read_line has found a line.  After the header advance begins; advance   *)
(* goes on until a line decodes.                                           *)
LineFound(line) ==
    IF task = "row" /\ line # <<>> /\ Decodes(line)
    THEN /\ next_event' = line
         /\ has_next' = TRUE
         /\ task' = "none"
    ELSE /\ has_next' = FALSE
         /\ task' = "row"
         /\ UNCHANGED next_event

(* A line that ends with a newline. *)
CutLine ==
    /\ Newlines # {}
    /\ LET k == Min(Newlines)
       IN  /\ LineFound(WithoutCr(SubSeq(Rest, 1, k - 1)))
           /\ buffer_pos' = buffer_pos + k
    /\ UNCHANGED <<offset, buffer, capacity, is_eof, callerVars, crashed>>

(* Mutant of CutRest: a last line without a newline is dropped. *)
CutRestDropped ==
    /\ Newlines = {} /\ is_eof /\ Rest # <<>>
    /\ has_next' = FALSE
    /\ task' = "none"
    /\ UNCHANGED <<lineVars, callerVars, next_event, crashed>>

(* The last line, which has none. *)
CutRest ==
    /\ Newlines = {} /\ is_eof /\ Rest # <<>>
    /\ LineFound(Rest)
    /\ buffer_pos' = Len(buffer)
    /\ UNCHANGED <<offset, buffer, capacity, is_eof, callerVars, crashed>>

(* read_line returns false; so does the one that advance tries after a     *)
(* header that was not there.                                              *)
NoLine ==
    /\ Rest = <<>> /\ is_eof
    /\ has_next' = FALSE
    /\ task' = "none"
    /\ UNCHANGED <<lineVars, callerVars, next_event, crashed>>

(* Mutant of Grown: a line that fills the buffer is not given more room. *)
GrownNever(rem) == capacity

(* The size of the buffer once it has room behind rem bytes. *)
Grown(rem) == IF rem = capacity THEN capacity * 2 ELSE capacity

(* Mutant of fread: it may fill the whole buffer, behind the rest. *)
freadWhole(rem) == Min({Grown(rem), Len(file) - offset})

(* How many bytes std::fread puts behind rem bytes of rest. *)
fread(rem) == Min({Grown(rem) - rem, Len(file) - offset})

(* Mutant of AtEnd: the end is not noticed while a rest is kept. *)
AtEndEmpty(count) == count = 0 /\ Rest = <<>>

AtEnd(count) == count = 0

(* The rest moves to the front, and the buffer is filled up behind it. *)
Refill ==
    /\ Newlines = {} /\ ~ is_eof
    /\ is_open
    /\ LET count == fread(Len(Rest))
       IN  /\ buffer' = Rest \o [i \in 1 .. count |-> offset + i]
           /\ offset' = offset + count
           /\ is_eof' = AtEnd(count)
    /\ capacity' = Grown(Len(Rest))
    /\ buffer_pos' = 0
    /\ UNCHANGED <<callerVars, next_event, has_next, task, crashed>>

NullRead ==
    /\ Newlines = {} /\ ~ is_eof
    /\ ~ is_open
    /\ crashed' = TRUE
    /\ UNCHANGED <<lineVars, callerVars, next_event, has_next, task>>

read_line ==
    /\ task # "none"
    /\ ~ crashed
    /\ CutLine \/ CutRest \/ NoLine \/ Refill \/ NullRead

-----------------------------------------------------------------------------
(* The buffer is emptied, the file is read from its start again and the    *)
(* header is looked for.                                                   *)
StartOver ==
    /\ offset' = 0
    /\ buffer' = <<>> /\ buffer_pos' = 0
    /\ is_eof' = FALSE
    /\ task' = "header"
    /\ taken' = 0

(* CsvReader::do_open *)
do_open(f) ==
    /\ opens < MaxOpens
    /\ opens' = opens + 1
    /\ is_open' = TRUE
    /\ file' = f /\ rows' = Rows(f)
    /\ opened' = TRUE
    /\ capacity' = BUFFER_SIZE
    /\ StartOver
    /\ UNCHANGED <<next_event, has_next, out, crashed>>

(* do_open when fopen fails: the old file is closed, the rest stays. *)
do_open_fails ==
    /\ is_open' = FALSE
    /\ opened' = FALSE
    /\ UNCHANGED <<file, rows, lineVars, next_event, has_next, task, out, taken, opens, crashed>>

(* CsvReader::do_read_next, up to the search for the next row. *)
do_read_next ==
    \/ /\ ~ has_next
       /\ out' = Nothing
       /\ UNCHANGED <<is_open, file, rows, lineVars, next_event, has_next, task, taken,
                      opened, opens, crashed>>
    \/ /\ has_next
       /\ out' = next_event
       /\ taken' = taken + 1
       /\ has_next' = FALSE
       /\ task' = "row"
       /\ UNCHANGED <<is_open, file, rows, lineVars, next_event, opened, opens, crashed>>

(* CsvReader::do_reset *)
do_reset ==
    \/ /\ is_open
       /\ StartOver
       /\ UNCHANGED <<is_open, file, rows, capacity, next_event, has_next, out, opened,
                      opens, crashed>>
    \/ /\ ~ is_open
       /\ UNCHANGED vars

Call ==
    /\ task = "none"
    /\ \/ \E f \in Files : do_open(f)
       \/ do_open_fails
       \/ do_read_next
       \/ do_reset

Next == Call \/ read_line

(* The loop of read_line runs on by itself once a call has entered it. *)
Spec == Init /\ [][Next]_vars /\ WF_vars(read_line)

-----------------------------------------------------------------------------
(* Every variable has its type, and the buffer never holds more than fits. *)
TypeOK ==
    /\ is_open \in BOOLEAN /\ is_eof \in BOOLEAN /\ has_next \in BOOLEAN
    /\ opened \in BOOLEAN /\ crashed \in BOOLEAN
    /\ file \in Seq(Bytes) /\ offset \in 0 .. Len(file)
    /\ buffer \in Seq(1 .. Len(file)) /\ Len(buffer) <= capacity
    /\ capacity \in Nat /\ buffer_pos \in 0 .. Len(buffer)
    /\ task \in {"none", "header", "row"}
    /\ taken \in Nat /\ opens \in 0 .. MaxOpens

RowFiles == {Rows(f) : f \in Files}

AllRows == UNION {{r[k] : k \in DOMAIN r} : r \in RowFiles}

(* The reader implements EventSource with the rows as events: wherever the *)
(* buffer ends, however long the lines are and whatever is opened, reset   *)
(* and read, each row comes out whole, once and in order.  The rows are    *)
(* those behind the first line, which the code takes for a header whatever *)
(* it says; FirstRowKept is about that line.                               *)
Source == INSTANCE EventSource WITH
    Events  <- AllRows,
    Files   <- RowFiles,
    source  <- IF opened THEN rows ELSE <<>>,
    idx     <- IF opened THEN taken ELSE 0,
    defined <- opened

ImplementsEventSource == Source!SourceSpec

(* Between calls has_next says whether rows of the open file are left.     *)
HasNextIsAccurate ==
    task = "none" /\ is_open => (has_next <=> taken < Len(rows))

(* do_open is to "Skip header if present": when the first line of the file *)
(* is a row that decodes, and so no header, it is the first row to be had. *)
FirstRowKept ==
    LET first == Line(file, Min(Ends(file)))
    IN  task = "none" /\ is_open /\ taken = 0 /\ IsRow(file, first)
            => has_next /\ next_event = first

(* Every call returns, unless it reads on after an open that failed: the   *)
(* buffer grows until the longest line fits, and the end is noticed.       *)
CallReturns == task # "none" ~> (task = "none" \/ (crashed /\ ~ opened))
=============================================================================
