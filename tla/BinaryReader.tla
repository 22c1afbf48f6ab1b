---------------------------- MODULE BinaryReader ----------------------------
(***************************************************************************)
(* The BinaryReader (binary_reader.hpp): events are fetched from the file  *)
(* in chunks of up to EVENTS_PER_READ and the reader runs one event ahead  *)
(* of its caller, so that has_next can answer at once.                     *)
(*                                                                         *)
(* The buffer is a window of the file it was read from: base events before *)
(* it, buffer_count events in it, buffer_idx of them taken.  A trailing    *)
(* part of an event is not an event: fread never returns it.               *)
(***************************************************************************)
EXTENDS Integers, Sequences

CONSTANTS
    Events,            \* the events files are made of
    Files,             \* the contents of the files that can be opened
    Nothing,           \* what read_next yields when it returns false
    EVENTS_PER_READ    \* 65536 in the code

ASSUME ReaderAssumption ==
    /\ Files \subseteq Seq(Events)
    /\ Nothing \notin Events
    /\ EVENTS_PER_READ \in Nat \ {0}

VARIABLES
    is_open,        \* file_ is not null
    file,           \* contents of the file that the buffer was filled from
    base,           \* events of the file before the buffer
    buffer_count,   \* events in the buffer
    buffer_idx,     \* events taken from the buffer
    is_eof,
    next_event,     \* the event read ahead
    has_next,
    out,            \* what the last read_next yielded
    opened,         \* did the last open find its file?
    crashed         \* fread was called on a null file

bufferVars == <<file, base, buffer_count, buffer_idx, is_eof, next_event, has_next>>
vars == <<is_open, bufferVars, out, opened, crashed>>

Init ==
    /\ is_open = FALSE
    /\ file = <<>>
    /\ base = 0
    /\ buffer_count = 0
    /\ buffer_idx = 0
    /\ is_eof = FALSE
    /\ next_event = Nothing
    /\ has_next = FALSE
    /\ out = Nothing
    /\ opened = TRUE
    /\ crashed = FALSE

(* Mutant of fread: the chunk size is ignored. *)
freadAll(f, done) == Len(f) - done

(* What fread returns with done events of f behind the file position. *)
fread(f, done) ==
    IF EVENTS_PER_READ <= Len(f) - done THEN EVENTS_PER_READ ELSE Len(f) - done

(* BinaryReader::advance takes the next event of the buffer (b, n, i),     *)
(* refilling it first when it is used up ...                               *)
TakeBuffered(b, n, i, e, f) ==
    /\ base' = b /\ buffer_count' = n /\ buffer_idx' = i + 1
    /\ is_eof' = e
    /\ next_event' = f[b + i + 1]
    /\ has_next' = TRUE
    /\ UNCHANGED crashed

(* Mutant of RunOut: has_next stays as it was. *)
RunOutQuietly(b, n, i) ==
    /\ base' = b /\ buffer_count' = n /\ buffer_idx' = i
    /\ is_eof' = TRUE
    /\ UNCHANGED <<has_next, next_event, crashed>>

(* ... or finds that there is none ... *)
RunOut(b, n, i) ==
    /\ base' = b /\ buffer_count' = n /\ buffer_idx' = i
    /\ is_eof' = TRUE
    /\ has_next' = FALSE
    /\ UNCHANGED <<next_event, crashed>>

(* Mutant of Refill: a full chunk too is taken for the last one. *)
RefillOnce(f, done) ==
    LET count == fread(f, done)
    IN  \/ count = 0 /\ RunOut(done, 0, 0)
        \/ count > 0 /\ TakeBuffered(done, count, 0, TRUE, f)

(* Mutant of Refill: a short chunk is not taken for the last one. *)
RefillUntilEmpty(f, done) ==
    LET count == fread(f, done)
    IN  \/ count = 0 /\ RunOut(done, 0, 0)
        \/ count > 0 /\ TakeBuffered(done, count, 0, FALSE, f)

(* ... from the file f with done events behind its position.  A chunk     *)
(* that is not full is the last one.                                       *)
Refill(f, done) ==
    LET count == fread(f, done)
    IN  \/ count = 0 /\ RunOut(done, 0, 0)
        \/ count \in 1 .. EVENTS_PER_READ - 1 /\ TakeBuffered(done, count, 0, TRUE, f)
        \/ count >= EVENTS_PER_READ /\ TakeBuffered(done, count, 0, FALSE, f)

UsedUp == buffer_idx >= buffer_count

advance ==
    \/ ~ UsedUp /\ TakeBuffered(base, buffer_count, buffer_idx, is_eof, file)
    \/ UsedUp /\ is_eof /\ RunOut(base, buffer_count, buffer_idx)
    \/ UsedUp /\ ~ is_eof /\ is_open /\ Refill(file, base + buffer_count)
    \/ /\ UsedUp /\ ~ is_eof /\ ~ is_open
       /\ crashed' = TRUE
       /\ UNCHANGED <<base, buffer_count, buffer_idx, is_eof, next_event, has_next>>

(* BinaryReader::do_open empties the buffer and advances, which refills    *)
(* it.  It returns has_next', so FALSE for an empty file too, which stays  *)
(* open.                                                                   *)
do_open(f) ==
    /\ is_open' = TRUE
    /\ file' = f
    /\ opened' = TRUE
    /\ Refill(f, 0)
    /\ UNCHANGED out

(* do_open when fopen fails: the old file is closed, and the buffer and    *)
(* the event read ahead stay as they were.                                 *)
do_open_fails ==
    /\ is_open' = FALSE
    /\ opened' = FALSE
    /\ UNCHANGED <<bufferVars, out, crashed>>

(* BinaryReader::do_read_next *)
do_read_next ==
    \/ /\ ~ has_next
       /\ out' = Nothing
       /\ UNCHANGED <<is_open, bufferVars, opened, crashed>>
    \/ /\ has_next
       /\ out' = next_event
       /\ advance
       /\ UNCHANGED <<is_open, file, opened>>

(* BinaryReader::do_reset *)
do_reset ==
    \/ /\ is_open
       /\ Refill(file, 0)
       /\ UNCHANGED <<is_open, file, out, opened>>
    \/ /\ ~ is_open
       /\ UNCHANGED vars

Next ==
    /\ ~ crashed
    /\ \/ \E f \in Files : do_open(f)
       \/ do_open_fails
       \/ do_read_next
       \/ do_reset

Spec == Init /\ [][Next]_vars

-----------------------------------------------------------------------------
(* Every variable has its type. *)
TypeOK ==
    /\ is_open \in BOOLEAN /\ is_eof \in BOOLEAN /\ has_next \in BOOLEAN
    /\ opened \in BOOLEAN /\ crashed \in BOOLEAN
    /\ file \in Seq(Events)
    /\ base \in Nat /\ buffer_count \in 0 .. EVENTS_PER_READ /\ buffer_idx \in Nat
    /\ next_event \in Events \cup {Nothing}
    /\ out \in Events \cup {Nothing}

(* The events handed out: those taken from buffers but for the one ahead. *)
HandedOut == base + buffer_idx - (IF has_next THEN 1 ELSE 0)

(* The reader implements EventSource: whatever is opened, reset and read,  *)
(* and wherever the chunks end, read_next hands out the events of the file *)
(* in order, each once.                                                    *)
Source == INSTANCE EventSource WITH
    source  <- IF opened THEN file ELSE <<>>,
    idx     <- IF opened THEN HandedOut ELSE 0,
    defined <- opened,
    out     <- out

ImplementsEventSource == Source!SourceSpec

(* has_next never disagrees with the read that follows: while a file is    *)
(* open it is TRUE exactly when events of the file are left, also when the *)
(* last chunk was full and nobody has met the end of the file yet.         *)
HasNextIsAccurate ==
    is_open => (has_next <=> HandedOut < Len(file))

(* A caller that reads on after a reopen has failed is handed what is left *)
(* of the closed file's chunk.  It runs into fread on the null file only   *)
(* behind the last event of a full chunk; a file whose last chunk is short *)
(* ends quietly, because that chunk has set is_eof_.                       *)
NullReadAfterFullChunk ==
    crashed => /\ ~ opened
               /\ buffer_count = EVENTS_PER_READ /\ UsedUp
               /\ out = file[base + buffer_count]
=============================================================================
