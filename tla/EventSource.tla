---------------------------- MODULE EventSource ----------------------------
(***************************************************************************)
(* What a DataReader promises (data_reader.hpp): after a successful open,  *)
(* read_next hands out the events of the file one by one, in order, each   *)
(* once, and then says that there are no more; reset starts again.  The    *)
(* MemoryReader of the benchmarks is this specification almost literally.  *)
(*                                                                         *)
(* After an open that failed the contract says nothing of what is read     *)
(* until an open succeeds.                                                 *)
(***************************************************************************)
EXTENDS Integers, Sequences

CONSTANTS
    Events,    \* the events files are made of
    Files,     \* the contents of the files that can be opened
    Nothing    \* what read_next yields when it returns false

ASSUME SourceAssumption ==
    /\ Files \subseteq Seq(Events)
    /\ Nothing \notin Events

VARIABLES
    source,    \* the events of the open file
    idx,       \* how many were handed out, MemoryReader::idx_
    defined,   \* FALSE after an open that failed
    out        \* what the last read_next yielded

sourceVars == <<source, idx, defined, out>>

SourceInit ==
    /\ source = <<>>
    /\ idx = 0
    /\ defined = TRUE
    /\ out = Nothing

OpenFile(file) ==
    /\ source' = file
    /\ idx' = 0
    /\ defined' = TRUE
    /\ UNCHANGED out

OpenFails ==
    /\ source' = <<>>
    /\ idx' = 0
    /\ defined' = FALSE
    /\ UNCHANGED out

(* MemoryReader::do_read_next *)
read_next ==
    /\ defined
    /\ \/ /\ idx < Len(source)
          /\ idx' = idx + 1
          /\ out' = source[idx + 1]
       \/ /\ idx >= Len(source)
          /\ idx' = idx
          /\ out' = Nothing
    /\ UNCHANGED <<source, defined>>

ReadUndefined ==
    /\ ~ defined
    /\ out' \in Events \cup {Nothing}
    /\ UNCHANGED <<source, idx, defined>>

(* MemoryReader::do_reset *)
reset ==
    /\ idx' = 0
    /\ UNCHANGED <<source, defined, out>>

SourceNext ==
    \/ \E file \in Files : OpenFile(file)
    \/ OpenFails
    \/ read_next
    \/ ReadUndefined
    \/ reset

SourceSpec == SourceInit /\ [][SourceNext]_sourceVars
=============================================================================
