------------------------- MODULE BinaryReaderProofs -------------------------
(***************************************************************************)
(* Theorems about BinaryReader, for every set of files and every chunk     *)
(* size: it implements EventSource.                                        *)
(***************************************************************************)
EXTENDS BinaryReader, TLAPS

(* The inductive invariant: the buffer is a window inside the file it was  *)
(* filled from, the event read ahead is the last one taken from it, and    *)
(* the reader is out of events only at the end of the file.                *)
ReaderInv ==
    /\ TypeOK
    /\ buffer_idx <= buffer_count
    /\ base + buffer_count <= Len(file)
    /\ is_eof => base + buffer_count = Len(file)
    /\ has_next => buffer_idx > 0 /\ next_event = file[base + buffer_idx]
    /\ ~ has_next => base + buffer_idx = Len(file)
    /\ opened /\ ~ is_open => ~ has_next
    /\ is_open => opened
    /\ has_next /\ ~ is_eof => buffer_count = EVENTS_PER_READ
    /\ NullReadAfterFullChunk

(* The invariant holds of a reader that was just made ... *)
LEMMA ReaderInvInit == Init => ReaderInv
  <1> SUFFICES ASSUME Init PROVE ReaderInv
    OBVIOUS
  <1>1. /\ ~ is_open /\ ~ is_eof /\ ~ has_next /\ opened /\ ~ crashed
        /\ is_open \in BOOLEAN /\ is_eof \in BOOLEAN /\ has_next \in BOOLEAN
        /\ opened \in BOOLEAN /\ crashed \in BOOLEAN
    BY Zenon DEF Init
  <1>2. /\ file = <<>> /\ base = 0 /\ buffer_count = 0 /\ buffer_idx = 0
        /\ next_event = Nothing /\ out = Nothing
    BY DEF Init
  <1>3. file \in Seq(Events) /\ Len(file) = 0 /\ 0 \in 0 .. EVENTS_PER_READ
    BY <1>2, ReaderAssumption
  <1> QED
    BY <1>1, <1>2, <1>3 DEF ReaderInv, TypeOK, NullReadAfterFullChunk

(* Refilling from a file, at a position inside it. *)
LEMMA RefillStep ==
    ASSUME NEW f \in Seq(Events), NEW done \in Nat, done <= Len(f), Refill(f, done),
           next_event \in Events \cup {Nothing}
    PROVE  /\ is_eof' \in BOOLEAN /\ has_next' \in BOOLEAN
           /\ base' = done /\ buffer_count' \in 0 .. EVENTS_PER_READ
           /\ buffer_idx' \in Nat /\ buffer_idx' <= buffer_count'
           /\ base' + buffer_count' <= Len(f)
           /\ is_eof' => base' + buffer_count' = Len(f)
           /\ has_next' => buffer_idx' = 1 /\ next_event' = f[base' + 1]
                           /\ done < Len(f)
           /\ ~ has_next' => buffer_idx' = 0 /\ done = Len(f)
           /\ has_next' /\ ~ is_eof' => buffer_count' = EVENTS_PER_READ
           /\ next_event' \in Events \cup {Nothing}
           /\ crashed' = crashed
  <1> DEFINE Result ==
           /\ is_eof' \in BOOLEAN /\ has_next' \in BOOLEAN
           /\ base' = done /\ buffer_count' \in 0 .. EVENTS_PER_READ
           /\ buffer_idx' \in Nat /\ buffer_idx' <= buffer_count'
           /\ base' + buffer_count' <= Len(f)
           /\ is_eof' => base' + buffer_count' = Len(f)
           /\ has_next' => buffer_idx' = 1 /\ next_event' = f[base' + 1]
                           /\ done < Len(f)
           /\ ~ has_next' => buffer_idx' = 0 /\ done = Len(f)
           /\ has_next' /\ ~ is_eof' => buffer_count' = EVENTS_PER_READ
           /\ next_event' \in Events \cup {Nothing}
           /\ crashed' = crashed
  <1> DEFINE count == fread(f, done)
  <1>1. count \in 0 .. EVENTS_PER_READ /\ done + count <= Len(f)
        /\ (count < EVENTS_PER_READ => done + count = Len(f))
    BY ReaderAssumption DEF fread
  <1> HIDE DEF count
  <1>2. CASE count = 0 /\ RunOut(done, 0, 0)
    <2>1. RunOut(done, 0, 0)
      BY <1>2
    <2>2. /\ base' = done /\ buffer_count' = 0 /\ buffer_idx' = 0
          /\ next_event' = next_event /\ crashed' = crashed
      BY <2>1 DEF RunOut
    <2>3. is_eof' = TRUE /\ has_next' = FALSE
      BY <2>1 DEF RunOut
    <2>4. is_eof' \in BOOLEAN /\ has_next' \in BOOLEAN /\ ~ has_next'
      BY <2>3, Zenon
    <2>5. done = Len(f) /\ 0 \in 0 .. EVENTS_PER_READ
      BY <1>1, <1>2, ReaderAssumption
    <2> QED
      BY <2>2, <2>4, <2>5
  <1>3. ASSUME count # 0, NEW e \in BOOLEAN, e <=> count < EVENTS_PER_READ,
               TakeBuffered(done, count, 0, e, f)
        PROVE  Result
    <2>1. done + 0 + 1 \in 1 .. Len(f)
      BY <1>1, <1>3
    <2>2. f[done + 0 + 1] \in Events /\ done + 0 + 1 = done + 1
      BY <2>1
    <2>3. /\ base' = done /\ buffer_count' = count /\ buffer_idx' = 1
          /\ next_event' = f[done + 1] /\ crashed' = crashed
      BY <1>3, <2>2 DEF TakeBuffered
    <2>4. is_eof' = e /\ has_next' = TRUE
      BY <1>3 DEF TakeBuffered
    <2>5. is_eof' \in BOOLEAN /\ has_next' \in BOOLEAN /\ has_next'
          /\ (is_eof' <=> count < EVENTS_PER_READ)
      BY <1>3, <2>4, Zenon
    <2>6. done < Len(f) /\ count >= 1
      BY <1>1, <1>3
    <2> QED
      BY <1>1, <2>2, <2>3, <2>5, <2>6, ReaderAssumption
  <1>4. CASE count \in 1 .. EVENTS_PER_READ - 1 /\ TakeBuffered(done, count, 0, TRUE, f)
    <2>1. count # 0 /\ count < EVENTS_PER_READ
      BY <1>1, <1>4, ReaderAssumption
    <2> QED
      BY <1>3, <1>4, <2>1
  <1>5. CASE count >= EVENTS_PER_READ /\ TakeBuffered(done, count, 0, FALSE, f)
    <2>1. count # 0 /\ ~ (count < EVENTS_PER_READ)
      BY <1>1, <1>5, ReaderAssumption
    <2> QED
      BY <1>3, <1>5, <2>1
  <1> QED
    BY <1>2, <1>4, <1>5 DEF Refill, count

(* ... and every operation preserves it. *)
LEMMA ReaderInvStep == ReaderInv /\ [Next]_vars => ReaderInv'
  <1> SUFFICES ASSUME ReaderInv, [Next]_vars PROVE ReaderInv'
    OBVIOUS
  <1> USE DEF ReaderInv, TypeOK, NullReadAfterFullChunk, UsedUp
  <1>1. ASSUME NEW f \in Files, do_open(f), ~ crashed PROVE ReaderInv'
    <2>1. f \in Seq(Events) /\ 0 <= Len(f)
      BY ReaderAssumption
    <2> QED
      BY <1>1, <2>1, RefillStep DEF do_open
  <1>2. CASE do_open_fails
    BY <1>2 DEF do_open_fails, bufferVars
  <1>3. ASSUME do_read_next, ~ crashed PROVE ReaderInv'
    <2>1. CASE ~ has_next
      <3>1. out' = Nothing /\ UNCHANGED <<is_open, bufferVars, opened, crashed>>
        BY <1>3, <2>1 DEF do_read_next
      <3> QED
        BY <1>3, <3>1 DEF bufferVars
    <2>2. CASE has_next
      <3>1. /\ advance /\ out' = next_event /\ is_open' = is_open
            /\ file' = file /\ opened' = opened
        BY <1>3, <2>2 DEF do_read_next
      <3>2. CASE ~ UsedUp /\ TakeBuffered(base, buffer_count, buffer_idx, is_eof, file)
        <4>1. base + buffer_idx + 1 \in 1 .. Len(file)
          BY <3>2 DEF UsedUp
        <4>2. file[base + buffer_idx + 1] \in Events
              /\ base + (buffer_idx + 1) = base + buffer_idx + 1
          BY <4>1
        <4>3. /\ base' = base /\ buffer_count' = buffer_count
              /\ buffer_idx' = buffer_idx + 1 /\ crashed' = crashed
              /\ next_event' = file[base + buffer_idx + 1]
              /\ is_eof' = is_eof
          BY <3>2 DEF TakeBuffered
        <4>4. has_next' /\ has_next' \in BOOLEAN
          BY <3>2, Zenon DEF TakeBuffered
        <4>5. buffer_idx + 1 <= buffer_count
          BY <3>2 DEF UsedUp
        <4> QED
          BY <2>2, <3>1, <4>1, <4>2, <4>3, <4>4, <4>5
      <3>3. CASE UsedUp /\ is_eof /\ RunOut(base, buffer_count, buffer_idx)
        <4>1. /\ base' = base /\ buffer_count' = buffer_count /\ buffer_idx' = buffer_idx
              /\ next_event' = next_event /\ crashed' = crashed
          BY <3>3 DEF RunOut
        <4>2. is_eof' /\ ~ has_next' /\ is_eof' \in BOOLEAN /\ has_next' \in BOOLEAN
          BY <3>3, Zenon DEF RunOut
        <4>3. base + buffer_count = Len(file) /\ buffer_idx = buffer_count
          BY <3>3 DEF UsedUp
        <4> QED
          BY <1>3, <3>1, <4>1, <4>2, <4>3
      <3>4. CASE UsedUp /\ ~ is_eof /\ is_open /\ Refill(file, base + buffer_count)
        <4>1. base + buffer_count \in Nat
          OBVIOUS
        <4> QED
          BY <2>2, <3>1, <3>4, <4>1, RefillStep
      <3>5. CASE /\ UsedUp /\ ~ is_eof /\ ~ is_open
                 /\ crashed' = TRUE
                 /\ UNCHANGED <<base, buffer_count, buffer_idx, is_eof, next_event, has_next>>
        BY <2>2, <3>1, <3>5
      <3> QED
        BY <3>1, <3>2, <3>3, <3>4, <3>5 DEF advance
    <2> QED
      BY <2>1, <2>2
  <1>4. CASE do_reset
    <2>1. CASE is_open
      BY <1>4, <2>1, RefillStep DEF do_reset
    <2>2. CASE ~ is_open
      BY <1>4, <2>2 DEF do_reset, vars, bufferVars
    <2> QED
      BY <2>1, <2>2
  <1>5. CASE UNCHANGED vars
    BY <1>5 DEF vars, bufferVars
  <1> QED
    BY <1>1, <1>2, <1>3, <1>4, <1>5 DEF Next

(* Every reachable state satisfies the inductive invariant. *)
THEOREM ReaderInvariant == Spec => []ReaderInv
  BY ReaderInvInit, ReaderInvStep, PTL DEF Spec

(* Every variable of the BinaryReader keeps its type. *)
THEOREM ReaderTypeCorrect == Spec => []TypeOK
  <1>1. ReaderInv => TypeOK
    BY DEF ReaderInv
  <1> QED
    BY <1>1, ReaderInvariant, PTL

(* has_next agrees with what is left of the open file, for every chunk     *)
(* size and every length of the file.                                      *)
THEOREM HasNextCorrect == Spec => []HasNextIsAccurate
  <1>1. ReaderInv => HasNextIsAccurate
    <2> SUFFICES ASSUME ReaderInv, is_open PROVE has_next <=> HandedOut < Len(file)
      BY DEF HasNextIsAccurate
    <2>1. CASE has_next
      BY <2>1 DEF HandedOut, ReaderInv, TypeOK
    <2>2. CASE ~ has_next
      BY <2>2 DEF HandedOut, ReaderInv, TypeOK
    <2> QED
      BY <2>1, <2>2
  <1> QED
    BY <1>1, ReaderInvariant, PTL

(* fread meets a null file only behind the last event of a full chunk of  *)
(* a file that was closed for an open that failed, for every chunk size.   *)
THEOREM NullReadNeedsFullChunk == Spec => []NullReadAfterFullChunk
  <1>1. ReaderInv => NullReadAfterFullChunk
    BY DEF ReaderInv
  <1> QED
    BY <1>1, ReaderInvariant, PTL

-----------------------------------------------------------------------------
(* With an event read ahead, the next one to hand out is that event; the   *)
(* events handed out grow by it, whatever advance does.                    *)
LEMMA ReadHandsOutOne ==
    ASSUME ReaderInv, do_read_next, has_next, opened
    PROVE  /\ HandedOut \in Nat /\ HandedOut < Len(file)
           /\ HandedOut' = HandedOut + 1
           /\ out' = file[HandedOut + 1]
           /\ file' = file /\ opened' = opened
  <1> USE DEF ReaderInv, TypeOK
  <1>1. /\ advance /\ out' = next_event /\ is_open' = is_open
        /\ file' = file /\ opened' = opened
    BY DEF do_read_next
  <1>2. is_open
    OBVIOUS
  <1>3. HandedOut = base + buffer_idx - 1 /\ HandedOut \in Nat /\ HandedOut < Len(file)
        /\ HandedOut + 1 = base + buffer_idx
    BY DEF HandedOut
  <1>4. out' = file[HandedOut + 1]
    BY <1>1, <1>3
  <1>5. HandedOut' = base + buffer_idx
    <2>1. CASE ~ UsedUp /\ TakeBuffered(base, buffer_count, buffer_idx, is_eof, file)
      <3>1. base' = base /\ buffer_idx' = buffer_idx + 1
        BY <2>1 DEF TakeBuffered
      <3>2. has_next'
        BY <2>1, Zenon DEF TakeBuffered
      <3> QED
        BY <3>1, <3>2 DEF HandedOut
    <2>2. CASE UsedUp /\ is_eof /\ RunOut(base, buffer_count, buffer_idx)
      <3>1. base' = base /\ buffer_idx' = buffer_idx
        BY <2>2 DEF RunOut
      <3>2. ~ has_next'
        BY <2>2, Zenon DEF RunOut
      <3> QED
        BY <3>1, <3>2 DEF HandedOut
    <2>3. CASE UsedUp /\ ~ is_eof /\ is_open /\ Refill(file, base + buffer_count)
      <3>1. base + buffer_count \in Nat /\ buffer_idx = buffer_count
        BY <2>3 DEF UsedUp
      <3>2. /\ base' = base + buffer_count
            /\ has_next' => buffer_idx' = 1
            /\ ~ has_next' => buffer_idx' = 0
        BY <2>3, <3>1, RefillStep
      <3>3. CASE has_next'
        BY <3>1, <3>2, <3>3 DEF HandedOut
      <3>4. CASE ~ has_next'
        BY <3>1, <3>2, <3>4 DEF HandedOut
      <3> QED
        BY <3>3, <3>4
    <2> QED
      BY <1>1, <1>2, <2>1, <2>2, <2>3 DEF advance
  <1> QED
    BY <1>1, <1>3, <1>4, <1>5

(* After a refill from the start nothing has been handed out. *)
LEMMA RefillFromStart ==
    ASSUME NEW f \in Seq(Events), Refill(f, 0), next_event \in Events \cup {Nothing}
    PROVE  HandedOut' = 0
  <1>1. /\ base' = 0
        /\ has_next' => buffer_idx' = 1
        /\ ~ has_next' => buffer_idx' = 0
    BY RefillStep
  <1>2. CASE has_next'
    BY <1>1, <1>2 DEF HandedOut
  <1>3. CASE ~ has_next'
    BY <1>1, <1>3 DEF HandedOut
  <1> QED
    BY <1>2, <1>3

(* The reader starts as the event source does ... *)
LEMMA SourceInitRefined == Init => Source!SourceInit
  <1> SUFFICES ASSUME Init PROVE Source!SourceInit
    OBVIOUS
  <1>1. opened = TRUE /\ file = <<>> /\ out = Nothing
    BY DEF Init
  <1>2. ~ has_next
    BY Zenon DEF Init
  <1>3. HandedOut = 0
    <2>1. base \in Nat /\ buffer_idx \in Nat
      BY DEF Init
    <2>2. HandedOut = base + buffer_idx
      BY <1>2, <2>1 DEF HandedOut
    <2> QED
      BY <2>2 DEF Init
  <1> QED
    BY <1>1, <1>3 DEF Source!SourceInit

(* ... and each of its steps is a step of the source or changes nothing.   *)
LEMMA SourceStepRefined ==
    ReaderInv /\ [Next]_vars => [Source!SourceNext]_(Source!sourceVars)
  <1> SUFFICES ASSUME ReaderInv, [Next]_vars
               PROVE  Source!SourceNext \/ UNCHANGED Source!sourceVars
    OBVIOUS
  <1> USE DEF ReaderInv, TypeOK
  <1>1. ASSUME NEW f \in Files, do_open(f) PROVE Source!SourceNext
    <2>1. f \in Seq(Events) /\ Refill(f, 0) /\ file' = f /\ out' = out
      BY <1>1, ReaderAssumption DEF do_open
    <2>2. opened' = TRUE
      BY <1>1 DEF do_open
    <2>3. HandedOut' = 0
      BY <2>1, RefillFromStart
    <2>4. Source!OpenFile(f)
      BY <2>1, <2>2, <2>3 DEF Source!OpenFile
    <2> QED
      BY <2>4 DEF Source!SourceNext
  <1>2. CASE do_open_fails
    <2>1. opened' = FALSE /\ out' = out
      BY <1>2 DEF do_open_fails
    <2>2. Source!OpenFails
      BY <2>1 DEF Source!OpenFails
    <2> QED
      BY <2>2 DEF Source!SourceNext
  <1>3. CASE do_read_next
    <2>1. CASE opened /\ has_next
      <3>1. /\ HandedOut \in Nat /\ HandedOut < Len(file)
            /\ HandedOut' = HandedOut + 1
            /\ out' = file[HandedOut + 1]
            /\ file' = file /\ opened' = opened
        BY <1>3, <2>1, ReadHandsOutOne
      <3>2. Source!read_next
        BY <2>1, <3>1 DEF Source!read_next
      <3> QED
        BY <3>2 DEF Source!SourceNext
    <2>2. CASE opened /\ ~ has_next
      <3>1. out' = Nothing /\ UNCHANGED <<is_open, bufferVars, opened, crashed>>
        BY <1>3, <2>2 DEF do_read_next
      <3>2. /\ file' = file /\ opened' = opened /\ HandedOut' = HandedOut
            /\ HandedOut = Len(file)
        BY <2>2, <3>1 DEF bufferVars, HandedOut
      <3>3. Source!read_next
        BY <2>2, <3>1, <3>2 DEF Source!read_next
      <3> QED
        BY <3>3 DEF Source!SourceNext
    <2>3. CASE ~ opened
      <3>1. opened' = opened
        BY <1>3 DEF do_read_next
      <3>2. out' \in Events \cup {Nothing}
        BY <1>3 DEF do_read_next
      <3>3. Source!ReadUndefined
        BY <2>3, <3>1, <3>2 DEF Source!ReadUndefined
      <3> QED
        BY <3>3 DEF Source!SourceNext
    <2> QED
      BY <2>1, <2>2, <2>3
  <1>4. CASE do_reset
    <2>1. CASE is_open
      <3>1. Refill(file, 0) /\ file' = file /\ opened' = opened /\ out' = out
        BY <1>4, <2>1 DEF do_reset
      <3>2. HandedOut' = 0
        BY <3>1, RefillFromStart
      <3>3. Source!reset
        BY <2>1, <3>1, <3>2 DEF Source!reset
      <3> QED
        BY <3>3 DEF Source!SourceNext
    <2>2. CASE ~ is_open
      BY <1>4, <2>2 DEF do_reset, vars, bufferVars, Source!sourceVars, HandedOut
    <2> QED
      BY <2>1, <2>2
  <1>5. CASE UNCHANGED vars
    BY <1>5 DEF vars, bufferVars, Source!sourceVars, HandedOut
  <1> QED
    BY <1>1, <1>2, <1>3, <1>4, <1>5 DEF Next

(* The BinaryReader implements the event source: through every sequence of *)
(* opens, failed opens, reads and resets, for every chunk size, the events *)
(* of the file come out in order, each once, and then no more.             *)
THEOREM ReaderRefinesSource == Spec => ImplementsEventSource
  <1>1. Spec => []ReaderInv
    BY ReaderInvariant
  <1> QED
    BY <1>1, SourceInitRefined, SourceStepRefined, PTL
    DEF Spec, ImplementsEventSource, Source!SourceSpec
=============================================================================
