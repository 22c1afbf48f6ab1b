---------------------------- MODULE ReplayProofs ----------------------------
(***************************************************************************)
(* Theorems about ReplayEngine, for all files, windows and numbers of      *)
(* runs: each event of the window is dispatched once, in order.            *)
(***************************************************************************)
EXTENDS ReplayEngine, FiniteSetTheorems, TLAPS

(* The reader is one event ahead of the loop, or at the end of the file. *)
InStep ==
    /\ pc = "prime" => pos <= Len(source) /\ idx = pos /\ current = source[pos]
    /\ pc = "loop" =>
        /\ pos <= Len(source)
        /\ current = source[pos]
        /\ \/ pos < Len(source) /\ next = source[pos + 1] /\ idx = pos + 1
           \/ pos = Len(source) /\ next = Nothing /\ idx = pos
    /\ pc = "done" =>
        \/ pos = Len(source) + 1 /\ idx = Len(source)
        \/ pos <= idx /\ ~ TooEarly(source[pos]) /\ TooLate(source[pos])

(* What the run has passed over it has dispatched if it is in the window,  *)
(* and it has dispatched nothing else.                                     *)
PassedOver ==
    /\ pc = "ready" => delivered = {} /\ idx = 0
    /\ pc # "ready" =>
        /\ begun < pos /\ pos <= Len(source) + 1
        /\ \A i \in delivered : 1 <= i /\ i < pos
        /\ \A i \in begun + 1 .. pos - 1 : i \in delivered <=> InWindow(source[i])

(* The inductive invariant. *)
ReplayInv == TypeOK /\ InStep /\ PassedOver /\ CountedOnce

(* Nothing is not an event of the source. *)
LEMMA SourceEvents ==
    ASSUME source \in Seq(Events), NEW i \in 1 .. Len(source)
    PROVE  source[i] \in Events /\ source[i] # Nothing
  BY SourceAssumption

(* The window is what is neither too early nor too late. *)
LEMMA WindowIs ==
    ASSUME TypeOK, NEW e \in Events
    PROVE  InWindow(e) <=> ~ TooEarly(e) /\ ~ TooLate(e)
  <1>1. e.timestamp \in Int /\ start_time \in Int /\ end_time \in Int
    BY ReplayAssumption DEF TypeOK
  <1> QED
    BY <1>1 DEF InWindow, TooEarly, TooLate

(* The invariant holds before the first run. *)
LEMMA ReplayInvInit == Init => ReplayInv
  <1> SUFFICES ASSUME Init PROVE ReplayInv
    OBVIOUS
  <1>1. source \in Seq(Events) /\ 0 \in 0 .. Len(source) /\ 0 \in 0 .. MaxRuns
    BY SourceAssumption, ReplayAssumption DEF Init
  <1>2. TypeOK
    <2>1. defined = TRUE
      BY DEF Init
    <2> QED
      BY <1>1, <2>1 DEF Init, TypeOK
  <1>3. InStep /\ PassedOver
    BY DEF Init, InStep, PassedOver
  <1>4. CountedOnce
    BY FS_EmptySet DEF Init, CountedOnce
  <1> QED
    BY <1>2, <1>3, <1>4 DEF ReplayInv

(* What a read gives. *)
LEMMA ReadGives ==
    ASSUME TypeOK, read_next
    PROVE  /\ source' = source /\ defined' = defined
           /\ idx' \in 0 .. Len(source)
           /\ out' \in Events \cup {Nothing}
           /\ \/ idx < Len(source) /\ idx' = idx + 1 /\ out' = source[idx + 1]
                 /\ out' # Nothing
              \/ idx = Len(source) /\ idx' = idx /\ out' = Nothing
  <1>1. CASE idx < Len(source)
    <2>1. source[idx + 1] \in Events /\ source[idx + 1] # Nothing
      BY <1>1, SourceEvents DEF TypeOK
    <2> QED
      BY <1>1, <2>1 DEF TypeOK, read_next
  <1>2. CASE ~ (idx < Len(source))
    BY <1>2 DEF TypeOK, read_next
  <1> QED
    BY <1>1, <1>2

(* What the end of an iteration does. *)
LEMMA AdvanceGives ==
    ASSUME ReplayInv, pc = "loop", advance
    PROVE  /\ source' = source /\ defined' = defined
           /\ idx' \in 0 .. Len(source)
           /\ out' \in Events \cup {Nothing}
           /\ current' \in Events \cup {Nothing} /\ next' \in Events \cup {Nothing}
           /\ pos' = pos + 1
           /\ \/ /\ pc' = "loop" /\ pos + 1 <= Len(source)
                 /\ current' = source[pos + 1]
                 /\ \/ pos + 1 < Len(source) /\ next' = source[pos + 2] /\ idx' = pos + 2
                    \/ pos + 1 = Len(source) /\ next' = Nothing /\ idx' = pos + 1
              \/ pc' = "done" /\ pos + 1 = Len(source) + 1 /\ idx' = Len(source)
  <1> USE DEF ReplayInv, TypeOK, InStep
  <1>1. CASE pos < Len(source)
    <2>1. source[pos + 1] # Nothing
      BY <1>1, SourceEvents
    <2>2. read_next /\ current' = next /\ pos' = pos + 1 /\ next' = out' /\ pc' = "loop"
      BY <1>1, <2>1 DEF advance
    <2>3. idx = pos + 1 /\ next = source[pos + 1]
      BY <1>1
    <2>4. /\ source' = source /\ defined' = defined
          /\ idx' \in 0 .. Len(source)
          /\ out' \in Events \cup {Nothing}
          /\ \/ idx < Len(source) /\ idx' = idx + 1 /\ out' = source[idx + 1]
             \/ idx = Len(source) /\ idx' = idx /\ out' = Nothing
      BY <2>2, ReadGives
    <2> QED
      BY <1>1, <2>2, <2>3, <2>4
  <1>2. CASE pos = Len(source)
    <2>1. next = Nothing /\ idx = pos
      BY <1>2
    <2>2. /\ current' = next /\ pos' = pos + 1 /\ pc' = "done"
          /\ next' = next /\ UNCHANGED sourceVars
      BY <2>1 DEF advance
    <2>3. source' = source /\ idx' = idx /\ defined' = defined /\ out' = out
      BY <2>2 DEF sourceVars
    <2> QED
      BY <1>2, <2>1, <2>2, <2>3
  <1> QED
    BY <1>1, <1>2

(* Every step preserves the invariant. *)
LEMMA ReplayInvStep == ReplayInv /\ [Next]_vars => ReplayInv'
  <1> SUFFICES ASSUME ReplayInv, [Next]_vars PROVE ReplayInv'
    OBVIOUS
  <1> USE DEF ReplayInv
  <1>1. ASSUME NEW s \in StartTimes, NEW e \in EndTimes, Run(s, e) PROVE ReplayInv'
    <2>1. /\ source' = source /\ defined' = defined
          /\ idx' \in 0 .. Len(source)
          /\ out' \in Events \cup {Nothing}
          /\ \/ idx < Len(source) /\ idx' = idx + 1 /\ out' = source[idx + 1]
                /\ out' # Nothing
             \/ idx = Len(source) /\ idx' = idx /\ out' = Nothing
      BY <1>1, ReadGives DEF Run
    <2>2. /\ start_time' = s /\ end_time' = e /\ begun' = idx /\ runs' = runs + 1
          /\ runs < MaxRuns /\ current' = out' /\ next' = Nothing /\ pos' = idx + 1
          /\ pc' = IF out' = Nothing THEN "done" ELSE "prime"
          /\ UNCHANGED countVars /\ pc \in {"ready", "done"}
      BY <1>1 DEF Run
    <2>3. TypeOK'
      BY <2>1, <2>2, ReplayAssumption DEF TypeOK, countVars
    <2>4. InStep'
      BY <2>1, <2>2 DEF TypeOK, InStep
    <2>5. PassedOver'
      <3>1. \A i \in delivered : 1 <= i /\ i < idx + 1
        BY <2>2 DEF TypeOK, InStep, PassedOver
      <3> QED
        BY <2>1, <2>2, <3>1 DEF TypeOK, PassedOver, countVars
    <2>6. CountedOnce'
      BY <2>2 DEF CountedOnce, countVars
    <2> QED
      BY <2>3, <2>4, <2>5, <2>6
  <1>2. CASE Prime
    <2>1. /\ source' = source /\ defined' = defined
          /\ idx' \in 0 .. Len(source)
          /\ out' \in Events \cup {Nothing}
          /\ \/ idx < Len(source) /\ idx' = idx + 1 /\ out' = source[idx + 1]
                /\ out' # Nothing
             \/ idx = Len(source) /\ idx' = idx /\ out' = Nothing
      BY <1>2, ReadGives DEF Prime
    <2>2. /\ next' = out' /\ pc' = "loop" /\ pc = "prime"
          /\ UNCHANGED <<current, pos, runVars, countVars>>
      BY <1>2 DEF Prime
    <2>3. TypeOK'
      BY <2>1, <2>2 DEF TypeOK, runVars, countVars
    <2>4. InStep'
      BY <2>1, <2>2 DEF TypeOK, InStep
    <2>5. PassedOver'
      BY <2>1, <2>2 DEF TypeOK, InStep, PassedOver, InWindow, runVars, countVars
    <2>6. CountedOnce'
      BY <2>2 DEF CountedOnce, countVars
    <2> QED
      BY <2>3, <2>4, <2>5, <2>6
  <1>3. CASE Skip
    <2>1. pc = "loop" /\ TooEarly(current) /\ advance /\ UNCHANGED <<runVars, countVars>>
      BY <1>3 DEF Skip
    <2>2. /\ current = source[pos] /\ pos <= Len(source) /\ current \in Events
          /\ ~ InWindow(current)
      <3>1. current = source[pos] /\ pos \in 1 .. Len(source)
        BY <2>1 DEF InStep, PassedOver, TypeOK
      <3>2. current \in Events
        BY <3>1 DEF TypeOK
      <3> QED
        BY <2>1, <3>1, <3>2, WindowIs
    <2> HIDE DEF ReplayInv
    <2>3. /\ source' = source /\ defined' = defined
          /\ idx' \in 0 .. Len(source)
          /\ out' \in Events \cup {Nothing}
          /\ current' \in Events \cup {Nothing} /\ next' \in Events \cup {Nothing}
          /\ pos' = pos + 1
          /\ \/ /\ pc' = "loop" /\ pos + 1 <= Len(source)
                /\ current' = source[pos + 1]
                /\ \/ pos + 1 < Len(source) /\ next' = source[pos + 2] /\ idx' = pos + 2
                   \/ pos + 1 = Len(source) /\ next' = Nothing /\ idx' = pos + 1
             \/ pc' = "done" /\ pos + 1 = Len(source) + 1 /\ idx' = Len(source)
      BY <2>1, AdvanceGives
    <2> USE DEF ReplayInv
    <2>4. TypeOK'
      BY <2>1, <2>3 DEF TypeOK, runVars, countVars
    <2>5. InStep'
      BY <2>3 DEF TypeOK, InStep
    <2>6. PassedOver'
      BY <2>1, <2>2, <2>3 DEF TypeOK, PassedOver, InWindow, runVars, countVars
    <2>7. CountedOnce'
      BY <2>1 DEF CountedOnce, countVars
    <2> QED
      BY <2>4, <2>5, <2>6, <2>7
  <1>4. CASE Stop
    <2>1. /\ pc = "loop" /\ ~ TooEarly(current) /\ TooLate(current) /\ pc' = "done"
          /\ UNCHANGED <<sourceVars, current, next, pos, runVars, countVars>>
      BY <1>4 DEF Stop
    <2>2. TypeOK'
      BY <2>1 DEF TypeOK, sourceVars, runVars, countVars
    <2>3. InStep'
      BY <2>1 DEF TypeOK, InStep, TooEarly, TooLate, sourceVars, runVars
    <2>4. PassedOver'
      BY <2>1 DEF TypeOK, PassedOver, InWindow, sourceVars, runVars, countVars
    <2>5. CountedOnce'
      BY <2>1 DEF CountedOnce, countVars
    <2> QED
      BY <2>2, <2>3, <2>4, <2>5
  <1>5. CASE Dispatch
    <2>1. /\ pc = "loop" /\ ~ TooEarly(current) /\ ~ TooLate(current) /\ advance
          /\ delivered' = delivered \cup {pos}
          /\ events_processed' = events_processed + 1
          /\ UNCHANGED <<runVars, uncounted>>
      BY <1>5 DEF Dispatch
    <2>2. /\ current = source[pos] /\ pos <= Len(source) /\ current \in Events
          /\ InWindow(current)
      <3>1. current = source[pos] /\ pos \in 1 .. Len(source)
        BY <2>1 DEF InStep, PassedOver, TypeOK
      <3>2. current \in Events
        BY <3>1 DEF TypeOK
      <3> QED
        BY <2>1, <3>1, <3>2, WindowIs
    <2> HIDE DEF ReplayInv
    <2>3. /\ source' = source /\ defined' = defined
          /\ idx' \in 0 .. Len(source)
          /\ out' \in Events \cup {Nothing}
          /\ current' \in Events \cup {Nothing} /\ next' \in Events \cup {Nothing}
          /\ pos' = pos + 1
          /\ \/ /\ pc' = "loop" /\ pos + 1 <= Len(source)
                /\ current' = source[pos + 1]
                /\ \/ pos + 1 < Len(source) /\ next' = source[pos + 2] /\ idx' = pos + 2
                   \/ pos + 1 = Len(source) /\ next' = Nothing /\ idx' = pos + 1
             \/ pc' = "done" /\ pos + 1 = Len(source) + 1 /\ idx' = Len(source)
      BY <2>1, AdvanceGives
    <2> USE DEF ReplayInv
    <2>4. TypeOK'
      BY <2>1, <2>3 DEF TypeOK, runVars
    <2>5. InStep'
      BY <2>3 DEF TypeOK, InStep
    <2>6. PassedOver'
      BY <2>1, <2>2, <2>3 DEF TypeOK, PassedOver, InWindow, runVars
    <2>7. CountedOnce'
      <3>1. pos \notin delivered /\ uncounted' = uncounted
        BY <2>1 DEF TypeOK, PassedOver
      <3>2. IsFiniteSet(delivered') /\ Cardinality(delivered') = Cardinality(delivered) + 1
        BY <2>1, <3>1, FS_AddElement DEF CountedOnce
      <3>3. Cardinality(delivered) \in Nat
        BY FS_CardinalityType DEF CountedOnce
      <3> QED
        BY <2>1, <3>1, <3>2, <3>3 DEF CountedOnce, TypeOK
    <2> QED
      BY <2>4, <2>5, <2>6, <2>7
  <1>6. CASE ResetReader
    <2>1. /\ source' = source /\ defined' = defined /\ out' = out /\ idx' = 0
          /\ pc' = "ready" /\ delivered' = {} /\ uncounted' = events_processed
          /\ UNCHANGED <<current, next, pos, runVars, events_processed>>
      BY <1>6 DEF ResetReader, reset
    <2>2. TypeOK'
      BY <2>1 DEF TypeOK, runVars
    <2>3. InStep' /\ PassedOver'
      BY <2>1 DEF InStep, PassedOver
    <2>4. CountedOnce'
      BY <2>1, FS_EmptySet DEF CountedOnce, TypeOK
    <2> QED
      BY <2>2, <2>3, <2>4
  <1>7. ASSUME NEW file \in Files, NewEngine(file) PROVE ReplayInv'
    <2>1. /\ source' = file /\ idx' = 0 /\ defined' = TRUE /\ out' = out
          /\ pc' = "ready" /\ current' = Nothing /\ next' = Nothing /\ pos' = 0
          /\ events_processed' = 0 /\ uncounted' = 0 /\ delivered' = {}
          /\ UNCHANGED runVars
      BY <1>7 DEF NewEngine, OpenFile
    <2>2. file \in Seq(Events) /\ 0 \in 0 .. Len(file)
      BY SourceAssumption
    <2>3. TypeOK'
      BY <2>1, <2>2 DEF TypeOK, runVars
    <2>4. InStep' /\ PassedOver'
      BY <2>1 DEF InStep, PassedOver
    <2>5. CountedOnce'
      BY <2>1, FS_EmptySet DEF CountedOnce
    <2> QED
      BY <2>3, <2>4, <2>5
  <1>8. CASE UNCHANGED vars
    BY <1>8 DEF vars, sourceVars, loopVars, runVars, countVars, TypeOK, InStep,
                PassedOver, CountedOnce, InWindow, TooEarly, TooLate
  <1> QED
    BY <1>1, <1>2, <1>3, <1>4, <1>5, <1>6, <1>7, <1>8 DEF Next, Iterate

(* Every reachable state satisfies the inductive invariant. *)
THEOREM ReplayInvariant == Spec => []ReplayInv
  BY ReplayInvInit, ReplayInvStep, PTL DEF Spec

(* Every variable of the ReplayEngine keeps its type. *)
THEOREM ReplayTypeCorrect == Spec => []TypeOK
  BY ReplayInvariant, PTL DEF ReplayInv

(* No event is dispatched twice before a reset of the reader. *)
THEOREM DispatchedOnce == Spec => []CountedOnce
  BY ReplayInvariant, PTL DEF ReplayInv

(* The loop's two events are adjacent events of the file, the first at the *)
(* position the loop has reached.                                          *)
THEOREM LookAheadNeverSlips == Spec => []LookAheadInStep
  <1>1. ReplayInv => LookAheadInStep
    BY DEF ReplayInv, InStep, LookAheadInStep
  <1> QED
    BY <1>1, ReplayInvariant, PTL

(* At the end of a run the invariant says what was dispatched. *)
LEMMA WindowPassedOver == ReplayInv => WindowReplayed
  <1> SUFFICES ASSUME ReplayInv, pc = "done", Sorted
               PROVE  {i \in delivered : i > begun} =
                      {i \in begun + 1 .. Len(source) : InWindow(source[i])}
    BY DEF WindowReplayed
  <1> USE DEF ReplayInv
  <1>1. \A i \in delivered : 1 <= i /\ i < pos /\ i \in Nat
    BY DEF PassedOver, TypeOK
  <1>2. \A i \in begun + 1 .. pos - 1 : i \in delivered <=> InWindow(source[i])
    BY DEF PassedOver
  <1>3. begun < pos /\ pos <= Len(source) + 1 /\ begun \in Nat /\ pos \in Nat
    BY DEF PassedOver, TypeOK
  <1>4. \A i \in begun + 1 .. Len(source) : i >= pos => ~ InWindow(source[i])
    <2> SUFFICES ASSUME NEW i \in begun + 1 .. Len(source), i >= pos
                 PROVE  ~ InWindow(source[i])
      OBVIOUS
    <2>1. TooLate(source[pos]) /\ pos \in 1 .. Len(source) /\ i \in 1 .. Len(source)
      BY <1>3 DEF InStep, TypeOK
    <2>2. source[pos].timestamp <= source[i].timestamp
      <3>1. CASE pos = i
        <4>1. source[pos] \in Events
          BY <2>1 DEF TypeOK
        <4> QED
          BY <3>1, <4>1, ReplayAssumption
      <3>2. CASE pos < i
        BY <2>1, <3>2 DEF Sorted
      <3> QED
        BY <1>3, <3>1, <3>2
    <2>3. source[pos].timestamp \in Int /\ source[i].timestamp \in Int
          /\ end_time \in Int
      <3>1. source[pos] \in Events /\ source[i] \in Events
        BY <2>1 DEF TypeOK
      <3> QED
        BY <3>1, ReplayAssumption DEF TypeOK
    <2> QED
      BY <2>1, <2>2, <2>3 DEF InWindow, TooLate
  <1> HIDE DEF ReplayInv
  <1> QED
    BY <1>1, <1>2, <1>3, <1>4

(* A finished run over a sorted file has dispatched the window, whole and  *)
(* nothing else, for every file and every window.                          *)
THEOREM RunReplaysWindow == Spec => []WindowReplayed
  BY WindowPassedOver, ReplayInvariant, PTL

(* Events reach the strategy in the order of the file. *)
THEOREM DispatchInOrder == Spec => InFileOrder
  <1>1. ReplayInv /\ [Next]_vars =>
            [\A i \in delivered' \ delivered, j \in delivered : j < i]_vars
    <2> SUFFICES ASSUME ReplayInv, [Next]_vars,
                        NEW i \in delivered' \ delivered, NEW j \in delivered
                 PROVE  j < i
      OBVIOUS
    <2>1. pc = "loop" /\ delivered' = delivered \cup {pos}
      BY DEF Next, Iterate, Run, Prime, Skip, Stop, Dispatch, ResetReader, NewEngine,
             vars, countVars
    <2> QED
      BY <2>1 DEF ReplayInv, PassedOver
  <1> QED
    BY <1>1, ReplayInvariant, PTL DEF Spec, InFileOrder
=============================================================================
