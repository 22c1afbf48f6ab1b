---------------------------- MODULE ReplayEngine ----------------------------
(***************************************************************************)
(* The replay loop (replay_engine.hpp) over a reader that does what        *)
(* EventSource promises.  The loop holds the event it works on and the one *)
(* after it; every iteration skips, dispatches or stops, and then moves    *)
(* both on by a read.  has_current and has_next are FALSE where current    *)
(* and next are Nothing.                                                   *)
(*                                                                         *)
(* The caller owns reader, engine and configuration: it may run the engine *)
(* again, with the window changed and the reader reset or not, or set up a *)
(* new reader and a new engine.                                            *)
(***************************************************************************)
EXTENDS EventSource, FiniteSets

CONSTANTS
    StartTimes,  \* values of start_time and ...
    EndTimes,    \* ... end_time, where 0 stands for no limit
    MaxRuns      \* bound: calls of run

(* The event types, in the order of their codes. *)
EventType == {"MarketTick", "Trade", "Quote", "OrderAdd", "OrderCancel",
              "OrderModify", "OrderExecution", "StrategyTimer", "BarClose",
              "SessionStart", "SessionEnd", "EndOfData"}

ASSUME ReplayAssumption ==
    /\ Events \subseteq [timestamp : Int, type : EventType]
    /\ StartTimes \subseteq Int
    /\ EndTimes \subseteq Int
    /\ MaxRuns \in Nat

VARIABLES
    pc,                \* "ready", "prime" (second read), "loop" or "done"
    current,           \* current_event
    next,              \* next_event
    start_time,
    end_time,
    events_processed,
    pos,               \* where in the source current is
    begun,             \* idx of the reader when the run began
    delivered,         \* positions dispatched since the last reset
    uncounted,         \* events_processed at the last reset
    runs

loopVars == <<pc, current, next, pos>>
runVars == <<start_time, end_time, begun, runs>>
countVars == <<events_processed, delivered, uncounted>>
vars == <<sourceVars, loopVars, runVars, countVars>>

Init ==
    /\ source \in Files /\ idx = 0 /\ defined = TRUE /\ out = Nothing
    /\ pc = "ready"
    /\ current = Nothing /\ next = Nothing
    /\ start_time = 0 /\ end_time = 0
    /\ events_processed = 0 /\ uncounted = 0
    /\ pos = 0 /\ begun = 0
    /\ delivered = {}
    /\ runs = 0

(* The callback of the strategy that EventDispatcher::dispatch picks. *)
callback(type) ==
    CASE type = "MarketTick"     -> "on_tick"
      [] type = "Trade"          -> "on_trade"
      [] type = "Quote"          -> "on_quote"
      [] type = "OrderAdd"       -> "on_order_add"
      [] type = "OrderCancel"    -> "on_order_cancel"
      [] type = "OrderModify"    -> "on_order_modify"
      [] type = "OrderExecution" -> "on_order_execution"
      [] type = "StrategyTimer"  -> "on_timer"
      [] type = "SessionStart"   -> "on_session_start"
      [] type = "SessionEnd"     -> "on_session_end"
      [] OTHER                   -> "none"

TooEarly(e) == start_time # 0 /\ e.timestamp < start_time

(* Mutant of TooLate: the end of the window is left out. *)
TooLateOrLast(e) == end_time # 0 /\ e.timestamp >= end_time

TooLate(e) == end_time # 0 /\ e.timestamp > end_time

(* Mutant of advance: the read comes before the move. *)
advance_reading_first ==
    /\ pos' = pos + 1
    /\ \/ /\ next # Nothing
          /\ read_next
          /\ current' = out' /\ next' = out'
          /\ pc' = IF out' = Nothing THEN "done" ELSE "loop"
       \/ /\ next = Nothing
          /\ current' = next
          /\ pc' = "done"
          /\ UNCHANGED <<next, sourceVars>>

(* The label advance: the read is left out once the source has run dry. *)
advance ==
    /\ current' = next
    /\ pos' = pos + 1
    /\ \/ /\ next # Nothing
          /\ read_next
          /\ next' = out'
          /\ pc' = "loop"
       \/ /\ next = Nothing
          /\ pc' = "done"
          /\ UNCHANGED <<next, sourceVars>>

-----------------------------------------------------------------------------
(* Mutant of Run: the reader is rewound first. *)
RunRewound(s, e) ==
    /\ pc \in {"ready", "done"}
    /\ runs < MaxRuns
    /\ source # <<>>
    /\ start_time' = s /\ end_time' = e
    /\ begun' = 0
    /\ runs' = runs + 1
    /\ idx' = 1 /\ out' = source[1]
    /\ current' = source[1]
    /\ next' = Nothing
    /\ pos' = 1
    /\ pc' = "prime"
    /\ UNCHANGED <<source, defined, countVars>>

(* run starts: the first read ... *)
Run(s, e) ==
    /\ pc \in {"ready", "done"}
    /\ runs < MaxRuns
    /\ start_time' = s /\ end_time' = e
    /\ begun' = idx
    /\ runs' = runs + 1
    /\ read_next
    /\ current' = out'
    /\ next' = Nothing
    /\ pos' = idx + 1
    /\ pc' = IF out' = Nothing THEN "done" ELSE "prime"
    /\ UNCHANGED countVars

(* ... and the second. *)
Prime ==
    /\ pc = "prime"
    /\ read_next
    /\ next' = out'
    /\ pc' = "loop"
    /\ UNCHANGED <<current, pos, runVars, countVars>>

(* One iteration of the loop: current is before the window, ... *)
Skip ==
    /\ pc = "loop"
    /\ TooEarly(current)
    /\ advance
    /\ UNCHANGED <<runVars, countVars>>

(* Mutant of Stop: the loop goes round again where it should be left. *)
StopContinuing ==
    /\ pc = "loop"
    /\ ~ TooEarly(current) /\ TooLate(current)
    /\ UNCHANGED vars

(* ... after it, ... *)
Stop ==
    /\ pc = "loop"
    /\ ~ TooEarly(current) /\ TooLate(current)
    /\ pc' = "done"
    /\ UNCHANGED <<sourceVars, current, next, pos, runVars, countVars>>

(* Mutant of Dispatch: the loop does not move on. *)
DispatchAgain ==
    /\ pc = "loop"
    /\ ~ TooEarly(current) /\ ~ TooLate(current)
    /\ delivered' = delivered \cup {pos}
    /\ events_processed' = events_processed + 1
    /\ UNCHANGED <<sourceVars, loopVars, runVars, uncounted>>

(* ... or goes to the strategy. *)
Dispatch ==
    /\ pc = "loop"
    /\ ~ TooEarly(current) /\ ~ TooLate(current)
    /\ delivered' = delivered \cup {pos}
    /\ events_processed' = events_processed + 1
    /\ advance
    /\ UNCHANGED <<runVars, uncounted>>

(* The caller resets the reader between runs. *)
ResetReader ==
    /\ pc \in {"ready", "done"}
    /\ reset
    /\ pc' = "ready"
    /\ delivered' = {}
    /\ uncounted' = events_processed
    /\ UNCHANGED <<current, next, pos, runVars, events_processed>>

(* The caller sets up a reader on a file and a ReplayEngine on the reader. *)
NewEngine(file) ==
    /\ pc \in {"ready", "done"}
    /\ OpenFile(file)
    /\ pc' = "ready"
    /\ current' = Nothing /\ next' = Nothing /\ pos' = 0
    /\ events_processed' = 0 /\ uncounted' = 0
    /\ delivered' = {}
    /\ UNCHANGED runVars

Iterate == Prime \/ Skip \/ Stop \/ Dispatch

Next ==
    \/ \E s \in StartTimes, e \in EndTimes : Run(s, e)
    \/ Iterate
    \/ ResetReader
    \/ \E file \in Files : NewEngine(file)

(* run is a loop in one thread: once called it keeps taking steps. *)
Spec == Init /\ [][Next]_vars /\ WF_vars(Iterate)

-----------------------------------------------------------------------------
(* Every variable has its type. *)
TypeOK ==
    /\ source \in Seq(Events) /\ idx \in 0 .. Len(source) /\ defined = TRUE
    /\ out \in Events \cup {Nothing}
    /\ pc \in {"ready", "prime", "loop", "done"}
    /\ current \in Events \cup {Nothing} /\ next \in Events \cup {Nothing}
    /\ start_time \in StartTimes \cup {0} /\ end_time \in EndTimes \cup {0}
    /\ events_processed \in Nat /\ uncounted \in Nat
    /\ pos \in Nat /\ begun \in Nat
    /\ delivered \subseteq Nat
    /\ runs \in 0 .. MaxRuns

(* No event is dispatched twice before the reader is reset, not even by    *)
(* another run: events_processed grew by the number of different events.   *)
CountedOnce ==
    /\ IsFiniteSet(delivered)
    /\ events_processed - uncounted = Cardinality(delivered)

(* Events are dispatched in the order of the file, also across runs: a     *)
(* later event never gets ahead of one that is still to come.              *)
InFileOrder ==
    [][\A i \in delivered' \ delivered, j \in delivered : j < i]_vars

Sorted == \A i, j \in 1 .. Len(source) :
    i < j => source[i].timestamp <= source[j].timestamp

InWindow(e) ==
    /\ start_time = 0 \/ e.timestamp >= start_time
    /\ end_time = 0 \/ e.timestamp <= end_time

(* Over a file sorted by time, a run that has ended dispatched exactly the *)
(* events of the window among those the reader had left when it began:     *)
(* neither the early stop nor the read ahead costs the run an event.       *)
WindowReplayed ==
    pc = "done" /\ Sorted =>
        {i \in delivered : i > begun} =
        {i \in begun + 1 .. Len(source) : InWindow(source[i])}

(* The loop works on the event that its position says, and its look-ahead  *)
(* is the event after it: the read ahead never slips.                      *)
LookAheadInStep ==
    pc = "loop" => /\ current = source[pos]
                   /\ next = IF pos < Len(source) THEN source[pos + 1] ELSE Nothing

(* A call of run returns. *)
RunReturns == [](pc \in {"prime", "loop"} => <>(pc = "done"))
=============================================================================
