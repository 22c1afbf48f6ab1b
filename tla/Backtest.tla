------------------------------ MODULE Backtest ------------------------------
(***************************************************************************)
(* A backtest as PythonBacktestRunner::run (bindings/python/module.cpp)    *)
(* puts it together: a BinaryReader, opened for the run; the loop of       *)
(* ReplayEngine over it; the strategy's callbacks; and the                 *)
(* ExchangeSimulator and Portfolio that the strategy's orders go to.       *)
(* Reader and engine live for one run, simulator and portfolio, with the   *)
(* orders in the book, for all runs.                                       *)
(*                                                                         *)
(* In a callback the strategy may send, cancel and modify orders, with the *)
(* calls of Strategy; each returns when the matching it started is over.   *)
(* (A strategy written in Python is handed trades and ticks but none of    *)
(* these calls: its runs are those without a step of StrategyCalls.  One   *)
(* derived from Strategy has them all.)  Nobody tells the simulator the    *)
(* time of an event, so current_time stays 0 and an order has the event's  *)
(* time only if the strategy stamps it itself.                             *)
(***************************************************************************)
EXTENDS ExchangeSimulator, Sequences

CONSTANTS
    Events,            \* the events of the data files
    Files,             \* the data files
    Nothing,           \* what read_next yields when it returns false
    EVENTS_PER_READ,   \* the reader's chunk
    StartTimes,        \* values of BacktestConfig::start_time and ...
    EndTimes,          \* ... end_time
    Callbacks,         \* the callbacks that the strategy implements
    MaxRuns            \* bound: calls of run that get as far as the engine

VARIABLES
    is_open, file, base, buffer_count, buffer_idx, is_eof, next_event,
    has_next, out, opened, crashed,   \* the BinaryReader
    pc,                \* "ready", "opened", "first", "prime", "loop", "callback", "done"
    current,           \* current_event of ReplayEngine::run
    next,              \* next_event
    at,                \* where in the file current is
    events_processed,
    delivered,         \* positions dispatched in this run
    start_time,
    end_time,
    runs,
    orders             \* per order sent or modified, its run and position in the file

readerVars == <<is_open, file, base, buffer_count, buffer_idx, is_eof, next_event,
                has_next, out, opened, crashed>>
engineRunVars == <<events_processed, delivered>>
configVars == <<start_time, end_time>>
allVars == <<vars, readerVars, pc, current, next, at, engineRunVars, configVars, runs, orders>>

Reader == INSTANCE BinaryReader

(* What the run looks like to the caller of ReplayEngine: a callback is    *)
(* part of an iteration, the reader an EventSource.                        *)
Replay == INSTANCE ReplayEngine WITH
    source     <- file,
    idx        <- Reader!HandedOut,
    defined    <- TRUE,
    pc         <- IF pc \in {"opened", "first"} THEN "ready"
                  ELSE IF pc = "callback" THEN "loop" ELSE pc,
    start_time <- IF runs = 0 THEN 0 ELSE start_time,
    end_time   <- IF runs = 0 THEN 0 ELSE end_time,
    pos        <- at,
    begun      <- 0,
    uncounted  <- 0

ASSUME BacktestAssumption ==
    /\ Files \subseteq Seq(Events) /\ <<>> \in Files
    /\ Nothing \notin Events
    /\ EVENTS_PER_READ \in Nat \ {0}
    /\ Events \subseteq [timestamp : Times, type : Replay!EventType]
    /\ StartTimes \subseteq Int /\ EndTimes \subseteq Int
    /\ MaxRuns \in Nat

-----------------------------------------------------------------------------
(* PythonBacktestRunner::PythonBacktestRunner *)
BacktestInit ==
    /\ Init
    /\ Reader!Init
    /\ pc = "ready"
    /\ current = Nothing /\ next = Nothing /\ at = 0
    /\ events_processed = 0 /\ delivered = {}
    /\ start_time \in StartTimes /\ end_time \in EndTimes
    /\ runs = 0
    /\ orders = <<>>

(* Mutant of OpenData: the reader outlives the run and reads on. *)
OpenDataOnce(f) ==
    /\ pc \in {"ready", "done"}
    /\ runs < MaxRuns
    /\ IF is_open THEN UNCHANGED readerVars ELSE Reader!do_open(f)
    /\ pc' = IF has_next' THEN "opened" ELSE "ready"
    /\ current' = Nothing /\ next' = Nothing /\ at' = 0
    /\ events_processed' = 0 /\ delivered' = {}
    /\ UNCHANGED <<vars, configVars, runs, orders>>

(* run opens a file that is there.  open is FALSE of an empty file too,    *)
(* and run throws.  The engine of the run before is gone.                  *)
OpenData(f) ==
    /\ pc \in {"ready", "done"}
    /\ runs < MaxRuns
    /\ Reader!do_open(f)
    /\ pc' = IF has_next' THEN "opened" ELSE "ready"
    /\ current' = Nothing /\ next' = Nothing /\ at' = 0
    /\ events_processed' = 0 /\ delivered' = {}
    /\ UNCHANGED <<vars, configVars, runs, orders>>

(* run throws, because the file is not there. *)
OpenThrows ==
    /\ pc \in {"ready", "done"}
    /\ Reader!do_open_fails
    /\ UNCHANGED <<vars, pc, current, next, at, engineRunVars, configVars, runs, orders>>

(* run initializes the simulator and constructs the engine. *)
InitializeRun ==
    /\ pc = "opened"
    /\ initialize
    /\ pc' = "first"
    /\ UNCHANGED <<readerVars, current, next, at, engineRunVars, configVars, runs, orders>>

(* The loop of ReplayEngine::run, with the reader's own steps. *)
FirstRead ==
    /\ pc = "first"
    /\ Reader!do_read_next
    /\ current' = out' /\ next' = Nothing /\ at' = 1
    /\ pc' = IF out' = Nothing THEN "done" ELSE "prime"
    /\ runs' = runs + 1
    /\ UNCHANGED <<vars, engineRunVars, configVars, orders>>

SecondRead ==
    /\ pc = "prime"
    /\ Reader!do_read_next
    /\ next' = out'
    /\ pc' = "loop"
    /\ UNCHANGED <<vars, current, at, engineRunVars, configVars, runs, orders>>

MoveOn ==
    /\ current' = next
    /\ at' = at + 1
    /\ \/ /\ next # Nothing
          /\ Reader!do_read_next
          /\ next' = out'
          /\ pc' = "loop"
       \/ /\ next = Nothing
          /\ pc' = "done"
          /\ UNCHANGED <<next, readerVars>>

(* Mutant of SkipEvent: an early event is passed over without moving on.   *)
SkipInPlace ==
    /\ pc = "loop"
    /\ Replay!TooEarly(current)
    /\ UNCHANGED allVars

SkipEvent ==
    /\ pc = "loop"
    /\ Replay!TooEarly(current)
    /\ MoveOn
    /\ UNCHANGED <<vars, engineRunVars, configVars, runs, orders>>

StopRun ==
    /\ pc = "loop"
    /\ ~ Replay!TooEarly(current) /\ Replay!TooLate(current)
    /\ pc' = "done"
    /\ UNCHANGED <<vars, readerVars, current, next, at, engineRunVars, configVars,
                   runs, orders>>

(* Mutant of Deliver: events before the window are delivered. *)
DeliverEarly ==
    /\ pc = "loop"
    /\ ~ Replay!TooLate(current)
    /\ pc' = "callback"
    /\ UNCHANGED <<vars, readerVars, current, next, at, engineRunVars, configVars,
                   runs, orders>>

(* dispatch calls the strategy. *)
Deliver ==
    /\ pc = "loop"
    /\ ~ Replay!TooEarly(current) /\ ~ Replay!TooLate(current)
    /\ pc' = "callback"
    /\ UNCHANGED <<vars, readerVars, current, next, at, engineRunVars, configVars,
                   runs, orders>>

(* Does the strategy implement the callback that the event goes to?        *)
(* CppBridgeStrategy implements on_trade and on_tick.                      *)
Handled(e) == Replay!callback(e.type) \in Callbacks

(* Strategy::send_order, with any stamp, cancel_order and modify_order,    *)
(* from a callback that the strategy implements.                           *)
StrategyCalls ==
    /\ pc = "callback"
    /\ Handled(current)
    /\ Submit \/ Cancel \/ Modify
    /\ orders' = IF submits' = submits THEN orders
                 ELSE Append(orders, [run |-> runs, at |-> at])
    /\ UNCHANGED <<readerVars, pc, current, next, at, engineRunVars, configVars, runs>>

(* The matching that a call started. *)
Matching ==
    /\ pc = "callback"
    /\ Trade \/ ReportPassive \/ Finish
    /\ UNCHANGED <<readerVars, pc, current, next, at, engineRunVars, configVars, runs, orders>>

(* The callback returns, once its last call has, and the loop moves on. *)
Return ==
    /\ pc = "callback"
    /\ Idle
    /\ delivered' = delivered \cup {at}
    /\ events_processed' = events_processed + 1
    /\ MoveOn
    /\ UNCHANGED <<vars, configVars, runs, orders>>

Loop == InitializeRun \/ FirstRead \/ SecondRead \/ SkipEvent \/ StopRun \/ Deliver

BacktestNext ==
    \/ \E f \in Files : OpenData(f)
    \/ OpenThrows
    \/ Loop
    \/ StrategyCalls \/ Matching \/ Return

(* One thread runs the loop, the matching and the callbacks, which return  *)
(* after finitely many calls.                                              *)
BacktestSpec ==
    /\ BacktestInit /\ [][BacktestNext]_allVars
    /\ WF_allVars(Loop) /\ WF_allVars(Matching) /\ WF_allVars(Return)

-----------------------------------------------------------------------------
(* Every run is a run of ReplayEngine over an EventSource: neither the     *)
(* chunks of the reader, nor the orders that callbacks send, nor an        *)
(* earlier run with its leftovers, change what is replayed.                *)
ImplementsReplay == Replay!Init /\ [][Replay!Next]_(Replay!vars)

Window == {i \in 1 .. Len(file) : Replay!InWindow(file[i])}

BehindSentinel(i) == \E j \in 1 .. i - 1 : file[j].type = "EndOfData"

(* A run that has ended over a sorted file dispatched the whole window and *)
(* counted it, whatever the runs before it read, including events of types *)
(* that the strategy does not handle.  What comes behind an EndOfData, the *)
(* "sentinel: no more events", need not be there; as the loop does not     *)
(* look at types, it is.                                                   *)
EveryRunComplete ==
    pc = "done" /\ Replay!Sorted =>
        /\ delivered \subseteq Window
        /\ {i \in Window : ~ BehindSentinel(i)} \subseteq delivered
        /\ events_processed = Cardinality(delivered)

(* Is or was run the run of the engine that there is? *)
UnderWay(run) == run = runs /\ pc \notin {"ready", "opened", "first"}

(* Every order is the answer to an event of the window whose callback the  *)
(* strategy implements, and orders go out in the order of the events they  *)
(* answer: the event read ahead never gives rise to one.                   *)
OrdersAnswerEvents ==
    /\ \A k \in 1 .. Len(orders) : UnderWay(orders[k].run) =>
        /\ Replay!InWindow(file[orders[k].at])
        /\ Handled(file[orders[k].at])
        /\ orders[k].at \in delivered \cup {at}
    /\ \A k, l \in 1 .. Len(orders) : k < l =>
        \/ orders[k].run < orders[l].run
        \/ orders[k].run = orders[l].run /\ orders[k].at <= orders[l].at

(* Every run that has opened its file returns. *)
RunEnds == pc \in {"opened", "first", "prime", "loop", "callback"} ~> pc = "done"
=============================================================================
