# A TLA+ verification of UltraBacktest

UltraBacktest replays historical market data to a trading strategy, matches the strategy's
orders in a simulated exchange and keeps the books. This directory holds TLA+ models of its
own code (`include/ultrabacktest`, `src`), TLC configurations that check them on small
instances, and proofs, checked by TLAPS, of the main properties for all instances.

## The system

| Component | State | Operations | Talks to |
|---|---|---|---|
| Portfolio (`portfolio.hpp/.cpp`) | `cash_`, one `Position` per symbol | `on_execution`, `update_m2m`, `total_pnl`, `total_equity` | called by the simulator; read by the risk engine and the analytics |
| FeeModel (`types.hpp`) | – | `compute` | called by the Portfolio |
| RiskEngine (`risk_engine.hpp/.cpp`) | `killed_` | `check_pre_trade`, `trigger_kill_switch` | reads the live Portfolio; its caller routes the order |
| ExchangeSimulator (`exchange_simulator.hpp/.cpp`) | `current_time_`, the engine | `initialize`, `advance_to`, `submit_order`, `cancel_order`, `modify_order`, execution callback | Strategy → simulator → UltraLOB → callback → Portfolio, all inside one call |
| UltraLOB (not in the repository) | order books | submit, cancel, modify | two callbacks per trade |
| DataReader, MemoryReader, BinaryReader | file, buffer, one event of look-ahead | `open`, `read_next`, `has_next`, `reset` | called by the ReplayEngine |
| CsvReader, TickDecoder, SymbolMapper | line buffer, look-ahead, name → id map | the same, and decoding | called by the ReplayEngine |
| ReplayEngine, EventDispatcher | current and next event, `events_processed_` | `run`, `dispatch` | reader → strategy callbacks |
| Strategy (CRTP base) | – | callbacks, order calls | ReplayEngine and ExchangeSimulator |
| PerformanceAnalytics, ReportGenerator | peak, drawdown, return statistics | `update`, ratios | reads the Portfolio |
| Python bindings | a runner that owns one of each | `run` | everything |

The program has one thread. What is hard in it is not concurrency but *sequences*: long
chains of fills, closes and flips over truncated averages; orders approved against a position
that has moved when they fill; two reports for one trade with the books in between showing a
position nobody has; readers and a replay loop that each run one event ahead; buffers that end
exactly where a file does; a caller that reopens, resets or reruns. `PROJECT.json` lists these
hazards at their lines and the properties that watch over them.

What makes each component correct:

* **Portfolio**: the figures agree with the money that changed hands. Entry prices lie between
  prices paid, marks are fresh, profit is cash flow plus market value up to rounding, cash is
  initial cash plus realized profit less fees.
* **RiskEngine**: a bound on exposure that holds also for orders that rest together; a limit
  that locks no position in unless orders crowd; a kill switch after which exposure only shrinks.
* **ExchangeSimulator**: each trade is booked for both sides, at one price, with one fee each.
* **Readers**: the events of the file in order, each once, then no more; `has_next` agrees.
* **TickDecoder, SymbolMapper**: one id per name, whatever malformed lines come between, and ids that
  the rest of the program can index by.
* **ReplayEngine**: each event of the window once, in order; the loop ends.
* **PerformanceAnalytics, ReportGenerator**: figures kept in one pass are those of the whole
  history, and no NaN reaches a report.
* **PythonBacktestRunner**: each run replays its file as if it were the first, however much the
  portfolio and the books remember; orders answer what was delivered; a run ends.

## Modules

| Module | Models | State and actions |
|---|---|---|
| `Portfolio` | `Portfolio`, `FeeModel` | variables `cash`, `positions`; the operations as operators with the code's names. No `Next`: three modules below drive it. |
| `PortfolioLedger` | Portfolio under any reports and marks | adds an auditor's `ledger` (money flow, price range, rounding allowance) and the highest price met, `peak`, which the code does not keep; actions `Execution`, `Mark` |
| `RiskEngine` | `RiskEngine` | variable `killed`; `Reason` is the chain of checks in its order |
| `RiskDesk` | RiskEngine and Portfolio together | orders are checked (`Route`), rest, fill in parts (`MarketFill`), are cancelled; marks and `Kill` come between. `together` remembers how many orders at most rested on the same side of a symbol when another was approved there. The market is external. `Strategy::send_order` does not call the RiskEngine; the desk is a caller that does what the header of `risk_engine.hpp` describes. |
| `ExchangeSimulator` | ExchangeSimulator, the engine it wraps, Portfolio | one action per operation; the matching loop inside a call is one step per callback (`Trade`, `ReportPassive`, `Finish`), and other operations wait until the engine is `Idle` |
| `EventSource` | the contract of `DataReader`, and `MemoryReader` | a sequence and an index |
| `BinaryReader` | `BinaryReader` | the buffer is a window of the file it was read from; `fread`, `advance`, `do_open`, `do_read_next`, `do_reset`, and the open that fails |
| `CsvReader` | `CsvReader` | bytes are held by their position in the file, so that a line is known by where it came from; one step of `read_line` per turn of its loop (`CutLine`, `CutRest`, `NoLine`, `Refill`, `NullRead`), calls start with `do_open`, `do_read_next`, `do_reset`. `Rows` splits a file by a definition that knows of no buffer. |
| `TickDecoder` | `TickDecoder`, `SymbolMapper` | a line is the sequence of its cells; `decode_csv` is `Reject` (before the symbol is looked up), `RejectLate` (after it) or `Accept`. To the `CsvReader` a line decodes or not (`Decodes`). |
| `CsvFeed` | `CsvReader` with the `TickDecoder` it hands its lines to | composes the two: a turn of `read_line` that cuts a line behind the header decodes it in the same step (`ReadAndDecode`). The decoder and its map live on over opens and resets. |
| `ReplayEngine` | `ReplayEngine::run`, `EventDispatcher` | over `EventSource`: `Run` and `Prime` are the first two reads, `Skip`, `Stop` and `Dispatch` the iterations with their trailing advance; the caller may reset and rerun, or set up a new reader and engine (`NewEngine`) |
| `Backtest` | `PythonBacktestRunner`, with everything it owns | extends `ExchangeSimulator`, instantiates `BinaryReader`. `OpenData`, `OpenThrows`, `InitializeRun` are the runner's; `FirstRead`, `SecondRead`, `SkipEvent`, `StopRun`, `Deliver`, `Return` the loop's, with the reader's own steps in them. Between `Deliver` and `Return` the strategy makes any calls (`StrategyCalls`), and `Matching` runs each to its end. |
| `PerformanceAnalytics` | `PerformanceAnalytics`, `ReportGenerator` | the fields of the class and `seen`, the history of equities that the code does not keep; action `update`, the figures as operators |
| `PortfolioLemmas`, `PortfolioProofs`, `RiskDeskProofs`, `BinaryReaderProofs`, `CsvReaderProofs`, `ReplayProofs`, `BacktestProofs`, `PerformanceProofs` | – | theorems; those about `ExchangeSimulator` are the first half of `BacktestProofs`, those about `TickDecoder` and `CsvFeed` the end of `CsvReaderProofs` |
| `MC*` | – | instances for TLC |

Definitions marked *Mutant* are faulty variants of the definition that follows them, one or more
for each property: with the variant in its place TLC finds the property violated.

Abstractions. Prices, quantities and cash are integers without a width, except `num_trades`,
which wraps (`TradeCountModulus` is 2^32 in the code). `\div` and C++ division agree because
prices and quantities are not negative. Market data never reaches the order books (no code
feeds it to the engine), so every order in a book is the strategy's own. UltraLOB is modelled
from the compiled library's behaviour as the simulator uses it: price-time priority; a trade at
the resting order's price, reported first for the incoming and then for the resting order; the
rest of a Limit order joins the book, that of a Market or IOC order is cancelled, a FOK order
that cannot fill is rejected; unknown symbols are dropped; modify keeps an order's place only
if the price stays and the quantity does not grow. An event is its timestamp and type. A read
of a file does not fail half-way. The statistics are doubles in the code and exact fractions in
the model, which still has the infinities and NaNs of a division by zero; the Sharpe ratio is
compared by its square, and of the power in `annualized_return` the model only says whether it can be
finite, infinite or NaN (`PowKinds`).

`Backtest` follows `PythonBacktestRunner::run`, with a strategy that may do all that
`Strategy<Derived>` offers, with any timestamp on its orders or none. The bridge to Python hands out trades and ticks (`Callbacks`) but
none of the order calls: a strategy in Python is the case in which `StrategyCalls` never happens.

## What TLC checks

| Run | Instance and why it is enough | Shows |
|---|---|---|
| `portfolio` | 2 symbols, prices 1 and 4, quantities 1 and 2, 4 fills, unlimited marks; fees that are all different. Open, add with a rounded average, partial close, close, flip and reopen all occur, on both sides. | `EntryWithinFills`, `MarkedToMarket`, `PnlTracksCashFlow`, `CashReconciles`, `ValuesBounded`, `TotalPnlBeforeWrap` |
| `risk_desk` | 1 symbol, 3 orders resting at a time, sizes 1–3 against a size limit of 2, position limit 3, loss limit 4, 3 fills: orders that together exceed the limit, three full orders on one side that fill entirely and leave the position locked in, oversized orders, breaches of the loss limit and a tripped switch with orders resting. Limits are per symbol; the loss over several symbols is `total_pnl`'s, in `portfolio`. | `ExposureBounded`, `LockInTakesThree`, `LossTripsKillSwitch`, `KilledOnlyWindsDown` |
| `exchange` | 2 symbols (one not registered until `initialize`, one never), 3 orders of every type, side, price and size, a pool of 2, times 1 and 2, cancels and modifies | `FlatBetweenTrades`, `FeesWithinModel` |
| `binary_reader` | chunks of 2, files of 0–5 events in two versions: shorter than, equal to and longer than whole chunks, and leftovers of one file visible in another. Deadlock is not checked: a crash stops the program. | `ImplementsEventSource` (refinement), `HasNextIsAccurate`, `NullReadAfterFullChunk` |
| `csv_feed` | all files of up to 4 bytes over newline, carriage return, and bytes that start a good or a bad line; a buffer that starts with 1 byte and has to grow; 2 opens. A header and two rows fit, every line is cut at every place by the end of the buffer, and lines fill the buffer, exceed it and end without a newline. The texts of up to three bytes stand for lines of 4 names (the empty one too), good ones and ones with one thing wrong in each column; the decoder has a mapper or none. Deadlock is not checked: a crash stops the program. | `ImplementsEventSource` (refinement), `HasNextIsAccurate`, `CallReturns`, `DecoderTypeOK` (ids without gaps), `SymbolsAreFaithful` |
| `replay` | all files of up to 4 events with 3 timestamps, sorted or not, all windows, 2 runs with or without a reset or a new file | `CountedOnce`, `WindowReplayed`, `LookAheadInStep`, `InFileOrder`, `RunReturns` |
| `performance` | all sequences of up to 6 equities out of -1, 0, 1, 2 and 4: starts in debt, with nothing and with cash; peaks of zero; falls to zero and below, and recoveries; durations below, at and above a year. Deadlock is not checked: updates may stop. | `DrawdownIsMaximal`, `SharpeMatchesReturns`, `SolventReportIsSane` |
| `backtest` | 2 runs of a runner over 4 files (empty, one chunk and more than one, not sorted; with types that have no callback and an `EndOfData` in the middle), 4 windows, 2 orders of every type and side at 2 prices, with cancels and modifies, latency 1. An order of the first run can be in the book in the second and trade there. | `EveryRunComplete`, `OrdersAnswerEvents`, `ImplementsReplay` (refinement), `RunEnds` |

Most runs also check the type invariant of their module. Symbols and order ids are symmetric where no
liveness is checked and the run says so with `SYMMETRY`.

Four runs show where the code and its own documentation part ways:

* `equity_double_counts`: `total_equity` adds `total_pnl` to a cash account that already holds
  the realized profit. After a closed trade with profit 3 the equity is 3 too high
  (`portfolio.hpp:55`).
* `latency_ignored`: the simulated latency changes an order's timestamp and nothing else
  (`config.hpp:73`).
* `symbol_limit`: symbol ids start at 1 and index arrays that start at 0, so that the last of the
  supported symbols is out of range (`types.hpp:167`). The run has a limit of 3 where the code
  has 256.
* `header_assumed`: `do_open` is to "Skip header if present" (`csv_reader.hpp:45`) and drops the
  first line unseen, also when it is a row.

Three more disagreements have no run of their own, because the passing properties leave them open on purpose:

* The fee model has a "rebate for passive fills" (`types.hpp:124`), while `on_execution` charges the taker's
  fee for every fill, the resting order's too ("assuming taker for now", `portfolio.cpp:13`).
  `FeesWithinModel` asks that the second order of a trade pay between a maker's and a taker's fee.
* `EndOfData` is a "sentinel: no more events" (`types.hpp:93`), while the loop counts it like any other
  event and delivers what is behind it. `EveryRunComplete` asks for the window up to the sentinel and
  leaves what is behind it open.
* An order without a timestamp is to be stamped "with current simulated time"
  (`exchange_simulator.cpp:18`), while the replay loop's call of `advance_to` is commented out, so that
  the stamp is the latency alone. A stamp decides neither what matches nor what is booked, so that no
  property is about it but `FillWaitsForLatency`.

Some limits of the code are part of what the passing runs state. `TotalPnlBeforeWrap` holds until
`num_trades`, a `uint32_t`, wraps to zero on a flat symbol, whose profit `total_pnl` then skips.
`LossTripsKillSwitch` leaves out oversized orders, which are turned away before the loss is looked
at. And the position check ignores resting orders, as a comment in `risk_engine.cpp` concedes:
`ExposureBounded` says how much that costs: one full order for each order that rested on the same
side when another was approved. From the third such order on, a position can get so far out that
no order that reduces it passes the check. `LockInTakesThree` says that it takes no fewer, for any
position and with orders of any size up to `max_order_size` at hand.

The reader's contract for CSV files, `Rows`, starts behind the first line: the runs that pass say that
the rows behind it come out faithfully, and `header_assumed` that the first should not always be dropped.

After a failed reopen a `BinaryReader` hands out the rest of the chunk it has and may then call `fread`
on a null file. `EventSource` leaves such reads undefined; `NullReadAfterFullChunk` says when they
crash: behind a full chunk and nowhere else.

`ValuesBounded` says how large the figures of a position can get. What it cost and what it has realized
together are covered by the turnover. The mark to market that ends `on_execution` is not, since it
values the whole position at the last price (100 bought at 1 and one more at 1000 are marked at
a profit of 99990, with a turnover of 1100); it is covered by the shares traded at the highest price of
any fill or mark.

`SolventReportIsSane` is about accounts that were never in debt. An account whose equity falls below
zero is reported with a drawdown of more than 100% and can have an annualized return of NaN, one
that starts at zero and then falls with an infinite drawdown; and one that starts in debt has
no statistics until its equity is no longer negative (`Measured`). The annualized return
of a gain over less than a year may overflow `std::pow` to an infinity, which the property allows: a
gain of 10% in an hour is 1.1 to the power of 8766.

### Fairness

Four specifications assume weak fairness. In `ReplayEngine` it covers the steps of `run`, a loop in
the only thread. In `CsvReader`, and in `CsvFeed` with the decoding, it covers the turns of the loop in `read_line`,
which runs inside a call.
In `Backtest` it covers the loop, the matching and the return of a callback: all of them run in the
thread that called `run`, and a callback is taken to return after finitely many calls. No fairness
is assumed of the caller, of the orders a strategy sends or of the market.

## What is proved

For every set of symbols, every fee, price, quantity, limit, file, window, chunk and buffer size, under the
named assumptions on the constants (`SymbolsAssumption`, `FeeAssumption`, `CountAssumption`,
`InputAssumption`, `ExchangeAssumption`, `SourceAssumption`, `ReaderAssumption`,
`ReplayAssumption`, `BacktestAssumption`, `LimitsAssumption`, `DeskAssumption`, `CsvAssumption`,
`FeedAssumption`, `PerformanceAssumption`), which say only that quantities and prices are positive integers, fees, limits
and equities integers, durations not negative, files sequences of events or bytes, symbols and orders finitely many, that chunks and
buffers are not empty, and that every line of a file has cells, which decode if its first byte says so:

| Theorem | Statement |
|---|---|
| `TypeCorrect`, `EntryPriceBounded`, `MarkNeverStale`, `PnlTracksCash`, `ValuesAreBounded`, `CashAlwaysReconciles`, `TotalPnlIsComplete` (`PortfolioProofs`) | `TypeOK`, `EntryWithinFills`, `MarkedToMarket`, `PnlTracksCashFlow`, `ValuesBounded`, `CashReconciles` and `TotalPnlBeforeWrap` are invariants of `PortfolioLedger` |
| `DeskTypeCorrect`, `ExposureIsBounded`, `LossStopsTrading`, `LockInNeedsThree`, `KillSwitchWindsDown` (`RiskDeskProofs`) | `TypeOK`, `ExposureBounded`, `LossTripsKillSwitch` and `LockInTakesThree` are invariants of `RiskDesk`, and `KilledOnlyWindsDown` holds of its steps |
| `ExchangeTypeCorrect`, `TradesAreEven`, `FeesFollowModel` (`BacktestProofs`) | `TypeOK`, `FlatBetweenTrades` and `FeesWithinModel` are invariants of `ExchangeSimulator` |
| `ReaderTypeCorrect`, `HasNextCorrect`, `NullReadNeedsFullChunk`, `ReaderRefinesSource` (`BinaryReaderProofs`) | `TypeOK`, `HasNextIsAccurate` and `NullReadAfterFullChunk` are invariants, and `BinaryReader` implements `EventSource` |
| `CsvTypeCorrect`, `CsvHasNextCorrect`, `CsvRefinesSource` (`CsvReaderProofs`) | `TypeOK` and `HasNextIsAccurate` are invariants, and `CsvReader` implements `EventSource` |
| `DecoderTypeCorrect`, `SymbolsFaithful` (`CsvReaderProofs`) | `DecoderTypeOK` and `SymbolsAreFaithful` are invariants of `TickDecoder` |
| `FeedIsFaithful` (`CsvReaderProofs`) | `CsvFeed` implements `EventSource`, and `HasNextIsAccurate` and `SymbolsAreFaithful` are its invariants |
| `ReplayTypeCorrect`, `DispatchedOnce`, `LookAheadNeverSlips`, `RunReplaysWindow`, `DispatchInOrder` (`ReplayProofs`) | `TypeOK`, `CountedOnce`, `LookAheadInStep`, `WindowReplayed` are invariants of `ReplayEngine` and `InFileOrder` holds of its steps |
| `BacktestRefinesReplay`, `RunsAreComplete`, `OrdersInAnswer` (`BacktestProofs`) | `EveryRunComplete` and `OrdersAnswerEvents` are invariants of `Backtest`, which implements `ReplayEngine` |
| `PerformanceTypeCorrect`, `DrawdownCorrect`, `SharpeCorrect`, `ReportIsSane` (`PerformanceProofs`) | `TypeOK`, `DrawdownIsMaximal`, `SharpeMatchesReturns` and `SolventReportIsSane` are invariants of `PerformanceAnalytics` |

The arguments:

* **Portfolio.** `PortfolioInv` keeps, for each position, the relation between *realized* profit,
  cost of the open position and ledger (`Sound`) apart from the freshness of the mark
  (`FreshMark`). `PnlTracksCashFlow` alone is not inductive: it speaks of the sum of realized and
  unrealized profit, and a mark at another price moves the unrealized part. Adding to a position
  rests on two lemmas about truncating division, `AddedEntryBounds` and `AddedEntryRemainder`:
  the average stays between the old average and the new price, and loses less than one unit per
  share. Closes and flips are exact. That costs are covered by the turnover is inductive as it
  stands, because a truncated average makes a position no dearer (`ProfitCovered`, `CloseCovered`).
  The bound on the mark is not: a mark at a new price changes the unrealized part alone. `PeakInv`
  says instead that what was made or lost is within the shares traded that are no longer held, at the
  highest price, which leaves room for what the shares still held can gain or lose.
  The two properties about totals need a second invariant, `TotalsInv`: a symbol has no more trades
  than there were fills (`CountsSound`), so that below the modulus its counter is exact, and one
  without trades is flat and has made nothing. A fill then changes each total by what it changes at
  its symbol (`TotalsChange`) and the fees by one `compute` (`FeesAddUp`); and what `total_pnl` skips
  is zero.
* **Sums.** `SumFunctionOnSet` takes elements out of a finite set one by one. `PortfolioLemmas`
  says what the proofs need of it: a change at one element changes the sum by the difference
  (`SumChanges`), summands with a bound have a sum with a bound (`SumAtMost`), zeros may be left out
  (`SumSkipsZeros`). They rest on induction over the size of the set, stated for sets of naturals and
  of subsets (`CountingUp`, `SubsetInduction`) and got from the well-foundedness of `<`.
* **RiskDesk.** `ExposureBounded` is inductive only with `OrdersWithinLimit`: what rests of an order is
  never more than the largest order. The check knows the position and the new order; the orders
  that rest beside it (`RestingAlongside`) carry it at most one full order each further. Fills move
  quantity from what rests to the position, so that the two together stay. `LockInTakesThree` follows
  without a further invariant: with at most one order beside another a position is at most one full
  order past the limit, and an order of that size, or of the whole position if that is less, brings
  it back.
* **ExchangeSimulator.** The properties say nothing of the states between the two reports of a
  trade, which every trade goes through. `ExchangeInv` fills the gap with `Half`: the open
  position is exactly what the pending report closes, at the same price, and one of the two fees
  has been paid, each a taker's; that a taker's fee is no less than a maker's gives `FeesWithinModel`.
* **BinaryReader.** `ReaderInv`: the buffer lies inside the file, the look-ahead is the last event
  taken from it, and the reader is out of events only at the end of the file. The refinement
  maps `idx` to the events taken from buffers less the one ahead; the step proofs show that
  `advance`, through the buffer or a refill, moves it by exactly one.
* **CsvReader.** The invariant `CsvInv` compares a buffer with a definition of rows that has none. The
  buffer is a window of the file that ends where reading stopped (`BufferIsWindow`); `Cursor`, where
  the next line is looked for, stands at the start of a line (`CursorAtLine`); and the rows that end
  behind it are those handed out and the one read ahead (`RowsInOrder`). A refill moves the window
  and not the cursor (`RefillKeeps`), and reads nothing only at the end of the file because the
  buffer is never full (`FreadFits`). What is cut is the line of the file (`CutIsLine`, `RestIsLine`),
  and passing it counts one row or none (`LinePassed`); row `k` is the one with `k - 1` before it
  (`RowAt`). The turns of `read_line` are stutters of the event source.
* **TickDecoder.** `SymbolsAreFaithful` compares events of different calls; `DecoderInv` ties each to
  the map (`EventsMatchMap`), in which no two names share an id (`IdsDiffer`) because all ids are
  below `next_id`, and none below it is missing (`NoGaps`). In `CsvFeed` every step is one of the reader,
  and one of the decoder or none (`FeedStep`), because what is cut is a line of the file (`CutIsText`);
  the invariants of both carry over.
* **ReplayEngine.** `ReplayInv` adds where reader and loop stand relative to each other
  (`InStep`) and what has been passed over (`PassedOver`): it has been dispatched exactly if it is
  in the window. That sorted files lose nothing by the early stop then follows from the order of
  timestamps.
* **Backtest.** The parts' own invariants do the work: to the simulator a step of the backtest is a
  call, a step of matching or nothing (`StepsOfExchange`), to the reader an open, a read or nothing
  (`StepsOfReader`). `BacktestInv` adds what each place in `run` knows of them (`Placed`): the file
  was opened, nothing was read of it before the first read, the simulator is idle outside callbacks,
  and a callback is only entered for an event of the window. That makes every read a read of the event
  source (`ReadIsRead`) and every step one of `ReplayEngine` or none; the engine's invariant then
  carries over to every run. With it, `OrdersInv` follows orders from run to run: those of earlier
  runs only matter for their order, those of this run answer what it has delivered or works on.
* **Fractions.** `gcd` is a recursive function; that it unfolds at every pair (`GcdUnfolds`) is shown by
  building it up to each bound on its second argument. By induction it divides both arguments and is a
  combination of them (`GcdCommon`). A quotient is therefore in lowest terms in the sense of Bézout
  (`Lowest`: some `u * num + v * den` is 1) and keeps its value (`RatioLowest`), and two fractions in
  lowest terms with the same value are the same record (`LowestUnique`). So equations between
  fractions reduce to equations between integers over a common denominator (`PlusIs`, `TimesIs`,
  `OverIs`, `SameValue`).
* **PerformanceAnalytics.** `DrawdownIsMaximal` is inductive once the equities that the code keeps are
  tied to the history it does not keep: before the start nothing was measured (`NotStarted`), afterwards
  `peak_equity` is the peak of the measured part (`InHistory`). A new percentage replaces the old one
  only if it is larger, and is then no less than all that the old one was compared with
  (`LessChain`, infinite fractions included). For the Sharpe ratio it is not enough to know the squared
  deviations from the mean, because each return moves the mean: `ReturnsKept` gives the squares from
  *every* `c` as `m2 + count * (mean - c)^2`, which a step of Welford's method keeps (`WelfordStep`), and
  the property is the case where `c` is the mean. The report needs that the percentage is never NaN
  (`NeverNaN`), that a fall from the peak is no smaller than one from the initial equity
  (`ReturnAboveFall`), and that a quotient above one has the larger dividend (`RatioAboveOne`), for the
  overflow of the annualized return.

Left to TLC is liveness (`CallReturns`, `RunReturns`, `RunEnds`), which the provers do not reach. Every
other property that a passing run checks is stated by a theorem.

## Not modelled, and the plan

Not modelled: the wording of reports and errors, the rounding of floating point, object lifetimes
across the Python boundary (the portfolio and the simulator keep references to the constructor's
argument), errors of `fread` in the middle of a file, the layout of event payloads, and configuration
that no code reads (slippage, data format, replay speed, profiling, logging).

The modules of the plan are written and their safety properties proved. What could be added is a model of
`fread` failing in the middle of a file, which no code here reports, and rounding in the statistics,
which needs the arithmetic of doubles.
