------------------------- MODULE ExchangeSimulator -------------------------
(***************************************************************************)
(* The ExchangeSimulator (exchange_simulator.hpp, exchange_simulator.cpp)  *)
(* between a Strategy's orders and the Portfolio: initialize, advance_to,  *)
(* submit_order, cancel_order, modify_order and the execution callback.    *)
(*                                                                         *)
(* The UltraLOB matching engine it wraps is external.  It is modelled by   *)
(* price-time priority over one set of resting orders, and by its two      *)
(* reports per trade: first the incoming order's, then the resting one's,  *)
(* both at the resting order's price and both through the same callback.   *)
(* Market data never reaches the engine, so every order in the book is the *)
(* Strategy's own.                                                         *)
(*                                                                         *)
(* A call of submit_order runs the matching loop to its end before it      *)
(* returns.  Here the loop is one step per callback, and every other       *)
(* operation waits until the engine is idle again.                         *)
(***************************************************************************)
EXTENDS Portfolio

CONSTANTS
    ConfigSymbols,       \* BacktestConfig::symbols
    OrderPoolCapacity,   \* BacktestConfig::order_pool_capacity
    SimulatedLatency,    \* BacktestConfig::simulated_latency
    HasPortfolio,        \* is portfolio_ not the null pointer?
    OrderIds,            \* the ids a Strategy uses
    Prices,              \* limit prices
    Quantities,          \* order quantities
    Times,               \* simulated times
    MaxSubmits           \* bound: orders sent or resent in a behaviour

ASSUME ExchangeAssumption ==
    /\ ConfigSymbols \subseteq Symbols
    /\ OrderPoolCapacity \in Nat
    /\ SimulatedLatency \in Nat
    /\ HasPortfolio \in BOOLEAN
    /\ Prices \subseteq Nat \ {0}
    /\ Quantities \subseteq Nat \ {0}
    /\ Times \subseteq Nat \ {0}
    /\ MaxSubmits \in Nat

VARIABLES
    current_time,   \* ExchangeSimulator::current_time_
    registered,     \* symbols the engine knows
    resting,        \* the orders in the book
    incoming,       \* the order being matched, or NoOrder
    passive,        \* the report due to the resting side of a trade, or NoReport
    submits,        \* orders sent so far; numbers arrivals, for time priority
    trades,         \* trades so far
    volume,         \* shares traded so far
    early           \* has an order filled before its timestamp?

engineVars == <<registered, resting, incoming, passive, submits>>
historyVars == <<trades, volume, early>>
vars == <<cash, positions, current_time, engineVars, historyVars>>

OrderType == {"Limit", "Market", "IOC", "FOK"}

Order == [id : OrderIds, symbol : Symbols, side : Side, type : OrderType,
          price : Prices, leaves : Nat \ {0}, arrival : Nat,
          timestamp : Nat]

(* An order being matched may have nothing left. *)
Incoming == [id : OrderIds, symbol : Symbols, side : Side, type : OrderType,
             price : Prices, leaves : Nat, arrival : Nat, timestamp : Nat]

NoOrder == [leaves |-> 0]

OrderReport == [symbol : Symbols, side : Side, status : {"Filled", "PartiallyFilled"},
                exec_price : Prices, exec_qty : Nat \ {0}]

NoReport == [status |-> "New"]

Init ==
    /\ PortfolioInit
    /\ current_time = 0
    /\ registered = {}
    /\ resting = {}
    /\ incoming = NoOrder
    /\ passive = NoReport
    /\ submits = 0
    /\ trades = 0 /\ volume = 0 /\ early = FALSE

(* No call into the engine is under way. *)
Idle == incoming = NoOrder /\ passive = NoReport

-----------------------------------------------------------------------------
(* The matching engine.                                                     *)

Opposite(side) == IF side = "Buy" THEN "Sell" ELSE "Buy"

(* Does the order accept the price of o, which rests on the other side? *)
Crosses(order, o) ==
    /\ o.symbol = order.symbol
    /\ o.side = Opposite(order.side)
    /\ \/ order.type = "Market"
       \/ order.side = "Buy" /\ o.price <= order.price
       \/ order.side = "Sell" /\ o.price >= order.price

(* Price first, then time of arrival. *)
Before(o, p) ==
    \/ IF o.side = "Sell" THEN o.price < p.price ELSE o.price > p.price
    \/ o.price = p.price /\ o.arrival < p.arrival

(* The resting order that the order trades with next. *)
Matches(order, o) ==
    /\ o \in resting
    /\ Crosses(order, o)
    /\ \A p \in resting : Crosses(order, p) /\ p # o => Before(o, p)

Fillable(order) ==
    MapThenSumSet(LAMBDA o : o.leaves, {o \in resting : Crosses(order, o)})

(* The engine turns an order away with a report that is not a fill, or     *)
(* drops it silently when it does not know the symbol.                     *)
Refused(order) ==
    \/ order.leaves = 0
    \/ order.symbol \notin registered
    \/ \E o \in resting : o.id = order.id
    \/ Cardinality(resting) >= OrderPoolCapacity
    \/ order.type = "FOK" /\ Fillable(order) < order.leaves

StatusOf(left) == IF left = 0 THEN "Filled" ELSE "PartiallyFilled"

ReportOf(order, price, qty) ==
    [symbol |-> order.symbol, side |-> order.side,
     status |-> StatusOf(order.leaves - qty), exec_price |-> price, exec_qty |-> qty]

-----------------------------------------------------------------------------
(* Mutant of handle_execution: partial fills are not passed on. *)
handle_filled_only(rpt) ==
    IF HasPortfolio /\ rpt.status = "Filled" THEN on_execution(rpt)
    ELSE UNCHANGED portfolioVars

(* ExchangeSimulator::on_execution_cb and handle_execution: the portfolio  *)
(* is updated, if there is one; nobody else hears of the report.           *)
handle_execution(rpt) ==
    IF HasPortfolio THEN on_execution(rpt) ELSE UNCHANGED portfolioVars

(* ExchangeSimulator::initialize *)
initialize ==
    /\ Idle
    /\ registered' = registered \cup ConfigSymbols
    /\ UNCHANGED <<cash, positions, current_time, resting, incoming, passive,
                   submits, historyVars>>

(* ExchangeSimulator::advance_to *)
advance_to(timestamp) ==
    /\ Idle
    /\ current_time' = timestamp
    /\ UNCHANGED <<cash, positions, engineVars, historyVars>>

(* The timestamp of an order: the strategy's if it gave one, the simulated *)
(* time otherwise, plus the simulated latency.                             *)
Stamp(timestamp) ==
    (IF timestamp = 0 THEN current_time ELSE timestamp) + SimulatedLatency

(* ExchangeSimulator::submit_order, up to the engine's matching loop. *)
submit_order(id, sym, side, type, price, qty, timestamp) ==
    LET order == [id |-> id, symbol |-> sym, side |-> side, type |-> type,
                  price |-> price, leaves |-> qty, arrival |-> submits,
                  timestamp |-> Stamp(timestamp)]
    IN  /\ Idle
        /\ submits < MaxSubmits
        /\ submits' = submits + 1
        /\ incoming' = IF Refused(order) THEN NoOrder ELSE order
        /\ UNCHANGED <<cash, positions, current_time, registered, resting,
                       passive, historyVars>>

(* A trade: the incoming order's report is delivered first. *)
Trade ==
    /\ incoming # NoOrder
    /\ passive = NoReport
    /\ incoming.leaves > 0
    /\ \E o \in resting :
        LET qty  == Smaller(incoming.leaves, o.leaves)
            left == [o EXCEPT !.leaves = @ - qty]
        IN  /\ Matches(incoming, o)
            /\ handle_execution(ReportOf(incoming, o.price, qty))
            /\ passive' = ReportOf(o, o.price, qty)
            /\ incoming' = [incoming EXCEPT !.leaves = @ - qty]
            /\ resting' = (resting \ {o}) \cup (IF left.leaves = 0 THEN {} ELSE {left})
            /\ trades' = trades + 1
            /\ volume' = volume + qty
            /\ early' = (early \/ current_time < incoming.timestamp)
            /\ UNCHANGED <<current_time, registered, submits>>

(* The second report of the trade, for the resting order. *)
ReportPassive ==
    /\ passive # NoReport
    /\ handle_execution(passive)
    /\ passive' = NoReport
    /\ UNCHANGED <<current_time, registered, resting, incoming, submits, historyVars>>

(* Nothing is left to match: the rest of a Limit order joins the book, the *)
(* rest of any other is cancelled, and the call returns.                   *)
Finish ==
    /\ incoming # NoOrder
    /\ passive = NoReport
    /\ incoming.leaves > 0 => ~ \E o \in resting : Matches(incoming, o)
    /\ resting' = resting \cup (IF incoming.leaves > 0 /\ incoming.type = "Limit"
                                THEN {incoming} ELSE {})
    /\ incoming' = NoOrder
    /\ UNCHANGED <<cash, positions, current_time, registered, passive, submits,
                   historyVars>>

(* ExchangeSimulator::cancel_order; FALSE and no change when the order is  *)
(* not in the symbol's book.                                               *)
cancel_order(sym, id) ==
    /\ Idle
    /\ resting' = {o \in resting : ~ (o.symbol = sym /\ o.id = id)}
    /\ UNCHANGED <<cash, positions, current_time, registered, incoming, passive,
                   submits, historyVars>>

(* ExchangeSimulator::modify_order: a smaller quantity at the same price   *)
(* keeps the order's place; any other change takes it out of the book and  *)
(* matches it afresh.                                                      *)
modify_order(sym, id, price, qty) ==
    /\ Idle
    /\ submits < MaxSubmits
    /\ \E o \in resting :
        /\ o.symbol = sym /\ o.id = id
        /\ IF price = o.price /\ qty <= o.leaves
           THEN /\ resting' = (resting \ {o}) \cup {[o EXCEPT !.leaves = qty]}
                /\ UNCHANGED <<incoming, submits>>
           ELSE /\ resting' = resting \ {o}
                /\ incoming' = [o EXCEPT !.price = price, !.leaves = qty,
                                         !.arrival = submits]
                /\ submits' = submits + 1
    /\ UNCHANGED <<cash, positions, current_time, registered, passive, historyVars>>

Submit ==
    \E id \in OrderIds, sym \in Symbols, side \in Side, type \in OrderType,
       price \in Prices, qty \in Quantities \cup {0}, timestamp \in Times \cup {0} :
        submit_order(id, sym, side, type, price, qty, timestamp)

Cancel == \E sym \in Symbols, id \in OrderIds : cancel_order(sym, id)

Modify ==
    \E sym \in Symbols, id \in OrderIds, price \in Prices, qty \in Quantities :
        modify_order(sym, id, price, qty)

Advance == \E timestamp \in Times : advance_to(timestamp)

Next ==
    \/ initialize \/ Advance \/ Submit \/ Cancel \/ Modify
    \/ Trade \/ ReportPassive \/ Finish

Spec == Init /\ [][Next]_vars

-----------------------------------------------------------------------------
(* Every variable has its type. *)
TypeOK ==
    /\ PortfolioTypeOK
    /\ current_time \in Times \cup {0}
    /\ registered \subseteq ConfigSymbols
    /\ resting \subseteq Order
    /\ incoming \in Incoming \cup {NoOrder}
    /\ passive \in OrderReport \cup {NoReport}
    /\ submits \in 0 .. MaxSubmits
    /\ trades \in Nat /\ volume \in Nat /\ early \in BOOLEAN

Flat(pos) ==
    pos.net_qty = 0 /\ pos.avg_entry_price = 0 /\ Pnl(pos) = 0 /\ pos.realized_pnl = 0

(* The simulated book holds only the Strategy's own orders, so each trade  *)
(* is with itself: whatever it sends, cancels or modifies, its position is *)
(* flat and it has made neither profit nor loss once a trade's two reports *)
(* are in.  The position that the first report opens, the second closes at *)
(* the same price.                                                         *)
FlatBetweenTrades ==
    passive = NoReport => \A s \in Symbols : Flat(positions[s])

(* All that trading changes in the end is the cash account, by the fees.   *)
(* FeeModel has a "rebate for passive fills" and a "fee for aggressive     *)
(* fills": of every trade at least the incoming order pays the taker's fee *)
(* and the other no less than the maker's and no more than the taker's.    *)
(* (It pays the taker's: on_execution is not told which order rested, and  *)
(* its comment concedes that it is "assuming taker for now".)              *)
FeesWithinModel ==
    LET taker == (PerShareFee + TakerFee) * volume + PerTradeFee * trades
        maker == (PerShareFee - MakerRebate) * volume + PerTradeFee * trades
    IN  passive = NoReport /\ HasPortfolio /\ -MakerRebate <= TakerFee =>
            InitialCash - cash \in taker + maker .. 2 * taker

(* simulated_latency is an "artificial order-to-fill delay": no order      *)
(* fills before the time it is stamped with, latency included.             *)
FillWaitsForLatency == ~ early
=============================================================================
