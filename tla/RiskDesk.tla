----------------------------- MODULE RiskDesk ------------------------------
(***************************************************************************)
(* A trading desk that routes orders as risk_engine.hpp describes: every   *)
(* order goes through check_pre_trade before it is sent, and only an       *)
(* approved one rests in the market, where it fills in parts, at any price *)
(* and in any order relative to other orders, until it is done or it is    *)
(* cancelled.  Between the check and the fills the portfolio moves on.     *)
(*                                                                         *)
(* The market is external: it fills what rests and reports to the          *)
(* Portfolio.  Strategy::send_order does not call the RiskEngine itself;   *)
(* the desk is a caller that does.                                         *)
(***************************************************************************)
EXTENDS RiskEngine

CONSTANTS
    Prices,       \* fill prices
    Quantities,   \* order quantities
    OrderIds,     \* bound: orders resting at a time
    MaxFills      \* bound: fills in a behaviour

ASSUME DeskAssumption ==
    /\ Prices \subseteq Nat \ {0}
    /\ Quantities \subseteq Nat \ {0}
    /\ IsFiniteSet(OrderIds) /\ OrderIds # {}
    /\ MaxFills \in Nat

VARIABLES
    orders,    \* the approved orders that rest in the market
    checked,   \* the last check: its verdict, and was the loss limit breached?
    fills,     \* number of fills so far
    together   \* the most orders that rested on the same side of the same
               \* symbol when another was approved there

vars == <<cash, positions, killed, orders, checked, fills, together>>

OrderRequest == [symbol : Symbols, side : Side, qty : Quantities]

(* No order rests under this id. *)
NoOrder == [symbol |-> "none", side |-> "none", leaves |-> 0]

Order == [symbol : Symbols, side : Side, leaves : Nat \ {0}]

Init ==
    /\ PortfolioInit
    /\ RiskInit
    /\ orders = [id \in OrderIds |-> NoOrder]
    /\ checked = [reason |-> "None", breached |-> FALSE]
    /\ fills = 0
    /\ together = 0

(* The orders that rest where an order would join them. *)
Alongside(req) ==
    {id \in OrderIds : orders[id].symbol = req.symbol /\ orders[id].side = req.side}

(* An order is checked and, when approved, sent to the market. *)
Route(req, id, reason) ==
    /\ orders[id] = NoOrder
    /\ check_pre_trade(req, reason)
    /\ checked' = [reason |-> reason, breached |-> LossBreached]
    /\ orders' = IF reason = "None"
                 THEN [orders EXCEPT ![id] = [symbol |-> req.symbol,
                                              side   |-> req.side,
                                              leaves |-> req.qty]]
                 ELSE orders
    /\ together' = IF reason = "None" /\ Cardinality(Alongside(req)) > together
                   THEN Cardinality(Alongside(req))
                   ELSE together
    /\ UNCHANGED <<cash, positions, fills>>

(* The market fills a part of a resting order and reports it. *)
MarketFill(id, price, qty) ==
    LET o == orders[id]
    IN  /\ o # NoOrder /\ qty <= o.leaves
        /\ fills < MaxFills
        /\ on_execution([symbol |-> o.symbol, side |-> o.side,
                         status |-> IF qty = o.leaves THEN "Filled" ELSE "PartiallyFilled",
                         exec_price |-> price, exec_qty |-> qty])
        /\ orders' = [orders EXCEPT ![id] =
                        IF qty = o.leaves THEN NoOrder ELSE [o EXCEPT !.leaves = @ - qty]]
        /\ fills' = fills + 1
        /\ UNCHANGED <<killed, checked, together>>

(* A resting order is cancelled; the report of it changes no position. *)
Cancel(id) ==
    /\ orders[id] # NoOrder
    /\ on_execution([symbol |-> orders[id].symbol, side |-> orders[id].side,
                     status |-> "Cancelled", exec_price |-> 0, exec_qty |-> 0])
    /\ orders' = [orders EXCEPT ![id] = NoOrder]
    /\ UNCHANGED <<killed, checked, fills, together>>

(* A tick marks a symbol to market and may push the loss past the limit. *)
MarkToMarket(sym, price) ==
    /\ update_m2m(sym, price)
    /\ UNCHANGED <<killed, orders, checked, fills, together>>

(* The operator trips the kill switch by hand. *)
Kill ==
    /\ trigger_kill_switch
    /\ UNCHANGED <<cash, positions, orders, checked, fills, together>>

Next ==
    \/ \E req \in OrderRequest, id \in OrderIds, reason \in RiskRejectReason :
            Route(req, id, reason)
    \/ \E id \in OrderIds, price \in Prices, qty \in Quantities : MarketFill(id, price, qty)
    \/ \E id \in OrderIds : Cancel(id)
    \/ \E sym \in Symbols, price \in Prices : MarkToMarket(sym, price)
    \/ Kill

Spec == Init /\ [][Next]_vars

-----------------------------------------------------------------------------
(* Every variable has its type. *)
TypeOK ==
    /\ PortfolioTypeOK
    /\ killed \in BOOLEAN
    /\ orders \in [OrderIds -> Order \cup {NoOrder}]
    /\ checked \in [reason : RiskRejectReason, breached : BOOLEAN]
    /\ fills \in 0 .. MaxFills
    /\ together \in Nat

(* The quantity that rests on one side of a symbol. *)
RestsOn(o, sym, side) == IF o.symbol = sym /\ o.side = side THEN o.leaves ELSE 0

Resting(sym, side) ==
    SumFunctionOnSet([id \in OrderIds |-> RestsOn(orders[id], sym, side)], OrderIds)

(* How far fills could still carry a position, up and down. *)
Highest(sym) == positions[sym].net_qty + Resting(sym, "Buy")
Lowest(sym) == positions[sym].net_qty - Resting(sym, "Sell")

Limited == MaxPositionPerSymbol > 0 /\ MaxOrderSize > 0 /\ HasPortfolio

(* The check looks at one order at a time, so that orders resting together *)
(* can carry a position past the limit, but never by more than one full    *)
(* order for each order that was still resting there when another was      *)
(* approved: to a desk that waits for every order to be done before it     *)
(* sends the next, max_position_per_symbol holds exactly.                  *)
ExposureBounded ==
    Limited =>
        LET bound == MaxPositionPerSymbol + together * MaxOrderSize
        IN  \A sym \in Symbols : Highest(sym) <= bound /\ Lowest(sym) >= -bound

(* Does the check let an order pass that brings a position nearer to zero? *)
CanReduce(sym) ==
    \E req \in OrderRequest :
        /\ req.symbol = sym
        /\ Abs(expected_pos(req)) < Abs(positions[sym].net_qty)
        /\ Reason(req) = "None"

(* A position that the limits lock in, because max_position_per_symbol     *)
(* refuses every order of up to max_order_size that would reduce it, has   *)
(* been carried there by three orders or more: the desk must have sent one *)
(* while two others rested on the same side of the symbol.  (Trading may   *)
(* also have stopped altogether, because of the loss or by hand.)          *)
LockInTakesThree ==
    (Limited /\ 1 .. MaxOrderSize \subseteq Quantities /\ ~ killed /\ ~ LossBreached) =>
        \A sym \in Symbols :
            positions[sym].net_qty # 0 /\ ~ CanReduce(sym) => together >= 2

(* Once the kill switch is tripped it stays tripped and the desk's         *)
(* exposure can only wind down: resting orders may still fill or be        *)
(* cancelled, but no step widens the range a position can reach.           *)
KilledOnlyWindsDown ==
    [][killed => /\ killed'
                 /\ \A sym \in Symbols : /\ Highest(sym)' <= Highest(sym)
                                         /\ Lowest(sym)' >= Lowest(sym)]_vars

(* The engine "monitors portfolio-level limits (max loss) to trigger kill  *)
(* switches": a check made while the loss is past the limit leaves the     *)
(* switch tripped, unless the order was too large to get that far.         *)
LossTripsKillSwitch ==
    checked.breached => killed \/ checked.reason = "MaxOrderSize"
=============================================================================
