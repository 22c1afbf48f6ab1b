-------------------------- MODULE PortfolioLedger --------------------------
(***************************************************************************)
(* The Portfolio driven by any sequence of execution reports and marks to  *)
(* market, beside a ledger that an auditor would keep: for every symbol    *)
(* the money that changed hands and the prices that built the position.    *)
(* The code keeps none of it; the properties compare the code's figures    *)
(* with it.                                                                *)
(***************************************************************************)
EXTENDS Portfolio

CONSTANTS
    Prices,       \* execution and mark prices
    Quantities,   \* execution quantities
    MaxFills      \* bound: fills in a behaviour

ASSUME InputAssumption ==
    /\ Prices \subseteq Nat \ {0}
    /\ Quantities \subseteq Nat \ {0}
    /\ MaxFills \in Nat

VARIABLES
    ledger,   \* per symbol, the auditor's record
    peak,     \* per symbol, the highest price it was filled or marked at
    fills     \* number of fills so far

vars == <<cash, positions, ledger, peak, fills>>

Report == [symbol : Symbols, side : Side, status : Status,
           exec_price : Prices, exec_qty : Quantities]

(* flow: money received less money paid for shares.                        *)
(* over, under: how far rounding may have raised, or lowered, the profit.  *)
(* lo, hi: the prices between which the open position was entered.         *)
(* turnover: the value of everything traded.                               *)
Entry == [flow : Int, over : Nat, under : Nat, lo : Nat, hi : Nat, turnover : Nat]

Init ==
    /\ PortfolioInit
    /\ ledger = [s \in Symbols |-> [flow |-> 0, over |-> 0, under |-> 0,
                                    lo |-> 0, hi |-> 0, turnover |-> 0]]
    /\ peak = [s \in Symbols |-> 0]
    /\ fills = 0

Signed(side, qty) == IF side = "Buy" THEN qty ELSE -qty

(* The record after a fill, from the net position before it.  A position   *)
(* is entered by a fill that opens it or flips it, added to by a fill on   *)
(* its own side and reduced otherwise.  Adding rounds the average entry    *)
(* price down by less than 1, which is worth less than the new size.       *)
Audited(entry, net, side, price, qty) ==
    LET after  == net + Signed(side, qty)
        enters == net = 0 \/ (net < 0 /\ after > 0) \/ (net > 0 /\ after < 0)
        adds   == (net > 0 /\ side = "Buy") \/ (net < 0 /\ side = "Sell")
    IN  [flow  |-> entry.flow - price * Signed(side, qty),
         over  |-> entry.over + IF adds /\ net > 0 THEN after - 1 ELSE 0,
         under |-> entry.under + IF adds /\ net < 0 THEN (-after) - 1 ELSE 0,
         lo    |-> IF enters THEN price
                   ELSE IF adds THEN Smaller(entry.lo, price) ELSE entry.lo,
         hi    |-> IF enters THEN price
                   ELSE IF adds THEN Larger(entry.hi, price) ELSE entry.hi,
         turnover |-> entry.turnover + price * qty]

(* A report reaches the portfolio. *)
Execution(rpt) ==
    /\ is_fill(rpt) => fills < MaxFills
    /\ on_execution(rpt)
    /\ IF is_fill(rpt)
       THEN /\ fills' = fills + 1
            /\ ledger' = [ledger EXCEPT ![rpt.symbol] =
                            Audited(@, positions[rpt.symbol].net_qty,
                                    rpt.side, rpt.exec_price, rpt.exec_qty)]
            /\ peak' = [peak EXCEPT ![rpt.symbol] = Larger(@, rpt.exec_price)]
       ELSE UNCHANGED <<ledger, peak, fills>>

(* A tick or a trade marks a symbol to market. *)
Mark(sym, last_price) ==
    /\ update_m2m(sym, last_price)
    /\ peak' = [peak EXCEPT ![sym] = Larger(@, last_price)]
    /\ UNCHANGED <<ledger, fills>>

Next ==
    \/ \E rpt \in Report : Execution(rpt)
    \/ \E sym \in Symbols, last_price \in Prices : Mark(sym, last_price)

Spec == Init /\ [][Next]_vars

-----------------------------------------------------------------------------
(* Every variable has its type: positions_ always holds a whole Position   *)
(* for every symbol.                                                       *)
TypeOK ==
    /\ PortfolioTypeOK
    /\ ledger \in [Symbols -> Entry]
    /\ peak \in [Symbols -> Nat]
    /\ fills \in 0 .. MaxFills

(* An average entry price never leaves the range of the prices at which    *)
(* the open position was entered, however many truncated averages, partial *)
(* closes and flips through zero on_execution chains; a flat position has  *)
(* no entry price left over.                                               *)
EntryWithinFills ==
    \A s \in Symbols :
        LET pos == positions[s]
        IN  IF pos.net_qty = 0
            THEN pos.avg_entry_price = 0
            ELSE ledger[s].lo <= pos.avg_entry_price /\ pos.avg_entry_price <= ledger[s].hi

(* The unrealized profit is always the one of the current position at the  *)
(* last price, after fills, closes, flips and marks in any order: no path  *)
(* of on_execution leaves a stale mark.                                    *)
MarkedToMarket ==
    \A s \in Symbols :
        positions[s].unrealized_pnl =
            (positions[s].last_price - positions[s].avg_entry_price) * positions[s].net_qty

(* Realized plus unrealized profit is the money that changed hands plus    *)
(* the value of the position at the last price, up to the rounding of the  *)
(* average entry price: a long position may only be overstated and a short *)
(* one only understated, by less than its size for each fill added to it.  *)
PnlTracksCashFlow ==
    \A s \in Symbols :
        LET pos   == positions[s]
            error == Pnl(pos) - (ledger[s].flow + pos.net_qty * pos.last_price)
        IN  -ledger[s].under <= error /\ error <= ledger[s].over

(* What a position cost and what it has made or lost when closed together  *)
(* never exceed the value that was traded in the symbol, whatever was      *)
(* averaged, closed or flipped.  The mark that on_execution and update_m2m *)
(* end in may exceed it: it values the position at a price at which little *)
(* or none of it was traded.  Realized and marked profit together stay     *)
(* within the shares traded, valued at the highest price of any fill or    *)
(* mark: while that product fits an int64_t, neither of them overflows.    *)
ValuesBounded ==
    \A s \in Symbols :
        LET pos == positions[s]
        IN  /\ Abs(pos.realized_pnl) + pos.avg_entry_price * Abs(pos.net_qty)
                   <= ledger[s].turnover
            /\ Abs(pos.realized_pnl) + Abs(pos.unrealized_pnl)
                   <= pos.total_traded * peak[s]

Total(f(_)) == SumFunctionOnSet([s \in Symbols |-> f(positions[s])], Symbols)

(* No num_trades counter has come round to zero. *)
NoCountWrapped == fills < TradeCountModulus

(* The cash account is the initial cash plus every symbol's realized       *)
(* profit less the fees on everything traded: a partial close, a flip or a *)
(* fill of another symbol never books profit or fee twice or not at all.   *)
CashReconciles ==
    NoCountWrapped =>
        cash = InitialCash + Total(LAMBDA p : p.realized_pnl)
               - (PerShareFee + TakerFee) * Total(LAMBDA p : p.total_traded)
               - PerTradeFee * Total(LAMBDA p : p.num_trades)

(* While no trade counter has wrapped round to zero, the total PnL is the  *)
(* sum over all symbols, as its comment says: the test that skips symbols  *)
(* without trades skips no profit or loss.                                 *)
TotalPnlBeforeWrap == NoCountWrapped => total_pnl = Total(Pnl)

(* With every position flat the mark-to-market value of the positions is   *)
(* zero, so that total_equity, "Cash + M2M value of positions", is cash.   *)
FlatEquityIsCash ==
    (\A s \in Symbols : positions[s].net_qty = 0) => total_equity = cash
=============================================================================
