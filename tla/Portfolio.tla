----------------------------- MODULE Portfolio -----------------------------
(***************************************************************************)
(* The Portfolio of UltraBacktest (portfolio.hpp, portfolio.cpp): the cash *)
(* account and one Position per symbol, changed by execution reports and   *)
(* by marks to market.                                                     *)
(*                                                                         *)
(* This module holds the state and the code's operations on it; it has no  *)
(* Init or Next of its own.  PortfolioLedger drives it with arbitrary      *)
(* reports, RiskDesk with orders that passed the risk check and            *)
(* ExchangeSimulator with the reports of the matching engine.              *)
(*                                                                         *)
(* Prices and cash are fixed-point int64 in the code and integers here.    *)
(***************************************************************************)
EXTENDS Integers, FiniteSets, FiniteSetsExt, Functions

CONSTANTS
    Symbols,            \* the symbols traded, indices into positions_
    InitialCash,        \* BacktestConfig::initial_cash
    PerShareFee,        \* FeeModel::per_share_fee
    PerTradeFee,        \* FeeModel::per_trade_fee
    MakerRebate,        \* FeeModel::maker_rebate
    TakerFee,           \* FeeModel::taker_fee
    TradeCountModulus   \* 2^32 in the code: num_trades is a uint32_t

ASSUME SymbolsAssumption == IsFiniteSet(Symbols)

ASSUME FeeAssumption ==
    /\ InitialCash \in Int
    /\ PerShareFee \in Int
    /\ PerTradeFee \in Int
    /\ MakerRebate \in Int
    /\ TakerFee \in Int

ASSUME CountAssumption == TradeCountModulus \in Nat \ {0}

VARIABLES
    cash,       \* Portfolio::cash_
    positions   \* Portfolio::positions_, a Position for every symbol

portfolioVars == <<cash, positions>>

Side == {"Buy", "Sell"}

(* Position *)
Position == [net_qty         : Int,     \* positive is long, negative short
             avg_entry_price : Int,
             realized_pnl    : Int,
             unrealized_pnl  : Int,
             total_traded    : Nat,
             num_trades      : Nat,
             last_price      : Int]

EmptyPosition == [net_qty         |-> 0,
                  avg_entry_price |-> 0,
                  realized_pnl    |-> 0,
                  unrealized_pnl  |-> 0,
                  total_traded    |-> 0,
                  num_trades      |-> 0,
                  last_price      |-> 0]

(* Portfolio::Portfolio *)
PortfolioInit ==
    /\ cash = InitialCash
    /\ positions = [s \in Symbols |-> EmptyPosition]

PortfolioTypeOK ==
    /\ cash \in Int
    /\ positions \in [Symbols -> Position]

-----------------------------------------------------------------------------
(* The reports of the matching engine; is_fill is UltraLOB's and is read    *)
(* from its compiled form.                                                  *)
Status == {"New", "PartiallyFilled", "Filled", "Cancelled", "Rejected"}

is_fill(rpt) == rpt.status \in {"PartiallyFilled", "Filled"}

(* FeeModel::compute *)
compute(fill_qty, is_maker) ==
    LET share_cost    == PerShareFee * fill_qty
        exchange_fee  == IF is_maker THEN -MakerRebate ELSE TakerFee
        exchange_cost == exchange_fee * fill_qty
    IN  share_cost + exchange_cost + PerTradeFee

Abs(n) == IF n < 0 THEN -n ELSE n

Smaller(m, n) == IF m <= n THEN m ELSE n

Larger(m, n) == IF m >= n THEN m ELSE n

-----------------------------------------------------------------------------
(* The average entry price after more is added, at price, to a position of  *)
(* held shares on the same side.  C++ division truncates and \div rounds    *)
(* down: they agree here because prices and quantities are not negative.    *)
AddedEntry(entry, held, price, qty) ==
    (entry * held + price * qty) \div (held + qty)

(* Mutant of Bought: a position that was closed keeps its entry price. *)
BoughtKeepingEntry(pos, price, qty) ==
    LET net == pos.net_qty + qty
    IN  IF pos.net_qty >= 0
        THEN [pos EXCEPT
                !.net_qty = net,
                !.avg_entry_price = AddedEntry(@, pos.net_qty, price, qty)]
        ELSE [pos EXCEPT
                !.net_qty = net,
                !.realized_pnl = @ + (pos.avg_entry_price - price)
                                        * Smaller(qty, -pos.net_qty),
                !.avg_entry_price = IF net > 0 THEN price ELSE @]

(* The Buy branch: add to a long or flat position, or close a short one and *)
(* perhaps flip to long.                                                    *)
Bought(pos, price, qty) ==
    LET net         == pos.net_qty + qty
        closing_qty == Smaller(qty, -pos.net_qty)
    IN  IF pos.net_qty >= 0
        THEN [pos EXCEPT
                !.net_qty = net,
                !.avg_entry_price = AddedEntry(@, pos.net_qty, price, qty)]
        ELSE [pos EXCEPT
                !.net_qty = net,
                !.realized_pnl = @ + (pos.avg_entry_price - price) * closing_qty,
                !.avg_entry_price = IF net > 0 THEN price
                                    ELSE IF net = 0 THEN 0 ELSE @]

(* Mutant of Sold: a fill that flips the position realizes a profit on the *)
(* whole fill.                                                             *)
SoldRealizingAll(pos, price, qty) ==
    LET net == pos.net_qty - qty
    IN  IF pos.net_qty <= 0
        THEN [pos EXCEPT
                !.net_qty = net,
                !.avg_entry_price = AddedEntry(@, -pos.net_qty, price, qty)]
        ELSE [pos EXCEPT
                !.net_qty = net,
                !.realized_pnl = @ + (price - pos.avg_entry_price) * qty,
                !.avg_entry_price = IF net < 0 THEN price
                                    ELSE IF net = 0 THEN 0 ELSE @]

(* The Sell branch, the mirror image. *)
Sold(pos, price, qty) ==
    LET net         == pos.net_qty - qty
        closing_qty == Smaller(qty, pos.net_qty)
    IN  IF pos.net_qty <= 0
        THEN [pos EXCEPT
                !.net_qty = net,
                !.avg_entry_price = AddedEntry(@, -pos.net_qty, price, qty)]
        ELSE [pos EXCEPT
                !.net_qty = net,
                !.realized_pnl = @ + (price - pos.avg_entry_price) * closing_qty,
                !.avg_entry_price = IF net < 0 THEN price
                                    ELSE IF net = 0 THEN 0 ELSE @]

(* Mutant of Counted: sells count the traded quantity down. *)
CountedDown(pos, qty) ==
    [pos EXCEPT !.total_traded = IF pos.net_qty < 0 THEN @ - qty ELSE @ + qty,
                !.num_trades = (@ + 1) % TradeCountModulus]

(* The tail of on_execution; num_trades is a uint32_t. *)
Counted(pos, qty) ==
    [pos EXCEPT !.total_traded = @ + qty,
                !.num_trades = (@ + 1) % TradeCountModulus]

(* What update_m2m does to one position. *)
Marked(pos, price) ==
    [pos EXCEPT
        !.last_price = price,
        !.unrealized_pnl =
            IF pos.net_qty > 0 THEN (price - pos.avg_entry_price) * pos.net_qty
            ELSE IF pos.net_qty < 0
                 THEN (pos.avg_entry_price - price) * (-pos.net_qty)
                 ELSE 0]

(* Mutant of Filled: the trailing update_m2m is missing. *)
FilledUnmarked(pos, side, price, qty) ==
    LET traded == IF side = "Buy" THEN Bought(pos, price, qty)
                                  ELSE Sold(pos, price, qty)
    IN  [Counted(traded, qty) EXCEPT !.last_price = price]

(* What a fill does to the position it is for. *)
Filled(pos, side, price, qty) ==
    LET traded == IF side = "Buy" THEN Bought(pos, price, qty)
                                  ELSE Sold(pos, price, qty)
    IN  Marked(Counted(traded, qty), price)

(* Mutant of CashFrom: the fee is a maker's. *)
CashFromMaker(pos, filled, qty) ==
    filled.realized_pnl - pos.realized_pnl - compute(qty, TRUE)

(* What a fill adds to the cash account: the realized profit less the fee,  *)
(* charged as a taker's whichever side of the trade the order was on.       *)
CashFrom(pos, filled, qty) ==
    filled.realized_pnl - pos.realized_pnl - compute(qty, FALSE)

(* Portfolio::on_execution *)
on_execution(rpt) ==
    \/ /\ ~ is_fill(rpt)
       /\ UNCHANGED portfolioVars
    \/ /\ is_fill(rpt)
       /\ LET pos    == positions[rpt.symbol]
              filled == Filled(pos, rpt.side, rpt.exec_price, rpt.exec_qty)
          IN  /\ positions' = [positions EXCEPT ![rpt.symbol] = filled]
              /\ cash' = cash + CashFrom(pos, filled, rpt.exec_qty)

(* Portfolio::update_m2m *)
update_m2m(sym, last_price) ==
    /\ positions' = [positions EXCEPT ![sym] = Marked(@, last_price)]
    /\ UNCHANGED cash

(* Mutant of Counts: closed positions are left out. *)
CountsOpen(pos) == pos.net_qty # 0

(* Portfolio::total_pnl: the sum runs only over symbols that look traded. *)
Counts(pos) == pos.num_trades > 0 \/ pos.net_qty # 0

Pnl(pos) == pos.realized_pnl + pos.unrealized_pnl

total_pnl ==
    SumFunctionOnSet([s \in Symbols |-> Pnl(positions[s])],
                     {s \in Symbols : Counts(positions[s])})

(* Portfolio::total_equity *)
total_equity == cash + total_pnl
=============================================================================
