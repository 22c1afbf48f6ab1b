--------------------------- MODULE BacktestProofs ---------------------------
(***************************************************************************)
(* Theorems about ExchangeSimulator and about Backtest, which is built on  *)
(* it.                                                                     *)
(*                                                                         *)
(* ExchangeSimulator: for every set of symbols, orders, prices and         *)
(* quantities, every fee and every sequence of calls, a Strategy that      *)
(* trades only with its own orders is flat between trades, has neither     *)
(* profit nor loss, and pays the fee of both sides.                        *)
(*                                                                         *)
(* Backtest: for all files, chunk sizes, windows, orders and numbers of    *)
(* runs.  The components' own theorems are used as they are: the           *)
(* BinaryReader's invariant, the ReplayEngine's through the refinement,    *)
(* and the ExchangeSimulator's.                                            *)
(***************************************************************************)
EXTENDS Backtest, PortfolioLemmas, TLAPS

-----------------------------------------------------------------------------
(* The exchange simulator.                                                 *)

(* A position that has never moved, or has come back even. *)
Even(pos) ==
    /\ pos.net_qty = 0
    /\ pos.avg_entry_price = 0
    /\ pos.realized_pnl = 0
    /\ pos.unrealized_pnl = 0

(* The position between the two reports of a trade: the first has opened   *)
(* what the second, rpt, will close.                                       *)
Half(pos, rpt) ==
    /\ pos.net_qty = IF rpt.side = "Buy" THEN -rpt.exec_qty ELSE rpt.exec_qty
    /\ pos.avg_entry_price = rpt.exec_price
    /\ pos.realized_pnl = 0
    /\ pos.unrealized_pnl = 0

(* The fee on a fill, taken as a taker's. *)
TakerCost(q) == (PerShareFee + TakerFee) * q + PerTradeFee

Fees == (PerShareFee + TakerFee) * volume + PerTradeFee * trades

(* The inductive invariant.  It says what the portfolio is between the two *)
(* reports of a trade, which FlatBetweenTrades and FeesWithinModel leave   *)
(* open, and that both orders of a trade pay the taker's fee.              *)
ExchangeInv ==
    /\ TypeOK
    /\ \A s \in Symbols :
        IF HasPortfolio /\ passive # NoReport /\ s = passive.symbol
        THEN Half(positions[s], passive)
        ELSE Even(positions[s])
    /\ HasPortfolio =>
        cash = InitialCash - 2 * Fees
               + IF passive = NoReport THEN 0 ELSE TakerCost(passive.exec_qty)

-----------------------------------------------------------------------------
(* What a fill adds to the cash account when it realizes nothing. *)
LEMMA CashOfEvenFill ==
    ASSUME NEW pos \in Position, NEW filled \in Position, NEW q \in Int,
           filled.realized_pnl = pos.realized_pnl
    PROVE  /\ TakerCost(q) \in Int
           /\ CashFrom(pos, filled, q) = -TakerCost(q)
  <1>1. PerShareFee * q + TakerFee * q = (PerShareFee + TakerFee) * q
    BY FeeAssumption
  <1>2. CashFrom(pos, filled, q)
            = filled.realized_pnl - pos.realized_pnl
              - (PerShareFee * q + TakerFee * q + PerTradeFee)
    BY DEF CashFrom, compute
  <1>3. TakerCost(q) = PerShareFee * q + TakerFee * q + PerTradeFee
    BY <1>1 DEF TakerCost
  <1>4. TakerCost(q) \in Int
    BY FeeAssumption DEF TakerCost
  <1>5. pos.realized_pnl \in Int
    BY DEF Position
  <1> QED
    BY <1>2, <1>3, <1>4, <1>5

(* One more trade of q shares adds one fee to Fees. *)
LEMMA FeesGrow ==
    ASSUME NEW q \in Int, volume \in Int, trades \in Int,
           volume' = volume + q, trades' = trades + 1
    PROVE  /\ Fees \in Int
           /\ Fees' = Fees + TakerCost(q)
  <1> DEFINE f == PerShareFee + TakerFee
  <1>1. f \in Int /\ PerTradeFee \in Int
    BY FeeAssumption
  <1>2. f' = f /\ PerTradeFee' = PerTradeFee
    OBVIOUS
  <1> HIDE DEF f
  <1>3. f * (volume + q) = f * volume + f * q
        /\ PerTradeFee * (trades + 1) = PerTradeFee * trades + PerTradeFee
    BY <1>1
  <1>4. TakerCost(q) = f * q + PerTradeFee
    BY DEF TakerCost, f
  <1>5. Fees = f * volume + PerTradeFee * trades
        /\ Fees' = f * (volume + q) + PerTradeFee * (trades + 1)
    BY <1>2 DEF Fees, f
  <1> DEFINE fv == f * volume
             fq == f * q
             pt == PerTradeFee * trades
  <1>6. fv \in Int /\ fq \in Int /\ pt \in Int
    BY <1>1
  <1>7. TakerCost(q) = fq + PerTradeFee /\ Fees = fv + pt
        /\ Fees' = (fv + fq) + (pt + PerTradeFee)
    BY <1>3, <1>4, <1>5
  <1> HIDE DEF fv, fq, pt
  <1>8. (fv + fq) + (pt + PerTradeFee) = (fv + pt) + (fq + PerTradeFee)
    BY <1>1, <1>6
  <1>9. Fees \in Int
    BY <1>6, <1>7
  <1> QED
    BY <1>7, <1>8, <1>9, Zenon

(* The incoming order's report of a trade is a fill, and so is the other.  *)
LEMMA ReportOfType ==
    ASSUME NEW o, o.symbol \in Symbols, o.side \in Side, o.leaves \in Nat,
           NEW price \in Prices, NEW qty \in Nat \ {0}, qty <= o.leaves
    PROVE  LET rpt == ReportOf(o, price, qty)
           IN  /\ rpt \in OrderReport
               /\ is_fill(rpt)
               /\ rpt # NoReport
               /\ rpt.symbol = o.symbol /\ rpt.side = o.side
               /\ rpt.exec_price = price /\ rpt.exec_qty = qty
  <1> DEFINE st == StatusOf(o.leaves - qty)
             rpt == ReportOf(o, price, qty)
  <1>1. st \in {"Filled", "PartiallyFilled"}
    BY DEF StatusOf
  <1> HIDE DEF st
  <1>2. rpt = [symbol |-> o.symbol, side |-> o.side, status |-> st,
               exec_price |-> price, exec_qty |-> qty]
    BY DEF ReportOf, st
  <1> HIDE DEF rpt
  <1>3. rpt \in OrderReport
    BY <1>1, <1>2 DEF OrderReport
  <1>4. is_fill(rpt) /\ rpt.status # "New"
    BY <1>1, <1>2 DEF is_fill
  <1>5. rpt # NoReport
    BY <1>4 DEF NoReport
  <1> QED
    BY <1>2, <1>3, <1>4, <1>5 DEF rpt

(* An order with another quantity left is still an order. *)
LEMMA OrderWithLeaves ==
    ASSUME NEW o \in Incoming, NEW left \in Nat
    PROVE  LET p == [o EXCEPT !.leaves = left]
           IN  /\ p \in Incoming
               /\ p.leaves = left
               /\ left > 0 => p \in Order
  <1> DEFINE p == [o EXCEPT !.leaves = left]
  <1>1. p \in Incoming /\ p.leaves = left
    BY DEF Incoming
  <1>2. left > 0 => p \in Order
    BY DEF Incoming, Order
  <1> QED
    BY <1>1, <1>2

(* An order in the book is one that could be matched again. *)
LEMMA OrderIsIncoming == Order \subseteq Incoming
  BY DEF Order, Incoming

(* A step that delivers no report keeps the invariant. *)
LEMMA QuietStep ==
    ASSUME ExchangeInv, TypeOK',
           UNCHANGED <<cash, positions, passive, trades, volume>>
    PROVE  ExchangeInv'
  <1>1. Fees' = Fees
    BY DEF Fees
  <1>2. cash' = cash /\ positions' = positions /\ passive' = passive
    OBVIOUS
  <1> QED
    BY <1>1, <1>2 DEF ExchangeInv, Even, Half, TakerCost

(* The invariant holds of a new simulator. *)
LEMMA ExchangeInvInit == Init => ExchangeInv
  <1> SUFFICES ASSUME Init PROVE ExchangeInv
    OBVIOUS
  <1>1. EmptyPosition \in Position
    BY DEF EmptyPosition, Position
  <1>2. TypeOK
    <2>1. PortfolioTypeOK
      BY <1>1, FeeAssumption DEF Init, PortfolioInit, PortfolioTypeOK
    <2>2. /\ current_time \in Times \cup {0} /\ registered \subseteq ConfigSymbols
          /\ resting \subseteq Order /\ incoming \in Incoming \cup {NoOrder}
          /\ passive \in OrderReport \cup {NoReport}
          /\ trades \in Nat /\ volume \in Nat /\ early \in BOOLEAN
      BY DEF Init
    <2>3. submits \in 0 .. MaxSubmits
      BY ExchangeAssumption DEF Init
    <2> QED
      BY <2>1, <2>2, <2>3 DEF TypeOK
  <1>3. ASSUME NEW s \in Symbols PROVE Even(positions[s])
    BY DEF Init, PortfolioInit, EmptyPosition, Even
  <1>4. cash = InitialCash - 2 * Fees + 0
    <2>1. Fees = 0
      BY FeeAssumption DEF Init, Fees
    <2> QED
      BY <2>1, FeeAssumption DEF Init, PortfolioInit
  <1>5. passive = NoReport
    BY DEF Init
  <1> QED
    BY <1>2, <1>3, <1>4, <1>5 DEF ExchangeInv

(* The first report of a trade opens a position that the second will close. *)
LEMMA TradeStep ==
    ASSUME ExchangeInv, Trade
    PROVE  ExchangeInv'
  <1> USE DEF ExchangeInv
  <1>1. PICK o \in resting :
          LET qty  == Smaller(incoming.leaves, o.leaves)
              left == [o EXCEPT !.leaves = @ - qty]
          IN  /\ Matches(incoming, o)
              /\ handle_execution(ReportOf(incoming, o.price, qty))
              /\ passive' = ReportOf(o, o.price, qty)
              /\ incoming' = [incoming EXCEPT !.leaves = @ - qty]
              /\ resting' = (resting \ {o}) \cup (IF left.leaves = 0 THEN {} ELSE {left})
              /\ trades' = trades + 1
              /\ volume' = volume + qty
              /\ early' = (early \/ current_time < incoming.timestamp)
              /\ UNCHANGED <<current_time, registered, submits>>
    BY DEF Trade
  <1> DEFINE qty  == Smaller(incoming.leaves, o.leaves)
             left == [o EXCEPT !.leaves = @ - qty]
             rpt  == ReportOf(incoming, o.price, qty)
             s    == incoming.symbol
             p    == Filled(positions[s], incoming.side, o.price, qty)
  <1>2. /\ incoming \in Incoming /\ incoming.leaves > 0
        /\ o \in Order
        /\ o.symbol = s /\ o.side = Opposite(incoming.side)
        /\ passive = NoReport
    BY <1>1 DEF Trade, TypeOK, Matches, Crosses
  <1>3. /\ s \in Symbols /\ incoming.side \in Side /\ o.side \in Side
        /\ incoming.leaves \in Nat /\ o.leaves \in Nat /\ o.leaves > 0
        /\ o.price \in Prices /\ o.price \in Nat \ {0}
    <2>1. /\ s \in Symbols /\ incoming.side \in Side /\ incoming.leaves \in Nat
      BY <1>2 DEF Incoming
    <2>2. /\ o.side \in Side /\ o.leaves \in Nat \ {0} /\ o.price \in Prices
      BY <1>2 DEF Order
    <2>3. o.price \in Nat \ {0}
      BY <2>2, ExchangeAssumption
    <2> QED
      BY <2>1, <2>2, <2>3
  <1>4. qty \in Nat \ {0} /\ qty <= incoming.leaves /\ qty <= o.leaves
        /\ incoming.leaves - qty \in Nat /\ o.leaves - qty \in Nat
    BY <1>2, <1>3 DEF Smaller
  <1> HIDE DEF qty, s
  <1>5. /\ is_fill(rpt) /\ rpt.symbol = s /\ rpt.side = incoming.side
        /\ rpt.exec_price = o.price /\ rpt.exec_qty = qty
    BY <1>3, <1>4, ReportOfType DEF s
  <1>6. /\ passive' \in OrderReport /\ passive' # NoReport
        /\ passive'.symbol = s /\ passive'.side = Opposite(incoming.side)
        /\ passive'.exec_price = o.price /\ passive'.exec_qty = qty
    <2>1. passive' = ReportOf(o, o.price, qty)
      BY <1>1 DEF qty
    <2>2. o.symbol \in Symbols
      BY <1>2, <1>3
    <2> QED
      BY <1>2, <1>3, <1>4, <2>1, <2>2, ReportOfType
  <1>7. positions[s] \in Position /\ Even(positions[s])
    BY <1>2, <1>3 DEF TypeOK, PortfolioTypeOK
  <1>8. /\ p \in Position
        /\ p.net_qty = IF incoming.side = "Buy" THEN qty ELSE -qty
        /\ p.avg_entry_price = o.price
        /\ p.realized_pnl = 0
        /\ p.unrealized_pnl = 0
    BY <1>3, <1>4, <1>7, FillOpens DEF Even
  <1>9. incoming' \in Incoming
    <2>1. incoming' = [incoming EXCEPT !.leaves = incoming.leaves - qty]
      BY <1>1 DEF qty
    <2> QED
      BY <1>2, <1>4, <2>1, OrderWithLeaves
  <1>10. resting' \subseteq Order
    <2>1. left = [o EXCEPT !.leaves = o.leaves - qty] /\ o \in Incoming
      BY <1>2, OrderIsIncoming
    <2>2. left.leaves = o.leaves - qty /\ (o.leaves - qty > 0 => left \in Order)
      BY <1>4, <2>1, OrderWithLeaves
    <2>3. resting' = (resting \ {o}) \cup (IF left.leaves = 0 THEN {} ELSE {left})
      BY <1>1 DEF qty
    <2> HIDE DEF left
    <2> QED
      BY <1>4, <2>2, <2>3 DEF TypeOK
  <1>11. volume' = volume + qty /\ trades' = trades + 1
    BY <1>1 DEF qty
  <1>12. /\ current_time' = current_time /\ registered' = registered
         /\ submits' = submits /\ early' \in BOOLEAN
    BY <1>1
  <1>13. CASE HasPortfolio
    <2>1. /\ positions' = [positions EXCEPT ![s] = p]
          /\ cash' = cash + CashFrom(positions[s], p, qty)
      <3>1. on_execution(rpt)
        BY <1>1, <1>13 DEF handle_execution, qty
      <3> HIDE DEF rpt
      <3> QED
        BY <1>5, <3>1 DEF on_execution
    <2> HIDE DEF p
    <2> DEFINE c == TakerCost(qty)
    <2>2. qty \in Int /\ p.realized_pnl = positions[s].realized_pnl
      BY <1>4, <1>7, <1>8 DEF Even
    <2>3. c \in Int /\ CashFrom(positions[s], p, qty) = -c
      BY <1>7, <1>8, <2>2, CashOfEvenFill
    <2>4. Fees \in Int /\ Fees' = Fees + c
      <3>1. volume \in Int /\ trades \in Int
        BY DEF TypeOK
      <3> QED
        BY <1>11, <2>2, <3>1, FeesGrow
    <2>5. cash = InitialCash - 2 * Fees + 0
      BY <1>2, <1>13
    <2> HIDE DEF c
    <2>6. cash' = InitialCash - 2 * Fees' + c /\ cash' \in Int
      BY <2>1, <2>3, <2>4, <2>5, FeeAssumption
    <2>7. TakerCost(passive.exec_qty)' = c
      BY <1>6 DEF c, TakerCost
    <2>8. TypeOK'
      BY <1>3, <1>4, <1>6, <1>8, <1>9, <1>10, <1>11, <1>12, <2>1, <2>6
      DEF TypeOK, PortfolioTypeOK
    <2>9. ASSUME NEW z \in Symbols
          PROVE  IF z = s THEN Half(positions'[z], passive') ELSE Even(positions'[z])
      <3>1. CASE z = s
        <4>1. positions'[z] = p
          BY <1>3, <2>1, <3>1 DEF TypeOK, PortfolioTypeOK
        <4>2. Half(p, passive')
          BY <1>3, <1>4, <1>6, <1>8 DEF Half, Opposite, Side
        <4> QED
          BY <3>1, <4>1, <4>2
      <3>2. CASE z # s
        BY <1>2, <2>1, <3>2 DEF TypeOK, PortfolioTypeOK
      <3> QED
        BY <3>1, <3>2
    <2> QED
      BY <1>6, <1>13, <2>6, <2>7, <2>8, <2>9
  <1>14. CASE ~ HasPortfolio
    <2>1. cash' = cash /\ positions' = positions
      BY <1>1, <1>14 DEF handle_execution, portfolioVars
    <2>2. TypeOK'
      BY <1>4, <1>6, <1>9, <1>10, <1>11, <1>12, <2>1 DEF TypeOK, PortfolioTypeOK
    <2> QED
      BY <1>14, <2>1, <2>2
  <1> QED
    BY <1>13, <1>14

(* The second report of a trade closes it even. *)
LEMMA PassiveStep ==
    ASSUME ExchangeInv, ReportPassive
    PROVE  ExchangeInv'
  <1> USE DEF ExchangeInv
  <1> DEFINE s   == passive.symbol
             qty == passive.exec_qty
             p   == Filled(positions[s], passive.side, passive.exec_price, qty)
  <1>1. /\ passive \in OrderReport /\ passive # NoReport /\ passive' = NoReport
        /\ UNCHANGED <<current_time, registered, resting, incoming, submits,
                       trades, volume, early>>
    BY DEF ReportPassive, TypeOK, historyVars
  <1>2. /\ s \in Symbols /\ passive.side \in Side /\ qty \in Nat \ {0}
        /\ passive.exec_price \in Prices /\ is_fill(passive)
    BY <1>1 DEF OrderReport, is_fill
  <1>3. passive.exec_price \in Nat \ {0}
    BY <1>2, ExchangeAssumption
  <1>4. Fees' = Fees
    BY <1>1 DEF Fees
  <1>5. CASE HasPortfolio
    <2>1. positions[s] \in Position /\ Half(positions[s], passive)
      BY <1>1, <1>2, <1>5 DEF TypeOK, PortfolioTypeOK
    <2>2. p \in Position /\ Even(p)
      BY <1>2, <1>3, <2>1, FillClosesEven DEF Half, Even
    <2>3. /\ positions' = [positions EXCEPT ![s] = p]
          /\ cash' = cash + CashFrom(positions[s], p, qty)
      BY <1>2, <1>5 DEF ReportPassive, handle_execution, on_execution
    <2> DEFINE c == TakerCost(qty)
    <2> HIDE DEF p
    <2>4. c \in Int /\ CashFrom(positions[s], p, qty) = -c
      <3>1. qty \in Int /\ p.realized_pnl = positions[s].realized_pnl
        BY <1>2, <2>1, <2>2 DEF Half, Even
      <3> QED
        BY <2>1, <2>2, <3>1, CashOfEvenFill
    <2>5. cash = InitialCash - 2 * Fees + c
      BY <1>1, <1>5
    <2>6. Fees \in Int
      BY FeeAssumption DEF Fees, TypeOK
    <2> HIDE DEF c
    <2>7. cash' = InitialCash - 2 * Fees' + 0 /\ cash' \in Int
      BY <1>4, <2>3, <2>4, <2>5, <2>6, FeeAssumption
    <2>8. TypeOK'
      BY <1>1, <1>2, <2>2, <2>3, <2>7 DEF TypeOK, PortfolioTypeOK
    <2>9. ASSUME NEW z \in Symbols PROVE Even(positions'[z])
      BY <1>2, <2>2, <2>3 DEF TypeOK, PortfolioTypeOK
    <2> QED
      BY <1>1, <2>7, <2>8, <2>9
  <1>6. CASE ~ HasPortfolio
    <2>1. cash' = cash /\ positions' = positions
      BY <1>6 DEF ReportPassive, handle_execution, portfolioVars
    <2>2. TypeOK'
      BY <1>1, <2>1 DEF TypeOK, PortfolioTypeOK
    <2> QED
      BY <1>6, <2>1, <2>2
  <1> QED
    BY <1>5, <1>6

(* Every operation and every step of the matching loop preserves the
   invariant. *)
LEMMA ExchangeInvStep == ExchangeInv /\ [Next]_vars => ExchangeInv'
  <1> SUFFICES ASSUME ExchangeInv, [Next]_vars PROVE ExchangeInv'
    OBVIOUS
  <1> USE DEF engineVars, historyVars
  <1>0. TypeOK
    BY DEF ExchangeInv
  <1>1. CASE initialize
    <2>1. TypeOK'
      BY <1>0, <1>1 DEF initialize, TypeOK, PortfolioTypeOK
    <2> QED
      BY <1>1, <2>1, QuietStep DEF initialize
  <1>2. CASE Advance
    <2>1. PICK t \in Times : advance_to(t)
      BY <1>2 DEF Advance
    <2>2. TypeOK'
      BY <1>0, <2>1 DEF advance_to, TypeOK, PortfolioTypeOK
    <2> QED
      BY <2>1, <2>2, QuietStep DEF advance_to
  <1>3. CASE Submit
    <2>1. PICK id \in OrderIds, sym \in Symbols, side \in Side, type \in OrderType,
               price \in Prices, qty \in Quantities \cup {0}, timestamp \in Times \cup {0} :
            submit_order(id, sym, side, type, price, qty, timestamp)
      BY <1>3 DEF Submit
    <2> DEFINE order == [id |-> id, symbol |-> sym, side |-> side, type |-> type,
                         price |-> price, leaves |-> qty, arrival |-> submits,
                         timestamp |-> Stamp(timestamp)]
    <2>2. order \in Incoming
      <3>1. Stamp(timestamp) \in Nat
        BY <1>0, ExchangeAssumption DEF Stamp, TypeOK
      <3>2. qty \in Nat /\ submits \in Nat
        BY <1>0, ExchangeAssumption DEF TypeOK
      <3> QED
        BY <3>1, <3>2 DEF Incoming
    <2>3. /\ incoming' = NoOrder \/ incoming' = order
          /\ submits < MaxSubmits /\ submits' = submits + 1
          /\ UNCHANGED <<cash, positions, current_time, registered, resting,
                         passive, trades, volume, early>>
      BY <2>1 DEF submit_order
    <2> HIDE DEF order
    <2>4. TypeOK'
      BY <1>0, <2>2, <2>3, ExchangeAssumption DEF TypeOK, PortfolioTypeOK
    <2> QED
      BY <2>3, <2>4, QuietStep
  <1>4. CASE Cancel
    <2>1. PICK sym \in Symbols, id \in OrderIds : cancel_order(sym, id)
      BY <1>4 DEF Cancel
    <2>2. TypeOK'
      BY <1>0, <2>1 DEF cancel_order, TypeOK, PortfolioTypeOK
    <2> QED
      BY <2>1, <2>2, QuietStep DEF cancel_order
  <1>5. CASE Modify
    <2>1. PICK sym \in Symbols, id \in OrderIds, price \in Prices, qty \in Quantities :
            modify_order(sym, id, price, qty)
      BY <1>5 DEF Modify
    <2>2. PICK o \in resting :
            IF price = o.price /\ qty <= o.leaves
            THEN /\ resting' = (resting \ {o}) \cup {[o EXCEPT !.leaves = qty]}
                 /\ UNCHANGED <<incoming, submits>>
            ELSE /\ resting' = resting \ {o}
                 /\ incoming' = [o EXCEPT !.price = price, !.leaves = qty,
                                          !.arrival = submits]
                 /\ submits' = submits + 1
      BY <2>1 DEF modify_order
    <2>3. /\ UNCHANGED <<cash, positions, current_time, registered, passive,
                         trades, volume, early>>
          /\ submits < MaxSubmits
      BY <2>1 DEF modify_order
    <2>4. o \in Order /\ o \in Incoming /\ qty \in Nat \ {0} /\ submits \in Nat
      BY <1>0, ExchangeAssumption, OrderIsIncoming DEF TypeOK
    <2>5. [o EXCEPT !.leaves = qty] \in Order
      BY <2>4, OrderWithLeaves
    <2>6. [o EXCEPT !.price = price, !.leaves = qty, !.arrival = submits] \in Incoming
      BY <2>4 DEF Incoming
    <2>7. resting' \subseteq Order /\ incoming' \in Incoming \cup {NoOrder}
          /\ submits' \in 0 .. MaxSubmits
      BY <1>0, <2>2, <2>3, <2>5, <2>6, ExchangeAssumption DEF TypeOK
    <2>8. TypeOK'
      BY <1>0, <2>3, <2>7 DEF TypeOK, PortfolioTypeOK
    <2> QED
      BY <2>3, <2>8, QuietStep
  <1>6. CASE Trade
    BY <1>6, TradeStep
  <1>7. CASE ReportPassive
    BY <1>7, PassiveStep
  <1>8. CASE Finish
    <2>1. incoming.leaves > 0 => incoming \in Order
      BY <1>0, <1>8 DEF Finish, TypeOK, Incoming, Order
    <2>2. TypeOK'
      BY <1>0, <1>8, <2>1 DEF Finish, TypeOK, PortfolioTypeOK
    <2> QED
      BY <1>8, <2>2, QuietStep DEF Finish
  <1>9. CASE UNCHANGED vars
    <2>1. TypeOK'
      BY <1>0, <1>9 DEF vars, TypeOK, PortfolioTypeOK
    <2> QED
      BY <1>9, <2>1, QuietStep DEF vars
  <1> QED
    BY <1>1, <1>2, <1>3, <1>4, <1>5, <1>6, <1>7, <1>8, <1>9 DEF Next

(* Every reachable state satisfies the inductive invariant. *)
THEOREM ExchangeInvariant == Spec => []ExchangeInv
  BY ExchangeInvInit, ExchangeInvStep, PTL DEF Spec

(* Every variable of the simulator, the engine and the portfolio keeps its *)
(* type, whatever calls are made.                                          *)
THEOREM ExchangeTypeCorrect == Spec => []TypeOK
  <1>1. ExchangeInv => TypeOK
    BY DEF ExchangeInv
  <1> QED
    BY <1>1, ExchangeInvariant, PTL

(* The invariant leaves no position between trades, ... *)
LEMMA EvenIsFlat == ExchangeInv => FlatBetweenTrades
  BY DEF ExchangeInv, Even, FlatBetweenTrades, Flat, Pnl

(* A share more of the taker's fee than of the maker's. *)
LEMMA FeeSpread ==
    ASSUME NEW r \in Int, NEW t \in Int, NEW v \in Nat, -r <= t
    PROVE  (PerShareFee - r) * v <= (PerShareFee + t) * v
  <1>1. \A a, b \in Int, n \in Nat : a <= b => a * n <= b * n
    OBVIOUS
  <1>2. PerShareFee - r \in Int /\ PerShareFee + t \in Int /\ PerShareFee - r <= PerShareFee + t
    BY FeeAssumption
  <1> QED
    BY <1>1, <1>2, Zenon

(* ... and the fees in the cash account. *)
LEMMA EvenPays == ExchangeInv => FeesWithinModel
  <1> SUFFICES ASSUME ExchangeInv, passive = NoReport, HasPortfolio,
                      -MakerRebate <= TakerFee
               PROVE  InitialCash - cash \in
                          (Fees + ((PerShareFee - MakerRebate) * volume + PerTradeFee * trades))
                              .. 2 * Fees
    BY DEF FeesWithinModel, Fees
  <1>1. cash = InitialCash - 2 * Fees + 0
    BY DEF ExchangeInv
  <1>2. PICK m, t, c : /\ m = (PerShareFee - MakerRebate) * volume
                       /\ t = (PerShareFee + TakerFee) * volume
                       /\ c = PerTradeFee * trades
    OBVIOUS
  <1>3. m \in Int /\ t \in Int /\ c \in Int /\ Fees = t + c
    BY <1>2, FeeAssumption DEF ExchangeInv, TypeOK, Fees
  <1>4. m <= t
    BY <1>2, FeeSpread, FeeAssumption DEF ExchangeInv, TypeOK
  <1> QED
    BY <1>1, <1>2, <1>3, <1>4, FeeAssumption

(* Between trades every position is flat and nothing was won or lost. *)
THEOREM TradesAreEven == Spec => []FlatBetweenTrades
  BY EvenIsFlat, ExchangeInvariant, PTL

(* All that trading costs is the fees, and they stay within the fee model. *)
THEOREM FeesFollowModel == Spec => []FeesWithinModel
  BY EvenPays, ExchangeInvariant, PTL

-----------------------------------------------------------------------------
(* The backtest.                                                           *)

ReaderP == INSTANCE BinaryReaderProofs

ReplayP == INSTANCE ReplayProofs WITH
    source     <- file,
    idx        <- Reader!HandedOut,
    defined    <- TRUE,
    pc         <- IF pc \in {"opened", "first"} THEN "ready"
                  ELSE IF pc = "callback" THEN "loop" ELSE pc,
    start_time <- IF runs = 0 THEN 0 ELSE start_time,
    end_time   <- IF runs = 0 THEN 0 ELSE end_time,
    pos        <- at,
    begun      <- 0,
    uncounted  <- 0

(* The runner's own part of the invariant: what each place in run knows of *)
(* the reader, of the events it holds and of the simulator.                *)
Placed ==
    /\ pc \in {"ready", "opened", "first", "prime", "loop", "callback", "done"}
    /\ pc \notin {"ready", "done"} => opened
    /\ pc \in {"opened", "first"} => Reader!HandedOut = 0 /\ runs < MaxRuns
    /\ pc \in {"prime", "loop", "callback"} => current \in Events
    /\ pc \in {"prime", "loop", "callback", "done"} => runs # 0
    /\ next \in Events \cup {Nothing}
    /\ runs \in 0 .. MaxRuns
    /\ start_time \in StartTimes /\ end_time \in EndTimes
    /\ pc # "callback" => Idle
    /\ pc = "callback" => ~ Replay!TooEarly(current) /\ ~ Replay!TooLate(current)

(* The inductive invariant. *)
BacktestInv == Placed /\ ReaderP!ReaderInv /\ ~ crashed /\ ExchangeInv

-----------------------------------------------------------------------------
(* The reader, seen from the run.                                          *)

(* A read is a read of the event source. *)
LEMMA ReadIsRead ==
    ASSUME ReaderP!ReaderInv, opened, Reader!do_read_next
    PROVE  /\ Replay!read_next
           /\ out' \in Events \cup {Nothing}
           /\ file' = file /\ opened' = opened
           /\ ReaderP!do_read_next
  <1>1. ReaderP!do_read_next
    BY DEF Reader!do_read_next, ReaderP!do_read_next, Reader!advance, ReaderP!advance,
           Reader!TakeBuffered, ReaderP!TakeBuffered, Reader!RunOut, ReaderP!RunOut,
           Reader!Refill, ReaderP!Refill, Reader!fread, ReaderP!fread,
           Reader!UsedUp, ReaderP!UsedUp, Reader!bufferVars, ReaderP!bufferVars
  <1>2. Reader!HandedOut = ReaderP!HandedOut /\ Reader!HandedOut' = ReaderP!HandedOut'
    BY DEF Reader!HandedOut, ReaderP!HandedOut
  <1>3. file \in Seq(Events)
    BY DEF ReaderP!ReaderInv, ReaderP!TypeOK
  <1>4. CASE has_next
    <2>1. /\ Reader!HandedOut \in Nat /\ Reader!HandedOut < Len(file)
          /\ Reader!HandedOut' = Reader!HandedOut + 1
          /\ out' = file[Reader!HandedOut + 1]
          /\ file' = file /\ opened' = opened
      BY <1>1, <1>2, <1>4, ReaderP!ReadHandsOutOne, BacktestAssumption
    <2>2. out' \in Events
      BY <1>3, <2>1
    <2>3. Replay!read_next
      BY <2>1 DEF Replay!read_next
    <2> QED
      BY <1>1, <2>1, <2>2, <2>3
  <1>5. CASE ~ has_next
    <2>1. out' = Nothing /\ UNCHANGED <<is_open, Reader!bufferVars, opened, crashed>>
      BY <1>5 DEF Reader!do_read_next
    <2>2. file' = file /\ opened' = opened /\ Reader!HandedOut' = Reader!HandedOut
      BY <2>1 DEF Reader!bufferVars, Reader!HandedOut
    <2>3. Reader!HandedOut = Len(file) /\ Len(file) \in Nat
      BY <1>3, <1>5 DEF Reader!HandedOut, ReaderP!ReaderInv, ReaderP!TypeOK
    <2>4. Replay!read_next
      BY <2>1, <2>2, <2>3 DEF Replay!read_next
    <2> QED
      BY <1>1, <1>5, <2>1, <2>2, <2>4
  <1> QED
    BY <1>4, <1>5

(* An open starts the file from its first event, ... *)
LEMMA OpenStarts ==
    ASSUME ReaderP!ReaderInv, NEW f \in Files, Reader!do_open(f)
    PROVE  /\ Reader!HandedOut' = 0 /\ file' = f /\ opened' = TRUE
           /\ out' = out
           /\ ReaderP!do_open(f)
  <1>1. ReaderP!do_open(f)
    BY DEF Reader!do_open, ReaderP!do_open, Reader!TakeBuffered, ReaderP!TakeBuffered,
           Reader!RunOut, ReaderP!RunOut, Reader!Refill, ReaderP!Refill,
           Reader!fread, ReaderP!fread
  <1>2. ReaderP!HandedOut' = 0
    <2>1. f \in Seq(Events) /\ ReaderP!Refill(f, 0) /\ next_event \in Events \cup {Nothing}
      BY <1>1, BacktestAssumption DEF ReaderP!do_open, ReaderP!ReaderInv, ReaderP!TypeOK
    <2> QED
      BY <2>1, ReaderP!RefillFromStart, BacktestAssumption
  <1>3. Reader!HandedOut' = ReaderP!HandedOut'
    BY DEF Reader!HandedOut, ReaderP!HandedOut
  <1> QED
    BY <1>1, <1>2, <1>3 DEF Reader!do_open

(* ... and nothing a run does breaks the reader. *)
LEMMA ReaderKept ==
    ASSUME ReaderP!ReaderInv, ~ crashed,
           \/ \E f \in Files : Reader!do_open(f)
           \/ Reader!do_open_fails
           \/ opened /\ Reader!do_read_next
           \/ UNCHANGED readerVars
    PROVE  ReaderP!ReaderInv' /\ ~ crashed'
  <1>1. ASSUME NEW f \in Files, Reader!do_open(f) PROVE ReaderP!ReaderInv' /\ ~ crashed'
    <2>1. ReaderP!do_open(f) /\ opened' = TRUE
      BY <1>1, OpenStarts
    <2>2. ReaderP!Next
      BY <2>1 DEF ReaderP!Next
    <2>3. ReaderP!ReaderInv'
      BY <2>2, ReaderP!ReaderInvStep, BacktestAssumption
    <2>4. opened'
      BY <2>1, Zenon
    <2> QED
      BY <2>3, <2>4 DEF ReaderP!ReaderInv, ReaderP!NullReadAfterFullChunk
  <1>2. CASE Reader!do_open_fails
    <2>1. ReaderP!do_open_fails /\ crashed' = crashed
      BY <1>2 DEF Reader!do_open_fails, ReaderP!do_open_fails,
                  Reader!bufferVars, ReaderP!bufferVars
    <2>2. ReaderP!Next
      BY <2>1 DEF ReaderP!Next
    <2>3. ReaderP!ReaderInv'
      BY <2>2, ReaderP!ReaderInvStep, BacktestAssumption
    <2> QED
      BY <2>1, <2>3
  <1>3. CASE opened /\ Reader!do_read_next
    <2>1. ReaderP!do_read_next /\ opened' = opened
      BY <1>3, ReadIsRead
    <2>2. ReaderP!Next
      BY <2>1 DEF ReaderP!Next
    <2>3. ReaderP!ReaderInv'
      BY <2>2, ReaderP!ReaderInvStep, BacktestAssumption
    <2> QED
      BY <1>3, <2>1, <2>3 DEF ReaderP!ReaderInv, ReaderP!NullReadAfterFullChunk
  <1>4. CASE UNCHANGED readerVars
    <2>1. UNCHANGED ReaderP!vars /\ crashed' = crashed
      BY <1>4 DEF readerVars, ReaderP!vars, ReaderP!bufferVars
    <2>2. ReaderP!ReaderInv'
      BY <2>1, ReaderP!ReaderInvStep, BacktestAssumption
    <2> QED
      BY <2>1, <2>2
  <1> QED
    BY <1>1, <1>2, <1>3, <1>4

-----------------------------------------------------------------------------
(* The invariant.                                                          *)

(* The invariant holds of a new runner. *)
LEMMA BacktestInvInit == BacktestInit => BacktestInv
  <1> SUFFICES ASSUME BacktestInit PROVE BacktestInv
    OBVIOUS
  <1>1. ReaderP!ReaderInv
    <2>1. ReaderP!Init
      BY DEF BacktestInit, Reader!Init, ReaderP!Init
    <2> QED
      BY <2>1, ReaderP!ReaderInvInit, BacktestAssumption
  <1>2. ~ crashed
    BY Zenon DEF BacktestInit, Reader!Init
  <1>3. ExchangeInv /\ Idle
    BY ExchangeInvInit DEF BacktestInit, Init, Idle
  <1>4. Placed
    BY <1>3, BacktestAssumption DEF BacktestInit, Placed
  <1> QED
    BY <1>1, <1>2, <1>3, <1>4 DEF BacktestInv

(* To the simulator a step of the backtest is one of its calls, a step of  *)
(* its matching or nothing.                                                *)
LEMMA StepsOfExchange ==
    ASSUME BacktestInv, [BacktestNext]_allVars
    PROVE  [Next]_vars
  <1>1. CASE InitializeRun
    BY <1>1 DEF InitializeRun, Next
  <1>2. CASE StrategyCalls
    BY <1>2 DEF StrategyCalls, Next
  <1>3. CASE Matching
    BY <1>3 DEF Matching, Next
  <1>4. ASSUME NEW f \in Files, OpenData(f) PROVE UNCHANGED vars
    BY <1>4 DEF OpenData
  <1>5. CASE OpenThrows \/ FirstRead \/ SecondRead \/ SkipEvent \/ StopRun \/ Deliver
    BY <1>5 DEF OpenThrows, FirstRead, SecondRead, SkipEvent, StopRun, Deliver
  <1>6. CASE Return
    BY <1>6 DEF Return
  <1>7. CASE UNCHANGED allVars
    BY <1>7 DEF allVars
  <1> QED
    BY <1>1, <1>2, <1>3, <1>4, <1>5, <1>6, <1>7 DEF BacktestNext, Loop

(* To the reader it is an open, a read or nothing. *)
LEMMA StepsOfReader ==
    ASSUME BacktestInv, [BacktestNext]_allVars
    PROVE  \/ \E f \in Files : Reader!do_open(f)
           \/ Reader!do_open_fails
           \/ opened /\ Reader!do_read_next
           \/ UNCHANGED readerVars
  <1>1. pc \notin {"ready", "done"} => opened
    BY DEF BacktestInv, Placed
  <1>2. ASSUME NEW f \in Files, OpenData(f) PROVE Reader!do_open(f)
    BY <1>2 DEF OpenData
  <1>3. CASE OpenThrows
    BY <1>3 DEF OpenThrows
  <1>4. CASE FirstRead \/ SecondRead
    BY <1>1, <1>4 DEF FirstRead, SecondRead
  <1>5. CASE SkipEvent \/ Return
    BY <1>1, <1>5 DEF SkipEvent, Return, MoveOn
  <1>6. CASE InitializeRun \/ StopRun \/ Deliver \/ StrategyCalls \/ Matching
    BY <1>6 DEF InitializeRun, StopRun, Deliver, StrategyCalls, Matching
  <1>7. CASE UNCHANGED allVars
    BY <1>7 DEF allVars
  <1> QED
    BY <1>2, <1>3, <1>4, <1>5, <1>6, <1>7 DEF BacktestNext, Loop

(* Nothing but a call disturbs an idle simulator. *)
LEMMA StaysIdle ==
    ASSUME Idle, UNCHANGED vars
    PROVE  Idle'
  BY DEF Idle, vars, engineVars

(* What moving on to the next event leaves. *)
LEMMA MoveOnGives ==
    ASSUME Placed, ReaderP!ReaderInv, pc \in {"loop", "callback"}, MoveOn
    PROVE  /\ pc' \in {"loop", "done"}
           /\ pc' = "loop" => current' \in Events
           /\ next' \in Events \cup {Nothing}
           /\ opened' = opened
  <1>1. opened
    BY DEF Placed
  <1>2. CASE next = Nothing
    BY <1>2 DEF MoveOn, Placed, readerVars
  <1>3. CASE next # Nothing
    <2>1. Reader!do_read_next /\ current' = next /\ next' = out' /\ pc' = "loop"
      BY <1>3 DEF MoveOn
    <2>2. out' \in Events \cup {Nothing} /\ opened' = opened
      BY <1>1, <2>1, ReadIsRead
    <2> QED
      BY <1>3, <2>1, <2>2 DEF Placed
  <1> QED
    BY <1>2, <1>3

(* The runner's part of the invariant is kept. *)
LEMMA PlacedStep ==
    ASSUME BacktestInv, [BacktestNext]_allVars
    PROVE  Placed'
  <1>0. Placed /\ ReaderP!ReaderInv /\ MaxRuns \in Nat
    BY BacktestAssumption DEF BacktestInv
  <1>1. ASSUME NEW f \in Files, OpenData(f) PROVE Placed'
    <2>1. Reader!HandedOut' = 0 /\ opened' = TRUE
      BY <1>0, <1>1, OpenStarts DEF OpenData
    <2>2. /\ pc' \in {"opened", "ready"} /\ next' = Nothing /\ runs < MaxRuns
          /\ UNCHANGED <<vars, configVars, runs, orders>> /\ pc \in {"ready", "done"}
      BY <1>1 DEF OpenData
    <2>3. Idle'
      BY <1>0, <2>2, StaysIdle DEF Placed
    <2> QED
      BY <1>0, <2>1, <2>2, <2>3 DEF Placed, configVars
  <1>2. CASE OpenThrows
    <2>1. /\ UNCHANGED <<vars, pc, current, next, at, engineRunVars, configVars, runs, orders>>
          /\ pc \in {"ready", "done"}
      BY <1>2 DEF OpenThrows
    <2>2. Idle'
      BY <1>0, <2>1, StaysIdle DEF Placed
    <2> QED
      BY <1>0, <2>1, <2>2 DEF Placed, configVars
  <1>3. CASE InitializeRun
    <2>1. Idle'
      BY <1>3 DEF InitializeRun, initialize, Idle
    <2>2. /\ pc = "opened" /\ pc' = "first"
          /\ UNCHANGED <<readerVars, current, next, at, engineRunVars, configVars, runs, orders>>
      BY <1>3 DEF InitializeRun
    <2>3. Reader!HandedOut' = Reader!HandedOut /\ opened' = opened
      BY <2>2 DEF readerVars, Reader!HandedOut
    <2> QED
      BY <1>0, <2>1, <2>2, <2>3 DEF Placed, configVars
  <1>4. CASE FirstRead
    <2>1. /\ pc = "first" /\ Reader!do_read_next /\ current' = out' /\ next' = Nothing
          /\ pc' = IF out' = Nothing THEN "done" ELSE "prime"
          /\ runs' = runs + 1 /\ UNCHANGED <<vars, configVars>>
      BY <1>4 DEF FirstRead
    <2>2. out' \in Events \cup {Nothing} /\ opened' = opened
      BY <1>0, <2>1, ReadIsRead DEF Placed
    <2>3. Idle'
      BY <1>0, <2>1, StaysIdle DEF Placed
    <2> QED
      BY <1>0, <2>1, <2>2, <2>3 DEF Placed, configVars
  <1>5. CASE SecondRead
    <2>1. /\ pc = "prime" /\ Reader!do_read_next /\ next' = out' /\ pc' = "loop"
          /\ UNCHANGED <<vars, current, configVars, runs>>
      BY <1>5 DEF SecondRead
    <2>2. out' \in Events \cup {Nothing} /\ opened' = opened
      BY <1>0, <2>1, ReadIsRead DEF Placed
    <2>3. Idle'
      BY <1>0, <2>1, StaysIdle DEF Placed
    <2> QED
      BY <1>0, <2>1, <2>2, <2>3 DEF Placed, configVars
  <1>6. CASE SkipEvent \/ Return
    <2>1. /\ pc \in {"loop", "callback"} /\ MoveOn
          /\ UNCHANGED <<vars, configVars, runs>>
      BY <1>6 DEF SkipEvent, Return
    <2>2. Idle
      BY <1>0, <1>6 DEF SkipEvent, Return, Placed
    <2>3. Idle'
      BY <2>1, <2>2, StaysIdle
    <2>4. /\ pc' \in {"loop", "done"}
          /\ pc' = "loop" => current' \in Events
          /\ next' \in Events \cup {Nothing}
          /\ opened' = opened
      BY <1>0, <2>1, MoveOnGives
    <2> QED
      BY <1>0, <2>1, <2>3, <2>4 DEF Placed, configVars
  <1>7. CASE StopRun \/ Deliver
    <2>1. /\ pc = "loop" /\ pc' \in {"done", "callback"}
          /\ UNCHANGED <<vars, readerVars, current, next, configVars, runs>>
      BY <1>7 DEF StopRun, Deliver
    <2>2. Idle'
      BY <1>0, <2>1, StaysIdle DEF Placed
    <2>3. pc' = "callback" => ~ Replay!TooEarly(current)' /\ ~ Replay!TooLate(current)'
      BY <1>7, <2>1 DEF StopRun, Deliver, Replay!TooEarly, Replay!TooLate, configVars
    <2> QED
      BY <1>0, <2>1, <2>2, <2>3 DEF Placed, configVars, readerVars
  <1>8. CASE StrategyCalls \/ Matching
    <2>1. pc = "callback" /\ UNCHANGED <<readerVars, pc, current, next, configVars, runs>>
      BY <1>8 DEF StrategyCalls, Matching
    <2>2. ~ Replay!TooEarly(current)' /\ ~ Replay!TooLate(current)'
      BY <1>0, <2>1 DEF Placed, Replay!TooEarly, Replay!TooLate, configVars
    <2> QED
      BY <1>0, <2>1, <2>2 DEF Placed, configVars, readerVars
  <1>9. CASE UNCHANGED allVars
    <2>1. UNCHANGED <<vars, readerVars, pc, current, next, configVars, runs>>
      BY <1>9 DEF allVars
    <2>2. pc # "callback" => Idle'
      BY <1>0, <2>1, StaysIdle DEF Placed
    <2>3. Reader!HandedOut' = Reader!HandedOut /\ opened' = opened
      BY <2>1 DEF readerVars, Reader!HandedOut
    <2>4. pc = "callback" => ~ Replay!TooEarly(current)' /\ ~ Replay!TooLate(current)'
      BY <1>0, <2>1 DEF Placed, Replay!TooEarly, Replay!TooLate, configVars
    <2> QED
      BY <1>0, <2>1, <2>2, <2>3, <2>4 DEF Placed, configVars
  <1> QED
    BY <1>1, <1>2, <1>3, <1>4, <1>5, <1>6, <1>7, <1>8, <1>9 DEF BacktestNext, Loop

(* Every step preserves the invariant. *)
LEMMA BacktestInvStep == BacktestInv /\ [BacktestNext]_allVars => BacktestInv'
  <1> SUFFICES ASSUME BacktestInv, [BacktestNext]_allVars PROVE BacktestInv'
    OBVIOUS
  <1>1. Placed'
    BY PlacedStep
  <1>2. ReaderP!ReaderInv' /\ ~ crashed'
    <2>1. ReaderP!ReaderInv /\ ~ crashed
      BY DEF BacktestInv
    <2> QED
      BY <2>1, StepsOfReader, ReaderKept
  <1>3. ExchangeInv'
    <2>1. ExchangeInv
      BY DEF BacktestInv
    <2> QED
      BY <2>1, StepsOfExchange, ExchangeInvStep
  <1> QED
    BY <1>1, <1>2, <1>3 DEF BacktestInv

(* Every reachable state satisfies the inductive invariant. *)
THEOREM BacktestInvariant == BacktestSpec => []BacktestInv
  BY BacktestInvInit, BacktestInvStep, PTL DEF BacktestSpec

-----------------------------------------------------------------------------
(* The refinement: every run is a run of ReplayEngine.                     *)

(* A new runner is an engine that was not run yet. *)
LEMMA ReplayInitRefined == BacktestInit => Replay!Init
  <1> SUFFICES ASSUME BacktestInit PROVE Replay!Init
    OBVIOUS
  <1>1. Reader!HandedOut = 0
    <2>1. ~ has_next
      BY Zenon DEF BacktestInit, Reader!Init
    <2>2. base = 0 /\ buffer_idx = 0
      BY DEF BacktestInit, Reader!Init
    <2>3. Reader!HandedOut = base + buffer_idx
      <3>1. base \in Nat /\ buffer_idx \in Nat
        BY <2>2
      <3> HIDE <2>2
      <3> QED
        BY <2>1, <3>1 DEF Reader!HandedOut
    <2> QED
      BY <2>2, <2>3
  <1>2. file \in Files /\ out = Nothing
    BY BacktestAssumption DEF BacktestInit, Reader!Init
  <1> QED
    BY <1>1, <1>2 DEF BacktestInit, Replay!Init

(* Moving on is the engine's advance. *)
LEMMA MoveOnIsAdvance ==
    ASSUME Placed, ReaderP!ReaderInv, pc \in {"loop", "callback"}, MoveOn
    PROVE  Replay!advance
  <1>1. opened /\ pc' \in {"loop", "done"}
    BY MoveOnGives DEF Placed
  <1>2. CASE next = Nothing
    <2>1. UNCHANGED readerVars /\ next' = next /\ pc' = "done" /\ current' = next /\ at' = at + 1
      BY <1>2 DEF MoveOn
    <2>2. UNCHANGED Replay!sourceVars
      BY <2>1 DEF readerVars, Replay!sourceVars, Reader!HandedOut
    <2> QED
      BY <1>2, <2>1, <2>2 DEF Replay!advance
  <1>3. CASE next # Nothing
    <2>1. /\ Reader!do_read_next /\ current' = next /\ next' = out' /\ pc' = "loop"
          /\ at' = at + 1
      BY <1>3 DEF MoveOn
    <2>2. Replay!read_next
      BY <1>1, <2>1, ReadIsRead
    <2> QED
      BY <1>3, <2>1, <2>2 DEF Replay!advance
  <1> QED
    BY <1>2, <1>3

(* Every step of the backtest is a step of ReplayEngine, or none. *)
LEMMA ReplayStepRefined ==
    BacktestInv /\ [BacktestNext]_allVars => [Replay!Next]_(Replay!vars)
  <1> SUFFICES ASSUME BacktestInv, [BacktestNext]_allVars
               PROVE  Replay!Next \/ UNCHANGED Replay!vars
    OBVIOUS
  <1>0. Placed /\ ReaderP!ReaderInv
    BY DEF BacktestInv
  <1>1. ASSUME NEW f \in Files, OpenData(f) PROVE Replay!Next
    <2>1. Reader!HandedOut' = 0 /\ file' = f /\ out' = out
      BY <1>0, <1>1, OpenStarts DEF OpenData
    <2>2. Replay!NewEngine(f)
      BY <1>1, <2>1 DEF OpenData, Replay!NewEngine, Replay!OpenFile, Replay!runVars,
                        configVars
    <2> QED
      BY <2>2 DEF Replay!Next
  <1>2. CASE OpenThrows
    BY <1>2 DEF OpenThrows, Reader!do_open_fails, Reader!bufferVars, Reader!HandedOut,
                Replay!vars, Replay!sourceVars, Replay!loopVars, Replay!runVars,
                Replay!countVars, engineRunVars, configVars
  <1>3. CASE InitializeRun \/ Deliver \/ StrategyCalls \/ Matching
    <2>1. /\ UNCHANGED <<readerVars, current, next, at, engineRunVars, configVars, runs>>
          /\ \/ pc = "opened" /\ pc' = "first"
             \/ pc = "loop" /\ pc' = "callback"
             \/ pc' = pc
      BY <1>3 DEF InitializeRun, Deliver, StrategyCalls, Matching
    <2> QED
      BY <2>1 DEF readerVars, Reader!HandedOut, Replay!vars, Replay!sourceVars,
                  Replay!loopVars, Replay!runVars, Replay!countVars, engineRunVars,
                  configVars
  <1>4. CASE FirstRead
    <2>1. /\ pc = "first" /\ Reader!do_read_next /\ current' = out' /\ next' = Nothing
          /\ at' = 1 /\ pc' = IF out' = Nothing THEN "done" ELSE "prime"
          /\ runs' = runs + 1 /\ UNCHANGED <<vars, engineRunVars, configVars, orders>>
      BY <1>4 DEF FirstRead
    <2>2. Replay!read_next /\ Reader!HandedOut = 0 /\ runs \in Nat /\ runs < MaxRuns
      BY <1>0, <2>1, ReadIsRead, BacktestAssumption DEF Placed
    <2>3. start_time \in StartTimes /\ end_time \in EndTimes
      BY <1>0 DEF Placed
    <2>4. Replay!Run(start_time, end_time)
      BY <2>1, <2>2 DEF Replay!Run, Replay!countVars, engineRunVars, configVars
    <2> QED
      BY <2>3, <2>4 DEF Replay!Next
  <1>5. CASE SecondRead
    <2>1. /\ pc = "prime" /\ Reader!do_read_next /\ next' = out' /\ pc' = "loop"
          /\ UNCHANGED <<vars, current, at, engineRunVars, configVars, runs, orders>>
      BY <1>5 DEF SecondRead
    <2>2. Replay!read_next
      BY <1>0, <2>1, ReadIsRead DEF Placed
    <2>3. Replay!Prime
      BY <2>1, <2>2 DEF Replay!Prime, Replay!runVars, Replay!countVars, engineRunVars,
                        configVars
    <2> QED
      BY <2>3 DEF Replay!Next, Replay!Iterate
  <1>6. CASE SkipEvent
    <2>1. /\ pc = "loop" /\ Replay!TooEarly(current) /\ MoveOn
          /\ UNCHANGED <<vars, engineRunVars, configVars, runs, orders>>
      BY <1>6 DEF SkipEvent
    <2>2. Replay!advance
      BY <1>0, <2>1, MoveOnIsAdvance
    <2>3. Replay!Skip
      BY <2>1, <2>2 DEF Replay!Skip, Replay!runVars, Replay!countVars, engineRunVars,
                        configVars
    <2> QED
      BY <2>3 DEF Replay!Next, Replay!Iterate
  <1>7. CASE StopRun
    <2>1. Replay!Stop
      BY <1>7 DEF StopRun, Replay!Stop, Replay!sourceVars, Replay!runVars, Replay!countVars,
                  Reader!HandedOut, readerVars, engineRunVars, configVars
    <2> QED
      BY <2>1 DEF Replay!Next, Replay!Iterate
  <1>8. CASE Return
    <2>1. /\ pc = "callback" /\ MoveOn
          /\ delivered' = delivered \cup {at}
          /\ events_processed' = events_processed + 1
          /\ UNCHANGED <<vars, configVars, runs, orders>>
      BY <1>8 DEF Return
    <2>2. Replay!advance
      BY <1>0, <2>1, MoveOnIsAdvance
    <2>3. ~ Replay!TooEarly(current) /\ ~ Replay!TooLate(current)
      BY <1>0, <2>1 DEF Placed
    <2>4. Replay!Dispatch
      BY <2>1, <2>2, <2>3 DEF Replay!Dispatch, Replay!runVars, configVars
    <2> QED
      BY <2>4 DEF Replay!Next, Replay!Iterate
  <1>9. CASE UNCHANGED allVars
    BY <1>9 DEF allVars, readerVars, Reader!HandedOut, Replay!vars, Replay!sourceVars,
                Replay!loopVars, Replay!runVars, Replay!countVars, engineRunVars, configVars
  <1> QED
    BY <1>1, <1>2, <1>3, <1>4, <1>5, <1>6, <1>7, <1>8, <1>9 DEF BacktestNext, Loop

(* Every run, over any file in chunks of any size and with any orders sent *)
(* from its callbacks, is a run of ReplayEngine over an EventSource.       *)
THEOREM BacktestRefinesReplay == BacktestSpec => ImplementsReplay
  BY ReplayInitRefined, ReplayStepRefined, BacktestInvariant, PTL
  DEF BacktestSpec, ImplementsReplay

-----------------------------------------------------------------------------
(* What ReplayProofs shows of the engine holds of every run.               *)

(* The engine that ReplayProofs speaks of is the one refined. *)
LEMMA SameEngineInit == Replay!Init => ReplayP!Init
  BY DEF Replay!Init, ReplayP!Init

LEMMA SameEngineStep == [Replay!Next]_(Replay!vars) => [ReplayP!Next]_(ReplayP!vars)
  <1> SUFFICES ASSUME Replay!Next \/ UNCHANGED Replay!vars
               PROVE  ReplayP!Next \/ UNCHANGED ReplayP!vars
    OBVIOUS
  <1> USE DEF Replay!runVars, ReplayP!runVars, Replay!countVars, ReplayP!countVars,
              Replay!sourceVars, ReplayP!sourceVars, Replay!loopVars, ReplayP!loopVars
  <1>1. Replay!read_next => ReplayP!read_next
    BY DEF Replay!read_next, ReplayP!read_next
  <1>2. Replay!advance => ReplayP!advance
    BY <1>1 DEF Replay!advance, ReplayP!advance
  <1>3. ASSUME NEW s \in StartTimes, NEW e \in EndTimes, Replay!Run(s, e)
        PROVE  ReplayP!Next
    <2>1. ReplayP!Run(s, e)
      BY <1>1, <1>3 DEF Replay!Run, ReplayP!Run
    <2> QED
      BY <2>1 DEF ReplayP!Next
  <1>4. CASE Replay!Iterate
    <2>1. ReplayP!Iterate
      BY <1>1, <1>2, <1>4
      DEF Replay!Iterate, ReplayP!Iterate, Replay!Prime, ReplayP!Prime, Replay!Skip,
          ReplayP!Skip, Replay!Stop, ReplayP!Stop, Replay!Dispatch, ReplayP!Dispatch,
          Replay!TooEarly, ReplayP!TooEarly, Replay!TooLate, ReplayP!TooLate
    <2> QED
      BY <2>1 DEF ReplayP!Next
  <1>5. CASE Replay!ResetReader
    BY <1>5 DEF Replay!ResetReader, ReplayP!ResetReader, Replay!reset, ReplayP!reset,
                ReplayP!Next
  <1>6. ASSUME NEW f \in Files, Replay!NewEngine(f) PROVE ReplayP!Next
    BY <1>6 DEF Replay!NewEngine, ReplayP!NewEngine, Replay!OpenFile, ReplayP!OpenFile,
                ReplayP!Next
  <1>7. CASE UNCHANGED Replay!vars
    BY <1>7 DEF Replay!vars, ReplayP!vars
  <1> QED
    BY <1>3, <1>4, <1>5, <1>6, <1>7 DEF Replay!Next

(* The engine's assumptions hold of the runner's constants. *)
LEMMA EngineAssumptions ==
    /\ Files \subseteq Seq(Events) /\ Nothing \notin Events
    /\ Events \subseteq [timestamp : Int, type : ReplayP!EventType]
    /\ StartTimes \subseteq Int /\ EndTimes \subseteq Int /\ MaxRuns \in Nat
  <1>1. Replay!EventType = ReplayP!EventType
    BY DEF Replay!EventType, ReplayP!EventType
  <1>2. [timestamp : Times, type : Replay!EventType]
            \subseteq [timestamp : Int, type : ReplayP!EventType]
    <2>1. Times \subseteq Int
      BY ExchangeAssumption
    <2> QED
      BY <1>1, <2>1
  <1> QED
    BY <1>2, BacktestAssumption

(* The engine's invariant holds throughout. *)
LEMMA ReplayInvKept == BacktestSpec => []ReplayP!ReplayInv
  <1>1. BacktestInit => ReplayP!ReplayInv
    BY ReplayInitRefined, SameEngineInit, ReplayP!ReplayInvInit, EngineAssumptions
  <1>2. BacktestInv /\ ReplayP!ReplayInv /\ [BacktestNext]_allVars => ReplayP!ReplayInv'
    BY ReplayStepRefined, SameEngineStep, ReplayP!ReplayInvStep, EngineAssumptions
  <1> QED
    BY <1>1, <1>2, BacktestInvariant, PTL DEF BacktestSpec

(* A run that has ended over a sorted file delivered and counted its whole *)
(* window, for all files and chunks, whatever was sent and run before.     *)
THEOREM RunsAreComplete == BacktestSpec => []EveryRunComplete
  <1>1. BacktestInv /\ ReplayP!ReplayInv => EveryRunComplete
    <2> SUFFICES ASSUME BacktestInv, ReplayP!ReplayInv, pc = "done", Replay!Sorted
                 PROVE  delivered = Window /\ events_processed = Cardinality(delivered)
      BY DEF EveryRunComplete
    <2>1. ReplayP!WindowReplayed
      BY ReplayP!WindowPassedOver, EngineAssumptions
    <2>2. {i \in delivered : i > 0} = {i \in 0 + 1 .. Len(file) : Replay!InWindow(file[i])}
      BY <2>1 DEF ReplayP!WindowReplayed, ReplayP!Sorted, Replay!Sorted, ReplayP!InWindow,
                  Replay!InWindow
    <2>3. \A i \in delivered : i \in Nat /\ 1 <= i
      BY DEF ReplayP!ReplayInv, ReplayP!PassedOver, ReplayP!TypeOK
    <2>4. delivered = {i \in delivered : i > 0}
      BY <2>3
    <2>5. events_processed - 0 = ReplayP!Cardinality(delivered) /\ events_processed \in Nat
      BY DEF ReplayP!ReplayInv, ReplayP!CountedOnce, ReplayP!TypeOK
    <2>6. ReplayP!Cardinality(delivered) = Cardinality(delivered)
      BY Zenon DEF ReplayP!Cardinality, Cardinality
    <2> QED
      BY <2>2, <2>4, <2>5, <2>6 DEF Window
  <1> QED
    BY <1>1, BacktestInvariant, ReplayInvKept, PTL

-----------------------------------------------------------------------------
(* Orders and the events that they answer.                                 *)

Answered(o) ==
    /\ Replay!InWindow(file[o.at]) /\ Handled(file[o.at])
    /\ o.at \in delivered \cup {at}

InOrder(o, p) == o.run < p.run \/ (o.run = p.run /\ o.at <= p.at)

(* Orders are of this run or an earlier one, in their order, and those of  *)
(* this run are answers to its events.                                     *)
OrdersInv ==
    /\ orders \in Seq([run : Nat, at : Nat])
    /\ \A k \in 1 .. Len(orders) : orders[k].run <= runs
    /\ \A k \in 1 .. Len(orders) : UnderWay(orders[k].run) => Answered(orders[k])
    /\ \A k, l \in 1 .. Len(orders) : k < l => InOrder(orders[k], orders[l])

(* An element of a sequence is of its set. *)
LEMMA ElementOf ==
    ASSUME NEW S, NEW s \in Seq(S), NEW k \in 1 .. Len(s)
    PROVE  s[k] \in S
  OBVIOUS

(* A step that sends nothing keeps the answers of the run under way. *)
LEMMA NothingSent ==
    ASSUME OrdersInv, orders' = orders, runs \in Nat,
           \/ runs' = runs + 1
           \/ runs' = runs /\ pc' \in {"ready", "opened", "first"}
           \/ /\ runs' = runs /\ file' = file /\ UNCHANGED configVars
              /\ pc \notin {"ready", "opened", "first"}
              /\ \A k \in 1 .. Len(orders) :
                    Answered(orders[k]) => orders[k].at \in delivered' \cup {at'}
    PROVE  OrdersInv'
  <1>1. orders' \in Seq([run : Nat, at : Nat])
    BY DEF OrdersInv
  <1>2. \A k \in 1 .. Len(orders) : orders[k].run \in Nat /\ orders[k].run <= runs'
    <2>1. runs' \in Nat /\ runs <= runs'
      OBVIOUS
    <2>2. ASSUME NEW k \in 1 .. Len(orders)
          PROVE  orders[k].run \in Nat /\ orders[k].run <= runs
      <3>1. orders[k] \in [run : Nat, at : Nat]
        BY ElementOf, Zenon DEF OrdersInv
      <3> QED
        BY <3>1 DEF OrdersInv
    <2> QED
      BY <2>1, <2>2
  <1>3. \A k, l \in 1 .. Len(orders) : k < l => InOrder(orders[k], orders[l])
    BY DEF OrdersInv
  <1>4. ASSUME NEW k \in 1 .. Len(orders), UnderWay(orders[k].run)'
        PROVE  Answered(orders[k])'
    <2>1. /\ orders[k].run = runs' /\ pc' \notin {"ready", "opened", "first"}
          /\ orders[k].run <= runs
      BY <1>4 DEF UnderWay, OrdersInv
    <2>2. /\ runs' = runs /\ file' = file /\ UNCHANGED configVars
          /\ pc \notin {"ready", "opened", "first"}
          /\ Answered(orders[k]) => orders[k].at \in delivered' \cup {at'}
      BY <1>2, <2>1
    <2>3. Answered(orders[k])
      BY <2>1, <2>2 DEF UnderWay, OrdersInv
    <2> QED
      BY <2>2, <2>3 DEF Answered, Replay!InWindow, Handled, Replay!callback, configVars
  <1>5. (\A k \in 1 .. Len(orders) : UnderWay(orders[k].run) => Answered(orders[k]))'
    <2>1. \A k \in 1 .. Len(orders) : (UnderWay(orders[k].run) => Answered(orders[k]))'
      BY <1>4
    <2> QED
      BY <2>1
  <1>6. (\A k, l \in 1 .. Len(orders) : k < l => InOrder(orders[k], orders[l]))'
    BY <1>3 DEF InOrder
  <1> QED
    BY <1>1, <1>2, <1>5, <1>6 DEF OrdersInv

(* An order that is sent answers the event that the loop works on. *)
LEMMA OrderSent ==
    ASSUME OrdersInv, runs \in Nat, at \in Nat, pc = "callback",
           orders' = Append(orders, [run |-> runs, at |-> at]),
           UNCHANGED <<pc, file, at, delivered, runs, configVars>>,
           Replay!InWindow(file[at]), Handled(file[at]),
           \A i \in delivered : i < at
    PROVE  OrdersInv'
  <1> DEFINE o == [run |-> runs, at |-> at]
             n == Len(orders)
  <1>1. /\ orders \in Seq([run : Nat, at : Nat]) /\ n \in Nat
        /\ o \in [run : Nat, at : Nat] /\ o.run = runs /\ o.at = at
    BY DEF OrdersInv
  <1>2. /\ orders' \in Seq([run : Nat, at : Nat]) /\ Len(orders') = n + 1
        /\ orders'[n + 1] = o
        /\ \A k \in 1 .. n : orders'[k] = orders[k]
    BY <1>1
  <1>3. \A k \in 1 .. n : orders[k].run <= runs
    BY DEF OrdersInv
  <1>4. \A k \in 1 .. n : InOrder(orders[k], o)
    <2> SUFFICES ASSUME NEW k \in 1 .. n PROVE InOrder(orders[k], o)
      OBVIOUS
    <2>1. orders[k] \in [run : Nat, at : Nat] /\ orders[k].run <= runs
      BY <1>1, <1>3, ElementOf, Zenon
    <2>2. CASE orders[k].run = runs
      <3>1. Answered(orders[k])
        BY <2>2 DEF OrdersInv, UnderWay
      <3>2. orders[k].at <= at
        BY <2>1, <3>1 DEF Answered
      <3> QED
        BY <1>1, <2>2, <3>2 DEF InOrder
    <2>3. CASE orders[k].run # runs
      BY <1>1, <2>1, <2>3 DEF InOrder
    <2> QED
      BY <2>2, <2>3
  <1>5. Answered(o)
    BY <1>1 DEF Answered
  <1> HIDE DEF o
  <1>6. \A k \in 1 .. n + 1 : k \in 1 .. n \/ k = n + 1
    BY <1>1
  <1>7. (\A k \in 1 .. Len(orders) : orders[k].run <= runs)'
    BY <1>1, <1>2, <1>3, <1>6
  <1>8. (\A k \in 1 .. Len(orders) : UnderWay(orders[k].run) => Answered(orders[k]))'
    <2>1. \A k \in 1 .. n : UnderWay(orders[k].run) => Answered(orders[k])
      BY DEF OrdersInv
    <2>2. ASSUME NEW k \in 1 .. n + 1, UnderWay(orders'[k].run)
          PROVE  Answered(orders'[k])
      BY <1>2, <1>5, <1>6, <2>1, <2>2
    <2>3. \A p : Answered(p) => Answered(p)'
      BY DEF Answered, Replay!InWindow, Handled, Replay!callback, configVars
    <2> QED
      BY <1>2, <2>2, <2>3 DEF UnderWay
  <1>9. (\A k, l \in 1 .. Len(orders) : k < l => InOrder(orders[k], orders[l]))'
    <2>1. \A k, l \in 1 .. n : k < l => InOrder(orders[k], orders[l])
      BY DEF OrdersInv
    <2>2. ASSUME NEW k \in 1 .. n + 1, NEW l \in 1 .. n + 1, k < l
          PROVE  InOrder(orders'[k], orders'[l])
      <3>1. k \in 1 .. n
        BY <1>1, <2>2
      <3>2. CASE l \in 1 .. n
        BY <1>2, <2>1, <2>2, <3>1, <3>2
      <3>3. CASE l = n + 1
        BY <1>2, <1>4, <3>1, <3>3
      <3> QED
        BY <1>6, <3>2, <3>3
    <2> QED
      BY <1>2, <2>2 DEF InOrder
  <1> QED
    BY <1>2, <1>7, <1>8, <1>9 DEF OrdersInv

(* Every step keeps orders and events together. *)
LEMMA OrdersInvStep ==
    BacktestInv /\ ReplayP!ReplayInv /\ OrdersInv /\ [BacktestNext]_allVars => OrdersInv'
  <1> SUFFICES ASSUME BacktestInv, ReplayP!ReplayInv, OrdersInv, [BacktestNext]_allVars
               PROVE  OrdersInv'
    OBVIOUS
  <1>1. runs \in Nat /\ at \in Nat
    BY BacktestAssumption DEF BacktestInv, Placed, ReplayP!ReplayInv, ReplayP!TypeOK
  <1>2. pc \in {"loop", "callback"} =>
            /\ current = file[at] /\ current \in Events
            /\ \A i \in delivered : i < at
    BY DEF BacktestInv, Placed, ReplayP!ReplayInv, ReplayP!InStep, ReplayP!PassedOver
  <1>3. \A k \in 1 .. Len(orders) : Answered(orders[k]) => orders[k].at \in delivered \cup {at}
    BY DEF Answered
  <1>4. current \in Events =>
            (Replay!InWindow(current) <=>
                ~ Replay!TooEarly(current) /\ ~ Replay!TooLate(current))
    <2>1. ReplayP!TypeOK
      BY DEF ReplayP!ReplayInv
    <2>2. current \in Events =>
            (ReplayP!InWindow(current) <=>
                ~ ReplayP!TooEarly(current) /\ ~ ReplayP!TooLate(current))
      BY <2>1, ReplayP!WindowIs, EngineAssumptions
    <2> QED
      BY <2>2 DEF Replay!InWindow, ReplayP!InWindow, Replay!TooEarly, ReplayP!TooEarly,
                  Replay!TooLate, ReplayP!TooLate
  <1>5. ASSUME NEW f \in Files, OpenData(f) PROVE OrdersInv'
    <2>1. orders' = orders /\ runs' = runs /\ pc' \in {"ready", "opened"}
      BY <1>5 DEF OpenData
    <2> QED
      BY <1>1, <2>1, NothingSent
  <1>6. CASE InitializeRun \/ FirstRead
    <2>1. orders' = orders /\ (runs' = runs + 1 \/ (runs' = runs /\ pc' = "first"))
      BY <1>6 DEF InitializeRun, FirstRead
    <2> QED
      BY <1>1, <2>1, NothingSent
  <1>7. ASSUME UNCHANGED <<orders, runs, file, configVars, at, delivered>>,
               pc \notin {"ready", "opened", "first"} \/ pc' = pc
        PROVE  OrdersInv'
    <2>1. \A k \in 1 .. Len(orders) : Answered(orders[k]) => orders[k].at \in delivered' \cup {at'}
      BY <1>3, <1>7
    <2> QED
      BY <1>1, <1>7, <2>1, NothingSent
  <1>8. CASE OpenThrows \/ StopRun \/ Deliver \/ Matching \/ UNCHANGED allVars
    <2>1. /\ UNCHANGED <<orders, runs, configVars, at, delivered>>
          /\ pc \notin {"ready", "opened", "first"} \/ pc' = pc
      BY <1>8 DEF OpenThrows, StopRun, Deliver, Matching, allVars, engineRunVars
    <2>2. file' = file
      BY <1>8 DEF OpenThrows, StopRun, Deliver, Matching, allVars, readerVars,
                  Reader!do_open_fails, Reader!bufferVars
    <2> QED
      BY <1>7, <2>1, <2>2
  <1>9. CASE SecondRead
    <2>1. /\ UNCHANGED <<orders, runs, configVars, at, delivered>> /\ pc = "prime"
          /\ Reader!do_read_next
      BY <1>9 DEF SecondRead, engineRunVars
    <2>2. file' = file
      BY <2>1, ReadIsRead DEF BacktestInv, Placed
    <2> QED
      BY <1>7, <2>1, <2>2
  <1>10. CASE SkipEvent \/ Return
    <2>1. /\ pc \in {"loop", "callback"} /\ MoveOn /\ UNCHANGED <<configVars, runs, orders>>
      BY <1>10 DEF SkipEvent, Return
    <2>2. file' = file
      <3>1. CASE next = Nothing
        BY <2>1, <3>1 DEF MoveOn, readerVars
      <3>2. CASE next # Nothing
        BY <2>1, <3>2, ReadIsRead DEF MoveOn, BacktestInv, Placed
      <3> QED
        BY <3>1, <3>2
    <2>3. ASSUME NEW k \in 1 .. Len(orders), Answered(orders[k])
          PROVE  orders[k].at \in delivered'
      <3>1. CASE Return
        BY <2>3, <3>1 DEF Return, Answered
      <3>2. CASE SkipEvent
        <4>1. ~ Replay!InWindow(file[at]) /\ delivered' = delivered
          BY <1>2, <1>4, <3>2 DEF SkipEvent, engineRunVars
        <4> QED
          BY <2>3, <4>1 DEF Answered
      <3> QED
        BY <1>10, <3>1, <3>2
    <2> QED
      BY <1>1, <2>1, <2>2, <2>3, NothingSent
  <1>11. CASE StrategyCalls
    <2>1. /\ pc = "callback" /\ Handled(current)
          /\ UNCHANGED <<readerVars, pc, at, engineRunVars, configVars, runs>>
          /\ orders' = orders \/ orders' = Append(orders, [run |-> runs, at |-> at])
      BY <1>11 DEF StrategyCalls
    <2>2. UNCHANGED <<pc, file, at, delivered, runs, configVars>>
      BY <2>1 DEF readerVars, engineRunVars
    <2>3. Replay!InWindow(file[at]) /\ Handled(file[at])
      BY <1>2, <1>4, <2>1 DEF BacktestInv, Placed
    <2>4. CASE orders' = orders
      BY <1>7, <2>2, <2>4
    <2>5. CASE orders' = Append(orders, [run |-> runs, at |-> at])
      BY <1>1, <1>2, <2>1, <2>2, <2>3, <2>5, OrderSent
    <2> QED
      BY <2>1, <2>4, <2>5
  <1> QED
    BY <1>5, <1>6, <1>8, <1>9, <1>10, <1>11 DEF BacktestNext, Loop

(* Every order answers an event of the window that the strategy handles,   *)
(* and orders go out in the order of their events, in any number of runs.  *)
THEOREM OrdersInAnswer == BacktestSpec => []OrdersAnswerEvents
  <1>1. BacktestInit => OrdersInv
    BY DEF BacktestInit, OrdersInv
  <1>2. BacktestSpec => []OrdersInv
    BY <1>1, OrdersInvStep, BacktestInvariant, ReplayInvKept, PTL DEF BacktestSpec
  <1>3. OrdersInv => OrdersAnswerEvents
    BY DEF OrdersInv, OrdersAnswerEvents, Answered, InOrder
  <1> QED
    BY <1>2, <1>3, PTL

=============================================================================
