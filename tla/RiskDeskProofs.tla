--------------------------- MODULE RiskDeskProofs ---------------------------
(***************************************************************************)
(* Theorems about RiskDesk: for every set of symbols, order ids, prices    *)
(* and quantities, every limit and every interleaving of checks, partial   *)
(* fills, cancels and marks, the pre-trade check bounds how far fills can  *)
(* carry a position, and a tripped kill switch only lets it wind down.     *)
(***************************************************************************)
EXTENDS RiskDesk, PortfolioLemmas, TLAPS

(* No order rests with more than max_order_size. *)
OrdersWithinLimit ==
    MaxOrderSize > 0 => \A id \in OrderIds : orders[id].leaves <= MaxOrderSize

(* The inductive invariant.  The bound on the exposure after an approval   *)
(* comes from what the other orders may still have resting.                *)
DeskInv ==
    /\ TypeOK
    /\ OrdersWithinLimit
    /\ ExposureBounded
    /\ LossTripsKillSwitch

AnyOrder == Order \cup {NoOrder}

-----------------------------------------------------------------------------
(* What rests.                                                             *)

(* An order counts on one side of one symbol with at most what it has      *)
(* left.                                                                   *)
LEMMA RestsOnBounds ==
    ASSUME NEW o \in AnyOrder, NEW sym, NEW side
    PROVE  /\ o.leaves \in Nat
           /\ RestsOn(o, sym, side) \in Nat
           /\ RestsOn(o, sym, side) <= o.leaves
  <1>1. o.leaves \in Nat
    BY DEF AnyOrder, Order, NoOrder
  <1> QED
    BY <1>1 DEF RestsOn

(* The quantity that rests is a natural number, whatever the orders. *)
LEMMA SharesNat ==
    ASSUME NEW os \in [OrderIds -> AnyOrder], NEW sym, NEW side
    PROVE  SumFunctionOnSet([id \in OrderIds |-> RestsOn(os[id], sym, side)], OrderIds) \in Nat
  <1> DEFINE f == [id \in OrderIds |-> RestsOn(os[id], sym, side)]
  <1>1. \A id \in OrderIds : f[id] \in Nat
    BY RestsOnBounds
  <1>2. IsFiniteSet(OrderIds)
    BY DeskAssumption
  <1> HIDE DEF f
  <1>3. SumFunctionOnSet(f, OrderIds) \in Nat
    BY <1>1, <1>2, SumNat
  <1> QED
    BY <1>3 DEF f

(* So it is in this state ... *)
LEMMA RestingNat ==
    ASSUME TypeOK, NEW sym, NEW side
    PROVE  Resting(sym, side) \in Nat
  BY SharesNat DEF TypeOK, AnyOrder, Resting

(* ... and in the next. *)
LEMMA RestingNatNext ==
    ASSUME TypeOK', NEW sym, NEW side
    PROVE  Resting(sym, side)' \in Nat
  <1>1. PICK os : os = orders'
    OBVIOUS
  <1>2. os \in [OrderIds -> AnyOrder]
    BY <1>1 DEF TypeOK, AnyOrder
  <1>3. Resting(sym, side)'
            = SumFunctionOnSet([id \in OrderIds |-> RestsOn(os[id], sym, side)], OrderIds)
    BY <1>1 DEF Resting, RestsOn
  <1> QED
    BY <1>2, <1>3, SharesNat

(* When one order changes, what rests changes by what that order rested.   *)
LEMMA RestingChanges ==
    ASSUME TypeOK, NEW id \in OrderIds, NEW o \in AnyOrder,
           orders' = [orders EXCEPT ![id] = o], NEW sym, NEW side
    PROVE  Resting(sym, side)' = Resting(sym, side)
                + (RestsOn(o, sym, side) - RestsOn(orders[id], sym, side))
  <1>0. PICK f, e : /\ f = [i \in OrderIds |-> RestsOn(orders[i], sym, side)]
                    /\ e = [i \in OrderIds |-> RestsOn(orders'[i], sym, side)]
    OBVIOUS
  <1>1. orders \in [OrderIds -> AnyOrder] /\ orders' \in [OrderIds -> AnyOrder]
    BY DEF TypeOK, AnyOrder
  <1>2. f \in [OrderIds -> Int] /\ e \in [OrderIds -> Int]
    BY <1>0, <1>1, RestsOnBounds
  <1>3. \A i \in OrderIds : i # id => e[i] = f[i]
    BY <1>0, <1>1
  <1>4. f[id] = RestsOn(orders[id], sym, side) /\ e[id] = RestsOn(o, sym, side)
    BY <1>0, <1>1
  <1>5. Resting(sym, side) = SumFunctionOnSet(f, OrderIds)
        /\ Resting(sym, side)' = SumFunctionOnSet(e, OrderIds)
    BY <1>0 DEF Resting, RestsOn
  <1>6. IsFiniteSet(OrderIds)
    BY DeskAssumption
  <1>7. SumFunctionOnSet(e, OrderIds) = SumFunctionOnSet(f, OrderIds) + (e[id] - f[id])
    BY <1>2, <1>3, <1>6, SumChanges
  <1> QED
    BY <1>4, <1>5, <1>7

(* The orders on one side of a symbol are finitely many. *)
LEMMA AlongsideFinite ==
    ASSUME NEW req
    PROVE  IsFiniteSet(Alongside(req)) /\ Cardinality(Alongside(req)) \in Nat
  <1>1. IsFiniteSet(Alongside(req))
    BY DeskAssumption, FS_Subset DEF Alongside
  <1> QED
    BY <1>1, FS_CardinalityType

(* They rest at most a full order each, and no other order counts. *)
LEMMA RestingAlongside ==
    ASSUME TypeOK, OrdersWithinLimit, MaxOrderSize > 0, NEW req
    PROVE  Resting(req.symbol, req.side) <= Cardinality(Alongside(req)) * MaxOrderSize
  <1> DEFINE f == [i \in OrderIds |-> RestsOn(orders[i], req.symbol, req.side)]
  <1>1. orders \in [OrderIds -> AnyOrder]
    BY DEF TypeOK, AnyOrder
  <1>2. \A i \in OrderIds : f[i] \in Int /\ f[i] <= orders[i].leaves
                            /\ orders[i].leaves \in Nat
    BY <1>1, RestsOnBounds
  <1>3. \A i \in OrderIds : f[i] \in Int /\ f[i] <= MaxOrderSize
    <2> TAKE i \in OrderIds
    <2>1. f[i] \in Int /\ f[i] <= orders[i].leaves /\ orders[i].leaves \in Nat
      BY <1>2
    <2>2. orders[i].leaves <= MaxOrderSize
      BY DEF OrdersWithinLimit
    <2> HIDE DEF f
    <2> QED
      BY <2>1, <2>2, LimitsAssumption
  <1>4. \A i \in OrderIds \ Alongside(req) : f[i] = 0
    BY DEF Alongside, RestsOn
  <1>5. Alongside(req) \in SUBSET OrderIds /\ IsFiniteSet(Alongside(req))
    BY AlongsideFinite DEF Alongside
  <1>6. Resting(req.symbol, req.side) = SumFunctionOnSet(f, OrderIds)
    BY DEF Resting
  <1> HIDE DEF f
  <1>7. SumFunctionOnSet(f, Alongside(req)) = SumFunctionOnSet(f, OrderIds)
    BY <1>3, <1>4, <1>5, DeskAssumption, SumSkipsZeros
  <1>8. SumFunctionOnSet(f, Alongside(req)) <= Cardinality(Alongside(req)) * MaxOrderSize
    BY <1>3, <1>5, LimitsAssumption, SumAtMost
  <1> QED
    BY <1>6, <1>7, <1>8

-----------------------------------------------------------------------------
(* The exposure.                                                           *)

(* A step that widens the range of no position. *)
Narrows ==
    \A sym \in Symbols : Highest(sym)' <= Highest(sym) /\ Lowest(sym)' >= Lowest(sym)

(* The range a position can reach is made of integers. *)
LEMMA ReachInt ==
    ASSUME TypeOK, NEW sym \in Symbols
    PROVE  /\ positions[sym].net_qty \in Int
           /\ Resting(sym, "Buy") \in Nat /\ Resting(sym, "Sell") \in Nat
           /\ Highest(sym) \in Int /\ Lowest(sym) \in Int
  <1>1. positions[sym].net_qty \in Int
    BY DEF TypeOK, PortfolioTypeOK, Position
  <1>2. Resting(sym, "Buy") \in Nat /\ Resting(sym, "Sell") \in Nat
    BY RestingNat
  <1> QED
    BY <1>1, <1>2 DEF Highest, Lowest

(* How far ExposureBounded lets a position pass the limit. *)
LEMMA OvershootNat ==
    ASSUME NEW n \in Nat
    PROVE  n * MaxOrderSize \in Nat
  BY LimitsAssumption

(* A step that only narrows keeps the exposure within its bound. *)
LEMMA NarrowsWithinBound ==
    ASSUME TypeOK, TypeOK', ExposureBounded, Narrows, together' = together
    PROVE  ExposureBounded'
  <1> SUFFICES ASSUME Limited, NEW sym \in Symbols
               PROVE  LET bound == MaxPositionPerSymbol + together * MaxOrderSize
                      IN  Highest(sym)' <= bound /\ Lowest(sym)' >= -bound
    BY DEF ExposureBounded, Limited
  <1> DEFINE bound == MaxPositionPerSymbol + together * MaxOrderSize
  <1>1. bound \in Int
    <2>1. together * MaxOrderSize \in Nat
      BY OvershootNat DEF TypeOK
    <2> QED
      BY <2>1, LimitsAssumption
  <1>2. Highest(sym) <= bound /\ Lowest(sym) >= -bound
    BY DEF ExposureBounded
  <1> HIDE DEF bound
  <1>3. Highest(sym) \in Int /\ Lowest(sym) \in Int
    BY ReachInt
  <1>4. Highest(sym)' \in Int /\ Lowest(sym)' \in Int
    <2>1. positions'[sym].net_qty \in Int
      BY DEF TypeOK, PortfolioTypeOK, Position
    <2>2. Resting(sym, "Buy")' \in Nat /\ Resting(sym, "Sell")' \in Nat
      BY RestingNatNext
    <2> QED
      BY <2>1, <2>2 DEF Highest, Lowest
  <1>5. Highest(sym)' <= Highest(sym) /\ Lowest(sym)' >= Lowest(sym)
    BY DEF Narrows
  <1> QED
    BY <1>1, <1>2, <1>3, <1>4, <1>5 DEF bound

-----------------------------------------------------------------------------
(* The steps of the desk.                                                  *)

(* Steps that leave orders and net positions alone. *)
LEMMA StillNarrows ==
    ASSUME TypeOK, orders' = orders,
           \A sym \in Symbols : positions'[sym].net_qty = positions[sym].net_qty
    PROVE  Narrows
  <1> SUFFICES ASSUME NEW sym \in Symbols
               PROVE  Highest(sym)' = Highest(sym) /\ Lowest(sym)' = Lowest(sym)
    <2>1. \A sym \in Symbols : Highest(sym) \in Int /\ Lowest(sym) \in Int
      BY ReachInt
    <2> QED
      BY <2>1 DEF Narrows
  <1>1. Resting(sym, "Buy")' = Resting(sym, "Buy")
        /\ Resting(sym, "Sell")' = Resting(sym, "Sell")
    BY DEF Resting, RestsOn
  <1> QED
    BY <1>1 DEF Highest, Lowest

(* A fill moves as much from what rests into the position. *)
LEMMA FillStep ==
    ASSUME TypeOK, NEW id \in OrderIds, NEW price \in Prices, NEW qty \in Quantities,
           MarketFill(id, price, qty)
    PROVE  /\ TypeOK'
           /\ Narrows /\ together' = together
           /\ OrdersWithinLimit => OrdersWithinLimit'
  <1>1. PICK o : o = orders[id]
    OBVIOUS
  <1>2. o \in Order /\ qty <= o.leaves /\ fills < MaxFills /\ o.leaves \in Nat
        /\ o.symbol \in Symbols /\ o.side \in Side
    <2>1. o \in Order /\ qty <= o.leaves /\ fills < MaxFills
      BY <1>1 DEF MarketFill, TypeOK
    <2> QED
      BY <2>1 DEF Order
  <1>3. qty \in Nat \ {0} /\ price \in Nat
    BY DeskAssumption
  <1>4. PICK pos : pos = positions[o.symbol]
    OBVIOUS
  <1>5. pos \in Position
    BY <1>2, <1>4 DEF TypeOK, PortfolioTypeOK
  <1> DEFINE p == Filled(pos, o.side, price, qty)
             d == CashFrom(pos, p, qty)
             rest == IF qty = o.leaves THEN NoOrder ELSE [o EXCEPT !.leaves = @ - qty]
  <1>6. p \in Position /\ d \in Int
        /\ p.net_qty = pos.net_qty + IF o.side = "Buy" THEN qty ELSE -qty
    BY <1>2, <1>3, <1>5, FillMoves
  <1>7. rest \in AnyOrder
    BY <1>2, <1>3 DEF AnyOrder, Order
  <1>8. \A sym, side : RestsOn(rest, sym, side)
            = RestsOn(o, sym, side) - IF o.symbol = sym /\ o.side = side THEN qty ELSE 0
    BY <1>2, <1>3 DEF RestsOn, Order, NoOrder
  <1>9. rest.leaves <= o.leaves
    BY <1>2, <1>3 DEF Order, NoOrder
  <1>10. /\ positions' = [positions EXCEPT ![o.symbol] = p]
         /\ cash' = cash + d
         /\ orders' = [orders EXCEPT ![id] = rest]
         /\ fills' = fills + 1
         /\ killed' = killed /\ checked' = checked /\ together' = together
    <2> DEFINE rpt == [symbol |-> o.symbol, side |-> o.side,
                       status |-> IF qty = o.leaves THEN "Filled" ELSE "PartiallyFilled",
                       exec_price |-> price, exec_qty |-> qty]
    <2>1. on_execution(rpt) /\ orders' = [orders EXCEPT ![id] = rest]
          /\ fills' = fills + 1 /\ killed' = killed /\ checked' = checked
          /\ together' = together
      BY <1>1 DEF MarketFill
    <2>2. is_fill(rpt)
      BY DEF is_fill
    <2>3. rpt.symbol = o.symbol /\ rpt.side = o.side /\ rpt.exec_price = price
          /\ rpt.exec_qty = qty
      OBVIOUS
    <2> HIDE DEF rpt, rest
    <2> QED
      BY <1>4, <2>1, <2>2, <2>3 DEF on_execution
  <1> HIDE DEF p, d, rest
  <1>11. TypeOK'
    <2>1. cash' \in Int /\ positions' \in [Symbols -> Position]
      BY <1>2, <1>6, <1>10 DEF TypeOK, PortfolioTypeOK
    <2>2. orders' \in [OrderIds -> Order \cup {NoOrder}]
      BY <1>7, <1>10 DEF TypeOK, AnyOrder
    <2>3. fills' \in 0 .. MaxFills
      BY <1>2, <1>10, DeskAssumption DEF TypeOK
    <2> QED
      BY <1>10, <2>1, <2>2, <2>3 DEF TypeOK, PortfolioTypeOK
  <1>12. Narrows
    <2> SUFFICES ASSUME NEW sym \in Symbols
                 PROVE  Highest(sym)' <= Highest(sym) /\ Lowest(sym)' >= Lowest(sym)
      BY DEF Narrows
    <2> DEFINE moved(side) == IF o.symbol = sym /\ o.side = side THEN qty ELSE 0
    <2>1. ASSUME NEW side \in Side
          PROVE  Resting(sym, side)' = Resting(sym, side) - moved(side)
      <3>1. Resting(sym, side)' = Resting(sym, side)
                + (RestsOn(rest, sym, side) - RestsOn(o, sym, side))
        BY <1>1, <1>7, <1>10, RestingChanges
      <3>2. RestsOn(rest, sym, side) = RestsOn(o, sym, side) - moved(side)
        BY <1>8
      <3>3. Resting(sym, side) \in Nat
        BY RestingNat
      <3>4. RestsOn(o, sym, side) \in Nat
        BY <1>2, RestsOnBounds DEF AnyOrder
      <3>5. moved(side) \in Nat
        BY <1>3
      <3> QED
        BY <3>1, <3>2, <3>3, <3>4, <3>5
    <2>2. positions'[sym].net_qty = positions[sym].net_qty + moved("Buy") - moved("Sell")
      <3>1. CASE sym = o.symbol
        <4>1. positions'[sym] = p
          BY <1>10, <3>1 DEF TypeOK, PortfolioTypeOK
        <4>2. positions[sym].net_qty = pos.net_qty /\ pos.net_qty \in Int
          BY <1>4, <1>5, <3>1 DEF Position
        <4> QED
          BY <1>2, <1>3, <1>6, <3>1, <4>1, <4>2 DEF Side
      <3>2. CASE sym # o.symbol
        <4>1. positions'[sym] = positions[sym]
          BY <1>10, <3>2 DEF TypeOK, PortfolioTypeOK
        <4>2. positions[sym].net_qty \in Int
          BY DEF TypeOK, PortfolioTypeOK, Position
        <4> QED
          BY <3>2, <4>1, <4>2
      <3> QED
        BY <3>1, <3>2
    <2>3. Resting(sym, "Buy")' = Resting(sym, "Buy") - moved("Buy")
          /\ Resting(sym, "Sell")' = Resting(sym, "Sell") - moved("Sell")
      BY <2>1 DEF Side
    <2>4. moved("Buy") \in Nat /\ moved("Sell") \in Nat
      BY <1>3
    <2>5. positions[sym].net_qty \in Int /\ Resting(sym, "Buy") \in Nat
          /\ Resting(sym, "Sell") \in Nat
      BY ReachInt
    <2> HIDE DEF moved
    <2>6. Highest(sym)' = positions'[sym].net_qty + Resting(sym, "Buy")'
          /\ Lowest(sym)' = positions'[sym].net_qty - Resting(sym, "Sell")'
      BY DEF Highest, Lowest
    <2>7. Highest(sym) = positions[sym].net_qty + Resting(sym, "Buy")
          /\ Lowest(sym) = positions[sym].net_qty - Resting(sym, "Sell")
      BY DEF Highest, Lowest
    <2> QED
      BY <2>2, <2>3, <2>4, <2>5, <2>6, <2>7
  <1>13. ASSUME OrdersWithinLimit PROVE OrdersWithinLimit'
    <2> SUFFICES ASSUME MaxOrderSize > 0, NEW i \in OrderIds
                 PROVE  orders'[i].leaves <= MaxOrderSize
      BY DEF OrdersWithinLimit
    <2>1. orders[i].leaves <= MaxOrderSize /\ o.leaves <= MaxOrderSize
      BY <1>1, <1>13 DEF OrdersWithinLimit
    <2>2. rest.leaves \in Nat
      BY <1>7, RestsOnBounds
    <2>3. orders'[i] = IF i = id THEN rest ELSE orders[i]
      BY <1>10 DEF TypeOK
    <2> QED
      BY <1>2, <1>9, <2>1, <2>2, <2>3, LimitsAssumption
  <1> QED
    BY <1>10, <1>11, <1>12, <1>13

(* A cancel takes an order out and moves nothing. *)
LEMMA CancelStep ==
    ASSUME TypeOK, NEW id \in OrderIds, Cancel(id)
    PROVE  /\ TypeOK'
           /\ Narrows /\ together' = together
           /\ OrdersWithinLimit => OrdersWithinLimit'
  <1>1. /\ UNCHANGED <<cash, positions, killed, checked, fills, together>>
        /\ orders' = [orders EXCEPT ![id] = NoOrder]
    BY DEF Cancel, on_execution, is_fill, portfolioVars
  <1>2. NoOrder \in AnyOrder /\ orders[id] \in AnyOrder
    BY DEF AnyOrder, TypeOK
  <1>3. TypeOK'
    BY <1>1 DEF TypeOK, PortfolioTypeOK
  <1>4. Narrows
    <2> SUFFICES ASSUME NEW sym \in Symbols
                 PROVE  Highest(sym)' <= Highest(sym) /\ Lowest(sym)' >= Lowest(sym)
      BY DEF Narrows
    <2>1. ASSUME NEW side
          PROVE  Resting(sym, side)' <= Resting(sym, side) /\ Resting(sym, side)' \in Nat
      <3>1. Resting(sym, side)' = Resting(sym, side)
                + (RestsOn(NoOrder, sym, side) - RestsOn(orders[id], sym, side))
        BY <1>1, <1>2, RestingChanges
      <3>2. RestsOn(NoOrder, sym, side) = 0
        BY DEF RestsOn, NoOrder
      <3>3. Resting(sym, side) \in Nat /\ RestsOn(orders[id], sym, side) \in Nat
        BY <1>2, RestingNat, RestsOnBounds
      <3>4. Resting(sym, side)' \in Nat
        BY <1>3, RestingNatNext
      <3> QED
        BY <3>1, <3>2, <3>3, <3>4
    <2>2. positions[sym].net_qty \in Int /\ Resting(sym, "Buy") \in Nat
          /\ Resting(sym, "Sell") \in Nat
      BY ReachInt
    <2>3. Highest(sym)' = positions[sym].net_qty + Resting(sym, "Buy")'
          /\ Lowest(sym)' = positions[sym].net_qty - Resting(sym, "Sell")'
      BY <1>1 DEF Highest, Lowest
    <2>4. Highest(sym) = positions[sym].net_qty + Resting(sym, "Buy")
          /\ Lowest(sym) = positions[sym].net_qty - Resting(sym, "Sell")
      BY DEF Highest, Lowest
    <2> QED
      BY <2>1, <2>2, <2>3, <2>4
  <1>5. ASSUME OrdersWithinLimit PROVE OrdersWithinLimit'
    <2>1. \A i \in OrderIds : orders'[i] = IF i = id THEN NoOrder ELSE orders[i]
      BY <1>1 DEF TypeOK
    <2>2. NoOrder.leaves = 0
      BY DEF NoOrder
    <2> QED
      BY <1>5, <2>1, <2>2, LimitsAssumption DEF OrdersWithinLimit
  <1> QED
    BY <1>1, <1>3, <1>4, <1>5

(* A mark moves no position. *)
LEMMA MarkStep ==
    ASSUME TypeOK, NEW sym \in Symbols, NEW price \in Prices, MarkToMarket(sym, price)
    PROVE  TypeOK' /\ Narrows /\ together' = together
  <1>1. PICK pos : pos = positions[sym]
    OBVIOUS
  <1> DEFINE m == Marked(pos, price)
  <1>2. pos \in Position /\ price \in Nat
    BY <1>1, DeskAssumption DEF TypeOK, PortfolioTypeOK
  <1>3. m \in Position /\ m.net_qty = pos.net_qty
    BY <1>2, MarkedFields
  <1>4. /\ positions' = [positions EXCEPT ![sym] = m]
        /\ UNCHANGED <<cash, killed, orders, checked, fills, together>>
    BY <1>1 DEF MarkToMarket, update_m2m
  <1> HIDE DEF m
  <1>5. TypeOK'
    BY <1>3, <1>4 DEF TypeOK, PortfolioTypeOK
  <1>6. \A z \in Symbols : positions'[z].net_qty = positions[z].net_qty
    BY <1>1, <1>3, <1>4 DEF TypeOK, PortfolioTypeOK
  <1>7. Narrows
    BY <1>4, <1>6, StillNarrows
  <1> QED
    BY <1>4, <1>5, <1>7

(* A refused order changes only the switch and the record of the check. *)
LEMMA RefusedStep ==
    ASSUME TypeOK, NEW req \in OrderRequest, NEW id \in OrderIds,
           NEW reason \in RiskRejectReason, Route(req, id, reason), reason # "None"
    PROVE  /\ TypeOK'
           /\ Narrows /\ together' = together
           /\ OrdersWithinLimit => OrdersWithinLimit'
  <1>1. /\ UNCHANGED <<cash, positions, orders, fills, together>>
        /\ killed' = (killed \/ reason = "MaxLoss")
        /\ checked' = [reason |-> reason, breached |-> LossBreached]
    BY DEF Route, check_pre_trade
  <1>2. LossBreached \in BOOLEAN
    BY LimitsAssumption DEF LossBreached
  <1>3. checked' \in [reason : RiskRejectReason, breached : BOOLEAN] /\ killed' \in BOOLEAN
    BY <1>1, <1>2
  <1>4. TypeOK'
    BY <1>1, <1>3 DEF TypeOK, PortfolioTypeOK
  <1>5. Narrows
    BY <1>1, StillNarrows
  <1> QED
    BY <1>1, <1>4, <1>5 DEF OrdersWithinLimit

(* What the approval of an order says. *)
LEMMA ApprovalMeans ==
    ASSUME TypeOK, NEW req \in OrderRequest, Reason(req) = "None"
    PROVE  /\ ~ killed
           /\ ~ LossBreached
           /\ MaxOrderSize > 0 => req.qty <= MaxOrderSize
           /\ Limited => LET pos == expected_pos(req)
                         IN  pos <= MaxPositionPerSymbol /\ pos >= -MaxPositionPerSymbol
  <1>1. ~ killed /\ ~ TooLarge(req) /\ ~ LossBreached /\ ~ PositionBreached(req)
    BY DEF Reason
  <1>2. req.qty \in Nat /\ req.symbol \in Symbols
    BY DeskAssumption DEF OrderRequest
  <1>3. positions[req.symbol].net_qty \in Int
    BY <1>2 DEF TypeOK, PortfolioTypeOK, Position
  <1>4. expected_pos(req) \in Int
    BY <1>2, <1>3 DEF expected_pos
  <1>5. MaxOrderSize > 0 => req.qty <= MaxOrderSize
    BY <1>1, <1>2, LimitsAssumption DEF TooLarge
  <1>6. Limited => ~ (Abs(expected_pos(req)) > MaxPositionPerSymbol)
    BY <1>1 DEF PositionBreached, Limited
  <1>7. Limited => /\ expected_pos(req) <= MaxPositionPerSymbol
                   /\ expected_pos(req) >= -MaxPositionPerSymbol
    BY <1>4, <1>6, LimitsAssumption DEF Abs
  <1> QED
    BY <1>1, <1>5, <1>7

(* An approved order rests; the exposure it adds was checked, that of the  *)
(* orders already resting was not.                                         *)
LEMMA ApprovedStep ==
    ASSUME TypeOK, NEW req \in OrderRequest, NEW id \in OrderIds,
           Route(req, id, "None")
    PROVE  /\ TypeOK'
           /\ OrdersWithinLimit => OrdersWithinLimit'
           /\ (OrdersWithinLimit /\ ExposureBounded) => ExposureBounded'
  <1>1. PICK o : o = [symbol |-> req.symbol, side |-> req.side, leaves |-> req.qty]
    OBVIOUS
  <1>2. req.symbol \in Symbols /\ req.side \in Side /\ req.qty \in Nat \ {0}
    BY DeskAssumption DEF OrderRequest
  <1>3. o \in Order /\ o \in AnyOrder /\ o.leaves = req.qty
        /\ o.symbol = req.symbol /\ o.side = req.side
    BY <1>1, <1>2 DEF Order, AnyOrder
  <1>4. /\ orders[id] = NoOrder
        /\ Reason(req) = "None"
        /\ UNCHANGED <<cash, positions, fills>>
        /\ killed' = killed
        /\ checked' = [reason |-> "None", breached |-> LossBreached]
        /\ orders' = [orders EXCEPT ![id] = o]
        /\ together' = IF Cardinality(Alongside(req)) > together
                       THEN Cardinality(Alongside(req)) ELSE together
    BY <1>1 DEF Route, check_pre_trade, TypeOK
  <1>5. LossBreached \in BOOLEAN /\ "None" \in RiskRejectReason
    BY LimitsAssumption DEF LossBreached, RiskRejectReason
  <1>6. checked' \in [reason : RiskRejectReason, breached : BOOLEAN]
    BY <1>4, <1>5
  <1>t. /\ together \in Nat /\ together' \in Nat
        /\ together <= together' /\ Cardinality(Alongside(req)) <= together'
    BY <1>4, AlongsideFinite DEF TypeOK
  <1>7. TypeOK'
    BY <1>3, <1>4, <1>6, <1>t DEF TypeOK, PortfolioTypeOK
  <1>8. MaxOrderSize > 0 => req.qty <= MaxOrderSize
    BY <1>4, ApprovalMeans
  <1>9. ASSUME OrdersWithinLimit PROVE OrdersWithinLimit'
    <2>1. \A i \in OrderIds : orders'[i] = IF i = id THEN o ELSE orders[i]
      BY <1>4 DEF TypeOK
    <2> QED
      BY <1>3, <1>8, <1>9, <2>1 DEF OrdersWithinLimit
  <1>10. ASSUME OrdersWithinLimit, ExposureBounded PROVE ExposureBounded'
    <2> DEFINE before == together * MaxOrderSize
               over == together' * MaxOrderSize
    <2> SUFFICES ASSUME Limited, NEW sym \in Symbols
                 PROVE  /\ Highest(sym)' <= MaxPositionPerSymbol + over
                        /\ Lowest(sym)' >= -(MaxPositionPerSymbol + over)
      BY DEF ExposureBounded, Limited
    <2> DEFINE net == positions[sym].net_qty
    <2>1. /\ before \in Nat /\ over \in Nat /\ before <= over
          /\ MaxPositionPerSymbol \in Nat
      <3>1. before \in Nat /\ over \in Nat
        BY <1>t, OvershootNat
      <3>2. MaxOrderSize \in Nat /\ MaxPositionPerSymbol \in Nat
        BY LimitsAssumption
      <3>3. \A m, n \in Nat : m <= n => m * MaxOrderSize <= n * MaxOrderSize
        BY <3>2, TimesMonotone
      <3>4. before <= over
        BY <1>t, <3>3, Zenon
      <3> QED
        BY <3>1, <3>2, <3>4
    <2>2. Highest(sym) <= MaxPositionPerSymbol + before
          /\ Lowest(sym) >= -(MaxPositionPerSymbol + before)
      BY <1>10 DEF ExposureBounded
    <2>3. ASSUME NEW side
          PROVE  /\ Resting(sym, side) \in Nat
                 /\ Resting(sym, side)' = Resting(sym, side) + RestsOn(o, sym, side)
      <3>1. RestsOn(orders[id], sym, side) = 0
        BY <1>4 DEF RestsOn, NoOrder
      <3>2. Resting(sym, side) \in Nat /\ RestsOn(o, sym, side) \in Nat
        BY <1>3, RestingNat, RestsOnBounds
      <3>3. Resting(sym, side)' = Resting(sym, side)
                + (RestsOn(o, sym, side) - RestsOn(orders[id], sym, side))
        <4>1. o \in AnyOrder /\ orders' = [orders EXCEPT ![id] = o]
          BY <1>3, <1>4
        <4> QED
          BY <4>1, RestingChanges
      <3>4. Resting(sym, side)' = Resting(sym, side) + RestsOn(o, sym, side)
        BY <3>1, <3>2, <3>3
      <3> QED
        BY <3>2, <3>4
    <2>c. Resting(req.symbol, req.side) <= over
      <3> DEFINE n == Cardinality(Alongside(req))
      <3>1. n \in Nat /\ n * MaxOrderSize <= over
        BY <1>t, AlongsideFinite, TimesMonotone, LimitsAssumption
      <3>2. Resting(req.symbol, req.side) <= n * MaxOrderSize
        BY <1>10, RestingAlongside DEF Limited
      <3>3. n * MaxOrderSize \in Nat
        BY <3>1, OvershootNat
      <3>4. Resting(req.symbol, req.side) \in Nat
        BY RestingNat
      <3> HIDE DEF over, n
      <3> QED
        BY <2>1, <3>1, <3>2, <3>3, <3>4
    <2> HIDE DEF over, before
    <2>4. net \in Int
      BY ReachInt
    <2>5. expected_pos(req) <= MaxPositionPerSymbol
          /\ expected_pos(req) >= -MaxPositionPerSymbol
      BY <1>4, ApprovalMeans
    <2>6. Highest(sym)' = net + Resting(sym, "Buy")'
          /\ Lowest(sym)' = net - Resting(sym, "Sell")'
      BY <1>4 DEF Highest, Lowest
    <2>7. Highest(sym) = net + Resting(sym, "Buy")
          /\ Lowest(sym) = net - Resting(sym, "Sell")
      BY DEF Highest, Lowest
    <2>8. Highest(sym)' <= MaxPositionPerSymbol + over
      <3>1. CASE o.symbol = sym /\ o.side = "Buy"
        <4>1. net + req.qty <= MaxPositionPerSymbol
          BY <1>3, <2>5, <3>1 DEF expected_pos
        <4>2. RestsOn(o, sym, "Buy") = req.qty /\ Resting(sym, "Buy") <= over
          BY <1>3, <2>c, <3>1 DEF RestsOn
        <4> HIDE DEF net
        <4> QED
          BY <1>2, <2>1, <2>3, <2>4, <2>6, <4>1, <4>2
      <3>2. CASE ~ (o.symbol = sym /\ o.side = "Buy")
        <4>1. RestsOn(o, sym, "Buy") = 0
          BY <3>2 DEF RestsOn
        <4> HIDE DEF net
        <4> QED
          BY <2>1, <2>2, <2>3, <2>4, <2>6, <2>7, <4>1
      <3> QED
        BY <3>1, <3>2
    <2>9. Lowest(sym)' >= -(MaxPositionPerSymbol + over)
      <3>1. CASE o.symbol = sym /\ o.side = "Sell"
        <4>1. net - req.qty >= -MaxPositionPerSymbol
          BY <1>3, <2>5, <3>1 DEF expected_pos
        <4>2. RestsOn(o, sym, "Sell") = req.qty /\ Resting(sym, "Sell") <= over
          BY <1>3, <2>c, <3>1 DEF RestsOn
        <4> HIDE DEF net
        <4> QED
          BY <1>2, <2>1, <2>3, <2>4, <2>6, <4>1, <4>2
      <3>2. CASE ~ (o.symbol = sym /\ o.side = "Sell")
        <4>1. RestsOn(o, sym, "Sell") = 0
          BY <3>2 DEF RestsOn
        <4> HIDE DEF net
        <4> QED
          BY <2>1, <2>2, <2>3, <2>4, <2>6, <2>7, <4>1
      <3> QED
        BY <3>1, <3>2
    <2> QED
      BY <2>8, <2>9
  <1> QED
    BY <1>7, <1>9, <1>10

-----------------------------------------------------------------------------
(* The inductive invariant.                                                *)

(* A desk with no orders and no positions satisfies it. *)
LEMMA DeskInvInit == Init => DeskInv
  <1> SUFFICES ASSUME Init PROVE DeskInv
    OBVIOUS
  <1>1. EmptyPosition \in Position /\ EmptyPosition.net_qty = 0
    BY DEF EmptyPosition, Position
  <1>2. TypeOK
    <2>1. PortfolioTypeOK
      BY <1>1, FeeAssumption DEF Init, PortfolioInit, PortfolioTypeOK
    <2>2. killed \in BOOLEAN
      BY DEF Init, RiskInit
    <2>3. orders \in [OrderIds -> Order \cup {NoOrder}]
      BY DEF Init
    <2>4. checked \in [reason : RiskRejectReason, breached : BOOLEAN]
      BY DEF Init, RiskRejectReason
    <2>5. fills \in 0 .. MaxFills
      BY DeskAssumption DEF Init
    <2>6. together \in Nat
      BY DEF Init
    <2> QED
      BY <2>1, <2>2, <2>3, <2>4, <2>5, <2>6 DEF TypeOK
  <1>3. OrdersWithinLimit
    BY LimitsAssumption DEF Init, OrdersWithinLimit, NoOrder
  <1>4. ExposureBounded
    <2> SUFFICES ASSUME Limited, NEW sym \in Symbols
                 PROVE  /\ Highest(sym) <= MaxPositionPerSymbol
                        /\ Lowest(sym) >= -MaxPositionPerSymbol
      <3>1. together * MaxOrderSize = 0
        BY LimitsAssumption DEF Init
      <3> QED
        BY <3>1, LimitsAssumption DEF ExposureBounded
    <2>1. ASSUME NEW side \in Side
          PROVE  Resting(sym, side) = 0
      <3> DEFINE req == [symbol |-> sym, side |-> side]
      <3>1. Alongside(req) = {}
        BY DEF Init, Alongside, NoOrder, Side
      <3>2. Cardinality(Alongside(req)) = 0
        BY <3>1, FS_EmptySet
      <3>3. Resting(sym, side) <= 0
        <4>1. Resting(req.symbol, req.side) <= Cardinality(Alongside(req)) * MaxOrderSize
          BY <1>2, <1>3, RestingAlongside DEF Limited
        <4> QED
          BY <3>2, <4>1, LimitsAssumption
      <3>4. Resting(sym, side) \in Nat
        BY <1>2, RestingNat
      <3> QED
        BY <3>3, <3>4
    <2>2. positions[sym].net_qty = 0
      BY <1>1 DEF Init, PortfolioInit
    <2> QED
      BY <2>1, <2>2, LimitsAssumption DEF Highest, Lowest, Side
  <1>5. LossTripsKillSwitch
    BY DEF Init, LossTripsKillSwitch
  <1> QED
    BY <1>2, <1>3, <1>4, <1>5 DEF DeskInv

(* A check that finds the loss past the limit trips the switch, and no     *)
(* step resets it.                                                         *)
LEMMA SwitchStep ==
    ASSUME TypeOK, LossTripsKillSwitch, [Next]_vars
    PROVE  /\ killed => killed'
           /\ LossTripsKillSwitch'
  <1>1. ASSUME NEW req \in OrderRequest, NEW id \in OrderIds,
               NEW reason \in RiskRejectReason, Route(req, id, reason)
        PROVE  (killed => killed') /\ LossTripsKillSwitch'
    <2>1. /\ reason = Reason(req)
          /\ killed' = (killed \/ reason = "MaxLoss")
          /\ checked' = [reason |-> reason, breached |-> LossBreached]
      BY <1>1 DEF Route, check_pre_trade
    <2>2. killed' <=> (killed \/ reason = "MaxLoss")
      BY <2>1
    <2>3. LossBreached => killed \/ reason = "MaxOrderSize" \/ reason = "MaxLoss"
      BY <2>1 DEF Reason
    <2>4. checked'.reason = reason /\ checked'.breached = LossBreached
      BY <2>1
    <2>5. checked'.breached => LossBreached
      BY <2>4
    <2> QED
      BY <2>2, <2>3, <2>4, <2>5 DEF LossTripsKillSwitch
  <1>2. ASSUME killed' = killed, checked' = checked
        PROVE  (killed => killed') /\ LossTripsKillSwitch'
    BY <1>2 DEF LossTripsKillSwitch
  <1>3. ASSUME NEW id \in OrderIds, NEW price \in Prices, NEW qty \in Quantities,
               MarketFill(id, price, qty)
        PROVE  killed' = killed /\ checked' = checked
    BY <1>3 DEF MarketFill
  <1>4. ASSUME NEW id \in OrderIds, Cancel(id)
        PROVE  killed' = killed /\ checked' = checked
    BY <1>4 DEF Cancel
  <1>5. ASSUME NEW sym \in Symbols, NEW price \in Prices, MarkToMarket(sym, price)
        PROVE  killed' = killed /\ checked' = checked
    BY <1>5 DEF MarkToMarket
  <1>6. CASE Kill
    BY <1>6 DEF Kill, trigger_kill_switch, LossTripsKillSwitch
  <1>7. CASE UNCHANGED vars
    BY <1>2, <1>7 DEF vars
  <1> QED
    BY <1>1, <1>2, <1>3, <1>4, <1>5, <1>6, <1>7 DEF Next

(* Every step but the approval of an order narrows the exposure. *)
LEMMA OtherSteps ==
    ASSUME TypeOK, [Next]_vars,
           ~ \E req \in OrderRequest, id \in OrderIds : Route(req, id, "None")
    PROVE  /\ TypeOK'
           /\ Narrows /\ together' = together
           /\ OrdersWithinLimit => OrdersWithinLimit'
  <1>1. ASSUME NEW req \in OrderRequest, NEW id \in OrderIds,
               NEW reason \in RiskRejectReason, Route(req, id, reason)
        PROVE  /\ TypeOK' /\ Narrows /\ together' = together
               /\ OrdersWithinLimit => OrdersWithinLimit'
    <2>1. reason # "None"
      BY <1>1
    <2> QED
      BY <1>1, <2>1, RefusedStep
  <1>2. ASSUME NEW id \in OrderIds, NEW price \in Prices, NEW qty \in Quantities,
               MarketFill(id, price, qty)
        PROVE  /\ TypeOK' /\ Narrows /\ together' = together
               /\ OrdersWithinLimit => OrdersWithinLimit'
    BY <1>2, FillStep
  <1>3. ASSUME NEW id \in OrderIds, Cancel(id)
        PROVE  /\ TypeOK' /\ Narrows /\ together' = together
               /\ OrdersWithinLimit => OrdersWithinLimit'
    BY <1>3, CancelStep
  <1>4. ASSUME NEW sym \in Symbols, NEW price \in Prices, MarkToMarket(sym, price)
        PROVE  /\ TypeOK' /\ Narrows /\ together' = together
               /\ OrdersWithinLimit => OrdersWithinLimit'
    <2>1. orders' = orders
      BY <1>4 DEF MarkToMarket
    <2> QED
      BY <1>4, <2>1, MarkStep DEF OrdersWithinLimit
  <1>5. ASSUME UNCHANGED <<cash, positions, orders, checked, fills, together>>,
               killed' \in BOOLEAN
        PROVE  /\ TypeOK' /\ Narrows /\ together' = together
               /\ OrdersWithinLimit => OrdersWithinLimit'
    <2>1. TypeOK'
      BY <1>5 DEF TypeOK, PortfolioTypeOK
    <2>2. Narrows
      BY <1>5, StillNarrows
    <2> QED
      BY <1>5, <2>1, <2>2 DEF OrdersWithinLimit
  <1>6. CASE Kill
    BY <1>5, <1>6 DEF Kill, trigger_kill_switch
  <1>7. CASE UNCHANGED vars
    BY <1>5, <1>7 DEF vars, TypeOK
  <1> QED
    BY <1>1, <1>2, <1>3, <1>4, <1>6, <1>7 DEF Next

(* Every step of the desk preserves the invariant. *)
LEMMA DeskInvStep == DeskInv /\ [Next]_vars => DeskInv'
  <1> SUFFICES ASSUME DeskInv, [Next]_vars PROVE DeskInv'
    OBVIOUS
  <1>1. TypeOK /\ OrdersWithinLimit /\ ExposureBounded /\ LossTripsKillSwitch
    BY DEF DeskInv
  <1>2. LossTripsKillSwitch'
    BY <1>1, SwitchStep
  <1>3. ASSUME NEW req \in OrderRequest, NEW id \in OrderIds, Route(req, id, "None")
        PROVE  TypeOK' /\ OrdersWithinLimit' /\ ExposureBounded'
    BY <1>1, <1>3, ApprovedStep
  <1>4. CASE ~ \E req \in OrderRequest, id \in OrderIds : Route(req, id, "None")
    <2>1. TypeOK' /\ Narrows /\ OrdersWithinLimit' /\ together' = together
      BY <1>1, <1>4, OtherSteps
    <2>2. ExposureBounded'
      BY <1>1, <2>1, NarrowsWithinBound
    <2> QED
      BY <1>2, <2>1, <2>2 DEF DeskInv
  <1> QED
    BY <1>2, <1>3, <1>4 DEF DeskInv

-----------------------------------------------------------------------------
(* The theorems.                                                           *)

(* Every reachable state satisfies the inductive invariant. *)
THEOREM DeskInvariant == Spec => []DeskInv
  BY DeskInvInit, DeskInvStep, PTL DEF Spec

(* Every variable of the desk keeps its type. *)
THEOREM DeskTypeCorrect == Spec => []TypeOK
  <1>1. DeskInv => TypeOK
    BY DEF DeskInv
  <1> QED
    BY <1>1, DeskInvariant, PTL

(* However checks, partial fills and cancels interleave, check_pre_trade   *)
(* keeps the reach of every position within its limit and one full order   *)
(* for each order that rested beside another when that was approved.       *)
THEOREM ExposureIsBounded == Spec => []ExposureBounded
  <1>1. DeskInv => ExposureBounded
    BY DEF DeskInv
  <1> QED
    BY <1>1, DeskInvariant, PTL

(* A check_pre_trade that finds the loss past max_loss leaves the kill     *)
(* switch tripped, unless max_order_size turned the order away first.      *)
THEOREM LossStopsTrading == Spec => []LossTripsKillSwitch
  <1>1. DeskInv => LossTripsKillSwitch
    BY DEF DeskInv
  <1> QED
    BY <1>1, DeskInvariant, PTL

(* However many orders the desk has, check_pre_trade leaves a position     *)
(* without an order that reduces it only after the desk has sent a third   *)
(* order while two others rested on the same side.                         *)
THEOREM LockInNeedsThree == Spec => []LockInTakesThree
  <1>1. DeskInv => LockInTakesThree
    <2> SUFFICES ASSUME DeskInv, Limited, 1 .. MaxOrderSize \subseteq Quantities,
                        ~ killed, ~ LossBreached,
                        NEW sym \in Symbols, positions[sym].net_qty # 0, together < 2
                 PROVE  CanReduce(sym)
      BY DEF LockInTakesThree, DeskInv, TypeOK
    <2> DEFINE net == positions[sym].net_qty
               side == IF net > 0 THEN "Sell" ELSE "Buy"
               qty == IF Abs(net) < MaxOrderSize THEN Abs(net) ELSE MaxOrderSize
               req == [symbol |-> sym, side |-> side, qty |-> qty]
    <2>1. net \in Int /\ Resting(sym, "Buy") \in Nat /\ Resting(sym, "Sell") \in Nat
      BY ReachInt DEF DeskInv
    <2>2. MaxOrderSize \in Nat /\ MaxOrderSize > 0 /\ MaxPositionPerSymbol \in Nat
          /\ MaxPositionPerSymbol > 0
      BY LimitsAssumption DEF Limited
    <2> DEFINE over == together * MaxOrderSize
    <2>3. over \in Nat /\ over <= MaxOrderSize
      <3>1. together = 0 \/ together = 1
        BY DEF DeskInv, TypeOK
      <3> QED
        BY <2>2, <3>1
    <2>4. Highest(sym) <= MaxPositionPerSymbol + over
          /\ Lowest(sym) >= -(MaxPositionPerSymbol + over)
      BY DEF DeskInv, ExposureBounded
    <2>5. Highest(sym) = net + Resting(sym, "Buy") /\ Lowest(sym) = net - Resting(sym, "Sell")
      BY DEF Highest, Lowest
    <2>6. net # 0
      OBVIOUS
    <2> HIDE DEF net, over
    <2>7. net <= MaxPositionPerSymbol + MaxOrderSize
          /\ net >= -(MaxPositionPerSymbol + MaxOrderSize)
      BY <2>1, <2>2, <2>3, <2>4, <2>5
    <2>8. Abs(net) \in Nat /\ qty \in 1 .. MaxOrderSize
      BY <2>1, <2>2, <2>6 DEF Abs
    <2>9. req \in OrderRequest /\ req.symbol = sym /\ req.qty = qty /\ req.side = side
      BY <2>8 DEF OrderRequest, Side
    <2>10. expected_pos(req) = IF net > 0 THEN net - qty ELSE net + qty
      BY <2>9 DEF expected_pos, net
    <2> HIDE DEF req
    <2>11. Abs(expected_pos(req)) < Abs(net)
      BY <2>1, <2>2, <2>6, <2>10 DEF Abs
    <2>12. ~ (Abs(expected_pos(req)) > MaxPositionPerSymbol)
      BY <2>1, <2>2, <2>7, <2>10 DEF Abs
    <2>13. ~ TooLarge(req)
      BY <2>2, <2>8, <2>9 DEF TooLarge
    <2>14. ~ PositionBreached(req)
      BY <2>12 DEF PositionBreached
    <2>15. Reason(req) = "None"
      BY <2>13, <2>14 DEF Reason
    <2> QED
      BY <2>9, <2>11, <2>15 DEF net, CanReduce
  <1> QED
    BY <1>1, DeskInvariant, PTL

(* Once the kill switch is tripped, no step of the desk resets it or       *)
(* widens the range a position can reach.                                  *)
THEOREM KillSwitchWindsDown == Spec => KilledOnlyWindsDown
  <1> DEFINE Down == killed => /\ killed'
                               /\ \A sym \in Symbols : /\ Highest(sym)' <= Highest(sym)
                                                       /\ Lowest(sym)' >= Lowest(sym)
  <1>1. DeskInv /\ [Next]_vars => [Down]_vars
    <2> SUFFICES ASSUME DeskInv, [Next]_vars, killed
                 PROVE  killed' /\ Narrows
      BY DEF Narrows
    <2>1. TypeOK /\ LossTripsKillSwitch
      BY DEF DeskInv
    <2>2. killed'
      BY <2>1, SwitchStep
    <2>3. ~ \E req \in OrderRequest, id \in OrderIds : Route(req, id, "None")
      BY DEF Route, check_pre_trade, Reason
    <2>4. Narrows
      BY <2>1, <2>3, OtherSteps
    <2> QED
      BY <2>2, <2>4
  <1> QED
    BY <1>1, DeskInvariant, PTL DEF Spec, KilledOnlyWindsDown
=============================================================================
