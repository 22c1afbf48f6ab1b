---------------------------- MODULE RiskEngine -----------------------------
(***************************************************************************)
(* The RiskEngine (risk_engine.hpp, risk_engine.cpp): the pre-trade check  *)
(* and the kill switch.  The check reads the live Portfolio and changes    *)
(* only the switch.  RiskDesk composes it with orders that rest and fill.  *)
(***************************************************************************)
EXTENDS Portfolio

CONSTANTS
    MaxPositionPerSymbol,   \* RiskLimits::max_position_per_symbol, 0 = off
    MaxLoss,                \* RiskLimits::max_loss, 0 = off
    MaxOrderSize,           \* RiskLimits::max_order_size, 0 = off
    HasPortfolio            \* is portfolio_ not the null pointer?

ASSUME LimitsAssumption ==
    /\ MaxPositionPerSymbol \in Nat
    /\ MaxLoss \in Int
    /\ MaxOrderSize \in Nat
    /\ HasPortfolio \in BOOLEAN

VARIABLE killed   \* RiskEngine::killed_

RiskRejectReason == {"None", "MaxPosition", "MaxLoss", "MaxOrderSize", "KillSwitch"}

(* RiskEngine::RiskEngine *)
RiskInit == killed = FALSE

TooLarge(req) == MaxOrderSize > 0 /\ req.qty > MaxOrderSize

LossBreached == MaxLoss > 0 /\ HasPortfolio /\ total_pnl < -MaxLoss

(* The position if the order fills entirely; other resting orders do not   *)
(* count.                                                                  *)
expected_pos(req) ==
    LET net == positions[req.symbol].net_qty
    IN  IF req.side = "Buy" THEN net + req.qty ELSE net - req.qty

(* Mutant of PositionBreached: an order that reduces counts as one that    *)
(* adds.                                                                   *)
PositionBreachedEitherSide(req) ==
    /\ MaxPositionPerSymbol > 0
    /\ HasPortfolio
    /\ Abs(positions[req.symbol].net_qty) + req.qty > MaxPositionPerSymbol

PositionBreached(req) ==
    /\ MaxPositionPerSymbol > 0
    /\ HasPortfolio
    /\ Abs(expected_pos(req)) > MaxPositionPerSymbol

(* Mutants of Reason: without the position check ... *)
ReasonUnlimited(req) ==
    IF killed THEN "KillSwitch"
    ELSE IF TooLarge(req) THEN "MaxOrderSize"
    ELSE IF LossBreached THEN "MaxLoss"
    ELSE "None"

(* ... with the position check before the loss check ... *)
ReasonPositionFirst(req) ==
    IF killed THEN "KillSwitch"
    ELSE IF TooLarge(req) THEN "MaxOrderSize"
    ELSE IF PositionBreached(req) THEN "MaxPosition"
    ELSE IF LossBreached THEN "MaxLoss"
    ELSE "None"

(* ... and without the kill switch. *)
ReasonUnkilled(req) ==
    IF TooLarge(req) THEN "MaxOrderSize"
    ELSE IF LossBreached THEN "MaxLoss"
    ELSE IF PositionBreached(req) THEN "MaxPosition"
    ELSE "None"

(* The value check_pre_trade returns: the first check that fails decides.  *)
Reason(req) ==
    IF killed THEN "KillSwitch"
    ELSE IF TooLarge(req) THEN "MaxOrderSize"
    ELSE IF LossBreached THEN "MaxLoss"
    ELSE IF PositionBreached(req) THEN "MaxPosition"
    ELSE "None"

(* RiskEngine::check_pre_trade: a loss found trips the kill switch. *)
check_pre_trade(req, reason) ==
    /\ reason = Reason(req)
    /\ killed' = (killed \/ reason = "MaxLoss")

(* RiskEngine::trigger_kill_switch *)
trigger_kill_switch == killed' = TRUE
=============================================================================
