------------------------ MODULE PerformanceAnalytics ------------------------
(***************************************************************************)
(* The streaming performance figures (performance.cpp) and the summary     *)
(* that ReportGenerator prints of them (report.hpp).  update looks at the  *)
(* portfolio's total equity and keeps no history; seen is that history,    *)
(* which the figures are compared with.                                    *)
(*                                                                         *)
(* Equities are integers, as in the Portfolio: to_double only scales them. *)
(* Quotients are exact fractions in lowest terms: rounding is left out,    *)
(* but not what IEEE division by zero yields.  A fraction over 0 is an     *)
(* infinity, 0 over 0 is NaN, and Less compares them as the code does.     *)
(***************************************************************************)
EXTENDS Integers, Sequences, FiniteSets

CONSTANTS
    Equities,    \* values of Portfolio::total_equity
    Durations,   \* lengths of a backtest that a report is asked for
    Year,        \* nanoseconds in a year of 365.25 days
    MaxUpdates   \* bound: calls of update

ASSUME PerformanceAssumption ==
    /\ Equities \subseteq Int
    /\ Durations \subseteq Nat
    /\ Year \in Nat \ {0}
    /\ MaxUpdates \in Nat

VARIABLES
    initial_equity,   \* negative until an update has set it
    last_equity,
    peak_equity,
    max_dd,
    max_dd_pct,
    count,            \* of the returns that ...
    mean_return,      \* ... mean and
    m2,               \* sum of squared deviations are of
    seen              \* the equities of all updates so far

returnVars == <<count, mean_return, m2>>
vars == <<initial_equity, last_equity, peak_equity, max_dd, max_dd_pct, returnVars, seen>>

-----------------------------------------------------------------------------
(* Arithmetic of doubles.                                                   *)

gcd[p \in Nat \X Nat] ==
    IF p[2] = 0 THEN p[1] ELSE gcd[<<p[2], p[1] % p[2]>>]

AbsOf(n) == IF n < 0 THEN -n ELSE n

(* n / d *)
Ratio(n, d) ==
    LET g    == gcd[<<AbsOf(n), AbsOf(d)>>]
        sign == IF d < 0 THEN -1 ELSE 1
    IN  IF g = 0 THEN [num |-> 0, den |-> 0]
        ELSE [num |-> sign * (n \div g), den |-> AbsOf(d) \div g]

Zero == [num |-> 0, den |-> 1]
One == [num |-> 1, den |-> 1]

Plus(x, y) == Ratio(x.num * y.den + y.num * x.den, x.den * y.den)
Minus(x, y) == Ratio(x.num * y.den - y.num * x.den, x.den * y.den)
Times(x, y) == Ratio(x.num * y.num, x.den * y.den)
Over(x, y) == Ratio(x.num * y.den, x.den * y.num)

(* x < y, which is FALSE when either is NaN. *)
Less(x, y) == x.num * y.den < y.num * x.den

IsNumber(x) == x.den > 0

-----------------------------------------------------------------------------
Init ==
    /\ initial_equity = -1 /\ last_equity = 0 /\ peak_equity = 0
    /\ max_dd = 0 /\ max_dd_pct = Zero
    /\ count = 0 /\ mean_return = Zero /\ m2 = Zero
    /\ seen = <<>>

(* Mutant of Started: an account that starts with nothing starts again. *)
StartedWithCash == initial_equity > 0

(* Has an update set the initial equity? *)
Started == ~ (initial_equity < 0)

Start(equity) ==
    /\ initial_equity' = equity /\ last_equity' = equity /\ peak_equity' = equity
    /\ UNCHANGED <<max_dd, max_dd_pct, returnVars>>

(* A new peak, or a drawdown from the last one. *)
Drawdown(equity) ==
    LET dd     == peak_equity - equity
        dd_pct == Ratio(dd, peak_equity)
    IN  \/ /\ equity > peak_equity
           /\ peak_equity' = equity
           /\ UNCHANGED <<max_dd, max_dd_pct>>
        \/ /\ ~ (equity > peak_equity)
           /\ max_dd' = IF dd > max_dd THEN dd ELSE max_dd
           /\ max_dd_pct' = IF Less(max_dd_pct, dd_pct) THEN dd_pct ELSE max_dd_pct
           /\ UNCHANGED peak_equity

(* Mutant of AddReturn: the deviation is from the old mean both times. *)
AddReturnOldMean(ret) ==
    LET delta == Minus(ret, mean_return)
    IN  /\ count' = count + 1
        /\ mean_return' = Plus(mean_return, Over(delta, [num |-> count', den |-> 1]))
        /\ m2' = Plus(m2, Times(delta, delta))

(* Welford's step: the deviations from the mean before and after it. *)
AddReturn(ret) ==
    LET delta == Minus(ret, mean_return)
    IN  /\ count' = count + 1
        /\ mean_return' = Plus(mean_return, Over(delta, [num |-> count', den |-> 1]))
        /\ m2' = Plus(m2, Times(delta, Minus(ret, mean_return')))

(* Mutant of HasReturn: a return is taken of an equity of zero too. *)
HasReturnUnlessNegative == last_equity >= 0

HasReturn == last_equity > 0

(* PerformanceAnalytics::update *)
update(equity) ==
    /\ Len(seen) < MaxUpdates
    /\ seen' = Append(seen, equity)
    /\ \/ ~ Started /\ Start(equity)
       \/ /\ Started
          /\ Drawdown(equity)
          /\ \/ HasReturn /\ AddReturn(Ratio(equity - last_equity, last_equity))
             \/ ~ HasReturn /\ UNCHANGED returnVars
          /\ last_equity' = equity
          /\ UNCHANGED initial_equity

Next == \E equity \in Equities : update(equity)

Spec == Init /\ [][Next]_vars

-----------------------------------------------------------------------------
(* The figures that are asked for at any time.                              *)

(* sharpe_ratio, as its square with the sign of the mean: the root of the  *)
(* variance has no exact value.                                            *)
sharpe_ratio(risk_free_rate) ==
    LET variance == Over(m2, [num |-> count - 1, den |-> 1])
        excess   == Minus(mean_return, risk_free_rate)
    IN  IF count < 2 \/ m2 = Zero THEN Zero
        ELSE Over(Times(excess, [excess EXCEPT !.num = AbsOf(@)]), variance)

(* Mutant of total_return: zero is not excluded. *)
total_return_unguarded ==
    IF initial_equity < 0 THEN Zero
    ELSE Ratio(last_equity - initial_equity, initial_equity)

total_return ==
    IF initial_equity <= 0 THEN Zero
    ELSE Ratio(last_equity - initial_equity, initial_equity)

(* annualized_return, plus one: the power is not worked out. *)
annualized_return(duration_ns) ==
    IF duration_ns <= 0 \/ initial_equity <= 0
    THEN [base |-> One, exponent |-> One]
    ELSE [base |-> Ratio(last_equity, initial_equity), exponent |-> Ratio(Year, duration_ns)]

(* What std::pow of a number to a positive power can come out as.  Of a    *)
(* negative base it is NaN unless the exponent is whole.  It overflows to  *)
(* an infinity at the earliest when the base is more than one in size and  *)
(* the exponent is too; when exactly is a matter of the range of doubles,  *)
(* and left open.                                                          *)
PowKinds(p) ==
    {kind \in {"finite", "infinite", "NaN"} :
        /\ kind = "NaN" <=> p.base.num < 0 /\ p.exponent.den # 1
        /\ kind = "infinite" => /\ AbsOf(p.base.num) > p.base.den
                                /\ p.exponent.num > p.exponent.den}

(* ReportGenerator::generate_console_summary *)
generate_console_summary(duration_ns) ==
    [ret |-> total_return, ann_ret |-> annualized_return(duration_ns),
     dd |-> max_dd_pct, sharpe |-> sharpe_ratio(Zero)]

-----------------------------------------------------------------------------
Rational == [num : Int, den : Nat \ {0}]

(* Every variable has its type; in particular the mean and the deviations  *)
(* are numbers whatever the equities were.                                 *)
TypeOK ==
    /\ initial_equity \in Equities \cup {-1}
    /\ last_equity \in Equities \cup {0} /\ peak_equity \in Equities \cup {0}
    /\ max_dd \in Nat /\ max_dd_pct \in [num : Nat, den : Nat]
    /\ count \in Nat /\ mean_return \in Rational /\ m2 \in Rational
    /\ seen \in Seq(Equities)

(* The part of the history that is measured: a negative equity does not    *)
(* start the statistics, since it looks like no equity at all.             *)
Measured(i) == i \in 1 .. Len(seen) /\ \E j \in 1 .. i : seen[j] >= 0

(* The highest equity from the start of the measured part up to i. *)
IsPeak(p, i) ==
    /\ \E j \in 1 .. i : Measured(j) /\ seen[j] = p
    /\ \A j \in 1 .. i : Measured(j) => seen[j] <= p

(* The drawdown is the largest fall from any equity to any later one, and  *)
(* its percentage the largest of the falls from the peak of the time, as   *)
(* computed from the whole history that the code does not keep.            *)
DrawdownIsMaximal ==
    /\ \A i, j \in 1 .. Len(seen) :
        i <= j /\ Measured(i) => seen[i] - seen[j] <= max_dd
    /\ max_dd > 0 => \E i, j \in 1 .. Len(seen) :
        i <= j /\ Measured(i) /\ seen[i] - seen[j] = max_dd
    /\ \A j \in 1 .. Len(seen), p \in Equities :
        IsPeak(p, j) => ~ Less(max_dd_pct, Ratio(p - seen[j], p))
    /\ max_dd_pct # Zero => \E j \in 1 .. Len(seen), p \in Equities :
        IsPeak(p, j) /\ max_dd_pct = Ratio(p - seen[j], p)

(* When an equity is measured against a positive one before it, and the    *)
(* return that this makes.                                                 *)
ReturnTimes == {i \in 2 .. Len(seen) : Measured(i - 1) /\ seen[i - 1] > 0}

ReturnAt(i) == Ratio(seen[i] - seen[i - 1], seen[i - 1])

(* The sum of the f[i] with i up to n. *)
SumOf(f, n) ==
    LET sum[i \in 0 .. n] ==
            IF i = 0 THEN Zero
            ELSE IF i \in DOMAIN f THEN Plus(sum[i - 1], f[i]) ELSE sum[i - 1]
    IN  sum[n]

AllReturns == [i \in ReturnTimes |-> ReturnAt(i)]

Square(x) == Times(x, x)

SquaresFrom(c) == [i \in ReturnTimes |-> Square(Minus(ReturnAt(i), c))]

(* The one-pass Sharpe ratio is the textbook one: the mean of the returns  *)
(* over the root of their sample variance, and zero where that does not    *)
(* exist.                                                                  *)
SharpeMatchesReturns ==
    LET n        == Cardinality(ReturnTimes)
        mean     == Over(SumOf(AllReturns, Len(seen)), [num |-> n, den |-> 1])
        variance == Over(SumOf(SquaresFrom(mean), Len(seen)), [num |-> n - 1, den |-> 1])
    IN  sharpe_ratio(Zero) =
            IF n < 2 \/ variance = Zero THEN Zero
            ELSE Over(Times(mean, [mean EXCEPT !.num = AbsOf(@)]), variance)

(* While the account never was in debt, no NaN gets into its report, and   *)
(* no infinity from a division by a zero peak, initial equity or variance; *)
(* only the annualized return can be infinite, where a gain is scaled up   *)
(* from less than a year and std::pow overflows.  The account lost no more *)
(* than it had, and the loss of the return is never larger than the        *)
(* largest drawdown.                                                       *)
SolventReportIsSane ==
    (\A i \in 1 .. Len(seen) : seen[i] >= 0) =>
        \A duration \in Durations :
            LET report == generate_console_summary(duration)
            IN  /\ IsNumber(report.ret) /\ IsNumber(report.ann_ret.base)
                /\ IsNumber(report.dd) /\ IsNumber(report.sharpe)
                /\ "NaN" \notin PowKinds(report.ann_ret)
                /\ "infinite" \in PowKinds(report.ann_ret) =>
                        duration < Year /\ Less(Zero, report.ret)
                /\ ~ Less(One, report.dd)
                /\ ~ Less(Plus(report.ret, report.dd), Zero)
=============================================================================
