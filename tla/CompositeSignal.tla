-------------------------- MODULE CompositeSignal --------------------------
(***************************************************************************)
(* compute_composite_signal of app/core/analytics.py: four indicators are  *)
(* scored, weighted and corrected for risk, and the score becomes the      *)
(* recommendation that the agents are given and, if no model answers,      *)
(* repeat.  Scores are in twentieths of a point, which makes every         *)
(* weighted sum an integer and round(., 2) exact; indicators are the       *)
(* intervals that the code tells apart.  The snapshot that the function    *)
(* then saves of any result is the subject of SignalSnapshots.             *)
(***************************************************************************)
EXTENDS Integers

VARIABLES
    indicators,      \* what compute_indicators and the volatility query gave
    recommendation   \* "none" before the computation

signalVars == <<indicators, recommendation>>

Points == [
    sma |-> [BULLISH_GOLDEN_CROSS |-> 100, BULLISH_SHORT_CROSS |-> 75,
             NEUTRAL |-> 50, BEARISH_SHORT_CROSS |-> 25,
             BEARISH_DEATH_CROSS |-> 0],
    \* None, <= 30, up to 50, below 70, and from 70
    rsi |-> [none |-> 50, oversold |-> 90, weak |-> 50, firm |-> 70,
             overbought |-> 10],
    bb |-> [BELOW_LOWER |-> 90, WITHIN_BANDS |-> 50, ABOVE_UPPER |-> 10],
    \* >= 2, >= 1, >= 0, and below, after rounding to two decimals
    sharpe |-> [EXCELLENT |-> 100, GOOD |-> 75, SUBPAR |-> 50, NEGATIVE |-> 10]]

\* Without prices there is neither a Sharpe ratio nor a drawdown.
Risks ==
    {[sharpe |-> "none", drawdown |-> "none"]} \cup
    [sharpe: DOMAIN Points.sharpe, drawdown: {"mild", "over 35", "over 50"}]

Indicators == [sma: DOMAIN Points.sma, rsi: DOMAIN Points.rsi,
               bb: DOMAIN Points.bb, risk: Risks]

Recommendations == {"STRONG_BUY", "BUY", "NEUTRAL", "SELL", "STRONG_SELL"}

SignalTypeOK ==
    /\ indicators \in Indicators
    /\ recommendation \in Recommendations \cup {"none"}

SharpePoints(r) == IF r.sharpe = "none" THEN 50 ELSE Points.sharpe[r.sharpe]

\* 0.30, 0.25, 0.25 and 0.20, times 20
Weighted(i) ==
    6 * Points.sma[i.sma] + 5 * Points.rsi[i.rsi] + 5 * Points.bb[i.bb]
        + 4 * SharpePoints(i.risk)

AtMost(x, y) == IF x < y THEN x ELSE y
AtLeast(x, y) == IF x > y THEN x ELSE y

\* Mutant: the drawdown of more than 35% is asked for first
AdjustedMildFirst(i) ==
    CASE i.risk.drawdown \in {"over 35", "over 50"} ->
            AtLeast(0, Weighted(i) - 20 * 15)
      [] OTHER -> Weighted(i)

Freefall(i) == i.risk = [sharpe |-> "NEGATIVE", drawdown |-> "over 50"]

\* The risk-adjustment guard
Adjusted(i) ==
    CASE Freefall(i) -> AtMost(Weighted(i), 20 * 45)
      [] ~Freefall(i) /\ i.risk.drawdown \in {"over 35", "over 50"} ->
            AtLeast(0, Weighted(i) - 20 * 15)
      [] OTHER -> Weighted(i)

Recommend(score) ==
    CASE score >= 20 * 75 -> "STRONG_BUY"
      [] score \in (20 * 60)..(20 * 75 - 1) -> "BUY"
      [] score \in (20 * 40)..(20 * 60 - 1) -> "NEUTRAL"
      [] score \in (20 * 25)..(20 * 40 - 1) -> "SELL"
      [] OTHER -> "STRONG_SELL"

SignalInit == indicators \in Indicators /\ recommendation = "none"

ComputeCompositeSignal ==
    /\ recommendation = "none"
    /\ recommendation' = Recommend(Adjusted(indicators))
    /\ UNCHANGED indicators

SignalNext == ComputeCompositeSignal

SignalSpec == SignalInit /\ [][SignalNext]_signalVars

-----------------------------------------------------------------------------
\* "Cap at NEUTRAL / CAUTION during freefall": an asset that has lost more
\* than half at a negative Sharpe ratio is not recommended, however oversold
\* it looks to RSI and Bollinger bands and whatever its averages say.
FreefallIsNoBuy ==
    Freefall(indicators) => recommendation \notin {"BUY", "STRONG_BUY"}
=============================================================================
