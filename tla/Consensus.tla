------------------------------ MODULE Consensus ------------------------------
(***************************************************************************)
(* The decision of orchestrator_node of trading-system: the weighted tally *)
(* of the agents' votes and of the side of the VWAP, the regime, the veto  *)
(* on trend days and the levels of the plan.                               *)
(*                                                                         *)
(* A feature snapshot is a record whose fields may be None.  Prices are    *)
(* whole multiples of the fourth decimal, to which levels are rounded.     *)
(* Votes are counted in halves, because an alert makes one count 1.5.      *)
(***************************************************************************)
EXTENDS Integers, Sequences, FiniteSets

CONSTANT None   \* what .get returns for a missing value

Directions == {"long", "short"}
Votes == Directions \cup {"flat", "abstain"}

Opposite(bias) == IF bias = "long" THEN "short" ELSE "long"
Larger(a, b) == IF a > b THEN a ELSE b
Smaller(a, b) == IF a < b THEN a ELSE b

classify_regime(fs) ==
  IF None \in {fs.close, fs.orbHigh, fs.orbLow} THEN "neutral"
  ELSE IF fs.close > fs.orbHigh THEN "trend_up"
  ELSE IF fs.close < fs.orbLow THEN "reversal" ELSE "neutral"

structural_vote(fs) ==
  IF None \in {fs.close, fs.vwap} THEN "abstain"
  ELSE IF fs.close > fs.vwap THEN "long"
  ELSE IF fs.close < fs.vwap THEN "short" ELSE "flat"

----------------------------------------------------------------------------
\* The tally.  A signal is a record [agent, vote, levels].

Backers(signals, bias) == {i \in DOMAIN signals : signals[i].vote = bias}

\* In half votes; an alert makes the vote of the X agent count half a vote more.
Weight(signals, alert, structural, bias) ==
  LET extra == {i \in Backers(signals, bias) : alert /\ signals[i].agent = "x_sentiment"}
  IN  2 * Cardinality(Backers(signals, bias)) + Cardinality(extra)
        + (IF structural = bias THEN 2 ELSE 0)

MinDirectional == 4   \* _MIN_DIRECTIONAL_VOTES, two votes

\* Mutant: the floor shrinks to what was voted, however little that is.
Bug_Floor(threshold, total) == Smaller(Larger(MinDirectional, 2 * threshold), total)

Floor(threshold, total) ==
  Smaller(Larger(MinDirectional, 2 * threshold), Larger(MinDirectional, total))

\* The direction that wins the tally, or flat.
Winner(long, short, threshold) ==
  LET floor == Floor(threshold, long + short)
  IN  IF long > short /\ long >= floor THEN "long"
      ELSE IF short > long /\ short >= floor THEN "short" ELSE "flat"

\* Mutant: the VWAP has its veto in the other regime.
Bug_Enforced(winner, regime, structural) ==
  IF regime = "reversal" /\ winner # "flat" /\ structural = Opposite(winner)
    THEN "flat" ELSE winner

\* On a trend day the winner may not oppose the VWAP.
Enforced(winner, regime, structural) ==
  IF regime = "trend_up" /\ winner # "flat" /\ structural = Opposite(winner)
    THEN "flat" ELSE winner

\* int(round(score)): halves go to the even neighbour.
Rounded(halves) ==
  IF halves % 2 = 0 THEN halves \div 2
  ELSE IF ((halves - 1) \div 2) % 2 = 0 THEN (halves - 1) \div 2 ELSE (halves + 1) \div 2

----------------------------------------------------------------------------
\* The levels

Levels(entry, stop, targets) == [entry |-> entry, stop |-> stop, targets |-> targets]

\* What KeyLevels lets pass; it says nothing of the targets' sign or side.
Accepted(levels) == levels.entry > 0 /\ levels.stop > 0 /\ levels.stop # levels.entry

\* The first of a set of prices on the way up (1) or down (-1), and the first two or a default.
First(prices, sign) == CHOOSE p \in prices : \A q \in prices : sign * p <= sign * q

Nearest(prices, sign, default) ==
  LET first == First(prices, sign)
      rest == prices \ {first}
  IN  IF prices = {} THEN <<default>>
      ELSE IF rest = {} THEN <<first>> ELSE <<first, First(rest, sign)>>

\* The VWAP when it is on the losing side of the close, else one ATR away.
Stop(fs, bias) ==
  IF bias = "long"
    THEN IF fs.vwap # None /\ fs.vwap < fs.close THEN fs.vwap ELSE fs.close - fs.atr
    ELSE IF fs.vwap # None /\ fs.vwap > fs.close THEN fs.vwap ELSE fs.close + fs.atr

\* Mutant: the supports are not reversed, the farthest come first.
Bug_Targets(fs, bias) ==
  LET double == fs.close + 2 * (fs.close - Stop(fs, bias))
  IN  IF bias = "long" THEN Nearest({t \in fs.res : t > fs.close}, 1, double)
                       ELSE Nearest({t \in fs.sup : t < fs.close}, 1, double)

\* Levels beyond the close, nearest first, else twice the risk.
Targets(fs, bias) ==
  LET double == fs.close + 2 * (fs.close - Stop(fs, bias))
  IN  IF bias = "long" THEN Nearest({t \in fs.res : t > fs.close}, 1, double)
                       ELSE Nearest({t \in fs.sup : t < fs.close}, -1, double)

derive_levels(fs, bias) ==
  IF None \in {fs.close, fs.atr} THEN None
                                 ELSE Levels(fs.close, Stop(fs, bias), Targets(fs, bias))

\* The levels of the first signal for the bias that carries any, else derived ones.
PlanLevels(signals, fs, bias) ==
  LET carriers == {i \in Backers(signals, bias) : signals[i].levels # None}
  IN  IF carriers = {} THEN derive_levels(fs, bias)
      ELSE signals[CHOOSE i \in carriers : \A j \in carriers : i <= j].levels

----------------------------------------------------------------------------
\* The plan

MaxScore == 5   \* the bound TradePlan puts on consensus_score

Raised == [bias |-> "raised"]   \* no plan: a validator of KeyLevels or TradePlan refused

Bias(signals, fs, alert, threshold) ==
  LET structural == structural_vote(fs)
      long  == Weight(signals, alert, structural, "long")
      short == Weight(signals, alert, structural, "short")
  IN  Enforced(Winner(long, short, threshold), classify_regime(fs), structural)

Score(signals, fs, alert) ==
  LET structural == structural_vote(fs)
  IN  Rounded(Larger(Weight(signals, alert, structural, "long"),
                     Weight(signals, alert, structural, "short")))

orchestrator_node(signals, fs, alert, threshold) ==
  LET bias   == Bias(signals, fs, alert, threshold)
      levels == IF bias = "flat" THEN None ELSE PlanLevels(signals, fs, bias)
      score  == Score(signals, fs, alert)
  IN  IF (levels # None /\ ~Accepted(levels)) \/ score > MaxScore THEN Raised
      ELSE [bias |-> IF levels = None THEN "flat" ELSE bias,
            levels |-> levels, score |-> score, alert |-> alert]
=============================================================================
