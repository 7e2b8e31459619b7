----------------------------- MODULE BiasEngine -----------------------------
(***************************************************************************)
(* The market bias engine (market-direction-bias): five factors vote on a  *)
(* bar of indicators, the ADX gate halves the score and widens the neutral *)
(* band in a range, and the rest is the bias.  Weights and scores are in   *)
(* hundredths.  A reading that has not formed is None.                     *)
(***************************************************************************)
EXTENDS Integers, FiniteSets

CONSTANTS Bars, Configs, None

VARIABLES config, bar, result

vars == <<config, bar, result>>

Factors == {"structure", "swing", "supertrend", "directional", "premium_discount"}

\* FactorWeights and BiasConfig as shipped.
Weights ==
  [structure |-> 35, swing |-> 20, supertrend |-> 15, directional |-> 15, premium_discount |-> 15]
Default ==
  [weights |-> Weights, normalize |-> FALSE, diMargin |-> 0, pdBand |-> 0, pdAware |-> TRUE,
   discountIsBullish |-> TRUE]

\* The sum over the factors.
Total(w) == w.structure + w.swing + w.supertrend + w.directional + w.premium_discount

\* The indicators' values, and weights that are shares of one, the location's at most half.
BiasAssumption ==
  /\ None \notin Int
  /\ Bars \subseteq [trend : Int \cup {None}, swing : Int \cup {None}, di : Int \cup {None},
                     depth : Int \cup {None}, adx : Int \cup {None}, supertrend : {0, 1, None},
                     zone : {"none", "premium", "discount"}]
  /\ Configs \subseteq [weights : [Factors -> Nat], normalize : BOOLEAN, diMargin : Nat,
                        pdBand : Nat, pdAware : BOOLEAN, discountIsBullish : BOOLEAN]
  /\ \A c \in Configs :
       Total(c.weights) <= 100 /\ 2 * c.weights.premium_discount <= Total(c.weights)

Sign(x) == IF x > 0 THEN 1 ELSE IF x < 0 THEN -1 ELSE 0

\* A missing ADX counts as a trend.
Ranging(b) == b.adx # None /\ b.adx < 20

structure_vote(b) == IF b.trend = None THEN 0 ELSE Sign(b.trend)
swing_vote(b) == IF b.swing = None THEN 0 ELSE Sign(b.swing)

\* Mutant: bearish, which the indicator writes as 0, is an abstention.
Bug_supertrend_vote(b) == IF b.supertrend = None THEN 0 ELSE Sign(b.supertrend)

supertrend_vote(b) == IF b.supertrend = None THEN 0 ELSE IF b.supertrend = 1 THEN 1 ELSE -1

\* "di" is +DI less -DI.
directional_vote(b, c) ==
  IF b.di = None \/ b.di \in -c.diMargin..c.diMargin THEN 0 ELSE Sign(b.di)

\* Location counts in a range only (pd_regime_aware), and away from the middle.
premium_discount_vote(b, c) ==
  LET bull == IF c.discountIsBullish THEN 1 ELSE -1
  IN  IF \/ b.zone \notin {"premium", "discount"}
         \/ c.pdAware /\ ~Ranging(b)
         \/ b.depth # None /\ b.depth < c.pdBand
      THEN 0
      ELSE IF b.zone = "discount" THEN bull ELSE -bull

Votes(b, c) ==
  [structure |-> structure_vote(b), swing |-> swing_vote(b), supertrend |-> supertrend_vote(b),
   directional |-> directional_vote(b, c), premium_discount |-> premium_discount_vote(b, c)]

\* Mutant: the survivors of an ablation all count the same.
Bug_Effective(c) ==
  LET used == {f \in Factors : c.weights[f] > 0}
  IN  IF c.normalize /\ used # {}
      THEN [weights |-> [f \in Factors |-> IF f \in used THEN 1 ELSE 0], unit |-> Cardinality(used)]
      ELSE [weights |-> c.weights, unit |-> 100]

\* effective_weights: the weights and what they are parts of.
Effective(c) ==
  [weights |-> c.weights,
   unit |-> IF c.normalize /\ Total(c.weights) # 0 THEN Total(c.weights) ELSE 100]

Score(b, c) == Total([f \in Factors |-> Votes(b, c)[f] * Effective(c).weights[f]])

\* Mutant: the band is not widened in a range.
Bug_Band(b) == 10

Band(b) == IF Ranging(b) THEN 30 ELSE 10

\* The score is halved in a range.
Gated(b, c) == IF Ranging(b) THEN Score(b, c) ELSE 2 * Score(b, c)

\* _score_bar: the bias, 100 * Gated being the effective score in two hundredths
\* of the unit.
Bias(b, c) ==
  LET effective == 100 * Gated(b, c)
      band == 2 * Band(b) * Effective(c).unit
  IN  IF effective > band THEN 1 ELSE IF effective < -band THEN -1 ELSE 0

NoResult == [bias |-> 0, regime |-> "none", score |-> 0]

Init == config \in Configs /\ bar \in Bars /\ result = NoResult

\* current_bias, and every row of compute.
ScoreBar ==
  /\ result = NoResult
  /\ result' = [bias |-> Bias(bar, config), score |-> Score(bar, config),
                regime |-> IF Ranging(bar) THEN "ranging" ELSE "trending"]
  /\ UNCHANGED <<config, bar>>

Next == ScoreBar

Spec == Init /\ [][Next]_vars

----------------------------------------------------------------------------
\* A score lies within the weights, in a trend without the location's.
TypeOK ==
  /\ result.bias \in -1..1 /\ result.regime \in {"none", "ranging", "trending"}
  /\ LET w == Effective(config).weights
         most == IF result.regime = "trending" /\ config.pdAware
                 THEN Total(w) - w.premium_discount ELSE Total(w)
     IN  result.score \in -most..most

InATrend(b) == [b EXCEPT !.adx = 30]

\* The gate only takes directions away: what is called in a range is called in
\* a trend too, although the location no longer votes there.
RangesAreNeverBolder ==
  result.regime = "ranging" /\ result.bias # 0 => Bias(InATrend(bar), config) = result.bias

Opposite(b) ==
  LET turned(x) == IF x = None THEN None ELSE -x
  IN  [b EXCEPT !.trend = turned(@), !.swing = turned(@), !.di = turned(@),
                !.supertrend = IF @ = None THEN None ELSE 1 - @,
                !.zone = IF @ = "premium" THEN "discount" ELSE IF @ = "discount" THEN "premium" ELSE @]

\* The engine has no side of its own: a bar upside down has the bias upside down.
UpIsDown == Bias(Opposite(bar), config) = -Bias(bar, config)

\* An ablation with renormalised weights calls whatever the literal weights
\* call: the quieter score loses directions, and turns none around
\* (FactorWeights.normalized).
AblationLosesNoSide ==
  LET literal == Bias(bar, [config EXCEPT !.normalize = FALSE])
  IN  literal # 0 => Bias(bar, [config EXCEPT !.normalize = TRUE]) = literal

\* Structure is dominant: where it and the swings agree nothing outvotes them.
StructureIsNotOutvoted ==
  config.weights = Weights /\ structure_vote(bar) = swing_vote(bar) =>
    Bias(bar, config) * structure_vote(bar) >= 0
=============================================================================
