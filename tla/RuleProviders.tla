--------------------------- MODULE RuleProviders ---------------------------
(***************************************************************************)
(* DeterministicSignalProvider and PullbackSignalProvider of               *)
(* trading-system's backtest: the criteria of the technical agent as code, *)
(* handed to the orchestrator of the live system.  Volume and RSI are in   *)
(* tenths.                                                                 *)
(***************************************************************************)
EXTENDS Consensus, FiniteSetsExt

CONSTANT Snapshots

\* None is neither a number nor levels; a close is above its average range, and prices and
\* readings may be missing.
RuleAssumption ==
  /\ None \notin Int /\ None \notin [entry : Int, stop : Int, targets : Seq(Int)]
  /\ \A f \in Snapshots :
       /\ f.close \in Nat \ {0}
       /\ {f.vwap, f.ema9, f.ema20, f.orbHigh, f.orbLow} \subseteq (Nat \ {0}) \cup {None}
       /\ f.atr # None => f.atr \in 1..(f.close - 1)
       /\ {f.rvol, f.rsi} \subseteq Int \cup {None}
       /\ f.sup \cup f.res \subseteq Int /\ IsFiniteSet(f.sup) /\ IsFiniteSet(f.res)

VARIABLES
  rules,     \* the provider
  features,  \* the feature snapshot
  decision   \* the vote and the plan, once asked

vars == <<rules, features, decision>>

\* A missing volume ratio or range counts as zero.
OrZero(x) == IF x = None THEN 0 ELSE x

Above(f, x) == x # None /\ f.close > x

\* The reversal rules, which the two providers share.
ReversalVote(f) ==
  LET atSupport == f.sup # {} /\ f.close * 1000 <= Max(f.sup) * 1002
      loud == OrZero(f.rvol) >= 20
  IN  IF f.rsi # None /\ f.rsi < 100 /\ loud /\ atSupport THEN "long"
      ELSE IF f.rsi # None /\ f.rsi > 900 /\ loud THEN "short" ELSE "flat"

\* Mutant: the VWAP is not looked at.
Bug_deterministic(f) ==
  CASE classify_regime(f) = "trend_up" ->
         IF OrZero(f.rvol) >= 20 /\ \A e \in {f.ema9, f.ema20} \ {None} : f.close > e
         THEN "long" ELSE "flat"
    [] classify_regime(f) = "reversal" -> ReversalVote(f)
    [] OTHER -> "flat"

deterministic(f) ==
  CASE classify_regime(f) = "trend_up" ->
         IF /\ Above(f, f.vwap) /\ OrZero(f.rvol) >= 20
            /\ \A e \in {f.ema9, f.ema20} \ {None} : f.close > e
         THEN "long" ELSE "flat"
    [] classify_regime(f) = "reversal" -> ReversalVote(f)
    [] OTHER -> "flat"

\* Mutant: the nearest support need not be below the price.
Bug_Support(f) == Max({x \in {f.vwap, f.ema9, f.orbHigh} \ {None} : TRUE})

\* The highest of VWAP, EMA and opening range at or below the price.
Support(f) == Max({x \in {f.vwap, f.ema9, f.orbHigh} \ {None} : x <= f.close})

\* Nothing after the window; a long only within one range of a support.
pullback(f) ==
  CASE f.late -> "flat"
    [] ~f.late /\ classify_regime(f) = "trend_up" ->
         IF /\ OrZero(f.atr) > 0 /\ Above(f, f.vwap) /\ OrZero(f.rvol) >= 15
            /\ f.close - Support(f) <= f.atr
         THEN "long" ELSE "flat"
    [] ~f.late /\ classify_regime(f) = "reversal" -> ReversalVote(f)
    [] OTHER -> "flat"

Vote(p, f) == IF p = "deterministic" THEN deterministic(f) ELSE pullback(f)

\* get_signals: the rule speaks through two agents, the others abstain.
Signals(p, f) ==
  LET signal(agent, vote) == [agent |-> agent, vote |-> vote, levels |-> None]
  IN  <<signal("technical", Vote(p, f)), signal("risk_manager", Vote(p, f)),
        signal("macro", "abstain"), signal("sentiment", "abstain")>>

Undecided == [vote |-> "none", plan |-> None]

Init ==
  /\ rules \in {"deterministic", "pullback"}
  /\ features \in Snapshots
  /\ decision = Undecided

\* run_replay asks the provider and hands its votes to the orchestrator.
Ask ==
  /\ decision = Undecided
  /\ decision' = [vote |-> Vote(rules, features),
                  plan |-> orchestrator_node(Signals(rules, features), features, FALSE, 2)]
  /\ UNCHANGED <<rules, features>>

Next == Ask

Spec == Init /\ [][Next]_vars

----------------------------------------------------------------------------
TypeOK == decision.vote \in Votes \cup {"none"}

\* The orchestrator overrules no vote of the rules: neither its VWAP filter nor
\* the VWAP's own vote turns a directional rule into a flat plan; only levels
\* that cannot be derived do.
RulesAreNotOverruled ==
  decision.vote \in Directions =>
    decision.plan.bias = IF features.atr = None THEN "flat" ELSE decision.vote

\* What the pullback rule buys is within one range of the close above the stop
\* it is given, or that stop is the VWAP with a nearer support above it.
PullbackIsNearSupport ==
  rules = "pullback" /\ decision.vote = "long" /\ classify_regime(features) = "trend_up" =>
    /\ features.close > features.orbHigh
    /\ \/ features.close - decision.plan.levels.stop <= features.atr
       \/ \E x \in {features.ema9, features.orbHigh} \ {None} :
            x > decision.plan.levels.stop /\ features.close - x \in 0..features.atr
=============================================================================
