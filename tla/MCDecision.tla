----------------------------- MODULE MCDecision -----------------------------
(***************************************************************************)
(* Where an opinion on the market comes from, for TLC: trading-system's    *)
(* graph of agents with its orchestrator, its loop that stores tweets and  *)
(* its node for X sentiment, which the graph does not contain yet, its     *)
(* backtest's signal providers, and the market bias engine.  Each          *)
(* behaviour is one of them.                                               *)
(***************************************************************************)
EXTENDS Integers, Sequences

CONSTANTS
  None,
  EnabledAgents, Threshold, Snapshots,                          \* of the graph
  Windows, Histories, Alike, Libraries, Limit, MaxSetup,        \* of the sentiment node
  BiasBars, BiasConfigs,
  CrtCandles, CrtHistories, CrtAtrs, CrtVwaps, MaxBars,         \* of the sweep provider
  RuleSnapshots,
  Handles, Tweets, Author, Broken, Malformed, PageSize, MaxAttempts   \* of the loop of tweets

VARIABLES
  which,
  stage, fs, said, writes, signals, plan, state,
  window, bins, installed, metrics, loop, phase, attempt, calls, began, now, signal, took,
  config, bar, result,
  range, cur, atr, rules, features, decision,
  client, timeline, table, healthy, seen, scraper, poll, turn, try, tweets, row

graph == <<stage, fs, said, writes, signals, plan, state>>
node  == <<window, bins, installed, metrics, loop, phase, attempt, calls, began, now,
           signal, took>>
bias  == <<config, bar, result>>
crt   == <<range, cur, atr>>
rule  == <<rules, features, decision>>
feed  == <<client, timeline, table, healthy, seen, scraper, poll, turn, try, tweets, row>>
vars  == <<which, graph, node, bias, crt, rule, feed>>

G == INSTANCE AgentGraph WITH enabled_agents <- EnabledAgents, consensus_threshold <- Threshold
X == INSTANCE XSentiment
B == INSTANCE BiasEngine WITH Bars <- BiasBars, Configs <- BiasConfigs
C == INSTANCE CrtProvider
  WITH Candles <- CrtCandles, Histories <- CrtHistories, Atrs <- CrtAtrs, Vwaps <- CrtVwaps
R == INSTANCE RuleProviders WITH Snapshots <- RuleSnapshots
TW == INSTANCE TweetIngestion WITH phase <- poll, attempt <- try

\* And there is something for the graph and for the node to wait in while another one runs.
ASSUME DecisionAssumption ==
  /\ G!GraphAssumption /\ X!SentimentAssumption /\ B!BiasAssumption
  /\ C!ProviderAssumption /\ R!RuleAssumption /\ TW!IngestionAssumption
  /\ Snapshots # {} /\ <<>> \in Windows /\ [k \in 1..8 |-> 0] \in Histories /\ {} \in Libraries

Init ==
  /\ which \in {"graph", "node", "bias", "crt", "rules", "tweets"}
  /\ TW!Init /\ (which # "tweets" => client = "stub")
  /\ IF which = "crt" THEN C!Init ELSE range = None /\ cur = <<>> /\ atr = 0
  /\ IF which = "rules" THEN R!Init ELSE rules = None /\ features = None /\ decision = None
  /\ IF which = "graph" THEN G!Init ELSE fs = (CHOOSE s \in Snapshots : TRUE) /\ G!Init
  /\ IF which = "node" THEN X!Init
     ELSE /\ window = <<>> /\ installed = {} /\ loop = "none" /\ bins = [k \in 1..8 |-> 0]
          /\ X!Init
  /\ IF which = "bias" THEN B!Init
     ELSE /\ bar = (CHOOSE b \in BiasBars : TRUE) /\ config = (CHOOSE c \in BiasConfigs : TRUE)
          /\ result = B!NoResult

\* One of them runs; the others stay where they began.
InGraph(A) == which = "graph" /\ A /\ UNCHANGED <<which, node, bias, crt, rule, feed>>
InNode(A)  == which = "node" /\ A /\ UNCHANGED <<which, graph, bias, crt, rule, feed>>
InFeed(A)  == which = "tweets" /\ A /\ UNCHANGED <<which, graph, node, bias, crt, rule>>

AskAgent(a) == InGraph(G!Agent(a))
Decide      == InGraph(G!FanIn \/ G!Orchestrate \/ G!Mark)
Leave       == InNode(X!GateBypass \/ X!FirstCall)
Prepare     == InNode(X!Request)
TimeOut     == InNode(X!TimeoutError)
Tick        == InNode(X!Second)
Step        == InFeed(TW!Loop)
Connect     == InFeed(TW!Connect)
Fetch(h)    == InFeed(TW!Fetch /\ TW!Handle = h)

Next == \/ InGraph(G!Invoke)
        \/ \E a \in G!Agents : AskAgent(a)
        \/ Decide
        \/ InNode(X!ComputeMetrics)
        \/ Leave \/ Prepare \/ TimeOut \/ Tick
        \/ which = "bias" /\ B!ScoreBar /\ UNCHANGED <<which, graph, node, crt, rule, feed>>
        \/ which = "crt" /\ C!Next /\ UNCHANGED <<which, graph, node, bias, rule, feed>>
        \/ which = "rules" /\ R!Ask /\ UNCHANGED <<which, graph, node, bias, crt, feed>>
        \/ InNode(X!Answer \/ X!OtherError \/ X!RuntimeError)
        \/ Step \/ InFeed(TW!Start \/ TW!Crash) \/ \E t \in Tweets : InFeed(TW!Publish(t))

\* The fairness of the graph, of the node and of the loop.
Fairness ==
  /\ \A a \in G!Agents : WF_vars(AskAgent(a))
  /\ WF_vars(Decide)
  /\ WF_vars(Leave) /\ WF_vars(Prepare) /\ WF_vars(TimeOut) /\ WF_vars(Tick)
  /\ WF_vars(Step) /\ SF_vars(Connect) /\ \A h \in TW!HandleSet \ Broken : SF_vars(Fetch(h))

Spec == Init /\ [][Next]_vars /\ Fairness

----------------------------------------------------------------------------
\* The types of the one that runs.
TypeOK ==
  /\ which = "graph" => G!TypeOK
  /\ which = "node" => X!TypeOK
  /\ which = "bias" => B!TypeOK
  /\ which = "crt" => C!TypeOK
  /\ which = "rules" => R!TypeOK
  /\ TW!TypeOK

\* A plan of the orchestrator is backed by what the agents of this invocation said: one
\* vote each, two sources for a direction, the VWAP on trend days, and levels on their
\* sides of the entry.
PlanIsBacked ==
  G!TwoSourcesBackATrade /\ G!EveryAgentVotesOnce /\ G!TrendDayFollowsVwap /\ G!LevelsFitTheBias

\* x_sentiment_agent_node scores one tweet of each cluster against an average of the half
\* hours, takes no answer that is late and is left within its limits.
SentimentKeepsItsLimits ==
  /\ which = "node" => X!OneOfEachIsKept /\ X!BaselineIsAnAverage
  /\ X!AlertsAreHeardInTime /\ X!ReturnsInTime

\* The bias engine has no side of its own, calls in a range what it calls in a trend,
\* keeps every direction under renormalised weights, and is not outvoted where structure
\* and swings agree.
BiasIsBalanced ==
  which = "bias" => /\ B!UpIsDown /\ B!RangesAreNeverBolder
                    /\ B!AblationLosesNoSide /\ B!StructureIsNotOutvoted

\* A sweep signal comes after the extreme, with levels no price reached, is traded at
\* them in the replay and left to the VWAP live; the rules are traded as they vote and
\* buy pullbacks near a support (providers_crt.py, providers.py).
ProvidersKeepTheirRules ==
  /\ which = "crt" => /\ C!LevelsAreUntouched /\ C!NewExtremeIsSilent
                      /\ C!SignalBecomesPlan /\ C!VwapDecidesAtThree
  /\ which = "rules" => R!RulesAreNotOverruled /\ R!PullbackIsNearSupport

\* Whatever failed, died or was retried, the loop of tweets has passed over nothing that is
\* not in the table: neither an identifier it skips nor a row of its page (_ingest_handle).
NothingIsLost == TW!NothingIsLost

\* The loop walks every page that X serves again and again, to its end or to a row that
\* raises whenever it is tried (run_forever, _retry; with a client that checks its
\* parameters that is the first new row: see ReachableIsStored).
PollingGoesOn == TW!PagesAreWalked

\* run_symbol's invocation of the graph ends, and x_sentiment_agent_node returns though
\* the model never answers.
EveryCallReturns == G!InvocationEnds /\ X!NodeReturns

----------------------------------------------------------------------------
\* Values for TLC

\* Snapshots at 10, with VWAP on either side, at the close or missing: one for each way
\* the opening range may have been left, with levels around, then with fields missing.
At10(v, a, high, low, res, sup) ==
  [close |-> 10, vwap |-> v, atr |-> a, orbHigh |-> high, orbLow |-> low, res |-> res, sup |-> sup]

MCSnapshots ==
  UNION {{At10(v, 2, 9, 7, {11, 14, 16}, {4, 6, 9}), At10(v, 2, 13, 11, {11}, {}),
          At10(v, 0, 11, 9, {}, {}), At10(v, None, None, None, {11}, {9})} :
            v \in {None, 8, 10, 12}}

MCAgents == <<"technical", "macro", "sentiment", "risk_manager">>

\* Half hours that are alike but for the newest or the oldest.
MCHistories ==
  {[k \in 1..8 |-> IF k = i THEN b ELSE c] : i \in {1, 8}, b \in {0, 1, 3}, c \in {0, 1, 3}}

MCWindows == UNION {[1..n -> {"a", "b", "c"}] : n \in 0..3}
MCAlike == {<<"a", "b">>}
MCLibraries == {{}, {"rapidfuzz", "polars"}}

\* Readings on either side, at the thresholds or missing; the engine as shipped,
\* with location in every regime, with an ablated factor, and with dead bands.
MCBars ==
  {[trend |-> t, swing |-> s, supertrend |-> u, di |-> d, zone |-> z, depth |-> p, adx |-> a] :
     t \in {None, -1, 1}, s \in {None, -1, 1}, u \in {None, 0, 1}, d \in {-10, 0, 2},
     z \in {"none", "premium", "discount"}, p \in {None, 14}, a \in {None, 10, 20}}

\* The engine with nothing to choose from, for its parameters.
Shipped == INSTANCE BiasEngine WITH Bars <- {}, Configs <- {}

MCConfigs ==
  {Shipped!Default, [Shipped!Default EXCEPT !.pdAware = FALSE, !.normalize = TRUE],
   [Shipped!Default EXCEPT !.pdAware = FALSE, !.normalize = TRUE, !.weights.supertrend = 0],
   [Shipped!Default EXCEPT !.diMargin = 2, !.pdBand = 15, !.discountIsBullish = FALSE]}

K(op, hi, lo, cl) == [op |-> op, hi |-> hi, lo |-> lo, cl |-> cl]

\* A sweep of either side with the candle of the order block, deeper sweeps, a
\* displacement back from either, a bar far from the block and one back at it.
MCCrtCandles ==
  {K(106, 108, 96, 102), K(102, 103, 92, 99), K(102, 116, 101, 114),
   K(114, 124, 112, 122), K(122, 123, 105, 110), K(140, 156, 138, 144),
   K(144, 145, 128, 130), K(110, 112, 90, 104)}
MCCrtHistories == {<<K(120, 150, 100, 130)>>, <<K(120, 130, 95, 120), K(120, 142, 100, 110)>>}
MCVwaps == {None, 1, 114, 999}

\* Closes around an opening range and the readings of the rules.
MCRuleSnapshots ==
  {[close |-> 1000, vwap |-> v, rvol |-> o, rsi |-> i, atr |-> a, ema9 |-> e,
    ema20 |-> 980, orbHigh |-> h, orbLow |-> l, sup |-> s, res |-> {1020},
    late |-> t] :
     v \in {None, 970, 1010}, o \in {None, 15, 20}, i \in {None, 50, 950},
     a \in {None, 15}, e \in {None, 990, 1005}, h \in {980, 990, 1100},
     l \in {900, 1050}, s \in {{}, {999}}, t \in BOOLEAN}

\* The first handle never answers, the second publishes more than fits on its page, among
\* it a tweet that can not be converted.
MCHandles == <<"suspended", "busy", "quiet">>
MCAuthor == [t \in {1, 2, 3, 4} |-> IF t = 4 THEN "quiet" ELSE "busy"]
=============================================================================
