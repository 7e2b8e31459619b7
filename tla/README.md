# Verification of Trading-Research

TLA+ models of the programs of this repository that keep state, their model checking
with TLC, and theorems about them checked by TLAPS. Paths are relative to the
repository; `EA` stands for
`ICT-MultiTF-Strategy-Research/MT5_Project/EA/SMC_CRT_EA_v1.3.mq5`, "strategy
document" for `ICT-MultiTF-Strategy-Research/CRT_ICT_Strategy_Research.md`.

To repeat everything: `tlc -config <run>.cfg <module>` for each run of section 3 (the
module is in `PROJECT.json`) and `tlapm <module>.tla` for each module of section 4.

## 1. The system

The repository is a collection of trading research. Two of its programs act on a
market and must survive failure: the MetaTrader expert advisor and the Python
`trading-system`. The others are replays over historical prices and strategies for
the freqtrade bot; most of these are state machines too, which take one bar after
another and carry an open trade, a setup and flags about it from bar to bar. A third
kind, single-pass statistics and charts, keeps no state and is not modelled.

### 1.1 Expert advisor v1.3 (`EA`)

| | |
|---|---|
| state | globals of the program: `g_State` (IDLE, TRIGGER_DETECTED, WAITING_ENTRY, IN_POSITION, HALTED), `g_Setup`, `g_LastHTFBarTime`, day start and equity, cooldown, last attempt; the *ledger* in the terminal's global variables, one record per ticket (original lot, R distance, partials taken, entry time, extreme, initial stop); orders and positions at the broker |
| operations | `OnInit`, `OnTick` (hard kill, Friday close, `ManageOpenPosition`, soft halt, cooldown, expiry, entry attempt, new bar), `OnTrade` |
| interacts with | the broker, which fills and closes orders on its own and may refuse a request; the terminal, which keeps the ledger over a restart |
| hard | a pending order outlives the state it was placed in; a position is first seen by either of two handlers; one pass sends up to five requests of which each may be refused; the process dies between a request and the ledger |
| correct when | one exposure at a time; one order per trigger bar; no order under the daily loss limit; ledger and broker agree; the stop never loosens; positions and orders end in time; trades follow the announced scale-out |

### 1.2 Trading system (`trading-system`)

| part | state | operations and partners | what is hard | correct when |
|---|---|---|---|---|
| Risk gateway (`risk/`) | circuit breaker: alerts in a row, end of the freeze | `evaluate(plan, account, market)`, called once per plan | freeze and thaw around the count; rounding to the most binding of three limits | every approved size is within all caps; a streak of alerts freezes |
| Trading run (`run_phase2.py`), broker adapter | `state_hwm.json`; the account at Alpaca | account → high-water mark → agents → gateway → order; a process per symbol | the account is read minutes before the order; the file is shared without a lock | overlapping processes stay within a cap each; the mark is kept |
| Agent graph and orchestrator (`agents/`, `features/regime.py`) | channels of the graph | fan-out to the agents, fan-in, consensus | failing models, abstentions, ties | two sources stand behind a direction; every invocation ends |
| X sentiment (`agents/x_sentiment_agent.py`, `features/sentiment_engine.py`) | metrics in the state | gate, timed call in a thread, fallback | late answers, RuntimeError inside a running loop | an alert was heard in time; the node returns |
| Tweet ingestion (`ingestion/x_stream.py`) | `_seen_ids`, scraper pool, table `raw_tweets` | `run_forever`, `_ingest_handle` under `_retry`, `_persist` | a store whose answer is lost; failed transactions; a database client that refuses a statement; handles that never answer; restarts | what is skipped is stored; every handle is polled; reachable tweets get stored |
| Fill simulator, replay, execution engine | one trade | a bar at a time: stop, targets, break-even | several levels inside one bar; targets made anew from the fill (`target_mode`) | replay and live engine hold the same where their targets are; losses are bounded |
| Signal providers of the backtest | none | votes for the orchestrator | votes that the orchestrator overrules, setups seen again | levels untouched by prices; a rule is traded as it votes |
| Universe backtest, scanner, bar cache | files of bars on disk | fetch, scan a day, rank, replay, sum up | torn and partial files, later days in memory | two runs agree; no look-ahead |
| Feature engine, sessions, settings, feeds, audit log | none that a decision reads back | pure functions, look-ups, I/O | numeric | |

### 1.3 Backtests and strategies

| part | state from bar to bar | what is hard |
|---|---|---|
| `phase2_engine.py`, `viz_engine.py` | trigger, limit order, trade with partial exits | three copies of the same search (with `EA`) must agree; two levels and a stop in one bar |
| gold CRT, order-block and power-of-three engines, and their fable5 versions | reference candle, sweeps, blocks, open trade, "traded" flags | two time frames; a setup replaced while its trade is open; the rewrite must not differ |
| TimesFM strategy | arrays computed in advance, used levels, trade | look-ahead through time labels |
| `gold_quant_lab/runners/run_gold_trend.py` | channel or range, trade with a trailing stop | stop raised and held against the same bar; gaps |
| freqtrade strategies | a spot trade, its peak, callbacks' memory | the order of the bot's exits; exits that are refused; a buy that trails |
| market direction bias | none | gates and renormalised weights |

`PROJECT.json` lists every component with its status and every hazard with its line.

## 2. The modules

    TradeContract <--implemented by-- SmcCrtEa <-- MCSmcCrtEa
                                               <-- SmcCrtEaProofs <-- SmcCrtEaTradeProofs
    RiskGateway <-- MCRiskGateway, RiskGatewayProofs
        ^-- INSTANCE in TradingDesk <-- MCTradingDesk, TradingDeskProofs
    TweetIngestion <-- MCTweetIngestion

    Consensus <-- AgentGraph, CrtProvider, RuleProviders
        MCDecision: AgentGraph, XSentiment, CrtProvider, RuleProviders, BiasEngine,
                    TweetIngestion
            <-- DecisionProofs

    Bracket <-- CrtReplay, CrtReplayV2 (implements CrtReplay), BlockReplay, SweepReplay,
                SetupScan
        MCGoldReplays: CrtReplay, CrtReplayV2, BlockReplay, SweepReplay, TimesFm, GoldTrend
            <-- GoldReplaysProofs

    BuyGuards <-- Nfi5MOHO <-- Nfi5Trade      FreqtradeTrade: the bot's loop,
    BuyGuards <-- ArcaneLiM2 <-- ArcaneTrade  INSTANCE in the Trade modules
    Nasos, SignalTrade, TrailingBuy           and in Nasos
        MCTradeReplays: SetupScan, PartialTrade, FillSimulator, Universe, the strategies
            <-- TradeReplaysProofs

An `MC` module gives TLC the values of the constants. The last three choose one of
their components at the start of a behaviour and run it alone, the others keep their
initial state; the states to explore are the sum of the components', not the product,
because these programs do not interact. What they choose from (snapshots, windows, bars,
candles, ...) are constants of theirs, which the cfg gives small values and the theorems
none; their assumptions say that readings are numbers or missing, that prices are positive where
a program divides by them, that a symbol has bars or none on each day of a market, and that what waits has a state to wait in. A `Proofs` module
EXTENDS the model and TLAPS. Operators
named `Bug_...` are faulty forms of a definition, kept beside it: with one of them in
place of the original a property must fail, which shows that the property speaks about
the code. A property that joins several parts has one such form at least for each of the
models it joins.

### 2.1 SmcCrtEa

One action per handler, and within `OnTick` one per way through it, with guards
in the order of the code's early returns. `Quote` is what every tick does
first (the day may roll over); `NewBar` is the check that ends `OnTick` and is
conjoined to each way that reaches it. `Managed` is one whole pass of
`ManageOpenPosition`: ledger initialisation, holding limit, partial 1, partial 2,
final close, with the *set of refused requests* chosen once per pass. `OnTrade`
handles an event flag that every change at the broker sets. MetaTrader runs the
handlers of one expert one after the other, so a handler is atomic except for the
death of the process: `CrashInPartial` stops it between the request and the entry
in the ledger.

Prices are measured along the trade in multiples of R, so short and long are the
same trade; volumes in volume steps, with the code's floors (`PartialLot1`,
`PartialLot2`). The clock is `TimeCurrent`: only a tick moves it. Choices rather
than computations: whether a bar is a trigger, whether an entry is found, its lot
and target, the equity of a quote, when it is Friday 20:00.

`TradeContract` is the abstract life of a trade (resting, full, half, late, runner,
over) and the rule that at most one is live. `StageOf` is the refinement mapping:
the stage is computed from the broker's volume, not from the ledger, so the
implementation can not make the two agree by definition.

### 2.2 RiskGateway

`evaluate` in three actions (flat, frozen, checked), each including everything it
does to the breaker; `Approves` is the conjunction of the nine checks and `Qty`
the sizing, both without the code's divisions where the code compares quotients
and with integer division where it floors. `NewGateway` is a new process.
`streak`, the number of alerts in a row, is observed only.

### 2.3 TradingDesk

Any number of `run_phase2` processes against one account. `get_account` is two
calls to the broker, so it is two steps; `_update_high_water` is three (read;
`write_text` truncates; `write_text` writes), after which `AccountSnapshot` may
raise; the agents answer with any plan; a gateway *without memory* (that is what
`run_symbol` builds) decides, by the operators of RiskGateway through `INSTANCE`;
the order is the market order `submit_bracket` sends. A process may die in every
place. The prices of the symbols do not move: an exposure that grows because the
market moves is nobody's step. `highest` and `disturbed` are observed only.

### 2.4 TweetIngestion

The coroutine of `run_forever` as one step per await: connect, fetch, one row
(skip, store, fail, raise), next handle, sleep. `Raised` is the retry decorator:
it counts attempts of the whole `_ingest_handle`, and gives the handle up after the
last. `InsertFails` may leave the row committed (the answer was lost) or not, and
leaves the connection in a failed transaction, since nothing in the file ever rolls
back. The program is given its database client, so that the model chooses one: a `stub`
(the test double of the docstring) takes the INSERT as it stands; a `strict` one looks for
a value of each parameter, as SQLAlchemy and psycopg do, and finds none for `:ts`, because
`RawTweetRecord` calls that field `timestamp`. `InsertRefused` is what happens then: no row
is stored, the exception goes through `_retry`, and the connection may be left in a failed
transaction. What holds with both kinds is checked in the run Decision, what a strict
client breaks is the run IngestStrict.

### 2.5 Consensus, AgentGraph, XSentiment

`Consensus` is `orchestrator_node` and what it calls, as functions of signals and a
snapshot, exceptions included (`Raised`). `AgentGraph` is the graph LangGraph compiles:
each agent is asked once per invocation and its model may answer with a vote, with
something unreadable, or not at all; writes are applied together when all agents are
done, through the reducer `_append`. `said` is observed only: it records what a model
really answered, so that TwoSourcesBackATrade compares the plan with the world and not
with the signals it was computed from.

`XSentiment` has `compute_metrics` (one text of each cluster, the weights of the moving
average, both with and without the optional libraries) and the node: gate, first call,
the call the handler of RuntimeError makes, and a clock in seconds. A call begins with
a part no timer can stop; from the request on, `wait_for` cancels it at its limit.

### 2.6 CrtProvider, RuleProviders, BiasEngine

The providers turn a history or a snapshot into votes, and a decision is made from them
by `Consensus`, at the thresholds of the replay and of the live run. `CrtProvider` sees
the bars of the running four-hour candle grow one at a time. `BiasEngine` scores one bar
under one configuration; votes may be missing.

### 2.7 Bracket and the gold replays

`Bracket` is what four engines and the search share: a trade with a side, entry, stop,
target and age, what a bar does to it, in the order the engines ask. An engine module
adds its setup. A step takes a bar of the entry frame and, before it, the candle of the
higher frame that closed meanwhile; whether a candle qualifies and whether a bar shifts
the structure are inputs. `worst` in CrtReplay remembers the lowest and highest price
since the reference, `through` in BlockReplay what a block has seen, `age` and `used` in
SweepReplay count what the engine does not (observed only).

`CrtReplayV2` implements `CrtReplay` under a refinement mapping that forgets costs: a row of
the second engine is the row of the first, and ImplementsV1 is the first one's
specification.

`TimesFm` defines every array of the strategy as a function of the bars it may look at, and
causality as its independence of later bars (`SwingIsCausal`: the value for the bars so
far is the value for each longer history). The swing levels are causal. The direction and the
levels of mode `h4candle` are not: both are looked up by the index of the H4 frame, which
holds the opens of its candles, so that a bar sees the whole candle it lies in, later bars of it
included. `SettledWithItsCandle` says how far this look-ahead goes, H4IsCausal what the
documents claim. `GoldTrend` takes the three rules of one
script, one step per bar.

### 2.8 SetupScan, PartialTrade, FillSimulator, Universe

`SetupScan` spells the search from trigger to entry three times, as `phase2_engine.py`,
`viz_engine.py` and `EA` do, on one history that grows; the expert sees the bars so far and
the one still forming. `PartialTrade` is `simulate_trade` (schemes A and B) and
`simulate_trade_instrumented` of `viz_engine.py`: a bar closes on Friday, hits the stop or takes levels,
in this order. `FillSimulator` is `run_replay` around `simulate`, and beside it the
`ExecutionEngine` that is handed the best price of each bar. With `target_mode` r_multiple
the simulated targets keep their multiples of the order's risk but are laid from the fill
(`Anchored`, `Reward`); the engine keeps the order's. A fraction of a price appears there, so
gains are counted in parts of which `Unit` make one. The simulation's targets are nowhere
nearer after a fill worse than the order's price and nowhere farther after a better one
(`NoneNearer`, `NoneFarther`), and MirrorsExecution says what follows: one of the two is ahead,
and they are the same in structural mode or at the order's price. Break-even is where the simulation parks
its stop, the fill (`backtest/fills.py`:217); the engine announces the order's price
(`execution/engine.py`:67), and that it has moved its stop is all that is compared. `Universe` runs the universe backtest
again and again over a cache on disk, while days get published, fetches fail and the
program dies in the middle of a write. Its two sorts (first lines of the file, gaps of the
day) are `InOrder`: of a set and of what is ahead of what. `Curve` is the running sum
with its peak and deepest fall, trade after trade, as the summary's loop has it.

### 2.9 Freqtrade

`FreqtradeTrade` is the bot's loop over one trade, external: which callback is asked
when, in which order the exits are due. `Nfi5Trade`, `ArcaneTrade`, `Nasos` and
`SignalTrade` instantiate it with a strategy's operators, `TrailingBuy` has the state the live
branch of `TrailingBuyStrat` keeps between candles. Each buy condition of the two large
strategies is a row of a table: the trend it needs, the dips it tolerates, the pumps it
refuses (`BuyGuards`), and the name of its own indicators, which are inputs.

## 3. What is checked

### 3.1 Runs that pass

| run | checks | shows |
|---|---|---|
| EaExposure | TypeOK, OneTradeAtATime, NoOrderUnderDailyLoss | over days, losses, a Friday close and refused closes there is no second order or position, no bar trades twice, and no order goes out on a tick at the soft limit |
| EaTrade | NothingOutlivesItsTime, LedgerMatchesBroker, ImplementsContract, StopNeverLoosens | with refused partial and final closes, orders and positions end in time, the ledger tells what was done, and every step is a step of TradeContract |
| EaCrash | PartialsLeaveAPosition, ClockNeverRestarts | a partial repeated after a crash never takes the whole position, and the holding clock goes on |
| Gateway | TypeOK, WithinAllCaps, LongStreakIsFrozen, FreezeHolds | approved sizes respect every cap at once; alerts in a row end in a freeze which nothing shortens |
| Desk | TypeOK, ExposureWithinCaps, PeakIsKept | overlapping processes together stay within one exposure cap *each*; the mark never falls while updates are not disturbed |
| Decision | TypeOK, PlanIsBacked, SentimentKeepsItsLimits, BiasIsBalanced, ProvidersKeepTheirRules, NothingIsLost, EveryCallReturns, PollingGoesOn | a direction has two sources that really said so and levels on their sides; a model is heard in time only; up and down are treated alike; providers' setups reach the orchestrator intact; invocations end; with either database client, what the tweet service will skip is stored, and a handle that never answers, a row that always raises or a refused statement keeps it from no other handle |
| GoldReplays | TypeOK, OneTradePerSetup, TradesStayInBracket, LookAheadIsBounded, ImplementsV1, TradesFollowTheirSetup | over every history of a few prices a setup is traded once, from its own side, with its stop beyond it; results are what the bracket allows; swing levels do not look ahead, and what does (TfmLookAhead) sees no further than its own H4 candle; the second engine implements the first |
| TradeReplays | TypeOK, EnginesAgree, PartsKeepTheirWorth, GuardedExitsHold, GuardedEntriesHold, SignalTradesKeepTheirStops, TrailingBuysLow, UniverseRunsRepeat, StepsOnlyTighten | programs said to do the same do, replay and live engine as far as their targets are the same; parts lock in what they are worth; protections protect, retries end; runs over the cache agree |

The properties of the last three are conjunctions defined in the MC modules, whose parts
stand with their comments in the component's module:

* PlanIsBacked: two sources behind a direction, one vote per agent and invocation, the VWAP on trend days, levels on
  their sides (AgentGraph). SentimentKeepsItsLimits: one text of each cluster, a baseline that is
  an average, answers in time, at most two calls (XSentiment). BiasIsBalanced: mirror symmetry, ranges
  never bolder, ablation loses no side (BiasEngine). ProvidersKeepTheirRules (CrtProvider, RuleProviders).
  NothingIsLost, PollingGoesOn: NothingIsLost and PagesAreWalked of TweetIngestion.
* OneTradePerSetup (CrtReplay, TimesFm). TradesStayInBracket (CrtReplay, BlockReplay, TimesFm,
  GoldTrend). LookAheadIsBounded: SwingIsCausal and SettledWithItsCandle (TimesFm). TradesFollowTheirSetup (CrtReplay, BlockReplay, SweepReplay, GoldTrend).
* EnginesAgree: the three searches find the same shift and levels (SetupScan), and the live engine and the
  simulated trade hold the same or part in a known order (MirrorsExecution of FillSimulator). PartsKeepTheirWorth (PartialTrade, FillSimulator). UniverseRunsRepeat:
  runs agree, no later day is looked at, the drawdown is the deepest (Universe). StepsOnlyTighten: stops of
  PartialTrade, and a refused exit is granted when it is asked the fourth time (Nasos).
* GuardedExitsHold: the peak is guarded and a loss is meant (Nfi5Trade); stops are honoured, profits trailed,
  returns refused for a trend only, taken in a falling market (ArcaneTrade). GuardedEntriesHold: what the port of
  NFI5's conditions promises of dips and pumps (Nfi5Trade, ArcaneTrade). SignalTradesKeepTheirStops (Nasos, SignalTrade).
  TrailingBuysLow (TrailingBuy).

### 3.2 Runs that show a disagreement

| run | property | what the code does |
|---|---|---|
| EaRestartTwice | OnePositionPerTrigger | `OnInit` goes to IDLE with an order resting, and the traded bar is forgotten (`EA`:188, strategy document l. 795) |
| DeskShort | GrossWithinCap | a short position is negative exposure and makes room (`data/alpaca_adapter.py`:88, `risk/models.py`:46) |
| TfmLookAhead | H4IsCausal | the time an H4 candle opens is taken for the time it closes: at one bar both the direction (`TimesFM/tfm_engine.py`:81) and the H4 levels (`TimesFM/levels.py`:128, 142) are made of bars up to four hours later (`TimesFM/README.md`:52-54, `TimesFM/levels.py`:25-26, 121-122; fable5's `po3_engine_v2.py`:97 adds the four hours) |
| IngestStrict | ReachableIsStored | the INSERT binds `:ts`, the record's field is `timestamp`: with a client that checks its parameters nothing is ever stored (`ingestion/x_stream.py`:192, `core/schemas.py`:119; `ingestion/x_stream.py`:100, 108) |

### 3.3 Bounds, and why they are enough

* **Ea…**: one or two tickets, because every property speaks about a pair of
  trades at most; the clock runs to 6 or 7 with bars of 2 and days of 4, so that
  the second day and the third bar occur; windows, cooldown, holding limit of 1 or 2
  ticks, each of which can end before, on and after a tick. Lots 3 and 10: 10 is
  split exactly, 3 makes the second partial zero. Targets 1 and 3: below and
  above the second level. Excursions 0 to 3 reach none, one, two or all levels in
  one pass. Equities 100, 96, 91 are no loss, the soft limit exactly, beyond the hard
  one. `Fault` names which requests may be refused in a run. Tickets are symmetric:
  no property names one and none of these is a liveness property.
* **Gateway**: clock to 7, a freeze of 3, three alerts; streaks to 6, one more
  than the five after which LongStreakIsFrozen applies. Accounts and markets are chosen so
  that each of the three sizes is the smallest in some state, an exposure is
  above the cap, and both stop floors are used.
* **Desk**: two processes are the least that overlap; two equities make the mark
  rise and fall; two symbols are the least for which signed values cancel. A plan
  is sized to 20 percent of the equity or less, or to 7 with an alert, so that the
  cap of 30 percent binds at the second order.
* **Decision**: the four agents of the default configuration and its threshold of 3, every
  combination of votes, failures and snapshots (VWAP on either side, at the close, missing; the
  opening range left upwards, downwards, not, or missing). Windows of up to three
  texts of which two are alike, a limit of 2 and a set-up of up to 3 seconds: a late
  answer exists. Histories of one or two four-hour candles and four bars for the sweep
  provider. Readings on either side of each threshold for rules and bias. Three kinds of handle and four
  tweets, pages of two (older tweets leave the page), two attempts; one tweet can not be converted and one
  handle is gone. **IngestStrict** has the same handles and tweets.
* **GoldReplays**: three to five prices, a longest hold of two bars; histories are unbounded,
  since the state of an engine is finite over finitely many prices. The prices of
  CrtReplayV2 are spread so that its minimal reward and its costs matter. TimesFM: five
  bars out of five candles, two to an H4 candle, so that a pivot is confirmed, retested and traded.
* **TradeReplays**: two bars of search after the trigger and one forming, out of four candles
  that make a shift and a gap; moves from -4 to 5 with R = 2 reach every level and both
  stops, three bars of holding. Six prices and four orders for the replay: fills at, above and below the
  order's price and beyond its stop, targets near enough for both to be reached, in each of the three exit
  modes and both target modes. Two universe files over
  three symbols, one with a comment and a name said twice; eight markets with two days of history and
  two to trade, on which symbols gap alike, more or not at all, are quiet or shut; one trade a day, so that
  the cap on the day's symbols binds. Candles and rates of the freqtrade
  strategies make each branch of their entries and exits true and false in turn. Trailing
  buys over 15 prices.

`CHECK_DEADLOCK FALSE` in the last three: data end.

### 3.4 Fairness

TweetIngestion (in IngestStrict, and as Step, Connect and Fetch in Decision): `WF(Loop)`: the coroutine is the only task of
its event loop and is scheduled as long as the process lives. `SF(Connect)` and
`SF(Fetch)` per handle: X answers a handle it serves when asked again and again;
without this no polling program stores anything. Nobody promises to restart a dead
process (`Start` has no fairness), to repair the connection (`healthy`), or to
publish; ReachableIsStored gives up in those cases and PollingGoesOn when the process dies; `_retry` and `run_forever`
must do the rest. The counterexample of IngestStrict is fair in this sense: X answers, the loop runs, and the client
refuses for ever.

Decision: each agent and the graph's own steps are weakly fair (LangGraph runs every node that
is ready, and `_call_llm` turns whatever its client does into an answer), and so are in
XSentiment the node's own steps, the timer and the seconds. Answer and errors of the model have
no fairness: EveryCallReturns must hold though the model never answers.

All other "eventually" claims of the code are stated as bounds on the clock
(NothingOutlivesItsTime, ReturnsInTime, V8LeavesInTime), which need no fairness.

## 4. What is proved

For all values of the constants under the ASSUMEs of the module:

| theorem | states | module |
|---|---|---|
| TypeCorrect | []TypeOK | SmcCrtEaProofs, RiskGatewayProofs, TradingDeskProofs, GoldReplaysProofs, DecisionProofs |
| DailyLossStopsOrders | NoOrderUnderDailyLoss | SmcCrtEaProofs |
| LedgerAlwaysAgrees | []LedgerMatchesBroker | SmcCrtEaProofs |
| StopsOnlyTighten | StopNeverLoosens | SmcCrtEaProofs |
| OneTradeThroughout | []OneTradeAtATime | SmcCrtEaTradeProofs |
| NothingOutlives | []NothingOutlivesItsTime | SmcCrtEaTradeProofs |
| KeepsTheContract | ImplementsContract | SmcCrtEaTradeProofs |
| PositionsKeepVolume | []PartialsLeaveAPosition | SmcCrtEaTradeProofs |
| ClockIsKept | ClockNeverRestarts | SmcCrtEaTradeProofs |
| OrdersWithinAllCaps | []WithinAllCaps | RiskGatewayProofs |
| LongStreakFreezes | []LongStreakIsFrozen | RiskGatewayProofs |
| FreezeIsKept | FreezeHolds | RiskGatewayProofs |
| NothingIsEverLost | []NothingIsLost | DecisionProofs |
| CapHeldPerProcess | []ExposureWithinCaps | TradingDeskProofs |
| HighWaterKept | []PeakIsKept | TradingDeskProofs |
| SetupsTradedOnce | []OneTradePerSetup | GoldReplaysProofs |
| RowsWithinBrackets | []TradesStayInBracket | GoldReplaysProofs |
| LookAheadEndsWithTheCandle | []LookAheadIsBounded | GoldReplaysProofs |
| V2ImplementsV1 | ImplementsV1 | GoldReplaysProofs |
| SetupsAreFollowed | TradesFollowTheirSetup | GoldReplaysProofs |
| EnginesAlwaysAgree | []EnginesAgree | TradeReplaysProofs |
| PartsAlwaysKeepTheirWorth | []PartsKeepTheirWorth | TradeReplaysProofs |
| StepsTightenForAllBars | StepsOnlyTighten | TradeReplaysProofs |
| SignalTradesAlwaysKeepTheirStops | []SignalTradesKeepTheirStops | TradeReplaysProofs |
| GuardedExitsAlwaysHold | []GuardedExitsHold | TradeReplaysProofs |
| BuysLowForAllPrices | []TrailingBuysLow | TradeReplaysProofs |
| GuardedEntriesAlwaysHold | []GuardedEntriesHold | TradeReplaysProofs |
| UniverseRunsAlwaysRepeat | []UniverseRunsRepeat | TradeReplaysProofs |
| TypesAlwaysHold | []TypeOK | TradeReplaysProofs |
| PlansAreBacked | []PlanIsBacked | DecisionProofs |
| SentimentAlwaysKeepsItsLimits | []SentimentKeepsItsLimits | DecisionProofs |
| BiasIsAlwaysBalanced | []BiasIsBalanced | DecisionProofs |
| ProvidersAlwaysKeepTheirRules | []ProvidersKeepTheirRules | DecisionProofs |

*Ledger.* LedgerMatchesBroker speaks of open positions only and is not inductive:
a fill would open a position about which nothing is known. `LedgerInv` adds that a
ticket never filled has no ledger, that a pending order has its whole lot and its first
stop, and that a ledger not known holds no initial stop. The step through `Managed` is
split along its three outcomes, and the pass along the two partials (`WorkAgrees`). The theorems have the hypothesis
`Fault \cap Unchecked = {}`: the requests whose result the code does not look
at (the two `PositionModify`, closing on the holding limit, on the hard kill and
on Fridays) succeed, and no crash falls between a partial and its entry. Without
it the claim is false of the code, which section 5 names.

*Trades.* OneTradeThroughout has the hypothesis `Orderly`: no restart, and the deletion of an
expired order succeeds (EaRestartTwice shows that a restart is fatal to it). `TradeInv` says that no
order rests while the program is idle, looks for an entry or has a position, and that the
bars of orders already sent are behind the bar of the present trigger. NothingOutlives adds
`CalmMarket`: no Friday, no loss at the limits, no refused close that is not looked at; each
of them makes the program return before the step that would end the order, or forget the
ledger. Its invariant `LifeInv` ties the entry time in the ledger to the time of the fill and the last
quote. PositionsKeepVolume needs no hypothesis at all: a position's volume is bounded below by
what the floors of both partials leave, however often a crash makes them repeat.
KeepsTheContract is the refinement: the initial state maps to an initial state, and each
handler to a step of TradeContract or a stutter, `Managed` by its outcomes.

*Gateway.* `DecisionInv` remembers that an order passed all checks and has the size
`Qty`; lemmas turn a bound on `x \div y` into one on the product. LongStreakIsFrozen
needs `BreakerInv`: the count falls behind the alerts in a row by less than the
configured number, and only by a thaw, after which there is no freeze to thaw.
`FreezeWasSet` bounds the end of a freeze by the clock: an alert that sets it anew can
then only prolong it.

*Ingestion.* `FeedInv`: the types, SeenIsStored and NoRowLost are inductive together: a skipped row
is stored because it was seen, a stored one because of the commit, every exception, that of a refused
statement included, drops the page, and a restart seeds `seen` from the table alone.

*Desk.* PeakIsKept is false in the middle of an update. The invariant says of an
undisturbed desk that there is one update at most, that its process carries the
larger of its own equity and the highest written before, and that until it
truncates the file the file is as it was.

CapHeldPerProcess is about a sum over processes, whose accounts are read one call after
the other. `RoomInv`: what is open, and for every process what it may still add, measured
by the exposure *it has read*, are together one cap for each process; no step but a fill
moves room into a position. A sum over a finite set is a fold, which here is reached by
induction over subsets stated in set form (SmallestSubset, GrowingSubsets, CountingUp):
SumUnfold and SumSteps are what a sum does when one of its terms changes, SumBound and
SumChange what the invariant needs. It says of itself when it holds: no plan is short
(DeskShort shows what a short plan does to the cap).

*Gold replays.* One invariant for each engine. `CrtInv` needs `WickInv`: while the reference
may be traded, a wick lies beyond the edge and beyond every price seen since, and without a
sweep no price passed the edge; from it the stop of an entry lies beyond all that it should.
`V2Inv` bounds the ranges of the second engine, and the refinement is proved action by
action: a step of run_crt_v2, with its costs forgotten, is the step of run_crt_backtest that
takes the same bar, or none. `BlockInv` carries BrokenIsGone: a direction whose block was closed through
has none. `SweepInv` counts the candles an armed sweep has left. `TfmInv` relates every trade of
the replay to its level, marked as used, and the order of trades; what levels and directions
look at is a matter of the functions alone: LookAheadEndsWithTheCandle says that swing levels
look at no later bar and the two users of the H4 index at no bar after the candle they lie in
(CausalMap: a function of a prefix is one of the longer history, too; WholeCandle: a closed H4 candle has
all its bars). That they do look at later bars of that candle is the run TfmLookAhead. `LabInv` holds
for each of the three rules what its stop is worth at the worst price of the bar.

*Trade replays.* EnginesAlwaysAgree compares three programs on one history. Each of them looks for a
first or a last bar, which the model says by CHOOSE; LeastExists and GreatestExists give what is
chosen, and the window of one program contains the bar the other found. How the live
engine stands to the simulation is `FillInv`: `Going` lists what an open trade may
have booked with so many targets taken, `Beside` how many of them the engine may have taken then, and
`Booked` says both of what a bar makes of the trade. FillReach is the step from one to the other: a price
reaches the i-th target of a fill that is no better than the order's price only if it reaches the order's, and the
other way round, by the products that r_multiple brings in (PositiveTimes). `PartInv` does the same for partial exits: PartAt gives worth and costs
for each number of levels taken. The freqtrade strategies (`NasosInv`, `SignalInv`, `Nfi5Inv`,
`ArcaneInv`) share the bot's loop: a lemma for what the callbacks answer when no exit goes through
(`ArcaneAsk`, ...), one for the tick, which sets the stop before they are asked.
`TrailingInv` orders limit, start and the lowest price seen while an order
trails; the product with the offset is compared by `LesserProduct`.

GuardedEntriesAlwaysHold is about tables and needs little of the state, which is why the types of the
four bots come first (`Nfi5Typed`, `ArcaneTyped`, ...; `Listed`: the exit
that went through is the last one asked). Nfi5Nested: the thresholds of the strict, normal and loose protections are ordered, so their
conditions are. ArcaneProtected is that the port's tables are the original's (ArcaneTables); ArcaneCustom
compares the two custom exits as lists of rules, of which the first that holds decides (PortedDue).
That a rule is dead is an argument about where it stands: an ewo_momentum entry asks for two prices
no candle has (ArcaneNoEwo), the Ichimoku exit asks for an entry on its own candle, and a candle that
buys sells nothing (ArcaneNoIchimoku, ArcaneSignal); ArcaneDeadStep keeps that no trade has such a name.

*Universe backtest.* `UniverseInv` joins three things. UniverseTypes: a file that is not
a complete one has no days. FromFiles, of the frames of this run and of the last: a frame is
as long as its file is now, or empty; it survives a later write because only symbols
without a file get one (FilesGrow). `UniverseTrades`: the trades so far are those of the days so far (`Earned`), and
those of the last run of all its days. RunsRepeat follows: the frames of two runs that load the same symbols are equal, and
`Earned` has one result for one set of frames (EarnedOnce, day by day). What a day
trades needs that a sort has a k-th member for each k: `Ranks` proves it for any strict total order
of a finite set, on which the number of what is ahead is an injection, and it serves load_universe and day_symbols;
FlattenType says the same of sequences put one after the other. ScanIsCausal is SameDaySymbols: history, volume and
gap read nothing after the day. DrawdownIsDeepest is CurveFalls, for each trade on the curve: the peak is the
highest of its points so far, the fall the deepest so far.

*Decision.* `GraphInv`: what an agent wrote is what its model said, the channel is empty until all
are done and then holds one signal of each in the order of the names, and the plan is the
orchestrator's for just these signals. PlanIsBacked then is counting: the signals for a
direction are as many as the agents that said it (BackersCount), a winner has the floor of four
half votes (WinnerHasTheFloor), so at most one of its two sources is the VWAP. The levels
need that a finite set of prices has a first one on the way up or down (FirstExists).

`NodeInv` carries `CallsInv`: a call is at most one limit (or set-up) old, and it began at most one
such span after the node was entered, because only the first attempt is repeated. What
`fuzzy_deduplicate` keeps of *any* window is said of its recursive function: that it exists
(RunsExist) and what each of its steps keeps (KeptKeeps) are inductions in set form, from
UpTo, a set of numbers closed under the next one. BaselineAverages bounds the two averages by
their weights.

`BiasInv` says only that the result is the score of the bar; the rest is arithmetic about
five weighted votes: `Part` names a product of side and weight, so that the provers see sums
without products. `RuleInv` and `CrtInv` say what was asked and that the bars of the running candle follow
each other; SetupOfASweep gives the one form a setup can have, TwoVotesWeigh and TallyOfTwo
what the orchestrator makes of the two votes it becomes.

Only model-checked:

* EveryCallReturns and PollingGoesOn: liveness under fairness is beyond the prover.

All other properties of the runs that pass are proved.

An induction over data would need a theorem with an operator as its parameter; where this
section speaks of sums over sets or of a recursive function, the induction is over a set of
sets or of numbers and needs none.

## 5. Where code and documents part, without a run

Expert advisor and its simulations

* The soft halt returns before the expiry check: a resting order stays and may be filled
  (`EA`:252, strategy document l. 797). A partial crash-repeated takes another part of what is left.
* The result of `PositionModify` after a partial is not looked at (`EA`:679) and the
  move is never tried again; the strategy document promises the stop at break-even (l. 784).
* A refused close on the holding limit deletes the ledger all the same
  (`EA`:643), so the clock of the holding period starts again (l. 374, 783).
* `CopyRates` includes the bar still forming in the search for the shift (ICT-MultiTF `README.md`:518).
* `phase2_engine.py` accepts fills before the structure shift (528), ignores `valid_until`, does not hold the entry bar
  against the stop, and credits the spread on exits at a close (334, 394; `README.md`:216).

Trading system

* The count of alerts is thrown away by the thaw, so three in a row can pass
  (`risk/models.py`:96, `README.md`:236). A flat plan with an alert is not counted; an alert
  during a freeze prolongs it.
* The percentage stop floor is not widened by an alert (`risk/gateway.py`:96), and
  `run_symbol` never hands over an ATR, so this floor is the one in use (`README.md`:60).
* `submit_bracket` sends a market order without stop or targets
  (`data/alpaca_adapter.py`:102; `README.md`:66, 166).
* `_retry` wraps conversion and storing as well as the fetch; a tweet that can
  not be converted hides the older rows of its page.
* Two processes that update the high-water file at once may lower it, and one that
  dies after truncating it makes the next start from its own equity
  (`run_phase2.py`:50-53). `disturbed` marks both.
* "Classic 3 of 5" (`agents/orchestrator.py`:7-10): with two long votes and three flat ones two suffice. A score above 5 raises,
  which the enabled agents can not reach but `x_sentiment` with its weight could. The sentiment node is not wired
  into the graph though `README.md`:45-52 draws it.
* A RuntimeError of the model's client makes a second call: the "hard 3-second timeout"
  (`agents/x_sentiment_agent.py`:139) may be six and more. The moving average weighs the oldest half hour most
  (`features/sentiment_engine.py`:182).
* `target_mode` r_multiple (`backtest/fills.py`:113-130) lays the simulated targets from the fill, the live engine has the
  order's: "Mirrors the live execution plan" (`backtest/fills.py`:6) is true of structural targets only (MirrorsExecution).
  In both modes the break-even stop is the fill in the simulation (217) and the order's price in the live
  engine (`execution/engine.py`:67).
* A gap through the stop is booked at the stop, a target behind the fill as a target (`backtest/fills.py`); the trailing stop is raised by a
  bar's high before its low is asked.
* `PullbackSignalProvider` names two changes and makes four (`backtest/providers.py`:54-66, 130-139). The two votes of the sweep provider
  come from one setup: live, with a threshold of 3, the VWAP decides.
* `kill_criterion_met` of the universe backtest looks at counts only, not at the average result; "trailing 20-day avg" is over all earlier
  days, "14-bar ATR" is the range of the day before (`data/scanner.py`:11-12). A file torn in `pickle.dump`
  makes every later run fail; a range fetched too early stays as it is.

Backtests and strategies

* `crt_full_engine.py`:31 "One trade per reference candle": nothing keeps it. `crt_engine.py`:21: wicks during an open trade do not
  count for the next stop. A trade open at the end of the data is dropped.
* `gold_ict_engine.py`: a broken block is only dropped while the session lasts and no trade is open (l. 11).
  `po3_engine.py` looks for its gap at the end of the whole data set (86-96).
* TimesFM: the context of the foundation model leaves the present bar out; a forecast's gate is judged against an older close.
* `run_gold_trend.py`: `ema_cross` leaves at the open of the bar whose close crossed, and enters without a
  cross; an entry of `asian_breakout` may come after its exit; an open beyond the stop is booked at the stop.
* `ArcaneLiM2.py`: `trend_bullish & ema_50_1h > ema_200_1h` (1260) compares a Boolean with a price; `ewo_momentum` never buys (1504), the
  exit of the Ichimoku entry never sells (2084), the trail announced as 2.5 percent is 0.2 (309).
* NASOS: the first exit at 3.6 percent is called 3, the refusal of a sell signal has no limit, a stop-loss may be refused three times,
  a trailing signal never expires.
* `ElliotV5_LongShort.py`: the "symmetric" short side reads the other average. `StatisticalArbitrageStrategy.py`: a
  failed request counts as no inflow.
* Bias engine: a missing ADX counts as a trend.

## 6. Not modelled

Indicator arithmetic, charts, price data and the answers of language models are
data the control does not depend on, or choices. Of the expert advisor the
lot computation and the session and news filters are choices; floating
point is exact, so `NormalizeLot`'s floor of an inexact quotient is not there; other
experts of the same terminal, which share the news flag, are not there either. The older expert advisors
repeat v1.3. Dashboards, walk-forward and comparison scripts, the scripts of the quant laboratory other than
`run_gold_trend.py`, and the momentum studies are single passes over data frames that
print a report: there is no state to model. The protections of ElliotV8 and the
backtest branch of TrailingBuyStrat are left out; freqtrade itself is modelled from how the
strategies use it.

What a later extension would take up: the session clock of the expert advisor across
daylight saving time.
