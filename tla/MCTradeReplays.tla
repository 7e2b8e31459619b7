--------------------------- MODULE MCTradeReplays ---------------------------
(***************************************************************************)
(* The life of one trade in the other backtests, for TLC: the search for   *)
(* an entry and the trade with its partial exits of ICT-MultiTF, the       *)
(* replay of the trading system with the runner that replays a universe,   *)
(* and the freqtrade strategies.  One of them runs, as in MCGoldReplays.   *)
(***************************************************************************)
EXTENDS Integers, Sequences, TLC

CONSTANTS
  ScanPrices, ScanCandles, MaxBars, Extra, Mid,
  OneR, Targets, Middles, Moves, MaxHold, Spread, Slippage,    \* of the trade in parts
  Prices, Orders, Slip, Trail, MinGap,                         \* of the replay
  Nfi5Candles, Nfi5Rates, Nfi5Ages,
  ArcaneCandles, ArcaneRates, ArcaneAges,
  NasosCandles, NasosRates, NasosAges,
  SignalCandles, SignalRates, SignalAges,
  BuyPrices, Offset,
  Universes, Markets, Shut, FirstDay, LastDay,                 \* of the universe backtest
  LeastGap, MinRvol, MinAtr, MinPrevDays, MaxPerDay, MinTrades, MinSymbols

VARIABLES
  which,
  dir, bars, limit,
  scheme, levels, pLeft, next, pStop, held, booked, charged, pReason,
  mode, aim, phase, order, entry, stop, left, hit, pnl, reason, since, live,
  variant, trade, candle, memory, outcome,
  started, uplimit, start, lowest, bought,
  file, market, published, cache, uPhase, at, loaded, trades, last

scan    == <<dir, bars, limit>>
partial == <<scheme, levels, pLeft, next, pStop, held, booked, charged, pReason>>
replay  == <<mode, aim, phase, order, entry, stop, left, hit, pnl, reason, since, live>>
loop  == <<variant, trade, candle, memory, outcome>>
trailing == <<started, uplimit, start, lowest, bought>>
universe == <<file, market, published, cache, uPhase, at, loaded, trades, last>>
vars == <<which, scan, partial, replay, loop, trailing, universe>>

SC == INSTANCE SetupScan WITH Prices <- ScanPrices, Candles <- ScanCandles, order <- limit

PT == INSTANCE PartialTrade
  WITH R <- OneR, left <- pLeft, stop <- pStop, reason <- pReason

FS == INSTANCE FillSimulator

N5 == INSTANCE Nfi5Trade WITH Candles <- Nfi5Candles, Rates <- Nfi5Rates, Ages <- Nfi5Ages
AR == INSTANCE ArcaneTrade WITH Candles <- ArcaneCandles, Rates <- ArcaneRates, Ages <- ArcaneAges
NA == INSTANCE Nasos WITH Candles <- NasosCandles, Rates <- NasosRates, Ages <- NasosAges
SG == INSTANCE SignalTrade WITH Candles <- SignalCandles, Rates <- SignalRates, Ages <- SignalAges
TB == INSTANCE TrailingBuy WITH Prices <- BuyPrices

UV == INSTANCE Universe
  WITH Files <- Universes, Closed <- Shut, Start <- FirstDay, End <- LastDay, MinGap <- LeastGap,
       now <- published, phase <- uPhase

ASSUME ReplayAssumption ==
  /\ SC!ScanAssumption /\ PT!PartialAssumption /\ FS!FillAssumption /\ TB!TrailingAssumption
  /\ UV!UniverseAssumption
  /\ N5!Nfi5Assumption /\ AR!ArcaneAssumption /\ NA!NasosAssumption /\ SG!SignalAssumption

\* No trade of a bot, and no order that trails.
Resting ==
  /\ variant = "none" /\ trade = <<>> /\ candle = CHOOSE c \in Nfi5Candles : TRUE
  /\ memory = 0 /\ outcome = "none"
NoOrder == started = FALSE /\ uplimit = 0 /\ start = 0 /\ lowest = 0 /\ bought = TB!NoBuy

Init ==
  /\ \/ which \in {"scan", "partial", "replay", "universe"} /\ Resting /\ NoOrder
     \/ which = "nfi5" /\ N5!Init /\ NoOrder
     \/ which = "arcane" /\ AR!Init /\ NoOrder
     \/ which = "nasos" /\ NA!Init /\ NoOrder
     \/ which = "signals" /\ SG!Init /\ NoOrder
     \/ which = "trailing" /\ Resting /\ TB!Init
  /\ SC!Init /\ PT!Init /\ FS!Init
  /\ which # "scan" => dir = "bull"
  /\ which # "partial" => LET t == CHOOSE t \in Targets : TRUE
                            IN  /\ scheme = "B"
                                /\ levels = PT!Levels("B", t, CHOOSE m \in Middles : m =< t)
  /\ which # "replay" => mode = "breakeven" /\ aim = "structural"
  /\ which # "universe" => /\ file = (CHOOSE f \in Universes : TRUE) /\ published = FirstDay - 1
                           /\ market = CHOOSE m \in Markets : TRUE
  /\ UV!Init

Next ==
  \/ which = "scan" /\ SC!Next /\ UNCHANGED <<which, partial, replay, loop, trailing, universe>>
  \/ which = "partial" /\ PT!Next /\ UNCHANGED <<which, scan, replay, loop, trailing, universe>>
  \/ which = "replay" /\ FS!Next /\ UNCHANGED <<which, scan, partial, loop, trailing, universe>>
  \/ /\ \/ which = "nfi5" /\ N5!Next
        \/ which = "arcane" /\ AR!Next
        \/ which = "nasos" /\ NA!Next
        \/ which = "signals" /\ SG!Next
     /\ UNCHANGED <<which, scan, partial, replay, trailing, universe>>
  \/ which = "trailing" /\ TB!Next /\ UNCHANGED <<which, scan, partial, replay, loop, universe>>
  \/ which = "universe" /\ UV!Next /\ UNCHANGED <<which, scan, partial, replay, loop, trailing>>

Spec == Init /\ [][Next]_vars

----------------------------------------------------------------------------
\* The types of all of them.
TypeOK ==
  /\ SC!TypeOK /\ PT!TypeOK /\ FS!TypeOK /\ UV!TypeOK
  /\ which = "nfi5" => N5!TypeOK
  /\ which = "arcane" => AR!TypeOK
  /\ which = "nasos" => NA!TypeOK
  /\ which = "signals" => SG!TypeOK
  /\ which = "trailing" => TB!TypeOK

\* Programs that are said to do the same do: the three of ICT-MultiTF find the same shift
\* and the same levels, and the simulated trade holds what the live engine holds, or less
\* or more of it as its targets are nearer or farther (target_mode r_multiple).
EnginesAgree == SC!SameShift /\ SC!SameLevels /\ FS!MirrorsExecution

\* What a trade in parts books: its levels lock in what they are worth, every part pays
\* its costs once, and the loss is the risk and one slippage at most (phase2_engine, fills).
PartsKeepTheirWorth == PT!LevelsLockIn /\ PT!EveryPartPaysOnce /\ FS!LossIsBounded

\* The exits of NFI5MOHO_WIP and of ArcaneLiM2, which ports it: a trade that came back from
\* its peak is given up and a loss is meant (NFI5MOHO_WIP); a stop that is reached sells, a
\* profit is trailed, returns are refused for a trend only and taken in a falling market
\* (ArcaneLiM2).
GuardedExitsHold ==
  /\ which = "nfi5" => N5!PeakIsGuarded /\ N5!LossesAreMeant
  /\ which = "arcane" => /\ AR!StopIsHonoured /\ AR!ProfitIsTrailed
                         /\ AR!RoiWaitsForATrend /\ AR!BearTakesProfit

\* Their entries: wider protections let more through (NFI5MOHO_WIP), the port is true to
\* its original and knows a rising market by the price; two of its rules are dead.
GuardedEntriesHold ==
  /\ which = "nfi5" => N5!ProtectionsAreNested
  /\ which = "arcane" => /\ AR!PortsNfi5 /\ AR!BullIsSeenInThePrice
                         /\ AR!IchimokuExitIsDead /\ AR!EwoMomentumIsDead

\* A pair starts its next trade with all its retries, a custom stop locks profit in or
\* keeps the strategy's loss, and no candle buys and sells (NASOS); no trade is held
\* through a signal for the other side, the short side is a mirror in oscillator and RSI, a
\* trailed trade cannot lose, and an old one leaves (Elliot strategies).
SignalTradesKeepTheirStops ==
  /\ which = "nasos" => /\ NA!RetriesStartAfresh /\ NA!ProfitIsLockedIn
                        /\ NA!StopsAreLossOrProfit /\ NA!BuyExcludesSell
  /\ which = "signals" => /\ SG!NeverAgainstASignal /\ SG!ShortIsMirrored
                          /\ SG!TrailedTradesWin /\ SG!V8LeavesInTime /\ SG!AgeTakesProfit

\* A trailing buy is a rebound below its signal, at a limit the lowest price set
\* (TrailingBuyStrat).
TrailingBuysLow == which = "trailing" => TB!TrailingBuysLow

\* The universe backtest sees the same twice, nothing of later days, and reports the
\* deepest fall of its curve (run_universe_backtest).
UniverseRunsRepeat == UV!RunsRepeat /\ UV!ScanIsCausal /\ UV!DrawdownIsDeepest

\* The stop of a trade with partial exits never loosens (phase2_engine), and retries that
\* are used up are used up (NASOS).
StepsOnlyTighten ==
  /\ PT!StopNeverLoosens
  /\ [][which = "nasos" => NA!AskIsGranted]_<<which, loop>>

----------------------------------------------------------------------------
\* Candles and orders that make each branch happen, for TLC

OHLC(op, hi, lo, cl) == [op |-> op, hi |-> hi, lo |-> lo, cl |-> cl]

\* A fall that leaves a gap, and a bar back up from its end.
MCScanCandles == {OHLC(6, 8, 5, 7), OHLC(7, 8, 4, 5), OHLC(4, 4, 2, 2), OHLC(3, 4, 1, 4)}

\* Prices that a bar may show.
MCMoves == {-4} \cup -2..5

\* Orders with one to three targets, the last of them with room for a fill that is better
\* than its price.
Approved(side, price, risk, targets) ==
  [side |-> side, entry |-> price, stop |-> risk, targets |-> targets]

MCOrders ==
  {Approved("LONG", 3, 2, <<4, 5, 6>>), Approved("LONG", 3, 1, <<5>>),
   Approved("SHORT", 4, 5, <<3, 2>>), Approved("LONG", 4, 1, <<5, 6>>)}

Dips(a, b, c, d) == 1 :> a @@ 2 :> b @@ 12 :> c @@ 144 :> d
Rise(a, b, c) == 24 :> a @@ 36 :> b @@ 48 :> c

\* A quiet candle of a coin below one unit, with everything either strategy reads.
Calm ==
  [trend |-> {"50h>200h", "200 up 20"}, fall |-> Dips(10, 20, 100, 200),
   rise |-> Rise(100, 100, 100), now |-> Rise(90, 90, 90), own |-> {}, offset |-> FALSE,
   rsi |-> 700, rsi1h |-> 500, above |-> 0, under200 |-> FALSE, over50 |-> TRUE,
   crossed |-> FALSE, overBand |-> FALSE, gap |-> 30, dec |-> FALSE, under100 |-> FALSE,
   bullish |-> FALSE, hour |-> TRUE, price200h |-> 500, ssl |-> TRUE, c50 |-> 990,
   hourly |-> FALSE, overDema |-> FALSE, ewo |-> 1, momentum |-> 0, aligned |-> FALSE,
   stack |-> "mixed", volume |-> 100, sslShare |-> 50]

\* What the exits see.
Moods ==
  {Calm, [Calm EXCEPT !.rsi = 320], [Calm EXCEPT !.rsi = 470], [Calm EXCEPT !.rsi = 830],
   [Calm EXCEPT !.dec = TRUE, !.under100 = TRUE],
   [Calm EXCEPT !.under200 = TRUE, !.rsi = 590],
   [Calm EXCEPT !.under200 = TRUE, !.gap = 3, !.rsi = 750, !.rsi1h = 600]}

\* What the protections see.
Falls ==
  {[Calm EXCEPT !.fall = Dips(18, 100, 300, 450), !.rise = Rise(550, 600, 900),
                !.now = Rise(310, 300, 500)],
   [Calm EXCEPT !.fall = Dips(10, 50, 200, 550), !.rise = Rise(900, 900, 1400),
                !.now = Rise(520, 520, 900)]}

MCNfi5Candles ==
  Moods \cup Falls
    \cup {[Calm EXCEPT !.own = {4}], [Calm EXCEPT !.own = {11}, !.trend = {}],
          [Calm EXCEPT !.offset = TRUE, !.rsi = 830]}

Up == [Calm EXCEPT !.bullish = TRUE, !.momentum = 60, !.aligned = TRUE, !.volume = 120]
Down == [Calm EXCEPT !.momentum = -60, !.stack = "down"]

MCArcaneCandles ==
  {Calm, [Calm EXCEPT !.rsi = 830], Up, [Up EXCEPT !.ewo = -1], [Up EXCEPT !.price200h = 1500],
   [Up EXCEPT !.momentum = 0], Down, [Down EXCEPT !.bullish = TRUE, !.sslShare = 20],
   [Calm EXCEPT !.volume = 120, !.stack = "up", !.sslShare = 80, !.bullish = TRUE],
   [Calm EXCEPT !.dec = TRUE], [Calm EXCEPT !.overDema = TRUE],
   [Calm EXCEPT !.own = {"ichimoku_dema_entry"}, !.hourly = TRUE, !.overDema = TRUE],
   [Calm EXCEPT !.own = {"ewo_momentum"}, !.c50 = 950],
   [Up EXCEPT !.own = {"trend_dema_entry", "bull_momentum"}],
   [Calm EXCEPT !.own = {"nfi5_condition_4", "nfi5_condition_1"}]} \cup Falls
    \cup {[Calm EXCEPT !.trend = {"50h>100h"}, !.rise = Rise(600, 600, 900),
                       !.now = Rise(500, 500, 800)]}

NasosCandle(rsiFast, buy, sell, rising, strong, close) ==
  [rsiFast |-> rsiFast, rsi |-> IF rising THEN 600 ELSE 200, buy |-> buy, sell |-> sell,
   ewo |-> 5000, room |-> 1100, pump |-> FALSE, overSma |-> rising, overHma |-> FALSE,
   rising |-> rising, strong |-> strong, deep |-> strong, close |-> close]

\* An entry, a quiet candle, sell signals that are held or not, and closes the
\* rates have slipped from.
MCNasosCandles ==
  {NasosCandle(200, 980, 990, FALSE, FALSE, 1000), NasosCandle(200, 890, 1050, TRUE, FALSE, 1000),
   NasosCandle(500, 1000, 1000, FALSE, FALSE, 1000), NasosCandle(500, 1000, 1000, FALSE, FALSE, 1070),
   NasosCandle(500, 1000, 1000, FALSE, FALSE, 820), NasosCandle(500, 1000, 1150, TRUE, FALSE, 1000),
   NasosCandle(500, 1000, 1150, TRUE, TRUE, 1000)}

Coin(buy, sell, ewo, rsi) ==
  [buy |-> buy, sell |-> sell, ewo |-> ewo, rsi |-> rsi, rsiFast |-> 300, overHma |-> FALSE,
   rising |-> FALSE, inflows |-> {}, mood |-> {}]

\* Entries of either side, a crossing of the averages at which both sides
\* speak, exits, and answers of the two services.
MCSignalCandles ==
  {Coin(1000, 1000, 0, 500), Coin(970, 980, 4000, 400), Coin(970, 980, -18000, 400),
   Coin(1030, 1030, -4000, 600), Coin(1030, 1030, 18000, 600), Coin(970, 1030, -18000, 300),
   Coin(970, 1030, 4000, 600), Coin(970, 1030, -4000, 600), Coin(1030, 1030, -4000, 300),
   [Coin(1010, 1012, 0, 600) EXCEPT !.rising = TRUE],
   [Coin(1010, 1030, 0, 600) EXCEPT !.rising = TRUE, !.overHma = TRUE, !.mood = {80}],
   [Coin(1010, 1010, 0, 500) EXCEPT !.mood = {80}, !.inflows = {6}],
   [Coin(1010, 1010, 0, 500) EXCEPT !.mood = {20}, !.inflows = {3}]}

Day(op, vol, rs) == [op |-> op, cl |-> 100, range |-> 5, vol |-> vol, rs |-> rs]
Quiet == Day(100, 10, <<1>>)

\* Three symbols that gap alike or not, are loud or shut, with two days of history.
MCMarkets ==
  {[a |-> <<Quiet, Quiet>> \o x, b |-> <<Quiet, Quiet>> \o y, c |-> <<Quiet, Shut>> \o z] :
     x \in {<<Day(105, 30, <<2, -1>>), Day(100, 100, <<1>>)>>,
            <<Day(105, 30, <<-1>>), Day(94, 30, <<1>>)>>},
     y \in {<<Day(105, 30, <<-1>>), Day(104, 30, <<-1, 2>>)>>, <<Shut, Day(94, 30, <<-1>>)>>},
     z \in {<<Quiet, Day(107, 30, <<-1, -1>>)>>, <<Shut, Day(110, 30, <<3>>)>>}}

\* A file with a comment and a symbol it names twice, and a short one.
MCUniverses == {<<"b", "comment", "a", "b", "c">>, <<"a", "b">>}
=============================================================================
