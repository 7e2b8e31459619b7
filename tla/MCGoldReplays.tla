---------------------------- MODULE MCGoldReplays ----------------------------
(***************************************************************************)
(* The gold backtests side by side, for TLC: one of them is chosen at the  *)
(* start and runs, the others stay where they began, so that the states to *)
(* explore are the sum of theirs.                                          *)
(***************************************************************************)
EXTENDS Integers, Sequences

CONSTANTS
  MaxHold, Spread, Slip, Lookback,
  CrtPrices, CrtBuffer, CrtMinRR,
  V2Prices, V2Buffer, V2MinRR,
  Prices, Buffer, RR,            \* of the block and the sweep replay
  Breach, BreachHtf,
  MaxSweep, StructRR,
  TfmCandles, MaxBars, PerH4, Left, Right, Context, Stride, Horizon, MinMove, Forecast(_),
  Tol, TfmBuffer, TfmRR,
  TrendCandles, MinAsia, TargetR

VARIABLES
  which,   \* the backtest that runs; the prefixes are those of the six below
  cEngine, cRef, cTrend, cWick, cSwept, cTraded, cPos, cRow, cEntries, cWorst,
  vHigh, vLow, vTrend, vBull, vBear, vLo, vHi, vTraded, vPos, vNet, vEntries, vWorst,
  bEngine, bBlock, bTrend, bPos, bRow, bThrough,
  sEngine, sSweep, sPos, sAge, sUsed,
  tSetting, tBars, tBar, tUsed, tTrades,
  gRule, gPast, gCur, gPart, gBox, gSide, gEntry, gStop, gRisk, gStage, gResult

crt == <<cEngine, cRef, cTrend, cWick, cSwept, cTraded, cPos, cRow, cEntries, cWorst>>
v2  == <<vHigh, vLow, vTrend, vBull, vBear, vLo, vHi, vTraded, vPos, vNet, vEntries, vWorst>>
ob  == <<bEngine, bBlock, bTrend, bPos, bRow, bThrough>>
po3 == <<sEngine, sSweep, sPos, sAge, sUsed>>
tfm == <<tSetting, tBars, tBar, tUsed, tTrades>>
lab == <<gRule, gPast, gCur, gPart, gBox, gSide, gEntry, gStop, gRisk, gStage, gResult>>
vars == <<which, crt, v2, ob, po3, tfm, lab>>

CR == INSTANCE CrtReplay
  WITH Prices <- CrtPrices, Engines <- {"crt", "full"}, Buffer <- CrtBuffer, MinRR <- CrtMinRR,
       engine <- cEngine, ref <- cRef, trend <- cTrend, wick <- cWick, swept <- cSwept,
       traded <- cTraded, pos <- cPos, row <- cRow, entries <- cEntries, worst <- cWorst

V2 == INSTANCE CrtReplayV2
  WITH Prices <- V2Prices, Buffer <- V2Buffer, MinRR <- V2MinRR,
       refHigh <- vHigh, refLow <- vLow, trend <- vTrend, sweptBull <- vBull, sweptBear <- vBear,
       sweepLo <- vLo, sweepHi <- vHi, refTraded <- vTraded, pos <- vPos, net <- vNet,
       entries <- vEntries, worst <- vWorst

OB == INSTANCE BlockReplay
  WITH Engines <- {"v1", "v2"},
       engine <- bEngine, block <- bBlock, trend <- bTrend, pos <- bPos, row <- bRow,
       through <- bThrough

SW == INSTANCE SweepReplay
  WITH Engines <- {"v1", "v2"},
       engine <- sEngine, sweep <- sSweep, pos <- sPos, age <- sAge, used <- sUsed

TF == INSTANCE TimesFm
  WITH Candles <- TfmCandles, Buffer <- TfmBuffer, RR <- TfmRR,
       setting <- tSetting, bars <- tBars, i <- tBar, used <- tUsed, trades <- tTrades

GT == INSTANCE GoldTrend
  WITH Candles <- TrendCandles,
       rule <- gRule, past <- gPast, cur <- gCur, part <- gPart, box <- gBox, side <- gSide,
       entry <- gEntry, stop <- gStop, risk <- gRisk, stage <- gStage, result <- gResult

ASSUME GoldAssumption ==
  /\ CR!BracketAssumption /\ CR!CrtAssumption
  /\ V2!BracketAssumption /\ V2!CostAssumption
  /\ OB!BracketAssumption /\ OB!BlockAssumption
  /\ SW!BracketAssumption /\ SW!SweepAssumption
  /\ TF!TfmAssumption
  /\ GT!TrendAssumption

Init ==
  /\ which \in {"crt", "crt_v2", "ob", "po3", "tfm", "trend"}
  /\ CR!Init /\ V2!Init /\ OB!Init /\ SW!Init
  /\ which # "tfm" => tSetting = [forecaster |-> "baseline", levels |-> "swing"]
  /\ TF!Init
  /\ which # "trend" => gRule = "donchian" /\ gCur = CHOOSE c \in TrendCandles : TRUE
  /\ GT!Init
  /\ which # "crt" => cEngine = "crt"
  /\ which # "ob"  => bEngine = "v1"
  /\ which # "po3" => sEngine = "v1"

Next ==
  \/ which = "crt" /\ CR!Next /\ UNCHANGED <<which, v2, ob, po3, tfm, lab>>
  \/ which = "crt_v2" /\ V2!Next /\ UNCHANGED <<which, crt, ob, po3, tfm, lab>>
  \/ which = "ob" /\ OB!Next /\ UNCHANGED <<which, crt, v2, po3, tfm, lab>>
  \/ which = "po3" /\ SW!Next /\ UNCHANGED <<which, crt, v2, ob, tfm, lab>>
  \/ which = "tfm" /\ TF!Next /\ UNCHANGED <<which, crt, v2, ob, po3, lab>>
  \/ which = "trend" /\ GT!Next /\ UNCHANGED <<which, crt, v2, ob, po3, tfm>>

Spec == Init /\ [][Next]_vars

----------------------------------------------------------------------------
\* The types of the six.
TypeOK == CR!TypeOK /\ OB!TypeOK /\ SW!TypeOK /\ TF!TypeOK /\ GT!TypeOK

\* A setup is traded once: a reference candle opens one trade in run_crt_backtest, a
\* level one in run_tfm, which opens it from the level's own side.
OneTradePerSetup == CR!OneTradePerReference /\ TF!LevelsAreTradedOnce

\* No row of the candle-range and order-block backtests, of run_tfm and of
\* run_gold_trend books more than its bracket allows.
TradesStayInBracket ==
  /\ CR!RealizedWithinRisk
  /\ OB!RealizedWithinBracket
  /\ TF!TradeStaysInBracket
  /\ GT!LossIsBounded

\* What run_tfm sees of a swing does not change with later bars; what it sees of the H4
\* candles does, until the end of the candle the bar is part of and no longer.
LookAheadIsBounded == TF!SwingIsCausal /\ TF!SettledWithItsCandle

\* Of the H4 candles' direction and their levels, one at least is settled when run_tfm sees it.
H4IsCausal == TF!H4IsCausal

\* run_crt_v2 does what run_crt_backtest does.
ImplementsV1 == V2!ImplementsV1

\* Entries and stops keep to their setups: a stop beyond everything seen since the
\* reference (run_crt_backtest), no entry on a broken block (ict_ob_engine), one on a
\* sweep, while it is fresh (po3_engine), a trailing stop that only tightens (gold_trend).
TradesFollowTheirSetup ==
  /\ CR!StopBeyondWick
  /\ OB!EntersStandingBlock
  /\ SW!OneTradePerSweep
  /\ SW!SweepIsFresh
  /\ GT!TrailOnlyTightens

----------------------------------------------------------------------------
\* Candles and a forecaster for TLC

OHLC(op, hi, lo, cl) == [op |-> op, hi |-> hi, lo |-> lo, cl |-> cl]

\* A low that is rejected, a rise that confirms it, a return to it, a high that is
\* rejected and a fall through everything.
MCTfmCandles ==
  {OHLC(110, 112, 100, 110), OHLC(110, 124, 108, 122), OHLC(122, 122, 102, 118),
   OHLC(118, 145, 116, 122), OHLC(118, 119, 90, 92)}

\* A model that goes on as the candles before.
MCForecast(c) ==
  LET last == c[Len(c)]
  IN  [med |-> 2 * last - c[1], lo |-> last - 2, hi |-> last + 2]

\* Prices are even, so that the middle of a range is whole: a quiet bar, a rise and
\* its end, a fall, and a bar far away.
Bar(op, hi, lo, cl, atr, ema) ==
  [op |-> op, hi |-> hi, lo |-> lo, cl |-> cl, atr |-> atr, ema |-> ema]
MCTrendCandles ==
  {Bar(4, 6, 2, 4, 2, 0), Bar(4, 10, 4, 10, 4, 1), Bar(10, 12, 8, 8, 6, 1), Bar(6, 6, 0, 2, 4, -1),
   Bar(12, 16, 12, 14, 2, 1)}
=============================================================================
