---------------------------- MODULE ArcaneTrade ----------------------------
(***************************************************************************)
(* A trade under ArcaneLiM2: its callbacks in freqtrade's loop, compared   *)
(* with the strategy its conditions come from.                             *)
(***************************************************************************)
EXTENDS ArcaneLiM2

CONSTANTS Candles, Rates, Ages

ArcaneAssumption ==
  /\ Rates \subseteq Nat \ {0} /\ Ages \subseteq Nat /\ 0 \in Ages
  /\ \A c \in Candles : c.c50 \in Int /\ c.momentum \in Int

VARIABLES variant, trade, candle, memory, outcome

Leaves(v, t, c) == ExitTag(v, c) # "none" /\ Entry(v, c) = "none"
IgnoreRoi(v, t, c) == FALSE
Kept(m, exit, t, c) == m

\* The entries enabled as shipped, and with the momentum entry.
Settings == {Enabled, Enabled \cup {"bull_momentum"}}

F == INSTANCE FreqtradeTrade
  WITH Variants <- Settings, Memory0 <- "none", After <- Kept

N == INSTANCE Nfi5MOHO

vars == F!vars
Init == F!Init
Next == F!Next
Spec == F!Spec

TypeOK == F!TypeOK

----------------------------------------------------------------------------
Standing == trade # <<>> /\ outcome.done = "none"

\* A trade below its stop is sold, except a momentum trade in its first two
\* hours (confirm_trade_exit refuses nothing else of a stop).
StopIsHonoured ==
  Standing /\ trade.rate <= trade.stop =>
    trade.tag = "bull_momentum" /\ trade.age < 120 /\ trade.stop > Stop0(variant)

\* A profit above the offset once seen is kept but for two per mille of the
\* rate it was seen at: the stop has moved there, and never below the entry.
ProfitIsTrailed ==
  trade # <<>> /\ trade.peak > 1025 => trade.stop >= (trade.peak * 998) \div 1000

\* A return on investment that is due is refused only in the name of a trend
\* or of a momentum trade.
RoiWaitsForATrend ==
  Standing /\ F!Profit(trade) > Roi(variant, trade.age) => Active(candle) \/ trade.tag = "bull_momentum"

\* A trade is not held for a trend in a falling market once it is five percent
\* up and its return is due.
BearTakesProfit ==
  Standing /\ detect_market_regime(candle) = "BEAR" /\ F!Profit(trade) > 50 =>
    F!Profit(trade) <= Roi(variant, trade.age)

\* The rising market is told by the price or the averages, and the trend flag
\* alone never turns a falling one into it (detect_market_regime).
BullIsSeenInThePrice ==
  detect_market_regime(candle) = "BULL" => candle.momentum > 20 \/ candle.aligned

\* The exit written for the ichimoku entry never goes through: it asks for the
\* entry in the same candle, and a candle that says buy sells nothing.
IchimokuExitIsDead ==
  outcome.done = "signal" => ExitTag(variant, candle) # "ichimoku_dema_exit"

\* The entry called ewo_momentum is enabled and never made: it asks for a
\* close below 0.935 and above 0.968 of the same average.
EwoMomentumIsDead == trade # <<>> => trade.tag # "ewo_momentum"

\* The conditions and the custom exit are those of NFI5MOHO_WIP: the same
\* candle is protected the same way and a trade is given up for the same reason.
PortsNfi5 ==
  /\ \A n \in DOMAIN Guard : G!Protected(candle, n) <=> N!G!Protected(candle, n)
  /\ trade # <<>> => CustomSell(trade, candle) = N!CustomSell(trade, candle)
=============================================================================
