------------------------------- MODULE Nasos -------------------------------
(***************************************************************************)
(* The NASOS strategies: offsets from two moving averages and the Elliott  *)
(* wave oscillator, a stop that trails or is locked in steps, and exits    *)
(* held back while their price slips; and a trade under one of them, its   *)
(* callbacks in freqtrade's loop, with the retries the strategy counts for *)
(* the pair.                                                               *)
(*                                                                         *)
(* v is the variant; prices, profits and offsets are in per mille, the     *)
(* oscillator in thousandths, the RSI in tenths.                           *)
(***************************************************************************)
EXTENDS Integers, Sequences

CONSTANTS Candles, Rates, Ages

NasosAssumption ==
  /\ Rates \subseteq Nat \ {0} /\ Ages \subseteq Nat /\ 0 \in Ages
  /\ \A c \in Candles : {c.sell, c.close} \subseteq Int

VARIABLES variant, trade, candle, memory, outcome

\* NASOSv5_mod3: buy and sell parameters, roi, stoploss, the trailing stop.
V5 ==
  [fast |-> 270, rsi |-> 800, rsi1 |-> 440, rsi2 |-> 250, low |-> 984, low2 |-> 901,
   ewo |-> 4299, ewo2 |-> 8492, ewoLow |-> -8476, room |-> 1036, pumped |-> FALSE,
   high |-> 1010, high2 |-> 1142, roi |-> 400, stop |-> 700, trail |-> TRUE, from |-> 30]

\* NASOSv5HO: its own parameters, roi and stop.
V5HO ==
  [V5 EXCEPT !.fast = 400, !.rsi = 720, !.low = 988, !.low2 = 974, !.ewo = 4130, !.ewo2 = 4477,
             !.ewoLow = -19076, !.room = 1049, !.high = 1012, !.high2 = 1431, !.roi = 100,
             !.stop = 900]

\* NASOSv5PD: no extra bound on the RSI of the first entry, a wider one on the
\* second, nothing after a pump.
V5PD == [V5 EXCEPT !.rsi1 = 1000, !.rsi2 = 350, !.pumped = TRUE]

\* NASOSv5SL: the stop is the custom one.
V5SL == [V5 EXCEPT !.trail = FALSE]

\* NASOSv4.  Its custom stop is written but not used (use_custom_stoploss).
V4 ==
  [fast |-> 350, rsi |-> 720, rsi1 |-> 1000, rsi2 |-> 250, low |-> 984, low2 |-> 942,
   ewo |-> 2403, ewo2 |-> -5585, ewoLow |-> -14378, room |-> 1008, pumped |-> FALSE,
   high |-> 1084, high2 |-> 1401, roi |-> 10000, stop |-> 850, trail |-> TRUE, from |-> 16]

\* Mutant: the close is not compared with the second average.
Bug_Near(v, c) == c.rsiFast < v.fast

\* What the three entries share.
Near(v, c) == c.rsiFast < v.fast /\ c.sell < v.high

\* populate_buy_trend: the last of the three entries that hold, none where the
\* highest recent close leaves no room (or after a pump).  "buy" and "sell" are
\* the close over the two averages.
Entry(v, c) ==
  LET ewo1 == Near(v, c) /\ c.buy < v.low /\ c.ewo > v.ewo /\ c.rsi < v.rsi /\ c.rsi < v.rsi1
      ewo2 == Near(v, c) /\ c.buy < v.low2 /\ c.ewo > v.ewo2 /\ c.rsi < v.rsi /\ c.rsi < v.rsi2
      ewolow == Near(v, c) /\ c.buy < v.low /\ c.ewo < v.ewoLow
      spoilt == c.room < v.room \/ (v.pumped /\ c.pump)
  IN  IF spoilt THEN "none"
      ELSE IF ewolow THEN "ewolow" ELSE IF ewo2 THEN "ewo2" ELSE IF ewo1 THEN "ewo1" ELSE "none"

\* populate_sell_trend
ExitTag(v, c) ==
  LET strong == c.overSma /\ c.sell > v.high2 /\ c.rsi > 500
      weak == ~c.overHma /\ c.sell > v.high
  IN  IF c.rising /\ (strong \/ weak) THEN "sell" ELSE "none"

\* Mutant: beyond the second threshold the stop starts from nothing.
Bug_SlProfit(p) ==
  CASE p > 65 -> p - 65
    [] p > 19 /\ p <= 65 -> 19 + ((p - 19) * (62 - 19)) \div (65 - 19)
    [] OTHER -> -178

\* The profit the custom stop of NASOSv5SL keeps: the hard stop, interpolated
\* between the thresholds, then three per mille below the profit.
SlProfit(p) ==
  CASE p > 65 -> 62 + (p - 65)
    [] p > 19 /\ p <= 65 -> 19 + ((p - 19) * (62 - 19)) \div (65 - 19)
    [] OTHER -> -178

\* Mutant: the offset is not looked at.
Bug_StopFor(v, t) ==
  LET p == t.rate - 1000
  IN  IF v.trail THEN (t.rate * 999) \div 1000
      ELSE IF SlProfit(p) >= p THEN t.rate \div 100 ELSE 1000 + SlProfit(p)

\* The stop asked for at a rate: custom, trailing above the offset, or none.
StopFor(v, t) ==
  LET p == t.rate - 1000
  IN  CASE ~v.trail -> IF SlProfit(p) >= p THEN t.rate \div 100 ELSE 1000 + SlProfit(p)
        [] v.trail /\ p > v.from -> (t.rate * 999) \div 1000
        [] OTHER -> v.stop

Stop0(v) == v.stop

\* minimal_roi has one row.
Roi(v, age) == v.roi

Retries == 3

Slipped(t, c) == t.rate * 1000 < c.close * 980

\* A sell signal is refused far below an average that is still held up.
SignalHeld(c) == c.strong /\ c.deep

\* Mutant: the bound on the retries is one too high.
Bug_Confirm(m, exit, t, c) ==
  /\ ~(exit = "signal" /\ SignalHeld(c))
  /\ Slipped(t, c) => m >= Retries + 1

\* confirm_trade_exit, with the retries of the pair as its memory.
Confirm(m, exit, t, c) ==
  /\ ~(exit = "signal" /\ SignalHeld(c))
  /\ Slipped(t, c) => m >= Retries

\* Mutant: the counter is not reset by an exit that goes through.
Bug_After(m, exit, t, c) ==
  IF exit = "signal" /\ SignalHeld(c) THEN m
  ELSE IF Slipped(t, c) /\ m < Retries THEN m + 1 ELSE m

\* What is left in the pair's counter.
After(m, exit, t, c) ==
  IF exit = "signal" /\ SignalHeld(c) THEN m
  ELSE IF Slipped(t, c) /\ m < Retries THEN m + 1 ELSE 0

----------------------------------------------------------------------------
\* A trade

Leaves(v, t, c) == ExitTag(v, c) # "none" /\ Entry(v, c) = "none"
IgnoreRoi(v, t, c) == FALSE
NoCustomSell(t, c) == "none"

F == INSTANCE FreqtradeTrade
  WITH Variants <- {V4, V5, V5HO, V5PD, V5SL}, Memory0 <- 0,
       CustomSell <- NoCustomSell

vars == F!vars
Init == F!Init
Next == F!Next
Spec == F!Spec

TypeOK == F!TypeOK /\ memory \in 0..Retries

----------------------------------------------------------------------------
Standing == trade # <<>> /\ outcome.done = "none"

\* Whatever refused an exit before, the pair starts its next trade with all
\* its retries, and no exit is asked for more than three times while its price
\* slips (slippage_protection).
RetriesStartAfresh == trade = <<>> => memory = 0

\* An exit that is due and is no signal goes through once the retries are used.
AskIsGranted ==
  memory = Retries /\ trade # <<>> /\ outcome'.asked # <<>> =>
    outcome'.done # "none" \/ outcome'.asked = <<"signal">>

FourthAskIsGranted == [][AskIsGranted]_vars

\* Under NASOSv5SL the stop of a trade that was two percent up lies that much
\* above the entry, and once it was seven percent up within three per mille of
\* the peak (custom_stoploss).
ProfitIsLockedIn ==
  variant = V5SL /\ trade # <<>> =>
    /\ trade.peak > 1019 => trade.stop >= 1019
    /\ trade.peak > 1065 => trade.stop >= trade.peak - 3

\* A stop moves above the entry or stays where the strategy's loss is.
StopsAreLossOrProfit ==
  trade # <<>> => trade.stop > 1000 \/ trade.stop \in {variant.stop, 822}

\* No candle says buy and sell at once: freqtrade would ignore the sell.
BuyExcludesSell == Entry(variant, candle) = "none" \/ ExitTag(variant, candle) = "none"
=============================================================================
