---------------------------- MODULE SignalTrade ----------------------------
(***************************************************************************)
(* A trade under the freqtrade strategies that only give signals:          *)
(* ElliotV5_SMA_ninja, its long-short version, ElliotV8_original_ichiv3    *)
(* and StatisticalArbitrageStrategy.  A candle has the close over the two  *)
(* averages in per mille ("buy", "sell"), the oscillator in thousandths,   *)
(* the RSIs in tenths, and the two services' answers in hundredths.  The   *)
(* rate of a short trade is the value of its position.                     *)
(***************************************************************************)
EXTENDS Integers, Sequences

CONSTANTS Candles, Rates, Ages

SignalAssumption ==
  /\ Rates \subseteq Nat \ {0} /\ Ages \subseteq Nat /\ 0 \in Ages
  /\ Candles \subseteq
       [buy : Int, sell : Int, ewo : Int, rsi : Int, rsiFast : Int, overHma : BOOLEAN,
        rising : BOOLEAN, inflows : SUBSET Int, mood : SUBSET Int]

VARIABLES variant, trade, candle, memory, outcome

\* ElliotV5_SMA_ninja: its parameters, minimal_roi, stoploss, trailing stop.
V5 ==
  [name |-> "V5", low |-> 978, high |-> 1019, ewo |-> 3340, ewoLow |-> -17457, rsi |-> 650,
   roi |-> {<<0, 215>>, <<40, 132>>, <<87, 86>>, <<201, 30>>}, stop |-> 811,
   trail |-> 5, from |-> 30, ignoreRoi |-> TRUE]

\* ElliotV5_LongShort has the same ones.
LongShort == [V5 EXCEPT !.name = "LongShort"]

\* ElliotV8_original_ichiv3.  A return of -1 makes every trade leave.
V8 ==
  [name |-> "V8", low |-> 987, high |-> 1008, high2 |-> 1016, ewo |-> 3147, ewoLow |-> -17145,
   rsi |-> 570, roi |-> {<<0, 990>>, <<200, -1000>>}, stop |-> 800,
   trail |-> 1, from |-> 20, ignoreRoi |-> FALSE]

\* StatisticalArbitrageStrategy: no trailing stop.
StatArb ==
  [name |-> "StatArb", threshold |-> 5, roi |-> {<<0, 100>>, <<30, 50>>, <<60, 10>>},
   stop |-> 900, trail |-> 0, ignoreRoi |-> FALSE]

\* Mutant: the short side keeps the sign of the long side's oscillator.
Bug_ShortSide(v, c) ==
  c.sell > v.high /\ ((c.ewo > v.ewo /\ c.rsi > 1000 - v.rsi) \/ c.ewo > -v.ewoLow)

\* A dip below the fast average in a rise, or a deep one.
LongSide(v, c) == c.buy < v.low /\ ((c.ewo > v.ewo /\ c.rsi < v.rsi) \/ c.ewo < v.ewoLow)

\* The short side of ElliotV5_LongShort.
ShortSide(v, c) ==
  c.sell > v.high /\ ((c.ewo < -v.ewo /\ c.rsi > 1000 - v.rsi) \/ c.ewo > -v.ewoLow)

\* What the services answer, and what a failed request stands for: inflows
\* that are low enough to buy, a sentiment that is not high enough.
Inflows(c) == IF c.inflows = {} THEN 0 ELSE CHOOSE i \in c.inflows : TRUE
Sentiment(c) == IF c.mood = {} THEN 50 ELSE CHOOSE s \in c.mood : TRUE

V8Enters(v, c) == LongSide(v, c) /\ c.rsiFast < 350 /\ c.sell < v.high
ArbEnters(v, c) == Inflows(c) < v.threshold /\ Sentiment(c) > 70

V5Exits(v, c) == c.sell > v.high
ShortExits(v, c) == c.buy < v.low
V8Exits(v, c) ==
  c.rising /\ IF c.overHma THEN c.sell > v.high2 /\ c.rsi > 500 ELSE c.sell > v.high
ArbExits(v, c) == Inflows(c) > v.threshold \/ Sentiment(c) < 30

\* The candle's entry columns.
Enters(v, c) ==
  CASE v.name = "V5" -> {side \in {"long"} : LongSide(v, c)}
    [] v.name = "LongShort" ->
         {side \in {"long", "short"} : IF side = "long" THEN LongSide(v, c) ELSE ShortSide(v, c)}
    [] v.name = "V8" -> {side \in {"long"} : V8Enters(v, c)}
    [] v.name = "StatArb" -> {side \in {"long"} : ArbEnters(v, c)}

\* Mutant: the short side has no exit of its own.
Bug_Exits(v, c) ==
  {side \in {"long"} : IF v.name = "StatArb" THEN ArbExits(v, c) ELSE V5Exits(v, c)}

\* The candle's exit columns.
Exits(v, c) ==
  CASE v.name = "V5" -> {side \in {"long"} : V5Exits(v, c)}
    [] v.name = "LongShort" ->
         {side \in {"long", "short"} : IF side = "long" THEN V5Exits(v, c) ELSE ShortExits(v, c)}
    [] v.name = "V8" -> {side \in {"long"} : V8Exits(v, c)}
    [] v.name = "StatArb" -> {side \in {"long"} : ArbExits(v, c)}

\* An entry counts when no other column of the candle speaks against it.
Entry(v, c) ==
  IF Enters(v, c) = {"long"} /\ "long" \notin Exits(v, c) THEN "long"
  ELSE IF Enters(v, c) = {"short"} /\ "short" \notin Exits(v, c) THEN "short" ELSE "none"

\* Mutant: ElliotV8 sells at any profit.
Bug_ProfitOnly(v, t) == TRUE

\* sell_profit_only of ElliotV8, with its offset.
ProfitOnly(v, t) == v.name = "V8" => t.rate - 1000 > 10

\* An exit signal for the trade's side.
Leaves(v, t, c) == t.tag \in Exits(v, c) /\ Entry(v, c) # t.tag /\ ProfitOnly(v, t)
NoCustomSell(t, c) == "none"

Stop0(v) == v.stop

\* The price of the coin, which a short trade's value falls with.
Price(t) == IF t.tag = "short" THEN 2000 - t.rate ELSE t.rate

\* Mutant: the stop trails at the distance of the loss.
Bug_StopFor(v, t) ==
  IF v.trail > 0 /\ t.rate - 1000 > v.from THEN t.rate - (Price(t) * (1000 - v.stop)) \div 1000
  ELSE v.stop

\* The trailing stop, which starts at its offset.
StopFor(v, t) ==
  IF v.trail > 0 /\ t.rate - 1000 > v.from THEN t.rate - (Price(t) * v.trail) \div 1000
  ELSE v.stop

\* Mutant: only the first row is read.
Bug_Roi(v, age) == (CHOOSE row \in v.roi : row[1] = 0)[2]

\* minimal_roi: the last row the trade is old enough for.
Roi(v, age) ==
  LET old == {row \in v.roi : row[1] <= age}
  IN  (CHOOSE row \in old : \A other \in old : other[1] <= row[1])[2]

\* ignore_roi_if_entry_signal, on the trade's side.
IgnoreRoi(v, t, c) == v.ignoreRoi /\ Entry(v, c) = t.tag

Granted(m, exit, t, c) == TRUE
Kept(m, exit, t, c) == m

F == INSTANCE FreqtradeTrade
  WITH Variants <- {V5, LongShort, V8, StatArb}, Memory0 <- 0, CustomSell <- NoCustomSell,
       Confirm <- Granted, After <- Kept

vars == F!vars
Init == F!Init
Next == F!Next
Spec == F!Spec

TypeOK == F!TypeOK

----------------------------------------------------------------------------
Standing == trade # <<>> /\ outcome.done = "none"
Is(name) == variant.name = name

\* A long trade is never held through a candle that would go short, nor a
\* short one through a candle that would go long: what opens one side closes
\* the other, though the two sides read different averages.
NeverAgainstASignal ==
  Is("LongShort") /\ Standing => Entry(variant, candle) \in {"none", trade.tag}

\* The short side reads oscillator and RSI as the mirror image of the long
\* side ("SYMMETRIC short side").
Mirrored(c) == [c EXCEPT !.ewo = -@, !.rsi = 1000 - @, !.buy = 2000 - c.sell, !.sell = 2000 - c.buy]
ShortIsMirrored ==
  Is("LongShort") /\ candle.sell > variant.high /\ Mirrored(candle).buy < variant.low =>
    (ShortSide(variant, candle) <=> LongSide(variant, Mirrored(candle)))

\* A trade that was up by more than the trailing offset cannot lose any more:
\* its stop is above the entry, on either side.
TrailedTradesWin ==
  trade # <<>> /\ ~Is("StatArb") /\ trade.peak > 1000 + variant.from => trade.stop > 1000

\* A trade of ElliotV8 leaves by its two hundredth minute, and before that
\* a sell signal leaves it at a profit of more than a percent only.
V8LeavesInTime ==
  Is("V8") /\ trade # <<>> =>
    /\ Standing => trade.age < 200
    /\ outcome.done = "signal" => trade.rate > 1010

\* The profit a trade is held above falls with its age unless its own candle
\* still says enter: after an hour or so three percent is not waited on.
AgeTakesProfit ==
  Standing /\ trade.age >= 201 /\ Entry(variant, candle) # trade.tag => trade.rate <= 1030
=============================================================================
