----------------------------- MODULE ArcaneLiM2 -----------------------------
(***************************************************************************)
(* ArcaneLiM2: the entries of Arcane and of NFI5 in one strategy, with the *)
(* exits of NFI5 and a confirmation of exits that depends on the regime of *)
(* the market.  Functions of a candle and a trade; profits and falls are   *)
(* in per mille, the RSI in tenths, ages in minutes.                       *)
(***************************************************************************)
EXTENDS Integers, Sequences

Falls(a, b, c, d) ==
  [w \in {1, 2, 12, 144} |-> CASE w = 1 -> a [] w = 2 -> b [] w = 12 -> c [] OTHER -> d]

Dip == [normal |-> Falls(20, 140, 320, 500), strict |-> Falls(15, 60, 240, 400),
        loose |-> Falls(26, 240, 420, 660)]

Rises(a, b, c) == [w \in {24, 36, 48} |-> CASE w = 24 -> a [] w = 36 -> b [] OTHER -> c]

Pump == [normal |-> Rises(<<500, 175>>, <<560, 175>>, <<850, 175>>),
         strict |-> Rises(<<400, 220>>, <<560, 200>>, <<680, 200>>),
         loose |-> Rises(<<660, 170>>, <<700, 170>>, <<1300, 140>>)]

Needs(trend, dips, pumps) == [trend |-> trend, dips |-> dips, pumps |-> pumps]

\* NFI5 conditions 1 to 7.
Guard1 == <<
  Needs({"50h>200h", "200 up 50"}, {"strict"}, {<<24, "normal">>}),
  Needs({"200h up 50"}, {}, {<<24, "strict">>}),
  Needs({"c>200h rel", "100>200", "100h>200h"}, {}, {<<36, "strict">>}),
  Needs({"50h>200h"}, {"strict"}, {<<24, "normal">>}),
  Needs({"100>200", "c>200h rel"}, {"normal"}, {<<36, "strict">>}),
  Needs({"100h>200h"}, {"loose"}, {<<36, "strict">>}),
  Needs({"100>200", "50h>200h"}, {"strict"}, {}) >>

\* Mutant: condition 11 is ported with one of its protections against pumps.
Bug_Guard11 == Needs({"50h>100h"}, {"loose"}, {<<24, "loose">>})

\* NFI5 condition 11.
Guard11 == Needs({"50h>100h"}, {"loose"}, {<<24, "loose">>, <<36, "normal">>, <<48, "loose">>})

\* NFI5 conditions 8 to 14.
Guard8 == <<
  Needs({"50h>200h"}, {"loose"}, {<<24, "normal">>}),
  Needs({"50>200", "100>200"}, {"strict"}, {<<24, "loose">>}),
  Needs({"50h>100h", "200h up 24"}, {"loose"}, {<<24, "loose">>}),
  Guard11,
  Needs({"200h up 24"}, {"strict"}, {<<24, "normal">>}),
  Needs({"50h>100h", "200h up 24"}, {"strict"}, {<<24, "loose">>, <<36, "loose">>}),
  Needs({"200 up 30", "200h up 50"}, {"loose"}, {<<24, "normal">>}) >>

\* NFI5 conditions 15 to 21.
Guard15 == <<
  Needs({"c>200h rel", "50h>200h"}, {"normal"}, {<<36, "strict">>}),
  Needs({"50h>200h"}, {"strict"}, {<<24, "strict">>}),
  Needs({}, {"strict"}, {<<24, "loose">>}),
  Needs({"c>200h", "100>200", "50h>200h", "200 up 20", "200 up 44", "200h up 36", "200h up 72"},
        {"normal"}, {<<24, "strict">>}),
  Needs({"100h>200h", "200 up 36", "50h>200h"}, {"normal"}, {<<24, "normal">>}),
  Needs({"50h>200h"}, {"normal"}, {<<24, "loose">>}),
  Needs({"50h>200h"}, {"strict"}, {}) >>

Guard == Guard1 \o Guard8 \o Guard15

G == INSTANCE BuyGuards

\* trend_bullish_active of the five minute candles.  The comparison binds
\* weaker than the conjunction: the Boolean of the five minute trend (and of
\* a 50 average that is there) is compared with the price of the hourly 200
\* average, so it can only be greater where that price is below one.
Active(c) == (IF c.bullish /\ c.hour THEN 1000 ELSE 0) > c.price200h

\* Mutant: the two bounds of the pullback are swapped.
Bug_Pullback(c) == c.c50 < 968 /\ c.c50 > 935

\* The close under the 50 average: below buy_ema_low and above buy_ema_high.
Pullback(c) == c.c50 < 935 /\ c.c50 > 968

\* The entries of Arcane, in the order they are written: tag, trend, what else
\* of the candle is not left to its own indicators.
Methods(c) == <<
  <<"trend_dema_entry", {}, Active(c) /\ c.ssl>>,
  <<"local_uptrend", {}, TRUE>>,
  <<"ewo_momentum", {}, Pullback(c)>>,
  <<"ichimoku_dema_entry", {}, c.hourly>>,
  <<"trend_momentum_breakout", {"50>200"}, Active(c) /\ c.ssl /\ c.c50 > 1000 /\ c.ewo > 0>>,
  <<"selective_volume_dip", {"50h>200h"}, c.c50 > 950>>,
  <<"enhanced_momentum", {"100h>200h"}, TRUE>>,
  <<"bull_momentum", {"50h>200h", "200 up 20"}, ~c.under200 /\ c.ssl>>,
  <<"bincluc_dip_buy", {"50h>200h"}, TRUE>>,
  <<"bincluc_mfi_momentum", {"100h>200h"}, c.c50 < 1000>> >>

Condition == <<
  "nfi5_condition_1", "nfi5_condition_2", "nfi5_condition_3", "nfi5_condition_4",
  "nfi5_condition_5", "nfi5_condition_6", "nfi5_condition_7", "nfi5_condition_8",
  "nfi5_condition_9", "nfi5_condition_10", "nfi5_condition_11", "nfi5_condition_12",
  "nfi5_condition_13", "nfi5_condition_14", "nfi5_condition_15", "nfi5_condition_16",
  "nfi5_condition_17", "nfi5_condition_18", "nfi5_condition_19", "nfi5_condition_20",
  "nfi5_condition_21" >>

\* The order in which the conditions write the tag.
ConditionOrder == [n \in 1..18 |-> n] \o <<20, 21, 19>>

\* Every entry in the order it writes the tag: the tag, and whether the candle's columns ask
\* for it.
Asked(c) ==
  LET ms == Methods(c)
  IN  [i \in DOMAIN ms |-> <<ms[i][1], ms[i][1] \in c.own /\ ms[i][2] \subseteq c.trend /\ ms[i][3]>>]
        \o [i \in DOMAIN ConditionOrder |->
             LET n == ConditionOrder[i] IN <<Condition[n], Condition[n] \in c.own /\ G!Protected(c, n)>>]
        \o << <<"nfi5_multi_offset", "nfi5_multi_offset" \in c.own>> >>

\* The first, and the last, of a list of <<tag, holds>> that holds.
First(rules) ==
  LET due == {i \in DOMAIN rules : rules[i][2]}
  IN  IF due = {} THEN "none" ELSE rules[CHOOSE i \in due : \A j \in due : i <= j][1]

Latest(rules) ==
  LET due == {i \in DOMAIN rules : rules[i][2]}
  IN  IF due = {} THEN "none" ELSE rules[CHOOSE i \in due : \A j \in due : i >= j][1]

\* The entries enabled in buy_params.
EnabledConditions == {2, 3, 4, 6, 8, 10, 11, 12, 14, 15, 16, 17, 18, 20, 21}
Enabled ==
  {"trend_dema_entry", "local_uptrend", "ewo_momentum", "ichimoku_dema_entry", "nfi5_multi_offset"}
    \cup {Condition[n] : n \in EnabledConditions}

\* enter_tag: the last of the enabled entries that hold.
Entry(enabled, c) ==
  LET asked == Asked(c)
  IN  Latest([i \in DOMAIN asked |-> <<asked[i][1], asked[i][2] /\ asked[i][1] \in enabled>>])

\* Mutant: the exit does not ask for the entry.
Bug_IchimokuExit(enabled, c) == c.overDema

\* The exit of the ichimoku entry asks for that entry's tag in the candle itself.
IchimokuExit(enabled, c) == c.overDema /\ Entry(enabled, c) = "ichimoku_dema_entry"

\* exit_tag: the last exit that holds.
ExitTag(enabled, c) ==
  Latest(<<
    <<"ichimoku_dema_exit", IchimokuExit(enabled, c)>>,
    <<"nfi5_sell_1", c.rsi > 795 /\ c.above >= 6>>,
    <<"nfi5_sell_2", c.rsi > 810 /\ c.above >= 3>>,
    <<"nfi5_sell_3", c.rsi > 820>>,
    <<"nfi5_sell_4", c.rsi > 734 /\ c.rsi1h > 796>>,
    <<"nfi5_sell_6", c.under200 /\ c.over50 /\ c.rsi > 790>>,
    <<"nfi5_sell_7", c.rsi1h > 817 /\ c.crossed>>,
    <<"nfi5_sell_8", c.overBand>> >>)

\* Mutant: a decline takes a profit of one percent already.
Bug_Decline(p, c) == p > 10 /\ c.dec

\* A profit of five percent while the 200 average falls.
Decline(p, c) == p > 50 /\ c.dec

\* custom_sell: profits taken while the RSI is weak, then those under the 200
\* average or in a decline, then those that came down from the peak, then what
\* the average just above is worth.
CustomSell(t, c) ==
  LET p == t.rate - 1000
      peak == t.peak - 1000
      weak(profit, rsi) == p > profit /\ c.rsi < rsi
      trailed(from, to, down) == p > from /\ p < to /\ peak > p + down
      near(gap, diff) == c.under200 /\ c.gap < gap /\ c.rsi > c.rsi1h + diff
  IN  First(<<
        <<"signal_profit_4", weak(250, 500)>>, <<"signal_profit_3", weak(80, 480)>>,
        <<"signal_profit_2", weak(50, 430)>>, <<"signal_profit_1", weak(30, 380)>>,
        <<"signal_profit_0", weak(10, 330)>>,
        <<"signal_profit_u_1", c.under200 /\ weak(20, 560)>>,
        <<"signal_profit_u_2", c.under200 /\ weak(40, 600)>>,
        <<"signal_profit_u_3", c.under200 /\ weak(600, 620)>>,
        <<"signal_profit_d_1", Decline(p, c)>>,
        <<"signal_profit_d_2", p > 70 /\ c.under100>>,
        <<"signal_profit_t_1", trailed(150, 460, 180)>>,
        <<"signal_profit_t_2", trailed(10, 120, 140)>>,
        <<"signal_profit_u_t_1", c.under200 /\ trailed(50, 100, 10)>>,
        <<"signal_profit_u_e_1", p > 0 /\ near(24, 44)>>,
        <<"signal_stoploss_u_1", p < 0 /\ near(4, 80)>> >>)

----------------------------------------------------------------------------
\* The points for a rising market: momentum in per mille over twenty candles,
\* how the averages stand, the volume in hundredths of its mean, the share of
\* candles with a bullish SSL line, the trend.
BullScore(c) ==
  (CASE c.momentum > 50 -> 2 [] c.momentum > 20 /\ c.momentum <= 50 -> 1 [] OTHER -> 0)
  + (IF c.aligned THEN 2 ELSE 0)
  + (IF c.stack = "up" THEN 1 ELSE 0)
  + (IF c.volume > 110 THEN 1 ELSE 0)
  + (IF c.sslShare > 70 THEN 1 ELSE 0)
  + (IF Active(c) THEN 1 ELSE 0)

\* The points for a falling one.
BearScore(c) ==
  (CASE c.momentum < -50 -> 2 [] c.momentum < -20 /\ c.momentum >= -50 -> 1 [] OTHER -> 0)
  + (IF c.stack = "down" THEN 2 ELSE 0)
  + (IF c.sslShare < 30 THEN 2 ELSE 0)
  + (IF Active(c) THEN 0 ELSE 1)

\* Mutant: four points make a rising market, as they make a falling one.
Bug_detect_market_regime(c) ==
  IF BullScore(c) >= 4 THEN "BULL" ELSE IF BearScore(c) >= 4 THEN "BEAR" ELSE "NEUTRAL"

detect_market_regime(c) ==
  IF BullScore(c) >= 5 THEN "BULL" ELSE IF BearScore(c) >= 4 THEN "BEAR" ELSE "NEUTRAL"

\* minimal_roi
RoiTable == {<<0, 125>>, <<60, 100>>, <<120, 75>>, <<180, 50>>, <<240, 25>>, <<320, 10>>}

Roi(enabled, age) ==
  LET old == {row \in RoiTable : age >= row[1]}
  IN  (CHOOSE row \in old : \A other \in old : other[1] <= row[1])[2]

\* Mutant: the offset is ten times as far.
Bug_StopFor(enabled, t) == IF t.rate - 1000 > 250 THEN (t.rate * 998) \div 1000 ELSE 10

\* stoploss, and the stop that trails the rate by two per mille once the
\* profit is above the offset.
Stop0(enabled) == 10

StopFor(enabled, t) == IF t.rate - 1000 > 25 THEN (t.rate * 998) \div 1000 ELSE 10

\* Mutant: any young trade is kept through its trailing stop in a rising market.
Bug_HeldThroughStop(t, c) == Active(c) /\ t.age < 120

\* The trailing stop a momentum trade is held through in a rising market.
HeldThroughStop(t, c) == t.tag = "bull_momentum" /\ Active(c) /\ t.age < 120

\* Mutant: five percent is written as fifty.
Bug_BearPays(p) == p > 500

\* The profit a falling market takes at once.
BearPays(p) == p > 50

\* Mutant: the trend of the five minute candles alone holds a trade.
Bug_HeldForTrend(c) == c.bullish

\* The trend a return on investment waits for.
HeldForTrend(c) == Active(c)

\* confirm_trade_exit: what a rising market holds back; what a falling one
\* takes; outside, a return on investment waits while the trend is active.
Confirm(m, exit, t, c) ==
  LET p == t.rate - 1000
      regime == detect_market_regime(c)
      momentum == t.tag = "bull_momentum"
  IN  CASE exit = "roi" /\ regime = "BULL" /\ p > 200 -> TRUE
        [] exit = "roi" /\ regime = "BULL" /\ p <= 200 /\ momentum -> p > 150 /\ t.age > 240 /\ c.ewo < 0
        [] exit = "roi" /\ regime = "BEAR" /\ BearPays(p) -> TRUE
        [] exit = "trailing_stop_loss" -> ~(regime = "BULL" /\ HeldThroughStop(t, c))
        [] exit \notin {"roi", "trailing_stop_loss"} -> TRUE
        [] OTHER -> ~HeldForTrend(c)
=============================================================================
