------------------------------ MODULE Nfi5MOHO ------------------------------
(***************************************************************************)
(* NFI5MOHO_WIP: NostalgiaForInfinityV5 with the multi offset entry.  The  *)
(* buy conditions, the sell conditions, the custom exit and the table of   *)
(* the return on investment, as functions of a candle and a trade.         *)
(* Profits and falls are in per mille, the RSI in tenths.  There is one    *)
(* variant, v.                                                             *)
(***************************************************************************)
EXTENDS Integers, Sequences

Falls(a, b, c, d) ==
  [w \in {1, 2, 12, 144} |-> CASE w = 1 -> a [] w = 2 -> b [] w = 12 -> c [] OTHER -> d]

\* Mutant: the loose threshold of twelve candles is the normal one of two.
Bug_LooseDip == Falls(26, 240, 140, 660)

LooseDip == Falls(26, 240, 420, 660)

Dip == [strict |-> Falls(15, 60, 240, 400), normal |-> Falls(20, 140, 320, 500), loose |-> LooseDip]

Rises(a, b, c) == [w \in {24, 36, 48} |-> CASE w = 24 -> a [] w = 36 -> b [] OTHER -> c]

Pump == [normal |-> Rises(<<500, 175>>, <<560, 175>>, <<850, 175>>),
         strict |-> Rises(<<400, 220>>, <<560, 200>>, <<680, 200>>),
         loose |-> Rises(<<660, 170>>, <<700, 170>>, <<1300, 140>>)]

Needs(trend, dips, pumps) == [trend |-> trend, dips |-> dips, pumps |-> pumps]

\* Conditions 1 to 7: the trend, the dip, the pumps.
Guard1 == <<
  Needs({"50h>200h", "200 up 50"}, {"strict"}, {<<24, "normal">>}),
  Needs({"200h up 50"}, {}, {<<24, "strict">>}),
  Needs({"c>200h rel", "100>200", "100h>200h"}, {}, {<<36, "strict">>}),
  Needs({"50h>200h"}, {"strict"}, {<<24, "normal">>}),
  Needs({"100>200", "c>200h rel"}, {"normal"}, {<<36, "strict">>}),
  Needs({"100h>200h"}, {"loose"}, {<<36, "strict">>}),
  Needs({"100>200", "50h>200h"}, {"strict"}, {}) >>

\* Conditions 8 to 14.
Guard8 == <<
  Needs({"50h>200h"}, {"loose"}, {<<24, "normal">>}),
  Needs({"50>200", "100>200"}, {"strict"}, {<<24, "loose">>}),
  Needs({"50h>100h", "200h up 24"}, {"loose"}, {<<24, "loose">>}),
  Needs({"50h>100h"}, {"loose"}, {<<24, "loose">>, <<36, "normal">>, <<48, "loose">>}),
  Needs({"200h up 24"}, {"strict"}, {<<24, "normal">>}),
  Needs({"50h>100h", "200h up 24"}, {"strict"}, {<<24, "loose">>, <<36, "loose">>}),
  Needs({"200 up 30", "200h up 50"}, {"loose"}, {<<24, "normal">>}) >>

\* Conditions 15 to 21.
Guard15 == <<
  Needs({"c>200h rel", "50h>200h"}, {"normal"}, {<<36, "strict">>}),
  Needs({"50h>200h"}, {"strict"}, {<<24, "strict">>}),
  Needs({}, {"strict"}, {<<24, "loose">>}),
  Needs({"c>200h", "100>200", "50h>200h", "200 up 20", "200 up 44", "200h up 36", "200h up 72"},
        {"normal"}, {<<24, "strict">>}),
  Needs({"100h>200h", "200 up 36", "50h>200h"}, {"normal"}, {<<24, "normal">>}),
  Needs({"50h>200h"}, {"normal"}, {<<24, "loose">>}),
  Needs({"50h>200h"}, {"strict"}, {}) >>

Guard == Guard1 \o Guard8 \o Guard15

G == INSTANCE BuyGuards

\* A candle is bought when a condition holds or it is far from an average
\* while the Elliott wave oscillator is far from zero.
Entry(v, c) == IF G!Fires(c) # {} \/ c.offset THEN "buy" ELSE "none"

\* The sell conditions, 5 does not exist.  "above" counts the last candles
\* that closed above the upper band.
Sells(c) ==
  {n \in {1, 2, 3, 4, 6, 7, 8} :
     \/ n = 1 /\ c.rsi > 795 /\ c.above >= 6
     \/ n = 2 /\ c.rsi > 810 /\ c.above >= 3
     \/ n = 3 /\ c.rsi > 820
     \/ n = 4 /\ c.rsi > 734 /\ c.rsi1h > 796
     \/ n = 6 /\ c.under200 /\ c.over50 /\ c.rsi > 790
     \/ n = 7 /\ c.rsi1h > 817 /\ c.crossed
     \/ n = 8 /\ c.overBand}

ExitTag(v, c) == IF Sells(c) # {} THEN "sell" ELSE "none"

\* Profits taken while the RSI is weak: when it is asked for, tag, profit above, RSI below.
Weak(at, tag, over, rsi) == [at |-> at, tag |-> tag, over |-> over, rsi |-> rsi]

Tiers == {Weak(1, "signal_profit_4", 250, 500), Weak(2, "signal_profit_3", 80, 480),
          Weak(3, "signal_profit_2", 50, 430), Weak(4, "signal_profit_1", 30, 380),
          Weak(5, "signal_profit_0", 10, 330)}

\* The same below the 200 average.
UnderTiers == {Weak(6, "signal_profit_u_1", 20, 560), Weak(7, "signal_profit_u_2", 40, 600),
               Weak(8, "signal_profit_u_3", 600, 620)}

\* A profit that came down from its peak: from, to, by how much.
Descent(at, tag, from, to, by) == [at |-> at, tag |-> tag, from |-> from, to |-> to, by |-> by]

\* Mutant: the second trail is looked at the first one's distance.
Bug_Trails == {Descent(11, "signal_profit_t_1", 150, 460, 180), Descent(12, "signal_profit_t_2", 10, 120, 280)}

Trails == {Descent(11, "signal_profit_t_1", 150, 460, 180), Descent(12, "signal_profit_t_2", 10, 120, 140)}

UnderTrail == Descent(13, "signal_profit_u_t_1", 50, 100, 10)

TrailedBy(p, peak, r) == p > r.from /\ p < r.to /\ peak > p + r.by

\* Mutant: the exit just below the average does not ask for a profit.
Bug_Edge(p, c) == c.under200 /\ c.gap < 24 /\ c.rsi > c.rsi1h + 44

\* A profit just below the 200 average while the RSI is above the hour's.
Edge(p, c) == p > 0 /\ c.under200 /\ c.gap < 24 /\ c.rsi > c.rsi1h + 44

Other(at, tag) == [at |-> at, tag |-> tag]

\* The custom exits of a candle and a profit that has seen its peak.
CustomSells(p, peak, c) ==
  {r \in Tiers : p > r.over /\ c.rsi < r.rsi}
    \cup {r \in UnderTiers : c.under200 /\ p > r.over /\ c.rsi < r.rsi}
    \cup {r \in {Other(9, "signal_profit_d_1")} : p > 50 /\ c.dec}
    \cup {r \in {Other(10, "signal_profit_d_2")} : p > 70 /\ c.under100}
    \cup {r \in Trails : TrailedBy(p, peak, r)}
    \cup {r \in {UnderTrail} : c.under200 /\ TrailedBy(p, peak, r)}
    \cup {r \in {Other(14, "signal_profit_u_e_1")} : Edge(p, c)}
    \cup {r \in {Other(15, "signal_stoploss_u_1")} :
            p < 0 /\ c.under200 /\ c.gap < 4 /\ c.rsi > c.rsi1h + 80}

\* The one that is asked for first.
CustomSell(t, c) ==
  LET due == CustomSells(t.rate - 1000, t.peak - 1000, c)
  IN  IF due = {} THEN "none" ELSE (CHOOSE r \in due : \A other \in due : r.at <= other.at).tag

\* minimal_roi: the profit to take falls with the age in minutes.
Roi(v, age) ==
  CASE age >= 61 -> 10 [] age >= 50 -> 15 [] age >= 13 -> 48 [] OTHER -> 111

\* stoploss
Stop0(v) == 10
=============================================================================
