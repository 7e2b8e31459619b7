----------------------------- MODULE GoldTrend -----------------------------
(***************************************************************************)
(* The trend strategies of gold_quant_lab (run_gold_trend.py): breakout of *)
(* a channel and crossing of two averages, both with a trailing stop, and  *)
(* the breakout from the range of the Asian session, with a fixed target.  *)
(*                                                                         *)
(* A step looks at the last bar that is known, cur, when the next one      *)
(* comes, whose open is the price of an entry.  A bar brings what the      *)
(* indicators say at it: the distance of the stop, or half the ATR the     *)
(* range is compared with (atr), which average is above (ema), and, for    *)
(* the range, in which part of the day it is.  Slip is two basis points of *)
(* the price.                                                              *)
(***************************************************************************)
EXTENDS Integers, Sequences, FiniteSetsExt

CONSTANTS
  Candles,    \* bars: [op, hi, lo, cl, atr, ema]
  Lookback,   \* bars in the channel
  MinAsia,    \* bars a range needs
  TargetR,
  Slip

TrendAssumption ==
  /\ Candles \subseteq {c \in [op : Int, hi : Int, lo : Int, cl : Int, atr : Nat \ {0},
                              ema : {-1, 0, 1}] :
                          /\ c.lo <= c.op /\ c.op <= c.hi
                          /\ c.lo <= c.cl /\ c.cl <= c.hi}
  /\ Lookback \in Nat \ {0}
  /\ {MinAsia, TargetR, Slip} \subseteq Nat

VARIABLES
  rule,                       \* the strategy
  past, cur,                  \* the bars of the channel, the bar looked at
  part,                       \* cur's part of the day
  box,                        \* the range of the day
  side, entry, stop, risk,    \* the trade; side = 0 when there is none
  stage,                      \* how far the day is: range, watch, open, trade, over
  result                      \* the trade the last step booked

market == <<past, cur, part, box>>
trade  == <<side, entry, stop, risk>>
vars   == <<rule, market, trade, stage, result>>

Parts == <<"asia", "window", "afternoon", "night">>
NoBox == [hi |-> 0, lo |-> 0, n |-> 0]
NoResult == [why |-> "none", gain |-> 0, risk |-> 0]

Greater(x, y) == IF x >= y THEN x ELSE y
Lesser(x, y) == IF x <= y THEN x ELSE y
Abs(x) == IF x < 0 THEN -x ELSE x

\* A bar's best and worst price for the side.
Best(c, s)  == IF s = 1 THEN c.hi ELSE c.lo
Worst(c, s) == IF s = 1 THEN c.lo ELSE c.hi

Books(why, price, slip) ==
  result' = [why |-> why, gain |-> side * (price - entry) - slip, risk |-> risk]

NoTrade == side' = 0 /\ entry' = 0 /\ stop' = 0 /\ risk' = 0

----------------------------------------------------------------------------
\* donchian and ema_cross

Donchian(c) ==
  IF c.cl > Max({past[k].hi : k \in 1..Len(past)}) THEN 1
  ELSE IF c.cl < Min({past[k].lo : k \in 1..Len(past)}) THEN -1 ELSE 0

Signal(c) == IF rule = "donchian" THEN Donchian(c) ELSE c.ema

\* Mutant: the stop stands where the last bar puts it.
Bug_Trailed(c) == Best(c, side) - side * c.atr

\* The chandelier stop only moves with the trade.
Trailed(c) == side * Greater(side * stop, side * Best(c, side) - c.atr)

Slide(b) ==
  /\ past' = SubSeq(Append(past, cur), 2, Lookback + 1)
  /\ cur' = b
  /\ UNCHANGED <<part, box, stage>>

Enter(b) ==
  /\ side = 0 /\ Signal(cur) # 0
  /\ side' = Signal(cur)
  /\ entry' = b.op + Signal(cur) * Slip
  /\ risk' = cur.atr
  /\ stop' = entry' - Signal(cur) * cur.atr
  /\ result' = NoResult

Wait == side = 0 /\ Signal(cur) = 0 /\ NoTrade /\ result' = NoResult

StopHit == side # 0 /\ side * Worst(cur, side) <= side * Trailed(cur)

Stopped ==
  /\ StopHit
  /\ Books("stop", Trailed(cur), Slip)
  /\ NoTrade

\* Mutant: the crossing is looked at before the stop.
Bug_Crossed ==
  /\ side # 0 /\ rule = "ema_cross" /\ cur.ema = -side
  /\ Books("cross", cur.op, Slip)
  /\ NoTrade

\* The trade leaves at the open of the bar whose close crossed the averages.
Crossed ==
  /\ side # 0 /\ ~StopHit
  /\ rule = "ema_cross" /\ cur.ema = -side
  /\ Books("cross", cur.op, Slip)
  /\ NoTrade

Held ==
  /\ side # 0 /\ ~StopHit
  /\ ~(rule = "ema_cross" /\ cur.ema = -side)
  /\ stop' = Trailed(cur)
  /\ result' = NoResult
  /\ UNCHANGED <<side, entry, risk>>

Trail(b) == (Enter(b) \/ Wait \/ Stopped \/ Crossed \/ Held) /\ Slide(b) /\ UNCHANGED rule

\* A trade still open is booked at the last close. The trailing strategies do not ask
\* the last bar for their stop.
DataEnds ==
  /\ stage \in {"trail", "trade"} /\ side # 0
  /\ Books(IF stage = "trail" THEN "end" ELSE "close", cur.cl, 0)
  /\ NoTrade /\ stage' = "done"
  /\ UNCHANGED <<rule, market>>

----------------------------------------------------------------------------
\* asian_breakout

At(p) == CHOOSE k \in 1..Len(Parts) : Parts[k] = p
Sees(b, p) == cur' = b /\ part' = p

\* The range grows; its bars are counted up to MinAsia, which is what is asked.
AsiaBar(b) ==
  /\ stage = "range" /\ part = "asia"
  /\ Sees(b, "asia")
  /\ box' = IF box.n = 0 THEN [hi |-> b.hi, lo |-> b.lo, n |-> 1]
            ELSE [hi |-> Greater(box.hi, b.hi), lo |-> Lesser(box.lo, b.lo), n |-> Lesser(MinAsia, box.n + 1)]
  /\ result' = NoResult
  /\ UNCHANGED <<trade, stage>>

\* Enough bars, and wide enough against the ATR of the last of them.
Ranges == box.n >= MinAsia /\ box.hi > box.lo /\ box.hi - box.lo >= cur.atr

Breakout(b) == IF b.cl > box.hi THEN 1 ELSE IF b.cl < box.lo THEN -1 ELSE 0

\* The first close of the window beyond the range opens a trade at the next bar.
LaterBar(b, p) ==
  /\ stage = "watch" \/ (stage = "range" /\ box.n > 0)
  /\ p # "asia" /\ At(p) >= At(part)
  /\ Sees(b, p)
  /\ LET looks == p = "window" /\ (stage = "range" => Ranges)
     IN  /\ stage' = IF looks /\ Breakout(b) # 0 THEN "open"
                     ELSE IF looks THEN "watch" ELSE "over"
         /\ side' = IF looks THEN Breakout(b) ELSE 0
  /\ result' = NoResult
  /\ UNCHANGED <<box, entry, stop, risk>>

Middle == (box.hi + box.lo) \div 2
StopOf(s) == IF rule = "asian_mid" THEN Middle ELSE IF s = 1 THEN box.lo ELSE box.hi

\* The trade of a day as bar c of the same day sees it, the stop before the target.
Simulated(c, e, s, r) ==
  LET hits    == side * Worst(c, side) <= side * s
      reaches == side * Best(c, side) >= side * (e + side * TargetR * r)
  IN  IF hits THEN [why |-> "stop", gain |-> side * (s - e) - Slip, risk |-> r]
      ELSE IF reaches THEN [why |-> "target", gain |-> TargetR * r, risk |-> r]
      ELSE NoResult

\* The next bar of the data gives the entry, even one of the night or of the next day:
\* then the trade ends at the close of the day's last bar, before it began.
Opens(b, p) ==
  LET e == b.op + side * Slip
      s == StopOf(side)
      r == Abs(e - s)
      ends == IF p = "night"
              THEN [why |-> "before", gain |-> side * (cur.cl - e), risk |-> r]
              ELSE Simulated(b, e, s, r)
  IN  IF r = 0 \/ ends # NoResult
      THEN /\ NoTrade /\ stage' = "over"
           /\ result' = IF r = 0 THEN NoResult ELSE ends
      ELSE /\ entry' = e /\ stop' = s /\ risk' = r
           /\ stage' = "trade" /\ result' = NoResult /\ UNCHANGED side

OpenBar(b, p) ==
  /\ stage = "open"
  /\ p # "asia" /\ At(p) >= At(part)
  /\ Opens(b, p) /\ Sees(b, p) /\ UNCHANGED box

TradeBar(b, p) ==
  /\ stage = "trade"
  /\ p # "asia" /\ At(p) >= At(part)
  /\ Sees(b, p)
  /\ LET ends == Simulated(b, entry, stop, risk)
     IN  IF p = "night" THEN Books("close", cur.cl, 0) /\ NoTrade /\ stage' = "over"
         ELSE /\ result' = ends
              /\ IF ends = NoResult THEN UNCHANGED <<trade, stage>>
                 ELSE NoTrade /\ stage' = "over"
  /\ UNCHANGED box

\* The next day with an Asian session begins; days without one are passed over.
NextDay(b) ==
  /\ stage \in {"range", "watch", "open", "trade", "over"}
  /\ Sees(b, "asia") /\ box' = [hi |-> b.hi, lo |-> b.lo, n |-> 1]
  /\ LET e == b.op + side * Slip
         r == Abs(e - StopOf(side))
     IN  IF stage = "trade" THEN Books("close", cur.cl, 0)
         ELSE result' = IF stage # "open" \/ r = 0 THEN NoResult
                        ELSE [why |-> "before", gain |-> side * (cur.cl - e), risk |-> r]
  /\ NoTrade /\ stage' = "range"

Day(b) ==
  /\ rule # "donchian" /\ rule # "ema_cross"
  /\ \/ AsiaBar(b)
     \/ \E p \in {Parts[k] : k \in 1..Len(Parts)} :
          LaterBar(b, p) \/ OpenBar(b, p) \/ TradeBar(b, p)
     \/ NextDay(b)
  /\ UNCHANGED <<rule, past>>

----------------------------------------------------------------------------
Init ==
  /\ rule \in {"donchian", "ema_cross", "asian_opposite", "asian_mid"}
  /\ cur \in Candles
  /\ past = [k \in 1..Lookback |-> cur]
  /\ part = "asia" /\ side = 0 /\ entry = 0 /\ stop = 0 /\ risk = 0 /\ result = NoResult
  /\ IF rule \in {"donchian", "ema_cross"} THEN stage = "trail" /\ box = NoBox
     ELSE stage = "range" /\ box = [hi |-> cur.hi, lo |-> cur.lo, n |-> 1]

Next ==
  \/ \E b \in Candles : stage = "trail" /\ Trail(b)
  \/ DataEnds
  \/ \E b \in Candles : Day(b)

Spec == Init /\ [][Next]_vars

----------------------------------------------------------------------------
\* Properties

\* The strategies stay in their ranges (donchian, ema_cross, asian_breakout).
TypeOK ==
  /\ past \in [1..Lookback -> Candles] /\ cur \in Candles
  /\ part \in {Parts[k] : k \in 1..Len(Parts)}
  /\ side \in {-1, 0, 1} /\ risk \in Nat
  /\ stage \in {"trail", "done", "range", "watch", "open", "trade", "over"}
  /\ stage = "trade" => side # 0 /\ risk > 0

\* Nothing but the end of the data, or an entry after the day is over, books more than
\* the risk and one slippage as a loss: a crossing, a target or a close is only looked
\* at on bars that left the stop alone (donchian, ema_cross, asian_breakout).
LossIsBounded ==
  result.why \in {"stop", "cross", "target", "close"} => result.gain >= -result.risk - Slip

\* The trailing stop of an open trade never moves away from it (donchian, ema_cross).
TrailOnlyTightens ==
  [][stage = "trail" /\ side # 0 /\ side' = side => side * stop' >= side * stop]_vars
=============================================================================
