------------------------------ MODULE TimesFm ------------------------------
(***************************************************************************)
(* TimesFM: the direction of the market from closes of H4 candles          *)
(* (direction_model.py), levels that were visited and rejected             *)
(* (levels.py), and the replay that trades a level when the faster bars    *)
(* reject it again in that direction (tfm_engine.py).                      *)
(*                                                                         *)
(* The arrays are computed from all the data before the replay begins, so  *)
(* every operator on them takes the bars b it may look at.  A price is a   *)
(* whole number, a return the difference of two closes.  The ATR is the    *)
(* same at every bar, and Tol and Buffer are what it is multiplied to.     *)
(***************************************************************************)
EXTENDS Integers, Sequences, FiniteSets, FiniteSetsExt, Functions

CONSTANTS
  Candles,          \* bars: [op, hi, lo, cl]
  MaxBars,          \* bars in the data
  PerH4,            \* bars in an H4 candle
  Left, Right,      \* bars on either side of a pivot
  Lookback,         \* H4 candles whose extremes are levels
  Context, Stride, Horizon, MinMove,
  Forecast(_),      \* the foundation model: closes to [med, lo, hi] at the horizon
  Tol, Buffer, RR, MaxHold, Spread

TfmAssumption ==
  /\ Candles \subseteq {c \in [op : Int, hi : Int, lo : Int, cl : Int] :
                          /\ c.lo <= c.op /\ c.op <= c.hi
                          /\ c.lo <= c.cl /\ c.cl <= c.hi}
  /\ {MaxBars, PerH4, Lookback, Stride, Buffer, RR} \subseteq Nat \ {0}
  /\ {Left, Right, Context, MaxHold, Spread} \subseteq Nat

VARIABLES
  setting,   \* which forecaster and which levels
  bars,      \* the data
  i,         \* the bar the replay looks at, 0 while the data is read
  used,      \* levels traded
  trades

vars == <<setting, bars, i, used, trades>>

Lesser(x, y) == IF x <= y THEN x ELSE y
Greater(x, y) == IF x >= y THEN x ELSE y

\* A support is seen from above (s = 1), a resistance is its mirror image (s = -1).
Edge(c, s) == IF s = 1 THEN c.lo ELSE c.hi
Wick(c, s) == IF s = 1 THEN Lesser(c.op, c.cl) - c.lo ELSE c.hi - Greater(c.op, c.cl)

\* A wick is at least so many hundredths of its candle, which has a range.
Rejects(c, s, hundredths) == c.hi > c.lo /\ 100 * Wick(c, s) >= hundredths * (c.hi - c.lo)

----------------------------------------------------------------------------
\* H4 candles

\* resample puts the time of its first bar on a candle.
Label(k) == (k - 1) * PerH4 + 1
Last(k, n) == Lesser(k * PerH4, n)

\* The last candle of the data may lack bars.
resample_h4_ny(b) ==
  [k \in 1..((Len(b) + PerH4 - 1) \div PerH4) |->
     LET span == Label(k)..Last(k, Len(b))
     IN  [op |-> b[Label(k)].op, hi |-> Max({b[j].hi : j \in span}),
          lo |-> Min({b[j].lo : j \in span}), cl |-> b[Last(k, Len(b))].cl]]

\* Mutant: the candle after the one that is looked for.
Bug_causal_map(b, t) == Max({k \in 1..Len(resample_h4_ny(b)) : Label(k) <= t + PerH4})

\* The last candle whose time is not after that of bar t.
causal_map(b, t) == Max({k \in 1..Len(resample_h4_ny(b)) : Label(k) <= t})

----------------------------------------------------------------------------
\* Direction

Gate(up, down, above, below) == IF up /\ above THEN 1 ELSE IF down /\ below THEN -1 ELSE 0

\* The drift of the last returns against their dispersion, which is taken 0.8 times:
\* the band clears the close when the square of the drift is worth more.
Baseline(c, k) ==
  LET span == Greater(1, k - Context + 1)..k
      ret == [j \in span |-> IF j = 1 THEN 0 ELSE c[j] - c[j - 1]]
      m == k + 1 - Greater(1, k - Context + 1)
      sum == SumFunctionOnSet(ret, span)
      squares == SumFunctionOnSet([j \in span |-> ret[j] * ret[j]], span)
      clears == 25 * Horizon * sum * sum > 16 * (m * squares - sum * sum)
  IN  IF m < Greater(2, Context \div 4) THEN 0
      ELSE Gate(sum * Horizon > m * MinMove, sum * Horizon < -m * MinMove,
                clears /\ sum > 0, clears /\ sum < 0)

\* A forecast is made at every Stride-th candle from the ones before it, compared
\* with its close, and kept until the next.
FoundationModel(c, k) ==
  LET p == k - ((k - 1 - Context) % Stride)
      f == Forecast(SubSeq(c, p - Context, p - 1))
  IN  IF k <= Context THEN 0
      ELSE Gate(f.med > c[p] + MinMove, f.med < c[p] - MinMove, f.lo > c[p], f.hi < c[p])

\* The direction as bar t of the data sees it.
Bias(b, t) ==
  LET h == resample_h4_ny(b)
      c == [k \in 1..Len(h) |-> h[k].cl]
      k == causal_map(b, t)
  IN  IF setting.forecaster = "baseline" THEN Baseline(c, k) ELSE FoundationModel(c, k)

----------------------------------------------------------------------------
\* Levels: none or one, the nearest to the close on its side

\* The first of the nearest.
Nearest(found, s) ==
  {v \in found : \A w \in found : s * v.price > s * w.price
                                  \/ (v.price = w.price /\ v.time <= w.time)}

\* The extreme of the bars around it, the first of equals, and rejected.
Pivot(b, p, s) ==
  /\ p - Left >= 1 /\ p + Right <= Len(b)
  /\ \A j \in (p - Left)..(p + Right) :
       /\ s * Edge(b[j], s) >= s * Edge(b[p], s)
       /\ j < p => Edge(b[j], s) # Edge(b[p], s)
  /\ Rejects(b[p], s, 33)

\* Mutant: a pivot is a level from its own bar on.
Bug_swing_levels(b, t, s) ==
  Nearest({[price |-> Edge(b[p], s), time |-> p] :
             p \in {q \in 1..t : Pivot(b, q, s) /\ s * Edge(b[q], s) <= s * b[t].cl}}, s)

\* A pivot is a level from the bar on that confirms it.
swing_levels(b, t, s) ==
  Nearest({[price |-> Edge(b[p], s), time |-> p + Right] :
             p \in {q \in 1..(t - Right) : Pivot(b, q, s)
                                           /\ s * Edge(b[q], s) <= s * b[t].cl}}, s)

\* The searchsorted on the opens of the candles: the one the bar lies in is taken for closed.
h4_candle_levels(b, t, s) ==
  LET h == resample_h4_ny(b)
      p == causal_map(b, t)
  IN  Nearest({[price |-> Edge(h[k], s), time |-> Label(k)] :
                 k \in {q \in Greater(1, p - Lookback + 1)..p :
                          Rejects(h[q], s, 33) /\ s * Edge(h[q], s) <= s * b[t].cl}}, s)

build_levels(b, t, s) ==
  IF setting.levels = "swing" THEN swing_levels(b, t, s) ELSE h4_candle_levels(b, t, s)

----------------------------------------------------------------------------
\* The replay

StopFor(c, v, s) == s * (Lesser(s * Edge(c, s), s * v.price) - Buffer)

\* Mutant: the level is not asked whether it was traded.
Bug_Setups(t) ==
  {[side |-> s, level |-> v] : s \in {Bias(bars, t)} \cap {-1, 1},
                               v \in build_levels(bars, t, Bias(bars, t))}

\* The bar comes to a level that was not traded, rejects it, closes on its side of
\* it, and leaves a risk that is worth the costs.
Setups(t) ==
  {[side |-> s, level |-> v] :
     s \in {Bias(bars, t)} \cap {-1, 1},
     v \in {w \in build_levels(bars, t, Bias(bars, t)) :
              LET s == Bias(bars, t)
                  c == bars[t]
              IN  /\ s # 0 /\ <<s, w.time>> \notin used
                  /\ s * Edge(c, s) <= s * w.price + Tol
                  /\ Rejects(c, s, 40) /\ s * c.cl > s * w.price
                  /\ s * (c.cl - StopFor(c, w, s)) > 2 * Spread}}

Stopped(t, s, stop)   == s * Edge(bars[t], s) <= s * stop
OnTarget(t, s, target) == s * Edge(bars[t], -s) >= s * target

\* Mutant: stop and target are closed at the close of their bar.
Bug_simulate(t, s, stop, target) ==
  LET last == Lesser(t + MaxHold, Len(bars))
      ends == {j \in (t + 1)..last : Stopped(j, s, stop) \/ OnTarget(j, s, target)}
      out  == IF ends = {} THEN last ELSE Min(ends)
  IN  [out |-> out, why |-> "market", price2 |-> 2 * bars[out].cl]

\* The stop comes first; a trade that times out is closed in the middle of its last
\* bar, which is the bar of its entry when the data ends there.
simulate(t, s, stop, target) ==
  LET last == Lesser(t + MaxHold, Len(bars))
      ends == {j \in (t + 1)..last : Stopped(j, s, stop) \/ OnTarget(j, s, target)}
      out  == IF ends = {} THEN last ELSE Min(ends)
  IN  IF ends = {} THEN [out |-> out, why |-> "timeout", price2 |-> bars[out].hi + bars[out].lo]
      ELSE IF Stopped(out, s, stop) THEN [out |-> out, why |-> "stop", price2 |-> 2 * stop]
      ELSE [out |-> out, why |-> "target", price2 |-> 2 * target]

Trade(t, s, v) ==
  LET entry  == bars[t].cl
      stop   == StopFor(bars[t], v, s)
      target == entry + RR * (entry - stop)
      end    == simulate(t, s, stop, target)
  IN  [side |-> s, level |-> v, at |-> t, entry |-> entry, stop |-> stop, out |-> end.out,
       why |-> end.why, gain2 |-> s * (end.price2 - 2 * entry)]

----------------------------------------------------------------------------
Settings == [forecaster : {"baseline", "timesfm"}, levels : {"swing", "h4candle"}]

Init ==
  /\ setting \in Settings
  /\ bars = <<>> /\ i = 0 /\ used = {} /\ trades = <<>>

Read ==
  /\ i = 0 /\ Len(bars) < MaxBars
  /\ \E c \in Candles : bars' = Append(bars, c)
  /\ UNCHANGED <<setting, i, used, trades>>

run_tfm ==
  /\ i = 0 /\ Len(bars) = MaxBars
  /\ i' = 2
  /\ UNCHANGED <<setting, bars, used, trades>>

Enter ==
  /\ i \in 1..Len(bars)
  /\ \E u \in Setups(i) :
       LET tr == Trade(i, u.side, u.level)
       IN  /\ trades' = Append(trades, tr)
           /\ used' = used \cup {<<u.side, u.level.time>>}
           /\ i' = tr.out + 1
  /\ UNCHANGED <<setting, bars>>

Pass ==
  /\ i \in 1..Len(bars) /\ Setups(i) = {}
  /\ i' = i + 1
  /\ UNCHANGED <<setting, bars, used, trades>>

Next == Read \/ run_tfm \/ Enter \/ Pass

Spec == Init /\ [][Next]_vars

----------------------------------------------------------------------------
\* Properties

\* The replay stays in its ranges (run_tfm).
TypeOK ==
  /\ setting \in Settings
  /\ bars \in Seq(Candles) /\ Len(bars) <= MaxBars
  /\ i \in 0..(MaxBars + 1)
  /\ used \subseteq {-1, 1} \X (1..MaxBars)
  /\ Len(trades) <= Cardinality(used)

Cut(t) == SubSeq(bars, 1, t)

\* A swing level is what the bars up to the one that sees it make it: later bars
\* neither confirm it early nor take it back (swing_levels).
SwingIsCausal ==
  i = 0 => \A t \in 1..Len(bars), s \in {-1, 1} :
             swing_levels(bars, t, s) = swing_levels(Cut(t), t, s)

\* The two things read off H4 candles, the direction and their levels, look ahead, but no
\* further than the end of the candle a bar is part of: what the bar sees of them is settled
\* when that candle is complete (the maps of tfm_engine and of h4_candle_levels on the times
\* of resample_h4_ny, which are those of the opens).
SettledWithItsCandle ==
  i = 0 => \A t \in 1..Len(bars) :
             LET whole == Cut(Last(causal_map(Cut(t), t), Len(bars)))
             IN  /\ Bias(bars, t) = Bias(whole, t)
                 /\ \A s \in {-1, 1} :
                      h4_candle_levels(bars, t, s) = h4_candle_levels(whole, t, s)

\* Neither looks ahead is what README.md of TimesFM and levels.py say.  This says less:
\* at every bar of a replay that uses both, one of them, the direction or the levels, is
\* what the bars up to it make it.
H4IsCausal ==
  i = 0 /\ setting.levels = "h4candle" =>
    \A t \in 1..Len(bars) :
      \/ Bias(bars, t) = Bias(Cut(t), t)
      \/ \A s \in {-1, 1} : h4_candle_levels(bars, t, s) = h4_candle_levels(Cut(t), t, s)

\* No level is traded twice, no two trades overlap, and a trade on a swing level
\* opens after the level was made, with the level between stop and entry (run_tfm).
LevelsAreTradedOnce ==
  \A m, n \in 1..Len(trades) :
    LET a == trades[m]
        b == trades[n]
    IN  /\ m < n => /\ <<a.side, a.level.time>> # <<b.side, b.level.time>>
                    /\ a.out < b.at
        /\ setting.levels = "swing" => a.level.time <= a.at
        /\ a.side * a.stop < a.side * a.level.price
        /\ a.side * a.level.price < a.side * a.entry

\* Whatever ends a trade, it neither loses more than its risk nor gains more than its
\* target, and the spread takes less than half of the risk (simulate, apply_costs).
TradeStaysInBracket ==
  \A n \in 1..Len(trades) :
    LET a == trades[n]
        risk == a.side * (a.entry - a.stop)
    IN  a.gain2 >= -2 * risk /\ a.gain2 <= 2 * RR * risk /\ 2 * Spread < risk
=============================================================================
