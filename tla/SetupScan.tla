------------------------------ MODULE SetupScan ------------------------------
(***************************************************************************)
(* What happens between a trigger candle of the higher time frame and the  *)
(* entry it leads to, in the three programs of ICT-MultiTF that spell it   *)
(* out: phase2_engine.py, viz_engine.py and the expert advisor v1.3.  All  *)
(* three look for a close beyond everything seen since the trigger (the    *)
(* market structure shift), and then back from it for a gap (FVG) or the   *)
(* last candle of the other colour (OB) to place a limit order at.         *)
(*                                                                         *)
(* The two backtests have all bars in their hands when they start; the     *)
(* expert sees the bars so far, the last one still forming.  Bars are      *)
(* numbered from 1.  Levels are doubled, so that middles stay whole.       *)
(***************************************************************************)
EXTENDS Bracket, Sequences

CONSTANTS
  Candles,  \* bars of the entry time frame that may occur: op, hi, lo, cl
  MaxBars,  \* max_entry_window_ltf, max_bars
  Extra,    \* bars the backtest looks for a fill beyond MaxBars (10)
  Mid       \* prev_mid, doubled

ScanAssumption ==
  /\ Prices \subseteq Nat
  /\ \A c \in Candles : {c.op, c.hi, c.lo, c.cl} \subseteq Prices
  /\ {c \in Candles : c.lo > c.op \/ c.lo > c.cl \/ c.op > c.hi \/ c.cl > c.hi} = {}
  /\ {MaxBars, Extra, Mid} \subseteq Nat
  /\ MaxBars > 0

VARIABLES
  dir,     \* direction of the trade: "bear" after a high was swept
  bars,    \* bars closed since the trigger candle closed
  order    \* the limit order of the expert, NoEntry before it is placed

vars == <<dir, bars, order>>

NoShift == 0
NoEntry == [bar |-> 0]   \* no level, no order

Span(s, n) == SubSeq(s, 1, IF n < Len(s) THEN n ELSE Len(s))
Window(s) == Span(s, MaxBars + 5)

Least(S)    == CHOOSE i \in S : \A j \in S : i =< j
Greatest(S) == CHOOSE i \in S : \A j \in S : i >= j

----------------------------------------------------------------------------
\* The shift

\* The close of bar i lies beyond bars 1..k.
Beyond(d, s, i, k) == \A j \in 1..k : Gain(d, Best(d, s[j]), s[i].cl) > 0

Shift(candidates) == IF candidates = {} THEN NoShift ELSE Least(candidates)

\* Mutant: the level is that of the first four bars only.
Bug_FindMSS(d, s) == Shift({i \in 5..Len(s) : Beyond(d, s, i, 4)})

\* FindMSS of the expert.
FindMSS(d, s) == Shift({i \in 5..Len(s) : Beyond(d, s, i, i - 1)})

\* find_mss_and_entries gives a shift on the last bar of the window up.
find_mss(d, s) ==
  LET m == Shift({i \in 5..Len(s) : Beyond(d, s, i, i - 1)})
  IN  IF Len(s) < 5 \/ m = Len(s) THEN NoShift ELSE m

\* viz_engine starts a bar earlier, with that bar already in its level.
viz_mss(d, s) ==
  IF Len(s) < 5 THEN NoShift
  ELSE Shift({i \in 4..Len(s) : Beyond(d, s, i, IF i = 4 THEN 4 ELSE i - 1)})

----------------------------------------------------------------------------
\* The levels

Gap(d, s, j)   == Gain(d, Best(d, s[j - 2]), Worst(d, s[j])) > 0
Middle(d, s, j) == Best(d, s[j - 2]) + Worst(d, s[j])
Opposite(d, c) == IF d = "bear" THEN c.cl > c.op ELSE c.cl =< c.op

\* A level in the half of the range that the trade should start from.
PD(d, level) == Gain(d, level, Mid) >= 0

Level(type, level, j) == [bar |-> j, type |-> type, level |-> level]

\* The latest of the levels that bars have left, each at its bar.
Latest(type, at) ==
  LET j == Greatest(DOMAIN at)
  IN  IF DOMAIN at = {} THEN NoEntry ELSE Level(type, at[j], j)

\* The backtest takes the latest level and then asks whether it lies in the half ...
candidates(d, s, m) ==
  LET fvg == Latest("FVG", [j \in {k \in 3..m : Gap(d, s, k)} |-> Middle(d, s, j)])
      ob  == Latest("OB", [j \in {k \in 1..m - 1 : Opposite(d, s[k])} |-> 2 * s[j].cl])
  IN  {c \in {fvg, ob} \ {NoEntry} : PD(d, c.level)}

\* Mutant: a gap that the bar of the shift leaves is not seen.
Bug_FindFVG(d, s, m) ==
  Latest("FVG", [j \in {k \in 3..m - 1 : Gap(d, s, k) /\ PD(d, Middle(d, s, k))} |-> Middle(d, s, j)])

\* ... the other two take the latest level in that half.
FindFVG(d, s, m) ==
  Latest("FVG", [j \in {k \in 3..m : Gap(d, s, k) /\ PD(d, Middle(d, s, k))} |-> Middle(d, s, j)])

FindOB(d, s, m) ==
  Latest("OB", [j \in {k \in 1..m - 1 : Opposite(d, s[k]) /\ PD(d, 2 * s[k].cl)} |-> 2 * s[j].cl])

\* viz_engine prefers the block, as PREFER_OB of the expert does.
Preferred(d, s, m) == IF FindOB(d, s, m) # NoEntry THEN FindOB(d, s, m) ELSE FindFVG(d, s, m)

----------------------------------------------------------------------------
\* The fills of the backtests: the first bar since the trigger that touches a level.

Touches(d, c, level) == Gain(d, level, 2 * Worst(d, c)) =< 0

Filled(d, s, levels) ==
  LET hits == {i \in 1..Len(s) : \E c \in levels : Touches(d, s[i], c.level)}
  IN  IF hits = {} THEN 0 ELSE Least(hits)

Phase2 ==
  LET m == find_mss(dir, Window(bars))
  IN  IF m = NoShift THEN [shift |-> m, fill |-> 0]
      ELSE [shift |-> m, fill |-> Filled(dir, Span(bars, MaxBars + Extra), candidates(dir, bars, m))]

Viz ==
  LET m == viz_mss(dir, Window(bars))
      c == Preferred(dir, bars, m)
  IN  IF m = NoShift THEN [shift |-> m, fill |-> 0]
      ELSE [shift |-> m,
            fill |-> IF c = NoEntry THEN 0 ELSE Filled(dir, Span(bars, MaxBars), {c})]

----------------------------------------------------------------------------
Init == dir \in Dir /\ bars = << >> /\ order = NoEntry

BarCloses(c) ==
  /\ Len(bars) < MaxBars + Extra
  /\ bars' = Append(bars, c)
  /\ UNCHANGED <<dir, order>>

\* TryPlaceEntries on a tick: the bars so far and the one that forms.
TryPlaceEntries(forming, pref) ==
  LET s == Span(Append(bars, forming), MaxBars + 5)
      m == FindMSS(dir, s)
      c == CASE pref = "OB_ONLY"   -> FindOB(dir, s, m)
             [] pref = "FVG_ONLY"  -> FindFVG(dir, s, m)
             [] pref = "PREFER_OB" -> Preferred(dir, s, m)
             [] OTHER -> IF FindFVG(dir, s, m) # NoEntry THEN FindFVG(dir, s, m) ELSE FindOB(dir, s, m)
  IN  /\ order = NoEntry
      /\ m # NoShift
      /\ c # NoEntry
      /\ order' = [shift |-> m, level |-> c.level, bar |-> Len(bars) + 1]
      /\ UNCHANGED <<dir, bars>>

Preference == {"OB_ONLY", "FVG_ONLY", "PREFER_OB", "PREFER_FVG"}

Next ==
  \E c \in Candles : BarCloses(c) \/ \E pref \in Preference : TryPlaceEntries(c, pref)

Spec == Init /\ [][Next]_vars

----------------------------------------------------------------------------
TypeOK ==
  /\ dir \in Dir
  /\ bars \in Seq(Candles)
  /\ order.bar \in 0..MaxBars + Extra + 1

\* The three programs find the same shift once the window has closed, although they start
\* at different bars and give up at different ends.
SameShift ==
  LET s == Window(bars)
      m == FindMSS(dir, s)
  IN  /\ viz_mss(dir, s) = m
      /\ find_mss(dir, s) \in {m, NoShift}
      /\ find_mss(dir, s) = NoShift => m \in {NoShift, Len(s)}

\* A level the backtest trades at is one the other two find, too.
SameLevels ==
  LET s == Window(bars)
      m == find_mss(dir, s)
  IN  m # NoShift => candidates(dir, s, m) \subseteq {FindFVG(dir, s, m), FindOB(dir, s, m)}
=============================================================================
