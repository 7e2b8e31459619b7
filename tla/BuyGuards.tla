----------------------------- MODULE BuyGuards -----------------------------
(***************************************************************************)
(* The protections of the NostalgiaForInfinity buy conditions.  A dip is   *)
(* the fall from the highest open of a window to the close, a pump the     *)
(* rise of a window over its lowest close; a condition names the trend it  *)
(* asks for, the dip it tolerates and the pumps it refuses.  Everything is *)
(* in per mille of the close, the windows are in candles of five minutes   *)
(* for the dips and in hours for the pumps.                                *)
(***************************************************************************)
EXTENDS Integers, Sequences

CONSTANTS
  Dip,      \* level of strictness -> window -> the fall allowed
  Pump,     \* level of strictness -> window -> <<the rise allowed, pullback>>
  Guard     \* condition -> [trend, dips, pumps]

DipWindows  == {1, 2, 12, 144}
PumpWindows == {24, 36, 48}
Levels      == {"strict", "normal", "loose"}

\* The columns safe_dips, safe_dips_strict, safe_dips_loose.
SafeDips(fall, level) == \A w \in DipWindows : fall[w] < Dip[level][w]

\* The columns safe_pump_*: the rise was small, or enough of it is gone.  The
\* pullback is a factor in hundredths.
SafePump(rise, now, w, level) ==
  \/ rise[w] < Pump[level][w][1]
  \/ rise[w] * 100 > now[w] * Pump[level][w][2]

\* What all the conditions have in common: the trend, the dip and the pumps.
Protected(c, k) ==
  /\ Guard[k].trend \subseteq c.trend
  /\ \A level \in Guard[k].dips : SafeDips(c.fall, level)
  /\ \A p \in Guard[k].pumps : SafePump(c.rise, c.now, p[1], p[2])

\* The conditions that buy: protected, and their own indicators agree.
Fires(c) == {k \in DOMAIN Guard \cap c.own : Protected(c, k)}
=============================================================================
