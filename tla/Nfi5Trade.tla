----------------------------- MODULE Nfi5Trade -----------------------------
(***************************************************************************)
(* A trade under NFI5MOHO_WIP: its callbacks in freqtrade's loop.  The     *)
(* stop is never moved and no exit is refused.                             *)
(***************************************************************************)
EXTENDS Nfi5MOHO

CONSTANTS Candles, Rates, Ages

Nfi5Assumption ==
  /\ Rates \subseteq Nat \ {0} /\ Ages \subseteq Nat /\ 0 \in Ages
  /\ \A c \in Candles :
       /\ \A w \in {1, 2, 12, 144} : c.fall[w] \in Int
       /\ \A w \in {24, 36, 48} : c.rise[w] \in Int /\ c.now[w] \in Nat

VARIABLES variant, trade, candle, memory, outcome

NoTrail(v, t) == Stop0(v)
Leaves(v, t, c) == ExitTag(v, c) # "none" /\ Entry(v, c) = "none"
IgnoreRoi(v, t, c) == Entry(v, c) # "none"
Granted(m, exit, t, c) == TRUE
Kept(m, exit, t, c) == m

F == INSTANCE FreqtradeTrade
  WITH Variants <- {"NFI5MOHO_WIP"}, Memory0 <- "none", StopFor <- NoTrail, Confirm <- Granted, After <- Kept

vars == F!vars
Init == F!Init
Next == F!Next
Spec == F!Spec

TypeOK == F!TypeOK

----------------------------------------------------------------------------
Standing == trade # <<>> /\ trade.age > 0 /\ outcome.done = "none"
Peak == trade.peak - 1000
Now  == F!Profit(trade)

\* A trade that came back from a peak is not held at a profit of one to
\* twelve percent more than fourteen percent below it, nor at fifteen to
\* forty-six percent more than eighteen below it (custom_sell, the trails).
PeakIsGuarded ==
  Standing =>
    /\ Now > 10 /\ Now < 120 => Peak <= Now + 140
    /\ Now > 150 /\ Now < 460 => Peak <= Now + 180

\* A trade is given up at a loss only by a sell signal, by the exit just below
\* the average, or at the stop of 99 percent: no profit exit fires below the
\* entry (custom_sell, minimal_roi).
LossesAreMeant ==
  outcome.done \notin {"none", "signal", "signal_stoploss_u_1", "stop_loss"} => Now > 0

\* The wider a protection is called, the more it lets through.
ProtectionsAreNested ==
  LET c == candle IN
    /\ G!SafeDips(c.fall, "strict") => G!SafeDips(c.fall, "normal")
    /\ G!SafeDips(c.fall, "normal") => G!SafeDips(c.fall, "loose")
    /\ \A w \in G!PumpWindows :
         /\ G!SafePump(c.rise, c.now, w, "strict") => G!SafePump(c.rise, c.now, w, "normal")
         /\ G!SafePump(c.rise, c.now, w, "normal") => G!SafePump(c.rise, c.now, w, "loose")
=============================================================================
