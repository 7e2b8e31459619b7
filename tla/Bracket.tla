------------------------------- MODULE Bracket -------------------------------
(***************************************************************************)
(* The open trade of the bar-by-bar backtests of the gold projects: an     *)
(* entry at a close, a stop on one side of it, a target on the other and a *)
(* longest hold.  A bull trade gains as the price rises, a bear trade as   *)
(* it falls; the engines spell both out, here a direction is a parameter.  *)
(***************************************************************************)
EXTENDS Integers

CONSTANTS
  Prices,   \* prices, in the smallest unit
  MaxHold   \* max_hold_bars

BracketAssumption == Prices \subseteq Nat \ {0} /\ MaxHold \in Nat \ {0}

Dir == {"bull", "bear"}

\* The rows of a price file and the columns an engine derives from one row.
Bar == {b \in [hi : Prices, lo : Prices, cl : Prices] : b.lo =< b.cl /\ b.cl =< b.hi}

\* A candle of the higher time frame, as far as its range goes.
Range == {c \in [hi : Prices, lo : Prices] : c.lo =< c.hi}

\* A trade in direction d gains when the price goes from "from" to "to".
Gain(d, from, to) == IF d = "bull" THEN to - from ELSE from - to

\* The price n units from x in direction d.
Along(d, x, n) == IF d = "bull" THEN x + n ELSE x - n

\* What a bar offers a trade at best and at worst.
Best(d, b)  == IF d = "bull" THEN b.hi ELSE b.lo
Worst(d, b) == IF d = "bull" THEN b.lo ELSE b.hi

NoPos == [dir |-> "none"]

Open(d, entry, stop, target) ==
  [dir |-> d, entry |-> entry, stop |-> stop, target |-> target, hold |-> 0]

Positions ==
  [dir : Dir, entry : Int, stop : Int, target : Int, hold : 0..MaxHold - 1]

Risk(p) == Gain(p.dir, p.stop, p.entry)

StopHit(p, b)   == Gain(p.dir, p.stop, Worst(p.dir, b)) =< 0
TargetHit(p, b) == Gain(p.dir, p.target, Best(p.dir, b)) >= 0

\* A bar that touches both counts as stopped out.
ExitReason(p, b) ==
  CASE StopHit(p, b)                                           -> "stop"
    [] ~StopHit(p, b) /\ TargetHit(p, b)                       -> "target"
    [] ~StopHit(p, b) /\ ~TargetHit(p, b) /\ p.hold + 1 >= MaxHold -> "max_hold"
    [] OTHER                                                   -> "open"

\* Mutant: a stop is filled at the worst price of the bar.
Bug_ExitPrice(p, b, reason) ==
  CASE reason = "stop"   -> Worst(p.dir, b)
    [] reason = "target" -> p.target
    [] OTHER             -> b.cl

\* What the row written for the trade says: the price is that of the order, not of the bar.
ExitPrice(p, b, reason) ==
  CASE reason = "stop"   -> p.stop
    [] reason = "target" -> p.target
    [] OTHER             -> b.cl

Trade(p, b, reason) ==
  [dir |-> p.dir, reason |-> reason, risk |-> Risk(p),
   gain |-> Gain(p.dir, p.entry, ExitPrice(p, b, reason))]

NoTrade == [dir |-> "none"]
=============================================================================
