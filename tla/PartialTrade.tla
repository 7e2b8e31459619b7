---------------------------- MODULE PartialTrade ----------------------------
(***************************************************************************)
(* One trade of the ICT-MultiTF backtests from its fill to its last exit:  *)
(* simulate_trade of phase2_engine.py ("A" fixed multiples of the risk,    *)
(* "B" the middle of the range) and simulate_trade_instrumented of         *)
(* viz_engine.py ("viz").  Prices are distances from the entry in the      *)
(* direction of the trade, so the entry is 0 and the first stop is -R; a   *)
(* bar is what it offers at best, at worst and at its close.               *)
(***************************************************************************)
EXTENDS Integers, Sequences, FiniteSets

CONSTANTS
  R,         \* r_distance
  Targets,   \* distances of the target from the entry
  Middles,   \* distances of htf_mid, between entry and target
  Moves,     \* distances a bar may show
  MaxHold,   \* max_hold_bars
  Spread,    \* spread
  Slippage   \* stop_slippage

PartialAssumption ==
  /\ {R, MaxHold} \subseteq Nat \ {0}
  /\ Targets \subseteq Nat \ {0}
  /\ Middles \subseteq Nat
  /\ Moves \subseteq Int
  /\ {Spread, Slippage} \subseteq Nat

Bar == {b \in [best : Moves, worst : Moves, cl : Moves] : b.worst =< b.cl /\ b.cl =< b.best}

VARIABLES
  scheme,  \* "A", "B" or "viz"
  levels,  \* target_levels: price and weight, in tenths of the position
  left,    \* remaining, in tenths
  next,    \* n_partials, next_target_idx
  stop,    \* cur_stop
  held,    \* bars since the fill
  booked,  \* realized_r before costs: tenths of a unit of price
  charged, \* spread and slippage taken off, in the same unit
  reason   \* exit_reason, "open" before it

vars == <<scheme, levels, left, next, stop, held, booked, charged, reason>>

Lesser(x, y) == IF x < y THEN x ELSE y

\* The levels never lie behind the target.
Levels(s, target, mid) ==
  IF s = "B" THEN <<[at |-> mid, weight |-> 5], [at |-> target, weight |-> 5]>>
  ELSE <<[at |-> Lesser(R, target), weight |-> 5],
         [at |-> Lesser(2 * R, target), weight |-> 3],
         [at |-> target, weight |-> 2]>>

Init ==
  /\ scheme \in {"A", "B", "viz"}
  /\ \E t \in Targets, m \in Middles : m =< t /\ levels = Levels(scheme, t, m)
  /\ left = 10
  /\ next = 1
  /\ stop = -R
  /\ held = 0
  /\ booked = 0
  /\ charged = 0
  /\ reason = "open"

----------------------------------------------------------------------------
\* Mutant: the levels are gone through from the first one again.
Bug_Reached(b) == {i \in 1..Len(levels) : \A j \in 1..i : b.best >= levels[j].at}

\* The levels that a bar reaches, one after the other without a gap.
Reached(b) == {i \in next..Len(levels) : \A j \in next..i : b.best >= levels[j].at}

\* Mutant: the stop does not follow the second level.
Bug_StopAfter(i) == IF i = 1 THEN 0 ELSE stop

\* Mutant: the stops of the first two levels are mixed up.
Bug_StopSwapped(i) ==
  CASE i = 1 -> R
    [] i = 2 /\ scheme # "B" -> 0
    [] OTHER -> stop

\* Break-even after the first level; the fixed multiples then trail to the first.
StopAfter(i) ==
  CASE i = 1 -> 0
    [] i = 2 /\ scheme # "B" -> R
    [] OTHER -> stop

\* What the levels of S close and gain; no scheme has more than three.
Weight(i, S) == IF i \in S THEN levels[i].weight ELSE 0
Worth(i, S)  == IF i \in S THEN levels[i].weight * levels[i].at ELSE 0
Tenths(S) == Weight(1, S) + Weight(2, S) + Weight(3, S)
Gained(S) == Worth(1, S) + Worth(2, S) + Worth(3, S)

\* The spread is charged on every part; the last part may earn or pay something else.
Finish(S, why, price, cost) ==
  /\ reason' = why
  /\ next' = next + Cardinality(S)
  /\ left' = 0
  /\ booked' = booked + Gained(S) + (left - Tenths(S)) * price
  /\ charged' = charged + Spread * Tenths(S) + (left - Tenths(S)) * cost
  /\ UNCHANGED stop

GoOn(S) ==
  /\ next' = next + Cardinality(S)
  /\ left' = left - Tenths(S)
  /\ booked' = booked + Gained(S)
  /\ charged' = charged + Spread * Tenths(S)
  /\ stop' = IF S = {} THEN stop ELSE StopAfter(next' - 1)
  /\ UNCHANGED reason

\* An exit at the close: phase2_engine moves the price in the trade's favour.
AtClose == IF scheme = "viz" THEN Spread ELSE -Spread

\* Mutant: a stop pays its slippage only.
Bug_AtStop == IF scheme = "viz" THEN 0 ELSE Slippage

AtStop == Spread + (IF scheme = "viz" THEN 0 ELSE Slippage)

\* viz_engine does not know about Fridays and looks at the bar of the fill, too.
Allowed(b, friday) ==
  /\ reason = "open"
  /\ scheme = "viz" => ~friday /\ (held = 0 => b.worst =< 0)

NextBar(b, friday, dataEnds) ==
  LET S == Reached(b)
  IN  /\ Allowed(b, friday)
      /\ held' = held + 1
      /\ CASE friday -> Finish({}, "friday_close", b.cl, AtClose)
           [] ~friday /\ b.worst =< stop -> Finish({}, "stop", stop, AtStop)
           [] ~friday /\ b.worst > stop /\ Tenths(S) = left -> Finish(S, "all_targets", 0, 0)
           [] OTHER -> IF dataEnds \/ held + 1 = MaxHold
                       THEN Finish(S, "max_hold", b.cl, AtClose) ELSE GoOn(S)
      /\ UNCHANGED <<scheme, levels>>

Next == \E b \in Bar, friday \in BOOLEAN, dataEnds \in BOOLEAN : NextBar(b, friday, dataEnds)

Spec == Init /\ [][Next]_vars

----------------------------------------------------------------------------
TypeOK ==
  /\ scheme \in {"A", "B", "viz"}
  /\ left \in 0..10
  /\ next \in 1..Len(levels) + 1
  /\ held \in 0..MaxHold
  /\ reason \in {"open", "friday_close", "stop", "all_targets", "max_hold"}

ByRule == reason \in {"stop", "all_targets", "max_hold"}

\* Before costs a trade loses its risk at most, nothing once a level was taken, and it wins what
\* the levels and the trailed stop are worth once the second one was.  A Friday may do worse, and
\* the last bar of all falls back to the first bound: its close is not held against the new stop.
LevelsLockIn ==
  ByRule =>
    booked >= CASE next = 1 \/ reason = "max_hold" -> -(10 * R)
                [] next = 2 /\ reason # "max_hold" -> 0
                [] next > 2 /\ reason # "max_hold" /\ scheme = "B" -> 5 * levels[1].at
                [] OTHER -> 7 * levels[1].at + 3 * levels[2].at

\* Every tenth of a position that leaves at a level or at the stop is charged once; viz_engine
\* charges the exits at a close, too (phase2_engine pays the trade for them).
EveryPartPaysOnce ==
  reason \in {"stop", "all_targets"} \/ (scheme = "viz" /\ reason # "open") =>
    charged \in 10 * Spread .. 10 * (Spread + Slippage)

\* The stop only ever moves with the trade.
StopNeverLoosens == [][stop' >= stop]_stop
=============================================================================
