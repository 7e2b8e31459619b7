---------------------------- MODULE FillSimulator ----------------------------
(***************************************************************************)
(* The walk-forward replay of the trading system: run_replay asks for a    *)
(* plan at the close of a bar, FillSimulator.simulate enters it at the     *)
(* open of the next one and walks the bars up to its last exit, and only   *)
(* then run_replay looks for another plan.  Next to it runs the            *)
(* ExecutionEngine that manages the same order live; it is told the best   *)
(* price of each bar.  The exit mode breakeven is said to mirror the live  *)
(* execution plan, which is what the two are put side by side for.         *)
(*                                                                         *)
(* Quantities are in quarters of the order; slippage is in units of price. *)
(* The targets of r_multiple are fractions of a price: gains are counted   *)
(* in parts of which Unit make one, so that all numbers stay whole.        *)
(***************************************************************************)
EXTENDS Integers, Sequences

CONSTANTS
  Prices,  \* prices of bars
  Orders,  \* approved orders: side, entry_price, stop_price, take_profit_prices
  Slip,    \* slippage
  Trail,   \* atr * atr_multiplier
  MinGap   \* min_bars_between_trades

Side == {"LONG", "SHORT"}

Gain(side, from, to) == IF side = "LONG" THEN to - from ELSE from - to
Along(side, x, n)    == IF side = "LONG" THEN x + n ELSE x - n

\* What the gateway lets through: a stop behind the entry, targets ahead of it in order.
Sound(o) ==
  /\ Gain(o.side, o.stop, o.entry) > 0
  /\ \A i \in DOMAIN o.targets :
       Gain(o.side, IF i = 1 THEN o.entry ELSE o.targets[i - 1], o.targets[i]) > 0

FillAssumption ==
  /\ Prices \subseteq Nat
  /\ {Slip, Trail, MinGap} \subseteq Nat
  /\ Orders \subseteq [side : Side, entry : Nat, stop : Nat, targets : Seq(Nat)]
  /\ \A o \in Orders : Len(o.targets) > 0 /\ Sound(o)

Bar == {b \in [op : Prices, hi : Prices, lo : Prices, cl : Prices] :
          b.lo =< b.op /\ b.op =< b.hi /\ b.lo =< b.cl /\ b.cl =< b.hi}

Best(side, b)  == IF side = "LONG" THEN b.hi ELSE b.lo
Worst(side, b) == IF side = "LONG" THEN b.lo ELSE b.hi

VARIABLES
  mode,    \* exit_mode
  aim,     \* target_mode
  phase,   \* "asking" at the close of a bar, "busy" until the next one, "entering", "open"
  order,   \* the order being simulated
  entry,   \* entry price of the simulation
  stop,    \* stop
  left,    \* remaining
  hit,     \* t_idx
  pnl,     \* realized_pnl
  reason,  \* of the last exit, "none" before it
  since,   \* bars since the last trade's signal, counted up to MinGap
  live     \* ManagedPosition: remaining_qty, targets_hit, stop_at_breakeven

trade == <<entry, stop, left, hit, pnl, reason>>
vars == <<mode, aim, phase, order, trade, since, live>>

NoOrder == [side |-> "none"]
NoTrade == entry = 0 /\ stop = 0 /\ left = 0 /\ hit = 0 /\ pnl = 0 /\ reason = "none"
Fresh == [left |-> 4, hit |-> 0, breakeven |-> FALSE]

Init ==
  /\ mode \in {"breakeven", "full_target", "atr_trail"}
  /\ aim \in {"structural", "r_multiple"}
  /\ phase = "busy"
  /\ order = NoOrder
  /\ NoTrade
  /\ since = MinGap
  /\ live = Fresh

----------------------------------------------------------------------------
\* run_replay: a plan at the close of a bar, if the last signal is long enough ago.
Signal(o) ==
  /\ phase = "asking"
  /\ since >= MinGap
  /\ phase' = "entering"
  /\ order' = o
  /\ live' = Fresh
  /\ entry' = 0 /\ stop' = o.stop /\ left' = 4 /\ hit' = 0 /\ pnl' = 0 /\ reason' = "none"
  /\ UNCHANGED <<mode, aim, since>>

Longer == IF since < MinGap THEN since + 1 ELSE since

\* A bar while flat; the last one of the day takes no signal and starts the count anew.
IdleBar(last) ==
  /\ phase \in {"asking", "busy"}
  /\ phase' = IF last THEN "busy" ELSE "asking"
  /\ since' = IF last THEN MinGap ELSE Longer
  /\ UNCHANGED <<mode, aim, order, trade, live>>

----------------------------------------------------------------------------
\* simulate

scale_fractions(i) == IF i = 0 THEN 2 ELSE 1

Fraction(i, rest) == IF scale_fractions(i) < rest THEN scale_fractions(i) ELSE rest

\* The stop of this bar: a trailing one follows the bar's best price first.
StopOf(b) ==
  IF mode = "atr_trail" /\ Trail > 0 /\ Gain(order.side, stop, Along(order.side, Best(order.side, b), -Trail)) > 0
  THEN Along(order.side, Best(order.side, b), -Trail)
  ELSE stop

HitStop(b) == Gain(order.side, StopOf(b), Worst(order.side, b)) =< 0

\* The targets keep their multiples of the order's risk, taken from the fill on.
Anchored == aim = "r_multiple" /\ mode # "atr_trail"

\* signal_risk: gains are counted in parts of it.
Unit == IF Anchored THEN Gain(order.side, order.stop, order.entry) ELSE 1
Parts(x) == Unit * x

\* risk_ps, of a fill on either side of the stop.
RiskOf(e) == IF e > order.stop THEN e - order.stop ELSE order.stop - e

\* What the i-th target is worth to a trade filled at e, in parts.
Reward(e, i) ==
  IF Anchored THEN Gain(order.side, order.entry, order.targets[i]) * RiskOf(e)
  ELSE Gain(order.side, e, order.targets[i])

HitTarget(e, b) ==
  /\ mode # "atr_trail"
  /\ hit < Len(order.targets)
  /\ Parts(Gain(order.side, e, Best(order.side, b))) >= Reward(e, hit + 1)

StopReason(e, b) ==
  CASE mode = "atr_trail" -> "trail_stop"
    [] mode # "atr_trail" /\ StopOf(b) = e -> "breakeven_stop"
    [] OTHER -> "stop"

\* Mutant: the target comes first, and takes everything.
Bug_Walked(e, b) ==
  IF HitTarget(e, b)
  THEN [stop |-> stop, left |-> 0, hit |-> hit + 1, reason |-> "target",
        pnl |-> pnl + left * Reward(e, hit + 1)]
  ELSE [stop |-> StopOf(b), left |-> left, hit |-> hit, pnl |-> pnl, reason |-> reason]

\* One bar of a trade entered at e, with nothing to close at its end: the stop comes first.
Walked(e, b) ==
  IF HitStop(b)
  THEN [stop |-> StopOf(b), left |-> 0, hit |-> hit, reason |-> StopReason(e, b),
        pnl |-> pnl + left * Parts(Gain(order.side, e, StopOf(b)) - Slip)]
  ELSE IF HitTarget(e, b)
  THEN LET q == IF mode = "full_target" THEN left ELSE Fraction(hit, left)
       IN  [stop |-> IF mode = "breakeven" /\ hit = 0 THEN e ELSE stop,
            left |-> left - q, hit |-> hit + 1, reason |-> "target",
            pnl |-> pnl + q * Reward(e, hit + 1)]
  ELSE [stop |-> StopOf(b), left |-> left, hit |-> hit, pnl |-> pnl, reason |-> reason]

\* Mutant: the stop goes to break-even with the second target.
Bug_OnPrice(m, price) ==
  IF m.hit < Len(order.targets) /\ Gain(order.side, order.targets[m.hit + 1], price) >= 0
  THEN [left |-> m.left - Fraction(m.hit, m.left), hit |-> m.hit + 1, breakeven |-> m.hit > 0]
  ELSE m

\* ExecutionEngine.on_price: its targets are the order's, and so is the price it announces
\* for break-even, which is the fill's here.
OnPrice(m, price) ==
  IF m.hit < Len(order.targets) /\ Gain(order.side, order.targets[m.hit + 1], price) >= 0
  THEN [left |-> m.left - Fraction(m.hit, m.left), hit |-> m.hit + 1, breakeven |-> TRUE]
  ELSE m

\* The bar, and the rest at its close when the session or the longest hold ends with it.
Walk(e, b, due) ==
  LET w == Walked(e, b)
      closes == due /\ w.left > 0
  IN  /\ entry' = e
      /\ stop' = w.stop
      /\ hit' = w.hit
      /\ left' = IF due THEN 0 ELSE w.left
      /\ pnl' = IF closes THEN w.pnl + w.left * Parts(Gain(order.side, e, b.cl)) ELSE w.pnl
      /\ reason' = IF closes THEN "session_close" ELSE w.reason
      /\ phase' = IF left' = 0 THEN "busy" ELSE "open"
      /\ live' = OnPrice(live, Best(order.side, b))
      /\ UNCHANGED <<mode, aim, order>>

FillAt(b) == Along(order.side, b.op, Slip)

\* The fill is at the open, wherever it is; an open on the stop itself gives no trade.
EnterBar(b, due, last) ==
  /\ phase = "entering"
  /\ IF FillAt(b) = order.stop
     THEN /\ phase' = IF last THEN "busy" ELSE "asking"
          /\ since' = IF last THEN MinGap ELSE since
          /\ UNCHANGED <<mode, aim, order, trade, live>>
     ELSE /\ Walk(FillAt(b), b, due)
          /\ since' = IF last THEN MinGap ELSE IF MinGap > 0 THEN 1 ELSE 0

HoldBar(b, due, last) ==
  /\ phase = "open"
  /\ Walk(entry, b, due)
  /\ since' = IF last THEN MinGap ELSE Longer

Next ==
  \/ \E o \in Orders : Signal(o)
  \/ \E last \in BOOLEAN : IdleBar(last)
  \/ \E b \in Bar, due \in BOOLEAN, last \in BOOLEAN :
       (last => due) /\ (EnterBar(b, due, last) \/ HoldBar(b, due, last))

Spec == Init /\ [][Next]_vars

----------------------------------------------------------------------------
TypeOK ==
  /\ mode \in {"breakeven", "full_target", "atr_trail"}
  /\ aim \in {"structural", "r_multiple"}
  /\ phase \in {"asking", "busy", "entering", "open"}
  /\ order \in Orders \cup {NoOrder}
  /\ left \in 0..4
  /\ live.left \in 0..4
  /\ since \in 0..MinGap

Over == reason # "none" /\ left = 0

\* The fill has the stop behind it.
Orderly == Gain(order.side, order.stop, entry) > 0

\* A trade filled ahead of its stop loses no more than it put at risk and the slippage of one
\* exit, wherever its targets are; scaled out at the first target, it keeps that half's gain,
\* and the other half leaves at the stop that has moved to the fill, or further on (which may
\* be short of a fill that is beyond the target).
LossIsBounded ==
  Over /\ Orderly =>
    /\ pnl >= -(4 * Parts(Gain(order.side, order.stop, entry) + Slip))
    /\ mode = "breakeven" /\ hit > 0 /\ reason \in {"target", "breakeven_stop"} =>
         LET gain == Reward(entry, 1)
         IN  pnl >= 2 * gain + 2 * (IF gain < -Parts(Slip) THEN gain ELSE -Parts(Slip))

\* The simulated targets are nowhere nearer than the order's, and nowhere farther: they are
\* the same in structural mode and where the fill is at the order's price; multiples of the
\* risk move away with a fill that is worse, and closer with one that is better.
NoneNearer  == aim = "structural" \/ Gain(order.side, order.entry, entry) >= 0
NoneFarther == aim = "structural" \/ (Orderly /\ Gain(order.side, order.entry, entry) =< 0)

\* As long as the simulated trade is open, the live engine holds the same quantity with the
\* same targets behind it, and moved its stop when the simulation did, if target_mode is
\* structural or the fill is at the order's price.  With r_multiple it does not: where the
\* fill is worse than the order's price the live engine is ahead by some targets and holds
\* less, where it is better the simulation is (fills.py: mirrors the live execution plan).
MirrorsExecution ==
  phase = "open" /\ mode = "breakeven" =>
    /\ NoneNearer  => live.hit >= hit /\ live.left =< left /\ (stop = entry => live.breakeven)
    /\ NoneFarther => hit >= live.hit /\ left =< live.left /\ (live.breakeven => stop = entry)
=============================================================================
