---------------------------- MODULE TrailingBuy ----------------------------
(***************************************************************************)
(* TrailingBuyStrat on top of a NASOS strategy, as it runs live: a buy     *)
(* signal starts to trail a pair's price downwards, and the pair is bought *)
(* when the price turns up again while it is still below the signal's.     *)
(* The state is kept per pair in a dictionary of the class; one pair.      *)
(* Limits are in thousandths of the price's unit, so that the offset is    *)
(* exact.                                                                  *)
(***************************************************************************)
EXTENDS Integers

CONSTANTS
  Prices,      \* the closes of the candles
  Offset       \* trailing_buy_offset, in per mille

TrailingAssumption == Prices \subseteq Nat \ {0} /\ Offset \in Nat \ {0}

VARIABLES
  started,     \* trailing_buy_order_started
  uplimit,     \* trailing_buy_order_uplimit
  start,       \* start_trailing_price
  lowest,      \* the lowest price since the signal
  bought       \* what the last buy was made at: [price, start, lowest]

vars == <<started, uplimit, start, lowest, bought>>

Lesser(a, b) == IF a <= b THEN a ELSE b
NoBuy == [price |-> 0, start |-> 0, lowest |-> 0]

Init ==
  /\ started = FALSE /\ uplimit = 0 /\ start = 0
  /\ lowest = 0 /\ bought = NoBuy

\* A candle with a buy signal of the strategy below starts the order.
Start(price) ==
  /\ ~started
  /\ started' = TRUE
  /\ start' = price /\ uplimit' = price * 1000 /\ lowest' = price
  /\ bought' = NoBuy

\* Mutant: the limit is set from the price even when it was lower.
Bug_Follow(price) ==
  /\ started /\ price * 1000 < uplimit
  /\ uplimit' = price * 1000
  /\ lowest' = Lesser(lowest, price)
  /\ bought' = NoBuy
  /\ UNCHANGED <<started, start>>

\* The price is below the limit: the limit follows it down.
Follow(price) ==
  /\ started /\ price * 1000 < uplimit
  /\ uplimit' = Lesser(price * (1000 + Offset), uplimit)
  /\ lowest' = Lesser(lowest, price)
  /\ bought' = NoBuy
  /\ UNCHANGED <<started, start>>

\* Mutant: the price is not compared with the signal's.
Bug_Buy(price) ==
  /\ started /\ price * 1000 >= uplimit
  /\ bought' = [price |-> price, start |-> start, lowest |-> lowest]
  /\ started' = FALSE /\ uplimit' = 0 /\ start' = 0
  /\ UNCHANGED lowest

\* The price is back above the limit, and below the signal's: bought.
Buy(price) ==
  /\ started /\ price * 1000 >= uplimit /\ price < start
  /\ bought' = [price |-> price, start |-> start, lowest |-> lowest]
  /\ started' = FALSE /\ uplimit' = 0 /\ start' = 0
  /\ UNCHANGED lowest

\* The price is too high, or nothing is trailed and there is no signal.
Idle(price) ==
  /\ started => price * 1000 >= uplimit /\ price >= start
  /\ bought' = NoBuy
  /\ UNCHANGED <<started, uplimit, start, lowest>>

\* An exit of the pair is put to the strategy, which drops the order whether
\* it confirms the exit or not.
ConfirmExit ==
  /\ started' = FALSE /\ uplimit' = 0 /\ start' = 0
  /\ bought' = NoBuy
  /\ UNCHANGED lowest

Next ==
  \/ \E price \in Prices : Start(price) \/ Follow(price) \/ Buy(price) \/ Idle(price)
  \/ ConfirmExit

Spec == Init /\ [][Next]_vars

----------------------------------------------------------------------------
TypeOK ==
  /\ started \in BOOLEAN /\ uplimit \in Nat
  /\ start \in Prices \cup {0} /\ lowest \in Prices \cup {0}
  /\ bought \in [price : Prices \cup {0}, start : Prices \cup {0}, lowest : Prices \cup {0}]

\* The pair is bought on a rebound, never at the signal and never on the way
\* down: at least the offset above the lowest price since the signal, and
\* below the price of the signal (populate_buy_trend, trailing live).
BoughtOnARebound ==
  bought # NoBuy =>
    /\ bought.price * 1000 >= bought.lowest * (1000 + Offset)
    /\ bought.price < bought.start

\* The limit an order waits for: the signal's price until the price has fallen
\* by the offset, then the offset above the lowest price.
LimitFollowsTheLowest ==
  started => uplimit = Lesser(start * 1000, lowest * (1000 + Offset))

\* Together they say that a trailing buy is made below its signal, on a rebound, at
\* a limit that only the lowest price moved (populate_buy_trend, trailing live).
TrailingBuysLow == BoughtOnARebound /\ LimitFollowsTheLowest
=============================================================================
