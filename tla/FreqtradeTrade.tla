--------------------------- MODULE FreqtradeTrade ---------------------------
(***************************************************************************)
(* The life of one spot trade in the freqtrade bot, which is not part of   *)
(* the repository: what the strategies' callbacks are called for, and in   *)
(* which order.  A strategy is given by its operators; rates are in per    *)
(* mille of the rate the trade was opened at, ages in minutes.  A strategy *)
(* comes in variants: classes that share its callbacks, or settings.       *)
(***************************************************************************)
EXTENDS Integers, Sequences

CONSTANTS
  Candles,          \* the analysed candles a trade can meet
  Rates,            \* the rates it can see
  Ages,             \* the ages it is looked at, in minutes, 0 among them
  Variants,         \* the variants of the strategy
  Memory0,          \* what the strategy remembers before its first exit
  IgnoreRoi(_, _, _), \* variant, trade, candle -> an entry signal holds the return back
  Stop0(_),         \* variant -> the stoploss the trade is opened with
  Entry(_, _),      \* variant, candle -> the tag of its entry, or "none"
  Leaves(_, _, _),  \* variant, trade, candle -> an exit signal, and no entry against it
  StopFor(_, _),    \* variant, trade -> the stop the strategy asks for now
  Roi(_, _),        \* variant, age -> the profit to take
  CustomSell(_, _), \* trade, candle -> the custom exit, or "none"
  Confirm(_, _, _, _), \* memory, exit, trade, candle -> the exit may go ahead
  After(_, _, _, _)    \* the memory after that question

VARIABLES
  variant,   \* the variant at work
  trade,     \* the open trade, <<>> before the entry
  candle,    \* the last candle analysed
  memory,    \* what the strategy remembers across trades
  outcome    \* the exits asked for at the last rate and the one that went through

vars == <<variant, trade, candle, memory, outcome>>

Profit(t) == t.rate - 1000
NoExit == [asked |-> <<>>, done |-> "none"]

Larger(a, b) == IF a >= b THEN a ELSE b

\* An exit signal counts unless the same candle says buy; the custom exit is
\* asked for otherwise.  The versions of the framework name its reason
\* sell_signal or exit_signal.
Signal(t, c) ==
  IF Leaves(variant, t, c) THEN "signal" ELSE CustomSell(t, c)

\* An exit that is due is put to the strategy, unless another one went through.
Put(answer, due, exit, t, c) ==
  IF due /\ answer.done = "none"
  THEN [memory |-> After(answer.memory, exit, t, c),
        asked |-> Append(answer.asked, exit),
        done |-> IF Confirm(answer.memory, exit, t, c) THEN exit ELSE "none"]
  ELSE answer

\* The exits in the order they are tried: a signal, the stop the trade was
\* opened with, the return on investment, a stop that has moved.
Ask(t, c) ==
  LET stopped == t.rate <= t.stop
      paid == Profit(t) > Roi(variant, t.age) /\ ~IgnoreRoi(variant, t, c)
      none == [memory |-> memory, asked |-> <<>>, done |-> "none"]
      signal == Put(none, Signal(t, c) # "none", Signal(t, c), t, c)
      stopLoss == Put(signal, stopped /\ t.stop = Stop0(variant), "stop_loss", t, c)
      roi == Put(stopLoss, paid, "roi", t, c)
  IN  Put(roi, stopped /\ t.stop # Stop0(variant), "trailing_stop_loss", t, c)

Init ==
  /\ variant \in Variants
  /\ trade = <<>>
  /\ candle \in Candles
  /\ memory = Memory0
  /\ outcome = NoExit

\* A candle says buy.
Open ==
  /\ trade = <<>> /\ Entry(variant, candle) # "none"
  /\ trade' = [tag |-> Entry(variant, candle), rate |-> 1000, peak |-> 1000,
               stop |-> Stop0(variant), age |-> 0]
  /\ outcome' = NoExit
  /\ UNCHANGED <<variant, candle, memory>>

\* A candle is analysed while nothing is open.
Wait ==
  /\ trade = <<>>
  /\ candle' \in Candles
  /\ UNCHANGED <<variant, trade, memory, outcome>>

\* A rate arrives for the open trade: the stop is moved, then the exits are
\* asked for.
Tick(rate, c, age) ==
  LET seen == [trade EXCEPT !.rate = rate, !.peak = Larger(@, rate), !.age = age]
      t == [seen EXCEPT !.stop = Larger(@, StopFor(variant, seen))]
      answer == Ask(t, c)
  IN  /\ trade # <<>> /\ outcome.done = "none"
      /\ age >= trade.age
      /\ trade' = t
      /\ candle' = c
      /\ memory' = answer.memory
      /\ outcome' = [asked |-> answer.asked, done |-> answer.done]
      /\ UNCHANGED variant

\* The position is gone, and the pair may be bought again.
Close ==
  /\ outcome.done # "none"
  /\ trade' = <<>> /\ outcome' = NoExit
  /\ UNCHANGED <<variant, candle, memory>>

Next ==
  \/ Open \/ Wait \/ Close
  \/ \E rate \in Rates, c \in Candles, age \in Ages : Tick(rate, c, age)

Spec == Init /\ [][Next]_vars

----------------------------------------------------------------------------
\* The trade and its outcome; an exit that went through is the last one asked.
TypeOK ==
  /\ candle \in Candles
  /\ trade # <<>> =>
       /\ trade.rate \in Rates \cup {1000} /\ trade.age \in Ages
       /\ trade.peak >= trade.rate /\ trade.stop >= Stop0(variant)
  /\ outcome.done # "none" => trade # <<>> /\ outcome.done = outcome.asked[Len(outcome.asked)]
=============================================================================
