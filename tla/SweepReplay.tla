----------------------------- MODULE SweepReplay -----------------------------
(***************************************************************************)
(* The power-of-three backtests: run_backtest of po3_engine.py ("v1") and  *)
(* run_po3_v2 ("v2").  A candle of the sweep frame that pierces a swing    *)
(* level and closes back inside it arms a sweep for MaxSweep candles; a    *)
(* bar of the entry frame that then shifts the structure the other way     *)
(* opens a trade with its stop beyond the wick.  "v2" filters the shifts   *)
(* and may take the pool on the other side as its target.                  *)
(***************************************************************************)
EXTENDS Bracket

CONSTANTS
  Engines,   \* those of {"v1", "v2"} to look at
  MaxSweep,  \* max_sweep_m15, max_sweep_bars
  Buffer,    \* ATR * sl_buffer_atr
  Spread,    \* spread
  RR,        \* rr_target
  StructRR   \* min_struct_rr of tp_mode "structure"

SweepAssumption ==
  /\ Engines \subseteq {"v1", "v2"}
  /\ MaxSweep \in Nat \ {0}
  /\ {Buffer, Spread, RR, StructRR} \subseteq Nat

VARIABLES
  engine,
  sweep,   \* active, dir (of the trade it waits for), extreme, pool, left
  pos,     \* the open trade
  age,     \* candles since the sweep, counted up to MaxSweep (observed only)
  used     \* the sweep has opened a trade (observed only)

vars == <<engine, sweep, pos, age, used>>

NoSweep == [active |-> FALSE, dir |-> "bull", extreme |-> 0, pool |-> 0, left |-> 0]

Init ==
  /\ engine \in Engines
  /\ sweep = NoSweep
  /\ pos = NoPos
  /\ age = 0
  /\ used = FALSE

----------------------------------------------------------------------------
\* Mutant: the sweep is not disarmed when its time is over.
Bug_Older == [sweep EXCEPT !.left = IF sweep.active THEN @ - 1 ELSE @]

\* One candle older: the sweep counts down while a trade is open, too.
Older ==
  IF ~sweep.active THEN sweep
  ELSE [sweep EXCEPT !.left = @ - 1, !.active = sweep.left - 1 > 0]

\* A sweep of the swing level on d's losing side; none is taken in while a trade is open.
SweepCandle(d, extreme, pool) ==
  IF d # "none" /\ pos = NoPos
  THEN /\ sweep' = [active |-> TRUE, dir |-> d, extreme |-> extreme, pool |-> pool, left |-> MaxSweep]
       /\ age' = 0
       /\ used' = FALSE
       /\ UNCHANGED <<engine, pos>>
  ELSE /\ sweep' = Older
       /\ age' = IF age < MaxSweep THEN age + 1 ELSE age
       /\ UNCHANGED <<engine, pos, used>>

----------------------------------------------------------------------------
Flat(b) == IF pos = NoPos THEN TRUE ELSE ExitReason(pos, b) # "open"

\* Mutant: the sweep outlives its trade.
Bug_Armed(b) == sweep

\* The sweep after the trade has been looked after: an exit disarms it.
Armed(b) == IF pos # NoPos /\ Flat(b) THEN [sweep EXCEPT !.active = FALSE] ELSE sweep

\* Both engines leave the wick and the buffer behind the stop; "v1" adds the spread.
StopAt(d) ==
  Along(d, sweep.extreme, -(Buffer + (IF engine = "v1" THEN Spread ELSE 0)))

\* "v2" wants two spreads between the close and the stop.
MinRisk == IF engine = "v1" THEN 1 ELSE IF 2 * Spread > 1 THEN 2 * Spread ELSE 1

Target(d, cl, mode) ==
  IF mode = "structure" THEN sweep.pool ELSE Along(d, cl, RR * Gain(d, StopAt(d), cl))

WorthIt(d, cl, mode) ==
  mode = "structure" =>
    /\ Gain(d, cl, sweep.pool) > 0
    /\ Gain(d, cl, sweep.pool) >= StructRR * Gain(d, StopAt(d), cl)

\* A shift in direction d; filtered stands for the regime, the premium/discount and the gap filter.
Enters(b, inGo, shift, filtered, mode) ==
  /\ Flat(b)
  /\ Armed(b).active
  /\ inGo
  /\ shift = sweep.dir
  /\ ~filtered
  /\ Gain(shift, StopAt(shift), b.cl) >= MinRisk
  /\ WorthIt(shift, b.cl, mode)

EntryBar(b, inGo, shift, filtered, mode) ==
  /\ mode = "structure" => engine = "v2"
  /\ sweep' = Armed(b)
  /\ IF Enters(b, inGo, shift, filtered, mode)
     THEN pos' = Open(shift, b.cl, StopAt(shift), Target(shift, b.cl, mode)) /\ used' = TRUE
     ELSE /\ pos' = IF Flat(b) THEN NoPos ELSE [pos EXCEPT !.hold = @ + 1]
          /\ UNCHANGED used
  /\ UNCHANGED <<engine, age>>

Next ==
  \/ \E d \in Dir \cup {"none"}, extreme \in Prices, pool \in Prices :
       /\ d # "none" => Gain(d, extreme, pool) > 0
       /\ SweepCandle(d, extreme, pool)
  \/ \E b \in Bar, inGo \in BOOLEAN, shift \in Dir \cup {"none"}, filtered \in BOOLEAN,
        mode \in {"rr", "structure"} : EntryBar(b, inGo, shift, filtered, mode)

Spec == Init /\ [][Next]_vars

----------------------------------------------------------------------------
TypeOK ==
  /\ engine \in Engines
  /\ sweep.dir \in Dir
  /\ sweep.left \in 0..MaxSweep
  /\ age \in 0..MaxSweep
  /\ pos = NoPos \/ pos \in Positions
  /\ used \in BOOLEAN

Opens == pos' # NoPos /\ pos' # pos /\ pos'.hold = 0

\* One sweep opens one trade, although it stays armed while the trade is open.
OneTradePerSweep == [][Opens => ~used]_vars

\* A trade opens while its sweep is younger than max_sweep candles.
SweepIsFresh == [][Opens => age < MaxSweep]_vars
=============================================================================
