----------------------------- MODULE BlockReplay -----------------------------
(***************************************************************************)
(* The order-block backtests: run_backtest of gold_ict_engine.py ("v1")    *)
(* and run_ict_v2 of ict_ob_engine_v2.py ("v2"), which only enters with the *)
(* trend of the higher time frame.  Candles of that frame leave blocks and *)
(* break them; a bar of the entry frame that shifts the market structure   *)
(* inside a block opens a trade whose stop lies beyond the block.          *)
(*                                                                         *)
(* A bar before the indicators are there has no shift and, without a trade *)
(* to look after, is a bar out of the session.                             *)
(***************************************************************************)
EXTENDS Bracket

CONSTANTS
  Engines,   \* those of {"v1", "v2"} to look at
  Buffer,    \* ATR * sl_buffer_atr
  Breach,    \* ATR * ob_invalid_atr, of the entry frame
  BreachHtf, \* the same of the higher frame
  RR         \* rr_target

BlockAssumption ==
  Engines \subseteq {"v1", "v2"} /\ {Buffer, Breach, BreachHtf, RR} \subseteq Nat

VARIABLES
  engine,  \* which of the two functions runs
  block,   \* the active block of each direction: hi, lo
  trend,   \* "v2": side of the average the last candle closed on, once there is one
  pos,     \* the open trade
  row,     \* the row the last bar wrote, if it wrote one
  through  \* directions whose block a bar closed through, while the engine looked (observed only)

vars == <<engine, block, trend, pos, row, through>>

NoBlock == [hi |-> 0, lo |-> 1]

Init ==
  /\ engine \in Engines
  /\ block = [d \in Dir |-> NoBlock]
  /\ trend = "none"
  /\ pos = NoPos
  /\ row = NoTrade
  /\ through = {}

----------------------------------------------------------------------------
\* The edge of a block that its trades put their stop behind.
Edge(d, k) == IF d = "bull" THEN k.lo ELSE k.hi

Breached(d, k, cl, margin) == k # NoBlock /\ Gain(d, Edge(d, k), cl) < -margin

\* Mutant: a broken block stays.
Bug_Unbroken(ks, cl, margin) == ks

\* Blocks of ks without those that a close has broken.
Unbroken(ks, cl, margin) ==
  [d \in Dir |-> IF Breached(d, ks[d], cl, margin) THEN NoBlock ELSE ks[d]]

\* detect_h4_obs: an impulse candle leaves the candle before it as a block, in one direction
\* at most.  A new block replaces the one of its direction; the same close may break it.
H4Candle(d, range, cl, side) ==
  /\ side = "none" => trend = "none"
  /\ block' = Unbroken(IF d = "none" THEN block ELSE [block EXCEPT ![d] = range], cl, BreachHtf)
  /\ trend' = IF engine = "v2" THEN side ELSE trend
  /\ through' = through \ {d}
  /\ UNCHANGED <<engine, pos, row>>

----------------------------------------------------------------------------
\* Mutant: its block is looked at before everything else.
Bug_Reason(b) ==
  IF pos = NoPos THEN "flat"
  ELSE IF Breached(pos.dir, block[pos.dir], b.cl, Breach) THEN "ob_invalidated"
  ELSE ExitReason(pos, b)

\* Why the trade ends on this bar: its block is looked at after everything else.
Reason(b) ==
  IF pos = NoPos THEN "flat"
  ELSE IF ExitReason(pos, b) # "open" THEN ExitReason(pos, b)
  ELSE IF Breached(pos.dir, block[pos.dir], b.cl, Breach) THEN "ob_invalidated"
  ELSE "open"

Row(b) == IF Reason(b) \in {"flat", "open"} THEN NoTrade ELSE Trade(pos, b, Reason(b))

Given(b) ==
  IF Reason(b) = "ob_invalidated" THEN [block EXCEPT ![pos.dir] = NoBlock] ELSE block

\* The engine goes on to look for an entry.
Looks(b, inGo) == Reason(b) # "open" /\ inGo

StopAt(d, b) == Along(d, Edge(d, block[d]), -Buffer)

WithTrend(d) == engine = "v2" => trend = d

\* The shift happens inside a block that still stands.
Setup(d, b) ==
  LET k == Unbroken(Given(b), b.cl, Breach)[d]
  IN  /\ k # NoBlock
      /\ b.lo =< k.hi /\ b.hi >= k.lo
      /\ WithTrend(d)
      /\ Gain(d, StopAt(d, b), b.cl) > 0

Enter(d, b) ==
  LET risk == Gain(d, StopAt(d, b), b.cl)
  IN  pos' = Open(d, b.cl, StopAt(d, b), Along(d, b.cl, RR * risk))

LtfBar(b, inGo, shift) ==
  /\ row' = Row(b)
  /\ block' = IF Looks(b, inGo) THEN Unbroken(Given(b), b.cl, Breach) ELSE Given(b)
  /\ IF Looks(b, inGo) /\ shift # "none"
     THEN IF Setup(shift, b) THEN Enter(shift, b) ELSE pos' = NoPos
     ELSE pos' = IF Reason(b) = "open" THEN [pos EXCEPT !.hold = @ + 1] ELSE NoPos
  /\ through' = IF Looks(b, inGo)
                THEN through \cup {d \in Dir : Breached(d, block[d], b.cl, Breach)}
                ELSE through
  /\ UNCHANGED <<engine, trend>>

Feed == \E b \in Bar, inGo \in BOOLEAN, shift \in Dir \cup {"none"} : LtfBar(b, inGo, shift)

Next ==
  \/ \E d \in Dir \cup {"none"}, range \in Range, cl \in Prices, side \in Dir \cup {"none"} :
       H4Candle(d, range, cl, side)
  \/ Feed

Spec == Init /\ [][Next]_vars

----------------------------------------------------------------------------
TypeOK ==
  /\ engine \in Engines
  /\ trend \in Dir \cup {"none"}
  /\ pos = NoPos \/ pos \in Positions
  /\ through \subseteq Dir

\* A trade never loses more than it put at risk nor wins more than rr_target times that,
\* whichever of the four exits ended it.
RealizedWithinBracket == row = NoTrade \/ row.gain \in -row.risk .. RR * row.risk

\* No trade opens on a block that the engine has seen a bar close through.
EntersStandingBlock ==
  [][pos' # NoPos /\ pos' # pos /\ pos'.hold = 0 => pos'.dir \notin through']_vars
=============================================================================
