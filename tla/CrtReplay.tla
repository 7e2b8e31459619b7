------------------------------ MODULE CrtReplay ------------------------------
(***************************************************************************)
(* The two candle-range backtests of GOLD_CRT_ICT_PD_Array_Strategy:       *)
(* run_crt_backtest ("crt") and run_crt_full_backtest ("full").  Each walks *)
(* the bars of the entry time frame; before a bar it takes in the candles  *)
(* of the higher time frame that have closed by then.                      *)
(*                                                                         *)
(* The indicators are inputs of a step: whether a candle is wide enough    *)
(* (and, for "crt", volatile enough) to be a reference, on which side of   *)
(* its average it closed, whether a bar lies in the session and whether it *)
(* shifts the market structure.                                            *)
(***************************************************************************)
EXTENDS Bracket

CONSTANTS
  Engines,  \* those of {"crt", "full"} to look at
  Buffer,   \* ATR * sl_buffer_atr
  MinRR     \* min_rr; 0 is off

CrtAssumption == Engines \subseteq {"crt", "full"} /\ Buffer \in Nat /\ MinRR \in Nat

VARIABLES
  engine,   \* which of the two functions runs
  ref,      \* reference candle, NoRef before the first one
  trend,    \* trend_bias
  wick,     \* sweep_lo and sweep_hi, NoWick where nothing was swept
  swept,    \* swept_bull and swept_bear
  traded,   \* ref_traded
  pos,      \* the open trade
  row,      \* the row the last bar wrote, if it wrote one
  entries,  \* entries since the reference was set, counted up to 2 (observed only)
  worst     \* "crt": furthest price against a direction since then, while flat (observed only)

found == <<wick, swept, traded>>
vars == <<engine, ref, trend, found, pos, row, entries, worst>>

NoRef == [hi |-> 0, lo |-> 1]
NoWick == 0
Nothing == [d \in Dir |-> NoWick]

\* The edge of the reference that a trade in direction d wants swept.
Edge(d, r) == IF d = "bull" THEN r.lo ELSE r.hi
Far(d, r)  == IF d = "bull" THEN r.hi ELSE r.lo

\* The price further against d, of what is known and what a bar shows.
Deeper(d, known, price) ==
  IF known = NoWick \/ Gain(d, known, price) < 0 THEN price ELSE known

Init ==
  /\ engine \in Engines
  /\ ref = NoRef
  /\ trend = "none"
  /\ wick = Nothing
  /\ swept = [d \in Dir |-> FALSE]
  /\ traded = FALSE
  /\ pos = NoPos
  /\ row = NoTrade
  /\ entries = 0
  /\ worst = Nothing

----------------------------------------------------------------------------
\* A candle of the higher time frame has closed

SetReference(c) ==
  /\ ref' = c
  /\ wick' = Nothing
  /\ swept' = [d \in Dir |-> FALSE]
  /\ entries' = 0
  /\ worst' = Nothing

KeepReference == UNCHANGED <<ref, wick, swept, entries, worst>>

\* The average is there from some candle on and stays.
CrtCandle(c, side, qualifies) ==
  /\ engine = "crt"
  /\ side = "none" => trend = "none"
  /\ trend' = side
  /\ IF side # "none" /\ qualifies
     THEN SetReference(c) /\ traded' = FALSE
     ELSE KeepReference /\ UNCHANGED traded
  /\ UNCHANGED <<engine, pos, row>>

FullCandle(c, qualifies) ==
  /\ engine = "full"
  /\ IF qualifies THEN SetReference(c) ELSE KeepReference
  /\ UNCHANGED <<engine, trend, traded, pos, row>>

----------------------------------------------------------------------------
\* A bar of the entry time frame

\* The open trade after the bar; an exit leaves a row.
Flat(b) == IF pos = NoPos THEN TRUE ELSE ExitReason(pos, b) # "open"

Row(b) ==
  IF pos # NoPos /\ Flat(b) THEN Trade(pos, b, ExitReason(pos, b)) ELSE NoTrade

Held == IF pos = NoPos THEN NoPos ELSE [pos EXCEPT !.hold = @ + 1]

\* What has been swept once the bar has been looked at.
Swept(b) == [d \in Dir |-> swept[d] \/ Gain(d, Edge(d, ref), Worst(d, b)) < 0]

Wick(b) ==
  [d \in Dir |-> IF Gain(d, Edge(d, ref), Worst(d, b)) < 0
                 THEN Deeper(d, wick[d], Worst(d, b)) ELSE wick[d]]

Observe(b) ==
  worst' = IF engine = "full" \/ ref = NoRef \/ ~Flat(b) THEN worst
           ELSE [d \in Dir |-> Deeper(d, worst[d], Worst(d, b))]

StopAt(d, b) == Along(d, Wick(b)[d], -Buffer)

\* The close is back inside the range: "crt" wants it past the swept edge.
BackInside(d, cl) ==
  /\ Gain(d, Edge(d, ref), cl) >= (IF engine = "crt" THEN 1 ELSE 0)
  /\ Gain(d, cl, Far(d, ref)) >= 0

WorthIt(d, b) ==
  LET reward == Gain(d, b.cl, Far(d, ref))
      risk == Gain(d, StopAt(d, b), b.cl)
  IN  /\ risk > 0
      /\ MinRR > 0 => reward >= MinRR * risk

Setup(d, b) == Swept(b)[d] /\ BackInside(d, b.cl)

\* Mutant: the reference may be traded again.
Bug_Scans(b, inSession) ==
  Flat(b) /\ ref # NoRef /\ (IF engine = "crt" THEN trend # "none" ELSE inSession)

\* The bar is looked at for a sweep: "full" does so in the session only.
Scans(b, inSession) ==
  /\ Flat(b)
  /\ ref # NoRef
  /\ IF engine = "crt" THEN ~traded /\ trend # "none" ELSE inSession

Enter(d, b) ==
  /\ pos' = Open(d, b.cl, StopAt(d, b), Far(d, ref))
  /\ entries' = IF entries = 2 THEN 2 ELSE entries + 1

Stay(b) ==
  /\ pos' = IF Flat(b) THEN NoPos ELSE Held
  /\ UNCHANGED entries

\* Mutant: only the wick of the first sweeping bar is kept.
Bug_Track(b) ==
  /\ swept' = Swept(b)
  /\ wick' = [d \in Dir |-> IF Swept(b)[d] /\ ~swept[d] THEN Worst(d, b) ELSE wick[d]]

Track(b) == swept' = Swept(b) /\ wick' = Wick(b)

\* The bar does not concern the setup.
Pass(b, inSession) ==
  /\ ~Scans(b, inSession)
  /\ Stay(b)
  /\ UNCHANGED found

CrtScan(b, inSession) ==
  /\ engine = "crt"
  /\ Scans(b, inSession)
  /\ Track(b)
  /\ IF inSession /\ Setup(trend, b) /\ WorthIt(trend, b)
     THEN Enter(trend, b) /\ traded' = TRUE
     ELSE Stay(b) /\ UNCHANGED traded

\* After an entry the same direction waits for another sweep; the wick stays.
FullScan(b, inSession, shift) ==
  /\ engine = "full"
  /\ Scans(b, inSession)
  /\ UNCHANGED traded
  /\ IF shift \in Dir /\ Setup(shift, b) /\ WorthIt(shift, b)
     THEN /\ Enter(shift, b)
          /\ swept' = [Swept(b) EXCEPT ![shift] = FALSE]
          /\ wick' = Wick(b)
     ELSE Stay(b) /\ Track(b)

\* "crt" does not look at the shift.
EntryBar(b, inSession, shift) ==
  /\ engine = "crt" => shift = "none"
  /\ \/ Pass(b, inSession)
     \/ CrtScan(b, inSession)
     \/ FullScan(b, inSession, shift)
  /\ row' = Row(b)
  /\ Observe(b)
  /\ UNCHANGED <<engine, ref, trend>>

----------------------------------------------------------------------------
Candle ==
  \E c \in Range, qualifies \in BOOLEAN :
    \/ \E side \in Dir \cup {"none"} : CrtCandle(c, side, qualifies)
    \/ FullCandle(c, qualifies)

Feed == \E b \in Bar, inSession \in BOOLEAN, shift \in Dir \cup {"none"} :
          EntryBar(b, inSession, shift)

Next == Candle \/ Feed

Spec == Init /\ [][Next]_vars

----------------------------------------------------------------------------
TypeOK ==
  /\ engine \in Engines
  /\ ref = NoRef \/ ref \in Range
  /\ trend \in Dir \cup {"none"}
  /\ wick \in [Dir -> Prices \cup {NoWick}]
  /\ swept \in [Dir -> BOOLEAN]
  /\ traded \in BOOLEAN
  /\ pos = NoPos \/ pos \in Positions
  /\ entries \in 0..2
  /\ worst \in [Dir -> Prices \cup {NoWick}]

\* A reference candle opens one trade, although run_crt_backtest goes on tracking sweeps after
\* it, closes it on a later bar and may see the setup again.  (run_crt_full_backtest claims the
\* same in its docstring and keeps no such flag; it is left out here.)
OneTradePerReference == engine = "crt" => entries =< 1

\* "SL goes below the actual sweep low wick": when a trade opens its stop is at least the buffer
\* away from every price that the bars since the reference showed while no trade was open.
StopBeyondWick ==
  [][engine = "crt" /\ entries' # entries /\ entries' > 0 =>
       Gain(pos'.dir, worst'[pos'.dir], pos'.stop) =< -Buffer]_vars

\* No row loses more than the trade put at risk: the stop stays where it was and ends the trade
\* on the first bar that touches it, before the target and the clock are asked.
RealizedWithinRisk == row # NoTrade => row.risk > 0 /\ row.gain >= -row.risk
=============================================================================
