----------------------------- MODULE CrtReplayV2 -----------------------------
(***************************************************************************)
(* run_crt_v2 of fable5-improved-strategy, which charges costs and whose   *)
(* logic "is otherwise identical to v1": V1 is that engine, and the        *)
(* identity of the two is what this module is there to check.              *)
(***************************************************************************)
EXTENDS Bracket

CONSTANTS
  Buffer, MinRR,
  Spread,  \* spread, charged once for a round trip
  Slip     \* slip_atr * atr_at_exit, charged on a stop

CostAssumption == {Buffer, MinRR, Spread, Slip} \subseteq Nat

VARIABLES
  refHigh, refLow,          \* ref_high below ref_low: there is none yet
  trend,                    \* 1 bull, -1 bear, 0 unknown
  sweptBull, sweptBear, sweepLo, sweepHi,
  refTraded,
  pos,                      \* in_trade, direction, entry, stop, target, hold
  net,                      \* the row the last bar wrote, with its costs
  entries, worst            \* as in CrtReplay (observed only)

sweep == <<sweptBull, sweptBear, sweepLo, sweepHi>>
vars == <<refHigh, refLow, trend, sweep, refTraded, pos, net, entries, worst>>

V1 == INSTANCE CrtReplay
  WITH Engines <- {"crt"}, engine <- "crt",
       ref <- [hi |-> refHigh, lo |-> refLow],
       trend <- CASE trend = 1 -> "bull" [] trend = -1 -> "bear" [] OTHER -> "none",
       swept <- [d \in Dir |-> IF d = "bull" THEN sweptBull ELSE sweptBear],
       wick <- [d \in Dir |-> IF d = "bull" THEN sweepLo ELSE sweepHi],
       traded <- refTraded,
       row <- net.trade

None == 0
NoNet == [trade |-> NoTrade, cost |-> 0]

Init ==
  /\ refHigh = 0 /\ refLow = 1
  /\ trend = 0
  /\ sweptBull = FALSE /\ sweptBear = FALSE
  /\ sweepLo = None /\ sweepHi = None
  /\ refTraded = FALSE
  /\ pos = NoPos
  /\ net = NoNet
  /\ entries = 0
  /\ worst = [d \in Dir |-> None]

Candle(c, side, wide) ==
  /\ side = 0 => trend = 0
  /\ trend' = side
  /\ \/ /\ side # 0 /\ wide
        /\ refHigh' = c.hi /\ refLow' = c.lo
        /\ sweptBull' = FALSE /\ sweptBear' = FALSE
        /\ sweepLo' = None /\ sweepHi' = None
        /\ refTraded' = FALSE
        /\ entries' = 0
        /\ worst' = [d \in Dir |-> None]
     \/ /\ side = 0 \/ ~wide
        /\ UNCHANGED <<refHigh, refLow, sweep, refTraded, entries, worst>>
  /\ UNCHANGED <<pos, net>>

\* Mutant: the target is looked at before the stop.
Bug_Exit(b) ==
  IF pos = NoPos THEN "flat"
  ELSE IF TargetHit(pos, b) THEN "target"
  ELSE IF StopHit(pos, b) THEN "stop"
  ELSE IF pos.hold + 1 >= MaxHold THEN "max_hold" ELSE "open"

\* The stop first, then the target, then the clock.
Exit(b) ==
  IF pos = NoPos THEN "flat"
  ELSE IF StopHit(pos, b) THEN "stop"
  ELSE IF TargetHit(pos, b) THEN "target"
  ELSE IF pos.hold + 1 >= MaxHold THEN "max_hold" ELSE "open"

apply_costs(reason) == Spread + (IF reason = "stop" THEN Slip ELSE 0)

Manage(b) ==
  net' = IF Exit(b) \in {"flat", "open"} THEN NoNet
         ELSE [trade |-> Trade(pos, b, Exit(b)), cost |-> apply_costs(Exit(b))]

Waits(b) == Exit(b) = "open" \/ refTraded \/ refHigh < refLow \/ trend = 0

SweptLow(b)  == sweptBull \/ b.lo < refLow
SweptHigh(b) == sweptBear \/ b.hi > refHigh

LowAfter(b) ==
  IF b.lo < refLow /\ (sweepLo = None \/ b.lo < sweepLo) THEN b.lo ELSE sweepLo
HighAfter(b) ==
  IF b.hi > refHigh /\ (sweepHi = None \/ b.hi > sweepHi) THEN b.hi ELSE sweepHi

Worth(reward, risk) == risk > 0 /\ (MinRR > 0 => reward >= MinRR * risk)

BullSetup(b) ==
  /\ trend = 1 /\ SweptLow(b) /\ refLow < b.cl /\ b.cl =< refHigh
  /\ Worth(refHigh - b.cl, b.cl - (LowAfter(b) - Buffer))

BearSetup(b) ==
  /\ trend = -1 /\ SweptHigh(b) /\ refLow =< b.cl /\ b.cl < refHigh
  /\ Worth(b.cl - refLow, HighAfter(b) + Buffer - b.cl)

Enter(p) == pos' = p /\ refTraded' = TRUE /\ entries' = 1

Keep(b) ==
  /\ pos' = IF Exit(b) = "open" THEN [pos EXCEPT !.hold = @ + 1] ELSE NoPos
  /\ UNCHANGED <<refTraded, entries>>

Look(b, inSession) ==
  /\ ~Waits(b)
  /\ sweptBull' = SweptLow(b) /\ sweepLo' = LowAfter(b)
  /\ sweptBear' = SweptHigh(b) /\ sweepHi' = HighAfter(b)
  /\ \/ /\ inSession /\ BullSetup(b)
        /\ Enter(Open("bull", b.cl, LowAfter(b) - Buffer, refHigh))
     \/ /\ inSession /\ BearSetup(b)
        /\ Enter(Open("bear", b.cl, HighAfter(b) + Buffer, refLow))
     \/ /\ ~(inSession /\ (BullSetup(b) \/ BearSetup(b)))
        /\ Keep(b)

EntryBar(b, inSession) ==
  /\ Manage(b)
  /\ \/ Look(b, inSession)
     \/ Waits(b) /\ Keep(b) /\ UNCHANGED sweep
  /\ V1!Observe(b)
  /\ UNCHANGED <<refHigh, refLow, trend>>

Next ==
  \/ \E c \in Range, side \in -1..1, wide \in BOOLEAN : Candle(c, side, wide)
  \/ \E b \in Bar, inSession \in BOOLEAN : EntryBar(b, inSession)

Spec == Init /\ [][Next]_vars

\* run_crt_v2 does what run_crt_backtest does, its reference, sweeps, trades and rows
\* included; only the costs are its own.
ImplementsV1 == V1!Init /\ [][vars' # vars => V1!Next]_(V1!vars)
=============================================================================
