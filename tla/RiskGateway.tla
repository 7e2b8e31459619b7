---------------------------- MODULE RiskGateway ----------------------------
(***************************************************************************)
(* The deterministic risk gateway of trading-system: RiskGateway.evaluate  *)
(* with its checks, the sizing to the most binding constraint, and the     *)
(* VolatilityCircuitBreaker it keeps between two calls.                    *)
(*                                                                         *)
(* One action per way through evaluate, and one for a new process, which   *)
(* builds a new gateway.  Prices and money are whole numbers of the        *)
(* smallest unit; the limits that the code writes as fractions are given   *)
(* in percent (MinStopMille: in thousandths), so every comparison of the   *)
(* code is kept without its division.                                      *)
(***************************************************************************)
EXTENDS Integers

CONSTANTS
  MaxTime,         \* bound on the clock
  MaxStep,         \* longest gap between two evaluations
  MaxStreak,       \* bound on the alerts in a row
  AlertCount,      \* volatility_circuit_breaker_count
  FreezeTime,      \* volatility_freeze_minutes
  MaxRiskPct,      \* max_per_trade_risk_pct
  MinRR,           \* min_reward_to_risk
  MinStopMille,    \* min_stop_distance_pct
  StopAtrPct,      \* min_stop_atr_mult
  MaxExposurePct,  \* max_concurrent_exposure_pct
  MaxDrawdownPct,  \* max_account_drawdown_pct
  PdtEquity,       \* pdt_min_equity
  PdtTrades,       \* pdt_max_day_trades
  AlertSizePct,    \* volatility_size_reduction
  AlertStopPct,    \* volatility_stop_atr_mult_scale
  Plans,           \* trade plans the orchestrator may hand over
  Accounts,        \* account snapshots
  Markets          \* market contexts

Price == Nat \ {0}

Plan    == [bias : {"long", "short", "flat"}, alert : BOOLEAN, riskPct : {1, 2},
            entry : Price, stop : Price, target : Int]
Account == [equity : Nat \ {0}, highWater : Nat \ {0}, exposure : Nat,
            buyingPower : Nat, dayTrades : Nat]
Market  == [kind : {"equity", "forex", "crypto"}, shortable : BOOLEAN, ssr : BOOLEAN,
            open : BOOLEAN, atr : Nat, multiplier : Nat \ {0}]

ASSUME BreakerAssumption ==
  /\ {MaxTime, MaxStep, MaxStreak} \subseteq Nat
  /\ AlertCount \in Nat \ {0}
  /\ FreezeTime \in Nat \ {0}

ASSUME LimitAssumption ==
  /\ {MaxRiskPct, MaxExposurePct, MaxDrawdownPct, AlertSizePct} \subseteq 0 .. 100
  /\ {MinRR, MinStopMille, StopAtrPct, PdtEquity, PdtTrades} \subseteq Nat
  /\ AlertStopPct \in Nat /\ AlertStopPct >= 100

ASSUME InputAssumption ==
  /\ Plans \subseteq Plan
  /\ \A p \in Plans : p.bias # "flat" => p.entry # p.stop
  /\ Accounts \subseteq Account
  /\ Markets \subseteq Market

VARIABLES
  now,          \* datetime.now at the last evaluation
  alerts,       \* _circuit_breaker.consecutive_alerts
  freezeUntil,  \* _circuit_breaker.freeze_until
  decision,     \* the last RiskDecision, with the inputs it judged
  streak        \* directional plans with an alert evaluated in a row (observed only)

breaker == <<alerts, freezeUntil>>
vars == <<now, breaker, decision, streak>>

NoTime == -1
NoDecision == [verdict |-> "none"]

Abs(x) == IF x < 0 THEN -x ELSE x
Lesser(x, y) == IF x <= y THEN x ELSE y
Greater(x, y) == IF x >= y THEN x ELSE y

----------------------------------------------------------------------------
\* The checks

Distance(p) == Abs(p.entry - p.stop)

Geometry(p) ==
  IF p.bias = "long" THEN p.stop < p.entry /\ p.entry < p.target
                     ELSE p.target < p.entry /\ p.entry < p.stop

\* The ATR floor is widened by an alert; the fallback without an ATR is not.
StopWideEnough(p, m) ==
  IF m.atr > 0
    THEN 10000 * Distance(p) >=
           StopAtrPct * (IF p.alert THEN AlertStopPct ELSE 100) * m.atr
    ELSE 1000 * Distance(p) >= MinStopMille * p.entry

NotInDrawdown(a) ==
  100 * Greater(0, a.highWater - a.equity) < MaxDrawdownPct * a.highWater

RewardsRisk(p) ==
  (IF p.bias = "long" THEN p.target - p.entry ELSE p.entry - p.target)
    >= MinRR * Distance(p)

MayShort(p, m) ==
  p.bias = "short" => m.shortable /\ ~(m.kind = "equity" /\ m.ssr)

NotPatternDayTrader(a, m) ==
  m.kind = "equity" => a.equity >= PdtEquity \/ a.dayTrades < PdtTrades

----------------------------------------------------------------------------
\* The size: the most binding of risk, exposure and buying power

UnitPrice(p, m)   == p.entry * m.multiplier
RiskPerUnit(p, m) == Distance(p) * m.multiplier

\* Mutant: the alert does not reduce the size.
Bug_RiskBudget(p, a) == 100 * Lesser(p.riskPct, MaxRiskPct) * a.equity

\* In ten-thousandths of the account.
RiskBudget(p, a) ==
  (IF p.alert THEN AlertSizePct ELSE 100) * Lesser(p.riskPct, MaxRiskPct) * a.equity

\* In hundredths of the account: what the open positions leave of the cap.
ExposureBudget(a) == MaxExposurePct * a.equity - 100 * a.exposure

QtyByRisk(p, a, m)     == RiskBudget(p, a) \div (10000 * RiskPerUnit(p, m))
QtyByExposure(p, a, m) == ExposureBudget(a) \div (100 * UnitPrice(p, m))
QtyByPower(p, a, m)    == a.buyingPower \div UnitPrice(p, m)

\* Mutant: the exposure cap is left out of the minimum.
Bug_Qty(p, a, m) == Greater(0, Lesser(QtyByRisk(p, a, m), QtyByPower(p, a, m)))

Qty(p, a, m) ==
  Greater(0, Lesser(QtyByRisk(p, a, m),
                    Lesser(QtyByExposure(p, a, m), QtyByPower(p, a, m))))

\* Mutant: the exposure check is missing.
Bug_Approves(p, a, m) ==
  /\ Geometry(p)
  /\ StopWideEnough(p, m)
  /\ m.open
  /\ NotInDrawdown(a)
  /\ RewardsRisk(p)
  /\ MayShort(p, m)
  /\ NotPatternDayTrader(a, m)
  /\ QtyByRisk(p, a, m) > 0
  /\ QtyByPower(p, a, m) > 0

Approves(p, a, m) ==
  /\ Geometry(p)
  /\ StopWideEnough(p, m)
  /\ m.open
  /\ NotInDrawdown(a)
  /\ RewardsRisk(p)
  /\ MayShort(p, m)
  /\ NotPatternDayTrader(a, m)
  /\ QtyByRisk(p, a, m) > 0
  /\ QtyByPower(p, a, m) > 0
  /\ QtyByExposure(p, a, m) > 0

Decided(verdict, p, a, m, qty) ==
  [verdict |-> verdict, plan |-> p, account |-> a, market |-> m, qty |-> qty]

----------------------------------------------------------------------------
\* The circuit breaker, at time t

\* record_alert or record_no_alert
Counted(p) == IF p.alert THEN alerts + 1 ELSE 0

\* Mutant: one alert more than configured is needed.
Bug_FreezeSet(p, t) ==
  IF p.alert /\ Counted(p) > AlertCount THEN t + FreezeTime ELSE freezeUntil

FreezeSet(p, t) ==
  IF p.alert /\ Counted(p) >= AlertCount THEN t + FreezeTime ELSE freezeUntil

\* is_frozen, which thaws a freeze whose time has passed and forgets the count.
Frozen(p, t) == FreezeSet(p, t) # NoTime /\ t < FreezeSet(p, t)
Thaws(p, t)  == FreezeSet(p, t) # NoTime /\ t >= FreezeSet(p, t)

\* Mutant: a plan without an alert ends the freeze.
Bug_Breaker(p, t) ==
  /\ alerts' = IF Thaws(p, t) THEN 0 ELSE Counted(p)
  /\ freezeUntil' = IF ~p.alert THEN NoTime ELSE FreezeSet(p, t)

Breaker(p, t) ==
  /\ alerts' = IF Thaws(p, t) THEN 0 ELSE Counted(p)
  /\ freezeUntil' = IF Thaws(p, t) THEN NoTime ELSE FreezeSet(p, t)

----------------------------------------------------------------------------
\* evaluate

Clock(t) == now' = t

\* A flat plan is approved without an order; its alert is not recorded.
EvaluateFlat(p, a, m, t) ==
  /\ p.bias = "flat"
  /\ Clock(t)
  /\ alerts' = IF p.alert THEN alerts ELSE 0
  /\ UNCHANGED freezeUntil
  /\ decision' = Decided("flat", p, a, m, 0)
  /\ streak' = IF p.alert THEN streak ELSE 0

Observed(p) ==
  /\ p.alert => streak < MaxStreak
  /\ streak' = IF p.alert THEN streak + 1 ELSE 0

EvaluateFrozen(p, a, m, t) ==
  /\ p.bias # "flat"
  /\ Frozen(p, t)
  /\ Clock(t)
  /\ Breaker(p, t)
  /\ decision' = Decided("frozen", p, a, m, 0)
  /\ Observed(p)

EvaluateChecked(p, a, m, t) ==
  /\ p.bias # "flat"
  /\ ~Frozen(p, t)
  /\ Clock(t)
  /\ Breaker(p, t)
  /\ decision' = IF Approves(p, a, m) THEN Decided("order", p, a, m, Qty(p, a, m))
                                      ELSE Decided("rejected", p, a, m, 0)
  /\ Observed(p)

\* A new process builds a new gateway: the breaker starts from nothing.
NewGateway ==
  /\ alerts' = 0
  /\ freezeUntil' = NoTime
  /\ decision' = NoDecision
  /\ streak' = 0
  /\ UNCHANGED now

Init ==
  /\ now = 0
  /\ alerts = 0
  /\ freezeUntil = NoTime
  /\ decision = NoDecision
  /\ streak = 0

Next ==
  \/ \E p \in Plans, a \in Accounts, m \in Markets,
        t \in now .. Lesser(now + MaxStep, MaxTime) :
       \/ EvaluateFlat(p, a, m, t)
       \/ EvaluateFrozen(p, a, m, t)
       \/ EvaluateChecked(p, a, m, t)
  \/ NewGateway

Spec == Init /\ [][Next]_vars

----------------------------------------------------------------------------
\* Properties

\* Every variable has its type; an approved order is for at least one unit
\* (SizedOrder.qty has gt=0: a size of zero would raise inside evaluate).
TypeOK ==
  /\ now \in Nat
  /\ alerts \in Nat
  /\ freezeUntil \in Nat \cup {NoTime}
  /\ decision \in {NoDecision} \cup
       [verdict : {"flat", "frozen", "rejected", "order"}, plan : Plans,
        account : Accounts, market : Markets, qty : Nat]
  /\ decision.verdict = "order" => decision.qty > 0
  /\ streak \in Nat

\* An approved order respects every cap at once, whichever of the three sizes was
\* the smallest: the risk budget, halved by an alert; the exposure cap together
\* with what is open already; the buying power.
WithinAllCaps ==
  decision.verdict = "order" =>
    LET p == decision.plan
        a == decision.account
        m == decision.market
        notional == decision.qty * UnitPrice(p, m)
    IN  /\ 10000 * decision.qty * RiskPerUnit(p, m)
             <= (IF p.alert THEN AlertSizePct ELSE 100)
                  * Lesser(p.riskPct, MaxRiskPct) * a.equity
        /\ 100 * (a.exposure + notional) <= MaxExposurePct * a.equity
        /\ notional <= a.buyingPower

\* A freeze lets no entry through before its time, whatever plans come meanwhile:
\* plans without an alert reset the count but do not thaw, alerts only prolong it.
FreezeHolds ==
  [][ /\ freezeUntil # NoTime
      /\ now' < freezeUntil
      /\ decision' # NoDecision
      => /\ decision'.verdict # "order"
         /\ freezeUntil' >= freezeUntil ]_vars

\* Alerts in a row end in a freeze: the thaw may swallow some of them, but after
\* twice the configured count (less one) no entry is approved.
LongStreakIsFrozen ==
  streak >= 2 * AlertCount - 1 => decision.verdict # "order"

\* The configured number of alerts in a row freezes entries.
StreakIsFrozen ==
  streak >= AlertCount => decision.verdict # "order"
=============================================================================
