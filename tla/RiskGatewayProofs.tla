------------------------- MODULE RiskGatewayProofs -------------------------
(***************************************************************************)
(* Theorems about RiskGateway for every value of its constants: whatever   *)
(* the limits and the inputs, an approved order respects every cap, and    *)
(* alerts in a row end in a freeze.                                        *)
(***************************************************************************)
EXTENDS RiskGateway, TLAPS

----------------------------------------------------------------------------
\* The size

\* What a floor division leaves is not above the dividend.
LEMMA FloorBound ==
  ASSUME NEW x \in Int, NEW y \in Nat \ {0}
  PROVE  /\ x \div y \in Int
         /\ y * (x \div y) <= x
OBVIOUS

\* A product grows with its factor.
LEMMA ProductGrows ==
  ASSUME NEW c \in Nat, NEW x \in Int, NEW y \in Int, x <= y
  PROVE  c * x <= c * y
OBVIOUS

\* The quantities of an input are whole numbers, the divisors positive.
LEMMA InputTypes ==
  ASSUME NEW p \in Plans, NEW a \in Accounts, NEW m \in Markets
  PROVE  /\ UnitPrice(p, m) \in Nat \ {0}
         /\ p.bias # "flat" => RiskPerUnit(p, m) \in Nat \ {0}
         /\ RiskBudget(p, a) \in Nat
         /\ ExposureBudget(a) \in Int
         /\ a.buyingPower \in Nat
         /\ a.exposure \in Nat
         /\ a.equity \in Nat
<1>1. p \in Plan /\ a \in Account /\ m \in Market  BY InputAssumption
<1>2. /\ p.entry \in Nat \ {0}
      /\ p.stop \in Nat \ {0}
      /\ p.riskPct \in {1, 2}
      /\ m.multiplier \in Nat \ {0}
      /\ a.buyingPower \in Nat
      /\ a.exposure \in Nat
      /\ a.equity \in Nat
      /\ p.alert \in BOOLEAN
  BY <1>1 DEF Plan, Account, Market, Price
<1>3. UnitPrice(p, m) \in Nat \ {0}  BY <1>2 DEF UnitPrice
<1>4. ASSUME p.bias # "flat" PROVE RiskPerUnit(p, m) \in Nat \ {0}
  <2>1. p.entry # p.stop  BY <1>4, InputAssumption
  <2>2. Distance(p) \in Nat \ {0}  BY <1>2, <2>1 DEF Distance, Abs
  <2> QED  BY <1>2, <2>2 DEF RiskPerUnit
<1>5. Lesser(p.riskPct, MaxRiskPct) \in Nat
  BY <1>2, LimitAssumption DEF Lesser
<1>6. (IF p.alert THEN AlertSizePct ELSE 100) \in Nat
  BY LimitAssumption
<1>7. RiskBudget(p, a) \in Nat
  BY <1>2, <1>5, <1>6 DEF RiskBudget
<1>8. ExposureBudget(a) \in Int
  BY <1>2, LimitAssumption DEF ExposureBudget
<1> QED  BY <1>2, <1>3, <1>4, <1>7, <1>8

\* An approved size is positive and not above any of the three.
LEMMA QtyIsLeast ==
  ASSUME NEW p \in Plans, NEW a \in Accounts, NEW m \in Markets,
         p.bias # "flat", Approves(p, a, m)
  PROVE  /\ Qty(p, a, m) \in Nat \ {0}
         /\ Qty(p, a, m) <= QtyByRisk(p, a, m)
         /\ Qty(p, a, m) <= QtyByExposure(p, a, m)
         /\ Qty(p, a, m) <= QtyByPower(p, a, m)
<1>1. /\ 10000 * RiskPerUnit(p, m) \in Nat \ {0}
      /\ 100 * UnitPrice(p, m) \in Nat \ {0}
      /\ UnitPrice(p, m) \in Nat \ {0}
  BY InputTypes
<1>2. /\ QtyByRisk(p, a, m) \in Int
      /\ QtyByExposure(p, a, m) \in Int
      /\ QtyByPower(p, a, m) \in Int
  BY <1>1, InputTypes, FloorBound DEF QtyByRisk, QtyByExposure, QtyByPower
<1>3. /\ QtyByRisk(p, a, m) > 0
      /\ QtyByExposure(p, a, m) > 0
      /\ QtyByPower(p, a, m) > 0
  BY DEF Approves
<1> QED  BY <1>2, <1>3 DEF Qty, Greater, Lesser

\* An approved size fits every budget.
LEMMA QtyFits ==
  ASSUME NEW p \in Plans, NEW a \in Accounts, NEW m \in Markets,
         p.bias # "flat", Approves(p, a, m)
  PROVE  LET q == Qty(p, a, m)
         IN  /\ (10000 * RiskPerUnit(p, m)) * q <= RiskBudget(p, a)
             /\ (100 * UnitPrice(p, m)) * q <= ExposureBudget(a)
             /\ UnitPrice(p, m) * q <= a.buyingPower
<1> DEFINE q == Qty(p, a, m)
           r == 10000 * RiskPerUnit(p, m)
           e == 100 * UnitPrice(p, m)
           u == UnitPrice(p, m)
<1>1. r \in Nat \ {0} /\ e \in Nat \ {0} /\ u \in Nat \ {0}  BY InputTypes
<1>2. /\ RiskBudget(p, a) \in Int
      /\ ExposureBudget(a) \in Int
      /\ a.buyingPower \in Int
  BY InputTypes
<1>3. /\ q \in Int
      /\ q <= RiskBudget(p, a) \div r
      /\ q <= ExposureBudget(a) \div e
      /\ q <= a.buyingPower \div u
  BY QtyIsLeast DEF QtyByRisk, QtyByExposure, QtyByPower
<1> HIDE DEF q, r, e, u
<1>4. r * q <= RiskBudget(p, a)
  <2>1. RiskBudget(p, a) \div r \in Int /\ r * (RiskBudget(p, a) \div r) <= RiskBudget(p, a)
    BY <1>1, <1>2, FloorBound
  <2>2. r * q <= r * (RiskBudget(p, a) \div r)
    BY <1>1, <1>3, <2>1, ProductGrows
  <2>3. r * q \in Int /\ r * (RiskBudget(p, a) \div r) \in Int
    BY <1>1, <1>3, <2>1
  <2> QED  BY <1>2, <2>1, <2>2, <2>3
<1>5. e * q <= ExposureBudget(a)
  <2>1. ExposureBudget(a) \div e \in Int /\ e * (ExposureBudget(a) \div e) <= ExposureBudget(a)
    BY <1>1, <1>2, FloorBound
  <2>2. e * q <= e * (ExposureBudget(a) \div e)
    BY <1>1, <1>3, <2>1, ProductGrows
  <2>3. e * q \in Int /\ e * (ExposureBudget(a) \div e) \in Int
    BY <1>1, <1>3, <2>1
  <2> QED  BY <1>2, <2>1, <2>2, <2>3
<1>6. u * q <= a.buyingPower
  <2>1. a.buyingPower \div u \in Int /\ u * (a.buyingPower \div u) <= a.buyingPower
    BY <1>1, <1>2, FloorBound
  <2>2. u * q <= u * (a.buyingPower \div u)
    BY <1>1, <1>3, <2>1, ProductGrows
  <2>3. u * q \in Int /\ u * (a.buyingPower \div u) \in Int
    BY <1>1, <1>3, <2>1
  <2> QED  BY <1>2, <2>1, <2>2, <2>3
<1> QED  BY <1>4, <1>5, <1>6 DEF q, r, e, u

----------------------------------------------------------------------------
\* The invariants

\* The inductive invariant about decisions: an order is what the checks approve,
\* in the size they compute.
DecisionInv ==
  decision.verdict = "order" =>
    /\ decision.plan \in Plans
    /\ decision.account \in Accounts
    /\ decision.market \in Markets
    /\ decision.plan.bias # "flat"
    /\ Approves(decision.plan, decision.account, decision.market)
    /\ decision.qty = Qty(decision.plan, decision.account, decision.market)

\* The inductive invariant about the breaker: its count falls behind the alerts in
\* a row by less than the configured number, and only by a thaw, after which there
\* is no freeze to thaw.
BreakerInv ==
  /\ alerts <= streak
  /\ streak - alerts < AlertCount
  /\ freezeUntil # NoTime /\ alerts < AlertCount => streak = alerts

\* Every quote of the clock is a time.
LEMMA ClockType ==
  ASSUME now \in Nat, NEW t \in now .. Lesser(now + MaxStep, MaxTime)
  PROVE  t \in Nat
BY BreakerAssumption DEF Lesser

\* A step keeps the types of the clock, the breaker and the streak.
LEMMA BreakerTyped ==
  ASSUME TypeOK, NEW p \in Plans, NEW t \in Nat, Breaker(p, t)
  PROVE  alerts' \in Nat /\ freezeUntil' \in Nat \cup {NoTime}
<1>1. Counted(p) \in Nat  BY DEF TypeOK, Counted
<1>2. FreezeSet(p, t) \in Nat \cup {NoTime}
  BY BreakerAssumption DEF TypeOK, FreezeSet
<1> QED  BY <1>1, <1>2 DEF Breaker

\* An evaluation ends in a decision of the right shape.
LEMMA DecidedTyped ==
  ASSUME NEW p \in Plans, NEW a \in Accounts, NEW m \in Markets, NEW q \in Nat,
         NEW v \in {"flat", "frozen", "rejected", "order"}
  PROVE  /\ Decided(v, p, a, m, q) \in
              [verdict : {"flat", "frozen", "rejected", "order"}, plan : Plans,
               account : Accounts, market : Markets, qty : Nat]
         /\ Decided(v, p, a, m, q).verdict = v
         /\ Decided(v, p, a, m, q).qty = q
BY DEF Decided

\* Every variable keeps its type, and no order is for nothing.
THEOREM TypeCorrect == Spec => []TypeOK
<1>1. Init => TypeOK
  BY DEF Init, TypeOK, NoDecision
<1>2. TypeOK /\ [Next]_vars => TypeOK'
  <2> SUFFICES ASSUME TypeOK, [Next]_vars PROVE TypeOK'  OBVIOUS
  <2>1. ASSUME NEW p \in Plans, NEW a \in Accounts, NEW m \in Markets,
               NEW t \in now .. Lesser(now + MaxStep, MaxTime), EvaluateFlat(p, a, m, t)
        PROVE  TypeOK'
    <3>1. t \in Nat  BY ClockType DEF TypeOK
    <3>2. decision' = Decided("flat", p, a, m, 0)  BY <2>1 DEF EvaluateFlat
    <3>3. alerts' \in Nat /\ streak' \in Nat /\ freezeUntil' = freezeUntil /\ now' = t
      BY <2>1 DEF EvaluateFlat, Clock, TypeOK
    <3> QED  BY <3>1, <3>2, <3>3, DecidedTyped DEF TypeOK
  <2>2. ASSUME NEW p \in Plans, NEW a \in Accounts, NEW m \in Markets,
               NEW t \in now .. Lesser(now + MaxStep, MaxTime), EvaluateFrozen(p, a, m, t)
        PROVE  TypeOK'
    <3>1. t \in Nat  BY ClockType DEF TypeOK
    <3>2. decision' = Decided("frozen", p, a, m, 0)  BY <2>2 DEF EvaluateFrozen
    <3>3. Breaker(p, t) /\ streak' \in Nat /\ now' = t
      BY <2>2 DEF EvaluateFrozen, Observed, Clock, TypeOK
    <3> QED  BY <3>1, <3>2, <3>3, DecidedTyped, BreakerTyped DEF TypeOK
  <2>3. ASSUME NEW p \in Plans, NEW a \in Accounts, NEW m \in Markets,
               NEW t \in now .. Lesser(now + MaxStep, MaxTime), EvaluateChecked(p, a, m, t)
        PROVE  TypeOK'
    <3>1. t \in Nat  BY ClockType DEF TypeOK
    <3>2. Breaker(p, t) /\ streak' \in Nat /\ now' = t
      BY <2>3 DEF EvaluateChecked, Observed, Clock, TypeOK
    <3>3. alerts' \in Nat /\ freezeUntil' \in Nat \cup {NoTime}
      BY <3>1, <3>2, BreakerTyped
    <3>4. CASE Approves(p, a, m)
      <4>1. decision' = Decided("order", p, a, m, Qty(p, a, m))
        BY <2>3, <3>4 DEF EvaluateChecked
      <4>2. Qty(p, a, m) \in Nat /\ Qty(p, a, m) > 0
        BY <2>3, <3>4, QtyIsLeast DEF EvaluateChecked
      <4>3. /\ decision' \in [verdict : {"flat", "frozen", "rejected", "order"}, plan : Plans,
                              account : Accounts, market : Markets, qty : Nat]
            /\ decision'.qty > 0
        BY <4>1, <4>2, DecidedTyped
      <4> QED  BY <3>1, <3>2, <3>3, <4>3 DEF TypeOK
    <3>5. CASE ~Approves(p, a, m)
      <4>1. decision' = Decided("rejected", p, a, m, 0)
        BY <2>3, <3>5 DEF EvaluateChecked
      <4>2. /\ decision' \in [verdict : {"flat", "frozen", "rejected", "order"}, plan : Plans,
                              account : Accounts, market : Markets, qty : Nat]
            /\ decision'.verdict # "order"
        BY <4>1, DecidedTyped
      <4> QED  BY <3>1, <3>2, <3>3, <4>2 DEF TypeOK
    <3> QED  BY <3>4, <3>5
  <2>4. CASE NewGateway
    BY <2>4 DEF NewGateway, NoDecision, TypeOK
  <2>5. CASE UNCHANGED vars
    BY <2>5 DEF vars, breaker, TypeOK
  <2> QED  BY <2>1, <2>2, <2>3, <2>4, <2>5 DEF Next
<1> QED  BY <1>1, <1>2, PTL DEF Spec

\* An approved order is within the risk budget, the exposure cap and the buying
\* power at once, for all limits and all inputs.
THEOREM OrdersWithinAllCaps == Spec => []WithinAllCaps
<1>1. Init => DecisionInv
  BY DEF Init, DecisionInv, NoDecision
<1>2. DecisionInv /\ [Next]_vars => DecisionInv'
  <2> SUFFICES ASSUME DecisionInv, [Next]_vars PROVE DecisionInv'  OBVIOUS
  <2>1. ASSUME NEW p \in Plans, NEW a \in Accounts, NEW m \in Markets, NEW t,
               EvaluateFlat(p, a, m, t) \/ EvaluateFrozen(p, a, m, t)
        PROVE  DecisionInv'
    BY <2>1 DEF EvaluateFlat, EvaluateFrozen, Decided, DecisionInv
  <2>2. ASSUME NEW p \in Plans, NEW a \in Accounts, NEW m \in Markets, NEW t,
               EvaluateChecked(p, a, m, t)
        PROVE  DecisionInv'
    <3>1. CASE Approves(p, a, m)
      <4>1. decision' = [verdict |-> "order", plan |-> p, account |-> a, market |-> m,
                         qty |-> Qty(p, a, m)]
        BY <2>2, <3>1 DEF EvaluateChecked, Decided
      <4>2. p.bias # "flat"  BY <2>2 DEF EvaluateChecked
      <4> QED  BY <3>1, <4>1, <4>2 DEF DecisionInv
    <3>2. CASE ~Approves(p, a, m)
      BY <2>2, <3>2 DEF EvaluateChecked, Decided, DecisionInv
    <3> QED  BY <3>1, <3>2
  <2>3. CASE NewGateway
    BY <2>3 DEF NewGateway, NoDecision, DecisionInv
  <2>4. CASE UNCHANGED vars
    BY <2>4 DEF vars, DecisionInv
  <2> QED  BY <2>1, <2>2, <2>3, <2>4 DEF Next
<1>3. DecisionInv => WithinAllCaps
  <2> SUFFICES ASSUME DecisionInv, decision.verdict = "order" PROVE WithinAllCaps
    BY DEF WithinAllCaps
  <2> DEFINE p == decision.plan
             a == decision.account
             m == decision.market
             q == decision.qty
             r == RiskPerUnit(p, m)
             u == UnitPrice(p, m)
  <2>1. /\ p \in Plans /\ a \in Accounts /\ m \in Markets
        /\ p.bias # "flat"
        /\ Approves(p, a, m)
        /\ q = Qty(p, a, m)
    BY DEF DecisionInv
  <2>2. /\ (10000 * r) * q <= RiskBudget(p, a)
        /\ (100 * u) * q <= ExposureBudget(a)
        /\ u * q <= a.buyingPower
    BY <2>1, QtyFits
  <2>3. /\ q \in Nat
        /\ r \in Nat
        /\ u \in Nat
        /\ a.equity \in Nat
        /\ a.exposure \in Nat
        /\ MaxExposurePct \in Nat
    BY <2>1, InputTypes, QtyIsLeast, LimitAssumption
  <2>4. RiskBudget(p, a) = (IF p.alert THEN AlertSizePct ELSE 100)
                             * Lesser(p.riskPct, MaxRiskPct) * a.equity
    BY DEF RiskBudget
  <2>5. ExposureBudget(a) = MaxExposurePct * a.equity - 100 * a.exposure
    BY DEF ExposureBudget
  <2> HIDE DEF p, a, m, q, r, u
  <2>6. (10000 * r) * q = 10000 * q * r  BY <2>3
  <2>7. u * q = q * u  BY <2>3
  <2>8. 100 * (a.exposure + q * u) <= MaxExposurePct * a.equity
    <3> DEFINE n == q * u
               c == MaxExposurePct * a.equity
    <3>1. n \in Nat /\ c \in Nat  BY <2>3
    <3>2. (100 * u) * q = 100 * n  BY <2>3
    <3>3. 100 * n <= c - 100 * a.exposure  BY <2>2, <2>5, <3>2
    <3> HIDE DEF n, c
    <3>4. 100 * (a.exposure + n) <= c  BY <2>3, <3>1, <3>3
    <3> QED  BY <3>4 DEF n, c
  <2> QED  BY <2>2, <2>4, <2>6, <2>7, <2>8 DEF WithinAllCaps, p, a, m, q, r, u
<1> QED  BY <1>1, <1>2, <1>3, PTL DEF Spec

\* Alerts in a row end in a freeze, whatever the configured count, the freeze time
\* and the gaps between two evaluations.
THEOREM LongStreakFreezes == Spec => []LongStreakIsFrozen
<1> DEFINE Inv == BreakerInv /\ LongStreakIsFrozen
<1>1. Init => Inv
  BY BreakerAssumption DEF Init, BreakerInv, LongStreakIsFrozen, NoDecision
<1>2. TypeOK /\ Inv /\ [Next]_vars => Inv'
  <2> SUFFICES ASSUME TypeOK, Inv, [Next]_vars PROVE Inv'  OBVIOUS
  <2>1. ASSUME NEW p \in Plans, NEW a \in Accounts, NEW m \in Markets, NEW t \in Nat,
               EvaluateFlat(p, a, m, t)
        PROVE  Inv'
    <3>1. decision'.verdict = "flat"  BY <2>1 DEF EvaluateFlat, Decided
    <3>2. BreakerInv'
      BY <2>1, BreakerAssumption DEF EvaluateFlat, BreakerInv, TypeOK
    <3> QED  BY <3>1, <3>2 DEF LongStreakIsFrozen
  <2>2. ASSUME NEW p \in Plans, NEW a \in Accounts, NEW m \in Markets, NEW t \in Nat,
               EvaluateFrozen(p, a, m, t)
        PROVE  Inv'
    <3>1. decision'.verdict = "frozen"  BY <2>2 DEF EvaluateFrozen, Decided
    <3>2. alerts' = Counted(p) /\ freezeUntil' = FreezeSet(p, t)
      BY <2>2, BreakerAssumption
         DEF EvaluateFrozen, Breaker, Frozen, Thaws, FreezeSet, TypeOK, NoTime
    <3>3. BreakerInv'
      BY <2>2, <3>2, BreakerAssumption
         DEF EvaluateFrozen, Observed, BreakerInv, Counted, FreezeSet, TypeOK
    <3> QED  BY <3>1, <3>3 DEF LongStreakIsFrozen
  <2>3. ASSUME NEW p \in Plans, NEW a \in Accounts, NEW m \in Markets, NEW t \in Nat,
               EvaluateChecked(p, a, m, t)
        PROVE  Inv'
    <3>1. CASE ~p.alert
      <4>1. streak' = 0 /\ alerts' = 0
        BY <2>3, <3>1 DEF EvaluateChecked, Observed, Breaker, Counted
      <4> QED  BY <4>1, BreakerAssumption DEF BreakerInv, LongStreakIsFrozen
    <3>2. CASE p.alert
      <4>1. streak' = streak + 1 /\ Breaker(p, t)
        BY <2>3, <3>2 DEF EvaluateChecked, Observed
      <4>2. alerts + 1 < AlertCount /\ FreezeSet(p, t) = freezeUntil
        \* otherwise this alert would have frozen the gateway
        BY <2>3, <3>2, BreakerAssumption
           DEF EvaluateChecked, Frozen, FreezeSet, Counted, TypeOK, NoTime
      <4>3. freezeUntil' = NoTime
        BY <2>3, <4>1, <4>2 DEF EvaluateChecked, Breaker, Frozen, Thaws, TypeOK
      <4>4. /\ alerts' <= streak'
            /\ streak' - alerts' < AlertCount
        <5>1. CASE freezeUntil = NoTime
          BY <3>2, <4>1, <4>2, <5>1 DEF Breaker, Thaws, Counted, BreakerInv, TypeOK
        <5>2. CASE freezeUntil # NoTime
          BY <3>2, <4>1, <4>2, <4>3, <5>2, BreakerAssumption
             DEF Breaker, Thaws, Counted, BreakerInv, TypeOK
        <5> QED  BY <5>1, <5>2
      <4>5. streak' < 2 * AlertCount - 1
        BY <4>1, <4>2, BreakerAssumption DEF BreakerInv, TypeOK
      <4>6. streak' \in Nat  BY <4>1 DEF TypeOK
      <4>7. LongStreakIsFrozen'
        BY <4>5, <4>6, BreakerAssumption DEF LongStreakIsFrozen
      <4> QED  BY <4>3, <4>4, <4>7 DEF BreakerInv
    <3> QED  BY <3>1, <3>2
  <2>4. CASE NewGateway
    BY <2>4, BreakerAssumption DEF NewGateway, NoDecision, BreakerInv, LongStreakIsFrozen
  <2>5. CASE UNCHANGED vars
    BY <2>5 DEF vars, breaker, BreakerInv, LongStreakIsFrozen
  <2> QED  BY <2>1, <2>2, <2>3, <2>4, <2>5, ClockType DEF Next, TypeOK
<1> QED  BY <1>1, <1>2, TypeCorrect, PTL DEF Spec

\* A freeze was set at a time that has passed, so a later alert cannot shorten it.
FreezeWasSet == freezeUntil <= now + FreezeTime

LEMMA FreezeTimeKnown == Spec => []FreezeWasSet
<1>1. Init => FreezeWasSet
  BY BreakerAssumption DEF Init, FreezeWasSet, NoTime
<1>2. TypeOK /\ FreezeWasSet /\ [Next]_vars => FreezeWasSet'
  <2> SUFFICES ASSUME TypeOK, FreezeWasSet, [Next]_vars PROVE FreezeWasSet'  OBVIOUS
  <2>1. ASSUME NEW p \in Plans, NEW t \in now .. Lesser(now + MaxStep, MaxTime), now' = t,
               freezeUntil' \in {freezeUntil, FreezeSet(p, t), NoTime}
        PROVE  FreezeWasSet'
    <3>1. t \in Nat /\ t >= now  BY ClockType DEF TypeOK
    <3> QED  BY <2>1, <3>1, BreakerAssumption DEF FreezeWasSet, FreezeSet, TypeOK, NoTime
  <2>2. ASSUME NEW p \in Plans, NEW a \in Accounts, NEW m \in Markets,
               NEW t \in now .. Lesser(now + MaxStep, MaxTime),
               \/ EvaluateFlat(p, a, m, t)
               \/ EvaluateFrozen(p, a, m, t)
               \/ EvaluateChecked(p, a, m, t)
        PROVE  now' = t /\ freezeUntil' \in {freezeUntil, FreezeSet(p, t), NoTime}
    BY <2>2 DEF EvaluateFlat, EvaluateFrozen, EvaluateChecked, Clock, Breaker
  <2>3. CASE NewGateway
    BY <2>3, BreakerAssumption DEF NewGateway, FreezeWasSet, TypeOK, NoTime
  <2>4. CASE UNCHANGED vars
    BY <2>4 DEF vars, breaker, FreezeWasSet
  <2> QED  BY <2>1, <2>2, <2>3, <2>4 DEF Next
<1> QED  BY <1>1, <1>2, TypeCorrect, PTL DEF Spec

\* A freeze is kept until its time: no entry is approved and it is not shortened.
THEOREM FreezeIsKept == Spec => FreezeHolds
<1>1. TypeOK /\ FreezeWasSet /\ [Next]_vars
        => [ /\ freezeUntil # NoTime
             /\ now' < freezeUntil
             /\ decision' # NoDecision
             => /\ decision'.verdict # "order"
                /\ freezeUntil' >= freezeUntil ]_vars
  <2> SUFFICES ASSUME TypeOK, FreezeWasSet, Next, freezeUntil # NoTime, now' < freezeUntil,
                      decision' # NoDecision
               PROVE  decision'.verdict # "order" /\ freezeUntil' >= freezeUntil
    OBVIOUS
  <2>1. freezeUntil \in Nat  BY DEF TypeOK
  <2>2. ASSUME NEW p \in Plans, NEW a \in Accounts, NEW m \in Markets, NEW t \in Nat,
               EvaluateFlat(p, a, m, t)
        PROVE  decision'.verdict # "order" /\ freezeUntil' >= freezeUntil
    BY <2>1, <2>2 DEF EvaluateFlat, Decided
  <2>3. ASSUME NEW p \in Plans, NEW t \in Nat, t >= now, t < freezeUntil, Breaker(p, t)
        PROVE  Frozen(p, t) /\ freezeUntil' >= freezeUntil
    \* an alert that sets a new time may only prolong the freeze
    BY <2>1, <2>3, BreakerAssumption
       DEF Frozen, Thaws, FreezeSet, FreezeWasSet, Breaker, NoTime, TypeOK
  <2>4. ASSUME NEW p \in Plans, NEW a \in Accounts, NEW m \in Markets, NEW t \in Nat,
               t >= now, EvaluateFrozen(p, a, m, t)
        PROVE  decision'.verdict # "order" /\ freezeUntil' >= freezeUntil
    BY <2>3, <2>4 DEF EvaluateFrozen, Clock, Decided
  <2>5. ASSUME NEW p \in Plans, NEW a \in Accounts, NEW m \in Markets, NEW t \in Nat,
               t >= now, EvaluateChecked(p, a, m, t)
        PROVE  FALSE
    BY <2>3, <2>5 DEF EvaluateChecked, Clock
  <2>6. \A t \in now .. Lesser(now + MaxStep, MaxTime) : t \in Nat /\ t >= now
    BY ClockType DEF TypeOK
  <2> QED  BY <2>2, <2>4, <2>5, <2>6 DEF Next, NewGateway
<1> QED  BY <1>1, TypeCorrect, FreezeTimeKnown, PTL DEF Spec, FreezeHolds
=============================================================================
